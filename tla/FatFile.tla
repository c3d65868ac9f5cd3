------------------------------- MODULE FatFile -------------------------------
(***************************************************************************)
(* A FatFs file object (User/Bsp/FATFS/ff.c) as the lock uses it: one      *)
(* short file at a time, read or written whole from its start.  The object *)
(* is [file, dirty, data]: the file it is open on, or "none", and what was *)
(* written to its sector buffer and not yet to the disk.  A call on an     *)
(* object that is not open does nothing (validate, FR_INVALID_OBJECT), and *)
(* opening takes the object away from whoever had it open, buffer and all. *)
(*                                                                         *)
(* What a file holds is [text, tail]: a password, or the six digits of a   *)
(* temporary code and the count behind them.                               *)
(***************************************************************************)
Str(s)  == [text |-> s, tail |-> ""]
Nothing == [text |-> "nothing", tail |-> "nothing"]  \* a file of no bytes

Closed == [file |-> "none", dirty |-> FALSE, data |-> Nothing]

\* A volume that is not mounted yet has no files to open.
f_open(file, mounted) ==
    IF mounted THEN [file |-> file, dirty |-> FALSE, data |-> Nothing] ELSE Closed

\* What f_read leaves in the caller's buffer; Nothing leaves it as it was.
f_read(files, fp) == CASE fp.file = "none" -> Nothing
                       [] fp.dirty         -> fp.data
                       [] OTHER            -> files[fp.file]

f_write(fp, content) ==
    IF fp.file = "none" THEN fp ELSE [fp EXCEPT !.dirty = TRUE, !.data = content]

\* The files after f_close, which writes a dirty buffer back.
f_closeNoSync(files, fp) == files       \* mutant: the buffer is not written
f_close(files, fp) ==
    IF fp.dirty THEN [files EXCEPT ![fp.file] = fp.data] ELSE files
=============================================================================
