------------------------------- MODULE PortC --------------------------------
(***************************************************************************)
(* The keypad and the flash at work together.  The thread that uses the    *)
(* flash is the server's handler, of priority 3, or a thread of the        *)
(* keypad's own priority 8 (Sliced), whose time slice may end anywhere.    *)
(*                                                                         *)
(* A scan puts back the whole register as it read it.  If the chip select  *)
(* changed in between, the scan moves it: it ends a transfer of the flash, *)
(* or selects the chip on its own.                                         *)
(***************************************************************************)
EXTENDS Keypad, SpiFlash

CONSTANT Sliced

ASSUME SlicedAssumption == Sliced \in BOOLEAN

VARIABLE flipped    \* history: a scan has moved the chip select

vars == <<chipVars, keyVars, diskVars, flipped>>

Init == ChipInit /\ KeypadInit /\ DiskInit /\ flipped = FALSE

\* A thread of priority 8 runs when the handler has nothing to do.
Scan == /\ Sliced \/ todo = <<>>
        /\ \E s \in Scanners : KeyScan(s)
        /\ flipped' = (flipped \/ odr'.sel # odr.sel)
        /\ UNCHANGED diskVars

User == (Press \/ Release) /\ UNCHANGED <<diskVars, flipped>>
Chip == Finish /\ UNCHANGED <<keyVars, diskVars, flipped>>

Next == Scan \/ User \/ Chip \/ (Disk /\ UNCHANGED <<keyVars, flipped>>)

Spec == Init /\ [][Next]_vars

-----------------------------------------------------------------------------
\* A scan between two steps of the disk layer, or the disk layer between two steps
\* of a scan (Key.c:28, 39), does no harm as long as the scan puts the chip select
\* back as it is: only a moved one spoils a sector.
SectorsKept == ~flipped => SectorWritten
=============================================================================
