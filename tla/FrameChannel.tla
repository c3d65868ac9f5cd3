---------------------------- MODULE FrameChannel ----------------------------
(***************************************************************************)
(* What the receive path of the 4G modem promises newwebhandle_entry: the  *)
(* frames of the server are handed over one by one, none lost or twice, in    *)
(* the order of their arrival, and each with the bytes it arrived with.    *)
(*                                                                         *)
(* A frame is [id |-> i, len |-> n]: the i-th frame put on the wire, of    *)
(* which n bytes were stored.  Every byte of frame i is the value i, which *)
(* is enough to tell whose byte a reader got.                              *)
(***************************************************************************)
EXTENDS Naturals, Sequences

CONSTANT MaxLen       \* the longest frame

VARIABLES ended,      \* frames that arrived, whole
          pending,    \* those of them not yet decoded, oldest first
          got         \* the bytes the handler decoded last

abstractVars == <<ended, pending, got>>

\* The bytes of a frame, as the wire carried them.
Bytes(f) == [i \in 1..f.len |-> f.id]

ChannelInit == /\ ended = 0
               /\ pending = <<>>
               /\ got = <<>>

\* The line falls idle after a frame of n bytes: it is queued behind the others.
Announce(n) == /\ ended' = ended + 1
               /\ pending' = Append(pending, [id |-> ended + 1, len |-> n])
               /\ UNCHANGED got

\* The handler decodes the oldest frame and gets exactly its bytes.
Deliver == /\ pending # <<>>
           /\ got' = Bytes(Head(pending))
           /\ pending' = Tail(pending)
           /\ UNCHANGED ended

ChannelNext == (\E n \in 1..MaxLen : Announce(n)) \/ Deliver

ChannelSpec == ChannelInit /\ [][ChannelNext]_abstractVars
=============================================================================
