-------------------------------- MODULE G4Rx --------------------------------
(***************************************************************************)
(* The receive path of the 4G modem (User/Bsp/G4/G4.c, User/Bsp/web/       *)
(* newweb.c): the USART3 interrupt stores each byte of a frame into one of *)
(* NumBufs buffers, moving to the next buffer at the first byte of a       *)
(* frame; the idle-line interrupt that ends the frame writes its length    *)
(* and sends a POINTER to the buffer to a mailbox of MbCap entries; the    *)
(* handler thread takes the pointers, reads the length and decodes the     *)
(* bytes, then acts on the frame (for an unlock, one second) before it     *)
(* comes back for the next one.                                            *)
(*                                                                         *)
(* Nothing tells the interrupt which buffers are still in use: that is the *)
(* number of frames outstanding, which the other end decides.  Window is   *)
(* the assumption made of it.                                              *)
(***************************************************************************)
EXTENDS Naturals, Sequences

CONSTANTS NumBufs,    \* buffers in G4_GET (3)
          BufSize,    \* bytes a buffer accepts (1499)
          MbCap,      \* entries of the mailbox webmsg_recemb (5)
          Window,     \* the most frames the peer leaves undecoded at a time
          MaxFrames   \* bound of the model: frames the peer sends

ASSUME NumBufsAssumption   == NumBufs \in Nat \ {0}
ASSUME BufSizeAssumption   == BufSize \in Nat \ {0}
ASSUME MbCapAssumption     == MbCap \in Nat \ {0}
ASSUME WindowAssumption    == Window \in Nat \ {0}
ASSUME MaxFramesAssumption == MaxFrames \in Nat

VARIABLES G4_GET_POINT,  \* the buffer being filled, or filled last
          getnum,        \* bytes stored of the frame being received
          num,           \* num[b]: length field of buffer b
          data,          \* data[b][i]: the frame whose byte lies at place i of b
          sent,          \* frames whose first byte was received
          mail,          \* the mailbox: pointers, with what they announce
          pc,            \* newwebhandle_entry: "recv", "decode" or "act"
          held,          \* the mail the handler took last
          reclen,        \* the length the handler read for it
          got            \* the bytes it decoded last

isrVars     == <<G4_GET_POINT, getnum, num, data, sent>>
handlerVars == <<pc, held, reclen, got>>
vars        == <<isrVars, mail, handlerVars>>

Buffers  == 0..NumBufs-1
FrameIds == 1..MaxFrames

\* A mail is the address of a buffer; `id' and `len' are the frame its idle
\* interrupt announced with it, history the code does not have.
Mails  == [buf : Buffers, id : FrameIds, len : 1..BufSize]
NoMail == [buf |-> 0, id |-> 0, len |-> 0]

Init == /\ G4_GET_POINT = 0
        /\ getnum = 0
        /\ num = [b \in Buffers |-> 0]
        /\ data = [b \in Buffers |-> [i \in 1..BufSize |-> 0]]
        /\ sent = 0
        /\ mail = <<>>
        /\ pc = "recv"
        /\ held = NoMail
        /\ reclen = 0
        /\ got = <<>>

-----------------------------------------------------------------------------
\* A mail is in use from the idle interrupt to the end of myaes_decrypt, which
\* copies the frame to the handler's own cache.
InUse == Len(mail) + IF pc = "decode" THEN 1 ELSE 0

NextBufOneShort(p) == (p + 1) % (NumBufs - 1)  \* mutant: one buffer is never used
NextBufNoWrap(p)   == p + 1                     \* mutant: the index is not wrapped

NextBuf(p) == (p + 1) % NumBufs

\* RXNE, getnum == 0: the first byte of a frame selects the next buffer.
RxFirst ==
    /\ getnum = 0
    /\ sent < MaxFrames
    /\ InUse < Window
    /\ sent' = sent + 1
    /\ G4_GET_POINT' = NextBuf(G4_GET_POINT)
    /\ data' = [data EXCEPT ![NextBuf(G4_GET_POINT)][1] = sent + 1]
    /\ getnum' = 1
    /\ UNCHANGED <<num, mail, handlerVars>>

\* RXNE, 0 < getnum < 1499: a further byte of the frame.
RxByte ==
    /\ getnum \in 1..BufSize-1
    /\ data' = [data EXCEPT ![G4_GET_POINT][getnum + 1] = sent]
    /\ getnum' = getnum + 1
    /\ UNCHANGED <<G4_GET_POINT, num, sent, mail, handlerVars>>

\* RXNE, getnum == 1499: the byte is read and dropped, no variable changes.

\* The mailbox after rt_mb_send; -RT_EFULL when no entry is free.
SendUrgent(m)   == <<m>> \o mail                \* mutant: queued at the head
SendReplaces(m) == <<m>>                        \* mutant: the earlier mails are lost
Send(m) == IF Len(mail) < MbCap THEN Append(mail, m) ELSE mail

\* IDLE: the frame is complete.  The interrupt ignores the answer of rt_mb_send:
\* a frame that finds the mailbox full is lost.
RxIdle ==
    /\ getnum > 0
    /\ num' = [num EXCEPT ![G4_GET_POINT] = getnum]
    /\ getnum' = 0
    /\ mail' = Send([buf |-> G4_GET_POINT, id |-> sent, len |-> getnum])
    /\ UNCHANGED <<G4_GET_POINT, data, sent, handlerVars>>

-----------------------------------------------------------------------------
\* rt_mb_recv, then reclen is computed from the buffer's num.
Recv ==
    /\ pc = "recv"
    /\ mail # <<>>
    /\ held' = Head(mail)
    /\ reclen' = num[Head(mail).buf]
    /\ mail' = Tail(mail)
    /\ pc' = "decode"
    /\ UNCHANGED <<isrVars, got>>

\* The handler reads the bytes (myaes_decrypt, or cJSON_Parse before
\* authentication) and needs the buffer no more.
Decode ==
    /\ pc = "decode"
    /\ got' = [i \in 1..reclen |-> data[held.buf][i]]
    /\ pc' = "act"
    /\ UNCHANGED <<isrVars, mail, held, reclen>>

\* The command is executed; with "unlock" this includes rt_thread_delay(1000).
Act ==
    /\ pc = "act"
    /\ pc' = "recv"
    /\ UNCHANGED <<isrVars, mail, held, reclen, got>>

Isr     == RxFirst \/ RxByte \/ RxIdle
Handler == Recv \/ Decode \/ Act
Next    == Isr \/ Handler

Spec == Init /\ [][Next]_vars

\* The handler shares the highest priority with one other thread, in slices, and
\* its delays end; frames end because the line falls idle.
FairSpec == Spec /\ WF_vars(Handler) /\ WF_vars(RxIdle)

-----------------------------------------------------------------------------
TypeOK ==
    /\ G4_GET_POINT \in Buffers
    /\ getnum \in 0..BufSize
    /\ num \in [Buffers -> 0..BufSize]
    /\ data \in [Buffers -> [1..BufSize -> 0..MaxFrames]]
    /\ sent \in 0..MaxFrames
    /\ mail \in Seq(Mails)
    /\ pc \in {"recv", "decode", "act"}
    /\ held \in Mails \cup {NoMail}
    /\ reclen \in 0..BufSize

\* Buffer e.buf still holds the frame that mail e announced.
Intact(e) == /\ num[e.buf] = e.len
             /\ \A i \in 1..e.len : data[e.buf][i] = e.id

\* "there are 3, changed every time, so that data is not cleared before it is
\* processed" (G4.c:588): as long as a pointer is queued or being decoded, the
\* interrupt has not touched the frame it announced.
NoOverwrite == /\ \A k \in 1..Len(mail) : Intact(mail[k])
               /\ pc = "decode" => Intact(held) /\ reclen = held.len

\* The receive path is a lossless FIFO channel of whole frames: the pending
\* frames are the one the handler is about to decode, then the mailbox.
Ended   == IF getnum = 0 THEN sent ELSE sent - 1
FramesOf(queue) == [k \in 1..Len(queue) |-> [id |-> queue[k].id, len |-> queue[k].len]]
Pending == FramesOf(IF pc = "decode" THEN <<held>> \o mail ELSE mail)
Channel == INSTANCE FrameChannel
               WITH ended <- Ended, pending <- Pending, MaxLen <- BufSize
ChannelRefinement == Channel!ChannelSpec

\* Even when the ring is overrun, mail k+1 was announced after mail k, and a
\* buffer never holds an older frame than its mail announced: what an overrun
\* handler decodes is a younger frame, or parts of one, never an older one.
NeverOlder ==
    /\ \A k \in 1..Len(mail)-1 : mail[k].id < mail[k+1].id
    /\ \A k \in 1..Len(mail) : \A i \in 1..mail[k].len :
           data[mail[k].buf][i] >= mail[k].id
    /\ pc = "decode" => \A i \in 1..held.len : data[held.buf][i] >= held.id

\* A pointer in the mailbox is eventually taken and its frame decoded.
Announced(i) == \E k \in 1..Len(mail) : mail[k].id = i
EventuallyDecoded ==
    \A i \in FrameIds : Announced(i) ~> (held.id = i /\ pc = "act")
=============================================================================
