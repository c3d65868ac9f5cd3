------------------------------ MODULE Mailbox -------------------------------
(***************************************************************************)
(* A mailbox of RT-Thread (ipc.c: rt_mb_create, rt_mb_send_wait,           *)
(* rt_mb_recv): a ring of mails, threads waiting for a mail, threads       *)
(* waiting for room.  Each stretch between disabling and enabling the      *)
(* interrupts is one step.  Interrupts send too and never wait, as the     *)
(* receive interrupt of the modem does.                                    *)
(***************************************************************************)
EXTENDS IpcThread

CONSTANTS Mails, NoMail, Size

ASSUME SizeAssumption == Size \in Nat \ {0} /\ NoMail \notin Mails

VARIABLES msg_pool, in_offset, out_offset, entry,
          suspend_sender_thread,    \* the threads waiting for room
          value,    \* the mail a thread wants to send
          got       \* the mail a thread received last

ring   == <<msg_pool, in_offset, out_offset, entry>>
mbVars == <<ring, suspend_sender_thread, value, got>>

MbInit == /\ ThreadInit
          /\ msg_pool = [k \in 0..Size-1 |-> NoMail]
          /\ in_offset = 0 /\ out_offset = 0 /\ entry = 0
          /\ suspend_sender_thread = <<>>
          /\ value = [t \in Threads |-> NoMail]
          /\ got = [t \in Threads |-> NoMail]

\* Mutant: the offset runs one past the end of the pool.
AroundLate(k) == IF k >= Size THEN 0 ELSE k + 1

Around(k) == IF k + 1 >= Size THEN 0 ELSE k + 1

-----------------------------------------------------------------------------
\* Sending

\* Mutant: receivers are resumed only when the mailbox was empty.
DeliverFirstOnly(v) ==
    /\ entry < Size
    /\ msg_pool' = [msg_pool EXCEPT ![in_offset] = v]
    /\ in_offset' = Around(in_offset)
    /\ entry' = entry + 1
    /\ suspend_thread' = IF entry = 0 THEN Resumed(suspend_thread) ELSE suspend_thread
    /\ UNCHANGED <<out_offset, suspend_sender_thread>>

Deliver(v) == /\ entry < Size
              /\ msg_pool' = [msg_pool EXCEPT ![in_offset] = v]
              /\ in_offset' = Around(in_offset)
              /\ entry' = entry + 1
              /\ suspend_thread' = Resumed(suspend_thread)
              /\ UNCHANGED <<out_offset, suspend_sender_thread>>

Refused(tmo) == /\ entry = Size /\ tmo = 0
                /\ UNCHANGED <<ring, suspend_thread, suspend_sender_thread>>

SendWaits(t, tmo) ==
    /\ entry = Size /\ tmo # 0
    /\ suspend_sender_thread' = Suspended(suspend_sender_thread, t)
    /\ Sleep(t, "send", tmo)
    /\ UNCHANGED <<ring, suspend_thread>>

\* rt_mb_send_wait from its test on.
TrySend(t, v, tmo) ==
    \/ /\ Deliver(v) \/ Refused(tmo)
       /\ Return(t)
       /\ value' = [value EXCEPT ![t] = NoMail]
    \/ /\ SendWaits(t, tmo)
       /\ value' = [value EXCEPT ![t] = v]

rt_mb_send_wait(t) == /\ pc[t] = "out"
                      /\ \E v \in Mails, tmo \in Timeouts : TrySend(t, v, tmo)
                      /\ UNCHANGED got

\* A thread that was waiting for room runs again.
SendResumes(t) ==
    /\ pc[t] = "send" /\ t \notin On(suspend_sender_thread)
    /\ \/ /\ error[t] # "EOK" /\ Return(t)
          /\ value' = [value EXCEPT ![t] = NoMail]
          /\ UNCHANGED <<ring, suspend_thread, suspend_sender_thread>>
       \/ /\ error[t] = "EOK" /\ TrySend(t, value[t], Remaining(t))
    /\ UNCHANGED got

\* rt_mb_send, the form interrupts use.
IsrSend == /\ (\E v \in Mails : Deliver(v)) \/ Refused(0)
           /\ UNCHANGED <<pc, error, timing, value, got>>

-----------------------------------------------------------------------------
\* Receiving

Fetch(t) == /\ entry > 0
            /\ got' = [got EXCEPT ![t] = msg_pool[out_offset]]
            /\ out_offset' = Around(out_offset)
            /\ entry' = entry - 1
            /\ suspend_sender_thread' = Resumed(suspend_sender_thread)
            /\ UNCHANGED <<msg_pool, in_offset, suspend_thread>>

Nothing(tmo) == /\ entry = 0 /\ tmo = 0
                /\ UNCHANGED <<ring, suspend_thread, suspend_sender_thread, got>>

RecvWaits(t, tmo) ==
    /\ entry = 0 /\ tmo # 0
    /\ suspend_thread' = Suspended(suspend_thread, t)
    /\ Sleep(t, "recv", tmo)
    /\ UNCHANGED <<ring, suspend_sender_thread, got>>

\* rt_mb_recv from its test on.
TryRecv(t, tmo) == \/ (Fetch(t) \/ Nothing(tmo)) /\ Return(t)
                   \/ RecvWaits(t, tmo)

rt_mb_recv(t) == /\ pc[t] = "out"
                 /\ \E tmo \in Timeouts : TryRecv(t, tmo)
                 /\ UNCHANGED value

\* Mutant: a resumed thread takes the mail without testing again.
RecvResumesTrusting(t) ==
    /\ pc[t] = "recv" /\ t \notin On(suspend_thread) /\ error[t] = "EOK"
    /\ got' = [got EXCEPT ![t] = msg_pool[out_offset]]
    /\ out_offset' = Around(out_offset)
    /\ entry' = IF entry = 0 THEN 0 ELSE entry - 1
    /\ Return(t)
    /\ UNCHANGED <<msg_pool, in_offset, suspend_thread, suspend_sender_thread, value>>

\* A thread that was waiting for a mail runs again.
RecvResumes(t) ==
    /\ pc[t] = "recv" /\ t \notin On(suspend_thread)
    /\ \/ /\ error[t] # "EOK" /\ Return(t)
          /\ UNCHANGED <<ring, suspend_thread, suspend_sender_thread, got>>
       \/ /\ error[t] = "EOK" /\ TryRecv(t, Remaining(t))
    /\ UNCHANGED value

-----------------------------------------------------------------------------
MbSleepers == On(suspend_thread) \cup On(suspend_sender_thread)

MbTick == /\ Ticked
          /\ UNCHANGED <<suspend_thread, mbVars>>

MbTimeout(t) ==
    /\ t \in Due(MbSleepers)
    /\ TimesOut(t)
    /\ suspend_thread' = Without(suspend_thread, t)
    /\ suspend_sender_thread' = Without(suspend_sender_thread, t)
    /\ UNCHANGED <<ring, value, got>>

MbNext == \/ \E t \in Threads : MbTimeout(t)
          \/ /\ Due(MbSleepers) = {}
             /\ \/ IsrSend \/ MbTick
                \/ \E t \in Threads : rt_mb_send_wait(t) \/ rt_mb_recv(t)
                \/ \E t \in Threads : SendResumes(t) \/ RecvResumes(t)

MbSpec == MbInit /\ [][MbNext]_<<waiting, mbVars>>

-----------------------------------------------------------------------------
MbTypeOK == /\ ThreadTypeOK
            /\ msg_pool \in [0..Size-1 -> Mails \cup {NoMail}]
            /\ in_offset \in 0..Size-1 /\ out_offset \in 0..Size-1
            /\ entry \in 0..Size
            /\ suspend_sender_thread \in Seq(Threads)
            /\ value \in [Threads -> Mails \cup {NoMail}]
            /\ got \in [Threads -> Mails \cup {NoMail}]

\* The mails between the offsets, oldest first, and the last ones received
\* form a FIFO queue (the ring of rt_mb_send_wait and rt_mb_recv).
MailAt(k) == msg_pool[IF out_offset + k <= Size THEN out_offset + k - 1
                                                  ELSE out_offset + k - 1 - Size]
MailQueue == INSTANCE BoundedQueue WITH Items <- Mails, NoItem <- NoMail, Cap <- Size,
                 queue <- [k \in 1..entry |-> MailAt(k)],
                 taken <- got
MailboxIsQueue == MailQueue!Spec

\* Nobody sleeps on a mail that is there: while threads wait for a mail, every
\* mail in the ring is one that a resumed thread is on its way to fetch; and
\* likewise nobody sleeps on free room.  The waits of rt_mb_recv (ipc.c:1585)
\* and rt_mb_send_wait (ipc.c:1440) re-test after a resume, and others overtake.
Coming(call) == {t \in Threads : /\ pc[t] = call /\ error[t] = "EOK"
                                 /\ t \notin MbSleepers}
MbNoLostWakeup ==
    /\ suspend_thread # <<>> => entry <= Cardinality(Coming("recv"))
    /\ suspend_sender_thread # <<>> => Size - entry <= Cardinality(Coming("send"))
=============================================================================
