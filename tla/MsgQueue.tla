------------------------------ MODULE MsgQueue ------------------------------
(***************************************************************************)
(* A message queue of RT-Thread (ipc.c: rt_mq_create, rt_mq_send,          *)
(* rt_mq_recv).  Its messages lie in slots chained into a list of free     *)
(* ones and a list of those sent.  The buffer is copied with interrupts    *)
(* enabled: a slot may be on neither list, and another thread or an        *)
(* interrupt may use the queue in between.  A call of an interrupt, as     *)
(* that of the link interrupt of the lock, runs through.                   *)
(***************************************************************************)
EXTENDS IpcThread

CONSTANTS Msgs, NoMsg, max_msgs

ASSUME MaxMsgsAssumption == max_msgs \in Nat \ {0} /\ NoMsg \notin Msgs

Null  == 0
Slots == 1..max_msgs

VARIABLES next,                 \* the slot chained behind each slot
          data,                 \* the message in each slot
          msg_queue_free,       \* head of the free list
          msg_queue_head, msg_queue_tail,
          entries,              \* mq->entry
          msg,                  \* the slot a thread's call works on
          given,                \* the message a thread sends
          buffer                \* the message a thread received last

lists  == <<msg_queue_free, msg_queue_head, msg_queue_tail, entries>>
mqVars == <<next, data, lists, msg, given, buffer>>

\* rt_mq_create chains all slots into the free list, the last one first.
MqInit == /\ ThreadInit
          /\ next = [s \in Slots |-> s - 1]
          /\ msg_queue_free = max_msgs
          /\ data = [s \in Slots |-> NoMsg]
          /\ msg_queue_head = Null /\ msg_queue_tail = Null
          /\ entries = 0
          /\ msg = [t \in Threads |-> Null]
          /\ given = [t \in Threads |-> NoMsg]
          /\ buffer = [t \in Threads |-> NoMsg]

-----------------------------------------------------------------------------
\* rt_mq_send: take a slot, copy into it, link it and wake a receiver.

\* Mutant: the free list is not moved on.
ReserveKeeps(t) ==
    /\ pc[t] = "out" /\ msg_queue_free # Null
    /\ msg' = [msg EXCEPT ![t] = msg_queue_free]
    /\ \E m \in Msgs : given' = [given EXCEPT ![t] = m]
    /\ pc' = [pc EXCEPT ![t] = "fill"]
    /\ UNCHANGED <<next, data, lists, buffer, error, timing, suspend_thread>>

Reserve(t) ==
    /\ pc[t] = "out" /\ msg_queue_free # Null
    /\ msg' = [msg EXCEPT ![t] = msg_queue_free]
    /\ msg_queue_free' = next[msg_queue_free]
    /\ \E m \in Msgs : given' = [given EXCEPT ![t] = m]
    /\ pc' = [pc EXCEPT ![t] = "fill"]
    /\ UNCHANGED <<next, data, msg_queue_head, msg_queue_tail, entries, buffer,
                   error, timing, suspend_thread>>

Full(t) == /\ pc[t] = "out" /\ msg_queue_free = Null
           /\ UNCHANGED <<waiting, mqVars>>

Fill(t) == /\ pc[t] = "fill"
           /\ next' = [next EXCEPT ![msg[t]] = Null]
           /\ data' = [data EXCEPT ![msg[t]] = given[t]]
           /\ given' = [given EXCEPT ![t] = NoMsg]
           /\ pc' = [pc EXCEPT ![t] = "link"]
           /\ UNCHANGED <<lists, msg, buffer, error, timing, suspend_thread>>

\* Mutant: the message is linked in front of the others.
LinkedInFront(chain, s) ==
    /\ next' = [chain EXCEPT ![s] = msg_queue_head]
    /\ msg_queue_tail' = IF msg_queue_tail = Null THEN s ELSE msg_queue_tail
    /\ msg_queue_head' = s
    /\ entries' = entries + 1
    /\ suspend_thread' = Resumed(suspend_thread)

\* Mutant: receivers are resumed only when the queue was empty.
LinkedFirstOnly(chain, s) ==
    /\ next' = IF msg_queue_tail = Null THEN chain
               ELSE [chain EXCEPT ![msg_queue_tail] = s]
    /\ msg_queue_tail' = s
    /\ msg_queue_head' = IF msg_queue_head = Null THEN s ELSE msg_queue_head
    /\ entries' = entries + 1
    /\ suspend_thread' = IF entries = 0 THEN Resumed(suspend_thread) ELSE suspend_thread

\* chain is next as it stands when slot s is linked behind the tail.
Linked(chain, s) ==
    /\ next' = IF msg_queue_tail = Null THEN chain
               ELSE [chain EXCEPT ![msg_queue_tail] = s]
    /\ msg_queue_tail' = s
    /\ msg_queue_head' = IF msg_queue_head = Null THEN s ELSE msg_queue_head
    /\ entries' = entries + 1
    /\ suspend_thread' = Resumed(suspend_thread)

Link(t) == /\ pc[t] = "link"
           /\ Linked(next, msg[t])
           /\ msg' = [msg EXCEPT ![t] = Null]
           /\ Return(t)
           /\ UNCHANGED <<data, msg_queue_free, given, buffer>>

MqIsrSend == /\ msg_queue_free # Null
             /\ Linked([next EXCEPT ![msg_queue_free] = Null], msg_queue_free)
             /\ msg_queue_free' = next[msg_queue_free]
             /\ \E m \in Msgs : data' = [data EXCEPT ![msg_queue_free] = m]
             /\ UNCHANGED <<msg, given, buffer, pc, error, timing>>

-----------------------------------------------------------------------------
\* rt_mq_recv: wait, unlink the first message, copy it out, free its slot.

\* Mutant: the tail stays when the last message is taken.
UnlinkKeepsTail(t) ==
    /\ entries > 0
    /\ msg' = [msg EXCEPT ![t] = msg_queue_head]
    /\ msg_queue_head' = next[msg_queue_head]
    /\ entries' = entries - 1
    /\ pc' = [pc EXCEPT ![t] = "copy"]
    /\ UNCHANGED <<msg_queue_free, msg_queue_tail, error, timing, suspend_thread>>

Unlink(t) == /\ entries > 0
             /\ msg' = [msg EXCEPT ![t] = msg_queue_head]
             /\ msg_queue_head' = next[msg_queue_head]
             /\ msg_queue_tail' = IF msg_queue_tail = msg_queue_head THEN Null
                                  ELSE msg_queue_tail
             /\ entries' = entries - 1
             /\ pc' = [pc EXCEPT ![t] = "copy"]
             /\ UNCHANGED <<msg_queue_free, error, timing, suspend_thread>>

NoMessage(t, tmo) == /\ entries = 0 /\ tmo = 0
                     /\ Return(t)
                     /\ UNCHANGED <<lists, msg, suspend_thread>>

MqWaits(t, tmo) == /\ entries = 0 /\ tmo # 0
                   /\ suspend_thread' = Suspended(suspend_thread, t)
                   /\ Sleep(t, "recv", tmo)
                   /\ UNCHANGED <<lists, msg>>

\* rt_mq_recv from its test on.
TryTake(t, tmo) == Unlink(t) \/ NoMessage(t, tmo) \/ MqWaits(t, tmo)

rt_mq_recv(t) == /\ pc[t] = "out"
                 /\ \E tmo \in Timeouts : TryTake(t, tmo)
                 /\ UNCHANGED <<next, data, given, buffer>>

MqResumes(t) ==
    /\ pc[t] = "recv" /\ t \notin On(suspend_thread)
    /\ \/ error[t] # "EOK" /\ Return(t) /\ UNCHANGED <<lists, msg, suspend_thread>>
       \/ error[t] = "EOK" /\ TryTake(t, Remaining(t))
    /\ UNCHANGED <<next, data, given, buffer>>

CopyOut(t) == /\ pc[t] = "copy"
              /\ buffer' = [buffer EXCEPT ![t] = data[msg[t]]]
              /\ pc' = [pc EXCEPT ![t] = "free"]
              /\ UNCHANGED <<next, data, lists, msg, given, error, timing, suspend_thread>>

Free(t) == /\ pc[t] = "free"
           /\ next' = [next EXCEPT ![msg[t]] = msg_queue_free]
           /\ msg_queue_free' = msg[t]
           /\ msg' = [msg EXCEPT ![t] = Null]
           /\ Return(t)
           /\ UNCHANGED <<data, msg_queue_head, msg_queue_tail, entries,
                          given, buffer, suspend_thread>>

-----------------------------------------------------------------------------
MqSleepers == On(suspend_thread)

MqTick == /\ Ticked
          /\ UNCHANGED <<suspend_thread, mqVars>>

MqTimeout(t) == /\ t \in Due(MqSleepers)
                /\ TimesOut(t)
                /\ suspend_thread' = Without(suspend_thread, t)
                /\ UNCHANGED mqVars

Runs(t) == Fill(t) \/ Link(t) \/ MqResumes(t) \/ CopyOut(t) \/ Free(t)

MqNext == \/ \E t \in Threads : MqTimeout(t)
          \/ /\ Due(MqSleepers) = {}
             /\ \/ MqIsrSend \/ MqTick
                \/ \E t \in Threads : Reserve(t) \/ Full(t) \/ rt_mq_recv(t) \/ Runs(t)

MqSpec == MqInit /\ [][MqNext]_<<waiting, mqVars>>

-----------------------------------------------------------------------------
MqTypeOK == /\ ThreadTypeOK
            /\ next \in [Slots -> Slots \cup {Null}]
            /\ data \in [Slots -> Msgs \cup {NoMsg}]
            /\ {msg_queue_free, msg_queue_head, msg_queue_tail} \subseteq Slots \cup {Null}
            /\ entries \in 0..max_msgs
            /\ msg \in [Threads -> Slots \cup {Null}]
            /\ given \in [Threads -> Msgs \cup {NoMsg}]
            /\ buffer \in [Threads -> Msgs \cup {NoMsg}]

\* The slots in sequence q are chained, from slot s to the end of the list.
Chains == UNION {[1..n -> Slots] : n \in 0..max_msgs}
IsChain(chain, q, s) ==
    /\ s = IF q = <<>> THEN Null ELSE q[1]
    /\ \A k \in DOMAIN q : chain[q[k]] = IF k = Len(q) THEN Null ELSE q[k + 1]
LastOf(q) == IF q = <<>> THEN Null ELSE q[Len(q)]

\* No slot is lost or used twice, whatever calls run inside each other: each is
\* once on the free list, on the list of messages or in the hands of one
\* thread; entry counts the messages and the tail is the last (rt_mq_send and
\* rt_mq_recv release the lock while they hold a slot, ipc.c:1962 and 2211).
HeldBy(t) == {msg[t]} \ {Null}
Conserved(free, sent) ==
    /\ IsChain(next, free, msg_queue_free) /\ IsChain(next, sent, msg_queue_head)
    /\ entries = Len(sent) /\ msg_queue_tail = LastOf(sent)
    /\ On(free) \cap On(sent) = {}
    /\ On(free) \cup On(sent) \cup UNION {HeldBy(t) : t \in Threads} = Slots
    /\ \A t \in Threads : HeldBy(t) \cap (On(free) \cup On(sent)) = {}
    /\ \A t, u \in Threads : t # u => HeldBy(t) \cap HeldBy(u) = {}
SlotsConserved == \E free, sent \in Chains : Conserved(free, sent)

\* The messages linked, first to last, and the last one each thread unlinked
\* form a FIFO queue: what is copied out, later and with interrupts enabled, is
\* what was sent (rt_mq_send, rt_mq_recv).
Sent == LET Is(q) == IsChain(next, q, msg_queue_head)
        IN  IF \E q \in Chains : Is(q) THEN CHOOSE q \in Chains : Is(q) ELSE <<>>
Unlinked(t) == IF pc[t] = "copy" THEN data[msg[t]] ELSE buffer[t]
Messages == INSTANCE BoundedQueue WITH Items <- Msgs, NoItem <- NoMsg,
                Cap <- max_msgs,
                queue <- [k \in DOMAIN Sent |-> data[Sent[k]]],
                taken <- [t \in Threads |-> Unlinked(t)]
MsgQueueIsQueue == Messages!Spec

\* Nobody sleeps on a message that is there: while threads wait, every message
\* is one that a resumed thread is on its way to take (ipc.c:1988, 2133).
MqComing == {t \in Threads : pc[t] = "recv" /\ error[t] = "EOK" /\ t \notin MqSleepers}
MqNoLostWakeup == suspend_thread # <<>> => entries <= Cardinality(MqComing)
=============================================================================
