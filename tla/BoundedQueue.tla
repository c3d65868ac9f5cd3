---------------------------- MODULE BoundedQueue ----------------------------
(***************************************************************************)
(* What a mailbox and a message queue promise: items in the order in which *)
(* they were put, each to one thread, never more than Cap at a time.       *)
(***************************************************************************)
EXTENDS Naturals, Sequences

CONSTANTS Threads, Items, NoItem, Cap

VARIABLES queue,    \* the items put and not yet got
          taken     \* the item each thread got last

Init == /\ queue = <<>>
        /\ taken = [t \in Threads |-> NoItem]

Put == /\ Len(queue) < Cap
       /\ \E x \in Items : queue' = Append(queue, x)
       /\ UNCHANGED taken

Get(t) == /\ queue # <<>>
          /\ queue' = Tail(queue)
          /\ taken' = [taken EXCEPT ![t] = Head(queue)]

Next == Put \/ \E t \in Threads : Get(t)

Spec == Init /\ [][Next]_<<queue, taken>>
=============================================================================
