----------------------------- MODULE IpcThread ------------------------------
(***************************************************************************)
(* What the mailbox and the message queue of RT-Thread (ipc.c) share: the  *)
(* threads inside a call, the list of those suspended until something      *)
(* arrives, and the thread timer that ends a wait.                         *)
(*                                                                         *)
(* A thread that was resumed, by an arrival or by its timer, is off the    *)
(* list but still inside its call until it runs; anything may come between.*)
(***************************************************************************)
EXTENDS Integers, Sequences, FiniteSets

CONSTANTS Threads,
          Timeouts      \* the waiting times callers pass; 0 does not wait

Forever == -1

ASSUME ThreadsAssumption == IsFiniteSet(Threads)
ASSUME TimeoutsAssumption == Timeouts \subseteq Nat \cup {Forever}

VARIABLES
    pc,             \* where each thread is: "out" of any call, or inside one
    error,          \* thread->error: "EOK" or, set by the timer, "ETIMEOUT"
    timeout,        \* the variable timeout of its call
    since,          \* ticks since its timer was started
    suspend_thread, \* the threads waiting for an arrival, first come first
    asked, waited   \* history: the time asked for, the ticks in this call

timing  == <<timeout, since, asked, waited>>
waiting == <<pc, error, timeout, since, suspend_thread, asked, waited>>

On(list) == {list[k] : k \in DOMAIN list}

ThreadInit == /\ pc = [t \in Threads |-> "out"]
              /\ error = [t \in Threads |-> "EOK"]
              /\ timeout = [t \in Threads |-> 0]
              /\ since = [t \in Threads |-> 0]
              /\ suspend_thread = <<>>
              /\ asked = [t \in Threads |-> 0]
              /\ waited = [t \in Threads |-> 0]

\* Mutant: the last to come is the first to be served.
SuspendedFirst(list, t) == <<t>> \o list

\* rt_ipc_list_suspend, with the flag RT_IPC_FLAG_FIFO that the lock uses.
Suspended(list, t) == Append(list, t)

\* rt_ipc_list_resume: the first of the list, if there is one.
Resumed(list) == IF list = <<>> THEN list ELSE Tail(list)

\* The call returns, at its first test or later.  Its variables are no more;
\* what is left in thread->error is not read again: a sleep resets it.
Return(t) == /\ pc' = [pc EXCEPT ![t] = "out"]
             /\ timeout' = [timeout EXCEPT ![t] = 0]
             /\ since' = [since EXCEPT ![t] = 0]
             /\ asked' = [asked EXCEPT ![t] = 0]
             /\ waited' = [waited EXCEPT ![t] = 0]
             /\ UNCHANGED error

\* The call goes to sleep for tmo ticks: its error is reset, its timer starts.
Sleep(t, call, tmo) ==
    /\ pc' = [pc EXCEPT ![t] = call]
    /\ error' = [error EXCEPT ![t] = "EOK"]
    /\ timeout' = [timeout EXCEPT ![t] = tmo]
    /\ since' = [since EXCEPT ![t] = 0]
    /\ asked' = [asked EXCEPT ![t] = IF pc[t] = "out" THEN tmo ELSE @]
    /\ UNCHANGED waited

\* Mutant: the waiting time starts again after every resume.
RemainingAll(t) == timeout[t]

\* What is left of a waiting time after a resume.
Remaining(t) == IF timeout[t] <= 0 THEN timeout[t]
                ELSE IF since[t] < timeout[t] THEN timeout[t] - since[t] ELSE 0

\* A tick.
Timed(t) == pc[t] # "out" /\ timeout[t] > 0

OneMore(n, most) == IF n < most THEN n + 1 ELSE n

Ticked ==
    /\ \E t \in Threads : Timed(t) /\ (since[t] < timeout[t] \/ waited[t] < asked[t])
    /\ since' = [t \in Threads |-> IF Timed(t) THEN OneMore(since[t], timeout[t])
                                   ELSE since[t]]
    /\ waited' = [t \in Threads |-> IF Timed(t) THEN OneMore(waited[t], asked[t])
                                    ELSE waited[t]]
    /\ UNCHANGED <<pc, error, timeout, asked>>

\* The sleepers whose time is over.  rt_timer_check ends their waits one after
\* the other, inside the interrupt of the tick: nothing else comes between.
Due(sleepers) == {t \in sleepers : Timed(t) /\ since[t] >= timeout[t]}

TimesOut(t) == /\ error' = [error EXCEPT ![t] = "ETIMEOUT"]
               /\ UNCHANGED <<pc, timing>>

Without(list, t) ==
    IF t \notin On(list) THEN list
    ELSE LET at == CHOOSE k \in DOMAIN list : list[k] = t
         IN [k \in 1..Len(list)-1 |-> IF k < at THEN list[k] ELSE list[k + 1]]

-----------------------------------------------------------------------------
Calls == {"send", "recv", "fill", "link", "copy", "free"}

ThreadTypeOK ==
    /\ pc \in [Threads -> {"out"} \cup Calls]
    /\ error \in [Threads -> {"EOK", "ETIMEOUT"}]
    /\ timeout \in [Threads -> Nat \cup {Forever}]
    /\ since \in [Threads -> Nat]
    /\ suspend_thread \in Seq(Threads)
    /\ asked \in [Threads -> Nat \cup {Forever}]
    /\ waited \in [Threads -> Nat]

\* A call sleeps no longer than its caller allowed, however often it was
\* resumed in vain and suspended again: the remaining time is computed anew
\* after every resume (ipc.c:1493, 1640, 2189).
Patience == \A t \in Threads :
                since[t] < timeout[t] => waited[t] + (timeout[t] - since[t]) <= asked[t]

\* As long as something arrives now and then a waiting thread is resumed: the
\* list is first come, first served (rt_ipc_list_suspend, ipc.c:102).
WaitEnds == \A t \in Threads : (t \in On(suspend_thread)) ~> (t \notin On(suspend_thread))
=============================================================================
