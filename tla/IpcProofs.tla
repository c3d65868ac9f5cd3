----------------------------- MODULE IpcProofs ------------------------------
(***************************************************************************)
(* Theorems about the mailbox, for any threads, mails, waiting times and   *)
(* size, and about the message queue, for any threads, messages, waiting   *)
(* times and number of slots.  Both rest on facts about the lists of       *)
(* suspended threads and about the waiting time, which come first.         *)
(***************************************************************************)
EXTENDS Mailbox, MsgQueue, FiniteSetTheorems, TLAPS

-----------------------------------------------------------------------------
(***************************************************************************)
(* I. Lists of threads and waiting times                                   *)
(***************************************************************************)

\* No thread is on a list twice.
Once(list) == \A i, j \in 1..Len(list) : list[i] = list[j] => i = j

\* What appending does to the elements of a list.
LEMMA AppendedList ==
    ASSUME NEW S, NEW list \in Seq(S), NEW t \in S
    PROVE  /\ Append(list, t) \in Seq(S)
           /\ On(Append(list, t)) = On(list) \cup {t}
           /\ Once(list) /\ t \notin On(list) => Once(Append(list, t))
<1> DEFINE l2 == Append(list, t)
<1>1. /\ l2 \in Seq(S) /\ Len(l2) = Len(list) + 1 /\ Len(list) \in Nat
      /\ \A k \in 1..Len(list) : l2[k] = list[k]
      /\ l2[Len(list) + 1] = t
      /\ DOMAIN list = 1..Len(list) /\ DOMAIN l2 = 1..Len(l2)
  OBVIOUS
<1>2. On(l2) = On(list) \cup {t}
  <2>1. ASSUME NEW u \in On(l2) PROVE u \in On(list) \cup {t}
    <3>1. PICK k \in 1..Len(l2) : u = l2[k]
      BY <1>1 DEF On
    <3>2. k = Len(list) + 1 \/ k \in 1..Len(list)
      BY <1>1
    <3>. QED
      BY <1>1, <3>1, <3>2 DEF On
  <2>2. ASSUME NEW u \in On(list) PROVE u \in On(l2)
    <3>1. PICK k \in 1..Len(list) : u = list[k]
      BY <1>1 DEF On
    <3>2. k \in 1..Len(l2) /\ u = l2[k]
      BY <1>1, <3>1
    <3>. QED
      BY <1>1, <3>2 DEF On
  <2>3. t \in On(l2)
    <3>1. Len(l2) \in 1..Len(l2)
      BY <1>1
    <3>. QED
      BY <1>1, <3>1 DEF On
  <2>. QED
    BY <2>1, <2>2, <2>3
<1>3. ASSUME Once(list), t \notin On(list) PROVE Once(l2)
  <2>1. \A k \in 1..Len(list) : list[k] # t
    BY <1>1, <1>3 DEF On
  <2>. QED
    BY <1>1, <1>3, <2>1 DEF Once
<1>. QED
  BY <1>1, <1>2, <1>3

\* What taking the first off does to the elements of a list.
LEMMA TailList ==
    ASSUME NEW S, NEW list \in Seq(S), list # <<>>, Once(list)
    PROVE  /\ Tail(list) \in Seq(S) /\ Once(Tail(list))
           /\ Head(list) \in On(list)
           /\ On(Tail(list)) = On(list) \ {Head(list)}
<1> DEFINE l2 == Tail(list)
<1>1. /\ l2 \in Seq(S) /\ Len(list) \in Nat /\ Len(list) > 0
      /\ Len(l2) = Len(list) - 1
      /\ \A k \in 1..Len(l2) : l2[k] = list[k + 1]
      /\ Head(list) = list[1]
      /\ DOMAIN list = 1..Len(list) /\ DOMAIN l2 = 1..Len(l2)
  OBVIOUS
<1>2. 1 \in 1..Len(list)
  BY <1>1
<1>3. \A k \in 1..Len(l2) : k + 1 \in 1..Len(list)
  BY <1>1
<1>4. Once(l2)
  BY <1>1, <1>3 DEF Once
<1>5. Head(list) \in On(list)
  BY <1>1, <1>2 DEF On
<1>6. ASSUME NEW u \in On(l2) PROVE u \in On(list) \ {Head(list)}
  <2>1. PICK k \in 1..Len(l2) : u = l2[k]
    BY <1>1, <1>6 DEF On
  <2>2. u = list[k + 1] /\ k + 1 # 1
    BY <1>1, <2>1
  <2>3. u # list[1]
    BY <1>2, <1>3, <2>1, <2>2 DEF Once
  <2>. QED
    BY <1>1, <1>3, <2>1, <2>2, <2>3 DEF On
<1>7. ASSUME NEW u \in On(list), u # Head(list) PROVE u \in On(l2)
  <2>1. PICK k \in 1..Len(list) : u = list[k]
    BY <1>1, <1>7 DEF On
  <2>2. k # 1
    BY <1>1, <1>7, <2>1
  <2>3. k - 1 \in 1..Len(l2) /\ l2[k - 1] = list[k]
    BY <1>1, <2>1, <2>2
  <2>. QED
    BY <1>1, <2>1, <2>3 DEF On
<1>. QED
  BY <1>1, <1>4, <1>5, <1>6, <1>7

\* A thread that suspends itself goes to the end of the list
\* (rt_ipc_list_suspend).
LEMMA SuspendedList ==
    ASSUME NEW list \in Seq(Threads), NEW t \in Threads
    PROVE  /\ Suspended(list, t) \in Seq(Threads)
           /\ On(Suspended(list, t)) = On(list) \cup {t}
           /\ Once(list) /\ t \notin On(list) => Once(Suspended(list, t))
  BY AppendedList DEF Suspended

\* Resuming takes the first thread off, if there is one (rt_ipc_list_resume).
LEMMA ResumedList ==
    ASSUME NEW list \in Seq(Threads), Once(list)
    PROVE  /\ Resumed(list) \in Seq(Threads)
           /\ Once(Resumed(list))
           /\ list # <<>> => /\ Head(list) \in On(list)
                             /\ On(Resumed(list)) = On(list) \ {Head(list)}
  BY TailList DEF Resumed

\* The timer takes its own thread off the list it is on, and no other
\* (rt_thread_timeout).
LEMMA WithoutThread ==
    ASSUME NEW list \in Seq(Threads), NEW t \in Threads, Once(list)
    PROVE  /\ Without(list, t) \in Seq(Threads)
           /\ Once(Without(list, t))
           /\ On(Without(list, t)) = On(list) \ {t}
<1>1. CASE t \notin On(list)
  BY <1>1 DEF Without
<1>2. CASE t \in On(list)
  <2>0. Len(list) \in Nat /\ DOMAIN list = 1..Len(list)
    OBVIOUS
  <2> DEFINE at == CHOOSE k \in DOMAIN list : list[k] = t
             n  == Len(list) - 1
             l2 == [k \in 1..n |-> IF k < at THEN list[k] ELSE list[k + 1]]
  <2>1. at \in 1..Len(list) /\ list[at] = t
    <3>1. \E k \in DOMAIN list : list[k] = t
      BY <1>2 DEF On
    <3>. QED
      BY <3>1, <2>0
  <2>2. Without(list, t) = l2
    BY <1>2 DEF Without
  <2> HIDE DEF at
  <2>3. n \in Nat
    BY <2>0, <2>1
  <2>4. \A k \in 1..n : l2[k] = IF k < at THEN list[k] ELSE list[k + 1]
    OBVIOUS
  <2>5. \A k \in 1..n : k \in 1..Len(list) /\ k + 1 \in 1..Len(list)
    BY <2>0
  <2>6. l2 \in Seq(Threads) /\ Len(l2) = n /\ DOMAIN l2 = 1..n
    <3>1. \A k \in 1..n : list[k] \in Threads /\ list[k + 1] \in Threads
      BY <2>5
    <3>2. l2 \in [1..n -> Threads]
      BY <3>1
    <3>. QED
      BY <2>3, <3>2
  <2> HIDE DEF l2
  <2>7. Once(l2)
    <3> SUFFICES ASSUME NEW i \in 1..n, NEW j \in 1..n, l2[i] = l2[j]
                 PROVE  i = j
      BY <2>6 DEF Once
    <3>1. CASE i < at /\ j < at
      BY <3>1, <2>4, <2>5 DEF Once
    <3>2. CASE ~(i < at) /\ ~(j < at)
      <4>1. list[i + 1] = list[j + 1]
        BY <3>2, <2>4
      <4>2. i + 1 = j + 1
        BY <4>1, <2>5 DEF Once
      <4>. QED
        BY <4>2
    <3>3. CASE i < at /\ ~(j < at)
      <4>1. list[i] = list[j + 1]
        BY <3>3, <2>4
      <4>2. i = j + 1
        BY <4>1, <2>5 DEF Once
      <4>. QED
        BY <4>2, <3>3, <2>1, <2>0
    <3>4. CASE ~(i < at) /\ j < at
      <4>1. list[i + 1] = list[j]
        BY <3>4, <2>4
      <4>2. i + 1 = j
        BY <4>1, <2>5 DEF Once
      <4>. QED
        BY <4>2, <3>4, <2>1, <2>0
    <3>. QED
      BY <3>1, <3>2, <3>3, <3>4
  <2>8. ASSUME NEW u \in On(l2) PROVE u \in On(list) \ {t}
    <3>1. PICK k \in 1..n : u = l2[k]
      BY <2>6 DEF On
    <3>2. PICK m \in 1..Len(list) : u = list[m] /\ m # at
      <4>1. CASE k < at
        BY <4>1, <3>1, <2>1, <2>4, <2>5
      <4>2. CASE ~(k < at)
        <5>1. u = list[k + 1] /\ k + 1 # at /\ k + 1 \in 1..Len(list)
          BY <4>2, <3>1, <2>0, <2>1, <2>4, <2>5
        <5>. QED
          BY <5>1
      <4>. QED
        BY <4>1, <4>2
    <3>3. u # t
      BY <3>2, <2>1 DEF Once
    <3>. QED
      BY <3>2, <3>3, <2>0 DEF On
  <2>9. ASSUME NEW u \in On(list), u # t PROVE u \in On(l2)
    <3>1. PICK m \in 1..Len(list) : u = list[m]
      BY <2>0 DEF On
    <3>2. m # at
      BY <3>1, <2>1, <2>9
    <3>3. CASE m < at
      <4>1. m \in 1..n
        BY <3>3, <2>0, <2>1
      <4>. QED
        BY <3>1, <3>3, <4>1, <2>4, <2>6 DEF On
    <3>4. CASE m > at
      <4>1. m - 1 \in 1..n /\ ~(m - 1 < at) /\ (m - 1) + 1 = m
        BY <3>4, <2>0, <2>1
      <4>2. l2[m - 1] = u
        BY <3>1, <4>1, <2>4
      <4>. QED
        BY <4>1, <4>2, <2>6 DEF On
    <3>. QED
      BY <3>2, <3>3, <3>4, <2>0, <2>1
  <2>. QED
    BY <2>2, <2>6, <2>7, <2>8, <2>9
<1>. QED
  BY <1>1, <1>2

\* The elements of a list of threads are threads.
LEMMA OnThreads ==
    ASSUME NEW list \in Seq(Threads)
    PROVE  On(list) \subseteq Threads
  BY DEF On

\* A thread more, and a thread less, in a set of threads.
LEMMA OneThreadMore ==
    ASSUME NEW S \in SUBSET Threads, NEW T \in SUBSET Threads, NEW t \in T,
           t \notin S, S \subseteq T
    PROVE  Cardinality(S) + 1 <= Cardinality(T)
<1>1. IsFiniteSet(S) /\ IsFiniteSet(T)
  BY ThreadsAssumption, FS_Subset
<1>2. Cardinality(S \cup {t}) = Cardinality(S) + 1 /\ IsFiniteSet(S \cup {t})
  BY <1>1, FS_AddElement
<1>3. Cardinality(S \cup {t}) <= Cardinality(T)
  BY <1>1, FS_Subset
<1>. QED
  BY <1>2, <1>3

LEMMA OneThreadLess ==
    ASSUME NEW S \in SUBSET Threads, NEW T \in SUBSET Threads, NEW t, S \ {t} \subseteq T
    PROVE  Cardinality(S) <= Cardinality(T) + 1
<1>1. IsFiniteSet(S) /\ IsFiniteSet(T) /\ IsFiniteSet(T \cup {t})
  BY ThreadsAssumption, FS_Subset, FS_AddElement
<1>2. Cardinality(S) <= Cardinality(T \cup {t})
  BY <1>1, FS_Subset
<1>3. Cardinality(T \cup {t}) \in {Cardinality(T), Cardinality(T) + 1}
  BY <1>1, FS_AddElement
<1>4. Cardinality(S) \in Nat /\ Cardinality(T) \in Nat
  BY <1>1, FS_CardinalityType
<1>. QED
  BY <1>2, <1>3, <1>4

-----------------------------------------------------------------------------
(***************************************************************************)
(* The waiting time: a thread outside of any call has none, and a thread   *)
(* inside one has not waited longer than what its timer has left allows.   *)
(***************************************************************************)
TimingOK == /\ pc \in [Threads -> {"out"} \cup Calls]
            /\ error \in [Threads -> {"EOK", "ETIMEOUT"}]
            /\ timeout \in [Threads -> Nat \cup {Forever}]
            /\ since \in [Threads -> Nat]
            /\ asked \in [Threads -> Nat \cup {Forever}]
            /\ waited \in [Threads -> Nat]

Rested == \A t \in Threads : pc[t] = "out" =>
              /\ timeout[t] = 0 /\ since[t] = 0
              /\ asked[t] = 0 /\ waited[t] = 0

Clocks == TimingOK /\ Rested /\ Patience

\* A call that returns leaves nothing behind.
LEMMA ReturnClocks ==
    ASSUME NEW t \in Threads, Clocks, Return(t)
    PROVE  Clocks'
<1>1. TimingOK'
  BY DEF Clocks, TimingOK, Return
<1>2. Rested'
  BY DEF Clocks, TimingOK, Rested, Return
<1>3. Patience'
  BY DEF Clocks, TimingOK, Patience, Return
<1>. QED
  BY <1>1, <1>2, <1>3 DEF Clocks

\* What is left of a waiting time is one again, and fits what was asked for.
LEMMA RemainingTime ==
    ASSUME NEW t \in Threads, Clocks
    PROVE  /\ Remaining(t) \in Nat \cup {Forever}
           /\ Remaining(t) > 0 => waited[t] + Remaining(t) <= asked[t]
<1>1. /\ timeout[t] \in Nat \cup {Forever} /\ since[t] \in Nat
      /\ asked[t] \in Nat \cup {Forever} /\ waited[t] \in Nat
  BY DEF Clocks, TimingOK
<1>2. since[t] < timeout[t] => waited[t] + (timeout[t] - since[t]) <= asked[t]
  BY DEF Clocks, Patience
<1>3. CASE timeout[t] <= 0
  BY <1>1, <1>3 DEF Remaining, Forever
<1>4. CASE timeout[t] > 0 /\ since[t] < timeout[t]
  <2>1. Remaining(t) = timeout[t] - since[t]
    BY <1>1, <1>4 DEF Remaining, Forever
  <2>. QED
    BY <1>1, <1>2, <1>4, <2>1 DEF Forever
<1>5. CASE timeout[t] > 0 /\ ~(since[t] < timeout[t])
  BY <1>1, <1>5 DEF Remaining, Forever
<1>. QED
  BY <1>1, <1>3, <1>4, <1>5 DEF Forever

\* A first sleep starts with what the caller asked for, a later one with what
\* is left of it.
LEMMA SleepClocks ==
    ASSUME NEW t \in Threads, NEW call \in Calls, NEW tmo \in Nat \cup {Forever},
           Clocks, Sleep(t, call, tmo),
           pc[t] # "out" /\ tmo > 0 => waited[t] + tmo <= asked[t]
    PROVE  Clocks'
<1>0. pc[t] = "out" => waited[t] = 0
  BY DEF Clocks, Rested
<1>1. TimingOK'
  <2>1. pc' \in [Threads -> {"out"} \cup Calls]
    BY DEF Clocks, TimingOK, Sleep
  <2>2. error' \in [Threads -> {"EOK", "ETIMEOUT"}]
    BY DEF Clocks, TimingOK, Sleep
  <2>3. timeout' \in [Threads -> Nat \cup {Forever}] /\ since' \in [Threads -> Nat]
    BY DEF Clocks, TimingOK, Sleep
  <2>4. asked' \in [Threads -> Nat \cup {Forever}] /\ waited' \in [Threads -> Nat]
    BY DEF Clocks, TimingOK, Sleep
  <2>. QED
    BY <2>1, <2>2, <2>3, <2>4 DEF TimingOK
<1>2. Rested'
  <2>1. "out" \notin Calls
    BY DEF Calls
  <2>. QED
    BY <2>1 DEF Clocks, TimingOK, Rested, Sleep
<1>3. Patience'
  <2> SUFFICES ASSUME NEW u \in Threads, (since[u] < timeout[u])'
               PROVE  (waited[u] + (timeout[u] - since[u]) <= asked[u])'
    BY DEF Patience
  <2>1. CASE u # t
    BY <2>1 DEF Clocks, TimingOK, Patience, Sleep
  <2>2. CASE u = t
    <3>1. /\ since'[t] = 0 /\ timeout'[t] = tmo /\ waited'[t] = waited[t]
          /\ asked'[t] = IF pc[t] = "out" THEN tmo ELSE asked[t]
          /\ waited[t] \in Nat
      BY DEF Clocks, TimingOK, Sleep
    <3>2. tmo > 0 /\ tmo \in Nat
      BY <2>2, <3>1 DEF Forever
    <3>3. waited[t] + tmo <= IF pc[t] = "out" THEN tmo ELSE asked[t]
      BY <1>0, <3>1, <3>2
    <3>4. waited'[t] + (timeout'[t] - since'[t]) <= asked'[t]
      BY <3>1, <3>2, <3>3
    <3>. QED
      BY <2>2, <3>4
  <2>. QED
    BY <2>1, <2>2
<1>. QED
  BY <1>1, <1>2, <1>3 DEF Clocks

\* A tick brings the end of the timer and of the waiting time nearer alike.
LEMMA TickClocks ==
    ASSUME Clocks, Ticked
    PROVE  Clocks'
<1>1. \A t \in Threads :
         /\ since[t] \in Nat /\ waited[t] \in Nat
         /\ timeout[t] \in Nat \cup {Forever} /\ asked[t] \in Nat \cup {Forever}
         /\ since'[t] = (IF Timed(t) THEN OneMore(since[t], timeout[t]) ELSE since[t])
         /\ waited'[t] = (IF Timed(t) THEN OneMore(waited[t], asked[t]) ELSE waited[t])
  BY DEF Clocks, TimingOK, Ticked
<1>2. TimingOK'
  <2>1. \A t \in Threads : since'[t] \in Nat /\ waited'[t] \in Nat
    BY <1>1 DEF OneMore
  <2>2. since' \in [Threads -> Nat] /\ waited' \in [Threads -> Nat]
    BY <2>1 DEF Ticked
  <2>. QED
    BY <2>2 DEF Clocks, TimingOK, Ticked
<1>3. Rested'
  BY <1>1 DEF Clocks, Rested, Ticked, Timed
<1>4. Patience'
  <2> SUFFICES ASSUME NEW t \in Threads, since'[t] < timeout[t]
               PROVE  waited'[t] + (timeout[t] - since'[t]) <= asked[t]
    BY DEF Patience, Ticked
  <2>1. since[t] < timeout[t] => waited[t] + (timeout[t] - since[t]) <= asked[t]
    BY DEF Clocks, Patience
  <2>2. CASE Timed(t)
    <3>1. since[t] < timeout[t] /\ since'[t] = since[t] + 1
      BY <1>1, <2>2 DEF OneMore, Forever
    <3>2. waited'[t] <= waited[t] + 1 /\ waited'[t] \in Nat
      BY <1>1, <2>2 DEF OneMore, Forever
    <3>. QED
      BY <1>1, <2>1, <3>1, <3>2 DEF Forever
  <2>3. CASE ~Timed(t)
    BY <1>1, <2>1, <2>3
  <2>. QED
    BY <2>2, <2>3
<1>. QED
  BY <1>2, <1>3, <1>4 DEF Clocks

\* The end of a wait changes none of the times.
LEMMA TimesOutClocks ==
    ASSUME NEW t \in Threads, Clocks, TimesOut(t)
    PROVE  Clocks'
  BY DEF Clocks, TimingOK, Rested, Patience, TimesOut, timing

LEMMA StillClocks ==
    ASSUME Clocks, UNCHANGED <<pc, error, timing>>
    PROVE  Clocks'
  BY DEF Clocks, TimingOK, Rested, Patience, timing

LEMMA InitClocks ==
    ASSUME ThreadInit
    PROVE  Clocks
  BY DEF ThreadInit, Clocks, TimingOK, Rested, Patience

\* A call goes on, awake, with the time it has.
LEMMA GoesOnClocks ==
    ASSUME NEW t \in Threads, NEW call \in Calls, Clocks,
           pc' = [pc EXCEPT ![t] = call], UNCHANGED <<error, timing>>
    PROVE  Clocks'
<1>1. TimingOK'
  BY DEF Clocks, TimingOK, timing
<1>2. Rested'
  <2>1. "out" \notin Calls
    BY DEF Calls
  <2>. QED
    BY <2>1 DEF Clocks, TimingOK, Rested, timing
<1>3. Patience'
  BY DEF Clocks, Patience, timing
<1>. QED
  BY <1>1, <1>2, <1>3 DEF Clocks

-----------------------------------------------------------------------------
(***************************************************************************)
(* II. The mailbox                                                         *)
(***************************************************************************)

allMb == <<waiting, mbVars>>

\* The types of what only the mailbox has, and of its two lists.
RingOK == /\ msg_pool \in [0..Size-1 -> Mails \cup {NoMail}]
          /\ in_offset \in 0..Size-1 /\ out_offset \in 0..Size-1
          /\ entry \in 0..Size
ListsOK == /\ suspend_thread \in Seq(Threads)
           /\ suspend_sender_thread \in Seq(Threads)
MbHandsOK == /\ value \in [Threads -> Mails \cup {NoMail}]
             /\ got \in [Threads -> Mails \cup {NoMail}]

\* Only the calls of a mailbox; a sender has a mail to send.
MbCallsOK == \A t \in Threads : /\ pc[t] \in {"out", "send", "recv"}
                                /\ pc[t] = "send" => value[t] \in Mails

\* A thread sleeps on one list only, the one of its call, and once; its wait
\* has not ended.
MbSleepersOK == /\ Once(suspend_thread) /\ Once(suspend_sender_thread)
                /\ \A t \in On(suspend_thread) : pc[t] = "recv" /\ error[t] = "EOK"
                /\ \A t \in On(suspend_sender_thread) : pc[t] = "send" /\ error[t] = "EOK"

\* The mails lie between the offsets.
OffsetsOK == in_offset = IF out_offset + entry < Size THEN out_offset + entry
                         ELSE out_offset + entry - Size

MbInv == Clocks /\ RingOK /\ ListsOK /\ MbHandsOK /\ MbCallsOK /\ MbSleepersOK

-----------------------------------------------------------------------------
LEMMA AroundRing ==
    ASSUME NEW k \in 0..Size-1
    PROVE  /\ Around(k) \in 0..Size-1
           /\ Around(k) = IF k + 1 = Size THEN 0 ELSE k + 1
  BY SizeAssumption DEF Around

-----------------------------------------------------------------------------
(***************************************************************************)
(* What one call does to the ring and the lists, whichever thread makes it *)
(***************************************************************************)

\* A delivered mail fits, and takes one receiver off its list.
LEMMA DeliverKeeps ==
    ASSUME NEW v \in Mails, RingOK, ListsOK, Once(suspend_thread), Deliver(v)
    PROVE  /\ RingOK' /\ ListsOK' /\ Once(suspend_thread)'
           /\ On(suspend_thread') \subseteq On(suspend_thread)
<1>1. RingOK'
  <2>1. msg_pool' \in [0..Size-1 -> Mails \cup {NoMail}]
    BY DEF RingOK, Deliver
  <2>2. in_offset' \in 0..Size-1
    BY AroundRing DEF RingOK, Deliver
  <2>3. entry' \in 0..Size
    BY SizeAssumption DEF RingOK, Deliver
  <2>. QED
    BY <2>1, <2>2, <2>3 DEF RingOK, Deliver
<1>2. ListsOK' /\ Once(suspend_thread)'
  BY ResumedList DEF ListsOK, Deliver
<1>3. On(suspend_thread') \subseteq On(suspend_thread)
  BY ResumedList DEF ListsOK, Deliver, Resumed
<1>. QED
  BY <1>1, <1>2, <1>3

\* A fetched mail leaves room, and takes one sender off its list.
LEMMA FetchKeeps ==
    ASSUME NEW t \in Threads, RingOK, ListsOK, MbHandsOK,
           Once(suspend_sender_thread), Fetch(t)
    PROVE  /\ RingOK' /\ ListsOK' /\ Once(suspend_sender_thread)'
           /\ got' \in [Threads -> Mails \cup {NoMail}]
           /\ On(suspend_sender_thread') \subseteq On(suspend_sender_thread)
<1>1. RingOK'
  <2>1. out_offset' \in 0..Size-1
    BY AroundRing DEF RingOK, Fetch
  <2>2. entry' \in 0..Size
    BY SizeAssumption DEF RingOK, Fetch
  <2>. QED
    BY <2>1, <2>2 DEF RingOK, Fetch
<1>2. ListsOK' /\ Once(suspend_sender_thread)'
  BY ResumedList DEF ListsOK, Fetch
<1>3. On(suspend_sender_thread') \subseteq On(suspend_sender_thread)
  BY ResumedList DEF ListsOK, Fetch, Resumed
<1>4. got' \in [Threads -> Mails \cup {NoMail}]
  BY DEF RingOK, MbHandsOK, Fetch
<1>. QED
  BY <1>1, <1>2, <1>3, <1>4

\* A thread that is not asleep and returns, while the others stay where they
\* are, leaves the sleepers as they should be.
LEMMA ReturnKeepsOthers ==
    ASSUME NEW t \in Threads, Clocks, ListsOK, MbCallsOK, MbSleepersOK, Return(t),
           t \notin MbSleepers,
           On(suspend_thread') \subseteq On(suspend_thread),
           On(suspend_sender_thread') \subseteq On(suspend_sender_thread),
           Once(suspend_thread)', Once(suspend_sender_thread)',
           \A u \in Threads : u # t => value'[u] = value[u]
    PROVE  MbCallsOK' /\ MbSleepersOK'
<1>1. pc'[t] = "out" /\ \A u \in Threads : u # t => pc'[u] = pc[u]
  BY DEF Clocks, TimingOK, Return
<1>2. MbCallsOK'
  BY <1>1 DEF MbCallsOK
<1>3. ASSUME NEW u \in On(suspend_thread')
      PROVE  pc'[u] = "recv" /\ error'[u] = "EOK"
  <2>1. u \in On(suspend_thread) /\ u # t /\ u \in Threads
    BY <1>3, OnThreads DEF MbSleepers, ListsOK
  <2>. QED
    BY <1>1, <2>1 DEF MbSleepersOK, Return
<1>4. ASSUME NEW u \in On(suspend_sender_thread')
      PROVE  pc'[u] = "send" /\ error'[u] = "EOK"
  <2>1. u \in On(suspend_sender_thread) /\ u # t /\ u \in Threads
    BY <1>4, OnThreads DEF MbSleepers, ListsOK
  <2>. QED
    BY <1>1, <2>1 DEF MbSleepersOK, Return
<1>. QED
  BY <1>2, <1>3, <1>4 DEF MbSleepersOK

-----------------------------------------------------------------------------
\* A call of rt_mb_send_wait from its test on, first or again.
LEMMA TrySendKeeps ==
    ASSUME NEW t \in Threads, NEW v \in Mails, NEW tmo \in Nat \cup {Forever},
           MbInv, TrySend(t, v, tmo), t \notin MbSleepers, UNCHANGED got,
           pc[t] # "out" /\ tmo > 0 => waited[t] + tmo <= asked[t]
    PROVE  MbInv'
<1> USE DEF MbInv
<1>1. CASE /\ Deliver(v) \/ Refused(tmo)
           /\ Return(t)
           /\ value' = [value EXCEPT ![t] = NoMail]
  <2>1. Clocks'
    BY <1>1, ReturnClocks
  <2>2. /\ RingOK' /\ ListsOK' /\ Once(suspend_thread)'
        /\ On(suspend_thread') \subseteq On(suspend_thread)
        /\ suspend_sender_thread' = suspend_sender_thread
    <3>1. CASE Deliver(v)
      <4>1. suspend_sender_thread' = suspend_sender_thread
        BY <3>1 DEF Deliver
      <4>. QED
        BY <3>1, <4>1, DeliverKeeps DEF MbSleepersOK
    <3>2. CASE Refused(tmo)
      BY <3>2 DEF Refused, ring, RingOK, ListsOK, MbSleepersOK
    <3>. QED
      BY <1>1, <3>1, <3>2
  <2>3. MbHandsOK'
    BY <1>1 DEF MbHandsOK
  <2>4. \A u \in Threads : u # t => value'[u] = value[u]
    BY <1>1 DEF MbHandsOK
  <2>5. Once(suspend_sender_thread)'
    BY <2>2 DEF MbSleepersOK
  <2>6. MbCallsOK' /\ MbSleepersOK'
    BY <1>1, <2>2, <2>4, <2>5, ReturnKeepsOthers
  <2>. QED
    BY <2>1, <2>2, <2>3, <2>6
<1>2. CASE SendWaits(t, tmo) /\ value' = [value EXCEPT ![t] = v]
  <2>0. /\ Sleep(t, "send", tmo)
        /\ suspend_thread' = suspend_thread
        /\ suspend_sender_thread' = Suspended(suspend_sender_thread, t)
    BY <1>2 DEF SendWaits
  <2>1. Clocks'
    BY <2>0, SleepClocks DEF Calls
  <2>2. RingOK'
    BY <1>2 DEF SendWaits, RingOK, ring
  <2>3. /\ ListsOK' /\ Once(suspend_sender_thread)'
        /\ On(suspend_sender_thread') = On(suspend_sender_thread) \cup {t}
    BY <2>0, SuspendedList DEF ListsOK, MbSleepersOK, MbSleepers
  <2>4. MbHandsOK'
    BY <1>2 DEF MbHandsOK
  <2>5. /\ pc'[t] = "send" /\ error'[t] = "EOK" /\ value'[t] = v
        /\ \A u \in Threads : u # t => /\ pc'[u] = pc[u] /\ error'[u] = error[u]
                                       /\ value'[u] = value[u]
    BY <1>2, <2>0 DEF Sleep, Clocks, TimingOK, MbHandsOK
  <2>6. MbCallsOK'
    BY <2>5 DEF MbCallsOK
  <2>7. MbSleepersOK'
    <3>1. ASSUME NEW u \in On(suspend_thread')
          PROVE  pc'[u] = "recv" /\ error'[u] = "EOK"
      <4>1. u \in On(suspend_thread) /\ u # t /\ u \in Threads
        BY <2>0, <3>1, OnThreads DEF MbSleepers, ListsOK
      <4>. QED
        BY <2>5, <4>1 DEF MbSleepersOK
    <3>2. ASSUME NEW u \in On(suspend_sender_thread')
          PROVE  pc'[u] = "send" /\ error'[u] = "EOK"
      <4>1. u = t \/ (u \in On(suspend_sender_thread) /\ u # t /\ u \in Threads)
        BY <2>3, <3>2, OnThreads DEF ListsOK
      <4>. QED
        BY <2>5, <4>1 DEF MbSleepersOK
    <3>3. Once(suspend_thread)'
      BY <2>0 DEF MbSleepersOK
    <3>. QED
      BY <2>3, <3>1, <3>2, <3>3 DEF MbSleepersOK
  <2>. QED
    BY <2>1, <2>2, <2>3, <2>4, <2>6, <2>7
<1>. QED
  BY <1>1, <1>2 DEF TrySend

\* A call of rt_mb_recv from its test on, first or again.
LEMMA TryRecvKeeps ==
    ASSUME NEW t \in Threads, NEW tmo \in Nat \cup {Forever},
           MbInv, TryRecv(t, tmo), t \notin MbSleepers, UNCHANGED value,
           pc[t] # "out" /\ tmo > 0 => waited[t] + tmo <= asked[t]
    PROVE  MbInv'
<1> USE DEF MbInv
<1>1. CASE (Fetch(t) \/ Nothing(tmo)) /\ Return(t)
  <2>1. Clocks'
    BY <1>1, ReturnClocks
  <2>2. /\ RingOK' /\ ListsOK' /\ Once(suspend_sender_thread)'
        /\ got' \in [Threads -> Mails \cup {NoMail}]
        /\ On(suspend_sender_thread') \subseteq On(suspend_sender_thread)
        /\ suspend_thread' = suspend_thread
    <3>1. CASE Fetch(t)
      <4>1. suspend_thread' = suspend_thread
        BY <3>1 DEF Fetch
      <4>. QED
        BY <3>1, <4>1, FetchKeeps DEF MbSleepersOK
    <3>2. CASE Nothing(tmo)
      BY <3>2 DEF Nothing, ring, RingOK, ListsOK, MbSleepersOK, MbHandsOK
    <3>. QED
      BY <1>1, <3>1, <3>2
  <2>3. MbHandsOK'
    BY <2>2 DEF MbHandsOK
  <2>4. Once(suspend_thread)'
    BY <2>2 DEF MbSleepersOK
  <2>5. MbCallsOK' /\ MbSleepersOK'
    BY <1>1, <2>2, <2>4, ReturnKeepsOthers
  <2>. QED
    BY <2>1, <2>2, <2>3, <2>5
<1>2. CASE RecvWaits(t, tmo)
  <2>0. /\ Sleep(t, "recv", tmo)
        /\ suspend_sender_thread' = suspend_sender_thread
        /\ suspend_thread' = Suspended(suspend_thread, t)
    BY <1>2 DEF RecvWaits
  <2>1. Clocks'
    BY <2>0, SleepClocks DEF Calls
  <2>2. RingOK' /\ MbHandsOK'
    BY <1>2 DEF RecvWaits, RingOK, MbHandsOK, ring
  <2>3. /\ ListsOK' /\ Once(suspend_thread)'
        /\ On(suspend_thread') = On(suspend_thread) \cup {t}
    BY <2>0, SuspendedList DEF ListsOK, MbSleepersOK, MbSleepers
  <2>4. /\ pc'[t] = "recv" /\ error'[t] = "EOK"
        /\ \A u \in Threads : u # t => pc'[u] = pc[u] /\ error'[u] = error[u]
    BY <2>0 DEF Sleep, Clocks, TimingOK
  <2>5. MbCallsOK'
    BY <2>4 DEF MbCallsOK
  <2>6. MbSleepersOK'
    <3>1. ASSUME NEW u \in On(suspend_sender_thread')
          PROVE  pc'[u] = "send" /\ error'[u] = "EOK"
      <4>1. u \in On(suspend_sender_thread) /\ u # t /\ u \in Threads
        BY <2>0, <3>1, OnThreads DEF MbSleepers, ListsOK
      <4>. QED
        BY <2>4, <4>1 DEF MbSleepersOK
    <3>2. ASSUME NEW u \in On(suspend_thread')
          PROVE  pc'[u] = "recv" /\ error'[u] = "EOK"
      <4>1. u = t \/ (u \in On(suspend_thread) /\ u # t /\ u \in Threads)
        BY <2>3, <3>2, OnThreads DEF ListsOK
      <4>. QED
        BY <2>4, <4>1 DEF MbSleepersOK
    <3>3. Once(suspend_sender_thread)'
      BY <2>0 DEF MbSleepersOK
    <3>. QED
      BY <2>3, <3>1, <3>2, <3>3 DEF MbSleepersOK
  <2>. QED
    BY <2>1, <2>2, <2>3, <2>5, <2>6
<1>. QED
  BY <1>1, <1>2 DEF TryRecv

\* A thread outside of any call, or resumed, is not asleep.
LEMMA MbAwakeNotAsleep ==
    ASSUME NEW t \in Threads, MbInv
    PROVE  /\ pc[t] = "out" => t \notin MbSleepers
           /\ pc[t] = "send" /\ t \notin On(suspend_sender_thread) => t \notin MbSleepers
           /\ pc[t] = "recv" /\ t \notin On(suspend_thread) => t \notin MbSleepers
  BY DEF MbInv, MbSleepersOK, MbSleepers

\* What is left of a wait, as the two calls compute it after a resume.
LEMMA MbTimeLeft ==
    ASSUME NEW t \in Threads, MbInv
    PROVE  /\ Remaining(t) \in Nat \cup {Forever}
           /\ Remaining(t) > 0 => waited[t] + Remaining(t) <= asked[t]
  BY RemainingTime DEF MbInv

LEMMA MbInitInv == MbInit => MbInv
<1> SUFFICES ASSUME MbInit PROVE MbInv
  OBVIOUS
<1>1. Clocks
  BY InitClocks DEF MbInit
<1>2. RingOK
  BY SizeAssumption DEF MbInit, RingOK
<1>3. ListsOK /\ MbHandsOK
  BY DEF MbInit, ThreadInit, ListsOK, MbHandsOK
<1>4. MbCallsOK /\ MbSleepersOK
  BY DEF MbInit, ThreadInit, MbCallsOK, MbSleepersOK, Once, On
<1>. QED
  BY <1>1, <1>2, <1>3, <1>4 DEF MbInv

LEMMA MbNextInv == MbInv /\ [MbNext]_allMb => MbInv'
<1> SUFFICES ASSUME MbInv, [MbNext]_allMb PROVE MbInv'
  OBVIOUS
<1>1. ASSUME NEW t \in Threads, MbTimeout(t) PROVE MbInv'
  <2>0. /\ TimesOut(t)
        /\ suspend_thread' = Without(suspend_thread, t)
        /\ suspend_sender_thread' = Without(suspend_sender_thread, t)
    BY <1>1 DEF MbTimeout
  <2>1. Clocks'
    BY <2>0, TimesOutClocks DEF MbInv
  <2>2. RingOK' /\ MbHandsOK'
    BY <1>1 DEF MbTimeout, ring, MbInv, RingOK, MbHandsOK
  <2>3. /\ ListsOK' /\ Once(suspend_thread)' /\ Once(suspend_sender_thread)'
        /\ On(suspend_thread') = On(suspend_thread) \ {t}
        /\ On(suspend_sender_thread') = On(suspend_sender_thread) \ {t}
    BY <2>0, WithoutThread DEF MbInv, ListsOK, MbSleepersOK
  <2>4. pc' = pc /\ value' = value /\ \A u \in Threads : u # t => error'[u] = error[u]
    BY <1>1 DEF MbTimeout, TimesOut, MbInv, Clocks, TimingOK
  <2>5. MbCallsOK'
    BY <2>4 DEF MbInv, MbCallsOK
  <2>6. MbSleepersOK'
    <3>1. On(suspend_thread) \subseteq Threads /\ On(suspend_sender_thread) \subseteq Threads
      BY OnThreads DEF MbInv, ListsOK
    <3>. QED
      BY <2>3, <2>4, <3>1 DEF MbInv, MbSleepersOK
  <2>. QED
    BY <2>1, <2>2, <2>3, <2>5, <2>6 DEF MbInv
<1>2. CASE IsrSend
  <2>1. Clocks'
    BY <1>2, StillClocks DEF IsrSend, MbInv
  <2>2. MbHandsOK' /\ MbCallsOK'
    BY <1>2 DEF IsrSend, MbInv, MbHandsOK, MbCallsOK
  <2>3. /\ RingOK' /\ ListsOK' /\ Once(suspend_thread)'
        /\ On(suspend_thread') \subseteq On(suspend_thread)
        /\ suspend_sender_thread' = suspend_sender_thread
    <3>1. CASE \E v \in Mails : Deliver(v)
      <4>1. PICK v \in Mails : Deliver(v)
        BY <3>1
      <4>2. suspend_sender_thread' = suspend_sender_thread
        BY <4>1 DEF Deliver
      <4>. QED
        BY <4>1, <4>2, DeliverKeeps DEF MbInv, MbSleepersOK
    <3>2. CASE Refused(0)
      BY <3>2 DEF Refused, ring, MbInv, RingOK, ListsOK, MbSleepersOK
    <3>. QED
      BY <1>2, <3>1, <3>2 DEF IsrSend
  <2>4. MbSleepersOK'
    BY <1>2, <2>3 DEF IsrSend, MbInv, MbSleepersOK
  <2>. QED
    BY <2>1, <2>2, <2>3, <2>4 DEF MbInv
<1>3. CASE MbTick
  <2>1. Clocks'
    BY <1>3, TickClocks DEF MbTick, MbInv
  <2>2. RingOK' /\ ListsOK' /\ MbHandsOK'
    BY <1>3 DEF MbTick, mbVars, ring, MbInv, RingOK, ListsOK, MbHandsOK
  <2>3. MbCallsOK' /\ MbSleepersOK'
    BY <1>3 DEF MbTick, Ticked, mbVars, MbInv, MbCallsOK, MbSleepersOK
  <2>. QED
    BY <2>1, <2>2, <2>3 DEF MbInv
<1>4. ASSUME NEW t \in Threads, rt_mb_send_wait(t) PROVE MbInv'
  <2>1. PICK v \in Mails, tmo \in Timeouts : TrySend(t, v, tmo)
    BY <1>4 DEF rt_mb_send_wait
  <2>2. pc[t] = "out" /\ tmo \in Nat \cup {Forever} /\ UNCHANGED got
    BY <1>4, TimeoutsAssumption DEF rt_mb_send_wait
  <2>. QED
    BY <2>1, <2>2, MbAwakeNotAsleep, TrySendKeeps
<1>5. ASSUME NEW t \in Threads, rt_mb_recv(t) PROVE MbInv'
  <2>1. PICK tmo \in Timeouts : TryRecv(t, tmo)
    BY <1>5 DEF rt_mb_recv
  <2>2. pc[t] = "out" /\ tmo \in Nat \cup {Forever} /\ UNCHANGED value
    BY <1>5, TimeoutsAssumption DEF rt_mb_recv
  <2>. QED
    BY <2>1, <2>2, MbAwakeNotAsleep, TryRecvKeeps
<1>6. ASSUME NEW t \in Threads, SendResumes(t) PROVE MbInv'
  <2>0. pc[t] = "send" /\ t \notin MbSleepers /\ UNCHANGED got
    BY <1>6, MbAwakeNotAsleep DEF SendResumes
  <2>1. CASE /\ error[t] # "EOK" /\ Return(t)
             /\ value' = [value EXCEPT ![t] = NoMail]
             /\ UNCHANGED <<ring, suspend_thread, suspend_sender_thread>>
    <3>1. Clocks'
      BY <2>1, ReturnClocks DEF MbInv
    <3>2. RingOK' /\ ListsOK' /\ MbHandsOK'
      BY <2>0, <2>1 DEF MbInv, ring, RingOK, ListsOK, MbHandsOK
    <3>3. Once(suspend_thread)' /\ Once(suspend_sender_thread)'
      BY <2>1 DEF MbInv, MbSleepersOK
    <3>4. \A u \in Threads : u # t => value'[u] = value[u]
      BY <2>1 DEF MbInv, MbHandsOK
    <3>5. MbCallsOK' /\ MbSleepersOK'
      BY <2>0, <2>1, <3>3, <3>4, ReturnKeepsOthers DEF MbInv
    <3>. QED
      BY <3>1, <3>2, <3>5 DEF MbInv
  <2>2. CASE error[t] = "EOK" /\ TrySend(t, value[t], Remaining(t))
    <3>1. value[t] \in Mails
      BY <2>0 DEF MbInv, MbCallsOK
    <3>. QED
      BY <2>0, <2>2, <3>1, MbTimeLeft, TrySendKeeps
  <2>. QED
    BY <1>6, <2>1, <2>2 DEF SendResumes
<1>7. ASSUME NEW t \in Threads, RecvResumes(t) PROVE MbInv'
  <2>0. pc[t] = "recv" /\ t \notin MbSleepers /\ UNCHANGED value
    BY <1>7, MbAwakeNotAsleep DEF RecvResumes
  <2>1. CASE /\ error[t] # "EOK" /\ Return(t)
             /\ UNCHANGED <<ring, suspend_thread, suspend_sender_thread, got>>
    <3>1. Clocks'
      BY <2>1, ReturnClocks DEF MbInv
    <3>2. RingOK' /\ ListsOK' /\ MbHandsOK'
      BY <2>0, <2>1 DEF MbInv, ring, RingOK, ListsOK, MbHandsOK
    <3>3. Once(suspend_thread)' /\ Once(suspend_sender_thread)'
      BY <2>1 DEF MbInv, MbSleepersOK
    <3>4. MbCallsOK' /\ MbSleepersOK'
      BY <2>0, <2>1, <3>3, ReturnKeepsOthers DEF MbInv
    <3>. QED
      BY <3>1, <3>2, <3>4 DEF MbInv
  <2>2. CASE error[t] = "EOK" /\ TryRecv(t, Remaining(t))
    BY <2>0, <2>2, MbTimeLeft, TryRecvKeeps
  <2>. QED
    BY <1>7, <2>1, <2>2 DEF RecvResumes
<1>8. CASE UNCHANGED allMb
  <2>1. Clocks'
    BY <1>8, StillClocks DEF allMb, waiting, timing, MbInv
  <2>2. RingOK' /\ ListsOK' /\ MbHandsOK'
    BY <1>8 DEF allMb, waiting, mbVars, ring, MbInv, RingOK, ListsOK, MbHandsOK
  <2>3. MbCallsOK' /\ MbSleepersOK'
    BY <1>8 DEF allMb, waiting, mbVars, MbInv, MbCallsOK, MbSleepersOK
  <2>. QED
    BY <2>1, <2>2, <2>3 DEF MbInv
<1>. QED
  BY <1>1, <1>2, <1>3, <1>4, <1>5, <1>6, <1>7, <1>8 DEF MbNext

\* Every variable of the mailbox keeps its type: the ring is never written or
\* read outside of the pool and never holds more than Size mails.
THEOREM MailboxTypes == MbSpec => []MbTypeOK
<1>1. MbInv => MbTypeOK
  BY DEF MbInv, Clocks, TimingOK, RingOK, ListsOK, MbHandsOK, MbTypeOK, ThreadTypeOK
<1>. QED
  BY <1>1, MbInitInv, MbNextInv, PTL DEF MbSpec, allMb

\* No call of the mailbox sleeps longer than its caller allowed, however often
\* it is resumed in vain (ipc.c:1493, 1640).
THEOREM MailboxPatience == MbSpec => []Patience
<1>1. MbInv => Patience
  BY DEF MbInv, Clocks
<1>. QED
  BY <1>1, MbInitInv, MbNextInv, PTL DEF MbSpec, allMb

-----------------------------------------------------------------------------
(***************************************************************************)
(* No lost wakeup.  An arrival adds one mail and one thread on its way to  *)
(* it; a thread on its way that runs takes a mail, or finds none.          *)
(***************************************************************************)

LEMMA ComingThreads ==
    ASSUME NEW call, NEW S \in SUBSET Threads
    PROVE  /\ IsFiniteSet(S) /\ Cardinality(S) \in Nat
           /\ IsFiniteSet(Coming(call)) /\ Cardinality(Coming(call)) \in Nat
  BY ThreadsAssumption, FS_Subset, FS_CardinalityType DEF Coming

\* t is the thread that sends; an interrupt sends without one.
LEMMA DeliverWakes ==
    ASSUME NEW v \in Mails, NEW t, MbInv, MbNoLostWakeup, Deliver(v),
           t \in Threads => pc[t] # "recv",
           \A u \in Threads : u # t => pc'[u] = pc[u] /\ error'[u] = error[u]
    PROVE  MbNoLostWakeup'
<1>0. entry \in Nat /\ Size \in Nat /\ entry' = entry + 1
      /\ suspend_sender_thread' = suspend_sender_thread
      /\ suspend_thread' = Resumed(suspend_thread)
  BY SizeAssumption DEF Deliver, MbInv, RingOK
<1>1. /\ Coming("recv") \subseteq Threads /\ Coming("recv")' \subseteq Threads
      /\ Coming("send") \subseteq Threads /\ Coming("send")' \subseteq Threads
  BY DEF Coming
<1>2. /\ On(suspend_thread') \subseteq On(suspend_thread)
      /\ MbSleepers' \subseteq MbSleepers
  BY <1>0, ResumedList DEF MbInv, ListsOK, MbSleepersOK, MbSleepers, Resumed
<1>3. suspend_thread' # <<>> => entry' <= Cardinality(Coming("recv")')
  <2> SUFFICES ASSUME suspend_thread' # <<>>
               PROVE  entry' <= Cardinality(Coming("recv")')
    OBVIOUS
  <2> DEFINE h == Head(suspend_thread)
  <2>1. suspend_thread # <<>>
    BY <1>0 DEF Resumed
  <2>2. entry <= Cardinality(Coming("recv"))
    BY <2>1 DEF MbNoLostWakeup
  <2>3. h \in On(suspend_thread) /\ h \notin On(suspend_thread')
    BY <1>0, <2>1, ResumedList DEF MbInv, ListsOK, MbSleepersOK
  <2>4. h \in Threads /\ pc[h] = "recv" /\ error[h] = "EOK"
    BY <2>3, OnThreads DEF MbInv, ListsOK, MbSleepersOK
  <2>5. h \notin On(suspend_sender_thread)
    BY <2>4 DEF MbInv, MbSleepersOK
  <2>6. h \in Coming("recv")' /\ h \notin Coming("recv")
    <3>1. h \notin MbSleepers' /\ h \in MbSleepers
      BY <1>0, <2>3, <2>5 DEF MbSleepers
    <3>2. pc'[h] = "recv" /\ error'[h] = "EOK"
      BY <2>4
    <3>. QED
      BY <2>4, <3>1, <3>2 DEF Coming
  <2>7. Coming("recv") \subseteq Coming("recv")'
    BY <1>2 DEF Coming
  <2>8. Cardinality(Coming("recv")) + 1 <= Cardinality(Coming("recv")')
    BY <1>1, <2>6, <2>7, OneThreadMore
  <2>9. Cardinality(Coming("recv")) \in Nat /\ Cardinality(Coming("recv")') \in Nat
    BY <1>1, ComingThreads
  <2>. QED
    BY <1>0, <2>2, <2>8, <2>9
<1>4. suspend_sender_thread' # <<>> => Size - entry' <= Cardinality(Coming("send")')
  <2> SUFFICES ASSUME suspend_sender_thread # <<>>
               PROVE  Size - entry' <= Cardinality(Coming("send")')
    BY <1>0
  <2>1. Size - entry <= Cardinality(Coming("send"))
    BY DEF MbNoLostWakeup
  <2>2. Coming("send") \ {t} \subseteq Coming("send")'
    BY <1>2 DEF Coming
  <2>3. Cardinality(Coming("send")) <= Cardinality(Coming("send")') + 1
    BY <1>1, <2>2, OneThreadLess
  <2>4. Cardinality(Coming("send")) \in Nat /\ Cardinality(Coming("send")') \in Nat
    BY <1>1, ComingThreads
  <2>. QED
    BY <1>0, <2>1, <2>3, <2>4
<1>. QED
  BY <1>3, <1>4 DEF MbNoLostWakeup

LEMMA FetchWakes ==
    ASSUME NEW t \in Threads, MbInv, MbNoLostWakeup, Fetch(t), pc[t] # "send",
           \A u \in Threads : u # t => pc'[u] = pc[u] /\ error'[u] = error[u]
    PROVE  MbNoLostWakeup'
<1>0. entry \in Nat /\ Size \in Nat /\ entry' = entry - 1
      /\ suspend_thread' = suspend_thread
      /\ suspend_sender_thread' = Resumed(suspend_sender_thread)
  BY SizeAssumption DEF Fetch, MbInv, RingOK
<1>1. /\ Coming("recv") \subseteq Threads /\ Coming("recv")' \subseteq Threads
      /\ Coming("send") \subseteq Threads /\ Coming("send")' \subseteq Threads
  BY DEF Coming
<1>2. /\ On(suspend_sender_thread') \subseteq On(suspend_sender_thread)
      /\ MbSleepers' \subseteq MbSleepers
  BY <1>0, ResumedList DEF MbInv, ListsOK, MbSleepersOK, MbSleepers, Resumed
<1>3. suspend_sender_thread' # <<>> => Size - entry' <= Cardinality(Coming("send")')
  <2> SUFFICES ASSUME suspend_sender_thread' # <<>>
               PROVE  Size - entry' <= Cardinality(Coming("send")')
    OBVIOUS
  <2> DEFINE h == Head(suspend_sender_thread)
  <2>1. suspend_sender_thread # <<>>
    BY <1>0 DEF Resumed
  <2>2. Size - entry <= Cardinality(Coming("send"))
    BY <2>1 DEF MbNoLostWakeup
  <2>3. h \in On(suspend_sender_thread) /\ h \notin On(suspend_sender_thread')
    BY <1>0, <2>1, ResumedList DEF MbInv, ListsOK, MbSleepersOK
  <2>4. h \in Threads /\ pc[h] = "send" /\ error[h] = "EOK"
    BY <2>3, OnThreads DEF MbInv, ListsOK, MbSleepersOK
  <2>5. h \notin On(suspend_thread)
    BY <2>4 DEF MbInv, MbSleepersOK
  <2>6. h \in Coming("send")' /\ h \notin Coming("send")
    <3>1. h \notin MbSleepers' /\ h \in MbSleepers
      BY <1>0, <2>3, <2>5 DEF MbSleepers
    <3>2. pc'[h] = "send" /\ error'[h] = "EOK"
      BY <2>4
    <3>. QED
      BY <2>4, <3>1, <3>2 DEF Coming
  <2>7. Coming("send") \subseteq Coming("send")'
    BY <1>2 DEF Coming
  <2>8. Cardinality(Coming("send")) + 1 <= Cardinality(Coming("send")')
    BY <1>1, <2>6, <2>7, OneThreadMore
  <2>9. Cardinality(Coming("send")) \in Nat /\ Cardinality(Coming("send")') \in Nat
    BY <1>1, ComingThreads
  <2>. QED
    BY <1>0, <2>2, <2>8, <2>9
<1>4. suspend_thread' # <<>> => entry' <= Cardinality(Coming("recv")')
  <2> SUFFICES ASSUME suspend_thread # <<>>
               PROVE  entry' <= Cardinality(Coming("recv")')
    BY <1>0
  <2>1. entry <= Cardinality(Coming("recv"))
    BY DEF MbNoLostWakeup
  <2>2. Coming("recv") \ {t} \subseteq Coming("recv")'
    BY <1>2 DEF Coming
  <2>3. Cardinality(Coming("recv")) <= Cardinality(Coming("recv")') + 1
    BY <1>1, <2>2, OneThreadLess
  <2>4. Cardinality(Coming("recv")) \in Nat /\ Cardinality(Coming("recv")') \in Nat
    BY <1>1, ComingThreads
  <2>. QED
    BY <1>0, <2>1, <2>3, <2>4
<1>. QED
  BY <1>3, <1>4 DEF MbNoLostWakeup

\* A step that changes neither ring nor lists, of a thread that was on its way
\* to no mail and to no room, or found none.
LEMMA MbRestWakes ==
    ASSUME MbInv, MbNoLostWakeup, entry' = entry,
           suspend_thread' # <<>> =>
               entry = 0 \/ (suspend_thread # <<>> /\ Coming("recv") \subseteq Coming("recv")'),
           suspend_sender_thread' # <<>> =>
               entry = Size \/ (suspend_sender_thread # <<>>
                                /\ Coming("send") \subseteq Coming("send")')
    PROVE  MbNoLostWakeup'
<1>0. entry \in Nat /\ Size \in Nat
  BY SizeAssumption DEF MbInv, RingOK
<1>1. /\ Coming("recv") \subseteq Threads /\ Coming("recv")' \subseteq Threads
      /\ Coming("send") \subseteq Threads /\ Coming("send")' \subseteq Threads
  BY DEF Coming
<1>2. /\ IsFiniteSet(Coming("recv")') /\ IsFiniteSet(Coming("send")')
      /\ Cardinality(Coming("recv")') \in Nat /\ Cardinality(Coming("send")') \in Nat
      /\ Cardinality(Coming("recv")) \in Nat /\ Cardinality(Coming("send")) \in Nat
  BY <1>1, ComingThreads
<1>3. ASSUME suspend_thread' # <<>>
      PROVE  entry' <= Cardinality(Coming("recv")')
  <2>1. CASE entry = 0
    BY <1>2, <2>1
  <2>2. CASE suspend_thread # <<>> /\ Coming("recv") \subseteq Coming("recv")'
    <3>1. Cardinality(Coming("recv")) <= Cardinality(Coming("recv")')
      BY <1>2, <2>2, FS_Subset
    <3>. QED
      BY <1>0, <1>2, <2>2, <3>1 DEF MbNoLostWakeup
  <2>. QED
    BY <1>3, <2>1, <2>2
<1>4. ASSUME suspend_sender_thread' # <<>>
      PROVE  Size - entry' <= Cardinality(Coming("send")')
  <2>1. CASE entry = Size
    BY <1>0, <1>2, <2>1
  <2>2. CASE suspend_sender_thread # <<>> /\ Coming("send") \subseteq Coming("send")'
    <3>1. Cardinality(Coming("send")) <= Cardinality(Coming("send")')
      BY <1>2, <2>2, FS_Subset
    <3>. QED
      BY <1>0, <1>2, <2>2, <3>1 DEF MbNoLostWakeup
  <2>. QED
    BY <1>4, <2>1, <2>2
<1>. QED
  BY <1>3, <1>4 DEF MbNoLostWakeup

\* A call returns or goes to sleep: of the other threads nothing changes.
LEMMA OthersStay ==
    ASSUME NEW t \in Threads, MbInv,
           Return(t) \/ \E call \in Calls, tmo \in Nat \cup {Forever} : Sleep(t, call, tmo)
    PROVE  \A u \in Threads : u # t => pc'[u] = pc[u] /\ error'[u] = error[u]
  BY DEF MbInv, Clocks, TimingOK, Return, Sleep

LEMMA TrySendWakes ==
    ASSUME NEW t \in Threads, NEW v \in Mails, NEW tmo \in Nat \cup {Forever},
           MbInv, MbNoLostWakeup, TrySend(t, v, tmo), pc[t] # "recv"
    PROVE  MbNoLostWakeup'
<1>0. \A u \in Threads : u # t => pc'[u] = pc[u] /\ error'[u] = error[u]
  BY OthersStay DEF TrySend, SendWaits, Calls
<1>1. CASE Deliver(v)
  BY <1>0, <1>1, DeliverWakes
<1>2. CASE Refused(tmo) \/ SendWaits(t, tmo)
  <2>1. entry' = entry /\ entry = Size /\ suspend_thread' = suspend_thread
    BY <1>2 DEF Refused, SendWaits, ring
  <2>2. Coming("recv") \subseteq Coming("recv")'
    <3>1. \A u \in Threads : u \notin MbSleepers /\ u # t => u \notin MbSleepers'
      <4>1. CASE Refused(tmo)
        BY <4>1 DEF Refused, MbSleepers
      <4>2. CASE SendWaits(t, tmo)
        BY <4>2, SuspendedList DEF SendWaits, MbSleepers, MbInv, ListsOK
      <4>. QED
        BY <1>2, <4>1, <4>2
    <3>. QED
      BY <1>0, <3>1 DEF Coming
  <2>. QED
    BY <2>1, <2>2, MbRestWakes
<1>. QED
  BY <1>1, <1>2 DEF TrySend

LEMMA TryRecvWakes ==
    ASSUME NEW t \in Threads, NEW tmo \in Nat \cup {Forever},
           MbInv, MbNoLostWakeup, TryRecv(t, tmo), pc[t] # "send"
    PROVE  MbNoLostWakeup'
<1>0. \A u \in Threads : u # t => pc'[u] = pc[u] /\ error'[u] = error[u]
  BY OthersStay DEF TryRecv, RecvWaits, Calls
<1>1. CASE Fetch(t)
  BY <1>0, <1>1, FetchWakes
<1>2. CASE Nothing(tmo) \/ RecvWaits(t, tmo)
  <2>1. entry' = entry /\ entry = 0 /\ suspend_sender_thread' = suspend_sender_thread
    BY <1>2 DEF Nothing, RecvWaits, ring
  <2>2. Coming("send") \subseteq Coming("send")'
    <3>1. \A u \in Threads : u \notin MbSleepers /\ u # t => u \notin MbSleepers'
      <4>1. CASE Nothing(tmo)
        BY <4>1 DEF Nothing, MbSleepers
      <4>2. CASE RecvWaits(t, tmo)
        BY <4>2, SuspendedList DEF RecvWaits, MbSleepers, MbInv, ListsOK
      <4>. QED
        BY <1>2, <4>1, <4>2
    <3>. QED
      BY <1>0, <3>1 DEF Coming
  <2>. QED
    BY <2>1, <2>2, MbRestWakes
<1>. QED
  BY <1>1, <1>2 DEF TryRecv

LEMMA MbNextWakes == MbInv /\ MbNoLostWakeup /\ [MbNext]_allMb => MbNoLostWakeup'
<1> SUFFICES ASSUME MbInv, MbNoLostWakeup, [MbNext]_allMb PROVE MbNoLostWakeup'
  OBVIOUS
<1>1. ASSUME NEW t \in Threads, MbTimeout(t) PROVE MbNoLostWakeup'
  <2>0. /\ entry' = entry /\ pc' = pc
        /\ suspend_thread' = Without(suspend_thread, t)
        /\ suspend_sender_thread' = Without(suspend_sender_thread, t)
        /\ \A u \in Threads : u # t => error'[u] = error[u]
        /\ t \in MbSleepers
    BY <1>1 DEF MbTimeout, TimesOut, ring, Due, MbInv, Clocks, TimingOK
  <2>1. /\ On(suspend_thread') = On(suspend_thread) \ {t}
        /\ On(suspend_sender_thread') = On(suspend_sender_thread) \ {t}
    BY <2>0, WithoutThread DEF MbInv, ListsOK, MbSleepersOK
  <2>2. /\ Coming("recv") \subseteq Coming("recv")'
        /\ Coming("send") \subseteq Coming("send")'
    BY <2>0, <2>1 DEF Coming, MbSleepers
  <2>3. /\ suspend_thread' # <<>> => suspend_thread # <<>>
        /\ suspend_sender_thread' # <<>> => suspend_sender_thread # <<>>
    <3>1. Without(<<>>, t) = <<>>
      BY DEF Without, On
    <3>. QED
      BY <2>0, <3>1
  <2>. QED
    BY <2>0, <2>2, <2>3, MbRestWakes
<1>2. CASE IsrSend
  <2>1. CASE \E v \in Mails : Deliver(v)
    <3>1. PICK v \in Mails : Deliver(v)
      BY <2>1
    <3>2. PICK x : x \notin Threads
      BY NoSetContainsEverything
    <3>3. \A u \in Threads : pc'[u] = pc[u] /\ error'[u] = error[u]
      BY <1>2 DEF IsrSend
    <3>. QED
      BY <3>1, <3>2, <3>3, DeliverWakes
  <2>2. CASE Refused(0)
    BY <1>2, <2>2 DEF IsrSend, Refused, ring, MbNoLostWakeup, Coming, MbSleepers
  <2>. QED
    BY <1>2, <2>1, <2>2 DEF IsrSend
<1>3. CASE MbTick
  BY <1>3 DEF MbTick, Ticked, mbVars, ring, MbNoLostWakeup, Coming, MbSleepers
<1>4. ASSUME NEW t \in Threads, rt_mb_send_wait(t) PROVE MbNoLostWakeup'
  <2>1. PICK v \in Mails, tmo \in Timeouts : TrySend(t, v, tmo)
    BY <1>4 DEF rt_mb_send_wait
  <2>2. pc[t] = "out" /\ tmo \in Nat \cup {Forever}
    BY <1>4, TimeoutsAssumption DEF rt_mb_send_wait
  <2>. QED
    BY <2>1, <2>2, TrySendWakes
<1>5. ASSUME NEW t \in Threads, rt_mb_recv(t) PROVE MbNoLostWakeup'
  <2>1. PICK tmo \in Timeouts : TryRecv(t, tmo)
    BY <1>5 DEF rt_mb_recv
  <2>2. pc[t] = "out" /\ tmo \in Nat \cup {Forever}
    BY <1>5, TimeoutsAssumption DEF rt_mb_recv
  <2>. QED
    BY <2>1, <2>2, TryRecvWakes
<1>6. ASSUME NEW t \in Threads, SendResumes(t) PROVE MbNoLostWakeup'
  <2>0. pc[t] = "send"
    BY <1>6 DEF SendResumes
  <2>1. CASE /\ error[t] # "EOK" /\ Return(t)
             /\ UNCHANGED <<ring, suspend_thread, suspend_sender_thread>>
    <3>1. \A u \in Threads : u # t => pc'[u] = pc[u] /\ error'[u] = error[u]
      BY <2>1, OthersStay
    <3>2. /\ Coming("recv") \subseteq Coming("recv")'
          /\ Coming("send") \subseteq Coming("send")'
      BY <2>1, <3>1 DEF Coming, MbSleepers
    <3>. QED
      BY <2>1, <3>2, MbRestWakes DEF ring
  <2>2. CASE error[t] = "EOK" /\ TrySend(t, value[t], Remaining(t))
    <3>1. value[t] \in Mails
      BY <2>0 DEF MbInv, MbCallsOK
    <3>. QED
      BY <2>0, <2>2, <3>1, MbTimeLeft, TrySendWakes
  <2>. QED
    BY <1>6, <2>1, <2>2 DEF SendResumes
<1>7. ASSUME NEW t \in Threads, RecvResumes(t) PROVE MbNoLostWakeup'
  <2>0. pc[t] = "recv"
    BY <1>7 DEF RecvResumes
  <2>1. CASE /\ error[t] # "EOK" /\ Return(t)
             /\ UNCHANGED <<ring, suspend_thread, suspend_sender_thread, got>>
    <3>1. \A u \in Threads : u # t => pc'[u] = pc[u] /\ error'[u] = error[u]
      BY <2>1, OthersStay
    <3>2. /\ Coming("recv") \subseteq Coming("recv")'
          /\ Coming("send") \subseteq Coming("send")'
      BY <2>1, <3>1 DEF Coming, MbSleepers
    <3>. QED
      BY <2>1, <3>2, MbRestWakes DEF ring
  <2>2. CASE error[t] = "EOK" /\ TryRecv(t, Remaining(t))
    BY <2>0, <2>2, MbTimeLeft, TryRecvWakes
  <2>. QED
    BY <1>7, <2>1, <2>2 DEF RecvResumes
<1>8. CASE UNCHANGED allMb
  BY <1>8 DEF allMb, waiting, mbVars, ring, MbNoLostWakeup, Coming, MbSleepers
<1>. QED
  BY <1>1, <1>2, <1>3, <1>4, <1>5, <1>6, <1>7, <1>8 DEF MbNext

\* While a thread sleeps on a mail every mail is fetched by a thread already on
\* its way, and likewise for room: the waits of rt_mb_recv (ipc.c:1585) and
\* rt_mb_send_wait (ipc.c:1440) lose no wakeup, for any number of threads.
THEOREM MailboxWakes == MbSpec => []MbNoLostWakeup
<1>1. MbInit => MbNoLostWakeup
  BY DEF MbInit, ThreadInit, MbNoLostWakeup
<1>. QED
  BY <1>1, MbInitInv, MbNextInv, MbNextWakes, PTL DEF MbSpec, allMb

-----------------------------------------------------------------------------
(***************************************************************************)
(* The ring is a bounded FIFO queue: delivering appends, fetching takes    *)
(* the oldest, and nothing else touches the mails between the offsets.     *)
(***************************************************************************)

Place(k) == IF out_offset + k <= Size THEN out_offset + k - 1
                                      ELSE out_offset + k - 1 - Size
Queued == [k \in 1..entry |-> MailAt(k)]

LEMMA MailPlace == \A k : MailAt(k) = msg_pool[Place(k)]
  BY DEF MailAt, Place

QueuedOK == /\ Queued \in Seq(Mails \cup {NoMail})
            /\ Len(Queued) = entry /\ DOMAIN Queued = 1..entry
            /\ \A k \in 1..entry : Queued[k] = msg_pool[Place(k)]

LEMMA QueuedSeq == RingOK => QueuedOK
<1> SUFFICES ASSUME RingOK PROVE QueuedOK
  OBVIOUS
<1>1. entry \in Nat /\ Size \in Nat /\ entry <= Size
      /\ out_offset \in Nat /\ out_offset < Size
  BY SizeAssumption DEF RingOK
<1>2. \A k \in 1..entry : Place(k) \in 0..Size-1
  BY <1>1 DEF Place
<1>3. \A k \in 1..entry : MailAt(k) \in Mails \cup {NoMail}
  BY <1>2, MailPlace DEF RingOK
<1>4. Queued \in [1..entry -> Mails \cup {NoMail}]
  BY <1>3 DEF Queued
<1>5. \A k \in 1..entry : Queued[k] = MailAt(k)
  BY DEF Queued
<1>. QED
  BY <1>1, <1>4, <1>5, MailPlace DEF QueuedOK

LEMMA QueuedSeqNext == RingOK' => QueuedOK'
  BY QueuedSeq, PTL

LEMMA DeliverPuts ==
    ASSUME NEW v \in Mails, RingOK, RingOK', OffsetsOK, Deliver(v)
    PROVE  OffsetsOK' /\ Len(Queued) < Size /\ Queued' = Append(Queued, v)
<1>0. /\ entry \in Nat /\ Size \in Nat /\ entry < Size /\ entry' = entry + 1
      /\ out_offset \in Nat /\ out_offset < Size /\ out_offset' = out_offset
      /\ in_offset \in 0..Size-1 /\ in_offset' = Around(in_offset)
      /\ in_offset = IF out_offset + entry < Size THEN out_offset + entry
                     ELSE out_offset + entry - Size
  BY SizeAssumption DEF RingOK, OffsetsOK, Deliver
<1>1. OffsetsOK'
  BY <1>0, AroundRing DEF OffsetsOK
<1>2. \A k \in 1..entry : Place(k)' = Place(k) /\ Place(k) # in_offset
                          /\ Place(k) \in 0..Size-1
  BY <1>0 DEF Place
<1>3. \A k : k = entry + 1 => Place(k)' = in_offset
  BY <1>0 DEF Place
<1>4. /\ msg_pool'[in_offset] = v
      /\ \A j \in 0..Size-1 : j # in_offset => msg_pool'[j] = msg_pool[j]
  BY <1>0 DEF RingOK, Deliver
<1>5. /\ DOMAIN Queued' = 1..(entry + 1)
      /\ \A k \in 1..(entry + 1) : Queued'[k] = msg_pool'[Place(k)']
      /\ Queued' \in Seq(Mails \cup {NoMail}) /\ Len(Queued') = entry + 1
  BY <1>0, QueuedSeqNext DEF QueuedOK
<1>6. /\ Queued \in Seq(Mails \cup {NoMail}) /\ Len(Queued) = entry
      /\ \A k \in 1..entry : Queued[k] = msg_pool[Place(k)]
  BY QueuedSeq DEF QueuedOK
<1>7. ASSUME NEW k \in 1..(entry + 1)
      PROVE  Queued'[k] = Append(Queued, v)[k]
  <2>1. CASE k = entry + 1
    <3>1. Append(Queued, v)[k] = v
      BY <1>6, <2>1
    <3>. QED
      BY <1>3, <1>4, <1>5, <2>1, <3>1
  <2>2. CASE k # entry + 1
    <3>1. k \in 1..entry
      BY <1>0, <2>2
    <3>2. Append(Queued, v)[k] = msg_pool[Place(k)]
      BY <1>6, <3>1
    <3>. QED
      BY <1>2, <1>4, <1>5, <3>1, <3>2
  <2>. QED
    BY <2>1, <2>2
<1>8. Append(Queued, v) \in Seq(Mails \cup {NoMail}) /\ Len(Append(Queued, v)) = entry + 1
  BY <1>6
<1>9. Queued' = Append(Queued, v)
  BY <1>0, <1>5, <1>7, <1>8
<1>. QED
  BY <1>0, <1>1, <1>6, <1>9

LEMMA FetchGets ==
    ASSUME NEW t \in Threads, RingOK, RingOK', OffsetsOK, Fetch(t)
    PROVE  /\ OffsetsOK' /\ Queued # <<>> /\ Queued' = Tail(Queued)
           /\ got' = [got EXCEPT ![t] = Head(Queued)]
<1>0. /\ entry \in Nat /\ Size \in Nat /\ entry > 0 /\ entry <= Size /\ entry' = entry - 1
      /\ out_offset \in 0..Size-1 /\ out_offset' = Around(out_offset)
      /\ in_offset' = in_offset /\ msg_pool' = msg_pool
      /\ in_offset = IF out_offset + entry < Size THEN out_offset + entry
                     ELSE out_offset + entry - Size
  BY SizeAssumption DEF RingOK, OffsetsOK, Fetch
<1>1. OffsetsOK'
  BY <1>0, AroundRing DEF OffsetsOK
<1>2. out_offset' = IF out_offset + 1 = Size THEN 0 ELSE out_offset + 1
  BY <1>0, AroundRing
<1>3. \A k \in 1..(entry - 1) : Place(k)' = Place(k + 1)
  BY <1>0, <1>2 DEF Place
<1>4. Place(1) = out_offset
  BY <1>0 DEF Place
<1>5. /\ DOMAIN Queued' = 1..(entry - 1)
      /\ \A k \in 1..(entry - 1) : Queued'[k] = msg_pool'[Place(k)']
      /\ Queued' \in Seq(Mails \cup {NoMail}) /\ Len(Queued') = entry - 1
  BY <1>0, QueuedSeqNext DEF QueuedOK
<1>6. /\ Queued \in Seq(Mails \cup {NoMail}) /\ Len(Queued) = entry
      /\ \A k \in 1..entry : Queued[k] = msg_pool[Place(k)]
  BY QueuedSeq DEF QueuedOK
<1>7. Queued # <<>>
  BY <1>0, <1>6
<1>8. /\ Tail(Queued) \in Seq(Mails \cup {NoMail}) /\ Len(Tail(Queued)) = entry - 1
      /\ \A k \in 1..(entry - 1) : Tail(Queued)[k] = Queued[k + 1]
  BY <1>0, <1>6, <1>7
<1>9. \A k \in 1..(entry - 1) : Queued'[k] = Tail(Queued)[k]
  <2>1. \A k \in 1..(entry - 1) : k + 1 \in 1..entry
    BY <1>0
  <2>. QED
    BY <1>0, <1>3, <1>5, <1>6, <1>8, <2>1
<1>10. Queued' = Tail(Queued)
  BY <1>0, <1>5, <1>8, <1>9
<1>11. Head(Queued) = msg_pool[out_offset]
  <2>1. 1 \in 1..entry
    BY <1>0
  <2>. QED
    BY <1>4, <1>6, <1>7, <2>1
<1>. QED
  BY <1>1, <1>7, <1>10, <1>11 DEF Fetch

\* What the calls do to the queue of mails: put, get, or neither.
MbPuts == \E v \in Mails : Deliver(v) /\ UNCHANGED got
MbGets == \E t \in Threads : Fetch(t)
MbNeither == UNCHANGED <<ring, got>>

LEMMA MbCallsOfQueue ==
    MbInv /\ [MbNext]_allMb => MbPuts \/ MbGets \/ MbNeither
<1> SUFFICES ASSUME MbInv, [MbNext]_allMb PROVE MbPuts \/ MbGets \/ MbNeither
  OBVIOUS
<1>0. ASSUME NEW t \in Threads, NEW v \in Mails, NEW tmo, TrySend(t, v, tmo), UNCHANGED got
      PROVE  MbPuts \/ MbNeither
  BY <1>0 DEF TrySend, Refused, SendWaits, MbPuts, MbNeither
<1>1. ASSUME NEW t \in Threads, NEW tmo, TryRecv(t, tmo)
      PROVE  MbGets \/ MbNeither
  BY <1>1 DEF TryRecv, Nothing, RecvWaits, MbGets, MbNeither
<1>2. ASSUME NEW t \in Threads, MbTimeout(t) PROVE MbNeither
  BY <1>2 DEF MbTimeout, MbNeither
<1>3. CASE IsrSend
  BY <1>3 DEF IsrSend, Refused, MbPuts, MbNeither
<1>4. CASE MbTick \/ UNCHANGED allMb
  BY <1>4 DEF MbTick, allMb, mbVars, MbNeither
<1>5. ASSUME NEW t \in Threads, rt_mb_send_wait(t) \/ rt_mb_recv(t)
      PROVE  MbPuts \/ MbGets \/ MbNeither
  BY <1>0, <1>1, <1>5 DEF rt_mb_send_wait, rt_mb_recv
<1>6. ASSUME NEW t \in Threads, SendResumes(t) PROVE MbPuts \/ MbNeither
  <2>1. pc[t] = "send" => value[t] \in Mails
    BY DEF MbInv, MbCallsOK
  <2>. QED
    BY <1>0, <1>6, <2>1 DEF SendResumes, MbNeither
<1>7. ASSUME NEW t \in Threads, RecvResumes(t) PROVE MbGets \/ MbNeither
  BY <1>1, <1>7 DEF RecvResumes, MbNeither
<1>. QED
  BY <1>2, <1>3, <1>4, <1>5, <1>6, <1>7 DEF MbNext

LEMMA MbInitQueue == MbInit => OffsetsOK /\ MailQueue!Init
<1> SUFFICES ASSUME MbInit PROVE OffsetsOK /\ MailQueue!Init
  OBVIOUS
<1>1. OffsetsOK
  BY SizeAssumption DEF MbInit, OffsetsOK
<1>2. Queued = <<>>
  <2>1. RingOK
    BY MbInitInv DEF MbInv
  <2>. QED
    BY <2>1, QueuedSeq DEF MbInit, QueuedOK
<1>. QED
  BY <1>1, <1>2 DEF MailQueue!Init, Queued, MbInit

LEMMA MbNextQueue ==
    MbInv /\ MbInv' /\ OffsetsOK /\ [MbNext]_allMb
        => OffsetsOK' /\ [MailQueue!Next]_<<[k \in 1..entry |-> MailAt(k)], got>>
<1> SUFFICES ASSUME MbInv, MbInv', OffsetsOK, [MbNext]_allMb
             PROVE  OffsetsOK' /\ [MailQueue!Next]_<<[k \in 1..entry |-> MailAt(k)], got>>
  OBVIOUS
<1>0. RingOK /\ RingOK'
  BY DEF MbInv
<1>1. CASE MbPuts
  <2>1. PICK v \in Mails : Deliver(v) /\ UNCHANGED got
    BY <1>1 DEF MbPuts
  <2>2. OffsetsOK' /\ Len(Queued) < Size /\ Queued' = Append(Queued, v)
    BY <1>0, <2>1, DeliverPuts
  <2>3. MailQueue!Put
    BY <2>1, <2>2 DEF MailQueue!Put, Queued
  <2>. QED
    BY <2>2, <2>3 DEF MailQueue!Next
<1>2. CASE MbGets
  <2>1. PICK t \in Threads : Fetch(t)
    BY <1>2 DEF MbGets
  <2>2. /\ OffsetsOK' /\ Queued # <<>> /\ Queued' = Tail(Queued)
        /\ got' = [got EXCEPT ![t] = Head(Queued)]
    BY <1>0, <2>1, FetchGets
  <2>3. MailQueue!Get(t)
    BY <2>2 DEF MailQueue!Get, Queued
  <2>. QED
    BY <2>2, <2>3 DEF MailQueue!Next
<1>3. CASE MbNeither
  BY <1>3 DEF MbNeither, ring, OffsetsOK, Queued, MailAt
<1>. QED
  BY <1>1, <1>2, <1>3, MbCallsOfQueue

\* The mailbox implements the bounded FIFO queue, whatever its size, the
\* threads, the mails and the waiting times (rt_mb_send_wait, rt_mb_recv).
THEOREM MailboxImplements == MbSpec => MailboxIsQueue
  BY MbInitInv, MbNextInv, MbInitQueue, MbNextQueue, PTL
     DEF MbSpec, allMb, MailboxIsQueue, MailQueue!Spec

-----------------------------------------------------------------------------
(***************************************************************************)
(* III. The message queue                                                  *)
(***************************************************************************)

allMq == <<waiting, mqVars>>

-----------------------------------------------------------------------------
(***************************************************************************)
(* Chains of slots                                                         *)
(***************************************************************************)

LEMMA NullNoSlot == Null \notin Slots /\ Slots \subseteq Nat
  BY DEF Null, Slots

\* Slots are finitely many: a sequence without repetition is one of Chains.
LEMMA ShortChain ==
    ASSUME NEW q \in Seq(Slots), Once(q)
    PROVE  q \in Chains /\ Len(q) \in 0..max_msgs
<1>0. Len(q) \in Nat /\ q \in [1..Len(q) -> Slots]
  OBVIOUS
<1>1. Len(q) \in Nat /\ max_msgs \in Nat /\ q \in [1..Len(q) -> Slots]
  BY <1>0, MaxMsgsAssumption
<1>2. IsFiniteSet(1..Len(q)) /\ Cardinality(1..Len(q)) = Len(q)
  BY <1>1, FS_Interval
<1>3. IsFiniteSet(Slots) /\ Cardinality(Slots) = max_msgs
  BY <1>1, FS_Interval DEF Slots
<1>4. Len(q) <= max_msgs
  <2> SUFFICES ASSUME max_msgs < Len(q) PROVE FALSE
    BY <1>1
  <2>1. PICK j, k \in 1..Len(q) : j # k /\ q[j] = q[k]
    BY <1>1, <1>2, <1>3, FS_PigeonHole
  <2>. QED
    BY <2>1 DEF Once
<1>5. Len(q) \in 0..max_msgs
  BY <1>1, <1>4
<1>6. q \in UNION {[1..n -> Slots] : n \in 0..max_msgs}
  BY <1>1, <1>5
<1>. QED
  BY <1>5, <1>6 DEF Chains

LEMMA ChainsSeq ==
    ASSUME NEW q \in Chains
    PROVE  q \in Seq(Slots) /\ DOMAIN q = 1..Len(q) /\ Len(q) \in Nat
<1>1. PICK n \in 0..max_msgs : q \in [1..n -> Slots]
  BY DEF Chains
<1>2. n \in Nat
  BY MaxMsgsAssumption
<1>. QED
  BY <1>1, <1>2

\* A chain depends only on what is chained behind its own slots.
LEMMA ChainSame ==
    ASSUME NEW q \in Seq(Slots), NEW nx, NEW ny, NEW s,
           IsChain(nx, q, s), \A x \in On(q) : ny[x] = nx[x]
    PROVE  IsChain(ny, q, s)
  BY DEF IsChain, On

\* A list with a length has elements.
LEMMA LongList ==
    ASSUME NEW q, Len(q) # 0
    PROVE  q # <<>>
  OBVIOUS

\* Taking the first slot off leaves the chain that begins behind it.
LEMMA ChainTail ==
    ASSUME NEW q \in Seq(Slots), NEW nx, NEW s, IsChain(nx, q, s), Once(q),
           s # Null \/ q # <<>>
    PROVE  /\ q # <<>> /\ s = Head(q) /\ s = q[1] /\ s \in Slots /\ s \in On(q)
           /\ Tail(q) \in Seq(Slots) /\ Once(Tail(q)) /\ On(Tail(q)) = On(q) \ {s}
           /\ Len(Tail(q)) = Len(q) - 1
           /\ IsChain(nx, Tail(q), nx[s])
           /\ LastOf(Tail(q)) = IF LastOf(q) = s THEN Null ELSE LastOf(q)
<1>1. q # <<>> /\ s = q[1]
  BY DEF IsChain, Null
<1>2. /\ Len(q) \in Nat /\ Len(q) > 0 /\ Head(q) = q[1] /\ DOMAIN q = 1..Len(q)
      /\ Tail(q) \in Seq(Slots) /\ Len(Tail(q)) = Len(q) - 1
      /\ \A k \in 1..(Len(q) - 1) : Tail(q)[k] = q[k + 1]
      /\ DOMAIN Tail(q) = 1..(Len(q) - 1)
  BY <1>1
<1>0. Len(q) \in Nat
  OBVIOUS
<1>3. 1 \in 1..Len(q)
  BY <1>2
<1>4. s \in Slots /\ s = Head(q) /\ s \in On(q)
  BY <1>1, <1>2, <1>3 DEF On
<1>5. Once(Tail(q)) /\ On(Tail(q)) = On(q) \ {s}
  BY <1>1, <1>4, TailList
<1>6. nx[s] = IF Len(q) = 1 THEN Null ELSE q[2]
  BY <1>1, <1>2, <1>3 DEF IsChain
<1>7. nx[s] = IF Tail(q) = <<>> THEN Null ELSE Tail(q)[1]
  <2>1. CASE Len(q) = 1
    <3>1. Tail(q) = <<>>
      BY <1>2, <2>1
    <3>. QED
      BY <1>6, <2>1, <3>1
  <2>2. CASE Len(q) # 1
    <3>1. 1 \in 1..(Len(q) - 1)
      BY <1>2, <2>2
    <3>2. Tail(q) # <<>>
      BY <1>2, <2>2
    <3>. QED
      BY <1>2, <1>6, <2>2, <3>1, <3>2
  <2>. QED
    BY <2>1, <2>2
<1>8. ASSUME NEW k \in 1..(Len(q) - 1)
      PROVE  nx[Tail(q)[k]] = IF k = Len(Tail(q)) THEN Null ELSE Tail(q)[k + 1]
  <2>1. k + 1 \in 1..Len(q) /\ Tail(q)[k] = q[k + 1]
    BY <1>2
  <2>2. nx[q[k + 1]] = IF k + 1 = Len(q) THEN Null ELSE q[(k + 1) + 1]
    BY <1>2, <2>1 DEF IsChain
  <2>3. CASE k = Len(q) - 1
    BY <1>2, <2>1, <2>2, <2>3
  <2>4. CASE k # Len(q) - 1
    <3>2. k + 1 \in 1..(Len(q) - 1) /\ k + 1 # Len(q)
      BY <1>0, <2>4
    <3>3. Tail(q)[k + 1] = q[(k + 1) + 1]
      BY <1>2, <3>2
    <3>4. k # Len(Tail(q))
      BY <1>2, <2>4
    <3>. QED
      BY <2>1, <2>2, <3>2, <3>3, <3>4
  <2>. QED
    BY <2>3, <2>4
<1>9. IsChain(nx, Tail(q), nx[s])
  BY <1>2, <1>7, <1>8 DEF IsChain
<1>10. LastOf(Tail(q)) = IF LastOf(q) = s THEN Null ELSE LastOf(q)
  <2>1. LastOf(q) = q[Len(q)]
    BY <1>1 DEF LastOf
  <2>2. CASE Len(q) = 1
    <3>1. Tail(q) = <<>>
      BY <1>2, <2>2
    <3>. QED
      BY <1>1, <2>1, <2>2, <3>1 DEF LastOf
  <2>3. CASE Len(q) # 1
    <3>0. Len(q) - 1 \in 1..(Len(q) - 1) /\ Len(q) \in 1..Len(q)
      BY <1>0, <1>2, <2>3
    <3>1. Len(q) - 1 \in 1..(Len(q) - 1) /\ Len(q) \in 1..Len(q) /\ Tail(q) # <<>>
      <4>1. Len(Tail(q)) # 0
        BY <1>2, <2>3
      <4>2. Tail(q) # <<>>
        BY <4>1, LongList
      <4>. QED
        BY <3>0, <4>2
    <3>2. LastOf(Tail(q)) = q[Len(q)]
      <4>1. LastOf(Tail(q)) = Tail(q)[Len(Tail(q))]
        BY <3>1 DEF LastOf
      <4>2. Len(Tail(q)) = Len(q) - 1 /\ Tail(q)[Len(q) - 1] = q[(Len(q) - 1) + 1]
        BY <1>2, <3>1
      <4>3. (Len(q) - 1) + 1 = Len(q)
        BY <1>2
      <4>. QED
        BY <4>1, <4>2, <4>3
    <3>3. q[Len(q)] # q[1]
      BY <1>3, <2>3, <3>1 DEF Once
    <3>. QED
      BY <1>1, <2>1, <3>2, <3>3
  <2>. QED
    BY <2>2, <2>3
<1>. QED
  BY <1>1, <1>2, <1>4, <1>5, <1>9, <1>10

\* The chain, and its first slot, when slot x is linked behind the last of q.
Relinked(nx, q, x) == IF LastOf(q) = Null THEN nx ELSE [nx EXCEPT ![LastOf(q)] = x]
FirstOf(s, x) == IF s = Null THEN x ELSE s

\* Linking a slot, itself the end of a list, behind the last one.
LEMMA ChainAppend ==
    ASSUME NEW q \in Seq(Slots), NEW nx \in [Slots -> Slots \cup {Null}], NEW s,
           NEW x \in Slots, IsChain(nx, q, s), Once(q), x \notin On(q), nx[x] = Null
    PROVE  /\ Relinked(nx, q, x) \in [Slots -> Slots \cup {Null}]
           /\ IsChain(Relinked(nx, q, x), Append(q, x), FirstOf(s, x))
           /\ LastOf(Append(q, x)) = x
           /\ \A y \in Slots \ On(q) : Relinked(nx, q, x)[y] = nx[y]
<1> USE DEF Relinked, FirstOf
<1> DEFINE r == Append(q, x)
           ny == Relinked(nx, q, x)
<1>0. Len(q) \in Nat
  OBVIOUS
<1>1. /\ Len(q) \in Nat /\ DOMAIN q = 1..Len(q) /\ r \in Seq(Slots)
      /\ Len(r) = Len(q) + 1 /\ DOMAIN r = 1..(Len(q) + 1) /\ r # <<>>
      /\ \A k \in 1..Len(q) : r[k] = q[k]
      /\ r[Len(q) + 1] = x
  OBVIOUS
<1>2. LastOf(r) = x
  BY <1>1 DEF LastOf
<1> HIDE DEF r
<1>3. CASE q = <<>>
  <2>1. s = Null /\ ny = nx /\ Len(q) = 0 /\ r = <<x>>
    BY <1>3 DEF IsChain, LastOf, r
  <2>2. IsChain(nx, r, x)
    BY <2>1 DEF IsChain
  <2>. QED
    BY <1>2, <2>1, <2>2 DEF r
<1>4. CASE q # <<>>
  <2>1. /\ Len(q) > 0 /\ LastOf(q) = q[Len(q)] /\ s = q[1]
        /\ 1 \in 1..Len(q) /\ Len(q) \in 1..Len(q)
    BY <1>1, <1>4 DEF LastOf, IsChain
  <2>2. LastOf(q) \in Slots /\ s \in Slots /\ LastOf(q) \in On(q)
    BY <1>1, <2>1 DEF On
  <2>3. ny = [nx EXCEPT ![LastOf(q)] = x]
    BY <2>2, NullNoSlot
  <2>4. ny[LastOf(q)] = x /\ \A y \in Slots : y # LastOf(q) => ny[y] = nx[y]
    BY <2>2, <2>3
  <2>5. ASSUME NEW k \in 1..(Len(q) + 1)
        PROVE  ny[r[k]] = IF k = Len(r) THEN Null ELSE r[k + 1]
    <3>1. CASE k = Len(q) + 1
      <4>1. r[k] = x /\ x # LastOf(q)
        BY <1>1, <2>2, <3>1
      <4>. QED
        BY <1>1, <2>4, <3>1, <4>1
    <3>2. CASE k = Len(q)
      <4>0. k \in 1..Len(q) /\ k # Len(q) + 1
        BY <1>0, <2>1, <3>2
      <4>1. r[k] = LastOf(q) /\ r[k + 1] = x /\ k # Len(r)
        BY <1>1, <2>1, <3>2, <4>0
      <4>2. ny[r[k]] = x
        BY <2>4, <4>1
      <4>. QED
        BY <4>1, <4>2
    <3>3. CASE k < Len(q)
      <4>1. k \in 1..Len(q) /\ k + 1 \in 1..Len(q) /\ q[k] \in Slots
        BY <1>1, <3>3
      <4>2. q[k] # LastOf(q)
        BY <2>1, <3>3, <4>1 DEF Once
      <4>3. nx[q[k]] = q[k + 1]
        BY <1>1, <3>3, <4>1 DEF IsChain
      <4>. QED
        BY <1>1, <2>4, <3>3, <4>1, <4>2, <4>3
    <3>4. k = Len(q) + 1 \/ k = Len(q) \/ k < Len(q)
      BY <1>0
    <3>. QED
      BY <3>1, <3>2, <3>3, <3>4
  <2>6. s # Null /\ r[1] = s
    BY <1>1, <2>1, <2>2, NullNoSlot
  <2>7. IsChain(ny, r, s)
    BY <1>1, <2>5, <2>6 DEF IsChain
  <2>8. ny \in [Slots -> Slots \cup {Null}]
    BY <2>3
  <2>. QED
    BY <1>2, <2>2, <2>4, <2>6, <2>7, <2>8 DEF r
<1>. QED
  BY <1>3, <1>4

\* Putting a slot in front of a chain, as into the free list.
LEMMA ChainPush ==
    ASSUME NEW q \in Seq(Slots), NEW nx \in [Slots -> Slots \cup {Null}], NEW s,
           NEW x \in Slots, IsChain(nx, q, s), Once(q), x \notin On(q)
    PROVE  LET r == <<x>> \o q
           IN  /\ r \in Seq(Slots) /\ Once(r) /\ On(r) = On(q) \cup {x}
               /\ IsChain([nx EXCEPT ![x] = s], r, x)
<1> DEFINE r == <<x>> \o q
           ny == [nx EXCEPT ![x] = s]
<1>1. /\ Len(q) \in Nat /\ DOMAIN q = 1..Len(q) /\ r \in Seq(Slots)
      /\ Len(r) = Len(q) + 1 /\ DOMAIN r = 1..(Len(q) + 1) /\ r # <<>> /\ r[1] = x
      /\ \A k \in 1..Len(q) : r[k + 1] = q[k]
  OBVIOUS
<1>2. ny[x] = s /\ \A y \in Slots : y # x => ny[y] = nx[y]
  OBVIOUS
<1> HIDE DEF r, ny
<1>3. \A k \in 1..(Len(q) + 1) : k = 1 \/ (k - 1 \in 1..Len(q) /\ r[k] = q[k - 1])
  <2> SUFFICES ASSUME NEW k \in 1..(Len(q) + 1), k # 1
               PROVE  k - 1 \in 1..Len(q) /\ r[k] = q[k - 1]
    OBVIOUS
  <2>1. k - 1 \in 1..Len(q) /\ (k - 1) + 1 = k
    BY <1>1
  <2>. QED
    BY <1>1, <2>1
<1>4. \A k \in 1..Len(q) : q[k] # x /\ q[k] \in Slots
  BY <1>1 DEF On
<1>5. Once(r)
  <2> SUFFICES ASSUME NEW i \in 1..(Len(q) + 1), NEW j \in 1..(Len(q) + 1), r[i] = r[j]
               PROVE  i = j
    BY <1>1 DEF Once
  <2>1. CASE i = 1 \/ j = 1
    BY <1>1, <1>3, <1>4, <2>1
  <2>2. CASE i # 1 /\ j # 1
    <3>1. i - 1 \in 1..Len(q) /\ j - 1 \in 1..Len(q) /\ q[i - 1] = q[j - 1]
      BY <1>3, <2>2
    <3>2. i - 1 = j - 1
      BY <3>1 DEF Once
    <3>. QED
      BY <3>2
  <2>. QED
    BY <2>1, <2>2
<1>6. On(r) = On(q) \cup {x}
  <2>1. ASSUME NEW u \in On(r) PROVE u \in On(q) \cup {x}
    <3>1. PICK k \in 1..(Len(q) + 1) : u = r[k]
      BY <1>1, <2>1 DEF On
    <3>. QED
      BY <1>1, <1>3, <3>1 DEF On
  <2>2. ASSUME NEW u \in On(q) PROVE u \in On(r)
    <3>1. PICK k \in 1..Len(q) : u = q[k]
      BY <1>1, <2>2 DEF On
    <3>2. k + 1 \in 1..(Len(q) + 1)
      BY <1>1
    <3>. QED
      BY <1>1, <3>1, <3>2 DEF On
  <2>3. x \in On(r)
    <3>1. 1 \in 1..(Len(q) + 1)
      BY <1>1
    <3>. QED
      BY <1>1, <3>1 DEF On
  <2>. QED
    BY <2>1, <2>2, <2>3
<1>7. IsChain(ny, r, x)
  <2> SUFFICES ASSUME NEW k \in 1..(Len(q) + 1)
               PROVE  ny[r[k]] = IF k = Len(r) THEN Null ELSE r[k + 1]
    BY <1>1 DEF IsChain
  <2>1. CASE k = 1
    <3>1. ny[r[k]] = s
      BY <1>1, <1>2, <2>1
    <3>2. CASE q = <<>>
      BY <1>1, <2>1, <3>1, <3>2 DEF IsChain
    <3>3. CASE q # <<>>
      <4>1. Len(q) > 0 /\ 1 \in 1..Len(q)
        BY <1>1, <3>3
      <4>2. s = q[1] /\ r[2] = q[1]
        BY <1>1, <3>3, <4>1 DEF IsChain
      <4>. QED
        BY <1>1, <2>1, <3>1, <4>1, <4>2
    <3>. QED
      BY <3>2, <3>3
  <2>2. CASE k # 1
    <3>1. k - 1 \in 1..Len(q) /\ r[k] = q[k - 1]
      BY <1>3, <2>2
    <3>2. ny[r[k]] = nx[q[k - 1]]
      BY <1>2, <1>4, <3>1
    <3>3. nx[q[k - 1]] = IF k - 1 = Len(q) THEN Null ELSE q[(k - 1) + 1]
      BY <1>1, <3>1 DEF IsChain
    <3>4. CASE k - 1 = Len(q)
      BY <1>1, <3>2, <3>3, <3>4
    <3>5. CASE k - 1 # Len(q)
      <4>1. k \in 1..Len(q) /\ (k - 1) + 1 = k /\ r[k + 1] = q[k]
        BY <1>1, <3>1, <3>5
      <4>. QED
        BY <1>1, <3>2, <3>3, <3>5, <4>1
    <3>. QED
      BY <3>4, <3>5
  <2>. QED
    BY <2>1, <2>2
<1>. QED
  BY <1>1, <1>5, <1>6, <1>7 DEF r, ny

\* A set of naturals that is not empty has a least element.
LEMMA LeastNat ==
    ASSUME NEW S \in SUBSET Nat, S # {}
    PROVE  \E m \in S : \A k \in S : m <= k
<1> DEFINE T == {1..k : k \in S}
           R == StrictSubsetOrdering(Nat)
<1>1. IsWellFoundedOn(R, FiniteSubsetsOf(Nat))
  BY FS_StrictSubsetOrderingWellFounded
<1>2. T \subseteq FiniteSubsetsOf(Nat) /\ T # {}
  <2>1. ASSUME NEW k \in S PROVE 1..k \in FiniteSubsetsOf(Nat)
    <3>1. IsFiniteSet(1..k)
      BY FS_Interval
    <3>. QED
      BY <3>1 DEF FiniteSubsetsOf
  <2>. QED
    BY <2>1
<1>3. PICK U \in T : \A V \in T : ~(<<V, U>> \in R)
  <2> HIDE DEF T, R
  <2>. QED
    BY <1>1, <1>2, WFMin
<1>4. PICK m \in S : U = 1..m
  BY <1>3
<1>5. ASSUME NEW k \in S, k < m PROVE FALSE
  <2>1. 1..k \subseteq 1..m /\ m \in 1..m /\ m \notin 1..k
    BY <1>5
  <2>2. <<1..k, 1..m>> \in R
    BY <2>1 DEF StrictSubsetOrdering
  <2>. QED
    BY <1>3, <1>4, <2>2
<1>. QED
  BY <1>5

\* There is only one chain from a slot on.
LEMMA ChainUnique ==
    ASSUME NEW nx, NEW s, NEW q \in Seq(Slots), NEW r \in Seq(Slots),
           IsChain(nx, q, s), IsChain(nx, r, s)
    PROVE  q = r
<1>1. /\ Len(q) \in Nat /\ DOMAIN q = 1..Len(q) /\ Len(r) \in Nat /\ DOMAIN r = 1..Len(r)
      /\ \A k \in 1..Len(q) : q[k] \in Slots
      /\ \A k \in 1..Len(r) : r[k] \in Slots
  OBVIOUS
<1>2. /\ \A k \in 1..Len(q) : nx[q[k]] = IF k = Len(q) THEN Null ELSE q[k + 1]
      /\ \A k \in 1..Len(r) : nx[r[k]] = IF k = Len(r) THEN Null ELSE r[k + 1]
  BY <1>1 DEF IsChain
<1> DEFINE Both(k) == k \in 1..Len(q) /\ k \in 1..Len(r) /\ q[k] = r[k]
           Bad == {k \in Nat : /\ k \in 1..Len(q) \/ k \in 1..Len(r)
                               /\ ~Both(k)}
<1>3. Bad = {}
  <2> SUFFICES ASSUME Bad # {} PROVE FALSE
    OBVIOUS
  <2>1. PICK m \in Bad : \A k \in Bad : m <= k
    <3>1. Bad \in SUBSET Nat
      OBVIOUS
    <3> HIDE DEF Bad
    <3>. QED
      BY <3>1, LeastNat
  <2>2. m \in Nat /\ m >= 1 /\ (m \in 1..Len(q) \/ m \in 1..Len(r)) /\ ~Both(m)
    BY <1>1, <2>1
  <2>3. CASE m = 1
    <3>1. q # <<>> \/ r # <<>>
      BY <2>2, <2>3
    <3>2. q # <<>> /\ r # <<>> /\ q[1] = r[1]
      <4>1. q # <<>> => q[1] \in Slots
        BY <1>1
      <4>2. r # <<>> => r[1] \in Slots
        BY <1>1
      <4>. QED
        BY <3>1, <4>1, <4>2, NullNoSlot DEF IsChain
    <3>3. 1 \in 1..Len(q) /\ 1 \in 1..Len(r)
      BY <1>1, <3>2
    <3>. QED
      BY <2>2, <2>3, <3>2, <3>3
  <2>4. CASE m # 1
    <3>0. m - 1 \in Nat /\ ~(m <= m - 1) /\ (m - 1) + 1 = m
      BY <2>2, <2>4
    <3>1. m - 1 \in 1..Len(q) \/ m - 1 \in 1..Len(r)
      BY <1>1, <2>2, <2>4
    <3>2. Both(m - 1)
      BY <2>1, <3>0, <3>1
    <3>3. /\ m \in 1..Len(q) <=> m - 1 # Len(q)
          /\ m \in 1..Len(r) <=> m - 1 # Len(r)
      BY <1>1, <2>2, <2>4, <3>2
    <3>4. /\ nx[q[m - 1]] = IF m - 1 = Len(q) THEN Null ELSE q[m]
          /\ nx[r[m - 1]] = IF m - 1 = Len(r) THEN Null ELSE r[m]
      BY <1>2, <3>0, <3>2
    <3>5. nx[q[m - 1]] = nx[r[m - 1]]
      BY <3>2
    <3>6. m \in 1..Len(q) /\ m \in 1..Len(r)
      BY <1>1, <2>2, <3>3, <3>4, <3>5, NullNoSlot
    <3>. QED
      BY <2>2, <3>3, <3>4, <3>5, <3>6
  <2>. QED
    BY <2>3, <2>4
<1>4. ASSUME NEW k \in 1..Len(q) PROVE k \in 1..Len(r) /\ q[k] = r[k]
  BY <1>1, <1>3
<1>5. ASSUME NEW k \in 1..Len(r) PROVE k \in 1..Len(q)
  BY <1>1, <1>3
<1> HIDE DEF Bad, Both
<1>0. Len(q) \in Nat /\ Len(r) \in Nat
  OBVIOUS
<1>6. Len(q) = Len(r)
  <2>1. Len(q) <= Len(r)
    <3>1. Len(q) = 0 \/ Len(q) \in 1..Len(q)
      BY <1>1
    <3>. QED
      BY <1>1, <1>4, <3>1
  <2>2. Len(r) <= Len(q)
    <3>1. Len(r) = 0 \/ Len(r) \in 1..Len(r)
      BY <1>1
    <3>. QED
      BY <1>1, <1>5, <3>1
  <2>. QED
    BY <1>0, <2>1, <2>2
<1>. QED
  BY <1>1, <1>4, <1>6

-----------------------------------------------------------------------------
(***************************************************************************)
(* The inductive invariant: the slots are divided between the free list,   *)
(* the list of messages and the threads whose calls hold one.              *)
(***************************************************************************)
Placed(F, S, m) ==
    /\ F \cap S = {}
    /\ \A x \in Slots : x \in F \/ x \in S \/ \E t \in Threads : m[t] = x
    /\ \A t \in Threads : m[t] \notin F /\ m[t] \notin S
    /\ \A t, u \in Threads : m[t] = m[u] /\ m[t] # Null => t = u

Use(free, sent) ==
    /\ free \in Seq(Slots) /\ sent \in Seq(Slots) /\ Once(free) /\ Once(sent)
    /\ IsChain(next, free, msg_queue_free) /\ IsChain(next, sent, msg_queue_head)
    /\ entries = Len(sent) /\ msg_queue_tail = LastOf(sent)
    /\ Placed(On(free), On(sent), msg)

StoreOK == /\ next \in [Slots -> Slots \cup {Null}]
           /\ data \in [Slots -> Msgs \cup {NoMsg}]
MqHandsOK == /\ msg \in [Threads -> Slots \cup {Null}]
             /\ given \in [Threads -> Msgs \cup {NoMsg}]
             /\ buffer \in [Threads -> Msgs \cup {NoMsg}]

Holding == {"fill", "link", "copy", "free"}

\* A thread holds a slot exactly while its call copies or links.
MqCallsOK == \A t \in Threads :
                 /\ pc[t] \in {"out", "recv"} \cup Holding
                 /\ msg[t] # Null <=> pc[t] \in Holding
                 /\ pc[t] = "fill" => given[t] \in Msgs
                 /\ pc[t] = "link" => data[msg[t]] \in Msgs /\ next[msg[t]] = Null

MqSleepersOK == /\ suspend_thread \in Seq(Threads) /\ Once(suspend_thread)
                /\ \A t \in On(suspend_thread) : pc[t] = "recv" /\ error[t] = "EOK"

MqInv == /\ Clocks /\ StoreOK /\ MqHandsOK /\ MqCallsOK /\ MqSleepersOK
         /\ \E free, sent : Use(free, sent)

-----------------------------------------------------------------------------
\* Every slot that is used has its place, so the lists are as the property
\* SlotsConserved says.
LEMMA UseConserves ==
    ASSUME NEW free, NEW sent, Use(free, sent), MqHandsOK
    PROVE  /\ free \in Chains /\ sent \in Chains /\ Conserved(free, sent)
           /\ entries \in 0..max_msgs
<1>1. free \in Chains /\ sent \in Chains /\ entries \in 0..max_msgs
  BY ShortChain DEF Use
<1>2. On(free) \subseteq Slots /\ On(sent) \subseteq Slots
  BY DEF Use, On
<1>3. On(free) \cap On(sent) = {}
  BY DEF Use, Placed
<1>4. \A t \in Threads : HeldBy(t) \subseteq Slots
  BY DEF MqHandsOK, HeldBy
<1>5. ASSUME NEW x \in Slots
      PROVE  x \in On(free) \cup On(sent) \cup UNION {HeldBy(t) : t \in Threads}
  <2>1. x \in On(free) \/ x \in On(sent) \/ \E t \in Threads : msg[t] = x
    BY DEF Use, Placed
  <2>2. x # Null
    BY NullNoSlot
  <2>3. ASSUME NEW t \in Threads, msg[t] = x PROVE x \in UNION {HeldBy(u) : u \in Threads}
    BY <2>2, <2>3 DEF HeldBy
  <2>. QED
    BY <2>1, <2>3
<1>6. \A t \in Threads : HeldBy(t) \cap (On(free) \cup On(sent)) = {}
  BY DEF Use, Placed, HeldBy
<1>7. \A t, u \in Threads : t # u => HeldBy(t) \cap HeldBy(u) = {}
  BY DEF Use, Placed, HeldBy
<1>8. On(free) \cup On(sent) \cup UNION {HeldBy(t) : t \in Threads} = Slots
  BY <1>2, <1>4, <1>5
<1>. QED
  BY <1>1, <1>3, <1>6, <1>7, <1>8 DEF Use, Conserved

\* Linking a message, in whichever way the slot was come by.
LEMMA LinkedChains ==
    ASSUME NEW nx \in [Slots -> Slots \cup {Null}], NEW x \in Slots,
           NEW sent \in Seq(Slots), Once(sent), IsChain(nx, sent, msg_queue_head),
           entries = Len(sent), msg_queue_tail = LastOf(sent),
           x \notin On(sent), nx[x] = Null, Linked(nx, x)
    PROVE  /\ Append(sent, x) \in Seq(Slots) /\ Once(Append(sent, x))
           /\ On(Append(sent, x)) = On(sent) \cup {x}
           /\ IsChain(next', Append(sent, x), msg_queue_head')
           /\ entries' = Len(Append(sent, x)) /\ msg_queue_tail' = LastOf(Append(sent, x))
           /\ next' \in [Slots -> Slots \cup {Null}]
           /\ \A y \in Slots \ On(sent) : next'[y] = nx[y]
<1>1. /\ Append(sent, x) \in Seq(Slots) /\ Once(Append(sent, x))
      /\ On(Append(sent, x)) = On(sent) \cup {x}
  BY AppendedList
<1>2. Len(Append(sent, x)) = Len(sent) + 1
  OBVIOUS
<1>3. /\ msg_queue_tail' = x /\ entries' = entries + 1
      /\ msg_queue_head' = FirstOf(msg_queue_head, x)
      /\ next' = Relinked(nx, sent, x)
  BY DEF Linked, FirstOf, Relinked
<1>4. /\ Relinked(nx, sent, x) \in [Slots -> Slots \cup {Null}]
      /\ IsChain(Relinked(nx, sent, x), Append(sent, x), FirstOf(msg_queue_head, x))
      /\ LastOf(Append(sent, x)) = x
      /\ \A y \in Slots \ On(sent) : Relinked(nx, sent, x)[y] = nx[y]
  BY ChainAppend
<1>. QED
  BY <1>1, <1>2, <1>3, <1>4

\* A slot is taken off the free list.
LEMMA TakeFree ==
    ASSUME NEW free, NEW sent, Use(free, sent), msg_queue_free # Null
    PROVE  /\ free # <<>> /\ msg_queue_free \in Slots /\ msg_queue_free \in On(free)
           /\ msg_queue_free \notin On(sent)
           /\ \A t \in Threads : msg[t] # msg_queue_free
           /\ Tail(free) \in Seq(Slots) /\ Once(Tail(free))
           /\ On(Tail(free)) = On(free) \ {msg_queue_free}
           /\ IsChain(next, Tail(free), next[msg_queue_free])
<1>1. free \in Seq(Slots) /\ Once(free) /\ IsChain(next, free, msg_queue_free)
  BY DEF Use
<1>2. /\ free # <<>> /\ msg_queue_free \in Slots /\ msg_queue_free \in On(free)
      /\ Tail(free) \in Seq(Slots) /\ Once(Tail(free))
      /\ On(Tail(free)) = On(free) \ {msg_queue_free}
      /\ IsChain(next, Tail(free), next[msg_queue_free])
  BY <1>1, ChainTail
<1>. QED
  BY <1>2 DEF Use, Placed

LEMMA ReserveUse ==
    ASSUME NEW free, NEW sent, NEW t \in Threads, Use(free, sent), StoreOK, MqHandsOK,
           MqCallsOK, Reserve(t)
    PROVE  Use(Tail(free), sent)'
<1> DEFINE x == msg_queue_free
<1>1. x # Null /\ msg' = [msg EXCEPT ![t] = x] /\ msg_queue_free' = next[x]
      /\ UNCHANGED <<next, msg_queue_head, msg_queue_tail, entries>>
  BY DEF Reserve
<1>2. /\ x \in Slots /\ x \in On(free) /\ x \notin On(sent)
      /\ \A u \in Threads : msg[u] # x
      /\ Tail(free) \in Seq(Slots) /\ Once(Tail(free))
      /\ On(Tail(free)) = On(free) \ {x}
      /\ IsChain(next, Tail(free), next[x])
  BY <1>1, TakeFree
<1>3. msg[t] = Null
  BY DEF MqCallsOK, Reserve, Holding
<1>4. msg'[t] = x /\ \A u \in Threads : u # t => msg'[u] = msg[u]
  BY <1>1 DEF MqHandsOK
<1> HIDE DEF x
<1>5. Placed(On(Tail(free)), On(sent), msg')
  <2>1. Placed(On(free), On(sent), msg)
    BY DEF Use
  <2>2. On(free) \cap On(sent) = {}
    BY <2>1 DEF Placed
  <2>3. ASSUME NEW y \in Slots
        PROVE  y \in On(Tail(free)) \/ y \in On(sent) \/ \E u \in Threads : msg'[u] = y
    <3>1. y \in On(free) \/ y \in On(sent) \/ \E u \in Threads : msg[u] = y
      BY <2>1 DEF Placed
    <3>2. ASSUME NEW u \in Threads, msg[u] = y PROVE u # t
      BY <1>3, <3>2, NullNoSlot
    <3>. QED
      BY <1>2, <1>4, <3>1, <3>2
  <2>4. \A u \in Threads : msg'[u] \notin On(Tail(free)) /\ msg'[u] \notin On(sent)
    BY <1>2, <1>4, <2>1 DEF Placed
  <2>5. \A u, v \in Threads : msg'[u] = msg'[v] /\ msg'[u] # Null => u = v
    BY <1>2, <1>4, <2>1 DEF Placed
  <2>. QED
    BY <1>2, <2>2, <2>3, <2>4, <2>5 DEF Placed
<1>. QED
  BY <1>1, <1>2, <1>5 DEF Use, x

\* A copy into a slot in the hands of a thread disturbs neither list.
LEMMA FillUse ==
    ASSUME NEW free, NEW sent, NEW t \in Threads, Use(free, sent), StoreOK, MqHandsOK,
           MqCallsOK, Fill(t)
    PROVE  Use(free, sent)'
<1>1. /\ next' = [next EXCEPT ![msg[t]] = Null]
      /\ UNCHANGED <<msg, msg_queue_free, msg_queue_head, msg_queue_tail, entries>>
  BY DEF Fill, lists
<1>2. msg[t] \notin On(free) /\ msg[t] \notin On(sent)
  BY DEF Use, Placed
<1>3. On(free) \subseteq Slots /\ On(sent) \subseteq Slots
  BY DEF Use, On
<1>4. /\ \A x \in On(free) : next'[x] = next[x]
      /\ \A x \in On(sent) : next'[x] = next[x]
  BY <1>1, <1>2, <1>3 DEF StoreOK
<1>5. IsChain(next', free, msg_queue_free) /\ IsChain(next', sent, msg_queue_head)
  BY <1>4, ChainSame DEF Use
<1>. QED
  BY <1>1, <1>5 DEF Use

LEMMA LinkUse ==
    ASSUME NEW free, NEW sent, NEW t \in Threads, NEW x, x = msg[t],
           Use(free, sent), StoreOK, MqHandsOK, MqCallsOK, Link(t)
    PROVE  /\ Use(free, Append(sent, x))'
           /\ next' \in [Slots -> Slots \cup {Null}]
           /\ \A y \in Slots \ On(sent) : next'[y] = next[y]
<1>1. /\ Linked(next, x) /\ msg' = [msg EXCEPT ![t] = Null]
      /\ msg_queue_free' = msg_queue_free
  BY DEF Link
<1>2. x \in Slots /\ next[x] = Null
  BY DEF MqCallsOK, MqHandsOK, Link, Holding
<1>3. x \notin On(free) /\ x \notin On(sent)
  BY DEF Use, Placed
<1>4. msg'[t] = Null /\ \A u \in Threads : u # t => msg'[u] = msg[u]
  BY <1>1 DEF MqHandsOK
<1>5. \A u \in Threads : u # t => msg[u] # x
  BY <1>2, NullNoSlot DEF Use, Placed
<1>6. msg[t] = x
  OBVIOUS
<1>7. /\ Append(sent, x) \in Seq(Slots) /\ Once(Append(sent, x))
      /\ On(Append(sent, x)) = On(sent) \cup {x}
      /\ IsChain(next', Append(sent, x), msg_queue_head')
      /\ entries' = Len(Append(sent, x)) /\ msg_queue_tail' = LastOf(Append(sent, x))
      /\ next' \in [Slots -> Slots \cup {Null}]
      /\ \A y \in Slots \ On(sent) : next'[y] = next[y]
  BY <1>1, <1>2, <1>3, LinkedChains DEF Use, StoreOK
<1>8. IsChain(next', free, msg_queue_free')
  <2>1. On(free) \cap On(sent) = {}
    BY DEF Use, Placed
  <2>2. On(free) \subseteq Slots
    BY DEF Use, On
  <2>3. \A y \in On(free) : next'[y] = next[y]
    BY <1>7, <2>1, <2>2
  <2>. QED
    BY <1>1, <2>3, ChainSame DEF Use
<1>9. Placed(On(free), On(Append(sent, x)), msg')
  <2>1. Placed(On(free), On(sent), msg)
    BY DEF Use
  <2>2. On(free) \cap On(Append(sent, x)) = {}
    BY <1>3, <1>7, <2>1 DEF Placed
  <2>3. ASSUME NEW y \in Slots
        PROVE  y \in On(free) \/ y \in On(Append(sent, x)) \/ \E u \in Threads : msg'[u] = y
    BY <1>4, <1>6, <1>7, <2>1 DEF Placed
  <2>4. \A u \in Threads : msg'[u] \notin On(free) /\ msg'[u] \notin On(Append(sent, x))
    <3>1. Null \notin On(free) /\ Null \notin On(Append(sent, x))
      BY <1>7, NullNoSlot DEF Use, On
    <3>. QED
      BY <1>4, <1>5, <1>7, <2>1, <3>1 DEF Placed
  <2>5. \A u, v \in Threads : msg'[u] = msg'[v] /\ msg'[u] # Null => u = v
    BY <1>4, <2>1 DEF Placed
  <2>. QED
    BY <2>2, <2>3, <2>4, <2>5 DEF Placed
<1>10. free \in Seq(Slots) /\ Once(free)
  BY DEF Use
<1>. QED
  BY <1>7, <1>8, <1>9, <1>10 DEF Use

LEMMA IsrUse ==
    ASSUME NEW free, NEW sent, NEW x, x = msg_queue_free,
           Use(free, sent), StoreOK, MqHandsOK, MqIsrSend
    PROVE  /\ Use(Tail(free), Append(sent, x))'
           /\ next' \in [Slots -> Slots \cup {Null}]
           /\ \A y \in Slots \ On(sent) : y # x => next'[y] = next[y]
<1> DEFINE nx == [next EXCEPT ![x] = Null]
<1>1. /\ x # Null /\ Linked(nx, x) /\ msg' = msg /\ msg_queue_free' = next[x]
  BY DEF MqIsrSend
<1>2. /\ x \in Slots /\ x \in On(free) /\ x \notin On(sent)
      /\ \A u \in Threads : msg[u] # x
      /\ Tail(free) \in Seq(Slots) /\ Once(Tail(free))
      /\ On(Tail(free)) = On(free) \ {x}
      /\ IsChain(next, Tail(free), next[x])
  BY <1>1, TakeFree
<1>3. /\ nx \in [Slots -> Slots \cup {Null}] /\ nx[x] = Null
      /\ \A y \in Slots : y # x => nx[y] = next[y]
  BY <1>2 DEF StoreOK
<1> HIDE DEF nx
<1>5. sent \in Seq(Slots) /\ Once(sent) /\ On(sent) \subseteq Slots /\ On(free) \subseteq Slots
  BY DEF Use, On
<1>6. IsChain(nx, sent, msg_queue_head)
  BY <1>2, <1>3, <1>5, ChainSame DEF Use
<1>7. /\ Append(sent, x) \in Seq(Slots) /\ Once(Append(sent, x))
      /\ On(Append(sent, x)) = On(sent) \cup {x}
      /\ IsChain(next', Append(sent, x), msg_queue_head')
      /\ entries' = Len(Append(sent, x)) /\ msg_queue_tail' = LastOf(Append(sent, x))
      /\ next' \in [Slots -> Slots \cup {Null}]
      /\ \A y \in Slots \ On(sent) : next'[y] = nx[y]
  BY <1>1, <1>2, <1>3, <1>5, <1>6, LinkedChains DEF Use
<1>8. On(free) \cap On(sent) = {}
  BY DEF Use, Placed
<1>9. IsChain(next', Tail(free), msg_queue_free')
  <2>1. \A y \in On(Tail(free)) : next'[y] = next[y]
    BY <1>2, <1>3, <1>5, <1>7, <1>8
  <2>. QED
    BY <1>1, <1>2, <2>1, ChainSame
<1>10. Placed(On(Tail(free)), On(Append(sent, x)), msg')
  <2>1. Placed(On(free), On(sent), msg)
    BY DEF Use
  <2>. QED
    BY <1>1, <1>2, <1>7, <2>1 DEF Placed
<1>. QED
  BY <1>2, <1>3, <1>7, <1>9, <1>10 DEF Use

LEMMA UnlinkUse ==
    ASSUME NEW free, NEW sent, NEW t \in Threads, Use(free, sent), StoreOK, MqHandsOK,
           msg[t] = Null, Unlink(t), UNCHANGED next
    PROVE  /\ Use(free, Tail(sent))' /\ sent # <<>>
           /\ msg_queue_head = Head(sent) /\ msg_queue_head \in Slots
           /\ msg_queue_head \in On(sent)
<1> DEFINE x == msg_queue_head
<1>0. /\ sent \in Seq(Slots) /\ Once(sent) /\ IsChain(next, sent, x)
      /\ entries = Len(sent) /\ msg_queue_tail = LastOf(sent) /\ entries > 0
  BY DEF Use, Unlink
<1>1. sent # <<>>
  BY <1>0
<1>2. /\ x = Head(sent) /\ x \in Slots /\ x \in On(sent)
      /\ Tail(sent) \in Seq(Slots) /\ Once(Tail(sent)) /\ On(Tail(sent)) = On(sent) \ {x}
      /\ Len(Tail(sent)) = Len(sent) - 1
      /\ IsChain(next, Tail(sent), next[x])
      /\ LastOf(Tail(sent)) = IF LastOf(sent) = x THEN Null ELSE LastOf(sent)
  BY <1>0, <1>1, ChainTail
<1>3. /\ msg' = [msg EXCEPT ![t] = x] /\ msg_queue_head' = next[x]
      /\ msg_queue_tail' = (IF msg_queue_tail = x THEN Null ELSE msg_queue_tail)
      /\ entries' = entries - 1 /\ msg_queue_free' = msg_queue_free
  BY DEF Unlink
<1>4. msg'[t] = x /\ \A u \in Threads : u # t => msg'[u] = msg[u]
  BY <1>3 DEF MqHandsOK
<1>5. x = msg_queue_head
  OBVIOUS
<1> HIDE DEF x
<1>6. Placed(On(free), On(Tail(sent)), msg')
  <2>1. Placed(On(free), On(sent), msg)
    BY DEF Use
  <2>2. x \notin On(free)
    BY <1>2, <2>1 DEF Placed
  <2>3. \A u \in Threads : msg[u] # x
    BY <1>2, <2>1 DEF Placed
  <2>4. ASSUME NEW y \in Slots
        PROVE  y \in On(free) \/ y \in On(Tail(sent)) \/ \E u \in Threads : msg'[u] = y
    <3>1. y \in On(free) \/ y \in On(sent) \/ \E u \in Threads : msg[u] = y
      BY <2>1 DEF Placed
    <3>2. ASSUME NEW u \in Threads, msg[u] = y PROVE u # t
      BY <3>2, NullNoSlot
    <3>. QED
      BY <1>2, <1>4, <3>1, <3>2
  <2>5. On(free) \cap On(Tail(sent)) = {}
    BY <1>2, <2>1 DEF Placed
  <2>6. \A u \in Threads : msg'[u] \notin On(free) /\ msg'[u] \notin On(Tail(sent))
    BY <1>2, <1>4, <2>1, <2>2 DEF Placed
  <2>7. \A u, v \in Threads : msg'[u] = msg'[v] /\ msg'[u] # Null => u = v
    BY <1>4, <2>1, <2>3 DEF Placed
  <2>. QED
    BY <2>4, <2>5, <2>6, <2>7 DEF Placed
<1>7. /\ free \in Seq(Slots) /\ Once(free) /\ IsChain(next, free, msg_queue_free)
  BY DEF Use
<1>8. /\ entries' = Len(Tail(sent)) /\ msg_queue_tail' = LastOf(Tail(sent))
  BY <1>0, <1>2, <1>3
<1>. QED
  BY <1>1, <1>2, <1>3, <1>5, <1>6, <1>7, <1>8 DEF Use

LEMMA FreeUse ==
    ASSUME NEW free, NEW sent, NEW t \in Threads, NEW x, x = msg[t],
           Use(free, sent), StoreOK, MqHandsOK, MqCallsOK, Free(t)
    PROVE  Use(<<x>> \o free, sent)'
<1> DEFINE r == <<x>> \o free
<1>1. /\ next' = [next EXCEPT ![x] = msg_queue_free] /\ msg_queue_free' = x
      /\ msg' = [msg EXCEPT ![t] = Null]
      /\ UNCHANGED <<msg_queue_head, msg_queue_tail, entries>>
  BY DEF Free
<1>2. x \in Slots
  BY DEF MqCallsOK, MqHandsOK, Free, Holding
<1>3. x \notin On(free) /\ x \notin On(sent)
  BY DEF Use, Placed
<1>4. msg'[t] = Null /\ \A u \in Threads : u # t => msg'[u] = msg[u]
  BY <1>1 DEF MqHandsOK
<1>5. \A u \in Threads : u # t => msg[u] # x
  BY <1>2, NullNoSlot DEF Use, Placed
<1>6. msg[t] = x
  OBVIOUS
<1>7. /\ free \in Seq(Slots) /\ Once(free) /\ IsChain(next, free, msg_queue_free)
      /\ sent \in Seq(Slots) /\ Once(sent) /\ IsChain(next, sent, msg_queue_head)
      /\ On(free) \subseteq Slots /\ On(sent) \subseteq Slots
      /\ next \in [Slots -> Slots \cup {Null}]
  BY DEF Use, On, StoreOK
<1>8. /\ r \in Seq(Slots) /\ Once(r) /\ On(r) = On(free) \cup {x}
      /\ IsChain(next', r, msg_queue_free')
  BY <1>1, <1>2, <1>3, <1>7, ChainPush
<1>9. IsChain(next', sent, msg_queue_head')
  <2>1. \A y \in On(sent) : next'[y] = next[y]
    BY <1>1, <1>3, <1>7
  <2>. QED
    BY <1>1, <1>7, <2>1, ChainSame
<1>10. Placed(On(r), On(sent), msg')
  <2>1. Placed(On(free), On(sent), msg)
    BY DEF Use
  <2>2. On(r) \cap On(sent) = {}
    BY <1>3, <1>8, <2>1 DEF Placed
  <2>3. ASSUME NEW y \in Slots
        PROVE  y \in On(r) \/ y \in On(sent) \/ \E u \in Threads : msg'[u] = y
    BY <1>4, <1>6, <1>8, <2>1 DEF Placed
  <2>4. \A u \in Threads : msg'[u] \notin On(r) /\ msg'[u] \notin On(sent)
    <3>1. Null \notin On(r) /\ Null \notin On(sent)
      BY <1>2, <1>7, <1>8, NullNoSlot
    <3>. QED
      BY <1>4, <1>5, <1>8, <2>1, <3>1 DEF Placed
  <2>5. \A u, v \in Threads : msg'[u] = msg'[v] /\ msg'[u] # Null => u = v
    BY <1>4, <2>1 DEF Placed
  <2>. QED
    BY <2>2, <2>3, <2>4, <2>5 DEF Placed
<1>11. entries' = Len(sent) /\ msg_queue_tail' = LastOf(sent)
  BY <1>1 DEF Use
<1>. QED
  BY <1>6, <1>7, <1>8, <1>9, <1>10, <1>11 DEF Use

LEMMA StillUse ==
    ASSUME NEW free, NEW sent, Use(free, sent), UNCHANGED <<next, lists, msg>>
    PROVE  Use(free, sent)'
  BY DEF Use, lists

-----------------------------------------------------------------------------
(***************************************************************************)
(* Every step keeps the invariant.                                         *)
(***************************************************************************)

\* The sleepers, when a thread that is awake acts and at most takes others off
\* the list.
LEMMA AwakeActs ==
    ASSUME MqSleepersOK, NEW t, t \notin On(suspend_thread),
           \A u \in Threads : u # t => pc'[u] = pc[u] /\ error'[u] = error[u],
           suspend_thread' = suspend_thread \/ suspend_thread' = Resumed(suspend_thread)
    PROVE  MqSleepersOK'
<1>1. On(suspend_thread) \subseteq Threads
  BY OnThreads DEF MqSleepersOK
<1>2. /\ suspend_thread' \in Seq(Threads) /\ Once(suspend_thread)'
      /\ On(suspend_thread') \subseteq On(suspend_thread)
  <2>1. CASE suspend_thread' = suspend_thread
    BY <2>1 DEF MqSleepersOK
  <2>2. CASE suspend_thread' = Resumed(suspend_thread)
    BY <2>2, ResumedList DEF MqSleepersOK, Resumed
  <2>. QED
    BY <2>1, <2>2
<1>. QED
  BY <1>1, <1>2 DEF MqSleepersOK

LEMMA MqInitInv == MqInit => MqInv
<1> SUFFICES ASSUME MqInit PROVE MqInv
  OBVIOUS
<1>1. Clocks
  BY InitClocks DEF MqInit
<1>2. StoreOK
  <2>1. \A k \in Slots : k - 1 \in Slots \cup {Null}
    BY MaxMsgsAssumption DEF Slots, Null
  <2>. QED
    BY <2>1 DEF MqInit, StoreOK
<1>3. MqHandsOK /\ MqCallsOK /\ MqSleepersOK
  BY DEF MqInit, ThreadInit, MqHandsOK, MqCallsOK, MqSleepersOK, Holding, Once, On
<1>4. \E free, sent : Use(free, sent)
  <2> DEFINE f == [k \in 1..max_msgs |-> max_msgs + 1 - k]
  <2>0. max_msgs \in Nat /\ max_msgs > 0
    BY MaxMsgsAssumption
  <2>1. \A k \in 1..max_msgs : max_msgs + 1 - k \in 1..max_msgs
    BY <2>0
  <2>2. f \in [1..max_msgs -> Slots] /\ \A k \in 1..max_msgs : f[k] = max_msgs + 1 - k
    BY <2>1 DEF Slots
  <2> HIDE DEF f
  <2>3. f \in Seq(Slots) /\ Len(f) = max_msgs /\ DOMAIN f = 1..max_msgs
    BY <2>0, <2>2
  <2>4. Once(f)
    BY <2>0, <2>2, <2>3 DEF Once
  <2>5. On(f) = Slots
    <3>1. ASSUME NEW x \in Slots PROVE x \in On(f)
      <4>1. max_msgs + 1 - x \in 1..max_msgs /\ max_msgs + 1 - (max_msgs + 1 - x) = x
        BY <2>0 DEF Slots
      <4>2. f[max_msgs + 1 - x] = x
        BY <2>2, <4>1
      <4>. QED
        BY <2>3, <4>1, <4>2 DEF On
    <3>. QED
      BY <2>2, <2>3, <3>1 DEF On
  <2>6. IsChain(next, f, msg_queue_free)
    <3>1. f # <<>> /\ f[1] = max_msgs /\ msg_queue_free = max_msgs
      <4>1. 1 \in 1..max_msgs
        BY <2>0
      <4>2. f # <<>>
        BY <2>0, <2>3
      <4>3. f[1] = max_msgs
        BY <2>0, <2>2, <4>1
      <4>. QED
        BY <4>2, <4>3 DEF MqInit
    <3>2. ASSUME NEW k \in 1..max_msgs
          PROVE  next[f[k]] = IF k = Len(f) THEN Null ELSE f[k + 1]
      <4>1. f[k] \in Slots /\ f[k] = max_msgs + 1 - k
        BY <2>2
      <4>0. \A x \in Slots : next[x] = x - 1
        BY DEF MqInit
      <4>5. next[f[k]] = f[k] - 1
        BY <4>0, <4>1
      <4>2. next[f[k]] = max_msgs - k
        BY <2>0, <4>1, <4>5
      <4>3. CASE k = max_msgs
        BY <2>0, <2>3, <4>2, <4>3 DEF Null
      <4>4. CASE k # max_msgs
        <5>1. k + 1 \in 1..max_msgs
          BY <2>0, <4>4
        <5>2. f[k + 1] = max_msgs + 1 - (k + 1)
          BY <2>2, <5>1
        <5>. QED
          BY <2>0, <2>3, <4>2, <4>4, <5>2
      <4>. QED
        BY <4>3, <4>4
    <3>. QED
      BY <2>3, <3>1, <3>2 DEF IsChain
  <2>7. <<>> \in Seq(Slots) /\ Once(<<>>) /\ IsChain(next, <<>>, msg_queue_head)
        /\ entries = Len(<<>>) /\ msg_queue_tail = LastOf(<<>>) /\ On(<<>>) = {}
    BY DEF MqInit, Once, IsChain, LastOf, On
  <2>8. Placed(On(f), On(<<>>), msg)
    BY <2>5, <2>7, NullNoSlot DEF Placed, MqInit
  <2>. QED
    BY <2>3, <2>4, <2>6, <2>7, <2>8 DEF Use
<1>. QED
  BY <1>1, <1>2, <1>3, <1>4 DEF MqInv

LEMMA ReserveInv ==
    ASSUME NEW t \in Threads, MqInv, Reserve(t)
    PROVE  MqInv'
<1>1. PICK free, sent : Use(free, sent)
  BY DEF MqInv
<1>2. Use(Tail(free), sent)'
  BY <1>1, ReserveUse DEF MqInv
<1>3. /\ pc[t] = "out" /\ pc' = [pc EXCEPT ![t] = "fill"] /\ UNCHANGED <<error, timing>>
      /\ msg_queue_free # Null /\ msg' = [msg EXCEPT ![t] = msg_queue_free]
      /\ UNCHANGED <<next, data, buffer, suspend_thread>>
  BY DEF Reserve
<1>4. PICK m \in Msgs : given' = [given EXCEPT ![t] = m]
  BY DEF Reserve
<1>5. Clocks'
  BY <1>3, GoesOnClocks DEF MqInv, Calls
<1>6. msg_queue_free \in Slots
  BY <1>1, <1>3, TakeFree
<1>7. StoreOK' /\ MqHandsOK'
  BY <1>3, <1>4, <1>6 DEF MqInv, StoreOK, MqHandsOK
<1>8. /\ pc'[t] = "fill" /\ msg'[t] = msg_queue_free /\ given'[t] = m
      /\ \A u \in Threads : u # t => /\ pc'[u] = pc[u] /\ msg'[u] = msg[u]
                                     /\ given'[u] = given[u]
  BY <1>3, <1>4 DEF MqInv, Clocks, TimingOK, MqHandsOK
<1>9. MqCallsOK'
  BY <1>3, <1>8 DEF MqInv, MqCallsOK, Holding
<1>10. MqSleepersOK'
  BY <1>3, <1>8, AwakeActs DEF MqInv, MqSleepersOK
<1>. QED
  BY <1>2, <1>5, <1>7, <1>9, <1>10 DEF MqInv

LEMMA FillInv ==
    ASSUME NEW t \in Threads, MqInv, Fill(t)
    PROVE  MqInv'
<1>1. PICK free, sent : Use(free, sent)
  BY DEF MqInv
<1>2. Use(free, sent)'
  BY <1>1, FillUse DEF MqInv
<1>3. /\ pc[t] = "fill" /\ pc' = [pc EXCEPT ![t] = "link"] /\ UNCHANGED <<error, timing>>
      /\ next' = [next EXCEPT ![msg[t]] = Null]
      /\ data' = [data EXCEPT ![msg[t]] = given[t]]
      /\ given' = [given EXCEPT ![t] = NoMsg]
      /\ UNCHANGED <<msg, buffer, suspend_thread>>
  BY DEF Fill
<1>4. msg[t] \in Slots /\ given[t] \in Msgs /\ msg[t] # Null
  BY <1>3 DEF MqInv, MqCallsOK, MqHandsOK, Holding
<1>5. Clocks'
  BY <1>3, GoesOnClocks DEF MqInv, Calls
<1>6. StoreOK' /\ MqHandsOK'
  BY <1>3, <1>4 DEF MqInv, StoreOK, MqHandsOK
<1>7. /\ pc'[t] = "link" /\ next'[msg[t]] = Null /\ data'[msg[t]] = given[t]
      /\ \A u \in Threads : u # t => pc'[u] = pc[u] /\ given'[u] = given[u]
      /\ \A x \in Slots : x # msg[t] => next'[x] = next[x] /\ data'[x] = data[x]
  BY <1>3, <1>4 DEF MqInv, Clocks, TimingOK, MqHandsOK, StoreOK
<1>8. \A u \in Threads : u # t /\ msg[u] # Null => msg[u] \in Slots /\ msg[u] # msg[t]
  BY <1>1 DEF Use, Placed, MqInv, MqHandsOK
<1>9. MqCallsOK'
  <2> SUFFICES ASSUME NEW u \in Threads
               PROVE  /\ pc'[u] \in {"out", "recv"} \cup Holding
                      /\ msg'[u] # Null <=> pc'[u] \in Holding
                      /\ pc'[u] = "fill" => given'[u] \in Msgs
                      /\ pc'[u] = "link" => data'[msg'[u]] \in Msgs /\ next'[msg'[u]] = Null
    BY DEF MqCallsOK
  <2>1. CASE u = t
    BY <1>3, <1>4, <1>7, <2>1 DEF Holding
  <2>2. CASE u # t
    <3>1. pc[u] = "link" => msg[u] # Null
      BY DEF MqInv, MqCallsOK, Holding
    <3>. QED
      BY <1>3, <1>7, <1>8, <2>2, <3>1 DEF MqInv, MqCallsOK
  <2>. QED
    BY <2>1, <2>2
<1>10. MqSleepersOK'
  BY <1>3, <1>7, AwakeActs DEF MqInv, MqSleepersOK
<1>. QED
  BY <1>2, <1>5, <1>6, <1>9, <1>10 DEF MqInv

LEMMA LinkInv ==
    ASSUME NEW t \in Threads, MqInv, Link(t)
    PROVE  MqInv'
<1>1. PICK free, sent : Use(free, sent)
  BY DEF MqInv
<1>2. PICK x : x = msg[t]
  OBVIOUS
<1>3. /\ Use(free, Append(sent, x))'
      /\ next' \in [Slots -> Slots \cup {Null}]
      /\ \A y \in Slots \ On(sent) : next'[y] = next[y]
  BY <1>1, <1>2, LinkUse DEF MqInv
<1>4. /\ pc[t] = "link" /\ Return(t) /\ msg' = [msg EXCEPT ![t] = Null]
      /\ suspend_thread' = Resumed(suspend_thread)
      /\ UNCHANGED <<data, given, buffer>>
  BY DEF Link, Linked
<1>5. Clocks'
  BY <1>4, ReturnClocks DEF MqInv
<1>6. StoreOK' /\ MqHandsOK'
  BY <1>3, <1>4 DEF MqInv, StoreOK, MqHandsOK
<1>7. /\ pc'[t] = "out" /\ msg'[t] = Null /\ error' = error
      /\ \A u \in Threads : u # t => pc'[u] = pc[u] /\ msg'[u] = msg[u]
  BY <1>4 DEF MqInv, Clocks, TimingOK, MqHandsOK, Return
<1>8. \A u \in Threads : msg[u] # Null => msg[u] \in Slots \ On(sent)
  BY <1>1 DEF Use, Placed, MqInv, MqHandsOK
<1>9. MqCallsOK'
  <2> SUFFICES ASSUME NEW u \in Threads
               PROVE  /\ pc'[u] \in {"out", "recv"} \cup Holding
                      /\ msg'[u] # Null <=> pc'[u] \in Holding
                      /\ pc'[u] = "fill" => given'[u] \in Msgs
                      /\ pc'[u] = "link" => data'[msg'[u]] \in Msgs /\ next'[msg'[u]] = Null
    BY DEF MqCallsOK
  <2>1. CASE u = t
    BY <1>7, <2>1 DEF Holding
  <2>2. CASE u # t
    <3>1. pc[u] = "link" => msg[u] # Null
      BY DEF MqInv, MqCallsOK, Holding
    <3>. QED
      BY <1>3, <1>4, <1>7, <1>8, <2>2, <3>1 DEF MqInv, MqCallsOK
  <2>. QED
    BY <2>1, <2>2
<1>10. MqSleepersOK'
  BY <1>4, <1>7, AwakeActs DEF MqInv, MqSleepersOK
<1>. QED
  BY <1>3, <1>5, <1>6, <1>9, <1>10 DEF MqInv

LEMMA IsrInv ==
    ASSUME MqInv, MqIsrSend
    PROVE  MqInv'
<1>1. PICK free, sent : Use(free, sent)
  BY DEF MqInv
<1>2. PICK x : x = msg_queue_free
  OBVIOUS
<1>3. /\ Use(Tail(free), Append(sent, x))'
      /\ next' \in [Slots -> Slots \cup {Null}]
      /\ \A y \in Slots \ On(sent) : y # x => next'[y] = next[y]
  BY <1>1, <1>2, IsrUse DEF MqInv
<1>4. /\ msg_queue_free # Null /\ UNCHANGED <<msg, given, buffer, pc, error, timing>>
      /\ suspend_thread' = Resumed(suspend_thread)
  BY DEF MqIsrSend, Linked
<1>5. PICK m \in Msgs : data' = [data EXCEPT ![x] = m]
  BY <1>2 DEF MqIsrSend
<1>6. Clocks'
  BY <1>4, StillClocks DEF MqInv
<1>7. x \in Slots /\ \A u \in Threads : msg[u] # x
  BY <1>1, <1>2, <1>4, TakeFree
<1>8. StoreOK' /\ MqHandsOK'
  BY <1>3, <1>4, <1>5 DEF MqInv, StoreOK, MqHandsOK
<1>9. \A u \in Threads : msg[u] # Null => msg[u] \in Slots \ On(sent)
  BY <1>1 DEF Use, Placed, MqInv, MqHandsOK
<1>10. \A y \in Slots : y # x => data'[y] = data[y]
  BY <1>5 DEF MqInv, StoreOK
<1>11. MqCallsOK'
  <2> SUFFICES ASSUME NEW u \in Threads
               PROVE  /\ pc'[u] \in {"out", "recv"} \cup Holding
                      /\ msg'[u] # Null <=> pc'[u] \in Holding
                      /\ pc'[u] = "fill" => given'[u] \in Msgs
                      /\ pc'[u] = "link" => data'[msg'[u]] \in Msgs /\ next'[msg'[u]] = Null
    BY DEF MqCallsOK
  <2>1. pc[u] = "link" => msg[u] # Null
    BY DEF MqInv, MqCallsOK, Holding
  <2>. QED
    BY <1>3, <1>4, <1>7, <1>9, <1>10, <2>1 DEF MqInv, MqCallsOK
<1>12. MqSleepersOK'
  <2>1. PICK t : t \notin Threads
    BY NoSetContainsEverything
  <2>2. t \notin On(suspend_thread)
    BY <2>1, OnThreads DEF MqInv, MqSleepersOK
  <2>. QED
    BY <1>4, <2>2, AwakeActs DEF MqInv
<1>. QED
  BY <1>3, <1>6, <1>8, <1>11, <1>12 DEF MqInv

LEMMA FreeInv ==
    ASSUME NEW t \in Threads, MqInv, Free(t)
    PROVE  MqInv'
<1>1. PICK free, sent : Use(free, sent)
  BY DEF MqInv
<1>2. PICK x : x = msg[t]
  OBVIOUS
<1>3. Use(<<x>> \o free, sent)'
  BY <1>1, <1>2, FreeUse DEF MqInv
<1>4. /\ pc[t] = "free" /\ Return(t) /\ msg' = [msg EXCEPT ![t] = Null]
      /\ next' = [next EXCEPT ![x] = msg_queue_free]
      /\ UNCHANGED <<data, given, buffer, suspend_thread>>
  BY <1>2 DEF Free
<1>5. Clocks'
  BY <1>4, ReturnClocks DEF MqInv
<1>6. msg_queue_free \in Slots \cup {Null}
  <2>1. /\ free = <<>> => msg_queue_free = Null
        /\ free # <<>> => msg_queue_free = free[1] /\ free[1] \in Slots
    BY <1>1 DEF Use, IsChain
  <2>. QED
    BY <2>1
<1>7. StoreOK' /\ MqHandsOK'
  BY <1>4, <1>6 DEF MqInv, StoreOK, MqHandsOK
<1>8. /\ pc'[t] = "out" /\ msg'[t] = Null /\ error' = error
      /\ \A u \in Threads : u # t => pc'[u] = pc[u] /\ msg'[u] = msg[u]
  BY <1>4 DEF MqInv, Clocks, TimingOK, MqHandsOK, Return
<1>9. \A u \in Threads : u # t /\ msg[u] # Null => msg[u] \in Slots /\ msg[u] # x
  BY <1>1, <1>2 DEF Use, Placed, MqInv, MqHandsOK
<1>10. \A y \in Slots : y # x => next'[y] = next[y]
  BY <1>4 DEF MqInv, StoreOK
<1>11. MqCallsOK'
  <2> SUFFICES ASSUME NEW u \in Threads
               PROVE  /\ pc'[u] \in {"out", "recv"} \cup Holding
                      /\ msg'[u] # Null <=> pc'[u] \in Holding
                      /\ pc'[u] = "fill" => given'[u] \in Msgs
                      /\ pc'[u] = "link" => data'[msg'[u]] \in Msgs /\ next'[msg'[u]] = Null
    BY DEF MqCallsOK
  <2>1. CASE u = t
    BY <1>8, <2>1 DEF Holding
  <2>2. CASE u # t
    <3>1. pc[u] = "link" => msg[u] # Null
      BY DEF MqInv, MqCallsOK, Holding
    <3>. QED
      BY <1>4, <1>8, <1>9, <1>10, <2>2, <3>1 DEF MqInv, MqCallsOK
  <2>. QED
    BY <2>1, <2>2
<1>12. MqSleepersOK'
  BY <1>4, <1>8, AwakeActs DEF MqInv, MqSleepersOK
<1>. QED
  BY <1>3, <1>5, <1>7, <1>11, <1>12 DEF MqInv

\* A call of rt_mq_recv from its test on, first or again.
LEMMA TakeInv ==
    ASSUME NEW t \in Threads, NEW tmo \in Nat \cup {Forever}, MqInv, TryTake(t, tmo),
           pc[t] \in {"out", "recv"}, t \notin On(suspend_thread),
           UNCHANGED <<next, data, given, buffer>>,
           pc[t] # "out" /\ tmo > 0 => waited[t] + tmo <= asked[t]
    PROVE  MqInv'
<1>1. PICK free, sent : Use(free, sent)
  BY DEF MqInv
<1>2. msg[t] = Null
  BY DEF MqInv, MqCallsOK, Holding
<1>3. StoreOK'
  BY DEF MqInv, StoreOK
<1>4. CASE Unlink(t)
  <2>1. Use(free, Tail(sent))' /\ msg_queue_head \in Slots
    BY <1>1, <1>2, <1>4, UnlinkUse DEF MqInv
  <2>2. /\ msg' = [msg EXCEPT ![t] = msg_queue_head] /\ pc' = [pc EXCEPT ![t] = "copy"]
        /\ UNCHANGED <<error, timing, suspend_thread>>
    BY <1>4 DEF Unlink
  <2>3. Clocks'
    BY <2>2, GoesOnClocks DEF MqInv, Calls
  <2>4. MqHandsOK'
    BY <2>1, <2>2 DEF MqInv, MqHandsOK
  <2>5. /\ pc'[t] = "copy" /\ msg'[t] = msg_queue_head
        /\ \A u \in Threads : u # t => pc'[u] = pc[u] /\ msg'[u] = msg[u]
    BY <2>2 DEF MqInv, Clocks, TimingOK, MqHandsOK
  <2>6. MqCallsOK'
    BY <2>1, <2>5, NullNoSlot DEF MqInv, MqCallsOK, Holding
  <2>7. MqSleepersOK'
    BY <2>2, <2>5, AwakeActs DEF MqInv
  <2>. QED
    BY <1>3, <2>1, <2>3, <2>4, <2>6, <2>7 DEF MqInv
<1>5. CASE NoMessage(t, tmo)
  <2>1. Return(t) /\ UNCHANGED <<lists, msg, suspend_thread>>
    BY <1>5 DEF NoMessage
  <2>2. Use(free, sent)'
    BY <1>1, <2>1, StillUse
  <2>3. Clocks'
    BY <2>1, ReturnClocks DEF MqInv
  <2>4. MqHandsOK'
    BY <2>1 DEF MqInv, MqHandsOK
  <2>5. /\ pc'[t] = "out" /\ error' = error
        /\ \A u \in Threads : u # t => pc'[u] = pc[u]
    BY <2>1 DEF MqInv, Clocks, TimingOK, Return
  <2>6. MqCallsOK'
    BY <1>2, <2>1, <2>5 DEF MqInv, MqCallsOK, Holding
  <2>7. MqSleepersOK'
    BY <2>1, <2>5, AwakeActs DEF MqInv
  <2>. QED
    BY <1>3, <2>2, <2>3, <2>4, <2>6, <2>7 DEF MqInv
<1>6. CASE MqWaits(t, tmo)
  <2>1. /\ Sleep(t, "recv", tmo) /\ UNCHANGED <<lists, msg>>
        /\ suspend_thread' = Suspended(suspend_thread, t)
    BY <1>6 DEF MqWaits
  <2>2. Use(free, sent)'
    BY <1>1, <2>1, StillUse
  <2>3. Clocks'
    BY <2>1, SleepClocks DEF MqInv, Calls
  <2>4. MqHandsOK'
    BY <2>1 DEF MqInv, MqHandsOK
  <2>5. /\ pc'[t] = "recv" /\ error'[t] = "EOK"
        /\ \A u \in Threads : u # t => pc'[u] = pc[u] /\ error'[u] = error[u]
    BY <2>1 DEF MqInv, Clocks, TimingOK, Sleep
  <2>6. MqCallsOK'
    BY <1>2, <2>1, <2>5 DEF MqInv, MqCallsOK, Holding
  <2>7. /\ suspend_thread' \in Seq(Threads) /\ Once(suspend_thread)'
        /\ On(suspend_thread') = On(suspend_thread) \cup {t}
    BY <2>1, SuspendedList DEF MqInv, MqSleepersOK
  <2>8. On(suspend_thread) \subseteq Threads
    BY OnThreads DEF MqInv, MqSleepersOK
  <2>9. MqSleepersOK'
    BY <2>5, <2>7, <2>8 DEF MqInv, MqSleepersOK
  <2>. QED
    BY <1>3, <2>2, <2>3, <2>4, <2>6, <2>9 DEF MqInv
<1>. QED
  BY <1>4, <1>5, <1>6 DEF TryTake

\* A thread that is not in rt_mq_recv, or was resumed, does not sleep.
LEMMA MqAwakeNotAsleep ==
    ASSUME NEW t \in Threads, MqInv, pc[t] # "recv"
    PROVE  t \notin On(suspend_thread)
  BY DEF MqInv, MqSleepersOK

\* What is left of a wait after a resume.
LEMMA MqTimeLeft ==
    ASSUME NEW t \in Threads, MqInv
    PROVE  /\ Remaining(t) \in Nat \cup {Forever}
           /\ Remaining(t) > 0 => waited[t] + Remaining(t) <= asked[t]
  BY RemainingTime DEF MqInv

LEMMA MqNextInv == MqInv /\ [MqNext]_allMq => MqInv'
<1> SUFFICES ASSUME MqInv, [MqNext]_allMq PROVE MqInv'
  OBVIOUS
<1>1. PICK free, sent : Use(free, sent)
  BY DEF MqInv
<1>2. ASSUME NEW t \in Threads, MqTimeout(t) PROVE MqInv'
  <2>1. /\ TimesOut(t) /\ suspend_thread' = Without(suspend_thread, t)
        /\ UNCHANGED <<next, data, lists, msg, given, buffer>>
    BY <1>2 DEF MqTimeout, mqVars
  <2>2. Use(free, sent)'
    BY <1>1, <2>1, StillUse
  <2>3. Clocks'
    BY <2>1, TimesOutClocks DEF MqInv
  <2>4. StoreOK' /\ MqHandsOK'
    BY <2>1 DEF MqInv, StoreOK, MqHandsOK
  <2>5. pc' = pc /\ \A u \in Threads : u # t => error'[u] = error[u]
    BY <2>1 DEF TimesOut, MqInv, Clocks, TimingOK
  <2>6. MqCallsOK'
    BY <2>1, <2>5 DEF MqInv, MqCallsOK
  <2>7. /\ suspend_thread' \in Seq(Threads) /\ Once(suspend_thread)'
        /\ On(suspend_thread') = On(suspend_thread) \ {t}
    BY <2>1, WithoutThread DEF MqInv, MqSleepersOK
  <2>8. On(suspend_thread) \subseteq Threads
    BY OnThreads DEF MqInv, MqSleepersOK
  <2>9. MqSleepersOK'
    BY <2>5, <2>7, <2>8 DEF MqInv, MqSleepersOK
  <2>. QED
    BY <2>2, <2>3, <2>4, <2>6, <2>9 DEF MqInv
<1>3. CASE MqTick
  <2>1. UNCHANGED <<next, data, lists, msg, given, buffer, suspend_thread, pc, error>>
    BY <1>3 DEF MqTick, Ticked, mqVars
  <2>2. Use(free, sent)'
    BY <1>1, <2>1, StillUse
  <2>3. Clocks'
    BY <1>3, TickClocks DEF MqTick, MqInv
  <2>4. StoreOK' /\ MqHandsOK' /\ MqCallsOK' /\ MqSleepersOK'
    BY <2>1 DEF MqInv, StoreOK, MqHandsOK, MqCallsOK, MqSleepersOK
  <2>. QED
    BY <2>2, <2>3, <2>4 DEF MqInv
<1>4. ASSUME NEW t \in Threads, rt_mq_recv(t) PROVE MqInv'
  <2>1. PICK tmo \in Timeouts : TryTake(t, tmo)
    BY <1>4 DEF rt_mq_recv
  <2>2. /\ pc[t] = "out" /\ tmo \in Nat \cup {Forever}
        /\ UNCHANGED <<next, data, given, buffer>>
    BY <1>4, TimeoutsAssumption DEF rt_mq_recv
  <2>. QED
    BY <2>1, <2>2, MqAwakeNotAsleep, TakeInv
<1>5. ASSUME NEW t \in Threads, MqResumes(t) PROVE MqInv'
  <2>0. /\ pc[t] = "recv" /\ t \notin On(suspend_thread)
        /\ UNCHANGED <<next, data, given, buffer>>
    BY <1>5 DEF MqResumes
  <2>1. CASE error[t] # "EOK" /\ Return(t) /\ UNCHANGED <<lists, msg, suspend_thread>>
    <3>1. Use(free, sent)'
      BY <1>1, <2>0, <2>1, StillUse
    <3>2. Clocks'
      BY <2>1, ReturnClocks DEF MqInv
    <3>3. StoreOK' /\ MqHandsOK'
      BY <2>0, <2>1 DEF MqInv, StoreOK, MqHandsOK
    <3>4. /\ pc'[t] = "out" /\ error' = error
          /\ \A u \in Threads : u # t => pc'[u] = pc[u]
      BY <2>1 DEF MqInv, Clocks, TimingOK, Return
    <3>5. MqCallsOK'
      BY <2>0, <2>1, <3>4 DEF MqInv, MqCallsOK, Holding
    <3>6. MqSleepersOK'
      BY <2>0, <2>1, <3>4, AwakeActs DEF MqInv
    <3>. QED
      BY <3>1, <3>2, <3>3, <3>5, <3>6 DEF MqInv
  <2>2. CASE error[t] = "EOK" /\ TryTake(t, Remaining(t))
    BY <2>0, <2>2, MqTimeLeft, TakeInv
  <2>. QED
    BY <1>5, <2>1, <2>2 DEF MqResumes
<1>6. ASSUME NEW t \in Threads, CopyOut(t) PROVE MqInv'
  <2>1. /\ pc[t] = "copy" /\ pc' = [pc EXCEPT ![t] = "free"]
        /\ buffer' = [buffer EXCEPT ![t] = data[msg[t]]]
        /\ UNCHANGED <<next, data, lists, msg, given, error, timing, suspend_thread>>
    BY <1>6 DEF CopyOut
  <2>2. Use(free, sent)'
    BY <1>1, <2>1, StillUse
  <2>3. Clocks'
    BY <2>1, GoesOnClocks DEF MqInv, Calls
  <2>4. msg[t] \in Slots
    BY <2>1 DEF MqInv, MqCallsOK, MqHandsOK, Holding
  <2>5. StoreOK' /\ MqHandsOK'
    BY <2>1, <2>4 DEF MqInv, StoreOK, MqHandsOK
  <2>6. pc'[t] = "free" /\ \A u \in Threads : u # t => pc'[u] = pc[u]
    BY <2>1 DEF MqInv, Clocks, TimingOK
  <2>7. MqCallsOK'
    BY <2>1, <2>6 DEF MqInv, MqCallsOK, Holding
  <2>8. MqSleepersOK'
    BY <2>1, <2>6, MqAwakeNotAsleep, AwakeActs DEF MqInv
  <2>. QED
    BY <2>2, <2>3, <2>5, <2>7, <2>8 DEF MqInv
<1>7. CASE UNCHANGED allMq
  <2>1. UNCHANGED <<next, data, lists, msg, given, buffer, suspend_thread, pc, error, timing>>
    BY <1>7 DEF allMq, waiting, mqVars, timing
  <2>2. Use(free, sent)'
    BY <1>1, <2>1, StillUse
  <2>3. Clocks'
    BY <2>1, StillClocks DEF MqInv
  <2>4. StoreOK' /\ MqHandsOK' /\ MqCallsOK' /\ MqSleepersOK'
    BY <2>1 DEF MqInv, StoreOK, MqHandsOK, MqCallsOK, MqSleepersOK
  <2>. QED
    BY <2>2, <2>3, <2>4 DEF MqInv
<1>8. ASSUME NEW t \in Threads, Full(t) PROVE MqInv'
  BY <1>7, <1>8 DEF Full, allMq
<1>. QED
  BY <1>2, <1>3, <1>4, <1>5, <1>6, <1>7, <1>8, ReserveInv, FillInv, LinkInv, IsrInv,
     FreeInv DEF MqNext, Runs

\* Every variable of the message queue keeps its type: entry counts never more
\* messages than there are slots, and no slot outside of the pool is chained.
THEOREM QueueTypes == MqSpec => []MqTypeOK
<1>1. MqInv => MqTypeOK
  <2> SUFFICES ASSUME MqInv PROVE MqTypeOK
    OBVIOUS
  <2>1. PICK free, sent : Use(free, sent)
    BY DEF MqInv
  <2>2. entries \in 0..max_msgs
    BY <2>1, UseConserves DEF MqInv
  <2>3. /\ free = <<>> => msg_queue_free = Null
        /\ free # <<>> => msg_queue_free = free[1] /\ free[1] \in Slots
        /\ sent = <<>> => msg_queue_head = Null /\ msg_queue_tail = Null
        /\ sent # <<>> => /\ msg_queue_head = sent[1] /\ sent[1] \in Slots
                          /\ msg_queue_tail = sent[Len(sent)] /\ sent[Len(sent)] \in Slots
    BY <2>1 DEF Use, IsChain, LastOf
  <2>4. {msg_queue_free, msg_queue_head, msg_queue_tail} \subseteq Slots \cup {Null}
    BY <2>3
  <2>. QED
    BY <2>2, <2>4 DEF MqInv, Clocks, TimingOK, StoreOK, MqHandsOK, MqSleepersOK, MqTypeOK,
                      ThreadTypeOK
<1>. QED
  BY <1>1, MqInitInv, MqNextInv, PTL DEF MqSpec, allMq

\* No call of the queue sleeps longer than its caller allowed (ipc.c:2189).
THEOREM QueuePatience == MqSpec => []Patience
<1>1. MqInv => Patience
  BY DEF MqInv, Clocks
<1>. QED
  BY <1>1, MqInitInv, MqNextInv, PTL DEF MqSpec, allMq

\* No slot is lost or used twice, whatever calls and interrupts run inside each
\* other while a slot is on neither list (ipc.c:1962, 2211).
THEOREM QueueConserves == MqSpec => []SlotsConserved
<1>1. MqInv => SlotsConserved
  <2> SUFFICES ASSUME MqInv PROVE SlotsConserved
    OBVIOUS
  <2>1. PICK free, sent : Use(free, sent)
    BY DEF MqInv
  <2>2. free \in Chains /\ sent \in Chains /\ Conserved(free, sent)
    BY <2>1, UseConserves DEF MqInv
  <2>. QED
    BY <2>2 DEF SlotsConserved
<1>. QED
  BY <1>1, MqInitInv, MqNextInv, PTL DEF MqSpec, allMq

-----------------------------------------------------------------------------
(***************************************************************************)
(* No lost wakeup.  A message linked adds one thread on its way to it, if  *)
(* any waits; a thread on its way that runs takes a message or finds none. *)
(***************************************************************************)

LEMMA EntriesNat == MqInv => entries \in Nat
  BY DEF MqInv, Use

LEMMA MqComingThreads ==
    /\ MqComing \in SUBSET Threads
    /\ IsFiniteSet(MqComing) /\ Cardinality(MqComing) \in Nat
  BY ThreadsAssumption, FS_Subset, FS_CardinalityType DEF MqComing

LEMMA MqComingThreadsNext ==
    /\ MqComing' \in SUBSET Threads
    /\ IsFiniteSet(MqComing') /\ Cardinality(MqComing') \in Nat
  BY ThreadsAssumption, FS_Subset, FS_CardinalityType DEF MqComing

\* A message is linked, by an interrupt or by a thread that was not waiting.
LEMMA LinkedWakes ==
    ASSUME MqInv, MqNoLostWakeup, entries' = entries + 1,
           suspend_thread' = Resumed(suspend_thread),
           \A u \in Threads : pc[u] = "recv" => pc'[u] = pc[u] /\ error'[u] = error[u]
    PROVE  MqNoLostWakeup'
<1> SUFFICES ASSUME suspend_thread' # <<>>
             PROVE  entries' <= Cardinality(MqComing')
  BY DEF MqNoLostWakeup
<1> DEFINE h == Head(suspend_thread)
<1>1. suspend_thread # <<>>
  BY DEF Resumed
<1>2. entries <= Cardinality(MqComing)
  BY <1>1 DEF MqNoLostWakeup
<1>3. /\ h \in On(suspend_thread)
      /\ On(suspend_thread') = On(suspend_thread) \ {h}
  BY <1>1, ResumedList DEF MqInv, MqSleepersOK
<1>4. h \in Threads /\ pc[h] = "recv" /\ error[h] = "EOK"
  BY <1>3, OnThreads DEF MqInv, MqSleepersOK
<1>5. h \in MqComing' /\ h \notin MqComing
  BY <1>3, <1>4 DEF MqComing, MqSleepers
<1>6. MqComing \subseteq MqComing'
  BY <1>3 DEF MqComing, MqSleepers
<1>7. Cardinality(MqComing) + 1 <= Cardinality(MqComing')
  BY <1>5, <1>6, MqComingThreads, MqComingThreadsNext, OneThreadMore
<1>. QED
  BY <1>2, <1>7, EntriesNat, MqComingThreads, MqComingThreadsNext

\* Thread t takes a message.
LEMMA UnlinkWakes ==
    ASSUME MqInv, MqNoLostWakeup, NEW t, entries' = entries - 1,
           suspend_thread' = suspend_thread,
           \A u \in Threads : u # t => pc'[u] = pc[u] /\ error'[u] = error[u]
    PROVE  MqNoLostWakeup'
<1> SUFFICES ASSUME suspend_thread # <<>>
             PROVE  entries' <= Cardinality(MqComing')
  BY DEF MqNoLostWakeup
<1>1. entries <= Cardinality(MqComing)
  BY DEF MqNoLostWakeup
<1>2. MqComing \ {t} \subseteq MqComing'
  BY DEF MqComing, MqSleepers
<1>3. Cardinality(MqComing) <= Cardinality(MqComing') + 1
  BY <1>2, MqComingThreads, MqComingThreadsNext, OneThreadLess
<1>. QED
  BY <1>1, <1>3, EntriesNat, MqComingThreads, MqComingThreadsNext

\* Nothing is linked or taken, and no thread on its way to a message gives up.
LEMMA MqRestWakes ==
    ASSUME MqInv, MqNoLostWakeup, entries' = entries,
           suspend_thread' # <<>> =>
               entries = 0 \/ (suspend_thread # <<>> /\ MqComing \subseteq MqComing')
    PROVE  MqNoLostWakeup'
<1> SUFFICES ASSUME suspend_thread' # <<>>
             PROVE  entries' <= Cardinality(MqComing')
  BY DEF MqNoLostWakeup
<1>1. CASE entries = 0
  BY <1>1, MqComingThreadsNext
<1>2. CASE suspend_thread # <<>> /\ MqComing \subseteq MqComing'
  <2>1. Cardinality(MqComing) <= Cardinality(MqComing')
    BY <1>2, MqComingThreadsNext, FS_Subset
  <2>2. entries <= Cardinality(MqComing)
    BY <1>2 DEF MqNoLostWakeup
  <2>. QED
    BY <2>1, <2>2, EntriesNat, MqComingThreads, MqComingThreadsNext
<1>. QED
  BY <1>1, <1>2

LEMMA TakeWakes ==
    ASSUME NEW t \in Threads, NEW tmo \in Nat \cup {Forever},
           MqInv, MqNoLostWakeup, TryTake(t, tmo)
    PROVE  MqNoLostWakeup'
<1>1. CASE Unlink(t)
  <2>1. \A u \in Threads : u # t => pc'[u] = pc[u] /\ error'[u] = error[u]
    BY <1>1 DEF Unlink, MqInv, Clocks, TimingOK
  <2>. QED
    BY <1>1, <2>1, UnlinkWakes DEF Unlink
<1>2. CASE NoMessage(t, tmo) \/ MqWaits(t, tmo)
  BY <1>2, MqRestWakes DEF NoMessage, MqWaits, lists
<1>. QED
  BY <1>1, <1>2 DEF TryTake

\* A call goes on that was not waiting for a message.
LEMMA HandWakes ==
    ASSUME NEW t \in Threads, MqInv, MqNoLostWakeup, pc[t] # "recv",
           \A u \in Threads : u # t => pc'[u] = pc[u], error' = error,
           UNCHANGED <<entries, suspend_thread>>
    PROVE  MqNoLostWakeup'
<1>1. MqComing \subseteq MqComing'
  BY DEF MqComing, MqSleepers
<1>. QED
  BY <1>1, MqRestWakes

LEMMA MqNextWakes == MqInv /\ MqNoLostWakeup /\ [MqNext]_allMq => MqNoLostWakeup'
<1> SUFFICES ASSUME MqInv, MqNoLostWakeup, [MqNext]_allMq PROVE MqNoLostWakeup'
  OBVIOUS
<1>0. pc \in [Threads -> {"out"} \cup Calls]
  BY DEF MqInv, Clocks, TimingOK
<1>1. ASSUME NEW t \in Threads, MqTimeout(t) PROVE MqNoLostWakeup'
  <2>1. /\ entries' = entries /\ pc' = pc
        /\ suspend_thread' = Without(suspend_thread, t)
        /\ \A u \in Threads : u # t => error'[u] = error[u]
        /\ t \in MqSleepers
    BY <1>1 DEF MqTimeout, TimesOut, mqVars, lists, Due, MqInv, Clocks, TimingOK
  <2>2. On(suspend_thread') = On(suspend_thread) \ {t}
    BY <2>1, WithoutThread DEF MqInv, MqSleepersOK
  <2>3. MqComing \subseteq MqComing'
    BY <2>1, <2>2 DEF MqComing, MqSleepers
  <2>4. Without(<<>>, t) = <<>>
    BY DEF Without, On
  <2>. QED
    BY <2>1, <2>3, <2>4, MqRestWakes
<1>2. CASE MqIsrSend
  <2>1. /\ entries' = entries + 1 /\ suspend_thread' = Resumed(suspend_thread)
        /\ UNCHANGED <<pc, error>>
    BY <1>2 DEF MqIsrSend, Linked
  <2>. QED
    BY <2>1, LinkedWakes
<1>3. ASSUME NEW t \in Threads, Link(t) PROVE MqNoLostWakeup'
  <2>1. /\ entries' = entries + 1 /\ suspend_thread' = Resumed(suspend_thread)
        /\ pc[t] = "link" /\ pc' = [pc EXCEPT ![t] = "out"] /\ error' = error
    BY <1>3 DEF Link, Linked, Return
  <2>2. \A u \in Threads : pc[u] = "recv" => pc'[u] = pc[u] /\ error'[u] = error[u]
    BY <1>0, <2>1
  <2>. QED
    BY <2>1, <2>2, LinkedWakes
<1>4. CASE MqTick
  BY <1>4 DEF MqTick, Ticked, mqVars, lists, MqNoLostWakeup, MqComing, MqSleepers
<1>5. ASSUME NEW t \in Threads, rt_mq_recv(t) PROVE MqNoLostWakeup'
  BY <1>5, TimeoutsAssumption, TakeWakes DEF rt_mq_recv
<1>6. ASSUME NEW t \in Threads, MqResumes(t) PROVE MqNoLostWakeup'
  <2>1. CASE error[t] # "EOK" /\ Return(t) /\ UNCHANGED <<lists, msg, suspend_thread>>
    <3>1. MqComing \subseteq MqComing'
      BY <1>0, <2>1 DEF MqComing, MqSleepers, Return
    <3>. QED
      BY <2>1, <3>1, MqRestWakes DEF lists
  <2>2. CASE error[t] = "EOK" /\ TryTake(t, Remaining(t))
    BY <2>2, MqTimeLeft, TakeWakes
  <2>. QED
    BY <1>6, <2>1, <2>2 DEF MqResumes
<1>7. ASSUME NEW t \in Threads, Reserve(t) \/ Fill(t) \/ CopyOut(t) \/ Free(t)
      PROVE  MqNoLostWakeup'
  <2>1. /\ pc[t] # "recv" /\ error' = error /\ UNCHANGED <<entries, suspend_thread>>
        /\ \E p : pc' = [pc EXCEPT ![t] = p]
    BY <1>7 DEF Reserve, Fill, CopyOut, Free, Return, lists
  <2>2. \A u \in Threads : u # t => pc'[u] = pc[u]
    BY <1>0, <2>1
  <2>. QED
    BY <2>1, <2>2, HandWakes
<1>8. CASE UNCHANGED allMq
  BY <1>8 DEF allMq, waiting, mqVars, lists, MqNoLostWakeup, MqComing, MqSleepers
<1>9. ASSUME NEW t \in Threads, Full(t) PROVE MqNoLostWakeup'
  BY <1>8, <1>9 DEF Full, allMq
<1>. QED
  BY <1>1, <1>2, <1>3, <1>4, <1>5, <1>6, <1>7, <1>8, <1>9 DEF MqNext, Runs

\* Nobody sleeps on a message that is there: while threads wait, every message
\* linked has a resumed thread on its way to it, whatever arrives in a
\* resumed thread's way before it runs (ipc.c:1988, 2133).
THEOREM QueueWakes == MqSpec => []MqNoLostWakeup
<1>1. MqInit => MqNoLostWakeup
  BY DEF MqInit, ThreadInit, MqNoLostWakeup
<1>. QED
  BY <1>1, MqInitInv, MqNextInv, MqNextWakes, PTL DEF MqSpec, allMq

-----------------------------------------------------------------------------
(***************************************************************************)
(* The messages linked are a bounded FIFO queue: linking appends, a thread *)
(* that unlinks takes the oldest, and what is written elsewhere, while a   *)
(* slot is in the hands of a call, is in none of their slots.              *)
(***************************************************************************)

Line  == [k \in DOMAIN Sent |-> data[Sent[k]]]
Taken == [t \in Threads |-> Unlinked(t)]

\* The messages d in the slots of list q.
In(q, d) == [k \in 1..Len(q) |-> d[q[k]]]

SentOK == \A free, sent : Use(free, sent) =>
              /\ sent \in Seq(Slots) /\ Len(sent) \in 0..max_msgs
              /\ Sent = sent /\ Line = In(sent, data)

LEMMA SentIs == SentOK
<1> SUFFICES ASSUME NEW free, NEW sent, Use(free, sent)
             PROVE  /\ sent \in Seq(Slots) /\ Len(sent) \in 0..max_msgs
                    /\ Sent = sent /\ Line = In(sent, data)
  BY DEF SentOK
<1>1. /\ sent \in Seq(Slots) /\ IsChain(next, sent, msg_queue_head)
      /\ sent \in Chains /\ Len(sent) \in 0..max_msgs
  BY ShortChain DEF Use
<1>2. ASSUME NEW q \in Chains, IsChain(next, q, msg_queue_head) PROVE q = sent
  BY <1>1, <1>2, ChainsSeq, ChainUnique
<1>3. Sent = sent
  BY <1>1, <1>2 DEF Sent
<1>4. DOMAIN sent = 1..Len(sent)
  BY <1>1
<1>. QED
  BY <1>1, <1>3, <1>4 DEF Line, In

LEMMA SentIsNext == SentOK'
  BY SentIs, PTL

LEMMA InList ==
    ASSUME NEW q \in Seq(Slots), NEW d \in [Slots -> Msgs \cup {NoMsg}]
    PROVE  /\ In(q, d) \in Seq(Msgs \cup {NoMsg}) /\ Len(In(q, d)) = Len(q)
           /\ DOMAIN In(q, d) = 1..Len(q) /\ \A k \in 1..Len(q) : In(q, d)[k] = d[q[k]]
<1>1. Len(q) \in Nat /\ \A k \in 1..Len(q) : q[k] \in Slots
  OBVIOUS
<1>2. In(q, d) \in [1..Len(q) -> Msgs \cup {NoMsg}]
  BY <1>1 DEF In
<1>. QED
  BY <1>1, <1>2 DEF In

LEMMA InSame ==
    ASSUME NEW q \in Seq(Slots), NEW d, NEW e, \A x \in On(q) : e[x] = d[x]
    PROVE  In(q, e) = In(q, d)
  BY DEF In, On

LEMMA InAppend ==
    ASSUME NEW q \in Seq(Slots), NEW x \in Slots,
           NEW d \in [Slots -> Msgs \cup {NoMsg}], NEW e \in [Slots -> Msgs \cup {NoMsg}],
           \A y \in On(q) : e[y] = d[y]
    PROVE  In(Append(q, x), e) = Append(In(q, d), e[x])
<1> DEFINE r == Append(q, x)
<1>1. /\ Len(q) \in Nat /\ r \in Seq(Slots) /\ Len(r) = Len(q) + 1
      /\ r[Len(q) + 1] = x /\ \A k \in 1..Len(q) : r[k] = q[k]
  OBVIOUS
<1>2. In(q, e) = In(q, d)
  BY InSame
<1>3. /\ In(q, e) \in Seq(Msgs \cup {NoMsg}) /\ Len(In(q, e)) = Len(q)
      /\ \A k \in 1..Len(q) : In(q, e)[k] = e[q[k]]
  BY InList
<1> HIDE DEF r
<1>4. /\ In(r, e) \in Seq(Msgs \cup {NoMsg}) /\ Len(In(r, e)) = Len(q) + 1
      /\ \A k \in 1..(Len(q) + 1) : In(r, e)[k] = e[r[k]]
  BY <1>1, InList
<1>5. e[x] \in Msgs \cup {NoMsg}
  OBVIOUS
<1>6. /\ Append(In(q, e), e[x]) \in Seq(Msgs \cup {NoMsg})
      /\ Len(Append(In(q, e), e[x])) = Len(q) + 1
      /\ Append(In(q, e), e[x])[Len(q) + 1] = e[x]
      /\ \A k \in 1..Len(q) : Append(In(q, e), e[x])[k] = In(q, e)[k]
  BY <1>3, <1>5
<1>7. ASSUME NEW k \in 1..(Len(q) + 1)
      PROVE  In(r, e)[k] = Append(In(q, e), e[x])[k]
  <2>1. CASE k = Len(q) + 1
    BY <1>1, <1>4, <1>6, <2>1
  <2>2. CASE k # Len(q) + 1
    <3>1. k \in 1..Len(q)
      BY <1>1, <2>2
    <3>. QED
      BY <1>1, <1>3, <1>4, <1>6, <3>1
  <2>. QED
    BY <2>1, <2>2
<1>8. In(r, e) = Append(In(q, e), e[x])
  BY <1>4, <1>6, <1>7
<1>. QED
  BY <1>2, <1>8 DEF r

LEMMA InTail ==
    ASSUME NEW q \in Seq(Slots), q # <<>>, NEW d \in [Slots -> Msgs \cup {NoMsg}]
    PROVE  /\ In(q, d) # <<>> /\ Head(In(q, d)) = d[Head(q)]
           /\ In(Tail(q), d) = Tail(In(q, d))
<1> DEFINE r == Tail(q)
           l == In(q, d)
<1>1. /\ Len(q) \in Nat /\ Len(q) > 0 /\ r \in Seq(Slots) /\ Len(r) = Len(q) - 1
      /\ \A k \in 1..(Len(q) - 1) : r[k] = q[k + 1]
      /\ Head(q) = q[1]
  OBVIOUS
<1>2. /\ l \in Seq(Msgs \cup {NoMsg}) /\ Len(l) = Len(q)
      /\ \A k \in 1..Len(q) : l[k] = d[q[k]]
  BY InList
<1>3. /\ In(r, d) \in Seq(Msgs \cup {NoMsg}) /\ Len(In(r, d)) = Len(q) - 1
      /\ \A k \in 1..(Len(q) - 1) : In(r, d)[k] = d[r[k]]
      /\ DOMAIN In(r, d) = 1..(Len(q) - 1)
  BY <1>1, InList
<1> HIDE DEF r, l
<1>4. l # <<>> /\ 1 \in 1..Len(q)
  BY <1>1, <1>2
<1>5. Head(l) = d[Head(q)]
  BY <1>1, <1>2, <1>4
<1>6. /\ Tail(l) \in Seq(Msgs \cup {NoMsg}) /\ Len(Tail(l)) = Len(q) - 1
      /\ \A k \in 1..(Len(q) - 1) : Tail(l)[k] = l[k + 1]
      /\ DOMAIN Tail(l) = 1..(Len(q) - 1)
  BY <1>1, <1>2, <1>4
<1>7. ASSUME NEW k \in 1..(Len(q) - 1) PROVE In(r, d)[k] = Tail(l)[k]
  <2>1. k + 1 \in 1..Len(q)
    BY <1>1
  <2>2. In(r, d)[k] = d[r[k]] /\ r[k] = q[k + 1]
    BY <1>1, <1>3
  <2>3. Tail(l)[k] = l[k + 1] /\ l[k + 1] = d[q[k + 1]]
    BY <1>2, <1>6, <2>1
  <2>. QED
    BY <2>2, <2>3
<1>8. In(r, d) = Tail(l)
  BY <1>3, <1>6, <1>7
<1>. QED
  BY <1>4, <1>5, <1>8 DEF r, l

\* A call that had unlinked nothing, and has unlinked nothing now, leaves what
\* the threads unlinked.
LEMMA TakenSame ==
    ASSUME NEW t, t \in Threads => pc[t] # "copy" /\ pc'[t] # "copy", buffer' = buffer,
           \A u \in Threads : u # t => /\ pc'[u] = pc[u] /\ msg'[u] = msg[u]
                                       /\ pc[u] = "copy" => data'[msg[u]] = data[msg[u]]
    PROVE  Taken' = Taken
<1>1. \A u \in Threads : Unlinked(u)' = Unlinked(u)
  BY DEF Unlinked
<1>. QED
  BY <1>1 DEF Taken

\* What a step does to the queue: it puts a message, gets one, or does neither.
MqPuts == /\ Len(Line) < max_msgs /\ \E v \in Msgs : Line' = Append(Line, v)
          /\ Taken' = Taken
MqGets == /\ Line # <<>> /\ Line' = Tail(Line)
          /\ \E t \in Threads : Taken' = [Taken EXCEPT ![t] = Head(Line)]
MqNeither == Line' = Line /\ Taken' = Taken

\* A message that was written into slot x before, or is written now, is linked.
LEMMA LinkedPuts ==
    ASSUME NEW sent, NEW r, NEW free, NEW s, NEW x \in Slots, StoreOK, StoreOK',
           Use(free, sent), Use(r, s)', s = Append(sent, x), data'[x] \in Msgs,
           \A y \in On(sent) : data'[y] = data[y], Taken' = Taken
    PROVE  MqPuts
<1>0. sent \in Seq(Slots) /\ Line = In(sent, data)
  BY SentIs, Zenon DEF SentOK
<1>1. sent \in Seq(Slots) /\ Len(sent) \in Nat /\ Line = In(sent, data)
  BY <1>0
<1>2. Len(s) \in 0..max_msgs /\ Line' = In(s, data')
  BY SentIsNext DEF SentOK, In
<1>3. Line' = Append(Line, data'[x])
  BY <1>1, <1>2, InAppend DEF StoreOK
<1>4. Len(Line) = Len(sent)
  BY <1>1, InList DEF StoreOK
<1>5. Len(s) = Len(sent) + 1
  BY <1>1
<1>6. Len(sent) < max_msgs
  BY <1>1, <1>2, <1>5, MaxMsgsAssumption
<1>. QED
  BY <1>3, <1>4, <1>6 DEF MqPuts

\* The list of messages and what is in its slots stay.
LEMMA NoneLinked ==
    ASSUME NEW free, NEW sent, NEW r, Use(free, sent), Use(r, sent)',
           \A y \in On(sent) : data'[y] = data[y]
    PROVE  Line' = Line
<1>1. sent \in Seq(Slots) /\ Line = In(sent, data)
  BY SentIs DEF SentOK
<1>2. Line' = In(sent, data')
  BY SentIsNext DEF SentOK, In
<1>. QED
  BY <1>1, <1>2, InSame

LEMMA ReserveNeither ==
    ASSUME NEW t \in Threads, MqInv, Reserve(t)
    PROVE  MqNeither
<1>1. PICK free, sent : Use(free, sent)
  BY DEF MqInv
<1>2. Use(Tail(free), sent)'
  BY <1>1, ReserveUse DEF MqInv
<1>3. /\ pc[t] = "out" /\ pc' = [pc EXCEPT ![t] = "fill"] /\ UNCHANGED <<data, buffer>>
      /\ msg' = [msg EXCEPT ![t] = msg_queue_free]
  BY DEF Reserve
<1>4. Taken' = Taken
  BY <1>3, TakenSame DEF MqInv, Clocks, TimingOK, MqHandsOK
<1>5. Line' = Line
  BY <1>1, <1>2, <1>3, NoneLinked
<1>. QED
  BY <1>4, <1>5 DEF MqNeither

LEMMA FillNeither ==
    ASSUME NEW t \in Threads, MqInv, Fill(t)
    PROVE  MqNeither
<1>1. PICK free, sent : Use(free, sent)
  BY DEF MqInv
<1>2. Use(free, sent)'
  BY <1>1, FillUse DEF MqInv
<1>3. /\ pc[t] = "fill" /\ pc' = [pc EXCEPT ![t] = "link"] /\ UNCHANGED <<msg, buffer>>
      /\ data' = [data EXCEPT ![msg[t]] = given[t]]
  BY DEF Fill
<1>4. msg[t] # Null /\ msg[t] \notin On(sent)
      /\ \A u \in Threads : msg[u] = msg[t] => u = t
  BY <1>1, <1>3 DEF MqInv, MqCallsOK, Holding, Use, Placed
<1>5. \A x : x # msg[t] => data'[x] = data[x]
  BY <1>3 DEF MqInv, StoreOK
<1>6. pc'[t] = "link" /\ \A u \in Threads : u # t => pc'[u] = pc[u]
  BY <1>3 DEF MqInv, Clocks, TimingOK
<1>7. Taken' = Taken
  BY <1>3, <1>4, <1>5, <1>6, TakenSame
<1>8. Line' = Line
  BY <1>1, <1>2, <1>4, <1>5, NoneLinked
<1>. QED
  BY <1>7, <1>8 DEF MqNeither

LEMMA LinkPuts ==
    ASSUME NEW t \in Threads, MqInv, MqInv', Link(t)
    PROVE  MqPuts
<1>1. PICK free, sent : Use(free, sent)
  BY DEF MqInv
<1>2. PICK x : x = msg[t]
  OBVIOUS
<1>3. Use(free, Append(sent, x))'
  BY <1>1, <1>2, LinkUse DEF MqInv
<1>4. /\ pc[t] = "link" /\ pc' = [pc EXCEPT ![t] = "out"] /\ UNCHANGED <<data, buffer>>
      /\ msg' = [msg EXCEPT ![t] = Null]
  BY DEF Link, Return
<1>5. x \in Slots /\ data'[x] \in Msgs
  BY <1>2, <1>4 DEF MqInv, MqCallsOK, Holding, MqHandsOK
<1>6. Taken' = Taken
  BY <1>4, TakenSame DEF MqInv, Clocks, TimingOK, MqHandsOK
<1>. QED
  BY <1>1, <1>3, <1>4, <1>5, <1>6, LinkedPuts DEF MqInv

LEMMA IsrPuts ==
    ASSUME MqInv, MqInv', MqIsrSend
    PROVE  MqPuts
<1>1. PICK free, sent : Use(free, sent)
  BY DEF MqInv
<1>2. PICK x : x = msg_queue_free
  OBVIOUS
<1>3. Use(Tail(free), Append(sent, x))'
  BY <1>1, <1>2, IsrUse DEF MqInv
<1>4. x # Null /\ UNCHANGED <<pc, msg, buffer>>
  BY <1>2 DEF MqIsrSend
<1>5. x \in Slots /\ x \notin On(sent) /\ \A u \in Threads : msg[u] # x
  BY <1>1, <1>2, <1>4, TakeFree
<1>6. PICK m \in Msgs : data' = [data EXCEPT ![x] = m]
  BY <1>2 DEF MqIsrSend
<1>7. data'[x] \in Msgs /\ \A y : y # x => data'[y] = data[y]
  BY <1>5, <1>6 DEF MqInv, StoreOK
<1>8. PICK n : n \notin Threads
  BY NoSetContainsEverything
<1>9. Taken' = Taken
  BY <1>4, <1>5, <1>7, <1>8, TakenSame
<1>. QED
  BY <1>1, <1>3, <1>5, <1>7, <1>9, LinkedPuts DEF MqInv

LEMMA CopyOutNeither ==
    ASSUME NEW t \in Threads, MqInv, CopyOut(t)
    PROVE  MqNeither
<1>1. PICK free, sent : Use(free, sent)
  BY DEF MqInv
<1>2. /\ pc[t] = "copy" /\ pc' = [pc EXCEPT ![t] = "free"]
      /\ buffer' = [buffer EXCEPT ![t] = data[msg[t]]]
      /\ UNCHANGED <<next, data, lists, msg>>
  BY DEF CopyOut
<1>3. Use(free, sent)'
  BY <1>1, <1>2, StillUse
<1>4. \A u \in Threads : Unlinked(u)' = Unlinked(u)
  BY <1>2 DEF Unlinked, MqInv, Clocks, TimingOK, MqHandsOK
<1>5. Taken' = Taken
  BY <1>4 DEF Taken
<1>6. Line' = Line
  BY <1>1, <1>2, <1>3, NoneLinked
<1>. QED
  BY <1>5, <1>6 DEF MqNeither

LEMMA FreeNeither ==
    ASSUME NEW t \in Threads, MqInv, Free(t)
    PROVE  MqNeither
<1>1. PICK free, sent : Use(free, sent)
  BY DEF MqInv
<1>2. PICK x : x = msg[t]
  OBVIOUS
<1>3. Use(<<x>> \o free, sent)'
  BY <1>1, <1>2, FreeUse DEF MqInv
<1>4. /\ pc[t] = "free" /\ pc' = [pc EXCEPT ![t] = "out"] /\ UNCHANGED <<data, buffer>>
      /\ msg' = [msg EXCEPT ![t] = Null]
  BY DEF Free, Return
<1>5. Taken' = Taken
  BY <1>4, TakenSame DEF MqInv, Clocks, TimingOK, MqHandsOK
<1>6. Line' = Line
  BY <1>1, <1>3, <1>4, NoneLinked
<1>. QED
  BY <1>5, <1>6 DEF MqNeither

LEMMA UnlinkGets ==
    ASSUME NEW t \in Threads, MqInv, Unlink(t), pc[t] \in {"out", "recv"},
           UNCHANGED <<next, data, buffer>>
    PROVE  MqGets
<1>1. PICK free, sent : Use(free, sent)
  BY DEF MqInv
<1>2. msg[t] = Null
  BY DEF MqInv, MqCallsOK, Holding
<1>3. Use(free, Tail(sent))' /\ sent # <<>> /\ msg_queue_head = Head(sent)
  BY <1>1, <1>2, UnlinkUse DEF MqInv
<1>4. sent \in Seq(Slots) /\ Line = In(sent, data)
  BY <1>1, SentIs DEF SentOK
<1>5. Line' = In(Tail(sent), data)
  BY <1>3, SentIsNext DEF SentOK, In
<1>6. /\ Line # <<>> /\ Line' = Tail(Line) /\ Head(Line) = data[msg_queue_head]
  BY <1>3, <1>4, <1>5, InTail DEF MqInv, StoreOK
<1>7. /\ msg' = [msg EXCEPT ![t] = msg_queue_head]
      /\ pc' = [pc EXCEPT ![t] = "copy"] /\ UNCHANGED <<data, buffer>>
  BY DEF Unlink
<1>8. Unlinked(t)' = Head(Line) /\ \A u \in Threads : u # t => Unlinked(u)' = Unlinked(u)
  BY <1>6, <1>7 DEF Unlinked, MqInv, Clocks, TimingOK, MqHandsOK
<1>9. Taken' = [Taken EXCEPT ![t] = Head(Line)]
  BY <1>8 DEF Taken
<1>. QED
  BY <1>6, <1>9 DEF MqGets

\* A call that finds no message, waits or gives up.
LEMMA NothingTaken ==
    ASSUME NEW t \in Threads, MqInv, pc[t] \in {"out", "recv"},
           UNCHANGED <<next, data, lists, msg, buffer>>,
           \E p \in {"out", "recv"} : pc' = [pc EXCEPT ![t] = p]
    PROVE  MqNeither
<1>1. PICK free, sent : Use(free, sent)
  BY DEF MqInv
<1>2. Use(free, sent)'
  BY <1>1, StillUse
<1>3. Line' = Line
  BY <1>1, <1>2, NoneLinked
<1>4. Taken' = Taken
  BY TakenSame DEF MqInv, Clocks, TimingOK
<1>. QED
  BY <1>3, <1>4 DEF MqNeither

LEMMA MqCallsOfQueue ==
    MqInv /\ MqInv' /\ [MqNext]_allMq => MqPuts \/ MqGets \/ MqNeither
<1> SUFFICES ASSUME MqInv, MqInv', [MqNext]_allMq PROVE MqPuts \/ MqGets \/ MqNeither
  OBVIOUS
<1>1. ASSUME NEW t \in Threads, NEW tmo, TryTake(t, tmo), pc[t] \in {"out", "recv"},
             UNCHANGED <<next, data, given, buffer>>
      PROVE  MqGets \/ MqNeither
  <2>1. CASE Unlink(t)
    BY <1>1, <2>1, UnlinkGets
  <2>2. CASE NoMessage(t, tmo) \/ MqWaits(t, tmo)
    BY <1>1, <2>2, NothingTaken DEF NoMessage, MqWaits, Return, Sleep
  <2>. QED
    BY <1>1, <2>1, <2>2 DEF TryTake
<1>2. ASSUME NEW t \in Threads, rt_mq_recv(t) PROVE MqGets \/ MqNeither
  BY <1>1, <1>2 DEF rt_mq_recv
<1>3. ASSUME NEW t \in Threads, MqResumes(t) PROVE MqGets \/ MqNeither
  <2>1. CASE Return(t) /\ UNCHANGED <<lists, msg>>
    BY <1>3, <2>1, NothingTaken DEF MqResumes, Return
  <2>2. CASE TryTake(t, Remaining(t))
    BY <1>1, <1>3, <2>2 DEF MqResumes
  <2>. QED
    BY <1>3, <2>1, <2>2 DEF MqResumes
<1>4. ASSUME UNCHANGED mqVars, UNCHANGED pc PROVE MqNeither
  BY <1>4 DEF mqVars, lists, MqNeither, Line, Sent, Taken, Unlinked
<1>5. ASSUME NEW t \in Threads, MqTimeout(t) PROVE MqNeither
  BY <1>4, <1>5 DEF MqTimeout, TimesOut
<1>6. CASE MqTick
  BY <1>4, <1>6 DEF MqTick, Ticked
<1>7. ASSUME NEW t \in Threads, Full(t) PROVE MqNeither
  BY <1>4, <1>7 DEF Full, waiting
<1>8. CASE UNCHANGED allMq
  BY <1>4, <1>8 DEF allMq, waiting
<1>. QED
  BY <1>2, <1>3, <1>5, <1>6, <1>7, <1>8, ReserveNeither, FillNeither, LinkPuts, IsrPuts,
     CopyOutNeither, FreeNeither DEF MqNext, Runs

LEMMA MqInitQueue == MqInit => Messages!Init
<1> SUFFICES ASSUME MqInit PROVE Messages!Init
  OBVIOUS
<1>1. PICK free, sent : Use(free, sent)
  BY MqInitInv DEF MqInv
<1>2. sent = <<>>
  BY <1>1 DEF Use, IsChain, MqInit, Null, Slots
<1>3. Line = <<>>
  BY <1>1, <1>2, SentIs DEF SentOK, In
<1>4. Taken = [t \in Threads |-> NoMsg]
  BY DEF Taken, Unlinked, MqInit, ThreadInit
<1>. QED
  BY <1>3, <1>4 DEF Messages!Init, Line, Taken

LEMMA MqNextQueue ==
    MqInv /\ MqInv' /\ [MqNext]_allMq
        => [Messages!Next]_<<[k \in DOMAIN Sent |-> data[Sent[k]]],
                             [t \in Threads |-> Unlinked(t)]>>
<1> SUFFICES ASSUME MqInv, MqInv', [MqNext]_allMq
             PROVE  [Messages!Next]_<<[k \in DOMAIN Sent |-> data[Sent[k]]],
                                      [t \in Threads |-> Unlinked(t)]>>
  OBVIOUS
<1>1. CASE MqPuts
  <2>1. Messages!Put
    BY <1>1 DEF MqPuts, Messages!Put, Line, Taken
  <2>. QED
    BY <2>1 DEF Messages!Next
<1>2. CASE MqGets
  <2>1. \E t \in Threads : Messages!Get(t)
    BY <1>2 DEF MqGets, Messages!Get, Line, Taken
  <2>. QED
    BY <2>1 DEF Messages!Next
<1>3. CASE MqNeither
  BY <1>3 DEF MqNeither, Line, Taken
<1>. QED
  BY <1>1, <1>2, <1>3, MqCallsOfQueue

\* The message queue implements the bounded FIFO queue, whatever the number of
\* slots, the threads, the messages and the waiting times, although its slots
\* are filled and copied out between its critical sections (rt_mq_send,
\* rt_mq_recv).
THEOREM QueueImplements == MqSpec => MsgQueueIsQueue
  BY MqInitInv, MqNextInv, MqInitQueue, MqNextQueue, PTL
     DEF MqSpec, allMq, MsgQueueIsQueue, Messages!Spec
=============================================================================
