----------------------------- MODULE DoorProofs -----------------------------
(***************************************************************************)
(* Door for every length of the delays: the type invariant, and that       *)
(* neither the relay nor a LED is left on.  NeverLeftOn is inductive       *)
(* together with Well: in what a thread has still to do, each write of 1   *)
(* but to the beeper is followed by a write of 0 to the same output.  So   *)
(* the write that switches an output on finds its own off behind it, and   *)
(* the off of another thread only leaves one promise more than is needed.  *)
(***************************************************************************)
EXTENDS Door, TLAPS

Items == {On(o) : o \in Outputs} \cup {Off(o) : o \in Outputs}
         \cup {Wait(n) : n \in 1..(Second + Tenth)}

IsOn(item) == item.op = "write" /\ item.n = 1 /\ item.out # "beep"
Paired(s) == \A k \in 1..Len(s) :
                IsOn(s[k]) => \E j \in 1..Len(s) : j > k /\ s[j] = Off(s[k].out)
Well(s) == s \in Seq(Items) /\ Paired(s)

DoorInv == /\ out \in [Outputs -> {0, 1}]
           /\ todo \in [Threads -> Seq(Items)]
           /\ \A t \in Threads : Paired(todo[t])
           /\ NeverLeftOn

-----------------------------------------------------------------------------
\* What an item is, by its operation.
LEMMA ItemCases ==
    ASSUME NEW item \in Items
    PROVE  \/ item.op = "wait" /\ item.n \in 1..(Second + Tenth) /\ item = Wait(item.n)
           \/ \E o \in Outputs : item = On(o) /\ item.op = "write"
                                 /\ item.out = o /\ item.n = 1
           \/ \E o \in Outputs : item = Off(o) /\ item.op = "write"
                                 /\ item.out = o /\ item.n = 0
  BY DEF Items, On, Off, Wait

\* Work done one after the other: the pairs of each part are pairs of the whole.
LEMMA WellConcat ==
    ASSUME NEW s, NEW w, Well(s), Well(w)
    PROVE  Well(s \o w)
<1> DEFINE c == s \o w
<1>1. /\ s \in Seq(Items) /\ w \in Seq(Items)
      /\ c \in Seq(Items) /\ Len(c) = Len(s) + Len(w)
      /\ Len(s) \in Nat /\ Len(w) \in Nat
      /\ \A k \in 1..Len(s) : c[k] = s[k]
      /\ \A k \in 1..Len(w) : c[Len(s) + k] = w[k]
  <2>1. s \in Seq(Items) /\ w \in Seq(Items)
    BY DEF Well
  <2>2. Len(s) \in Nat /\ Len(w) \in Nat
    BY <2>1
  <2>3. c \in Seq(Items) /\ Len(c) = Len(s) + Len(w)
    BY <2>1
  <2>4. \A k \in 1..Len(s) : c[k] = s[k]
    BY <2>1
  <2>5. \A k \in 1..Len(w) : c[Len(s) + k] = w[k]
    BY <2>1, <2>2
  <2> QED BY <2>1, <2>2, <2>3, <2>4, <2>5
<1>2. ASSUME NEW k \in 1..Len(c), IsOn(c[k])
      PROVE  \E j \in 1..Len(c) : j > k /\ c[j] = Off(c[k].out)
  <2>1. CASE k \in 1..Len(s)
    <3>1. PICK j \in 1..Len(s) : j > k /\ s[j] = Off(s[k].out)
      BY <1>1, <1>2, <2>1 DEF Well, Paired
    <3> QED BY <1>1, <2>1, <3>1
  <2>2. CASE k \notin 1..Len(s)
    <3>1. k - Len(s) \in 1..Len(w) /\ c[k] = w[k - Len(s)]
      <4>1. k - Len(s) \in 1..Len(w)
        BY <1>1, <2>2
      <4> QED BY <1>1, <4>1
    <3>2. PICK j \in 1..Len(w) : j > k - Len(s) /\ w[j] = Off(w[k - Len(s)].out)
      BY <1>2, <3>1 DEF Well, Paired
    <3>3. /\ Len(s) + j \in 1..Len(c) /\ Len(s) + j > k
          /\ c[Len(s) + j] = w[j]
      BY <1>1, <1>2, <3>2
    <3>4. c[Len(s) + j] = Off(c[k].out)
      BY <3>1, <3>2, <3>3
    <3> HIDE DEF c
    <3> QED BY <3>3, <3>4
  <2> QED BY <2>1, <2>2
<1> QED BY <1>1, <1>2 DEF Well, Paired

\* What is left after the first item.
LEMMA WellTail ==
    ASSUME NEW s, Well(s), s # <<>>
    PROVE  Well(Tail(s))
<1>1. /\ s \in Seq(Items) /\ Len(s) \in Nat \ {0}
      /\ Tail(s) \in Seq(Items) /\ Len(Tail(s)) = Len(s) - 1
      /\ \A k \in 1..(Len(s) - 1) : Tail(s)[k] = s[k + 1]
  BY DEF Well
<1>2. ASSUME NEW k \in 1..Len(Tail(s)), IsOn(Tail(s)[k])
      PROVE  \E j \in 1..Len(Tail(s)) : j > k /\ Tail(s)[j] = Off(Tail(s)[k].out)
  <2>1. PICK j \in 1..Len(s) : j > k + 1 /\ s[j] = Off(s[k + 1].out)
    BY <1>1, <1>2 DEF Well, Paired
  <2>2. j - 1 \in 1..Len(Tail(s)) /\ j - 1 > k /\ Tail(s)[j - 1] = s[j]
    BY <1>1, <1>2, <2>1
  <2> QED BY <1>1, <1>2, <2>1, <2>2
<1> QED BY <1>1, <1>2 DEF Well, Paired

\* A delay, and the sequences of the code the works are made of.
LEMMA WellWait ==
    ASSUME NEW n \in 1..(Second + Tenth)
    PROVE  Well(<<Wait(n)>>)
  BY DEF Well, Paired, IsOn, Items, Wait

LEMMA TickBounds == Second \in 1..(Second + Tenth) /\ Tenth \in 1..(Second + Tenth)
  BY TicksAssumption

\* An unlock, a refusal, the beep of an image, the rest of press_FR and the blue
\* LED of verify_FR each switch off what they switch on.
LEMMA WellOpens == Well(Opens)
<1>1. Opens \in Seq(Items)
  BY TickBounds DEF Opens, Items, Outputs, On, Off, Wait
<1>2. Paired(Opens)
  BY DEF Opens, Paired, IsOn, On, Off, Wait
<1> QED BY <1>1, <1>2 DEF Well

LEMMA WellRefuses == Well(Refuses)
<1>1. Refuses \in Seq(Items)
  BY TickBounds DEF Refuses, Items, Outputs, On, Off, Wait
<1>2. Paired(Refuses)
  BY DEF Refuses, Paired, IsOn, On, Off, Wait
<1> QED BY <1>1, <1>2 DEF Well

LEMMA WellFeatures == Well(Features)
<1>1. Features \in Seq(Items)
  BY DEF Features, Items, Outputs, On, Off
<1>2. Paired(Features)
  BY DEF Features, Paired, IsOn, On, Off
<1> QED BY <1>1, <1>2 DEF Well

LEMMA WellRests == Well(Rests)
<1>1. Rests \in Seq(Items)
  BY TickBounds DEF Rests, Items, Outputs, Off, Wait
<1>2. Paired(Rests)
  BY DEF Rests, Paired, IsOn, Off, Wait
<1> QED BY <1>1, <1>2 DEF Well

Blue == <<On("beep"), On("blue"), Wait(Tenth), Off("beep"), Wait(Tenth), Off("blue")>>
LEMMA WellBlue == Well(Blue)
<1>1. Blue \in Seq(Items)
  BY TickBounds DEF Blue, Items, Outputs, On, Off, Wait
<1>2. Paired(Blue)
  BY DEF Blue, Paired, IsOn, On, Off, Wait
<1> QED BY <1>1, <1>2 DEF Well

\* The features verify_FR gives up at leave the beeper on, and nothing else.
LEMMA WellGivesUp == Well(GivesUp)
<1>1. GivesUp \in Seq(Items)
  BY DEF GivesUp, Items, Outputs, On
<1>2. Paired(GivesUp)
  BY DEF GivesUp, Paired, IsOn, On
<1> QED BY <1>1, <1>2 DEF Well

\* So does everything a thread may start.
LEMMA WellWorks == ASSUME NEW t \in Threads, NEW work \in Works[t] PROVE Well(work)
<1>1. ASSUME NEW w \in Presses PROVE Well(w)
  <2>1. Well(Features \o Rests)
    BY WellFeatures, WellRests, WellConcat
  <2>2. Well(Features \o Opens \o Rests)
    BY WellFeatures, WellOpens, WellRests, WellConcat
  <2>3. Well(Features \o Refuses \o Rests)
    BY WellFeatures, WellRefuses, WellRests, WellConcat
  <2> QED BY <2>1, <2>2, <2>3 DEF Presses
<1>2. Well(Known)
  BY WellFeatures, WellBlue, WellConcat DEF Known, Blue
<1>3. Well(Enrols)
  BY WellFeatures, WellWait, TickBounds, WellConcat DEF Enrols
<1>4. ASSUME NEW w \in Verifies PROVE Well(w)
  BY <1>2, <1>3, WellRests, WellFeatures, WellGivesUp, WellConcat DEF Verifies
<1> QED BY <1>1, <1>3, <1>4, WellOpens, WellRefuses DEF Works, Threads

-----------------------------------------------------------------------------
\* A tick keeps the items behind the delay, and the delay above zero.
LEMMA WellSlept ==
    ASSUME NEW work, Well(work), work # <<>>, Head(work).op = "wait"
    PROVE  Well(Slept(work))
<1>1. Head(work) \in Items /\ Head(work).n \in 1..(Second + Tenth)
  <2>1. Head(work) \in Items
    BY DEF Well
  <2> QED BY <2>1, ItemCases
<1>2. CASE Head(work).n = 1
  BY <1>2, WellTail DEF Slept
<1>3. CASE Head(work).n # 1
  <2>1. Head(work).n - 1 \in 1..(Second + Tenth)
    BY <1>1, <1>3, TicksAssumption
  <2> QED BY <1>3, <2>1, WellWait, WellTail, WellConcat DEF Slept
<1> QED BY <1>2, <1>3

\* ... and every off among them.
LEMMA SleptKeepsOff ==
    ASSUME NEW work, Well(work), work # <<>>, Head(work).op = "wait", NEW o \in Outputs,
           NEW k \in 1..Len(work), work[k] = Off(o)
    PROVE  \E j \in 1..Len(Slept(work)) : Slept(work)[j] = Off(o)
<1>1. /\ work \in Seq(Items) /\ Len(work) \in Nat /\ k # 1
      /\ Tail(work) \in Seq(Items) /\ Len(Tail(work)) = Len(work) - 1
      /\ Tail(work)[k - 1] = Off(o) /\ k - 1 \in 1..Len(Tail(work))
  BY DEF Well, Off
<1>2. CASE Head(work).n = 1
  BY <1>1, <1>2 DEF Slept
<1>3. CASE Head(work).n # 1
  <2> DEFINE w == <<Wait(Head(work).n - 1)>>
  <2>1. Slept(work) = w \o Tail(work)
    BY <1>3 DEF Slept
  <2>2. /\ Len(w \o Tail(work)) = 1 + Len(Tail(work))
        /\ (w \o Tail(work))[1 + (k - 1)] = Tail(work)[k - 1]
    BY <1>1
  <2>3. k \in 1..Len(Slept(work)) /\ Slept(work)[k] = Off(o)
    BY <1>1, <2>1, <2>2
  <2> QED BY <2>3
<1> QED BY <1>2, <1>3

-----------------------------------------------------------------------------
LEMMA DoorInit == Init => DoorInv
  BY DEF Init, DoorInv, NeverLeftOn, Paired, Items

LEMMA DoorStep == DoorInv /\ [Next]_vars => DoorInv'
<1> SUFFICES ASSUME DoorInv, [Next]_vars PROVE DoorInv'
  OBVIOUS
<1> USE DEF DoorInv
<1>w. \A t \in Threads : Well(todo[t])
  BY DEF Well
<1>1. ASSUME NEW t \in Threads, Start(t) PROVE DoorInv'
  <2>1. PICK work \in Works[t] : todo' = [todo EXCEPT ![t] = work]
    BY <1>1 DEF Start
  <2>2. Well(work)
    BY WellWorks
  <2>3. out' = out /\ todo[t] = <<>>
    BY <1>1 DEF Start
  <2>4. todo' \in [Threads -> Seq(Items)] /\ \A u \in Threads : Paired(todo'[u])
    BY <2>1, <2>2 DEF Well
  <2>5. ASSUME NEW o \in Outputs \ {"beep"}, out'[o] = 1
        PROVE  \E u \in Threads : \E k \in 1..Len(todo'[u]) : todo'[u][k] = Off(o)
    <3>1. PICK u \in Threads : \E k \in 1..Len(todo[u]) : todo[u][k] = Off(o)
      BY <2>3, <2>5 DEF NeverLeftOn, WillSwitchOff
    <3>2. u # t
      <4>1. Len(todo[t]) = 0
        BY <2>3
      <4> QED BY <3>1, <4>1
    <3> QED BY <2>1, <3>1, <3>2
  <2> QED BY <2>3, <2>4, <2>5 DEF NeverLeftOn, WillSwitchOff
<1>2. ASSUME NEW t \in Threads, Write(t) PROVE DoorInv'
  <2> DEFINE head == Head(todo[t])
  <2>1. /\ todo[t] # <<>> /\ head.op = "write"
        /\ out' = [out EXCEPT ![head.out] = head.n]
        /\ todo' = [todo EXCEPT ![t] = Tail(todo[t])]
    BY <1>2 DEF Write
  <2>2. /\ todo[t] \in Seq(Items) /\ Len(todo[t]) \in Nat \ {0}
        /\ head = todo[t][1] /\ head \in Items
        /\ Len(Tail(todo[t])) = Len(todo[t]) - 1
        /\ \A k \in 1..(Len(todo[t]) - 1) : Tail(todo[t])[k] = todo[t][k + 1]
    BY <2>1
  <2>3. head.out \in Outputs /\ head.n \in {0, 1}
        /\ (head = On(head.out) \/ head = Off(head.out))
    BY <2>1, <2>2, ItemCases
  <2>4. Well(Tail(todo[t]))
    BY <1>w, <2>1, WellTail
  <2>5. /\ out' \in [Outputs -> {0, 1}]
        /\ todo' \in [Threads -> Seq(Items)] /\ \A u \in Threads : Paired(todo'[u])
    BY <2>1, <2>3, <2>4 DEF Well
  <2>6. ASSUME NEW o \in Outputs \ {"beep"}, out'[o] = 1
        PROVE  \E u \in Threads : \E k \in 1..Len(todo'[u]) : todo'[u][k] = Off(o)
    <3>1. CASE o = head.out
      <4>1. IsOn(todo[t][1])
        BY <2>1, <2>2, <2>3, <2>6, <3>1 DEF IsOn
      <4>2. PICK j \in 1..Len(todo[t]) : j > 1 /\ todo[t][j] = Off(todo[t][1].out)
        BY <2>2, <4>1 DEF Paired
      <4>3. j - 1 \in 1..Len(Tail(todo[t])) /\ Tail(todo[t])[j - 1] = Off(o)
        BY <2>2, <3>1, <4>2
      <4> QED BY <2>1, <4>3
    <3>2. CASE o # head.out
      <4>1. out[o] = 1
        BY <2>1, <2>6, <3>2
      <4>2. PICK u \in Threads : \E k \in 1..Len(todo[u]) : todo[u][k] = Off(o)
        BY <4>1 DEF NeverLeftOn, WillSwitchOff
      <4>3. CASE u = t
        <5>0. PICK k \in 1..Len(todo[t]) : todo[t][k] = Off(o)
          BY <4>2, <4>3
        <5>1. k # 1
          BY <2>2, <2>3, <3>2, <5>0 DEF Off, On
        <5>2. k - 1 \in 1..Len(Tail(todo[t])) /\ Tail(todo[t])[k - 1] = Off(o)
          BY <2>2, <5>0, <5>1
        <5> QED BY <2>1, <4>3, <5>2
      <4>4. CASE u # t
        BY <2>1, <4>2, <4>4
      <4> QED BY <4>3, <4>4
    <3> QED BY <3>1, <3>2
  <2> QED BY <2>5, <2>6 DEF NeverLeftOn, WillSwitchOff
<1>3. ASSUME Tick PROVE DoorInv'
  <2>1. out' = out /\ todo' = [t \in Threads |-> IF Sleeps(t) THEN Slept(todo[t]) ELSE todo[t]]
    BY <1>3 DEF Tick
  <2>2. \A t \in Threads : Sleeps(t) => Well(Slept(todo[t]))
    BY <1>w, WellSlept DEF Sleeps
  <2>3. todo' \in [Threads -> Seq(Items)] /\ \A u \in Threads : Paired(todo'[u])
    BY <2>1, <2>2 DEF Well
  <2>4. ASSUME NEW o \in Outputs \ {"beep"}, out'[o] = 1
        PROVE  \E u \in Threads : \E k \in 1..Len(todo'[u]) : todo'[u][k] = Off(o)
    <3>1. PICK u \in Threads : \E k \in 1..Len(todo[u]) : todo[u][k] = Off(o)
      BY <2>1, <2>4 DEF NeverLeftOn, WillSwitchOff
    <3>2. CASE Sleeps(u)
      <4>1. PICK k \in 1..Len(todo[u]) : todo[u][k] = Off(o)
        BY <3>1
      <4>2. \E j \in 1..Len(Slept(todo[u])) : Slept(todo[u])[j] = Off(o)
        BY <1>w, <3>2, <4>1, SleptKeepsOff DEF Sleeps
      <4> QED BY <2>1, <3>2, <4>2
    <3>3. CASE ~Sleeps(u)
      BY <2>1, <3>1, <3>3
    <3> QED BY <3>2, <3>3
  <2> QED BY <2>1, <2>3, <2>4 DEF NeverLeftOn, WillSwitchOff
<1>4. CASE UNCHANGED vars
  BY <1>4 DEF vars, NeverLeftOn, WillSwitchOff
<1> QED BY <1>1, <1>2, <1>3, <1>4 DEF Next

LEMMA DoorAlways == Spec => []DoorInv
  BY DoorInit, DoorStep, PTL DEF Spec

-----------------------------------------------------------------------------
\* The outputs are on or off and no delay runs below zero, for delays of any
\* length.
THEOREM TypeCorrect == Spec => []TypeOK
<1>1. DoorInv => TypeOK
  <2> SUFFICES ASSUME DoorInv PROVE TypeOK
    OBVIOUS
  <2>1. ASSUME NEW t \in Threads, NEW k \in 1..Len(todo[t])
        PROVE  /\ todo[t][k].op \in {"write", "wait"}
               /\ todo[t][k].out \in Outputs \cup {"none"}
               /\ todo[t][k].n \in 0..(Second + Tenth)
    <3>1. todo[t][k] \in Items
      BY <2>1 DEF DoorInv
    <3> QED BY <3>1, TicksAssumption DEF Items, On, Off, Wait
  <2> QED BY <2>1 DEF DoorInv, TypeOK
<1> QED BY <1>1, DoorAlways, PTL

\* However the windows of the three threads overlap, and however long they are, the
\* relay or a LED that is on has a thread that will switch it off.
THEOREM NothingLeftOn == Spec => []NeverLeftOn
  BY DoorAlways, PTL DEF DoorInv
=============================================================================
