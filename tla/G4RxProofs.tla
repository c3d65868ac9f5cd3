----------------------------- MODULE G4RxProofs -----------------------------
(***************************************************************************)
(* Proofs about G4Rx: its variables keep their types whatever the peer     *)
(* does, and with no more frames outstanding than there are buffers a      *)
(* queued frame is never overwritten, for every number of buffers, buffer  *)
(* size, mailbox size and frame count; with more, what is found in place   *)
(* of a frame is younger, never older.                                     *)
(***************************************************************************)
EXTENDS G4Rx, SequenceTheorems, TLAPS

USE NumBufsAssumption, BufSizeAssumption, MbCapAssumption, WindowAssumption,
    MaxFramesAssumption

(***************************************************************************)
(* Operators.                                                              *)
(***************************************************************************)

\* The ring index stays in the ring; the step is one up, or from the last
\* buffer to the first (the % 3 of G4.c:591).
LEMMA NextBufRing ==
    ASSUME NEW p \in Buffers
    PROVE  /\ NextBuf(p) \in Buffers
           /\ NextBuf(p) = IF p + 1 = NumBufs THEN 0 ELSE p + 1
  BY DEF NextBuf, Buffers

\* Sending keeps the mailbox a sequence of mails; with a free entry it appends.
LEMMA SendType ==
    ASSUME mail \in Seq(Mails), NEW e \in Mails
    PROVE  Send(e) \in Seq(Mails)
  BY DEF Send

(***************************************************************************)
(* Types.  The idle interrupt announces a frame only after its first byte, *)
(* and the handler holds a mail whenever it decodes.                       *)
(***************************************************************************)
TypeInv == /\ TypeOK
           /\ getnum > 0 => sent > 0
           /\ pc = "decode" => held \in Mails

LEMMA TypeInit == Init => TypeInv
  BY DEF Init, TypeInv, TypeOK, Buffers, NoMail

LEMMA TypeStep == TypeInv /\ [Next]_vars => TypeInv'
<1> SUFFICES ASSUME TypeInv, [Next]_vars PROVE TypeInv'
  OBVIOUS
<1> USE DEF TypeInv, TypeOK
<1>1. CASE RxFirst
  <2>1. NextBuf(G4_GET_POINT) \in Buffers
    BY NextBufRing
  <2>2. data' \in [Buffers -> [1..BufSize -> 0..MaxFrames]]
    BY <1>1, <2>1 DEF RxFirst
  <2> QED BY <1>1, <2>1, <2>2 DEF RxFirst, handlerVars
<1>2. CASE RxByte
  BY <1>2 DEF RxByte, handlerVars
<1>3. CASE RxIdle
  <2> DEFINE e == [buf |-> G4_GET_POINT, id |-> sent, len |-> getnum]
  <2>1. e \in Mails
    BY <1>3 DEF RxIdle, Mails, FrameIds
  <2>2. mail' \in Seq(Mails)
    BY <1>3, <2>1, SendType DEF RxIdle
  <2> QED BY <1>3, <2>2 DEF RxIdle, handlerVars
<1>4. CASE Recv
  <2>1. Head(mail) \in Mails /\ Tail(mail) \in Seq(Mails)
    BY <1>4 DEF Recv
  <2>2. num[Head(mail).buf] \in 0..BufSize
    BY <2>1 DEF Mails
  <2> QED BY <1>4, <2>1, <2>2 DEF Recv, isrVars
<1>5. CASE Decode
  BY <1>5 DEF Decode, isrVars
<1>6. CASE Act
  BY <1>6 DEF Act, isrVars
<1>7. CASE UNCHANGED vars
  BY <1>7 DEF vars, isrVars, handlerVars
<1> QED BY <1>1, <1>2, <1>3, <1>4, <1>5, <1>6, <1>7 DEF Next, Isr, Handler

\* The types hold for every window: an overrun corrupts frames, never an index,
\* a length or the mailbox.
THEOREM TypeCorrect == Spec => []TypeOK
<1>1. TypeInv => TypeOK
  BY DEF TypeInv
<1> QED BY <1>1, TypeInit, TypeStep, PTL DEF Spec

-----------------------------------------------------------------------------
(***************************************************************************)
(* No overwriting.  The mails in use point to consecutive buffers of the   *)
(* ring, counted backwards from the buffer filled last; there are at most  *)
(* Window of them with the one being filled, so with Window <= NumBufs     *)
(* they are different buffers and the next one is free.                    *)
(***************************************************************************)

\* The buffer k places behind the one filled last.
Back(k) == IF G4_GET_POINT >= k THEN G4_GET_POINT - k
                                ELSE G4_GET_POINT - k + NumBufs

\* 1 while a frame is being received.
Filling == IF getnum = 0 THEN 0 ELSE 1

Bound  == InUse + Filling <= Window
Placed == /\ \A k \in 1..Len(mail) : mail[k].buf = Back(Len(mail) - k + Filling)
          /\ pc = "decode" => held.buf = Back(Len(mail) + Filling)
Filled == \A i \in 1..getnum : data[G4_GET_POINT][i] = sent

RingInv == TypeInv /\ Bound /\ Placed /\ Filled /\ NoOverwrite

\* A mail in use is behind the buffer the interrupt will fill next, and not the
\* buffer being filled.
LEMMA BackDistinct ==
    ASSUME TypeOK, NEW k \in Nat, k < NumBufs
    PROVE  /\ Back(k) \in Buffers
           /\ k > 0 => Back(k) # G4_GET_POINT
           /\ k + 1 < NumBufs => Back(k) # NextBuf(G4_GET_POINT)
<1>1. G4_GET_POINT \in Buffers
  BY DEF TypeOK
<1>2. NextBuf(G4_GET_POINT) = IF G4_GET_POINT + 1 = NumBufs THEN 0 ELSE G4_GET_POINT + 1
  BY <1>1, NextBufRing
<1> QED BY <1>1, <1>2 DEF Back, Buffers

\* Moving to the next buffer puts every buffer one place further behind.
LEMMA BackShift ==
    ASSUME TypeOK, NEW k \in Nat, k < NumBufs,
           G4_GET_POINT' = NextBuf(G4_GET_POINT)
    PROVE  (IF G4_GET_POINT' >= k + 1 THEN G4_GET_POINT' - (k + 1)
                                      ELSE G4_GET_POINT' - (k + 1) + NumBufs) = Back(k)
<1>1. G4_GET_POINT \in Buffers
  BY DEF TypeOK
<1>2. NextBuf(G4_GET_POINT) = IF G4_GET_POINT + 1 = NumBufs THEN 0 ELSE G4_GET_POINT + 1
  BY <1>1, NextBufRing
<1> QED BY <1>1, <1>2 DEF Back, Buffers

\* The buffers in use, while a frame is received: none of them is being filled.
LEMMA InUseNotFilled ==
    ASSUME TypeInv, Bound, Placed, Window <= NumBufs, getnum > 0
    PROVE  /\ \A k \in 1..Len(mail) : mail[k].buf \in Buffers \ {G4_GET_POINT}
           /\ pc = "decode" => held.buf \in Buffers \ {G4_GET_POINT}
<1>1. /\ Len(mail) \in Nat /\ Filling = 1 /\ TypeOK
      /\ Len(mail) < NumBufs
      /\ pc = "decode" => Len(mail) + 1 < NumBufs
  <2>1. TypeOK /\ Len(mail) \in Nat /\ Filling = 1
    BY DEF TypeInv, TypeOK, Filling
  <2> QED BY <2>1 DEF Bound, InUse
<1>2. ASSUME NEW k \in 1..Len(mail) PROVE mail[k].buf \in Buffers \ {G4_GET_POINT}
  <2> DEFINE j == Len(mail) - k + 1
  <2>1. mail[k].buf = Back(j)
    BY <1>1 DEF Placed
  <2>2. j \in Nat /\ j < NumBufs /\ j > 0
    BY <1>1
  <2> HIDE DEF j
  <2> QED BY <2>1, <2>2, <1>1, BackDistinct
<1>3. ASSUME pc = "decode" PROVE held.buf \in Buffers \ {G4_GET_POINT}
  <2> DEFINE j == Len(mail) + 1
  <2>1. held.buf = Back(j)
    BY <1>1, <1>3 DEF Placed
  <2>2. j \in Nat /\ j < NumBufs /\ j > 0
    BY <1>1, <1>3
  <2> HIDE DEF j
  <2> QED BY <2>1, <2>2, <1>1, BackDistinct
<1> QED BY <1>2, <1>3

\* The buffers in use, before a new frame: none of them is the next.
LEMMA InUseNotNext ==
    ASSUME TypeInv, Placed, Window <= NumBufs, getnum = 0, InUse < Window
    PROVE  /\ \A k \in 1..Len(mail) :
                  mail[k].buf \in Buffers \ {NextBuf(G4_GET_POINT)}
           /\ pc = "decode" => held.buf \in Buffers \ {NextBuf(G4_GET_POINT)}
<1>0. Len(mail) \in Nat /\ Filling = 0 /\ TypeOK
  BY DEF TypeInv, TypeOK, Filling
<1>1. /\ Len(mail) \in Nat /\ Filling = 0 /\ TypeOK
      /\ Len(mail) < NumBufs
      /\ pc = "decode" => Len(mail) + 1 < NumBufs
  BY <1>0, NumBufsAssumption, WindowAssumption DEF InUse
<1>2. ASSUME NEW k \in 1..Len(mail)
      PROVE  mail[k].buf \in Buffers \ {NextBuf(G4_GET_POINT)}
  <2> DEFINE j == Len(mail) - k
  <2>1. mail[k].buf = Back(j)
    <3>1. Len(mail) - k + 0 = Len(mail) - k
      BY <1>1
    <3> QED BY <1>1, <3>1 DEF Placed
  <2>2. j \in Nat /\ j + 1 < NumBufs
    BY <1>1
  <2> HIDE DEF j
  <2> QED BY <2>1, <2>2, <1>1, BackDistinct
<1>3. ASSUME pc = "decode" PROVE held.buf \in Buffers \ {NextBuf(G4_GET_POINT)}
  <2>1. held.buf = Back(Len(mail))
    <3>1. Len(mail) + 0 = Len(mail)
      BY <1>1
    <3> QED BY <1>1, <1>3, <3>1 DEF Placed
  <2> QED BY <2>1, <1>1, <1>3, BackDistinct
<1> QED BY <1>2, <1>3

LEMMA RingInit == Init => RingInv
  BY TypeInit DEF Init, RingInv, Bound, Placed, Filled, NoOverwrite, InUse, Filling

LEMMA RingStep == 
    ASSUME Window <= NumBufs, Window <= MbCap
    PROVE  RingInv /\ [Next]_vars => RingInv'
<1> SUFFICES ASSUME RingInv, [Next]_vars PROVE RingInv'
  OBVIOUS
<1>0. TypeOK /\ TypeInv /\ TypeInv'
  BY TypeStep DEF RingInv, TypeInv
<1>t. /\ G4_GET_POINT \in Buffers
      /\ getnum \in 0..BufSize
      /\ num \in [Buffers -> 0..BufSize]
      /\ data \in [Buffers -> [1..BufSize -> 0..MaxFrames]]
      /\ sent \in 0..MaxFrames
      /\ mail \in Seq(Mails)
      /\ \A k \in 1..Len(mail) : mail[k] \in Mails
      /\ Len(mail) \in Nat
      /\ pc = "decode" => held \in Mails
  <2>1. mail \in Seq(Mails)
    BY <1>0 DEF TypeOK
  <2>2. Len(mail) \in Nat /\ \A k \in 1..Len(mail) : mail[k] \in Mails
    BY <2>1
  <2> QED BY <2>1, <2>2, <1>0 DEF TypeOK, TypeInv
<1>i. Bound /\ Placed /\ Filled /\ NoOverwrite
  BY DEF RingInv
<1>1. CASE RxFirst
  <2>1. /\ InUse < Window /\ Filling = 0 /\ getnum' = 1
        /\ G4_GET_POINT' = NextBuf(G4_GET_POINT)
        /\ UNCHANGED <<num, mail, pc, held, reclen>>
    BY <1>1 DEF RxFirst, Filling, handlerVars
  <2>2. Bound'
    BY <2>1, <1>t DEF Bound, InUse, Filling
  <2>3. \A k \in 1..Len(mail) : Len(mail) - k \in Nat /\ Len(mail) - k + 1 < NumBufs
    BY <2>1, <1>t DEF InUse
  <2>4. pc = "decode" => Len(mail) + 1 < NumBufs
    BY <2>1, <1>t DEF InUse
  <2>5. Placed'
    <3>1. ASSUME NEW k \in 1..Len(mail)
          PROVE  mail'[k].buf = Back(Len(mail) - k + Filling)'
      BY <3>1, <2>1, <2>3, <1>0, <1>i, <1>t, BackShift DEF Placed, Back, Filling
    <3>2. pc = "decode" => held'.buf = Back(Len(mail) + Filling)'
      BY <2>1, <2>4, <1>0, <1>i, <1>t, BackShift DEF Placed, Back, Filling
    <3> QED BY <3>1, <3>2, <2>1 DEF Placed
  <2>6. \A b \in Buffers : b # NextBuf(G4_GET_POINT) => data'[b] = data[b]
    BY <1>1, <1>t DEF RxFirst
  <2>5a. /\ \A k \in 1..Len(mail) : mail[k].buf \in Buffers \ {NextBuf(G4_GET_POINT)}
         /\ pc = "decode" => held.buf \in Buffers \ {NextBuf(G4_GET_POINT)}
    BY <1>1, <2>1, <1>0, <1>i, InUseNotNext DEF RxFirst
  <2>7. ASSUME NEW k \in 1..Len(mail) PROVE Intact(mail[k])'
    BY <2>1, <2>6, <2>5a, <1>i DEF NoOverwrite, Intact
  <2>8. pc = "decode" => Intact(held)' /\ reclen = held.len
    BY <2>1, <2>6, <2>5a, <1>i DEF NoOverwrite, Intact
  <2>9. Filled'
    <3>1. NextBuf(G4_GET_POINT) \in Buffers
      BY <1>t, NextBufRing
    <3> QED BY <3>1, <1>1, <1>t DEF RxFirst, Filled
  <2> QED BY <1>0, <2>1, <2>2, <2>5, <2>7, <2>8, <2>9 DEF RingInv, NoOverwrite
<1>2. CASE RxByte
  <2>1. /\ Filling = 1 /\ Filling' = 1 /\ getnum' = getnum + 1
        /\ UNCHANGED <<G4_GET_POINT, num, sent, mail, pc, held, reclen>>
        /\ data' = [data EXCEPT ![G4_GET_POINT][getnum + 1] = sent]
        /\ getnum + 1 \in 1..BufSize
    BY <1>2, <1>t DEF RxByte, Filling, handlerVars
  <2>2. Bound' /\ Placed'
    BY <2>1, <1>i DEF Bound, InUse, Placed, Back
  <2>3. \A b \in Buffers : b # G4_GET_POINT => data'[b] = data[b]
    BY <2>1, <1>t
  <2>n. /\ \A k \in 1..Len(mail) : mail[k].buf \in Buffers \ {G4_GET_POINT}
        /\ pc = "decode" => held.buf \in Buffers \ {G4_GET_POINT}
    BY <1>2, <1>0, <1>i, <1>t, InUseNotFilled DEF RxByte
  <2>4. ASSUME NEW k \in 1..Len(mail) PROVE Intact(mail[k])'
    BY <2>n, <2>1, <2>3, <1>i DEF NoOverwrite, Intact
  <2>5. pc = "decode" => Intact(held)' /\ reclen = held.len
    BY <2>n, <2>1, <2>3, <1>i DEF NoOverwrite, Intact
  <2>6. Filled'
    BY <2>1, <1>i, <1>t DEF Filled
  <2> QED BY <1>0, <2>1, <2>2, <2>4, <2>5, <2>6 DEF RingInv, NoOverwrite
<1>3. CASE RxIdle
  <2> DEFINE e == [buf |-> G4_GET_POINT, id |-> sent, len |-> getnum]
  <2>1. /\ Filling = 1 /\ Filling' = 0 /\ getnum' = 0 /\ getnum > 0
        /\ num' = [num EXCEPT ![G4_GET_POINT] = getnum]
        /\ UNCHANGED <<G4_GET_POINT, data, sent, pc, held, reclen>>
    BY <1>3, <1>t DEF RxIdle, Filling, handlerVars
  <2>2. mail' = Append(mail, e)
    <3>1. Len(mail) < MbCap
      BY <2>1, <1>i, <1>t DEF Bound, InUse
    <3> QED BY <3>1, <1>3 DEF RxIdle, Send
  <2>3. /\ Len(mail') = Len(mail) + 1
        /\ \A k \in 1..Len(mail) : mail'[k] = mail[k]
        /\ mail'[Len(mail) + 1] = e
    BY <2>2, <1>t
  <2>4. Bound'
    BY <2>1, <2>3, <1>i, <1>t DEF Bound, InUse
  <2>5. Placed'
    <3>1. ASSUME NEW k \in 1..Len(mail)
          PROVE  mail'[k].buf = Back(Len(mail) - k + Filling)'
      <4>1. Len(mail') - k + Filling' = Len(mail) - k + Filling
        BY <2>1, <2>3, <1>t
      <4> QED BY <4>1, <2>1, <2>3, <1>i DEF Placed, Back
    <3>2. mail'[Len(mail) + 1].buf = Back(0)'
      BY <2>1, <2>3, <1>t DEF Back, Buffers
    <3>3. pc = "decode" => held'.buf = Back(Len(mail) + Filling)'
      <4>1. Len(mail') + Filling' = Len(mail) + Filling
        BY <2>1, <2>3, <1>t
      <4> QED BY <4>1, <2>1, <1>i DEF Placed, Back
    <3>4. \A k \in 1..Len(mail') : k \in 1..Len(mail) \/ k = Len(mail) + 1
      BY <2>3, <1>t
    <3>5. ASSUME NEW k \in 1..Len(mail')
          PROVE  mail'[k].buf = Back(Len(mail) - k + Filling)'
      <4>1. CASE k \in 1..Len(mail)
        BY <3>1, <4>1
      <4>2. CASE k = Len(mail) + 1
        <5>1. Len(mail') - k + Filling' = 0
          BY <4>2, <2>1, <2>3, <1>t
        <5> QED BY <5>1, <4>2, <3>2 DEF Back
      <4> QED BY <3>4, <4>1, <4>2
    <3> QED BY <3>3, <3>5, <2>1 DEF Placed
  <2>6. \A b \in Buffers : b # G4_GET_POINT => num'[b] = num[b]
    BY <2>1, <1>t
  <2>n. /\ \A k \in 1..Len(mail) : mail[k].buf \in Buffers \ {G4_GET_POINT}
        /\ pc = "decode" => held.buf \in Buffers \ {G4_GET_POINT}
    BY <1>3, <1>0, <1>i, <1>t, InUseNotFilled DEF RxIdle
  <2>7. ASSUME NEW k \in 1..Len(mail) PROVE Intact(mail[k])'
    BY <2>n, <2>1, <2>3, <2>6, <1>i DEF NoOverwrite, Intact
  <2>8. num'[e.buf] = e.len /\ \A i \in 1..e.len : data'[e.buf][i] = e.id
    BY <2>1, <1>i, <1>t DEF Filled
  <2>9. pc = "decode" => Intact(held)' /\ reclen = held.len
    BY <2>n, <2>1, <2>6, <1>i DEF NoOverwrite, Intact
  <2>10. NoOverwrite'
    <3>1. \A k \in 1..Len(mail') : k \in 1..Len(mail) \/ k = Len(mail) + 1
      BY <2>3, <1>t
    <3>2. ASSUME NEW k \in 1..Len(mail') PROVE Intact(mail[k])'
      <4>1. CASE k \in 1..Len(mail)
        BY <4>1, <2>3, <2>7 DEF Intact
      <4>2. CASE k = Len(mail) + 1
        BY <4>2, <2>3, <2>8 DEF Intact
      <4> QED BY <3>1, <4>1, <4>2
    <3> QED BY <3>2, <2>1, <2>9 DEF NoOverwrite
  <2>11. Filled'
    BY <2>1 DEF Filled
  <2> QED BY <1>0, <2>4, <2>5, <2>10, <2>11 DEF RingInv
<1>4. CASE Recv
  <2>1. /\ mail # <<>> /\ pc = "recv" /\ pc' = "decode"
        /\ held' = mail[1] /\ mail' = Tail(mail)
        /\ reclen' = num[mail[1].buf]
        /\ UNCHANGED <<G4_GET_POINT, getnum, num, data, sent>>
    BY <1>4, <1>t DEF Recv, isrVars
  <2>2. /\ Len(mail) > 0 /\ Len(mail') = Len(mail) - 1
        /\ \A k \in 1..Len(mail') : mail'[k] = mail[k + 1] /\ k + 1 \in 1..Len(mail)
    BY <2>1, <1>t
  <2>3. Bound'
    BY <2>1, <2>2, <1>i, <1>t DEF Bound, InUse, Filling
  <2>4. Placed'
    <3>1. ASSUME NEW k \in 1..Len(mail')
          PROVE  mail'[k].buf = Back(Len(mail) - k + Filling)'
      <4>1. Len(mail') - k + Filling' = Len(mail) - (k + 1) + Filling
        BY <2>1, <2>2, <1>t DEF Filling
      <4> QED BY <4>1, <2>1, <2>2, <1>i DEF Placed, Back
    <3>2. held'.buf = Back(Len(mail) + Filling)'
      <4>1. Len(mail') + Filling' = Len(mail) - 1 + Filling /\ 1 \in 1..Len(mail)
        BY <2>1, <2>2, <1>t DEF Filling
      <4> QED BY <4>1, <2>1, <1>i DEF Placed, Back
    <3> QED BY <3>1, <3>2 DEF Placed
  <2>5. NoOverwrite'
    BY <2>1, <2>2, <1>i, <1>t DEF NoOverwrite, Intact
  <2>6. Filled'
    BY <2>1, <1>i DEF Filled
  <2> QED BY <1>0, <2>3, <2>4, <2>5, <2>6 DEF RingInv
<1>5. CASE Decode
  <2>1. /\ pc = "decode" /\ pc' = "act"
        /\ UNCHANGED <<G4_GET_POINT, getnum, num, data, sent, mail, held, reclen>>
    BY <1>5 DEF Decode, isrVars
  <2> QED BY <2>1, <1>0, <1>i, <1>t
         DEF RingInv, Bound, InUse, Filling, Placed, Back, Filled, NoOverwrite, Intact
<1>6. CASE Act
  <2>1. /\ pc = "act" /\ pc' = "recv"
        /\ UNCHANGED <<G4_GET_POINT, getnum, num, data, sent, mail, held, reclen>>
    BY <1>6 DEF Act, isrVars
  <2> QED BY <2>1, <1>0, <1>i, <1>t
         DEF RingInv, Bound, InUse, Filling, Placed, Back, Filled, NoOverwrite, Intact
<1>7. CASE UNCHANGED vars
  BY <1>7, <1>0, <1>i DEF RingInv, Bound, InUse, Filling, Placed, Back, Filled,
     NoOverwrite, Intact, vars, isrVars, handlerVars
<1> QED BY <1>1, <1>2, <1>3, <1>4, <1>5, <1>6, <1>7 DEF Next, Isr, Handler

\* While the peer leaves at most NumBufs frames undecoded (and the mailbox is at
\* least that long), no frame is overwritten before it is decoded: what G4.c:588
\* says of its three buffers, under the assumption that makes it true.
THEOREM FramesKept ==
    ASSUME Window <= NumBufs, Window <= MbCap
    PROVE  Spec => []NoOverwrite
<1>1. RingInv => NoOverwrite
  BY DEF RingInv
<1>2. RingInv /\ [Next]_vars => RingInv'
  BY RingStep
<1> QED BY <1>1, <1>2, RingInit, PTL DEF Spec

-----------------------------------------------------------------------------
(***************************************************************************)
(* Refinement.  The idle interrupt is the arrival of a frame and the       *)
(* decoding its delivery; every other step changes nothing a client of the *)
(* channel can see.                                                        *)
(***************************************************************************)

\* A function on 1..n is a sequence of length n.
LEMMA FunctionIsSeq ==
    ASSUME NEW S, NEW n \in Nat, NEW f \in [1..n -> S]
    PROVE  f \in Seq(S) /\ Len(f) = n
<1> DEFINE Lists == {[1..m -> S] : m \in Nat}
<1>1. [1..n -> S] \in Lists
  OBVIOUS
<1>2. f \in UNION Lists
  BY <1>1, Zenon
<1>3. f \in Seq(S)
  BY <1>2, SeqDef
<1>4. Len(f) \in Nat /\ DOMAIN f = 1..Len(f)
  BY <1>3
<1> QED BY <1>3, <1>4

LEMMA FramesOfType ==
    ASSUME NEW q \in Seq(Mails)
    PROVE  /\ FramesOf(q) \in Seq([id : FrameIds, len : 1..BufSize])
           /\ Len(FramesOf(q)) = Len(q)
           /\ \A k \in 1..Len(q) : FramesOf(q)[k] = [id |-> q[k].id, len |-> q[k].len]
<1>1. Len(q) \in Nat /\ \A k \in 1..Len(q) : q[k] \in Mails
  OBVIOUS
<1>2. FramesOf(q) \in [1..Len(q) -> [id : FrameIds, len : 1..BufSize]]
  BY <1>1 DEF FramesOf, Mails
<1>3. FramesOf(q) \in Seq([id : FrameIds, len : 1..BufSize])
  BY <1>1, <1>2, FunctionIsSeq
<1>4. Len(FramesOf(q)) = Len(q)
  BY <1>1, <1>2, FunctionIsSeq
<1> QED BY <1>3, <1>4 DEF FramesOf

LEMMA FramesOfAppend ==
    ASSUME NEW q \in Seq(Mails), NEW e \in Mails
    PROVE  FramesOf(Append(q, e)) = Append(FramesOf(q), [id |-> e.id, len |-> e.len])
<1> DEFINE f == [id |-> e.id, len |-> e.len]
           s == Append(q, e)
<1>1. /\ s \in Seq(Mails) /\ Len(s) = Len(q) + 1 /\ s[Len(q) + 1] = e
      /\ \A k \in 1..Len(q) : s[k] = q[k]
  OBVIOUS
<1>2. f \in [id : FrameIds, len : 1..BufSize]
  BY DEF Mails
<1> HIDE DEF s, f
<1>3. /\ FramesOf(s) \in Seq([id : FrameIds, len : 1..BufSize])
      /\ Len(FramesOf(s)) = Len(q) + 1
      /\ \A k \in 1..Len(s) : FramesOf(s)[k] = [id |-> s[k].id, len |-> s[k].len]
  BY <1>1, FramesOfType
<1>t. /\ FramesOf(q) \in Seq([id : FrameIds, len : 1..BufSize])
      /\ Len(FramesOf(q)) = Len(q)
      /\ \A k \in 1..Len(q) : FramesOf(q)[k] = [id |-> q[k].id, len |-> q[k].len]
  BY FramesOfType
<1>a. /\ Append(FramesOf(q), f) \in Seq([id : FrameIds, len : 1..BufSize])
      /\ Len(Append(FramesOf(q), f)) = Len(q) + 1
      /\ \A k \in 1..Len(q) : Append(FramesOf(q), f)[k] = FramesOf(q)[k]
      /\ Append(FramesOf(q), f)[Len(q) + 1] = f
  BY <1>2, <1>t
<1>4. ASSUME NEW k \in 1..Len(q) PROVE FramesOf(s)[k] = Append(FramesOf(q), f)[k]
  <2>1. k \in 1..Len(s) /\ s[k] = q[k]
    BY <1>1
  <2> QED BY <2>1, <1>3, <1>t, <1>a
<1>5. FramesOf(s)[Len(q) + 1] = Append(FramesOf(q), f)[Len(q) + 1]
  BY <1>1, <1>3, <1>a DEF f
<1>6. FramesOf(s) = Append(FramesOf(q), f)
  BY <1>3, <1>4, <1>5, <1>a
<1> QED BY <1>6 DEF s, f

LEMMA FramesOfCons ==
    ASSUME NEW q \in Seq(Mails), NEW e \in Mails
    PROVE  /\ FramesOf(<<e>> \o q) # <<>>
           /\ Head(FramesOf(<<e>> \o q)) = [id |-> e.id, len |-> e.len]
           /\ Tail(FramesOf(<<e>> \o q)) = FramesOf(q)
<1> DEFINE r == <<e>> \o q
<1>1. /\ r \in Seq(Mails) /\ Len(r) = Len(q) + 1 /\ r[1] = e
      /\ \A k \in 1..Len(q) : r[k + 1] = q[k]
  OBVIOUS
<1> HIDE DEF r
<1>2. /\ FramesOf(r) \in Seq([id : FrameIds, len : 1..BufSize])
      /\ Len(FramesOf(r)) = Len(q) + 1
  BY <1>1, FramesOfType
<1>3. FramesOf(r)[1] = [id |-> e.id, len |-> e.len]
  BY <1>1, FramesOfType
<1>4. Tail(FramesOf(r)) = FramesOf(q)
  <2>1. /\ Tail(FramesOf(r)) \in Seq([id : FrameIds, len : 1..BufSize])
        /\ Len(Tail(FramesOf(r))) = Len(q)
        /\ \A k \in 1..Len(q) : Tail(FramesOf(r))[k] = FramesOf(r)[k + 1]
    BY <1>1, <1>2
  <2>2. \A k \in 1..Len(q) : FramesOf(r)[k + 1] = FramesOf(q)[k]
    <3>1. \A k \in 1..Len(r) : FramesOf(r)[k] = [id |-> r[k].id, len |-> r[k].len]
      BY <1>1, FramesOfType
    <3>2. \A k \in 1..Len(q) : FramesOf(q)[k] = [id |-> q[k].id, len |-> q[k].len]
      BY FramesOfType
    <3>3. ASSUME NEW k \in 1..Len(q) PROVE FramesOf(r)[k + 1] = FramesOf(q)[k]
      <4>1. k + 1 \in 1..Len(r) /\ r[k + 1] = q[k]
        BY <1>1
      <4> QED BY <4>1, <3>1, <3>2
    <3> QED BY <3>3
  <2>3. FramesOf(q) \in Seq([id : FrameIds, len : 1..BufSize]) /\ Len(FramesOf(q)) = Len(q)
    BY FramesOfType
  <2>4. ASSUME NEW k \in 1..Len(q) PROVE Tail(FramesOf(r))[k] = FramesOf(q)[k]
    BY <2>1, <2>2
  <2> DEFINE t == Tail(FramesOf(r))
             u == FramesOf(q)
  <2>5. /\ t \in Seq([id : FrameIds, len : 1..BufSize])
        /\ u \in Seq([id : FrameIds, len : 1..BufSize])
        /\ Len(t) = Len(u)
        /\ \A k \in 1..Len(t) : t[k] = u[k]
    BY <2>1, <2>3, <2>4
  <2> HIDE DEF t, u
  <2>6. t = u
    BY <2>5, SeqEqual
  <2> QED BY <2>6 DEF t, u
<1>5. FramesOf(r) # <<>> /\ Head(FramesOf(r)) = FramesOf(r)[1]
  BY <1>2
<1> QED BY <1>3, <1>4, <1>5 DEF r

LEMMA RefineInit == Init => Channel!ChannelInit
  BY DEF Init, Channel!ChannelInit, Ended, Pending, FramesOf

LEMMA RefineStep ==
    ASSUME Window <= NumBufs, Window <= MbCap
    PROVE  RingInv /\ [Next]_vars => [Channel!ChannelNext]_(Channel!abstractVars)
<1> SUFFICES ASSUME RingInv, [Next]_vars
             PROVE  Channel!ChannelNext \/ UNCHANGED Channel!abstractVars
  OBVIOUS
<1>t. /\ TypeOK /\ Bound /\ NoOverwrite /\ mail \in Seq(Mails)
      /\ getnum \in 0..BufSize /\ sent \in 0..MaxFrames
      /\ getnum > 0 => sent > 0
      /\ G4_GET_POINT \in Buffers
      /\ pc = "decode" => held \in Mails
      /\ pc \in {"recv", "decode", "act"}
  BY DEF RingInv, TypeInv, TypeOK
<1>1. CASE RxFirst
  BY <1>1, <1>t DEF RxFirst, handlerVars, Channel!abstractVars, Ended, Pending
<1>2. CASE RxByte
  BY <1>2, <1>t DEF RxByte, handlerVars, Channel!abstractVars, Ended, Pending
<1>3. CASE RxIdle
  <2> DEFINE e == [buf |-> G4_GET_POINT, id |-> sent, len |-> getnum]
             f == [id |-> sent, len |-> getnum]
  <2>1. /\ e \in Mails /\ getnum \in 1..BufSize /\ Ended = sent - 1 /\ Ended' = sent
        /\ UNCHANGED <<pc, held, got>>
    BY <1>3, <1>t DEF RxIdle, Mails, FrameIds, Ended, handlerVars
  <2>2. mail' = Append(mail, e)
    <3>1. Len(mail) < MbCap
      <4>1. Len(mail) \in Nat /\ Filling = 1
        BY <2>1, <1>t DEF Filling
      <4> QED BY <4>1, <1>t DEF Bound, InUse
    <3> QED BY <3>1, <1>3 DEF RxIdle, Send
  <2>3. Pending' = Append(Pending, f)
    <3>1. CASE pc = "decode"
      <4>1. /\ <<held>> \o mail \in Seq(Mails)
            /\ <<held>> \o Append(mail, e) = Append(<<held>> \o mail, e)
        BY <3>1, <2>1, <1>t
      <4> QED BY <4>1, <3>1, <2>1, <2>2, FramesOfAppend DEF Pending
    <3>2. CASE pc # "decode"
      BY <3>2, <2>1, <2>2, <1>t, FramesOfAppend DEF Pending
    <3> QED BY <3>1, <3>2
  <2>4. f = [id |-> Ended + 1, len |-> getnum] /\ Ended' = Ended + 1
    BY <2>1, <1>t
  <2>5. Channel!Announce(getnum)
    BY <2>1, <2>3, <2>4 DEF Channel!Announce
  <2> QED BY <2>1, <2>5 DEF Channel!ChannelNext
<1>4. CASE Recv
  <2>1. /\ pc = "recv" /\ pc' = "decode" /\ mail # <<>>
        /\ held' = Head(mail) /\ mail' = Tail(mail)
        /\ UNCHANGED <<getnum, sent, got>>
    BY <1>4 DEF Recv, isrVars
  <2>2. <<Head(mail)>> \o Tail(mail) = mail
    BY <2>1, <1>t
  <2> QED BY <2>1, <2>2 DEF Channel!abstractVars, Ended, Pending
<1>5. CASE Decode
  <2>1. /\ pc = "decode" /\ pc' = "act" /\ got' = [i \in 1..reclen |-> data[held.buf][i]]
        /\ UNCHANGED <<getnum, sent, mail>>
    BY <1>5 DEF Decode, isrVars
  <2>2. /\ Pending # <<>>
        /\ Head(Pending) = [id |-> held.id, len |-> held.len]
        /\ Pending' = Tail(Pending)
    BY <2>1, <1>t, FramesOfCons DEF Pending
  <2>3. got' = Channel!Bytes(Head(Pending))
    BY <2>1, <2>2, <1>t DEF NoOverwrite, Intact, Channel!Bytes
  <2>4. Ended' = Ended
    BY <2>1 DEF Ended
  <2> QED BY <2>2, <2>3, <2>4 DEF Channel!ChannelNext, Channel!Deliver
<1>6. CASE Act
  BY <1>6 DEF Act, isrVars, Channel!abstractVars, Ended, Pending
<1>7. CASE UNCHANGED vars
  BY <1>7 DEF vars, isrVars, handlerVars, Channel!abstractVars, Ended, Pending
<1> QED BY <1>1, <1>2, <1>3, <1>4, <1>5, <1>6, <1>7 DEF Next, Isr, Handler

\* Under the same assumption the interrupt, the ring and the mailbox together
\* are a lossless FIFO channel of whole frames.
THEOREM RxRefinesChannel ==
    ASSUME Window <= NumBufs, Window <= MbCap
    PROVE  Spec => ChannelRefinement
<1>1. RingInv /\ [Next]_vars => RingInv'
  BY RingStep
<1>2. RingInv /\ [Next]_vars => [Channel!ChannelNext]_(Channel!abstractVars)
  BY RefineStep
<1> QED BY <1>1, <1>2, RingInit, RefineInit, PTL
       DEF Spec, ChannelRefinement, Channel!ChannelSpec

-----------------------------------------------------------------------------
(***************************************************************************)
(* Overruns, with any window.  The interrupt writes the number of the      *)
(* youngest frame only, and nothing queued or held is younger than that;   *)
(* so what it writes over a frame is never older than the frame.           *)
(***************************************************************************)
AgeInv == /\ TypeInv
          /\ Filled
          /\ NeverOlder
          /\ \A k \in 1..Len(mail) : mail[k].id <= Ended
          /\ pc = "decode" => held.id <= Ended

LEMMA AgeInit == Init => AgeInv
  BY TypeInit DEF Init, AgeInv, Filled, NeverOlder

\* Writes of the youngest frame keep every frame in use at least as young.
LEMMA YoungWrites ==
    ASSUME AgeInv, TypeInv', sent <= sent', UNCHANGED <<mail, pc, held>>,
           \A b \in Buffers : \A i \in 1..BufSize :
               data'[b][i] = data[b][i] \/ data'[b][i] = sent'
    PROVE  NeverOlder'
<1>0. Ended \in Int /\ Ended <= sent /\ sent \in Nat
  <2>1. TypeInv
    BY DEF AgeInv
  <2>2. sent \in Nat
    BY <2>1 DEF TypeInv, TypeOK
  <2> QED BY <2>2 DEF Ended
<1>1. /\ sent' \in Nat /\ mail \in Seq(Mails)
      /\ pc = "decode" => held \in Mails
      /\ data \in [Buffers -> [1..BufSize -> 0..MaxFrames]]
  <2>1. TypeInv
    BY DEF AgeInv
  <2>2. sent' \in Nat
    <3>1. sent' \in 0..MaxFrames
      BY DEF TypeInv, TypeOK
    <3> QED BY <3>1
  <2>3. /\ mail \in Seq(Mails) /\ (pc = "decode" => held \in Mails)
        /\ data \in [Buffers -> [1..BufSize -> 0..MaxFrames]]
    BY <2>1 DEF TypeInv, TypeOK
  <2> QED BY <2>2, <2>3
<1>2. ASSUME NEW e \in Mails, e.id <= Ended, \A i \in 1..e.len : data[e.buf][i] >= e.id,
             NEW i \in 1..e.len
      PROVE  data'[e.buf][i] >= e.id
  <2>1. e.buf \in Buffers /\ i \in 1..BufSize /\ e.id \in Nat
    BY <1>2 DEF Mails, FrameIds
  <2>2. data'[e.buf][i] = data[e.buf][i] \/ data'[e.buf][i] = sent'
    BY <2>1
  <2>3. e.id <= sent'
    BY <1>0, <1>1, <1>2, <2>1
  <2> QED BY <1>1, <1>2, <2>1, <2>2, <2>3
<1>3. ASSUME NEW k \in 1..Len(mail), NEW i \in 1..mail[k].len
      PROVE  data'[mail[k].buf][i] >= mail[k].id
  <2>1. mail[k] \in Mails
    BY <1>1
  <2>2. mail[k].id <= Ended /\ \A j \in 1..mail[k].len : data[mail[k].buf][j] >= mail[k].id
    BY DEF AgeInv, NeverOlder
  <2> QED BY <1>2, <2>1, <2>2
<1>4. ASSUME pc = "decode", NEW i \in 1..held.len PROVE data'[held.buf][i] >= held.id
  <2>1. held \in Mails
    BY <1>1, <1>4
  <2>2. held.id <= Ended /\ \A j \in 1..held.len : data[held.buf][j] >= held.id
    BY <1>4 DEF AgeInv, NeverOlder
  <2> QED BY <1>2, <2>1, <2>2
<1> QED BY <1>3, <1>4 DEF AgeInv, NeverOlder

LEMMA AgeStep == AgeInv /\ [Next]_vars => AgeInv'
<1> SUFFICES ASSUME AgeInv, [Next]_vars PROVE AgeInv'
  OBVIOUS
<1>0. TypeOK /\ TypeInv /\ TypeInv'
  BY TypeStep DEF AgeInv, TypeInv
<1>t. /\ G4_GET_POINT \in Buffers
      /\ getnum \in 0..BufSize
      /\ data \in [Buffers -> [1..BufSize -> 0..MaxFrames]]
      /\ sent \in Nat
      /\ mail \in Seq(Mails) /\ Len(mail) \in Nat
      /\ \A k \in 1..Len(mail) : mail[k] \in Mails /\ mail[k].id \in Nat
  <2>1. mail \in Seq(Mails)
    BY <1>0 DEF TypeOK
  <2>2. Len(mail) \in Nat /\ \A k \in 1..Len(mail) : mail[k] \in Mails
    BY <2>1
  <2>3. \A k \in 1..Len(mail) : mail[k].id \in Nat
    BY <2>2 DEF Mails, FrameIds
  <2> QED BY <2>1, <2>2, <2>3, <1>0 DEF TypeOK
<1>i. /\ Filled /\ NeverOlder
      /\ \A k \in 1..Len(mail) : mail[k].id <= Ended
      /\ pc = "decode" => held.id <= Ended
  BY DEF AgeInv
<1>1. CASE RxFirst
  <2>1. /\ getnum = 0 /\ getnum' = 1 /\ sent' = sent + 1
        /\ data' = [data EXCEPT ![NextBuf(G4_GET_POINT)][1] = sent + 1]
        /\ G4_GET_POINT' = NextBuf(G4_GET_POINT)
        /\ UNCHANGED <<mail, pc, held>>
    BY <1>1 DEF RxFirst, handlerVars
  <2>2. NextBuf(G4_GET_POINT) \in Buffers
    BY <1>t, NextBufRing
  <2>3. NeverOlder'
    <3>1. ASSUME NEW b \in Buffers, NEW i \in 1..BufSize
          PROVE  data'[b][i] = data[b][i] \/ data'[b][i] = sent'
      BY <1>t, <2>1, <2>2
    <3> QED BY <1>0, <1>t, <2>1, <3>1, YoungWrites
  <2>4. Filled'
    BY <1>t, <2>1, <2>2 DEF Filled
  <2>5. Ended' = Ended
    BY <1>t, <2>1 DEF Ended
  <2> QED BY <1>0, <1>i, <2>1, <2>3, <2>4, <2>5 DEF AgeInv
<1>2. CASE RxByte
  <2>1. /\ getnum \in 1..BufSize-1 /\ getnum' = getnum + 1
        /\ data' = [data EXCEPT ![G4_GET_POINT][getnum + 1] = sent]
        /\ UNCHANGED <<G4_GET_POINT, sent, mail, pc, held>>
    BY <1>2 DEF RxByte, handlerVars
  <2>2. NeverOlder'
    <3>1. ASSUME NEW b \in Buffers, NEW i \in 1..BufSize
          PROVE  data'[b][i] = data[b][i] \/ data'[b][i] = sent'
      BY <1>t, <2>1
    <3> QED BY <1>0, <1>t, <2>1, <3>1, YoungWrites
  <2>3. Filled'
    BY <1>t, <1>i, <2>1 DEF Filled
  <2>4. Ended' = Ended
    BY <1>t, <2>1 DEF Ended
  <2> QED BY <1>0, <1>i, <2>1, <2>2, <2>3, <2>4 DEF AgeInv
<1>3. CASE RxIdle
  <2> DEFINE e == [buf |-> G4_GET_POINT, id |-> sent, len |-> getnum]
  <2>1. /\ getnum > 0 /\ getnum' = 0 /\ mail' = Send(e)
        /\ UNCHANGED <<G4_GET_POINT, data, sent, pc, held>>
    BY <1>3 DEF RxIdle, handlerVars
  <2>2. Ended = sent - 1 /\ Ended' = sent
    BY <1>t, <2>1 DEF Ended
  <2>3. Filled' /\ \A i \in 1..e.len : data[e.buf][i] >= e.id
    BY <1>t, <1>i, <2>1 DEF Filled
  <2>h. pc = "decode" => held.id <= Ended'
    <3>1. pc = "decode" => held.id \in Nat
      BY <1>0 DEF TypeInv, Mails, FrameIds
    <3> QED BY <1>i, <1>t, <2>2, <3>1
  <2>4. CASE mail' = mail
    <3>1. \A k \in 1..Len(mail) : mail[k].id <= Ended'
      BY <1>i, <1>t, <2>2
    <3>2. NeverOlder'
      BY <1>i, <2>1, <2>4 DEF NeverOlder
    <3> QED BY <1>0, <2>1, <2>3, <2>h, <2>4, <3>1, <3>2 DEF AgeInv
  <2>5. CASE mail' = Append(mail, e)
    <3>1. /\ Len(mail') = Len(mail) + 1
          /\ \A k \in 1..Len(mail) : mail'[k] = mail[k]
          /\ mail'[Len(mail) + 1] = e
      BY <1>t, <2>5
    <3>2. ASSUME NEW k \in 1..Len(mail') PROVE k \in 1..Len(mail) \/ k = Len(mail) + 1
      BY <1>t, <3>1
    <3>3. ASSUME NEW k \in 1..Len(mail') PROVE mail'[k].id <= Ended'
      <4>1. CASE k \in 1..Len(mail)
        <5>1. mail'[k] = mail[k] /\ mail[k].id \in Nat /\ mail[k].id <= Ended
          BY <1>i, <1>t, <3>1, <4>1
        <5> QED BY <1>t, <2>2, <5>1
      <4>2. CASE k = Len(mail) + 1
        BY <1>t, <2>2, <3>1, <4>2
      <4> QED BY <3>2, <4>1, <4>2
    <3>4. ASSUME NEW k \in 1..Len(mail')-1 PROVE mail'[k].id < mail'[k + 1].id
      <4>1. CASE k + 1 \in 1..Len(mail)
        <5>1. k \in 1..Len(mail)-1 /\ k \in 1..Len(mail)
          BY <1>t, <3>1, <4>1
        <5>2. mail[k].id < mail[k + 1].id
          BY <1>i, <5>1 DEF NeverOlder
        <5> QED BY <3>1, <4>1, <5>1, <5>2
      <4>2. CASE k + 1 = Len(mail) + 1
        <5>1. k \in 1..Len(mail) /\ mail'[k] = mail[k] /\ mail'[k + 1] = e
          BY <1>t, <3>1, <4>2
        <5>2. mail[k].id \in Nat /\ mail[k].id <= Ended
          BY <1>i, <1>t, <5>1
        <5> QED BY <1>t, <2>2, <5>1, <5>2
      <4> QED BY <1>t, <3>1, <4>1, <4>2
    <3>5. ASSUME NEW k \in 1..Len(mail'), NEW i \in 1..mail'[k].len
          PROVE  data'[mail'[k].buf][i] >= mail'[k].id
      <4>1. CASE k \in 1..Len(mail)
        BY <1>i, <2>1, <3>1, <3>5, <4>1 DEF NeverOlder
      <4>2. CASE k = Len(mail) + 1
        BY <2>1, <2>3, <3>1, <3>5, <4>2
      <4> QED BY <3>2, <4>1, <4>2
    <3>6. pc' = "decode" => /\ held'.id <= Ended'
                            /\ \A i \in 1..held'.len : data'[held'.buf][i] >= held'.id
      BY <1>i, <2>1, <2>h DEF NeverOlder
    <3> QED BY <1>0, <2>3, <3>3, <3>4, <3>5, <3>6 DEF AgeInv, NeverOlder
  <2> QED BY <2>1, <2>4, <2>5 DEF Send
<1>4. CASE Recv
  <2>1. /\ mail # <<>> /\ held' = Head(mail) /\ mail' = Tail(mail)
        /\ UNCHANGED <<G4_GET_POINT, getnum, data, sent>>
    BY <1>4 DEF Recv, isrVars
  <2>2. /\ Len(mail) > 0 /\ held' = mail[1] /\ Len(mail') = Len(mail) - 1
        /\ \A k \in 1..Len(mail') : mail'[k] = mail[k + 1]
    BY <1>t, <2>1
  <2>3. Ended' = Ended /\ Filled'
    BY <1>i, <2>1 DEF Ended, Filled
  <2>4. held'.id <= Ended' /\ \A i \in 1..held'.len : data'[held'.buf][i] >= held'.id
    <3>1. 1 \in 1..Len(mail)
      BY <1>t, <2>2
    <3>2. mail[1].id <= Ended /\ \A i \in 1..mail[1].len : data[mail[1].buf][i] >= mail[1].id
      BY <1>i, <3>1 DEF NeverOlder
    <3> QED BY <2>1, <2>2, <2>3, <3>2
  <2>5. ASSUME NEW k \in 1..Len(mail')
        PROVE  /\ mail'[k].id <= Ended'
               /\ \A i \in 1..mail'[k].len : data'[mail'[k].buf][i] >= mail'[k].id
    <3>1. k + 1 \in 1..Len(mail)
      BY <1>t, <2>2
    <3> QED BY <1>i, <2>1, <2>2, <2>3, <3>1 DEF NeverOlder
  <2>6. ASSUME NEW k \in 1..Len(mail')-1 PROVE mail'[k].id < mail'[k + 1].id
    <3>1. /\ k + 1 \in 1..Len(mail)-1
          /\ mail'[k] = mail[k + 1] /\ mail'[k + 1] = mail[(k + 1) + 1]
      BY <1>t, <2>2
    <3> QED BY <1>i, <3>1 DEF NeverOlder
  <2> QED BY <1>0, <2>3, <2>4, <2>5, <2>6 DEF AgeInv, NeverOlder
<1>5. CASE Decode
  BY <1>0, <1>i, <1>5 DEF Decode, isrVars, AgeInv, Filled, NeverOlder, Ended
<1>6. CASE Act
  BY <1>0, <1>i, <1>6 DEF Act, isrVars, AgeInv, Filled, NeverOlder, Ended
<1>7. CASE UNCHANGED vars
  BY <1>0, <1>i, <1>7 DEF vars, isrVars, handlerVars, AgeInv, Filled, NeverOlder, Ended
<1> QED BY <1>1, <1>2, <1>3, <1>4, <1>5, <1>6, <1>7 DEF Next, Isr, Handler

\* However many frames the server sends ahead, the handler takes the announced
\* frames in order and never finds an older frame in a buffer than the one
\* announced in it.
THEOREM OverrunsNeverOlder == Spec => []NeverOlder
<1>1. AgeInv => NeverOlder
  BY DEF AgeInv
<1> QED BY <1>1, AgeInit, AgeStep, PTL DEF Spec
=============================================================================
