------------------------- MODULE FingerprintProofs --------------------------
(***************************************************************************)
(* Theorems about the fingerprint dialogues and their link, for a buffer   *)
(* of any length, any fingers and any number of places, when the module    *)
(* answers in time (Timely).                                               *)
(*                                                                         *)
(* After the hand-shake there is one exchange at a time: a command, its    *)
(* answer on the line, in the receive interrupt, in the buffer, ended by   *)
(* TIM7, and read; or nothing at all.  What an answer of the exchange in   *)
(* progress confirms holds as long as it lasts.                            *)
(***************************************************************************)
EXTENDS Fingerprint, SequenceTheorems, TLAPS

TypeInv ==
    /\ order \in Seq([cmd : Commands, fresh : BOOLEAN]) /\ line \in Seq(Parts)
    /\ buf \in [1..Max -> Parts] /\ res \in Parts
    /\ len \in 0..Max
    /\ full \in BOOLEAN /\ booted \in BOOLEAN /\ tim7 \in BOOLEAN
    /\ isr \in BOOLEAN /\ wild = FALSE
    /\ judge \in {"send", "clear", "wait", "search", "read", "done", "shake"}
    /\ answer \in Parts
    /\ step \in Steps \cup {"idle"} /\ id \in Places \cup {Beyond}
    /\ open \in BOOLEAN
    /\ image \in Some /\ char1 \in Some /\ char2 \in Some
    /\ library \in [Places -> Some]

\* What a confirmation of the command in progress says of the module.
Says == /\ step = "p_gen" => char1 = image
        /\ step = "p_search" => char1 \in Enrolled
        /\ step = "a_reg" => char1 = char2
Told(p) == p \in Tails /\ p.fresh /\ (p.ok => Says)

\* The answer is in the buffer: whole, or its rest at the start, when JudgeStr
\* cleared the buffer behind its head.
Arrived == \/ buf[1] = Header /\ Told(buf[2])
           \/ Told(buf[1])

\* The stages of an exchange.
Silent == ~isr /\ ~full /\ ~tim7 /\ len = 0
Still  == order = <<>> /\ line = <<>> /\ Silent
Asked  == order = <<[cmd |-> Asks[step], fresh |-> TRUE]>> /\ line = <<>> /\ Silent
Coming == \E p \in Tails : Told(p) /\ order = <<>> /\ line = <<Header, p>> /\ Silent
HeadIn == \E p \in Tails : /\ Told(p) /\ order = <<>> /\ line = <<p>>
                           /\ isr /\ res = Header /\ ~full /\ ~tim7 /\ len = 0
Begun  == (len = 1 /\ buf[1] = Header) \/ (len = 0 /\ judge = "wait")
Half   == \E p \in Tails : /\ Told(p) /\ order = <<>> /\ line = <<p>>
                           /\ ~isr /\ ~full /\ tim7 /\ Begun
TailIn == /\ order = <<>> /\ line = <<>>
          /\ isr /\ Told(res) /\ ~full /\ tim7 /\ Begun
Whole  == /\ order = <<>> /\ line = <<>>
          /\ ~isr /\ ~full /\ tim7 /\ Arrived
Ended  == /\ order = <<>> /\ line = <<>>
          /\ ~isr /\ full /\ ~tim7 /\ Arrived
Stages == Asked \/ Still \/ Coming \/ HeadIn \/ Half \/ TailIn \/ Whole \/ Ended

Exchange ==
    /\ booted
    /\ judge # "shake" /\ (step = "idle" => judge = "send")
    /\ judge \in {"send", "done"} => Still
    /\ judge \in {"search", "read"} => Still /\ Arrived
    /\ judge = "read" => buf[1] = Header
    /\ judge \in {"clear", "wait"} => Stages

\* Before, the byte of the module's start may come between the answers, and a
\* hand-shake begins when nothing is under way but that byte.
Greeting ==
    /\ judge \in {"send", "shake"} /\ ~open
    /\ judge = "send" => order = <<>> /\ Len(line) <= 1
    /\ judge = "shake" => order \in {<<>>, <<[cmd |-> "hand", fresh |-> TRUE]>>}
    /\ 2 * Len(order) + Len(line) <= 3
    /\ ~booted => line = <<>> /\ Silent /\ buf[1] = Zero
    /\ isr => ~full /\ len < Max
    /\ len > 0 => tim7 \/ full

Link == /\ ~isr => res = Zero
        /\ step = "hand" => Greeting
        /\ step # "hand" => Exchange
        /\ judge # "done" => answer = Timeout
        /\ judge = "done" /\ answer.ok => answer.fresh /\ Says

\* What the dialogue has found out before the command in progress.
Known == /\ step = "p_search" => char1 = image
         /\ step = "a_store" => char1 = char2 /\ id \in Places
         /\ open => step = "idle" /\ image \in Enrolled /\ char1 = image

Inv == TypeInv /\ Link /\ Known

-----------------------------------------------------------------------------
LEMMA PartTypes ==
  /\ Zero \in Parts /\ Noise \in Parts /\ Header \in Parts /\ Timeout = Zero
  /\ Zero.part = "zero" /\ Noise.part = "noise" /\ Header.part = "head"
  /\ ~Zero.ok /\ ~Zero.fresh /\ ~Header.fresh
  /\ \A p \in Tails : p \in Parts /\ p.part = "tail" /\ p # Header
  /\ \A f, o \in BOOLEAN : /\ Part("tail", f, o) \in Tails
                           /\ Part("tail", f, o).fresh = f /\ Part("tail", f, o).ok = o
  BY DEF Zero, Noise, Header, Timeout, Parts, Tails, Part

LEMMA Aging ==
  /\ \A p \in Tails : Aged(p) \in Tails
  /\ Aged(Zero) = Zero /\ Aged(Header) = Header /\ Aged(Noise) = Noise
<1>1. ASSUME NEW p \in Tails PROVE Aged(p) \in Tails
  BY DEF Aged, Tails
<1>2. ASSUME NEW n PROVE Aged(Part(n, FALSE, FALSE)) = Part(n, FALSE, FALSE)
  <2> DEFINE r == [part |-> n, fresh |-> FALSE, ok |-> FALSE]
  <2>1. r \in [part : {n}, fresh : BOOLEAN, ok : BOOLEAN]
    OBVIOUS
  <2>2. /\ [r EXCEPT !.fresh = FALSE] \in [part : {n}, fresh : BOOLEAN, ok : BOOLEAN]
        /\ [r EXCEPT !.fresh = FALSE].fresh = FALSE /\ [r EXCEPT !.fresh = FALSE].ok = FALSE
        /\ [r EXCEPT !.fresh = FALSE].part = n
    BY <2>1
  <2>3. \A x \in [part : {n}, fresh : BOOLEAN, ok : BOOLEAN] :
           x = [part |-> x.part, fresh |-> x.fresh, ok |-> x.ok]
    OBVIOUS
  <2>. QED
    BY <2>1, <2>2, <2>3 DEF Aged, Part
<1>. QED
  BY <1>1, <1>2 DEF Zero, Header, Noise

LEMMA AgedParts == \A p \in Parts : Aged(p) \in Parts
  BY Aging DEF Parts

LEMMA Kinds ==
  /\ Steps = {"hand", "count0", "para", "p_image", "p_gen", "p_search", "v_image", "v_gen",
              "v_search", "a_image1", "a_gen1", "a_image2", "a_gen2", "a_match", "a_reg",
              "a_store", "a_count", "d_delete", "d_empty", "d_count"}
  /\ "idle" \notin Steps
  /\ \A s \in Steps : Asks[s] \in Commands /\ (Asks[s] = "hand" <=> s = "hand")
  /\ Asks["p_gen"] = "gen1" /\ Asks["p_search"] = "search" /\ Asks["a_reg"] = "reg"
  /\ Asks["a_store"] = "store" /\ Asks["hand"] = "hand"
  BY DEF Steps, Asks, Commands

\* A sequence of one element, and its parts.
LEMMA One ==
  ASSUME NEW x
  PROVE  /\ <<x>> # <<>> /\ Len(<<x>>) = 1 /\ Head(<<x>>) = x /\ Tail(<<x>>) = <<>>
         /\ <<>> \o <<x>> = <<x>>
  OBVIOUS

LEMMA Two ==
  ASSUME NEW x, NEW y
  PROVE  /\ <<x, y>> # <<>> /\ Head(<<x, y>>) = x /\ Tail(<<x, y>>) = <<y>>
         /\ <<>> \o <<x, y>> = <<x, y>>
  OBVIOUS

\* Sending makes old what is under way.
LEMMA Sent ==
  ASSUME TypeInv, NEW c \in Commands, Send(c), order = <<>>
  PROVE  /\ order' = <<[cmd |-> c, fresh |-> TRUE]>>
         /\ line' \in Seq(Parts) /\ Len(line') = Len(line) /\ (line = <<>> => line' = <<>>)
         /\ buf' \in [1..Max -> Parts] /\ (buf[1] = Zero => buf'[1] = Zero)
<1>1. order' = <<[cmd |-> c, fresh |-> TRUE]>>
  <2>1. [k \in 1..Len(order) |-> [order[k] EXCEPT !.fresh = FALSE]] = <<>>
    OBVIOUS
  <2>2. order' = Append(<<>>, [cmd |-> c, fresh |-> TRUE])
    BY <2>1 DEF Send
  <2>3. \A x : Append(<<>>, x) = <<x>>
    OBVIOUS
  <2>. QED
    BY <2>2, <2>3
<1>2. line' \in Seq(Parts) /\ Len(line') = Len(line)
  <2>1. /\ Len(line) \in Nat /\ \A k \in 1..Len(line) : line[k] \in Parts
    BY DEF TypeInv
  <2>2. line' = [k \in 1..Len(line) |-> Aged(line[k])]
    BY DEF Send
  <2>. QED
    BY <2>1, <2>2, AgedParts
<1>3. line = <<>> => line' = <<>>
  BY <1>2
<1>4. buf' \in [1..Max -> Parts] /\ (buf[1] = Zero => buf'[1] = Zero)
  <2>1. buf' = [k \in 1..Max |-> Aged(buf[k])]
    BY DEF Send
  <2>. QED
    BY <2>1, AgedParts, Aging, SensorAssumption DEF TypeInv
<1>. QED
  BY <1>1, <1>2, <1>3, <1>4

LEMMA Starts == Init => Inv
<1> SUFFICES ASSUME Init PROVE Inv
  OBVIOUS
<1>1. TypeInv
  <2>1. order \in Seq([cmd : Commands, fresh : BOOLEAN]) /\ line \in Seq(Parts)
    BY DEF Init, SensorInit
  <2>2. 0 \in Places /\ 0 \in 0..Max
    BY PlacesAssumption, SensorAssumption DEF Places
  <2>. QED
    BY <2>1, <2>2, Kinds, PartTypes DEF Init, SensorInit, TypeInv, Some
<1>2. Link
  <2>1. order = <<>> /\ line = <<>> /\ Len(order) = 0 /\ Len(line) = 0
    BY DEF Init, SensorInit
  <2>2. buf[1] = Zero
    BY SensorAssumption DEF Init, SensorInit
  <2>. QED
    BY <2>1, <2>2 DEF Init, SensorInit, Link, Greeting, Silent
<1>3. Known
  BY DEF Init, Known
<1>. QED
  BY <1>1, <1>2, <1>3 DEF Inv
-----------------------------------------------------------------------------
\* Interrupts.

LEMMA Unmoved ==
  ASSUME UNCHANGED <<step, module>>
  PROVE  Says' = Says /\ Enrolled' = Enrolled
  BY DEF Says, Enrolled, module, Places

LEMMA KnownStays ==
  ASSUME Known, UNCHANGED <<dialogue, module>>
  PROVE  Known'
  BY DEF Known, Enrolled, Places, dialogue, module

\* What is in an exchange, by what its interrupts and its thread see.
LEMMA Phases ==
  ASSUME TypeInv, Exchange
  PROVE  /\ line # <<>> /\ ~isr => judge \in {"clear", "wait"} /\ (Coming \/ Half)
         /\ isr => judge \in {"clear", "wait"} /\ (HeadIn \/ TailIn)
         /\ tim7 /\ ~isr => judge \in {"clear", "wait"} /\ (Half \/ Whole)
         /\ full => judge \in {"clear", "wait"} /\ Ended
         /\ order # <<>> => judge \in {"clear", "wait"} /\ Asked
<1>1. /\ (judge \in {"send", "done"} \/ judge \in {"search", "read"}) => Still
      /\ judge \in {"clear", "wait"} => Stages
      /\ judge \in {"send", "clear", "wait", "search", "read", "done"}
  BY DEF TypeInv, Exchange
<1>2. Still => line = <<>> /\ order = <<>> /\ ~isr /\ ~tim7 /\ ~full
  BY DEF Still, Silent
<1>3. /\ Asked => line = <<>> /\ ~isr /\ ~tim7 /\ ~full
      /\ Coming => order = <<>> /\ ~isr /\ ~tim7 /\ ~full
      /\ HeadIn => order = <<>> /\ isr /\ ~tim7 /\ ~full
      /\ Half => order = <<>> /\ ~isr /\ tim7 /\ ~full
      /\ TailIn => order = <<>> /\ line = <<>> /\ isr /\ ~full
      /\ Whole => order = <<>> /\ line = <<>> /\ ~isr /\ tim7 /\ ~full
      /\ Ended => order = <<>> /\ line = <<>> /\ ~isr /\ ~tim7
  BY DEF Asked, Coming, HeadIn, Half, TailIn, Whole, Ended, Silent
<1>. QED
  BY <1>1, <1>2, <1>3 DEF Stages

LEMMA TestStep ==
  ASSUME Inv, ReceiveTest, UNCHANGED <<dialogue, module>>
  PROVE  Inv'
<1>1. /\ ~isr /\ line # <<>> /\ line' = Tail(line)
      /\ isr' <=> (~full /\ len < Max)
      /\ res' = IF isr' THEN Head(line) ELSE Zero
      /\ full' <=> (full \/ len >= Max)
      /\ UNCHANGED <<order, booted, buf, len, tim7, wild, judge, answer, step, id, open>>
      /\ UNCHANGED module
  BY Zenon DEF ReceiveTest, cmdVars, dialogue
<1>2. TypeInv /\ Known'
  BY KnownStays DEF Inv
<1>3. Head(line) \in Parts /\ Tail(line) \in Seq(Parts) /\ Len(Tail(line)) = Len(line) - 1
  BY <1>1, <1>2, HeadTailProperties DEF TypeInv
<1>4. TypeInv'
  <2>1. isr' \in BOOLEAN /\ full' \in BOOLEAN
    BY DEF ReceiveTest, Inv, TypeInv
  <2>. QED
    BY <1>1, <1>2, <1>3, <2>1, PartTypes DEF TypeInv, module
<1>5. step = "hand" => Greeting'
  <2>1. SUFFICES ASSUME step = "hand" PROVE Greeting'
    OBVIOUS
  <2>2. Greeting
    BY <2>1 DEF Inv, Link
  <2>3. booted
    BY <1>1, <1>2, <2>2 DEF Greeting, TypeInv
  <2>4. Len(line) \in Nat /\ Len(order) \in Nat /\ len \in Nat
    BY <1>2 DEF TypeInv
  <2>5. 2 * Len(order) + Len(line') <= 3 /\ Len(line') <= Len(line)
    BY <1>1, <1>3, <2>2, <2>4 DEF Greeting
  <2>6. isr' => ~full' /\ len < Max
    BY <1>1, <1>2, <2>4, SensorAssumption DEF TypeInv
  <2>7. Len(line') \in Nat
    BY <1>4 DEF TypeInv
  <2>. QED
    BY <1>1, <2>2, <2>3, <2>4, <2>5, <2>6, <2>7 DEF Greeting
<1>6. step # "hand" => Exchange'
  <2>1. SUFFICES ASSUME step # "hand" PROVE Exchange'
    OBVIOUS
  <2>2. Exchange
    BY <2>1 DEF Inv, Link
  <2>3. judge \in {"clear", "wait"} /\ (Coming \/ Half)
    BY <1>1, <1>2, <2>2, Phases
  <2>4. Says' = Says
    BY <1>1, Unmoved
  <2>5. CASE Coming
    <3>1. PICK p \in Tails : Told(p) /\ order = <<>> /\ line = <<Header, p>> /\ Silent
      BY <2>5 DEF Coming
    <3>2. line' = <<p>> /\ Head(line) = Header
      BY <1>1, <3>1, Two
    <3>3. isr' /\ ~full'
      BY <1>1, <3>1, SensorAssumption DEF Silent
    <3>4. HeadIn'
      BY <1>1, <2>4, <3>1, <3>2, <3>3 DEF HeadIn, Told, Silent
    <3>. QED
      BY <1>1, <2>2, <2>3, <3>4 DEF Exchange, Stages
  <2>6. CASE Half
    <3>1. PICK p \in Tails : /\ Told(p) /\ order = <<>> /\ line = <<p>>
                             /\ ~isr /\ ~full /\ tim7 /\ Begun
      BY <2>6 DEF Half
    <3>2. line' = <<>> /\ Head(line) = p
      BY <1>1, <3>1, One
    <3>3. isr' /\ ~full'
      BY <1>1, <3>1, SensorAssumption DEF Begun
    <3>4. TailIn'
      BY <1>1, <2>4, <3>1, <3>2, <3>3 DEF TailIn, Told, Begun
    <3>. QED
      BY <1>1, <2>2, <2>3, <3>4 DEF Exchange, Stages
  <2>. QED
    BY <2>3, <2>5, <2>6
<1>7. Link'
  <2>1. judge' # "done"
    BY <1>1, <1>2, <1>5, <1>6, Phases DEF Inv, Link, Greeting
  <2>. QED
    BY <1>1, <1>5, <1>6, <2>1 DEF Link, Inv
<1>. QED
  BY <1>2, <1>4, <1>7 DEF Inv

LEMMA StoreStep ==
  ASSUME Inv, ReceiveStore, UNCHANGED <<dialogue, module>>
  PROVE  Inv'
<1>1. /\ isr /\ ~isr' /\ (tim7' <=> (tim7 \/ (len = 0 /\ ~full)))
      /\ len' = len + 1 /\ res' = Zero
      /\ UNCHANGED <<order, line, booted, full, judge, answer, step, id, open, module>>
  BY Zenon DEF ReceiveStore, cmdVars, dialogue
<1>2. TypeInv /\ Known'
  BY KnownStays DEF Inv
<1>3. ~full /\ len < Max /\ judge # "done"
  <2>1. CASE step = "hand"
    BY <1>1, <2>1 DEF Inv, Link, Greeting
  <2>2. CASE step # "hand"
    <3>1. judge # "done" /\ (HeadIn \/ TailIn)
      BY <1>1, <1>2, <2>2, Phases DEF Inv, Link
    <3>. QED
      BY <3>1, SensorAssumption DEF HeadIn, TailIn, Begun
  <2>. QED
    BY <2>1, <2>2
<1>4. buf' = [buf EXCEPT ![len + 1] = res] /\ wild' = FALSE
  BY <1>2, <1>3 DEF ReceiveStore, TypeInv
<1>5. TypeInv'
  <2>1. len' \in 0..Max
    BY <1>1, <1>2, <1>3, SensorAssumption DEF TypeInv
  <2>2. buf' \in [1..Max -> Parts]
    BY <1>2, <1>4 DEF TypeInv
  <2>3. isr' \in BOOLEAN /\ tim7' \in BOOLEAN
    BY <1>2 DEF ReceiveStore, TypeInv
  <2>. QED
    BY <1>1, <1>2, <1>4, <2>1, <2>2, <2>3, PartTypes DEF TypeInv, module
<1>6. step = "hand" => Greeting'
  <2>1. SUFFICES ASSUME step = "hand" PROVE Greeting'
    OBVIOUS
  <2>2. Greeting /\ booted
    BY <1>1, <1>2, <2>1 DEF Inv, Link, Greeting, Silent, TypeInv
  <2>3. tim7'
    BY <1>1, <1>2, <1>3, <2>2 DEF Greeting, TypeInv
  <2>. QED
    BY <1>1, <2>2, <2>3 DEF Greeting
<1>7. step # "hand" => Exchange'
  <2>1. SUFFICES ASSUME step # "hand" PROVE Exchange'
    OBVIOUS
  <2>2. Exchange
    BY <2>1 DEF Inv, Link
  <2>3. judge \in {"clear", "wait"} /\ (HeadIn \/ TailIn)
    BY <1>1, <1>2, <2>2, Phases
  <2>4. Says' = Says /\ 1 \in 1..Max /\ 2 \in 1..Max
    BY <1>1, Unmoved, SensorAssumption
  <2>5. CASE HeadIn
    <3>1. buf'[1] = Header /\ len' = 1
      BY <1>1, <1>2, <1>4, <2>4, <2>5 DEF HeadIn, TypeInv
    <3>2. Half'
      BY <1>1, <1>3, <2>4, <2>5, <3>1 DEF HeadIn, Half, Told, Begun
    <3>. QED
      BY <1>1, <2>2, <2>3, <3>2 DEF Exchange, Stages
  <2>6. CASE TailIn
    <3>1. Arrived'
      <4>1. CASE len = 1 /\ buf[1] = Header
        <5>1. buf'[1] = Header /\ buf'[2] = res
          BY <1>2, <1>4, <2>4, <4>1 DEF TypeInv
        <5>. QED
          BY <2>4, <2>6, <5>1 DEF Arrived, Told, TailIn
      <4>2. CASE len = 0
        <5>1. buf'[1] = res
          BY <1>2, <1>4, <2>4, <4>2 DEF TypeInv
        <5>. QED
          BY <2>4, <2>6, <5>1 DEF Arrived, Told, TailIn
      <4>. QED
        BY <2>6, <4>1, <4>2 DEF TailIn, Begun
    <3>2. Whole'
      BY <1>1, <2>6, <3>1 DEF TailIn, Whole
    <3>. QED
      BY <1>1, <2>2, <2>3, <3>2 DEF Exchange, Stages
  <2>. QED
    BY <2>3, <2>5, <2>6
<1>8. Link'
  BY <1>1, <1>3, <1>6, <1>7 DEF Link, Inv
<1>. QED
  BY <1>2, <1>5, <1>8 DEF Inv

LEMMA TimerStep ==
  ASSUME Timely, Inv, Tim7Isr, UNCHANGED <<dialogue, module>>
  PROVE  Inv'
<1>1. /\ tim7 /\ Quiet /\ full' = TRUE /\ tim7' = FALSE
      /\ UNCHANGED <<order, line, booted, buf, len, isr, res, wild, judge, answer>>
      /\ UNCHANGED <<step, id, open, module>>
  BY DEF Tim7Isr, cmdVars, dialogue
<1>2. TypeInv /\ Known' /\ ~isr
  BY <1>1, KnownStays DEF Inv, Quiet
<1>3. TypeInv'
  BY <1>1, <1>2 DEF TypeInv, module
<1>4. step = "hand" => Greeting'
  BY <1>1, <1>2 DEF Inv, Link, Greeting, Silent
<1>5. step # "hand" => judge # "done" /\ Exchange'
  <2>1. SUFFICES ASSUME step # "hand" PROVE judge # "done" /\ Exchange'
    OBVIOUS
  <2>2. Exchange
    BY <2>1 DEF Inv, Link
  <2>3. judge \in {"clear", "wait"} /\ (Half \/ Whole)
    BY <1>1, <1>2, <2>2, Phases
  <2>4. ~Half
    <3>1. SUFFICES ASSUME NEW p \in Tails, line = <<p>> PROVE FALSE
      BY DEF Half
    <3>2. line # <<>> /\ Head(line) = p
      BY <3>1, One
    <3>. QED
      BY <1>1, <1>2, <3>2, PartTypes DEF Quiet
  <2>5. Ended'
    <3>1. Says' = Says
      BY <1>1, Unmoved
    <3>. QED
      BY <1>1, <1>2, <2>3, <2>4, <3>1 DEF Whole, Ended, Arrived, Told
  <2>. QED
    BY <1>1, <2>2, <2>3, <2>5 DEF Exchange, Stages
<1>6. judge # "done"
  BY <1>5 DEF Inv, Link, Greeting
<1>7. Link'
  BY <1>1, <1>4, <1>5, <1>6 DEF Link, Inv
<1>. QED
  BY <1>2, <1>3, <1>7 DEF Inv
-----------------------------------------------------------------------------
\* The module.

\* It works on the command of the exchange in progress.
LEMMA Working ==
  ASSUME Inv, order # <<>>
  PROVE  /\ order = <<[cmd |-> Asks[step], fresh |-> TRUE]>>
         /\ Head(order).cmd = Asks[step] /\ Head(order).fresh /\ Tail(order) = <<>>
         /\ Len(order) = 1 /\ step \in Steps /\ ~open /\ judge # "done"
<1>1. order = <<[cmd |-> Asks[step], fresh |-> TRUE]>> /\ judge \in {"clear", "wait", "shake"}
  <2>1. CASE step = "hand"
    BY <2>1, Kinds DEF Inv, Link, Greeting
  <2>2. CASE step # "hand"
    BY <2>2, Phases DEF Inv, Link, Asked
  <2>. QED
    BY <2>1, <2>2
<1>2. step # "idle"
  BY <1>1 DEF Inv, Link, Exchange
<1>. QED
  BY <1>1, <1>2, One DEF Inv, TypeInv, Known

LEMMA ReplyStep ==
  ASSUME Inv, NEW ok \in BOOLEAN, Reply(ok), UNCHANGED dialogue,
         image' \in Some, char1' \in Some, char2' \in Some, library' \in [Places -> Some],
         Known', ok => Says'
  PROVE  Inv'
<1> DEFINE p == Part("tail", TRUE, ok)
<1>1. /\ booted /\ order' = <<>> /\ line' = line \o <<Header, p>>
      /\ UNCHANGED <<booted, buf, len, full, tim7, isr, res, wild, judge, answer>>
      /\ UNCHANGED <<step, id, open>>
  <2>1. Part("tail", Head(order).fresh, ok) = p
    BY Working DEF Reply, Inv, TypeInv, Part
  <2>. QED
    BY <2>1, Working DEF Reply, cmdVars, dialogue
<1>2. TypeInv /\ p \in Tails /\ p.fresh /\ (p.ok <=> ok)
  BY PartTypes DEF Inv
<1> HIDE DEF p
<1>3. line' \in Seq(Parts) /\ Len(line') = Len(line) + 2
  <2>1. <<Header, p>> \in Seq(Parts) /\ Len(<<Header, p>>) = 2
    BY <1>2, PartTypes
  <2>. QED
    BY <1>1, <1>2, <2>1, ConcatProperties DEF TypeInv
<1>4. TypeInv'
  BY <1>1, <1>2, <1>3 DEF TypeInv
<1>5. order # <<>> /\ judge # "done" /\ Len(order) = 1 /\ Len(order') = 0
  BY <1>1, Working DEF Reply
<1>6. step = "hand" => Greeting'
  <2>1. SUFFICES ASSUME step = "hand" PROVE Greeting'
    OBVIOUS
  <2>2. Greeting /\ Len(line) \in Nat
    BY <1>2, <2>1 DEF Inv, Link, TypeInv
  <2>3. judge = "shake" /\ 2 * Len(order') + Len(line') <= 3
    BY <1>3, <1>5, <2>2 DEF Greeting
  <2>. QED
    BY <1>1, <2>2, <2>3 DEF Greeting
<1>7. step # "hand" => Exchange'
  <2>1. SUFFICES ASSUME step # "hand" PROVE Exchange'
    OBVIOUS
  <2>2. Exchange
    BY <2>1 DEF Inv, Link
  <2>3. judge \in {"clear", "wait"} /\ Asked
    BY <1>2, <1>5, <2>2, Phases
  <2>4. line' = <<Header, p>>
    BY <1>1, <2>3, Two DEF Asked
  <2>5. Coming'
    BY <1>1, <1>2, <2>3, <2>4 DEF Coming, Asked, Silent, Told
  <2>. QED
    BY <1>1, <2>2, <2>3, <2>5 DEF Exchange, Stages
<1>8. Link'
  BY <1>1, <1>5, <1>6, <1>7 DEF Link, Inv
<1>. QED
  BY <1>4, <1>8 DEF Inv

LEMMA ModuleStep == Inv /\ Module => Inv'
<1> SUFFICES ASSUME Inv, Module PROVE Inv'
  OBVIOUS
<1>1. TypeInv /\ Known /\ UNCHANGED dialogue /\ UNCHANGED <<step, id, open>>
  BY DEF Inv, Module, dialogue
<1>2. order # <<>> /\ Head(order).cmd = Asks[step] /\ step \in Steps /\ ~open
  <2>1. order # <<>>
    BY DEF Module, TakeImage, GenChar, Compare, ChangeLibrary, Tell, Greet, Doing
  <2>. QED
    BY <2>1, Working
<1>3. ASSUME UNCHANGED module, NEW ok \in BOOLEAN, Reply(ok), ok => Says
      PROVE  Inv'
  <2>1. Known' /\ Says' = Says
    BY <1>1, <1>3, KnownStays, Unmoved
  <2>. QED
    BY <1>1, <1>3, <2>1, ReplyStep DEF TypeInv, module
<1>4. CASE TakeImage
  <2>1. PICK f \in Some : Reply(f # NoFinger) /\ image' = IF f = NoFinger THEN image ELSE f
    BY <1>4 DEF TakeImage
  <2>2. step \notin {"p_gen", "p_search", "a_reg", "a_store"}
    BY <1>2, <1>4, Kinds DEF TakeImage, Doing
  <2>3. Known' /\ Says'
    BY <1>1, <1>2, <1>4, <2>2 DEF TakeImage, Known, Says
  <2>4. (f # NoFinger) \in BOOLEAN /\ image' \in Some
    BY <1>1, <2>1 DEF TypeInv
  <2>. QED
    BY <1>1, <1>4, <2>1, <2>3, <2>4, ReplyStep DEF TakeImage, TypeInv
<1>5. CASE GenChar
  <2>1. step \notin {"p_search", "a_reg", "a_store"}
    BY <1>2, <1>5, Kinds DEF GenChar, Doing
  <2>2. ASSUME Doing("gen1"), Reply(TRUE), char1' = image, UNCHANGED <<image, char2, library>>
        PROVE  Inv'
    <3>1. Known' /\ Says'
      BY <1>1, <1>2, <2>1, <2>2 DEF Known, Says
    <3>. QED
      BY <1>1, <2>2, <3>1, ReplyStep DEF TypeInv
  <2>3. ASSUME Doing("gen2"), Reply(TRUE), char2' = image, UNCHANGED <<image, char1, library>>
        PROVE  Inv'
    <3>1. step # "p_gen"
      BY <1>2, <2>3, Kinds DEF Doing
    <3>2. Known' /\ Says'
      BY <1>1, <1>2, <2>1, <2>3, <3>1 DEF Known, Says
    <3>. QED
      BY <1>1, <2>3, <3>2, ReplyStep DEF TypeInv
  <2>4. ASSUME Reply(FALSE), UNCHANGED module PROVE Inv'
    BY <1>3, <2>4
  <2>. QED
    BY <1>5, <2>2, <2>3, <2>4 DEF GenChar
<1>6. CASE Compare
  <2>1. PICK ok \in BOOLEAN :
           /\ Reply(ok)
           /\ \/ Doing("search") /\ ok = (char1 \in Enrolled)
              \/ (Doing("match") \/ Doing("reg")) /\ ok = (char1 = char2)
    <3>1. (char1 \in Enrolled) \in BOOLEAN /\ (char1 = char2) \in BOOLEAN
      OBVIOUS
    <3>. QED
      BY <1>6, <3>1, Zenon DEF Compare
  <2>2. ok => Says
    BY <1>2, <2>1, Kinds DEF Doing, Says
  <2>. QED
    BY <1>3, <1>6, <2>1, <2>2 DEF Compare
<1>7. CASE ChangeLibrary
  <2>1. step \notin {"p_gen", "p_search", "a_reg"}
    BY <1>2, <1>7, Kinds DEF ChangeLibrary, Doing
  <2>2. Known' /\ Says'
    BY <1>1, <1>2, <1>7, <2>1 DEF ChangeLibrary, Known, Says
  <2>3. NoFinger \in Some
    BY DEF Some
  <2>4. library' \in [Places -> Some]
    BY <1>1, <1>7, <2>3 DEF ChangeLibrary, TypeInv
  <2>5. PICK ok \in BOOLEAN : Reply(ok)
    <3>1. (id \in Places) \in BOOLEAN
      OBVIOUS
    <3>. QED
      BY <1>7, <3>1, Zenon DEF ChangeLibrary
  <2>. QED
    BY <1>1, <1>7, <2>2, <2>4, <2>5, ReplyStep DEF ChangeLibrary, TypeInv
<1>8. CASE Tell \/ Greet
  <2>1. step \notin {"p_gen", "p_search", "a_reg"}
    BY <1>2, <1>8, Kinds DEF Tell, Greet, Doing
  <2>. QED
    BY <1>3, <1>8, <2>1 DEF Tell, Greet, Says
<1>. QED
  BY <1>4, <1>5, <1>6, <1>7, <1>8 DEF Module

LEMMA BootStep ==
  ASSUME Inv, PowerOnByte, UNCHANGED <<dialogue, module>>
  PROVE  Inv'
<1>1. /\ ~booted /\ booted' = TRUE /\ line' = Append(line, Noise)
      /\ UNCHANGED <<order, buf, len, full, tim7, isr, res, wild, judge, answer>>
      /\ UNCHANGED <<step, id, open, module>>
  BY DEF PowerOnByte, cmdVars, dialogue
<1>2. step = "hand" /\ Greeting /\ line = <<>> /\ judge # "done"
  BY <1>1 DEF Inv, Link, Exchange, Greeting
<1>3. line' = <<Noise>>
  BY <1>1, <1>2
<1>4. TypeInv'
  <2>1. line' \in Seq(Parts)
    BY <1>3, PartTypes
  <2>. QED
    BY <1>1, <2>1 DEF Inv, TypeInv, module
<1>5. Greeting'
  <2>1. Len(line') = 1
    BY <1>3, One
  <2>2. judge = "send" => Len(order) = 0
    BY <1>2 DEF Greeting
  <2>3. judge = "shake" => Len(order) \in {0, 1}
    BY <1>2, One DEF Greeting
  <2>. QED
    BY <1>1, <1>2, <2>1, <2>2, <2>3 DEF Greeting
<1>. QED
  BY <1>1, <1>2, <1>4, <1>5, KnownStays DEF Inv, Link

LEMMA LoseStep ==
  ASSUME Inv, Lose, UNCHANGED <<dialogue, module>>
  PROVE  Inv'
<1>1. /\ order # <<>> /\ order' = <<>>
      /\ UNCHANGED <<line, booted, buf, len, full, tim7, isr, res, wild, judge, answer>>
      /\ UNCHANGED <<step, id, open, module>>
  BY Working DEF Lose, cmdVars, dialogue
<1>2. TypeInv' /\ judge # "done" /\ Len(order) = 1 /\ Len(order') = 0
  <2>1. order' \in Seq([cmd : Commands, fresh : BOOLEAN]) /\ Len(order') = 0
    BY <1>1
  <2>2. judge # "done" /\ Len(order) = 1
    BY <1>1, Working
  <2>3. TypeInv'
    BY <1>1, <2>1 DEF Inv, TypeInv, module
  <2>. QED
    BY <2>1, <2>2, <2>3
<1>3. step = "hand" => Greeting'
  <2>1. SUFFICES ASSUME step = "hand" PROVE Greeting'
    OBVIOUS
  <2>2. Greeting /\ Len(line) \in Nat
    BY <2>1 DEF Inv, Link, TypeInv
  <2>3. 2 * Len(order') + Len(line') <= 3
    BY <1>1, <1>2, <2>2 DEF Greeting
  <2>. QED
    BY <1>1, <2>2, <2>3 DEF Greeting, Silent
<1>4. step # "hand" => Exchange'
  <2>1. SUFFICES ASSUME step # "hand" PROVE Exchange'
    OBVIOUS
  <2>2. Exchange
    BY <2>1 DEF Inv, Link
  <2>3. judge \in {"clear", "wait"} /\ Asked
    BY <1>1, <2>2, Phases DEF Inv
  <2>4. Still'
    BY <1>1, <2>3 DEF Asked, Still, Silent
  <2>. QED
    BY <1>1, <2>2, <2>3, <2>4 DEF Exchange, Stages
<1>. QED
  BY <1>1, <1>2, <1>3, <1>4, KnownStays DEF Inv, Link
-----------------------------------------------------------------------------
\* The thread.

LEMMA BeginStep == Inv /\ Begin => Inv'
<1> SUFFICES ASSUME Inv, Begin PROVE Inv'
  OBVIOUS
<1>1. /\ step = "idle" /\ ~open /\ step' \in {"p_image", "v_image", "d_delete", "d_empty"}
      /\ id' \in Places \cup {Beyond}
      /\ UNCHANGED <<linkVars, cmdVars, open, module>>
  BY PlacesAssumption DEF Begin, Places
<1>2. TypeInv'
  BY <1>1, Kinds DEF Inv, TypeInv, linkVars, cmdVars, module
<1>3. Still /\ judge = "send" /\ booted
  BY <1>1 DEF Inv, Link, Exchange
<1>4. Exchange'
  BY <1>1, <1>3 DEF Exchange, Still, Silent, linkVars, cmdVars
<1>5. Link' /\ Known'
  BY <1>1, <1>3, <1>4 DEF Inv, Link, Known, linkVars, cmdVars
<1>. QED
  BY <1>2, <1>5 DEF Inv

LEMMA AskStep == Inv /\ Ask => Inv'
<1> SUFFICES ASSUME Inv, Ask PROVE Inv'
  OBVIOUS
<1>1. /\ step # "idle" /\ Send(Asks[step]) /\ ~isr /\ judge = "send"
      /\ judge' = IF step = "hand" THEN "shake" ELSE "clear"
      /\ UNCHANGED <<booted, len, full, tim7, isr, res, wild, answer, step, id, open, module>>
  BY DEF Ask, Send, dialogue
<1>2. step \in Steps /\ Asks[step] \in Commands /\ TypeInv
  BY <1>1, Kinds DEF Inv, TypeInv
<1>3. order = <<>>
  BY <1>1 DEF Inv, Link, Greeting, Exchange, Still
<1>4. /\ order' = <<[cmd |-> Asks[step], fresh |-> TRUE]>>
      /\ line' \in Seq(Parts) /\ Len(line') = Len(line) /\ (line = <<>> => line' = <<>>)
      /\ buf' \in [1..Max -> Parts] /\ (buf[1] = Zero => buf'[1] = Zero)
  BY <1>1, <1>2, <1>3, Sent
<1>5. TypeInv'
  <2>1. order' \in Seq([cmd : Commands, fresh : BOOLEAN])
    BY <1>2, <1>4
  <2>. QED
    BY <1>1, <1>2, <1>4, <2>1 DEF TypeInv, module
<1>6. step = "hand" => Greeting'
  <2>1. SUFFICES ASSUME step = "hand" PROVE Greeting'
    OBVIOUS
  <2>2. Greeting
    BY <2>1 DEF Inv, Link
  <2>3. order' = <<[cmd |-> "hand", fresh |-> TRUE]>> /\ Len(order') = 1
    BY <1>4, <2>1, Kinds, One
  <2>4. 2 * Len(order') + Len(line') <= 3
    BY <1>1, <1>2, <1>4, <2>2, <2>3 DEF Greeting, TypeInv
  <2>. QED
    BY <1>1, <1>4, <2>1, <2>2, <2>3, <2>4 DEF Greeting, Silent
<1>7. step # "hand" => Exchange'
  <2>1. SUFFICES ASSUME step # "hand" PROVE Exchange'
    OBVIOUS
  <2>2. Still /\ booted
    BY <1>1, <2>1 DEF Inv, Link, Exchange
  <2>3. Asked'
    BY <1>1, <1>4, <2>2 DEF Asked, Still, Silent
  <2>. QED
    BY <1>1, <2>1, <2>2, <2>3 DEF Exchange, Stages
<1>8. Link'
  BY <1>1, <1>6, <1>7 DEF Inv, Link
<1>9. Known'
  BY <1>1, KnownStays DEF Inv, dialogue
<1>. QED
  BY <1>5, <1>8, <1>9 DEF Inv

\* JudgeStr clears the buffer: nothing, or what the interrupts have in hand.
LEMMA ClearStep ==
  ASSUME Inv, Clear, UNCHANGED <<dialogue, module>>
  PROVE  Inv'
<1>1. /\ ~isr /\ judge = "clear" /\ judge' = "wait" /\ len' = 0 /\ full' = FALSE
      /\ UNCHANGED <<order, line, booted, buf, tim7, isr, res, wild, answer>>
      /\ UNCHANGED <<step, id, open, module>>
  BY DEF Clear, Cleared, dialogue
<1>2. TypeInv'
  <2>1. len' \in 0..Max
    BY <1>1, SensorAssumption
  <2>2. TypeInv
    BY DEF Inv
  <2>. QED
    BY <1>1, <2>1, <2>2 DEF TypeInv, module
<1>3. step # "hand" /\ Exchange /\ Says' = Says
  BY <1>1, Unmoved DEF Inv, Link, Greeting
<1>4. Stages
  BY <1>1, <1>3 DEF Exchange
<1>5. Stages'
  <2>1. CASE Asked
    BY <1>1, <2>1 DEF Asked, Silent, Stages
  <2>2. CASE Still
    BY <1>1, <2>2 DEF Still, Silent, Stages
  <2>3. CASE Coming
    BY <1>1, <1>3, <2>3 DEF Coming, Told, Silent, Stages
  <2>4. CASE Half
    BY <1>1, <1>3, <2>4 DEF Half, Told, Begun, Stages
  <2>5. CASE Whole
    BY <1>1, <1>3, <2>5 DEF Whole, Arrived, Told, Stages
  <2>6. CASE Ended
    BY <1>1, <2>6 DEF Ended, Still, Silent, Stages
  <2>7. ~HeadIn /\ ~TailIn
    BY <1>1 DEF HeadIn, TailIn
  <2>. QED
    BY <1>4, <2>1, <2>2, <2>3, <2>4, <2>5, <2>6, <2>7 DEF Stages
<1>6. Exchange'
  BY <1>1, <1>3, <1>5 DEF Exchange
<1>. QED
  BY <1>1, <1>2, <1>3, <1>6, KnownStays DEF Inv, Link

LEMMA FrameStep ==
  ASSUME Inv, TestFrame, UNCHANGED <<dialogue, module>>
  PROVE  Inv'
<1>1. /\ ~isr /\ judge = "wait" /\ full /\ judge' = "search" /\ len' = 0 /\ full' = FALSE
      /\ UNCHANGED <<order, line, booted, buf, tim7, isr, res, wild, answer>>
      /\ UNCHANGED <<step, id, open, module>>
  BY DEF TestFrame, Cleared, dialogue
<1>2. TypeInv'
  <2>1. len' \in 0..Max
    BY <1>1, SensorAssumption
  <2>2. TypeInv
    BY DEF Inv
  <2>. QED
    BY <1>1, <2>1, <2>2 DEF TypeInv, module
<1>3. step # "hand" /\ Exchange /\ Says' = Says
  BY <1>1, Unmoved DEF Inv, Link, Greeting
<1>4. Ended
  BY <1>1, <1>3, Phases DEF Inv
<1>5. Still' /\ Arrived'
  BY <1>1, <1>3, <1>4 DEF Ended, Still, Silent, Arrived, Told
<1>6. Exchange'
  BY <1>1, <1>3, <1>5 DEF Exchange
<1>. QED
  BY <1>1, <1>2, <1>3, <1>6, KnownStays DEF Inv, Link

\* JudgeStr looks for a head, and takes what follows it.
LEMMA SearchStep ==
  ASSUME Inv, Search, UNCHANGED <<dialogue, module>>
  PROVE  Inv'
<1>1. /\ judge = "search" /\ judge' = IF HeaderAt = {} THEN "wait" ELSE "read"
      /\ UNCHANGED <<order, line, booted, buf, len, full, tim7, isr, res, wild, answer>>
      /\ UNCHANGED <<step, id, open, module>>
  BY DEF Search, linkVars, dialogue
<1>2. TypeInv'
  <2>1. judge' \in {"wait", "read"}
    BY <1>1
  <2>2. TypeInv
    BY DEF Inv
  <2>. QED
    BY <1>1, <2>1, <2>2 DEF TypeInv, module
<1>3. step # "hand" /\ Exchange /\ Still /\ Arrived /\ Says' = Says
  BY <1>1, Unmoved DEF Inv, Link, Greeting, Exchange
<1>4. HeaderAt # {} => buf[1] = Header
  <2>1. SUFFICES ASSUME Told(buf[1]) PROVE HeaderAt = {}
    BY <1>3 DEF Arrived
  <2>2. buf[1].part = "tail"
    BY <2>1, PartTypes DEF Told
  <2>3. ASSUME NEW k \in HeaderAt PROVE FALSE
    <3>1. k \in 1..Max /\ buf[k].part = "head" /\ \A j \in 1..k-1 : buf[j].part = "noise"
      BY <2>3 DEF HeaderAt
    <3>2. k = 1 \/ 1 \in 1..k-1
      BY <3>1, SensorAssumption
    <3>. QED
      BY <2>2, <3>1, <3>2
  <2>. QED
    BY <2>3
<1>5. Still' /\ Arrived'
  BY <1>1, <1>3 DEF Still, Silent, Arrived, Told
<1>6. Exchange'
  BY <1>1, <1>3, <1>4, <1>5 DEF Exchange, Stages
<1>. QED
  BY <1>1, <1>2, <1>3, <1>6, KnownStays DEF Inv, Link

LEMMA ReadStep ==
  ASSUME Inv, Read, UNCHANGED <<dialogue, module>>
  PROVE  Inv'
<1>1. /\ judge = "read" /\ judge' = "done"
      /\ UNCHANGED <<order, line, booted, buf, len, full, tim7, isr, res, wild>>
      /\ UNCHANGED <<step, id, open, module>>
  BY DEF Read, linkVars, dialogue
<1>2. step # "hand" /\ Exchange /\ Still /\ Arrived /\ buf[1] = Header /\ Says' = Says
  BY <1>1, Unmoved DEF Inv, Link, Greeting, Exchange
<1>3. Told(buf[2])
  BY <1>2, PartTypes DEF Arrived, Told
<1>4. HeaderAt = {1}
  <2>1. buf[1].part = "head" /\ 1 \in 1..Max
    BY <1>2, PartTypes, SensorAssumption
  <2>2. 1 \in HeaderAt
    BY <2>1 DEF HeaderAt
  <2>3. ASSUME NEW k \in HeaderAt PROVE k = 1
    <3>1. k \in 1..Max /\ \A j \in 1..k-1 : buf[j].part = "noise"
      BY <2>3 DEF HeaderAt
    <3>2. k = 1 \/ 1 \in 1..k-1
      BY <3>1, SensorAssumption
    <3>. QED
      BY <2>1, <3>1, <3>2
  <2>. QED
    BY <2>2, <2>3
<1>5. answer' = buf[2]
  <2>1. 1 # Max
    BY SensorAssumption
  <2>. QED
    BY <1>4, <2>1 DEF Read
<1>6. TypeInv'
  <2>1. answer' \in Parts
    BY <1>3, <1>5, PartTypes DEF Told
  <2>. QED
    BY <1>1, <2>1 DEF Inv, TypeInv, module
<1>7. Exchange'
  BY <1>1, <1>2 DEF Exchange, Still, Silent
<1>8. answer'.ok => answer'.fresh /\ Says'
  BY <1>2, <1>3, <1>5 DEF Told
<1>. QED
  BY <1>1, <1>2, <1>6, <1>7, <1>8, KnownStays DEF Inv, Link

\* No answer came, and none will.
LEMMA GiveUpStep ==
  ASSUME Timely, Inv, GiveUp, UNCHANGED <<dialogue, module>>
  PROVE  Inv'
<1>1. /\ judge = "wait" /\ judge' = "done" /\ Idle /\ answer' = Timeout
      /\ UNCHANGED <<order, line, booted, buf, len, full, tim7, isr, res, wild>>
      /\ UNCHANGED <<step, id, open, module>>
  BY DEF GiveUp, linkVars, dialogue
<1>2. TypeInv'
  BY <1>1, PartTypes DEF Inv, TypeInv, module
<1>3. step # "hand" /\ Exchange
  BY <1>1 DEF Inv, Link, Greeting
<1>4. Still
  <2>1. Stages
    BY <1>1, <1>3 DEF Exchange
  <2>2. ~Asked
    BY <1>1, One DEF Idle, Asked
  <2>3. ~Coming
    BY <1>1, Two DEF Idle, Coming
  <2>4. ~HeadIn /\ ~Half /\ ~TailIn /\ ~Whole /\ ~Ended
    BY <1>1 DEF Idle, HeadIn, Half, TailIn, Whole, Ended
  <2>. QED
    BY <2>1, <2>2, <2>3, <2>4 DEF Stages
<1>5. Exchange'
  BY <1>1, <1>3, <1>4 DEF Exchange, Still, Silent
<1>6. ~answer'.ok
  BY <1>1, PartTypes
<1>. QED
  BY <1>1, <1>2, <1>3, <1>5, <1>6, KnownStays DEF Inv, Link
\* The first exchange follows the hand-shake that was answered.
LEMMA GreetsStep ==
  ASSUME Timely, Inv, Greets
  PROVE  Inv'
<1>1. /\ ~isr /\ judge = "shake" /\ judge' = "send" /\ order = <<>> /\ line = <<>> /\ ~tim7
      /\ (full => len' = 0 /\ full' = FALSE) /\ (~full => len' = len /\ full' = full)
      /\ UNCHANGED <<order, line, booted, buf, tim7, isr, res, wild, answer, id, open, module>>
      /\ step' = IF Greeted THEN "count0" ELSE "hand"
  BY DEF Greets, HandShake, Cleared
<1>2. step = "hand" /\ Greeting /\ TypeInv
  BY <1>1 DEF Inv, Link, Exchange
<1>3. TypeInv'
  <2>1. full \in BOOLEAN /\ len \in 0..Max /\ 0 \in 0..Max
    BY <1>2, SensorAssumption DEF TypeInv
  <2>2. step' \in Steps
    BY <1>1, Kinds
  <2>3. len' \in 0..Max /\ full' \in BOOLEAN
    <3>1. CASE full
      BY <1>1, <2>1, <3>1
    <3>2. CASE ~full
      BY <1>1, <2>1, <3>2
    <3>. QED
      BY <3>1, <3>2
  <2>. QED
    BY <1>1, <1>2, <2>2, <2>3 DEF TypeInv, module
<1>4. full' = FALSE /\ len' = 0
  BY <1>1, <1>2 DEF TypeInv, Greeting
<1>5. ASSUME Greeted PROVE Exchange' /\ step' = "count0"
  <2>1. booted
    BY <1>2, <1>5, PartTypes DEF Greeted, Greeting, Silent
  <2>. QED
    BY <1>1, <1>4, <1>5, <2>1 DEF Exchange, Still, Silent
<1>6. ASSUME ~Greeted PROVE Greeting' /\ step' = "hand"
  <2>1. Len(line) = 0 /\ Len(order) = 0
    BY <1>1
  <2>. QED
    BY <1>1, <1>2, <1>4, <1>6, <2>1 DEF Greeting, Silent
<1>7. Link'
  BY <1>1, <1>2, <1>5, <1>6 DEF Inv, Link
<1>8. Known'
  BY <1>1, <1>2 DEF Greeting, Known
<1>. QED
  BY <1>3, <1>7, <1>8 DEF Inv

\* Where the dialogues can go.
LEMMA Follow ==
  ASSUME NEW s \in Steps \ {"hand"}, NEW t
  PROVE  /\ t \in Confirmed[s] => /\ t \in (Steps \ {"hand"}) \cup {"idle"}
                                  /\ t = "p_search" => s = "p_gen"
                                  /\ t = "a_store" => s = "a_reg"
                                  /\ s = "p_search" => t = "idle"
         /\ t \in Refused[s] => /\ t \in (Steps \ {"hand"}) \cup {"idle"}
                                /\ t \notin {"p_search", "a_store"}
  BY Kinds DEF Confirmed, Refused

LEMMA GoOnStep == Inv /\ GoOn => Inv'
<1> SUFFICES ASSUME Inv, GoOn PROVE Inv'
  OBVIOUS
<1>1. /\ judge = "done" /\ judge' = "send" /\ answer' = Timeout
      /\ step' \in IF answer.ok THEN Confirmed[step] ELSE Refused[step]
      /\ id' \in IF step' = "a_store" THEN Places ELSE {id}
      /\ UNCHANGED <<order, line, booted, buf, len, full, tim7, isr, res, wild, module>>
  BY DEF GoOn, linkVars
<1>2. open' <=> step = "p_search" /\ answer.ok
  BY Zenon DEF GoOn
<1>3. step \in Steps \ {"hand"} /\ Exchange /\ Still
  BY <1>1 DEF Inv, Link, Greeting, Exchange, TypeInv
<1>4. step' \in (Steps \ {"hand"}) \cup {"idle"}
  BY <1>1, <1>3, Follow
<1>5. TypeInv'
  <2>1. open' \in BOOLEAN /\ id' \in Places \cup {Beyond}
    BY <1>1 DEF GoOn, Inv, TypeInv
  <2>2. TypeInv
    BY DEF Inv
  <2>. QED
    BY <1>1, <1>4, <2>1, <2>2, PartTypes DEF TypeInv, module
<1>6. Exchange'
  BY <1>1, <1>3, <1>4 DEF Exchange, Still, Silent
<1>7. Known'
  <2>1. UNCHANGED <<image, char1, char2, Enrolled>>
    BY <1>1 DEF module, Enrolled, Places
  <2>2. answer.ok => Says
    BY <1>1 DEF Inv, Link
  <2>3. step' = "p_search" => char1 = image
    BY <1>1, <1>3, <2>2, Follow DEF Says
  <2>4. step' = "a_store" => char1 = char2 /\ id' \in Places
    BY <1>1, <1>3, <2>2, Follow DEF Says
  <2>5. open' => step' = "idle" /\ image \in Enrolled /\ char1 = image
    <3>1. SUFFICES ASSUME step = "p_search", answer.ok
          PROVE  step' = "idle" /\ image \in Enrolled /\ char1 = image
      BY <1>2
    <3>2. char1 = image
      BY <3>1 DEF Inv, Known
    <3>. QED
      BY <1>1, <1>3, <2>2, <3>1, <3>2, Follow DEF Says
  <2>6. Places' = Places
    BY DEF Places
  <2>. QED
    BY <2>1, <2>3, <2>4, <2>5, <2>6 DEF Known
<1>8. Link'
  BY <1>1, <1>4, <1>6 DEF Inv, Link
<1>. QED
  BY <1>5, <1>7, <1>8 DEF Inv

LEMMA RestStep ==
  ASSUME Inv, UNCHANGED <<linkVars, cmdVars, step, id, module>>, open' \in {open, FALSE}
  PROVE  Inv'
<1>1. /\ UNCHANGED <<order, line, booted, buf, len, full, tim7, isr, res, wild, judge, answer>>
      /\ UNCHANGED <<step, id, image, char1, char2, library>>
  BY DEF linkVars, cmdVars, module
<1>2. Says' = Says
  BY <1>1, Unmoved DEF module
<1>3. TypeInv'
  <2>1. TypeInv
    BY DEF Inv
  <2>. QED
    BY <1>1, <2>1 DEF TypeInv
<1>4. Known'
  <2>1. Enrolled' = Enrolled /\ Places' = Places
    BY <1>1 DEF Enrolled, Places
  <2>2. open' => open
    OBVIOUS
  <2>. QED
    BY <1>1, <2>1, <2>2 DEF Inv, Known
<1>5. step = "hand" => Greeting'
  BY <1>1 DEF Inv, Link, Greeting, Silent
<1>6. step # "hand" => Exchange'
  <2>1. Stages => Stages'
    BY <1>1, <1>2 DEF Stages, Asked, Still, Coming, HeadIn, Half, TailIn, Whole, Ended,
       Silent, Begun, Arrived, Told
  <2>2. Still => Still'
    BY <1>1 DEF Still, Silent
  <2>3. Arrived => Arrived'
    BY <1>1, <1>2 DEF Arrived, Told
  <2>. QED
    BY <1>1, <2>1, <2>2, <2>3 DEF Inv, Link, Exchange
<1>7. Link'
  BY <1>1, <1>2, <1>5, <1>6 DEF Inv, Link
<1>. QED
  BY <1>3, <1>4, <1>7 DEF Inv

LEMMA InvStep ==
  ASSUME Timely
  PROVE  Inv /\ [Next]_vars => Inv'
<1> SUFFICES ASSUME Inv, [Next]_vars PROVE Inv'
  OBVIOUS
<1>1. CASE Thread
  <2>1. ASSUME Judge PROVE Inv'
    BY <2>1, ClearStep, FrameStep, SearchStep, ReadStep, GiveUpStep DEF Judge
  <2>2. ASSUME Shut PROVE Inv'
    BY <2>2, RestStep DEF Shut
  <2>. QED
    BY <1>1, <2>1, <2>2, BeginStep, AskStep, GreetsStep, GoOnStep DEF Thread
<1>2. CASE Interrupts
  BY <1>2, TestStep, StoreStep, TimerStep DEF Interrupts
<1>3. CASE Module
  BY <1>3, ModuleStep
<1>4. CASE (PowerOnByte \/ Lose) /\ UNCHANGED <<dialogue, module>>
  BY <1>4, BootStep, LoseStep
<1>5. CASE UNCHANGED vars
  BY <1>5, RestStep DEF vars, dialogue
<1>. QED
  BY <1>1, <1>2, <1>3, <1>4, <1>5 DEF Next

LEMMA Always ==
  ASSUME Timely
  PROVE  Spec => []Inv
<1>1. Inv /\ [Next]_vars => Inv'
  BY InvStep
<1>. QED
  BY <1>1, Starts, PTL DEF Spec

-----------------------------------------------------------------------------
LEMMA InvTypes == Inv => TypeOK
<1> SUFFICES ASSUME Inv PROVE TypeOK
  OBVIOUS
<1>1. TypeInv
  BY DEF Inv
<1>2. Len(order) <= 1
  <2>1. order = <<>> => Len(order) = 0
    OBVIOUS
  <2>2. ASSUME order # <<>> PROVE Len(order) = 1
    BY <2>2, Working
  <2>3. Len(order) \in {0, 1} /\ \A n \in {0, 1} : n <= 1
    BY <2>1, <2>2
  <2>. QED
    BY <2>3
<1>3. Len(line) <= 3
  <2>1. CASE step = "hand"
    BY <1>1, <2>1 DEF Inv, Link, Greeting, TypeInv
  <2>2. CASE step # "hand"
    <3>1. Exchange
      BY <2>2 DEF Inv, Link
    <3>2. CASE line = <<>>
      BY <3>2
    <3>3. CASE line # <<>>
      <4>1. Coming \/ HeadIn \/ Half
        BY <1>1, <3>1, <3>3, Phases DEF TailIn, TypeInv
      <4>2. Coming => \E p : line = <<Header, p>>
        BY DEF Coming
      <4>3. HeadIn \/ Half => \E p : line = <<p>>
        BY DEF HeadIn, Half
      <4>4. \A p : Len(<<Header, p>>) = 2 /\ Len(<<p>>) = 1
        OBVIOUS
      <4>5. Len(line) \in {1, 2}
        BY <4>1, <4>2, <4>3, <4>4
      <4>6. \A n \in {1, 2} : n <= 3
        OBVIOUS
      <4>. QED
        BY <4>5, <4>6
    <3>. QED
      BY <3>2, <3>3
  <2>. QED
    BY <2>1, <2>2
<1>. QED
  BY <1>1, <1>2, <1>3 DEF TypeOK, SensorTypeOK, TypeInv

\* Every variable has its type: at most one command waits in the module and one
\* answer and the byte of its start are on the line (usart2.c, as608.c).
THEOREM DialogueTypes ==
  ASSUME Timely
  PROVE  Spec => []TypeOK
  BY Always, InvTypes, PTL

\* A command is confirmed only by its own answer, though JudgeStr knows an answer
\* by its head alone (as608.c).
THEOREM DialogueMatches ==
  ASSUME Timely
  PROVE  Spec => []AnswersMatch
<1>1. Inv => AnswersMatch
  BY DEF Inv, Link, AnswersMatch
<1>. QED
  BY <1>1, Always, PTL

\* The relay opens only for an enrolled finger that was on the sensor in this press
\* (press_FR, Handle_AS608.c).
THEOREM DialogueOpens ==
  ASSUME Timely
  PROVE  Spec => []OpensForEnrolled
<1>1. Inv => OpensForEnrolled
  BY DEF Inv, Known, OpensForEnrolled
<1>. QED
  BY <1>1, Always, PTL

\* The library gets only fingers whose two images matched (Handle_AS608.c:100-190).
THEOREM DialogueEnrols ==
  ASSUME Timely
  PROVE  Spec => StoresMatched
<1>1. ASSUME Inv, [Next]_vars
      PROVE  \A k \in Places :
             library'[k] \in {library[k], NoFinger}
             \/ (char1 = char2 /\ library'[k] = char1)
  <2>1. CASE library' = library
    BY <2>1
  <2>2. CASE ChangeLibrary
    <3>1. TypeInv /\ Known
      BY <1>1 DEF Inv
    <3>2. CASE Doing("store") /\ library' = [library EXCEPT ![id] = char2]
      <4>1. step = "a_store"
        <5>1. step \in Steps /\ Asks[step] = "store"
          BY <1>1, <3>2, Working DEF Doing
        <5>. QED
          BY <5>1 DEF Steps, Asks
      <4>2. char1 = char2
        BY <3>1, <4>1 DEF Known
      <4>. QED
        BY <3>1, <3>2, <4>2 DEF TypeInv
    <3>3. CASE library' = [k \in Places |-> IF k = id THEN NoFinger ELSE library[k]]
      BY <3>3
    <3>4. CASE library' = [k \in Places |-> NoFinger]
      BY <3>4
    <3>. QED
      BY <2>2, <3>2, <3>3, <3>4 DEF ChangeLibrary
  <2>3. library' = library \/ ChangeLibrary
    BY <1>1 DEF Next, Thread, Interrupts, Module, Begin, Ask, Judge, Greets, GoOn, Shut,
       TakeImage, GenChar, Compare, Tell, Greet, vars, module
  <2>. QED
    BY <2>1, <2>2, <2>3
<1>2. Inv /\ [Next]_vars => [\A k \in Places :
         library'[k] \in {library[k], NoFinger}
         \/ (char1 = char2 /\ library'[k] = char1)]_vars
  BY <1>1
<1>. QED
  BY <1>2, Always, PTL DEF Spec, StoresMatched
=============================================================================
