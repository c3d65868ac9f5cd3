------------------------------- MODULE Sensor -------------------------------
(***************************************************************************)
(* The link to the fingerprint module AS608: commands (the PS_ functions   *)
(* of as608.c), the receive interrupt USART2_IRQHandler, the interrupt     *)
(* TIM7_IRQHandler that ends a frame after 10 ms without a byte and has    *)
(* the higher priority, and JudgeStr, which waits for a frame that begins  *)
(* like an answer.                                                         *)
(*                                                                         *)
(* An answer has two parts: its head, which JudgeStr looks for, and the    *)
(* rest with the confirmation.  What was asked for before the command in   *)
(* progress is not fresh.                                                  *)
(***************************************************************************)
EXTENDS Naturals, Sequences

CONSTANTS Timely,   \* an answer comes before its command times out, and no
                    \* byte at the very moment that TIM7 ends a frame
          Max       \* parts the buffer holds (USART2_MAX_RECV_LEN)

ASSUME SensorAssumption == Timely \in BOOLEAN /\ Max \in Nat /\ Max >= 2

VARIABLES
    order,      \* commands sent and not yet executed by the module
    line,       \* parts on their way from the module
    booted,     \* the module has started and sent its first byte, 0x55
    buf,        \* USART2_RX_BUF
    len, full,  \* USART2_RX_STA: length, and bit 15
    tim7,       \* TIM7 counts
    isr, res,   \* the receive interrupt is about to store res
    wild,       \* history: a byte was stored outside the buffer
    judge,      \* where the command in progress is
    answer      \* the confirmation it got

linkVars == <<order, line, booted, buf, len, full, tim7, isr, res, wild>>
cmdVars  == <<judge, answer>>

Part(p, f, o) == [part |-> p, fresh |-> f, ok |-> o]
Zero    == Part("zero", FALSE, FALSE)
Noise   == Part("noise", FALSE, FALSE)
Header  == Part("head", FALSE, FALSE)
Tails   == [part : {"tail"}, fresh : BOOLEAN, ok : BOOLEAN]
Parts   == {Zero, Noise, Header} \cup Tails
Timeout == Zero       \* 0xff, no confirmation

SensorInit ==
    /\ order = <<>> /\ line = <<>> /\ booted = FALSE
    /\ buf = [k \in 1..Max |-> Zero]
    /\ len = 0 /\ full = FALSE /\ tim7 = FALSE
    /\ isr = FALSE /\ res = Zero /\ wild = FALSE
    /\ judge = "send" /\ answer = Timeout

-----------------------------------------------------------------------------
\* The module.  It executes one command after the other and answers in whole
\* frames; a command may be lost.

PowerOnByte == /\ ~booted /\ booted' = TRUE
               /\ line' = Append(line, Noise)
               /\ UNCHANGED <<order, buf, len, full, tim7, isr, res, wild, cmdVars>>

Reply(ok) == /\ booted /\ order # <<>>
             /\ order' = Tail(order)
             /\ line' = line \o <<Header, Part("tail", Head(order).fresh, ok)>>
             /\ UNCHANGED <<booted, buf, len, full, tim7, isr, res, wild, cmdVars>>

Lose == /\ order # <<>>
        /\ order' = Tail(order)
        /\ UNCHANGED <<line, booted, buf, len, full, tim7, isr, res, wild, cmdVars>>

-----------------------------------------------------------------------------
\* Interrupts

\* USART2_IRQHandler up to its two tests: a byte after bit 15 is dropped.
ReceiveTest ==
    /\ ~isr /\ line # <<>>
    /\ line' = Tail(line)
    /\ isr' = (~full /\ len < Max)
    /\ res' = IF isr' THEN Head(line) ELSE Zero
    /\ full' = (full \/ len >= Max)
    /\ UNCHANGED <<order, booted, buf, len, tim7, wild, cmdVars>>

\* The rest of it: when TIM7 came in between, bit 15 is part of the index.
ReceiveStore ==
    /\ isr /\ isr' = FALSE
    /\ tim7' = (tim7 \/ (len = 0 /\ ~full))
    /\ IF full THEN wild' = TRUE /\ UNCHANGED buf
               ELSE buf' = [buf EXCEPT ![len + 1] = res] /\ UNCHANGED wild
    /\ len' = len + 1
    /\ res' = Zero
    /\ UNCHANGED <<order, line, booted, full, cmdVars>>

\* 10 ms passed since the last byte: never inside a frame.  TIM7 has the higher
\* priority, it may come inside the receive interrupt.
Quiet == IF isr THEN ~Timely /\ res.part # "tail"
                ELSE line # <<>> => Head(line).part # "tail"

\* Mutant: the timer is not switched off.
Tim7GoesOn == /\ tim7 /\ Quiet /\ ~full
              /\ full' = TRUE
              /\ UNCHANGED <<order, line, booted, buf, len, tim7, isr, res, wild, cmdVars>>

Tim7Isr == /\ tim7 /\ Quiet
           /\ full' = TRUE /\ tim7' = FALSE
           /\ UNCHANGED <<order, line, booted, buf, len, isr, res, wild, cmdVars>>

-----------------------------------------------------------------------------
\* The thread.  It runs only outside the interrupts.

Aged(part) == [part EXCEPT !.fresh = FALSE]

\* The bytes of a command.  What is under way becomes old.
Send(c) == /\ ~isr /\ judge = "send"
           /\ order' = Append([k \in 1..Len(order) |-> [order[k] EXCEPT !.fresh = FALSE]],
                              [cmd |-> c, fresh |-> TRUE])
           /\ line' = [k \in 1..Len(line) |-> Aged(line[k])]
           /\ buf' = [k \in 1..Max |-> Aged(buf[k])]
           /\ UNCHANGED <<booted, len, full, tim7, isr, res, wild, answer>>

Cleared == len' = 0 /\ full' = FALSE

\* JudgeStr forgets what was received before, which may be the answer.
Clear == /\ ~isr /\ judge = "clear" /\ judge' = "wait"
         /\ Cleared
         /\ UNCHANGED <<order, line, booted, buf, tim7, isr, res, wild, answer>>

\* Mutant: the buffer is searched whether or not a frame was completed.
TestFrameAlways ==
    /\ ~isr /\ judge = "wait" /\ judge' = "search"
    /\ Cleared
    /\ UNCHANGED <<order, line, booted, buf, tim7, isr, res, wild, answer>>

TestFrame == /\ ~isr /\ judge = "wait" /\ full /\ judge' = "search"
             /\ Cleared
             /\ UNCHANGED <<order, line, booted, buf, tim7, isr, res, wild, answer>>

\* strstr ends at a zero byte; the head of an answer holds none, its rest does.
HeaderAt == {k \in 1..Max : /\ buf[k].part = "head"
                            /\ \A j \in 1..k-1 : buf[j].part = "noise"}

Search == /\ ~isr /\ judge = "search"
          /\ judge' = IF HeaderAt = {} THEN "wait" ELSE "read"
          /\ UNCHANGED <<linkVars, answer>>

\* data[9], whatever the buffer holds there by now; after a header that was
\* overwritten since, any value.
Read == /\ ~isr /\ judge = "read" /\ judge' = "done"
        /\ \/ \E k \in HeaderAt : k < Max /\ answer' = buf[k + 1]
           \/ (\A k \in HeaderAt : k = Max) /\ answer' \in {p \in Tails : ~p.fresh}
        /\ UNCHANGED linkVars

Idle == order = <<>> /\ line = <<>> /\ ~isr /\ ~full /\ ~tim7

\* Mutant: it waits shorter than the module takes.
GiveUpEarly == /\ ~isr /\ judge = "wait" /\ judge' = "done"
               /\ answer' = Timeout
               /\ UNCHANGED linkVars

\* The waiting time is over.
GiveUp == /\ ~isr /\ judge = "wait" /\ judge' = "done"
          /\ ~Timely \/ Idle
          /\ answer' = Timeout
          /\ UNCHANGED linkVars

\* PS_HandShake after its 200 ticks: a frame with an answer's head at its start.
Greeted == full /\ buf[1].part = "head"

\* Mutant: a frame that is no answer is left in the buffer.
HandShakeLeaves ==
    /\ ~isr /\ judge = "shake" /\ judge' = "send"
    /\ ~Timely \/ (order = <<>> /\ line = <<>> /\ ~tim7)
    /\ IF Greeted THEN Cleared ELSE UNCHANGED <<len, full>>
    /\ UNCHANGED <<order, line, booted, buf, tim7, isr, res, wild, answer>>

HandShake == /\ ~isr /\ judge = "shake" /\ judge' = "send"
             /\ ~Timely \/ (order = <<>> /\ line = <<>> /\ ~tim7)
             /\ IF full THEN Cleared ELSE UNCHANGED <<len, full>>
             /\ UNCHANGED <<order, line, booted, buf, tim7, isr, res, wild, answer>>

-----------------------------------------------------------------------------
SensorTypeOK(commands) ==
    /\ order \in Seq([cmd : commands, fresh : BOOLEAN])
    /\ line \in Seq(Parts)
    /\ buf \in [1..Max -> Parts] /\ res \in Parts
    /\ len \in 0..Max
    /\ Timely => Len(order) <= 1 /\ Len(line) <= 3
    /\ {full, booted, tim7, isr, wild} \subseteq BOOLEAN
    /\ judge \in {"send", "clear", "wait", "search", "read", "done", "shake"}
    /\ answer \in Parts

\* A command is confirmed only by its own answer: JudgeStr knows an answer by
\* its head alone (as608.c:91).
AnswersMatch == judge = "done" /\ answer.ok => answer.fresh

\* The receive interrupt stores inside its buffer: the length it tests is read
\* again as the index, and TIM7 may set bit 15 in between (usart2.c:40, 47).  It
\* holds for Timely only.
NoWildStore == ~wild
=============================================================================
