-------------------------- MODULE WebSessionProofs --------------------------
(***************************************************************************)
(* Proofs about WebSession, for every number of polls and every size of    *)
(* the mailbox and the queue: the types; that the link's interrupt is      *)
(* unmasked only while the session stands and leaves a message for the     *)
(* connection thread, whenever the link falls and answers come; and, when  *)
(* answers come in time and the link falls only while its interrupt is     *)
(* unmasked, that a served session has its link and its own key and that   *)
(* nothing but commands is executed as one.                                *)
(***************************************************************************)
EXTENDS WebSession, SequenceTheorems, TLAPS

(***************************************************************************)
(* Operators.                                                              *)
(***************************************************************************)

\* A sent message leaves the queue a queue within its bound, and not empty.
LEMMA MqSendType ==
    ASSUME mq \in Seq({"fb", "nul"}), Len(mq) <= MqCap, NEW msg \in {"fb", "nul"}
    PROVE  /\ MqSend(msg) \in Seq({"fb", "nul"})
           /\ Len(MqSend(msg)) <= MqCap
           /\ MqSend(msg) # <<>>
  BY CapAssumption DEF MqSend

\* A frame that grows older stays a frame of its kind.
Held == Frames \cup Nothing
LEMMA AgedType ==
    /\ \A f \in Frames : Aged(f) \in Frames /\ Aged(f).kind = f.kind
    /\ \A f \in Held : Aged(f) \in Held /\ Aged(f).kind = f.kind
  BY DEF Aged, Older, Held, Nothing, Frames, Ages, Oldest

\* So do the frames in the mailbox, and they stay as many.
AgedMail == [k \in 1..Len(mail) |-> Aged(mail[k])]
LEMMA AgedMailType ==
    ASSUME mail \in Seq(Frames)
    PROVE  /\ AgedMail \in Seq(Frames)
           /\ Len(AgedMail) = Len(mail)
           /\ \A k \in 1..Len(mail) : AgedMail[k].kind = mail[k].kind
<1>1. \A k \in 1..Len(mail) : mail[k] \in Frames
  OBVIOUS
<1>2. Len(mail) \in Nat
  OBVIOUS
<1> QED BY <1>1, <1>2, AgedType DEF AgedMail

\* The fall of the link keeps the types of what it touches.
LEMMA FallType ==
    ASSUME TypeOK, Fall
    PROVE  /\ link' \in BOOLEAN /\ srv' \in {"none", "asked", "ok"}
           /\ pr' \in BOOLEAN /\ key' \in Ages
           /\ mail' \in Seq(Frames) /\ Len(mail') = Len(mail)
           /\ \A k \in 1..Len(mail) : mail'[k].kind = mail[k].kind
           /\ frame' \in Held /\ frame'.kind = frame.kind
<1>1. mail \in Seq(Frames) /\ frame \in Held /\ key \in Ages
  BY DEF TypeOK, Held
<1>2. mail' = AgedMail /\ frame' = Aged(frame)
  BY DEF Fall, AgedMail
<1>3. key' \in Ages
  BY <1>1 DEF Fall, Older, Ages, Oldest
<1>4. pr' \in BOOLEAN /\ link' \in BOOLEAN /\ srv' \in {"none", "asked", "ok"}
  BY DEF Fall
<1> QED BY <1>1, <1>2, <1>3, <1>4, AgedMailType, AgedType

-----------------------------------------------------------------------------
(***************************************************************************)
(* Types.                                                                  *)
(***************************************************************************)

TypeInv == TypeOK /\ (cpc = "poll" => i < Polls)

LEMMA TypeInit == Init => TypeInv
<1> SUFFICES ASSUME Init PROVE TypeInv
  OBVIOUS
<1> USE DEF Init
<1>1. link \in BOOLEAN /\ imr \in BOOLEAN /\ ftsr \in BOOLEAN /\ pr \in BOOLEAN
  BY Zenon
<1>2. frame \in Nothing /\ key \in Ages
  BY DEF NoFrame, Nothing, Ages, Oldest
<1>3. drops \in 0..MaxDrops /\ i \in 0..Polls
  BY PollsAssumption, DropsAssumption
<1>4. /\ mail \in Seq(Frames) /\ Len(mail) <= MbCap
      /\ mq \in Seq({"fb", "nul"}) /\ Len(mq) <= MqCap
  BY CapAssumption
<1> QED BY <1>1, <1>2, <1>3, <1>4 DEF TypeInv, TypeOK

LEMMA TypeStep == TypeInv /\ [Next]_vars => TypeInv'
<1> SUFFICES ASSUME TypeInv, [Next]_vars PROVE TypeInv'
  OBVIOUS
<1> USE PollsAssumption, CapAssumption, DropsAssumption DEF TypeInv, TypeOK
<1>1. CASE LinkIsr
  <2>1. mq' \in Seq({"fb", "nul"}) /\ Len(mq') <= MqCap
    BY <1>1, MqSendType DEF LinkIsr
  <2>2. imr' \in BOOLEAN /\ pr' \in BOOLEAN /\ ftsr' \in BOOLEAN
    BY <1>1, Zenon DEF LinkIsr
  <2>3. conn_flag' \in {0, 1} /\ UNCHANGED <<linkVars, key, mail, connVars, handVars>>
    BY <1>1 DEF LinkIsr
  <2> QED BY <2>1, <2>2, <2>3 DEF linkVars, connVars, handVars
<1>2. CASE LinkUp
  BY <1>2 DEF LinkUp, extiVars, connVars, handVars
<1>3. CASE LinkDown
  BY <1>3, FallType DEF LinkDown, connVars, Held
<1>4. ASSUME NEW kind \in {"ok", "no", "cmd"}, FromServer(kind), srv' \in {"none", "asked", "ok"}
      PROVE  TypeInv'
  <2>1. [kind |-> kind, age |-> 0] \in Frames
    BY DEF Frames, Ages, Oldest
  <2>2. mail' \in Seq(Frames) /\ Len(mail') <= MbCap
    BY <1>4, <2>1 DEF FromServer
  <2> QED BY <1>4, <2>2 DEF FromServer, extiVars, connVars, handVars
<1>5. CASE Accept \/ Refuse \/ Command
  BY <1>4, <1>5 DEF Accept, Refuse, Command
<1>6. CASE Reset
  BY <1>6, FallType DEF Reset, Held
<1>7. CASE Mask
  <2>1. imr' \in BOOLEAN /\ cpc' = "wait"
    BY <1>7, Zenon DEF Mask
  <2>2. UNCHANGED <<linkVars, ftsr, pr, conn_flag, key, mail, mq, i, cache, handVars>>
    BY <1>7, Zenon DEF Mask
  <2> QED BY <2>1, <2>2 DEF linkVars, handVars
<1>8. CASE Linked
  BY <1>8 DEF Linked, linkVars, extiVars, handVars
<1>9. CASE SendToken
  BY <1>9 DEF SendToken, extiVars, handVars
<1>10. CASE Poll
  BY <1>10 DEF Poll, PollAgain, PollFails, linkVars, extiVars, handVars
<1>11. CASE Arm
  BY <1>11 DEF Arm, linkVars, handVars
<1>12. CASE SendMsg
  BY <1>12 DEF SendMsg, linkVars, extiVars, handVars
<1>13. CASE MqRecv
  <2>1. mq' \in Seq({"fb", "nul"}) /\ Len(mq') <= MqCap /\ cache' \in {"none", "fb", "nul"}
    BY <1>13 DEF MqRecv
  <2>2. cpc' = "check"
    BY <1>13, Zenon DEF MqRecv
  <2>3. UNCHANGED <<linkVars, extiVars, conn_flag, key, mail, i, handVars>>
    BY <1>13, Zenon DEF MqRecv
  <2> QED BY <2>1, <2>2, <2>3 DEF linkVars, extiVars, handVars
<1>14. CASE Check
  BY <1>14 DEF Check, linkVars, extiVars, handVars
<1>15. CASE MbRecv
  <2>1. frame' \in Frames /\ mail' \in Seq(Frames) /\ Len(mail') <= MbCap
    BY <1>15 DEF MbRecv
  <2> QED BY <1>15, <2>1 DEF MbRecv, linkVars, extiVars, connVars
<1>16. CASE TakeAnswer
  <2>1. key' \in Ages
    BY <1>16 DEF TakeAnswer, Frames, Nothing
  <2> QED BY <1>16, <2>1 DEF TakeAnswer, linkVars, extiVars, connVars
<1>17. CASE SetFlag \/ Ignore
  BY <1>17 DEF SetFlag, Ignore, linkVars, extiVars, connVars
<1>18. CASE Execute
  <2>1. mq' \in Seq({"fb", "nul"}) /\ Len(mq') <= MqCap
    BY <1>18, MqSendType DEF Execute
  <2> QED BY <1>18, <2>1 DEF Execute, linkVars, extiVars, connVars
<1>19. CASE UNCHANGED vars
  BY <1>19 DEF vars, linkVars, extiVars, connVars, handVars
<1> QED BY <1>1, <1>2, <1>3, <1>5, <1>6, <1>7, <1>8, <1>9, <1>10, <1>11, <1>12, <1>13,
           <1>14, <1>15, <1>16, <1>17, <1>18, <1>19 DEF Next, Environment, Connect, Handle

\* The types, whatever the modem and the server do.
THEOREM TypeCorrect == Spec => []TypeOK
<1>1. TypeInv => TypeOK
  BY DEF TypeInv
<1> QED BY <1>1, TypeInit, TypeStep, PTL DEF Spec

-----------------------------------------------------------------------------
(***************************************************************************)
(* The interrupt and the connection thread.  The line is masked from       *)
(* before the link is looked for until conn_flag was seen, and only the    *)
(* interrupt, which masks it, takes conn_flag away; so it is unmasked only *)
(* while conn_flag is 1.  The message it leaves is there until the         *)
(* connection thread receives it, also when it was sending meanwhile.      *)
(***************************************************************************)
MaskedUntilArmed == cpc \in {"wait", "token", "poll", "arm"} => ~imr
FlagWhenArmed    == cpc = "arm" => conn_flag = 1
DropQueued       == cpc \in {"recv", "send"} /\ conn_flag = 0 => mq # <<>>

ArmInv == /\ TypeInv
          /\ ArmedWhileConnected /\ MaskedUntilArmed /\ FlagWhenArmed /\ DropQueued

LEMMA ArmInit == Init => ArmInv
  BY TypeInit DEF Init, ArmInv, ArmedWhileConnected, MaskedUntilArmed, FlagWhenArmed, DropQueued

LEMMA ArmStep == ArmInv /\ [Next]_vars => ArmInv'
<1> SUFFICES ASSUME ArmInv, [Next]_vars PROVE ArmInv'
  OBVIOUS
<1>1. TypeInv /\ TypeInv'
  BY TypeStep DEF ArmInv
<1>2. conn_flag \in {0, 1} /\ mq \in Seq({"fb", "nul"}) /\ Len(mq) <= MqCap
  BY <1>1 DEF TypeInv, TypeOK
<1> USE <1>2 DEF ArmInv, ArmedWhileConnected, MaskedUntilArmed, FlagWhenArmed, DropQueued
<1>3. CASE LinkIsr
  BY <1>1, <1>3, MqSendType DEF LinkIsr, connVars
<1>4. CASE Environment
  BY <1>1, <1>4 DEF Environment, LinkUp, LinkDown, Accept, Refuse, Command, FromServer,
                    extiVars, connVars
<1>5. CASE Reset \/ Linked \/ SendToken
  BY <1>1, <1>5 DEF Reset, Linked, SendToken, extiVars
<1>6. CASE Mask
  BY <1>1, <1>6 DEF Mask
<1>7. CASE Poll
  BY <1>1, <1>7 DEF Poll, PollSucceeds, extiVars
<1>8. CASE Arm
  BY <1>1, <1>8 DEF Arm
<1>9. CASE MqRecv
  BY <1>1, <1>9 DEF MqRecv, extiVars
<1>10. CASE Check
  BY <1>1, <1>10 DEF Check, extiVars
<1>11. CASE SendMsg
  BY <1>1, <1>11 DEF SendMsg, extiVars
<1>12. CASE MbRecv \/ TakeAnswer \/ Ignore
  BY <1>1, <1>12 DEF MbRecv, TakeAnswer, Ignore, extiVars, connVars
<1>13. CASE SetFlag
  BY <1>1, <1>13 DEF SetFlag, extiVars, connVars
<1>14. CASE Execute
  BY <1>1, <1>14, MqSendType DEF Execute, extiVars, connVars
<1>15. CASE UNCHANGED vars
  BY <1>1, <1>15 DEF vars, extiVars, connVars
<1> QED BY <1>3, <1>4, <1>5, <1>6, <1>7, <1>8, <1>9, <1>10, <1>11, <1>12, <1>13, <1>14,
           <1>15 DEF Next, Connect, Handle

\* The falling edge is never taken while conn_flag is 0: no loss of the link that
\* the interrupt sees goes unreported.
THEOREM ArmedOnlyConnected == Spec => []ArmedWhileConnected
<1>1. ArmInv => ArmedWhileConnected
  BY DEF ArmInv
<1> QED BY <1>1, ArmInit, ArmStep, PTL DEF Spec

\* The connection thread never waits for a message in a session that is over.
THEOREM DropAlwaysWakes == Spec => []DropWakesThread
<1>1. ArmInv => DropWakesThread
  BY DEF ArmInv, DropQueued, DropWakesThread
<1> QED BY <1>1, ArmInit, ArmStep, PTL DEF Spec

-----------------------------------------------------------------------------
(***************************************************************************)
(* A served session.  When the answer comes while conn_flag is polled and  *)
(* the link falls only while its interrupt is unmasked, frames cannot pass *)
(* from one session to the next as anything but commands, so the answer    *)
(* that sets conn_flag is the one to this session's token.  Whether the    *)
(* EXTI latches the edge of a reset is left open: a latched edge ends the  *)
(* next session as soon as it is armed, and its commands are then dropped, *)
(* but none of it reaches the session after.                               *)
(***************************************************************************)
Kept == ~LateAnswers /\ ~DropAnytime

Fresh(kind) == [kind |-> kind, age |-> 0]

\* All mails from the n-th on are commands of this session; of any session.
FreshFrom(n) == \A k \in n..Len(mail) : mail[k] = Fresh("cmd")
OnlyCommands == \A k \in 1..Len(mail) : mail[k].kind = "cmd"

\* The session stands: its link, its answer, its key, its commands.
Standing == /\ link /\ srv = "ok" /\ key = 0
            /\ FreshFrom(1)
            /\ hpc \in {"recv", "cmd"}

\* The session is over: what is left of it are commands.
Over == OnlyCommands /\ (hpc \in {"recv", "cmd"} \/ (hpc = "auth" /\ frame.kind = "cmd"))

\* The token was sent: not answered, refused, or accepted with the acceptance
\* in the mailbox, read, or half executed.
Idle == mail = <<>> /\ hpc = "recv"
Refused == /\ srv = "none"
           /\ \/ mail = <<>> /\ hpc = "recv"
              \/ mail = <<Fresh("no")>> /\ hpc = "recv"
              \/ mail = <<>> /\ hpc = "auth" /\ frame.kind = "no"
Accepted == /\ srv = "ok"
            /\ \/ hpc = "recv" /\ mail # <<>> /\ mail[1] = Fresh("ok") /\ FreshFrom(2)
               \/ hpc = "auth" /\ frame = Fresh("ok") /\ FreshFrom(1)
               \/ hpc = "flag" /\ key = 0 /\ FreshFrom(1)
Asked == link /\ ((srv = "asked" /\ Idle) \/ Refused \/ Accepted)

Served   == conn_flag = 1 /\ link => Standing /\ cpc \in {"poll", "arm", "recv", "check", "send"}
Falling  == conn_flag = 1 /\ ~link => /\ imr /\ pr
                                     /\ OnlyCommands /\ hpc \in {"recv", "cmd"}
Unserved == conn_flag = 0 =>
              /\ cpc \in {"reset", "mask", "wait", "recv", "check", "send"} => Over
              /\ cpc \in {"mask", "wait"} => srv = "none"
              /\ cpc = "token" => link /\ srv = "none" /\ Idle
              /\ cpc = "poll" => Asked
Line == /\ imr => ftsr /\ cpc \in {"recv", "check", "send"}
        /\ srv # "none" => link

KeptInv == ArmInv /\ Line /\ Served /\ Falling /\ Unserved

LEMMA KeptInit == Init => KeptInv
  BY ArmInit DEF Init, KeptInv, Line, Served, Falling, Unserved, Over, OnlyCommands

\* Taking the first mail: what held from the second on holds from the first.
LEMMA FreshTail ==
    ASSUME mail \in Seq(Frames), mail # <<>>, mail' = Tail(mail)
    PROVE  /\ FreshFrom(2) => FreshFrom(1)'
           /\ OnlyCommands => OnlyCommands' /\ mail[1].kind = "cmd"
           /\ FreshFrom(1) => FreshFrom(2) /\ mail[1] = Fresh("cmd")
<1>1. /\ Len(mail) \in Nat /\ Len(mail) >= 1
      /\ Len(mail') = Len(mail) - 1
      /\ \A k \in 1..Len(mail') : mail'[k] = mail[k + 1]
  BY HeadTailProperties
<1> QED BY <1>1 DEF FreshFrom, OnlyCommands

\* A command that arrives is one of this session.
LEMMA FreshAppend ==
    ASSUME mail \in Seq(Frames), mail' = Append(mail, Fresh("cmd"))
    PROVE  /\ FreshFrom(1) => FreshFrom(1)'
           /\ OnlyCommands => OnlyCommands'
           /\ FreshFrom(2) /\ mail # <<>> => FreshFrom(2)' /\ mail'[1] = mail[1] /\ mail' # <<>>
<1>1. /\ Len(mail) \in Nat
      /\ Len(mail') = Len(mail) + 1
      /\ mail'[Len(mail) + 1] = Fresh("cmd")
      /\ \A k \in 1..Len(mail) : mail'[k] = mail[k]
  BY AppendProperties DEF Fresh, Frames, Ages, Oldest
<1>2. mail # <<>> => Len(mail) >= 1
  BY <1>1
<1> QED BY <1>1, <1>2 DEF FreshFrom, OnlyCommands, Fresh

LEMMA KeptStep ==
    ASSUME Kept, KeptInv, [Next]_vars
    PROVE  KeptInv'
<1>1. ArmInv /\ ArmInv' /\ TypeInv /\ TypeOK
  BY ArmStep DEF KeptInv, ArmInv, TypeInv
<1>2. /\ mail \in Seq(Frames) /\ conn_flag \in {0, 1} /\ frame \in Held
      /\ key \in Ages /\ srv \in {"none", "asked", "ok"}
      /\ cpc \in {"reset", "mask", "wait", "token", "poll", "arm", "recv", "check", "send"}
      /\ hpc \in {"recv", "auth", "flag", "cmd", "junk"}
  BY <1>1 DEF TypeOK, Held
<1>3. imr => conn_flag = 1
  BY <1>1 DEF ArmInv, ArmedWhileConnected
<1>4. cpc = "arm" => conn_flag = 1
  BY <1>1 DEF ArmInv, FlagWhenArmed
<1> USE <1>2, <1>3, <1>4 DEF KeptInv
<1>0. ~Interrupted /\ conn_flag = 1 => link /\ Standing
  BY DEF Interrupted, Served, Falling
<1>5. CASE LinkIsr
  <2>1. /\ imr /\ conn_flag = 1 /\ conn_flag' = 0 /\ ~imr'
        /\ UNCHANGED <<linkVars, ftsr, key, mail, connVars, handVars>>
    BY <1>5 DEF LinkIsr
  <2>2. OnlyCommands /\ hpc \in {"recv", "cmd"} /\ cpc \in {"recv", "check", "send"}
    BY <2>1 DEF Line, Served, Falling, Standing, FreshFrom, OnlyCommands, Fresh
  <2>3. Over'
    BY <2>1, <2>2 DEF Over, OnlyCommands, handVars
  <2> QED BY <1>1, <2>1, <2>2, <2>3 DEF linkVars, connVars, Line, Served, Falling, Unserved
<1>6. CASE UNCHANGED vars
  BY <1>1, <1>6 DEF vars, linkVars, extiVars, connVars, handVars, Line, Served, Falling,
       Unserved, Over, OnlyCommands, Standing, FreshFrom, Asked, Idle, Refused, Accepted
<1>7. CASE ~Interrupted /\ LinkUp
  BY <1>0, <1>1, <1>7 DEF LinkUp, extiVars, connVars, handVars, Line, Served, Falling, Unserved,
       Over, OnlyCommands, Standing, FreshFrom, Asked, Idle, Refused, Accepted
<1>8. CASE ~Interrupted /\ LinkDown
  <2>1. conn_flag = 1 /\ imr /\ Standing
    BY <1>0, <1>8 DEF LinkDown, Kept
  <2>2. pr' /\ ~link' /\ srv' = "none" /\ UNCHANGED <<imr, ftsr, conn_flag, cpc, hpc>>
    BY <1>8, <2>1 DEF LinkDown, Fall, Line, connVars
  <2>3. OnlyCommands
    BY <2>1 DEF Standing, FreshFrom, OnlyCommands, Fresh
  <2>4. OnlyCommands'
    BY <1>1, <1>8, <2>3, FallType DEF LinkDown, OnlyCommands
  <2> QED BY <1>1, <2>1, <2>2, <2>4 DEF Line, Served, Falling, Unserved, Standing
<1>9. CASE ~Interrupted /\ Accept
  <2>1. cpc = "poll" /\ conn_flag = 0 /\ srv = "asked" /\ link
    BY <1>0, <1>9 DEF Accept, InTime, FromServer, Kept, Served, Standing
  <2>2. Idle
    BY <2>1 DEF Unserved, Asked, Refused, Accepted
  <2>3. mail' = <<Fresh("ok")>> /\ srv' = "ok" /\ UNCHANGED <<link, extiVars, conn_flag, connVars, handVars>>
    BY <1>9, <2>2 DEF Accept, FromServer, Idle, Fresh
  <2>4. Accepted'
    BY <2>2, <2>3 DEF Accepted, Idle, FreshFrom, handVars
  <2> QED BY <1>1, <1>9, <2>1, <2>3, <2>4 DEF extiVars, connVars, Line, Served, Falling, Unserved, Asked
<1>10. CASE ~Interrupted /\ Refuse
  <2>1. cpc = "poll" /\ conn_flag = 0 /\ srv = "asked" /\ link
    BY <1>0, <1>10 DEF Refuse, InTime, FromServer, Kept, Served, Standing
  <2>2. Idle
    BY <2>1 DEF Unserved, Asked, Refused, Accepted
  <2>3. mail' = <<Fresh("no")>> /\ srv' = "none" /\ UNCHANGED <<link, extiVars, conn_flag, connVars, handVars>>
    BY <1>10, <2>2 DEF Refuse, FromServer, Idle, Fresh
  <2>4. Refused'
    BY <2>2, <2>3 DEF Refused, Idle, handVars
  <2> QED BY <1>1, <1>10, <2>1, <2>3, <2>4 DEF extiVars, connVars, Line, Served, Falling, Unserved, Asked
<1>11. CASE ~Interrupted /\ Command
  <2>1. /\ srv = "ok" /\ mail' = Append(mail, Fresh("cmd"))
        /\ UNCHANGED <<link, srv, extiVars, conn_flag, key, connVars, handVars>>
    BY <1>11 DEF Command, FromServer, Fresh
  <2>2. CASE conn_flag = 1
    <3>1. Standing'
      BY <1>0, <1>11, <2>1, <2>2, FreshAppend DEF Standing, handVars
    <3> QED BY <1>1, <1>11, <2>1, <2>2, <3>1 DEF extiVars, connVars, Line, Served, Falling, Unserved
  <2>3. CASE conn_flag = 0 /\ cpc = "poll"
    <3>1. Accepted
      BY <2>1, <2>3 DEF Unserved, Asked, Refused
    <3>2. Accepted'
      BY <2>1, <3>1, FreshAppend DEF Accepted, handVars
    <3> QED BY <1>1, <1>11, <2>1, <2>3, <3>1, <3>2 DEF extiVars, connVars, Line, Served, Falling, Unserved, Asked
  <2>4. CASE conn_flag = 0 /\ cpc # "poll"
    <3>1. cpc \in {"reset", "recv", "check", "send"} /\ Over
      BY <2>1, <2>4 DEF Unserved
    <3>2. Over'
      BY <2>1, <3>1, FreshAppend DEF Over, handVars
    <3> QED BY <1>1, <2>1, <2>4, <3>1, <3>2 DEF extiVars, connVars, Line, Served, Falling, Unserved
  <2> QED BY <2>2, <2>3, <2>4
<1>12. CASE ~Interrupted /\ Reset
  <2>1. conn_flag = 0 /\ Over /\ ~imr
    BY <1>0, <1>12 DEF Reset, Served, Unserved, Line
  <2>2. srv' = "none" /\ cpc' = "mask" /\ UNCHANGED <<imr, ftsr, conn_flag, hpc>>
    BY <1>12, <2>1 DEF Reset, Fall, Line
  <2>3. Over'
    <3>1. CASE link
      BY <1>1, <1>12, <2>1, <3>1, FallType DEF Reset, Over, OnlyCommands
    <3>2. CASE ~link
      BY <1>12, <2>1, <3>2 DEF Reset, Over, OnlyCommands
    <3> QED BY <3>1, <3>2
  <2> QED BY <1>1, <2>1, <2>2, <2>3 DEF Line, Served, Falling, Unserved
<1>13. CASE ~Interrupted /\ (Mask \/ Linked)
  BY <1>1, <1>13 DEF Mask, Linked, linkVars, extiVars, handVars, Line, Served, Falling, Unserved,
       Over, OnlyCommands, Idle
<1>14. CASE ~Interrupted /\ SendToken
  <2>1. conn_flag = 0 /\ link /\ srv = "none" /\ Idle
    BY <1>0, <1>14 DEF SendToken, Served, Unserved
  <2> QED BY <1>1, <1>14, <2>1 DEF SendToken, extiVars, handVars, Line, Served, Falling, Unserved, Asked, Idle
<1>15. CASE ~Interrupted /\ Poll
  <2>1. UNCHANGED <<linkVars, extiVars, conn_flag, key, mail, mq, cache, handVars>>
    BY <1>15 DEF Poll
  <2>2. CASE PollSucceeds /\ cpc' = "arm"
    BY <1>1, <1>15, <2>1, <2>2 DEF Poll, PollSucceeds, linkVars, extiVars, handVars, Line, Served, Falling,
         Unserved, Standing, FreshFrom
  <2>3. CASE PollAgain /\ cpc' = cpc
    BY <1>1, <1>15, <2>1, <2>3 DEF Poll, PollAgain, linkVars, extiVars, handVars, Line, Served, Falling,
         Unserved, Asked, Idle, Refused, Accepted, FreshFrom
  <2>4. CASE PollFails /\ cpc' = "reset"
    <3>1. conn_flag = 0 /\ Idle /\ srv # "ok" /\ cpc = "poll"
      BY <1>15, <2>4 DEF Poll, PollFails, Kept, Unserved, Asked, Idle, Refused, Accepted
    <3> QED BY <1>1, <1>15, <2>1, <2>4, <3>1 DEF linkVars, extiVars, handVars, Line, Served, Falling,
              Unserved, Over, OnlyCommands, Idle
  <2> QED BY <1>15, <2>2, <2>3, <2>4 DEF Poll
<1>16. CASE ~Interrupted /\ Arm
  BY <1>1, <1>16 DEF Arm, linkVars, handVars, Line, Served, Falling, Unserved, Standing, FreshFrom
<1>17. CASE ~Interrupted /\ (MqRecv \/ Check \/ SendMsg)
  BY <1>1, <1>17 DEF MqRecv, Check, SendMsg, linkVars, extiVars, handVars, Line, Served, Falling,
       Unserved, Standing, FreshFrom, Over, OnlyCommands
<1>18. CASE ~Interrupted /\ MbRecv
  <2>1. /\ hpc = "recv" /\ mail # <<>> /\ mail' = Tail(mail) /\ frame' = mail[1]
        /\ UNCHANGED <<linkVars, extiVars, conn_flag, key, mq, connVars>>
    BY <1>18 DEF MbRecv
  <2>2. CASE conn_flag = 1
    <3>1. Standing
      BY <1>0, <1>18, <2>2
    <3>2. mail[1] = Fresh("cmd") /\ FreshFrom(1)'
      BY <2>1, <3>1, FreshTail DEF Standing
    <3>3. hpc' = "cmd"
      BY <1>18, <2>1, <2>2, <3>1, <3>2
      DEF MbRecv, TakenForAnswer, Fits, SurelyFits, Standing, Fresh, Oldest
    <3> QED BY <1>1, <1>18, <2>1, <2>2, <3>1, <3>2, <3>3
            DEF linkVars, extiVars, connVars, Line, Served, Falling, Unserved, Standing
  <2>3. CASE conn_flag = 0
    <3>1. hpc' = "auth"
      BY <1>18, <2>3 DEF MbRecv, TakenForAnswer
    <3>2. CASE cpc # "poll" /\ Over
      <4>1. Over'
        BY <2>1, <3>1, <3>2, FreshTail DEF Over
      <4> QED BY <1>1, <1>18, <2>1, <2>3, <3>2, <4>1
              DEF linkVars, extiVars, connVars, Line, Served, Falling, Unserved, Idle
    <3>3. CASE cpc = "poll" /\ Asked
      <4>1. Asked'
        BY <2>1, <3>1, <3>3, FreshTail DEF Asked, Idle, Refused, Accepted, linkVars, Fresh
      <4> QED BY <1>1, <1>18, <2>1, <2>3, <3>3, <4>1
              DEF linkVars, extiVars, connVars, Line, Served, Falling, Unserved
    <3> QED BY <2>1, <2>3, <3>2, <3>3 DEF Unserved, Idle
  <2> QED BY <2>2, <2>3
<1>19. CASE ~Interrupted /\ TakeAnswer
  <2>1. /\ hpc = "auth"
        /\ UNCHANGED <<linkVars, extiVars, conn_flag, mail, mq, connVars, frame>>
        /\ hpc' = IF frame.kind = "ok" THEN "flag" ELSE "recv"
        /\ key' = IF frame.kind = "ok" THEN frame.age ELSE key
    BY <1>19 DEF TakeAnswer, Success
  <2>2. conn_flag = 0
    BY <1>0, <1>19, <2>1 DEF Standing
  <2>3. CASE cpc # "poll" /\ Over
    <3>1. Over'
      BY <2>1, <2>3 DEF Over, OnlyCommands
    <3> QED BY <1>1, <1>19, <2>1, <2>2, <2>3, <3>1
            DEF linkVars, extiVars, connVars, Line, Served, Falling, Unserved, Idle
  <2>4. CASE cpc = "poll" /\ Asked
    <3>1. Asked'
      BY <2>1, <2>4 DEF Asked, Idle, Refused, Accepted, linkVars, Fresh, FreshFrom
    <3> QED BY <1>1, <1>19, <2>1, <2>2, <2>4, <3>1
            DEF linkVars, extiVars, connVars, Line, Served, Falling, Unserved
  <2> QED BY <2>1, <2>2, <2>3, <2>4 DEF Unserved, Idle
<1>20. CASE ~Interrupted /\ SetFlag
  <2>1. conn_flag = 0 /\ cpc = "poll" /\ Accepted /\ link
    BY <1>0, <1>20 DEF SetFlag, Standing, Unserved, Over, Idle, Asked, Refused
  <2> QED BY <1>1, <1>20, <2>1 DEF SetFlag, linkVars, extiVars, connVars, Line, Served, Falling, Unserved,
            Accepted, Standing, FreshFrom
<1>21. CASE ~Interrupted /\ (Execute \/ Ignore)
  BY <1>1, <1>21 DEF Execute, Ignore, linkVars, extiVars, connVars, Line, Served, Falling, Unserved,
       Over, OnlyCommands, Standing, FreshFrom, Asked, Idle, Refused, Accepted
<1> QED BY <1>5, <1>6, <1>7, <1>8, <1>9, <1>10, <1>11, <1>12, <1>13, <1>14, <1>15, <1>16, <1>17,
           <1>18, <1>19, <1>20, <1>21 DEF Next, Environment, Connect, Handle

LEMMA KeptAlways == ASSUME Kept PROVE Spec => []KeptInv
<1>1. KeptInv /\ [Next]_vars => KeptInv'
  BY KeptStep
<1> QED BY <1>1, KeptInit, PTL DEF Spec

LEMMA ServingStands == ASSUME KeptInv, Serving PROVE link /\ key = 0
  BY DEF KeptInv, Serving, Interrupted, Falling, Served, Standing

\* With answers in time and no fall of the link behind the mask, the connection
\* thread serves a session only while its link stands ...
THEOREM ServedLinked == ASSUME Kept PROVE Spec => []FlagMeansLinked
<1>1. KeptInv => FlagMeansLinked
  BY ServingStands DEF FlagMeansLinked
<1> QED BY <1>1, KeptAlways, PTL

\* ... with the key of that session's answer ...
THEOREM ServedFresh == ASSUME Kept PROVE Spec => []KeyFresh
<1>1. KeptInv => KeyFresh
  BY ServingStands DEF KeyFresh
<1> QED BY <1>1, KeptAlways, PTL

\* ... and what the handler decrypts as a command was sent as one, under that key.
THEOREM CommandsOnly == ASSUME Kept PROVE Spec => []CommandBranchSeesCommands
<1>1. KeptInv => CommandBranchSeesCommands
  <2> SUFFICES ASSUME KeptInv PROVE hpc # "junk"
    BY DEF CommandBranchSeesCommands
  <2>1. /\ conn_flag \in {0, 1}
        /\ cpc \in {"reset", "mask", "wait", "token", "poll", "arm", "recv", "check", "send"}
    BY DEF KeptInv, ArmInv, TypeInv, TypeOK
  <2>2. cpc = "arm" => conn_flag = 1
    BY DEF KeptInv, ArmInv, FlagWhenArmed
  <2> QED BY <2>1, <2>2 DEF KeptInv, Served, Falling, Unserved, Standing, Over, Idle, Asked,
          Refused, Accepted
<1> QED BY <1>1, KeptAlways, PTL
=============================================================================
