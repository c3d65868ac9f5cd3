----------------------------- MODULE WebSession -----------------------------
(***************************************************************************)
(* The session of the lock with its server (User/Bsp/web/newweb.c): the    *)
(* thread newwebconnect_entry resets the modem, waits for the link, sends  *)
(* the token, polls conn_flag for the answer and then sends feedback and   *)
(* heartbeats; the thread newwebhandle_entry takes the frames of the       *)
(* server and, by conn_flag alone, treats one as the answer to the token   *)
(* or as a command; the falling edge of the link pin interrupts            *)
(* (EXTI1_IRQHandler) and takes conn_flag away again.                      *)
(*                                                                         *)
(* Sessions are not numbered: a frame and the key have an age, 0 for the   *)
(* session the link carries now, 1 for the one before, Oldest for all      *)
(* earlier ones, and grow older when the link falls.  So the number of     *)
(* sessions has no bound; whether a frame fits the key is left open when   *)
(* both are Oldest.                                                        *)
(***************************************************************************)
EXTENDS Naturals, Sequences

CONSTANTS Polls,        \* polls of conn_flag before giving up (50)
          MbCap,        \* mails waiting for the handler
          MqCap,        \* messages waiting for the connection thread (10)
          Latch,        \* whether the EXTI latches an edge while its line is
                        \* masked: {FALSE}, {TRUE}, or BOOLEAN for either
          LateAnswers,  \* the answer may still be on its way at the last poll
          DropAnytime,  \* the link may also fall while its line is masked
          MaxDrops      \* bound of the model: times the link falls by itself

ASSUME PollsAssumption == Polls \in Nat \ {0}
ASSUME CapAssumption   == MbCap \in Nat \ {0} /\ MqCap \in Nat \ {0}
ASSUME FlagsAssumption == {LateAnswers, DropAnytime} \cup Latch \subseteq BOOLEAN
ASSUME DropsAssumption == MaxDrops \in Nat

VARIABLES
    link,       \* level of the LIKA pin: the modem is connected to the server
    srv,        \* the server, in this session: "none", "asked", "ok"
    drops,      \* times the link fell by itself
    imr,        \* the EXTI line of LIKA is unmasked
    ftsr,       \* its falling edge was selected (by the first unmasking)
    pr,         \* its pending bit
    conn_flag,  \* 0 or 1, written by the handler and the interrupt
    key,        \* the age of the session comm_key belongs to
    mail,       \* mailbox webmsg_recemb: frames for the handler
    mq,         \* message queue webmsg_sendmq: "fb" feedback, "nul" the '\0'
    cpc,        \* where newwebconnect_entry is
    i,          \* its poll counter
    cache,      \* what it received from mq, "none" after the timeout
    hpc,        \* where newwebhandle_entry is
    frame       \* the frame it handles

linkVars == <<link, srv, drops>>
extiVars == <<imr, ftsr, pr>>
connVars == <<cpc, i, cache>>
handVars == <<hpc, frame>>
vars == <<linkVars, extiVars, conn_flag, key, mail, mq, connVars, handVars>>

Oldest  == 2
Ages    == 0..Oldest
Frames  == [kind : {"ok", "no", "cmd"}, age : Ages]
Nothing == [kind : {"none"}, age : Ages]
NoFrame == [kind |-> "none", age |-> Oldest]

Init == /\ link = FALSE /\ srv = "none" /\ drops = 0
        /\ imr = FALSE /\ ftsr = FALSE /\ pr = FALSE
        /\ conn_flag = 0 /\ key = Oldest
        /\ mail = <<>> /\ mq = <<>>
        /\ cpc = "reset" /\ i = 0 /\ cache = "none"
        /\ hpc = "recv" /\ frame = NoFrame

-----------------------------------------------------------------------------
\* The link falls: an edge for the EXTI, and the end of the session.
Older(age) == IF age < Oldest THEN age + 1 ELSE Oldest
Aged(f)    == [f EXCEPT !.age = Older(@)]

Fall == /\ link' = FALSE
        /\ srv' = "none"
        /\ \E l \in Latch : pr' = (pr \/ (ftsr /\ (imr \/ l)))
        /\ key' = Older(key)
        /\ mail' = [k \in 1..Len(mail) |-> Aged(mail[k])]
        /\ frame' = Aged(frame)

\* The modem and the network.
LinkUp == /\ ~link
          /\ cpc \notin {"reset", "mask"}
          /\ link' = TRUE
          /\ UNCHANGED <<srv, drops, extiVars, conn_flag, key, mail, mq,
                         connVars, handVars>>

LinkDown == /\ link
            /\ drops < MaxDrops
            /\ DropAnytime \/ imr
            /\ Fall
            /\ drops' = drops + 1
            /\ UNCHANGED <<imr, ftsr, conn_flag, mq, connVars, hpc>>

\* The server answers a token once, and sends commands after it accepted it.
FromServer(kind) == /\ link
                    /\ Len(mail) < MbCap
                    /\ mail' = Append(mail, [kind |-> kind, age |-> 0])
                    /\ UNCHANGED <<link, drops, extiVars, conn_flag, key, mq,
                                   connVars, handVars>>
InTime == LateAnswers \/ cpc = "poll"
Accept  == srv = "asked" /\ InTime /\ FromServer("ok") /\ srv' = "ok"
Refuse  == srv = "asked" /\ InTime /\ FromServer("no") /\ srv' = "none"
Command == srv = "ok" /\ FromServer("cmd") /\ UNCHANGED srv

-----------------------------------------------------------------------------
\* rt_mq_send, its result ignored by every caller.
MqSend(m) == IF Len(mq) < MqCap THEN Append(mq, m) ELSE mq

\* EXTI1_IRQHandler.
LinkIsrSilent ==                    \* mutant: does not wake the connection thread
    /\ imr /\ pr
    /\ pr' = FALSE
    /\ imr' = (imr /\ conn_flag = 0)
    /\ conn_flag' = 0
    /\ UNCHANGED <<linkVars, ftsr, key, mq, mail, connVars, handVars>>
LinkIsrUnmasked ==                  \* mutant: leaves its line enabled
    /\ imr /\ pr
    /\ pr' = FALSE
    /\ conn_flag' = 0
    /\ mq' = IF conn_flag = 1 THEN MqSend("nul") ELSE mq
    /\ UNCHANGED <<linkVars, imr, ftsr, key, mail, connVars, handVars>>
LinkIsr ==
    /\ imr /\ pr
    /\ pr' = FALSE
    /\ \/ /\ conn_flag = 1
          /\ imr' = FALSE
          /\ conn_flag' = 0
          /\ mq' = MqSend("nul")
       \/ /\ conn_flag = 0
          /\ UNCHANGED <<imr, conn_flag, mq>>
    /\ UNCHANGED <<linkVars, ftsr, key, mail, connVars, handVars>>

-----------------------------------------------------------------------------
\* newwebconnect_entry.  G4_RST: the modem restarts, the link falls.
Reset == /\ cpc = "reset"
         /\ IF link THEN Fall ELSE UNCHANGED <<link, srv, pr, key, mail, frame>>
         /\ cpc' = "mask"
         /\ UNCHANGED <<drops, imr, ftsr, conn_flag, mq, i, cache, hpc>>

\* G4_SetLIKAPin(0); EXTI_Init with DISABLE clears the mask bit only.
Mask == /\ cpc = "mask"
        /\ imr' = FALSE
        /\ cpc' = "wait"
        /\ UNCHANGED <<linkVars, ftsr, pr, conn_flag, key, mail, mq, i, cache,
                       handVars>>

\* G4_CheckLIKA, after the delay of 2000 and every 50 ticks.  The delay outlasts
\* what the handler does with the mails of the session before: without
\* conn_flag it sleeps for no command but the one it is in, for 1000.
Linked == /\ cpc = "wait"
          /\ mail = <<>> /\ hpc = "recv"
          /\ link
          /\ cpc' = "token"
          /\ UNCHANGED <<linkVars, extiVars, conn_flag, key, mail, mq, i, cache,
                         handVars>>

\* G4_SendArray(token): it reaches the server when the link is up.
SendToken == /\ cpc = "token"
             /\ srv' = IF link THEN "asked" ELSE srv
             /\ i' = 0
             /\ cpc' = "poll"
             /\ UNCHANGED <<link, drops, extiVars, conn_flag, key, mail, mq, cache,
                            handVars>>

\* After each delay of 100 conn_flag is read; the last read that finds 0 ends in
\* `continue', a new reset.
PollSucceeds == conn_flag = 1
PollAgain    == conn_flag = 0 /\ i + 1 < Polls
PollFails    == /\ conn_flag = 0
                /\ i + 1 >= Polls
                /\ LateAnswers \/ (mail = <<>> /\ hpc = "recv")
Poll == /\ cpc = "poll"
        /\ \/ PollSucceeds /\ cpc' = "arm" /\ UNCHANGED i
           \/ PollAgain /\ i' = i + 1 /\ UNCHANGED cpc
           \/ PollFails /\ cpc' = "reset" /\ i' = i + 1
        /\ UNCHANGED <<linkVars, extiVars, conn_flag, key, mail, mq, cache,
                       handVars>>

\* G4_SetLIKAPin(1); EXTI_Init with ENABLE also selects the falling edge.
ArmNoTrigger ==                     \* mutant: no edge is selected
    /\ cpc = "arm"
    /\ imr' = TRUE
    /\ cpc' = "recv"
    /\ UNCHANGED <<linkVars, ftsr, pr, conn_flag, key, mail, mq, i, cache, handVars>>
Arm == /\ cpc = "arm"
       /\ imr' = TRUE
       /\ ftsr' = TRUE
       /\ cpc' = "recv"
       /\ UNCHANGED <<linkVars, pr, conn_flag, key, mail, mq, i, cache, handVars>>

\* rt_mq_recv with a timeout of 5000.
MqRecv == /\ cpc = "recv"
          /\ \/ mq # <<>> /\ cache' = Head(mq) /\ mq' = Tail(mq)
             \/ mq = <<>> /\ cache' = "none" /\ UNCHANGED mq
          /\ cpc' = "check"
          /\ UNCHANGED <<linkVars, extiVars, conn_flag, key, mail, i, handVars>>

\* conn_flag is read once more; the empty string ('\0') is not sent.
CheckLengthOnly ==                  \* mutant: conn_flag is not read again
    /\ cpc = "check"
    /\ cpc' = IF cache = "nul" THEN "recv" ELSE "send"
    /\ UNCHANGED <<linkVars, extiVars, conn_flag, key, mail, mq, i, cache, handVars>>
Check == /\ cpc = "check"
         /\ \/ conn_flag = 0 /\ cpc' = "reset"
            \/ conn_flag = 1 /\ cache = "nul" /\ cpc' = "recv"
            \/ conn_flag = 1 /\ cache # "nul" /\ cpc' = "send"
         /\ UNCHANGED <<linkVars, extiVars, conn_flag, key, mail, mq, i, cache,
                        handVars>>

\* assembleWebMsg encrypts with comm_key; feedback or the heartbeat goes out.
SendMsg == /\ cpc = "send"
           /\ cpc' = "recv"
           /\ UNCHANGED <<linkVars, extiVars, conn_flag, key, mail, mq, i, cache,
                          handVars>>

-----------------------------------------------------------------------------
\* newwebhandle_entry.  rt_mb_recv, then the branch on conn_flag: an answer to
\* be parsed as it is, or a command to be decrypted with comm_key.
Fits(f)      == f.kind = "cmd" /\ f.age = key
SurelyFits(f) == Fits(f) /\ key < Oldest

TakenForCommand == conn_flag = 1    \* mutant: the branches swapped
TakenForAnswer  == conn_flag = 0

MbRecv == /\ hpc = "recv"
          /\ mail # <<>>
          /\ LET f == Head(mail) IN
               /\ frame' = f
               /\ \/ TakenForAnswer /\ hpc' = "auth"
                  \/ ~TakenForAnswer /\ Fits(f) /\ hpc' = "cmd"
                  \/ ~TakenForAnswer /\ ~SurelyFits(f) /\ hpc' = "junk"
          /\ mail' = Tail(mail)
          /\ UNCHANGED <<linkVars, extiVars, conn_flag, key, mq, connVars>>

\* The answer to the token: only a success has a key; it is copied to comm_key.
\* Anything else does not parse, or has no success in it.
Parses  == frame.kind \in {"ok", "no"}  \* mutant: "res" is not looked at
Success == frame.kind = "ok"
TakeAnswer == /\ hpc = "auth"
              /\ key' = IF frame.kind = "ok" THEN frame.age ELSE key
              /\ hpc' = IF Success THEN "flag" ELSE "recv"
              /\ UNCHANGED <<linkVars, extiVars, conn_flag, mail, mq, connVars, frame>>

\* conn_flag = 1.
SetFlag == /\ hpc = "flag"
           /\ conn_flag' = 1
           /\ hpc' = "recv"
           /\ UNCHANGED <<linkVars, extiVars, key, mail, mq, connVars, frame>>

\* A command is executed and its feedback queued; what did not decrypt does
\* not parse either, and nothing is done.
Execute == /\ hpc = "cmd"
           /\ mq' = MqSend("fb")
           /\ hpc' = "recv"
           /\ UNCHANGED <<linkVars, extiVars, conn_flag, key, mail, connVars, frame>>

Ignore == /\ hpc = "junk"
          /\ hpc' = "recv"
          /\ UNCHANGED <<linkVars, extiVars, conn_flag, key, mail, mq, connVars, frame>>

Environment == LinkUp \/ LinkDown \/ Accept \/ Refuse \/ Command
Connect == \/ Reset \/ Mask \/ Linked \/ SendToken \/ Poll \/ Arm
           \/ MqRecv \/ Check \/ SendMsg
Handle  == MbRecv \/ TakeAnswer \/ SetFlag \/ Execute \/ Ignore

\* A pending interrupt whose line is unmasked runs before anything else does.
Interrupted == imr /\ pr
Next == \/ LinkIsr
        \/ ~Interrupted /\ (Environment \/ Connect \/ Handle)

Spec == Init /\ [][Next]_vars

\* The threads and the interrupt run; a modem without link connects; a server
\* asked again and again accepts in the end.
FairSpec == /\ Spec
            /\ WF_vars(LinkIsr) /\ WF_vars(Connect) /\ WF_vars(Handle)
            /\ WF_vars(LinkUp) /\ SF_vars(Accept)

-----------------------------------------------------------------------------
TypeOK ==
    /\ link \in BOOLEAN /\ srv \in {"none", "asked", "ok"} /\ drops \in 0..MaxDrops
    /\ imr \in BOOLEAN /\ ftsr \in BOOLEAN /\ pr \in BOOLEAN
    /\ conn_flag \in {0, 1} /\ key \in Ages
    /\ mail \in Seq(Frames) /\ Len(mail) <= MbCap
    /\ mq \in Seq({"fb", "nul"}) /\ Len(mq) <= MqCap
    /\ cpc \in {"reset", "mask", "wait", "token", "poll", "arm", "recv", "check", "send"}
    /\ i \in 0..Polls /\ cache \in {"none", "fb", "nul"}
    /\ hpc \in {"recv", "auth", "flag", "cmd", "junk"}
    /\ frame \in Frames \cup Nothing

\* The interrupt acts only when conn_flag is 1; whenever its line is unmasked
\* conn_flag is 1, so no falling edge it sees goes unreported (the order of
\* stm32f10x_it.c:16-17 and newweb.c:103-118).
ArmedWhileConnected == imr => conn_flag = 1

\* A connection thread that blocks on the queue after conn_flag was taken away
\* has a message to wake it, even when the queue was full and the '\0' of the
\* interrupt was dropped.
DropWakesThread == cpc = "recv" /\ conn_flag = 0 => mq # <<>>

\* "conn_flag: authentication done, connected to the server" (newweb.c:40): the
\* connection thread serves a session with conn_flag = 1 only while the link
\* stands, but for the instant in which the interrupt is pending ...
Serving == cpc \in {"recv", "check", "send"} /\ conn_flag = 1 /\ ~Interrupted
FlagMeansLinked == Serving => link

\* ... and encrypts with the key this session's answer brought.
KeyFresh == Serving => key = 0

\* "After authentication: the commands to the device" (newweb.c:206): what the
\* handler decrypts as a command was sent as a command under the key it has.
CommandBranchSeesCommands == hpc # "junk"

\* Once the link falls no more by itself, the lock comes to serve one session for
\* ever, with its link and its key.
StaysOnline == <>[](Serving /\ link /\ key = 0 /\ srv = "ok")
=============================================================================
