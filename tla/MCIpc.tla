------------------------------- MODULE MCIpc --------------------------------
\* Threads that share one mailbox, or one message queue: which of the two is
\* created is chosen at the start, and the other one stays as it is.
EXTENDS Mailbox, MsgQueue

VARIABLE used

Waits == {0, 2, Forever}

allVars == <<waiting, mbVars, mqVars, used>>

Init == used \in {"mailbox", "queue"} /\ MbInit /\ MqInit

UseMailbox == used = "mailbox" /\ MbNext /\ UNCHANGED <<mqVars, used>>
UseQueue   == used = "queue" /\ MqNext /\ UNCHANGED <<mbVars, used>>

\* The interrupt of the tick ends the waits that are over.
TimesUp == \/ used = "mailbox" /\ (\E t \in Threads : MbTimeout(t)) /\ UNCHANGED <<mqVars, used>>
           \/ used = "queue" /\ (\E t \in Threads : MqTimeout(t)) /\ UNCHANGED <<mbVars, used>>

\* A ready thread runs in the end.
Goes(t) == \/ /\ used = "mailbox" /\ Due(MbSleepers) = {}
              /\ SendResumes(t) \/ RecvResumes(t)
              /\ UNCHANGED <<mqVars, used>>
           \/ /\ used = "queue" /\ Due(MqSleepers) = {}
              /\ Runs(t)
              /\ UNCHANGED <<mbVars, used>>

\* Mails and messages keep coming.
Arrival == \/ used = "mailbox" /\ Due(MbSleepers) = {} /\ IsrSend /\ UNCHANGED <<mqVars, used>>
           \/ used = "queue" /\ Due(MqSleepers) = {} /\ MqIsrSend /\ UNCHANGED <<mbVars, used>>

Spec == /\ Init /\ [][UseMailbox \/ UseQueue]_allVars
        /\ WF_allVars(TimesUp)
        /\ \A t \in Threads : WF_allVars(Goes(t))
        /\ SF_allVars(Arrival)
=============================================================================
