SPECIFICATION Spec
CONSTANTS
    Threads = {t1, t2}
    Timeouts <- Waits
    Mails = {m1, m2}
    NoMail = NoMail
    Size = 2
    Msgs = {m1, m2}
    NoMsg = NoMsg
    max_msgs = 2
INVARIANTS MbTypeOK MqTypeOK MbNoLostWakeup MqNoLostWakeup Patience SlotsConserved
PROPERTIES MailboxIsQueue MsgQueueIsQueue WaitEnds
