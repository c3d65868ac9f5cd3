SPECIFICATION Spec
CONSTANTS
    OneUser = TRUE
    CommandsBetween = TRUE
    Passwords = {"s1", "s2"}
    AuthPasswords = {"a1"}
    Codes = {"c1", "c2"}
    Stored <- InUse
    MaxCrashes = 2
INVARIANTS TypeOK UnusedCodeKept
PROPERTIES UsedOnce OnlyCredentials RightAccepted ChangeStored AuthOnlyByAuth OwnerChanges
