SPECIFICATION Spec
CONSTANTS
    OneUser = TRUE
    CommandsBetween = TRUE
    Passwords = {"s1", "s2"}
    AuthPasswords = {"a1"}
    Codes = {"c1"}
    Stored <- Factory
    MaxCrashes = 1

PROPERTIES OnlyCredentials
