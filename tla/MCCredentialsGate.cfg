SPECIFICATION Spec
CONSTANTS
    OneUser = TRUE
    CommandsBetween = TRUE
    Passwords = {"s1", "s2"}
    AuthPasswords = {"a1"}
    Codes = {"c1"}
    Stored <- Factory
    MaxCrashes = 0
PROPERTIES RightChecked
