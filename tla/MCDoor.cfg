SPECIFICATION FairSpec
CONSTANTS
    Second = 2
    Tenth = 1
INVARIANTS NeverLeftOn
PROPERTIES BoltCloses
