CONSTANTS
    Nicks <- MCNicks
    MaxLines = 2
    ReadMax = 8
SPECIFICATION Spec
CHECK_DEADLOCK FALSE
INVARIANTS NickAsAsked
