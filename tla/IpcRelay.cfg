CONSTANTS
    Texts <- MCTexts
    MaxSend = 2
SPECIFICATION Spec
CHECK_DEADLOCK FALSE
INVARIANTS WallopsIntact
