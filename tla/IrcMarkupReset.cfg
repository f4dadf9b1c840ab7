CONSTANTS
    MaxLen = 5
    Controls = {"^B", "^C", "^G", "^O", "^_"}
    Inputs <- MCInputs
SPECIFICATION Spec
\* irc2markup returns: its last state has no successor.
CHECK_DEADLOCK FALSE
INVARIANTS MarkupFaithful
