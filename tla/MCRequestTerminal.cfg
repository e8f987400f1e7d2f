SPECIFICATION Spec
CONSTANTS
    Calls = {c1, c2}
    MaxEvents = 4
PROPERTY TerminalIsFinal
CHECK_DEADLOCK FALSE
