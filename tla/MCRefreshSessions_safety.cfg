SPECIFICATION Spec
CONSTANTS
    Calls = {p1, p2, p3}
    Sessions = {s1}
    None = None
    Window = 1
    Lifetime = 2
    MaxTokens = 4
    MaxVersion = 2
    MaxClock = 2
SYMMETRY Symmetry
INVARIANT TypeOK
INVARIANT OneSuccessor
PROPERTY ChangeBarsOldSessions
PROPERTY EndedIsFinal
PROPERTY WinnerIsSpared
CHECK_DEADLOCK FALSE
