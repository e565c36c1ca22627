SPECIFICATION Spec
CONSTANTS
    Uploads = {u1, u2}
    Reviews = {p1}
    Scanners = {s1, s2}
    None = None
    MaxAttempts = 2
    Ahead = 1
    MayStop = TRUE
SYMMETRY Symmetry
INVARIANT TypeOK
INVARIANT ReviewedIsClean
INVARIANT BytesFollowVerdict
INVARIANT AttachedIsQueued
PROPERTY DecidedIsFinal
PROPERTY AcceptedIsLocked
CHECK_DEADLOCK FALSE
