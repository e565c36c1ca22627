SPECIFICATION FairSpec
CONSTANTS
    Uploads = {u1}
    Reviews = {p1}
    Scanners = {s1, s2}
    None = None
    MaxAttempts = 3
    Ahead = 1
    MayStop = TRUE
PROPERTY EveryScanEnds
CHECK_DEADLOCK FALSE
