SPECIFICATION FairSpec
CONSTANTS
    Jobs = {j1, j2}
    Events = {e1}
    Mail = {e1}
    Keyed = {e1}
    Runners = {w1, w2}
    Admins = {a1}
    None = None
    MaxAttempts = 2
    Limit = 2
CONSTRAINT FewAttempts
PROPERTY EveryJobSettles
CHECK_DEADLOCK FALSE
