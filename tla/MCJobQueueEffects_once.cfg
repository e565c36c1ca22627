SPECIFICATION EffectsSpec
CONSTANTS
    Jobs = {j1, j2, j3}
    Events = {e1, e2}
    Mail = {e1}
    Keyed = {e1}
    Runners = {w1, w2}
    Admins = {a1, a2}
    None = None
    MaxAttempts = 2
    Limit = 2
    MaxMishaps = 1
SYMMETRY Symmetry
CONSTRAINT FewMishaps
INVARIANT OneProcessor
INVARIANT EventSentOnce
INVARIANT DeadMailIsRetried
PROPERTY CompletedIsFinal
CHECK_DEADLOCK FALSE
