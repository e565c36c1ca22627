SPECIFICATION Spec
CONSTANTS
    Jobs = {j1, j2}
    Posters = {p1}
    Admins = {a1, a2}
    None = None
    Capacity = 1
    Quotas <- OneATick
    MaxClock = 1
SYMMETRY Symmetry
CONSTRAINT TwoAtATime
CONSTRAINT TwoFreeOrOnePaid
INVARIANT CapacityHolds
INVARIANT ChargesWithinQuota
CHECK_DEADLOCK FALSE
