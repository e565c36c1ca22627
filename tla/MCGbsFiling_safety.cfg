SPECIFICATION Spec
CONSTANTS
    Clerks = {c1, c2}
    Tasks = {t1, t2}
    Keys = {k1, k2}
    Required = {k1}
    None = None
    MaxCaseVersion = 3
    AheadCase = 1
    Filers = {f1, f2}
    MaxAuths = 2
    MaxAuthVersion = 3
SYMMETRY Symmetry
CONSTRAINT TwoAtATime
CONSTRAINT ShortWithFiling
INVARIANT TypeOK
INVARIANT ReadyMeansDone
INVARIANT FilingIsAuthorized
INVARIANT OneFiling
INVARIANT RevocationHolds
INVARIANT UsedIsFiled
PROPERTY TasksAreKept
CHECK_DEADLOCK FALSE
