SPECIFICATION FairSpec
CONSTANTS
    Requests = {r1}
    Quotes = {q1}
    Cases = {c1}
    Handlers = {h1, h2}
    Fees = {f1}
    NoFees = NoFees
    None = None
    Validity = {1}
    MaxClock = 1
    MaxVersion = 1
    Ahead = 0
    MayCrash = FALSE
CHECK_DEADLOCK FALSE
INVARIANT SentOnCancelledIsOwned
PROPERTY SentOnCancelledIsWithdrawn
