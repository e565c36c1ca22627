SPECIFICATION Spec
CONSTANTS
    Requests = {r1}
    Quotes = {q1, q2}
    Cases = {c1, c2}
    Handlers = {h1, h2}
    Fees = {f1}
    NoFees = NoFees
    None = None
    Validity = {1}
    MaxClock = 1
    MaxVersion = 1
    Ahead = 1
    MayCrash = TRUE
SYMMETRY Symmetry
INVARIANT TypeOK
INVARIANT OneActiveQuote
INVARIANT CaseRecordsAcceptance
INVARIANT TotalsMatchFees
INVARIANT QuotedRequestIsEngaged
PROPERTY DecidedQuotesAreFinal
PROPERTY ImplementsContract
CHECK_DEADLOCK FALSE
