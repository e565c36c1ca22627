SPECIFICATION FairSpec
CONSTANTS
    Calls = {c1, c2, c3}
    Prints = {f1, f2}
    None = None
    Prompt = FALSE
    MayCrash = TRUE
    MayFail = TRUE
    MayExpire = TRUE
    ReplaySafe = TRUE
INVARIANT AnswersAgree
INVARIANT CompletionIsPerformed
PROPERTY EveryCallAnswered
CHECK_DEADLOCK FALSE
