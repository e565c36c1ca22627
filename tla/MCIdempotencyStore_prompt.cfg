SPECIFICATION Spec
CONSTANTS
    Calls = {c1, c2, c3, c4}
    Prints = {f1, f2}
    None = None
    Prompt = TRUE
    MayCrash = TRUE
    MayFail = TRUE
    MayExpire = FALSE
    ReplaySafe = FALSE
SYMMETRY Symmetry
INVARIANT OneFingerprint
INVARIANT EffectsAreAccounted
CHECK_DEADLOCK FALSE
