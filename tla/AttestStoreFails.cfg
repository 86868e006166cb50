SPECIFICATION Spec
CONSTANTS
    None = None
    KeyIds = {k1}
    Challenges = {c1}
    MaxCount = 2
    ChallengeLifetime = 1
    Persistent = TRUE
    StoreMayFail = TRUE
    MaxTime = 1
    MaxBoots = 1
SYMMETRY AttestSymmetry
INVARIANTS
    NoReplayAcrossRestarts
CHECK_DEADLOCK FALSE
