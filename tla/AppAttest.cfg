SPECIFICATION Spec
CONSTANTS
    None = None
    KeyIds = {k1, k2}
    Challenges = {c1, c2}
    MaxCount = 2
    ChallengeLifetime = 1
    Persistent = TRUE
    StoreMayFail = TRUE
    MaxTime = 1
    MaxBoots = 1
SYMMETRY AttestSymmetry
INVARIANTS
    TypeOK
    CountersIncrease
    ChallengeSpentByRegistration
    ReplayNeedsStoreFailure
PROPERTIES
    RegistrationsSurvive
CHECK_DEADLOCK FALSE
