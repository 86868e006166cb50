SPECIFICATION Spec
CONSTANTS
    None = None
    Sessions = {s1, s2}
    Keys = {k1, k2}
    Submissions = {x1, x2}
    Jtis = {j1, j2}
    Documents = {passport}
    Attestations <- MCAttestations
    IproovConfigured = TRUE
    ReaderConfigured = TRUE
    Ttl = 0
    MaxTime = 1
    MaxBoots = 1
SYMMETRY CaptureSymmetry
INVARIANTS
    TypeOK
    PidRestsOnPersonAndChip
    AttestationMintsOnce
    OnlyOverlapResolvesTwice
    DeliveredPidIsOfSession
CHECK_DEADLOCK FALSE
