SPECIFICATION Spec
CONSTANTS
    None = None
    Sessions = {s1}
    Keys = {k1}
    Submissions = {x1, x2}
    Jtis = {j1, j2}
    Documents = {passport}
    Attestations <- GoodOrMismatched
    IproovConfigured = TRUE
    ReaderConfigured = TRUE
    Ttl = 1
    MaxTime = 0
    MaxBoots = 0
SYMMETRY CaptureSymmetry
INVARIANTS
    FailedIsTerminal
CHECK_DEADLOCK FALSE
