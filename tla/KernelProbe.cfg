SPECIFICATION Spec
CONSTANTS
    None = None
    Instants = {0, 1000}
    Delays = {59, 60, 61}
    MaxFaults = 2
    ProbedPowers = {0, 1, 5, 6, 63}
INVARIANTS
    GateClosesExactly
    MandateNarrowsGrant
    WireScopeAgreesWithPowers
CHECK_DEADLOCK FALSE
