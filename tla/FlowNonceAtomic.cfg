SPECIFICATION Spec
CONSTANTS
    None = None
    Clients = {cl1}
    Redirects = {rd1}
    Verifiers = {v1}
    Keys = {k1}
    Scopes <- ScopesBasic
    OfferIds = {}
    OfferedProfiles <- NoOffers
    ReqUris = {u1}
    Codes = {c1}
    Tokens = {t1}
    Nonces = {n1}
    Jtis = {j1, j2}
    BindingJtis = {}
    PidBindings <- NoPidBindings
    Attestations <- NoAttestations
    PidSubjects = {erika}
    Documents = {passport}
    TlsnSessions = {}
    HybridPqEnabled = FALSE
    ReaderConfigured = TRUE
    FiveMinutes = 1
    PidLifetime = 1
    Skew = 0
    MaxTime = 0
    MaxBoots = 0
SYMMETRY WalletSymmetry
INVARIANTS
    ConsumedNonceWasIssued
CHECK_DEADLOCK FALSE
