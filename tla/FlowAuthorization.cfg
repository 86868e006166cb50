SPECIFICATION Spec
CONSTANTS
    None = None
    Clients = {cl1, cl2}
    Redirects = {rd1, rd2}
    Verifiers = {v1, v2}
    Keys = {k1}
    Scopes <- ScopesBasic
    OfferIds = {}
    OfferedProfiles <- NoOffers
    ReqUris = {u1, u2, u3}
    Codes = {c1, c2, c3}
    Tokens = {t1, t2}
    Nonces = {}
    Jtis = {j1, j2}
    BindingJtis = {}
    PidBindings <- NoPidBindings
    Attestations <- NoAttestations
    PidSubjects = {erika}
    Documents = {passport}
    TlsnSessions = {}
    HybridPqEnabled = FALSE
    ReaderConfigured = TRUE
    FiveMinutes = 1
    PidLifetime = 1
    Skew = 0
    MaxTime = 0
    MaxBoots = 1
SYMMETRY WalletSymmetry
INVARIANTS
    TypeOK
    CodeRedeemedOnce
    GrantHonoursPar
CHECK_DEADLOCK FALSE
