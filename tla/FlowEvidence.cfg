SPECIFICATION Spec
CONSTANTS
    None = None
    Clients = {cl1}
    Redirects = {rd1}
    Verifiers = {v1}
    Keys = {k1, k2}
    Scopes <- ScopesEvidence
    OfferIds = {o1, o2}
    OfferedProfiles <- OffersTlsn
    ReqUris = {u1, u2}
    Codes = {c1, c2}
    Tokens = {t1, t2}
    Nonces = {n1, n2, n3}
    Jtis = {j1, j2, j3, j4}
    BindingJtis = {b1, b2}
    PidBindings <- PidBindingsEvidence
    Attestations <- AttestationsEvidence
    PidSubjects = {erika}
    Documents = {passport}
    TlsnSessions = {s1}
    HybridPqEnabled = FALSE
    ReaderConfigured = TRUE
    FiveMinutes = 1
    PidLifetime = 1
    Skew = 0
    MaxTime = 3
    MaxBoots = 1
SYMMETRY EvidenceSymmetry
CONSTRAINT Within
ACTION_CONSTRAINT NextJti
INVARIANTS
    CredentialHonoursGrant
    NonceBacksOneCredential
    NonceLedgerExact
    NfcPidEarned
    EvidenceBacksOneCredential
    BindingJtiUsedOnce
    PidBoundRestsOnPid
    DpopJtiAcceptedOnce
    OneOfferPerTlsnSession
    TlsnEvidenceWindow
PROPERTIES
    LedgerSpec
CHECK_DEADLOCK FALSE
