----------------------------- MODULE KernelProbe -----------------------------
(***************************************************************************)
(* Drives the kernel of IssuerKernel.  A probe starts from the session and *)
(* the request authorize_kernel assembles at some instant for a request    *)
(* with every piece of evidence in order, then degrades it, one fact or    *)
(* one bound of one piece of evidence at a time, and lets time pass before *)
(* the decision.  After every step the decision is compared with a         *)
(* reference that never looks at the session: it knows only what was       *)
(* degraded, and when the decision falls.                                  *)
(***************************************************************************)
EXTENDS IssuerKernel, FiniteSets

CONSTANTS Instants,      \* instants at which a session is assembled
          Delays,        \* seconds a decision may lag behind
          MaxFaults,     \* facts and bounds degraded in one behaviour
          ProbedPowers   \* power bits compared, some outside the taxonomy

ASSUME ProbeAssumption ==
    /\ Instants \subseteq Nat /\ Delays \subseteq Nat
    /\ MaxFaults \in Nat /\ ProbedPowers \subseteq PowerBits

\* Evidence that is there is never Rust's None.
Subjects == {"document", "pid-subject", DEMO_SUBJECT}
Evidences == [accepted : BOOLEAN, valid_from : Nat, valid_until : Nat, fresh_until : Nat]
Delegations == [delegator_evidence : Evidences, delegator : Subjects,
                delegate_key : {"holder", "other-key"}, grant : SUBSET PowerBits,
                mandate_not_revoked : BOOLEAN]
Attestations == [subject : {"document"}, sod_passive_auth : BOOLEAN,
                 chip_authentic : BOOLEAN, liveness_matched : BOOLEAN]
ChipEvidences == [evidence : Evidences, subject : {"document", "someone"},
                  sod_passive_auth : BOOLEAN, chip_authentic : BOOLEAN,
                  liveness_matched : BOOLEAN]

ASSUME NoneAssumption ==
    None \notin Subjects \cup Evidences \cup Delegations \cup Attestations \cup ChipEvidences

VARIABLES
    session, request, now,  \* what the kernel is given
    faults,                 \* facts degraded
    spoiled,                \* evidence degraded: where, and how
    requested, granted      \* two powers compared

vars == <<session, request, now, faults, spoiled, requested, granted>>

Holder == "holder"
GoodChip == [subject |-> "document", sod_passive_auth |-> TRUE,
             chip_authentic |-> TRUE, liveness_matched |-> TRUE]

ChipFor(p) == IF p \in NfcPidProfiles THEN GoodChip ELSE None
PidFor(p) == IF p \in PidBoundProfiles THEN "pid-subject" ELSE None

Init ==
    /\ \E p \in Profiles, t \in Instants :
          /\ session = SessionFor(p, Holder, "nonce", PidFor(p), ChipFor(p), t)
          /\ request = RequestFor(p, Holder, "nonce", PidFor(p), ChipFor(p), t)
          /\ now = t
    /\ faults = {} /\ spoiled = {}
    /\ requested = {} /\ granted = {}

-----------------------------------------------------------------------------
(* The facts a probe can degrade, by the part of the input they touch.     *)

EveryProfile ==
    {"disabled", "issuer_not_entitled", "profile_other", "authorization_other_profile",
     "authorization_other_subject", "authorization_other_dataset", "token_other_key",
     "proof_other_nonce", "proof_other_key", "nonce_used", "wallet_revoked",
     "key_not_approved", "no_key_attestation", "no_possession", "subject_other",
     "subject_not_entitled", "claims_stale", "dataset_other", "pid_not_verified",
     "loa_low", "expires_after_maintenance", "status_not_reserved", "already_issued",
     "hybrid_required"}
OnlyNfc == {"chip_missing", "not_passive_auth", "chip_copied", "portrait_mismatch",
            "chip_of_other"}
OnlyMandate == {"delegation_missing", "mandate_revoked", "other_delegate",
                "grant_narrower", "no_powers"}
\* Changes of policy, evidence or request that by themselves refuse nothing.
Harmless == {"hybrid_bound", "device_binding_waived", "expires_with_maintenance"}

FaultsOf(p) ==
    EveryProfile \cup Harmless
      \cup (IF p \in NfcPidProfiles THEN OnlyNfc ELSE {})
      \cup (IF p = MANDATE_SD_JWT THEN OnlyMandate ELSE {})

DegradedSession(f, s) ==
    CASE f = "disabled"                    -> [s EXCEPT !.profile.enabled = FALSE]
      [] f = "issuer_not_entitled"         -> [s EXCEPT !.issuer_entitled = FALSE]
      [] f = "profile_other"               -> [s EXCEPT !.profile.id = "other"]
      [] f = "authorization_other_profile" -> [s EXCEPT !.authorization.profile = "other"]
      [] f = "authorization_other_subject" -> [s EXCEPT !.authorization.subject = "someone"]
      [] f = "authorization_other_dataset" -> [s EXCEPT !.authorization.dataset = "other"]
      [] f = "token_other_key"             -> [s EXCEPT !.token.dpop_key = "other-key"]
      [] f = "nonce_used"                  -> [s EXCEPT !.nonce_unused = FALSE]
      [] f = "wallet_revoked"              -> [s EXCEPT !.wallet.wallet_not_revoked = FALSE]
      [] f = "key_not_approved"            -> [s EXCEPT !.wallet.holder_key_approved = FALSE]
      [] f = "no_key_attestation"          -> [s EXCEPT !.wallet.ka = None]
      [] f = "subject_other"               -> [s EXCEPT !.subject.subject = "someone"]
      [] f = "subject_not_entitled"        -> [s EXCEPT !.subject.entitled = FALSE]
      [] f = "claims_stale"                -> [s EXCEPT !.subject.claims_current = FALSE]
      [] f = "dataset_other"               -> [s EXCEPT !.subject.dataset = "other"]
      [] f = "status_not_reserved"         -> [s EXCEPT !.status_reserved = FALSE]
      [] f = "already_issued"              -> [s EXCEPT !.already_issued = TRUE]
      [] f = "hybrid_required"             -> [s EXCEPT !.profile.require_hybrid_pq = TRUE]
      [] f = "hybrid_bound"                -> [s EXCEPT !.hybrid_pq_bound = TRUE]
      [] f = "device_binding_waived"       -> [s EXCEPT !.profile.device_binding_required = FALSE]
      [] f = "loa_low"                     -> [s EXCEPT !.subject.loa_high = FALSE]
      [] f = "pid_not_verified"            -> [s EXCEPT !.subject.pid_binding_verified = FALSE]
      [] f = "chip_missing"                -> [s EXCEPT !.chip_evidence = None]
      [] f = "not_passive_auth"            -> [s EXCEPT !.chip_evidence.sod_passive_auth = FALSE]
      [] f = "chip_copied"                 -> [s EXCEPT !.chip_evidence.chip_authentic = FALSE]
      [] f = "portrait_mismatch"           -> [s EXCEPT !.chip_evidence.liveness_matched = FALSE]
      [] f = "chip_of_other"               -> [s EXCEPT !.chip_evidence.subject = "someone"]
      [] f = "delegation_missing"          -> [s EXCEPT !.delegation = None]
      [] f = "mandate_revoked"             -> [s EXCEPT !.delegation.mandate_not_revoked = FALSE]
      [] f = "other_delegate"              -> [s EXCEPT !.delegation.delegate_key = "other-key"]
      [] f = "grant_narrower"              -> [s EXCEPT !.delegation.grant = {0, 5}]
      [] OTHER                             -> s

DegradedRequest(f, r) ==
    CASE f = "proof_other_nonce"         -> [r EXCEPT !.proof.nonce = "other-nonce"]
      [] f = "proof_other_key"           -> [r EXCEPT !.proof.holder_key = "other-key"]
      [] f = "no_possession"             -> [r EXCEPT !.proof.possession_valid = FALSE]
      [] f = "expires_with_maintenance"  -> [r EXCEPT !.expiry = @ + 82800]
      [] f = "expires_after_maintenance" -> [r EXCEPT !.expiry = @ + 82801]
      [] f = "no_powers"                 -> [r EXCEPT !.requested_powers = {}]
      [] OTHER                           -> r

\* A fact inside evidence that is gone can no longer be degraded.
Present(f, s) ==
    /\ f \in OnlyNfc => s.chip_evidence # None
    /\ f \in OnlyMandate => s.delegation # None

-----------------------------------------------------------------------------
(* Evidence is spoiled where it lies, and in one of three ways.            *)

Places == {"authorization", "token", "proof", "wia", "subject", "delegator", "chip"}
Ways == {"rejected", "late", "short"}

PlacesOf(p) ==
    {"authorization", "token", "proof", "wia", "subject"}
      \cup (IF p = MANDATE_SD_JWT THEN {"delegator"} ELSE {})
      \cup (IF p \in NfcPidProfiles THEN {"chip"} ELSE {})

EvidencePresentAt(place, s) ==
    /\ place = "delegator" => s.delegation # None
    /\ place = "chip" => s.chip_evidence # None

\* Its validity begins, or ends, with the last second of its freshness.
SpoiledEvidence(way, e) ==
    CASE way = "rejected" -> [e EXCEPT !.accepted = FALSE]
      [] way = "late"     -> [e EXCEPT !.valid_from = e.fresh_until]
      [] way = "short"    -> [e EXCEPT !.valid_until = e.fresh_until]

SpoiledSession(place, way, s) ==
    CASE place = "authorization" ->
            [s EXCEPT !.authorization.evidence = SpoiledEvidence(way, @)]
      [] place = "token"     -> [s EXCEPT !.token.evidence = SpoiledEvidence(way, @)]
      [] place = "wia"       -> [s EXCEPT !.wallet.wia = SpoiledEvidence(way, @)]
      [] place = "subject"   -> [s EXCEPT !.subject.evidence = SpoiledEvidence(way, @)]
      [] place = "delegator" ->
            [s EXCEPT !.delegation.delegator_evidence = SpoiledEvidence(way, @)]
      [] place = "chip"      -> [s EXCEPT !.chip_evidence.evidence = SpoiledEvidence(way, @)]
      [] OTHER               -> s

SpoiledRequest(place, way, r) ==
    IF place = "proof" THEN [r EXCEPT !.proof.evidence = SpoiledEvidence(way, @)] ELSE r

-----------------------------------------------------------------------------

\* No powers have been chosen: the two kinds of probe are not mixed.
Undecided == requested = {} /\ granted = {}

\* No fault touches the end of the maintenance of the wallet.
AssembledAt == session.wia_ka_maintenance_end - 86400

MayDegrade == Cardinality(faults) + Cardinality(spoiled) < MaxFaults

Degrade(f) ==
    /\ MayDegrade /\ Undecided
    /\ f \in FaultsOf(request.profile) \ faults
    /\ Present(f, session)
    /\ session' = DegradedSession(f, session)
    /\ request' = DegradedRequest(f, request)
    /\ faults' = faults \cup {f}
    /\ UNCHANGED <<now, spoiled, requested, granted>>

Spoil(place, way) ==
    /\ MayDegrade /\ Undecided
    /\ place \in PlacesOf(request.profile) /\ <<place, way>> \notin spoiled
    /\ EvidencePresentAt(place, session)
    /\ session' = SpoiledSession(place, way, session)
    /\ request' = SpoiledRequest(place, way, request)
    /\ spoiled' = spoiled \cup {<<place, way>>}
    /\ UNCHANGED <<now, faults, requested, granted>>

\* The decision lags behind the assembly of the session.
Lag(d) ==
    /\ now = AssembledAt /\ Undecided
    /\ now' = now + d
    /\ UNCHANGED <<session, request, faults, spoiled, requested, granted>>

\* Two powers a mandate and a verifier's request may carry.
ChoosePowers(a, b) ==
    /\ faults = {} /\ spoiled = {} /\ now = AssembledAt /\ Undecided
    /\ requested' = a /\ granted' = b
    /\ UNCHANGED <<session, request, now, faults, spoiled>>

Next == \/ \E f \in UNION {FaultsOf(p) : p \in Profiles} : Degrade(f)
        \/ \E place \in Places, way \in Ways : Spoil(place, way)
        \/ \E d \in Delays : Lag(d)
        \/ \E a, b \in SUBSET ProbedPowers : ChoosePowers(a, b)

Spec == Init /\ [][Next]_vars

-----------------------------------------------------------------------------
(* Properties.                                                             *)

Decision == AuthorizeSign(session, request, now)

\* The facts that close no gate here: a missing post-quantum binding only
\* closes one where it is required, an absent key attestation where device
\* binding is, a low assurance level that of a PID, and an unverified PID that of
\* the profile bound to it.
Excused == (IF "hybrid_bound" \in faults THEN {"hybrid_required"} ELSE {})
             \cup (IF "device_binding_waived" \in faults
                   THEN {"key_not_approved", "no_key_attestation"} ELSE {})
             \cup (IF request.profile \in PidRoleProfiles THEN {} ELSE {"loa_low"})
             \cup (IF request.profile = QEAA_PID_BOUND_SD_JWT THEN {} ELSE {"pid_not_verified"})

\* The instant at which validity begins or ends belongs to it only at its
\* beginning.
Open(place) ==
    /\ <<place, "rejected">> \notin spoiled
    /\ <<place, "late">> \in spoiled => AssembledAt + 60 <= now
    /\ <<place, "short">> \in spoiled => now < AssembledAt + 60

\* The kernel authorises exactly the requests with no fault but the excused,
\* decided no later than the freshness of the evidence and inside the validity of
\* every piece of it.  Each conjunct of may_issue and of usable_at (lib.rs
\* 147-152 and 364-404) is decided by a fact or a bound of its own, so that none
\* can be missing, and no two of them cancel out.
GateClosesExactly ==
    Decision.ok <=> /\ faults \subseteq Harmless \cup Excused
                    /\ now <= AssembledAt + 60
                    /\ \A place \in Places : Open(place)

\* A signed mandate carries a non-empty set of powers inside the delegator's
\* grant, on behalf of that delegator, to the delegate's own key; no other
\* credential carries a power (authorize_sign, lib.rs 407-427).
MandateNarrowsGrant ==
    Decision.ok =>
        IF request.profile = MANDATE_SD_JWT
        THEN /\ Decision.granted_powers # {}
             /\ Decision.granted_powers \subseteq session.delegation.grant
             /\ Decision.on_behalf_of = session.delegation.delegator
             /\ Decision.holder_key = session.delegation.delegate_key
        ELSE Decision.granted_powers = {} /\ Decision.on_behalf_of = None

\* Over powers the taxonomy covers, containment of the scope URNs on the wire
\* is containment of the powers (the bridge of lib.rs 62-69); outside of it the
\* wire can only lose powers, never invent one.
WireScopeAgreesWithPowers ==
    LET wire == ScopeUrnsSubset(PowersToScopeUrns(requested), PowersToScopeUrns(granted))
    IN  /\ wire <=> (requested \cap TAXONOMY_MASK) \subseteq granted
        /\ requested \subseteq granted => wire

=============================================================================
