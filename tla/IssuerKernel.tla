---------------------------- MODULE IssuerKernel ----------------------------
(***************************************************************************)
(* The pure decision kernel of the issuer (rust/issuer-core/src/lib.rs)    *)
(* and the adapter authorize_kernel of the service (main.rs), which builds *)
(* the Session and the Request the kernel decides on.  No state: every     *)
(* definition is an operator.                                              *)
(*                                                                         *)
(* Identifiers that the code hashes into 128 bits (profiles, subjects,     *)
(* keys, nonces) stand for themselves: the hash is taken to be injective.  *)
(* Instants are seconds, a natural number; the saturating u64 additions    *)
(* never saturate at the instants the system clock can show.               *)
(***************************************************************************)
EXTENDS Integers

CONSTANT None       \* Rust's Option::None

-----------------------------------------------------------------------------
(* Credential profiles: the closed list of configuration identifiers.      *)

PID_SD_JWT            == "pid-sd-jwt"
PID_FROM_EMRTD_SD_JWT == "pid-from-emrtd-sd-jwt"
PID_FROM_EMRTD_MDOC   == "pid-from-emrtd-mdoc"
PID_MDOC              == "pid-mdoc"
EAA_MDOC              == "eaa-mdoc"
QEAA_SD_JWT           == "qeaa-sd-jwt"
QEAA_PID_BOUND_SD_JWT == "qeaa-pid-bound-sd-jwt"
DEV_SVIPE_PID_SD_JWT  == "svipe-pid-sd-jwt"
TLSN_EVIDENCE_SD_JWT  == "tlsn-evidence-sd-jwt"
HYBRID_PQ_SD_JWT      == "hybrid-pq-sd-jwt"
MANDATE_SD_JWT        == "mandate-sd-jwt"

NfcPidProfiles == {PID_FROM_EMRTD_SD_JWT, PID_FROM_EMRTD_MDOC}
PidRoleProfiles == NfcPidProfiles \cup {PID_SD_JWT, PID_MDOC}
QeaaProfiles == {QEAA_SD_JWT, QEAA_PID_BOUND_SD_JWT, DEV_SVIPE_PID_SD_JWT}
DevelopmentProfiles == {TLSN_EVIDENCE_SD_JWT, HYBRID_PQ_SD_JWT}

\* The profiles whose request must carry pid_binding evidence.
PidBoundProfiles == {QEAA_PID_BOUND_SD_JWT, MANDATE_SD_JWT}

Profiles == PidRoleProfiles \cup QeaaProfiles \cup DevelopmentProfiles
              \cup {EAA_MDOC, MANDATE_SD_JWT}

\* The role authorize_kernel assigns to a profile.
RoleOf(p) == CASE p \in PidRoleProfiles     -> "Pid"
               [] p \in QeaaProfiles        -> "Qeaa"
               [] p = EAA_MDOC              -> "NonQualifiedEaa"
               [] p \in DevelopmentProfiles -> "DevelopmentEvidence"
               [] p = MANDATE_SD_JWT        -> "Representation"

-----------------------------------------------------------------------------
(* Powers of representation: a u64 bitmask is the set of its bits.         *)

PowerBits == 0..63

POWER_TAXONOMY ==
    [b \in 0..5 |-> CASE b = 0 -> "present-identity"
                      [] b = 1 -> "sign-document"
                      [] b = 2 -> "authorise-payment"
                      [] b = 3 -> "manage-subscription"
                      [] b = 4 -> "access-records"
                      [] b = 5 -> "administer-account"]

TAXONOMY_MASK == DOMAIN POWER_TAXONOMY

DEMO_MANDATE_POWERS == {0, 1}

\* Bits without an entry in the taxonomy are dropped.
\* Mutant: a bit beyond the taxonomy is serialised as the last URN.
PowersToScopeUrnsClamped(powers) ==
    {POWER_TAXONOMY[IF b \in TAXONOMY_MASK THEN b ELSE 5] : b \in powers}

PowersToScopeUrns(powers) ==
    {POWER_TAXONOMY[b] : b \in powers \cap TAXONOMY_MASK}

ScopeUrnsSubset(requested, granted) == \A urn \in requested : urn \in granted

-----------------------------------------------------------------------------
(* The kernel predicate.                                                   *)

\* Mutant: the validity interval is closed at its end.
UsableAtClosed(e, now) ==
    /\ e.accepted
    /\ e.valid_from <= now
    /\ now <= e.valid_until
    /\ now <= e.fresh_until

\* Evidence::usable_at: half-open validity interval, closed freshness bound.
UsableAt(e, now) ==
    /\ e.accepted
    /\ e.valid_from <= now
    /\ now < e.valid_until
    /\ now <= e.fresh_until

RoleEvidenceOk(role, subject) == role = "Pid" => subject.loa_high

\* Mutant: the requested powers are not compared with the delegator's grant.
RepresentationUnbounded(session, request, now) ==
    session.profile.role = "Representation" =>
        /\ session.delegation # None
        /\ UsableAt(session.delegation.delegator_evidence, now)
        /\ session.delegation.mandate_not_revoked
        /\ session.delegation.delegate_key = request.proof.holder_key
        /\ request.requested_powers # {}

RepresentationOk(session, request, now) ==
    session.profile.role = "Representation" =>
        /\ session.delegation # None
        /\ UsableAt(session.delegation.delegator_evidence, now)
        /\ session.delegation.mandate_not_revoked
        /\ session.delegation.delegate_key = request.proof.holder_key
        /\ request.requested_powers # {}
        /\ request.requested_powers \subseteq session.delegation.grant

\* Mutant: the chip of another person passes the gate.
ChipLivenessOfAnyone(session, request, now) ==
    /\ session.chip_evidence # None
    /\ UsableAt(session.chip_evidence.evidence, now)
    /\ session.chip_evidence.sod_passive_auth
    /\ session.chip_evidence.chip_authentic
    /\ session.chip_evidence.liveness_matched

ChipLivenessOk(session, request, now) ==
    /\ session.chip_evidence # None
    /\ UsableAt(session.chip_evidence.evidence, now)
    /\ session.chip_evidence.sod_passive_auth
    /\ session.chip_evidence.chip_authentic
    /\ session.chip_evidence.liveness_matched
    /\ session.chip_evidence.subject = request.subject

DeviceBindingOk(profile, wallet, proof) ==
    /\ proof.possession_valid
    /\ profile.device_binding_required =>
          wallet.holder_key_approved /\ wallet.ka # None

\* may_issue: the evidence windows, then the bindings between the parts of
\* the session and the request, then the gates a profile opts into.
MayIssue(session, request, now) ==
    /\ session.profile.enabled
    /\ session.issuer_entitled
    /\ \A e \in {session.authorization.evidence, session.token.evidence,
                 request.proof.evidence, session.wallet.wia,
                 session.subject.evidence} : UsableAt(e, now)
    /\ session.profile.id = request.profile
    /\ session.authorization.profile = request.profile
    /\ session.authorization.subject = request.subject
    /\ session.authorization.dataset = request.dataset
    /\ session.token.dpop_key = request.dpop_key
    /\ request.proof.nonce = session.expected_nonce
    /\ session.nonce_unused
    /\ request.proof.holder_key = request.dpop_key
    /\ session.wallet.wallet_not_revoked
    /\ DeviceBindingOk(session.profile, session.wallet, request.proof)
    /\ session.subject.subject = request.subject
    /\ session.subject.dataset = request.dataset
    /\ session.subject.entitled
    /\ session.subject.claims_current
    /\ session.profile.pid_binding_required => session.subject.pid_binding_verified
    /\ RoleEvidenceOk(session.profile.role, session.subject)
    /\ request.expiry <= session.wia_ka_maintenance_end
    /\ session.status_reserved
    /\ ~session.already_issued
    /\ session.profile.require_hybrid_pq => session.hybrid_pq_bound
    /\ RepresentationOk(session, request, now)
    /\ session.profile.require_chip_liveness => ChipLivenessOk(session, request, now)

\* authorize_sign: Ok(SignCommand) or Err(NotAuthorized).
AuthorizeSign(session, request, now) ==
    LET mandate == session.profile.role = "Representation" /\ session.delegation # None
    IN  IF ~MayIssue(session, request, now) THEN [ok |-> FALSE]
        ELSE [ok |-> TRUE,
              profile |-> request.profile,
              subject |-> request.subject,
              holder_key |-> request.proof.holder_key,
              on_behalf_of |-> IF mandate THEN session.delegation.delegator ELSE None,
              granted_powers |-> IF mandate THEN request.requested_powers ELSE {}]

-----------------------------------------------------------------------------
(* authorize_kernel: what the service tells the kernel.  Only the profile, *)
(* the holder key, the nonce, the presented PID subject and the chip       *)
(* verdicts come from the request; the rest is wired to constants, the     *)
(* evidence windows among them, which are cut around the deciding instant. *)

DEMO_SUBJECT == "demo-education-subject"

Before(now) == IF now = 0 THEN 0 ELSE now - 1     \* saturating_sub(1)

EvidenceAround(now) ==
    [accepted |-> TRUE, valid_from |-> Before(now),
     valid_until |-> now + 300, fresh_until |-> now + 60]

SubjectFor(pid_subject, chip) ==
    IF chip # None THEN chip.subject
    ELSE IF pid_subject # None THEN pid_subject ELSE DEMO_SUBJECT

RequestFor(p, holder, nonce, pid_subject, chip, now) ==
    [profile |-> p,
     subject |-> SubjectFor(pid_subject, chip),
     dataset |-> p,
     dpop_key |-> holder,
     proof |-> [evidence |-> EvidenceAround(now), nonce |-> nonce,
                holder_key |-> holder, possession_valid |-> TRUE],
     expiry |-> now + 3600,
     requested_powers |-> IF RoleOf(p) = "Representation"
                          THEN DEMO_MANDATE_POWERS ELSE {}]

SessionFor(p, holder, nonce, pid_subject, chip, now) ==
    LET e == EvidenceAround(now)
        s == SubjectFor(pid_subject, chip)
    IN  [profile |->
           [id |-> p, role |-> RoleOf(p), enabled |-> TRUE,
            device_binding_required |-> TRUE,
            pid_binding_required |-> p = QEAA_PID_BOUND_SD_JWT,
            require_hybrid_pq |-> FALSE,
            require_chip_liveness |-> p \in NfcPidProfiles],
         authorization |-> [evidence |-> e, profile |-> p, subject |-> s, dataset |-> p],
         token |-> [evidence |-> e, dpop_key |-> holder],
         wallet |-> [wia |-> e, ka |-> e, wallet_not_revoked |-> TRUE,
                     holder_key_approved |-> TRUE],
         subject |->
           [evidence |-> e, subject |-> s, entitled |-> TRUE, claims_current |-> TRUE,
            dataset |-> p, pid_binding_verified |-> pid_subject # None,
            loa_high |-> p \in NfcPidProfiles =>
                           /\ chip # None
                           /\ chip.sod_passive_auth
                           /\ chip.chip_authentic
                           /\ chip.liveness_matched],
         expected_nonce |-> nonce,
         nonce_unused |-> TRUE, issuer_entitled |-> TRUE,
         status_reserved |-> TRUE, already_issued |-> FALSE,
         wia_ka_maintenance_end |-> now + 86400,
         hybrid_pq_bound |-> FALSE,
         delegation |->
           IF RoleOf(p) = "Representation"
           THEN [delegator_evidence |-> e, delegator |-> s, delegate_key |-> holder,
                 grant |-> TAXONOMY_MASK, mandate_not_revoked |-> TRUE]
           ELSE None,
         chip_evidence |->
           IF chip = None THEN None
           ELSE [evidence |-> e, subject |-> chip.subject,
                 sod_passive_auth |-> chip.sod_passive_auth,
                 chip_authentic |-> chip.chip_authentic,
                 liveness_matched |-> chip.liveness_matched]]

\* The early refusals of authorize_kernel, before the kernel is asked.
HasRequiredEvidence(p, pid_subject, chip) ==
    /\ p \in PidBoundProfiles => pid_subject # None
    /\ p \in NfcPidProfiles => chip # None

AuthorizeKernel(p, holder, nonce, pid_subject, chip, now) ==
    IF ~HasRequiredEvidence(p, pid_subject, chip) THEN [ok |-> FALSE]
    ELSE AuthorizeSign(SessionFor(p, holder, nonce, pid_subject, chip, now),
                       RequestFor(p, holder, nonce, pid_subject, chip, now), now)

=============================================================================
