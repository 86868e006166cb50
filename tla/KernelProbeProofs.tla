-------------------------- MODULE KernelProbeProofs --------------------------
(***************************************************************************)
(* Theorems about KernelProbe, for every set of instants and delays and    *)
(* any number of degraded facts and spoiled evidence.  The invariant reads *)
(* every fact of the session and the request off the two sets that say     *)
(* what was degraded, one part of the input after the other; what the      *)
(* kernel answers is then a question about those sets and the time alone.  *)
(***************************************************************************)
EXTENDS KernelProbe, TLAPS

-----------------------------------------------------------------------------
(* The parts of a session assembled at t for profile p, with the facts of  *)
(* F degraded and the evidence of S spoiled.                               *)

\* Evidence cut around t.
EvidenceOf(e, place, t, S) ==
    /\ e \in Evidences
    /\ e.accepted <=> <<place, "rejected">> \notin S
    /\ e.valid_from = IF <<place, "late">> \in S THEN t + 60 ELSE Before(t)
    /\ e.valid_until = IF <<place, "short">> \in S THEN t + 60 ELSE t + 300
    /\ e.fresh_until = t + 60

Presented(p) == SubjectFor(PidFor(p), ChipFor(p))

ProfileOf(x, p, F) ==
    /\ DOMAIN x = {"id", "role", "enabled", "device_binding_required",
                   "pid_binding_required", "require_hybrid_pq", "require_chip_liveness"}
    /\ x.id = IF "profile_other" \in F THEN "other" ELSE p
    /\ x.role = RoleOf(p)
    /\ x.enabled <=> "disabled" \notin F
    /\ x.device_binding_required <=> "device_binding_waived" \notin F
    /\ x.pid_binding_required <=> p = QEAA_PID_BOUND_SD_JWT
    /\ x.require_hybrid_pq <=> "hybrid_required" \in F
    /\ x.require_chip_liveness <=> p \in NfcPidProfiles
ProfileFaults == {"profile_other", "disabled", "device_binding_waived", "hybrid_required"}

AuthorizationOf(x, p, t, F, S) ==
    /\ DOMAIN x = {"evidence", "profile", "subject", "dataset"}
    /\ EvidenceOf(x.evidence, "authorization", t, S)
    /\ x.profile = IF "authorization_other_profile" \in F THEN "other" ELSE p
    /\ x.subject = IF "authorization_other_subject" \in F THEN "someone" ELSE Presented(p)
    /\ x.dataset = IF "authorization_other_dataset" \in F THEN "other" ELSE p
AuthorizationFaults == {"authorization_other_profile", "authorization_other_subject",
                        "authorization_other_dataset"}

TokenOf(x, t, F, S) ==
    /\ DOMAIN x = {"evidence", "dpop_key"}
    /\ EvidenceOf(x.evidence, "token", t, S)
    /\ x.dpop_key = IF "token_other_key" \in F THEN "other-key" ELSE Holder
TokenFaults == {"token_other_key"}

WalletOf(x, t, F, S) ==
    /\ DOMAIN x = {"wia", "ka", "wallet_not_revoked", "holder_key_approved"}
    /\ EvidenceOf(x.wia, "wia", t, S)
    /\ (x.ka = None) <=> "no_key_attestation" \in F
    /\ x.wallet_not_revoked <=> "wallet_revoked" \notin F
    /\ x.holder_key_approved <=> "key_not_approved" \notin F
WalletFaults == {"no_key_attestation", "wallet_revoked", "key_not_approved"}

SubjectOf(x, p, t, F, S) ==
    /\ DOMAIN x = {"evidence", "subject", "entitled", "claims_current", "dataset",
                   "pid_binding_verified", "loa_high"}
    /\ EvidenceOf(x.evidence, "subject", t, S)
    /\ x.subject = IF "subject_other" \in F THEN "someone" ELSE Presented(p)
    /\ x.entitled <=> "subject_not_entitled" \notin F
    /\ x.claims_current <=> "claims_stale" \notin F
    /\ x.dataset = IF "dataset_other" \in F THEN "other" ELSE p
    /\ x.pid_binding_verified <=> p \in PidBoundProfiles /\ "pid_not_verified" \notin F
    /\ x.loa_high <=> "loa_low" \notin F
SubjectFaults == {"subject_other", "subject_not_entitled", "claims_stale", "dataset_other",
                  "pid_not_verified", "loa_low"}

DelegationOf(x, p, t, F, S) ==
    IF p # MANDATE_SD_JWT \/ "delegation_missing" \in F THEN x = None
    ELSE /\ x \in Delegations
         /\ EvidenceOf(x.delegator_evidence, "delegator", t, S)
         /\ (x.delegate_key = Holder) <=> "other_delegate" \notin F
         /\ (DEMO_MANDATE_POWERS \subseteq x.grant) <=> "grant_narrower" \notin F
         /\ x.mandate_not_revoked <=> "mandate_revoked" \notin F
DelegationFaults == {"delegation_missing", "other_delegate", "grant_narrower", "mandate_revoked"}

ChipOf(x, p, t, F, S) ==
    IF p \notin NfcPidProfiles \/ "chip_missing" \in F THEN x = None
    ELSE /\ x \in ChipEvidences
         /\ EvidenceOf(x.evidence, "chip", t, S)
         /\ (x.subject = "document") <=> "chip_of_other" \notin F
         /\ x.sod_passive_auth <=> "not_passive_auth" \notin F
         /\ x.chip_authentic <=> "chip_copied" \notin F
         /\ x.liveness_matched <=> "portrait_mismatch" \notin F
ChipFaults == {"chip_missing", "not_passive_auth", "chip_copied", "portrait_mismatch",
               "chip_of_other"}

\* What is left of the session: single facts.
FlagsOf(s, t, F) ==
    /\ s.expected_nonce = "nonce"
    /\ s.nonce_unused <=> "nonce_used" \notin F
    /\ s.issuer_entitled <=> "issuer_not_entitled" \notin F
    /\ s.status_reserved <=> "status_not_reserved" \notin F
    /\ s.already_issued <=> "already_issued" \in F
    /\ s.wia_ka_maintenance_end = t + 86400
    /\ s.hybrid_pq_bound <=> "hybrid_bound" \in F
FlagFaults == {"nonce_used", "issuer_not_entitled", "status_not_reserved",
               "already_issued", "hybrid_bound"}

SessionFields == {"profile", "authorization", "token", "wallet", "subject",
                  "expected_nonce", "nonce_unused", "issuer_entitled",
                  "status_reserved", "already_issued", "wia_ka_maintenance_end",
                  "hybrid_pq_bound", "delegation", "chip_evidence"}

SessionOf(s, p, t, F, S) ==
    /\ DOMAIN s = SessionFields
    /\ ProfileOf(s.profile, p, F)
    /\ AuthorizationOf(s.authorization, p, t, F, S)
    /\ TokenOf(s.token, t, F, S)
    /\ WalletOf(s.wallet, t, F, S)
    /\ SubjectOf(s.subject, p, t, F, S)
    /\ DelegationOf(s.delegation, p, t, F, S)
    /\ ChipOf(s.chip_evidence, p, t, F, S)
    /\ FlagsOf(s, t, F)

ProofOf(x, t, F, S) ==
    /\ DOMAIN x = {"evidence", "nonce", "holder_key", "possession_valid"}
    /\ EvidenceOf(x.evidence, "proof", t, S)
    /\ x.nonce = IF "proof_other_nonce" \in F THEN "other-nonce" ELSE "nonce"
    /\ x.holder_key = IF "proof_other_key" \in F THEN "other-key" ELSE Holder
    /\ x.possession_valid <=> "no_possession" \notin F

RequestFields == {"profile", "subject", "dataset", "dpop_key", "proof", "expiry",
                  "requested_powers"}

RequestOf(r, p, t, F, S) ==
    /\ DOMAIN r = RequestFields
    /\ r.profile = p /\ r.subject = Presented(p) /\ r.dataset = p /\ r.dpop_key = Holder
    /\ ProofOf(r.proof, t, F, S)
    /\ r.expiry = t + 3600 + (IF "expires_with_maintenance" \in F THEN 82800 ELSE 0)
                          + (IF "expires_after_maintenance" \in F THEN 82801 ELSE 0)
    /\ r.requested_powers = IF p = MANDATE_SD_JWT /\ "no_powers" \notin F
                            THEN DEMO_MANDATE_POWERS ELSE {}

-----------------------------------------------------------------------------
(* A degraded fact changes its own part of the session and no other.       *)

\* No degraded fact adds or removes a field.
LEMMA DegradedDomain ==
  ASSUME NEW s, NEW f, DOMAIN s = SessionFields
  PROVE  DOMAIN DegradedSession(f, s) = SessionFields
BY DEF DegradedSession

\* The facts of the profile, and every other fact leaves it alone.
LEMMA DegradedProfile ==
  ASSUME NEW s, NEW p, NEW F, NEW f, DOMAIN s = SessionFields,
         ProfileOf(s.profile, p, F)
  PROVE  ProfileOf(DegradedSession(f, s).profile, p, F \cup {f})
<1> DEFINE x == DegradedSession(f, s).profile
<1>1. CASE f = "disabled"
  <2>1. x = [s.profile EXCEPT !.enabled = FALSE]
    BY <1>1 DEF DegradedSession, SessionFields
  <2> QED BY <1>1, <2>1 DEF ProfileOf
<1>2. CASE f = "device_binding_waived"
  <2>1. x = [s.profile EXCEPT !.device_binding_required = FALSE]
    BY <1>2 DEF DegradedSession, SessionFields
  <2> QED BY <1>2, <2>1 DEF ProfileOf
<1>3. CASE f = "hybrid_required"
  <2>1. x = [s.profile EXCEPT !.require_hybrid_pq = TRUE]
    BY <1>3 DEF DegradedSession, SessionFields
  <2> QED BY <1>3, <2>1 DEF ProfileOf
<1>5. CASE f = "profile_other"
  <2>1. x = [s.profile EXCEPT !.id = "other"]
    BY <1>5 DEF DegradedSession, SessionFields
  <2> QED BY <1>5, <2>1 DEF ProfileOf
<1>4. CASE f \notin ProfileFaults
  <2>1. x = s.profile
    BY <1>4 DEF DegradedSession, SessionFields, ProfileFaults
  <2> QED BY <1>4, <2>1 DEF ProfileOf, ProfileFaults
<1> QED BY <1>1, <1>2, <1>3, <1>4, <1>5 DEF ProfileFaults

\* The three facts of the authorization.
LEMMA DegradedAuthorization ==
  ASSUME NEW s, NEW p, NEW t, NEW F, NEW S, NEW f, DOMAIN s = SessionFields,
         AuthorizationOf(s.authorization, p, t, F, S)
  PROVE  AuthorizationOf(DegradedSession(f, s).authorization, p, t, F \cup {f}, S)
<1> DEFINE x == DegradedSession(f, s).authorization
<1>1. CASE f = "authorization_other_profile"
  <2>1. x = [s.authorization EXCEPT !.profile = "other"]
    BY <1>1 DEF DegradedSession, SessionFields
  <2> QED BY <1>1, <2>1 DEF AuthorizationOf
<1>2. CASE f = "authorization_other_subject"
  <2>1. x = [s.authorization EXCEPT !.subject = "someone"]
    BY <1>2 DEF DegradedSession, SessionFields
  <2> QED BY <1>2, <2>1 DEF AuthorizationOf
<1>3. CASE f = "authorization_other_dataset"
  <2>1. x = [s.authorization EXCEPT !.dataset = "other"]
    BY <1>3 DEF DegradedSession, SessionFields
  <2> QED BY <1>3, <2>1 DEF AuthorizationOf
<1>4. CASE f \notin AuthorizationFaults
  <2>1. x = s.authorization
    BY <1>4 DEF DegradedSession, SessionFields, AuthorizationFaults
  <2> QED BY <1>4, <2>1 DEF AuthorizationOf, AuthorizationFaults
<1> QED BY <1>1, <1>2, <1>3, <1>4 DEF AuthorizationFaults

\* The one fact of the token.
LEMMA DegradedToken ==
  ASSUME NEW s, NEW t, NEW F, NEW S, NEW f, DOMAIN s = SessionFields,
         TokenOf(s.token, t, F, S)
  PROVE  TokenOf(DegradedSession(f, s).token, t, F \cup {f}, S)
<1> DEFINE x == DegradedSession(f, s).token
<1>1. CASE f = "token_other_key"
  <2>1. x = [s.token EXCEPT !.dpop_key = "other-key"]
    BY <1>1 DEF DegradedSession, SessionFields
  <2> QED BY <1>1, <2>1 DEF TokenOf
<1>2. CASE f \notin TokenFaults
  <2>1. x = s.token
    BY <1>2 DEF DegradedSession, SessionFields, TokenFaults
  <2> QED BY <1>2, <2>1 DEF TokenOf, TokenFaults
<1> QED BY <1>1, <1>2 DEF TokenFaults

\* The three facts of the wallet.
LEMMA DegradedWallet ==
  ASSUME NEW s, NEW t, NEW F, NEW S, NEW f, DOMAIN s = SessionFields,
         WalletOf(s.wallet, t, F, S)
  PROVE  WalletOf(DegradedSession(f, s).wallet, t, F \cup {f}, S)
<1> DEFINE x == DegradedSession(f, s).wallet
<1>1. CASE f = "no_key_attestation"
  <2>1. x = [s.wallet EXCEPT !.ka = None]
    BY <1>1 DEF DegradedSession, SessionFields
  <2> QED BY <1>1, <2>1 DEF WalletOf
<1>2. CASE f = "wallet_revoked"
  <2>1. x = [s.wallet EXCEPT !.wallet_not_revoked = FALSE]
    BY <1>2 DEF DegradedSession, SessionFields
  <2> QED BY <1>2, <2>1 DEF WalletOf
<1>3. CASE f = "key_not_approved"
  <2>1. x = [s.wallet EXCEPT !.holder_key_approved = FALSE]
    BY <1>3 DEF DegradedSession, SessionFields
  <2> QED BY <1>3, <2>1 DEF WalletOf
<1>4. CASE f \notin WalletFaults
  <2>1. x = s.wallet
    BY <1>4 DEF DegradedSession, SessionFields, WalletFaults
  <2> QED BY <1>4, <2>1 DEF WalletOf, WalletFaults
<1> QED BY <1>1, <1>2, <1>3, <1>4 DEF WalletFaults

\* The facts of the subject.
LEMMA DegradedSubject ==
  ASSUME NEW s, NEW p, NEW t, NEW F, NEW S, NEW f, DOMAIN s = SessionFields,
         SubjectOf(s.subject, p, t, F, S)
  PROVE  SubjectOf(DegradedSession(f, s).subject, p, t, F \cup {f}, S)
<1> DEFINE x == DegradedSession(f, s).subject
<1>1. CASE f = "claims_stale"
  <2>1. x = [s.subject EXCEPT !.claims_current = FALSE]
    BY <1>1 DEF DegradedSession, SessionFields
  <2> QED BY <1>1, <2>1 DEF SubjectOf
<1>2. CASE f = "dataset_other"
  <2>1. x = [s.subject EXCEPT !.dataset = "other"]
    BY <1>2 DEF DegradedSession, SessionFields
  <2> QED BY <1>2, <2>1 DEF SubjectOf
<1>3. CASE f = "pid_not_verified"
  <2>1. x = [s.subject EXCEPT !.pid_binding_verified = FALSE]
    BY <1>3 DEF DegradedSession, SessionFields
  <2> QED BY <1>3, <2>1 DEF SubjectOf
<1>4. CASE f = "loa_low"
  <2>1. x = [s.subject EXCEPT !.loa_high = FALSE]
    BY <1>4 DEF DegradedSession, SessionFields
  <2> QED BY <1>4, <2>1 DEF SubjectOf
<1>6. CASE f = "subject_other"
  <2>1. x = [s.subject EXCEPT !.subject = "someone"]
    BY <1>6 DEF DegradedSession, SessionFields
  <2> QED BY <1>6, <2>1 DEF SubjectOf
<1>7. CASE f = "subject_not_entitled"
  <2>1. x = [s.subject EXCEPT !.entitled = FALSE]
    BY <1>7 DEF DegradedSession, SessionFields
  <2> QED BY <1>7, <2>1 DEF SubjectOf
<1>5. CASE f \notin SubjectFaults
  <2>1. x = s.subject
    BY <1>5 DEF DegradedSession, SessionFields, SubjectFaults
  <2> QED BY <1>5, <2>1 DEF SubjectOf, SubjectFaults
<1> QED BY <1>1, <1>2, <1>3, <1>4, <1>5, <1>6, <1>7 DEF SubjectFaults

\* The four facts of the delegation, once it is gone for good.
LEMMA DegradedDelegation ==
  ASSUME NEW s, NEW p, NEW t, NEW F, NEW S, NEW f, DOMAIN s = SessionFields,
         DelegationOf(s.delegation, p, t, F, S), Present(f, s)
  PROVE  DelegationOf(DegradedSession(f, s).delegation, p, t, F \cup {f}, S)
<1> DEFINE x == DegradedSession(f, s).delegation
<1>1. CASE f = "delegation_missing"
  <2>1. x = None
    BY <1>1 DEF DegradedSession, SessionFields
  <2> QED BY <1>1, <2>1 DEF DelegationOf, Present, OnlyMandate, Delegations, Holder, DEMO_MANDATE_POWERS, PowerBits
<1>2. CASE f = "mandate_revoked"
  <2>1. x = [s.delegation EXCEPT !.mandate_not_revoked = FALSE]
    BY <1>2 DEF DegradedSession, SessionFields
  <2> QED BY <1>2, <2>1 DEF DelegationOf, Present, OnlyMandate, Delegations, Holder, DEMO_MANDATE_POWERS, PowerBits
<1>3. CASE f = "other_delegate"
  <2>1. x = [s.delegation EXCEPT !.delegate_key = "other-key"]
    BY <1>3 DEF DegradedSession, SessionFields
  <2> QED BY <1>3, <2>1 DEF DelegationOf, Present, OnlyMandate, Delegations, Holder, DEMO_MANDATE_POWERS, PowerBits
<1>4. CASE f = "grant_narrower"
  <2>1. x = [s.delegation EXCEPT !.grant = {0, 5}]
    BY <1>4 DEF DegradedSession, SessionFields
  <2> QED BY <1>4, <2>1 DEF DelegationOf, Present, OnlyMandate, Delegations, Holder, DEMO_MANDATE_POWERS, PowerBits
<1>5. CASE f \notin DelegationFaults
  <2>1. x = s.delegation
    BY <1>5 DEF DegradedSession, SessionFields, DelegationFaults
  <2> QED BY <1>5, <2>1 DEF DelegationOf, DelegationFaults
<1> QED BY <1>1, <1>2, <1>3, <1>4, <1>5 DEF DelegationFaults

\* The facts of the chip evidence, once it is gone for good.
LEMMA DegradedChip ==
  ASSUME NEW s, NEW p, NEW t, NEW F, NEW S, NEW f, DOMAIN s = SessionFields,
         ChipOf(s.chip_evidence, p, t, F, S), Present(f, s)
  PROVE  ChipOf(DegradedSession(f, s).chip_evidence, p, t, F \cup {f}, S)
<1> DEFINE x == DegradedSession(f, s).chip_evidence
<1>1. CASE f = "chip_missing"
  <2>1. x = None
    BY <1>1 DEF DegradedSession, SessionFields
  <2> QED BY <1>1, <2>1 DEF ChipOf, Present, OnlyNfc, ChipEvidences
<1>2. CASE f = "not_passive_auth"
  <2>1. x = [s.chip_evidence EXCEPT !.sod_passive_auth = FALSE]
    BY <1>2 DEF DegradedSession, SessionFields
  <2> QED BY <1>2, <2>1 DEF ChipOf, Present, OnlyNfc, ChipEvidences
<1>3. CASE f = "chip_copied"
  <2>1. x = [s.chip_evidence EXCEPT !.chip_authentic = FALSE]
    BY <1>3 DEF DegradedSession, SessionFields
  <2> QED BY <1>3, <2>1 DEF ChipOf, Present, OnlyNfc, ChipEvidences
<1>4. CASE f = "portrait_mismatch"
  <2>1. x = [s.chip_evidence EXCEPT !.liveness_matched = FALSE]
    BY <1>4 DEF DegradedSession, SessionFields
  <2> QED BY <1>4, <2>1 DEF ChipOf, Present, OnlyNfc, ChipEvidences
<1>6. CASE f = "chip_of_other"
  <2>1. x = [s.chip_evidence EXCEPT !.subject = "someone"]
    BY <1>6 DEF DegradedSession, SessionFields
  <2> QED BY <1>6, <2>1 DEF ChipOf, Present, OnlyNfc, ChipEvidences
<1>5. CASE f \notin ChipFaults
  <2>1. x = s.chip_evidence
    BY <1>5 DEF DegradedSession, SessionFields, ChipFaults
  <2> QED BY <1>5, <2>1 DEF ChipOf, ChipFaults
<1> QED BY <1>1, <1>2, <1>3, <1>4, <1>5, <1>6 DEF ChipFaults

\* The facts that stand alone.
LEMMA DegradedFlags ==
  ASSUME NEW s, NEW t, NEW F, NEW f, DOMAIN s = SessionFields, FlagsOf(s, t, F)
  PROVE  FlagsOf(DegradedSession(f, s), t, F \cup {f})
<1> DEFINE q == DegradedSession(f, s)
<1>1. /\ q.expected_nonce = s.expected_nonce
      /\ q.wia_ka_maintenance_end = s.wia_ka_maintenance_end
  BY DEF DegradedSession, SessionFields
<1>2. q.nonce_unused <=> s.nonce_unused /\ f # "nonce_used"
  <2>1. f = "nonce_used" => ~q.nonce_unused
    BY DEF DegradedSession, SessionFields
  <2>2. f # "nonce_used" => q.nonce_unused = s.nonce_unused
    BY DEF DegradedSession, SessionFields
  <2> QED BY <2>1, <2>2
<1>3. q.issuer_entitled <=> s.issuer_entitled /\ f # "issuer_not_entitled"
  <2>1. f = "issuer_not_entitled" => ~q.issuer_entitled
    BY DEF DegradedSession, SessionFields
  <2>2. f # "issuer_not_entitled" => q.issuer_entitled = s.issuer_entitled
    BY DEF DegradedSession, SessionFields
  <2> QED BY <2>1, <2>2
<1>4. q.status_reserved <=> s.status_reserved /\ f # "status_not_reserved"
  <2>1. f = "status_not_reserved" => ~q.status_reserved
    BY DEF DegradedSession, SessionFields
  <2>2. f # "status_not_reserved" => q.status_reserved = s.status_reserved
    BY DEF DegradedSession, SessionFields
  <2> QED BY <2>1, <2>2
<1>5. q.already_issued <=> s.already_issued \/ f = "already_issued"
  <2>1. f = "already_issued" => q.already_issued
    BY DEF DegradedSession, SessionFields
  <2>2. f # "already_issued" => q.already_issued = s.already_issued
    BY DEF DegradedSession, SessionFields
  <2> QED BY <2>1, <2>2
<1>6. q.hybrid_pq_bound <=> s.hybrid_pq_bound \/ f = "hybrid_bound"
  <2>1. f = "hybrid_bound" => q.hybrid_pq_bound
    BY DEF DegradedSession, SessionFields
  <2>2. f # "hybrid_bound" => q.hybrid_pq_bound = s.hybrid_pq_bound
    BY DEF DegradedSession, SessionFields
  <2> QED BY <2>1, <2>2
<1> QED BY <1>1, <1>2, <1>3, <1>4, <1>5, <1>6 DEF FlagsOf

\* The facts of the request, a later expiry among them.
LEMMA DegradedRequestOf ==
  ASSUME NEW r, NEW p, NEW t \in Nat, NEW F, NEW S, NEW f,
         RequestOf(r, p, t, F, S), f \notin F
  PROVE  RequestOf(DegradedRequest(f, r), p, t, F \cup {f}, S)
<1> DEFINE q == DegradedRequest(f, r)
<1>1. DOMAIN q = RequestFields
  BY DEF RequestOf, DegradedRequest
<1>2. q.profile = p /\ q.subject = Presented(p) /\ q.dataset = p /\ q.dpop_key = Holder
  BY DEF RequestOf, RequestFields, DegradedRequest
<1>3. ProofOf(q.proof, t, F \cup {f}, S)
  <2>1. CASE f = "proof_other_nonce"
    <3>1. q = [r EXCEPT !.proof = [r.proof EXCEPT !.nonce = "other-nonce"]]
      BY <2>1 DEF DegradedRequest
    <3>2. q.proof = [r.proof EXCEPT !.nonce = "other-nonce"]
      BY <3>1 DEF RequestOf, RequestFields
    <3> QED BY <2>1, <3>2 DEF RequestOf, ProofOf
  <2>2. CASE f = "proof_other_key"
    <3>1. q = [r EXCEPT !.proof = [r.proof EXCEPT !.holder_key = "other-key"]]
      BY <2>2 DEF DegradedRequest
    <3>2. q.proof = [r.proof EXCEPT !.holder_key = "other-key"]
      BY <3>1 DEF RequestOf, RequestFields
    <3> QED BY <2>2, <3>2 DEF RequestOf, ProofOf
  <2>3. CASE f = "no_possession"
    <3>1. q = [r EXCEPT !.proof = [r.proof EXCEPT !.possession_valid = FALSE]]
      BY <2>3 DEF DegradedRequest
    <3>2. q.proof = [r.proof EXCEPT !.possession_valid = FALSE]
      BY <3>1 DEF RequestOf, RequestFields
    <3> QED BY <2>3, <3>2 DEF RequestOf, ProofOf
  <2>4. CASE f \notin {"proof_other_nonce", "proof_other_key", "no_possession"}
    <3>1. q.proof = r.proof
      BY <2>4 DEF DegradedRequest, RequestOf, RequestFields
    <3> QED BY <2>4, <3>1 DEF RequestOf, ProofOf
  <2> QED BY <2>1, <2>2, <2>3, <2>4
<1>4. q.expiry = r.expiry + (IF f = "expires_with_maintenance" THEN 82800 ELSE 0)
                        + (IF f = "expires_after_maintenance" THEN 82801 ELSE 0)
  BY DEF RequestOf, RequestFields, DegradedRequest
<1>5. q.requested_powers = IF f = "no_powers" THEN {} ELSE r.requested_powers
  BY DEF RequestOf, RequestFields, DegradedRequest
<1> QED BY <1>1, <1>2, <1>3, <1>4, <1>5 DEF RequestOf

-----------------------------------------------------------------------------
(* Spoiled evidence changes where it lies and nowhere else.                *)

\* One more way in which it is spoiled.
LEMMA SpoiledOnce ==
  ASSUME NEW e, NEW place, NEW t \in Nat, NEW S, NEW way \in Ways, EvidenceOf(e, place, t, S)
  PROVE  EvidenceOf(SpoiledEvidence(way, e), place, t, S \cup {<<place, way>>})
<1> DEFINE x == SpoiledEvidence(way, e)
<1> SUFFICES EvidenceOf(x, place, t, S \cup {<<place, way>>})
  OBVIOUS
<1>1. CASE way = "rejected"
  <2>1. x = [e EXCEPT !.accepted = FALSE]
    BY <1>1 DEF SpoiledEvidence
  <2>2. e \in Evidences
    BY DEF EvidenceOf
  <2>3. /\ x \in Evidences
        /\ x.accepted = FALSE /\ x.valid_from = e.valid_from
        /\ x.valid_until = e.valid_until /\ x.fresh_until = e.fresh_until
    <3> HIDE DEF x
    <3> QED BY <2>1, <2>2 DEF Evidences
  <2> HIDE DEF x
  <2>4. <<place, "late">> \in S \cup {<<place, way>>} <=> <<place, "late">> \in S
    BY <1>1
  <2>5. <<place, "short">> \in S \cup {<<place, way>>} <=> <<place, "short">> \in S
    BY <1>1
  <2>6. <<place, "rejected">> \in S \cup {<<place, way>>}
    BY <1>1
  <2>7. EvidenceOf(e, place, t, S)
    OBVIOUS
  <2> QED BY <2>3, <2>4, <2>5, <2>6, <2>7, ZenonT(60) DEF EvidenceOf
<1>2. CASE way = "late"
  <2>1. x = [e EXCEPT !.valid_from = e.fresh_until]
    BY <1>2 DEF SpoiledEvidence
  <2> QED BY <1>2, <2>1 DEF EvidenceOf, Evidences
<1>3. CASE way = "short"
  <2>1. x = [e EXCEPT !.valid_until = e.fresh_until]
    BY <1>3 DEF SpoiledEvidence
  <2> QED BY <1>3, <2>1 DEF EvidenceOf, Evidences
<1> QED BY <1>1, <1>2, <1>3 DEF Ways

\* Evidence spoiled elsewhere leaves this as it is.
LEMMA SpoiledElsewhere ==
  ASSUME NEW e, NEW place, NEW t, NEW S, NEW other, NEW way, other # place,
         EvidenceOf(e, place, t, S)
  PROVE  EvidenceOf(e, place, t, S \cup {<<other, way>>})
BY DEF EvidenceOf

\* No spoiled evidence adds or removes a field.
LEMMA SpoiledDomain ==
  ASSUME NEW s, NEW place, NEW way, DOMAIN s = SessionFields
  PROVE  DOMAIN SpoiledSession(place, way, s) = SessionFields
BY DEF SpoiledSession

\* The evidence of the authorization.
LEMMA SpoiledAuthorization ==
  ASSUME NEW s, NEW p, NEW t \in Nat, NEW F, NEW S, NEW place, NEW way \in Ways,
         DOMAIN s = SessionFields, AuthorizationOf(s.authorization, p, t, F, S)
  PROVE  AuthorizationOf(SpoiledSession(place, way, s).authorization, p, t, F, S \cup {<<place, way>>})
<1> DEFINE x == SpoiledSession(place, way, s).authorization
<1> SUFFICES AuthorizationOf(x, p, t, F, S \cup {<<place, way>>})
  OBVIOUS
<1>1. CASE place = "authorization"
  <2> DEFINE e == SpoiledEvidence(way, s.authorization.evidence)
  <2>1. x = [s.authorization EXCEPT !.evidence = e]
    BY <1>1 DEF SpoiledSession, SessionFields
  <2>2. EvidenceOf(e, place, t, S \cup {<<place, way>>})
    BY <1>1, SpoiledOnce DEF AuthorizationOf
  <2> HIDE DEF x, e
  <2> QED BY <1>1, <2>1, <2>2 DEF AuthorizationOf
<1>2. CASE place # "authorization"
  <2>1. x = s.authorization
    BY <1>2 DEF SpoiledSession, SessionFields
  <2> HIDE DEF x
  <2> QED BY <1>2, <2>1, SpoiledElsewhere DEF AuthorizationOf
<1> QED BY <1>1, <1>2

\* The evidence of the token.
LEMMA SpoiledToken ==
  ASSUME NEW s, NEW t \in Nat, NEW F, NEW S, NEW place, NEW way \in Ways,
         DOMAIN s = SessionFields, TokenOf(s.token, t, F, S)
  PROVE  TokenOf(SpoiledSession(place, way, s).token, t, F, S \cup {<<place, way>>})
<1> DEFINE x == SpoiledSession(place, way, s).token
<1> SUFFICES TokenOf(x, t, F, S \cup {<<place, way>>})
  OBVIOUS
<1>1. CASE place = "token"
  <2> DEFINE e == SpoiledEvidence(way, s.token.evidence)
  <2>1. x = [s.token EXCEPT !.evidence = e]
    BY <1>1 DEF SpoiledSession, SessionFields
  <2>2. EvidenceOf(e, place, t, S \cup {<<place, way>>})
    BY <1>1, SpoiledOnce DEF TokenOf
  <2> HIDE DEF x, e
  <2> QED BY <1>1, <2>1, <2>2 DEF TokenOf
<1>2. CASE place # "token"
  <2>1. x = s.token
    BY <1>2 DEF SpoiledSession, SessionFields
  <2> HIDE DEF x
  <2> QED BY <1>2, <2>1, SpoiledElsewhere DEF TokenOf
<1> QED BY <1>1, <1>2

\* The attestation of the wallet instance.
LEMMA SpoiledWallet ==
  ASSUME NEW s, NEW t \in Nat, NEW F, NEW S, NEW place, NEW way \in Ways,
         DOMAIN s = SessionFields, WalletOf(s.wallet, t, F, S)
  PROVE  WalletOf(SpoiledSession(place, way, s).wallet, t, F, S \cup {<<place, way>>})
<1> DEFINE x == SpoiledSession(place, way, s).wallet
<1> SUFFICES WalletOf(x, t, F, S \cup {<<place, way>>})
  OBVIOUS
<1>1. CASE place = "wia"
  <2> DEFINE e == SpoiledEvidence(way, s.wallet.wia)
  <2>1. x = [s.wallet EXCEPT !.wia = e]
    BY <1>1 DEF SpoiledSession, SessionFields
  <2>2. EvidenceOf(e, place, t, S \cup {<<place, way>>})
    BY <1>1, SpoiledOnce DEF WalletOf
  <2> HIDE DEF x, e
  <2> QED BY <1>1, <2>1, <2>2 DEF WalletOf
<1>2. CASE place # "wia"
  <2>1. x = s.wallet
    BY <1>2 DEF SpoiledSession, SessionFields
  <2> HIDE DEF x
  <2> QED BY <1>2, <2>1, SpoiledElsewhere DEF WalletOf
<1> QED BY <1>1, <1>2

\* The evidence of the subject.
LEMMA SpoiledSubject ==
  ASSUME NEW s, NEW p, NEW t \in Nat, NEW F, NEW S, NEW place, NEW way \in Ways,
         DOMAIN s = SessionFields, SubjectOf(s.subject, p, t, F, S)
  PROVE  SubjectOf(SpoiledSession(place, way, s).subject, p, t, F, S \cup {<<place, way>>})
<1> DEFINE x == SpoiledSession(place, way, s).subject
<1> SUFFICES SubjectOf(x, p, t, F, S \cup {<<place, way>>})
  OBVIOUS
<1>1. CASE place = "subject"
  <2> DEFINE e == SpoiledEvidence(way, s.subject.evidence)
  <2>1. x = [s.subject EXCEPT !.evidence = e]
    BY <1>1 DEF SpoiledSession, SessionFields
  <2>2. EvidenceOf(e, place, t, S \cup {<<place, way>>})
    BY <1>1, SpoiledOnce DEF SubjectOf
  <2> HIDE DEF x, e
  <2> QED BY <1>1, <2>1, <2>2 DEF SubjectOf
<1>2. CASE place # "subject"
  <2>1. x = s.subject
    BY <1>2 DEF SpoiledSession, SessionFields
  <2> HIDE DEF x
  <2> QED BY <1>2, <2>1, SpoiledElsewhere DEF SubjectOf
<1> QED BY <1>1, <1>2

\* The evidence of the delegator, while it is there.
LEMMA SpoiledDelegation ==
  ASSUME NEW s, NEW p, NEW t \in Nat, NEW F, NEW S, NEW place, NEW way \in Ways,
         DOMAIN s = SessionFields, DelegationOf(s.delegation, p, t, F, S),
         EvidencePresentAt(place, s)
  PROVE  DelegationOf(SpoiledSession(place, way, s).delegation, p, t, F, S \cup {<<place, way>>})
<1> DEFINE x == SpoiledSession(place, way, s).delegation
<1> SUFFICES DelegationOf(x, p, t, F, S \cup {<<place, way>>})
  OBVIOUS
<1>1. CASE place = "delegator"
  <2> DEFINE e == SpoiledEvidence(way, s.delegation.delegator_evidence)
  <2>1. x = [s.delegation EXCEPT !.delegator_evidence = e]
    BY <1>1 DEF SpoiledSession, SessionFields
  <2>2. CASE p # MANDATE_SD_JWT \/ "delegation_missing" \in F
    <3>1. FALSE
      BY <1>1, <2>2 DEF EvidencePresentAt, DelegationOf
    <3> QED BY <3>1
  <2>3. CASE ~(p # MANDATE_SD_JWT \/ "delegation_missing" \in F)
    <3>1. EvidenceOf(e, place, t, S \cup {<<place, way>>})
      BY <1>1, <2>3, SpoiledOnce DEF DelegationOf
    <3>2. x \in Delegations
      <4>1. e \in Evidences
        BY <3>1 DEF EvidenceOf
      <4> HIDE DEF e
      <4> QED BY <2>1, <2>3, <4>1 DEF DelegationOf, Delegations
    <3> HIDE DEF x, e
    <3> QED BY <1>1, <2>1, <2>3, <3>1, <3>2 DEF DelegationOf, Delegations
  <2> QED BY <2>2, <2>3
<1>2. CASE place # "delegator"
  <2>1. x = s.delegation
    BY <1>2 DEF SpoiledSession, SessionFields
  <2> HIDE DEF x
  <2> QED BY <1>2, <2>1, SpoiledElsewhere DEF DelegationOf
<1> QED BY <1>1, <1>2

\* The evidence of the chip, while it is there.
LEMMA SpoiledChip ==
  ASSUME NEW s, NEW p, NEW t \in Nat, NEW F, NEW S, NEW place, NEW way \in Ways,
         DOMAIN s = SessionFields, ChipOf(s.chip_evidence, p, t, F, S),
         EvidencePresentAt(place, s)
  PROVE  ChipOf(SpoiledSession(place, way, s).chip_evidence, p, t, F, S \cup {<<place, way>>})
<1> DEFINE x == SpoiledSession(place, way, s).chip_evidence
<1> SUFFICES ChipOf(x, p, t, F, S \cup {<<place, way>>})
  OBVIOUS
<1>1. CASE place = "chip"
  <2> DEFINE e == SpoiledEvidence(way, s.chip_evidence.evidence)
  <2>1. x = [s.chip_evidence EXCEPT !.evidence = e]
    BY <1>1 DEF SpoiledSession, SessionFields
  <2>2. CASE p \notin NfcPidProfiles \/ "chip_missing" \in F
    <3>1. FALSE
      BY <1>1, <2>2 DEF EvidencePresentAt, ChipOf
    <3> QED BY <3>1
  <2>3. CASE ~(p \notin NfcPidProfiles \/ "chip_missing" \in F)
    <3>1. EvidenceOf(e, place, t, S \cup {<<place, way>>})
      BY <1>1, <2>3, SpoiledOnce DEF ChipOf
    <3>2. x \in ChipEvidences
      <4>1. e \in Evidences
        BY <3>1 DEF EvidenceOf
      <4> HIDE DEF e
      <4> QED BY <2>1, <2>3, <4>1 DEF ChipOf, ChipEvidences
    <3> HIDE DEF x, e
    <3> QED BY <1>1, <2>1, <2>3, <3>1, <3>2 DEF ChipOf, ChipEvidences
  <2> QED BY <2>2, <2>3
<1>2. CASE place # "chip"
  <2>1. x = s.chip_evidence
    BY <1>2 DEF SpoiledSession, SessionFields
  <2> HIDE DEF x
  <2> QED BY <1>2, <2>1, SpoiledElsewhere DEF ChipOf
<1> QED BY <1>1, <1>2

\* Profile and single facts carry no evidence.
LEMMA SpoiledOthers ==
  ASSUME NEW s, NEW p, NEW t, NEW F, NEW place, NEW way, DOMAIN s = SessionFields,
         ProfileOf(s.profile, p, F), FlagsOf(s, t, F)
  PROVE  /\ ProfileOf(SpoiledSession(place, way, s).profile, p, F)
         /\ FlagsOf(SpoiledSession(place, way, s), t, F)
<1> DEFINE q == SpoiledSession(place, way, s)
<1> SUFFICES ProfileOf(q.profile, p, F) /\ FlagsOf(q, t, F)
  OBVIOUS
<1>1. /\ q.profile = s.profile /\ q.expected_nonce = s.expected_nonce
      /\ q.nonce_unused = s.nonce_unused /\ q.issuer_entitled = s.issuer_entitled
      /\ q.status_reserved = s.status_reserved /\ q.already_issued = s.already_issued
      /\ q.wia_ka_maintenance_end = s.wia_ka_maintenance_end
      /\ q.hybrid_pq_bound = s.hybrid_pq_bound
  BY DEF SpoiledSession, SessionFields
<1> HIDE DEF q
<1> QED BY <1>1 DEF FlagsOf

\* The evidence of the credential proof, in the request.
LEMMA SpoiledRequestOf ==
  ASSUME NEW r, NEW p, NEW t \in Nat, NEW F, NEW S, NEW place, NEW way \in Ways,
         RequestOf(r, p, t, F, S)
  PROVE  RequestOf(SpoiledRequest(place, way, r), p, t, F, S \cup {<<place, way>>})
<1>1. CASE place = "proof"
  <2> DEFINE e == SpoiledEvidence(way, r.proof.evidence)
             q == SpoiledRequest(place, way, r)
  <2>1. q = [r EXCEPT !.proof = [r.proof EXCEPT !.evidence = e]]
    BY <1>1 DEF SpoiledRequest
  <2>2. EvidenceOf(e, place, t, S \cup {<<place, way>>})
    BY <1>1, SpoiledOnce DEF RequestOf, ProofOf
  <2> HIDE DEF e, q
  <2>3. q.proof = [r.proof EXCEPT !.evidence = e]
    BY <2>1 DEF RequestOf, RequestFields
  <2>4. ProofOf(q.proof, t, F, S \cup {<<place, way>>})
    BY <1>1, <2>2, <2>3 DEF RequestOf, ProofOf
  <2>5. /\ DOMAIN q = RequestFields /\ q.profile = r.profile /\ q.subject = r.subject
        /\ q.dataset = r.dataset /\ q.dpop_key = r.dpop_key /\ q.expiry = r.expiry
        /\ q.requested_powers = r.requested_powers
    BY <2>1 DEF RequestOf, RequestFields
  <2>6. RequestOf(q, p, t, F, S \cup {<<place, way>>})
    BY <2>4, <2>5 DEF RequestOf
  <2> QED BY <2>6 DEF q
<1>2. CASE place # "proof"
  <2>1. SpoiledRequest(place, way, r) = r
    BY <1>2 DEF SpoiledRequest
  <2>2. ProofOf(r.proof, t, F, S)
    BY DEF RequestOf
  <2>3. EvidenceOf(r.proof.evidence, "proof", t, S \cup {<<place, way>>})
    BY <1>2, <2>2, SpoiledElsewhere, Zenon DEF ProofOf
  <2>4. ProofOf(r.proof, t, F, S \cup {<<place, way>>})
    BY <2>2, <2>3, Zenon DEF ProofOf
  <2> QED BY <2>1, <2>4 DEF RequestOf
<1> QED BY <1>1, <1>2

-----------------------------------------------------------------------------
(* The session and the request authorize_kernel assembles.                 *)

\* The evidence windows cut around an instant are instants too, and unspoiled.
LEMMA AroundIsEvidence == ASSUME NEW t \in Nat PROVE EvidenceAround(t) \in Evidences
BY DEF EvidenceAround, Evidences, Before

LEMMA AroundUnspoiled ==
  ASSUME NEW t \in Nat, NEW place PROVE EvidenceOf(EvidenceAround(t), place, t, {})
<1> DEFINE e == EvidenceAround(t)
<1>1. /\ e.accepted /\ e.valid_from = Before(t) /\ e.valid_until = t + 300
      /\ e.fresh_until = t + 60
  BY DEF EvidenceAround
<1>2. e \in Evidences
  BY AroundIsEvidence
<1> QED BY <1>1, <1>2, Zenon DEF EvidenceOf

\* The subject is that of the chip, of the PID or of the demonstration.
LEMMA PresentedSubject == ASSUME NEW p PROVE Presented(p) \in Subjects
BY DEF Presented, SubjectFor, PidFor, ChipFor, GoodChip, Subjects, DEMO_SUBJECT

\* What authorize_kernel presents reads as Some, never as None.
LEMMA EvidencePresent ==
  /\ GoodChip # None /\ "pid-subject" # None
  /\ \A e \in Evidences \cup Delegations \cup ChipEvidences : e # None
<1>1. GoodChip \in Attestations
  BY DEF GoodChip, Attestations
<1>2. "pid-subject" \in Subjects
  BY DEF Subjects
<1> QED BY <1>1, <1>2, NoneAssumption

\* Mandates are the only profile in the role of a representation.
LEMMA MandateRole ==
  ASSUME NEW p \in Profiles PROVE RoleOf(p) = "Representation" <=> p = MANDATE_SD_JWT
BY DEF RoleOf, Profiles, PidRoleProfiles, NfcPidProfiles, QeaaProfiles,
       DevelopmentProfiles, PID_SD_JWT, PID_FROM_EMRTD_SD_JWT, PID_FROM_EMRTD_MDOC,
       PID_MDOC, EAA_MDOC, QEAA_SD_JWT, QEAA_PID_BOUND_SD_JWT, DEV_SVIPE_PID_SD_JWT,
       TLSN_EVIDENCE_SD_JWT, HYBRID_PQ_SD_JWT, MANDATE_SD_JWT

\* authorize_kernel assembles a session without a fault (main.rs 3397-3520).
LEMMA AssembledSession ==
  ASSUME NEW p \in Profiles, NEW t \in Nat
  PROVE  SessionOf(SessionFor(p, Holder, "nonce", PidFor(p), ChipFor(p), t), p, t, {}, {})
<1> DEFINE s == SessionFor(p, Holder, "nonce", PidFor(p), ChipFor(p), t)
           e == EvidenceAround(t)
<1>1. DOMAIN s = SessionFields
  BY DEF SessionFor, SessionFields
<1>2. ProfileOf(s.profile, p, {})
  <2>1. s.profile = [id |-> p, role |-> RoleOf(p), enabled |-> TRUE,
                     device_binding_required |-> TRUE,
                     pid_binding_required |-> p = QEAA_PID_BOUND_SD_JWT,
                     require_hybrid_pq |-> FALSE,
                     require_chip_liveness |-> p \in NfcPidProfiles]
    BY DEF SessionFor
  <2>2. s.profile.require_chip_liveness = (p \in NfcPidProfiles)
    BY SMT DEF SessionFor
  <2>3. s.profile.pid_binding_required = (p = QEAA_PID_BOUND_SD_JWT)
    BY SMT DEF SessionFor
  <2>4. /\ DOMAIN s.profile = {"id", "role", "enabled", "device_binding_required",
               "pid_binding_required", "require_hybrid_pq", "require_chip_liveness"}
        /\ s.profile.id = p /\ s.profile.role = RoleOf(p) /\ s.profile.enabled
        /\ s.profile.device_binding_required /\ ~s.profile.require_hybrid_pq
    <3> HIDE DEF s
    <3> QED BY SMT, <2>1
  <2> HIDE DEF s
  <2> QED BY <2>2, <2>3, <2>4, Zenon DEF ProfileOf
<1>3. AuthorizationOf(s.authorization, p, t, {}, {})
  BY AroundUnspoiled DEF SessionFor, AuthorizationOf, Presented
<1>4. TokenOf(s.token, t, {}, {})
  BY AroundUnspoiled DEF SessionFor, TokenOf
<1>5. WalletOf(s.wallet, t, {}, {})
  BY AroundUnspoiled, AroundIsEvidence, EvidencePresent DEF SessionFor, WalletOf
<1>6. SubjectOf(s.subject, p, t, {}, {})
  <2>1. PidFor(p) # None <=> p \in PidBoundProfiles
    BY EvidencePresent DEF PidFor
  <2>2. p \in NfcPidProfiles => /\ ChipFor(p) # None
                                /\ ChipFor(p).sod_passive_auth
                                /\ ChipFor(p).chip_authentic
                                /\ ChipFor(p).liveness_matched
    BY EvidencePresent DEF ChipFor, GoodChip
  <2>3. /\ DOMAIN s.subject = {"evidence", "subject", "entitled", "claims_current",
                                "dataset", "pid_binding_verified", "loa_high"}
        /\ s.subject.evidence = e /\ s.subject.subject = Presented(p)
        /\ s.subject.entitled /\ s.subject.claims_current /\ s.subject.dataset = p
    BY DEF SessionFor, Presented
  <2>4. s.subject.pid_binding_verified <=> p \in PidBoundProfiles
    <3>1. s.subject.pid_binding_verified = (PidFor(p) # None)
      BY SMT DEF SessionFor
    <3> HIDE DEF s
    <3> QED BY <2>1, <3>1, Zenon
  <2>5. s.subject.loa_high
    <3>1. s.subject.loa_high = (p \in NfcPidProfiles =>
                                  /\ ChipFor(p) # None
                                  /\ ChipFor(p).sod_passive_auth
                                  /\ ChipFor(p).chip_authentic
                                  /\ ChipFor(p).liveness_matched)
      BY SMT DEF SessionFor
    <3> HIDE DEF s
    <3> QED BY <2>2, <3>1, Zenon
  <2> HIDE DEF s
  <2> QED BY <2>3, <2>4, <2>5, AroundUnspoiled DEF SubjectOf
<1>7. DelegationOf(s.delegation, p, t, {}, {})
  <2>1. RoleOf(p) = "Representation" <=> p = MANDATE_SD_JWT
    BY MandateRole
  <2>2. CASE p # MANDATE_SD_JWT
    BY <2>1, <2>2 DEF SessionFor, DelegationOf
  <2>3. CASE p = MANDATE_SD_JWT
    <3>1. s.delegation = [delegator_evidence |-> e, delegator |-> Presented(p),
                          delegate_key |-> Holder, grant |-> TAXONOMY_MASK,
                          mandate_not_revoked |-> TRUE]
      BY <2>1, <2>3 DEF SessionFor, Presented
    <3>2. TAXONOMY_MASK = 0..5
      BY DEF TAXONOMY_MASK, POWER_TAXONOMY
    <3>3. s.delegation \in Delegations
      <4>1. 0..5 \in SUBSET PowerBits
        BY DEF PowerBits
      <4>2. e \in Evidences /\ Presented(p) \in Subjects
        BY AroundIsEvidence, PresentedSubject
      <4> HIDE DEF s, e
      <4> QED BY <3>1, <3>2, <4>1, <4>2 DEF Delegations, Holder
    <3>4. EvidenceOf(s.delegation.delegator_evidence, "delegator", t, {})
      BY <3>1, AroundUnspoiled
    <3> QED BY <2>3, <3>1, <3>2, <3>3, <3>4 DEF DelegationOf, DEMO_MANDATE_POWERS
  <2> QED BY <2>2, <2>3
<1>8. ChipOf(s.chip_evidence, p, t, {}, {})
  <2>1. CASE p \notin NfcPidProfiles
    BY <2>1, SMTT(30) DEF SessionFor, ChipOf, ChipFor
  <2>2. CASE p \in NfcPidProfiles
    <3>1. s.chip_evidence = [evidence |-> e, subject |-> "document", sod_passive_auth |-> TRUE,
                             chip_authentic |-> TRUE, liveness_matched |-> TRUE]
      BY <2>2, EvidencePresent DEF SessionFor, ChipFor, GoodChip
    <3>2. s.chip_evidence \in ChipEvidences
      <4>1. e \in Evidences
        BY AroundIsEvidence
      <4> HIDE DEF s, e
      <4> QED BY <3>1, <4>1 DEF ChipEvidences
    <3>3. EvidenceOf(s.chip_evidence.evidence, "chip", t, {})
      BY <3>1, AroundUnspoiled
    <3> QED BY <2>2, <3>1, <3>2, <3>3 DEF ChipOf
  <2> QED BY <2>1, <2>2
<1>9. FlagsOf(s, t, {})
  BY DEF SessionFor, FlagsOf
<1> QED BY <1>1, <1>2, <1>3, <1>4, <1>5, <1>6, <1>7, <1>8, <1>9 DEF SessionOf

\* authorize_kernel assembles a request without a fault (main.rs 3397-3520).
LEMMA AssembledRequest ==
  ASSUME NEW p \in Profiles, NEW t \in Nat
  PROVE  RequestOf(RequestFor(p, Holder, "nonce", PidFor(p), ChipFor(p), t), p, t, {}, {})
<1> DEFINE r == RequestFor(p, Holder, "nonce", PidFor(p), ChipFor(p), t)
<1>1. RoleOf(p) = "Representation" <=> p = MANDATE_SD_JWT
  BY MandateRole
<1>2. DOMAIN r = RequestFields
  BY DEF RequestFor, RequestFields
<1>3. r.profile = p /\ r.subject = Presented(p) /\ r.dataset = p /\ r.dpop_key = Holder
  BY DEF RequestFor, Presented
<1>4. ProofOf(r.proof, t, {}, {})
  BY AroundUnspoiled DEF RequestFor, ProofOf
<1>5. r.expiry = t + 3600
  BY DEF RequestFor
<1>6. r.requested_powers = IF p = MANDATE_SD_JWT THEN DEMO_MANDATE_POWERS ELSE {}
  BY <1>1 DEF RequestFor
<1> QED BY <1>2, <1>3, <1>4, <1>5, <1>6 DEF RequestOf

-----------------------------------------------------------------------------
(* The invariant: the session and the request are those of what was        *)
(* degraded.                                                               *)

GateInv ==
    /\ request.profile \in Profiles
    /\ AssembledAt \in Nat /\ now \in Nat /\ AssembledAt <= now
    /\ faults \subseteq FaultsOf(request.profile)
    /\ \A place, way : <<place, way>> \in spoiled => place \in PlacesOf(request.profile)
    /\ SessionOf(session, request.profile, AssembledAt, faults, spoiled)
    /\ RequestOf(request, request.profile, AssembledAt, faults, spoiled)

\* One more fault makes the session of one more fault.
LEMMA DegradedSessionOf ==
  ASSUME NEW s, NEW p, NEW t, NEW F, NEW S, NEW f, SessionOf(s, p, t, F, S), Present(f, s)
  PROVE  SessionOf(DegradedSession(f, s), p, t, F \cup {f}, S)
BY DegradedDomain, DegradedProfile, DegradedAuthorization, DegradedToken, DegradedWallet,
   DegradedSubject, DegradedDelegation, DegradedChip, DegradedFlags, ZenonT(60) DEF SessionOf

\* So does one more piece of evidence, spoiled in one way.
LEMMA SpoiledSessionOf ==
  ASSUME NEW s, NEW p, NEW t \in Nat, NEW F, NEW S, NEW place, NEW way \in Ways,
         SessionOf(s, p, t, F, S), EvidencePresentAt(place, s)
  PROVE  SessionOf(SpoiledSession(place, way, s), p, t, F, S \cup {<<place, way>>})
<1> DEFINE q == SpoiledSession(place, way, s)
           S2 == S \cup {<<place, way>>}
<1>0. DOMAIN s = SessionFields
  BY DEF SessionOf
<1>1. DOMAIN q = SessionFields
  BY <1>0, SpoiledDomain
<1>2. ProfileOf(q.profile, p, F) /\ FlagsOf(q, t, F)
  BY <1>0, SpoiledOthers, Zenon DEF SessionOf
<1>3. AuthorizationOf(q.authorization, p, t, F, S2)
  BY <1>0, SpoiledAuthorization, Zenon DEF SessionOf
<1>4. TokenOf(q.token, t, F, S2)
  BY <1>0, SpoiledToken, Zenon DEF SessionOf
<1>5. WalletOf(q.wallet, t, F, S2)
  BY <1>0, SpoiledWallet, Zenon DEF SessionOf
<1>6. SubjectOf(q.subject, p, t, F, S2)
  BY <1>0, SpoiledSubject, Zenon DEF SessionOf
<1>7. DelegationOf(q.delegation, p, t, F, S2)
  BY <1>0, SpoiledDelegation, Zenon DEF SessionOf
<1>8. ChipOf(q.chip_evidence, p, t, F, S2)
  BY <1>0, SpoiledChip, Zenon DEF SessionOf
<1> QED BY <1>1, <1>2, <1>3, <1>4, <1>5, <1>6, <1>7, <1>8, Zenon DEF SessionOf

\* The instant of assembly can be read off the maintenance of the wallet.
LEMMA AssembledFor ==
  ASSUME NEW s, NEW p, NEW t \in Nat, NEW F, NEW S, SessionOf(s, p, t, F, S)
  PROVE  s.wia_ka_maintenance_end - 86400 = t
BY DEF SessionOf, FlagsOf

\* The invariant holds however much is degraded, at any time.
LEMMA GateInvariant == Spec => []GateInv
<1>1. Init => GateInv
  <2> SUFFICES ASSUME NEW p \in Profiles, NEW t \in Instants,
                      session = SessionFor(p, Holder, "nonce", PidFor(p), ChipFor(p), t),
                      request = RequestFor(p, Holder, "nonce", PidFor(p), ChipFor(p), t),
                      now = t, faults = {}, spoiled = {}
               PROVE  GateInv
    BY DEF Init
  <2>1. t \in Nat
    BY ProbeAssumption
  <2>2. SessionOf(session, p, t, faults, spoiled) /\ RequestOf(request, p, t, faults, spoiled)
    BY <2>1, AssembledSession, AssembledRequest
  <2>3. AssembledAt = t
    BY <2>1, <2>2, AssembledFor DEF AssembledAt
  <2>4. request.profile = p
    BY <2>2 DEF RequestOf
  <2> QED BY <2>1, <2>2, <2>3, <2>4 DEF GateInv
<1>2. GateInv /\ [Next]_vars => GateInv'
  <2> SUFFICES ASSUME GateInv, [Next]_vars PROVE GateInv'
    OBVIOUS
  <2> DEFINE p == request.profile
             t == AssembledAt
  <2>0. /\ p \in Profiles /\ t \in Nat /\ now \in Nat /\ t <= now
        /\ faults \subseteq FaultsOf(p)
        /\ \A place, way : <<place, way>> \in spoiled => place \in PlacesOf(p)
    BY Zenon DEF GateInv
  <2>1. ASSUME NEW f, Degrade(f) PROVE GateInv'
    <3>1. /\ f \in FaultsOf(p) /\ f \notin faults /\ Present(f, session)
          /\ session' = DegradedSession(f, session)
          /\ request' = DegradedRequest(f, request)
          /\ faults' = faults \cup {f} /\ now' = now /\ spoiled' = spoiled
      BY <2>1 DEF Degrade
    <3>2. SessionOf(session', p, t, faults', spoiled') /\ RequestOf(request', p, t, faults', spoiled')
      BY <2>0, <3>1, DegradedSessionOf, DegradedRequestOf DEF GateInv
    <3>3. AssembledAt' = t /\ request'.profile = p
      BY <2>0, <3>2, AssembledFor DEF AssembledAt, RequestOf
    <3> HIDE DEF p, t
    <3> QED BY <2>0, <3>1, <3>2, <3>3 DEF GateInv
  <2>2. ASSUME NEW place, NEW way \in Ways, Spoil(place, way) PROVE GateInv'
    <3>1. /\ place \in PlacesOf(p) /\ EvidencePresentAt(place, session)
          /\ session' = SpoiledSession(place, way, session)
          /\ request' = SpoiledRequest(place, way, request)
          /\ spoiled' = spoiled \cup {<<place, way>>} /\ now' = now /\ faults' = faults
      BY <2>2 DEF Spoil
    <3>2. SessionOf(session', p, t, faults', spoiled') /\ RequestOf(request', p, t, faults', spoiled')
      BY <2>0, <3>1, SpoiledSessionOf, SpoiledRequestOf DEF GateInv
    <3>3. AssembledAt' = t /\ request'.profile = p
      BY <2>0, <3>2, AssembledFor DEF AssembledAt, RequestOf
    <3>4. \A place2, way2 : <<place2, way2>> \in spoiled' => place2 \in PlacesOf(p)
      BY <2>0, <3>1
    <3> HIDE DEF p, t
    <3> QED BY <2>0, <3>1, <3>2, <3>3, <3>4, Zenon DEF GateInv
  <2>3. ASSUME NEW d \in Delays, Lag(d) PROVE GateInv'
    <3>1. /\ UNCHANGED <<session, request, faults, spoiled>> /\ AssembledAt' = t
          /\ now' = now + d /\ d \in Nat
      BY <2>3, ProbeAssumption DEF Lag, AssembledAt
    <3>2. now' \in Nat /\ t <= now'
      <4> HIDE DEF t
      <4> QED BY <2>0, <3>1
    <3> QED BY <3>1, <3>2, Zenon DEF GateInv
  <2>4. ASSUME NEW a, NEW b, ChoosePowers(a, b) PROVE GateInv'
    <3>1. UNCHANGED <<session, request, now, faults, spoiled>> /\ AssembledAt' = t
      BY <2>4 DEF ChoosePowers, AssembledAt
    <3> QED BY <3>1, Zenon DEF GateInv
  <2>5. CASE UNCHANGED vars
    <3>1. UNCHANGED <<session, request, now, faults, spoiled>> /\ AssembledAt' = t
      BY <2>5 DEF vars, AssembledAt
    <3> QED BY <3>1, Zenon DEF GateInv
  <2> QED BY <2>1, <2>2, <2>3, <2>4, <2>5, Zenon DEF Next
<1> QED BY <1>1, <1>2, PTL DEF Spec

-----------------------------------------------------------------------------
(* What the kernel answers, one gate after the other.                      *)

\* None of these facts was degraded.
Sound(fs) == fs \cap faults = {}

Fresh == now <= AssembledAt + 60

\* Evidence is usable up to its freshness, unless it was spoiled (usable_at,
\* lib.rs 147-152).
LEMMA OpenIsUsable ==
  ASSUME GateInv, NEW e, NEW place, EvidenceOf(e, place, AssembledAt, spoiled)
  PROVE  UsableAt(e, now) <=> Fresh /\ Open(place)
<1> DEFINE t == AssembledAt
<1>1. t \in Nat /\ now \in Nat /\ t <= now
  BY DEF GateInv
<1>2. /\ e.accepted <=> <<place, "rejected">> \notin spoiled
      /\ e.fresh_until = t + 60
  BY DEF EvidenceOf
<1>3. e.valid_from <= now <=> (<<place, "late">> \in spoiled => t + 60 <= now)
  <2>1. e.valid_from = IF <<place, "late">> \in spoiled THEN t + 60 ELSE Before(t)
    BY DEF EvidenceOf
  <2>2. Before(t) <= now
    <3> HIDE DEF t
    <3> QED BY <1>1 DEF Before
  <2> QED BY <2>1, <2>2
<1>4. now <= t + 60 => (now < e.valid_until <=> (<<place, "short">> \in spoiled => now < t + 60))
  <2>1. e.valid_until = IF <<place, "short">> \in spoiled THEN t + 60 ELSE t + 300
    BY DEF EvidenceOf
  <2> HIDE DEF t
  <2> QED BY <1>1, <2>1
<1> QED BY <1>2, <1>3, <1>4, Zenon DEF UsableAt, Fresh, Open

\* The parts of session and request in one place.
LEMMA PartsOf ==
  ASSUME GateInv
  PROVE  LET p == request.profile t == AssembledAt F == faults S == spoiled IN
         /\ p \in Profiles
         /\ ProfileOf(session.profile, p, F)
         /\ AuthorizationOf(session.authorization, p, t, F, S)
         /\ TokenOf(session.token, t, F, S)
         /\ WalletOf(session.wallet, t, F, S)
         /\ SubjectOf(session.subject, p, t, F, S)
         /\ DelegationOf(session.delegation, p, t, F, S)
         /\ ChipOf(session.chip_evidence, p, t, F, S)
         /\ FlagsOf(session, t, F)
         /\ RequestOf(request, p, t, F, S)
         /\ ProofOf(request.proof, t, F, S)
BY DEF GateInv, SessionOf, RequestOf

FlagGate ==
    /\ session.profile.enabled /\ session.issuer_entitled /\ session.nonce_unused
    /\ session.status_reserved /\ ~session.already_issued
\* The flags of profile, issuer, nonce and status.
LEMMA FlagGateOf ==
  ASSUME GateInv
  PROVE  FlagGate <=> Sound({"disabled", "issuer_not_entitled", "nonce_used",
                             "status_not_reserved", "already_issued"})
BY PartsOf DEF ProfileOf, FlagsOf, FlagGate, Sound

WindowGate ==
    \A e \in {session.authorization.evidence, session.token.evidence,
              request.proof.evidence, session.wallet.wia,
              session.subject.evidence} : UsableAt(e, now)
\* The five pieces of evidence every request needs, each spoiled for itself.
LEMMA WindowGateOf ==
  ASSUME GateInv
  PROVE  WindowGate <=> /\ Fresh
                        /\ \A place \in {"authorization", "token", "proof", "wia", "subject"} :
                              Open(place)
<1>1. UsableAt(session.authorization.evidence, now) <=> Fresh /\ Open("authorization")
  BY PartsOf, OpenIsUsable, Zenon DEF AuthorizationOf
<1>2. UsableAt(session.token.evidence, now) <=> Fresh /\ Open("token")
  BY PartsOf, OpenIsUsable, Zenon DEF TokenOf
<1>3. UsableAt(request.proof.evidence, now) <=> Fresh /\ Open("proof")
  BY PartsOf, OpenIsUsable, Zenon DEF ProofOf
<1>4. UsableAt(session.wallet.wia, now) <=> Fresh /\ Open("wia")
  BY PartsOf, OpenIsUsable, Zenon DEF WalletOf
<1>5. UsableAt(session.subject.evidence, now) <=> Fresh /\ Open("subject")
  BY PartsOf, OpenIsUsable, Zenon DEF SubjectOf
<1> QED BY <1>1, <1>2, <1>3, <1>4, <1>5 DEF WindowGate

PartyGate ==
    /\ session.profile.id = request.profile
    /\ session.authorization.profile = request.profile
    /\ session.authorization.subject = request.subject
    /\ session.authorization.dataset = request.dataset
    /\ session.token.dpop_key = request.dpop_key
    /\ request.proof.nonce = session.expected_nonce
    /\ request.proof.holder_key = request.dpop_key
\* The bindings between session and request, a stolen token or proof among them.
PartyFaults == {"profile_other", "authorization_other_profile", "authorization_other_subject",
                "authorization_other_dataset", "token_other_key", "proof_other_nonce",
                "proof_other_key"}

\* No profile and no subject has the name of another.
LEMMA NamedOther ==
  ASSUME GateInv PROVE request.profile # "other" /\ Presented(request.profile) # "someone"
<1>1. request.profile # "other"
  BY PartsOf DEF Profiles, PidRoleProfiles, NfcPidProfiles, QeaaProfiles,
         DevelopmentProfiles, PID_SD_JWT, PID_FROM_EMRTD_SD_JWT, PID_FROM_EMRTD_MDOC,
         PID_MDOC, EAA_MDOC, QEAA_SD_JWT, QEAA_PID_BOUND_SD_JWT, DEV_SVIPE_PID_SD_JWT,
         TLSN_EVIDENCE_SD_JWT, HYBRID_PQ_SD_JWT, MANDATE_SD_JWT
<1>2. Presented(request.profile) # "someone"
  BY PresentedSubject DEF Subjects, DEMO_SUBJECT
<1> QED BY <1>1, <1>2

\* Each binding fails by a fact of its own.
LEMMA PartyGateOf == ASSUME GateInv PROVE PartyGate <=> Sound(PartyFaults)
<1>1. session.profile.id = request.profile <=> Sound({"profile_other"})
  BY NamedOther, PartsOf DEF ProfileOf, Sound
<1>2. session.authorization.profile = request.profile <=> Sound({"authorization_other_profile"})
  BY NamedOther, PartsOf DEF AuthorizationOf, RequestOf, Sound
<1>3. session.authorization.subject = request.subject <=> Sound({"authorization_other_subject"})
  BY NamedOther, PartsOf DEF AuthorizationOf, RequestOf, Sound
<1>4. session.authorization.dataset = request.dataset <=> Sound({"authorization_other_dataset"})
  BY NamedOther, PartsOf DEF AuthorizationOf, RequestOf, Sound
<1>5. session.token.dpop_key = request.dpop_key <=> Sound({"token_other_key"})
  BY PartsOf DEF TokenOf, RequestOf, Sound, Holder
<1>6. request.proof.nonce = session.expected_nonce <=> Sound({"proof_other_nonce"})
  BY PartsOf DEF ProofOf, FlagsOf, Sound
<1>7. request.proof.holder_key = request.dpop_key <=> Sound({"proof_other_key"})
  BY PartsOf DEF ProofOf, RequestOf, Sound, Holder
<1> QED BY <1>1, <1>2, <1>3, <1>4, <1>5, <1>6, <1>7 DEF PartyGate, PartyFaults, Sound

WalletGate ==
    /\ session.wallet.wallet_not_revoked
    /\ DeviceBindingOk(session.profile, session.wallet, request.proof)
\* The wallet, with its device binding waived or not.
LEMMA WalletGateOf ==
  ASSUME GateInv
  PROVE  WalletGate <=> /\ Sound({"wallet_revoked", "no_possession"})
                        /\ \/ "device_binding_waived" \in faults
                           \/ Sound({"key_not_approved", "no_key_attestation"})
BY PartsOf DEF WalletOf, ProfileOf, ProofOf, WalletGate, DeviceBindingOk, Sound

SubjectGate ==
    /\ session.subject.subject = request.subject
    /\ session.subject.dataset = request.dataset
    /\ session.subject.entitled
    /\ session.subject.claims_current
    /\ session.profile.pid_binding_required => session.subject.pid_binding_verified
    /\ RoleEvidenceOk(session.profile.role, session.subject)
\* The subject, by the role of the profile.
LEMMA SubjectGateOf ==
  ASSUME GateInv
  PROVE  SubjectGate <=>
           /\ Sound({"subject_other", "dataset_other", "subject_not_entitled", "claims_stale"})
           /\ request.profile = QEAA_PID_BOUND_SD_JWT => Sound({"pid_not_verified"})
           /\ request.profile \in PidRoleProfiles => Sound({"loa_low"})
<1>1. (RoleOf(request.profile) = "Pid" <=> request.profile \in PidRoleProfiles)
  BY PartsOf DEF RoleOf, Profiles, PidRoleProfiles, NfcPidProfiles, QeaaProfiles,
         DevelopmentProfiles, PID_SD_JWT, PID_FROM_EMRTD_SD_JWT, PID_FROM_EMRTD_MDOC,
         PID_MDOC, EAA_MDOC, QEAA_SD_JWT, QEAA_PID_BOUND_SD_JWT, DEV_SVIPE_PID_SD_JWT,
         TLSN_EVIDENCE_SD_JWT, HYBRID_PQ_SD_JWT, MANDATE_SD_JWT
<1>2. QEAA_PID_BOUND_SD_JWT \in PidBoundProfiles
  BY DEF PidBoundProfiles
<1>3. /\ session.subject.subject = request.subject <=> Sound({"subject_other"})
      /\ session.subject.entitled <=> Sound({"subject_not_entitled"})
  BY NamedOther, PartsOf DEF SubjectOf, RequestOf, Sound
<1>4. session.subject.dataset = request.dataset <=> Sound({"dataset_other"})
  BY NamedOther, PartsOf DEF SubjectOf, RequestOf, Sound
<1>5. session.subject.claims_current <=> Sound({"claims_stale"})
  BY PartsOf DEF SubjectOf, Sound
<1>6. (session.profile.pid_binding_required => session.subject.pid_binding_verified)
        <=> (request.profile = QEAA_PID_BOUND_SD_JWT => Sound({"pid_not_verified"}))
  BY <1>2, PartsOf DEF ProfileOf, SubjectOf, Sound
<1>7. RoleEvidenceOk(session.profile.role, session.subject)
        <=> (request.profile \in PidRoleProfiles => Sound({"loa_low"}))
  BY <1>1, PartsOf DEF ProfileOf, SubjectOf, RoleEvidenceOk, Sound
<1> QED BY <1>3, <1>4, <1>5, <1>6, <1>7 DEF SubjectGate, Sound

OptionalGate ==
    /\ request.expiry <= session.wia_ka_maintenance_end
    /\ session.profile.require_hybrid_pq => session.hybrid_pq_bound
\* The maintenance window and the hybrid binding.
LEMMA OptionalGateOf ==
  ASSUME GateInv
  PROVE  OptionalGate <=> /\ Sound({"expires_after_maintenance"})
                          /\ Sound({"hybrid_required"}) \/ "hybrid_bound" \in faults
<1>1. request.expiry <= session.wia_ka_maintenance_end <=> Sound({"expires_after_maintenance"})
  BY PartsOf DEF RequestOf, FlagsOf, Sound, GateInv
<1>2. (session.profile.require_hybrid_pq => session.hybrid_pq_bound)
        <=> (Sound({"hybrid_required"}) \/ "hybrid_bound" \in faults)
  BY PartsOf DEF ProfileOf, FlagsOf, Sound
<1> QED BY <1>1, <1>2 DEF OptionalGate

\* The mandate: the delegate is the prover, the powers are inside the grant.
LEMMA RepresentationGateOf ==
  ASSUME GateInv, Fresh, Sound({"proof_other_key"})
  PROVE  RepresentationOk(session, request, now)
           <=> (request.profile = MANDATE_SD_JWT => Sound(OnlyMandate) /\ Open("delegator"))
<1>1. session.profile.role = "Representation" <=> request.profile = MANDATE_SD_JWT
  BY PartsOf, MandateRole DEF ProfileOf
<1>2. CASE request.profile # MANDATE_SD_JWT
  BY <1>1, <1>2 DEF RepresentationOk
<1>3. CASE request.profile = MANDATE_SD_JWT /\ "delegation_missing" \in faults
  BY <1>1, <1>3, PartsOf DEF RepresentationOk, DelegationOf, Sound, OnlyMandate
<1>4. CASE request.profile = MANDATE_SD_JWT /\ "delegation_missing" \notin faults
  <2>0. /\ session.delegation \in Delegations
        /\ EvidenceOf(session.delegation.delegator_evidence, "delegator", AssembledAt, spoiled)
    BY <1>4, PartsOf, Zenon DEF DelegationOf
  <2>1. /\ session.delegation # None
        /\ UsableAt(session.delegation.delegator_evidence, now) <=> Open("delegator")
    BY <2>0, EvidencePresent, OpenIsUsable, Zenon
  <2>2. session.delegation.mandate_not_revoked <=> Sound({"mandate_revoked"})
    BY <1>4, PartsOf DEF DelegationOf, Sound
  <2>3. session.delegation.delegate_key = request.proof.holder_key <=> Sound({"other_delegate"})
    BY <1>4, PartsOf DEF DelegationOf, ProofOf, Sound
  <2>4. request.requested_powers # {} <=> Sound({"no_powers"})
    BY <1>4, PartsOf DEF RequestOf, Sound, DEMO_MANDATE_POWERS
  <2>5. Sound({"no_powers"}) =>
          (request.requested_powers \subseteq session.delegation.grant <=> Sound({"grant_narrower"}))
    BY <1>4, PartsOf DEF RequestOf, DelegationOf, Sound
  <2> QED BY <1>1, <1>4, <2>1, <2>2, <2>3, <2>4, <2>5 DEF RepresentationOk, Sound, OnlyMandate
<1> QED BY <1>2, <1>3, <1>4

\* The chip: every verdict, for the subject of the request.
LEMMA ChipGateOf ==
  ASSUME GateInv, Fresh
  PROVE  (session.profile.require_chip_liveness => ChipLivenessOk(session, request, now))
           <=> (request.profile \in NfcPidProfiles => Sound(OnlyNfc) /\ Open("chip"))
<1>1. session.profile.require_chip_liveness <=> request.profile \in NfcPidProfiles
  BY PartsOf DEF ProfileOf
<1>2. CASE request.profile \in NfcPidProfiles /\ "chip_missing" \in faults
  BY <1>1, <1>2, PartsOf DEF ChipOf, ChipLivenessOk, Sound, OnlyNfc
<1>3. CASE request.profile \in NfcPidProfiles /\ "chip_missing" \notin faults
  <2>0. /\ session.chip_evidence \in ChipEvidences
        /\ EvidenceOf(session.chip_evidence.evidence, "chip", AssembledAt, spoiled)
    BY <1>3, PartsOf, Zenon DEF ChipOf
  <2>1. /\ session.chip_evidence # None
        /\ UsableAt(session.chip_evidence.evidence, now) <=> Open("chip")
    BY <2>0, EvidencePresent, OpenIsUsable, Zenon
  <2>2. session.chip_evidence.subject = request.subject <=> Sound({"chip_of_other"})
    <3>1. Presented(request.profile) = "document"
      BY <1>3, EvidencePresent DEF Presented, SubjectFor, ChipFor, GoodChip
    <3> QED BY <1>3, <3>1, PartsOf DEF ChipOf, RequestOf, Sound
  <2>3. /\ session.chip_evidence.sod_passive_auth <=> Sound({"not_passive_auth"})
        /\ session.chip_evidence.chip_authentic <=> Sound({"chip_copied"})
        /\ session.chip_evidence.liveness_matched <=> Sound({"portrait_mismatch"})
    BY <1>3, PartsOf DEF ChipOf, Sound
  <2> QED BY <1>1, <1>3, <2>1, <2>2, <2>3 DEF ChipLivenessOk, Sound, OnlyNfc
<1> QED BY <1>1, <1>2, <1>3

-----------------------------------------------------------------------------
(* The theorems.                                                           *)

\* authorize_sign adds nothing to may_issue.
LEMMA DecisionIsMayIssue == Decision.ok <=> MayIssue(session, request, now)
BY DEF Decision, AuthorizeSign

\* The gates together are the kernel's predicate.
LEMMA MayIssueIsGates ==
  MayIssue(session, request, now) <=>
    /\ FlagGate /\ WindowGate /\ PartyGate /\ WalletGate /\ SubjectGate /\ OptionalGate
    /\ RepresentationOk(session, request, now)
    /\ session.profile.require_chip_liveness => ChipLivenessOk(session, request, now)
BY Zenon DEF MayIssue, FlagGate, WindowGate, PartyGate, WalletGate, SubjectGate, OptionalGate

\* What the gates ask of the degraded facts.
Clear ==
    /\ Sound({"disabled", "issuer_not_entitled", "nonce_used",
              "status_not_reserved", "already_issued"})
    /\ Sound(PartyFaults)
    /\ Sound({"wallet_revoked", "no_possession"})
    /\ "device_binding_waived" \in faults \/ Sound({"key_not_approved", "no_key_attestation"})
    /\ Sound({"subject_other", "dataset_other", "subject_not_entitled", "claims_stale"})
    /\ request.profile = QEAA_PID_BOUND_SD_JWT => Sound({"pid_not_verified"})
    /\ request.profile \in PidRoleProfiles => Sound({"loa_low"})
    /\ Sound({"expires_after_maintenance"})
    /\ Sound({"hybrid_required"}) \/ "hybrid_bound" \in faults
    /\ request.profile = MANDATE_SD_JWT => Sound(OnlyMandate)
    /\ request.profile \in NfcPidProfiles => Sound(OnlyNfc)

\* No gate is closed exactly when every fault is harmless or excused.
LEMMA ClearIsExcused ==
  ASSUME GateInv PROVE Clear <=> faults \subseteq Harmless \cup Excused
<1>1. ASSUME Clear PROVE faults \subseteq Harmless \cup Excused
  <2> SUFFICES ASSUME NEW f \in faults PROVE f \in Harmless \cup Excused
    OBVIOUS
  <2>1. f \in FaultsOf(request.profile)
    BY DEF GateInv
  <2>2. CASE f \in EveryProfile \cup Harmless
    BY <1>1, <2>2 DEF Clear, Sound, EveryProfile, Harmless, Excused, PartyFaults
  <2>3. CASE f \notin EveryProfile \cup Harmless
    BY <1>1, <2>1, <2>3 DEF Clear, Sound, FaultsOf
  <2> QED BY <2>2, <2>3
<1>2. ASSUME faults \subseteq Harmless \cup Excused PROVE Clear
  <2> DEFINE G == Harmless \cup Excused
  <2>1. /\ \A f \in G : f \in {"hybrid_bound", "device_binding_waived", "hybrid_required",
                               "key_not_approved", "no_key_attestation",
                               "expires_with_maintenance", "loa_low", "pid_not_verified"}
        /\ "loa_low" \in G => request.profile \notin PidRoleProfiles
        /\ "pid_not_verified" \in G => request.profile # QEAA_PID_BOUND_SD_JWT
        /\ "hybrid_required" \in G => "hybrid_bound" \in faults
        /\ "key_not_approved" \in G \/ "no_key_attestation" \in G
             => "device_binding_waived" \in faults
    BY DEF Harmless, Excused
  <2> HIDE DEF G
  <2> QED BY <1>2, <2>1 DEF Clear, Sound, OnlyMandate, OnlyNfc, PartyFaults, G
<1> QED BY <1>1, <1>2

\* What every place of evidence the profile uses must be, and the others are.
AllOpen == \A place \in Places : Open(place)
LEMMA OpenPlaces ==
  ASSUME GateInv
  PROVE  AllOpen <=>
           /\ \A place \in {"authorization", "token", "proof", "wia", "subject"} : Open(place)
           /\ request.profile = MANDATE_SD_JWT => Open("delegator")
           /\ request.profile \in NfcPidProfiles => Open("chip")
<1>1. \A place : place \notin PlacesOf(request.profile) => Open(place)
  BY Zenon DEF GateInv, Open
<1>2. request.profile # MANDATE_SD_JWT => Open("delegator")
  BY <1>1 DEF PlacesOf
<1>3. request.profile \notin NfcPidProfiles => Open("chip")
  BY <1>1 DEF PlacesOf
<1> QED BY <1>2, <1>3 DEF AllOpen, Places

\* The kernel authorises exactly the requests with no fault but the excused,
\* decided while all evidence is fresh and inside its validity: whichever facts
\* are degraded, whichever evidence is spoiled and in whichever way, and however
\* many of them, so that no conjunct is missing (may_issue, lib.rs 364-404).
THEOREM GateIsExact == Spec => []GateClosesExactly
<1>1. GateInv => GateClosesExactly
  <2> SUFFICES ASSUME GateInv PROVE GateClosesExactly
    OBVIOUS
  <2>1. Decision.ok => Clear /\ Fresh /\ AllOpen
    <3> SUFFICES ASSUME MayIssue(session, request, now) PROVE Clear /\ Fresh /\ AllOpen
      BY DecisionIsMayIssue
    <3>1. Fresh /\ Sound(PartyFaults)
      BY MayIssueIsGates, WindowGateOf, PartyGateOf
    <3>2. Sound({"proof_other_key"})
      BY <3>1 DEF Sound, PartyFaults
    <3>3. Clear
      BY <3>1, <3>2, MayIssueIsGates, FlagGateOf, WalletGateOf, SubjectGateOf,
         OptionalGateOf, RepresentationGateOf, ChipGateOf, Zenon DEF Clear
    <3>4. AllOpen
      BY <3>1, <3>2, MayIssueIsGates, WindowGateOf, RepresentationGateOf, ChipGateOf,
         OpenPlaces, Zenon
    <3> QED BY <3>1, <3>3, <3>4
  <2>2. Clear /\ Fresh /\ AllOpen => Decision.ok
    <3> SUFFICES ASSUME Clear, Fresh, AllOpen PROVE MayIssue(session, request, now)
      BY DecisionIsMayIssue
    <3>1. Sound({"proof_other_key"})
      BY DEF Clear, Sound, PartyFaults
    <3>2. FlagGate /\ PartyGate /\ WalletGate /\ SubjectGate /\ OptionalGate
      BY FlagGateOf, PartyGateOf, WalletGateOf, SubjectGateOf, OptionalGateOf, Zenon DEF Clear
    <3>3. /\ WindowGate /\ RepresentationOk(session, request, now)
          /\ session.profile.require_chip_liveness => ChipLivenessOk(session, request, now)
      BY <3>1, WindowGateOf, RepresentationGateOf, ChipGateOf, OpenPlaces, Zenon DEF Clear
    <3> QED BY <3>2, <3>3, MayIssueIsGates
  <2> QED BY <2>1, <2>2, ClearIsExcused, Zenon DEF GateClosesExactly, Fresh, AllOpen
<1> QED BY <1>1, GateInvariant, PTL

\* A mandate the kernel authorises carries powers, all inside the grant of the
\* delegator, for the delegator and to the delegate's own key; no other credential
\* carries a power (authorize_sign, lib.rs 407-427).
THEOREM MandateNarrows == Spec => []MandateNarrowsGrant
<1>1. GateInv => MandateNarrowsGrant
  <2> SUFFICES ASSUME GateInv, Decision.ok PROVE MandateNarrowsGrant
    BY DEF MandateNarrowsGrant
  <2>1. RepresentationOk(session, request, now)
    BY DecisionIsMayIssue, MayIssueIsGates
  <2>2. session.profile.role = "Representation" <=> request.profile = MANDATE_SD_JWT
    BY PartsOf, MandateRole DEF ProfileOf
  <2>3. CASE request.profile = MANDATE_SD_JWT
    <3>1. /\ session.delegation # None
          /\ session.delegation.delegate_key = request.proof.holder_key
          /\ request.requested_powers # {}
          /\ request.requested_powers \subseteq session.delegation.grant
      BY <2>1, <2>2, <2>3 DEF RepresentationOk
    <3>2. /\ Decision.granted_powers = request.requested_powers
          /\ Decision.on_behalf_of = session.delegation.delegator
          /\ Decision.holder_key = request.proof.holder_key
      BY <2>2, <2>3, <3>1, DecisionIsMayIssue DEF Decision, AuthorizeSign
    <3> QED BY <2>3, <3>1, <3>2 DEF MandateNarrowsGrant
  <2>4. CASE request.profile # MANDATE_SD_JWT
    BY <2>2, <2>4, DecisionIsMayIssue DEF Decision, AuthorizeSign, MandateNarrowsGrant
  <2> QED BY <2>3, <2>4
<1> QED BY <1>1, GateInvariant, PTL

\* Two powers of the taxonomy have two names on the wire.
LEMMA TaxonomyInjective ==
  ASSUME NEW a \in TAXONOMY_MASK, NEW b \in TAXONOMY_MASK, POWER_TAXONOMY[a] = POWER_TAXONOMY[b]
  PROVE  a = b
BY DEF TAXONOMY_MASK, POWER_TAXONOMY

\* Containment on the wire is containment of the powers the taxonomy covers, and
\* the wire never widens a request (lib.rs 62-69), for all sets of powers.
THEOREM WireAgrees == Spec => []WireScopeAgreesWithPowers
<1>1. WireScopeAgreesWithPowers
  BY TaxonomyInjective DEF WireScopeAgreesWithPowers, ScopeUrnsSubset, PowersToScopeUrns
<1> QED BY <1>1, PTL

=============================================================================
