--------------------------- MODULE CaptureSession ---------------------------
(***************************************************************************)
(* Cross-wallet PID capture: the handlers create_pid_capture_session,      *)
(* get_pid_capture_session and submit_pid_capture_evidence of main.rs over *)
(* the sessions of capture.rs, with the liveness provider of iproov.rs.    *)
(*                                                                         *)
(* A submission reads its session under the mutex, releases the mutex for  *)
(* the call to the liveness provider, and takes it again to spend the      *)
(* attestation, ask the kernel, sign and store.  Between the two it is an  *)
(* entry of submitting, with what it read; other submissions, also to the  *)
(* same session, run meanwhile.  The call has no time limit.               *)
(*                                                                         *)
(* outcomes and delivered are history variables.                           *)
(***************************************************************************)
EXTENDS IssuerKernel, Sequences

CONSTANTS
    Sessions,            \* session identifiers; a session's nonce goes by its name
    Keys,                \* thumbprints of target wallet keys
    Submissions,         \* requests that may be in flight at once
    Jtis, Documents,     \* identifiers and subjects of chip attestations
    Attestations,        \* attestations the trusted reader signs
    IproovConfigured,    \* a liveness provider is configured
    ReaderConfigured,    \* a trusted eMRTD reader key is configured
    Ttl,                 \* CAPTURE_SESSION_TTL_SECONDS, in clock ticks
    MaxTime, MaxBoots    \* bounds on the clock and on restarts

\* verify_emrtd_evidence's result; liveness_matched is the portrait match.
Attestation == [jti : Jtis, nonce : Sessions, holder : Keys, subject : Documents,
                sod_passive_auth : BOOLEAN, chip_authentic : BOOLEAN,
                liveness_matched : BOOLEAN]

ASSUME CaptureAssumption ==
    /\ Attestations \subseteq Attestation
    /\ IproovConfigured \in BOOLEAN /\ ReaderConfigured \in BOOLEAN
    /\ Ttl \in Nat /\ MaxTime \in Nat /\ MaxBoots \in Nat
    /\ None \notin Sessions

VARIABLES clock, boot, capture_sessions, binding_jtis, submitting,
          drawn, outcomes, delivered

vars == <<clock, boot, capture_sessions, binding_jtis, submitting,
          drawn, outcomes, delivered>>

Time == 0..MaxTime

\* The provider's answer to claim/verify/validate.
Assurance == {"absent", "liveness", "genuine_presence"}
Answer == [passed : BOOLEAN, assurance_type : Assurance]

\* What a submission carries over the provider call; seen counts the outcomes
\* there were when it read its session (history).
Snapshot == [session : Sessions, holder : Keys, token : Sessions \cup {None},
             attestation : Attestations, at : Time, seen : Nat]

\* A minted PID pair: SD-JWT and mdoc of one submission.
Pid == [session : Sessions, holder : Keys, attestation : Attestations,
        answer : Answer, at : Time, boot : 0..MaxBoots]

\* How a submission was resolved: a PID, or None for a denial (history).
Outcome == [session : Sessions, seen : Nat, pid : Pid \cup {None}]

CaptureStatus == {"awaiting_evidence", "issued", "failed"}

\* credential and credential_mdoc are stored together, as one pair.
Session == [holder : Keys, token : Sessions \cup {None}, status : CaptureStatus,
            credential : Pid \cup {None}, expires_at : 0..(MaxTime + Ttl)]

\* Rust's None is no record.
ASSUME NoneAssumption ==
    None \notin Pid /\ None \notin Session /\ None \notin Snapshot

TypeOK ==
    /\ clock \in Time /\ boot \in 0..MaxBoots
    /\ capture_sessions \in [Sessions -> Session \cup {None}]
    /\ binding_jtis \subseteq Jtis
    /\ submitting \in [Submissions -> Snapshot \cup {None}]
    /\ drawn \subseteq Sessions
    /\ outcomes \in Seq(Outcome)
    /\ delivered \subseteq [session : Sessions, credential : Pid]

Init ==
    /\ clock = 0 /\ boot = 0
    /\ capture_sessions = [s \in Sessions |-> None]
    /\ binding_jtis = {}
    /\ submitting = [k \in Submissions |-> None]
    /\ drawn = {} /\ delivered = {}
    /\ outcomes = <<>>

-----------------------------------------------------------------------------
(* Sessions.                                                               *)

\* Mutant: the session lives a tick too long.
ExpiresLate(t) == t + Ttl + 1

ExpiresAt(t) == t + Ttl

\* The clock is read before the provider mints the verify token.
CreateSession(s, key, t) ==
    /\ s \notin drawn /\ drawn' = drawn \cup {s}
    /\ t <= clock
    /\ capture_sessions' = [capture_sessions EXCEPT ![s] =
          [holder |-> key, token |-> IF IproovConfigured THEN s ELSE None,
           status |-> "awaiting_evidence", credential |-> None,
           expires_at |-> ExpiresAt(t)]]
    /\ UNCHANGED <<clock, boot, binding_jtis, submitting, outcomes, delivered>>

\* get_pid_capture_session: an issued session outlives its expiry.  A session
\* without a credential has nothing to deliver.
PollDelivers(s) ==
    /\ capture_sessions[s] # None
    /\ ~(capture_sessions[s].expires_at < clock /\ capture_sessions[s].status # "issued")
    /\ capture_sessions[s].credential # None
    /\ delivered' = delivered \cup
          {[session |-> s, credential |-> capture_sessions[s].credential]}
    /\ UNCHANGED <<clock, boot, capture_sessions, binding_jtis, submitting,
                   drawn, outcomes>>

-----------------------------------------------------------------------------
(* Submissions.                                                            *)

\* Mutants: the status, the expiry of the session is not looked at.
SessionAdmitsResolved(s) ==
    /\ capture_sessions[s] # None
    /\ ~(capture_sessions[s].expires_at < clock)
SessionAdmitsExpired(s) ==
    /\ capture_sessions[s] # None
    /\ capture_sessions[s].status = "awaiting_evidence"

SessionAdmits(s) ==
    /\ capture_sessions[s] # None
    /\ ~(capture_sessions[s].expires_at < clock)
    /\ capture_sessions[s].status = "awaiting_evidence"

\* First critical section.
SubmitReads(k, s, a) ==
    /\ submitting[k] = None
    /\ SessionAdmits(s)
    /\ submitting' = [submitting EXCEPT ![k] =
          [session |-> s, holder |-> capture_sessions[s].holder,
           token |-> capture_sessions[s].token, attestation |-> a,
           at |-> clock, seen |-> Len(outcomes)]]
    /\ UNCHANGED <<clock, boot, capture_sessions, binding_jtis, drawn, outcomes, delivered>>

\* Mutant: an answer without an assurance level counts for the required one.
LivenessVerdictLenient(answer) ==
    answer.passed /\ answer.assurance_type \in {"absent", "genuine_presence"}

\* parse_validate_response, for the required level genuine_presence.
LivenessVerdict(answer) ==
    answer.passed /\ answer.assurance_type = "genuine_presence"

\* Without a provider or a token the verdict is negative, nobody is asked.
LivenessOk(x, answer) ==
    IproovConfigured /\ x.token # None /\ LivenessVerdict(answer)

PortraitMatchedLiveness(liveness_ok, reader_match) == liveness_ok /\ reader_match

\* The attestation names the nonce and the key the submission read.
Welded(x) ==
    /\ ReaderConfigured
    /\ x.attestation.nonce = x.session /\ x.attestation.holder = x.holder

\* Mutant: the identifier is recorded, but one seen before is not refused.
SpendAgain(a) == binding_jtis' = binding_jtis \cup {a.jti}

SpendAttestation(a) ==
    /\ a.jti \notin binding_jtis
    /\ binding_jtis' = binding_jtis \cup {a.jti}

\* The kernel's decision for both formats, on the combined verdict.
KernelAllows(x, answer) ==
    LET verified == [x.attestation EXCEPT !.liveness_matched =
                        PortraitMatchedLiveness(LivenessOk(x, answer), @)]
    IN  \A p \in NfcPidProfiles :
           AuthorizeKernel(p, x.holder, x.session, None, verified, x.at).ok

\* Second critical section, the kernel denies: the session fails.
SubmitDenied(k, answer) ==
    LET x == submitting[k] IN
    /\ x # None
    /\ Welded(x) /\ SpendAttestation(x.attestation)
    /\ ~KernelAllows(x, answer)
    /\ capture_sessions' = [capture_sessions EXCEPT ![x.session].status = "failed"]
    /\ outcomes' = Append(outcomes,
          [session |-> x.session, seen |-> x.seen, pid |-> None])
    /\ submitting' = [submitting EXCEPT ![k] = None]
    /\ UNCHANGED <<clock, boot, drawn, delivered>>

\* Second critical section, both formats are signed and stored; the status is
\* not looked at again.
SubmitMints(k, answer) ==
    LET x == submitting[k]
        pid == [session |-> x.session, holder |-> x.holder,
                attestation |-> x.attestation, answer |-> answer,
                at |-> x.at, boot |-> boot]
    IN
    /\ x # None
    /\ Welded(x) /\ SpendAttestation(x.attestation)
    /\ KernelAllows(x, answer)
    /\ outcomes' = Append(outcomes,
          [session |-> x.session, seen |-> x.seen, pid |-> pid])
    /\ capture_sessions' = [capture_sessions EXCEPT
          ![x.session].status = "issued",
          ![x.session].credential = pid,
          ![x.session].token = None]
    /\ submitting' = [submitting EXCEPT ![k] = None]
    /\ UNCHANGED <<clock, boot, drawn, delivered>>

\* Second critical section, a signer fails: the attestation is spent, the
\* session keeps waiting.
SubmitSignFails(k, answer) ==
    LET x == submitting[k] IN
    /\ x # None
    /\ Welded(x) /\ SpendAttestation(x.attestation)
    /\ KernelAllows(x, answer)
    /\ submitting' = [submitting EXCEPT ![k] = None]
    /\ UNCHANGED <<clock, boot, capture_sessions, drawn, outcomes, delivered>>

\* The provider is unavailable, the attestation does not verify or was spent,
\* or the client hangs up: nothing changes.
SubmissionDropped(k) ==
    /\ submitting[k] # None
    /\ submitting' = [submitting EXCEPT ![k] = None]
    /\ UNCHANGED <<clock, boot, capture_sessions, binding_jtis, drawn, outcomes, delivered>>

-----------------------------------------------------------------------------

Tick ==
    /\ clock < MaxTime
    /\ clock' = clock + 1
    /\ UNCHANGED <<boot, capture_sessions, binding_jtis, submitting, drawn,
                   outcomes, delivered>>

\* Sessions and spent identifiers live in memory only.
Restart ==
    /\ boot < MaxBoots
    /\ boot' = boot + 1
    /\ capture_sessions' = [s \in Sessions |-> None]
    /\ binding_jtis' = {}
    /\ submitting' = [k \in Submissions |-> None]
    /\ UNCHANGED <<clock, drawn, outcomes, delivered>>

Next ==
    \/ \E s \in Sessions, key \in Keys, t \in Time : CreateSession(s, key, t)
    \/ \E s \in Sessions : PollDelivers(s)
    \/ \E k \in Submissions, s \in Sessions, a \in Attestations : SubmitReads(k, s, a)
    \/ \E k \in Submissions, answer \in Answer :
          SubmitDenied(k, answer) \/ SubmitMints(k, answer) \/ SubmitSignFails(k, answer)
    \/ \E k \in Submissions : SubmissionDropped(k)
    \/ Tick
    \/ Restart

Spec == Init /\ [][Next]_vars

-----------------------------------------------------------------------------
(* Properties.                                                             *)

\* The positions of the outcomes that are PIDs, and of the denials.
Mints == {i \in DOMAIN outcomes : outcomes[i].pid # None}
Denials == DOMAIN outcomes \ Mints

\* A minted PID rests on a complete chip read welded to its own session and
\* key, on the reader's portrait match and on the issuer's own positive
\* genuine-presence answer (submit_pid_capture_evidence, 1587-1653).
PidRestsOnPersonAndChip ==
    \A i \in Mints :
        LET m == outcomes[i].pid IN
        /\ m.attestation.nonce = m.session /\ m.attestation.holder = m.holder
        /\ m.attestation.sod_passive_auth /\ m.attestation.chip_authentic
        /\ m.attestation.liveness_matched
        /\ m.answer = [passed |-> TRUE, assurance_type |-> "genuine_presence"]

\* An attestation mints at most one PID, whatever submissions overlap, and
\* even across a restart that forgot what was spent; while the process runs,
\* so does an identifier (1632-1639).
AttestationMintsOnce ==
    \A i, j \in Mints : i # j =>
        LET m == outcomes[i].pid
            n == outcomes[j].pid
        IN  /\ m.attestation # n.attestation
            /\ m.boot = n.boot => m.attestation.jti # n.attestation.jti

\* Only submissions that were waiting for the provider together resolve one
\* session more than once: after its first outcome no submission to it starts,
\* neither to mint again nor to fail what was issued (1571).
OnlyOverlapResolvesTwice ==
    \A i, j \in DOMAIN outcomes :
        i < j /\ outcomes[i].session = outcomes[j].session => outcomes[j].seen < i

\* Evidence is taken in while its session is alive, and what a wallet polls is
\* a PID of that session, for the key the session was opened with.
DeliveredPidIsOfSession ==
    \A d \in delivered :
        /\ \E i \in Mints : outcomes[i].pid = d.credential
        /\ d.credential.session = d.session
        /\ capture_sessions[d.session] # None =>
              /\ d.credential.holder = capture_sessions[d.session].holder
              /\ d.credential.at <= capture_sessions[d.session].expires_at

\* "no-double-issue" (README.md 36): a session mints one PID.
OnePidPerSession ==
    \A i, j \in Mints : outcomes[i].session = outcomes[j].session => i = j

\* "Evidence was rejected ... Terminal." (capture.rs 29): a session that was
\* failed stays failed.
FailedIsTerminal ==
    \A i \in Denials : capture_sessions[outcomes[i].session] # None =>
        capture_sessions[outcomes[i].session].status = "failed"
=============================================================================
