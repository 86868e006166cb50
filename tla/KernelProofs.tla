---------------------------- MODULE KernelProofs ----------------------------
(***************************************************************************)
(* What the answers of the decision kernel imply, for every session and    *)
(* request: the facts the proofs about its callers rest on.                *)
(***************************************************************************)
EXTENDS IssuerKernel, TLAPS

\* The kernel authorises an NFC-sourced PID only on a chip read with all three
\* verdicts (authorize_kernel, main.rs 3397-3520; chip_liveness_ok, lib.rs 336-347).
LEMMA ChipGate ==
  ASSUME NEW p \in NfcPidProfiles, NEW holder, NEW n, NEW subject, NEW chip, NEW now,
         AuthorizeKernel(p, holder, n, subject, chip, now).ok
  PROVE  /\ chip # None
         /\ chip.sod_passive_auth /\ chip.chip_authentic /\ chip.liveness_matched
<1> DEFINE session == SessionFor(p, holder, n, subject, chip, now)
           request == RequestFor(p, holder, n, subject, chip, now)
<1>1. chip # None
  BY DEF AuthorizeKernel, HasRequiredEvidence
<1>2. AuthorizeSign(session, request, now).ok
  BY DEF AuthorizeKernel
<1>3. MayIssue(session, request, now)
  <2> HIDE DEF session, request
  <2> QED BY <1>2 DEF AuthorizeSign
<1>4. session.profile.require_chip_liveness
  <2>1. session.profile.require_chip_liveness = (p \in NfcPidProfiles)
    BY SMT DEF SessionFor
  <2>2. p \in NfcPidProfiles
    OBVIOUS
  <2> HIDE DEF session, request
  <2> QED BY <2>1, <2>2, Zenon
<1>5. /\ session.chip_evidence.sod_passive_auth
      /\ session.chip_evidence.chip_authentic
      /\ session.chip_evidence.liveness_matched
  <2> HIDE DEF session, request
  <2> QED BY <1>3, <1>4 DEF MayIssue, ChipLivenessOk
<1>6. /\ session.chip_evidence.sod_passive_auth = chip.sod_passive_auth
      /\ session.chip_evidence.chip_authentic = chip.chip_authentic
      /\ session.chip_evidence.liveness_matched = chip.liveness_matched
  BY <1>1 DEF SessionFor
<1> QED BY <1>1, <1>5, <1>6
=============================================================================
