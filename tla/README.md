# VCIssuer in TLA+

A verification development for the VCIssuer service (`src/rust`): a kernel that
decides whether a credential may be signed, and an HTTP service that collects
the evidence the kernel decides on. The modules here model the kernel, the
OAuth/OID4VCI issuance flow, the cross-wallet PID capture, App Attest, what the
encoders put into a credential, the hybrid envelope and the signing keys behind
it; TLC checks them on small instances. TLAPS proves, for every instance, every
safety property the passing runs check, and that the flow implements its abstract
specification. One property, of liveness, is only model-checked.

File references are to `src/rust/issuer-service/src/main.rs` unless another
file is named; `lib.rs` is `src/rust/issuer-core/src/lib.rs`.

## 1. The system

All handlers of the service share one `VolatileState` (168–184) behind one
asynchronous mutex. Handlers run concurrently on the Tokio runtime; a handler
that releases the mutex, or waits for it a second time, can be interleaved with
any other, and is dropped at its next `await` when the client hangs up. Nothing
is persisted but the App Attest instance table and the hybrid key file, so a
restart empties every map while wallets keep what they were given.

| Component | State it keeps | Operations | What must hold |
|---|---|---|---|
| Decision kernel (`lib.rs`) | none | `may_issue`, `authorize_sign`, power taxonomy | every gate closes on its own fact; a mandate never exceeds the delegator's grant |
| Kernel adapter (3335–3535) | none | `authorize_kernel` | the session handed to the kernel reflects the evidence that was verified |
| Offers (1167–1361) | `offers`, `tlsn_sessions` | `create_credential_offer`, `build_tlsn_offer`, `reserve_tlsn_session` | one offer per notarised session, inside its window |
| Authorization (1102–1165, 2057–2172) | `pushed`, `codes`, `tokens`, `dpop_jtis` | `par`, `authorize`, `token` | one token per code and request; the token is what the client asked for |
| Credential (2174–2518) | `nonces`, `binding_jtis` | `nonce`, `credential` | inside the grant; a nonce, an attestation, a presentation back one credential |
| Evidence verifiers (2602–3313, 4163–4320) | none | `verify_dpop`, `verify_credential_proof`, `verify_pid_binding`, `verify_emrtd_evidence`, `verify_tlsn_artifact` | what a positive answer welds together |
| PID capture (1376–1761, `capture.rs`, `iproov.rs`) | `capture_sessions`, `binding_jtis` | create, poll, submit | a PID rests on chip, portrait and live person; one resolution per session |
| App Attest (1814–2050, `app_attest.rs`) | `app_attest_challenges`, `app_attest_instances`, a file | challenge, register, assert | single-use challenge, increasing counter, also over restarts |
| Encoders (3543–4075) | none | `issue_sd_jwt`, `issue_mdoc`, `issue_mandate_sd_jwt`, `issue_hybrid_credential` | every profile authorised has an encoder and a signer; both formats of a PID say the same |
| Document dates (2885–2902, 3054–3071) | none | `age_over_18`, `is_expired_document` | right on every calendar day, and closed when a date cannot be read |
| Keychain signer (`signer.rs`) | Keychain keys | `find_or_create`, `sign`, `development_certificate_der` | a certificate is of the key that signed |
| Hybrid signer (`hybrid_signer.rs`, `pq_backend.rs`) | wrapping key, encrypted key file, generation | `find_or_create`, `sign_envelope`, `sign_pq_raw` | both halves from one recorded identity; a record is never lost nor unreadable, however a start is cut short |
| Hybrid codec (`hybrid_codec.rs`) | none | encode, decode, verify of wrapper, public keys and signatures | what is accepted was signed, for its purpose and context |
| Adapters (`svipe.rs`, `apns.rs`, `env_file.rs`, `activechain_schema.rs`, metadata) | none | – | – |

How they interact: `par` reads an offer and pushes a request; `authorize` turns
it into a code; `token` turns the code into a DPoP-bound token; `credential`
checks the token, the nonce and the profile's evidence, asks the kernel through
`authorize_kernel`, consumes nonce and evidence, releases the mutex, and calls an
encoder. A capture submission checks its session, releases the mutex, calls the
liveness provider over the network, takes the mutex again, spends the
attestation in the same `binding_jtis` the credential endpoint uses, asks the
kernel twice and signs twice. `enforce_app_attest` guards the submission. At
start-up one Keychain key is found or made per profile, and then the hybrid
identity, whose classical half is such a key as well; every hybrid signature
loads the key file again and compares it with the identity in memory.

Hard behaviours, each listed at its line under `hazards` in `PROJECT.json`:
handlers in two critical sections (`par`, `authorize`, `app_attest_register`,
capture submission), clients that hang up between them, consumption before a
signature that may fail, replay ledgers a restart forgets, evidence and tokens
with windows that chain, a network call without a time limit, an identity kept
in three places that a start makes in separate steps and a request reads in two,
calendar boundaries, and three containers that share one magic number.

## 2. Modules

| Module | What it models |
|---|---|
| `IssuerKernel` | the kernel and `authorize_kernel`, as operators |
| `KernelProbe` | drives the kernel: assemble a session, degrade facts and bounds of single pieces of evidence, let time pass, choose powers |
| `IssuanceFlow` | offers, PAR, authorize, token, nonce, credential, signing, clock, restarts; uses `IssuerKernel` for the decision |
| `MCIssuanceFlow` | sets of scopes, attestations and presentations, and the symmetry, for the flow's runs |
| `IssuanceLedger` | the abstract specification: what is promised of authorizations and credentials, without codes, tokens, proofs or a mutex |
| `IssuanceRefinement` | the refinement mapping from `IssuanceFlow` to `IssuanceLedger` |
| `MCIssuanceEvidence` | three scenarios of `IssuanceFlow` with their bounds |
| `KernelProofs` | what an answer of the kernel implies for those who ask it: lemma `ChipGate` |
| `KernelProbeProofs` | the three properties of `KernelProbe`, proved |
| `IssuanceFlowProofs` | all properties of `IssuanceFlow`, proved |
| `IssuanceRefinementProofs` | `IssuanceFlow` implements `IssuanceLedger`, proved |
| `CaptureSession`, `MCCaptureSession` | PID capture; uses `IssuerKernel` for the decision |
| `CaptureSessionProofs` | all properties of `CaptureSession`, proved |
| `AppAttest`, `MCAppAttest` | challenges, registration, counters, store |
| `AppAttestProofs` | all properties of `AppAttest`, proved |
| `CredentialContents` | dates, portrait, and what each encoder puts into a credential, as operators |
| `DocumentProbe` | drives the dates and the encoders while time passes, against a calendar kept day by day |
| `HybridEnvelope` | the codec: context policy, signed bytes, encoders, decoders and verification, as operators |
| `EnvelopeProbe` | drives the codec: compose, sign, publish, and change single fields of the message or of what the reader expects, while a stranger signs whatever arrives |
| `MCCredentials` | both probes in one run, and the dates they start from |
| `CredentialsProofs` | the calendar, and all properties of both probes, proved |
| `HybridSigner` | the Keychain, the wrapping key, the key file and the processes that make and use them |
| `HybridSignerProofs` | the safety properties of `HybridSigner`, proved |

`IssuanceFlow` and `CaptureSession` compose with the kernel by extending
`IssuerKernel`: their actions evaluate `AuthorizeKernel` on the evidence at hand,
so a kernel or adapter mistake shows in the properties of the flow.
`CredentialContents` extends it for the profiles and what they demand. Operators
that only compute (`IssuerKernel`, `CredentialContents`, `HybridEnvelope`) each
have a probe, a state machine that walks their inputs.

### From code to actions

* A map of `VolatileState` is a function into records or `None`; a set is a set.
  Variables keep the code's names.
* A stretch of a handler between taking and releasing the mutex is one action.
  A handler with two such stretches is two actions; what it carries from one to
  the other is an element of `par_inflight`, `authorizing`, `signing`
  (`IssuanceFlow`), `submitting` (`CaptureSession`) or `registering`
  (`AppAttest`). `ClientHangsUp`, `SubmissionDropped` and `RegistrationDropped`
  remove such an element. The signing part of `credential` has no `await`, so no
  hang-up reaches `signing`.
* An early return that leaves the state as it was is no action. One that comes
  after a change is: `RequestRefused` (a DPoP `jti` is burned by any request that
  reaches the mutex), `AuthorizeMismatch` (the request_uri is gone although the
  client was wrong), `EvidenceSpentInVain` (the evidence is recorded and the
  kernel, or a later check, refuses).
* `Restart` empties every volatile map. Identifiers the random generator has
  handed out stay in `drawn`, and what others hold (`artifacts`, `issued`,
  attestations) stays. `Undrawn` picks the identifier, which loses no behaviour
  because only equality of identifiers matters.
* `issued` is what wallets hold: a PID presented for a mandate must be in it.
  `par_log`, `grants`, `unsigned`, `accepted`, `outcomes`, `delivered` are
  history variables; no guard reads them.
* In `HybridSigner` an action is one step on the Keychain or the disk. `proc` says
  how far a process is in `main` and what it has loaded, `seek` is a call of
  `KeychainSigner::find_or_create` under way, `request` a credential half signed.
  `Stops` ends a process between any two steps. A second process started by hand
  goes through all of start-up before `bind` tells it that the address is taken.
* In `IssuanceRefinement` a request_uri is *pushed* as long as it, the code made
  of it, or the handler between the two can be found, *granted* while its token
  is, *closed* otherwise (`PhaseOf`); a nonce is *pending* while its credential
  is being signed, then *signed* or *lost*, *offered* while the process knows it
  as unused and *void* when it does not (`LedgerOf`). Client, redirect, PKCE,
  DPoP and evidence checks map to stutters.

### What is abstracted

* Signatures and hashes. A piece of evidence is the record of what its verifier
  extracts and compares: the nonce and key it names, its subject, its verdicts.
  Hashes into 128 bits are injective.
* A PKCE challenge stands for its verifier, a JWK thumbprint for its key.
* The `iat` windows of DPoP proofs, credential proofs and binding proofs. They
  bound how old a proof may be, while the properties rest on the nonces and
  identifiers in it. The windows of TLSNotary artifacts, offers, PIDs, capture
  sessions and challenges are modelled.
* The evidence windows in `authorize_kernel` are cut around the deciding instant
  and status and revocation facts are constants there. The model keeps that as it
  is, which is why `KernelProbe` degrades them directly: the service alone would
  never exercise those gates. The freshness of evidence ends before its validity
  does, so a validity bound decides nothing until `Spoil` moves it there.
* The macOS build is modelled; on other systems every signature is refused.
* In `HybridEnvelope`, byte strings are short sequences and the limits are scaled;
  CBOR is a sequence of values, and what canonical encoding excludes is a sequence
  of another shape. The 64 KiB bound of the wrapper is left to the 4 KiB bound
  of the committed payload, which is the smaller one wherever a wrapper is
  signed or verified.
* In `CredentialContents`, salts, digests and the layout of disclosures. A handler
  reads the clock once. A date is a calendar date or one that cannot be read: it
  comes from a trusted reader, so that `birth_year + 18` does not overflow.
* In `HybridSigner`, starts do not overlap one another: there is one supervisor.
  A search of the Keychain that could return several keys returns the same one
  each time. A random value is new (`Draw`).
* The second format of a capture (mdoc) is signed by the same action as the
  first; `SubmitSignFails` covers the failure of either.

## 3. What is checked

`hybrid_signer` checks deadlock. The other runs do not: their instances run out
of identifiers, and the service then waits.

| Run | Instance | Question |
|---|---|---|
| `kernel_probe` | 11 profiles, instants 0 and later, up to two degradations (of 37 facts, and of seven pieces of evidence in three ways), decisions at once and 59, 60 and 61 seconds later, power bits inside and outside the taxonomy | does each gate close on its own fact or bound and on nothing else (`GateClosesExactly`), do mandates narrow (`MandateNarrowsGrant`), does the wire agree with the bits (`WireScopeAgreesWithPowers`) |
| `flow_authorization` | 2 clients, redirects and verifiers, 3 request_uris and codes, 2 tokens, 2 `jti`s, 1 restart | one token per code and request (`CodeRedeemedOnce`), the token is what was pushed (`GrantHonoursPar`) |
| `flow_evidence` | three scenarios, each with bounds of its own. *nfc*: 2 keys, tokens and nonces, 4 `jti`s, attestations of good, copied and mismatched chips, 1 restart. *mandate*: 3 nonces (a PID and two presentations), every combination of nonce, key and PID holder in a presentation, a PID that expires after one tick. *tlsn*: a notarised session, 2 offers, 4 instants for a window of one tick | `CredentialHonoursGrant`, `NonceBacksOneCredential`, `NonceLedgerExact`, `NfcPidEarned`, `EvidenceBacksOneCredential`, `BindingJtiUsedOnce`, `PidBoundRestsOnPid`, `OneOfferPerTlsnSession`, `TlsnEvidenceWindow`; one use per DPoP proof over the token and the credential endpoint (`DpopJtiAcceptedOnce`); the flow implements the ledger (`LedgerSpec`) |
| `capture` | 2 sessions and keys, 2 submissions at once, all liveness answers, complete and incomplete chip reads, one tick so that sessions expire, 1 restart | `PidRestsOnPersonAndChip`, `AttestationMintsOnce`, `OnlyOverlapResolvesTwice`, `DeliveredPidIsOfSession` |
| `app_attest` | 2 devices, 2 challenges, 2 assertions each, failing store, 1 restart | `CountersIncrease`, `ChallengeSpentByRegistration`, `ReplayNeedsStoreFailure`, `RegistrationsSurvive` |
| `hybrid_signer` | the service and one process started by hand, a fresh installation or one with an unreadable key, 4 troubles (stops, refusals, deleted keys, starts by hand), generations up to 3 | two halves of a signature and their record agree (`SignedUnderOneIdentity`, `CertificateOfSigner`), what is served is recorded and readable (`ServesRecordedIdentity`, `RecordOpens`), the record only moves forward (`GenerationAdvances`), the service comes back (`ServiceReturns`) |
| `credentials` | *documents*: 10 days of 4 ticks from each of six dates (end of February and of the year in 2000, 2026 and 2100), birth dates 17 to 19 years back. *envelopes*: every purpose, byte strings empty, short and one too long, 3 changes, and a stranger's key that signs the message as it arrives | `DatesReadExactly`, `HeldPidTrue`, `EncodersServe`; `AcceptedWasSigned`, `IssuedVerifies`, `ContainersNotConfused` |

Why the bounds are enough: each property relates at most two tokens, credentials,
outcomes or acceptances; the instances have two of each and one more of what is
consumed to make them (request_uris, codes, nonces), so that a retry after a loss
is possible. Two clients are needed for a stolen code, two keys for a misbound
proof. One restart separates two lives of the process; a third life adds no new
kind of history. Time windows are one tick, so that the instants before, at and
after each bound all occur. `MaxTime`, `MaxBoots` and `MaxCount` bound the
counters in the guards of `Tick`, `Restart` and `GenerateAssertion`; the tables in
`MCIssuanceEvidence` bound what each scenario may draw; they are a state constraint.
Three more reductions keep `flow_evidence` small, and none removes a history the
other runs or bounds do not reach: authorizations follow each other (their
interleavings are the business of `flow_authorization`), a request refused with
nothing spent but its proof identifier is left out (all it does is to make one
more identifier unusable; `DpopOnce` has such requests too), and the notary signs before anything else happens (nothing reads an artifact earlier, and
it may be dated for any instant). `MaxTroubles` bounds what goes wrong in `HybridSigner`:
four are two more than any property relates (a key deleted, a process stopped),
so that a repair can itself be cut short. 2000, 2026 and 2100 are a leap year
by the rule of 400, a common year, and a century that is none. Three changes are
enough to put a field, its signature and the reader's expectation out of step.
Symmetry is used on
names that occur in no constant order and no property by name; no run with
symmetry checks liveness.

### Disagreements found

Each has a run that ends in a counterexample, and an entry under `findings`.

* `flow_token_expiry`: a token is announced with `expires_in: 300` (2169) and
  honoured for the life of the process.
* `flow_nonce_atomic`: `FORMAL_SPEC.md` 455 asks for atomic consumption and
  issuance; nonce and evidence are consumed (2383–2387) before the signature, and
  stay consumed when it fails.
* `capture_double_mint`: two submissions waiting for the liveness provider both
  mint; the status is checked at 1571 and not again. `OnlyOverlapResolvesTwice`
  delimits it: nothing but such an overlap resolves a session twice.
* `capture_failed_terminal`: the outcomes of overlapping submissions overwrite
  one another, so `Failed` is not terminal, and in the other order a session that
  was issued reads as failed while it still hands out its PID.
* `attest_store_fails`: the counter is persisted best effort (`app_attest.rs`
  110–126); after a failed write and a restart an assertion is accepted again.
  `ReplayNeedsStoreFailure` shows that nothing else lets one be.

Two more were met that have no run. `docs/experimental-hybrid-pq-profile.md` 86–88
says that the purpose of a wrapper must be one of two; `encode` and `decode`
take any of the five the context knows, if the caller expects it. And `valid_scope`
admits the Svipe profile, for which the dispatch of `credential` has no encoder: the
nonce is spent and the answer is an error. `EncodersServe` leaves that
profile out. The same document (88–90) says that key identifiers and generation
are not signed; `AcceptedWasSigned` says what a reader is sure of nonetheless.

### Fairness

Only `HybridSigner` states liveness. `FairSpec` has weak fairness of
`SupervisorStarts`, since the launchd job of the service has `KeepAlive`
(`deploy/macos/systems.advatar.vcissuer.plist`), and of `StartStep` of each
process, since a process that starts waits for nobody. Clients and operators
owe nothing. Troubles may happen at any moment, and are bounded, so there is an
end to them: `ServiceReturns` says that the service is then back, but for a
deleted wrapping key, which makes the record unreadable for good.

No other module assumes fairness. A handler finishes only if its client
stays connected, and a capture submission only if the provider answers: the HTTP
client (535) has no timeout. All that could be promised under the fairness of the
runtime is that a handler waiting for the mutex gets it.

## 4. What is proved

Assumed by all proofs: the named assumptions on the constants, listed with each
component and evaluated by TLC in its runs, and what the model says, in particular
that random identifiers are never drawn twice and that verifiers extract what was
signed. The assumptions named after `None` say that Rust's `None` is no `Some`.

### The kernel

For all instants, delays and numbers of faults (`ProbeAssumption`, `NoneAssumption`):

| Theorem | Property | Argument |
|---|---|---|
| `GateIsExact` | `GateClosesExactly` | `GateInv` |
| `MandateNarrows` | `MandateNarrowsGrant` | `GateInv` |
| `WireAgrees` | `WireScopeAgreesWithPowers` | lemma `TaxonomyInjective` |

`GateInv` reads every field of the session and the request off the set of degraded
facts, and every bound of every piece of evidence off the set of spoiled ones
(`EvidenceOf`). One lemma per part of the input (`DegradedProfile` to
`DegradedChip`, `SpoiledAuthorization` to `SpoiledChip`) shows that a fact, or
evidence spoiled, changes its own part and no other. `OpenIsUsable` says which
evidence is usable when, and one lemma per gate of `may_issue` (`FlagGateOf` to
`ChipGateOf`) which degradations close it. For any set of them, not only pairs,
the kernel authorises what the reference does, so no two cancel out.

That every conjunct is needed rests on the choice of degradations: for each
comparison and each flag in `may_issue`, `role_evidence_ok`, `representation_ok`,
`chip_liveness_ok`, `device_binding_ok` and `usable_at` there is one that this
conjunct alone decides. Bounds are met at the instant itself and a second to
either side: 59, 60 and 61 seconds for freshness; for the half-open interval of
validity, which `late` and `short` move to the last fresh second, the same
instants; and for the maintenance of the wallet an expiry on it and one second
after it. Leaving any one of these conjuncts out of the definition, or turning a
strict bound into the other kind, makes TLC refute `GateClosesExactly`. Not
decided in this way are the two tests that optional evidence is there at all
(chip and delegation): without them the next conjunct would read a field of
`None`, which is an error of evaluation and not an answer.

### Issuance flow

For all constants with `FlowAssumption` and `NoneAssumption`:

| Theorem | Property | Argument |
|---|---|---|
| `TypeCorrect` | `TypeOK` | inductive as it stands, one step per action |
| `NonceOnce` | `NonceBacksOneCredential` | `NonceLedgerInv` |
| `NonceLedgerIsExact` | `NonceLedgerExact` | `NonceLedgerInv` |
| `CodeOnce` | `CodeRedeemedOnce` | `AuthorizationInv` |
| `GrantIsOfPar` | `GrantHonoursPar` | `AuthorizationInv` |
| `CredentialInsideGrant` | `CredentialHonoursGrant` | grants and logged requests never change once made |
| `NfcPidIsEarned` | `NfcPidEarned` | lemma `ChipGate` about the kernel and its adapter |
| `EvidenceOnce` | `EvidenceBacksOneCredential` | evidence names its nonce, and `NonceOnce` |
| `DpopOnce` | `DpopJtiAcceptedOnce` | `DpopInv` |
| `BindingJtiOnce` | `BindingJtiUsedOnce` | `BindingInv` |
| `PidBoundIsOfPid` | `PidBoundRestsOnPid` | `NonceLedgerInv`; wallets lose nothing |
| `TlsnOfferOnce` | `OneOfferPerTlsnSession` | `ReservationInv` |
| `TlsnWindow` | `TlsnEvidenceWindow` | `TlsnWindowInv` |

That a nonce backs one credential is not inductive. `credential` only looks at
`nonces`, which a restart empties, so a state with a commitment for a nonce the
process knows as unused would satisfy the property and lose it in one step.
`NonceLedgerInv` adds that the nonce of a commitment was drawn, is not unused,
and that every nonce the process knows was drawn; with it, a restart cannot make
a spent nonce usable because the random generator never hands it out again.

In the same way `AuthorizationInv` follows one request_uri through its life: it
is in at most one of `pushed`, `authorizing` and a code, each of which agrees
with `par_log`; a code that granted a token is consumed or was lost in a restart.
Hang-ups only remove elements.

`CredentialInsideGrant` does not strengthen the property; it needs that a grant
and the logged request of a drawn request_uri never change (`HistoryStable`) and
that the commitments grow only by what the endpoint admits (`CommitSteps`).
`EvidenceOnce` deliberately does not use `binding_jtis`, which a restart empties:
what keeps an attestation from being used twice is the nonce inside it.

`DpopInv` and `BindingInv` are about ledgers that a restart does empty. They say
that what was accepted or committed in *this* life of the process is in the
ledger, and nothing was in a later one; that is why the two properties speak of
one life. The window of notarised evidence is checked in two requests: `TlsnWindowInv`
carries it from the artifact over the offer to the request in flight, and needs
that artifacts are not notarised twice and that the clock only moves forward.

### The flow implements the ledger

For all constants with the above and `NoncesApart` (a nonce is no other random
identifier):

| Theorem | Property | Argument |
|---|---|---|
| `FlowImplementsLedger` | `LedgerSpec` | `InitRefines`, `StepRefines`, `RefinementInvariant` |

`StepRefines` has one case per group of actions. `par` is a *push*; the token
endpoint a *grant*; a mismatching client, an expired or lost code and a hang-up
*close* a request; authorization moves a request from one store to the next and
stutters. `nonce` is an *offer*, `credential` a *commit*, signing or its failure
a *settle*; a restart is the restart of the ledger. The mapping chooses the holder of
a request among its grants and the entry of a nonce among its commitments:
`RefinementInv` (`NonceLedgerInv`, `AuthorizationInv`, `CredentialHonoursGrant`)
says that there is at most one of each, so that neither changes afterwards.

### Cross-wallet PID capture

For all constants with `CaptureAssumption` and `NoneAssumption`:

| Theorem | Property | Argument |
|---|---|---|
| `CaptureTypeCorrect` | `TypeOK` | with `FlightInv` |
| `CaptureOverlap` | `OnlyOverlapResolvesTwice` | `OverlapInv` |
| `CaptureRests` | `PidRestsOnPersonAndChip` | `ChipGate` and the snapshot of the submission |
| `CaptureMintsOnce` | `AttestationMintsOnce` | `MintInv` |
| `CaptureDelivers` | `DeliveredPidIsOfSession` | `DeliveryInv` |

A submission reads its session, waits for the liveness provider, and resolves a
session that may have changed meanwhile. `FlightInv` says what of the snapshot is
still true then: key and expiry of a session never change. `OverlapInv` says that a
session that still waits has no outcome, so a submission in flight began before
every outcome of its session. That an attestation mints once has two reasons,
which `MintInv` keeps apart: in one life of the process its identifier is spent;
over a restart its nonce is a session that is gone and whose name is not
drawn again.

### App Attest

For all constants with `AttestAssumption`:

| Theorem | Property | Argument |
|---|---|---|
| `AttestTypeCorrect` | `TypeOK` | inductive as it stands |
| `ChallengeSpent` | `ChallengeSpentByRegistration` | `KeyInv` |
| `CountersOnlyIncrease` | `CountersIncrease` | `CounterInv` |
| `NoReplayWithoutFailure` | `ReplayNeedsStoreFailure` | `CounterInv` |
| `RegistrationsKept` | `RegistrationsSurvive` | `KeyInv` |

A registration is in two critical sections, and the second one writes the table
without looking at what is in it; a counter that it reset would be a replay.
`KeyInv` says why it never finds one: a device signs one challenge, the
challenge is spent by the first section (`SeenIsSpent`), so a registration under
way is of a key with no instance, no stored counter and no accepted assertion
(`RegistrationsNew`). `CounterInv` adds that the table has reached every
assertion accepted in this life of the process (`AcceptancesReached`), and that
as long as no write or read failed the file says what the table says
(`StoreFollows`), which is what a restart begins with.

### Hybrid signer

For all constants with `SignerAssumption` and `NoRecordAssumption`, any number
of processes started by hand among them:

| Theorem | Property | Argument |
|---|---|---|
| `SignerTypeCorrect` | `TypeOK` | with `HoldInv` and `TmpInv` |
| `SignerRecordOpens` | `RecordOpens` | `WrapInv` |
| `SignerServesRecorded` | `ServesRecordedIdentity` | `ServeInv` |
| `SignerOneIdentity` | `SignedUnderOneIdentity` | `RequestInv`, `ServeInv` |
| `SignerCertificate` | `CertificateOfSigner` | `RequestInv` |
| `SignerGenerationAdvances` | `GenerationAdvances` | `RecordInv` |

`SignerInv` is what all six rest on. One process starts at a time (`OneStarts`), so
what it found in the Keychain stays there until somebody deletes it. `HeldIsFound`
says that a key nobody replaced is the one a search would find again, and `SearchInv`
that a search deletes only a key nobody holds. `WrapInv` follows the wrapping key
from the Keychain into the record; a new one is made only when there is no
record. `RecordInv` says that what a start is about to write succeeds what is
recorded. With `SameClassical`, a start finds the identity a running process serves
unless its keys were replaced, so `ServeInv`: nothing is written under a process
whose keys are in place.

### Documents and credentials

For any anchors that are dates of the calendar, walks and days of any length
(`DocumentAssumption`, `ContentsAssumption`, `NoneAssumption`):

| Theorem | Property | Argument |
|---|---|---|
| `CivilAdvances` | – | a day is split into era, century, four years, year and day of the year |
| `DatesReadExactlyAlways` | `DatesReadExactly` | `DateInv` |
| `HeldPidTrueAlways` | `HeldPidTrue` | inductive with `DateInv`; `AgeGrows` |
| `EncodersServeAlways` | `EncodersServe` | inductive; lemma `MadeServes` |

`CivilAdvances` says that the closed formula which takes days to a date and the
calendar which is turned by hand agree on what day follows a day, on every day
from 1970 on: the rule of 4, 100 and 400 (`LeapOf`) falls out of the divisions of
the formula. So the date the code computes from the clock is what the calendar
on the wall shows (`DateInv`), which then also carries that the age counted by
birthdays, and the last day of the document, are what a comparison of dates gives
(`AgeStep`, `AgeExact`, `PastStep`, `PastExact`; a birthday on 29 February
included). TLC walks ten days from each of six dates; the theorem has all of them.

### Hybrid envelope

For any limits and any number of changes (`EnvelopeAssumption`,
`EnvelopeProbeAssumption`); byte strings and field values are those of the probe:

| Theorem | Property | Argument |
|---|---|---|
| `AcceptedWasSignedAlways` | `AcceptedWasSigned` | `ComposedInv`, `MessageInv`, lemma `ContextKnown` |
| `IssuedVerifiesAlways` | `IssuedVerifies` | `ComposedInv` |
| `ContainersNotConfusedAlways` | `ContainersNotConfused` | `MessageInv` |

`ComposedInv` keeps what `sign_envelope` checked true of what it signed.
`MessageInv` says that a message is short or long by one field at most, that a
key stays a key, and that in the place of a signature there is only ever one the
signer made of one of its two envelopes, one cut short, or one of a stranger over
anything (`Carried`). A stranger's signature passes only for the key of the
stranger, so where one of the two keys is the signer's, that half was made by the
signer over one of its envelopes: both checks of `verify` are needed, as either key
may be the one to trust. Then a verified message agrees with a signed envelope in the bytes that are
signed, and `ContextKnown` takes these back to the context: an absent field is
written as an empty one (`ContextField`), which loses nothing only because
`validate_common` refuses an empty field, at signing and at verification, and a
transcript hash is never empty.

`MCSpecOfBoth` says that what TLC explores in `credentials` are behaviours of
both probes.

### What the proofs changed

`AcceptedWasSigned` used to name the composed envelope alone. TLC agreed, with three
changes; the proof showed that with more an earlier envelope can take the place of
the later one as a whole. That is no fault of the code (both were signed), and the
property now says so (`SignedEnvelopes`). Two overlapping `CASE`s of the probes, which
TLC resolved in its own way, are disjoint now.

### Only model-checked

* `ServiceReturns`: liveness under fairness is out of the prover's reach.
* The five runs that expect a violation: their counterexamples are the result.

## 5. Not modelled

Svipe, push messages, the environment file, the table of schema identifiers,
metadata and service assembly: stateless adapters and static documents;
`components` in `PROJECT.json` gives the reason for each. Not modelled inside
modelled components: the APNs device token of a session, the size limits of
evidence, the body binding of App Attest assertions, the certificate chain of the
TLSNotary profile, salts, digests and the byte layout of credentials, starts of
the program that overlap. Growth of the maps without bound (168) is not a property
of bounded instances.

## 6. Plan

In this order:

1. Lemmas about `IssuanceLedger` itself: what its life of a nonce and of an
   authorization implies, so that later modules can rest on it alone.
2. Composition of capture, App Attest and the credential endpoint over the one
   `binding_jtis` they share: an attestation is spent once whichever endpoint
   takes it, and a submission that is counted by App Attest may still be lost.
