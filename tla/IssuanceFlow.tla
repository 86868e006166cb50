---------------------------- MODULE IssuanceFlow ----------------------------
(***************************************************************************)
(* The OAuth and OID4VCI issuance flow of rust/issuer-service/src/main.rs: *)
(* credential offers, pushed authorization requests, authorization codes,  *)
(* access tokens, nonces and the credential endpoint, over the volatile    *)
(* state the handlers share behind one mutex.                              *)
(*                                                                         *)
(* A handler that holds the mutex from its first read to its last write is *)
(* one action.  One that releases the mutex in between is one action per   *)
(* critical section, the values it carries kept in par_inflight,           *)
(* authorizing or signing; any other request may run in between, and the   *)
(* client may hang up, which drops the handler at its next await.  The     *)
(* process may stop and start again: everything but the random identifiers *)
(* already handed out, the clock, and what clients and the notary keep is  *)
(* lost.                                                                   *)
(*                                                                         *)
(* issued holds the signed credentials, which wallets keep.  par_log,      *)
(* grants, unsigned and accepted are history variables: they record what   *)
(* the issuer did and no action reads them.                                *)
(***************************************************************************)
EXTENDS IssuerKernel, FiniteSets

CONSTANTS
    Clients, Redirects, Verifiers,   \* what a client authenticates a code with
    Keys,                            \* JWK thumbprints of wallet keys
    Scopes,                          \* scope values clients request
    OfferedProfiles,                 \* profiles of the offers users create
    OfferIds, ReqUris, Codes, Tokens, Nonces,   \* random identifiers
    Jtis,                            \* DPoP proof identifiers, chosen by wallets
    BindingJtis,                     \* identifiers of PID bindings and chip attestations
    PidBindings,                     \* PID presentations wallets can make
    Attestations,                    \* chip attestations the trusted reader can sign
    PidSubjects, Documents,          \* subjects of presented PIDs and of read documents
    TlsnSessions,                    \* sessions notarised by the TLSNotary
    HybridPqEnabled,                 \* ENABLE_EXPERIMENTAL_HYBRID_PQ
    ReaderConfigured,                \* a trusted eMRTD reader key is configured
    FiveMinutes,                     \* the 300 s windows, in clock ticks
    PidLifetime,                     \* validity of a signed PID (3600 s)
    Skew,                            \* tolerated lead of the notary's clock (5 s)
    MaxTime, MaxBoots                \* bounds on the clock and on restarts

\* valid_scope: the profiles the authorization endpoint knows.
ScopeProfiles ==
    (Profiles \ {PID_FROM_EMRTD_MDOC, HYBRID_PQ_SD_JWT})
      \cup (IF HybridPqEnabled THEN {HYBRID_PQ_SD_JWT} ELSE {})

\* Mutant: any known profile is accepted, the capture-only one among them.
ValidScopeAnyProfile(scope) == scope # {} /\ scope \subseteq Profiles

ValidScope(scope) == scope # {} /\ scope \subseteq ScopeProfiles

\* VerifiedPidBinding, with the nonce and the key it is welded to and the key
\* of the PID it presents.
PidBinding == [jti : BindingJtis, nonce : Nonces, holder : Keys,
               pid_holder : Keys, subject : PidSubjects]

\* A trusted reader's eMRTD attestation.
Attestation == [jti : BindingJtis, nonce : Nonces, holder : Keys, subject : Documents,
                sod_passive_auth : BOOLEAN, chip_authentic : BOOLEAN,
                liveness_matched : BOOLEAN]

ASSUME FlowAssumption ==
    /\ PidBindings \subseteq PidBinding /\ Attestations \subseteq Attestation
    /\ FiveMinutes \in Nat /\ PidLifetime \in Nat /\ Skew \in Nat /\ MaxTime \in Nat /\ MaxBoots \in Nat
    /\ HybridPqEnabled \in BOOLEAN /\ ReaderConfigured \in BOOLEAN
    /\ None \notin TlsnSessions /\ OfferedProfiles \subseteq ScopeProfiles

VARIABLES
    clock, boot,
    artifacts,        \* the notary's signed artifacts: session -> issued_at
    offers, tlsn_sessions, pushed, codes, tokens, nonces,
    dpop_jtis, binding_jtis,
    par_inflight, authorizing, signing,
    drawn,            \* random identifiers ever drawn
    par_log, grants, issued, unsigned, accepted

stores == <<offers, tlsn_sessions, pushed, codes, tokens, nonces,
            dpop_jtis, binding_jtis>>
inflight == <<par_inflight, authorizing, signing>>
world == <<clock, boot, artifacts>>
history == <<par_log, grants, issued, unsigned, accepted>>
vars == <<world, stores, inflight, drawn, history>>

-----------------------------------------------------------------------------
(* Types.                                                                  *)

Time == 0..MaxTime
TlsnEvidence == TlsnSessions \cup {None}

Offer == [profile : ScopeProfiles, expires_at : Nat, tlsn : TlsnEvidence]

\* PushedAuthorization; checked_at is when its offer was found to be live.
Pushed == [client : Clients, redirect : Redirects, challenge : Verifiers,
           scope : SUBSET ScopeProfiles, tlsn : TlsnEvidence, checked_at : Time]

\* AuthorizationCode; uri is the request_uri it answers (history).
Code == [client : Clients, redirect : Redirects, challenge : Verifiers,
         scope : SUBSET ScopeProfiles, tlsn : TlsnEvidence,
         consumed : BOOLEAN, uri : ReqUris]

AccessToken == [scope : SUBSET ScopeProfiles, dpop_jkt : Keys, tlsn : TlsnEvidence]

\* A credential request that passed every check.
Commitment == [token : Tokens, profile : ScopeProfiles, holder : Keys, nonce : Nonces,
               tlsn : TlsnEvidence, pid : PidBindings \cup {None},
               chip : Attestations \cup {None}, at : Time, boot : 0..MaxBoots]

\* What a token was granted for, as the token endpoint saw it (history).
Grant == [code : Codes, uri : ReqUris, client : Clients, redirect : Redirects,
          verifier : Verifiers, jkt : Keys, at : Time]

\* Rust's None is no record.
ASSUME NoneAssumption ==
    /\ None \notin Pushed /\ None \notin Code
    /\ None \notin AccessToken /\ None \notin Grant

TypeOK ==
    /\ clock \in Time /\ boot \in 0..MaxBoots
    /\ artifacts \in [TlsnSessions -> Time \cup {None}]
    /\ offers \in [OfferIds -> Offer \cup {None}]
    /\ tlsn_sessions \subseteq TlsnSessions
    /\ pushed \in [ReqUris -> Pushed \cup {None}]
    /\ codes \in [Codes -> Code \cup {None}]
    /\ tokens \in [Tokens -> AccessToken \cup {None}]
    /\ nonces \in [Nonces -> {"unknown", "unused", "used"}]
    /\ dpop_jtis \subseteq Jtis /\ binding_jtis \subseteq BindingJtis
    /\ par_inflight \subseteq Pushed
    /\ authorizing \subseteq [uri : ReqUris, par : Pushed]
    /\ signing \subseteq Commitment
    /\ drawn \subseteq OfferIds \cup ReqUris \cup Codes \cup Tokens \cup Nonces
    /\ par_log \in [ReqUris -> Pushed \cup {None}]
    /\ grants \in [Tokens -> Grant \cup {None}]
    /\ issued \subseteq Commitment /\ unsigned \subseteq Commitment
    /\ accepted \subseteq [boot : 0..MaxBoots, jti : Jtis, for : Tokens \cup Nonces]

Empty(S) == [x \in S |-> None]

Init ==
    /\ clock = 0 /\ boot = 0
    /\ artifacts = Empty(TlsnSessions)
    /\ offers = Empty(OfferIds) /\ tlsn_sessions = {}
    /\ pushed = Empty(ReqUris) /\ codes = Empty(Codes) /\ tokens = Empty(Tokens)
    /\ nonces = [n \in Nonces |-> "unknown"]
    /\ dpop_jtis = {} /\ binding_jtis = {}
    /\ par_inflight = {} /\ authorizing = {} /\ signing = {}
    /\ drawn = {}
    /\ par_log = Empty(ReqUris) /\ grants = Empty(Tokens)
    /\ issued = {} /\ unsigned = {} /\ accepted = {}

\* random_token, random_credential_nonce, Uuid::new_v4: never drawn before.
Draw(id) == id \notin drawn /\ drawn' = drawn \cup {id}

-----------------------------------------------------------------------------
(* Offers.                                                                 *)

\* External: the notary signs an artifact for a session, by its own clock.
Notarise(s, t) ==
    /\ artifacts[s] = None
    /\ artifacts' = [artifacts EXCEPT ![s] = t]
    /\ UNCHANGED <<clock, boot, stores, inflight, drawn, history>>

CreateCredentialOffer(o, p) ==
    /\ p # TLSN_EVIDENCE_SD_JWT /\ ValidScope({p})
    /\ Draw(o)
    /\ offers' = [offers EXCEPT ![o] =
          [profile |-> p, expires_at |-> clock + FiveMinutes, tlsn |-> None]]
    /\ UNCHANGED <<world, tlsn_sessions, pushed, codes, tokens, nonces,
                   dpop_jtis, binding_jtis, inflight, history>>

\* Mutant: a stale artifact is accepted.
FutureDatedArtifactRefused(s) == artifacts[s] # None /\ artifacts[s] <= clock + Skew

\* verify_tlsn_artifact on an artifact of the trusted notary: what is left to
\* refuse is a stale or a future-dated one.
ArtifactAccepted(s) ==
    /\ artifacts[s] # None
    /\ artifacts[s] <= clock + Skew
    /\ clock <= artifacts[s] + FiveMinutes

\* Mutant: the session is recorded but a second reservation is not refused.
ReserveAgain(s) == tlsn_sessions' = tlsn_sessions \cup {s}

ReserveTlsnSession(s) ==
    /\ s \notin tlsn_sessions
    /\ tlsn_sessions' = tlsn_sessions \cup {s}

BuildTlsnOffer(o, s) ==
    /\ ArtifactAccepted(s)
    /\ ReserveTlsnSession(s)
    /\ Draw(o)
    /\ offers' = [offers EXCEPT ![o] =
          [profile |-> TLSN_EVIDENCE_SD_JWT, expires_at |-> clock + FiveMinutes, tlsn |-> s]]
    /\ UNCHANGED <<world, pushed, codes, tokens, nonces, dpop_jtis, binding_jtis,
                   inflight, history>>

-----------------------------------------------------------------------------
(* Pushed authorization requests.                                          *)

Request(client, redirect, verifier, scope, tlsn, t) ==
    [client |-> client, redirect |-> redirect, challenge |-> verifier,
     scope |-> scope, tlsn |-> tlsn, checked_at |-> t]

\* Mutant: the expiry of the offer is not looked at.
OfferCovers(o, scope) == offers[o] # None /\ offers[o].profile \in scope

\* The offer named by issuer_state is known, live and inside the scope.
OfferAdmits(o, scope) ==
    /\ offers[o] # None
    /\ ~(offers[o].expires_at < clock)
    /\ offers[o].profile \in scope

\* par with an issuer_state, first critical section: the offer is read.
ParReadsOffer(client, redirect, verifier, scope, o) ==
    /\ ValidScope(scope)
    /\ OfferAdmits(o, scope)
    /\ par_inflight' = par_inflight \cup
          {Request(client, redirect, verifier, scope, offers[o].tlsn, clock)}
    /\ UNCHANGED <<world, stores, authorizing, signing, drawn, history>>

Push(u, r) ==
    /\ Draw(u)
    /\ pushed' = [pushed EXCEPT ![u] = r]
    /\ par_log' = [par_log EXCEPT ![u] = r]
    /\ UNCHANGED <<world, offers, tlsn_sessions, codes, tokens, nonces, dpop_jtis,
                   binding_jtis, authorizing, signing, grants, issued, unsigned, accepted>>

\* par with an issuer_state, second critical section.
ParStores(u, r) ==
    /\ r \in par_inflight
    /\ par_inflight' = par_inflight \ {r}
    /\ Push(u, r)

\* par without an issuer_state: no offer, no evidence, no time read.
ParWithoutOffer(u, client, redirect, verifier, scope) ==
    /\ ValidScope(scope)
    /\ Push(u, Request(client, redirect, verifier, scope, None, 0))
    /\ UNCHANGED par_inflight

-----------------------------------------------------------------------------
(* The authorization endpoint.                                             *)

\* Mutant: the request_uri is looked up and left in place.
PeekPushed(u) == UNCHANGED pushed

\* The request_uri is consumed by the first request that names it.
RemovePushed(u) == pushed' = [pushed EXCEPT ![u] = None]

\* authorize, first critical section, for the client that pushed the request.
AuthorizeTakes(u, client) ==
    /\ pushed[u] # None
    /\ RemovePushed(u)
    /\ pushed[u].client = client
    /\ authorizing' = authorizing \cup {[uri |-> u, par |-> pushed[u]]}
    /\ UNCHANGED <<world, offers, tlsn_sessions, codes, tokens, nonces, dpop_jtis,
                   binding_jtis, par_inflight, signing, drawn, history>>

\* authorize for another client: refused, the request_uri is consumed anyway.
AuthorizeMismatch(u, client) ==
    /\ pushed[u] # None
    /\ RemovePushed(u)
    /\ pushed[u].client # client
    /\ UNCHANGED <<world, offers, tlsn_sessions, codes, tokens, nonces, dpop_jtis,
                   binding_jtis, inflight, drawn, history>>

\* authorize, second critical section: the code is stored.
AuthorizeStores(c, a) ==
    /\ a \in authorizing
    /\ Draw(c)
    /\ authorizing' = authorizing \ {a}
    /\ codes' = [codes EXCEPT ![c] =
          [client |-> a.par.client, redirect |-> a.par.redirect,
           challenge |-> a.par.challenge, scope |-> a.par.scope, tlsn |-> a.par.tlsn,
           consumed |-> FALSE, uri |-> a.uri]]
    /\ UNCHANGED <<world, offers, tlsn_sessions, pushed, tokens, nonces, dpop_jtis,
                   binding_jtis, par_inflight, signing, history>>

\* The client hangs up while its handler waits for the mutex: the handler is
\* dropped, with what it had taken out of the stores.
ClientHangsUp ==
    /\ \/ \E r \in par_inflight :
             par_inflight' = par_inflight \ {r} /\ UNCHANGED authorizing
       \/ \E a \in authorizing :
             authorizing' = authorizing \ {a} /\ UNCHANGED par_inflight
    /\ UNCHANGED <<world, stores, signing, drawn, history>>

-----------------------------------------------------------------------------
(* The token endpoint.                                                     *)

\* Mutant: a DPoP identifier seen before is accepted.
ReuseDpopJti(jti) == dpop_jtis' = dpop_jtis \cup {jti}

\* The first thing done under the mutex, whatever comes of the request.
BurnDpopJti(jti) ==
    /\ jti \notin dpop_jtis
    /\ dpop_jtis' = dpop_jtis \cup {jti}

\* Mutants: a consumed code is accepted; the PKCE verifier is not compared.
CodeAdmitsConsumed(c, client, redirect, verifier) ==
    /\ codes[c] # None
    /\ codes[c].client = client /\ codes[c].redirect = redirect
    /\ codes[c].challenge = verifier
CodeAdmitsAnyVerifier(c, client, redirect, verifier) ==
    /\ codes[c] # None
    /\ ~codes[c].consumed
    /\ codes[c].client = client /\ codes[c].redirect = redirect

CodeAdmits(c, client, redirect, verifier) ==
    /\ codes[c] # None
    /\ ~codes[c].consumed
    /\ codes[c].client = client /\ codes[c].redirect = redirect
    /\ codes[c].challenge = verifier

TokenGranted(t, c, jti, key, client, redirect, verifier) ==
    /\ BurnDpopJti(jti)
    /\ CodeAdmits(c, client, redirect, verifier)
    /\ Draw(t)
    /\ codes' = [codes EXCEPT ![c].consumed = TRUE]
    /\ tokens' = [tokens EXCEPT ![t] =
          [scope |-> codes[c].scope, dpop_jkt |-> key, tlsn |-> codes[c].tlsn]]
    /\ grants' = [grants EXCEPT ![t] =
          [code |-> c, uri |-> codes[c].uri, client |-> client, redirect |-> redirect,
           verifier |-> verifier, jkt |-> key, at |-> clock]]
    /\ accepted' = accepted \cup {[boot |-> boot, jti |-> jti, for |-> t]}
    /\ UNCHANGED <<world, offers, tlsn_sessions, pushed, nonces, binding_jtis,
                   inflight, par_log, issued, unsigned>>

\* token or credential refuses after the DPoP check and before any other
\* evidence is recorded, for an unknown code or token to begin with.
RequestRefused(jti) ==
    /\ BurnDpopJti(jti)
    /\ UNCHANGED <<world, offers, tlsn_sessions, pushed, codes, tokens, nonces,
                   binding_jtis, inflight, drawn, history>>

-----------------------------------------------------------------------------
(* Nonces and the credential endpoint.                                     *)

NonceIssued(n) ==
    /\ Draw(n)
    /\ nonces' = [nonces EXCEPT ![n] = "unused"]
    /\ UNCHANGED <<world, offers, tlsn_sessions, pushed, codes, tokens, dpop_jtis,
                   binding_jtis, inflight, history>>

\* Mutants: the credential proof is by a key of its own; the scope is not
\* checked; TLSNotary evidence is not asked for.
AccessAdmitsAnyHolder(t, p, key, holder, n) ==
    /\ tokens[t] # None
    /\ tokens[t].dpop_jkt = key
    /\ p \in tokens[t].scope
    /\ nonces[n] = "unused"
    /\ p = TLSN_EVIDENCE_SD_JWT => tokens[t].tlsn # None
AccessAdmitsAnyScope(t, p, key, holder, n) ==
    /\ tokens[t] # None
    /\ tokens[t].dpop_jkt = key /\ tokens[t].dpop_jkt = holder
    /\ nonces[n] = "unused"
    /\ p = TLSN_EVIDENCE_SD_JWT => tokens[t].tlsn # None
AccessAdmitsWithoutEvidence(t, p, key, holder, n) ==
    /\ tokens[t] # None
    /\ tokens[t].dpop_jkt = key /\ tokens[t].dpop_jkt = holder
    /\ p \in tokens[t].scope
    /\ nonces[n] = "unused"

\* The checks of credential up to the profile's own evidence.
AccessAdmits(t, p, key, holder, n) ==
    /\ tokens[t] # None
    /\ tokens[t].dpop_jkt = key
    /\ p \in tokens[t].scope
    /\ tokens[t].dpop_jkt = holder
    /\ nonces[n] = "unused"
    /\ p = TLSN_EVIDENCE_SD_JWT => tokens[t].tlsn # None

\* A PID of this issuer for the key, inside its validity interval.
HoldsValidPid(key) ==
    \E c \in issued : /\ c.profile = PID_SD_JWT /\ c.holder = key
                      /\ c.at <= clock /\ clock < c.at + PidLifetime

\* Mutant: the binding proof need not name the new holder key.
PidBindingAdmitsAnyHolder(p, pid, holder, n) ==
    IF p \notin PidBoundProfiles THEN pid = None
    ELSE /\ pid # None
         /\ HoldsValidPid(pid.pid_holder)
         /\ pid.nonce = n
         /\ pid.jti \notin binding_jtis

\* Mutant: a presentation whose jti was seen before is accepted.
PidBindingAdmitsSeenJti(p, pid, holder, n) ==
    IF p \notin PidBoundProfiles THEN pid = None
    ELSE /\ pid # None
         /\ HoldsValidPid(pid.pid_holder)
         /\ pid.nonce = n /\ pid.holder = holder

\* verify_pid_binding and the jti check: the presented PID was signed by this
\* issuer, its holder signed the proof, and the proof is welded to the nonce
\* and to the key of the new credential.  Other profiles accept no binding.
PidBindingAdmits(p, pid, holder, n) ==
    IF p \notin PidBoundProfiles THEN pid = None
    ELSE /\ pid # None
         /\ HoldsValidPid(pid.pid_holder)
         /\ pid.nonce = n /\ pid.holder = holder
         /\ pid.jti \notin binding_jtis

\* Mutants: the attestation of another request is accepted; a jti seen
\* before is accepted.
ChipAdmitsAnyNonce(p, chip, holder, n) ==
    IF p # PID_FROM_EMRTD_SD_JWT THEN chip = None
    ELSE /\ ReaderConfigured /\ chip # None
         /\ chip.holder = holder
         /\ chip.jti \notin binding_jtis
ChipAdmitsSeenJti(p, chip, holder, n) ==
    IF p # PID_FROM_EMRTD_SD_JWT THEN chip = None
    ELSE /\ ReaderConfigured /\ chip # None
         /\ chip.nonce = n /\ chip.holder = holder

\* verify_emrtd_evidence and the jti check.
ChipAdmits(p, chip, holder, n) ==
    IF p # PID_FROM_EMRTD_SD_JWT THEN chip = None
    ELSE /\ ReaderConfigured /\ chip # None
         /\ chip.nonce = n /\ chip.holder = holder
         /\ chip.jti \notin binding_jtis

\* Mutant: the kernel is not asked.
KernelUnasked(p, holder, n, pid, chip) == TRUE

KernelAuthorizes(p, holder, n, pid, chip) ==
    AuthorizeKernel(p, holder, n, IF pid = None THEN None ELSE pid.subject,
                    chip, clock).ok

JtisOf(evidence) == IF evidence = None THEN {} ELSE {evidence.jti}

\* Mutant: the nonce is left for the signing step to mark.
NonceLeftUnused(n) == UNCHANGED nonces

ConsumeNonce(n) == nonces' = [nonces EXCEPT ![n] = "used"]

\* Mutant: the credential endpoint records the DPoP identifier without looking
\* for it.
CommittedOnAnyDpopJti(jti, t, p, key, holder, n, pid, chip) ==
    /\ dpop_jtis' = dpop_jtis \cup {jti}
    /\ AccessAdmits(t, p, key, holder, n)
    /\ PidBindingAdmits(p, pid, holder, n)
    /\ ChipAdmits(p, chip, holder, n)
    /\ KernelAuthorizes(p, holder, n, pid, chip)
    /\ binding_jtis' = binding_jtis \cup JtisOf(pid) \cup JtisOf(chip)
    /\ ConsumeNonce(n)
    /\ signing' = signing \cup
          {[token |-> t, profile |-> p, holder |-> holder, nonce |-> n,
            tlsn |-> tokens[t].tlsn, pid |-> pid, chip |-> chip,
            at |-> clock, boot |-> boot]}
    /\ accepted' = accepted \cup {[boot |-> boot, jti |-> jti, for |-> n]}
    /\ UNCHANGED <<world, offers, tlsn_sessions, pushed, codes, tokens, par_inflight,
                   authorizing, drawn, par_log, grants, issued, unsigned>>

\* credential passes every check: its evidence and its nonce are consumed and
\* the mutex is released before the credential is signed.
CredentialCommitted(jti, t, p, key, holder, n, pid, chip) ==
    /\ BurnDpopJti(jti)
    /\ AccessAdmits(t, p, key, holder, n)
    /\ PidBindingAdmits(p, pid, holder, n)
    /\ ChipAdmits(p, chip, holder, n)
    /\ KernelAuthorizes(p, holder, n, pid, chip)
    /\ binding_jtis' = binding_jtis \cup JtisOf(pid) \cup JtisOf(chip)
    /\ ConsumeNonce(n)
    /\ signing' = signing \cup
          {[token |-> t, profile |-> p, holder |-> holder, nonce |-> n,
            tlsn |-> tokens[t].tlsn, pid |-> pid, chip |-> chip,
            at |-> clock, boot |-> boot]}
    /\ accepted' = accepted \cup {[boot |-> boot, jti |-> jti, for |-> n]}
    /\ UNCHANGED <<world, offers, tlsn_sessions, pushed, codes, tokens, par_inflight,
                   authorizing, drawn, par_log, grants, issued, unsigned>>

\* credential refuses after evidence was recorded: chip evidence a PID-bound
\* profile does not take, or the kernel's denial.  The evidence is spent, the
\* nonce is not.
EvidenceSpentInVain(jti, t, p, key, holder, n, pid, chip) ==
    /\ BurnDpopJti(jti)
    /\ AccessAdmits(t, p, key, holder, n)
    /\ PidBindingAdmits(p, pid, holder, n)
    /\ \/ /\ ~ChipAdmits(p, chip, holder, n)
          /\ pid # None
          /\ binding_jtis' = binding_jtis \cup JtisOf(pid)
       \/ /\ ChipAdmits(p, chip, holder, n)
          /\ ~KernelAuthorizes(p, holder, n, pid, chip)
          /\ binding_jtis' = binding_jtis \cup JtisOf(pid) \cup JtisOf(chip)
    /\ UNCHANGED <<world, offers, tlsn_sessions, pushed, codes, tokens, nonces,
                   inflight, drawn, history>>

\* The encoder of the profile signs.  DEV_SVIPE_PID_SD_JWT has none.
Sign(x) ==
    /\ x \in signing
    /\ x.profile # DEV_SVIPE_PID_SD_JWT
    /\ signing' = signing \ {x}
    /\ issued' = issued \cup {x}
    /\ UNCHANGED <<world, stores, par_inflight, authorizing, drawn, par_log, grants,
                   unsigned, accepted>>

\* Mutant: a request whose signer fails gets its nonce back.
SignFailsGivesBack(x) ==
    /\ x \in signing
    /\ signing' = signing \ {x}
    /\ unsigned' = unsigned \cup {x}
    /\ nonces' = [nonces EXCEPT ![x.nonce] = "unused"]
    /\ UNCHANGED <<world, offers, tlsn_sessions, pushed, codes, tokens, dpop_jtis,
                   binding_jtis, par_inflight, authorizing, drawn, par_log, grants,
                   issued, accepted>>

\* The encoder or the signer fails; nothing is given back.
SignFails(x) ==
    /\ x \in signing
    /\ signing' = signing \ {x}
    /\ unsigned' = unsigned \cup {x}
    /\ UNCHANGED <<world, stores, par_inflight, authorizing, drawn, par_log, grants,
                   issued, accepted>>

-----------------------------------------------------------------------------
(* The clock and the process.                                              *)

Tick ==
    /\ clock < MaxTime
    /\ clock' = clock + 1
    /\ UNCHANGED <<boot, artifacts, stores, inflight, drawn, history>>

\* The process stops, in the middle of any handler, and starts again.
Restart ==
    /\ boot < MaxBoots
    /\ boot' = boot + 1
    /\ offers' = Empty(OfferIds) /\ tlsn_sessions' = {}
    /\ pushed' = Empty(ReqUris) /\ codes' = Empty(Codes) /\ tokens' = Empty(Tokens)
    /\ nonces' = [n \in Nonces |-> "unknown"]
    /\ dpop_jtis' = {} /\ binding_jtis' = {}
    /\ par_inflight' = {} /\ authorizing' = {} /\ signing' = {}
    /\ unsigned' = unsigned \cup signing
    /\ UNCHANGED <<clock, artifacts, drawn, par_log, grants, issued, accepted>>

\* A random identifier is one of those left; which one makes no difference.
Undrawn(S) == IF S \subseteq drawn THEN {} ELSE {CHOOSE id \in S : id \notin drawn}

OfferNext ==
    \/ \E s \in TlsnSessions, t \in Time : Notarise(s, t)
    \/ \E o \in Undrawn(OfferIds), p \in OfferedProfiles : CreateCredentialOffer(o, p)
    \/ \E o \in Undrawn(OfferIds), s \in TlsnSessions : BuildTlsnOffer(o, s)

AuthorizationNext ==
    \/ \E client \in Clients, redirect \in Redirects, verifier \in Verifiers,
          scope \in Scopes :
          \/ \E o \in OfferIds : ParReadsOffer(client, redirect, verifier, scope, o)
          \/ \E u \in Undrawn(ReqUris) :
                ParWithoutOffer(u, client, redirect, verifier, scope)
    \/ \E u \in Undrawn(ReqUris), r \in par_inflight : ParStores(u, r)
    \/ \E u \in ReqUris, client \in Clients :
          AuthorizeTakes(u, client) \/ AuthorizeMismatch(u, client)
    \/ \E c \in Undrawn(Codes), a \in authorizing : AuthorizeStores(c, a)
    \/ ClientHangsUp
    \/ \E t \in Undrawn(Tokens), c \in Codes, jti \in Jtis, key \in Keys,
          client \in Clients, redirect \in Redirects, verifier \in Verifiers :
          TokenGranted(t, c, jti, key, client, redirect, verifier)
    \/ \E jti \in Jtis : RequestRefused(jti)

CredentialNext ==
    \/ \E n \in Undrawn(Nonces) : NonceIssued(n)
    \/ \E t \in Tokens, p \in ScopeProfiles, key, holder \in Keys, n \in Nonces :
          /\ AccessAdmits(t, p, key, holder, n)
          /\ \E pid \in PidBindings \cup {None} :
             /\ PidBindingAdmits(p, pid, holder, n)
             /\ \E chip \in Attestations \cup {None}, jti \in Jtis :
                   \/ CredentialCommitted(jti, t, p, key, holder, n, pid, chip)
                   \/ EvidenceSpentInVain(jti, t, p, key, holder, n, pid, chip)
    \/ \E x \in signing : Sign(x) \/ SignFails(x)

Next == OfferNext \/ AuthorizationNext \/ CredentialNext \/ Tick \/ Restart

Spec == Init /\ [][Next]_vars
-----------------------------------------------------------------------------
(* Properties.                                                             *)

\* Every credential request that ever passed the credential endpoint.
Committed == signing \cup issued \cup unsigned

\* An authorization code mints at most one token, and so does the request_uri
\* it answers, whatever the interleaving of the two sections of authorize with
\* hang-ups, replays and restarts (authorize 2061-2092, token 2143-2165).
CodeRedeemedOnce ==
    \A t1, t2 \in Tokens :
        /\ grants[t1] # None /\ grants[t2] # None
        /\ grants[t1].code = grants[t2].code \/ grants[t1].uri = grants[t2].uri
        => t1 = t2

\* A token is granted only to the client that pushed the request, with its
\* redirect_uri and its PKCE verifier, and it carries the scope and the evidence
\* of that request, through the three records par, authorize and token copy.
GrantHonoursPar ==
    \A t \in Tokens : grants[t] # None =>
        LET g == grants[t]
            r == par_log[g.uri]
        IN  /\ r # None
            /\ g.client = r.client /\ g.redirect = r.redirect /\ g.verifier = r.challenge
            /\ tokens[t] # None =>
                  /\ tokens[t].scope = r.scope /\ tokens[t].tlsn = r.tlsn
                  /\ tokens[t].dpop_jkt = g.jkt

\* What was signed, or will be, is inside the authorization it rests on: a
\* profile the client asked for at PAR, the key the token was bound to, the
\* evidence of the offer, and some evidence for a TLSNotary credential
\* (FI-SAF-002 and FI-SAF-004 of FORMAL_SPEC.md over credential 2210-2284).
CredentialHonoursGrant ==
    \A x \in Committed :
        LET g == grants[x.token]
            r == par_log[g.uri]
        IN  /\ g # None
            /\ x.holder = g.jkt
            /\ x.profile \in r.scope
            /\ x.tlsn = r.tlsn
            /\ x.profile = TLSN_EVIDENCE_SD_JWT => x.tlsn # None

\* A nonce backs at most one credential, in flight, signed or lost, and no
\* failure or restart ever frees it (credential 2262-2275 and 2383-2387).
NonceBacksOneCredential ==
    \A x, y \in Committed : x.nonce = y.nonce => x = y

\* A nonce reads as used exactly when a request committed with it since the
\* process started, and that request has one fate: none is both signed and lost.
NonceLedgerExact ==
    /\ \A n \in Nonces :
          nonces[n] = "used" <=> \E x \in Committed : x.nonce = n /\ x.boot = boot
    /\ signing \cap issued = {} /\ signing \cap unsigned = {} /\ issued \cap unsigned = {}

\* An NFC-sourced PID rests on a chip attestation with all three verdicts,
\* welded to the nonce and the key of the request; nothing else carries one.
NfcPidEarned ==
    \A x \in Committed :
        IF x.profile = PID_FROM_EMRTD_SD_JWT
        THEN /\ x.chip # None
             /\ x.chip.sod_passive_auth /\ x.chip.chip_authentic /\ x.chip.liveness_matched
             /\ x.chip.nonce = x.nonce /\ x.chip.holder = x.holder
        ELSE x.chip = None

\* A PID-bound attestation or a mandate rests on a PID this issuer signed
\* before, still valid, presented by its holder for this very key and nonce.
PidBoundRestsOnPid ==
    \A x \in Committed : x.profile \in PidBoundProfiles =>
        /\ x.pid # None
        /\ x.pid.nonce = x.nonce /\ x.pid.holder = x.holder
        /\ \E c \in issued : /\ c.profile = PID_SD_JWT
                             /\ c.holder = x.pid.pid_holder
                             /\ c.at <= x.at /\ x.at < c.at + PidLifetime
                             /\ c.nonce # x.nonce

\* No attestation and no PID presentation backs two credentials, not even
\* across a restart that forgot which identifiers were used.
EvidenceBacksOneCredential ==
    \A x, y \in Committed : x # y =>
        /\ x.chip # None => x.chip # y.chip
        /\ x.pid # None => x.pid # y.pid

\* While the process runs, an identifier of binding evidence is used once,
\* whichever of the two kinds of evidence carries it (2313, 2357).
BindingJtiUsedOnce ==
    \A x, y \in Committed : x # y /\ x.boot = y.boot =>
        (JtisOf(x.pid) \cup JtisOf(x.chip)) \cap (JtisOf(y.pid) \cup JtisOf(y.chip)) = {}

\* While the process runs, a DPoP proof identifier is accepted once over the
\* token and the credential endpoint together (FI-SAF-003; 2129, 2203).
DpopJtiAcceptedOnce ==
    \A a, b \in accepted : a.boot = b.boot /\ a.jti = b.jti => a = b

\* A TLSNotary session backs at most one outstanding offer (3315-3328).
OneOfferPerTlsnSession ==
    \A o1, o2 \in OfferIds :
        /\ offers[o1] # None /\ offers[o2] # None
        /\ offers[o1].tlsn # None /\ offers[o1].tlsn = offers[o2].tlsn
        => o1 = o2

\* Evidence enters an authorization only inside the two five-minute windows
\* that follow its notarisation, that of the artifact and that of the offer,
\* and never before it was notarised but for the tolerated clock skew.
TlsnEvidenceWindow ==
    \A u \in ReqUris : par_log[u] # None =>
        LET r == par_log[u]
        IN  r.tlsn # None =>
              /\ artifacts[r.tlsn] # None
              /\ r.checked_at <= artifacts[r.tlsn] + 2 * FiveMinutes
              /\ artifacts[r.tlsn] <= r.checked_at + Skew

\* The token response announces "expires_in": 300 (main.rs 2169): no request
\* should be admitted on a token older than that.
TokenHonoursExpiresIn ==
    \A x \in Committed : x.at <= grants[x.token].at + FiveMinutes

\* "Consumption and issuance commit SHALL be atomic" (FORMAL_SPEC.md 455): a
\* nonce that is consumed, and no longer being signed for, has its credential.
ConsumedNonceWasIssued ==
    \A n \in Nonces : nonces[n] = "used" =>
        \E x \in signing \cup issued : x.nonce = n
=============================================================================
