------------------------- MODULE IssuanceFlowProofs -------------------------
(***************************************************************************)
(* Theorems about IssuanceFlow, for every value of its constants.          *)
(***************************************************************************)
EXTENDS IssuanceFlow, KernelProofs

\* Which identifier Undrawn chooses is irrelevant: it is one of the set.
LEMMA UndrawnIn == ASSUME NEW S, NEW id \in Undrawn(S) PROVE id \in S
  BY DEF Undrawn

\* A valid scope is a set of profiles of the authorization endpoint.
LEMMA ScopeType == ASSUME NEW scope, ValidScope(scope)
                   PROVE scope \in SUBSET ScopeProfiles
  BY DEF ValidScope

\* The TLSNotary profile is one the authorization endpoint knows.
LEMMA TlsnProfileOffered == TLSN_EVIDENCE_SD_JWT \in ScopeProfiles
  BY DEF ScopeProfiles, Profiles, DevelopmentProfiles, TLSN_EVIDENCE_SD_JWT,
         PID_FROM_EMRTD_MDOC, HYBRID_PQ_SD_JWT

-----------------------------------------------------------------------------
(* Type correctness.                                                       *)

\* The empty stores of a fresh process are well typed (VolatileState, main.rs
\* 168-184).
THEOREM InitType == Init => TypeOK
  BY FlowAssumption DEF Init, TypeOK, Empty, Time

\* Every handler keeps every store well typed (main.rs 1102-2518).
THEOREM StepType == TypeOK /\ [Next]_vars => TypeOK'
<1> SUFFICES ASSUME TypeOK, [Next]_vars PROVE TypeOK'
  OBVIOUS
<1> USE FlowAssumption DEF TypeOK, world, stores, inflight, history
<1>1. ASSUME NEW s \in TlsnSessions, NEW t \in Time, Notarise(s, t)
      PROVE TypeOK'
  BY <1>1 DEF Notarise
<1>2. ASSUME NEW o \in OfferIds, NEW p \in ScopeProfiles, CreateCredentialOffer(o, p)
      PROVE TypeOK'
  BY <1>2 DEF CreateCredentialOffer, Draw, Offer, Time, TlsnEvidence
<1>3. ASSUME NEW o \in OfferIds, NEW s \in TlsnSessions, BuildTlsnOffer(o, s)
      PROVE TypeOK'
  BY <1>3, TlsnProfileOffered DEF BuildTlsnOffer, Draw, Offer, Time, TlsnEvidence, ReserveTlsnSession
<1>4. ASSUME NEW client \in Clients, NEW redirect \in Redirects,
             NEW verifier \in Verifiers, NEW scope, NEW o \in OfferIds,
             ParReadsOffer(client, redirect, verifier, scope, o)
      PROVE TypeOK'
  <2>1. Request(client, redirect, verifier, scope, offers[o].tlsn, clock) \in Pushed
    BY <1>4, ScopeType DEF ParReadsOffer, OfferAdmits, Request, Offer, Pushed
  <2> QED BY <1>4, <2>1 DEF ParReadsOffer
<1>5. ASSUME NEW u \in ReqUris, NEW r, ParStores(u, r)
      PROVE TypeOK'
  BY <1>5 DEF ParStores, Push, Draw
<1>6. ASSUME NEW u \in ReqUris, NEW client \in Clients, NEW redirect \in Redirects,
             NEW verifier \in Verifiers, NEW scope,
             ParWithoutOffer(u, client, redirect, verifier, scope)
      PROVE TypeOK'
  <2>1. Request(client, redirect, verifier, scope, None, 0) \in Pushed
    BY <1>6, ScopeType DEF ParWithoutOffer, Request, Pushed, Time, TlsnEvidence
  <2> QED BY <1>6, <2>1 DEF ParWithoutOffer, Push, Draw
<1>7. ASSUME NEW u \in ReqUris, NEW client, AuthorizeTakes(u, client)
      PROVE TypeOK'
  BY <1>7 DEF AuthorizeTakes, RemovePushed
<1>8. ASSUME NEW u \in ReqUris, NEW client, AuthorizeMismatch(u, client)
      PROVE TypeOK'
  BY <1>8 DEF AuthorizeMismatch, RemovePushed
<1>9. ASSUME NEW c \in Codes, NEW a, AuthorizeStores(c, a)
      PROVE TypeOK'
  BY <1>9 DEF AuthorizeStores, Draw, Pushed, Code
<1>10. ASSUME ClientHangsUp PROVE TypeOK'
  BY <1>10 DEF ClientHangsUp
<1>11. ASSUME NEW t \in Tokens, NEW c \in Codes, NEW jti \in Jtis, NEW key \in Keys,
              NEW client \in Clients, NEW redirect \in Redirects,
              NEW verifier \in Verifiers,
              TokenGranted(t, c, jti, key, client, redirect, verifier)
       PROVE TypeOK'
  <2>1. codes[c] \in Code
    BY <1>11 DEF TokenGranted, CodeAdmits
  <2>2. codes' \in [Codes -> Code \cup {None}]
    BY <1>11, <2>1 DEF TokenGranted, Code
  <2>3. tokens' \in [Tokens -> AccessToken \cup {None}]
    BY <1>11, <2>1 DEF TokenGranted, Code, AccessToken
  <2>4. grants' \in [Tokens -> Grant \cup {None}]
    BY <1>11, <2>1 DEF TokenGranted, Code, Grant
  <2> QED BY <1>11, <2>2, <2>3, <2>4 DEF TokenGranted, Draw, BurnDpopJti
<1>12. ASSUME NEW jti \in Jtis, RequestRefused(jti) PROVE TypeOK'
  BY <1>12 DEF RequestRefused, BurnDpopJti
<1>13. ASSUME NEW n \in Nonces, NonceIssued(n) PROVE TypeOK'
  BY <1>13 DEF NonceIssued, Draw
<1>14. ASSUME NEW jti \in Jtis, NEW t \in Tokens, NEW p \in ScopeProfiles,
              NEW key \in Keys, NEW holder \in Keys, NEW n \in Nonces,
              NEW pid \in PidBindings \cup {None}, NEW chip \in Attestations \cup {None},
              CredentialCommitted(jti, t, p, key, holder, n, pid, chip)
       PROVE TypeOK'
  <2>1. JtisOf(pid) \cup JtisOf(chip) \subseteq BindingJtis
    BY DEF JtisOf, PidBinding, Attestation
  <2>2. tokens[t] \in AccessToken
    BY <1>14 DEF CredentialCommitted, AccessAdmits
  <2>3. [token |-> t, profile |-> p, holder |-> holder, nonce |-> n,
         tlsn |-> tokens[t].tlsn, pid |-> pid, chip |-> chip,
         at |-> clock, boot |-> boot] \in Commitment
    BY <2>2 DEF Commitment, AccessToken
  <2> QED BY <1>14, <2>1, <2>3 DEF CredentialCommitted, BurnDpopJti, ConsumeNonce
<1>15. ASSUME NEW jti \in Jtis, NEW t \in Tokens, NEW p \in ScopeProfiles,
              NEW key \in Keys, NEW holder \in Keys, NEW n \in Nonces,
              NEW pid \in PidBindings \cup {None}, NEW chip \in Attestations \cup {None},
              EvidenceSpentInVain(jti, t, p, key, holder, n, pid, chip)
       PROVE TypeOK'
  <2>1. JtisOf(pid) \cup JtisOf(chip) \subseteq BindingJtis
    BY DEF JtisOf, PidBinding, Attestation
  <2> QED BY <1>15, <2>1 DEF EvidenceSpentInVain, BurnDpopJti
<1>16. ASSUME NEW x \in signing, Sign(x) PROVE TypeOK'
  BY <1>16 DEF Sign
<1>17. ASSUME NEW x \in signing, SignFails(x) PROVE TypeOK'
  BY <1>17 DEF SignFails
<1>18. CASE Tick
  BY <1>18 DEF Tick, Time
<1>19. CASE Restart
  BY <1>19 DEF Restart, Empty
<1>20. CASE UNCHANGED vars
  BY <1>20 DEF vars
<1> HIDE FlowAssumption DEF TypeOK, world, stores, inflight, history
<1>21. CASE OfferNext
  BY <1>1, <1>2, <1>3, <1>21, UndrawnIn, FlowAssumption DEF OfferNext
<1>22. CASE AuthorizationNext
  BY <1>4, <1>5, <1>6, <1>7, <1>8, <1>9, <1>10, <1>11, <1>12, <1>22, UndrawnIn
  DEF AuthorizationNext
<1>23. CASE CredentialNext
  <2>1. CASE \E n \in Undrawn(Nonces) : NonceIssued(n)
    BY <1>13, <2>1, UndrawnIn
  <2>2. ASSUME NEW jti \in Jtis, NEW t \in Tokens, NEW p \in ScopeProfiles,
               NEW key \in Keys, NEW holder \in Keys, NEW n \in Nonces,
               NEW pid \in PidBindings \cup {None}, NEW chip \in Attestations \cup {None},
               \/ CredentialCommitted(jti, t, p, key, holder, n, pid, chip)
               \/ EvidenceSpentInVain(jti, t, p, key, holder, n, pid, chip)
        PROVE TypeOK'
    BY <1>14, <1>15, <2>2
  <2>3. CASE \E x \in signing : Sign(x) \/ SignFails(x)
    BY <1>16, <1>17, <2>3
  <2> QED BY <1>23, <2>1, <2>2, <2>3 DEF CredentialNext
<1> QED
  BY <1>18, <1>19, <1>20, <1>21, <1>22, <1>23 DEF Next

\* Every store, every request in flight and every history record keeps its
\* type, whatever the order of the handlers' critical sections, hang-ups and
\* restarts.
THEOREM TypeCorrect == Spec => []TypeOK
  BY InitType, StepType, PTL DEF Spec

-----------------------------------------------------------------------------
(* The nonce ledger.  That a nonce backs one credential is not inductive:  *)
(* a restart forgets which nonces were used, so the argument is that a     *)
(* nonce any request committed with was drawn, is not unused, and cannot   *)
(* be drawn again.                                                         *)

NonceLedgerInv ==
    /\ \A x \in Committed : x.nonce \in drawn /\ x.boot <= boot
    /\ \A n \in Nonces : nonces[n] # "unknown" => n \in drawn
    /\ \A x \in Committed : nonces[x.nonce] # "unused"
    /\ NonceLedgerExact
    /\ NonceBacksOneCredential

\* Commitments keep their nonce and their boot.
LEMMA CommittedType == TypeOK => /\ Committed \subseteq Commitment
                                 /\ \A x \in Committed : x.nonce \in Nonces
  BY DEF TypeOK, Committed, Commitment

\* A fresh process has marked no nonce and committed no credential.
THEOREM InitNonceLedger == Init => NonceLedgerInv
  BY DEF Init, NonceLedgerInv, NonceLedgerExact, NonceBacksOneCredential, Committed

\* The steps that touch the ledger, and what all the others leave alone.
LedgerStep ==
    \/ /\ UNCHANGED <<boot, nonces, signing, issued, unsigned>>
       /\ drawn \subseteq drawn'
       /\ drawn' \subseteq drawn \cup OfferIds \cup ReqUris \cup Codes \cup Tokens
    \/ \E n \in Nonces : NonceIssued(n)
    \/ \E jti \in Jtis, t \in Tokens, p \in ScopeProfiles, key, holder \in Keys,
          n \in Nonces, pid \in PidBindings \cup {None},
          chip \in Attestations \cup {None} :
          CredentialCommitted(jti, t, p, key, holder, n, pid, chip)
    \/ \E x \in signing : Sign(x) \/ SignFails(x)
    \/ Restart

\* Every step is one of the changes of the ledger LedgerStep lists.
LEMMA LedgerSteps == [Next]_vars => LedgerStep
<1> SUFFICES ASSUME [Next]_vars PROVE LedgerStep
  OBVIOUS
<1> USE DEF LedgerStep
<1> USE DEF world, stores, inflight, history
<1>1. CASE OfferNext
  BY <1>1, UndrawnIn DEF OfferNext, Notarise, CreateCredentialOffer, BuildTlsnOffer, Draw
<1>2. CASE AuthorizationNext
  <2>1. CASE \E client \in Clients, redirect \in Redirects, verifier \in Verifiers,
                scope \in Scopes, o \in OfferIds :
                ParReadsOffer(client, redirect, verifier, scope, o)
    BY <2>1 DEF ParReadsOffer
  <2>2. CASE \E client \in Clients, redirect \in Redirects, verifier \in Verifiers,
                scope \in Scopes, u \in Undrawn(ReqUris) :
                ParWithoutOffer(u, client, redirect, verifier, scope)
    BY <2>2, UndrawnIn DEF ParWithoutOffer, Push, Draw
  <2>3. CASE \E u \in Undrawn(ReqUris), r \in par_inflight : ParStores(u, r)
    BY <2>3, UndrawnIn DEF ParStores, Push, Draw
  <2>4. CASE \E u \in ReqUris, client \in Clients :
                AuthorizeTakes(u, client) \/ AuthorizeMismatch(u, client)
    BY <2>4 DEF AuthorizeTakes, AuthorizeMismatch
  <2>5. CASE \E c \in Undrawn(Codes), a \in authorizing : AuthorizeStores(c, a)
    BY <2>5, UndrawnIn DEF AuthorizeStores, Draw
  <2>6. CASE ClientHangsUp
    BY <2>6 DEF ClientHangsUp
  <2>7. CASE \E t \in Undrawn(Tokens), c \in Codes, jti \in Jtis, key \in Keys,
                client \in Clients, redirect \in Redirects, verifier \in Verifiers :
                TokenGranted(t, c, jti, key, client, redirect, verifier)
    BY <2>7, UndrawnIn DEF TokenGranted, Draw
  <2>8. CASE \E jti \in Jtis : RequestRefused(jti)
    BY <2>8 DEF RequestRefused
  <2> QED
    BY <1>2, <2>1, <2>2, <2>3, <2>4, <2>5, <2>6, <2>7, <2>8 DEF AuthorizationNext
<1>3. CASE CredentialNext
  <2>1. CASE \E n \in Undrawn(Nonces) : NonceIssued(n)
    BY <2>1, UndrawnIn
  <2>2. ASSUME NEW jti \in Jtis, NEW t \in Tokens, NEW p \in ScopeProfiles,
               NEW key \in Keys, NEW holder \in Keys, NEW n \in Nonces,
               NEW pid \in PidBindings \cup {None}, NEW chip \in Attestations \cup {None},
               \/ CredentialCommitted(jti, t, p, key, holder, n, pid, chip)
               \/ EvidenceSpentInVain(jti, t, p, key, holder, n, pid, chip)
        PROVE LedgerStep
    BY <2>2 DEF EvidenceSpentInVain
  <2>3. CASE \E x \in signing : Sign(x) \/ SignFails(x)
    BY <2>3
  <2> HIDE DEF LedgerStep
  <2> QED BY <1>3, <2>1, <2>2, <2>3 DEF CredentialNext
<1>4. CASE Tick
  BY <1>4 DEF Tick
<1>5. CASE UNCHANGED vars
  BY <1>5 DEF vars
<1> QED BY <1>1, <1>2, <1>3, <1>4, <1>5 DEF Next

\* Committing marks the nonce in the same critical section that reads it, so no
\* step commits twice with one nonce (credential, main.rs 2262-2387).
THEOREM StepNonceLedger == TypeOK /\ NonceLedgerInv /\ [Next]_vars => NonceLedgerInv'
<1> SUFFICES ASSUME TypeOK, NonceLedgerInv, [Next]_vars PROVE NonceLedgerInv'
  OBVIOUS
<1> USE DEF NonceLedgerInv, NonceLedgerExact, NonceBacksOneCredential, Committed
<1> USE CommittedType
<1>1. CASE /\ UNCHANGED <<boot, nonces, signing, issued, unsigned>>
           /\ drawn \subseteq drawn'
  BY <1>1
<1>2. ASSUME NEW n \in Nonces, NonceIssued(n) PROVE NonceLedgerInv'
  BY <1>2 DEF NonceIssued, Draw, TypeOK, world, inflight, history
<1>3. ASSUME NEW jti \in Jtis, NEW t \in Tokens, NEW p \in ScopeProfiles,
             NEW key \in Keys, NEW holder \in Keys, NEW n \in Nonces,
             NEW pid \in PidBindings \cup {None}, NEW chip \in Attestations \cup {None},
             CredentialCommitted(jti, t, p, key, holder, n, pid, chip)
      PROVE NonceLedgerInv'
  <2> DEFINE new == [token |-> t, profile |-> p, holder |-> holder, nonce |-> n,
                     tlsn |-> tokens[t].tlsn, pid |-> pid, chip |-> chip,
                     at |-> clock, boot |-> boot]
  <2>1. /\ nonces[n] = "unused"
        /\ nonces' = [nonces EXCEPT ![n] = "used"]
        /\ signing' = signing \cup {new}
        /\ UNCHANGED <<boot, issued, unsigned, drawn>>
    BY <1>3 DEF CredentialCommitted, AccessAdmits, ConsumeNonce, world
  <2>2. new.nonce = n /\ new.boot = boot
    OBVIOUS
  <2> HIDE DEF new
  <2>3. Committed' = Committed \cup {new}
    BY <2>1
  <2>4. \A x \in Committed : x.nonce # n
    BY <2>1
  <2>5. new \notin Committed
    BY <2>2, <2>4
  <2> QED BY <2>1, <2>2, <2>3, <2>4, <2>5 DEF TypeOK
<1>4. ASSUME NEW x \in signing, Sign(x) \/ SignFails(x) PROVE NonceLedgerInv'
  BY <1>4 DEF Sign, SignFails, TypeOK, world, stores
<1>5. CASE Restart
  <2>1. Committed' = Committed /\ drawn' = drawn
    BY <1>5 DEF Restart
  <2>2. \A x \in Committed : x.boot <= boot' /\ x.boot # boot'
    BY <1>5, FlowAssumption DEF Restart, TypeOK, Commitment
  <2>3. nonces' = [n \in Nonces |-> "unknown"]
    BY <1>5 DEF Restart
  <2>4. /\ signing' \cap issued' = {} /\ signing' \cap unsigned' = {}
        /\ issued' \cap unsigned' = {}
    BY <1>5 DEF Restart
  <2> QED BY <2>1, <2>2, <2>3, <2>4
<1> QED BY <1>1, <1>2, <1>3, <1>4, <1>5, LedgerSteps DEF LedgerStep

\* A nonce backs at most one credential, in flight, signed or lost, for any
\* number of wallets, requests and restarts (credential, main.rs 2262-2387).
THEOREM NonceOnce == Spec => []NonceBacksOneCredential
<1>1. NonceLedgerInv => NonceBacksOneCredential
  BY DEF NonceLedgerInv
<1> QED BY <1>1, TypeCorrect, InitNonceLedger, StepNonceLedger, PTL DEF Spec

\* The used marks of the nonce store are exactly the commitments made since
\* the process started.
THEOREM NonceLedgerIsExact == Spec => []NonceLedgerExact
<1>1. NonceLedgerInv => NonceLedgerExact
  BY DEF NonceLedgerInv
<1> QED BY <1>1, TypeCorrect, InitNonceLedger, StepNonceLedger, PTL DEF Spec

-----------------------------------------------------------------------------
(* What a code, a token and a credential rest on.  Every record that       *)
(* carries an authorization forward (the pushed request, the handler of    *)
(* authorize, the code, the grant of a token) is the only one of its       *)
(* request_uri at its stage, no later stage of that request_uri exists yet *)
(* while it can still advance, and its contents are those of the pushed    *)
(* request.                                                                *)

\* No code was stored for the request_uri, no token was granted for it.
NotCoded(u) == \A c \in Codes : codes[c] # None => codes[c].uri # u
NotGranted(u) == \A t \in Tokens : grants[t] # None => grants[t].uri # u

PushedInv ==
    \A u \in ReqUris : pushed[u] # None =>
        /\ u \in drawn /\ pushed[u] = par_log[u]
        /\ \A a \in authorizing : a.uri # u
        /\ NotCoded(u) /\ NotGranted(u)

AuthorizingInv ==
    /\ \A a \in authorizing :
          /\ a.uri \in drawn /\ a.par = par_log[a.uri]
          /\ NotCoded(a.uri) /\ NotGranted(a.uri)
    /\ \A a, b \in authorizing : a.uri = b.uri => a = b

CodesInv ==
    /\ \A c \in Codes : codes[c] # None =>
          /\ c \in drawn /\ codes[c].uri \in drawn
          /\ LET r == par_log[codes[c].uri]
             IN  /\ r # None
                 /\ codes[c].client = r.client /\ codes[c].redirect = r.redirect
                 /\ codes[c].challenge = r.challenge
                 /\ codes[c].scope = r.scope /\ codes[c].tlsn = r.tlsn
          /\ ~codes[c].consumed =>
                /\ NotGranted(codes[c].uri)
                /\ \A t \in Tokens : grants[t] # None => grants[t].code # c
    /\ \A c1, c2 \in Codes :
          /\ codes[c1] # None /\ codes[c2] # None /\ codes[c1].uri = codes[c2].uri
          => c1 = c2

GrantsInv ==
    /\ \A t \in Tokens : grants[t] # None =>
          /\ t \in drawn /\ grants[t].code \in drawn /\ grants[t].uri \in drawn
    /\ \A t \in Tokens : tokens[t] # None => grants[t] # None

AuthorizationInv ==
    /\ PushedInv /\ AuthorizingInv /\ CodesInv /\ GrantsInv
    /\ GrantHonoursPar /\ CodeRedeemedOnce

\* A process that has just started has granted nothing: the stores of par,
\* authorize and token are empty (VolatileState, main.rs 168-184).
THEOREM InitAuthorization == Init => AuthorizationInv
  BY DEF Init, Empty, AuthorizationInv, PushedInv, AuthorizingInv, CodesInv,
         GrantsInv, GrantHonoursPar, CodeRedeemedOnce

-----------------------------------------------------------------------------
(* The steps that move an authorization forward, and what the others do.   *)

AuthorizationStep ==
    \/ /\ UNCHANGED <<pushed, par_log, authorizing, codes, tokens, grants>>
       /\ drawn \subseteq drawn'
    \/ \E u \in ReqUris, r \in Pushed :
          Push(u, r) /\ (r \in par_inflight \/ r.scope \in Scopes)
    \/ \E u \in ReqUris, client \in Clients :
          AuthorizeTakes(u, client) \/ AuthorizeMismatch(u, client)
    \/ \E c \in Codes, a \in authorizing : AuthorizeStores(c, a)
    \/ ClientHangsUp
    \/ \E t \in Tokens, c \in Codes, jti \in Jtis, key \in Keys,
          client \in Clients, redirect \in Redirects, verifier \in Verifiers :
          TokenGranted(t, c, jti, key, client, redirect, verifier)
    \/ Restart

\* Every step is one of the actions AuthorizationStep lists, its arguments typed.
LEMMA AuthorizationSteps == TypeOK /\ [Next]_vars => AuthorizationStep
<1> SUFFICES ASSUME TypeOK, [Next]_vars PROVE AuthorizationStep
  OBVIOUS
<1> USE DEF AuthorizationStep, world, stores, inflight, history
<1>1. CASE OfferNext
  BY <1>1 DEF OfferNext, Notarise, CreateCredentialOffer, BuildTlsnOffer, Draw
<1>2. CASE AuthorizationNext
  <2>1. CASE \E client \in Clients, redirect \in Redirects, verifier \in Verifiers,
                scope \in Scopes, o \in OfferIds :
                ParReadsOffer(client, redirect, verifier, scope, o)
    BY <2>1 DEF ParReadsOffer
  <2>2. ASSUME NEW client \in Clients, NEW redirect \in Redirects,
               NEW verifier \in Verifiers, NEW scope \in Scopes, NEW u \in ReqUris,
               ParWithoutOffer(u, client, redirect, verifier, scope)
        PROVE AuthorizationStep
    <3>1. /\ Request(client, redirect, verifier, scope, None, 0) \in Pushed
          /\ Request(client, redirect, verifier, scope, None, 0).scope \in Scopes
      BY <2>2, ScopeType, FlowAssumption
      DEF ParWithoutOffer, Request, Pushed, Time, TlsnEvidence
    <3> QED BY <2>2, <3>1 DEF ParWithoutOffer
  <2>3. CASE \E u \in Undrawn(ReqUris), r \in par_inflight : ParStores(u, r)
    BY <2>3, UndrawnIn DEF ParStores, TypeOK
  <2>4. CASE \E u \in ReqUris, client \in Clients :
                AuthorizeTakes(u, client) \/ AuthorizeMismatch(u, client)
    BY <2>4
  <2>5. CASE \E c \in Undrawn(Codes), a \in authorizing : AuthorizeStores(c, a)
    BY <2>5, UndrawnIn
  <2>6. CASE ClientHangsUp
    BY <2>6
  <2>7. CASE \E t \in Undrawn(Tokens), c \in Codes, jti \in Jtis, key \in Keys,
                client \in Clients, redirect \in Redirects, verifier \in Verifiers :
                TokenGranted(t, c, jti, key, client, redirect, verifier)
    BY <2>7, UndrawnIn
  <2>8. CASE \E jti \in Jtis : RequestRefused(jti)
    BY <2>8 DEF RequestRefused
  <2> HIDE DEF AuthorizationStep
  <2> QED
    BY <1>2, <2>1, <2>2, <2>3, <2>4, <2>5, <2>6, <2>7, <2>8, UndrawnIn
    DEF AuthorizationNext
<1>3. CASE CredentialNext
  <2>1. ASSUME NEW n, NonceIssued(n) PROVE AuthorizationStep
    BY <2>1 DEF NonceIssued, Draw
  <2>2. ASSUME NEW jti, NEW t, NEW p, NEW key, NEW holder, NEW n, NEW pid, NEW chip,
               \/ CredentialCommitted(jti, t, p, key, holder, n, pid, chip)
               \/ EvidenceSpentInVain(jti, t, p, key, holder, n, pid, chip)
        PROVE AuthorizationStep
    BY <2>2 DEF CredentialCommitted, EvidenceSpentInVain
  <2>3. ASSUME NEW x, Sign(x) \/ SignFails(x) PROVE AuthorizationStep
    BY <2>3 DEF Sign, SignFails
  <2> HIDE DEF AuthorizationStep
  <2> QED BY <1>3, <2>1, <2>2, <2>3 DEF CredentialNext
<1>4. CASE Tick
  BY <1>4 DEF Tick
<1>5. CASE UNCHANGED vars
  BY <1>5 DEF vars
<1>6. CASE Restart
  BY <1>6
<1> QED BY <1>1, <1>2, <1>3, <1>4, <1>5, <1>6 DEF Next

-----------------------------------------------------------------------------
(* Preservation.                                                           *)

\* par, authorize and token keep the chain from pushed request to code to token
\* intact, whatever runs between their critical sections (main.rs 1102-2172).
THEOREM StepAuthorization ==
    TypeOK /\ AuthorizationInv /\ [Next]_vars => AuthorizationInv'
<1> SUFFICES ASSUME TypeOK, AuthorizationInv, [Next]_vars PROVE AuthorizationInv'
  OBVIOUS
<1> USE DEF AuthorizationInv, PushedInv, AuthorizingInv, CodesInv, GrantsInv,
            GrantHonoursPar, CodeRedeemedOnce, NotCoded, NotGranted
<1>1. CASE /\ UNCHANGED <<pushed, par_log, authorizing, codes, tokens, grants>>
           /\ drawn \subseteq drawn'
  BY <1>1
<1>2. ASSUME NEW u \in ReqUris, NEW r \in Pushed, Push(u, r)
      PROVE AuthorizationInv'
  BY <1>2, NoneAssumption DEF Push, Draw, TypeOK
<1>3. ASSUME NEW u \in ReqUris, NEW client \in Clients, AuthorizeTakes(u, client)
      PROVE AuthorizationInv'
  BY <1>3 DEF AuthorizeTakes, RemovePushed, TypeOK, history
<1>4. ASSUME NEW u \in ReqUris, NEW client \in Clients, AuthorizeMismatch(u, client)
      PROVE AuthorizationInv'
  BY <1>4 DEF AuthorizeMismatch, RemovePushed, TypeOK, history, inflight
<1>5. ASSUME NEW c \in Codes, NEW a \in authorizing, AuthorizeStores(c, a)
      PROVE AuthorizationInv'
  BY <1>5, NoneAssumption, SMTT(30) DEF AuthorizeStores, Draw, TypeOK, history
<1>6. CASE ClientHangsUp
  BY <1>6 DEF ClientHangsUp, stores, history
<1>7. ASSUME NEW t \in Tokens, NEW c \in Codes, NEW jti \in Jtis, NEW key \in Keys,
             NEW client \in Clients, NEW redirect \in Redirects,
             NEW verifier \in Verifiers,
             TokenGranted(t, c, jti, key, client, redirect, verifier)
      PROVE AuthorizationInv'
  <2> DEFINE g == [code |-> c, uri |-> codes[c].uri, client |-> client,
                   redirect |-> redirect, verifier |-> verifier, jkt |-> key,
                   at |-> clock]
  <2>1. /\ codes[c] \in Code /\ ~codes[c].consumed /\ codes[c] # None
        /\ codes[c].client = client /\ codes[c].redirect = redirect
        /\ codes[c].challenge = verifier
        /\ t \notin drawn /\ drawn' = drawn \cup {t}
    BY <1>7 DEF TokenGranted, CodeAdmits, Draw, TypeOK
  <2>2. /\ UNCHANGED <<pushed, par_log, authorizing>>
        /\ codes' = [codes EXCEPT ![c].consumed = TRUE]
        /\ grants' = [grants EXCEPT ![t] = g]
        /\ tokens' = [tokens EXCEPT ![t] =
              [scope |-> codes[c].scope, dpop_jkt |-> key, tlsn |-> codes[c].tlsn]]
    BY <1>7 DEF TokenGranted, inflight
  <2>3. g \in Grant /\ g # None
    BY <2>1, NoneAssumption DEF Grant, Code, TypeOK
  <2>4. /\ g.code = c /\ g.uri = codes[c].uri /\ g.client = client
        /\ g.redirect = redirect /\ g.verifier = verifier /\ g.jkt = key
    OBVIOUS
  <2> HIDE DEF g
  <2>5. /\ \A v \in Tokens : grants'[v] = IF v = t THEN g ELSE grants[v]
        /\ grants[t] = None
    BY <2>1, <2>2 DEF TypeOK
  <2>6. \A d \in Codes :
           /\ codes'[d] # None => codes[d] # None
           /\ codes[d] # None =>
                 /\ codes'[d].uri = codes[d].uri
                 /\ codes'[d].client = codes[d].client
                 /\ codes'[d].redirect = codes[d].redirect
                 /\ codes'[d].challenge = codes[d].challenge
                 /\ codes'[d].scope = codes[d].scope
                 /\ codes'[d].tlsn = codes[d].tlsn
                 /\ ~codes'[d].consumed => d # c /\ ~codes[d].consumed
    BY <2>1, <2>2 DEF TypeOK, Code
  <2>7. \A v \in Tokens : grants[v] # None =>
           grants[v].code # c /\ grants[v].uri # codes[c].uri
    BY <2>1
  <2>8. PushedInv'
    BY <2>1, <2>2, <2>4, <2>5, <2>6
  <2>9. AuthorizingInv'
    BY <2>1, <2>2, <2>4, <2>5, <2>6
  <2>10. CodesInv'
    BY <2>1, <2>2, <2>4, <2>5, <2>6
  <2>11. GrantsInv'
    BY <2>1, <2>2, <2>3, <2>4, <2>5 DEF TypeOK
  <2>12. GrantHonoursPar'
    BY <2>1, <2>2, <2>4, <2>5 DEF TypeOK
  <2>13. CodeRedeemedOnce'
    BY <2>3, <2>4, <2>5, <2>7
  <2> QED BY <2>8, <2>9, <2>10, <2>11, <2>12, <2>13
<1>8. CASE Restart
  BY <1>8 DEF Restart, Empty, TypeOK
<1> HIDE DEF AuthorizationInv
<1> QED
  BY <1>1, <1>2, <1>3, <1>4, <1>5, <1>6, <1>7, <1>8, AuthorizationSteps
  DEF AuthorizationStep

\* A code and the request_uri it answers mint at most one token (authorize,
\* main.rs 2061-2092; token, main.rs 2136-2165).
THEOREM CodeOnce == Spec => []CodeRedeemedOnce
<1>1. AuthorizationInv => CodeRedeemedOnce
  BY DEF AuthorizationInv
<1> QED BY <1>1, TypeCorrect, InitAuthorization, StepAuthorization, PTL DEF Spec

\* A token is granted to the client, redirect and verifier of the pushed
\* request, for its scope and its evidence.
THEOREM GrantIsOfPar == Spec => []GrantHonoursPar
<1>1. AuthorizationInv => GrantHonoursPar
  BY DEF AuthorizationInv
<1> QED BY <1>1, TypeCorrect, InitAuthorization, StepAuthorization, PTL DEF Spec

-----------------------------------------------------------------------------
(* Credentials.  A commitment refers to its grant, which never changes: a  *)
(* token that was granted was drawn.                                       *)

\* Grants and logged requests are never overwritten.
LEMMA HistoryStable ==
  ASSUME TypeOK, AuthorizationInv, [Next]_vars
  PROVE  /\ \A t \in Tokens : grants[t] # None => grants'[t] = grants[t]
         /\ \A u \in ReqUris : u \in drawn => par_log'[u] = par_log[u]
<1> USE DEF AuthorizationInv, GrantsInv
<1>1. CASE UNCHANGED <<par_log, grants>>
  BY <1>1
<1>2. ASSUME NEW u \in ReqUris, NEW r \in Pushed, Push(u, r)
      PROVE /\ \A t \in Tokens : grants[t] # None => grants'[t] = grants[t]
            /\ \A v \in ReqUris : v \in drawn => par_log'[v] = par_log[v]
  BY <1>2 DEF Push, Draw, TypeOK
<1>3. ASSUME NEW t \in Tokens, NEW c, NEW jti, NEW key, NEW client, NEW redirect,
             NEW verifier, TokenGranted(t, c, jti, key, client, redirect, verifier)
      PROVE /\ \A v \in Tokens : grants[v] # None => grants'[v] = grants[v]
            /\ \A u \in ReqUris : u \in drawn => par_log'[u] = par_log[u]
  BY <1>3 DEF TokenGranted, Draw, TypeOK
<1>4. CASE \E u \in ReqUris, client \in Clients :
              AuthorizeTakes(u, client) \/ AuthorizeMismatch(u, client)
  BY <1>1, <1>4 DEF AuthorizeTakes, AuthorizeMismatch, history
<1>5. CASE (\E c \in Codes, a \in authorizing : AuthorizeStores(c, a)) \/ ClientHangsUp
           \/ Restart
  BY <1>1, <1>5 DEF AuthorizeStores, ClientHangsUp, Restart, history
<1> QED
  BY <1>1, <1>2, <1>3, <1>4, <1>5, AuthorizationSteps DEF AuthorizationStep

\* A commitment the credential endpoint would admit now.
Admitted(x) ==
    \E t \in Tokens, p \in ScopeProfiles, key, holder \in Keys, n \in Nonces,
       pid \in PidBindings \cup {None}, chip \in Attestations \cup {None} :
       /\ AccessAdmits(t, p, key, holder, n)
       /\ PidBindingAdmits(p, pid, holder, n)
       /\ ChipAdmits(p, chip, holder, n)
       /\ KernelAuthorizes(p, holder, n, pid, chip)
       /\ x = [token |-> t, profile |-> p, holder |-> holder, nonce |-> n,
               tlsn |-> tokens[t].tlsn, pid |-> pid, chip |-> chip,
               at |-> clock, boot |-> boot]

\* Committed grows only by a request the credential endpoint admits.
LEMMA CommitSteps ==
  ASSUME [Next]_vars, NEW x \in Committed'
  PROVE  x \in Committed \/ Admitted(x)
<1> USE DEF Committed
<1>1. CASE UNCHANGED <<signing, issued, unsigned>>
  BY <1>1
<1>2. ASSUME NEW n, NonceIssued(n) PROVE UNCHANGED <<signing, issued, unsigned>>
  BY <1>2 DEF NonceIssued, inflight, history
<1>3. ASSUME NEW jti \in Jtis, NEW t \in Tokens, NEW p \in ScopeProfiles,
             NEW key \in Keys, NEW holder \in Keys, NEW n \in Nonces,
             NEW pid \in PidBindings \cup {None}, NEW chip \in Attestations \cup {None},
             CredentialCommitted(jti, t, p, key, holder, n, pid, chip)
      PROVE  x \in Committed \/ Admitted(x)
  BY <1>3 DEF CredentialCommitted, Admitted
<1>4. CASE (\E y \in signing : Sign(y) \/ SignFails(y)) \/ Restart
  BY <1>4 DEF Sign, SignFails, Restart
<1> QED BY <1>1, <1>2, <1>3, <1>4, LedgerSteps DEF LedgerStep

\* The request a grant answers was drawn and logged.
LEMMA GrantedUri ==
  ASSUME TypeOK, AuthorizationInv, NEW t \in Tokens, grants[t] # None
  PROVE  grants[t].uri \in ReqUris /\ grants[t].uri \in drawn
  BY DEF TypeOK, Grant, AuthorizationInv, GrantsInv

\* The checks of credential keep every credential inside its grant, and no later
\* step changes the grant or the request it is compared with (main.rs 2210-2284).
THEOREM StepCredential ==
    /\ TypeOK /\ AuthorizationInv /\ CredentialHonoursGrant /\ [Next]_vars
    => CredentialHonoursGrant'
<1> SUFFICES ASSUME TypeOK, AuthorizationInv, CredentialHonoursGrant, [Next]_vars,
                    NEW x \in Committed'
             PROVE  LET g == grants'[x.token]
                        r == par_log'[g.uri]
                    IN  /\ g # None
                        /\ x.holder = g.jkt
                        /\ x.profile \in r.scope
                        /\ x.tlsn = r.tlsn
                        /\ x.profile = TLSN_EVIDENCE_SD_JWT => x.tlsn # None
  BY DEF CredentialHonoursGrant
<1>1. CASE x \in Committed
  <2>1. x.token \in Tokens
    BY <1>1, CommittedType DEF Commitment
  <2>2. /\ grants[x.token] # None
        /\ x.holder = grants[x.token].jkt
        /\ x.profile \in par_log[grants[x.token].uri].scope
        /\ x.tlsn = par_log[grants[x.token].uri].tlsn
        /\ x.profile = TLSN_EVIDENCE_SD_JWT => x.tlsn # None
    BY <1>1 DEF CredentialHonoursGrant
  <2> QED BY <2>1, <2>2, GrantedUri, HistoryStable
<1>2. ASSUME NEW t \in Tokens, NEW p \in ScopeProfiles, NEW key \in Keys,
             NEW holder \in Keys, NEW n \in Nonces, NEW pid, NEW chip,
             AccessAdmits(t, p, key, holder, n),
             x = [token |-> t, profile |-> p, holder |-> holder, nonce |-> n,
                  tlsn |-> tokens[t].tlsn, pid |-> pid, chip |-> chip,
                  at |-> clock, boot |-> boot]
      PROVE  LET g == grants'[x.token]
                 r == par_log'[g.uri]
             IN  /\ g # None
                 /\ x.holder = g.jkt
                 /\ x.profile \in r.scope
                 /\ x.tlsn = r.tlsn
                 /\ x.profile = TLSN_EVIDENCE_SD_JWT => x.tlsn # None
  <2>1. /\ x.token = t /\ x.profile = p /\ x.holder = holder
        /\ x.tlsn = tokens[t].tlsn
    BY <1>2
  <2>2. /\ tokens[t] # None /\ tokens[t].dpop_jkt = holder /\ p \in tokens[t].scope
        /\ p = TLSN_EVIDENCE_SD_JWT => tokens[t].tlsn # None
    BY <1>2 DEF AccessAdmits
  <2>3. /\ grants[t] # None
        /\ tokens[t].scope = par_log[grants[t].uri].scope
        /\ tokens[t].tlsn = par_log[grants[t].uri].tlsn
        /\ tokens[t].dpop_jkt = grants[t].jkt
    BY <2>2 DEF AuthorizationInv, GrantsInv, GrantHonoursPar
  <2> QED BY <2>1, <2>2, <2>3, GrantedUri, HistoryStable
<1> QED BY <1>1, <1>2, CommitSteps DEF Admitted

\* Every credential stays inside the authorization it rests on (FI-SAF-002 and
\* FI-SAF-004 of FORMAL_SPEC.md; credential, main.rs 2210-2284).
THEOREM CredentialInsideGrant == Spec => []CredentialHonoursGrant
<1>1. Init => CredentialHonoursGrant
  BY DEF Init, CredentialHonoursGrant, Committed
<1> QED
  BY <1>1, TypeCorrect, InitAuthorization, StepAuthorization, StepCredential, PTL
  DEF Spec

-----------------------------------------------------------------------------
(* NFC-sourced identity.  The kernel's chip gate decides on the verdicts   *)
(* of the attestation, so only a complete chip read passes it.             *)

\* No step commits a credential whose chip evidence is incomplete, misbound or
\* not called for (credential, main.rs 2333-2382).
THEOREM StepNfcPid == NfcPidEarned /\ [Next]_vars => NfcPidEarned'
<1> SUFFICES ASSUME NfcPidEarned, [Next]_vars, NEW x \in Committed'
             PROVE  IF x.profile = PID_FROM_EMRTD_SD_JWT
                    THEN /\ x.chip # None
                         /\ x.chip.sod_passive_auth /\ x.chip.chip_authentic
                         /\ x.chip.liveness_matched
                         /\ x.chip.nonce = x.nonce /\ x.chip.holder = x.holder
                    ELSE x.chip = None
  BY DEF NfcPidEarned
<1>1. CASE x \in Committed
  BY <1>1 DEF NfcPidEarned
<1>2. ASSUME NEW t, NEW p \in ScopeProfiles, NEW holder, NEW n, NEW pid, NEW chip,
             ChipAdmits(p, chip, holder, n),
             KernelAuthorizes(p, holder, n, pid, chip),
             x.profile = p /\ x.chip = chip /\ x.nonce = n /\ x.holder = holder
      PROVE  IF x.profile = PID_FROM_EMRTD_SD_JWT
             THEN /\ x.chip # None
                  /\ x.chip.sod_passive_auth /\ x.chip.chip_authentic
                  /\ x.chip.liveness_matched
                  /\ x.chip.nonce = x.nonce /\ x.chip.holder = x.holder
             ELSE x.chip = None
  <2>1. CASE p # PID_FROM_EMRTD_SD_JWT
    BY <1>2, <2>1 DEF ChipAdmits
  <2>2. CASE p = PID_FROM_EMRTD_SD_JWT
    <3>1. p \in NfcPidProfiles
      BY <2>2 DEF NfcPidProfiles
    <3> QED BY <1>2, <2>2, <3>1, ChipGate DEF ChipAdmits, KernelAuthorizes
  <2> QED BY <2>1, <2>2
<1>3. CASE Admitted(x)
  <2>1. PICK t \in Tokens, p \in ScopeProfiles, holder \in Keys, n \in Nonces,
             pid \in PidBindings \cup {None}, chip \in Attestations \cup {None} :
             /\ ChipAdmits(p, chip, holder, n)
             /\ KernelAuthorizes(p, holder, n, pid, chip)
             /\ x = [token |-> t, profile |-> p, holder |-> holder, nonce |-> n,
                     tlsn |-> tokens[t].tlsn, pid |-> pid, chip |-> chip,
                     at |-> clock, boot |-> boot]
    BY <1>3 DEF Admitted
  <2>2. x.profile = p /\ x.chip = chip /\ x.nonce = n /\ x.holder = holder
    BY <2>1
  <2> QED BY <1>2, <2>1, <2>2
<1> QED BY <1>1, <1>3, CommitSteps

\* An NFC-sourced PID rests on a chip attestation with all three verdicts,
\* welded to the nonce and the key of its request (credential, main.rs
\* 2333-2382; chip_liveness_ok, lib.rs 336-347).
THEOREM NfcPidIsEarned == Spec => []NfcPidEarned
<1>1. Init => NfcPidEarned
  BY DEF Init, NfcPidEarned, Committed
<1> QED BY <1>1, StepNfcPid, PTL DEF Spec

-----------------------------------------------------------------------------
(* Binding evidence.  Its identifier is forgotten when the process stops,  *)
(* so the argument does not rest on binding_jtis: evidence names the nonce *)
(* of the request it is part of, and a nonce backs one credential.         *)

EvidenceWelded ==
    \A x \in Committed : /\ x.chip # None => x.chip.nonce = x.nonce
                         /\ x.pid # None => x.pid.nonce = x.nonce

\* Evidence that passes verify_pid_binding or verify_emrtd_evidence names the
\* nonce of the request (main.rs 2703-2881 and 2917-3051).
THEOREM StepEvidence == EvidenceWelded /\ [Next]_vars => EvidenceWelded'
<1> SUFFICES ASSUME EvidenceWelded, [Next]_vars, NEW x \in Committed'
             PROVE  /\ x.chip # None => x.chip.nonce = x.nonce
                    /\ x.pid # None => x.pid.nonce = x.nonce
  BY DEF EvidenceWelded
<1>1. CASE x \in Committed
  BY <1>1 DEF EvidenceWelded
<1>2. CASE Admitted(x)
  <2>1. PICK t \in Tokens, p \in ScopeProfiles, holder \in Keys, n \in Nonces,
             pid \in PidBindings \cup {None}, chip \in Attestations \cup {None} :
             /\ PidBindingAdmits(p, pid, holder, n)
             /\ ChipAdmits(p, chip, holder, n)
             /\ x = [token |-> t, profile |-> p, holder |-> holder, nonce |-> n,
                     tlsn |-> tokens[t].tlsn, pid |-> pid, chip |-> chip,
                     at |-> clock, boot |-> boot]
    BY <1>2 DEF Admitted
  <2>2. x.pid = pid /\ x.chip = chip /\ x.nonce = n
    BY <2>1
  <2>3. chip # None => chip.nonce = n
    BY <2>1 DEF ChipAdmits
  <2>4. pid # None => pid.nonce = n
    BY <2>1 DEF PidBindingAdmits
  <2> QED BY <2>2, <2>3, <2>4
<1> QED BY <1>1, <1>2, CommitSteps

\* No chip attestation and no PID presentation backs two credentials, restarts
\* included (credential, main.rs 2285-2374).
THEOREM EvidenceOnce == Spec => []EvidenceBacksOneCredential
<1>1. Init => EvidenceWelded
  BY DEF Init, EvidenceWelded, Committed
<1>2. EvidenceWelded /\ NonceBacksOneCredential => EvidenceBacksOneCredential
  BY DEF EvidenceWelded, NonceBacksOneCredential, EvidenceBacksOneCredential
<1> QED BY <1>1, <1>2, StepEvidence, NonceOnce, PTL DEF Spec

-----------------------------------------------------------------------------
(* Ledgers that a restart empties.                                         *)
(*                                                                         *)
(* dpop_jtis, binding_jtis and tlsn_sessions protect what happened in this *)
(* life of the process, so their invariants speak of this life only; what  *)
(* holds over restarts rests on nonces and on the clock.                   *)

-----------------------------------------------------------------------------
(* DPoP proof identifiers.                                                 *)

DpopInv ==
    /\ \A a \in accepted : a.boot <= boot /\ (a.boot = boot => a.jti \in dpop_jtis)
    /\ DpopJtiAcceptedOnce

\* The steps that accept a proof, and what the others do to the ledger.
DpopStep ==
    \/ UNCHANGED <<boot, accepted>> /\ dpop_jtis \subseteq dpop_jtis'
    \/ \E jti, for : /\ BurnDpopJti(jti) /\ UNCHANGED boot
                     /\ accepted' = accepted \cup {[boot |-> boot, jti |-> jti, for |-> for]}
    \/ Restart

\* A proof is accepted only in the critical section that burns its identifier.
LEMMA DpopSteps == [Next]_vars => DpopStep
<1> SUFFICES ASSUME [Next]_vars PROVE DpopStep
  OBVIOUS
<1> USE DEF DpopStep, world, stores, inflight, history
<1>1. CASE OfferNext
  BY <1>1 DEF OfferNext, Notarise, CreateCredentialOffer, BuildTlsnOffer
<1>2. ASSUME NEW jti, RequestRefused(jti) PROVE DpopStep
  BY <1>2 DEF RequestRefused, BurnDpopJti
<1>3. ASSUME NEW t, NEW c, NEW jti, NEW key, NEW client, NEW redirect, NEW verifier,
             TokenGranted(t, c, jti, key, client, redirect, verifier)
      PROVE DpopStep
  BY <1>3 DEF TokenGranted
<1>4. ASSUME NEW jti, NEW t, NEW p, NEW key, NEW holder, NEW n, NEW pid, NEW chip,
             CredentialCommitted(jti, t, p, key, holder, n, pid, chip)
      PROVE DpopStep
  BY <1>4 DEF CredentialCommitted
<1>5. ASSUME NEW jti, NEW t, NEW p, NEW key, NEW holder, NEW n, NEW pid, NEW chip,
             EvidenceSpentInVain(jti, t, p, key, holder, n, pid, chip)
      PROVE DpopStep
  BY <1>5 DEF EvidenceSpentInVain, BurnDpopJti
<1>6. ASSUME NEW x, Sign(x) \/ SignFails(x) PROVE DpopStep
  BY <1>6 DEF Sign, SignFails
<1>7. ASSUME NEW n, NonceIssued(n) PROVE DpopStep
  BY <1>7 DEF NonceIssued
<1>8. CASE AuthorizationNext
  <2>1. ASSUME NEW client, NEW redirect, NEW verifier, NEW scope, NEW o,
               ParReadsOffer(client, redirect, verifier, scope, o)
        PROVE DpopStep
    BY <2>1 DEF ParReadsOffer
  <2>2. ASSUME NEW client, NEW redirect, NEW verifier, NEW scope, NEW u,
               ParWithoutOffer(u, client, redirect, verifier, scope)
        PROVE DpopStep
    BY <2>2 DEF ParWithoutOffer, Push
  <2>3. ASSUME NEW u, NEW r, ParStores(u, r) PROVE DpopStep
    BY <2>3 DEF ParStores, Push
  <2>4. ASSUME NEW u, NEW client,
               AuthorizeTakes(u, client) \/ AuthorizeMismatch(u, client)
        PROVE DpopStep
    BY <2>4 DEF AuthorizeTakes, AuthorizeMismatch
  <2>5. ASSUME NEW c, NEW a, AuthorizeStores(c, a) PROVE DpopStep
    BY <2>5 DEF AuthorizeStores
  <2>6. CASE ClientHangsUp
    BY <2>6 DEF ClientHangsUp
  <2> HIDE DEF DpopStep
  <2> QED
    BY <1>2, <1>3, <1>8, <2>1, <2>2, <2>3, <2>4, <2>5, <2>6 DEF AuthorizationNext
<1>9. CASE Tick
  BY <1>9 DEF Tick
<1>10. CASE Restart
  BY <1>10
<1>11. CASE UNCHANGED vars
  BY <1>11 DEF vars
<1> HIDE DEF DpopStep
<1>12. CASE CredentialNext
  BY <1>4, <1>5, <1>6, <1>7, <1>12 DEF CredentialNext
<1> QED BY <1>1, <1>8, <1>9, <1>10, <1>11, <1>12 DEF Next

\* The identifiers of the proofs accepted in this life of the process are in the
\* ledger, which only a restart empties (main.rs 2129 and 2203).
THEOREM StepDpop == TypeOK /\ DpopInv /\ [Next]_vars => DpopInv'
<1> SUFFICES ASSUME TypeOK, DpopInv, [Next]_vars PROVE DpopInv'
  OBVIOUS
<1> USE DEF DpopInv, DpopJtiAcceptedOnce
<1>1. CASE UNCHANGED <<boot, accepted>> /\ dpop_jtis \subseteq dpop_jtis'
  BY <1>1
<1>2. ASSUME NEW jti, NEW for, BurnDpopJti(jti), UNCHANGED boot,
             accepted' = accepted \cup {[boot |-> boot, jti |-> jti, for |-> for]}
      PROVE DpopInv'
  <2>1. /\ \A a \in accepted : a.boot = boot => a.jti # jti
        /\ boot \in Nat /\ dpop_jtis' = dpop_jtis \cup {jti}
    BY <1>2, FlowAssumption DEF BurnDpopJti, TypeOK
  <2> QED BY <1>2, <2>1
<1>3. CASE Restart
  BY <1>3, FlowAssumption DEF Restart, TypeOK
<1> QED BY <1>1, <1>2, <1>3, DpopSteps DEF DpopStep

\* While the process runs, a DPoP proof is accepted once, by whichever of the
\* token and the credential endpoint sees it first (main.rs 2129 and 2203).
THEOREM DpopOnce == Spec => []DpopJtiAcceptedOnce
<1>1. Init => DpopInv
  BY DEF Init, DpopInv, DpopJtiAcceptedOnce
<1>2. DpopInv => DpopJtiAcceptedOnce
  BY DEF DpopInv
<1> QED BY <1>1, <1>2, TypeCorrect, StepDpop, PTL DEF Spec

-----------------------------------------------------------------------------
(* Identifiers of binding evidence.                                        *)

EvidenceJtis(x) == JtisOf(x.pid) \cup JtisOf(x.chip)

BindingInv ==
    /\ \A x \in Committed : x.boot <= boot
    /\ \A x \in Committed : x.boot = boot => EvidenceJtis(x) \subseteq binding_jtis
    /\ BindingJtiUsedOnce

\* The steps that commit a credential, and what the others do to the ledger.
BindingStep ==
    \/ /\ UNCHANGED <<boot, signing, issued, unsigned>>
       /\ binding_jtis \subseteq binding_jtis'
    \/ \E jti \in Jtis, t \in Tokens, p \in ScopeProfiles, key, holder \in Keys,
          n \in Nonces, pid \in PidBindings \cup {None},
          chip \in Attestations \cup {None} :
          CredentialCommitted(jti, t, p, key, holder, n, pid, chip)
    \/ \E x \in signing : Sign(x) \/ SignFails(x)
    \/ Restart

\* Evidence is recorded with the commitment or in vain, and only a restart
\* forgets it.
LEMMA BindingSteps == [Next]_vars => BindingStep
<1> SUFFICES ASSUME [Next]_vars PROVE BindingStep
  OBVIOUS
<1> USE DEF BindingStep, world, stores, inflight, history
<1>1. CASE OfferNext
  BY <1>1 DEF OfferNext, Notarise, CreateCredentialOffer, BuildTlsnOffer
<1>2. ASSUME NEW n, NonceIssued(n) PROVE BindingStep
  BY <1>2 DEF NonceIssued
<1>3. ASSUME NEW jti, NEW t, NEW p, NEW key, NEW holder, NEW n, NEW pid, NEW chip,
             EvidenceSpentInVain(jti, t, p, key, holder, n, pid, chip)
      PROVE BindingStep
  BY <1>3 DEF EvidenceSpentInVain
<1>4. CASE AuthorizationNext
  <2>1. ASSUME NEW client, NEW redirect, NEW verifier, NEW scope, NEW o,
               ParReadsOffer(client, redirect, verifier, scope, o)
        PROVE BindingStep
    BY <2>1 DEF ParReadsOffer
  <2>2. ASSUME NEW client, NEW redirect, NEW verifier, NEW scope, NEW u,
               ParWithoutOffer(u, client, redirect, verifier, scope)
        PROVE BindingStep
    BY <2>2 DEF ParWithoutOffer, Push
  <2>3. ASSUME NEW u, NEW r, ParStores(u, r) PROVE BindingStep
    BY <2>3 DEF ParStores, Push
  <2>4. ASSUME NEW u, NEW client,
               AuthorizeTakes(u, client) \/ AuthorizeMismatch(u, client)
        PROVE BindingStep
    BY <2>4 DEF AuthorizeTakes, AuthorizeMismatch
  <2>5. ASSUME NEW c, NEW a, AuthorizeStores(c, a) PROVE BindingStep
    BY <2>5 DEF AuthorizeStores
  <2>6. CASE ClientHangsUp
    BY <2>6 DEF ClientHangsUp
  <2>7. ASSUME NEW t, NEW c, NEW jti, NEW key, NEW client, NEW redirect, NEW verifier,
               TokenGranted(t, c, jti, key, client, redirect, verifier)
        PROVE BindingStep
    BY <2>7 DEF TokenGranted
  <2>8. ASSUME NEW jti, RequestRefused(jti) PROVE BindingStep
    BY <2>8 DEF RequestRefused
  <2> HIDE DEF BindingStep
  <2> QED
    BY <1>4, <2>1, <2>2, <2>3, <2>4, <2>5, <2>6, <2>7, <2>8 DEF AuthorizationNext
<1>5. CASE Tick \/ UNCHANGED vars
  BY <1>5 DEF Tick, vars
<1>6. CASE CredentialNext
  <2>1. CASE \E n \in Undrawn(Nonces) : NonceIssued(n)
    BY <1>2, <2>1
  <2>2. ASSUME NEW jti \in Jtis, NEW t \in Tokens, NEW p \in ScopeProfiles,
               NEW key \in Keys, NEW holder \in Keys, NEW n \in Nonces,
               NEW pid \in PidBindings \cup {None}, NEW chip \in Attestations \cup {None},
               \/ CredentialCommitted(jti, t, p, key, holder, n, pid, chip)
               \/ EvidenceSpentInVain(jti, t, p, key, holder, n, pid, chip)
        PROVE BindingStep
    BY <1>3, <2>2
  <2>3. CASE \E x \in signing : Sign(x) \/ SignFails(x)
    BY <2>3
  <2> HIDE DEF BindingStep
  <2> QED BY <1>6, <2>1, <2>2, <2>3 DEF CredentialNext
<1>7. CASE Restart
  BY <1>7
<1> QED BY <1>1, <1>4, <1>5, <1>6, <1>7 DEF Next

\* The identifiers a credential rests on were not in the ledger before and are
\* in it from then on, until the process stops (credential, main.rs 2313-2374).
THEOREM StepBinding == TypeOK /\ BindingInv /\ [Next]_vars => BindingInv'
<1> SUFFICES ASSUME TypeOK, BindingInv, [Next]_vars PROVE BindingInv'
  OBVIOUS
<1> USE DEF BindingInv, BindingJtiUsedOnce, EvidenceJtis, Committed
<1>1. CASE /\ UNCHANGED <<boot, signing, issued, unsigned>>
           /\ binding_jtis \subseteq binding_jtis'
  BY <1>1
<1>2. ASSUME NEW jti, NEW t, NEW p, NEW key, NEW holder, NEW n, NEW pid, NEW chip,
             CredentialCommitted(jti, t, p, key, holder, n, pid, chip)
      PROVE BindingInv'
  <2> DEFINE new == [token |-> t, profile |-> p, holder |-> holder, nonce |-> n,
                     tlsn |-> tokens[t].tlsn, pid |-> pid, chip |-> chip,
                     at |-> clock, boot |-> boot]
  <2>1. /\ binding_jtis' = binding_jtis \cup EvidenceJtis(new)
        /\ new.boot = boot /\ boot' = boot /\ boot \in Nat
        /\ Committed' = Committed \cup {new}
    BY <1>2, FlowAssumption DEF CredentialCommitted, world, TypeOK
  <2>2. EvidenceJtis(new) \cap binding_jtis = {}
    BY <1>2 DEF CredentialCommitted, PidBindingAdmits, ChipAdmits, JtisOf
  <2> HIDE DEF new, EvidenceJtis, Committed
  <2>3. \A x \in Committed : x.boot = boot => EvidenceJtis(x) \cap EvidenceJtis(new) = {}
    BY <2>2
  <2>4. (\A x \in Committed : x.boot <= boot)' /\
        (\A x \in Committed : x.boot = boot => EvidenceJtis(x) \subseteq binding_jtis)'
    BY <2>1 DEF EvidenceJtis
  <2>5. \A x, y \in Committed' : x # y /\ x.boot = y.boot =>
           EvidenceJtis(x) \cap EvidenceJtis(y) = {}
    <3>1. ASSUME NEW x \in Committed, NEW y \in Committed, x # y, x.boot = y.boot
          PROVE EvidenceJtis(x) \cap EvidenceJtis(y) = {}
      BY <3>1 DEF EvidenceJtis
    <3> QED BY <2>1, <2>3, <3>1
  <2> QED BY <2>4, <2>5 DEF EvidenceJtis
<1>3. ASSUME NEW x \in signing, Sign(x) \/ SignFails(x) PROVE BindingInv'
  <2>1. Committed' = Committed /\ UNCHANGED <<boot, binding_jtis>>
    BY <1>3 DEF Sign, SignFails, world, stores
  <2> QED BY <2>1
<1>4. CASE Restart
  <2>1. Committed' = Committed /\ boot' = boot + 1 /\ boot \in Nat
    BY <1>4, FlowAssumption DEF Restart, TypeOK
  <2>2. \A x \in Committed : x.boot \in Nat
    BY CommittedType, FlowAssumption DEF Commitment
  <2> HIDE DEF Committed
  <2> QED BY <2>1, <2>2
<1> QED BY <1>1, <1>2, <1>3, <1>4, BindingSteps DEF BindingStep

\* While the process runs, an identifier of a PID presentation or of a chip
\* attestation backs one credential (credential, main.rs 2313 and 2357).
THEOREM BindingJtiOnce == Spec => []BindingJtiUsedOnce
<1>1. Init => BindingInv
  BY DEF Init, BindingInv, BindingJtiUsedOnce, Committed
<1>2. BindingInv => BindingJtiUsedOnce
  BY DEF BindingInv
<1> QED BY <1>1, <1>2, TypeCorrect, StepBinding, PTL DEF Spec

-----------------------------------------------------------------------------
(* PID-bound credentials.                                                  *)

\* A signed credential stays signed.
LEMMA IssuedGrows == [Next]_vars => issued \subseteq issued'
  BY LedgerSteps DEF LedgerStep, NonceIssued, CredentialCommitted, Sign, SignFails,
                     Restart, history

\* The presented PID was signed on another nonce than the one just consumed,
\* which no commitment had before (verify_pid_binding, main.rs 2703-2881).
THEOREM StepPidBound ==
    TypeOK /\ NonceLedgerInv /\ PidBoundRestsOnPid /\ [Next]_vars => PidBoundRestsOnPid'
<1> SUFFICES ASSUME TypeOK, NonceLedgerInv, PidBoundRestsOnPid, [Next]_vars,
                    NEW x \in Committed', x.profile \in PidBoundProfiles
             PROVE  /\ x.pid # None
                    /\ x.pid.nonce = x.nonce /\ x.pid.holder = x.holder
                    /\ \E c \in issued' : /\ c.profile = PID_SD_JWT
                                          /\ c.holder = x.pid.pid_holder
                                          /\ c.at <= x.at /\ x.at < c.at + PidLifetime
                                          /\ c.nonce # x.nonce
  BY DEF PidBoundRestsOnPid
<1>1. CASE x \in Committed
  BY <1>1, IssuedGrows DEF PidBoundRestsOnPid
<1>2. CASE Admitted(x)
  <2>1. PICK t \in Tokens, p \in ScopeProfiles, key, holder \in Keys, n \in Nonces,
             pid \in PidBindings \cup {None}, chip \in Attestations \cup {None} :
             /\ AccessAdmits(t, p, key, holder, n)
             /\ PidBindingAdmits(p, pid, holder, n)
             /\ ChipAdmits(p, chip, holder, n)
             /\ KernelAuthorizes(p, holder, n, pid, chip)
             /\ x = [token |-> t, profile |-> p, holder |-> holder, nonce |-> n,
                     tlsn |-> tokens[t].tlsn, pid |-> pid, chip |-> chip,
                     at |-> clock, boot |-> boot]
    BY <1>2 DEF Admitted
  <2>2. /\ x.profile = p /\ x.pid = pid /\ x.nonce = n /\ x.holder = holder
        /\ x.at = clock
    BY <2>1
  <2>3. /\ pid # None /\ pid.nonce = n /\ pid.holder = holder
        /\ HoldsValidPid(pid.pid_holder)
    BY <2>1, <2>2 DEF PidBindingAdmits
  <2>4. PICK c \in issued : /\ c.profile = PID_SD_JWT /\ c.holder = pid.pid_holder
                            /\ c.at <= clock /\ clock < c.at + PidLifetime
    BY <2>3 DEF HoldsValidPid
  <2>5. c.nonce # n
    BY <2>1 DEF AccessAdmits, NonceLedgerInv, Committed
  <2> QED BY <2>2, <2>3, <2>4, <2>5, IssuedGrows
<1> QED BY <1>1, <1>2, CommitSteps

\* A PID-bound attestation or a mandate rests on a PID this issuer signed
\* before, valid when it was presented, by its holder, for this key and nonce
\* (verify_pid_binding, main.rs 2703-2881; credential, main.rs 2285-2332).
THEOREM PidBoundIsOfPid == Spec => []PidBoundRestsOnPid
<1>1. Init => PidBoundRestsOnPid
  BY DEF Init, PidBoundRestsOnPid, Committed
<1> QED BY <1>1, TypeCorrect, InitNonceLedger, StepNonceLedger, StepPidBound, PTL DEF Spec

-----------------------------------------------------------------------------
(* Notarised sessions.                                                     *)

\* The steps that touch offers, sessions or requests, and what the others do.
NotarisedStep ==
    \/ /\ UNCHANGED <<clock, artifacts, offers, tlsn_sessions, par_log>>
       /\ par_inflight' \subseteq par_inflight
    \/ \E s \in TlsnSessions, t \in Time : Notarise(s, t)
    \/ \E o \in OfferIds : \E p : CreateCredentialOffer(o, p)
    \/ \E o \in OfferIds, s \in TlsnSessions : BuildTlsnOffer(o, s)
    \/ \E o \in OfferIds, scope \in Scopes : \E client, redirect, verifier :
          ParReadsOffer(client, redirect, verifier, scope, o)
    \/ \E u \in ReqUris : \E r : /\ r \in par_inflight \/ r.tlsn = None
                             /\ par_inflight' \subseteq par_inflight
                             /\ Push(u, r)
    \/ Tick
    \/ Restart

\* Only the handlers of offers and par, the notary and the clock are involved.
LEMMA NotarisedSteps == [Next]_vars => NotarisedStep
<1> SUFFICES ASSUME [Next]_vars PROVE NotarisedStep
  OBVIOUS
<1> USE DEF NotarisedStep, world, stores, inflight, history
<1>1. CASE OfferNext
  BY <1>1, UndrawnIn DEF OfferNext
<1>2. CASE AuthorizationNext
  <2>1. ASSUME NEW client, NEW redirect, NEW verifier, NEW scope \in Scopes,
               NEW o \in OfferIds, ParReadsOffer(client, redirect, verifier, scope, o)
        PROVE NotarisedStep
    BY <2>1
  <2>2. ASSUME NEW client, NEW redirect, NEW verifier, NEW scope, NEW u \in ReqUris,
               ParWithoutOffer(u, client, redirect, verifier, scope)
        PROVE NotarisedStep
    <3>1. Request(client, redirect, verifier, scope, None, 0).tlsn = None
      BY DEF Request
    <3> QED BY <2>2, <3>1 DEF ParWithoutOffer
  <2>3. ASSUME NEW u \in ReqUris, NEW r, ParStores(u, r) PROVE NotarisedStep
    BY <2>3 DEF ParStores
  <2>4. ASSUME NEW u, NEW client,
               AuthorizeTakes(u, client) \/ AuthorizeMismatch(u, client)
        PROVE NotarisedStep
    BY <2>4 DEF AuthorizeTakes, AuthorizeMismatch
  <2>5. ASSUME NEW c, NEW a, AuthorizeStores(c, a) PROVE NotarisedStep
    BY <2>5 DEF AuthorizeStores
  <2>6. CASE ClientHangsUp
    BY <2>6 DEF ClientHangsUp
  <2>7. ASSUME NEW t, NEW c, NEW jti, NEW key, NEW client, NEW redirect, NEW verifier,
               TokenGranted(t, c, jti, key, client, redirect, verifier)
        PROVE NotarisedStep
    BY <2>7 DEF TokenGranted
  <2>8. ASSUME NEW jti, RequestRefused(jti) PROVE NotarisedStep
    BY <2>8 DEF RequestRefused
  <2> HIDE DEF NotarisedStep
  <2> QED
    BY <1>2, <2>1, <2>2, <2>3, <2>4, <2>5, <2>6, <2>7, <2>8, UndrawnIn
    DEF AuthorizationNext
<1>3. CASE CredentialNext
  <2>1. ASSUME NEW n, NonceIssued(n) PROVE NotarisedStep
    BY <2>1 DEF NonceIssued
  <2>2. ASSUME NEW jti, NEW t, NEW p, NEW key, NEW holder, NEW n, NEW pid, NEW chip,
               \/ CredentialCommitted(jti, t, p, key, holder, n, pid, chip)
               \/ EvidenceSpentInVain(jti, t, p, key, holder, n, pid, chip)
        PROVE NotarisedStep
    BY <2>2 DEF CredentialCommitted, EvidenceSpentInVain
  <2>3. ASSUME NEW x, Sign(x) \/ SignFails(x) PROVE NotarisedStep
    BY <2>3 DEF Sign, SignFails
  <2> HIDE DEF NotarisedStep
  <2> QED BY <1>3, <2>1, <2>2, <2>3 DEF CredentialNext
<1>4. CASE UNCHANGED vars
  BY <1>4 DEF vars
<1>5. CASE Tick \/ Restart
  BY <1>5
<1> QED BY <1>1, <1>2, <1>3, <1>4, <1>5 DEF Next

\* An offer that carries a session reserved it.
ReservationInv ==
    /\ \A o \in OfferIds : offers[o] # None /\ offers[o].tlsn # None =>
          offers[o].tlsn \in tlsn_sessions
    /\ OneOfferPerTlsnSession

\* Offers and reservations are made together and lost together (main.rs
\* 3315-3328): no step makes a second offer on a session.
THEOREM StepReservation ==
    TypeOK /\ ReservationInv /\ [Next]_vars => ReservationInv'
<1> SUFFICES ASSUME TypeOK, ReservationInv, [Next]_vars PROVE ReservationInv'
  OBVIOUS
<1> USE DEF ReservationInv, OneOfferPerTlsnSession
<1>1. CASE UNCHANGED <<offers, tlsn_sessions>>
  BY <1>1
<1>2. ASSUME NEW o \in OfferIds, NEW p, CreateCredentialOffer(o, p)
      PROVE ReservationInv'
  BY <1>2 DEF CreateCredentialOffer, TypeOK
<1>3. ASSUME NEW o \in OfferIds, NEW s \in TlsnSessions, BuildTlsnOffer(o, s)
      PROVE ReservationInv'
  BY <1>3 DEF BuildTlsnOffer, ReserveTlsnSession, TypeOK
<1>4. CASE Restart
  BY <1>4 DEF Restart, Empty
<1>5. CASE \/ \E s \in TlsnSessions, t \in Time : Notarise(s, t)
           \/ \E o \in OfferIds : \E client, redirect, verifier, scope :
                 ParReadsOffer(client, redirect, verifier, scope, o)
           \/ Tick
  BY <1>1, <1>5 DEF Notarise, ParReadsOffer, Tick, stores
<1>6. CASE \E u \in ReqUris : \E r : Push(u, r)
  BY <1>1, <1>6 DEF Push
<1> QED BY <1>1, <1>2, <1>3, <1>4, <1>5, <1>6, NotarisedSteps DEF NotarisedStep

\* A notarised session backs at most one outstanding offer, however many
\* requests present its artifact at once (main.rs 3315-3328).
THEOREM TlsnOfferOnce == Spec => []OneOfferPerTlsnSession
<1>1. Init => ReservationInv
  BY DEF Init, Empty, ReservationInv, OneOfferPerTlsnSession
<1>2. ReservationInv => OneOfferPerTlsnSession
  BY DEF ReservationInv
<1> QED BY <1>1, <1>2, TypeCorrect, StepReservation, PTL DEF Spec

-----------------------------------------------------------------------------
(* The window of notarised evidence.  It is checked twice, in two          *)
(* requests: the artifact when its offer is made, the offer when par reads *)
(* it; the offer and the request in flight carry it from one to the other. *)

\* The evidence a request carries was inside its windows when par read it.
RequestInWindow(r) == r.tlsn # None =>
    /\ artifacts[r.tlsn] # None
    /\ r.checked_at <= artifacts[r.tlsn] + 2 * FiveMinutes
    /\ artifacts[r.tlsn] <= r.checked_at + Skew

\* An offer expires inside the windows of its evidence, which was notarised by
\* now but for the skew.
OfferInWindow(o) == offers[o] # None /\ offers[o].tlsn # None =>
    /\ artifacts[offers[o].tlsn] # None
    /\ offers[o].expires_at <= artifacts[offers[o].tlsn] + 2 * FiveMinutes
    /\ artifacts[offers[o].tlsn] <= clock + Skew

TlsnWindowInv ==
    /\ \A o \in OfferIds : OfferInWindow(o)
    /\ \A r \in par_inflight : RequestInWindow(r)
    /\ \A u \in ReqUris : par_log[u] # None => RequestInWindow(par_log[u])

\* What the clock and the instants of the notary are.
LEMMA InstantsType ==
  ASSUME TypeOK
  PROVE  /\ clock \in Nat /\ Skew \in Nat /\ FiveMinutes \in Nat
         /\ \A s \in TlsnSessions : artifacts[s] # None => artifacts[s] \in Nat
         /\ \A o \in OfferIds : offers[o] # None =>
               offers[o].expires_at \in Nat /\ offers[o].tlsn \in TlsnSessions \cup {None}
         /\ \A r \in par_inflight :
               r.checked_at \in Nat /\ r.tlsn \in TlsnSessions \cup {None}
         /\ \A u \in ReqUris : par_log[u] # None =>
               par_log[u].checked_at \in Nat /\ par_log[u].tlsn \in TlsnSessions \cup {None}
  BY FlowAssumption DEF TypeOK, Time, Offer, Pushed, TlsnEvidence

\* No step takes evidence in outside of its windows, nor changes the artifact
\* of evidence taken in (par, main.rs 1118-1139; build_tlsn_offer, 1230-1361).
THEOREM StepTlsnWindow == TypeOK /\ TlsnWindowInv /\ [Next]_vars => TlsnWindowInv'
<1> SUFFICES ASSUME TypeOK, TlsnWindowInv, [Next]_vars PROVE TlsnWindowInv'
  OBVIOUS
<1> USE InstantsType DEF TlsnWindowInv, OfferInWindow, RequestInWindow
<1>1. CASE /\ UNCHANGED <<clock, artifacts, offers, tlsn_sessions, par_log>>
           /\ par_inflight' \subseteq par_inflight
  BY <1>1
<1>2. ASSUME NEW s \in TlsnSessions, NEW t \in Time, Notarise(s, t)
      PROVE TlsnWindowInv'
  <2>1. \A v \in TlsnSessions : artifacts[v] # None => artifacts'[v] = artifacts[v]
    BY <1>2 DEF Notarise, TypeOK
  <2>2. UNCHANGED <<clock, offers, par_inflight, par_log>>
    BY <1>2 DEF Notarise, stores, inflight, history
  <2> QED BY <2>1, <2>2
<1>3. ASSUME NEW o \in OfferIds, NEW p, CreateCredentialOffer(o, p)
      PROVE TlsnWindowInv'
  BY <1>3 DEF CreateCredentialOffer, TypeOK, world, inflight, history
<1>4. ASSUME NEW o \in OfferIds, NEW s \in TlsnSessions, BuildTlsnOffer(o, s)
      PROVE TlsnWindowInv'
  <2>1. /\ artifacts[s] # None /\ artifacts[s] <= clock + Skew
        /\ clock + FiveMinutes <= artifacts[s] + 2 * FiveMinutes
    BY <1>4 DEF BuildTlsnOffer, ArtifactAccepted
  <2>2. /\ UNCHANGED <<clock, artifacts, par_inflight, par_log>>
        /\ offers' = [offers EXCEPT ![o] =
              [profile |-> TLSN_EVIDENCE_SD_JWT, expires_at |-> clock + FiveMinutes,
               tlsn |-> s]]
    BY <1>4 DEF BuildTlsnOffer, world, inflight, history
  <2> QED BY <2>1, <2>2 DEF TypeOK
<1>5. ASSUME NEW client, NEW redirect, NEW verifier, NEW scope, NEW o \in OfferIds,
             ParReadsOffer(client, redirect, verifier, scope, o)
      PROVE TlsnWindowInv'
  <2> DEFINE r == Request(client, redirect, verifier, scope, offers[o].tlsn, clock)
  <2>1. /\ par_inflight' = par_inflight \cup {r}
        /\ UNCHANGED <<clock, artifacts, offers, par_log>>
        /\ offers[o] # None /\ clock <= offers[o].expires_at
    BY <1>5 DEF ParReadsOffer, OfferAdmits, world, stores, history
  <2>2. r.tlsn = offers[o].tlsn /\ r.checked_at = clock
    BY DEF Request
  <2> HIDE DEF r
  <2>3. RequestInWindow(r)
    BY <2>1, <2>2
  <2> QED BY <2>1, <2>3
<1>6. ASSUME NEW u \in ReqUris, NEW r, r \in par_inflight \/ r.tlsn = None,
             par_inflight' \subseteq par_inflight, Push(u, r)
      PROVE TlsnWindowInv'
  BY <1>6 DEF Push, TypeOK, world
<1>7. CASE Tick
  BY <1>7 DEF Tick, stores, inflight, history
<1>8. CASE Restart
  BY <1>8 DEF Restart, Empty
<1> QED
  BY <1>1, <1>2, <1>3, <1>4, <1>5, <1>6, <1>7, <1>8, NotarisedSteps DEF NotarisedStep

\* Evidence enters an authorization inside the window of its artifact and the
\* window of its offer, and not before it was notarised but for the skew (par,
\* main.rs 1118-1139; verify_tlsn_artifact, 4163-4320).
THEOREM TlsnWindow == Spec => []TlsnEvidenceWindow
<1>1. Init => TlsnWindowInv
  BY DEF Init, Empty, TlsnWindowInv, OfferInWindow
<1>2. TlsnWindowInv => TlsnEvidenceWindow
  BY DEF TlsnWindowInv, RequestInWindow, TlsnEvidenceWindow
<1> QED BY <1>1, <1>2, TypeCorrect, StepTlsnWindow, PTL DEF Spec
=============================================================================
