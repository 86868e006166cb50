---------------------- MODULE IssuanceRefinementProofs ----------------------
(***************************************************************************)
(* IssuanceFlow implements IssuanceLedger, for every value of its          *)
(* constants: the empty process maps to the empty ledger, and every step   *)
(* of a handler to a step of the ledger or to none.                        *)
(***************************************************************************)
EXTENDS IssuanceRefinement, IssuanceFlowProofs

\* Requests that were logged were drawn, and par handles scopes clients ask for.
RequestsInv ==
    /\ \A u \in ReqUris : par_log[u] # None => u \in drawn
    /\ \A r \in par_inflight : r.scope \in Scopes

RefinementInv ==
    /\ TypeOK /\ NonceLedgerInv /\ AuthorizationInv /\ CredentialHonoursGrant
    /\ RequestsInv

-----------------------------------------------------------------------------
(* The parts of the mapping.                                               *)

\* A request without a grant has no holder.
LEMMA HolderNone ==
  ASSUME NEW log, NEW u, GrantsIn(log, u) = {}
  PROVE  HolderIn(log, u) = None
  BY DEF HolderIn

\* A request with one grant is held by its key.
LEMMA HolderOne ==
  ASSUME NEW log, NEW u, NEW t, GrantsIn(log, u) = {t}
  PROVE  HolderIn(log, u) = log[t].jkt
<1>1. (CHOOSE v \in GrantsIn(log, u) : TRUE) = t
  OBVIOUS
<1> QED BY <1>1 DEF HolderIn

\* Grants that are added for other requests do not change the holder of one.
LEMMA HolderKept ==
  ASSUME NEW log, NEW log2, NEW u, GrantsIn(log2, u) = GrantsIn(log, u),
         \A t \in GrantsIn(log, u) : log2[t] = log[t]
  PROVE  HolderIn(log2, u) = HolderIn(log, u)
<1>1. CASE GrantsIn(log, u) = {}
  BY <1>1 DEF HolderIn
<1>2. CASE GrantsIn(log, u) # {}
  <2> DEFINE t == CHOOSE v \in GrantsIn(log, u) : TRUE
  <2>1. t \in GrantsIn(log, u)
    BY <1>2
  <2>2. HolderIn(log, u) = log[t].jkt
    BY <1>2 DEF HolderIn
  <2>3. HolderIn(log2, u) = log2[t].jkt
    BY <1>2 DEF HolderIn
  <2> HIDE DEF t
  <2> QED BY <2>1, <2>2, <2>3
<1> QED BY <1>1, <1>2

\* A nonce without a credential has no entry.
LEMMA EntryNone ==
  ASSUME NEW S, NEW log, NEW n, ~OnNonce(S, n)
  PROVE  EntryIn(S, log, n) = None
  BY DEF EntryIn

\* The entry of a nonce is that of the one credential on it.
LEMMA EntryOne ==
  ASSUME NEW S, NEW log, NEW x \in S, \A y \in S : y.nonce = x.nonce => y = x
  PROVE  EntryIn(S, log, x.nonce) =
            [request |-> log[x.token].uri, profile |-> x.profile, key |-> x.holder]
<1> DEFINE c == CHOOSE c \in S : c.nonce = x.nonce
<1>1. c = x
  OBVIOUS
<1>2. OnNonce(S, x.nonce)
  BY DEF OnNonce
<1>3. EntryIn(S, log, x.nonce) =
         [request |-> log[c.token].uri, profile |-> c.profile, key |-> c.holder]
  BY <1>2 DEF EntryIn
<1> QED BY <1>1, <1>3

\* The entry of a nonce stays when its credential and its grant do.
LEMMA EntryKept ==
  ASSUME NEW S, NEW S2, NEW log, NEW log2, NEW n,
         \A x, y \in S : x.nonce = y.nonce => x = y,
         \A x, y \in S2 : x.nonce = y.nonce => x = y,
         \A x \in S : x.nonce = n => x \in S2 /\ log2[x.token] = log[x.token],
         \A x \in S2 : x.nonce = n => x \in S
  PROVE  EntryIn(S2, log2, n) = EntryIn(S, log, n)
<1>1. CASE ~OnNonce(S, n)
  <2>1. ~OnNonce(S2, n)
    BY <1>1 DEF OnNonce
  <2> QED BY <1>1, <2>1, EntryNone
<1>2. ASSUME NEW x \in S, x.nonce = n PROVE EntryIn(S2, log2, n) = EntryIn(S, log, n)
  <2>1. EntryIn(S, log, x.nonce) =
           [request |-> log[x.token].uri, profile |-> x.profile, key |-> x.holder]
    BY EntryOne
  <2>2. x \in S2 /\ log2[x.token] = log[x.token]
    BY <1>2
  <2>3. EntryIn(S2, log2, x.nonce) =
           [request |-> log2[x.token].uri, profile |-> x.profile, key |-> x.holder]
    BY <2>2, EntryOne
  <2> QED BY <1>2, <2>1, <2>2, <2>3
<1> QED BY <1>1, <1>2 DEF OnNonce

\* Credentials, their nonces and their grants are what a handler that touches
\* none of them finds.
LEMMA NonceSideStays ==
  ASSUME RefinementInv, UNCHANGED <<nonces, signing, issued, unsigned>>,
         \A n \in Nonces : n \in drawn' <=> n \in drawn,
         \A t \in Tokens : grants[t] # None => grants'[t] = grants[t]
  PROVE  NonceLedger' = NonceLedger /\ NonceEntry' = NonceEntry
<1>1. Committed' = Committed
  BY DEF Committed
<1>2. ASSUME NEW n \in Nonces PROVE LedgerOf(n)' = LedgerOf(n)
  BY <1>1 DEF LedgerOf, OnNonce
<1>3. ASSUME NEW n \in Nonces
      PROVE  EntryIn(Committed', grants', n) = EntryIn(Committed, grants, n)
  <2>1. \A x \in Committed : grants'[x.token] = grants[x.token]
    BY CommittedType DEF RefinementInv, CredentialHonoursGrant, Commitment
  <2>2. \A x, y \in Committed : x.nonce = y.nonce => x = y
    BY DEF RefinementInv, NonceLedgerInv, NonceBacksOneCredential
  <2> QED BY <1>1, <2>1, <2>2, EntryKept
<1> QED BY <1>2, <1>3 DEF NonceLedger, NonceEntry

\* The phase of a request depends on where it can be found only.
LEMMA PhaseKept ==
  ASSUME NEW u, par_log'[u] = None <=> par_log[u] = None,
         Pending(u)' <=> Pending(u), Granted(u)' <=> Granted(u)
  PROVE  PhaseOf(u)' = PhaseOf(u)
  BY DEF PhaseOf

\* One request moves, the others stay.
LEMMA PhaseMoves ==
  ASSUME NEW u \in ReqUris, NEW p, PhaseOf(u)' = p,
         \A v \in ReqUris \ {u} :
            /\ par_log'[v] = None <=> par_log[v] = None
            /\ Pending(v)' <=> Pending(v)
            /\ Granted(v)' <=> Granted(v)
  PROVE  RequestPhase' = [RequestPhase EXCEPT ![u] = p]
<1>1. \A v \in ReqUris \ {u} : PhaseOf(v)' = PhaseOf(v)
  BY PhaseKept
<1> QED BY <1>1 DEF RequestPhase

\* A handler of the credential endpoint leaves requests where they are.
LEMMA RequestSideStays ==
  ASSUME UNCHANGED <<par_log, grants>>,
         \A u \in ReqUris : (Pending(u)' <=> Pending(u)) /\ (Granted(u)' <=> Granted(u))
  PROVE  RequestPhase' = RequestPhase /\ RequestScope' = RequestScope
         /\ RequestHolder' = RequestHolder
<1>1. \A u \in ReqUris : PhaseOf(u)' = PhaseOf(u)
  BY PhaseKept
<1> QED BY <1>1 DEF RequestPhase, RequestScope, RequestHolder

\* The grants are what they were.
LEMMA GrantedKept ==
  ASSUME UNCHANGED <<grants, tokens>>, NEW u
  PROVE  Granted(u)' <=> Granted(u)
  BY DEF Granted, GrantsIn

-----------------------------------------------------------------------------
(* The invariants the mapping rests on.                                    *)

\* par stores requests under fresh identifiers, with the scope it was asked for
\* (par, main.rs 1102-1165).
THEOREM StepRequests == TypeOK /\ RequestsInv /\ [Next]_vars => RequestsInv'
<1> SUFFICES ASSUME TypeOK, RequestsInv, [Next]_vars PROVE RequestsInv'
  OBVIOUS
<1>1. drawn \subseteq drawn'
  BY LedgerSteps DEF LedgerStep, NonceIssued, CredentialCommitted, Sign, SignFails,
     Restart, Draw
<1>2. ASSUME NEW u \in ReqUris, par_log'[u] # None PROVE u \in drawn'
  <2>1. CASE UNCHANGED par_log
    BY <1>1, <1>2, <2>1 DEF RequestsInv
  <2>2. ASSUME NEW v \in ReqUris, NEW r, Push(v, r) PROVE u \in drawn'
    BY <1>1, <1>2, <2>2 DEF Push, Draw, RequestsInv, TypeOK
  <2> QED
    BY <2>1, <2>2, NotarisedSteps
    DEF NotarisedStep, Notarise, CreateCredentialOffer, BuildTlsnOffer, ParReadsOffer,
        Tick, Restart, history
<1>3. ASSUME NEW r \in par_inflight' PROVE r.scope \in Scopes
  <2>1. ASSUME NEW client, NEW redirect, NEW verifier, NEW scope \in Scopes,
               NEW o \in OfferIds, ParReadsOffer(client, redirect, verifier, scope, o)
        PROVE  r.scope \in Scopes
    BY <1>3, <2>1 DEF ParReadsOffer, Request, RequestsInv
  <2>2. CASE par_inflight' \subseteq par_inflight
    BY <1>3, <2>2 DEF RequestsInv
  <2> QED
    BY <2>1, <2>2, NotarisedSteps
    DEF NotarisedStep, Notarise, CreateCredentialOffer, BuildTlsnOffer, Tick, Restart,
        inflight
<1> QED BY <1>2, <1>3 DEF RequestsInv

\* Everything the mapping rests on holds from the start and in every step.
THEOREM RefinementInvariant ==
    /\ Init => RefinementInv
    /\ RefinementInv /\ [Next]_vars => RefinementInv'
<1>1. Init => RequestsInv /\ CredentialHonoursGrant
  BY DEF Init, Empty, RequestsInv, CredentialHonoursGrant, Committed
<1> QED
  BY <1>1, InitType, StepType, InitNonceLedger, StepNonceLedger, InitAuthorization,
     StepAuthorization, StepCredential, StepRequests
  DEF RefinementInv

\* A process that has just started has promised nothing: its stores map to the
\* initial ledger (VolatileState, main.rs 168-184).
THEOREM InitRefines == Init => Ledger!Init
<1> SUFFICES ASSUME Init PROVE Ledger!Init
  OBVIOUS
<1>1. \A u \in ReqUris : PhaseOf(u) = "none"
  BY DEF Init, Empty, PhaseOf
<1>2. \A u \in ReqUris : HolderIn(grants, u) = None
  <2>1. \A u \in ReqUris : GrantsIn(grants, u) = {}
    BY DEF Init, Empty, GrantsIn
  <2> QED BY <2>1, HolderNone
<1>3. \A n \in Nonces : LedgerOf(n) = "none"
  BY DEF Init, LedgerOf, OnNonce, Committed
<1>4. \A n \in Nonces : EntryIn(Committed, grants, n) = None
  <2>1. \A n \in Nonces : ~OnNonce(Committed, n)
    BY DEF Init, OnNonce, Committed
  <2> QED BY <2>1, EntryNone
<1>5. \A u \in ReqUris : par_log[u] = None
  BY DEF Init, Empty
<1> QED
  BY <1>1, <1>2, <1>3, <1>4, <1>5
  DEF Ledger!Init, Ledger!Empty, RequestPhase, RequestScope, RequestHolder, NonceLedger,
      NonceEntry

-----------------------------------------------------------------------------
(* The steps of an authorization.                                          *)

\* par pushes (main.rs 1102-1165).
LEMMA PushRefines ==
  ASSUME RefinementInv, NEW u \in ReqUris, NEW r \in Pushed,
         Push(u, r), r \in par_inflight \/ r.scope \in Scopes
  PROVE  Ledger!Push(u)
<1> USE DEF RefinementInv
<1>1. /\ u \notin drawn /\ drawn' = drawn \cup {u} /\ par_log[u] = None /\ r # None
      /\ pushed' = [pushed EXCEPT ![u] = r] /\ par_log' = [par_log EXCEPT ![u] = r]
      /\ UNCHANGED <<codes, tokens, grants, authorizing, nonces, signing, issued, unsigned>>
  BY NoneAssumption DEF Push, Draw, RequestsInv
<1>2. r.scope \in Scopes
  BY DEF RequestsInv
<1>3. PhaseOf(u) = "none"
  BY <1>1 DEF PhaseOf
<1>4. PhaseOf(u)' = "pushed"
  <2>1. par_log'[u] # None /\ Pending(u)'
    BY <1>1 DEF TypeOK, Pending
  <2> QED BY <2>1 DEF PhaseOf
<1>5. ASSUME NEW v \in ReqUris \ {u}
      PROVE  /\ par_log'[v] = None <=> par_log[v] = None
             /\ Pending(v)' <=> Pending(v)
             /\ Granted(v)' <=> Granted(v)
  BY <1>1, GrantedKept DEF TypeOK, Pending
<1>6. RequestPhase' = [RequestPhase EXCEPT ![u] = "pushed"]
  BY <1>4, <1>5, PhaseMoves
<1>7. RequestScope' = [RequestScope EXCEPT ![u] = r.scope]
  BY <1>1 DEF RequestScope, TypeOK
<1>8. RequestHolder' = RequestHolder
  BY <1>1 DEF RequestHolder
<1>9. NonceLedger' = NonceLedger /\ NonceEntry' = NonceEntry
  BY <1>1, NoncesApart, NonceSideStays
<1> QED BY <1>2, <1>3, <1>6, <1>7, <1>8, <1>9 DEF Ledger!Push, RequestPhase

\* A request_uri that is consumed is either with its handler or closed
\* (authorize, main.rs 2057-2092).
LEMMA ConsumedRefines ==
  ASSUME RefinementInv, NEW u \in ReqUris, par_log[u] # None, Pending(u), ~Pending(u)',
         NotGranted(u),
         \A v \in ReqUris \ {u} : Pending(v)' <=> Pending(v),
         UNCHANGED <<par_log, grants, tokens, drawn, nonces, signing, issued, unsigned>>
  PROVE  Ledger!Close(u)
<1>1. PhaseOf(u) = "pushed"
  BY DEF PhaseOf
<1>2. PhaseOf(u)' = "closed"
  <2>1. ~Granted(u)'
    BY DEF NotGranted, Granted, GrantsIn
  <2> QED BY <2>1 DEF PhaseOf
<1>3. RequestPhase' = [RequestPhase EXCEPT ![u] = "closed"]
  BY <1>2, PhaseMoves, GrantedKept
<1>4. RequestScope' = RequestScope /\ RequestHolder' = RequestHolder
  BY DEF RequestScope, RequestHolder
<1>5. NonceLedger' = NonceLedger /\ NonceEntry' = NonceEntry
  BY NonceSideStays
<1> QED BY <1>1, <1>3, <1>4, <1>5 DEF Ledger!Close, RequestPhase

\* authorize for another client consumes the request (main.rs 2061-2070).
LEMMA MismatchRefines ==
  ASSUME RefinementInv, NEW u \in ReqUris, NEW client, AuthorizeMismatch(u, client)
  PROVE  Ledger!Close(u)
<1> USE DEF RefinementInv
<1>1. /\ pushed[u] # None /\ pushed' = [pushed EXCEPT ![u] = None]
      /\ UNCHANGED <<par_log, grants, tokens, drawn, nonces, signing, issued, unsigned,
                     authorizing, codes>>
  BY DEF AuthorizeMismatch, RemovePushed, inflight, history
<1>2. /\ par_log[u] # None /\ NotCoded(u) /\ NotGranted(u)
      /\ \A a \in authorizing : a.uri # u
  BY <1>1 DEF AuthorizationInv, PushedInv
<1>3. Pending(u) /\ ~Pending(u)'
  BY <1>1, <1>2 DEF Pending, NotCoded, TypeOK
<1>4. \A v \in ReqUris \ {u} : Pending(v)' <=> Pending(v)
  BY <1>1 DEF Pending, TypeOK
<1> QED BY <1>1, <1>2, <1>3, <1>4, ConsumedRefines

\* A client that hangs up while authorize holds its request closes it.
LEMMA HangUpRefines ==
  ASSUME RefinementInv, ClientHangsUp
  PROVE  (\E u \in ReqUris : Ledger!Close(u)) \/ UNCHANGED Ledger!ledgerVars
<1> USE DEF RefinementInv
<1>1. UNCHANGED <<pushed, par_log, grants, tokens, drawn, nonces, signing, issued,
                  unsigned, codes>>
  BY DEF ClientHangsUp, stores, history
<1>2. CASE UNCHANGED authorizing
  <2>1. \A u \in ReqUris : (Pending(u)' <=> Pending(u)) /\ (Granted(u)' <=> Granted(u))
    BY <1>1, <1>2, GrantedKept DEF Pending
  <2> QED BY <1>1, <2>1, RequestSideStays, NonceSideStays DEF Ledger!ledgerVars
<1>3. ASSUME NEW a \in authorizing, authorizing' = authorizing \ {a}
      PROVE  Ledger!Close(a.uri) /\ a.uri \in ReqUris
  <2>1. /\ a.uri \in ReqUris /\ a.par \in Pushed /\ a.par = par_log[a.uri]
        /\ NotCoded(a.uri) /\ NotGranted(a.uri)
        /\ \A b \in authorizing : a.uri = b.uri => a = b
        /\ pushed[a.uri] = None
    BY DEF TypeOK, AuthorizationInv, AuthorizingInv, PushedInv
  <2>2. par_log[a.uri] # None
    BY <2>1, NoneAssumption
  <2>3. ASSUME NEW u, u = a.uri PROVE Pending(u) /\ ~Pending(u)'
    BY <1>1, <1>3, <2>1, <2>3 DEF Pending, NotCoded
  <2>4. \A v \in ReqUris \ {a.uri} : Pending(v)' <=> Pending(v)
    BY <1>1, <1>3 DEF Pending
  <2>5. ASSUME NEW u \in ReqUris, u = a.uri PROVE Ledger!Close(u)
    BY <1>1, <2>1, <2>2, <2>3, <2>4, <2>5, ConsumedRefines
  <2> QED BY <2>1, <2>5
<1> QED BY <1>2, <1>3 DEF ClientHangsUp

\* A request on its way through authorize stays pushed (main.rs 2061-2092).
LEMMA AuthorizeStays ==
  ASSUME RefinementInv,
         \/ \E u \in ReqUris, client \in Clients : AuthorizeTakes(u, client)
         \/ \E c \in Codes, a \in authorizing : AuthorizeStores(c, a)
  PROVE  UNCHANGED Ledger!ledgerVars
<1> USE DEF RefinementInv
<1>1. ASSUME NEW u \in ReqUris, NEW client, AuthorizeTakes(u, client)
      PROVE  UNCHANGED Ledger!ledgerVars
  <2> DEFINE taken == [uri |-> u, par |-> pushed[u]]
  <2>1. /\ pushed[u] # None /\ pushed' = [pushed EXCEPT ![u] = None]
        /\ authorizing' = authorizing \cup {taken} /\ taken.uri = u
        /\ UNCHANGED <<par_log, grants, tokens, drawn, nonces, signing, issued, unsigned,
                       codes>>
    BY <1>1 DEF AuthorizeTakes, RemovePushed, history
  <2> HIDE DEF taken
  <2>2. \A v \in ReqUris : Pending(v)' <=> Pending(v)
    BY <2>1 DEF Pending, TypeOK
  <2> QED BY <2>1, <2>2, GrantedKept, RequestSideStays, NonceSideStays DEF Ledger!ledgerVars
<1>2. ASSUME NEW c \in Codes, NEW a \in authorizing, AuthorizeStores(c, a)
      PROVE  UNCHANGED Ledger!ledgerVars
  <2> DEFINE code == [client |-> a.par.client, redirect |-> a.par.redirect,
                      challenge |-> a.par.challenge, scope |-> a.par.scope,
                      tlsn |-> a.par.tlsn, consumed |-> FALSE, uri |-> a.uri]
  <2>1. /\ c \notin drawn /\ drawn' = drawn \cup {c}
        /\ authorizing' = authorizing \ {a} /\ codes' = [codes EXCEPT ![c] = code]
        /\ UNCHANGED <<pushed, par_log, grants, tokens, nonces, signing, issued, unsigned>>
    BY <1>2 DEF AuthorizeStores, Draw, history
  <2>2. code # None /\ code.uri = a.uri /\ ~code.consumed
    <3>1. a.uri \in ReqUris /\ a.par \in Pushed
      BY DEF TypeOK
    <3>2. code \in Code
      BY <3>1 DEF Pushed, Code
    <3> QED BY <3>2, NoneAssumption
  <2> HIDE DEF code
  <2>3. codes[c] = None
    BY <2>1 DEF AuthorizationInv, CodesInv
  <2>4. \A v \in ReqUris : Pending(v)' <=> Pending(v)
    BY <2>1, <2>2, <2>3 DEF Pending, TypeOK
  <2> QED
    BY <2>1, <2>4, NoncesApart, GrantedKept, RequestSideStays, NonceSideStays
    DEF Ledger!ledgerVars
<1> QED BY <1>1, <1>2

\* token grants (main.rs 2095-2172).
LEMMA TokenRefines ==
  ASSUME RefinementInv, NEW t \in Tokens, NEW c \in Codes, NEW jti, NEW key \in Keys,
         NEW client, NEW redirect, NEW verifier,
         TokenGranted(t, c, jti, key, client, redirect, verifier)
  PROVE  \E u \in ReqUris : Ledger!Grant(u)
<1> DEFINE u == codes[c].uri
           g == [code |-> c, uri |-> u, client |-> client, redirect |-> redirect,
                 verifier |-> verifier, jkt |-> key, at |-> clock]
           token == [scope |-> codes[c].scope, dpop_jkt |-> key, tlsn |-> codes[c].tlsn]
<1> USE DEF RefinementInv
<1>1. /\ codes[c] # None /\ ~codes[c].consumed /\ codes[c] \in Code
      /\ codes[c].client = client /\ codes[c].redirect = redirect
      /\ codes[c].challenge = verifier
      /\ t \notin drawn /\ drawn' = drawn \cup {t}
      /\ codes' = [codes EXCEPT ![c].consumed = TRUE]
      /\ tokens' = [tokens EXCEPT ![t] = token]
      /\ grants' = [grants EXCEPT ![t] = g]
      /\ UNCHANGED <<pushed, authorizing, par_log, nonces, signing, issued, unsigned>>
  BY DEF TokenGranted, CodeAdmits, Draw, inflight, TypeOK
<1>2. /\ u \in ReqUris /\ par_log[u] # None /\ NotGranted(u)
      /\ pushed[u] = None /\ \A a \in authorizing : a.uri # u
      /\ \A d \in Codes : codes[d] # None /\ codes[d].uri = u => d = c
      /\ grants[t] = None
  BY <1>1 DEF Code, AuthorizationInv, CodesInv, PushedInv, AuthorizingInv, GrantsInv,
     NotCoded
<1>3. token # None /\ g # None /\ g.uri = u /\ g.jkt = key
  BY <1>1, <1>2, NoneAssumption DEF AccessToken, Grant, Code, TypeOK
<1> SUFFICES ASSUME NEW v \in ReqUris, v = u PROVE Ledger!Grant(v)
  BY <1>2
<1> HIDE DEF g, token
<1>4. \A w \in ReqUris \ {v} :
         Pending(w)' <=> Pending(w)
  BY <1>1 DEF Pending, Code, TypeOK
<1>5. Pending(v) /\ ~Pending(v)'
  BY <1>1, <1>2 DEF Pending, Code, TypeOK
<1>6. /\ GrantsIn(grants', v) = {t}
      /\ \A w \in ReqUris \ {v} : GrantsIn(grants', w) = GrantsIn(grants, w)
      /\ \A w \in ReqUris : t \notin GrantsIn(grants, w)
  BY <1>1, <1>2, <1>3 DEF GrantsIn, NotGranted, TypeOK
<1>7. Granted(v)'
  BY <1>1, <1>3, <1>6 DEF Granted, TypeOK
<1>8. \A w \in ReqUris \ {v} : Granted(w)' <=> Granted(w)
  BY <1>1, <1>6 DEF Granted, GrantsIn, TypeOK
<1>9. PhaseOf(v) = "pushed"
  BY <1>2, <1>5 DEF PhaseOf
<1>10. PhaseOf(v)' = "granted"
  BY <1>1, <1>2, <1>5, <1>7 DEF PhaseOf
<1>11. RequestPhase' = [RequestPhase EXCEPT ![v] = "granted"]
  BY <1>1, <1>4, <1>8, <1>10, PhaseMoves
<1>12. RequestHolder' = [RequestHolder EXCEPT ![v] = key]
  <2>1. HolderIn(grants', v) = key
    <3>1. HolderIn(grants', v) = grants'[t].jkt
      BY <1>6, HolderOne
    <3>2. grants'[t] = g
      BY <1>1 DEF TypeOK
    <3> QED BY <1>3, <3>1, <3>2
  <2>2. ASSUME NEW w \in ReqUris \ {v} PROVE HolderIn(grants', w) = HolderIn(grants, w)
    <3>1. \A s \in GrantsIn(grants, w) : grants'[s] = grants[s]
      BY <1>1, <1>6 DEF GrantsIn, TypeOK
    <3> QED BY <1>6, <3>1, HolderKept
  <2> QED BY <2>1, <2>2 DEF RequestHolder
<1>13. RequestScope' = RequestScope
  BY <1>1 DEF RequestScope
<1>14. NonceLedger' = NonceLedger /\ NonceEntry' = NonceEntry
  <2>1. \A s \in Tokens : grants[s] # None => grants'[s] = grants[s]
    BY <1>1, <1>2 DEF TypeOK
  <2> QED BY <1>1, <2>1, NoncesApart, NonceSideStays
<1> QED BY <1>9, <1>11, <1>12, <1>13, <1>14 DEF Ledger!Grant, RequestPhase

-----------------------------------------------------------------------------
(* The steps of a nonce.                                                   *)

\* The life of a nonce, by who holds a credential on it.
LEMMA LedgerIs ==
  ASSUME NonceLedgerInv, NEW n \in Nonces
  PROVE  /\ OnNonce(signing, n) => LedgerOf(n) = "pending"
         /\ OnNonce(issued, n) => LedgerOf(n) = "signed"
         /\ OnNonce(unsigned, n) => LedgerOf(n) = "lost"
         /\ nonces[n] = "unused" => LedgerOf(n) = "offered"
         /\ ~OnNonce(Committed, n) /\ nonces[n] # "unused" =>
               LedgerOf(n) = IF n \in drawn THEN "void" ELSE "none"
<1>1. \A x, y \in Committed : x.nonce = y.nonce => x = y
  BY DEF NonceLedgerInv, NonceBacksOneCredential
<1>2. /\ signing \cap issued = {} /\ signing \cap unsigned = {}
      /\ issued \cap unsigned = {}
  BY DEF NonceLedgerInv, NonceLedgerExact
<1>3. nonces[n] = "unused" => ~OnNonce(Committed, n)
  BY DEF NonceLedgerInv, OnNonce
<1>4. OnNonce(signing, n) => ~OnNonce(issued, n) /\ ~OnNonce(unsigned, n)
  BY <1>1, <1>2 DEF OnNonce, Committed
<1>5. OnNonce(issued, n) => ~OnNonce(unsigned, n)
  BY <1>1, <1>2 DEF OnNonce, Committed
<1>6. OnNonce(Committed, n) <=> OnNonce(signing, n) \/ OnNonce(issued, n) \/ OnNonce(unsigned, n)
  BY DEF OnNonce, Committed
<1> QED BY <1>3, <1>4, <1>5, <1>6 DEF LedgerOf

\* nonce offers a nonce nobody was offered (main.rs 2174-2188).
LEMMA OfferRefines ==
  ASSUME RefinementInv, NEW n \in Nonces, NonceIssued(n)
  PROVE  Ledger!Offer(n)
<1> USE DEF RefinementInv
<1>1. /\ n \notin drawn /\ drawn' = drawn \cup {n}
      /\ nonces' = [nonces EXCEPT ![n] = "unused"]
      /\ UNCHANGED <<par_log, grants, tokens, pushed, authorizing, codes,
                     signing, issued, unsigned>>
  BY DEF NonceIssued, Draw, inflight, history
<1>2. nonces[n] # "unused" /\ ~OnNonce(Committed, n)
  BY <1>1 DEF NonceLedgerInv, TypeOK, OnNonce
<1>3. LedgerOf(n) = "none"
  BY <1>1, <1>2, LedgerIs
<1>4. LedgerOf(n)' = "offered"
  <2>1. nonces'[n] = "unused"
    BY <1>1 DEF TypeOK
  <2>2. ~OnNonce(signing', n) /\ ~OnNonce(issued', n) /\ ~OnNonce(unsigned', n)
    BY <1>1, <1>2 DEF OnNonce, Committed
  <2> QED BY <2>1, <2>2 DEF LedgerOf
<1>5. ASSUME NEW m \in Nonces \ {n} PROVE LedgerOf(m)' = LedgerOf(m)
  BY <1>1 DEF LedgerOf, TypeOK, Committed
<1>6. NonceLedger' = [NonceLedger EXCEPT ![n] = "offered"]
  BY <1>4, <1>5 DEF NonceLedger
<1>7. NonceEntry' = NonceEntry
  BY <1>1 DEF NonceEntry, Committed
<1>8. RequestPhase' = RequestPhase /\ RequestScope' = RequestScope
      /\ RequestHolder' = RequestHolder
  BY <1>1, GrantedKept, RequestSideStays DEF Pending
<1> QED BY <1>3, <1>6, <1>7, <1>8 DEF Ledger!Offer, NonceLedger

\* A request with a token is granted, and held by the key of its token.
LEMMA TokenIsGrant ==
  ASSUME RefinementInv, NEW t \in Tokens, tokens[t] # None
  PROVE  /\ grants[t].uri \in ReqUris /\ PhaseOf(grants[t].uri) = "granted"
         /\ HolderIn(grants, grants[t].uri) = grants[t].jkt
         /\ par_log[grants[t].uri] # None
         /\ tokens[t].scope = par_log[grants[t].uri].scope
         /\ tokens[t].dpop_jkt = grants[t].jkt
<1> USE DEF RefinementInv
<1>1. grants[t] # None
  BY DEF AuthorizationInv, GrantsInv
<1>2. /\ grants[t].uri \in ReqUris /\ par_log[grants[t].uri] # None
      /\ tokens[t].scope = par_log[grants[t].uri].scope
      /\ tokens[t].dpop_jkt = grants[t].jkt
  BY <1>1, GrantedUri DEF AuthorizationInv, GrantHonoursPar
<1>3. ASSUME NEW u \in ReqUris, u = grants[t].uri PROVE PhaseOf(u) = "granted"
  <2>1. ~NotGranted(u)
    BY <1>1, <1>3 DEF NotGranted
  <2>2. ~Pending(u)
    BY <2>1 DEF Pending, AuthorizationInv, PushedInv, AuthorizingInv, CodesInv
  <2>3. Granted(u)
    BY <1>1, <1>3 DEF Granted, GrantsIn
  <2> QED BY <1>2, <1>3, <2>2, <2>3 DEF PhaseOf
<1>4. GrantsIn(grants, grants[t].uri) = {t}
  BY <1>1 DEF GrantsIn, AuthorizationInv, CodeRedeemedOnce
<1> QED BY <1>2, <1>3, <1>4, HolderOne

\* credential commits (main.rs 2190-2387).
LEMMA CommitRefines ==
  ASSUME RefinementInv, NEW jti \in Jtis, NEW t \in Tokens, NEW p \in ScopeProfiles,
         NEW key \in Keys, NEW holder \in Keys, NEW n \in Nonces,
         NEW pid \in PidBindings \cup {None}, NEW chip \in Attestations \cup {None},
         CredentialCommitted(jti, t, p, key, holder, n, pid, chip)
  PROVE  Ledger!Commit(n)
<1> DEFINE x == [token |-> t, profile |-> p, holder |-> holder, nonce |-> n,
                 tlsn |-> tokens[t].tlsn, pid |-> pid, chip |-> chip,
                 at |-> clock, boot |-> boot]
           u == grants[t].uri
<1> USE DEF RefinementInv
<1>1. /\ tokens[t] # None /\ tokens[t].dpop_jkt = holder /\ p \in tokens[t].scope
      /\ nonces[n] = "unused" /\ nonces' = [nonces EXCEPT ![n] = "used"]
      /\ signing' = signing \cup {x}
      /\ UNCHANGED <<par_log, grants, tokens, pushed, authorizing, codes, drawn,
                     issued, unsigned>>
  BY DEF CredentialCommitted, AccessAdmits, ConsumeNonce
<1>2. x.token = t /\ x.profile = p /\ x.holder = holder /\ x.nonce = n
  OBVIOUS
<1> HIDE DEF x
<1>3. /\ u \in ReqUris /\ RequestPhase[u] = "granted" /\ RequestHolder[u] = holder
      /\ p \in RequestScope[u]
  BY <1>1, TokenIsGrant DEF RequestPhase, RequestHolder, RequestScope
<1>4. ~OnNonce(Committed, n)
  BY <1>1 DEF NonceLedgerInv, OnNonce
<1>5. Committed' = Committed \cup {x}
  BY <1>1 DEF Committed
<1>6. NonceLedger[n] = "offered"
  BY <1>1, LedgerIs DEF NonceLedger
<1>7. LedgerOf(n)' = "pending"
  <2>1. OnNonce(signing, n)'
    BY <1>1, <1>2 DEF OnNonce
  <2>2. /\ ~OnNonce(issued, n)' /\ ~OnNonce(unsigned, n)' /\ nonces'[n] = "used"
        /\ OnNonce(Committed, n)'
    BY <1>1, <1>2, <1>4, <1>5 DEF OnNonce, Committed, TypeOK
  <2> QED BY <2>1, <2>2 DEF LedgerOf, OnNonce
<1>8. ASSUME NEW m \in Nonces \ {n} PROVE LedgerOf(m)' = LedgerOf(m)
  <2>1. OnNonce(signing, m)' <=> OnNonce(signing, m)
    BY <1>1, <1>2, <1>8 DEF OnNonce
  <2>2. OnNonce(Committed, m)' <=> OnNonce(Committed, m)
    BY <1>2, <1>5, <1>8 DEF OnNonce
  <2>3. nonces'[m] = nonces[m]
    BY <1>1, <1>8 DEF TypeOK
  <2>4. OnNonce(issued, m)' <=> OnNonce(issued, m)
    BY <1>1 DEF OnNonce
  <2>5. OnNonce(unsigned, m)' <=> OnNonce(unsigned, m)
    BY <1>1 DEF OnNonce
  <2> QED BY <1>1, <2>1, <2>2, <2>3, <2>4, <2>5 DEF LedgerOf, OnNonce
<1>9. NonceLedger' = [NonceLedger EXCEPT ![n] = "pending"]
  BY <1>7, <1>8 DEF NonceLedger
<1>10. \A y, z \in Committed' : y.nonce = z.nonce => y = z
  BY <1>2, <1>4, <1>5 DEF NonceLedgerInv, NonceBacksOneCredential, OnNonce
<1>11. EntryIn(Committed', grants', n) = [request |-> u, profile |-> p, key |-> holder]
  <2>1. EntryIn(Committed', grants', x.nonce) =
           [request |-> grants'[x.token].uri, profile |-> x.profile, key |-> x.holder]
    BY <1>5, <1>10, EntryOne
  <2> QED BY <1>1, <1>2, <2>1
<1>12. ASSUME NEW m \in Nonces \ {n}
       PROVE  EntryIn(Committed', grants', m) = EntryIn(Committed, grants, m)
  <2>1. \A y, z \in Committed : y.nonce = z.nonce => y = z
    BY DEF NonceLedgerInv, NonceBacksOneCredential
  <2>2. \A y \in Committed : y \in Committed' /\ grants'[y.token] = grants[y.token]
    BY <1>1, <1>5
  <2>3. \A y \in Committed' : y.nonce = m => y \in Committed
    BY <1>2, <1>5, <1>12
  <2> QED BY <1>10, <2>1, <2>2, <2>3, EntryKept
<1>13. NonceEntry' = [NonceEntry EXCEPT ![n] =
                         [request |-> u, profile |-> p, key |-> RequestHolder[u]]]
  BY <1>3, <1>11, <1>12 DEF NonceEntry
<1>14. RequestPhase' = RequestPhase /\ RequestScope' = RequestScope
       /\ RequestHolder' = RequestHolder
  BY <1>1, GrantedKept, RequestSideStays DEF Pending
<1> QED BY <1>3, <1>6, <1>9, <1>13, <1>14 DEF Ledger!Commit

\* The credential that was committed is signed or lost (main.rs 2388-2518).
LEMMA SettleRefines ==
  ASSUME RefinementInv, NEW x \in signing, Sign(x) \/ SignFails(x)
  PROVE  \E n \in Nonces : Ledger!Settle(n)
<1> USE DEF RefinementInv
<1>1. /\ x \in Committed /\ x.nonce \in Nonces /\ x \notin issued /\ x \notin unsigned
      /\ nonces[x.nonce] # "unused"
  BY CommittedType DEF Committed, NonceLedgerInv, NonceLedgerExact
<1>2. /\ signing' = signing \ {x}
      /\ \/ issued' = issued \cup {x} /\ unsigned' = unsigned
         \/ unsigned' = unsigned \cup {x} /\ issued' = issued
      /\ UNCHANGED <<par_log, grants, tokens, pushed, authorizing, codes, drawn, nonces>>
  BY DEF Sign, SignFails, stores
<1>3. Committed' = Committed
  BY <1>2 DEF Committed
<1>4. \A y \in Committed : y.nonce = x.nonce => y = x
  BY <1>1 DEF NonceLedgerInv, NonceBacksOneCredential
<1> SUFFICES ASSUME NEW n \in Nonces, n = x.nonce PROVE Ledger!Settle(n)
  BY <1>1
<1>5. NonceLedger[n] = "pending"
  <2>1. OnNonce(signing, n)
    BY DEF OnNonce
  <2> QED BY <2>1, LedgerIs DEF NonceLedger
<1>6. LedgerOf(n)' \in {"signed", "lost"}
  <2>1. ~OnNonce(signing, n)' /\ OnNonce(Committed, n)' /\ nonces'[n] # "unused"
    BY <1>1, <1>2, <1>3, <1>4 DEF OnNonce, Committed
  <2>2. \/ OnNonce(issued, n)' /\ ~OnNonce(unsigned, n)'
        \/ OnNonce(unsigned, n)' /\ ~OnNonce(issued, n)'
    BY <1>1, <1>2, <1>4 DEF OnNonce, Committed
  <2> QED BY <2>1, <2>2 DEF LedgerOf, OnNonce
<1>7. ASSUME NEW m \in Nonces \ {n} PROVE LedgerOf(m)' = LedgerOf(m)
  <2>1. /\ OnNonce(signing, m)' <=> OnNonce(signing, m)
        /\ OnNonce(issued, m)' <=> OnNonce(issued, m)
        /\ OnNonce(unsigned, m)' <=> OnNonce(unsigned, m)
        /\ OnNonce(Committed, m)' <=> OnNonce(Committed, m)
    BY <1>2, <1>3, <1>7 DEF OnNonce
  <2> QED BY <1>2, <2>1 DEF LedgerOf, OnNonce
<1>8. NonceLedger' = [NonceLedger EXCEPT ![n] = LedgerOf(n)']
  BY <1>7 DEF NonceLedger
<1>9. NonceEntry' = NonceEntry
  BY <1>2, <1>3 DEF NonceEntry
<1>10. RequestPhase' = RequestPhase /\ RequestScope' = RequestScope
       /\ RequestHolder' = RequestHolder
  BY <1>2, GrantedKept, RequestSideStays DEF Pending
<1> QED BY <1>5, <1>6, <1>8, <1>9, <1>10 DEF Ledger!Settle

\* A restart closes what was under way and forgets no entry (VolatileState,
\* main.rs 168-184).
LEMMA RestartRefines ==
  ASSUME RefinementInv, Restart
  PROVE  Ledger!Restart
<1> USE DEF RefinementInv
<1>1. /\ pushed' = Empty(ReqUris) /\ codes' = Empty(Codes) /\ tokens' = Empty(Tokens)
      /\ authorizing' = {} /\ signing' = {} /\ unsigned' = unsigned \cup signing
      /\ nonces' = [n \in Nonces |-> "unknown"]
      /\ UNCHANGED <<drawn, par_log, grants, issued>>
  BY DEF Restart
<1>2. Committed' = Committed
  BY <1>1 DEF Committed
<1>3. ASSUME NEW u \in ReqUris
      PROVE  PhaseOf(u)' = IF PhaseOf(u) = "none" THEN "none" ELSE "closed"
  <2>1. ~Pending(u)' /\ ~Granted(u)'
    BY <1>1 DEF Pending, Granted, GrantsIn, Empty
  <2>2. PhaseOf(u) = "none" <=> par_log[u] = None
    BY DEF PhaseOf
  <2> QED BY <1>1, <2>1, <2>2 DEF PhaseOf
<1>4. ASSUME NEW n \in Nonces
      PROVE  LedgerOf(n)' = CASE LedgerOf(n) = "offered" -> "void"
                              [] LedgerOf(n) = "pending" -> "lost"
                              [] OTHER -> LedgerOf(n)
  <2>1. ~OnNonce(signing, n)' /\ nonces'[n] # "unused"
    BY <1>1 DEF OnNonce
  <2>2. /\ OnNonce(issued, n)' <=> OnNonce(issued, n)
        /\ OnNonce(unsigned, n)' <=> OnNonce(unsigned, n) \/ OnNonce(signing, n)
        /\ OnNonce(Committed, n)' <=> OnNonce(Committed, n)
    BY <1>1, <1>2 DEF OnNonce
  <2>3. /\ OnNonce(Committed, n) <=>
              OnNonce(signing, n) \/ OnNonce(issued, n) \/ OnNonce(unsigned, n)
        /\ OnNonce(issued, n) => ~OnNonce(unsigned, n) /\ ~OnNonce(signing, n)
        /\ nonces[n] = "unused" => n \in drawn /\ ~OnNonce(Committed, n)
    <3>1. \A x, y \in Committed : x.nonce = y.nonce => x = y
      BY DEF NonceLedgerInv, NonceBacksOneCredential
    <3>2. issued \cap unsigned = {} /\ signing \cap issued = {}
      BY DEF NonceLedgerInv, NonceLedgerExact
    <3> QED BY <3>1, <3>2 DEF OnNonce, Committed, NonceLedgerInv
  <2>4. CASE OnNonce(signing, n)
    <3>1. LedgerOf(n) = "pending"
      BY <2>4, LedgerIs
    <3>2. LedgerOf(n)' = "lost"
      BY <2>1, <2>2, <2>3, <2>4 DEF LedgerOf, OnNonce
    <3> QED BY <3>1, <3>2
  <2>5. CASE OnNonce(issued, n)
    <3>1. LedgerOf(n) = "signed"
      BY <2>5, LedgerIs
    <3>2. LedgerOf(n)' = "signed"
      BY <2>1, <2>2, <2>3, <2>5 DEF LedgerOf, OnNonce
    <3> QED BY <3>1, <3>2
  <2>6. CASE OnNonce(unsigned, n)
    <3>1. LedgerOf(n) = "lost"
      BY <2>6, LedgerIs
    <3>2. LedgerOf(n)' = "lost"
      BY <2>1, <2>2, <2>3, <2>6 DEF LedgerOf, OnNonce
    <3> QED BY <3>1, <3>2
  <2>7. CASE ~OnNonce(Committed, n)
    <3>1. LedgerOf(n)' = IF n \in drawn THEN "void" ELSE "none"
      BY <1>1, <2>1, <2>2, <2>3, <2>7 DEF LedgerOf, OnNonce
    <3>2. CASE nonces[n] = "unused"
      <4>1. LedgerOf(n) = "offered"
        BY <3>2, LedgerIs
      <4> QED BY <2>3, <3>1, <3>2, <4>1
    <3>3. CASE nonces[n] # "unused"
      <4>1. LedgerOf(n) = IF n \in drawn THEN "void" ELSE "none"
        BY <2>7, <3>3, LedgerIs
      <4> QED BY <3>1, <4>1
    <3> QED BY <3>2, <3>3
  <2> QED BY <2>3, <2>4, <2>5, <2>6, <2>7
<1>5. RequestPhase' = [u \in ReqUris |-> IF RequestPhase[u] = "none" THEN "none"
                                         ELSE "closed"]
  BY <1>3 DEF RequestPhase
<1>6. NonceLedger' = [n \in Nonces |-> CASE NonceLedger[n] = "offered" -> "void"
                                         [] NonceLedger[n] = "pending" -> "lost"
                                         [] OTHER -> NonceLedger[n]]
  BY <1>4 DEF NonceLedger
<1>7. /\ RequestScope' = RequestScope /\ RequestHolder' = RequestHolder
      /\ NonceEntry' = NonceEntry
  BY <1>1, <1>2 DEF RequestScope, RequestHolder, NonceEntry
<1> QED BY <1>5, <1>6, <1>7 DEF Ledger!Restart

-----------------------------------------------------------------------------
(* Every step.                                                             *)

\* A step of any handler, of the clock or of the process is a step of the ledger
\* or leaves it alone (main.rs 1102-2518).
THEOREM StepRefines ==
    RefinementInv /\ [Next]_vars => [Ledger!Next]_(Ledger!ledgerVars)
<1> SUFFICES ASSUME RefinementInv, [Next]_vars
             PROVE  Ledger!Next \/ UNCHANGED Ledger!ledgerVars
  OBVIOUS
<1>1. CASE UNCHANGED <<pushed, par_log, authorizing, codes, tokens, grants>>
  <2>1. UNCHANGED <<RequestPhase, RequestScope, RequestHolder>>
    BY <1>1, GrantedKept, RequestSideStays DEF Pending
  <2>2. CASE /\ UNCHANGED <<boot, nonces, signing, issued, unsigned>>
             /\ drawn \subseteq drawn'
             /\ drawn' \subseteq drawn \cup OfferIds \cup ReqUris \cup Codes \cup Tokens
    <3>1. \A n \in Nonces : n \in drawn' <=> n \in drawn
      BY <2>2, NoncesApart
    <3>2. NonceLedger' = NonceLedger /\ NonceEntry' = NonceEntry
      BY <1>1, <2>2, <3>1, NonceSideStays
    <3> QED BY <2>1, <3>2 DEF Ledger!ledgerVars
  <2>3. ASSUME NEW n \in Nonces, NonceIssued(n) PROVE Ledger!Next
    BY <2>3, OfferRefines DEF Ledger!Next
  <2>4. ASSUME NEW jti \in Jtis, NEW t \in Tokens, NEW p \in ScopeProfiles,
               NEW key \in Keys, NEW holder \in Keys, NEW n \in Nonces,
               NEW pid \in PidBindings \cup {None}, NEW chip \in Attestations \cup {None},
               CredentialCommitted(jti, t, p, key, holder, n, pid, chip)
        PROVE  Ledger!Next
    BY <2>4, CommitRefines DEF Ledger!Next
  <2>5. ASSUME NEW x \in signing, Sign(x) \/ SignFails(x) PROVE Ledger!Next
    BY <2>5, SettleRefines DEF Ledger!Next
  <2>6. CASE Restart
    BY <2>6, RestartRefines DEF Ledger!Next
  <2> QED BY <2>2, <2>3, <2>4, <2>5, <2>6, LedgerSteps DEF LedgerStep
<1>2. ASSUME NEW u \in ReqUris, NEW r \in Pushed, Push(u, r),
             r \in par_inflight \/ r.scope \in Scopes
      PROVE  Ledger!Next
  BY <1>2, PushRefines DEF Ledger!Next
<1>3. ASSUME NEW u \in ReqUris, NEW client, AuthorizeMismatch(u, client)
      PROVE  Ledger!Next
  BY <1>3, MismatchRefines DEF Ledger!Next
<1>4. CASE \/ \E u \in ReqUris, client \in Clients : AuthorizeTakes(u, client)
           \/ \E c \in Codes, a \in authorizing : AuthorizeStores(c, a)
  BY <1>4, AuthorizeStays
<1>5. CASE ClientHangsUp
  BY <1>5, HangUpRefines DEF Ledger!Next
<1>6. ASSUME NEW t \in Tokens, NEW c \in Codes, NEW jti, NEW key \in Keys, NEW client,
             NEW redirect, NEW verifier,
             TokenGranted(t, c, jti, key, client, redirect, verifier)
      PROVE  Ledger!Next
  BY <1>6, TokenRefines DEF Ledger!Next
<1>7. CASE Restart
  BY <1>7, RestartRefines DEF Ledger!Next
<1>8. TypeOK
  BY DEF RefinementInv
<1> QED
  BY <1>1, <1>2, <1>3, <1>4, <1>5, <1>6, <1>7, <1>8, AuthorizationSteps
  DEF AuthorizationStep

\* The issuance flow implements the ledger: an authorization is granted once to
\* one key, a nonce backs one credential inside that grant, and hang-ups, signer
\* failures and restarts take nothing back (main.rs 1102-1165 and 2057-2518).
THEOREM FlowImplementsLedger == Spec => LedgerSpec
<1>1. RefinementInv /\ [Next]_vars => [Ledger!Next]_(Ledger!ledgerVars)
  BY StepRefines
<1> QED
  BY <1>1, InitRefines, RefinementInvariant, PTL DEF Spec, LedgerSpec, Ledger!LedgerSpec
=============================================================================
