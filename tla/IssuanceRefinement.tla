------------------------- MODULE IssuanceRefinement -------------------------
(***************************************************************************)
(* IssuanceFlow implements IssuanceLedger: where in the stores, the        *)
(* handlers under way and the history the state of the ledger is found.    *)
(***************************************************************************)
EXTENDS IssuanceFlow

\* Identifiers are random: a nonce is no other identifier.
ASSUME NoncesApart == Nonces \cap (OfferIds \cup ReqUris \cup Codes \cup Tokens) = {}

\* Where a request_uri can still be found, on its way to a token.
Pending(u) ==
    \/ pushed[u] # None
    \/ \E a \in authorizing : a.uri = u
    \/ \E c \in Codes : codes[c] # None /\ codes[c].uri = u /\ ~codes[c].consumed

\* The grants of log that answer a request_uri, and the key they were made to.
GrantsIn(log, u) == {t \in Tokens : log[t] # None /\ log[t].uri = u}

HolderIn(log, u) ==
    IF GrantsIn(log, u) = {} THEN None
    ELSE log[CHOOSE t \in GrantsIn(log, u) : TRUE].jkt

\* A granted request lasts as long as its token.
Granted(u) == \E t \in GrantsIn(grants, u) : tokens[t] # None

PhaseOf(u) ==
    CASE par_log[u] = None -> "none"
      [] par_log[u] # None /\ Pending(u) -> "pushed"
      [] par_log[u] # None /\ ~Pending(u) /\ Granted(u) -> "granted"
      [] par_log[u] # None /\ ~Pending(u) /\ ~Granted(u) -> "closed"

OnNonce(S, n) == \E c \in S : c.nonce = n

LedgerOf(n) ==
    CASE OnNonce(signing, n) -> "pending"
      [] OnNonce(issued, n) -> "signed"
      [] OnNonce(unsigned, n) -> "lost"
      [] nonces[n] = "unused" -> "offered"
      [] nonces[n] # "unused" /\ ~OnNonce(Committed, n) ->
            IF n \in drawn THEN "void" ELSE "none"

\* The credential S holds on a nonce, its request read off the grants of log.
EntryIn(S, log, n) ==
    IF ~OnNonce(S, n) THEN None
    ELSE LET c == CHOOSE c \in S : c.nonce = n
         IN  [request |-> log[c.token].uri, profile |-> c.profile, key |-> c.holder]

RequestPhase == [u \in ReqUris |-> PhaseOf(u)]
RequestScope == [u \in ReqUris |-> IF par_log[u] = None THEN None ELSE par_log[u].scope]
RequestHolder == [u \in ReqUris |-> HolderIn(grants, u)]
NonceLedger == [n \in Nonces |-> LedgerOf(n)]
NonceEntry == [n \in Nonces |-> EntryIn(Committed, grants, n)]

Ledger == INSTANCE IssuanceLedger WITH
    Requests <- ReqUris, phase <- RequestPhase, scope <- RequestScope,
    holder <- RequestHolder, ledger <- NonceLedger, entry <- NonceEntry

\* Whatever the interleaving of the critical sections, the hang-ups, the
\* restarts and the failures of the signer, authorizations and credentials
\* live the life IssuanceLedger gives them (par, authorize, token, nonce and
\* credential, main.rs 1102-1165 and 2057-2518).
LedgerSpec == Ledger!LedgerSpec
=============================================================================
