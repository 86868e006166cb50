--------------------------- MODULE IssuanceLedger ---------------------------
(***************************************************************************)
(* What the issuer promises of authorizations and credentials, without     *)
(* codes, tokens, proofs, evidence or a mutex.                             *)
(*                                                                         *)
(* A pushed request is granted to one key or closed, and never again.      *)
(* A nonce is offered once; a credential is committed on it for a granted  *)
(* request, inside its scope and for its key, and is then signed or lost.  *)
(* When the process stops every request is closed, every offered nonce is  *)
(* void and every credential not yet signed is lost.                       *)
(***************************************************************************)
CONSTANTS Requests, Scopes, Keys, Nonces, None

VARIABLES
    phase,     \* request -> where it is in its life
    scope,     \* request -> the profiles asked for
    holder,    \* request -> the key it was granted to
    ledger,    \* nonce -> where it is in its life
    entry      \* nonce -> the credential committed on it

ledgerVars == <<phase, scope, holder, ledger, entry>>

Empty(S) == [x \in S |-> None]

Init ==
    /\ phase = [r \in Requests |-> "none"]
    /\ scope = Empty(Requests) /\ holder = Empty(Requests)
    /\ ledger = [n \in Nonces |-> "none"] /\ entry = Empty(Nonces)

Push(r) ==
    /\ phase[r] = "none"
    /\ phase' = [phase EXCEPT ![r] = "pushed"]
    /\ \E s \in Scopes : scope' = [scope EXCEPT ![r] = s]
    /\ UNCHANGED <<holder, ledger, entry>>

Grant(r) ==
    /\ phase[r] = "pushed"
    /\ phase' = [phase EXCEPT ![r] = "granted"]
    /\ \E key \in Keys : holder' = [holder EXCEPT ![r] = key]
    /\ UNCHANGED <<scope, ledger, entry>>

\* A request is consumed without a grant.
Close(r) ==
    /\ phase[r] = "pushed"
    /\ phase' = [phase EXCEPT ![r] = "closed"]
    /\ UNCHANGED <<scope, holder, ledger, entry>>

Offer(n) ==
    /\ ledger[n] = "none"
    /\ ledger' = [ledger EXCEPT ![n] = "offered"]
    /\ UNCHANGED <<phase, scope, holder, entry>>

Commit(n) ==
    /\ ledger[n] = "offered"
    /\ ledger' = [ledger EXCEPT ![n] = "pending"]
    /\ \E r \in Requests :
          /\ phase[r] = "granted"
          /\ \E p \in scope[r] :
                entry' = [entry EXCEPT ![n] = [request |-> r, profile |-> p, key |-> holder[r]]]
    /\ UNCHANGED <<phase, scope, holder>>

Settle(n) ==
    /\ ledger[n] = "pending"
    /\ \E fate \in {"signed", "lost"} : ledger' = [ledger EXCEPT ![n] = fate]
    /\ UNCHANGED <<phase, scope, holder, entry>>

Restart ==
    /\ phase' = [r \in Requests |-> IF phase[r] = "none" THEN "none" ELSE "closed"]
    /\ ledger' = [n \in Nonces |-> CASE ledger[n] = "offered" -> "void"
                                     [] ledger[n] = "pending" -> "lost"
                                     [] OTHER -> ledger[n]]
    /\ UNCHANGED <<scope, holder, entry>>

Next ==
    \/ \E r \in Requests : Push(r) \/ Grant(r) \/ Close(r)
    \/ \E n \in Nonces : Offer(n) \/ Commit(n) \/ Settle(n)
    \/ Restart

LedgerSpec == Init /\ [][Next]_ledgerVars
=============================================================================
