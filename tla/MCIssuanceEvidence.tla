------------------------- MODULE MCIssuanceEvidence -------------------------
(***************************************************************************)
(* Three scenarios of IssuanceFlow in one run: a state is explored when it *)
(* is within the bounds of one of them, and each spends its bounds on one  *)
(* way to a credential.  The refinement of IssuanceLedger is checked on    *)
(* all of them.                                                            *)
(***************************************************************************)
EXTENDS MCIssuanceFlow, IssuanceRefinement

Scenarios == {"nfc", "mandate", "tlsn"}

ScopesEvidence == ScopesNfc \cup ScopesMandate \cup ScopesTlsn

ScopesOf == [nfc |-> ScopesNfc, mandate |-> ScopesMandate, tlsn |-> ScopesTlsn]

\* A presentation of a PID carries an identifier of its own, and the chip is
\* read for two of the nonces.
PidBindingsEvidence == {b \in PidBinding : b.jti = CHOOSE j \in BindingJtis : TRUE}
AttestationsEvidence ==
    LET first == CHOOSE n \in Nonces : TRUE
        second == CHOOSE n \in Nonces \ {first} : TRUE
    IN  {a \in MCAttestations : a.nonce \in {first, second}}

\* How many identifiers of each kind a behaviour may use.
UriBound     == [nfc |-> 2, mandate |-> 2, tlsn |-> 1]
TokenBound   == [nfc |-> 2, mandate |-> 2, tlsn |-> 1]
NonceBound   == [nfc |-> 2, mandate |-> 3, tlsn |-> 1]
OfferBound   == [nfc |-> 0, mandate |-> 0, tlsn |-> 2]
DpopBound    == [nfc |-> 4, mandate |-> 4, tlsn |-> 2]
SessionBound == [nfc |-> 0, mandate |-> 0, tlsn |-> 1]
BindingBound == [nfc |-> 2, mandate |-> 1, tlsn |-> 0]
HolderBound  == [nfc |-> 2, mandate |-> 2, tlsn |-> 1]
ClockBound   == [nfc |-> 0, mandate |-> 1, tlsn |-> 3]
BootBound    == [nfc |-> 1, mandate |-> 0, tlsn |-> 0]

WithinBounds(scenario) ==
    /\ Cardinality({s \in TlsnSessions : artifacts[s] # None}) <= SessionBound[scenario]
    /\ clock <= ClockBound[scenario] /\ boot <= BootBound[scenario]
    /\ Cardinality(drawn \cap ReqUris) <= UriBound[scenario]
    /\ Cardinality(drawn \cap Tokens) <= TokenBound[scenario]
    /\ Cardinality(drawn \cap Nonces) <= NonceBound[scenario]
    /\ Cardinality(drawn \cap OfferIds) <= OfferBound[scenario]
    /\ Cardinality(dpop_jtis) <= DpopBound[scenario]
    /\ Cardinality(binding_jtis) <= BindingBound[scenario]
    /\ Cardinality({grants[t].jkt : t \in {t \in Tokens : grants[t] # None}})
          <= HolderBound[scenario]
    /\ \A u \in ReqUris : par_log[u] # None => par_log[u].scope \in ScopesOf[scenario]
    /\ \A r \in par_inflight : r.scope \in ScopesOf[scenario]

\* Authorizations under way.  They are explored one after the other here, the
\* interleavings of several by flow_authorization.
Authorizations ==
    Cardinality(par_inflight) + Cardinality({u \in ReqUris : pushed[u] # None})
      + Cardinality(authorizing)
      + Cardinality({c \in Codes : codes[c] # None /\ ~codes[c].consumed})

\* No action reads an artifact before an offer is built on it: the notary signs
\* it, for any instant, before anything else happens.
NotarisedFirst == artifacts # Empty(TlsnSessions) \/ (clock = 0 /\ drawn = {})

Within ==
    /\ Authorizations <= 1
    /\ \E scenario \in Scenarios :
          WithinBounds(scenario) /\ (SessionBound[scenario] > 0 => NotarisedFirst)

\* A proof identifier is one of those not seen by this process; which one makes
\* no difference to any guard.
FirstUnseen ==
    \A jti \in dpop_jtis' \ dpop_jtis : jti = CHOOSE j \in Jtis : j \notin dpop_jtis

\* A request refused with nothing but its proof identifier spent is left to
\* flow_authorization.
ServedOrEvidenceSpent ==
    dpop_jtis' \subseteq dpop_jtis \/ accepted' # accepted \/ binding_jtis' # binding_jtis

NextJti == FirstUnseen /\ ServedOrEvidenceSpent

\* The keys of the wallets are interchangeable.
EvidenceSymmetry == Permutations(Keys)

=============================================================================
