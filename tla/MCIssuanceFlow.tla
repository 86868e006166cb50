--------------------------- MODULE MCIssuanceFlow ---------------------------
(***************************************************************************)
(* Instances of IssuanceFlow for TLC.  The sets of evidence hold, for each *)
(* nonce and key, what an honest or a careless reader and wallet produce.  *)
(***************************************************************************)
EXTENDS IssuanceFlow, TLC

\* Complete chip reads, and reads of a copied chip or of someone else.
MCAttestations ==
    {a \in Attestation : a.sod_passive_auth /\ (a.chip_authentic \/ a.liveness_matched)}

NoPidBindings == {}
NoAttestations == {}

\* The mdoc of the capture flow is not for the authorization endpoint.
ScopesBasic == {{PID_SD_JWT}, {QEAA_SD_JWT}, {PID_SD_JWT, PID_FROM_EMRTD_MDOC}}
ScopesNfc == {{PID_FROM_EMRTD_SD_JWT}}
ScopesMandate == {{PID_SD_JWT, MANDATE_SD_JWT}}
ScopesTlsn == {{TLSN_EVIDENCE_SD_JWT, PID_SD_JWT}}
OffersTlsn == {PID_SD_JWT}
NoOffers == {}

\* Wallet-side names are interchangeable.
WalletSymmetry ==
    Permutations(Clients) \cup Permutations(Redirects) \cup Permutations(Verifiers)
      \cup Permutations(Keys)
      \cup Permutations(Jtis) \cup Permutations(BindingJtis)
      \cup Permutations(TlsnSessions)
=============================================================================
