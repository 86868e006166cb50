-------------------------- MODULE MCCaptureSession --------------------------
(* Instances of CaptureSession for TLC. *)
EXTENDS CaptureSession, TLC

\* Complete chip reads, and reads with one verdict missing.
MCAttestations ==
    {a \in Attestation :
        \/ a.sod_passive_auth /\ a.chip_authentic
        \/ a.sod_passive_auth /\ a.liveness_matched}

\* Complete and portrait-mismatched reads.
GoodOrMismatched == {a \in Attestation : a.sod_passive_auth /\ a.chip_authentic}

CaptureSymmetry ==
    Permutations(Keys) \cup Permutations(Submissions) \cup Permutations(Jtis)
      \cup Permutations(Sessions)
=============================================================================
