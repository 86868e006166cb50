---------------------------- MODULE MCAppAttest -----------------------------
(* Instances of AppAttest for TLC. *)
EXTENDS AppAttest, TLC

AttestSymmetry == Permutations(KeyIds) \cup Permutations(Challenges)
=============================================================================
