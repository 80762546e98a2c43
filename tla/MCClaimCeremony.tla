-------------------------- MODULE MCClaimCeremony --------------------------
(* Instances of ClaimCeremony for TLC. *)
EXTENDS ClaimCeremony, TLC

Symmetry == Permutations(Workers)
=============================================================================
