---------------------------- MODULE MCCleanupLease ----------------------------
(***************************************************************************)
(* A small instance of CleanupLease: every session serves the same rule.   *)
(* Sessions and addresses are interchangeable; the symmetry is used by     *)
(* runs that check no liveness property.                                   *)
(***************************************************************************)
EXTENDS CleanupLease, TLC

OneRule == [s \in Sessions |-> CHOOSE r \in Rules : TRUE]
Interchangeable == Permutations(Sessions) \cup Permutations(Addresses)
=============================================================================
