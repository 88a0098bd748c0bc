-------------------------- MODULE MCRelayCoordinator --------------------------
(***************************************************************************)
(* A small instance of RelayCoordinator: one relay in full, and beside it  *)
(* another relay that wants permits.                                       *)
(***************************************************************************)
EXTENDS RelayCoordinator, TLC

CONSTANT other

Wants == other :> 2
=============================================================================
