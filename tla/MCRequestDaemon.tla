-------------------------- MODULE MCRequestDaemon --------------------------
(***************************************************************************)
(* A small instance of RequestDaemon: a forward of server s, and clients   *)
(* that repeat, guard, reuse and mix their requests.                       *)
(***************************************************************************)
EXTENDS RequestDaemon, TLC

CONSTANTS s, u, h, i, forward

Sources == [r \in Rules |-> s]
Routes == [r \in Rules |-> {s}]

Ask(id, cmd, guard) == [id |-> id, cmd |-> cmd, server |-> s, host |-> i, guard |-> guard]

Sent ==
  { Ask("a", "restart", NoGuard), Ask("b", "restart", 1), Ask("b", "put", NoGuard),
    Ask("c", "trust", NoGuard), Ask("e", "status", NoGuard), Ask("f", "shutdown", NoGuard) }

=============================================================================
