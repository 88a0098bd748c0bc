------------------------------ MODULE LeaseFence ------------------------------
(***************************************************************************)
(* What verified cleanup promises about one remote server, without the     *)
(* processes, locks and messages that implement it: each rule's listener   *)
(* belongs to the session of its newest granted generation, and no grant   *)
(* is made while an older session of the rule may still be listening.      *)
(***************************************************************************)
EXTENDS Naturals

CONSTANTS
  Sessions,   \* dedicated SSH sessions
  Rules,
  RuleOf,     \* the rule a session serves
  Generations,
  None

VARIABLES
  owner,      \* rule -> [session, gen] of the newest grant still on record, or None
  listening   \* sessions that hold a listening socket on the server

vars == <<owner, listening>>

Of(r) == {s \in Sessions : RuleOf[s] = r}

Init == owner = [r \in Rules |-> None] /\ listening = {}

\* A newer generation takes the rule once nothing of it listens any more.
Grant(r, s, g) ==
  /\ s \in Of(r) /\ Of(r) \cap listening = {}
  /\ owner[r] # None => g > owner[r].gen
  /\ owner' = [owner EXCEPT ![r] = [session |-> s, gen |-> g]]
  /\ UNCHANGED listening

\* Only the session on record opens the listener.
Open(s) ==
  /\ owner[RuleOf[s]] # None /\ owner[RuleOf[s]].session = s
  /\ listening' = listening \cup {s}
  /\ UNCHANGED owner

\* A session stops listening: cancelled, ended by a newer one, or dead.
Close(s) == s \in listening /\ listening' = listening \ {s} /\ UNCHANGED owner

\* A grant is given up only when its session no longer listens.
GiveUp(r) ==
  /\ owner[r] # None /\ owner[r].session \notin listening
  /\ owner' = [owner EXCEPT ![r] = None]
  /\ UNCHANGED listening

Next ==
  \/ \E r \in Rules : GiveUp(r) \/ \E s \in Sessions, g \in Generations : Grant(r, s, g)
  \/ \E s \in Sessions : Open(s) \/ Close(s)

Spec == Init /\ [][Next]_vars
=============================================================================
