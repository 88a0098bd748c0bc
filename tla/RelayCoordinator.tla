--------------------------- MODULE RelayCoordinator ---------------------------
(***************************************************************************)
(* The coordinator of a two-server relay rule (engine/relay.rs): one task  *)
(* owns a session with the source server, where the rule listens, and one  *)
(* with the target server, and joins the connections that arrive at the    *)
(* listener with channels it opens on the target.                          *)
(*                                                                         *)
(* A task goes through: taking two of the manager's connection permits at  *)
(* once, connecting both servers, claiming the cleanup lease, asking the   *)
(* source server to listen, confirming the lease, serving, and taking the  *)
(* listener down again.  The value of pc is the await the task stands at;  *)
(* a step is what it does from one await to the next.  Whatever else takes *)
(* permits (other relays, supervisors of ordinary connections) is an       *)
(* element of Others: it waits, connects and gives its permits back.       *)
(*                                                                         *)
(* The helper behind the lease is CleanupLease's subject; here a claim, a  *)
(* confirmation and a release succeed or fail.                             *)
(***************************************************************************)
EXTENDS Naturals, Sequences, FiniteSets, Functions, SequencesExt

CONSTANTS
  Relays,      \* relay rules, each with its coordinator
  Others,      \* other users of connection permits
  Need,        \* how many permits each of these takes: 1 for a connection, 2 for a relay
  Permits,     \* Semaphore::new(4)
  Limit,       \* Semaphore::new(256): connections bridged at once
  Attempts,    \* VERIFIED_LISTEN_ATTEMPTS
  MaxEdits,    \* bound: edits of each rule
  MaxLosses    \* bound: sessions lost

ASSUME RelayAssumption ==
  /\ Relays \cap Others = {}
  /\ Need \in [Others -> {1, 2}] /\ Permits \in Nat \ {0, 1}
  /\ Limit \in Nat \ {0} /\ Attempts \in Nat \ {0}
  /\ MaxEdits \in Nat /\ MaxLosses \in Nat

VARIABLES
  want,     \* the rule as the engine last sent it
  changed,  \* whether the task has not yet seen it
  cancel,   \* the task's cancellation token
  rule,     \* the rule the task works for
  pc,       \* where the task stands
  after,    \* what it does once the listener and the lease are gone
  queue,    \* tasks waiting for permits, in order
  held,     \* permits each holds
  source,   \* the session with the source server
  target,   \* the session with the target server
  listens,  \* whether the source server listens for the rule
  lease,    \* the task's lease
  record,   \* whether the source server keeps a record of the rule's claim
  refused,  \* refused listen requests of this session
  route,    \* whether connections from the source are bridged
  flows,    \* bridged connections of the installed route
  draining, \* connections of removed routes, by the rule's generation
  report,   \* the state fwm shows for the rule
  active,   \* the number of connections fwm shows for it
  losses    \* sessions lost so far

task == <<changed, cancel, rule, after>>
links == <<source, target, listens>>
owned == <<lease, record, refused>>
bridge == <<route, flows, draining, active>>
engine == <<want, losses>>
vars == <<task, pc, links, owned, bridge, engine, queue, held, report>>

Generations == 1..(MaxEdits + 1)
Rules == [gen : Generations, run : BOOLEAN, name : 0..MaxEdits, verified : BOOLEAN]
Outcomes == {"changed", "retry", "attention"}
Stages == {"top", "idle", "permits", "connect", "claim", "listen", "listening", "pause", "release",
           "confirm", "serving", "cancelling", "yield", "closing", "backoff", "gone"}

-----------------------------------------------------------------------------
(* Initial states: every task has just been spawned. *)

Init ==
  /\ want \in [Relays -> {new \in Rules : new.gen = 1 /\ new.name = 0}] /\ rule = want
  /\ changed = [r \in Relays |-> FALSE] /\ cancel = [r \in Relays |-> FALSE]
  /\ pc = [r \in Relays |-> "top"] /\ after = [r \in Relays |-> "changed"]
  /\ queue = <<>> /\ held = [x \in Relays \cup Others |-> 0]
  /\ source = [r \in Relays |-> "none"] /\ target = [r \in Relays |-> "none"]
  /\ listens = [r \in Relays |-> FALSE] /\ lease = [r \in Relays |-> "none"]
  /\ record = [r \in Relays |-> FALSE] /\ refused = [r \in Relays |-> 0]
  /\ route = [r \in Relays |-> FALSE] /\ flows = [r \in Relays |-> 0]
  /\ draining = [r \in Relays |-> [g \in Generations |-> 0]]
  /\ active = [r \in Relays |-> 0] /\ losses = 0
  /\ report = [r \in Relays |-> IF want[r].run THEN "starting" ELSE "stopped"]

-----------------------------------------------------------------------------
(* Reports.  A task speaks for the generation it works for; the engine      *)
(* drops what the task of an older one says (Rule::update).                 *)

Current(r) == rule[r].gen = want[r].gen
Verified(r) == rule[r].verified  \* remote_cleanup
Says(r, state) == report' = IF Current(r) THEN [report EXCEPT ![r] = state] ELSE report
At(r, stage) == pc[r] = stage
Goes(r, stage) == pc' = [pc EXCEPT ![r] = stage]

(* Permits: tokio's semaphore is fair; a waiter gets all it asked for or waits. *)

Needs(x) == IF x \in Relays THEN 2 ELSE Need[x]
Used == SumFunction(held)
KeepsPermits == UNCHANGED <<queue, held>>
Withdraws(x) ==
  \/ ~Contains(queue, x) /\ UNCHANGED queue
  \/ \E i \in 1..Len(queue) : queue[i] = x /\ queue' = RemoveAt(queue, i)

(* How an attempt ends: both handles are dropped, so both sessions end, and *)
(* the outcome decides what comes next.                                     *)

Outcome(r, outcome) ==
  \/ cancel[r] /\ Goes(r, "gone") /\ UNCHANGED report
  \/ ~cancel[r] /\ outcome = "changed" /\ Goes(r, "top") /\ UNCHANGED report
  \/ ~cancel[r] /\ outcome = "retry" /\ Goes(r, "backoff") /\ Says(r, "backoff")
  \/ ~cancel[r] /\ outcome = "attention" /\ Goes(r, "idle") /\ Says(r, "attention")

Drops(r) ==
  /\ source' = [source EXCEPT ![r] = "none"] /\ target' = [target EXCEPT ![r] = "none"]
  /\ listens' = [listens EXCEPT ![r] = FALSE]
  /\ lease' = [lease EXCEPT ![r] = "none"] /\ refused' = [refused EXCEPT ![r] = 0]

Ends(r, outcome) ==
  /\ Outcome(r, outcome) /\ Drops(r)
  /\ UNCHANGED <<task, bridge, engine>>

Stays(r) == UNCHANGED <<task, links, bridge, engine>>

-----------------------------------------------------------------------------
(* Waiting for something to do, for permits and for both servers.           *)

\* The top of the loop: the newest rule is taken up.
Begin(r) ==
  /\ At(r, "top")
  /\ rule' = [rule EXCEPT ![r] = want[r]] /\ changed' = [changed EXCEPT ![r] = FALSE]
  /\ report' = [report EXCEPT ![r] = IF ~want[r].run THEN "stopped"
                                     ELSE IF cancel[r] THEN @ ELSE "starting"]
  /\ \/ cancel[r] /\ Goes(r, "gone") /\ UNCHANGED queue
     \/ ~cancel[r] /\ ~want[r].run /\ Goes(r, "idle") /\ UNCHANGED queue
     \/ ~cancel[r] /\ want[r].run /\ Goes(r, "permits") /\ queue' = Append(queue, r)
  /\ UNCHANGED <<cancel, after, links, owned, bridge, engine, held>>

\* A stopped rule, and one that needs attention, waits for an edit.
Wake(r) ==
  /\ At(r, "idle") /\ (cancel[r] \/ changed[r])
  /\ Goes(r, IF cancel[r] THEN "gone" ELSE "top")
  /\ Stays(r) /\ UNCHANGED <<owned, queue, held, report>>

\* Seeded fault: the two permits are taken one after the other.
GrantOne ==
  /\ queue # <<>> /\ Used < Permits
  /\ LET x == Head(queue) IN
       /\ held' = [held EXCEPT ![x] = @ + 1]
       /\ queue' = IF held'[x] = Needs(x) THEN Tail(queue) ELSE Append(Tail(queue), x)
       /\ pc' = IF x \in Relays /\ held'[x] = Needs(x) THEN [pc EXCEPT ![x] = "connect"] ELSE pc
  /\ UNCHANGED <<task, links, owned, bridge, engine, report>>

\* acquire_many_owned(2)
Grant ==
  /\ queue # <<>> /\ Used + Needs(Head(queue)) <= Permits
  /\ LET x == Head(queue) IN
       /\ held' = [held EXCEPT ![x] = Needs(x)] /\ queue' = Tail(queue)
       /\ pc' = IF x \in Relays THEN [pc EXCEPT ![x] = "connect"] ELSE pc
  /\ UNCHANGED <<task, links, owned, bridge, engine, report>>

\* An edit or a cancellation ends the wait for permits and the connection attempt alike; the
\* permits go back.
Interrupted(r) ==
  /\ pc[r] \in {"permits", "connect"} /\ (cancel[r] \/ changed[r])
  /\ Goes(r, IF cancel[r] THEN "gone" ELSE "top") /\ Drops(r)
  /\ Withdraws(r) /\ held' = [held EXCEPT ![r] = 0]
  /\ UNCHANGED <<task, bridge, engine, record, report>>

Answers(r) ==
  /\ At(r, "connect")
  /\ \/ /\ source[r] = "none" /\ UNCHANGED target
        /\ \E s \in {"up", "error", "attention"} : source' = [source EXCEPT ![r] = s]
     \/ /\ target[r] = "none" /\ UNCHANGED source
        /\ \E s \in {"up", "error", "attention"} : target' = [target EXCEPT ![r] = s]
  /\ UNCHANGED <<task, pc, listens, owned, bridge, engine, queue, held, report>>

Made(s) == s \in {"up", "closed"}

\* connect_outcome: one failed side fails the rule; either side can ask for attention.
Verdict(r) == IF "attention" \in {source[r], target[r]} THEN "attention" ELSE "retry"

\* join!: both sides have been tried; the permits go back before the sessions are used.
Joined(r) ==
  /\ At(r, "connect") /\ ~cancel[r] /\ ~changed[r]
  /\ source[r] # "none" /\ target[r] # "none"
  /\ held' = [held EXCEPT ![r] = 0] /\ UNCHANGED <<queue, record>>
  /\ \/ /\ Made(source[r]) /\ Made(target[r])
        /\ Goes(r, IF Verified(r) THEN "claim" ELSE "listen")
        /\ Stays(r) /\ UNCHANGED <<lease, refused, report>>
     \/ ~(Made(source[r]) /\ Made(target[r])) /\ Ends(r, Verdict(r))

-----------------------------------------------------------------------------
(* The lease and the listener.                                              *)

\* RemoteLease::claim; a claim that fails or is abandoned may have been recorded.
Claim(r) ==
  /\ At(r, "claim") /\ KeepsPermits
  /\ \/ /\ ~cancel[r] /\ source[r] = "up" /\ Goes(r, "listen")
        /\ lease' = [lease EXCEPT ![r] = "claimed"] /\ record' = [record EXCEPT ![r] = TRUE]
        /\ Stays(r) /\ UNCHANGED <<refused, report>>
     \/ /\ \E outcome \in IF cancel[r] THEN {"changed"} ELSE {"retry", "attention"} :
             Ends(r, outcome)
        /\ \E known \in {record[r], TRUE} : record' = [record EXCEPT ![r] = known]

\* release_lease, before anything listens.
Releases(r, outcome) ==
  \/ lease[r] = "none" /\ Ends(r, outcome) /\ UNCHANGED record
  \/ /\ lease[r] # "none" /\ Goes(r, "release") /\ after' = [after EXCEPT ![r] = outcome]
     /\ UNCHANGED <<changed, cancel, rule, links, lease, record, bridge, engine, report>>

\* The top of the listen loop: what has ended meanwhile, or the next request.
Listen(r) ==
  /\ At(r, "listen") /\ KeepsPermits
  /\ \/ cancel[r] /\ Releases(r, "changed") /\ (lease[r] # "none" => UNCHANGED refused)
     \/ ~cancel[r] /\ "closed" \in {source[r], target[r]} /\ Ends(r, "retry") /\ UNCHANGED record
     \/ /\ ~cancel[r] /\ "closed" \notin {source[r], target[r]} /\ Goes(r, "listening")
        /\ Stays(r) /\ UNCHANGED <<owned, report>>

Installs(r) ==
  /\ route' = [route EXCEPT ![r] = TRUE] /\ Goes(r, "serving") /\ Says(r, "established")
  /\ UNCHANGED <<task, flows, draining, active, engine>>

\* Seeded fault: the route is installed before the lease is confirmed.
OpenedEarly(r) ==
  /\ At(r, "listening") /\ source[r] = "up" /\ KeepsPermits
  /\ listens' = [listens EXCEPT ![r] = TRUE] /\ route' = [route EXCEPT ![r] = TRUE]
  /\ Goes(r, IF Verified(r) THEN "confirm" ELSE "serving") /\ Says(r, "established")
  /\ UNCHANGED <<source, target, owned, task, flows, draining, active, engine>>

\* tcpip_forward: the source server listens.
Opened(r) ==
  /\ At(r, "listening") /\ source[r] = "up" /\ KeepsPermits
  /\ listens' = [listens EXCEPT ![r] = TRUE] /\ UNCHANGED <<source, target, owned>>
  /\ \/ ~Verified(r) /\ Installs(r)
     \/ Verified(r) /\ Goes(r, "confirm") /\ UNCHANGED <<task, bridge, engine, report>>

\* It refuses, or its session has closed, which russh reports the same way.
Refused(r) ==
  /\ At(r, "listening") /\ KeepsPermits
  /\ \/ /\ Verified(r) /\ refused[r] + 1 >= Attempts /\ Releases(r, "attention")
        /\ (lease[r] # "none" => UNCHANGED refused)
     \/ /\ ~Verified(r) \/ refused[r] + 1 < Attempts
        /\ refused' = [refused EXCEPT ![r] = IF Verified(r) THEN @ + 1 ELSE @]
        /\ Goes(r, "pause") /\ Says(r, "backoff")
        /\ Stays(r) /\ UNCHANGED <<lease, record>>

\* Seeded fault: the pause before the next request does not watch the rule.
PauseBlind(r) ==
  /\ At(r, "pause") /\ Goes(r, "listen") /\ KeepsPermits /\ Stays(r) /\ UNCHANGED <<owned, report>>

\* rule_changed: anything but an equal rule; the name is part of it.
RuleChanged(r) == want[r] # rule[r]

\* The pause before the next request watches the token, the rule and both sessions.
Pause(r) ==
  /\ At(r, "pause") /\ KeepsPermits
  /\ \/ cancel[r] /\ Releases(r, "changed") /\ (lease[r] # "none" => UNCHANGED refused)
     \/ /\ ~cancel[r] /\ changed[r] /\ RuleChanged(r) /\ Releases(r, "changed")
        /\ (lease[r] # "none" => UNCHANGED refused)
     \/ ~cancel[r] /\ ~changed[r] /\ "closed" \in {source[r], target[r]} /\ Ends(r, "retry")
        /\ UNCHANGED record
     \/ ~cancel[r] /\ ~changed[r] /\ Goes(r, "listen") /\ Stays(r) /\ UNCHANGED <<owned, report>>

\* Before anything listens a failed release decides the outcome; its answer may be all that failed.
Release(r) ==
  /\ At(r, "release") /\ KeepsPermits
  /\ \/ /\ lease[r] = "claimed" /\ record' = [record EXCEPT ![r] = FALSE] /\ Ends(r, after[r])
     \/ /\ \E outcome \in {"retry", "attention"} : Ends(r, outcome)
        /\ \E known \in IF lease[r] = "claimed" THEN {record[r], FALSE} ELSE {record[r]} :
             record' = [record EXCEPT ![r] = known]

\* A failed confirmation takes the listener down again; an abandoned one leaves lease and record
\* to the next session.
Confirm(r) ==
  /\ At(r, "confirm") /\ KeepsPermits
  /\ \/ cancel[r] /\ Ends(r, "changed") /\ UNCHANGED record
     \/ ~cancel[r] /\ source[r] = "closed" /\ Ends(r, "retry") /\ UNCHANGED record
     \/ ~cancel[r] /\ source[r] = "up" /\ lease[r] = "claimed" /\ Installs(r)
        /\ lease' = [lease EXCEPT ![r] = "confirmed"] /\ UNCHANGED <<links, record, refused>>
     \/ /\ ~cancel[r] /\ source[r] = "up" /\ Goes(r, "cancelling")
        /\ \E outcome \in {"retry", "attention"} : after' = [after EXCEPT ![r] = outcome]
        /\ UNCHANGED <<changed, cancel, rule, links, owned, bridge, engine, report>>

-----------------------------------------------------------------------------
(* Serving, and taking the listener down.                                   *)

\* traffic.cancel() and remove_route: what is bridged is cut, and nothing more is.
Leaves(r, outcome) ==
  /\ route' = [route EXCEPT ![r] = FALSE] /\ flows' = [flows EXCEPT ![r] = 0]
  /\ draining' = [draining EXCEPT ![r][rule[r].gen] = @ + flows[r]]
  /\ after' = [after EXCEPT ![r] = outcome]
  /\ \/ source[r] = "up" /\ Goes(r, "cancelling") /\ Says(r, "stopping")
     \/ source[r] # "up" /\ Goes(r, "closing") /\ UNCHANGED report
  /\ UNCHANGED <<cancel, rule, active>>

\* Seeded fault: the loop watches the source session only.
SourceClosed(r) == source[r] = "closed"

LinkClosed(r) == "closed" \in {source[r], target[r]}

\* The supervision loop leaves when anything it depends on has gone, or the rule has changed.
StepDown(r) ==
  /\ At(r, "serving") /\ KeepsPermits
  /\ \/ cancel[r] /\ Leaves(r, "changed") /\ UNCHANGED changed
     \/ ~cancel[r] /\ LinkClosed(r) /\ Leaves(r, "retry") /\ UNCHANGED changed
     \/ ~cancel[r] /\ lease[r] = "broken" /\ Leaves(r, "retry") /\ UNCHANGED changed
     \/ ~cancel[r] /\ changed[r] /\ RuleChanged(r) /\ Leaves(r, "changed")
        /\ changed' = [changed EXCEPT ![r] = FALSE]
  /\ UNCHANGED <<links, owned, engine>>

\* Seeded fault: the lease is released while the source server may still listen.
YieldAnyway(r) ==
  /\ At(r, "cancelling") /\ KeepsPermits /\ Goes(r, IF lease[r] = "none" THEN "closing" ELSE "yield")
  /\ Stays(r) /\ UNCHANGED <<owned, report>>

\* cancel_listener: the source server confirms that it listens no more.
Unlisten(r) ==
  /\ At(r, "cancelling") /\ source[r] = "up" /\ KeepsPermits
  /\ listens' = [listens EXCEPT ![r] = FALSE]
  /\ Goes(r, IF lease[r] = "none" THEN "closing" ELSE "yield")
  /\ UNCHANGED <<task, source, target, owned, bridge, engine, report>>

\* It refuses, or its session has closed: the request is repeated after two seconds.  Nothing
\* cancels the token that would end the loop.
UnlistenFails(r) ==
  /\ At(r, "cancelling") /\ Says(r, "stopping")
  /\ KeepsPermits /\ Stays(r) /\ UNCHANGED <<pc, owned>>

\* After the listener has gone a failed release is left to the next session.
Yield(r) ==
  /\ At(r, "yield") /\ Goes(r, "closing") /\ KeepsPermits
  /\ record' = [record EXCEPT ![r] = @ /\ lease[r] = "broken"]
  /\ Stays(r) /\ UNCHANGED <<lease, refused, report>>

\* close_transport, both sides.
Close(r) == At(r, "closing") /\ Ends(r, after[r]) /\ KeepsPermits /\ UNCHANGED record

\* The delay before the next attempt watches the token only.
Retry(r) ==
  /\ At(r, "backoff") /\ Goes(r, IF cancel[r] THEN "gone" ELSE "top")
  /\ KeepsPermits /\ Stays(r) /\ UNCHANGED <<owned, report>>

\* protocol_request: a late answer and a cancellation are reported; the request stays.
Overdue(r) ==
  /\ pc[r] \in {"listening", "cancelling"}
  /\ Says(r, IF cancel[r] THEN "stopping" ELSE "unverified")
  /\ KeepsPermits /\ Stays(r) /\ UNCHANGED <<pc, owned>>

-----------------------------------------------------------------------------
(* Bridged connections.                                                     *)

\* Seeded fault: the end of a connection of an older generation is counted too.
EndedAny(r, g) == active' = [active EXCEPT ![r] = IF @ > 0 THEN @ - 1 ELSE 0]

\* ConnectionGuard: only the rule's present generation counts.
Ended(r, g) ==
  active' = [active EXCEPT ![r] = IF g = want[r].gen /\ @ > 0 THEN @ - 1 ELSE @]

\* A connection arrives at the listener.
Callback(r) ==
  /\ source[r] = "up" /\ listens[r] /\ route[r] /\ flows[r] < Limit
  /\ flows' = [flows EXCEPT ![r] = @ + 1]
  /\ active' = [active EXCEPT ![r] = IF Current(r) THEN @ + 1 ELSE @]
  /\ UNCHANGED <<task, pc, links, owned, route, draining, engine, queue, held, report>>

FlowEnds(r) ==
  /\ flows[r] > 0 /\ flows' = [flows EXCEPT ![r] = @ - 1] /\ Ended(r, rule[r].gen)
  /\ UNCHANGED <<task, pc, links, owned, route, draining, engine, queue, held, report>>

\* A connection of a removed route sees the cancellation.
Drains(r, g) ==
  /\ draining[r][g] > 0 /\ draining' = [draining EXCEPT ![r][g] = @ - 1] /\ Ended(r, g)
  /\ UNCHANGED <<task, pc, links, owned, route, flows, engine, queue, held, report>>

-----------------------------------------------------------------------------
(* The engine, the other tasks and the network.                             *)

Edits(r) == want[r].gen + want[r].name - 1
Sent(r, new) ==
  /\ Edits(r) < MaxEdits /\ ~cancel[r]
  /\ want' = [want EXCEPT ![r] = new] /\ changed' = [changed EXCEPT ![r] = TRUE]
  /\ UNCHANGED <<cancel, rule, after, pc, links, owned, route, flows, draining, queue, held, losses>>

\* A new generation starts its counters anew.
Supersede(r, run, state) ==
  /\ Sent(r, [want[r] EXCEPT !.gen = @ + 1, !.run = run])
  /\ active' = [active EXCEPT ![r] = 0] /\ report' = [report EXCEPT ![r] = state]

Start(r) == ~want[r].run /\ Supersede(r, TRUE, "starting")
Stop(r) ==
  want[r].run /\ Supersede(r, FALSE, IF report[r] \in {"stopped", "attention", "backoff"}
                                     THEN "stopped" ELSE "stopping")
Restart(r) == want[r].run /\ Supersede(r, TRUE, "starting")
Rename(r) == Sent(r, [want[r] EXCEPT !.name = @ + 1]) /\ UNCHANGED <<active, report>>

\* The group is retired: the rule was removed or one of its servers edited.
Retire(r) ==
  /\ ~cancel[r] /\ cancel' = [cancel EXCEPT ![r] = TRUE]
  /\ UNCHANGED <<changed, rule, after, pc, links, owned, bridge, engine, queue, held, report>>

Asks(x) ==
  /\ held[x] = 0 /\ ~Contains(queue, x) /\ queue' = Append(queue, x)
  /\ UNCHANGED <<task, pc, links, owned, bridge, engine, held, report>>
Finishes(x) ==
  /\ held[x] = Needs(x) /\ held' = [held EXCEPT ![x] = 0]
  /\ UNCHANGED <<task, pc, links, owned, bridge, engine, queue, report>>

\* A session, or the helper of the lease, is lost.
Lost ==
  /\ losses < MaxLosses /\ losses' = losses + 1
  /\ UNCHANGED <<want, task, pc, record, refused, bridge, queue, held, report>>
LoseSource(r) ==
  /\ source[r] = "up" /\ source' = [source EXCEPT ![r] = "closed"]
  /\ listens' = [listens EXCEPT ![r] = FALSE]
  /\ lease' = [lease EXCEPT ![r] = IF @ = "none" THEN @ ELSE "broken"]
  /\ Lost /\ UNCHANGED target
LoseTarget(r) ==
  /\ target[r] = "up" /\ target' = [target EXCEPT ![r] = "closed"]
  /\ Lost /\ UNCHANGED <<source, listens, lease>>
LoseHelper(r) ==
  /\ lease[r] \in {"claimed", "confirmed"} /\ lease' = [lease EXCEPT ![r] = "broken"] /\ Lost /\ UNCHANGED links

-----------------------------------------------------------------------------
Steps(r) ==
  \/ Begin(r) \/ Wake(r) \/ Interrupted(r) \/ Answers(r) \/ Joined(r) \/ Claim(r) \/ Listen(r)
  \/ Opened(r) \/ Refused(r) \/ Pause(r) \/ Release(r) \/ Confirm(r) \/ StepDown(r) \/ Unlisten(r)
  \/ Yield(r) \/ Close(r) \/ Retry(r)
Cuts(r) == \E g \in Generations : Drains(r, g)
Happens(r) ==
  \/ UnlistenFails(r) \/ Overdue(r) \/ Callback(r) \/ FlowEnds(r)
  \/ Start(r) \/ Stop(r) \/ Restart(r) \/ Rename(r) \/ Retire(r)
  \/ LoseSource(r) \/ LoseTarget(r) \/ LoseHelper(r)
Next ==
  \/ \E r \in Relays : Steps(r) \/ Cuts(r) \/ Happens(r)
  \/ Grant \/ \E x \in Others : Asks(x) \/ Finishes(x)
Spec == Init /\ [][Next]_vars

\* Tasks run, permits are handed out, an attempt by another task ends, and a server answers a
\* request or its session closes.
FairSpec ==
  /\ Spec /\ WF_vars(Grant)
  /\ \A r \in Relays : WF_vars(Steps(r)) /\ WF_vars(Opened(r)) /\ WF_vars(Cuts(r))
  /\ \A x \in Others : WF_vars(Finishes(x))

-----------------------------------------------------------------------------
(* Properties.                                                              *)

TypeOK ==
  /\ want \in [Relays -> Rules] /\ rule \in [Relays -> Rules]
  /\ changed \in [Relays -> BOOLEAN] /\ cancel \in [Relays -> BOOLEAN]
  /\ pc \in [Relays -> Stages] /\ after \in [Relays -> Outcomes]
  /\ queue \in Seq(Relays \cup Others) /\ held \in [Relays \cup Others -> 0..2]
  /\ source \in [Relays -> {"none", "up", "error", "attention", "closed"}]
  /\ target \in [Relays -> {"none", "up", "error", "attention", "closed"}]
  /\ listens \in [Relays -> BOOLEAN] /\ lease \in [Relays -> {"none", "claimed", "confirmed", "broken"}]
  /\ record \in [Relays -> BOOLEAN] /\ refused \in [Relays -> 0..Attempts]
  /\ route \in [Relays -> BOOLEAN] /\ flows \in [Relays -> 0..Limit]
  /\ draining \in [Relays -> [Generations -> Nat]] /\ active \in [Relays -> Nat]
  /\ losses \in 0..MaxLosses
  /\ report \in [Relays -> {"starting", "established", "stopping", "stopped", "backoff",
                            "attention", "unverified"}]

\* Connections are bridged only through a listener that is open and, for a verified rule, recorded
\* and confirmed.
RouteIsOwned ==
  \A r \in Relays : route[r] =>
    /\ source[r] = "up" => listens[r]
    /\ Verified(r) => record[r] /\ lease[r] \in {"confirmed", "broken"}

\* Whatever fails, a verified listener that is open is recorded on its server: the next session
\* can find it.
RecordCoversListener == \A r \in Relays : Verified(r) /\ listens[r] => record[r]

\* The number of connections shown is the number that is bridged for the rule as it is now,
\* however many of its older generations still drain.
ActiveIsCounted ==
  \A r \in Relays :
    active[r] = draining[r][want[r].gen] + (IF Current(r) THEN flows[r] ELSE 0)

\* Permits never deadlock: whoever waits for them gets them or gives up.
AttemptsServed == \A x \in Relays \cup Others : Contains(queue, x) ~> ~Contains(queue, x)

\* A relay whose target session has gone takes its listener's route down.
HalfDeadEnds == \A r \in Relays : route[r] /\ target[r] = "closed" ~> ~route[r]

\* What can keep a stopped relay from being reported as stopped is one thing only: its source
\* session closes while the listener is taken down.
Hung(r) == pc[r] = "cancelling" /\ source[r] = "closed"
StopHeeded ==
  \A r \in Relays :
    ~want[r].run ~> want[r].run \/ report[r] = "stopped" \/ pc[r] = "gone" \/ Hung(r)

\* relay.rs:596: "Retain every global request until its reply arrives or SSH is closed."
RetainedUntilClosed == \A r \in Relays : pc[r] = "cancelling" ~> pc[r] # "cancelling"

\* docs/usage.md:181: "Renaming keeps the rule ID and does not reconnect", and relay.rs:529, at
\* the branch for an edit of the labels alone: "keep the established bridge untouched".
RenameKeepsBridge ==
  [][\A r \in Relays : route[r] /\ ~route'[r] =>
       \/ want[r].gen # rule[r].gen \/ cancel[r] \/ LinkClosed(r) \/ lease[r] = "broken"]_vars
=============================================================================
