--------------------------- MODULE ForwardEngine ---------------------------
(***************************************************************************)
(* The forward engine of the daemon.  The engine turns the configuration   *)
(* into generations of rules and hands them to one supervisor task per SSH *)
(* connection.  A supervisor connects, runs one worker task per running    *)
(* rule on its session, and takes them down again; a retired supervisor    *)
(* goes on closing while its successor already works.  Engine, supervisors *)
(* and workers are tasks of one process that share the table of statuses;  *)
(* the SSH server and the network are the environment.                     *)
(***************************************************************************)
EXTENDS Integers, FiniteSets

CONSTANTS
  Rules,      \* forward rules
  Remote,     \* those that listen on the server
  Verified,   \* those of them with verified cleanup, each on a session of its own
  Keys,       \* connection identities
  Port,       \* Port[r]: where r listens; equal ports stand for overlapping addresses
  Configs,    \* the configurations that may be asked for
  Slots,      \* bound: supervisors of one identity that exist at a time
  Permits,    \* size of connection_limit
  MaxOps,     \* bound: operations on the engine
  MaxFaults   \* bound: failures of the network, the server and the helper

NoKey == "none"
\* For each rule its connection identity, NoKey if it is not configured, and desired state.
ConfigType == [Rules -> [key : Keys \cup {NoKey}, on : BOOLEAN]]
Runs(c, r) == c[r].key # NoKey /\ c[r].on

ASSUME RulesAssumption == /\ IsFiniteSet(Rules) /\ Verified \subseteq Remote /\ Remote \subseteq Rules
                          /\ NoKey \notin Keys
\* Config::validate refuses two running rules with overlapping addresses on one side, and
\* the key of a verified rule names the rule: no other rule ever has it.
ASSUME ConfigsAssumption ==
  /\ Configs \subseteq ConfigType
  /\ \A c \in Configs, r, q \in Rules :
       r # q => ~(Runs(c, r) /\ Runs(c, q) /\ Port[r] = Port[q]
                  /\ (r \in Remote <=> q \in Remote))
  /\ \A c, d \in Configs, r \in Verified, q \in Rules :
       r # q /\ c[r].key # NoKey => d[q].key # c[r].key
ASSUME BoundsAssumption == /\ Slots \in Nat \ {0} /\ Permits \in Nat \ {0}
                           /\ MaxOps \in Nat /\ MaxFaults \in Nat

VARIABLES
  entry,       \* the status table: generation, identity, desired state and runtime state
  generation,  \* the last generation given out
  group,       \* Engine::groups: the slot of the current supervisor of an identity, or 0
  task,        \* supervisor tasks and their sessions
  worker,      \* worker tasks of each session
  port,        \* who holds a port on the server: a supervisor's session, Ghost or Free
  op,          \* the operation under way
  ops, faults  \* counters for the bounds

vars == <<entry, generation, group, task, worker, port, op, ops, faults>>
engine == <<generation, group, op, ops>>

Tasks == Keys \X (1..Slots)
Ports == {Port[r] : r \in Remote}
\* A port nobody holds, and one whose session the server has not yet given up.
Free == <<NoKey, 0>>
Ghost == <<NoKey, 1>>
State == {"Stopped", "Starting", "Established", "Backoff", "NeedsAttention", "Stopping",
          "Unverified"}
Outcome == {"none", "transient", "attention"}
-----------------------------------------------------------------------------
(***************************************************************************)
(* State of a supervisor and of a worker.  desired is the value in the     *)
(* watch channel, fresh that the supervisor has not seen it yet.           *)
(***************************************************************************)
Wanted == [gen : Nat, on : BOOLEAN]
TaskPc == {"none", "top", "acquire", "connect", "serve", "drain", "closing", "decide",
           "await", "backoff"}
Task == [pc : TaskPc, desired : [Rules -> Wanted], fresh : BOOLEAN, cancel : BOOLEAN,
         outcome : Outcome, open : BOOLEAN, disconnected : BOOLEAN, blocked : BOOLEAN,
         failed : BOOLEAN, claims : Nat, asked : SUBSET Rules]
NoSession(t) == [t EXCEPT !.open = FALSE, !.disconnected = FALSE, !.blocked = FALSE,
                          !.failed = FALSE, !.claims = 0, !.asked = {}]
NewTask(desired) ==
  [pc |-> "top", desired |-> desired, fresh |-> FALSE, cancel |-> FALSE, outcome |-> "none",
   open |-> FALSE, disconnected |-> FALSE, blocked |-> FALSE, failed |-> FALSE, claims |-> 0,
   asked |-> {}]
Nobody == [r \in Rules |-> [gen |-> 0, on |-> FALSE]]
NoTask == [NewTask(Nobody) EXCEPT !.pc = "none"]

WorkerPc == {"none", "start", "bind", "claim", "request", "pending", "granted", "confirmed",
             "open", "wait", "withdraw", "compensate", "release", "blocked", "failed", "done"}
Worker == [pc : WorkerPc, gen : Nat, cancel : BOOLEAN, refusals : 0..3]
NoWorker == [pc |-> "none", gen |-> 0, cancel |-> FALSE, refusals |-> 0]
NoWorkers == [r \in Rules |-> NoWorker]
Alive(w) == w.pc \notin {"none", "done"}

\* The current supervisor of an identity.
Current(k) == <<k, group[k]>>
Entry == [gen : Nat, key : Keys \cup {NoKey}, on : BOOLEAN, state : State]
NoEntry == [gen |-> 0, key |-> NoKey, on |-> FALSE, state |-> "Stopped"]
Configured(r) == entry[r].gen # 0
OnIn(t) == {r \in Rules : task[t].desired[r].on}
In(t) == {r \in Rules : task[t].desired[r].gen # 0}
-----------------------------------------------------------------------------
(***************************************************************************)
(* Statuses.  An update carries the generation of its rule and is dropped  *)
(* once a newer generation exists.                                         *)
(***************************************************************************)
\* Seeded fault: a late update reaches a newer generation.
UpdatedByName(r, gen, state) ==
  IF Configured(r) THEN [entry[r] EXCEPT !.state = state] ELSE entry[r]

\* Rule::update.
Updated(r, gen, state) ==
  IF Configured(r) /\ entry[r].gen = gen THEN [entry[r] EXCEPT !.state = state] ELSE entry[r]

Report(r, gen, state) == entry' = [entry EXCEPT ![r] = Updated(r, gen, state)]

\* set_running, after the stopped rules have been reported.
Announce(t, among, state) ==
  [r \in Rules |->
     LET wanted == task[t].desired[r] IN
     CASE r \in In(t) /\ ~wanted.on -> Updated(r, wanted.gen, "Stopped")
       [] r \in In(t) /\ wanted.on /\ r \in among -> Updated(r, wanted.gen, state)
       [] OTHER -> entry[r]]
-----------------------------------------------------------------------------
(***************************************************************************)
(* Operations on the engine.  They hold the daemon's state lock, so one    *)
(* follows the other; the tasks go on meanwhile.                           *)
(***************************************************************************)
NoOp == [kind |-> "none", rules |-> {}, tasks |-> {}]
MayBegin == op.kind = "none" /\ ops < MaxOps
BeginOp == ops' = ops + 1

\* The status entry of a rule whose specification or identity has changed.
Replaced(r, key, on) ==
  [gen |-> generation + 1, key |-> key, on |-> on,
   state |-> IF on THEN "Starting"
             ELSE IF Configured(r) /\ entry[r].state \notin {"Stopped", "NeedsAttention", "Backoff"}
                  THEN "Stopping" ELSE "Stopped"]
\* runtime_equal and the comparison of the identity: an edit that keeps the generation.
RuntimeEqual(c, r) == c[r].key = entry[r].key /\ c[r].on = entry[r].on
Reconciled(c) ==
  [r \in Rules |-> IF c[r].key = NoKey THEN NoEntry
                   ELSE IF RuntimeEqual(c, r) THEN entry[r] ELSE Replaced(r, c[r].key, c[r].on)]

\* The rules handed to the supervisor of identity k.
Handed(table, k) ==
  [r \in Rules |-> IF table[r].key = k THEN [gen |-> table[r].gen, on |-> table[r].on]
                                       ELSE [gen |-> 0, on |-> FALSE]]

\* New supervisors take a free slot: retired ones are not waited for.
Unused(k) == {i \in 1..Slots : task[<<k, i>>].pc = "none"}
LeastUnused(k) == CHOOSE i \in Unused(k) : \A j \in Unused(k) : i <= j

\* Engine::reconcile: replace entries, cancel obsolete supervisors, wake or start the others.
Reconcile(table) ==
  LET wanted == {k \in Keys : \E r \in Rules : table[r].key = k}
      new    == {k \in wanted : group[k] = 0}
  IN  /\ \A k \in new : Unused(k) # {}
      /\ entry' = table
      /\ group' = [k \in Keys |-> CASE k \in new -> LeastUnused(k)
                                    [] k \in wanted \ new -> group[k]
                                    [] OTHER -> 0]
      /\ task' = [t \in Tasks |->
           CASE t[1] \in new /\ t[2] = LeastUnused(t[1]) -> NewTask(Handed(table, t[1]))
             [] t[1] \in wanted /\ t[2] = group[t[1]] ->
                  [task[t] EXCEPT !.desired = Handed(table, t[1]),
                                  !.fresh = @ \/ task[t].desired # Handed(table, t[1])]
             [] t[1] \notin wanted /\ t[2] = group[t[1]] -> [task[t] EXCEPT !.cancel = TRUE]
             [] OTHER -> task[t]]

\* A commit or reload: any edit of rules, servers or the SSH configuration.
Reload ==
  /\ MayBegin /\ BeginOp
  /\ \E c \in Configs : Reconcile(Reconciled(c))
  /\ generation' = generation + 1
  /\ UNCHANGED <<worker, port, op, faults>>

\* request_generation selects while it holds the status table, then releases it.
Select(kind, rules) ==
  /\ op' = [NoOp EXCEPT !.kind = kind, !.rules = rules]
  /\ UNCHANGED <<entry, generation, group, task, worker, port, faults>>
Selections == {rules \in SUBSET {r \in Rules : Configured(r) /\ entry[r].on} : rules # {}}

Retry ==
  /\ MayBegin /\ BeginOp
  /\ \E rules \in Selections :
       /\ \A r \in rules : entry[r].state \notin {"Established", "Starting", "Stopping"}
       /\ Select("retry", rules)
Restart ==
  /\ MayBegin /\ BeginOp
  /\ \E rules \in Selections : Select("restart", rules)
\* reconnect_server; the model has one server.
RestartServer ==
  /\ MayBegin /\ BeginOp
  /\ \E r \in Rules : Configured(r)
  /\ Select("server", {r \in Rules : Configured(r) /\ entry[r].on})

\* Seeded fault: the supervisors are not told of the new generation.
UntoldOf(rules) == task

\* The new generation in the watch channel of each current supervisor.
ToldOf(rules) ==
  [t \in Tasks |->
     IF t = Current(t[1]) /\ In(t) \cap rules # {}
     THEN [task[t] EXCEPT !.fresh = TRUE,
             !.desired = [r \in Rules |-> IF r \in rules \cap In(t)
                                          THEN [task[t].desired[r] EXCEPT !.gen = generation + 1]
                                          ELSE task[t].desired[r]]]
     ELSE task[t]]

Bump ==
  /\ op.kind \in {"retry", "restart", "server"}
  /\ generation' = generation + 1
  /\ entry' = [r \in Rules |-> IF r \in op.rules
                               THEN [entry[r] EXCEPT !.gen = generation + 1, !.state = "Starting"]
                               ELSE entry[r]]
  /\ task' = ToldOf(op.rules)
  /\ op' = IF op.kind = "server" THEN [op EXCEPT !.kind = "retire"] ELSE NoOp
  /\ UNCHANGED <<group, worker, port, ops, faults>>

Retire ==
  /\ op.kind = "retire"
  /\ LET retired == {t \in Tasks : t = Current(t[1])} IN
       /\ task' = [t \in Tasks |-> IF t \in retired THEN [task[t] EXCEPT !.cancel = TRUE]
                                                     ELSE task[t]]
       /\ op' = [op EXCEPT !.kind = "join", !.tasks = retired]
  /\ group' = [k \in Keys |-> 0]
  /\ UNCHANGED <<entry, generation, worker, port, ops, faults>>

\* join_cancelled; then reconcile starts a new supervisor for each identity.
Joined ==
  /\ op.kind = "join"
  /\ \A t \in op.tasks : task[t].pc = "none"
  /\ Reconcile(entry)
  /\ op' = NoOp
  /\ UNCHANGED <<generation, worker, port, ops, faults>>

\* Engine::shutdown.
Shutdown ==
  /\ MayBegin /\ BeginOp
  /\ group' = [k \in Keys |-> 0]
  /\ task' = [t \in Tasks |-> IF task[t].pc = "none" THEN task[t]
                                                     ELSE [task[t] EXCEPT !.cancel = TRUE]]
  /\ op' = [NoOp EXCEPT !.kind = "shutdown"]
  /\ UNCHANGED <<entry, generation, worker, port, faults>>
ShutDown ==
  /\ op.kind = "shutdown"
  /\ \A t \in Tasks : task[t].pc = "none"
  /\ entry' = [r \in Rules |-> [entry[r] EXCEPT !.state = "Stopped"]]
  /\ op' = [NoOp EXCEPT !.kind = "down"]
  /\ UNCHANGED <<generation, group, task, worker, port, ops, faults>>
-----------------------------------------------------------------------------
(***************************************************************************)
(* Supervisors: connection::supervise and connected.                       *)
(***************************************************************************)
Fault == faults < MaxFaults /\ faults' = faults + 1
NoFault == UNCHANGED faults

\* The task returns; its slot is free again.
End(t) == task' = [task EXCEPT ![t] = NoTask]
Goto(t, pc) == task' = [task EXCEPT ![t].pc = pc]
Seen(t, pc) == task' = [task EXCEPT ![t].pc = pc, ![t].fresh = FALSE]

Top(t) ==
  /\ task[t].pc = "top" /\ NoFault
  /\ IF task[t].cancel
     THEN entry' = Announce(t, {}, "Stopped") /\ End(t)
     ELSE /\ entry' = Announce(t, Rules, "Starting")
          /\ Seen(t, IF OnIn(t) = {} THEN "await" ELSE "acquire")
  /\ UNCHANGED <<engine, worker, port>>

\* Waiting for a permit, a connection, a change or the retry timer ends early.
Wake(t) ==
  /\ task[t].pc \in {"acquire", "connect", "await", "backoff"} /\ NoFault
  /\ \/ task[t].cancel /\ End(t)
     \/ /\ task[t].fresh /\ (task[t].cancel => task[t].pc \in {"await", "backoff"})
        /\ Goto(t, "top")
  /\ UNCHANGED <<engine, entry, worker, port>>


Undisturbed(t) == ~task[t].cancel /\ ~task[t].fresh

\* A permit of connection_limit is held while connecting.
Acquire(t) ==
  /\ task[t].pc = "acquire" /\ Undisturbed(t) /\ NoFault
  /\ Cardinality({u \in Tasks : task[u].pc = "connect"}) < Permits
  /\ Goto(t, "connect")
  /\ UNCHANGED <<engine, entry, worker, port>>

Connect(t) ==
  /\ task[t].pc = "connect" /\ Undisturbed(t) /\ NoFault
  /\ task' = [task EXCEPT ![t] = [NoSession(@) EXCEPT !.pc = "serve", !.open = TRUE]]
  /\ UNCHANGED <<engine, entry, worker, port>>
ConnectFails(t) ==
  /\ task[t].pc = "connect" /\ Undisturbed(t) /\ Fault
  /\ \E outcome \in {"transient", "attention"} :
       task' = [task EXCEPT ![t].pc = "decide", ![t].outcome = outcome]
  /\ UNCHANGED <<engine, entry, worker, port>>

\* The session is going down: workers are cancelled, and told that the transport can
\* confirm nothing if there was a failure or it has closed.
Leave(t, outcome, workers, fresh) ==
  /\ worker' = [worker EXCEPT ![t] =
                  [r \in Rules |-> [workers[r] EXCEPT !.cancel = Alive(workers[r])]]]
  /\ task' = [task EXCEPT ![t].pc = "drain", ![t].fresh = fresh, ![t].outcome = outcome,
                          ![t].disconnected = outcome # "none" \/ ~task[t].open]

\* Seeded fault: remote ports are not compared.
NeverOccupied(t, r) == FALSE

\* A previous owner of the remote port has not finished.
Occupied(t, r) ==
  \E q \in Remote \ {r} : r \in Remote /\ Alive(worker[t][q]) /\ Port[q] = Port[r]

\* Seeded fault: the session of a finished verified worker is kept.
NeverSpent(t) == FALSE

\* A verified worker has finished: its session is not used again.
Spent(t) == \E r \in Verified : worker[t][r].pc = "done"

\* One pass of the loop in connected: reap, cancel, start, and leave if there is a reason.
Reaped(t) == [r \in Rules |-> IF worker[t][r].pc = "done" THEN NoWorker ELSE worker[t][r]]
Stale(t, r) ==
  Alive(worker[t][r]) /\ \/ task[t].desired[r].gen # worker[t][r].gen
                         \/ ~task[t].desired[r].on
Startable(t, r) == ~Alive(worker[t][r]) /\ task[t].desired[r].on /\ ~Occupied(t, r)
Passed(t) ==
  [r \in Rules |->
     CASE Stale(t, r) -> [worker[t][r] EXCEPT !.cancel = TRUE]
       [] Startable(t, r) -> [NoWorker EXCEPT !.pc = "start", !.gen = task[t].desired[r].gen]
       [] OTHER -> Reaped(t)[r]]
\* Seeded fault: a stopped rule is reported before its worker has finished.
ReportsAtOnce(t) ==
  [r \in Rules |-> IF r \in In(t) /\ ~task[t].desired[r].on
                   THEN Updated(r, task[t].desired[r].gen, "Stopped") ELSE entry[r]]

PassReports(t) ==
  [r \in Rules |->
     LET wanted == task[t].desired[r] IN
     CASE r \notin In(t) -> entry[r]
       [] Stale(t, r) \/ (wanted.on /\ Occupied(t, r) /\ ~Alive(worker[t][r]))
            -> Updated(r, wanted.gen, "Stopping")
       [] ~wanted.on /\ ~Alive(worker[t][r]) -> Updated(r, wanted.gen, "Stopped")
       [] OTHER -> entry[r]]

Pass(t) ==
  /\ task[t].pc = "serve" /\ NoFault
  /\ IF task[t].cancel \/ Spent(t)
     THEN /\ Leave(t, "none", Reaped(t), FALSE)
          /\ UNCHANGED entry
     ELSE /\ entry' = PassReports(t)
          /\ IF ~task[t].open
             THEN Leave(t, IF task[t].blocked THEN "attention" ELSE "transient", Passed(t), FALSE)
             ELSE IF \A r \in Rules : ~Alive(Passed(t)[r])
             THEN Leave(t, "none", Passed(t), FALSE)
             ELSE worker' = [worker EXCEPT ![t] = Passed(t)] /\ Seen(t, "serve")
  /\ UNCHANGED <<engine, port>>

\* The message of a worker that asks for a new session.
Reconnect(t) ==
  /\ task[t].pc = "serve" /\ task[t].failed /\ NoFault
  /\ Leave(t, "transient", worker[t], task[t].fresh)
  /\ UNCHANGED <<engine, entry, port>>

\* A session that ends leaves its listeners to the server, which closes them some time later.
Abandon(t) == port' = [p \in Ports |-> IF port[p] = t THEN Ghost ELSE port[p]]

Drained(t) == \A r \in Rules : ~Alive(worker[t][r])

\* The session's end: workers are gone, the handle is disconnected.
EndSession(t) ==
  /\ task' = [task EXCEPT ![t] = [NoSession(@) EXCEPT !.pc = "closing"]]
  /\ worker' = [worker EXCEPT ![t] = NoWorkers]
  /\ Abandon(t)
  /\ UNCHANGED <<engine, entry, faults>>

Drain(t) ==
  /\ task[t].pc = "drain" /\ Drained(t)
  /\ EndSession(t)

\* After three seconds the transport counts as lost, and who does not return is aborted.
Expires(t) == ~Drained(t)
DrainTimeout(t) ==
  /\ task[t].pc = "drain" /\ Expires(t)
  /\ EndSession(t)

Close(t) ==
  /\ task[t].pc = "closing" /\ NoFault
  /\ IF task[t].cancel THEN End(t)
     ELSE Goto(t, IF task[t].outcome = "none" THEN "top" ELSE "decide")
  /\ UNCHANGED <<engine, entry, worker, port>>

\* After a failure: read the rules again, and report the failure on all that run.
Decide(t) ==
  /\ task[t].pc = "decide" /\ NoFault
  /\ entry' = Announce(t, Rules, IF task[t].outcome = "attention" THEN "NeedsAttention"
                                                                 ELSE "Backoff")
  /\ task' = [task EXCEPT ![t].fresh = FALSE, ![t].outcome = "none",
        ![t].pc = IF OnIn(t) = {} THEN "top"
                  ELSE IF task[t].outcome = "attention" THEN "await" ELSE "backoff"]
  /\ UNCHANGED <<engine, worker, port>>

RetryTimer(t) ==
  /\ task[t].pc = "backoff" /\ NoFault
  /\ Goto(t, "top")
  /\ UNCHANGED <<engine, entry, worker, port>>

Supervise(t) == \/ Top(t) \/ Wake(t) \/ Acquire(t) \/ Connect(t) \/ Pass(t) \/ Reconnect(t)
                \/ Drain(t) \/ DrainTimeout(t) \/ Close(t) \/ Decide(t) \/ RetryTimer(t)
-----------------------------------------------------------------------------
(***************************************************************************)
(* Workers: forward::run and remote::run.                                  *)
(***************************************************************************)
\* The token of a worker is a child of its supervisor's.
Cancelled(t, r) == worker[t][r].cancel \/ task[t].cancel
Disconnected(t) == task[t].disconnected
At(t, r, pc) == worker[t][r].pc = pc
Move(t, r, pc) == worker' = [worker EXCEPT ![t][r].pc = pc]
Tell(t, r, state) == Report(r, worker[t][r].gen, state)
Quiet == UNCHANGED entry
Hold == UNCHANGED <<engine, task>>

\* Local listeners of the other workers.
Bound(t, r) ==
  \E u \in Tasks, q \in Rules \ Remote :
    <<u, q>> # <<t, r>> /\ Port[q] = Port[r] /\ worker[u][q].pc = "open"

Local(t, r) ==
  /\ r \notin Remote /\ NoFault
  /\ \/ /\ At(t, r, "start") /\ Quiet
        /\ Move(t, r, IF Cancelled(t, r) THEN "done" ELSE "bind")
     \/ /\ At(t, r, "bind")
        /\ IF Bound(t, r) THEN Tell(t, r, "Backoff") /\ Move(t, r, "wait")
                          ELSE Tell(t, r, "Established") /\ Move(t, r, "open")
     \/ /\ At(t, r, "wait") /\ Quiet
        /\ Move(t, r, IF Cancelled(t, r) THEN "done" ELSE "start")
     \/ /\ At(t, r, "open") /\ Cancelled(t, r) /\ Quiet
        /\ Move(t, r, "done")
  /\ UNCHANGED port /\ Hold

\* Another process has the local port.
BindFails(t, r) ==
  /\ r \notin Remote /\ At(t, r, "bind") /\ Fault
  /\ Tell(t, r, "Backoff") /\ Move(t, r, "wait")
  /\ UNCHANGED port /\ Hold

\* cleanup_failure and attention: a worker waits until its session is taken down.  Each
\* claim, confirmation, release and lost lease may end so.
Block(t, r, pc) ==
  /\ Tell(t, r, IF pc = "blocked" THEN "NeedsAttention" ELSE "Backoff")
  /\ Move(t, r, pc)
  /\ task' = [task EXCEPT ![t].blocked = @ \/ pc = "blocked", ![t].failed = @ \/ pc = "failed"]
  /\ UNCHANGED engine

HelperFails(t, r) ==
  /\ r \in Verified /\ ~Disconnected(t) /\ Fault
  /\ \/ At(t, r, "release")
     \/ worker[t][r].pc \in {"claim", "open"} /\ ~Cancelled(t, r)
  /\ \E pc \in {"blocked", "failed"} : Block(t, r, pc)
  /\ UNCHANGED port

\* Where a worker with a lease goes before it returns.
Returning(r) == IF r \in Verified THEN "release" ELSE "done"

\* Claiming a lease ends the previous session of this rule on the server.
Claim(t, r) ==
  /\ At(t, r, "claim") /\ NoFault
  /\ IF Cancelled(t, r) \/ Disconnected(t)
     THEN Move(t, r, "done") /\ UNCHANGED port
     ELSE /\ Move(t, r, "request")
          /\ port' = [port EXCEPT ![Port[r]] = IF @ = Ghost THEN Free ELSE @]
  /\ Quiet /\ Hold

Attempts == 3

\* What a worker does with a refusal, if it is still waiting for the answer.
TakeRefusal(t, r) ==
  LET refusals == IF r \in Verified THEN worker[t][r].refusals + 1 ELSE 0 IN
  IF ~At(t, r, "pending") THEN Quiet /\ UNCHANGED worker
  ELSE IF Cancelled(t, r) THEN Quiet /\ Move(t, r, Returning(r))
  ELSE /\ worker' = [worker EXCEPT ![t][r].refusals = refusals,
                                   ![t][r].pc = IF refusals = Attempts THEN "release" ELSE "wait"]
       /\ IF refusals = Attempts THEN Quiet ELSE Tell(t, r, "Backoff")

\* The server answers a request, which may come after the worker has gone.
Granted(t, r) ==
  /\ r \in task[t].asked /\ port[Port[r]] = Free /\ NoFault
  /\ port' = [port EXCEPT ![Port[r]] = t]
  /\ task' = [task EXCEPT ![t].asked = @ \ {r}]
  /\ IF At(t, r, "pending") THEN Move(t, r, "granted") ELSE UNCHANGED worker
  /\ Quiet /\ UNCHANGED engine
Refused(t, r) ==
  /\ r \in task[t].asked /\ port[Port[r]] # Free /\ NoFault
  /\ task' = [task EXCEPT ![t].asked = @ \ {r}]
  /\ TakeRefusal(t, r)
  /\ UNCHANGED <<engine, port>>

\* A request on a transport that has closed fails too.
Broken(t, r) ==
  /\ At(t, r, "pending") /\ ~task[t].open /\ ~Disconnected(t) /\ NoFault
  /\ TakeRefusal(t, r)
  /\ UNCHANGED port /\ Hold

\* A slow answer changes what is shown, and nothing else.
Slow(t, r) ==
  /\ worker[t][r].pc \in {"pending", "compensate"} /\ ~Disconnected(t) /\ NoFault
  /\ Tell(t, r, IF Cancelled(t, r) THEN "Stopping" ELSE "Unverified")
  /\ UNCHANGED <<worker, port>> /\ Hold

\* Seeded fault: a cancelled worker does not wait for the answer to its request.
GivesUpOnCancel(t, r) == Disconnected(t) \/ Cancelled(t, r)

\* protocol_request keeps waiting until the answer comes or the session is gone.
GivesUp(t, r) == Disconnected(t)

Start(t, r) ==
  /\ r \in Remote /\ At(t, r, "start") /\ NoFault
  /\ IF Cancelled(t, r) \/ Disconnected(t) THEN Move(t, r, "done") /\ UNCHANGED task
     ELSE IF r \in Verified
     THEN Move(t, r, "claim") /\ task' = [task EXCEPT ![t].claims = @ + 1]
     ELSE Move(t, r, "request") /\ UNCHANGED task
  /\ Quiet /\ UNCHANGED <<engine, port>>
Request(t, r) ==
  /\ At(t, r, "request") /\ NoFault
  /\ IF Cancelled(t, r) \/ Disconnected(t)
     THEN Move(t, r, IF Disconnected(t) THEN "done" ELSE Returning(r)) /\ UNCHANGED task
     ELSE /\ Move(t, r, "pending")
          /\ task' = [task EXCEPT ![t].asked = IF task[t].open THEN @ \cup {r} ELSE @]
  /\ Quiet /\ UNCHANGED <<engine, port>>
Wait(t, r) ==
  /\ r \in Remote /\ NoFault
  /\ \/ At(t, r, "wait") /\ Move(t, r, IF Cancelled(t, r) THEN Returning(r) ELSE "request")
     \/ At(t, r, "pending") /\ GivesUp(t, r) /\ Move(t, r, "done")
  /\ Quiet /\ UNCHANGED port /\ Hold

\* A granted port is confirmed by the helper; a rejected one is given back.
Confirm(t, r) ==
  /\ r \in Verified /\ At(t, r, "granted") /\ ~Cancelled(t, r)
  /\ \/ NoFault /\ Move(t, r, IF Disconnected(t) THEN "done" ELSE "confirmed")
     \/ Fault /\ ~Disconnected(t) /\ Move(t, r, "compensate")
  /\ Quiet /\ UNCHANGED port /\ Hold

MayOpen(t, r) == ~Cancelled(t, r) /\ ~Disconnected(t)
Open(t, r) ==
  /\ \/ At(t, r, "confirmed")
     \/ At(t, r, "granted") /\ (r \notin Verified \/ Cancelled(t, r))
  /\ NoFault
  /\ IF MayOpen(t, r) THEN Tell(t, r, "Established") /\ Move(t, r, "open")
     ELSE IF Disconnected(t) THEN Quiet /\ Move(t, r, "done")
     ELSE Tell(t, r, "Stopping") /\ Move(t, r, "withdraw")
  /\ UNCHANGED port /\ Hold

\* Seeded fault: the lease is given up before the listener.
LeaseFirst(r) == Returning(r)

\* The listener is cancelled first, the lease released after that.
Closing(r) == "withdraw"
Withdraw(t, r) ==
  /\ r \in Remote /\ At(t, r, "open") /\ (Cancelled(t, r) \/ Disconnected(t)) /\ NoFault
  /\ IF Disconnected(t) THEN Quiet /\ Move(t, r, "done")
                        ELSE Tell(t, r, "Stopping") /\ Move(t, r, Closing(r))
  /\ UNCHANGED port /\ Hold

\* cancel_listener repeats the request until an answer comes or the session is gone.
Withdrawn(t, r) ==
  /\ worker[t][r].pc \in {"withdraw", "compensate"} /\ NoFault
  /\ \/ /\ Disconnected(t) /\ Move(t, r, "done")
        /\ Quiet /\ UNCHANGED port /\ Hold
     \/ /\ ~Disconnected(t) /\ task[t].open
        /\ port' = [port EXCEPT ![Port[r]] = Free]
        /\ IF At(t, r, "withdraw") THEN Move(t, r, Returning(r)) /\ Quiet /\ Hold
           ELSE \E pc \in {"blocked", "failed"} : Block(t, r, pc)
     \/ /\ ~Disconnected(t) /\ ~task[t].open
        /\ Tell(t, r, "Stopping") /\ UNCHANGED <<worker, port>> /\ Hold

\* The lease is released; after three refusals the user has to act.
Release(t, r) ==
  /\ At(t, r, "release") /\ NoFault
  /\ IF ~Disconnected(t) /\ worker[t][r].refusals = Attempts THEN Block(t, r, "blocked")
     ELSE Move(t, r, "done") /\ Quiet /\ Hold
  /\ UNCHANGED port

LetGo(t, r) ==
  /\ worker[t][r].pc \in {"blocked", "failed"} /\ NoFault
  /\ Cancelled(t, r) \/ Disconnected(t)
  /\ Move(t, r, "done") /\ Quiet /\ UNCHANGED port /\ Hold

Work(t, r) == \/ Local(t, r) \/ Start(t, r) \/ Claim(t, r) \/ Request(t, r) \/ Wait(t, r)
              \/ Granted(t, r) \/ Refused(t, r) \/ Broken(t, r) \/ Slow(t, r) \/ Confirm(t, r)
              \/ Open(t, r) \/ Withdraw(t, r) \/ Withdrawn(t, r) \/ Release(t, r) \/ LetGo(t, r)
-----------------------------------------------------------------------------
(***************************************************************************)
(* The network and the server.                                             *)
(***************************************************************************)
LoseTransport(t) ==
  /\ task[t].pc \in {"serve", "drain"} /\ task[t].open /\ Fault
  /\ task' = [task EXCEPT ![t].open = FALSE, ![t].asked = {}]
  /\ Abandon(t)
  /\ UNCHANGED <<engine, entry, worker>>

\* The server notices that the session of a listener is gone.
Reap(p) ==
  /\ port[p] = Ghost
  /\ port' = [port EXCEPT ![p] = Free]
  /\ UNCHANGED <<engine, entry, task, worker, faults>>
-----------------------------------------------------------------------------
Init ==
  /\ entry = [r \in Rules |-> NoEntry] /\ generation = 0
  /\ group = [k \in Keys |-> 0]
  /\ task = [t \in Tasks |-> NoTask] /\ worker = [t \in Tasks |-> NoWorkers]
  /\ port = [p \in Ports |-> Free]
  /\ op = NoOp
  /\ ops = 0 /\ faults = 0

Operate == \/ Reload \/ Retry \/ Restart \/ RestartServer
           \/ Bump \/ Retire \/ Joined \/ Shutdown \/ ShutDown
Proceed == Bump \/ Retire \/ Joined \/ ShutDown

Next == \/ Operate
        \/ \E t \in Tasks : Supervise(t) \/ ConnectFails(t) \/ LoseTransport(t)
        \/ \E t \in Tasks, r \in Rules : Work(t, r) \/ BindFails(t, r) \/ HelperFails(t, r)
        \/ \E p \in Ports : Reap(p)

Spec == Init /\ [][Next]_vars
\* Every task of the process is scheduled, and the server answers and notices lost sessions.
Fairness ==
  /\ WF_vars(Proceed)
  /\ \A t \in Tasks : WF_vars(Supervise(t))
  /\ \A t \in Tasks, r \in Rules : WF_vars(Work(t, r))
  /\ \A p \in Ports : WF_vars(Reap(p))
FairSpec == Spec /\ Fairness
-----------------------------------------------------------------------------
\* Every variable holds what its field can hold.
TypeOK ==
  /\ entry \in [Rules -> Entry] /\ generation \in Nat
  /\ group \in [Keys -> 0..Slots]
  /\ task \in [Tasks -> Task]
  /\ worker \in [Tasks -> [Rules -> Worker]]
  /\ port \in [Ports -> Tasks \cup {Free, Ghost}]
  /\ op \in [kind : {"none", "retry", "restart", "server", "retire", "join", "shutdown", "down"},
             rules : SUBSET Rules, tasks : SUBSET Tasks]
  /\ ops \in 0..MaxOps /\ faults \in 0..MaxFaults

\* A rule shown as established is driven by a supervisor that has a session, or has just
\* lost it: whoever waits, backs off or connects has taken the state back before
\* (supervise sets a new state on each way out of connected, and waits for its workers).
EstablishedIsDriven ==
  \A r \in Rules :
    Configured(r) /\ entry[r].state = "Established" /\ group[entry[r].key] # 0 =>
      LET t == Current(entry[r].key) IN
      \/ task[t].pc \in {"drain", "closing", "decide", "top"}
      \/ /\ task[t].pc = "serve" /\ worker[t][r].gen = entry[r].gen
         /\ worker[t][r].pc \in {"open", "done"}
      \/ task[t].cancel

\* One session never holds or asks for a remote port for two workers (connected starts a
\* rule only when the previous owner of its port has finished).
OneOwnerPerSession ==
  \A t \in Tasks, r, q \in Remote :
    r # q /\ Port[r] = Port[q] => ~(Alive(worker[t][r]) /\ Alive(worker[t][q]))

\* A rule that its supervisor has seen and that is shown as stopped has no worker left in
\* the supervisor's session.
StoppedIsClosed ==
  \A r \in Rules :
    Configured(r) /\ entry[r].state = "Stopped" /\ group[entry[r].key] # 0 =>
      LET t == Current(entry[r].key) IN ~task[t].fresh => ~Alive(worker[t][r])

\* A session claims a lease at most once (remote::run, connected).
OneClaimPerSession == \A t \in Tasks : task[t].claims <= 1

\* A lease is released only after the listener it stands for has been cancelled.
ReleasedIsClosed ==
  \A t \in Tasks, r \in Verified : At(t, r, "release") => port[Port[r]] # t

\* A session that is closed on purpose leaves no listener to the server: every request is
\* answered and every port given back before the workers are gone, unless the helper or
\* the transport failed (protocol_request, cancel_listener).
CleanClose ==
  \A t \in Tasks :
    LET s == task[t] IN
    s.pc = "drain" /\ Drained(t) /\ s.open /\ ~s.disconnected /\ ~s.blocked /\ ~s.failed =>
      s.asked = {} /\ \A p \in Ports : port[p] # t

\* After every sequence of operations and failures each rule settles in the state that
\* was asked for, or asks for attention.
Settled(r) ==
  Configured(r) =>
    IF entry[r].on /\ op.kind # "down" THEN entry[r].state \in {"Established", "NeedsAttention"}
                                       ELSE entry[r].state = "Stopped"
Settles == \A r \in Rules : <>[]Settled(r)

=============================================================================
