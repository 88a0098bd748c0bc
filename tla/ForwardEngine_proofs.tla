------------------------ MODULE ForwardEngine_proofs ------------------------
(***************************************************************************)
(* What holds of the forward engine for every set of rules, identities and *)
(* configurations, whatever the tasks, the network and the server do.      *)
(*                                                                         *)
(* The proof goes in layers.  Types; what a session is and which rules can *)
(* ever be found in it; who holds a port and why; how the generations in   *)
(* the table, the watch channels and the workers follow each other.  Each  *)
(* layer has one lemma for each group of actions.                          *)
(***************************************************************************)
EXTENDS ForwardEngine, WellFoundedInduction, TLAPS
-----------------------------------------------------------------------------
(* Sessions: what is left of one, and which rules may be in it.            *)

InSession == {"serve", "drain"}
Holding == {"granted", "confirmed", "open", "withdraw", "compensate"}
Early == {"start", "claim", "request", "pending", "wait", "release"}
Belongs(r, k) == \E c \in Configs : c[r].key = k

\* Rules that may run at once.
Compatible(rules) ==
  \A r, q \in rules : r # q => ~(Port[r] = Port[q] /\ (r \in Remote <=> q \in Remote))

\* A worker that was refused for the last time asks no more.
RefusalsCounted ==
  \A t \in Tasks, r \in Rules :
    worker[t][r].refusals = Attempts =>
      worker[t][r].pc \in {"release", "blocked", "failed", "done"}

Types == TypeOK /\ RefusalsCounted

SessionsEnd ==
  \A t \in Tasks :
    /\ task[t].pc \notin InSession => worker[t] = NoWorkers /\ ~task[t].open
    /\ task[t].pc # "drain" => ~task[t].disconnected
    /\ ~task[t].open => task[t].asked = {} /\ \A p \in Ports : port[p] # t

EntriesValid ==
  /\ \A r \in Rules :
       /\ entry[r].gen = 0 <=> entry[r].key = NoKey
       /\ entry[r].gen = 0 => ~entry[r].on
       /\ entry[r].gen <= generation
       /\ entry[r].gen # 0 => Belongs(r, entry[r].key)
  /\ Compatible({r \in Rules : entry[r].on})

WantedValid ==
  \A t \in Tasks :
    /\ Compatible(OnIn(t))
    /\ \A r \in Rules :
         /\ task[t].desired[r].on => task[t].desired[r].gen # 0
         /\ task[t].desired[r].gen <= generation
         /\ task[t].desired[r].gen # 0 => Belongs(r, t[1])

WorkersValid ==
  \A t \in Tasks, r \in Rules :
    worker[t][r].pc # "none" =>
      /\ worker[t][r].gen # 0 /\ worker[t][r].gen <= generation
      /\ Belongs(r, t[1])
      /\ r \notin Remote => worker[t][r].pc \in {"start", "bind", "wait", "open", "done"}

DrainingIsCancelled ==
  \A t \in Tasks, r \in Rules :
    task[t].pc = "drain" /\ Alive(worker[t][r]) => worker[t][r].cancel

Sessions == /\ SessionsEnd /\ EntriesValid /\ WantedValid /\ WorkersValid
            /\ DrainingIsCancelled /\ OneOwnerPerSession
-----------------------------------------------------------------------------
(* Ports: what is asked for and what is held.                              *)
ClaimsCounted ==
  \A t \in Tasks :
    /\ task[t].claims <= 1
    /\ task[t].pc = "serve" /\ task[t].claims = 1 =>
         \E r \in Verified : worker[t][r].pc \notin {"none", "start"}

AskedIsPending ==
  \A t \in Tasks : \A r \in task[t].asked :
    /\ r \in Remote
    /\ worker[t][r].pc = "pending" \/ (task[t].disconnected /\ worker[t][r].pc = "done")

HeldIsDriven ==
  \A t \in Tasks, p \in Ports :
    port[p] = t /\ ~task[t].disconnected /\ ~task[t].blocked /\ ~task[t].failed =>
      \E r \in Remote : Port[r] = p /\ worker[t][r].pc \in Holding

EarlyHoldsNothing ==
  \A t \in Tasks, r \in Verified :
    Belongs(r, t[1]) /\ (worker[t][r].pc \in Early \/ (worker[t][r].pc = "none" /\ task[t].pc = "serve"))
      => port[Port[r]] # t

Holds == ClaimsCounted /\ AskedIsPending /\ HeldIsDriven /\ EarlyHoldsNothing
-----------------------------------------------------------------------------
(* Generations.                                                            *)
Leaving == {"join", "shutdown", "down"}

GroupsKept ==
  /\ op.kind \in Leaving => group = [k \in Keys |-> 0]
  /\ op.kind \notin Leaving => \A r \in Rules : Configured(r) => group[entry[r].key] # 0
  /\ op.kind \in {"retry", "restart", "server"} =>
       op.rules \subseteq {r \in Rules : Configured(r) /\ entry[r].on}
  /\ \A k \in Keys : group[k] # 0 =>
       LET s == task[Current(k)] IN
       s.pc # "none" /\ ~s.cancel /\ s.desired = Handed(entry, k)

\* Only the current supervisor of a rule has its generation.
WantedMatch ==
  \A t \in Tasks, r \in Rules :
    task[t].pc # "none" /\ Configured(r) /\ task[t].desired[r].gen = entry[r].gen =>
      /\ t[1] = entry[r].key /\ task[t].desired[r].on = entry[r].on
      /\ t = Current(t[1]) \/ op.kind \in Leaving
      /\ op.kind = "join" => t \in op.tasks

WorkersMatch ==
  \A t \in Tasks, r \in Rules :
    worker[t][r].pc # "none" =>
      /\ Configured(r) /\ worker[t][r].gen = entry[r].gen =>
           task[t].desired[r] = [gen |-> entry[r].gen, on |-> TRUE]
      /\ worker[t][r].gen = task[t].desired[r].gen => task[t].desired[r].on

DoneIsCancelled ==
  \A t \in Tasks, r \in Rules :
    LET w == worker[t][r] IN
    task[t].pc = "serve" /\ ~task[t].cancel =>
      /\ w.pc \in {"done", "withdraw"} \/ (w.pc = "release" /\ w.refusals # Attempts) => w.cancel
      /\ w.pc # "none" /\ w.cancel => w.gen # task[t].desired[r].gen

Generations == GroupsKept /\ WantedMatch /\ WorkersMatch /\ DoneIsCancelled

StoppedIsOff ==
  \A r \in Rules :
    Configured(r) /\ entry[r].state = "Stopped" /\ op.kind # "down" => ~entry[r].on

\* What the table shows of the rules.
Shown == StoppedIsOff /\ EstablishedIsDriven /\ StoppedIsClosed

IInv == Types /\ Sessions /\ Holds /\ Generations /\ Shown
-----------------------------------------------------------------------------
(* Types.                                                                  *)
LEMMA TaskTypes ==
  /\ \A t \in Task : NoSession(t) \in Task
  /\ \A desired \in [Rules -> Wanted] : NewTask(desired) \in Task
  /\ NoTask \in Task /\ NoWorkers \in [Rules -> Worker] /\ NoWorker \in Worker
  /\ NoEntry \in Entry
<1>1. \A t \in Task : NoSession(t) \in Task
  BY DEF NoSession, Task
<1>2. \A desired \in [Rules -> Wanted] : NewTask(desired) \in Task
  BY DEF NewTask, Task, TaskPc, Outcome
<1>3. Nobody \in [Rules -> Wanted]
  BY DEF Nobody, Wanted
<1>4. NoTask \in Task
  BY <1>2, <1>3 DEF NoTask, Task, TaskPc
<1>5. NoWorkers \in [Rules -> Worker] /\ NoWorker \in Worker
  BY DEF NoWorkers, NoWorker, Worker, WorkerPc
<1>6. NoEntry \in Entry
  BY DEF NoEntry, Entry, State
<1> QED
  BY <1>1, <1>2, <1>4, <1>5, <1>6

\* An update changes the state of its own generation and nothing else.
LEMMA UpdatedFits ==
  ASSUME entry \in [Rules -> Entry], NEW r \in Rules, NEW gen, NEW state \in State
  PROVE  /\ Updated(r, gen, state) \in Entry
         /\ Updated(r, gen, state).gen = entry[r].gen
         /\ Updated(r, gen, state).key = entry[r].key
         /\ Updated(r, gen, state).on = entry[r].on
         /\ Updated(r, gen, state) # entry[r] => Configured(r) /\ entry[r].gen = gen
         /\ Configured(r) /\ entry[r].gen = gen => Updated(r, gen, state).state = state
<1>1. entry[r] \in Entry
  OBVIOUS
<1> QED
  BY <1>1 DEF Updated, Entry, Configured

\* The table after a step of a task: only states have changed.
Relabelled ==
  /\ entry' \in [Rules -> Entry]
  /\ \A q \in Rules : entry'[q].gen = entry[q].gen /\ entry'[q].key = entry[q].key
                       /\ entry'[q].on = entry[q].on
\* Only the states of the generations that the supervisor t has have changed.
ByWanted(t) ==
  \A q \in Rules : entry'[q] # entry[q] =>
    /\ Configured(q) /\ entry[q].gen = task[t].desired[q].gen
    /\ entry'[q].state = "Stopped" => ~task[t].desired[q].on

LEMMA ReportFits ==
  ASSUME entry \in [Rules -> Entry], NEW r \in Rules, NEW gen, NEW state \in State,
         Report(r, gen, state)
  PROVE  /\ Relabelled
         /\ \A q \in Rules : entry'[q] # entry[q] => q = r /\ Configured(r) /\ entry[r].gen = gen
         /\ Configured(r) /\ entry[r].gen = gen => entry'[r].state = state
<1>1. entry' = [entry EXCEPT ![r] = Updated(r, gen, state)]
  BY DEF Report
<1> QED
  BY <1>1, UpdatedFits DEF Relabelled

LEMMA AnnounceFits ==
  ASSUME entry \in [Rules -> Entry], NEW t \in Tasks, NEW among, NEW state \in State,
         entry' = Announce(t, among, state), among = {} \/ state # "Stopped"
  PROVE  /\ Relabelled /\ ByWanted(t)
         /\ \A q \in Rules : Configured(q) /\ entry[q].gen = task[t].desired[q].gen =>
              /\ ~task[t].desired[q].on => entry'[q].state = "Stopped"
              /\ task[t].desired[q].on /\ q \in among => entry'[q].state = state
              /\ task[t].desired[q].on /\ q \notin among => entry'[q] = entry[q]
<1>1. "Stopped" \in State
  BY DEF State
<1>2. entry' = [q \in Rules |->
         CASE q \in In(t) /\ ~task[t].desired[q].on
                -> Updated(q, task[t].desired[q].gen, "Stopped")
           [] q \in In(t) /\ task[t].desired[q].on /\ q \in among
                -> Updated(q, task[t].desired[q].gen, state)
           [] OTHER -> entry[q]]
  BY DEF Announce
<1>3. ASSUME NEW q \in Rules
      PROVE  \/ entry'[q] = entry[q]
             \/ /\ entry'[q] = Updated(q, task[t].desired[q].gen, "Stopped")
                /\ ~task[t].desired[q].on
             \/ /\ entry'[q] = Updated(q, task[t].desired[q].gen, state)
                /\ state # "Stopped"
  BY <1>2
<1>4. Relabelled /\ ByWanted(t)
  BY <1>1, <1>2, <1>3, UpdatedFits DEF Relabelled, ByWanted
<1>5. ASSUME NEW q \in Rules, Configured(q), entry[q].gen = task[t].desired[q].gen
      PROVE  /\ ~task[t].desired[q].on => entry'[q].state = "Stopped"
             /\ task[t].desired[q].on /\ q \in among => entry'[q].state = state
             /\ task[t].desired[q].on /\ q \notin among => entry'[q] = entry[q]
  <2>1. q \in In(t)
    BY <1>5 DEF In, Configured
  <2> QED
    BY <1>1, <1>2, <1>5, <2>1, UpdatedFits
<1> QED
  BY <1>4, <1>5

LEMMA PassReportsFit ==
  ASSUME entry \in [Rules -> Entry], NEW t \in Tasks, entry' = PassReports(t)
  PROVE  /\ Relabelled /\ ByWanted(t)
         /\ \A q \in Rules : Configured(q) /\ entry[q].gen = task[t].desired[q].gen =>
              /\ Stale(t, q) => entry'[q].state = "Stopping"
              /\ entry'[q] = entry[q] \/ entry'[q].state = "Stopping"
                 \/ (entry'[q].state = "Stopped" /\ ~task[t].desired[q].on /\ ~Alive(worker[t][q]))
<1> DEFINE Held(q) == Stale(t, q) \/ (task[t].desired[q].on /\ Occupied(t, q)
                                        /\ ~Alive(worker[t][q]))
           Gone(q) == ~task[t].desired[q].on /\ ~Alive(worker[t][q])
<1>1. "Stopped" \in State /\ "Stopping" \in State
  BY DEF State
<1>2. entry' = [q \in Rules |->
         CASE q \notin In(t) -> entry[q]
           [] Held(q) -> Updated(q, task[t].desired[q].gen, "Stopping")
           [] Gone(q) -> Updated(q, task[t].desired[q].gen, "Stopped")
           [] OTHER -> entry[q]]
  BY DEF PassReports
<1>3. \A q \in Rules : (Stale(t, q) => Held(q)) /\ ~(Held(q) /\ Gone(q))
  BY DEF Stale
<1> HIDE DEF Held, Gone
<1>4. ASSUME NEW q \in Rules
      PROVE  \/ entry'[q] = entry[q]
             \/ entry'[q] = Updated(q, task[t].desired[q].gen, "Stopping")
             \/ entry'[q] = Updated(q, task[t].desired[q].gen, "Stopped") /\ Gone(q)
  BY <1>2
<1>5. Relabelled /\ ByWanted(t)
  <2>1. ASSUME NEW q \in Rules
        PROVE  /\ entry'[q].gen = entry[q].gen /\ entry'[q].key = entry[q].key
               /\ entry'[q].on = entry[q].on /\ entry'[q] \in Entry
               /\ entry'[q] # entry[q] =>
                    /\ Configured(q) /\ entry[q].gen = task[t].desired[q].gen
                    /\ entry'[q].state = "Stopping" \/ Gone(q)
    BY <1>1, <1>4, UpdatedFits
  <2>2. entry' = [q \in Rules |-> entry'[q]]
    BY <1>2
  <2>3. entry' \in [Rules -> Entry]
    BY <2>1, <2>2
  <2> QED
    BY <2>1, <2>3 DEF Relabelled, ByWanted, Gone
<1>6. ASSUME NEW q \in Rules, Configured(q), entry[q].gen = task[t].desired[q].gen
      PROVE  /\ Stale(t, q) => entry'[q].state = "Stopping"
             /\ entry'[q] = entry[q] \/ entry'[q].state = "Stopping"
                \/ (entry'[q].state = "Stopped" /\ Gone(q))
  <2>1. q \in In(t)
    BY <1>6 DEF In, Configured
  <2> QED
    BY <1>1, <1>2, <1>3, <1>6, <2>1, UpdatedFits
<1> QED
  BY <1>5, <1>6 DEF Gone
-----------------------------------------------------------------------------
(* What a step of a worker may change.                                     *)
LocalPc == {"none", "start", "bind", "wait", "open", "done"}
\* The worker r of session t has moved, if any has.
Moved(t, r) ==
  /\ worker' \in [Tasks -> [Rules -> Worker]]
  /\ \A u \in Tasks, q \in Rules : u # t \/ q # r => worker'[u][q] = worker[u][q]
  /\ worker'[t][r].gen = worker[t][r].gen /\ worker'[t][r].cancel = worker[t][r].cancel
  /\ worker'[t][r] = worker[t][r] \/ (Alive(worker[t][r]) /\ worker'[t][r].pc # "none")
\* The session t has changed, its supervisor has not.
SessionMoved(t, r) ==
  /\ task' \in [Tasks -> Task]
  /\ \A u \in Tasks : u # t => task'[u] = task[u]
  /\ task'[t].pc = task[t].pc /\ task'[t].desired = task[t].desired
  /\ task'[t].fresh = task[t].fresh /\ task'[t].cancel = task[t].cancel
  /\ task'[t].outcome = task[t].outcome /\ task'[t].open = task[t].open
  /\ task'[t].disconnected = task[t].disconnected
  /\ task'[t].asked \subseteq task[t].asked \cup {r}
  /\ ~task[t].open => task'[t].asked \subseteq task[t].asked
  /\ task[t].blocked => task'[t].blocked
  /\ task[t].failed => task'[t].failed
\* A port is granted on request, or given up.
PortMoved(t, r) ==
  /\ port' \in [Ports -> Tasks \cup {Free, Ghost}]
  /\ \A p \in Ports : port'[p] = port[p] \/ port'[p] \in {Free, Ghost}
                      \/ (port'[p] = t /\ p = Port[r] /\ r \in task[t].asked /\ port[p] = Free)
Told(t, r) ==
  /\ Relabelled
  /\ \A q \in Rules : entry'[q] # entry[q] =>
       q = r /\ Configured(r) /\ entry[r].gen = worker[t][r].gen
\* A claim is counted when the worker leaves its first step, and no cancelled one does.
Claims(t, r) ==
  \/ task'[t].claims = task[t].claims
  \/ /\ task'[t].claims = task[t].claims + 1 /\ r \in Verified /\ ~Cancelled(t, r)
     /\ worker[t][r].pc = "start" /\ worker'[t][r].pc = "claim"
\* Who has asked waits for the answer.
Asks(t, r) ==
  /\ r \in task'[t].asked /\ r \notin task[t].asked => r \in Remote /\ worker'[t][r].pc = "pending"
  /\ worker[t][r].pc = "pending" /\ r \in task'[t].asked /\ task[t].open =>
       worker'[t][r].pc = "pending" \/ (task[t].disconnected /\ worker'[t][r].pc = "done")
\* A port is taken for a worker that waits for it, and given back before the worker goes.
Holdings(t, r) ==
  /\ port'[Port[r]] = t /\ port[Port[r]] # t /\ worker[t][r].pc = "pending" =>
       worker'[t][r].pc = "granted"
  /\ r \in Remote /\ worker[t][r].pc \in Holding /\ worker'[t][r].pc \notin Holding =>
       \/ port'[Port[r]] # t
       \/ task[t].disconnected \/ task'[t].blocked \/ task'[t].failed
  /\ r \in Remote /\ worker'[t][r].pc \in Early /\ worker[t][r].pc \notin Early =>
       port'[Port[r]] # t
  /\ r \in Remote /\ worker'[t][r].pc = "start" => worker[t][r].pc = "start"
\* Whether a worker is on its way back because it was told to.
Back(w) == w.pc \in {"done", "withdraw"} \/ (w.pc = "release" /\ w.refusals # Attempts)
Returns(t, r) ==
  Back(worker'[t][r]) => Cancelled(t, r) \/ Disconnected(t) \/ Back(worker[t][r])
\* What a worker shows of itself.
Shows(t, r) ==
  LET current == Configured(r) /\ entry[r].gen = worker[t][r].gen IN
  /\ entry'[r].state = "Stopped" => entry'[r] = entry[r]
  /\ entry'[r].state = "Established" => entry'[r] = entry[r] \/ worker'[t][r].pc = "open"
  /\ current /\ entry'[r].state = "Established" /\ worker[t][r].pc = "open" =>
       worker'[t][r].pc \in {"open", "done"}

WorkerStep(t, r) ==
  /\ Moved(t, r) /\ SessionMoved(t, r) /\ PortMoved(t, r) /\ Told(t, r)
  /\ worker'[t][r].refusals = Attempts =>
       worker'[t][r].pc \in {"release", "blocked", "failed", "done"}
  /\ r \notin Remote /\ worker[t][r].pc \in LocalPc => worker'[t][r].pc \in LocalPc
  /\ Claims(t, r) /\ Asks(t, r) /\ Holdings(t, r) /\ Returns(t, r) /\ Shows(t, r)
  /\ UNCHANGED engine /\ faults' \in 0..MaxFaults

LEMMA MoveFits ==
  ASSUME TypeOK, NEW t \in Tasks, NEW r \in Rules, NEW pc \in WorkerPc \ {"none"},
         Alive(worker[t][r]), Move(t, r, pc)
  PROVE  Moved(t, r) /\ worker'[t][r].pc = pc /\ worker'[t][r].refusals = worker[t][r].refusals
<1>1. worker \in [Tasks -> [Rules -> Worker]]
  BY DEF TypeOK
<1>2. worker[t][r] \in Worker
  BY <1>1
<1>3. [worker[t][r] EXCEPT !.pc = pc] \in Worker
  BY <1>2 DEF Worker
<1>4. worker' = [worker EXCEPT ![t] = [worker[t] EXCEPT ![r] = [worker[t][r] EXCEPT !.pc = pc]]]
  BY <1>1, <1>2 DEF Move
<1>5. worker'[t][r] = [worker[t][r] EXCEPT !.pc = pc]
  BY <1>1, <1>4
<1>6. worker' \in [Tasks -> [Rules -> Worker]]
  BY <1>1, <1>3, <1>4
<1>7. worker'[t][r].pc = pc /\ worker'[t][r].gen = worker[t][r].gen
      /\ worker'[t][r].cancel = worker[t][r].cancel
      /\ worker'[t][r].refusals = worker[t][r].refusals
  BY <1>2, <1>5 DEF Worker
<1>8. \A u \in Tasks, q \in Rules : u # t \/ q # r => worker'[u][q] = worker[u][q]
  BY <1>1, <1>4
<1> QED
  BY <1>6, <1>7, <1>8 DEF Moved

LEMMA StillFits ==
  ASSUME TypeOK, NEW t \in Tasks, NEW r \in Rules
  PROVE  /\ UNCHANGED worker => Moved(t, r)
         /\ UNCHANGED task => SessionMoved(t, r)
         /\ UNCHANGED port => PortMoved(t, r)
         /\ UNCHANGED entry => Told(t, r)
         /\ UNCHANGED faults => faults' \in 0..MaxFaults
         /\ Fault => faults' \in 0..MaxFaults
<1>1. UNCHANGED worker => Moved(t, r)
  BY DEF Moved, TypeOK
<1>2. UNCHANGED task => SessionMoved(t, r)
  BY DEF SessionMoved, TypeOK
<1>3. UNCHANGED port => PortMoved(t, r)
  BY DEF PortMoved, TypeOK
<1>4. UNCHANGED entry => Told(t, r)
  BY DEF Told, Relabelled, TypeOK
<1>5. (UNCHANGED faults \/ Fault) => faults' \in 0..MaxFaults
  BY BoundsAssumption DEF Fault, TypeOK
<1> QED
  BY <1>1, <1>2, <1>3, <1>4, <1>5

LEMMA TellFits ==
  ASSUME TypeOK, NEW t \in Tasks, NEW r \in Rules, NEW state \in State, Tell(t, r, state)
  PROVE  /\ Told(t, r)
         /\ Configured(r) /\ entry[r].gen = worker[t][r].gen => entry'[r].state = state
<1>1. entry \in [Rules -> Entry] /\ Report(r, worker[t][r].gen, state)
  BY DEF TypeOK, Tell
<1> QED
  BY <1>1, ReportFits DEF Told

LEMMA AskFits ==
  ASSUME TypeOK, NEW t \in Tasks, NEW r \in Rules
  PROVE  /\ task' = [task EXCEPT ![t].claims = @ + 1] => SessionMoved(t, r)
         /\ task' = [task EXCEPT ![t].asked = IF task[t].open THEN @ \cup {r} ELSE @]
              => SessionMoved(t, r)
         /\ task' = [task EXCEPT ![t].asked = @ \ {r}] => SessionMoved(t, r)
<1>1. task \in [Tasks -> Task] /\ task[t] \in Task
  BY DEF TypeOK
<1>2. ASSUME task' = [task EXCEPT ![t].claims = @ + 1]
      PROVE  SessionMoved(t, r)
  <2>1. [task[t] EXCEPT !.claims = @ + 1] \in Task
    BY <1>1 DEF Task
  <2>2. task' = [task EXCEPT ![t] = [task[t] EXCEPT !.claims = @ + 1]]
    BY <1>1, <1>2
  <2> QED
    BY <1>1, <2>1, <2>2 DEF SessionMoved, Task
<1>3. ASSUME NEW asked \in SUBSET Rules, asked \subseteq task[t].asked \cup {r},
             ~task[t].open => asked \subseteq task[t].asked,
             task' = [task EXCEPT ![t].asked = asked]
      PROVE  SessionMoved(t, r)
  <2>1. [task[t] EXCEPT !.asked = asked] \in Task
    BY <1>1 DEF Task
  <2>2. task' = [task EXCEPT ![t] = [task[t] EXCEPT !.asked = asked]]
    BY <1>1, <1>3
  <2> QED
    BY <1>1, <1>3, <2>1, <2>2 DEF SessionMoved, Task
<1>4. task[t].asked \in SUBSET Rules
  BY <1>1 DEF Task
<1>5. task' = [task EXCEPT ![t].asked = IF task[t].open THEN @ \cup {r} ELSE @]
        => SessionMoved(t, r)
  <2> DEFINE A == IF task[t].open THEN task[t].asked \cup {r} ELSE task[t].asked
  <2>1. A \in SUBSET Rules /\ A \subseteq task[t].asked \cup {r}
        /\ (~task[t].open => A \subseteq task[t].asked)
    BY <1>4
  <2> QED
    BY <2>1, <1>3
<1>6. task' = [task EXCEPT ![t].asked = @ \ {r}] => SessionMoved(t, r)
  BY <1>3, <1>4
<1> QED
  BY <1>2, <1>5, <1>6

LEMMA BlockFits ==
  ASSUME TypeOK, NEW t \in Tasks, NEW r \in Rules, NEW pc \in {"blocked", "failed"},
         Alive(worker[t][r]), Block(t, r, pc)
  PROVE  /\ Moved(t, r) /\ worker'[t][r].pc = pc
         /\ SessionMoved(t, r) /\ Told(t, r)
         /\ task'[t].blocked \/ task'[t].failed
         /\ task'[t].asked = task[t].asked /\ task'[t].claims = task[t].claims
         /\ Configured(r) /\ entry[r].gen = worker[t][r].gen => entry'[r].state # "Stopped"
         /\ Configured(r) /\ entry[r].gen = worker[t][r].gen => entry'[r].state # "Established"
         /\ UNCHANGED engine
<1>1. pc \in WorkerPc \ {"none"} /\ "NeedsAttention" \in State /\ "Backoff" \in State
  BY DEF WorkerPc, State
<1>2. Moved(t, r) /\ worker'[t][r].pc = pc
  BY <1>1, MoveFits DEF Block
<1>3. Told(t, r)
      /\ (Configured(r) /\ entry[r].gen = worker[t][r].gen =>
            entry'[r].state \in {"NeedsAttention", "Backoff"})
  BY <1>1, TellFits DEF Block
<1>4. task \in [Tasks -> Task] /\ task[t] \in Task
  BY DEF TypeOK
<1> DEFINE s == [task[t] EXCEPT !.blocked = task[t].blocked \/ pc = "blocked",
                                !.failed = task[t].failed \/ pc = "failed"]
<1>5. s \in Task
  BY <1>4 DEF Task
<1>6. task' = [task EXCEPT ![t] = s]
  BY <1>4 DEF Block
<1>7. SessionMoved(t, r) /\ (task'[t].blocked \/ task'[t].failed)
      /\ task'[t].asked = task[t].asked /\ task'[t].claims = task[t].claims
  BY <1>4, <1>5, <1>6 DEF SessionMoved, Task
<1> QED
  BY <1>2, <1>3, <1>7 DEF Block

LEMMA RefusalFits ==
  ASSUME Types, NEW t \in Tasks, NEW r \in Rules, TakeRefusal(t, r)
  PROVE  /\ Moved(t, r) /\ Told(t, r)
         /\ ~At(t, r, "pending") => UNCHANGED <<worker, entry>>
         /\ At(t, r, "pending") => worker'[t][r].pc \in {"release", "done", "wait"}
         /\ At(t, r, "pending") /\ worker'[t][r].pc = "release" /\ ~Cancelled(t, r) =>
              worker'[t][r].refusals = Attempts
         /\ At(t, r, "pending") /\ worker'[t][r].refusals = Attempts =>
              worker'[t][r].pc = "release"
         /\ At(t, r, "pending") /\ worker'[t][r].pc = "release" => r \in Verified
         /\ At(t, r, "pending") /\ worker'[t][r].pc = "done" => Cancelled(t, r) /\ r \notin Verified
         /\ entry'[r] # entry[r] => entry'[r].state = "Backoff"
<1> DEFINE n == IF r \in Verified THEN worker[t][r].refusals + 1 ELSE 0
<1>1. worker \in [Tasks -> [Rules -> Worker]] /\ worker[t][r] \in Worker
  BY DEF TypeOK, Types
<1>2. "Backoff" \in State /\ entry \in [Rules -> Entry] /\ TypeOK
  BY DEF State, TypeOK, Types
<1>3. CASE ~At(t, r, "pending")
  <2>1. UNCHANGED <<worker, entry>>
    BY <1>3 DEF TakeRefusal, Quiet
  <2> QED
    BY <2>1, <1>2, <1>3, StillFits
<1>4. CASE At(t, r, "pending") /\ Cancelled(t, r)
  <2>1. Quiet /\ Move(t, r, Returning(r))
    BY <1>4 DEF TakeRefusal
  <2>2. Returning(r) \in WorkerPc \ {"none"} /\ Alive(worker[t][r])
    BY <1>4 DEF Returning, WorkerPc, At, Alive
  <2>3. Moved(t, r) /\ worker'[t][r].pc = Returning(r)
        /\ worker'[t][r].refusals = worker[t][r].refusals
    BY <1>2, <2>1, <2>2, MoveFits
  <2>4. worker[t][r].refusals # Attempts
    BY <1>4 DEF At, Types, RefusalsCounted
  <2> QED
    BY <1>2, <1>4, <2>1, <2>3, <2>4, StillFits DEF Quiet, Returning
<1>5. CASE At(t, r, "pending") /\ ~Cancelled(t, r)
  <2> DEFINE pc == IF n = Attempts THEN "release" ELSE "wait"
             w == [worker[t][r] EXCEPT !.refusals = n, !.pc = pc]
  <2>1. /\ worker' = [worker EXCEPT ![t][r].refusals = n, ![t][r].pc = pc]
        /\ IF n = Attempts THEN Quiet ELSE Tell(t, r, "Backoff")
    BY <1>5 DEF TakeRefusal
  <2>2. Told(t, r) /\ (entry'[r] # entry[r] => entry'[r].state = "Backoff")
    <3>1. CASE UNCHANGED entry
      BY <1>2, <3>1, StillFits
    <3>2. CASE Tell(t, r, "Backoff")
      <4>1. Told(t, r) /\ (Configured(r) /\ entry[r].gen = worker[t][r].gen =>
                             entry'[r].state = "Backoff")
        BY <1>2, <3>2, TellFits
      <4> QED
        BY <4>1 DEF Told
    <3> QED
      BY <2>1, <3>1, <3>2 DEF Quiet
  <2>3. n \in 0..3
    <3>1. worker[t][r].refusals \in 0..3 /\ worker[t][r].refusals # 3
      BY <1>1, <1>5 DEF Worker, At, Types, RefusalsCounted, Attempts
    <3> QED
      BY <3>1
  <2>4. pc \in WorkerPc /\ pc \in {"release", "wait"}
    BY DEF WorkerPc
  <2>5. (pc = "release" <=> n = Attempts) /\ (n = Attempts => r \in Verified)
    BY DEF Attempts
  <2> HIDE DEF n, pc
  <2>6. w \in Worker /\ w.pc = pc /\ w.refusals = n /\ w.gen = worker[t][r].gen
        /\ w.cancel = worker[t][r].cancel
    BY <1>1, <2>3, <2>4 DEF Worker
  <2> HIDE DEF w
  <2>7. worker' = [worker EXCEPT ![t] = [worker[t] EXCEPT ![r] = w]]
    BY <1>1, <2>1 DEF w
  <2>8. worker'[t][r] = w /\ Moved(t, r)
    <3>1. worker' \in [Tasks -> [Rules -> Worker]] /\ worker'[t][r] = w
      BY <1>1, <2>6, <2>7
    <3>2. \A u \in Tasks, q \in Rules : u # t \/ q # r => worker'[u][q] = worker[u][q]
      BY <1>1, <2>7
    <3>3. Alive(worker[t][r]) /\ w.pc # "none"
      BY <1>5, <2>4, <2>6 DEF Alive, At
    <3> QED
      BY <2>6, <3>1, <3>2, <3>3 DEF Moved
  <2> QED
    BY <1>5, <2>2, <2>4, <2>5, <2>6, <2>8
<1> QED
  BY <1>3, <1>4, <1>5

LEMMA LocalFits ==
  ASSUME Types, NEW t \in Tasks, NEW r \in Rules, Local(t, r) \/ BindFails(t, r)
  PROVE  WorkerStep(t, r)
<1>1. TypeOK /\ r \notin Remote /\ UNCHANGED <<engine, task, port>>
  BY DEF Types, Local, BindFails, Hold
<1>2. faults' \in 0..MaxFaults
  BY <1>1, StillFits DEF Local, BindFails, NoFault
<1>3. PICK pc \in {"done", "bind", "wait", "open", "start"} :
        /\ Move(t, r, pc) /\ worker[t][r].pc \in {"start", "bind", "wait", "open"}
        /\ pc = "done" => Cancelled(t, r)
        /\ worker[t][r].pc = "open" => pc = "done" /\ UNCHANGED entry
        /\ \/ UNCHANGED entry
           \/ \E state \in {"Backoff", "Established"} :
                Tell(t, r, state) /\ (state = "Established" => pc = "open")
  BY DEF Local, BindFails, At, Quiet
<1>4. Moved(t, r) /\ worker'[t][r].pc = pc /\ worker'[t][r].refusals = worker[t][r].refusals
  <2>1. Alive(worker[t][r]) /\ pc \in WorkerPc \ {"none"}
    BY <1>3 DEF Alive, WorkerPc
  <2> QED
    BY <1>1, <1>3, <2>1, MoveFits
<1>5. worker[t][r].refusals # Attempts
  BY <1>3 DEF Types, RefusalsCounted
<1>6. /\ Told(t, r)
      /\ \/ UNCHANGED entry
         \/ \E state \in {"Backoff", "Established"} :
              /\ Configured(r) /\ entry[r].gen = worker[t][r].gen => entry'[r].state = state
              /\ state = "Established" => pc = "open"
  <2>1. CASE UNCHANGED entry
    BY <1>1, <2>1, StillFits
  <2>2. ASSUME NEW state \in {"Backoff", "Established"}, Tell(t, r, state),
               state = "Established" => pc = "open"
        PROVE  <1>6!2 /\ Told(t, r)
    <3>1. state \in State
      BY DEF State
    <3> QED
      BY <1>1, <2>2, <3>1, TellFits
  <2> QED
    BY <1>3, <2>1, <2>2
<1>7. Returns(t, r)
  BY <1>3, <1>4, <1>5 DEF Returns, Back
<1>8. Shows(t, r)
  BY <1>3, <1>4, <1>6 DEF Shows, Told
<1>9. Claims(t, r) /\ Asks(t, r) /\ Holdings(t, r)
  BY <1>1, <1>3, <1>4 DEF Claims, Asks, Holdings
<1> QED
  BY <1>1, <1>2, <1>3, <1>4, <1>5, <1>6, <1>7, <1>8, <1>9, StillFits DEF WorkerStep, LocalPc

\* A step of a remote worker that moves and changes nothing of its session or of the ports.
LEMMA QuietMoveFits ==
  ASSUME Types, NEW t \in Tasks, NEW r \in Remote, NEW pc \in WorkerPc \ {"none", "start"},
         Alive(worker[t][r]), Move(t, r, pc), UNCHANGED <<engine, task, port>>,
         faults' \in 0..MaxFaults, Told(t, r), Shows(t, r),
         worker[t][r].pc = "pending" => Disconnected(t) /\ pc = "done",
         worker[t][r].pc \in Holding => pc \in Holding \/ Disconnected(t),
         pc \in Early => worker[t][r].pc \in Early,
         pc \in {"done", "withdraw"} =>
           Cancelled(t, r) \/ Disconnected(t)
           \/ (worker[t][r].pc = "release" /\ worker[t][r].refusals # Attempts),
         pc = "release" => Cancelled(t, r),
         worker[t][r].pc \in {"release", "blocked", "failed"} => pc = "done"
  PROVE  WorkerStep(t, r)
<1>1. TypeOK /\ r \in Rules
  BY RulesAssumption DEF Types
<1>2. Moved(t, r) /\ worker'[t][r].pc = pc /\ worker'[t][r].refusals = worker[t][r].refusals
  BY <1>1, MoveFits
<1>3. worker[t][r].refusals = Attempts =>
        worker[t][r].pc \in {"release", "blocked", "failed"}
  BY <1>1 DEF Types, RefusalsCounted, Alive
<1>4. worker'[t][r].refusals = Attempts => pc = "done"
  BY <1>2, <1>3
<1>5. Returns(t, r)
  BY <1>2 DEF Returns, Back
<1>6. Claims(t, r) /\ Asks(t, r)
  BY <1>2 DEF Claims, Asks, Disconnected
<1>7. Holdings(t, r)
  BY <1>2 DEF Holdings, Disconnected
<1> QED
  BY <1>1, <1>2, <1>4, <1>5, <1>6, <1>7, StillFits DEF WorkerStep

\* A step that shows nothing.
LEMMA SilentFits ==
  ASSUME Types, NEW t \in Tasks, NEW r \in Rules, UNCHANGED entry,
         Moved(t, r), worker[t][r].pc = "open" => worker'[t][r].pc \in {"open", "done"}
  PROVE  Told(t, r) /\ Shows(t, r)
BY StillFits DEF Types, Shows


\* Showing a state that is neither established nor stopped.
LEMMA TellShows ==
  ASSUME Types, NEW t \in Tasks, NEW r \in Rules,
         NEW state \in State \ {"Stopped", "Established"}, Tell(t, r, state)
  PROVE  Told(t, r) /\ Shows(t, r)
<1>1. Told(t, r) /\ (Configured(r) /\ entry[r].gen = worker[t][r].gen => entry'[r].state = state)
  BY TellFits DEF Types
<1> QED
  BY <1>1 DEF Told, Shows

LEMMA StartFits ==
  ASSUME Types, NEW t \in Tasks, NEW r \in Rules, Start(t, r)
  PROVE  WorkerStep(t, r)
<1>1. TypeOK /\ r \in Remote /\ worker[t][r].pc = "start" /\ Alive(worker[t][r])
  BY DEF Types, Start, At, Alive
<1>2. UNCHANGED <<engine, port, entry>> /\ faults' \in 0..MaxFaults
  BY <1>1, StillFits DEF Start, NoFault, Quiet
<1>3. PICK pc \in {"done", "claim", "request"} :
        /\ Move(t, r, pc)
        /\ pc = "done" => Cancelled(t, r) \/ Disconnected(t)
        /\ \/ UNCHANGED task
           \/ /\ pc = "claim" /\ r \in Verified /\ ~Cancelled(t, r)
              /\ task' = [task EXCEPT ![t].claims = @ + 1]
  BY DEF Start
<1>4. Moved(t, r) /\ worker'[t][r].pc = pc /\ worker'[t][r].refusals = worker[t][r].refusals
  <2>1. pc \in WorkerPc \ {"none"}
    BY DEF WorkerPc
  <2> QED
    BY <1>1, <1>3, <2>1, MoveFits
<1>5. SessionMoved(t, r)
  BY <1>1, <1>3, StillFits, AskFits
<1>6. Told(t, r) /\ Shows(t, r)
  BY <1>1, <1>2, <1>4, SilentFits
<1>7. worker'[t][r].refusals # Attempts
  BY <1>1, <1>4 DEF Types, RefusalsCounted
<1>8. Claims(t, r) /\ task'[t].asked = task[t].asked
  <2>1. task[t] \in Task /\ task \in [Tasks -> Task]
    BY <1>1 DEF TypeOK
  <2>2. task' = [task EXCEPT ![t].claims = @ + 1] =>
          task'[t].claims = task[t].claims + 1 /\ task'[t].asked = task[t].asked
    BY <2>1 DEF Task
  <2> QED
    BY <1>1, <1>3, <1>4, <2>2 DEF Claims
<1>9. Asks(t, r) /\ Holdings(t, r) /\ Returns(t, r)
  BY <1>1, <1>2, <1>3, <1>4, <1>8 DEF Asks, Holdings, Returns, Back, Holding, Early
<1> QED
  BY <1>1, <1>2, <1>4, <1>5, <1>6, <1>7, <1>8, <1>9, StillFits DEF WorkerStep

LEMMA ClaimFits ==
  ASSUME Types, NEW t \in Tasks, NEW r \in Remote, Claim(t, r)
  PROVE  WorkerStep(t, r)
<1>1. TypeOK /\ r \in Rules /\ worker[t][r].pc = "claim" /\ Alive(worker[t][r])
  BY RulesAssumption DEF Types, Claim, At, Alive
<1>2. UNCHANGED <<engine, task, entry>> /\ faults' \in 0..MaxFaults
  BY <1>1, StillFits DEF Claim, NoFault, Quiet, Hold
<1>3. PICK pc \in {"done", "request"} :
        /\ Move(t, r, pc)
        /\ pc = "done" => Cancelled(t, r) \/ Disconnected(t)
        /\ \/ UNCHANGED port
           \/ port' = [port EXCEPT ![Port[r]] = IF @ = Ghost THEN Free ELSE @]
  BY DEF Claim
<1>4. Moved(t, r) /\ worker'[t][r].pc = pc /\ worker'[t][r].refusals = worker[t][r].refusals
  <2>1. pc \in WorkerPc \ {"none"}
    BY DEF WorkerPc
  <2> QED
    BY <1>1, <1>3, <2>1, MoveFits
<1>5. PortMoved(t, r) /\ \A p \in Ports : port'[p] = port[p] \/ port'[p] = Free
  BY <1>1, <1>3 DEF PortMoved, TypeOK
<1>6. Told(t, r) /\ Shows(t, r)
  BY <1>1, <1>2, <1>4, SilentFits
<1>7. worker'[t][r].refusals # Attempts
  BY <1>1, <1>4 DEF Types, RefusalsCounted
<1>8. Claims(t, r) /\ Asks(t, r) /\ Holdings(t, r) /\ Returns(t, r)
  BY <1>1, <1>2, <1>3, <1>4 DEF Claims, Asks, Holdings, Returns, Back, Holding, Early
<1> QED
  BY <1>1, <1>2, <1>4, <1>5, <1>6, <1>7, <1>8, StillFits DEF WorkerStep

LEMMA RequestFits ==
  ASSUME Types, NEW t \in Tasks, NEW r \in Remote, Request(t, r)
  PROVE  WorkerStep(t, r)
<1>1. TypeOK /\ r \in Rules /\ worker[t][r].pc = "request" /\ Alive(worker[t][r])
  BY RulesAssumption DEF Types, Request, At, Alive
<1>2. UNCHANGED <<engine, port, entry>> /\ faults' \in 0..MaxFaults
  BY <1>1, StillFits DEF Request, NoFault, Quiet
<1>3. PICK pc \in {"done", "release", "pending"} :
        /\ Move(t, r, pc)
        /\ pc # "pending" => Cancelled(t, r) \/ Disconnected(t)
        /\ \/ UNCHANGED task
           \/ /\ pc = "pending"
              /\ task' = [task EXCEPT ![t].asked = IF task[t].open THEN @ \cup {r} ELSE @]
  BY DEF Request, Returning
<1>4. Moved(t, r) /\ worker'[t][r].pc = pc /\ worker'[t][r].refusals = worker[t][r].refusals
  <2>1. pc \in WorkerPc \ {"none"}
    BY DEF WorkerPc
  <2> QED
    BY <1>1, <1>3, <2>1, MoveFits
<1>5. SessionMoved(t, r)
  BY <1>1, <1>3, StillFits, AskFits
<1>6. Told(t, r) /\ Shows(t, r)
  BY <1>1, <1>2, <1>4, SilentFits
<1>7. worker'[t][r].refusals # Attempts
  BY <1>1, <1>4 DEF Types, RefusalsCounted
<1>8. task'[t].claims = task[t].claims /\ (task'[t].asked # task[t].asked => pc = "pending")
  <2>1. task[t] \in Task /\ task \in [Tasks -> Task]
    BY <1>1 DEF TypeOK
  <2> DEFINE A == IF task[t].open THEN task[t].asked \cup {r} ELSE task[t].asked
  <2>2. task' = [task EXCEPT ![t] = [task[t] EXCEPT !.asked = A]] \/ UNCHANGED task
    BY <1>3, <2>1
  <2> HIDE DEF A
  <2>3. task'[t].claims = task[t].claims
    BY <2>1, <2>2 DEF Task
  <2> QED
    BY <1>3, <2>3
<1>9. Claims(t, r) /\ Asks(t, r) /\ Holdings(t, r) /\ Returns(t, r)
  BY <1>1, <1>2, <1>3, <1>4, <1>8 DEF Claims, Asks, Holdings, Returns, Back, Holding, Early
<1> QED
  BY <1>1, <1>2, <1>4, <1>5, <1>6, <1>7, <1>8, <1>9, StillFits DEF WorkerStep

LEMMA WaitFits ==
  ASSUME Types, NEW t \in Tasks, NEW r \in Rules, Wait(t, r)
  PROVE  WorkerStep(t, r)
<1>1. TypeOK /\ r \in Remote /\ UNCHANGED <<engine, task, port, entry>> /\ faults' \in 0..MaxFaults
  BY StillFits DEF Types, Wait, Quiet, Hold, NoFault
<1>2. PICK pc \in {"release", "done", "request"} :
        /\ Move(t, r, pc)
        /\ \/ worker[t][r].pc = "wait" /\ (pc # "request" => Cancelled(t, r))
           \/ worker[t][r].pc = "pending" /\ Disconnected(t) /\ pc = "done"
  BY DEF Wait, At, GivesUp, Returning
<1>3. pc \in WorkerPc \ {"none", "start"} /\ Alive(worker[t][r])
  BY <1>2 DEF WorkerPc, Alive
<1>4. Moved(t, r)
  BY <1>1, <1>2, <1>3, MoveFits
<1>5. Told(t, r) /\ Shows(t, r)
  BY <1>1, <1>2, <1>4, SilentFits
<1> QED
  BY <1>1, <1>2, <1>3, <1>5, QuietMoveFits DEF Holding, Early

LEMMA LetGoFits ==
  ASSUME Types, NEW t \in Tasks, NEW r \in Remote, LetGo(t, r)
  PROVE  WorkerStep(t, r)
<1>1. TypeOK /\ UNCHANGED <<engine, task, port, entry>> /\ faults' \in 0..MaxFaults
      /\ Move(t, r, "done") /\ worker[t][r].pc \in {"blocked", "failed"}
      /\ (Cancelled(t, r) \/ Disconnected(t))
  BY RulesAssumption, StillFits DEF Types, LetGo, Quiet, Hold, NoFault
<1>2. "done" \in WorkerPc \ {"none", "start"} /\ Alive(worker[t][r])
  BY <1>1 DEF WorkerPc, Alive
<1>3. Moved(t, r)
  BY <1>1, <1>2, MoveFits, RulesAssumption
<1>4. Told(t, r) /\ Shows(t, r)
  BY <1>1, <1>3, SilentFits, RulesAssumption
<1> QED
  BY <1>1, <1>2, <1>4, QuietMoveFits DEF Holding, Early

LEMMA ConfirmFits ==
  ASSUME Types, NEW t \in Tasks, NEW r \in Rules, Confirm(t, r)
  PROVE  WorkerStep(t, r)
<1>1. TypeOK /\ r \in Remote /\ UNCHANGED <<engine, task, port, entry>>
      /\ faults' \in 0..MaxFaults
  BY RulesAssumption, StillFits DEF Types, Confirm, Quiet, Hold, NoFault
<1>2. PICK pc \in {"done", "confirmed", "compensate"} :
        /\ Move(t, r, pc) /\ worker[t][r].pc = "granted"
        /\ pc = "done" => Disconnected(t)
  BY DEF Confirm, At
<1>3. pc \in WorkerPc \ {"none", "start"} /\ Alive(worker[t][r])
  BY <1>2 DEF WorkerPc, Alive
<1>4. Moved(t, r)
  BY <1>1, <1>2, <1>3, MoveFits
<1>5. Told(t, r) /\ Shows(t, r)
  BY <1>1, <1>2, <1>4, SilentFits
<1> QED
  BY <1>1, <1>2, <1>3, <1>5, QuietMoveFits DEF Holding, Early

LEMMA OpenFits ==
  ASSUME Types, NEW t \in Tasks, NEW r \in Remote, Open(t, r)
  PROVE  WorkerStep(t, r)
<1>1. TypeOK /\ r \in Rules /\ UNCHANGED <<engine, task, port>> /\ faults' \in 0..MaxFaults
  BY RulesAssumption, StillFits DEF Types, Open, Hold, NoFault
<1>2. PICK pc \in {"done", "open", "withdraw"} :
        /\ Move(t, r, pc) /\ worker[t][r].pc \in {"granted", "confirmed"}
        /\ pc = "done" => Disconnected(t) /\ UNCHANGED entry
        /\ pc = "open" => Tell(t, r, "Established")
        /\ pc = "withdraw" => Cancelled(t, r) /\ Tell(t, r, "Stopping")
  BY DEF Open, At, MayOpen, Quiet
<1>3. pc \in WorkerPc \ {"none", "start"} /\ Alive(worker[t][r])
  BY <1>2 DEF WorkerPc, Alive
<1>4. Moved(t, r) /\ worker'[t][r].pc = pc
  BY <1>1, <1>2, <1>3, MoveFits
<1>5. Told(t, r) /\ Shows(t, r)
  <2>1. CASE pc = "done"
    BY <1>1, <1>2, <1>4, <2>1, SilentFits
  <2>2. CASE pc = "withdraw"
    <3>1. "Stopping" \in State \ {"Stopped", "Established"}
      BY DEF State
    <3> QED
      BY <1>1, <1>2, <2>2, <3>1, TellShows
  <2>3. CASE pc = "open"
    <3>1. "Established" \in State
      BY DEF State
    <3>2. Told(t, r) /\ (Configured(r) /\ entry[r].gen = worker[t][r].gen =>
                           entry'[r].state = "Established")
      BY <1>1, <1>2, <2>3, <3>1, TellFits
    <3> QED
      BY <1>1, <1>2, <1>4, <2>3, <3>2 DEF Told, Shows
  <2> QED
    BY <1>2, <2>1, <2>2, <2>3
<1> QED
  BY <1>1, <1>2, <1>3, <1>5, QuietMoveFits DEF Holding, Early

LEMMA WithdrawFits ==
  ASSUME Types, NEW t \in Tasks, NEW r \in Rules, Withdraw(t, r)
  PROVE  WorkerStep(t, r)
<1>1. TypeOK /\ r \in Remote /\ UNCHANGED <<engine, task, port>> /\ faults' \in 0..MaxFaults
  BY StillFits DEF Types, Withdraw, Hold, NoFault
<1>2. PICK pc \in {"done", "withdraw"} :
        /\ Move(t, r, pc) /\ worker[t][r].pc = "open"
        /\ Cancelled(t, r) \/ Disconnected(t)
        /\ pc = "done" => Disconnected(t) /\ UNCHANGED entry
        /\ pc = "withdraw" => Tell(t, r, "Stopping")
  BY DEF Withdraw, At, Closing, Quiet
<1>3. pc \in WorkerPc \ {"none", "start"} /\ Alive(worker[t][r])
  BY <1>2 DEF WorkerPc, Alive
<1>4. Moved(t, r) /\ worker'[t][r].pc = pc
  BY <1>1, <1>2, <1>3, MoveFits
<1>5. Told(t, r) /\ Shows(t, r)
  <2>1. CASE pc = "done"
    BY <1>1, <1>2, <1>4, <2>1, SilentFits
  <2>2. CASE pc = "withdraw"
    <3>1. "Stopping" \in State \ {"Stopped", "Established"}
      BY DEF State
    <3> QED
      BY <1>1, <1>2, <2>2, <3>1, TellShows
  <2> QED
    BY <1>2, <2>1, <2>2
<1> QED
  BY <1>1, <1>2, <1>3, <1>5, QuietMoveFits DEF Holding, Early

\* Nothing but the table changes, or nothing at all but the worker stays where it is.
LEMMA StandingFits ==
  ASSUME Types, NEW t \in Tasks, NEW r \in Remote, UNCHANGED <<engine, task, worker>>,
         faults' \in 0..MaxFaults, Told(t, r), Shows(t, r), UNCHANGED port
  PROVE  WorkerStep(t, r)
<1>1. TypeOK /\ r \in Rules
  BY RulesAssumption DEF Types
<1>2. Claims(t, r) /\ Asks(t, r) /\ Holdings(t, r) /\ Returns(t, r)
  BY DEF Claims, Asks, Holdings, Returns
<1>3. worker'[t][r].refusals = Attempts =>
        worker'[t][r].pc \in {"release", "blocked", "failed", "done"}
  BY <1>1 DEF Types, RefusalsCounted
<1> QED
  BY <1>1, <1>2, <1>3, StillFits DEF WorkerStep

LEMMA SlowFits ==
  ASSUME Types, NEW t \in Tasks, NEW r \in Remote, Slow(t, r)
  PROVE  WorkerStep(t, r)
<1>1. r \in Rules /\ UNCHANGED <<engine, task, worker, port>> /\ faults' \in 0..MaxFaults
  BY RulesAssumption, StillFits DEF Types, Slow, Hold, NoFault
<1>2. PICK state \in State \ {"Stopped", "Established"} : Tell(t, r, state)
  <2>1. {"Stopping", "Unverified"} \subseteq State \ {"Stopped", "Established"}
    BY DEF State
  <2> QED
    BY <2>1 DEF Slow
<1>3. Told(t, r) /\ Shows(t, r)
  BY <1>1, <1>2, TellShows
<1> QED
  BY <1>1, <1>3, StandingFits

LEMMA BlockedFits ==
  ASSUME Types, NEW t \in Tasks, NEW r \in Remote, NEW pc \in {"blocked", "failed"},
         Block(t, r, pc), Alive(worker[t][r]), worker[t][r].pc # "pending",
         PortMoved(t, r), faults' \in 0..MaxFaults
  PROVE  WorkerStep(t, r)
<1>1. TypeOK /\ r \in Rules
  BY RulesAssumption DEF Types
<1>2. /\ Moved(t, r) /\ worker'[t][r].pc = pc /\ SessionMoved(t, r) /\ Told(t, r)
      /\ task'[t].blocked \/ task'[t].failed
      /\ task'[t].asked = task[t].asked /\ task'[t].claims = task[t].claims
      /\ Configured(r) /\ entry[r].gen = worker[t][r].gen => entry'[r].state # "Stopped"
      /\ Configured(r) /\ entry[r].gen = worker[t][r].gen => entry'[r].state # "Established"
      /\ UNCHANGED engine
  BY <1>1, BlockFits
<1>3. Shows(t, r)
  BY <1>1, <1>2 DEF Shows, Told
<1>4. Claims(t, r) /\ Asks(t, r) /\ Holdings(t, r) /\ Returns(t, r)
  BY <1>2 DEF Claims, Asks, Holdings, Returns, Back, Early
<1> QED
  BY <1>1, <1>2, <1>3, <1>4 DEF WorkerStep

LEMMA HelperFailsFits ==
  ASSUME Types, NEW t \in Tasks, NEW r \in Rules, HelperFails(t, r)
  PROVE  WorkerStep(t, r)
<1>1. TypeOK /\ r \in Remote /\ UNCHANGED port /\ faults' \in 0..MaxFaults
  BY RulesAssumption, StillFits DEF Types, HelperFails
<1>2. PICK pc \in {"blocked", "failed"} : Block(t, r, pc)
  BY DEF HelperFails
<1>3. Alive(worker[t][r]) /\ worker[t][r].pc # "pending"
  BY DEF HelperFails, At, Alive
<1> QED
  BY <1>1, <1>2, <1>3, StillFits, BlockedFits

LEMMA ReleaseFits ==
  ASSUME Types, NEW t \in Tasks, NEW r \in Remote, Release(t, r)
  PROVE  WorkerStep(t, r)
<1>1. TypeOK /\ r \in Rules /\ UNCHANGED port /\ faults' \in 0..MaxFaults
  BY RulesAssumption, StillFits DEF Types, Release, NoFault
<1>2. worker[t][r].pc = "release" /\ Alive(worker[t][r])
  BY DEF Release, At, Alive
<1>3. CASE Block(t, r, "blocked")
  BY <1>1, <1>2, <1>3, StillFits, BlockedFits
<1>4. CASE /\ Disconnected(t) \/ worker[t][r].refusals # Attempts
           /\ Move(t, r, "done") /\ UNCHANGED <<entry, engine, task>>
  <2>1. "done" \in WorkerPc \ {"none", "start"}
    BY DEF WorkerPc
  <2>2. Moved(t, r)
    BY <1>1, <1>2, <1>4, <2>1, MoveFits
  <2>3. Told(t, r) /\ Shows(t, r)
    BY <1>1, <1>2, <1>4, <2>2, SilentFits
  <2> QED
    BY <1>1, <1>2, <1>4, <2>1, <2>3, QuietMoveFits DEF Holding, Early
<1> QED
  BY <1>3, <1>4 DEF Release, Quiet, Hold

LEMMA WithdrawnFits ==
  ASSUME Types, NEW t \in Tasks, NEW r \in Remote, Withdrawn(t, r)
  PROVE  WorkerStep(t, r)
<1>1. TypeOK /\ r \in Rules /\ faults' \in 0..MaxFaults
  BY RulesAssumption, StillFits DEF Types, Withdrawn, NoFault
<1>2. worker[t][r].pc \in {"withdraw", "compensate"} /\ Alive(worker[t][r])
  BY DEF Withdrawn, Alive
<1>3. CASE Disconnected(t) /\ Move(t, r, "done") /\ Quiet /\ UNCHANGED port /\ Hold
  <2>1. "done" \in WorkerPc \ {"none", "start"} /\ UNCHANGED <<engine, task, port, entry>>
    BY <1>3 DEF WorkerPc, Quiet, Hold
  <2>2. Moved(t, r)
    BY <1>1, <1>2, <1>3, <2>1, MoveFits
  <2>3. Told(t, r) /\ Shows(t, r)
    BY <1>1, <1>2, <2>1, <2>2, SilentFits
  <2> QED
    BY <1>1, <1>2, <1>3, <2>1, <2>3, QuietMoveFits DEF Holding, Early
<1>4. CASE ~Disconnected(t) /\ ~task[t].open
           /\ Tell(t, r, "Stopping") /\ UNCHANGED <<worker, port>> /\ Hold
  <2>1. "Stopping" \in State \ {"Stopped", "Established"} /\ UNCHANGED <<engine, task>>
    BY <1>4 DEF State, Hold
  <2>2. Told(t, r) /\ Shows(t, r)
    BY <1>1, <1>4, <2>1, TellShows
  <2> QED
    BY <1>1, <1>4, <2>1, <2>2, StandingFits
<1>5. CASE /\ ~Disconnected(t) /\ task[t].open
           /\ port' = [port EXCEPT ![Port[r]] = Free]
           /\ IF At(t, r, "withdraw") THEN Move(t, r, Returning(r)) /\ Quiet /\ Hold
              ELSE \E pc \in {"blocked", "failed"} : Block(t, r, pc)
  <2>1. PortMoved(t, r) /\ port'[Port[r]] # t
    <3>1. Port[r] \in Ports
      BY DEF Ports
    <3>2. Free # t
      BY RulesAssumption DEF Free, Tasks
    <3> QED
      BY <1>1, <1>5, <3>1, <3>2 DEF PortMoved, TypeOK
  <2>2. CASE ~At(t, r, "withdraw")
    BY <1>1, <1>2, <1>5, <2>1, <2>2, BlockedFits
  <2>3. CASE At(t, r, "withdraw")
    <3>1. Move(t, r, Returning(r)) /\ UNCHANGED <<engine, entry, task>>
      BY <1>5, <2>3 DEF Quiet, Hold
    <3>2. Returning(r) \in WorkerPc \ {"none"} /\ Returning(r) \in {"release", "done"}
      BY DEF Returning, WorkerPc
    <3>3. Moved(t, r) /\ worker'[t][r].pc = Returning(r)
          /\ worker'[t][r].refusals = worker[t][r].refusals
      BY <1>1, <1>2, <3>1, <3>2, MoveFits
    <3>4. worker'[t][r].refusals # Attempts
      BY <1>2, <3>3, <1>1 DEF Types, RefusalsCounted
    <3>5. Told(t, r) /\ Shows(t, r)
      BY <1>1, <1>2, <3>1, <3>3, SilentFits
    <3>6. Claims(t, r) /\ Asks(t, r) /\ Holdings(t, r) /\ Returns(t, r)
      BY <1>2, <2>1, <2>3, <3>1, <3>2, <3>3
         DEF Claims, Asks, Holdings, Returns, Back, At
    <3> QED
      BY <1>1, <2>1, <3>1, <3>2, <3>3, <3>4, <3>5, <3>6, StillFits DEF WorkerStep
  <2> QED
    BY <2>2, <2>3
<1> QED
  BY <1>3, <1>4, <1>5 DEF Withdrawn

LEMMA AnswerFits ==
  ASSUME Types, NEW t \in Tasks, NEW r \in Remote, r \in task[t].asked,
         task' = [task EXCEPT ![t].asked = @ \ {r}]
  PROVE  SessionMoved(t, r) /\ r \notin task'[t].asked /\ task'[t].claims = task[t].claims
<1>1. task \in [Tasks -> Task] /\ task[t] \in Task /\ r \in Rules /\ TypeOK
  BY RulesAssumption DEF Types, TypeOK
<1>2. task' = [task EXCEPT ![t] = [task[t] EXCEPT !.asked = task[t].asked \ {r}]]
  BY <1>1
<1>3. r \notin task'[t].asked /\ task'[t].claims = task[t].claims
  BY <1>1, <1>2 DEF Task
<1> QED
  BY <1>1, <1>3, AskFits

LEMMA GrantedFits ==
  ASSUME Types, NEW t \in Tasks, NEW r \in Remote, Granted(t, r),
         worker[t][r].pc \in {"pending", "done"}
  PROVE  WorkerStep(t, r)
<1>1. TypeOK /\ r \in Rules /\ faults' \in 0..MaxFaults /\ UNCHANGED <<entry, engine>>
  BY RulesAssumption, StillFits DEF Types, Granted, NoFault, Quiet
<1>2. SessionMoved(t, r) /\ r \notin task'[t].asked /\ task'[t].claims = task[t].claims
  BY AnswerFits DEF Granted
<1>3. PortMoved(t, r)
  BY <1>1 DEF PortMoved, TypeOK, Granted
<1>4. CASE worker[t][r].pc = "pending"
  <2>1. Move(t, r, "granted") /\ "granted" \in WorkerPc \ {"none"} /\ Alive(worker[t][r])
    BY <1>4 DEF Granted, At, WorkerPc, Alive
  <2>2. Moved(t, r) /\ worker'[t][r].pc = "granted"
        /\ worker'[t][r].refusals = worker[t][r].refusals
    BY <1>1, <2>1, MoveFits
  <2>3. worker'[t][r].refusals # Attempts
    BY <1>1, <1>4, <2>2 DEF Types, RefusalsCounted
  <2>4. Told(t, r) /\ Shows(t, r)
    BY <1>1, <1>4, <2>2, SilentFits
  <2>5. Claims(t, r) /\ Asks(t, r) /\ Holdings(t, r) /\ Returns(t, r)
    BY <1>2, <1>4, <2>2 DEF Claims, Asks, Holdings, Returns, Back, Holding, Early
  <2> QED
    BY <1>1, <1>2, <1>3, <2>2, <2>3, <2>4, <2>5 DEF WorkerStep
<1>5. CASE worker[t][r].pc = "done"
  <2>1. UNCHANGED worker
    BY <1>5 DEF Granted, At
  <2>2. Moved(t, r)
    BY <1>1, <2>1, StillFits
  <2>3. Told(t, r) /\ Shows(t, r)
    BY <1>1, <1>5, <2>1, <2>2, SilentFits
  <2>4. Claims(t, r) /\ Asks(t, r) /\ Holdings(t, r) /\ Returns(t, r)
    BY <1>2, <1>5, <2>1 DEF Claims, Asks, Holdings, Returns, Back, Holding, Early
  <2> QED
    BY <1>1, <1>2, <1>3, <1>5, <2>1, <2>2, <2>3, <2>4 DEF WorkerStep
<1> QED
  BY <1>4, <1>5

LEMMA RefusedFits ==
  ASSUME Types, NEW t \in Tasks, NEW r \in Remote, Refused(t, r) \/ Broken(t, r),
         worker[t][r].pc \in {"pending", "done"}
  PROVE  WorkerStep(t, r)
<1>1. TypeOK /\ r \in Rules /\ faults' \in 0..MaxFaults /\ UNCHANGED <<port, engine>>
      /\ TakeRefusal(t, r)
  BY RulesAssumption, StillFits DEF Types, Refused, Broken, NoFault, Hold
<1>2. SessionMoved(t, r) /\ task'[t].claims = task[t].claims
      /\ (r \notin task'[t].asked \/ (UNCHANGED task /\ ~task[t].open))
  BY <1>1, AnswerFits, StillFits DEF Refused, Broken, Hold
<1>3. /\ Moved(t, r) /\ Told(t, r)
      /\ ~At(t, r, "pending") => UNCHANGED <<worker, entry>>
      /\ At(t, r, "pending") => worker'[t][r].pc \in {"release", "done", "wait"}
      /\ At(t, r, "pending") /\ worker'[t][r].pc = "release" /\ ~Cancelled(t, r) =>
           worker'[t][r].refusals = Attempts
      /\ At(t, r, "pending") /\ worker'[t][r].refusals = Attempts =>
           worker'[t][r].pc = "release"
      /\ At(t, r, "pending") /\ worker'[t][r].pc = "done" => Cancelled(t, r) /\ r \notin Verified
      /\ entry'[r] # entry[r] => entry'[r].state = "Backoff"
  BY <1>1, RefusalFits
<1>4. worker'[t][r].refusals = Attempts =>
        worker'[t][r].pc \in {"release", "blocked", "failed", "done"}
  BY <1>1, <1>3 DEF At, Types, RefusalsCounted
<1>5. Shows(t, r)
  BY <1>3 DEF Shows, At
<1>6. Claims(t, r) /\ Asks(t, r) /\ Holdings(t, r)
  BY <1>1, <1>2, <1>3 DEF Claims, Asks, Holdings, Holding, Early, At
<1>7. Returns(t, r)
  BY <1>3 DEF Returns, Back, At
<1> QED
  BY <1>1, <1>2, <1>3, <1>4, <1>5, <1>6, <1>7, StillFits DEF WorkerStep

\* Every step of a worker has this shape.
LEMMA WorkFits ==
  ASSUME Types, WorkersValid, AskedIsPending, NEW t \in Tasks, NEW r \in Rules,
         Work(t, r) \/ BindFails(t, r) \/ HelperFails(t, r)
  PROVE  WorkerStep(t, r)
<1>1. r \notin Remote => worker[t][r].pc \in LocalPc
  BY DEF WorkersValid, LocalPc
<1>2. r \in task[t].asked => r \in Remote /\ worker[t][r].pc \in {"pending", "done"}
  BY DEF AskedIsPending
<1>3. CASE Local(t, r) \/ BindFails(t, r) \/ Start(t, r) \/ Wait(t, r) \/ Confirm(t, r)
           \/ Withdraw(t, r) \/ HelperFails(t, r)
  BY <1>3, LocalFits, StartFits, WaitFits, ConfirmFits, WithdrawFits, HelperFailsFits
<1>4. CASE Claim(t, r) \/ Request(t, r) \/ Slow(t, r) \/ Open(t, r) \/ Withdrawn(t, r)
           \/ Release(t, r) \/ LetGo(t, r)
  <2>1. worker[t][r].pc \notin LocalPc
    BY <1>4 DEF Claim, Request, Slow, Open, Withdrawn, Release, LetGo, At, LocalPc
  <2> QED
    BY <1>1, <1>4, <2>1, ClaimFits, RequestFits, SlowFits, OpenFits, WithdrawnFits,
       ReleaseFits, LetGoFits
<1>5. CASE Granted(t, r) \/ Refused(t, r) \/ Broken(t, r)
  <2>1. r \in Remote /\ worker[t][r].pc \in {"pending", "done"}
    BY <1>1, <1>2, <1>5 DEF Granted, Refused, Broken, At, LocalPc
  <2> QED
    BY <1>5, <2>1, GrantedFits, RefusedFits
<1> QED
  BY <1>3, <1>4, <1>5 DEF Work
-----------------------------------------------------------------------------
(* Steps of workers keep the invariant.                                    *)
LEMMA WorkerKeepsTypes ==
  ASSUME Types, NEW t \in Tasks, NEW r \in Rules, WorkerStep(t, r)
  PROVE  Types'
<1>1. TypeOK'
  BY DEF Types, TypeOK, WorkerStep, Moved, SessionMoved, PortMoved, Told, Relabelled, engine
<1>2. RefusalsCounted'
  BY DEF Types, RefusalsCounted, WorkerStep, Moved
<1> QED
  BY <1>1, <1>2 DEF Types

LEMMA WorkerKeepsSessions ==
  ASSUME Types, Sessions, AskedIsPending, NEW t \in Tasks, NEW r \in Rules, WorkerStep(t, r)
  PROVE  Sessions'
<1> USE DEF WorkerStep
<1>1. \A u \in Tasks : /\ task'[u].pc = task[u].pc /\ task'[u].desired = task[u].desired
                       /\ task'[u].open = task[u].open
                       /\ task'[u].disconnected = task[u].disconnected
  BY DEF SessionMoved
<1>2. Free \notin Tasks /\ Ghost \notin Tasks
  BY RulesAssumption DEF Free, Ghost, Tasks
<1>3. SessionsEnd'
  <2> SUFFICES ASSUME NEW u \in Tasks
               PROVE  /\ task'[u].pc \notin InSession => worker'[u] = NoWorkers /\ ~task'[u].open
                      /\ task'[u].pc # "drain" => ~task'[u].disconnected
                      /\ ~task'[u].open => task'[u].asked = {} /\ \A p \in Ports : port'[p] # u
    BY DEF SessionsEnd
  <2>1. task'[u].pc \notin InSession => worker'[u] = NoWorkers /\ ~task'[u].open
    <3>1. ASSUME task[u].pc \notin InSession
          PROVE  worker'[u] = NoWorkers /\ ~task[u].open
      <4>1. worker[u] = NoWorkers /\ ~task[u].open
        BY <3>1 DEF Sessions, SessionsEnd
      <4>2. \A q \in Rules : worker'[u][q] = worker[u][q]
        <5>1. \A q \in Rules : ~Alive(worker[u][q])
          BY <4>1 DEF Alive, NoWorkers, NoWorker
        <5> QED
          BY <5>1 DEF Moved
      <4>3. worker[u] \in [Rules -> Worker] /\ worker'[u] \in [Rules -> Worker]
        BY DEF Moved, Types, TypeOK
      <4>4. worker'[u] = worker[u]
        BY <4>2, <4>3
      <4> QED
        BY <4>1, <4>4
    <3> QED
      BY <1>1, <3>1
  <2>2. task'[u].pc # "drain" => ~task'[u].disconnected
    BY <1>1 DEF Sessions, SessionsEnd
  <2>3. ~task'[u].open => task'[u].asked = {} /\ \A p \in Ports : port'[p] # u
    <3>1. ASSUME ~task[u].open
          PROVE  task'[u].asked = {} /\ \A p \in Ports : port'[p] # u
      <4>1. task[u].asked = {} /\ \A p \in Ports : port[p] # u
        BY <3>1 DEF Sessions, SessionsEnd
      <4>2. task'[u].asked = {}
        BY <3>1, <4>1 DEF SessionMoved
      <4> QED
        BY <1>2, <4>1, <4>2 DEF PortMoved
    <3> QED
      BY <1>1, <3>1
  <2> QED
    BY <2>1, <2>2, <2>3
<1>4. EntriesValid'
  BY DEF Sessions, EntriesValid, Compatible, Told, Relabelled, engine, Belongs
<1>5. WantedValid'
  BY <1>1 DEF Sessions, WantedValid, Compatible, OnIn, engine, Belongs
<1>6. WorkersValid'
  <2> SUFFICES ASSUME NEW u \in Tasks, NEW q \in Rules, worker'[u][q].pc # "none"
               PROVE  /\ worker'[u][q].gen # 0 /\ worker'[u][q].gen <= generation
                      /\ Belongs(q, u[1])
                      /\ q \notin Remote =>
                           worker'[u][q].pc \in {"start", "bind", "wait", "open", "done"}
    BY DEF WorkersValid, engine, Belongs
  <2>1. worker[u][q].pc # "none" /\ worker'[u][q].gen = worker[u][q].gen
    BY DEF Moved, Alive
  <2>2. q \notin Remote => worker'[u][q].pc \in {"start", "bind", "wait", "open", "done"}
    <3>1. CASE u = t /\ q = r
      BY <2>1, <3>1 DEF Sessions, WorkersValid, LocalPc
    <3>2. CASE ~(u = t /\ q = r)
      BY <3>2, <2>1 DEF Sessions, WorkersValid, Moved
    <3> QED
      BY <3>1, <3>2
  <2> QED
    BY <2>1, <2>2 DEF Sessions, WorkersValid
<1>7. \A u \in Tasks, q \in Rules : Alive(worker[u][q])' => Alive(worker[u][q])
  BY DEF Moved, Alive
<1>8. DrainingIsCancelled'
  BY <1>1, <1>7 DEF Sessions, DrainingIsCancelled, Moved
<1>9. OneOwnerPerSession'
  BY <1>7, RulesAssumption DEF Sessions, OneOwnerPerSession
<1> QED
  BY <1>3, <1>4, <1>5, <1>6, <1>8, <1>9 DEF Sessions

\* The rules that may be found in the session of a verified rule: itself.
LEMMA VerifiedIsAlone ==
  ASSUME NEW k, NEW r \in Verified, NEW q \in Rules, Belongs(r, k), Belongs(q, k), k # NoKey
  PROVE  q = r
BY ConfigsAssumption DEF Belongs

LEMMA WorkerKeepsHolds ==
  ASSUME Types, Sessions, Holds, NEW t \in Tasks, NEW r \in Rules, WorkerStep(t, r)
  PROVE  Holds'
<1> USE DEF WorkerStep
<1>1. \A u \in Tasks : u # t => task'[u] = task[u]
  BY DEF SessionMoved
<1>2. task'[t].pc = task[t].pc /\ task'[t].disconnected = task[t].disconnected
      /\ task'[t].open = task[t].open
  BY DEF SessionMoved
<1>3. \A u \in Tasks, q \in Rules : u # t \/ q # r => worker'[u][q] = worker[u][q]
  BY DEF Moved
<1>4. t[1] # NoKey /\ Free # t /\ Ghost # t
  BY RulesAssumption DEF Tasks, Free, Ghost
<1>5. Verified \subseteq Remote /\ Remote \subseteq Rules
  BY RulesAssumption
<1>6. \A q \in Rules : worker[t][q].pc # "none" => Belongs(q, t[1])
  BY DEF Sessions, WorkersValid
<1>7. r \in task[t].asked => r \in Remote /\ worker[t][r].pc \in {"pending", "done"}
  BY DEF Holds, AskedIsPending
<1>8. ClaimsCounted'
  <2> SUFFICES ASSUME NEW u \in Tasks
               PROVE  /\ task'[u].claims <= 1
                      /\ task'[u].pc = "serve" /\ task'[u].claims = 1 =>
                           \E q \in Verified : worker'[u][q].pc \notin {"none", "start"}
    BY DEF ClaimsCounted
  <2>1. CASE u # t
    BY <2>1, <1>1, <1>3, <1>5 DEF Holds, ClaimsCounted
  <2>2. CASE u = t /\ task'[t].claims = task[t].claims
    <3>1. \A q \in Verified : worker[t][q].pc \notin {"none", "start"} =>
                              worker'[t][q].pc \notin {"none", "start"}
      BY <1>3, <1>5 DEF Holdings, Moved
    <3> QED
      BY <2>2, <3>1, <1>2 DEF Holds, ClaimsCounted
  <2>3. CASE u = t /\ task'[t].claims # task[t].claims
    <3>1. /\ task'[t].claims = task[t].claims + 1 /\ r \in Verified /\ ~Cancelled(t, r)
          /\ worker[t][r].pc = "start" /\ worker'[t][r].pc = "claim"
      BY <2>3 DEF Claims
    <3>2. task[t].pc = "serve"
      <4>1. task[t].pc \in InSession
        BY <3>1 DEF Sessions, SessionsEnd, NoWorkers, NoWorker
      <4>2. task[t].pc # "drain"
        BY <3>1 DEF Sessions, DrainingIsCancelled, Alive, Cancelled
      <4> QED
        BY <4>1, <4>2 DEF InSession
    <3>3. task[t].claims # 1
      <4>1. SUFFICES ASSUME NEW q \in Verified, worker[t][q].pc \notin {"none", "start"}
                     PROVE  FALSE
        BY <3>2 DEF Holds, ClaimsCounted
      <4>2. Belongs(q, t[1]) /\ Belongs(r, t[1])
        BY <1>5, <1>6, <3>1, <4>1
      <4>3. q = r
        BY <1>4, <1>5, <3>1, <4>2, VerifiedIsAlone
      <4> QED
        BY <3>1, <4>1, <4>3
    <3>4. task[t].claims \in Nat /\ task[t].claims <= 1
      BY DEF Types, TypeOK, Task, Holds, ClaimsCounted
    <3>5. task'[t].claims <= 1
      BY <3>1, <3>3, <3>4
    <3> QED
      BY <2>3, <3>1, <3>5
  <2> QED
    BY <2>1, <2>2, <2>3
<1>9. AskedIsPending'
  <2> SUFFICES ASSUME NEW u \in Tasks, NEW q \in task'[u].asked
               PROVE  /\ q \in Remote
                      /\ worker'[u][q].pc = "pending"
                         \/ (task'[u].disconnected /\ worker'[u][q].pc = "done")
    BY DEF AskedIsPending
  <2>1. CASE u # t
    <3>1. q \in task[u].asked /\ q \in Remote
      BY <1>1, <2>1 DEF Holds, AskedIsPending
    <3> QED
      BY <1>1, <1>3, <1>5, <2>1, <3>1 DEF Holds, AskedIsPending
  <2>2. CASE u = t /\ q # r
    <3>1. q \in task[t].asked /\ q \in Remote
      BY <2>2 DEF SessionMoved, Holds, AskedIsPending
    <3> QED
      BY <1>2, <1>3, <1>5, <2>2, <3>1 DEF Holds, AskedIsPending
  <2>3. CASE u = t /\ q = r /\ r \notin task[t].asked
    BY <2>3 DEF Asks
  <2>4. CASE u = t /\ q = r /\ r \in task[t].asked
    <3>1. task[t].open
      BY <2>4 DEF Sessions, SessionsEnd
    <3>2. worker[t][r].pc = "done" => worker'[t][r] = worker[t][r]
      BY DEF Moved, Alive
    <3> QED
      BY <1>2, <1>7, <2>4, <3>1, <3>2 DEF Asks, Holds, AskedIsPending
  <2> QED
    BY <2>1, <2>2, <2>3, <2>4
<1>10. HeldIsDriven'
  <2> SUFFICES ASSUME NEW u \in Tasks, NEW p \in Ports,
                      port'[p] = u, ~task'[u].disconnected, ~task'[u].blocked, ~task'[u].failed
               PROVE  \E q \in Remote : Port[q] = p /\ worker'[u][q].pc \in Holding
    BY DEF HeldIsDriven
  <2>1. ~task[u].disconnected /\ ~task[u].blocked /\ ~task[u].failed
    BY <1>1, <1>2 DEF SessionMoved
  <2>2. CASE port[p] = u
    <3>1. PICK q \in Remote : Port[q] = p /\ worker[u][q].pc \in Holding
      BY <2>1, <2>2 DEF Holds, HeldIsDriven
    <3>2. worker'[u][q].pc \in Holding
      <4>1. CASE u # t \/ q # r
        BY <1>3, <1>5, <3>1, <4>1
      <4>2. CASE u = t /\ q = r
        BY <2>1, <3>1, <4>2 DEF Holdings
      <4> QED
        BY <4>1, <4>2
    <3> QED
      BY <3>1, <3>2
  <2>3. CASE port[p] # u
    <3>1. u = t /\ p = Port[r] /\ r \in task[t].asked
      BY <1>4, <2>3, RulesAssumption DEF PortMoved, Tasks, Free, Ghost
    <3>2. worker[t][r].pc = "pending"
      BY <1>7, <2>1, <3>1 DEF Holds, AskedIsPending
    <3>3. worker'[t][r].pc = "granted"
      BY <2>3, <3>1, <3>2 DEF Holdings
    <3> QED
      BY <1>7, <3>1, <3>3 DEF Holding
  <2> QED
    BY <2>2, <2>3
<1>11. EarlyHoldsNothing'
  <2> SUFFICES ASSUME NEW u \in Tasks, NEW q \in Verified, Belongs(q, u[1]),
                      worker'[u][q].pc \in Early \/ (worker'[u][q].pc = "none" /\ task'[u].pc = "serve")
               PROVE  port'[Port[q]] # u
    BY DEF EarlyHoldsNothing, Belongs
  <2>1. task'[u].pc = task[u].pc /\ q \in Remote /\ q \in Rules /\ Port[q] \in Ports
    BY <1>1, <1>2, <1>5 DEF Ports
  <2>2. CASE u # t
    <3>1. port[Port[q]] # u
      BY <1>3, <2>1, <2>2 DEF Holds, EarlyHoldsNothing
    <3> QED
      BY <2>1, <2>2, <3>1, RulesAssumption DEF PortMoved, Tasks, Free, Ghost
  <2>3. CASE u = t /\ q # r
    <3>1. port[Port[q]] # t
      BY <1>3, <2>1, <2>3 DEF Holds, EarlyHoldsNothing
    <3>2. r \notin task[t].asked
      BY <1>4, <1>6, <1>7, <2>3, <2>1, VerifiedIsAlone
    <3> QED
      BY <1>4, <2>1, <2>3, <3>1, <3>2 DEF PortMoved
  <2>4. CASE u = t /\ q = r /\ (worker[t][r].pc \in Early
                                \/ (worker[t][r].pc = "none" /\ task[t].pc = "serve"))
    <3>1. port[Port[r]] # t
      BY <2>4 DEF Holds, EarlyHoldsNothing
    <3>2. r \in task[t].asked => worker[t][r].pc = "pending"
      BY <1>7, <2>4 DEF Early
    <3>3. worker'[t][r].pc # "granted"
      BY <2>4 DEF Early
    <3> QED
      BY <1>4, <2>1, <2>4, <3>1, <3>2, <3>3 DEF PortMoved, Holdings
  <2>5. CASE u = t /\ q = r /\ ~(worker[t][r].pc \in Early
                                 \/ (worker[t][r].pc = "none" /\ task[t].pc = "serve"))
    <3>1. worker'[t][r].pc \in Early
      BY <2>1, <2>5 DEF Moved
    <3> QED
      BY <2>1, <2>5, <3>1 DEF Holdings
  <2> QED
    BY <2>2, <2>3, <2>4, <2>5
<1> QED
  BY <1>8, <1>9, <1>10, <1>11 DEF Holds

\* Only the current supervisor of a rule can change what the rule shows.
LEMMA OnlyCurrent ==
  ASSUME Types, Sessions, Generations, NEW t \in Tasks, NEW r \in Rules,
         Configured(r), group[entry[r].key] # 0
  PROVE  /\ Current(entry[r].key) \in Tasks
         /\ ~task[Current(entry[r].key)].cancel
         /\ task[Current(entry[r].key)].desired[r] = [gen |-> entry[r].gen, on |-> entry[r].on]
         /\ task[t].pc # "none" /\ task[t].desired[r].gen = entry[r].gen =>
              t = Current(entry[r].key)
         /\ worker[t][r].pc # "none" /\ worker[t][r].gen = entry[r].gen =>
              t = Current(entry[r].key)
<1>1. entry[r].key \in Keys /\ group[entry[r].key] \in 1..Slots
  <2>1. entry[r] \in Entry /\ group \in [Keys -> 0..Slots] /\ entry[r].key # NoKey
    BY DEF Types, TypeOK, Sessions, EntriesValid, Configured
  <2>2. entry[r].key \in Keys
    BY <2>1 DEF Entry
  <2>3. group[entry[r].key] \in 0..Slots
    BY <2>1, <2>2
  <2> QED
    BY <2>2, <2>3, BoundsAssumption
<1>2. Current(entry[r].key) \in Tasks
  BY <1>1 DEF Current, Tasks
<1>3. ~task[Current(entry[r].key)].cancel
      /\ task[Current(entry[r].key)].desired = Handed(entry, entry[r].key)
  BY <1>1 DEF Generations, GroupsKept
<1>4. task[Current(entry[r].key)].desired[r] = [gen |-> entry[r].gen, on |-> entry[r].on]
  BY <1>3 DEF Handed
<1>5. op.kind \notin Leaving
  BY <1>1 DEF Generations, GroupsKept
<1>6. task[t].pc # "none" /\ task[t].desired[r].gen = entry[r].gen => t = Current(entry[r].key)
  BY <1>5 DEF Generations, WantedMatch
<1>7. worker[t][r].pc # "none" /\ worker[t][r].gen = entry[r].gen =>
        task[t].pc # "none" /\ task[t].desired[r].gen = entry[r].gen
  <2>1. ASSUME worker[t][r].pc # "none", worker[t][r].gen = entry[r].gen
        PROVE  task[t].desired[r] = [gen |-> entry[r].gen, on |-> TRUE]
    BY <2>1 DEF Generations, WorkersMatch
  <2>2. worker[t][r].pc # "none" => task[t].pc # "none"
    BY DEF Sessions, SessionsEnd, InSession, NoWorkers, NoWorker
  <2> QED
    BY <2>1, <2>2
<1> QED
  BY <1>2, <1>3, <1>4, <1>6, <1>7

LEMMA WorkerKeepsGenerations ==
  ASSUME Types, Sessions, Generations, NEW t \in Tasks, NEW r \in Rules, WorkerStep(t, r)
  PROVE  Generations'
<1> USE DEF WorkerStep
<1>1. \A u \in Tasks : /\ task'[u].pc = task[u].pc /\ task'[u].desired = task[u].desired
                       /\ task'[u].cancel = task[u].cancel
                       /\ task'[u].disconnected = task[u].disconnected
  BY DEF SessionMoved
<1>2. \A q \in Rules : entry'[q].gen = entry[q].gen /\ entry'[q].key = entry[q].key
                       /\ entry'[q].on = entry[q].on
  BY DEF Told, Relabelled
<1>3. UNCHANGED <<group, op>>
  BY DEF engine
<1>4. \A u \in Tasks, q \in Rules :
        /\ worker'[u][q].gen = worker[u][q].gen /\ worker'[u][q].cancel = worker[u][q].cancel
        /\ worker'[u][q].pc = "none" <=> worker[u][q].pc = "none"
  BY DEF Moved, Alive
<1>5. GroupsKept'
  <2>1. \A k \in Keys : Handed(entry, k)' = Handed(entry, k)
    BY <1>2 DEF Handed
  <2>2. \A k \in Keys : group[k] # 0 => Current(k) \in Tasks /\ Current(k)' = Current(k)
    BY <1>3, BoundsAssumption DEF Current, Tasks, Types, TypeOK
  <2>3. \A k \in Keys : group'[k] # 0 =>
          LET s == task'[Current(k)'] IN
          s.pc # "none" /\ ~s.cancel /\ s.desired = Handed(entry, k)'
    BY <1>1, <1>3, <2>1, <2>2 DEF Generations, GroupsKept
  <2> QED
    BY <1>2, <1>3, <2>3 DEF Generations, GroupsKept, Configured
<1>6. WantedMatch'
  BY <1>1, <1>2, <1>3 DEF Generations, WantedMatch, Configured, Current
<1>7. WorkersMatch'
  <2> SUFFICES ASSUME NEW u \in Tasks, NEW q \in Rules, worker'[u][q].pc # "none"
               PROVE  /\ entry'[q].gen # 0 /\ worker'[u][q].gen = entry'[q].gen =>
                           task'[u].desired[q] = [gen |-> entry'[q].gen, on |-> TRUE]
                      /\ worker'[u][q].gen = task'[u].desired[q].gen => task'[u].desired[q].on
    BY DEF WorkersMatch, Configured
  <2>1. worker[u][q].pc # "none" /\ worker'[u][q].gen = worker[u][q].gen
        /\ entry'[q].gen = entry[q].gen /\ task'[u].desired = task[u].desired
    BY <1>1, <1>2, <1>4
  <2> QED
    BY <2>1 DEF Generations, WorkersMatch, Configured
<1>8. DoneIsCancelled'
  <2> SUFFICES ASSUME NEW u \in Tasks, NEW q \in Rules,
                      task'[u].pc = "serve", ~task'[u].cancel
               PROVE  /\ Back(worker'[u][q]) => worker'[u][q].cancel
                      /\ worker'[u][q].pc # "none" /\ worker'[u][q].cancel =>
                           worker'[u][q].gen # task'[u].desired[q].gen
    BY DEF DoneIsCancelled, Back
  <2>1. Back(worker[u][q]) => worker[u][q].cancel
    BY <1>1 DEF Generations, DoneIsCancelled, Back
  <2>2. ~task[u].disconnected /\ ~task[u].cancel
    BY <1>1 DEF Sessions, SessionsEnd
  <2>3. Back(worker'[u][q]) => worker'[u][q].cancel
    <3>1. CASE u = t /\ q = r
      BY <1>4, <2>1, <2>2, <3>1 DEF Returns, Cancelled, Disconnected
    <3>2. CASE ~(u = t /\ q = r)
      BY <2>1, <3>2 DEF Moved
    <3> QED
      BY <3>1, <3>2
  <2> QED
    BY <1>1, <1>4, <2>3 DEF Generations, DoneIsCancelled
<1> QED
  BY <1>5, <1>6, <1>7, <1>8 DEF Generations

LEMMA WorkerKeepsShown ==
  ASSUME Types, Sessions, Generations, Shown, NEW t \in Tasks, NEW r \in Rules, WorkerStep(t, r)
  PROVE  Shown'
<1> USE DEF WorkerStep
<1>1. \A u \in Tasks : task'[u].pc = task[u].pc /\ task'[u].fresh = task[u].fresh
                       /\ task'[u].cancel = task[u].cancel
  BY DEF SessionMoved
<1>2. \A q \in Rules : entry'[q].gen = entry[q].gen /\ entry'[q].key = entry[q].key
                       /\ entry'[q].on = entry[q].on
  BY DEF Told, Relabelled
<1>3. UNCHANGED <<group, op>>
  BY DEF engine
<1>4. \A q \in Rules : entry'[q].state = "Stopped" => entry'[q] = entry[q]
  BY DEF Told, Shows
<1>5. StoppedIsOff'
  BY <1>2, <1>3, <1>4 DEF Shown, StoppedIsOff, Configured
<1>6. ASSUME NEW q \in Rules, Configured(q)', group'[entry'[q].key] # 0
      PROVE  /\ Configured(q) /\ group[entry[q].key] # 0
             /\ entry'[q].key = entry[q].key /\ group' = group
             /\ Current(entry[q].key) \in Tasks
  BY <1>2, <1>3, <1>6, OnlyCurrent DEF Configured, Current
<1>7. StoppedIsClosed'
  <2>1. \A u \in Tasks, q \in Rules : Alive(worker[u][q])' => Alive(worker[u][q])
    BY DEF Moved, Alive
  <2> SUFFICES ASSUME NEW q \in Rules, Configured(q)', entry'[q].state = "Stopped",
                      group'[entry'[q].key] # 0, ~task'[Current(entry[q].key)].fresh
               PROVE  ~Alive(worker'[Current(entry[q].key)][q])
    BY <1>2, <1>3 DEF StoppedIsClosed, Alive, Current, Configured
  <2>2. /\ Configured(q) /\ group[entry[q].key] # 0 /\ Current(entry[q].key) \in Tasks
        /\ entry[q].state = "Stopped"
    BY <1>4, <1>6
  <2>3. ~task[Current(entry[q].key)].fresh
    BY <1>1, <2>2
  <2>4. ~Alive(worker[Current(entry[q].key)][q])
    BY <2>2, <2>3 DEF Shown, StoppedIsClosed
  <2> QED
    BY <2>1, <2>2, <2>4 DEF Alive
<1>8. EstablishedIsDriven'
  <2> SUFFICES ASSUME NEW q \in Rules, Configured(q)', entry'[q].state = "Established",
                      group'[entry'[q].key] # 0
               PROVE  LET u == Current(entry[q].key) IN
                      \/ task[u].pc \in {"drain", "closing", "decide", "top"}
                      \/ /\ task[u].pc = "serve" /\ worker'[u][q].gen = entry[q].gen
                         /\ worker'[u][q].pc \in {"open", "done"}
                      \/ task[u].cancel
    <3>1. ASSUME NEW q \in Rules, Configured(q)', group'[entry'[q].key] # 0
          PROVE  LET u == Current(entry[q].key) IN
                 task'[u].pc = task[u].pc /\ task'[u].cancel = task[u].cancel
      BY <1>1, <1>6, <3>1
    <3> QED
      BY <1>2, <1>3, <3>1 DEF EstablishedIsDriven, Current, Configured
  <2>1. /\ Configured(q) /\ group[entry[q].key] # 0
        /\ Current(entry[q].key) \in Tasks
    BY <1>6
  <2> DEFINE u == Current(entry[q].key)
  <2>2. CASE entry'[q] = entry[q]
    <3>1. \/ task[u].pc \in {"drain", "closing", "decide", "top"}
          \/ /\ task[u].pc = "serve" /\ worker[u][q].gen = entry[q].gen
             /\ worker[u][q].pc \in {"open", "done"}
          \/ task[u].cancel
      BY <2>1, <2>2 DEF Shown, EstablishedIsDriven
    <3>2. worker[u][q].gen = entry[q].gen /\ worker[u][q].pc \in {"open", "done"} =>
            worker'[u][q].gen = entry[q].gen /\ worker'[u][q].pc \in {"open", "done"}
      <4>1. CASE u = t /\ q = r
        <5>1. worker[t][r].pc = "done" => worker'[t][r] = worker[t][r]
          BY DEF Moved, Alive
        <5>2. worker'[t][r].gen = worker[t][r].gen
          BY DEF Moved
        <5> QED
          BY <2>1, <2>2, <4>1, <5>1, <5>2 DEF Shows
      <4>2. CASE ~(u = t /\ q = r)
        <5>1. worker'[u][q] = worker[u][q]
          BY <2>1, <4>2 DEF Moved
        <5> QED
          BY <5>1
      <4> QED
        BY <4>1, <4>2
    <3> QED
      BY <3>1, <3>2
  <2>3. CASE entry'[q] # entry[q]
    <3>1. q = r /\ worker[t][r].gen = entry[r].gen /\ worker'[t][r].pc = "open"
      BY <2>3 DEF Told, Shows
    <3>2. worker[t][r].pc # "none" /\ worker'[t][r].gen = worker[t][r].gen
      BY <3>1 DEF Moved, Alive
    <3>3. t = u
      BY <2>1, <3>1, <3>2, OnlyCurrent
    <3>4. task[t].pc \in InSession
      BY <3>2 DEF Sessions, SessionsEnd, NoWorkers, NoWorker
    <3> QED
      BY <3>1, <3>2, <3>3, <3>4 DEF InSession
  <2> QED
    BY <2>2, <2>3
<1> QED
  BY <1>5, <1>7, <1>8 DEF Shown

LEMMA WorkerKeeps ==
  ASSUME IInv, NEW t \in Tasks, NEW r \in Rules,
         Work(t, r) \/ BindFails(t, r) \/ HelperFails(t, r)
  PROVE  IInv'
<1>1. WorkerStep(t, r)
  BY WorkFits DEF IInv, Sessions, Holds
<1>2. Types'
  BY <1>1, WorkerKeepsTypes DEF IInv
<1>3. Sessions'
  BY <1>1, WorkerKeepsSessions DEF IInv, Holds
<1>4. Holds'
  BY <1>1, WorkerKeepsHolds DEF IInv
<1>5. Generations'
  BY <1>1, WorkerKeepsGenerations DEF IInv
<1>6. Shown'
  BY <1>1, WorkerKeepsShown DEF IInv
<1> QED
  BY <1>2, <1>3, <1>4, <1>5, <1>6 DEF IInv
-----------------------------------------------------------------------------
(* What a step of a supervisor may change.                                 *)
\* The supervisor t has moved or has ended.
Supervised(t) ==
  /\ task' \in [Tasks -> Task]
  /\ \A u \in Tasks : u # t => task'[u] = task[u]
  /\ task[t].pc # "none"
  /\ \/ task'[t] = NoTask /\ task[t].cancel
     \/ /\ task'[t].pc # "none" /\ task'[t].desired = task[t].desired
        /\ task'[t].cancel = task[t].cancel
  /\ Relabelled /\ ByWanted(t)
  /\ UNCHANGED engine /\ faults' \in 0..MaxFaults
\* A supervisor without a session.
Idle(t) ==
  /\ Supervised(t) /\ UNCHANGED <<worker, port>>
  /\ task[t].pc \notin InSession /\ task'[t].pc \notin InSession
  /\ task'[t].open = FALSE /\ task'[t].disconnected = FALSE /\ task'[t].claims <= 1
  /\ task'[t].asked = {}
\* A new session.
Fresh(t) ==
  /\ Supervised(t) /\ UNCHANGED <<worker, port>>
  /\ task[t].pc \notin InSession /\ task'[t].pc = "serve"
  /\ task'[t].open /\ ~task'[t].disconnected /\ task'[t].claims = 0 /\ task'[t].asked = {}
\* The workers of a session after one pass over the rules.
Kept(t, q) ==
  /\ worker'[t][q].pc = worker[t][q].pc /\ worker'[t][q].gen = worker[t][q].gen
  /\ worker'[t][q].refusals = worker[t][q].refusals
  /\ task'[t].pc = "serve" => (worker'[t][q].cancel <=> worker[t][q].cancel \/ Stale(t, q))
Gone(t, q) == worker[t][q].pc = "done" /\ worker'[t][q] = NoWorker
Begun(t, q) ==
  /\ worker[t][q].pc \in {"none", "done"} /\ task[t].desired[q].on /\ ~Occupied(t, q) /\ ~Spent(t)
  /\ worker'[t][q].pc = "start" /\ worker'[t][q].gen = task[t].desired[q].gen
  /\ worker'[t][q].refusals = 0
  /\ task'[t].pc = "serve" => ~worker'[t][q].cancel
Rework(t) ==
  /\ Supervised(t) /\ UNCHANGED port
  /\ worker' \in [Tasks -> [Rules -> Worker]]
  /\ \A u \in Tasks : u # t => worker'[u] = worker[u]
  /\ \A q \in Rules : Kept(t, q) \/ Gone(t, q) \/ Begun(t, q)
  /\ task[t].pc = "serve" /\ task'[t].pc \in InSession
  /\ task'[t].pc = "drain" => \A q \in Rules : worker'[t][q].cancel = Alive(worker'[t][q])
  /\ task'[t].pc = "serve" => ~Spent(t) /\ ~task'[t].disconnected
  /\ task'[t].open = task[t].open /\ task'[t].blocked = task[t].blocked
  /\ task'[t].failed = task[t].failed /\ task'[t].claims = task[t].claims
  /\ task'[t].asked = task[t].asked
\* A session that is over.
Closed(t) ==
  /\ Supervised(t) /\ UNCHANGED entry
  /\ task[t].pc = "drain" /\ task'[t].pc = "closing"
  /\ task'[t].open = FALSE /\ task'[t].disconnected = FALSE /\ task'[t].claims <= 1
  /\ task'[t].asked = {}
  /\ worker' = [worker EXCEPT ![t] = NoWorkers] /\ Abandon(t)

\* The variants in which a supervisor's task changes.
LEMMA FaultsFit ==
  ASSUME TypeOK
  PROVE  UNCHANGED faults \/ Fault => faults' \in 0..MaxFaults
BY BoundsAssumption DEF TypeOK, Fault

LEMMA TaskFits ==
  ASSUME TypeOK, NEW t \in Tasks, task[t].pc # "none", Relabelled, ByWanted(t),
         UNCHANGED engine, faults' \in 0..MaxFaults,
         NEW s \in Task, task' = [task EXCEPT ![t] = s],
         \/ s = NoTask /\ task[t].cancel
         \/ s.pc # "none" /\ s.desired = task[t].desired /\ s.cancel = task[t].cancel
  PROVE  Supervised(t) /\ task'[t] = s
<1>1. task \in [Tasks -> Task]
  BY DEF TypeOK
<1> QED
  BY <1>1 DEF Supervised

LEMMA QuietTable ==
  ASSUME TypeOK, UNCHANGED entry, NEW t \in Tasks
  PROVE  Relabelled /\ ByWanted(t)
BY DEF TypeOK, Relabelled, ByWanted

\* Steps from one place outside a session to another.
LEMMA IdleFits ==
  ASSUME Types, SessionsEnd, ClaimsCounted, NEW t \in Tasks, task[t].pc \notin InSession \cup {"none"},
         Relabelled, ByWanted(t), UNCHANGED <<engine, worker, port>>, faults' \in 0..MaxFaults,
         NEW pc \in TaskPc \ {"none", "serve", "drain"}, NEW fresh \in BOOLEAN,
         NEW outcome \in Outcome,
         \/ End(t) /\ task[t].cancel
         \/ task' = [task EXCEPT ![t] = [task[t] EXCEPT !.pc = pc, !.fresh = fresh,
                                                        !.outcome = outcome]]
  PROVE  Idle(t)
<1>1. TypeOK /\ task[t] \in Task /\ NoTask \in Task
  BY TaskTypes DEF Types, TypeOK
<1> DEFINE s == [task[t] EXCEPT !.pc = pc, !.fresh = fresh, !.outcome = outcome]
<1>2. ~task[t].open /\ ~task[t].disconnected /\ task[t].claims <= 1 /\ task[t].asked = {}
  BY DEF SessionsEnd, ClaimsCounted, InSession
<1>3. s \in Task /\ s.pc = pc /\ s.desired = task[t].desired /\ s.cancel = task[t].cancel
      /\ ~s.open /\ ~s.disconnected /\ s.claims <= 1 /\ s.asked = {}
  BY <1>1, <1>2 DEF Task
<1>4. NoTask.pc = "none" /\ NoTask.open = FALSE /\ NoTask.disconnected = FALSE
      /\ NoTask.claims <= 1 /\ NoTask.asked = {}
  BY DEF NoTask, NewTask
<1>5. CASE End(t) /\ task[t].cancel
  <2>1. Supervised(t) /\ task'[t] = NoTask
    BY <1>1, <1>5, TaskFits DEF End
  <2> QED
    BY <1>4, <2>1 DEF Idle, InSession
<1>6. CASE task' = [task EXCEPT ![t] = s]
  <2> HIDE DEF s
  <2>1. Supervised(t) /\ task'[t] = s
    BY <1>1, <1>3, <1>6, TaskFits
  <2>2. s.open = FALSE /\ s.disconnected = FALSE
    BY <1>3 DEF Task
  <2> QED
    BY <1>3, <2>1, <2>2 DEF Idle, InSession
<1> QED
  BY <1>5, <1>6

LEMMA GotoFits ==
  ASSUME TypeOK, NEW t \in Tasks, NEW pc \in TaskPc
  PROVE  /\ Goto(t, pc) => task' = [task EXCEPT ![t] =
              [task[t] EXCEPT !.pc = pc, !.fresh = task[t].fresh, !.outcome = task[t].outcome]]
         /\ Seen(t, pc) => task' = [task EXCEPT ![t] =
              [task[t] EXCEPT !.pc = pc, !.fresh = FALSE, !.outcome = task[t].outcome]]
<1>1. task \in [Tasks -> Task] /\ task[t] \in Task
  BY DEF TypeOK
<1>2. [task[t] EXCEPT !.pc = pc] =
        [task[t] EXCEPT !.pc = pc, !.fresh = task[t].fresh, !.outcome = task[t].outcome]
  BY <1>1 DEF Task
<1>3. [task[t] EXCEPT !.pc = pc, !.fresh = FALSE] =
        [task[t] EXCEPT !.pc = pc, !.fresh = FALSE, !.outcome = task[t].outcome]
  BY <1>1 DEF Task
<1>4. Goto(t, pc) => task' = [task EXCEPT ![t] = [task[t] EXCEPT !.pc = pc]]
  BY <1>1 DEF Goto
<1>5. Seen(t, pc) => task' = [task EXCEPT ![t] = [task[t] EXCEPT !.pc = pc, !.fresh = FALSE]]
  BY <1>1 DEF Seen
<1> QED
  BY <1>2, <1>3, <1>4, <1>5

\* Supervisors outside a session.
Idling(t) == \/ Top(t) \/ Wake(t) \/ Acquire(t) \/ ConnectFails(t) \/ Close(t)
             \/ Decide(t) \/ RetryTimer(t)

LEMMA IdlingFits ==
  ASSUME Types, SessionsEnd, ClaimsCounted, NEW t \in Tasks, Idling(t)
  PROVE  Idle(t)
<1>1. TypeOK /\ entry \in [Rules -> Entry]
  BY DEF Types, TypeOK
<1>2. UNCHANGED <<engine, worker, port>> /\ faults' \in 0..MaxFaults
  BY <1>1, FaultsFit
     DEF Idling, Top, Wake, Acquire, ConnectFails, Close, Decide, RetryTimer, NoFault
<1>3. task[t].pc \notin InSession \cup {"none"}
  BY DEF Idling, Top, Wake, Acquire, ConnectFails, Close, Decide, RetryTimer, InSession
<1>4. Relabelled /\ ByWanted(t)
  <2>1. CASE UNCHANGED entry
    BY <1>1, <2>1, QuietTable
  <2>2. CASE Top(t)
    <3>1. "Stopped" \in State /\ "Starting" \in State
      BY DEF State
    <3> QED
      BY <1>1, <2>2, <3>1, AnnounceFits DEF Top
  <2>3. CASE Decide(t)
    <3>1. "NeedsAttention" \in State /\ "Backoff" \in State
      BY DEF State
    <3> QED
      BY <1>1, <2>3, <3>1, AnnounceFits DEF Decide
  <2> QED
    BY <2>1, <2>2, <2>3 DEF Idling, Wake, Acquire, ConnectFails, Close, RetryTimer
<1>5. CASE End(t) /\ task[t].cancel
  <2>1. "top" \in TaskPc \ {"none", "serve", "drain"} /\ FALSE \in BOOLEAN /\ "none" \in Outcome
    BY DEF TaskPc, Outcome
  <2> QED
    BY <1>2, <1>3, <1>4, <1>5, <2>1, IdleFits
<1>6. ASSUME NEW pc \in {"await", "acquire", "top", "connect", "decide", "backoff"},
             NEW outcome \in {"none", "transient", "attention"},
             \/ Goto(t, pc) \/ Seen(t, pc)
             \/ task' = [task EXCEPT ![t].pc = pc, ![t].outcome = outcome]
             \/ task' = [task EXCEPT ![t].fresh = FALSE, ![t].outcome = outcome, ![t].pc = pc]
      PROVE  Idle(t)
  <2>1. pc \in TaskPc \ {"none", "serve", "drain"} /\ outcome \in Outcome
    BY DEF TaskPc, Outcome
  <2>2. /\ task \in [Tasks -> Task] /\ task[t] \in Task
        /\ task[t].fresh \in BOOLEAN /\ task[t].outcome \in Outcome
    BY <1>1 DEF TypeOK, Task
  <2>3. \E fresh \in BOOLEAN, o \in Outcome :
          task' = [task EXCEPT ![t] = [task[t] EXCEPT !.pc = pc, !.fresh = fresh, !.outcome = o]]
    <3>1. CASE Goto(t, pc)
      <4>1. task' = [task EXCEPT ![t] =
              [task[t] EXCEPT !.pc = pc, !.fresh = task[t].fresh, !.outcome = task[t].outcome]]
        BY <1>1, <2>1, <2>2, <3>1, GotoFits
      <4> QED
        BY <2>1, <2>2, <4>1
    <3>2. CASE Seen(t, pc)
      <4>1. task' = [task EXCEPT ![t] =
              [task[t] EXCEPT !.pc = pc, !.fresh = FALSE, !.outcome = task[t].outcome]]
        BY <1>1, <2>1, <2>2, <3>2, GotoFits
      <4> QED
        BY <2>1, <2>2, <4>1
    <3>3. CASE task' = [task EXCEPT ![t].pc = pc, ![t].outcome = outcome]
      <4>1. task' = [task EXCEPT ![t] =
              [task[t] EXCEPT !.pc = pc, !.fresh = task[t].fresh, !.outcome = outcome]]
        <5>1. [task[t] EXCEPT !.pc = pc, !.outcome = outcome] =
                [task[t] EXCEPT !.pc = pc, !.fresh = task[t].fresh, !.outcome = outcome]
          BY <2>2 DEF Task
        <5>2. task' = [task EXCEPT ![t] = [task[t] EXCEPT !.pc = pc, !.outcome = outcome]]
          BY <2>2, <3>3
        <5> QED
          BY <5>1, <5>2
      <4> QED
        BY <2>1, <2>2, <4>1
    <3>4. CASE task' = [task EXCEPT ![t].fresh = FALSE, ![t].outcome = outcome, ![t].pc = pc]
      <4>1. task' = [task EXCEPT ![t] =
              [task[t] EXCEPT !.pc = pc, !.fresh = FALSE, !.outcome = outcome]]
        <5>1. [task[t] EXCEPT !.fresh = FALSE, !.outcome = outcome, !.pc = pc] =
                [task[t] EXCEPT !.pc = pc, !.fresh = FALSE, !.outcome = outcome]
          BY <2>2 DEF Task
        <5>2. task' = [task EXCEPT ![t] =
                         [task[t] EXCEPT !.fresh = FALSE, !.outcome = outcome, !.pc = pc]]
          BY <2>2, <3>4
        <5> QED
          BY <5>1, <5>2
      <4> QED
        BY <2>1, <2>2, <4>1
    <3> QED
      BY <1>6, <3>1, <3>2, <3>3, <3>4
  <2> QED
    BY <1>2, <1>3, <1>4, <2>1, <2>3, IdleFits
<1>7. CASE Top(t) \/ Wake(t) \/ Acquire(t) \/ Close(t) \/ RetryTimer(t)
  <2>1. \/ End(t) /\ task[t].cancel
        \/ \E pc \in {"await", "acquire", "top", "connect", "decide"} : Goto(t, pc) \/ Seen(t, pc)
    BY <1>7 DEF Top, Wake, Acquire, Close, RetryTimer
  <2> QED
    BY <1>5, <1>6, <2>1
<1>8. CASE ConnectFails(t)
  BY <1>6, <1>8 DEF ConnectFails
<1>9. CASE Decide(t)
  <2>1. PICK pc \in {"top", "await", "backoff"} :
          task' = [task EXCEPT ![t].fresh = FALSE, ![t].outcome = "none", ![t].pc = pc]
    BY <1>9 DEF Decide
  <2> QED
    BY <1>6, <2>1
<1> QED
  BY <1>7, <1>8, <1>9 DEF Idling

LEMMA ConnectFits ==
  ASSUME Types, NEW t \in Tasks, Connect(t)
  PROVE  Fresh(t)
<1>1. TypeOK /\ task \in [Tasks -> Task] /\ task[t] \in Task
  BY DEF Types, TypeOK
<1> DEFINE s == [NoSession(task[t]) EXCEPT !.pc = "serve", !.open = TRUE]
<1>2. s \in Task /\ s.pc = "serve" /\ s.open /\ ~s.disconnected /\ s.claims = 0 /\ s.asked = {}
      /\ s.desired = task[t].desired /\ s.cancel = task[t].cancel
  BY <1>1 DEF NoSession, Task, TaskPc
<1>3. task' = [task EXCEPT ![t] = s]
  BY <1>1 DEF Connect
<1>4. UNCHANGED <<engine, entry, worker, port>> /\ faults' \in 0..MaxFaults
      /\ task[t].pc = "connect"
  BY <1>1, FaultsFit DEF Connect, NoFault
<1> HIDE DEF s
<1>5. Supervised(t) /\ task'[t] = s
  BY <1>1, <1>2, <1>3, <1>4, QuietTable, TaskFits
<1> QED
  BY <1>2, <1>4, <1>5 DEF Fresh, InSession

LEMMA EndSessionFits ==
  ASSUME Types, NEW t \in Tasks, Drain(t) \/ DrainTimeout(t)
  PROVE  Closed(t)
<1>1. TypeOK /\ task \in [Tasks -> Task] /\ task[t] \in Task
  BY DEF Types, TypeOK
<1> DEFINE s == [NoSession(task[t]) EXCEPT !.pc = "closing"]
<1>2. s \in Task /\ s.pc = "closing" /\ s.open = FALSE /\ s.disconnected = FALSE
      /\ s.claims = 0 /\ s.asked = {} /\ s.desired = task[t].desired /\ s.cancel = task[t].cancel
  BY <1>1 DEF NoSession, Task, TaskPc
<1>3. EndSession(t) /\ task[t].pc = "drain"
  BY DEF Drain, DrainTimeout
<1>4. task' = [task EXCEPT ![t] = s]
  BY <1>1, <1>3 DEF EndSession
<1>5. UNCHANGED <<engine, entry>> /\ faults' \in 0..MaxFaults
      /\ worker' = [worker EXCEPT ![t] = NoWorkers] /\ Abandon(t)
  BY <1>1, <1>3, FaultsFit DEF EndSession
<1> HIDE DEF s
<1>6. Supervised(t) /\ task'[t] = s
  BY <1>1, <1>2, <1>3, <1>4, <1>5, QuietTable, TaskFits
<1> QED
  BY <1>2, <1>3, <1>5, <1>6 DEF Closed

\* The workers that a pass leaves.
LEMMA PassedFits ==
  ASSUME TypeOK, NEW t \in Tasks
  PROVE  /\ Reaped(t) \in [Rules -> Worker] /\ Passed(t) \in [Rules -> Worker]
         /\ \A q \in Rules :
              /\ worker[t][q].pc = "done" => Reaped(t)[q] = NoWorker
              /\ worker[t][q].pc # "done" => Reaped(t)[q] = worker[t][q]
              /\ Stale(t, q) => Passed(t)[q] = [worker[t][q] EXCEPT !.cancel = TRUE]
              /\ Startable(t, q) =>
                   /\ Passed(t)[q].pc = "start" /\ Passed(t)[q].gen = task[t].desired[q].gen
                   /\ Passed(t)[q].cancel = FALSE /\ Passed(t)[q].refusals = 0
              /\ ~Stale(t, q) /\ ~Startable(t, q) => Passed(t)[q] = Reaped(t)[q]
<1> DEFINE New(q) == [NoWorker EXCEPT !.pc = "start", !.gen = task[t].desired[q].gen]
<1>1. worker[t] \in [Rules -> Worker] /\ task[t] \in Task /\ NoWorker \in Worker
  BY TaskTypes DEF TypeOK
<1>2. Reaped(t) \in [Rules -> Worker]
  BY <1>1 DEF Reaped
<1>3. ASSUME NEW q \in Rules
      PROVE  /\ worker[t][q].pc = "done" => Reaped(t)[q] = NoWorker
             /\ worker[t][q].pc # "done" => Reaped(t)[q] = worker[t][q]
  BY DEF Reaped
<1>4. ASSUME NEW q \in Rules
      PROVE  ~(Stale(t, q) /\ Startable(t, q))
  BY DEF Stale, Startable
<1>5. ASSUME NEW q \in Rules
      PROVE  /\ New(q) \in Worker /\ New(q).pc = "start"
             /\ New(q).gen = task[t].desired[q].gen
             /\ New(q).cancel = FALSE /\ New(q).refusals = 0
  <2>1. task[t].desired[q].gen \in Nat /\ "start" \in WorkerPc
    BY <1>1 DEF Task, Wanted, WorkerPc
  <2>2. NoWorker.cancel = FALSE /\ NoWorker.refusals = 0
    BY DEF NoWorker
  <2> QED
    BY <1>1, <2>1, <2>2 DEF Worker
<1>6. Passed(t) = [q \in Rules |->
         CASE Stale(t, q) -> [worker[t][q] EXCEPT !.cancel = TRUE]
           [] Startable(t, q) -> New(q)
           [] OTHER -> Reaped(t)[q]]
  BY DEF Passed
<1> HIDE DEF New
<1>7. ASSUME NEW q \in Rules
      PROVE  /\ Stale(t, q) => Passed(t)[q] = [worker[t][q] EXCEPT !.cancel = TRUE]
             /\ Startable(t, q) => Passed(t)[q] = New(q)
             /\ ~Stale(t, q) /\ ~Startable(t, q) => Passed(t)[q] = Reaped(t)[q]
  BY <1>4, <1>6
<1>8. ASSUME NEW q \in Rules
      PROVE  Passed(t)[q] \in Worker
  <2>1. [worker[t][q] EXCEPT !.cancel = TRUE] \in Worker
    BY <1>1 DEF Worker
  <2>2. Reaped(t)[q] \in Worker
    BY <1>2
  <2> QED
    BY <1>5, <1>7, <2>1, <2>2
<1>9. Passed(t) \in [Rules -> Worker]
  <2>1. Passed(t) = [q \in Rules |-> Passed(t)[q]]
    BY <1>6
  <2> QED
    BY <1>8, <2>1
<1> QED
  BY <1>2, <1>3, <1>5, <1>7, <1>9

LEMMA LeaveFits ==
  ASSUME Types, NEW t \in Tasks, task[t].pc = "serve",
         NEW outcome \in Outcome, NEW workers \in [Rules -> Worker], NEW fresh \in BOOLEAN,
         Leave(t, outcome, workers, fresh),
         workers = Reaped(t) \/ (workers = Passed(t) /\ ~Spent(t)) \/ workers = worker[t],
         Relabelled, ByWanted(t), UNCHANGED <<engine, port>>, faults' \in 0..MaxFaults
  PROVE  /\ Rework(t) /\ task'[t].pc = "drain" /\ task'[t].fresh = fresh
         /\ \A q \in Rules : /\ worker'[t][q].pc = workers[q].pc
                             /\ worker'[t][q].gen = workers[q].gen
<1>1. TypeOK /\ task \in [Tasks -> Task] /\ task[t] \in Task
      /\ worker \in [Tasks -> [Rules -> Worker]]
  BY DEF Types, TypeOK
<1> DEFINE s == [task[t] EXCEPT !.pc = "drain", !.fresh = fresh, !.outcome = outcome,
                                !.disconnected = outcome # "none" \/ ~task[t].open]
           W == [q \in Rules |-> [workers[q] EXCEPT !.cancel = Alive(workers[q])]]
<1>2. /\ s \in Task /\ s.pc = "drain" /\ s.desired = task[t].desired /\ s.cancel = task[t].cancel
      /\ s.open = task[t].open /\ s.blocked = task[t].blocked /\ s.failed = task[t].failed
      /\ s.claims = task[t].claims /\ s.asked = task[t].asked /\ s.fresh = fresh
  BY <1>1 DEF Task, TaskPc
<1>3. ASSUME NEW q \in Rules
      PROVE  /\ W[q] \in Worker /\ W[q].pc = workers[q].pc /\ W[q].gen = workers[q].gen
             /\ W[q].refusals = workers[q].refusals /\ W[q].cancel = Alive(workers[q])
  <2>1. workers[q] \in Worker
    OBVIOUS
  <2> QED
    BY <2>1 DEF Worker, Alive
<1>4. W = [q \in Rules |-> W[q]]
  OBVIOUS
<1>5. task' = [task EXCEPT ![t] = s] /\ worker' = [worker EXCEPT ![t] = W]
  BY <1>1 DEF Leave
<1> HIDE DEF s, W
<1>6. W \in [Rules -> Worker]
  BY <1>3, <1>4
<1>7. Supervised(t) /\ task'[t] = s
  BY <1>1, <1>2, <1>5, TaskFits
<1>8. worker' \in [Tasks -> [Rules -> Worker]] /\ worker'[t] = W
      /\ \A u \in Tasks : u # t => worker'[u] = worker[u]
  BY <1>1, <1>5, <1>6
<1>9. \A q \in Rules : worker'[t][q].cancel = Alive(worker'[t][q])
  BY <1>3, <1>8 DEF Alive
<1>10. ASSUME NEW q \in Rules
       PROVE  Kept(t, q) \/ Gone(t, q) \/ Begun(t, q)
  <2>1. /\ worker[t][q].pc = "done" => Reaped(t)[q] = NoWorker
        /\ worker[t][q].pc # "done" => Reaped(t)[q] = worker[t][q]
        /\ Stale(t, q) => Passed(t)[q] = [worker[t][q] EXCEPT !.cancel = TRUE]
        /\ Startable(t, q) =>
             /\ Passed(t)[q].pc = "start" /\ Passed(t)[q].gen = task[t].desired[q].gen
             /\ Passed(t)[q].cancel = FALSE /\ Passed(t)[q].refusals = 0
        /\ ~Stale(t, q) /\ ~Startable(t, q) => Passed(t)[q] = Reaped(t)[q]
    BY <1>1, PassedFits
  <2>2. ASSUME workers[q] = worker[t][q]
        PROVE  Kept(t, q)
    BY <2>2, <1>2, <1>3, <1>7, <1>8 DEF Kept
  <2>3. ASSUME worker[t][q].pc = "done", workers[q] = NoWorker
        PROVE  Gone(t, q)
    <3>1. W[q] = NoWorker
      <4>1. W[q].pc = "none" /\ W[q].gen = 0 /\ W[q].refusals = 0 /\ W[q].cancel = FALSE
        <5>1. workers[q].pc = "none" /\ workers[q].gen = 0 /\ workers[q].refusals = 0
          BY <2>3 DEF NoWorker
        <5>2. Alive(workers[q]) = FALSE
          BY <5>1 DEF Alive
        <5> QED
          BY <1>3, <5>1, <5>2
      <4>2. W[q] = [pc |-> W[q].pc, gen |-> W[q].gen, cancel |-> W[q].cancel,
                    refusals |-> W[q].refusals]
        BY <1>3 DEF Worker
      <4> QED
        BY <4>1, <4>2 DEF NoWorker
    <3> QED
      BY <1>8, <2>3, <3>1 DEF Gone
  <2>4. CASE workers = worker[t]
    BY <2>2, <2>4
  <2>5. ASSUME workers[q] = Reaped(t)[q]
        PROVE  Kept(t, q) \/ Gone(t, q)
    BY <2>1, <2>2, <2>3, <2>5
  <2>6. CASE workers = Reaped(t)
    BY <2>5, <2>6
  <2>7. CASE workers = Passed(t) /\ ~Spent(t)
    <3>1. CASE Stale(t, q)
      <4>1. worker[t][q] \in Worker /\ workers[q] = [worker[t][q] EXCEPT !.cancel = TRUE]
        BY <1>1, <2>1, <2>7, <3>1
      <4>2. workers[q].pc = worker[t][q].pc /\ workers[q].gen = worker[t][q].gen
            /\ workers[q].refusals = worker[t][q].refusals
        BY <4>1 DEF Worker
      <4> QED
        BY <1>2, <1>3, <1>7, <1>8, <4>2 DEF Kept
    <3>2. CASE Startable(t, q)
      <4>1. workers[q].pc = "start" /\ workers[q].gen = task[t].desired[q].gen
            /\ workers[q].refusals = 0
        BY <2>1, <2>7, <3>2
      <4> QED
        BY <1>2, <1>3, <1>7, <1>8, <2>7, <3>2, <4>1 DEF Begun, Startable, Alive
    <3>3. CASE ~Stale(t, q) /\ ~Startable(t, q)
      BY <2>1, <2>5, <2>7, <3>3
    <3> QED
      BY <3>1, <3>2, <3>3
  <2> QED
    BY <2>4, <2>6, <2>7
<1>11. Rework(t)
  BY <1>2, <1>7, <1>8, <1>9, <1>10 DEF Rework, InSession
<1> QED
  BY <1>2, <1>3, <1>7, <1>8, <1>11

\* A pass over the rules: the session goes on or goes down.
LEMMA PassFits ==
  ASSUME Types, Sessions, NEW t \in Tasks, Pass(t)
  PROVE  /\ Rework(t) /\ ~task'[t].fresh
         /\ \/ (task[t].cancel \/ Spent(t)) /\ UNCHANGED entry /\ task'[t].pc = "drain"
            \/ /\ ~task[t].cancel /\ ~Spent(t) /\ entry' = PassReports(t)
               /\ \A q \in Rules : /\ worker'[t][q].pc = Passed(t)[q].pc
                                   /\ worker'[t][q].gen = Passed(t)[q].gen
<1>1. /\ TypeOK /\ task \in [Tasks -> Task] /\ task[t] \in Task
      /\ worker \in [Tasks -> [Rules -> Worker]] /\ entry \in [Rules -> Entry]
  BY DEF Types, TypeOK
<1>2. UNCHANGED <<engine, port>> /\ faults' \in 0..MaxFaults /\ task[t].pc = "serve"
  BY <1>1, FaultsFit DEF Pass, NoFault
<1>3. Reaped(t) \in [Rules -> Worker] /\ Passed(t) \in [Rules -> Worker]
  BY <1>1, PassedFits
<1>4. {"none", "attention", "transient"} \subseteq Outcome /\ FALSE \in BOOLEAN
  BY DEF Outcome
<1>5. CASE task[t].cancel \/ Spent(t)
  <2>1. Leave(t, "none", Reaped(t), FALSE) /\ UNCHANGED entry
    BY <1>5 DEF Pass
  <2>2. Relabelled /\ ByWanted(t)
    BY <1>1, <2>1, QuietTable
  <2>3. Rework(t) /\ task'[t].pc = "drain" /\ task'[t].fresh = FALSE
    BY <1>2, <1>3, <1>4, <2>1, <2>2, LeaveFits
  <2> QED
    BY <1>5, <2>1, <2>3
<1>6. CASE ~task[t].cancel /\ ~Spent(t)
  <2>1. entry' = PassReports(t)
    BY <1>6 DEF Pass
  <2>2. Relabelled /\ ByWanted(t)
    BY <1>1, <2>1, PassReportsFit
  <2>3. ASSUME NEW outcome \in {"none", "attention", "transient"},
               Leave(t, outcome, Passed(t), FALSE)
        PROVE  /\ Rework(t) /\ task'[t].fresh = FALSE
               /\ \A q \in Rules : /\ worker'[t][q].pc = Passed(t)[q].pc
                                   /\ worker'[t][q].gen = Passed(t)[q].gen
    BY <1>2, <1>3, <1>4, <1>6, <2>2, <2>3, LeaveFits
  <2>4. CASE worker' = [worker EXCEPT ![t] = Passed(t)] /\ Seen(t, "serve")
    <3>1. worker' \in [Tasks -> [Rules -> Worker]] /\ worker'[t] = Passed(t)
          /\ \A u \in Tasks : u # t => worker'[u] = worker[u]
      BY <1>1, <1>3, <2>4
    <3> DEFINE s == [task[t] EXCEPT !.pc = "serve", !.fresh = FALSE]
    <3>2. /\ s \in Task /\ s.pc = "serve" /\ s.desired = task[t].desired
          /\ s.cancel = task[t].cancel /\ s.open = task[t].open /\ s.blocked = task[t].blocked
          /\ s.failed = task[t].failed /\ s.claims = task[t].claims /\ s.asked = task[t].asked
          /\ s.disconnected = task[t].disconnected /\ s.fresh = FALSE
      BY <1>1 DEF Task, TaskPc
    <3>3. task' = [task EXCEPT ![t] = s]
      BY <1>1, <2>4 DEF Seen
    <3> HIDE DEF s
    <3>4. Supervised(t) /\ task'[t] = s
      BY <1>1, <1>2, <2>2, <3>2, <3>3, TaskFits
    <3>5. ~task[t].disconnected
      BY <1>2 DEF Sessions, SessionsEnd
    <3>6. ASSUME NEW q \in Rules
          PROVE  Kept(t, q) \/ Gone(t, q) \/ Begun(t, q)
      <4>1. /\ worker[t][q].pc = "done" => Reaped(t)[q] = NoWorker
            /\ worker[t][q].pc # "done" => Reaped(t)[q] = worker[t][q]
            /\ Stale(t, q) => Passed(t)[q] = [worker[t][q] EXCEPT !.cancel = TRUE]
            /\ Startable(t, q) =>
                 /\ Passed(t)[q].pc = "start" /\ Passed(t)[q].gen = task[t].desired[q].gen
                 /\ Passed(t)[q].cancel = FALSE /\ Passed(t)[q].refusals = 0
            /\ ~Stale(t, q) /\ ~Startable(t, q) => Passed(t)[q] = Reaped(t)[q]
        BY <1>1, PassedFits
      <4>2. worker[t][q] \in Worker
        BY <1>1
      <4>3. CASE Stale(t, q)
        <5>1. worker'[t][q] = [worker[t][q] EXCEPT !.cancel = TRUE]
          BY <3>1, <4>1, <4>3
        <5>2. worker'[t][q].pc = worker[t][q].pc /\ worker'[t][q].gen = worker[t][q].gen
              /\ worker'[t][q].refusals = worker[t][q].refusals /\ worker'[t][q].cancel = TRUE
          BY <4>2, <5>1 DEF Worker
        <5> QED
          BY <4>3, <5>2 DEF Kept
      <4>4. CASE Startable(t, q)
        BY <1>6, <3>1, <4>1, <4>4 DEF Begun, Startable, Alive
      <4>5. CASE ~Stale(t, q) /\ ~Startable(t, q) /\ worker[t][q].pc = "done"
        BY <3>1, <4>1, <4>5 DEF Gone
      <4>6. CASE ~Stale(t, q) /\ ~Startable(t, q) /\ worker[t][q].pc # "done"
        BY <3>1, <4>1, <4>6 DEF Kept
      <4> QED
        BY <4>3, <4>4, <4>5, <4>6
    <3>7. Rework(t)
      BY <1>2, <1>6, <3>1, <3>2, <3>4, <3>5, <3>6 DEF Rework, InSession
    <3> QED
      BY <1>6, <2>1, <3>1, <3>2, <3>4, <3>7
  <2> QED
    BY <1>6, <2>1, <2>3, <2>4 DEF Pass
<1> QED
  BY <1>5, <1>6

LEMMA ReconnectFits ==
  ASSUME Types, NEW t \in Tasks, Reconnect(t)
  PROVE  /\ Rework(t) /\ task'[t].pc = "drain" /\ task'[t].fresh = task[t].fresh
         /\ UNCHANGED entry
         /\ \A q \in Rules : worker'[t][q].pc = worker[t][q].pc
<1>1. TypeOK /\ task[t] \in Task /\ worker[t] \in [Rules -> Worker]
  BY DEF Types, TypeOK
<1>2. "transient" \in Outcome /\ task[t].fresh \in BOOLEAN /\ task[t].pc = "serve"
  BY <1>1 DEF Outcome, Task, Reconnect
<1>3. UNCHANGED <<engine, entry, port>> /\ faults' \in 0..MaxFaults
  BY <1>1, FaultsFit DEF Reconnect, NoFault
<1>4. Relabelled /\ ByWanted(t)
  BY <1>1, <1>3, QuietTable
<1>5. Leave(t, "transient", worker[t], task[t].fresh)
  BY DEF Reconnect
<1> QED
  BY <1>1, <1>2, <1>3, <1>4, <1>5, LeaveFits
-----------------------------------------------------------------------------
(* Steps of supervisors keep the invariant.                                *)
SupervisorStep(t) == Idle(t) \/ Fresh(t) \/ Rework(t) \/ Closed(t)

LEMMA AbandonFits ==
  ASSUME TypeOK, NEW t \in Tasks, Abandon(t)
  PROVE  /\ port' \in [Ports -> Tasks \cup {Free, Ghost}]
         /\ \A p \in Ports : port'[p] # t /\ (port'[p] = port[p] \/ port'[p] = Ghost)
<1>1. Ghost # t
  BY RulesAssumption DEF Ghost, Tasks
<1> QED
  BY <1>1 DEF TypeOK, Abandon

\* What the steps of supervisors have in common.
LEMMA SupervisorFrame ==
  ASSUME Types, NEW t \in Tasks, SupervisorStep(t)
  PROVE  /\ Supervised(t)
         /\ worker' \in [Tasks -> [Rules -> Worker]]
         /\ \A u \in Tasks : u # t => worker'[u] = worker[u] /\ task'[u] = task[u]
         /\ port' \in [Ports -> Tasks \cup {Free, Ghost}]
         /\ \A p \in Ports : port'[p] = port[p] \/ port'[p] = Ghost
         /\ \A u \in Tasks, p \in Ports : port'[p] = u => port[p] = u
<1>1. NoWorkers \in [Rules -> Worker] /\ worker \in [Tasks -> [Rules -> Worker]]
      /\ port \in [Ports -> Tasks \cup {Free, Ghost}] /\ TypeOK
  BY TaskTypes DEF Types, TypeOK
<1>2. Ghost \notin Tasks
  BY RulesAssumption DEF Ghost, Tasks
<1>3. Supervised(t)
  BY DEF SupervisorStep, Idle, Fresh, Rework, Closed
<1>4. CASE UNCHANGED <<worker, port>>
  BY <1>1, <1>3, <1>4 DEF Supervised
<1>5. CASE Rework(t)
  BY <1>1, <1>3, <1>5 DEF Rework, Supervised
<1>6. CASE Closed(t)
  BY <1>1, <1>2, <1>3, <1>6, AbandonFits DEF Closed, Supervised
<1> QED
  BY <1>4, <1>5, <1>6 DEF SupervisorStep, Idle, Fresh

LEMMA SupervisorKeepsTypes ==
  ASSUME Types, NEW t \in Tasks, SupervisorStep(t)
  PROVE  Types'
<1>1. /\ Supervised(t) /\ worker' \in [Tasks -> [Rules -> Worker]]
      /\ \A u \in Tasks : u # t => worker'[u] = worker[u]
      /\ port' \in [Ports -> Tasks \cup {Free, Ghost}]
  BY SupervisorFrame
<1>2. TypeOK'
  BY <1>1 DEF Types, TypeOK, Supervised, Relabelled, engine
<1>3. RefusalsCounted'
  <2> SUFFICES ASSUME NEW q \in Rules, worker'[t][q].refusals = Attempts
               PROVE  worker'[t][q].pc \in {"release", "blocked", "failed", "done"}
    BY <1>1 DEF RefusalsCounted, Types
  <2>1. CASE worker'[t][q] = NoWorker
    BY <2>1 DEF NoWorker, Attempts
  <2>2. CASE UNCHANGED worker
    BY <2>2 DEF RefusalsCounted, Types
  <2>3. CASE Rework(t)
    BY <2>1, <2>3 DEF RefusalsCounted, Types, Rework, Kept, Gone, Begun, Attempts
  <2>4. CASE Closed(t)
    <3>1. worker'[t] = NoWorkers
      BY <2>4 DEF Closed, Types, TypeOK
    <3> QED
      BY <2>1, <3>1 DEF NoWorkers
  <2> QED
    BY <2>2, <2>3, <2>4 DEF SupervisorStep, Idle, Fresh
<1> QED
  BY <1>2, <1>3 DEF Types

LEMMA SupervisorKeepsSessions ==
  ASSUME Types, Sessions, NEW t \in Tasks, SupervisorStep(t)
  PROVE  Sessions'
<1>1. /\ Supervised(t) /\ worker' \in [Tasks -> [Rules -> Worker]]
      /\ \A u \in Tasks : u # t => worker'[u] = worker[u] /\ task'[u] = task[u]
      /\ \A u \in Tasks, p \in Ports : port'[p] = u => port[p] = u
  BY SupervisorFrame
<1>2. UNCHANGED generation
  BY <1>1 DEF Supervised, engine
<1>3. SessionsEnd'
  <2> SUFFICES /\ task'[t].pc \notin InSession => worker'[t] = NoWorkers /\ ~task'[t].open
               /\ task'[t].pc # "drain" => ~task'[t].disconnected
               /\ ~task'[t].open => task'[t].asked = {} /\ \A p \in Ports : port'[p] # t
    BY <1>1 DEF SessionsEnd, Sessions
  <2>1. CASE Idle(t)
    <3>1. worker[t] = NoWorkers /\ ~task[t].open /\ \A p \in Ports : port[p] # t
      BY <2>1 DEF Idle, Sessions, SessionsEnd
    <3> QED
      BY <1>1, <2>1, <3>1 DEF Idle
  <2>2. CASE Fresh(t)
    BY <2>2 DEF Fresh, InSession
  <2>3. CASE Rework(t)
    BY <2>3 DEF Rework, Sessions, SessionsEnd, InSession
  <2>4. CASE Closed(t)
    <3>1. worker'[t] = NoWorkers /\ \A p \in Ports : port'[p] # t
      BY <2>4, AbandonFits DEF Closed, Types, TypeOK
    <3> QED
      BY <2>4, <3>1 DEF Closed
  <2> QED
    BY <2>1, <2>2, <2>3, <2>4 DEF SupervisorStep
<1>4. EntriesValid'
  BY <1>1, <1>2 DEF Sessions, EntriesValid, Compatible, Supervised, Relabelled, Belongs
<1>5. WantedValid'
  <2>1. ASSUME NEW u \in Tasks
        PROVE  task'[u].desired = task[u].desired \/ task'[u].desired = Nobody
    BY <1>1 DEF Supervised, NoTask, NewTask
  <2>2. ASSUME NEW u \in Tasks
        PROVE  /\ Compatible(OnIn(u))'
               /\ \A r \in Rules :
                    /\ task'[u].desired[r].on => task'[u].desired[r].gen # 0
                    /\ task'[u].desired[r].gen <= generation
                    /\ task'[u].desired[r].gen # 0 => Belongs(r, u[1])
    <3>1. CASE task'[u].desired = task[u].desired
      BY <3>1 DEF Sessions, WantedValid, Compatible, OnIn
    <3>2. CASE task'[u].desired = Nobody
      <4>1. \A r \in Rules : task'[u].desired[r].gen = 0 /\ ~task'[u].desired[r].on
        BY <3>2 DEF Nobody
      <4>2. generation \in Nat
        BY DEF Types, TypeOK
      <4> QED
        BY <4>1, <4>2 DEF Compatible, OnIn
    <3> QED
      BY <2>1, <3>1, <3>2
  <2> QED
    BY <1>2, <2>2 DEF WantedValid, Belongs
<1>6. WorkersValid'
  <2> SUFFICES ASSUME NEW q \in Rules, worker'[t][q].pc # "none"
               PROVE  /\ worker'[t][q].gen # 0 /\ worker'[t][q].gen <= generation
                      /\ Belongs(q, t[1])
                      /\ q \notin Remote =>
                           worker'[t][q].pc \in {"start", "bind", "wait", "open", "done"}
    BY <1>1, <1>2 DEF Sessions, WorkersValid, Belongs
  <2>1. CASE UNCHANGED worker
    BY <2>1 DEF Sessions, WorkersValid
  <2>2. CASE Rework(t)
    <3>1. CASE Kept(t, q)
      BY <3>1 DEF Kept, Sessions, WorkersValid
    <3>2. CASE Gone(t, q)
      BY <3>2 DEF Gone, NoWorker
    <3>3. CASE Begun(t, q)
      BY <3>3 DEF Begun, Sessions, WantedValid
    <3> QED
      BY <2>2, <3>1, <3>2, <3>3 DEF Rework
  <2>3. CASE Closed(t)
    BY <2>3 DEF Closed, Types, TypeOK, NoWorkers, NoWorker
  <2> QED
    BY <2>1, <2>2, <2>3 DEF SupervisorStep, Idle, Fresh
<1>7. DrainingIsCancelled'
  <2>1. task'[t].pc = "drain" => Rework(t)
    BY DEF SupervisorStep, Idle, Fresh, Closed, InSession
  <2>2. ASSUME NEW q \in Rules, task'[t].pc = "drain", Alive(worker'[t][q])
        PROVE  worker'[t][q].cancel
    BY <2>1, <2>2 DEF Rework
  <2> QED
    BY <1>1, <2>2 DEF Sessions, DrainingIsCancelled, Alive
<1>8. OneOwnerPerSession'
  <2> SUFFICES ASSUME NEW r \in Remote, NEW q \in Remote, r # q, Port[r] = Port[q],
                      Alive(worker'[t][r]), Alive(worker'[t][q])
               PROVE  FALSE
    BY <1>1 DEF Sessions, OneOwnerPerSession, Alive
  <2>1. r \in Rules /\ q \in Rules
    BY RulesAssumption
  <2>2. ~(Alive(worker[t][r]) /\ Alive(worker[t][q]))
    BY DEF Sessions, OneOwnerPerSession
  <2>3. CASE UNCHANGED worker
    BY <2>2, <2>3
  <2>4. CASE Rework(t)
    <3>1. \A x \in {r, q} : (Alive(worker[t][x]) /\ ~Begun(t, x)) \/ Begun(t, x)
      BY <2>1, <2>4 DEF Rework, Kept, Gone, Alive, NoWorker
    <3>2. CASE Begun(t, r) /\ Begun(t, q)
      BY <2>1, <3>2 DEF Begun, Sessions, WantedValid, Compatible, OnIn
    <3>3. CASE Begun(t, r) /\ Alive(worker[t][q])
      BY <3>3 DEF Begun, Occupied
    <3>4. CASE Alive(worker[t][r]) /\ Begun(t, q)
      BY <3>4 DEF Begun, Occupied
    <3> QED
      BY <2>2, <3>1, <3>2, <3>3, <3>4
  <2>5. CASE Closed(t)
    BY <2>1, <2>5 DEF Closed, Types, TypeOK, NoWorkers, NoWorker, Alive
  <2> QED
    BY <2>3, <2>4, <2>5 DEF SupervisorStep, Idle, Fresh
<1> QED
  BY <1>3, <1>4, <1>5, <1>6, <1>7, <1>8 DEF Sessions

LEMMA SupervisorKeepsHolds ==
  ASSUME Types, Sessions, Holds, NEW t \in Tasks, SupervisorStep(t)
  PROVE  Holds'
<1>1. /\ Supervised(t) /\ worker' \in [Tasks -> [Rules -> Worker]]
      /\ \A u \in Tasks : u # t => worker'[u] = worker[u] /\ task'[u] = task[u]
      /\ \A u \in Tasks, p \in Ports : port'[p] = u => port[p] = u
  BY SupervisorFrame
<1>2. Verified \subseteq Remote /\ Remote \subseteq Rules
  BY RulesAssumption
<1>3. ~task[t].open => \A p \in Ports : port[p] # t
  BY DEF Sessions, SessionsEnd
<1>4. task[t].pc \notin InSession => ~task[t].open
  BY DEF Sessions, SessionsEnd
<1>5. task[t].pc # "drain" => ~task[t].disconnected
  BY DEF Sessions, SessionsEnd
<1>6. Closed(t) => \A p \in Ports : port'[p] # t
  BY AbandonFits DEF Closed, Types
<1>7. ClaimsCounted'
  <2> SUFFICES /\ task'[t].claims <= 1
               /\ task'[t].pc = "serve" /\ task'[t].claims = 1 =>
                    \E r \in Verified : worker'[t][r].pc \notin {"none", "start"}
    BY <1>1 DEF ClaimsCounted, Holds
  <2>1. CASE Idle(t) \/ Closed(t)
    BY <2>1 DEF Idle, Closed, InSession
  <2>2. CASE Fresh(t)
    BY <2>2 DEF Fresh
  <2>3. CASE Rework(t)
    <3>1. task'[t].claims <= 1
      BY <2>3 DEF Rework, Holds, ClaimsCounted
    <3>2. ASSUME task'[t].pc = "serve", task'[t].claims = 1
          PROVE  \E r \in Verified : worker'[t][r].pc \notin {"none", "start"}
      <4>1. PICK r \in Verified : worker[t][r].pc \notin {"none", "start"}
        BY <2>3, <3>2 DEF Rework, Holds, ClaimsCounted
      <4>2. worker[t][r].pc # "done"
        BY <2>3, <3>2 DEF Rework, Spent
      <4>3. Kept(t, r)
        BY <1>2, <2>3, <4>1, <4>2 DEF Rework, Gone, Begun
      <4> QED
        BY <4>1, <4>3 DEF Kept
    <3> QED
      BY <3>1, <3>2
  <2> QED
    BY <2>1, <2>2, <2>3 DEF SupervisorStep
<1>8. AskedIsPending'
  <2> SUFFICES ASSUME NEW r \in task'[t].asked
               PROVE  /\ r \in Remote
                      /\ worker'[t][r].pc = "pending"
                         \/ (task'[t].disconnected /\ worker'[t][r].pc = "done")
    BY <1>1 DEF AskedIsPending, Holds
  <2>1. Rework(t)
    BY DEF SupervisorStep, Idle, Fresh, Closed
  <2>2. r \in Remote /\ worker[t][r].pc = "pending"
    BY <1>5, <2>1 DEF Rework, Holds, AskedIsPending
  <2>3. Kept(t, r)
    BY <1>2, <2>1, <2>2 DEF Rework, Gone, Begun
  <2> QED
    BY <2>2, <2>3 DEF Kept
<1>9. HeldIsDriven'
  <2> SUFFICES ASSUME NEW p \in Ports, port'[p] = t,
                      ~task'[t].disconnected, ~task'[t].blocked, ~task'[t].failed
               PROVE  \E r \in Remote : Port[r] = p /\ worker'[t][r].pc \in Holding
    BY <1>1 DEF HeldIsDriven, Holds
  <2>1. port[p] = t
    BY <1>1
  <2>2. Rework(t)
    BY <1>3, <1>4, <1>6, <2>1 DEF SupervisorStep, Idle, Fresh
  <2>3. PICK r \in Remote : Port[r] = p /\ worker[t][r].pc \in Holding
    BY <1>5, <2>1, <2>2 DEF Rework, Holds, HeldIsDriven
  <2>4. Kept(t, r)
    BY <1>2, <2>2, <2>3 DEF Rework, Gone, Begun, Holding
  <2> QED
    BY <2>3, <2>4 DEF Kept
<1>10. EarlyHoldsNothing'
  <2> SUFFICES ASSUME NEW r \in Verified, Belongs(r, t[1]),
                      worker'[t][r].pc \in Early
                        \/ (worker'[t][r].pc = "none" /\ task'[t].pc = "serve"),
                      port'[Port[r]] = t
               PROVE  FALSE
    <3>1. \A u \in Tasks, r \in Verified : Port[r] \in Ports
      BY <1>2 DEF Ports
    <3> QED
      BY <1>1, <3>1 DEF EarlyHoldsNothing, Holds, Belongs
  <2>1. port[Port[r]] = t /\ r \in Rules
    BY <1>1, <1>2 DEF Ports
  <2>2. Rework(t)
    BY <1>2, <1>3, <1>4, <1>6, <2>1 DEF SupervisorStep, Idle, Fresh, Ports
  <2>3. worker[t][r].pc \in Early \/ worker[t][r].pc = "none"
    <3>1. CASE Kept(t, r)
      BY <3>1 DEF Kept
    <3>2. CASE Gone(t, r)
      BY <2>2, <3>2 DEF Gone, Rework, Spent, NoWorker, Early
    <3>3. CASE Begun(t, r)
      BY <3>3 DEF Begun, Spent
    <3> QED
      BY <2>1, <2>2, <3>1, <3>2, <3>3 DEF Rework
  <2> QED
    BY <2>1, <2>2, <2>3 DEF Rework, Holds, EarlyHoldsNothing
<1> QED
  BY <1>7, <1>8, <1>9, <1>10 DEF Holds

LEMMA SupervisorKeepsGenerations ==
  ASSUME Types, Sessions, Generations, NEW t \in Tasks, SupervisorStep(t)
  PROVE  Generations'
<1>1. /\ Supervised(t) /\ worker' \in [Tasks -> [Rules -> Worker]]
      /\ \A u \in Tasks : u # t => worker'[u] = worker[u] /\ task'[u] = task[u]
  BY SupervisorFrame
<1>2. \A q \in Rules : entry'[q].gen = entry[q].gen /\ entry'[q].key = entry[q].key
                       /\ entry'[q].on = entry[q].on
  BY <1>1 DEF Supervised, Relabelled
<1>3. UNCHANGED <<group, op>>
  BY <1>1 DEF Supervised, engine
<1>4. NoTask.pc = "none" /\ NoTask.desired = Nobody
  BY DEF NoTask, NewTask
<1>5. GroupsKept'
  <2>1. \A k \in Keys : Handed(entry, k)' = Handed(entry, k)
    BY <1>2 DEF Handed
  <2>2. \A k \in Keys : group[k] # 0 => Current(k) \in Tasks
    BY BoundsAssumption DEF Current, Tasks, Types, TypeOK
  <2>3. ASSUME NEW k \in Keys, group'[k] # 0
        PROVE  LET s == task'[Current(k)] IN
               s.pc # "none" /\ ~s.cancel /\ s.desired = Handed(entry, k)'
    <3>1. LET s == task[Current(k)] IN s.pc # "none" /\ ~s.cancel /\ s.desired = Handed(entry, k)
      BY <1>3, <2>3 DEF Generations, GroupsKept
    <3> QED
      BY <1>1, <1>3, <2>1, <2>2, <2>3, <3>1 DEF Supervised
  <2>4. \A k \in Keys : Current(k)' = Current(k)
    BY <1>3 DEF Current
  <2> QED
    BY <1>2, <1>3, <2>3, <2>4 DEF Generations, GroupsKept, Configured
<1>6. WantedMatch'
  <2> SUFFICES ASSUME NEW r \in Rules, task'[t].pc # "none", Configured(r),
                      task'[t].desired[r].gen = entry[r].gen
               PROVE  /\ t[1] = entry[r].key /\ task'[t].desired[r].on = entry[r].on
                      /\ t = Current(t[1]) \/ op.kind \in Leaving
                      /\ op.kind = "join" => t \in op.tasks
    BY <1>1, <1>2, <1>3 DEF WantedMatch, Generations, Configured, Current
  <2>1. task[t].pc # "none" /\ task'[t].desired = task[t].desired
    BY <1>1, <1>4 DEF Supervised
  <2> QED
    BY <2>1 DEF Generations, WantedMatch
<1>7. WorkersMatch'
  <2> SUFFICES ASSUME NEW r \in Rules, worker'[t][r].pc # "none"
               PROVE  /\ Configured(r) /\ worker'[t][r].gen = entry[r].gen =>
                           task'[t].desired[r] = [gen |-> entry[r].gen, on |-> TRUE]
                      /\ worker'[t][r].gen = task'[t].desired[r].gen => task'[t].desired[r].on
    <3>1. \A r \in Rules : Configured(r)' <=> Configured(r)
      BY <1>2 DEF Configured
    <3>2. ASSUME NEW u \in Tasks \ {t}, NEW r \in Rules, worker'[u][r].pc # "none"
          PROVE  /\ Configured(r) /\ worker'[u][r].gen = entry[r].gen =>
                      task'[u].desired[r] = [gen |-> entry[r].gen, on |-> TRUE]
                 /\ worker'[u][r].gen = task'[u].desired[r].gen => task'[u].desired[r].on
      <4>1. u \in Tasks /\ worker'[u] = worker[u] /\ task'[u] = task[u]
        BY <1>1
      <4> QED
        BY <3>2, <4>1 DEF WorkersMatch, Generations
    <3> QED
      BY <1>2, <3>1, <3>2 DEF WorkersMatch
  <2>1. Rework(t)
    <3>1. Idle(t) \/ Fresh(t) => worker'[t] = NoWorkers
      BY DEF Idle, Fresh, Sessions, SessionsEnd
    <3>2. Closed(t) => worker'[t] = NoWorkers
      BY DEF Closed, Types, TypeOK
    <3> QED
      BY <3>1, <3>2 DEF SupervisorStep, NoWorkers, NoWorker
  <2>2. task'[t].desired = task[t].desired /\ task[t].pc # "none"
    BY <1>1, <1>4, <2>1 DEF Supervised, Rework, InSession
  <2>3. CASE Kept(t, r)
    BY <2>2, <2>3 DEF Kept, Generations, WorkersMatch
  <2>4. CASE Gone(t, r)
    BY <2>4 DEF Gone, NoWorker
  <2>5. CASE Begun(t, r)
    <3>1. worker'[t][r].gen = task[t].desired[r].gen /\ task[t].desired[r].on
      BY <2>5 DEF Begun
    <3>2. task[t].desired[r] \in Wanted
      BY DEF Types, TypeOK, Task
    <3>3. task[t].desired[r].on = TRUE
      BY <3>1, <3>2 DEF Wanted
    <3> QED
      BY <2>2, <3>1, <3>2, <3>3 DEF Wanted
  <2> QED
    BY <2>1, <2>3, <2>4, <2>5 DEF Rework
<1>8. DoneIsCancelled'
  <2> SUFFICES ASSUME NEW r \in Rules, task'[t].pc = "serve", ~task'[t].cancel
               PROVE  /\ Back(worker'[t][r]) => worker'[t][r].cancel
                      /\ worker'[t][r].pc # "none" /\ worker'[t][r].cancel =>
                           worker'[t][r].gen # task'[t].desired[r].gen
    BY <1>1 DEF Generations, DoneIsCancelled, Back
  <2>1. ~task[t].cancel /\ task'[t].desired = task[t].desired
    BY <1>1, <1>4 DEF Supervised
  <2>2. CASE Fresh(t)
    <3>1. worker'[t][r] = NoWorker
      BY <2>2 DEF Fresh, Sessions, SessionsEnd, NoWorkers
    <3> QED
      BY <3>1 DEF NoWorker, Back
  <2>3. CASE Rework(t)
    <3>1. /\ Back(worker[t][r]) => worker[t][r].cancel
          /\ worker[t][r].pc # "none" /\ worker[t][r].cancel =>
               worker[t][r].gen # task[t].desired[r].gen
      BY <2>1, <2>3 DEF Rework, Generations, DoneIsCancelled, Back
    <3>2. CASE Kept(t, r)
      <4>1. Stale(t, r) => worker[t][r].gen # task[t].desired[r].gen
        BY DEF Stale, Alive, Generations, WorkersMatch
      <4> QED
        BY <2>1, <3>1, <3>2, <4>1 DEF Kept, Back
    <3>3. CASE Gone(t, r)
      BY <3>3 DEF Gone, NoWorker, Back
    <3>4. CASE Begun(t, r)
      BY <3>4 DEF Begun, Back
    <3> QED
      BY <2>3, <3>2, <3>3, <3>4 DEF Rework
  <2> QED
    BY <2>2, <2>3 DEF SupervisorStep, Idle, Closed, InSession
<1> QED
  BY <1>5, <1>6, <1>7, <1>8 DEF Generations

\* What a step of the supervisor t has to leave to a rule it drives.
Drives(t, q) == Configured(q) /\ group[entry[q].key] # 0 /\ t = Current(entry[q].key)
LeftRight(t, q) ==
  /\ entry'[q].state = "Stopped" /\ ~task'[t].fresh => ~Alive(worker'[t][q])
  /\ entry'[q].state = "Established" =>
       \/ task'[t].pc \in {"drain", "closing", "decide", "top"}
       \/ /\ task'[t].pc = "serve" /\ worker'[t][q].gen = entry[q].gen
          /\ worker'[t][q].pc \in {"open", "done"}

LEMMA LeftRightShows ==
  ASSUME Types, Sessions, Generations, Shown, NEW t \in Tasks, SupervisorStep(t),
         \A q \in Rules : Drives(t, q) => LeftRight(t, q)
  PROVE  Shown'
<1>1. /\ Supervised(t)
      /\ \A u \in Tasks : u # t => worker'[u] = worker[u] /\ task'[u] = task[u]
  BY SupervisorFrame
<1>2. \A q \in Rules : entry'[q].gen = entry[q].gen /\ entry'[q].key = entry[q].key
                       /\ entry'[q].on = entry[q].on
  BY <1>1 DEF Supervised, Relabelled
<1>3. UNCHANGED <<group, op>>
  BY <1>1 DEF Supervised, engine
<1>4. ASSUME NEW q \in Rules, Configured(q), group[entry[q].key] # 0
      PROVE  LET u == Current(entry[q].key) IN
             /\ u \in Tasks
             /\ u # t => entry'[q] = entry[q] /\ worker'[u] = worker[u] /\ task'[u] = task[u]
             /\ u = t => LeftRight(t, q)
  <2>1. Current(entry[q].key) \in Tasks
        /\ (task[t].pc # "none" /\ task[t].desired[q].gen = entry[q].gen =>
              t = Current(entry[q].key))
    BY <1>4, OnlyCurrent
  <2>2. t # Current(entry[q].key) => entry'[q] = entry[q]
    BY <1>1, <2>1 DEF Supervised, ByWanted
  <2> QED
    BY <1>1, <1>4, <2>1, <2>2 DEF Drives
<1>5. \A q \in Rules : Configured(q)' <=> Configured(q)
  BY <1>2 DEF Configured
<1>6. StoppedIsOff'
  <2> SUFFICES ASSUME NEW q \in Rules, Configured(q), entry'[q].state = "Stopped",
                      op.kind # "down"
               PROVE  ~entry[q].on
    BY <1>2, <1>3, <1>5 DEF StoppedIsOff
  <2>1. CASE entry'[q] = entry[q]
    BY <2>1 DEF Shown, StoppedIsOff
  <2>2. CASE entry'[q] # entry[q]
    <3>1. entry[q].gen = task[t].desired[q].gen /\ ~task[t].desired[q].on /\ task[t].pc # "none"
      BY <1>1, <2>2 DEF Supervised, ByWanted
    <3> QED
      BY <3>1 DEF Generations, WantedMatch
  <2> QED
    BY <2>1, <2>2
<1>7. StoppedIsClosed'
  <2> SUFFICES ASSUME NEW q \in Rules, Configured(q), entry'[q].state = "Stopped",
                      group[entry[q].key] # 0, ~task'[Current(entry[q].key)].fresh
               PROVE  ~Alive(worker'[Current(entry[q].key)][q])
    BY <1>2, <1>3, <1>5 DEF StoppedIsClosed, Alive, Current
  <2>1. CASE Current(entry[q].key) = t
    BY <1>4, <2>1 DEF LeftRight
  <2>2. CASE Current(entry[q].key) # t
    BY <1>4, <2>2 DEF Shown, StoppedIsClosed
  <2> QED
    BY <2>1, <2>2
<1>8. EstablishedIsDriven'
  <2> SUFFICES ASSUME NEW q \in Rules, Configured(q), entry'[q].state = "Established",
                      group[entry[q].key] # 0
               PROVE  LET u == Current(entry[q].key) IN
                      \/ task'[u].pc \in {"drain", "closing", "decide", "top"}
                      \/ /\ task'[u].pc = "serve" /\ worker'[u][q].gen = entry[q].gen
                         /\ worker'[u][q].pc \in {"open", "done"}
                      \/ task'[u].cancel
    BY <1>2, <1>3, <1>5 DEF EstablishedIsDriven, Current
  <2>1. CASE Current(entry[q].key) = t
    BY <1>4, <2>1 DEF LeftRight
  <2>2. CASE Current(entry[q].key) # t
    BY <1>4, <2>2 DEF Shown, EstablishedIsDriven
  <2> QED
    BY <2>1, <2>2
<1> QED
  BY <1>6, <1>7, <1>8 DEF Shown

\* What a driven rule looks like before the step.
LEMMA DrivenBefore ==
  ASSUME Types, Sessions, Generations, Shown, NEW t \in Tasks, NEW q \in Rules, Drives(t, q)
  PROVE  /\ ~task[t].cancel /\ task[t].desired[q].gen = entry[q].gen
         /\ task[t].desired[q].on = entry[q].on /\ q \in In(t)
         /\ entry[q].state = "Stopped" => ~entry[q].on
         /\ entry[q].state = "Stopped" /\ ~task[t].fresh => ~Alive(worker[t][q])
         /\ entry[q].state = "Established" =>
              \/ task[t].pc \in {"drain", "closing", "decide", "top"}
              \/ /\ task[t].pc = "serve" /\ worker[t][q].gen = entry[q].gen
                 /\ worker[t][q].pc \in {"open", "done"}
         /\ task[t].pc \notin InSession => ~Alive(worker[t][q])
<1>1. ~task[t].cancel
      /\ task[t].desired[q] = [gen |-> entry[q].gen, on |-> entry[q].on]
  BY OnlyCurrent DEF Drives
<1>2. q \in In(t)
  BY <1>1 DEF In, Drives, Configured
<1>3. task[t].pc \notin InSession => ~Alive(worker[t][q])
  BY DEF Sessions, SessionsEnd, NoWorkers, NoWorker, Alive
<1>4. op.kind # "down"
  <2>1. entry[q].key \in Keys
    BY DEF Drives, Types, TypeOK, Entry, Sessions, EntriesValid, Configured
  <2> QED
    BY <2>1 DEF Drives, Generations, GroupsKept, Leaving
<1> QED
  BY <1>1, <1>2, <1>3, <1>4 DEF Drives, Shown, StoppedIsOff, StoppedIsClosed, EstablishedIsDriven

LEMMA IdlingLeavesRight ==
  ASSUME Types, Sessions, Generations, Shown, NEW t \in Tasks, Idling(t), Idle(t),
         NEW q \in Rules, Drives(t, q)
  PROVE  LeftRight(t, q)
<1>1. /\ ~task[t].cancel /\ task[t].desired[q].gen = entry[q].gen
      /\ task[t].desired[q].on = entry[q].on /\ q \in In(t)
      /\ entry[q].state = "Stopped" => ~entry[q].on
      /\ entry[q].state = "Established" => task[t].pc \in {"closing", "decide", "top"}
      /\ ~Alive(worker'[t][q])
  BY DrivenBefore DEF Idle, InSession
<1>2. /\ entry \in [Rules -> Entry] /\ Configured(q) /\ task \in [Tasks -> Task]
      /\ entry[q].on \in BOOLEAN
  BY DEF Types, TypeOK, Drives, Entry
<1>3. {"Starting", "NeedsAttention", "Backoff"} \subseteq State
  BY DEF State
<1>4. CASE Top(t)
  <2>1. entry' = Announce(t, Rules, "Starting")
    BY <1>1, <1>4 DEF Top
  <2>2. /\ ~task[t].desired[q].on => entry'[q].state = "Stopped"
        /\ task[t].desired[q].on => entry'[q].state = "Starting"
    BY <1>1, <1>2, <1>3, <2>1, AnnounceFits
  <2> QED
    BY <1>1, <2>2 DEF LeftRight
<1>5. CASE Decide(t)
  <2>1. PICK state \in {"NeedsAttention", "Backoff"} : entry' = Announce(t, Rules, state)
    BY <1>5 DEF Decide
  <2>2. /\ ~task[t].desired[q].on => entry'[q].state = "Stopped"
        /\ task[t].desired[q].on => entry'[q].state = state
    BY <1>1, <1>2, <1>3, <2>1, AnnounceFits
  <2> QED
    BY <1>1, <2>2 DEF LeftRight
<1>6. CASE Wake(t) \/ RetryTimer(t) \/ ConnectFails(t) \/ Close(t)
  <2>1. UNCHANGED entry
    BY <1>6 DEF Wake, RetryTimer, ConnectFails, Close
  <2>2. task'[t].pc \in {"closing", "decide", "top"}
    <3>1. task[t] \in Task
      BY <1>2
    <3>2. CASE Goto(t, "top") \/ Goto(t, "decide")
      BY <1>2, <3>1, <3>2 DEF Goto, Task
    <3>3. CASE ConnectFails(t)
      <4>1. PICK outcome \in {"transient", "attention"} :
              task' = [task EXCEPT ![t].pc = "decide", ![t].outcome = outcome]
        BY <3>3 DEF ConnectFails
      <4> QED
        BY <1>2, <3>1, <4>1 DEF Task
    <3> QED
      BY <1>1, <1>6, <3>2, <3>3 DEF Wake, RetryTimer, Close
  <2> QED
    BY <1>1, <2>1, <2>2 DEF LeftRight
<1>7. CASE Acquire(t)
  BY <1>1, <1>7 DEF Acquire, LeftRight
<1> QED
  BY <1>4, <1>5, <1>6, <1>7 DEF Idling

LEMMA PassLeavesRight ==
  ASSUME Types, Sessions, Generations, Shown, NEW t \in Tasks, Pass(t),
         NEW q \in Rules, Drives(t, q)
  PROVE  LeftRight(t, q)
<1>1. /\ ~task[t].cancel /\ task[t].desired[q].gen = entry[q].gen
      /\ task[t].desired[q].on = entry[q].on
      /\ entry[q].state = "Stopped" => ~entry[q].on
      /\ entry[q].state = "Established" =>
           worker[t][q].gen = entry[q].gen /\ worker[t][q].pc \in {"open", "done"}
      /\ task[t].pc = "serve"
  BY DrivenBefore DEF Pass
<1>2. /\ Rework(t) /\ ~task'[t].fresh
      /\ \/ Spent(t) /\ UNCHANGED entry /\ task'[t].pc = "drain"
         \/ /\ ~Spent(t) /\ entry' = PassReports(t)
            /\ \A r \in Rules : /\ worker'[t][r].pc = Passed(t)[r].pc
                                /\ worker'[t][r].gen = Passed(t)[r].gen
  BY <1>1, PassFits
<1>3. /\ entry \in [Rules -> Entry] /\ Configured(q) /\ TypeOK
  BY DEF Types, TypeOK, Drives
<1>4. CASE Spent(t) /\ UNCHANGED entry /\ task'[t].pc = "drain"
  <2>1. PICK r \in Verified : worker[t][r].pc = "done"
    BY <1>4 DEF Spent
  <2>2. Alive(worker[t][q]) => q = r
    <3>1. r \in Rules /\ t[1] # NoKey
      BY RulesAssumption DEF Tasks
    <3>2. Belongs(r, t[1])
      BY <2>1, <3>1 DEF Sessions, WorkersValid
    <3>3. Alive(worker[t][q]) => Belongs(q, t[1])
      BY DEF Sessions, WorkersValid, Alive
    <3> QED
      BY <3>1, <3>2, <3>3, VerifiedIsAlone
  <2>3. ~Alive(worker[t][q])
    BY <2>1, <2>2 DEF Alive
  <2>4. ~Alive(worker'[t][q])
    BY <1>4, <1>2, <2>3 DEF Rework, Kept, Gone, Begun, Alive, NoWorker
  <2> QED
    BY <1>1, <1>4, <2>4 DEF LeftRight
<1>5. CASE /\ ~Spent(t) /\ entry' = PassReports(t)
           /\ \A r \in Rules : /\ worker'[t][r].pc = Passed(t)[r].pc
                               /\ worker'[t][r].gen = Passed(t)[r].gen
  <2>1. /\ Stale(t, q) => entry'[q].state = "Stopping"
        /\ \/ entry'[q] = entry[q] \/ entry'[q].state = "Stopping"
           \/ entry'[q].state = "Stopped" /\ ~task[t].desired[q].on /\ ~Alive(worker[t][q])
    BY <1>1, <1>3, <1>5, PassReportsFit
  <2>2. /\ worker[t][q].pc = "done" => Reaped(t)[q] = NoWorker
        /\ worker[t][q].pc # "done" => Reaped(t)[q] = worker[t][q]
        /\ Stale(t, q) => Passed(t)[q] = [worker[t][q] EXCEPT !.cancel = TRUE]
        /\ Startable(t, q) =>
             /\ Passed(t)[q].pc = "start" /\ Passed(t)[q].gen = task[t].desired[q].gen
             /\ Passed(t)[q].cancel = FALSE /\ Passed(t)[q].refusals = 0
        /\ ~Stale(t, q) /\ ~Startable(t, q) => Passed(t)[q] = Reaped(t)[q]
    BY <1>3, PassedFits
  <2>3. entry'[q].state = "Stopped" => ~entry[q].on
    BY <1>1, <2>1
  <2>4. entry'[q].state = "Stopped" => ~Alive(worker'[t][q])
    <3>1. ASSUME entry'[q].state = "Stopped"
          PROVE  ~Alive(worker'[t][q])
      <4>1. ~task[t].desired[q].on /\ ~Stale(t, q)
        BY <1>1, <2>1, <2>3, <3>1
      <4>2. ~Alive(worker[t][q]) /\ ~Startable(t, q)
        BY <4>1 DEF Stale, Startable
      <4>3. Passed(t)[q] = Reaped(t)[q]
        BY <2>2, <4>1, <4>2
      <4>4. ~Alive(Passed(t)[q])
        BY <2>2, <4>2, <4>3 DEF Alive, NoWorker
      <4> QED
        BY <1>5, <4>4 DEF Alive
    <3> QED
      BY <3>1
  <2>5. ASSUME entry'[q].state = "Established", task'[t].pc # "drain"
        PROVE  /\ task'[t].pc = "serve" /\ worker'[t][q].gen = entry[q].gen
               /\ worker'[t][q].pc \in {"open", "done"}
    <3>1. task'[t].pc = "serve"
      BY <1>2, <2>5 DEF Rework, InSession
    <3>2. entry'[q] = entry[q] /\ ~Stale(t, q)
      BY <2>1, <2>5
    <3>3. worker[t][q].gen = task[t].desired[q].gen /\ worker[t][q].pc \in {"open", "done"}
      BY <1>1, <2>5, <3>2
    <3>4. worker[t][q].pc # "done"
      BY <1>1, <3>3 DEF Generations, DoneIsCancelled
    <3>5. worker[t][q].pc = "open" /\ ~Startable(t, q)
      BY <3>3, <3>4 DEF Startable, Alive
    <3>6. Passed(t)[q] = worker[t][q]
      BY <2>2, <3>2, <3>5
    <3> QED
      BY <1>1, <1>5, <3>1, <3>3, <3>6
  <2> QED
    BY <2>3, <2>4, <2>5 DEF LeftRight
<1> QED
  BY <1>2, <1>4, <1>5

LEMMA SuperviseKeeps ==
  ASSUME IInv, NEW t \in Tasks, Supervise(t) \/ ConnectFails(t)
  PROVE  IInv'
<1> USE DEF IInv
<1>1. CASE Idling(t)
  <2>1. Idle(t)
    BY <1>1, IdlingFits DEF Sessions, Holds
  <2>2. \A q \in Rules : Drives(t, q) => LeftRight(t, q)
    BY <1>1, <2>1, IdlingLeavesRight
  <2> QED
    BY <2>1, <2>2, SupervisorKeepsTypes, SupervisorKeepsSessions, SupervisorKeepsHolds,
       SupervisorKeepsGenerations, LeftRightShows DEF SupervisorStep
<1>2. CASE Connect(t)
  <2>1. Fresh(t)
    BY <1>2, ConnectFits
  <2>2. ASSUME NEW q \in Rules, Drives(t, q)
        PROVE  LeftRight(t, q)
    <3>1. /\ entry[q].state = "Stopped" => ~entry[q].on
          /\ entry[q].state # "Established" /\ ~Alive(worker[t][q])
      BY <1>2, <2>2, DrivenBefore DEF Connect, InSession
    <3> QED
      BY <1>2, <3>1 DEF Connect, LeftRight
  <2> QED
    BY <2>1, <2>2, SupervisorKeepsTypes, SupervisorKeepsSessions, SupervisorKeepsHolds,
       SupervisorKeepsGenerations, LeftRightShows DEF SupervisorStep
<1>3. CASE Pass(t)
  <2>1. Rework(t)
    BY <1>3, PassFits
  <2>2. \A q \in Rules : Drives(t, q) => LeftRight(t, q)
    BY <1>3, PassLeavesRight
  <2> QED
    BY <2>1, <2>2, SupervisorKeepsTypes, SupervisorKeepsSessions, SupervisorKeepsHolds,
       SupervisorKeepsGenerations, LeftRightShows DEF SupervisorStep
<1>4. CASE Reconnect(t)
  <2>1. /\ Rework(t) /\ task'[t].pc = "drain" /\ task'[t].fresh = task[t].fresh
        /\ UNCHANGED entry
        /\ \A q \in Rules : worker'[t][q].pc = worker[t][q].pc
    BY <1>4, ReconnectFits
  <2>2. ASSUME NEW q \in Rules, Drives(t, q)
        PROVE  LeftRight(t, q)
    <3>1. /\ entry[q].state = "Stopped" => ~entry[q].on
          /\ entry[q].state = "Stopped" /\ ~task[t].fresh => ~Alive(worker[t][q])
      BY <2>2, DrivenBefore
    <3> QED
      BY <2>1, <3>1 DEF LeftRight, Alive
  <2> QED
    BY <2>1, <2>2, SupervisorKeepsTypes, SupervisorKeepsSessions, SupervisorKeepsHolds,
       SupervisorKeepsGenerations, LeftRightShows DEF SupervisorStep
<1>5. CASE Drain(t) \/ DrainTimeout(t)
  <2>1. Closed(t)
    BY <1>5, EndSessionFits
  <2>2. ASSUME NEW q \in Rules, Drives(t, q)
        PROVE  LeftRight(t, q)
    <3>1. entry[q].state = "Stopped" => ~entry[q].on
      BY <2>2, DrivenBefore
    <3>2. worker'[t] = NoWorkers
      BY <2>1 DEF Closed, Types, TypeOK
    <3> QED
      BY <2>1, <3>1, <3>2 DEF Closed, LeftRight, NoWorkers, NoWorker, Alive
  <2> QED
    BY <2>1, <2>2, SupervisorKeepsTypes, SupervisorKeepsSessions, SupervisorKeepsHolds,
       SupervisorKeepsGenerations, LeftRightShows DEF SupervisorStep
<1> QED
  BY <1>1, <1>2, <1>3, <1>4, <1>5 DEF Supervise, Idling
-----------------------------------------------------------------------------
(* The network and the server keep the invariant.                          *)
\* A session loses its transport, or the server gives up a port.
Lost ==
  /\ UNCHANGED <<engine, entry, worker>> /\ faults' \in 0..MaxFaults
  /\ task' \in [Tasks -> Task]
  /\ \A u \in Tasks :
       /\ task'[u].pc = task[u].pc /\ task'[u].desired = task[u].desired
       /\ task'[u].fresh = task[u].fresh /\ task'[u].cancel = task[u].cancel
       /\ task'[u].disconnected = task[u].disconnected /\ task'[u].claims = task[u].claims
       /\ task'[u].blocked = task[u].blocked /\ task'[u].failed = task[u].failed
       /\ \/ task'[u].open = task[u].open /\ task'[u].asked = task[u].asked
          \/ ~task'[u].open /\ task'[u].asked = {} /\ \A p \in Ports : port'[p] # u
  /\ port' \in [Ports -> Tasks \cup {Free, Ghost}]
  /\ \A u \in Tasks, p \in Ports : port'[p] = u => port[p] = u

LEMMA LostFits ==
  ASSUME Types, (\E t \in Tasks : LoseTransport(t)) \/ (\E p \in Ports : Reap(p))
  PROVE  Lost
<1>1. TypeOK /\ task \in [Tasks -> Task] /\ port \in [Ports -> Tasks \cup {Free, Ghost}]
  BY DEF Types, TypeOK
<1>2. Free \notin Tasks
  BY RulesAssumption DEF Free, Tasks
<1>3. ASSUME NEW t \in Tasks, LoseTransport(t)
      PROVE  Lost
  <2> DEFINE s == [task[t] EXCEPT !.open = FALSE, !.asked = {}]
  <2>1. /\ s \in Task /\ s.pc = task[t].pc /\ s.desired = task[t].desired
        /\ s.fresh = task[t].fresh /\ s.cancel = task[t].cancel
        /\ s.disconnected = task[t].disconnected /\ s.claims = task[t].claims
        /\ s.blocked = task[t].blocked /\ s.failed = task[t].failed
        /\ s.open = FALSE /\ s.asked = {}
    BY <1>1 DEF Task
  <2>2. task' = [task EXCEPT ![t] = s]
    BY <1>1, <1>3 DEF LoseTransport
  <2>3. UNCHANGED <<engine, entry, worker>> /\ faults' \in 0..MaxFaults
    BY <1>1, <1>3, FaultsFit DEF LoseTransport
  <2>4. /\ port' \in [Ports -> Tasks \cup {Free, Ghost}]
        /\ \A p \in Ports : port'[p] # t /\ (port'[p] = port[p] \/ port'[p] = Ghost)
    BY <1>1, <1>3, AbandonFits DEF LoseTransport
  <2>5. \A u \in Tasks, p \in Ports : port'[p] = u => port[p] = u
    BY <2>4, RulesAssumption DEF Ghost, Tasks
  <2> HIDE DEF s
  <2>6. task' \in [Tasks -> Task] /\ task'[t] = s /\ \A u \in Tasks : u # t => task'[u] = task[u]
    BY <1>1, <2>1, <2>2
  <2> QED
    BY <2>1, <2>3, <2>4, <2>5, <2>6 DEF Lost
<1>4. ASSUME NEW p \in Ports, Reap(p)
      PROVE  Lost
  <2>1. UNCHANGED <<engine, entry, worker, task>> /\ faults' \in 0..MaxFaults
    BY <1>1, <1>4, FaultsFit DEF Reap
  <2>2. port' = [port EXCEPT ![p] = Free]
    BY <1>4 DEF Reap
  <2> QED
    BY <1>1, <1>2, <2>1, <2>2 DEF Lost
<1> QED
  BY <1>3, <1>4

LEMMA LostKeeps ==
  ASSUME IInv, Lost
  PROVE  IInv'
<1> USE DEF IInv, Lost
<1>1. Types'
  BY DEF Types, TypeOK, RefusalsCounted, engine
<1>2. UNCHANGED <<entry, generation, group, op, worker>>
  BY DEF engine
<1>3. Sessions'
  <2>1. SessionsEnd'
    BY <1>2 DEF Sessions, SessionsEnd
  <2>2. EntriesValid' /\ WorkersValid' /\ OneOwnerPerSession'
    BY <1>2 DEF Sessions, EntriesValid, WorkersValid, OneOwnerPerSession, Compatible, Belongs, Alive
  <2>3. WantedValid'
    BY <1>2 DEF Sessions, WantedValid, Compatible, OnIn, Belongs
  <2>4. DrainingIsCancelled'
    BY <1>2 DEF Sessions, DrainingIsCancelled, Alive
  <2> QED
    BY <2>1, <2>2, <2>3, <2>4 DEF Sessions
<1>4. Holds'
  <2>1. ClaimsCounted' /\ AskedIsPending'
    BY <1>2 DEF Holds, ClaimsCounted, AskedIsPending
  <2>2. HeldIsDriven'
    BY <1>2 DEF Holds, HeldIsDriven
  <2>3. EarlyHoldsNothing'
    <3>1. \A r \in Verified : Port[r] \in Ports
      BY RulesAssumption DEF Ports
    <3> QED
      BY <1>2, <3>1 DEF Holds, EarlyHoldsNothing, Belongs
  <2> QED
    BY <2>1, <2>2, <2>3 DEF Holds
<1>5. \A k \in Keys : group[k] # 0 => Current(k) \in Tasks
  BY BoundsAssumption DEF Current, Tasks, Types, TypeOK
<1>6. Generations'
  <2>1. GroupsKept'
    BY <1>2, <1>5 DEF Generations, GroupsKept, Configured, Handed, Current
  <2>2. WantedMatch'
    BY <1>2 DEF Generations, WantedMatch, Configured, Current
  <2>3. WorkersMatch'
    BY <1>2 DEF Generations, WorkersMatch, Configured
  <2>4. DoneIsCancelled'
    BY <1>2 DEF Generations, DoneIsCancelled
  <2> QED
    BY <2>1, <2>2, <2>3, <2>4 DEF Generations
<1>7. Shown'
  <2>1. \A q \in Rules : Configured(q) /\ group[entry[q].key] # 0 =>
          Current(entry[q].key) \in Tasks
    <3>1. \A q \in Rules : Configured(q) => entry[q].key \in Keys
      BY DEF Types, TypeOK, Entry, Sessions, EntriesValid, Configured
    <3> QED
      BY <1>5, <3>1
  <2>2. StoppedIsOff'
    BY <1>2 DEF Shown, StoppedIsOff, Configured
  <2>3. StoppedIsClosed'
    BY <1>2, <2>1 DEF Shown, StoppedIsClosed, Configured, Current, Alive
  <2>4. EstablishedIsDriven'
    <3> SUFFICES ASSUME NEW q \in Rules, Configured(q), entry[q].state = "Established",
                        group[entry[q].key] # 0
                 PROVE  LET u == Current(entry[q].key) IN
                        \/ task'[u].pc \in {"drain", "closing", "decide", "top"}
                        \/ /\ task'[u].pc = "serve" /\ worker[u][q].gen = entry[q].gen
                           /\ worker[u][q].pc \in {"open", "done"}
                        \/ task'[u].cancel
      BY <1>2 DEF EstablishedIsDriven, Configured, Current
    <3>1. task'[Current(entry[q].key)].pc = task[Current(entry[q].key)].pc
          /\ task'[Current(entry[q].key)].cancel = task[Current(entry[q].key)].cancel
      BY <2>1
    <3> QED
      BY <3>1 DEF Shown, EstablishedIsDriven
  <2> QED
    BY <2>2, <2>3, <2>4 DEF Shown
<1> QED
  BY <1>1, <1>3, <1>4, <1>6, <1>7
-----------------------------------------------------------------------------
(* Operations keep the invariant.  They touch no session: they change what *)
(* supervisors are asked for, and start new ones in free slots.            *)
Untouched(u) ==
  /\ task'[u].pc = task[u].pc /\ task'[u].open = task[u].open
  /\ task'[u].disconnected = task[u].disconnected /\ task'[u].blocked = task[u].blocked
  /\ task'[u].failed = task[u].failed /\ task'[u].claims = task[u].claims
  /\ task'[u].asked = task[u].asked
Started(u) ==
  /\ task[u].pc = "none" /\ task'[u].pc = "top" /\ ~task'[u].open /\ ~task'[u].disconnected
  /\ task'[u].claims = 0 /\ task'[u].asked = {} /\ ~task'[u].cancel
Operated ==
  /\ UNCHANGED <<worker, port>>
  /\ generation' \in Nat /\ generation <= generation'
  /\ \A u \in Tasks : Untouched(u) \/ Started(u)

LEMMA OperationKeepsSessions ==
  ASSUME Types, Sessions, Holds, Operated
  PROVE  /\ RefusalsCounted' /\ SessionsEnd' /\ WorkersValid' /\ DrainingIsCancelled'
         /\ OneOwnerPerSession' /\ Holds'
<1> USE DEF Operated
<1>1. RefusalsCounted'
  BY DEF Types, RefusalsCounted
<1>2. SessionsEnd'
  BY DEF Sessions, SessionsEnd, Untouched, Started, InSession
<1>3. WorkersValid'
  <2> SUFFICES ASSUME NEW t \in Tasks, NEW r \in Rules, worker[t][r].pc # "none"
               PROVE  worker[t][r].gen <= generation'
    BY DEF Sessions, WorkersValid, Belongs
  <2>1. worker[t][r].gen \in Nat /\ generation \in Nat /\ worker[t][r].gen <= generation
    BY DEF Types, TypeOK, Worker, Sessions, WorkersValid
  <2> QED
    BY <2>1
<1>4. DrainingIsCancelled'
  BY DEF Sessions, DrainingIsCancelled, Untouched, Started, Alive
<1>5. OneOwnerPerSession'
  BY DEF Sessions, OneOwnerPerSession, Alive
<1>6. ClaimsCounted' /\ AskedIsPending'
  BY DEF Holds, ClaimsCounted, AskedIsPending, Untouched, Started
<1>7. \A u \in Tasks : Started(u) => \A p \in Ports : port[p] # u
  BY DEF Started, Sessions, SessionsEnd, InSession
<1>8. HeldIsDriven'
  BY <1>7 DEF Holds, HeldIsDriven, Untouched
<1>9. EarlyHoldsNothing'
  BY DEF Holds, EarlyHoldsNothing, Untouched, Started, Belongs
<1> QED
  BY <1>1, <1>2, <1>3, <1>4, <1>5, <1>6, <1>8, <1>9 DEF Holds

\* The rest of the invariant.
Rest == TypeOK /\ EntriesValid /\ WantedValid /\ Generations /\ Shown

LEMMA OperationKeeps ==
  ASSUME IInv, Operated, Rest'
  PROVE  IInv'
BY OperationKeepsSessions DEF IInv, Rest, Types, Sessions

\* An operation that begins counts as one.
LEMMA BegunFits ==
  ASSUME TypeOK, MayBegin, BeginOp
  PROVE  op.kind = "none" /\ ops' \in 0..MaxOps
<1>1. op.kind = "none" /\ ops < MaxOps /\ ops' = ops + 1
  BY DEF MayBegin, BeginOp
<1>2. ops \in 0..MaxOps /\ MaxOps \in Nat
  BY BoundsAssumption DEF TypeOK
<1> QED
  BY <1>1, <1>2

\* Retry, Restart and RestartServer select rules and change nothing else.
LEMMA SelectKeeps ==
  ASSUME IInv, Retry \/ Restart \/ RestartServer
  PROVE  IInv'
<1> USE DEF IInv
<1>1. op.kind = "none" /\ ops' \in 0..MaxOps
      /\ UNCHANGED <<entry, generation, group, task, worker, port, faults>>
  <2>1. MayBegin /\ BeginOp
    BY DEF Retry, Restart, RestartServer
  <2>2. UNCHANGED <<entry, generation, group, task, worker, port, faults>>
    BY DEF Retry, Restart, RestartServer, Select
  <2> QED
    BY <2>1, <2>2, BegunFits DEF Types
<1>2. PICK kind \in {"retry", "restart", "server"}, rules \in SUBSET Rules :
        /\ op' = [NoOp EXCEPT !.kind = kind, !.rules = rules]
        /\ rules \subseteq {r \in Rules : Configured(r) /\ entry[r].on}
  BY DEF Retry, Restart, RestartServer, Select, Selections
<1>3. op' = [kind |-> kind, rules |-> rules, tasks |-> {}]
  BY <1>2 DEF NoOp
<1>4. Operated
  BY <1>1 DEF Operated, Untouched, Types, TypeOK
<1>5. TypeOK'
  BY <1>1, <1>3 DEF Types, TypeOK
<1>6. EntriesValid' /\ WantedValid'
  BY <1>1 DEF Sessions, EntriesValid, WantedValid, Compatible, OnIn, Belongs
<1>7. Generations'
  <2>1. GroupsKept'
    BY <1>1, <1>2, <1>3 DEF Generations, GroupsKept, Leaving, Configured, Current, Handed
  <2>2. WantedMatch'
    BY <1>1, <1>3 DEF Generations, WantedMatch, Leaving, Configured, Current
  <2>3. WorkersMatch' /\ DoneIsCancelled'
    BY <1>1 DEF Generations, WorkersMatch, DoneIsCancelled, Configured
  <2> QED
    BY <2>1, <2>2, <2>3 DEF Generations
<1>8. Shown'
  BY <1>1, <1>3
  DEF Shown, StoppedIsOff, StoppedIsClosed, EstablishedIsDriven, Configured, Current, Alive
<1> QED
  BY <1>4, <1>5, <1>6, <1>7, <1>8, OperationKeeps DEF Rest
-----------------------------------------------------------------------------
(* A new generation: the table and the supervisors of its rules.           *)
BumpedRule(r) ==
  IF r \in op.rules THEN [entry[r] EXCEPT !.gen = generation + 1, !.state = "Starting"]
  ELSE entry[r]
BumpedWanted(u) ==
  [r \in Rules |-> IF r \in op.rules \cap In(u)
                   THEN [task[u].desired[r] EXCEPT !.gen = generation + 1]
                   ELSE task[u].desired[r]]

LEMMA BumpFits ==
  ASSUME IInv, Bump
  PROVE  /\ TypeOK'
         /\ \A r \in Rules :
              /\ entry'[r].key = entry[r].key /\ entry'[r].on = entry[r].on
              /\ r \in op.rules => entry'[r].gen = generation + 1 /\ entry'[r].state = "Starting"
              /\ r \notin op.rules => entry'[r] = entry[r]
         /\ \A u \in Tasks :
              /\ Untouched(u) /\ task'[u].cancel = task[u].cancel
              /\ task[u].fresh => task'[u].fresh
              /\ u # Current(u[1]) => task'[u] = task[u]
              /\ \A r \in Rules :
                   \/ task'[u].desired[r] = task[u].desired[r]
                   \/ /\ r \in op.rules /\ r \in In(u)
                      /\ task'[u].desired[r].gen = generation + 1
                      /\ task'[u].desired[r].on = task[u].desired[r].on
              /\ u = Current(u[1]) => \A r \in op.rules : r \in In(u) =>
                   task'[u].desired[r] = [gen |-> generation + 1, on |-> task[u].desired[r].on]
<1> USE DEF IInv, Types
<1>0. generation' = generation + 1 /\ generation \in Nat /\ generation + 1 \in Nat
  <2>1. generation \in Nat
    BY DEF TypeOK
  <2>2. generation' = generation + 1
    BY DEF Bump
  <2> QED
    BY <2>1, <2>2
<1>1. /\ entry' = [r \in Rules |-> BumpedRule(r)]
      /\ task' = [u \in Tasks |->
                    IF u = Current(u[1]) /\ In(u) \cap op.rules # {}
                    THEN [task[u] EXCEPT !.fresh = TRUE, !.desired = BumpedWanted(u)]
                    ELSE task[u]]
      /\ UNCHANGED <<group, worker, port, ops, faults>>
  BY DEF Bump, ToldOf, BumpedRule, BumpedWanted, TypeOK
<1>2. op.rules \in SUBSET Rules
  BY DEF TypeOK
<1>3. op' \in [kind : {"none", "retry", "restart", "server", "retire", "join", "shutdown", "down"},
               rules : SUBSET Rules, tasks : SUBSET Tasks]
  BY DEF Bump, NoOp, TypeOK
<1>4. ASSUME NEW r \in Rules
      PROVE  /\ BumpedRule(r) \in Entry
             /\ BumpedRule(r).key = entry[r].key /\ BumpedRule(r).on = entry[r].on
             /\ r \in op.rules => /\ BumpedRule(r).gen = generation + 1
                                  /\ BumpedRule(r).state = "Starting"
             /\ r \notin op.rules => BumpedRule(r) = entry[r]
  <2>1. entry[r] \in Entry /\ generation + 1 \in Nat /\ "Starting" \in State
    BY <1>0 DEF TypeOK, State
  <2>2. CASE r \in op.rules
    BY <2>1, <2>2 DEF BumpedRule, Entry
  <2>3. CASE r \notin op.rules
    BY <2>1, <2>3 DEF BumpedRule
  <2> QED
    BY <2>2, <2>3
<1>5. ASSUME NEW u \in Tasks
      PROVE  /\ BumpedWanted(u) \in [Rules -> Wanted]
             /\ \A r \in Rules :
                  IF r \in op.rules \cap In(u)
                  THEN BumpedWanted(u)[r] = [gen |-> generation + 1, on |-> task[u].desired[r].on]
                  ELSE BumpedWanted(u)[r] = task[u].desired[r]
  <2>1. task[u].desired \in [Rules -> Wanted]
    BY DEF TypeOK, Task
  <2>2. ASSUME NEW r \in Rules
        PROVE  /\ task[u].desired[r] \in Wanted
               /\ [task[u].desired[r] EXCEPT !.gen = generation + 1] \in Wanted
               /\ [task[u].desired[r] EXCEPT !.gen = generation + 1]
                    = [gen |-> generation + 1, on |-> task[u].desired[r].on]
    <3>1. task[u].desired[r] \in Wanted /\ generation + 1 \in Nat
      BY <1>0, <2>1
    <3> QED
      BY <3>1 DEF Wanted
  <2> QED
    BY <2>2 DEF BumpedWanted
<1> HIDE DEF BumpedRule, BumpedWanted
<1>6. ASSUME NEW u \in Tasks
      PROVE  /\ [task[u] EXCEPT !.fresh = TRUE, !.desired = BumpedWanted(u)] \in Task
             /\ task[u] \in Task
  <2>1. task[u] \in Task /\ BumpedWanted(u) \in [Rules -> Wanted]
    BY <1>5 DEF TypeOK
  <2> QED
    BY <2>1 DEF Task
<1>7. TypeOK'
  <2>1. entry' \in [Rules -> Entry] /\ task' \in [Tasks -> Task]
    BY <1>1, <1>4, <1>6
  <2>2. generation' \in Nat
    BY <1>0
  <2> QED
    BY <1>1, <1>3, <2>1, <2>2 DEF TypeOK
<1>8. ASSUME NEW u \in Tasks, u = Current(u[1]), In(u) \cap op.rules # {}
      PROVE  /\ task'[u].desired = BumpedWanted(u) /\ task'[u].fresh
             /\ Untouched(u) /\ task'[u].cancel = task[u].cancel
  BY <1>1, <1>6, <1>8 DEF Task, Untouched
<1>9. ASSUME NEW u \in Tasks, u # Current(u[1]) \/ In(u) \cap op.rules = {}
      PROVE  task'[u] = task[u]
  BY <1>1, <1>9
<1>10. ASSUME NEW u \in Tasks
       PROVE  /\ Untouched(u) /\ task'[u].cancel = task[u].cancel
              /\ task[u].fresh => task'[u].fresh
              /\ u # Current(u[1]) => task'[u] = task[u]
  BY <1>8, <1>9 DEF Untouched
<1>11. ASSUME NEW u \in Tasks, NEW r \in Rules
       PROVE  /\ \/ task'[u].desired[r] = task[u].desired[r]
                 \/ /\ r \in op.rules /\ r \in In(u)
                    /\ task'[u].desired[r] = [gen |-> generation + 1, on |-> task[u].desired[r].on]
              /\ u = Current(u[1]) /\ r \in op.rules /\ r \in In(u) =>
                   task'[u].desired[r] = [gen |-> generation + 1, on |-> task[u].desired[r].on]
  BY <1>5, <1>8, <1>9
<1>12. \A r \in Rules :
         /\ entry'[r].key = entry[r].key /\ entry'[r].on = entry[r].on
         /\ r \in op.rules => entry'[r].gen = generation + 1 /\ entry'[r].state = "Starting"
         /\ r \notin op.rules => entry'[r] = entry[r]
  BY <1>1, <1>4
<1>13. \A u \in Tasks : \A r \in Rules :
         \/ task'[u].desired[r] = task[u].desired[r]
         \/ /\ r \in op.rules /\ r \in In(u)
            /\ task'[u].desired[r].gen = generation + 1
            /\ task'[u].desired[r].on = task[u].desired[r].on
  <2> SUFFICES ASSUME NEW u \in Tasks, NEW r \in Rules
               PROVE  \/ task'[u].desired[r] = task[u].desired[r]
                      \/ /\ r \in op.rules /\ r \in In(u)
                         /\ task'[u].desired[r].gen = generation + 1
                         /\ task'[u].desired[r].on = task[u].desired[r].on
    OBVIOUS
  <2>1. CASE task'[u].desired[r] = task[u].desired[r]
    BY <2>1
  <2>2. CASE /\ r \in op.rules /\ r \in In(u)
             /\ task'[u].desired[r] = [gen |-> generation + 1, on |-> task[u].desired[r].on]
    BY <2>2
  <2> QED
    BY <1>11, <2>1, <2>2
<1>14. \A u \in Tasks : u = Current(u[1]) => \A r \in op.rules : r \in In(u) =>
         task'[u].desired[r] = [gen |-> generation + 1, on |-> task[u].desired[r].on]
  BY <1>2, <1>11
<1> QED
  BY <1>7, <1>10, <1>12, <1>13, <1>14

LEMMA BumpKeeps ==
  ASSUME IInv, Bump
  PROVE  IInv'
<1> USE DEF IInv, Types
<1>1. /\ generation' = generation + 1 /\ generation \in Nat
      /\ UNCHANGED <<group, worker, port, ops, faults>>
      /\ op.kind \in {"retry", "restart", "server"} /\ op'.kind \in {"retire", "none"}
  BY DEF Bump, NoOp, TypeOK
<1>2. op.rules \subseteq {r \in Rules : Configured(r) /\ entry[r].on}
  BY <1>1 DEF Generations, GroupsKept
<1>3. TypeOK'
  BY BumpFits
<1>4. ASSUME NEW r \in Rules
      PROVE  /\ entry'[r].key = entry[r].key /\ entry'[r].on = entry[r].on
             /\ r \in op.rules => entry'[r].gen = generation + 1 /\ entry'[r].state = "Starting"
                                  /\ entry[r].gen # 0 /\ entry[r].on
             /\ r \notin op.rules => entry'[r] = entry[r]
             /\ entry[r].gen \in Nat /\ entry[r].gen <= generation
  BY <1>2, BumpFits DEF Configured, TypeOK, Entry, Sessions, EntriesValid
<1>5. ASSUME NEW u \in Tasks
      PROVE  /\ Untouched(u) /\ task'[u].cancel = task[u].cancel
             /\ task[u].fresh => task'[u].fresh
             /\ u # Current(u[1]) => task'[u] = task[u]
  BY BumpFits
<1>6. ASSUME NEW u \in Tasks, NEW r \in Rules
      PROVE  /\ \/ task'[u].desired[r] = task[u].desired[r]
                \/ /\ r \in op.rules /\ r \in In(u)
                   /\ task'[u].desired[r].gen = generation + 1
                   /\ task'[u].desired[r].on = task[u].desired[r].on
             /\ u = Current(u[1]) /\ r \in op.rules /\ r \in In(u) =>
                   task'[u].desired[r] = [gen |-> generation + 1, on |-> task[u].desired[r].on]
             /\ task[u].desired[r].gen \in Nat /\ task[u].desired[r].gen <= generation
  <2>1. task[u].desired[r].gen \in Nat /\ task[u].desired[r].gen <= generation
    BY DEF TypeOK, Task, Wanted, Sessions, WantedValid
  <2> QED
    BY <1>2, <2>1, BumpFits
<1>7. Operated
  BY <1>1, <1>5 DEF Operated
<1>8. EntriesValid'
  <2>1. \A r \in Rules :
          /\ entry'[r].gen = 0 <=> entry'[r].key = NoKey
          /\ entry'[r].gen = 0 => ~entry'[r].on
          /\ entry'[r].gen <= generation'
          /\ entry'[r].gen # 0 => Belongs(r, entry'[r].key)
    BY <1>1, <1>4 DEF Sessions, EntriesValid, Configured
  <2>2. {r \in Rules : entry'[r].on} = {r \in Rules : entry[r].on}
    BY <1>4
  <2> QED
    BY <2>1, <2>2 DEF Sessions, EntriesValid, Belongs
<1>9. WantedValid'
  <2> SUFFICES ASSUME NEW t \in Tasks
               PROVE  /\ Compatible(OnIn(t)')
                      /\ \A r \in Rules :
                           /\ task'[t].desired[r].on => task'[t].desired[r].gen # 0
                           /\ task'[t].desired[r].gen <= generation'
                           /\ task'[t].desired[r].gen # 0 => Belongs(r, t[1])
    BY DEF WantedValid, Belongs, Compatible
  <2>1. OnIn(t)' = OnIn(t)
    BY <1>6 DEF OnIn
  <2>2. \A r \in Rules :
          /\ task'[t].desired[r].on => task'[t].desired[r].gen # 0
          /\ task'[t].desired[r].gen <= generation'
          /\ task'[t].desired[r].gen # 0 => Belongs(r, t[1])
    <3> SUFFICES ASSUME NEW r \in Rules
                 PROVE  /\ task'[t].desired[r].on => task'[t].desired[r].gen # 0
                        /\ task'[t].desired[r].gen <= generation'
                        /\ task'[t].desired[r].gen # 0 => Belongs(r, t[1])
      OBVIOUS
    <3>1. /\ task[t].desired[r].on => task[t].desired[r].gen # 0
          /\ task[t].desired[r].gen # 0 => Belongs(r, t[1])
      BY DEF Sessions, WantedValid
    <3>2. task[t].desired[r].gen \in Nat /\ task[t].desired[r].gen <= generation
      BY <1>6
    <3>3. CASE task'[t].desired[r] = task[t].desired[r]
      BY <1>1, <3>1, <3>2, <3>3
    <3>4. CASE r \in In(t) /\ task'[t].desired[r].gen = generation + 1
      BY <1>1, <3>1, <3>4 DEF In
    <3> QED
      BY <1>6, <3>3, <3>4
  <2> QED
    BY <2>1, <2>2 DEF Sessions, WantedValid
<1>10. ASSUME NEW k \in Keys, group[k] # 0
       PROVE  task'[Current(k)].desired = Handed(entry', k)
  <2> DEFINE t == Current(k)
  <2>1. t \in Tasks /\ t[1] = k /\ t = Current(t[1])
    BY <1>10, BoundsAssumption DEF TypeOK, Tasks, Current
  <2>2. task[t].desired = Handed(entry, k)
    BY <1>10 DEF Generations, GroupsKept
  <2>3. task'[t].desired \in [Rules -> Wanted]
    BY <1>3, <2>1 DEF TypeOK, Task
  <2> HIDE DEF t
  <2>4. ASSUME NEW r \in Rules
        PROVE  task'[t].desired[r] = Handed(entry', k)[r]
    <3>1. task[t].desired[r] = IF entry[r].key = k THEN [gen |-> entry[r].gen, on |-> entry[r].on]
                               ELSE [gen |-> 0, on |-> FALSE]
      BY <2>2 DEF Handed
    <3>2. CASE r \in op.rules /\ r \in In(t)
      BY <1>4, <1>6, <2>1, <3>1, <3>2 DEF In, Handed
    <3>3. CASE r \in op.rules /\ r \notin In(t)
      <4>1. task[t].desired[r].gen = 0
        BY <3>3 DEF In
      <4>2. entry[r].key # k
        BY <1>4, <3>1, <3>3, <4>1
      <4>3. task'[t].desired[r] = task[t].desired[r]
        BY <1>6, <2>1, <3>3
      <4> QED
        BY <1>4, <3>1, <4>2, <4>3 DEF Handed
    <3>4. CASE r \notin op.rules
      BY <1>4, <1>6, <2>1, <3>1, <3>4 DEF Handed
    <3> QED
      BY <3>2, <3>3, <3>4
  <2>5. Handed(entry', k) = [r \in Rules |-> Handed(entry', k)[r]]
    BY DEF Handed
  <2> QED
    BY <2>3, <2>4, <2>5 DEF t
<1>11. \A k \in Keys : group[k] # 0 => Current(k) \in Tasks /\ Current(k)[1] = k
  BY BoundsAssumption DEF TypeOK, Tasks, Current
<1>12. GroupsKept'
  <2>1. \A k \in Keys : group[k] # 0 =>
          LET s == task'[Current(k)] IN
          s.pc # "none" /\ ~s.cancel /\ s.desired = Handed(entry', k)
    BY <1>5, <1>10, <1>11 DEF Generations, GroupsKept, Untouched
  <2>2. \A r \in Rules : entry'[r].gen # 0 => group[entry'[r].key] # 0
    BY <1>1, <1>4 DEF Generations, GroupsKept, Leaving, Configured
  <2> QED
    BY <1>1, <2>1, <2>2 DEF GroupsKept, Leaving, Current, Configured
<1>13. \A u \in Tasks : u = Current(u[1]) => u[1] \in Keys /\ group[u[1]] # 0
  BY DEF Tasks, Current
<1>14. WantedMatch'
  <2> SUFFICES ASSUME NEW t \in Tasks, NEW r \in Rules, task'[t].pc # "none",
                      entry'[r].gen # 0, task'[t].desired[r].gen = entry'[r].gen
               PROVE  /\ t[1] = entry'[r].key /\ task'[t].desired[r].on = entry'[r].on
                      /\ t = Current(t[1])
    BY <1>1 DEF WantedMatch, Configured, Current
  <2>1. CASE t = Current(t[1])
    <3>1. task'[t].desired = Handed(entry', t[1])
      BY <1>10, <1>13, <2>1
    <3>2. task'[t].desired[r] =
            IF entry'[r].key = t[1] THEN [gen |-> entry'[r].gen, on |-> entry'[r].on]
            ELSE [gen |-> 0, on |-> FALSE]
      BY <3>1 DEF Handed
    <3>3. entry'[r].key = t[1]
      BY <3>2
    <3> QED
      BY <2>1, <3>2, <3>3
  <2>2. CASE t # Current(t[1])
    <3>1. task'[t] = task[t]
      BY <1>5, <2>2
    <3>2. r \notin op.rules
      <4>1. entry'[r].gen \in Nat /\ entry'[r].gen <= generation
        BY <1>6, <3>1
      <4>2. entry'[r].gen # generation + 1
        BY <1>1, <4>1
      <4> QED
        BY <1>4, <4>2
    <3>3. entry'[r] = entry[r]
      BY <1>4, <3>2
    <3> QED
      BY <1>1, <2>2, <3>1, <3>3 DEF Generations, WantedMatch, Leaving, Configured
  <2> QED
    BY <2>1, <2>2
<1>15. ASSUME NEW t \in Tasks, NEW r \in Rules, worker[t][r].pc # "none"
       PROVE  /\ worker[t][r].gen = entry'[r].gen => entry'[r] = entry[r]
              /\ worker[t][r].gen = task'[t].desired[r].gen
                   => task'[t].desired[r] = task[t].desired[r]
              /\ worker[t][r].gen = task[t].desired[r].gen /\ worker[t][r].gen = entry'[r].gen
                   => task'[t].desired[r] = task[t].desired[r]
  <2>1. worker[t][r].gen \in Nat /\ worker[t][r].gen <= generation
    BY <1>15 DEF TypeOK, Worker, Sessions, WorkersValid
  <2>2. worker[t][r].gen # generation + 1
    BY <1>1, <2>1
  <2> QED
    BY <1>4, <1>6, <2>2
<1>16. WorkersMatch'
  <2> SUFFICES ASSUME NEW t \in Tasks, NEW r \in Rules, worker[t][r].pc # "none"
               PROVE  /\ entry'[r].gen # 0 /\ worker[t][r].gen = entry'[r].gen =>
                           task'[t].desired[r] = [gen |-> entry'[r].gen, on |-> TRUE]
                      /\ worker[t][r].gen = task'[t].desired[r].gen => task'[t].desired[r].on
    BY <1>1 DEF WorkersMatch, Configured
  <2>1. /\ entry[r].gen # 0 /\ worker[t][r].gen = entry[r].gen =>
             task[t].desired[r] = [gen |-> entry[r].gen, on |-> TRUE]
        /\ worker[t][r].gen = task[t].desired[r].gen => task[t].desired[r].on
    BY DEF Generations, WorkersMatch, Configured
  <2>2. entry'[r].gen # 0 /\ worker[t][r].gen = entry'[r].gen =>
          task'[t].desired[r] = [gen |-> entry'[r].gen, on |-> TRUE]
    <3> HAVE entry'[r].gen # 0 /\ worker[t][r].gen = entry'[r].gen
    <3>1. entry'[r] = entry[r]
      BY <1>15
    <3>2. task[t].desired[r] = [gen |-> entry[r].gen, on |-> TRUE]
      BY <2>1, <3>1
    <3>3. worker[t][r].gen = task[t].desired[r].gen
      BY <3>1, <3>2
    <3> QED
      BY <1>15, <3>1, <3>2, <3>3
  <2> QED
    BY <1>15, <2>1, <2>2
<1>17. DoneIsCancelled'
  <2> SUFFICES ASSUME NEW t \in Tasks, NEW r \in Rules, task[t].pc = "serve", ~task[t].cancel
               PROVE  LET w == worker[t][r] IN
                      /\ w.pc \in {"done", "withdraw"} \/ (w.pc = "release" /\ w.refusals # Attempts)
                           => w.cancel
                      /\ w.pc # "none" /\ w.cancel => w.gen # task'[t].desired[r].gen
    BY <1>1, <1>5 DEF DoneIsCancelled, Untouched
  <2> QED
    BY <1>15 DEF Generations, DoneIsCancelled
<1>18. Shown'
  <2>1. StoppedIsOff'
    BY <1>1, <1>4 DEF Shown, StoppedIsOff, Configured
  <2>2. \A r \in Rules : Configured(r) /\ group[entry[r].key] # 0 => Current(entry[r].key) \in Tasks
    <3>1. \A q \in Rules : Configured(q) => entry[q].key \in Keys
      BY DEF TypeOK, Entry, Sessions, EntriesValid, Configured
    <3> QED
      BY <1>11, <3>1
  <2>3. StoppedIsClosed'
    <3> SUFFICES ASSUME NEW r \in Rules, entry'[r].gen # 0, entry'[r].state = "Stopped",
                        group[entry'[r].key] # 0, ~task'[Current(entry'[r].key)].fresh
                 PROVE  ~Alive(worker[Current(entry'[r].key)][r])
      BY <1>1 DEF StoppedIsClosed, Configured, Current, Alive
    <3>1. entry'[r] = entry[r]
      BY <1>4
    <3> QED
      BY <1>5, <2>2, <3>1 DEF Shown, StoppedIsClosed, Configured
  <2>4. EstablishedIsDriven'
    <3> SUFFICES ASSUME NEW r \in Rules, entry'[r].gen # 0, entry'[r].state = "Established",
                        group[entry'[r].key] # 0
                 PROVE  LET u == Current(entry'[r].key) IN
                        \/ task'[u].pc \in {"drain", "closing", "decide", "top"}
                        \/ /\ task'[u].pc = "serve" /\ worker[u][r].gen = entry'[r].gen
                           /\ worker[u][r].pc \in {"open", "done"}
                        \/ task'[u].cancel
      BY <1>1 DEF EstablishedIsDriven, Configured, Current
    <3>1. entry'[r] = entry[r]
      BY <1>4
    <3>2. Configured(r) /\ group[entry[r].key] # 0
      BY <3>1 DEF Configured
    <3>3. task'[Current(entry[r].key)].pc = task[Current(entry[r].key)].pc
          /\ task'[Current(entry[r].key)].cancel = task[Current(entry[r].key)].cancel
      BY <1>5, <2>2, <3>2 DEF Untouched
    <3> QED
      BY <3>1, <3>2, <3>3 DEF Shown, EstablishedIsDriven
  <2> QED
    BY <2>1, <2>3, <2>4 DEF Shown
<1>19. Generations'
  BY <1>12, <1>14, <1>16, <1>17 DEF Generations
<1> QED
  BY <1>3, <1>7, <1>8, <1>9, <1>18, <1>19, OperationKeeps DEF Rest
-----------------------------------------------------------------------------
(* Operations that leave every identity without a supervisor.              *)
Left ==
  /\ op'.kind \in Leaving /\ group' = [k \in Keys |-> 0]
  /\ UNCHANGED <<worker, port, generation>>
  /\ \A u \in Tasks : /\ Untouched(u) /\ task'[u].desired = task[u].desired
                      /\ task[u].cancel => task'[u].cancel
  /\ \A r \in Rules : entry'[r].gen = entry[r].gen /\ entry'[r].key = entry[r].key
                      /\ entry'[r].on = entry[r].on

LEMMA LeaveKeeps ==
  ASSUME IInv, Left, TypeOK', StoppedIsOff',
         op'.kind = "join" => op'.tasks = {u \in Tasks : u = Current(u[1])} /\ op.kind = "retire"
  PROVE  IInv'
<1> USE DEF IInv, Types
<1>1. /\ op'.kind \in Leaving /\ group' = [k \in Keys |-> 0]
      /\ UNCHANGED <<worker, port, generation>>
  BY DEF Left
<1>2. ASSUME NEW u \in Tasks
      PROVE  /\ Untouched(u) /\ task'[u].desired = task[u].desired
             /\ task[u].cancel => task'[u].cancel
  BY DEF Left
<1>3. ASSUME NEW r \in Rules
      PROVE  entry'[r].gen = entry[r].gen /\ entry'[r].key = entry[r].key
             /\ entry'[r].on = entry[r].on
  BY DEF Left
<1>4. generation \in Nat /\ generation <= generation
  BY DEF TypeOK
<1>5. Operated
  BY <1>1, <1>2, <1>4 DEF Operated
<1>6. EntriesValid'
  <2>1. {r \in Rules : entry'[r].on} = {r \in Rules : entry[r].on}
    BY <1>3
  <2> QED
    BY <1>1, <1>3, <2>1 DEF Sessions, EntriesValid, Belongs
<1>7. WantedValid'
  <2>1. \A u \in Tasks : OnIn(u)' = OnIn(u)
    BY <1>2 DEF OnIn
  <2>2. \A u \in Tasks : Compatible(OnIn(u)')
    BY <2>1 DEF Sessions, WantedValid
  <2>3. \A u \in Tasks : \A r \in Rules :
          /\ task'[u].desired[r].on => task'[u].desired[r].gen # 0
          /\ task'[u].desired[r].gen <= generation'
          /\ task'[u].desired[r].gen # 0 => Belongs(r, u[1])
    BY <1>1, <1>2 DEF Sessions, WantedValid
  <2> QED
    BY <2>2, <2>3 DEF WantedValid, Belongs, Compatible
<1>8. \A k \in Keys : group'[k] = 0
  BY <1>1
<1>9. GroupsKept'
  BY <1>1, <1>8 DEF GroupsKept, Leaving, Configured
<1>10. WantedMatch'
  <2> SUFFICES ASSUME NEW t \in Tasks, NEW r \in Rules, task[t].pc # "none", entry[r].gen # 0,
                      task[t].desired[r].gen = entry[r].gen
               PROVE  /\ t[1] = entry'[r].key /\ task'[t].desired[r].on = entry'[r].on
                      /\ op'.kind = "join" => t \in op'.tasks
    BY <1>1, <1>2, <1>3 DEF WantedMatch, Configured, Untouched
  <2>1. /\ t[1] = entry[r].key /\ task[t].desired[r].on = entry[r].on
        /\ t = Current(t[1]) \/ op.kind \in Leaving
    BY DEF Generations, WantedMatch, Configured
  <2> QED
    BY <1>2, <1>3, <2>1 DEF Leaving
<1>11. WorkersMatch' /\ DoneIsCancelled'
  BY <1>1, <1>2, <1>3 DEF Generations, WorkersMatch, DoneIsCancelled, Configured, Untouched
<1>12. \A r \in Rules : entry'[r].gen # 0 => group'[entry'[r].key] = 0
  <2>1. \A r \in Rules : entry'[r].gen # 0 => entry'[r].key \in Keys
    BY <1>3, <1>6 DEF TypeOK, Entry, EntriesValid
  <2> QED
    BY <1>8, <2>1
<1>13. Shown'
  BY <1>12 DEF Shown, StoppedIsClosed, EstablishedIsDriven, Configured
<1> QED
  BY <1>5, <1>6, <1>7, <1>9, <1>10, <1>11, <1>13, OperationKeeps DEF Rest, Generations

\* Retire and Shutdown cancel supervisors.
LEMMA CancelFits ==
  ASSUME TypeOK, NEW u \in Tasks, NEW s \in {task[u], [task[u] EXCEPT !.cancel = TRUE]},
         task'[u] = s
  PROVE  /\ s \in Task /\ Untouched(u) /\ task'[u].desired = task[u].desired
         /\ task[u].cancel => task'[u].cancel
<1>1. task[u] \in Task
  BY DEF TypeOK
<1> QED
  BY <1>1 DEF Task, Untouched

LEMMA RetireKeeps ==
  ASSUME IInv, Retire
  PROVE  IInv'
<1> USE DEF IInv, Types
<1> DEFINE retired == {u \in Tasks : u = Current(u[1])}
<1>1. /\ op.kind = "retire" /\ op' = [op EXCEPT !.kind = "join", !.tasks = retired]
      /\ task' = [u \in Tasks |-> IF u \in retired THEN [task[u] EXCEPT !.cancel = TRUE]
                                  ELSE task[u]]
      /\ group' = [k \in Keys |-> 0]
      /\ UNCHANGED <<entry, generation, worker, port, ops, faults>>
  BY DEF Retire
<1>2. op' \in [kind : {"none", "retry", "restart", "server", "retire", "join", "shutdown", "down"},
               rules : SUBSET Rules, tasks : SUBSET Tasks]
      /\ op'.kind = "join" /\ op'.tasks = retired
  BY <1>1 DEF TypeOK
<1>3. ASSUME NEW u \in Tasks
      PROVE  /\ task'[u] \in Task /\ Untouched(u) /\ task'[u].desired = task[u].desired
             /\ task[u].cancel => task'[u].cancel
  BY <1>1, CancelFits
<1>4. TypeOK'
  <2>1. task' \in [Tasks -> Task]
    BY <1>1, <1>3
  <2>2. group' \in [Keys -> 0..Slots]
    BY <1>1, BoundsAssumption
  <2> QED
    BY <1>1, <1>2, <2>1, <2>2 DEF TypeOK
<1>5. Left
  BY <1>1, <1>2, <1>3 DEF Left, Leaving
<1>6. StoppedIsOff'
  BY <1>1, <1>2 DEF Shown, StoppedIsOff, Configured
<1> QED
  BY <1>1, <1>2, <1>4, <1>5, <1>6, LeaveKeeps

LEMMA ShutdownKeeps ==
  ASSUME IInv, Shutdown
  PROVE  IInv'
<1> USE DEF IInv, Types
<1>1. /\ op' = [NoOp EXCEPT !.kind = "shutdown"]
      /\ task' = [u \in Tasks |-> IF task[u].pc = "none" THEN task[u]
                                  ELSE [task[u] EXCEPT !.cancel = TRUE]]
      /\ group' = [k \in Keys |-> 0]
      /\ UNCHANGED <<entry, generation, worker, port, faults>>
  BY DEF Shutdown
<1>2. op.kind = "none" /\ ops' \in 0..MaxOps
  BY BegunFits DEF Shutdown
<1>3. op' \in [kind : {"none", "retry", "restart", "server", "retire", "join", "shutdown", "down"},
               rules : SUBSET Rules, tasks : SUBSET Tasks]
      /\ op'.kind = "shutdown"
  BY <1>1 DEF NoOp
<1>4. ASSUME NEW u \in Tasks
      PROVE  /\ task'[u] \in Task /\ Untouched(u) /\ task'[u].desired = task[u].desired
             /\ task[u].cancel => task'[u].cancel
  BY <1>1, CancelFits
<1>5. TypeOK'
  <2>1. task' \in [Tasks -> Task]
    BY <1>1, <1>4
  <2>2. group' \in [Keys -> 0..Slots]
    BY <1>1, BoundsAssumption
  <2> QED
    BY <1>1, <1>2, <1>3, <2>1, <2>2 DEF TypeOK
<1>6. Left
  BY <1>1, <1>3, <1>4 DEF Left, Leaving
<1>7. StoppedIsOff'
  BY <1>1, <1>2, <1>3 DEF Shown, StoppedIsOff, Configured
<1> QED
  BY <1>3, <1>5, <1>6, <1>7, LeaveKeeps

LEMMA ShutDownKeeps ==
  ASSUME IInv, ShutDown
  PROVE  IInv'
<1> USE DEF IInv, Types
<1>1. /\ op.kind = "shutdown" /\ op' = [NoOp EXCEPT !.kind = "down"]
      /\ entry' = [r \in Rules |-> [entry[r] EXCEPT !.state = "Stopped"]]
      /\ UNCHANGED <<generation, group, task, worker, port, ops, faults>>
  BY DEF ShutDown
<1>2. op' \in [kind : {"none", "retry", "restart", "server", "retire", "join", "shutdown", "down"},
               rules : SUBSET Rules, tasks : SUBSET Tasks]
      /\ op'.kind = "down"
  BY <1>1 DEF NoOp
<1>3. ASSUME NEW r \in Rules
      PROVE  /\ [entry[r] EXCEPT !.state = "Stopped"] \in Entry
             /\ entry'[r].gen = entry[r].gen /\ entry'[r].key = entry[r].key
             /\ entry'[r].on = entry[r].on
  <2>1. entry[r] \in Entry /\ "Stopped" \in State
    BY DEF TypeOK, State
  <2> QED
    BY <1>1, <2>1 DEF Entry
<1>4. TypeOK'
  <2>1. entry' \in [Rules -> Entry]
    BY <1>1, <1>3
  <2> QED
    BY <1>1, <1>2, <2>1 DEF TypeOK
<1>5. group = [k \in Keys |-> 0]
  BY <1>1 DEF Generations, GroupsKept, Leaving
<1>6. Left
  BY <1>1, <1>2, <1>3, <1>5 DEF Left, Leaving, Untouched
<1>7. StoppedIsOff'
  BY <1>2 DEF StoppedIsOff
<1> QED
  BY <1>2, <1>4, <1>6, <1>7, LeaveKeeps
-----------------------------------------------------------------------------
(* Reconciliation.                                                         *)
LEMMA LeastExists ==
  ASSUME NEW S \in SUBSET Nat, S # {}
  PROVE  \E i \in S : \A j \in S : i <= j
<1>1. \A i, j \in S : <<j, i>> \in OpToRel(<, Nat) <=> j < i
  BY DEF OpToRel
<1>2. \E R : IsWellFoundedOn(R, Nat) /\ \A i, j \in S : <<j, i>> \in R <=> j < i
  BY NatLessThanWellFounded, <1>1
<1>3. \E i \in S : \A j \in S : ~(j < i)
  BY <1>2, WFMin
<1> QED
  BY <1>3

LEMMA LeastUnusedFits ==
  ASSUME NEW k \in Keys, Unused(k) # {}
  PROVE  LeastUnused(k) \in 1..Slots /\ task[<<k, LeastUnused(k)>>].pc = "none"
<1>1. Unused(k) \in SUBSET Nat /\ Unused(k) \subseteq 1..Slots
  BY BoundsAssumption DEF Unused
<1>2. \E i \in Unused(k) : \A j \in Unused(k) : i <= j
  BY <1>1, LeastExists
<1>3. LeastUnused(k) \in Unused(k)
  BY <1>2 DEF LeastUnused
<1> QED
  BY <1>1, <1>3 DEF Unused

\* What becomes of a supervisor when the table is reconciled.
Founded(u, table) ==
  /\ task[u].pc = "none" /\ group[u[1]] = 0 /\ u[2] = group'[u[1]]
  /\ task'[u] = NewTask(Handed(table, u[1]))
Woken(u, table) ==
  /\ u[2] = group[u[1]] /\ u[2] = group'[u[1]]
  /\ Untouched(u) /\ task'[u].cancel = task[u].cancel
  /\ task'[u].desired = Handed(table, u[1])
  /\ ~task'[u].fresh => ~task[u].fresh /\ task'[u].desired = task[u].desired
Retired(u) ==
  /\ u[2] = group[u[1]] /\ group'[u[1]] = 0
  /\ Untouched(u) /\ task'[u].desired = task[u].desired /\ task'[u].cancel
Spared(u) ==
  u[2] # group[u[1]] /\ u[2] # group'[u[1]] /\ task'[u] = task[u]

LEMMA HandedTypes ==
  ASSUME NEW table \in [Rules -> Entry], NEW k \in Keys
  PROVE  /\ Handed(table, k) \in [Rules -> Wanted]
         /\ \A r \in Rules :
              Handed(table, k)[r] = IF table[r].key = k
                                    THEN [gen |-> table[r].gen, on |-> table[r].on]
                                    ELSE [gen |-> 0, on |-> FALSE]
<1>1. ASSUME NEW r \in Rules
      PROVE  /\ [gen |-> table[r].gen, on |-> table[r].on] \in Wanted
             /\ [gen |-> 0, on |-> FALSE] \in Wanted
  BY DEF Entry, Wanted
<1> QED
  BY <1>1 DEF Handed

LEMMA ReconcileFits ==
  ASSUME TypeOK, NEW table \in [Rules -> Entry], Reconcile(table)
  PROVE  /\ entry' = table /\ group' \in [Keys -> 0..Slots] /\ task' \in [Tasks -> Task]
         /\ \A k \in Keys : group'[k] # 0 <=> \E r \in Rules : table[r].key = k
         /\ \A u \in Tasks :
              Founded(u, table) \/ Woken(u, table) \/ Retired(u) \/ Spared(u)
<1> DEFINE wanted == {k \in Keys : \E r \in Rules : table[r].key = k}
           new    == {k \in wanted : group[k] = 0}
           next(u) ==
             CASE u[1] \in new /\ u[2] = LeastUnused(u[1]) -> NewTask(Handed(table, u[1]))
               [] u[1] \in wanted /\ u[2] = group[u[1]] ->
                    [task[u] EXCEPT !.desired = Handed(table, u[1]),
                                    !.fresh = @ \/ task[u].desired # Handed(table, u[1])]
               [] u[1] \notin wanted /\ u[2] = group[u[1]] -> [task[u] EXCEPT !.cancel = TRUE]
               [] OTHER -> task[u]
<1>1. /\ \A k \in new : Unused(k) # {}
      /\ entry' = table
      /\ group' = [k \in Keys |-> CASE k \in new -> LeastUnused(k)
                                    [] k \in wanted \ new -> group[k]
                                    [] OTHER -> 0]
      /\ task' = [u \in Tasks |-> next(u)]
  BY DEF Reconcile
<1>2. \A k \in new : LeastUnused(k) \in 1..Slots /\ task[<<k, LeastUnused(k)>>].pc = "none"
  BY <1>1, LeastUnusedFits
<1>3. ASSUME NEW k \in Keys
      PROVE  /\ k \in new => group'[k] = LeastUnused(k)
             /\ k \in wanted \ new => group'[k] = group[k]
             /\ k \notin wanted => group'[k] = 0
  BY <1>1
<1>4. ASSUME NEW k \in Keys
      PROVE  /\ group'[k] \in 0..Slots /\ group[k] \in 0..Slots
             /\ group'[k] # 0 <=> k \in wanted
  <2>1. group[k] \in 0..Slots /\ Slots \in Nat
    BY BoundsAssumption DEF TypeOK
  <2>2. CASE k \in new
    <3>1. group'[k] \in 1..Slots
      BY <1>2, <1>3, <2>2
    <3>2. group'[k] \in 0..Slots /\ group'[k] # 0
      BY <2>1, <3>1
    <3> QED
      BY <2>1, <2>2, <3>2
  <2>3. CASE k \in wanted \ new
    <3>1. group'[k] = group[k] /\ group[k] # 0
      BY <1>3, <2>3
    <3> QED
      BY <2>1, <2>3, <3>1
  <2>4. CASE k \notin wanted
    BY <1>3, <2>1, <2>4
  <2> QED
    BY <2>2, <2>3, <2>4
<1>5. group' \in [Keys -> 0..Slots]
  BY <1>1, <1>4
<1>6. ASSUME NEW u \in Tasks
      PROVE  /\ task[u] \in Task /\ u[1] \in Keys /\ u[2] \in 1..Slots /\ u = <<u[1], u[2]>>
             /\ Handed(table, u[1]) \in [Rules -> Wanted]
  BY HandedTypes DEF TypeOK, Tasks
<1>7. ASSUME NEW u \in Tasks, u[1] \in new, u[2] = LeastUnused(u[1])
      PROVE  task'[u] \in Task /\ Founded(u, table)
  <2>1. task'[u] = NewTask(Handed(table, u[1]))
    <3>1. ~(u[2] = group[u[1]])
      BY <1>6, <1>7
    <3> QED
      BY <1>1, <1>7, <3>1
  <2>2. task[u].pc = "none" /\ group[u[1]] = 0 /\ u[2] = group'[u[1]]
    BY <1>2, <1>3, <1>6, <1>7
  <2> QED
    BY <1>6, <2>1, <2>2, TaskTypes DEF Founded
<1>8. ASSUME NEW u \in Tasks, u[1] \in wanted, u[2] = group[u[1]]
      PROVE  task'[u] \in Task /\ Woken(u, table)
  <2>1. u[1] \notin new
    BY <1>6, <1>8
  <2>2. task'[u] = [task[u] EXCEPT !.desired = Handed(table, u[1]),
                      !.fresh = task[u].fresh \/ task[u].desired # Handed(table, u[1])]
    BY <1>1, <1>8, <2>1
  <2>3. task'[u] \in Task /\ Untouched(u) /\ task'[u].cancel = task[u].cancel
        /\ task'[u].desired = Handed(table, u[1])
        /\ task'[u].fresh = (task[u].fresh \/ task[u].desired # Handed(table, u[1]))
    BY <1>6, <2>2 DEF Task, Untouched
  <2>4. u[2] = group'[u[1]]
    BY <1>3, <1>6, <1>8, <2>1
  <2> QED
    BY <1>8, <2>3, <2>4 DEF Woken
<1>9. ASSUME NEW u \in Tasks, u[1] \notin wanted, u[2] = group[u[1]]
      PROVE  task'[u] \in Task /\ Retired(u)
  <2>1. task'[u] = [task[u] EXCEPT !.cancel = TRUE]
    BY <1>1, <1>9
  <2>2. task'[u] \in Task /\ Untouched(u) /\ task'[u].desired = task[u].desired /\ task'[u].cancel
    BY <1>6, <2>1 DEF Task, Untouched
  <2> QED
    BY <1>3, <1>6, <1>9, <2>2 DEF Retired
<1>10. ASSUME NEW u \in Tasks, u[2] # group[u[1]], ~(u[1] \in new /\ u[2] = LeastUnused(u[1]))
       PROVE  task'[u] \in Task /\ Spared(u)
  <2>1. task'[u] = task[u]
    BY <1>1, <1>10
  <2>2. u[2] # group'[u[1]]
    <3>1. CASE u[1] \in new
      BY <1>3, <1>6, <1>10, <3>1
    <3>2. CASE u[1] \in wanted \ new
      BY <1>3, <1>6, <1>10, <3>2
    <3>3. CASE u[1] \notin wanted
      BY <1>3, <1>6, <3>3
    <3> QED
      BY <3>1, <3>2, <3>3
  <2> QED
    BY <1>6, <1>10, <2>1, <2>2 DEF Spared
<1>11. \A u \in Tasks :
         task'[u] \in Task
         /\ (Founded(u, table) \/ Woken(u, table) \/ Retired(u) \/ Spared(u))
  BY <1>7, <1>8, <1>9, <1>10
<1>12. task' \in [Tasks -> Task]
  <2> HIDE DEF next
  <2>1. task' = [u \in Tasks |-> task'[u]]
    BY <1>1
  <2> QED
    BY <1>11, <2>1
<1> QED
  BY <1>1, <1>4, <1>5, <1>11, <1>12

\* A table that may follow the present one: an entry stays, goes, or is of a new generation.
Follows(table) ==
  /\ \A r \in Rules :
       /\ table[r].gen = 0 <=> table[r].key = NoKey
       /\ table[r].gen = 0 => ~table[r].on
       /\ table[r].gen <= generation'
       /\ table[r].gen # 0 => Belongs(r, table[r].key)
       /\ \/ table[r] = entry[r]
          \/ table[r].gen = 0
          \/ /\ table[r].gen = generation + 1 /\ table[r].state # "Established"
             /\ table[r].state = "Stopped" => ~table[r].on
  /\ Compatible({r \in Rules : table[r].on})

LEMMA HandedFits ==
  ASSUME NEW table \in [Rules -> Entry], Follows(table), NEW k \in Keys
  PROVE  /\ Compatible({r \in Rules : Handed(table, k)[r].on})
         /\ \A r \in Rules :
              /\ Handed(table, k)[r].on => Handed(table, k)[r].gen # 0
              /\ Handed(table, k)[r].gen = 0 \/ Handed(table, k)[r].gen <= generation'
              /\ Handed(table, k)[r].gen # 0 => Belongs(r, k)
<1>1. \A r \in Rules :
        Handed(table, k)[r] = IF table[r].key = k THEN [gen |-> table[r].gen, on |-> table[r].on]
                              ELSE [gen |-> 0, on |-> FALSE]
  BY HandedTypes
<1>2. ASSUME NEW r \in Rules
      PROVE  /\ Handed(table, k)[r].on => table[r].on /\ Handed(table, k)[r].gen # 0
             /\ Handed(table, k)[r].gen = 0 \/ Handed(table, k)[r].gen <= generation'
             /\ Handed(table, k)[r].gen # 0 => Belongs(r, k)
  <2>1. CASE table[r].key = k
    <3>1. Handed(table, k)[r] = [gen |-> table[r].gen, on |-> table[r].on]
      BY <1>1, <2>1
    <3> QED
      BY <2>1, <3>1 DEF Follows
  <2>2. CASE table[r].key # k
    <3>1. Handed(table, k)[r] = [gen |-> 0, on |-> FALSE]
      BY <1>1, <2>2
    <3> QED
      BY <3>1
  <2> QED
    BY <2>1, <2>2
<1>3. Compatible({r \in Rules : Handed(table, k)[r].on})
  BY <1>2 DEF Compatible, Follows
<1> QED
  BY <1>2, <1>3

LEMMA ReconcileKeeps ==
  ASSUME IInv, NEW table \in [Rules -> Entry], Reconcile(table), Follows(table), TypeOK',
         UNCHANGED <<worker, port>>, generation' \in {generation, generation + 1},
         op'.kind = "none",
         \/ op.kind = "none"
         \/ op.kind = "join" /\ \A u \in op.tasks : task[u].pc = "none"
  PROVE  IInv'
<1> USE DEF IInv, Types
<1>1. /\ entry' = table
      /\ \A k \in Keys : group'[k] # 0 <=> \E r \in Rules : table[r].key = k
      /\ \A u \in Tasks : Founded(u, table) \/ Woken(u, table) \/ Retired(u) \/ Spared(u)
  BY ReconcileFits
<1>2. generation \in Nat /\ generation' \in Nat /\ generation <= generation'
  BY DEF TypeOK
<1>3. ASSUME NEW u \in Tasks
      PROVE  /\ u[1] \in Keys /\ u[2] \in 1..Slots /\ u = <<u[1], u[2]>>
             /\ (u = Current(u[1]) <=> u[2] = group[u[1]])
  BY DEF Tasks, Current
<1>4. ASSUME NEW u \in Tasks
      PROVE  /\ Founded(u, table) =>
                  /\ Started(u) /\ ~task'[u].fresh /\ task'[u].desired = Handed(table, u[1])
             /\ Woken(u, table) \/ Retired(u) \/ Spared(u) =>
                  Untouched(u)
  <2>1. Founded(u, table) =>
          /\ Started(u) /\ ~task'[u].fresh /\ task'[u].desired = Handed(table, u[1])
    BY DEF Founded, Started, NewTask
  <2> QED
    BY <2>1 DEF Woken, Retired, Spared, Untouched
<1>5. Operated
  BY <1>1, <1>2, <1>4 DEF Operated
<1>6. \A r \in Rules :
        /\ table[r].gen # 0 => table[r].key \in Keys
        /\ table[r].gen \in Nat
        /\ entry[r].gen \in Nat /\ entry[r].gen <= generation
  BY DEF TypeOK, Entry, Follows, Sessions, EntriesValid
<1>7. EntriesValid'
  BY <1>1 DEF Follows, EntriesValid, Compatible, Belongs
<1>8. WantedValid'
  <2> SUFFICES ASSUME NEW u \in Tasks
               PROVE  /\ Compatible({r \in Rules : task'[u].desired[r].on})
                      /\ \A r \in Rules :
                           /\ task'[u].desired[r].on => task'[u].desired[r].gen # 0
                           /\ task'[u].desired[r].gen <= generation'
                           /\ task'[u].desired[r].gen # 0 => Belongs(r, u[1])
    BY DEF WantedValid, OnIn, Compatible, Belongs
  <2>1. CASE task'[u].desired = Handed(table, u[1])
    <3>1. /\ Compatible({r \in Rules : task'[u].desired[r].on})
          /\ \A r \in Rules :
               /\ task'[u].desired[r].on => task'[u].desired[r].gen # 0
               /\ task'[u].desired[r].gen = 0 \/ task'[u].desired[r].gen <= generation'
               /\ task'[u].desired[r].gen # 0 => Belongs(r, u[1])
      BY <1>3, <2>1, HandedFits
    <3> QED
      BY <1>2, <3>1
  <2>2. CASE task'[u].desired = task[u].desired
    <3>1. OnIn(u) = {r \in Rules : task'[u].desired[r].on}
      BY <2>2 DEF OnIn
    <3>2. ASSUME NEW r \in Rules
          PROVE  task'[u].desired[r].gen <= generation'
      <4>1. task[u].desired[r].gen \in Nat /\ task[u].desired[r].gen <= generation
        BY DEF TypeOK, Task, Wanted, Sessions, WantedValid
      <4> QED
        BY <1>2, <2>2, <4>1
    <3> QED
      BY <2>2, <3>1, <3>2 DEF Sessions, WantedValid
  <2> QED
    BY <1>1, <1>4, <2>1, <2>2 DEF Woken, Retired, Spared
<1>9. ASSUME NEW u \in Tasks, Woken(u, table) \/ Retired(u)
      PROVE  /\ group[u[1]] # 0 /\ task[u].desired = Handed(entry, u[1])
             /\ task[u].pc # "none" /\ ~task[u].cancel /\ op.kind = "none"
  <2>1. u = Current(u[1]) /\ group[u[1]] # 0 /\ u[1] \in Keys
    BY <1>3, <1>9 DEF Woken, Retired
  <2> QED
    BY <2>1 DEF Generations, GroupsKept, Leaving
<1>10. ASSUME NEW rows \in {table, entry}, NEW u \in Tasks, NEW r \in Rules
       PROVE  /\ Handed(rows, u[1])[r].gen # 0 => rows[r].key = u[1]
              /\ rows[r].key = u[1] =>
                   Handed(rows, u[1])[r] = [gen |-> rows[r].gen, on |-> rows[r].on]
  <2>1. Handed(rows, u[1])[r] = IF rows[r].key = u[1]
                                THEN [gen |-> rows[r].gen, on |-> rows[r].on]
                                ELSE [gen |-> 0, on |-> FALSE]
    BY <1>3, HandedTypes DEF TypeOK
  <2>2. CASE rows[r].key = u[1]
    BY <2>1, <2>2
  <2>3. CASE rows[r].key # u[1]
    <3>1. Handed(rows, u[1])[r] = [gen |-> 0, on |-> FALSE]
      BY <2>1, <2>3
    <3> QED
      BY <2>3, <3>1
  <2> QED
    BY <2>2, <2>3
<1>20. \A u \in Tasks, r \in Rules :
         /\ Handed(table, u[1])[r].gen # 0 => table[r].key = u[1]
         /\ table[r].key = u[1] =>
              Handed(table, u[1])[r] = [gen |-> table[r].gen, on |-> table[r].on]
  BY <1>10
<1>21. \A u \in Tasks, r \in Rules :
         /\ Handed(entry, u[1])[r].gen # 0 => entry[r].key = u[1]
         /\ entry[r].key = u[1] =>
              Handed(entry, u[1])[r] = [gen |-> entry[r].gen, on |-> entry[r].on]
  BY <1>10
\* A generation that is already known comes from an entry that stays.
<1>11. ASSUME NEW r \in Rules, table[r].gen # 0, table[r].gen <= generation
       PROVE  table[r] = entry[r]
  BY <1>2, <1>11 DEF Follows
\* What a supervisor is told of a known generation it knew already.
<1>12. ASSUME NEW u \in Tasks, task[u].pc # "none", NEW r \in Rules,
              task'[u].desired[r].gen # 0, task'[u].desired[r].gen <= generation
       PROVE  task'[u].desired[r] = task[u].desired[r]
  <2>1. ~Founded(u, table)
    BY <1>12 DEF Founded
  <2>2. CASE Woken(u, table)
    <3>1. task'[u].desired[r] = Handed(table, u[1])[r]
      BY <2>2 DEF Woken
    <3>2. table[r].key = u[1] /\ task'[u].desired[r] = [gen |-> table[r].gen, on |-> table[r].on]
      BY <1>3, <1>20, <1>21, <1>12, <3>1
    <3>3. table[r] = entry[r]
      BY <1>11, <1>12, <3>2
    <3> QED
      BY <1>3, <1>9, <1>20, <1>21, <2>2, <3>2, <3>3
  <2> QED
    BY <1>1, <2>1, <2>2 DEF Retired, Spared
<1>13. ASSUME NEW u \in Tasks, NEW r \in Rules, worker[u][r].pc # "none"
       PROVE  /\ task[u].pc # "none" /\ worker[u][r].gen # 0 /\ worker[u][r].gen <= generation
              /\ worker[u][r].gen = task'[u].desired[r].gen =>
                   task'[u].desired[r] = task[u].desired[r]
  <2>1. task[u].pc # "none"
    BY <1>13 DEF Sessions, SessionsEnd, NoWorkers, NoWorker, InSession
  <2>2. worker[u][r].gen # 0 /\ worker[u][r].gen <= generation
    BY <1>13 DEF Sessions, WorkersValid
  <2> QED
    BY <1>12, <2>1, <2>2
<1>14. GroupsKept'
  <2>1. ASSUME NEW k \in Keys, group'[k] # 0
        PROVE  LET s == task'[<<k, group'[k]>>] IN
               s.pc # "none" /\ ~s.cancel /\ s.desired = Handed(table, k)
    <3> DEFINE u == <<k, group'[k]>>
    <3>1. u \in Tasks /\ u[1] = k /\ u[2] = group'[u[1]]
      BY <2>1 DEF TypeOK, Tasks
    <3> HIDE DEF u
    <3>2. Founded(u, table) \/ Woken(u, table)
      BY <1>1, <2>1, <3>1 DEF Retired, Spared
    <3>3. CASE Founded(u, table)
      <4>1. /\ task'[u].pc # "none" /\ ~task'[u].cancel
            /\ task'[u].desired = Handed(table, u[1])
        BY <1>4, <3>1, <3>3 DEF Started
      <4> QED
        BY <3>1, <4>1 DEF u
    <3>4. CASE Woken(u, table)
      <4>1. task[u].pc # "none" /\ ~task[u].cancel
        BY <1>9, <3>1, <3>4
      <4>2. task'[u].pc = task[u].pc /\ task'[u].cancel = task[u].cancel
            /\ task'[u].desired = Handed(table, u[1])
        BY <3>4 DEF Woken, Untouched
      <4> QED
        BY <3>1, <4>1, <4>2 DEF u
    <3> QED
      BY <3>2, <3>3, <3>4 DEF u
  <2>2. \A r \in Rules : table[r].gen # 0 => group'[table[r].key] # 0
    BY <1>1, <1>6
  <2> QED
    BY <1>1, <2>1, <2>2 DEF GroupsKept, Leaving, Current, Configured
<1>15. WantedMatch'
  <2> SUFFICES ASSUME NEW u \in Tasks, NEW r \in Rules, task'[u].pc # "none",
                      table[r].gen # 0, task'[u].desired[r].gen = table[r].gen
               PROVE  /\ u[1] = table[r].key /\ task'[u].desired[r].on = table[r].on
                      /\ u[2] = group'[u[1]]
    BY <1>1, <1>3 DEF WantedMatch, Configured, Current
  <2>1. CASE Founded(u, table) \/ Woken(u, table)
    <3>1. task'[u].desired[r] = Handed(table, u[1])[r] /\ u[2] = group'[u[1]]
      BY <1>4, <2>1 DEF Woken, Founded
    <3>2. table[r].key = u[1]
      BY <1>20, <3>1
    <3>3. task'[u].desired[r] = [gen |-> table[r].gen, on |-> table[r].on]
      BY <1>20, <3>1, <3>2
    <3>4. task'[u].desired[r].on = table[r].on
      BY <3>3
    <3> QED
      BY <3>1, <3>2, <3>4
  <2>2. CASE Retired(u) \/ Spared(u)
    <3>1. task'[u].desired = task[u].desired /\ task'[u].pc = task[u].pc
      BY <1>4, <2>2 DEF Retired, Spared, Untouched
    <3>2. table[r] = entry[r]
      <4>1. task[u].desired[r].gen <= generation
        BY DEF Sessions, WantedValid
      <4> QED
        BY <1>11, <3>1, <4>1
    <3>3. /\ u[1] = entry[r].key
          /\ u = Current(u[1]) \/ op.kind \in Leaving
          /\ op.kind = "join" => u \in op.tasks
      BY <3>1, <3>2 DEF Generations, WantedMatch, Configured
    <3>4. op.kind # "join"
      BY <3>1, <3>3
    <3>5. u = Current(u[1])
      BY <3>3, <3>4 DEF Leaving
    <3>6. Retired(u) /\ group'[u[1]] = 0
      BY <1>3, <2>2, <3>5 DEF Retired, Spared
    <3> QED
      BY <1>1, <1>3, <3>2, <3>3, <3>6
  <2> QED
    BY <1>1, <2>1, <2>2
<1>16. WorkersMatch'
  <2> SUFFICES ASSUME NEW u \in Tasks, NEW r \in Rules, worker[u][r].pc # "none"
               PROVE  /\ table[r].gen # 0 /\ worker[u][r].gen = table[r].gen =>
                           task'[u].desired[r] = [gen |-> table[r].gen, on |-> TRUE]
                      /\ worker[u][r].gen = task'[u].desired[r].gen => task'[u].desired[r].on
    BY <1>1 DEF WorkersMatch, Configured
  <2>1. /\ entry[r].gen # 0 /\ worker[u][r].gen = entry[r].gen =>
             task[u].desired[r] = [gen |-> entry[r].gen, on |-> TRUE]
        /\ worker[u][r].gen = task[u].desired[r].gen => task[u].desired[r].on
    BY DEF Generations, WorkersMatch, Configured
  <2>2. ASSUME table[r].gen # 0, worker[u][r].gen = table[r].gen
        PROVE  task'[u].desired[r] = [gen |-> table[r].gen, on |-> TRUE]
    <3>1. table[r] = entry[r]
      BY <1>11, <1>13, <2>2
    <3>2. task[u].desired[r] = [gen |-> table[r].gen, on |-> TRUE]
      BY <2>1, <2>2, <3>1
    <3>3. task'[u].desired[r] = task[u].desired[r]
      <4>1. ~Founded(u, table)
        BY <1>13 DEF Founded
      <4>2. CASE Woken(u, table)
        <5>1. task[u].desired[r] = Handed(entry, u[1])[r]
              /\ task'[u].desired[r] = Handed(table, u[1])[r]
          BY <1>9, <4>2 DEF Woken
        <5>2. task[u].desired[r].gen # 0
          BY <2>2, <3>2
        <5>3. entry[r].key = u[1]
          BY <1>21, <5>1, <5>2
        <5>4. task[u].desired[r] = [gen |-> entry[r].gen, on |-> entry[r].on]
          BY <1>21, <5>1, <5>3
        <5>5. task'[u].desired[r] = [gen |-> table[r].gen, on |-> table[r].on]
          BY <1>20, <3>1, <5>1, <5>3
        <5> QED
          BY <3>1, <5>4, <5>5
      <4> QED
        BY <1>1, <4>1, <4>2 DEF Retired, Spared
    <3> QED
      BY <3>2, <3>3
  <2> QED
    BY <1>13, <2>1, <2>2
<1>17. DoneIsCancelled'
  <2> SUFFICES ASSUME NEW u \in Tasks, NEW r \in Rules, task'[u].pc = "serve", ~task'[u].cancel
               PROVE  LET w == worker[u][r] IN
                      /\ w.pc \in {"done", "withdraw"} \/ (w.pc = "release" /\ w.refusals # Attempts)
                           => w.cancel
                      /\ w.pc # "none" /\ w.cancel => w.gen # task'[u].desired[r].gen
    BY DEF DoneIsCancelled
  <2>1. task[u].pc = "serve" /\ ~task[u].cancel
    <3>1. ~Founded(u, table) /\ ~Retired(u)
      BY <1>4 DEF Started, Retired
    <3> QED
      BY <1>1, <3>1 DEF Woken, Spared, Untouched
  <2> QED
    BY <1>13, <2>1 DEF Generations, DoneIsCancelled
<1>18. Shown'
  <2>1. StoppedIsOff'
    BY <1>1 DEF Follows, Shown, StoppedIsOff, Configured
  <2>2. ASSUME NEW r \in Rules, table[r].gen # 0, group'[table[r].key] # 0
        PROVE  /\ <<table[r].key, group'[table[r].key]>> \in Tasks
               /\ LET u == <<table[r].key, group'[table[r].key]>> IN
                  \/ Founded(u, table)
                  \/ Woken(u, table) /\ u = <<table[r].key, group[table[r].key]>>
    <3>1. table[r].key \in Keys
      BY <1>6, <2>2
    <3>2. group'[table[r].key] \in 1..Slots
      <4>1. group'[table[r].key] \in 0..Slots /\ Slots \in Nat
        BY <3>1, BoundsAssumption DEF TypeOK
      <4> QED
        BY <2>2, <4>1
    <3>3. <<table[r].key, group'[table[r].key]>> \in Tasks
      BY <3>1, <3>2 DEF Tasks
    <3> QED
      BY <1>1, <2>2, <3>3 DEF Retired, Spared, Woken
  <2>3. EstablishedIsDriven'
    <3> SUFFICES ASSUME NEW r \in Rules, table[r].gen # 0, table[r].state = "Established",
                        group'[table[r].key] # 0
                 PROVE  LET u == <<table[r].key, group'[table[r].key]>> IN
                        \/ task'[u].pc \in {"drain", "closing", "decide", "top"}
                        \/ /\ task'[u].pc = "serve" /\ worker[u][r].gen = table[r].gen
                           /\ worker[u][r].pc \in {"open", "done"}
                        \/ task'[u].cancel
      BY <1>1 DEF EstablishedIsDriven, Configured, Current
    <3> DEFINE u == <<table[r].key, group'[table[r].key]>>
    <3>1. table[r] = entry[r]
      BY DEF Follows
    <3>2. u \in Tasks /\ (Founded(u, table)
                          \/ (Woken(u, table) /\ u = <<table[r].key, group[table[r].key]>>))
      BY <2>2
    <3> HIDE DEF u
    <3>3. CASE Founded(u, table)
      BY <1>4, <3>2, <3>3 DEF Started, u
    <3>4. CASE Woken(u, table) /\ u = <<table[r].key, group[table[r].key]>>
      <4>1. group[entry[r].key] # 0
        BY <1>9, <3>1, <3>2, <3>4
      <4>2. \/ task[u].pc \in {"drain", "closing", "decide", "top"}
            \/ /\ task[u].pc = "serve" /\ worker[u][r].gen = entry[r].gen
               /\ worker[u][r].pc \in {"open", "done"}
            \/ task[u].cancel
        BY <3>1, <3>4, <4>1 DEF Shown, EstablishedIsDriven, Configured, Current
      <4>3. task'[u].pc = task[u].pc /\ task'[u].cancel = task[u].cancel
        BY <3>4 DEF Woken, Untouched
      <4> QED
        BY <3>1, <4>2, <4>3 DEF u
    <3> QED
      BY <3>2, <3>3, <3>4
  <2>4. StoppedIsClosed'
    <3> SUFFICES ASSUME NEW r \in Rules, table[r].gen # 0, table[r].state = "Stopped",
                        group'[table[r].key] # 0,
                        ~task'[<<table[r].key, group'[table[r].key]>>].fresh
                 PROVE  ~Alive(worker[<<table[r].key, group'[table[r].key]>>][r])
      BY <1>1 DEF StoppedIsClosed, Configured, Current, Alive
    <3> DEFINE u == <<table[r].key, group'[table[r].key]>>
    <3>1. u \in Tasks /\ u[1] = table[r].key
          /\ (Founded(u, table) \/ (Woken(u, table) /\ u = <<table[r].key, group[table[r].key]>>))
      BY <2>2
    <3>2. ~task'[u].fresh
      OBVIOUS
    <3> HIDE DEF u
    <3>3. CASE Founded(u, table)
      <4>1. worker[u][r].pc = "none"
        BY <3>1, <3>3 DEF Founded, Sessions, SessionsEnd, NoWorkers, NoWorker, InSession
      <4> QED
        BY <4>1 DEF Alive, u
    <3>4. CASE Woken(u, table) /\ u = <<table[r].key, group[table[r].key]>>
      <4>1. ~task[u].fresh /\ task'[u].desired = task[u].desired
            /\ task'[u].desired = Handed(table, u[1])
        BY <3>2, <3>4 DEF Woken
      <4>2. task[u].desired[r].gen = table[r].gen
        <5>1. task[u].desired[r] = Handed(table, u[1])[r]
          BY <4>1
        <5>2. Handed(table, u[1])[r] = [gen |-> table[r].gen, on |-> table[r].on]
          BY <1>20, <3>1
        <5> QED
          BY <5>1, <5>2
      <4>3. task[u].desired[r].gen <= generation
        BY <3>1 DEF Sessions, WantedValid
      <4>4. table[r] = entry[r]
        BY <1>11, <4>2, <4>3
      <4>5. group[entry[r].key] # 0
        BY <1>9, <3>1, <3>4, <4>4
      <4> QED
        BY <3>4, <4>1, <4>4, <4>5 DEF Shown, StoppedIsClosed, Configured, Current, u
    <3> QED
      BY <3>1, <3>3, <3>4
  <2> QED
    BY <2>1, <2>3, <2>4 DEF Shown
<1>19. Generations'
  BY <1>14, <1>15, <1>16, <1>17 DEF Generations
<1> QED
  BY <1>5, <1>7, <1>8, <1>18, <1>19, OperationKeeps DEF Rest

LEMMA JoinedKeeps ==
  ASSUME IInv, Joined
  PROVE  IInv'
<1> USE DEF IInv, Types
<1>1. /\ op.kind = "join" /\ \A u \in op.tasks : task[u].pc = "none"
      /\ Reconcile(entry) /\ op' = NoOp
      /\ UNCHANGED <<generation, worker, port, ops, faults>>
  BY DEF Joined
<1>2. entry \in [Rules -> Entry]
  BY DEF TypeOK
<1>3. Follows(entry)
  BY <1>1 DEF Follows, Sessions, EntriesValid
<1>4. op' \in [kind : {"none", "retry", "restart", "server", "retire", "join", "shutdown", "down"},
               rules : SUBSET Rules, tasks : SUBSET Tasks]
      /\ op'.kind = "none"
  BY <1>1 DEF NoOp
<1>5. TypeOK'
  <2>1. entry' = entry /\ group' \in [Keys -> 0..Slots] /\ task' \in [Tasks -> Task]
    BY <1>1, <1>2, ReconcileFits
  <2> QED
    BY <1>1, <1>4, <2>1 DEF TypeOK
<1> QED
  BY <1>1, <1>2, <1>3, <1>4, <1>5, ReconcileKeeps

\* The table of a configuration follows the present one.
LEMMA ReconciledFits ==
  ASSUME IInv, NEW c \in Configs, generation' = generation + 1
  PROVE  Reconciled(c) \in [Rules -> Entry] /\ Follows(Reconciled(c))
<1> USE DEF IInv, Types
<1>1. generation \in Nat /\ generation + 1 \in Nat /\ generation <= generation'
      /\ generation + 1 <= generation' /\ 0 <= generation'
  <2>1. generation \in Nat
    BY DEF TypeOK
  <2> QED
    BY <2>1
<1>2. ASSUME NEW r \in Rules
      PROVE  /\ c[r].key \in Keys \cup {NoKey} /\ c[r].on \in BOOLEAN
             /\ entry[r] \in Entry
             /\ c[r].key # NoKey => Belongs(r, c[r].key)
  BY ConfigsAssumption DEF ConfigType, Belongs, TypeOK
<1>3. ASSUME NEW r \in Rules, c[r].key # NoKey
      PROVE  LET row == Replaced(r, c[r].key, c[r].on) IN
             /\ row \in Entry /\ row.gen = generation + 1 /\ row.key = c[r].key
             /\ row.on = c[r].on /\ row.state # "Established"
             /\ row.state = "Stopped" => ~row.on
  <2> DEFINE state == IF c[r].on THEN "Starting"
                      ELSE IF Configured(r)
                              /\ entry[r].state \notin {"Stopped", "NeedsAttention", "Backoff"}
                           THEN "Stopping" ELSE "Stopped"
  <2>1. state \in {"Starting", "Stopping", "Stopped"} /\ (state = "Stopped" => ~c[r].on)
    OBVIOUS
  <2>2. Replaced(r, c[r].key, c[r].on)
          = [gen |-> generation + 1, key |-> c[r].key, on |-> c[r].on, state |-> state]
    BY DEF Replaced
  <2> HIDE DEF state
  <2> QED
    BY <1>1, <1>2, <2>1, <2>2 DEF Entry, State
<1>4. ASSUME NEW r \in Rules
      PROVE  \/ Reconciled(c)[r] = NoEntry
             \/ /\ Reconciled(c)[r] = entry[r] /\ c[r].key # NoKey
                /\ c[r].key = entry[r].key /\ c[r].on = entry[r].on
             \/ Reconciled(c)[r] = Replaced(r, c[r].key, c[r].on) /\ c[r].key # NoKey
  BY DEF Reconciled, RuntimeEqual
<1>5. Reconciled(c) \in [Rules -> Entry]
  <2>1. \A r \in Rules : Reconciled(c)[r] \in Entry
    BY <1>2, <1>3, <1>4, TaskTypes
  <2>2. Reconciled(c) = [r \in Rules |-> Reconciled(c)[r]]
    BY DEF Reconciled
  <2> QED
    BY <2>1, <2>2
<1>6. ASSUME NEW r \in Rules
      PROVE  /\ Reconciled(c)[r].gen = 0 <=> Reconciled(c)[r].key = NoKey
             /\ Reconciled(c)[r].gen = 0 => ~Reconciled(c)[r].on
             /\ Reconciled(c)[r].gen <= generation'
             /\ Reconciled(c)[r].gen # 0 => Belongs(r, Reconciled(c)[r].key)
             /\ \/ Reconciled(c)[r] = entry[r]
                \/ Reconciled(c)[r].gen = 0
                \/ /\ Reconciled(c)[r].gen = generation + 1
                   /\ Reconciled(c)[r].state # "Established"
                   /\ Reconciled(c)[r].state = "Stopped" => ~Reconciled(c)[r].on
             /\ Reconciled(c)[r].on => Runs(c, r)
  <2>1. CASE Reconciled(c)[r] = NoEntry
    BY <1>1, <2>1 DEF NoEntry
  <2>2. CASE /\ Reconciled(c)[r] = entry[r] /\ c[r].key # NoKey
             /\ c[r].key = entry[r].key /\ c[r].on = entry[r].on
    <3>1. entry[r].gen \in Nat /\ entry[r].gen <= generation
      BY <1>2 DEF Entry, Sessions, EntriesValid
    <3>2. entry[r].gen <= generation'
      BY <1>1, <3>1
    <3> QED
      BY <2>2, <3>2 DEF Sessions, EntriesValid, Runs
  <2>3. CASE Reconciled(c)[r] = Replaced(r, c[r].key, c[r].on) /\ c[r].key # NoKey
    <3>1. generation + 1 # 0
      BY <1>1
    <3> QED
      BY <1>1, <1>2, <1>3, <2>3, <3>1 DEF Runs
  <2> QED
    BY <1>4, <2>1, <2>2, <2>3
<1>7. Compatible({r \in Rules : Reconciled(c)[r].on})
  BY <1>6, ConfigsAssumption DEF Compatible
<1> QED
  BY <1>5, <1>6, <1>7 DEF Follows

LEMMA ReloadKeeps ==
  ASSUME IInv, Reload
  PROVE  IInv'
<1> USE DEF IInv, Types
<1>1. PICK c \in Configs : Reconcile(Reconciled(c))
  BY DEF Reload
<1>2. generation' = generation + 1 /\ UNCHANGED <<worker, port, op, faults>>
  BY DEF Reload
<1>3. op.kind = "none" /\ ops' \in 0..MaxOps
  BY BegunFits DEF Reload
<1>4. Reconciled(c) \in [Rules -> Entry] /\ Follows(Reconciled(c))
  BY <1>2, ReconciledFits
<1>5. TypeOK'
  <2>1. generation \in Nat
    BY DEF TypeOK
  <2>2. generation' \in Nat
    BY <1>2, <2>1
  <2>3. entry' \in [Rules -> Entry] /\ group' \in [Keys -> 0..Slots] /\ task' \in [Tasks -> Task]
    BY <1>1, <1>4, ReconcileFits
  <2> QED
    BY <1>2, <1>3, <2>2, <2>3 DEF TypeOK
<1> QED
  BY <1>1, <1>2, <1>3, <1>4, <1>5, ReconcileKeeps
-----------------------------------------------------------------------------
(***************************************************************************)
(* Theorems.                                                               *)
(***************************************************************************)
LEMMA InitFits == Init => IInv
<1> SUFFICES ASSUME Init
             PROVE  IInv
  OBVIOUS
<1>1. /\ entry = [r \in Rules |-> NoEntry] /\ generation = 0
      /\ group = [k \in Keys |-> 0]
      /\ task = [t \in Tasks |-> NoTask] /\ worker = [t \in Tasks |-> NoWorkers]
      /\ port = [p \in Ports |-> Free]
      /\ op = NoOp /\ ops = 0 /\ faults = 0
  BY DEF Init
<1>2. \A t \in Tasks :
        /\ task[t].pc = "none" /\ ~task[t].open /\ ~task[t].disconnected /\ ~task[t].blocked
        /\ ~task[t].failed /\ task[t].claims = 0 /\ task[t].asked = {}
        /\ \A r \in Rules : task[t].desired[r] = [gen |-> 0, on |-> FALSE]
  <2>1. /\ NoTask.pc = "none" /\ ~NoTask.open /\ ~NoTask.disconnected /\ ~NoTask.blocked
        /\ ~NoTask.failed /\ NoTask.claims = 0 /\ NoTask.asked = {}
        /\ NoTask.desired = Nobody
    BY DEF NoTask, NewTask
  <2> QED
    BY <1>1, <2>1 DEF Nobody
<1>3. \A t \in Tasks : worker[t] = NoWorkers /\ \A r \in Rules : worker[t][r] = NoWorker
  BY <1>1 DEF NoWorkers
<1>4. NoWorker.pc = "none" /\ NoWorker.gen = 0 /\ NoWorker.refusals = 0 /\ ~NoWorker.cancel
  BY DEF NoWorker
<1>5. \A r \in Rules : entry[r] = NoEntry
  BY <1>1
<1>6. NoEntry.gen = 0 /\ NoEntry.key = NoKey /\ ~NoEntry.on /\ NoEntry.state = "Stopped"
  BY DEF NoEntry
<1>7. \A p \in Ports, t \in Tasks : port[p] # t
  BY <1>1, RulesAssumption DEF Free, Tasks
<1>8. op.kind = "none"
  BY <1>1 DEF NoOp
<1>9. Types
  <2>1. op \in [kind : {"none", "retry", "restart", "server", "retire", "join", "shutdown", "down"},
                rules : SUBSET Rules, tasks : SUBSET Tasks]
    BY <1>1 DEF NoOp
  <2>2. entry \in [Rules -> Entry] /\ task \in [Tasks -> Task]
        /\ worker \in [Tasks -> [Rules -> Worker]]
    BY <1>1, TaskTypes
  <2>3. /\ generation \in Nat /\ group \in [Keys -> 0..Slots]
        /\ ops \in 0..MaxOps /\ faults \in 0..MaxFaults
    BY <1>1, BoundsAssumption
  <2>4. TypeOK
    BY <1>1, <2>1, <2>2, <2>3 DEF TypeOK
  <2>5. RefusalsCounted
    BY <1>3, <1>4 DEF RefusalsCounted, Attempts
  <2> QED
    BY <2>4, <2>5 DEF Types
<1>10. Sessions
  <2>1. SessionsEnd
    BY <1>2, <1>3, <1>7 DEF SessionsEnd, InSession
  <2>2. EntriesValid
    BY <1>1, <1>5, <1>6 DEF EntriesValid, Compatible
  <2>3. WantedValid
    BY <1>1, <1>2 DEF WantedValid, OnIn, Compatible
  <2>4. WorkersValid /\ DrainingIsCancelled /\ OneOwnerPerSession
    BY <1>2, <1>3, <1>4, RulesAssumption
       DEF WorkersValid, DrainingIsCancelled, OneOwnerPerSession, Alive
  <2> QED
    BY <2>1, <2>2, <2>3, <2>4 DEF Sessions
<1>11. Holds
  BY <1>2, <1>7, RulesAssumption
     DEF Holds, ClaimsCounted, AskedIsPending, HeldIsDriven, EarlyHoldsNothing, Ports
<1>12. Generations
  <2>1. GroupsKept
    BY <1>1, <1>5, <1>6, <1>8 DEF GroupsKept, Leaving, Configured
  <2>2. WantedMatch /\ WorkersMatch /\ DoneIsCancelled
    BY <1>2, <1>3, <1>4 DEF WantedMatch, WorkersMatch, DoneIsCancelled
  <2> QED
    BY <2>1, <2>2 DEF Generations
<1>13. Shown
  BY <1>5, <1>6 DEF Shown, StoppedIsOff, EstablishedIsDriven, StoppedIsClosed, Configured
<1> QED
  BY <1>9, <1>10, <1>11, <1>12, <1>13 DEF IInv

LEMMA OperateKeeps ==
  ASSUME IInv, Operate
  PROVE  IInv'
BY ReloadKeeps, SelectKeeps, BumpKeeps, RetireKeeps, JoinedKeeps, ShutdownKeeps, ShutDownKeeps
   DEF Operate

LEMMA StutterKeeps ==
  ASSUME IInv, UNCHANGED vars
  PROVE  IInv'
<1> USE DEF IInv, vars
<1>1. Types'
  BY DEF Types, TypeOK, RefusalsCounted
<1>2. Sessions'
  BY DEF Sessions, SessionsEnd, EntriesValid, WantedValid, WorkersValid, DrainingIsCancelled,
         OneOwnerPerSession, Compatible, OnIn, Belongs, Alive
<1>3. Holds'
  BY DEF Holds, ClaimsCounted, AskedIsPending, HeldIsDriven, EarlyHoldsNothing, Belongs
<1>4. Generations'
  BY DEF Generations, GroupsKept, WantedMatch, WorkersMatch, DoneIsCancelled, Configured, Current
<1>5. Shown'
  BY DEF Shown, StoppedIsOff, EstablishedIsDriven, StoppedIsClosed, Configured, Current, Alive
<1> QED
  BY <1>1, <1>2, <1>3, <1>4, <1>5

LEMMA EngineInvariant == Spec => []IInv
<1>1. ASSUME IInv, [Next]_vars
      PROVE  IInv'
  <2>1. CASE Operate
    BY <1>1, <2>1, OperateKeeps
  <2>2. ASSUME NEW t \in Tasks, Supervise(t) \/ ConnectFails(t)
        PROVE  IInv'
    BY <1>1, <2>2, SuperviseKeeps
  <2>3. ASSUME NEW t \in Tasks, LoseTransport(t)
        PROVE  IInv'
    BY <1>1, <2>3, LostFits, LostKeeps DEF IInv
  <2>4. ASSUME NEW t \in Tasks, NEW r \in Rules,
               Work(t, r) \/ BindFails(t, r) \/ HelperFails(t, r)
        PROVE  IInv'
    BY <1>1, <2>4, WorkerKeeps
  <2>5. ASSUME NEW p \in Ports, Reap(p)
        PROVE  IInv'
    BY <1>1, <2>5, LostFits, LostKeeps DEF IInv
  <2>6. CASE UNCHANGED vars
    BY <1>1, <2>6, StutterKeeps
  <2> QED
    BY <1>1, <2>1, <2>2, <2>3, <2>4, <2>5, <2>6 DEF Next
<1> QED
  BY <1>1, InitFits, PTL DEF Spec

\* Whatever operations, failures and answers come, the table, the supervisors, the sessions and
\* the workers stay in the states the code has (RuleState, Group, the loops of supervise,
\* connected and remote::run).
THEOREM EngineTypeCorrect == Spec => []TypeOK
<1>1. IInv => TypeOK
  BY DEF IInv, Types
<1> QED
  BY <1>1, EngineInvariant, PTL

\* Two workers of one session never own or ask for the same remote port, whatever edits exchange
\* the rules on it while the previous owner still goes (connected: the rule waits as Stopping).
THEOREM OneOwner == Spec => []OneOwnerPerSession
<1>1. IInv => OneOwnerPerSession
  BY DEF IInv, Sessions
<1> QED
  BY <1>1, EngineInvariant, PTL

\* No session claims a lease twice: after a claim the supervisor takes a new session for a new
\* generation of the rule (connected leaves once a verified worker has finished).
THEOREM OneClaim == Spec => []OneClaimPerSession
<1>1. IInv => OneClaimPerSession
  BY DEF IInv, Holds, ClaimsCounted, OneClaimPerSession
<1> QED
  BY <1>1, EngineInvariant, PTL

\* A worker that is about to release its lease has no listener on the server any more, on every
\* way it can have come there (remote::run, cancel_listener before release).
THEOREM ReleasedHoldsNothing == Spec => []ReleasedIsClosed
<1>1. ASSUME IInv
      PROVE  ReleasedIsClosed
  <2> SUFFICES ASSUME NEW t \in Tasks, NEW r \in Verified, worker[t][r].pc = "release"
               PROVE  port[Port[r]] # t
    BY DEF ReleasedIsClosed, At
  <2>1. Belongs(r, t[1])
    BY <1>1, RulesAssumption DEF IInv, Sessions, WorkersValid
  <2> QED
    BY <1>1, <2>1 DEF IInv, Holds, EarlyHoldsNothing, Early
<1> QED
  BY <1>1, EngineInvariant, PTL

\* A session that ends on purpose and without a failure has answered every request and given back
\* every port, however cancellations and late answers interleave (protocol_request, cancel_listener).
THEOREM NothingLeftBehind == Spec => []CleanClose
<1>1. ASSUME IInv
      PROVE  CleanClose
  <2> SUFFICES ASSUME NEW t \in Tasks, \A r \in Rules : ~Alive(worker[t][r]),
                      ~task[t].disconnected, ~task[t].blocked, ~task[t].failed
               PROVE  task[t].asked = {} /\ \A p \in Ports : port[p] # t
    BY DEF CleanClose, Drained
  <2>1. \A r \in Remote : worker[t][r].pc \in {"none", "done"}
    BY RulesAssumption DEF Alive
  <2>2. task[t].asked = {}
    BY <1>1, <2>1 DEF IInv, Holds, AskedIsPending
  <2>3. \A p \in Ports : port[p] # t
    BY <1>1, <2>1 DEF IInv, Holds, HeldIsDriven, Holding
  <2> QED
    BY <2>2, <2>3
<1> QED
  BY <1>1, EngineInvariant, PTL

\* A rule is shown as established only while its supervisor has the session that serves it, or has
\* only just lost it, whatever late updates of retired supervisors and workers arrive.
THEOREM EstablishedIsServed == Spec => []EstablishedIsDriven
<1>1. IInv => EstablishedIsDriven
  BY DEF IInv, Shown
<1> QED
  BY <1>1, EngineInvariant, PTL

\* A rule that its supervisor has read and that is shown as stopped has no worker in the session.
THEOREM StoppedHasNoWorker == Spec => []StoppedIsClosed
<1>1. IInv => StoppedIsClosed
  BY DEF IInv, Shown
<1> QED
  BY <1>1, EngineInvariant, PTL
=============================================================================
