------------------------ MODULE DaemonLifecycle_proofs ------------------------
(***************************************************************************)
(* For any number of commands, processes, faults and crashes: a profile    *)
(* has one owner and its endpoint is the owner's, an owner is replaced     *)
(* only when it has gone, and a command leaves the service as its result   *)
(* says.  The first two follow the instance lock, the third what the       *)
(* holder of the operation lock has done so far.                           *)
(***************************************************************************)
EXTENDS DaemonLifecycle, TLAPS

\* A process that has the lock, and one that the manager started.
Owned == \A p \in Procs : proc[p].at \notin {"forked", "gone"} <=> lock = p
Probing == \A c \in Callers : At(c, "holding") <=> lock = c
OneManaged ==
  \A p \in Procs : proc[p].managed /\ Alive(p) =>
    /\ unit.active \in {"on", "ending"}
    /\ \A q \in Procs : proc[q].managed /\ Alive(q) => p = q

\* What a command knows of the owner it began with.
Looks == {"ping", "probe", "holding", "connect", "judge"}
After == {"holding", "connect", "change", "spawn", "start", "enable", "await", "restore"}
Absent(k) == k.at \in After \/ (k.at = "judge" /\ k.seen = "Stopped")
OwnersKnown ==
  \A c \in Callers : \A p \in call[c].owners :
    proc[p].at # "forked" /\ (Absent(call[c]) => ~Alive(p))

\* How far a command can be, by what its probes are for.
Replacing == {"restart", "install"}
Route(k) ==
  \/ k.at = "idle" /\ k.phase = "status"
  \/ k.op = "status" /\ k.phase = "status" /\ k.at \in Looks
  \/ k.op = "start" /\ \/ k.phase = "first" /\ k.at \in Looks
                       \/ k.phase = "second" /\ k.at \in Looks \cup {"spawn", "start", "await"}
  \/ k.op = "stop" /\ \/ k.phase = "stop" /\ k.at \in Looks \cup {"halt", "halting"}
                      \/ k.phase = "drain" /\ k.at \in Looks
  \/ k.op = "uninstall" /\ \/ /\ k.phase = "removed"
                              /\ k.at \in Looks \cup {"halt", "halting", "remove"}
                           \/ k.phase = "removedrain" /\ k.at \in Looks
  \/ k.op \in Replacing /\
       \/ k.phase \in {"prepare", "blame", "undrain"} /\ k.at \in Looks
       \/ /\ k.phase = "stop"
          /\ k.at \in Looks \cup {"halt", "halting", "change", "start", "enable", "await"}
       \/ k.phase = "drain" /\ k.at \in Looks \cup {"change", "start", "enable", "await"}
       \/ /\ k.phase = "undo"
          /\ k.at \in Looks \cup {"halt", "halting", "restore", "spawn", "start", "await"}
Remembers(k) ==
  /\ k.at # "idle" => k.result = "none"
  /\ k.phase \in {"status", "first", "second"} => k.owners = {}
  /\ k.op = "stop" => ~k.before.running
  /\ k.op \in Replacing /\ k.phase \notin {"status", "prepare"} /\ k.before.managed =>
       k.before.running
  /\ k.op = "restart" /\ (k.at = "enable" \/ (k.at = "start" /\ k.phase # "undo")) =>
       k.before.installed
  /\ k.at = "enable" => k.op = "restart"
Flow == \A c \in Callers :
  /\ Route(call[c]) /\ Remembers(call[c])
  /\ operation = c <=> call[c].phase \notin {"status", "first"}

\* What the holder of the operation lock has done to the service so far.
Untouched(k) ==
  \/ k.phase \in {"prepare", "blame"}
  \/ k.phase \in {"stop", "drain"} /\ k.at \notin {"start", "enable", "await"}
  \/ k.op = "restart" /\ ~k.before.installed /\ k.phase # "status"
Put(k) ==
  /\ k.op \in Replacing /\ k.phase \in {"stop", "drain"}
  /\ k.op = "restart" => k.before.installed
Changed(k) ==
  /\ Untouched(k) => Definition(unit) = k.saved
  /\ Put(k) /\ k.at \in {"start", "enable"} => Definition(unit) = Fresh
  /\ Put(k) /\ k.at = "await" =>
       Definition(unit) = IF k.op = "install" THEN Fresh
                          ELSE [Fresh EXCEPT !.enabled = k.saved.enabled]
  /\ k.phase = "undo" /\ k.at \in {"spawn", "start", "await"} => Definition(unit) = k.saved
  /\ k.phase = "removedrain" \/ (k.phase = "removed" /\ k.at \in Looks) =>
       Definition(unit) = NotSaved
Saving(k) ==
  k.op \in Replacing /\ k.phase # "status" =>
    /\ k.saved.loaded = k.saved.file
    /\ k.saved.file # "none" => unit.loaded # "none"
    /\ k.before.managed => k.saved.file # "none" /\ k.before.installed

\* What the manager makes of it.
AtRest(k) ==
  \/ k.phase \in {"stop", "undo", "removed"} /\ k.at \in Looks \cup {"remove"}
  \/ k.phase \in {"drain", "undrain", "removedrain"} /\ k.at \in Looks
  \/ k.at \in {"change", "restore"}
  \/ k.phase = "prepare" /\ ~k.before.managed
  \/ k.phase = "undo" /\ (k.at \in {"spawn", "start"} \/ (k.at = "await" /\ ~k.before.managed))
Quiet(k) == AtRest(k) => unit.active = "off"
Upright ==
  /\ unit.active \in {"on", "retry"}
  /\ \A p \in Procs : proc[p].managed /\ Alive(p) =>
       proc[p].at \notin {"stopping", "closed"} /\ ~proc[p].doomed
Launched(k) ==
  /\ k.phase = "undo" /\ k.at = "await" /\ k.before.managed => Upright
  /\ k.phase = "undo" /\ k.at = "spawn" => ~k.before.managed
  /\ k.phase = "undo" /\ k.at = "start" => k.before.managed
  /\ k.at = "start" => Installed
Registered ==
  /\ ManagerRuns => Installed
  /\ unit.loaded = "none" => unit.file = "none"
Sound(k) == Changed(k) /\ Saving(k) /\ Quiet(k) /\ Launched(k)
Service == \A c \in Callers : Sound(call[c])

Locks == TypeOK /\ Owned /\ Probing /\ EndpointIsOwners
IInv == Locks /\ OneManaged /\ OwnersKnown /\ Flow /\ Registered /\ Service
-----------------------------------------------------------------------------
(***************************************************************************)
(* What the helpers of a command make of its record.                       *)
(***************************************************************************)
Units == [file : Definitions, loaded : Definitions, enabled : BOOLEAN,
          active : {"off", "on", "retry", "ending"}]
Process == [at : ProcStages, managed : BOOLEAN, api : Nat, doomed : BOOLEAN]
Says(c, k) == k \in Call /\ call' = [call EXCEPT ![c] = k]
Ended(c, r) == [Idle EXCEPT !.op = call[c].op, !.result = r]

LEMMA IdleCall == Idle \in Call
  BY DEF Idle, Call, AllCommands, Steps, Phases, Before, Saved, Results, NotBefore, NotSaved,
         Definitions

LEMMA GoSays ==
  ASSUME TypeOK, NEW c \in Callers, NEW step \in Steps, Go(c, step)
  PROVE  Says(c, [call[c] EXCEPT !.at = step])
<1>1. call[c] \in Call
  BY DEF TypeOK
<1>2. [call[c] EXCEPT !.at = step] \in Call
  BY <1>1 DEF Call
<1> QED
  BY <1>2 DEF Go, Says, TypeOK

LEMMA LookSays ==
  ASSUME TypeOK, NEW c \in Callers, NEW phase \in Phases, Look(c, phase)
  PROVE  Says(c, [call[c] EXCEPT !.at = "ping", !.phase = phase])
<1>1. call[c] \in Call
  BY DEF TypeOK
<1>2. [call[c] EXCEPT !.at = "ping", !.phase = phase] \in Call
  BY <1>1 DEF Call, Steps
<1>3. call' = [call EXCEPT ![c] = [call[c] EXCEPT !.at = "ping", !.phase = phase]]
  BY DEF Look, TypeOK
<1> QED
  BY <1>2, <1>3 DEF Says

LEMMA JudgeSays ==
  ASSUME TypeOK, NEW c \in Callers, NEW seen \in {"Running", "Unresponsive", "Stopped"},
         Judge(c, seen)
  PROVE  Says(c, [call[c] EXCEPT !.at = "judge", !.seen = seen])
<1>1. call[c] \in Call
  BY DEF TypeOK
<1>2. [call[c] EXCEPT !.at = "judge", !.seen = seen] \in Call
  BY <1>1 DEF Call, Steps
<1>3. call' = [call EXCEPT ![c] = [call[c] EXCEPT !.at = "judge", !.seen = seen]]
  BY DEF Judge, TypeOK
<1> QED
  BY <1>2, <1>3 DEF Says

LEMMA RecoverSays ==
  ASSUME TypeOK, NEW c \in Callers, Recover(c)
  PROVE  Says(c, [call[c] EXCEPT !.at = "halt", !.phase = "undo"]) /\ UNCHANGED operation
<1>1. call[c] \in Call
  BY DEF TypeOK
<1>2. [call[c] EXCEPT !.at = "halt", !.phase = "undo"] \in Call
  BY <1>1 DEF Call, Steps, Phases
<1>3. call' = [call EXCEPT ![c] = [call[c] EXCEPT !.at = "halt", !.phase = "undo"]]
  BY DEF Recover, TypeOK
<1> QED
  BY <1>2, <1>3 DEF Says, Recover

LEMMA FinishSays ==
  ASSUME TypeOK, NEW c \in Callers, NEW r \in Results, Finish(c, r)
  PROVE  /\ Says(c, Ended(c, r))
         /\ operation' = IF operation = c THEN Nobody ELSE operation
<1>1. call[c] \in Call
  BY DEF TypeOK
<1>2. Ended(c, r) \in Call
  BY <1>1, IdleCall DEF Call, Ended
<1> QED
  BY <1>2 DEF Finish, Says, Ended

LEMMA FailedSays ==
  ASSUME TypeOK, NEW c \in Callers, Failed(c)
  PROVE  \/ /\ operation' = IF operation = c THEN Nobody ELSE operation
            /\ \/ call[c].phase = "undo" /\ Says(c, Ended(c, "unrecovered"))
               \/ /\ call[c].phase # "undo" /\ call[c].op = "start"
                  /\ Says(c, Ended(c, "failed"))
         \/ /\ call[c].phase # "undo" /\ call[c].op # "start" /\ UNCHANGED operation
            /\ Says(c, [call[c] EXCEPT !.at = "halt", !.phase = "undo"])
  BY FinishSays, RecoverSays DEF Failed, Results

LEMMA StopFailedSays ==
  ASSUME TypeOK, NEW c \in Callers, StopFailed(c)
  PROVE  \/ /\ operation' = IF operation = c THEN Nobody ELSE operation
            /\ \/ call[c].phase = "undo" /\ Says(c, Ended(c, "unrecovered"))
               \/ call[c].phase = "removed" /\ Says(c, Ended(c, "failed"))
               \/ /\ call[c].phase \notin {"undo", "removed"} /\ ~call[c].before.running
                  /\ Says(c, Ended(c, "unconfirmed"))
         \/ /\ call[c].phase \notin {"undo", "removed"} /\ call[c].before.running
            /\ UNCHANGED operation
            /\ Says(c, [call[c] EXCEPT !.at = "ping", !.phase = "blame"])
  BY FinishSays, LookSays DEF StopFailed, Results, Phases

LEMMA BeginSays ==
  ASSUME TypeOK, NEW c \in Callers, NEW op \in AllCommands \ {"run"}, Begin(c, op)
  PROVE  \/ /\ op \in {"start", "status"} /\ Says(c, Asking(op)) /\ UNCHANGED operation
         \/ /\ UNCHANGED operation
            /\ \E r \in {"busy", "unavailable"} :
                 Says(c, [Idle EXCEPT !.op = op, !.result = r])
         \/ /\ op \notin {"start", "status"} /\ operation = Nobody /\ operation' = c
            /\ op \in {"restart", "install"} => Checkpoint
            /\ Says(c, Changing(op))
<1>1. Asking(op) \in Call
  BY IdleCall DEF Asking, Call, Steps, Phases
<1>2. \A r \in {"busy", "unavailable"} : [Idle EXCEPT !.op = op, !.result = r] \in Call
  BY IdleCall DEF Call, Results
<1>3. Changing(op) \in Call
  <2>1. unit \in Units
    BY DEF TypeOK, Units
  <2>2. Definition(unit) \in Saved
    BY <2>1 DEF Definition, Saved, Units
  <2>3. (op # "stop" /\ ManagerRuns) \in BOOLEAN /\ Installed \in BOOLEAN
    BY DEF ManagerRuns, Installed
  <2>4. [running |-> FALSE, managed |-> op # "stop" /\ ManagerRuns,
         installed |-> Installed] \in Before
    BY <2>3 DEF Before
  <2>5. {lock} \cap Procs \in SUBSET Procs
    OBVIOUS
  <2> QED
    BY <2>2, <2>4, <2>5, IdleCall DEF Changing, Call, Steps, Phases
<1> QED
  BY <1>1, <1>2, <1>3 DEF Begin, Says

\* A step of a command that touches the instance lock in no probe.
Speaks(c) ==
  /\ call[c].at # "holding" /\ operation' \in {operation, Nobody, c}
  /\ \E k \in Call : Says(c, k) /\ k.at # "holding" /\ (k.at = "idle" => operation' # c)

LEMMA StepSpeaks ==
  ASSUME TypeOK, NEW c \in Callers, call[c].at # "holding",
         NEW k, Says(c, k), k.at # "holding",
         \/ k.at # "idle" /\ UNCHANGED operation
         \/ operation' = IF operation = c THEN Nobody ELSE operation
  PROVE  Speaks(c)
  BY WhoAssumption DEF Speaks, Says

LEMMA GoSpeaks ==
  ASSUME TypeOK, NEW c \in Callers, call[c].at # "holding",
         NEW step \in Steps \ {"idle", "holding"}, Go(c, step), UNCHANGED operation
  PROVE  Speaks(c)
<1>1. call[c] \in Call
  BY DEF TypeOK
<1> QED
  BY <1>1, GoSays, StepSpeaks DEF Call

LEMMA LookSpeaks ==
  ASSUME TypeOK, NEW c \in Callers, call[c].at # "holding", NEW phase \in Phases,
         Look(c, phase), operation' \in {operation, c}
  PROVE  Speaks(c)
<1>1. call[c] \in Call
  BY DEF TypeOK
<1>2. [call[c] EXCEPT !.at = "ping", !.phase = phase].at = "ping"
  BY <1>1 DEF Call
<1> QED
  BY <1>2, LookSays DEF Speaks, Says

LEMMA JudgeSpeaks ==
  ASSUME TypeOK, NEW c \in Callers, call[c].at # "holding",
         NEW seen \in {"Running", "Unresponsive", "Stopped"}, Judge(c, seen), UNCHANGED operation
  PROVE  Speaks(c)
<1>1. call[c] \in Call
  BY DEF TypeOK
<1> QED
  BY <1>1, JudgeSays DEF Call, Speaks, Says

LEMMA FinishSpeaks ==
  ASSUME TypeOK, NEW c \in Callers, call[c].at # "holding", NEW r \in Results, Finish(c, r)
  PROVE  Speaks(c)
<1>1. call[c] \in Call
  BY DEF TypeOK
<1> QED
  BY <1>1, FinishSays, StepSpeaks DEF Ended, Idle

LEMMA RecoverSpeaks ==
  ASSUME TypeOK, NEW c \in Callers, call[c].at # "holding", Recover(c)
  PROVE  Speaks(c)
<1>1. call[c] \in Call
  BY DEF TypeOK
<1> QED
  BY <1>1, RecoverSays DEF Call, Speaks, Says

LEMMA FailedSpeaks ==
  ASSUME TypeOK, NEW c \in Callers, call[c].at # "holding", Failed(c)
  PROVE  Speaks(c)
  BY FinishSpeaks, RecoverSpeaks DEF Failed, Results

LEMMA StopFailedSpeaks ==
  ASSUME TypeOK, NEW c \in Callers, call[c].at # "holding", StopFailed(c)
  PROVE  Speaks(c)
  BY FinishSpeaks, LookSpeaks DEF StopFailed, Results, Phases

LEMMA BeginSpeaks ==
  ASSUME TypeOK, NEW c \in Callers, NEW op \in AllCommands \ {"run"}, Begin(c, op)
  PROVE  Speaks(c)
<1>1. call[c].at = "idle" /\ operation # c
  BY WhoAssumption DEF Begin, At, TypeOK
<1>2. Asking(op).at = "ping" /\ Changing(op).at \in {"ping", "halt"}
  BY DEF Asking, Changing, Idle
<1>3. \A r : [Idle EXCEPT !.op = op, !.result = r].at = "idle"
  BY DEF Idle
<1>4. CASE UNCHANGED operation /\ Says(c, Asking(op))
  BY <1>1, <1>2, <1>4 DEF Speaks, Says
<1>5. CASE UNCHANGED operation /\ \E r \in {"busy", "unavailable"} :
             Says(c, [Idle EXCEPT !.op = op, !.result = r])
  BY <1>1, <1>3, <1>5 DEF Speaks, Says
<1>6. CASE operation' = c /\ Says(c, Changing(op))
  BY <1>1, <1>2, <1>6 DEF Speaks, Says
<1> QED
  BY <1>4, <1>5, <1>6, BeginSays
-----------------------------------------------------------------------------
(***************************************************************************)
(* The instance lock and the endpoint.                                     *)
(***************************************************************************)
Held ==
  /\ proc \in [Procs -> Process] /\ endpoint \in Procs \cup {Nobody}
  /\ Owned /\ EndpointIsOwners
Counted == calls \in 0..MaxCalls /\ faults \in 0..MaxFaults /\ crashes \in 0..MaxCrashes

LEMMA HeldAndCounted ==
  ASSUME Locks
  PROVE  Held /\ Counted /\ unit \in Units
  BY DEF Locks, TypeOK, Held, Counted, Units, Process

\* A step of a command, which may start daemons or have them end.
LEMMA Talk ==
  ASSUME Locks, NEW c \in Callers, Speaks(c), Held', Counted', unit' \in Units,
         lock' = lock \/ (lock \in Procs /\ lock' = Nobody)
  PROVE  Locks'
<1> USE WhoAssumption
<1>1. PICK k \in Call : Says(c, k) /\ k.at # "holding" /\ (k.at = "idle" => operation' # c)
  BY DEF Speaks
<1>2. call \in [Callers -> Call] /\ call[c].at # "holding"
  BY DEF Locks, TypeOK, Speaks
<1>3. /\ call' \in [Callers -> Call] /\ call'[c] = k
      /\ \A d \in Callers \ {c} : call'[d] = call[d]
  BY <1>1, <1>2 DEF Says
<1>4. Probing'
  BY <1>1, <1>2, <1>3 DEF Locks, Probing, At
<1>5. operation' \in Callers \cup {Nobody} /\ (operation' # Nobody => ~At(operation, "idle")')
  BY <1>1, <1>3 DEF Locks, TypeOK, Speaks, At
<1>6. /\ lock' \in Procs \cup Callers \cup {Nobody} /\ (lock' \in Procs => Alive(lock)')
      /\ lock' \in Callers => At(lock, "holding")'
  BY <1>4 DEF Locks, TypeOK, Held, Owned, Alive, Probing
<1> QED
  BY <1>3, <1>4, <1>5, <1>6 DEF Locks, TypeOK, Held, Counted, Units, Process

\* A step of a daemon.
LEMMA Tick ==
  ASSUME Locks, Held', Counted', unit' \in Units, UNCHANGED <<call, operation>>,
         lock' = lock \/ (lock \notin Callers /\ lock' \in Procs \cup {Nobody})
  PROVE  Locks'
<1> USE WhoAssumption
<1>1. Probing'
  BY DEF Locks, TypeOK, Probing, At
<1>2. lock' \in Procs \cup Callers \cup {Nobody} /\ (lock' \in Procs => Alive(lock)')
  BY DEF Locks, TypeOK, Held, Owned, Alive
<1>3. lock' \in Callers => At(lock, "holding")'
  BY DEF Locks, TypeOK, At
<1>4. operation' # Nobody => ~At(operation, "idle")'
  BY DEF Locks, TypeOK, At
<1> QED
  BY <1>1, <1>2, <1>3, <1>4 DEF Locks, TypeOK, Held, Counted, Units, Process

LEMMA FaultCounted ==
  ASSUME Counted, Fault, UNCHANGED <<calls, crashes>>
  PROVE  Counted'
<1>1. faults \in 0..MaxFaults /\ faults < MaxFaults /\ faults' = faults + 1
  BY DEF Counted, Fault
<1>2. faults' \in 0..MaxFaults
  BY <1>1, BoundsAssumption
<1> QED
  BY <1>2 DEF Counted

LEMMA StillHeld ==
  ASSUME Held, UNCHANGED <<proc, lock, endpoint>>
  PROVE  Held'
  BY DEF Held, Owned, EndpointIsOwners, Listening

LEMMA UnitAfterTyped ==
  ASSUME unit \in Units, NEW p \in Procs, NEW clean \in BOOLEAN, unit' = UnitAfter(p, clean)
  PROVE  unit' \in Units
<1>1. CASE ~proc[p].managed
  BY <1>1 DEF UnitAfter
<1>2. CASE proc[p].managed
  <2>1. \E a \in {"off", "retry"} : unit' = [unit EXCEPT !.active = a]
    BY <1>2 DEF UnitAfter
  <2> QED
    BY <2>1 DEF Units
<1> QED
  BY <1>1, <1>2

LEMMA ApisTyped == ApiOf(unit) \subseteq Nat
  BY ApisAssumption DEF ApiOf, Current

LEMMA ForkHeld ==
  ASSUME Held, NEW p \in Procs, NEW managed \in BOOLEAN, NEW api \in Nat,
         Free(p), proc' = Fork(p, managed, api), UNCHANGED <<lock, endpoint>>
  PROVE  Held'
<1>1. [at |-> "forked", managed |-> managed, api |-> api, doomed |-> FALSE] \in Process
  BY DEF Process, ProcStages
<1>2. /\ proc' \in [Procs -> Process] /\ proc'[p].at = "forked"
      /\ \A q \in Procs \ {p} : proc'[q] = proc[q]
  BY <1>1 DEF Held, Fork
<1>3. proc[p].at = "gone"
  BY DEF Free, Alive
<1> QED
  BY <1>2, <1>3 DEF Held, Owned, EndpointIsOwners, Listening

\* A daemon goes on to its next stage, with or without the lock.
LEMMA ToTyped ==
  ASSUME Held, NEW p \in Procs, NEW stage \in ProcStages, To(p, stage)
  PROVE  /\ proc' \in [Procs -> Process] /\ proc'[p] = [proc[p] EXCEPT !.at = stage]
         /\ proc'[p].at = stage
         /\ \A q \in Procs \ {p} : proc'[q] = proc[q]
<1>1. proc[p] \in Process
  BY DEF Held
<1>2. [proc[p] EXCEPT !.at = stage] \in Process
  BY <1>1 DEF Process
<1> QED
  BY <1>1, <1>2 DEF Held, To, Process

LEMMA TakeLockKeeps ==
  ASSUME Locks, NEW p \in Procs, TakeLock(p)
  PROVE  Locks'
<1> USE HeldAndCounted, WhoAssumption
<1>0. Counted' /\ UNCHANGED <<call, operation>> /\ endpoint' = endpoint
  BY DEF TakeLock, Counted, counters
<1>1. CASE lock = Nobody /\ lock' = p /\ To(p, "locked") /\ UNCHANGED unit
  <2>1. Held'
    BY <1>0, <1>1, ToTyped DEF Held, Owned, EndpointIsOwners, Listening, ProcStages
  <2> QED
    BY <1>0, <1>1, <2>1, Tick
<1>2. CASE lock # Nobody /\ To(p, "gone") /\ unit' = UnitAfter(p, FALSE) /\ UNCHANGED lock
  <2>1. Held'
    BY <1>0, <1>2, ToTyped DEF TakeLock, Held, Owned, EndpointIsOwners, Listening, ProcStages
  <2>2. unit' \in Units
    BY <1>2, UnitAfterTyped
  <2> QED
    BY <1>0, <1>2, <2>1, <2>2, Tick
<1> QED
  BY <1>1, <1>2 DEF TakeLock

LEMMA CheckEndpointKeeps ==
  ASSUME Locks, NEW p \in Procs, CheckEndpoint(p)
  PROVE  Locks'
<1> USE HeldAndCounted, WhoAssumption
<1>0. /\ Counted' /\ UNCHANGED <<call, operation>> /\ endpoint' = endpoint
      /\ proc[p].at = "locked" /\ lock = p
  BY DEF CheckEndpoint, Counted, counters, Held, Owned
<1>1. CASE To(p, "checked") /\ UNCHANGED <<unit, lock>>
  <2>1. Held'
    BY <1>0, <1>1, ToTyped DEF Held, Owned, EndpointIsOwners, Listening, ProcStages
  <2> QED
    BY <1>0, <1>1, <2>1, Tick
<1>2. CASE To(p, "gone") /\ unit' = UnitAfter(p, FALSE) /\ lock' = Nobody
  <2>1. Held'
    BY <1>0, <1>2, ToTyped DEF Held, Owned, EndpointIsOwners, Listening, ProcStages
  <2>2. unit' \in Units
    BY <1>2, UnitAfterTyped
  <2> QED
    BY <1>0, <1>2, <2>1, <2>2, Tick
<1> QED
  BY <1>1, <1>2 DEF CheckEndpoint

LEMMA ServedStepsKeep ==
  ASSUME Locks, NEW p \in Procs, Bind(p) \/ Heed(p) \/ CloseListener(p)
  PROVE  Locks'
<1> USE HeldAndCounted, WhoAssumption
<1>0. /\ Counted' /\ UNCHANGED <<call, operation, unit, lock>>
      /\ proc[p].at \notin {"forked", "gone"} /\ lock = p
  BY DEF Bind, Heed, CloseListener, Counted, counters, Held, Owned
<1>1. Held'
  <2>1. CASE Bind(p)
    BY <1>0, <2>1, ToTyped DEF Bind, Held, Owned, EndpointIsOwners, Listening, ProcStages
  <2>2. CASE Heed(p)
    BY <1>0, <2>2, ToTyped DEF Heed, Held, Owned, EndpointIsOwners, Listening, ProcStages
  <2>3. CASE CloseListener(p)
    BY <1>0, <2>3, ToTyped DEF CloseListener, Held, Owned, EndpointIsOwners, Listening, ProcStages
  <2> QED
    BY <2>1, <2>2, <2>3
<1> QED
  BY <1>0, <1>1, Tick

LEMMA ServeKeeps ==
  ASSUME Locks, NEW p \in Procs, Serve(p)
  PROVE  Locks'
<1> USE HeldAndCounted, WhoAssumption
<1>0. /\ UNCHANGED <<call, operation>> /\ proc[p].at = "bound" /\ lock = p
  BY DEF Serve, Held, Owned
<1>1. CASE To(p, "serving") /\ UNCHANGED <<lock, endpoint, unit, counters>>
  <2>1. Held' /\ Counted'
    BY <1>0, <1>1, ToTyped
       DEF Held, Owned, EndpointIsOwners, Listening, ProcStages, Counted, counters
  <2> QED
    BY <1>0, <1>1, <2>1, Tick
<1>2. CASE /\ Fault /\ To(p, "gone") /\ unit' = UnitAfter(p, FALSE)
           /\ lock' = Nobody /\ endpoint' = Nobody /\ UNCHANGED <<calls, crashes>>
  <2>1. Held'
    BY <1>0, <1>2, ToTyped DEF Held, Owned, EndpointIsOwners, Listening, ProcStages
  <2>2. unit' \in Units
    BY <1>2, UnitAfterTyped
  <2>3. Counted'
    BY <1>2, FaultCounted
  <2> QED
    BY <1>0, <1>2, <2>1, <2>2, <2>3, Tick
<1> QED
  BY <1>1, <1>2 DEF Serve

LEMMA ExitKeeps ==
  ASSUME Locks, NEW p \in Procs, Exit(p)
  PROVE  Locks'
<1> USE HeldAndCounted, WhoAssumption
<1>0. /\ Counted' /\ UNCHANGED <<call, operation>> /\ endpoint' = endpoint
      /\ proc[p].at = "closed" /\ lock = p /\ To(p, "gone") /\ lock' = Nobody
  BY DEF Exit, Counted, counters, Held, Owned
<1>1. Held'
  BY <1>0, ToTyped DEF Held, Owned, EndpointIsOwners, Listening, ProcStages
<1>2. unit' \in Units
  BY UnitAfterTyped DEF Exit
<1> QED
  BY <1>0, <1>1, <1>2, Tick

LEMMA CrashKeeps ==
  ASSUME Locks, NEW p \in Procs, Crash(p)
  PROVE  Locks'
<1> USE HeldAndCounted, WhoAssumption
<1>0. /\ UNCHANGED <<call, operation>> /\ endpoint' = endpoint /\ To(p, "gone")
      /\ lock' = IF lock = p THEN Nobody ELSE lock
  BY DEF Crash
<1>1. Held'
  <2>1. /\ Held /\ proc' \in [Procs -> Process] /\ proc'[p].at = "gone"
        /\ \A q \in Procs \ {p} : proc'[q] = proc[q]
    BY <1>0, ToTyped DEF ProcStages
  <2>2. Owned'
    BY <1>0, <2>1 DEF Held, Owned
  <2>3. EndpointIsOwners'
    BY <1>0, <2>1 DEF Held, EndpointIsOwners, Listening
  <2> QED
    BY <1>0, <2>1, <2>2, <2>3 DEF Held
<1>2. unit' \in Units
  BY UnitAfterTyped DEF Crash
<1>3. Counted'
  <2>1. crashes \in 0..MaxCrashes /\ crashes < MaxCrashes /\ crashes' = crashes + 1
    BY DEF Counted, Crash
  <2>2. crashes' \in 0..MaxCrashes
    BY <2>1, BoundsAssumption
  <2> QED
    BY <2>2 DEF Counted, Crash
<1> QED
  BY <1>0, <1>1, <1>2, <1>3, Tick

LEMMA ForksKeep ==
  ASSUME Locks, NEW p \in Procs, ManagerRestarts(p) \/ RunByHand(p)
  PROVE  Locks'
<1> USE HeldAndCounted
<1>1. CASE ManagerRestarts(p)
  <2>1. PICK api \in ApiOf(unit) : proc' = Fork(p, TRUE, api)
    BY <1>1 DEF ManagerRestarts
  <2>2. Held'
    BY <1>1, <2>1, ApisTyped, ForkHeld DEF ManagerRestarts
  <2>3. Counted' /\ unit' \in Units
    BY <1>1 DEF ManagerRestarts, Counted, counters, Units
  <2> QED
    BY <1>1, <2>2, <2>3, Tick DEF ManagerRestarts
<1>2. CASE RunByHand(p)
  <2>1. Held'
    BY <1>2, ForkHeld DEF RunByHand, Current
  <2>2. Counted'
    <3>1. calls \in 0..MaxCalls /\ calls < MaxCalls /\ calls' = calls + 1
      BY <1>2 DEF Counted, RunByHand
    <3>2. calls' \in 0..MaxCalls
      BY <3>1, BoundsAssumption
    <3> QED
      BY <1>2, <3>2 DEF Counted, RunByHand
  <2> QED
    BY <1>2, <2>1, <2>2, Tick DEF RunByHand
<1> QED
  BY <1>1, <1>2

LEMMA DaemonsKeepLocks ==
  ASSUME Locks, Daemons
  PROVE  Locks'
  BY TakeLockKeeps, CheckEndpointKeeps, ServedStepsKeep, ServeKeeps, ExitKeeps, CrashKeeps,
     ForksKeep DEF Daemons

\* Most steps of a command leave daemons, lock and socket alone.
LEMMA JustTalk ==
  ASSUME Locks, NEW c \in Callers, Speaks(c), UNCHANGED <<proc, lock, endpoint>>,
         unit' \in Units, Counted'
  PROVE  Locks'
  BY HeldAndCounted, StillHeld, Talk

LEMMA PlainTalk ==
  ASSUME Locks, NEW c \in Callers, Speaks(c), UNCHANGED <<proc, lock, endpoint, unit, counters>>
  PROVE  Locks'
<1>1. Counted'
  BY HeldAndCounted DEF Counted, counters
<1> QED
  BY <1>1, HeldAndCounted, JustTalk

\* A probe takes the lock for a moment.
LEMMA ProbeKeeps ==
  ASSUME Locks, NEW c \in Callers, Probe(c)
  PROVE  Locks'
<1> USE WhoAssumption
<1>0. TypeOK /\ At(c, "probe")
  BY DEF Locks, Probe
<1>1. CASE lock = Nobody /\ lock' = c /\ Go(c, "holding")
  <2>1. Says(c, [call[c] EXCEPT !.at = "holding"]) /\ call[c] \in Call
    BY <1>0, <1>1, GoSays DEF Steps, TypeOK
  <2>2. /\ call' \in [Callers -> Call] /\ call'[c].at = "holding"
        /\ \A d \in Callers \ {c} : call'[d] = call[d]
    BY <1>0, <2>1 DEF Says, TypeOK, Call
  <2>3. Probing'
    BY <1>1, <2>2 DEF Locks, TypeOK, Probing, At
  <2>4. UNCHANGED <<proc, endpoint, unit, operation, counters>>
    BY DEF Probe
  <2>5. Owned' /\ EndpointIsOwners'
    BY <1>1, <2>4 DEF Locks, Owned, EndpointIsOwners, Listening
  <2>6. operation' # Nobody => ~At(operation, "idle")'
    BY <1>0, <2>2, <2>4 DEF TypeOK, At
  <2>7. TypeOK'
    BY <1>0, <1>1, <2>2, <2>4, <2>6 DEF TypeOK, At, Alive, counters
  <2> QED
    BY <2>3, <2>5, <2>7 DEF Locks
<1>2. CASE Judge(c, "Unresponsive") /\ UNCHANGED lock
  BY <1>0, <1>2, JudgeSpeaks, PlainTalk DEF Probe, At
<1> QED
  BY <1>1, <1>2 DEF Probe

LEMMA UnlockKeeps ==
  ASSUME Locks, NEW c \in Callers, Unlock(c)
  PROVE  Locks'
<1> USE WhoAssumption
<1>0. TypeOK /\ At(c, "holding") /\ lock = c /\ lock' = Nobody
  BY DEF Locks, Unlock, Probing
<1>1. Says(c, [call[c] EXCEPT !.at = "connect"]) /\ call[c] \in Call
  BY <1>0, GoSays DEF Steps, TypeOK, Unlock
<1>2. /\ call' \in [Callers -> Call] /\ call'[c].at = "connect"
      /\ \A d \in Callers \ {c} : call'[d] = call[d]
  BY <1>0, <1>1 DEF Says, TypeOK, Call
<1>3. Probing'
  BY <1>0, <1>2 DEF Locks, TypeOK, Probing, At
<1>4. UNCHANGED <<proc, endpoint, unit, operation, counters>>
  BY DEF Unlock
<1>5. Owned' /\ EndpointIsOwners'
  BY <1>0, <1>4 DEF Locks, Owned, EndpointIsOwners, Listening
<1>6. operation' # Nobody => ~At(operation, "idle")'
  BY <1>0, <1>2, <1>4 DEF TypeOK, At
<1>7. TypeOK'
  BY <1>0, <1>2, <1>4, <1>6 DEF TypeOK, At, Alive, counters
<1> QED
  BY <1>3, <1>5, <1>7 DEF Locks

LEMMA BeginKeeps ==
  ASSUME Locks, NEW c \in Callers, NEW op \in AllCommands \ {"run"}, Begin(c, op)
  PROVE  Locks'
<1>1. Counted'
  <2>1. calls \in 0..MaxCalls /\ calls < MaxCalls /\ calls' = calls + 1
    BY HeldAndCounted DEF Counted, Begin
  <2>2. calls' \in 0..MaxCalls
    BY <2>1, BoundsAssumption
  <2> QED
    BY <2>2, HeldAndCounted DEF Counted, Begin
<1>2. Speaks(c)
  BY BeginSpeaks DEF Locks
<1>3. unit' \in Units
  BY HeldAndCounted DEF Begin
<1> QED
  BY <1>1, <1>2, <1>3, JustTalk DEF Begin

LEMMA PresenceKeeps ==
  ASSUME Locks, NEW c \in Callers, Ping(c) \/ Connect(c)
  PROVE  Locks'
<1>1. TypeOK /\ call[c].at # "holding"
  BY DEF Locks, Ping, Connect, At
<1>2. Speaks(c)
  BY <1>1, GoSpeaks, JudgeSpeaks DEF Ping, Connect, Steps
<1> QED
  BY <1>2, PlainTalk DEF Ping, Connect

LEMMA DecisionsKeep ==
  ASSUME Locks, NEW c \in Callers, DecideStart(c) \/ Decide(c)
  PROVE  Locks'
<1>1. TypeOK /\ call[c].at # "holding"
  BY DEF Locks, DecideStart, Decide, At
<1>2. CASE DecideStart(c)
  <2>1. Speaks(c)
    BY <1>1, <1>2, GoSpeaks, FinishSpeaks, LookSpeaks DEF DecideStart, Steps, Phases, Results
  <2> QED
    BY <1>2, <2>1, PlainTalk DEF DecideStart
<1>3. CASE Decide(c)
  <2>1. CASE call[c].phase = "prepare"
    <3> DEFINE running == call[c].seen # "Stopped" \/ call[c].before.managed
    <3> DEFINE k == [call[c] EXCEPT
                !.before.running = running, !.phase = "stop",
                !.at = IF running \/ call[c].op = "restart" THEN "halt" ELSE "change"]
    <3>1. call[c] \in Call /\ running \in BOOLEAN
      BY <1>1 DEF TypeOK
    <3>2. [call[c].before EXCEPT !.running = running] \in Before
      BY <3>1 DEF Call, Before
    <3>3. k \in Call /\ k.at \in {"halt", "change"}
      BY <3>1, <3>2 DEF Call, Steps, Phases
    <3>4. call' = [call EXCEPT ![c] = k] /\ UNCHANGED operation
      BY <1>1, <1>3, <2>1 DEF Decide, TypeOK
    <3> QED
      BY <1>1, <1>3, <3>3, <3>4, StepSpeaks, PlainTalk DEF Says, Decide
  <2>2. CASE call[c].phase # "prepare"
    <3>1. Speaks(c)
      BY <1>1, <1>3, <2>2, FinishSpeaks, RecoverSpeaks DEF Decide, Results
    <3> QED
      BY <1>3, <3>1, PlainTalk DEF Decide
  <2> QED
    BY <2>1, <2>2
<1> QED
  BY <1>2, <1>3

LEMMA WaitsKeep ==
  ASSUME Locks, NEW c \in Callers, NothingToHalt(c) \/ WaitStopped(c) \/ WaitRunning(c)
  PROVE  Locks'
<1>1. TypeOK /\ call[c].at # "holding"
  BY DEF Locks, NothingToHalt, WaitStopped, WaitRunning, At
<1>2. CASE NothingToHalt(c)
  BY <1>1, <1>2, GoSpeaks, PlainTalk DEF NothingToHalt, Steps
<1>3. CASE WaitStopped(c)
  <2>1. CASE UNCHANGED operation /\
             call' = [call EXCEPT ![c].at = "restore", ![c].phase = "undo"]
    <3>1. call[c] \in Call
      BY <1>1 DEF TypeOK
    <3>2. /\ [call[c] EXCEPT !.at = "restore", !.phase = "undo"] \in Call
          /\ [call[c] EXCEPT !.at = "restore", !.phase = "undo"].at = "restore"
      BY <3>1 DEF Call, Steps, Phases
    <3>3. call' = [call EXCEPT ![c] = [call[c] EXCEPT !.at = "restore", !.phase = "undo"]]
      BY <1>1, <2>1 DEF TypeOK
    <3> QED
      BY <1>1, <1>3, <2>1, <3>2, <3>3, StepSpeaks, PlainTalk DEF Says, WaitStopped
  <2>2. CASE (Go(c, "change") \/ Go(c, "ping")) /\ UNCHANGED operation
    BY <1>1, <1>3, <2>2, GoSpeaks, PlainTalk DEF WaitStopped, Steps
  <2>3. CASE Look(c, "blame") /\ UNCHANGED operation
    BY <1>1, <1>3, <2>3, LookSpeaks, PlainTalk DEF WaitStopped, Phases
  <2>4. CASE Finish(c, "ok") \/ Finish(c, "unrecovered") \/ Finish(c, "unconfirmed")
    BY <1>1, <1>3, <2>4, FinishSpeaks, PlainTalk DEF WaitStopped, Results
  <2> QED
    BY <1>3, <2>1, <2>2, <2>3, <2>4 DEF WaitStopped
<1>4. CASE WaitRunning(c)
  BY <1>1, <1>4, FinishSpeaks, FailedSpeaks, PlainTalk DEF WaitRunning, Results
<1> QED
  BY <1>2, <1>3, <1>4

\* A Shutdown that reaches the daemon behind the socket.
LEMMA ShutdownKeeps ==
  ASSUME Locks, NEW c \in Callers, Shutdown(c)
  PROVE  Locks'
<1> USE HeldAndCounted
<1>1. TypeOK /\ call[c].at # "holding"
  BY DEF Locks, Shutdown, At
<1>2. Speaks(c)
  <2>1. Draining(call[c].phase) \in Phases
    BY DEF Draining, Phases
  <2> QED
    BY <1>1, <2>1, LookSpeaks DEF Shutdown
<1>3. UNCHANGED <<lock, endpoint, unit, counters>>
  BY DEF Shutdown
<1>4. Held'
  <2>1. CASE UNCHANGED proc
    BY <1>3, <2>1, StillHeld
  <2>2. CASE endpoint \in Procs /\ proc[endpoint].at = "serving" /\ To(endpoint, "stopping")
    BY <1>3, <2>2, ToTyped DEF Held, Owned, EndpointIsOwners, Listening, ProcStages
  <2>3. CASE endpoint \in Procs /\ proc' = [proc EXCEPT ![endpoint].doomed = TRUE]
    <3>1. proc[endpoint] \in Process
      BY <2>3 DEF Held
    <3>2. [proc[endpoint] EXCEPT !.doomed = TRUE] \in Process
      BY <3>1 DEF Process
    <3>3. proc' \in [Procs -> Process] /\ \A q \in Procs : proc'[q].at = proc[q].at
      BY <2>3, <3>1, <3>2 DEF Held, Process
    <3> QED
      BY <1>3, <3>3 DEF Held, Owned, EndpointIsOwners, Listening
  <2> QED
    BY <2>1, <2>2, <2>3 DEF Shutdown
<1>5. Counted'
  BY <1>3 DEF Counted, counters
<1> QED
  BY <1>2, <1>3, <1>4, <1>5, Talk

\* systemctl stop signals the manager's process, which may end at once.
LEMMA SignalledIs ==
  ASSUME Held, NEW p \in Procs
  PROVE  /\ Signalled[p] \in Process
         /\ Signalled[p].managed = proc[p].managed /\ Signalled[p].doomed = proc[p].doomed
         /\ \/ Signalled[p] = proc[p]
            \/ proc[p].managed /\ Alive(p) /\ Signalled[p].at = "gone"
            \/ proc[p].managed /\ proc[p].at = "serving" /\ Signalled[p].at = "stopping"
         /\ proc[p].managed => Signalled[p].at \in {"stopping", "closed", "gone"}
<1>1. proc[p] \in Process
  BY DEF Held
<1>2. CASE ~proc[p].managed \/ ~Alive(p)
  BY <1>1, <1>2 DEF Signalled, Alive
<1>3. CASE proc[p].managed /\ Alive(p)
  <2> DEFINE next == IF proc[p].at = "serving" THEN "stopping"
                     ELSE IF proc[p].at \in {"stopping", "closed"} THEN proc[p].at ELSE "gone"
  <2>1. Signalled[p] = [proc[p] EXCEPT !.at = next]
    BY <1>3 DEF Signalled
  <2> QED
    BY <1>1, <1>3, <2>1 DEF Process, ProcStages
<1> QED
  BY <1>2, <1>3

LEMMA HaltServiceKeeps ==
  ASSUME Locks, NEW c \in Callers, HaltService(c)
  PROVE  Locks'
<1> USE HeldAndCounted
<1>1. TypeOK /\ call[c].at # "holding"
  BY DEF Locks, HaltService, At
<1>2. CASE Fault /\ StopFailed(c) /\ UNCHANGED <<proc, lock, unit>>
  <2>1. Speaks(c) /\ Counted'
    BY <1>1, <1>2, StopFailedSpeaks, FaultCounted DEF HaltService
  <2> QED
    BY <1>2, <2>1, JustTalk DEF HaltService
<1>3. CASE /\ proc' = Signalled /\ Go(c, "halting") /\ UNCHANGED <<operation, faults>>
           /\ lock' = IF lock \in Procs /\ Signalled[lock].at = "gone" THEN Nobody ELSE lock
           /\ unit' = [unit EXCEPT !.active =
                IF \E p \in Procs : proc[p].managed /\ Signalled[p].at # "gone"
                THEN "ending" ELSE "off"]
  <2>1. Speaks(c)
    BY <1>1, <1>3, GoSpeaks DEF Steps
  <2>2. UNCHANGED endpoint /\ Counted'
    BY <1>3 DEF HaltService, Counted
  <2>3. proc' \in [Procs -> Process]
    <3>1. \A p \in Procs : Signalled[p] \in Process
      BY SignalledIs
    <3> QED
      BY <1>3, <3>1 DEF Signalled
  <2>4. Owned'
    <3> SUFFICES ASSUME NEW p \in Procs
                 PROVE  proc'[p].at \notin {"forked", "gone"} <=> lock' = p
      BY DEF Owned
    <3>1. proc[p].at \notin {"forked", "gone"} <=> lock = p
      BY DEF Held, Owned
    <3> QED
      BY <1>3, <3>1, SignalledIs, WhoAssumption DEF Alive
  <2>5. EndpointIsOwners'
    <3> SUFFICES ASSUME NEW p \in Procs, Listening(p)' PROVE lock' = p /\ endpoint' = p
      BY DEF EndpointIsOwners
    <3>1. Listening(p) /\ proc'[p].at # "gone"
      BY <1>3, SignalledIs DEF Listening
    <3> QED
      BY <1>3, <2>2, <3>1 DEF Held, EndpointIsOwners
  <2>6. unit' \in Units
    BY <1>3 DEF Units
  <2> QED
    BY <1>3, <2>1, <2>2, <2>3, <2>4, <2>5, <2>6, Talk DEF Held
<1> QED
  BY <1>2, <1>3 DEF HaltService

LEMMA HaltedKeeps ==
  ASSUME Locks, NEW c \in Callers, Halted(c)
  PROVE  Locks'
<1>1. TypeOK /\ call[c].at # "holding"
  BY DEF Locks, Halted, At
<1>2. CASE ~ManagerRuns
  <2>1. Speaks(c)
    BY <1>1, <1>2, GoSpeaks DEF Halted, Steps
  <2>2. UNCHANGED counters
    BY <1>2 DEF Halted, counters
  <2> QED
    BY <2>1, <2>2, PlainTalk DEF Halted
<1>3. CASE ManagerRuns
  <2>1. Speaks(c) /\ Counted'
    BY <1>1, <1>3, StopFailedSpeaks, FaultCounted, HeldAndCounted DEF Halted
  <2> QED
    BY <2>1, JustTalk, HeldAndCounted DEF Halted
<1> QED
  BY <1>2, <1>3

LEMMA SpawnKeeps ==
  ASSUME Locks, NEW c \in Callers, Spawn(c)
  PROVE  Locks'
<1>1. TypeOK /\ call[c].at # "holding"
  BY DEF Locks, Spawn, At
<1>2. Speaks(c)
  BY <1>1, GoSpeaks DEF Spawn, Steps
<1>3. PICK p \in Procs : Free(p) /\ proc' = Fork(p, FALSE, Current)
  BY DEF Spawn
<1>4. Held' /\ Counted' /\ unit' \in Units
  BY <1>3, HeldAndCounted, ForkHeld DEF Spawn, Current, Counted, counters
<1> QED
  BY <1>2, <1>4, Talk DEF Spawn

LEMMA StartUnitKeeps ==
  ASSUME Locks, NEW c \in Callers, StartUnit(c)
  PROVE  Locks'
<1> USE HeldAndCounted
<1>1. TypeOK /\ call[c].at # "holding"
  BY DEF Locks, StartUnit, At
<1>2. Speaks(c)
  BY <1>1, GoSpeaks, FailedSpeaks DEF StartUnit, Steps
<1>3. Counted'
  BY FaultCounted DEF StartUnit, Counted
<1>4. CASE UNCHANGED <<proc, unit>>
  BY <1>2, <1>3, <1>4, JustTalk DEF StartUnit
<1>5. CASE /\ \E p \in Procs, api \in ApiOf(unit) : Free(p) /\ proc' = Fork(p, TRUE, api)
           /\ unit' = [unit EXCEPT !.active = "on"]
  <2>1. PICK p \in Procs, api \in ApiOf(unit) : Free(p) /\ proc' = Fork(p, TRUE, api)
    BY <1>5
  <2>2. Held' /\ unit' \in Units
    BY <1>5, <2>1, ApisTyped, ForkHeld DEF StartUnit, Units
  <2> QED
    BY <1>2, <1>3, <2>2, Talk DEF StartUnit
<1> QED
  BY <1>4, <1>5 DEF StartUnit

LEMMA UnitStepsKeep ==
  ASSUME Locks, NEW c \in Callers,
         InstallUnit(c) \/ SetEnabled(c) \/ RemoveUnit(c) \/ Restore(c)
  PROVE  Locks'
<1> USE HeldAndCounted
<1>1. TypeOK /\ call[c] \in Call /\ call[c].at # "holding"
  BY DEF Locks, TypeOK, InstallUnit, SetEnabled, RemoveUnit, Restore, At
<1>2. CASE InstallUnit(c)
  <2>1. Speaks(c) /\ Counted'
    BY <1>1, <1>2, GoSpeaks, FailedSpeaks, FaultCounted DEF InstallUnit, Steps, Counted
  <2>2. unit' \in Units
    BY <1>2 DEF InstallUnit, RolledBack, Units, Definitions
  <2> QED
    BY <1>2, <2>1, <2>2, JustTalk DEF InstallUnit
<1>3. CASE SetEnabled(c)
  <2>1. Speaks(c) /\ Counted'
    BY <1>1, <1>3, GoSpeaks, FailedSpeaks, FaultCounted DEF SetEnabled, Steps, Counted
  <2>2. unit' \in Units
    BY <1>1, <1>3 DEF SetEnabled, Units, Call, Saved
  <2> QED
    BY <1>3, <2>1, <2>2, JustTalk DEF SetEnabled
<1>4. CASE RemoveUnit(c)
  <2>1. Speaks(c) /\ Counted'
    BY <1>1, <1>4, LookSpeaks, FinishSpeaks, FaultCounted
       DEF RemoveUnit, Phases, Results, Counted
  <2>2. unit' \in Units
    BY <1>4 DEF RemoveUnit, Units, Definitions
  <2> QED
    BY <1>4, <2>1, <2>2, JustTalk DEF RemoveUnit
<1>5. CASE Restore(c)
  <2>1. Speaks(c) /\ Counted'
    BY <1>1, <1>5, GoSpeaks, FinishSpeaks, FaultCounted
       DEF Restore, AfterRestore, Steps, Results, Counted
  <2>2. unit' \in Units
    BY <1>1, <1>5 DEF Restore, Units, Call, Saved
  <2> QED
    BY <1>5, <2>1, <2>2, JustTalk DEF Restore
<1> QED
  BY <1>2, <1>3, <1>4, <1>5

LEMMA CallsKeepLocks ==
  ASSUME Locks, Calls
  PROVE  Locks'
<1>1. Commands \ {"run"} \subseteq AllCommands \ {"run"}
  BY CommandsAssumption
<1> QED
  BY <1>1, BeginKeeps, PresenceKeeps, ProbeKeeps, UnlockKeeps, DecisionsKeep, WaitsKeep,
     ShutdownKeeps, HaltServiceKeeps, HaltedKeeps, SpawnKeeps, StartUnitKeeps, UnitStepsKeep
     DEF Calls

LEMMA StutterKeeps ==
  ASSUME Locks, UNCHANGED vars
  PROVE  Locks'
<1>1. Held' /\ Counted' /\ unit' \in Units
  BY HeldAndCounted, StillHeld DEF vars, counters, Counted
<1> QED
  BY <1>1, Tick DEF vars

LEMMA InitLocks == Init => Locks
<1> SUFFICES ASSUME Init PROVE Locks
  OBVIOUS
<1> USE WhoAssumption
<1>1. PICK service \in BOOLEAN, enabled \in BOOLEAN, runs \in BOOLEAN, managed \in BOOLEAN,
           api \in Apis, p \in Procs :
       /\ managed => service /\ runs
       /\ enabled => service
       /\ proc = [q \in Procs |->
            [at |-> IF q = p /\ runs THEN "serving" ELSE "gone",
             managed |-> q = p /\ managed, api |-> IF q = p /\ runs THEN api ELSE Current,
             doomed |-> FALSE]]
       /\ lock = IF runs THEN p ELSE Nobody
       /\ endpoint = IF runs THEN p ELSE Nobody
       /\ unit = [file |-> IF service THEN "prior" ELSE "none",
                  loaded |-> IF service THEN "prior" ELSE "none",
                  enabled |-> enabled, active |-> IF managed THEN "on" ELSE "off"]
  BY DEF Init
<1>2. operation = Nobody /\ call = [c \in Callers |-> Idle] /\ Counted
  BY BoundsAssumption DEF Init, Counted
<1>3. \A q \in Procs :
        /\ proc[q].at = IF q = p /\ runs THEN "serving" ELSE "gone"
        /\ proc[q].at \in ProcStages /\ proc[q].doomed \in BOOLEAN
  BY <1>1 DEF ProcStages
<1>4. \A q \in Procs : proc[q] \in Process
  <2> TAKE q \in Procs
  <2>1. (q = p /\ managed) \in BOOLEAN
    OBVIOUS
  <2>2. (IF q = p /\ runs THEN api ELSE Current) \in Nat
    BY ApisAssumption DEF Current
  <2>3. (IF q = p /\ runs THEN "serving" ELSE "gone") \in ProcStages
    BY DEF ProcStages
  <2>4. proc[q] = [at |-> IF q = p /\ runs THEN "serving" ELSE "gone",
             managed |-> q = p /\ managed, api |-> IF q = p /\ runs THEN api ELSE Current,
             doomed |-> FALSE]
    BY <1>1
  <2> QED
    BY <2>1, <2>2, <2>3, <2>4 DEF Process
<1>5. proc \in [Procs -> Process]
  BY <1>1, <1>4
<1>6. Owned /\ EndpointIsOwners
  BY <1>1, <1>3 DEF Owned, EndpointIsOwners, Listening
<1>7. Probing /\ \A c \in Callers : call[c] = Idle
  BY <1>1, <1>2 DEF Probing, At, Idle
<1>8. unit \in Units
  BY <1>1 DEF Units, Definitions
<1>9. call \in [Callers -> Call]
  BY <1>2, IdleCall
<1>10. lock \in Procs => Alive(lock)
  BY <1>1, <1>3 DEF Alive
<1> QED
  BY <1>1, <1>2, <1>5, <1>6, <1>7, <1>8, <1>9, <1>10 DEF Locks, TypeOK, Units, Counted, Process

\* The profile has one endpoint, its owner's, whatever daemons and commands do.
THEOREM EndpointIsTheOwners == Spec => []EndpointIsOwners
<1>1. Locks /\ [Next]_vars => Locks'
  BY DaemonsKeepLocks, CallsKeepLocks, StutterKeeps DEF Next
<1>2. Locks => EndpointIsOwners
  BY DEF Locks
<1> QED
  BY InitLocks, <1>1, <1>2, PTL DEF Spec
-----------------------------------------------------------------------------
(***************************************************************************)
(* Which owner a command replaces, and the way it takes.                   *)
(***************************************************************************)
\* A process that somebody still refers to is not started again.
Kept ==
  \A p \in Procs : ~Free(p) =>
    /\ proc[p].at # "forked" => proc'[p].at # "forked"
    /\ ~Alive(p) => ~Alive(p)'

LEMMA ToKept ==
  ASSUME Held, NEW p \in Procs, NEW stage \in ProcStages \ {"forked"}, Alive(p), To(p, stage)
  PROVE  Kept
  BY ToTyped DEF Kept, Alive

LEMMA ForkKept ==
  ASSUME Held, NEW p \in Procs, NEW managed, NEW api, Free(p), proc' = Fork(p, managed, api)
  PROVE  Kept
  BY DEF Kept, Alive, Fork, Held

LEMMA SameKept == UNCHANGED proc => Kept
  BY DEF Kept, Alive

LEMMA DaemonsKept ==
  ASSUME Held, Daemons
  PROVE  Kept
<1>1. PICK p \in Procs :
         \/ TakeLock(p) \/ CheckEndpoint(p) \/ Bind(p) \/ Serve(p) \/ Heed(p)
         \/ CloseListener(p) \/ Exit(p) \/ Crash(p) \/ ManagerRestarts(p) \/ RunByHand(p)
  BY DEF Daemons
<1>2. CASE TakeLock(p) \/ CheckEndpoint(p) \/ Bind(p)
  <2>1. Alive(p) /\ \E stage \in ProcStages \ {"forked"} : To(p, stage)
    BY <1>2 DEF TakeLock, CheckEndpoint, Bind, Alive, ProcStages
  <2> QED
    BY <2>1, ToKept
<1>3. CASE Serve(p) \/ Heed(p) \/ CloseListener(p) \/ Exit(p) \/ Crash(p)
  <2>1. Alive(p) /\ \E stage \in ProcStages \ {"forked"} : To(p, stage)
    BY <1>3 DEF Serve, Heed, CloseListener, Exit, Crash, Alive, ProcStages
  <2> QED
    BY <2>1, ToKept
<1>4. CASE ManagerRestarts(p)
  BY <1>4, ForkKept DEF ManagerRestarts
<1>5. CASE RunByHand(p)
  BY <1>5, ForkKept DEF RunByHand
<1> QED
  BY <1>1, <1>2, <1>3, <1>4, <1>5

LEMMA HaltServiceKept ==
  ASSUME Held, NEW c \in Callers, HaltService(c)
  PROVE  Kept
<1>1. CASE UNCHANGED proc
  BY <1>1, SameKept
<1>2. CASE proc' = Signalled
  BY <1>2, SignalledIs DEF Kept, Alive
<1> QED
  BY <1>1, <1>2 DEF HaltService

LEMMA ShutdownKept ==
  ASSUME Held, NEW c \in Callers, Shutdown(c)
  PROVE  Kept
<1>1. CASE UNCHANGED proc
  BY <1>1, SameKept
<1>2. CASE endpoint \in Procs /\ proc[endpoint].at = "serving" /\ To(endpoint, "stopping")
  BY <1>2, ToKept DEF ProcStages, Alive
<1>3. CASE endpoint \in Procs /\ proc' = [proc EXCEPT ![endpoint].doomed = TRUE]
  <2>1. proc[endpoint] \in Process
    BY <1>3 DEF Held
  <2>2. \A q \in Procs : proc'[q].at = proc[q].at
    BY <1>3, <2>1 DEF Held, Process
  <2> QED
    BY <2>2 DEF Kept, Alive
<1> QED
  BY <1>1, <1>2, <1>3 DEF Shutdown

LEMMA SpawnKept ==
  ASSUME Held, NEW c \in Callers, Spawn(c) \/ StartUnit(c)
  PROVE  Kept
<1>1. CASE Spawn(c)
  BY <1>1, ForkKept DEF Spawn
<1>2. CASE StartUnit(c) /\ UNCHANGED proc
  BY <1>2, SameKept
<1>3. CASE StartUnit(c) /\ \E p \in Procs, api \in ApiOf(unit) :
             Free(p) /\ proc' = Fork(p, TRUE, api)
  BY <1>3, ForkKept
<1> QED
  BY <1>1, <1>2, <1>3 DEF StartUnit

\* What the next record of a command must fulfil.
Advances(c, k) ==
  /\ Says(c, k) /\ Route(k) /\ Remembers(k)
  /\ \A p \in k.owners : p \in call[c].owners \/ p = lock
  /\ Absent(k) => \/ k.owners = {} \/ lock = Nobody
                  \/ Absent(call[c]) /\ k.owners = call[c].owners
  /\ operation' = c <=> k.phase \notin {"status", "first"}
  /\ operation' # operation => operation \in {c, Nobody} /\ operation' \in {c, Nobody}
  /\ call[c].at # "idle" /\ call[c].op \in {"stop", "uninstall"} /\ k.result = "ok" =>
       Absent(call[c])

LEMMA CallFlows ==
  ASSUME Locks, OwnersKnown, Flow, Kept, NEW c \in Callers, NEW k, Advances(c, k)
  PROVE  OwnersKnown' /\ Flow'
<1>1. /\ call \in [Callers -> Call] /\ call'[c] = k /\ k \in Call
      /\ \A d \in Callers \ {c} : call'[d] = call[d]
  BY DEF Locks, TypeOK, Advances, Says
<1>2. \A d \in Callers : call[d].owners \subseteq Procs
  BY <1>1 DEF Call
<1>3. \A d \in Callers : \A p \in call[d].owners : ~Free(p)
  BY DEF Free
<1>4. \A p \in Procs : p = lock => ~Free(p) /\ proc[p].at # "forked"
  BY DEF Locks, Owned, Free, Alive
<1>5. ASSUME NEW d \in Callers, NEW p \in call'[d].owners
      PROVE  proc'[p].at # "forked" /\ (Absent(call[d])' => ~Alive(p)')
  <2>1. CASE d # c
    <3>1. call'[d] = call[d] /\ p \in Procs /\ ~Free(p)
      BY <1>1, <1>2, <1>3, <1>5, <2>1
    <3>2. proc[p].at # "forked" /\ (Absent(call[d]) => ~Alive(p))
      BY <1>5, <3>1 DEF OwnersKnown
    <3> QED
      BY <3>1, <3>2 DEF Kept, Absent
  <2>2. CASE d = c
    <3>1. p \in k.owners /\ p \in Procs
      BY <1>1, <1>5, <2>2 DEF Call
    <3>2. ~Free(p) /\ proc[p].at # "forked"
      BY <1>3, <1>4, <3>1 DEF Advances, OwnersKnown
    <3>3. Absent(k) => ~Alive(p)
      <4>1. lock = Nobody => ~Alive(p)
        BY <3>1, <3>2, WhoAssumption DEF Locks, Owned, Alive
      <4>2. Absent(call[c]) /\ p \in call[c].owners => ~Alive(p)
        BY DEF OwnersKnown
      <4> QED
        BY <3>1, <4>1, <4>2 DEF Advances
    <3> QED
      BY <1>1, <2>2, <3>1, <3>2, <3>3 DEF Kept, Absent
  <2> QED
    BY <2>1, <2>2
<1>6. ASSUME NEW d \in Callers
      PROVE  /\ Route(call'[d]) /\ Remembers(call'[d])
             /\ operation' = d <=> call'[d].phase \notin {"status", "first"}
  <2>1. CASE d # c
    BY <1>1, <2>1, WhoAssumption DEF Advances, Flow
  <2>2. CASE d = c
    BY <1>1, <2>2 DEF Advances
  <2> QED
    BY <2>1, <2>2
<1> QED
  BY <1>5, <1>6 DEF OwnersKnown, Flow, Route, Remembers

LEMMA DaemonsFlow ==
  ASSUME Locks, OwnersKnown, Flow, Kept, UNCHANGED <<call, operation>>
  PROVE  OwnersKnown' /\ Flow'
<1>1. \A d \in Callers : call[d].owners \subseteq Procs
  BY DEF Locks, TypeOK, Call
<1>2. \A d \in Callers : \A p \in call[d].owners : ~Free(p)
  BY DEF Free
<1> QED
  BY <1>1, <1>2 DEF OwnersKnown, Flow, Kept, Absent, Route, Remembers

LEMMA FlowOf ==
  ASSUME Locks, Flow, NEW c \in Callers
  PROVE  /\ call[c] \in Call /\ Route(call[c]) /\ Remembers(call[c]) /\ TypeOK
         /\ operation = c <=> call[c].phase \notin {"status", "first"}
  BY DEF Locks, TypeOK, Flow

LEMMA FinishAdvances ==
  ASSUME Locks, Flow, NEW c \in Callers, NEW r \in Results, Finish(c, r),
         r # "ok" \/ call[c].op \notin {"stop", "uninstall"} \/ Absent(call[c])
  PROVE  Advances(c, Ended(c, r))
<1> DEFINE k == Ended(c, r)
<1>1. Says(c, k) /\ operation' = IF operation = c THEN Nobody ELSE operation
  BY FinishSays, FlowOf
<1>2. /\ k.at = "idle" /\ k.phase = "status" /\ k.owners = {} /\ k.result = r
      /\ ~k.before.running /\ ~k.before.managed
  BY DEF Ended, Idle, NotBefore
<1>3. Route(k) /\ Remembers(k)
  BY <1>2 DEF Route, Remembers
<1> QED
  BY <1>1, <1>2, <1>3, WhoAssumption DEF Advances

LEMMA RecoverAdvances ==
  ASSUME Locks, Flow, NEW c \in Callers, Recover(c), call[c].at # "idle",
         call[c].op \in Replacing, call[c].phase \notin {"status", "prepare"}
  PROVE  Advances(c, [call[c] EXCEPT !.at = "halt", !.phase = "undo"])
<1> DEFINE k == [call[c] EXCEPT !.at = "halt", !.phase = "undo"]
<1>1. Says(c, k) /\ UNCHANGED operation
  BY RecoverSays, FlowOf
<1>2. /\ k.at = "halt" /\ k.phase = "undo" /\ k.op = call[c].op /\ k.before = call[c].before
      /\ k.owners = call[c].owners /\ k.result = call[c].result
  BY FlowOf DEF Call
<1>3. Route(k) /\ Remembers(k) /\ call[c].phase # "first"
  BY <1>2, FlowOf DEF Route, Remembers, Replacing
<1> QED
  BY <1>1, <1>2, <1>3, FlowOf DEF Advances, Absent, After, Remembers

LEMMA FailedAdvances ==
  ASSUME Locks, Flow, NEW c \in Callers, Failed(c),
         call[c].at \in {"change", "spawn", "start", "enable", "await"}
  PROVE  \E k : Advances(c, k)
<1>1. \/ call[c].op = "start"
      \/ call[c].op \in Replacing /\ call[c].phase \in {"stop", "drain", "undo"}
  BY FlowOf DEF Route, Looks
<1> QED
  BY <1>1, FinishAdvances, RecoverAdvances DEF Failed, Results

LEMMA StopFailedAdvances ==
  ASSUME Locks, Flow, NEW c \in Callers, StopFailed(c), call[c].at \in {"halt", "halting"}
  PROVE  \E k : Advances(c, k)
<1>1. CASE call[c].phase \in {"undo", "removed"} \/ ~call[c].before.running
  BY <1>1, FinishAdvances, FlowOf DEF StopFailed, Results, Call, Before
<1>2. CASE call[c].phase \notin {"undo", "removed"} /\ call[c].before.running
  <2> DEFINE k == [call[c] EXCEPT !.at = "ping", !.phase = "blame"]
  <2>1. Says(c, k) /\ UNCHANGED operation
    BY <1>2, LookSays, FlowOf DEF StopFailed, Phases
  <2>2. /\ k.at = "ping" /\ k.phase = "blame" /\ k.op = call[c].op /\ k.before = call[c].before
        /\ k.owners = call[c].owners /\ k.result = call[c].result
    BY FlowOf DEF Call
  <2>3. call[c].op \in Replacing /\ call[c].phase = "stop"
    BY <1>2, FlowOf DEF Route, Looks, Remembers
  <2>4. Route(k) /\ Remembers(k)
    BY <2>2, <2>3, FlowOf DEF Route, Remembers, Looks
  <2> QED
    BY <2>1, <2>2, <2>3, <2>4, FlowOf DEF Advances, Absent, After, Remembers
<1> QED
  BY <1>1, <1>2

\* A command that goes on with what it is at.
LEMMA GoAdvances ==
  ASSUME Locks, Flow, NEW c \in Callers, NEW step \in Steps \ {"idle", "judge"}, Go(c, step),
         UNCHANGED operation, call[c].at # "idle",
         Route([call[c] EXCEPT !.at = step]),
         step \in {"start", "enable"} => Remembers([call[c] EXCEPT !.at = step]),
         step \in After => Absent(call[c]) \/ lock = Nobody
  PROVE  Advances(c, [call[c] EXCEPT !.at = step])
<1> DEFINE k == [call[c] EXCEPT !.at = step]
<1>1. Says(c, k)
  BY GoSays, FlowOf
<1>2. /\ k.at = step /\ k.phase = call[c].phase /\ k.op = call[c].op
      /\ k.before = call[c].before /\ k.seen = call[c].seen
      /\ k.owners = call[c].owners /\ k.result = call[c].result
  BY FlowOf DEF Call
<1>3. Remembers(k)
  BY <1>2, FlowOf DEF Remembers
<1>4. Absent(k) => step \in After
  BY <1>2 DEF Absent
<1> QED
  BY <1>1, <1>2, <1>3, <1>4, FlowOf DEF Advances, Absent, Remembers

LEMMA BeginAdvances ==
  ASSUME Locks, Flow, NEW c \in Callers, NEW op \in AllCommands \ {"run"}, Begin(c, op)
  PROVE  \E k : Advances(c, k)
<1>1. call[c].at = "idle" /\ call[c].phase = "status" /\ operation # c
  BY FlowOf DEF Begin, At, Route, Looks
<1>2. CASE op \in {"start", "status"} /\ Says(c, Asking(op)) /\ UNCHANGED operation
  <2> DEFINE k == Asking(op)
  <2>1. /\ k.op = op /\ k.at = "ping" /\ k.owners = {} /\ k.result = "none"
        /\ ~k.before.running /\ ~k.before.managed
        /\ k.phase = IF op = "start" THEN "first" ELSE "status"
    BY DEF Asking, Idle, NotBefore
  <2>2. Route(k) /\ Remembers(k)
    BY <1>2, <2>1 DEF Route, Remembers, Looks, Replacing
  <2> QED
    BY <1>1, <1>2, <2>1, <2>2 DEF Advances
<1>3. ASSUME NEW r \in {"busy", "unavailable"}, UNCHANGED operation,
             Says(c, [Idle EXCEPT !.op = op, !.result = r])
      PROVE  \E k : Advances(c, k)
  <2> DEFINE k == [Idle EXCEPT !.op = op, !.result = r]
  <2>1. /\ k.op = op /\ k.at = "idle" /\ k.owners = {} /\ k.phase = "status"
        /\ ~k.before.running /\ ~k.before.managed
    BY DEF Idle, NotBefore
  <2>2. Route(k) /\ Remembers(k)
    BY <2>1 DEF Route, Remembers
  <2> QED
    BY <1>1, <1>3, <2>1, <2>2 DEF Advances
<1>4. CASE /\ op \notin {"start", "status"} /\ operation = Nobody /\ operation' = c
           /\ Says(c, Changing(op))
  <2> DEFINE k == Changing(op)
  <2>1. /\ k.op = op /\ k.result = "none" /\ k.owners = {lock} \cap Procs
        /\ ~k.before.running
        /\ k.phase = IF op = "stop" THEN "stop"
                     ELSE IF op = "uninstall" THEN "removed" ELSE "prepare"
        /\ k.at = IF op \in {"stop", "uninstall"} THEN "halt" ELSE "ping"
    BY DEF Changing, Idle
  <2>2. Route(k) /\ Remembers(k) /\ ~Absent(k)
    BY <1>4, <2>1 DEF Route, Remembers, Looks, Replacing, AllCommands, Absent, After
  <2> QED
    BY <1>1, <1>4, <2>1, <2>2, WhoAssumption DEF Advances
<1> QED
  BY <1>2, <1>3, <1>4, BeginSays DEF Locks

LEMMA PresenceAdvances ==
  ASSUME Locks, Flow, NEW c \in Callers,
         Ping(c) \/ Probe(c) \/ Unlock(c) \/ Connect(c)
  PROVE  \E k : Advances(c, k)
<1>1. call[c].at \in {"ping", "probe", "holding", "connect"}
  BY DEF Ping, Probe, Unlock, Connect, At
<1>2. UNCHANGED operation
  BY DEF Ping, Probe, Unlock, Connect
<1>3. ASSUME NEW step \in Looks \ {"judge"}, Go(c, step),
             step \in After => Absent(call[c]) \/ lock = Nobody
      PROVE  \E k : Advances(c, k)
  <2>1. Route([call[c] EXCEPT !.at = step])
    BY <1>1, FlowOf DEF Route, Looks, Call
  <2> QED
    BY <1>1, <1>2, <1>3, <2>1, GoAdvances DEF Looks, Steps
<1>4. ASSUME NEW seen \in {"Running", "Unresponsive", "Stopped"}, Judge(c, seen),
             seen = "Stopped" => Absent(call[c])
      PROVE  \E k : Advances(c, k)
  <2> DEFINE k == [call[c] EXCEPT !.at = "judge", !.seen = seen]
  <2>1. Says(c, k)
    BY <1>4, JudgeSays, FlowOf
  <2>2. /\ k.at = "judge" /\ k.seen = seen /\ k.phase = call[c].phase /\ k.op = call[c].op
        /\ k.before = call[c].before /\ k.owners = call[c].owners /\ k.result = call[c].result
    BY FlowOf DEF Call
  <2>3. Route(k) /\ Remembers(k)
    BY <1>1, <2>2, FlowOf DEF Route, Remembers, Looks
  <2> QED
    BY <1>1, <1>2, <1>4, <2>1, <2>2, <2>3, FlowOf DEF Advances, Absent, After, Remembers
<1>5. CASE Ping(c)
  BY <1>3, <1>4, <1>5 DEF Ping, Looks, After
<1>6. CASE Probe(c)
  BY <1>3, <1>4, <1>6 DEF Probe, Looks, After
<1>7. CASE Unlock(c)
  BY <1>3, <1>7 DEF Unlock, Looks, After, Absent, At
<1>8. CASE Connect(c)
  BY <1>4, <1>8 DEF Connect, After, Absent, At
<1> QED
  BY <1>5, <1>6, <1>7, <1>8

LEMMA DecideStartAdvances ==
  ASSUME Locks, Flow, NEW c \in Callers, DecideStart(c)
  PROVE  \E k : Advances(c, k)
<1>1. call[c].at = "judge" /\ call[c].phase \in {"first", "second"} /\ call[c].op = "start"
  BY FlowOf DEF DecideStart, At, Route
<1>2. ASSUME NEW r \in Results, Finish(c, r) PROVE \E k : Advances(c, k)
  BY <1>1, <1>2, FinishAdvances
<1>3. ASSUME NEW step \in {"start", "spawn"}, Go(c, step), UNCHANGED operation,
             call[c].phase = "second", call[c].seen = "Stopped"
      PROVE  \E k : Advances(c, k)
  <2>1. Absent(call[c])
    BY <1>1, <1>3 DEF Absent
  <2>2. Route([call[c] EXCEPT !.at = step]) /\ Remembers([call[c] EXCEPT !.at = step])
    BY <1>1, <1>3, FlowOf DEF Route, Remembers, Call, Replacing
  <2> QED
    BY <1>1, <1>3, <2>1, <2>2, GoAdvances DEF Steps
<1>4. ASSUME operation = Nobody, Look(c, "second"), operation' = c
      PROVE  \E k : Advances(c, k)
  <2> DEFINE k == [call[c] EXCEPT !.at = "ping", !.phase = "second"]
  <2>1. Says(c, k)
    BY <1>4, LookSays, FlowOf DEF Phases
  <2>2. /\ k.at = "ping" /\ k.phase = "second" /\ k.op = call[c].op /\ k.before = call[c].before
        /\ k.owners = call[c].owners /\ k.result = call[c].result
    BY FlowOf DEF Call
  <2>3. Route(k) /\ Remembers(k)
    BY <1>1, <2>2, FlowOf DEF Route, Remembers, Looks, Replacing
  <2> QED
    BY <1>1, <1>4, <2>1, <2>2, <2>3, FlowOf DEF Advances, Absent, After, Remembers
<1> QED
  BY <1>2, <1>3, <1>4 DEF DecideStart, Results

LEMMA DecideAdvances ==
  ASSUME Locks, Flow, NEW c \in Callers, Decide(c)
  PROVE  \E k : Advances(c, k)
<1>1. call[c].at = "judge"
  BY DEF Decide, At
<1>2. CASE call[c].phase = "status" /\ Finish(c, "ok")
  <2>1. call[c].op = "status"
    BY <1>1, <1>2, FlowOf DEF Route
  <2> QED
    BY <1>2, <2>1, FinishAdvances DEF Results
<1>3. CASE call[c].phase = "prepare"
  <2> DEFINE running == call[c].seen # "Stopped" \/ call[c].before.managed
  <2> DEFINE k == [call[c] EXCEPT
              !.before.running = running, !.phase = "stop",
              !.at = IF running \/ call[c].op = "restart" THEN "halt" ELSE "change"]
  <2>1. call[c] \in Call /\ running \in BOOLEAN
    BY FlowOf
  <2>2. /\ [call[c].before EXCEPT !.running = running] \in Before
        /\ [call[c].before EXCEPT !.running = running].managed = call[c].before.managed
        /\ [call[c].before EXCEPT !.running = running].running = running
    BY <2>1 DEF Call, Before
  <2>3. /\ k \in Call /\ k.at \in {"halt", "change"} /\ k.phase = "stop" /\ k.op = call[c].op
        /\ k.before = [call[c].before EXCEPT !.running = running]
        /\ k.owners = call[c].owners /\ k.result = call[c].result
        /\ k.at = "change" => ~running
    BY <2>1, <2>2 DEF Call, Steps, Phases
  <2>4. call' = [call EXCEPT ![c] = k] /\ UNCHANGED operation
    BY <1>3, FlowOf DEF Decide, TypeOK
  <2>5. call[c].op \in Replacing
    BY <1>1, <1>3, FlowOf DEF Route, Looks
  <2>6. Route(k) /\ Remembers(k)
    <3>1. k.before.managed => k.before.running
      BY <2>2, <2>3
    <3> HIDE DEF k, running
    <3> QED
      BY <1>1, <2>3, <2>5, <3>1, FlowOf DEF Route, Remembers, Replacing
  <2>7. k.at = "change" => Absent(call[c])
    BY <1>1, <2>3 DEF Absent
  <2>8. Says(c, k)
    BY <2>3, <2>4 DEF Says
  <2> HIDE DEF k
  <2> QED
    BY <1>1, <1>3, <2>3, <2>4, <2>5, <2>6, <2>7, <2>8, FlowOf
       DEF Advances, Absent, After, Replacing
<1>4. CASE call[c].phase = "blame"
  <2>1. call[c].op \in Replacing
    BY <1>1, <1>4, FlowOf DEF Route, Looks
  <2> QED
    BY <1>1, <1>4, <2>1, FinishAdvances, RecoverAdvances DEF Decide, Results
<1> QED
  BY <1>2, <1>3, <1>4 DEF Decide

LEMMA HaltAdvances ==
  ASSUME Locks, Flow, NEW c \in Callers, HaltService(c) \/ Halted(c) \/ NothingToHalt(c)
  PROVE  \E k : Advances(c, k)
<1>1. /\ call[c].at \in {"halt", "halting"} /\ call[c].phase \in {"stop", "undo", "removed"}
      /\ call[c].phase = "removed" => call[c].op = "uninstall"
  BY FlowOf DEF HaltService, Halted, NothingToHalt, At, Route, Looks
<1>2. CASE StopFailed(c)
  BY <1>1, <1>2, StopFailedAdvances
<1>3. ASSUME NEW step \in {"halting", "ping", "remove"}, Go(c, step), UNCHANGED operation,
             step = "remove" => call[c].phase = "removed"
      PROVE  \E k : Advances(c, k)
  <2>1. Route([call[c] EXCEPT !.at = step])
    BY <1>1, <1>3, FlowOf DEF Route, Looks, Call
  <2> QED
    BY <1>1, <1>3, <2>1, GoAdvances DEF Steps, After
<1> QED
  BY <1>2, <1>3 DEF HaltService, Halted, NothingToHalt

\* A command that looks again, for another purpose.
LEMMA LookAdvances ==
  ASSUME Locks, Flow, NEW c \in Callers, NEW phase \in Phases, Look(c, phase),
         UNCHANGED operation, call[c].at # "idle",
         Route([call[c] EXCEPT !.at = "ping", !.phase = phase]),
         Remembers([call[c] EXCEPT !.at = "ping", !.phase = phase]),
         phase \notin {"status", "first"} <=> call[c].phase \notin {"status", "first"}
  PROVE  Advances(c, [call[c] EXCEPT !.at = "ping", !.phase = phase])
<1> DEFINE k == [call[c] EXCEPT !.at = "ping", !.phase = phase]
<1>1. Says(c, k)
  BY LookSays, FlowOf
<1>2. /\ k.at = "ping" /\ k.phase = phase /\ k.op = call[c].op
      /\ k.owners = call[c].owners /\ k.result = call[c].result
  BY FlowOf DEF Call
<1> QED
  BY <1>1, <1>2, FlowOf DEF Advances, Absent, After, Remembers

LEMMA ShutdownAdvances ==
  ASSUME Locks, Flow, NEW c \in Callers, Shutdown(c)
  PROVE  \E k : Advances(c, k)
<1> DEFINE phase == Draining(call[c].phase)
<1>1. call[c].at = "judge" /\ call[c].phase \in {"stop", "undo", "removed"}
  BY DEF Shutdown, At
<1>2. /\ phase \in {"drain", "undrain", "removedrain"}
      /\ call[c].phase = "stop" => phase = "drain"
      /\ call[c].phase = "undo" => phase = "undrain"
      /\ call[c].phase = "removed" => phase = "removedrain"
  BY <1>1 DEF Draining
<1> HIDE DEF phase
<1>3. /\ Route([call[c] EXCEPT !.at = "ping", !.phase = phase])
      /\ Remembers([call[c] EXCEPT !.at = "ping", !.phase = phase])
  BY <1>1, <1>2, FlowOf DEF Route, Remembers, Looks, Call, Replacing
<1>4. Look(c, phase) /\ UNCHANGED operation
  BY DEF Shutdown, phase
<1> QED
  BY <1>1, <1>2, <1>3, <1>4, LookAdvances DEF Phases

LEMMA WaitStoppedAdvances ==
  ASSUME Locks, Flow, NEW c \in Callers, WaitStopped(c)
  PROVE  \E k : Advances(c, k)
<1>1. call[c].at = "judge" /\ call[c].phase \in {"drain", "undrain", "removedrain"}
  BY DEF WaitStopped, At
<1>2. CASE call[c].seen = "Stopped" /\ Finish(c, "ok")
  BY <1>1, <1>2, FinishAdvances DEF Results, Absent
<1>3. CASE Finish(c, "unrecovered") \/ Finish(c, "unconfirmed")
  BY <1>3, FinishAdvances DEF Results
<1>4. CASE Go(c, "ping") /\ UNCHANGED operation
  <2>1. Route([call[c] EXCEPT !.at = "ping"])
    BY <1>1, FlowOf DEF Route, Looks, Call
  <2> QED
    BY <1>1, <1>4, <2>1, GoAdvances DEF Steps, After
<1>5. CASE /\ call[c].seen = "Stopped" /\ call[c].phase = "drain" /\ call[c].op # "stop"
           /\ Go(c, "change") /\ UNCHANGED operation
  <2>1. Route([call[c] EXCEPT !.at = "change"]) /\ Absent(call[c])
    BY <1>1, <1>5, FlowOf DEF Route, Looks, Call, Absent
  <2> QED
    BY <1>1, <1>5, <2>1, GoAdvances DEF Steps
<1>6. CASE call[c].phase = "drain" /\ call[c].before.running /\ Look(c, "blame")
           /\ UNCHANGED operation
  <2>1. call[c].op \in Replacing
    BY <1>1, <1>6, FlowOf DEF Route, Looks, Remembers
  <2>2. /\ Route([call[c] EXCEPT !.at = "ping", !.phase = "blame"])
        /\ Remembers([call[c] EXCEPT !.at = "ping", !.phase = "blame"])
    BY <1>1, <1>6, <2>1, FlowOf DEF Route, Remembers, Looks, Call
  <2> QED
    BY <1>1, <1>6, <2>2, LookAdvances DEF Phases
<1>7. CASE /\ call[c].seen = "Stopped" /\ call[c].phase = "undrain" /\ UNCHANGED operation
           /\ call' = [call EXCEPT ![c].at = "restore", ![c].phase = "undo"]
  <2> DEFINE k == [call[c] EXCEPT !.at = "restore", !.phase = "undo"]
  <2>1. /\ k.at = "restore" /\ k.phase = "undo" /\ k.op = call[c].op /\ k.before = call[c].before
        /\ k.owners = call[c].owners /\ k.result = call[c].result /\ k \in Call
    BY FlowOf DEF Call, Steps, Phases
  <2>2. Says(c, k)
    BY <1>7, <2>1, FlowOf DEF Says, TypeOK
  <2>3. Route(k) /\ Remembers(k)
    BY <1>1, <1>7, <2>1, FlowOf DEF Route, Remembers, Looks, Replacing
  <2> QED
    BY <1>1, <1>7, <2>1, <2>2, <2>3, FlowOf DEF Advances, Absent, After, Remembers
<1> QED
  BY <1>2, <1>3, <1>4, <1>5, <1>6, <1>7 DEF WaitStopped

LEMMA LaunchAdvances ==
  ASSUME Locks, Flow, NEW c \in Callers,
         Spawn(c) \/ InstallUnit(c) \/ StartUnit(c) \/ SetEnabled(c) \/ WaitRunning(c)
  PROVE  \E k : Advances(c, k)
<1>0. call[c].at \in {"change", "spawn", "start", "enable", "await"}
  BY DEF Spawn, InstallUnit, StartUnit, SetEnabled, WaitRunning, At
<1>1. /\ call[c].at \in {"change", "spawn", "start", "enable", "await"} /\ Absent(call[c])
      /\ call[c].op \notin {"stop", "uninstall", "status"}
  BY <1>0, FlowOf DEF Absent, After, Route, Looks, Replacing
<1>2. CASE Failed(c)
  BY <1>1, <1>2, FailedAdvances
<1>3. ASSUME NEW step \in {"start", "enable", "await"}, Go(c, step), UNCHANGED operation,
             Route([call[c] EXCEPT !.at = step]),
             Remembers([call[c] EXCEPT !.at = step])
      PROVE  \E k : Advances(c, k)
  BY <1>1, <1>3, GoAdvances DEF Steps
<1>4. CASE Spawn(c)
  <2>1. /\ Route([call[c] EXCEPT !.at = "await"]) /\ Remembers([call[c] EXCEPT !.at = "await"])
    BY <1>1, <1>4, FlowOf DEF Spawn, At, Route, Remembers, Looks, Call
  <2> QED
    BY <1>3, <1>4, <2>1 DEF Spawn
<1>5. CASE InstallUnit(c)
  <2>1. /\ Route([call[c] EXCEPT !.at = "start"]) /\ Remembers([call[c] EXCEPT !.at = "start"])
    BY <1>1, <1>5, FlowOf DEF InstallUnit, At, Route, Remembers, Looks, Call, Replacing
  <2> QED
    BY <1>2, <1>3, <1>5, <2>1 DEF InstallUnit
<1>6. CASE StartUnit(c)
  <2>1. call[c].op = "restart" /\ call[c].phase # "undo" =>
          Route([call[c] EXCEPT !.at = "enable"]) /\ Remembers([call[c] EXCEPT !.at = "enable"])
    BY <1>1, <1>6, FlowOf DEF StartUnit, At, Route, Remembers, Looks, Call, Replacing
  <2>2. /\ Route([call[c] EXCEPT !.at = "await"]) /\ Remembers([call[c] EXCEPT !.at = "await"])
    BY <1>1, <1>6, FlowOf DEF StartUnit, At, Route, Remembers, Looks, Call
  <2> QED
    BY <1>2, <1>3, <1>6, <2>1, <2>2 DEF StartUnit
<1>7. CASE SetEnabled(c)
  <2>1. /\ Route([call[c] EXCEPT !.at = "await"]) /\ Remembers([call[c] EXCEPT !.at = "await"])
    BY <1>1, <1>7, FlowOf DEF SetEnabled, At, Route, Remembers, Looks, Call
  <2> QED
    BY <1>2, <1>3, <1>7, <2>1 DEF SetEnabled
<1>8. CASE WaitRunning(c)
  BY <1>1, <1>2, <1>8, FinishAdvances DEF WaitRunning, Results
<1> QED
  BY <1>4, <1>5, <1>6, <1>7, <1>8

LEMMA RemoveAdvances ==
  ASSUME Locks, Flow, NEW c \in Callers, RemoveUnit(c) \/ Restore(c)
  PROVE  \E k : Advances(c, k)
<1>1. CASE RemoveUnit(c)
  <2>1. call[c].at = "remove" /\ call[c].op = "uninstall" /\ call[c].phase = "removed"
    BY <1>1, FlowOf DEF RemoveUnit, At, Route, Looks
  <2>2. /\ Route([call[c] EXCEPT !.at = "ping", !.phase = "removed"])
        /\ Remembers([call[c] EXCEPT !.at = "ping", !.phase = "removed"])
    BY <2>1, FlowOf DEF Route, Remembers, Looks, Call, Replacing
  <2> QED
    BY <1>1, <2>1, <2>2, FinishAdvances, LookAdvances DEF RemoveUnit, Results, Phases
<1>2. CASE Restore(c)
  <2>1. call[c].at = "restore" /\ call[c].op \in Replacing /\ call[c].phase = "undo"
    BY <1>2, FlowOf DEF Restore, At, Route, Looks
  <2>2. ASSUME NEW r \in Results, Finish(c, r) PROVE \E k : Advances(c, k)
    BY <2>1, <2>2, FinishAdvances DEF Replacing
  <2>3. ASSUME NEW step \in {"start", "spawn"}, Go(c, step), UNCHANGED operation
        PROVE  \E k : Advances(c, k)
    <3>1. Route([call[c] EXCEPT !.at = step]) /\ Remembers([call[c] EXCEPT !.at = step])
      BY <2>1, <2>3, FlowOf DEF Route, Remembers, Call
    <3> QED
      BY <2>1, <2>3, <3>1, GoAdvances DEF Steps, Absent, After
  <2> QED
    BY <1>2, <2>2, <2>3 DEF Restore, AfterRestore, Results
<1> QED
  BY <1>1, <1>2

LEMMA CallsAdvance ==
  ASSUME Locks, Flow, Calls
  PROVE  Kept /\ \E c \in Callers : \E k : Advances(c, k)
<1>1. PICK c \in Callers :
         \/ \E op \in Commands \ {"run"} : Begin(c, op)
         \/ Ping(c) \/ Probe(c) \/ Unlock(c) \/ Connect(c) \/ DecideStart(c) \/ Decide(c)
         \/ HaltService(c) \/ Halted(c) \/ NothingToHalt(c) \/ Shutdown(c) \/ WaitStopped(c)
         \/ Spawn(c) \/ InstallUnit(c) \/ StartUnit(c) \/ SetEnabled(c) \/ WaitRunning(c)
         \/ RemoveUnit(c) \/ Restore(c)
  BY DEF Calls
<1>2. Commands \ {"run"} \subseteq AllCommands \ {"run"}
  BY CommandsAssumption
<1>3. Kept
  <2>1. CASE UNCHANGED proc
    BY <2>1, SameKept
  <2>2. CASE HaltService(c) \/ Shutdown(c) \/ Spawn(c) \/ StartUnit(c)
    BY <2>2, HeldAndCounted, HaltServiceKept, ShutdownKept, SpawnKept
  <2> QED
    BY <1>1, <2>1, <2>2 DEF Begin, Ping, Probe, Unlock, Connect, DecideStart, Decide, Halted,
       NothingToHalt, WaitStopped, InstallUnit, SetEnabled, WaitRunning, RemoveUnit, Restore
<1>4. \E k : Advances(c, k)
  BY <1>1, <1>2, BeginAdvances, PresenceAdvances, DecideStartAdvances, DecideAdvances,
     HaltAdvances, ShutdownAdvances, WaitStoppedAdvances, LaunchAdvances, RemoveAdvances
<1> QED
  BY <1>3, <1>4

Followed == Locks /\ OwnersKnown /\ Flow

LEMMA InitFollowed == Init => Followed
<1> SUFFICES ASSUME Init PROVE Followed
  OBVIOUS
<1>1. /\ operation = Nobody
      /\ \A c \in Callers : /\ call[c].op = "status" /\ call[c].at = "idle"
                            /\ call[c].phase = "status" /\ call[c].owners = {}
  BY DEF Init, Idle
<1>2. OwnersKnown /\ Flow
  BY <1>1, WhoAssumption DEF OwnersKnown, Flow, Route, Remembers, Replacing
<1> QED
  BY <1>2, InitLocks DEF Followed

LEMMA FollowedStep == Followed /\ [Next]_vars => Followed'
<1> SUFFICES ASSUME Followed, [Next]_vars PROVE Followed'
  OBVIOUS
<1>1. Locks'
  BY DaemonsKeepLocks, CallsKeepLocks, StutterKeeps DEF Next, Followed
<1>2. CASE Daemons
  <2>1. UNCHANGED <<call, operation>>
    BY <1>2 DEF Daemons, TakeLock, CheckEndpoint, Bind, Serve, Heed, CloseListener, Exit, Crash,
       ManagerRestarts, RunByHand
  <2>2. Kept
    BY <1>2, DaemonsKept, HeldAndCounted DEF Followed
  <2> QED
    BY <1>1, <2>1, <2>2, DaemonsFlow DEF Followed
<1>3. CASE Calls
  BY <1>1, <1>3, CallsAdvance, CallFlows DEF Followed
<1>4. CASE UNCHANGED vars
  BY <1>1, <1>4, SameKept, DaemonsFlow DEF Followed, vars
<1> QED
  BY <1>2, <1>3, <1>4 DEF Next

\* A command that replaces, stops or removes the daemon acts on, or reports, the
\* owner's end only when that process has gone.
THEOREM OwnerIsReplacedWhenGone == Spec => OldOwnerIsGone
<1>1. ASSUME Followed, [Next]_vars
      PROVE  \A c \in Callers : ActsOnOwner(c) => \A p \in call[c].owners : ~Alive(p)
  <2> TAKE c \in Callers
  <2>1. Absent(call[c]) => \A p \in call[c].owners : ~Alive(p)
    BY <1>1 DEF Followed, OwnersKnown
  <2>2. call[c].at \in {"change", "spawn", "start"} => Absent(call[c])
    BY DEF Absent, After
  <2>3. ASSUME call[c].op \in {"stop", "uninstall"}, ~At(c, "idle"), call'[c].result = "ok"
        PROVE  Absent(call[c])
    <3>1. call[c].result = "none"
      BY <1>1, <2>3 DEF Followed, Flow, Remembers, At
    <3>2. Calls
      <4>1. ~UNCHANGED call
        BY <2>3, <3>1
      <4> QED
        BY <1>1, <4>1 DEF Next, vars, Daemons, TakeLock, CheckEndpoint, Bind, Serve, Heed,
           CloseListener, Exit, Crash, ManagerRestarts, RunByHand
    <3>3. PICK d \in Callers : \E k : Advances(d, k)
      BY <1>1, <3>2, CallsAdvance DEF Followed
    <3>4. PICK k : Advances(d, k)
      BY <3>3
    <3>5. d = c /\ call'[c] = k
      BY <1>1, <2>3, <3>1, <3>4 DEF Advances, Says, Followed, Locks, TypeOK
    <3> QED
      BY <2>3, <3>4, <3>5 DEF Advances, At
  <2> QED
    BY <2>1, <2>2, <2>3 DEF ActsOnOwner
<1>2. Followed /\ [Next]_vars =>
        [\A c \in Callers : ActsOnOwner(c) => \A p \in call[c].owners : ~Alive(p)]_vars
  BY <1>1
<1> QED
  BY InitFollowed, FollowedStep, <1>2, PTL DEF Spec, OldOwnerIsGone
-----------------------------------------------------------------------------
(***************************************************************************)
(* What a command has done to the service.                                 *)
(***************************************************************************)
\* The record of a command after each of its helpers.
SameCommand(c) ==
  /\ call'[c].op = call[c].op /\ call'[c].before = call[c].before
  /\ call'[c].saved = call[c].saved

LEMMA GoNext ==
  ASSUME TypeOK, NEW c \in Callers, NEW step \in Steps, Go(c, step)
  PROVE  /\ SameCommand(c) /\ call'[c].at = step /\ call'[c].phase = call[c].phase
         /\ call'[c].result = call[c].result
<1>1. call[c] \in Call /\ call \in [Callers -> Call]
  BY DEF TypeOK
<1>2. call'[c] = [call[c] EXCEPT !.at = step]
  BY <1>1, GoSays DEF Says
<1> QED
  BY <1>1, <1>2 DEF SameCommand, Call

LEMMA LookNext ==
  ASSUME TypeOK, NEW c \in Callers, NEW phase \in Phases, Look(c, phase)
  PROVE  /\ SameCommand(c) /\ call'[c].at = "ping" /\ call'[c].phase = phase
         /\ call'[c].result = call[c].result
<1>1. call[c] \in Call /\ call \in [Callers -> Call]
  BY DEF TypeOK
<1>2. Says(c, [call[c] EXCEPT !.at = "ping", !.phase = phase])
  BY LookSays
<1>3. call'[c] = [call[c] EXCEPT !.at = "ping", !.phase = phase]
  BY <1>1, <1>2 DEF Says
<1> QED
  BY <1>1, <1>3 DEF SameCommand, Call

LEMMA JudgeNext ==
  ASSUME TypeOK, NEW c \in Callers, NEW seen \in {"Running", "Unresponsive", "Stopped"},
         Judge(c, seen)
  PROVE  /\ SameCommand(c) /\ call'[c].at = "judge" /\ call'[c].phase = call[c].phase
         /\ call'[c].result = call[c].result
<1>1. call[c] \in Call /\ call \in [Callers -> Call]
  BY DEF TypeOK
<1>2. Says(c, [call[c] EXCEPT !.at = "judge", !.seen = seen])
  BY JudgeSays
<1>3. call'[c] = [call[c] EXCEPT !.at = "judge", !.seen = seen]
  BY <1>1, <1>2 DEF Says
<1> QED
  BY <1>1, <1>3 DEF SameCommand, Call

LEMMA RecoverNext ==
  ASSUME TypeOK, NEW c \in Callers, Recover(c)
  PROVE  /\ SameCommand(c) /\ call'[c].at = "halt" /\ call'[c].phase = "undo"
         /\ call'[c].result = call[c].result
<1>1. call[c] \in Call /\ call \in [Callers -> Call]
  BY DEF TypeOK
<1>2. call'[c] = [call[c] EXCEPT !.at = "halt", !.phase = "undo"]
  BY <1>1, RecoverSays DEF Says
<1> QED
  BY <1>1, <1>2 DEF SameCommand, Call

LEMMA FinishNext ==
  ASSUME TypeOK, NEW c \in Callers, NEW r \in Results, Finish(c, r)
  PROVE  /\ call'[c].at = "idle" /\ call'[c].phase = "status" /\ call'[c].result = r
         /\ call'[c].op = call[c].op
<1>1. call[c] \in Call /\ call \in [Callers -> Call]
  BY DEF TypeOK
<1>2. call'[c] = Ended(c, r)
  BY <1>1, FinishSays DEF Says
<1> QED
  BY <1>1, <1>2 DEF Ended, Idle

\* A command that does not hold the operation lock has promised nothing.
LEMMA Vacuous ==
  ASSUME NEW k, Route(k), k.phase \in {"status", "first"}
  PROVE  Sound(k)
<1>1. /\ k.at \notin {"change", "start", "restore", "spawn", "await", "enable", "remove"}
      /\ k.phase # "status" => k.op = "start"
  BY DEF Route, Looks, Replacing
<1> QED
  BY <1>1 DEF Sound, Changed, Untouched, Put, Saving, Quiet, AtRest, Launched, Replacing

LEMMA VacuousNext ==
  ASSUME Flow', NEW c \in Callers, call'[c].phase \in {"status", "first"}
  PROVE  Sound(call[c])'
<1>1. Route(call'[c])
  BY DEF Flow, Route
<1>2. /\ call'[c].at \notin {"change", "start", "restore", "spawn", "await", "enable", "remove"}
      /\ call'[c].phase # "status" => call'[c].op = "start"
  BY <1>1 DEF Route, Looks, Replacing
<1> QED
  BY <1>2 DEF Sound, Changed, Untouched, Put, Saving, Quiet, AtRest, Launched, Replacing

\* A step that leaves the service and its process as they are promised to be.
Undisturbed ==
  /\ OneManaged' /\ Registered' /\ Definition(unit)' = Definition(unit)
  /\ unit.active = "off" => unit'.active = "off"
  /\ Upright => Upright'

LEMMA DefinitionKept ==
  ASSUME unit \in Units, unit' \in Units, Definition(unit)' = Definition(unit)
  PROVE  /\ unit'.file = unit.file /\ unit'.loaded = unit.loaded
         /\ unit'.enabled = unit.enabled /\ (Installed' <=> Installed)
<1>1. unit'.file = unit.file /\ unit'.loaded = unit.loaded /\ unit'.enabled = unit.enabled
  BY DEF Definition
<1> QED
  BY <1>1 DEF Installed

LEMMA DaemonServes ==
  ASSUME Locks, Locks', Service, Undisturbed, UNCHANGED call
  PROVE  Service'
<1>1. unit'.loaded = unit.loaded /\ (Installed' <=> Installed)
  BY HeldAndCounted, DefinitionKept DEF Undisturbed, Locks, TypeOK, Units
<1> SUFFICES ASSUME NEW c \in Callers PROVE Sound(call[c])'
  BY DEF Service
<1>2. Sound(call[c]) /\ call'[c] = call[c]
  BY DEF Service
<1>3. Changed(call[c])'
  BY <1>2 DEF Sound, Changed, Untouched, Put, Undisturbed
<1>4. Saving(call[c])'
  BY <1>1, <1>2 DEF Sound, Saving
<1>5. Quiet(call[c])'
  BY <1>2 DEF Sound, Quiet, AtRest, Undisturbed
<1>6. Launched(call[c])'
  BY <1>1, <1>2 DEF Sound, Launched, Undisturbed
<1> QED
  BY <1>3, <1>4, <1>5, <1>6 DEF Sound

\* The service changes only by the command that holds the operation lock.
LEMMA CallServes ==
  ASSUME Followed, Followed', Service, NEW c \in Callers, NEW k, Advances(c, k),
         Sound(call[c])', operation \in {c, Nobody} \/ UNCHANGED <<proc, unit>>
  PROVE  Service'
<1> USE DEF Followed
<1> SUFFICES ASSUME NEW d \in Callers, d # c PROVE Sound(call[d])'
  BY DEF Service
<1>1. call'[d] = call[d]
  BY DEF Locks, TypeOK, Advances, Says
<1>2. CASE operation # d
  <2>1. operation' # d
    BY <1>2, WhoAssumption DEF Advances
  <2>2. call'[d].phase \in {"status", "first"}
    BY <1>1, <1>2, <2>1 DEF Flow
  <2> QED
    BY <2>2, VacuousNext
<1>3. CASE operation = d
  <2>1. UNCHANGED <<proc, unit>>
    BY <1>3, WhoAssumption
  <2>2. Sound(call[d]) /\ Definition(unit)' = Definition(unit) /\ (Upright => Upright')
        /\ (Installed' <=> Installed)
    BY <2>1 DEF Service, Definition, Upright, Alive, Installed
  <2>3. Changed(call[d])' /\ Saving(call[d])'
    BY <1>1, <2>1, <2>2 DEF Sound, Changed, Untouched, Put, Saving
  <2>4. Quiet(call[d])' /\ Launched(call[d])'
    BY <1>1, <2>1, <2>2 DEF Sound, Quiet, AtRest, Launched
  <2> QED
    BY <2>3, <2>4 DEF Sound
<1> QED
  BY <1>2, <1>3

\* What a daemon's step does to the service that started it.
LEMMA EndUndisturbed ==
  ASSUME Locks, OneManaged, Registered, NEW p \in Procs, Alive(p), To(p, "gone"),
         NEW clean \in BOOLEAN, unit' = UnitAfter(p, clean),
         clean => proc[p].at = "closed"
  PROVE  Undisturbed
<1> USE HeldAndCounted
<1>1. /\ proc' \in [Procs -> Process] /\ proc'[p].at = "gone" /\ unit \in Units
      /\ \A q \in Procs \ {p} : proc'[q] = proc[q]
  BY ToTyped DEF ProcStages
<1>2. CASE ~proc[p].managed
  <2>1. unit' = unit
    BY <1>2 DEF UnitAfter
  <2> QED
    BY <1>1, <1>2, <2>1 DEF Undisturbed, OneManaged, Registered, Upright, Alive, Installed,
       ManagerRuns, Definition
<1>3. CASE proc[p].managed
  <2>1. /\ unit.active \in {"on", "ending"}
        /\ \A q \in Procs : ~(proc'[q].managed /\ proc'[q].at # "gone")
    BY <1>1, <1>3 DEF OneManaged, Alive
  <2>2. unit' = [unit EXCEPT !.active = IF clean \/ unit.active = "ending" THEN "off" ELSE "retry"]
    BY <1>3 DEF UnitAfter
  <2>3. /\ unit'.file = unit.file /\ unit'.loaded = unit.loaded /\ unit'.enabled = unit.enabled
        /\ unit'.active = IF clean \/ unit.active = "ending" THEN "off" ELSE "retry"
    BY <1>1, <2>2 DEF Units
  <2>4. Definition(unit)' = Definition(unit)
    BY <2>3 DEF Definition
  <2>5. OneManaged' /\ Registered'
    BY <2>1, <2>3 DEF OneManaged, Registered, ManagerRuns, Installed, Alive
  <2>6. Upright => Upright'
    BY <1>3, <2>1, <2>3 DEF Upright, Alive
  <2> QED
    BY <2>1, <2>4, <2>5, <2>6 DEF Undisturbed
<1> QED
  BY <1>2, <1>3

LEMMA StageUndisturbed ==
  ASSUME Locks, OneManaged, Registered, NEW p \in Procs, Alive(p), UNCHANGED unit,
         NEW stage \in ProcStages \ {"gone"}, To(p, stage),
         stage \in {"stopping", "closed"} =>
           proc[p].at \in {"stopping", "closed"} \/ proc[p].doomed
  PROVE  Undisturbed
<1>1. proc[p] \in Process /\ unit \in Units
  BY HeldAndCounted DEF Held
<1>2. /\ proc'[p] = [proc[p] EXCEPT !.at = stage] /\ proc'[p].at = stage
      /\ \A q \in Procs \ {p} : proc'[q] = proc[q]
  BY ToTyped, HeldAndCounted
<1>3. proc'[p].managed = proc[p].managed /\ proc'[p].doomed = proc[p].doomed
  BY <1>1, <1>2 DEF Process
<1>4. OneManaged' /\ Registered' /\ Definition(unit)' = Definition(unit)
  BY <1>2, <1>3 DEF OneManaged, Registered, ManagerRuns, Installed, Alive, Definition
<1>5. Upright => Upright'
  BY <1>2, <1>3 DEF Upright, Alive
<1> QED
  BY <1>4, <1>5 DEF Undisturbed

LEMMA ForkUndisturbed ==
  ASSUME Locks, OneManaged, Registered, NEW p \in Procs, Free(p), NEW api,
         NEW managed \in BOOLEAN, proc' = Fork(p, managed, api),
         ~managed => UNCHANGED unit,
         managed => unit.active = "retry" /\ unit' = [unit EXCEPT !.active = "on"]
  PROVE  Undisturbed
<1>1. /\ proc'[p].managed = managed /\ proc'[p].at = "forked" /\ ~proc'[p].doomed
      /\ \A q \in Procs \ {p} : proc'[q] = proc[q]
  BY HeldAndCounted DEF Fork, Held
<1>2. ~Alive(p) /\ unit \in Units
  BY HeldAndCounted DEF Free
<1>3. CASE ~managed
  BY <1>1, <1>2, <1>3 DEF Undisturbed, OneManaged, Registered, ManagerRuns, Installed, Alive,
     Definition, Upright
<1>4. CASE managed
  <2>1. /\ unit'.file = unit.file /\ unit'.loaded = unit.loaded /\ unit'.enabled = unit.enabled
        /\ unit'.active = "on" /\ unit.active = "retry"
    BY <1>2, <1>4 DEF Units
  <2>2. OneManaged' /\ Registered' /\ Definition(unit)' = Definition(unit)
    <3>1. Registered' /\ Definition(unit)' = Definition(unit)
      BY <2>1 DEF Registered, ManagerRuns, Installed, Definition
    <3>2. \A q \in Procs : ~(proc[q].managed /\ Alive(q))
      BY <2>1 DEF OneManaged
    <3>3. \A q \in Procs : proc'[q].managed /\ Alive(q)' => q = p
      BY <1>1, <3>2 DEF Alive
    <3> QED
      BY <2>1, <3>1, <3>3 DEF OneManaged
  <2>3. Upright'
    BY <1>1, <1>2, <1>4, <2>1 DEF OneManaged, Upright, Alive
  <2> QED
    BY <2>1, <2>2, <2>3 DEF Undisturbed
<1> QED
  BY <1>3, <1>4

LEMMA DaemonsUndisturbed ==
  ASSUME Locks, OneManaged, Registered, Daemons
  PROVE  Undisturbed
<1>1. PICK p \in Procs :
         \/ TakeLock(p) \/ CheckEndpoint(p) \/ Bind(p) \/ Serve(p) \/ Heed(p)
         \/ CloseListener(p) \/ Exit(p) \/ Crash(p) \/ ManagerRestarts(p) \/ RunByHand(p)
  BY DEF Daemons
<1>2. CASE ManagerRestarts(p)
  BY <1>2, ForkUndisturbed DEF ManagerRestarts
<1>3. CASE RunByHand(p)
  BY <1>3, ForkUndisturbed DEF RunByHand
<1>4. CASE Bind(p) \/ Heed(p) \/ CloseListener(p)
  <2>1. Alive(p) /\ UNCHANGED unit
    BY <1>4 DEF Bind, Heed, CloseListener, Alive
  <2>2. \E stage \in ProcStages \ {"gone"} :
          /\ To(p, stage)
          /\ stage \in {"stopping", "closed"} =>
               proc[p].at \in {"stopping", "closed"} \/ proc[p].doomed
    BY <1>4 DEF Bind, Heed, CloseListener, ProcStages
  <2> QED
    BY <2>1, <2>2, StageUndisturbed
<1>5. CASE TakeLock(p) \/ CheckEndpoint(p) \/ Serve(p)
  <2>1. Alive(p)
    BY <1>5 DEF TakeLock, CheckEndpoint, Serve, Alive
  <2>2. CASE To(p, "gone") /\ unit' = UnitAfter(p, FALSE)
    BY <2>1, <2>2, EndUndisturbed
  <2>3. CASE UNCHANGED unit /\ \E stage \in {"locked", "checked", "serving"} : To(p, stage)
    BY <2>1, <2>3, StageUndisturbed DEF ProcStages
  <2> QED
    BY <1>5, <2>2, <2>3 DEF TakeLock, CheckEndpoint, Serve
<1>6. CASE Exit(p)
  BY <1>6, EndUndisturbed DEF Exit, Alive
<1>7. CASE Crash(p)
  BY <1>7, EndUndisturbed DEF Crash
<1> QED
  BY <1>1, <1>2, <1>3, <1>4, <1>5, <1>6, <1>7
-----------------------------------------------------------------------------
\* A step of a command that changes neither daemons nor service.
Keeps(c) ==
  /\ Sound(call[c])' /\ OneManaged' /\ Registered'
  /\ operation \in {c, Nobody} \/ UNCHANGED <<proc, unit>>
  /\ ~At(c, "idle") /\ call'[c].at = "idle" => LeavesAsReported(c)

LEMMA Quietly ==
  ASSUME OneManaged, Registered, UNCHANGED <<proc, unit>>
  PROVE  /\ OneManaged' /\ Registered' /\ Definition(unit)' = Definition(unit)
         /\ (Upright => Upright') /\ (Installed' <=> Installed)
  BY DEF OneManaged, Registered, Definition, Upright, Alive, Installed, ManagerRuns

LEMMA BeginServes ==
  ASSUME Followed, Followed', OneManaged, Registered, NEW c \in Callers,
         NEW op \in AllCommands \ {"run"}, Begin(c, op)
  PROVE  Keeps(c)
<1> USE DEF Followed
<1>1. OneManaged' /\ Registered' /\ UNCHANGED <<proc, unit>> /\ At(c, "idle")
  BY Quietly DEF Begin
<1>2. call'[c].phase \in {"status", "first"} => Sound(call[c])'
  BY VacuousNext
<1>3. call \in [Callers -> Call]
  BY DEF Locks, TypeOK
<1>4. CASE op \in {"start", "status"} /\ Says(c, Asking(op))
  <2>1. call'[c].phase \in {"status", "first"}
    BY <1>3, <1>4 DEF Says, Asking, Idle
  <2> QED
    BY <1>1, <1>2, <2>1 DEF Keeps
<1>5. CASE \E r \in {"busy", "unavailable"} : Says(c, [Idle EXCEPT !.op = op, !.result = r])
  <2>1. call'[c].phase \in {"status", "first"}
    BY <1>3, <1>5 DEF Says, Idle
  <2> QED
    BY <1>1, <1>2, <2>1 DEF Keeps
<1>6. CASE /\ op \notin {"start", "status"} /\ operation = Nobody /\ operation' = c
           /\ op \in {"restart", "install"} => Checkpoint
           /\ Says(c, Changing(op))
  <2>1. call'[c] = Changing(op)
    BY <1>3, <1>6 DEF Says
  <2>2. /\ call'[c].op = op /\ call'[c].saved = Definition(unit)
        /\ call'[c].before = [running |-> FALSE, managed |-> op # "stop" /\ ManagerRuns,
                              installed |-> Installed]
        /\ call'[c].phase = IF op = "stop" THEN "stop"
                            ELSE IF op = "uninstall" THEN "removed" ELSE "prepare"
        /\ call'[c].at = IF op \in {"stop", "uninstall"} THEN "halt" ELSE "ping"
    BY <2>1 DEF Changing, Idle
  <2>3. call'[c].before.managed <=> op # "stop" /\ ManagerRuns
    <3> DEFINE managed == op # "stop" /\ ManagerRuns
    <3>1. call'[c].before = [running |-> FALSE, managed |-> managed, installed |-> Installed]
      BY <2>2
    <3> HIDE DEF managed
    <3>2. call'[c].before.managed = managed
      BY <3>1
    <3> QED
      BY <3>2 DEF managed
  <2>4. call'[c].before.installed <=> Installed
    BY <2>2
  <2>5. Changed(call[c])'
    BY <1>1, <1>6, <2>2, Quietly DEF Changed, Untouched, Put, Replacing, Looks
  <2>6. Saving(call[c])'
    <3>1. SUFFICES ASSUME op \in Replacing
                   PROVE  /\ call'[c].saved.loaded = call'[c].saved.file
                          /\ call'[c].saved.file # "none" => unit'.loaded # "none"
                          /\ call'[c].before.managed =>
                               call'[c].saved.file # "none" /\ call'[c].before.installed
      BY <2>2 DEF Saving
    <3>2. unit.loaded = unit.file
      BY <1>6, <3>1 DEF Checkpoint, Registered, Replacing
    <3>3. call'[c].saved.loaded = unit.loaded /\ call'[c].saved.file = unit.file
      BY <2>2 DEF Definition
    <3>4. call'[c].before.managed => ManagerRuns /\ call'[c].before.installed
      BY <2>3, <2>4 DEF Registered
    <3> QED
      BY <1>1, <3>2, <3>3, <3>4 DEF Registered, Installed
  <2>7. Quiet(call[c])'
    <3>1. AtRest(call[c])' => op # "stop" /\ ~call'[c].before.managed
      BY <2>2 DEF AtRest, Looks
    <3>2. AtRest(call[c])' => unit.active = "off"
      BY <2>3, <3>1 DEF ManagerRuns
    <3> QED
      BY <1>1, <3>2 DEF Quiet
  <2>8. Launched(call[c])'
    BY <2>2 DEF Launched
  <2> QED
    BY <1>1, <2>5, <2>6, <2>7, <2>8 DEF Keeps, Sound
<1> QED
  BY <1>4, <1>5, <1>6, BeginSays DEF Locks

\* Looking at the profile, and telling what was seen.
LEMMA PresenceServes ==
  ASSUME Followed, Followed', OneManaged, Registered, Service, NEW c \in Callers,
         Ping(c) \/ Probe(c) \/ Unlock(c) \/ Connect(c)
  PROVE  Keeps(c)
<1> USE DEF Followed
<1>1. /\ call[c].at \in Looks /\ UNCHANGED <<proc, unit>> /\ TypeOK /\ Sound(call[c])
      /\ OneManaged' /\ Registered' /\ Definition(unit)' = Definition(unit)
  BY Quietly DEF Ping, Probe, Unlock, Connect, At, Looks, Locks, Service
<1>2. SameCommand(c) /\ call'[c].at \in Looks /\ call'[c].phase = call[c].phase
  <2>1. CASE \E step \in {"probe", "holding", "connect"} : Go(c, step)
    BY <1>1, <2>1, GoNext DEF Looks, Steps
  <2>2. CASE \E seen \in {"Running", "Unresponsive", "Stopped"} : Judge(c, seen)
    BY <1>1, <2>2, JudgeNext DEF Looks
  <2> QED
    BY <2>1, <2>2 DEF Ping, Probe, Unlock, Connect
<1>3. Changed(call[c])' /\ Saving(call[c])'
  BY <1>1, <1>2 DEF SameCommand, Sound, Changed, Untouched, Put, Saving, Looks
<1>4. Quiet(call[c])' /\ Launched(call[c])'
  BY <1>1, <1>2 DEF SameCommand, Sound, Quiet, AtRest, Launched, Looks
<1> QED
  BY <1>1, <1>2, <1>3, <1>4 DEF Keeps, Sound, Looks

LEMMA FinishServes ==
  ASSUME Followed, Followed', OneManaged', Registered', NEW c \in Callers, NEW r \in Results,
         Finish(c, r), operation = c \/ UNCHANGED <<proc, unit>>,
         r \in {"ok", "restored", "unconfirmed"} => LeavesAsReported(c)
  PROVE  Keeps(c)
<1>1. call'[c].phase = "status" /\ call'[c].result = r
  BY FinishNext DEF Followed, Locks
<1>2. Sound(call[c])'
  BY <1>1, VacuousNext DEF Followed
<1>3. LeavesAsReported(c)
  BY <1>1 DEF LeavesAsReported
<1> QED
  BY <1>2, <1>3 DEF Keeps

LEMMA DecideStartServes ==
  ASSUME Followed, Followed', OneManaged, Registered, Service, NEW c \in Callers, DecideStart(c)
  PROVE  Keeps(c)
<1> USE DEF Followed
<1>1. /\ UNCHANGED <<proc, unit>> /\ OneManaged' /\ Registered' /\ (Installed' <=> Installed)
      /\ call[c].at = "judge" /\ call[c].phase \in {"first", "second"} /\ call[c].op = "start"
      /\ Definition(unit)' = Definition(unit) /\ TypeOK
  BY Quietly, FlowOf DEF DecideStart, At, Route
<1>2. ASSUME NEW r \in {"ok", "busy", "unresponsive"}, Finish(c, r) PROVE Keeps(c)
  <2>1. call'[c].result = r
    BY <1>1, <1>2, FinishNext DEF Results
  <2>2. LeavesAsReported(c)
    BY <1>1, <2>1 DEF LeavesAsReported
  <2> QED
    BY <1>1, <1>2, <2>2, FinishServes DEF Results
<1>3. CASE /\ call[c].seen = "Stopped" /\ call[c].phase = "second"
           /\ Go(c, IF Installed THEN "start" ELSE "spawn")
  <2>1. /\ SameCommand(c) /\ call'[c].phase = "second" /\ call'[c].at \in {"start", "spawn"}
        /\ call'[c].at = "start" => Installed
    BY <1>1, <1>3, GoNext DEF Steps
  <2> QED
    BY <1>1, <2>1 DEF Keeps, SameCommand, Sound, Changed, Untouched, Put, Saving, Quiet, AtRest,
       Launched, Replacing
<1>4. CASE Look(c, "second")
  <2>1. SameCommand(c) /\ call'[c].phase = "second" /\ call'[c].at = "ping"
    BY <1>1, <1>4, LookNext DEF Phases
  <2> QED
    BY <1>1, <2>1 DEF Keeps, SameCommand, Sound, Changed, Untouched, Put, Saving, Quiet, AtRest,
       Launched, Replacing
<1> QED
  BY <1>2, <1>3, <1>4 DEF DecideStart

\* A command that goes on, having changed nothing of the service.
LEMMA MovesOn ==
  ASSUME Locks, OneManaged', Registered', Definition(unit)' = Definition(unit),
         unit' \in Units, NEW c \in Callers, operation = c,
         call'[c].op = call[c].op, call'[c].saved = call[c].saved,
         call'[c].before.managed = call[c].before.managed,
         call'[c].before.installed = call[c].before.installed,
         call'[c].at \notin {"idle", "start", "enable", "await", "spawn"},
         call'[c].phase # "status", call[c].phase # "status",
         Sound(call[c]), Untouched(call[c])' => Untouched(call[c]),
         \/ call'[c].phase # "removedrain" /\ ~(call'[c].phase = "removed" /\ call'[c].at \in Looks)
         \/ call[c].phase = "removedrain" \/ (call[c].phase = "removed" /\ call[c].at \in Looks),
         AtRest(call[c])' => unit'.active = "off"
  PROVE  Keeps(c)
<1>1. unit'.loaded = unit.loaded
  BY HeldAndCounted, DefinitionKept
<1>2. Changed(call[c])'
  BY DEF Sound, Changed, Put
<1>3. Saving(call[c])'
  BY <1>1 DEF Sound, Saving
<1>4. Quiet(call[c])' /\ Launched(call[c])'
  BY DEF Quiet, Launched
<1> QED
  BY <1>2, <1>3, <1>4 DEF Keeps, Sound

LEMMA DecideServes ==
  ASSUME Followed, Followed', OneManaged, Registered, Service, NEW c \in Callers, Decide(c)
  PROVE  Keeps(c)
<1> USE DEF Followed
<1>1. /\ UNCHANGED <<proc, unit>> /\ OneManaged' /\ Registered' /\ unit' \in Units
      /\ Definition(unit)' = Definition(unit) /\ TypeOK /\ call[c].at = "judge"
      /\ call[c] \in Call /\ Sound(call[c])
      /\ operation = c <=> call[c].phase \notin {"status", "first"}
  BY Quietly, HeldAndCounted, FlowOf DEF Decide, At, Service
<1>2. CASE call[c].phase = "status" /\ Finish(c, "ok")
  <2>1. call[c].op = "status"
    BY <1>1, <1>2, FlowOf DEF Route, Looks
  <2>2. LeavesAsReported(c)
    BY <1>1, <1>2, <2>1, FinishNext DEF LeavesAsReported, Results
  <2> QED
    BY <1>1, <1>2, <2>2, FinishServes DEF Results
<1>3. CASE call[c].phase = "prepare"
  <2> DEFINE running == call[c].seen # "Stopped" \/ call[c].before.managed
  <2> DEFINE k == [call[c] EXCEPT
              !.before.running = running, !.phase = "stop",
              !.at = IF running \/ call[c].op = "restart" THEN "halt" ELSE "change"]
  <2>1. call' = [call EXCEPT ![c] = k]
    BY <1>1, <1>3 DEF Decide, TypeOK
  <2>2. /\ [call[c].before EXCEPT !.running = running].managed = call[c].before.managed
        /\ [call[c].before EXCEPT !.running = running].installed = call[c].before.installed
    BY <1>1 DEF Call, Before
  <2>3. /\ k.at \in {"halt", "change"} /\ k.phase = "stop" /\ k.op = call[c].op
        /\ k.before = [call[c].before EXCEPT !.running = running]
        /\ k.saved = call[c].saved
        /\ k.at = "change" => ~running
    BY <1>1 DEF Call
  <2>4. call'[c] = k
    BY <1>1, <2>1 DEF TypeOK
  <2>5. k.at = "change" => AtRest(call[c])
    BY <1>3, <2>3 DEF AtRest
  <2> HIDE DEF k, running
  <2>6. /\ call'[c].at \in {"halt", "change"} /\ call'[c].phase = "stop"
        /\ call'[c].op = call[c].op /\ call'[c].saved = call[c].saved
        /\ call'[c].before.managed = call[c].before.managed
        /\ call'[c].before.installed = call[c].before.installed
    BY <2>2, <2>3, <2>4
  <2>7. AtRest(call[c])' => unit'.active = "off"
    BY <1>1, <2>4, <2>5, <2>6 DEF AtRest, Looks, Sound, Quiet
  <2>8. Untouched(call[c])
    BY <1>3 DEF Untouched
  <2> QED
    BY <1>1, <1>3, <2>6, <2>7, <2>8, MovesOn
<1>4. CASE call[c].phase = "blame" /\ Recover(c)
  <2>1. SameCommand(c) /\ call'[c].at = "halt" /\ call'[c].phase = "undo"
    BY <1>1, <1>4, RecoverNext
  <2>2. Untouched(call[c]) /\ ~AtRest(call[c])'
    BY <1>4, <2>1 DEF Untouched, AtRest, Looks
  <2> QED
    BY <1>1, <1>4, <2>1, <2>2, MovesOn DEF SameCommand
<1>5. CASE call[c].phase = "blame" /\ Finish(c, "unconfirmed")
  <2>1. Definition(unit)' = call[c].saved
    BY <1>1, <1>5 DEF Sound, Changed, Untouched
  <2>2. LeavesAsReported(c)
    BY <1>1, <1>5, <2>1, FinishNext DEF LeavesAsReported, Results
  <2> QED
    BY <1>1, <1>5, <2>2, FinishServes DEF Results
<1> QED
  BY <1>2, <1>3, <1>4, <1>5 DEF Decide

\* The unconfirmed stop of a command that has not begun to change anything.
LEMMA StopFailedServes ==
  ASSUME Followed, Followed', OneManaged, Registered, Service, NEW c \in Callers,
         StopFailed(c), call[c].at \in {"halt", "halting"}, UNCHANGED <<proc, unit>>
  PROVE  Keeps(c)
<1> USE DEF Followed
<1>1. /\ OneManaged' /\ Registered' /\ unit' \in Units
      /\ Definition(unit)' = Definition(unit) /\ TypeOK
      /\ call[c] \in Call /\ Sound(call[c])
      /\ operation = c <=> call[c].phase \notin {"status", "first"}
      /\ call[c].phase \in {"stop", "undo", "removed"}
      /\ call[c].phase = "removed" => call[c].op = "uninstall"
  BY Quietly, HeldAndCounted, FlowOf DEF Service, Route, Looks
<1>2. ASSUME NEW r \in {"unrecovered", "failed", "unconfirmed"}, Finish(c, r),
             r = "unconfirmed" => call[c].phase = "stop"
      PROVE  Keeps(c)
  <2>1. call[c].phase = "stop" => Untouched(call[c])
    BY <1>2 DEF Untouched
  <2>2. r = "unconfirmed" => Definition(unit)' = call[c].saved
    BY <1>1, <1>2, <2>1 DEF Sound, Changed
  <2>3. LeavesAsReported(c)
    BY <1>1, <1>2, <2>2, FinishNext DEF LeavesAsReported, Results
  <2> QED
    BY <1>1, <1>2, <2>3, FinishServes DEF Results
<1>3. CASE call[c].phase = "stop" /\ Look(c, "blame")
  <2>1. SameCommand(c) /\ call'[c].at = "ping" /\ call'[c].phase = "blame"
    BY <1>1, <1>3, LookNext DEF Phases
  <2>2. Untouched(call[c]) /\ ~AtRest(call[c])'
    BY <1>3, <2>1 DEF Untouched, AtRest, Looks
  <2> QED
    BY <1>1, <1>3, <2>1, <2>2, MovesOn DEF SameCommand
<1> QED
  BY <1>1, <1>2, <1>3 DEF StopFailed

LEMMA HaltServes ==
  ASSUME Followed, Followed', OneManaged, Registered, Service, NEW c \in Callers,
         Halted(c) \/ NothingToHalt(c)
  PROVE  Keeps(c)
<1> USE DEF Followed
<1>1. /\ UNCHANGED <<proc, unit>> /\ OneManaged' /\ Registered' /\ unit' \in Units
      /\ Definition(unit)' = Definition(unit) /\ TypeOK
      /\ call[c].at \in {"halt", "halting"} /\ Sound(call[c])
      /\ call[c].phase \in {"stop", "undo", "removed"} /\ operation = c
  BY Quietly, HeldAndCounted, FlowOf DEF Halted, NothingToHalt, At, Service, Route, Looks
<1>2. CASE StopFailed(c)
  BY <1>1, <1>2, StopFailedServes
<1>3. CASE ~ManagerRuns /\ Go(c, IF call[c].phase = "removed" THEN "remove" ELSE "ping")
  <2>1. /\ SameCommand(c) /\ call'[c].phase = call[c].phase
        /\ call'[c].at = IF call[c].phase = "removed" THEN "remove" ELSE "ping"
    BY <1>1, <1>3, GoNext DEF Steps
  <2>2. unit'.active = "off"
    BY <1>1, <1>3 DEF ManagerRuns
  <2>3. Untouched(call[c])' => Untouched(call[c])
    BY <1>1, <2>1 DEF SameCommand, Untouched
  <2> QED
    BY <1>1, <2>1, <2>2, <2>3, MovesOn DEF SameCommand, Looks
<1>4. CASE NothingToHalt(c)
  <2>1. ~ManagerRuns
    BY <1>4 DEF NothingToHalt, Registered
  <2> QED
    BY <1>3, <1>4, <2>1 DEF NothingToHalt
<1> QED
  BY <1>2, <1>3, <1>4 DEF Halted

LEMMA HaltServiceServes ==
  ASSUME Followed, Followed', OneManaged, Registered, Service, NEW c \in Callers,
         HaltService(c)
  PROVE  Keeps(c)
<1> USE DEF Followed
<1>1. /\ TypeOK /\ call[c].at = "halt" /\ Sound(call[c]) /\ unit \in Units /\ Installed
      /\ call[c].phase \in {"stop", "undo", "removed"} /\ operation = c
  BY HeldAndCounted, FlowOf DEF HaltService, At, Service, Route, Looks
<1>2. CASE StopFailed(c) /\ UNCHANGED <<proc, unit>>
  BY <1>1, <1>2, StopFailedServes
<1>3. CASE /\ proc' = Signalled /\ Go(c, "halting")
           /\ unit' = [unit EXCEPT !.active =
                IF \E p \in Procs : proc[p].managed /\ Signalled[p].at # "gone"
                THEN "ending" ELSE "off"]
  <2>1. SameCommand(c) /\ call'[c].phase = call[c].phase /\ call'[c].at = "halting"
    BY <1>1, <1>3, GoNext DEF Steps
  <2>2. /\ unit'.file = unit.file /\ unit'.loaded = unit.loaded /\ unit'.enabled = unit.enabled
        /\ (\E p \in Procs : proc[p].managed /\ Signalled[p].at # "gone") =>
             unit'.active = "ending"
        /\ unit' \in Units
    BY <1>1, <1>3 DEF Units
  <2>3. Definition(unit)' = Definition(unit) /\ Registered'
    BY <1>1, <2>2 DEF Definition, Registered, Installed
  <2>4. ASSUME NEW p \in Procs, proc'[p].managed, Alive(p)'
        PROVE  proc[p].managed /\ Alive(p) /\ Signalled[p].at # "gone"
    BY <1>3, <2>4, SignalledIs, HeldAndCounted DEF Alive
  <2>5. OneManaged'
    BY <2>2, <2>4 DEF OneManaged
  <2>6. Untouched(call[c])' => Untouched(call[c])
    BY <1>1, <2>1 DEF SameCommand, Untouched
  <2>7. ~AtRest(call[c])'
    BY <1>1, <2>1 DEF AtRest, Looks
  <2> QED
    BY <1>1, <2>1, <2>2, <2>3, <2>5, <2>6, <2>7, MovesOn DEF SameCommand, Looks
<1> QED
  BY <1>2, <1>3 DEF HaltService

LEMMA ShutdownServes ==
  ASSUME Followed, Followed', OneManaged, Registered, Service, NEW c \in Callers, Shutdown(c)
  PROVE  Keeps(c)
<1> USE DEF Followed
<1>1. /\ TypeOK /\ call[c].at = "judge" /\ Sound(call[c]) /\ unit' = unit /\ unit \in Units
      /\ call[c].phase \in {"stop", "undo", "removed"} /\ operation = c
  BY HeldAndCounted, FlowOf DEF Shutdown, At, Service
<1>2. Registered' /\ Definition(unit)' = Definition(unit)
  BY <1>1 DEF Registered, Definition, Installed, ManagerRuns
<1>3. OneManaged'
  <2>1. CASE UNCHANGED proc
    BY <1>1, <2>1, Quietly
  <2>2. CASE endpoint \in Procs /\ proc[endpoint].at = "serving" /\ To(endpoint, "stopping")
    <3>1. proc[endpoint] \in Process
      BY <2>2, HeldAndCounted DEF Held
    <3>2. /\ proc'[endpoint].managed = proc[endpoint].managed
          /\ \A q \in Procs \ {endpoint} : proc'[q] = proc[q]
      BY <2>2, <3>1, ToTyped, HeldAndCounted DEF ProcStages, Process
    <3> QED
      BY <1>1, <2>2, <3>2 DEF OneManaged, Alive
  <2>3. CASE endpoint \in Procs /\ proc' = [proc EXCEPT ![endpoint].doomed = TRUE]
    <3>1. proc[endpoint] \in Process
      BY <2>3, HeldAndCounted DEF Held
    <3>2. \A q \in Procs : proc'[q].at = proc[q].at /\ proc'[q].managed = proc[q].managed
      BY <2>3, <3>1, HeldAndCounted DEF Held, Process
    <3> QED
      BY <1>1, <3>2 DEF OneManaged, Alive
  <2> QED
    BY <2>1, <2>2, <2>3 DEF Shutdown
<1>4. /\ SameCommand(c) /\ call'[c].at = "ping"
      /\ call'[c].phase = Draining(call[c].phase)
  BY <1>1, LookNext DEF Shutdown, Draining, Phases
<1>5. /\ call[c].phase = "stop" => call'[c].phase = "drain"
      /\ call[c].phase = "undo" => call'[c].phase = "undrain"
      /\ call[c].phase = "removed" => call'[c].phase = "removedrain"
  BY <1>4 DEF Draining
<1>6. Untouched(call[c])' => Untouched(call[c])
  BY <1>1, <1>4, <1>5 DEF SameCommand, Untouched
<1>7. unit.active = "off"
  BY <1>1 DEF Sound, Quiet, AtRest, Looks
<1> QED
  BY <1>1, <1>2, <1>3, <1>4, <1>5, <1>6, <1>7, MovesOn DEF SameCommand, Looks

LEMMA WaitStoppedServes ==
  ASSUME Followed, Followed', OneManaged, Registered, Service, NEW c \in Callers,
         WaitStopped(c)
  PROVE  Keeps(c)
<1> USE DEF Followed
<1>1. /\ TypeOK /\ call[c].at = "judge" /\ Sound(call[c]) /\ UNCHANGED <<proc, unit>>
      /\ call[c].phase \in {"drain", "undrain", "removedrain"} /\ operation = c
      /\ OneManaged' /\ Registered' /\ Definition(unit)' = Definition(unit) /\ unit' \in Units
      /\ call[c].phase = "drain" => call[c].op \in {"stop", "restart", "install"}
      /\ call[c].phase = "undrain" => call[c].op \in {"restart", "install"}
      /\ call[c].phase = "removedrain" => call[c].op = "uninstall"
  BY Quietly, HeldAndCounted, FlowOf DEF WaitStopped, At, Service, Route, Replacing
<1>2. unit'.active = "off" /\ (call[c].phase = "removedrain" => Definition(unit) = NotSaved)
  BY <1>1 DEF Sound, Quiet, AtRest, Looks, Changed
<1>3. call[c].phase = "drain" => Untouched(call[c]) /\ Definition(unit) = call[c].saved
  BY <1>1 DEF Sound, Changed, Untouched
<1>4. ASSUME NEW r \in {"ok", "unrecovered", "unconfirmed"}, Finish(c, r),
             r = "ok" => call[c].phase = "removedrain" \/ call[c].op = "stop",
             r = "unconfirmed" => call[c].phase # "undrain"
      PROVE  Keeps(c)
  <2>1. LeavesAsReported(c)
    BY <1>1, <1>2, <1>3, <1>4, FinishNext DEF LeavesAsReported, Results
  <2> QED
    BY <1>1, <1>4, <2>1, FinishServes DEF Results
<1>5. ASSUME NEW step \in {"ping", "change"}, Go(c, step),
             step = "change" => call[c].phase = "drain"
      PROVE  Keeps(c)
  <2>1. SameCommand(c) /\ call'[c].phase = call[c].phase /\ call'[c].at = step
    BY <1>1, <1>5, GoNext DEF Steps
  <2>2. Untouched(call[c])' => Untouched(call[c])
    BY <1>1, <2>1 DEF SameCommand, Untouched
  <2> QED
    BY <1>1, <1>2, <1>5, <2>1, <2>2, MovesOn DEF SameCommand
<1>6. CASE call[c].phase = "drain" /\ Look(c, "blame")
  <2>1. SameCommand(c) /\ call'[c].phase = "blame" /\ call'[c].at = "ping"
    BY <1>1, <1>6, LookNext DEF Phases
  <2> QED
    BY <1>1, <1>2, <1>3, <1>6, <2>1, MovesOn DEF SameCommand
<1>7. CASE /\ call[c].phase = "undrain"
           /\ call' = [call EXCEPT ![c].at = "restore", ![c].phase = "undo"]
  <2>1. SameCommand(c) /\ call'[c].phase = "undo" /\ call'[c].at = "restore"
    <3>1. call[c] \in Call /\ call \in [Callers -> Call]
      BY <1>1 DEF TypeOK
    <3>2. call'[c] = [call[c] EXCEPT !.at = "restore", !.phase = "undo"]
      BY <1>7, <3>1
    <3> QED
      BY <3>1, <3>2 DEF Call, SameCommand
  <2>2. Untouched(call[c])' => Untouched(call[c])
    BY <1>7, <2>1 DEF SameCommand, Untouched
  <2> QED
    BY <1>1, <1>2, <1>7, <2>1, <2>2, MovesOn DEF SameCommand
<1> QED
  BY <1>1, <1>4, <1>5, <1>6, <1>7 DEF WaitStopped

Launching == {"change", "spawn", "start", "enable", "await"}
Bare(k) == k.op = "restart" /\ ~k.before.installed

\* A change that failed: the service may be half changed, the manager knows one if there was one.
LEMMA FailedServes ==
  ASSUME Followed, Followed', OneManaged', Registered', Service, NEW c \in Callers,
         Failed(c), call[c].at \in Launching,
         call[c].op \in Replacing /\ call[c].saved.file # "none" => unit'.loaded # "none",
         Bare(call[c]) => Definition(unit)' = call[c].saved
  PROVE  Keeps(c)
<1> USE DEF Followed
<1>1. /\ TypeOK /\ Sound(call[c]) /\ operation = c
      /\ call[c].phase # "status"
      /\ call[c].op # "start" => call[c].op \in Replacing
  BY FlowOf DEF Service, Route, Looks, Launching
<1>2. ASSUME NEW r \in {"failed", "unrecovered"}, Finish(c, r) PROVE Keeps(c)
  BY <1>1, <1>2, FinishServes DEF Results
<1>3. CASE call[c].op \in Replacing /\ Recover(c)
  <2>1. SameCommand(c) /\ call'[c].at = "halt" /\ call'[c].phase = "undo"
    BY <1>1, <1>3, RecoverNext
  <2>2. Changed(call[c])'
    BY <2>1 DEF SameCommand, Changed, Untouched, Put, Bare
  <2>3. Saving(call[c])'
    BY <1>1, <1>3, <2>1 DEF SameCommand, Sound, Saving
  <2>4. Quiet(call[c])' /\ Launched(call[c])'
    BY <2>1 DEF Quiet, AtRest, Looks, Launched
  <2> QED
    BY <1>1, <2>1, <2>2, <2>3, <2>4 DEF Keeps, Sound
<1> QED
  BY <1>1, <1>2, <1>3 DEF Failed

\* What is known of a command that changes the service.
LEMMA ChangingKnows ==
  ASSUME Followed, Service, NEW c \in Callers, call[c].at \in Launching
  PROVE  /\ TypeOK /\ unit \in Units /\ call[c] \in Call /\ operation = c
         /\ Route(call[c]) /\ Remembers(call[c])
         /\ Changed(call[c]) /\ Saving(call[c]) /\ Quiet(call[c]) /\ Launched(call[c])
         /\ call[c].op # "start" => call[c].op \in Replacing /\ call[c].phase # "status"
         /\ call[c].op \in Replacing => call[c].phase \in {"stop", "drain", "undo"}
         /\ Bare(call[c]) => Untouched(call[c]) /\ Definition(unit) = call[c].saved
<1> USE DEF Followed
<1>1. /\ TypeOK /\ unit \in Units /\ call[c] \in Call /\ operation = c
      /\ Route(call[c]) /\ Remembers(call[c]) /\ Sound(call[c])
      /\ call[c].op # "start" => call[c].op \in Replacing /\ call[c].phase # "status"
      /\ call[c].op \in Replacing => call[c].phase \in {"stop", "drain", "undo"}
  BY HeldAndCounted, FlowOf DEF Service, Route, Looks, Launching, Replacing
<1>2. Bare(call[c]) => Untouched(call[c])
  BY <1>1 DEF Bare, Untouched
<1> QED
  BY <1>1, <1>2 DEF Sound, Changed

LEMMA SpawnServes ==
  ASSUME Followed, Followed', OneManaged, Registered, Service, NEW c \in Callers, Spawn(c)
  PROVE  Keeps(c)
<1> USE DEF Followed
<1>1. call[c].at \in Launching /\ unit' = unit
  BY DEF Spawn, At, Launching
<1>2. PICK p \in Procs : Free(p) /\ proc' = Fork(p, FALSE, Current)
  BY DEF Spawn
<1>3. Undisturbed
  BY <1>1, <1>2, ForkUndisturbed
<1>4. SameCommand(c) /\ call'[c].phase = call[c].phase /\ call'[c].at = "await"
  BY <1>1, ChangingKnows, GoNext DEF Spawn, Steps
<1>5. call[c].at = "spawn" \/ (call[c].at = "change" /\ Bare(call[c]))
  BY DEF Spawn, At, Bare
<1>6. Changed(call[c])'
  <2>1. Untouched(call[c])' => Bare(call[c])
    BY <1>1, <1>4, <1>5, ChangingKnows DEF SameCommand, Untouched, Bare, Route, Looks
  <2>2. ~Put(call[c])'
    BY <1>1, <1>4, <1>5, ChangingKnows DEF SameCommand, Put, Bare, Route, Looks, Replacing
  <2>3. call[c].phase = "undo" => Definition(unit) = call[c].saved
    BY <1>1, <1>5, ChangingKnows DEF Changed
  <2> QED
    BY <1>1, <1>3, <1>4, <2>1, <2>2, <2>3, ChangingKnows
       DEF SameCommand, Changed, Undisturbed, Looks
<1>7. Saving(call[c])'
  BY <1>1, <1>4, ChangingKnows DEF SameCommand, Saving
<1>8. call[c].phase = "undo" => ~call[c].before.managed /\ unit.active = "off"
  BY <1>1, <1>5, ChangingKnows DEF Launched, Quiet, AtRest, Route, Replacing, Looks
<1>9. Quiet(call[c])' /\ Launched(call[c])'
  <2>1. AtRest(call[c])' => call[c].phase = "undo"
    <3>1. call[c].phase \in {"second", "stop", "drain", "undo"}
      BY <1>1, <1>5, ChangingKnows DEF Route, Looks, Replacing
    <3> QED
      BY <1>4, <3>1 DEF AtRest, Looks
  <2>2. Quiet(call[c])'
    BY <1>1, <1>8, <2>1 DEF Quiet
  <2>3. Launched(call[c])'
    BY <1>4, <1>8 DEF SameCommand, Launched
  <2> QED
    BY <2>2, <2>3
<1> QED
  BY <1>1, <1>3, <1>4, <1>6, <1>7, <1>9, ChangingKnows DEF Keeps, Sound, Undisturbed

LEMMA InstallUnitServes ==
  ASSUME Followed, Followed', OneManaged, Registered, Service, NEW c \in Callers, InstallUnit(c)
  PROVE  Keeps(c)
<1> USE DEF Followed
<1>1. /\ call[c].at = "change" /\ call[c].at \in Launching /\ ~Bare(call[c])
      /\ UNCHANGED proc
  BY DEF InstallUnit, At, Launching, Bare
<1>2. /\ call[c].op \in Replacing /\ call[c].phase \in {"stop", "drain"} /\ operation = c
      /\ Definition(unit) = call[c].saved /\ unit.active = "off"
  <2>1. call[c].op \in Replacing /\ call[c].phase \in {"stop", "drain"} /\ operation = c
    BY <1>1, ChangingKnows DEF Route, Looks
  <2>2. Untouched(call[c]) /\ AtRest(call[c])
    BY <1>1, <2>1 DEF Untouched, AtRest
  <2> QED
    BY <1>1, <2>1, <2>2, ChangingKnows DEF Changed, Quiet
<1>3. unit \in Units /\ \A p \in Procs : ~(proc[p].managed /\ Alive(p))
  BY <1>1, <1>2, ChangingKnows DEF OneManaged
<1>4. OneManaged'
  BY <1>1, <1>3 DEF OneManaged, Alive
<1>5. ASSUME unit' = [unit EXCEPT !.file = "fresh", !.loaded = "fresh", !.enabled = TRUE],
             Go(c, "start")
      PROVE  Keeps(c)
  <2>1. SameCommand(c) /\ call'[c].phase = call[c].phase /\ call'[c].at = "start"
    BY <1>1, <1>5, ChangingKnows, GoNext DEF Steps
  <2>2. /\ unit'.file = "fresh" /\ unit'.loaded = "fresh" /\ unit'.enabled = TRUE
        /\ unit'.active = "off"
    BY <1>2, <1>3, <1>5 DEF Units
  <2>3. Definition(unit)' = Fresh
    BY <2>2 DEF Definition, Fresh
  <2>4. Registered' /\ Installed'
    BY <2>2 DEF Registered, Installed
  <2>5. Changed(call[c])'
    BY <1>1, <1>2, <2>1, <2>3 DEF SameCommand, Changed, Untouched, Bare, Looks
  <2>6. Saving(call[c])'
    BY <1>1, <2>1, <2>2, ChangingKnows DEF SameCommand, Saving
  <2>7. Quiet(call[c])' /\ Launched(call[c])'
    BY <1>2, <2>1, <2>2, <2>4 DEF SameCommand, Quiet, Launched
  <2> QED
    BY <1>2, <1>4, <2>1, <2>4, <2>5, <2>6, <2>7 DEF Keeps, Sound
<1>6. ASSUME Failed(c), NEW loaded \in {unit.file, unit.loaded, "fresh"},
             NEW enabled \in {unit.enabled, TRUE},
             unit' = [unit EXCEPT !.loaded = loaded, !.enabled = enabled]
      PROVE  Keeps(c)
  <2>1. unit'.loaded = loaded /\ unit'.file = unit.file /\ unit'.active = "off"
    BY <1>2, <1>3, <1>6 DEF Units
  <2>2. Registered'
    BY <2>1 DEF Registered, ManagerRuns
  <2>3. call[c].saved.loaded = call[c].saved.file
    BY <1>1, <1>2, ChangingKnows DEF Saving
  <2>4. unit.file = call[c].saved.file /\ unit.loaded = call[c].saved.loaded
    BY <1>2 DEF Definition
  <2>5. call[c].saved.file # "none" => unit'.loaded # "none"
    BY <2>1, <2>3, <2>4
  <2> QED
    BY <1>1, <1>4, <1>6, <2>2, <2>5, FailedServes
<1> QED
  BY <1>5, <1>6 DEF InstallUnit, RolledBack

LEMMA StartUnitServes ==
  ASSUME Followed, Followed', OneManaged, Registered, Service, NEW c \in Callers, StartUnit(c)
  PROVE  Keeps(c)
<1> USE DEF Followed
<1>1. /\ call[c].at = "start" /\ call[c].at \in Launching /\ TypeOK /\ unit \in Units
      /\ operation = c /\ Saving(call[c]) /\ Installed
  BY ChangingKnows DEF StartUnit, At, Launching, Launched
<1>2. /\ OneManaged' /\ Registered' /\ Definition(unit)' = Definition(unit)
      /\ unit'.loaded = unit.loaded /\ (Installed' <=> Installed)
      /\ unit.active = "off" => Upright' \/ Failed(c)
  <2>1. CASE UNCHANGED <<proc, unit>> /\ unit.active # "off"
    BY <2>1, Quietly
  <2>2. CASE /\ unit.active \notin {"on", "ending"} /\ unit' = [unit EXCEPT !.active = "on"]
             /\ \E p \in Procs, api \in ApiOf(unit) : Free(p) /\ proc' = Fork(p, TRUE, api)
    <3>1. PICK p \in Procs, api \in ApiOf(unit) : Free(p) /\ proc' = Fork(p, TRUE, api)
      BY <2>2
    <3>2. /\ proc'[p].at = "forked" /\ ~proc'[p].doomed
          /\ \A q \in Procs \ {p} : proc'[q] = proc[q]
      BY <3>1, HeldAndCounted DEF Fork, Held
    <3>3. /\ unit'.file = unit.file /\ unit'.loaded = unit.loaded /\ unit'.enabled = unit.enabled
          /\ unit'.active = "on"
      BY <1>1, <2>2 DEF Units
    <3>4. \A q \in Procs : proc'[q].managed /\ Alive(q)' => q = p
      BY <2>2, <3>2 DEF OneManaged, Alive
    <3>5. OneManaged' /\ Upright'
      BY <3>2, <3>3, <3>4 DEF OneManaged, Upright
    <3>6. Registered' /\ Definition(unit)' = Definition(unit) /\ (Installed' <=> Installed)
      BY <1>1, <3>3 DEF Registered, Installed, Definition
    <3> QED
      BY <3>3, <3>5, <3>6
  <2>3. CASE UNCHANGED <<proc, unit>> /\ Failed(c)
    BY <2>3, Quietly
  <2> QED
    BY <2>1, <2>2, <2>3 DEF StartUnit
<1>3. CASE Failed(c)
  <2>1. call[c].op \in Replacing /\ call[c].saved.file # "none" => unit'.loaded # "none"
    BY <1>1, <1>2, ChangingKnows DEF Saving
  <2>2. Bare(call[c]) => Definition(unit)' = call[c].saved
    BY <1>1, <1>2, ChangingKnows
  <2> QED
    BY <1>1, <1>2, <1>3, <2>1, <2>2, FailedServes
<1>4. CASE ~Failed(c)
  <2>1. /\ Go(c, IF call[c].op = "restart" /\ call[c].phase # "undo" THEN "enable" ELSE "await")
        /\ unit.active = "off" => Upright'
    BY <1>2, <1>4 DEF StartUnit
  <2>2. /\ SameCommand(c) /\ call'[c].phase = call[c].phase
        /\ call'[c].at = IF call[c].op = "restart" /\ call[c].phase # "undo"
                         THEN "enable" ELSE "await"
    BY <1>1, <2>1, GoNext DEF Steps
  <2>3. call[c].phase # "undo" => ~Bare(call[c])
    BY <1>1, ChangingKnows DEF Remembers, Bare, Replacing
  <2>4. Changed(call[c])'
    <3>1. Untouched(call[c])' => Definition(unit)' = call'[c].saved
      BY <1>1, <1>2, <2>2, ChangingKnows DEF SameCommand, Untouched, Bare, Route, Looks
    <3>2. Put(call[c]) => Definition(unit)' = Fresh
      BY <1>1, <1>2, ChangingKnows DEF Changed
    <3>3. Put(call[c])' => Put(call[c])
      BY <2>2 DEF SameCommand, Put
    <3>4. Put(call[c])' /\ call'[c].at = "await" => call'[c].op = "install"
      BY <2>2 DEF SameCommand, Put, Replacing
    <3>5. call'[c].phase = "undo" => Definition(unit)' = call'[c].saved
      BY <1>1, <1>2, <2>2, ChangingKnows DEF SameCommand, Changed
    <3>6. call'[c].phase # "removedrain" /\ call'[c].phase # "removed"
      BY <1>1, <2>2, ChangingKnows DEF Route, Looks
    <3> QED
      BY <3>1, <3>2, <3>3, <3>4, <3>5, <3>6 DEF Changed
  <2>5. Saving(call[c])'
    BY <1>1, <1>2, <2>2, ChangingKnows DEF SameCommand, Saving
  <2>6. call[c].phase = "undo" => call[c].before.managed /\ unit.active = "off"
    BY <1>1, ChangingKnows DEF Launched, Quiet, AtRest
  <2>7. Quiet(call[c])'
    <3>1. ~AtRest(call[c])'
      BY <1>1, <2>2, <2>6, ChangingKnows DEF SameCommand, AtRest, Looks, Route
    <3> QED
      BY <3>1 DEF Quiet
  <2>8. Launched(call[c])'
    BY <2>1, <2>2, <2>6 DEF Launched
  <2> QED
    BY <1>1, <1>2, <2>2, <2>4, <2>5, <2>7, <2>8 DEF Keeps, Sound
<1> QED
  BY <1>3, <1>4

LEMMA SetEnabledServes ==
  ASSUME Followed, Followed', OneManaged, Registered, Service, NEW c \in Callers, SetEnabled(c)
  PROVE  Keeps(c)
<1> USE DEF Followed
<1>1. /\ call[c].at = "enable" /\ call[c].at \in Launching /\ TypeOK /\ unit \in Units
      /\ operation = c /\ UNCHANGED proc
  BY ChangingKnows DEF SetEnabled, At, Launching
<1>2. /\ call[c].op = "restart" /\ ~Bare(call[c]) /\ call[c].phase \in {"stop", "drain"}
      /\ Definition(unit) = Fresh
  <2>1. call[c].op = "restart" /\ ~Bare(call[c]) /\ call[c].phase \in {"stop", "drain"}
    BY <1>1, ChangingKnows DEF Remembers, Bare, Route, Looks
  <2>2. Put(call[c])
    BY <2>1 DEF Put, Bare, Replacing
  <2> QED
    BY <1>1, <2>1, <2>2, ChangingKnows DEF Changed
<1>3. unit.file = "fresh" /\ unit.loaded = "fresh"
  BY <1>2 DEF Definition, Fresh
<1>4. CASE Failed(c)
  <2>1. /\ unit'.file = unit.file /\ unit'.loaded = unit.loaded /\ unit'.active = unit.active
    BY <1>1 DEF SetEnabled, Units
  <2>2. OneManaged' /\ Registered'
    BY <1>1, <2>1 DEF OneManaged, Registered, Installed, ManagerRuns, Alive
  <2> QED
    BY <1>1, <1>2, <1>3, <1>4, <2>1, <2>2, FailedServes
<1>5. CASE unit' = [unit EXCEPT !.enabled = call[c].saved.enabled] /\ Go(c, "await")
  <2>1. /\ unit'.file = "fresh" /\ unit'.loaded = "fresh" /\ unit'.active = unit.active
        /\ unit'.enabled = call[c].saved.enabled
    BY <1>1, <1>3, <1>5 DEF Units
  <2>2. OneManaged' /\ Registered'
    BY <1>1, <2>1 DEF OneManaged, Registered, Installed, ManagerRuns, Alive
  <2>3. SameCommand(c) /\ call'[c].phase = call[c].phase /\ call'[c].at = "await"
    BY <1>1, <1>5, GoNext DEF Steps
  <2>4. Definition(unit)' = [Fresh EXCEPT !.enabled = call[c].saved.enabled]
    BY <2>1 DEF Definition, Fresh
  <2>5. Changed(call[c])'
    BY <1>2, <2>3, <2>4 DEF SameCommand, Changed, Untouched, Bare
  <2>6. Saving(call[c])'
    BY <1>1, <2>1, <2>3, ChangingKnows DEF SameCommand, Saving
  <2>7. Quiet(call[c])' /\ Launched(call[c])'
    BY <1>2, <2>3 DEF Quiet, AtRest, Launched, Looks
  <2> QED
    BY <1>1, <2>2, <2>3, <2>5, <2>6, <2>7 DEF Keeps, Sound
<1> QED
  BY <1>4, <1>5 DEF SetEnabled

LEMMA WaitRunningServes ==
  ASSUME Followed, Followed', OneManaged, Registered, Service, NEW c \in Callers, WaitRunning(c)
  PROVE  Keeps(c)
<1> USE DEF Followed
<1>1. /\ call[c].at = "await" /\ call[c].at \in Launching /\ TypeOK
      /\ operation = c /\ UNCHANGED <<proc, unit>> /\ Saving(call[c])
      /\ OneManaged' /\ Registered' /\ Definition(unit)' = Definition(unit)
  BY ChangingKnows, Quietly DEF WaitRunning, At, Launching
<1>2. CASE Failed(c)
  <2>1. call[c].op \in Replacing /\ call[c].saved.file # "none" => unit'.loaded # "none"
    BY <1>1, ChangingKnows DEF Saving
  <2>2. Bare(call[c]) => Definition(unit)' = call[c].saved
    BY <1>1, ChangingKnows
  <2> QED
    BY <1>1, <1>2, <2>1, <2>2, FailedServes
<1>3. CASE call[c].phase = "undo" /\ Finish(c, "restored")
  <2>1. Definition(unit) = call[c].saved
    BY <1>1, <1>3, ChangingKnows DEF Changed
  <2>2. call[c].before.managed <=> unit.active # "off"
    BY <1>1, <1>3, ChangingKnows DEF Launched, Upright, Quiet, AtRest
  <2>3. LeavesAsReported(c)
    BY <1>1, <1>3, <2>1, <2>2, FinishNext DEF LeavesAsReported, Results
  <2> QED
    BY <1>1, <1>3, <2>3, FinishServes DEF Results
<1>4. CASE call[c].phase # "undo" /\ Finish(c, "ok")
  <2>1. call[c].op \in {"start", "restart", "install"}
    BY <1>1, ChangingKnows DEF Replacing
  <2>2. call[c].op = "install" \/ (call[c].op = "restart" /\ call[c].before.installed) =>
          Put(call[c])
    BY <1>1, <1>4, ChangingKnows DEF Put, Replacing
  <2>3. Put(call[c]) => Definition(unit) = IF call[c].op = "install" THEN Fresh
                          ELSE [Fresh EXCEPT !.enabled = call[c].saved.enabled]
    BY <1>1, ChangingKnows DEF Changed
  <2>4. call'[c].result = "ok"
    BY <1>1, <1>4, FinishNext DEF Results
  <2>5. LeavesAsReported(c)
    BY <1>1, <2>1, <2>2, <2>3, <2>4 DEF LeavesAsReported
  <2> QED
    BY <1>1, <1>4, <2>5, FinishServes DEF Results
<1> QED
  BY <1>2, <1>3, <1>4 DEF WaitRunning

LEMMA RemoveUnitServes ==
  ASSUME Followed, Followed', OneManaged, Registered, Service, NEW c \in Callers, RemoveUnit(c)
  PROVE  Keeps(c)
<1> USE DEF Followed
<1>1. /\ call[c].at = "remove" /\ call[c].op = "uninstall" /\ call[c].phase = "removed"
      /\ TypeOK /\ operation = c /\ unit \in Units /\ UNCHANGED proc
      /\ Sound(call[c])
  BY HeldAndCounted, FlowOf DEF RemoveUnit, At, Route, Looks, Service
<1>2. unit.active = "off"
  BY <1>1 DEF Sound, Quiet, AtRest
<1> DEFINE off == [unit EXCEPT !.enabled = FALSE]
           removed == [off EXCEPT !.file = "none"]
           reloaded == [removed EXCEPT !.loaded = "none"]
<1>3. ASSUME unit' \in {unit, off, removed, reloaded}
      PROVE  /\ unit'.active = "off" /\ (unit'.loaded = "none" => unit'.file = "none")
             /\ OneManaged' /\ Registered'
  <2>1. unit'.active = "off" /\ (unit'.loaded = "none" => unit'.file = "none")
    BY <1>1, <1>2, <1>3 DEF Units, Registered
  <2>2. \A p \in Procs : ~(proc[p].managed /\ Alive(p))
    BY <1>2 DEF OneManaged
  <2> QED
    BY <1>1, <2>1, <2>2 DEF OneManaged, Registered, ManagerRuns, Alive
<1>4. CASE unit' = reloaded /\ Look(c, "removed")
  <2>1. SameCommand(c) /\ call'[c].phase = "removed" /\ call'[c].at = "ping"
    BY <1>1, <1>4, LookNext DEF Phases
  <2>2. /\ unit'.file = "none" /\ unit'.loaded = "none" /\ unit'.enabled = FALSE
        /\ unit'.active = "off"
    BY <1>1, <1>2, <1>4 DEF Units
  <2>3. Definition(unit)' = NotSaved
    BY <2>2 DEF Definition, NotSaved
  <2>4. Sound(call[c])'
    BY <1>1, <2>1, <2>2, <2>3 DEF SameCommand, Sound, Changed, Untouched, Put, Saving, Quiet,
       Launched, Replacing
  <2> QED
    BY <1>1, <1>3, <1>4, <2>1, <2>4 DEF Keeps
<1>5. CASE Finish(c, "failed") /\ unit' \in {unit, off, removed, reloaded}
  BY <1>1, <1>3, <1>5, FinishServes DEF Results
<1> QED
  BY <1>4, <1>5 DEF RemoveUnit

LEMMA RestoreServes ==
  ASSUME Followed, Followed', OneManaged, Registered, Service, NEW c \in Callers, Restore(c)
  PROVE  Keeps(c)
<1> USE DEF Followed
<1>1. /\ call[c].at = "restore" /\ call[c].op \in Replacing /\ call[c].phase = "undo"
      /\ TypeOK /\ operation = c /\ unit \in Units /\ UNCHANGED proc
      /\ Sound(call[c]) /\ call[c] \in Call /\ Remembers(call[c])
  BY HeldAndCounted, FlowOf DEF Restore, At, Route, Looks, Service
<1>2. /\ unit.active = "off" /\ call[c].saved.loaded = call[c].saved.file
      /\ call[c].saved.file # "none" => unit.loaded # "none"
      /\ call[c].before.managed =>
           call[c].saved.file # "none" /\ call[c].before.installed /\ call[c].before.running
      /\ Bare(call[c]) => Definition(unit) = call[c].saved
  BY <1>1 DEF Sound, Quiet, AtRest, Saving, Changed, Untouched, Bare, Remembers
<1>3. \A p \in Procs : ~(proc[p].managed /\ Alive(p))
  BY <1>2 DEF OneManaged
<1>4. ASSUME AfterRestore(c), unit'.active = "off", Definition(unit)' = call[c].saved,
             Registered', unit'.loaded = call[c].saved.loaded,
             call[c].before.managed => Installed'
      PROVE  Keeps(c)
  <2>1. OneManaged'
    BY <1>1, <1>3 DEF OneManaged, Alive
  <2>2. CASE ~call[c].before.running
    <3>1. LeavesAsReported(c)
      BY <1>1, <1>2, <1>4, <2>2, FinishNext DEF AfterRestore, LeavesAsReported, Results
    <3> QED
      BY <1>1, <1>4, <2>1, <2>2, <3>1, FinishServes DEF AfterRestore, Results
  <2>3. CASE call[c].before.running
    <3>1. /\ SameCommand(c) /\ call'[c].phase = "undo"
          /\ call'[c].at = IF call[c].before.managed THEN "start" ELSE "spawn"
      BY <1>1, <1>4, <2>3, GoNext DEF AfterRestore, Steps
    <3>2. Changed(call[c])' /\ Saving(call[c])'
      BY <1>1, <1>2, <1>4, <3>1 DEF SameCommand, Changed, Put, Saving
    <3>3. Quiet(call[c])' /\ Launched(call[c])'
      BY <1>4, <3>1 DEF SameCommand, Quiet, Launched
    <3> QED
      BY <1>1, <1>4, <2>1, <3>1, <3>2, <3>3 DEF Keeps, Sound
  <2> QED
    BY <2>2, <2>3
<1> DEFINE off == [unit EXCEPT !.enabled = FALSE]
           written == [off EXCEPT !.file = call[c].saved.file]
           loaded == [written EXCEPT !.loaded = call[c].saved.file]
           whole == [loaded EXCEPT !.enabled = call[c].saved.enabled]
<1>5. CASE Bare(call[c])
  <2>1. AfterRestore(c) /\ UNCHANGED unit
    BY <1>5 DEF Restore, Bare
  <2>2. Definition(unit)' = call[c].saved /\ Registered' /\ unit'.loaded = call[c].saved.loaded
    BY <1>2, <1>5, <2>1 DEF Definition, Registered, Installed, ManagerRuns
  <2> QED
    BY <1>2, <1>4, <1>5, <2>1, <2>2 DEF Bare
<1>6. CASE ~Bare(call[c]) /\ unit' = whole /\ AfterRestore(c)
  <2>1. /\ unit'.file = call[c].saved.file /\ unit'.loaded = call[c].saved.file
        /\ unit'.enabled = call[c].saved.enabled /\ unit'.active = "off"
    BY <1>1, <1>2, <1>6 DEF Units
  <2>2. call[c].saved \in Saved
    BY <1>1 DEF Call
  <2>3. Definition(unit)' = call[c].saved
    BY <1>2, <2>1, <2>2 DEF Definition, Saved
  <2> QED
    BY <1>2, <1>4, <1>6, <2>1, <2>3 DEF Registered, Installed, ManagerRuns
<1>7. CASE Finish(c, "unrecovered") /\ unit' \in {unit, off, written, loaded, whole}
  <2>1. unit'.active = "off" /\ (unit'.loaded = "none" => unit'.file = "none")
    BY <1>1, <1>2, <1>7 DEF Units, Registered
  <2>2. OneManaged' /\ Registered'
    BY <1>1, <1>3, <2>1 DEF OneManaged, Registered, ManagerRuns, Alive
  <2> QED
    BY <1>1, <1>7, <2>2, FinishServes DEF Results
<1> QED
  BY <1>5, <1>6, <1>7 DEF Restore, Bare

\* Every step of a command keeps what it owes the service.
LEMMA CallsServe ==
  ASSUME Followed, Followed', OneManaged, Registered, Service, Calls
  PROVE  \E c \in Callers : Keeps(c) /\ \E k : Advances(c, k)
<1>1. PICK c \in Callers :
         \/ \E op \in Commands \ {"run"} : Begin(c, op)
         \/ Ping(c) \/ Probe(c) \/ Unlock(c) \/ Connect(c) \/ DecideStart(c) \/ Decide(c)
         \/ HaltService(c) \/ Halted(c) \/ NothingToHalt(c) \/ Shutdown(c) \/ WaitStopped(c)
         \/ Spawn(c) \/ InstallUnit(c) \/ StartUnit(c) \/ SetEnabled(c) \/ WaitRunning(c)
         \/ RemoveUnit(c) \/ Restore(c)
  BY DEF Calls
<1>2. Commands \ {"run"} \subseteq AllCommands \ {"run"}
  BY CommandsAssumption
<1>3. Keeps(c)
  BY <1>1, <1>2, BeginServes, PresenceServes, DecideStartServes, DecideServes, HaltServes,
     HaltServiceServes, ShutdownServes, WaitStoppedServes, SpawnServes, InstallUnitServes,
     StartUnitServes, SetEnabledServes, WaitRunningServes, RemoveUnitServes, RestoreServes
<1>4. \E k : Advances(c, k)
  BY <1>1, <1>2, BeginAdvances, PresenceAdvances, DecideStartAdvances, DecideAdvances,
     HaltAdvances, ShutdownAdvances, WaitStoppedAdvances, LaunchAdvances, RemoveAdvances
     DEF Followed
<1> QED
  BY <1>3, <1>4

\* The conjuncts that rest on each other: who may change the service, and what it has become.
LEMMA InitIInv == Init => IInv
<1> SUFFICES ASSUME Init PROVE IInv
  OBVIOUS
<1>1. Followed
  BY InitFollowed
<1>2. \E service \in BOOLEAN, managed \in BOOLEAN, p \in Procs :
       /\ managed => service
       /\ \A q \in Procs : proc[q].managed => q = p /\ managed
       /\ unit.file = (IF service THEN "prior" ELSE "none")
       /\ unit.loaded = (IF service THEN "prior" ELSE "none")
       /\ unit.active = (IF managed THEN "on" ELSE "off")
  <2>1. PICK service \in BOOLEAN, enabled \in BOOLEAN, runs \in BOOLEAN, managed \in BOOLEAN,
             api \in Apis, p \in Procs :
         /\ managed => service /\ runs
         /\ enabled => service
         /\ proc = [q \in Procs |->
              [at |-> IF q = p /\ runs THEN "serving" ELSE "gone",
               managed |-> q = p /\ managed, api |-> IF q = p /\ runs THEN api ELSE Current,
               doomed |-> FALSE]]
         /\ lock = IF runs THEN p ELSE Nobody
         /\ endpoint = IF runs THEN p ELSE Nobody
         /\ unit = [file |-> IF service THEN "prior" ELSE "none",
                    loaded |-> IF service THEN "prior" ELSE "none",
                    enabled |-> enabled, active |-> IF managed THEN "on" ELSE "off"]
    BY DEF Init
  <2>2. \A q \in Procs : proc[q].managed = (q = p /\ managed)
    BY <2>1
  <2>3. \A q \in Procs : proc[q].managed => q = p /\ managed
    BY <2>2
  <2>4. /\ unit.file = (IF service THEN "prior" ELSE "none")
        /\ unit.loaded = (IF service THEN "prior" ELSE "none")
        /\ unit.active = (IF managed THEN "on" ELSE "off")
    BY <2>1
  <2> QED
    BY <2>1, <2>3, <2>4
<1>3. OneManaged /\ Registered
  BY <1>2 DEF OneManaged, Registered, ManagerRuns, Installed
<1>4. ASSUME NEW c \in Callers PROVE Sound(call[c])
  <2>1. call[c].phase = "status" /\ Route(call[c])
    BY <1>1 DEF Init, Idle, Followed, Flow
  <2> QED
    BY <2>1, Vacuous
<1> QED
  BY <1>1, <1>3, <1>4 DEF IInv, Followed, Service

LEMMA IInvStep == IInv /\ [Next]_vars => IInv'
<1> SUFFICES ASSUME IInv, [Next]_vars PROVE IInv'
  OBVIOUS
<1> USE DEF IInv
<1>1. Followed
  BY DEF Followed
<1>2. Followed'
  BY <1>1, FollowedStep
<1>3. CASE Daemons
  <2>1. UNCHANGED call
    BY <1>3 DEF Daemons, TakeLock, CheckEndpoint, Bind, Serve, Heed, CloseListener, Exit, Crash,
       ManagerRestarts, RunByHand
  <2>2. Undisturbed
    BY <1>3, DaemonsUndisturbed
  <2>3. Service'
    BY <1>2, <2>1, <2>2, DaemonServes DEF Followed
  <2> QED
    BY <1>2, <2>2, <2>3 DEF Followed, Undisturbed
<1>4. CASE Calls
  <2>1. PICK c \in Callers : Keeps(c) /\ \E k : Advances(c, k)
    BY <1>1, <1>2, <1>4, CallsServe
  <2>2. Service'
    BY <1>1, <1>2, <2>1, CallServes DEF Keeps
  <2> QED
    BY <1>2, <2>1, <2>2 DEF Followed, Keeps
<1>5. CASE UNCHANGED vars
  <2>1. UNCHANGED <<proc, unit, call>>
    BY <1>5 DEF vars
  <2>2. Undisturbed
    BY <2>1, Quietly DEF Undisturbed
  <2>3. Service'
    BY <1>2, <2>1, <2>2, DaemonServes DEF Followed
  <2> QED
    BY <1>2, <2>2, <2>3 DEF Followed, Undisturbed
<1> QED
  BY <1>3, <1>4, <1>5 DEF Next

\* Locks, owners, the way of every command and what it has done to the service, together.
THEOREM Invariant == Spec => []IInv
  BY InitIInv, IInvStep, PTL DEF Spec

\* The variables keep their types, the operation lock never outlives its command, and no
\* instance lock its process or probe.
THEOREM LifecycleTypeCorrect == Spec => []TypeOK
<1>1. IInv => TypeOK
  BY DEF IInv, Locks
<1> QED
  BY Invariant, <1>1, PTL

\* A command that ends has left the service as its result says: installed, removed, stopped,
\* put back as it was, or untouched.
THEOREM CommandsAreTransactions == Spec => AllOrNothing
<1>1. ASSUME IInv, IInv', [Next]_vars, NEW c \in Callers, ~At(c, "idle"), call'[c].at = "idle"
      PROVE  LeavesAsReported(c)
  <2>1. Followed /\ Followed'
    BY <1>1 DEF IInv, Followed
  <2>2. ~UNCHANGED call
    BY <1>1 DEF At
  <2>3. Calls
    BY <1>1, <2>2 DEF Next, vars, Daemons, TakeLock, CheckEndpoint, Bind, Serve, Heed,
       CloseListener, Exit, Crash, ManagerRestarts, RunByHand
  <2>4. PICK d \in Callers : Keeps(d) /\ \E k : Advances(d, k)
    BY <1>1, <2>1, <2>3, CallsServe DEF IInv
  <2>5. d = c
    BY <1>1, <2>1, <2>4 DEF Advances, Says, Followed, Locks, TypeOK, At
  <2> QED
    BY <1>1, <2>4, <2>5 DEF Keeps
<1>2. IInv /\ IInv' /\ [Next]_vars =>
        [\A c \in Callers : ~At(c, "idle") /\ call'[c].at = "idle" => LeavesAsReported(c)]_vars
  BY <1>1
<1> QED
  BY <1>2, Invariant, PTL DEF Spec, AllOrNothing
=============================================================================
