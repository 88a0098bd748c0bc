-------------------------- MODULE DaemonLifecycle --------------------------
(***************************************************************************)
(* Who owns a profile: the processes that run `fwm daemon run`, the        *)
(* instance lock and the socket path they take and give back, the login    *)
(* service whose manager (systemd) starts, restarts and stops one of them, *)
(* and the commands `daemon start/stop/restart/status` and `service        *)
(* install/uninstall`, which probe the profile, replace its daemon under   *)
(* the service-operation lock and put the previous service back when the   *)
(* replacement fails.                                                      *)
(***************************************************************************)
EXTENDS Naturals, FiniteSets

CONSTANTS
  Callers,    \* command-line processes
  Procs,      \* daemon processes, reused once nothing refers to a dead one
  Commands,   \* the commands this instance issues, a subset of AllCommands
  Apis,       \* IPC generations of a daemon that is there at the beginning
  MaxCalls,   \* bound: how many commands are issued
  MaxFaults,  \* bound: manager commands that fail or time out, failed startups
  MaxCrashes  \* bound: daemons that are killed

AllCommands == {"start", "stop", "restart", "install", "uninstall", "status", "run"}
Current == 2  \* API_VERSION of this build

Nobody == "nobody"

ASSUME CommandsAssumption == Commands \subseteq AllCommands
ASSUME ApisAssumption == Apis \subseteq Nat
ASSUME WhoAssumption == Callers \cap Procs = {} /\ Nobody \notin Callers \cup Procs
ASSUME BoundsAssumption == MaxCalls \in Nat /\ MaxFaults \in Nat /\ MaxCrashes \in Nat

VARIABLES
  proc,       \* per process: how far it is, who launched it, what it speaks
  lock,       \* the process or caller that holds the instance lock
  endpoint,   \* the process whose listener made the socket file; may be dead
  unit,       \* the login service: saved file, what the manager loaded, its state
  operation,  \* the caller that holds service-operation.lock
  call,       \* per caller: the command it runs and how far it is
  calls, faults, crashes

counters == <<calls, faults, crashes>>
vars == <<proc, lock, endpoint, unit, operation, call, counters>>
-----------------------------------------------------------------------------
Definitions == {"none", "prior", "fresh"}  \* fresh: what this executable renders
ProcStages == {"forked", "locked", "checked", "bound", "serving", "stopping", "closed", "gone"}
Before == [running : BOOLEAN, managed : BOOLEAN, installed : BOOLEAN]
Saved == [file : Definitions, loaded : Definitions, enabled : BOOLEAN]
Results == {"none", "ok", "busy", "unavailable", "unresponsive", "failed",
            "unconfirmed", "restored", "unrecovered"}
Steps == {"idle", "ping", "probe", "holding", "connect", "judge", "halt", "halting", "change",
          "spawn", "start", "enable", "await", "remove", "restore"}
Phases == {"status", "first", "second", "prepare", "stop", "drain", "blame", "undo", "undrain",
           "removed", "removedrain"}
Call == [op : AllCommands, at : Steps, phase : Phases,
         seen : {"Running", "Unresponsive", "Stopped"}, before : Before, saved : Saved,
         owners : SUBSET Procs, result : Results]

Alive(p) == proc[p].at # "gone"
Listening(p) == p \in Procs /\ proc[p].at \in {"bound", "serving", "stopping"}
Free(p) == ~Alive(p) /\ endpoint # p /\ \A c \in Callers : p \notin call[c].owners

\* systemctl show loads a unit file on demand, so a file is a registration.
Installed == unit.file # "none" \/ unit.loaded # "none"
\* Registration::running: neither inactive nor failed.
ManagerRuns == unit.active # "off"

Definition(u) == [file |-> u.file, loaded |-> u.loaded, enabled |-> u.enabled]

\* A process of the executable that the manager loaded, or of this one.
ApiOf(u) == IF u.loaded = "prior" THEN Apis ELSE {Current}
Fork(p, managed, api) == [proc EXCEPT ![p] = [at |-> "forked", managed |-> managed,
                                              api |-> api, doomed |-> FALSE]]
\* Restart=on-failure: what the manager makes of the end of its process.
UnitAfter(p, clean) ==
  IF ~proc[p].managed THEN unit
  ELSE [unit EXCEPT !.active = IF clean \/ @ = "ending" THEN "off" ELSE "retry"]
Fault == faults < MaxFaults /\ faults' = faults + 1
-----------------------------------------------------------------------------
(***************************************************************************)
(* daemon::run_inner: the lock, the socket, the saved state, serving, and  *)
(* on the way out the listener first and the lock last.                    *)
(***************************************************************************)
To(p, stage) == proc' = [proc EXCEPT ![p].at = stage]

\* Seeded fault: the daemon goes on when another one owns the lock.
TakeLockAnyway(p) ==
  /\ proc[p].at = "forked" /\ lock' = p /\ To(p, "locked")
  /\ UNCHANGED <<endpoint, unit, operation, call, counters>>

TakeLock(p) ==
  /\ proc[p].at = "forked"
  /\ IF lock = Nobody THEN lock' = p /\ To(p, "locked") /\ UNCHANGED unit
     ELSE To(p, "gone") /\ unit' = UnitAfter(p, FALSE) /\ UNCHANGED lock
  /\ UNCHANGED <<endpoint, operation, call, counters>>

\* ipc::bind looks whether anybody listens at the path, then replaces it.
CheckEndpoint(p) ==
  /\ proc[p].at = "locked"
  /\ IF Listening(endpoint)
     THEN To(p, "gone") /\ unit' = UnitAfter(p, FALSE) /\ lock' = Nobody
     ELSE To(p, "checked") /\ UNCHANGED <<unit, lock>>
  /\ UNCHANGED <<endpoint, operation, call, counters>>

Bind(p) ==
  /\ proc[p].at = "checked" /\ endpoint' = p /\ To(p, "bound")
  /\ UNCHANGED <<lock, unit, operation, call, counters>>

\* State::new and Engine::reconcile succeed, or run_inner returns their error.
Serve(p) ==
  /\ proc[p].at = "bound"
  /\ \/ To(p, "serving") /\ UNCHANGED <<lock, endpoint, unit, counters>>
     \/ /\ Fault /\ To(p, "gone") /\ unit' = UnitAfter(p, FALSE)
        /\ lock' = Nobody /\ endpoint' = Nobody /\ UNCHANGED <<calls, crashes>>
  /\ UNCHANGED <<operation, call>>

\* A Shutdown whose sender stopped waiting for the answer is served all the same.
Heed(p) ==
  /\ proc[p].at = "serving" /\ proc[p].doomed /\ To(p, "stopping")
  /\ UNCHANGED <<lock, endpoint, unit, operation, call, counters>>

\* Engine::shutdown has returned: drop(listener) removes the path.
CloseListener(p) ==
  /\ proc[p].at = "stopping" /\ To(p, "closed") /\ endpoint' = Nobody
  /\ UNCHANGED <<lock, unit, operation, call, counters>>

Exit(p) ==
  /\ proc[p].at = "closed" /\ To(p, "gone") /\ lock' = Nobody
  /\ unit' = UnitAfter(p, TRUE)
  /\ UNCHANGED <<endpoint, operation, call, counters>>

\* The system frees the lock of a killed process; its socket file stays.
Crash(p) ==
  /\ Alive(p) /\ crashes < MaxCrashes /\ crashes' = crashes + 1
  /\ To(p, "gone") /\ unit' = UnitAfter(p, FALSE)
  /\ lock' = IF lock = p THEN Nobody ELSE lock
  /\ UNCHANGED <<endpoint, operation, call, calls, faults>>

\* RestartSec has passed: the manager starts its service again.
ManagerRestarts(p) ==
  /\ unit.active = "retry" /\ Free(p)
  /\ \E api \in ApiOf(unit) : proc' = Fork(p, TRUE, api)
  /\ unit' = [unit EXCEPT !.active = "on"]
  /\ UNCHANGED <<lock, endpoint, operation, call, counters>>

\* `fwm daemon run` by hand takes no other lock than the daemon's own.
RunByHand(p) ==
  /\ "run" \in Commands /\ calls < MaxCalls /\ calls' = calls + 1
  /\ Free(p) /\ proc' = Fork(p, FALSE, Current)
  /\ UNCHANGED <<lock, endpoint, unit, operation, call, faults, crashes>>

Daemons == \E p \in Procs :
  \/ TakeLock(p) \/ CheckEndpoint(p) \/ Bind(p) \/ Serve(p) \/ Heed(p)
  \/ CloseListener(p) \/ Exit(p) \/ Crash(p) \/ ManagerRestarts(p) \/ RunByHand(p)
-----------------------------------------------------------------------------
(***************************************************************************)
(* A command: `at` is the step it takes next, `phase` what a presence      *)
(* probe is for.                                                           *)
(***************************************************************************)
NotBefore == [running |-> FALSE, managed |-> FALSE, installed |-> FALSE]
NotSaved == [file |-> "none", loaded |-> "none", enabled |-> FALSE]
Idle == [op |-> "status", at |-> "idle", phase |-> "status", seen |-> "Stopped",
         before |-> NotBefore, saved |-> NotSaved, owners |-> {},
         result |-> "none"]

At(c, step) == call[c].at = step
Go(c, step) == call' = [call EXCEPT ![c].at = step]
Look(c, phase) == call' = [call EXCEPT ![c].at = "ping", ![c].phase = phase]

\* The command reports and its operation lock is dropped.
Finish(c, result) ==
  /\ call' = [call EXCEPT ![c] = [Idle EXCEPT !.op = call[c].op, !.result = result]]
  /\ operation' = IF operation = c THEN Nobody ELSE operation

\* restart and install go back to what was there; a start just reports.
Recover(c) ==
  /\ call' = [call EXCEPT ![c].at = "halt", ![c].phase = "undo"]
  /\ UNCHANGED operation
Failed(c) ==
  IF call[c].phase = "undo" THEN Finish(c, "unrecovered")
  ELSE IF call[c].op = "start" THEN Finish(c, "failed") ELSE Recover(c)

\* stop_before_change: recover only if the previous owner is confirmed gone.
StopFailed(c) ==
  IF call[c].phase = "undo" THEN Finish(c, "unrecovered")
  ELSE IF call[c].phase = "removed" THEN Finish(c, "failed")
  ELSE IF call[c].before.running THEN Look(c, "blame") /\ UNCHANGED operation
  ELSE Finish(c, "unconfirmed")

\* What start and status know when they begin.
Asking(op) ==
  [Idle EXCEPT !.op = op, !.at = "ping", !.phase = IF op = "start" THEN "first" ELSE "status"]

\* Native::new: the service as it is, the one to go back to, and the owner to be replaced.
Changing(op) ==
  [Idle EXCEPT
    !.op = op,
    !.at = IF op \in {"stop", "uninstall"} THEN "halt" ELSE "ping",
    !.phase = IF op = "stop" THEN "stop" ELSE IF op = "uninstall" THEN "removed" ELSE "prepare",
    !.before = [running |-> FALSE, managed |-> op # "stop" /\ ManagerRuns,
                installed |-> Installed],
    !.saved = Definition(unit),
    !.owners = {lock} \cap Procs]

\* checkpoint: the manager's loaded definition must be the saved one.
Checkpoint == unit.loaded \in {"none", unit.file}

Begin(c, op) ==
  /\ At(c, "idle") /\ calls < MaxCalls /\ calls' = calls + 1
  /\ IF op \in {"start", "status"}
     THEN call' = [call EXCEPT ![c] = Asking(op)] /\ UNCHANGED operation
     ELSE IF operation # Nobody
     THEN call' = [call EXCEPT ![c] = [Idle EXCEPT !.op = op, !.result = "busy"]]
          /\ UNCHANGED operation
     ELSE IF op \in {"restart", "install"} /\ ~Checkpoint
     THEN call' = [call EXCEPT ![c] = [Idle EXCEPT !.op = op, !.result = "unavailable"]]
          /\ UNCHANGED operation
     ELSE call' = [call EXCEPT ![c] = Changing(op)] /\ operation' = c
  /\ UNCHANGED <<proc, lock, endpoint, unit, faults, crashes>>
-----------------------------------------------------------------------------
(* client::presence: ping, then try the instance lock, then the socket.    *)
Answers == /\ endpoint \in Procs /\ proc[endpoint].at = "serving"
           /\ proc[endpoint].api = Current
Judge(c, seen) == call' = [call EXCEPT ![c].at = "judge", ![c].seen = seen]

Ping(c) ==
  /\ At(c, "ping")
  /\ \/ Answers /\ Judge(c, "Running")
     \/ Go(c, "probe")  \* nobody there, not yet serving, or too slow
  /\ UNCHANGED <<proc, lock, endpoint, unit, operation, counters>>

\* Seeded fault: an owner that does not answer a ping counts as absent.
ProbeIgnored(c) ==
  /\ At(c, "probe") /\ Judge(c, "Stopped")
  /\ UNCHANGED <<proc, lock, endpoint, unit, operation, counters>>

Probe(c) ==
  /\ At(c, "probe")
  /\ IF lock = Nobody THEN lock' = c /\ Go(c, "holding")
     ELSE Judge(c, "Unresponsive") /\ UNCHANGED lock
  /\ UNCHANGED <<proc, endpoint, unit, operation, counters>>

Unlock(c) ==
  /\ At(c, "holding") /\ lock' = Nobody /\ Go(c, "connect")
  /\ UNCHANGED <<proc, endpoint, unit, operation, counters>>

Connect(c) ==
  /\ At(c, "connect")
  /\ Judge(c, IF Listening(endpoint) THEN "Unresponsive" ELSE "Stopped")
  /\ UNCHANGED <<proc, lock, endpoint, unit, operation, counters>>

\* ensure_running: an owner that does not answer is never joined by a second.
DecideStart(c) ==
  /\ At(c, "judge") /\ call[c].phase \in {"first", "second"}
  /\ IF call[c].seen # "Stopped"
     THEN Finish(c, IF call[c].seen = "Running" THEN "ok" ELSE "unresponsive")
     ELSE IF call[c].phase = "second"
     THEN Go(c, IF Installed THEN "start" ELSE "spawn") /\ UNCHANGED operation
     ELSE IF operation = Nobody THEN Look(c, "second") /\ operation' = c
     ELSE Finish(c, "busy")
  /\ UNCHANGED <<proc, lock, endpoint, unit, counters>>

\* prepare, and what a failed stop makes of the owner it finds.
Decide(c) ==
  /\ At(c, "judge")
  /\ \/ call[c].phase = "status" /\ Finish(c, "ok")
     \/ /\ call[c].phase = "prepare" /\ UNCHANGED operation
        /\ LET running == call[c].seen # "Stopped" \/ call[c].before.managed
           IN call' = [call EXCEPT
                ![c].before.running = running, ![c].phase = "stop",
                ![c].at = IF running \/ call[c].op = "restart" THEN "halt" ELSE "change"]
     \/ call[c].phase = "blame" /\ call[c].seen = "Stopped" /\ Recover(c)
     \/ call[c].phase = "blame" /\ call[c].seen # "Stopped" /\ Finish(c, "unconfirmed")
  /\ UNCHANGED <<proc, lock, endpoint, unit, counters>>
-----------------------------------------------------------------------------
(***************************************************************************)
(* stop_with: the manager stops its process, then Shutdown over the        *)
(* socket, then wait_stopped.                                              *)
(***************************************************************************)
\* SIGTERM: a daemon that has not yet installed its handler just dies.
Signalled ==
  [p \in Procs |-> IF ~proc[p].managed \/ ~Alive(p) THEN proc[p]
                   ELSE [proc[p] EXCEPT !.at = IF @ = "serving" THEN "stopping"
                                               ELSE IF @ \in {"stopping", "closed"} THEN @
                                               ELSE "gone"]]

HaltService(c) ==
  /\ At(c, "halt") /\ Installed /\ ManagerRuns
  /\ \/ /\ proc' = Signalled /\ Go(c, "halting")
        /\ lock' = IF lock \in Procs /\ Signalled[lock].at = "gone" THEN Nobody ELSE lock
        /\ unit' = [unit EXCEPT !.active =
             IF \E p \in Procs : proc[p].managed /\ Signalled[p].at # "gone"
             THEN "ending" ELSE "off"]
        /\ UNCHANGED <<operation, faults>>
     \/ Fault /\ StopFailed(c) /\ UNCHANGED <<proc, lock, unit>>
  /\ UNCHANGED <<endpoint, calls, crashes>>

\* systemctl stop returns once the process has ended, or its deadline passes.
Halted(c) ==
  /\ At(c, "halting")
  /\ \/ /\ ~ManagerRuns /\ UNCHANGED <<operation, faults>>
        /\ Go(c, IF call[c].phase = "removed" THEN "remove" ELSE "ping")
     \/ ManagerRuns /\ Fault /\ StopFailed(c)
  /\ UNCHANGED <<proc, lock, endpoint, unit, calls, crashes>>

NothingToHalt(c) ==
  /\ At(c, "halt") /\ ~(Installed /\ ManagerRuns)
  /\ Go(c, IF call[c].phase = "removed" THEN "remove" ELSE "ping")
  /\ UNCHANGED <<proc, lock, endpoint, unit, operation, counters>>

Draining(phase) ==
  IF phase = "stop" THEN "drain" ELSE IF phase = "undo" THEN "undrain" ELSE "removedrain"

\* client::shutdown, two seconds: acknowledged, served too late, or refused.
Shutdown(c) ==
  /\ At(c, "judge") /\ call[c].phase \in {"stop", "undo", "removed"}
  /\ LET sent == call[c].seen # "Stopped"
         speaks == /\ endpoint \in Procs /\ Listening(endpoint)
                   /\ proc[endpoint].api \in {1, Current}
     IN \/ UNCHANGED proc
        \/ sent /\ speaks /\ proc[endpoint].at = "serving" /\ To(endpoint, "stopping")
        \/ /\ sent /\ speaks /\ proc[endpoint].at \in {"bound", "serving"}
           /\ proc' = [proc EXCEPT ![endpoint].doomed = TRUE]
  /\ Look(c, Draining(call[c].phase))
  /\ UNCHANGED <<lock, endpoint, unit, operation, counters>>

\* wait_stopped: presence until it is Stopped, or until the deadline.
WaitStopped(c) ==
  /\ At(c, "judge") /\ call[c].phase \in {"drain", "undrain", "removedrain"}
  /\ \/ /\ call[c].seen = "Stopped"
        /\ IF call[c].phase = "undrain"
           THEN /\ call' = [call EXCEPT ![c].at = "restore", ![c].phase = "undo"]
                /\ UNCHANGED operation
           ELSE IF call[c].phase = "drain" /\ call[c].op # "stop"
           THEN Go(c, "change") /\ UNCHANGED operation
           ELSE Finish(c, "ok")
     \/ call[c].seen # "Stopped" /\ Go(c, "ping") /\ UNCHANGED operation
     \/ /\ call[c].seen # "Stopped"
        /\ IF call[c].phase = "drain" /\ call[c].before.running
           THEN Look(c, "blame") /\ UNCHANGED operation
           ELSE Finish(c, IF call[c].phase = "undrain" THEN "unrecovered" ELSE "unconfirmed")
  /\ UNCHANGED <<proc, lock, endpoint, unit, counters>>
-----------------------------------------------------------------------------
(***************************************************************************)
(* The change: install, refresh or spawn, then wait_running.  A manager    *)
(* command succeeds, fails, or takes effect and is reported as failed.     *)
(***************************************************************************)
Spawn(c) ==
  /\ \/ At(c, "spawn")
     \/ At(c, "change") /\ call[c].op = "restart" /\ ~call[c].before.installed
  /\ \E p \in Procs : Free(p) /\ proc' = Fork(p, FALSE, Current)
  /\ Go(c, "await")
  /\ UNCHANGED <<lock, endpoint, unit, operation, counters>>

\* Definition: a staged file that is not committed is put back as it was, whatever the
\* manager has loaded and enabled meanwhile.
RolledBack(loaded, enabled) == [unit EXCEPT !.loaded = loaded, !.enabled = enabled]

\* Stage the file, reload, enable; on failure put the file back and reload.
InstallUnit(c) ==
  /\ At(c, "change") /\ (call[c].op = "install" \/ call[c].before.installed)
  /\ LET new == [unit EXCEPT !.file = "fresh", !.loaded = "fresh", !.enabled = TRUE]
     IN \/ unit' = new /\ Go(c, "start") /\ UNCHANGED <<operation, faults>>
        \/ /\ Fault /\ Failed(c)
           /\ \E loaded \in {unit.file, unit.loaded, "fresh"},
                 enabled \in {unit.enabled, TRUE} :
                unit' = RolledBack(loaded, enabled)
  /\ UNCHANGED <<proc, lock, endpoint, calls, crashes>>

\* The manager starts the loaded definition; a running one is left alone.
StartUnit(c) ==
  /\ At(c, "start")
  /\ \/ /\ IF unit.active \in {"on", "ending"} THEN UNCHANGED <<proc, unit>>
           ELSE /\ \E p \in Procs, api \in ApiOf(unit) : Free(p) /\ proc' = Fork(p, TRUE, api)
                /\ unit' = [unit EXCEPT !.active = "on"]
        /\ \/ /\ UNCHANGED <<operation, faults>>
              /\ Go(c, IF call[c].op = "restart" /\ call[c].phase # "undo"
                       THEN "enable" ELSE "await")
           \/ Fault /\ Failed(c)
     \/ Fault /\ Failed(c) /\ UNCHANGED <<proc, unit>>
  /\ UNCHANGED <<lock, endpoint, calls, crashes>>

\* refresh: an installed service keeps its login-enabled setting.
SetEnabled(c) ==
  /\ At(c, "enable")
  /\ \/ /\ unit' = [unit EXCEPT !.enabled = call[c].saved.enabled]
        /\ \/ Go(c, "await") /\ UNCHANGED <<operation, faults>>
           \/ Fault /\ Failed(c)
     \/ Fault /\ Failed(c) /\ UNCHANGED unit
  /\ UNCHANGED <<proc, lock, endpoint, calls, crashes>>

\* wait_running: somebody answers a ping, or the deadline passes.
WaitRunning(c) ==
  /\ At(c, "await")
  /\ \/ Answers /\ Finish(c, IF call[c].phase = "undo" THEN "restored" ELSE "ok")
     \/ Failed(c)
  /\ UNCHANGED <<proc, lock, endpoint, unit, counters>>

\* Operation::uninstall after the stop: disable, remove the file, reload.
RemoveUnit(c) ==
  /\ At(c, "remove")
  /\ LET off == [unit EXCEPT !.enabled = FALSE]
         removed == [off EXCEPT !.file = "none"]
         reloaded == [removed EXCEPT !.loaded = "none"]
     IN \/ unit' = reloaded /\ Look(c, "removed") /\ UNCHANGED <<operation, faults>>
        \/ Fault /\ Finish(c, "failed") /\ unit' \in {unit, off, removed, reloaded}
  /\ UNCHANGED <<proc, lock, endpoint, calls, crashes>>
-----------------------------------------------------------------------------
(***************************************************************************)
(* Native::restore, after its own stop: unregister, put the recovery file  *)
(* back, register it as it was, and launch what was running.  A restart    *)
(* of a profile without a service took no checkpoint.                      *)
(***************************************************************************)
AfterRestore(c) ==
  IF ~call[c].before.running THEN Finish(c, "restored")
  ELSE Go(c, IF call[c].before.managed THEN "start" ELSE "spawn") /\ UNCHANGED operation

\* Seeded fault: the saved file is put back and the manager is not told.
RestoreFileOnly(c) ==
  /\ At(c, "restore") /\ AfterRestore(c)
  /\ unit' = [unit EXCEPT !.file = call[c].saved.file, !.enabled = call[c].saved.enabled]
  /\ UNCHANGED <<proc, lock, endpoint, counters>>

Restore(c) ==
  /\ At(c, "restore")
  /\ LET saved == call[c].saved
         off == [unit EXCEPT !.enabled = FALSE]
         written == [off EXCEPT !.file = saved.file]
         loaded == [written EXCEPT !.loaded = saved.file]
         whole == [loaded EXCEPT !.enabled = saved.enabled]
     IN IF call[c].op = "restart" /\ ~call[c].before.installed
        THEN AfterRestore(c) /\ UNCHANGED <<unit, faults>>
        ELSE \/ unit' = whole /\ AfterRestore(c) /\ UNCHANGED faults
             \/ /\ Fault /\ Finish(c, "unrecovered")
                /\ unit' \in {unit, off, written, loaded, whole}
  /\ UNCHANGED <<proc, lock, endpoint, calls, crashes>>

Calls == \E c \in Callers :
  \/ \E op \in Commands \ {"run"} : Begin(c, op)
  \/ Ping(c) \/ Probe(c) \/ Unlock(c) \/ Connect(c) \/ DecideStart(c) \/ Decide(c)
  \/ HaltService(c) \/ Halted(c) \/ NothingToHalt(c) \/ Shutdown(c) \/ WaitStopped(c)
  \/ Spawn(c) \/ InstallUnit(c) \/ StartUnit(c) \/ SetEnabled(c) \/ WaitRunning(c)
  \/ RemoveUnit(c) \/ Restore(c)

\* Nothing is there, a daemon runs by itself, or a service was installed before.
Init ==
  /\ \E service \in BOOLEAN, enabled \in BOOLEAN, runs \in BOOLEAN,
        managed \in BOOLEAN, api \in Apis, p \in Procs :
       /\ managed => service /\ runs
       /\ enabled => service
       /\ proc = [q \in Procs |->
            [at |-> IF q = p /\ runs THEN "serving" ELSE "gone",
             managed |-> q = p /\ managed, api |-> IF q = p /\ runs THEN api ELSE Current,
             doomed |-> FALSE]]
       /\ lock = IF runs THEN p ELSE Nobody
       /\ endpoint = IF runs THEN p ELSE Nobody
       /\ unit = [file |-> IF service THEN "prior" ELSE "none",
                  loaded |-> IF service THEN "prior" ELSE "none",
                  enabled |-> enabled, active |-> IF managed THEN "on" ELSE "off"]
  /\ operation = Nobody
  /\ call = [c \in Callers |-> Idle]
  /\ calls = 0 /\ faults = 0 /\ crashes = 0

Next == Daemons \/ Calls
Spec == Init /\ [][Next]_vars
-----------------------------------------------------------------------------
(***************************************************************************)
(* Properties.                                                             *)
(***************************************************************************)
\* The variables keep their types; a dead process holds no lock, a caller only
\* while it probes, and the operation lock never outlives its command.
TypeOK ==
  /\ proc \in [Procs -> [at : ProcStages, managed : BOOLEAN, api : Nat, doomed : BOOLEAN]]
  /\ lock \in Procs \cup Callers \cup {Nobody}
  /\ lock \in Procs => Alive(lock)
  /\ lock \in Callers => At(lock, "holding")
  /\ endpoint \in Procs \cup {Nobody}
  /\ unit \in [file : Definitions, loaded : Definitions, enabled : BOOLEAN,
               active : {"off", "on", "retry", "ending"}]
  /\ operation \in Callers \cup {Nobody}
  /\ operation # Nobody => ~At(operation, "idle")
  /\ call \in [Callers -> Call]
  /\ calls \in 0..MaxCalls /\ faults \in 0..MaxFaults /\ crashes \in 0..MaxCrashes

\* The profile has one endpoint and it is its owner's: a daemon that listens
\* holds the instance lock and the socket path leads to it, although binding
\* checks the path and replaces it in two steps, a killed daemon leaves its
\* socket behind and an ending one removes the path whoever made it.
EndpointIsOwners == \A p \in Procs : Listening(p) => lock = p /\ endpoint = p

ActsOnOwner(c) ==
  \/ /\ call[c].op \in {"restart", "install"} /\ call[c].at \in {"change", "spawn", "start"}
     /\ proc' # proc
  \/ /\ call[c].op \in {"stop", "uninstall"} /\ ~At(c, "idle")
     /\ call'[c].result = "ok"

\* A replacement is launched, and a stop or removal reported, only after the
\* process that owned the profile when the command began has gone: a daemon
\* that does not answer, is closing its forwards or has not bound its socket
\* yet still counts as the owner.
OldOwnerIsGone ==
  [][\A c \in Callers : ActsOnOwner(c) => \A p \in call[c].owners : ~Alive(p)]_vars

Fresh == [file |-> "fresh", loaded |-> "fresh", enabled |-> TRUE]
LeavesAsReported(c) ==
  LET op == call[c].op
      result == call'[c].result
      saved == call[c].saved
  IN /\ op = "restart" /\ result = "ok" /\ call[c].before.installed =>
          Definition(unit') = [Fresh EXCEPT !.enabled = saved.enabled]
     /\ op = "install" /\ result = "ok" => Definition(unit') = Fresh
     /\ op = "uninstall" /\ result = "ok" => Definition(unit') = NotSaved
     /\ op \in {"stop", "uninstall"} /\ result = "ok" => unit'.active = "off"
     /\ result = "restored" =>
          /\ Definition(unit') = saved
          /\ call[c].before.managed <=> unit'.active # "off"
     /\ op \in {"stop", "restart", "install"} /\ result = "unconfirmed" =>
          Definition(unit') = saved

\* One locked transaction: a command that reports success left the service
\* as it promises (restart keeps the login-enabled setting, a stopped or
\* removed service is not about to be restarted by its manager), one that
\* reports that the previous service was restored left definition, loaded
\* state, login setting and manager state as it found them, and one that
\* could not confirm the stop changed no definition.
AllOrNothing ==
  [][\A c \in Callers : ~At(c, "idle") /\ call'[c].at = "idle" => LeavesAsReported(c)]_vars

=============================================================================
