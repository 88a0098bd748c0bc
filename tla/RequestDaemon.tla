--------------------------- MODULE RequestDaemon ---------------------------
(***************************************************************************)
(* The fwm daemon as its clients see it: connections served by a bounded   *)
(* number of tasks, one state lock, the window of completed requests that  *)
(* answers a repeated request id, SSH probes that run without the lock     *)
(* and take it again to record a host key, shutdown while requests are in  *)
(* flight, crashes, and offline changes between two daemons.  A commit is  *)
(* one step here: ConfigStore has its file operations.                     *)
(***************************************************************************)
EXTENDS Integers, Sequences, FiniteSets

CONSTANTS
  Tasks,      \* the permits of the accept loop, one task each
  Servers,    \* saved server profiles
  Hosts,      \* what a profile can resolve to: a host and its host key
  Rules,      \* forward rules, all of them desired running
  Source,     \* [Rules -> Servers]: ForwardSpec::server_id
  Ends,       \* [Rules -> SUBSET Servers]: source and, for a relay, target
  Requests,   \* what clients send: [id, cmd, server, host, guard]
  Window,     \* how many completed requests are kept: 32
  MaxRev,     \* bound: last revision
  MaxStarts,  \* bound: how many daemons start
  MaxSends    \* bound: how many requests are sent

Commands == {"put", "restart", "status", "trust", "shutdown"}
NoGuard == -1
Offline == "offline"  \* the id under which an offline command's commit is remembered
Ids == STRING \cup {Offline}
Request == [id : Ids, cmd : Commands, server : Servers, host : Hosts,
            guard : Nat \cup {NoGuard}]

ASSUME RulesAssumption == /\ Source \in [Rules -> Servers]
                          /\ Ends \in [Rules -> SUBSET Servers]
                          /\ \A r \in Rules : Source[r] \in Ends[r]
ASSUME RequestsAssumption == Requests \subseteq Request /\ Requests # {} /\ Hosts # {}
ASSUME FinitenessAssumption == IsFiniteSet(Tasks) /\ IsFiniteSet(Requests)
ASSUME WindowAssumption == Window \in Nat \ {0}
ASSUME BoundsAssumption == MaxRev \in Nat /\ MaxStarts \in Nat /\ MaxSends \in Nat

VARIABLES
  disk,       \* the durable configuration: its revision and the servers' hosts
  known,      \* hosts whose keys are in known_hosts
  daemon,     \* [up, start, stopping, config]: the process that holds the instance lock
  lock,       \* the task that holds the state lock, Nobody if it is free
  completed,  \* State::completed_requests, oldest first
  task,       \* per permit: the request it serves and how far it is
  rule,       \* per rule: what the engine last reported
  commits,    \* history: revision -> the request that made it
  forgotten,  \* history: <<start, id>> whose completed entry was lost or never made
  answers,    \* history: successful answers that reached a client
  sends       \* how many requests were sent

files == <<disk, known>>
history == <<commits, forgotten, answers>>
vars == <<files, daemon, lock, completed, task, rule, history, sends>>
-----------------------------------------------------------------------------
Nobody == "nobody"
ASSUME NobodyAssumption == Nobody \notin Tasks

Config == [rev : Nat, host : [Servers -> Hosts]]
Mutating == {"put", "restart"}
Stages == {"free", "queued", "working", "probing", "fetched", "answering"}
Work == [at : Stages, req : Requests, seen : Hosts, reply : [ok : BOOLEAN, rev : Nat]]

AnyRequest == CHOOSE q \in Requests : TRUE
AnyHost == CHOOSE h \in Hosts : TRUE
NoReply == [ok |-> FALSE, rev |-> 0]
Free == [at |-> "free", req |-> AnyRequest,
         seen |-> AnyHost, reply |-> NoReply]

At(t, stage) == task[t].at = stage
Cmd(t) == task[t].req.cmd
Config0 == [rev |-> 0, host |-> [s \in Servers |-> AnyHost]]

Reply(t, ok, rev) ==
  task' = [task EXCEPT ![t].at = "answering", ![t].reply = [ok |-> ok, rev |-> rev]]

\* The signature of a request is its command and the revision it expects; an id has one
\* entry at most, so the first entry found is the only one.
Remembered(req) == {k \in DOMAIN completed : completed[k].req.id = req.id}

\* The task holds the lock for the whole of its next step.
Locks(t) == daemon.up /\ lock = Nobody /\ At(t, "queued")
\* apply: a mutation whose id is not in the window.
Fresh(t) == Locks(t) /\ Cmd(t) \in Mutating /\ Remembered(task[t].req) = {}
\* apply_inner: and whose guard, if it has one, names the current revision.
Current(t) == Fresh(t) /\ task[t].req.guard \in {NoGuard, daemon.config.rev}

\* A request's effect on the configuration.
Change(config, req) ==
  IF req.cmd = "put" THEN [config EXCEPT !.host[req.server] = req.host] ELSE config

\* Seeded fault: the window drops its newest entry instead of its oldest.
RecordDroppingNewest(req, rev) ==
  LET longer == Append(completed, [req |-> req, rev |-> rev])
  IN IF Len(longer) > Window
     THEN /\ completed' = SubSeq(longer, 1, Window - 1)
          /\ forgotten' = forgotten \cup {<<daemon.start, Head(longer).req.id>>}
     ELSE completed' = longer /\ UNCHANGED forgotten

Record(req, rev) ==
  LET longer == Append(completed, [req |-> req, rev |-> rev])
  IN IF Len(longer) > Window
     THEN /\ completed' = Tail(longer)
          /\ forgotten' = forgotten \cup {<<daemon.start, Head(longer).req.id>>}
     ELSE completed' = longer /\ UNCHANGED forgotten

\* What a task that ends without recording its commit leaves behind.
Unrecorded(T) ==
  forgotten' = forgotten \cup
    {<<daemon.start, task[t].req.id>> : t \in {u \in T : At(u, "working")}}
-----------------------------------------------------------------------------
(***************************************************************************)
(* The daemon starts: instance lock, Store::load, Engine::reconcile.       *)
(***************************************************************************)
Start ==
  /\ ~daemon.up /\ daemon.start < MaxStarts
  /\ daemon' = [up |-> TRUE, start |-> daemon.start + 1, stopping |-> FALSE, config |-> disk]
  /\ completed' = <<>>
  /\ rule' = [r \in Rules |-> [at |-> "trying", host |-> disk.host[Source[r]]]]
  /\ UNCHANGED <<files, lock, task, history, sends>>

\* A connection takes a permit and its request is read; without a permit it is dropped.
Accept(t, req) ==
  /\ daemon.up /\ ~daemon.stopping /\ At(t, "free") /\ sends < MaxSends
  /\ task' = [task EXCEPT ![t] = [Free EXCEPT !.at = "queued", !.req = req]]
  /\ sends' = sends + 1
  /\ UNCHANGED <<files, daemon, lock, completed, rule, history>>

\* apply: the id was completed before, with the same parameters or with others.
Repeat(t) ==
  /\ Locks(t) /\ Cmd(t) \in Mutating
  /\ \E k \in Remembered(task[t].req) :
       Reply(t, completed[k].req = task[t].req, completed[k].rev)
  /\ UNCHANGED <<files, daemon, lock, completed, rule, history, sends>>

\* apply_inner: revision_conflict.  commit: a storage error changes nothing.
Refuse(t) ==
  /\ Fresh(t) /\ Reply(t, FALSE, daemon.config.rev)
  /\ UNCHANGED <<files, daemon, lock, completed, rule, history, sends>>

\* State::commit: a change that changes nothing is answered, and remembered, as it is.
Unchanged(t) ==
  /\ Current(t) /\ Cmd(t) = "put"
  /\ Change(daemon.config, task[t].req) = daemon.config
  /\ Reply(t, TRUE, daemon.config.rev)
  /\ Record(task[t].req, daemon.config.rev)
  /\ UNCHANGED <<files, daemon, lock, rule, commits, answers, sends>>

Touched(req) ==
  [r \in Rules |-> IF req.server \in Ends[r]
                   THEN [rule[r] EXCEPT !.at = "trying"] ELSE rule[r]]

\* Seeded fault: the lock is not held while the engine converges.
CommitReleasing(t) ==
  LET config == [Change(daemon.config, task[t].req) EXCEPT !.rev = @ + 1]
  IN /\ Current(t) /\ config.rev <= MaxRev
     /\ config.host # daemon.config.host \/ Cmd(t) # "put"
     /\ disk' = config /\ daemon' = [daemon EXCEPT !.config = config]
     /\ lock' = Nobody

\* finish_commit: durable first, then in memory, then the engine, all under the lock.
Commit(t) ==
  LET config == [Change(daemon.config, task[t].req) EXCEPT !.rev = @ + 1]
  IN /\ Current(t) /\ config.rev <= MaxRev
     /\ config.host # daemon.config.host \/ Cmd(t) # "put"
     /\ disk' = config /\ daemon' = [daemon EXCEPT !.config = config]
     /\ lock' = t

Apply(t) ==
  /\ Commit(t)
  /\ task' = [task EXCEPT ![t].at = "working"]
  /\ commits' = [commits EXCEPT ![disk'.rev] = [req |-> task[t].req, start |-> daemon.start]]
  /\ rule' = Touched(task[t].req)
  /\ UNCHANGED <<known, completed, forgotten, answers, sends>>

Converged(t) ==
  /\ At(t, "working")
  /\ Reply(t, TRUE, daemon.config.rev)
  /\ Record(task[t].req, daemon.config.rev)
  /\ lock' = Nobody
  /\ UNCHANGED <<files, daemon, rule, commits, answers, sends>>

\* Command::Restart: the commit stands, the engine's error is the answer, nothing is remembered.
RestartFails(t) ==
  /\ At(t, "working") /\ Cmd(t) = "restart"
  /\ Reply(t, FALSE, daemon.config.rev)
  /\ Unrecorded({t})
  /\ lock' = Nobody
  /\ UNCHANGED <<files, daemon, completed, rule, commits, answers, sends>>

Status(t) ==
  /\ Locks(t) /\ Cmd(t) = "status" /\ Reply(t, TRUE, daemon.config.rev)
  /\ UNCHANGED <<files, daemon, lock, completed, rule, history, sends>>

Shutdown(t) ==
  /\ Locks(t) /\ Cmd(t) = "shutdown" /\ Reply(t, TRUE, daemon.config.rev)
  /\ daemon' = [daemon EXCEPT !.stopping = TRUE]
  /\ UNCHANGED <<files, lock, completed, rule, history, sends>>
-----------------------------------------------------------------------------
(***************************************************************************)
(* inspect_at: the profile is read under the lock, probed without it, and  *)
(* compared under the lock again before the key is recorded.               *)
(***************************************************************************)
\* Seeded fault: the probe runs with the lock held.
ProbeLocked(t) == /\ Locks(t) /\ Cmd(t) = "trust" /\ lock' = t

Probe(t) == /\ Locks(t) /\ Cmd(t) = "trust" /\ lock' = lock

Inspect(t) ==
  /\ Probe(t)
  /\ task' = [task EXCEPT ![t].at = "probing", ![t].seen = daemon.config.host[task[t].req.server]]
  /\ UNCHANGED <<files, daemon, completed, rule, history, sends>>

Fetched(t) ==
  /\ At(t, "probing")
  /\ \/ task' = [task EXCEPT ![t].at = "fetched"]
     \/ Reply(t, FALSE, 0)
  /\ UNCHANGED <<files, daemon, lock, completed, rule, history, sends>>

\* Seeded fault: the profile is not compared again.
SameAlways(t) == TRUE

SameProfile(t) == daemon.config.host[task[t].req.server] = task[t].seen

Moved(t) ==
  /\ At(t, "fetched") /\ lock = Nobody /\ ~SameProfile(t)
  /\ Reply(t, FALSE, daemon.config.rev)
  /\ UNCHANGED <<files, daemon, lock, completed, rule, history, sends>>

\* Rules of a server that has the trusted host as their source.
Related(s, host) ==
  {r \in Rules : Source[r] = s \/ daemon.config.host[Source[r]] = host}

Blocked(r, host) == rule[r] = [at |-> "blocked", host |-> host]

Trust(t) ==
  LET host == task[t].seen
      ids == {r \in Related(task[t].req.server, host) : Blocked(r, host)}
  IN /\ At(t, "fetched") /\ lock = Nobody /\ SameProfile(t)
     /\ known' = known \cup {host}
     /\ rule' = [r \in Rules |-> IF r \in ids THEN [rule[r] EXCEPT !.at = "trying"] ELSE rule[r]]
     /\ Reply(t, TRUE, daemon.config.rev)
     /\ UNCHANGED <<disk, daemon, lock, completed, history, sends>>

\* The engine: an attempt checks the host keys of its route and reports.
Attempt(r) ==
  /\ daemon.up /\ rule[r].at = "trying"
  /\ LET unknown == {daemon.config.host[s] : s \in Ends[r]} \ known
     IN IF unknown = {} THEN rule' = [rule EXCEPT ![r].at = "up"]
        ELSE \E host \in unknown : rule' = [rule EXCEPT ![r] = [at |-> "blocked", host |-> host]]
  /\ UNCHANGED <<files, daemon, lock, completed, task, history, sends>>
-----------------------------------------------------------------------------
\* The reply is written; a client whose 45 seconds are over has gone, and a retry of its
\* request id is a request like any other.
Answer(t) ==
  /\ At(t, "answering")
  /\ answers' \in {answers} \cup
       IF task[t].reply.ok
       THEN {answers \cup {[req |-> task[t].req, rev |-> task[t].reply.rev]}}
       ELSE {}
  /\ task' = [task EXCEPT ![t] = Free]
  /\ UNCHANGED <<files, daemon, lock, completed, rule, commits, forgotten, sends>>

\* SIGTERM.
Signal ==
  /\ daemon.up /\ ~daemon.stopping
  /\ daemon' = [daemon EXCEPT !.stopping = TRUE]
  /\ UNCHANGED <<files, lock, completed, task, rule, history, sends>>

Ended == [daemon EXCEPT !.up = FALSE, !.stopping = FALSE]

\* Seeded fault: shutdown waits for the tasks that are left instead of aborting them.
MayEndAfterAll == \A t \in Tasks : At(t, "free")

\* After one second the tasks that are left are aborted, whatever they do.
MayEnd == TRUE

Stop ==
  /\ daemon.up /\ daemon.stopping /\ MayEnd
  /\ Unrecorded(Tasks)
  /\ daemon' = Ended /\ lock' = Nobody
  /\ task' = [t \in Tasks |-> Free]
  /\ UNCHANGED <<files, completed, rule, commits, answers, sends>>

Crash ==
  /\ daemon.up /\ ~daemon.stopping /\ daemon.start < MaxStarts
  /\ Unrecorded(Tasks)
  /\ daemon' = Ended /\ lock' = Nobody
  /\ task' = [t \in Tasks |-> Free]
  /\ UNCHANGED <<files, completed, rule, commits, answers, sends>>

\* A command changes the configuration while no daemon runs.
OfflineChange(req) ==
  /\ ~daemon.up /\ req.cmd = "put" /\ disk.rev < MaxRev /\ 0 < daemon.start
  /\ disk' = [Change(disk, req) EXCEPT !.rev = @ + 1]
  /\ commits' = [commits EXCEPT ![disk'.rev] = [req |-> [req EXCEPT !.id = Offline, !.guard = NoGuard],
                                                start |-> 0]]
  /\ UNCHANGED <<known, daemon, lock, completed, task, rule, forgotten, answers, sends>>
-----------------------------------------------------------------------------
Init ==
  /\ disk = Config0 /\ known = {}
  /\ daemon = [up |-> FALSE, start |-> 0, stopping |-> FALSE, config |-> Config0]
  /\ lock = Nobody /\ completed = <<>>
  /\ task = [t \in Tasks |-> Free]
  /\ rule = [r \in Rules |-> [at |-> "trying", host |-> Config0.host[Source[r]]]]
  /\ commits = [n \in 1..MaxRev |-> [req |-> AnyRequest, start |-> 0]]
  /\ forgotten = {} /\ answers = {} /\ sends = 0

Serve(t) ==
  \/ Repeat(t) \/ Refuse(t) \/ Unchanged(t) \/ Apply(t) \/ Status(t) \/ Shutdown(t)
  \/ Inspect(t) \/ Moved(t) \/ Trust(t)
Proceed(t) == Converged(t) \/ RestartFails(t) \/ Answer(t)

Next ==
  \/ Start \/ Signal \/ Stop \/ Crash
  \/ \E req \in Requests : OfflineChange(req)
  \/ \E t \in Tasks : \/ Serve(t) \/ Proceed(t) \/ Fetched(t)
                      \/ \E req \in Requests : Accept(t, req)
  \/ \E r \in Rules : Attempt(r)

\* The executor runs what is ready and the mutex is first come, first served.
\* No fairness for Fetched: a probe of a dead server may hang.
Fairness ==
  /\ WF_vars(Stop)
  /\ \A t \in Tasks : WF_vars(Proceed(t)) /\ SF_vars(Serve(t))

Spec == Init /\ [][Next]_vars
FairSpec == Spec /\ Fairness
-----------------------------------------------------------------------------
\* The types of the variables.
TypeOK ==
  /\ disk \in Config /\ known \subseteq Hosts
  /\ daemon \in [up : BOOLEAN, start : 0..MaxStarts, stopping : BOOLEAN, config : Config]
  /\ lock \in Tasks \cup {Nobody}
  /\ completed \in Seq([req : Requests, rev : Nat]) /\ Len(completed) <= Window
  /\ task \in [Tasks -> Work]
  /\ rule \in [Rules -> [at : {"trying", "blocked", "up"}, host : Hosts]]
  /\ forgotten \subseteq (Nat \X Ids) /\ sends \in 0..MaxSends
  /\ answers \subseteq [req : Requests, rev : Nat]
  /\ commits \in [1..MaxRev -> [req : Request, start : 0..MaxStarts]]

Made(n) == n <= disk.rev /\ commits[n].start # 0

\* A request id changes the configuration twice only if the daemon that committed it
\* first is gone, ended the operation without an answer it remembers, or has since
\* completed a whole window of other changes; and with a guard never (apply).
AppliedOnce ==
  \A m, n \in 1..MaxRev :
    /\ m < n /\ Made(m) /\ Made(n) /\ commits[m].req.id = commits[n].req.id
    => /\ \/ commits[m].start # commits[n].start
          \/ <<commits[m].start, commits[m].req.id>> \in forgotten
       /\ commits[m].req # commits[n].req \/ commits[m].req.guard = NoGuard

\* Every successful answer names a revision that is on disk, and what is on disk under
\* that revision is what was asked for: an answer is about its own request, also when
\* it is repeated, when another change came between and after a crash (finish_commit).
AnswersStand ==
  \A a \in answers :
    /\ a.rev <= disk.rev
    /\ a.req.cmd = "restart" => commits[a.rev].req = a.req

\* A host key is recorded only for the profile its server has at that moment, however
\* long the probe took and whatever was changed meanwhile (inspect_at).
TrustsSavedProfile ==
  [][\A host \in known' \ known :
       \E t \in Tasks : /\ At(t, "fetched")
                        /\ daemon.config.host[task[t].req.server] = host]_vars

\* A request that does not probe is answered or its daemon ends, even while every
\* probe hangs for ever (dispatch: "a dead server cannot block queries").
ProbesBlockNobody ==
  \A t \in Tasks :
    (At(t, "queued") /\ Cmd(t) # "trust") ~> (At(t, "free") \/ ~daemon.up)

\* A daemon asked to stop stops, whatever its tasks wait for (run_inner).
ShutdownEnds == daemon.stopping ~> ~daemon.up

=============================================================================
