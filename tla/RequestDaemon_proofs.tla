------------------------- MODULE RequestDaemon_proofs -------------------------
(***************************************************************************)
(* Requests are applied once and answered for what was done, for any       *)
(* number of tasks, requests, starts and any size of the window.  The      *)
(* argument rests on the state lock: between the commit of a change and    *)
(* its record in the window nobody else looks at either, so a commit is    *)
(* remembered, being worked on, or known to be forgotten.                  *)
(***************************************************************************)
EXTENDS RequestDaemon, SequenceTheorems, TLAPS

\* The change a revision on disk stands for.
Changed(n, req, start) ==
  n \in 1..disk.rev /\ commits[n].req = req /\ commits[n].start = start

\* A restart answered with revision n is what n was committed for.
Stands(req, rev) ==
  /\ rev \in 0..disk.rev
  /\ req.cmd = "restart" => rev \in 1..disk.rev /\ commits[rev].req = req

\* A daemon has what is on disk in memory, and no task outlives its daemon.
Loaded ==
  /\ disk.rev <= MaxRev
  /\ daemon.up => daemon.config = disk /\ daemon.start # 0
  /\ ~daemon.up => \A t \in Tasks : At(t, "free")

\* Who is working holds the lock, and works on the last commit.
Exclusive ==
  \A t \in Tasks :
    /\ At(t, "working") <=> lock = t
    /\ At(t, "working") => Changed(disk.rev, task[t].req, daemon.start)
    /\ task[t].at \in {"probing", "fetched"} => Cmd(t) = "trust"
    /\ At(t, "answering") /\ task[t].reply.ok => Stands(task[t].req, task[t].reply.rev)

OneEntryEach ==
  \A j, k \in DOMAIN completed : completed[j].req.id = completed[k].req.id => j = k

\* The window has one entry for an id, and each is right about its request.
Remembers ==
  /\ \A k \in DOMAIN completed : Stands(completed[k].req, completed[k].rev)
  /\ OneEntryEach
  /\ \A t \in Tasks : At(t, "working") => Remembered(task[t].req) = {}

\* A commit of this start is remembered, being worked on, or forgotten.
Accounted(n) ==
  /\ commits[n].start <= daemon.start
  /\ commits[n].start = daemon.start =>
       \/ Remembered(commits[n].req) # {}
       \/ \E t \in Tasks : At(t, "working") /\ task[t].req = commits[n].req
       \/ <<daemon.start, commits[n].req.id>> \in forgotten

\* A guarded change was made on the revision its guard names.
Guarded(n) == commits[n].req.guard \in {NoGuard, n - 1}

IInv ==
  /\ TypeOK /\ Loaded /\ Exclusive /\ Remembers
  /\ \A n \in 1..MaxRev : Made(n) => Accounted(n) /\ Guarded(n)
  /\ AppliedOnce /\ AnswersStand
  /\ \A a \in answers : Stands(a.req, a.rev)
-----------------------------------------------------------------------------
USE RulesAssumption, RequestsAssumption, WindowAssumption, BoundsAssumption, NobodyAssumption

LEMMA InitialTypes == Config0 \in Config /\ Free \in Work
<1>1. AnyRequest \in Requests
  BY DEF AnyRequest
<1>2. AnyHost \in Hosts
  BY DEF AnyHost
<1>3. [s \in Servers |-> AnyHost] \in [Servers -> Hosts]
  BY <1>2
<1>4. Config0 \in Config
  BY <1>3, 0 \in Nat DEF Config0, Config
<1>5. Free \in Work
  BY <1>1, <1>2, 0 \in Nat DEF Free, Work, Stages, NoReply
<1> QED
  BY <1>4, <1>5

LEMMA TypedInitially == Init => TypeOK
<1> SUFFICES ASSUME Init PROVE TypeOK
  OBVIOUS
<1>1. task \in [Tasks -> Work]
  BY InitialTypes DEF Init
<1>2. rule \in [Rules -> [at : {"trying", "blocked", "up"}, host : Hosts]]
  BY InitialTypes DEF Init, Config
<1>3. commits \in [1..MaxRev -> [req : Request, start : 0..MaxStarts]]
  <2>1. AnyRequest \in Request
    BY DEF AnyRequest
  <2> QED
    BY <2>1 DEF Init
<1>4. completed \in Seq([req : Requests, rev : Nat]) /\ Len(completed) <= Window
  BY EmptySeq DEF Init
<1>5. /\ disk \in Config /\ known \subseteq Hosts /\ lock \in Tasks \cup {Nobody}
      /\ daemon \in [up : BOOLEAN, start : 0..MaxStarts, stopping : BOOLEAN, config : Config]
  BY InitialTypes DEF Init
<1>6. /\ forgotten \subseteq Nat \X Ids /\ sends \in 0..MaxSends
      /\ answers \subseteq [req : Requests, rev : Nat]
  BY DEF Init
<1> QED
  BY <1>1, <1>2, <1>3, <1>4, <1>5, <1>6 DEF TypeOK

\* What a request changes is a configuration.
LEMMA ChangeTyped ==
  ASSUME NEW c \in Config, NEW req \in Request
  PROVE  Change(c, req) \in Config /\ Change(c, req).rev = c.rev
BY DEF Change, Config, Request

\* The window takes in the new entry, and what it drops is known to be forgotten.
LEMMA RecordKeeps ==
  ASSUME TypeOK, NEW req \in Requests, NEW rev \in Nat, Record(req, rev)
  PROVE  /\ completed' \in Seq([req : Requests, rev : Nat]) /\ Len(completed') <= Window
         /\ forgotten' \subseteq Nat \X Ids /\ forgotten \subseteq forgotten'
         /\ \E k \in DOMAIN completed' : completed'[k].req = req
         /\ \A k \in DOMAIN completed' :
              \/ completed'[k] = [req |-> req, rev |-> rev]
              \/ \E j \in DOMAIN completed : completed'[k] = completed[j]
         /\ \A j \in DOMAIN completed :
              \/ \E k \in DOMAIN completed' : completed'[k] = completed[j]
              \/ <<daemon.start, completed[j].req.id>> \in forgotten'
         /\ OneEntryEach /\ Remembered(req) = {} => OneEntryEach'
<1> DEFINE Entry == [req : Requests, rev : Nat]
           new == [req |-> req, rev |-> rev]
           longer == Append(completed, new)
<1>1. completed \in Seq(Entry) /\ new \in Entry /\ Len(completed) \in Nat
  BY DEF TypeOK
<1>2. /\ longer \in Seq(Entry) /\ longer # <<>> /\ Len(longer) = Len(completed) + 1
      /\ \A k \in 1..Len(completed) : longer[k] = completed[k]
      /\ longer[Len(completed) + 1] = new
  BY <1>1, AppendProperties
<1>3. /\ DOMAIN completed = 1..Len(completed) /\ DOMAIN longer = 1..Len(completed) + 1
      /\ Len(completed) <= Window
  BY <1>1, <1>2 DEF TypeOK
<1> HIDE DEF longer
<1>4. CASE Len(longer) > Window
  <2>1. completed' = Tail(longer)
        /\ forgotten' = forgotten \cup {<<daemon.start, Head(longer).req.id>>}
    BY <1>4 DEF Record, longer
  <2>2. /\ completed' \in Seq(Entry) /\ Len(completed') = Len(completed)
        /\ \A k \in 1..Len(completed) : completed'[k] = longer[k + 1]
        /\ Head(longer) = longer[1] /\ Head(longer) \in Entry
    <3>1. /\ Head(longer) \in Entry /\ Tail(longer) \in Seq(Entry)
          /\ Len(Tail(longer)) = Len(longer) - 1
          /\ \A k \in 1..Len(Tail(longer)) : Tail(longer)[k] = longer[k + 1]
      BY <1>2, HeadTailProperties
    <3> QED
      BY <1>1, <1>2, <2>1, <3>1
  <2>3. DOMAIN completed' = 1..Len(completed) /\ 1 <= Len(completed)
    BY <1>1, <1>2, <1>3, <1>4, <2>2
  <2>4. forgotten' \subseteq Nat \X Ids
    BY <2>1, <2>2 DEF Request, TypeOK
  <2>5. completed'[Len(completed)] = new
    BY <1>1, <1>2, <2>2, <2>3
  <2>6. \A k \in 1..Len(completed) : k # Len(completed) => completed'[k] = completed[k + 1]
    BY <1>1, <1>2, <2>2
  <2>7. \A j \in 1..Len(completed) :
          \/ \E k \in 1..Len(completed) : completed'[k] = completed[j]
          \/ <<daemon.start, completed[j].req.id>> \in forgotten'
    <3>1. TAKE j \in 1..Len(completed)
    <3>2. CASE j = 1
      BY <1>1, <1>2, <2>1, <2>2, <3>2
    <3>3. CASE j # 1
      <4>1. j - 1 \in 1..Len(completed) /\ completed'[j - 1] = completed[j]
        BY <1>1, <2>6, <3>3
      <4> QED
        BY <4>1
    <3> QED
      BY <3>2, <3>3
  <2>8. ASSUME OneEntryEach, Remembered(req) = {},
               NEW j \in 1..Len(completed), NEW k \in 1..Len(completed),
               completed'[j].req.id = completed'[k].req.id
        PROVE  j = k
    <3>1. \A m \in 1..Len(completed) : completed[m].req.id # req.id
      BY <1>3, <2>8 DEF Remembered
    <3>2. \A m \in 1..Len(completed) : m # Len(completed) => m + 1 \in 1..Len(completed)
      BY <1>1
    <3>3. CASE j = Len(completed) \/ k = Len(completed)
      BY <2>5, <2>6, <2>8, <3>1, <3>2, <3>3
    <3>4. CASE j # Len(completed) /\ k # Len(completed)
      <4>1. completed[j + 1].req.id = completed[k + 1].req.id
        BY <2>6, <2>8, <3>4
      <4>2. j + 1 = k + 1
        BY <1>3, <2>8, <3>2, <3>4, <4>1 DEF OneEntryEach
      <4> QED
        BY <4>2
    <3> QED
      BY <3>3, <3>4
  <2>9. OneEntryEach /\ Remembered(req) = {} => OneEntryEach'
    BY <2>3, <2>8 DEF OneEntryEach
  <2>10. \A k \in 1..Len(completed) :
           completed'[k] = new \/ \E j \in 1..Len(completed) : completed'[k] = completed[j]
    BY <1>1, <2>5, <2>6
  <2>11. \E k \in 1..Len(completed) : completed'[k].req = req
    BY <1>1, <2>3, <2>5
  <2> QED
    BY <1>3, <2>1, <2>2, <2>3, <2>4, <2>7, <2>9, <2>10, <2>11
<1>5. CASE ~(Len(longer) > Window)
  <2>1. completed' = longer /\ forgotten' = forgotten
    BY <1>5 DEF Record, longer
  <2>2. OneEntryEach /\ Remembered(req) = {} => OneEntryEach'
    BY <1>1, <1>2, <1>3, <2>1 DEF OneEntryEach, Remembered
  <2>3. Len(completed') <= Window /\ forgotten' \subseteq Nat \X Ids
    BY <1>2, <1>5, <2>1 DEF TypeOK
  <2>4. /\ DOMAIN completed' = 1..Len(completed) + 1 /\ completed'[Len(completed) + 1] = new
        /\ \A k \in 1..Len(completed) : completed'[k] = completed[k]
    BY <1>2, <1>3, <2>1
  <2>5. \A k \in 1..Len(completed) + 1 :
          completed'[k] = new \/ \E j \in 1..Len(completed) : completed'[k] = completed[j]
    <3> TAKE k \in 1..Len(completed) + 1
    <3>1. CASE k = Len(completed) + 1
      BY <2>4, <3>1
    <3>2. CASE k # Len(completed) + 1
      <4>1. k \in 1..Len(completed)
        BY <1>1, <3>2
      <4> QED
        BY <2>4, <4>1
    <3> QED
      BY <3>1, <3>2
  <2>6. \A j \in 1..Len(completed) :
          \E k \in 1..Len(completed) + 1 : completed'[k] = completed[j]
    BY <1>1, <2>4
  <2>7. \E k \in 1..Len(completed) + 1 : completed'[k].req = req
    BY <1>1, <2>4
  <2> QED
    BY <1>2, <1>3, <2>1, <2>2, <2>3, <2>4, <2>5, <2>6, <2>7
<1> QED
  BY <1>4, <1>5

\* A task stays one, whatever it answers and wherever it goes.
LEMMA ReplyTyped ==
  ASSUME TypeOK, NEW t \in Tasks, NEW ok \in BOOLEAN, NEW rev \in Nat, Reply(t, ok, rev)
  PROVE  task' \in [Tasks -> Work]
<1>1. task[t] \in Work
  BY DEF TypeOK
<1>2. task' = [task EXCEPT ![t] = [task[t] EXCEPT !.at = "answering",
                                                  !.reply = [ok |-> ok, rev |-> rev]]]
  BY DEF Reply, TypeOK
<1>3. [task[t] EXCEPT !.at = "answering", !.reply = [ok |-> ok, rev |-> rev]] \in Work
  BY <1>1 DEF Work, Stages
<1> QED
  BY <1>2, <1>3 DEF TypeOK

LEMMA MoveTyped ==
  ASSUME TypeOK, NEW t \in Tasks, NEW at \in Stages, task' = [task EXCEPT ![t].at = at]
  PROVE  task' \in [Tasks -> Work]
<1>1. task[t] \in Work
  BY DEF TypeOK
<1>2. [task[t] EXCEPT !.at = at] \in Work
  BY <1>1 DEF Work
<1>3. task' = [task EXCEPT ![t] = [task[t] EXCEPT !.at = at]]
  BY DEF TypeOK
<1> QED
  BY <1>2, <1>3 DEF TypeOK

\* Nothing but the tasks, the host keys, the rules and the wish to stop has changed.
Quiet ==
  /\ UNCHANGED <<disk, lock, completed, commits, forgotten, answers, sends>>
  /\ daemon' = [daemon EXCEPT !.stopping = daemon'.stopping] /\ daemon'.stopping \in BOOLEAN

LEMMA QuietTyped ==
  ASSUME TypeOK, Quiet, known' \subseteq Hosts, task' \in [Tasks -> Work],
         rule' \in [Rules -> [at : {"trying", "blocked", "up"}, host : Hosts]]
  PROVE  TypeOK'
<1>1. daemon' \in [up : BOOLEAN, start : 0..MaxStarts, stopping : BOOLEAN, config : Config]
  BY DEF TypeOK, Quiet
<1> QED
  BY <1>1 DEF TypeOK, Quiet

LEMMA Typing ==
  TypeOK => /\ disk.rev \in Nat /\ daemon.config.rev \in Nat
            /\ disk.host \in [Servers -> Hosts] /\ daemon.config.host \in [Servers -> Hosts]
            /\ \A t \in Tasks : /\ task[t].req \in Requests /\ task[t].req \in Request
                                /\ task[t].seen \in Hosts
            /\ daemon.start \in Nat
BY DEF TypeOK, Config, Work

LEMMA TypedSteps == TypeOK /\ [Next]_vars => TypeOK'
<1> SUFFICES ASSUME TypeOK, [Next]_vars PROVE TypeOK'
  OBVIOUS
<1> USE Typing DEF files, history
<1>1. CASE Start
  BY <1>1, EmptySeq DEF Start, TypeOK, Config
<1>2. CASE Signal
  <2>1. Quiet
    BY <1>2 DEF Signal, Quiet, TypeOK
  <2> QED
    BY <1>2, <2>1, QuietTyped DEF Signal, TypeOK
<1>3. CASE Stop \/ Crash
  <2>1. forgotten' \subseteq Nat \X Ids
    <3>1. \A t \in Tasks : <<daemon.start, task[t].req.id>> \in Nat \X Ids
      BY DEF Request
    <3>2. Unrecorded(Tasks) /\ forgotten \subseteq Nat \X Ids
      BY <1>3 DEF Stop, Crash, TypeOK
    <3> QED
      BY <3>1, <3>2 DEF Unrecorded
  <2>2. daemon' \in [up : BOOLEAN, start : 0..MaxStarts, stopping : BOOLEAN, config : Config]
    BY <1>3 DEF Stop, Crash, Ended, TypeOK
  <2> QED
    BY <1>3, <2>1, <2>2, InitialTypes DEF Stop, Crash, TypeOK
<1>4. ASSUME NEW req \in Requests, OfflineChange(req) PROVE TypeOK'
  <2>1. Change(disk, req) \in Config /\ Change(disk, req).rev = disk.rev
    BY ChangeTyped DEF TypeOK
  <2>2. disk' \in Config /\ disk'.rev \in 1..MaxRev
    BY <1>4, <2>1 DEF OfflineChange, Config
  <2>3. [req EXCEPT !.id = Offline, !.guard = NoGuard] \in Request
    <3>1. req \in Request
      OBVIOUS
    <3>2. Offline \in Ids
      BY DEF Ids
    <3> QED
      BY <3>1, <3>2 DEF Request
  <2>4. commits' \in [1..MaxRev -> [req : Request, start : 0..MaxStarts]]
    BY <1>4, <2>2, <2>3 DEF OfflineChange, TypeOK
  <2> QED
    BY <1>4, <2>2, <2>4 DEF OfflineChange, TypeOK
<1>5. ASSUME NEW t \in Tasks, Repeat(t) PROVE TypeOK'
  <2>1. PICK k \in DOMAIN completed :
          Reply(t, completed[k].req = task[t].req, completed[k].rev)
    BY <1>5 DEF Repeat, Remembered
  <2>2. completed[k].rev \in Nat
    <3>1. completed \in Seq([req : Requests, rev : Nat]) /\ k \in 1..Len(completed)
      BY DEF TypeOK
    <3>2. completed[k] \in [req : Requests, rev : Nat]
      BY <3>1, ElementOfSeq
    <3> QED
      BY <3>2
  <2>3. task' \in [Tasks -> Work]
    BY <2>1, <2>2, ReplyTyped
  <2>4. Quiet /\ known' = known /\ rule' = rule
    BY <1>5 DEF Repeat, Quiet, TypeOK
  <2> QED
    BY <2>3, <2>4, QuietTyped DEF TypeOK
<1>6. ASSUME NEW t \in Tasks, Refuse(t) \/ Status(t) \/ Shutdown(t) PROVE TypeOK'
  <2>1. task' \in [Tasks -> Work]
    BY <1>6, ReplyTyped DEF Refuse, Status, Shutdown
  <2>2. Quiet /\ known' = known /\ rule' = rule
    BY <1>6 DEF Refuse, Status, Shutdown, Quiet, TypeOK
  <2> QED
    BY <2>1, <2>2, QuietTyped DEF TypeOK
<1>7. ASSUME NEW t \in Tasks, Inspect(t) PROVE TypeOK'
  <2>1. daemon.config.host[task[t].req.server] \in Hosts
    BY DEF Request
  <2>2. task' \in [Tasks -> Work]
    <3> DEFINE next == [task[t] EXCEPT !.at = "probing",
                                       !.seen = daemon.config.host[task[t].req.server]]
    <3>1. task[t] \in Work /\ "probing" \in Stages
      BY DEF TypeOK, Stages
    <3>2. next \in Work
      BY <2>1, <3>1 DEF Work
    <3>3. task' = [task EXCEPT ![t] = next]
      BY <1>7 DEF Inspect, TypeOK
    <3> QED
      BY <3>2, <3>3 DEF TypeOK
  <2>3. Quiet /\ known' = known /\ rule' = rule
    BY <1>7 DEF Inspect, Probe, Quiet, TypeOK
  <2> QED
    BY <2>2, <2>3, QuietTyped DEF TypeOK
<1>8. ASSUME NEW t \in Tasks, Moved(t) \/ Fetched(t) PROVE TypeOK'
  <2>1. task' \in [Tasks -> Work]
    <3>1. CASE Moved(t)
      BY <3>1, ReplyTyped DEF Moved
    <3>2. CASE Fetched(t)
      BY <3>2, ReplyTyped, MoveTyped, 0 \in Nat DEF Fetched, Stages
    <3> QED
      BY <1>8, <3>1, <3>2
  <2>2. Quiet /\ known' = known /\ rule' = rule
    BY <1>8 DEF Moved, Fetched, Quiet, TypeOK
  <2> QED
    BY <2>1, <2>2, QuietTyped DEF TypeOK
<1>9. ASSUME NEW t \in Tasks, Trust(t) PROVE TypeOK'
  <2>1. task' \in [Tasks -> Work]
    BY <1>9, ReplyTyped DEF Trust
  <2>2. Quiet /\ known' \subseteq Hosts
    BY <1>9 DEF Trust, Quiet, TypeOK
  <2>3. rule' \in [Rules -> [at : {"trying", "blocked", "up"}, host : Hosts]]
    BY <1>9 DEF Trust, TypeOK
  <2> QED
    BY <2>1, <2>2, <2>3, QuietTyped
<1>10. ASSUME NEW t \in Tasks, Unchanged(t) \/ Converged(t) PROVE TypeOK'
  <2>1. Record(task[t].req, daemon.config.rev) /\ Reply(t, TRUE, daemon.config.rev)
    BY <1>10 DEF Unchanged, Converged
  <2>2. /\ completed' \in Seq([req : Requests, rev : Nat]) /\ Len(completed') <= Window
        /\ forgotten' \subseteq Nat \X Ids
    BY <2>1, RecordKeeps
  <2>3. task' \in [Tasks -> Work]
    BY <2>1, ReplyTyped
  <2>4. lock' \in {lock, Nobody} /\ UNCHANGED <<disk, known, daemon, rule, commits, answers, sends>>
    BY <1>10 DEF Unchanged, Converged
  <2> QED
    BY <2>2, <2>3, <2>4 DEF TypeOK
<1>11. ASSUME NEW t \in Tasks, Apply(t) PROVE TypeOK'
  <2> DEFINE changed == Change(daemon.config, task[t].req)
  <2>1. changed \in Config /\ changed.rev = daemon.config.rev
    BY ChangeTyped DEF TypeOK
  <2>2. disk' \in Config /\ disk'.rev \in 1..MaxRev
    BY <1>11, <2>1 DEF Apply, Commit, Config
  <2>3. commits' \in [1..MaxRev -> [req : Request, start : 0..MaxStarts]]
    BY <1>11, <2>2 DEF Apply, TypeOK
  <2>4. daemon' \in [up : BOOLEAN, start : 0..MaxStarts, stopping : BOOLEAN, config : Config]
    BY <1>11, <2>2 DEF Apply, Commit, TypeOK
  <2>5. task' \in [Tasks -> Work]
    BY <1>11, MoveTyped DEF Apply, Stages
  <2>6. rule' \in [Rules -> [at : {"trying", "blocked", "up"}, host : Hosts]]
    BY <1>11 DEF Apply, Touched, TypeOK
  <2>7. lock' = t /\ UNCHANGED <<known, completed, forgotten, answers, sends>>
    BY <1>11 DEF Apply, Commit
  <2> QED
    BY <2>2, <2>3, <2>4, <2>5, <2>6, <2>7 DEF TypeOK
<1>12. ASSUME NEW t \in Tasks, RestartFails(t) PROVE TypeOK'
  <2>1. forgotten' \subseteq Nat \X Ids
    BY <1>12 DEF RestartFails, Unrecorded, TypeOK, Request
  <2>2. task' \in [Tasks -> Work]
    BY <1>12, ReplyTyped DEF RestartFails
  <2> QED
    BY <1>12, <2>1, <2>2 DEF RestartFails, TypeOK
<1>13. ASSUME NEW t \in Tasks, Answer(t) PROVE TypeOK'
  <2>1. [req |-> task[t].req, rev |-> task[t].reply.rev] \in [req : Requests, rev : Nat]
    BY DEF TypeOK, Work
  <2>2. answers' \subseteq [req : Requests, rev : Nat]
    BY <1>13, <2>1 DEF Answer, TypeOK
  <2> QED
    BY <1>13, <2>2, InitialTypes DEF Answer, TypeOK
<1>14. ASSUME NEW t \in Tasks, NEW req \in Requests, Accept(t, req) PROVE TypeOK'
  <2>1. [Free EXCEPT !.at = "queued", !.req = req] \in Work
    BY InitialTypes DEF Work, Stages
  <2> QED
    BY <1>14, <2>1 DEF Accept, TypeOK
<1>15. ASSUME NEW r \in Rules, Attempt(r) PROVE TypeOK'
  <2>1. \A s \in Ends[r] : daemon.config.host[s] \in Hosts
    OBVIOUS
  <2>2. rule' \in [Rules -> [at : {"trying", "blocked", "up"}, host : Hosts]]
    <3> DEFINE unknown == {daemon.config.host[s] : s \in Ends[r]} \ known
    <3>1. \A host \in unknown : host \in Hosts
      BY <2>1
    <3>2. rule \in [Rules -> [at : {"trying", "blocked", "up"}, host : Hosts]]
      BY DEF TypeOK
    <3>3. CASE unknown = {}
      <4>1. rule' = [rule EXCEPT ![r].at = "up"]
        BY <1>15, <3>3 DEF Attempt
      <4>2. [rule[r] EXCEPT !.at = "up"] \in [at : {"trying", "blocked", "up"}, host : Hosts]
        BY <3>2
      <4> QED
        BY <3>2, <4>1, <4>2
    <3>4. CASE unknown # {}
      <4>1. PICK host \in unknown : rule' = [rule EXCEPT ![r] = [at |-> "blocked", host |-> host]]
        BY <1>15, <3>4 DEF Attempt
      <4> QED
        BY <3>1, <3>2, <4>1
    <3> QED
      BY <3>3, <3>4
  <2> QED
    BY <1>15, <2>2 DEF Attempt, TypeOK
<1>16. CASE UNCHANGED vars
  BY <1>16 DEF vars, TypeOK
<1> QED
  BY <1>1, <1>2, <1>3, <1>4, <1>5, <1>6, <1>7, <1>8, <1>9, <1>10, <1>11, <1>12, <1>13, <1>14,
     <1>15, <1>16 DEF Next, Serve, Proceed

\* A step of a task that neither commits nor records changes requests and answers only.
Aside(t) ==
  /\ UNCHANGED <<disk, lock, completed, commits, forgotten>>
  /\ daemon'.up = daemon.up /\ daemon'.start = daemon.start /\ daemon'.config = daemon.config
  /\ \A u \in Tasks \ {t} : task'[u] = task[u]
  /\ ~At(t, "working") /\ ~At(t, "working")'

LEMMA AsideKeeps ==
  ASSUME IInv, TypeOK', NEW t \in Tasks, Aside(t), daemon.up \/ At(t, "free")',
         task'[t].at \in {"probing", "fetched"} => task'[t].req.cmd = "trust",
         At(t, "answering")' /\ task'[t].reply.ok => Stands(task'[t].req, task'[t].reply.rev),
         \A a \in answers' : Stands(a.req, a.rev)
  PROVE  IInv'
<1> USE DEF Aside
<1>1. Loaded'
  BY DEF IInv, Loaded, At
<1>2. Exclusive'
  BY DEF IInv, Exclusive, At, Cmd, Changed, Stands
<1>3. Remembers'
  BY DEF IInv, Remembers, OneEntryEach, Remembered, Stands, At
<1>4. \A n \in 1..MaxRev : Made(n)' => Accounted(n)' /\ Guarded(n)'
  BY DEF IInv, Accounted, Guarded, Made, Remembered, At
<1>5. AppliedOnce'
  BY DEF IInv, AppliedOnce, Made
<1>6. AnswersStand' /\ \A a \in answers' : Stands(a.req, a.rev)'
  BY DEF AnswersStand, Stands
<1> QED
  BY <1>1, <1>2, <1>3, <1>4, <1>5, <1>6 DEF IInv

LEMMA NothingKeeps ==
  ASSUME IInv, TypeOK',
         UNCHANGED <<disk, lock, completed, commits, forgotten, task, answers>>,
         daemon'.up = daemon.up, daemon'.start = daemon.start, daemon'.config = daemon.config
  PROVE  IInv'
<1>1. Loaded' /\ Exclusive'
  BY DEF IInv, Loaded, Exclusive, At, Cmd, Changed, Stands
<1>2. Remembers'
  BY DEF IInv, Remembers, OneEntryEach, Remembered, Stands, At
<1>3. \A n \in 1..MaxRev : Made(n)' => Accounted(n)' /\ Guarded(n)'
  BY DEF IInv, Accounted, Guarded, Made, Remembered, At
<1>4. AppliedOnce' /\ AnswersStand' /\ \A a \in answers' : Stands(a.req, a.rev)'
  BY DEF IInv, AppliedOnce, AnswersStand, Made, Stands
<1> QED
  BY <1>1, <1>2, <1>3, <1>4 DEF IInv

\* Requests that are read, answered from the window, refused or answered as they are.
LEMMA AsideSteps ==
  ASSUME IInv, TypeOK', NEW t \in Tasks,
         \/ Repeat(t) \/ Refuse(t) \/ Status(t) \/ Shutdown(t) \/ Inspect(t) \/ Fetched(t)
         \/ Moved(t) \/ Trust(t) \/ Answer(t) \/ \E req \in Requests : Accept(t, req)
  PROVE  IInv'
<1>0. TypeOK /\ Loaded /\ Exclusive /\ task \in [Tasks -> Work]
      /\ \A a \in answers : Stands(a.req, a.rev)
  BY DEF IInv, TypeOK
<1> USE DEF files, history
<1>1. CASE Repeat(t)
  <2>1. PICK k \in DOMAIN completed :
          Reply(t, completed[k].req = task[t].req, completed[k].rev)
    BY <1>1 DEF Repeat, Remembered
  <2>2. /\ task'[t].reply.ok = (completed[k].req = task[t].req)
        /\ task'[t].reply.rev = completed[k].rev /\ task'[t].req = task[t].req
        /\ task'[t].at = "answering" /\ \A u \in Tasks \ {t} : task'[u] = task[u]
    BY <1>0, <2>1 DEF Reply, Work
  <2>3. Stands(completed[k].req, completed[k].rev)
    BY DEF IInv, Remembers
  <2>4. Aside(t) /\ daemon.up /\ answers' = answers
    BY <1>1, <2>2 DEF Repeat, Locks, Aside, At
  <2> QED
    BY <1>0, <2>2, <2>3, <2>4, AsideKeeps
<1>2. CASE Refuse(t)
  <2>1. /\ task'[t].at = "answering" /\ ~task'[t].reply.ok
        /\ \A u \in Tasks \ {t} : task'[u] = task[u]
    BY <1>0, <1>2 DEF Refuse, Reply, Work
  <2>2. Aside(t) /\ daemon.up /\ answers' = answers
    BY <1>2, <2>1 DEF Refuse, Fresh, Locks, Aside, At
  <2> QED
    BY <1>0, <2>1, <2>2, AsideKeeps
<1>3. CASE Status(t) \/ Shutdown(t)
  <2>1. /\ task'[t].at = "answering" /\ task'[t].req = task[t].req
        /\ task'[t].reply.rev = daemon.config.rev /\ task[t].req.cmd # "restart"
        /\ \A u \in Tasks \ {t} : task'[u] = task[u]
    BY <1>0, <1>3 DEF Status, Shutdown, Reply, Work, Cmd
  <2>2. Aside(t) /\ daemon.up /\ answers' = answers
    BY <1>0, <1>3, <2>1 DEF Status, Shutdown, Locks, Aside, At, TypeOK
  <2>3. Stands(task'[t].req, task'[t].reply.rev)
    BY <1>0, <2>1, <2>2, Typing DEF Stands, Loaded
  <2> QED
    BY <1>0, <2>1, <2>2, <2>3, AsideKeeps
<1>4. CASE Trust(t) \/ Moved(t)
  <2>1. /\ task'[t].at = "answering" /\ task'[t].req = task[t].req
        /\ task'[t].reply.rev = daemon.config.rev /\ task[t].at = "fetched"
        /\ \A u \in Tasks \ {t} : task'[u] = task[u]
    BY <1>0, <1>4 DEF Trust, Moved, Reply, Work, At
  <2>2. Aside(t) /\ answers' = answers
    BY <1>0, <1>4, <2>1 DEF Trust, Moved, Aside, At
  <2>3. daemon.up /\ task[t].req.cmd # "restart"
    BY <1>0, <2>1 DEF Loaded, Exclusive, At, Cmd
  <2>4. Stands(task'[t].req, task'[t].reply.rev)
    BY <1>0, <2>1, <2>3, Typing DEF Stands, Loaded
  <2> QED
    BY <1>0, <2>1, <2>2, <2>3, <2>4, AsideKeeps
<1>5. CASE Inspect(t)
  <2>1. /\ task'[t].at = "probing" /\ task'[t].req = task[t].req /\ task[t].req.cmd = "trust"
        /\ \A u \in Tasks \ {t} : task'[u] = task[u]
    BY <1>0, <1>5 DEF Inspect, Probe, Cmd, Work
  <2>2. Aside(t) /\ daemon.up /\ answers' = answers
    BY <1>0, <1>5, <2>1 DEF Inspect, Probe, Locks, Aside, At
  <2> QED
    BY <1>0, <2>1, <2>2, AsideKeeps DEF At
<1>6. CASE Fetched(t)
  <2>1. /\ task'[t].at \in {"fetched", "answering"} /\ task'[t].req = task[t].req
        /\ task'[t].at = "answering" => ~task'[t].reply.ok
        /\ task[t].at = "probing" /\ \A u \in Tasks \ {t} : task'[u] = task[u]
    BY <1>0, <1>6 DEF Fetched, Reply, Work, At
  <2>2. Aside(t) /\ answers' = answers
    BY <1>0, <1>6, <2>1 DEF Fetched, Aside, At
  <2>3. daemon.up /\ task[t].req.cmd = "trust"
    BY <1>0, <2>1 DEF Loaded, Exclusive, At, Cmd
  <2> QED
    BY <1>0, <2>1, <2>2, <2>3, AsideKeeps DEF At
<1>7. CASE Answer(t)
  <2>1. /\ task'[t].at = "free" /\ task[t].at = "answering"
        /\ \A u \in Tasks \ {t} : task'[u] = task[u]
    BY <1>0, <1>7 DEF Answer, Free, At
  <2>2. Aside(t)
    BY <1>0, <1>7, <2>1 DEF Answer, Aside, At
  <2>3. \A a \in answers' : Stands(a.req, a.rev)
    <3>1. task[t].reply.ok => Stands(task[t].req, task[t].reply.rev)
      BY <1>0, <2>1 DEF Exclusive, At
    <3> DEFINE own == [req |-> task[t].req, rev |-> task[t].reply.rev]
    <3>2. own.req = task[t].req /\ own.rev = task[t].reply.rev
      OBVIOUS
    <3>3. answers' = answers \/ (task[t].reply.ok /\ answers' = answers \cup {own})
      <4>1. answers' \in {answers} \cup
              IF task[t].reply.ok THEN {answers \cup {own}} ELSE {}
        BY <1>7 DEF Answer
      <4>2. CASE task[t].reply.ok
        BY <4>1, <4>2
      <4>3. CASE ~task[t].reply.ok
        BY <4>1, <4>3
      <4> QED
        BY <4>2, <4>3
    <3> QED
      BY <1>0, <3>1, <3>2, <3>3
  <2> QED
    BY <1>0, <2>1, <2>2, <2>3, AsideKeeps DEF At
<1>8. ASSUME NEW req \in Requests, Accept(t, req) PROVE IInv'
  <2>1. /\ task'[t].at = "queued" /\ task[t].at = "free"
        /\ \A u \in Tasks \ {t} : task'[u] = task[u]
    BY <1>0, <1>8 DEF Accept, Free, At
  <2>2. Aside(t) /\ daemon.up /\ answers' = answers
    BY <1>0, <1>8, <2>1 DEF Accept, Aside, At
  <2> QED
    BY <1>0, <2>1, <2>2, AsideKeeps DEF At
<1> QED
  BY <1>1, <1>2, <1>3, <1>4, <1>5, <1>6, <1>7, <1>8
-----------------------------------------------------------------------------
(***************************************************************************)
(* Steps that commit, record or forget.                                    *)
(***************************************************************************)
\* What was done stays done: no commit is rewritten, so an answer stands for ever.
LEMMA StandsOn ==
  ASSUME TypeOK, TypeOK', disk'.rev \in {disk.rev, disk.rev + 1},
         \A n \in 1..disk.rev : commits'[n] = commits[n]
  PROVE  \A req, rev : Stands(req, rev) => Stands(req, rev)'
<1>1. disk.rev \in Nat /\ disk'.rev \in Nat
  BY DEF TypeOK, Config
<1> QED
  BY <1>1 DEF Stands

\* A task ends its work: the commit is in the window, or the request is forgotten.
LEMMA DoneKeeps ==
  ASSUME IInv, TypeOK', NEW t \in Tasks,
         UNCHANGED <<disk, daemon, commits, answers>>,
         daemon.up, lock' = Nobody, lock \in {t, Nobody},
         \A u \in Tasks \ {t} : task'[u] = task[u],
         At(t, "answering")', task'[t].reply.ok => Stands(task'[t].req, task'[t].reply.rev),
         Remembers', forgotten \subseteq forgotten',
         \A j \in DOMAIN completed :
           \/ \E k \in DOMAIN completed' : completed'[k] = completed[j]
           \/ <<daemon.start, completed[j].req.id>> \in forgotten',
         At(t, "working") => \/ \E k \in DOMAIN completed' : completed'[k].req.id = task[t].req.id
                             \/ <<daemon.start, task[t].req.id>> \in forgotten'
  PROVE  IInv'
<1>1. Loaded'
  BY DEF IInv, Loaded
<1>2. Exclusive'
  BY NobodyAssumption DEF IInv, Exclusive, At, Cmd, Changed, Stands
<1>3. ASSUME NEW n \in 1..MaxRev, Made(n)' PROVE Accounted(n)' /\ Guarded(n)'
  <2>1. Made(n) /\ Accounted(n) /\ Guarded(n)
    BY <1>3 DEF IInv, Made
  <2>2. Guarded(n)' /\ commits'[n].start <= daemon'.start
    BY <2>1 DEF Guarded, Accounted
  <2>3. CASE Remembered(commits[n].req) # {}
    BY <2>2, <2>3 DEF Accounted, Remembered
  <2>4. ASSUME NEW u \in Tasks, At(u, "working"), task[u].req = commits[n].req
        PROVE  Accounted(n)'
    <3>1. u = t
      BY <2>4 DEF IInv, Exclusive
    <3> QED
      BY <1>3, <2>2, <2>4, <3>1 DEF Accounted, Remembered
  <2>5. CASE <<daemon.start, commits[n].req.id>> \in forgotten
    BY <2>2, <2>5 DEF Accounted
  <2> QED
    BY <2>1, <2>2, <2>3, <2>4, <2>5 DEF Accounted
<1>4. AppliedOnce' /\ AnswersStand' /\ \A a \in answers' : Stands(a.req, a.rev)'
  BY DEF IInv, AppliedOnce, AnswersStand, Made, Stands
<1> QED
  BY <1>1, <1>2, <1>3, <1>4 DEF IInv

LEMMA RecordSteps ==
  ASSUME IInv, TypeOK', NEW t \in Tasks, Unchanged(t) \/ Converged(t)
  PROVE  IInv'
<1> DEFINE req == task[t].req
           rev == daemon.config.rev
<1>0. TypeOK /\ Loaded /\ Exclusive /\ Remembers /\ task \in [Tasks -> Work]
  BY DEF IInv, TypeOK
<1>1. /\ Record(req, rev) /\ Reply(t, TRUE, rev) /\ lock' = Nobody
      /\ UNCHANGED <<disk, daemon, commits, answers>>
  BY DEF Unchanged, Converged, Current, Fresh, Locks, files
<1>2. /\ At(t, "answering")' /\ task'[t].req = req /\ task'[t].reply.rev = rev
      /\ \A u \in Tasks \ {t} : task'[u] = task[u]
  BY <1>0, <1>1 DEF Reply, Work, At
<1>3. /\ daemon.up /\ lock \in {t, Nobody} /\ Stands(req, rev) /\ Remembered(req) = {}
      /\ \A u \in Tasks \ {t} : ~At(u, "working")
  <2>1. CASE Unchanged(t)
    <3>1. daemon.up /\ lock = Nobody /\ req.cmd = "put" /\ Remembered(req) = {}
      BY <2>1 DEF Unchanged, Current, Fresh, Locks, Cmd
    <3> QED
      BY <1>0, <3>1, NobodyAssumption, Typing DEF Stands, Loaded, Exclusive
  <2>2. CASE Converged(t)
    <3>1. At(t, "working") /\ lock = t /\ Changed(disk.rev, req, daemon.start)
      BY <1>0, <2>2 DEF Converged, Exclusive
    <3>2. daemon.up /\ rev = disk.rev
      BY <1>0, <3>1 DEF Loaded, At
    <3> QED
      <4>1. Stands(req, rev)
        BY <3>1, <3>2, Typing, <1>0 DEF Stands, Changed
      <4>2. Remembered(req) = {} /\ \A u \in Tasks \ {t} : ~At(u, "working")
        BY <1>0, <3>1 DEF Remembers, Exclusive
      <4> QED
        BY <3>1, <3>2, <4>1, <4>2
  <2> QED
    BY <2>1, <2>2
<1> HIDE DEF req, rev
<1>4. req \in Requests /\ rev \in Nat
  BY <1>0, Typing DEF req, rev
<1>5. /\ forgotten \subseteq forgotten'
      /\ \E k \in DOMAIN completed' : completed'[k].req = req
      /\ \A k \in DOMAIN completed' :
           \/ completed'[k] = [req |-> req, rev |-> rev]
           \/ \E j \in DOMAIN completed : completed'[k] = completed[j]
      /\ \A j \in DOMAIN completed :
           \/ \E k \in DOMAIN completed' : completed'[k] = completed[j]
           \/ <<daemon.start, completed[j].req.id>> \in forgotten'
      /\ OneEntryEach'
  BY <1>0, <1>1, <1>3, <1>4, RecordKeeps DEF Remembers
<1>6. Remembers'
  <2>1. ASSUME NEW k \in DOMAIN completed'
        PROVE  Stands(completed'[k].req, completed'[k].rev)
    <3>1. CASE completed'[k] = [req |-> req, rev |-> rev]
      BY <1>3, <3>1
    <3>2. CASE \E j \in DOMAIN completed : completed'[k] = completed[j]
      BY <1>0, <3>2 DEF Remembers
    <3> QED
      BY <1>5, <3>1, <3>2
  <2>2. \A u \in Tasks : task'[u].at # "working"
    BY <1>2, <1>3 DEF At
  <2> QED
    BY <1>1, <1>5, <2>1, <2>2 DEF Remembers, Stands, At
<1>7. \E k \in DOMAIN completed' : completed'[k].req.id = req.id
  BY <1>5
<1> QED
  BY <1>1, <1>2, <1>3, <1>5, <1>6, <1>7, DoneKeeps DEF req

\* A restart fails, or a daemon ends: what was being worked on is forgotten.
LEMMA ForgetSteps ==
  ASSUME IInv, TypeOK', Stop \/ Crash \/ \E t \in Tasks : RestartFails(t)
  PROVE  IInv'
<1> USE DEF files
<1>0. TypeOK /\ Loaded /\ Exclusive /\ Remembers /\ task \in [Tasks -> Work]
  BY DEF IInv, TypeOK
<1>1. CASE Stop \/ Crash
  <2>1. /\ UNCHANGED <<disk, completed, commits, answers>> /\ lock' = Nobody
        /\ daemon'.start = daemon.start /\ ~daemon'.up
        /\ \A t \in Tasks : task'[t].at = "free"
        /\ forgotten' = forgotten \cup
             {<<daemon.start, task[t].req.id>> : t \in {u \in Tasks : At(u, "working")}}
    <3>1. daemon'.start = daemon.start /\ ~daemon'.up
      BY <1>0, <1>1 DEF Stop, Crash, Ended, TypeOK
    <3>2. \A t \in Tasks : task'[t].at = "free"
      BY <1>1 DEF Stop, Crash, Free
    <3> QED
      BY <1>1, <3>1, <3>2 DEF Stop, Crash, Unrecorded
  <2>2. Loaded'
    BY <1>0, <2>1 DEF Loaded, At
  <2>3. Exclusive'
    BY <2>1, NobodyAssumption DEF Exclusive, At
  <2>4. Remembers'
    BY <1>0, <2>1 DEF Remembers, OneEntryEach, Remembered, Stands, At
  <2>5. ASSUME NEW n \in 1..MaxRev, Made(n)' PROVE Accounted(n)' /\ Guarded(n)'
    <3>1. Made(n) /\ Accounted(n) /\ Guarded(n)
      BY <2>1, <2>5 DEF IInv, Made
    <3>2. CASE Remembered(commits[n].req) # {}
      BY <2>1, <3>1, <3>2 DEF Accounted, Guarded, Remembered
    <3>3. CASE Remembered(commits[n].req) = {} /\ commits[n].start = daemon.start
      <4>1. <<daemon.start, commits[n].req.id>> \in forgotten'
        BY <2>1, <3>1, <3>3 DEF Accounted
      <4> QED
        BY <2>1, <3>1, <4>1 DEF Accounted, Guarded
    <3> QED
      BY <2>1, <3>1, <3>2, <3>3 DEF Accounted, Guarded
  <2>6. AppliedOnce' /\ AnswersStand' /\ \A a \in answers' : Stands(a.req, a.rev)'
    BY <2>1 DEF IInv, AppliedOnce, AnswersStand, Made, Stands
  <2> QED
    BY <2>2, <2>3, <2>4, <2>5, <2>6 DEF IInv
<1>2. ASSUME NEW t \in Tasks, RestartFails(t) PROVE IInv'
  <2>1. /\ UNCHANGED <<disk, daemon, completed, commits, answers>> /\ lock' = Nobody
        /\ At(t, "working") /\ At(t, "answering")' /\ ~task'[t].reply.ok
        /\ \A u \in Tasks \ {t} : task'[u] = task[u]
    BY <1>0, <1>2 DEF RestartFails, Reply, Work, At
  <2>2. daemon.up /\ lock = t /\ \A u \in Tasks \ {t} : ~At(u, "working")
    BY <1>0, <2>1 DEF Loaded, Exclusive, At
  <2>3. forgotten' = forgotten \cup {<<daemon.start, task[t].req.id>>}
    BY <1>2, <2>1 DEF RestartFails, Unrecorded
  <2>4. Remembers'
    BY <1>0, <2>1, <2>2 DEF Remembers, OneEntryEach, Remembered, Stands, At
  <2> QED
    BY <2>1, <2>2, <2>3, <2>4, DoneKeeps
<1> QED
  BY <1>1, <1>2

\* A new daemon has an empty window, and nothing was committed in its start.
LEMMA StartSteps ==
  ASSUME IInv, TypeOK', Start
  PROVE  IInv'
<1> USE DEF files, history
<1>1. /\ UNCHANGED <<disk, lock, task, commits, forgotten, answers>> /\ completed' = <<>>
      /\ daemon'.start = daemon.start + 1 /\ daemon'.config = disk /\ daemon'.up
      /\ daemon.start \in Nat /\ \A t \in Tasks : task[t].at = "free"
  BY Typing DEF Start, IInv, Loaded, At
<1>2. Loaded'
  BY <1>1 DEF IInv, Loaded
<1>3. Exclusive'
  BY <1>1 DEF IInv, Exclusive, At, Cmd, Stands, Changed
<1>4. Remembers'
  BY <1>1 DEF Remembers, OneEntryEach, At
<1>5. ASSUME NEW n \in 1..MaxRev, Made(n)' PROVE Accounted(n)' /\ Guarded(n)'
  <2>1. commits[n].start <= daemon.start /\ Guarded(n)
    BY <1>1, <1>5 DEF IInv, Made, Accounted
  <2>2. commits[n].start \in Nat
    BY DEF IInv, TypeOK
  <2> QED
    BY <1>1, <2>1, <2>2 DEF Accounted, Guarded
<1>6. AppliedOnce' /\ AnswersStand' /\ \A a \in answers' : Stands(a.req, a.rev)'
  BY <1>1 DEF IInv, AppliedOnce, AnswersStand, Made, Stands
<1> QED
  BY <1>2, <1>3, <1>4, <1>5, <1>6 DEF IInv

\* A change without a daemon is nobody's second time.
LEMMA OfflineSteps ==
  ASSUME IInv, TypeOK', NEW req \in Requests, OfflineChange(req)
  PROVE  IInv'
<1>0. TypeOK /\ Loaded /\ Exclusive /\ Remembers /\ disk.rev \in Nat
  BY Typing DEF IInv
<1>1. /\ UNCHANGED <<daemon, lock, completed, task, forgotten, answers>> /\ ~daemon.up
      /\ disk.rev < MaxRev /\ disk'.rev = disk.rev + 1
      /\ commits'[disk'.rev].start = 0
      /\ \A n \in 1..disk.rev : commits'[n] = commits[n]
  <2>1. Change(disk, req).rev = disk.rev /\ Change(disk, req) \in Config
    BY <1>0, ChangeTyped DEF TypeOK
  <2>2. disk'.rev = disk.rev + 1
    BY <2>1 DEF OfflineChange, Config
  <2> QED
    BY <1>0, <2>2 DEF OfflineChange, TypeOK
<1>2. \A q, rev : Stands(q, rev) => Stands(q, rev)'
  BY <1>0, <1>1, StandsOn
<1>3. Loaded' /\ Exclusive'
  BY <1>0, <1>1 DEF Loaded, Exclusive, At
<1>4. Remembers'
  <2>1. \A k \in DOMAIN completed : Stands(completed[k].req, completed[k].rev)'
    BY <1>0, <1>1, <1>2 DEF Remembers, Stands
  <2> QED
    BY <1>0, <1>1, <2>1 DEF Remembers, OneEntryEach, Remembered, At, Loaded, Stands
<1>5. \A n \in 1..MaxRev : Made(n)' => Made(n) /\ commits'[n] = commits[n]
  BY <1>0, <1>1 DEF Made
<1>6. \A n \in 1..MaxRev : Made(n)' => Accounted(n)' /\ Guarded(n)'
  BY <1>0, <1>1, <1>5 DEF IInv, Accounted, Guarded, Remembered, At
<1>7. AppliedOnce'
  BY <1>1, <1>5 DEF IInv, AppliedOnce
<1>8. AnswersStand' /\ \A a \in answers' : Stands(a.req, a.rev)'
  BY <1>0, <1>1, <1>2 DEF IInv, AnswersStand, Stands
<1> QED
  BY <1>3, <1>4, <1>6, <1>7, <1>8 DEF IInv

\* A commit is made under the lock, for an id that is not remembered: it can be a second
\* time only for one that is forgotten, and not under the same guard.
LEMMA ApplySteps ==
  ASSUME IInv, TypeOK', NEW t \in Tasks, Apply(t)
  PROVE  IInv'
<1> DEFINE req == task[t].req
           new == disk.rev + 1
<1>0. /\ TypeOK /\ Loaded /\ Exclusive /\ Remembers /\ AppliedOnce /\ disk.rev \in Nat
      /\ task \in [Tasks -> Work] /\ req \in Request
  BY Typing DEF IInv, TypeOK
<1>1. /\ daemon.up /\ daemon.config = disk /\ daemon.start # 0 /\ lock = Nobody
      /\ At(t, "queued") /\ Remembered(req) = {} /\ req.guard \in {NoGuard, disk.rev}
  BY <1>0 DEF Apply, Commit, Current, Fresh, Locks, Loaded
<1>2. disk'.rev = new /\ new \in 1..MaxRev
  <2>1. Change(disk, req).rev = disk.rev /\ Change(disk, req) \in Config
    BY <1>0, ChangeTyped DEF TypeOK
  <2> QED
    BY <1>0, <1>1, <2>1 DEF Apply, Commit, Config
<1>3. /\ UNCHANGED <<completed, forgotten, answers>> /\ lock' = t
      /\ daemon'.up /\ daemon'.start = daemon.start /\ daemon'.config = disk'
      /\ commits'[new] = [req |-> req, start |-> daemon.start]
      /\ \A n \in 1..disk.rev : commits'[n] = commits[n]
  BY <1>0, <1>1, <1>2 DEF Apply, Commit, TypeOK
<1>4. /\ task'[t].at = "working" /\ task'[t].req = req
      /\ \A u \in Tasks \ {t} : task'[u] = task[u]
  BY <1>0 DEF Apply, Work
<1>5. \A u \in Tasks : ~At(u, "working")
  BY <1>0, <1>1, NobodyAssumption DEF Exclusive
<1>6. \A q, rev : Stands(q, rev) => Stands(q, rev)'
  BY <1>0, <1>2, <1>3, StandsOn
<1> HIDE DEF req, new
<1>7. new = disk.rev + 1
  BY DEF new
<1>8. Loaded'
  BY <1>0, <1>1, <1>2, <1>3 DEF Loaded
<1>9. Exclusive'
  <2>1. Changed(disk.rev, task[t].req, daemon.start)'
    BY <1>2, <1>3, <1>4, <1>7, <1>0 DEF Changed
  <2>2. ASSUME NEW u \in Tasks \ {t}, At(u, "answering")', task'[u].reply.ok
        PROVE  Stands(task[u].req, task[u].reply.rev)'
    <3>1. task'[u] = task[u] /\ Stands(task[u].req, task[u].reply.rev)
      BY <1>0, <1>4, <2>2 DEF Exclusive, At
    <3> QED
      BY <1>2, <1>3, <1>7, <1>0, <3>1 DEF Stands
  <2> QED
    BY <1>0, <1>3, <1>4, <1>5, <2>1, <2>2 DEF Exclusive, At, Cmd
<1>10. Remembers'
  <2>1. ASSUME NEW k \in DOMAIN completed
        PROVE  Stands(completed[k].req, completed[k].rev)'
    BY <1>0, <1>2, <1>3, <1>7 DEF Remembers, Stands
  <2>2. \A u \in Tasks : At(u, "working")' => Remembered(task[u].req)' = {}
    BY <1>1, <1>3, <1>4, <1>5 DEF At, Remembered, req
  <2> QED
    BY <1>0, <1>3, <2>1, <2>2 DEF Remembers, OneEntryEach, Stands
<1>11. ASSUME NEW n \in 1..MaxRev, Made(n)'
       PROVE  n = new \/ (n \in 1..disk.rev /\ Made(n) /\ commits'[n] = commits[n]
                          /\ Accounted(n) /\ Guarded(n))
  BY <1>0, <1>2, <1>3, <1>7, <1>11 DEF Made, IInv
<1>12. ASSUME NEW n \in 1..MaxRev, Made(n)' PROVE Accounted(n)' /\ Guarded(n)'
  <2>1. CASE n = new
    <3>1. At(t, "working")' /\ task'[t].req = commits'[n].req
      BY <1>3, <1>4, <2>1 DEF At
    <3>2. commits'[n].start <= daemon'.start
      BY <1>0, <1>3, <2>1 DEF TypeOK
    <3>3. commits'[n].req.guard \in {NoGuard, n - 1}
      BY <1>0, <1>1, <1>3, <1>7, <2>1
    <3> QED
      BY <3>1, <3>2, <3>3 DEF Accounted, Guarded
  <2>2. CASE n # new
    BY <1>3, <1>5, <1>11, <1>12, <2>2 DEF Accounted, Guarded, Remembered
  <2> QED
    BY <2>1, <2>2
<1>13. AppliedOnce'
  <2> SUFFICES ASSUME NEW m \in 1..MaxRev, NEW n \in 1..MaxRev, m < n,
                      Made(m)', Made(n)', commits'[m].req.id = commits'[n].req.id
               PROVE  /\ \/ commits'[m].start # commits'[n].start
                         \/ <<commits'[m].start, commits'[m].req.id>> \in forgotten'
                      /\ commits'[m].req # commits'[n].req \/ commits'[m].req.guard = NoGuard
    BY DEF AppliedOnce
  <2>1. m # new /\ m \in 1..disk.rev /\ commits'[m] = commits[m] /\ Made(m)
    BY <1>0, <1>2, <1>7, <1>11 DEF Made
  <2>2. Accounted(m) /\ Guarded(m)
    BY <1>11, <2>1
  <2>3. CASE n = new
    <3>1. commits'[n].req = req /\ commits'[n].start = daemon.start
      BY <1>3, <2>3
    <3>2. Remembered(commits[m].req) = {}
      BY <1>1, <2>1, <3>1 DEF Remembered
    <3>3. commits[m].start = daemon.start =>
            <<daemon.start, commits[m].req.id>> \in forgotten
      BY <1>5, <2>2, <3>2 DEF Accounted
    <3>4. commits[m].req = req => commits[m].req.guard = NoGuard
      BY <1>0, <1>1, <2>1, <2>2 DEF Guarded
    <3> QED
      BY <1>3, <2>1, <3>1, <3>3, <3>4
  <2>4. CASE n # new
    BY <1>0, <1>3, <1>11, <2>1, <2>4 DEF AppliedOnce
  <2> QED
    BY <2>3, <2>4
<1>14. AnswersStand' /\ \A a \in answers' : Stands(a.req, a.rev)'
  <2>1. \A a \in answers : Stands(a.req, a.rev)'
    BY <1>6 DEF IInv
  <2> QED
    BY <1>2, <1>3, <2>1 DEF AnswersStand, Stands
<1> QED
  BY <1>8, <1>9, <1>10, <1>12, <1>13, <1>14 DEF IInv
-----------------------------------------------------------------------------
LEMMA Initially == Init => IInv
<1> SUFFICES ASSUME Init PROVE IInv
  OBVIOUS
<1>1. TypeOK
  BY TypedInitially
<1>2. disk.rev = 0 /\ DOMAIN completed = {} /\ \A t \in Tasks : At(t, "free")
  BY DEF Init, Config0, At, Free
<1>3. Loaded /\ Exclusive /\ Remembers
  BY <1>2, NobodyAssumption DEF Init, Loaded, Exclusive, Remembers, OneEntryEach, At
<1>4. \A n \in 1..MaxRev : ~Made(n)
  BY <1>2 DEF Made
<1>5. AppliedOnce /\ AnswersStand /\ \A a \in answers : Stands(a.req, a.rev)
  BY <1>4 DEF Init, AppliedOnce, AnswersStand
<1> QED
  BY <1>1, <1>3, <1>4, <1>5 DEF IInv

LEMMA Step == IInv /\ [Next]_vars => IInv'
<1> SUFFICES ASSUME IInv, [Next]_vars PROVE IInv'
  OBVIOUS
<1>0. TypeOK'
  BY TypedSteps DEF IInv
<1>1. CASE UNCHANGED vars
  BY <1>0, <1>1, NothingKeeps DEF vars, files, history
<1>2. CASE Signal
  <2>1. daemon'.up = daemon.up /\ daemon'.start = daemon.start /\ daemon'.config = daemon.config
    BY <1>2 DEF Signal, IInv, TypeOK
  <2> QED
    BY <1>0, <1>2, <2>1, NothingKeeps DEF Signal, files, history
<1>3. ASSUME NEW r \in Rules, Attempt(r) PROVE IInv'
  BY <1>0, <1>3, NothingKeeps DEF Attempt, files, history
<1>4. ASSUME NEW t \in Tasks,
             \/ Serve(t) \/ Proceed(t) \/ Fetched(t) \/ \E req \in Requests : Accept(t, req)
      PROVE  IInv'
  BY <1>0, <1>4, AsideSteps, RecordSteps, ForgetSteps, ApplySteps DEF Serve, Proceed
<1> QED
  BY <1>0, <1>1, <1>2, <1>3, <1>4, StartSteps, ForgetSteps, OfflineSteps DEF Next

\* All of it together: between two steps of the daemon, its tasks and its clients the
\* window, the lock and the disk agree about what was done for whom.
THEOREM Invariant == Spec => []IInv
<1>1. Init => IInv
  BY Initially
<1>2. IInv /\ [Next]_vars => IInv'
  BY Step
<1> QED
  BY <1>1, <1>2, PTL DEF Spec

\* The variables have their types; the window never exceeds its size.
THEOREM DaemonTypeCorrect == Spec => []TypeOK
<1>1. IInv => TypeOK
  BY DEF IInv
<1> QED
  BY <1>1, Invariant, PTL

\* A request id changes the configuration a second time only when its first change is
\* known to be forgotten, and with a guard never (dispatch.rs, apply).
THEOREM RequestsAppliedOnce == Spec => []AppliedOnce
<1>1. IInv => AppliedOnce
  BY DEF IInv
<1> QED
  BY <1>1, Invariant, PTL

\* A successful answer stands for what is on disk, also when it is repeated (finish_commit).
THEOREM AnswersAreTrue == Spec => []AnswersStand
<1>1. IInv => AnswersStand
  BY DEF IInv
<1> QED
  BY <1>1, Invariant, PTL

\* A host key is recorded only for the profile its server has at that moment (inspect_at).
THEOREM TrustIsForSaved == Spec => TrustsSavedProfile
<1> DEFINE Recorded == \A host \in known' \ known :
                         \E t \in Tasks : /\ At(t, "fetched")
                                          /\ daemon.config.host[task[t].req.server] = host
<1>1. [Next]_vars => [Recorded]_vars
  <2> SUFFICES ASSUME [Next]_vars, known' # known PROVE Recorded
    BY DEF Recorded
  <2>1. PICK t \in Tasks : Trust(t)
    BY DEF Next, vars, Start, Signal, Stop, Crash, OfflineChange, Serve, Proceed, Fetched, Accept,
       Attempt, Repeat, Refuse, Unchanged, Apply, Status, Shutdown, Inspect, Moved, Converged,
       RestartFails, Answer, files
  <2> QED
    BY <2>1 DEF Trust, SameProfile
<1> QED
  BY <1>1, PTL DEF Spec, TrustsSavedProfile
=============================================================================
