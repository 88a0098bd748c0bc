------------------------ MODULE RelayCoordinator_proofs ------------------------
(***************************************************************************)
(* For any number of relays, permits, edits and losses: connections are    *)
(* bridged only through a listener that is open, recorded and confirmed,   *)
(* a verified listener that is open is recorded, and the number of         *)
(* connections shown is the number bridged.  The first two follow one      *)
(* task's stages, the third the generations of its rule.                   *)
(***************************************************************************)
EXTENDS RelayCoordinator, TLAPS

\* What a task has at the stage where it stands.
Open == {"confirm", "serving", "cancelling"}
Holding == {"listen", "listening", "pause", "release"} \cup Open
Leased == Holding \cup {"yield", "closing"}
Staged(r) ==
  /\ listens[r] => pc[r] \in Open /\ source[r] = "up"
  /\ pc[r] \in Open /\ source[r] = "up" => listens[r]
  /\ route[r] => pc[r] = "serving"
  /\ flows[r] > 0 => route[r]
  /\ lease[r] # "none" => pc[r] \in Leased
  /\ Verified(r) /\ pc[r] \in Holding => record[r] /\ lease[r] # "none"
  /\ Verified(r) /\ pc[r] = "serving" => lease[r] \in {"confirmed", "broken"}
Stage == \A r \in Relays : Staged(r)

\* What the generations of a rule have left behind.
Counted(r) ==
  /\ rule[r].gen <= want[r].gen
  /\ \A g \in Generations : g > want[r].gen => draining[r][g] = 0
  /\ active[r] = draining[r][want[r].gen] + (IF Current(r) THEN flows[r] ELSE 0)
Counts == \A r \in Relays : Counted(r)

-----------------------------------------------------------------------------
(***************************************************************************)
(* Types.                                                                  *)
(***************************************************************************)
Sessions == {"none", "up", "error", "attention", "closed"}
States == {"starting", "established", "stopping", "stopped", "backoff", "attention", "unverified"}
Tasks ==
  /\ rule \in [Relays -> Rules] /\ changed \in [Relays -> BOOLEAN]
  /\ cancel \in [Relays -> BOOLEAN] /\ after \in [Relays -> Outcomes]
Links ==
  /\ source \in [Relays -> Sessions] /\ target \in [Relays -> Sessions]
  /\ listens \in [Relays -> BOOLEAN]
Claims ==
  /\ lease \in [Relays -> {"none", "claimed", "confirmed", "broken"}]
  /\ record \in [Relays -> BOOLEAN] /\ refused \in [Relays -> 0..Attempts]
Bridges ==
  /\ route \in [Relays -> BOOLEAN] /\ flows \in [Relays -> 0..Limit]
  /\ draining \in [Relays -> [Generations -> Nat]] /\ active \in [Relays -> Nat]
Engine == want \in [Relays -> Rules] /\ losses \in 0..MaxLosses
Line == queue \in Seq(Relays \cup Others) /\ held \in [Relays \cup Others -> 0..2]
Shown == pc \in [Relays -> Stages] /\ report \in [Relays -> States]

LEMMA TypeParts ==
  /\ TypeOK <=> Tasks /\ Links /\ Claims /\ Bridges /\ Engine /\ Line /\ Shown
  /\ TypeOK' <=> Tasks' /\ Links' /\ Claims' /\ Bridges' /\ Engine' /\ Line' /\ Shown'
  BY DEF TypeOK, Tasks, Links, Claims, Bridges, Engine, Line, Shown, Sessions, States

\* The parts of the state an action names as unchanged.
LEMMA KeepTypes ==
  ASSUME TypeOK
  PROVE  /\ UNCHANGED task => Tasks'
         /\ UNCHANGED links => Links'
         /\ UNCHANGED owned => Claims'
         /\ UNCHANGED bridge => Bridges'
         /\ UNCHANGED engine => Engine'
         /\ KeepsPermits => Line'
  BY TypeParts DEF task, links, owned, bridge, engine, KeepsPermits, Tasks, Links, Claims, Bridges,
     Engine, Line

LEMMA GoesTypes ==
  ASSUME TypeOK, NEW r \in Relays, NEW stage \in Stages, Goes(r, stage)
  PROVE  pc' \in [Relays -> Stages]
  BY DEF TypeOK, Goes

LEMMA SaysTypes ==
  ASSUME TypeOK, NEW r \in Relays, NEW state \in States, Says(r, state)
  PROVE  report' \in [Relays -> States]
  BY DEF TypeOK, Says, States

LEMMA EndsTypes ==
  ASSUME TypeOK, NEW r \in Relays, NEW outcome \in Outcomes, Ends(r, outcome)
  PROVE  Tasks' /\ Links' /\ Bridges' /\ Engine' /\ Shown'
         /\ lease' \in [Relays -> {"none", "claimed", "confirmed", "broken"}]
         /\ refused' \in [Relays -> 0..Attempts]
<1>1. Tasks' /\ Bridges' /\ Engine'
  BY KeepTypes DEF Ends
<1>2. Shown'
  <2>1. pc' \in [Relays -> Stages]
    BY GoesTypes DEF Ends, Outcome, Stages
  <2>2. report' \in [Relays -> States]
    BY SaysTypes DEF Ends, Outcome, States, TypeOK
  <2> QED
    BY <2>1, <2>2 DEF Shown
<1>3. Links' /\ lease' \in [Relays -> {"none", "claimed", "confirmed", "broken"}]
  BY TypeParts DEF Ends, Drops, Links, Claims, Sessions
<1>4. refused' \in [Relays -> 0..Attempts]
  BY TypeParts, RelayAssumption DEF Ends, Drops, Claims
<1> QED
  BY <1>1, <1>2, <1>3, <1>4

LEMMA BeginTypes ==
  ASSUME TypeOK, NEW r \in Relays, Begin(r)
  PROVE  TypeOK'
<1>1. Links' /\ Claims' /\ Bridges' /\ Engine'
  BY KeepTypes DEF Begin
<1>2. Tasks'
  BY DEF TypeOK, Begin, Tasks
<1>3. queue' \in Seq(Relays \cup Others)
  <2>1. queue \in Seq(Relays \cup Others) /\ r \in Relays \cup Others
    BY DEF TypeOK
  <2>2. Append(queue, r) \in Seq(Relays \cup Others)
    BY <2>1
  <2> QED
    BY <2>1, <2>2 DEF Begin
<1>4. Line'
  BY <1>3, TypeParts DEF Begin, Line
<1>5. pc' \in [Relays -> Stages]
  BY GoesTypes DEF Begin, Stages
<1>6. Shown'
  BY <1>5, TypeParts DEF Begin, Shown, States
<1> QED
  BY <1>1, <1>2, <1>4, <1>6, TypeParts

LEMMA WakeTypes ==
  ASSUME TypeOK, NEW r \in Relays, Wake(r)
  PROVE  TypeOK'
<1>1. pc' \in [Relays -> Stages]
  BY GoesTypes DEF Wake, Stages
<1> QED
  BY <1>1, TypeParts, KeepTypes DEF Wake, Stays, KeepsPermits, Shown

LEMMA GrantTypes ==
  ASSUME TypeOK, Grant
  PROVE  TypeOK'
<1> DEFINE x == Head(queue)
<1>1. queue \in Seq(Relays \cup Others) /\ queue # <<>>
  BY DEF TypeOK, Grant
<1>2. x \in Relays \cup Others /\ Tail(queue) \in Seq(Relays \cup Others)
  BY <1>1
<1>3. Needs(x) \in 0..2
  BY <1>2, RelayAssumption DEF Needs
<1>4. Line'
  BY <1>2, <1>3 DEF TypeOK, Grant, Line
<1>5. Shown'
  BY DEF TypeOK, Grant, Shown, Stages, States
<1> QED
  BY <1>4, <1>5, TypeParts, KeepTypes DEF Grant

LEMMA WithdrawsTypes ==
  ASSUME TypeOK, NEW x, Withdraws(x)
  PROVE  queue' \in Seq(Relays \cup Others)
<1>1. CASE UNCHANGED queue
  BY <1>1 DEF TypeOK
<1>2. CASE \E i \in 1..Len(queue) : queue[i] = x /\ queue' = RemoveAt(queue, i)
  BY <1>2 DEF TypeOK, RemoveAt
<1> QED
  BY <1>1, <1>2 DEF Withdraws

LEMMA DropsTypes ==
  ASSUME TypeOK, NEW r \in Relays, Drops(r)
  PROVE  /\ Links'
         /\ lease' \in [Relays -> {"none", "claimed", "confirmed", "broken"}]
         /\ refused' \in [Relays -> 0..Attempts]
<1>1. Links' /\ lease' \in [Relays -> {"none", "claimed", "confirmed", "broken"}]
  BY TypeParts DEF Drops, Links, Claims, Sessions
<1>2. refused' \in [Relays -> 0..Attempts]
  BY TypeParts, RelayAssumption DEF Drops, Claims
<1> QED
  BY <1>1, <1>2

LEMMA InterruptedTypes ==
  ASSUME TypeOK, NEW r \in Relays, Interrupted(r)
  PROVE  TypeOK'
<1>1. Line'
  BY WithdrawsTypes DEF TypeOK, Interrupted, Line
<1>2. Links' /\ Claims'
  BY DropsTypes, TypeParts DEF Interrupted, Claims
<1>3. pc' \in [Relays -> Stages]
  BY GoesTypes DEF Interrupted, Stages
<1>4. Shown'
  BY <1>3, TypeParts DEF Interrupted, Shown
<1> QED
  BY <1>1, <1>2, <1>4, TypeParts, KeepTypes DEF Interrupted

LEMMA AnswersTypes ==
  ASSUME TypeOK, NEW r \in Relays, Answers(r)
  PROVE  TypeOK'
<1>1. Links'
  BY TypeParts DEF Answers, Links, Sessions
<1>2. Shown'
  BY TypeParts DEF Answers, Shown
<1> QED
  BY <1>1, <1>2, TypeParts, KeepTypes DEF Answers, KeepsPermits

LEMMA JoinedTypes ==
  ASSUME TypeOK, NEW r \in Relays, Joined(r)
  PROVE  TypeOK'
<1>1. Line'
  BY DEF TypeOK, Joined, Line
<1>2. CASE /\ Stays(r) /\ Goes(r, IF Verified(r) THEN "claim" ELSE "listen")
           /\ UNCHANGED <<lease, refused, report>>
  <2>1. pc' \in [Relays -> Stages]
    BY <1>2, GoesTypes DEF Stages
  <2>2. Shown' /\ Claims'
    BY <1>2, <2>1, TypeParts DEF Shown, Joined, Claims
  <2> QED
    BY <1>1, <1>2, <2>2, TypeParts, KeepTypes DEF Stays
<1>3. CASE Ends(r, Verdict(r))
  <2>1. Verdict(r) \in Outcomes
    BY DEF Verdict, Outcomes
  <2> QED
    BY <1>1, <1>3, <2>1, EndsTypes, TypeParts DEF Joined, Claims
<1> QED
  BY <1>2, <1>3 DEF Joined

LEMMA ClaimTypes ==
  ASSUME TypeOK, NEW r \in Relays, Claim(r)
  PROVE  TypeOK'
<1>1. record' \in [Relays -> BOOLEAN]
  BY DEF TypeOK, Claim
<1>2. Line'
  BY KeepTypes DEF Claim
<1>3. CASE /\ Stays(r) /\ Goes(r, "listen") /\ lease' = [lease EXCEPT ![r] = "claimed"]
           /\ UNCHANGED <<refused, report>>
  <2>1. pc' \in [Relays -> Stages]
    BY <1>3, GoesTypes DEF Stages
  <2>2. Shown' /\ Claims'
    BY <1>1, <1>3, <2>1, TypeParts DEF Shown, Claims
  <2> QED
    BY <1>2, <1>3, <2>2, TypeParts, KeepTypes DEF Stays
<1>4. CASE \E outcome \in Outcomes : Ends(r, outcome)
  BY <1>1, <1>2, <1>4, EndsTypes, TypeParts DEF Claims
<1> QED
  BY <1>3, <1>4 DEF Claim, Outcomes

LEMMA ReleasesTypes ==
  ASSUME TypeOK, NEW r \in Relays, NEW outcome \in Outcomes, KeepsPermits,
         Releases(r, outcome), lease[r] # "none" => UNCHANGED refused
  PROVE  TypeOK'
<1>1. Line'
  BY KeepTypes
<1>2. CASE lease[r] = "none" /\ Ends(r, outcome) /\ UNCHANGED record
  BY <1>1, <1>2, EndsTypes, TypeParts DEF Claims
<1>3. CASE /\ lease[r] # "none" /\ Goes(r, "release") /\ after' = [after EXCEPT ![r] = outcome]
           /\ UNCHANGED <<changed, cancel, rule, links, lease, record, bridge, engine, report>>
  <2>1. pc' \in [Relays -> Stages]
    BY <1>3, GoesTypes DEF Stages
  <2>2. Shown' /\ Claims' /\ Tasks'
    BY <1>3, <2>1, TypeParts DEF Shown, Claims, Tasks
  <2> QED
    BY <1>1, <1>3, <2>2, TypeParts, KeepTypes
<1> QED
  BY <1>2, <1>3 DEF Releases

LEMMA ListenTypes ==
  ASSUME TypeOK, NEW r \in Relays, Listen(r)
  PROVE  TypeOK'
<1>1. CASE Releases(r, "changed") /\ (lease[r] # "none" => UNCHANGED refused)
  BY <1>1, ReleasesTypes DEF Listen, Outcomes
<1>2. CASE Ends(r, "retry") /\ UNCHANGED record
  BY <1>2, EndsTypes, KeepTypes, TypeParts DEF Listen, Outcomes, Claims
<1>3. CASE Goes(r, "listening") /\ Stays(r) /\ UNCHANGED <<owned, report>>
  <2>1. pc' \in [Relays -> Stages]
    BY <1>3, GoesTypes DEF Stages
  <2> QED
    BY <1>3, <2>1, TypeParts, KeepTypes DEF Listen, Stays, Shown
<1> QED
  BY <1>1, <1>2, <1>3 DEF Listen

LEMMA InstallsTypes ==
  ASSUME TypeOK, NEW r \in Relays, Installs(r)
  PROVE  Tasks' /\ Bridges' /\ Engine' /\ Shown'
<1>1. pc' \in [Relays -> Stages]
  BY GoesTypes DEF Installs, Stages
<1>2. report' \in [Relays -> States]
  BY SaysTypes DEF Installs, States
<1>3. Bridges'
  BY TypeParts DEF Installs, Bridges
<1> QED
  BY <1>1, <1>2, <1>3, KeepTypes DEF Installs, Shown

\* A task that goes to another stage and leaves everything else, or all but its report, alone.
LEMMA MovesTypes ==
  ASSUME TypeOK, NEW r \in Relays, NEW stage \in Stages, Goes(r, stage) \/ UNCHANGED pc,
         Line', Stays(r), Claims', report' \in [Relays -> States]
  PROVE  TypeOK'
<1>1. pc' \in [Relays -> Stages]
  BY GoesTypes, TypeParts DEF Shown
<1>2. Shown'
  BY <1>1 DEF Shown
<1> QED
  BY <1>2, TypeParts, KeepTypes DEF Stays

LEMMA OpenedTypes ==
  ASSUME TypeOK, NEW r \in Relays, Opened(r)
  PROVE  TypeOK'
<1>1. Links'
  BY TypeParts DEF Opened, Links
<1>2. Claims' /\ Line'
  BY KeepTypes DEF Opened
<1>3. CASE Installs(r)
  BY <1>1, <1>2, <1>3, InstallsTypes, TypeParts
<1>4. CASE Goes(r, "confirm") /\ UNCHANGED <<task, bridge, engine, report>>
  <2>1. pc' \in [Relays -> Stages]
    BY <1>4, GoesTypes DEF Stages
  <2>2. Shown'
    BY <1>4, <2>1, TypeParts DEF Shown
  <2> QED
    BY <1>1, <1>2, <1>4, <2>2, KeepTypes, TypeParts
<1> QED
  BY <1>3, <1>4 DEF Opened

LEMMA RefusedTypes ==
  ASSUME TypeOK, NEW r \in Relays, Refused(r)
  PROVE  TypeOK'
<1>1. CASE Releases(r, "attention") /\ (lease[r] # "none" => UNCHANGED refused)
  BY <1>1, ReleasesTypes DEF Refused, Outcomes
<1>2. CASE /\ ~Verified(r) \/ refused[r] + 1 < Attempts
           /\ refused' = [refused EXCEPT ![r] = IF Verified(r) THEN @ + 1 ELSE @]
           /\ Goes(r, "pause") /\ Says(r, "backoff") /\ Stays(r) /\ UNCHANGED <<lease, record>>
  <2>1. refused \in [Relays -> 0..Attempts]
    BY DEF TypeOK
  <2>2. (IF Verified(r) THEN refused[r] + 1 ELSE refused[r]) \in 0..Attempts
    BY <1>2, <2>1, RelayAssumption
  <2>3. Claims'
    BY <1>2, <2>1, <2>2, TypeParts DEF Claims
  <2>4. report' \in [Relays -> States]
    BY <1>2, SaysTypes DEF States
  <2>5. Line'
    BY KeepTypes DEF Refused
  <2> QED
    BY <1>2, <2>3, <2>4, <2>5, MovesTypes DEF Stages
<1> QED
  BY <1>1, <1>2 DEF Refused

LEMMA PauseTypes ==
  ASSUME TypeOK, NEW r \in Relays, Pause(r)
  PROVE  TypeOK'
<1>1. CASE Releases(r, "changed") /\ (lease[r] # "none" => UNCHANGED refused)
  BY <1>1, ReleasesTypes DEF Pause, Outcomes
<1>2. CASE Ends(r, "retry") /\ UNCHANGED record
  BY <1>2, EndsTypes, KeepTypes, TypeParts DEF Pause, Outcomes, Claims
<1>3. CASE Goes(r, "listen") /\ Stays(r) /\ UNCHANGED <<owned, report>>
  <2>1. Claims' /\ Line' /\ report' \in [Relays -> States]
    BY <1>3, KeepTypes, TypeParts DEF Pause, Shown
  <2> QED
    BY <1>3, <2>1, MovesTypes DEF Stages
<1> QED
  BY <1>1, <1>2, <1>3 DEF Pause

LEMMA ReleaseTypes ==
  ASSUME TypeOK, NEW r \in Relays, Release(r)
  PROVE  TypeOK'
<1>1. record' \in [Relays -> BOOLEAN]
  <2>1. record \in [Relays -> BOOLEAN] /\ record[r] \in BOOLEAN
    BY DEF TypeOK
  <2>2. PICK known \in {record[r], FALSE} : record' = [record EXCEPT ![r] = known]
    BY DEF Release
  <2> QED
    BY <2>1, <2>2
<1>2. Line'
  BY KeepTypes DEF Release
<1>3. after[r] \in Outcomes
  BY DEF TypeOK
<1>4. PICK outcome \in Outcomes : Ends(r, outcome)
  BY <1>3 DEF Release, Outcomes
<1> QED
  BY <1>1, <1>2, <1>4, EndsTypes, TypeParts DEF Claims

LEMMA ConfirmTypes ==
  ASSUME TypeOK, NEW r \in Relays, Confirm(r)
  PROVE  TypeOK'
<1>1. Line'
  BY KeepTypes DEF Confirm
<1>2. CASE \E outcome \in {"changed", "retry"} : Ends(r, outcome) /\ UNCHANGED record
  BY <1>1, <1>2, EndsTypes, TypeParts DEF Outcomes, Claims
<1>3. CASE /\ Installs(r) /\ lease' = [lease EXCEPT ![r] = "confirmed"]
           /\ UNCHANGED <<links, record, refused>>
  <2>1. Claims'
    BY <1>3, TypeParts DEF Claims
  <2> QED
    BY <1>1, <1>3, <2>1, InstallsTypes, KeepTypes, TypeParts
<1>4. CASE /\ Goes(r, "cancelling")
           /\ \E outcome \in {"retry", "attention"} : after' = [after EXCEPT ![r] = outcome]
           /\ UNCHANGED <<changed, cancel, rule, links, owned, bridge, engine, report>>
  <2>1. pc' \in [Relays -> Stages]
    BY <1>4, GoesTypes DEF Stages
  <2>2. Shown' /\ Tasks'
    BY <1>4, <2>1, TypeParts DEF Shown, Tasks, Outcomes
  <2> QED
    BY <1>1, <1>4, <2>2, KeepTypes, TypeParts
<1> QED
  BY <1>2, <1>3, <1>4 DEF Confirm

LEMMA StepDownTypes ==
  ASSUME TypeOK, NEW r \in Relays, StepDown(r)
  PROVE  TypeOK'
<1>1. PICK outcome \in Outcomes : Leaves(r, outcome)
  BY DEF StepDown, Outcomes
<1>2. Links' /\ Claims' /\ Engine' /\ Line'
  BY KeepTypes DEF StepDown
<1>3. changed' \in [Relays -> BOOLEAN]
  BY DEF TypeOK, StepDown
<1>4. Tasks'
  BY <1>1, <1>3, TypeParts DEF Leaves, Tasks
<1>5. Shown'
  <2>1. pc' \in [Relays -> Stages]
    BY <1>1, GoesTypes DEF Leaves, Stages
  <2>2. report' \in [Relays -> States]
    BY <1>1, SaysTypes, TypeParts DEF Leaves, States, Shown
  <2> QED
    BY <2>1, <2>2 DEF Shown
<1>6. Bridges'
  <2>1. /\ rule[r].gen \in Generations /\ flows[r] \in Nat
        /\ draining \in [Relays -> [Generations -> Nat]]
    BY DEF TypeOK, Rules
  <2>2. draining[r][rule[r].gen] + flows[r] \in Nat
    BY <2>1
  <2>3. draining' \in [Relays -> [Generations -> Nat]]
    BY <1>1, <2>1, <2>2 DEF Leaves
  <2>4. flows' \in [Relays -> 0..Limit] /\ route' \in [Relays -> BOOLEAN]
    BY <1>1, RelayAssumption DEF TypeOK, Leaves
  <2> QED
    BY <1>1, <2>3, <2>4, TypeParts DEF Leaves, Bridges
<1> QED
  BY <1>2, <1>4, <1>5, <1>6, TypeParts

LEMMA UnlistenTypes ==
  ASSUME TypeOK, NEW r \in Relays, Unlisten(r)
  PROVE  TypeOK'
<1>1. Links'
  BY TypeParts DEF Unlisten, Links
<1>2. pc' \in [Relays -> Stages]
  BY GoesTypes DEF Unlisten, Stages
<1>3. Shown'
  BY <1>2, TypeParts DEF Unlisten, Shown
<1> QED
  BY <1>1, <1>3, KeepTypes, TypeParts DEF Unlisten

LEMMA YieldTypes ==
  ASSUME TypeOK, NEW r \in Relays, Yield(r)
  PROVE  TypeOK'
<1>1. record' \in [Relays -> BOOLEAN]
  BY DEF TypeOK, Yield
<1>2. Claims' /\ Line' /\ report' \in [Relays -> States]
  BY <1>1, TypeParts, KeepTypes DEF Yield, Claims, Shown
<1> QED
  BY <1>2, MovesTypes DEF Yield, Stages

LEMMA RestTypes ==
  ASSUME TypeOK, NEW r \in Relays, Close(r) \/ Retry(r) \/ Overdue(r) \/ UnlistenFails(r)
  PROVE  TypeOK'
<1>1. Line'
  BY KeepTypes DEF Close, Retry, Overdue, UnlistenFails
<1>2. CASE Close(r)
  <2>1. after[r] \in Outcomes
    BY DEF TypeOK
  <2> QED
    BY <1>1, <1>2, <2>1, EndsTypes, TypeParts DEF Close, Claims
<1>3. CASE Retry(r)
  <2>1. Claims' /\ report' \in [Relays -> States]
    BY <1>3, KeepTypes, TypeParts DEF Retry, Shown
  <2> QED
    BY <1>1, <1>3, <2>1, MovesTypes DEF Retry, Stages
<1>4. CASE Overdue(r) \/ UnlistenFails(r)
  <2>1. Claims' /\ report' \in [Relays -> States]
    BY <1>4, KeepTypes, SaysTypes DEF Overdue, UnlistenFails, States
  <2> QED
    BY <1>1, <1>4, <2>1, MovesTypes DEF Overdue, UnlistenFails, Stages
<1> QED
  BY <1>2, <1>3, <1>4

\* The stages a connection, the engine and the network leave alone.
LEMMA EndedTypes ==
  ASSUME TypeOK, NEW r \in Relays, NEW g, Ended(r, g)
  PROVE  active' \in [Relays -> Nat]
<1>1. active \in [Relays -> Nat]
  BY DEF TypeOK
<1>2. (IF g = want[r].gen /\ active[r] > 0 THEN active[r] - 1 ELSE active[r]) \in Nat
  BY <1>1
<1> QED
  BY <1>1, <1>2 DEF Ended

LEMMA ConnectionTypes ==
  ASSUME TypeOK, NEW r \in Relays, Callback(r) \/ FlowEnds(r) \/ Cuts(r)
  PROVE  TypeOK'
<1>1. Shown' /\ Line'
  BY TypeParts DEF Callback, FlowEnds, Cuts, Drains, Shown, Line
<1>2. Bridges'
  <2>1. /\ flows \in [Relays -> 0..Limit] /\ active \in [Relays -> Nat] /\ Limit \in Nat
        /\ draining \in [Relays -> [Generations -> Nat]] /\ route \in [Relays -> BOOLEAN]
    BY RelayAssumption DEF TypeOK
  <2>2. CASE Callback(r)
    <3>1. flows[r] + 1 \in 0..Limit /\ (IF Current(r) THEN active[r] + 1 ELSE active[r]) \in Nat
      BY <2>1, <2>2 DEF Callback
    <3> QED
      BY <2>1, <2>2, <3>1 DEF Callback, Bridges
  <2>3. CASE FlowEnds(r)
    <3>1. flows[r] - 1 \in 0..Limit
      BY <2>1, <2>3 DEF FlowEnds
    <3>2. active' \in [Relays -> Nat]
      BY <2>3, EndedTypes DEF FlowEnds
    <3> QED
      BY <2>1, <2>3, <3>1, <3>2 DEF FlowEnds, Bridges
  <2>4. CASE Cuts(r)
    <3>1. PICK g \in Generations : Drains(r, g)
      BY <2>4 DEF Cuts
    <3>2. draining[r][g] - 1 \in Nat
      BY <2>1, <3>1 DEF Drains
    <3>3. active' \in [Relays -> Nat]
      BY <3>1, EndedTypes DEF Drains
    <3> QED
      BY <2>1, <3>1, <3>2, <3>3 DEF Drains, Bridges
  <2> QED
    BY <2>2, <2>3, <2>4
<1> QED
  BY <1>1, <1>2, TypeParts, KeepTypes DEF Callback, FlowEnds, Cuts, Drains

LEMMA EngineTypes ==
  ASSUME TypeOK, NEW r \in Relays, Start(r) \/ Stop(r) \/ Restart(r) \/ Rename(r)
  PROVE  TypeOK'
<1> DEFINE w == want[r]
<1>1. /\ want \in [Relays -> Rules] /\ w \in Rules
      /\ active \in [Relays -> Nat] /\ report \in [Relays -> States]
  BY DEF TypeOK, States
<1>2. PICK new : /\ Sent(r, new)
                 /\ \/ \E run \in BOOLEAN : new = [w EXCEPT !.gen = @ + 1, !.run = run]
                    \/ new = [w EXCEPT !.name = @ + 1]
  BY DEF Start, Stop, Restart, Rename, Supersede
<1>3. new \in Rules
  <2> DEFINE gen == w.gen
             name == w.name
  <2>1. /\ gen \in 1..(MaxEdits + 1) /\ name \in 0..MaxEdits /\ w.run \in BOOLEAN
        /\ w.verified \in BOOLEAN /\ gen + name - 1 < MaxEdits /\ MaxEdits \in Nat
    BY <1>1, <1>2, RelayAssumption DEF Rules, Generations, Sent, Edits
  <2> HIDE DEF gen, name
  <2>2. gen + 1 \in 1..(MaxEdits + 1) /\ name + 1 \in 0..MaxEdits
    BY <2>1
  <2>3. w.gen + 1 \in Generations /\ w.name + 1 \in 0..MaxEdits
    BY <2>2 DEF gen, name, Generations
  <2> QED
    BY <1>1, <1>2, <2>3 DEF Rules
<1>4. Engine'
  BY <1>1, <1>2, <1>3, TypeParts DEF Sent, Engine
<1>5. active' \in [Relays -> Nat] /\ report' \in [Relays -> States]
  BY <1>1 DEF Start, Stop, Restart, Rename, Supersede, States
<1>6. Bridges' /\ Shown'
  BY <1>2, <1>5, TypeParts DEF Sent, Bridges, Shown
<1>7. Tasks'
  BY <1>2, TypeParts DEF Sent, Tasks
<1>8. Line'
  BY <1>2, TypeParts DEF Sent, Line
<1> QED
  BY <1>2, <1>4, <1>6, <1>7, <1>8, TypeParts, KeepTypes DEF Sent

LEMMA OtherTypes ==
  ASSUME TypeOK, NEW x \in Others, Asks(x) \/ Finishes(x)
  PROVE  TypeOK'
<1>1. queue \in Seq(Relays \cup Others) /\ Append(queue, x) \in Seq(Relays \cup Others)
  BY DEF TypeOK
<1>2. Line'
  <2>1. held \in [Relays \cup Others -> 0..2]
    BY DEF TypeOK
  <2>2. held' \in [Relays \cup Others -> 0..2]
    BY <2>1 DEF Asks, Finishes
  <2> QED
    BY <1>1, <2>2 DEF Line, Asks, Finishes
<1>3. Shown'
  BY TypeParts DEF Asks, Finishes, Shown
<1> QED
  BY <1>2, <1>3, TypeParts, KeepTypes DEF Asks, Finishes

LEMMA NetworkTypes ==
  ASSUME TypeOK, NEW r \in Relays, Retire(r) \/ LoseSource(r) \/ LoseTarget(r) \/ LoseHelper(r)
  PROVE  TypeOK'
<1>1. CASE Retire(r)
  <2>1. Tasks' /\ Line' /\ Shown'
    BY <1>1, TypeParts DEF Retire, Tasks, Line, Shown
  <2> QED
    BY <1>1, <2>1, TypeParts, KeepTypes DEF Retire
<1>2. CASE LoseSource(r) \/ LoseTarget(r) \/ LoseHelper(r)
  <2>1. Engine' /\ Lost
    BY <1>2, RelayAssumption DEF TypeOK, Engine, Lost, LoseSource, LoseTarget, LoseHelper
  <2>2. Links'
    BY <1>2, TypeParts DEF Links, Sessions, LoseSource, LoseTarget, LoseHelper, links
  <2>3. lease' \in [Relays -> {"none", "claimed", "confirmed", "broken"}]
    BY <1>2, TypeParts DEF Claims, LoseSource, LoseTarget, LoseHelper
  <2>4. Claims' /\ Line' /\ Shown'
    BY <2>1, <2>3, TypeParts DEF Lost, Claims, Line, Shown
  <2> QED
    BY <2>1, <2>2, <2>4, TypeParts, KeepTypes DEF Lost
<1> QED
  BY <1>1, <1>2

LEMMA InitTypes == Init => TypeOK
<1> SUFFICES ASSUME Init
             PROVE  TypeOK
  OBVIOUS
<1>1. /\ 1 \in Generations /\ 0 \in 0..MaxEdits /\ 0 \in 0..Limit /\ 0 \in 0..Attempts
      /\ 0 \in 0..MaxLosses
  BY RelayAssumption DEF Generations
<1>2. want \in [Relays -> Rules]
  BY DEF Init
<1>3. Engine /\ Tasks
  BY <1>1, <1>2 DEF Init, Engine, Tasks, Outcomes
<1>4. Links /\ Claims
  BY <1>1 DEF Init, Links, Claims, Sessions
<1>5. Bridges
  BY <1>1 DEF Init, Bridges
<1>6. Line
  BY DEF Init, Line
<1>7. Shown
  BY DEF Init, Shown, Stages, States
<1> QED
  BY <1>3, <1>4, <1>5, <1>6, <1>7, TypeParts

LEMMA NextTypes == TypeOK /\ [Next]_vars => TypeOK'
<1> SUFFICES ASSUME TypeOK, [Next]_vars
             PROVE  TypeOK'
  OBVIOUS
<1>1. CASE Next
  <2>1. ASSUME NEW r \in Relays, Steps(r)
        PROVE  TypeOK'
    BY <2>1, BeginTypes, WakeTypes, InterruptedTypes, AnswersTypes, JoinedTypes, ClaimTypes,
       ListenTypes, OpenedTypes, RefusedTypes, PauseTypes, ReleaseTypes, ConfirmTypes,
       StepDownTypes, UnlistenTypes, YieldTypes, RestTypes DEF Steps
  <2>2. ASSUME NEW r \in Relays, Cuts(r) \/ Happens(r)
        PROVE  TypeOK'
    BY <2>2, RestTypes, ConnectionTypes, EngineTypes, NetworkTypes DEF Happens
  <2> QED
    BY <1>1, <2>1, <2>2, GrantTypes, OtherTypes DEF Next
<1>2. CASE UNCHANGED vars
  BY <1>2, KeepTypes, TypeParts DEF vars, KeepsPermits, Shown
<1> QED
  BY <1>1, <1>2
-----------------------------------------------------------------------------
(***************************************************************************)
(* A relay's steps leave the other relays alone.                           *)
(***************************************************************************)
SameTask(q) ==
  /\ pc'[q] = pc[q] /\ listens'[q] = listens[q] /\ source'[q] = source[q] /\ route'[q] = route[q]
  /\ lease'[q] = lease[q] /\ record'[q] = record[q]
SameCounts(q) ==
  /\ rule'[q] = rule[q] /\ want'[q] = want[q] /\ flows'[q] = flows[q]
  /\ draining'[q] = draining[q] /\ active'[q] = active[q]
Same(q) == SameTask(q) /\ SameCounts(q)

LEMMA OthersStay ==
  ASSUME TypeOK, NEW r \in Relays, Steps(r) \/ Cuts(r) \/ Happens(r), NEW q \in Relays, q # r
  PROVE  Same(q)
<1> USE DEF Same, SameTask, SameCounts, Goes, Stays
<1>1. CASE Begin(r)
  BY <1>1, TypeOK DEF TypeOK, Begin, links, owned, bridge, engine
<1>2. CASE Wake(r)
  BY <1>2, TypeOK DEF TypeOK, Wake, task, links, owned, bridge, engine
<1>3. CASE Interrupted(r)
  BY <1>3, TypeOK DEF TypeOK, Interrupted, Drops, task, bridge, engine
<1>4. CASE Answers(r)
  BY <1>4, TypeOK DEF TypeOK, Answers, task, owned, bridge, engine
<1>5. CASE Joined(r)
  BY <1>5, TypeOK DEF TypeOK, Joined, Ends, Outcome, Drops, task, bridge, engine, links
<1>6. CASE Claim(r)
  BY <1>6, TypeOK DEF TypeOK, Claim, Ends, Outcome, Drops, task, bridge, engine, links
<1>7. CASE Listen(r)
  BY <1>7, TypeOK
  DEF TypeOK, Listen, Releases, Ends, Outcome, Drops, task, links, owned, bridge, engine
<1>8. CASE Opened(r)
  BY <1>8, TypeOK DEF TypeOK, Opened, Installs, task, bridge, engine, owned
<1>9. CASE Refused(r)
  BY <1>9, TypeOK DEF TypeOK, Refused, Releases, Ends, Outcome, Drops, task, links, bridge, engine
<1>10. CASE Pause(r)
  BY <1>10, TypeOK
  DEF TypeOK, Pause, Releases, Ends, Outcome, Drops, task, links, owned, bridge, engine
<1>11. CASE Release(r)
  <2>1. PICK outcome, known :
          Ends(r, outcome) /\ record' = [record EXCEPT ![r] = known]
    BY <1>11 DEF Release
  <2> QED
    BY <2>1 DEF TypeOK, Ends, Outcome, Drops, task, bridge, engine
<1>12. CASE Confirm(r)
  BY <1>12, TypeOK
  DEF TypeOK, Confirm, Installs, Ends, Outcome, Drops, task, links, owned, bridge, engine
<1>13. CASE StepDown(r)
  BY <1>13, TypeOK DEF TypeOK, StepDown, Leaves, links, owned, engine
<1>14. CASE Unlisten(r)
  BY <1>14, TypeOK DEF TypeOK, Unlisten, task, owned, bridge, engine
<1>15. CASE Yield(r)
  BY <1>15, TypeOK DEF TypeOK, Yield, task, links, bridge, engine
<1>16. CASE Close(r)
  BY <1>16, TypeOK DEF TypeOK, Close, Ends, Outcome, Drops, task, bridge, engine
<1>17. CASE Retry(r)
  BY <1>17, TypeOK DEF TypeOK, Retry, owned, task, links, bridge, engine
<1>18. CASE UnlistenFails(r)
  BY <1>18, TypeOK DEF TypeOK, UnlistenFails, owned, task, links, bridge, engine
<1>19. CASE Overdue(r)
  BY <1>19, TypeOK DEF TypeOK, Overdue, owned, task, links, bridge, engine
<1>20. CASE Callback(r)
  BY <1>20, TypeOK DEF TypeOK, Callback, task, links, owned, engine
<1>21. CASE FlowEnds(r)
  BY <1>21, TypeOK DEF TypeOK, FlowEnds, Ended, task, links, owned, engine
<1>22. CASE Cuts(r)
  BY <1>22, TypeOK DEF TypeOK, Cuts, Drains, Ended, task, links, owned, engine
<1>23. CASE Start(r)
  BY <1>23, TypeOK DEF TypeOK, Start, Supersede, Sent, links, owned
<1>24. CASE Stop(r)
  BY <1>24, TypeOK DEF TypeOK, Stop, Supersede, Sent, links, owned
<1>25. CASE Restart(r)
  BY <1>25, TypeOK DEF TypeOK, Restart, Supersede, Sent, links, owned
<1>26. CASE Rename(r)
  BY <1>26, TypeOK DEF TypeOK, Rename, Sent, links, owned
<1>27. CASE Retire(r)
  BY <1>27, TypeOK DEF TypeOK, Retire, links, owned, bridge, engine
<1>28. CASE LoseSource(r)
  BY <1>28, TypeOK DEF TypeOK, LoseSource, Lost, task, bridge
<1>29. CASE LoseTarget(r)
  BY <1>29, TypeOK DEF TypeOK, LoseTarget, Lost, task, bridge
<1>30. CASE LoseHelper(r)
  BY <1>30, TypeOK DEF TypeOK, LoseHelper, Lost, task, bridge, links
<1> QED
  BY <1>1, <1>2, <1>3, <1>4, <1>5, <1>6, <1>7, <1>8, <1>9, <1>10, <1>11, <1>12, <1>13, <1>14, <1>15, <1>16,
     <1>17, <1>18, <1>19, <1>20, <1>21, <1>22, <1>23, <1>24, <1>25, <1>26, <1>27, <1>28, <1>29, <1>30
  DEF Steps, Happens
-----------------------------------------------------------------------------
(***************************************************************************)
(* The waiting line: a relay that is in it stands at "permits", once.      *)
(***************************************************************************)
Distinct(s) == \A i, j \in 1..Len(s) : s[i] = s[j] => i = j
Waiting ==
  /\ Distinct(queue)
  /\ \A i \in 1..Len(queue) : queue[i] \in Relays => pc[queue[i]] = "permits"

LEMMA AppendDistinct ==
  ASSUME NEW S, NEW s \in Seq(S), NEW x \in S, ~Contains(s, x), Distinct(s)
  PROVE  /\ Distinct(Append(s, x))
         /\ \A i \in 1..Len(Append(s, x)) : Append(s, x)[i] = x \/ Contains(s, Append(s, x)[i])
<1>1. /\ Len(Append(s, x)) = Len(s) + 1 /\ Len(s) \in Nat /\ Append(s, x)[Len(s) + 1] = x
      /\ \A i \in 1..Len(s) : Append(s, x)[i] = s[i]
  OBVIOUS
<1>2. \A i \in 1..(Len(s) + 1) : i \in 1..Len(s) \/ i = Len(s) + 1
  BY <1>1
<1> QED
  BY <1>1, <1>2 DEF Distinct, Contains

LEMMA TailDistinct ==
  ASSUME NEW S, NEW s \in Seq(S), s # <<>>, Distinct(s)
  PROVE  /\ Distinct(Tail(s))
         /\ \A i \in 1..Len(Tail(s)) : Tail(s)[i] # Head(s) /\ Contains(s, Tail(s)[i])
<1>1. /\ Len(Tail(s)) = Len(s) - 1 /\ Len(s) \in Nat \ {0} /\ Head(s) = s[1]
      /\ \A i \in 1..Len(Tail(s)) : Tail(s)[i] = s[i + 1]
  OBVIOUS
<1>2. \A i \in 1..(Len(s) - 1) : i + 1 \in 1..Len(s) /\ i + 1 # 1
  BY <1>1
<1>3. \A i, j \in 1..(Len(s) - 1) : i + 1 = j + 1 => i = j
  BY <1>1
<1>4. 1 \in 1..Len(s)
  BY <1>1
<1> QED
  BY <1>1, <1>2, <1>3, <1>4 DEF Distinct, Contains

LEMMA RemoveDistinct ==
  ASSUME NEW S, NEW s \in Seq(S), NEW k \in 1..Len(s), Distinct(s)
  PROVE  /\ Distinct(RemoveAt(s, k))
         /\ \A i \in 1..Len(RemoveAt(s, k)) :
              RemoveAt(s, k)[i] # s[k] /\ Contains(s, RemoveAt(s, k)[i])
<1> DEFINE t == RemoveAt(s, k)
           from(i) == IF i < k THEN i ELSE i + 1
<1>1. Len(s) \in Nat /\ k \in Nat
  OBVIOUS
<1> DEFINE front == SubSeq(s, 1, k - 1)
           back == SubSeq(s, k + 1, Len(s))
<1>2. /\ front \in Seq(S) /\ Len(front) = k - 1
      /\ \A i \in 1..(k - 1) : front[i] = s[i]
  BY <1>1
<1>3. /\ back \in Seq(S) /\ Len(back) = Len(s) - k
      /\ \A i \in 1..(Len(s) - k) : back[i] = s[k + i]
  BY <1>1
<1>4. t = front \o back
  BY DEF RemoveAt
<1> HIDE DEF front, back, t
<1>5. Len(t) = Len(s) - 1
  BY <1>1, <1>2, <1>3, <1>4
<1>6. \A i \in 1..Len(t) : t[i] = s[from(i)]
  <2> SUFFICES ASSUME NEW i \in 1..Len(t)
               PROVE  t[i] = s[from(i)]
    OBVIOUS
  <2>1. CASE i < k
    BY <1>1, <1>5, <1>2, <1>3, <1>4, <2>1
  <2>2. CASE ~(i < k)
    <3>1. t[i] = back[i - (k - 1)]
      BY <1>1, <1>5, <1>2, <1>3, <1>4, <2>2
    <3>2. i - (k - 1) \in 1..(Len(s) - k) /\ k + (i - (k - 1)) = i + 1
      BY <1>1, <1>5, <2>2
    <3> QED
      BY <1>3, <2>2, <3>1, <3>2
  <2> QED
    BY <2>1, <2>2
<1>7. \A i \in 1..Len(t) : from(i) \in 1..Len(s) /\ from(i) # k
  BY <1>1, <1>5
<1>8. \A i, j \in 1..Len(t) : from(i) = from(j) => i = j
  BY <1>1, <1>5
<1> HIDE DEF from
<1>9. Distinct(t) /\ \A i \in 1..Len(t) : t[i] # s[k] /\ Contains(s, t[i])
  BY <1>6, <1>7, <1>8 DEF Distinct, Contains
<1> QED
  BY <1>9 DEF t

LEMMA LineMoves ==
  ASSUME TypeOK, Waiting, NEW r \in Relays, Steps(r), ~Begin(r), ~Interrupted(r)
  PROVE  UNCHANGED queue /\ pc[r] # "permits"
<1>1. pc[r] # "permits"
  BY DEF Steps, At, Wake, Answers, Joined, Claim, Listen, Opened, Refused, Pause, Release, Confirm,
         StepDown, Unlisten, Yield, Close, Retry
<1>2. UNCHANGED queue
  BY DEF Steps, KeepsPermits, Wake, Answers, Joined, Claim, Listen, Opened, Refused, Pause,
         Release, Confirm, StepDown, Unlisten, Yield, Close, Retry
<1> QED
  BY <1>1, <1>2

LEMMA LineRests ==
  ASSUME NEW r \in Relays, Cuts(r) \/ Happens(r)
  PROVE  UNCHANGED <<queue, pc>>
  BY DEF Cuts, Drains, Happens, KeepsPermits, UnlistenFails, Overdue, Callback, FlowEnds, Start,
         Stop, Restart, Rename, Supersede, Sent, Retire, LoseSource, LoseTarget, LoseHelper, Lost

LEMMA InitWaiting == Init => Waiting
  BY DEF Init, Waiting, Distinct

LEMMA NextWaiting == TypeOK /\ Waiting /\ [Next]_vars => Waiting'
<1> SUFFICES ASSUME TypeOK, Waiting, [Next]_vars
             PROVE  Waiting'
  OBVIOUS
<1>1. queue \in Seq(Relays \cup Others) /\ Len(queue) \in Nat /\ pc \in [Relays -> Stages]
  BY DEF TypeOK
<1>2. CASE UNCHANGED <<queue, pc>>
  BY <1>2 DEF Waiting
<1>3. ASSUME NEW r \in Relays, Begin(r)
      PROVE  Waiting'
  <2>1. pc[r] = "top" /\ ~Contains(queue, r)
    BY <1>3 DEF Begin, At, Waiting, Contains
  <2>2. CASE (Goes(r, "gone") \/ Goes(r, "idle")) /\ UNCHANGED queue
    BY <1>1, <2>1, <2>2 DEF Waiting, Goes
  <2>3. CASE Goes(r, "permits") /\ queue' = Append(queue, r)
    <3>1. /\ Distinct(queue')
          /\ \A i \in 1..Len(queue') : queue'[i] = r \/ Contains(queue, queue'[i])
      BY <1>1, <2>1, <2>3, AppendDistinct DEF Waiting
    <3>2. \A x \in Relays : Contains(queue, x) \/ x = r => pc'[x] = "permits"
      BY <1>1, <2>3 DEF Waiting, Contains, Goes
    <3> QED
      BY <3>1, <3>2 DEF Waiting, Distinct
  <2> QED
    BY <1>3, <2>2, <2>3 DEF Begin
<1>4. ASSUME NEW r \in Relays, Interrupted(r)
      PROVE  Waiting'
  <2>1. pc' \in [Relays -> Stages] /\ \A q \in Relays : q # r => pc'[q] = pc[q]
    BY <1>1, <1>4 DEF Interrupted, Goes, Stages
  <2>2. CASE ~Contains(queue, r) /\ UNCHANGED queue
    BY <2>1, <2>2 DEF Waiting, Contains, Distinct
  <2>3. CASE \E k \in 1..Len(queue) : queue[k] = r /\ queue' = RemoveAt(queue, k)
    <3>1. PICK k \in 1..Len(queue) : queue[k] = r /\ queue' = RemoveAt(queue, k)
      BY <2>3
    <3>2. /\ Distinct(queue')
          /\ \A i \in 1..Len(queue') : queue'[i] # r /\ Contains(queue, queue'[i])
      BY <1>1, <3>1, RemoveDistinct DEF Waiting
    <3>3. \A x \in Relays : Contains(queue, x) => pc[x] = "permits"
      BY DEF Waiting, Contains
    <3> QED
      BY <2>1, <3>2, <3>3 DEF Waiting, Distinct
  <2> QED
    BY <1>4, <2>2, <2>3 DEF Interrupted, Withdraws
<1>5. CASE Grant
  <2>1. queue # <<>> /\ queue' = Tail(queue)
    BY <1>5 DEF Grant
  <2>2. /\ Distinct(queue')
        /\ \A i \in 1..Len(queue') : queue'[i] # Head(queue) /\ Contains(queue, queue'[i])
    BY <1>1, <2>1, TailDistinct DEF Waiting
  <2>3. \A x \in Relays : Contains(queue, x) => pc[x] = "permits"
    BY DEF Waiting, Contains
  <2>4. \A x \in Relays : x # Head(queue) => pc'[x] = pc[x]
    BY <1>1, <1>5 DEF Grant
  <2> QED
    BY <2>2, <2>3, <2>4 DEF Waiting, Distinct
<1>6. ASSUME NEW x \in Others, Asks(x)
      PROVE  Waiting'
  <2>1. queue' = Append(queue, x) /\ ~Contains(queue, x) /\ pc' = pc /\ x \notin Relays
    BY <1>6, RelayAssumption DEF Asks
  <2>2. /\ Distinct(queue')
        /\ \A i \in 1..Len(queue') : queue'[i] = x \/ Contains(queue, queue'[i])
    BY <1>1, <1>6, <2>1, AppendDistinct DEF Waiting
  <2>3. \A q \in Relays : Contains(queue, q) => pc[q] = "permits"
    BY DEF Waiting, Contains
  <2> QED
    BY <2>1, <2>2, <2>3 DEF Waiting, Distinct
<1>7. ASSUME NEW r \in Relays, Steps(r), ~Begin(r), ~Interrupted(r)
      PROVE  Waiting'
  <2>1. UNCHANGED queue /\ pc[r] # "permits"
    BY <1>7, LineMoves
  <2>2. \A q \in Relays : q # r => pc'[q] = pc[q]
    BY <1>7, OthersStay DEF Same, SameTask
  <2> QED
    BY <2>1, <2>2 DEF Waiting, Distinct
<1>8. ASSUME NEW r \in Relays, Cuts(r) \/ Happens(r)
      PROVE  Waiting'
  BY <1>2, <1>8, LineRests
<1>9. CASE \E x \in Others : Finishes(x)
  BY <1>2, <1>9 DEF Finishes
<1> QED
  BY <1>2, <1>3, <1>4, <1>5, <1>6, <1>7, <1>8, <1>9 DEF Next, vars
-----------------------------------------------------------------------------
(***************************************************************************)
(* The stages of a task.                                                   *)
(***************************************************************************)
LEMMA SameStaged ==
  ASSUME NEW q \in Relays, Staged(q), Same(q)
  PROVE  Staged(q)'
  BY DEF Same, SameTask, SameCounts, Staged, Verified

\* A task without a listener and a lease, that is where it needs neither.
LEMMA BareStaged ==
  ASSUME NEW r \in Relays, ~listens'[r], ~route'[r], ~(flows'[r] > 0), lease'[r] = "none",
         pc'[r] \notin Holding
  PROVE  Staged(r)'
  BY DEF Staged, Holding, Open

LEMMA EndsStaged ==
  ASSUME TypeOK, NEW r \in Relays, NEW outcome, Ends(r, outcome), Staged(r), pc[r] # "serving"
  PROVE  Staged(r)'
<1>1. ~listens'[r] /\ lease'[r] = "none"
  BY DEF TypeOK, Ends, Drops
<1>2. ~route'[r] /\ ~(flows'[r] > 0)
  BY DEF TypeOK, Ends, bridge, Staged
<1>3. pc'[r] \notin Holding
  BY DEF TypeOK, Ends, Outcome, Goes, Holding, Open
<1> QED
  BY <1>1, <1>2, <1>3, BareStaged

LEMMA ReleasesStaged ==
  ASSUME TypeOK, NEW r \in Relays, NEW outcome, Releases(r, outcome), Staged(r),
         pc[r] \in {"listen", "listening", "pause"}
  PROVE  Staged(r)'
<1>1. CASE Ends(r, outcome)
  BY <1>1, EndsStaged
<1>2. CASE /\ lease[r] # "none" /\ Goes(r, "release")
           /\ UNCHANGED <<rule, links, lease, record, bridge>>
  BY <1>2 DEF TypeOK, Staged, Goes, links, bridge, Verified, Leased, Holding, Open
<1> QED
  BY <1>1, <1>2 DEF Releases

LEMMA StepStaged ==
  ASSUME TypeOK, NEW r \in Relays, Steps(r) \/ Cuts(r) \/ Happens(r), Staged(r)
  PROVE  Staged(r)'
<1> USE DEF Verified, Leased, Holding, Open
<1>1. CASE Begin(r)
  BY <1>1 DEF TypeOK, Staged, Goes, Begin, links, owned, bridge, At
<1>2. CASE Wake(r)
  BY <1>2 DEF TypeOK, Staged, Goes, Wake, At, Stays, task, links, owned, bridge
<1>3. CASE Answers(r)
  BY <1>3 DEF TypeOK, Staged, Goes, Answers, At, task, owned, bridge
<1>4. CASE Joined(r)
  <2>1. CASE Ends(r, Verdict(r))
    BY <1>4, <2>1, EndsStaged DEF Joined, At
  <2>2. CASE /\ Goes(r, IF Verified(r) THEN "claim" ELSE "listen") /\ Stays(r)
             /\ UNCHANGED <<lease, record>>
    BY <1>4, <2>2 DEF TypeOK, Joined, At, Staged, Goes, Stays, task, links, bridge
  <2> QED
    BY <1>4, <2>1, <2>2 DEF Joined
<1>5. CASE Interrupted(r)
  <2>1. ~listens'[r] /\ lease'[r] = "none"
    BY <1>5 DEF TypeOK, Interrupted, Drops
  <2>2. ~route'[r] /\ ~(flows'[r] > 0)
    BY <1>5 DEF TypeOK, Interrupted, bridge, Staged
  <2>3. pc'[r] \notin Holding
    BY <1>5 DEF TypeOK, Interrupted, Goes, Holding, Open
  <2> QED
    BY <2>1, <2>2, <2>3, BareStaged
<1>6. CASE Claim(r)
  <2>1. CASE \E outcome \in Outcomes : Ends(r, outcome)
    BY <1>6, <2>1, EndsStaged DEF Claim, At
  <2>2. CASE /\ Goes(r, "listen") /\ Stays(r) /\ lease' = [lease EXCEPT ![r] = "claimed"]
             /\ record' = [record EXCEPT ![r] = TRUE]
    BY <1>6, <2>2 DEF TypeOK, Claim, At, Staged, Goes, Stays, task, links, bridge
  <2> QED
    BY <1>6, <2>1, <2>2 DEF Claim, Outcomes
<1>7. CASE Listen(r)
  <2>1. CASE Releases(r, "changed")
    BY <1>7, <2>1, ReleasesStaged DEF Listen, At
  <2>2. CASE Ends(r, "retry")
    BY <1>7, <2>2, EndsStaged DEF Listen, At
  <2>3. CASE Goes(r, "listening") /\ Stays(r) /\ UNCHANGED owned
    BY <1>7, <2>3 DEF TypeOK, Listen, At, Staged, Goes, Stays, task, links, bridge, owned
  <2> QED
    BY <1>7, <2>1, <2>2, <2>3 DEF Listen
<1>8. CASE Opened(r)
  BY <1>8 DEF TypeOK, Staged, Goes, Opened, At, Installs, task, bridge, owned
<1>9. CASE Refused(r)
  <2>1. CASE Releases(r, "attention")
    BY <1>9, <2>1, ReleasesStaged DEF Refused, At
  <2>2. CASE Goes(r, "pause") /\ Stays(r) /\ UNCHANGED <<lease, record>>
    BY <1>9, <2>2 DEF TypeOK, Refused, At, Staged, Goes, Stays, task, links, bridge
  <2> QED
    BY <1>9, <2>1, <2>2 DEF Refused
<1>10. CASE Pause(r)
  <2>1. CASE Releases(r, "changed")
    BY <1>10, <2>1, ReleasesStaged DEF Pause, At
  <2>2. CASE Ends(r, "retry")
    BY <1>10, <2>2, EndsStaged DEF Pause, At
  <2>3. CASE Goes(r, "listen") /\ Stays(r) /\ UNCHANGED owned
    BY <1>10, <2>3 DEF TypeOK, Pause, At, Staged, Goes, Stays, task, links, bridge, owned
  <2> QED
    BY <1>10, <2>1, <2>2, <2>3 DEF Pause
<1>11. CASE Release(r)
  <2>1. \E outcome : Ends(r, outcome)
    BY <1>11 DEF Release
  <2> QED
    BY <1>11, <2>1, EndsStaged DEF Release, At
<1>12. CASE Confirm(r)
  <2>1. CASE \E outcome : Ends(r, outcome)
    BY <1>12, <2>1, EndsStaged DEF Confirm, At
  <2>2. CASE /\ Installs(r) /\ lease' = [lease EXCEPT ![r] = "confirmed"]
             /\ UNCHANGED <<links, record, refused>>
    BY <1>12, <2>2 DEF TypeOK, Confirm, At, Staged, Goes, Installs, task, links
  <2>3. CASE Goes(r, "cancelling") /\ UNCHANGED <<rule, links, owned, bridge>>
    BY <1>12, <2>3 DEF TypeOK, Confirm, At, Staged, Goes, links, owned, bridge
  <2> QED
    BY <1>12, <2>1, <2>2, <2>3 DEF Confirm
<1>13. CASE StepDown(r)
  BY <1>13 DEF TypeOK, Staged, Goes, StepDown, At, Leaves, links, owned
<1>14. CASE Unlisten(r)
  BY <1>14 DEF TypeOK, Staged, Goes, Unlisten, At, task, owned, bridge
<1>15. CASE Yield(r)
  BY <1>15 DEF TypeOK, Staged, Goes, Yield, At, Stays, task, links, bridge
<1>16. CASE Close(r)
  BY <1>16, EndsStaged DEF Close, At
<1>17. CASE Retry(r)
  BY <1>17 DEF TypeOK, Staged, Goes, Retry, At, Stays, task, links, owned, bridge
<1>18. CASE UnlistenFails(r)
  BY <1>18 DEF TypeOK, Staged, Goes, UnlistenFails, Stays, task, links, owned, bridge
<1>19. CASE Overdue(r)
  BY <1>19 DEF TypeOK, Staged, Goes, Overdue, Stays, task, links, owned, bridge
<1>20. CASE Callback(r)
  BY <1>20 DEF TypeOK, Staged, Goes, Callback, task, links, owned
<1>21. CASE FlowEnds(r)
  BY <1>21 DEF TypeOK, Staged, Goes, FlowEnds, task, links, owned
<1>22. CASE Cuts(r)
  BY <1>22 DEF TypeOK, Staged, Goes, Cuts, Drains, task, links, owned
<1>23. CASE Start(r)
  BY <1>23 DEF TypeOK, Staged, Goes, Start, Supersede, Sent, links, owned
<1>24. CASE Stop(r)
  BY <1>24 DEF TypeOK, Staged, Goes, Stop, Supersede, Sent, links, owned
<1>25. CASE Restart(r)
  BY <1>25 DEF TypeOK, Staged, Goes, Restart, Supersede, Sent, links, owned
<1>26. CASE Rename(r)
  BY <1>26 DEF TypeOK, Staged, Goes, Rename, Sent, links, owned
<1>27. CASE Retire(r)
  BY <1>27 DEF TypeOK, Staged, Goes, Retire, links, owned, bridge
<1>28. CASE LoseSource(r)
  BY <1>28 DEF TypeOK, Staged, Goes, LoseSource, Lost, task, bridge
<1>29. CASE LoseTarget(r)
  BY <1>29 DEF TypeOK, Staged, Goes, LoseTarget, Lost, task, bridge
<1>30. CASE LoseHelper(r)
  BY <1>30 DEF TypeOK, Staged, Goes, LoseHelper, Lost, task, bridge, links
<1> QED
  BY <1>1, <1>2, <1>3, <1>4, <1>5, <1>6, <1>7, <1>8, <1>9, <1>10, <1>11, <1>12, <1>13, <1>14, <1>15, <1>16,
     <1>17, <1>18, <1>19, <1>20, <1>21, <1>22, <1>23, <1>24, <1>25, <1>26, <1>27, <1>28, <1>29, <1>30
  DEF Steps, Happens

\* A relay that gets its permits was waiting for them.
LEMMA GrantStaged ==
  ASSUME TypeOK, Waiting, Stage, Grant
  PROVE  Stage'
<1> SUFFICES ASSUME NEW q \in Relays
             PROVE  Staged(q)'
  BY DEF Stage
<1>1. queue \in Seq(Relays \cup Others) /\ queue # <<>> /\ pc \in [Relays -> Stages]
  BY DEF TypeOK, Grant
<1>2. 1 \in 1..Len(queue) /\ Head(queue) = queue[1]
  BY <1>1
<1>3. pc'[q] = pc[q] \/ (pc[q] = "permits" /\ pc'[q] = "connect")
  BY <1>1, <1>2 DEF Waiting, Grant
<1>4. /\ Staged(q)
      /\ UNCHANGED <<rule, listens, source, route, flows, lease, record>>
  BY DEF Stage, Grant, task, links, bridge, owned
<1> QED
  BY <1>3, <1>4 DEF Staged, Verified, Leased, Holding, Open

LEMMA InitStage == Init => Stage
  BY DEF Init, Stage, Staged, Leased, Holding, Open

LEMMA NextStage == TypeOK /\ Waiting /\ Stage /\ [Next]_vars => Stage'
<1> SUFFICES ASSUME TypeOK, Waiting, Stage, [Next]_vars
             PROVE  Stage'
  OBVIOUS
<1>1. ASSUME NEW r \in Relays, Steps(r) \/ Cuts(r) \/ Happens(r)
      PROVE  Stage'
  BY <1>1, StepStaged, OthersStay, SameStaged DEF Stage
<1>2. CASE (\E x \in Others : Asks(x) \/ Finishes(x)) \/ UNCHANGED vars
  <2>1. UNCHANGED <<pc, listens, source, route, flows, lease, record, rule>>
    BY <1>2 DEF Asks, Finishes, vars, task, links, bridge, owned
  <2> QED
    BY <2>1 DEF Stage, Staged, Verified
<1> QED
  BY <1>1, <1>2, GrantStaged DEF Next
-----------------------------------------------------------------------------
(***************************************************************************)
(* Connections and generations.                                            *)
(***************************************************************************)
LEMMA CountTypes ==
  ASSUME TypeOK, NEW r \in Relays
  PROVE  /\ rule[r] \in Rules /\ want[r] \in Rules
         /\ rule[r].gen \in Generations /\ want[r].gen \in Generations
         /\ flows[r] \in Nat /\ active[r] \in Nat /\ MaxEdits \in Nat
         /\ \A g \in Generations : g \in Nat /\ draining[r][g] \in Nat
  BY RelayAssumption DEF TypeOK, Rules, Generations

LEMMA SameCounted ==
  ASSUME NEW q \in Relays, Counted(q), SameCounts(q)
  PROVE  Counted(q)'
  BY DEF SameCounts, Counted, Current

\* The steps that touch neither the rule nor its connections.
LEMMA CountsStay ==
  ASSUME NEW r \in Relays, Steps(r) \/ Happens(r), ~Begin(r), ~StepDown(r), ~Callback(r),
         ~FlowEnds(r), ~Start(r), ~Stop(r), ~Restart(r), ~Rename(r)
  PROVE  SameCounts(r)
  BY DEF Steps, Happens, SameCounts, Stays, task, bridge, engine, Wake, Interrupted, Answers,
         Joined,
     Claim, Listen, Releases, Ends, Opened, Installs, Refused, Pause, Release, Confirm, Unlisten,
     Yield, Close, Retry, UnlistenFails, Overdue, Retire, LoseSource, LoseTarget, LoseHelper, Lost

LEMMA BeginCounted ==
  ASSUME TypeOK, NEW r \in Relays, Begin(r), Staged(r), Counted(r)
  PROVE  Counted(r)'
<1>1. flows[r] = 0
  BY CountTypes DEF Begin, At, Staged
<1>2. rule'[r] = want[r] /\ UNCHANGED <<want, flows, draining, active>>
  BY DEF TypeOK, Begin, bridge, engine
<1>3. active[r] = draining[r][want[r].gen]
  BY <1>1, CountTypes DEF Counted
<1> QED
  BY <1>1, <1>2, <1>3, CountTypes DEF Counted, Current

LEMMA StepDownCounted ==
  ASSUME TypeOK, NEW r \in Relays, StepDown(r), Counted(r)
  PROVE  Counted(r)'
<1> DEFINE old == rule[r].gen
<1>1. PICK outcome : Leaves(r, outcome)
  BY DEF StepDown
<1>2. /\ flows'[r] = 0 /\ draining'[r] = [draining[r] EXCEPT ![old] = @ + flows[r]]
      /\ UNCHANGED <<want, rule, active>>
  BY <1>1, CountTypes DEF TypeOK, StepDown, Leaves, engine
<1>3. draining[r] \in [Generations -> Nat] /\ old \in Generations
  BY CountTypes DEF TypeOK
<1>4. \A g \in Generations :
        draining'[r][g] = IF g = old THEN draining[r][g] + flows[r] ELSE draining[r][g]
  BY <1>2, <1>3
<1>5. \A g \in Generations : g > want[r].gen => draining'[r][g] = 0
  BY <1>4, CountTypes DEF Counted
<1>6. active[r] = draining'[r][want[r].gen] + 0
  BY <1>4, CountTypes DEF Counted, Current
<1> QED
  BY <1>2, <1>5, <1>6 DEF Counted, Current

LEMMA ConnectionCounted ==
  ASSUME TypeOK, NEW r \in Relays, Callback(r) \/ FlowEnds(r), Counted(r)
  PROVE  Counted(r)'
<1>1. UNCHANGED <<rule, want, draining>>
  BY DEF Callback, FlowEnds, task, engine
<1>2. CASE Callback(r)
  <2>1. flows'[r] = flows[r] + 1 /\ active'[r] = IF Current(r) THEN active[r] + 1 ELSE active[r]
    BY <1>2 DEF TypeOK, Callback
  <2> QED
    BY <1>1, <2>1, CountTypes DEF Counted, Current
<1>3. CASE FlowEnds(r)
  <2>1. /\ flows[r] > 0 /\ flows'[r] = flows[r] - 1
        /\ active'[r] = IF Current(r) /\ active[r] > 0 THEN active[r] - 1 ELSE active[r]
    BY <1>3 DEF TypeOK, FlowEnds, Ended, Current
  <2> QED
    BY <1>1, <2>1, CountTypes DEF Counted, Current
<1> QED
  BY <1>2, <1>3

LEMMA DrainCounted ==
  ASSUME TypeOK, NEW r \in Relays, Cuts(r), Counted(r)
  PROVE  Counted(r)'
<1>1. PICK g \in Generations : Drains(r, g)
  BY DEF Cuts
<1>2. /\ UNCHANGED <<rule, want, flows>> /\ draining[r][g] > 0
      /\ draining'[r] = [draining[r] EXCEPT ![g] = @ - 1]
      /\ active'[r] = IF g = want[r].gen /\ active[r] > 0 THEN active[r] - 1 ELSE active[r]
  BY <1>1 DEF TypeOK, Drains, Ended, task, engine
<1>3. draining[r] \in [Generations -> Nat]
  BY DEF TypeOK
<1>4. \A h \in Generations : draining'[r][h] = IF h = g THEN draining[r][h] - 1 ELSE draining[r][h]
  BY <1>2, <1>3
<1>5. ~(g > want[r].gen)
  BY <1>2, CountTypes DEF Counted
<1>6. \A h \in Generations : h > want[r].gen => draining'[r][h] = 0
  BY <1>4, <1>5 DEF Counted
<1>7. active'[r] = draining'[r][want[r].gen] + (IF Current(r) THEN flows[r] ELSE 0)
  BY <1>2, <1>4, CountTypes DEF Counted
<1> QED
  BY <1>2, <1>6, <1>7 DEF Counted, Current

\* A new generation has no connections yet; a new name keeps the generation.
LEMMA EditCounted ==
  ASSUME TypeOK, NEW r \in Relays, Start(r) \/ Stop(r) \/ Restart(r) \/ Rename(r), Counted(r)
  PROVE  Counted(r)'
<1>1. UNCHANGED <<rule, flows, draining>>
  BY DEF Start, Stop, Restart, Rename, Supersede, Sent
<1>2. CASE Rename(r)
  <2>1. want'[r].gen = want[r].gen /\ UNCHANGED active
    BY <1>2 DEF TypeOK, Rename, Sent, Rules
  <2> QED
    BY <1>1, <2>1 DEF Counted, Current
<1>3. CASE Start(r) \/ Stop(r) \/ Restart(r)
  <2>1. want'[r].gen = want[r].gen + 1 /\ active'[r] = 0
    <3>1. PICK run : want' = [want EXCEPT ![r] = [want[r] EXCEPT !.gen = @ + 1, !.run = run]]
      BY <1>3 DEF Start, Stop, Restart, Supersede, Sent
    <3>2. want \in [Relays -> Rules] /\ active \in [Relays -> Nat]
      BY DEF TypeOK
    <3>3. want'[r] = [want[r] EXCEPT !.gen = @ + 1, !.run = run]
      BY <3>1, <3>2
    <3>4. active' = [active EXCEPT ![r] = 0]
      BY <1>3 DEF Start, Stop, Restart, Supersede
    <3> QED
      BY <3>2, <3>3, <3>4 DEF Rules
  <2>2. want'[r].gen \in Generations
    <3>1. TypeOK'
      BY <1>3, EngineTypes
    <3> QED
      BY <3>1 DEF TypeOK, Rules
  <2>3. draining[r][want'[r].gen] = 0
    BY <2>1, <2>2, CountTypes DEF Counted
  <2>4. rule[r].gen < want'[r].gen /\ ~Current(r)'
    BY <1>1, <2>1, CountTypes DEF Counted, Current
  <2> QED
    BY <1>1, <2>1, <2>2, <2>3, <2>4, CountTypes DEF Counted
<1> QED
  BY <1>2, <1>3

LEMMA InitCounts == Init => Counts
<1> SUFFICES ASSUME Init, NEW r \in Relays
             PROVE  Counted(r)
  BY DEF Counts
<1>1. want[r].gen \in Generations
  BY InitTypes, CountTypes
<1> QED
  BY <1>1, RelayAssumption DEF Init, Counted, Current, Generations

LEMMA NextCounts == TypeOK /\ Stage /\ Counts /\ [Next]_vars => Counts'
<1> SUFFICES ASSUME TypeOK, Stage, Counts, [Next]_vars
             PROVE  Counts'
  OBVIOUS
<1>1. ASSUME NEW r \in Relays, Steps(r) \/ Cuts(r) \/ Happens(r)
      PROVE  Counts'
  <2>1. Counted(r)'
    BY <1>1, CountsStay, SameCounted, BeginCounted, StepDownCounted, ConnectionCounted,
       DrainCounted, EditCounted DEF Stage, Counts
  <2> QED
    BY <1>1, <2>1, OthersStay, SameCounted DEF Counts, Same
<1>2. CASE Grant \/ (\E x \in Others : Asks(x) \/ Finishes(x)) \/ UNCHANGED vars
  <2>1. UNCHANGED <<rule, want, flows, draining, active>>
    BY <1>2 DEF Grant, Asks, Finishes, vars, task, bridge, engine
  <2> QED
    BY <2>1 DEF Counts, Counted, Current
<1> QED
  BY <1>1, <1>2 DEF Next
-----------------------------------------------------------------------------
(***************************************************************************)
(* Theorems.                                                               *)
(***************************************************************************)
IInv == TypeOK /\ Waiting /\ Stage /\ Counts

\* Every relay task stays in the states the code has: the stages, sessions, leases and counters
\* of Relay::run and what it calls, and the queue of the connection permits.
THEOREM RelayTypeCorrect == Spec => []TypeOK
<1> QED
  BY InitTypes, NextTypes, PTL DEF Spec

LEMMA Invariant == Spec => []IInv
<1>1. Init => IInv
  BY InitTypes, InitWaiting, InitStage, InitCounts DEF IInv
<1>2. IInv /\ [Next]_vars => IInv'
  BY NextTypes, NextWaiting, NextStage, NextCounts DEF IInv
<1> QED
  BY <1>1, <1>2, PTL DEF Spec

\* However confirmations, losses, edits and cancellations interleave, connections are bridged only
\* through a listener that is open and, for a verified rule, recorded and confirmed.
THEOREM BridgesAreOwned == Spec => []RouteIsOwned
<1>1. IInv => RouteIsOwned
  BY DEF IInv, Stage, Staged, RouteIsOwned, Holding, Open
<1> QED
  BY <1>1, Invariant, PTL

\* Whatever fails, a verified listener that is open is recorded on its server.
THEOREM ListenersAreRecorded == Spec => []RecordCoversListener
<1>1. IInv => RecordCoversListener
  BY DEF IInv, Stage, Staged, RecordCoversListener, Holding, Open
<1> QED
  BY <1>1, Invariant, PTL

\* However many older generations still drain, the number shown is the number bridged for the
\* rule as it is now.
THEOREM ConnectionsAreCounted == Spec => []ActiveIsCounted
<1>1. IInv => ActiveIsCounted
  BY DEF IInv, Counts, Counted, ActiveIsCounted
<1> QED
  BY <1>1, Invariant, PTL
=============================================================================
