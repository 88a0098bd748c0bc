------------------------ MODULE ConfigStore_proofs ------------------------
(***************************************************************************)
(* Theorems about ConfigStore for every set of rules, every choice of      *)
(* callers and every bound.                                                *)
(***************************************************************************)
EXTENDS ConfigStore, TLAPS
-----------------------------------------------------------------------------
(***************************************************************************)
(* Types of the operators on data.                                         *)
(***************************************************************************)

\* Blank texts, the empty configuration and the empty intent are well-formed.
LEMMA ConstantTypes ==
  /\ NoRules \in [Rules -> RuleState]
  /\ NoIntent \in [Rules -> Intent]
  /\ \A kind \in TextKind : Blank(kind) \in Text
  /\ NoSnapshot \in Snapshot
  /\ NoJob \in Job
BY DEF NoRules, RuleState, NoIntent, Intent, TextKind, Blank, Text, NoSnapshot, Snapshot,
       SnapshotKind, NoJob, Job, JobKind, Step

\* Applying, rebasing and protecting keep rules and intents well-formed.
LEMMA IntentTypes ==
  ASSUME NEW intent \in [Rules -> Intent], NEW rules \in [Rules -> RuleState]
  PROVE  /\ Apply(intent, rules) \in [Rules -> RuleState]
         /\ Rebase(intent, rules) \in [Rules -> Intent]
         /\ ProtectAll(intent, rules) \in [Rules -> Intent]
BY DEF Apply, Rebase, ProtectAll, Intent, RuleState

\* What a process loads is a revision and rules, and its token is a text.
LEMMA LoadedTypes ==
  ASSUME TypeOK
  PROVE  /\ Loaded.rev \in Nat /\ Loaded.rules \in [Rules -> RuleState]
         /\ TokenAfterLoad \in Text
BY ConstantTypes DEF TypeOK, Loaded, TokenAfterLoad, Snapshot, Text, TextKind

\* Mutations and their offline form are jobs.
LEMMA MutationTypes ==
  ASSUME NEW kind \in JobKind, NEW before, before.rev \in Nat,
         NEW rules \in [Rules -> RuleState], NEW selected \in SUBSET Rules
  PROVE  Mutation(kind, before, rules, selected) \in Job
<1>1. NoJob \in Job /\ before.rev + 1 \in Nat /\ "prepare" \in Step
  BY ConstantTypes DEF Step
<1>2. QED
  BY <1>1 DEF Mutation, Job

LEMMA OfflineTypes ==
  ASSUME TypeOK, NEW mutation \in Job, NEW before,
         before.rev \in Nat, before.rules \in [Rules -> RuleState]
  PROVE  Offline(mutation, before) \in Job
<1>1. NoJob \in Job /\ Blank("missing") \in Text /\ candidate \in Text
  BY ConstantTypes DEF TypeOK, TextKind
<1>2. QED
  BY <1>1, ZenonT(30) DEF Offline, Job, JobKind, Step

\* The revision of a recovery exceeds every revision the files still know.
LEMMA RecoveryRevisionAbove ==
  ASSUME TypeOK
  PROVE  /\ RecoveryRevision \in Nat
         /\ \A n \in KnownRevisions : n < RecoveryRevision
<1>1. KnownRevisions \in SUBSET Int
  BY DEF TypeOK, KnownRevisions, Text, Snapshot, NoRevision
<1>2. \E n \in KnownRevisions : \A m \in KnownRevisions : m <= n
  <2>1. \A a, b \in Int : \E n \in {a, b} : \A m \in {a, b} : m <= n
    OBVIOUS
  <2>2. \A a, b, c \in Int : \E n \in {a, b, c} : \A m \in {a, b, c} : m <= n
    OBVIOUS
  <2>. candidate.rev \in Int /\ saved \in Int /\ snapshot.rev \in Int
    BY DEF TypeOK, Text, Snapshot, NoRevision
  <2>3. CASE snapshot.kind \in {"good", "torn"}
    <3>1. KnownRevisions = {candidate.rev, saved, snapshot.rev}
      BY <2>3 DEF KnownRevisions
    <3>2. QED
      BY <2>2, <3>1
  <2>4. CASE ~(snapshot.kind \in {"good", "torn"})
    <3>1. KnownRevisions = {candidate.rev, saved}
      BY <2>4 DEF KnownRevisions
    <3>2. QED
      BY <2>1, <3>1
  <2>5. QED
    BY <2>3, <2>4
<1>3. PICK top \in KnownRevisions :
        /\ \A m \in KnownRevisions : m <= top
        /\ RecoveryRevision = 1 + top
  BY <1>2 DEF RecoveryRevision
<1>4. candidate.rev \in KnownRevisions /\ candidate.rev \in Nat
  BY DEF TypeOK, KnownRevisions, Text
<1>5. QED
  BY <1>1, <1>3, <1>4
-----------------------------------------------------------------------------
(***************************************************************************)
(* Type correctness.                                                       *)
(***************************************************************************)
LEMMA InitTyped == Init => TypeOK
<1>1. SUFFICES ASSUME Init PROVE TypeOK
  OBVIOUS
<1>2. candidate \in Text
  <2>1. CASE candidate = Blank("missing")
    BY <2>1, ConstantTypes DEF TextKind
  <2>2. CASE \E rules \in [Rules -> RuleState] :
               candidate = [kind |-> "hand", rev |-> 0, rules |-> rules]
    BY <2>2 DEF Text, TextKind
  <2>3. QED
    BY <1>1, <2>1, <2>2 DEF Init
<1>3. NoDaemon \in [up : BOOLEAN, rev : Nat, rules : [Rules -> RuleState]]
  BY ConstantTypes DEF NoDaemon
<1>4. decided \in [Rules -> Intent]
  BY <1>1 DEF Init, Intent
<1>5. Blank("missing") \in Text /\ Blank("unread") \in Text
  BY ConstantTypes DEF TextKind
<1>6. disk \in Disk
  BY <1>1, <1>2, ConstantTypes DEF Init, Disk
<1>7. saves \in 0..MaxSaves /\ faults \in 0..MaxFaults
  BY <1>1, BoundsAssumption DEF Init
<1>8. QED
  BY <1>1, <1>2, <1>3, <1>4, <1>5, <1>6, <1>7, ConstantTypes DEF Init, TypeOK

\* What a change of control state or an edit may turn rules into is well-formed.
LEMMA ControlledTypes ==
  ASSUME NEW rules \in [Rules -> RuleState], NEW selected \in SUBSET Rules,
         NEW state \in RuleState
  PROVE  Controlled(rules, selected, state) \in [Rules -> RuleState]
BY DEF Controlled

\* Beginning a job keeps every variable in its type.
LEMMA BeginTyped == ASSUME TypeOK, Begin PROVE TypeOK'
<1> USE ConstantTypes
<1>1. CASE StartDaemon
  <2>1. /\ [Offline(NoJob, Loaded) EXCEPT !.goal = "daemon"] \in Job
        /\ TokenAfterLoad \in Text
    BY LoadedTypes, OfflineTypes DEF Job, JobKind
  <2>2. QED
    BY <1>1, <2>1 DEF TypeOK, StartDaemon, files, bounds
<1>2. CASE StopDaemon
  <2>1. NoDaemon \in [up : BOOLEAN, rev : Nat, rules : [Rules -> RuleState]]
    BY DEF NoDaemon
  <2>2. QED
    BY <1>2, <2>1 DEF TypeOK, StopDaemon, files, history, bounds, TextKind
<1>3. CASE DaemonEdit
  <2>1. PICK rules \in Edited(daemon.rules) :
          job' = [Mutation("edit", daemon, rules, {}) EXCEPT !.pc = "token",
                                                             !.expect = candidate]
    BY <1>3 DEF DaemonEdit
  <2>2. /\ Mutation("edit", daemon, rules, {}) \in Job
        /\ candidate \in Text
    BY MutationTypes DEF TypeOK, Edited, JobKind
  <2>3. job' \in Job
    BY <2>1, <2>2 DEF Job, Step
  <2>4. QED
    BY <1>3, <2>3 DEF TypeOK, DaemonEdit, files, bounds
<1>4. CASE DaemonControl
  <2>1. PICK selected \in SUBSET Present(daemon.rules) \ {{}}, state \in RuleState :
          job' = Mutation("control", daemon,
                          Controlled(daemon.rules, selected, state), selected)
    BY <1>4 DEF DaemonControl
  <2>2. /\ selected \in SUBSET Rules
        /\ daemon.rev \in Nat /\ daemon.rules \in [Rules -> RuleState]
    BY <2>1 DEF Present, TypeOK
  <2>3. job' \in Job
    BY <2>1, <2>2, MutationTypes, ControlledTypes DEF JobKind
  <2>4. QED
    BY <1>4, <2>3 DEF TypeOK, DaemonControl, files, bounds
<1>5. CASE DaemonReload
  <2>1. Mutation("reload", daemon, Apply(snapshot.intent, candidate.rules), {}) \in Job
    BY MutationTypes, IntentTypes DEF TypeOK, JobKind, Snapshot, Text
  <2>2. QED
    BY <1>5, <2>1 DEF TypeOK, DaemonReload, files, bounds, Job, Step
<1>6. CASE DaemonValidate
  BY <1>6 DEF TypeOK, DaemonValidate, files, history, bounds
<1>7. CASE CliEdit
  <2>1. PICK rules \in Edited(Loaded.rules) :
          job' = Offline(Mutation("edit", Loaded, rules, {}), Loaded)
    BY <1>7 DEF CliEdit
  <2>2. job' \in Job
    BY <2>1, LoadedTypes, MutationTypes, OfflineTypes DEF Edited, JobKind
  <2>3. QED
    BY <1>7, <2>2, LoadedTypes DEF TypeOK, CliEdit, files, bounds
<1>8. CASE CliControl
  <2>1. PICK selected \in SUBSET Present(Loaded.rules) \ {{}}, state \in RuleState :
          job' = Offline(Mutation("control", Loaded,
                                  Controlled(Loaded.rules, selected, state), selected),
                         Loaded)
    BY <1>8 DEF CliControl
  <2>2. selected \in SUBSET Rules
    BY <2>1 DEF Present
  <2>3. job' \in Job
    BY <2>1, <2>2, LoadedTypes, MutationTypes, OfflineTypes, ControlledTypes DEF JobKind
  <2>4. QED
    BY <1>8, <2>3, LoadedTypes DEF TypeOK, CliControl, files, bounds
<1>9. CASE CliReload
  <2>1. Apply(snapshot.intent, candidate.rules) \in [Rules -> RuleState]
    BY IntentTypes DEF TypeOK, Snapshot, Text
  <2>2. Offline(Mutation("reload", Loaded, Apply(snapshot.intent, candidate.rules), {}),
                Loaded) \in Job
    BY <2>1, LoadedTypes, MutationTypes, OfflineTypes DEF JobKind
  <2>3. QED
    BY <1>9, <2>2 DEF TypeOK, CliReload, files, bounds
<1>10. CASE Recover
  <2> DEFINE intent == IF IntentReadable THEN snapshot.intent ELSE NoIntent
             restored == Apply(intent, candidate.rules)
             rules == [r \in Rules |-> IF restored[r] = "absent" THEN "absent" ELSE "stopped"]
  <2>1. /\ intent \in [Rules -> Intent]
        /\ rules \in [Rules -> RuleState]
        /\ candidate \in Text
    BY DEF TypeOK, Snapshot, RuleState
  <2>2. ProtectAll(intent, rules) \in [Rules -> Intent]
    BY <2>1, IntentTypes
  <2>3. job' = [NoJob EXCEPT !.kind = "recover", !.pc = "backup",
                             !.rev = RecoveryRevision, !.rules = rules,
                             !.intent = ProtectAll(intent, rules), !.expect = candidate]
    BY <1>10 DEF Recover
  <2> HIDE DEF intent, rules
  <2>4. job' \in Job
    BY <2>1, <2>2, <2>3, RecoveryRevisionAbove DEF Job, JobKind, Step
  <2>5. QED
    BY <1>10, <2>4 DEF TypeOK, Recover, files, bounds
<1>11. QED
  BY <1>1, <1>2, <1>3, <1>4, <1>5, <1>6, <1>7, <1>8, <1>9, <1>10 DEF Begin

\* Going on after Store::initialize keeps the daemon and the job in their types.
LEMMA AfterInitTyped ==
  ASSUME TypeOK, AfterInit
  PROVE  /\ job' \in Job
         /\ daemon' \in [up : BOOLEAN, rev : Nat, rules : [Rules -> RuleState]]
<1>1. NoJob \in Job /\ job.rev \in Nat /\ job.rules \in [Rules -> RuleState]
  BY ConstantTypes DEF TypeOK, Job
<1>2. CASE job.goal = "daemon"
  <2>1. /\ daemon' = [up |-> TRUE, rev |-> job.rev, rules |-> job.rules]
        /\ job' = NoJob
    BY <1>2 DEF AfterInit, EndJob
  <2>2. QED
    BY <1>1, <2>1
<1>3. CASE job.goal # "daemon"
  <2>1. Mutation(job.goal, job, job.want, job.selected) \in Job
    BY <1>1, <1>3, MutationTypes DEF TypeOK, Job
  <2>2. QED
    BY <1>3, <2>1 DEF AfterInit, TypeOK, Job, Step
<1>4. QED
  BY <1>2, <1>3

\* Every step of a job keeps every variable in its type.
LEMMA WorkTyped == ASSUME TypeOK, Work PROVE TypeOK'
<1> USE ConstantTypes
<1>1. CASE Adopt
  <2>1. job.rev \in Nat /\ job.rules \in [Rules -> RuleState]
    BY DEF TypeOK, Job
  <2>2. saved' \in Nat \cup {NoRevision} /\ disk' \in Disk
    BY <1>1, <2>1 DEF Adopt, ReserveRevision, SyncedState, TypeOK, Disk
  <2>3. QED
    BY <1>1, <2>2, AfterInitTyped DEF TypeOK, Adopt, NoFault, history
<1>2. CASE ResolveToken
  <2>1. Rebase(snapshot.intent, job.rules) \in [Rules -> Intent]
    BY IntentTypes DEF TypeOK, Snapshot, Job
  <2>2. job' \in Job
    <3>1. PICK expect \in Text, unchecked \in BOOLEAN :
            job' = [job EXCEPT !.pc = "reserve", !.intent = Rebase(snapshot.intent, job.rules),
                               !.expect = expect, !.unchecked = unchecked]
      BY <1>2 DEF ResolveToken, TypeOK, CandidateVersion
    <3>2. job \in Job
      BY DEF TypeOK
    <3>3. QED
      BY <2>1, <3>1, <3>2 DEF Job, Step
  <2>3. QED
    BY <1>2, <2>2 DEF TypeOK, ResolveToken, NoFault, files, history, TextKind
<1>3. CASE Prepare
  BY <1>3 DEF TypeOK, Prepare, NoFault, files, history, Job, Step, CandidateVersion
<1>4. CASE Check
  <2>1. Rebase(snapshot.intent, job.rules) \in [Rules -> Intent]
    BY IntentTypes DEF TypeOK, Snapshot, Job
  <2>2. ControlIntent \in [Rules -> Intent]
    BY DEF TypeOK, Snapshot, Job, ControlIntent, Intent
  <2>3. job' \in Job
    <3>1. job \in Job /\ NoJob \in Job /\ Blank("keep") \in Text
      BY DEF TypeOK, TextKind
    <3>2. CASE job' = [job EXCEPT !.pc = "reserve", !.intent = Rebase(snapshot.intent, job.rules)]
      BY <2>1, <3>1, <3>2 DEF Job, Step
    <3>3. CASE \E expect \in Text :
                 job' = [job EXCEPT !.pc = "reserve", !.intent = ControlIntent,
                                    !.expect = expect]
      BY <2>2, <3>1, <3>3, ZenonT(30) DEF Job, Step
    <3>4. CASE job' = NoJob
      BY <3>1, <3>4
    <3>5. job.expect \in Text
      BY DEF TypeOK, Job
    <3>6. \/ job' = [job EXCEPT !.pc = "reserve", !.intent = Rebase(snapshot.intent, job.rules)]
          \/ job' = [job EXCEPT !.pc = "reserve", !.intent = ControlIntent,
                               !.expect = IF Pending THEN Blank("keep") ELSE job.expect]
          \/ job' = NoJob
      BY <1>4, Zenon DEF Check, EndJob
    <3>7. QED
      BY <3>1, <3>2, <3>3, <3>4, <3>5, <3>6
  <2>4. token' \in Text
    BY <1>4 DEF Check, TokenAtEnd, TypeOK, TextKind
  <2>5. QED
    BY <1>4, <2>3, <2>4 DEF TypeOK, Check, NoFault, files, history
<1>5. CASE Backup
  BY <1>5 DEF TypeOK, Backup, NoFault, Goto, history, Job, Step
<1>6. CASE Reserve
  <2>1. saved' \in Nat \cup {NoRevision} /\ disk' \in Disk
    BY <1>6, ZenonT(30) DEF Reserve, ReserveRevision, SyncedState, TypeOK, Disk, Job
  <2>2. job \in Job => job' \in Job
    BY <1>6 DEF Reserve, Goto, Job, Step
  <2>3. QED
    BY <1>6, <2>1, <2>2 DEF TypeOK, Reserve, NoFault, history
<1>7. CASE WriteSnapshot
  <2>1. snapshot' \in Snapshot
    BY <1>7 DEF WriteSnapshot, TypeOK, Snapshot, SnapshotKind, Job
  <2>2. decided' \in [Rules -> Intent]
    BY <1>7 DEF WriteSnapshot, TypeOK, Intent
  <2>3. QED
    BY <1>7, <2>1, <2>2 DEF TypeOK, WriteSnapshot, NoFault, Goto, Job, Step, TextKind
<1>8. CASE SyncSnapshot
  <2>1. job' \in Job
    <3>1. PICK next \in Step, warned \in BOOLEAN :
            job' = [job EXCEPT !.pc = next, !.warned = warned]
      <4>1. PICK next \in Step : \/ job' = [job EXCEPT !.pc = next]
                                \/ job' = [job EXCEPT !.pc = next, !.warned = TRUE]
        BY <1>8 DEF SyncSnapshot, Goto, Step
      <4>2. job \in Job /\ job.warned \in BOOLEAN
        BY DEF TypeOK, Job
      <4>3. CASE job' = [job EXCEPT !.pc = next]
        BY <4>2, <4>3 DEF Job
      <4>4. QED
        BY <4>1, <4>3
    <3>2. job \in Job
      BY DEF TypeOK
    <3>3. QED
      BY <3>1, <3>2 DEF Job
  <2>2. disk' \in Disk
    BY <1>8 DEF TypeOK, SyncSnapshot, SyncedState, Disk
  <2>3. faults' \in 0..MaxFaults
    BY <1>8, BoundsAssumption DEF TypeOK, SyncSnapshot, Fault, NoFault
  <2>4. decided' \in [Rules -> Intent]
    <3>1. \A r \in Rules : DecisionAfter(r) \in Intent
      BY DEF DecisionAfter, TypeOK, Job, Intent
    <3>2. QED
      BY <1>8, <3>1 DEF SyncSnapshot, TypeOK
  <2>5. QED
    BY <1>8, <2>1, <2>2, <2>3, <2>4 DEF TypeOK, SyncSnapshot
<1>9. CASE Displace
  BY <1>9 DEF TypeOK, Displace, NoFault, Goto, history, Job, Step, TextKind
<1>10. CASE Compare
  BY <1>10 DEF TypeOK, Compare, NoFault, Goto, files, history, Job, Step
<1>11. CASE Publish
  <2>1. Plain(job.rev, job.rules) \in Text
    BY DEF TypeOK, Job, Plain, Text, TextKind
  <2>2. QED
    BY <1>11, <2>1 DEF TypeOK, Publish, NoFault, Goto, history, Job, Step
<1>12. CASE SyncCandidate
  <2>1. job' \in Job
    <3>1. job \in Job
      BY DEF TypeOK
    <3>2. CASE job' = [job EXCEPT !.pc = "recheck"]
      BY <3>1, <3>2 DEF Job, Step
    <3>3. CASE job' = [job EXCEPT !.pc = "recheck", !.unsynced = TRUE]
      BY <3>1, <3>3 DEF Job, Step
    <3>4. QED
      BY <1>12, <3>2, <3>3 DEF SyncCandidate, Goto
  <2>2. disk' \in Disk
    BY <1>12 DEF TypeOK, SyncCandidate, Disk
  <2>3. faults' \in 0..MaxFaults
    BY <1>12, BoundsAssumption DEF TypeOK, SyncCandidate, Fault, NoFault
  <2>4. QED
    BY <1>12, <2>1, <2>2, <2>3 DEF TypeOK, SyncCandidate, history
<1>13. CASE Recheck
  <2>1. Plain(job.rev, job.rules) \in Text
    BY DEF TypeOK, Job, Plain, Text, TextKind
  <2>2. QED
    BY <1>13, <2>1 DEF TypeOK, Recheck, NoFault, Goto, history, Job, Step, TextKind
<1>14. CASE Restore
  <2>1. disk' \in Disk
    BY <1>14 DEF TypeOK, Restore, Disk
  <2>2. QED
    BY <1>14, <2>1 DEF TypeOK, Restore, NoFault, Goto, history, Job, Step, TextKind
<1>15. CASE ClearIntent
  <2>1. snapshot' \in Snapshot /\ disk' \in Disk
    <3>1. [snapshot EXCEPT !.intent = NoIntent] \in Snapshot
      BY DEF TypeOK, Snapshot
    <3>2. snapshot' \in Snapshot
      BY <1>15, <3>1 DEF TypeOK, ClearIntent
    <3>3. disk' \in Disk
      BY <1>15, <3>2 DEF TypeOK, ClearIntent, SyncedState, Disk
    <3>4. QED
      BY <3>2, <3>3
  <2>2. faults' \in 0..MaxFaults
    BY <1>15, BoundsAssumption DEF TypeOK, ClearIntent, Fault, NoFault
  <2>3. QED
    BY <1>15, <2>1, <2>2 DEF TypeOK, ClearIntent, Goto, history, Job, Step
<1>16. CASE Reply
  <2>1. confirmed' \in SUBSET (Nat \X [Rules -> RuleState])
    BY <1>16 DEF TypeOK, Reply, Job
  <2>2. /\ job' \in Job
        /\ daemon' \in [up : BOOLEAN, rev : Nat, rules : [Rules -> RuleState]]
        /\ token' \in Text
    <3>1. CASE job.kind = "init"
      BY <1>16, <3>1, AfterInitTyped DEF TypeOK, Reply
    <3>2. CASE job.kind # "init"
      <4>1. /\ daemon' = MemoryAfterCommit
            /\ job' = NoJob /\ token' = TokenAtEnd
        BY <1>16, <3>2 DEF Reply, EndJob
      <4>2. MemoryAfterCommit \in [up : BOOLEAN, rev : Nat, rules : [Rules -> RuleState]]
        BY DEF MemoryAfterCommit, TypeOK, Job
      <4>3. QED
        BY <4>1, <4>2 DEF TokenAtEnd, TypeOK, TextKind
    <3>3. QED
      BY <3>1, <3>2
  <2>3. QED
    BY <1>16, <2>1, <2>2 DEF TypeOK, Reply, NoFault, files
<1>17. CASE FailBeforeCommit
  <2>1. faults' \in 0..MaxFaults
    BY <1>17, BoundsAssumption DEF TypeOK, FailBeforeCommit, Fault
  <2>2. saved' \in Nat \cup {NoRevision}
    BY <1>17 DEF TypeOK, FailBeforeCommit, Job
  <2>3. job' \in Job /\ token' \in Text
    BY <1>17 DEF TypeOK, FailBeforeCommit, EndJob, TokenAtEnd, TextKind
  <2>4. QED
    BY <1>17, <2>1, <2>2, <2>3 DEF TypeOK, FailBeforeCommit, history
<1>18. CASE FailMirror
  <2>1. faults' \in 0..MaxFaults
    BY <1>18, BoundsAssumption DEF TypeOK, FailMirror, Fault
  <2>2. QED
    BY <1>18, <2>1 DEF TypeOK, FailMirror, Goto, files, history, Job, Step
<1>19. QED
  BY <1>1, <1>2, <1>3, <1>4, <1>5, <1>6, <1>7, <1>8, <1>9, <1>10, <1>11, <1>12, <1>13,
     <1>14, <1>15, <1>16, <1>17, <1>18 DEF Work

\* What an editor writes is a text, and what it overrules are decisions.
LEMMA SaveTypes ==
  ASSUME TypeOK, NEW text \in Saves
  PROVE  /\ text \in Text
         /\ DraftOf(text) \in Text
         /\ DecidedAfterSave(text) \in [Rules -> Intent]
<1> USE ConstantTypes
<1>1. text \in Text
  <2>1. CASE text = Blank("broken")
    BY <2>1 DEF TextKind
  <2>2. CASE \E rules \in [Rules -> RuleState] :
               text = [kind |-> "hand", rev |-> IF Parses(candidate) THEN candidate.rev ELSE 0,
                       rules |-> rules]
    BY <2>2 DEF TypeOK, Text, TextKind
  <2>3. CASE text = Plain(snapshot.rev, snapshot.rules)
    BY <2>3 DEF TypeOK, Snapshot, Plain, Text, TextKind
  <2>4. QED
    BY <2>1, <2>2, <2>3 DEF Saves
<1>2. QED
  BY <1>1 DEF DraftOf, DecidedAfterSave, TypeOK, Intent, TextKind

\* An editor keeps every variable in its type.
LEMMA UserTyped == ASSUME TypeOK, User PROVE TypeOK'
<1> USE ConstantTypes
<1>1. saves' \in 0..MaxSaves
  BY BoundsAssumption DEF TypeOK, User, Save, SaveThroughHandle, RemoveFile, Touch
<1>2. CASE Save
  <2>1. PICK text \in Saves \ {candidate} :
          /\ candidate' = text /\ disk' = [disk EXCEPT !.candidate = text]
          /\ draft' = DraftOf(text) /\ decided' = DecidedAfterSave(text)
    BY <1>2 DEF Save
  <2>2. text \in Text /\ draft' \in Text /\ decided' \in [Rules -> Intent]
    BY <2>1, SaveTypes
  <2>3. QED
    BY <1>1, <1>2, <2>1, <2>2 DEF TypeOK, Save, Touch, Disk
<1>3. CASE SaveThroughHandle
  <2>1. PICK text \in Saves \ {displaced} :
          /\ displaced' = text
          /\ draft' = DraftOf(text) /\ decided' = DecidedAfterSave(text)
    BY <1>3 DEF SaveThroughHandle
  <2>2. text \in Text /\ draft' \in Text /\ decided' \in [Rules -> Intent]
    BY <2>1, SaveTypes
  <2>3. QED
    BY <1>1, <1>3, <2>1, <2>2 DEF TypeOK, SaveThroughHandle, Touch
<1>4. CASE RemoveFile
  BY <1>1, <1>4 DEF TypeOK, RemoveFile, Touch, Disk, TextKind
<1>5. QED
  BY <1>2, <1>3, <1>4 DEF User

\* Crashes, power losses and damage keep every variable in its type.
LEMMA EnvironmentTyped == ASSUME TypeOK, Environment PROVE TypeOK'
<1> USE ConstantTypes
<1>1. faults' \in 0..MaxFaults
  BY BoundsAssumption DEF TypeOK, Environment, Crash, PowerLoss, DamageSnapshot, Fault
<1>2. ASSUME ProcessEnds
      PROVE  /\ daemon' \in [up : BOOLEAN, rev : Nat, rules : [Rules -> RuleState]]
             /\ token' \in Text /\ job' \in Job /\ displaced' \in Text
             /\ kept' \in SUBSET Text
  BY <1>2 DEF ProcessEnds, NoDaemon, EndJob, TypeOK, TextKind
<1>3. CASE Crash
  BY <1>1, <1>2, <1>3 DEF TypeOK, Crash, history
<1>4. CASE PowerLoss
  <2>1. disk.snapshot \in Snapshot /\ disk.saved \in Nat \cup {NoRevision}
        /\ disk.candidate \in Text
    BY DEF TypeOK, Disk
  <2>2. /\ snapshot' \in Snapshot /\ saved' \in Nat \cup {NoRevision}
        /\ candidate' \in Text
    BY <1>4, <2>1 DEF PowerLoss, TypeOK
  <2>3. disk' \in Disk
    BY <1>4, <2>2 DEF PowerLoss, Disk
  <2>4. QED
    BY <1>1, <1>2, <1>4, <2>2, <2>3 DEF TypeOK, PowerLoss, history
<1>5. CASE DamageSnapshot
  <2>1. snapshot' \in Snapshot
    BY <1>5 DEF DamageSnapshot, TypeOK, Snapshot, SnapshotKind, NoSnapshot
  <2>2. QED
    BY <1>1, <1>5, <2>1 DEF TypeOK, DamageSnapshot, Disk, history
<1>6. QED
  BY <1>3, <1>4, <1>5 DEF Environment

\* Every variable always holds what its file or field can hold.
THEOREM TypeCorrect == Spec => []TypeOK
<1>1. ASSUME TypeOK, [Next]_vars PROVE TypeOK'
  <2>1. CASE UNCHANGED vars
    BY <1>1, <2>1 DEF TypeOK, vars, files, history, bounds
  <2>2. QED
    BY <1>1, <2>1, BeginTyped, WorkTyped, UserTyped, EnvironmentTyped DEF Next
<1>2. QED
  BY <1>1, InitTyped, PTL DEF Spec
-----------------------------------------------------------------------------
(***************************************************************************)
(* Confirmed commits survive power loss, a revision names one              *)
(* configuration, and the memory of the daemon follows the snapshot.  The  *)
(* three share one inductive invariant, because each rests on the order in *)
(* which a commit reserves its revision, replaces the snapshot, syncs and  *)
(* replies.                                                                *)
(***************************************************************************)

\* Steps of a job after its revision is reserved, its snapshot replaced, its directory synced.
Reserved == {"write", "sync", "displace", "compare", "publish", "syncdir", "recheck",
             "restore", "clear", "reply"}
Committed == Reserved \ {"write"}
Synced == Committed \ {"sync"}

\* Every confirmed revision is at most the durable mark, what a restart can load, what the
\* daemon holds, and what the present job writes.
Bounded ==
  /\ disk.saved <= saved
  /\ \A c \in confirmed :
       /\ c[1] <= disk.saved
       /\ snapshot.kind = "good" => c[1] <= snapshot.rev
       /\ disk.snapshot.kind = "good" => c[1] <= disk.snapshot.rev
       /\ daemon.up => c[1] <= daemon.rev
       /\ job.pc # "idle" => c[1] <= job.rev
       /\ job.pc # "idle" /\ job.kind # "init" => c[1] < job.rev

\* A commit reserves, then replaces the snapshot, then syncs both, then replies.
CommitOrder ==
  /\ job.pc \in Reserved => job.rev <= saved
  /\ job.pc \in Committed =>
       snapshot.kind = "good" /\ snapshot.rev = job.rev /\ snapshot.rules = job.rules
  /\ job.pc \in Synced /\ ~job.warned =>
       job.rev <= disk.saved /\ disk.snapshot.kind = "good" /\ disk.snapshot.rev = job.rev

\* Initialization precedes the daemon, and writes a snapshot only if nothing was confirmed.
InitFirst ==
  /\ job.kind = "init" => ~daemon.up
  /\ job.kind = "init" /\ job.pc # "adopt" => confirmed = {}
  /\ job.pc = "adopt" => /\ job.kind = "init" /\ snapshot.kind = "good"
                         /\ job.rev = snapshot.rev /\ job.rules = snapshot.rules
  /\ job.goal # "init"

\* Until the next commit the daemon holds the snapshot.
MemoryFollows ==
  daemon.up /\ snapshot.kind = "good" /\ job.pc \notin Committed =>
    daemon.rev = snapshot.rev /\ daemon.rules = snapshot.rules

IInv == TypeOK /\ Bounded /\ CommitOrder /\ InitFirst /\ MemoryFollows
-----------------------------------------------------------------------------
\* The numbers that Bounded compares.
LEMMA Numbers ==
  ASSUME TypeOK
  PROVE  /\ saved \in Int /\ saved >= -1 /\ disk.saved \in Int
         /\ snapshot.rev \in Nat /\ disk.snapshot.rev \in Nat
         /\ daemon.rev \in Nat /\ job.rev \in Nat /\ candidate.rev \in Nat
         /\ \A c \in confirmed : c[1] \in Nat
BY DEF TypeOK, Disk, Snapshot, Job, Text, NoRevision

\* The initial states satisfy the invariant.
LEMMA InitCommits == Init => IInv
<1>1. ASSUME Init PROVE Bounded /\ CommitOrder /\ InitFirst /\ MemoryFollows
  BY <1>1 DEF Init, NoJob, NoDaemon, NoRevision, Bounded, CommitOrder, InitFirst,
              MemoryFollows, Reserved, Committed, Synced
<1>2. QED
  BY <1>1, InitTyped DEF IInv

\* A step that touches neither commits nor the fields of a job they depend on, and keeps
\* the job in the same phase.
LEMMA QuietStep ==
  ASSUME IInv, TypeOK',
         UNCHANGED <<snapshot, saved, daemon, confirmed>>,
         disk'.saved = disk.saved, disk'.snapshot = disk.snapshot,
         job'.kind = job.kind, job'.rev = job.rev, job'.rules = job.rules,
         job'.goal = job.goal, job'.warned = job.warned,
         \/ job'.pc = job.pc
         \/ /\ job.pc \notin Reserved \cup {"adopt", "idle"}
            /\ job'.pc \notin Reserved \cup {"adopt", "idle"}
         \/ (job.pc \in Synced /\ job'.pc \in Synced)
  PROVE  IInv'
BY DEF IInv, Bounded, CommitOrder, InitFirst, MemoryFollows, Reserved, Committed, Synced

\* A job that ends before its commit leaves at most a reservation.
LEMMA EndBeforeCommit ==
  ASSUME IInv, TypeOK', job.pc \notin Committed, EndJob,
         UNCHANGED <<snapshot, disk, daemon, confirmed>>,
         saved' = saved \/ (saved < job.rev /\ saved' = job.rev)
  PROVE  IInv'
<1>1. job'.pc = "idle" /\ job'.kind = "none" /\ job'.goal = "none"
  BY DEF EndJob, NoJob
<1>2. disk.saved <= saved'
  BY Numbers DEF IInv, Bounded
<1>3. QED
  BY <1>1, <1>2 DEF IInv, Bounded, CommitOrder, InitFirst, MemoryFollows, Reserved,
                    Committed, Synced

\* A process that ends leaves the files as they are, or as the disk has them.
LEMMA EndOfProcess ==
  ASSUME IInv, TypeOK', ProcessEnds, UNCHANGED confirmed,
         \/ UNCHANGED <<snapshot, saved, disk>>
         \/ /\ snapshot' \in {snapshot, disk.snapshot} /\ saved' \in {saved, disk.saved}
            /\ disk'.snapshot = snapshot' /\ disk'.saved = saved'
  PROVE  IInv'
<1>1. /\ job'.pc = "idle" /\ job'.kind = "none" /\ job'.goal = "none"
      /\ ~daemon'.up
  BY DEF ProcessEnds, EndJob, NoJob, NoDaemon
<1>2. disk'.saved <= saved' /\ disk.saved <= disk'.saved
  BY Numbers DEF IInv, Bounded
<1>3. Bounded'
  BY <1>1, <1>2, Numbers DEF IInv, Bounded, TypeOK, Disk
<1>4. QED
  BY <1>1, <1>3 DEF IInv, CommitOrder, InitFirst, MemoryFollows, Reserved, Committed, Synced

\* A new job writes a revision above every confirmed one.
LEMMA NewCommit ==
  ASSUME IInv, TypeOK', job.pc = "idle",
         UNCHANGED <<snapshot, saved, disk, daemon, confirmed>>,
         \A c \in confirmed : c[1] < job'.rev,
         job'.pc \notin Reserved \cup {"adopt", "idle"},
         job'.kind # "init", job'.goal # "init"
  PROVE  IInv'
<1>1. job'.rev \in Nat /\ \A c \in confirmed : c[1] \in Nat
  BY Numbers DEF IInv, TypeOK, Job
<1>2. QED
  BY <1>1 DEF IInv, Bounded, CommitOrder, InitFirst, MemoryFollows, Reserved, Committed,
              Synced

\* A process that has just loaded initializes the instance first.
LEMMA NewInit ==
  ASSUME IInv, TypeOK', job.pc = "idle", ~daemon.up, Loadable,
         UNCHANGED <<snapshot, saved, disk, daemon, confirmed>>,
         job'.kind = "init", job'.goal # "init",
         job'.rev = Loaded.rev, job'.rules = Loaded.rules,
         job'.pc = IF snapshot.kind = "none" THEN "reserve" ELSE "adopt"
  PROVE  IInv'
<1>1. CASE snapshot.kind = "good"
  BY <1>1, Numbers DEF IInv, Loaded, Bounded, CommitOrder, InitFirst, MemoryFollows, Reserved,
                       Committed, Synced
<1>2. CASE snapshot.kind # "good"
  <2>1. snapshot.kind = "none" /\ saved = -1
    BY <1>2 DEF Loadable, NoRevision
  <2>2. confirmed = {}
    BY <2>1, Numbers DEF IInv, Bounded
  <2>3. QED
    BY <2>1, <2>2 DEF IInv, Bounded, CommitOrder, InitFirst, MemoryFollows, Reserved,
                      Committed, Synced
<1>3. QED
  BY <1>1, <1>2
-----------------------------------------------------------------------------
\* The fields of a mutation and of its offline form.
LEMMA JobFields ==
  ASSUME NEW kind, NEW before, NEW rules, NEW selected, NEW mutation
  PROVE  /\ Mutation(kind, before, rules, selected).kind = kind
         /\ Mutation(kind, before, rules, selected).pc = "prepare"
         /\ Mutation(kind, before, rules, selected).rev = before.rev + 1
         /\ Mutation(kind, before, rules, selected).rules = rules
         /\ Mutation(kind, before, rules, selected).goal = "none"
         /\ Offline(mutation, before).kind = "init"
         /\ Offline(mutation, before).rev = before.rev
         /\ Offline(mutation, before).rules = before.rules
         /\ Offline(mutation, before).goal = mutation.kind
         /\ Offline(mutation, before).pc =
              IF snapshot.kind = "none" THEN "reserve" ELSE "adopt"
BY DEF Mutation, Offline, NoJob

\* What the daemon holds is at least every confirmed revision.
LEMMA DaemonAbove ==
  ASSUME IInv, daemon.up
  PROVE  \A c \in confirmed : c[1] < daemon.rev + 1
BY Numbers DEF IInv, Bounded

\* Beginning a job keeps the invariant.
LEMMA BeginCommits == ASSUME IInv, Begin, TypeOK' PROVE IInv'
<1>1. CASE StartDaemon
  <2>1. job' = [Offline(NoJob, Loaded) EXCEPT !.goal = "daemon"]
    BY <1>1 DEF StartDaemon
  <2>2. /\ job'.kind = "init" /\ job'.goal = "daemon"
        /\ job'.rev = Loaded.rev /\ job'.rules = Loaded.rules
        /\ job'.pc = IF snapshot.kind = "none" THEN "reserve" ELSE "adopt"
    BY <2>1 DEF Offline, NoJob
  <2>3. QED
    BY <1>1, <2>2, NewInit DEF StartDaemon, Idle, files
<1>2. CASE StopDaemon
  BY <1>2 DEF StopDaemon, NoDaemon, files, history, Idle, IInv, Bounded, CommitOrder, InitFirst,
              MemoryFollows, Reserved, Committed, Synced
<1>3. CASE DaemonEdit
  <2>1. PICK rules \in Edited(daemon.rules) :
          job' = [Mutation("edit", daemon, rules, {}) EXCEPT !.pc = "token",
                                                             !.expect = candidate]
    BY <1>3 DEF DaemonEdit
  <2>2. job'.rev = daemon.rev + 1 /\ job'.pc = "token" /\ job'.kind = "edit"
        /\ job'.goal = "none"
    BY <2>1 DEF Mutation, NoJob
  <2>3. QED
    BY <1>3, <2>2, NewCommit, DaemonAbove DEF DaemonEdit, Idle, files, Reserved
<1>4. CASE DaemonControl
  <2>. PICK selected \in SUBSET Present(daemon.rules), state \in RuleState :
         job' = Mutation("control", daemon, Controlled(daemon.rules, selected, state), selected)
    BY <1>4 DEF DaemonControl
  <2>1. job'.rev = daemon.rev + 1 /\ job'.pc = "prepare" /\ job'.kind = "control"
        /\ job'.goal = "none"
    BY JobFields
  <2>2. QED
    BY <1>4, <2>1, NewCommit, DaemonAbove DEF DaemonControl, Idle, files, Reserved
<1>5. CASE DaemonReload
  <2>1. job'.rev = daemon.rev + 1 /\ job'.pc = "token" /\ job'.kind = "reload"
        /\ job'.goal = "none"
    BY <1>5 DEF DaemonReload, Mutation, NoJob
  <2>2. QED
    BY <1>5, <2>1, NewCommit, DaemonAbove DEF DaemonReload, Idle, files, Reserved
<1>6. CASE DaemonValidate
  BY <1>6, QuietStep DEF DaemonValidate, files, history
<1>7. CASE CliEdit
  <2>1. \E mutation : job' = Offline(mutation, Loaded) /\ mutation.kind = "edit"
    BY <1>7, JobFields DEF CliEdit
  <2>2. QED
    BY <1>7, <2>1, JobFields, NewInit DEF CliEdit, CliMayBegin, Idle, files
<1>8. CASE CliControl
  <2>1. \E mutation : job' = Offline(mutation, Loaded) /\ mutation.kind = "control"
    BY <1>8, JobFields DEF CliControl
  <2>2. QED
    BY <1>8, <2>1, JobFields, NewInit DEF CliControl, CliMayBegin, Idle, files
<1>9. CASE CliReload
  <2>1. \E mutation : job' = Offline(mutation, Loaded) /\ mutation.kind = "reload"
    BY <1>9, JobFields DEF CliReload
  <2>2. QED
    BY <1>9, <2>1, JobFields, NewInit DEF CliReload, CliMayBegin, Idle, files
<1>10. CASE Recover
  <2>1. job'.rev = RecoveryRevision /\ job'.pc = "backup" /\ job'.kind = "recover"
        /\ job'.goal = "none"
    BY <1>10 DEF Recover, NoJob
  <2>2. saved < RecoveryRevision /\ RecoveryRevision \in Nat
    BY RecoveryRevisionAbove DEF IInv, KnownRevisions
  <2>3. \A c \in confirmed : c[1] < RecoveryRevision
    BY <2>2, Numbers DEF IInv, Bounded
  <2>4. QED
    BY <1>10, <2>1, <2>3, NewCommit DEF Recover, CliMayBegin, Idle, files, Reserved
<1>11. QED
  BY <1>1, <1>2, <1>3, <1>4, <1>5, <1>6, <1>7, <1>8, <1>9, <1>10 DEF Begin

\* Going on after Store::initialize: every confirmed revision is at most the loaded one,
\* and what was loaded is the snapshot.
LEMMA AfterInitCommits ==
  ASSUME IInv, TypeOK', AfterInit, job.kind = "init",
         UNCHANGED snapshot,
         snapshot.kind = "good", snapshot.rev = job.rev, snapshot.rules = job.rules,
         disk'.saved <= saved',
         \A c \in confirmed' :
           /\ c[1] <= disk'.saved /\ c[1] <= job.rev
           /\ disk'.snapshot.kind = "good" => c[1] <= disk'.snapshot.rev
  PROVE  IInv'
<1>1. job.rev \in Nat /\ \A c \in confirmed' : c[1] \in Nat
  BY Numbers DEF IInv, TypeOK
<1>2. CASE job.goal = "daemon"
  <2>1. /\ daemon' = [up |-> TRUE, rev |-> job.rev, rules |-> job.rules]
        /\ job'.pc = "idle" /\ job'.kind = "none" /\ job'.goal = "none"
    BY <1>2 DEF AfterInit, EndJob, NoJob
  <2>2. QED
    BY <1>1, <2>1 DEF IInv, Bounded, CommitOrder, InitFirst, MemoryFollows, Reserved,
                      Committed, Synced
<1>3. CASE job.goal # "daemon"
  <2>1. /\ job'.kind = job.goal /\ job'.rev = job.rev + 1 /\ job'.goal = "none"
        /\ job'.pc \in {"token", "prepare"}
        /\ UNCHANGED daemon
    BY <1>3, ZenonT(30) DEF AfterInit, Mutation, NoJob
  <2>2. ~daemon.up /\ job.goal # "init"
    BY DEF IInv, InitFirst
  <2>3. MemoryFollows' /\ InitFirst'
    BY <2>1, <2>2 DEF InitFirst, MemoryFollows, Committed
  <2>4. Bounded' /\ CommitOrder'
    BY <1>1, <2>1, <2>2 DEF IInv, Bounded, CommitOrder, Reserved, Committed, Synced
  <2>5. QED
    BY <2>3, <2>4 DEF IInv
<1>4. QED
  BY <1>2, <1>3

\* Reserving makes the mark cover the revision, in the file and on the disk alike.
LEMMA ReserveFacts ==
  ASSUME IInv, ReserveRevision(job.rev)
  PROVE  /\ disk'.saved <= saved' /\ disk.saved <= disk'.saved /\ job.rev <= saved'
         /\ disk'.snapshot \in {snapshot, disk.snapshot} /\ disk'.saved \in Int
<1>1. disk \in Disk /\ disk.saved <= saved
  BY DEF IInv, TypeOK, Bounded
<1>2. /\ saved \in Int /\ disk.saved \in Int /\ job.rev \in Int
  BY Numbers DEF IInv
<1>3. CASE saved >= job.rev /\ UNCHANGED <<saved, disk>>
  BY <1>1, <1>2, <1>3
<1>4. CASE /\ saved < job.rev /\ saved' = job.rev
           /\ disk' = [SyncedState EXCEPT !.saved = job.rev]
  <2>1. disk'.snapshot = snapshot /\ disk'.saved = job.rev
    BY <1>1, <1>4 DEF SyncedState, Disk
  <2>2. QED
    BY <1>1, <1>2, <1>4, <2>1
<1>5. QED
  BY <1>3, <1>4 DEF ReserveRevision

\* Every step of a job keeps the invariant.
LEMMA WorkCommits == ASSUME IInv, Work, TypeOK' PROVE IInv'
<1>0. job \in Job /\ disk \in Disk /\ snapshot \in Snapshot
  BY DEF IInv, TypeOK
<1>1. CASE Adopt
  <2>1. job.kind = "init" /\ snapshot.kind = "good" /\ job.rev = snapshot.rev
        /\ job.rules = snapshot.rules
    BY <1>1 DEF Adopt, At, IInv, InitFirst
  <2>2. /\ disk'.saved <= saved' /\ disk.saved <= disk'.saved
        /\ disk'.snapshot \in {snapshot, disk.snapshot}
    BY <1>1, ReserveFacts DEF Adopt
  <2>3. \A c \in confirmed' :
          /\ c[1] <= disk'.saved /\ c[1] <= job.rev
          /\ disk'.snapshot.kind = "good" => c[1] <= disk'.snapshot.rev
    <3>1. confirmed' = confirmed
      BY <1>1 DEF Adopt, history
    <3>2. disk'.saved \in Int
      BY <1>1, ReserveFacts DEF Adopt
    <3>3. QED
      BY <2>1, <2>2, <3>1, <3>2, Numbers DEF IInv, Bounded
  <2>4. QED
    BY <1>1, <2>1, <2>2, <2>3, AfterInitCommits DEF Adopt
<1>2. CASE ResolveToken
  <2>1. PICK intent, expect, unchecked :
          job' = [job EXCEPT !.pc = "reserve", !.intent = intent, !.expect = expect,
                             !.unchecked = unchecked]
    BY <1>2 DEF ResolveToken
  <2>2. QED
    BY <1>0, <1>2, <2>1, QuietStep DEF ResolveToken, At, Job, files, history, Reserved
<1>3. CASE Prepare
  BY <1>0, <1>3, QuietStep DEF Prepare, At, Job, files, history, Reserved
<1>4. CASE Check
  <2>1. CASE EndJob
    <3>1. /\ job.pc = "check"
          /\ UNCHANGED <<snapshot, saved, disk, daemon, confirmed>>
      BY <1>4 DEF Check, At, files, history
    <3>2. job.pc \notin Committed
      BY <3>1 DEF Committed, Reserved
    <3>3. QED
      BY <2>1, <3>1, <3>2, EndBeforeCommit
  <2>2. CASE \E intent, expect : job' = [job EXCEPT !.pc = "reserve", !.intent = intent,
                                                    !.expect = expect]
    BY <1>0, <1>4, <2>2, QuietStep DEF Check, At, Job, files, history, Reserved
  <2>3. CASE \E intent : job' = [job EXCEPT !.pc = "reserve", !.intent = intent]
    BY <1>0, <1>4, <2>3, QuietStep DEF Check, At, Job, files, history, Reserved
  <2>4. QED
    BY <1>4, <2>1, <2>2, <2>3 DEF Check
<1>5. CASE Backup
  BY <1>0, <1>5, QuietStep DEF Backup, Goto, At, Job, history, Reserved
<1>6. CASE Reserve
  <2>1. /\ disk'.saved <= saved' /\ disk.saved <= disk'.saved /\ job.rev <= saved'
        /\ disk'.snapshot \in {snapshot, disk.snapshot} /\ disk'.saved \in Int
    BY <1>6, ReserveFacts DEF Reserve
  <2>2. /\ job'.pc = "write" /\ job'.kind = job.kind /\ job'.rev = job.rev
        /\ job'.rules = job.rules /\ job'.goal = job.goal
    BY <1>0, <1>6 DEF Reserve, Goto, Job
  <2>3. UNCHANGED <<snapshot, daemon, confirmed>> /\ job.pc = "reserve"
    BY <1>6 DEF Reserve, At, history
  <2>4. Bounded'
    BY <2>1, <2>2, <2>3, Numbers DEF IInv, Bounded
  <2>5. CommitOrder' /\ InitFirst' /\ MemoryFollows'
    BY <2>1, <2>2, <2>3 DEF IInv, CommitOrder, InitFirst, MemoryFollows, Reserved,
                            Committed, Synced
  <2>6. QED
    BY <2>4, <2>5 DEF IInv
<1>7. CASE WriteSnapshot
  <2>1. /\ job'.pc = "sync" /\ job'.kind = job.kind /\ job'.rev = job.rev
        /\ job'.rules = job.rules /\ job'.goal = job.goal
    BY <1>0, <1>7 DEF WriteSnapshot, Goto, Job
  <2>2. /\ snapshot'.kind = "good" /\ snapshot'.rev = job.rev /\ snapshot'.rules = job.rules
        /\ UNCHANGED <<saved, disk, daemon, confirmed>> /\ job.pc = "write"
    BY <1>7 DEF WriteSnapshot, At
  <2>3. Bounded'
    BY <2>1, <2>2 DEF IInv, Bounded
  <2>4. CommitOrder' /\ InitFirst' /\ MemoryFollows'
    BY <2>1, <2>2 DEF IInv, CommitOrder, InitFirst, MemoryFollows, Reserved, Committed,
                      Synced
  <2>5. QED
    BY <2>3, <2>4 DEF IInv
<1>8. CASE SyncSnapshot
  <2>1. /\ job'.pc \in {"reply", "displace"} /\ job'.kind = job.kind /\ job'.rev = job.rev
        /\ job'.rules = job.rules /\ job'.goal = job.goal
        /\ \/ disk' = SyncedState
           \/ disk' = disk /\ job'.warned
    BY <1>0, <1>8 DEF SyncSnapshot, Goto, Job
  <2>2. UNCHANGED <<snapshot, saved, daemon, confirmed>> /\ job.pc = "sync"
    BY <1>8 DEF SyncSnapshot, At, history
  <2>3. SyncedState.snapshot = snapshot /\ SyncedState.saved = saved
    BY <1>0 DEF SyncedState, Disk
  <2>4. snapshot.kind = "good" /\ snapshot.rev = job.rev /\ job.rev <= saved
    BY <2>2 DEF IInv, CommitOrder, Reserved, Committed
  <2>5. Bounded'
    BY <2>1, <2>2, <2>3, Numbers DEF IInv, Bounded
  <2>6. CommitOrder' /\ InitFirst' /\ MemoryFollows'
    BY <2>1, <2>2, <2>3, <2>4 DEF IInv, CommitOrder, InitFirst, MemoryFollows, Reserved,
                                  Committed, Synced
  <2>7. QED
    BY <2>5, <2>6 DEF IInv
<1>9. CASE Displace
  BY <1>0, <1>9, QuietStep DEF Displace, Goto, At, Job, history, Synced, Committed, Reserved
<1>10. CASE Compare
  BY <1>0, <1>10, QuietStep DEF Compare, Goto, At, Job, files, history, Synced, Committed,
                                Reserved
<1>11. CASE Publish
  BY <1>0, <1>11, QuietStep DEF Publish, Goto, At, Job, history, Synced, Committed, Reserved
<1>12. CASE SyncCandidate
  <2>1. CASE NoFault /\ Goto("recheck")
    BY <1>0, <1>12, <2>1, QuietStep DEF SyncCandidate, Goto, At, Job, Disk, history, Synced,
                                        Committed, Reserved
  <2>2. CASE job' = [job EXCEPT !.pc = "recheck", !.unsynced = TRUE]
    BY <1>0, <1>12, <2>2, QuietStep DEF SyncCandidate, At, Job, Disk, history, Synced,
                                        Committed, Reserved
  <2>3. QED
    BY <1>12, <2>1, <2>2 DEF SyncCandidate
<1>13. CASE Recheck
  BY <1>0, <1>13, QuietStep DEF Recheck, Goto, At, Job, history, Synced, Committed, Reserved
<1>14. CASE Restore
  BY <1>0, <1>14, QuietStep DEF Restore, Goto, At, Job, Disk, history, Synced, Committed,
                                Reserved
<1>15. CASE ClearIntent
  <2>1. /\ snapshot'.kind = snapshot.kind /\ snapshot'.rev = snapshot.rev
        /\ snapshot'.rules = snapshot.rules
    BY <1>0, <1>15 DEF ClearIntent, Snapshot
  <2>2. \/ disk' = disk
        \/ disk'.snapshot = snapshot' /\ disk'.saved = saved
    BY <1>0, <1>15 DEF ClearIntent, SyncedState, Disk
  <2>3. /\ job'.pc = "reply" /\ job'.kind = job.kind /\ job'.rev = job.rev
        /\ job'.rules = job.rules /\ job'.goal = job.goal /\ job'.warned = job.warned
    BY <1>0, <1>15 DEF ClearIntent, Goto, Job
  <2>4. UNCHANGED <<saved, daemon, confirmed>> /\ job.pc = "clear"
    BY <1>15 DEF ClearIntent, At, history
  <2>5. Bounded'
    BY <2>1, <2>2, <2>3, <2>4, Numbers DEF IInv, Bounded
  <2>6. CommitOrder' /\ InitFirst' /\ MemoryFollows'
    BY <2>1, <2>2, <2>3, <2>4 DEF IInv, CommitOrder, InitFirst, MemoryFollows, Reserved,
                                  Committed, Synced
  <2>7. QED
    BY <2>5, <2>6 DEF IInv
<1>16. CASE Reply
  <2>1. /\ snapshot.kind = "good" /\ snapshot.rev = job.rev /\ snapshot.rules = job.rules
        /\ UNCHANGED <<snapshot, saved, disk>> /\ job.pc = "reply"
    BY <1>16 DEF Reply, At, files, IInv, CommitOrder, Reserved, Committed
  <2>2. disk.saved <= saved
    BY DEF IInv, Bounded
  <2>3. \A c \in confirmed' :
          /\ c[1] <= disk.saved /\ c[1] <= job.rev
          /\ disk.snapshot.kind = "good" => c[1] <= disk.snapshot.rev
    <3>1. ASSUME NEW c \in confirmed
          PROVE  /\ c[1] <= disk.saved /\ c[1] <= job.rev
                 /\ disk.snapshot.kind = "good" => c[1] <= disk.snapshot.rev
      BY <2>1 DEF IInv, Bounded
    <3>2. ~job.warned => job.rev <= disk.saved /\ disk.snapshot.rev = job.rev
      BY <2>1 DEF IInv, CommitOrder, Synced, Committed, Reserved
    <3>3. confirmed' = confirmed \cup (IF job.warned THEN {} ELSE {<<job.rev, job.rules>>})
      BY <1>16 DEF Reply
    <3>4. job.rev \in Nat
      BY Numbers DEF IInv
    <3>5. QED
      BY <3>1, <3>2, <3>3, <3>4
  <2>4. CASE job.kind = "init"
    BY <1>16, <2>1, <2>2, <2>3, <2>4, AfterInitCommits DEF Reply
  <2>5. CASE job.kind # "init"
    <3>1. /\ daemon' = MemoryAfterCommit
          /\ job'.pc = "idle" /\ job'.kind = "none" /\ job'.goal = "none"
      BY <1>16, <2>5 DEF Reply, EndJob, NoJob
    <3>2. daemon'.up => daemon'.rev = job.rev /\ daemon'.rules = job.rules
      BY <3>1 DEF MemoryAfterCommit
    <3>3. Bounded'
      BY <2>1, <2>2, <2>3, <3>1, <3>2 DEF Bounded
    <3>4. CommitOrder' /\ InitFirst' /\ MemoryFollows'
      BY <2>1, <3>1, <3>2 DEF CommitOrder, InitFirst, MemoryFollows, Reserved, Committed,
                              Synced
    <3>5. QED
      BY <3>3, <3>4 DEF IInv
  <2>6. QED
    BY <2>4, <2>5
<1>17. CASE FailBeforeCommit
  <2>1. saved' = saved \/ (saved < job.rev /\ saved' = job.rev)
    <3>1. saved \in Int /\ job.rev \in Int
      BY Numbers DEF IInv
    <3>2. CASE At("write") \/ saved >= job.rev
      BY <1>17, <3>2 DEF FailBeforeCommit
    <3>3. CASE ~(At("write") \/ saved >= job.rev)
      BY <1>17, <3>1, <3>3 DEF FailBeforeCommit
    <3>4. QED
      BY <3>2, <3>3
  <2>2. QED
    BY <1>17, <2>1, EndBeforeCommit DEF FailBeforeCommit, history, Committed, Reserved
<1>18. CASE FailMirror
  BY <1>0, <1>18, QuietStep DEF FailMirror, Goto, Job, files, history, Synced, Committed,
                                Reserved
<1>19. QED
  BY <1>1, <1>2, <1>3, <1>4, <1>5, <1>6, <1>7, <1>8, <1>9, <1>10, <1>11, <1>12, <1>13,
     <1>14, <1>15, <1>16, <1>17, <1>18 DEF Work

\* The user and the environment keep the invariant.
LEMMA OutsideCommits == ASSUME IInv, User \/ Environment, TypeOK' PROVE IInv'
<1>0. job \in Job /\ disk \in Disk /\ snapshot \in Snapshot
  BY DEF IInv, TypeOK
<1>1. CASE User
  <2>1. /\ UNCHANGED <<snapshot, saved, daemon, job, confirmed>>
        /\ disk'.saved = disk.saved /\ disk'.snapshot = disk.snapshot
    BY <1>0, <1>1 DEF User, Save, SaveThroughHandle, RemoveFile, Touch, Disk
  <2>2. QED
    BY <2>1, QuietStep
<1>2. CASE Crash
  BY <1>2, EndOfProcess DEF Crash, history
<1>3. CASE PowerLoss
  BY <1>3, EndOfProcess DEF PowerLoss, history
<1>4. CASE DamageSnapshot
  <2>1. /\ snapshot'.kind \in {"torn", "lost"} /\ job.pc = "idle"
        /\ disk'.snapshot = snapshot' /\ disk'.saved = disk.saved
        /\ UNCHANGED <<saved, daemon, job, confirmed>>
    BY <1>0, <1>4 DEF DamageSnapshot, Idle, NoSnapshot, history, Snapshot, Disk
  <2>2. QED
    BY <2>1 DEF IInv, Bounded, CommitOrder, InitFirst, MemoryFollows, Reserved, Committed,
                Synced
<1>5. QED
  BY <1>1, <1>2, <1>3, <1>4 DEF Environment
-----------------------------------------------------------------------------
\* The invariant holds in every state.
LEMMA CommitInvariant == Spec => []IInv
<1>1. ASSUME IInv, TypeOK', [Next]_vars PROVE IInv'
  <2>1. CASE UNCHANGED vars
    BY <1>1, <2>1, QuietStep DEF vars, files, history, bounds
  <2>2. QED
    BY <1>1, <2>1, BeginCommits, WorkCommits, OutsideCommits DEF Next
<1>2. QED
  BY <1>1, InitCommits, TypeCorrect, PTL DEF Spec

\* What was acknowledged without a durability warning survives power loss, and the
\* high-water mark covers it (reserve_revision, commit_with_overrides).
THEOREM ConfirmedCommitsAreDurable == Spec => []ConfirmedIsDurable
<1>1. IInv => ConfirmedIsDurable
  BY Numbers DEF IInv, Bounded, ConfirmedIsDurable
<1>2. QED
  BY <1>1, CommitInvariant, PTL

\* Between jobs the daemon works on what a restart would load (finish_commit).
THEOREM DaemonMemoryIsSnapshot == Spec => []MemoryIsSnapshot
<1>1. IInv => MemoryIsSnapshot
  BY DEF IInv, MemoryFollows, MemoryIsSnapshot, Idle, Committed, Reserved
<1>2. QED
  BY <1>1, CommitInvariant, PTL

\* No revision is ever confirmed for two configurations, so that a client's
\* expected_revision never accepts a stale read (reserve_revision, recovery_revision).
THEOREM RevisionsNameConfigs == Spec => []RevisionNamesConfig
<1>1. Init => RevisionNamesConfig
  BY DEF Init, RevisionNamesConfig
<1>2. ASSUME IInv, RevisionNamesConfig, [Next]_vars PROVE RevisionNamesConfig'
  <2>1. CASE confirmed' = confirmed
    BY <1>2, <2>1 DEF RevisionNamesConfig
  <2>2. CASE Reply
    <3>1. confirmed' = confirmed \cup (IF job.warned THEN {} ELSE {<<job.rev, job.rules>>})
          /\ job.pc = "reply"
      BY <2>2 DEF Reply, At
    <3>2. \A c \in confirmed : c[1] # job.rev
      BY <1>2, <3>1, Numbers DEF IInv, Bounded, InitFirst
    <3>3. QED
      BY <1>2, <3>1, <3>2 DEF RevisionNamesConfig
  <2>3. \/ confirmed' = confirmed
        \/ Reply
    BY <1>2 DEF Next, Begin, Work, User, Environment, StartDaemon, StopDaemon, DaemonEdit,
       DaemonControl, DaemonReload, DaemonValidate, CliEdit, CliControl, CliReload, Recover,
       Adopt, ResolveToken, Prepare, Check, Backup, Reserve, WriteSnapshot, SyncSnapshot,
       Displace, Compare, Publish, SyncCandidate, Recheck, Restore, ClearIntent,
       FailBeforeCommit, FailMirror, Save, SaveThroughHandle, RemoveFile, Touch, Crash,
       PowerLoss, DamageSnapshot, history, vars
  <2>4. QED
    BY <2>1, <2>2, <2>3
<1>3. QED
  BY <1>1, <1>2, CommitInvariant, PTL DEF Spec
-----------------------------------------------------------------------------
(***************************************************************************)
(* Decisions hold.  For every rule that somebody started, stopped or       *)
(* deleted, either the snapshot records the intent, which overrules        *)
(* whatever text is loaded, or each text that may come back as config.toml *)
(* agrees with the decision; the record may go only when they do.          *)
(***************************************************************************)
Fits(state, decision) == decision = "none" \/ state = "absent" \/ state = decision
Complies(text) == Parses(text) => \A r \in Rules : Fits(text.rules[r], decided[r])

\* What config.toml holds, or may hold after a failed mirror or a power loss.
Texts == {candidate, displaced, disk.candidate}

\* A readable snapshot agrees with the decisions, and its intent with its rules.
Held(S) ==
  S.kind = "good" => \A r \in Rules : /\ Fits(S.rules[r], decided[r])
                                      /\ S.intent[r] \in {"none", S.rules[r]}

\* Recorded intent agrees with the decisions; where there is none the texts do.
Protected(S) ==
  S.kind # "lost" => \A r \in Rules :
    IF S.intent[r] # "none" THEN Fits(S.intent[r], decided[r])
    ELSE \A t \in Texts : Parses(t) => Fits(t.rules[r], decided[r])

Undecided(S) == S.kind = "none" => \A r \in Rules : decided[r] = "none"

\* What a job proposes before it commits: a control leaves the other rules alone.
Before == {"token", "prepare", "check", "reserve", "write"}
Proposed ==
  /\ job.pc \in Before /\ job.kind = "edit" => snapshot.kind = "good"
  /\ job.pc \in Before /\ job.kind = "control" /\ snapshot.kind = "good" =>
       \A r \in Rules \ job.selected : job.rules[r] = snapshot.rules[r]
  /\ job.pc \in {"reserve", "write"} /\ job.kind = "control" => snapshot.kind = "good"
  /\ job.pc \in Before /\ job.kind = "reload" =>
       snapshot.kind # "lost" /\ \A r \in Rules : Fits(job.rules[r], decided[r])

\* The intent a job is going to write: it loses no record of a decision.
ToWrite ==
  job.pc \in {"backup", "reserve", "write"} =>
    /\ \A r \in Rules : job.intent[r] \in {"none", job.rules[r]}
    /\ snapshot.kind # "lost" => \A r \in Rules :
         job.intent[r] = "none" => snapshot.intent[r] = "none" \/ decided[r] = "none"
    /\ job.kind = "init" => snapshot.kind = "none"
    /\ snapshot.kind = "lost" => job.kind = "recover"

\* The decision that a job makes is in the intent it writes.
Recording ==
  job.pc \in {"backup", "reserve", "write", "sync"} =>
    /\ job.kind = "control" => \A r \in job.selected \cap Rules : job.intent[r] = job.rules[r]
    /\ job.kind = "recover" => \A r \in Rules :
         job.rules[r] # "absent" => job.intent[r] = job.rules[r]
    /\ job.pc = "sync" => snapshot.intent = job.intent

\* What an offline command wants after the initialization.
Goals ==
  /\ job.kind = "init" => job.goal \in {"daemon", "edit", "control", "reload"}
  /\ job.kind = "init" /\ job.goal = "control" =>
       \A r \in Rules \ job.selected : job.want[r] = job.rules[r]
  /\ job.kind = "init" /\ job.goal = "reload" => \A r \in Rules : Fits(job.want[r], decided[r])

KindOfStep ==
  /\ job.pc = "token" => job.kind \in {"edit", "reload"}
  /\ job.pc \in {"prepare", "check"} => job.kind \in {"edit", "control"}
  /\ job.pc = "backup" => job.kind = "recover"
  /\ job.pc \in {"reserve", "write"} => job.kind # "none"

\* Intent is cleared only when the text in place and the one on the disk reflect it.
Mirrored ==
  /\ job.pc = "syncdir" => Complies(candidate)
  /\ job.pc = "clear" \/ (job.pc = "recheck" /\ ~job.unsynced) =>
       Complies(candidate) /\ Complies(disk.candidate)
  /\ job.pc = "clear" => displaced.kind = "missing"

FilesDecided == \A S \in {snapshot, disk.snapshot} : Held(S) /\ Protected(S) /\ Undecided(S)
JobDecided == Proposed /\ ToWrite /\ Recording /\ Goals /\ KindOfStep /\ Mirrored
DInv == FilesDecided /\ JobDecided
-----------------------------------------------------------------------------
\* A decision can only be dropped by these steps.
Relaxed == \A r \in Rules : decided'[r] \in {decided[r], "none"}

\* Files that are kept, or replaced by one of two, keep what they record.
LEMMA RecordsStay ==
  ASSUME DInv, Relaxed,
         \A t \in Texts' : t \in Texts \/ ~Parses(t) \/ \A r \in Rules : Fits(t.rules[r], decided'[r])
  PROVE  \A S \in {snapshot, disk.snapshot} : Held(S)' /\ Protected(S)' /\ Undecided(S)'
<1> SUFFICES ASSUME NEW S \in {snapshot, disk.snapshot}
             PROVE  Held(S)' /\ Protected(S)' /\ Undecided(S)'
  OBVIOUS
<1>1. Held(S) /\ Protected(S) /\ Undecided(S)
  BY DEF DInv, FilesDecided
<1>2. Held(S)'
  BY <1>1 DEF Held, Fits, Relaxed
<1>3. Undecided(S)'
  BY <1>1 DEF Undecided, Relaxed
<1>4. ASSUME NEW r \in Rules, S.kind # "lost"
      PROVE  IF S.intent[r] # "none" THEN Fits(S.intent[r], decided'[r])
             ELSE \A t \in Texts' : Parses(t) => Fits(t.rules[r], decided'[r])
  BY <1>1, <1>4 DEF Protected, Fits, Relaxed
<1>5. QED
  BY <1>2, <1>3, <1>4 DEF Protected

LEMMA FilesStay ==
  ASSUME DInv, Relaxed,
         snapshot' \in {snapshot, disk.snapshot}, disk'.snapshot \in {snapshot, disk.snapshot},
         \A t \in Texts' : t \in Texts \/ ~Parses(t) \/ \A r \in Rules : Fits(t.rules[r], decided'[r])
  PROVE  FilesDecided'
BY RecordsStay DEF FilesDecided

\* No job, nothing to keep.
LEMMA EndedDecided == ASSUME EndJob PROVE JobDecided'
<1>1. job'.pc = "idle" /\ job'.kind = "none"
  BY DEF EndJob, NoJob
<1>2. QED
  BY <1>1 DEF JobDecided, Proposed, Before, ToWrite, Recording, Goals, KindOfStep, Mirrored

\* After the directory sync only the mirror and the goal of the job matter.
LEMMA LateDecided ==
  ASSUME DInv, Relaxed, job'.kind = job.kind, job'.goal = job.goal, job'.want = job.want,
         job'.rules = job.rules, job'.selected = job.selected,
         job'.pc \in {"displace", "compare", "publish", "syncdir", "recheck", "restore",
                      "clear", "reply"},
         Mirrored'
  PROVE  JobDecided'
<1>1. Goals'
  BY DEF DInv, JobDecided, Goals, Relaxed, Fits
<1>2. QED
  BY <1>1 DEF JobDecided, Proposed, Before, ToWrite, Recording, KindOfStep

\* A job that only moves on before its commit.
LEMMA EarlyDecided ==
  ASSUME DInv, decided' = decided, snapshot' = snapshot,
         job'.kind = job.kind, job'.goal = job.goal, job'.want = job.want,
         job'.rules = job.rules, job'.selected = job.selected, job'.intent = job.intent,
         \/ job.pc = "prepare" /\ job'.pc = "check"
         \/ job.pc = "backup" /\ job'.pc = "reserve"
         \/ job.pc = "reserve" /\ job'.pc = "write"
  PROVE  JobDecided'
<1>1. Goals'
  BY DEF DInv, JobDecided, Goals
<1>2. Proposed'
  BY DEF DInv, JobDecided, Proposed, Before, KindOfStep
<1>3. ToWrite' /\ Recording'
  BY DEF DInv, JobDecided, ToWrite, Recording
<1>4. KindOfStep' /\ Mirrored'
  BY DEF DInv, JobDecided, KindOfStep, Mirrored
<1>5. QED
  BY <1>1, <1>2, <1>3, <1>4 DEF JobDecided
-----------------------------------------------------------------------------
LEMMA InitDecided == Init => DInv
<1> SUFFICES ASSUME Init PROVE DInv
  OBVIOUS
<1>1. /\ snapshot = NoSnapshot /\ disk.snapshot = NoSnapshot /\ job = NoJob
      /\ \A r \in Rules : decided[r] = "none"
  BY DEF Init
<1>2. FilesDecided
  BY <1>1 DEF FilesDecided, Held, Protected, Undecided, NoSnapshot, Fits, NoIntent
<1>3. JobDecided
  BY <1>1 DEF NoJob, JobDecided, Proposed, Before, ToWrite, Recording, Goals, KindOfStep,
              Mirrored
<1>4. QED
  BY <1>2, <1>3 DEF DInv

\* Where the intent is readable, the rules that a reload reads agree with the decisions.
LEMMA AppliedFits ==
  ASSUME DInv, IInv, snapshot.kind # "lost", Parses(candidate)
  PROVE  \A r \in Rules : Fits(Apply(snapshot.intent, candidate.rules)[r], decided[r])
<1>1. Protected(snapshot)
  BY DEF DInv, FilesDecided
<1>2. SUFFICES ASSUME NEW r \in Rules
               PROVE  Fits(Apply(snapshot.intent, candidate.rules)[r], decided[r])
  OBVIOUS
<1>3. Apply(snapshot.intent, candidate.rules)[r] =
        IF snapshot.intent[r] = "none" \/ candidate.rules[r] = "absent" THEN candidate.rules[r]
                                                                        ELSE snapshot.intent[r]
  BY DEF Apply
<1>4. CASE snapshot.intent[r] = "none"
  BY <1>1, <1>3, <1>4 DEF Protected, Texts
<1>5. CASE snapshot.intent[r] # "none"
  <2>1. Fits(snapshot.intent[r], decided[r])
    BY <1>1, <1>5 DEF Protected
  <2>2. QED
    BY <1>3, <1>5, <2>1 DEF Fits
<1>6. QED
  BY <1>4, <1>5

\* An offline command begins with an initialization.
LEMMA OfflineDecided ==
  ASSUME DInv, IInv, UNCHANGED <<files, decided>>, Loadable,
         job'.kind = "init", job'.goal \in {"daemon", "edit", "control", "reload"},
         job'.pc = (IF snapshot.kind = "none" THEN "reserve" ELSE "adopt"),
         job'.intent = NoIntent,
         job'.goal = "control" => \A r \in Rules \ job'.selected : job'.want[r] = job'.rules[r],
         job'.goal = "reload" => \A r \in Rules : Fits(job'.want[r], decided[r])
  PROVE  DInv'
<1>1. FilesDecided'
  BY DEF DInv, FilesDecided, Held, Protected, Undecided, Texts, files
<1>2. Goals' /\ Proposed'
  BY DEF Goals, Proposed, Before
<1>3. snapshot.kind = "none" => \A r \in Rules : decided[r] = "none"
  BY DEF DInv, FilesDecided, Undecided
<1>4. ToWrite'
  BY <1>3 DEF ToWrite, NoIntent, files
<1>5. Recording' /\ KindOfStep' /\ Mirrored'
  BY DEF Recording, KindOfStep, Mirrored
<1>6. QED
  BY <1>1, <1>2, <1>4, <1>5 DEF DInv, JobDecided

\* A mutation begins with the files as they are.
LEMMA MutationJob ==
  ASSUME snapshot' = snapshot, decided' = decided, job'.kind \in {"edit", "control", "reload"},
         \/ job'.pc = "token" /\ job'.kind \in {"edit", "reload"}
         \/ job'.pc = "prepare" /\ job'.kind \in {"edit", "control"},
         job'.kind = "edit" => snapshot.kind = "good",
         job'.kind = "control" /\ snapshot.kind = "good" =>
           \A r \in Rules \ job'.selected : job'.rules[r] = snapshot.rules[r],
         job'.kind = "reload" =>
           snapshot.kind # "lost" /\ \A r \in Rules : Fits(job'.rules[r], decided[r])
  PROVE  JobDecided'
<1>1. Proposed'
  BY DEF Proposed
<1>2. ToWrite' /\ Recording' /\ Goals' /\ KindOfStep' /\ Mirrored'
  BY DEF ToWrite, Recording, Goals, KindOfStep, Mirrored
<1>3. QED
  BY <1>1, <1>2 DEF JobDecided

LEMMA MutationDecided ==
  ASSUME DInv, UNCHANGED <<files, decided>>, job'.kind \in {"edit", "control", "reload"},
         \/ job'.pc = "token" /\ job'.kind \in {"edit", "reload"}
         \/ job'.pc = "prepare" /\ job'.kind \in {"edit", "control"},
         job'.kind = "edit" => snapshot.kind = "good",
         job'.kind = "control" /\ snapshot.kind = "good" =>
           \A r \in Rules \ job'.selected : job'.rules[r] = snapshot.rules[r],
         job'.kind = "reload" =>
           snapshot.kind # "lost" /\ \A r \in Rules : Fits(job'.rules[r], decided[r])
  PROVE  DInv'
<1>1. FilesDecided'
  BY DEF DInv, FilesDecided, Held, Protected, Undecided, Texts, files
<1>2. QED
  BY <1>1, MutationJob DEF DInv, files

\* Steps of the files and of decisions alone.
LEMMA IdleDecided ==
  ASSUME DInv, UNCHANGED <<files, decided, job>>
  PROVE  DInv'
BY DEF DInv, FilesDecided, Held, Protected, Undecided, Texts, files, JobDecided, Proposed,
       ToWrite, Recording, Goals, KindOfStep, Mirrored, Complies

\* What a recovery writes follows the readable intent and stops what is left.
LEMMA RecoverDecided == ASSUME DInv, IInv, Recover PROVE DInv'
<1>1. PICK discard \in BOOLEAN :
        LET intent  == IF IntentReadable THEN snapshot.intent ELSE NoIntent
            restored == Apply(intent, candidate.rules)
            rules   == [r \in Rules |-> IF restored[r] = "absent" THEN "absent" ELSE "stopped"]
        IN  job' = [NoJob EXCEPT !.kind = "recover", !.pc = "backup",
                                 !.rev = RecoveryRevision, !.rules = rules,
                                 !.intent = ProtectAll(intent, rules),
                                 !.expect = candidate]
  BY DEF Recover
<1> DEFINE intent  == IF IntentReadable THEN snapshot.intent ELSE NoIntent
           restored == Apply(intent, candidate.rules)
           rules   == [r \in Rules |-> IF restored[r] = "absent" THEN "absent" ELSE "stopped"]
<1>2. /\ job'.kind = "recover" /\ job'.pc = "backup" /\ job'.rules = rules
      /\ job'.intent = ProtectAll(intent, rules)
  BY <1>1 DEF NoJob
<1>3. UNCHANGED <<files, decided>>
  BY DEF Recover
<1>4. \A r \in Rules : rules[r] \in {"absent", "stopped"}
  OBVIOUS
<1>5. snapshot.kind # "lost" => intent = snapshot.intent
  BY DEF IntentReadable
<1> HIDE DEF intent, restored, rules
<1>6. \A r \in Rules : /\ job'.intent[r] = IF rules[r] = "absent" /\ intent[r] = "none"
                                             THEN "none" ELSE rules[r]
  BY <1>2 DEF ProtectAll
<1>7. FilesDecided'
  BY <1>3 DEF DInv, FilesDecided, Held, Protected, Undecided, Texts, files
<1>8. ToWrite'
  BY <1>2, <1>3, <1>4, <1>5, <1>6 DEF ToWrite, files
<1>9. Recording'
  BY <1>2, <1>6 DEF Recording
<1>10. Proposed' /\ Goals' /\ KindOfStep' /\ Mirrored'
  BY <1>2 DEF Proposed, Before, Goals, KindOfStep, Mirrored
<1>11. QED
  BY <1>7, <1>8, <1>9, <1>10 DEF DInv, JobDecided

LEMMA BeginDecided == ASSUME DInv, IInv, Begin PROVE DInv'
<1>1. Idle => job.pc \notin Committed
  BY DEF Idle, Committed, Reserved
<1>2. ASSUME NEW before, NEW rules, NEW selected, NEW kind \in {"edit", "control", "reload"}
      PROVE  LET m == Mutation(kind, before, rules, selected)
             IN  /\ m.kind = kind /\ m.pc = "prepare" /\ m.rules = rules
                 /\ m.selected = selected
  BY DEF Mutation, NoJob
<1>3. ASSUME NEW before, NEW rules, NEW selected, NEW kind \in {"edit", "control", "reload"},
             Loadable, UNCHANGED <<files, decided>>,
             job' = Offline(Mutation(kind, before, rules, selected), before),
             kind = "control" => \A r \in Rules \ selected : rules[r] = before.rules[r],
             kind = "reload" => \A r \in Rules : Fits(rules[r], decided[r])
      PROVE  DInv'
  <2>1. /\ job'.kind = "init" /\ job'.goal = kind /\ job'.want = rules
        /\ job'.selected = selected /\ job'.rules = before.rules /\ job'.intent = NoIntent
        /\ job'.pc = (IF snapshot.kind = "none" THEN "reserve" ELSE "adopt")
    BY <1>2, <1>3 DEF Offline, NoJob
  <2>2. QED
    BY <1>3, <2>1, OfflineDecided
<1>4. CASE StartDaemon
  <2>1. /\ job'.kind = "init" /\ job'.goal = "daemon" /\ job'.intent = NoIntent
        /\ job'.pc = (IF snapshot.kind = "none" THEN "reserve" ELSE "adopt")
    BY <1>4 DEF StartDaemon, Offline, NoJob
  <2>2. UNCHANGED <<files, decided>> /\ Loadable
    BY <1>4 DEF StartDaemon
  <2>3. QED
    BY <2>1, <2>2, OfflineDecided
<1>5. CASE StopDaemon \/ DaemonValidate
  BY <1>5, IdleDecided DEF StopDaemon, DaemonValidate, history
<1>6. CASE DaemonEdit
  <2>1. /\ job'.kind = "edit" /\ job'.pc = "token" /\ snapshot.kind = "good"
        /\ UNCHANGED <<files, decided>>
    BY <1>6 DEF DaemonEdit, Mutation, NoJob
  <2>2. QED
    BY <2>1, MutationDecided
<1>7. CASE DaemonControl
  <2>1. PICK selected, state :
          job' = Mutation("control", daemon, Controlled(daemon.rules, selected, state), selected)
    BY <1>7 DEF DaemonControl
  <2>2. /\ job'.kind = "control" /\ job'.pc = "prepare" /\ job'.selected = selected
        /\ job'.rules = Controlled(daemon.rules, selected, state)
    BY <1>2, <2>1
  <2>3. snapshot.kind = "good" => daemon.rules = snapshot.rules
    BY <1>1, <1>7 DEF DaemonControl, IInv, MemoryFollows
  <2>4. \A r \in Rules \ selected : job'.rules[r] = daemon.rules[r]
    BY <2>2 DEF Controlled
  <2>5. UNCHANGED <<files, decided>>
    BY <1>7 DEF DaemonControl
  <2>6. QED
    BY <2>2, <2>3, <2>4, <2>5, MutationDecided
<1>8. CASE DaemonReload
  <2>1. /\ job'.kind = "reload" /\ job'.pc = "token"
        /\ job'.rules = Apply(snapshot.intent, candidate.rules)
    BY <1>8 DEF DaemonReload, Mutation, NoJob
  <2>2. /\ UNCHANGED <<files, decided>> /\ Parses(candidate) /\ snapshot.kind # "lost"
    BY <1>8 DEF DaemonReload, IntentReadable
  <2>3. QED
    BY <2>1, <2>2, AppliedFits, MutationDecided
<1>9. CASE CliEdit
  <2>1. PICK rules : job' = Offline(Mutation("edit", Loaded, rules, {}), Loaded)
    BY <1>9 DEF CliEdit
  <2>2. QED
    BY <1>3, <1>9, <2>1 DEF CliEdit
<1>10. CASE CliControl
  <2>1. PICK selected, state :
          job' = Offline(Mutation("control", Loaded, Controlled(Loaded.rules, selected, state),
                                  selected), Loaded)
    BY <1>10 DEF CliControl
  <2>2. \A r \in Rules \ selected : Controlled(Loaded.rules, selected, state)[r] = Loaded.rules[r]
    BY DEF Controlled
  <2>3. QED
    BY <1>3, <1>10, <2>1, <2>2 DEF CliControl
<1>11. CASE CliReload
  <2>1. snapshot.kind # "lost" /\ Parses(candidate)
    BY <1>11 DEF CliReload, Loadable
  <2>2. job' = Offline(Mutation("reload", Loaded, Apply(snapshot.intent, candidate.rules), {}),
                       Loaded)
    BY <1>11 DEF CliReload
  <2>3. QED
    BY <1>3, <1>11, <2>1, <2>2, AppliedFits DEF CliReload
<1>12. CASE Recover
  BY <1>12, RecoverDecided
<1>13. QED
  BY <1>4, <1>5, <1>6, <1>7, <1>8, <1>9, <1>10, <1>11, <1>12 DEF Begin
-----------------------------------------------------------------------------
\* What a commit writes agrees with the decisions and keeps their record.
LEMMA WriteDecided == ASSUME DInv, IInv, WriteSnapshot PROVE DInv'
<1>1. /\ job.pc = "write" /\ job'.pc = "sync" /\ disk' = disk
      /\ snapshot'.kind = "good" /\ snapshot'.rules = job.rules /\ snapshot'.intent = job.intent
  BY DEF WriteSnapshot, At, Goto, IInv, TypeOK, Job
<1>2. /\ job'.kind = job.kind /\ job'.goal = job.goal /\ job'.want = job.want
      /\ job'.rules = job.rules /\ job'.selected = job.selected /\ job'.intent = job.intent
  BY DEF WriteSnapshot, Goto
<1>3. \A r \in Rules : decided'[r] = IF DecisionAfter(r) = decided[r] THEN decided[r] ELSE "none"
  BY DEF WriteSnapshot
<1>4. Relaxed /\ Texts' = Texts
  BY <1>1, <1>3 DEF Relaxed, Texts, WriteSnapshot
<1>5. job.kind \in {"init", "edit", "control", "reload", "recover"}
  BY <1>1 DEF DInv, JobDecided, KindOfStep, IInv, TypeOK, Job, JobKind
<1>6. /\ Held(snapshot) /\ Protected(snapshot) /\ Undecided(snapshot)
      /\ ToWrite /\ Recording /\ Proposed
  BY DEF DInv, FilesDecided, JobDecided
<1>7. ASSUME NEW r \in Rules PROVE Fits(job.rules[r], decided'[r])
  <2>1. CASE job.kind = "control" /\ r \in job.selected
    BY <1>3, <2>1 DEF DecisionAfter, Fits
  <2>2. CASE job.kind = "control" /\ r \notin job.selected
    BY <1>1, <1>4, <1>6, <2>2 DEF Proposed, Before, Held, Relaxed, Fits
  <2>3. CASE job.kind = "edit"
    <3>1. snapshot.kind = "good"
      BY <1>1, <1>6, <2>3 DEF Proposed, Before
    <3>2. CASE job.rules[r] = snapshot.rules[r]
      BY <1>4, <1>6, <3>1, <3>2 DEF Held, Relaxed, Fits
    <3>3. CASE job.rules[r] # snapshot.rules[r]
      BY <1>3, <2>3, <3>3 DEF DecisionAfter, Fits
    <3>4. QED
      BY <3>2, <3>3
  <2>4. CASE job.kind = "reload"
    BY <1>1, <1>4, <1>6, <2>4 DEF Proposed, Before, Relaxed, Fits
  <2>5. CASE job.kind = "recover"
    <3>1. CASE job.rules[r] # "absent"
      BY <1>3, <2>5, <3>1 DEF DecisionAfter, Fits
    <3>2. QED
      BY <3>1 DEF Fits
  <2>6. CASE job.kind = "init"
    BY <1>1, <1>4, <1>6, <2>6 DEF ToWrite, Undecided, Relaxed, Fits
  <2>7. QED
    BY <1>5, <2>1, <2>2, <2>3, <2>4, <2>5, <2>6
<1>8. \A r \in Rules : job.intent[r] \in {"none", job.rules[r]}
  BY <1>1, <1>6 DEF ToWrite
<1>9. Held(snapshot)'
  BY <1>1, <1>7, <1>8 DEF Held
<1>10. ASSUME NEW r \in Rules, job.intent[r] = "none", NEW t \in Texts, Parses(t)
       PROVE  Fits(t.rules[r], decided'[r])
  <2>1. CASE snapshot.kind # "lost"
    BY <1>1, <1>4, <1>6, <1>10, <2>1 DEF ToWrite, Protected, Relaxed, Fits
  <2>2. CASE snapshot.kind = "lost"
    <3>1. job.kind = "recover"
      BY <1>1, <1>6, <2>2 DEF ToWrite
    <3>2. job.rules[r] = "absent"
      <4>1. job.rules[r] # "none"
        BY DEF IInv, TypeOK, Job, RuleState
      <4>2. QED
        BY <1>1, <1>6, <1>10, <3>1, <4>1 DEF Recording
    <3>3. DecisionAfter(r) = "none"
      BY <2>2, <3>1, <3>2 DEF DecisionAfter, IntentReadable
    <3>4. QED
      BY <1>3, <3>3 DEF Fits
  <2>3. QED
    BY <2>1, <2>2
<1>11. Protected(snapshot)'
  BY <1>1, <1>4, <1>7, <1>8, <1>10 DEF Protected
<1>12. FilesDecided'
  <2>1. \A S \in {snapshot, disk.snapshot} : Held(S)' /\ Protected(S)' /\ Undecided(S)'
    BY <1>4, RecordsStay
  <2>2. Undecided(snapshot)'
    BY <1>1 DEF Undecided
  <2>3. QED
    BY <1>1, <1>9, <1>11, <2>1, <2>2 DEF FilesDecided
<1>13. Proposed' /\ ToWrite' /\ KindOfStep' /\ Mirrored'
  BY <1>1 DEF Proposed, Before, ToWrite, KindOfStep, Mirrored
<1>14. Recording'
  BY <1>1, <1>2, <1>6 DEF Recording
<1>15. Goals'
  BY <1>2, <1>4 DEF DInv, JobDecided, Goals, Relaxed, Fits
<1>16. QED
  BY <1>12, <1>13, <1>14, <1>15 DEF DInv, JobDecided

\* The decision counts from the directory sync on, and the snapshot records it.
LEMMA SyncDecided == ASSUME DInv, IInv, SyncSnapshot PROVE DInv'
<1>1. /\ job.pc = "sync" /\ job'.pc \in {"reply", "displace"} /\ snapshot' = snapshot
      /\ job'.kind = job.kind /\ job'.goal = job.goal /\ job'.want = job.want
      /\ job'.rules = job.rules /\ job'.selected = job.selected /\ Texts' = Texts
  BY DEF SyncSnapshot, At, Goto, SyncedState, Texts, IInv, TypeOK, Job, Disk
<1>2. Mirrored'
  BY <1>1 DEF Mirrored
<1>3. CASE UNCHANGED <<disk, decided>>
  <2>1. Relaxed
    BY <1>3 DEF Relaxed
  <2>2. FilesDecided'
    BY <1>1, <1>3, <2>1, FilesStay
  <2>3. JobDecided'
    BY <1>1, <1>2, <2>1, LateDecided
  <2>4. QED
    BY <2>2, <2>3 DEF DInv
<1>4. CASE disk' = SyncedState /\ decided' = [r \in Rules |-> DecisionAfter(r)]
  <2>1. disk'.snapshot = snapshot
    BY <1>4 DEF SyncedState, IInv, TypeOK, Disk
  <2>2. /\ Held(snapshot) /\ Protected(snapshot) /\ Recording
        /\ snapshot.kind = "good" /\ snapshot.rules = job.rules /\ snapshot.intent = job.intent
    BY <1>1 DEF DInv, FilesDecided, JobDecided, Recording, IInv, CommitOrder, Committed, Reserved
  <2>3. ASSUME NEW r \in Rules
        PROVE  /\ decided'[r] \in {decided[r], "none", job.rules[r]}
               /\ \/ decided'[r] \in {decided[r], "none"}
                  \/ job.kind = "control" /\ r \in job.selected
                  \/ job.kind = "recover" /\ job.rules[r] # "absent"
    <3>1. decided'[r] = DecisionAfter(r)
      BY <1>4
    <3>2. CASE job.kind = "control" /\ r \in job.selected
      BY <3>1, <3>2 DEF DecisionAfter
    <3>3. CASE job.kind = "edit" /\ job.rules[r] # snapshot.rules[r]
      BY <3>1, <3>3 DEF DecisionAfter
    <3>4. CASE job.kind = "recover" /\ job.rules[r] # "absent"
      BY <3>1, <3>4 DEF DecisionAfter
    <3>5. CASE /\ job.kind = "recover" /\ job.rules[r] = "absent"
               /\ decided[r] # "absent" \/ ~IntentReadable
      BY <3>1, <3>5 DEF DecisionAfter
    <3>6. QED
      BY <3>1, <3>2, <3>3, <3>4, <3>5 DEF DecisionAfter
  <2>4. Held(snapshot)'
    BY <1>1, <2>2, <2>3 DEF Held, Fits
  <2>5. ASSUME NEW r \in Rules, snapshot.intent[r] = "none"
        PROVE  decided'[r] \in {decided[r], "none"}
    <3>1. job.rules[r] # "none"
      BY DEF IInv, TypeOK, Job, RuleState
    <3>2. QED
      BY <1>1, <2>2, <2>3, <2>5, <3>1 DEF Recording
  <2>6. \A r \in Rules : snapshot.intent[r] \in {"none", snapshot.rules[r]}
    BY <2>2 DEF Held
  <2>7. Protected(snapshot)'
    BY <1>1, <2>2, <2>3, <2>5, <2>6 DEF Protected, Fits
  <2>8. FilesDecided'
    BY <1>1, <2>1, <2>2, <2>4, <2>7 DEF FilesDecided, Undecided
  <2>9. Goals'
    <3>1. job.kind = "init" => \A r \in Rules : decided'[r] = decided[r]
      BY <1>4 DEF DecisionAfter
    <3>2. QED
      BY <1>1, <3>1 DEF DInv, JobDecided, Goals
  <2>10. Proposed' /\ ToWrite' /\ Recording' /\ KindOfStep'
    BY <1>1 DEF Proposed, Before, ToWrite, Recording, KindOfStep
  <2>11. QED
    BY <1>2, <2>8, <2>9, <2>10 DEF DInv, JobDecided
<1>5. QED
  BY <1>3, <1>4 DEF SyncSnapshot

\* After the initialization the daemon is up, or the mutation begins on the new snapshot.
LEMMA AfterInitDecided ==
  ASSUME DInv, AfterInit, job.kind = "init", snapshot.kind = "good",
         job.rules = snapshot.rules, snapshot' = snapshot, decided' = decided
  PROVE  JobDecided'
<1>1. CASE job.goal = "daemon"
  BY <1>1, EndedDecided DEF AfterInit
<1>2. CASE job.goal # "daemon"
  <2>1. /\ job'.kind = job.goal /\ job'.rules = job.want /\ job'.selected = job.selected
        /\ job'.pc = IF job.goal = "reload" THEN "token" ELSE "prepare"
    BY <1>2 DEF AfterInit, Mutation, NoJob
  <2>2. Goals
    BY DEF DInv, JobDecided
  <2>3. QED
    BY <1>2, <2>1, <2>2, MutationJob DEF Goals
<1>3. QED
  BY <1>1, <1>2
-----------------------------------------------------------------------------
\* The steps up to the commit propose what agrees with the decisions.
LEMMA EarlyStepsDecided ==
  ASSUME DInv, IInv, Adopt \/ ResolveToken \/ Prepare \/ Check \/ Backup \/ Reserve
  PROVE  DInv'
<1>1. Texts' = Texts /\ snapshot' = snapshot /\ decided' = decided
      /\ disk'.snapshot \in {snapshot, disk.snapshot}
  BY DEF Adopt, ResolveToken, Prepare, Check, Backup, Reserve, ReserveRevision, SyncedState,
         Texts, files, history, IInv, TypeOK, Disk
<1>2. FilesDecided'
  BY <1>1, FilesStay DEF Relaxed
<1>3. CASE Adopt
  <2>1. job.kind = "init" /\ snapshot.kind = "good" /\ job.rules = snapshot.rules /\ AfterInit
    BY <1>3 DEF Adopt, At, IInv, InitFirst
  <2>2. QED
    BY <1>1, <1>2, <2>1, AfterInitDecided DEF DInv
<1>4. CASE ResolveToken
  <2>1. /\ job.pc = "token" /\ job'.pc = "reserve"
        /\ job'.intent = Rebase(snapshot.intent, job.rules)
        /\ job'.kind = job.kind /\ job'.goal = job.goal /\ job'.want = job.want
        /\ job'.rules = job.rules /\ job'.selected = job.selected
    BY <1>4 DEF ResolveToken, At, IInv, TypeOK, Job
  <2>2. job.kind \in {"edit", "reload"} /\ Proposed /\ snapshot.kind # "lost"
    BY <2>1 DEF DInv, JobDecided, KindOfStep, Proposed, Before
  <2>3. \A r \in Rules : job.rules[r] # "none"
    BY DEF IInv, TypeOK, Job, RuleState
  <2>4. \A r \in Rules :
          job'.intent[r] = IF snapshot.intent[r] = "none" THEN "none" ELSE job.rules[r]
    BY <2>1 DEF Rebase
  <2>5. ToWrite'
    BY <1>1, <2>1, <2>2, <2>3, <2>4 DEF ToWrite
  <2>6. Proposed'
    BY <1>1, <2>1, <2>2 DEF Proposed, Before
  <2>7. Recording' /\ Goals' /\ KindOfStep' /\ Mirrored'
    BY <2>1, <2>2 DEF Recording, Goals, KindOfStep, Mirrored
  <2>8. QED
    BY <1>2, <2>5, <2>6, <2>7 DEF DInv, JobDecided
<1>5. CASE Prepare
  <2>1. /\ job.pc = "prepare" /\ job'.pc = "check" /\ job'.intent = job.intent
        /\ job'.kind = job.kind /\ job'.goal = job.goal /\ job'.want = job.want
        /\ job'.rules = job.rules /\ job'.selected = job.selected
    BY <1>5 DEF Prepare, At, IInv, TypeOK, Job
  <2>2. QED
    BY <1>1, <1>2, <2>1, EarlyDecided DEF DInv
<1>6. CASE Check
  <2>1. CASE EndJob
    BY <1>2, <2>1, EndedDecided DEF DInv
  <2>2. CASE /\ job.kind = "edit" /\ ~Pending
             /\ job' = [job EXCEPT !.pc = "reserve", !.intent = Rebase(snapshot.intent, job.rules)]
    <3>1. /\ job.pc = "check" /\ job'.pc = "reserve"
          /\ job'.intent = Rebase(snapshot.intent, job.rules)
          /\ job'.kind = job.kind /\ job'.goal = job.goal /\ job'.want = job.want
          /\ job'.rules = job.rules /\ job'.selected = job.selected
      BY <1>6, <2>2 DEF Check, At, IInv, TypeOK, Job
    <3>2. job.kind = "edit" /\ Proposed /\ snapshot.kind = "good"
      BY <2>2, <3>1 DEF DInv, JobDecided, Proposed, Before
    <3>3. \A r \in Rules : job.rules[r] # "none"
      BY DEF IInv, TypeOK, Job, RuleState
    <3>4. \A r \in Rules :
            job'.intent[r] = IF snapshot.intent[r] = "none" THEN "none" ELSE job.rules[r]
      BY <3>1 DEF Rebase
    <3>5. ToWrite'
      BY <1>1, <3>1, <3>2, <3>3, <3>4 DEF ToWrite
    <3>6. Proposed' /\ Recording' /\ Goals' /\ KindOfStep' /\ Mirrored'
      BY <1>1, <3>1, <3>2 DEF Proposed, Recording, Goals, KindOfStep, Mirrored
    <3>7. QED
      BY <1>2, <3>5, <3>6 DEF DInv, JobDecided
  <2>3. CASE /\ job.kind = "control" /\ snapshot.kind = "good"
             /\ job' = [job EXCEPT !.pc = "reserve", !.intent = ControlIntent,
                              !.expect = IF Pending THEN Blank("keep") ELSE job.expect]
    <3>1. /\ job.pc = "check" /\ job'.pc = "reserve" /\ job'.intent = ControlIntent
          /\ job'.kind = job.kind /\ job'.goal = job.goal /\ job'.want = job.want
          /\ job'.rules = job.rules /\ job'.selected = job.selected
      BY <1>6, <2>3 DEF Check, At, IInv, TypeOK, Job
    <3>2. Proposed /\ Held(snapshot)
      BY DEF DInv, JobDecided, FilesDecided
    <3>3. \A r \in Rules : job.rules[r] # "none"
      BY DEF IInv, TypeOK, Job, RuleState
    <3>4. \A r \in Rules :
            job'.intent[r] = IF r \in job.selected THEN job.rules[r] ELSE snapshot.intent[r]
      BY <3>1 DEF ControlIntent
    <3>5. \A r \in Rules \ job.selected : job.rules[r] = snapshot.rules[r]
      BY <2>3, <3>1, <3>2 DEF Proposed, Before
    <3>6. \A r \in Rules : job'.intent[r] \in {"none", job'.rules[r]}
      BY <2>3, <3>1, <3>2, <3>4, <3>5 DEF Held
    <3>7. ToWrite'
      BY <1>1, <2>3, <3>1, <3>3, <3>4, <3>6 DEF ToWrite
    <3>8. Recording'
      BY <2>3, <3>1, <3>4 DEF Recording
    <3>9. Proposed' /\ Goals' /\ KindOfStep' /\ Mirrored'
      BY <1>1, <2>3, <3>1, <3>5 DEF Proposed, Goals, KindOfStep, Mirrored
    <3>10. QED
      BY <1>2, <3>7, <3>8, <3>9 DEF DInv, JobDecided
  <2>4. QED
    BY <1>6, <2>1, <2>2, <2>3 DEF Check
<1>7. CASE Backup
  <2>1. /\ job.pc = "backup" /\ job'.pc = "reserve" /\ job'.intent = job.intent
        /\ job'.kind = job.kind /\ job'.goal = job.goal /\ job'.want = job.want
        /\ job'.rules = job.rules /\ job'.selected = job.selected
    BY <1>7 DEF Backup, At, Goto, IInv, TypeOK, Job
  <2>2. QED
    BY <1>1, <1>2, <2>1, EarlyDecided DEF DInv
<1>8. CASE Reserve
  <2>1. /\ job.pc = "reserve" /\ job'.pc = "write" /\ job'.intent = job.intent
        /\ job'.kind = job.kind /\ job'.goal = job.goal /\ job'.want = job.want
        /\ job'.rules = job.rules /\ job'.selected = job.selected
    BY <1>8 DEF Reserve, At, Goto, IInv, TypeOK, Job
  <2>2. QED
    BY <1>1, <1>2, <2>1, EarlyDecided DEF DInv
<1>9. QED
  BY <1>3, <1>4, <1>5, <1>6, <1>7, <1>8

\* The mirror puts into place what the snapshot holds, and moves the rest about.
LEMMA MirrorDecided ==
  ASSUME DInv, IInv,
         Displace \/ Compare \/ Publish \/ SyncCandidate \/ Recheck \/ Restore \/ FailMirror
  PROVE  DInv'
<1>1. /\ job.pc \in {"displace", "compare", "publish", "syncdir", "recheck", "restore"}
      /\ job'.pc \in {"displace", "compare", "publish", "syncdir", "recheck", "restore",
                      "clear", "reply"}
      /\ job'.kind = job.kind /\ job'.goal = job.goal /\ job'.want = job.want
      /\ job'.rules = job.rules /\ job'.selected = job.selected
  BY DEF Displace, Compare, Publish, SyncCandidate, Recheck, Restore, FailMirror, At, Goto,
         IInv, TypeOK, Job
<1>2. snapshot' = snapshot /\ decided' = decided /\ disk'.snapshot = disk.snapshot
  BY DEF Displace, Compare, Publish, SyncCandidate, Recheck, Restore, FailMirror, files,
         history, IInv, TypeOK, Disk
<1>3. \A r \in Rules : Fits(job.rules[r], decided[r])
  BY <1>1 DEF DInv, FilesDecided, Held, IInv, CommitOrder, Committed, Reserved
<1>4. ~Parses(Blank("missing")) /\ Blank("missing").kind = "missing"
      /\ Plain(job.rev, job.rules).rules = job.rules
  BY DEF Parses, Blank, Plain
<1>5. \A t \in Texts' : t \in Texts \cup {Blank("missing"), Plain(job.rev, job.rules)}
  BY DEF Displace, Compare, Publish, SyncCandidate, Recheck, Restore, FailMirror, files,
         history, Texts, IInv, TypeOK, Disk
<1>6. FilesDecided'
  BY <1>2, <1>3, <1>4, <1>5, FilesStay DEF Relaxed
<1>7. Mirrored'
  <2>1. CASE Displace \/ Compare \/ Restore \/ FailMirror
    <3>1. job'.pc \notin {"syncdir", "recheck", "clear"}
      BY <2>1 DEF Displace, Compare, Restore, FailMirror, Goto, IInv, TypeOK, Job
    <3>2. QED
      BY <3>1 DEF Mirrored
  <2>2. CASE Publish
    <3>1. job'.pc \in {"restore", "reply"}
          \/ (job'.pc = "syncdir" /\ candidate' = Plain(job.rev, job.rules))
      BY <2>2 DEF Publish, Goto, IInv, TypeOK, Job
    <3>2. QED
      BY <1>2, <1>3, <1>4, <3>1 DEF Mirrored, Complies
  <2>3. CASE SyncCandidate
    <3>1. job.pc = "syncdir" /\ job'.pc = "recheck" /\ candidate' = candidate
      BY <2>3 DEF SyncCandidate, At, Goto, IInv, TypeOK, Job
    <3>2. disk'.candidate = candidate \/ job'.unsynced
      BY <2>3 DEF SyncCandidate, IInv, TypeOK, Job, Disk
    <3>3. Complies(candidate)
      BY <3>1 DEF DInv, JobDecided, Mirrored
    <3>4. QED
      BY <1>2, <3>1, <3>2, <3>3 DEF Mirrored, Complies
  <2>4. CASE Recheck
    <3>1. job.pc = "recheck" /\ candidate' = candidate /\ disk' = disk
      BY <2>4 DEF Recheck, At
    <3>2. \/ job'.pc \in {"reply", "restore"}
          \/ job'.pc = "clear" /\ ~job.unsynced /\ displaced' = Blank("missing")
      BY <2>4 DEF Recheck, Goto, IInv, TypeOK, Job
    <3>3. ~job.unsynced => Complies(candidate) /\ Complies(disk.candidate)
      BY <3>1 DEF DInv, JobDecided, Mirrored
    <3>4. QED
      BY <1>2, <1>4, <3>1, <3>2, <3>3 DEF Mirrored, Complies
  <2>5. QED
    BY <2>1, <2>2, <2>3, <2>4
<1>8. JobDecided'
  BY <1>1, <1>2, <1>7, LateDecided DEF Relaxed
<1>9. QED
  BY <1>6, <1>8 DEF DInv

\* The record is cleared where every text agrees with the decisions.
LEMMA ClearDecided == ASSUME DInv, IInv, ClearIntent PROVE DInv'
<1>1. /\ job.pc = "clear" /\ job'.pc = "reply" /\ decided' = decided /\ Texts' = Texts
      /\ job'.kind = job.kind /\ job'.goal = job.goal /\ job'.want = job.want
      /\ job'.rules = job.rules /\ job'.selected = job.selected
  BY DEF ClearIntent, At, Goto, Texts, history, SyncedState, IInv, TypeOK, Job, Disk
<1> DEFINE Cleared == [snapshot EXCEPT !.intent = NoIntent]
<1>2. /\ snapshot' \in {snapshot, Cleared}
      /\ disk'.snapshot \in {disk.snapshot, Cleared}
  BY DEF ClearIntent, SyncedState, IInv, TypeOK, Disk
<1>3. /\ Cleared.kind = snapshot.kind /\ Cleared.rules = snapshot.rules
      /\ \A r \in Rules : Cleared.intent[r] = "none"
  BY DEF IInv, TypeOK, Snapshot, NoIntent
<1> HIDE DEF Cleared
<1>4. \A t \in Texts : Parses(t) => \A r \in Rules : Fits(t.rules[r], decided[r])
  BY <1>1 DEF DInv, JobDecided, Mirrored, Complies, Texts, Parses
<1>5. \A S : S = Cleared => Held(S)' /\ Protected(S)' /\ Undecided(S)'
  <2> SUFFICES ASSUME NEW S, S = Cleared PROVE Held(S)' /\ Protected(S)' /\ Undecided(S)'
    OBVIOUS
  <2>1. Held(snapshot) /\ snapshot.kind = "good"
    BY <1>1 DEF DInv, FilesDecided, IInv, CommitOrder, Committed, Reserved
  <2>2. Held(S)' /\ Undecided(S)'
    BY <1>1, <1>3, <2>1 DEF Held, Undecided
  <2>3. Protected(S)'
    BY <1>1, <1>3, <1>4 DEF Protected
  <2>4. QED
    BY <2>2, <2>3
<1>6. \A S \in {snapshot, disk.snapshot} : Held(S)' /\ Protected(S)' /\ Undecided(S)'
  BY <1>1, RecordsStay DEF Relaxed
<1>7. FilesDecided'
  BY <1>2, <1>5, <1>6 DEF FilesDecided
<1>8. JobDecided'
  <2>1. Mirrored'
    BY <1>1 DEF Mirrored
  <2>2. QED
    BY <1>1, <2>1, LateDecided DEF Relaxed
<1>9. QED
  BY <1>7, <1>8 DEF DInv

\* A job that ends leaves the files, or what a power loss brings back, as they were.
LEMMA EndingDecided ==
  ASSUME DInv, IInv, FailBeforeCommit \/ Crash \/ PowerLoss PROVE DInv'
<1>1. EndJob /\ decided' = decided
  BY DEF FailBeforeCommit, Crash, PowerLoss, ProcessEnds, history
<1>2. /\ snapshot' \in {snapshot, disk.snapshot} /\ disk'.snapshot \in {snapshot, disk.snapshot}
      /\ \A t \in Texts' : t \in Texts \cup {Blank("missing")}
  <2>1. CASE FailBeforeCommit
    BY <2>1 DEF FailBeforeCommit, Texts
  <2>2. CASE Crash
    BY <2>2 DEF Crash, ProcessEnds, Texts
  <2>3. CASE PowerLoss
    <3>1. /\ snapshot' \in {snapshot, disk.snapshot} /\ disk'.snapshot = snapshot'
          /\ candidate' \in {candidate, disk.candidate} /\ disk'.candidate = candidate'
          /\ displaced' = Blank("missing")
      BY <2>3 DEF PowerLoss, ProcessEnds
    <3>2. QED
      BY <3>1 DEF Texts
  <2>4. QED
    BY <2>1, <2>2, <2>3
<1>3. ~Parses(Blank("missing"))
  BY DEF Parses, Blank
<1>4. FilesDecided'
  BY <1>1, <1>2, <1>3, FilesStay DEF Relaxed
<1>5. QED
  BY <1>1, <1>4, EndedDecided DEF DInv

LEMMA ReplyDecided == ASSUME DInv, IInv, Reply PROVE DInv'
<1>1. /\ job.pc = "reply" /\ snapshot' = snapshot /\ disk' = disk /\ decided' = decided
      /\ Texts' = Texts
  BY DEF Reply, At, files, Texts
<1>2. FilesDecided'
  BY <1>1, FilesStay DEF Relaxed
<1>3. CASE job.kind = "init"
  <2>1. snapshot.kind = "good" /\ job.rules = snapshot.rules
    BY <1>1 DEF IInv, CommitOrder, Committed, Reserved
  <2>2. QED
    BY <1>1, <1>2, <1>3, <2>1, AfterInitDecided DEF DInv, Reply
<1>4. CASE job.kind # "init"
  BY <1>2, <1>4, EndedDecided DEF DInv, Reply
<1>5. QED
  BY <1>3, <1>4

\* A user who saves a readable text gives up the decisions; any other text says nothing.
LEMMA UserDecided == ASSUME DInv, IInv, User PROVE DInv'
<1>1. snapshot' = snapshot /\ disk'.snapshot = disk.snapshot /\ job' = job
  BY DEF User, Save, SaveThroughHandle, RemoveFile, Touch, IInv, TypeOK, Disk
<1>2. \/ decided' = decided
      \/ \A r \in Rules : decided'[r] = "none"
  BY DEF User, Save, SaveThroughHandle, RemoveFile, DecidedAfterSave
<1>3. Relaxed
  BY <1>2 DEF Relaxed
<1> DEFINE Free(t) == ~Parses(t) \/ \A r \in Rules : decided'[r] = "none"
<1>4. /\ candidate' = candidate \/ Free(candidate')
      /\ displaced' = displaced \/ Free(displaced')
      /\ disk'.candidate = disk.candidate \/ Free(disk'.candidate)
  <2>1. CASE Save
    <3>1. PICK text : /\ candidate' = text /\ disk' = [disk EXCEPT !.candidate = text]
                      /\ decided' = DecidedAfterSave(text) /\ displaced' = displaced
      BY <2>1 DEF Save
    <3>2. Free(text)
      BY <3>1 DEF DecidedAfterSave
    <3>3. disk'.candidate = text
      BY <3>1 DEF IInv, TypeOK, Disk
    <3>4. QED
      BY <3>1, <3>2, <3>3
  <2>2. CASE SaveThroughHandle
    <3>1. PICK text : /\ displaced' = text /\ decided' = DecidedAfterSave(text)
                      /\ candidate' = candidate /\ disk' = disk
      BY <2>2 DEF SaveThroughHandle
    <3>2. Free(text)
      BY <3>1 DEF DecidedAfterSave
    <3>3. QED
      BY <3>1, <3>2
  <2>3. CASE RemoveFile
    <3>1. candidate' = Blank("missing") /\ disk'.candidate = Blank("missing")
          /\ displaced' = displaced
      BY <2>3 DEF RemoveFile, IInv, TypeOK, Disk
    <3>2. Free(Blank("missing"))
      BY DEF Parses, Blank
    <3>3. QED
      BY <3>1, <3>2
  <2>4. QED
    BY <2>1, <2>2, <2>3 DEF User
<1>5. FilesDecided'
  <2>1. \A t \in Texts' : t \in Texts \/ Free(t)
    BY <1>4 DEF Texts
  <2>2. QED
    BY <1>1, <1>3, <2>1, FilesStay DEF Fits
<1>6. Proposed' /\ ToWrite' /\ Recording' /\ Goals' /\ KindOfStep'
  <2>1. Proposed' /\ ToWrite'
    BY <1>1, <1>3 DEF DInv, JobDecided, Proposed, ToWrite, Relaxed, Fits
  <2>2. Recording' /\ Goals' /\ KindOfStep'
    BY <1>1, <1>3 DEF DInv, JobDecided, Recording, Goals, KindOfStep, Relaxed, Fits
  <2>3. QED
    BY <2>1, <2>2
<1>7. Mirrored'
  <2>1. Complies(candidate) => Complies(candidate)'
    BY <1>3, <1>4 DEF Complies, Relaxed, Fits
  <2>2. Complies(disk.candidate) => Complies(disk.candidate)'
    BY <1>3, <1>4 DEF Complies, Relaxed, Fits
  <2>3. Mirrored
    BY DEF DInv, JobDecided
  <2>4. displaced.kind = "missing" => displaced' = displaced
    BY DEF User, Save, SaveThroughHandle, RemoveFile
  <2>5. QED
    BY <1>1, <2>1, <2>2, <2>3, <2>4 DEF Mirrored
<1>8. QED
  BY <1>5, <1>6, <1>7 DEF DInv, JobDecided

\* A damaged snapshot has no rules any more, and its intent or nothing.
LEMMA DamageDecided == ASSUME DInv, IInv, DamageSnapshot PROVE DInv'
<1>1. /\ job' = job /\ decided' = decided /\ Texts' = Texts
      /\ disk'.snapshot = snapshot' /\ job.pc = "idle" /\ snapshot.kind = "good"
  BY DEF DamageSnapshot, Idle, history, Texts, IInv, TypeOK, Disk
<1>2. \/ snapshot'.kind = "torn" /\ snapshot'.intent = snapshot.intent
      \/ snapshot'.kind = "lost"
  BY DEF DamageSnapshot, NoSnapshot, IInv, TypeOK, Snapshot
<1>3. Protected(snapshot)
  BY DEF DInv, FilesDecided
<1>4. Held(snapshot)' /\ Undecided(snapshot)'
  BY <1>2 DEF Held, Undecided
<1>5. Protected(snapshot)'
  BY <1>1, <1>2, <1>3 DEF Protected
<1>6. FilesDecided'
  BY <1>1, <1>4, <1>5 DEF FilesDecided, Held, Protected, Undecided
<1>7. JobDecided'
  BY <1>1 DEF DInv, JobDecided, Proposed, Before, ToWrite, Recording, Goals, KindOfStep,
              Mirrored
<1>8. QED
  BY <1>6, <1>7 DEF DInv
-----------------------------------------------------------------------------
\* No reload of an older draft, no failed mirror, no crash and no power loss undoes a stop,
\* start or delete decision, for any number of rules, saves and faults (Overrides,
\* commit_control_for, commit_with_overrides, State::commit_control).
THEOREM DecisionsAreKept == Spec => []DecisionsHold
<1>1. Init => DInv
  BY InitDecided
<1>2. ASSUME IInv, DInv, [Next]_vars PROVE DInv'
  <2>1. CASE UNCHANGED vars
    BY <1>2, <2>1, IdleDecided DEF vars, history
  <2>2. CASE Begin
    BY <1>2, <2>2, BeginDecided
  <2>3. CASE Work
    BY <1>2, <2>3, EarlyStepsDecided, WriteDecided, SyncDecided, MirrorDecided, ClearDecided,
       ReplyDecided, EndingDecided DEF Work
  <2>4. CASE User
    BY <1>2, <2>4, UserDecided
  <2>5. CASE Environment
    BY <1>2, <2>5, EndingDecided, DamageDecided DEF Environment
  <2>6. QED
    BY <1>2, <2>1, <2>2, <2>3, <2>4, <2>5 DEF Next
<1>3. IInv /\ DInv => DecisionsHold
  <2>1. SUFFICES ASSUME IInv, DInv, snapshot.kind = "good", NEW r \in Rules
                 PROVE  /\ decided[r] = "absent" => snapshot.rules[r] = "absent"
                        /\ decided[r] \in {"stopped", "running"} =>
                             snapshot.rules[r] \in {decided[r], "absent"}
    BY DEF DecisionsHold
  <2>2. Fits(snapshot.rules[r], decided[r])
    BY <2>1 DEF DInv, FilesDecided, Held
  <2>3. QED
    BY <2>2 DEF Fits
<1>4. QED
  BY <1>1, <1>2, <1>3, CommitInvariant, PTL DEF Spec
-----------------------------------------------------------------------------
(***************************************************************************)
(* Drafts.  What fwm writes itself is never a draft, a text that is one is *)
(* on the disk as soon as it is in place, and only the last look at the    *)
(* displaced file drops a text: the one that the job expected.             *)
(***************************************************************************)
Moving == {"compare", "publish", "syncdir", "recheck", "restore"}

KInv ==
  /\ draft.kind \in {"unread", "broken", "hand"}
  /\ candidate.kind \in {"broken", "hand"} => disk.candidate = candidate
  /\ job.pc \notin Moving \/ job.expect.kind = "missing" => displaced.kind = "missing"
  /\ job.pc \in Committed /\ ~job.unchecked => draft.kind = "unread" \/ draft # job.expect

\* A step that neither moves texts nor begins or ends moving them.
LEMMA TextsStay ==
  ASSUME KInv, draft' = draft, candidate' = candidate, displaced' = displaced,
         disk'.candidate = disk.candidate, job.pc \notin Moving, job'.pc \notin Moving,
         \/ job'.pc \notin Committed
         \/ /\ job.pc \in Committed /\ job'.pc \in Committed
            /\ job'.expect = job.expect /\ job'.unchecked = job.unchecked
  PROVE  KInv'
BY DEF KInv

LEMMA BeginKeeps ==
  ASSUME KInv, Begin PROVE KInv' /\ UNCHANGED <<candidate, displaced, kept, draft>>
<1>1. UNCHANGED <<files, draft>>
  BY DEF Begin, StartDaemon, StopDaemon, DaemonEdit, DaemonControl, DaemonReload,
         DaemonValidate, CliEdit, CliControl, CliReload, Recover, history
<1>2. job.pc = "idle"
  BY DEF Begin, StartDaemon, StopDaemon, DaemonEdit, DaemonControl, DaemonReload,
         DaemonValidate, CliEdit, CliControl, CliReload, Recover, CliMayBegin, Idle
<1>3. job'.pc \notin Moving \cup Committed
  <2>1. \A kind, before, rules, selected :
          Mutation(kind, before, rules, selected).pc = "prepare"
    BY DEF Mutation, NoJob
  <2>2. \A mutation, before : Offline(mutation, before).pc \in {"reserve", "adopt"}
    BY DEF Offline, NoJob
  <2>3. CASE StartDaemon
    <3>1. job' = [Offline(NoJob, Loaded) EXCEPT !.goal = "daemon"]
      BY <2>3 DEF StartDaemon
    <3>2. job'.pc \in {"reserve", "adopt"}
      BY <3>1 DEF Offline, NoJob
    <3>3. QED
      BY <3>2 DEF Moving, Committed, Reserved
  <2>4. CASE StopDaemon \/ DaemonValidate
    BY <1>2, <2>4 DEF StopDaemon, DaemonValidate, Moving, Committed, Reserved
  <2>5. CASE DaemonEdit \/ DaemonReload
    <3>1. job'.pc = "token"
      BY <2>5 DEF DaemonEdit, DaemonReload, Mutation, NoJob
    <3>2. QED
      BY <3>1 DEF Moving, Committed, Reserved
  <2>6. CASE DaemonControl
    BY <2>1, <2>6 DEF DaemonControl, Moving, Committed, Reserved
  <2>7. CASE CliEdit \/ CliControl \/ CliReload
    <3>1. job'.pc \in {"reserve", "adopt"}
      BY <2>2, <2>7 DEF CliEdit, CliControl, CliReload
    <3>2. QED
      BY <3>1 DEF Moving, Committed, Reserved
  <2>8. CASE Recover
    <3>1. job'.pc = "backup"
      BY <2>8 DEF Recover, NoJob
    <3>2. QED
      BY <3>1 DEF Moving, Committed, Reserved
  <2>9. QED
    BY <2>3, <2>4, <2>5, <2>6, <2>7, <2>8 DEF Begin
<1>4. QED
  BY <1>1, <1>2, <1>3, TextsStay DEF files, Moving

\* Before and between the moves nothing is lost.
LEMMA CommitKeeps ==
  ASSUME IInv, KInv,
         \/ Adopt \/ ResolveToken \/ Prepare \/ Check \/ Backup \/ Reserve \/ WriteSnapshot
         \/ SyncSnapshot \/ ClearIntent \/ Reply \/ FailBeforeCommit
  PROVE  KInv' /\ (DraftsKept => DraftsKept')
<1>1. /\ candidate' = candidate /\ displaced' = displaced
      /\ disk'.candidate = disk.candidate /\ kept \subseteq kept'
  BY DEF Adopt, ResolveToken, Prepare, Check, Backup, Reserve, WriteSnapshot, SyncSnapshot,
         ClearIntent, Reply, FailBeforeCommit, ReserveRevision, SyncedState, files, IInv, TypeOK,
         Disk
<1>2. draft' \in {draft, Blank("unread")}
  BY DEF Adopt, ResolveToken, Prepare, Check, Backup, Reserve, WriteSnapshot, SyncSnapshot,
         ClearIntent, Reply, FailBeforeCommit, history
<1>3. DraftsKept => DraftsKept'
  BY <1>1, <1>2 DEF DraftsKept, Blank
<1>4. job.pc \notin Moving
  BY DEF Adopt, ResolveToken, Prepare, Check, Backup, Reserve, WriteSnapshot, SyncSnapshot,
         ClearIntent, Reply, FailBeforeCommit, At, Moving
<1>5. CASE EndJob
  <2>1. job'.pc = "idle" /\ job'.expect.kind = "missing"
    BY <1>5 DEF EndJob, NoJob, Blank
  <2>2. QED
    BY <1>1, <1>2, <1>3, <1>4, <2>1 DEF KInv, Blank, Moving, Committed, Reserved
<1>6. CASE Adopt \/ (Reply /\ job.kind = "init")
  <2>1. EndJob \/ job'.pc \in {"token", "prepare"}
    BY <1>6 DEF Adopt, Reply, AfterInit, Mutation, NoJob
  <2>2. QED
    BY <1>1, <1>2, <1>3, <1>4, <1>5, <2>1 DEF KInv, Blank, Moving, Committed, Reserved
<1>7. CASE ResolveToken \/ Prepare \/ Check \/ Backup \/ Reserve
  <2>1. EndJob \/ job'.pc \in {"reserve", "check", "write"}
    BY <1>7 DEF ResolveToken, Prepare, Check, Backup, Reserve, Goto, IInv, TypeOK, Job
  <2>2. QED
    BY <1>1, <1>2, <1>3, <1>4, <1>5, <2>1 DEF KInv, Blank, Moving, Committed, Reserved
<1>8. CASE WriteSnapshot
  <2>1. /\ job.pc = "write" /\ job'.pc = "sync" /\ job'.expect = job.expect
        /\ job'.unchecked = job.unchecked
        /\ draft' = IF Read(draft) \/ MeansApplied(draft) THEN Blank("unread") ELSE draft
    BY <1>8 DEF WriteSnapshot, At, Goto, IInv, TypeOK, Job
  <2>2. draft'.kind = "unread" \/ (~Read(draft) /\ draft' = draft)
    BY <2>1 DEF Blank
  <2>3. job'.unchecked \/ draft'.kind = "unread" \/ draft' # job'.expect
    BY <2>1, <2>2 DEF Read, Idle
  <2>4. QED
    BY <1>1, <1>2, <1>3, <1>4, <2>1, <2>3 DEF KInv, Blank, Moving, Committed, Reserved
<1>9. CASE SyncSnapshot \/ ClearIntent
  <2>1. /\ draft' = draft /\ job.pc \in {"sync", "clear"} /\ job'.pc \in {"displace", "reply"}
        /\ job'.expect = job.expect /\ job'.unchecked = job.unchecked
    BY <1>9 DEF SyncSnapshot, ClearIntent, At, Goto, history, IInv, TypeOK, Job
  <2>2. QED
    BY <1>1, <1>3, <1>4, <2>1, TextsStay DEF Moving, Committed, Reserved
<1>10. QED
  BY <1>3, <1>5, <1>6, <1>7, <1>8, <1>9 DEF Reply, FailBeforeCommit

\* A mirror moves the present text aside, and drops only the text that it expected.
LEMMA MirrorKeeps ==
  ASSUME IInv, KInv,
         Displace \/ Compare \/ Publish \/ SyncCandidate \/ Recheck \/ Restore \/ FailMirror
  PROVE  KInv' /\ (DraftsKept /\ ~DraftsKept' => job.unchecked)
<1>1. /\ draft' = draft /\ job.pc \in Moving \cup {"displace"}
      /\ job'.pc \in Moving \cup {"clear", "reply"}
      /\ job'.expect = job.expect /\ job'.unchecked = job.unchecked
  BY DEF Displace, Compare, Publish, SyncCandidate, Recheck, Restore, FailMirror, At, Goto,
         history, Moving, IInv, TypeOK, Job
<1>2. job'.pc \in Committed /\ ~job'.unchecked => draft'.kind = "unread" \/ draft' # job'.expect
  BY <1>1 DEF KInv, Moving, Committed, Reserved
<1>3. CASE Displace
  <2>1. job.pc = "displace" /\ kept' = kept /\ disk' = disk
    BY <1>3 DEF Displace, At
  <2>2. displaced.kind = "missing"
    BY <2>1 DEF KInv, Moving
  <2>3. CASE job.expect.kind = "missing"
    <3>1. job'.pc = "publish" /\ candidate' = candidate /\ displaced' = displaced
      BY <1>3, <2>3 DEF Displace, Goto, IInv, TypeOK, Job
    <3>2. QED
      BY <1>1, <1>2, <2>1, <2>2, <3>1 DEF KInv, DraftsKept
  <2>4. CASE job.expect.kind # "missing"
    <3>1. /\ candidate' = Blank("missing") /\ displaced' = candidate
          /\ job'.pc = IF candidate.kind = "missing" THEN "reply" ELSE "compare"
      BY <1>3, <2>4 DEF Displace, Goto, IInv, TypeOK, Job
    <3>2. KInv'
      BY <1>1, <1>2, <2>1, <2>2, <2>4, <3>1 DEF KInv, Blank, Moving
    <3>3. QED
      BY <1>1, <2>1, <2>2, <3>1, <3>2 DEF KInv, DraftsKept
  <2>5. QED
    BY <2>3, <2>4
<1>4. CASE Compare
  <2>1. UNCHANGED files /\ job'.pc \in {"publish", "restore"} /\ job.pc = "compare"
    BY <1>4 DEF Compare, At, Goto, IInv, TypeOK, Job
  <2>2. QED
    BY <1>1, <1>2, <2>1 DEF files, KInv, DraftsKept, Moving
<1>5. CASE Publish
  <2>1. /\ job.pc = "publish" /\ displaced' = displaced /\ kept' = kept /\ disk' = disk
        /\ \/ /\ candidate.kind = "missing" /\ candidate' = Plain(job.rev, job.rules)
              /\ job'.pc = "syncdir"
           \/ /\ candidate' = candidate
              /\ job'.pc = IF job.expect.kind = "missing" THEN "reply" ELSE "restore"
    BY <1>5 DEF Publish, At, Goto, IInv, TypeOK, Job
  <2>2. KInv'
    BY <1>1, <1>2, <2>1 DEF KInv, Plain, Moving
  <2>3. QED
    BY <1>1, <2>1, <2>2 DEF KInv, DraftsKept
<1>6. CASE SyncCandidate
  <2>1. /\ job.pc = "syncdir" /\ job'.pc = "recheck" /\ displaced' = displaced
        /\ kept' = kept /\ candidate' = candidate
        /\ disk'.candidate \in {disk.candidate, candidate}
    BY <1>6 DEF SyncCandidate, At, Goto, IInv, TypeOK, Job, Disk
  <2>2. QED
    BY <1>1, <1>2, <2>1 DEF KInv, DraftsKept, Moving
<1>7. CASE Recheck
  <2>1. job.pc = "recheck" /\ candidate' = candidate /\ kept' = kept /\ disk' = disk
    BY <1>7 DEF Recheck, At
  <2>2. CASE StillExpected
    <3>1. displaced' = Blank("missing")
      BY <1>7, <2>2 DEF Recheck
    <3>2. KInv'
      BY <1>1, <1>2, <2>1, <3>1 DEF KInv, Blank, Moving
    <3>3. displaced = job.expect \/ displaced.kind = "missing"
      BY <2>2 DEF StillExpected, KInv
    <3>4. job.pc \in Committed
      BY <2>1 DEF Committed, Reserved
    <3>5. QED
      BY <1>1, <2>1, <3>1, <3>2, <3>3, <3>4 DEF KInv, DraftsKept
  <2>3. CASE ~StillExpected
    <3>1. displaced' = displaced /\ job'.pc = "restore"
      BY <1>7, <2>3 DEF Recheck, Goto, IInv, TypeOK, Job
    <3>2. QED
      BY <1>1, <1>2, <2>1, <3>1 DEF KInv, DraftsKept, Moving
  <2>4. QED
    BY <2>2, <2>3
<1>8. CASE Restore
  <2>1. displaced' = Blank("missing") /\ job'.pc = "reply"
    BY <1>8 DEF Restore, Goto, IInv, TypeOK, Job
  <2>2. \/ /\ candidate.kind = "missing" /\ candidate' = displaced
           /\ disk'.candidate = displaced /\ kept' = kept
        \/ kept' = kept \cup {displaced} /\ candidate' = candidate /\ disk' = disk
    BY <1>8 DEF Restore, IInv, TypeOK, Disk
  <2>3. KInv'
    BY <1>1, <1>2, <2>1, <2>2 DEF KInv, Blank
  <2>4. QED
    BY <1>1, <2>1, <2>2, <2>3 DEF KInv, DraftsKept
<1>9. CASE FailMirror
  <2>1. /\ UNCHANGED files
        /\ job'.pc = IF displaced.kind = "missing" THEN "reply" ELSE "restore"
    BY <1>9 DEF FailMirror, Goto, IInv, TypeOK, Job
  <2>2. QED
    BY <1>1, <1>2, <2>1 DEF files, KInv, DraftsKept, Moving
<1>10. QED
  BY <1>3, <1>4, <1>5, <1>6, <1>7, <1>8, <1>9

\* The user replaces the draft, by nothing if the text needs no keeping.
LEMMA UserKeeps == ASSUME IInv, KInv, User PROVE KInv' /\ (DraftsKept => DraftsKept')
<1>1. job' = job /\ kept' = kept
  BY DEF User, Save, SaveThroughHandle, RemoveFile, Touch
<1>2. CASE RemoveFile
  <2>1. /\ candidate' = Blank("missing") /\ displaced' = displaced
        /\ draft' = Blank("unread")
    BY <1>2 DEF RemoveFile
  <2>2. QED
    BY <1>1, <2>1 DEF KInv, DraftsKept, Blank
<1>3. ASSUME NEW text \in Saves, draft' = DraftOf(text)
      PROVE  /\ draft'.kind = "unread" \/ draft' = text
             /\ draft'.kind \in {"unread", "broken", "hand"}
             /\ job.pc \in Committed /\ ~job.unchecked =>
                  draft'.kind = "unread" \/ draft' # job.expect
             /\ text.kind # "missing"
  <2>1. \/ text.kind \in {"broken", "hand"}
        \/ snapshot.kind = "good" /\ text = Plain(snapshot.rev, snapshot.rules)
    BY DEF Saves, Blank
  <2>2. snapshot.kind = "good" => MeansApplied(Plain(snapshot.rev, snapshot.rules))
    BY DEF MeansApplied, Parses, Plain
  <2>3. \/ draft'.kind = "unread"
        \/ (draft' = text /\ ~Read(text) /\ ~MeansApplied(text))
    BY <1>3 DEF DraftOf, Blank
  <2>4. job.pc \in Committed => ~Idle
    BY DEF Committed, Reserved, Idle
  <2>5. job.pc \in Committed /\ ~job.unchecked => draft'.kind = "unread" \/ draft' # job.expect
    BY <2>3, <2>4 DEF Read
  <2>6. text.kind # "missing"
    BY <2>1 DEF Plain
  <2>7. QED
    BY <2>1, <2>2, <2>3, <2>5, <2>6
<1>4. CASE Save
  <2>1. PICK text \in Saves : /\ candidate' = text /\ disk' = [disk EXCEPT !.candidate = text]
                              /\ draft' = DraftOf(text) /\ displaced' = displaced
    BY <1>4 DEF Save
  <2>2. disk'.candidate = candidate'
    BY <2>1 DEF IInv, TypeOK, Disk
  <2>3. QED
    BY <1>1, <1>3, <2>1, <2>2 DEF KInv, DraftsKept
<1>5. CASE SaveThroughHandle
  <2>1. PICK text \in Saves : /\ displaced' = text /\ draft' = DraftOf(text)
                              /\ candidate' = candidate /\ disk' = disk
    BY <1>5 DEF SaveThroughHandle
  <2>2. displaced.kind # "missing"
    BY <1>5 DEF SaveThroughHandle
  <2>3. QED
    BY <1>1, <1>3, <2>1, <2>2 DEF KInv, DraftsKept
<1>6. QED
  BY <1>2, <1>4, <1>5 DEF User

\* A crash retains the displaced file, and a power loss keeps what a user has saved.
LEMMA EnvironmentKeeps ==
  ASSUME IInv, KInv, Environment PROVE KInv' /\ (DraftsKept => DraftsKept')
<1>1. CASE DamageSnapshot
  <2>1. /\ UNCHANGED <<candidate, displaced, kept, job, draft>>
        /\ disk'.candidate = disk.candidate
    BY <1>1 DEF DamageSnapshot, history, IInv, TypeOK, Disk
  <2>2. QED
    BY <2>1 DEF KInv, DraftsKept
<1>2. ASSUME ProcessEnds
      PROVE  /\ displaced' = Blank("missing") /\ job'.pc = "idle"
             /\ kept' = IF displaced.kind = "missing" THEN kept ELSE kept \cup {displaced}
  BY <1>2 DEF ProcessEnds, EndJob, NoJob
<1>3. "idle" \notin Committed
  BY DEF Committed, Reserved
<1>4. CASE Crash
  <2>1. ProcessEnds /\ UNCHANGED <<candidate, disk, draft>>
    BY <1>4 DEF Crash, history
  <2>2. KInv'
    BY <1>2, <1>3, <2>1 DEF KInv, Blank
  <2>3. QED
    BY <1>2, <2>1, <2>2 DEF KInv, DraftsKept
<1>5. CASE PowerLoss
  <2>1. /\ ProcessEnds /\ candidate' \in {candidate, disk.candidate}
        /\ disk'.candidate = candidate' /\ draft' = draft
    BY <1>5 DEF PowerLoss, history
  <2>2. KInv'
    BY <1>2, <1>3, <2>1 DEF KInv, Blank
  <2>3. QED
    BY <1>2, <2>1, <2>2 DEF KInv, DraftsKept
<1>6. QED
  BY <1>1, <1>4, <1>5 DEF Environment

\* A saved draft is in place, moved aside or retained until it is applied or replaced: only
\* an edit that expects another text than its pending check looked at can lose one
\* (Store::mirror_candidate, State::commit, commit_reload).
THEOREM OnlyUncheckedEditsLoseDrafts == Spec => DraftLostOnlyUnchecked
<1>1. Init => KInv
  BY DEF Init, KInv, Blank, NoJob, Moving, Committed, Reserved
<1>2. ASSUME IInv, KInv, [Next]_vars
      PROVE  KInv' /\ [DraftsKept /\ ~DraftsKept' => job.unchecked]_<<candidate, displaced, kept, draft>>
  <2>1. CASE UNCHANGED vars
    BY <1>2, <2>1 DEF vars, files, history, KInv
  <2>2. CASE Begin
    BY <1>2, <2>2, BeginKeeps
  <2>3. CASE Work
    BY <1>2, <2>3, CommitKeeps, MirrorKeeps DEF Work
  <2>4. CASE User
    BY <1>2, <2>4, UserKeeps
  <2>5. CASE Environment
    BY <1>2, <2>5, EnvironmentKeeps
  <2>6. QED
    BY <1>2, <2>1, <2>2, <2>3, <2>4, <2>5 DEF Next
<1>3. QED
  BY <1>1, <1>2, CommitInvariant, PTL DEF Spec, DraftLostOnlyUnchecked
=============================================================================
