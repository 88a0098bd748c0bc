---------------------------- MODULE ConfigStore ----------------------------
(***************************************************************************)
(* The durable configuration of one fwm instance: the editable candidate   *)
(* config.toml, the applied snapshot state/applied.toml with the control   *)
(* intent stored in its first line, the high-water mark                    *)
(* state/committed-revision, and the one process that writes them at a     *)
(* time: the daemon, or a command line that holds the instance lock while  *)
(* no daemon runs.  Every file operation of a commit is a step of its own, *)
(* so that an editor, a failing disk, a crash or a power loss can come     *)
(* between any two of them.                                                *)
(***************************************************************************)
EXTENDS Integers, FiniteSets

CONSTANTS
  Rules,      \* identities of forward rules
  Callers,    \* who changes the configuration: a subset of {"daemon", "cli"}
  MaxRev,     \* bound: no commit goes beyond this revision
  MaxSaves,   \* bound: how often a user touches config.toml
  MaxFaults   \* bound: crashes, power losses, damaged files, failed file operations

ASSUME RulesAssumption == IsFiniteSet(Rules)
ASSUME CallersAssumption == Callers \subseteq {"daemon", "cli"}
ASSUME BoundsAssumption == MaxRev \in Nat /\ MaxSaves \in Nat /\ MaxFaults \in Nat

VARIABLES
  candidate,  \* what config.toml holds
  displaced,  \* the file a mirror has moved aside, Blank("missing") if none
  kept,       \* drafts retained in .fwm-candidate-* and recovery-backups directories
  snapshot,   \* what applied.toml holds
  saved,      \* what committed-revision holds, NoRevision if there is no such file
  disk,       \* what a power loss cannot take back: snapshot, saved and candidate
  token,      \* Store::candidate_read of the process that is running
  daemon,     \* whether a daemon runs, and the configuration it holds in memory
  job,        \* the change being made, and the next step of it
  draft,      \* history: the user's last save that no operation has yet applied
  decided,    \* history: the last start, stop or delete decision on each rule
  confirmed,  \* history: <<revision, rules>> of replies without a durability warning
  saves,      \* how often the user has touched config.toml
  faults      \* how many faults have happened

files == <<candidate, displaced, kept, snapshot, saved, disk>>
history == <<draft, decided, confirmed>>
bounds == <<saves, faults>>
vars == <<files, token, daemon, job, history, bounds>>
-----------------------------------------------------------------------------
(***************************************************************************)
(* Data.  A configuration is a revision and, for each rule, whether it is  *)
(* absent, stopped or running.  Two texts with the same configuration may  *)
(* differ: "plain" is what fwm itself writes, "hand" anything else a user  *)
(* wrote that means the same.                                              *)
(***************************************************************************)
NoRevision == -1
RuleState == {"absent", "stopped", "running"}
Intent == RuleState \cup {"none"}
NoRules == [r \in Rules |-> "absent"]
NoIntent == [r \in Rules |-> "none"]

\* "unread" is a token that was never read, "keep" an expectation that asks for no mirror.
TextKind == {"missing", "broken", "plain", "hand", "unread", "keep"}
Text == [kind : TextKind, rev : Nat, rules : [Rules -> RuleState]]
Blank(kind) == [kind |-> kind, rev |-> 0, rules |-> NoRules]
Plain(rev, rules) == [kind |-> "plain", rev |-> rev, rules |-> rules]

Parses(text) == text.kind \in {"plain", "hand"}

\* A "torn" snapshot still has a readable first line, a "lost" one has not.
SnapshotKind == {"none", "good", "torn", "lost"}
Snapshot == [kind : SnapshotKind, rev : Nat,
             rules : [Rules -> RuleState], intent : [Rules -> Intent]]
NoSnapshot == [kind |-> "none", rev |-> 0, rules |-> NoRules, intent |-> NoIntent]

Disk == [snapshot : Snapshot, saved : Nat \cup {NoRevision}, candidate : Text]

IntentReadable == snapshot.kind # "lost"

\* Seeded fault: every rule is taken to have an intent.
ApplyWithoutIntent(intent, rules) == [r \in Rules |-> intent[r]]

\* Overrides::apply: drop the deleted rules and force the decided states.
Apply(intent, rules) ==
  [r \in Rules |-> IF intent[r] = "none" \/ rules[r] = "absent" THEN rules[r]
                                                                ELSE intent[r]]

\* Seeded fault: a rule that is gone loses its recorded intent.
RebaseLosesDeleted(intent, rules) ==
  [r \in Rules |-> IF intent[r] = "none" \/ rules[r] = "absent" THEN "none"
                                                                ELSE rules[r]]

\* Overrides::rebase: intent that is already recorded follows the new configuration.
Rebase(intent, rules) ==
  [r \in Rules |-> IF intent[r] = "none" THEN "none" ELSE rules[r]]

\* Overrides::protect_all.
ProtectAll(intent, rules) ==
  [r \in Rules |-> IF rules[r] = "absent" /\ intent[r] = "none" THEN "none"
                                                                 ELSE rules[r]]

\* Store::candidate_version reads the whole text.
CandidateVersion == candidate

\* The text means the configuration of the applied snapshot.
MeansApplied(text) ==
  /\ Parses(text) /\ snapshot.kind = "good"
  /\ text.rev = snapshot.rev /\ text.rules = snapshot.rules

\* Store::has_pending_edits: a candidate that cannot be read counts as an edit.
Pending == snapshot.kind # "none" /\ ~MeansApplied(candidate)
-----------------------------------------------------------------------------
(***************************************************************************)
(* The job: one mutation from its request to its reply.  An "init" job is  *)
(* Store::initialize, which a daemon start and an offline command perform  *)
(* first; goal and want say how to go on after it.                         *)
(***************************************************************************)
JobKind == {"none", "init", "edit", "control", "reload", "recover"}
Step == {"idle", "adopt", "token", "prepare", "check", "backup", "reserve", "write",
         "sync", "displace", "compare", "publish", "syncdir", "recheck", "restore",
         "clear", "reply"}
Job == [kind : JobKind, pc : Step, rev : Nat, rules : [Rules -> RuleState],
        intent : [Rules -> Intent], expect : Text, selected : SUBSET Rules,
        goal : JobKind \cup {"daemon"}, want : [Rules -> RuleState],
        warned : BOOLEAN, unsynced : BOOLEAN, unchecked : BOOLEAN]

NoJob == [kind |-> "none", pc |-> "idle", rev |-> 0, rules |-> NoRules,
          intent |-> NoIntent, expect |-> Blank("missing"), selected |-> {},
          goal |-> "none", want |-> NoRules,
          warned |-> FALSE, unsynced |-> FALSE, unchecked |-> FALSE]

NoDaemon == [up |-> FALSE, rev |-> 0, rules |-> NoRules]

Idle == job.pc = "idle"
At(step) == job.pc = step
Goto(step) == job' = [job EXCEPT !.pc = step]

\* A mutation that writes rules at the revision after the one it is based on.
Mutation(kind, before, rules, selected) ==
  [NoJob EXCEPT !.kind = kind, !.pc = "prepare", !.rev = before.rev + 1,
                !.rules = rules, !.selected = selected]

\* The offline form of a mutation: Store::initialize(before) comes first.
Offline(mutation, before) ==
  [NoJob EXCEPT !.kind = "init", !.rev = before.rev, !.rules = before.rules,
                !.pc = IF snapshot.kind = "none" THEN "reserve" ELSE "adopt",
                !.expect = IF snapshot.kind = "none" THEN candidate ELSE Blank("missing"),
                !.goal = mutation.kind, !.want = mutation.rules,
                !.selected = mutation.selected]

\* Store::load by a fresh process.  Without a snapshot the candidate is the configuration,
\* unless the instance was initialized before (Store::require_uninitialized).
Loadable ==
  \/ snapshot.kind = "good"
  \/ /\ snapshot.kind = "none"
     /\ saved = NoRevision
     /\ candidate.kind # "broken"
Loaded ==
  IF snapshot.kind = "good" THEN [rev |-> snapshot.rev, rules |-> snapshot.rules]
                            ELSE [rev |-> candidate.rev, rules |-> candidate.rules]
TokenAfterLoad == IF snapshot.kind = "good" THEN Blank("unread") ELSE candidate

\* configuration::prepare: what a command may turn the rules into.
Edited(rules) ==
  {new \in [Rules -> RuleState] :
     /\ new # rules
     /\ \A r \in Rules : new[r] = "absent" => rules[r] = "absent"}
Present(rules) == {r \in Rules : rules[r] # "absent"}
Controlled(rules, selected, state) ==
  [r \in Rules |-> IF r \in selected THEN state ELSE rules[r]]

EndJob == job' = NoJob

\* The daemon keeps its Store between jobs, an offline command does not.
TokenAtEnd == IF daemon.up THEN token ELSE Blank("unread")
-----------------------------------------------------------------------------
(***************************************************************************)
(* Beginning a job.                                                        *)
(***************************************************************************)
StartDaemon ==
  /\ "daemon" \in Callers /\ ~daemon.up /\ Idle
  /\ Loadable
  /\ token' = TokenAfterLoad
  /\ job' = [Offline(NoJob, Loaded) EXCEPT !.goal = "daemon"]
  /\ UNCHANGED <<files, daemon, draft, decided, confirmed, bounds>>

StopDaemon ==
  /\ daemon.up /\ Idle
  /\ daemon' = NoDaemon
  /\ token' = Blank("unread")
  /\ UNCHANGED <<files, job, history, bounds>>

\* State::commit: the pending check comes first, the token of the candidate later.
DaemonEdit ==
  /\ daemon.up /\ Idle
  /\ daemon.rev < MaxRev
  /\ snapshot.kind = "good" /\ ~Pending
  /\ \E rules \in Edited(daemon.rules) :
       job' = [Mutation("edit", daemon, rules, {}) EXCEPT !.pc = "token",
                                                             !.expect = candidate]
  /\ UNCHANGED <<files, token, daemon, draft, decided, confirmed, bounds>>

\* SetDesired, Restart and the two Remove commands: State::commit_control.
DaemonControl ==
  /\ daemon.up /\ Idle
  /\ daemon.rev < MaxRev
  /\ \E selected \in SUBSET Present(daemon.rules) \ {{}}, state \in RuleState :
       job' = Mutation("control", daemon, Controlled(daemon.rules, selected, state), selected)
  /\ UNCHANGED <<files, token, daemon, draft, decided, confirmed, bounds>>

DaemonReload ==
  /\ daemon.up /\ Idle
  /\ daemon.rev < MaxRev
  /\ Parses(candidate) /\ IntentReadable
  /\ token' = candidate
  /\ job' = [Mutation("reload", daemon, Apply(snapshot.intent, candidate.rules), {})
               EXCEPT !.pc = "token"]
  /\ UNCHANGED <<files, daemon, draft, decided, confirmed, bounds>>

DaemonValidate ==
  /\ daemon.up /\ Idle
  /\ Parses(candidate) /\ IntentReadable
  /\ token' = candidate
  /\ UNCHANGED <<files, daemon, job, history, bounds>>

\* offline::apply_locked.
CliMayBegin == "cli" \in Callers /\ ~daemon.up /\ Idle
CliEdit ==
  /\ CliMayBegin /\ Loadable /\ ~Pending
  /\ Loaded.rev < MaxRev
  /\ token' = TokenAfterLoad
  /\ \E rules \in Edited(Loaded.rules) :
       job' = Offline(Mutation("edit", Loaded, rules, {}), Loaded)
  /\ UNCHANGED <<files, daemon, draft, decided, confirmed, bounds>>

CliControl ==
  /\ CliMayBegin /\ Loadable
  /\ Loaded.rev < MaxRev
  /\ token' = TokenAfterLoad
  /\ \E selected \in SUBSET Present(Loaded.rules) \ {{}}, state \in RuleState :
       job' = Offline(Mutation("control", Loaded,
                               Controlled(Loaded.rules, selected, state), selected), Loaded)
  /\ UNCHANGED <<files, daemon, draft, decided, confirmed, bounds>>

CliReload ==
  /\ CliMayBegin /\ Loadable /\ Parses(candidate)
  /\ Loaded.rev < MaxRev
  /\ token' = candidate
  /\ job' = Offline(Mutation("reload", Loaded, Apply(snapshot.intent, candidate.rules), {}),
                    Loaded)
  /\ UNCHANGED <<files, daemon, draft, decided, confirmed, bounds>>

\* Seeded fault: the mark is forgotten once the snapshot cannot be read.
RevisionWithoutMark ==
  IF snapshot.kind = "good" /\ snapshot.rev > candidate.rev THEN snapshot.rev + 1
                                                            ELSE candidate.rev + 1

\* Store::recovery_revision: one more than every revision the files still know.
KnownRevisions ==
  {candidate.rev, saved} \cup
  (IF snapshot.kind \in {"good", "torn"} THEN {snapshot.rev} ELSE {})
RecoveryRevision == 1 + CHOOSE n \in KnownRevisions : \A m \in KnownRevisions : m <= n

\* Store::recover_from_candidate; discarding is --discard-unreadable-intent.
Recover ==
  /\ CliMayBegin /\ Parses(candidate)
  /\ snapshot.kind = "lost" => saved # NoRevision
  /\ RecoveryRevision <= MaxRev
  /\ \E discard \in BOOLEAN :
       LET intent  == IF IntentReadable THEN snapshot.intent ELSE NoIntent
           restored == Apply(intent, candidate.rules)
           rules   == [r \in Rules |-> IF restored[r] = "absent" THEN "absent" ELSE "stopped"]
       IN  /\ IntentReadable \/ discard
           /\ job' = [NoJob EXCEPT !.kind = "recover", !.pc = "backup",
                                   !.rev = RecoveryRevision, !.rules = rules,
                                   !.intent = ProtectAll(intent, rules),
                                   !.expect = candidate]
  /\ UNCHANGED <<files, token, daemon, draft, decided, confirmed, bounds>>

-----------------------------------------------------------------------------
(***************************************************************************)
(* The steps of a job.                                                     *)
(***************************************************************************)
Fault == faults < MaxFaults /\ faults' = faults + 1
NoFault == UNCHANGED faults

\* Seeded fault: the sync of the state directory misses the revision mark.
SyncedSnapshotOnly == [disk EXCEPT !.snapshot = snapshot]

\* State-directory contents after AtomicFiles::sync_parent.
SyncedState == [disk EXCEPT !.snapshot = snapshot, !.saved = saved]

\* Store::reserve_revision: the mark only grows, and its directory entry must be durable.
ReserveRevision(rev) ==
  \/ saved >= rev /\ UNCHANGED <<saved, disk>>
  \/ /\ saved < rev
     /\ saved' = rev
     /\ disk' = [SyncedState EXCEPT !.saved = rev]

\* The configuration was not committed: only the reservation may have been made.
FailBeforeCommit ==
  /\ job.pc \in {"adopt", "reserve", "write"} /\ Fault
  /\ saved' \in (IF At("write") \/ saved >= job.rev THEN {saved} ELSE {saved, job.rev})
  /\ EndJob /\ token' = TokenAtEnd
  /\ UNCHANGED <<candidate, displaced, kept, snapshot, disk, daemon, history, saves>>

\* How a mutation goes on once Store::initialize has succeeded.
AfterInit ==
  IF job.goal = "daemon"
  THEN /\ daemon' = [up |-> TRUE, rev |-> job.rev, rules |-> job.rules]
       /\ EndJob
  ELSE /\ job' = [Mutation(job.goal, job, job.want, job.selected)
                    EXCEPT !.pc = IF job.goal = "reload" THEN "token" ELSE "prepare"]
       /\ UNCHANGED daemon

\* Store::initialize when there is a snapshot.
Adopt ==
  /\ At("adopt") /\ NoFault
  /\ ReserveRevision(job.rev)
  /\ AfterInit
  /\ UNCHANGED <<candidate, displaced, kept, snapshot, token, history, saves>>

\* Store::commit_reload takes the token, or reads the candidate if there is none.  Either
\* way an edit may come to expect another text than the one its pending check looked at.
ResolveToken ==
  LET expect == IF token.kind = "unread" THEN CandidateVersion ELSE token IN
  /\ At("token") /\ NoFault
  /\ job' = [job EXCEPT !.pc = "reserve",
                        !.intent = Rebase(snapshot.intent, job.rules),
                        !.expect = expect,
                        !.unchecked = job.kind = "edit" /\ expect # job.expect]
  /\ token' = Blank("unread")
  /\ UNCHANGED <<files, daemon, history, saves>>

\* Store::commit and commit_control_for read the candidate before the pending check.
Prepare ==
  /\ At("prepare") /\ NoFault
  /\ job' = [job EXCEPT !.pc = "check", !.expect = CandidateVersion]
  /\ UNCHANGED <<files, token, daemon, history, saves>>

ControlIntent ==
  [r \in Rules |-> IF r \in job.selected THEN job.rules[r] ELSE snapshot.intent[r]]
Check ==
  /\ At("check") /\ NoFault
  /\ \/ /\ job.kind = "edit" /\ ~Pending
        /\ job' = [job EXCEPT !.pc = "reserve", !.intent = Rebase(snapshot.intent, job.rules)]
        /\ UNCHANGED token
     \/ /\ job.kind = "control" /\ snapshot.kind = "good"
        /\ job' = [job EXCEPT !.pc = "reserve", !.intent = ControlIntent,
                              !.expect = IF Pending THEN Blank("keep") ELSE job.expect]
        /\ UNCHANGED token
     \/ /\ IF job.kind = "edit" THEN Pending ELSE snapshot.kind # "good"
        /\ EndJob /\ token' = TokenAtEnd
  /\ UNCHANGED <<files, daemon, history, saves>>

\* Recovery copies both files to recovery-backups before it commits.
Backup ==
  /\ At("backup") /\ NoFault
  /\ kept' = kept \cup {candidate}
  /\ Goto("reserve")
  /\ UNCHANGED <<candidate, displaced, snapshot, saved, disk, token, daemon, history, saves>>

Reserve ==
  /\ At("reserve") /\ NoFault
  /\ ReserveRevision(job.rev)
  /\ Goto("write")
  /\ UNCHANGED <<candidate, displaced, kept, snapshot, token, daemon, history, saves>>

\* The job has already read this very text: it applies it, or found no edit in it.
Read(text) == ~Idle /\ text = job.expect /\ ~job.unchecked

\* The decision of this job, or what it leaves of an earlier one.  It counts from the
\* directory sync on: before that a power loss takes back a change nobody has been told of.
DecisionAfter(r) ==
  CASE job.kind = "control" /\ r \in job.selected -> job.rules[r]
    [] job.kind = "edit" /\ job.rules[r] # snapshot.rules[r] -> "none"
    [] job.kind = "recover" /\ job.rules[r] # "absent" -> job.rules[r]
    [] /\ job.kind = "recover" /\ job.rules[r] = "absent"
       /\ decided[r] # "absent" \/ ~IntentReadable -> "none"
    [] OTHER -> decided[r]

\* Replacing the snapshot is the commit point.
WriteSnapshot ==
  /\ At("write") /\ NoFault
  /\ snapshot' = [kind |-> "good", rev |-> job.rev, rules |-> job.rules,
                  intent |-> job.intent]
  /\ decided' = [r \in Rules |-> IF DecisionAfter(r) = decided[r] THEN decided[r] ELSE "none"]
  /\ draft' = IF Read(draft) \/ MeansApplied(draft) THEN Blank("unread") ELSE draft
  /\ Goto("sync")
  /\ UNCHANGED <<candidate, displaced, kept, saved, disk, token, daemon, confirmed,
                 saves>>

\* A directory that cannot be synced is a warning: the snapshot has been replaced.
SyncSnapshot ==
  LET next == IF job.expect.kind = "keep" THEN "reply" ELSE "displace" IN
  /\ At("sync")
  /\ \/ /\ NoFault /\ disk' = SyncedState
        /\ decided' = [r \in Rules |-> DecisionAfter(r)]
        /\ Goto(next)
     \/ /\ Fault /\ UNCHANGED <<disk, decided>>
        /\ job' = [job EXCEPT !.pc = next, !.warned = TRUE]
  /\ UNCHANGED <<candidate, displaced, kept, snapshot, saved, token, daemon, draft, confirmed,
                 saves>>

\* Store::mirror_candidate moves the present file aside; a missing one needs no move.
Displace ==
  /\ At("displace") /\ NoFault
  /\ IF job.expect.kind = "missing"
     THEN Goto("publish") /\ UNCHANGED <<candidate, displaced>>
     ELSE /\ displaced' = candidate
          /\ candidate' = Blank("missing")
          /\ Goto(IF candidate.kind = "missing" THEN "reply" ELSE "compare")
  /\ UNCHANGED <<kept, snapshot, saved, disk, token, daemon, history, saves>>

\* Seeded fault: the moved file is not compared.
AnyText == TRUE

AsExpected == displaced = job.expect
Compare ==
  /\ At("compare") /\ NoFault
  /\ Goto(IF AsExpected THEN "publish" ELSE "restore")
  /\ UNCHANGED <<files, token, daemon, history, saves>>

\* persist_new never replaces a file that an editor has saved meanwhile.
Publish ==
  /\ At("publish") /\ NoFault
  /\ IF candidate.kind = "missing"
     THEN candidate' = Plain(job.rev, job.rules) /\ Goto("syncdir")
     ELSE UNCHANGED candidate /\ Goto(IF job.expect.kind = "missing" THEN "reply"
                                                                     ELSE "restore")
  /\ UNCHANGED <<displaced, kept, snapshot, saved, disk, token, daemon, history, saves>>

SyncCandidate ==
  /\ At("syncdir")
  /\ \/ /\ NoFault /\ disk' = [disk EXCEPT !.candidate = candidate]
        /\ Goto("recheck")
     \/ /\ Fault /\ UNCHANGED disk
        /\ job' = [job EXCEPT !.pc = "recheck", !.unsynced = TRUE]
  /\ UNCHANGED <<candidate, displaced, kept, snapshot, saved, token, daemon, history, saves>>

\* The displaced file must still hold what was expected; then it is dropped.
StillExpected == job.expect.kind = "missing" \/ displaced = job.expect
Recheck ==
  /\ At("recheck") /\ NoFault
  /\ IF StillExpected
     THEN /\ displaced' = Blank("missing")
          /\ token' = Plain(job.rev, job.rules)
          /\ Goto(IF job.unsynced \/ job.intent = NoIntent THEN "reply" ELSE "clear")
     ELSE /\ Goto("restore") /\ UNCHANGED <<displaced, token>>
  /\ UNCHANGED <<candidate, kept, snapshot, saved, disk, daemon, history, saves>>

\* A failed mirror links the displaced file back, or retains it beside a newer one.
Restore ==
  /\ At("restore") /\ NoFault
  /\ IF candidate.kind = "missing"
     THEN /\ candidate' = displaced
          /\ disk' = [disk EXCEPT !.candidate = displaced]
          /\ UNCHANGED kept
     ELSE /\ kept' = kept \cup {displaced}
          /\ UNCHANGED <<candidate, disk>>
  /\ displaced' = Blank("missing")
  /\ Goto("reply")
  /\ UNCHANGED <<snapshot, saved, token, daemon, history, saves>>

\* A mirror that cannot even be staged, moved or published leaves the candidate alone.
FailMirror ==
  /\ job.pc \in {"displace", "publish"} /\ Fault
  /\ Goto(IF displaced.kind = "missing" THEN "reply" ELSE "restore")
  /\ UNCHANGED <<files, token, daemon, history, saves>>

\* Intent is cleared last, once the candidate that reflects it is in place.
ClearIntent ==
  /\ At("clear")
  /\ \/ /\ NoFault
        /\ snapshot' = [snapshot EXCEPT !.intent = NoIntent]
        /\ disk' = [SyncedState EXCEPT !.snapshot = snapshot']
     \/ /\ Fault
        /\ snapshot' \in {snapshot, [snapshot EXCEPT !.intent = NoIntent]}
        /\ UNCHANGED disk
  /\ Goto("reply")
  /\ UNCHANGED <<candidate, displaced, kept, saved, token, daemon, history, saves>>

\* Seeded fault: only the revision reaches the memory of the daemon.
RevisionInMemory == IF daemon.up THEN [daemon EXCEPT !.rev = job.rev] ELSE daemon

MemoryAfterCommit ==
  IF daemon.up THEN [up |-> TRUE, rev |-> job.rev, rules |-> job.rules] ELSE daemon

\* The reply; State::finish_commit puts the new configuration in memory.
Reply ==
  /\ At("reply") /\ NoFault
  /\ confirmed' = confirmed \cup (IF job.warned THEN {} ELSE {<<job.rev, job.rules>>})
  /\ IF job.kind = "init"
     THEN AfterInit /\ UNCHANGED token
     ELSE /\ daemon' = MemoryAfterCommit
          /\ EndJob /\ token' = TokenAtEnd
  /\ UNCHANGED <<files, draft, decided, saves>>
-----------------------------------------------------------------------------
(***************************************************************************)
(* The user's editor.                                                      *)
(***************************************************************************)
Touch == /\ saves < MaxSaves /\ saves' = saves + 1
         /\ UNCHANGED <<snapshot, saved, token, daemon, job, confirmed, faults>>

\* Only a text that would change something is a draft worth keeping.
DraftOf(text) ==
  IF MeansApplied(text) \/ Read(text) THEN Blank("unread") ELSE text

\* A user who saves after a decision may overrule it.
DecidedAfterSave(text) ==
  IF Parses(text) THEN [r \in Rules |-> "none"] ELSE decided

\* Hand-written texts, and the undo that brings back what fwm wrote.
Saves ==
  {Blank("broken")} \cup
  {[kind |-> "hand", rev |-> IF Parses(candidate) THEN candidate.rev ELSE 0,
    rules |-> rules] : rules \in [Rules -> RuleState]} \cup
  (IF snapshot.kind = "good" THEN {Plain(snapshot.rev, snapshot.rules)} ELSE {})

Save ==
  /\ Touch
  /\ \E text \in Saves \ {candidate} :
       /\ candidate' = text
       /\ disk' = [disk EXCEPT !.candidate = text]
       /\ draft' = DraftOf(text)
       /\ decided' = DecidedAfterSave(text)
  /\ UNCHANGED <<displaced, kept>>

\* An editor that opened the file before it was moved aside writes through its handle.
SaveThroughHandle ==
  /\ displaced.kind # "missing"
  /\ Touch
  /\ \E text \in Saves \ {displaced} :
       /\ displaced' = text
       /\ draft' = DraftOf(text)
       /\ decided' = DecidedAfterSave(text)
  /\ UNCHANGED <<candidate, kept, disk>>

RemoveFile ==
  /\ candidate.kind # "missing"
  /\ Touch
  /\ candidate' = Blank("missing")
  /\ disk' = [disk EXCEPT !.candidate = Blank("missing")]
  /\ draft' = Blank("unread")
  /\ UNCHANGED <<displaced, kept, decided>>
-----------------------------------------------------------------------------
(***************************************************************************)
(* Crashes.  What was moved aside stays in its .fwm-candidate-* directory. *)
(***************************************************************************)
ProcessEnds ==
  /\ daemon' = NoDaemon
  /\ token' = Blank("unread")
  /\ EndJob
  /\ displaced' = Blank("missing")
  /\ kept' = IF displaced.kind = "missing" THEN kept ELSE kept \cup {displaced}

Crash ==
  /\ daemon.up \/ ~Idle
  /\ Fault
  /\ ProcessEnds
  /\ UNCHANGED <<candidate, snapshot, saved, disk, history, saves>>

\* Each replacement that no directory sync has confirmed may be undone.
PowerLoss ==
  /\ Fault
  /\ ProcessEnds
  /\ snapshot' \in {snapshot, disk.snapshot}
  /\ saved' \in {saved, disk.saved}
  /\ candidate' \in {candidate, disk.candidate}
  /\ disk' = [snapshot |-> snapshot', saved |-> saved', candidate |-> candidate']
  /\ UNCHANGED <<history, saves>>

DamageSnapshot ==
  /\ Idle /\ snapshot.kind = "good"
  /\ Fault
  /\ snapshot' \in {[snapshot EXCEPT !.kind = "torn", !.rules = NoRules],
                    [NoSnapshot EXCEPT !.kind = "lost"]}
  /\ disk' = [disk EXCEPT !.snapshot = snapshot']
  /\ UNCHANGED <<candidate, displaced, kept, saved, token, daemon, job, history, saves>>
-----------------------------------------------------------------------------
Init ==
  /\ candidate \in {Blank("missing")} \cup
                   {[kind |-> "hand", rev |-> 0, rules |-> rules] :
                      rules \in [Rules -> RuleState]}
  /\ displaced = Blank("missing") /\ kept = {}
  /\ snapshot = NoSnapshot /\ saved = NoRevision
  /\ disk = [snapshot |-> snapshot, saved |-> saved, candidate |-> candidate]
  /\ token = Blank("unread") /\ daemon = NoDaemon /\ job = NoJob
  /\ draft = Blank("unread") /\ decided = [r \in Rules |-> "none"]
  /\ confirmed = {}
  /\ saves = 0 /\ faults = 0

Begin == \/ StartDaemon \/ StopDaemon
         \/ DaemonEdit \/ DaemonControl \/ DaemonReload \/ DaemonValidate
         \/ CliEdit \/ CliControl \/ CliReload \/ Recover
Work == \/ Adopt \/ ResolveToken \/ Prepare \/ Check \/ Backup \/ Reserve
        \/ WriteSnapshot \/ SyncSnapshot \/ Displace \/ Compare \/ Publish
        \/ SyncCandidate \/ Recheck \/ Restore \/ ClearIntent \/ Reply
        \/ FailBeforeCommit \/ FailMirror
User == Save \/ SaveThroughHandle \/ RemoveFile
Environment == Crash \/ PowerLoss \/ DamageSnapshot

Next == Begin \/ Work \/ User \/ Environment

Spec == Init /\ [][Next]_vars
-----------------------------------------------------------------------------
\* Every variable holds what its file or field can hold.
TypeOK ==
  /\ candidate \in Text /\ displaced \in Text /\ kept \in SUBSET Text
  /\ snapshot \in Snapshot /\ saved \in Nat \cup {NoRevision} /\ disk \in Disk
  /\ token \in Text
  /\ daemon \in [up : BOOLEAN, rev : Nat, rules : [Rules -> RuleState]]
  /\ job \in Job
  /\ draft \in Text /\ decided \in [Rules -> Intent]
  /\ confirmed \in SUBSET (Nat \X [Rules -> RuleState])
  /\ saves \in 0..MaxSaves /\ faults \in 0..MaxFaults

\* A saved stop, start or delete decision holds until the user decides again, saves
\* config.toml again or discards intent that cannot be read: no reload of an older draft,
\* no failed mirror, no crash and no power loss in between brings a deleted rule back or
\* flips a desired state (Overrides, commit_control_for, commit_with_overrides).
DecisionsHold ==
  snapshot.kind = "good" =>
    \A r \in Rules :
      /\ decided[r] = "absent" => snapshot.rules[r] = "absent"
      /\ decided[r] \in {"stopped", "running"} => snapshot.rules[r] \in {decided[r], "absent"}

\* A draft the user saved is in config.toml, moved aside during a mirror, or retained,
\* until an operation applies it or the user replaces it (mirror_candidate).
DraftsKept == draft.kind = "unread" \/ draft \in {candidate, displaced} \cup kept

\* With a daemon a draft can be lost, but only by an edit that expects another text than
\* its pending check looked at (State::commit, commit_reload).
DraftLostOnlyUnchecked ==
  [][DraftsKept /\ ~DraftsKept' => job.unchecked]_<<candidate, displaced, kept, draft>>

\* What was acknowledged without a durability warning survives power loss, and the
\* high-water mark covers it, so that no recovery reuses its revision.
ConfirmedIsDurable ==
  \A c \in confirmed :
    /\ disk.saved >= c[1]
    /\ disk.snapshot.kind = "good" => disk.snapshot.rev >= c[1]

\* A revision names one configuration: expected_revision never accepts a stale read.
RevisionNamesConfig ==
  \A c, d \in confirmed : c[1] = d[1] => c = d

\* Between jobs the daemon works on what a restart would load.
MemoryIsSnapshot ==
  daemon.up /\ Idle /\ snapshot.kind = "good" =>
    daemon.rev = snapshot.rev /\ daemon.rules = snapshot.rules

=============================================================================
