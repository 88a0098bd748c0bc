------------------------------ MODULE RuleBook ------------------------------
(***************************************************************************)
(* How the saved rules change: fwm commands that read the configuration,   *)
(* plan a change and submit it under the revision they read, the unguarded *)
(* control commands, API clients, reloads of an edited file, the upgrade   *)
(* of an older file.  One submission is one step: ConfigStore has its file *)
(* operations.                                                             *)
(***************************************************************************)
EXTENDS RuleModel

CONSTANTS
  Clis,         \* running fwm commands that plan before they submit
  Initial,      \* configurations a daemon or command may find, of any schema
  Adds,         \* arguments of fwm add
  Edits,        \* arguments of fwm edit
  ServerAdds,   \* arguments of fwm server add
  ServerEdits,  \* arguments of fwm server edit
  Selections,   \* selections of up, down, restart and remove
  Written,      \* rules an API client writes, as JSON
  Drafts,       \* candidates a reload reads
  Words,        \* the vocabulary of random names
  MaxPorts,     \* the most ports one fwm add may name
  MaxRevision   \* bound: the last revision

ASSUME BookAssumption == MaxRevision \in Nat /\ MaxPorts \in Nat

\* What is found on disk was parsed; what is in force was validated and written by fwm, and
\* reads back as it is (Store::load_applied, Config::validate).
ASSUME FilesAssumption ==
  /\ \A C \in Initial \cup Drafts : IsConfig(C) /\ IsFiniteSet(C.rules)
  /\ \A C \in Initial : \A r \in C.rules : Readable(r)
  /\ \A C \in Initial : C.schema = SchemaVersion =>
       Valid(C) /\ \A r \in C.rules : ReadRule(r) = r
  /\ \A w \in Written : IsRule(w)

\* The arguments as clap parses them: an endpoint is a port, or a host and a port.
ASSUME ArgumentsAssumption ==
  /\ \A a \in Adds : /\ a.kind \in Kinds /\ a.mode \in {"unset", "shared", "dedicated"}
                     /\ a.cleanup \in {"unset", "off", "verified"}
  /\ \A a \in Edits : /\ a.dir \in Kinds \cup {"keep"}
                      /\ a.mode \in {"unset", "shared", "dedicated"}
                      /\ a.cleanup \in {"unset", "off", "verified"}
                      /\ a.src.ip # "" => a.src.port # 0
                      /\ a.tgt.ip # "" => a.tgt.port # 0

VARIABLES
  saved,  \* the configuration in force
  plan    \* per command: what it will submit, NoPlan before and after

vars == <<saved, plan>>
-----------------------------------------------------------------------------
NoGuard == -1
Command(op, rules, servers, sel) == [op |-> op, rules |-> rules, servers |-> servers, sel |-> sel]
Selection(by, value) == [by |-> by, value |-> value]
All == Selection("all", None)
NoCommand == Command("none", {}, {}, All)
NoPlan == [cmd |-> NoCommand, guard |-> NoGuard, asked |-> All]
Ops == {"none", "put_server", "remove_server", "put", "replace", "create", "remove", "up",
        "restart", "down"}
-----------------------------------------------------------------------------
(* configuration::prepare: what a command does to a configuration. *)
Replacing(S, new) == {x \in S : x.id \notin Ids(new)} \cup new

\* insert_server: a new profile is new and is used.
Insertable(C, cmd) ==
  /\ Unique(C.servers \cup cmd.servers) /\ cmd.servers \cap C.servers = {}
  /\ \A s \in cmd.servers : \E r \in cmd.rules : s.id \in References(r)

Appendable(C, cmd) ==
  /\ cmd.rules # {} /\ Insertable(C, cmd)
  /\ \A r \in cmd.rules, q \in C.rules : r.id # q.id /\ r.name # q.name

Replaceable(C, cmd) ==
  /\ cmd.rules # {} /\ Insertable(C, cmd)
  /\ Cardinality(Ids(cmd.rules)) = Cardinality(cmd.rules)
  /\ Ids(cmd.rules) \subseteq Ids(C.rules)

Possible(C, cmd) ==
  CASE cmd.op \in {"put_server", "put"} -> TRUE
    [] cmd.op = "create" -> Appendable(C, cmd)
    [] cmd.op = "replace" -> Replaceable(C, cmd)
    [] cmd.op = "remove_server" ->
         /\ Lookup(C.servers, cmd.sel.value) # {}
         /\ \A r \in C.rules : References(r) \cap Ids(Lookup(C.servers, cmd.sel.value)) = {}
    [] OTHER -> Found(C, cmd.sel)

Desired(C, cmd, state) ==
  {IF r \in Resolve(C, cmd.sel) THEN [r EXCEPT !.desired = state] ELSE r : r \in C.rules}

Effect(C, cmd) ==
  [C EXCEPT
    !.servers = CASE cmd.op = "remove_server" -> @ \ Lookup(@, cmd.sel.value)
                  [] OTHER -> Replacing(@, cmd.servers),
    !.rules = CASE cmd.op \in {"up", "restart"} -> Desired(C, cmd, "running")
                [] cmd.op = "down" -> Desired(C, cmd, "stopped")
                [] cmd.op = "remove" -> @ \ Resolve(C, cmd.sel)
                [] OTHER -> Replacing(@, cmd.rules)]

\* A command's rules are read from JSON, and what is saved is read back from disk.
Parsed(cmd) == [cmd EXCEPT !.rules = {ReadRule(w) : w \in @}]

Accepts(C, cmd) ==
  /\ \A w \in cmd.rules : Readable(w)
  /\ Possible(C, Parsed(cmd)) /\ Valid(Effect(C, Parsed(cmd)))

Controls == {"up", "restart", "down", "remove"}

Saved(C, cmd) ==
  LET D == Effect(C, Parsed(cmd))
  IN  IF D = C /\ cmd.op \notin Controls THEN C ELSE [D EXCEPT !.revision = @ + 1]
-----------------------------------------------------------------------------
(* Planning fwm add. *)
Socks == {"dynamic", "remote_dynamic"}

\* ports::expand: a list of ports and ascending ranges, each port once, however often named.
Listed(a) == UNION {range[1] .. range[2] : range \in a.ports}
Expandable(a) == (\A range \in a.ports : range[1] <= range[2]) /\ Cardinality(Listed(a)) <= MaxPorts

\* The options that go together: a relay has both its servers, --src comes with --tgt, a SOCKS
\* proxy has one listener and no target.
AddParses(a) ==
  /\ Expandable(a)
  /\ a.kind = "relay" <=> a.tserver # None
  /\ a.kind \in Targeted /\ a.src # "" => a.tgt.port # 0
  /\ a.kind \in Socks => a.tgt = NoTarget /\ Cardinality(Listed(a)) = 1

FreshId(C, c, k) == <<"id", C.revision, c, k>>

\* server_selection::select: a saved profile, or a new one for an SSH alias.
Select(C, l, id) ==
  IF Lookup(C.servers, l) # {} THEN CHOOSE s \in Lookup(C.servers, l) : TRUE
  ELSE Server(id, l, <<"alias", l>>, "")

NewAmong(C, servers) == servers \ C.servers

\* cleanup::effective, for a rule that was old before.
EffectiveCleanup(kind, old, cleanup) ==
  IF cleanup # "unset" THEN cleanup
  ELSE IF kind \notin Reverse THEN "off"
  ELSE IF old.kind \in Reverse THEN old.cleanup ELSE "verified"

EffectiveMode(kind, old, mode, cleanup) ==
  IF EffectiveCleanup(kind, old, cleanup) = "verified" THEN "dedicated"
  ELSE IF mode # "unset" THEN mode ELSE old.mode

NoRule == Rule(None, None, None, None, None, "local", NoTarget, NoTarget, "stopped", "shared", "off")

UsedLabels(C, group) == Ids(C.rules) \cup Names(C.rules) \cup Groups(C.rules) \cup {group}

\* RandomNames: distinct unused words for the group of a batch and for its members.
Picks(C, a) ==
  {w \in [{0} \cup Listed(a) -> Words \ UsedLabels(C, a.group)] :
     \A p, q \in DOMAIN w : w[p] = w[q] => p = q}

AddGroup(a, pick) ==
  IF a.group # None \/ Cardinality(Listed(a)) = 1 THEN a.group
  ELSE IF a.name # None THEN a.name ELSE pick[0]

AddName(a, p, pick) ==
  IF a.name = None THEN pick[p] ELSE IF Cardinality(Listed(a)) > 1 THEN Append(a.name, p) ELSE a.name

\* One rule for each port: the target is on the same port unless one is named.
AddRule(C, c, a, p, pick) ==
  Rule(FreshId(C, c, p), AddName(a, p, pick), AddGroup(a, pick),
       Select(C, a.server, FreshId(C, c, "source")).id,
       IF a.kind = "relay" THEN Select(C, a.tserver, FreshId(C, c, "target")).id ELSE None,
       a.kind, Address(IF a.src = "" THEN "127.0.0.1" ELSE a.src, p),
       IF a.kind \notin Targeted THEN NoTarget
       ELSE Address(IF a.tgt.ip = "" THEN "localhost" ELSE a.tgt.ip,
                    IF a.tgt.port = 0 THEN p ELSE a.tgt.port),
       IF a.disabled THEN "stopped" ELSE "running",
       EffectiveMode(a.kind, NoRule, a.mode, a.cleanup),
       EffectiveCleanup(a.kind, NoRule, a.cleanup))

AddCommand(C, c, a, pick) ==
  Command("create", {AddRule(C, c, a, p, pick) : p \in Listed(a)},
          NewAmong(C, {Select(C, a.server, FreshId(C, c, "source"))} \cup
                      IF a.kind = "relay" THEN {Select(C, a.tserver, FreshId(C, c, "target"))}
                                          ELSE {}),
          All)

\* A new name is neither that of a group nor already a selector of a rule.
NamesFree(C, names) ==
  names \cap Groups(C.rules) = {} /\ \A n \in names : Lookup(C.rules, n) = {}

\* The checks of add::plan, made on the configuration the command read.
AddPlanned(C, a, cmd) ==
  /\ Listed(a) # {}
  /\ a.kind = "relay" => a.mode # "shared"
  /\ a.cleanup = "verified" => a.kind \in Reverse
  /\ Legal(a.server) /\ (a.kind = "relay" => Legal(a.tserver))
  /\ NamesFree(C, Names(cmd.rules))
  /\ Valid([C EXCEPT !.servers = @ \cup cmd.servers, !.rules = @ \cup cmd.rules])
-----------------------------------------------------------------------------
(* Planning fwm edit: an omitted argument keeps what the rule has. *)
HasPorts(a) == a.port # 0 \/ a.src.port # 0 \/ a.tgt.port # 0

\* The options that exclude each other.
EditParses(a) ==
  /\ ~(a.group # None /\ a.ungroup)
  /\ a.tserver # None => a.dir = "keep"
  /\ a.port # 0 => a.src = NoTarget /\ a.tgt = NoTarget
  /\ a.dir \in Socks => a.port = 0 /\ a.tgt = NoTarget

\* parse::tunnels and edit_relay_fields: which edits of the endpoints are accepted.
TunnelEditable(r, a) ==
  /\ r.kind = "relay" => a.dir = "keep" /\ a.mode # "shared"
  /\ r.kind # "relay" => a.tserver = None
  /\ a.dir = "keep" /\ HasPorts(a) => r.kind \in Targeted
  /\ a.dir \in Socks => a.src.port # 0
  /\ a.dir \in {"local", "remote"} /\ r.target = NoTarget => a.port # 0 \/ a.tgt.port # 0

EditKind(r, a) == IF a.dir = "keep" THEN r.kind ELSE a.dir

EditListen(r, a) ==
  Address(IF a.src.ip # "" THEN a.src.ip ELSE IF a.dir \in Socks THEN "127.0.0.1" ELSE r.listen.ip,
          IF a.port # 0 THEN a.port ELSE IF a.src.port # 0 THEN a.src.port ELSE r.listen.port)

EditTarget(r, a) ==
  IF EditKind(r, a) \notin Targeted THEN NoTarget
  ELSE Address(IF a.tgt.ip # "" THEN a.tgt.ip
                 ELSE IF r.target = NoTarget THEN "localhost" ELSE r.target.ip,
               IF a.port # 0 THEN a.port ELSE IF a.tgt.port # 0 THEN a.tgt.port ELSE r.target.port)

\* A selector that is no rule's edits a whole group, and renames the group itself.
GroupEdit(C, a) == Lookup(C.rules, a.sel) = {}

EditRule(C, c, a, r) ==
  [r EXCEPT
    !.name = IF a.rename = None \/ GroupEdit(C, a) THEN @ ELSE a.rename,
    !.group = IF GroupEdit(C, a) /\ a.rename # None THEN a.rename
              ELSE IF a.group # None THEN a.group ELSE IF a.ungroup THEN None ELSE @,
    !.server = IF a.server = None THEN @ ELSE Select(C, a.server, FreshId(C, c, "source")).id,
    !.tserver = IF a.tserver = None THEN @ ELSE Select(C, a.tserver, FreshId(C, c, "target")).id,
    !.kind = EditKind(r, a), !.listen = EditListen(r, a), !.target = EditTarget(r, a),
    !.mode = EffectiveMode(EditKind(r, a), r, a.mode, a.cleanup),
    !.cleanup = EffectiveCleanup(EditKind(r, a), r, a.cleanup)]

EditCommand(C, c, a) ==
  LET sides == (IF a.server = None THEN {} ELSE {Select(C, a.server, FreshId(C, c, "source"))}) \cup
               (IF a.tserver = None THEN {} ELSE {Select(C, a.tserver, FreshId(C, c, "target"))})
  IN  Command("replace", {EditRule(C, c, a, r) : r \in Resolve(C, Selection("forward", a.sel))},
              NewAmong(C, sides), Selection("forward", a.sel))

EditPlanned(C, a, cmd) ==
  /\ Found(C, cmd.sel)
  /\ GroupEdit(C, a) /\ a.rename # None =>
       a.group = None /\ ~a.ungroup /\ (a.rename = a.sel \/ Members(C.rules, a.rename) = {})
  /\ \A r \in Resolve(C, cmd.sel) :
       TunnelEditable(r, a) /\ (a.cleanup = "verified" => EditKind(r, a) \in Reverse)
  /\ Valid([C EXCEPT !.servers = @ \cup cmd.servers, !.rules = Replacing(@, cmd.rules)])
-----------------------------------------------------------------------------
(* The steps of a command: read and plan, then submit or be refused. *)
CanCommit == saved.schema = SchemaVersion /\ saved.revision < MaxRevision

Prepared(c, cmd, asked) ==
  /\ plan' = [plan EXCEPT ![c] = [cmd |-> cmd, guard |-> saved.revision, asked |-> asked]]
  /\ UNCHANGED saved

Reads(c) == CanCommit /\ plan[c] = NoPlan

PlanAdd(c) ==
  Reads(c) /\ \E a \in Adds : \E pick \in IF a.name = None THEN Picks(saved, a) ELSE {<<>>} :
    LET cmd == AddCommand(saved, c, a, pick)
    IN  AddParses(a) /\ AddPlanned(saved, a, cmd) /\ Prepared(c, cmd, All)

PlanEdit(c) ==
  Reads(c) /\ \E a \in Edits :
    LET cmd == EditCommand(saved, c, a)
    IN  EditParses(a) /\ EditPlanned(saved, a, cmd) /\ Prepared(c, cmd, a)

PlanServerAdd(c) ==
  Reads(c) /\ \E a \in ServerAdds :
    /\ Lookup(saved.servers, a.name) = {}
    /\ Prepared(c, Command("put_server", {}, {Server(FreshId(saved, c, "source"), a.name, a.dest, a.user)}, All),
                All)

\* servers::edited: --ssh and --host replace each other, --unset clears the user.
ServerEdited(s, a) ==
  [s EXCEPT !.name = IF a.rename = None THEN @ ELSE a.rename,
            !.dest = IF a.dest = None THEN @ ELSE a.dest,
            !.user = IF a.user = "keep" THEN @ ELSE a.user]

PlanServerEdit(c) ==
  Reads(c) /\ \E a \in ServerEdits : \E s \in Lookup(saved.servers, a.sel) :
    LET new == ServerEdited(s, a)
    IN  /\ Valid([saved EXCEPT !.servers = Replacing(@, {new})])
        /\ Prepared(c, Command("put_server", {}, {new}, All), All)

PlanServerRemove(c) ==
  Reads(c) /\ \E s \in saved.servers :
    Prepared(c, Command("remove_server", {}, {}, Selection("server", s.name)), All)

\* forwards::activate, for up and restart.
PlanUp(c) ==
  Reads(c) /\ \E sel \in Selections, op \in {"up", "restart"} :
    /\ Found(saved, sel) /\ Resolve(saved, sel) # {}
    /\ Prepared(c, Command(op, {}, {}, sel), All)

\* Seeded fault: the revision that the command read is not compared.
CurrentAlways(p) == p.guard \in Int

Current(p) == p.guard \in {NoGuard, saved.revision}

Submit(c) ==
  /\ plan[c] # NoPlan /\ CanCommit
  /\ Current(plan[c]) /\ Accepts(saved, plan[c].cmd)
  /\ saved' = Saved(saved, plan[c].cmd)
  /\ plan' = [plan EXCEPT ![c] = NoPlan]

Refused(c) ==
  /\ plan[c] # NoPlan
  /\ ~(Current(plan[c]) /\ Accepts(saved, plan[c].cmd))
  /\ plan' = [plan EXCEPT ![c] = NoPlan]
  /\ UNCHANGED saved

\* down and remove carry no guard: they mean what the selector means when they arrive.
Control ==
  /\ CanCommit
  /\ \E sel \in Selections, op \in {"down", "remove"} :
       /\ Accepts(saved, Command(op, {}, {}, sel))
       /\ saved' = Saved(saved, Command(op, {}, {}, sel))
  /\ UNCHANGED plan

\* A client of the management API writes one rule whole.
Put ==
  /\ CanCommit
  /\ \E w \in Written :
       /\ Accepts(saved, Command("put", {w}, {}, All))
       /\ saved' = Saved(saved, Command("put", {w}, {}, All))
  /\ UNCHANGED plan

\* The file as it is read: every rule parsed, an older version migrated.
Loaded(C) ==
  LET D == [C EXCEPT !.rules = {ReadRule(w) : w \in @}]
  IN  IF C.schema < SchemaVersion THEN Migrate(D) ELSE D

Reload ==
  /\ CanCommit
  /\ \E d \in Drafts :
       /\ \A w \in d.rules : Readable(w)
       /\ Valid(Loaded(d))
       /\ saved' = [Loaded(d) EXCEPT !.revision = saved.revision + 1]
  /\ UNCHANGED plan

Upgrade ==
  /\ saved.schema < SchemaVersion /\ Valid(Loaded(saved))
  /\ saved' = Loaded(saved)
  /\ UNCHANGED plan
-----------------------------------------------------------------------------
Init ==
  /\ saved \in Initial
  /\ plan = [c \in Clis |-> NoPlan]

Next ==
  \/ \E c \in Clis : \/ PlanAdd(c) \/ PlanEdit(c) \/ PlanServerAdd(c) \/ PlanServerEdit(c)
                     \/ PlanServerRemove(c) \/ PlanUp(c) \/ Submit(c) \/ Refused(c)
  \/ Control \/ Put \/ Reload \/ Upgrade

Spec == Init /\ [][Next]_vars
-----------------------------------------------------------------------------
(* Properties. *)
InForce == saved.schema = SchemaVersion

\* TypeOK: what is saved and planned has the shape of the code's types.
TypeOK ==
  /\ saved.schema \in 1 .. SchemaVersion /\ saved.revision \in Nat
  /\ \A r \in saved.rules : r.kind \in Kinds /\ r.desired \in {"running", "stopped"}
  /\ InForce => \A r \in saved.rules : r.mode \in {"shared", "dedicated"}
                                       /\ r.cleanup \in {"off", "verified"}
  /\ \A c \in Clis : /\ plan[c].cmd.op \in Ops /\ plan[c].guard \in {NoGuard} \cup Nat
                     /\ plan[c].guard <= saved.revision

\* What a label stands for in a list of rules or of profiles.
Meanings(S, groups, l) ==
  {<<"one", x.id>> : x \in {y \in S : l \in {y.id, y.name}}} \cup
  (IF l \in groups THEN {<<"group", l>>} ELSE {})

\* OneMeaning: whatever was added, renamed, grouped, reloaded or migrated, a label names one
\* rule or one group of rules, and one server: no command acts on a rule its user did not mean
\* because an id, a name and a group coincide (Config::forward, server, select_forwards).
OneMeaning ==
  InForce =>
    /\ \A l \in Ids(saved.rules) \cup Names(saved.rules) \cup Groups(saved.rules) :
         Cardinality(Meanings(saved.rules, Groups(saved.rules), l)) = 1
    /\ \A l \in Ids(saved.servers) \cup Names(saved.servers) :
         Cardinality(Meanings(saved.servers, {}, l)) = 1

\* The reference for Overlaps: the addresses whose connections a listener takes.
Reach(ip) ==
  LET own == V4 \ {"0.0.0.0"}
  IN  CASE Canonical(ip) = "0.0.0.0" -> own
        [] Canonical(ip) = "::" -> own \cup (V6 \ {"::"})
        [] OTHER -> {Canonical(ip)}

\* Where a rule listens: on its server, or on the manager's own machine.
Machine(r) == IF r.kind \in Reverse THEN r.server ELSE None

\* BindTogether: the rules that are desired running, and all the members of a group, can
\* listen at the same time: no address of one machine would belong to two of them, whatever
\* mix of families, wildcards and mapped addresses they use (model::overlaps, Config::validate).
BindTogether ==
  InForce => \A r, q \in saved.rules :
    /\ r # q /\ Machine(r) = Machine(q) /\ r.listen.port = q.listen.port
    /\ \/ r.desired = "running" /\ q.desired = "running"
       \/ r.group # None /\ r.group = q.group
    => Reach(r.listen.ip) \cap Reach(q.listen.ip) = {}

\* VerifiedIsDedicated: a rule whose stale sessions may be ended on the server never shares its
\* session with other rules, and neither does a relay, whichever of the CLI, the API, a reloaded
\* file or a migration wrote it: ending that session ends nothing else.
VerifiedIsDedicated ==
  InForce => \A r \in saved.rules :
    r.cleanup = "verified" \/ r.kind = "relay" => r.mode = "dedicated" /\ r.kind \in Reverse

\* The arguments of the edit that a command is about to submit leave this part of a rule alone.
Untouched(a, r, q) ==
  /\ r.desired = q.desired
  /\ a.rename = None => r.name = q.name
  /\ a.group = None /\ ~a.ungroup /\ a.rename = None => r.group = q.group
  /\ a.server = None => r.server = q.server
  /\ a.tserver = None => r.tserver = q.tserver
  /\ a.dir = "keep" /\ ~HasPorts(a) => <<r.kind, r.listen, r.target>> = <<q.kind, q.listen, q.target>>

\* EditIsAPatch: an edit changes what it was asked to change and nothing else, of the rules as
\* they are when it is applied and not as it read them: another command's stop, move or new
\* group member is never undone or left out, however the two interleave (forwards::edit).
EditIsAPatch ==
  [][\A c \in Clis :
       plan[c].cmd.op = "replace" /\ plan'[c] = NoPlan /\ saved' # saved =>
         LET a == plan[c].asked
         IN  /\ Ids(saved'.rules) = Ids(saved.rules)
             /\ \A r \in saved.rules, q \in saved'.rules :
                  r.id = q.id => IF r \in Resolve(saved, Selection("forward", a.sel))
                                   THEN Untouched(a, r, q) ELSE r = q
             /\ GroupEdit(saved, a) /\ a.rename \notin {None, a.sel} =>
                  Members(saved'.rules, a.sel) = {}]_vars

\* UpgradeIsSafe: a file of an older version that was valid then is valid after its migration,
\* with the ids, endpoints and requested states it had: inferring groups from names never
\* strands a working configuration (Config::migrate, infer_legacy_groups).
UpgradeIsSafe ==
  saved.schema < SchemaVersion =>
    LET read == [saved EXCEPT !.rules = {ReadRule(w) : w \in @}, !.schema = SchemaVersion]
        Kept(rules) == {<<r.id, r.name, r.listen, r.target, r.desired>> : r \in rules}
    IN  Valid(read) => Valid(Loaded(saved)) /\ Kept(Loaded(saved).rules) = Kept(saved.rules)

\* CleanupCanBeOff: docs/usage.md:103 "A must allow remote command execution unless you
\* explicitly pass --remote-cleanup off": a relay that could be added with verified cleanup
\* can be added without it.
CleanupCanBeOff ==
  InForce => \A c \in Clis, a \in Adds :
    LET off == [a EXCEPT !.cleanup = "off"]
    IN  /\ a.kind = "relay" /\ a.name # None /\ AddParses(a)
        /\ AddPlanned(saved, a, AddCommand(saved, c, a, <<>>))
        => AddPlanned(saved, off, AddCommand(saved, c, off, <<>>))
=============================================================================
