----------------------------- MODULE RuleModel -----------------------------
(***************************************************************************)
(* The configuration model of fwm as pure operators: what makes a set of   *)
(* server profiles and forward rules valid, which rules a selector means,  *)
(* what the JSON and TOML reader makes of a rule, and how an older file is *)
(* migrated.  Ids, names and group names share one universe of labels:     *)
(* <<"web">> is a plain one and <<"web", 80>> is web-80.                   *)
(***************************************************************************)
EXTENDS Integers, FiniteSets, Sequences

CONSTANTS
  MaxServers,  \* how many profiles this release supports: 128
  MaxRules     \* how many forwards: 512

ASSUME LimitsAssumption == MaxServers \in Nat /\ MaxRules \in Nat

SchemaVersion == 4
None == <<>>           \* no group, no target server, no SSH destination
Reverse == {"remote", "remote_dynamic", "relay"}
Kinds == {"local", "dynamic"} \cup Reverse
Targeted == {"local", "remote", "relay"}

\* A listener and a target.  A host is only ever compared; port 0 is no port.
Address(ip, port) == [ip |-> ip, port |-> port]  \* ip: the host, for a target
NoTarget == Address("", 0)

Rule(id, name, group, server, tserver, kind, listen, target, desired, mode, cleanup) ==
  [id |-> id, name |-> name, group |-> group, server |-> server, tserver |-> tserver,
   kind |-> kind, listen |-> listen, target |-> target, desired |-> desired,
   mode |-> mode, cleanup |-> cleanup]

Server(id, name, dest, user) == [id |-> id, name |-> name, dest |-> dest, user |-> user]

\* The shapes of the code's types, as JSON and TOML spell them; "unset" is an omitted field.
IsAddress(x) == x = Address(x.ip, x.port)

IsRule(r) ==
  /\ r = Rule(r.id, r.name, r.group, r.server, r.tserver, r.kind, r.listen, r.target,
              r.desired, r.mode, r.cleanup)
  /\ IsAddress(r.listen) /\ IsAddress(r.target)
  /\ r.kind \in Kinds /\ r.desired \in {"running", "stopped"}
  /\ r.mode \in {"unset", "shared", "dedicated"} /\ r.cleanup \in {"unset", "off", "verified"}

IsConfig(C) ==
  /\ C = [schema |-> C.schema, revision |-> C.revision, servers |-> C.servers, rules |-> C.rules]
  /\ C.schema \in 1 .. SchemaVersion /\ C.revision \in Nat
  /\ \A r \in C.rules : IsRule(r)
-----------------------------------------------------------------------------
(* Listening addresses. *)
V4 == {"0.0.0.0", "127.0.0.1", "10.0.0.1"}
V6 == {"::", "::1"}
Mapped == [ip \in {"::ffff:0.0.0.0", "::ffff:127.0.0.1"} |->
             IF ip = "::ffff:0.0.0.0" THEN "0.0.0.0" ELSE "127.0.0.1"]

Canonical(ip) == IF ip \in DOMAIN Mapped THEN Mapped[ip] ELSE ip
Unspecified(ip) == ip \in {"0.0.0.0", "::"}

\* Seeded fault: a mapped address is taken for an address of its own.
OverlapsLiterally(a, b) ==
  a.port = b.port /\ (a.ip = b.ip \/ Unspecified(a.ip) \/ Unspecified(b.ip))

Overlaps(a, b) ==
  /\ a.port = b.port
  /\ LET x == Canonical(a.ip)
         y == Canonical(b.ip)
     IN  IF (x \in V4) = (y \in V4)
           THEN x = y \/ Unspecified(x) \/ Unspecified(y)
           ELSE "::" \in {x, y}

\* Two listeners compete on one machine: a reverse one listens on its server.
SameSide(r, q) ==
  \/ r.kind \in Reverse /\ q.kind \in Reverse /\ r.server = q.server
  \/ r.kind \notin Reverse /\ q.kind \notin Reverse

Conflict(r, q) == SameSide(r, q) /\ Overlaps(r.listen, q.listen)
-----------------------------------------------------------------------------
(* Validity. *)
Ids(S) == {x.id : x \in S}
Names(S) == {x.name : x \in S}
Groups(rules) == {r.group : r \in rules} \ {None}

\* validate_name: what the characters of a label are is left out.
Legal(name) == name # None /\ Head(name) # ""

Unique(S) == \A x, y \in S : x.id = y.id \/ x.name = y.name => x = y

\* A name may repeat its own id, never the id of another.
Unambiguous(S) == \A x, y \in S : x.name = y.id => x = y

References(r) == {r.server} \cup (IF r.kind = "relay" THEN {r.tserver} ELSE {})

\* validate_connection_options: a host or an alias to connect to.  The characters of names
\* and paths, the SSH port and the list of jump hosts are data that nothing here reads.
ConnectionOptions(s) == s.dest # None

ServersValid(servers) ==
  /\ Cardinality(servers) <= MaxServers
  /\ \A s \in servers : Legal(s.name) /\ s.id # None /\ ConnectionOptions(s)
  /\ Unique(servers)
  /\ Unambiguous(servers)

RulesValid(C) ==
  /\ Cardinality(C.rules) <= MaxRules
  /\ Unique(C.rules)
  /\ \A r \in C.rules :
       /\ Legal(r.name) /\ r.id # None
       /\ r.group # None => Legal(r.group)
       /\ References(r) \subseteq Ids(C.servers)
       /\ r.listen.port # 0
       /\ r.kind = "relay" => r.mode = "dedicated"
       /\ r.kind \in Targeted => r.target.ip # "" /\ r.target.port # 0
       /\ r.cleanup = "verified" => r.kind \in Reverse

\* Seeded fault: a group may have the id of a rule.
SelectorsByName(rules) == Groups(rules) \cap Names(rules) = {} /\ Unambiguous(rules)

SelectorsValid(rules) ==
  /\ Groups(rules) \cap Names(rules) = {}
  /\ Unambiguous(rules)
  /\ Groups(rules) \cap Ids(rules) = {}

\* Rules that may run together: both are running, or their group is one unit.
Together(r, q) ==
  \/ r.group # None /\ r.group = q.group
  \/ r.desired = "running" /\ q.desired = "running"

ListenersValid(rules) ==
  \A r, q \in rules : r # q /\ Together(r, q) => ~Conflict(r, q)

Valid(C) ==
  /\ C.schema = SchemaVersion
  /\ ServersValid(C.servers)
  /\ RulesValid(C)
  /\ SelectorsValid(C.rules)
  /\ ListenersValid(C.rules)
-----------------------------------------------------------------------------
(* What a selector means.  Lookup prefers an id to a name. *)
ById(S, l) == {x \in S : x.id = l}
Lookup(S, l) == IF ById(S, l) # {} THEN ById(S, l) ELSE {x \in S : x.name = l}
Members(rules, g) == {r \in rules : r.group = g /\ g # None}

Found(C, sel) ==
  CASE sel.by = "all" -> TRUE
    [] sel.by = "server" -> Lookup(C.servers, sel.value) # {}
    [] sel.by = "forward" -> Lookup(C.rules, sel.value) \cup Members(C.rules, sel.value) # {}
    [] sel.by = "group" -> Members(C.rules, sel.value) # {}

\* select_server_forwards: a relay belongs to both of its servers.
OnServer(C, l) == {r \in C.rules : References(r) \cap Ids(Lookup(C.servers, l)) # {}}

Resolve(C, sel) ==
  CASE sel.by = "all" -> C.rules
    [] sel.by = "server" -> OnServer(C, sel.value)
    [] sel.by = "forward" -> IF Lookup(C.rules, sel.value) # {} THEN Lookup(C.rules, sel.value)
                                                               ELSE Members(C.rules, sel.value)
    [] sel.by = "group" -> Members(C.rules, sel.value)
-----------------------------------------------------------------------------
(* Reading a rule from JSON or TOML: mode and cleanup may be "unset". *)
Readable(w) ==
  /\ (w.kind = "relay") = (w.tserver # None)
  /\ (w.kind \in Targeted) = (w.target # NoTarget)
  /\ w.cleanup = "verified" => w.kind \in Reverse
  /\ w.kind = "relay" => w.mode # "shared"

WireCleanup(w) ==
  IF w.cleanup # "unset" THEN w.cleanup ELSE IF w.kind \in Reverse THEN "verified" ELSE "off"

\* Seeded fault: verified cleanup does not imply a dedicated session.
ReadRuleAsGiven(w) ==
  [w EXCEPT !.cleanup = WireCleanup(w),
            !.mode = IF w.kind = "relay" THEN "dedicated" ELSE IF w.mode = "unset" THEN "shared" ELSE w.mode]

ReadRule(w) ==
  [w EXCEPT !.cleanup = WireCleanup(w),
            !.mode = IF WireCleanup(w) = "verified" \/ w.kind = "relay" THEN "dedicated"
                     ELSE IF w.mode = "unset" THEN "shared" ELSE w.mode]
-----------------------------------------------------------------------------
(* Migration of versions 1 to 3. *)
Managed(C) ==
  {IF C.schema = 1 /\ r.kind \in Reverse
     THEN [r EXCEPT !.cleanup = "verified", !.mode = "dedicated"] ELSE r : r \in C.rules}

\* web-80 listening on port 80 looks like a member of a batch named web.
BatchOf(rules, p) ==
  {r \in rules : /\ r.group = None
                 /\ r.name = Append(p, r.listen.port)}

Prefix(name) == SubSeq(name, 1, Len(name) - 1)

\* Seeded fault: members that cannot listen together are grouped all the same.
InferredUnchecked(rules, p) ==
  LET batch == BatchOf(rules, p)
  IN  IF Legal(p) /\ p \notin Names(rules) \cup Ids(rules) /\ Cardinality(batch) > 1 THEN batch ELSE {}

Inferred(rules, p) ==
  LET batch == BatchOf(rules, p)
      whole == batch \cup Members(rules, p)
  IN  IF /\ Legal(p)
         /\ p \notin Names(rules) \cup Ids(rules)
         /\ Cardinality(batch) > 1
         /\ \A r, q \in whole : r # q => ~Conflict(r, q)
      THEN batch ELSE {}

InferGroups(rules) ==
  {IF r \in Inferred(rules, Prefix(r.name)) THEN [r EXCEPT !.group = Prefix(r.name)] ELSE r
     : r \in rules}

Migrate(C) ==
  [C EXCEPT !.rules = IF C.schema < 3 THEN InferGroups(Managed(C)) ELSE Managed(C),
            !.schema = SchemaVersion,
            !.revision = @ + 1]
=============================================================================
