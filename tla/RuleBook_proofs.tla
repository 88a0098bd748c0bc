--------------------------- MODULE RuleBook_proofs ---------------------------
(***************************************************************************)
(* Theorems about RuleBook for every configuration, command and bound:     *)
(* what validity means for labels and for listening addresses, that a      *)
(* migration keeps a valid file valid, and that commands which interleave  *)
(* keep both and only do what they were asked.                             *)
(***************************************************************************)
EXTENDS RuleBook, FiniteSetTheorems, FunctionTheorems, TLAPS

\* A rule whose omitted fields have been filled in.
Settled(r) ==
  /\ r.mode \in {"shared", "dedicated"} /\ r.cleanup \in {"off", "verified"}
  /\ r.cleanup = "verified" \/ r.kind = "relay" => r.mode = "dedicated"

\* A configuration as the parser leaves it, with its fields filled in once it is in force.
WellRead(C) ==
  /\ IsConfig(C)
  /\ \A r \in C.rules : Readable(r)
  /\ C.schema = SchemaVersion => \A r \in C.rules : Settled(r)
-----------------------------------------------------------------------------
(***************************************************************************)
(* What validity means.                                                    *)
(***************************************************************************)

\* Two listeners on one port that do not overlap take the connections of no common address.
LEMMA ApartByReach ==
  ASSUME NEW x, NEW y, x.port = y.port, ~Overlaps(x, y)
  PROVE  Reach(x.ip) \cap Reach(y.ip) = {}
<1> DEFINE p == Canonical(x.ip)
           q == Canonical(y.ip)
<1>1. /\ Reach(x.ip) = CASE p = "0.0.0.0" -> V4 \ {"0.0.0.0"}
                         [] p = "::" -> (V4 \ {"0.0.0.0"}) \cup (V6 \ {"::"})
                         [] OTHER -> {p}
      /\ Reach(y.ip) = CASE q = "0.0.0.0" -> V4 \ {"0.0.0.0"}
                         [] q = "::" -> (V4 \ {"0.0.0.0"}) \cup (V6 \ {"::"})
                         [] OTHER -> {q}
  BY DEF Reach
<1>2. IF (p \in V4) = (q \in V4)
        THEN p # q /\ ~Unspecified(p) /\ ~Unspecified(q)
        ELSE p # "::" /\ q # "::"
  BY DEF Overlaps
<1> HIDE DEF p, q
<1>3. QED
  BY <1>1, <1>2 DEF V4, V6, Unspecified

\* Labels that clash nowhere each name one element, or one group.
LEMMA LabelsMeanOne ==
  ASSUME NEW S, NEW groups, Unique(S), Unambiguous(S),
         groups \cap Ids(S) = {}, groups \cap Names(S) = {},
         NEW l \in Ids(S) \cup Names(S) \cup groups
  PROVE  Cardinality(Meanings(S, groups, l)) = 1
<1>1. CASE l \in groups
  <2>1. Meanings(S, groups, l) = {<<"group", l>>}
    BY <1>1 DEF Meanings, Ids, Names
  <2>2. QED
    BY <2>1, FS_Singleton
<1>2. CASE l \notin groups
  <2>1. PICK x \in S : l \in {x.id, x.name}
    BY <1>2 DEF Ids, Names
  <2>2. ASSUME NEW y \in S, l \in {y.id, y.name} PROVE y.id = x.id
    BY <2>1, <2>2 DEF Unique, Unambiguous
  <2>3. Meanings(S, groups, l) = {<<"one", x.id>>}
    BY <1>2, <2>1, <2>2 DEF Meanings
  <2>4. QED
    BY <2>3, FS_Singleton
<1>3. QED
  BY <1>1, <1>2

\* Rules of a valid configuration that run together never share an address of a machine.
LEMMA ValidBindsTogether ==
  ASSUME NEW C, Valid(C), NEW r \in C.rules, NEW q \in C.rules, r # q,
         Machine(r) = Machine(q), r.listen.port = q.listen.port,
         \/ r.desired = "running" /\ q.desired = "running"
         \/ r.group # None /\ r.group = q.group
  PROVE  Reach(r.listen.ip) \cap Reach(q.listen.ip) = {}
<1>1. r.server # None /\ q.server # None
  <2>1. r.server \in Ids(C.servers) /\ q.server \in Ids(C.servers)
    BY DEF Valid, RulesValid, References
  <2>2. QED
    BY <2>1 DEF Valid, ServersValid, Ids
<1>2. SameSide(r, q)
  BY <1>1 DEF Machine, SameSide
<1>3. ~Overlaps(r.listen, q.listen)
  BY <1>2 DEF Valid, ListenersValid, Together, Conflict
<1>4. QED
  BY <1>3, ApartByReach
-----------------------------------------------------------------------------
(***************************************************************************)
(* Reading and migrating.                                                  *)
(***************************************************************************)

\* Reading a rule fills in its mode and its cleanup and changes nothing else.
LEMMA ReadFacts ==
  ASSUME NEW w, IsRule(w), Readable(w)
  PROVE  /\ IsRule(ReadRule(w)) /\ Readable(ReadRule(w)) /\ Settled(ReadRule(w))
         /\ ReadRule(w).id = w.id /\ ReadRule(w).name = w.name
         /\ ReadRule(w).group = w.group /\ ReadRule(w).server = w.server
         /\ ReadRule(w).tserver = w.tserver /\ ReadRule(w).kind = w.kind
         /\ ReadRule(w).listen = w.listen /\ ReadRule(w).target = w.target
         /\ ReadRule(w).desired = w.desired
<1> DEFINE m == IF WireCleanup(w) = "verified" \/ w.kind = "relay" THEN "dedicated"
                ELSE IF w.mode = "unset" THEN "shared" ELSE w.mode
<1>1. ReadRule(w) = Rule(w.id, w.name, w.group, w.server, w.tserver, w.kind, w.listen,
                         w.target, w.desired, m, WireCleanup(w))
  <2>1. PICK id, name, group, server, tserver, kind, listen, target, desired, mode, cleanup :
          w = [id |-> id, name |-> name, group |-> group, server |-> server,
               tserver |-> tserver, kind |-> kind, listen |-> listen, target |-> target,
               desired |-> desired, mode |-> mode, cleanup |-> cleanup]
    BY DEF IsRule, Rule
  <2>2. ReadRule(w) = [w EXCEPT !.cleanup = WireCleanup(w), !.mode = m]
    BY DEF ReadRule
  <2> HIDE DEF m
  <2>3. QED
    BY <2>1, <2>2 DEF Rule
<1>2. /\ WireCleanup(w) \in {"off", "verified"}
      /\ WireCleanup(w) = "verified" => w.kind \in Reverse
      /\ m \in {"shared", "dedicated"}
      /\ WireCleanup(w) = "verified" \/ w.kind = "relay" => m = "dedicated"
  BY DEF IsRule, WireCleanup, Readable
<1> HIDE DEF m
<1>3. QED
  BY <1>1, <1>2 DEF IsRule, Rule, Readable, Settled

\* Two rules that agree in these fields differ only in group, connection mode and cleanup.
SameRoute(r, q) ==
  /\ r.id = q.id /\ r.name = q.name /\ r.server = q.server /\ r.tserver = q.tserver
  /\ r.kind = q.kind /\ r.listen = q.listen /\ r.target = q.target /\ r.desired = q.desired

\* Rules may be regrouped, and their sessions made dedicated, where labels stay apart and
\* no two members of a group conflict.
LEMMA RewrittenIsValid ==
  ASSUME NEW C, Valid(C), IsFiniteSet(C.rules),
         NEW E, E.schema = SchemaVersion, E.servers = C.servers,
         NEW f \in [C.rules -> E.rules], E.rules = {f[r] : r \in C.rules},
         \A r \in C.rules : /\ SameRoute(f[r], r)
                            /\ f[r].kind = "relay" => f[r].mode = "dedicated"
                            /\ f[r].cleanup = "verified" => f[r].kind \in Reverse
                            /\ f[r].group # None => /\ Legal(f[r].group)
                                                    /\ f[r].group \notin Names(C.rules)
                                                    /\ f[r].group \notin Ids(C.rules),
         \A r, q \in C.rules : r # q /\ f[r].group # None /\ f[r].group = f[q].group
                                 => ~Conflict(r, q)
  PROVE  Valid(E) /\ IsFiniteSet(E.rules)
<1>1. IsFiniteSet(E.rules) /\ Cardinality(E.rules) <= Cardinality(C.rules)
      /\ Cardinality(E.rules) \in Int /\ Cardinality(C.rules) \in Int
  <2>1. f \in Surjection(C.rules, E.rules)
    BY Fun_IsSurj
  <2>2. QED
    BY <2>1, FS_Surjection, FS_CardinalityType
<1>2. Ids(E.rules) = Ids(C.rules) /\ Names(E.rules) = Names(C.rules)
  BY DEF SameRoute, Ids, Names
<1>3. RulesValid(E)
  <2>1. Cardinality(E.rules) <= MaxRules
    <3>1. Cardinality(C.rules) <= MaxRules
      BY DEF Valid, RulesValid
    <3>2. QED
      BY <1>1, <3>1, LimitsAssumption
  <2>2. Unique(E.rules)
    <3>1. SUFFICES ASSUME NEW r \in C.rules, NEW q \in C.rules,
                          f[r].id = f[q].id \/ f[r].name = f[q].name
                   PROVE  f[r] = f[q]
      BY DEF Unique
    <3>2. r.id = q.id \/ r.name = q.name
      BY <3>1 DEF SameRoute
    <3>3. r = q
      BY <3>2 DEF Valid, RulesValid, Unique
    <3>4. QED
      BY <3>3
  <2>3. ASSUME NEW r \in C.rules
        PROVE  /\ Legal(f[r].name) /\ f[r].id # None
               /\ References(f[r]) \subseteq Ids(E.servers)
               /\ f[r].listen.port # 0
               /\ f[r].kind \in Targeted => f[r].target.ip # "" /\ f[r].target.port # 0
    BY DEF Valid, RulesValid, SameRoute, References
  <2>4. QED
    BY <2>1, <2>2, <2>3 DEF RulesValid
<1>4. SelectorsValid(E.rules)
  <2>1. Unambiguous(E.rules)
    BY DEF Valid, SelectorsValid, Unambiguous, SameRoute
  <2>2. \A g \in Groups(E.rules) : g \notin Names(C.rules) /\ g \notin Ids(C.rules)
    BY DEF Groups
  <2>3. QED
    BY <1>2, <2>1, <2>2 DEF SelectorsValid
<1>5. ListenersValid(E.rules)
  <2>1. SUFFICES ASSUME NEW r \in C.rules, NEW q \in C.rules, f[r] # f[q], Together(f[r], f[q])
                 PROVE  ~Conflict(f[r], f[q])
    BY DEF ListenersValid
  <2>2. ~Conflict(r, q)
    BY <2>1 DEF Valid, ListenersValid, Together, SameRoute
  <2>3. QED
    BY <2>2 DEF Conflict, SameSide, SameRoute
<1>6. QED
  BY <1>1, <1>3, <1>4, <1>5 DEF Valid

\* What Managed makes of one rule of a file with this schema.
Managing(schema, r) ==
  IF schema = 1 /\ r.kind \in Reverse
    THEN [r EXCEPT !.cleanup = "verified", !.mode = "dedicated"] ELSE r

\* Migrating keeps every field that SameRoute compares.
LEMMA ManagingFacts ==
  ASSUME NEW schema, NEW r, IsRule(r), Readable(r)
  PROVE  /\ IsRule(Managing(schema, r)) /\ Readable(Managing(schema, r))
         /\ SameRoute(Managing(schema, r), r) /\ Managing(schema, r).group = r.group
         /\ Settled(r) => Settled(Managing(schema, r))
<1>1. CASE schema = 1 /\ r.kind \in Reverse
  <2>1. PICK id, name, group, server, tserver, kind, listen, target, desired, mode, cleanup :
          r = [id |-> id, name |-> name, group |-> group, server |-> server,
               tserver |-> tserver, kind |-> kind, listen |-> listen, target |-> target,
               desired |-> desired, mode |-> mode, cleanup |-> cleanup]
    BY DEF IsRule, Rule
  <2>2. Managing(schema, r) = [r EXCEPT !.cleanup = "verified", !.mode = "dedicated"]
    BY <1>1 DEF Managing
  <2>3. Managing(schema, r) = Rule(r.id, r.name, r.group, r.server, r.tserver, r.kind,
                                   r.listen, r.target, r.desired, "dedicated", "verified")
    BY <2>1, <2>2 DEF Rule
  <2>4. QED
    BY <1>1, <2>3 DEF IsRule, Rule, Readable, SameRoute, Settled
<1>2. CASE ~(schema = 1 /\ r.kind \in Reverse)
  BY <1>2 DEF Managing, SameRoute
<1>3. QED
  BY <1>1, <1>2

\* What InferGroups makes of one rule.
Inferring(rules, r) ==
  IF r \in Inferred(rules, Prefix(r.name)) THEN [r EXCEPT !.group = Prefix(r.name)] ELSE r

LEMMA InferringFacts ==
  ASSUME NEW rules, NEW r, IsRule(r), Readable(r)
  PROVE  /\ IsRule(Inferring(rules, r)) /\ Readable(Inferring(rules, r))
         /\ SameRoute(Inferring(rules, r), r)
         /\ Inferring(rules, r).mode = r.mode /\ Inferring(rules, r).cleanup = r.cleanup
         /\ Inferring(rules, r).group = IF r \in Inferred(rules, Prefix(r.name))
                                          THEN Prefix(r.name) ELSE r.group
         /\ Settled(r) => Settled(Inferring(rules, r))
<1> DEFINE p == Prefix(r.name)
<1>1. CASE r \in Inferred(rules, p)
  <2>1. PICK id, name, group, server, tserver, kind, listen, target, desired, mode, cleanup :
          r = [id |-> id, name |-> name, group |-> group, server |-> server,
               tserver |-> tserver, kind |-> kind, listen |-> listen, target |-> target,
               desired |-> desired, mode |-> mode, cleanup |-> cleanup]
    BY DEF IsRule, Rule
  <2>2. Inferring(rules, r) = [r EXCEPT !.group = p]
    BY <1>1 DEF Inferring
  <2> HIDE DEF p
  <2>3. Inferring(rules, r) = Rule(r.id, r.name, p, r.server, r.tserver, r.kind,
                                   r.listen, r.target, r.desired, r.mode, r.cleanup)
    BY <2>1, <2>2 DEF Rule
  <2>4. QED
    BY <1>1, <2>3 DEF IsRule, Rule, Readable, SameRoute, Settled, p
<1>2. CASE r \notin Inferred(rules, p)
  BY <1>2 DEF Inferring, SameRoute
<1>3. QED
  BY <1>1, <1>2

\* Ending stale sessions for the reverse rules of a version 1 file keeps it valid.
LEMMA ManagedIsValid ==
  ASSUME NEW C, NEW B, Valid(B), IsFiniteSet(B.rules), C.rules = B.rules,
         \A r \in B.rules : IsRule(r) /\ Readable(r),
         NEW E, E.schema = SchemaVersion, E.servers = B.servers, E.rules = Managed(C)
  PROVE  Valid(E) /\ IsFiniteSet(E.rules)
<1> DEFINE f == [r \in B.rules |-> Managing(C.schema, r)]
<1>1. E.rules = {Managing(C.schema, r) : r \in B.rules}
  BY DEF Managed, Managing
<1>2. f \in [B.rules -> E.rules] /\ E.rules = {f[r] : r \in B.rules}
  BY <1>1
<1>3. \A r \in B.rules : f[r] = Managing(C.schema, r)
  OBVIOUS
<1> HIDE DEF f
<1>4. ASSUME NEW r \in B.rules
      PROVE  /\ SameRoute(f[r], r)
             /\ f[r].kind = "relay" => f[r].mode = "dedicated"
             /\ f[r].cleanup = "verified" => f[r].kind \in Reverse
             /\ f[r].group # None => /\ Legal(f[r].group)
                                     /\ f[r].group \notin Names(B.rules)
                                     /\ f[r].group \notin Ids(B.rules)
  <2>1. SameRoute(f[r], r) /\ f[r].group = r.group /\ Readable(f[r]) /\ IsRule(f[r])
    BY <1>3, ManagingFacts
  <2>2. r.kind = "relay" => r.mode = "dedicated"
    BY DEF Valid, RulesValid
  <2>3. r.kind = "relay" => f[r].mode = "dedicated"
    <3>1. CASE f[r] = r
      BY <2>2, <3>1
    <3>2. CASE f[r] = [r EXCEPT !.cleanup = "verified", !.mode = "dedicated"]
      BY <3>2 DEF IsRule, Rule
    <3>3. QED
      BY <1>3, <3>1, <3>2 DEF Managing
  <2>4. r.group # None => Legal(r.group) /\ r.group \in Groups(B.rules)
    BY DEF Valid, RulesValid, Groups
  <2>5. Groups(B.rules) \cap Names(B.rules) = {} /\ Groups(B.rules) \cap Ids(B.rules) = {}
    BY DEF Valid, SelectorsValid
  <2>6. QED
    BY <2>1, <2>3, <2>4, <2>5 DEF Readable, SameRoute
<1>5. ASSUME NEW r \in B.rules, NEW q \in B.rules, r # q, f[r].group # None,
             f[r].group = f[q].group
      PROVE  ~Conflict(r, q)
  <2>1. f[r].group = r.group /\ f[q].group = q.group
    BY <1>3, ManagingFacts
  <2>2. QED
    BY <1>5, <2>1 DEF Valid, ListenersValid, Together
<1>6. QED
  BY <1>2, <1>4, <1>5, RewrittenIsValid

\* A group is inferred only if its name is free and all its members may listen together.
LEMMA InferredFacts ==
  ASSUME NEW rules, NEW p, NEW r \in Inferred(rules, p)
  PROVE  /\ Legal(p) /\ p \notin Names(rules) /\ p \notin Ids(rules) /\ r \in rules
         /\ \A q \in rules : r # q /\ (q \in Inferred(rules, p) \/ (q.group = p /\ p # None))
              => ~Conflict(r, q) /\ ~Conflict(q, r)
<1> DEFINE batch == BatchOf(rules, p)
           whole == batch \cup Members(rules, p)
<1>1. Inferred(rules, p) \in {batch, {}}
  BY DEF Inferred
<1>2. /\ Legal(p) /\ p \notin Names(rules) \cup Ids(rules)
      /\ \A x, y \in whole : x # y => ~Conflict(x, y)
  BY DEF Inferred
<1>3. r \in batch /\ \A q \in Inferred(rules, p) : q \in batch
  BY <1>1
<1>4. r \in rules
  BY <1>3 DEF BatchOf
<1>5. \A q \in rules : q.group = p /\ p # None => q \in whole
  BY DEF Members
<1> HIDE DEF batch
<1>6. QED
  BY <1>2, <1>3, <1>4, <1>5

\* Inferring groups from names keeps a file valid.
LEMMA InferredIsValid ==
  ASSUME NEW C, Valid(C), IsFiniteSet(C.rules),
         \A r \in C.rules : IsRule(r) /\ Readable(r),
         NEW E, E.schema = SchemaVersion, E.servers = C.servers, E.rules = InferGroups(C.rules)
  PROVE  Valid(E) /\ IsFiniteSet(E.rules)
<1> DEFINE f == [r \in C.rules |-> Inferring(C.rules, r)]
<1>1. E.rules = {Inferring(C.rules, r) : r \in C.rules}
  BY DEF InferGroups, Inferring
<1>2. f \in [C.rules -> E.rules] /\ E.rules = {f[r] : r \in C.rules}
  BY <1>1
<1>3. \A r \in C.rules : f[r] = Inferring(C.rules, r)
  OBVIOUS
<1> HIDE DEF f
<1>4. ASSUME NEW r \in C.rules
      PROVE  /\ SameRoute(f[r], r)
             /\ f[r].kind = "relay" => f[r].mode = "dedicated"
             /\ f[r].cleanup = "verified" => f[r].kind \in Reverse
             /\ f[r].group # None => /\ Legal(f[r].group)
                                     /\ f[r].group \notin Names(C.rules)
                                     /\ f[r].group \notin Ids(C.rules)
  <2>1. /\ SameRoute(f[r], r) /\ Readable(f[r]) /\ f[r].mode = r.mode
        /\ f[r].group = IF r \in Inferred(C.rules, Prefix(r.name)) THEN Prefix(r.name)
                                                                   ELSE r.group
    BY <1>3, InferringFacts
  <2>2. r.kind = "relay" => r.mode = "dedicated"
    BY DEF Valid, RulesValid
  <2>3. CASE r \in Inferred(C.rules, Prefix(r.name))
    <3>1. /\ Legal(Prefix(r.name)) /\ Prefix(r.name) \notin Names(C.rules)
          /\ Prefix(r.name) \notin Ids(C.rules)
      BY <2>3, InferredFacts
    <3>2. QED
      BY <2>1, <2>2, <2>3, <3>1 DEF Readable, SameRoute
  <2>4. CASE r \notin Inferred(C.rules, Prefix(r.name))
    <3>1. r.group # None => Legal(r.group) /\ r.group \in Groups(C.rules)
      BY DEF Valid, RulesValid, Groups
    <3>2. Groups(C.rules) \cap Names(C.rules) = {} /\ Groups(C.rules) \cap Ids(C.rules) = {}
      BY DEF Valid, SelectorsValid
    <3>3. QED
      BY <2>1, <2>2, <2>4, <3>1, <3>2 DEF Readable, SameRoute
  <2>5. QED
    BY <2>3, <2>4
<1>5. ASSUME NEW r \in C.rules, NEW q \in C.rules, r # q, f[r].group # None,
             f[r].group = f[q].group
      PROVE  ~Conflict(r, q)
  <2> DEFINE g == f[r].group
             In(x) == x \in Inferred(C.rules, Prefix(x.name))
  <2>1. /\ g = IF In(r) THEN Prefix(r.name) ELSE r.group
        /\ g = IF In(q) THEN Prefix(q.name) ELSE q.group
    BY <1>3, <1>5, InferringFacts
  <2>2. CASE In(r)
    <3>1. q \in Inferred(C.rules, g) \/ (q.group = g /\ g # None)
      BY <1>5, <2>1, <2>2
    <3>2. r \in Inferred(C.rules, g)
      BY <2>1, <2>2
    <3> HIDE DEF g
    <3>3. QED
      BY <1>5, <3>1, <3>2, InferredFacts
  <2>3. CASE ~In(r) /\ In(q)
    <3>1. r.group = g /\ g # None /\ q \in Inferred(C.rules, g)
      BY <1>5, <2>1, <2>3
    <3> HIDE DEF g
    <3>2. QED
      BY <1>5, <3>1, InferredFacts
  <2>4. CASE ~In(r) /\ ~In(q)
    BY <1>5, <2>1, <2>4 DEF Valid, ListenersValid, Together
  <2>5. QED
    BY <2>2, <2>3, <2>4
<1>6. QED
  BY <1>2, <1>4, <1>5, RewrittenIsValid
-----------------------------------------------------------------------------
\* A configuration with every rule read.
ReadAll(C) == [C EXCEPT !.rules = {ReadRule(w) : w \in @}]

LEMMA ReadAllFacts ==
  ASSUME NEW C, IsConfig(C), \A r \in C.rules : Readable(r)
  PROVE  /\ ReadAll(C).rules = {ReadRule(w) : w \in C.rules}
         /\ ReadAll(C).servers = C.servers /\ ReadAll(C).schema = C.schema
         /\ ReadAll(C).revision = C.revision /\ IsConfig(ReadAll(C))
         /\ \A r \in ReadAll(C).rules : IsRule(r) /\ Readable(r) /\ Settled(r)
<1>1. ReadAll(C) = [schema |-> C.schema, revision |-> C.revision, servers |-> C.servers,
                    rules |-> {ReadRule(w) : w \in C.rules}]
  BY DEF ReadAll, IsConfig
<1>2. \A r \in ReadAll(C).rules : IsRule(r) /\ Readable(r) /\ Settled(r)
  BY <1>1, ReadFacts DEF IsConfig
<1>3. QED
  BY <1>1, <1>2 DEF IsConfig

\* Migrating rewrites rules, the schema and the revision only.
LEMMA MigrateFacts ==
  ASSUME NEW D, IsConfig(D), D.schema < SchemaVersion,
         \A r \in D.rules : Readable(r) /\ Settled(r)
  PROVE  /\ Migrate(D).schema = SchemaVersion /\ Migrate(D).revision = D.revision + 1
         /\ Migrate(D).servers = D.servers
         /\ Migrate(D).rules = IF D.schema < 3 THEN InferGroups(Managed(D)) ELSE Managed(D)
         /\ IsConfig(Migrate(D)) /\ \A r \in Migrate(D).rules : Readable(r) /\ Settled(r)
<1> DEFINE R == IF D.schema < 3 THEN InferGroups(Managed(D)) ELSE Managed(D)
<1>1. Migrate(D) = [schema |-> SchemaVersion, revision |-> D.revision + 1,
                    servers |-> D.servers, rules |-> R]
  <2>1. Migrate(D) = [D EXCEPT !.rules = R, !.schema = SchemaVersion, !.revision = @ + 1]
    BY DEF Migrate
  <2> HIDE DEF R
  <2>2. PICK schema, revision, servers, rules :
          /\ D = [schema |-> schema, revision |-> revision, servers |-> servers,
                  rules |-> rules]
          /\ revision \in Nat
    BY DEF IsConfig
  <2>3. [D EXCEPT !.rules = R, !.schema = SchemaVersion, !.revision = @ + 1]
          = [schema |-> SchemaVersion, revision |-> D.revision + 1, servers |-> D.servers,
             rules |-> R]
    <3> DEFINE n == D.revision + 1
    <3>1. [D EXCEPT !.rules = R, !.schema = SchemaVersion, !.revision = @ + 1]
            = [D EXCEPT !.rules = R, !.schema = SchemaVersion, !.revision = n]
      BY <2>2
    <3> HIDE DEF n
    <3>2. [D EXCEPT !.rules = R, !.schema = SchemaVersion, !.revision = n]
            = [schema |-> SchemaVersion, revision |-> n, servers |-> D.servers, rules |-> R]
      <4> DEFINE D1 == [D EXCEPT !.rules = R]
                 D2 == [D1 EXCEPT !.schema = SchemaVersion]
      <4>1. D1 = [schema |-> D.schema, revision |-> D.revision, servers |-> D.servers,
                  rules |-> R]
        BY <2>2
      <4> HIDE DEF D1
      <4>2. D2 = [schema |-> SchemaVersion, revision |-> D.revision, servers |-> D.servers,
                  rules |-> R]
        BY <4>1
      <4> HIDE DEF D2
      <4>3. [D2 EXCEPT !.revision = n]
              = [schema |-> SchemaVersion, revision |-> n, servers |-> D.servers, rules |-> R]
        BY <4>2
      <4>4. QED
        BY <4>3 DEF D1, D2
    <3>3. QED
      BY <3>1, <3>2 DEF n
  <2>4. QED
    BY <2>1, <2>3
<1>2. \A r \in Managed(D) : IsRule(r) /\ Readable(r) /\ Settled(r)
  <2>1. Managed(D) = {Managing(D.schema, r) : r \in D.rules}
    BY DEF Managed, Managing
  <2>2. \A r \in D.rules : IsRule(r) /\ Readable(r) /\ Settled(r)
    BY DEF IsConfig
  <2>3. QED
    BY <2>1, <2>2, ManagingFacts
<1>3. \A r \in InferGroups(Managed(D)) : IsRule(r) /\ Readable(r) /\ Settled(r)
  <2>1. InferGroups(Managed(D)) = {Inferring(Managed(D), r) : r \in Managed(D)}
    BY DEF InferGroups, Inferring
  <2>2. QED
    BY <1>2, <2>1, InferringFacts
<1>4. \A r \in R : IsRule(r) /\ Readable(r) /\ Settled(r)
  BY <1>2, <1>3
<1>5. D.revision \in Nat /\ D.revision + 1 \in Nat /\ SchemaVersion \in 1 .. SchemaVersion
  BY DEF IsConfig, SchemaVersion
<1> HIDE DEF R
<1>6. IsConfig(Migrate(D))
  BY <1>1, <1>4, <1>5 DEF IsConfig
<1>7. QED
  BY <1>1, <1>4, <1>6 DEF R

\* What is loaded is of this version, and its fields are filled in.
LEMMA LoadedFacts ==
  ASSUME NEW C, IsConfig(C), \A r \in C.rules : Readable(r)
  PROVE  WellRead(Loaded(C)) /\ Loaded(C).schema = SchemaVersion
<1>1. Loaded(C) = IF C.schema < SchemaVersion THEN Migrate(ReadAll(C)) ELSE ReadAll(C)
  BY DEF Loaded, ReadAll
<1>2. CASE C.schema < SchemaVersion
  BY <1>1, <1>2, ReadAllFacts, MigrateFacts DEF WellRead
<1>3. CASE ~(C.schema < SchemaVersion)
  <2>1. C.schema = SchemaVersion
    BY <1>3 DEF IsConfig, SchemaVersion
  <2>2. QED
    BY <1>1, <1>3, <2>1, ReadAllFacts DEF WellRead
<1>4. QED
  BY <1>2, <1>3

\* A valid file of an older version stays valid through its migration, with the ids,
\* endpoints and requested states it had (Config::migrate, infer_legacy_groups).
LEMMA MigrationKeeps ==
  ASSUME NEW C, IsConfig(C), IsFiniteSet(C.rules), \A r \in C.rules : Readable(r),
         C.schema < SchemaVersion,
         Valid([C EXCEPT !.rules = {ReadRule(w) : w \in @}, !.schema = SchemaVersion])
  PROVE  /\ Valid(Loaded(C))
         /\ {<<r.id, r.name, r.listen, r.target, r.desired>> : r \in Loaded(C).rules}
              = {<<r.id, r.name, r.listen, r.target, r.desired>> : r \in C.rules}
<1> DEFINE D == ReadAll(C)
           B == [C EXCEPT !.rules = {ReadRule(w) : w \in @}, !.schema = SchemaVersion]
           M == Managed(D)
           E == [schema |-> SchemaVersion, revision |-> 0, servers |-> D.servers, rules |-> M]
           Kept(r) == <<r.id, r.name, r.listen, r.target, r.desired>>
<1>1. /\ IsConfig(D) /\ D.schema < SchemaVersion /\ D.rules = {ReadRule(w) : w \in C.rules}
      /\ D.servers = C.servers
      /\ \A r \in D.rules : IsRule(r) /\ Readable(r) /\ Settled(r)
  BY ReadAllFacts
<1>2. /\ Loaded(C) = Migrate(D) /\ Migrate(D).servers = D.servers
      /\ Migrate(D).schema = SchemaVersion
      /\ Migrate(D).rules = IF D.schema < 3 THEN InferGroups(M) ELSE M
  <2>1. Loaded(C) = Migrate(D)
    BY DEF Loaded, ReadAll
  <2>2. QED
    BY <1>1, <2>1, MigrateFacts
<1>3. B.rules = D.rules /\ B.servers = D.servers /\ Valid(B)
  BY <1>1 DEF IsConfig
<1>4. IsFiniteSet(D.rules)
  <2> DEFINE f == [w \in C.rules |-> ReadRule(w)]
  <2>1. f \in Surjection(C.rules, D.rules)
    BY <1>1, Fun_IsSurj
  <2>2. QED
    BY <2>1, FS_Surjection
<1>5. M = {Managing(D.schema, r) : r \in D.rules}
  BY DEF Managed, Managing
<1>6. InferGroups(M) = {Inferring(M, r) : r \in M}
  BY DEF InferGroups, Inferring
<1> HIDE DEF D, B, M
<1>7. \A r \in M : IsRule(r) /\ Readable(r)
  BY <1>1, <1>5, ManagingFacts
<1>8. Valid(E) /\ IsFiniteSet(M)
  <2>1. E.schema = SchemaVersion /\ E.servers = B.servers /\ E.rules = Managed(D)
    BY <1>3 DEF M
  <2> HIDE DEF E
  <2>2. Valid(E) /\ IsFiniteSet(E.rules)
    BY <1>1, <1>3, <1>4, <2>1, ManagedIsValid
  <2>3. QED
    BY <2>1, <2>2 DEF M
<1>9. Valid(Migrate(D))
  <2>1. CASE D.schema < 3
    BY <1>2, <1>7, <1>8, <2>1, InferredIsValid
  <2>2. CASE ~(D.schema < 3)
    BY <1>2, <1>8, <2>2 DEF Valid, RulesValid
  <2>3. QED
    BY <2>1, <2>2
<1>10. {Kept(r) : r \in D.rules} = {Kept(r) : r \in C.rules}
  <2>1. \A w \in C.rules : Kept(ReadRule(w)) = Kept(w)
    BY ReadFacts DEF IsConfig
  <2> HIDE DEF Kept
  <2>2. QED
    BY <1>1, <2>1
<1>11. {Kept(r) : r \in M} = {Kept(r) : r \in D.rules}
  <2>1. \A r \in D.rules : Kept(Managing(D.schema, r)) = Kept(r)
    BY <1>1, ManagingFacts DEF SameRoute
  <2> HIDE DEF Kept
  <2>2. QED
    BY <1>5, <2>1
<1>12. {Kept(r) : r \in InferGroups(M)} = {Kept(r) : r \in M}
  <2>1. \A r \in M : Kept(Inferring(M, r)) = Kept(r)
    BY <1>7, InferringFacts DEF SameRoute
  <2> HIDE DEF Kept
  <2>2. QED
    BY <1>6, <2>1
<1>13. {Kept(r) : r \in Migrate(D).rules} = {Kept(r) : r \in C.rules}
  BY <1>2, <1>10, <1>11, <1>12
<1>14. QED
  BY <1>2, <1>9, <1>13
-----------------------------------------------------------------------------
(***************************************************************************)
(* What a command does to a configuration.                                 *)
(***************************************************************************)

IsCommand(cmd) ==
  /\ cmd = Command(cmd.op, cmd.rules, cmd.servers, cmd.sel)
  /\ cmd.op \in Ops
  /\ \A w \in cmd.rules : IsRule(w)

LEMMA ParsedFacts ==
  ASSUME NEW cmd, IsCommand(cmd), \A w \in cmd.rules : Readable(w)
  PROVE  /\ Parsed(cmd).op = cmd.op /\ Parsed(cmd).rules = {ReadRule(w) : w \in cmd.rules}
         /\ Parsed(cmd).servers = cmd.servers /\ Parsed(cmd).sel = cmd.sel
         /\ \A r \in Parsed(cmd).rules : IsRule(r) /\ Readable(r) /\ Settled(r)
<1>1. Parsed(cmd) = Command(cmd.op, {ReadRule(w) : w \in cmd.rules}, cmd.servers, cmd.sel)
  BY DEF Parsed, IsCommand, Command
<1>2. \A w \in cmd.rules : IsRule(w)
  BY DEF IsCommand
<1>3. \A r \in {ReadRule(w) : w \in cmd.rules} : IsRule(r) /\ Readable(r) /\ Settled(r)
  BY <1>2, ReadFacts
<1>4. QED
  BY <1>1, <1>3 DEF Command

\* Starting or stopping a rule changes its requested state only.
LEMMA DesiredFacts ==
  ASSUME NEW r, IsRule(r), NEW state \in {"running", "stopped"}
  PROVE  LET d == [r EXCEPT !.desired = state]
         IN  /\ IsRule(d) /\ (Readable(r) => Readable(d)) /\ (Settled(r) => Settled(d))
<1>1. PICK id, name, group, server, tserver, kind, listen, target, desired, mode, cleanup :
        r = [id |-> id, name |-> name, group |-> group, server |-> server,
             tserver |-> tserver, kind |-> kind, listen |-> listen, target |-> target,
             desired |-> desired, mode |-> mode, cleanup |-> cleanup]
  BY DEF IsRule, Rule
<1>2. [r EXCEPT !.desired = state]
        = Rule(r.id, r.name, r.group, r.server, r.tserver, r.kind, r.listen, r.target,
               state, r.mode, r.cleanup)
  BY <1>1 DEF Rule
<1> DEFINE d == [r EXCEPT !.desired = state]
<1>3. IsRule(d) /\ (Readable(r) => Readable(d)) /\ (Settled(r) => Settled(d))
  BY <1>2 DEF IsRule, Rule, Readable, Settled
<1>4. QED
  BY <1>3

LEMMA EffectFacts ==
  ASSUME NEW C, WellRead(C), C.schema = SchemaVersion, NEW cmd,
         \A r \in cmd.rules : IsRule(r) /\ Readable(r) /\ Settled(r)
  PROVE  /\ WellRead(Effect(C, cmd)) /\ Effect(C, cmd).schema = C.schema
         /\ Effect(C, cmd).revision = C.revision
         /\ cmd.op = "replace" => Effect(C, cmd).rules = Replacing(C.rules, cmd.rules)
<1> DEFINE D == Effect(C, cmd)
           S == CASE cmd.op = "remove_server" -> C.servers \ Lookup(C.servers, cmd.sel.value)
                  [] OTHER -> Replacing(C.servers, cmd.servers)
           R == CASE cmd.op \in {"up", "restart"} -> Desired(C, cmd, "running")
                  [] cmd.op = "down" -> Desired(C, cmd, "stopped")
                  [] cmd.op = "remove" -> C.rules \ Resolve(C, cmd.sel)
                  [] OTHER -> Replacing(C.rules, cmd.rules)
<1>1. D = [schema |-> C.schema, revision |-> C.revision, servers |-> S, rules |-> R]
  <2>1. D = [C EXCEPT !.servers = S, !.rules = R]
    BY DEF Effect
  <2> HIDE DEF S, R, D
  <2>2. PICK schema, revision, servers, rules :
          C = [schema |-> schema, revision |-> revision, servers |-> servers, rules |-> rules]
    BY DEF WellRead, IsConfig
  <2>3. QED
    BY <2>1, <2>2
<1>2. \A r \in C.rules : IsRule(r) /\ Readable(r) /\ Settled(r)
  BY DEF WellRead, IsConfig
<1>3. ASSUME NEW state \in {"running", "stopped"}
      PROVE  \A r \in Desired(C, cmd, state) : IsRule(r) /\ Readable(r) /\ Settled(r)
  <2>1. \A r \in C.rules : LET d == [r EXCEPT !.desired = state]
                           IN  IsRule(d) /\ Readable(d) /\ Settled(d)
    BY <1>2, DesiredFacts
  <2>2. QED
    BY <1>2, <2>1 DEF Desired
<1>4. \A r \in Replacing(C.rules, cmd.rules) : IsRule(r) /\ Readable(r) /\ Settled(r)
  BY <1>2 DEF Replacing
<1>5. R \in {Desired(C, cmd, "running"), Desired(C, cmd, "stopped"),
             C.rules \ Resolve(C, cmd.sel), Replacing(C.rules, cmd.rules)}
  OBVIOUS
<1>6. \A r \in R : IsRule(r) /\ Readable(r) /\ Settled(r)
  BY <1>2, <1>3, <1>4, <1>5
<1>7. cmd.op = "replace" => R = Replacing(C.rules, cmd.rules)
  OBVIOUS
<1> HIDE DEF S, R
<1>8. WellRead(D)
  BY <1>1, <1>6 DEF WellRead, IsConfig
<1>9. QED
  BY <1>1, <1>7, <1>8

\* An accepted command leaves a valid configuration under the next revision, or the one it
\* found.
LEMMA SavedFacts ==
  ASSUME NEW C, WellRead(C), C.schema = SchemaVersion, NEW cmd, IsCommand(cmd), Accepts(C, cmd)
  PROVE  /\ WellRead(Saved(C, cmd)) /\ Valid(Saved(C, cmd))
         /\ Saved(C, cmd).schema = SchemaVersion
         /\ \/ Saved(C, cmd) = C
            \/ Saved(C, cmd).revision = C.revision + 1
         /\ cmd.op = "replace" /\ Saved(C, cmd) # C =>
              Saved(C, cmd).rules = Replacing(C.rules, {ReadRule(w) : w \in cmd.rules})
<1> DEFINE D == Effect(C, Parsed(cmd))
           n == D.revision + 1
           E == [schema |-> D.schema, revision |-> n, servers |-> D.servers, rules |-> D.rules]
<1>1. /\ Parsed(cmd).op = cmd.op /\ Parsed(cmd).rules = {ReadRule(w) : w \in cmd.rules}
      /\ \A r \in Parsed(cmd).rules : IsRule(r) /\ Readable(r) /\ Settled(r)
  BY ParsedFacts DEF Accepts
<1>2. /\ WellRead(D) /\ D.schema = SchemaVersion /\ D.revision = C.revision
      /\ cmd.op = "replace" => D.rules = Replacing(C.rules, {ReadRule(w) : w \in cmd.rules})
  BY <1>1, EffectFacts
<1>3. Valid(D)
  BY DEF Accepts
<1>4. Saved(C, cmd) = IF D = C /\ cmd.op \notin Controls THEN C
                      ELSE [D EXCEPT !.revision = @ + 1]
  BY DEF Saved
<1> HIDE DEF D
<1>5. [D EXCEPT !.revision = @ + 1] = E
  <2>1. PICK schema, revision, servers, rules :
          /\ D = [schema |-> schema, revision |-> revision, servers |-> servers,
                  rules |-> rules]
          /\ revision \in Nat
    BY <1>2 DEF WellRead, IsConfig
  <2>2. [D EXCEPT !.revision = @ + 1] = [D EXCEPT !.revision = n]
    BY <2>1
  <2> HIDE DEF n
  <2>3. QED
    BY <2>1, <2>2
<1>6. n \in Nat /\ n = C.revision + 1
  BY <1>2 DEF WellRead, IsConfig
<1> HIDE DEF n
<1>7. WellRead(E) /\ Valid(E)
  BY <1>2, <1>3, <1>6 DEF WellRead, IsConfig, Valid, RulesValid
<1>8. CASE Saved(C, cmd) = C
  <2>1. D = C \/ C = E
    BY <1>4, <1>5, <1>8
  <2>2. Valid(C)
    BY <1>3, <1>7, <2>1
  <2>3. QED
    BY <1>8, <2>2
<1>9. CASE Saved(C, cmd) = E
  BY <1>2, <1>6, <1>7, <1>9
<1>10. QED
  BY <1>4, <1>5, <1>8, <1>9
-----------------------------------------------------------------------------
(***************************************************************************)
(* What the planners submit.                                               *)
(***************************************************************************)
AnyMode == {"unset", "shared", "dedicated"}
AnyCleanup == {"unset", "off", "verified"}

LEMMA AddIsCommand ==
  ASSUME NEW C, NEW c, NEW a \in Adds, NEW pick
  PROVE  IsCommand(AddCommand(C, c, a, pick)) /\ AddCommand(C, c, a, pick).op = "create"
<1>1. ASSUME NEW p PROVE IsRule(AddRule(C, c, a, p, pick))
  <2> DEFINE mode == EffectiveMode(a.kind, NoRule, a.mode, a.cleanup)
             cleanup == EffectiveCleanup(a.kind, NoRule, a.cleanup)
             target == IF a.kind \notin Targeted THEN NoTarget
                       ELSE Address(IF a.tgt.ip = "" THEN "localhost" ELSE a.tgt.ip,
                                    IF a.tgt.port = 0 THEN p ELSE a.tgt.port)
             listen == Address(IF a.src = "" THEN "127.0.0.1" ELSE a.src, p)
             desired == IF a.disabled THEN "stopped" ELSE "running"
             id == FreshId(C, c, p)
             name == AddName(a, p, pick)
             group == AddGroup(a, pick)
             server == Select(C, a.server, FreshId(C, c, "source")).id
             tserver == IF a.kind = "relay"
                          THEN Select(C, a.tserver, FreshId(C, c, "target")).id ELSE None
  <2>1. a.kind \in Kinds /\ a.mode \in AnyMode /\ a.cleanup \in AnyCleanup
    BY ArgumentsAssumption DEF AnyMode, AnyCleanup
  <2>2. NoRule.mode = "shared" /\ NoRule.cleanup = "off"
    BY DEF NoRule, Rule
  <2>3. cleanup \in AnyCleanup /\ mode \in AnyMode
    BY <2>1, <2>2 DEF EffectiveCleanup, EffectiveMode, AnyMode, AnyCleanup
  <2>4. IsAddress(listen) /\ IsAddress(target)
    BY DEF IsAddress, Address, NoTarget
  <2>5. desired \in {"running", "stopped"}
    OBVIOUS
  <2>6. AddRule(C, c, a, p, pick) = Rule(id, name, group, server, tserver, a.kind, listen,
                                         target, desired, mode, cleanup)
    BY DEF AddRule
  <2> HIDE DEF mode, cleanup, target, listen, desired, id, name, group, server, tserver
  <2>7. QED
    BY <2>1, <2>3, <2>4, <2>5, <2>6 DEF IsRule, Rule, AnyMode, AnyCleanup
<1>2. \A w \in {AddRule(C, c, a, p, pick) : p \in Listed(a)} : IsRule(w)
  BY <1>1
<1>3. QED
  BY <1>2 DEF AddCommand, Command, IsCommand, Ops

\* An edited rule keeps its id and its requested state, and every part that no argument names.
LEMMA EditRuleFacts ==
  ASSUME NEW C, NEW c, NEW a \in Edits, NEW r, IsRule(r), Readable(r), Settled(r)
  PROVE  LET e == EditRule(C, c, a, r)
         IN  /\ IsRule(e) /\ e.id = r.id /\ e.desired = r.desired
             /\ e.group = IF GroupEdit(C, a) /\ a.rename # None THEN a.rename
                          ELSE IF a.group # None THEN a.group
                          ELSE IF a.ungroup THEN None ELSE r.group
             /\ a.rename = None => e.name = r.name
             /\ a.server = None => e.server = r.server
             /\ a.tserver = None => e.tserver = r.tserver
             /\ a.dir = "keep" /\ ~HasPorts(a) =>
                  e.kind = r.kind /\ e.listen = r.listen /\ e.target = r.target
<1> DEFINE e == EditRule(C, c, a, r)
           name == IF a.rename = None \/ GroupEdit(C, a) THEN r.name ELSE a.rename
           group == IF GroupEdit(C, a) /\ a.rename # None THEN a.rename
                    ELSE IF a.group # None THEN a.group
                    ELSE IF a.ungroup THEN None ELSE r.group
           server == IF a.server = None THEN r.server
                     ELSE Select(C, a.server, FreshId(C, c, "source")).id
           tserver == IF a.tserver = None THEN r.tserver
                      ELSE Select(C, a.tserver, FreshId(C, c, "target")).id
           kind == EditKind(r, a)
           listen == EditListen(r, a)
           target == EditTarget(r, a)
           mode == EffectiveMode(EditKind(r, a), r, a.mode, a.cleanup)
           cleanup == EffectiveCleanup(EditKind(r, a), r, a.cleanup)
<1>1. e = Rule(r.id, name, group, server, tserver, kind, listen, target, r.desired, mode,
               cleanup)
  <2>1. e = [r EXCEPT !.name = name, !.group = group, !.server = server, !.tserver = tserver,
                      !.kind = kind, !.listen = listen, !.target = target, !.mode = mode,
                      !.cleanup = cleanup]
    BY DEF EditRule
  <2> HIDE DEF e, name, group, server, tserver, kind, listen, target, mode, cleanup
  <2>2. PICK i, n, g, s, t, k, l, x, d, m, u :
          r = [id |-> i, name |-> n, group |-> g, server |-> s, tserver |-> t, kind |-> k,
               listen |-> l, target |-> x, desired |-> d, mode |-> m, cleanup |-> u]
    BY DEF IsRule, Rule
  <2>3. QED
    BY <2>1, <2>2 DEF Rule
<1>2. kind \in Kinds
  BY ArgumentsAssumption DEF EditKind, IsRule
<1>3. cleanup \in AnyCleanup /\ mode \in AnyMode
  <2>1. a.mode \in AnyMode /\ a.cleanup \in AnyCleanup
    BY ArgumentsAssumption DEF AnyMode, AnyCleanup
  <2>2. r.mode \in AnyMode /\ r.cleanup \in AnyCleanup
    BY DEF IsRule, AnyMode, AnyCleanup
  <2>3. QED
    BY <2>1, <2>2 DEF EffectiveCleanup, EffectiveMode, AnyMode, AnyCleanup
<1>4. IsAddress(listen) /\ IsAddress(target)
  BY DEF EditListen, EditTarget, IsAddress, Address, NoTarget
<1>5. ASSUME a.dir = "keep", ~HasPorts(a)
      PROVE  kind = r.kind /\ listen = r.listen /\ target = r.target
  <2>1. kind = r.kind /\ a.dir \notin Socks
    BY <1>5 DEF EditKind, Socks
  <2>2. a.port = 0 /\ a.src.port = 0 /\ a.tgt.port = 0 /\ a.src.ip = "" /\ a.tgt.ip = ""
    BY <1>5, ArgumentsAssumption DEF HasPorts
  <2>3. r.listen = Address(r.listen.ip, r.listen.port)
        /\ r.target = Address(r.target.ip, r.target.port)
    BY DEF IsRule, IsAddress
  <2>4. listen = r.listen
    BY <2>1, <2>2, <2>3 DEF EditListen
  <2>5. kind \in Targeted <=> r.target # NoTarget
    BY <2>1 DEF Readable
  <2>6. target = r.target
    BY <2>2, <2>3, <2>5 DEF EditTarget
  <2>7. QED
    BY <2>1, <2>4, <2>6
<1>6. r.desired \in {"running", "stopped"}
  BY DEF IsRule
<1>7. /\ a.rename = None => name = r.name
      /\ a.server = None => server = r.server
      /\ a.tserver = None => tserver = r.tserver
  OBVIOUS
<1>8. group = IF GroupEdit(C, a) /\ a.rename # None THEN a.rename
              ELSE IF a.group # None THEN a.group
              ELSE IF a.ungroup THEN None ELSE r.group
  OBVIOUS
<1> HIDE DEF e, name, group, server, tserver, kind, listen, target, mode, cleanup
<1>9. IsRule(e)
  BY <1>1, <1>2, <1>3, <1>4, <1>6 DEF IsRule, Rule, AnyMode, AnyCleanup
<1>10. /\ e.id = r.id /\ e.desired = r.desired /\ e.group = group /\ e.name = name
       /\ e.server = server /\ e.tserver = tserver /\ e.kind = kind /\ e.listen = listen
       /\ e.target = target
  BY <1>1 DEF Rule
<1>11. QED
  BY <1>5, <1>7, <1>8, <1>9, <1>10 DEF e

\* The rules that an edit is about.
Chosen(C, a) == Resolve(C, Selection("forward", a.sel))

LEMMA ChosenFacts ==
  ASSUME NEW C, NEW a
  PROVE  /\ Chosen(C, a) \subseteq C.rules
         /\ GroupEdit(C, a) => Chosen(C, a) = Members(C.rules, a.sel)
BY DEF Chosen, Resolve, Selection, Lookup, ById, Members, GroupEdit

LEMMA EditIsCommand ==
  ASSUME NEW C, WellRead(C), C.schema = SchemaVersion, NEW c, NEW a \in Edits
  PROVE  /\ IsCommand(EditCommand(C, c, a)) /\ EditCommand(C, c, a).op = "replace"
         /\ EditCommand(C, c, a).rules = {EditRule(C, c, a, r) : r \in Chosen(C, a)}
<1>1. \A r \in Chosen(C, a) : IsRule(EditRule(C, c, a, r))
  BY ChosenFacts, EditRuleFacts DEF WellRead, IsConfig
<1> DEFINE sides == (IF a.server = None THEN {}
                     ELSE {Select(C, a.server, FreshId(C, c, "source"))}) \cup
                    (IF a.tserver = None THEN {}
                     ELSE {Select(C, a.tserver, FreshId(C, c, "target"))})
           rules == {EditRule(C, c, a, r) : r \in Chosen(C, a)}
<1>2. EditCommand(C, c, a) = Command("replace", rules, NewAmong(C, sides),
                                     Selection("forward", a.sel))
  BY DEF EditCommand, Chosen
<1>3. \A w \in rules : IsRule(w)
  BY <1>1
<1> HIDE DEF sides, rules
<1>4. QED
  BY <1>2, <1>3 DEF IsCommand, Command, Ops, rules

\* An edit that is applied to the configuration it was planned on is a patch of it.
LEMMA EditPatches ==
  ASSUME NEW C, WellRead(C), C.schema = SchemaVersion, Valid(C), NEW c, NEW a \in Edits,
         \A w \in EditCommand(C, c, a).rules : Readable(w),
         NEW R, R = Replacing(C.rules, {ReadRule(w) : w \in EditCommand(C, c, a).rules})
  PROVE  /\ Ids(R) = Ids(C.rules)
         /\ \A r \in C.rules, q \in R :
              r.id = q.id => IF r \in Chosen(C, a) THEN Untouched(a, r, q) ELSE r = q
         /\ GroupEdit(C, a) /\ a.rename \notin {None, a.sel} => Members(R, a.sel) = {}
<1> DEFINE e(r) == EditRule(C, c, a, r)
           N == {ReadRule(w) : w \in EditCommand(C, c, a).rules}
<1>1. N = {ReadRule(e(r)) : r \in Chosen(C, a)}
      /\ \A r \in Chosen(C, a) : Readable(e(r))
  BY EditIsCommand
<1>2. \A r \in Chosen(C, a) : r \in C.rules /\ IsRule(r) /\ Readable(r) /\ Settled(r)
  BY ChosenFacts DEF WellRead, IsConfig
<1>3. ASSUME NEW r \in Chosen(C, a)
      PROVE  /\ ReadRule(e(r)).id = r.id /\ Untouched(a, r, ReadRule(e(r)))
             /\ GroupEdit(C, a) /\ a.rename # None => ReadRule(e(r)).group = a.rename
  <2>1. /\ IsRule(e(r)) /\ e(r).id = r.id /\ e(r).desired = r.desired
        /\ e(r).group = IF GroupEdit(C, a) /\ a.rename # None THEN a.rename
                        ELSE IF a.group # None THEN a.group
                        ELSE IF a.ungroup THEN None ELSE r.group
        /\ a.rename = None => e(r).name = r.name
        /\ a.server = None => e(r).server = r.server
        /\ a.tserver = None => e(r).tserver = r.tserver
        /\ a.dir = "keep" /\ ~HasPorts(a) =>
             e(r).kind = r.kind /\ e(r).listen = r.listen /\ e(r).target = r.target
    BY <1>2, EditRuleFacts
  <2>2. Readable(e(r))
    BY <1>1
  <2> HIDE DEF e
  <2>3. QED
    BY <2>1, <2>2, ReadFacts DEF Untouched
<1> HIDE DEF e, N
<1>4. R = {x \in C.rules : x.id \notin Ids(N)} \cup N
  BY DEF Replacing, N
<1>5. Ids(N) = Ids(Chosen(C, a))
  BY <1>1, <1>3 DEF Ids
<1>6. \A x, y \in C.rules : x.id = y.id => x = y
  BY DEF Valid, RulesValid, Unique
<1>7. Ids(R) = Ids(C.rules)
  <2>1. Ids(Chosen(C, a)) \subseteq Ids(C.rules)
    BY <1>2 DEF Ids
  <2>2. Ids(R) = Ids({x \in C.rules : x.id \notin Ids(N)}) \cup Ids(N)
    BY <1>4 DEF Ids
  <2>3. QED
    BY <1>5, <2>1, <2>2 DEF Ids
<1>8. ASSUME NEW r \in C.rules, NEW q \in R, r.id = q.id
      PROVE  IF r \in Chosen(C, a) THEN Untouched(a, r, q) ELSE r = q
  <2>1. CASE q \in C.rules /\ q.id \notin Ids(N)
    BY <1>5, <1>6, <1>8, <2>1 DEF Ids
  <2>2. CASE q \in N
    <3>1. PICK s \in Chosen(C, a) : q = ReadRule(e(s))
      BY <1>1, <2>2
    <3>2. r = s
      BY <1>2, <1>3, <1>6, <1>8, <3>1
    <3>3. QED
      BY <1>3, <3>1, <3>2
  <2>3. QED
    BY <1>4, <2>1, <2>2
<1>9. ASSUME GroupEdit(C, a), a.rename \notin {None, a.sel}, NEW q \in R, q.group = a.sel,
             a.sel # None
      PROVE  FALSE
  <2>1. CASE q \in C.rules /\ q.id \notin Ids(N)
    <3>1. q \in Chosen(C, a)
      BY <1>9, <2>1, ChosenFacts DEF Members
    <3>2. QED
      BY <1>5, <2>1, <3>1 DEF Ids
  <2>2. CASE q \in N
    <3>1. PICK s \in Chosen(C, a) : q = ReadRule(e(s))
      BY <1>1, <2>2
    <3>2. QED
      BY <1>3, <1>9, <3>1
  <2>3. QED
    BY <1>4, <2>1, <2>2
<1>10. QED
  BY <1>7, <1>8, <1>9 DEF Members
-----------------------------------------------------------------------------
(***************************************************************************)
(* The invariant: what is in force is valid, a plan was made on a          *)
(* configuration of this version, and an edit whose guard is still the     *)
(* revision in force was planned on the very configuration in force.       *)
(***************************************************************************)

\* NoPlan has no command to replace rules, so that it satisfies the rest as well.
Intended(c) ==
  \/ plan[c] = NoPlan
  \/ /\ InForce
     /\ plan[c] = [cmd |-> plan[c].cmd, guard |-> plan[c].guard, asked |-> plan[c].asked]
     /\ IsCommand(plan[c].cmd)
     /\ plan[c].guard \in Nat /\ plan[c].guard <= saved.revision
     /\ plan[c].cmd.op = "replace" /\ plan[c].guard = saved.revision =>
          plan[c].asked \in Edits /\ plan[c].cmd = EditCommand(saved, c, plan[c].asked)

BInv ==
  /\ WellRead(saved)
  /\ InForce => Valid(saved)
  /\ ~InForce => IsFiniteSet(saved.rules)
  /\ plan = [c \in Clis |-> plan[c]]
  /\ \A c \in Clis : Intended(c)

LEMMA InitBook == Init => BInv
<1> SUFFICES ASSUME Init PROVE BInv
  OBVIOUS
<1>1. /\ IsConfig(saved) /\ IsFiniteSet(saved.rules) /\ \A r \in saved.rules : Readable(r)
      /\ InForce => Valid(saved) /\ \A r \in saved.rules : ReadRule(r) = r
  BY FilesAssumption DEF Init, InForce
<1>2. InForce => \A r \in saved.rules : Settled(r)
  <2>1. \A r \in saved.rules : IsRule(r)
    BY <1>1 DEF IsConfig
  <2>2. \A r \in saved.rules : Settled(ReadRule(r))
    BY <1>1, <2>1, ReadFacts
  <2>3. QED
    BY <1>1, <2>2
<1>3. plan = [c \in Clis |-> plan[c]] /\ \A c \in Clis : plan[c] = NoPlan
  BY DEF Init
<1>4. QED
  BY <1>1, <1>2, <1>3 DEF BInv, WellRead, Intended, InForce

\* A change of the configuration takes a new revision: plans made before are out of date.
LEMMA NewRevision ==
  ASSUME BInv, WellRead(saved'), Valid(saved'), saved'.schema = SchemaVersion,
         InForce => saved' = saved \/ saved'.revision = saved.revision + 1,
         plan' = [c \in Clis |-> plan'[c]],
         \A c \in Clis : plan'[c] \in {plan[c], NoPlan}
  PROVE  BInv'
<1>1. ASSUME NEW c \in Clis PROVE Intended(c)'
  <2>1. CASE plan'[c] = NoPlan
    BY <2>1 DEF Intended
  <2>2. CASE plan'[c] = plan[c] /\ plan[c] # NoPlan
    <3>1. /\ InForce
          /\ plan[c] = [cmd |-> plan[c].cmd, guard |-> plan[c].guard, asked |-> plan[c].asked]
          /\ IsCommand(plan[c].cmd)
          /\ plan[c].guard \in Nat /\ plan[c].guard <= saved.revision
          /\ plan[c].cmd.op = "replace" /\ plan[c].guard = saved.revision =>
               plan[c].asked \in Edits /\ plan[c].cmd = EditCommand(saved, c, plan[c].asked)
      BY <2>2 DEF BInv, Intended
    <3>2. saved.revision \in Nat
      BY DEF BInv, WellRead, IsConfig
    <3>3. CASE saved' = saved
      BY <2>2, <3>1, <3>3 DEF Intended, InForce
    <3>4. CASE saved'.revision = saved.revision + 1
      <4>1. plan[c].guard <= saved'.revision /\ plan[c].guard # saved'.revision
        BY <3>1, <3>2, <3>4
      <4>2. QED
        BY <2>2, <3>1, <4>1 DEF Intended, InForce
    <3>5. QED
      BY <3>1, <3>3, <3>4
  <2>3. QED
    BY <2>1, <2>2
<1>2. QED
  BY <1>1 DEF BInv, InForce

\* A planner leaves the configuration alone and submits under the revision it read.
LEMMA Planned ==
  ASSUME BInv, NEW c \in Clis, NEW cmd, NEW asked, CanCommit, IsCommand(cmd),
         Prepared(c, cmd, asked),
         cmd.op = "replace" => asked \in Edits /\ cmd = EditCommand(saved, c, asked)
  PROVE  BInv'
<1>1. /\ plan' = [d \in Clis |-> plan'[d]] /\ \A d \in Clis \ {c} : plan'[d] = plan[d]
      /\ plan'[c] = [cmd |-> cmd, guard |-> saved.revision, asked |-> asked]
      /\ saved' = saved
  BY DEF BInv, Prepared
<1>2. InForce /\ saved.revision \in Nat
  BY DEF CanCommit, InForce, BInv, WellRead, IsConfig
<1>3. Intended(c)'
  BY <1>1, <1>2 DEF Intended, InForce
<1>4. ASSUME NEW d \in Clis, d # c PROVE Intended(d)'
  BY <1>1, <1>4 DEF BInv, Intended, InForce
<1>5. QED
  BY <1>1, <1>3, <1>4 DEF BInv, InForce

\* The planners.
LEMMA PlanSteps ==
  ASSUME BInv, NEW c \in Clis,
         \/ PlanAdd(c) \/ PlanEdit(c) \/ PlanServerAdd(c) \/ PlanServerEdit(c)
         \/ PlanServerRemove(c) \/ PlanUp(c)
  PROVE  BInv'
<1>1. WellRead(saved)
  BY DEF BInv
<1>2. CASE PlanAdd(c)
  <2>1. PICK a \in Adds : \E pick \in IF a.name = None THEN Picks(saved, a) ELSE {<<>>} :
          CanCommit /\ Prepared(c, AddCommand(saved, c, a, pick), All)
    BY <1>2 DEF PlanAdd, Reads
  <2>2. PICK pick : CanCommit /\ Prepared(c, AddCommand(saved, c, a, pick), All)
    BY <2>1
  <2>3. /\ IsCommand(AddCommand(saved, c, a, pick))
        /\ AddCommand(saved, c, a, pick).op = "create"
    BY AddIsCommand
  <2>4. QED
    BY <2>2, <2>3, Planned
<1>3. CASE PlanEdit(c)
  <2>1. PICK a \in Edits : CanCommit /\ Prepared(c, EditCommand(saved, c, a), a)
    BY <1>3 DEF PlanEdit, Reads
  <2>2. IsCommand(EditCommand(saved, c, a))
    BY <1>1, <2>1, EditIsCommand DEF CanCommit
  <2>3. QED
    BY <2>1, <2>2, Planned
<1>4. ASSUME NEW op \in Ops \ {"replace"}, NEW servers, NEW sel
      PROVE  /\ IsCommand(Command(op, {}, servers, sel))
             /\ Command(op, {}, servers, sel).op # "replace"
  BY DEF IsCommand, Command
<1>5. {"put_server", "remove_server", "up", "restart"} \subseteq Ops \ {"replace"}
  BY DEF Ops
<1>6. CASE PlanServerAdd(c)
  <2>1. PICK servers : CanCommit /\ Prepared(c, Command("put_server", {}, servers, All), All)
    BY <1>6 DEF PlanServerAdd, Reads
  <2>2. QED
    BY <1>4, <1>5, <2>1, Planned
<1>7. CASE PlanServerEdit(c)
  <2>1. PICK servers : CanCommit /\ Prepared(c, Command("put_server", {}, servers, All), All)
    BY <1>7 DEF PlanServerEdit, Reads
  <2>2. QED
    BY <1>4, <1>5, <2>1, Planned
<1>8. CASE PlanServerRemove(c)
  <2>1. PICK sel : CanCommit /\ Prepared(c, Command("remove_server", {}, {}, sel), All)
    BY <1>8 DEF PlanServerRemove, Reads
  <2>2. QED
    BY <1>4, <1>5, <2>1, Planned
<1>9. CASE PlanUp(c)
  <2>1. PICK sel \in Selections, op \in {"up", "restart"} :
          CanCommit /\ Prepared(c, Command(op, {}, {}, sel), All)
    BY <1>9 DEF PlanUp, Reads
  <2>2. QED
    BY <1>4, <1>5, <2>1, Planned
<1>10. QED
  BY <1>2, <1>3, <1>6, <1>7, <1>8, <1>9

\* The commands that arrive.
LEMMA CommandSteps ==
  ASSUME BInv, (\E c \in Clis : Submit(c) \/ Refused(c)) \/ Control \/ Put
  PROVE  BInv'
<1>1. WellRead(saved) /\ plan = [c \in Clis |-> plan[c]]
  BY DEF BInv
<1>2. ASSUME NEW cmd, IsCommand(cmd), CanCommit, Accepts(saved, cmd),
             saved' = Saved(saved, cmd), plan' = [c \in Clis |-> plan'[c]],
             \A c \in Clis : plan'[c] \in {plan[c], NoPlan}
      PROVE  BInv'
  <2>1. saved.schema = SchemaVersion
    BY <1>2 DEF CanCommit
  <2>2. /\ WellRead(saved') /\ Valid(saved') /\ saved'.schema = SchemaVersion
        /\ saved' = saved \/ saved'.revision = saved.revision + 1
    BY <1>1, <1>2, <2>1, SavedFacts
  <2>3. QED
    BY <1>2, <2>2, NewRevision
<1>3. ASSUME NEW c \in Clis, Submit(c) PROVE BInv'
  <2>1. /\ IsCommand(plan[c].cmd) /\ CanCommit /\ Accepts(saved, plan[c].cmd)
        /\ saved' = Saved(saved, plan[c].cmd)
    BY <1>3 DEF Submit, BInv, Intended
  <2>2. plan' = [d \in Clis |-> plan'[d]] /\ \A d \in Clis : plan'[d] \in {plan[d], NoPlan}
    BY <1>1, <1>3 DEF Submit
  <2>3. QED
    BY <1>2, <2>1, <2>2
<1>4. ASSUME NEW c \in Clis, Refused(c) PROVE BInv'
  <2>1. saved' = saved /\ plan' = [plan EXCEPT ![c] = NoPlan]
    BY <1>4 DEF Refused
  <2>2. /\ plan' = [d \in Clis |-> plan'[d]] /\ plan'[c] = NoPlan
        /\ \A d \in Clis \ {c} : plan'[d] = plan[d]
    BY <1>1, <2>1
  <2>3. ASSUME NEW d \in Clis PROVE Intended(d)'
    BY <2>1, <2>2 DEF BInv, Intended, InForce
  <2>4. QED
    BY <2>1, <2>2, <2>3 DEF BInv, InForce
<1>5. CASE Control
  <2>1. PICK sel \in Selections, op \in {"down", "remove"} :
          /\ CanCommit /\ Accepts(saved, Command(op, {}, {}, sel))
          /\ saved' = Saved(saved, Command(op, {}, {}, sel)) /\ plan' = plan
    BY <1>5 DEF Control
  <2>2. IsCommand(Command(op, {}, {}, sel))
    BY DEF IsCommand, Command, Ops
  <2>3. QED
    BY <1>1, <1>2, <2>1, <2>2
<1>6. CASE Put
  <2>1. PICK w \in Written :
          /\ CanCommit /\ Accepts(saved, Command("put", {w}, {}, All))
          /\ saved' = Saved(saved, Command("put", {w}, {}, All)) /\ plan' = plan
    BY <1>6 DEF Put
  <2>2. IsCommand(Command("put", {w}, {}, All))
    BY FilesAssumption DEF IsCommand, Command, Ops
  <2>3. QED
    BY <1>1, <1>2, <2>1, <2>2
<1>7. QED
  BY <1>3, <1>4, <1>5, <1>6

\* The files that are read.
LEMMA FileSteps == ASSUME BInv, Reload \/ Upgrade PROVE BInv'
<1>1. WellRead(saved) /\ plan = [c \in Clis |-> plan[c]]
  BY DEF BInv
<1>2. CASE Reload
  <2>1. PICK d \in Drafts :
          /\ \A w \in d.rules : Readable(w)
          /\ Valid(Loaded(d))
          /\ saved' = [Loaded(d) EXCEPT !.revision = saved.revision + 1]
          /\ plan' = plan
    BY <1>2 DEF Reload
  <2>2. WellRead(Loaded(d)) /\ Loaded(d).schema = SchemaVersion
    BY <2>1, FilesAssumption, LoadedFacts
  <2> DEFINE D == Loaded(d)
             n == saved.revision + 1
  <2>3. n \in Nat
    BY <1>1 DEF WellRead, IsConfig
  <2>4. saved' = [D EXCEPT !.revision = n] /\ Valid(D) /\ WellRead(D) /\ D.schema = SchemaVersion
    BY <2>1, <2>2
  <2> HIDE DEF D, n
  <2>5. saved' = [schema |-> D.schema, revision |-> n, servers |-> D.servers, rules |-> D.rules]
    BY <2>4 DEF WellRead, IsConfig
  <2>6. WellRead(saved') /\ Valid(saved') /\ saved'.schema = SchemaVersion
    BY <2>3, <2>4, <2>5 DEF WellRead, IsConfig, Valid, RulesValid
  <2>7. saved'.revision = saved.revision + 1
    BY <2>5 DEF n
  <2>8. QED
    BY <1>1, <2>1, <2>6, <2>7, NewRevision
<1>3. CASE Upgrade
  <2>1. saved' = Loaded(saved) /\ Valid(Loaded(saved)) /\ plan' = plan /\ ~InForce
    BY <1>3 DEF Upgrade, InForce, SchemaVersion
  <2>2. WellRead(saved') /\ saved'.schema = SchemaVersion
    BY <1>1, <2>1, LoadedFacts DEF WellRead
  <2>3. QED
    BY <1>1, <2>1, <2>2, NewRevision
<1>4. QED
  BY <1>2, <1>3

LEMMA BookStep == ASSUME BInv, [Next]_vars PROVE BInv'
<1>1. CASE UNCHANGED vars
  BY <1>1 DEF vars, BInv, Intended, InForce
<1>2. CASE Next
  BY <1>2, PlanSteps, CommandSteps, FileSteps DEF Next
<1>3. QED
  BY <1>1, <1>2

LEMMA BookInvariant == Spec => []BInv
BY InitBook, BookStep, PTL DEF Spec

\* What is saved and planned always has the shape of the code's types.
THEOREM BookTypeCorrect == Spec => []TypeOK
<1>1. BInv => TypeOK
  <2> SUFFICES ASSUME BInv PROVE TypeOK
    OBVIOUS
  <2>1. saved.schema \in 1 .. SchemaVersion /\ saved.revision \in Nat
    BY DEF BInv, WellRead, IsConfig
  <2>2. \A r \in saved.rules : r.kind \in Kinds /\ r.desired \in {"running", "stopped"}
    BY DEF BInv, WellRead, IsConfig, IsRule
  <2>3. InForce => \A r \in saved.rules : r.mode \in {"shared", "dedicated"}
                                          /\ r.cleanup \in {"off", "verified"}
    BY DEF BInv, WellRead, Settled, InForce
  <2>4. ASSUME NEW c \in Clis
        PROVE  /\ plan[c].cmd.op \in Ops /\ plan[c].guard \in {NoGuard} \cup Nat
               /\ plan[c].guard <= saved.revision
    <3>1. CASE plan[c] = NoPlan
      <4>1. NoPlan.cmd.op = "none" /\ NoPlan.guard = -1
        BY DEF NoPlan, NoCommand, Command, NoGuard
      <4>2. QED
        BY <2>1, <3>1, <4>1 DEF Ops, NoGuard
    <3>2. CASE plan[c] # NoPlan
      BY <3>2 DEF BInv, Intended, IsCommand
    <3>3. QED
      BY <3>1, <3>2
  <2>5. QED
    BY <2>1, <2>2, <2>3, <2>4 DEF TypeOK
<1>2. QED
  BY <1>1, BookInvariant, PTL

\* Whatever is added, renamed, grouped, reloaded or migrated, a label names one rule or one
\* group, and one server (Config::forward, server, select_forwards).
THEOREM LabelsAreUnambiguous == Spec => []OneMeaning
<1>1. BInv => OneMeaning
  <2> SUFFICES ASSUME BInv, InForce PROVE OneMeaning
    BY DEF OneMeaning
  <2>1. /\ Unique(saved.rules) /\ Unambiguous(saved.rules)
        /\ Groups(saved.rules) \cap Ids(saved.rules) = {}
        /\ Groups(saved.rules) \cap Names(saved.rules) = {}
        /\ Unique(saved.servers) /\ Unambiguous(saved.servers)
    BY DEF BInv, Valid, RulesValid, SelectorsValid, ServersValid
  <2>2. \A l \in Ids(saved.rules) \cup Names(saved.rules) \cup Groups(saved.rules) :
          Cardinality(Meanings(saved.rules, Groups(saved.rules), l)) = 1
    BY <2>1, LabelsMeanOne
  <2>3. \A l \in Ids(saved.servers) \cup Names(saved.servers) :
          Cardinality(Meanings(saved.servers, {}, l)) = 1
    BY <2>1, LabelsMeanOne
  <2>4. QED
    BY <2>2, <2>3 DEF OneMeaning
<1>2. QED
  BY <1>1, BookInvariant, PTL

\* The rules that are desired running, and the members of a group, can listen at the same
\* time (model::overlaps, Config::validate).
THEOREM ListenersBindTogether == Spec => []BindTogether
<1>1. BInv => BindTogether
  BY ValidBindsTogether DEF BInv, BindTogether
<1>2. QED
  BY <1>1, BookInvariant, PTL

\* A rule whose stale sessions are ended on the server has a session of its own, and so has
\* a relay, whoever wrote it (ForwardSpec::try_from, cleanup::effective, Config::migrate).
THEOREM VerifiedHasItsOwnSession == Spec => []VerifiedIsDedicated
<1>1. BInv => VerifiedIsDedicated
  BY DEF BInv, WellRead, Settled, Readable, VerifiedIsDedicated, InForce, Valid, RulesValid,
         Reverse
<1>2. QED
  BY <1>1, BookInvariant, PTL

\* A file of an older version that was valid then is valid after its migration, with the ids,
\* endpoints and requested states it had (Config::migrate, infer_legacy_groups).
THEOREM MigrationIsSafe == Spec => []UpgradeIsSafe
<1>1. BInv => UpgradeIsSafe
  <2> SUFFICES ASSUME BInv, saved.schema < SchemaVersion PROVE UpgradeIsSafe
    BY DEF UpgradeIsSafe
  <2>1. /\ IsConfig(saved) /\ IsFiniteSet(saved.rules) /\ \A r \in saved.rules : Readable(r)
    BY DEF BInv, WellRead, InForce, SchemaVersion
  <2>2. Valid([saved EXCEPT !.rules = {ReadRule(w) : w \in @}, !.schema = SchemaVersion]) =>
          /\ Valid(Loaded(saved))
          /\ {<<r.id, r.name, r.listen, r.target, r.desired>> : r \in Loaded(saved).rules}
               = {<<r.id, r.name, r.listen, r.target, r.desired>> : r \in saved.rules}
    BY <2>1, MigrationKeeps
  <2>3. QED
    BY <2>2 DEF UpgradeIsSafe
<1>2. QED
  BY <1>1, BookInvariant, PTL

\* An edit changes what it was asked to change and nothing else, of the rules as they are when
\* it is applied, however commands interleave (forwards::edit, expected_revision).
THEOREM EditsArePatches == Spec => EditIsAPatch
<1>1. ASSUME BInv, Next, NEW c \in Clis, plan[c].cmd.op = "replace", plan'[c] = NoPlan,
             saved' # saved
      PROVE  Submit(c)
  <2>1. plan[c] # NoPlan
    BY <1>1 DEF NoPlan, NoCommand, Command
  <2>2. \A d \in Clis : ~PlanAdd(d) /\ ~PlanEdit(d) /\ ~PlanServerAdd(d) /\ ~PlanServerEdit(d)
                        /\ ~PlanServerRemove(d) /\ ~PlanUp(d) /\ ~Refused(d)
    BY <1>1 DEF PlanAdd, PlanEdit, PlanServerAdd, PlanServerEdit, PlanServerRemove, PlanUp,
                Refused, Prepared
  <2>3. ~Control /\ ~Put /\ ~Reload /\ ~Upgrade
    BY <1>1, <2>1 DEF Control, Put, Reload, Upgrade
  <2>4. PICK d \in Clis : Submit(d)
    BY <1>1, <2>2, <2>3 DEF Next
  <2>5. plan' = [plan EXCEPT ![d] = NoPlan] /\ plan = [x \in Clis |-> plan[x]]
    BY <1>1, <2>4 DEF Submit, BInv
  <2>6. d = c
    BY <1>1, <2>1, <2>5
  <2>7. QED
    BY <2>4, <2>6
<1>2. ASSUME BInv, Next, NEW c \in Clis, plan[c].cmd.op = "replace", plan'[c] = NoPlan,
             saved' # saved
      PROVE  LET a == plan[c].asked
             IN  /\ Ids(saved'.rules) = Ids(saved.rules)
                 /\ \A r \in saved.rules, q \in saved'.rules :
                      r.id = q.id => IF r \in Resolve(saved, Selection("forward", a.sel))
                                       THEN Untouched(a, r, q) ELSE r = q
                 /\ GroupEdit(saved, a) /\ a.rename \notin {None, a.sel} =>
                      Members(saved'.rules, a.sel) = {}
  <2> DEFINE a == plan[c].asked
  <2>1. /\ Current(plan[c]) /\ Accepts(saved, plan[c].cmd) /\ saved' = Saved(saved, plan[c].cmd)
        /\ saved.schema = SchemaVersion /\ plan[c] # NoPlan
    BY <1>1, <1>2 DEF Submit, CanCommit
  <2>2. /\ plan[c].guard = saved.revision /\ IsCommand(plan[c].cmd)
        /\ a \in Edits /\ plan[c].cmd = EditCommand(saved, c, a)
    <3>1. /\ IsCommand(plan[c].cmd) /\ plan[c].guard \in Nat
          /\ plan[c].guard = saved.revision => a \in Edits /\ plan[c].cmd = EditCommand(saved, c, a)
      BY <1>2, <2>1 DEF BInv, Intended
    <3>2. plan[c].guard = saved.revision
      BY <2>1, <3>1 DEF Current, NoGuard
    <3>3. QED
      BY <3>1, <3>2
  <2>3. WellRead(saved) /\ Valid(saved)
    BY <1>2, <2>1 DEF BInv, InForce
  <2>4. saved'.rules = Replacing(saved.rules, {ReadRule(w) : w \in EditCommand(saved, c, a).rules})
    BY <1>2, <2>1, <2>2, <2>3, SavedFacts
  <2>5. \A w \in EditCommand(saved, c, a).rules : Readable(w)
    BY <2>1, <2>2 DEF Accepts
  <2> HIDE DEF a
  <2>6. /\ Ids(saved'.rules) = Ids(saved.rules)
        /\ \A r \in saved.rules, q \in saved'.rules :
             r.id = q.id => IF r \in Chosen(saved, a) THEN Untouched(a, r, q) ELSE r = q
        /\ GroupEdit(saved, a) /\ a.rename \notin {None, a.sel} =>
             Members(saved'.rules, a.sel) = {}
    BY <2>1, <2>2, <2>3, <2>4, <2>5, EditPatches
  <2>7. QED
    BY <2>6 DEF Chosen, a
<1>3. BInv /\ [Next]_vars =>
        [\A c \in Clis :
           plan[c].cmd.op = "replace" /\ plan'[c] = NoPlan /\ saved' # saved =>
             LET a == plan[c].asked
             IN  /\ Ids(saved'.rules) = Ids(saved.rules)
                 /\ \A r \in saved.rules, q \in saved'.rules :
                      r.id = q.id => IF r \in Resolve(saved, Selection("forward", a.sel))
                                       THEN Untouched(a, r, q) ELSE r = q
                 /\ GroupEdit(saved, a) /\ a.rename \notin {None, a.sel} =>
                      Members(saved'.rules, a.sel) = {}]_vars
  BY <1>2
<1>4. QED
  BY <1>3, BookInvariant, PTL DEF Spec, EditIsAPatch
=============================================================================
