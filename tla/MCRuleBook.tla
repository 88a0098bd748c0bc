----------------------------- MODULE MCRuleBook -----------------------------
(***************************************************************************)
(* A small instance of RuleBook: servers a and b, a group of two rules, a  *)
(* relay, two commands at once, and older files to upgrade.                *)
(***************************************************************************)
EXTENDS RuleBook, TLC

L(x) == <<x>>
Here(p) == Address("127.0.0.1", p)
There(p) == Address("localhost", p)

A == Server(L("sa"), L("a"), <<"host", "a">>, "")
B == Server(L("b"), L("b"), <<"alias", "b">>, "u")
Web(n, p, desired) ==
  Rule(L(n), Append(L("web"), p), L("web"), L("sa"), None, "local", Here(p), There(p),
       desired, "shared", "off")
Relay == Rule(L("r3"), L("hop"), None, L("sa"), L("b"), "relay", Here(1), There(2), "running",
              "dedicated", "verified")

Book == [schema |-> 4, revision |-> 1, servers |-> {A, B},
         rules |-> {Web("r1", 1, "running"), Web("r2", 2, "stopped"), Relay}]

Add(name, group, server, tserver, kind, ports, src, tgt) ==
  [name |-> name, group |-> group, server |-> server, tserver |-> tserver, kind |-> kind,
   ports |-> ports, src |-> src, tgt |-> tgt, disabled |-> FALSE, mode |-> "unset",
   cleanup |-> "unset"]

\* Two ports named twice over, more ports than allowed, a source without its target.
AddArgs ==
  { Add(None, None, L("a"), None, "remote", {<<1, 2>>, <<2, 2>>}, "::", There(1)),
    Add(None, L("web"), L("new"), None, "dynamic", {<<2, 2>>}, "::ffff:127.0.0.1", NoTarget),
    Add(L("r1"), None, L("a"), L("b"), "relay", {<<2, 2>>}, "0.0.0.0", There(2)),
    Add(None, None, L("b"), None, "local", {<<1, 3>>}, "", NoTarget),
    Add(None, None, L("b"), None, "local", {<<2, 2>>}, "0.0.0.0", NoTarget),
    [Add(L("w"), None, L("b"), None, "remote", {<<1, 1>>}, "", NoTarget) EXCEPT
       !.mode = "shared", !.cleanup = "off"] }

Edit(sel) ==
  [sel |-> sel, rename |-> None, group |-> None, ungroup |-> FALSE, server |-> None,
   tserver |-> None, dir |-> "keep", port |-> 0, src |-> NoTarget, tgt |-> NoTarget,
   mode |-> "unset", cleanup |-> "unset"]

EditArgs ==
  { [Edit(L("web")) EXCEPT !.rename = L("w")],
    [Edit(L("hop")) EXCEPT !.server = L("new"), !.tserver = L("a")],
    [Edit(L("r1")) EXCEPT !.dir = "remote", !.src = Address("::", 2)],
    [Edit(L("r2")) EXCEPT !.rename = L("hop2"), !.ungroup = TRUE],
    [Edit(L("web")) EXCEPT !.group = L("r4"), !.tgt = There(2)],
    [Edit(L("hop")) EXCEPT !.port = 2, !.cleanup = "off"],
    [Edit(L("r1")) EXCEPT !.group = L("w"), !.ungroup = TRUE],
    [Edit(L("w")) EXCEPT !.dir = "dynamic", !.src = Here(2), !.mode = "dedicated"] }

ServerAddArgs == { [name |-> L("sb"), dest |-> <<"host", "c">>, user |-> ""],
                   [name |-> L("sa"), dest |-> <<"host", "c">>, user |-> ""] }
ServerEditArgs == { [sel |-> L("b"), rename |-> L("c"), dest |-> <<"host", "c">>, user |-> "keep"] }

Chosen == { All, Selection("server", L("b")), Selection("forward", L("web")),
            Selection("forward", L("r2")), Selection("group", L("w")) }

CONSTANTS c1, c2
Alike == Permutations({c1, c2})

Json ==
  { Rule(L("r5"), L("v6"), None, L("b"), None, "dynamic", Address("::ffff:127.0.0.1", 1), NoTarget,
         "running", "unset", "unset"),
    [Web("r2", 1, "running") EXCEPT !.listen = Address("::", 1), !.name = L("r2")],
    [Relay EXCEPT !.id = L("r4"), !.name = L("web"), !.mode = "unset", !.cleanup = "off"],
    [Relay EXCEPT !.kind = "remote", !.tserver = None, !.mode = "shared",
                  !.cleanup = "unset", !.listen = Address("::ffff:0.0.0.0", 2)] }

\* Files of older versions: batches whose names, groups and listeners may clash.
Old(n, name, group, kind, ip, p) ==
  Rule(L(n), name, group, L("sa"), None, kind, Address(ip, p),
       IF kind \in Targeted THEN There(p) ELSE NoTarget, "stopped", "shared", "off")

OldRules ==
  { Old("r1", Append(L("web"), 1), None, k, ip, 1) : k \in {"local", "remote"}, ip \in {"127.0.0.1", "::"} }
OldMates ==
  { Old("r2", name, group, k, "127.0.0.1", p) : name \in {Append(L("web"), 2), L("web"), Append(L("web"), 3)},
      group \in {None, L("web")}, k \in {"local", "remote"}, p \in {1, 2} }
OldThirds ==
  { Old(n, Append(x, p), None, "local", "0.0.0.0", p) :
      n \in {"r3", "web"}, x \in {L("web"), L("")}, p \in {1, 2, 4} }

OldFiles ==
  { [schema |-> v, revision |-> 2, servers |-> {A}, rules |-> {r, q, t}] :
      v \in 1 .. 3, r \in OldRules, q \in OldMates, t \in OldThirds }

Files == {Book} \cup OldFiles
Candidates ==
  { [schema |-> 2, revision |-> 0, servers |-> {A, B},
     rules |-> {Old("r1", Append(L("web"), 1), None, "remote", "::", 1),
                Old("r2", Append(L("web"), 2), None, "local", "127.0.0.1", 2)}],
    [Book EXCEPT !.rules = {[r EXCEPT !.group = None] : r \in @}] }
Vocabulary == { L("x"), L("y"), L("z") }
=============================================================================
