-------------------------- MODULE MCForwardEngine --------------------------
(***************************************************************************)
(* Small instances of ForwardEngine: rules, where they listen and which    *)
(* configurations an operator goes through.                                *)
(***************************************************************************)
EXTENDS ForwardEngine, TLC

\* Identities are interchangeable, and so are remote rules on one port.
Alike == Permutations(Keys) \cup Permutations(Remote)

\* A local rule l and remote rules m and n.  Both remote rules listen on the same port.
PortOf == [r \in Rules |-> IF r \in Remote THEN "remote" ELSE "local"]
Absent == [key |-> NoKey, on |-> FALSE]
On(k) == [key |-> k, on |-> TRUE]
Off(k) == [key |-> k, on |-> FALSE]

\* Every valid configuration in which each rule uses one of the identities.
Valid(c) == \A r, q \in Rules :
  /\ r # q /\ Runs(c, r) /\ Runs(c, q) => ~(r \in Remote <=> q \in Remote)
  /\ r # q /\ r \in Verified /\ c[r].key # NoKey => c[q].key # c[r].key
AllConfigs == {c \in [Rules -> {Absent} \cup {On(k) : k \in Keys} \cup {Off(k) : k \in Keys}] :
                 Valid(c)}

\* Those with at most two rules, where a rule that takes a port replaces its owner.
FewConfigs == {c \in AllConfigs : Cardinality({r \in Rules : c[r] # Absent}) <= 2}
=============================================================================
