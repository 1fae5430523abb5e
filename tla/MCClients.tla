----------------------------- MODULE MCClients -----------------------------
(***************************************************************************)
(* A small instance of Clients for TLC, and a statement that the code does *)
(* not keep.                                                               *)
(***************************************************************************)
EXTENDS Clients, TLC

CONSTANTS a, b, aq, v1, v2, v3      \* names and values

\* "a?x" reaches the server as "a".
CutAtQuery == [t \in Typed |-> IF t = aq THEN a ELSE t]

\* Values tell under which name they were set.
ByName == {<<a, v1>>, <<a, v2>>, <<b, v3>>}

\* Commands, machines and keys are interchangeable.
Symmetric == Permutations(Procs) \cup Permutations(Machines) \cup Permutations(Keys)

\* spec.md:69-72: deleting a name that has no stored secret is an error that
\* says so; no other secret goes.
DeletesWhatWasTyped ==
    [][\A n \in Names : store[n] # NoFile /\ store'[n] = NoFile =>
          \E r \in late \cup { run[p] : p \in Procs } : r.op = "delete" /\ r.name = n]_vars

=============================================================================
