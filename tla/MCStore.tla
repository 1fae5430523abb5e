------------------------------ MODULE MCStore ------------------------------
(***************************************************************************)
(* Small instances of Store for TLC: sets of names, the ".age" suffix on   *)
(* their segments.                                                         *)
(***************************************************************************)
EXTENDS Store

\* One namespace with two secrets, and one secret at the top level.
NamesFlat == { <<"n", "y">>, <<"n", "z">>, <<"x">> }

\* The smallest two-level tree.
NamesPair == { <<"n", "m", "y">>, <<"n", "w">> }

\* The file of x is a directory on the way to x.age/m/b and to x.age/c.
NamesClash == { <<"x">>, <<"x.age", "m", "b">>, <<"x.age", "c">> }

MCDotAge == [s \in {"n", "m", "w", "y", "z", "x", "x.age", "b", "c"} |-> s \o ".age"]

\* Only the instance made for it has a file where a namespace should be.
ASSUME InstanceClash == NoClash <=> Names # NamesClash

\* Handlers and values are interchangeable.
HandlerSymmetry == Permutations(Handlers)
Symmetric == Permutations(Handlers) \cup Permutations(Values)

=============================================================================
