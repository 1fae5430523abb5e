----------------------------- MODULE SecretTree -----------------------------
(***************************************************************************)
(* How secret names become paths below one tenant's secrets directory.     *)
(*                                                                         *)
(* A name such as infra/db/password is the sequence of its segments; its   *)
(* ciphertext lives in the file infra/db/password.age, so every proper     *)
(* prefix of a name is a namespace directory.  Only the paths that some    *)
(* name of the instance can reach are kept: a path outside Paths is never  *)
(* touched by the store.                                                   *)
(***************************************************************************)
EXTENDS SequencesExt, Requests

CONSTANT DotAge         \* [segment -> segment with the ".age" suffix appended]

ASSUME NamesAssumption == Names \subseteq Seq(DOMAIN DotAge) \ {<< >>}

ASSUME DotAgeAssumption ==
    \A s, t \in DOMAIN DotAge : DotAge[s] = DotAge[t] => s = t

-----------------------------------------------------------------------------

\* secretsDir itself; newStore made it, no operation of the store removes it.
Root == << >>

Parent(path) == Front(path)

\* The file that holds the secret "name".
FileOf(name) == Append(Front(name), DotAge[Last(name)])

\* The directory that holds that file.
HomeOf(name) == Front(name)

Files == { FileOf(n) : n \in Names }

Dirs == UNION { { SubSeq(n, 1, k) : k \in 0 .. Len(n) - 1 } : n \in Names }

Paths == {Root} \cup Dirs \cup Files

\* The directories a path is reached through.
Above(path) == { d \in Paths : IsStrictPrefix(d, path) }

\* The next directory on the way down from "dir" to "goal".
Toward(dir, goal) == SubSeq(goal, 1, Len(dir) + 1)

(***************************************************************************)
(* nameRe allows "." inside a segment, so x (stored in the file x.age) and *)
(* x.age/b (which needs a directory x.age) are both valid names.  A set of *)
(* names is clash-free when no name needs another one's file as its        *)
(* namespace directory.                                                    *)
(***************************************************************************)
NoClash == ({Root} \cup Dirs) \cap Files = {}

=============================================================================
