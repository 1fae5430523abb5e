-------------------------- MODULE AbstractRotation --------------------------
(***************************************************************************)
(* What rotate-identity promises an operator who stops the server first    *)
(* and recovers before going on: one user's secrets change at one instant  *)
(* from the old identity to the new one, all of them or none, and whatever *)
(* else a run does (abort, dry run, death at any point) changes nothing.   *)
(***************************************************************************)
EXTENDS Ciphertexts

VARIABLES
    secrets,    \* the user's secrets: [name -> ciphertext or NoFile]
    identity,   \* the keys in the configured identity file
    serving     \* does the server accept requests?

vars == <<secrets, identity, serving>>

Init ==
    /\ secrets \in [Names -> Ciphertexts \cup {NoFile}]
    /\ identity \in SUBSET Keys
    /\ serving = FALSE

Set ==
    /\ serving
    /\ \E n \in Names \ Invalid, k \in identity, v \in Values :
        secrets' = [secrets EXCEPT ![n] = [key |-> k, bound |-> n, value |-> v]]
    /\ UNCHANGED <<identity, serving>>

Delete ==
    /\ serving
    /\ \E n \in Listed(secrets) \ Invalid : secrets' = [secrets EXCEPT ![n] = NoFile]
    /\ UNCHANGED <<identity, serving>>

Rotate(new) ==
    /\ ~serving
    /\ \A n \in Listed(secrets) : Migrates(n, secrets[n], identity)
    /\ secrets' = [n \in Names |->
                    IF secrets[n] = NoFile THEN NoFile ELSE Rotated(n, secrets[n], new)]
    /\ UNCHANGED <<identity, serving>>

\* The operator installs another identity file, or starts or stops the server.
Configure ==
    /\ \E k \in Keys : identity' = {k}
    /\ UNCHANGED <<secrets, serving>>

Toggle ==
    /\ serving' = ~serving
    /\ UNCHANGED <<secrets, identity>>

Next ==
    \/ Set \/ Delete
    \/ \E new \in Keys : Rotate(new)
    \/ Configure \/ Toggle

Spec == Init /\ [][Next]_vars

=============================================================================
