-------------------------- MODULE MCRotateIdentity --------------------------
(***************************************************************************)
(* Small instances of RotateIdentity for TLC, and a statement that the     *)
(* code does not keep.                                                     *)
(***************************************************************************)
EXTENDS RotateIdentity, TLC

\* Invocations, keys and valid names are interchangeable.
Symmetric == Permutations(Runs) \cup Permutations(Keys) \cup Permutations(Names \ Invalid)

-----------------------------------------------------------------------------
\* All that the specification asks of an operator: the server is down, and
\* runs are made one at a time.
QuietSpec ==
    Init /\ [][/\ Next
               /\ server' = "down"
               /\ \A q, r \in Runs : (Active(q) /\ Active(r))' => q = r]_vars

-----------------------------------------------------------------------------
\* rotate_identity.go:301-305: after a failed second rename the operator may
\* "complete the rotation" by moving the staging directory into place.
GuidanceHolds ==
    \A r \in Runs : pc[r] = "done" /\ outcome[r] = "critical" => staging[r] # NoDir

=============================================================================
