--------------------------- MODULE MCRotateToken ---------------------------
(***************************************************************************)
(* RotateToken on small sets for TLC.                                      *)
(***************************************************************************)
EXTENDS RotateToken, TLC

CONSTANTS alice, Alice, bob, badname,           \* user names
          t1, t2, t3, t4,                       \* well-formed tokens
          empty,                                \* a malformed one
          r1, r2,                               \* runs
          conf1, conf2                          \* the rest of the file

\* "Alice" and "alice" are the only names equal in lower case.
LowerCase == [n \in {alice, Alice, bob, badname} |->
                IF n = Alice THEN alice ELSE n]

\* No pair, half a pair, a user of the file's, one of its own.
SomeEnvironments ==
    {[name |-> Unset, token |-> Unset], [name |-> Unset, token |-> t2],
     [name |-> bob, token |-> t2]}

Pairs(names, tokens) ==
    {<<[name |-> m, token |-> t], [name |-> n, token |-> u]>> :
        m \in names, n \in names, t \in tokens, u \in tokens}

\* One or two users, right or wrong in every way the rules know.
AnyUsers ==
    {<<[name |-> alice, token |-> t]>> : t \in {t1, empty}}
    \cup Pairs({alice, bob}, {t1, t2, empty})
    \cup {<<[name |-> alice, token |-> t1], [name |-> n, token |-> t2]>> :
            n \in {Alice, badname}}

\* Runs are alike, and so are tokens that no initial state has.
Alike == Permutations({r1, r2}) \cup Permutations({t3, t4})

=============================================================================
