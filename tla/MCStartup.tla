----------------------------- MODULE MCStartup -----------------------------
(***************************************************************************)
(* Startup on small sets for TLC: a file system that ignores case.         *)
(***************************************************************************)
EXTENDS Startup, TLC

CONSTANTS alice, Alice, bob,            \* user names
          t1, t2, short,                \* tokens, the last one malformed
          dirA, dirB, note, sib1, sib2  \* entries

LowerCase == [n \in {alice, Alice, bob} |-> IF n = Alice THEN alice ELSE n]

IgnoringCase == [n \in {alice, Alice, bob} |-> IF n = bob THEN dirB ELSE dirA]

Sorted == (dirA :> 1) @@ (sib1 :> 2) @@ (sib2 :> 3) @@ (dirB :> 4) @@ (note :> 5)

NoPair == [name |-> Unset, token |-> Unset]

\* One user, two, a pair that joins, one that clashes, half of one.
SomeConfigs ==
    LET a == [name |-> alice, token |-> t1]
        b == [name |-> bob, token |-> t2]
    IN  {[users |-> <<a>>, env |-> NoPair], [users |-> <<a, b>>, env |-> NoPair],
         [users |-> <<b>>, env |-> a],
         [users |-> <<a>>, env |-> [name |-> Alice, token |-> t2]],
         [users |-> <<a>>, env |-> [name |-> Unset, token |-> t2]],
         [users |-> <<[name |-> alice, token |-> short]>>, env |-> NoPair]}

=============================================================================
