-------------------------- MODULE SecretTreeProofs --------------------------
(***************************************************************************)
(* What the store's proofs need to know of names and paths.                *)
(***************************************************************************)
EXTENDS SecretTree, SequenceTheorems, TLAPS

Elements == DOMAIN DotAge \cup { DotAge[s] : s \in DOMAIN DotAge }

\* A name is a non-empty sequence: a namespace directory and a last segment.
LEMMA NameParts ==
    ASSUME NEW n \in Names
    PROVE  /\ n \in Seq(DOMAIN DotAge)
           /\ Len(n) \in Nat \ {0}
           /\ HomeOf(n) \in Seq(DOMAIN DotAge)
           /\ Len(HomeOf(n)) = Len(n) - 1
           /\ Last(n) \in DOMAIN DotAge
           /\ n = Append(HomeOf(n), Last(n))
<1>1. n \in Seq(DOMAIN DotAge) /\ n # << >>
  BY NamesAssumption
<1>2. Len(n) \in Nat \ {0}
  BY <1>1
<1>3. HomeOf(n) \in Seq(DOMAIN DotAge) /\ Len(HomeOf(n)) = Len(n) - 1
  <2>1. \A i \in 1 .. Len(n) - 1 : n[i] \in DOMAIN DotAge
    BY <1>1, <1>2
  <2>2. HomeOf(n) = SubSeq(n, 1, Len(n) - 1)
    BY DEF HomeOf, Front
  <2>3. SubSeq(n, 1, Len(n) - 1) \in Seq(DOMAIN DotAge)
    BY <1>2, <2>1, SubSeqProperties
  <2>4. Len(SubSeq(n, 1, Len(n) - 1)) = Len(n) - 1
    <3> DEFINE k == Len(n) - 1
    <3>1. k \in Nat /\ k \in Int /\ \A i \in 1 .. k : n[i] \in DOMAIN DotAge
      BY <1>2, <2>1
    <3> HIDE DEF k
    <3>2. Len(SubSeq(n, 1, k)) = IF 1 <= k THEN k - 1 + 1 ELSE 0
      BY <3>1, SubSeqProperties
    <3>3. Len(SubSeq(n, 1, k)) = k
      BY <3>1, <3>2
    <3> QED
      BY <3>3 DEF k
  <2> QED
    BY <2>2, <2>3, <2>4
<1>4. Last(n) \in DOMAIN DotAge
  BY <1>1, <1>2 DEF Last
<1>5. n = Append(HomeOf(n), Last(n))
  BY <1>1, <1>2, <1>3, <1>4 DEF HomeOf, Front, Last
<1> QED
  BY <1>1, <1>2, <1>3, <1>4, <1>5

\* The file of a secret lies in the namespace directory of its name.
LEMMA FileHome ==
    ASSUME NEW n \in Names
    PROVE  /\ FileOf(n) \in Paths
           /\ FileOf(n) # Root
           /\ Parent(FileOf(n)) = HomeOf(n)
           /\ HomeOf(n) \in Dirs
           /\ HomeOf(n) \in Paths
<1> DEFINE age == DotAge[Last(n)]
<1>1. HomeOf(n) \in Seq(Elements) /\ age \in Elements /\ FileOf(n) = Append(HomeOf(n), age)
  BY NameParts DEF Elements, FileOf, HomeOf
<1>2. FileOf(n) # Root
  BY <1>1 DEF Root
<1>3. Parent(FileOf(n)) = HomeOf(n)
  BY <1>1, AppendProperties DEF Parent, Front
<1>4. HomeOf(n) \in Dirs
  <2>1. HomeOf(n) = SubSeq(n, 1, Len(n) - 1)
    BY DEF HomeOf, Front
  <2>2. Len(n) - 1 \in 0 .. Len(n) - 1
    BY NameParts
  <2> QED
    BY <2>1, <2>2 DEF Dirs
<1> QED
  BY <1>2, <1>3, <1>4 DEF Paths, Files

\* Two names never share a file.
LEMMA FileOfInjective ==
    ASSUME NEW n \in Names, NEW m \in Names, FileOf(n) = FileOf(m)
    PROVE  n = m
<1>1. HomeOf(n) = HomeOf(m)
  BY FileHome
<1>2. /\ FileOf(n) = Append(HomeOf(n), DotAge[Last(n)])
      /\ FileOf(m) = Append(HomeOf(m), DotAge[Last(m)])
  BY DEF FileOf, HomeOf
<1>3. DotAge[Last(n)] = DotAge[Last(m)]
  <2>1. HomeOf(n) \in Seq(Elements)
    BY NameParts DEF Elements
  <2>2. DotAge[Last(n)] \in Elements /\ DotAge[Last(m)] \in Elements
    BY NameParts DEF Elements
  <2>3. Append(HomeOf(n), DotAge[Last(n)]) = Append(HomeOf(n), DotAge[Last(m)])
    BY <1>1, <1>2
  <2> QED
    BY <2>1, <2>2, <2>3, AppendInjective
<1>4. Last(n) = Last(m)
  BY <1>3, NameParts, DotAgeAssumption
<1> QED
  BY <1>1, <1>4, NameParts

\* The directory above a directory is one.
LEMMA ParentOfDir ==
    ASSUME NEW d \in {Root} \cup Dirs
    PROVE  Parent(d) \in {Root} \cup Dirs
<1>1. CASE d = Root
  BY <1>1 DEF Root, Parent, Front
<1>2. CASE d # Root
  <2>1. PICK n \in Names : \E k \in 0 .. Len(n) - 1 : d = SubSeq(n, 1, k)
    BY <1>2 DEF Dirs
  <2>k. PICK k \in 0 .. Len(n) - 1 : d = SubSeq(n, 1, k)
    BY <2>1
  <2>2. n \in Seq(DOMAIN DotAge) /\ Len(n) \in Nat
    BY NameParts
  <2>3. k # 0
    BY <1>2, <2>k, <2>2 DEF Root
  <2>4. Len(d) = k /\ d \in Seq(DOMAIN DotAge)
    BY <2>k, <2>2
  <2>5. Parent(d) = SubSeq(n, 1, k - 1)
    BY <2>k, <2>2, <2>3, <2>4 DEF Parent, Front
  <2> QED
    BY <2>k, <2>2, <2>3, <2>5 DEF Dirs
<1> QED
  BY <1>1, <1>2

LEMMA DirIsSeq ==
    ASSUME NEW d \in {Root} \cup Dirs
    PROVE  d \in Seq(DOMAIN DotAge) /\ Len(d) \in Nat
<1>1. CASE d = Root
  BY <1>1 DEF Root
<1>2. CASE d # Root
  <2>1. PICK n \in Names : \E k \in 0 .. Len(n) - 1 : d = SubSeq(n, 1, k)
    BY <1>2 DEF Dirs
  <2>2. n \in Seq(DOMAIN DotAge) /\ Len(n) \in Nat
    BY NameParts
  <2> QED
    BY <2>1, <2>2
<1> QED
  BY <1>1, <1>2

\* "d" lies on the way from the root down to "g", or is "g".
OnWay(d, g) == Len(d) \in 0 .. Len(g) /\ d = SubSeq(g, 1, Len(d))

\* Every step of the way down to a namespace directory is one.
LEMMA PrefixOfDir ==
    ASSUME NEW g \in Dirs, NEW k \in 0 .. Len(g)
    PROVE  /\ SubSeq(g, 1, k) \in Dirs
           /\ Len(SubSeq(g, 1, k)) = k
           /\ OnWay(SubSeq(g, 1, k), g)
<1>1. g \in Seq(DOMAIN DotAge) /\ Len(g) \in Nat
  BY DirIsSeq
<1>2. Len(SubSeq(g, 1, k)) = k
  BY <1>1
<1>3. SubSeq(g, 1, k) \in Dirs
  <2>1. PICK n \in Names : \E j \in 0 .. Len(n) - 1 : g = SubSeq(n, 1, j)
    BY DEF Dirs
  <2>2. PICK j \in 0 .. Len(n) - 1 : g = SubSeq(n, 1, j)
    BY <2>1
  <2>3. n \in Seq(DOMAIN DotAge) /\ Len(n) \in Nat
    BY NameParts
  <2>4. Len(g) = j
    BY <2>2, <2>3
  <2>5. SubSeq(g, 1, k) = SubSeq(n, 1, k)
    BY <2>2, <2>3, <2>4
  <2>6. k \in 0 .. Len(n) - 1
    BY <2>3, <2>4
  <2> QED
    BY <2>5, <2>6 DEF Dirs
<1> QED
  BY <1>2, <1>3 DEF OnWay

LEMMA TowardGoal ==
    ASSUME NEW g \in Dirs, NEW d \in {Root} \cup Dirs, OnWay(d, g), d # g
    PROVE  /\ Toward(d, g) \in Dirs
           /\ Toward(d, g) # Root
           /\ OnWay(Toward(d, g), g)
           /\ Parent(Toward(d, g)) = d
<1>1. g \in Seq(DOMAIN DotAge) /\ Len(g) \in Nat
  BY DirIsSeq
<1>2. d = SubSeq(g, 1, Len(d)) /\ Len(d) \in 0 .. Len(g)
  BY DEF OnWay
<1>3. Len(d) # Len(g)
  BY <1>1, <1>2, SubSeqFull
<1>4. Len(d) + 1 \in 0 .. Len(g)
  BY <1>1, <1>2, <1>3
<1>5. /\ Toward(d, g) \in Dirs
      /\ Len(Toward(d, g)) = Len(d) + 1
      /\ OnWay(Toward(d, g), g)
  BY <1>4, PrefixOfDir DEF Toward
<1>6. Toward(d, g) # Root
  BY <1>1, <1>2, <1>5 DEF Root
<1>7. Parent(Toward(d, g)) = SubSeq(g, 1, Len(d))
  BY <1>1, <1>2, <1>4, <1>5 DEF Parent, Front, Toward
<1> QED
  BY <1>2, <1>5, <1>6, <1>7

LEMMA ParentOnWay ==
    ASSUME NEW g \in Dirs, NEW d \in {Root} \cup Dirs, OnWay(d, g)
    PROVE  OnWay(Parent(d), g)
<1>1. g \in Seq(DOMAIN DotAge) /\ Len(g) \in Nat
  BY DirIsSeq
<1>2. d = SubSeq(g, 1, Len(d)) /\ Len(d) \in 0 .. Len(g)
  BY DEF OnWay
<1>3. CASE Len(d) = 0
  BY <1>1, <1>2, <1>3 DEF Parent, Front, OnWay
<1>4. CASE Len(d) # 0
  <2>1. Len(d) - 1 \in 0 .. Len(g)
    BY <1>1, <1>2, <1>4
  <2>2. Parent(d) = SubSeq(g, 1, Len(d) - 1)
    BY <1>1, <1>2, <1>4 DEF Parent, Front
  <2> QED
    BY <2>1, <2>2, PrefixOfDir
<1> QED
  BY <1>3, <1>4

\* A namespace directory is on the way to itself.
LEMMA HomeOnWay ==
    ASSUME NEW g \in Dirs
    PROVE  OnWay(g, g)
<1>1. g \in Seq(DOMAIN DotAge) /\ Len(g) \in Nat
  BY DirIsSeq
<1> QED
  BY <1>1, SubSeqFull DEF OnWay

=============================================================================
