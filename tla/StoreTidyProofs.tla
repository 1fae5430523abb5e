--------------------------- MODULE StoreTidyProofs ---------------------------
(***************************************************************************)
(* Proofs about Store.  Without faults and clashes, an empty namespace     *)
(* directory always has a handler that still deals with it, so that none   *)
(* is left when the last request is answered.  In any case, each request   *)
(* is answered after a number of its own calls known when it arrives.      *)
(***************************************************************************)
EXTENDS StoreProofs, FiniteSetTheorems

-----------------------------------------------------------------------------
\* Paths.

LEMMA PathIsSeq ==
    ASSUME NEW p \in Paths
    PROVE  p \in Seq(Elements) /\ Len(p) \in Nat
<1>1. CASE p \in {Root} \cup Dirs
  BY <1>1, DirIsSeq DEF Elements
<1>2. CASE p \in Files
  <2>1. PICK n \in Names : p = FileOf(n)
    BY <1>2 DEF Files
  <2>2. /\ HomeOf(n) \in Seq(Elements)
        /\ DotAge[Last(n)] \in Elements
    BY NameParts DEF Elements
  <2> QED
    BY <2>1, <2>2 DEF FileOf, HomeOf
<1> QED
  BY <1>1, <1>2 DEF Paths

\* What is above a directory is a directory on the way to it.
LEMMA AboveDir ==
    ASSUME NEW g \in {Root} \cup Dirs, NEW d \in Above(g)
    PROVE  /\ d \in Dirs /\ g \in Dirs
           /\ OnWay(d, g) /\ d # g /\ Len(d) < Len(g)
<1>1. d \in Seq(Elements) /\ Len(d) \in Nat
  BY PathIsSeq DEF Above
<1>2. g \in Seq(DOMAIN DotAge) /\ Len(g) \in Nat
  BY DirIsSeq
<1>3. Len(d) <= Len(g) /\ SubSeq(d, 1, Len(d)) = SubSeq(g, 1, Len(d)) /\ d # g
  BY DEF Above, IsStrictPrefix, IsPrefix
<1>4. d = SubSeq(g, 1, Len(d)) /\ Len(d) \in 0 .. Len(g)
  BY <1>1, <1>2, <1>3, SubSeqFull
<1>5. Len(d) # Len(g)
  BY <1>2, <1>3, <1>4, SubSeqFull
<1>6. g # Root
  BY <1>1, <1>2, <1>3, <1>5 DEF Root
<1>7. d \in Dirs
  BY <1>4, <1>6, PrefixOfDir
<1> QED
  BY <1>1, <1>2, <1>3, <1>4, <1>5, <1>6, <1>7 DEF OnWay

LEMMA OnWayIsAbove ==
    ASSUME NEW g \in Dirs, NEW d \in {Root} \cup Dirs, OnWay(d, g), d # g
    PROVE  d \in Above(g)
<1>1. d \in Seq(DOMAIN DotAge) /\ Len(d) \in Nat /\ Len(g) \in Nat
  BY DirIsSeq
<1> QED
  BY <1>1, SubSeqFull DEF Above, Paths, IsStrictPrefix, IsPrefix, OnWay

\* One level up.
LEMMA ParentAbove ==
    ASSUME NEW g \in Dirs, NEW c \in Dirs \ {Root}, OnWay(c, g)
    PROVE  Parent(c) \in Dirs /\ Parent(c) \in Above(g)
<1>1. g \in Seq(DOMAIN DotAge) /\ Len(g) \in Nat
  BY DirIsSeq
<1>2. c = SubSeq(g, 1, Len(c)) /\ Len(c) \in 0 .. Len(g) /\ c \in Seq(DOMAIN DotAge)
  BY DirIsSeq DEF OnWay
<1>3. Len(c) # 0
  BY <1>2 DEF Root
<1>4. Len(c) - 1 \in 0 .. Len(g) /\ Len(c) - 1 # Len(g)
  <2>1. Len(c) \in Nat \ {0} /\ Len(g) \in Nat /\ Len(c) <= Len(g)
    BY <1>1, <1>2, <1>3
  <2> QED
    BY <2>1
<1>5. Parent(c) = SubSeq(g, 1, Len(c) - 1)
  BY <1>1, <1>2, <1>3 DEF Parent, Front
<1>6. /\ Parent(c) \in Dirs
      /\ Len(Parent(c)) = Len(c) - 1
      /\ OnWay(Parent(c), g)
  BY <1>4, <1>5, PrefixOfDir
<1> QED
  BY <1>4, <1>6, OnWayIsAbove

LEMMA AboveParent ==
    ASSUME NEW g \in Dirs \ {Root}, NEW d \in Above(g), d # Parent(g)
    PROVE  d \in Above(Parent(g))
<1>1. g \in Seq(DOMAIN DotAge) /\ Len(g) \in Nat
  BY DirIsSeq
<1>2. d \in Dirs /\ OnWay(d, g) /\ Len(d) < Len(g)
  BY AboveDir
<1>3. Len(g) # 0
  BY <1>1 DEF Root
<1>4. Parent(g) = SubSeq(g, 1, Len(g) - 1) /\ Len(g) - 1 \in 0 .. Len(g)
  BY <1>1, <1>3 DEF Parent, Front
<1>5. Parent(g) \in Dirs /\ Len(Parent(g)) = Len(g) - 1
  BY <1>4, PrefixOfDir
<1>6. Len(d) \in 0 .. Len(g) - 1 /\ d = SubSeq(g, 1, Len(d))
  BY <1>1, <1>2 DEF OnWay
<1>7. SubSeq(Parent(g), 1, Len(d)) = SubSeq(g, 1, Len(d))
  BY <1>1, <1>4, <1>6
<1>8. OnWay(d, Parent(g))
  BY <1>5, <1>6, <1>7 DEF OnWay
<1> QED
  BY <1>2, <1>5, <1>8, OnWayIsAbove

\* Something stands between a directory and one below it, or is that one.
LEMMA ChildOnWay ==
    ASSUME NEW g \in Dirs, NEW d \in Above(g)
    PROVE  \E c \in Dirs \ {Root} : Parent(c) = d /\ (c = g \/ c \in Above(g))
<1>1. d \in Dirs /\ OnWay(d, g) /\ d # g
  BY AboveDir
<1>2. /\ Toward(d, g) \in Dirs \ {Root} /\ Parent(Toward(d, g)) = d
      /\ OnWay(Toward(d, g), g)
  BY <1>1, TowardGoal
<1> QED
  BY <1>2, OnWayIsAbove

-----------------------------------------------------------------------------
\* Who is certain to deal with an empty directory "d", whatever others do: a
\* set that is about to put an entry into it, and a cleanup loop at or below
\* it.  A set elsewhere on its way attends to d, but may still give up.
Minds(h, d) ==
    \/ pc[h] = "mkdir" /\ d = Parent(cursor[h])
    \/ pc[h] \in {"resolve", "create"} /\ d = Goal(h)
    \/ pc[h] \in {"readdir", "rmdir"} /\ (d = cursor[h] \/ d \in Above(cursor[h]))

EmptyIsMinded ==
    \A d \in Dirs \ {Root} :
        IsDir(d) /\ Empty(d) => \E h \in Handlers : Minds(h, d)

\* Where no name clashes, secrets are files and namespaces directories.
KindsKept ==
    /\ \A d \in {Root} \cup Dirs : node[d] \in {Absent, Directory}
    /\ \A n \in Names : ~IsDir(FileOf(n))

\* A directory is reached through directories.
Reached ==
    \A g \in {Root} \cup Dirs : IsDir(g) => \A d \in Above(g) : IsDir(d)

\* No write fails: no handler takes its temporary file back.
NoUnstage == \A h \in Handlers : pc[h] # "unstage"

TidyInv == KindsKept /\ Reached /\ NoUnstage /\ EmptyIsMinded

-----------------------------------------------------------------------------
\* The shape of the disk.

\* A directory with an existing directory below it is not empty.
LEMMA NotEmptyAbove ==
    ASSUME KindsKept, Reached, NEW g \in Dirs, IsDir(g), NEW d \in Above(g)
    PROVE  ~Empty(d)
<1>1. PICK c \in Dirs \ {Root} : Parent(c) = d /\ (c = g \/ c \in Above(g))
  BY ChildOnWay
<1>2. IsDir(c)
  BY <1>1 DEF Reached
<1>3. node[c] # Absent /\ c \in Paths
  BY <1>2, NodeConstants DEF IsDir, Paths
<1> QED
  BY <1>1, <1>3 DEF Empty

\* A removable namespace directory is an empty one.
LEMMA RemovableDir ==
    ASSUME KindsKept, NEW d \in Dirs, Removable(d)
    PROVE  IsDir(d) /\ Empty(d)
  BY DEF Removable, KindsKept, IsFile

\* The value a set renames into place.
LEMMA RenamesValue ==
    ASSUME TypeInv, NEW h \in Handlers, pc[h] = "rename"
    PROVE  temp[h] \in Values /\ req[h].name \in Names
  BY DEF TypeInv, PcMeaning, TempInUse, ServesItsRequest, Setting

LEMMA NextKinds == NoClash /\ TypeInv /\ KindsKept /\ [Next]_vars => KindsKept'
<1> SUFFICES ASSUME NoClash, TypeInv, KindsKept, [Next]_vars PROVE KindsKept'
  OBVIOUS
<1> USE DEF TypeInv, TypeOK
<1>1. CASE UNCHANGED node
  BY <1>1 DEF KindsKept, IsDir
<1>2. ASSUME NEW h \in Handlers, NEW v, NEW p \in Paths,
             node' = [node EXCEPT ![p] = v],
             v = Absent \/ (p \in Dirs /\ v = Directory) \/ (p \in Files /\ v \in Values)
      PROVE  KindsKept'
  <2>1. \A q : node'[q] = node[q] \/ (q = p /\ node'[q] = v)
    BY <1>2
  <2>2. \A q \in {Root} \cup Dirs : q \notin Files
    BY DEF NoClash
  <2>3. \A n \in Names : FileOf(n) \notin Dirs
    BY FileIsNoDir
  <2>4. v \in Values => v # Directory
    BY NodeConstants
  <2>5. \A d \in {Root} \cup Dirs : node'[d] \in {Absent, Directory}
    BY <1>2, <2>1, <2>2 DEF KindsKept
  <2>6. \A n \in Names : node'[FileOf(n)] # Directory
    BY <1>2, <2>1, <2>3, <2>4, NodeConstants DEF KindsKept, IsDir
  <2> QED
    BY <2>5, <2>6 DEF KindsKept, IsDir
<1>3. ASSUME NEW h \in Handlers, Mkdir(h) PROVE KindsKept'
  <2>1. cursor[h] \in Dirs /\ cursor[h] \in Paths
    BY <1>3 DEF Mkdir, PcMeaning, CursorOnItsWay, Paths
  <2> QED
    BY <1>1, <1>2, <1>3, <2>1 DEF Mkdir
<1>4. ASSUME NEW h \in Handlers, Rename(h) PROVE KindsKept'
  <2>1. temp[h] \in Values /\ Target(h) \in Files /\ Target(h) \in Paths
    BY <1>4, RenamesValue DEF Rename, Target, Files, Paths
  <2> QED
    BY <1>1, <1>2, <1>4, <2>1 DEF Rename
<1>5. ASSUME NEW h \in Handlers, RemoveFile(h) PROVE KindsKept'
  <2>1. Target(h) \in Paths
    BY <1>5, GoalIsDir DEF RemoveFile, PcMeaning, ServesItsRequest, Removing
  <2> QED
    BY <1>1, <1>2, <1>5, <2>1 DEF RemoveFile
<1>6. ASSUME NEW h \in Handlers, Rmdir(h) PROVE KindsKept'
  <2>1. cursor[h] \in Paths
    BY DEF Paths
  <2>2. \/ UNCHANGED node
        \/ node' = [node EXCEPT ![cursor[h]] = Absent]
    BY <1>6 DEF Rmdir
  <2> QED
    BY <1>1, <1>2, <2>1, <2>2
<1> QED
  BY <1>1, <1>3, <1>4, <1>5, <1>6 DEF Next, vars, Receive, Crash, Step, SetStep, Reply, Stat,
     Lstat, Resolve, CreateTemp, Write, Unstage, Verify, Read, ReadDir, ListDir, disk


LEMMA NextReached ==
    NoClash /\ TypeInv /\ TreeShape /\ KindsKept /\ Reached /\ [Next]_vars => Reached'
<1> SUFFICES ASSUME NoClash, TypeInv, TreeShape, KindsKept, Reached, [Next]_vars
             PROVE  Reached'
  OBVIOUS
<1> USE DEF TypeInv, TypeOK
<1>1. CASE UNCHANGED node
  BY <1>1 DEF Reached, IsDir
<1>2. ASSUME NEW f \in Files, NEW v, v # Directory,
             node' = [node EXCEPT ![f] = v]
      PROVE  Reached'
  <2>1. \A d \in {Root} \cup Dirs : node'[d] = node[d]
    BY <1>2 DEF NoClash
  <2>2. \A g \in {Root} \cup Dirs : Above(g) \subseteq Dirs
    BY AboveDir
  <2> QED
    BY <2>1, <2>2 DEF Reached, IsDir
<1>3. ASSUME NEW h \in Handlers, Mkdir(h), node' # node PROVE Reached'
  <2>1. cursor[h] \in Dirs \ {Root}
    BY <1>3 DEF Mkdir, PcMeaning, CursorOnItsWay
  <2>2. /\ node' = [node EXCEPT ![cursor[h]] = Directory]
        /\ IsDir(Parent(cursor[h]))
    BY <1>3 DEF Mkdir
  <2>3. \A p \in Paths : IsDir(p) => IsDir(p)'
    BY <2>2 DEF IsDir
  <2>4. Parent(cursor[h]) \in {Root} \cup Dirs
    BY <2>1, ParentOfDir
  <2>5. \A d \in Above(cursor[h]) : IsDir(d)
    BY <2>1, <2>2, <2>4, AboveParent DEF Reached
  <2>6. \A g \in {Root} \cup Dirs : g # cursor[h] => (IsDir(g)' <=> IsDir(g))
    BY <2>2 DEF IsDir
  <2> QED
    BY <2>3, <2>5, <2>6 DEF Reached, Above
<1>4. ASSUME NEW h \in Handlers, Rmdir(h), node' # node PROVE Reached'
  <2>1. cursor[h] \in Dirs \ {Root}
    BY <1>4 DEF Rmdir, PcMeaning, CursorOnItsWay
  <2>2. Removable(cursor[h]) /\ node' = [node EXCEPT ![cursor[h]] = Absent]
    BY <1>4 DEF Rmdir
  <2>3. Empty(cursor[h])
    BY <2>1, <2>2, RemovableDir
  <2>4. \A g \in {Root} \cup Dirs : IsDir(g)' => IsDir(g)
    BY <2>2, NodeConstants DEF IsDir
  <2>5. \A d : d # cursor[h] /\ IsDir(d) => IsDir(d)'
    BY <2>2 DEF IsDir
  <2>6. ASSUME NEW g \in {Root} \cup Dirs, IsDir(g) PROVE cursor[h] \notin Above(g)
    BY <2>3, <2>6, AboveDir, NotEmptyAbove
  <2> QED
    BY <2>4, <2>5, <2>6 DEF Reached, Above
<1>5. ASSUME NEW h \in Handlers, Rename(h) PROVE Reached'
  <2>1. temp[h] \in Values /\ Target(h) \in Files
    BY <1>5, RenamesValue DEF Rename, Target, Files
  <2>2. temp[h] # Directory
    BY <2>1, NodeConstants
  <2> QED
    BY <1>1, <1>2, <1>5, <2>1, <2>2 DEF Rename
<1>6. ASSUME NEW h \in Handlers, RemoveFile(h) PROVE Reached'
  <2>1. Target(h) \in Files
    BY <1>6 DEF RemoveFile, PcMeaning, ServesItsRequest, Removing, Target, Files
  <2> QED
    BY <1>1, <1>2, <1>6, <2>1, NodeConstants DEF RemoveFile
<1> QED
  BY <1>1, <1>3, <1>4, <1>5, <1>6 DEF Next, vars, Receive, Crash, Step, SetStep, Reply, Stat,
     Lstat, Resolve, CreateTemp, Write, Unstage, Verify, Read, ReadDir, ListDir, disk

\* Without faults and clashes a rename succeeds.
LEMMA NextNoUnstage ==
    Faults = FALSE /\ TypeInv /\ KindsKept /\ NoUnstage /\ [Next]_vars => NoUnstage'
<1> SUFFICES ASSUME Faults = FALSE, TypeInv, KindsKept, NoUnstage, [Next]_vars
             PROVE  NoUnstage'
  OBVIOUS
<1> USE DEF TypeInv, TypeOK
<1>1. CASE UNCHANGED vars
  BY <1>1 DEF vars, NoUnstage
<1>2. ASSUME NEW h \in Handlers, Receive(h) PROVE NoUnstage'
  BY <1>2 DEF Receive, NoUnstage, FirstCall, Offered, AllRequests
<1>3. ASSUME NEW h \in Handlers, Rename(h) PROVE NoUnstage'
  <2>1. ~IsDir(Target(h))
    BY <1>3, RenamesValue DEF Rename, KindsKept, Target
  <2> QED
    BY <1>3, <2>1 DEF Rename, Decide, Goto, NoUnstage
<1>4. ASSUME NEW h \in Handlers, Stat(h) \/ Mkdir(h) \/ Lstat(h) PROVE NoUnstage'
  BY <1>4 DEF Stat, Mkdir, Lstat, Descend, GiveUp, Decide, Goto, NoUnstage
<1>5. ASSUME NEW h \in Handlers, Resolve(h) \/ CreateTemp(h) \/ Write(h) \/ Unstage(h)
      PROVE  NoUnstage'
  BY <1>5 DEF Resolve, CreateTemp, Write, Unstage, GiveUp, Decide, Goto, NoUnstage
<1>6. ASSUME NEW h \in Handlers, Verify(h) \/ Read(h) \/ ListDir(h) \/ Reply(h)
      PROVE  NoUnstage'
  BY <1>6 DEF Verify, Read, ListDir, Reply, Missing, Decide, Goto, NoUnstage
<1>7. ASSUME NEW h \in Handlers, RemoveFile(h) \/ ReadDir(h) \/ Rmdir(h) PROVE NoUnstage'
  BY <1>7 DEF RemoveFile, ReadDir, Rmdir, Climb, Missing, Decide, Goto, NoUnstage
<1> QED
  BY <1>1, <1>2, <1>3, <1>4, <1>5, <1>6, <1>7 DEF Next, Step, SetStep, Crash

-----------------------------------------------------------------------------
\* An empty directory keeps its handler.

\* Handler "h" moves; if it minded "d", it still does.
LEMMA StillMinded ==
    ASSUME EmptyIsMinded, NEW h \in Handlers,
           \A k \in Handlers \ {h} :
                pc'[k] = pc[k] /\ cursor'[k] = cursor[k] /\ req'[k] = req[k],
           NEW d \in Dirs \ {Root}, IsDir(d), Empty(d),
           Minds(h, d) => Minds(h, d)'
    PROVE  \E k \in Handlers : Minds(k, d)'
<1>1. PICK k \in Handlers : Minds(k, d)
  BY DEF EmptyIsMinded
<1>2. CASE k = h
  BY <1>1, <1>2
<1>3. CASE k # h
  BY <1>1, <1>3 DEF Minds, Goal, Above
<1> QED
  BY <1>2, <1>3

\* The disk is as it was, temporary files included.
LEMMA SameEmptiness ==
    ASSUME UNCHANGED <<node, orphans>>,
           \A k \in Handlers :
              \/ temp'[k] = temp[k] /\ req'[k] = req[k]
              \/ temp'[k] = NoFile /\ temp[k] = NoFile
              \/ temp'[k] # NoFile /\ temp[k] # NoFile /\ req'[k] = req[k],
           NEW d, IsDir(d)', Empty(d)'
    PROVE  IsDir(d) /\ Empty(d)
<1>1. Cluttered' = Cluttered
  BY DEF Cluttered
<1> QED
  BY <1>1 DEF IsDir, Empty

\* Nobody else's program counter, cursor or request moves.
LEMMA StepIsLocal ==
    ASSUME TypeInv, NEW h \in Handlers, Receive(h) \/ Step(h)
    PROVE  \A k \in Handlers \ {h} :
                pc'[k] = pc[k] /\ cursor'[k] = cursor[k] /\ req'[k] = req[k]
<1> USE DEF TypeInv, TypeOK
<1>1. CASE Receive(h) \/ Reply(h)
  BY <1>1 DEF Receive, Reply, Goto
<1>2. CASE Stat(h) \/ Mkdir(h) \/ Lstat(h)
  BY <1>2 DEF Stat, Mkdir, Lstat, Descend, GiveUp, Decide, Goto
<1>3. CASE Resolve(h) \/ CreateTemp(h) \/ Write(h) \/ Rename(h) \/ Unstage(h)
  BY <1>3 DEF Resolve, CreateTemp, Write, Rename, Unstage, GiveUp, Decide, Goto
<1>4. CASE Verify(h) \/ Read(h) \/ ListDir(h)
  BY <1>4 DEF Verify, Read, ListDir, Missing, Decide, Goto
<1>5. CASE RemoveFile(h) \/ ReadDir(h) \/ Rmdir(h)
  BY <1>5 DEF RemoveFile, ReadDir, Rmdir, Climb, Missing, Decide, Goto
<1> QED
  BY <1>1, <1>2, <1>3, <1>4, <1>5 DEF Step, SetStep

\* Steps that neither touch the disk nor leave a directory unattended: their
\* handler minded nothing before.
LEMMA QuietMinded ==
    ASSUME TypeInv, EmptyIsMinded, NEW h \in Handlers,
           \/ Receive(h) \/ Reply(h) \/ Stat(h) \/ Lstat(h) \/ Write(h)
           \/ Verify(h) \/ Read(h) \/ ListDir(h)
    PROVE  EmptyIsMinded'
<1> USE DEF TypeInv, TypeOK
<1> SUFFICES ASSUME NEW d \in Dirs \ {Root}, IsDir(d)', Empty(d)'
             PROVE  \E k \in Handlers : Minds(k, d)'
  BY DEF EmptyIsMinded
<1>1. UNCHANGED <<node, orphans>>
  BY DEF Receive, Reply, Stat, Lstat, Write, Verify, Read, ListDir, disk
<1>2. ~Minds(h, d)
  BY DEF Receive, Reply, Stat, Lstat, Write, Verify, Read, ListDir, Minds
<1>3. ASSUME NEW k \in Handlers
      PROVE  \/ temp'[k] = temp[k] /\ req'[k] = req[k]
             \/ temp'[k] = NoFile /\ temp[k] = NoFile
             \/ temp'[k] # NoFile /\ temp[k] # NoFile /\ req'[k] = req[k]
  <2>1. CASE Receive(h) \/ Reply(h)
    BY <2>1 DEF Receive, Reply, PcMeaning, TempInUse
  <2>2. CASE Write(h)
    <3>1. temp[h] # NoFile /\ req[h].value # NoFile
      BY <2>2, NodeConstants DEF Write, PcMeaning, TempInUse, ServesItsRequest, Setting
    <3> QED
      BY <2>2, <3>1 DEF Write
  <2>3. CASE Stat(h) \/ Lstat(h) \/ Verify(h) \/ Read(h) \/ ListDir(h)
    BY <2>3 DEF Stat, Lstat, Verify, Read, ListDir
  <2> QED
    BY <2>1, <2>2, <2>3
<1>4. IsDir(d) /\ Empty(d)
  BY <1>1, <1>3, SameEmptiness
<1> QED
  BY <1>2, <1>4, StillMinded, StepIsLocal DEF Step, SetStep

\* A directory that MkdirAll makes is minded by its maker, and the one it
\* makes it in is not empty.
LEMMA MkdirMinded ==
    ASSUME Faults = FALSE, TypeInv, EmptyIsMinded, NEW h \in Handlers, Mkdir(h)
    PROVE  EmptyIsMinded'
<1> USE DEF TypeInv, TypeOK
<1> SUFFICES ASSUME NEW d \in Dirs \ {Root}, IsDir(d)', Empty(d)'
             PROVE  \E k \in Handlers : Minds(k, d)'
  BY DEF EmptyIsMinded
<1> DEFINE c == cursor[h]
<1>1. /\ c \in Dirs \ {Root} /\ c \in Paths
      /\ Goal(h) \in Dirs /\ OnWay(c, Goal(h))
  BY GoalIsDir DEF Mkdir, PcMeaning, CursorOnItsWay, ServesItsRequest, Setting, Paths
<1>2. UNCHANGED <<orphans, temp, req>> /\ Cluttered' = Cluttered
  BY DEF Mkdir, Cluttered
<1>3. CASE /\ node[c] = Absent
           /\ node' = [node EXCEPT ![c] = Directory]
           /\ Descend(h)
  <2>1. Parent(c) # d
    BY <1>1, <1>3, NodeConstants DEF Empty
  <2>2. CASE d = c
    <3>1. CASE c = Goal(h)
      <4>1. pc'[h] = "resolve" /\ Goal(h)' = Goal(h)
        BY <1>2, <1>3, <3>1 DEF Descend, Goto, Goal
      <4> QED
        BY <2>2, <3>1, <4>1 DEF Minds
    <3>2. CASE c # Goal(h)
      <4>1. pc'[h] = "mkdir" /\ cursor'[h] = Toward(c, Goal(h))
        BY <1>3, <3>2 DEF Descend, Goto
      <4>2. Parent(Toward(c, Goal(h))) = c
        BY <1>1, <3>2, TowardGoal
      <4> QED
        BY <2>2, <4>1, <4>2 DEF Minds
    <3> QED
      BY <3>1, <3>2
  <2>3. CASE d # c
    <3>1. IsDir(d)
      BY <1>3, <2>3 DEF IsDir
    <3>2. Empty(d)
      BY <1>2, <1>3 DEF Empty
    <3>3. ~Minds(h, d)
      BY <2>1 DEF Mkdir, Minds
    <3> QED
      BY <3>1, <3>2, <3>3, StillMinded, StepIsLocal DEF Step, SetStep
  <2> QED
    BY <2>2, <2>3
<1>4. CASE /\ node[c] # Absent \/ ~IsDir(Parent(c)) \/ Faults
           /\ node' = node
  <2>1. IsDir(d) /\ Empty(d)
    BY <1>2, <1>4 DEF IsDir, Empty
  <2>2. Parent(c) # d
    BY <1>1, <1>4, <2>1 DEF Empty
  <2>3. ~Minds(h, d)
    BY <2>2 DEF Mkdir, Minds
  <2> QED
    BY <2>1, <2>3, StillMinded, StepIsLocal DEF Step, SetStep
<1> QED
  BY <1>3, <1>4 DEF Mkdir

\* A set that finds its namespace directory hands it on to its temporary file;
\* one that does not leaves no directory behind.
LEMMA EnterMinded ==
    ASSUME Faults = FALSE, TypeInv, EmptyIsMinded, NEW h \in Handlers,
           Resolve(h) \/ CreateTemp(h)
    PROVE  EmptyIsMinded'
<1> USE DEF TypeInv, TypeOK
<1> SUFFICES ASSUME NEW d \in Dirs \ {Root}, IsDir(d)', Empty(d)'
             PROVE  \E k \in Handlers : Minds(k, d)'
  BY DEF EmptyIsMinded
<1>1. UNCHANGED <<node, orphans, req>> /\ Goal(h)' = Goal(h)
  BY DEF Resolve, CreateTemp, disk, Goal
<1>2. Cluttered \subseteq Cluttered'
  <2>1. \A k \in Handlers : temp[k] # NoFile => temp'[k] # NoFile
    BY NodeConstants DEF Resolve, CreateTemp
  <2> QED
    BY <1>1, <2>1 DEF Cluttered
<1>3. IsDir(d) /\ Empty(d)
  BY <1>1, <1>2 DEF IsDir, Empty
<1>4. Minds(h, d) => Minds(h, d)'
  <2> SUFFICES ASSUME Minds(h, d) PROVE Minds(h, d)'
    OBVIOUS
  <2>1. d = Goal(h)
    BY DEF Resolve, CreateTemp, Minds
  <2>2. CASE Resolve(h)
    <3>1. pc' = [pc EXCEPT ![h] = "create"]
      BY <1>3, <2>1, <2>2, NodeConstants DEF Resolve, Goto, IsDir
    <3> QED
      BY <1>1, <2>1, <3>1 DEF Minds
  <2>3. CASE CreateTemp(h)
    <3>1. temp'[h] = Blank /\ req'[h] = req[h]
      BY <1>3, <2>1, <2>3 DEF CreateTemp
    <3>2. d \in Cluttered'
      BY <2>1, <3>1, NodeConstants DEF Cluttered, Goal
    <3> QED
      BY <3>2 DEF Empty
  <2> QED
    BY <2>2, <2>3
<1> QED
  BY <1>3, <1>4, StillMinded, StepIsLocal DEF Step, SetStep

\* The temporary file leaves its directory, and the secret is there instead.
LEMMA RenameMinded ==
    ASSUME Faults = FALSE, TypeInv, KindsKept, EmptyIsMinded, NEW h \in Handlers, Rename(h)
    PROVE  EmptyIsMinded'
<1> USE DEF TypeInv, TypeOK
<1> SUFFICES ASSUME NEW d \in Dirs \ {Root}, IsDir(d)', Empty(d)'
             PROVE  \E k \in Handlers : Minds(k, d)'
  BY DEF EmptyIsMinded
<1>1. temp[h] \in Values /\ req[h].name \in Names
  BY RenamesValue DEF Rename
<1>2. Target(h) \in Paths /\ Target(h) # Root /\ Parent(Target(h)) = Goal(h)
  BY <1>1, GoalIsDir
<1>3. /\ node' = [node EXCEPT ![Target(h)] = temp[h]]
      /\ temp' = [temp EXCEPT ![h] = NoFile]
      /\ UNCHANGED <<orphans, req>>
  BY <1>1 DEF Rename, KindsKept, Target
<1>4. temp[h] # Absent /\ temp[h] # Directory
  BY <1>1, NodeConstants
<1>5. d # Goal(h)
  BY <1>2, <1>3, <1>4 DEF Empty
<1>6. IsDir(d)
  BY <1>3, <1>4 DEF IsDir
<1>7. \A e \in Cluttered : e \in Cluttered' \/ e = Goal(h)
  BY <1>3 DEF Cluttered, Goal
<1>8. Empty(d)
  BY <1>2, <1>3, <1>5, <1>7 DEF Empty
<1>9. ~Minds(h, d)
  BY DEF Rename, Minds
<1> QED
  BY <1>6, <1>8, <1>9, StillMinded, StepIsLocal DEF Step, SetStep

\* The directory a delete may have emptied is where its cleanup begins.
LEMMA RemoveFileMinded ==
    ASSUME TypeInv, EmptyIsMinded, NEW h \in Handlers, RemoveFile(h)
    PROVE  EmptyIsMinded'
<1> USE DEF TypeInv, TypeOK
<1> SUFFICES ASSUME NEW d \in Dirs \ {Root}, IsDir(d)', Empty(d)'
             PROVE  \E k \in Handlers : Minds(k, d)'
  BY DEF EmptyIsMinded
<1>1. UNCHANGED <<orphans, req, temp>> /\ Cluttered' = Cluttered
  BY DEF RemoveFile, Cluttered
<1>2. ~Minds(h, d)
  BY DEF RemoveFile, Minds
<1>3. CASE /\ node' = [node EXCEPT ![Target(h)] = Absent]
           /\ Climb(h, Goal(h))
  <2>1. Parent(Target(h)) = Goal(h)
    BY GoalIsDir DEF RemoveFile, PcMeaning, ServesItsRequest, Removing
  <2>2. IsDir(d)
    BY <1>3, NodeConstants DEF IsDir
  <2>3. CASE d = Goal(h)
    <3>1. pc'[h] = "readdir" /\ cursor'[h] = d
      BY <1>3, <2>3 DEF Climb, Goto
    <3> QED
      BY <3>1 DEF Minds
  <2>4. CASE d # Goal(h)
    <3>1. Empty(d)
      BY <1>1, <1>3, <2>1, <2>4 DEF Empty
    <3> QED
      BY <1>2, <2>2, <3>1, StillMinded, StepIsLocal DEF Step
  <2> QED
    BY <2>3, <2>4
<1>4. CASE UNCHANGED node
  <2>1. IsDir(d) /\ Empty(d)
    BY <1>1, <1>4 DEF IsDir, Empty
  <2> QED
    BY <1>2, <2>1, StillMinded, StepIsLocal DEF Step
<1> QED
  BY <1>3, <1>4 DEF RemoveFile

\* The loop stops at a directory in use, above which none is empty.
LEMMA ReadDirMinded ==
    ASSUME TypeInv, KindsKept, Reached, EmptyIsMinded, NEW h \in Handlers, ReadDir(h)
    PROVE  EmptyIsMinded'
<1> USE DEF TypeInv, TypeOK
<1> SUFFICES ASSUME NEW d \in Dirs \ {Root}, IsDir(d)', Empty(d)'
             PROVE  \E k \in Handlers : Minds(k, d)'
  BY DEF EmptyIsMinded
<1>1. UNCHANGED <<node, orphans, req, cursor, temp>> /\ Cluttered' = Cluttered
  BY DEF ReadDir, disk, Cluttered
<1>2. IsDir(d) /\ Empty(d)
  BY <1>1 DEF IsDir, Empty
<1>3. cursor[h] \in Dirs
  BY DEF ReadDir, PcMeaning, CursorOnItsWay
<1>4. CASE IsDir(cursor[h]) /\ ~Empty(cursor[h])
  <2>1. ~Minds(h, d)
    BY <1>2, <1>3, <1>4, NotEmptyAbove DEF ReadDir, Minds
  <2> QED
    BY <1>2, <2>1, StillMinded, StepIsLocal DEF Step
<1>5. CASE ~(IsDir(cursor[h]) /\ ~Empty(cursor[h]))
  <2>1. pc' = [pc EXCEPT ![h] = "rmdir"]
    BY <1>5 DEF ReadDir, Goto
  <2>2. Minds(h, d) => Minds(h, d)'
    BY <1>1, <2>1 DEF ReadDir, Minds, Above
  <2> QED
    BY <1>2, <2>2, StillMinded, StepIsLocal DEF Step
<1> QED
  BY <1>4, <1>5

\* The loop removes the directory it is at, if it can, and goes one level up.
LEMMA RmdirMinded ==
    ASSUME TypeInv, KindsKept, EmptyIsMinded, NEW h \in Handlers, Rmdir(h)
    PROVE  EmptyIsMinded'
<1> USE DEF TypeInv, TypeOK
<1> SUFFICES ASSUME NEW d \in Dirs \ {Root}, IsDir(d)', Empty(d)'
             PROVE  \E k \in Handlers : Minds(k, d)'
  BY DEF EmptyIsMinded
<1> DEFINE c == cursor[h]
<1>1. UNCHANGED <<orphans, req, temp>> /\ Cluttered' = Cluttered
  BY DEF Rmdir, Cluttered
<1>2. c \in Dirs \ {Root} /\ c \in Paths /\ pc[h] = "rmdir"
  BY DEF Rmdir, PcMeaning, CursorOnItsWay, Paths
<1>3. /\ cursor'[h] = Parent(c)
      /\ Parent(c) # Root => pc'[h] = "readdir"
  BY DEF Rmdir, Climb, Goto
<1>4. \/ Removable(c) /\ node' = [node EXCEPT ![c] = Absent]
      \/ ~Removable(c) /\ node' = node
  BY DEF Rmdir
<1>5. IsDir(d)
  <2>1. \A p \in Paths : node'[p] = node[p] \/ node'[p] = Absent
    BY <1>2, <1>4
  <2> QED
    BY <2>1, NodeConstants DEF IsDir, Paths
<1>6. CASE d = Parent(c) \/ d \in Above(Parent(c))
  <2>1. Parent(c) # Root
    <3>1. Parent(c) \in {Root} \cup Dirs
      BY <1>2, ParentOfDir
    <3>2. Root \in {Root} \cup Dirs /\ Len(Root) = 0
      BY DEF Root
    <3>3. d \notin Above(Root)
      BY <3>2, AboveDir, DirIsSeq
    <3> QED
      BY <1>6, <3>3
  <2> QED
    BY <1>3, <1>6, <2>1 DEF Minds, Above
<1>7. CASE ~(d = Parent(c) \/ d \in Above(Parent(c)))
  <2>1. Empty(d)
    BY <1>1, <1>4, <1>7 DEF Empty
  <2>2. d # c
    <3>1. SUFFICES ASSUME d = c PROVE FALSE
      OBVIOUS
    <3>2. Removable(c)
      BY <1>5, <2>1, <3>1 DEF Removable
    <3>3. node'[c] = Absent
      BY <1>2, <1>4, <3>2
    <3> QED
      BY <3>1, <3>3, NodeConstants DEF IsDir
  <2>3. d \notin Above(c)
    BY <1>2, <1>7, AboveParent
  <2>4. ~Minds(h, d)
    BY <1>2, <2>2, <2>3 DEF Minds
  <2> QED
    BY <1>5, <2>1, <2>4, StillMinded, StepIsLocal DEF Step
<1> QED
  BY <1>6, <1>7

LEMMA NextMinded ==
    ASSUME Faults = FALSE, TypeInv, KindsKept, Reached, NoUnstage, EmptyIsMinded, [Next]_vars
    PROVE  EmptyIsMinded'
<1>1. ASSUME NEW h \in Handlers, Receive(h) \/ Step(h) PROVE EmptyIsMinded'
  <2>1. ~Unstage(h)
    BY DEF Unstage, NoUnstage
  <2> QED
    BY <1>1, <2>1, QuietMinded, MkdirMinded, EnterMinded, RenameMinded, RemoveFileMinded,
       ReadDirMinded, RmdirMinded DEF Step, SetStep
<1>2. CASE UNCHANGED vars
  BY <1>2 DEF vars, EmptyIsMinded, IsDir, Empty, Cluttered, Minds, Goal, Above
<1> QED
  BY <1>1, <1>2 DEF Next, Crash

-----------------------------------------------------------------------------

LEMMA InitTidy == Init => TidyInv
<1> SUFFICES ASSUME Init PROVE TidyInv
  OBVIOUS
<1>1. \A p \in Paths : node[p] = IF p = Root THEN Directory ELSE Absent
  BY DEF Init
<1>2. KindsKept
  BY <1>1, FileHome, NodeConstants DEF KindsKept, IsDir, Paths
<1>3. Reached
  <2>1. \A g \in {Root} \cup Dirs : IsDir(g) => g = Root
    BY <1>1, NodeConstants DEF IsDir, Paths
  <2>2. Above(Root) = {}
    <3>1. Root \in {Root} \cup Dirs /\ Len(Root) = 0
      BY DEF Root
    <3> QED
      BY <3>1, AboveDir, DirIsSeq
  <2> QED
    BY <2>1, <2>2 DEF Reached
<1>4. NoUnstage
  BY DEF Init, NoUnstage
<1>5. EmptyIsMinded
  BY <1>1, NodeConstants DEF EmptyIsMinded, IsDir, Paths
<1> QED
  BY <1>2, <1>3, <1>4, <1>5 DEF TidyInv

\* Whoever minds a directory is on its way there.
LEMMA MindedIsAttended == TypeInv /\ EmptyIsMinded => EmptyIsAttended
<1> SUFFICES ASSUME TypeInv, EmptyIsMinded, NEW d \in Dirs \ {Root}, IsDir(d), Empty(d)
             PROVE  \E h \in Handlers : Attends(h, d)
  BY DEF EmptyIsAttended
<1>1. PICK h \in Handlers : Minds(h, d)
  BY DEF EmptyIsMinded
<1>2. CASE pc[h] = "mkdir" /\ d = Parent(cursor[h])
  <2>1. /\ req[h].op = "set" /\ Goal(h) \in Dirs
        /\ cursor[h] \in Dirs \ {Root} /\ OnWay(cursor[h], Goal(h))
    BY <1>2, GoalIsDir DEF TypeInv, TypeOK, PcMeaning, ServesItsRequest, CursorOnItsWay, Setting
  <2>2. d \in Above(Goal(h))
    BY <1>2, <2>1, ParentAbove
  <2> QED
    BY <1>2, <2>1, <2>2 DEF Attends
<1>3. CASE pc[h] \in {"resolve", "create"} /\ d = Goal(h)
  BY <1>3 DEF Attends, TypeInv, PcMeaning, ServesItsRequest, Setting
<1>4. CASE pc[h] \in {"readdir", "rmdir"} /\ (d = cursor[h] \/ d \in Above(cursor[h]))
  BY <1>4 DEF Attends
<1> QED
  BY <1>1, <1>2, <1>3, <1>4 DEF Minds

LEMMA NextTidy ==
    /\ NoClash /\ Faults = FALSE
    /\ TypeInv /\ TreeShape /\ TidyInv /\ [Next]_vars
    => TidyInv'
  BY NextKinds, NextReached, NextNoUnstage, NextMinded DEF TidyInv

\* As long as nothing fails, every empty namespace directory has a set on its
\* way through it or a cleanup loop that has yet to look at it, for every set
\* of names without a clash and any number of handlers.
THEOREM EmptiesAttended ==
    ASSUME NoClash, Faults = FALSE
    PROVE  Spec => []EmptyIsAttended
<1>1. Init => TreeShape
  BY NodeConstants DEF Init, TreeShape, IsDir, Cluttered, Paths
<1>2. Init => TypeInv /\ TreeShape /\ TidyInv
  BY <1>1, InitTypeInv, InitTidy
<1>3. TypeInv /\ TreeShape /\ TidyInv /\ [Next]_vars => (TypeInv /\ TreeShape /\ TidyInv)'
  BY NextTypeInv, NextTree, NextTidy
<1>4. TypeInv /\ TidyInv => EmptyIsAttended
  BY MindedIsAttended DEF TidyInv
<1> QED
  BY <1>2, <1>3, <1>4, PTL DEF Spec

\* ... so that none is left once the last request is answered: the deletes
\* clean up after each other, and after the sets that made way for nothing.
THEOREM TidyAtRest ==
    ASSUME NoClash, Faults = FALSE
    PROVE  Spec => []NoEmptyNamespaceAtRest
<1>1. EmptyIsAttended => NoEmptyNamespaceAtRest
  BY DEF EmptyIsAttended, NoEmptyNamespaceAtRest, Attends
<1> QED
  BY <1>1, EmptiesAttended, PTL

-----------------------------------------------------------------------------
\* How far a request is from its answer.

\* A directory is longer than the one it lies in.
LEMMA ParentShorter ==
    ASSUME NEW c \in Dirs \ {Root}
    PROVE  /\ Parent(c) \in Dirs /\ Parent(c) \in Above(c)
           /\ Len(Parent(c)) \in Nat /\ Len(c) \in Nat /\ Len(Parent(c)) < Len(c)
<1>1. Parent(c) \in Dirs /\ Parent(c) \in Above(c)
  BY HomeOnWay, ParentAbove
<1> QED
  BY <1>1, AboveDir, DirIsSeq

\* A finite set of names has finitely many namespace directories.
LEMMA FiniteDirs == ASSUME IsFiniteSet(Names) PROVE IsFiniteSet({Root} \cup Dirs)
<1> DEFINE Homes(n) == {SubSeq(n, 1, k) : k \in 0 .. Len(n) - 1}
           All == {Homes(n) : n \in Names}
<1>1. ASSUME NEW n \in Names PROVE IsFiniteSet(Homes(n))
  <2> DEFINE f == [k \in 0 .. Len(n) - 1 |-> SubSeq(n, 1, k)]
  <2>1. Len(n) - 1 \in Int
    BY NameParts
  <2>2. IsFiniteSet(0 .. Len(n) - 1)
    BY <2>1, FS_Interval
  <2>3. f \in Surjection(0 .. Len(n) - 1, Homes(n))
    BY DEF Surjection
  <2> QED
    BY <2>2, <2>3, FS_Surjection
<1>2. IsFiniteSet(All)
  <2> DEFINE g == [n \in Names |-> Homes(n)]
  <2>1. g \in Surjection(Names, All)
    BY DEF Surjection
  <2> QED
    BY <2>1, FS_Surjection
<1>3. \A T \in All : IsFiniteSet(T)
  BY <1>1
<1>4. IsFiniteSet(UNION All)
  <2> HIDE DEF All
  <2> QED
    BY <1>2, <1>3, FS_UNION
<1>5. Dirs = UNION All
  BY DEF Dirs
<1>6. IsFiniteSet({Root})
  BY FS_Singleton
<1> QED
  BY <1>4, <1>5, <1>6, FS_Union

\* A list never has to read a directory below one it has still to read.
Apart == \A h \in Handlers : \A v, w \in walk[h] : v \notin Above(w)

WaitInv == TypeInv /\ TreeShape /\ Apart

\* What lies at or below a child of d lies below d.
LEMMA BelowChild ==
    ASSUME NEW c \in Dirs \ {Root}, NEW e \in {Root} \cup Dirs, c = e \/ c \in Above(e)
    PROVE  Parent(c) \in Above(e)
<1>1. e \in Dirs /\ OnWay(c, e)
  BY AboveDir, HomeOnWay
<1> QED
  BY <1>1, ParentAbove

\* Reading a directory puts its children in its place.
LEMMA ListedApart ==
    ASSUME NEW old \in SUBSET ({Root} \cup Dirs), \A v, w \in old : v \notin Above(w),
           NEW d \in old, NEW C \in SUBSET {c \in Dirs \ {Root} : Parent(c) = d}
    PROVE  \A v, w \in (old \ {d}) \cup C : v \notin Above(w)
<1> SUFFICES ASSUME NEW v \in (old \ {d}) \cup C, NEW w \in (old \ {d}) \cup C, v \in Above(w)
             PROVE  FALSE
  OBVIOUS
<1>1. CASE v \in old \ {d} /\ w \in old \ {d}
  BY <1>1
<1>2. CASE v \in old \ {d} /\ w \in C
  <2>1. v \in Above(d)
    BY <1>2, AboveParent
  <2> QED
    BY <1>2, <2>1
<1>3. CASE v \in C /\ w \in old \ {d}
  BY <1>3, BelowChild
<1>4. CASE v \in C /\ w \in C
  <2>1. v # d /\ Len(d) < Len(v) /\ Len(d) \in Nat /\ Len(v) \in Nat
    BY <1>4, ParentShorter
  <2>2. v \in Above(d)
    BY <1>4, <2>1, AboveParent
  <2>3. Len(v) < Len(d)
    BY <2>2, AboveDir
  <2> QED
    BY <2>1, <2>3
<1> QED
  BY <1>1, <1>2, <1>3, <1>4

\* The walk of no other handler moves.
LEMMA WalkIsLocal ==
    ASSUME TypeInv, NEW h \in Handlers, Receive(h) \/ Step(h)
    PROVE  /\ \A k \in Handlers \ {h} : walk'[k] = walk[k]
           /\ walk'[h] = walk[h] \/ walk'[h] \in {{}, {Root}} \/ ListDir(h)
<1> USE DEF TypeInv, TypeOK
<1>1. CASE Receive(h) \/ Reply(h)
  BY <1>1 DEF Receive, Reply
<1>2. CASE SetStep(h)
  BY <1>2 DEF SetStep, Stat, Mkdir, Lstat, Resolve, CreateTemp, Write, Rename, Unstage,
     reading
<1>3. CASE Verify(h) \/ Read(h) \/ RemoveFile(h) \/ ReadDir(h) \/ Rmdir(h)
  BY <1>3 DEF Verify, Read, RemoveFile, ReadDir, Rmdir, reading
<1>4. CASE ListDir(h)
  BY <1>4 DEF ListDir
<1> QED
  BY <1>1, <1>2, <1>3, <1>4 DEF Step

LEMMA RootAlone == Root \notin Above(Root)
<1> SUFFICES ASSUME Root \in Above(Root) PROVE FALSE
  OBVIOUS
<1> QED
  BY AboveDir

LEMMA NextApart == TypeInv /\ Apart /\ [Next]_vars => Apart'
<1> SUFFICES ASSUME TypeInv, Apart, [Next]_vars, NEW k \in Handlers
             PROVE  (\A v, w \in walk[k] : v \notin Above(w))'
  BY DEF Apart
<1>1. \A v, w \in walk[k] : v \notin Above(w)
  BY DEF Apart
<1>2. CASE UNCHANGED vars
  BY <1>1, <1>2 DEF vars
<1>3. CASE Crash
  BY <1>3 DEF Crash
<1>4. ASSUME NEW h \in Handlers, Receive(h) \/ Step(h)
      PROVE  (\A v, w \in walk[k] : v \notin Above(w))'
  <2>1. CASE walk'[k] = walk[k]
    BY <1>1, <2>1
  <2>2. CASE walk'[k] \in {{}, {Root}}
    BY <2>2, RootAlone
  <2>3. CASE k = h /\ ListDir(h)
    <3>1. PICK d \in walk[h] :
            \/ walk' = [walk EXCEPT ![h] = (@ \ {d}) \cup
                          { c \in Dirs \ {Root} : Parent(c) = d /\ IsDir(c) }]
            \/ UNCHANGED walk
      BY <2>3 DEF ListDir
    <3>2. CASE UNCHANGED walk
      BY <1>1, <3>2
    <3> DEFINE C == { c \in Dirs \ {Root} : Parent(c) = d /\ IsDir(c) }
    <3>3. walk[h] \in SUBSET ({Root} \cup Dirs) /\ walk \in [Handlers -> SUBSET ({Root} \cup Dirs)]
      BY DEF TypeInv, TypeOK
    <3>4. C \in SUBSET {c \in Dirs \ {Root} : Parent(c) = d}
      OBVIOUS
    <3>5. CASE walk'[h] = (walk[h] \ {d}) \cup C
      <4> HIDE DEF C
      <4>1. \A v, w \in (walk[h] \ {d}) \cup C : v \notin Above(w)
        BY <1>1, <2>3, <3>3, <3>4, ListedApart
      <4> QED
        BY <2>3, <3>5, <4>1
    <3> QED
      BY <3>1, <3>2, <3>3, <3>5
  <2> QED
    BY <1>4, <2>1, <2>2, <2>3, WalkIsLocal
<1> QED
  BY <1>2, <1>3, <1>4 DEF Next

LEMMA NextWaitInv == WaitInv /\ [Next]_vars => WaitInv'
  BY NextTypeInv, NextTree, NextApart DEF WaitInv

-----------------------------------------------------------------------------
\* What CallsLeft is at each program counter, and that it is a number.

Up(h) == Len(cursor[h])
Way(h) == Len(Goal(h))

LEMMA CallsAt ==
    ASSUME NEW h \in Handlers
    PROVE  /\ pc[h] = "idle" => CallsLeft(h) = 0
           /\ pc[h] = "reply" => CallsLeft(h) = 1
           /\ pc[h] \in {"unstage", "read"} => CallsLeft(h) = 2
           /\ pc[h] = "rename" => CallsLeft(h) = 3
           /\ pc[h] = "write" => CallsLeft(h) = 4
           /\ pc[h] = "create" => CallsLeft(h) = 5
           /\ pc[h] = "resolve" => CallsLeft(h) = 6
           /\ pc[h] = "lstat" => CallsLeft(h) = 7 + 2 * (Way(h) - Up(h))
           /\ pc[h] = "mkdir" => CallsLeft(h) = 8 + 2 * (Way(h) - Up(h))
           /\ pc[h] = "stat" => CallsLeft(h) = 7 + 2 * Way(h) + Up(h)
           /\ pc[h] = "rmdir" => CallsLeft(h) = 2 * Up(h)
           /\ pc[h] = "readdir" => CallsLeft(h) = 1 + 2 * Up(h)
           /\ pc[h] = "remove" => CallsLeft(h) = 2 + 2 * Way(h)
           /\ pc[h] = "verify" => CallsLeft(h) = 3 + 2 * Way(h)
           /\ pc[h] = "walk" => CallsLeft(h) = 1 + Cardinality(AheadOf(h))
  BY DEF CallsLeft, Up, Way

\* ... and after a step.
LEMMA CallsThen ==
    ASSUME NEW h \in Handlers
    PROVE  /\ pc'[h] = "idle" => CallsLeft(h)' = 0
           /\ pc'[h] = "reply" => CallsLeft(h)' = 1
           /\ pc'[h] \in {"unstage", "read"} => CallsLeft(h)' = 2
           /\ pc'[h] = "rename" => CallsLeft(h)' = 3
           /\ pc'[h] = "write" => CallsLeft(h)' = 4
           /\ pc'[h] = "create" => CallsLeft(h)' = 5
           /\ pc'[h] = "resolve" => CallsLeft(h)' = 6
           /\ pc'[h] = "lstat" => CallsLeft(h)' = 7 + 2 * (Way(h)' - Up(h)')
           /\ pc'[h] = "mkdir" => CallsLeft(h)' = 8 + 2 * (Way(h)' - Up(h)')
           /\ pc'[h] = "stat" => CallsLeft(h)' = 7 + 2 * Way(h)' + Up(h)'
           /\ pc'[h] = "rmdir" => CallsLeft(h)' = 2 * Up(h)'
           /\ pc'[h] = "readdir" => CallsLeft(h)' = 1 + 2 * Up(h)'
           /\ pc'[h] = "remove" => CallsLeft(h)' = 2 + 2 * Way(h)'
           /\ pc'[h] = "verify" => CallsLeft(h)' = 3 + 2 * Way(h)'
           /\ pc'[h] = "walk" => CallsLeft(h)' = 1 + Cardinality(AheadOf(h)')
  BY DEF CallsLeft, Up, Way

LEMMA UpAndWay ==
    ASSUME TypeInv, NEW h \in Handlers
    PROVE  /\ Up(h) \in Nat
           /\ pc[h] \in Setting \cup Removing \cup {"verify", "read"} =>
                Goal(h) \in Dirs /\ Way(h) \in Nat
           /\ pc[h] \in {"stat", "mkdir", "lstat"} => Up(h) <= Way(h)
           /\ pc[h] \in {"readdir", "rmdir"} => cursor[h] \in Dirs \ {Root} /\ Up(h) > 0
<1>1. cursor[h] \in {Root} \cup Dirs /\ Up(h) \in Nat
  BY DirIsSeq DEF TypeInv, TypeOK, Up
<1>2. ASSUME pc[h] \in Setting \cup Removing \cup {"verify", "read"}
      PROVE  Goal(h) \in Dirs /\ Way(h) \in Nat
  BY <1>2, GoalIsDir, DirIsSeq DEF TypeInv, PcMeaning, ServesItsRequest, Way
<1>3. ASSUME pc[h] \in {"stat", "mkdir", "lstat"} PROVE Up(h) <= Way(h)
  <2>1. Up(h) \in 0 .. Way(h)
    BY <1>3 DEF TypeInv, PcMeaning, CursorOnItsWay, OnWay, Up, Way
  <2> QED
    BY <1>2, <1>3, <2>1 DEF Setting
<1>4. ASSUME pc[h] \in {"readdir", "rmdir"} PROVE cursor[h] \in Dirs \ {Root} /\ Up(h) > 0
  <2>1. cursor[h] \in Dirs \ {Root}
    BY <1>1, <1>4 DEF TypeInv, PcMeaning, CursorOnItsWay
  <2>2. Len(Parent(cursor[h])) \in Nat /\ Len(Parent(cursor[h])) < Up(h)
    BY <2>1, ParentShorter DEF Up
  <2> QED
    BY <1>1, <2>1, <2>2
<1> QED
  BY <1>1, <1>2, <1>3, <1>4

\* The directories a list may still have to read are finitely many.
LEMMA AheadFinite ==
    ASSUME IsFiniteSet(Names), NEW h \in Handlers
    PROVE  IsFiniteSet(AheadOf(h)) /\ Cardinality(AheadOf(h)) \in Nat
<1>1. AheadOf(h) \in SUBSET ({Root} \cup Dirs)
  BY DEF AheadOf
<1> QED
  BY <1>1, FiniteDirs, FS_Subset, FS_CardinalityType

LEMMA CallsNat ==
    ASSUME IsFiniteSet(Names), TypeInv, NEW h \in Handlers
    PROVE  CallsLeft(h) \in Nat
<1> DEFINE u == Up(h)
           w == Way(h)
           c == Cardinality(AheadOf(h))
<1>1. pc[h] \in Labels
  BY DEF TypeInv, TypeOK
<1>2. /\ u \in Nat
      /\ pc[h] \in Setting \cup Removing \cup {"verify", "read"} => w \in Nat
      /\ pc[h] \in {"stat", "mkdir", "lstat"} => u <= w
      /\ pc[h] \in {"readdir", "rmdir"} => u > 0
  BY UpAndWay
<1>3. c \in Nat
  BY AheadFinite
<1> HIDE DEF u, w, c
<1> QED
  BY <1>1, <1>2, <1>3, CallsAt DEF Labels, Setting, Removing, u, w, c

-----------------------------------------------------------------------------
\* Every call brings its own request nearer to the answer.

\* The way down: from "mkdir" at the next directory, or from "resolve".
LEMMA DescendCalls ==
    ASSUME TypeInv, NEW h \in Handlers, pc[h] \in {"stat", "mkdir", "lstat"},
           Descend(h), UNCHANGED req
    PROVE  CallsLeft(h)' \in Int /\ CallsLeft(h)' <= 6 + 2 * (Way(h) - Up(h))
<1>1. /\ Goal(h) \in Dirs /\ cursor[h] \in {Root} \cup Dirs /\ OnWay(cursor[h], Goal(h))
      /\ Up(h) \in Nat /\ Way(h) \in Nat /\ Up(h) <= Way(h) /\ Way(h)' = Way(h)
  BY UpAndWay DEF TypeInv, TypeOK, PcMeaning, CursorOnItsWay, Setting, Way, Goal
<1>2. CASE cursor[h] = Goal(h)
  <2>1. pc'[h] = "resolve" /\ Up(h) = Way(h)
    BY <1>2 DEF Descend, Goto, TypeInv, TypeOK, Up, Way
  <2> QED
    BY <1>1, <2>1, CallsThen
<1>3. CASE cursor[h] # Goal(h)
  <2> DEFINE next == Toward(cursor[h], Goal(h))
  <2>1. pc'[h] = "mkdir" /\ cursor'[h] = next
    BY <1>3 DEF Descend, Goto, TypeInv, TypeOK
  <2>2. next \in Dirs \ {Root} /\ Parent(next) = cursor[h]
    BY <1>1, <1>3, TowardGoal
  <2> HIDE DEF next
  <2>3. Up(h)' \in Nat /\ Up(h) < Up(h)'
    BY <2>1, <2>2, ParentShorter DEF Up
  <2>4. CallsLeft(h)' = 8 + 2 * (Way(h) - Up(h)')
    BY <1>1, <2>1, CallsThen
  <2> HIDE DEF Up, Way
  <2> QED
    BY <1>1, <2>3, <2>4
<1> QED
  BY <1>2, <1>3

\* A call that decides the outcome of a request.
LEMMA DecideCalls ==
    ASSUME TypeInv, NEW h \in Handlers, NEW how, NEW label \in {"reply", "unstage"},
           Decide(h, how, label)
    PROVE  /\ label = "reply" => CallsLeft(h)' = 1
           /\ label = "unstage" => CallsLeft(h)' = 2
<1>1. pc'[h] = label
  BY DEF Decide, Goto, TypeInv, TypeOK
<1> QED
  BY <1>1, CallsThen

\* The climb stops at the root at the latest, which is always there.
LEMMA MkdirAllCalls ==
    ASSUME TypeInv, TreeShape, NEW h \in Handlers, Stat(h) \/ Mkdir(h) \/ Lstat(h)
    PROVE  CallsLeft(h)' < CallsLeft(h)
<1> DEFINE u == Up(h)
           w == Way(h)
<1>1. /\ pc[h] \in {"stat", "mkdir", "lstat"} /\ UNCHANGED req
      /\ u \in Nat /\ w \in Nat /\ u <= w /\ Way(h)' = w
  BY UpAndWay DEF Stat, Mkdir, Lstat, Setting, Way, Goal
<1>2. /\ pc[h] = "stat" => CallsLeft(h) = 7 + 2 * w + u
      /\ pc[h] = "mkdir" => CallsLeft(h) = 8 + 2 * (w - u)
      /\ pc[h] = "lstat" => CallsLeft(h) = 7 + 2 * (w - u)
  BY CallsAt
<1> HIDE DEF u, w
<1>3. CASE Descend(h)
  <2>1. CallsLeft(h)' \in Int /\ CallsLeft(h)' <= 6 + 2 * (w - u)
    BY <1>1, <1>3, DescendCalls DEF u, w
  <2> QED
    BY <1>1, <1>2, <2>1
<1>4. CASE GiveUp(h)
  <2>1. CallsLeft(h)' = 1
    BY <1>4, DecideCalls DEF GiveUp
  <2> QED
    BY <1>1, <1>2, <2>1
<1>5. CASE pc[h] = "mkdir" /\ Goto(h, "lstat") /\ UNCHANGED cursor
  <2>1. pc'[h] = "lstat" /\ Up(h)' = u
    BY <1>5 DEF Goto, TypeInv, TypeOK, u, Up
  <2>2. CallsLeft(h)' = 7 + 2 * (w - u)
    BY <1>1, <2>1, CallsThen
  <2> QED
    BY <1>1, <1>2, <1>5, <2>2
<1>6. CASE /\ pc[h] = "stat" /\ node[cursor[h]] = Absent /\ UNCHANGED pc
           /\ cursor' = [cursor EXCEPT ![h] = Parent(cursor[h])]
  <2>1. cursor[h] \in Dirs \ {Root}
    BY <1>6, NodeConstants DEF TreeShape, IsDir, TypeInv, TypeOK
  <2>2. cursor'[h] = Parent(cursor[h]) /\ pc'[h] = "stat"
    BY <1>6 DEF TypeInv, TypeOK
  <2>3. Up(h)' \in Nat /\ Up(h)' < u
    BY <2>1, <2>2, ParentShorter DEF Up, u
  <2>4. CallsLeft(h)' = 7 + 2 * w + Up(h)'
    BY <1>1, <2>2, CallsThen
  <2> QED
    BY <1>1, <1>2, <1>6, <2>3, <2>4
<1> QED
  BY <1>3, <1>4, <1>5, <1>6 DEF Stat, Mkdir, Lstat

\* Writing the temporary file and putting it in place, or giving up on it.
LEMMA WritingCalls ==
    ASSUME TypeInv, NEW h \in Handlers,
           Resolve(h) \/ CreateTemp(h) \/ Write(h) \/ Rename(h) \/ Unstage(h)
    PROVE  CallsLeft(h)' < CallsLeft(h)
<1>1. ASSUME NEW l \in Labels, Goto(h, l) PROVE pc'[h] = l
  BY <1>1 DEF Goto, TypeInv, TypeOK
<1>2. CASE Resolve(h)
  <2>1. pc'[h] \in {"create", "reply"}
    BY <1>1, <1>2 DEF Resolve, GiveUp, Decide, Labels
  <2> QED
    BY <1>2, <2>1, CallsAt, CallsThen DEF Resolve
<1>3. CASE CreateTemp(h)
  <2>1. pc'[h] \in {"write", "reply"}
    BY <1>1, <1>3 DEF CreateTemp, GiveUp, Decide, Labels
  <2> QED
    BY <1>3, <2>1, CallsAt, CallsThen DEF CreateTemp
<1>4. CASE Write(h)
  <2>1. pc'[h] \in {"rename", "unstage"}
    BY <1>1, <1>4 DEF Write, Decide, Labels
  <2> QED
    BY <1>4, <2>1, CallsAt, CallsThen DEF Write
<1>5. CASE Rename(h)
  <2>1. pc'[h] \in {"reply", "unstage"}
    BY <1>1, <1>5 DEF Rename, Decide, Labels
  <2> QED
    BY <1>5, <2>1, CallsAt, CallsThen DEF Rename
<1>6. CASE Unstage(h)
  <2>1. pc'[h] = "reply"
    BY <1>1, <1>6 DEF Unstage, Labels
  <2> QED
    BY <1>6, <2>1, CallsAt, CallsThen DEF Unstage
<1> QED
  BY <1>2, <1>3, <1>4, <1>5, <1>6

\* The cleanup loop's next round is at a shorter directory, or there is none.
LEMMA ClimbCalls ==
    ASSUME TypeInv, NEW h \in Handlers, NEW dir \in {Root} \cup Dirs, Climb(h, dir)
    PROVE  CallsLeft(h)' = IF dir = Root THEN 1 ELSE 1 + 2 * Len(dir)
<1>1. cursor'[h] = dir /\ pc'[h] = IF dir = Root THEN "reply" ELSE "readdir"
  BY DEF Climb, Goto, TypeInv, TypeOK
<1> QED
  BY <1>1, CallsThen DEF Up

LEMMA RemovingCalls ==
    ASSUME TypeInv, NEW h \in Handlers, RemoveFile(h) \/ ReadDir(h) \/ Rmdir(h)
    PROVE  CallsLeft(h)' < CallsLeft(h)
<1> DEFINE u == Up(h)
           w == Way(h)
<1>1. pc \in [Handlers -> Labels]
  BY DEF TypeInv, TypeOK
<1>2. CASE RemoveFile(h)
  <2>1. Goal(h) \in Dirs /\ w \in Nat /\ CallsLeft(h) = 2 + 2 * w
    BY <1>2, UpAndWay, CallsAt DEF RemoveFile, Removing
  <2>2. CASE Climb(h, Goal(h))
    <3>1. CallsLeft(h)' = IF Goal(h) = Root THEN 1 ELSE 1 + 2 * w
      BY <2>1, <2>2, ClimbCalls DEF Way
    <3> HIDE DEF w
    <3> QED
      BY <2>1, <3>1
  <2>3. CASE Goto(h, "reply")
    <3>1. CallsLeft(h)' = 1
      BY <1>1, <2>3, CallsThen DEF Goto
    <3> HIDE DEF w
    <3> QED
      BY <2>1, <3>1
  <2> QED
    BY <1>2, <2>2, <2>3 DEF RemoveFile, Missing, Decide
<1>3. CASE ReadDir(h)
  <2>1. u \in Nat /\ u > 0 /\ CallsLeft(h) = 1 + 2 * u /\ Up(h)' = u
    BY <1>3, UpAndWay, CallsAt DEF ReadDir, Up
  <2>2. pc'[h] \in {"reply", "rmdir"}
    BY <1>1, <1>3 DEF ReadDir, Goto
  <2>3. CallsLeft(h)' \in {1, 2 * u}
    BY <2>1, <2>2, CallsThen
  <2> HIDE DEF u
  <2> QED
    BY <2>1, <2>3
<1>4. CASE Rmdir(h)
  <2> DEFINE up == Parent(cursor[h])
  <2>1. cursor[h] \in Dirs \ {Root} /\ u \in Nat /\ u > 0 /\ CallsLeft(h) = 2 * u
    BY <1>4, UpAndWay, CallsAt DEF Rmdir
  <2>2. up \in Dirs /\ Len(up) \in Nat /\ Len(up) < u
    BY <2>1, ParentShorter DEF Up
  <2>3. Climb(h, up)
    BY <1>4 DEF Rmdir
  <2> HIDE DEF up, u
  <2>4. CallsLeft(h)' = IF up = Root THEN 1 ELSE 1 + 2 * Len(up)
    BY <2>2, <2>3, ClimbCalls
  <2> QED
    BY <2>1, <2>2, <2>4
<1> QED
  BY <1>2, <1>3, <1>4

LEMMA ReadingCalls ==
    ASSUME TypeInv, NEW h \in Handlers, Verify(h) \/ Read(h) \/ Reply(h)
    PROVE  CallsLeft(h)' < CallsLeft(h)
<1> DEFINE w == Way(h)
<1>1. pc \in [Handlers -> Labels]
  BY DEF TypeInv, TypeOK
<1>2. CASE Verify(h)
  <2>1. w \in Nat /\ CallsLeft(h) = 3 + 2 * w /\ Way(h)' = w
    BY <1>2, UpAndWay, CallsAt DEF Verify, Way, Goal
  <2>2. pc'[h] \in {"read", "remove", "reply"}
    BY <1>1, <1>2 DEF Verify, Missing, Decide, Goto
  <2>3. CallsLeft(h)' \in {2, 2 + 2 * w, 1}
    BY <2>1, <2>2, CallsThen
  <2> HIDE DEF w
  <2> QED
    BY <2>1, <2>3
<1>3. CASE Read(h)
  <2>1. pc'[h] = "reply"
    BY <1>1, <1>3 DEF Read, Missing, Decide, Goto
  <2> QED
    BY <1>3, <2>1, CallsAt, CallsThen DEF Read
<1>4. CASE Reply(h)
  <2>1. pc'[h] = "idle"
    BY <1>1, <1>4 DEF Reply, Goto
  <2> QED
    BY <1>4, <2>1, CallsAt, CallsThen DEF Reply
<1> QED
  BY <1>2, <1>3, <1>4

\* A list that has read a directory has that one less to read, and whatever
\* it found there lay ahead before.
LEMMA ListingCalls ==
    ASSUME IsFiniteSet(Names), TypeInv, Apart, NEW h \in Handlers, ListDir(h)
    PROVE  CallsLeft(h)' < CallsLeft(h)
<1> DEFINE old == walk[h]
           n == Cardinality(AheadOf(h))
<1>1. /\ pc \in [Handlers -> Labels]
      /\ walk \in [Handlers -> SUBSET ({Root} \cup Dirs)]
      /\ \A v, w \in old : v \notin Above(w)
  BY DEF TypeInv, TypeOK, Apart
<1>2. PICK d \in old :
        \/ /\ walk' = [walk EXCEPT ![h] = (@ \ {d}) \cup
                         { c \in Dirs \ {Root} : Parent(c) = d /\ IsDir(c) }]
           /\ Goto(h, "reply") \/ UNCHANGED pc
        \/ Goto(h, "reply") /\ UNCHANGED walk
  BY DEF ListDir, Decide
<1>3. pc[h] = "walk" /\ CallsLeft(h) = 1 + n
  BY CallsAt DEF ListDir
<1>4. IsFiniteSet(AheadOf(h)) /\ n \in Nat /\ d \in AheadOf(h)
  BY <1>1, AheadFinite DEF AheadOf
<1>5. n > 0
  BY <1>4, FS_EmptySet
<1>6. CASE Goto(h, "reply")
  <2>1. CallsLeft(h)' = 1
    BY <1>1, <1>6, CallsThen DEF Goto
  <2> HIDE DEF n
  <2> QED
    BY <1>3, <1>4, <1>5, <2>1
<1> DEFINE C == { c \in Dirs \ {Root} : Parent(c) = d /\ IsDir(c) }
<1>7. CASE walk' = [walk EXCEPT ![h] = (@ \ {d}) \cup C] /\ UNCHANGED pc
  <2>1. walk'[h] = (old \ {d}) \cup C
    BY <1>1, <1>7
  <2>2. C \in SUBSET {c \in Dirs \ {Root} : Parent(c) = d}
    OBVIOUS
  <2> HIDE DEF C
  <2>3. ASSUME NEW e \in AheadOf(h)' PROVE e # d /\ e \in AheadOf(h)
    <3>1. e \in {Root} \cup Dirs
      BY <2>3 DEF AheadOf
    <3>2. PICK w \in (old \ {d}) \cup C : w = e \/ w \in Above(e)
      BY <2>1, <2>3 DEF AheadOf
    <3>3. CASE w \in old \ {d}
      <4>1. e # d
        BY <1>1, <3>2, <3>3
      <4> QED
        BY <3>1, <3>2, <3>3, <4>1 DEF AheadOf
    <3>4. CASE w \in C
      <4>1. w \in Dirs \ {Root} /\ Parent(w) = d
        BY <2>2, <3>4
      <4>2. d \in Above(e)
        BY <3>1, <3>2, <4>1, BelowChild
      <4>3. e # d
        BY <4>2, <3>1, AboveDir
      <4> QED
        BY <3>1, <4>2, <4>3 DEF AheadOf
    <3> QED
      BY <3>2, <3>3, <3>4
  <2>4. AheadOf(h)' \in SUBSET (AheadOf(h) \ {d})
    BY <2>3
  <2> DEFINE rest == AheadOf(h) \ {d}
  <2>5. IsFiniteSet(rest) /\ Cardinality(rest) = n - 1
    BY <1>4, FS_RemoveElement
  <2>6. /\ Cardinality(AheadOf(h)') <= n - 1
        /\ Cardinality(AheadOf(h)') \in Nat
    <3> HIDE DEF rest, n
    <3>1. IsFiniteSet(AheadOf(h)') /\ Cardinality(AheadOf(h)') <= Cardinality(rest)
      BY <2>4, <2>5, FS_Subset DEF rest
    <3> QED
      BY <2>5, <3>1, FS_CardinalityType
  <2>7. CallsLeft(h)' = 1 + Cardinality(AheadOf(h)')
    BY <1>3, <1>7, CallsThen
  <2> HIDE DEF n
  <2> QED
    BY <1>3, <1>4, <2>6, <2>7
<1> QED
  BY <1>2, <1>6, <1>7

\* Nobody else's calls count for a handler, and its own bring it nearer.
LEMMA StepCalls ==
    ASSUME IsFiniteSet(Names), WaitInv, NEW h \in Handlers, Step(h)
    PROVE  CallsLeft(h)' < CallsLeft(h)
  BY MkdirAllCalls, WritingCalls, RemovingCalls, ReadingCalls, ListingCalls
  DEF Step, SetStep, WaitInv

LEMMA OthersCalls ==
    ASSUME TypeInv, NEW k \in Handlers, NEW h \in Handlers \ {k}, Receive(k) \/ Step(k)
    PROVE  CallsLeft(h)' = CallsLeft(h)
<1>1. pc'[h] = pc[h] /\ cursor'[h] = cursor[h] /\ req'[h] = req[h] /\ walk'[h] = walk[h]
  BY StepIsLocal, WalkIsLocal
<1> QED
  BY <1>1 DEF CallsLeft, AheadOf, Goal

Counted == \A h \in Handlers : CallsLeft(h) \in Nat

\* For every finite set of names and any number of handlers, whatever fails,
\* clashes or is restarted: each request is answered after a number of its own
\* calls that is known when it arrives, and that no other request can raise.
THEOREM NobodyWaits == ASSUME IsFiniteSet(Names) PROVE Spec => WaitFree
<1>1. Init => WaitInv
  <2>1. Init => TreeShape /\ Apart
    BY NodeConstants DEF Init, TreeShape, IsDir, Cluttered, Paths, Apart
  <2> QED
    BY <2>1, InitTypeInv DEF WaitInv
<1>2. WaitInv /\ [Next]_vars => WaitInv'
  BY NextWaitInv
<1>3. WaitInv => Counted
  BY CallsNat DEF WaitInv, Counted
<1>4. WaitInv /\ Counted /\ Counted' /\ [Next]_vars =>
        [\A h \in Handlers : pc[h] # "idle" =>
            /\ CallsLeft(h)' <= CallsLeft(h)
            /\ Step(h) => CallsLeft(h)' < CallsLeft(h)]_vars
  <2> SUFFICES ASSUME WaitInv, Counted, Counted', Next, NEW h \in Handlers, pc[h] # "idle"
               PROVE  /\ CallsLeft(h)' <= CallsLeft(h)
                      /\ Step(h) => CallsLeft(h)' < CallsLeft(h)
    OBVIOUS
  <2>1. CallsLeft(h) \in Nat /\ CallsLeft(h)' \in Nat
    BY DEF Counted
  <2>2. Step(h) => CallsLeft(h)' < CallsLeft(h)
    BY StepCalls
  <2>3. CASE Crash
    <3>1. CallsLeft(h)' = 0
      BY <2>3, CallsThen DEF Crash
    <3> QED
      BY <2>1, <2>2, <3>1
  <2>4. ASSUME NEW k \in Handlers, Receive(k) \/ Step(k) PROVE CallsLeft(h)' <= CallsLeft(h)
    <3>1. CASE k # h
      <4>1. CallsLeft(h)' = CallsLeft(h)
        BY <2>4, <3>1, OthersCalls DEF WaitInv
      <4> QED
        BY <2>1, <4>1
    <3>2. CASE k = h
      BY <2>1, <2>2, <2>4, <3>2 DEF Receive
    <3> QED
      BY <3>1, <3>2
  <2> QED
    BY <2>2, <2>3, <2>4 DEF Next
<1> QED
  BY <1>1, <1>2, <1>3, <1>4, PTL DEF Spec, WaitFree

=============================================================================
