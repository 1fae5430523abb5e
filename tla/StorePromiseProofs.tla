------------------------- MODULE StorePromiseProofs -------------------------
(***************************************************************************)
(* Store implements AbstractStore wherever no name clashes: each system    *)
(* call of a handler is a step of the promise or changes nothing of it.    *)
(***************************************************************************)
EXTENDS StoreTidyProofs

\* The refinement mapping of Store!Promise, part by part.
KV == [n \in Names |-> IF n \in Stored THEN node[FileOf(n)] ELSE NoValue]

Done == {"readdir", "rmdir", "unstage", "reply"}

Stage == [h \in Handlers |->
            CASE pc[h] = "idle" -> "idle"
              [] pc[h] \in {"readdir", "rmdir", "unstage", "reply"} -> "done"
              [] OTHER -> "pending"]

Answer == [h \in Handlers |-> IF pc[h] = "reply" /\ res[h] = "ok" THEN found[h] ELSE {}]

A == INSTANCE AbstractStore WITH kv <- KV, stage <- Stage, found <- Answer

-----------------------------------------------------------------------------
\* What the mapping needs of the state.

\* What stands at a secret's path is a whole ciphertext.
WholeFiles == \A n \in Names : node[FileOf(n)] \in Values \cup {Absent}

\* A name stored ever since the list began is found already, or stands at or
\* below a directory the walk has still to read.
Ahead(h, n) == \E d \in walk[h] : OnWay(d, HomeOf(n))

\* The list's history, and what it has collected.
ListKept(h) ==
    /\ pc[h] = "walk" =>
            /\ always[h] \subseteq Stored /\ Stored \subseteq ever[h]
            /\ found[h] \subseteq ever[h]
            /\ \A n \in always[h] : n \in found[h] \/ Ahead(h, n)
    /\ pc[h] # "walk" => always[h] = {} /\ ever[h] = {}
    /\ found[h] # {} => req[h].op = "list" /\ pc[h] \in {"walk", "reply"}

ListsKept == \A h \in Handlers : ListKept(h)

PromiseInv == TypeInv /\ TreeShape /\ KindsKept /\ Reached /\ WholeFiles /\ ListsKept

LEMMA NextWhole == NoClash /\ TypeInv /\ WholeFiles /\ [Next]_vars => WholeFiles'
<1> SUFFICES ASSUME NoClash, TypeInv, WholeFiles, [Next]_vars PROVE WholeFiles'
  OBVIOUS
<1> USE DEF TypeInv, TypeOK
<1>1. CASE UNCHANGED node
  BY <1>1 DEF WholeFiles
<1>2. ASSUME NEW p \in Paths, NEW v, node' = [node EXCEPT ![p] = v],
             v = Absent \/ v \in Values \/ p \in Dirs
      PROVE  WholeFiles'
  BY <1>2, FileIsNoDir DEF WholeFiles
<1>3. ASSUME NEW h \in Handlers, Mkdir(h) PROVE WholeFiles'
  <2>1. cursor[h] \in Dirs /\ cursor[h] \in Paths
    BY <1>3 DEF Mkdir, PcMeaning, CursorOnItsWay, Paths
  <2> QED
    BY <1>1, <1>2, <1>3, <2>1 DEF Mkdir
<1>4. ASSUME NEW h \in Handlers, Rename(h) PROVE WholeFiles'
  <2>1. temp[h] \in Values /\ Target(h) \in Paths
    BY <1>4, RenamesValue, GoalIsDir DEF Rename
  <2> QED
    BY <1>1, <1>2, <1>4, <2>1 DEF Rename
<1>5. ASSUME NEW h \in Handlers, RemoveFile(h) PROVE WholeFiles'
  <2>1. Target(h) \in Paths
    BY <1>5, GoalIsDir DEF RemoveFile, PcMeaning, ServesItsRequest, Removing
  <2> QED
    BY <1>1, <1>2, <1>5, <2>1 DEF RemoveFile
<1>6. ASSUME NEW h \in Handlers, Rmdir(h) PROVE WholeFiles'
  <2>1. cursor[h] \in Paths
    BY DEF Paths
  <2>2. \/ UNCHANGED node
        \/ node' = [node EXCEPT ![cursor[h]] = Absent]
    BY <1>6 DEF Rmdir
  <2> QED
    BY <1>1, <1>2, <2>1, <2>2
<1> QED
  BY <1>1, <1>3, <1>4, <1>5, <1>6 DEF Next, vars, Receive, Crash, Step, SetStep, Reply, Stat,
     Lstat, Resolve, CreateTemp, Write, Unstage, Verify, Read, ReadDir, ListDir, disk

-----------------------------------------------------------------------------
\* Lists.

\* A list's variables move by its own steps only.
LEMMA ListIsLocal ==
    ASSUME TypeInv, NEW h \in Handlers, Receive(h) \/ Step(h)
    PROVE  /\ \A k \in Handlers \ {h} :
                   /\ walk'[k] = walk[k] /\ found'[k] = found[k]
                   /\ res'[k] = res[k] /\ got'[k] = got[k]
           /\ ~(Receive(h) \/ Reply(h) \/ ListDir(h)) => UNCHANGED <<walk, found>>
<1> USE DEF TypeInv, TypeOK, reading
<1>1. CASE Receive(h) \/ Reply(h) \/ ListDir(h)
  BY <1>1 DEF Receive, Reply, ListDir, Decide
<1>2. CASE Stat(h) \/ Mkdir(h) \/ Lstat(h)
  BY <1>2 DEF Stat, Mkdir, Lstat, GiveUp, Decide
<1>3. CASE Resolve(h) \/ CreateTemp(h) \/ Write(h) \/ Rename(h) \/ Unstage(h)
  BY <1>3 DEF Resolve, CreateTemp, Write, Rename, Unstage, GiveUp, Decide
<1>4. CASE Verify(h) \/ Read(h)
  BY <1>4 DEF Verify, Read, Missing, Decide
<1>5. CASE RemoveFile(h) \/ ReadDir(h) \/ Rmdir(h)
  BY <1>5 DEF RemoveFile, ReadDir, Rmdir, Missing, Decide
<1> QED
  BY <1>1, <1>2, <1>3, <1>4, <1>5 DEF Step, SetStep

\* Who is walking was walking before, or has just received its request.
LEMMA WalkBegins ==
    ASSUME TypeInv, NEW h \in Handlers, Receive(h) \/ Step(h), pc'[h] = "walk"
    PROVE  Receive(h) \/ ListDir(h)
<1> USE DEF TypeInv, TypeOK
<1>1. ~(Stat(h) \/ Mkdir(h) \/ Lstat(h))
  BY DEF Stat, Mkdir, Lstat, Descend, GiveUp, Decide, Goto
<1>2. ~(Resolve(h) \/ CreateTemp(h) \/ Write(h) \/ Rename(h) \/ Unstage(h))
  BY DEF Resolve, CreateTemp, Write, Rename, Unstage, GiveUp, Decide, Goto
<1>3. ~(Verify(h) \/ Read(h) \/ Reply(h))
  BY DEF Verify, Read, Reply, Missing, Decide, Goto
<1>4. ~(RemoveFile(h) \/ ReadDir(h) \/ Rmdir(h))
  BY DEF RemoveFile, ReadDir, Rmdir, Climb, Missing, Decide, Goto
<1> QED
  BY <1>1, <1>2, <1>3, <1>4 DEF Step, SetStep

\* Reading one directory finds the secrets in it and puts those below it on
\* the list of what is still to read.
LEMMA ReadsOn ==
    ASSUME TypeInv, TreeShape, Reached, NEW h \in Handlers, ListKept(h),
           NEW d \in walk[h], pc[h] = "walk",
           found'[h] = found[h] \cup { n \in Stored : HomeOf(n) = d },
           walk'[h] = (walk[h] \ {d}) \cup { c \in Dirs \ {Root} : Parent(c) = d /\ IsDir(c) },
           NEW n \in always[h]
    PROVE  n \in found'[h] \/ Ahead(h, n)'
<1> USE DEF TypeInv, TypeOK
<1>1. n \in Stored /\ n \in Names /\ (n \in found[h] \/ Ahead(h, n))
  BY DEF ListKept, Stored
<1>2. CASE n \in found[h]
  BY <1>2
<1>3. ASSUME NEW e \in walk[h], e # d, OnWay(e, HomeOf(n)) PROVE Ahead(h, n)'
  BY <1>3 DEF Ahead
<1>4. CASE OnWay(d, HomeOf(n)) /\ d # HomeOf(n)
  <2> DEFINE c == Toward(d, HomeOf(n))
  <2>1. d \in {Root} \cup Dirs /\ HomeOf(n) \in Dirs
    BY <1>1, FileHome
  <2>2. c \in Dirs \ {Root} /\ Parent(c) = d /\ OnWay(c, HomeOf(n))
    BY <1>4, <2>1, TowardGoal
  <2>3. IsDir(HomeOf(n))
    BY <1>1, FileHome DEF TreeShape, Stored, IsFile
  <2>4. IsDir(c)
    BY <2>1, <2>2, <2>3, OnWayIsAbove DEF Reached
  <2>5. c \in walk'[h]
    BY <2>2, <2>4
  <2> QED
    BY <2>2, <2>5 DEF Ahead
<1>5. CASE d = HomeOf(n)
  BY <1>1, <1>5
<1> QED
  BY <1>1, <1>2, <1>3, <1>4, <1>5 DEF Ahead

\* Every directory is at or below the root.
LEMMA RootOnWay == \A n \in Names : OnWay(Root, HomeOf(n))
<1> SUFFICES ASSUME NEW n \in Names PROVE OnWay(Root, HomeOf(n))
  OBVIOUS
<1>1. HomeOf(n) \in Dirs
  BY FileHome
<1>2. HomeOf(n) \in Seq(DOMAIN DotAge) /\ Len(HomeOf(n)) \in Nat
  BY <1>1, DirIsSeq
<1>3. Len(Root) = 0 /\ SubSeq(HomeOf(n), 1, 0) = Root
  BY <1>2 DEF Root
<1> QED
  BY <1>2, <1>3 DEF OnWay

\* A handler that does not move: names may come and go under its list.
LEMMA BystanderList ==
    ASSUME TypeInv, Watch, NEW k \in Handlers, ListKept(k),
           pc'[k] = pc[k], req'[k] = req[k], walk'[k] = walk[k], found'[k] = found[k]
    PROVE  ListKept(k)'
<1>1. CASE pc[k] = "walk"
  <2>1. always'[k] = always[k] \cap Stored' /\ ever'[k] = ever[k] \cup Stored'
    BY <1>1 DEF Watch
  <2> QED
    BY <1>1, <2>1 DEF ListKept, Ahead
<1>2. CASE pc[k] # "walk"
  <2>1. always'[k] = {} /\ ever'[k] = {}
    BY <1>2 DEF Watch
  <2> QED
    BY <1>2, <2>1 DEF ListKept
<1> QED
  BY <1>1, <1>2

LEMMA ListDirKeeps ==
    ASSUME TypeInv, TreeShape, Reached, Watch, NEW h \in Handlers, ListKept(h), ListDir(h)
    PROVE  ListKept(h)'
<1> USE DEF TypeInv, TypeOK
<1>1. pc[h] = "walk" /\ req[h].op = "list" /\ req' = req /\ Stored' = Stored
  BY DEF ListDir, PcMeaning, ServesItsRequest, disk, Stored, IsFile
<1>2. CASE pc'[h] # "walk"
  <2>1. pc'[h] = "reply"
    BY <1>1, <1>2 DEF ListDir, Decide, Goto
  <2>2. always'[h] = {} /\ ever'[h] = {}
    BY <1>2 DEF Watch
  <2> QED
    BY <1>1, <2>1, <2>2 DEF ListKept
<1>3. CASE pc'[h] = "walk"
  <2>1. always'[h] = always[h] \cap Stored /\ ever'[h] = ever[h] \cup Stored
    BY <1>1, <1>3 DEF Watch
  <2>2. PICK d \in walk[h] :
           /\ IsDir(d)
           /\ found' = [found EXCEPT ![h] = @ \cup { n \in Stored : HomeOf(n) = d }]
           /\ walk' = [walk EXCEPT ![h] = (@ \ {d}) \cup
                        { c \in Dirs \ {Root} : Parent(c) = d /\ IsDir(c) }]
    BY <1>3 DEF ListDir, Decide, Goto
  <2>3. found'[h] = found[h] \cup { n \in Stored : HomeOf(n) = d }
    BY <2>2
  <2>4. walk'[h] = (walk[h] \ {d}) \cup { c \in Dirs \ {Root} : Parent(c) = d /\ IsDir(c) }
    BY <2>2
  <2>5. \A n \in always[h] : n \in found'[h] \/ Ahead(h, n)'
    BY <1>1, <2>3, <2>4, ReadsOn
  <2>6. always[h] \subseteq Stored /\ Stored \subseteq ever[h] /\ found[h] \subseteq ever[h]
    BY <1>1 DEF ListKept
  <2> QED
    BY <1>1, <1>3, <2>1, <2>3, <2>5, <2>6 DEF ListKept
<1> QED
  BY <1>2, <1>3

LEMMA ReceiveKeeps ==
    ASSUME TypeInv, Watch, NEW h \in Handlers, ListKept(h), Receive(h)
    PROVE  ListKept(h)'
<1> USE DEF TypeInv, TypeOK
<1>1. pc[h] = "idle" /\ found'[h] = {}
  BY DEF Receive, ListKept
<1>2. CASE pc'[h] = "walk"
  <2>1. always'[h] = Stored' /\ ever'[h] = Stored'
    BY <1>1, <1>2 DEF Watch
  <2>2. walk'[h] = {Root}
    BY <1>2 DEF Receive, FirstCall, Offered, AllRequests
  <2>3. \A n \in Stored' : Ahead(h, n)'
    BY <2>2, RootOnWay DEF Ahead, Stored
  <2> QED
    BY <1>1, <1>2, <2>1, <2>3 DEF ListKept
<1>3. CASE pc'[h] # "walk"
  <2>1. always'[h] = {} /\ ever'[h] = {}
    BY <1>3 DEF Watch
  <2> QED
    BY <1>1, <1>3, <2>1 DEF ListKept
<1> QED
  BY <1>2, <1>3

\* Any other step of a handler: it has no list.
LEMMA OtherKeeps ==
    ASSUME TypeInv, Watch, NEW h \in Handlers, ListKept(h), Step(h), ~ListDir(h)
    PROVE  ListKept(h)'
<1> USE DEF TypeInv, TypeOK
<1>1. pc'[h] # "walk"
  <2>1. pc[h] # "idle"
    BY DEF Step, SetStep, Stat, Mkdir, Lstat, Resolve, CreateTemp, Write, Rename, Unstage,
       Verify, Read, RemoveFile, ReadDir, Rmdir, Reply, ListDir
  <2> QED
    BY <2>1, WalkBegins DEF Receive
<1>2. always'[h] = {} /\ ever'[h] = {}
  BY <1>1 DEF Watch
<1>3. found'[h] = {}
  <2>1. CASE Reply(h)
    BY <2>1 DEF Reply
  <2>2. CASE ~Reply(h)
    <3>1. pc[h] \notin {"idle", "walk", "reply"}
      BY <2>2 DEF Step, SetStep, Stat, Mkdir, Lstat, Resolve, CreateTemp, Write, Rename,
         Unstage, Verify, Read, RemoveFile, ReadDir, Rmdir, Reply, ListDir
    <3>2. found'[h] = found[h]
      BY <2>2, <3>1, ListIsLocal DEF Receive
    <3> QED
      BY <3>1, <3>2 DEF ListKept
  <2> QED
    BY <2>1, <2>2
<1> QED
  BY <1>1, <1>2, <1>3 DEF ListKept

LEMMA NextLists ==
    TypeInv /\ TreeShape /\ Reached /\ ListsKept /\ [Next]_vars => ListsKept'
<1> SUFFICES ASSUME TypeInv, TreeShape, Reached, ListsKept, [Next]_vars, NEW k \in Handlers
             PROVE  ListKept(k)'
  BY DEF ListsKept
<1> USE DEF TypeInv, TypeOK
<1>1. CASE UNCHANGED vars
  BY <1>1 DEF vars, ListsKept, ListKept, Ahead, Stored, IsFile
<1>2. CASE Crash /\ Watch
  BY <1>2 DEF Crash, Watch, ListKept
<1>3. ASSUME NEW h \in Handlers, Receive(h) \/ Step(h), Watch PROVE ListKept(k)'
  <2>1. CASE k # h
    <3>1. /\ pc'[k] = pc[k] /\ req'[k] = req[k]
          /\ walk'[k] = walk[k] /\ found'[k] = found[k]
      BY <1>3, <2>1, StepIsLocal, ListIsLocal
    <3> QED
      BY <1>3, <3>1, BystanderList DEF ListsKept
  <2>2. CASE k = h
    BY <1>3, <2>2, ReceiveKeeps, ListDirKeeps, OtherKeeps DEF ListsKept
  <2> QED
    BY <2>1, <2>2
<1> QED
  BY <1>1, <1>2, <1>3 DEF Next

LEMMA InitPromise == Init => PromiseInv
<1> SUFFICES ASSUME Init PROVE PromiseInv
  OBVIOUS
<1>1. \A p \in Paths : node[p] = IF p = Root THEN Directory ELSE Absent
  BY DEF Init
<1>2. TreeShape
  BY NodeConstants DEF Init, TreeShape, IsDir, Cluttered, Paths
<1>3. WholeFiles
  BY <1>1, FileHome DEF WholeFiles
<1>4. ListsKept
  BY DEF Init, ListsKept, ListKept
<1> QED
  BY <1>2, <1>3, <1>4, InitTypeInv, InitTidy DEF PromiseInv, TidyInv

LEMMA NextPromise == NoClash /\ PromiseInv /\ [Next]_vars => PromiseInv'
  BY NextTypeInv, NextTree, NextKinds, NextReached, NextWhole, NextLists DEF PromiseInv

-----------------------------------------------------------------------------
\* The mapping.

\* The map changes only where a secret's file does.
LEMMA SameMap ==
    ASSUME \A n \in Names : node'[FileOf(n)] = node[FileOf(n)]
    PROVE  KV' = KV
  BY DEF KV, Stored, IsFile

LEMMA StoredMap ==
    ASSUME WholeFiles
    PROVE  /\ A!Stored = Stored
           /\ \A n \in Names : n \in Stored => KV[n] = node[FileOf(n)]
           /\ \A n \in Names : n \in Stored <=> node[FileOf(n)] \in Values
<1>1. \A n \in Names : n \in Stored <=> node[FileOf(n)] \in Values
  BY NodeConstants DEF WholeFiles, Stored, IsFile
<1>2. \A n \in Names : KV[n] = IF n \in Stored THEN node[FileOf(n)] ELSE NoValue
  BY DEF KV
<1>3. \A n \in Names : n \in Stored <=> KV[n] # NoValue
  BY <1>1, <1>2, RequestConstants
<1> QED
  BY <1>1, <1>2, <1>3 DEF A!Stored, Stored

LEMMA StoredMapNext ==
    ASSUME WholeFiles'
    PROVE  A!Stored' = Stored'
<1>1. \A n \in Names : n \in Stored' <=> node'[FileOf(n)] \in Values
  BY NodeConstants DEF WholeFiles, Stored, IsFile
<1>2. \A n \in Names : KV'[n] = IF n \in Stored' THEN node'[FileOf(n)] ELSE NoValue
  BY DEF KV
<1>3. \A n \in Names : n \in Stored' <=> KV'[n] # NoValue
  BY <1>1, <1>2, RequestConstants
<1> QED
  BY <1>3 DEF A!Stored, Stored

\* A list in progress, here and in the promise.
LEMMA WalkIsPending ==
    ASSUME TypeInv, NEW h \in Handlers
    PROVE  pc[h] = "walk" <=> Stage[h] = "pending" /\ req[h].op = "list"
  BY DEF TypeInv, TypeOK, Labels, PcMeaning, ServesItsRequest, Setting, Removing, Stage

LEMMA WalkIsPendingNext ==
    ASSUME TypeInv', NEW h \in Handlers
    PROVE  pc'[h] = "walk" <=> Stage'[h] = "pending" /\ req'[h].op = "list"
  BY DEF TypeInv, TypeOK, Labels, PcMeaning, ServesItsRequest, Setting, Removing, Stage

LEMMA StageIdle ==
    ASSUME NEW h \in Handlers
    PROVE  (Stage[h] = "idle") <=> (pc[h] = "idle")
  BY DEF Stage

\* The history of the lists is the promise's.
LEMMA WatchMaps ==
    ASSUME PromiseInv, PromiseInv', Watch,
           \A h \in Handlers : pc'[h] = "walk" => pc[h] \in {"idle", "walk"}
    PROVE  A!Watch
<1>1. A!Stored' = Stored'
  BY StoredMapNext DEF PromiseInv
<1>2. \A h \in Handlers :
        /\ pc'[h] # "walk" <=> Stage'[h] # "pending" \/ req'[h].op # "list"
        /\ pc'[h] = "walk" => (pc[h] = "walk" <=> Stage[h] # "idle")
  BY WalkIsPendingNext, StageIdle DEF PromiseInv
<1>3. always' = [h \in Handlers |->
                    IF Stage'[h] # "pending" \/ req'[h].op # "list" THEN {}
                    ELSE IF Stage[h] = "idle" THEN A!Stored' ELSE always[h] \cap A!Stored']
  BY <1>1, <1>2 DEF Watch
<1>4. ever' = [h \in Handlers |->
                    IF Stage'[h] # "pending" \/ req'[h].op # "list" THEN {}
                    ELSE IF Stage[h] = "idle" THEN A!Stored' ELSE ever[h] \cup A!Stored']
  BY <1>1, <1>2 DEF Watch
<1> QED
  BY <1>3, <1>4 DEF A!Watch

\* A step that changes nothing else of the promise leaves its history alone.
LEMMA SilentMaps ==
    ASSUME PromiseInv, PromiseInv', Watch, UNCHANGED <<KV, req, Stage, res, got, Answer>>
    PROVE  UNCHANGED A!vars
<1> USE DEF PromiseInv, TypeInv, TypeOK
<1>1. Stored' = Stored
  BY StoredMap, StoredMapNext DEF A!Stored
<1>2. \A h \in Handlers : pc'[h] = "walk" <=> pc[h] = "walk"
  BY WalkIsPending, WalkIsPendingNext
<1>3. always' = [h \in Handlers |-> always[h]]
  <2>1. \A h \in Handlers :
            (IF pc'[h] # "walk" THEN {}
             ELSE IF pc[h] = "walk" THEN always[h] \cap Stored' ELSE Stored') = always[h]
    BY <1>1, <1>2 DEF ListsKept, ListKept
  <2> QED
    BY <2>1 DEF Watch
<1>4. ever' = [h \in Handlers |-> ever[h]]
  <2>1. \A h \in Handlers :
            (IF pc'[h] # "walk" THEN {}
             ELSE IF pc[h] = "walk" THEN ever[h] \cup Stored' ELSE Stored') = ever[h]
    BY <1>1, <1>2 DEF ListsKept, ListKept
  <2> QED
    BY <2>1 DEF Watch
<1>5. always' = always /\ ever' = ever
  BY <1>3, <1>4
<1> QED
  BY <1>5 DEF A!vars

\* A step of "h" changes the promise's state at h only.
LEMMA StepsAlone ==
    ASSUME PromiseInv, PromiseInv', NEW h \in Handlers, Receive(h) \/ Step(h)
    PROVE  /\ Stage' = [Stage EXCEPT ![h] = Stage'[h]]
           /\ Answer' = [Answer EXCEPT ![h] = Answer'[h]]
           /\ req' = [req EXCEPT ![h] = req'[h]]
           /\ res' = [res EXCEPT ![h] = res'[h]]
           /\ got' = [got EXCEPT ![h] = got'[h]]
<1> USE DEF PromiseInv, TypeInv, TypeOK
<1>1. \A k \in Handlers \ {h} :
        /\ pc'[k] = pc[k] /\ req'[k] = req[k]
        /\ found'[k] = found[k] /\ res'[k] = res[k] /\ got'[k] = got[k]
  BY StepIsLocal, ListIsLocal
<1>2. /\ req' = [req EXCEPT ![h] = req'[h]]
      /\ res' = [res EXCEPT ![h] = res'[h]]
      /\ got' = [got EXCEPT ![h] = got'[h]]
  BY <1>1
<1>3. Stage' = [Stage EXCEPT ![h] = Stage'[h]]
  <2>1. \A k \in Handlers \ {h} : Stage'[k] = Stage[k]
    BY <1>1 DEF Stage
  <2> QED
    BY <2>1 DEF Stage
<1>4. Answer' = [Answer EXCEPT ![h] = Answer'[h]]
  <2>1. \A k \in Handlers \ {h} : Answer'[k] = Answer[k]
    BY <1>1 DEF Answer
  <2> QED
    BY <2>1 DEF Answer
<1> QED
  BY <1>2, <1>3, <1>4

-----------------------------------------------------------------------------
\* Each step of a handler.

LEMMA QuietMaps ==
    ASSUME PromiseInv, PromiseInv', Watch, NEW h \in Handlers, Receive(h) \/ Step(h),
           KV' = KV, Stage'[h] = Stage[h], Answer'[h] = Answer[h],
           req'[h] = req[h], res'[h] = res[h], got'[h] = got[h]
    PROVE  UNCHANGED A!vars
<1>1. \A k \in Handlers : /\ Stage'[k] = Stage[k] /\ Answer'[k] = Answer[k]
                          /\ req'[k] = req[k] /\ res'[k] = res[k] /\ got'[k] = got[k]
  BY StepIsLocal, ListIsLocal, StepsAlone DEF PromiseInv, Stage, Answer
<1>2. req' = req /\ res' = res /\ got' = got
  BY <1>1 DEF PromiseInv, TypeInv, TypeOK
<1>3. Stage' = Stage /\ Answer' = Answer
  BY <1>1 DEF Stage, Answer
<1> QED
  BY <1>2, <1>3, SilentMaps

\* What a handler shows at a program counter.
LEMMA Shown ==
    ASSUME NEW h \in Handlers
    PROVE  /\ pc[h] \in Done => Stage[h] = "done"
           /\ pc[h] \notin Done \cup {"idle"} => Stage[h] = "pending"
           /\ pc[h] # "reply" => Answer[h] = {}
           /\ found[h] = {} => Answer[h] = {}
           /\ res[h] # "ok" => Answer[h] = {}
  BY DEF Stage, Answer, Done

LEMMA ShownNext ==
    ASSUME NEW h \in Handlers
    PROVE  /\ pc'[h] = "idle" => Stage'[h] = "idle"
           /\ pc'[h] \in Done => Stage'[h] = "done"
           /\ pc'[h] \notin Done \cup {"idle"} => Stage'[h] = "pending"
           /\ pc'[h] # "reply" => Answer'[h] = {}
           /\ found'[h] = {} => Answer'[h] = {}
           /\ res'[h] # "ok" => Answer'[h] = {}
           /\ pc'[h] = "reply" /\ res'[h] = "ok" => Answer'[h] = found'[h]
  BY DEF Stage, Answer, Done

\* A handler that has decided nothing yet goes on, or cleans up after it did.
LEMMA OnwardMaps ==
    ASSUME PromiseInv, PromiseInv', Watch, NEW h \in Handlers, Step(h), ~ListDir(h), ~Reply(h),
           KV' = KV, req'[h] = req[h], res'[h] = res[h], got'[h] = got[h],
           pc'[h] # "idle", pc'[h] \in Done <=> pc[h] \in Done
    PROVE  UNCHANGED A!vars
<1>1. pc[h] # "idle" /\ pc[h] # "reply"
  BY DEF Step, SetStep, Stat, Mkdir, Lstat, Resolve, CreateTemp, Write, Rename, Unstage,
     Verify, Read, RemoveFile, ReadDir, Rmdir, Reply, ListDir
<1>2. Answer[h] = {}
  BY <1>1, Shown
<1>3. found'[h] = {}
  BY <1>1, ListIsLocal DEF PromiseInv, ListsKept, ListKept, Receive, Step, SetStep, Stat, Mkdir,
     Lstat, Resolve, CreateTemp, Write, Rename, Unstage, Verify, Read, RemoveFile, ReadDir,
     Rmdir, Reply, ListDir
<1>4. Answer'[h] = {}
  BY <1>3, ShownNext
<1>5. Stage'[h] = Stage[h]
  BY <1>1, Shown, ShownNext
<1> QED
  BY <1>2, <1>4, <1>5, QuietMaps

\* A handler that decides its outcome, other than a list's success.
LEMMA DecideMaps ==
    ASSUME PromiseInv, PromiseInv', NEW h \in Handlers, Step(h),
           pc[h] \notin Done \cup {"idle"}, pc'[h] \in Done, req' = req,
           res'[h] # "ok" \/ found'[h] = {}
    PROVE  /\ Stage[h] = "pending" /\ A!Answered(h, res'[h])
           /\ Answer' = Answer
<1>1. Stage' = [Stage EXCEPT ![h] = "done"] /\ Stage[h] = "pending"
  BY StepsAlone, Shown, ShownNext
<1>2. res' = [res EXCEPT ![h] = res'[h]]
  BY StepsAlone
<1>3. Answer'[h] = {} /\ Answer[h] = {}
  BY Shown, ShownNext DEF Done
<1>4. Answer' = Answer
  <2>1. \A k \in Handlers : Answer'[k] = Answer[k]
    BY <1>3, StepIsLocal, ListIsLocal DEF PromiseInv, Answer
  <2> QED
    BY <2>1 DEF Answer
<1> QED
  BY <1>1, <1>2, <1>4 DEF A!Answered

\* A set that fails.
LEMMA FailsMaps ==
    ASSUME PromiseInv, PromiseInv', NEW h \in Handlers, SetStep(h),
           pc[h] \in Setting \ {"unstage"}, pc'[h] \in {"reply", "unstage"},
           res'[h] = "failed", KV' = KV, req' = req, got' = got
    PROVE  A!Set(h)
<1>1. /\ Stage[h] = "pending" /\ A!Answered(h, "failed")
      /\ Answer' = Answer
  BY DecideMaps DEF Setting, Done, Step
<1>2. req[h].op = "set"
  BY DEF PromiseInv, TypeInv, PcMeaning, ServesItsRequest
<1> QED
  BY <1>1, <1>2 DEF A!Set, A!Serving

\* MkdirAll and EvalSymlinks leave the secrets alone.
LEMMA MakeWayMaps ==
    ASSUME NoClash, PromiseInv, PromiseInv', Watch, NEW h \in Handlers,
           Stat(h) \/ Mkdir(h) \/ Lstat(h) \/ Resolve(h) \/ CreateTemp(h)
    PROVE  A!Set(h) \/ UNCHANGED A!vars
<1> USE DEF PromiseInv, TypeInv, TypeOK
<1>1. SetStep(h) /\ Step(h)
  BY DEF SetStep, Step
<1>2. pc[h] \in {"stat", "mkdir", "lstat", "resolve", "create"}
  BY DEF Stat, Mkdir, Lstat, Resolve, CreateTemp
<1>3. UNCHANGED <<req, got>>
  BY DEF Stat, Mkdir, Lstat, Resolve, CreateTemp, reading
<1>4. KV' = KV
  <2>1. CASE node' = node
    BY <2>1, SameMap
  <2>2. CASE node' # node
    <3>1. Mkdir(h) /\ node' = [node EXCEPT ![cursor[h]] = Directory]
      BY <2>2 DEF Stat, Mkdir, Lstat, Resolve, CreateTemp, disk
    <3>2. cursor[h] \in Dirs
      BY <3>1 DEF Mkdir, PcMeaning, CursorOnItsWay
    <3>3. \A n \in Names : FileOf(n) # cursor[h]
      BY <3>2, FileIsNoDir
    <3> QED
      BY <3>1, <3>3, SameMap
  <2> QED
    BY <2>1, <2>2
<1>5. \/ pc'[h] = "reply" /\ res'[h] = "failed"
      \/ pc'[h] \in {"stat", "mkdir", "lstat", "resolve", "create", "write"} /\ res'[h] = res[h]
  BY DEF Stat, Mkdir, Lstat, Resolve, CreateTemp, Descend, GiveUp, Decide, Goto
<1>6. CASE pc'[h] = "reply" /\ res'[h] = "failed"
  BY <1>1, <1>2, <1>3, <1>4, <1>6, FailsMaps DEF Setting
<1>7. CASE pc'[h] \in {"stat", "mkdir", "lstat", "resolve", "create", "write"} /\ res'[h] = res[h]
  <2>1. ~ListDir(h) /\ ~Reply(h)
    BY <1>2 DEF ListDir, Reply
  <2> QED
    BY <1>1, <1>2, <1>3, <1>4, <1>7, <2>1, OnwardMaps DEF Done
<1> QED
  BY <1>5, <1>6, <1>7

LEMMA WriteMaps ==
    ASSUME PromiseInv, PromiseInv', Watch, NEW h \in Handlers, Write(h) \/ Unstage(h)
    PROVE  A!Set(h) \/ UNCHANGED A!vars
<1> USE DEF PromiseInv, TypeInv, TypeOK
<1>1. SetStep(h) /\ Step(h)
  BY DEF SetStep, Step
<1>2. UNCHANGED <<node, req, got>> /\ ~ListDir(h) /\ ~Reply(h)
  BY DEF Write, Unstage, ListDir, Reply, disk, reading
<1>3. KV' = KV
  BY <1>2, SameMap
<1>4. CASE Write(h) /\ pc'[h] = "unstage"
  BY <1>1, <1>2, <1>3, <1>4, FailsMaps DEF Write, Setting, Decide, Goto
<1>5. CASE Write(h) /\ pc'[h] # "unstage"
  <2>1. pc[h] = "write" /\ pc'[h] = "rename" /\ res' = res
    BY <1>5 DEF Write, Decide, Goto
  <2> QED
    BY <1>1, <1>2, <1>3, <2>1, OnwardMaps DEF Done
<1>6. CASE Unstage(h)
  <2>1. pc[h] = "unstage" /\ pc'[h] = "reply" /\ res' = res
    BY <1>6 DEF Unstage, Goto
  <2> QED
    BY <1>1, <1>2, <1>3, <2>1, OnwardMaps DEF Done
<1> QED
  BY <1>4, <1>5, <1>6

\* The rename is the instant at which a set takes effect.
LEMMA RenameMaps ==
    ASSUME NoClash, PromiseInv, PromiseInv', NEW h \in Handlers, Rename(h)
    PROVE  A!Set(h)
<1> USE DEF PromiseInv, TypeInv, TypeOK
<1>1. SetStep(h) /\ Step(h) /\ pc[h] = "rename" /\ UNCHANGED <<req, got, found>>
  BY DEF SetStep, Step, Rename, reading
<1>2. /\ req[h].op = "set" /\ req[h].name \in Names
      /\ temp[h] = req[h].value /\ temp[h] \in Values
  BY <1>1, RenamesValue DEF PcMeaning, ServesItsRequest, TempInUse, Setting
<1>3. CASE pc'[h] = "unstage"
  <2>1. node' = node /\ res'[h] = "failed"
    BY <1>3 DEF Rename, Decide, Goto
  <2> QED
    BY <1>1, <1>3, <2>1, SameMap, FailsMaps DEF Setting
<1>4. CASE pc'[h] # "unstage"
  <2>1. /\ node' = [node EXCEPT ![FileOf(req[h].name)] = temp[h]]
        /\ res'[h] = "ok" /\ pc'[h] = "reply"
    BY <1>4 DEF Rename, Decide, Goto, Target
  <2>2. found'[h] = {}
    BY <1>1 DEF ListsKept, ListKept
  <2>3. /\ Stage[h] = "pending" /\ A!Answered(h, "ok")
        /\ Answer' = Answer
    BY <1>1, <2>1, <2>2, DecideMaps DEF Done
  <2>4. KV' = [KV EXCEPT ![req[h].name] = req[h].value]
    <3>1. \A n \in Names : n # req[h].name => node'[FileOf(n)] = node[FileOf(n)]
      BY <1>2, <2>1, FileOfInjective
    <3>2. node'[FileOf(req[h].name)] = req[h].value
      BY <1>2, <2>1, FileHome
    <3>3. \A n \in Names : n # req[h].name => KV'[n] = KV[n]
      BY <3>1 DEF KV, Stored, IsFile
    <3>4. KV'[req[h].name] = req[h].value
      BY <1>2, <3>2, NodeConstants DEF KV, Stored, IsFile
    <3> QED
      BY <1>2, <3>3, <3>4 DEF KV
  <2> QED
    BY <1>1, <1>2, <2>3, <2>4 DEF A!Set, A!Serving
<1> QED
  BY <1>3, <1>4

\* What is above a secret's file is a namespace directory.
LEMMA AboveFile ==
    ASSUME NEW n \in Names, NEW d \in Above(FileOf(n))
    PROVE  d \in Dirs
<1> DEFINE home == HomeOf(n)
           age == DotAge[Last(n)]
<1>1. /\ home \in Seq(Elements) /\ Len(home) \in Nat /\ home \in Dirs
      /\ age \in Elements /\ FileOf(n) = Append(home, age)
  BY NameParts, FileHome, DirIsSeq DEF Elements, FileOf, HomeOf
<1>2. d \in Seq(Elements) /\ Len(d) \in Nat
  BY PathIsSeq DEF Above
<1>3. FileOf(n) \in Seq(Elements) /\ Len(FileOf(n)) = Len(home) + 1
  BY <1>1
<1>4. Len(d) <= Len(home) + 1 /\ d = SubSeq(FileOf(n), 1, Len(d)) /\ d # FileOf(n)
  BY <1>2, <1>3, SubSeqFull DEF Above, IsStrictPrefix, IsPrefix
<1>5. Len(d) # Len(home) + 1
  BY <1>3, <1>4, SubSeqFull
<1>6. Len(d) \in 0 .. Len(home)
  <2>1. Len(d) \in Nat /\ Len(home) \in Nat /\ Len(d) <= Len(home) + 1
    BY <1>1, <1>2, <1>4
  <2> HIDE DEF home
  <2> QED
    BY <1>5, <2>1
<1>7. SubSeq(FileOf(n), 1, Len(d)) = SubSeq(home, 1, Len(d))
  BY <1>1, <1>2, <1>6
<1> QED
  BY <1>1, <1>4, <1>6, <1>7, PrefixOfDir

\* Without a clash a lookup never meets a file on its way.
LEMMA NeverBlocked ==
    ASSUME KindsKept, NEW n \in Names
    PROVE  ~Blocked(FileOf(n))
  BY AboveFile DEF KindsKept, Blocked, IsFile

\* A secret that is not there: the lookup is the instant of the 404.
LEMMA AbsentMaps ==
    ASSUME PromiseInv, PromiseInv', NEW h \in Handlers,
           Verify(h) \/ Read(h) \/ RemoveFile(h), Missing(h, Target(h)),
           node' = node, got' = got
    PROVE  A!Get(h) \/ A!Delete(h)
<1> USE DEF PromiseInv, TypeInv, TypeOK
<1>1. /\ Step(h) /\ UNCHANGED <<req, found>>
      /\ pc[h] \in {"verify", "read", "remove"}
  BY DEF Step, Verify, Read, RemoveFile, reading
<1>2. req[h].name \in Names /\ req[h].op \in {"get", "delete"}
  BY <1>1 DEF PcMeaning, ServesItsRequest, Removing
<1>3. pc'[h] = "reply" /\ res'[h] = "absent"
  BY <1>2, NeverBlocked DEF Missing, Decide, Goto, Target
<1>4. /\ Stage[h] = "pending" /\ A!Answered(h, "absent")
      /\ Answer' = Answer
  BY <1>1, <1>3, DecideMaps DEF Done
<1>5. req[h].name \notin A!Stored
  BY <1>2, StoredMap DEF Missing, Target, Stored, IsFile
<1>6. KV' = KV
  BY SameMap
<1> QED
  BY <1>2, <1>4, <1>5, <1>6 DEF A!Get, A!Delete, A!Serving

LEMMA VerifyMaps ==
    ASSUME PromiseInv, PromiseInv', Watch, NEW h \in Handlers, Verify(h)
    PROVE  A!Get(h) \/ A!Delete(h) \/ UNCHANGED A!vars
<1> USE DEF PromiseInv, TypeInv, TypeOK
<1>1. UNCHANGED <<node, req, got>>
  BY DEF Verify, disk, reading
<1>2. CASE Missing(h, Target(h))
  BY <1>1, <1>2, AbsentMaps
<1>3. CASE ~Missing(h, Target(h))
  <2>1. pc[h] = "verify" /\ pc'[h] \in {"read", "remove"} /\ res' = res
    BY <1>3 DEF Verify, Goto
  <2>2. Step(h) /\ ~ListDir(h) /\ ~Reply(h)
    BY <2>1 DEF Step, ListDir, Reply
  <2> QED
    BY <1>1, <2>1, <2>2, SameMap, OnwardMaps DEF Done
<1> QED
  BY <1>2, <1>3

\* The read is the instant of a get's answer.
LEMMA ReadMaps ==
    ASSUME PromiseInv, PromiseInv', NEW h \in Handlers, Read(h)
    PROVE  A!Get(h) \/ A!Delete(h)
<1> USE DEF PromiseInv, TypeInv, TypeOK
<1>1. UNCHANGED <<node, req, found>> /\ pc[h] = "read" /\ Step(h)
  BY DEF Read, disk, Step
<1>2. req[h].name \in Names /\ req[h].op = "get"
  BY <1>1 DEF PcMeaning, ServesItsRequest
<1>3. ~IsDir(Target(h))
  BY <1>2 DEF KindsKept, Target
<1>4. CASE Missing(h, Target(h)) /\ got' = got
  BY <1>1, <1>4, AbsentMaps
<1>5. CASE /\ IsFile(Target(h))
           /\ got' = [got EXCEPT ![h] = node[Target(h)]]
           /\ Decide(h, "ok", "reply")
  <2>1. pc'[h] = "reply" /\ res'[h] = "ok"
    BY <1>5 DEF Decide, Goto
  <2>2. found'[h] = {}
    BY <1>1, <1>2 DEF ListsKept, ListKept
  <2>3. /\ Stage[h] = "pending" /\ A!Answered(h, "ok")
        /\ Answer' = Answer
    BY <1>1, <2>1, <2>2, DecideMaps DEF Done
  <2>4. /\ req[h].name \in A!Stored
        /\ got' = [got EXCEPT ![h] = KV[req[h].name]]
    BY <1>2, <1>5, StoredMap DEF Target, Stored
  <2> QED
    BY <1>1, <1>2, <2>3, <2>4, SameMap DEF A!Get, A!Serving
<1> QED
  BY <1>3, <1>4, <1>5 DEF Read

\* os.Remove of the file is the instant at which a delete takes effect.
LEMMA RemoveFileMaps ==
    ASSUME NoClash, PromiseInv, PromiseInv', NEW h \in Handlers, RemoveFile(h)
    PROVE  A!Get(h) \/ A!Delete(h)
<1> USE DEF PromiseInv, TypeInv, TypeOK
<1>1. UNCHANGED <<req, found, got>> /\ pc[h] = "remove" /\ Step(h)
  BY DEF RemoveFile, reading, Step
<1>2. req[h].name \in Names /\ req[h].op = "delete"
  BY <1>1 DEF PcMeaning, ServesItsRequest, Removing
<1>3. ~IsDir(Target(h))
  BY <1>2 DEF KindsKept, Target
<1>4. CASE Missing(h, Target(h)) /\ node' = node
  BY <1>1, <1>4, AbsentMaps
<1>5. CASE /\ IsFile(Target(h))
           /\ node' = [node EXCEPT ![Target(h)] = Absent]
           /\ res' = [res EXCEPT ![h] = "ok"]
           /\ Climb(h, Goal(h))
  <2>1. pc'[h] \in {"reply", "readdir"} /\ res'[h] = "ok"
    BY <1>5 DEF Climb, Goto
  <2>2. found'[h] = {}
    BY <1>1 DEF ListsKept, ListKept
  <2>3. /\ Stage[h] = "pending" /\ A!Answered(h, "ok")
        /\ Answer' = Answer
    BY <1>1, <2>1, <2>2, DecideMaps DEF Done
  <2>4. req[h].name \in A!Stored
    BY <1>2, <1>5, StoredMap DEF Target, Stored
  <2>5. KV' = [KV EXCEPT ![req[h].name] = NoValue]
    <3>1. \A n \in Names : n # req[h].name => node'[FileOf(n)] = node[FileOf(n)]
      BY <1>2, <1>5, FileOfInjective DEF Target
    <3>2. node'[FileOf(req[h].name)] = Absent
      BY <1>2, <1>5, FileHome DEF Target
    <3>3. \A n \in Names : n # req[h].name => KV'[n] = KV[n]
      BY <3>1 DEF KV, Stored, IsFile
    <3>4. KV'[req[h].name] = NoValue
      BY <1>2, <3>2 DEF KV, Stored, IsFile
    <3> QED
      BY <1>2, <3>3, <3>4 DEF KV
  <2> QED
    BY <1>1, <1>2, <2>3, <2>4, <2>5 DEF A!Delete, A!Serving
<1> QED
  BY <1>3, <1>4, <1>5 DEF RemoveFile, Removable

\* The cleanup loop takes no secret.
LEMMA CleanupMaps ==
    ASSUME NoClash, PromiseInv, PromiseInv', Watch, NEW h \in Handlers, ReadDir(h) \/ Rmdir(h)
    PROVE  UNCHANGED A!vars
<1> USE DEF PromiseInv, TypeInv, TypeOK
<1>1. /\ UNCHANGED <<req, got, res>> /\ pc[h] \in {"readdir", "rmdir"}
      /\ Step(h) /\ ~ListDir(h) /\ ~Reply(h)
  BY DEF ReadDir, Rmdir, reading, Step, ListDir, Reply
<1>2. pc'[h] \in Done
  BY DEF ReadDir, Rmdir, Climb, Goto, Done
<1>3. KV' = KV
  <2>1. \A n \in Names : FileOf(n) # cursor[h]
    BY FileIsNoDir
  <2>2. CASE Rmdir(h)
    <3>1. \A n \in Names : node'[FileOf(n)] = node[FileOf(n)]
      BY <2>1, <2>2, FileHome DEF Rmdir
    <3> QED
      BY <3>1, SameMap
  <2>3. CASE ReadDir(h)
    BY <2>3, SameMap DEF ReadDir, disk
  <2> QED
    BY <2>2, <2>3
<1> QED
  BY <1>1, <1>2, <1>3, OnwardMaps DEF Done

\* Reading the last directory, or failing to read one, is the instant of a
\* list's answer.
LEMMA ListDirMaps ==
    ASSUME PromiseInv, PromiseInv', Watch, NEW h \in Handlers, ListDir(h)
    PROVE  A!List(h) \/ UNCHANGED A!vars
<1> USE DEF PromiseInv, TypeInv, TypeOK
<1>1. UNCHANGED <<node, req, got>> /\ pc[h] = "walk" /\ Step(h)
  BY DEF ListDir, disk, Step
<1>2. req[h].op = "list"
  BY <1>1 DEF PcMeaning, ServesItsRequest
<1>3. KV' = KV
  BY <1>1, SameMap
<1>4. CASE UNCHANGED <<pc, res>>
  <2>1. Stage'[h] = Stage[h] /\ Answer'[h] = Answer[h]
    BY <1>1, <1>4, Shown, ShownNext DEF Done
  <2> QED
    BY <1>1, <1>3, <1>4, <2>1, QuietMaps
<1>5. CASE Decide(h, "failed", "reply")
  <2>1. pc'[h] = "reply" /\ res'[h] = "failed"
    BY <1>5 DEF Decide, Goto
  <2>2. /\ Stage[h] = "pending" /\ A!Answered(h, "failed")
        /\ Answer' = Answer
    BY <1>1, <2>1, DecideMaps DEF Done
  <2> QED
    BY <1>1, <1>2, <1>3, <2>2 DEF A!List, A!Serving
<1>6. CASE Decide(h, "ok", "reply") /\ walk'[h] = {}
  <2>1. pc'[h] = "reply" /\ res'[h] = "ok"
    BY <1>6 DEF Decide, Goto
  <2>2. Stage' = [Stage EXCEPT ![h] = "done"] /\ Stage[h] = "pending"
    BY <1>1, <2>1, StepsAlone, Shown, ShownNext DEF Done
  <2>3. res' = [res EXCEPT ![h] = "ok"]
    BY <1>6 DEF Decide
  <2>4. Answer' = [Answer EXCEPT ![h] = found'[h]]
    BY <1>1, <2>1, StepsAlone, ShownNext
  <2>5. PICK d \in walk[h] :
           /\ found'[h] = found[h] \cup { n \in Stored : HomeOf(n) = d }
           /\ walk'[h] = (walk[h] \ {d}) \cup
                            { c \in Dirs \ {Root} : Parent(c) = d /\ IsDir(c) }
    <3>1. PICK d \in walk[h] :
           /\ found' = [found EXCEPT ![h] = @ \cup { n \in Stored : HomeOf(n) = d }]
           /\ walk' = [walk EXCEPT ![h] = (@ \ {d}) \cup
                            { c \in Dirs \ {Root} : Parent(c) = d /\ IsDir(c) }]
      BY <1>6, <2>1 DEF ListDir, Decide
    <3> QED
      BY <3>1
  <2>6. ListKept(h)
    BY DEF ListsKept
  <2>7. always[h] \subseteq found'[h]
    <3>1. ASSUME NEW n \in always[h] PROVE n \in found'[h] \/ Ahead(h, n)'
      BY <1>1, <2>5, <2>6, <3>1, ReadsOn
    <3> QED
      BY <1>6, <3>1 DEF Ahead
  <2>8. found'[h] \subseteq ever[h]
    BY <1>1, <2>5, <2>6 DEF ListKept
  <2> QED
    BY <1>1, <1>2, <1>3, <2>2, <2>3, <2>4, <2>7, <2>8 DEF A!List, A!Serving, A!Answered
<1> QED
  BY <1>4, <1>5, <1>6 DEF ListDir

\* The promise speaks of the same requests.
LEMMA SameRequests ==
    /\ A!Offered = Offered /\ A!NoRequest = NoRequest
    /\ \A r : A!Rejected(r) = Rejected(r)
  BY DEF A!Offered, A!AllRequests, A!NoRequest, A!Rejected, Offered, AllRequests, NoRequest,
     Rejected

LEMMA ReceiveMaps ==
    ASSUME PromiseInv, PromiseInv', NEW h \in Handlers, Receive(h)
    PROVE  A!Receive(h)
<1> USE DEF PromiseInv, TypeInv, TypeOK
<1>1. pc[h] = "idle" /\ UNCHANGED <<node, found, got>>
  BY DEF Receive, disk
<1>2. PICK r \in Offered :
        /\ req' = [req EXCEPT ![h] = r]
        /\ pc' = [pc EXCEPT ![h] = IF Rejected(r) THEN "reply" ELSE FirstCall(r)]
        /\ res' = [res EXCEPT ![h] = IF Rejected(r) THEN "rejected" ELSE "none"]
  BY DEF Receive
<1>3. pc'[h] = IF Rejected(r) THEN "reply" ELSE FirstCall(r)
  BY <1>2
<1>4. FirstCall(r) \in {"stat", "verify", "walk"}
  BY DEF FirstCall, Offered, AllRequests
<1>5. Stage'[h] = IF Rejected(r) THEN "done" ELSE "pending"
  BY <1>3, <1>4, ShownNext DEF Done
<1>6. Stage[h] = "idle" /\ Stage' = [Stage EXCEPT ![h] = IF Rejected(r) THEN "done" ELSE "pending"]
  BY <1>1, <1>5, StepsAlone, StageIdle
<1>7. Answer' = Answer
  <2>1. found'[h] = {}
    BY <1>1 DEF ListsKept, ListKept
  <2>2. Answer'[h] = {} /\ Answer[h] = {}
    BY <1>1, <2>1, Shown, ShownNext
  <2>3. \A k \in Handlers : Answer'[k] = Answer[k]
    BY <2>2, StepIsLocal, ListIsLocal DEF Answer
  <2> QED
    BY <2>3 DEF Answer
<1> QED
  BY <1>1, <1>2, <1>6, <1>7, SameMap, SameRequests DEF A!Receive

LEMMA ReplyMaps ==
    ASSUME PromiseInv, PromiseInv', NEW h \in Handlers, Reply(h)
    PROVE  A!Reply(h)
<1> USE DEF PromiseInv, TypeInv, TypeOK
<1>1. pc[h] = "reply" /\ UNCHANGED node /\ Step(h) /\ pc'[h] = "idle"
  BY DEF Reply, disk, Step, Goto
<1>2. Stage[h] = "done" /\ Stage' = [Stage EXCEPT ![h] = "idle"]
  BY <1>1, Shown, ShownNext, StepsAlone DEF Done
<1>3. Answer' = [Answer EXCEPT ![h] = {}]
  BY <1>1, ShownNext, StepsAlone
<1> QED
  BY <1>1, <1>2, <1>3, SameMap, SameRequests DEF Reply, A!Reply

LEMMA CrashMaps ==
    ASSUME Crash
    PROVE  A!Crash
<1>1. /\ Stage' = [h \in Handlers |-> "idle"]
      /\ Answer' = [h \in Handlers |-> {}]
  BY DEF Crash, Stage, Answer
<1>2. KV' = KV
  BY SameMap DEF Crash
<1> QED
  BY <1>1, <1>2, SameRequests DEF Crash, A!Crash

-----------------------------------------------------------------------------
\* The refinement.

LEMMA InitMaps == Init => A!Init
<1> SUFFICES ASSUME Init PROVE A!Init
  OBVIOUS
<1>1. \A p \in Paths : node[p] = IF p = Root THEN Directory ELSE Absent
  BY DEF Init
<1>2. \A n \in Names : n \notin Stored
  BY <1>1, FileHome DEF Stored, IsFile
<1>3. KV = [n \in Names |-> NoValue]
  BY <1>2 DEF KV
<1>4. Stage = [h \in Handlers |-> "idle"] /\ Answer = [h \in Handlers |-> {}]
  BY DEF Init, Stage, Answer
<1> QED
  BY <1>3, <1>4, SameRequests DEF Init, A!Init

LEMMA NextMaps ==
    ASSUME NoClash, PromiseInv, PromiseInv', [Next]_vars
    PROVE  [A!Next]_(A!vars)
<1>1. CASE UNCHANGED vars
  <2>1. KV' = KV /\ Stage' = Stage /\ Answer' = Answer
    BY <1>1 DEF vars, KV, Stored, IsFile, Stage, Answer
  <2> QED
    BY <1>1, <2>1 DEF vars, A!vars
<1>2. CASE Crash /\ Watch
  <2>1. A!Watch
    BY <1>2, WatchMaps DEF Crash
  <2> QED
    BY <1>2, <2>1, CrashMaps DEF A!Next
<1>3. ASSUME NEW h \in Handlers, Receive(h) \/ Step(h), Watch PROVE [A!Next]_(A!vars)
  <2>1. \A k \in Handlers : pc'[k] = "walk" => pc[k] \in {"idle", "walk"}
    BY <1>3, StepIsLocal, WalkBegins DEF PromiseInv, Receive, ListDir
  <2>2. A!Watch
    BY <1>3, <2>1, WatchMaps
  <2>3. CASE A!Receive(h) \/ A!Handle(h)
    BY <2>2, <2>3 DEF A!Next
  <2>4. A!Receive(h) \/ A!Handle(h) \/ UNCHANGED A!vars
    <3>1. CASE Receive(h)
      BY <3>1, ReceiveMaps
    <3>2. CASE SetStep(h)
      BY <1>3, <3>2, MakeWayMaps, WriteMaps, RenameMaps DEF SetStep, A!Handle
    <3>3. CASE Verify(h) \/ Read(h) \/ RemoveFile(h)
      BY <1>3, <3>3, VerifyMaps, ReadMaps, RemoveFileMaps DEF A!Handle
    <3>4. CASE ReadDir(h) \/ Rmdir(h)
      BY <1>3, <3>4, CleanupMaps
    <3>5. CASE ListDir(h) \/ Reply(h)
      BY <1>3, <3>5, ListDirMaps, ReplyMaps DEF A!Handle
    <3> QED
      BY <1>3, <3>1, <3>2, <3>3, <3>4, <3>5 DEF Step
  <2> QED
    BY <2>3, <2>4
<1> QED
  BY <1>1, <1>2, <1>3 DEF Next

\* A is Store!Promise with names for the parts of the mapping.
LEMMA PromiseIsA ==
    /\ A!Init => Promise!Init
    /\ [A!Next]_(A!vars) => [Promise!Next]_(Promise!vars)
<1> USE DEF KV, Stage, Answer, A!Serving, Promise!Serving, A!Answered, Promise!Answered,
            A!NoRequest, Promise!NoRequest
<1>1. A!Init => Promise!Init
  BY DEF A!Init, Promise!Init
<1>2. A!vars = Promise!vars /\ A!vars' = Promise!vars'
  BY DEF A!vars, Promise!vars
<1>3. ASSUME NEW h \in Handlers
      PROVE  /\ A!Receive(h) => Promise!Receive(h)
             /\ A!Set(h) => Promise!Set(h)
             /\ A!Get(h) => Promise!Get(h)
             /\ A!Delete(h) => Promise!Delete(h)
             /\ A!List(h) => Promise!List(h)
             /\ A!Reply(h) => Promise!Reply(h)
  <2>1. A!Receive(h) => Promise!Receive(h)
    BY DEF A!Receive, Promise!Receive, A!Offered, A!AllRequests, A!Rejected,
           Promise!Offered, Promise!AllRequests, Promise!Rejected
  <2>2. A!Set(h) => Promise!Set(h)
    BY DEF A!Set, Promise!Set
  <2>3. A!Get(h) => Promise!Get(h)
    BY DEF A!Get, Promise!Get, A!Stored, Promise!Stored
  <2>4. A!Delete(h) => Promise!Delete(h)
    BY DEF A!Delete, Promise!Delete, A!Stored, Promise!Stored
  <2>5. A!List(h) => Promise!List(h)
    BY DEF A!List, Promise!List
  <2>6. A!Reply(h) => Promise!Reply(h)
    BY DEF A!Reply, Promise!Reply
  <2> QED
    BY <2>1, <2>2, <2>3, <2>4, <2>5, <2>6
<1>4. A!Crash => Promise!Crash
  BY DEF A!Crash, Promise!Crash
<1>5. A!Watch => Promise!Watch
  BY DEF A!Watch, Promise!Watch, A!Stored, Promise!Stored
<1>6. A!Next => Promise!Next
  BY <1>3, <1>4, <1>5 DEF A!Next, Promise!Next, A!Handle, Promise!Handle
<1> QED
  BY <1>1, <1>2, <1>6

\* Without a clash of names, and with whatever failures and restarts, sets,
\* gets and deletes are linearizable and a list is a faithful snapshot of the
\* walk it took, for any number of handlers: each takes effect at one of its
\* system calls (the rename, the read or failed lookup, the unlink, the last
\* directory read), whatever the others interleave.
THEOREM StoreKeepsPromise == ASSUME NoClash PROVE Spec => KeepsPromise
<1>1. Init => PromiseInv /\ Promise!Init
  BY InitPromise, InitMaps, PromiseIsA
<1>2. PromiseInv /\ [Next]_vars => PromiseInv'
  BY NextPromise
<1>3. PromiseInv /\ PromiseInv' /\ [Next]_vars => [Promise!Next]_(Promise!vars)
  BY NextMaps, PromiseIsA
<1> QED
  BY <1>1, <1>2, <1>3, PTL DEF Spec, KeepsPromise, Promise!Spec

=============================================================================
