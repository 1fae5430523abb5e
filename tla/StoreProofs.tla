---------------------------- MODULE StoreProofs ----------------------------
(***************************************************************************)
(* Proofs about Store: the shape of the state, the shape of the disk, and  *)
(* that a stored secret leaves the disk by its own delete only.            *)
(***************************************************************************)
EXTENDS Store, SecretTreeProofs

-----------------------------------------------------------------------------
\* What a handler's program counter says of its other variables.

Setting == {"stat", "mkdir", "lstat", "resolve", "create", "write", "rename", "unstage"}
Removing == {"remove", "readdir", "rmdir"}

\* A handler at a call of some operation serves a request for that operation,
\* and one that was not refused.
ServesItsRequest(h) ==
    /\ pc[h] \in Setting => req[h].op = "set"
    /\ pc[h] \in Removing => req[h].op = "delete"
    /\ pc[h] = "verify" => req[h].op \in {"get", "delete"}
    /\ pc[h] = "read" => req[h].op = "get"
    /\ pc[h] = "walk" => req[h].op = "list"
    /\ pc[h] \in Setting \cup Removing \cup {"verify", "read"} => req[h].name \in Names
    /\ pc[h] \in Setting => req[h].value \in Values

\* The cursor stays between the root and the namespace directory.
CursorOnItsWay(h) ==
    /\ pc[h] \in {"stat", "mkdir", "lstat"} => OnWay(cursor[h], Goal(h))
    /\ pc[h] \in {"mkdir", "lstat", "readdir", "rmdir"} => cursor[h] # Root

\* A temporary file exists from CreateTemp to Rename or to its removal, and is
\* complete when it is renamed.
TempInUse(h) ==
    /\ temp[h] # NoFile <=> pc[h] \in {"write", "rename", "unstage"}
    /\ pc[h] = "rename" => temp[h] = req[h].value

PcMeaning ==
    \A h \in Handlers : ServesItsRequest(h) /\ CursorOnItsWay(h) /\ TempInUse(h)

\* TypeOK without the history variables, which no action but Watch touches.
TypeCore ==
    /\ node \in [Paths -> Contents \cup {Absent, Directory}]
    /\ orphans \subseteq Paths
    /\ req \in [Handlers -> Offered \cup {NoRequest}]
    /\ pc \in [Handlers -> Labels]
    /\ cursor \in [Handlers -> {Root} \cup Dirs]
    /\ temp \in [Handlers -> Contents \cup {NoFile}]
    /\ walk \in [Handlers -> SUBSET ({Root} \cup Dirs)]
    /\ found \in [Handlers -> SUBSET Names]
    /\ got \in [Handlers -> Contents \cup {NoValue}]
    /\ res \in [Handlers -> Outcomes]

TypeInv == TypeOK /\ PcMeaning

\* The request of a handler that serves one.
LEMMA RequestShape ==
    ASSUME NEW r \in Offered
    PROVE  /\ r.op \in {"set", "get", "delete", "list"}
           /\ r.op = "set" => r.name \in Names \cup {BadName} /\ r.value \in Values \cup {BadBody}
           /\ r.op \in {"get", "delete"} =>
                    /\ r.name \in Names \cup {BadName}
                    /\ r = [op |-> r.op, name |-> r.name, value |-> NoValue]
<1>1. r \in AllRequests
  BY DEF Offered
<1>2. CASE r \in [op : {"set"}, name : Names \cup {BadName}, value : Values \cup {BadBody}]
  BY <1>2
<1>3. CASE r \in [op : {"get", "delete"}, name : Names \cup {BadName}, value : {NoValue}]
  BY <1>3
<1>4. CASE r \in [op : {"list"}, name : {NoName}, value : {NoValue}]
  BY <1>4
<1> QED
  BY <1>1, <1>2, <1>3, <1>4 DEF AllRequests

LEMMA InitTypeInv == Init => TypeInv
<1> SUFFICES ASSUME Init PROVE TypeInv
  OBVIOUS
<1>1. Root \in Paths
  BY DEF Paths
<1>2. TypeOK
  BY <1>1 DEF Init, TypeOK, Labels, Outcomes, Contents
<1>3. PcMeaning
  BY NodeConstants DEF Init, PcMeaning, ServesItsRequest, CursorOnItsWay, TempInUse,
     Setting, Removing
<1> QED
  BY <1>2, <1>3 DEF TypeInv

\* The history variables hold names, whatever the step.
LEMMA WatchType ==
    ASSUME TypeOK, Watch
    PROVE  /\ always' \in [Handlers -> SUBSET Names]
           /\ ever' \in [Handlers -> SUBSET Names]
<1>1. Stored' \subseteq Names
  BY DEF Stored
<1> QED
  BY <1>1 DEF TypeOK, Watch

\* The file and the namespace directory of the request a handler serves.
LEMMA GoalIsDir ==
    ASSUME NEW h \in Handlers, req[h].name \in Names
    PROVE  /\ Goal(h) \in Dirs /\ Goal(h) \in Paths
           /\ Target(h) \in Paths /\ Target(h) # Root /\ Parent(Target(h)) = Goal(h)
  BY FileHome DEF Goal, Target

\* MkdirAll's way down: one directory further, or on to EvalSymlinks.
LEMMA DescendTypeInv ==
    ASSUME TypeInv, NEW h \in Handlers, pc[h] \in {"stat", "mkdir", "lstat"},
           Descend(h), UNCHANGED <<req, temp>>
    PROVE  /\ pc' \in [Handlers -> Labels]
           /\ cursor' \in [Handlers -> {Root} \cup Dirs]
           /\ PcMeaning'
<1> USE DEF TypeInv, TypeOK
<1>1. req[h].op = "set" /\ req[h].name \in Names /\ req[h].value \in Values
  BY DEF PcMeaning, ServesItsRequest, Setting
<1>2. Goal(h) \in Dirs
  BY <1>1, GoalIsDir
<1>3. OnWay(cursor[h], Goal(h)) /\ temp[h] = NoFile
  BY DEF PcMeaning, CursorOnItsWay, TempInUse
<1>4. CASE cursor[h] = Goal(h)
  <2>1. pc' = [pc EXCEPT ![h] = "resolve"] /\ cursor' = cursor
    BY <1>4 DEF Descend, Goto
  <2>2. pc' \in [Handlers -> Labels] /\ cursor' \in [Handlers -> {Root} \cup Dirs]
    BY <2>1 DEF Labels
  <2>3. ASSUME NEW k \in Handlers
        PROVE  (ServesItsRequest(k) /\ CursorOnItsWay(k) /\ TempInUse(k))'
    BY <1>1, <1>3, <2>1 DEF PcMeaning, ServesItsRequest, CursorOnItsWay, TempInUse,
       Setting, Removing, Goal
  <2> QED
    BY <2>2, <2>3 DEF PcMeaning
<1>5. CASE cursor[h] # Goal(h)
  <2> DEFINE next == Toward(cursor[h], Goal(h))
  <2>1. pc' = [pc EXCEPT ![h] = "mkdir"] /\ cursor' = [cursor EXCEPT ![h] = next]
    BY <1>5 DEF Descend, Goto
  <2>2. next \in Dirs /\ next # Root /\ OnWay(next, Goal(h))
    BY <1>2, <1>3, <1>5, TowardGoal
  <2> HIDE DEF next
  <2>3. pc' \in [Handlers -> Labels] /\ cursor' \in [Handlers -> {Root} \cup Dirs]
    BY <2>1, <2>2 DEF Labels
  <2>4. ASSUME NEW k \in Handlers
        PROVE  (ServesItsRequest(k) /\ CursorOnItsWay(k) /\ TempInUse(k))'
    BY <1>1, <1>3, <2>1, <2>2 DEF PcMeaning, ServesItsRequest, CursorOnItsWay, TempInUse,
       Setting, Removing, Goal
  <2> QED
    BY <2>3, <2>4 DEF PcMeaning
<1> QED
  BY <1>4, <1>5

\* A step that leaves requests, cursors and temporary files alone and sends
\* its handler to "reply" keeps the meaning of every pc.
LEMMA ReplyMeaning ==
    ASSUME TypeInv, NEW h \in Handlers, temp[h] = NoFile,
           pc' = [pc EXCEPT ![h] = "reply"], UNCHANGED <<req, cursor, temp>>
    PROVE  pc' \in [Handlers -> Labels] /\ PcMeaning'
<1>1. pc' \in [Handlers -> Labels]
  BY DEF TypeInv, TypeOK, Labels
<1>2. ASSUME NEW k \in Handlers
      PROVE  (ServesItsRequest(k) /\ CursorOnItsWay(k) /\ TempInUse(k))'
  BY DEF TypeInv, TypeOK, PcMeaning, ServesItsRequest, CursorOnItsWay, TempInUse,
     Setting, Removing, Goal
<1> QED
  BY <1>1, <1>2 DEF PcMeaning

LEMMA StatTypeInv ==
    ASSUME TypeInv, NEW h \in Handlers, Stat(h)
    PROVE  TypeCore' /\ PcMeaning'
<1> USE DEF TypeInv, TypeOK
<1>1. UNCHANGED <<node, orphans, req, temp, walk, found, got>> /\ pc[h] = "stat"
  BY DEF Stat, disk, reading
<1>2. req[h].name \in Names /\ OnWay(cursor[h], Goal(h)) /\ temp[h] = NoFile
  BY <1>1 DEF PcMeaning, ServesItsRequest, CursorOnItsWay, TempInUse, Setting
<1>3. CASE IsDir(cursor[h]) /\ Descend(h) /\ UNCHANGED res
  BY <1>1, <1>3, DescendTypeInv DEF TypeCore
<1>4. CASE IsFile(cursor[h]) /\ GiveUp(h)
  BY <1>1, <1>2, <1>4, ReplyMeaning DEF GiveUp, Decide, Goto, TypeCore, Outcomes
<1>5. CASE /\ node[cursor[h]] = Absent
           /\ cursor' = [cursor EXCEPT ![h] = Parent(cursor[h])]
           /\ UNCHANGED <<pc, res>>
  <2> DEFINE up == Parent(cursor[h])
  <2>1. up \in {Root} \cup Dirs
    BY ParentOfDir
  <2>2. OnWay(up, Goal(h))
    BY <1>2, GoalIsDir, ParentOnWay
  <2> HIDE DEF up
  <2>3. TypeCore'
    BY <1>1, <1>5, <2>1 DEF TypeCore, up
  <2>4. ASSUME NEW k \in Handlers
        PROVE  (ServesItsRequest(k) /\ CursorOnItsWay(k) /\ TempInUse(k))'
    BY <1>1, <1>5, <2>2 DEF PcMeaning, ServesItsRequest, CursorOnItsWay, TempInUse,
       Setting, Removing, Goal, up
  <2> QED
    BY <2>3, <2>4 DEF PcMeaning
<1> QED
  BY <1>3, <1>4, <1>5 DEF Stat

LEMMA MkdirTypeInv ==
    ASSUME TypeInv, NEW h \in Handlers, Mkdir(h)
    PROVE  TypeCore' /\ PcMeaning'
<1> USE DEF TypeInv, TypeOK
<1>1. UNCHANGED <<orphans, req, temp, res, walk, found, got>> /\ pc[h] = "mkdir"
  BY DEF Mkdir, reading
<1>2. CASE /\ node' = [node EXCEPT ![cursor[h]] = Directory]
           /\ Descend(h)
  <2>1. node' \in [Paths -> Contents \cup {Absent, Directory}]
    BY <1>2
  <2> QED
    BY <1>1, <1>2, <2>1, DescendTypeInv DEF TypeCore
<1>3. CASE Goto(h, "lstat") /\ UNCHANGED <<node, cursor>>
  <2>1. TypeCore'
    BY <1>1, <1>3 DEF TypeCore, Goto, Labels
  <2>2. ASSUME NEW k \in Handlers
        PROVE  (ServesItsRequest(k) /\ CursorOnItsWay(k) /\ TempInUse(k))'
    BY <1>1, <1>3 DEF PcMeaning, ServesItsRequest, CursorOnItsWay, TempInUse,
       Setting, Removing, Goal, Goto
  <2> QED
    BY <2>1, <2>2 DEF PcMeaning
<1> QED
  BY <1>2, <1>3 DEF Mkdir

LEMMA LstatTypeInv ==
    ASSUME TypeInv, NEW h \in Handlers, Lstat(h)
    PROVE  TypeCore' /\ PcMeaning'
<1> USE DEF TypeInv, TypeOK
<1>1. UNCHANGED <<node, orphans, req, temp, walk, found, got>> /\ pc[h] = "lstat"
  BY DEF Lstat, disk, reading
<1>2. temp[h] = NoFile
  BY <1>1 DEF PcMeaning, TempInUse
<1>3. CASE Descend(h) /\ UNCHANGED res
  BY <1>1, <1>3, DescendTypeInv DEF TypeCore
<1>4. CASE GiveUp(h)
  BY <1>1, <1>2, <1>4, ReplyMeaning DEF GiveUp, Decide, Goto, TypeCore, Outcomes
<1> QED
  BY <1>3, <1>4 DEF Lstat

LEMMA ResolveTypeInv ==
    ASSUME TypeInv, NEW h \in Handlers, Resolve(h)
    PROVE  TypeCore' /\ PcMeaning'
<1> USE DEF TypeInv, TypeOK
<1>1. UNCHANGED <<node, orphans, req, temp, walk, found, got>> /\ pc[h] = "resolve"
  BY DEF Resolve, disk, reading
<1>2. temp[h] = NoFile
  BY <1>1 DEF PcMeaning, TempInUse
<1>3. CASE Goto(h, "create") /\ UNCHANGED <<res, cursor>>
  <2>1. TypeCore'
    BY <1>1, <1>3 DEF TypeCore, Goto, Labels
  <2>2. ASSUME NEW k \in Handlers
        PROVE  (ServesItsRequest(k) /\ CursorOnItsWay(k) /\ TempInUse(k))'
    BY <1>1, <1>3 DEF PcMeaning, ServesItsRequest, CursorOnItsWay, TempInUse,
       Setting, Removing, Goal, Goto
  <2> QED
    BY <2>1, <2>2 DEF PcMeaning
<1>4. CASE GiveUp(h)
  BY <1>1, <1>2, <1>4, ReplyMeaning DEF GiveUp, Decide, Goto, TypeCore, Outcomes
<1> QED
  BY <1>3, <1>4 DEF Resolve

LEMMA CreateTempTypeInv ==
    ASSUME TypeInv, NEW h \in Handlers, CreateTemp(h)
    PROVE  TypeCore' /\ PcMeaning'
<1> USE DEF TypeInv, TypeOK
<1>1. UNCHANGED <<node, orphans, req, walk, found, got>> /\ pc[h] = "create"
  BY DEF CreateTemp, disk, reading
<1>2. CASE /\ temp' = [temp EXCEPT ![h] = Blank]
           /\ Goto(h, "write")
           /\ UNCHANGED <<res, cursor>>
  <2>1. TypeCore'
    BY <1>1, <1>2 DEF TypeCore, Goto, Labels, Contents
  <2>2. ASSUME NEW k \in Handlers
        PROVE  (ServesItsRequest(k) /\ CursorOnItsWay(k) /\ TempInUse(k))'
    BY <1>1, <1>2, NodeConstants DEF PcMeaning, ServesItsRequest, CursorOnItsWay, TempInUse,
       Setting, Removing, Goal, Goto
  <2> QED
    BY <2>1, <2>2 DEF PcMeaning
<1>3. CASE UNCHANGED temp /\ GiveUp(h)
  <2>1. temp[h] = NoFile
    BY <1>1 DEF PcMeaning, TempInUse
  <2> QED
    BY <1>1, <2>1, <1>3, ReplyMeaning DEF GiveUp, Decide, Goto, TypeCore, Outcomes
<1> QED
  BY <1>2, <1>3 DEF CreateTemp

LEMMA WriteTypeInv ==
    ASSUME TypeInv, NEW h \in Handlers, Write(h)
    PROVE  TypeCore' /\ PcMeaning'
<1> USE DEF TypeInv, TypeOK
<1>1. UNCHANGED <<node, orphans, req, cursor, walk, found, got>> /\ pc[h] = "write"
  BY DEF Write, disk, reading
<1>2. req[h].value \in Values /\ temp[h] # NoFile
  BY <1>1 DEF PcMeaning, ServesItsRequest, TempInUse, Setting
<1>3. CASE /\ temp' = [temp EXCEPT ![h] = req[h].value]
           /\ Goto(h, "rename")
           /\ UNCHANGED res
  <2>1. TypeCore'
    BY <1>1, <1>2, <1>3 DEF TypeCore, Goto, Labels, Contents
  <2>2. ASSUME NEW k \in Handlers
        PROVE  (ServesItsRequest(k) /\ CursorOnItsWay(k) /\ TempInUse(k))'
    BY <1>1, <1>2, <1>3, NodeConstants DEF PcMeaning, ServesItsRequest, CursorOnItsWay,
       TempInUse, Setting, Removing, Goal, Goto
  <2> QED
    BY <2>1, <2>2 DEF PcMeaning
<1>4. CASE UNCHANGED temp /\ Decide(h, "failed", "unstage")
  <2>1. TypeCore'
    BY <1>1, <1>4 DEF TypeCore, Decide, Goto, Labels, Outcomes
  <2>2. ASSUME NEW k \in Handlers
        PROVE  (ServesItsRequest(k) /\ CursorOnItsWay(k) /\ TempInUse(k))'
    BY <1>1, <1>2, <1>4 DEF PcMeaning, ServesItsRequest, CursorOnItsWay,
       TempInUse, Setting, Removing, Goal, Decide, Goto
  <2> QED
    BY <2>1, <2>2 DEF PcMeaning
<1> QED
  BY <1>3, <1>4 DEF Write

LEMMA RenameTypeInv ==
    ASSUME TypeInv, NEW h \in Handlers, Rename(h)
    PROVE  TypeCore' /\ PcMeaning'
<1> USE DEF TypeInv, TypeOK
<1>1. UNCHANGED <<orphans, req, cursor, walk, found, got>> /\ pc[h] = "rename"
  BY DEF Rename, reading
<1>2. temp[h] \in Values /\ temp[h] # NoFile
  BY <1>1 DEF PcMeaning, ServesItsRequest, TempInUse, Setting
<1>3. CASE /\ node' = [node EXCEPT ![Target(h)] = temp[h]]
           /\ temp' = [temp EXCEPT ![h] = NoFile]
           /\ Decide(h, "ok", "reply")
  <2>1. TypeCore'
    BY <1>1, <1>2, <1>3 DEF TypeCore, Decide, Goto, Labels, Contents, Outcomes
  <2>2. ASSUME NEW k \in Handlers
        PROVE  (ServesItsRequest(k) /\ CursorOnItsWay(k) /\ TempInUse(k))'
    BY <1>1, <1>3 DEF PcMeaning, ServesItsRequest, CursorOnItsWay,
       TempInUse, Setting, Removing, Goal, Decide, Goto
  <2> QED
    BY <2>1, <2>2 DEF PcMeaning
<1>4. CASE UNCHANGED <<node, temp>> /\ Decide(h, "failed", "unstage")
  <2>1. TypeCore'
    BY <1>1, <1>4 DEF TypeCore, Decide, Goto, Labels, Outcomes
  <2>2. ASSUME NEW k \in Handlers
        PROVE  (ServesItsRequest(k) /\ CursorOnItsWay(k) /\ TempInUse(k))'
    BY <1>1, <1>2, <1>4 DEF PcMeaning, ServesItsRequest, CursorOnItsWay,
       TempInUse, Setting, Removing, Goal, Decide, Goto
  <2> QED
    BY <2>1, <2>2 DEF PcMeaning
<1> QED
  BY <1>3, <1>4 DEF Rename

LEMMA UnstageTypeInv ==
    ASSUME TypeInv, NEW h \in Handlers, Unstage(h)
    PROVE  TypeCore' /\ PcMeaning'
<1> USE DEF TypeInv, TypeOK
<1>1. /\ temp' = [temp EXCEPT ![h] = NoFile]
      /\ pc' = [pc EXCEPT ![h] = "reply"]
      /\ UNCHANGED <<node, orphans, req, cursor, res, walk, found, got>>
  BY DEF Unstage, Goto, disk, reading
<1>2. TypeCore'
  BY <1>1 DEF TypeCore, Labels
<1>3. ASSUME NEW k \in Handlers
      PROVE  (ServesItsRequest(k) /\ CursorOnItsWay(k) /\ TempInUse(k))'
  BY <1>1 DEF PcMeaning, ServesItsRequest, CursorOnItsWay, TempInUse,
     Setting, Removing, Goal
<1> QED
  BY <1>2, <1>3 DEF PcMeaning

LEMMA ReceiveTypeInv ==
    ASSUME TypeInv, NEW h \in Handlers, Receive(h)
    PROVE  TypeCore' /\ PcMeaning'
<1> USE DEF TypeInv, TypeOK
<1>1. PICK r \in Offered :
        /\ req' = [req EXCEPT ![h] = r]
        /\ pc' = [pc EXCEPT ![h] = IF Rejected(r) THEN "reply" ELSE FirstCall(r)]
        /\ res' = [res EXCEPT ![h] = IF Rejected(r) THEN "rejected" ELSE "none"]
        /\ cursor' = [cursor EXCEPT ![h] =
                        IF r.op = "set" /\ ~Rejected(r) THEN HomeOf(r.name) ELSE Root]
        /\ walk' = [walk EXCEPT ![h] = IF r.op = "list" THEN {Root} ELSE {}]
  BY DEF Receive
<1>2. UNCHANGED <<node, orphans, temp, found, got>> /\ pc[h] = "idle"
  BY DEF Receive, disk
<1>3. temp[h] = NoFile
  BY <1>2 DEF PcMeaning, TempInUse
<1>4. /\ r.op \in {"set", "get", "delete", "list"}
      /\ r.op \in {"set", "get", "delete"} /\ ~Rejected(r) => r.name \in Names
      /\ r.op = "set" /\ ~Rejected(r) => r.value \in Values
  BY RequestShape DEF Rejected
<1>5. FirstCall(r) = CASE r.op = "set" -> "stat"
                       [] r.op \in {"get", "delete"} -> "verify"
                       [] r.op = "list" -> "walk"
  BY DEF FirstCall
<1>6. r.op = "set" /\ ~Rejected(r) => HomeOf(r.name) \in Dirs /\ OnWay(HomeOf(r.name), HomeOf(r.name))
  BY <1>4, FileHome, HomeOnWay
<1>7. TypeCore'
  BY <1>1, <1>2, <1>4, <1>5, <1>6 DEF TypeCore, Labels, Outcomes
<1>8. ASSUME NEW k \in Handlers
      PROVE  (ServesItsRequest(k) /\ CursorOnItsWay(k) /\ TempInUse(k))'
  <2>1. CASE k = h
    BY <1>1, <1>2, <1>3, <1>4, <1>5, <1>6, <2>1 DEF PcMeaning, ServesItsRequest,
       CursorOnItsWay, TempInUse, Setting, Removing, Goal
  <2>2. CASE k # h
    BY <1>1, <1>2, <2>2 DEF PcMeaning, ServesItsRequest, CursorOnItsWay, TempInUse, Goal
  <2> QED
    BY <2>1, <2>2
<1> QED
  BY <1>7, <1>8 DEF PcMeaning

LEMMA ReplyTypeInv ==
    ASSUME TypeInv, NEW h \in Handlers, Reply(h)
    PROVE  TypeCore' /\ PcMeaning'
<1> USE DEF TypeInv, TypeOK
<1>1. /\ pc[h] = "reply" /\ pc' = [pc EXCEPT ![h] = "idle"]
      /\ req' = [req EXCEPT ![h] = NoRequest]
      /\ cursor' = [cursor EXCEPT ![h] = Root]
      /\ UNCHANGED <<node, orphans, temp>>
  BY DEF Reply, Goto, disk
<1>2. TypeCore'
  BY <1>1 DEF TypeCore, Reply, Labels, Outcomes
<1>3. ASSUME NEW k \in Handlers
      PROVE  (ServesItsRequest(k) /\ CursorOnItsWay(k) /\ TempInUse(k))'
  BY <1>1 DEF PcMeaning, ServesItsRequest, CursorOnItsWay, TempInUse, Setting, Removing, Goal
<1> QED
  BY <1>2, <1>3 DEF PcMeaning

LEMMA VerifyTypeInv ==
    ASSUME TypeInv, NEW h \in Handlers, Verify(h)
    PROVE  TypeCore' /\ PcMeaning'
<1> USE DEF TypeInv, TypeOK
<1>1. UNCHANGED <<node, orphans, req, cursor, temp, walk, found, got>> /\ pc[h] = "verify"
  BY DEF Verify, disk, reading
<1>2. temp[h] = NoFile
  BY <1>1 DEF PcMeaning, TempInUse
<1>3. CASE Goto(h, IF req[h].op = "get" THEN "read" ELSE "remove") /\ UNCHANGED res
  <2>1. TypeCore'
    BY <1>1, <1>3 DEF TypeCore, Goto, Labels
  <2>2. ASSUME NEW k \in Handlers
        PROVE  (ServesItsRequest(k) /\ CursorOnItsWay(k) /\ TempInUse(k))'
    BY <1>1, <1>3 DEF PcMeaning, ServesItsRequest, CursorOnItsWay, TempInUse,
       Setting, Removing, Goal, Goto
  <2> QED
    BY <2>1, <2>2 DEF PcMeaning
<1>4. CASE Missing(h, Target(h))
  BY <1>1, <1>2, <1>4, ReplyMeaning DEF Missing, Decide, Goto, TypeCore, Outcomes
<1> QED
  BY <1>3, <1>4 DEF Verify

LEMMA ReadTypeInv ==
    ASSUME TypeInv, NEW h \in Handlers, Read(h)
    PROVE  TypeCore' /\ PcMeaning'
<1> USE DEF TypeInv, TypeOK
<1>1. UNCHANGED <<node, orphans, req, cursor, temp, walk, found>> /\ pc[h] = "read"
  BY DEF Read, disk
<1>2. temp[h] = NoFile /\ Target(h) \in Paths
  BY <1>1, GoalIsDir DEF PcMeaning, ServesItsRequest, TempInUse
<1>3. pc' = [pc EXCEPT ![h] = "reply"] /\ res' \in [Handlers -> Outcomes]
  BY <1>1 DEF Read, Missing, Decide, Goto, Outcomes
<1>4. got' \in [Handlers -> Contents \cup {NoValue}]
  BY <1>2 DEF Read, IsFile
<1> QED
  BY <1>1, <1>2, <1>3, <1>4, ReplyMeaning DEF TypeCore

\* The cleanup loop's next directory, or the end of the loop.
LEMMA ClimbTypeInv ==
    ASSUME TypeInv, NEW h \in Handlers, NEW d \in {Root} \cup Dirs,
           pc[h] \in {"remove", "rmdir"}, Climb(h, d), UNCHANGED <<req, temp>>
    PROVE  /\ pc' \in [Handlers -> Labels]
           /\ cursor' \in [Handlers -> {Root} \cup Dirs]
           /\ PcMeaning'
<1> USE DEF TypeInv, TypeOK
<1>1. /\ cursor' = [cursor EXCEPT ![h] = d]
      /\ pc' = [pc EXCEPT ![h] = IF d = Root THEN "reply" ELSE "readdir"]
  BY DEF Climb, Goto
<1>2. pc' \in [Handlers -> Labels] /\ cursor' \in [Handlers -> {Root} \cup Dirs]
  BY <1>1 DEF Labels
<1>3. ASSUME NEW k \in Handlers
      PROVE  (ServesItsRequest(k) /\ CursorOnItsWay(k) /\ TempInUse(k))'
  BY <1>1 DEF PcMeaning, ServesItsRequest, CursorOnItsWay, TempInUse, Setting, Removing, Goal
<1> QED
  BY <1>2, <1>3 DEF PcMeaning

LEMMA RemoveFileTypeInv ==
    ASSUME TypeInv, NEW h \in Handlers, RemoveFile(h)
    PROVE  TypeCore' /\ PcMeaning'
<1> USE DEF TypeInv, TypeOK
<1>1. UNCHANGED <<orphans, req, temp, walk, found, got>> /\ pc[h] = "remove"
  BY DEF RemoveFile, reading
<1>2. temp[h] = NoFile /\ Goal(h) \in Dirs
  BY <1>1, GoalIsDir DEF PcMeaning, ServesItsRequest, TempInUse, Removing
<1>3. CASE /\ node' = [node EXCEPT ![Target(h)] = Absent]
           /\ res' = [res EXCEPT ![h] = "ok"]
           /\ Climb(h, Goal(h))
  BY <1>1, <1>2, <1>3, ClimbTypeInv DEF TypeCore, Outcomes
<1>4. CASE Decide(h, "failed", "reply") /\ UNCHANGED <<node, cursor>>
  BY <1>1, <1>2, <1>4, ReplyMeaning DEF Decide, Goto, TypeCore, Outcomes
<1>5. CASE Missing(h, Target(h)) /\ UNCHANGED <<node, cursor>>
  BY <1>1, <1>2, <1>5, ReplyMeaning DEF Missing, Decide, Goto, TypeCore, Outcomes
<1> QED
  BY <1>3, <1>4, <1>5 DEF RemoveFile

LEMMA ReadDirTypeInv ==
    ASSUME TypeInv, NEW h \in Handlers, ReadDir(h)
    PROVE  TypeCore' /\ PcMeaning'
<1> USE DEF TypeInv, TypeOK
<1>1. /\ UNCHANGED <<node, orphans, req, cursor, temp, res, walk, found, got>>
      /\ pc[h] = "readdir"
      /\ \/ pc' = [pc EXCEPT ![h] = "reply"]
         \/ pc' = [pc EXCEPT ![h] = "rmdir"]
  BY DEF ReadDir, Goto, disk, reading
<1>2. TypeCore'
  BY <1>1 DEF TypeCore, Labels
<1>3. ASSUME NEW k \in Handlers
      PROVE  (ServesItsRequest(k) /\ CursorOnItsWay(k) /\ TempInUse(k))'
  BY <1>1 DEF PcMeaning, ServesItsRequest, CursorOnItsWay, TempInUse, Setting, Removing, Goal
<1> QED
  BY <1>2, <1>3 DEF PcMeaning

LEMMA RmdirTypeInv ==
    ASSUME TypeInv, NEW h \in Handlers, Rmdir(h)
    PROVE  TypeCore' /\ PcMeaning'
<1> USE DEF TypeInv, TypeOK
<1>1. /\ UNCHANGED <<orphans, req, temp, res, walk, found, got>>
      /\ pc[h] = "rmdir"
      /\ Climb(h, Parent(cursor[h]))
  BY DEF Rmdir, reading
<1>2. Parent(cursor[h]) \in {Root} \cup Dirs
  BY ParentOfDir
<1>3. node' \in [Paths -> Contents \cup {Absent, Directory}]
  BY DEF Rmdir
<1> QED
  BY <1>1, <1>2, <1>3, ClimbTypeInv DEF TypeCore

LEMMA ListDirTypeInv ==
    ASSUME TypeInv, NEW h \in Handlers, ListDir(h)
    PROVE  TypeCore' /\ PcMeaning'
<1> USE DEF TypeInv, TypeOK
<1>1. UNCHANGED <<node, orphans, req, cursor, temp, got>> /\ pc[h] = "walk"
  BY DEF ListDir, disk
<1>2. temp[h] = NoFile
  BY <1>1 DEF PcMeaning, TempInUse
<1>3. found' \in [Handlers -> SUBSET Names] /\ walk' \in [Handlers -> SUBSET ({Root} \cup Dirs)]
  BY DEF ListDir, Stored
<1>4. CASE UNCHANGED <<pc, res>>
  BY <1>1, <1>3, <1>4 DEF TypeCore, PcMeaning, ServesItsRequest, CursorOnItsWay, TempInUse, Goal
<1>5. CASE \E outcome \in {"ok", "failed"} : Decide(h, outcome, "reply")
  BY <1>1, <1>2, <1>3, <1>5, ReplyMeaning DEF Decide, Goto, TypeCore, Outcomes
<1> QED
  BY <1>4, <1>5 DEF ListDir

LEMMA CrashTypeInv ==
    ASSUME TypeInv, Crash
    PROVE  TypeCore' /\ PcMeaning'
<1> USE DEF TypeInv, TypeOK
<1>1. Cluttered \subseteq Paths
  <2>1. ASSUME NEW k \in Handlers, temp[k] # NoFile
        PROVE  HomeOf(req[k].name) \in Paths
    BY <2>1, GoalIsDir DEF PcMeaning, TempInUse, ServesItsRequest, Setting, Goal
  <2> QED
    BY <2>1 DEF Cluttered
<1>2. TypeCore'
  BY <1>1 DEF Crash, TypeCore, Labels, Outcomes
<1>3. PcMeaning'
  BY NodeConstants DEF Crash, PcMeaning, ServesItsRequest, CursorOnItsWay, TempInUse,
     Setting, Removing
<1> QED
  BY <1>2, <1>3

LEMMA NextTypeInv == TypeInv /\ [Next]_vars => TypeInv'
<1> SUFFICES ASSUME TypeInv, [Next]_vars PROVE TypeInv'
  OBVIOUS
<1>1. CASE Next
  <2>1. TypeCore' /\ PcMeaning'
    <3>1. ASSUME NEW h \in Handlers, Receive(h) PROVE TypeCore' /\ PcMeaning'
      BY <3>1, ReceiveTypeInv
    <3>2. ASSUME NEW h \in Handlers, Step(h) PROVE TypeCore' /\ PcMeaning'
      BY <3>2, StatTypeInv, MkdirTypeInv, LstatTypeInv, ResolveTypeInv, CreateTempTypeInv,
         WriteTypeInv, RenameTypeInv, UnstageTypeInv, VerifyTypeInv, ReadTypeInv,
         RemoveFileTypeInv, ReadDirTypeInv, RmdirTypeInv, ListDirTypeInv, ReplyTypeInv
         DEF Step, SetStep
    <3> QED
      BY <1>1, <3>1, <3>2, CrashTypeInv DEF Next
  <2>2. Watch
    BY <1>1 DEF Next
  <2> QED
    BY <2>1, <2>2, WatchType DEF TypeInv, TypeOK, TypeCore
<1>2. CASE UNCHANGED vars
  <2>1. TypeOK'
    BY <1>2 DEF TypeInv, TypeOK, vars
  <2>2. PcMeaning'
    BY <1>2 DEF TypeInv, vars, PcMeaning, ServesItsRequest, CursorOnItsWay, TempInUse, Goal
  <2> QED
    BY <2>1, <2>2 DEF TypeInv
<1> QED
  BY <1>1, <1>2

\* Every variable keeps its shape, for every set of names, values and
\* handlers: MkdirAll and the cleanup loop never leave the namespace
\* directories of the store, and what is renamed into place is the whole body.
THEOREM TypeCorrect == Spec => []TypeOK
<1>1. Spec => []TypeInv
  BY InitTypeInv, NextTypeInv, PTL DEF Spec
<1>2. TypeInv => TypeOK
  BY DEF TypeInv
<1> QED
  BY <1>1, <1>2, PTL

-----------------------------------------------------------------------------
\* The disk is a tree.

\* Who has a temporary file, and where.
LEMMA ClutteredBy ==
    ASSUME NEW d
    PROVE  d \in Cluttered <=>
              d \in orphans \/ \E h \in Handlers : temp[h] # NoFile /\ d = HomeOf(req[h].name)
  BY DEF Cluttered

\* A step that leaves the nodes alone and adds no temporary file anywhere.
LEMMA QuietTree ==
    ASSUME TreeShape, UNCHANGED node, Cluttered' \subseteq Cluttered
    PROVE  TreeShape'
  BY DEF TreeShape, IsDir

\* ... nor takes one over to another request.
LEMMA QuietClutter ==
    ASSUME UNCHANGED orphans,
           \A k \in Handlers : temp'[k] # NoFile => temp[k] # NoFile /\ req'[k] = req[k]
    PROVE  Cluttered' \subseteq Cluttered
  BY DEF Cluttered

LEMMA MkdirTree ==
    ASSUME TypeInv, TreeShape, NEW h \in Handlers, Mkdir(h)
    PROVE  TreeShape'
<1> USE DEF TypeInv, TypeOK
<1>1. Cluttered' \subseteq Cluttered
  BY QuietClutter DEF Mkdir
<1>2. CASE UNCHANGED node
  BY <1>1, <1>2, QuietTree
<1>3. CASE /\ node[cursor[h]] = Absent
           /\ IsDir(Parent(cursor[h]))
           /\ node' = [node EXCEPT ![cursor[h]] = Directory]
  <2>1. \A p \in Paths : IsDir(p) => node'[p] = Directory
    BY <1>3 DEF IsDir
  <2>2. Root \in Paths /\ (\A d \in Cluttered : IsDir(d) => d \in Paths)
    <3>1. orphans \subseteq Paths
      OBVIOUS
    <3>2. \A k \in Handlers : temp[k] # NoFile => HomeOf(req[k].name) \in Paths
      BY FileHome DEF PcMeaning, TempInUse, ServesItsRequest, Setting
    <3> QED
      BY <3>1, <3>2, ClutteredBy DEF Paths
  <2>3. \A p \in Paths \ {Root} : node'[p] # Absent => node'[Parent(p)] = Directory
    <3>1. \A p \in Paths \ {Root} : Parent(p) \in Paths
      BY ParentOfDir, FileHome DEF Paths, Files
    <3> QED
      BY <1>3, <2>1, <3>1 DEF TreeShape, IsDir
  <2> QED
    BY <1>1, <2>1, <2>2, <2>3 DEF TreeShape, IsDir
<1> QED
  BY <1>2, <1>3 DEF Mkdir

LEMMA CreateTempTree ==
    ASSUME TypeInv, TreeShape, NEW h \in Handlers, CreateTemp(h)
    PROVE  TreeShape'
<1> USE DEF TypeInv, TypeOK
<1>1. UNCHANGED <<node, orphans, req>>
  BY DEF CreateTemp, disk
<1>2. CASE IsDir(Goal(h)) /\ temp' = [temp EXCEPT ![h] = Blank]
  <2>1. \A d \in Cluttered' : d \in Cluttered \/ d = Goal(h)
    BY <1>1, <1>2 DEF Cluttered, Goal
  <2> QED
    BY <1>1, <1>2, <2>1 DEF TreeShape, IsDir
<1>3. CASE UNCHANGED temp
  <2>1. Cluttered' \subseteq Cluttered
    BY <1>1, <1>3, QuietClutter
  <2> QED
    BY <1>1, <2>1, QuietTree
<1> QED
  BY <1>2, <1>3 DEF CreateTemp

LEMMA RenameTree ==
    ASSUME TypeInv, TreeShape, NEW h \in Handlers, Rename(h)
    PROVE  TreeShape'
<1> USE DEF TypeInv, TypeOK
<1>1. UNCHANGED <<orphans, req>> /\ pc[h] = "rename"
  BY DEF Rename
<1>2. Cluttered' \subseteq Cluttered
  BY <1>1, QuietClutter DEF Rename
<1>3. CASE UNCHANGED node
  BY <1>2, <1>3, QuietTree
<1>4. CASE ~IsDir(Target(h)) /\ node' = [node EXCEPT ![Target(h)] = temp[h]]
  <2>1. req[h].name \in Names /\ temp[h] # NoFile
    BY <1>1 DEF PcMeaning, ServesItsRequest, TempInUse, Setting
  <2>2. Target(h) \in Paths /\ Target(h) # Root /\ Parent(Target(h)) = Goal(h)
    BY <2>1, GoalIsDir
  <2>3. IsDir(Goal(h))
    BY <2>1, ClutteredBy DEF TreeShape, Goal
  <2>4. \A p : IsDir(p) => IsDir(p)'
    BY <1>4 DEF IsDir
  <2> QED
    BY <1>2, <1>4, <2>2, <2>3, <2>4 DEF TreeShape
<1> QED
  BY <1>3, <1>4 DEF Rename

LEMMA UnstageTree ==
    ASSUME TypeInv, TreeShape, NEW h \in Handlers, Unstage(h)
    PROVE  TreeShape'
<1>1. Cluttered' \subseteq Cluttered
  BY QuietClutter DEF Unstage, disk, TypeInv, TypeOK
<1> QED
  BY <1>1, QuietTree DEF Unstage, disk

\* Taking away a file, or an empty directory, breaks nothing above or below.
LEMMA RemovalTree ==
    ASSUME TypeInv, TreeShape, NEW q \in Paths, q # Root, Removable(q),
           node' = [node EXCEPT ![q] = Absent], Cluttered' \subseteq Cluttered
    PROVE  TreeShape'
<1> USE DEF TypeInv, TypeOK
<1>1. \A p \in Paths \ {Root} : node[p] # Absent => Parent(p) # q
  BY NodeConstants DEF Removable, TreeShape, IsFile, IsDir, Empty
<1>2. q \notin Cluttered
  BY NodeConstants DEF Removable, TreeShape, IsFile, IsDir, Empty
<1>3. \A p : p # q /\ IsDir(p) => IsDir(p)'
  BY DEF IsDir
<1>4. \A p \in Paths \ {Root} : node'[p] # Absent => node[p] # Absent
  OBVIOUS
<1> QED
  BY <1>1, <1>2, <1>3, <1>4 DEF TreeShape

LEMMA RemoveFileTree ==
    ASSUME TypeInv, TreeShape, NEW h \in Handlers, RemoveFile(h)
    PROVE  TreeShape'
<1> USE DEF TypeInv, TypeOK
<1>1. Cluttered' \subseteq Cluttered
  BY QuietClutter DEF RemoveFile
<1>2. CASE UNCHANGED node
  BY <1>1, <1>2, QuietTree
<1>3. CASE Removable(Target(h)) /\ node' = [node EXCEPT ![Target(h)] = Absent]
  <2>1. Target(h) \in Paths /\ Target(h) # Root
    BY GoalIsDir DEF RemoveFile, PcMeaning, ServesItsRequest, Removing
  <2> QED
    BY <1>1, <1>3, <2>1, RemovalTree
<1> QED
  BY <1>2, <1>3 DEF RemoveFile

LEMMA RmdirTree ==
    ASSUME TypeInv, TreeShape, NEW h \in Handlers, Rmdir(h)
    PROVE  TreeShape'
<1> USE DEF TypeInv, TypeOK
<1>1. Cluttered' \subseteq Cluttered
  BY QuietClutter DEF Rmdir
<1>2. cursor[h] \in Paths /\ cursor[h] # Root
  BY DEF Rmdir, PcMeaning, CursorOnItsWay, Paths
<1>3. CASE Removable(cursor[h])
  <2>1. node' = [node EXCEPT ![cursor[h]] = Absent]
    BY <1>3 DEF Rmdir
  <2> QED
    BY <1>1, <1>2, <1>3, <2>1, RemovalTree
<1>4. CASE ~Removable(cursor[h])
  <2>1. node' = node
    BY <1>4 DEF Rmdir
  <2> QED
    BY <1>1, <2>1, QuietTree
<1> QED
  BY <1>3, <1>4

LEMMA CrashTree ==
    ASSUME TypeInv, TreeShape, Crash
    PROVE  TreeShape'
<1>1. Cluttered' \subseteq Cluttered
  BY DEF Crash, Cluttered
<1> QED
  BY <1>1, QuietTree DEF Crash

\* Steps that touch neither the disk nor a temporary file.
LEMMA OtherTree ==
    ASSUME TypeInv, TreeShape, NEW h \in Handlers,
           \/ Receive(h) \/ Reply(h) \/ Stat(h) \/ Lstat(h) \/ Resolve(h) \/ Write(h)
           \/ Verify(h) \/ Read(h) \/ ReadDir(h) \/ ListDir(h)
    PROVE  TreeShape'
<1> USE DEF TypeInv, TypeOK
<1>1. UNCHANGED <<node, orphans>>
  BY DEF Receive, Reply, Stat, Lstat, Resolve, Write, Verify, Read, ReadDir, ListDir, disk
<1>2. \A k \in Handlers : temp'[k] # NoFile => temp[k] # NoFile /\ req'[k] = req[k]
  <2>1. CASE Receive(h) \/ Reply(h)
    BY <2>1 DEF Receive, Reply, PcMeaning, TempInUse
  <2>2. CASE Write(h)
    BY <2>2 DEF Write, PcMeaning, TempInUse
  <2>3. CASE UNCHANGED <<req, temp>>
    BY <2>3
  <2> QED
    BY <2>1, <2>2, <2>3 DEF Stat, Lstat, Resolve, Verify, Read, ReadDir, ListDir
<1> QED
  BY <1>1, <1>2, QuietClutter, QuietTree

LEMMA NextTree == TypeInv /\ TreeShape /\ [Next]_vars => TreeShape'
<1> SUFFICES ASSUME TypeInv, TreeShape, [Next]_vars PROVE TreeShape'
  OBVIOUS
<1>1. ASSUME NEW h \in Handlers, Receive(h) \/ Step(h) PROVE TreeShape'
  BY <1>1, MkdirTree, CreateTempTree, RenameTree, UnstageTree, RemoveFileTree, RmdirTree,
     OtherTree DEF Step, SetStep
<1>2. CASE UNCHANGED vars
  BY <1>2 DEF vars, TreeShape, IsDir, Cluttered
<1> QED
  BY <1>1, <1>2, CrashTree DEF Next

\* The disk is a tree at every instant, for every set of names: no crash, no
\* disk-full error and no interleaving of MkdirAll, renames and cleanup loops
\* leaves an entry without its directory, or removes the root.
THEOREM DiskIsTree == Spec => []TreeShape
<1>1. Init => TreeShape
  BY NodeConstants DEF Init, TreeShape, IsDir, Cluttered, Paths
<1> QED
  BY <1>1, InitTypeInv, NextTypeInv, NextTree, PTL DEF Spec

-----------------------------------------------------------------------------
\* A stored secret leaves the disk by its own delete only.

\* Without a clash no directory is a secret's file.
LEMMA FileIsNoDir ==
    ASSUME NoClash, NEW n \in Names
    PROVE  FileOf(n) \notin {Root} \cup Dirs
  BY DEF NoClash, Files

\* The only steps that can make a stored secret's file disappear.
LEMMA StoredStays ==
    ASSUME TypeInv, [Next]_vars, NEW n \in Stored, n \notin Stored', FileOf(n) \notin Dirs
    PROVE  \E h \in Handlers : RemoveFile(h) /\ req[h].name = n /\ res'[h] = "ok"
<1> USE DEF TypeInv, TypeOK
<1>1. n \in Names /\ FileOf(n) \in Paths /\ node[FileOf(n)] \notin {Absent, Directory}
  BY FileHome DEF Stored, IsFile
<1>2. node' # node /\ node'[FileOf(n)] \in {Absent, Directory}
  BY <1>1 DEF Stored, IsFile
<1>3. PICK h \in Handlers : Mkdir(h) \/ Rename(h) \/ RemoveFile(h) \/ Rmdir(h)
  BY <1>2 DEF Next, vars, Receive, Crash, Step, SetStep, Reply, Stat, Lstat, Resolve,
     CreateTemp, Write, Unstage, Verify, Read, ReadDir, ListDir, disk
<1>4. ~Mkdir(h)
  BY <1>1, <1>2 DEF Mkdir
<1>5. ~Rename(h)
  <2>1. SUFFICES ASSUME Rename(h) PROVE FALSE
    OBVIOUS
  <2>2. temp[h] \in Values
    BY <2>1 DEF Rename, PcMeaning, TempInUse, ServesItsRequest, Setting
  <2> QED
    BY <1>1, <1>2, <2>1, <2>2, NodeConstants DEF Rename
<1>6. ~Rmdir(h)
  <2>1. FileOf(n) # cursor[h]
    BY <1>1, FileHome
  <2> QED
    BY <1>1, <1>2, <2>1 DEF Rmdir
<1>7. RemoveFile(h)
  BY <1>3, <1>4, <1>5, <1>6
<1>8. node' = [node EXCEPT ![Target(h)] = Absent] /\ res' = [res EXCEPT ![h] = "ok"]
  BY <1>2, <1>7 DEF RemoveFile
<1>9. Target(h) = FileOf(n) /\ req[h].name \in Names
  BY <1>1, <1>2, <1>7, <1>8 DEF RemoveFile, PcMeaning, ServesItsRequest, Removing
<1> QED
  BY <1>1, <1>7, <1>8, <1>9, FileOfInjective DEF Target

\* ... and each is the delete of that secret.
LEMMA OnlyItsDelete ==
    ASSUME TypeInv, [Next]_vars, NEW n \in Stored, n \notin Stored', FileOf(n) \notin Dirs
    PROVE  ItsDelete(n)
<1>1. PICK h \in Handlers : RemoveFile(h) /\ req[h].name = n /\ res'[h] = "ok"
  BY StoredStays
<1>2. pc[h] = "remove" /\ req[h].op = "delete"
  BY <1>1 DEF RemoveFile, TypeInv, PcMeaning, ServesItsRequest, Removing
<1>3. req[h] \in Offered
  BY <1>2 DEF TypeInv, TypeOK, NoRequest
<1> QED
  BY <1>1, <1>2, <1>3, RequestShape DEF ItsDelete

\* Whatever clashes, fails or is restarted, a secret whose file is nobody's
\* namespace directory stays until its own delete: the cleanup loops of other
\* deletes, however late, never take it.
THEOREM OthersAreSafe == Spec => OnlyClashedAreLost
<1>1. TypeInv /\ [Next]_vars =>
        [\A n \in Stored : FileOf(n) \notin Dirs => n \in Stored' \/ ItsDelete(n)]_vars
  BY OnlyItsDelete
<1> QED
  BY <1>1, InitTypeInv, NextTypeInv, PTL DEF Spec, OnlyClashedAreLost

\* If no secret's file is another's namespace directory, an acknowledged
\* secret stays until it is overwritten or its own delete is acknowledged.
THEOREM SecretsSurvive == ASSUME NoClash PROVE Spec => OnlyItsDeleteRemoves
<1>1. TypeInv /\ [Next]_vars => [\A n \in Stored : n \in Stored' \/ ItsDelete(n)]_vars
  <2>1. \A n \in Stored : FileOf(n) \notin Dirs
    BY DEF NoClash, Files, Stored
  <2> QED
    BY <2>1, OnlyItsDelete
<1> QED
  BY <1>1, InitTypeInv, NextTypeInv, PTL DEF Spec, OnlyItsDeleteRemoves

=============================================================================
