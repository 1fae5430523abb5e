------------------------------- MODULE Store -------------------------------
(***************************************************************************)
(* One tenant's secrets directory and the HTTP handlers working on it.     *)
(*                                                                         *)
(* The store has no lock: each handler is a goroutine whose system calls   *)
(* interleave with those of every other.  One action is one system call    *)
(* of setValue, getValue, removeValue, listNames or writeFileAtomic; pc    *)
(* names the call a handler makes next.                                    *)
(***************************************************************************)
EXTENDS SecretTree

CONSTANTS
    Absent,     \* no entry at a path
    Directory,  \* a directory at a path
    Blank,      \* content of a temporary file not yet written
    NoFile,     \* a handler that has no temporary file
    Faults      \* may a write run out of space, and the process die?

ASSUME NodeConstants ==
    /\ {Absent, Directory, Blank, NoFile} \cap Values = {}
    /\ Absent # Directory
    /\ Blank \notin {Absent, Directory, NoFile}
    /\ Faults \in BOOLEAN

VARIABLES
    node,       \* [path -> Absent, Directory, or the content of a file]
    orphans,    \* directories where a dead process left a temporary file
    req,        \* [handler -> the request it serves]
    pc,         \* [handler -> the next call it makes]
    cursor,     \* [handler -> directory MkdirAll or the cleanup loop is at]
    temp,       \* [handler -> content of its temporary file, or NoFile]
    walk,       \* [handler -> directories a list has still to read]
    found,      \* [handler -> names a list has collected]
    got,        \* [handler -> bytes a get has read]
    res,        \* [handler -> outcome, once decided]
    always,     \* [handler -> names stored ever since its list began]
    ever        \* [handler -> names stored at some time since then]

disk == <<node, orphans>>
reading == <<walk, found, got>>
history == <<always, ever>>
vars == <<node, orphans, req, pc, cursor, temp, walk, found, got, res,
          always, ever>>

-----------------------------------------------------------------------------
\* The file system.

Contents == Values \cup {Blank}

IsDir(p) == node[p] = Directory

IsFile(p) == node[p] \notin {Absent, Directory}

Stored == { n \in Names : IsFile(FileOf(n)) }

\* The directories that hold a temporary file, of a live writer or a dead one.
Cluttered ==
    orphans \cup { HomeOf(req[h].name) : h \in { k \in Handlers : temp[k] # NoFile } }

\* What os.ReadDir finds in an existing directory: nothing at all.
Empty(d) ==
    /\ d \notin Cluttered
    /\ \A p \in Paths : p # Root /\ Parent(p) = d => node[p] = Absent

\* A lookup of p answers ENOTDIR, not ENOENT: the way there meets a file.
Blocked(p) == \E d \in Above(p) : IsFile(d)

\* Variant with a bug: os.RemoveAll in place of os.Remove.
RemovableAny(p) == node[p] # Absent

\* os.Remove succeeds on a file and on an empty directory.
Removable(p) == IsFile(p) \/ (IsDir(p) /\ Empty(p))

-----------------------------------------------------------------------------

Init ==
    /\ node = [p \in Paths |-> IF p = Root THEN Directory ELSE Absent]
    /\ orphans = {}
    /\ req = [h \in Handlers |-> NoRequest]
    /\ pc = [h \in Handlers |-> "idle"]
    /\ cursor = [h \in Handlers |-> Root]
    /\ temp = [h \in Handlers |-> NoFile]
    /\ walk = [h \in Handlers |-> {}]
    /\ found = [h \in Handlers |-> {}]
    /\ got = [h \in Handlers |-> NoValue]
    /\ res = [h \in Handlers |-> "none"]
    /\ always = [h \in Handlers |-> {}]
    /\ ever = [h \in Handlers |-> {}]

Goto(h, label) == pc' = [pc EXCEPT ![h] = label]

\* The outcome is decided; "label" is "reply", or the clean-up still to do.
Decide(h, outcome, label) ==
    /\ res' = [res EXCEPT ![h] = outcome]
    /\ Goto(h, label)

\* The lookup of a path that is not there.
Missing(h, p) ==
    /\ node[p] = Absent
    /\ Decide(h, IF Blocked(p) THEN "failed" ELSE "absent", "reply")

-----------------------------------------------------------------------------
\* The handlers' entry: validName, the body limit and the age v1 magic are
\* checked before anything touches the disk.

FirstCall(r) ==
    CASE r.op = "set" -> "stat"
      [] r.op \in {"get", "delete"} -> "verify"
      [] r.op = "list" -> "walk"

Receive(h) ==
    /\ pc[h] = "idle"
    /\ \E r \in Offered :
        /\ req' = [req EXCEPT ![h] = r]
        /\ pc' = [pc EXCEPT ![h] = IF Rejected(r) THEN "reply" ELSE FirstCall(r)]
        /\ res' = [res EXCEPT ![h] = IF Rejected(r) THEN "rejected" ELSE "none"]
        /\ cursor' = [cursor EXCEPT ![h] =
                        IF r.op = "set" /\ ~Rejected(r) THEN HomeOf(r.name) ELSE Root]
        /\ walk' = [walk EXCEPT ![h] = IF r.op = "list" THEN {Root} ELSE {}]
    /\ UNCHANGED <<disk, temp, found, got>>

Reply(h) ==
    /\ pc[h] = "reply"
    /\ req' = [req EXCEPT ![h] = NoRequest]
    /\ res' = [res EXCEPT ![h] = "none"]
    /\ cursor' = [cursor EXCEPT ![h] = Root]
    /\ walk' = [walk EXCEPT ![h] = {}]
    /\ found' = [found EXCEPT ![h] = {}]
    /\ got' = [got EXCEPT ![h] = NoValue]
    /\ Goto(h, "idle")
    /\ UNCHANGED <<disk, temp>>

-----------------------------------------------------------------------------
\* setValue.  os.MkdirAll climbs from the namespace directory to the nearest
\* existing one, then makes the missing ones on its way back down.

Goal(h) == HomeOf(req[h].name)
Target(h) == FileOf(req[h].name)

\* "cursor" is a directory: go on to the next one below, or to EvalSymlinks.
Descend(h) ==
    IF cursor[h] = Goal(h)
    THEN Goto(h, "resolve") /\ UNCHANGED cursor
    ELSE Goto(h, "mkdir") /\ cursor' = [cursor EXCEPT ![h] = Toward(cursor[h], Goal(h))]

\* The outcome of a call of setValue that cannot go on before its temporary
\* file exists.
GiveUp(h) == Decide(h, "failed", "reply") /\ UNCHANGED cursor

Stat(h) ==
    /\ pc[h] = "stat"
    /\ \/ IsDir(cursor[h]) /\ Descend(h) /\ UNCHANGED res
       \/ IsFile(cursor[h]) /\ GiveUp(h)
       \/ /\ node[cursor[h]] = Absent
          /\ cursor' = [cursor EXCEPT ![h] = Parent(cursor[h])]
          /\ UNCHANGED <<pc, res>>
    /\ UNCHANGED <<disk, req, temp, reading>>

Mkdir(h) ==
    /\ pc[h] = "mkdir"
    /\ \/ /\ node[cursor[h]] = Absent
          /\ IsDir(Parent(cursor[h]))
          /\ node' = [node EXCEPT ![cursor[h]] = Directory]
          /\ Descend(h)
       \/ /\ node[cursor[h]] # Absent \/ ~IsDir(Parent(cursor[h])) \/ Faults
          /\ Goto(h, "lstat")
          /\ UNCHANGED <<node, cursor>>
    /\ UNCHANGED <<orphans, req, temp, res, reading>>

\* Variant with a bug: a directory that another request removed again is made
\* once more.
LstatRetries(h) ==
    /\ pc[h] = "lstat"
    /\ \/ IsDir(cursor[h]) /\ Descend(h)
       \/ ~IsDir(cursor[h]) /\ Goto(h, "mkdir") /\ UNCHANGED cursor
    /\ UNCHANGED <<disk, req, temp, res, reading>>

\* Mkdir failed; MkdirAll forgives that if a directory is there by now.
Lstat(h) ==
    /\ pc[h] = "lstat"
    /\ \/ IsDir(cursor[h]) /\ Descend(h) /\ UNCHANGED res
       \/ ~IsDir(cursor[h]) /\ GiveUp(h)
    /\ UNCHANGED <<disk, req, temp, reading>>

\* EvalSymlinks of the namespace directory.
Resolve(h) ==
    /\ pc[h] = "resolve"
    /\ \/ node[Goal(h)] # Absent /\ Goto(h, "create") /\ UNCHANGED <<res, cursor>>
       \/ node[Goal(h)] = Absent /\ GiveUp(h)
    /\ UNCHANGED <<disk, req, temp, reading>>

\* writeFileAtomic: os.CreateTemp in the namespace directory.
CreateTemp(h) ==
    /\ pc[h] = "create"
    /\ \/ /\ IsDir(Goal(h))
          /\ temp' = [temp EXCEPT ![h] = Blank]
          /\ Goto(h, "write")
          /\ UNCHANGED <<res, cursor>>
       \/ /\ ~IsDir(Goal(h)) \/ Faults
          /\ UNCHANGED temp
          /\ GiveUp(h)
    /\ UNCHANGED <<disk, req, reading>>

\* Variant with a bug: the rename happens without the write.
WriteSkipped(h) ==
    /\ pc[h] = "write"
    /\ Goto(h, "rename")
    /\ UNCHANGED <<disk, req, cursor, temp, res, reading>>

\* Chmod, Write and Close of the temporary file.
Write(h) ==
    /\ pc[h] = "write"
    /\ \/ /\ temp' = [temp EXCEPT ![h] = req[h].value]
          /\ Goto(h, "rename")
          /\ UNCHANGED res
       \/ /\ Faults
          /\ UNCHANGED temp
          /\ Decide(h, "failed", "unstage")
    /\ UNCHANGED <<disk, req, cursor, reading>>

\* A rename does not replace a directory by a file.
Rename(h) ==
    /\ pc[h] = "rename"
    /\ \/ /\ ~IsDir(Target(h))
          /\ node' = [node EXCEPT ![Target(h)] = temp[h]]
          /\ temp' = [temp EXCEPT ![h] = NoFile]
          /\ Decide(h, "ok", "reply")
       \/ /\ IsDir(Target(h)) \/ Faults
          /\ UNCHANGED <<node, temp>>
          /\ Decide(h, "failed", "unstage")
    /\ UNCHANGED <<orphans, req, cursor, reading>>

\* Variant with a bug: the deferred removal names the final path.
UnstageTarget(h) ==
    /\ pc[h] = "unstage"
    /\ temp' = [temp EXCEPT ![h] = NoFile]
    /\ node' = [node EXCEPT ![Target(h)] = Absent]
    /\ Goto(h, "reply")
    /\ UNCHANGED <<orphans, req, cursor, res, reading>>

\* The deferred removal of the temporary file.
Unstage(h) ==
    /\ pc[h] = "unstage"
    /\ temp' = [temp EXCEPT ![h] = NoFile]
    /\ Goto(h, "reply")
    /\ UNCHANGED <<disk, req, cursor, res, reading>>

SetStep(h) ==
    \/ Stat(h) \/ Mkdir(h) \/ Lstat(h) \/ Resolve(h)
    \/ CreateTemp(h) \/ Write(h) \/ Rename(h) \/ Unstage(h)

-----------------------------------------------------------------------------
\* getValue and removeValue.

\* verifyExistingWithinRoot of the secret's file.
Verify(h) ==
    /\ pc[h] = "verify"
    /\ \/ /\ node[Target(h)] # Absent
          /\ Goto(h, IF req[h].op = "get" THEN "read" ELSE "remove")
          /\ UNCHANGED res
       \/ Missing(h, Target(h))
    /\ UNCHANGED <<disk, req, cursor, temp, reading>>

\* os.ReadFile: what the open finds is what is read, a file is never rewritten.
Read(h) ==
    /\ pc[h] = "read"
    /\ \/ /\ IsFile(Target(h))
          /\ got' = [got EXCEPT ![h] = node[Target(h)]]
          /\ Decide(h, "ok", "reply")
       \/ IsDir(Target(h)) /\ Decide(h, "failed", "reply") /\ UNCHANGED got
       \/ Missing(h, Target(h)) /\ UNCHANGED got
    /\ UNCHANGED <<disk, req, cursor, temp, walk, found>>

\* Variant with a bug: the loop's root comparison is defeated.
ClimbPastRoot(h, dir) ==
    /\ cursor' = [cursor EXCEPT ![h] = dir]
    /\ Goto(h, "readdir")

\* The cleanup loop's condition: is "dir" below the store's root?
Climb(h, dir) ==
    /\ cursor' = [cursor EXCEPT ![h] = dir]
    /\ Goto(h, IF dir = Root THEN "reply" ELSE "readdir")

\* os.Remove of the secret's file.
RemoveFile(h) ==
    /\ pc[h] = "remove"
    /\ \/ /\ Removable(Target(h))
          /\ node' = [node EXCEPT ![Target(h)] = Absent]
          /\ res' = [res EXCEPT ![h] = "ok"]
          /\ Climb(h, Goal(h))
       \/ /\ IsDir(Target(h)) /\ ~Removable(Target(h))
          /\ Decide(h, "failed", "reply")
          /\ UNCHANGED <<node, cursor>>
       \/ Missing(h, Target(h)) /\ UNCHANGED <<node, cursor>>
    /\ UNCHANGED <<orphans, req, temp, reading>>

\* os.ReadDir of the directory just left; its error is ignored, so whatever
\* is not a directory any more counts as an empty one.
ReadDir(h) ==
    /\ pc[h] = "readdir"
    /\ Goto(h, IF IsDir(cursor[h]) /\ ~Empty(cursor[h]) THEN "reply" ELSE "rmdir")
    /\ UNCHANGED <<disk, req, cursor, temp, res, reading>>

\* Variants with a bug: only one level is cleaned up; the directory goes with
\* everything below it; the loop does not move on.
RmdirOneLevel(h) ==
    /\ pc[h] = "rmdir"
    /\ node' = [node EXCEPT ![cursor[h]] = IF Removable(cursor[h]) THEN Absent ELSE @]
    /\ Goto(h, "reply")
    /\ UNCHANGED <<orphans, req, cursor, temp, res, reading>>

RmdirAll(h) ==
    /\ pc[h] = "rmdir"
    /\ node' = [p \in Paths |->
                    IF p = cursor[h] \/ cursor[h] \in Above(p) THEN Absent ELSE node[p]]
    /\ Climb(h, Parent(cursor[h]))
    /\ UNCHANGED <<orphans, req, temp, res, reading>>

RmdirStays(h) ==
    /\ pc[h] = "rmdir"
    /\ node' = [node EXCEPT ![cursor[h]] = IF Removable(cursor[h]) THEN Absent ELSE @]
    /\ Climb(h, cursor[h])
    /\ UNCHANGED <<orphans, req, temp, res, reading>>

\* os.Remove of that directory; its error is ignored too.
Rmdir(h) ==
    /\ pc[h] = "rmdir"
    /\ node' = [node EXCEPT ![cursor[h]] = IF Removable(cursor[h]) THEN Absent ELSE @]
    /\ Climb(h, Parent(cursor[h]))
    /\ UNCHANGED <<orphans, req, temp, res, reading>>

-----------------------------------------------------------------------------
\* listNames: filepath.WalkDir reads one directory at a time.

\* Variant with a bug: the walk enters the top-level namespaces only.
ListDirTopOnly(h) ==
    /\ pc[h] = "walk"
    /\ \E d \in walk[h] :
        \/ /\ IsDir(d)
           /\ found' = [found EXCEPT ![h] = @ \cup { n \in Stored : HomeOf(n) = d }]
           /\ walk' = [walk EXCEPT ![h] = (@ \ {d}) \cup
                        { c \in Dirs \ {Root} : Parent(c) = d /\ d = Root /\ IsDir(c) }]
           /\ IF walk'[h] = {} THEN Decide(h, "ok", "reply") ELSE UNCHANGED <<pc, res>>
        \/ /\ ~IsDir(d)
           /\ Decide(h, "failed", "reply")
           /\ UNCHANGED <<walk, found>>
    /\ UNCHANGED <<disk, req, cursor, temp, got>>

ListDir(h) ==
    /\ pc[h] = "walk"
    /\ \E d \in walk[h] :
        \/ /\ IsDir(d)
           /\ found' = [found EXCEPT ![h] = @ \cup { n \in Stored : HomeOf(n) = d }]
           /\ walk' = [walk EXCEPT ![h] = (@ \ {d}) \cup
                        { c \in Dirs \ {Root} : Parent(c) = d /\ IsDir(c) }]
           /\ IF walk'[h] = {} THEN Decide(h, "ok", "reply") ELSE UNCHANGED <<pc, res>>
        \/ /\ ~IsDir(d)
           /\ Decide(h, "failed", "reply")
           /\ UNCHANGED <<walk, found>>
    /\ UNCHANGED <<disk, req, cursor, temp, got>>

-----------------------------------------------------------------------------

\* The server process dies and is started again: every handler is gone, the
\* deferred removals never ran.
Crash ==
    /\ Faults
    /\ orphans' = Cluttered
    /\ req' = [h \in Handlers |-> NoRequest]
    /\ pc' = [h \in Handlers |-> "idle"]
    /\ cursor' = [h \in Handlers |-> Root]
    /\ temp' = [h \in Handlers |-> NoFile]
    /\ walk' = [h \in Handlers |-> {}]
    /\ found' = [h \in Handlers |-> {}]
    /\ got' = [h \in Handlers |-> NoValue]
    /\ res' = [h \in Handlers |-> "none"]
    /\ UNCHANGED node

\* History, for the promise of a list: the names stored while it walks.
Watch ==
    /\ always' = [h \in Handlers |->
                    IF pc'[h] # "walk" THEN {}
                    ELSE IF pc[h] = "walk" THEN always[h] \cap Stored' ELSE Stored']
    /\ ever' = [h \in Handlers |->
                    IF pc'[h] # "walk" THEN {}
                    ELSE IF pc[h] = "walk" THEN ever[h] \cup Stored' ELSE Stored']

Step(h) ==
    \/ SetStep(h)
    \/ Verify(h) \/ Read(h)
    \/ RemoveFile(h) \/ ReadDir(h) \/ Rmdir(h)
    \/ ListDir(h)
    \/ Reply(h)

Next ==
    /\ \/ \E h \in Handlers : Receive(h) \/ Step(h)
       \/ Crash
    /\ Watch

\* The Go scheduler runs every goroutine: a handler with a call to make
\* makes it.  Nothing obliges a client to send a request.
Fairness == \A h \in Handlers : WF_vars(Step(h) /\ Watch)

Spec == Init /\ [][Next]_vars

FairSpec == Spec /\ Fairness

-----------------------------------------------------------------------------
\* Properties.

Labels == {"idle", "stat", "mkdir", "lstat", "resolve", "create", "write",
           "rename", "unstage", "verify", "read", "remove", "readdir",
           "rmdir", "walk", "reply"}

\* Every variable keeps its shape.
TypeOK ==
    /\ node \in [Paths -> Contents \cup {Absent, Directory}]
    /\ orphans \subseteq Paths
    /\ req \in [Handlers -> Offered \cup {NoRequest}]
    /\ pc \in [Handlers -> Labels]
    /\ cursor \in [Handlers -> {Root} \cup Dirs]
    /\ temp \in [Handlers -> Contents \cup {NoFile}]
    /\ walk \in [Handlers -> SUBSET ({Root} \cup Dirs)]
    /\ found \in [Handlers -> SUBSET Names]
    /\ got \in [Handlers -> Contents \cup {NoValue}]
    /\ res \in [Handlers -> Outcomes]
    /\ always \in [Handlers -> SUBSET Names]
    /\ ever \in [Handlers -> SUBSET Names]

\* The disk is a tree at every instant: whatever exists, a temporary file
\* included, lies in a directory that exists, however MkdirAll, the cleanup
\* loops and the renames interleave.  In particular the root is never removed.
TreeShape ==
    /\ IsDir(Root)
    /\ \A p \in Paths \ {Root} : node[p] # Absent => IsDir(Parent(p))
    /\ \A d \in Cluttered : IsDir(d)

\* This step is the delete of the secret n.
ItsDelete(n) ==
    \E h \in Handlers :
        /\ req[h] = [op |-> "delete", name |-> n, value |-> NoValue]
        /\ pc[h] = "remove"
        /\ res'[h] = "ok"

\* A stored secret leaves the disk only by a delete of that very name: no
\* other handler's cleanup loop, failed write, rename or restart takes it.
OnlyItsDeleteRemoves == [][\A n \in Stored : n \in Stored' \/ ItsDelete(n)]_vars

\* Where the file of one name is the namespace of another, that one may be
\* lost to a cleanup loop; no other secret is, the ones below it included.
OnlyClashedAreLost ==
    [][\A n \in Stored : FileOf(n) \notin Dirs => n \in Stored' \/ ItsDelete(n)]_vars

\* Handlers that still have to deal with an empty namespace directory "d":
\* a set on its way through it, or a cleanup loop that has yet to look at it.
Attends(h, d) ==
    \/ /\ req[h].op = "set"
       /\ pc[h] \in {"stat", "mkdir", "lstat", "resolve", "create"}
       /\ d = Goal(h) \/ d \in Above(Goal(h))
    \/ /\ pc[h] \in {"readdir", "rmdir"}
       /\ d = cursor[h] \/ d \in Above(cursor[h])

\* As long as no write fails and the process lives, an empty namespace
\* directory is somebody's business: whichever delete emptied it, or removed
\* what stood below it, still has its cleanup ahead.
EmptyIsAttended ==
    \A d \in Dirs \ {Root} :
        IsDir(d) /\ Empty(d) => \E h \in Handlers : Attends(h, d)

\* ... so that none is left once every request is answered.
NoEmptyNamespaceAtRest ==
    (\A h \in Handlers : pc[h] = "idle") =>
        \A d \in Dirs \ {Root} : IsDir(d) => ~Empty(d)

\* The directories a list may still have to read: those it has met, and all
\* that are or could come to be below them.
AheadOf(h) == { d \in {Root} \cup Dirs : \E w \in walk[h] : w = d \/ w \in Above(d) }

\* The number of calls after which the request of h is answered at the latest:
\* MkdirAll may climb to the root, try every directory on its way back in
\* vain and look again; the cleanup makes two calls for each level.
CallsLeft(h) ==
    LET up == Len(cursor[h])
        way == Len(Goal(h))
    IN  CASE pc[h] = "idle" -> 0
          [] pc[h] = "reply" -> 1
          [] pc[h] \in {"unstage", "read"} -> 2
          [] pc[h] = "rename" -> 3
          [] pc[h] = "write" -> 4
          [] pc[h] = "create" -> 5
          [] pc[h] = "resolve" -> 6
          [] pc[h] = "lstat" -> 7 + 2 * (way - up)
          [] pc[h] = "mkdir" -> 8 + 2 * (way - up)
          [] pc[h] = "stat" -> 7 + 2 * way + up
          [] pc[h] = "rmdir" -> 2 * up
          [] pc[h] = "readdir" -> 1 + 2 * up
          [] pc[h] = "remove" -> 2 + 2 * way
          [] pc[h] = "verify" -> 3 + 2 * way
          [] pc[h] = "walk" -> 1 + Cardinality(AheadOf(h))

\* Every call brings its request nearer to the answer, and nothing that other
\* requests do sets it back: no request ever waits for, or is starved by,
\* another one, however the tree changes under MkdirAll, cleanup and walk.
WaitFree ==
    [][\A h \in Handlers : pc[h] # "idle" =>
          /\ CallsLeft(h)' <= CallsLeft(h)
          /\ Step(h) => CallsLeft(h)' < CallsLeft(h)]_vars

\* Every request is answered: neither MkdirAll's climb, nor the cleanup loop,
\* nor the walk of a tree that changes under it, goes on forever.
EveryRequestAnswered ==
    \A h \in Handlers : pc[h] # "idle" ~> pc[h] = "idle"

\* The store is the map of names to ciphertexts that AbstractStore promises.
Promise == INSTANCE AbstractStore WITH
    kv <- [n \in Names |-> IF n \in Stored THEN node[FileOf(n)] ELSE NoValue],
    stage <- [h \in Handlers |->
                CASE pc[h] = "idle" -> "idle"
                  [] pc[h] \in {"readdir", "rmdir", "unstage", "reply"} -> "done"
                  [] OTHER -> "pending"],
    found <- [h \in Handlers |-> IF pc[h] = "reply" /\ res[h] = "ok" THEN found[h] ELSE {}]

\* Sets, gets and deletes are linearizable and a list is a faithful snapshot
\* of the walk it took, whatever the handlers' system calls interleave to.
KeepsPromise == Promise!Spec

=============================================================================
