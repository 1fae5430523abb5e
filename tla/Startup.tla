------------------------------ MODULE Startup ------------------------------
(***************************************************************************)
(* How aged serve starts: it reads the configuration, looks at every entry *)
(* of the base directory, makes the users' directories, and binds its      *)
(* address.  Nothing is locked meanwhile.  A run of rotate-identity, dry   *)
(* or not, holds the same address for a moment and puts siblings beside    *)
(* the users' directories; the operator edits both the configuration and   *)
(* the directory; systemd starts the server again when it fails.           *)
(***************************************************************************)
EXTENDS Users

CONSTANTS
    Entries,        \* names that occur in the base directory
    Place,          \* [entry -> where os.ReadDir sorts it]
    Root,           \* [user name -> the entry that the file system finds for it]
    Siblings,       \* names of staging directories and backups
    Configs,        \* what the operator may write: the users, the environment
    MaxSurprises    \* bound: what the operator, other processes and faults do

\* File names are equal or, on some file systems, equal but for case.  No user
\* is named like a backup or a staging directory.
ASSUME StartupConstants ==
    /\ Entries # {}
    /\ Place \in [Entries -> Nat]
    /\ \A e, f \in Entries : Place[e] = Place[f] => e = f
    /\ Siblings \subseteq Entries
    /\ Root \in [UserNames -> Entries \ Siblings]
    /\ \A m, n \in UserNames : Root[m] = Root[n] => Lower[m] = Lower[n]
    /\ Configs \subseteq [users : Seq(User),
                          env : [name : UserNames \cup {Unset}, token : Tokens \cup {Unset}]]
    /\ MaxSurprises \in Nat

VARIABLES
    base,       \* [entry -> what it is]
    config,     \* the configuration file's users and the environment
    wanted,     \* is the service enabled?
    pc,         \* the server's next step, or how it ended
    tenants,    \* the users it has read
    pending,    \* entries still to be looked at
    offenders,  \* entries that will make it refuse
    next,       \* the user whose directory is made next
    rotation,   \* the run of rotate-identity
    surprises,  \* how often anyone but the server has acted of their own
    made,       \* history: directories that this start made
    disturbed,  \* history: has anyone else changed the base since ReadDir?
    stuck       \* history: entries that were no directories at ReadDir, nor since

vars == <<base, config, wanted, pc, tenants, pending, offenders, next, rotation, surprises,
          made, disturbed, stuck>>
server == <<pc, tenants, pending, offenders, next, made>>
history == <<disturbed, stuck>>

Kinds == {"absent", "file", "dangling", "empty", "full"}

Directories == {"empty", "full"}

\* What os.Stat does not find to be a directory.
Loose(kind) == kind \in {"file", "dangling"}

AnyEntry == CHOOSE e \in Entries : TRUE

NoRotation == [pc |-> "idle", mode |-> "real", root |-> AnyEntry, staging |-> AnyEntry]

Init ==
    /\ base = [e \in Entries |-> "absent"]
    /\ config \in Configs
    /\ wanted = FALSE
    /\ pc = "down"
    /\ tenants = << >> /\ pending = {} /\ offenders = {} /\ next = 1
    /\ rotation = NoRotation
    /\ surprises = 0
    /\ made = {} /\ disturbed = FALSE /\ stuck = {}

-----------------------------------------------------------------------------

\* One entry changes.
Becomes(e, kind) ==
    /\ base' = [base EXCEPT ![e] = kind]
    /\ stuck' = IF Loose(kind) THEN stuck ELSE stuck \ {e}

Surprise == surprises < MaxSurprises /\ surprises' = surprises + 1

-----------------------------------------------------------------------------
\* serve.

\* Variant with a bug: half an environment pair is a user, too.
AnyPair(c) == Append(c.users, c.env)

ServerUsers(c) == Merged(c.users, c.env)

Reset == pending' = {} /\ offenders' = {} /\ next' = 1 /\ made' = {}

\* Variant with a bug: the directories are made with the tenants.
StartWithStores ==
    LET roots == { Root[ServerUsers(config)[i].name] : i \in DOMAIN ServerUsers(config) }
    IN  /\ wanted /\ pc \in {"down", "refused", "failed"}
        /\ tenants' = ServerUsers(config)
        /\ pending' = {} /\ offenders' = {} /\ next' = 1
        /\ IF checkServeConfig(config.users, config.env)
           THEN /\ pc' = "readdir"
                /\ made' = { e \in roots : base[e] = "absent" }
                /\ base' = [e \in Entries |-> IF e \in made' THEN "empty" ELSE base[e]]
           ELSE pc' = "refused" /\ made' = {} /\ UNCHANGED base
        /\ disturbed' = FALSE /\ stuck' = {}
        /\ UNCHANGED <<config, wanted, rotation, surprises>>

\* loadConfig and resolveUsers; systemd starts what is enabled and not running.
Start ==
    /\ wanted /\ pc \in {"down", "refused", "failed"}
    /\ tenants' = ServerUsers(config)
    /\ pc' = IF checkServeConfig(config.users, config.env) THEN "readdir" ELSE "refused"
    /\ Reset
    /\ disturbed' = FALSE /\ stuck' = {}
    /\ UNCHANGED <<base, config, wanted, rotation, surprises>>

\* An absent base directory has no entries.
ReadDir ==
    /\ pc = "readdir"
    /\ pending' = { e \in Entries : base[e] # "absent" }
    /\ pc' = "stat"
    /\ disturbed' = FALSE
    /\ stuck' = { e \in Entries : Loose(base[e]) }
    /\ UNCHANGED <<base, config, wanted, tenants, offenders, next, rotation, surprises, made>>

\* Variant with a bug: Stat's error is no offence.
OffendsIfFound(e) == base[e] = "file"

\* Variant with a bug: nor is a directory tolerated that no user has.
OffendsIfUnknown(e) ==
    \/ base[e] \notin Directories
    \/ \A i \in DOMAIN tenants : Root[tenants[i].name] # e

Offends(e) == base[e] \notin Directories

StatEntry ==
    /\ pc = "stat"
    /\ \E e \in pending :
        /\ \A f \in pending : Place[e] <= Place[f]
        /\ offenders' = IF Offends(e) THEN offenders \cup {e} ELSE offenders
        /\ pending' = pending \ {e}
    /\ UNCHANGED <<base, config, wanted, pc, tenants, next, rotation, surprises, made, history>>

Verdict ==
    /\ pc = "stat" /\ pending = {}
    /\ pc' = IF offenders = {} THEN "create" ELSE "refused"
    /\ UNCHANGED <<base, config, wanted, tenants, pending, offenders, next, rotation,
                   surprises, made, history>>

\* newStore: os.MkdirAll, which fails where something else is, and sometimes
\* for another reason.
CreateStore ==
    /\ pc = "create" /\ next \in DOMAIN tenants
    /\ LET e == Root[tenants[next].name]
       IN  \/ /\ base[e] = "absent"
              /\ Becomes(e, "empty")
              /\ made' = made \cup {e}
              /\ next' = next + 1
              /\ UNCHANGED <<pc, surprises, disturbed>>
           \/ /\ base[e] \in Directories
              /\ next' = next + 1
              /\ UNCHANGED <<base, pc, made, surprises, history>>
           \/ /\ Loose(base[e])
              /\ pc' = "refused"
              /\ UNCHANGED <<base, next, made, surprises, history>>
           \/ /\ Surprise
              /\ pc' = "refused"
              /\ disturbed' = TRUE
              /\ UNCHANGED <<base, next, made, stuck>>
    /\ UNCHANGED <<config, wanted, tenants, pending, offenders, rotation>>

PortTaken == rotation.pc = "bound"

Listen ==
    /\ pc = "create" /\ next \notin DOMAIN tenants
    /\ pc' = IF PortTaken THEN "failed" ELSE "listening"
    /\ UNCHANGED <<base, config, wanted, tenants, pending, offenders, next, rotation,
                   surprises, made, history>>

\* A user's first secret is stored, or the last one deleted.
Handle ==
    /\ pc = "listening"
    /\ \E i \in DOMAIN tenants :
        LET e == Root[tenants[i].name]
        IN  \/ base[e] \in {"absent", "empty"} /\ Becomes(e, "full")
            \/ base[e] = "full" /\ Becomes(e, "empty")
    /\ disturbed' = TRUE
    /\ UNCHANGED <<config, wanted, server, rotation, surprises>>

-----------------------------------------------------------------------------
\* rotate-identity, as far as the base directory and the address see it.

RotationTo(step) == rotation' = [rotation EXCEPT !.pc = step]

\* loadConfig, and what resolveUsers and selectRotateIdentityTarget make of it
\* (the problems ignored); a name that names no entry of the base is left out.
Targets ==
    LET users == ServerUsers(config)
    IN  { Root[users[i].name] :
            i \in { i \in DOMAIN users :
                    /\ ~HalfPair(config.env)
                    /\ users[i].name \notin BadNames
                    /\ \E user \in UserNames \cup {Unset} :
                          i \in selectRotateTarget(users, user) } }

Begins(mode, step) ==
    /\ rotation.pc = "idle"
    /\ \/ \E e \in Targets :
            rotation' = [rotation EXCEPT !.pc = step, !.mode = mode, !.root = e]
       \/ rotation' = [rotation EXCEPT !.pc = step, !.mode = "aimless"]

\* refuseIfServerRunning binds the address and lets go of it.
Bind ==
    /\ pc # "listening"
    /\ Surprise
    /\ Begins("real", "bound")
    /\ UNCHANGED <<base, config, wanted, server, history>>

DryRun ==
    /\ Surprise
    /\ Begins("dry", "open")
    /\ UNCHANGED <<base, config, wanted, server, history>>

Unbind ==
    /\ rotation.pc = "bound"
    /\ RotationTo("open")
    /\ UNCHANGED <<base, config, wanted, server, surprises, history>>

\* The identities, and newStore; a run without a target ends before.
Open ==
    /\ rotation.pc = "open"
    /\ LET e == rotation.root
       IN  \/ /\ rotation.mode # "aimless" /\ ~Loose(base[e])
              /\ IF base[e] = "absent" THEN Becomes(e, "empty") ELSE UNCHANGED <<base, stuck>>
              /\ disturbed' = (disturbed \/ base[e] = "absent")
              /\ IF rotation.mode = "dry" THEN rotation' = NoRotation ELSE RotationTo("stage")
           \/ rotation' = NoRotation /\ UNCHANGED <<base, history>>
    /\ UNCHANGED <<config, wanted, server, surprises>>

\* Stat of the backup's name comes first; MkdirTemp finds a name not in use.
Stage ==
    /\ rotation.pc = "stage"
    /\ \/ \E e \in Siblings :
            /\ base[e] = "absent"
            /\ Becomes(e, "empty")
            /\ disturbed' = TRUE
            /\ rotation' = [rotation EXCEPT !.pc = "migrate", !.staging = e]
       \/ rotation' = NoRotation /\ UNCHANGED <<base, history>>
    /\ UNCHANGED <<config, wanted, server, surprises>>

\* Every secret is staged, or one cannot be.
Migrate ==
    /\ rotation.pc = "migrate"
    /\ \/ /\ base[rotation.root] = "full" /\ base[rotation.staging] \in Directories
          /\ Becomes(rotation.staging, "full")
          /\ disturbed' = TRUE
       \/ UNCHANGED <<base, history>>
    /\ \E step \in {"backup", "cleanup"} : RotationTo(step)
    /\ UNCHANGED <<config, wanted, server, surprises>>

\* os.Rename of a directory: onto nothing, or onto an empty directory.
Renames(from, to) ==
    /\ base[from] \in Directories /\ base[to] \in {"absent", "empty"}
    /\ base' = [base EXCEPT ![to] = base[from], ![from] = "absent"]
    /\ stuck' = stuck \ {from, to}
    /\ disturbed' = TRUE

ToBackup ==
    /\ rotation.pc = "backup"
    /\ \/ /\ \E e \in Siblings \ {rotation.staging} :
                base[e] = "absent" /\ Renames(rotation.root, e)
          /\ RotationTo("swap")
       \/ RotationTo("cleanup") /\ UNCHANGED <<base, history>>
    /\ UNCHANGED <<config, wanted, server, surprises>>

Swap ==
    /\ rotation.pc = "swap"
    /\ \/ Renames(rotation.staging, rotation.root)
       \/ UNCHANGED <<base, history>>
    /\ RotationTo("cleanup")
    /\ UNCHANGED <<config, wanted, server, surprises>>

\* The deferred os.RemoveAll.
Cleanup ==
    /\ rotation.pc = "cleanup"
    /\ Becomes(rotation.staging, "absent")
    /\ disturbed' = (disturbed \/ base[rotation.staging] # "absent")
    /\ rotation' = NoRotation
    /\ UNCHANGED <<config, wanted, server, surprises>>

Rotation == Unbind \/ Open \/ Stage \/ Migrate \/ ToBackup \/ Swap \/ Cleanup

-----------------------------------------------------------------------------
\* Everyone else.

Kill ==
    /\ rotation.pc # "idle"
    /\ Surprise
    /\ rotation' = NoRotation
    /\ UNCHANGED <<base, config, wanted, server, history>>

Die ==
    /\ pc \notin {"down", "refused", "failed"}
    /\ Surprise
    /\ pc' = "down"
    /\ UNCHANGED <<base, config, wanted, tenants, pending, offenders, next, made, rotation,
                   history>>

\* systemctl start, and stop.
Switch ==
    /\ Surprise
    /\ wanted' = ~wanted
    /\ pc' = IF wanted THEN "down" ELSE pc
    /\ UNCHANGED <<base, config, tenants, pending, offenders, next, made, rotation, history>>

Edit ==
    /\ Surprise
    /\ \E e \in Entries, kind \in Kinds : base[e] # kind /\ Becomes(e, kind)
    /\ disturbed' = TRUE
    /\ UNCHANGED <<config, wanted, server, rotation>>

Configure ==
    /\ Surprise
    /\ config' \in Configs
    /\ UNCHANGED <<base, wanted, server, rotation, history>>

-----------------------------------------------------------------------------

Server == Start \/ ReadDir \/ StatEntry \/ Verdict \/ CreateStore \/ Listen

Next ==
    \/ Server \/ Handle
    \/ Bind \/ DryRun \/ Rotation
    \/ Kill \/ Die \/ Switch \/ Edit \/ Configure

Spec == Init /\ [][Next]_vars

\* systemd restarts what fails, processes run on, system calls return.
FairSpec == Spec /\ WF_vars(Server) /\ WF_vars(Rotation)

-----------------------------------------------------------------------------
\* The shape of the state.
TypeOK ==
    /\ base \in [Entries -> Kinds]
    /\ config \in Configs
    /\ wanted \in BOOLEAN
    /\ pc \in {"down", "readdir", "stat", "create", "listening", "refused", "failed"}
    /\ tenants \in Seq(User)
    /\ pending \subseteq Entries
    /\ offenders \subseteq Entries
    /\ next \in Nat \ {0}
    /\ rotation \in [pc : {"idle", "bound", "open", "stage", "migrate", "backup", "swap",
                           "cleanup"},
                     mode : {"real", "dry", "aimless"}, root : Entries, staging : Entries]
    /\ surprises \in 0 .. MaxSurprises
    /\ made \subseteq Entries
    /\ disturbed \in BOOLEAN
    /\ stuck \subseteq Entries

\* A secret from before there were users, or whatever else is no directory,
\* stops every start that it outlasts, whatever comes and goes beside it
\* (scan.go:19-26, 58-87).
LooseBlocks == pc \in {"create", "listening"} => stuck = {}

\* A start that refuses has made no directory, unless someone else changed
\* the base after the scan had read it, or a system call failed: newStore
\* never meets what the scan let pass (server.go:268-274, 291-302).
RefusedLeavesNoTrace == pc = "refused" /\ ~disturbed => made = {}

\* No two users of a server that makes stores or serves share a directory,
\* not even where the file system ignores case, and not if one of them comes
\* from the environment (users.go:110-136, server.go:297).
TenantsApart ==
    pc \in {"create", "listening"} =>
        \A i, j \in DOMAIN tenants : Root[tenants[i].name] = Root[tenants[j].name] => i = j

Stopped == {"down", "refused", "failed"}

\* The steps of a start that are still to come.
StepsLeft ==
    CASE pc = "listening" -> 0
      [] pc = "create" -> Len(tenants) + 2 - next
      [] pc = "stat" -> Len(tenants) + 2 + Cardinality(pending)
      [] pc = "readdir" -> Len(tenants) + 3 + Cardinality(Entries)
      [] pc \in Stopped -> Len(ServerUsers(config)) + 4 + Cardinality(Entries)

\* A start gets on with every step, and ends by serving: what makes it refuse
\* or fail is an invalid configuration when it began, something that is no
\* directory, someone who changes the base after ReadDir (or a system call
\* that fails), or a rotation at the address.  A directory that nobody has
\* heard of and leftovers of any earlier process never do (scan.go:28-36).
NothingElseStops ==
    [][Server =>
          \/ StepsLeft' < StepsLeft /\ pc' \notin Stopped
          \/ pc \in Stopped /\ ~checkServeConfig(config.users, config.env)
          \/ pc \in {"stat", "create"} /\ (disturbed' \/ \E e \in Entries : Loose(base[e]))
          \/ pc = "create" /\ PortTaken]_vars

Ready ==
    /\ wanted
    /\ checkServeConfig(config.users, config.env)
    /\ \A e \in Entries : ~Loose(base[e])

\* Once the configuration is valid and only directories are there, the server
\* comes up and stays: neither orphans, backups and staging directories nor
\* what vanished during an earlier scan keep it down (scan.go:28-36).
ComesUp == <>[]Ready => <>[](pc = "listening")

=============================================================================
