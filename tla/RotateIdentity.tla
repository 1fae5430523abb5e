--------------------------- MODULE RotateIdentity ---------------------------
(***************************************************************************)
(* aged rotate-identity on one user's secrets directory, with the server   *)
(* and the operator around it.                                             *)
(*                                                                         *)
(* A run re-encrypts every secret into a staging directory, verifies each, *)
(* and then swaps directories with two renames.  It takes no lock: it only *)
(* refuses to start while the server's address is bound.  "Careful" says   *)
(* whether the operator keeps to the documented order (stop the server,    *)
(* one run at a time, repair a half-done swap before anything else).       *)
(***************************************************************************)
EXTENDS Ciphertexts, Naturals

CONSTANTS
    NoDir,      \* no directory at a path
    NoName,     \* no secret is being verified
    NoKey,      \* no target identity yet
    NoValue,    \* no value is acknowledged under a name
    Runs,       \* invocations of the command; each runs once
    MaxClock,   \* bound: seconds that pass, the resolution of a backup's name
    Faults,     \* may a system call fail, a staged file rot, a run be killed?
    Careful     \* does the operator keep to the documented order?

ASSUME RotationConstants ==
    /\ NoDir \notin Contents
    /\ NoName \notin Names
    /\ NoValue \notin Values
    /\ MaxClock \in Nat
    /\ Faults \in BOOLEAN /\ Careful \in BOOLEAN

VARIABLES
    live,       \* secrets_dir/<user>: contents or NoDir
    backups,    \* [second -> contents of <user>.old-<second> or NoDir]
    staging,    \* [run -> contents of its <user>.rotating-* or NoDir]
    identity,   \* the keys in the configured identity file
    server,     \* "down", "starting" (newStore done, not yet bound) or "up"
    clock,      \* seconds
    pc,         \* [run -> its next step]
    job,        \* [run -> the identities it loaded, its target, dry or not]
    todo,       \* [run -> the names it listed and has not migrated yet]
    checking,   \* [run -> the secret staged and not yet verified, or NoName]
    stamp,      \* [run -> the second its backup is named after]
    outcome,    \* [run -> how it ended]
    acked       \* history: [name -> the value last acknowledged, or NoValue]

world == <<identity, server, clock, acked>>
plan == <<job, todo, checking, stamp>>
vars == <<live, backups, staging, identity, server, clock, pc, job, todo,
          checking, stamp, outcome, acked>>

Seconds == 0 .. MaxClock

NoJob == [old |-> {}, new |-> NoKey, dry |-> FALSE]

AckedIn(dir) ==
    [n \in Names |-> IF dir[n] \in Ciphertexts THEN dir[n].value ELSE NoValue]

Init ==
    /\ live \in [Names -> Ciphertexts \cup {NoFile}]
    /\ backups = [s \in Seconds |-> NoDir]
    /\ staging = [r \in Runs |-> NoDir]
    /\ identity \in SUBSET Keys \ {{}}
    /\ server = "down"
    /\ clock = 0
    /\ pc = [r \in Runs |-> "idle"]
    /\ job = [r \in Runs |-> NoJob]
    /\ todo = [r \in Runs |-> {}]
    /\ checking = [r \in Runs |-> NoName]
    /\ stamp = [r \in Runs |-> 0]
    /\ outcome = [r \in Runs |-> "none"]
    /\ acked = AckedIn(live)

-----------------------------------------------------------------------------
\* rotateIdentity up to the choice between a dry and a real run.

Goto(r, label) == pc' = [pc EXCEPT ![r] = label]

\* "done" returns; "cleanup" first runs the deferred RemoveAll of the staging.
End(r, how, label) ==
    /\ outcome' = [outcome EXCEPT ![r] = how]
    /\ Goto(r, label)

Active(r) == pc[r] \notin {"idle", "done"}

\* newStore: os.MkdirAll of the secrets directory.
OpenStore == live' = IF live = NoDir THEN EmptyDir ELSE live

\* It binds the server's address, and lets go of it at once.
refuseIfServerRunning == server = "up"

Begin(r) ==
    /\ pc[r] = "idle"
    /\ \E new \in Keys, dry \in BOOLEAN :
        /\ Careful => /\ \A q \in Runs : ~Active(q)
                      /\ live # NoDir
                      /\ dry \/ server = "down"
        /\ job' = [job EXCEPT ![r] = [old |-> {}, new |-> new, dry |-> dry]]
        /\ IF ~dry /\ refuseIfServerRunning
           THEN End(r, "refused", "done")
           ELSE Goto(r, "open") /\ UNCHANGED outcome
    /\ UNCHANGED <<live, backups, staging, world, todo, checking, stamp>>

\* The identities are loaded once, or cannot be (no file, not exactly one new
\* key); then newStore creates what is not there.
Open(r) ==
    /\ pc[r] = "open"
    /\ \/ /\ job' = [job EXCEPT ![r].old = identity]
          /\ OpenStore
          /\ Goto(r, "list")
          /\ UNCHANGED outcome
       \/ Faults /\ End(r, "aborted", "done") /\ UNCHANGED <<live, job>>
    /\ UNCHANGED <<backups, staging, world, todo, checking, stamp>>

List(r) ==
    /\ pc[r] = "list"
    /\ \/ /\ live # NoDir
          /\ todo' = [todo EXCEPT ![r] = Listed(live)]
          /\ Goto(r, IF job[r].dry THEN "dry" ELSE "stat")
          /\ UNCHANGED outcome
       \/ live = NoDir /\ End(r, "aborted", "done") /\ UNCHANGED todo
    /\ UNCHANGED <<live, backups, staging, world, job, checking, stamp>>

\* getValue and migrateOneSecret of "n", as the directory is at this moment.
Migratable(r, n) == live # NoDir /\ Migrates(n, live[n], job[r].old)

\* dryRunRotate: the first secret that cannot be migrated ends the run.
DryOne(r) ==
    /\ pc[r] = "dry"
    /\ \/ todo[r] = {} /\ End(r, "reported", "done") /\ UNCHANGED todo
       \/ \E n \in todo[r] :
            \/ /\ Migratable(r, n)
               /\ todo' = [todo EXCEPT ![r] = @ \ {n}]
               /\ UNCHANGED <<pc, outcome>>
            \/ /\ ~Migratable(r, n)
               /\ End(r, "reported", "done")
               /\ UNCHANGED todo
    /\ UNCHANGED <<live, backups, staging, world, job, checking, stamp>>

-----------------------------------------------------------------------------
\* performRotate.

\* The backup's name is fixed, and must be free, before any work is done.
StatBackup(r) ==
    /\ pc[r] = "stat"
    /\ stamp' = [stamp EXCEPT ![r] = clock]
    /\ IF backups[clock] = NoDir
       THEN Goto(r, "stage") /\ UNCHANGED outcome
       ELSE End(r, "aborted", "done")
    /\ UNCHANGED <<live, backups, staging, world, job, todo, checking>>

MkStaging(r) ==
    /\ pc[r] = "stage"
    /\ \/ /\ staging' = [staging EXCEPT ![r] = EmptyDir]
          /\ Goto(r, "migrate")
          /\ UNCHANGED outcome
       \/ Faults /\ End(r, "aborted", "done") /\ UNCHANGED staging
    /\ UNCHANGED <<live, backups, world, plan>>

\* Variant with a bug: a secret that cannot be migrated is passed over.
MigrateSkips(r) ==
    /\ pc[r] = "migrate"
    /\ \E n \in todo[r] :
        \/ /\ Migratable(r, n)
           /\ staging' = [staging EXCEPT ![r][n] = Rotated(n, live[n], job[r].new)]
           /\ checking' = [checking EXCEPT ![r] = n]
           /\ Goto(r, "verify")
           /\ UNCHANGED todo
        \/ /\ ~Migratable(r, n)
           /\ todo' = [todo EXCEPT ![r] = @ \ {n}]
           /\ UNCHANGED <<staging, checking, pc>>
    /\ UNCHANGED <<live, backups, world, job, stamp, outcome>>

\* Decrypt, normalise, re-encrypt and stage one secret; what lands on the
\* disk may not be what was written.
Migrate(r) ==
    /\ pc[r] = "migrate"
    /\ \E n \in todo[r] :
        \/ /\ Migratable(r, n)
           /\ \E c \in {Rotated(n, live[n], job[r].new)} \cup
                       (IF Faults THEN {Garbage} ELSE {}) :
                staging' = [staging EXCEPT ![r][n] = c]
           /\ checking' = [checking EXCEPT ![r] = n]
           /\ Goto(r, "verify")
           /\ UNCHANGED outcome
        \/ /\ ~Migratable(r, n) \/ Faults
           /\ End(r, "aborted", "cleanup")
           /\ UNCHANGED <<staging, checking>>
    /\ UNCHANGED <<live, backups, world, job, todo, stamp>>

\* Variant with a bug: the comparison is not made.
VerifyNothing(r) ==
    /\ pc[r] = "verify"
    /\ todo' = [todo EXCEPT ![r] = @ \ {checking[r]}]
    /\ Goto(r, "migrate")
    /\ checking' = [checking EXCEPT ![r] = NoName]
    /\ UNCHANGED <<live, backups, staging, world, job, stamp, outcome>>

\* Read the staged file back and compare.
Verify(r) ==
    /\ pc[r] = "verify"
    /\ IF Decrypts(staging[r][checking[r]], {job[r].new})
       THEN /\ todo' = [todo EXCEPT ![r] = @ \ {checking[r]}]
            /\ Goto(r, "migrate")
            /\ UNCHANGED outcome
       ELSE /\ End(r, "aborted", "cleanup")
            /\ UNCHANGED todo
    /\ checking' = [checking EXCEPT ![r] = NoName]
    /\ UNCHANGED <<live, backups, staging, world, job, stamp>>

\* Variant with a bug: the old directory is removed, not kept.
ToBackupRemoves(r) ==
    /\ pc[r] = "migrate" /\ todo[r] = {}
    /\ live' = NoDir
    /\ Goto(r, "swap")
    /\ UNCHANGED <<backups, staging, world, plan, outcome>>

\* First rename.  os.Rename refuses a target that is a directory.
ToBackup(r) ==
    /\ pc[r] = "migrate" /\ todo[r] = {}
    /\ \/ /\ live # NoDir /\ backups[stamp[r]] = NoDir
          /\ backups' = [backups EXCEPT ![stamp[r]] = live]
          /\ live' = NoDir
          /\ Goto(r, "swap")
          /\ UNCHANGED outcome
       \/ /\ live = NoDir \/ backups[stamp[r]] # NoDir \/ Faults
          /\ End(r, "aborted", "cleanup")
          /\ UNCHANGED <<live, backups>>
    /\ UNCHANGED <<staging, world, plan>>

\* Second rename; when it fails, the CRITICAL message is printed.
Swap(r) ==
    /\ pc[r] = "swap"
    /\ \/ /\ live = NoDir
          /\ live' = staging[r]
          /\ staging' = [staging EXCEPT ![r] = NoDir]
          /\ End(r, "rotated", "cleanup")
       \/ /\ live # NoDir \/ Faults
          /\ End(r, "critical", "cleanup")
          /\ UNCHANGED <<live, staging>>
    /\ UNCHANGED <<backups, world, plan>>

\* The deferred os.RemoveAll of the staging directory.
Cleanup(r) ==
    /\ pc[r] = "cleanup"
    /\ staging' = [staging EXCEPT ![r] = NoDir]
    /\ Goto(r, "done")
    /\ UNCHANGED <<live, backups, world, plan, outcome>>

RunStep(r) ==
    \/ Open(r) \/ List(r) \/ DryOne(r)
    \/ StatBackup(r) \/ MkStaging(r) \/ Migrate(r) \/ Verify(r)
    \/ ToBackup(r) \/ Swap(r) \/ Cleanup(r)

\* The process is killed: the deferred call does not run.
Kill(r) ==
    /\ Faults
    /\ Active(r)
    /\ End(r, IF pc[r] = "swap" THEN "between"
              ELSE IF outcome[r] = "none" THEN "killed" ELSE outcome[r], "done")
    /\ UNCHANGED <<live, backups, staging, world, plan>>

-----------------------------------------------------------------------------
\* The server around it: newStore at the start, the address bound later.

ServerOpen ==
    /\ server = "down"
    /\ Careful => live # NoDir /\ \A r \in Runs : Active(r) => job[r].dry
    /\ OpenStore
    /\ server' = "starting"
    /\ UNCHANGED <<backups, staging, identity, clock, pc, plan, outcome, acked>>

ServerListen ==
    /\ server = "starting"
    /\ server' = "up"
    /\ UNCHANGED <<live, backups, staging, identity, clock, pc, plan, outcome, acked>>

ServerStop ==
    /\ server # "down"
    /\ server' = "down"
    /\ UNCHANGED <<live, backups, staging, identity, clock, pc, plan, outcome, acked>>

\* setValue: its MkdirAll makes a missing secrets directory again.
Set ==
    /\ server = "up"
    /\ \E n \in Names \ Invalid, k \in identity, v \in Values :
        /\ live' = [(IF live = NoDir THEN EmptyDir ELSE live)
                        EXCEPT ![n] = [key |-> k, bound |-> n, value |-> v]]
        /\ acked' = [acked EXCEPT ![n] = v]
    /\ UNCHANGED <<backups, staging, identity, server, clock, pc, plan, outcome>>

Delete ==
    /\ server = "up" /\ live # NoDir
    /\ \E n \in Listed(live) \ Invalid :
        /\ live' = [live EXCEPT ![n] = NoFile]
        /\ acked' = [acked EXCEPT ![n] = NoValue]
    /\ UNCHANGED <<backups, staging, identity, server, clock, pc, plan, outcome>>

-----------------------------------------------------------------------------
\* The operator around it: the two recovery commands of the CRITICAL message,
\* and the identity file replaced after a rotation.

\* A run that left the live directory absent, and was not yet repaired.
Broken(r) == live = NoDir /\ pc[r] = "done" /\ outcome[r] \in {"between", "critical"}

Abandon(r) ==
    /\ Broken(r)
    /\ backups[stamp[r]] # NoDir
    /\ live' = backups[stamp[r]]
    /\ backups' = [backups EXCEPT ![stamp[r]] = NoDir]
    /\ outcome' = [outcome EXCEPT ![r] = "abandoned"]
    /\ UNCHANGED <<staging, world, pc, plan>>

Complete(r) ==
    /\ Broken(r)
    /\ staging[r] # NoDir
    /\ live' = staging[r]
    /\ staging' = [staging EXCEPT ![r] = NoDir]
    /\ outcome' = [outcome EXCEPT ![r] = "rotated"]
    /\ UNCHANGED <<backups, world, pc, plan>>

Reconfigure(r) ==
    /\ pc[r] = "done" /\ outcome[r] = "rotated"
    /\ Careful => live # NoDir /\ \A q \in Runs : ~Active(q)
    /\ identity' = {job[r].new}
    /\ UNCHANGED <<live, backups, staging, server, clock, pc, plan, outcome, acked>>

Tick ==
    /\ clock < MaxClock
    /\ clock' = clock + 1
    /\ UNCHANGED <<live, backups, staging, identity, server, pc, plan, outcome, acked>>

Next ==
    \/ \E r \in Runs :
        \/ Begin(r) \/ RunStep(r) \/ Kill(r)
        \/ Abandon(r) \/ Complete(r) \/ Reconfigure(r)
    \/ ServerOpen \/ ServerListen \/ ServerStop \/ Set \/ Delete
    \/ Tick

Spec == Init /\ [][Next]_vars

-----------------------------------------------------------------------------
\* Properties.

\* Every variable keeps its shape.
TypeOK ==
    /\ live \in Contents \cup {NoDir}
    /\ backups \in [Seconds -> Contents \cup {NoDir}]
    /\ staging \in [Runs -> Contents \cup {NoDir}]
    /\ identity \subseteq Keys
    /\ server \in {"down", "starting", "up"}
    /\ clock \in Seconds
    /\ pc \in [Runs -> {"idle", "open", "list", "dry", "stat", "stage", "migrate",
                        "verify", "swap", "cleanup", "done"}]
    /\ job \in [Runs -> [old : SUBSET Keys, new : Keys \cup {NoKey}, dry : BOOLEAN]]
    /\ todo \in [Runs -> SUBSET Names]
    /\ checking \in [Runs -> Names \cup {NoName}]
    /\ stamp \in [Runs -> Seconds]
    /\ outcome \in [Runs -> {"none", "refused", "aborted", "reported", "rotated",
                             "critical", "killed", "between", "abandoned"}]
    /\ acked \in [Names -> Values \cup {NoValue}]

Holds(dir, n, v) == dir # NoDir /\ dir[n] \in Ciphertexts /\ dir[n].value = v

\* Whatever the server, other runs, kills and operators do meanwhile, no
\* value that was acknowledged is gone: it is in the live directory or in a
\* backup.  No step of a run removes the only copy of a secret.
NothingLost ==
    \A n \in Names : acked[n] # NoValue =>
        \/ Holds(live, n, acked[n])
        \/ \E s \in Seconds : Holds(backups[s], n, acked[n])

\* The step is r's second rename, and succeeds.
Swapping(r) == pc[r] = "swap" /\ pc'[r] = "cleanup" /\ outcome'[r] = "rotated"

\* What a run swaps in, whatever raced it, is fit to serve: each secret has a
\* valid name, is bound to it, and decrypts with the new key.
SwapsInVerified ==
    [][\A r \in Runs : Swapping(r) =>
          \A n \in Listed(live') :
             n \notin Invalid /\ Decrypts(live'[n], {job[r].new}) /\ live'[n].bound = n]_vars

\* A run that succeeds has replaced the user's secrets, every one of them, by
\* their re-encryption (spec.md:577, 601).  It needs the documented order: a
\* run killed between its renames, and made again before its repair, succeeds
\* with an empty directory.
SuccessIsComplete ==
    [][\A r \in Runs : Swapping(r) =>
          \A n \in Names : acked[n] # NoValue => Holds(live', n, acked[n])]_vars

\* The directory an operator would call the user's secrets: the live one or,
\* between the two renames, the backup just made.
Latest == CHOOSE s \in Seconds :
            backups[s] # NoDir /\ \A t \in Seconds : t > s => backups[t] = NoDir

View == IF live # NoDir THEN live ELSE backups[Latest]

Promise == INSTANCE AbstractRotation WITH secrets <- View, serving <- server = "up"

\* For a careful operator the two renames, with everything that can fail
\* before, between and after them, are one atomic rotation or none.
AllOrNothing == Promise!Spec

\* ... and a server that is up serves exactly what was acknowledged.
ServesAcked ==
    server = "up" => live # NoDir /\ AckedIn(live) = acked

=============================================================================
