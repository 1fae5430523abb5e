------------------------ MODULE RotateIdentityProofs ------------------------
(***************************************************************************)
(* Proofs about RotateIdentity for every set of names, keys, values and    *)
(* concurrent runs, whatever the server and the operator do: the shape of  *)
(* the state, that what is swapped in was verified, and that no            *)
(* acknowledged value is ever gone.  For a careful operator: the server    *)
(* serves what it acknowledged, and a rotation is atomic.                  *)
(***************************************************************************)
EXTENDS RotateIdentity, TLAPS

-----------------------------------------------------------------------------
\* What a run's program counter says of its staging directory.

Fit(n, c, new) == n \notin Invalid /\ Decrypts(c, {new}) /\ c.bound = n

\* While secrets are migrated every staged one is fit to serve, but for the
\* one that was just written and is yet to be verified.
Staged(r) ==
    /\ pc[r] \in {"migrate", "verify", "swap"} => staging[r] \in Contents
    /\ pc[r] \in {"migrate", "swap"} =>
          \A n \in Listed(staging[r]) : Fit(n, staging[r][n], job[r].new)
    /\ pc[r] = "verify" =>
          /\ checking[r] \in Names \ Invalid
          /\ \A n \in Listed(staging[r]) :
                n # checking[r] => Fit(n, staging[r][n], job[r].new)
          /\ staging[r][checking[r]] \in Ciphertexts =>
                staging[r][checking[r]].bound = checking[r]

\* A run that has begun knows its target.
Targeted(r) == pc[r] # "idle" => job[r].new \in Keys

RunInv == \A r \in Runs : Staged(r) /\ Targeted(r)

TypeInv == TypeOK /\ RunInv

\* A re-encrypted secret is a ciphertext bound to its own name.
LEMMA RotatedIsFit ==
    ASSUME NEW n \in Names, NEW c, NEW ids, NEW new \in Keys, Migrates(n, c, ids)
    PROVE  /\ Rotated(n, c, new) \in Ciphertexts
           /\ Fit(n, Rotated(n, c, new), new)
    BY DEF Migrates, Decrypts, Ciphertexts, Rotated, Fit

\* No directory's contents are mistaken for a missing directory.
LEMMA EmptyIsContents == EmptyDir \in Contents /\ Listed(EmptyDir) = {}
    BY DEF EmptyDir, Contents, Listed

-----------------------------------------------------------------------------

\* The initial states satisfy the invariant.
LEMMA InitTypeInv == Init => TypeInv
  <1> SUFFICES ASSUME Init PROVE TypeInv OBVIOUS
  <1>1. TypeOK
    <2>1. live \in Contents BY DEF Init, Contents
    <2>2. acked \in [Names -> Values \cup {NoValue}]
      BY DEF Init, AckedIn, Ciphertexts
    <2> QED BY <2>1, <2>2, RotationConstants DEF Init, TypeOK, NoJob, Seconds
  <1>2. RunInv
    BY DEF Init, RunInv, Staged, Targeted
  <1> QED BY <1>1, <1>2 DEF TypeInv

\* A step of run "r" that is not one of its own changes nothing Staged or
\* Targeted mention, for any run.
LEMMA Bystander ==
    ASSUME TypeInv, UNCHANGED <<pc, job, checking, staging>>
    PROVE  RunInv'
    BY DEF TypeInv, RunInv, Staged, Targeted, Listed, Fit

\* A step of "r" that leaves its staging directory alone and is not about to
\* use it keeps the invariant of every run.
LEMMA OtherPhase ==
    ASSUME TypeInv, NEW r \in Runs, NEW label,
           UNCHANGED <<staging, checking>>,
           label \notin {"migrate", "verify", "swap"},
           pc' = [pc EXCEPT ![r] = label],
           \A q \in Runs : q # r => job'[q] = job[q],
           label # "idle", job'[r].new \in Keys
    PROVE  RunInv'
  <1> SUFFICES ASSUME NEW q \in Runs PROVE Staged(q)' /\ Targeted(q)'
      BY DEF RunInv
  <1>0. Staged(q) /\ Targeted(q) BY DEF TypeInv, RunInv
  <1>1. CASE q = r
    <2>1. pc'[q] = label BY <1>1 DEF TypeInv, TypeOK
    <2> QED BY <1>1, <2>1 DEF Staged, Targeted
  <1>2. CASE q # r
    <2>1. pc'[q] = pc[q] /\ job'[q] = job[q] BY <1>2 DEF TypeInv, TypeOK
    <2> QED BY <1>0, <2>1 DEF Staged, Targeted, Listed, Fit
  <1> QED BY <1>1, <1>2

-----------------------------------------------------------------------------
\* The actions of a run, one by one.

LEMMA BeginTypeInv ==
    ASSUME TypeInv, NEW r \in Runs, Begin(r) PROVE TypeInv'
  <1>0. TypeOK BY DEF TypeInv
  <1>1. PICK new \in Keys, dry \in BOOLEAN :
            /\ job' = [job EXCEPT ![r] = [old |-> {}, new |-> new, dry |-> dry]]
            /\ IF ~dry /\ refuseIfServerRunning
               THEN End(r, "refused", "done")
               ELSE Goto(r, "open") /\ UNCHANGED outcome
    BY DEF Begin
  <1>2. job'[r].new = new /\ \A q \in Runs : q # r => job'[q] = job[q]
    BY <1>0, <1>1 DEF TypeOK
  <1>3. TypeOK'
    BY <1>0, <1>1 DEF TypeOK, Begin, End, Goto, world
  <1>4. PICK label \in {"done", "open"} : pc' = [pc EXCEPT ![r] = label]
    BY <1>1 DEF End, Goto
  <1>5. RunInv'
    BY <1>2, <1>4, OtherPhase DEF Begin
  <1> QED BY <1>3, <1>5 DEF TypeInv

LEMMA OpenTypeInv ==
    ASSUME TypeInv, NEW r \in Runs, Open(r) PROVE TypeInv'
  <1>0. TypeOK /\ Targeted(r) BY DEF TypeInv, RunInv
  <1>2. job'[r].new = job[r].new /\ \A q \in Runs : q # r => job'[q] = job[q]
    BY <1>0 DEF TypeOK, Open
  <1>4. PICK label \in {"done", "list"} : pc' = [pc EXCEPT ![r] = label]
    BY DEF Open, End, Goto
  <1>3. TypeOK'
    <2>1. live' \in Contents \cup {NoDir}
      BY <1>0, EmptyIsContents DEF TypeOK, Open, OpenStore
    <2>2. job' \in [Runs -> [old : SUBSET Keys, new : Keys \cup {NoKey}, dry : BOOLEAN]]
      BY <1>0 DEF TypeOK, Open
    <2>3. outcome' = outcome \/ outcome' = [outcome EXCEPT ![r] = "aborted"]
      BY DEF Open, End
    <2> QED BY <1>0, <1>4, <2>1, <2>2, <2>3 DEF TypeOK, Open, world
  <1>5. RunInv'
    BY <1>0, <1>2, <1>4, OtherPhase DEF Open, Targeted
  <1> QED BY <1>3, <1>5 DEF TypeInv

LEMMA ListTypeInv ==
    ASSUME TypeInv, NEW r \in Runs, List(r) PROVE TypeInv'
  <1>0. TypeOK /\ Targeted(r) BY DEF TypeInv, RunInv
  <1>1. Listed(live) \subseteq Names BY DEF Listed
  <1>4. PICK label \in {"done", "dry", "stat"} : pc' = [pc EXCEPT ![r] = label]
    BY DEF List, End, Goto
  <1>3. TypeOK'
    <2>1. todo' \in [Runs -> SUBSET Names]
      BY <1>0, <1>1 DEF TypeOK, List
    <2>2. outcome' = outcome \/ outcome' = [outcome EXCEPT ![r] = "aborted"]
      BY DEF List, End
    <2> QED BY <1>0, <1>4, <2>1, <2>2 DEF TypeOK, List, world
  <1>5. RunInv'
    BY <1>0, <1>4, OtherPhase DEF List, Targeted
  <1> QED BY <1>3, <1>5 DEF TypeInv

LEMMA DryOneTypeInv ==
    ASSUME TypeInv, NEW r \in Runs, DryOne(r) PROVE TypeInv'
  <1>0. TypeOK BY DEF TypeInv
  <1>3. TypeOK'
    BY <1>0 DEF TypeOK, DryOne, End, Goto, world
  <1>4. CASE UNCHANGED pc
    BY <1>3, <1>4, Bystander DEF DryOne, TypeInv
  <1>5. CASE pc' = [pc EXCEPT ![r] = "done"]
    <2>1. job[r].new \in Keys BY DEF TypeInv, RunInv, Targeted, DryOne
    <2>2. RunInv' BY <1>5, <2>1, OtherPhase DEF DryOne
    <2> QED BY <1>3, <2>2 DEF TypeInv
  <1> QED BY <1>4, <1>5 DEF DryOne, End, Goto

LEMMA StatBackupTypeInv ==
    ASSUME TypeInv, NEW r \in Runs, StatBackup(r) PROVE TypeInv'
  <1>0. TypeOK /\ Targeted(r) BY DEF TypeInv, RunInv
  <1>3. TypeOK'
    BY <1>0 DEF TypeOK, StatBackup, End, Goto, world
  <1>4. PICK label \in {"done", "stage"} : pc' = [pc EXCEPT ![r] = label]
    BY DEF StatBackup, End, Goto
  <1>5. RunInv'
    BY <1>0, <1>4, OtherPhase DEF StatBackup, Targeted
  <1> QED BY <1>3, <1>5 DEF TypeInv

LEMMA MkStagingTypeInv ==
    ASSUME TypeInv, NEW r \in Runs, MkStaging(r) PROVE TypeInv'
  <1>0. TypeOK /\ Staged(r) /\ Targeted(r) BY DEF TypeInv, RunInv
  <1>1. CASE /\ staging' = [staging EXCEPT ![r] = EmptyDir]
             /\ pc' = [pc EXCEPT ![r] = "migrate"]
             /\ UNCHANGED outcome
    <2>1. TypeOK'
      BY <1>0, <1>1, EmptyIsContents DEF TypeOK, MkStaging, world, plan
    <2>2. ASSUME NEW q \in Runs PROVE Staged(q)' /\ Targeted(q)'
      <3>0. Staged(q) /\ Targeted(q) BY DEF TypeInv, RunInv
      <3>1. CASE q = r
        <4>1. staging'[q] = EmptyDir /\ pc'[q] = "migrate" /\ pc[q] = "stage"
          BY <1>0, <1>1, <3>1 DEF TypeOK, MkStaging
        <4> QED
          BY <3>0, <4>1, EmptyIsContents DEF Staged, Targeted, Listed, MkStaging, plan
      <3>2. CASE q # r
        <4>1. staging'[q] = staging[q] /\ pc'[q] = pc[q]
          BY <1>0, <1>1, <3>2 DEF TypeOK
        <4> QED BY <3>0, <4>1 DEF Staged, Targeted, Listed, Fit, MkStaging, plan
      <3> QED BY <3>1, <3>2
    <2> QED BY <2>1, <2>2 DEF TypeInv, RunInv
  <1>2. CASE End(r, "aborted", "done") /\ UNCHANGED staging
    <2>1. TypeOK' BY <1>0, <1>2 DEF TypeOK, MkStaging, End, Goto, world, plan
    <2>2. RunInv' BY <1>0, <1>2, OtherPhase DEF MkStaging, End, Goto, Targeted, plan
    <2> QED BY <2>1, <2>2 DEF TypeInv
  <1> QED BY <1>1, <1>2 DEF MkStaging, Goto

\* What Migrate stages: the secret re-encrypted, or bytes gone bad.
LEMMA MigrateTypeInv ==
    ASSUME TypeInv, NEW r \in Runs, Migrate(r) PROVE TypeInv'
  <1>0. TypeOK /\ Staged(r) /\ Targeted(r) /\ pc[r] = "migrate"
    BY DEF TypeInv, RunInv, Migrate
  <1>1. ASSUME NEW n \in todo[r], Migratable(r, n),
               NEW c \in {Rotated(n, live[n], job[r].new), Garbage},
               staging' = [staging EXCEPT ![r][n] = c],
               checking' = [checking EXCEPT ![r] = n],
               pc' = [pc EXCEPT ![r] = "verify"],
               UNCHANGED outcome
        PROVE  TypeInv'
    <2>1. n \in Names /\ job[r].new \in Keys /\ staging[r] \in Contents
      BY <1>0 DEF TypeOK, Staged, Targeted
    <2>2. c \in Ciphertexts \cup {Garbage} /\ (c \in Ciphertexts => c.bound = n)
      <3>1. CASE c = Garbage
        BY <3>1, MarkersAreNoCiphertexts DEF Ciphertexts
      <3>2. CASE c = Rotated(n, live[n], job[r].new)
        <4>1. Migrates(n, live[n], job[r].old) BY <1>1 DEF Migratable
        <4>2. c \in Ciphertexts /\ Fit(n, c, job[r].new)
          BY <2>1, <3>2, <4>1, RotatedIsFit
        <4> QED BY <4>2 DEF Fit
      <3> QED BY <1>1, <3>1, <3>2
    <2>3. n \notin Invalid BY <1>1 DEF Migratable, Migrates
    <2>4. /\ staging'[r] \in Contents
          /\ staging'[r][n] = c
          /\ \A m \in Names : m # n => staging'[r][m] = staging[r][m]
      BY <1>0, <1>1, <2>1, <2>2 DEF TypeOK, Contents
    <2>5. \A q \in Runs : q # r => /\ staging'[q] = staging[q]
                                   /\ checking'[q] = checking[q]
                                   /\ pc'[q] = pc[q]
      BY <1>0, <1>1 DEF TypeOK
    <2>6. staging' \in [Runs -> Contents \cup {NoDir}]
      BY <1>0, <1>1, <2>4, <2>5 DEF TypeOK
    <2>7. TypeOK'
      BY <1>0, <1>1, <2>1, <2>6 DEF TypeOK, Migrate, world
    <2>8. ASSUME NEW q \in Runs PROVE Staged(q)' /\ Targeted(q)'
      <3>0. Staged(q) /\ Targeted(q) BY DEF TypeInv, RunInv
      <3>1. CASE q = r
        <4>1. pc'[r] = "verify" /\ checking'[r] = n /\ job' = job
          BY <1>0, <1>1 DEF TypeOK, Migrate
        <4>2. \A m \in Listed(staging[r]) : Fit(m, staging[r][m], job[r].new)
          BY <1>0 DEF Staged
        <4>3. \A m \in Listed(staging'[r]) : m # n => Fit(m, staging'[r][m], job[r].new)
          BY <2>4, <4>2 DEF Listed
        <4>4. staging'[r][n] \in Ciphertexts => staging'[r][n].bound = n
          BY <2>2, <2>4
        <4> QED BY <2>1, <2>3, <2>4, <3>1, <4>1, <4>3, <4>4 DEF Staged, Targeted, Listed, Fit
      <3>2. CASE q # r
        BY <2>5, <3>0, <3>2 DEF Staged, Targeted, Listed, Fit, Migrate
      <3> QED BY <3>1, <3>2
    <2> QED BY <2>7, <2>8 DEF TypeInv, RunInv
  <1>2. CASE End(r, "aborted", "cleanup") /\ UNCHANGED <<staging, checking>>
    <2>1. TypeOK' BY <1>0, <1>2 DEF TypeOK, Migrate, End, Goto, world
    <2>2. RunInv' BY <1>0, <1>2, OtherPhase DEF Migrate, End, Goto, Targeted
    <2> QED BY <2>1, <2>2 DEF TypeInv
  <1> QED BY <1>1, <1>2 DEF Migrate, Goto

LEMMA VerifyTypeInv ==
    ASSUME TypeInv, NEW r \in Runs, Verify(r) PROVE TypeInv'
  <1>0. TypeOK /\ Staged(r) /\ Targeted(r) /\ pc[r] = "verify"
    BY DEF TypeInv, RunInv, Verify
  <1>1. \A q \in Runs : q # r => checking'[q] = checking[q] /\ pc'[q] = pc[q]
    BY <1>0 DEF TypeOK, Verify, End, Goto
  <1>2. CASE Decrypts(staging[r][checking[r]], {job[r].new})
    <2>1. /\ todo' = [todo EXCEPT ![r] = @ \ {checking[r]}]
          /\ pc' = [pc EXCEPT ![r] = "migrate"]
          /\ UNCHANGED outcome
      BY <1>2 DEF Verify, Goto
    <2>2. TypeOK'
      BY <1>0, <2>1 DEF TypeOK, Verify, world
    <2>3. Fit(checking[r], staging[r][checking[r]], job[r].new)
      BY <1>0, <1>2 DEF Staged, Fit, Decrypts
    <2>4. \A n \in Listed(staging[r]) : Fit(n, staging[r][n], job[r].new)
      BY <1>0, <2>3 DEF Staged
    <2>5. ASSUME NEW q \in Runs PROVE Staged(q)' /\ Targeted(q)'
      <3>0. Staged(q) /\ Targeted(q) BY DEF TypeInv, RunInv
      <3>1. CASE q = r
        <4>1. pc'[r] = "migrate" BY <1>0, <2>1 DEF TypeOK
        <4> QED BY <1>0, <2>4, <3>1, <4>1 DEF Staged, Targeted, Listed, Fit, Verify
      <3>2. CASE q # r
        BY <1>1, <3>0, <3>2 DEF Staged, Targeted, Listed, Fit, Verify
      <3> QED BY <3>1, <3>2
    <2> QED BY <2>2, <2>5 DEF TypeInv, RunInv
  <1>3. CASE ~Decrypts(staging[r][checking[r]], {job[r].new})
    <2>1. /\ pc' = [pc EXCEPT ![r] = "cleanup"]
          /\ outcome' = [outcome EXCEPT ![r] = "aborted"]
          /\ UNCHANGED todo
      BY <1>3 DEF Verify, End, Goto
    <2>2. TypeOK'
      BY <1>0, <2>1 DEF TypeOK, Verify, world
    <2>3. ASSUME NEW q \in Runs PROVE Staged(q)' /\ Targeted(q)'
      <3>0. Staged(q) /\ Targeted(q) BY DEF TypeInv, RunInv
      <3>1. CASE q = r
        <4>1. pc'[r] = "cleanup" BY <1>0, <2>1 DEF TypeOK
        <4> QED BY <1>0, <3>1, <4>1 DEF Staged, Targeted, Verify
      <3>2. CASE q # r
        BY <1>1, <3>0, <3>2 DEF Staged, Targeted, Listed, Fit, Verify
      <3> QED BY <3>1, <3>2
    <2> QED BY <2>2, <2>3 DEF TypeInv, RunInv
  <1> QED BY <1>2, <1>3

LEMMA ToBackupTypeInv ==
    ASSUME TypeInv, NEW r \in Runs, ToBackup(r) PROVE TypeInv'
  <1>0. TypeOK /\ Staged(r) /\ Targeted(r) /\ pc[r] = "migrate"
    BY DEF TypeInv, RunInv, ToBackup
  <1>1. CASE /\ live # NoDir
             /\ backups' = [backups EXCEPT ![stamp[r]] = live]
             /\ live' = NoDir
             /\ Goto(r, "swap")
             /\ UNCHANGED outcome
    <2>1. TypeOK'
      BY <1>0, <1>1 DEF TypeOK, ToBackup, Goto, world, plan
    <2>2. ASSUME NEW q \in Runs PROVE Staged(q)' /\ Targeted(q)'
      <3>0. Staged(q) /\ Targeted(q) BY DEF TypeInv, RunInv
      <3>1. CASE q = r
        <4>1. pc'[r] = "swap" BY <1>0, <1>1 DEF TypeOK, Goto
        <4> QED BY <1>0, <3>1, <4>1 DEF Staged, Targeted, Listed, Fit, ToBackup, plan
      <3>2. CASE q # r
        <4>1. pc'[q] = pc[q] BY <1>0, <1>1, <3>2 DEF TypeOK, Goto
        <4> QED BY <3>0, <4>1 DEF Staged, Targeted, Listed, Fit, ToBackup, plan
      <3> QED BY <3>1, <3>2
    <2> QED BY <2>1, <2>2 DEF TypeInv, RunInv
  <1>2. CASE End(r, "aborted", "cleanup") /\ UNCHANGED <<live, backups>>
    <2>1. TypeOK' BY <1>0, <1>2 DEF TypeOK, ToBackup, End, Goto, world, plan
    <2>2. RunInv' BY <1>0, <1>2, OtherPhase DEF ToBackup, End, Goto, Targeted, plan
    <2> QED BY <2>1, <2>2 DEF TypeInv
  <1> QED BY <1>1, <1>2 DEF ToBackup

\* Removing the staging directory of a run that does not migrate any more.
LEMMA DropStaging ==
    ASSUME TypeInv, NEW r \in Runs, NEW label \in {"cleanup", "done"},
           pc' = [pc EXCEPT ![r] = label],
           staging' = [staging EXCEPT ![r] = NoDir],
           UNCHANGED <<job, checking>>, pc[r] # "idle",
           label = "cleanup" => pc[r] # "done"
    PROVE  RunInv' /\ staging' \in [Runs -> Contents \cup {NoDir}]
  <1>1. TypeOK BY DEF TypeInv
  <1>2. ASSUME NEW q \in Runs PROVE Staged(q)' /\ Targeted(q)'
    <2>0. Staged(q) /\ Targeted(q) BY DEF TypeInv, RunInv
    <2>1. CASE q = r
      <3>1. pc'[r] = label BY <1>1 DEF TypeOK
      <3> QED BY <2>0, <2>1, <3>1 DEF Staged, Targeted
    <2>2. CASE q # r
      <3>1. pc'[q] = pc[q] /\ staging'[q] = staging[q] BY <1>1, <2>2 DEF TypeOK
      <3> QED BY <2>0, <3>1 DEF Staged, Targeted, Listed, Fit
    <2> QED BY <2>1, <2>2
  <1>3. staging' \in [Runs -> Contents \cup {NoDir}]
    BY <1>1 DEF TypeOK
  <1> QED BY <1>2, <1>3 DEF RunInv

LEMMA SwapTypeInv ==
    ASSUME TypeInv, NEW r \in Runs, Swap(r) PROVE TypeInv'
  <1>0. TypeOK /\ Staged(r) /\ Targeted(r) /\ pc[r] = "swap"
    BY DEF TypeInv, RunInv, Swap
  <1>1. CASE /\ live' = staging[r]
             /\ staging' = [staging EXCEPT ![r] = NoDir]
             /\ End(r, "rotated", "cleanup")
    <2>1. RunInv' /\ staging' \in [Runs -> Contents \cup {NoDir}]
      BY <1>0, <1>1, DropStaging DEF Swap, End, Goto, plan
    <2>2. live' \in Contents BY <1>0, <1>1 DEF Staged
    <2>3. TypeOK'
      BY <1>0, <1>1, <2>1, <2>2 DEF TypeOK, Swap, End, Goto, world, plan
    <2> QED BY <2>1, <2>3 DEF TypeInv
  <1>2. CASE End(r, "critical", "cleanup") /\ UNCHANGED <<live, staging>>
    <2>1. TypeOK' BY <1>0, <1>2 DEF TypeOK, Swap, End, Goto, world, plan
    <2>2. RunInv' BY <1>0, <1>2, OtherPhase DEF Swap, End, Goto, Targeted, plan
    <2> QED BY <2>1, <2>2 DEF TypeInv
  <1> QED BY <1>1, <1>2 DEF Swap

LEMMA CleanupTypeInv ==
    ASSUME TypeInv, NEW r \in Runs, Cleanup(r) PROVE TypeInv'
  <1>0. TypeOK BY DEF TypeInv
  <1>1. RunInv' /\ staging' \in [Runs -> Contents \cup {NoDir}]
    BY DropStaging DEF Cleanup, Goto, plan
  <1>2. TypeOK' BY <1>0, <1>1 DEF TypeOK, Cleanup, Goto, world, plan
  <1> QED BY <1>1, <1>2 DEF TypeInv

LEMMA KillTypeInv ==
    ASSUME TypeInv, NEW r \in Runs, Kill(r) PROVE TypeInv'
  <1>0. TypeOK BY DEF TypeInv
  <1>1. outcome' \in [Runs -> {"none", "refused", "aborted", "reported", "rotated",
                               "critical", "killed", "between", "abandoned"}]
    BY <1>0 DEF TypeOK, Kill, End
  <1>2. TypeOK' BY <1>0, <1>1 DEF TypeOK, Kill, End, Goto, world, plan
  <1>3. job[r].new \in Keys BY DEF TypeInv, RunInv, Targeted, Kill, Active
  <1>4. RunInv' BY <1>3, OtherPhase DEF Kill, End, Goto, plan
  <1> QED BY <1>2, <1>4 DEF TypeInv

-----------------------------------------------------------------------------
\* The server and the operator.

LEMMA ServerTypeInv ==
    ASSUME TypeInv, ServerOpen \/ ServerListen \/ ServerStop \/ Set \/ Delete \/ Tick
    PROVE  TypeInv'
  <1>0. TypeOK BY DEF TypeInv
  <1>1. RunInv'
    BY Bystander DEF ServerOpen, ServerListen, ServerStop, Set, Delete, Tick, plan
  <1>2. CASE ServerOpen
    BY <1>0, <1>1, <1>2, EmptyIsContents DEF TypeInv, TypeOK, ServerOpen, OpenStore, plan
  <1>3. CASE ServerListen BY <1>0, <1>1, <1>3 DEF TypeInv, TypeOK, ServerListen, plan
  <1>4. CASE ServerStop BY <1>0, <1>1, <1>4 DEF TypeInv, TypeOK, ServerStop, plan
  <1>5. CASE Set
    <2>1. PICK n \in Names \ Invalid, k \in identity, v \in Values :
            /\ live' = [(IF live = NoDir THEN EmptyDir ELSE live)
                            EXCEPT ![n] = [key |-> k, bound |-> n, value |-> v]]
            /\ acked' = [acked EXCEPT ![n] = v]
      BY <1>5 DEF Set
    <2>2. [key |-> k, bound |-> n, value |-> v] \in Ciphertexts
      BY <1>0 DEF TypeOK, Ciphertexts
    <2>3. live' \in Contents
      BY <1>0, <2>1, <2>2, EmptyIsContents DEF TypeOK, Contents
    <2> QED BY <1>0, <1>1, <1>5, <2>1, <2>3 DEF TypeInv, TypeOK, Set, plan
  <1>6. CASE Delete
    <2>1. PICK n \in Listed(live) \ Invalid :
            /\ live' = [live EXCEPT ![n] = NoFile]
            /\ acked' = [acked EXCEPT ![n] = NoValue]
      BY <1>6 DEF Delete
    <2>2. live' \in Contents
      BY <1>0, <1>6, <2>1 DEF TypeOK, Contents, Delete
    <2> QED BY <1>0, <1>1, <1>6, <2>1, <2>2 DEF TypeInv, TypeOK, Delete, plan
  <1>7. CASE Tick
    BY <1>0, <1>1, <1>7, RotationConstants DEF TypeInv, TypeOK, Tick, plan, Seconds
  <1> QED BY <1>2, <1>3, <1>4, <1>5, <1>6, <1>7

LEMMA OperatorTypeInv ==
    ASSUME TypeInv, NEW r \in Runs, Abandon(r) \/ Complete(r) \/ Reconfigure(r)
    PROVE  TypeInv'
  <1>0. TypeOK BY DEF TypeInv
  <1>1. CASE Abandon(r)
    <2>1. TypeOK' BY <1>0, <1>1 DEF TypeOK, Abandon, world, plan
    <2>2. RunInv' BY <1>1, Bystander DEF Abandon, plan
    <2> QED BY <2>1, <2>2 DEF TypeInv
  <1>2. CASE Complete(r)
    <2>1. pc' = [pc EXCEPT ![r] = "done"]
      BY <1>0, <1>2 DEF TypeOK, Complete, Broken
    <2>2. RunInv' /\ staging' \in [Runs -> Contents \cup {NoDir}]
      BY <1>2, <2>1, DropStaging DEF Complete, Broken, plan
    <2>3. live' \in Contents BY <1>0, <1>2 DEF TypeOK, Complete
    <2>4. TypeOK' BY <1>0, <1>2, <2>2, <2>3 DEF TypeOK, Complete, world, plan
    <2> QED BY <2>2, <2>4 DEF TypeInv
  <1>3. CASE Reconfigure(r)
    <2>1. RunInv' BY <1>3, Bystander DEF Reconfigure, plan
    <2>2. job[r].new \in Keys BY <1>3 DEF TypeInv, RunInv, Targeted, Reconfigure
    <2>3. identity' \subseteq Keys BY <1>0, <1>3, <2>2 DEF Reconfigure
    <2> QED BY <1>0, <1>3, <2>1, <2>3 DEF TypeInv, TypeOK, Reconfigure, plan
  <1> QED BY <1>1, <1>2, <1>3

\* A step that changes nothing.
LEMMA StutterTypeInv == ASSUME TypeInv, UNCHANGED vars PROVE TypeInv'
  <1>1. RunInv' BY Bystander DEF vars
  <1>2. TypeOK' BY DEF TypeInv, TypeOK, vars
  <1> QED BY <1>1, <1>2 DEF TypeInv

\* Every step keeps the invariant.
LEMMA NextTypeInv == ASSUME TypeInv, [Next]_vars PROVE TypeInv'
  <1>1. CASE UNCHANGED vars BY <1>1, StutterTypeInv
  <1>2. ASSUME NEW r \in Runs, Begin(r) \/ RunStep(r) \/ Kill(r) PROVE TypeInv'
    BY <1>2, BeginTypeInv, OpenTypeInv, ListTypeInv, DryOneTypeInv, StatBackupTypeInv,
       MkStagingTypeInv, MigrateTypeInv, VerifyTypeInv, ToBackupTypeInv, SwapTypeInv,
       CleanupTypeInv, KillTypeInv
    DEF RunStep
  <1>3. ASSUME NEW r \in Runs, Abandon(r) \/ Complete(r) \/ Reconfigure(r) PROVE TypeInv'
    BY <1>3, OperatorTypeInv
  <1>4. CASE ServerOpen \/ ServerListen \/ ServerStop \/ Set \/ Delete \/ Tick
    BY <1>4, ServerTypeInv
  <1> QED BY <1>1, <1>2, <1>3, <1>4 DEF Next

\* The state of rotate-identity, the server and the disk keeps its shape.
THEOREM TypeCorrect == Spec => []TypeOK
  <1>1. Init => TypeInv BY InitTypeInv
  <1>2. TypeInv /\ [Next]_vars => TypeInv' BY NextTypeInv
  <1>3. TypeInv => TypeOK BY DEF TypeInv
  <1> QED BY <1>1, <1>2, <1>3, PTL DEF Spec

-----------------------------------------------------------------------------
\* Only its own actions move a run, and of those only Swap leads from "swap"
\* to "cleanup".
LEMMA SwappingIsSwap ==
    ASSUME TypeInv, [Next]_vars, NEW q \in Runs, Swapping(q)
    PROVE  live' = staging[q] /\ job' = job /\ acked' = acked
  <1>0. TypeOK /\ pc[q] = "swap" /\ pc'[q] = "cleanup" /\ outcome'[q] = "rotated"
    BY DEF TypeInv, Swapping
  <1>1. pc' # pc BY <1>0
  <1>2. ~(ServerOpen \/ ServerListen \/ ServerStop \/ Set \/ Delete \/ Tick)
    BY <1>1 DEF ServerOpen, ServerListen, ServerStop, Set, Delete, Tick
  <1>3. ASSUME NEW r \in Runs PROVE ~(Abandon(r) \/ Complete(r) \/ Reconfigure(r))
    BY <1>1 DEF Abandon, Complete, Reconfigure
  <1>4. ~UNCHANGED vars BY <1>1 DEF vars
  <1>5. PICK r \in Runs : Begin(r) \/ RunStep(r) \/ Kill(r)
    BY <1>2, <1>3, <1>4 DEF Next
  <1>6. PICK label : pc' = [pc EXCEPT ![r] = label]
    <2>1. CASE Begin(r) BY <2>1 DEF Begin, End, Goto
    <2>2. CASE Open(r) BY <2>2 DEF Open, End, Goto
    <2>3. CASE List(r) BY <2>3 DEF List, End, Goto
    <2>4. CASE DryOne(r) BY <1>1, <2>4 DEF DryOne, End, Goto
    <2>5. CASE StatBackup(r) BY <2>5 DEF StatBackup, End, Goto
    <2>6. CASE MkStaging(r) BY <2>6 DEF MkStaging, End, Goto
    <2>7. CASE Migrate(r) BY <2>7 DEF Migrate, End, Goto
    <2>8. CASE Verify(r) BY <2>8 DEF Verify, End, Goto
    <2>9. CASE ToBackup(r) BY <2>9 DEF ToBackup, End, Goto
    <2>10. CASE Swap(r) BY <2>10 DEF Swap, End, Goto
    <2>11. CASE Cleanup(r) BY <2>11 DEF Cleanup, Goto
    <2>12. CASE Kill(r) BY <2>12 DEF Kill, End, Goto
    <2> QED
      BY <1>5, <2>1, <2>2, <2>3, <2>4, <2>5, <2>6, <2>7, <2>8, <2>9, <2>10, <2>11, <2>12
      DEF RunStep
  <1>7. r = q BY <1>0, <1>6 DEF TypeOK
  <1>8. ~Kill(q)
    BY <1>0 DEF TypeOK, Kill, End, Goto
  <1>9. Swap(q)
    BY <1>0, <1>5, <1>7, <1>8
    DEF RunStep, Begin, Open, List, DryOne, StatBackup, MkStaging, Migrate, Verify,
        ToBackup, Cleanup
  <1> QED BY <1>0, <1>9 DEF TypeOK, Swap, End, plan, world

\* What a run installs by its second rename (rotate_identity.go:300) went
\* through validName, migrateOneSecret and the verification, every secret of
\* it, whatever other runs, the server and kills did in the meantime.
THEOREM VerifiedBeforeSwap == Spec => SwapsInVerified
  <1> DEFINE Good(r) ==
        Swapping(r) =>
          \A n \in Listed(live') :
             n \notin Invalid /\ Decrypts(live'[n], {job[r].new}) /\ live'[n].bound = n
  <1>1. Init => TypeInv BY InitTypeInv
  <1>2. TypeInv /\ [Next]_vars => TypeInv' BY NextTypeInv
  <1>3. TypeInv /\ [Next]_vars => [\A r \in Runs : Good(r)]_vars
    <2> SUFFICES ASSUME TypeInv, [Next]_vars, NEW r \in Runs, Swapping(r)
                 PROVE  \A n \in Listed(live') :
                          /\ n \notin Invalid
                          /\ Decrypts(live'[n], {job[r].new})
                          /\ live'[n].bound = n
        OBVIOUS
    <2>1. live' = staging[r] BY SwappingIsSwap
    <2>2. \A n \in Listed(staging[r]) : Fit(n, staging[r][n], job[r].new)
      BY DEF TypeInv, RunInv, Staged, Swapping
    <2> QED BY <2>1, <2>2 DEF Fit
  <1> QED BY <1>1, <1>2, <1>3, PTL DEF Spec, SwapsInVerified

-----------------------------------------------------------------------------
\* A step that leaves the acknowledged values alone and moves no directory
\* away, or only from one path to a free one, loses nothing.

\* live may appear where nothing was, empty or not.
LEMMA NothingMoved ==
    ASSUME TypeOK, NothingLost, UNCHANGED <<backups, acked>>, live = NoDir \/ live' = live
    PROVE  NothingLost'
    BY DEF NothingLost, Holds

\* What was live is now a backup.
LEMMA MovedToBackup ==
    ASSUME TypeOK, NothingLost, NEW s \in Seconds, backups[s] = NoDir,
           backups' = [backups EXCEPT ![s] = live], UNCHANGED acked
    PROVE  NothingLost'
  <1> SUFFICES ASSUME NEW n \in Names, acked[n] # NoValue
               PROVE  \E t \in Seconds : Holds(backups'[t], n, acked[n])
      BY DEF NothingLost, Holds
  <1>1. backups'[s] = live /\ \A t \in Seconds : t # s => backups'[t] = backups[t]
      BY DEF TypeOK
  <1>2. CASE Holds(live, n, acked[n]) BY <1>1, <1>2
  <1>3. ASSUME NEW t \in Seconds, Holds(backups[t], n, acked[n])
        PROVE  Holds(backups'[t], n, acked[n])
      BY <1>1, <1>3 DEF Holds
  <1> QED BY <1>2, <1>3 DEF NothingLost

\* A backup is the live directory again.
LEMMA MovedBack ==
    ASSUME TypeOK, NothingLost, NEW s \in Seconds, live = NoDir, live' = backups[s],
           backups' = [backups EXCEPT ![s] = NoDir], UNCHANGED acked
    PROVE  NothingLost'
  <1> SUFFICES ASSUME NEW n \in Names, acked[n] # NoValue
               PROVE  \/ Holds(live', n, acked[n])
                      \/ \E t \in Seconds : Holds(backups'[t], n, acked[n])
      BY DEF NothingLost, Holds
  <1>1. PICK t \in Seconds : Holds(backups[t], n, acked[n])
      BY DEF NothingLost, Holds
  <1>2. t # s => backups'[t] = backups[t] BY DEF TypeOK
  <1> QED BY <1>1, <1>2

LEMMA InitNothingLost == Init => NothingLost
  <1> SUFFICES ASSUME Init, NEW n \in Names, acked[n] # NoValue
               PROVE  Holds(live, n, acked[n])
      BY DEF NothingLost
  <1>1. live[n] \in Ciphertexts /\ acked[n] = live[n].value
      BY DEF Init, AckedIn
  <1>2. live # NoDir BY RotationConstants DEF Init, Contents
  <1> QED BY <1>1, <1>2 DEF Holds

\* A value set is in the live directory, and no other name's value leaves it.
LEMMA SetNothingLost == ASSUME TypeOK, NothingLost, Set PROVE NothingLost'
  <1> DEFINE dir == IF live = NoDir THEN EmptyDir ELSE live
  <1>1. PICK m \in Names \ Invalid, k \in identity, v \in Values :
            /\ live' = [dir EXCEPT ![m] = [key |-> k, bound |-> m, value |-> v]]
            /\ acked' = [acked EXCEPT ![m] = v]
      BY DEF Set
  <1>2. [key |-> k, bound |-> m, value |-> v] \in Ciphertexts
      BY DEF TypeOK, Ciphertexts
  <1>3. dir \in Contents BY EmptyIsContents DEF TypeOK
  <1>4. /\ live'[m] = [key |-> k, bound |-> m, value |-> v]
        /\ \A n \in Names : n # m => live'[n] = dir[n]
        /\ live' \in Contents
      BY <1>1, <1>2, <1>3 DEF Contents
  <1>5. live' # NoDir BY <1>4, RotationConstants
  <1>6. acked'[m] = v /\ \A n \in Names : n # m => acked'[n] = acked[n]
      BY <1>1 DEF TypeOK
  <1>7. Holds(live', m, acked'[m]) BY <1>2, <1>4, <1>5, <1>6 DEF Holds
  <1>8. ASSUME NEW n \in Names, n # m, Holds(live, n, acked[n])
        PROVE  Holds(live', n, acked'[n])
      BY <1>4, <1>5, <1>6, <1>8 DEF Holds
  <1>9. backups' = backups BY DEF Set
  <1> HIDE DEF dir
  <1> QED BY <1>6, <1>7, <1>8, <1>9 DEF NothingLost

\* A value deleted is not acknowledged any more; the others stay.
LEMMA DeleteNothingLost == ASSUME TypeOK, NothingLost, Delete PROVE NothingLost'
  <1>1. PICK m \in Listed(live) \ Invalid :
            /\ live' = [live EXCEPT ![m] = NoFile]
            /\ acked' = [acked EXCEPT ![m] = NoValue]
      BY DEF Delete
  <1>2. m \in Names /\ live \in Contents BY <1>1 DEF Listed, TypeOK, Delete
  <1>3. live' \in Contents /\ \A n \in Names : n # m => live'[n] = live[n]
      BY <1>1, <1>2 DEF Contents
  <1>4. live' # NoDir BY <1>3, RotationConstants
  <1>5. acked'[m] = NoValue /\ \A n \in Names : n # m => acked'[n] = acked[n]
      BY <1>1, <1>2 DEF TypeOK
  <1>6. ASSUME NEW n \in Names, n # m, Holds(live, n, acked[n])
        PROVE  Holds(live', n, acked'[n])
      BY <1>3, <1>4, <1>5, <1>6 DEF Holds
  <1>7. backups' = backups BY DEF Delete
  <1> QED BY <1>5, <1>6, <1>7 DEF NothingLost

\* Every step keeps every acknowledged value somewhere.
LEMMA NextNothingLost == ASSUME TypeInv, NothingLost, [Next]_vars PROVE NothingLost'
  <1>0. TypeOK BY DEF TypeInv
  <1>1. CASE UNCHANGED vars BY <1>0, <1>1, NothingMoved DEF vars
  <1>2. ASSUME NEW r \in Runs, Begin(r) \/ RunStep(r) \/ Kill(r) PROVE NothingLost'
    <2>1. CASE Begin(r) BY <1>0, <2>1, NothingMoved DEF Begin, world
    <2>2. CASE Open(r) BY <1>0, <2>2, NothingMoved DEF Open, OpenStore, world
    <2>3. CASE List(r) BY <1>0, <2>3, NothingMoved DEF List, world
    <2>4. CASE DryOne(r) BY <1>0, <2>4, NothingMoved DEF DryOne, world
    <2>5. CASE StatBackup(r) BY <1>0, <2>5, NothingMoved DEF StatBackup, world
    <2>6. CASE MkStaging(r) BY <1>0, <2>6, NothingMoved DEF MkStaging, world
    <2>7. CASE Migrate(r) BY <1>0, <2>7, NothingMoved DEF Migrate, world
    <2>8. CASE Verify(r) BY <1>0, <2>8, NothingMoved DEF Verify, world
    <2>9. CASE ToBackup(r)
      <3>1. CASE UNCHANGED <<live, backups>>
        BY <1>0, <2>9, <3>1, NothingMoved DEF ToBackup, world
      <3>2. CASE /\ backups[stamp[r]] = NoDir
                 /\ backups' = [backups EXCEPT ![stamp[r]] = live]
        <4>1. stamp[r] \in Seconds BY <1>0 DEF TypeOK
        <4> QED BY <1>0, <2>9, <3>2, <4>1, MovedToBackup DEF ToBackup, world
      <3> QED BY <2>9, <3>1, <3>2 DEF ToBackup
    <2>10. CASE Swap(r) BY <1>0, <2>10, NothingMoved DEF Swap, world
    <2>11. CASE Cleanup(r) BY <1>0, <2>11, NothingMoved DEF Cleanup, world
    <2>12. CASE Kill(r) BY <1>0, <2>12, NothingMoved DEF Kill, world
    <2> QED
      BY <1>2, <2>1, <2>2, <2>3, <2>4, <2>5, <2>6, <2>7, <2>8, <2>9, <2>10, <2>11, <2>12
      DEF RunStep
  <1>3. ASSUME NEW r \in Runs, Abandon(r) \/ Complete(r) \/ Reconfigure(r)
        PROVE  NothingLost'
    <2>1. CASE Abandon(r)
      <3>1. stamp[r] \in Seconds BY <1>0 DEF TypeOK
      <3> QED BY <1>0, <2>1, <3>1, MovedBack DEF Abandon, Broken, world
    <2>2. CASE Complete(r) BY <1>0, <2>2, NothingMoved DEF Complete, Broken, world
    <2>3. CASE Reconfigure(r) BY <1>0, <2>3, NothingMoved DEF Reconfigure
    <2> QED BY <1>3, <2>1, <2>2, <2>3
  <1>4. CASE ServerOpen BY <1>0, <1>4, NothingMoved DEF ServerOpen, OpenStore
  <1>5. CASE ServerListen \/ ServerStop \/ Tick
    BY <1>0, <1>5, NothingMoved DEF ServerListen, ServerStop, Tick
  <1>6. CASE Set BY <1>0, <1>6, SetNothingLost
  <1>7. CASE Delete BY <1>0, <1>7, DeleteNothingLost
  <1> QED BY <1>1, <1>2, <1>3, <1>4, <1>5, <1>6, <1>7 DEF Next

\* No value the server acknowledged is gone, careless operator or not: it is
\* in the live directory or in a backup (rotate_identity.go:296-309 moves the
\* directory away and never removes it).
THEOREM AckedSurvives == Spec => []NothingLost
  <1>1. Init => TypeInv /\ NothingLost BY InitTypeInv, InitNothingLost
  <1>2. TypeInv /\ NothingLost /\ [Next]_vars => TypeInv' /\ NothingLost'
    BY NextTypeInv, NextNothingLost
  <1> QED BY <1>1, <1>2, PTL DEF Spec

-----------------------------------------------------------------------------
\* A careful operator.

\* The old directory is moved away, and nothing has taken its place yet.
Torn(r) == pc[r] = "swap" \/ outcome[r] \in {"between", "critical"}

\* What a rotation makes of a directory.
Moved(dir, new) ==
    [n \in Names |-> IF dir[n] = NoFile THEN NoFile ELSE Rotated(n, dir[n], new)]

AllMigrate(dir) == \A n \in Listed(dir) : Migrates(n, dir[n], identity)

\* Runs are made one at a time, with the server down unless they are dry, and
\* repaired before anything else.
InTurn ==
    /\ \A q, r \in Runs : Active(q) /\ Active(r) => q = r
    /\ \A q, r \in Runs : Torn(q) /\ (Torn(r) \/ Active(r)) => q = r
    /\ \A r \in Runs : Torn(r) \/ (Active(r) /\ ~job[r].dry) => server = "down"
    /\ \A r \in Runs : outcome[r] # "none" => pc[r] \in {"cleanup", "done"}
    /\ live = NoDir <=> \E r \in Runs : Torn(r)

\* A run past its listing is a real one, and works with the configured keys.
Informed(r) ==
    /\ pc[r] \in {"stat", "stage", "migrate", "verify", "swap", "cleanup"} => ~job[r].dry
    /\ pc[r] \in {"list", "dry", "stat", "stage", "migrate", "verify", "swap"} \/ Torn(r) =>
            job[r].old = identity

\* The backup of the run at work, or torn, is the newest.
Newest(r) ==
    /\ pc[r] \in {"stage", "migrate", "verify", "swap"} \/ Torn(r) =>
            \A t \in Seconds : t > stamp[r] => backups[t] = NoDir
    /\ Torn(r) => backups[stamp[r]] # NoDir

\* No backup, and no name fixed for one, is from the future.
BackupsPast ==
    /\ \A s \in Seconds : backups[s] # NoDir => s <= clock
    /\ \A r \in Runs : stamp[r] <= clock

\* A staging directory in the making: what is migrated already is the
\* re-encryption of what is in the live directory.
Copying(r) ==
    /\ pc[r] \in {"migrate", "verify"} => todo[r] \subseteq Listed(live)
    /\ pc[r] \in {"stat", "stage"} => todo[r] = Listed(live)
    /\ pc[r] \in {"migrate", "verify"} =>
            \A n \in Names :
                /\ n \notin Listed(live) => staging[r][n] = NoFile
                /\ n \in Listed(live) \ todo[r] =>
                        /\ Migrates(n, live[n], identity)
                        /\ staging[r][n] = Rotated(n, live[n], job[r].new)
    /\ pc[r] = "verify" =>
            LET n == checking[r] IN
            /\ n \in todo[r]
            /\ Migrates(n, live[n], identity)
            /\ staging[r][n] \in {Rotated(n, live[n], job[r].new), Garbage}

\* ... and a finished one that of the backup.
Copied(r) ==
    Torn(r) /\ staging[r] # NoDir =>
        /\ AllMigrate(backups[stamp[r]])
        /\ staging[r] = Moved(backups[stamp[r]], job[r].new)

\* The server's users see what they were told.
Faithful ==
    /\ live # NoDir => AckedIn(live) = acked
    /\ \A r \in Runs : Torn(r) => AckedIn(backups[stamp[r]]) = acked

CarefulInv ==
    /\ InTurn /\ BackupsPast /\ Faithful
    /\ \A r \in Runs : Informed(r) /\ Newest(r) /\ Copying(r) /\ Copied(r)

\* What the invariant says of the only run that can matter ...
Here(r) ==
    /\ Torn(r) \/ (Active(r) /\ ~job[r].dry) => server = "down"
    /\ outcome[r] # "none" => pc[r] \in {"cleanup", "done"}
    /\ live = NoDir <=> Torn(r)
    /\ live # NoDir => AckedIn(live) = acked
    /\ Torn(r) => AckedIn(backups[stamp[r]]) = acked
    /\ Informed(r) /\ Newest(r) /\ Copying(r) /\ Copied(r)

\* ... and of all others.
Resting(q) ==
    /\ pc[q] \in {"idle", "done"}
    /\ ~Torn(q)
    /\ outcome[q] # "none" => pc[q] = "done"

OthersRest(r) == \A q \in Runs \ {r} : Resting(q)

LEMMA Alone ==
    ASSUME CarefulInv, NEW r \in Runs,
           Active(r) \/ Torn(r) \/ (live # NoDir /\ \A q \in Runs : ~Active(q))
    PROVE  Here(r) /\ OthersRest(r) /\ BackupsPast
  <1>1. InTurn /\ BackupsPast /\ Faithful BY DEF CarefulInv
  <1>2. ASSUME NEW q \in Runs \ {r} PROVE ~Active(q) /\ ~Torn(q)
    BY <1>1 DEF InTurn
  <1>3. OthersRest(r)
    BY <1>1, <1>2 DEF OthersRest, Resting, InTurn, Active
  <1>4. live = NoDir <=> Torn(r)
    BY <1>1, <1>2 DEF InTurn
  <1>5. Here(r)
    BY <1>1, <1>4 DEF Here, CarefulInv, InTurn, Faithful
  <1> QED BY <1>1, <1>3, <1>5

\* Both make the invariant of the next state, when only "r" moved.
LEMMA TogetherNext ==
    ASSUME NEW r \in Runs, OthersRest(r), Here(r)', BackupsPast',
           \A q \in Runs \ {r} : pc'[q] = pc[q] /\ outcome'[q] = outcome[q]
    PROVE  CarefulInv'
  <1>1. OthersRest(r)'
    BY DEF OthersRest, Resting, Torn
  <1>2. \A q \in Runs \ {r} : ~Active(q)' /\ ~Torn(q)'
    BY <1>1 DEF OthersRest, Resting, Active
  <1>3. InTurn'
    BY <1>1, <1>2 DEF InTurn, Here, OthersRest, Resting
  <1>4. Faithful'
    BY <1>2 DEF Faithful, Here
  <1>5. ASSUME NEW q \in Runs \ {r}
        PROVE  Informed(q)' /\ Newest(q)' /\ Copying(q)' /\ Copied(q)'
    BY <1>1 DEF OthersRest, Resting, Informed, Newest, Copying, Copied
  <1>6. Informed(r)' /\ Newest(r)' /\ Copying(r)' /\ Copied(r)'
    BY DEF Here
  <1> QED BY <1>3, <1>4, <1>5, <1>6 DEF CarefulInv

\* A step of one run moves no other.
LEMMA RunIsLocal ==
    ASSUME TypeOK, NEW r \in Runs,
           Begin(r) \/ RunStep(r) \/ Kill(r) \/ Abandon(r) \/ Complete(r) \/ Reconfigure(r)
    PROVE  /\ \A q \in Runs \ {r} : pc'[q] = pc[q] /\ outcome'[q] = outcome[q]
           /\ UNCHANGED <<server, clock, acked>>
  <1> USE DEF TypeOK, End, Goto, world
  <1>1. CASE Begin(r) \/ Open(r) \/ List(r) \/ DryOne(r)
    BY <1>1 DEF Begin, Open, List, DryOne
  <1>2. CASE StatBackup(r) \/ MkStaging(r) \/ Migrate(r) \/ Verify(r)
    BY <1>2 DEF StatBackup, MkStaging, Migrate, Verify
  <1>3. CASE ToBackup(r) \/ Swap(r) \/ Cleanup(r) \/ Kill(r)
    BY <1>3 DEF ToBackup, Swap, Cleanup, Kill
  <1>4. CASE Abandon(r) \/ Complete(r) \/ Reconfigure(r)
    BY <1>4 DEF Abandon, Complete, Reconfigure
  <1> QED BY <1>1, <1>2, <1>3, <1>4 DEF RunStep

\* The steps of a run, by what they do to its own part of the invariant.
LEMMA BeginHere ==
    ASSUME TypeInv, Careful, NEW r \in Runs, Begin(r), Here(r)
    PROVE  Here(r)'
  <1> USE DEF TypeInv, TypeOK
  <1>1. /\ pc[r] = "idle" /\ outcome[r] = "none" /\ live # NoDir
        /\ UNCHANGED <<live, acked, server, backups, stamp>>
    BY DEF Begin, Here, world
  <1>2. /\ pc'[r] \in {"open", "done"} /\ outcome'[r] \in {"none", "refused"}
        /\ outcome'[r] # "none" => pc'[r] = "done"
        /\ job'[r].dry \/ server = "down"
    BY <1>1 DEF Begin, End, Goto
  <1>3. ~Torn(r)'
    BY <1>2 DEF Torn
  <1> QED
    BY <1>1, <1>2, <1>3 DEF Here, Informed, Newest, Copying, Copied

LEMMA PrepareHere ==
    ASSUME TypeInv, NEW r \in Runs, Open(r) \/ List(r) \/ DryOne(r), Here(r)
    PROVE  Here(r)'
  <1> USE DEF TypeInv, TypeOK
  <1>1. pc[r] \in {"open", "list", "dry"} /\ outcome[r] = "none"
    BY DEF Open, List, DryOne, Here
  <1>2. ~Torn(r) /\ live # NoDir
    BY <1>1 DEF Here, Torn
  <1>3. UNCHANGED <<live, acked, server, backups, stamp, identity, staging>>
    BY <1>2 DEF Open, OpenStore, List, DryOne, world
  <1>4. /\ pc'[r] \in {"list", "dry", "stat", "done"}
        /\ outcome'[r] \in {"none", "aborted", "reported"}
        /\ outcome'[r] # "none" => pc'[r] = "done"
        /\ job'[r].dry = job[r].dry
    BY <1>1 DEF Open, List, DryOne, End, Goto
  <1>5. /\ pc'[r] = "stat" => ~job[r].dry
        /\ pc'[r] # "done" => job'[r].old = identity
        /\ pc'[r] = "stat" => todo'[r] = Listed(live)
    <2>1. CASE Open(r)
      BY <2>1 DEF Open, End, Goto
    <2>2. CASE List(r)
      BY <2>2 DEF List, End, Goto, Here, Informed
    <2>3. CASE DryOne(r)
      BY <2>3 DEF DryOne, End, Goto, Here, Informed
    <2> QED BY <2>1, <2>2, <2>3
  <1>6. ~Torn(r)'
    BY <1>4 DEF Torn
  <1>7. job[r].dry \/ server = "down"
    BY <1>1 DEF Here, Active
  <1>8. Listed(live)' = Listed(live) /\ AckedIn(live)' = AckedIn(live)
    BY <1>3
  <1> QED
    BY <1>2, <1>3, <1>4, <1>5, <1>6, <1>7, <1>8
    DEF Here, Informed, Newest, Copying, Copied, Active

LEMMA StageHere ==
    ASSUME TypeInv, BackupsPast, NEW r \in Runs, StatBackup(r) \/ MkStaging(r), Here(r)
    PROVE  Here(r)'
  <1> USE DEF TypeInv, TypeOK
  <1>1. pc[r] \in {"stat", "stage"} /\ outcome[r] = "none"
    BY DEF StatBackup, MkStaging, Here
  <1>2. /\ ~Torn(r) /\ live # NoDir /\ ~job[r].dry /\ server = "down"
        /\ todo[r] = Listed(live) /\ job[r].old = identity
    BY <1>1 DEF Here, Torn, Informed, Copying, Active
  <1>3. UNCHANGED <<live, acked, server, backups, identity, todo, job>>
    BY DEF StatBackup, MkStaging, world, plan
  <1>4. /\ pc'[r] \in {"stage", "migrate", "done"}
        /\ outcome'[r] \in {"none", "aborted"}
        /\ outcome'[r] # "none" => pc'[r] = "done"
    BY <1>1 DEF StatBackup, MkStaging, End, Goto
  <1>5. ~Torn(r)'
    BY <1>4 DEF Torn
  <1>6. Newest(r)'
    <2>1. CASE StatBackup(r)
      <3>1. stamp'[r] = clock /\ clock \in Seconds
        BY <2>1 DEF StatBackup
      <3>2. \A t \in Seconds : t > clock => backups[t] = NoDir
        BY <3>1 DEF BackupsPast, Seconds
      <3> QED BY <1>3, <1>5, <3>1, <3>2 DEF Newest
    <2>2. CASE MkStaging(r)
      BY <1>1, <1>3, <1>5, <2>2 DEF MkStaging, plan, Here, Newest
    <2> QED BY <2>1, <2>2
  <1>7. Copying(r)'
    <2>1. CASE pc'[r] \in {"stage", "done"}
      BY <1>2, <1>3, <2>1 DEF Copying
    <2>2. CASE pc'[r] = "migrate"
      <3>1. staging'[r] = EmptyDir
        BY <1>1, <2>2 DEF StatBackup, MkStaging, End, Goto
      <3>2. \A n \in Names : staging'[r][n] = NoFile
        BY <3>1 DEF EmptyDir
      <3>3. todo'[r] = Listed(live)'
        BY <1>2, <1>3
      <3> QED BY <2>2, <3>2, <3>3 DEF Copying
    <2> QED BY <1>4, <2>1, <2>2
  <1>8. AckedIn(live)' = AckedIn(live)
    BY <1>3
  <1> QED
    BY <1>2, <1>3, <1>4, <1>5, <1>6, <1>7, <1>8 DEF Here, Informed, Copied

LEMMA MigrateHere ==
    ASSUME TypeInv, NEW r \in Runs, Migrate(r), Here(r)
    PROVE  Here(r)'
  <1> USE DEF TypeInv, TypeOK
  <1>1. pc[r] = "migrate" /\ outcome[r] = "none"
    BY DEF Migrate, Here
  <1>2. /\ ~Torn(r) /\ live # NoDir /\ ~job[r].dry /\ server = "down"
        /\ job[r].old = identity /\ todo[r] \subseteq Listed(live)
    BY <1>1 DEF Here, Torn, Informed, Copying, Active
  <1>3. UNCHANGED <<live, acked, server, backups, identity, todo, job, stamp>>
    BY DEF Migrate, world
  <1>4. /\ pc'[r] \in {"verify", "cleanup"}
        /\ outcome'[r] \in {"none", "aborted"}
        /\ outcome'[r] # "none" => pc'[r] = "cleanup"
    BY <1>1 DEF Migrate, End, Goto
  <1>5. ~Torn(r)'
    BY <1>4 DEF Torn
  <1>6. Newest(r)'
    BY <1>1, <1>3, <1>5 DEF Here, Newest
  <1>7. Copying(r)'
    <2>1. CASE pc'[r] = "cleanup"
      BY <2>1 DEF Copying
    <2>2. CASE pc'[r] = "verify"
      <3>0. PICK n \in todo[r] :
                /\ Migratable(r, n)
                /\ \E c \in {Rotated(n, live[n], job[r].new), Garbage} :
                        staging' = [staging EXCEPT ![r][n] = c]
                /\ checking' = [checking EXCEPT ![r] = n]
        BY <1>1, <2>2 DEF Migrate, End, Goto
      <3>1. PICK c \in {Rotated(n, live[n], job[r].new), Garbage} :
                /\ Migratable(r, n)
                /\ staging' = [staging EXCEPT ![r][n] = c]
                /\ checking' = [checking EXCEPT ![r] = n]
        BY <3>0
      <3>2. n \in Names /\ checking'[r] = n /\ Migrates(n, live[n], identity)
        BY <1>2, <3>1 DEF Migratable
      <3>3. staging[r] \in Contents
        BY <1>1 DEF RunInv, Staged
      <3>4. /\ staging'[r][n] = c
            /\ \A m \in Names : m # n => staging'[r][m] = staging[r][m]
        BY <3>1, <3>2, <3>3 DEF Contents
      <3>5. \A m \in Names :
                /\ m \notin Listed(live) => staging[r][m] = NoFile
                /\ m \in Listed(live) \ todo[r] =>
                        /\ Migrates(m, live[m], identity)
                        /\ staging[r][m] = Rotated(m, live[m], job[r].new)
        BY <1>1 DEF Here, Copying
      <3>6. n \in Listed(live)
        BY <1>2, <3>1
      <3>7. Listed(live)' = Listed(live)
        BY <1>3
      <3> QED BY <1>2, <1>3, <2>2, <3>1, <3>2, <3>4, <3>5, <3>6, <3>7 DEF Copying
    <2> QED BY <1>4, <2>1, <2>2
  <1>8. AckedIn(live)' = AckedIn(live)
    BY <1>3
  <1> QED
    BY <1>2, <1>3, <1>4, <1>5, <1>6, <1>7, <1>8 DEF Here, Informed, Copied

LEMMA VerifyHere ==
    ASSUME TypeInv, NEW r \in Runs, Verify(r), Here(r)
    PROVE  Here(r)'
  <1> USE DEF TypeInv, TypeOK
  <1>1. pc[r] = "verify" /\ outcome[r] = "none"
    BY DEF Verify, Here
  <1>2. /\ ~Torn(r) /\ live # NoDir /\ ~job[r].dry /\ server = "down"
        /\ job[r].old = identity /\ todo[r] \subseteq Listed(live)
    BY <1>1 DEF Here, Torn, Informed, Copying, Active
  <1>3. UNCHANGED <<live, acked, server, backups, identity, job, stamp, staging>>
    BY DEF Verify, world
  <1>4. /\ pc'[r] \in {"migrate", "cleanup"}
        /\ outcome'[r] \in {"none", "aborted"}
        /\ outcome'[r] # "none" => pc'[r] = "cleanup"
    BY <1>1 DEF Verify, End, Goto
  <1>5. ~Torn(r)'
    BY <1>4 DEF Torn
  <1>6. Newest(r)'
    BY <1>1, <1>3, <1>5 DEF Here, Newest
  <1>7. Copying(r)'
    <2>1. CASE pc'[r] = "cleanup"
      BY <2>1 DEF Copying
    <2>2. CASE pc'[r] = "migrate"
      <3> DEFINE n == checking[r]
      <3>1. /\ n \in todo[r] /\ Migrates(n, live[n], identity)
            /\ staging[r][n] \in {Rotated(n, live[n], job[r].new), Garbage}
        BY <1>1 DEF Here, Copying
      <3>2. /\ Decrypts(staging[r][n], {job[r].new})
            /\ todo'[r] = todo[r] \ {n}
        BY <1>1, <2>2 DEF Verify, End, Goto
      <3>3. Garbage \notin Ciphertexts
        BY MarkersAreNoCiphertexts DEF Ciphertexts
      <3>4. staging[r][n] = Rotated(n, live[n], job[r].new)
        BY <3>1, <3>2, <3>3 DEF Decrypts
      <3>5. \A m \in Names :
                /\ m \notin Listed(live) => staging[r][m] = NoFile
                /\ m \in Listed(live) \ todo[r] =>
                        /\ Migrates(m, live[m], identity)
                        /\ staging[r][m] = Rotated(m, live[m], job[r].new)
        BY <1>1 DEF Here, Copying
      <3>6. Listed(live)' = Listed(live)
        BY <1>3
      <3> HIDE DEF n
      <3>7. \A m \in Names :
                /\ m \notin Listed(live) => staging[r][m] = NoFile
                /\ m \in Listed(live) \ todo'[r] =>
                        /\ Migrates(m, live[m], identity)
                        /\ staging[r][m] = Rotated(m, live[m], job[r].new)
        BY <3>1, <3>2, <3>4, <3>5
      <3>8. todo'[r] \subseteq Listed(live)
        BY <1>2, <3>2
      <3> QED BY <1>3, <2>2, <3>6, <3>7, <3>8 DEF Copying
    <2> QED BY <1>4, <2>1, <2>2
  <1>8. AckedIn(live)' = AckedIn(live)
    BY <1>3
  <1> QED
    BY <1>2, <1>3, <1>4, <1>5, <1>6, <1>7, <1>8 DEF Here, Informed, Copied

\* The staged directory is the whole of the live one, when it is moved away.
LEMMA ToBackupHere ==
    ASSUME TypeInv, NEW r \in Runs, ToBackup(r), Here(r)
    PROVE  Here(r)'
  <1> USE DEF TypeInv, TypeOK
  <1>1. pc[r] = "migrate" /\ todo[r] = {} /\ outcome[r] = "none"
    BY DEF ToBackup, Here
  <1>2. /\ ~Torn(r) /\ live # NoDir /\ ~job[r].dry /\ server = "down"
        /\ job[r].old = identity /\ AckedIn(live) = acked
    BY <1>1 DEF Here, Torn, Informed, Active
  <1>3. UNCHANGED <<acked, server, identity, todo, job, stamp, staging>>
    BY DEF ToBackup, world, plan
  <1>4. CASE pc'[r] = "cleanup"
    <2>1. UNCHANGED <<live, backups>> /\ outcome'[r] = "aborted"
      BY <1>4 DEF ToBackup, End, Goto
    <2>2. ~Torn(r)'
      BY <1>4, <2>1 DEF Torn
    <2>3. AckedIn(live)' = AckedIn(live)
      BY <2>1
    <2> QED
      BY <1>2, <1>3, <1>4, <2>1, <2>2, <2>3 DEF Here, Informed, Newest, Copying, Copied
  <1>5. CASE pc'[r] # "cleanup"
    <2>1. /\ backups' = [backups EXCEPT ![stamp[r]] = live] /\ live' = NoDir
          /\ pc'[r] = "swap" /\ outcome' = outcome
      BY <1>5 DEF ToBackup, End, Goto
    <2>2. stamp[r] \in Seconds /\ backups'[stamp[r]] = live
      BY <2>1
    <2>3. Torn(r)'
      BY <2>1 DEF Torn
    <2>4. Newest(r)'
      BY <1>1, <1>2, <1>3, <2>1, <2>2 DEF Here, Newest, Seconds
    <2>5. /\ live \in Contents /\ staging[r] \in Contents
          /\ \A n \in Names :
                /\ n \notin Listed(live) => staging[r][n] = NoFile
                /\ n \in Listed(live) =>
                        /\ Migrates(n, live[n], identity)
                        /\ staging[r][n] = Rotated(n, live[n], job[r].new)
      BY <1>1, <1>2 DEF Here, Copying, RunInv, Staged
    <2>6. staging[r] = Moved(live, job[r].new)
      BY <2>5 DEF Moved, Contents, Listed
    <2>7. \A n \in Listed(live) : Migrates(n, live[n], identity)
      BY <2>5 DEF Listed
    <2>8. Copied(r)'
      <3>1. staging'[r] = Moved(backups'[stamp'[r]], job'[r].new)
        BY <1>3, <2>2, <2>6
      <3>2. \A n \in Listed(backups'[stamp'[r]]) : Migrates(n, backups'[stamp'[r]][n], identity')
        BY <1>3, <2>2, <2>7
      <3> QED BY <3>1, <3>2 DEF Copied, AllMigrate, Moved
    <2>9. AckedIn(backups[stamp[r]])' = acked'
      BY <1>2, <1>3, <2>2 DEF AckedIn
    <2> QED
      BY <1>1, <1>2, <1>3, <2>1, <2>3, <2>4, <2>8, <2>9 DEF Here, Informed, Copying
  <1> QED BY <1>4, <1>5

\* A rotation changes no value.
LEMMA MovedKeepsValues ==
    ASSUME NEW dir \in Contents, AllMigrate(dir), NEW new \in Keys
    PROVE  AckedIn(Moved(dir, new)) = AckedIn(dir)
  <1>1. NoFile \notin Ciphertexts
    BY MarkersAreNoCiphertexts DEF Ciphertexts
  <1>2. ASSUME NEW n \in Names
        PROVE  (IF Moved(dir, new)[n] \in Ciphertexts THEN Moved(dir, new)[n].value ELSE NoValue)
                 = (IF dir[n] \in Ciphertexts THEN dir[n].value ELSE NoValue)
    <2>1. CASE dir[n] = NoFile
      BY <1>1, <2>1 DEF Moved
    <2>2. CASE dir[n] # NoFile
      <3>1. dir[n] \in Ciphertexts
        BY <2>2 DEF AllMigrate, Listed, Migrates, Decrypts
      <3>2. Moved(dir, new)[n] = [key |-> new, bound |-> n, value |-> dir[n].value]
        BY <2>2 DEF Moved, Rotated
      <3>3. Moved(dir, new)[n] \in Ciphertexts
        BY <3>1, <3>2 DEF Ciphertexts
      <3> QED BY <3>1, <3>2, <3>3
    <2> QED BY <2>1, <2>2
  <1> QED BY <1>2 DEF AckedIn

LEMMA SwapHere ==
    ASSUME TypeInv, NEW r \in Runs, Swap(r), Here(r)
    PROVE  Here(r)'
  <1> USE DEF TypeInv, TypeOK
  <1>1. pc[r] = "swap" /\ outcome[r] = "none" /\ Torn(r) /\ ~job[r].dry
    BY DEF Swap, Here, Torn, Informed
  <1>2. /\ live = NoDir /\ server = "down" /\ AckedIn(backups[stamp[r]]) = acked
        /\ backups[stamp[r]] # NoDir /\ job[r].old = identity
    BY <1>1 DEF Here, Newest, Informed
  <1>3. UNCHANGED <<acked, server, identity, todo, job, stamp, backups>>
    BY DEF Swap, world, plan
  <1>4. pc'[r] = "cleanup"
    BY DEF Swap, End, Goto
  <1>5. CASE outcome'[r] = "critical"
    <2>1. UNCHANGED <<live, staging>>
      BY <1>5 DEF Swap, End
    <2>2. Torn(r)'
      BY <1>5 DEF Torn
    <2>3. Copied(r)'
      BY <1>1, <1>3, <2>1 DEF Here, Copied, AllMigrate, Moved
    <2>4. AckedIn(backups[stamp[r]])' = acked'
      BY <1>2, <1>3 DEF AckedIn
    <2>5. Newest(r)'
      BY <1>1, <1>3 DEF Here, Newest
    <2> QED
      BY <1>1, <1>2, <1>3, <1>4, <2>1, <2>2, <2>3, <2>4, <2>5 DEF Here, Informed, Copying
  <1>6. CASE outcome'[r] # "critical"
    <2>1. live' = staging[r] /\ outcome'[r] = "rotated"
      BY <1>6 DEF Swap, End
    <2>2. ~Torn(r)'
      BY <1>4, <2>1 DEF Torn
    <2>3. staging[r] # NoDir
      BY <1>1, RotationConstants DEF RunInv, Staged
    <2>4. AckedIn(staging[r]) = acked
      <3>1. /\ AllMigrate(backups[stamp[r]])
            /\ staging[r] = Moved(backups[stamp[r]], job[r].new)
        BY <1>1, <2>3 DEF Here, Copied
      <3>2. backups[stamp[r]] \in Contents /\ job[r].new \in Keys
        BY <1>1, <1>2 DEF RunInv, Targeted
      <3> QED BY <1>2, <3>1, <3>2, MovedKeepsValues
    <2>5. AckedIn(live)' = acked'
      BY <1>3, <2>1, <2>4 DEF AckedIn
    <2> QED
      BY <1>1, <1>2, <1>3, <1>4, <2>1, <2>2, <2>3, <2>5
      DEF Here, Informed, Newest, Copying, Copied
  <1> QED BY <1>5, <1>6

LEMMA EndHere ==
    ASSUME TypeInv, NEW r \in Runs, Cleanup(r) \/ Kill(r), Here(r)
    PROVE  Here(r)'
  <1> USE DEF TypeInv, TypeOK
  <1>1. UNCHANGED <<live, acked, server, identity, job, stamp, backups>>
    BY DEF Cleanup, Kill, world, plan
  <1>2. pc'[r] = "done" /\ Active(r)
    BY DEF Cleanup, Kill, End, Goto, Active
  <1>3. Torn(r)' <=> Torn(r)
    <2>1. CASE Cleanup(r)
      BY <2>1 DEF Cleanup, Goto, Torn
    <2>2. CASE Kill(r)
      BY <2>2 DEF Kill, End, Goto, Torn, Here
    <2> QED BY <2>1, <2>2
  <1>4. staging'[r] = NoDir \/ staging'[r] = staging[r]
    BY DEF Cleanup, Kill
  <1>5. Copied(r)'
    BY <1>1, <1>3, <1>4 DEF Here, Copied, AllMigrate, Moved
  <1>6. /\ Torn(r) => AckedIn(backups[stamp[r]])' = acked'
        /\ live # NoDir => AckedIn(live)' = acked'
    BY <1>1 DEF Here, AckedIn
  <1> QED
    BY <1>1, <1>2, <1>3, <1>5, <1>6 DEF Here, Informed, Newest, Copying, Active

LEMMA RepairHere ==
    ASSUME TypeInv, NEW r \in Runs, Abandon(r) \/ Complete(r), Here(r)
    PROVE  Here(r)'
  <1> USE DEF TypeInv, TypeOK
  <1>1. pc[r] = "done" /\ Torn(r)
    BY DEF Abandon, Complete, Broken, Torn
  <1>2. AckedIn(backups[stamp[r]]) = acked /\ backups[stamp[r]] # NoDir /\ server = "down"
    BY <1>1 DEF Here, Newest
  <1>3. UNCHANGED <<acked, server, identity, job, pc>>
    BY DEF Abandon, Complete, world, plan
  <1>4. outcome'[r] \in {"abandoned", "rotated"} /\ live' # NoDir
    BY <1>2 DEF Abandon, Complete
  <1>5. ~Torn(r)'
    BY <1>1, <1>3, <1>4 DEF Torn
  <1>6. AckedIn(live)' = acked'
    <2>1. CASE Abandon(r)
      BY <1>2, <1>3, <2>1 DEF Abandon, AckedIn
    <2>2. CASE Complete(r)
      <3>1. live' = staging[r] /\ staging[r] # NoDir
        BY <2>2 DEF Complete
      <3>2. /\ AllMigrate(backups[stamp[r]])
            /\ staging[r] = Moved(backups[stamp[r]], job[r].new)
        BY <1>1, <3>1 DEF Here, Copied
      <3>3. backups[stamp[r]] \in Contents /\ job[r].new \in Keys
        BY <1>1, <1>2 DEF RunInv, Targeted
      <3>4. AckedIn(staging[r]) = acked
        BY <1>2, <3>2, <3>3, MovedKeepsValues
      <3> QED BY <1>3, <3>1, <3>4 DEF AckedIn
    <2> QED BY <2>1, <2>2
  <1> QED
    BY <1>1, <1>2, <1>3, <1>4, <1>5, <1>6 DEF Here, Informed, Newest, Copying, Copied

LEMMA ReconfigureHere ==
    ASSUME TypeInv, Careful, NEW r \in Runs, Reconfigure(r), Here(r)
    PROVE  Here(r)'
  <1> USE DEF TypeInv, TypeOK
  <1>1. UNCHANGED <<live, backups, staging, server, pc, job, todo, checking, stamp, outcome, acked>>
    BY DEF Reconfigure, plan
  <1>2. pc[r] = "done" /\ ~Torn(r) /\ live # NoDir
    BY DEF Reconfigure, Here
  <1>3. ~Torn(r)' /\ AckedIn(live)' = acked'
    BY <1>1, <1>2 DEF Torn, Here, AckedIn
  <1> QED
    BY <1>1, <1>2, <1>3 DEF Here, Informed, Newest, Copying, Copied, Active

\* Steps of the server and of time.
LEMMA ServerCareful ==
    ASSUME TypeInv, Careful, CarefulInv, ServerOpen \/ ServerListen \/ ServerStop
    PROVE  CarefulInv'
  <1> USE DEF TypeInv, TypeOK
  <1>1. /\ UNCHANGED <<backups, staging, identity, clock, pc, plan, outcome, acked>>
        /\ server' # "down" => live # NoDir /\ \A r \in Runs : Active(r) => job[r].dry
        /\ live' = live
    BY DEF ServerOpen, ServerListen, ServerStop, OpenStore, CarefulInv, InTurn
  <1>2. \A r \in Runs : (Torn(r)' <=> Torn(r)) /\ (Active(r)' <=> Active(r))
    BY <1>1 DEF Torn, Active
  <1>3. InTurn'
    BY <1>1, <1>2 DEF InTurn, CarefulInv, plan
  <1>4. Faithful'
    BY <1>1, <1>2 DEF Faithful, CarefulInv, plan, AckedIn
  <1>5. ASSUME NEW r \in Runs PROVE Informed(r)' /\ Newest(r)'
    BY <1>1, <1>2 DEF CarefulInv, Informed, Newest, plan
  <1>6. ASSUME NEW r \in Runs PROVE Copying(r)' /\ Copied(r)'
    <2>1. Listed(live)' = Listed(live)
      BY <1>1
    <2>2. Copying(r)'
      BY <1>1, <2>1 DEF CarefulInv, Copying, plan
    <2>3. Copied(r)'
      BY <1>1, <1>2 DEF CarefulInv, Copied, AllMigrate, Moved, plan
    <2> QED BY <2>2, <2>3
  <1>7. BackupsPast'
    BY <1>1 DEF CarefulInv, BackupsPast, plan
  <1> QED BY <1>3, <1>4, <1>5, <1>6, <1>7 DEF CarefulInv

\* The value of the secret just set, or its absence.
LEMMA SetsAcked ==
    ASSUME NEW dir \in Contents, NEW n \in Names, NEW c \in Ciphertexts \cup {NoFile}
    PROVE  AckedIn([dir EXCEPT ![n] = c])
             = [AckedIn(dir) EXCEPT ![n] = IF c = NoFile THEN NoValue ELSE c.value]
  <1>1. NoFile \notin Ciphertexts
    BY MarkersAreNoCiphertexts DEF Ciphertexts
  <1>2. \A m \in Names : [dir EXCEPT ![n] = c][m] = IF m = n THEN c ELSE dir[m]
    BY DEF Contents
  <1> DEFINE Value(d, m) == IF d[m] \in Ciphertexts THEN d[m].value ELSE NoValue
  <1>3. /\ AckedIn(dir) = [m \in Names |-> Value(dir, m)]
        /\ AckedIn([dir EXCEPT ![n] = c]) = [m \in Names |-> Value([dir EXCEPT ![n] = c], m)]
    BY DEF AckedIn
  <1>4. ASSUME NEW m \in Names
        PROVE  Value([dir EXCEPT ![n] = c], m)
                 = IF m = n THEN (IF c = NoFile THEN NoValue ELSE c.value) ELSE Value(dir, m)
    <2>1. CASE m = n
      BY <1>1, <1>2, <2>1
    <2>2. CASE m # n
      BY <1>2, <2>2
    <2> QED BY <2>1, <2>2
  <1> HIDE DEF Value
  <1> QED BY <1>3, <1>4

\* A client's request changes one secret, and tells of it.
LEMMA ChangesOne ==
    ASSUME TypeInv, live # NoDir, Set \/ Delete
    PROVE  \E n \in Names, c \in Ciphertexts \cup {NoFile} :
                /\ live' = [live EXCEPT ![n] = c]
                /\ acked' = [acked EXCEPT ![n] = IF c = NoFile THEN NoValue ELSE c.value]
  <1> USE DEF TypeInv, TypeOK
  <1>1. NoFile \notin Ciphertexts
    BY MarkersAreNoCiphertexts DEF Ciphertexts
  <1>2. CASE Set
    <2>1. PICK n \in Names \ Invalid, k \in identity, v \in Values :
              /\ live' = [live EXCEPT ![n] = [key |-> k, bound |-> n, value |-> v]]
              /\ acked' = [acked EXCEPT ![n] = v]
      BY <1>2 DEF Set
    <2> DEFINE c == [key |-> k, bound |-> n, value |-> v]
    <2>2. c \in Ciphertexts /\ c.value = v /\ c # NoFile
      BY <1>1 DEF Ciphertexts
    <2> HIDE DEF c
    <2>3. live' = [live EXCEPT ![n] = c]
      BY <2>1 DEF c
    <2> QED BY <2>1, <2>2, <2>3
  <1>3. CASE Delete
    BY <1>3 DEF Delete, Listed
  <1> QED BY <1>2, <1>3

\* While the server accepts changes, no run has more than begun.
LEMMA ClientCareful ==
    ASSUME TypeInv, CarefulInv, Set \/ Delete
    PROVE  CarefulInv'
  <1> USE DEF TypeInv, TypeOK
  <1>1. /\ UNCHANGED <<backups, staging, identity, server, clock, pc, plan, outcome>>
        /\ server = "up"
    BY DEF Set, Delete
  <1>2. \A r \in Runs : ~Torn(r) /\ (Active(r) => job[r].dry)
    BY <1>1 DEF CarefulInv, InTurn
  <1>3. live # NoDir /\ AckedIn(live) = acked
    BY <1>2 DEF CarefulInv, InTurn, Faithful
  <1>4. PICK n \in Names, c \in Ciphertexts \cup {NoFile} :
            /\ live' = [live EXCEPT ![n] = c]
            /\ acked' = [acked EXCEPT ![n] = IF c = NoFile THEN NoValue ELSE c.value]
    BY <1>3, ChangesOne
  <1>5. live' \in Contents
    BY <1>3, <1>4 DEF Contents
  <1>6. AckedIn(live') = acked'
    BY <1>3, <1>4, SetsAcked
  <1>7. \A r \in Runs : ~Torn(r)' /\ (Active(r)' <=> Active(r))
    BY <1>1, <1>2 DEF Torn, Active
  <1>8. InTurn'
    BY <1>1, <1>2, <1>5, <1>7, RotationConstants DEF InTurn, CarefulInv, plan
  <1>9. Faithful'
    BY <1>6, <1>7 DEF Faithful, AckedIn
  <1>10. ASSUME NEW r \in Runs PROVE Informed(r)' /\ Newest(r)' /\ Copying(r)' /\ Copied(r)'
    <2>1. pc[r] \notin {"stat", "stage", "migrate", "verify", "swap", "cleanup"}
      BY <1>2 DEF CarefulInv, Informed, Active
    <2>2. pc'[r] = pc[r] /\ job'[r] = job[r]
      BY <1>1 DEF plan
    <2>3. Informed(r)
      BY DEF CarefulInv
    <2> QED BY <1>1, <1>7, <2>1, <2>2, <2>3 DEF Informed, Newest, Copying, Copied
  <1>11. BackupsPast'
    BY <1>1 DEF CarefulInv, BackupsPast, plan
  <1> QED BY <1>8, <1>9, <1>10, <1>11 DEF CarefulInv

LEMMA IdleCareful ==
    ASSUME TypeInv, CarefulInv, Tick \/ UNCHANGED vars
    PROVE  CarefulInv'
  <1> USE DEF TypeInv, TypeOK
  <1>1. /\ UNCHANGED <<live, backups, staging, identity, server, pc, plan, outcome, acked>>
        /\ clock' >= clock
    BY DEF Tick, vars, plan, Seconds
  <1>2. \A r \in Runs : (Torn(r)' <=> Torn(r)) /\ (Active(r)' <=> Active(r))
    BY <1>1 DEF Torn, Active
  <1>3. InTurn'
    BY <1>1, <1>2 DEF InTurn, CarefulInv, plan
  <1>4. Faithful'
    BY <1>1, <1>2 DEF Faithful, CarefulInv, plan, AckedIn
  <1>5. ASSUME NEW r \in Runs PROVE Informed(r)' /\ Newest(r)'
    BY <1>1, <1>2 DEF CarefulInv, Informed, Newest, plan
  <1>6. ASSUME NEW r \in Runs PROVE Copying(r)' /\ Copied(r)'
    <2>1. Listed(live)' = Listed(live)
      BY <1>1
    <2>2. Copying(r)'
      BY <1>1, <2>1 DEF CarefulInv, Copying, plan
    <2>3. Copied(r)'
      BY <1>1, <1>2 DEF CarefulInv, Copied, AllMigrate, Moved, plan
    <2> QED BY <2>2, <2>3
  <1>7. BackupsPast'
    <2>1. backups' = backups /\ stamp' = stamp /\ clock \in Nat /\ clock' \in Nat
      BY <1>1, RotationConstants DEF plan, Seconds, Tick, vars
    <2>2. /\ \A s \in Seconds : s \in Nat
          /\ \A r \in Runs : stamp[r] \in Nat
      BY RotationConstants DEF Seconds
    <2> QED BY <1>1, <2>1, <2>2 DEF CarefulInv, BackupsPast
  <1> QED BY <1>3, <1>4, <1>5, <1>6, <1>7 DEF CarefulInv

\* The clock is ahead of every backup a run makes.
LEMMA RunPast ==
    ASSUME TypeInv, BackupsPast, NEW r \in Runs,
           Begin(r) \/ RunStep(r) \/ Kill(r) \/ Abandon(r) \/ Complete(r) \/ Reconfigure(r)
    PROVE  BackupsPast'
  <1> USE DEF TypeInv, TypeOK, BackupsPast, Seconds
  <1>0. clock' = clock
    BY RunIsLocal
  <1>1. CASE UNCHANGED <<backups, stamp>>
    BY <1>0, <1>1
  <1>2. CASE StatBackup(r)
    BY <1>0, <1>2 DEF StatBackup
  <1>3. CASE ToBackup(r)
    BY <1>0, <1>3 DEF ToBackup, plan
  <1>4. CASE Abandon(r)
    BY <1>0, <1>4 DEF Abandon, plan
  <1> QED
    BY <1>1, <1>2, <1>3, <1>4
    DEF RunStep, Begin, Open, List, DryOne, MkStaging, Migrate, Verify, Swap, Cleanup, Kill,
        Complete, Reconfigure, plan

LEMMA NextCareful == Careful /\ TypeInv /\ CarefulInv /\ [Next]_vars => CarefulInv'
  <1> SUFFICES ASSUME Careful, TypeInv, CarefulInv, [Next]_vars PROVE CarefulInv' OBVIOUS
  <1>1. ASSUME NEW r \in Runs,
               \/ Begin(r) \/ RunStep(r) \/ Kill(r)
               \/ Abandon(r) \/ Complete(r) \/ Reconfigure(r)
        PROVE  CarefulInv'
    <2>1. Active(r) \/ Torn(r) \/ (live # NoDir /\ \A q \in Runs : ~Active(q))
      BY <1>1
      DEF Begin, RunStep, Open, List, DryOne, StatBackup, MkStaging, Migrate, Verify, ToBackup,
          Swap, Cleanup, Kill, Abandon, Complete, Broken, Reconfigure, Active, Torn
    <2>2. Here(r) /\ OthersRest(r) /\ BackupsPast
      BY <2>1, Alone
    <2>3. Here(r)'
      BY <1>1, <2>2, BeginHere, PrepareHere, StageHere, MigrateHere, VerifyHere, ToBackupHere,
         SwapHere, EndHere, RepairHere, ReconfigureHere DEF RunStep
    <2>4. BackupsPast'
      BY <1>1, <2>2, RunPast
    <2>5. \A q \in Runs \ {r} : pc'[q] = pc[q] /\ outcome'[q] = outcome[q]
      BY <1>1, RunIsLocal DEF TypeInv
    <2> QED BY <2>2, <2>3, <2>4, <2>5, TogetherNext
  <1>2. CASE ServerOpen \/ ServerListen \/ ServerStop
    BY <1>2, ServerCareful
  <1>3. CASE Set \/ Delete
    BY <1>3, ClientCareful
  <1>4. CASE Tick \/ UNCHANGED vars
    BY <1>4, IdleCareful
  <1> QED BY <1>1, <1>2, <1>3, <1>4 DEF Next

LEMMA InitCareful == Init => CarefulInv
  <1> SUFFICES ASSUME Init PROVE CarefulInv OBVIOUS
  <1>1. live \in Contents /\ live # NoDir
    BY RotationConstants DEF Init, Contents
  <1>2. \A r \in Runs : ~Torn(r) /\ ~Active(r)
    BY DEF Init, Torn, Active
  <1> QED
    BY <1>1, <1>2, RotationConstants
    DEF Init, CarefulInv, InTurn, BackupsPast, Faithful, Informed, Newest, Copying, Copied,
        Seconds

\* For an operator who stops the server first, runs one rotation at a time and
\* recovers before going on, a server that is up serves exactly what its users
\* were told is stored, whatever runs were aborted, killed or left torn.
THEOREM ServedAsAcked == ASSUME Careful PROVE Spec => []ServesAcked
  <1>1. CarefulInv => ServesAcked
    BY DEF CarefulInv, InTurn, Faithful, ServesAcked
  <1> QED
    BY <1>1, InitTypeInv, NextTypeInv, InitCareful, NextCareful, PTL DEF Spec

\* For a careful operator, and whatever was aborted, killed and repaired before,
\* a run that reports success has left no acknowledged secret behind.
THEOREM SuccessLosesNone == ASSUME Careful PROVE Spec => SuccessIsComplete
  <1>1. TypeInv /\ TypeInv' /\ CarefulInv' /\ [Next]_vars =>
          [\A r \in Runs : Swapping(r) =>
              \A n \in Names : acked[n] # NoValue => Holds(live', n, acked[n])]_vars
    <2> SUFFICES ASSUME TypeInv, TypeInv', CarefulInv', Next, NEW r \in Runs, Swapping(r),
                        NEW n \in Names, acked[n] # NoValue
                 PROVE  Holds(live', n, acked[n])
      BY DEF vars
    <2>1. live' # NoDir /\ acked' = acked
      BY SwappingIsSwap, RotationConstants
      DEF TypeInv, RunInv, Staged, Swapping, Contents
    <2>2. AckedIn(live') = acked
      BY <2>1 DEF CarefulInv, Faithful
    <2>3. AckedIn(live')[n] = IF live'[n] \in Ciphertexts THEN live'[n].value ELSE NoValue
      BY DEF AckedIn
    <2> QED BY <2>1, <2>2, <2>3 DEF Holds
  <1> QED
    BY <1>1, InitTypeInv, NextTypeInv, InitCareful, NextCareful, PTL
    DEF Spec, SuccessIsComplete

-----------------------------------------------------------------------------
\* The rotation is atomic: what an operator would call the user's secrets
\* changes by the abstract steps only.

\* The choice in "Latest" has one candidate, when there is a newest backup.
LEMMA NewestIsLatest ==
    ASSUME NEW b, NEW s \in Seconds, b[s] # NoDir,
           \A t \in Seconds : t > s => b[t] = NoDir
    PROVE  (CHOOSE u \in Seconds : b[u] # NoDir /\ \A t \in Seconds : t > u => b[t] = NoDir) = s
  <1>1. \A u \in Seconds :
            b[u] # NoDir /\ (\A t \in Seconds : t > u => b[t] = NoDir) => u = s
    BY RotationConstants DEF Seconds
  <1> QED BY <1>1

\* Between the two renames the operator's view is the backup just made.
LEMMA TornView ==
    ASSUME TypeOK, CarefulInv, NEW r \in Runs, Torn(r)
    PROVE  live = NoDir /\ View = backups[stamp[r]]
  <1>1. live = NoDir
    BY DEF CarefulInv, InTurn
  <1>2. /\ stamp[r] \in Seconds /\ backups[stamp[r]] # NoDir
        /\ \A t \in Seconds : t > stamp[r] => backups[t] = NoDir
    BY DEF TypeOK, CarefulInv, Newest
  <1>3. Latest = stamp[r]
    BY <1>2, NewestIsLatest DEF Latest
  <1> QED BY <1>1, <1>3 DEF View

LEMMA SameView ==
    ASSUME live' = live, backups' = backups \/ live # NoDir
    PROVE  View' = View
  <1>1. CASE live # NoDir
    BY <1>1 DEF View
  <1>2. CASE backups' = backups
    BY <1>2 DEF View, Latest
  <1> QED BY <1>1, <1>2

\* What the abstract operator sees nothing of.
LEMMA Unseen ==
    ASSUME View' = View, identity' = identity, server' = server
    PROVE  UNCHANGED Promise!vars
  BY DEF Promise!vars

\* The second rename, and its repair by hand, are the rotation.
LEMMA MovedIn ==
    ASSUME TypeInv, CarefulInv, NEW r \in Runs, Torn(r),
           staging[r] # NoDir, live' = staging[r], identity' = identity, server' = server
    PROVE  Promise!Rotate(job[r].new) /\ job[r].new \in Keys
  <1>1. View = backups[stamp[r]]
    BY TornView DEF TypeInv
  <1>2. AllMigrate(View) /\ View' = Moved(View, job[r].new)
    BY <1>1 DEF CarefulInv, Copied, View
  <1>3. server = "down"
    BY DEF CarefulInv, InTurn
  <1>4. job[r].new \in Keys
    <2>1. pc[r] # "idle"
      BY DEF Torn, CarefulInv, InTurn
    <2> QED BY <2>1 DEF TypeInv, RunInv, Targeted
  <1> HIDE DEF View
  <1>5. \A n \in Promise!Listed(View) : Promise!Migrates(n, View[n], identity)
    BY <1>2 DEF AllMigrate, Listed, Migrates, Decrypts, Ciphertexts,
        Promise!Listed, Promise!Migrates, Promise!Decrypts, Promise!Ciphertexts
  <1>6. View' = [n \in Names |-> IF View[n] = NoFile THEN NoFile
                                 ELSE Promise!Rotated(n, View[n], job[r].new)]
    BY <1>2 DEF Moved, Rotated, Promise!Rotated
  <1> QED BY <1>3, <1>4, <1>5, <1>6 DEF Promise!Rotate

LEMMA RotationMaps ==
    ASSUME Careful, TypeInv, CarefulInv, TypeInv', CarefulInv', NEW r \in Runs,
           \/ Begin(r) \/ RunStep(r) \/ Kill(r)
           \/ Abandon(r) \/ Complete(r) \/ Reconfigure(r)
    PROVE  [Promise!Next]_(Promise!vars)
  <1>0. server' = server
    BY RunIsLocal DEF TypeInv
  <1>1. CASE \/ Begin(r) \/ Open(r) \/ List(r) \/ DryOne(r) \/ StatBackup(r) \/ MkStaging(r)
             \/ Migrate(r) \/ Verify(r) \/ Cleanup(r) \/ Kill(r)
    <2>1. live' = live
      <3>1. CASE Open(r)
        <4>1. Active(r) /\ ~Torn(r)
          BY <3>1 DEF Open, Active, Torn, CarefulInv, InTurn
        <4>2. live # NoDir
          BY <4>1 DEF CarefulInv, InTurn
        <4> QED BY <3>1, <4>2 DEF Open, OpenStore
      <3>2. CASE ~Open(r)
        BY <1>1, <3>2 DEF Begin, List, DryOne, StatBackup, MkStaging, Migrate, Verify, Cleanup, Kill
      <3> QED BY <3>1, <3>2
    <2>2. backups' = backups /\ identity' = identity
      BY <1>1
      DEF Begin, Open, List, DryOne, StatBackup, MkStaging, Migrate, Verify, Cleanup, Kill, world
    <2> QED BY <1>0, <2>1, <2>2, SameView, Unseen
  <1>2. CASE ToBackup(r)
    <2>1. CASE UNCHANGED <<live, backups>>
      BY <1>0, <1>2, <2>1, SameView, Unseen DEF ToBackup, world
    <2>2. CASE ~UNCHANGED <<live, backups>>
      <3>1. /\ live # NoDir /\ backups' = [backups EXCEPT ![stamp[r]] = live]
            /\ pc'[r] = "swap" /\ stamp' = stamp /\ identity' = identity
        BY <1>2, <2>2 DEF ToBackup, world, plan, Goto, TypeInv, TypeOK
      <3>2. Torn(r)'
        BY <3>1 DEF Torn
      <3>3. View' = backups'[stamp'[r]]
        <4>1. TypeOK'
          BY DEF TypeInv
        <4>2. live' = NoDir
          BY <3>2 DEF CarefulInv, InTurn
        <4>3. /\ stamp'[r] \in Seconds /\ backups'[stamp'[r]] # NoDir
              /\ \A t \in Seconds : t > stamp'[r] => backups'[t] = NoDir
          BY <3>2, <4>1 DEF TypeOK, CarefulInv, Newest
        <4>4. Latest' = stamp'[r]
          BY <4>3, NewestIsLatest DEF Latest
        <4> QED BY <4>2, <4>4 DEF View
      <3>4. backups'[stamp'[r]] = live
        BY <3>1 DEF TypeInv, TypeOK
      <3>5. View = live
        BY <3>1 DEF View
      <3> QED BY <1>0, <3>1, <3>3, <3>4, <3>5, Unseen
    <2> QED BY <2>1, <2>2
  <1>3. CASE Swap(r)
    <2>1. identity' = identity /\ Torn(r)
      BY <1>3 DEF Swap, world, Torn
    <2>2. CASE UNCHANGED <<live, backups>>
      BY <1>0, <2>1, <2>2, SameView, Unseen
    <2>3. CASE ~UNCHANGED <<live, backups>>
      <3>1. live' = staging[r]
        BY <1>3, <2>3 DEF Swap
      <3>2. staging[r] # NoDir
        BY <1>3, RotationConstants DEF Swap, TypeInv, RunInv, Staged
      <3>3. Promise!Rotate(job[r].new) /\ job[r].new \in Keys
        BY <1>0, <2>1, <3>1, <3>2, MovedIn
      <3> QED BY <3>3 DEF Promise!Next
    <2> QED BY <2>2, <2>3
  <1>4. CASE Abandon(r)
    <2>1. Torn(r) /\ live' = backups[stamp[r]] /\ live' # NoDir /\ identity' = identity
      BY <1>4 DEF Abandon, Broken, Torn, world
    <2>2. View = backups[stamp[r]]
      BY <2>1, TornView DEF TypeInv
    <2>3. View' = live'
      BY <2>1 DEF View
    <2> QED BY <1>0, <2>1, <2>2, <2>3, Unseen
  <1>5. CASE Complete(r)
    <2>1. Torn(r) /\ live' = staging[r] /\ staging[r] # NoDir /\ identity' = identity
      BY <1>5 DEF Complete, Broken, Torn, world
    <2>2. Promise!Rotate(job[r].new) /\ job[r].new \in Keys
      BY <1>0, <2>1, MovedIn
    <2> QED BY <2>2 DEF Promise!Next
  <1>6. CASE Reconfigure(r)
    <2>1. /\ live' = live /\ backups' = backups /\ identity' = {job[r].new}
          /\ job[r].new \in Keys
      BY <1>6 DEF Reconfigure, TypeInv, RunInv, Targeted
    <2>2. View' = View
      BY <2>1, SameView
    <2>3. Promise!Configure
      BY <1>0, <2>1, <2>2 DEF Promise!Configure
    <2> QED BY <2>3 DEF Promise!Next
  <1> QED BY <1>1, <1>2, <1>3, <1>4, <1>5, <1>6 DEF RunStep

LEMMA ServerMaps ==
    ASSUME Careful, TypeInv, CarefulInv,
           ServerOpen \/ ServerListen \/ ServerStop \/ Tick \/ UNCHANGED vars
    PROVE  [Promise!Next]_(Promise!vars)
  <1>1. live' = live /\ backups' = backups /\ identity' = identity
    BY DEF ServerOpen, ServerListen, ServerStop, Tick, OpenStore, vars
  <1>2. View' = View
    BY <1>1, SameView
  <1>3. CASE (server' = "up") = (server = "up")
    <2>1. UNCHANGED Promise!vars
      BY <1>1, <1>2, <1>3 DEF Promise!vars
    <2> QED BY <2>1
  <1>4. CASE (server' = "up") # (server = "up")
    <2>1. Promise!Toggle
      BY <1>1, <1>2, <1>4 DEF Promise!Toggle
    <2> QED BY <2>1 DEF Promise!Next
  <1> QED BY <1>3, <1>4

LEMMA ClientMaps ==
    ASSUME TypeInv, CarefulInv, Set \/ Delete
    PROVE  [Promise!Next]_(Promise!vars)
  <1>1. server = "up" /\ server' = server /\ identity' = identity
    BY DEF Set, Delete
  <1>2. live # NoDir
    BY <1>1 DEF CarefulInv, InTurn
  <1>3. live' # NoDir
    <2>1. live \in Contents
      BY <1>2 DEF TypeInv, TypeOK
    <2>2. PICK n \in Names, c \in Ciphertexts \cup {NoFile} : live' = [live EXCEPT ![n] = c]
      BY <1>2, ChangesOne
    <2>3. live' \in Contents
      BY <2>1, <2>2 DEF Contents
    <2> QED BY <2>3, RotationConstants
  <1>4. View = live /\ View' = live'
    BY <1>2, <1>3 DEF View
  <1>5. CASE Set
    <2>1. \E n \in Names \ Invalid, k \in identity, v \in Values :
            live' = [live EXCEPT ![n] = [key |-> k, bound |-> n, value |-> v]]
      BY <1>2, <1>5 DEF Set
    <2>2. Promise!Set
      BY <1>1, <1>4, <2>1 DEF Promise!Set
    <2> QED BY <2>2 DEF Promise!Next
  <1>6. CASE Delete
    <2>1. \E n \in Promise!Listed(live) \ Invalid : live' = [live EXCEPT ![n] = NoFile]
      BY <1>6 DEF Delete, Listed, Promise!Listed
    <2>2. Promise!Delete
      BY <1>1, <1>4, <2>1 DEF Promise!Delete
    <2> QED BY <2>2 DEF Promise!Next
  <1> QED BY <1>5, <1>6

\* For an operator who stops the server first, runs one rotation at a time and
\* recovers before going on, a rotation is one atomic step or none: through
\* aborts, kills, a failing second rename (the CRITICAL message) and either of
\* its two repairs, the user's secrets are all under the old identity or all
\* under the new one, with the same names and values.
THEOREM RotationIsAtomic == ASSUME Careful PROVE Spec => AllOrNothing
  <1>1. Init => Promise!Init
    <2> SUFFICES ASSUME Init PROVE Promise!Init OBVIOUS
    <2>1. live # NoDir
      BY RotationConstants DEF Init, Contents
    <2>2. View = live
      BY <2>1 DEF View
    <2>3. live \in [Names -> Promise!Ciphertexts \cup {NoFile}]
      BY DEF Init, Ciphertexts, Promise!Ciphertexts
    <2> QED BY <2>2, <2>3 DEF Init, Promise!Init
  <1>2. /\ TypeInv /\ CarefulInv /\ [Next]_vars
        /\ TypeInv' /\ CarefulInv'
        => [Promise!Next]_(Promise!vars)
    <2> SUFFICES ASSUME TypeInv, CarefulInv, [Next]_vars, TypeInv', CarefulInv'
                 PROVE  [Promise!Next]_(Promise!vars)
      OBVIOUS
    <2> QED BY RotationMaps, ServerMaps, ClientMaps DEF Next
  <1> QED
    BY <1>1, <1>2, InitTypeInv, NextTypeInv, InitCareful, NextCareful, PTL
    DEF Spec, AllOrNothing, Promise!Spec

=============================================================================
