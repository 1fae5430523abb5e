--------------------------- MODULE StartupProofs ---------------------------
(***************************************************************************)
(* Proofs about Startup for every set of names, entries and configurations *)
(* and without a bound on what the operator and others do: the shape of    *)
(* the state, the three safety properties, and what can stop a start.      *)
(* They rest on one invariant: whatever will make the scan refuse is still *)
(* to be looked at or has been seen, and the tenants of a start are a      *)
(* valid set.                                                              *)
(***************************************************************************)
EXTENDS Startup, FiniteSetTheorems, TLAPS

-----------------------------------------------------------------------------
\* The shape of the state, each part by itself.

\* The users of a server are users.
LEMMA ServerUsersTyped ==
    ASSUME NEW c \in Configs
    PROVE  ServerUsers(c) \in Seq(User)
  <1>1. /\ c.users \in Seq(User)
        /\ c.env \in [name : UserNames \cup {Unset}, token : Tokens \cup {Unset}]
    BY StartupConstants
  <1>2. CASE Unset \in {c.env.name, c.env.token}
    BY <1>1, <1>2 DEF ServerUsers, Merged
  <1>3. CASE Unset \notin {c.env.name, c.env.token}
    <2>1. c.env \in User BY <1>1, <1>3 DEF User
    <2> QED BY <1>1, <1>3, <2>1 DEF ServerUsers, Merged
  <1> QED BY <1>2, <1>3

\* A tenant's directory is an entry, and no sibling.
LEMMA RootTyped ==
    ASSUME NEW users \in Seq(User), NEW i \in DOMAIN users
    PROVE  /\ users[i].name \in UserNames
           /\ Root[users[i].name] \in Entries \ Siblings
  <1>1. users[i] \in User OBVIOUS
  <1>2. users[i].name \in UserNames BY <1>1 DEF User
  <1> QED BY <1>2, StartupConstants

\* A change of one entry keeps the base's type.
LEMMA BecomesTyped ==
    ASSUME NEW e \in Entries, NEW kind \in Kinds,
           base \in [Entries -> Kinds], stuck \subseteq Entries, Becomes(e, kind)
    PROVE  base' \in [Entries -> Kinds] /\ stuck' \subseteq Entries
  BY DEF Becomes

Rotations ==
    [pc : {"idle", "bound", "open", "stage", "migrate", "backup", "swap", "cleanup"},
     mode : {"real", "dry", "aimless"}, root : Entries, staging : Entries]

LEMMA NoRotationTyped == NoRotation \in Rotations
  <1>1. AnyEntry \in Entries BY StartupConstants DEF AnyEntry
  <1> QED BY <1>1 DEF NoRotation, Rotations

\* Progress of a rotation keeps its type.
LEMMA RotationToTyped ==
    ASSUME rotation \in Rotations,
           NEW step \in {"idle", "bound", "open", "stage", "migrate", "backup", "swap",
                         "cleanup"},
           RotationTo(step)
    PROVE  rotation' \in Rotations
  BY DEF RotationTo, Rotations

\* So does its beginning.
LEMMA TargetsTyped ==
    ASSUME config \in Configs
    PROVE  Targets \subseteq Entries
  <1>1. \A users \in Seq(User) : \A j \in DOMAIN users : Root[users[j].name] \in Entries
    BY RootTyped
  <1>2. ServerUsers(config) \in Seq(User) BY ServerUsersTyped
  <1> QED BY <1>1, <1>2 DEF Targets

LEMMA BeginsTyped ==
    ASSUME rotation \in Rotations, config \in Configs,
           NEW mode \in {"real", "dry"}, NEW step \in {"bound", "open"}, Begins(mode, step)
    PROVE  rotation' \in Rotations
  BY TargetsTyped DEF Begins, Rotations

LEMMA SurpriseTyped ==
    ASSUME surprises \in 0 .. MaxSurprises, Surprise
    PROVE  surprises' \in 0 .. MaxSurprises
  BY StartupConstants DEF Surprise

-----------------------------------------------------------------------------
\* TypeOK is inductive.

LEMMA TypeInit == Init => TypeOK
  <1>1. MaxSurprises \in Nat BY StartupConstants
  <1>2. << >> \in Seq(User) OBVIOUS
  <1> SUFFICES ASSUME Init PROVE TypeOK
    OBVIOUS
  <1>3. tenants \in Seq(User) /\ surprises \in 0 .. MaxSurprises BY <1>1, <1>2 DEF Init
  <1>4. rotation \in Rotations BY NoRotationTyped DEF Init
  <1>5. base \in [Entries -> Kinds] BY DEF Init, Kinds
  <1>6. config \in Configs /\ wanted \in BOOLEAN /\ pc = "down" BY DEF Init
  <1>7. /\ pending \subseteq Entries /\ offenders \subseteq Entries
        /\ made \subseteq Entries /\ stuck \subseteq Entries
    BY DEF Init
  <1>8. next \in Nat \ {0} BY DEF Init
  <1>9. disturbed \in BOOLEAN BY DEF Init
  <1> QED BY <1>3, <1>4, <1>5, <1>6, <1>7, <1>8, <1>9 DEF TypeOK, Rotations

LEMMA TypeNext == TypeOK /\ [Next]_vars => TypeOK'
  <1> SUFFICES ASSUME TypeOK, [Next]_vars PROVE TypeOK'
    OBVIOUS
  <1>r. rotation \in Rotations BY DEF TypeOK, Rotations
  <1>k. \A kind \in {"absent", "empty", "full"} : kind \in Kinds BY DEF Kinds
  <1>1. CASE Start
    <2>1. ServerUsers(config) \in Seq(User) BY ServerUsersTyped DEF TypeOK
    <2>2. pc' \in {"readdir", "refused"} /\ tenants' \in Seq(User) BY <1>1, <2>1 DEF Start
    <2>3. pending' = {} /\ offenders' = {} /\ next' \in Nat \ {0} /\ made' = {}
      BY <1>1 DEF Start, Reset
    <2> QED BY <1>1, <2>2, <2>3 DEF Start, TypeOK
  <1>2. CASE ReadDir
    BY <1>2 DEF ReadDir, TypeOK
  <1>3. CASE StatEntry
    BY <1>3 DEF StatEntry, TypeOK, history
  <1>4. CASE Verdict
    BY <1>4 DEF Verdict, TypeOK, history
  <1>5. CASE CreateStore
    <2> DEFINE e == Root[tenants[next].name]
    <2>1. e \in Entries BY <1>5, RootTyped DEF CreateStore, TypeOK
    <2>2. base' \in [Entries -> Kinds] /\ stuck' \subseteq Entries
      <3>1. CASE base' = base /\ stuck' = stuck BY <3>1 DEF TypeOK
      <3>2. CASE Becomes(e, "empty")
        BY <3>2, <2>1, <1>k, BecomesTyped DEF TypeOK
      <3> HIDE DEF e
      <3> QED BY <1>5, <3>1, <3>2 DEF CreateStore, history, e
    <2>3. made' \subseteq Entries BY <1>5, <2>1 DEF CreateStore, TypeOK
    <2>4. surprises' \in 0 .. MaxSurprises
      <3>1. CASE surprises' = surprises BY <3>1 DEF TypeOK
      <3>2. CASE Surprise BY <3>2, SurpriseTyped DEF TypeOK
      <3> QED BY <1>5, <3>1, <3>2 DEF CreateStore
    <2>5. pc' \in {"create", "refused"} /\ disturbed' \in BOOLEAN
      BY <1>5 DEF CreateStore, TypeOK, history
    <2>6. next' \in Nat \ {0}
      <3>1. next \in Nat \ {0} BY DEF TypeOK
      <3>2. next' = next \/ next' = next + 1 BY <1>5 DEF CreateStore
      <3> QED BY <3>1, <3>2
    <2> QED BY <1>5, <2>2, <2>3, <2>4, <2>5, <2>6 DEF CreateStore, TypeOK
  <1>6. CASE Listen
    BY <1>6 DEF Listen, TypeOK, history
  <1>7. CASE Handle
    <2>1. PICK i \in DOMAIN tenants :
            Becomes(Root[tenants[i].name], "full") \/ Becomes(Root[tenants[i].name], "empty")
      BY <1>7 DEF Handle
    <2>2. Root[tenants[i].name] \in Entries BY RootTyped DEF TypeOK
    <2>3. base' \in [Entries -> Kinds] /\ stuck' \subseteq Entries
      BY <2>1, <2>2, <1>k, BecomesTyped DEF TypeOK
    <2> QED BY <1>7, <2>3 DEF Handle, server, TypeOK
  <1>8. CASE Bind
    <2>1. rotation' \in Rotations BY <1>8, <1>r, BeginsTyped DEF Bind, TypeOK
    <2>2. surprises' \in 0 .. MaxSurprises BY <1>8, SurpriseTyped DEF Bind, TypeOK
    <2> QED BY <1>8, <2>1, <2>2 DEF Bind, server, history, TypeOK, Rotations
  <1>9. CASE DryRun
    <2>1. rotation' \in Rotations BY <1>9, <1>r, BeginsTyped DEF DryRun, TypeOK
    <2>2. surprises' \in 0 .. MaxSurprises BY <1>9, SurpriseTyped DEF DryRun, TypeOK
    <2> QED BY <1>9, <2>1, <2>2 DEF DryRun, server, history, TypeOK, Rotations
  <1>10. CASE Rotation
    <2>1. /\ base' \in [Entries -> Kinds] /\ stuck' \subseteq Entries
          /\ rotation' \in Rotations /\ disturbed' \in BOOLEAN
          /\ UNCHANGED <<config, wanted, server, surprises>>
      <3>s. UNCHANGED <<base, history>> =>
              base' \in [Entries -> Kinds] /\ stuck' \subseteq Entries /\ disturbed' \in BOOLEAN
        BY DEF history, TypeOK
      <3>1. CASE Unbind
        <4>1. rotation' \in Rotations BY <3>1, <1>r, RotationToTyped DEF Unbind
        <4> QED BY <3>1, <3>s, <4>1 DEF Unbind, history
      <3>2. CASE Open
        <4>1. CASE rotation' = NoRotation /\ UNCHANGED <<base, history>>
          BY <3>2, <4>1, <3>s, NoRotationTyped DEF Open
        <4>2. ASSUME IF base[rotation.root] = "absent" THEN Becomes(rotation.root, "empty")
                     ELSE UNCHANGED <<base, stuck>>,
                     disturbed' = (disturbed \/ base[rotation.root] = "absent"),
                     IF rotation.mode = "dry" THEN rotation' = NoRotation
                     ELSE RotationTo("stage")
              PROVE  base' \in [Entries -> Kinds] /\ stuck' \subseteq Entries
                     /\ rotation' \in Rotations /\ disturbed' \in BOOLEAN
          <5>1. rotation.root \in Entries BY <1>r DEF Rotations
          <5>2. base' \in [Entries -> Kinds] /\ stuck' \subseteq Entries
            <6>1. CASE Becomes(rotation.root, "empty")
              BY <6>1, <5>1, <1>k, BecomesTyped DEF TypeOK
            <6>2. CASE UNCHANGED <<base, stuck>> BY <6>2 DEF TypeOK
            <6> QED BY <4>2, <6>1, <6>2
          <5>3. rotation' \in Rotations BY <4>2, <1>r, NoRotationTyped, RotationToTyped
          <5>4. disturbed' \in BOOLEAN BY <4>2
          <5> QED BY <5>2, <5>3, <5>4
        <4> QED BY <3>2, <4>1, <4>2 DEF Open
      <3>3. CASE Stage
        <4>1. CASE rotation' = NoRotation /\ UNCHANGED <<base, history>>
          BY <3>3, <4>1, <3>s, NoRotationTyped DEF Stage
        <4>2. ASSUME NEW e \in Siblings, base[e] = "absent", Becomes(e, "empty"),
                     disturbed' = TRUE,
                     rotation' = [rotation EXCEPT !.pc = "migrate", !.staging = e]
              PROVE  base' \in [Entries -> Kinds] /\ stuck' \subseteq Entries
                     /\ rotation' \in Rotations /\ disturbed' \in BOOLEAN
          <5>1. e \in Entries BY StartupConstants
          <5>2. base' \in [Entries -> Kinds] /\ stuck' \subseteq Entries
            BY <4>2, <5>1, <1>k, BecomesTyped DEF TypeOK
          <5>3. rotation' \in Rotations BY <4>2, <5>1, <1>r DEF Rotations
          <5> QED BY <4>2, <5>2, <5>3
        <4> QED BY <3>3, <4>1, <4>2 DEF Stage
      <3>4. CASE Migrate
        <4>1. rotation' \in Rotations
          <5>1. PICK step \in {"backup", "cleanup"} : RotationTo(step) BY <3>4 DEF Migrate
          <5> QED BY <5>1, <1>r, RotationToTyped
        <4>2. rotation.staging \in Entries BY <1>r DEF Rotations
        <4>3. CASE Becomes(rotation.staging, "full") /\ disturbed' = TRUE
          <5>1. base' \in [Entries -> Kinds] /\ stuck' \subseteq Entries
            BY <4>2, <4>3, <1>k, BecomesTyped DEF TypeOK
          <5> QED BY <3>4, <4>1, <4>3, <5>1 DEF Migrate
        <4> QED BY <3>4, <3>s, <4>1, <4>3 DEF Migrate
      <3>5. CASE ToBackup
        <4>1. rotation' \in Rotations BY <3>5, <1>r, RotationToTyped DEF ToBackup
        <4>2. CASE UNCHANGED <<base, history>> BY <3>5, <3>s, <4>1, <4>2 DEF ToBackup
        <4>3. ASSUME NEW e \in Siblings, Renames(rotation.root, e)
              PROVE  base' \in [Entries -> Kinds] /\ stuck' \subseteq Entries
                     /\ disturbed' \in BOOLEAN
          BY <4>3, <1>r DEF Renames, Rotations, TypeOK, Kinds, Directories
        <4> QED BY <3>5, <4>1, <4>2, <4>3 DEF ToBackup
      <3>6. CASE Swap
        <4>1. rotation' \in Rotations BY <3>6, <1>r, RotationToTyped DEF Swap
        <4>2. CASE UNCHANGED <<base, history>> BY <3>6, <3>s, <4>1, <4>2 DEF Swap
        <4>3. CASE Renames(rotation.staging, rotation.root)
          <5>1. /\ base' \in [Entries -> Kinds] /\ stuck' \subseteq Entries
                /\ disturbed' \in BOOLEAN
            BY <4>3, <1>r DEF Renames, Rotations, TypeOK, Kinds, Directories
          <5> QED BY <3>6, <4>1, <5>1 DEF Swap
        <4> QED BY <3>6, <4>2, <4>3 DEF Swap
      <3>7. CASE Cleanup
        <4>1. rotation.staging \in Entries BY <1>r DEF Rotations
        <4>2. base' \in [Entries -> Kinds] /\ stuck' \subseteq Entries
          BY <3>7, <4>1, <1>k, BecomesTyped DEF Cleanup, TypeOK
        <4> QED BY <3>7, <4>2, NoRotationTyped DEF Cleanup, TypeOK
      <3> QED BY <1>10, <3>1, <3>2, <3>3, <3>4, <3>5, <3>6, <3>7 DEF Rotation
    <2> QED BY <2>1 DEF server, TypeOK, Rotations
  <1>11. CASE Kill
    <2>1. surprises' \in 0 .. MaxSurprises BY <1>11, SurpriseTyped DEF Kill, TypeOK
    <2> QED BY <1>11, <2>1, NoRotationTyped DEF Kill, server, history, TypeOK, Rotations
  <1>12. CASE Die
    <2>1. surprises' \in 0 .. MaxSurprises BY <1>12, SurpriseTyped DEF Die, TypeOK
    <2> QED BY <1>12, <2>1 DEF Die, history, TypeOK
  <1>13. CASE Switch
    <2>1. surprises' \in 0 .. MaxSurprises BY <1>13, SurpriseTyped DEF Switch, TypeOK
    <2> QED BY <1>13, <2>1 DEF Switch, history, TypeOK
  <1>14. CASE Edit
    <2>1. surprises' \in 0 .. MaxSurprises BY <1>14, SurpriseTyped DEF Edit, TypeOK
    <2>2. PICK e \in Entries, kind \in Kinds : Becomes(e, kind) BY <1>14 DEF Edit
    <2>3. base' \in [Entries -> Kinds] /\ stuck' \subseteq Entries
      BY <2>2, BecomesTyped DEF TypeOK
    <2> QED BY <1>14, <2>1, <2>3 DEF Edit, server, TypeOK
  <1>15. CASE Configure
    <2>1. surprises' \in 0 .. MaxSurprises BY <1>15, SurpriseTyped DEF Configure, TypeOK
    <2> QED BY <1>15, <2>1 DEF Configure, server, history, TypeOK
  <1>16. CASE UNCHANGED vars
    BY <1>16 DEF vars, TypeOK
  <1> QED BY <1>1, <1>2, <1>3, <1>4, <1>5, <1>6, <1>7, <1>8, <1>9, <1>10, <1>11, <1>12,
             <1>13, <1>14, <1>15, <1>16 DEF Next, Server

\* Every reachable state has the shape TypeOK gives it.
THEOREM TypeCorrect == Spec => []TypeOK
  BY TypeInit, TypeNext, PTL DEF Spec

-----------------------------------------------------------------------------
\* What an entry that blocks a start is to the scan.

StuckIsLoose == \A e \in stuck : Loose(base[e])

\* Whatever is no directory, and was none at ReadDir or is there undisturbed,
\* is still to be looked at or has been found.
ScanSees ==
    pc = "stat" =>
        \A e \in Entries : Loose(base[e]) /\ (e \in stuck \/ ~disturbed) =>
                           e \in pending \cup offenders

AllTolerated == pc = "create" /\ ~disturbed => \A e \in Entries : ~Loose(base[e])

MadeAfterTheScan == pc \in {"readdir", "stat"} => made = {}

ScanInv ==
    StuckIsLoose /\ ScanSees /\ AllTolerated /\ MadeAfterTheScan
    /\ LooseBlocks /\ RefusedLeavesNoTrace

\* What the steps of everyone but the server have in common.
OthersOnly ==
    /\ pc' \in {pc, "down"}
    /\ UNCHANGED <<tenants, pending, offenders, next, made>>
    /\ stuck' \subseteq stuck
    /\ \A e \in stuck' : Loose(base'[e])
    /\ UNCHANGED base \/ disturbed'
    /\ disturbed => disturbed'

\* One entry's change keeps track of what is stuck.
LEMMA BecomesTracks ==
    ASSUME TypeOK, StuckIsLoose, NEW e \in Entries, NEW kind \in Kinds, Becomes(e, kind)
    PROVE  /\ stuck' \subseteq stuck
           /\ \A f \in stuck' : Loose(base'[f])
           /\ base[e] = kind => UNCHANGED base
  <1>1. base \in [Entries -> Kinds] /\ stuck \subseteq Entries BY DEF TypeOK
  <1>2. base' = [base EXCEPT ![e] = kind] BY DEF Becomes
  <1>3. stuck' \subseteq stuck BY DEF Becomes
  <1>4. base[e] = kind => base' = base BY <1>1, <1>2
  <1>5. ASSUME NEW f \in stuck' PROVE Loose(base'[f])
    <2>1. f \in stuck /\ f \in Entries BY <1>1, <1>3
    <2>2. CASE f = e
      <3>1. Loose(kind) BY <1>5, <2>2 DEF Becomes
      <3> QED BY <3>1, <2>2, <1>1, <1>2
    <2>3. CASE f # e
      <3>1. base'[f] = base[f] BY <2>1, <2>3, <1>1, <1>2
      <3> QED BY <3>1, <2>1 DEF StuckIsLoose
    <2> QED BY <2>2, <2>3
  <1> QED BY <1>3, <1>4, <1>5

\* So does a renaming.
LEMMA RenamesTracks ==
    ASSUME TypeOK, StuckIsLoose, NEW from \in Entries, NEW to \in Entries, Renames(from, to)
    PROVE  stuck' \subseteq stuck /\ \A f \in stuck' : Loose(base'[f])
  <1>1. base \in [Entries -> Kinds] BY DEF TypeOK
  <1>2. stuck' = stuck \ {from, to} BY DEF Renames
  <1>3. ASSUME NEW f \in stuck' PROVE Loose(base'[f])
    <2>1. f \in stuck /\ f # from /\ f # to BY <1>2, <1>3
    <2>2. f \in Entries BY <2>1 DEF TypeOK
    <2>3. base'[f] = base[f] BY <2>1, <2>2, <1>1 DEF Renames
    <2> QED BY <2>1, <2>3 DEF StuckIsLoose
  <1> QED BY <1>2, <1>3

\* Everyone but the server does no more than that.
LEMMA OthersStep ==
    ASSUME TypeOK, StuckIsLoose,
           \/ Handle \/ Bind \/ DryRun \/ Rotation \/ Kill \/ Die \/ Switch \/ Edit \/ Configure
    PROVE  OthersOnly
  <1>k. \A kind \in {"absent", "empty", "full"} : kind \in Kinds BY DEF Kinds
  <1>r. rotation.root \in Entries /\ rotation.staging \in Entries BY DEF TypeOK
  <1>s. UNCHANGED <<base, history>> =>
          /\ stuck' \subseteq stuck /\ (\A e \in stuck' : Loose(base'[e]))
          /\ UNCHANGED base /\ (disturbed => disturbed')
    BY DEF history, StuckIsLoose
  <1>1. CASE Handle
    <2>1. PICK i \in DOMAIN tenants :
            Becomes(Root[tenants[i].name], "full") \/ Becomes(Root[tenants[i].name], "empty")
      BY <1>1 DEF Handle
    <2>2. Root[tenants[i].name] \in Entries BY RootTyped DEF TypeOK
    <2>3. stuck' \subseteq stuck /\ \A e \in stuck' : Loose(base'[e])
      BY <2>1, <2>2, <1>k, BecomesTracks
    <2> QED BY <1>1, <2>3 DEF Handle, server, OthersOnly
  <1>2. CASE Bind \/ DryRun \/ Kill \/ Configure
    BY <1>2, <1>s DEF Bind, DryRun, Kill, Configure, server, history, OthersOnly
  <1>3. CASE Die \/ Switch
    BY <1>3, <1>s DEF Die, Switch, history, OthersOnly
  <1>4. CASE Edit
    <2>1. PICK e \in Entries, kind \in Kinds : Becomes(e, kind) BY <1>4 DEF Edit
    <2>2. stuck' \subseteq stuck /\ \A f \in stuck' : Loose(base'[f])
      BY <2>1, BecomesTracks
    <2> QED BY <1>4, <2>2 DEF Edit, server, OthersOnly
  <1>5. CASE Rotation
    <2>u. UNCHANGED server
      BY <1>5 DEF Rotation, Unbind, Open, Stage, Migrate, ToBackup, Swap, Cleanup
    <2>0. CASE UNCHANGED <<base, history>>
      BY <2>0, <2>u, <1>s DEF server, OthersOnly
    <2>1. CASE Unbind BY <2>0, <2>1 DEF Unbind
    <2>2. ASSUME IF base[rotation.root] = "absent" THEN Becomes(rotation.root, "empty")
                 ELSE UNCHANGED <<base, stuck>>,
                 disturbed' = (disturbed \/ base[rotation.root] = "absent")
          PROVE  OthersOnly
      <3>1. CASE base[rotation.root] = "absent"
        <4>1. stuck' \subseteq stuck /\ \A f \in stuck' : Loose(base'[f])
          BY <2>2, <3>1, <1>r, <1>k, BecomesTracks
        <4> QED BY <4>1, <2>2, <3>1, <2>u DEF server, OthersOnly
      <3>2. CASE base[rotation.root] # "absent"
        <4>1. UNCHANGED <<base, stuck>> /\ (disturbed => disturbed') BY <2>2, <3>2
        <4> QED BY <4>1, <2>u DEF server, OthersOnly, StuckIsLoose
      <3> QED BY <3>1, <3>2
    <2>3. CASE Open BY <2>3, <2>0, <2>2 DEF Open
    <2>4. CASE Stage
      <3>1. ASSUME NEW e \in Siblings, Becomes(e, "empty"), disturbed' = TRUE
            PROVE  OthersOnly
        <4>1. e \in Entries BY StartupConstants
        <4>2. stuck' \subseteq stuck /\ \A f \in stuck' : Loose(base'[f])
          BY <3>1, <4>1, <1>k, BecomesTracks
        <4> QED BY <4>2, <3>1, <2>u DEF server, OthersOnly
      <3> QED BY <2>4, <2>0, <3>1 DEF Stage
    <2>5. CASE Migrate
      <3>1. CASE Becomes(rotation.staging, "full") /\ disturbed' = TRUE
        <4>1. stuck' \subseteq stuck /\ \A f \in stuck' : Loose(base'[f])
          BY <3>1, <1>r, <1>k, BecomesTracks
        <4> QED BY <4>1, <3>1, <2>u DEF server, OthersOnly
      <3> QED BY <2>5, <2>0, <3>1 DEF Migrate
    <2>6. ASSUME NEW from \in Entries, NEW to \in Entries, Renames(from, to)
          PROVE  OthersOnly
      <3>1. stuck' \subseteq stuck /\ \A f \in stuck' : Loose(base'[f])
        BY <2>6, RenamesTracks
      <3>2. disturbed' = TRUE BY <2>6 DEF Renames
      <3> QED BY <3>1, <3>2, <2>u DEF server, OthersOnly
    <2>7. CASE ToBackup
      <3>1. \A e \in Siblings : e \in Entries BY StartupConstants
      <3> QED BY <2>7, <2>0, <2>6, <1>r, <3>1 DEF ToBackup
    <2>8. CASE Swap BY <2>8, <2>0, <2>6, <1>r DEF Swap
    <2>9. CASE Cleanup
      <3>1. /\ Becomes(rotation.staging, "absent")
            /\ disturbed' = (disturbed \/ base[rotation.staging] # "absent")
        BY <2>9 DEF Cleanup
      <3>2. /\ stuck' \subseteq stuck /\ \A f \in stuck' : Loose(base'[f])
            /\ base[rotation.staging] = "absent" => UNCHANGED base
        BY <3>1, <1>r, <1>k, BecomesTracks
      <3> QED BY <3>1, <3>2, <2>u DEF server, OthersOnly
    <2> QED BY <1>5, <2>1, <2>3, <2>4, <2>5, <2>7, <2>8, <2>9 DEF Rotation
  <1> QED BY <1>1, <1>2, <1>3, <1>4, <1>5

-----------------------------------------------------------------------------
\* ScanInv is inductive.

LEMMA ScanOthers ==
    ASSUME TypeOK, ScanInv, OthersOnly
    PROVE  ScanInv'
  <1>1. StuckIsLoose' BY DEF OthersOnly, StuckIsLoose
  <1>2. ScanSees'
    <2> SUFFICES ASSUME pc' = "stat", NEW e \in Entries, Loose(base'[e]),
                        e \in stuck' \/ ~disturbed'
                 PROVE  e \in pending' \cup offenders'
      BY DEF ScanSees
    <2>1. pc = "stat" /\ pending' = pending /\ offenders' = offenders
      BY DEF OthersOnly
    <2>2. CASE e \in stuck'
      <3>1. e \in stuck BY <2>2 DEF OthersOnly
      <3>2. Loose(base[e]) BY <3>1 DEF ScanInv, StuckIsLoose
      <3> QED BY <2>1, <3>1, <3>2 DEF ScanInv, ScanSees
    <2>3. CASE ~disturbed'
      <3>1. UNCHANGED base /\ ~disturbed BY <2>3 DEF OthersOnly
      <3> QED BY <2>1, <3>1 DEF ScanInv, ScanSees
    <2> QED BY <2>2, <2>3
  <1>3. AllTolerated' BY DEF OthersOnly, ScanInv, AllTolerated
  <1>4. MadeAfterTheScan' BY DEF OthersOnly, ScanInv, MadeAfterTheScan
  <1>5. LooseBlocks' BY DEF OthersOnly, ScanInv, LooseBlocks
  <1>6. RefusedLeavesNoTrace' BY DEF OthersOnly, ScanInv, RefusedLeavesNoTrace
  <1> QED BY <1>1, <1>2, <1>3, <1>4, <1>5, <1>6 DEF ScanInv

LEMMA ScanNext == TypeOK /\ ScanInv /\ [Next]_vars => ScanInv'
  <1> SUFFICES ASSUME TypeOK, ScanInv, [Next]_vars PROVE ScanInv'
    OBVIOUS
  <1> USE DEF ScanInv
  <1>1. CASE Start
    BY <1>1 DEF Start, Reset, StuckIsLoose, ScanSees, AllTolerated, MadeAfterTheScan,
                LooseBlocks, RefusedLeavesNoTrace
  <1>2. CASE ReadDir
    <2>1. pc' = "stat" /\ made' = made /\ base' = base
          /\ pending' = { e \in Entries : base[e] # "absent" }
          /\ stuck' = { e \in Entries : Loose(base[e]) }
      BY <1>2 DEF ReadDir
    <2>2. StuckIsLoose' BY <2>1 DEF StuckIsLoose
    <2>3. ScanSees' BY <2>1 DEF ScanSees, Loose
    <2>4. MadeAfterTheScan' BY <1>2, <2>1 DEF ReadDir, MadeAfterTheScan
    <2> QED BY <2>1, <2>2, <2>3, <2>4 DEF AllTolerated, LooseBlocks, RefusedLeavesNoTrace
  <1>3. CASE StatEntry
    <2>1. PICK e \in pending :
            /\ offenders' = IF Offends(e) THEN offenders \cup {e} ELSE offenders
            /\ pending' = pending \ {e}
      BY <1>3 DEF StatEntry
    <2>2. UNCHANGED <<base, pc, made, disturbed, stuck>> /\ pc = "stat"
      BY <1>3 DEF StatEntry, history
    <2>3. ScanSees'
      <3> SUFFICES ASSUME NEW f \in Entries, Loose(base[f]), f \in stuck \/ ~disturbed
                   PROVE  f \in pending' \cup offenders'
        BY <2>2 DEF ScanSees
      <3>1. f \in pending \cup offenders BY <2>2 DEF ScanSees
      <3>2. Offends(f) BY DEF Offends, Loose, Directories
      <3> QED BY <2>1, <3>1, <3>2
    <2> QED BY <2>2, <2>3 DEF StuckIsLoose, AllTolerated, MadeAfterTheScan, LooseBlocks,
                              RefusedLeavesNoTrace
  <1>4. CASE Verdict
    <2>1. /\ UNCHANGED <<base, made, disturbed, stuck>> /\ pc = "stat" /\ pending = {}
          /\ pc' = IF offenders = {} THEN "create" ELSE "refused"
      BY <1>4 DEF Verdict, history
    <2>2. made = {} BY <2>1 DEF MadeAfterTheScan
    <2>3. CASE offenders = {}
      <3>1. \A e \in Entries : Loose(base[e]) => e \notin stuck /\ disturbed
        BY <2>1, <2>3 DEF ScanSees
      <3>2. stuck = {} BY <3>1 DEF StuckIsLoose, TypeOK
      <3> QED BY <2>1, <2>2, <2>3, <3>1, <3>2
              DEF StuckIsLoose, ScanSees, AllTolerated, MadeAfterTheScan, LooseBlocks,
                  RefusedLeavesNoTrace
    <2>4. CASE offenders # {}
      BY <2>1, <2>2, <2>4 DEF StuckIsLoose, ScanSees, AllTolerated, MadeAfterTheScan,
                              LooseBlocks, RefusedLeavesNoTrace
    <2> QED BY <2>3, <2>4
  <1>5. CASE CreateStore
    <2> DEFINE e == Root[tenants[next].name]
    <2>1. e \in Entries BY <1>5, RootTyped DEF CreateStore, TypeOK
    <2>2. stuck = {} /\ pc = "create" BY <1>5 DEF CreateStore, LooseBlocks
    <2>3. \/ Becomes(e, "empty") /\ UNCHANGED <<pc, disturbed>>
          \/ UNCHANGED <<base, pc, made, history>>
          \/ Loose(base[e]) /\ pc' = "refused" /\ UNCHANGED <<base, history>>
          \/ pc' = "refused" /\ disturbed' = TRUE /\ UNCHANGED <<base, stuck>>
      BY <1>5 DEF CreateStore
    <2> HIDE DEF e
    <2>4. CASE Becomes(e, "empty") /\ UNCHANGED <<pc, disturbed>>
      <3>1. stuck' = {} BY <2>2, <2>4 DEF Becomes
      <3>2. base' = [base EXCEPT ![e] = "empty"] /\ base \in [Entries -> Kinds]
        BY <2>4 DEF Becomes, TypeOK
      <3>3. AllTolerated'
        <4> SUFFICES ASSUME ~disturbed, NEW f \in Entries PROVE ~Loose(base'[f])
          BY <2>4 DEF AllTolerated
        <4>1. ~Loose(base[f]) BY <2>2 DEF AllTolerated
        <4>2. base'[f] = IF f = e THEN "empty" ELSE base[f] BY <3>2
        <4> QED BY <4>1, <4>2 DEF Loose
      <3> QED BY <2>2, <2>4, <3>1, <3>3
              DEF StuckIsLoose, ScanSees, MadeAfterTheScan, LooseBlocks, RefusedLeavesNoTrace
    <2>5. CASE UNCHANGED <<base, pc, made, history>>
      BY <2>2, <2>5 DEF history, StuckIsLoose, ScanSees, AllTolerated, MadeAfterTheScan,
                        LooseBlocks, RefusedLeavesNoTrace
    <2>6. CASE Loose(base[e]) /\ pc' = "refused" /\ UNCHANGED <<base, history>>
      <3>1. disturbed BY <2>1, <2>2, <2>6 DEF AllTolerated
      <3> QED BY <2>2, <2>6, <3>1
              DEF history, StuckIsLoose, ScanSees, AllTolerated, MadeAfterTheScan, LooseBlocks,
                  RefusedLeavesNoTrace
    <2>7. CASE pc' = "refused" /\ disturbed' = TRUE /\ UNCHANGED <<base, stuck>>
      BY <2>2, <2>7 DEF StuckIsLoose, ScanSees, AllTolerated, MadeAfterTheScan, LooseBlocks,
                        RefusedLeavesNoTrace
    <2> QED BY <2>3, <2>4, <2>5, <2>6, <2>7
  <1>6. CASE Listen
    BY <1>6 DEF Listen, history, StuckIsLoose, ScanSees, AllTolerated, MadeAfterTheScan,
                LooseBlocks, RefusedLeavesNoTrace
  <1>7. CASE \/ Handle \/ Bind \/ DryRun \/ Rotation \/ Kill \/ Die \/ Switch \/ Edit
             \/ Configure
    BY <1>7, OthersStep, ScanOthers
  <1>8. CASE UNCHANGED vars
    BY <1>8 DEF vars, StuckIsLoose, ScanSees, AllTolerated, MadeAfterTheScan, LooseBlocks,
                RefusedLeavesNoTrace
  <1> QED BY <1>1, <1>2, <1>3, <1>4, <1>5, <1>6, <1>7, <1>8 DEF Next, Server

LEMMA ScanHolds == Spec => []ScanInv
  <1>1. Init => ScanInv
    BY DEF Init, ScanInv, StuckIsLoose, ScanSees, AllTolerated, MadeAfterTheScan, LooseBlocks,
           RefusedLeavesNoTrace
  <1> QED BY <1>1, TypeCorrect, ScanNext, PTL DEF Spec

\* An entry that is no directory when the base directory is read, and stays
\* none, keeps the server from making stores and from serving.
THEOREM NothingLooseGetsBy == Spec => []LooseBlocks
  BY ScanHolds, PTL DEF ScanInv

\* A start that refuses has made no directory, whatever it refused for, if it
\* was alone with the base directory.
THEOREM NoTrace == Spec => []RefusedLeavesNoTrace
  BY ScanHolds, PTL DEF ScanInv

-----------------------------------------------------------------------------
\* The tenants of a start that got through validation.

ValidTenants ==
    pc \in {"readdir", "stat", "create", "listening"} => ~SameName(tenants)

LEMMA ValidNext == TypeOK /\ ValidTenants /\ [Next]_vars => ValidTenants'
  <1> SUFFICES ASSUME TypeOK, ValidTenants, [Next]_vars PROVE ValidTenants'
    OBVIOUS
  <1>1. CASE Start
    <2>1. tenants' = ServerUsers(config)
          /\ pc' = IF checkServeConfig(config.users, config.env) THEN "readdir" ELSE "refused"
      BY <1>1 DEF Start
    <2>2. checkServeConfig(config.users, config.env) => ~SameName(ServerUsers(config))
      BY DEF checkServeConfig, ServerUsers, validateUserSet
    <2> QED BY <2>1, <2>2 DEF ValidTenants
  <1>2. CASE /\ tenants' = tenants
             /\ pc' \in {"readdir", "stat", "create", "listening"} =>
                    pc \in {"readdir", "stat", "create", "listening"}
    BY <1>2 DEF ValidTenants
  <1>3. CASE ReadDir \/ StatEntry \/ Verdict \/ CreateStore \/ Listen
    BY <1>2, <1>3 DEF ReadDir, StatEntry, Verdict, CreateStore, Listen
  <1>4. CASE Handle \/ Bind \/ DryRun \/ Rotation \/ Kill \/ Die \/ Switch \/ Edit \/ Configure
    BY <1>2, <1>4 DEF Handle, Bind, DryRun, Rotation, Unbind, Open, Stage, Migrate, ToBackup,
                      Swap, Cleanup, Kill, Die, Switch, Edit, Configure, server
  <1>5. CASE UNCHANGED vars BY <1>2, <1>5 DEF vars
  <1> QED BY <1>1, <1>3, <1>4, <1>5 DEF Next, Server

\* No two users of a server that makes stores or serves share a directory, on
\* a file system that ignores case, too.
THEOREM Apart == Spec => []TenantsApart
  <1>1. Init => ValidTenants BY DEF Init, ValidTenants
  <1>2. TypeOK /\ ValidTenants => TenantsApart
    <2> SUFFICES ASSUME TypeOK, ValidTenants, pc \in {"create", "listening"},
                        NEW i \in DOMAIN tenants, NEW j \in DOMAIN tenants,
                        Root[tenants[i].name] = Root[tenants[j].name]
                 PROVE  i = j
      BY DEF TenantsApart
    <2>1. tenants[i].name \in UserNames /\ tenants[j].name \in UserNames
      BY RootTyped DEF TypeOK
    <2>2. Lower[tenants[i].name] = Lower[tenants[j].name] BY <2>1, StartupConstants
    <2>3. ~(i < j) /\ ~(j < i) BY <2>2 DEF ValidTenants, SameName
    <2>4. i \in Nat /\ j \in Nat BY DEF TypeOK
    <2> QED BY <2>3, <2>4
  <1> QED BY <1>1, <1>2, TypeCorrect, ValidNext, PTL DEF Spec

-----------------------------------------------------------------------------
\* What stops a start.

\* As long as nobody interferes, the scan looks at what is there, and finds
\* fault only with what is no directory; next counts the stores made.
InOrder ==
    /\ pc = "readdir" => offenders = {}
    /\ pc \in {"readdir", "stat"} => next = 1
    /\ pc = "create" => next <= Len(tenants) + 1
    /\ pc = "stat" /\ ~disturbed => /\ \A e \in pending : base[e] # "absent"
                                    /\ \A e \in offenders : Loose(base[e])

LEMMA InOrderNext == TypeOK /\ ScanInv /\ InOrder /\ [Next]_vars => InOrder'
  <1> SUFFICES ASSUME TypeOK, ScanInv, InOrder, [Next]_vars PROVE InOrder'
    OBVIOUS
  <1>0. tenants \in Seq(User) /\ Len(tenants) \in Nat /\ next \in Nat BY DEF TypeOK
  <1>1. CASE Start
    BY <1>1 DEF Start, Reset, InOrder
  <1>2. CASE ReadDir
    BY <1>2 DEF ReadDir, InOrder
  <1>3. CASE StatEntry
    <2>1. PICK e \in pending :
            /\ offenders' = IF Offends(e) THEN offenders \cup {e} ELSE offenders
            /\ pending' = pending \ {e}
      BY <1>3 DEF StatEntry
    <2>2. UNCHANGED <<base, pc, next, disturbed>> /\ pc = "stat" /\ e \in Entries
      BY <1>3 DEF StatEntry, history, TypeOK
    <2>3. ~disturbed /\ Offends(e) => Loose(base[e])
      BY <2>2 DEF InOrder, Offends, Loose, Directories, TypeOK, Kinds
    <2> QED BY <2>1, <2>2, <2>3 DEF InOrder
  <1>4. CASE Verdict
    BY <1>4, <1>0 DEF Verdict, InOrder
  <1>5. CASE CreateStore
    <2>1. /\ pc = "create" /\ next \in DOMAIN tenants /\ tenants' = tenants
          /\ pc' \in {"create", "refused"} /\ next' \in {next, next + 1}
      BY <1>5 DEF CreateStore, history
    <2>2. next + 1 <= Len(tenants) + 1 /\ next <= Len(tenants) + 1 BY <1>0, <2>1
    <2> QED BY <2>1, <2>2 DEF InOrder
  <1>6. CASE Listen
    BY <1>6 DEF Listen, InOrder
  <1>7. CASE \/ Handle \/ Bind \/ DryRun \/ Rotation \/ Kill \/ Die \/ Switch \/ Edit
             \/ Configure
    BY <1>7, OthersStep DEF OthersOnly, InOrder, ScanInv
  <1>8. CASE UNCHANGED vars
    BY <1>8 DEF vars, InOrder
  <1> QED BY <1>1, <1>2, <1>3, <1>4, <1>5, <1>6, <1>7, <1>8 DEF Next, Server

\* What StepsLeft is at each step of the server, now and then.
LEMMA StepsAt ==
    /\ pc = "listening" => StepsLeft = 0
    /\ pc = "create" => StepsLeft = Len(tenants) + 2 - next
    /\ pc = "stat" => StepsLeft = Len(tenants) + 2 + Cardinality(pending)
    /\ pc = "readdir" => StepsLeft = Len(tenants) + 3 + Cardinality(Entries)
    /\ pc \in Stopped => StepsLeft = Len(ServerUsers(config)) + 4 + Cardinality(Entries)
  BY DEF StepsLeft, Stopped

LEMMA StepsThen ==
    /\ pc' = "listening" => StepsLeft' = 0
    /\ pc' = "create" => StepsLeft' = Len(tenants') + 2 - next'
    /\ pc' = "stat" => StepsLeft' = Len(tenants') + 2 + Cardinality(pending')
    /\ pc' = "readdir" => StepsLeft' = Len(tenants') + 3 + Cardinality(Entries)
  BY DEF StepsLeft, Stopped

StoppedFor ==
    \/ pc \in Stopped /\ ~checkServeConfig(config.users, config.env)
    \/ pc \in {"stat", "create"} /\ (disturbed' \/ \E e \in Entries : Loose(base[e]))
    \/ pc = "create" /\ PortTaken

LEMMA StartGoesOn ==
    ASSUME IsFiniteSet(Entries), TypeOK, InOrder, Server, ~StoppedFor
    PROVE  StepsLeft' < StepsLeft /\ pc' \notin Stopped
  <1> DEFINE all == Cardinality(Entries)
             left == Cardinality(pending)
             len == Len(tenants)
  <1>0. len \in Nat /\ next \in Nat \ {0} /\ pending \subseteq Entries BY DEF TypeOK
  <1>f. all \in Nat /\ IsFiniteSet(pending) /\ left \in Nat
    BY <1>0, FS_Subset, FS_CardinalityType
  <1>1. CASE Start
    <2> DEFINE users == ServerUsers(config)
    <2>1. users \in Seq(User) /\ Len(users) \in Nat BY ServerUsersTyped DEF TypeOK
    <2>2. pc \in Stopped /\ pc' = "readdir" /\ tenants' = users
      BY <1>1 DEF Start, Stopped, StoppedFor
    <2>3. StepsLeft = Len(users) + 4 + all /\ StepsLeft' = Len(users) + 3 + all
      BY <2>2, StepsAt, StepsThen
    <2> HIDE DEF users, all
    <2> QED BY <1>f, <2>1, <2>2, <2>3 DEF Stopped
  <1>2. CASE ReadDir
    <2>1. pc = "readdir" /\ pc' = "stat" /\ tenants' = tenants /\ pending' \subseteq Entries
      BY <1>2 DEF ReadDir
    <2>2. Cardinality(pending') <= all /\ Cardinality(pending') \in Nat
      BY <2>1, FS_Subset, FS_CardinalityType
    <2>3. StepsLeft = len + 3 + all /\ StepsLeft' = len + 2 + Cardinality(pending')
      BY <2>1, StepsAt, StepsThen
    <2> HIDE DEF len, all
    <2> QED BY <1>0, <1>f, <2>1, <2>2, <2>3 DEF Stopped
  <1>3. CASE StatEntry
    <2>1. PICK e \in pending : pending' = pending \ {e} BY <1>3 DEF StatEntry
    <2>2. pc = "stat" /\ pc' = "stat" /\ tenants' = tenants BY <1>3 DEF StatEntry
    <2>3. Cardinality(pending') = left - 1 BY <1>f, <2>1, FS_RemoveElement
    <2>4. StepsLeft = len + 2 + left /\ StepsLeft' = len + 2 + Cardinality(pending')
      BY <2>2, StepsAt, StepsThen
    <2> HIDE DEF len, left
    <2> QED BY <1>0, <1>f, <2>2, <2>3, <2>4 DEF Stopped
  <1>4. CASE Verdict
    <2>1. pc = "stat" /\ pending = {} /\ next = 1 /\ UNCHANGED <<tenants, next, disturbed>>
      BY <1>4 DEF Verdict, history, InOrder
    <2>2. offenders = {} /\ pc' = "create"
      <3>1. ~disturbed /\ \A e \in Entries : ~Loose(base[e]) BY <2>1 DEF StoppedFor
      <3>2. offenders = {} BY <2>1, <3>1 DEF InOrder, TypeOK
      <3> QED BY <1>4, <3>2 DEF Verdict
    <2>3. left = 0 BY <2>1, FS_EmptySet
    <2>4. StepsLeft = len + 2 + left /\ StepsLeft' = len + 2 - next
      BY <2>1, <2>2, StepsAt, StepsThen
    <2> HIDE DEF len, left
    <2> QED BY <1>0, <2>1, <2>2, <2>3, <2>4 DEF Stopped
  <1>5. CASE CreateStore
    <2>1. pc = "create" /\ tenants' = tenants /\ next \in DOMAIN tenants
      BY <1>5 DEF CreateStore
    <2>2. ~disturbed' /\ \A e \in Entries : ~Loose(base[e]) BY <2>1 DEF StoppedFor
    <2>3. Root[tenants[next].name] \in Entries BY <2>1, RootTyped DEF TypeOK
    <2>4. pc' = pc /\ next' = next + 1 BY <1>5, <2>2, <2>3 DEF CreateStore
    <2>5. StepsLeft = len + 2 - next /\ StepsLeft' = len + 2 - (next + 1)
      BY <2>1, <2>4, StepsAt, StepsThen
    <2> HIDE DEF len
    <2> QED BY <1>0, <2>1, <2>4, <2>5 DEF Stopped
  <1>6. CASE Listen
    <2>1. pc = "create" /\ next \notin DOMAIN tenants BY <1>6 DEF Listen
    <2>2. pc' = "listening" BY <1>6, <2>1 DEF Listen, StoppedFor
    <2>3. StepsLeft = len + 2 - next /\ StepsLeft' = 0 BY <2>1, <2>2, StepsAt, StepsThen
    <2>4. next <= len + 1 BY <2>1 DEF InOrder
    <2> HIDE DEF len
    <2> QED BY <1>0, <2>2, <2>3, <2>4 DEF Stopped
  <1> QED BY <1>1, <1>2, <1>3, <1>4, <1>5, <1>6 DEF Server

\* Any number of entries, tenants, surprises: a start of a valid configuration
\* over directories, undisturbed and with its address free, comes up after a
\* number of steps that is known when it begins.
THEOREM OnlyCausesStop == ASSUME IsFiniteSet(Entries) PROVE Spec => NothingElseStops
  <1>1. Init => InOrder BY DEF Init, InOrder
  <1>2. TypeOK /\ InOrder =>
          [Server =>
              \/ StepsLeft' < StepsLeft /\ pc' \notin Stopped
              \/ pc \in Stopped /\ ~checkServeConfig(config.users, config.env)
              \/ pc \in {"stat", "create"} /\ (disturbed' \/ \E e \in Entries : Loose(base[e]))
              \/ pc = "create" /\ PortTaken]_vars
    BY StartGoesOn DEF StoppedFor
  <1> QED BY <1>1, <1>2, TypeCorrect, ScanHolds, InOrderNext, PTL DEF Spec, NothingElseStops

=============================================================================
