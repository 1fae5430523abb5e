------------------------- MODULE RotateTokenProofs -------------------------
(***************************************************************************)
(* Proofs about RotateToken for every set of names, tokens, runs and       *)
(* configurations: the shape of the state; that a server that runs tells   *)
(* its users apart by their tokens; and, of an operator who does one thing *)
(* at a time, that a rotation changes one token and nothing else, leaves a *)
(* server that would start able to, kills the old token for good, and that *)
(* only a run ended between its rename and its print cuts its user off.    *)
(***************************************************************************)
EXTENDS RotateToken, SequenceTheorems, WellFoundedInduction, TLAPS

-----------------------------------------------------------------------------
\* One token replaced leaves a sequence of users a sequence of users.
LEMMA TokenReplaced ==
    ASSUME NEW users \in Seq(User), NEW i \in DOMAIN users, NEW t \in Tokens
    PROVE  [users EXCEPT ![i].token = t] \in Seq(User)
  <1>1. users[i] \in User OBVIOUS
  <1>2. [users[i] EXCEPT !.token = t] \in User BY <1>1 DEF User
  <1> QED BY <1>2

\* One entry removed does, too.
LEMMA EntryRemoved ==
    ASSUME NEW users \in Seq(User), NEW i \in DOMAIN users
    PROVE  SubSeq(users, 1, i - 1) \o SubSeq(users, i + 1, Len(users)) \in Seq(User)
  <1>1. i \in 1 .. Len(users) /\ Len(users) \in Nat OBVIOUS
  <1>2. SubSeq(users, 1, i - 1) \in Seq(User) BY <1>1
  <1>3. SubSeq(users, i + 1, Len(users)) \in Seq(User) BY <1>1
  <1> QED BY <1>2, <1>3

\* The tokens and names of users are tokens and names.
LEMMA TokensInTyped ==
    ASSUME NEW users \in Seq(User)
    PROVE  /\ TokensIn(users) \subseteq Tokens
           /\ \A i \in DOMAIN users : users[i].name \in UserNames /\ users[i].token \in Tokens
  <1>1. \A i \in DOMAIN users : users[i] \in User OBVIOUS
  <1>2. \A i \in DOMAIN users : users[i].name \in UserNames /\ users[i].token \in Tokens
    BY <1>1 DEF User
  <1> QED BY <1>2 DEF TokensIn

\* An environment pair that is complete is a user.
LEMMA MergedTyped ==
    ASSUME NEW users \in Seq(User), NEW e \in Environments
    PROVE  Merged(users, e) \in Seq(User)
  <1>1. e \in [name : UserNames \cup {Unset}, token : Tokens \cup {Unset}]
    BY TokenConstants
  <1>2. CASE Unset \in {e.name, e.token} BY <1>2 DEF Merged
  <1>3. CASE Unset \notin {e.name, e.token}
    <2>1. e \in User BY <1>1, <1>3 DEF User
    <2> QED BY <1>3, <2>1 DEF Merged
  <1> QED BY <1>2, <1>3

-----------------------------------------------------------------------------
\* What a run's program counter says of its memory and of its staged file.

Memory == [runner : Owners, user : UserNames \cup {Unset}, users : Seq(User),
           rest : Rests \cup {NoStage}, target : Nat, owner : Owners]

Held(r) ==
    /\ pc[r] \in {"stat", "stage", "chown", "rename", "print"} =>
          run[r].target \in DOMAIN run[r].users /\ run[r].rest \in Rests
    /\ pc[r] \in {"chown", "rename"} =>
          /\ staged[r] \in File
          /\ staged[r].users = run[r].users /\ staged[r].rest = run[r].rest
    /\ pc[r] = "rename" => staged[r].owner = run[r].owner

TypeInv == TypeOK /\ \A r \in Rotators : Held(r)

LEMMA NoRunTyped == NoRun \in Memory
  <1>1. << >> \in Seq(User) OBVIOUS
  <1> QED BY <1>1 DEF NoRun, Memory, Owners, NoOne

LEMMA InitTypeInv == Init => TypeInv
  <1> SUFFICES ASSUME Init PROVE TypeInv OBVIOUS
  <1>1. file \in File BY TokenConstants DEF Init, File, Owners
  <1>2. file.users \in Seq(User) BY <1>1 DEF File
  <1>3. env.token \in Tokens \cup {Unset} BY TokenConstants DEF Init
  <1>4. issued \subseteq Tokens BY <1>2, <1>3, TokensInTyped DEF Init
  <1>5. given \in [UserNames -> Tokens \cup {Unset}]
    BY <1>2, TokensInTyped DEF Init, GivenAtFirst
  <1>6. run \in [Rotators -> Memory] BY NoRunTyped DEF Init
  <1>7. << >> \in Seq(User) OBVIOUS
  <1>8. TypeOK
    BY <1>1, <1>4, <1>5, <1>6, <1>7, TokenConstants DEF Init, TypeOK, Memory
  <1> QED BY <1>8 DEF TypeInv, Init, Held

\* A step that moves only "r" keeps Held of every other run.
LEMMA OthersHeld ==
    ASSUME TypeInv, NEW r \in Rotators,
           \A q \in Rotators : q # r =>
              pc'[q] = pc[q] /\ run'[q] = run[q] /\ staged'[q] = staged[q],
           Held(r)'
    PROVE  \A q \in Rotators : Held(q)'
  <1> SUFFICES ASSUME NEW q \in Rotators, q # r PROVE Held(q)' OBVIOUS
  <1>1. Held(q) BY DEF TypeInv
  <1> QED BY <1>1 DEF Held, File

\* The end of a run, whichever way it comes.
LEMMA ExitKeeps ==
    ASSUME TypeInv, NEW r \in Rotators, Exit(r),
           UNCHANGED staged \/ staged' = [staged EXCEPT ![r] = NoStage]
    PROVE  /\ \A q \in Rotators : Held(q)'
           /\ run' \in [Rotators -> Memory]
           /\ staged' \in [Rotators -> File \cup {NoStage}]
           /\ pc' = [pc EXCEPT ![r] = "done"]
  <1>1. TypeOK BY DEF TypeInv
  <1>2. pc'[r] = "done" BY <1>1 DEF TypeOK, Exit, Goto
  <1>3. Held(r)' BY <1>2 DEF Held
  <1>4. \A q \in Rotators : q # r =>
            pc'[q] = pc[q] /\ run'[q] = run[q] /\ staged'[q] = staged[q]
    BY <1>1 DEF TypeOK, Exit, Goto
  <1>5. \A q \in Rotators : Held(q)' BY <1>3, <1>4, OthersHeld
  <1>6. run \in [Rotators -> Memory] BY <1>1 DEF TypeOK, Memory
  <1>7. run' \in [Rotators -> Memory] BY <1>6, NoRunTyped DEF Exit
  <1>8. staged' \in [Rotators -> File \cup {NoStage}] BY <1>1 DEF TypeOK
  <1> QED BY <1>5, <1>7, <1>8 DEF Exit, Goto

-----------------------------------------------------------------------------
\* The actions, one by one.

LEMMA BeginTypeInv == ASSUME TypeInv, NEW r \in Rotators, Begin(r) PROVE TypeInv'
  <1>1. TypeOK /\ run \in [Rotators -> Memory] BY DEF TypeInv, TypeOK, Memory
  <1>2. PICK runner \in Owners, user \in UserNames \cup {Unset} :
          run' = [run EXCEPT ![r].runner = runner, ![r].user = user]
    BY DEF Begin
  <1>3. run'[r] = [run[r] EXCEPT !.runner = runner, !.user = user]
    BY <1>1, <1>2
  <1>4. run'[r] \in Memory BY <1>1, <1>3 DEF Memory
  <1>5. run' \in [Rotators -> Memory] BY <1>1, <1>2, <1>4
  <1>6. pc'[r] = "read" BY <1>1 DEF TypeOK, Begin, Goto
  <1>7. Held(r)' BY <1>6 DEF Held
  <1>8. \A q \in Rotators : Held(q)'
    BY <1>1, <1>2, <1>7, OthersHeld DEF TypeOK, Begin, Goto
  <1>9. TypeOK' BY <1>1, <1>5 DEF TypeOK, Begin, Goto, server, told, Memory
  <1> QED BY <1>8, <1>9 DEF TypeInv

LEMMA TargetInDomain ==
    ASSUME NEW users, NEW user, NEW i \in selectRotateTarget(users, user)
    PROVE  i \in DOMAIN users
    BY DEF selectRotateTarget

LEMMA ReadTypeInv == ASSUME TypeInv, NEW r \in Rotators, Read(r) PROVE TypeInv'
  <1>1. TypeOK /\ run \in [Rotators -> Memory] BY DEF TypeInv, TypeOK, Memory
  <1>2. ASSUME NEW i \in selectRotateTarget(file.users, run[r].user),
               run' = [run EXCEPT ![r].users = file.users, ![r].rest = file.rest,
                                  ![r].target = i],
               Goto(r, "stat"), UNCHANGED staged
        PROVE  TypeInv'
    <2>1. run'[r] = [run[r] EXCEPT !.users = file.users, !.rest = file.rest, !.target = i]
      BY <1>1, <1>2
    <2>2. file.users \in Seq(User) /\ file.rest \in Rests BY <1>1 DEF TypeOK, File
    <2>3. i \in DOMAIN file.users BY TargetInDomain
    <2>4. i \in Nat BY <2>2, <2>3
    <2>5. run[r] \in Memory BY <1>1
    <2>6. /\ run'[r] \in Memory
          /\ run'[r].users = file.users /\ run'[r].rest = file.rest /\ run'[r].target = i
      BY <2>1, <2>2, <2>4, <2>5 DEF Memory
    <2>7. run' \in [Rotators -> Memory] BY <1>1, <1>2, <2>6
    <2>8. pc'[r] = "stat" BY <1>1, <1>2 DEF TypeOK, Goto
    <2>9. Held(r)' BY <2>2, <2>3, <2>6, <2>8 DEF Held
    <2>10. \A q \in Rotators : Held(q)'
      BY <1>1, <1>2, <2>9, OthersHeld DEF TypeOK, Goto
    <2>11. TypeOK' BY <1>1, <1>2, <2>7 DEF TypeOK, Read, Goto, server, told, Memory
    <2> QED BY <2>10, <2>11 DEF TypeInv
  <1>3. CASE Abort(r)
    <2>1. /\ \A q \in Rotators : Held(q)'
          /\ run' \in [Rotators -> Memory]
          /\ staged' \in [Rotators -> File \cup {NoStage}]
          /\ pc' = [pc EXCEPT ![r] = "done"]
      BY <1>3, ExitKeeps DEF Abort
    <2>2. TypeOK' BY <1>1, <2>1 DEF TypeOK, Read, server, told, Memory
    <2> QED BY <2>1, <2>2 DEF TypeInv
  <1> QED BY <1>2, <1>3 DEF Read

LEMMA StatTypeInv == ASSUME TypeInv, NEW r \in Rotators, Stat(r) PROVE TypeInv'
  <1>1. TypeOK /\ run \in [Rotators -> Memory] /\ Held(r) /\ pc[r] = "stat"
    BY DEF TypeInv, TypeOK, Memory, Stat
  <1> DEFINE users(t) == [run[r].users EXCEPT ![run[r].target].token = t]
  <1>2. PICK t \in FreshTokens :
            /\ issued' = issued \cup {t}
            /\ \/ /\ run' = [run EXCEPT ![r].users = users(t), ![r].owner = file.owner]
                  /\ Goto(r, "stage")
                  /\ UNCHANGED staged
               \/ Abort(r)
    BY DEF Stat
  <1>3. t \in Tokens BY DEF FreshTokens
  <1>4. issued' \subseteq Tokens BY <1>1, <1>2, <1>3 DEF TypeOK
  <1>5. run[r] \in Memory /\ run[r].users \in Seq(User) BY <1>1 DEF Memory
  <1>6. run[r].target \in DOMAIN run[r].users /\ run[r].rest \in Rests BY <1>1 DEF Held
  <1>7. users(t) \in Seq(User) BY <1>3, <1>5, <1>6, TokenReplaced
  <1>8. DOMAIN users(t) = DOMAIN run[r].users BY <1>5
  <1> HIDE DEF users
  <1>9. CASE /\ run' = [run EXCEPT ![r].users = users(t), ![r].owner = file.owner]
             /\ Goto(r, "stage")
             /\ UNCHANGED staged
    <2>1. run'[r] = [run[r] EXCEPT !.users = users(t), !.owner = file.owner]
      BY <1>1, <1>9
    <2>2. file.owner \in Owners BY <1>1 DEF TypeOK, File
    <2>3. /\ run'[r] \in Memory
          /\ run'[r].users = users(t) /\ run'[r].rest = run[r].rest
          /\ run'[r].target = run[r].target
      BY <1>5, <1>7, <2>1, <2>2 DEF Memory
    <2>4. run' \in [Rotators -> Memory] BY <1>1, <1>9, <2>3
    <2>5. pc'[r] = "stage" BY <1>1, <1>9 DEF TypeOK, Goto
    <2>6. Held(r)' BY <1>6, <1>8, <2>3, <2>5 DEF Held
    <2>7. \A q \in Rotators : Held(q)'
      BY <1>1, <1>9, <2>6, OthersHeld DEF TypeOK, Goto
    <2>8. TypeOK' BY <1>1, <1>4, <1>9, <2>4 DEF TypeOK, Stat, Goto, server, told, Memory
    <2> QED BY <2>7, <2>8 DEF TypeInv
  <1>10. CASE Abort(r)
    <2>1. /\ \A q \in Rotators : Held(q)'
          /\ run' \in [Rotators -> Memory]
          /\ staged' \in [Rotators -> File \cup {NoStage}]
          /\ pc' = [pc EXCEPT ![r] = "done"]
      BY <1>10, ExitKeeps DEF Abort
    <2>2. TypeOK' BY <1>1, <1>4, <2>1 DEF TypeOK, Stat, server, told, Memory
    <2> QED BY <2>1, <2>2 DEF TypeInv
  <1> QED BY <1>2, <1>9, <1>10

LEMMA StageTypeInv == ASSUME TypeInv, NEW r \in Rotators, Stage(r) PROVE TypeInv'
  <1>1. TypeOK /\ run \in [Rotators -> Memory] /\ Held(r) /\ pc[r] = "stage"
    BY DEF TypeInv, TypeOK, Memory, Stage
  <1> DEFINE copy == [users |-> run[r].users, rest |-> run[r].rest, owner |-> run[r].runner]
  <1>2. run[r].target \in DOMAIN run[r].users /\ run[r].rest \in Rests BY <1>1 DEF Held
  <1>3. copy \in File BY <1>1, <1>2 DEF File, Memory
  <1>4. CASE staged' = [staged EXCEPT ![r] = copy] /\ Goto(r, "chown") /\ UNCHANGED run
    <2>1. staged'[r] = copy /\ pc'[r] = "chown" BY <1>1, <1>4 DEF TypeOK, Goto
    <2>2. Held(r)' BY <1>2, <1>3, <1>4, <2>1 DEF Held
    <2>3. \A q \in Rotators : Held(q)'
      BY <1>1, <1>4, <2>2, OthersHeld DEF TypeOK, Goto
    <2>4. staged' \in [Rotators -> File \cup {NoStage}] BY <1>1, <1>3, <1>4 DEF TypeOK
    <2>5. TypeOK' BY <1>1, <1>4, <2>4 DEF TypeOK, Stage, Goto, server, told, Memory
    <2> QED BY <2>3, <2>5 DEF TypeInv
  <1>5. CASE Abort(r)
    <2>1. /\ \A q \in Rotators : Held(q)'
          /\ run' \in [Rotators -> Memory]
          /\ staged' \in [Rotators -> File \cup {NoStage}]
          /\ pc' = [pc EXCEPT ![r] = "done"]
      BY <1>5, ExitKeeps DEF Abort
    <2>2. TypeOK' BY <1>1, <2>1 DEF TypeOK, Stage, server, told, Memory
    <2> QED BY <2>1, <2>2 DEF TypeInv
  <1> QED BY <1>4, <1>5 DEF Stage

LEMMA ChownTypeInv == ASSUME TypeInv, NEW r \in Rotators, Chown(r) PROVE TypeInv'
  <1>1. TypeOK /\ run \in [Rotators -> Memory] /\ Held(r) /\ pc[r] = "chown"
    BY DEF TypeInv, TypeOK, Memory, Chown
  <1>2. CASE /\ staged' = [staged EXCEPT ![r].owner = run[r].owner]
             /\ Goto(r, "rename")
             /\ UNCHANGED run
    <2>1. staged[r] \in File /\ run[r].owner \in Owners BY <1>1 DEF Held, Memory
    <2>2. staged'[r] = [staged[r] EXCEPT !.owner = run[r].owner] BY <1>1, <1>2 DEF TypeOK
    <2>3. /\ staged'[r] \in File /\ staged'[r].owner = run[r].owner
          /\ staged'[r].users = staged[r].users /\ staged'[r].rest = staged[r].rest
      BY <2>1, <2>2 DEF File
    <2>4. pc'[r] = "rename" BY <1>1, <1>2 DEF TypeOK, Goto
    <2>5. Held(r)' BY <1>1, <1>2, <2>3, <2>4 DEF Held
    <2>6. \A q \in Rotators : Held(q)'
      BY <1>1, <1>2, <2>5, OthersHeld DEF TypeOK, Goto
    <2>7. staged' \in [Rotators -> File \cup {NoStage}] BY <1>1, <1>2, <2>3 DEF TypeOK
    <2>8. TypeOK' BY <1>1, <1>2, <2>7 DEF TypeOK, Chown, Goto, server, told, Memory
    <2> QED BY <2>6, <2>8 DEF TypeInv
  <1>3. CASE Abort(r)
    <2>1. /\ \A q \in Rotators : Held(q)'
          /\ run' \in [Rotators -> Memory]
          /\ staged' \in [Rotators -> File \cup {NoStage}]
          /\ pc' = [pc EXCEPT ![r] = "done"]
      BY <1>3, ExitKeeps DEF Abort
    <2>2. TypeOK' BY <1>1, <2>1 DEF TypeOK, Chown, server, told, Memory
    <2> QED BY <2>1, <2>2 DEF TypeInv
  <1> QED BY <1>2, <1>3 DEF Chown

LEMMA RenameTypeInv == ASSUME TypeInv, NEW r \in Rotators, Rename(r) PROVE TypeInv'
  <1>1. TypeOK /\ run \in [Rotators -> Memory] /\ Held(r) /\ pc[r] = "rename"
    BY DEF TypeInv, TypeOK, Memory, Rename
  <1>2. CASE /\ file' = staged[r]
             /\ staged' = [staged EXCEPT ![r] = NoStage]
             /\ Goto(r, "print")
             /\ retired' = retired \cup
                   (TokensIn(file.users) \ (TokensIn(run[r].users) \cup {env.token}))
             /\ UNCHANGED run
    <2>1. file' \in File BY <1>1, <1>2 DEF Held
    <2>2. retired' \subseteq Tokens
      <3>1. TokensIn(file.users) \subseteq Tokens
        BY <1>1, TokensInTyped DEF TypeOK, File
      <3> QED BY <1>1, <1>2, <3>1 DEF TypeOK
    <2>3. pc'[r] = "print" BY <1>1, <1>2 DEF TypeOK, Goto
    <2>4. Held(r)' BY <1>1, <1>2, <2>3 DEF Held
    <2>5. \A q \in Rotators : Held(q)'
      BY <1>1, <1>2, <2>4, OthersHeld DEF TypeOK, Goto
    <2>6. TypeOK'
      BY <1>1, <1>2, <2>1, <2>2 DEF TypeOK, Rename, Goto, server, told, Memory
    <2> QED BY <2>5, <2>6 DEF TypeInv
  <1>3. CASE Abort(r) /\ UNCHANGED <<file, retired>>
    <2>1. /\ \A q \in Rotators : Held(q)'
          /\ run' \in [Rotators -> Memory]
          /\ staged' \in [Rotators -> File \cup {NoStage}]
          /\ pc' = [pc EXCEPT ![r] = "done"]
      BY <1>3, ExitKeeps DEF Abort
    <2>2. TypeOK' BY <1>1, <1>3, <2>1 DEF TypeOK, Rename, server, told, Memory
    <2> QED BY <2>1, <2>2 DEF TypeInv
  <1> QED BY <1>2, <1>3 DEF Rename

LEMMA UnsaidTyped ==
    ASSUME TypeInv, NEW r \in Rotators PROVE Unsaid(r) \subseteq UserNames
  <1>1. CASE pc[r] = "print"
    <2>1. run[r].users \in Seq(User) /\ run[r].target \in DOMAIN run[r].users
      BY <1>1 DEF TypeInv, TypeOK, Held
    <2> QED BY <1>1, <2>1, TokensInTyped DEF Unsaid
  <1> QED BY <1>1 DEF Unsaid

LEMMA AnnounceTypeInv == ASSUME TypeInv, NEW r \in Rotators, Announce(r) PROVE TypeInv'
  <1>1. TypeOK /\ run \in [Rotators -> Memory] /\ Held(r) /\ pc[r] = "print"
    BY DEF TypeInv, TypeOK, Memory, Announce
  <1>2. /\ \A q \in Rotators : Held(q)'
        /\ run' \in [Rotators -> Memory]
        /\ pc' = [pc EXCEPT ![r] = "done"]
    BY ExitKeeps DEF Announce
  <1>3. run[r].users[run[r].target].token \in Tokens
    BY <1>1, TokensInTyped DEF Held, Memory
  <1>4. given' \in [UserNames -> Tokens \cup {Unset}] BY <1>1, <1>3 DEF TypeOK, Announce
  <1>5. untold' \subseteq UserNames BY <1>1, UnsaidTyped DEF TypeInv, TypeOK, Announce
  <1>6. TypeOK' BY <1>1, <1>2, <1>4, <1>5 DEF TypeOK, Announce, server, Memory
  <1> QED BY <1>2, <1>6 DEF TypeInv

LEMMA KillTypeInv == ASSUME TypeInv, NEW r \in Rotators, Kill(r) PROVE TypeInv'
  <1>1. TypeOK BY DEF TypeInv
  <1>2. /\ \A q \in Rotators : Held(q)'
        /\ run' \in [Rotators -> Memory]
        /\ pc' = [pc EXCEPT ![r] = "done"]
    BY ExitKeeps DEF Kill
  <1>3. untold' \subseteq UserNames BY <1>1, UnsaidTyped DEF TypeOK, Kill
  <1>4. TypeOK' BY <1>1, <1>2, <1>3 DEF TypeOK, Kill, server, Memory
  <1> QED BY <1>2, <1>4 DEF TypeInv

\* A step that no run takes.
LEMMA NoRunMoves ==
    ASSUME TypeInv, UNCHANGED <<pc, run, staged>>
    PROVE  \A q \in Rotators : Held(q)'
    BY DEF TypeInv, Held, File

LEMMA EditedTypeInv ==
    ASSUME TypeInv, NEW users \in Seq(User), NEW n, NEW t \in Tokens \cup {Unset},
           Edited(users, n, t)
    PROVE  TypeInv'
  <1>1. TypeOK BY DEF TypeInv
  <1>2. file' \in File BY <1>1 DEF TypeOK, Edited, File
  <1>3. edits' \in 0 .. MaxEdits BY <1>1, TokenConstants DEF TypeOK, Edited
  <1>4. given' \in [UserNames -> Tokens \cup {Unset}] BY <1>1 DEF TypeOK, Edited
  <1>5. issued' \subseteq Tokens BY <1>1 DEF TypeOK, Edited
  <1>6. TypeOK' BY <1>1, <1>2, <1>3, <1>4, <1>5 DEF TypeOK, Edited, server
  <1>7. \A q \in Rotators : Held(q)' BY NoRunMoves DEF Edited
  <1> QED BY <1>6, <1>7 DEF TypeInv

LEMMA OperatorTypeInv ==
    ASSUME TypeInv, EditToken \/ AddUser \/ RemoveUser \/ EditRest PROVE TypeInv'
  <1>1. TypeOK /\ file.users \in Seq(User) BY DEF TypeInv, TypeOK, File
  <1>2. FreshTokens \cup Malformed \cup TokensIn(file.users) \subseteq Tokens
    BY <1>1, TokensInTyped, UserConstants DEF FreshTokens
  <1>3. CASE EditToken
    <2>1. PICK i \in DOMAIN file.users,
               t \in FreshTokens \cup Malformed \cup TokensIn(file.users) :
            Edited([file.users EXCEPT ![i].token = t], file.users[i].name, t)
      BY <1>3 DEF EditToken
    <2>2. t \in Tokens BY <1>2
    <2>3. [file.users EXCEPT ![i].token = t] \in Seq(User)
      BY <1>1, <2>2, TokenReplaced
    <2> QED BY <2>1, <2>2, <2>3, EditedTypeInv
  <1>4. CASE AddUser
    <2>1. PICK n \in UserNames, t \in FreshTokens \cup Malformed \cup TokensIn(file.users) :
            Edited(Append(file.users, [name |-> n, token |-> t]), n, t)
      BY <1>4 DEF AddUser
    <2>2. t \in Tokens BY <1>2
    <2>3. [name |-> n, token |-> t] \in User BY <2>2 DEF User
    <2>4. Append(file.users, [name |-> n, token |-> t]) \in Seq(User) BY <1>1, <2>3
    <2> QED BY <2>1, <2>2, <2>4, EditedTypeInv
  <1>5. CASE RemoveUser
    <2>1. PICK i \in DOMAIN file.users :
            Edited(SubSeq(file.users, 1, i - 1) \o SubSeq(file.users, i + 1, Len(file.users)),
                   file.users[i].name, Unset)
      BY <1>5 DEF RemoveUser
    <2>2. SubSeq(file.users, 1, i - 1) \o SubSeq(file.users, i + 1, Len(file.users))
            \in Seq(User)
      BY <1>1, EntryRemoved
    <2> QED BY <2>1, <2>2, EditedTypeInv
  <1>6. CASE EditRest
    <2>1. file' \in File
      <3>1. CASE \E x \in Rests : file' = [file EXCEPT !.rest = x]
        BY <1>1, <3>1 DEF TypeOK, File
      <3>2. CASE \E o \in Owners : file' = [file EXCEPT !.owner = o]
        BY <1>1, <3>2 DEF TypeOK, File
      <3> QED BY <1>6, <3>1, <3>2 DEF EditRest
    <2>2. edits' \in 0 .. MaxEdits BY <1>1, <1>6, TokenConstants DEF TypeOK, EditRest
    <2>3. TypeOK' BY <1>1, <1>6, <2>1, <2>2 DEF TypeOK, EditRest, server, told
    <2>4. \A q \in Rotators : Held(q)' BY <1>6, NoRunMoves DEF EditRest
    <2> QED BY <2>3, <2>4 DEF TypeInv
  <1> QED BY <1>3, <1>4, <1>5, <1>6

LEMMA ServerTypeInv == ASSUME TypeInv, Start \/ Stop PROVE TypeInv'
  <1>1. TypeOK BY DEF TypeInv
  <1>2. ConfiguredUsers \in Seq(User)
    <2>1. << >> \in Seq(User) OBVIOUS
    <2> QED BY <1>1, <2>1 DEF TypeOK, File, ConfiguredUsers
  <1>3. Merged(ConfiguredUsers, env) \in Seq(User) BY <1>1, <1>2, MergedTyped DEF TypeOK
  <1>4. << >> \in Seq(User) OBVIOUS
  <1>5. CASE Start BY <1>1, <1>3, <1>5, NoRunMoves DEF Start, told, TypeInv, TypeOK
  <1>6. CASE Stop BY <1>1, <1>4, <1>6, NoRunMoves DEF Stop, told, TypeInv, TypeOK
  <1> QED BY <1>5, <1>6

\* Every step keeps the invariant.
LEMMA NextTypeInv == ASSUME TypeInv, [Next]_vars PROVE TypeInv'
  <1>1. CASE UNCHANGED vars
    <2>1. TypeOK' BY <1>1 DEF TypeInv, TypeOK, vars
    <2>2. \A q \in Rotators : Held(q)' BY <1>1, NoRunMoves DEF vars
    <2> QED BY <2>1, <2>2 DEF TypeInv
  <1>2. ASSUME NEW r \in Rotators, RunStep(r) \/ Kill(r) PROVE TypeInv'
    BY <1>2, BeginTypeInv, ReadTypeInv, StatTypeInv, StageTypeInv, ChownTypeInv,
       RenameTypeInv, AnnounceTypeInv, KillTypeInv
    DEF RunStep
  <1>3. CASE EditToken \/ AddUser \/ RemoveUser \/ EditRest BY <1>3, OperatorTypeInv
  <1>4. CASE Start \/ Stop BY <1>4, ServerTypeInv
  <1> QED BY <1>1, <1>2, <1>3, <1>4 DEF Next

\* The configuration file, the runs and the server keep their shape: no run
\* ever renames anything but a whole configuration into place.
THEOREM TypeCorrect == Spec => []TypeOK
  <1>1. Init => TypeInv BY InitTypeInv
  <1>2. TypeInv /\ [Next]_vars => TypeInv' BY NextTypeInv
  <1>3. TypeInv => TypeOK BY DEF TypeInv
  <1> QED BY <1>1, <1>2, <1>3, PTL DEF Spec

-----------------------------------------------------------------------------
\* What validateUserSet accepts, and that a new token keeps it accepted.

LEMMA ValidMeans ==
    ASSUME NEW users
    PROVE  validateUserSet(users) = {} <=>
              /\ users # << >> /\ ~SameName(users) /\ ~SameToken(users)
              /\ \A i \in DOMAIN users :
                    users[i].name \notin BadNames /\ users[i].token \notin Malformed
  <1>1. validateUserSet(users) = {} =>
            \A i \in DOMAIN users :
                users[i].name \notin BadNames /\ users[i].token \notin Malformed
    BY DEF validateUserSet
  <1>2. validateUserSet(users) = {} =>
            ~(users = << >> \/ SameName(users) \/ SameToken(users))
    BY DEF validateUserSet
  <1>3. /\ ~(users = << >> \/ SameName(users) \/ SameToken(users))
        /\ \A i \in DOMAIN users :
              users[i].name \notin BadNames /\ users[i].token \notin Malformed
        => validateUserSet(users) = {}
    BY DEF validateUserSet
  <1> QED BY <1>1, <1>2, <1>3

\* "new" is "users" with the token of entry i replaced by t.
Replaces(new, users, i, t) ==
    /\ DOMAIN new = DOMAIN users
    /\ \A j \in DOMAIN users : new[j].name = users[j].name
    /\ new[i].token = t
    /\ \A j \in DOMAIN users : j # i => new[j] = users[j]

LEMMA Replacing ==
    ASSUME NEW users \in Seq(User), NEW i \in DOMAIN users, NEW t \in Tokens
    PROVE  Replaces([users EXCEPT ![i].token = t], users, i, t)
  <1> DEFINE new == [users EXCEPT ![i].token = t]
  <1>1. users[i] \in User OBVIOUS
  <1>2. new[i] = [users[i] EXCEPT !.token = t] OBVIOUS
  <1>3. new[i].name = users[i].name /\ new[i].token = t BY <1>1, <1>2 DEF User
  <1>4. \A j \in DOMAIN users : j # i => new[j] = users[j] OBVIOUS
  <1> QED BY <1>3, <1>4 DEF Replaces

\* A new, well-formed token in a valid set of users leaves it valid.
LEMMA NewTokenKeepsValid ==
    ASSUME NEW users \in Seq(User), NEW new \in Seq(User), NEW i \in DOMAIN users,
           NEW t \in Tokens \ Malformed, Replaces(new, users, i, t),
           t \notin TokensIn(users), validateUserSet(users) = {}
    PROVE  validateUserSet(new) = {}
  <1>1. /\ DOMAIN new = DOMAIN users
        /\ \A j \in DOMAIN users : new[j].name = users[j].name
        /\ new[i].token = t
        /\ \A j \in DOMAIN users : j # i => new[j] = users[j]
    BY DEF Replaces
  <1>2. /\ users # << >> /\ ~SameName(users) /\ ~SameToken(users)
        /\ \A j \in DOMAIN users :
              users[j].name \notin BadNames /\ users[j].token \notin Malformed
    BY ValidMeans
  <1>3. new # << >> BY <1>1
  <1>4. ~SameName(new) BY <1>1, <1>2 DEF SameName
  <1>5. \A j \in DOMAIN users : users[j].token # t BY DEF TokensIn
  <1>6. ~SameToken(new)
    <2> SUFFICES ASSUME NEW j \in DOMAIN users, NEW k \in DOMAIN users, j < k,
                        new[j].token = new[k].token
                 PROVE  FALSE
        BY <1>1 DEF SameToken
    <2>1. users[j].token # users[k].token BY <1>2 DEF SameToken
    <2>2. j # k OBVIOUS
    <2> QED BY <1>1, <1>5, <2>1, <2>2
  <1>7. \A j \in DOMAIN new :
            new[j].name \notin BadNames /\ new[j].token \notin Malformed
    BY <1>1, <1>2
  <1> QED BY <1>3, <1>4, <1>6, <1>7, ValidMeans

\* With the environment's user at the end, it is the same entry that differs.
LEMMA MergedReplaces ==
    ASSUME NEW users \in Seq(User), NEW new \in Seq(User), NEW i \in DOMAIN users,
           NEW t \in Tokens, Replaces(new, users, i, t), NEW e \in Environments
    PROVE  /\ i \in DOMAIN Merged(users, e)
           /\ Replaces(Merged(new, e), Merged(users, e), i, t)
           /\ t \notin TokensIn(users) /\ t # e.token => t \notin TokensIn(Merged(users, e))
  <1>1. CASE Unset \in {e.name, e.token} BY <1>1 DEF Merged
  <1>2. CASE Unset \notin {e.name, e.token}
    <2>1. e \in User BY <1>2, TokenConstants DEF User
    <2>2. Merged(users, e) = Append(users, e) /\ Merged(new, e) = Append(new, e)
      BY <1>2 DEF Merged
    <2>3. DOMAIN new = DOMAIN users /\ Len(new) = Len(users) /\ Len(users) \in Nat
      BY DEF Replaces
    <2>4. /\ DOMAIN users = 1 .. Len(users)
          /\ DOMAIN Append(users, e) = 1 .. Len(users) + 1
          /\ DOMAIN Append(new, e) = 1 .. Len(users) + 1
      BY <2>1, <2>3, AppendProperties
    <2>5. /\ \A j \in 1 .. Len(users) :
                Append(users, e)[j] = users[j] /\ Append(new, e)[j] = new[j]
          /\ Append(users, e)[Len(users) + 1] = e /\ Append(new, e)[Len(users) + 1] = e
      BY <2>1, <2>3, AppendProperties
    <2>6. \A j \in 1 .. Len(users) + 1 : j \in 1 .. Len(users) \/ j = Len(users) + 1
      BY <2>3
    <2>7. Replaces(Append(new, e), Append(users, e), i, t)
      BY <2>3, <2>4, <2>5, <2>6 DEF Replaces
    <2>8. t \notin TokensIn(users) /\ t # e.token => t \notin TokensIn(Append(users, e))
      BY <2>3, <2>4, <2>5, <2>6 DEF TokensIn
    <2> QED BY <2>2, <2>3, <2>4, <2>7, <2>8
  <1> QED BY <1>1, <1>2

-----------------------------------------------------------------------------
\* An operator who does one thing at a time: at most one run is under way, and
\* what it holds is the file as it is, but for its target's new token, which
\* no user has.  What any user has was issued.

Alone == \A q, r \in Rotators : Active(q) /\ Active(r) => q = r

Issued == TokensIn(file.users) \cup ({env.token} \ {Unset}) \subseteq issued

Unused == issued \ (Malformed \cup TokensIn(file.users) \cup {env.token})

Copied(r) ==
    /\ pc[r] = "stat" => run[r].users = file.users /\ run[r].rest = file.rest
    /\ pc[r] \in {"stage", "chown", "rename"} =>
          /\ run[r].rest = file.rest /\ run[r].owner = file.owner
          /\ run[r].target \in DOMAIN file.users
          /\ \E t \in Unused : run[r].users = [file.users EXCEPT ![run[r].target].token = t]

CarefulInv == TypeInv /\ Alone /\ Issued /\ \A r \in Rotators : Copied(r)

LEMMA InitCarefulInv == Init => CarefulInv
  BY InitTypeInv DEF Init, CarefulInv, Alone, Active, Issued, Copied

\* What a step of one run leaves alone.
LEMMA StepOfOne ==
    ASSUME TypeInv, NEW r \in Rotators, RunStep(r) \/ Kill(r)
    PROVE  /\ UNCHANGED env /\ issued \subseteq issued'
           /\ \A q \in Rotators : q # r => pc'[q] = pc[q] /\ run'[q] = run[q]
           /\ pc'[r] \in {"read", "stat", "stage", "chown", "rename", "print", "done"}
           /\ Active(r) \/ Begin(r)
  <1>1. TypeOK BY DEF TypeInv
  <1>2. CASE Begin(r) BY <1>1, <1>2 DEF Begin, TypeOK, Goto
  <1>3. CASE Read(r)
    BY <1>1, <1>3 DEF Read, TypeOK, Goto, Abort, Exit, Active
  <1>4. CASE Stat(r)
    BY <1>1, <1>4 DEF Stat, TypeOK, Goto, Abort, Exit, Active
  <1>5. CASE Stage(r)
    BY <1>1, <1>5 DEF Stage, TypeOK, Goto, Abort, Exit, Active
  <1>6. CASE Chown(r)
    BY <1>1, <1>6 DEF Chown, TypeOK, Goto, Abort, Exit, Active
  <1>7. CASE Rename(r)
    BY <1>1, <1>7 DEF Rename, TypeOK, Goto, Abort, Exit, Active
  <1>8. CASE Announce(r)
    BY <1>1, <1>8 DEF Announce, TypeOK, Goto, Exit, Active
  <1>9. CASE Kill(r)
    BY <1>1, <1>9 DEF Kill, TypeOK, Goto, Exit, Active
  <1> QED BY <1>2, <1>3, <1>4, <1>5, <1>6, <1>7, <1>8, <1>9 DEF RunStep

\* Begin waits for the others.
LEMMA AloneKept ==
    ASSUME Careful, TypeInv, Alone, NEW r \in Rotators, RunStep(r) \/ Kill(r)
    PROVE  Alone'
  <1>1. \A q \in Rotators : q # r => (Active(q)' <=> Active(q))
    BY StepOfOne DEF Active
  <1>2. Active(r) \/ \A q \in Rotators : ~Active(q) BY StepOfOne DEF Begin
  <1> QED BY <1>1, <1>2 DEF Alone

\* A step that leaves the file alone leaves the other runs their copies.
LEMMA OthersCopied ==
    ASSUME CarefulInv, NEW r \in Rotators, UNCHANGED <<file, env>>, issued \subseteq issued',
           \A q \in Rotators : q # r => pc'[q] = pc[q] /\ run'[q] = run[q],
           Copied(r)'
    PROVE  Issued' /\ \A q \in Rotators : Copied(q)'
  <1>1. Issued' BY DEF CarefulInv, Issued
  <1>2. Unused \subseteq Unused' BY DEF Unused
  <1>3. ASSUME NEW q \in Rotators, q # r PROVE Copied(q)'
    <2>1. Copied(q) BY DEF CarefulInv
    <2> QED BY <1>2, <1>3, <2>1 DEF Copied
  <1> QED BY <1>1, <1>3

LEMMA ReadCopies == ASSUME CarefulInv, NEW r \in Rotators, Read(r) PROVE Copied(r)'
  <1>1. TypeOK /\ run \in [Rotators -> Memory]
    BY DEF CarefulInv, TypeInv, TypeOK, Memory
  <1>2. ASSUME NEW i \in selectRotateTarget(file.users, run[r].user),
               run' = [run EXCEPT ![r].users = file.users, ![r].rest = file.rest,
                                  ![r].target = i],
               Goto(r, "stat")
        PROVE  Copied(r)'
    <2>1. run'[r] = [run[r] EXCEPT !.users = file.users, !.rest = file.rest, !.target = i]
      BY <1>1, <1>2
    <2>2. run[r] \in Memory BY <1>1
    <2>3. run'[r].users = file.users /\ run'[r].rest = file.rest
      BY <2>1, <2>2 DEF Memory
    <2>4. pc'[r] = "stat" BY <1>1, <1>2 DEF TypeOK, Goto
    <2>5. UNCHANGED file BY DEF Read
    <2> QED BY <2>3, <2>4, <2>5 DEF Copied
  <1>3. CASE Abort(r) BY <1>1, <1>3 DEF Abort, Exit, Goto, TypeOK, Copied
  <1> QED BY <1>2, <1>3 DEF Read

LEMMA StatCopies == ASSUME CarefulInv, NEW r \in Rotators, Stat(r) PROVE Copied(r)'
  <1>1. /\ TypeOK /\ run \in [Rotators -> Memory] /\ Held(r) /\ pc[r] = "stat"
        /\ Issued /\ Copied(r) /\ UNCHANGED <<file, env>>
    BY DEF CarefulInv, TypeInv, TypeOK, Memory, Stat
  <1> DEFINE users(t) == [run[r].users EXCEPT ![run[r].target].token = t]
  <1>2. PICK t \in FreshTokens :
            /\ issued' = issued \cup {t}
            /\ \/ /\ run' = [run EXCEPT ![r].users = users(t), ![r].owner = file.owner]
                  /\ Goto(r, "stage")
               \/ Abort(r)
    BY DEF Stat
  <1>3. run[r].users = file.users /\ run[r].rest = file.rest BY <1>1 DEF Copied
  <1>4. run[r].target \in DOMAIN file.users BY <1>1, <1>3 DEF Held
  <1>5. t \in Unused'
    <2>1. t \in Tokens /\ t \notin Malformed /\ t \notin issued BY DEF FreshTokens
    <2>2. t # Unset BY <2>1, UserConstants
    <2>3. t \notin TokensIn(file.users) /\ t # env.token
      BY <1>1, <2>1, <2>2 DEF Issued
    <2>4. TokensIn(file.users)' = TokensIn(file.users) BY <1>1 DEF TokensIn
    <2> QED BY <1>1, <1>2, <2>1, <2>3, <2>4 DEF Unused
  <1>6. CASE /\ run' = [run EXCEPT ![r].users = users(t), ![r].owner = file.owner]
             /\ Goto(r, "stage")
    <2> HIDE DEF users
    <2>1. run'[r] = [run[r] EXCEPT !.users = users(t), !.owner = file.owner]
      BY <1>1, <1>6
    <2>2. run[r] \in Memory BY <1>1
    <2>3. /\ run'[r].users = users(t) /\ run'[r].owner = file.owner
          /\ run'[r].rest = run[r].rest /\ run'[r].target = run[r].target
      BY <2>1, <2>2 DEF Memory
    <2>4. pc'[r] = "stage" BY <1>1, <1>6 DEF TypeOK, Goto
    <2>5. users(t) = [file.users EXCEPT ![run'[r].target].token = t]
      BY <1>3, <2>3 DEF users
    <2> QED BY <1>1, <1>3, <1>4, <1>5, <2>3, <2>4, <2>5 DEF Copied
  <1>7. CASE Abort(r) BY <1>1, <1>7 DEF Abort, Exit, Goto, TypeOK, Copied
  <1> QED BY <1>2, <1>6, <1>7

\* Stage and Chown keep what is in memory, or end the run.
LEMMA StagedCopies ==
    ASSUME CarefulInv, NEW r \in Rotators, Stage(r) \/ Chown(r) PROVE Copied(r)'
  <1>1. /\ TypeOK /\ Copied(r) /\ pc[r] \in {"stage", "chown"}
        /\ UNCHANGED <<file, env, issued>>
    BY DEF CarefulInv, TypeInv, Stage, Chown
  <1>2. CASE UNCHANGED run /\ (Goto(r, "chown") \/ Goto(r, "rename"))
    <2>1. pc'[r] \in {"chown", "rename"} BY <1>1, <1>2 DEF TypeOK, Goto
    <2>2. Unused' = Unused BY <1>1 DEF Unused, TokensIn
    <2> QED BY <1>1, <1>2, <2>1, <2>2 DEF Copied
  <1>3. CASE Abort(r) BY <1>1, <1>3 DEF Abort, Exit, Goto, TypeOK, Copied
  <1> QED BY <1>2, <1>3 DEF Stage, Chown

\* A rename that succeeds puts the file in place with one token replaced.
LEMMA RenamePuts ==
    ASSUME CarefulInv, NEW r \in Rotators, Rename(r), ~Abort(r)
    PROVE  /\ UNCHANGED <<env, issued>> /\ file' \in File /\ pc'[r] = "print"
           /\ file'.rest = file.rest /\ file'.owner = file.owner
           /\ run[r].target \in DOMAIN file.users
           /\ \E t \in Unused : file'.users = [file.users EXCEPT ![run[r].target].token = t]
  <1>1. TypeOK /\ Held(r) /\ Copied(r) /\ pc[r] = "rename"
    BY DEF CarefulInv, TypeInv, Rename
  <1>2. file' = staged[r] /\ Goto(r, "print") /\ UNCHANGED <<env, issued>> BY DEF Rename
  <1>3. pc'[r] = "print" BY <1>1, <1>2 DEF TypeOK, Goto
  <1> QED BY <1>1, <1>2, <1>3 DEF Held, Copied

\* The tokens of a file with one token replaced.
LEMMA TokensReplaced ==
    ASSUME NEW users \in Seq(User), NEW i \in DOMAIN users, NEW t \in Tokens
    PROVE  TokensIn([users EXCEPT ![i].token = t]) \subseteq TokensIn(users) \cup {t}
  <1> DEFINE new == [users EXCEPT ![i].token = t]
  <1>1. Replaces(new, users, i, t) BY Replacing
  <1> HIDE DEF new
  <1>2. TokensIn(new) \subseteq TokensIn(users) \cup {t} BY <1>1 DEF Replaces, TokensIn
  <1> QED BY <1>2 DEF new

LEMMA RenameCarefulInv ==
    ASSUME Careful, CarefulInv, NEW r \in Rotators, Rename(r), ~Abort(r) PROVE CarefulInv'
  <1>1. TypeInv /\ TypeInv' /\ TypeOK /\ Issued BY RenameTypeInv DEF CarefulInv, TypeInv
  <1>2. Alone' BY AloneKept DEF CarefulInv, RunStep
  <1>3. PICK t \in Unused : file'.users = [file.users EXCEPT ![run[r].target].token = t]
    BY RenamePuts
  <1>4. t \in issued /\ t \in Tokens BY <1>1 DEF Unused, TypeOK
  <1>5. file.users \in Seq(User) /\ run[r].target \in DOMAIN file.users
    BY <1>1, RenamePuts DEF TypeOK, File
  <1>6. TokensIn(file.users)' \subseteq TokensIn(file.users) \cup {t}
    <2>1. TokensIn(file'.users) \subseteq TokensIn(file.users) \cup {t}
      BY <1>3, <1>4, <1>5, TokensReplaced
    <2> QED BY <2>1 DEF TokensIn
  <1>7. Issued' BY <1>1, <1>4, <1>6, RenamePuts DEF Issued
  <1>8. \A q \in Rotators : q # r => pc'[q] \in {"idle", "done"}
    BY <1>1, StepOfOne DEF CarefulInv, Alone, Active, Rename, RunStep
  <1>9. \A q \in Rotators : Copied(q)' BY <1>8, RenamePuts DEF Copied
  <1> QED BY <1>1, <1>2, <1>7, <1>9 DEF CarefulInv

LEMMA StepCarefulInv ==
    ASSUME Careful, CarefulInv, NEW r \in Rotators, RunStep(r) \/ Kill(r) PROVE CarefulInv'
  <1>1. TypeInv /\ TypeInv'
    BY BeginTypeInv, ReadTypeInv, StatTypeInv, StageTypeInv, ChownTypeInv,
       RenameTypeInv, AnnounceTypeInv, KillTypeInv
    DEF CarefulInv, RunStep
  <1>2. Alone' BY AloneKept DEF CarefulInv
  <1>3. CASE Rename(r) /\ ~Abort(r) BY <1>3, RenameCarefulInv
  <1>4. ASSUME UNCHANGED file, Copied(r)' PROVE CarefulInv'
    BY <1>1, <1>2, <1>4, StepOfOne, OthersCopied DEF CarefulInv
  <1>5. CASE Begin(r)
    <2>1. pc'[r] = "read" BY <1>1, <1>5 DEF Begin, Goto, TypeInv, TypeOK
    <2> QED BY <1>4, <1>5, <2>1 DEF Begin, Copied
  <1>6. CASE Read(r) BY <1>4, <1>6, ReadCopies DEF Read
  <1>7. CASE Stat(r) BY <1>4, <1>7, StatCopies DEF Stat
  <1>8. CASE Stage(r) \/ Chown(r) BY <1>4, <1>8, StagedCopies DEF Stage, Chown
  <1>9. CASE (Rename(r) /\ Abort(r)) \/ Announce(r) \/ Kill(r)
    <2>1. pc'[r] = "done"
      BY <1>1, <1>9 DEF Abort, Announce, Kill, Exit, Goto, TypeInv, TypeOK
    <2>2. UNCHANGED file
      <3>1. CASE Rename(r) /\ Abort(r)
        <4>1. pc[r] = "rename" /\ pc'[r] # "print" BY <2>1, <3>1 DEF Rename
        <4> QED BY <1>1, <3>1, <4>1 DEF Rename, Goto, TypeInv, TypeOK
      <3> QED BY <1>9, <3>1 DEF Announce, Kill
    <2> QED BY <1>4, <2>1, <2>2 DEF Copied
  <1> QED BY <1>3, <1>5, <1>6, <1>7, <1>8, <1>9 DEF RunStep

\* An editor's tokens are issued, and no run is under way that could miss them.
LEMMA EditedCarefulInv ==
    ASSUME Careful, CarefulInv, TypeInv', NEW users, NEW n, NEW t \in Tokens,
           Edited(users, n, t), TokensIn(users) \subseteq TokensIn(file.users) \cup {t}
    PROVE  CarefulInv'
  <1>1. Alone' BY DEF CarefulInv, Alone, Active, Edited
  <1>2. TypeOK BY DEF CarefulInv, TypeInv
  <1>3. file'.users = users /\ UNCHANGED env BY <1>2 DEF Edited, TypeOK, File
  <1>4. TokensIn(file.users)' \subseteq TokensIn(file.users) \cup {t}
    BY <1>3 DEF TokensIn
  <1>5. issued' = issued \cup {t} BY UserConstants DEF Edited
  <1>6. Issued' BY <1>3, <1>4, <1>5 DEF CarefulInv, Issued
  <1>7. \A r \in Rotators : Copied(r)' BY DEF Edited, Active, Copied
  <1> QED BY <1>1, <1>6, <1>7 DEF CarefulInv

\* What an editor leaves in the file has a token of the file's, or the new one.
LEMMA AppendedTokens ==
    ASSUME NEW users \in Seq(User), NEW n \in UserNames, NEW t \in Tokens
    PROVE  TokensIn(Append(users, [name |-> n, token |-> t])) \subseteq TokensIn(users) \cup {t}
  <1> DEFINE e == [name |-> n, token |-> t]
  <1>1. e \in User /\ e.token = t BY DEF User
  <1> HIDE DEF e
  <1>2. Len(users) \in Nat /\ DOMAIN users = 1 .. Len(users) OBVIOUS
  <1>3. /\ DOMAIN Append(users, e) = 1 .. Len(users) + 1
        /\ \A j \in 1 .. Len(users) : Append(users, e)[j] = users[j]
        /\ Append(users, e)[Len(users) + 1] = e
    BY <1>1, <1>2, AppendProperties
  <1>4. \A j \in 1 .. Len(users) + 1 : j \in 1 .. Len(users) \/ j = Len(users) + 1
    BY <1>2
  <1>5. TokensIn(Append(users, e)) \subseteq TokensIn(users) \cup {t}
    BY <1>1, <1>2, <1>3, <1>4 DEF TokensIn
  <1> QED BY <1>5 DEF e

LEMMA RemainingTokens ==
    ASSUME NEW users \in Seq(User), NEW i \in DOMAIN users
    PROVE  TokensIn(SubSeq(users, 1, i - 1) \o SubSeq(users, i + 1, Len(users)))
             \subseteq TokensIn(users)
  <1> DEFINE a == SubSeq(users, 1, i - 1)
             b == SubSeq(users, i + 1, Len(users))
  <1>1. i \in 1 .. Len(users) /\ Len(users) \in Nat OBVIOUS
  <1>2. a \in Seq(User) /\ b \in Seq(User) BY <1>1
  <1>3. \A j \in DOMAIN a : \E k \in DOMAIN users : a[j] = users[k] BY <1>1
  <1>4. \A j \in DOMAIN b : \E k \in DOMAIN users : b[j] = users[k]
    <2> SUFFICES ASSUME NEW j \in DOMAIN b PROVE \E k \in DOMAIN users : b[j] = users[k]
      OBVIOUS
    <2>1. j \in Nat /\ i + j \in DOMAIN users /\ b[j] = users[i + j] BY <1>1
    <2> QED BY <2>1
  <1> HIDE DEF a, b
  <1>5. \A j \in DOMAIN (a \o b) :
            \/ j \in DOMAIN a /\ (a \o b)[j] = a[j]
            \/ \E k \in DOMAIN b : (a \o b)[j] = b[k]
    <2> SUFFICES ASSUME NEW j \in DOMAIN (a \o b), j \notin DOMAIN a
                 PROVE  j - Len(a) \in DOMAIN b /\ (a \o b)[j] = b[j - Len(a)]
      BY <1>2
    <2> QED BY <1>2
  <1>6. \A j \in DOMAIN (a \o b) : \E k \in DOMAIN users : (a \o b)[j] = users[k]
    BY <1>3, <1>4, <1>5
  <1>7. TokensIn(a \o b) \subseteq TokensIn(users) BY <1>6 DEF TokensIn
  <1> QED BY <1>7 DEF a, b

LEMMA OperatorCarefulInv ==
    ASSUME Careful, CarefulInv, EditToken \/ AddUser \/ RemoveUser \/ EditRest
    PROVE  CarefulInv'
  <1>1. TypeInv /\ TypeInv' /\ file.users \in Seq(User)
    BY OperatorTypeInv DEF CarefulInv, TypeInv, TypeOK, File
  <1>2. FreshTokens \cup Malformed \cup TokensIn(file.users) \subseteq Tokens
    BY <1>1, TokensInTyped, UserConstants DEF FreshTokens
  <1>3. CASE EditToken
    <2>1. PICK i \in DOMAIN file.users,
               t \in FreshTokens \cup Malformed \cup TokensIn(file.users) :
            Edited([file.users EXCEPT ![i].token = t], file.users[i].name, t)
      BY <1>3 DEF EditToken
    <2>2. t \in Tokens BY <1>2
    <2>3. TokensIn([file.users EXCEPT ![i].token = t]) \subseteq TokensIn(file.users) \cup {t}
      BY <1>1, <2>2, TokensReplaced
    <2> QED BY <1>1, <2>1, <2>2, <2>3, EditedCarefulInv
  <1>4. CASE AddUser
    <2>1. PICK n \in UserNames, t \in FreshTokens \cup Malformed \cup TokensIn(file.users) :
            Edited(Append(file.users, [name |-> n, token |-> t]), n, t)
      BY <1>4 DEF AddUser
    <2>2. t \in Tokens BY <1>2
    <2>3. TokensIn(Append(file.users, [name |-> n, token |-> t]))
            \subseteq TokensIn(file.users) \cup {t}
      BY <1>1, <2>2, AppendedTokens
    <2> QED BY <1>1, <2>1, <2>2, <2>3, EditedCarefulInv
  <1>5. CASE RemoveUser
    <2> DEFINE left(i) ==
          SubSeq(file.users, 1, i - 1) \o SubSeq(file.users, i + 1, Len(file.users))
    <2>1. PICK i \in DOMAIN file.users : Edited(left(i), file.users[i].name, Unset)
      BY <1>5 DEF RemoveUser
    <2>2. TokensIn(left(i)) \subseteq TokensIn(file.users) BY <1>1, RemainingTokens
    <2> HIDE DEF left
    <2>3. Alone' BY <2>1 DEF CarefulInv, Alone, Active, Edited
    <2>4. file'.users = left(i) BY <1>1, <2>1 DEF TypeInv, TypeOK, Edited, File
    <2>5. Issued' BY <2>1, <2>2, <2>4 DEF CarefulInv, Issued, TokensIn, Edited
    <2>6. \A r \in Rotators : Copied(r)' BY <2>1 DEF Edited, Active, Copied
    <2> QED BY <1>1, <2>3, <2>5, <2>6 DEF CarefulInv
  <1>6. CASE EditRest
    <2>1. Alone' BY <1>6 DEF CarefulInv, Alone, Active, EditRest
    <2>2. file'.users = file.users BY <1>1, <1>6 DEF TypeInv, TypeOK, EditRest, File
    <2>3. Issued' BY <1>6, <2>2 DEF CarefulInv, Issued, TokensIn, EditRest
    <2>4. \A r \in Rotators : Copied(r)' BY <1>6 DEF EditRest, Active, Copied
    <2> QED BY <1>1, <2>1, <2>3, <2>4 DEF CarefulInv
  <1> QED BY <1>3, <1>4, <1>5, <1>6

\* A step that touches neither the file nor a run.
LEMMA StillCarefulInv ==
    ASSUME CarefulInv, TypeInv', UNCHANGED <<file, env, pc, run, issued>> PROVE CarefulInv'
  <1>1. Alone' /\ Issued' BY DEF CarefulInv, Alone, Active, Issued, TokensIn
  <1>2. Unused' = Unused BY DEF Unused, TokensIn
  <1>3. \A r \in Rotators : Copied(r)' BY <1>2 DEF CarefulInv, Copied
  <1> QED BY <1>1, <1>3 DEF CarefulInv

LEMMA NextCarefulInv == ASSUME Careful, CarefulInv, [Next]_vars PROVE CarefulInv'
  <1>1. TypeInv' BY NextTypeInv DEF CarefulInv
  <1>2. CASE UNCHANGED vars BY <1>1, <1>2, StillCarefulInv DEF vars
  <1>3. CASE Start \/ Stop BY <1>1, <1>3, StillCarefulInv DEF Start, Stop
  <1>4. CASE \E r \in Rotators : RunStep(r) \/ Kill(r) BY <1>4, StepCarefulInv
  <1>5. CASE EditToken \/ AddUser \/ RemoveUser \/ EditRest BY <1>5, OperatorCarefulInv
  <1> QED BY <1>2, <1>3, <1>4, <1>5 DEF Next

-----------------------------------------------------------------------------
\* What a rename does to the file.

LEMMA RenamingIsRename ==
    ASSUME TypeInv, [Next]_vars, NEW r \in Rotators, Renaming(r)
    PROVE  Rename(r) /\ ~Abort(r)
  <1>1. TypeOK /\ pc[r] = "rename" /\ pc'[r] = "print" BY DEF TypeInv, Renaming
  <1>2. CASE UNCHANGED <<pc>> BY <1>1, <1>2
  <1>3. ASSUME NEW q \in Rotators, RunStep(q) \/ Kill(q) PROVE Rename(r) /\ ~Abort(r)
    <2>1. q = r BY <1>1, <1>3, StepOfOne
    <2>2. ~Abort(r) /\ ~Kill(r)
      BY <1>1 DEF Abort, Kill, Exit, Goto, TypeOK
    <2> QED BY <1>1, <1>3, <2>1, <2>2
        DEF RunStep, Begin, Read, Stat, Stage, Chown, Announce
  <1> QED BY <1>2, <1>3
      DEF Next, vars, EditToken, AddUser, RemoveUser, Edited, EditRest, Start, Stop

\* Of a configuration the server would start with, a rotation makes another
\* one: the new token is well-formed, and no user's of the file or environment.
LEMMA StillStartable ==
    ASSUME NEW users \in Seq(User), NEW i \in DOMAIN users, NEW e \in Environments,
           NEW t \in Tokens \ Malformed, t \notin TokensIn(users), t # e.token,
           checkServeConfig(users, e)
    PROVE  checkServeConfig([users EXCEPT ![i].token = t], e)
  <1> DEFINE new == [users EXCEPT ![i].token = t]
  <1>1. new \in Seq(User) /\ Replaces(new, users, i, t) BY TokenReplaced, Replacing
  <1> HIDE DEF new
  <1>2. Merged(users, e) \in Seq(User) /\ Merged(new, e) \in Seq(User)
    BY <1>1, MergedTyped
  <1>3. /\ i \in DOMAIN Merged(users, e)
        /\ Replaces(Merged(new, e), Merged(users, e), i, t)
        /\ t \notin TokensIn(Merged(users, e))
    BY <1>1, MergedReplaces
  <1>4. validateUserSet(Merged(new, e)) = {}
    BY <1>2, <1>3, NewTokenKeepsValid DEF checkServeConfig
  <1> QED BY <1>4 DEF checkServeConfig, new

\* As long as the operator lets one run end before the next run or edit, a
\* rotation replaces one user's token in the file and leaves everything else
\* in it, and its owner, alone: whoever runs it, whatever fails or is killed.
THEOREM OneTokenReplaced == ASSUME Careful PROVE Spec => OthersKept
  <1>1. Init => CarefulInv BY InitCarefulInv
  <1>2. CarefulInv /\ [Next]_vars => CarefulInv' BY NextCarefulInv
  <1>3. CarefulInv /\ [Next]_vars =>
          [\A r \in Rotators : Renaming(r) =>
            /\ file'.rest = file.rest /\ file'.owner = file.owner
            /\ \E t \in Tokens :
                file'.users = [file.users EXCEPT ![run[r].target].token = t]]_vars
    <2> SUFFICES ASSUME CarefulInv, [Next]_vars, NEW r \in Rotators, Renaming(r)
                 PROVE  /\ file'.rest = file.rest /\ file'.owner = file.owner
                        /\ \E t \in Tokens :
                            file'.users = [file.users EXCEPT ![run[r].target].token = t]
      OBVIOUS
    <2>1. Rename(r) /\ ~Abort(r) BY RenamingIsRename DEF CarefulInv
    <2>2. Unused \subseteq Tokens BY DEF CarefulInv, TypeInv, TypeOK, Unused
    <2> QED BY <2>1, <2>2, RenamePuts
  <1> QED BY <1>1, <1>2, <1>3, PTL DEF Spec, OthersKept

\* Under the same care, a configuration that the server would start with is
\* one after the rotation: the server that runs as the service user can read
\* it, and all users, the environment's among them, pass the rules.
THEOREM StartableStays == ASSUME Careful PROVE Spec => NeverUnstartable
  <1>1. Init => CarefulInv BY InitCarefulInv
  <1>2. CarefulInv /\ [Next]_vars => CarefulInv' BY NextCarefulInv
  <1>3. CarefulInv /\ [Next]_vars =>
          [\A r \in Rotators : Renaming(r) /\ Startable(file) => Startable(file')]_vars
    <2> SUFFICES ASSUME CarefulInv, [Next]_vars, NEW r \in Rotators, Renaming(r),
                        Startable(file)
                 PROVE  Startable(file')
      OBVIOUS
    <2>1. Rename(r) /\ ~Abort(r) BY RenamingIsRename DEF CarefulInv
    <2>2. file.users \in Seq(User) /\ env \in Environments /\ issued \subseteq Tokens
      BY DEF CarefulInv, TypeInv, TypeOK, File
    <2>3. /\ UNCHANGED env /\ file'.owner = file.owner
          /\ run[r].target \in DOMAIN file.users
      BY <2>1, RenamePuts
    <2>4. PICK t \in Unused : file'.users = [file.users EXCEPT ![run[r].target].token = t]
      BY <2>1, RenamePuts
    <2>5. t \in Tokens \ Malformed /\ t \notin TokensIn(file.users) /\ t # env.token
      BY <2>2 DEF Unused
    <2>6. checkServeConfig(file'.users, env)
      BY <2>2, <2>3, <2>4, <2>5, StillStartable DEF Startable
    <2> QED BY <2>3, <2>6 DEF Startable
  <1> QED BY <1>1, <1>2, <1>3, PTL DEF Spec, NeverUnstartable

\* Another user's malformed token never blocks the repair of one: where the
\* names are in order and no token is shared, every user can be rotated.
THEOREM RepairGoesOn == ASSUME Careful PROVE Spec => []RepairNotBlocked
  <1>1. Init => CarefulInv BY InitCarefulInv
  <1>2. CarefulInv /\ [Next]_vars => CarefulInv' BY NextCarefulInv
  <1>3. CarefulInv => RepairNotBlocked
    <2> SUFFICES ASSUME CarefulInv, NamesInOrder(file.users), ~SameToken(file.users),
                        NEW i \in DOMAIN file.users, NEW t \in FreshTokens
                 PROVE  Fatal([file.users EXCEPT ![i].token = t], i) = {}
      BY DEF RepairNotBlocked, Rotatable
    <2> DEFINE users == file.users
               new == [users EXCEPT ![i].token = t]
    <2>1. users \in Seq(User) BY DEF CarefulInv, TypeInv, TypeOK, File
    <2>2. t \in Tokens /\ t \notin Malformed /\ t \notin TokensIn(users)
      BY DEF FreshTokens, CarefulInv, Issued
    <2>3. Replaces(new, users, i, t) BY <2>1, <2>2, Replacing
    <2> HIDE DEF new, users
    <2>4. \A j \in DOMAIN new : new[j].name \notin BadNames
      BY <2>3 DEF Replaces, NamesInOrder, users
    <2>5. ~SameName(new) BY <2>3 DEF Replaces, NamesInOrder, SameName, users
    <2>6. ~SameToken(new)
      <3>1. \A j \in DOMAIN users : users[j].token # t BY <2>2 DEF TokensIn
      <3> SUFFICES ASSUME NEW j \in DOMAIN users, NEW k \in DOMAIN users, j < k,
                          new[j].token = new[k].token
                   PROVE  FALSE
        BY <2>3 DEF SameToken, Replaces
      <3>2. users[j].token # users[k].token BY DEF SameToken, users
      <3>3. j # k BY <2>1
      <3> QED BY <2>3, <3>1, <3>2, <3>3 DEF Replaces
    <2>7. new # << >> BY <2>3 DEF Replaces, users
    <2>8. ASSUME NEW p \in validateUserSet(new), p.category = "tokenFormat" => p.index = i
          PROVE  FALSE
      <3>1. PICK j \in DOMAIN new : p = TokenFormat(j) /\ new[j].token \in Malformed
        BY <2>4, <2>5, <2>6, <2>7, <2>8 DEF validateUserSet
      <3>2. j = i BY <2>8, <3>1 DEF TokenFormat
      <3> QED BY <2>2, <2>3, <3>1, <3>2 DEF Replaces
    <2>9. Fatal(new, i) = {} BY <2>8 DEF Fatal
    <2> QED BY <2>9 DEF new, users
  <1> QED BY <1>1, <1>2, <1>3, PTL DEF Spec

-----------------------------------------------------------------------------
\* Induction over the natural numbers, on sets: the library's theorem about
\* well-founded relations needs no operator where the one about Nat does.

LEMMA LeastNat ==
    ASSUME NEW S \in SUBSET Nat, S # {}
    PROVE  \E n \in S : \A m \in S : n <= m
  <1> DEFINE R == {ss \in Nat \X Nat : ss[1] < ss[2]}
  <1>1. IsWellFoundedOn(R, Nat)
    BY NatLessThanWellFounded DEF OpToRel
  <1>2. PICK n \in S : \A m \in S : ~ (<<m, n>> \in R)
    BY <1>1, WFMin
  <1>3. ASSUME NEW m \in S PROVE n <= m
    <2>1. <<m, n>> \in Nat \X Nat /\ <<m, n>>[1] = m /\ <<m, n>>[2] = n
      OBVIOUS
    <2>2. ~(m < n)
      BY <1>2, <2>1
    <2> QED BY <2>2
  <1> QED BY <1>3

\* What holds at 0, and at n + 1 where it holds at n, holds up to any bound.
LEMMA UpTo ==
    ASSUME NEW n \in Nat, NEW S, 0 \in S, \A k \in 0 .. n - 1 : k \in S => k + 1 \in S
    PROVE  \A k \in 0 .. n : k \in S
  <1> SUFFICES ASSUME NEW c \in 0 .. n, c \notin S PROVE FALSE
    OBVIOUS
  <1> DEFINE T == {k \in 0 .. n : k \notin S}
  <1>1. T \in SUBSET Nat /\ T # {}
    OBVIOUS
  <1>2. PICK k \in T : \A m \in T : k <= m
    BY <1>1, LeastNat
  <1>3. k \in 0 .. n /\ k \notin S /\ k # 0
    BY <1>2
  <1>4. k - 1 \in 0 .. n - 1 /\ k - 1 \notin T
    BY <1>2, <1>3
  <1>5. k - 1 \in S
    BY <1>4
  <1> QED BY <1>3, <1>4, <1>5

LEMMA MaxOfPart ==
    ASSUME NEW n \in Nat, NEW s \in SUBSET (1 .. n), s # {}
    PROVE  Max(s) \in s /\ \A y \in s : Max(s) >= y
  <1> DEFINE Gaps == {n - x : x \in s}
  <1>1. Gaps \in SUBSET Nat /\ Gaps # {}
    <2>1. \A x \in s : n - x \in Nat
      OBVIOUS
    <2> QED BY <2>1
  <1>2. PICK g \in Gaps : \A h \in Gaps : g <= h
    BY <1>1, LeastNat
  <1>3. PICK x \in s : g = n - x
    OBVIOUS
  <1>4. \A y \in s : n - x <= n - y
    BY <1>2, <1>3
  <1>5. \A y \in s : x >= y
    BY <1>4
  <1> HIDE DEF Gaps
  <1> QED BY <1>5 DEF Max

-----------------------------------------------------------------------------
\* The middleware's loop, in one formula: the last tenant whose token it is.

Matches(users, got, s) == {i \in s : users[i].token = got}

LoopValue(users, got, s) ==
    IF Matches(users, got, s) = {}
    THEN [matched |-> FALSE, idx |-> 1]
    ELSE [matched |-> TRUE, idx |-> Max(Matches(users, got, s))]

LoopStep(users, got, acc, i) ==
    [matched |-> acc.matched \/ users[i].token = got,
     idx |-> IF users[i].token = got THEN i ELSE acc.idx]

LEMMA LoopValueStep ==
    ASSUME NEW users, NEW got, NEW n \in Nat, NEW s \in SUBSET (1 .. n), s # {}
    PROVE  LoopValue(users, got, s)
             = LoopStep(users, got, LoopValue(users, got, s \ {Max(s)}), Max(s))
  <1> DEFINE m == Max(s)
             A == Matches(users, got, s)
             B == Matches(users, got, s \ {m})
  <1>1. m \in s /\ \A y \in s : m >= y
    BY MaxOfPart
  <1>2. A \in SUBSET (1 .. n)
    BY DEF Matches
  <1>3. CASE users[m].token = got
    <2>1. m \in A /\ \A y \in A : m >= y
      BY <1>1, <1>3 DEF Matches
    <2>2. Max(A) \in A /\ \A y \in A : Max(A) >= y
      BY <1>2, <2>1, MaxOfPart
    <2>3. Max(A) = m
      <3>1. Max(A) >= m /\ m >= Max(A) /\ Max(A) \in Nat /\ m \in Nat
        BY <1>1, <1>2, <2>1, <2>2
      <3> QED BY <3>1
    <2>4. LoopValue(users, got, s) = [matched |-> TRUE, idx |-> m]
      BY <2>1, <2>3 DEF LoopValue
    <2> HIDE DEF m, A, B
    <2>5. LoopValue(users, got, s \ {m}).matched \in BOOLEAN
      BY DEF LoopValue
    <2> QED BY <1>3, <2>4, <2>5 DEF LoopStep, m
  <1>4. CASE users[m].token # got
    <2>1. A = B
      BY <1>4 DEF Matches
    <2>2. LoopValue(users, got, s) = LoopValue(users, got, s \ {m})
      BY <2>1 DEF LoopValue
    <2> HIDE DEF m, A, B
    <2>3. LET v == LoopValue(users, got, s \ {m})
          IN  v = [matched |-> v.matched, idx |-> v.idx] /\ v.matched \in BOOLEAN
      BY DEF LoopValue
    <2> QED BY <1>4, <2>2, <2>3 DEF LoopStep, m
  <1> QED BY <1>3, <1>4

LEMMA LoopIsLast ==
    ASSUME NEW users, NEW got, NEW n \in Nat, DOMAIN users = 1 .. n
    PROVE  Compared(users, got) = LoopValue(users, got, 1 .. n)
  <1> DEFINE id == [i \in DOMAIN users |-> i]
             Body(f, s) ==
                IF s = {} THEN [matched |-> FALSE, idx |-> 1]
                ELSE LoopStep(users, got, f[s \ {Max(s)}], id[Max(s)])
             Solves(f) == f = [s \in SUBSET DOMAIN id |-> Body(f, s)]
             It == CHOOSE f : Solves(f)
             V(s) == LoopValue(users, got, s)
             g == [s \in SUBSET DOMAIN id |-> V(s)]
  <1>1. DOMAIN id = 1 .. n /\ \A i \in 1 .. n : id[i] = i
    OBVIOUS
  <1>2. Compared(users, got) = It[DOMAIN id]
    BY DEF Compared, FoldLeft, MapThenFoldSet, LoopStep
  <1>3. Solves(g)
    <2> SUFFICES ASSUME NEW s \in SUBSET DOMAIN id PROVE V(s) = Body(g, s)
      OBVIOUS
    <2> HIDE DEF id
    <2>1. CASE s = {}
      BY <2>1 DEF LoopValue, Matches
    <2>2. CASE s # {}
      <3>1. s \in SUBSET (1 .. n)
        BY <1>1
      <3>2. Max(s) \in s
        BY <2>2, <3>1, MaxOfPart
      <3>3. id[Max(s)] = Max(s)
        BY <1>1, <3>1, <3>2
      <3>4. g[s \ {Max(s)}] = V(s \ {Max(s)})
        OBVIOUS
      <3>5. V(s) = LoopStep(users, got, V(s \ {Max(s)}), Max(s))
        BY <2>2, <3>1, LoopValueStep
      <3> QED BY <2>2, <3>3, <3>4, <3>5
    <2> QED BY <2>1, <2>2
  <1>4. Solves(It)
    BY <1>3
  <1> HIDE DEF It
  <1>5. \A s \in SUBSET DOMAIN id : It[s] = Body(It, s)
    <2> HIDE DEF Body, id
    <2> QED BY <1>4
  <1> HIDE DEF id
  <1> DEFINE Good == {k \in 0 .. n : It[1 .. k] = V(1 .. k)}
  <1>6. 0 \in Good
    <2>1. 1 .. 0 = {}
      OBVIOUS
    <2>2. It[{}] = V({})
      BY <1>5 DEF LoopValue, Matches
    <2> QED BY <2>1, <2>2
  <1>7. ASSUME NEW k \in 0 .. n - 1, k \in Good PROVE k + 1 \in Good
    <2> DEFINE s == 1 .. k + 1
    <2>1. s \in SUBSET (1 .. n) /\ s # {} /\ k + 1 \in s
      OBVIOUS
    <2>2. Max(s) = k + 1
      <3>1. Max(s) \in s /\ Max(s) >= k + 1
        BY <2>1, MaxOfPart
      <3> QED BY <3>1
    <2>3. s \ {Max(s)} = 1 .. k /\ id[Max(s)] = Max(s)
      BY <1>1, <2>1, <2>2
    <2>4. It[s] = LoopStep(users, got, It[1 .. k], Max(s))
      BY <1>1, <1>5, <2>1, <2>3
    <2>5. V(s) = LoopStep(users, got, V(1 .. k), Max(s))
      BY <2>1, <2>3, LoopValueStep
    <2> QED BY <1>7, <2>4, <2>5
  <1>8. n \in Good
    <2> HIDE DEF Good
    <2>1. \A k \in 0 .. n : k \in Good
      BY <1>6, <1>7, UpTo
    <2> QED BY <2>1
  <1> QED BY <1>1, <1>2, <1>8

\* The middleware's loop, which has no early exit, finds a user whose token it
\* was given wherever there is one, however many users there are.
THEOREM AuthenticatedIs ==
    ASSUME NEW users \in Seq(User), NEW got
    PROVE  LET who == Authenticated(users, got) IN
           \/ /\ who = NoOne
              /\ \A i \in DOMAIN users : users[i].token # got
           \/ /\ who \in DOMAIN users
              /\ users[who].token = got
  <1>1. Len(users) \in Nat /\ DOMAIN users = 1 .. Len(users)
    OBVIOUS
  <1> DEFINE n == Len(users)
             M == Matches(users, got, 1 .. n)
  <1>2. Compared(users, got) = LoopValue(users, got, 1 .. n)
    BY <1>1, LoopIsLast
  <1>3. CASE M = {}
    BY <1>1, <1>2, <1>3 DEF Authenticated, LoopValue, Matches
  <1>4. CASE M # {}
    <2>1. Max(M) \in M
      BY <1>1, <1>4, MaxOfPart DEF Matches
    <2>2. Authenticated(users, got) = Max(M)
      BY <1>2, <1>4 DEF Authenticated, LoopValue
    <2> QED BY <1>1, <2>1, <2>2 DEF Matches
  <1> QED BY <1>3, <1>4

\* In a set of users that passes the rules, a token authenticates the one user
\* whose token it is, and a malformed one nobody.
LEMMA ValidAuthenticates ==
    ASSUME NEW users \in Seq(User), validateUserSet(users) = {}, NEW got
    PROVE  /\ got \in Malformed => Authenticated(users, got) = NoOne
           /\ \A i \in DOMAIN users :
                users[i].token = got <=> Authenticated(users, got) = i
  <1> DEFINE who == Authenticated(users, got)
  <1>1. /\ ~SameToken(users)
        /\ \A i \in DOMAIN users : users[i].token \notin Malformed
    BY ValidMeans
  <1>2. DOMAIN users = 1 .. Len(users) /\ Len(users) \in Nat
    OBVIOUS
  <1>3. \/ who = NoOne /\ \A i \in DOMAIN users : users[i].token # got
        \/ who \in DOMAIN users /\ users[who].token = got
    BY AuthenticatedIs
  <1> HIDE DEF who
  <1>4. CASE who = NoOne /\ \A i \in DOMAIN users : users[i].token # got
    BY <1>2, <1>4 DEF NoOne, who
  <1>5. CASE who \in DOMAIN users /\ users[who].token = got
    <2>1. ASSUME NEW i \in DOMAIN users, users[i].token = got PROVE i = who
      BY <1>1, <1>2, <1>5, <2>1 DEF SameToken
    <2> QED BY <1>1, <1>5, <2>1 DEF who
  <1> QED BY <1>3, <1>4, <1>5

\* The configured users come first among the merged ones.
LEMMA MergedEntries ==
    ASSUME NEW users \in Seq(User), NEW e \in Environments
    PROVE  /\ \A i \in DOMAIN users :
                i \in DOMAIN Merged(users, e) /\ Merged(users, e)[i] = users[i]
           /\ TokensIn(Merged(users, e)) \subseteq TokensIn(users) \cup {e.token}
  <1>1. CASE Unset \in {e.name, e.token}
    BY <1>1 DEF Merged
  <1>2. CASE Unset \notin {e.name, e.token}
    <2>1. e \in User
      BY <1>2, TokenConstants DEF User
    <2>2. Merged(users, e) = Append(users, e)
      BY <1>2 DEF Merged
    <2>3. /\ Len(users) \in Nat /\ DOMAIN users = 1 .. Len(users)
          /\ DOMAIN Append(users, e) = 1 .. Len(users) + 1
          /\ \A j \in 1 .. Len(users) : Append(users, e)[j] = users[j]
          /\ Append(users, e)[Len(users) + 1] = e
      BY <2>1, AppendProperties
    <2>4. \A j \in 1 .. Len(users) + 1 : j \in 1 .. Len(users) \/ j = Len(users) + 1
      BY <2>3
    <2>5. TokensIn(Append(users, e)) \subseteq TokensIn(users) \cup {e.token}
      BY <2>3, <2>4 DEF TokensIn
    <2> QED BY <2>2, <2>3, <2>5
  <1> QED BY <1>1, <1>2

\* Only a start gives the server users, and they have passed the rules.
LEMMA ServerSteps ==
    ASSUME [Next]_vars
    PROVE  UNCHANGED <<tenants, buried>> \/ Start \/ Stop
    BY DEF Next, vars, RunStep, Begin, Read, Stat, Stage, Chown, Rename, Announce, Kill,
           EditToken, AddUser, RemoveUser, Edited, EditRest, server

RoutedInv == TypeInv /\ (tenants # << >> => validateUserSet(tenants) = {})

\* Whatever is in the file and the environment, and however operators and runs
\* interfere, a server that runs tells its users apart by their tokens: each
\* token authenticates the one user it belongs to, and no malformed one anybody.
THEOREM TokensRouted == Spec => []RoutesByToken
  <1>1. Init => RoutedInv
    BY InitTypeInv DEF Init, RoutedInv
  <1>2. RoutedInv /\ [Next]_vars => RoutedInv'
    <2> SUFFICES ASSUME RoutedInv, [Next]_vars PROVE RoutedInv'
      OBVIOUS
    <2>1. TypeInv'
      BY NextTypeInv DEF RoutedInv
    <2>2. CASE UNCHANGED <<tenants, buried>>
      BY <2>1, <2>2 DEF RoutedInv, validateUserSet, SameName, SameToken
    <2>3. CASE Start
      BY <2>1, <2>3 DEF RoutedInv, Start, checkServeConfig
    <2>4. CASE Stop
      BY <2>1, <2>4 DEF RoutedInv, Stop
    <2> QED BY <2>2, <2>3, <2>4, ServerSteps
  <1>3. RoutedInv => RoutesByToken
    BY ValidAuthenticates DEF RoutedInv, RoutesByToken, TypeInv, TypeOK
  <1> QED BY <1>1, <1>2, <1>3, PTL DEF Spec

-----------------------------------------------------------------------------
\* An operator who does one thing at a time: what a rotation took out of the
\* configuration does not come back into it, nor into a server started after.

\* A step of a run that does not put a file in place.
LEMMA QuietStep ==
    ASSUME TypeInv, NEW r \in Rotators, RunStep(r) \/ Kill(r), ~Rename(r) \/ Abort(r)
    PROVE  /\ UNCHANGED <<file, env, tenants, buried, retired>>
           /\ pc'[r] # "print"
  <1>1. TypeOK
    BY DEF TypeInv
  <1>2. CASE Rename(r) /\ Abort(r)
    <2>1. pc'[r] = "done"
      BY <1>1, <1>2 DEF TypeOK, Abort, Exit, Goto
    <2>2. ~Goto(r, "print")
      BY <1>1, <1>2, <2>1 DEF TypeOK, Goto, Rename
    <2> QED BY <1>2, <2>1, <2>2 DEF Rename, server
  <1>3. CASE Begin(r)
    BY <1>1, <1>3 DEF TypeOK, Begin, Goto, server
  <1>4. CASE Read(r) \/ Stat(r) \/ Stage(r) \/ Chown(r)
    BY <1>1, <1>4 DEF TypeOK, Read, Stat, Stage, Chown, Abort, Exit, Goto, server
  <1>5. CASE Announce(r) \/ Kill(r)
    BY <1>1, <1>5 DEF TypeOK, Announce, Kill, Exit, Goto, server
  <1> QED BY <1>2, <1>3, <1>4, <1>5 DEF RunStep

\* A placeholder may have been retired and typed in again; nothing else.
FreeOfRetired(users) == TokensIn(users) \cap retired \subseteq Malformed

RetiredInv ==
    /\ CarefulInv
    /\ retired \subseteq issued
    /\ buried \subseteq retired
    /\ env.token \notin retired
    /\ FreeOfRetired(file.users)
    /\ \A r \in Rotators :
          pc[r] \in {"stage", "chown", "rename"} => FreeOfRetired(run[r].users)
    /\ TokensIn(tenants) \cap buried = {}

LEMMA InitRetiredInv == Init => RetiredInv
  <1> SUFFICES ASSUME Init PROVE RetiredInv
    OBVIOUS
  <1>1. retired = {} /\ buried = {} /\ \A r \in Rotators : pc[r] = "idle"
    BY DEF Init
  <1> QED BY <1>1, InitCarefulInv DEF RetiredInv, FreeOfRetired

\* A new token was never retired.
LEMMA StatFree ==
    ASSUME RetiredInv, NEW r \in Rotators, Stat(r), pc'[r] = "stage"
    PROVE  FreeOfRetired(run'[r].users)
  <1>1. /\ TypeOK /\ run \in [Rotators -> Memory] /\ Held(r) /\ Copied(r) /\ pc[r] = "stat"
    BY DEF RetiredInv, CarefulInv, TypeInv, TypeOK, Memory, Stat
  <1> DEFINE users(t) == [run[r].users EXCEPT ![run[r].target].token = t]
  <1>2. PICK t \in FreshTokens :
            run' = [run EXCEPT ![r].users = users(t), ![r].owner = file.owner] \/ Abort(r)
    BY DEF Stat
  <1>3. run' = [run EXCEPT ![r].users = users(t), ![r].owner = file.owner]
    BY <1>1, <1>2 DEF TypeOK, Abort, Exit, Goto
  <1>4. t \in Tokens /\ t \notin retired
    BY DEF FreshTokens, RetiredInv
  <1>5. run[r].users = file.users /\ run[r].target \in DOMAIN file.users
    BY <1>1 DEF Copied, Held
  <1>6. TokensIn(users(t)) \subseteq TokensIn(file.users) \cup {t}
    BY <1>1, <1>4, <1>5, TokensReplaced DEF TypeOK, File
  <1> HIDE DEF users
  <1>7. run'[r].users = users(t)
    <2>1. run'[r] = [run[r] EXCEPT !.users = users(t), !.owner = file.owner]
      BY <1>1, <1>3
    <2> QED BY <1>1, <2>1 DEF Memory
  <1> QED BY <1>4, <1>6, <1>7 DEF FreeOfRetired, RetiredInv

\* What a step that puts no file in place has to keep.
LEMMA QuietRetiredInv ==
    ASSUME Careful, RetiredInv, NEW r \in Rotators, RunStep(r) \/ Kill(r),
           ~Rename(r) \/ Abort(r)
    PROVE  RetiredInv'
  <1>1. TypeInv /\ CarefulInv'
    BY StepCarefulInv DEF RetiredInv, CarefulInv
  <1>2. /\ UNCHANGED <<file, env, tenants, buried, retired>> /\ issued \subseteq issued'
        /\ \A q \in Rotators : q # r => pc'[q] = pc[q] /\ run'[q] = run[q]
    BY <1>1, QuietStep, StepOfOne
  <1>3. ASSUME pc'[r] \in {"stage", "chown", "rename"} PROVE FreeOfRetired(run'[r].users)
    <2>1. CASE Stat(r)
      <3>1. pc'[r] = "stage"
        BY <1>1, <1>3, <2>1 DEF TypeInv, TypeOK, Stat, Abort, Exit, Goto
      <3> QED BY <2>1, <3>1, StatFree
    <2>2. CASE (Stage(r) \/ Chown(r)) /\ ~Abort(r)
      BY <2>2 DEF Stage, Chown, RetiredInv
    <2>3. CASE Begin(r) \/ Abort(r) \/ Announce(r) \/ Kill(r)
      BY <1>1, <1>3, <2>3
      DEF TypeInv, TypeOK, Begin, Announce, Kill, Abort, Exit, Goto
    <2>4. CASE Read(r)
      BY <1>1, <1>3, <2>3, <2>4 DEF TypeInv, TypeOK, Read, Abort, Exit, Goto
    <2> QED BY <2>1, <2>2, <2>3, <2>4 DEF RunStep
  <1>4. \A q \in Rotators :
            pc'[q] \in {"stage", "chown", "rename"} => FreeOfRetired(run'[q].users)
    BY <1>2, <1>3 DEF RetiredInv
  <1> QED BY <1>1, <1>2, <1>4 DEF RetiredInv, FreeOfRetired, TokensIn

\* A rename retires what it takes out, and puts nothing retired back in.
LEMMA RenameRetiredInv ==
    ASSUME Careful, RetiredInv, NEW r \in Rotators, Rename(r), ~Abort(r)
    PROVE  RetiredInv'
  <1>1. TypeInv /\ CarefulInv /\ CarefulInv' /\ Held(r) /\ pc[r] = "rename"
    BY RenameCarefulInv DEF RetiredInv, CarefulInv, TypeInv, Rename
  <1>2. /\ UNCHANGED <<env, tenants, buried, issued>>
        /\ file' = staged[r]
        /\ retired' = retired \cup
              (TokensIn(file.users) \ (TokensIn(run[r].users) \cup {env.token}))
    BY DEF Rename, server
  <1>3. file'.users = run[r].users
    BY <1>1, <1>2 DEF Held
  <1>4. retired' \subseteq issued /\ env.token \notin retired' /\ buried \subseteq retired'
    BY <1>1, <1>2 DEF RetiredInv, CarefulInv, Issued
  <1>5. TokensIn(run[r].users) \cap retired' \subseteq Malformed
    BY <1>1, <1>2 DEF RetiredInv, FreeOfRetired
  <1>6. \A q \in Rotators : pc'[q] \notin {"stage", "chown", "rename"}
    <2>1. pc'[r] = "print"
      BY <1>1, RenamePuts
    <2>2. ASSUME NEW q \in Rotators, q # r PROVE pc'[q] \in {"idle", "done"}
      BY <1>1, <2>2, StepOfOne DEF CarefulInv, Alone, Active, RunStep
    <2> QED BY <2>1, <2>2
  <1>7. TokensIn(tenants)' \cap buried' = {}
    BY <1>2 DEF RetiredInv, TokensIn
  <1>8. FreeOfRetired(file.users)'
    BY <1>3, <1>5 DEF FreeOfRetired, TokensIn
  <1> QED BY <1>1, <1>2, <1>4, <1>6, <1>7, <1>8 DEF RetiredInv

\* An edit: the operator types no token that was retired, but a placeholder.
LEMMA EditedRetiredInv ==
    ASSUME RetiredInv, CarefulInv', NEW users,
           file'.users = users,
           UNCHANGED <<env, pc, run, tenants, buried, retired>>, issued \subseteq issued',
           \A r \in Rotators : ~Active(r),
           TokensIn(users) \subseteq
              TokensIn(file.users) \cup Malformed \cup (Tokens \ issued)
    PROVE  RetiredInv'
  <1>1. FreeOfRetired(file.users)'
    BY DEF RetiredInv, FreeOfRetired, TokensIn
  <1>2. \A r \in Rotators : pc'[r] \notin {"stage", "chown", "rename"}
    BY DEF Active
  <1> QED BY <1>1, <1>2 DEF RetiredInv, TokensIn

LEMMA OperatorRetiredInv ==
    ASSUME Careful, RetiredInv, EditToken \/ AddUser \/ RemoveUser \/ EditRest
    PROVE  RetiredInv'
  <1>1. CarefulInv' /\ TypeInv /\ file.users \in Seq(User)
    BY OperatorCarefulInv DEF RetiredInv, CarefulInv, TypeInv, TypeOK, File
  <1>2. ASSUME NEW users, NEW n, NEW t, Edited(users, n, t),
               TokensIn(users) \subseteq TokensIn(file.users) \cup ({t} \ {Unset}),
               t \in FreshTokens \cup Malformed \cup TokensIn(file.users) \cup {Unset}
        PROVE  RetiredInv'
    <2>1. file'.users = users
      BY <1>1, <1>2 DEF Edited, TypeInv, TypeOK, File
    <2>2. TokensIn(users) \subseteq TokensIn(file.users) \cup Malformed \cup (Tokens \ issued)
      BY <1>2 DEF FreshTokens
    <2> QED BY <1>1, <1>2, <2>1, <2>2, EditedRetiredInv DEF Edited, server
  <1>3. FreshTokens \cup Malformed \cup TokensIn(file.users) \subseteq Tokens
    BY <1>1, TokensInTyped, UserConstants DEF FreshTokens
  <1>4. CASE EditToken
    <2>1. PICK i \in DOMAIN file.users,
               t \in FreshTokens \cup Malformed \cup TokensIn(file.users) :
            Edited([file.users EXCEPT ![i].token = t], file.users[i].name, t)
      BY <1>4 DEF EditToken
    <2>2. t \in Tokens /\ t # Unset
      BY <1>3, UserConstants
    <2>3. TokensIn([file.users EXCEPT ![i].token = t]) \subseteq TokensIn(file.users) \cup {t}
      BY <1>1, <2>2, TokensReplaced
    <2> QED BY <1>2, <2>1, <2>2, <2>3
  <1>5. CASE AddUser
    <2>1. PICK n \in UserNames, t \in FreshTokens \cup Malformed \cup TokensIn(file.users) :
            Edited(Append(file.users, [name |-> n, token |-> t]), n, t)
      BY <1>5 DEF AddUser
    <2>2. t \in Tokens /\ t # Unset
      BY <1>3, UserConstants
    <2>3. TokensIn(Append(file.users, [name |-> n, token |-> t]))
            \subseteq TokensIn(file.users) \cup {t}
      BY <1>1, <2>2, AppendedTokens
    <2> QED BY <1>2, <2>1, <2>2, <2>3
  <1>6. CASE RemoveUser
    <2>1. PICK i \in DOMAIN file.users :
            Edited(SubSeq(file.users, 1, i - 1) \o SubSeq(file.users, i + 1, Len(file.users)),
                   file.users[i].name, Unset)
      BY <1>6 DEF RemoveUser
    <2>2. TokensIn(SubSeq(file.users, 1, i - 1) \o SubSeq(file.users, i + 1, Len(file.users)))
            \subseteq TokensIn(file.users)
      BY <1>1, RemainingTokens
    <2> QED BY <1>2, <2>1, <2>2
  <1>7. CASE EditRest
    <2>1. file'.users = file.users
      BY <1>1, <1>7 DEF TypeInv, TypeOK, EditRest, File
    <2> QED BY <1>1, <1>7, <2>1, EditedRetiredInv DEF EditRest, server
  <1> QED BY <1>4, <1>5, <1>6, <1>7

\* A server that starts gets the tokens of the file and of the environment,
\* none of them malformed; what is retired by then is in neither.
LEMMA StartRetiredInv == ASSUME RetiredInv, CarefulInv', Start PROVE RetiredInv'
  <1>1. TypeOK
    BY DEF RetiredInv, CarefulInv, TypeInv
  <1>2. /\ UNCHANGED <<file, env, pc, run, issued, retired>>
        /\ tenants' = Merged(ConfiguredUsers, env) /\ buried' = retired
        /\ validateUserSet(tenants') = {}
    BY DEF Start, checkServeConfig
  <1>3. << >> \in Seq(User) /\ TokensIn(<< >>) = {}
    BY DEF TokensIn
  <1>4. /\ ConfiguredUsers \in Seq(User)
        /\ TokensIn(ConfiguredUsers) \subseteq TokensIn(file.users)
    BY <1>1, <1>3 DEF TypeOK, File, ConfiguredUsers
  <1>5. TokensIn(tenants') \subseteq TokensIn(file.users) \cup {env.token}
    BY <1>1, <1>2, <1>4, MergedEntries DEF TypeOK
  <1>6. TokensIn(tenants') \cap Malformed = {}
    BY <1>2, ValidMeans DEF TokensIn
  <1>7. TokensIn(tenants') \cap buried' = {}
    BY <1>2, <1>5, <1>6 DEF RetiredInv, FreeOfRetired
  <1> QED BY <1>2, <1>7 DEF RetiredInv, FreeOfRetired, TokensIn

LEMMA NextRetiredInv == ASSUME Careful, RetiredInv, [Next]_vars PROVE RetiredInv'
  <1>1. CarefulInv'
    BY NextCarefulInv DEF RetiredInv
  <1>2. CASE UNCHANGED vars
    BY <1>1, <1>2 DEF vars, RetiredInv, FreeOfRetired, TokensIn
  <1>3. CASE Start
    BY <1>1, <1>3, StartRetiredInv
  <1>4. CASE Stop
    <2>1. TokensIn(tenants)' = {}
      BY <1>4 DEF Stop, TokensIn
    <2> QED BY <1>1, <1>4, <2>1 DEF Stop, RetiredInv, FreeOfRetired, TokensIn
  <1>5. CASE \E r \in Rotators : RunStep(r) \/ Kill(r)
    <2>1. PICK r \in Rotators : RunStep(r) \/ Kill(r)
      BY <1>5
    <2> QED BY <2>1, QuietRetiredInv, RenameRetiredInv
  <1>6. CASE EditToken \/ AddUser \/ RemoveUser \/ EditRest
    BY <1>6, OperatorRetiredInv
  <1> QED BY <1>2, <1>3, <1>4, <1>5, <1>6 DEF Next

\* As long as the operator does one thing at a time, a token that was rotated
\* away before the server's last start authenticates nobody, and no later run,
\* edit, failure or restart brings it back.
THEOREM RetiredAreDead == ASSUME Careful PROVE Spec => []RetiredStayDead
  <1>1. Init => RetiredInv
    BY InitRetiredInv
  <1>2. RetiredInv /\ [Next]_vars => RetiredInv'
    BY NextRetiredInv
  <1>3. RetiredInv => RetiredStayDead
    <2> SUFFICES ASSUME RetiredInv, NEW t \in buried PROVE Authenticated(tenants, t) = NoOne
      BY DEF RetiredStayDead
    <2>1. tenants \in Seq(User)
      BY DEF RetiredInv, CarefulInv, TypeInv, TypeOK
    <2>2. \A i \in DOMAIN tenants : tenants[i].token # t
      BY DEF RetiredInv, TokensIn
    <2> QED BY <2>1, <2>2, AuthenticatedIs
  <1> QED BY <1>1, <1>2, <1>3, PTL DEF Spec

-----------------------------------------------------------------------------
\* The token a client was handed is the one in the file, whatever happened to
\* the run that made it.

\* What an entry removed leaves: the other entries, in other places.
LEMMA RemainingEntries ==
    ASSUME NEW users \in Seq(User), NEW i \in DOMAIN users, NEW j \in DOMAIN users, j # i
    PROVE  LET new == SubSeq(users, 1, i - 1) \o SubSeq(users, i + 1, Len(users))
           IN  \E k \in DOMAIN new : new[k] = users[j]
  <1> DEFINE a == SubSeq(users, 1, i - 1)
             b == SubSeq(users, i + 1, Len(users))
  <1> SUFFICES \E k \in DOMAIN (a \o b) : (a \o b)[k] = users[j]
    OBVIOUS
  <1>1. i \in 1 .. Len(users) /\ j \in 1 .. Len(users) /\ Len(users) \in Nat
    OBVIOUS
  <1>2. a \in Seq(User) /\ b \in Seq(User)
    BY <1>1
  <1>3. CASE j < i
    <2>1. j \in 1 .. Len(a) /\ a[j] = users[j]
      BY <1>1, <1>3
    <2> HIDE DEF a, b
    <2>2. j \in DOMAIN (a \o b) /\ (a \o b)[j] = a[j]
      BY <1>2, <2>1
    <2> QED BY <2>1, <2>2
  <1>4. CASE j > i
    <2>1. j - i \in 1 .. Len(b) /\ b[j - i] = users[j]
      BY <1>1, <1>4
    <2> HIDE DEF a, b
    <2>2. Len(a) + (j - i) \in DOMAIN (a \o b) /\ (a \o b)[Len(a) + (j - i)] = b[j - i]
      BY <1>2, <2>1
    <2> QED BY <2>1, <2>2
  <1> HIDE DEF a, b
  <1> QED BY <1>1, <1>3, <1>4

\* The token that user n was last told is in the file, or, if n is cut off,
\* another one is.
Known(n) ==
    /\ n \notin CutOff /\ given[n] # Unset =>
        \E i \in DOMAIN file.users :
            file.users[i].name = n /\ file.users[i].token = given[n]
    /\ n \in CutOff =>
        \E i \in DOMAIN file.users :
            file.users[i].name = n /\ file.users[i].token # given[n]

\* The token that a run is about to put into the file is nobody's yet.
Secret(r) ==
    pc[r] \in {"stage", "chown", "rename"} =>
        \A n \in UserNames : run[r].users[run[r].target].token # given[n]

GivenInv ==
    /\ CarefulInv
    /\ \A n \in UserNames : Known(n) /\ given[n] \in issued \cup {Unset}
    /\ \A r \in Rotators : pc[r] = "print" => run[r].users = file.users
    /\ \A r \in Rotators : Secret(r)

LEMMA InitGivenInv == Init => GivenInv
  <1> SUFFICES ASSUME Init PROVE GivenInv
    OBVIOUS
  <1>1. \A r \in Rotators : pc[r] = "idle"
    BY DEF Init
  <1>2. CutOff = {}
    BY <1>1 DEF Init, CutOff, Unsaid
  <1>3. ASSUME NEW n \in UserNames, given[n] # Unset
        PROVE  \E i \in DOMAIN file.users :
                  file.users[i].name = n /\ file.users[i].token = given[n]
    <2>1. PICK j \in DOMAIN file.users : file.users[j].name = n
      BY <1>3 DEF Init, GivenAtFirst
    <2> DEFINE i == CHOOSE k \in DOMAIN file.users : file.users[k].name = n
    <2>2. i \in DOMAIN file.users /\ file.users[i].name = n
      BY <2>1
    <2>3. given[n] = file.users[i].token
      BY <2>1 DEF Init, GivenAtFirst
    <2> HIDE DEF i
    <2> QED BY <2>2, <2>3
  <1>4. CarefulInv
    BY InitCarefulInv
  <1>5. \A n \in UserNames : given[n] \in issued \cup {Unset}
    BY <1>3, <1>4 DEF CarefulInv, Issued, TokensIn
  <1> QED BY <1>1, <1>2, <1>3, <1>4, <1>5 DEF GivenInv, Known, Secret

\* A name whose entry in the file, and whose history, a step leaves alone.
LEMMA StillKnown ==
    ASSUME NEW n \in UserNames, Known(n), given'[n] = given[n],
           n \in CutOff' <=> n \in CutOff,
           \A j \in DOMAIN file.users : file.users[j].name = n =>
              \E k \in DOMAIN file'.users :
                 file'.users[k].name = n /\ file'.users[k].token = file.users[j].token
    PROVE  Known(n)'
  <1>1. CASE n \in CutOff
    <2>1. n \in CutOff'
      BY <1>1
    <2> QED BY <1>1, <2>1 DEF Known
  <1>2. CASE n \notin CutOff
    <2>1. n \notin CutOff'
      BY <1>2
    <2> QED BY <1>2, <2>1 DEF Known
  <1> QED BY <1>1, <1>2

\* The token of r is printed, and reaches its user.
Tells(r) ==
    /\ pc[r] = "print"
    /\ LET user == run[r].users[run[r].target] IN
          /\ given' = [given EXCEPT ![user.name] = user.token]
          /\ untold' = untold \ {user.name}

\* What a step of one run does to the set of the users cut off.
LEMMA CutOffOfOne ==
    ASSUME Careful, CarefulInv, NEW r \in Rotators, RunStep(r) \/ Kill(r)
    PROVE  /\ CutOff = untold \cup Unsaid(r)
           /\ CutOff' = untold' \cup Unsaid(r)'
  <1>1. /\ TypeInv /\ \A q \in Rotators : q # r => pc'[q] = pc[q]
        /\ Active(r) \/ Begin(r)
    BY StepOfOne DEF CarefulInv
  <1>2. \A q \in Rotators : q # r => pc[q] # "print"
    BY <1>1 DEF CarefulInv, Alone, Active, Begin
  <1>3. \A q \in Rotators : q # r => Unsaid(q) = {} /\ Unsaid(q)' = {}
    BY <1>1, <1>2 DEF Unsaid
  <1> HIDE DEF Unsaid
  <1> QED BY <1>3 DEF CutOff

LEMMA QuietTells ==
    ASSUME TypeInv, NEW r \in Rotators, RunStep(r) \/ Kill(r), ~Rename(r) \/ Abort(r)
    PROVE  \/ UNCHANGED given /\ untold' = untold \cup Unsaid(r)
           \/ Tells(r)
  <1>1. CASE Announce(r)
    BY <1>1 DEF Announce, Tells
  <1>2. CASE Kill(r)
    BY <1>2 DEF Kill
  <1>3. CASE pc[r] # "print" /\ UNCHANGED told
    BY <1>3 DEF Unsaid, told
  <1>4. Begin(r) \/ Read(r) \/ Stat(r) \/ Stage(r) \/ Chown(r) \/ Rename(r)
            => pc[r] # "print" /\ UNCHANGED told
    BY DEF Begin, Read, Stat, Stage, Chown, Rename, told
  <1> QED BY <1>1, <1>2, <1>3, <1>4 DEF RunStep

\* The file stays; a run's user is told the token the file has for it.
LEMMA TellsKnown ==
    ASSUME GivenInv, NEW r \in Rotators, Tells(r), UNCHANGED file,
           CutOff = untold \cup Unsaid(r), CutOff' = untold', NEW n \in UserNames
    PROVE  Known(n)' /\ given'[n] \in issued \cup {Unset}
  <1>1. /\ TypeOK /\ Held(r) /\ pc[r] = "print" /\ run[r].users = file.users
        /\ Known(n) /\ given[n] \in issued \cup {Unset} /\ Issued
    BY DEF GivenInv, CarefulInv, TypeInv, Tells
  <1> DEFINE i == run[r].target
             user == file.users[i]
  <1>2. i \in DOMAIN file.users /\ user.name \in UserNames
    BY <1>1, TokensInTyped DEF Held, TypeOK, File
  <1>3. given' = [given EXCEPT ![user.name] = user.token] /\ untold' = untold \ {user.name}
    BY <1>1 DEF Tells
  <1>4. Unsaid(r) = {user.name}
    BY <1>1 DEF Unsaid
  <1>5. user.token \in issued
    BY <1>1, <1>2 DEF Issued, TokensIn
  <1> HIDE DEF i
  <1>6. CASE n = user.name
    <2>1. given'[n] = user.token /\ n \notin CutOff'
      BY <1>1, <1>2, <1>3, <1>6 DEF TypeOK
    <2> QED BY <1>1, <1>2, <1>5, <1>6, <2>1 DEF Known
  <1>7. CASE n # user.name
    <2>1. given'[n] = given[n]
      BY <1>1, <1>2, <1>3, <1>7 DEF TypeOK
    <2>2. n \in CutOff' <=> n \in CutOff
      BY <1>3, <1>4, <1>7
    <2> QED BY <1>1, <2>1, <2>2, StillKnown
  <1> QED BY <1>6, <1>7

\* The generator has the run's token from outside of what was issued.
LEMMA StatSecret ==
    ASSUME GivenInv, NEW r \in Rotators, Stat(r) PROVE Secret(r)'
  <1>1. /\ TypeOK /\ run \in [Rotators -> Memory] /\ Held(r) /\ pc[r] = "stat"
        /\ UNCHANGED given
    BY DEF GivenInv, CarefulInv, TypeInv, TypeOK, Memory, Stat, told
  <1> DEFINE users(t) == [run[r].users EXCEPT ![run[r].target].token = t]
  <1>2. PICK t \in FreshTokens :
            \/ run' = [run EXCEPT ![r].users = users(t), ![r].owner = file.owner]
            \/ Abort(r)
    BY DEF Stat
  <1>3. t \in Tokens /\ t \notin issued /\ t # Unset
    BY UserConstants DEF FreshTokens
  <1>4. \A n \in UserNames : t # given[n]
    BY <1>3 DEF GivenInv
  <1>5. users(t)[run[r].target].token = t
    <2>1. run[r].users \in Seq(User) /\ run[r].target \in DOMAIN run[r].users
      BY <1>1 DEF Held, Memory
    <2> QED BY <1>3, <2>1, Replacing DEF Replaces
  <1>6. CASE run' = [run EXCEPT ![r].users = users(t), ![r].owner = file.owner]
    <2> HIDE DEF users
    <2>1. run'[r] = [run[r] EXCEPT !.users = users(t), !.owner = file.owner]
      BY <1>1, <1>6
    <2>2. run'[r].users = users(t) /\ run'[r].target = run[r].target
      BY <1>1, <2>1 DEF Memory
    <2> QED BY <1>1, <1>4, <1>5, <2>2 DEF Secret
  <1>7. CASE Abort(r)
    BY <1>1, <1>7 DEF Abort, Exit, Goto, TypeOK, Secret
  <1> QED BY <1>2, <1>6, <1>7

\* A run keeps its secret until the rename; no other run is under way.
LEMMA StepSecret ==
    ASSUME Careful, GivenInv, NEW r \in Rotators, RunStep(r) \/ Kill(r)
    PROVE  \A q \in Rotators : Secret(q)'
  <1>1. /\ TypeInv /\ TypeOK /\ Alone /\ Alone' /\ Secret(r)
        /\ \A q \in Rotators : q # r => pc'[q] = pc[q]
        /\ Active(r) \/ Begin(r)
    BY StepOfOne, AloneKept DEF GivenInv, CarefulInv, TypeInv
  <1>2. ASSUME NEW q \in Rotators, q # r PROVE Secret(q)'
    <2>1. ~Active(q)
      BY <1>1, <1>2 DEF Alone, Begin
    <2>2. pc'[q] \in {"idle", "done"}
      BY <1>1, <1>2, <2>1 DEF Active
    <2> QED BY <2>2 DEF Secret
  <1>3. CASE Begin(r) \/ Read(r)
    <2>1. pc'[r] \notin {"stage", "chown", "rename"}
      BY <1>1, <1>3 DEF TypeOK, Begin, Read, Abort, Exit, Goto
    <2> QED BY <1>2, <2>1 DEF Secret
  <1>4. CASE Stat(r)
    BY <1>2, <1>4, StatSecret
  <1>5. CASE Stage(r) \/ Chown(r)
    <2>1. UNCHANGED given /\ pc[r] \in {"stage", "chown"}
      BY <1>5 DEF Stage, Chown, told
    <2>2. CASE UNCHANGED run
      BY <1>1, <1>2, <2>1, <2>2 DEF Secret
    <2>3. CASE Abort(r)
      <3>1. pc'[r] = "done"
        BY <1>1, <2>3 DEF TypeOK, Abort, Exit, Goto
      <3> QED BY <1>2, <3>1 DEF Secret
    <2> QED BY <1>5, <2>2, <2>3 DEF Stage, Chown
  <1>6. CASE Rename(r) \/ Announce(r) \/ Kill(r)
    <2>1. pc'[r] \in {"print", "done"}
      BY <1>1, <1>6 DEF TypeOK, Rename, Announce, Kill, Abort, Exit, Goto
    <2> QED BY <1>2, <2>1 DEF Secret
  <1> QED BY <1>3, <1>4, <1>5, <1>6 DEF RunStep

LEMMA QuietGivenInv ==
    ASSUME Careful, GivenInv, NEW r \in Rotators, RunStep(r) \/ Kill(r),
           ~Rename(r) \/ Abort(r)
    PROVE  GivenInv'
  <1>1. TypeInv /\ CarefulInv /\ CarefulInv'
    BY StepCarefulInv DEF GivenInv, CarefulInv
  <1>2. /\ UNCHANGED file /\ pc'[r] # "print" /\ issued \subseteq issued'
        /\ \A q \in Rotators : q # r => pc'[q] = pc[q] /\ run'[q] = run[q]
    BY <1>1, QuietStep, StepOfOne
  <1>3. CutOff = untold \cup Unsaid(r) /\ CutOff' = untold'
    <2>1. Unsaid(r)' = {}
      BY <1>2 DEF Unsaid
    <2> QED BY <1>1, <2>1, CutOffOfOne
  <1>4. ASSUME NEW n \in UserNames PROVE Known(n)' /\ given'[n] \in issued' \cup {Unset}
    <2>1. CASE UNCHANGED given /\ untold' = untold \cup Unsaid(r)
      <3>1. Known(n) /\ given[n] \in issued \cup {Unset}
        BY DEF GivenInv
      <3>2. CutOff' = CutOff
        BY <1>3, <2>1
      <3>3. Known(n)'
        BY <1>2, <2>1, <3>1, <3>2, StillKnown
      <3> QED BY <1>2, <2>1, <3>1, <3>3
    <2>2. CASE Tells(r)
      BY <1>2, <1>3, <2>2, TellsKnown
    <2> QED BY <1>1, <2>1, <2>2, QuietTells
  <1>5. \A q \in Rotators : pc'[q] = "print" => run'[q].users = file'.users
    BY <1>2 DEF GivenInv
  <1> QED BY <1>1, <1>4, <1>5, StepSecret DEF GivenInv

\* The run's target has a token in the file that it was not told, and is cut
\* off; the other names keep theirs.
LEMMA RenameGivenInv ==
    ASSUME Careful, GivenInv, NEW r \in Rotators, Rename(r), ~Abort(r)
    PROVE  GivenInv'
  <1>1. /\ TypeInv /\ TypeOK /\ CarefulInv /\ CarefulInv' /\ Held(r) /\ pc[r] = "rename"
        /\ file.users \in Seq(User)
    BY RenameCarefulInv DEF GivenInv, CarefulInv, TypeInv, Rename, TypeOK, File
  <1> DEFINE i == run[r].target
             name == file.users[i].name
  <1>2. /\ file' = staged[r] /\ UNCHANGED <<run, given, untold, issued>>
    BY DEF Rename, told
  <1>3. run[r].users = file'.users
    BY <1>1, <1>2 DEF Held
  <1>4. i \in DOMAIN file.users /\ pc'[r] = "print"
    BY <1>1, RenamePuts
  <1>5. PICK t \in Unused : file'.users = [file.users EXCEPT ![i].token = t]
    BY <1>1, RenamePuts
  <1>6. Replaces(file'.users, file.users, i, t)
    <2>1. t \in Tokens
      BY <1>1 DEF Unused, TypeOK
    <2> QED BY <1>1, <1>4, <1>5, <2>1, Replacing
  <1>7. CutOff = untold /\ CutOff' = untold \cup {name}
    <2>1. Unsaid(r) = {} /\ Unsaid(r)' = {name}
      BY <1>1, <1>2, <1>3, <1>4, <1>6 DEF Unsaid, Replaces
    <2> QED BY <1>1, <1>2, <2>1, CutOffOfOne DEF RunStep
  <1>8. ASSUME NEW n \in UserNames PROVE Known(n)'
    <2>1. CASE n = name
      <3>1. file'.users[i].name = n /\ file'.users[i].token = t /\ i \in DOMAIN file'.users
        BY <1>4, <1>6, <2>1 DEF Replaces
      <3>2. t # given'[n]
        BY <1>1, <1>2, <1>3, <3>1 DEF GivenInv, Secret
      <3>3. n \in CutOff'
        BY <1>7, <2>1
      <3> QED BY <3>1, <3>2, <3>3 DEF Known
    <2>2. CASE n # name
      <3>1. \A j \in DOMAIN file.users : file.users[j].name = n =>
                j \in DOMAIN file'.users /\ file'.users[j] = file.users[j]
        BY <1>6, <2>2 DEF Replaces
      <3>2. Known(n) /\ given'[n] = given[n] /\ (n \in CutOff' <=> n \in CutOff)
        BY <1>2, <1>7, <2>2 DEF GivenInv
      <3> QED BY <3>1, <3>2, StillKnown
    <2> QED BY <2>1, <2>2
  <1>9. \A q \in Rotators : q # r => pc'[q] \in {"idle", "done"}
    BY <1>1, StepOfOne DEF CarefulInv, Alone, Active, RunStep
  <1>10. \A q \in Rotators : pc'[q] = "print" => run'[q].users = file'.users
    BY <1>2, <1>3, <1>9
  <1>11. \A n \in UserNames : given'[n] \in issued' \cup {Unset}
    BY <1>2 DEF GivenInv
  <1>12. \A q \in Rotators : Secret(q)'
    BY StepSecret DEF RunStep
  <1> QED BY <1>1, <1>8, <1>10, <1>11, <1>12 DEF GivenInv

\* An edit tells the user its new token, if it has one; the entries of the
\* other names are in the file as before.
LEMMA EditedGivenInv ==
    ASSUME Careful, GivenInv, CarefulInv', NEW users, NEW name \in UserNames,
           NEW t \in Tokens \cup {Unset}, Edited(users, name, t),
           t # Unset => \E i \in DOMAIN users : users[i].name = name /\ users[i].token = t,
           \A j \in DOMAIN file.users : file.users[j].name # name =>
              \E k \in DOMAIN users : users[k] = file.users[j]
    PROVE  GivenInv'
  <1>1. TypeOK /\ file \in File
    BY DEF GivenInv, CarefulInv, TypeInv, TypeOK
  <1>2. /\ file'.users = users /\ UNCHANGED <<pc, run>>
        /\ given' = [given EXCEPT ![name] = t] /\ untold' = untold \ {name}
        /\ issued' = issued \cup ({t} \ {Unset})
        /\ \A r \in Rotators : pc[r] \in {"idle", "done"}
    BY <1>1 DEF Edited, File, Active
  <1>3. \A r \in Rotators : Unsaid(r) = {} /\ Unsaid(r)' = {}
    BY <1>2 DEF Unsaid
  <1>4. CutOff = untold /\ CutOff' = untold \ {name}
    <2> HIDE DEF Unsaid
    <2> QED BY <1>2, <1>3 DEF CutOff
  <1>5. ASSUME NEW n \in UserNames PROVE Known(n)' /\ given'[n] \in issued' \cup {Unset}
    <2>1. CASE n = name
      <3>1. given'[n] = t /\ n \notin CutOff'
        BY <1>1, <1>2, <1>4, <2>1 DEF TypeOK
      <3>2. t # Unset => \E i \in DOMAIN file'.users :
                            file'.users[i].name = n /\ file'.users[i].token = t
        BY <1>2, <2>1
      <3> QED BY <1>2, <3>1, <3>2 DEF Known
    <2>2. CASE n # name
      <3>1. given'[n] = given[n] /\ (n \in CutOff' <=> n \in CutOff)
        BY <1>1, <1>2, <1>4, <2>2 DEF TypeOK
      <3>2. Known(n) /\ given[n] \in issued \cup {Unset}
        BY DEF GivenInv
      <3>3. \A j \in DOMAIN file.users : file.users[j].name = n =>
                \E k \in DOMAIN file'.users :
                    file'.users[k].name = n /\ file'.users[k].token = file.users[j].token
        BY <1>2, <2>2
      <3>4. Known(n)'
        BY <3>1, <3>2, <3>3, StillKnown
      <3> QED BY <1>2, <3>1, <3>2, <3>4
    <2> QED BY <2>1, <2>2
  <1>6. \A r \in Rotators : (pc'[r] = "print" => run'[r].users = file'.users) /\ Secret(r)'
    BY <1>2 DEF Secret
  <1> QED BY <1>5, <1>6 DEF GivenInv

\* The operator tells the user's client the token he types in.
LEMMA OperatorGivenInv ==
    ASSUME Careful, GivenInv, EditToken \/ AddUser \/ RemoveUser \/ EditRest
    PROVE  GivenInv'
  <1>1. CarefulInv' /\ TypeOK /\ file.users \in Seq(User)
    BY OperatorCarefulInv DEF GivenInv, CarefulInv, TypeInv, TypeOK, File
  <1>2. FreshTokens \cup Malformed \cup TokensIn(file.users) \subseteq Tokens
    BY <1>1, TokensInTyped, UserConstants DEF FreshTokens
  <1>3. \A i \in DOMAIN file.users : file.users[i].name \in UserNames
    BY <1>1, TokensInTyped
  <1>4. CASE EditToken
    <2>1. PICK i \in DOMAIN file.users,
               t \in FreshTokens \cup Malformed \cup TokensIn(file.users) :
            Edited([file.users EXCEPT ![i].token = t], file.users[i].name, t)
      BY <1>4 DEF EditToken
    <2> DEFINE users == [file.users EXCEPT ![i].token = t]
    <2>2. t \in Tokens
      BY <1>2, <2>1
    <2>3. Replaces(users, file.users, i, t)
      BY <1>1, <2>2, Replacing
    <2> HIDE DEF users
    <2>4. Edited(users, file.users[i].name, t)
      BY <2>1 DEF users
    <2>5. \E j \in DOMAIN users : users[j].name = file.users[i].name /\ users[j].token = t
      BY <2>3 DEF Replaces
    <2>6. \A j \in DOMAIN file.users : file.users[j].name # file.users[i].name =>
              \E k \in DOMAIN users : users[k] = file.users[j]
      BY <2>3 DEF Replaces
    <2> QED BY <1>1, <1>3, <2>2, <2>4, <2>5, <2>6, EditedGivenInv
  <1>5. CASE AddUser
    <2>1. PICK n \in UserNames, t \in FreshTokens \cup Malformed \cup TokensIn(file.users) :
            Edited(Append(file.users, [name |-> n, token |-> t]), n, t)
      BY <1>5 DEF AddUser
    <2> DEFINE e == [name |-> n, token |-> t]
               users == Append(file.users, e)
               L == Len(file.users)
    <2>2. e \in User /\ e.name = n /\ e.token = t /\ t \in Tokens
      BY <1>2 DEF User
    <2> HIDE DEF e
    <2>3. /\ L \in Nat /\ DOMAIN file.users = 1 .. L /\ DOMAIN users = 1 .. L + 1
          /\ users[L + 1] = e
          /\ \A j \in 1 .. L : users[j] = file.users[j]
      BY <1>1, <2>2, AppendProperties
    <2>4. Edited(users, n, t)
      BY <2>1 DEF e
    <2> HIDE DEF L, users
    <2>5. /\ \E i \in DOMAIN users : users[i].name = n /\ users[i].token = t
          /\ \A j \in DOMAIN file.users : \E k \in DOMAIN users : users[k] = file.users[j]
      <3>1. L + 1 \in DOMAIN users /\ \A j \in 1 .. L : j \in DOMAIN users
        BY <2>3
      <3> QED BY <2>2, <2>3, <3>1
    <2> QED BY <1>1, <2>2, <2>4, <2>5, EditedGivenInv
  <1>6. CASE RemoveUser
    <2>1. PICK i \in DOMAIN file.users :
            Edited(SubSeq(file.users, 1, i - 1) \o SubSeq(file.users, i + 1, Len(file.users)),
                   file.users[i].name, Unset)
      BY <1>6 DEF RemoveUser
    <2> DEFINE new == SubSeq(file.users, 1, i - 1) \o SubSeq(file.users, i + 1, Len(file.users))
    <2>2. \A j \in DOMAIN file.users : j # i => \E k \in DOMAIN new : new[k] = file.users[j]
      BY <1>1, RemainingEntries
    <2>3. Edited(new, file.users[i].name, Unset)
      BY <2>1
    <2> HIDE DEF new
    <2>4. \A j \in DOMAIN file.users : file.users[j].name # file.users[i].name =>
              \E k \in DOMAIN new : new[k] = file.users[j]
      BY <2>2
    <2> QED BY <1>1, <1>3, <2>3, <2>4, EditedGivenInv
  <1>7. CASE EditRest
    <2>1. file'.users = file.users /\ UNCHANGED <<given, untold, pc, run, issued>>
      BY <1>1, <1>7 DEF TypeOK, EditRest, File, told
    <2>2. CutOff' = CutOff
      BY <2>1 DEF CutOff, Unsaid
    <2> QED BY <1>1, <2>1, <2>2 DEF GivenInv, Known, Secret
  <1> QED BY <1>4, <1>5, <1>6, <1>7

LEMMA NextGivenInv == ASSUME Careful, GivenInv, [Next]_vars PROVE GivenInv'
  <1>1. CarefulInv'
    BY NextCarefulInv DEF GivenInv
  <1>2. CASE UNCHANGED vars \/ Start \/ Stop
    <2>1. UNCHANGED <<file, given, untold, pc, run, issued>>
      BY <1>2 DEF vars, Start, Stop, told
    <2>2. CutOff' = CutOff
      BY <2>1 DEF CutOff, Unsaid
    <2> QED BY <1>1, <2>1, <2>2 DEF GivenInv, Known, Secret
  <1>3. CASE \E r \in Rotators : RunStep(r) \/ Kill(r)
    <2>1. PICK r \in Rotators : RunStep(r) \/ Kill(r)
      BY <1>3
    <2> QED BY <2>1, QuietGivenInv, RenameGivenInv
  <1>4. CASE EditToken \/ AddUser \/ RemoveUser \/ EditRest
    BY <1>4, OperatorGivenInv
  <1> QED BY <1>2, <1>3, <1>4 DEF Next

\* Of users that pass the rules, one has a given token, and one a given name.
LEMMA ValidKnows ==
    ASSUME NEW users \in Seq(User), validateUserSet(users) = {}, NEW i \in DOMAIN users,
           NEW token
    PROVE  LET who == Authenticated(users, token)
           IN  (who # NoOne /\ users[who].name = users[i].name) <=> users[i].token = token
  <1> DEFINE who == Authenticated(users, token)
  <1>1. DOMAIN users = 1 .. Len(users) /\ Len(users) \in Nat
    OBVIOUS
  <1>2. CASE users[i].token = token
    <2>1. who = i
      BY <1>2, ValidAuthenticates
    <2> HIDE DEF who
    <2> QED BY <1>1, <1>2, <2>1 DEF NoOne, who
  <1>3. CASE users[i].token # token
    <2> SUFFICES ASSUME who # NoOne, users[who].name = users[i].name PROVE FALSE
      BY <1>3
    <2>1. who \in DOMAIN users /\ users[who].token = token
      BY AuthenticatedIs
    <2> HIDE DEF who
    <2>2. ~SameName(users)
      BY ValidMeans
    <2>3. who < i \/ i < who
      BY <1>1, <1>3, <2>1
    <2> QED BY <2>1, <2>2, <2>3 DEF SameName
  <1> QED BY <1>2, <1>3

\* As long as the operator does one thing at a time, every user's last told
\* token is the one by which a server started now would know that user, if and
\* only if no run is between its rename and its print for that user, or ended
\* there with nothing done for that user since; whatever else runs, fails or
\* is killed, and at whatever step.
THEOREM GivenTokensAreGood == ASSUME Careful PROVE Spec => []GivenTokensWork
  <1>1. Init => GivenInv
    BY InitGivenInv
  <1>2. GivenInv /\ [Next]_vars => GivenInv'
    BY NextGivenInv
  <1>3. GivenInv => GivenTokensWork
    <2> SUFFICES ASSUME GivenInv, Startable(file), NEW n \in UserNames, given[n] # Unset
                 PROVE  KnownBy(n, given[n]) <=> n \notin CutOff
      BY DEF GivenTokensWork
    <2> DEFINE users == Merged(file.users, env)
    <2>1. file.users \in Seq(User) /\ env \in Environments
      BY DEF GivenInv, CarefulInv, TypeInv, TypeOK, File
    <2>2. users \in Seq(User) /\ validateUserSet(users) = {}
      BY <2>1, MergedTyped DEF Startable, checkServeConfig
    <2>3. PICK i \in DOMAIN file.users :
            /\ file.users[i].name = n
            /\ file.users[i].token = given[n] <=> n \notin CutOff
      BY DEF GivenInv, Known
    <2>4. i \in DOMAIN users /\ users[i] = file.users[i]
      BY <2>1, MergedEntries
    <2>5. KnownBy(n, given[n]) <=> users[i].token = given[n]
      <3> HIDE DEF users
      <3>1. KnownBy(n, given[n]) <=>
               LET who == Authenticated(users, given[n])
               IN  who # NoOne /\ users[who].name = users[i].name
        BY <2>3, <2>4 DEF KnownBy, users
      <3> QED BY <2>2, <2>4, <3>1, ValidKnows
    <2> QED BY <2>3, <2>4, <2>5
  <1> QED BY <1>1, <1>2, <1>3, PTL DEF Spec

=============================================================================
