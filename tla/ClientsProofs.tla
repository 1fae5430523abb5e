--------------------------- MODULE ClientsProofs ---------------------------
(***************************************************************************)
(* Theorems about Clients, for any number of machines, commands under way, *)
(* names, values and keys: the state keeps its shape; get prints only what *)
(* was set under the name it was asked for; init replaces no identity; and *)
(* with overlapping keys a get reads what the last answer promised.        *)
(***************************************************************************)
EXTENDS Clients, TLAPS

-----------------------------------------------------------------------------
\* The ciphertexts on the server and in requests.

Known(c) == c = NoFile \/ <<c.bound, c.value>> \in Offered

\* Every ciphertext was made by a set of its name and value.
Bound ==
    /\ \A n \in Names : Known(store[n])
    /\ \A p \in Procs : Known(run[p].body)
    /\ \A r \in late : Known(r.body)

-----------------------------------------------------------------------------
\* init.

\* Whoever is about to write created the file, and is alone with it.
Writers ==
    /\ \A p \in Procs : run[p].pc = "write" =>
          /\ idfile[run[p].machine] = << >>
          /\ \A q \in Procs : run[q].pc = "write" /\ run[q].machine = run[p].machine => q = p
    /\ \A p \in Procs : /\ run[p].pc \in {"create", "write"} <=> run[p].op = "init"
                        /\ run[p].op = "init" => run[p].machine \in Machines

-----------------------------------------------------------------------------
\* Keys, for the careful.

CanRead(k) == \A m \in Machines : NoIdentity(m) \/ k \in Held(m)

\* While a careful user runs init on a machine, nobody has an identity, or
\* only that machine does.
OneIdentity ==
    \A p, q \in Procs : run[p].op = "init" =>
        /\ run[q].op = "init" => run[q].machine = run[p].machine
        /\ \A m \in Machines \ {run[p].machine} : NoIdentity(m)
        /\ run[p].pc = "write" => NoIdentity(run[p].machine)

-----------------------------------------------------------------------------
\* What the user knows.

Matches(n, s) ==
    IF s = Gone THEN store[n] = NoFile
    ELSE store[n] # NoFile /\ store[n].bound = n /\ store[n].value = s

SettledIsTrue == \A n \in Names : settled[n] # Unknown => Quiet(n) /\ Matches(n, settled[n])

SureOfGet ==
    \A p \in Procs : run[p].op = "get" /\ run[p].pc = "request" /\ run[p].sure # Unknown =>
        /\ run[p].name \in Names
        /\ settled[run[p].name] = run[p].sure
        /\ store[run[p].name] # NoFile => store[run[p].name].key \in Elements(run[p].ids)

SureOfChange ==
    \A p \in Procs : run[p].pc = "request" /\ Changes(run[p]) /\ run[p].sure # Unknown =>
        /\ \A q \in Procs \ {p} :
              run[q].pc = "request" /\ Changes(run[q]) => Target(run[q]) # Target(run[p])
        /\ \A r \in late : Target(r) # Target(run[p])
        /\ run[p].op = "set" =>
              /\ run[p].body # NoFile
              /\ run[p].body.bound = Target(run[p])
              /\ run[p].body.value = run[p].sure
        /\ run[p].op = "delete" => run[p].sure = Gone

-----------------------------------------------------------------------------
\* The shape of the state.

Bodies == Ciphertexts \cup {NoFile}

Knowable == Values \cup {Gone, Unknown}

LEMMA IdleTyped == Idle \in Commands
  BY DEF Idle, Commands

LEMMA EndedTyped ==
    ASSUME NEW r \in Commands, NEW v \in Values \cup {NoValue},
           NEW how \in {"absent", "failed", "refused", "printed"}
    PROVE  Ended(r, how, v) \in Commands
  <1>1. << >> \in Seq(Keys) OBVIOUS
  <1>2. [pc |-> "done", op |-> "get", machine |-> Nowhere, name |-> r.name, value |-> v,
         ids |-> << >>, body |-> NoFile, out |-> how, sure |-> r.sure] \in Commands
    BY <1>1 DEF Commands
  <1> QED BY <1>2, IdleTyped DEF Ended

LEMMA GetTyped ==
    ASSUME NEW t \in Typed, NEW s \in Knowable
    PROVE  [Idle EXCEPT !.pc = "request", !.op = "get", !.name = t, !.sure = s] \in Commands
  BY IdleTyped DEF Commands, Knowable

LEMMA LoadedTyped ==
    ASSUME NEW r \in Commands, NEW ids \in Seq(Keys) PROVE [r EXCEPT !.ids = ids] \in Commands
  BY DEF Commands

LEMMA SetTyped ==
    ASSUME NEW t \in Typed, NEW c \in Ciphertexts
    PROVE  [Idle EXCEPT !.pc = "request", !.op = "set", !.name = t, !.body = c] \in Commands
  BY IdleTyped DEF Commands

LEMMA DeleteTyped ==
    ASSUME NEW t \in Typed
    PROVE  [Idle EXCEPT !.pc = "request", !.op = "delete", !.name = t] \in Commands
  BY IdleTyped DEF Commands

LEMMA InitTyped ==
    ASSUME NEW m \in Machines, NEW k \in Keys
    PROVE  [Idle EXCEPT !.pc = "create", !.op = "init", !.machine = m, !.ids = <<k>>]
             \in Commands
  <1>1. <<k>> \in Seq(Keys) OBVIOUS
  <1> QED BY <1>1, IdleTyped DEF Commands

LEMMA SureTyped ==
    ASSUME NEW r \in Commands, NEW s \in Knowable
    PROVE  [r EXCEPT !.sure = s] \in Commands
  BY DEF Commands, Knowable

LEMMA WritingTyped ==
    ASSUME NEW r \in Commands PROVE [r EXCEPT !.pc = "write"] \in Commands
  BY DEF Commands

LEMMA DoubtTyped ==
    ASSUME NEW runs \in [Procs -> Commands], NEW n
    PROVE  Doubt(runs, n) \in [Procs -> Commands]
  <1>1. \A q \in Procs : [runs[q] EXCEPT !.sure = Unknown] \in Commands
    BY SureTyped DEF Knowable
  <1> QED BY <1>1 DEF Doubt

LEMMA ForgetTyped ==
    ASSUME TypeOK, NEW n, Forget(n)
    PROVE  settled' \in [Names -> Knowable]
  BY DEF TypeOK, Forget, Knowable

LEMMA BeginChangeTyped ==
    ASSUME TypeOK, NEW p \in Procs, NEW r \in Commands, NEW then \in Knowable,
           BeginChange(p, r, then)
    PROVE  run' \in [Procs -> Commands] /\ settled' \in [Names -> Knowable]
  <1>1. Doubt(run, Target(r)) \in [Procs -> Commands] BY DoubtTyped DEF TypeOK
  <1>2. [r EXCEPT !.sure = IF Quiet(Target(r)) THEN then ELSE Unknown] \in Commands
    BY SureTyped DEF Knowable
  <1>3. run' \in [Procs -> Commands] BY <1>1, <1>2 DEF BeginChange
  <1> QED BY <1>3, ForgetTyped DEF BeginChange

LEMMA ServeTyped ==
    ASSUME TypeOK, NEW r, NEW answer, r.body \in Bodies, Serve(r, answer)
    PROVE  store' \in [Names -> Bodies]
  BY DEF TypeOK, Serve, Bodies

LEMMA TypeStep == TypeOK /\ [Next]_vars => TypeOK'
  <1> SUFFICES ASSUME TypeOK, [Next]_vars PROVE TypeOK' OBVIOUS
  <1> USE DEF TypeOK, Bodies, Knowable
  <1>1. ASSUME NEW p \in Procs, StartGet(p) PROVE TypeOK'
    <2> DEFINE r(t) == [Idle EXCEPT !.pc = "request", !.op = "get", !.name = t,
                                    !.sure = IF t \in Names THEN settled[t] ELSE Unknown]
    <2>1. PICK m \in Machines, t \in Typed :
            IF NoIdentity(m) THEN Fails(p, r(t))
            ELSE run' = [run EXCEPT ![p] = [r(t) EXCEPT !.ids = idfile[m]]]
      BY <1>1 DEF StartGet
    <2>2. r(t) \in Commands BY GetTyped
    <2> HIDE DEF r
    <2>3. CASE NoIdentity(m)
      BY <1>1, <2>1, <2>2, <2>3, EndedTyped DEF StartGet, Fails
    <2>4. CASE ~NoIdentity(m)
      <3>1. idfile[m] \in Seq(Keys) BY <2>4 DEF NoIdentity
      <3>2. [r(t) EXCEPT !.ids = idfile[m]] \in Commands BY <2>2, <3>1, LoadedTyped
      <3> QED BY <1>1, <2>1, <2>4, <3>2 DEF StartGet
    <2> QED BY <2>3, <2>4
  <1>2. ASSUME NEW p \in Procs, StartSet(p) PROVE TypeOK'
    <2>1. PICK m \in Machines, o \in Offered :
            /\ o[1] \in Names /\ ~NoIdentity(m)
            /\ BeginChange(p, [Idle EXCEPT !.pc = "request", !.op = "set", !.name = o[1],
                                           !.body = Sealed(idfile[m], o[1], o[2])], o[2])
      BY <1>2 DEF StartSet
    <2>2. o[1] \in Typed /\ o[2] \in Values BY ClientConstants
    <2>3. EncryptionTarget(idfile[m]) \in Keys BY <2>1 DEF EncryptionTarget, NoIdentity
    <2>4. Sealed(idfile[m], o[1], o[2]) \in Ciphertexts
      BY <2>1, <2>2, <2>3 DEF Sealed, Ciphertexts
    <2>5. [Idle EXCEPT !.pc = "request", !.op = "set", !.name = o[1],
                       !.body = Sealed(idfile[m], o[1], o[2])] \in Commands
      BY <2>2, <2>4, SetTyped
    <2> QED BY <1>2, <2>1, <2>2, <2>5, BeginChangeTyped DEF StartSet
  <1>3. ASSUME NEW p \in Procs, StartDelete(p) PROVE TypeOK'
    <2>1. PICK t \in Typed :
            BeginChange(p, [Idle EXCEPT !.pc = "request", !.op = "delete", !.name = t], Gone)
      BY <1>3 DEF StartDelete
    <2>2. [Idle EXCEPT !.pc = "request", !.op = "delete", !.name = t] \in Commands
      BY DeleteTyped
    <2> QED BY <1>3, <2>1, <2>2, BeginChangeTyped DEF StartDelete
  <1>4. ASSUME NEW p \in Procs, Finish(p) PROVE TypeOK'
    <2>1. PICK answer \in Answers :
            /\ Serve(run[p], answer)
            /\ IF run[p].op = "get" /\ answer = "ok"
               THEN Show(p, run[p], store[Target(run[p])])
               ELSE run' = [run EXCEPT ![p] = Ended(run[p], answer, NoValue)]
            /\ settled' = [n \in Names |->
                  IF Changes(run[p]) /\ answer # "failed" /\ n = Target(run[p]) THEN run[p].sure
                  ELSE settled[n]]
      BY <1>4 DEF Finish
    <2>2. run[p] \in Commands OBVIOUS
    <2>3. store' \in [Names -> Bodies] BY <2>1, <2>2, ServeTyped DEF Commands
    <2>4. settled' \in [Names -> Knowable] BY <2>1, <2>2 DEF Commands
    <2>5. run' \in [Procs -> Commands]
      <3>1. CASE run[p].op = "get" /\ answer = "ok"
        <4>1. Ended(run[p], "refused", NoValue) \in Commands BY <2>2, EndedTyped
        <4>2. ASSUME Opens(store[Target(run[p])], Elements(run[p].ids), run[p].name)
              PROVE  Ended(run[p], "printed", store[Target(run[p])].value) \in Commands
          <5>1. store[Target(run[p])].value \in Values
            BY <4>2 DEF Opens, Decrypts, Ciphertexts
          <5> QED BY <5>1, <2>2, EndedTyped
        <4> QED BY <2>1, <3>1, <4>1, <4>2 DEF Show
      <3>2. CASE ~(run[p].op = "get" /\ answer = "ok")
        <4>1. Ended(run[p], answer, NoValue) \in Commands
          BY <2>2, <3>2, EndedTyped, IdleTyped DEF Ended, Answers
        <4> QED BY <2>1, <3>2, <4>1
      <3> QED BY <3>1, <3>2
    <2> QED BY <1>4, <2>3, <2>4, <2>5 DEF Finish
  <1>5. ASSUME NEW p \in Procs, Abort(p) PROVE TypeOK'
    <2>1. Ended(run[p], "failed", NoValue) \in Commands BY EndedTyped
    <2>2. run[p] \in Commands OBVIOUS
    <2>3. ASSUME Changes(run[p])
          PROVE  [op |-> run[p].op, name |-> run[p].name, body |-> run[p].body]
                   \in [op : {"set", "delete"}, name : Typed \cup {BadName}, body : Bodies]
      BY <2>2, <2>3 DEF Commands, Changes
    <2> QED BY <1>5, <2>1, <2>3 DEF Abort, Fails
  <1>6. ASSUME NEW p \in Procs, Quit(p) PROVE TypeOK' BY <1>6, IdleTyped DEF Quit
  <1>7. ASSUME NEW p \in Procs, StartInit(p) PROVE TypeOK'
    <2>1. PICK m \in Machines, k \in Keys :
            run' = [run EXCEPT ![p] = [Idle EXCEPT !.pc = "create", !.op = "init",
                                                   !.machine = m, !.ids = <<k>>]]
      BY <1>7 DEF StartInit
    <2>2. [Idle EXCEPT !.pc = "create", !.op = "init", !.machine = m, !.ids = <<k>>]
            \in Commands
      BY InitTyped
    <2> QED BY <1>7, <2>1, <2>2 DEF StartInit
  <1>8. ASSUME NEW p \in Procs, Create(p) PROVE TypeOK'
    <2>1. [run[p] EXCEPT !.pc = "write"] \in Commands BY WritingTyped
    <2>2. Ended(run[p], "failed", NoValue) \in Commands BY EndedTyped
    <2>3. << >> \in Seq(Keys) OBVIOUS
    <2>4. run' \in [Procs -> Commands] BY <1>8, <2>1, <2>2 DEF Create, Fails
    <2>5. idfile' \in [Machines -> Seq(Keys) \cup {Absent}] BY <1>8, <2>3 DEF Create
    <2> QED BY <1>8, <2>4, <2>5 DEF Create
  <1>9. ASSUME NEW p \in Procs, Write(p) PROVE TypeOK'
    <2>1. run[p].ids \in Seq(Keys) BY DEF Commands
    <2> QED BY <1>9, <2>1, IdleTyped DEF Write
  <1>10. ASSUME FinishLate PROVE TypeOK'
    <2>1. PICK r \in late, answer \in Answers : Serve(r, answer) BY <1>10 DEF FinishLate
    <2>2. store' \in [Names -> Bodies] BY <2>1, ServeTyped
    <2> QED BY <1>10, <2>2 DEF FinishLate
  <1>11. CASE Stop BY <1>11 DEF Stop
  <1>12. CASE Boot BY <1>12 DEF Boot
  <1>13. CASE Rotate
    <2>1. PICK m \in Machines, k \in Keys :
            /\ \A n \in Listed(store) : Migrates(n, store[n], Held(m))
            /\ store' = [n \in Names |-> IF store[n] = NoFile THEN NoFile
                                         ELSE Rotated(n, store[n], k)]
      BY <1>13 DEF Rotate
    <2>2. ASSUME NEW n \in Names, store[n] # NoFile
          PROVE  Rotated(n, store[n], k) \in Ciphertexts
      BY <2>2 DEF Rotated, Ciphertexts
    <2> QED BY <1>13, <2>1, <2>2 DEF Rotate
  <1>14. CASE Misfile
    <2>1. PICK n \in Names, o \in Names :
            /\ store' = [store EXCEPT ![o] = store[n]]
            /\ run' = Doubt(run, o)
            /\ Forget(o)
      BY <1>14 DEF Misfile
    <2> QED BY <1>14, <2>1, DoubtTyped, ForgetTyped DEF Misfile
  <1>15. ASSUME NEW m \in Machines, NEW ids \in IdentityFiles, Install(m, ids)
         PROVE  TypeOK'
    <2>1. ids \in Seq(Keys)
      <3>1. CASE \E k \in Keys : ids = <<k>> BY <3>1
      <3>2. CASE ids \in Keys \X Keys
        <4>1. PICK k \in Keys, l \in Keys : ids = <<k, l>> BY <3>2
        <4> QED BY <4>1
      <3> QED BY <1>15, <3>1, <3>2 DEF IdentityFiles
    <2> QED BY <1>15, <2>1 DEF Install
  <1>16. CASE UNCHANGED vars BY <1>16 DEF vars
  <1> QED BY <1>1, <1>2, <1>3, <1>4, <1>5, <1>6, <1>7, <1>8, <1>9, <1>10, <1>11, <1>12,
             <1>13, <1>14, <1>15, <1>16 DEF Next, Step, Operator

\* The state keeps its shape (client.go, identity.go).
THEOREM TypeCorrect == Spec => []TypeOK
  <1>1. Init => TypeOK
    BY IdleTyped, ClientConstants DEF Init, TypeOK, EmptyDir
  <1> QED BY <1>1, TypeStep, PTL DEF Spec

-----------------------------------------------------------------------------
\* The records of commands.

LEMMA IdleFields ==
    /\ Idle.pc = "idle" /\ Idle.op = "none" /\ Idle.machine = Nowhere
    /\ Idle.name = BadName /\ Idle.ids = << >> /\ Idle.body = NoFile
    /\ Idle.out = "none" /\ Idle.sure = Unknown
  BY DEF Idle

LEMMA EndedFields ==
    ASSUME NEW r, NEW v, NEW how
    PROVE  LET e == Ended(r, how, v)
           IN  /\ e.pc \in {"idle", "done"} /\ e.op \in {"none", "get"}
               /\ e.pc = "done" => r.op = "get" /\ e.sure = r.sure /\ e.out = how /\ e.value = v
               /\ e.body = NoFile /\ e.ids = << >> /\ e.machine = Nowhere
               /\ e.out \in {"none", how}
               /\ e.out = how /\ how # "none" => e.name = r.name /\ e.value = v
  <1>1. CASE r.op = "get" BY <1>1 DEF Ended
  <1>2. CASE r.op # "get" BY <1>2, IdleFields DEF Ended
  <1> QED BY <1>1, <1>2

\* A doubt changes nothing but what the user is sure of.
LEMMA DoubtFields ==
    ASSUME NEW runs \in [Procs -> Commands], NEW n, NEW q \in Procs
    PROVE  LET d == Doubt(runs, n)[q]
               r == runs[q]
           IN  /\ d.pc = r.pc /\ d.op = r.op /\ d.machine = r.machine /\ d.name = r.name
               /\ d.value = r.value /\ d.ids = r.ids /\ d.body = r.body /\ d.out = r.out
               /\ d.sure = IF Target(r) = n THEN Unknown ELSE r.sure
  <1>1. runs[q] \in Commands OBVIOUS
  <1>2. CASE Target(runs[q]) = n
    <2>1. Doubt(runs, n)[q] = [runs[q] EXCEPT !.sure = Unknown] BY <1>2 DEF Doubt
    <2> QED BY <1>1, <1>2, <2>1 DEF Commands
  <1>3. CASE Target(runs[q]) # n
    <2>1. Doubt(runs, n)[q] = runs[q] BY <1>3 DEF Doubt
    <2> QED BY <1>3, <2>1
  <1> QED BY <1>2, <1>3

LEMMA BeginFields ==
    ASSUME TypeOK, NEW p \in Procs, NEW r \in Commands, NEW then \in Knowable,
           BeginChange(p, r, then), NEW q \in Procs
    PROVE  LET d == run'[q]
               o == IF q = p THEN r ELSE run[q]
           IN  /\ d.pc = o.pc /\ d.op = o.op /\ d.machine = o.machine /\ d.name = o.name
               /\ d.value = o.value /\ d.ids = o.ids /\ d.body = o.body /\ d.out = o.out
               /\ d.sure = IF q = p THEN IF Quiet(Target(r)) THEN then ELSE Unknown
                           ELSE IF Target(o) = Target(r) THEN Unknown ELSE o.sure
  <1>1. Doubt(run, Target(r)) \in [Procs -> Commands] BY DoubtTyped DEF TypeOK
  <1>2. CASE q = p
    <2>1. run'[q] = [r EXCEPT !.sure = IF Quiet(Target(r)) THEN then ELSE Unknown]
      BY <1>1, <1>2 DEF BeginChange
    <2> QED BY <1>2, <2>1 DEF Commands
  <1>3. CASE q # p
    <2>1. run'[q] = Doubt(run, Target(r))[q] BY <1>1, <1>3 DEF BeginChange
    <2> QED BY <1>3, <2>1, DoubtFields DEF TypeOK
  <1> QED BY <1>2, <1>3

-----------------------------------------------------------------------------
\* get prints what was set under the name.

LEMMA KnownRotates ==
    ASSUME NEW n \in Names, NEW c, NEW ids, NEW k, Known(c), c # NoFile, Migrates(n, c, ids)
    PROVE  c.bound = n /\ Known(Rotated(n, c, k))
  <1>1. c.bound \in Typed BY ClientConstants DEF Known
  <1>2. c.bound = n BY <1>1, ClientConstants DEF Migrates
  <1> QED BY <1>2 DEF Known, Rotated

Honest(r) == Known(r.body) /\ (r.out = "printed" => <<r.name, r.value>> \in Offered)

LEMMA HonestIdle == Honest(Idle) BY IdleFields DEF Honest, Known

LEMMA HonestEnds ==
    ASSUME NEW r, NEW v, NEW how, how = "printed" => <<r.name, v>> \in Offered
    PROVE  Honest(Ended(r, how, v))
  BY EndedFields DEF Honest, Known

LEMMA OwnNameStep ==
    TypeOK /\ Bound /\ PrintsOwnName /\ [Next]_vars => Bound' /\ PrintsOwnName'
  <1> SUFFICES ASSUME TypeOK, Bound, PrintsOwnName, [Next]_vars
               PROVE  Bound' /\ PrintsOwnName'
    OBVIOUS
  <1> DEFINE Stored == \A n \in Names : Known(store'[n])
             Running == \A q \in Procs : Honest(run'[q])
             Late == \A r \in late' : Known(r.body)
  <1>h. \A q \in Procs : Honest(run[q]) BY DEF Bound, PrintsOwnName, Honest
  <1>g. Stored /\ Running /\ Late => Bound' /\ PrintsOwnName'
    BY DEF Bound, PrintsOwnName, Honest
  <1>s. store' = store => Stored BY DEF Bound
  <1>r. ASSUME NEW p \in Procs, NEW r, run' = [run EXCEPT ![p] = r], Honest(r)
        PROVE  Running
    BY <1>h, <1>r DEF TypeOK
  <1>l. late' \subseteq late => Late BY DEF Bound
  <1>b. ASSUME NEW p \in Procs, NEW r \in Commands, NEW then \in Knowable,
               BeginChange(p, r, then), Honest(r)
        PROVE  Running
    BY <1>h, <1>b, BeginFields DEF Honest
  <1>v. ASSUME NEW r, NEW answer, Serve(r, answer), Known(r.body) PROVE Stored
    BY <1>v DEF Serve, Bound, Known, TypeOK
  <1>1. ASSUME NEW p \in Procs, StartGet(p) PROVE Bound' /\ PrintsOwnName'
    <2> DEFINE r(t) == [Idle EXCEPT !.pc = "request", !.op = "get", !.name = t,
                                    !.sure = IF t \in Names THEN settled[t] ELSE Unknown]
    <2>1. PICK m \in Machines, t \in Typed :
            IF NoIdentity(m) THEN Fails(p, r(t))
            ELSE run' = [run EXCEPT ![p] = [r(t) EXCEPT !.ids = idfile[m]]]
      BY <1>1 DEF StartGet
    <2>2. r(t) \in Commands BY GetTyped DEF TypeOK, Knowable
    <2>3. r(t).body = NoFile /\ r(t).out = "none" BY IdleTyped, IdleFields DEF Commands
    <2> HIDE DEF r
    <2>4. Honest([r(t) EXCEPT !.ids = idfile[m]]) BY <2>2, <2>3 DEF Honest, Known, Commands
    <2>5. Honest(Ended(r(t), "failed", NoValue)) BY HonestEnds
    <2>6. Running BY <1>r, <2>1, <2>4, <2>5 DEF Fails
    <2> QED BY <1>1, <1>g, <1>s, <1>l, <2>6 DEF StartGet
  <1>2. ASSUME NEW p \in Procs, StartSet(p) PROVE Bound' /\ PrintsOwnName'
    <2> DEFINE r(m, o) == [Idle EXCEPT !.pc = "request", !.op = "set", !.name = o[1],
                                       !.body = Sealed(idfile[m], o[1], o[2])]
    <2>1. PICK m \in Machines, o \in Offered :
            /\ o[1] \in Names /\ ~NoIdentity(m)
            /\ BeginChange(p, r(m, o), o[2])
      BY <1>2 DEF StartSet
    <2>2. o[1] \in Typed /\ o[2] \in Values /\ o = <<o[1], o[2]>> BY ClientConstants
    <2>3. EncryptionTarget(idfile[m]) \in Keys
      BY <2>1 DEF EncryptionTarget, NoIdentity, TypeOK
    <2>4. Sealed(idfile[m], o[1], o[2]) \in Ciphertexts
      BY <2>1, <2>2, <2>3 DEF Sealed, Ciphertexts
    <2>5. r(m, o) \in Commands BY <2>2, <2>4, SetTyped
    <2>6. r(m, o).body = Sealed(idfile[m], o[1], o[2]) /\ r(m, o).out = "none"
      BY IdleTyped, IdleFields DEF Commands
    <2> HIDE DEF r
    <2>7. Honest(r(m, o)) BY <2>2, <2>6 DEF Honest, Known, Sealed
    <2>8. Running BY <1>b, <2>1, <2>2, <2>5, <2>7 DEF Knowable
    <2> QED BY <1>2, <1>g, <1>s, <1>l, <2>8 DEF StartSet
  <1>3. ASSUME NEW p \in Procs, StartDelete(p) PROVE Bound' /\ PrintsOwnName'
    <2> DEFINE r(t) == [Idle EXCEPT !.pc = "request", !.op = "delete", !.name = t]
    <2>1. PICK t \in Typed : BeginChange(p, r(t), Gone) BY <1>3 DEF StartDelete
    <2>2. r(t) \in Commands BY DeleteTyped
    <2>3. r(t).body = NoFile /\ r(t).out = "none" BY IdleTyped, IdleFields DEF Commands
    <2> HIDE DEF r
    <2>4. Honest(r(t)) BY <2>3 DEF Honest, Known
    <2>5. Running BY <1>b, <2>1, <2>2, <2>4 DEF Knowable
    <2> QED BY <1>3, <1>g, <1>s, <1>l, <2>5 DEF StartDelete
  <1>4. ASSUME NEW p \in Procs, Finish(p) PROVE Bound' /\ PrintsOwnName'
    <2>1. PICK answer \in Answers :
            /\ Serve(run[p], answer)
            /\ IF run[p].op = "get" /\ answer = "ok"
               THEN Show(p, run[p], store[Target(run[p])])
               ELSE run' = [run EXCEPT ![p] = Ended(run[p], answer, NoValue)]
      BY <1>4 DEF Finish
    <2>2. Stored BY <1>h, <1>v, <2>1 DEF Honest
    <2>3. Running
      <3>1. CASE run[p].op = "get" /\ answer = "ok"
        <4> DEFINE c == store[Target(run[p])]
        <4>1. Honest(Ended(run[p], "refused", NoValue)) BY HonestEnds
        <4>2. ASSUME Opens(c, Elements(run[p].ids), run[p].name)
              PROVE  Honest(Ended(run[p], "printed", c.value))
          <5>1. Target(run[p]) \in Names BY <2>1, <3>1 DEF Serve
          <5>2. c \in Ciphertexts /\ c.bound = run[p].name BY <4>2 DEF Opens, Decrypts
          <5>3. c # NoFile BY <5>2, MarkersAreNoCiphertexts DEF Ciphertexts
          <5>4. <<c.bound, c.value>> \in Offered BY <5>1, <5>3 DEF Bound, Known
          <5> QED BY <5>2, <5>4, HonestEnds
        <4> QED BY <1>r, <2>1, <3>1, <4>1, <4>2 DEF Show
      <3>2. CASE ~(run[p].op = "get" /\ answer = "ok")
        <4>1. Honest(Ended(run[p], answer, NoValue)) BY HonestEnds DEF Answers
        <4> QED BY <1>r, <2>1, <3>2, <4>1
      <3> QED BY <3>1, <3>2
    <2> QED BY <1>4, <1>g, <1>l, <2>2, <2>3 DEF Finish
  <1>5. ASSUME NEW p \in Procs, Abort(p) PROVE Bound' /\ PrintsOwnName'
    <2>1. Honest(Ended(run[p], "failed", NoValue)) BY HonestEnds
    <2>2. Running BY <1>5, <1>r, <2>1 DEF Abort, Fails
    <2>3. Known(run[p].body) BY <1>h DEF Honest
    <2>4. Late BY <1>5, <2>3 DEF Abort, Bound
    <2> QED BY <1>5, <1>g, <1>s, <2>2, <2>4 DEF Abort
  <1>6. ASSUME NEW p \in Procs, Quit(p) PROVE Bound' /\ PrintsOwnName'
    <2>1. Running BY <1>6, <1>r, HonestIdle DEF Quit
    <2> QED BY <1>6, <1>g, <1>s, <1>l, <2>1 DEF Quit
  <1>7. ASSUME NEW p \in Procs, StartInit(p) PROVE Bound' /\ PrintsOwnName'
    <2> DEFINE r(m, k) == [Idle EXCEPT !.pc = "create", !.op = "init", !.machine = m,
                                       !.ids = <<k>>]
    <2>1. PICK m \in Machines, k \in Keys : run' = [run EXCEPT ![p] = r(m, k)]
      BY <1>7 DEF StartInit
    <2>2. r(m, k).body = NoFile /\ r(m, k).out = "none"
      BY IdleTyped, IdleFields DEF Commands
    <2> HIDE DEF r
    <2>3. Honest(r(m, k)) BY <2>2 DEF Honest, Known
    <2>4. Running BY <1>r, <2>1, <2>3
    <2> QED BY <1>7, <1>g, <1>s, <1>l, <2>4 DEF StartInit
  <1>8. ASSUME NEW p \in Procs, Create(p) PROVE Bound' /\ PrintsOwnName'
    <2>1. Honest([run[p] EXCEPT !.pc = "write"])
      <3>1. run[p] \in Commands BY DEF TypeOK
      <3> QED BY <1>h, <3>1 DEF Honest, Commands
    <2>2. Honest(Ended(run[p], "failed", NoValue)) BY HonestEnds
    <2>3. \/ run' = [run EXCEPT ![p] = [run[p] EXCEPT !.pc = "write"]]
          \/ run' = [run EXCEPT ![p] = Ended(run[p], "failed", NoValue)]
      BY <1>8 DEF Create, Fails
    <2>4. Running BY <1>r, <2>1, <2>2, <2>3
    <2> QED BY <1>8, <1>g, <1>s, <1>l, <2>4 DEF Create
  <1>9. ASSUME NEW p \in Procs, Write(p) PROVE Bound' /\ PrintsOwnName'
    <2>1. Running BY <1>9, <1>r, HonestIdle DEF Write
    <2> QED BY <1>9, <1>g, <1>s, <1>l, <2>1 DEF Write
  <1>10. ASSUME FinishLate PROVE Bound' /\ PrintsOwnName'
    <2>1. PICK r \in late, answer \in Answers : Serve(r, answer) BY <1>10 DEF FinishLate
    <2>2. Stored BY <1>v, <2>1 DEF Bound
    <2> QED BY <1>10, <1>g, <1>h, <1>l, <2>2 DEF FinishLate
  <1>11. CASE Stop BY <1>11, <1>g, <1>h, <1>s, <1>l DEF Stop
  <1>12. CASE Boot BY <1>12, <1>g, <1>h, <1>s, <1>l DEF Boot
  <1>13. CASE Rotate
    <2>1. PICK m \in Machines, k \in Keys :
            /\ \A n \in Listed(store) : Migrates(n, store[n], Held(m))
            /\ store' = [n \in Names |-> IF store[n] = NoFile THEN NoFile
                                         ELSE Rotated(n, store[n], k)]
      BY <1>13 DEF Rotate
    <2>2. ASSUME NEW n \in Names, store[n] # NoFile PROVE Known(Rotated(n, store[n], k))
      BY <2>1, <2>2, KnownRotates DEF Bound, Listed
    <2>3. Stored BY <2>1, <2>2 DEF Known
    <2> QED BY <1>13, <1>g, <1>h, <1>l, <2>3 DEF Rotate
  <1>14. CASE Misfile
    <2>1. PICK n \in Names, o \in Names :
            store' = [store EXCEPT ![o] = store[n]] /\ run' = Doubt(run, o)
      BY <1>14 DEF Misfile
    <2>2. Stored BY <2>1 DEF Bound, TypeOK
    <2>3. Running BY <1>h, <2>1, DoubtFields DEF Honest, TypeOK
    <2> QED BY <1>14, <1>g, <1>l, <2>2, <2>3 DEF Misfile
  <1>15. ASSUME NEW m \in Machines, NEW ids \in IdentityFiles, Install(m, ids)
         PROVE  Bound' /\ PrintsOwnName'
    BY <1>15, <1>g, <1>h, <1>s, <1>l DEF Install
  <1>16. CASE UNCHANGED vars BY <1>16, <1>g, <1>h, <1>s, <1>l DEF vars
  <1> QED BY <1>1, <1>2, <1>3, <1>4, <1>5, <1>6, <1>7, <1>8, <1>9, <1>10, <1>11, <1>12,
             <1>13, <1>14, <1>15, <1>16 DEF Next, Step, Operator

LEMMA OwnNameInit == Init => Bound /\ PrintsOwnName
  BY IdleFields DEF Init, Bound, PrintsOwnName, Known, EmptyDir

\* get prints under a name only what was set under it, for any keys, files,
\* rotations and misfiled ciphertexts (client.go:97-111, envelope.go:40-62).
THEOREM OwnName == Spec => []PrintsOwnName
  <1>1. Init => TypeOK /\ Bound /\ PrintsOwnName
    <2>1. Init => TypeOK BY IdleTyped, ClientConstants DEF Init, TypeOK, EmptyDir
    <2> QED BY <2>1, OwnNameInit
  <1>2. TypeOK /\ Bound /\ PrintsOwnName /\ [Next]_vars
          => (TypeOK /\ Bound /\ PrintsOwnName)'
    BY TypeStep, OwnNameStep
  <1> QED BY <1>1, <1>2, PTL DEF Spec

-----------------------------------------------------------------------------
\* init writes only to the file it has created.

\* What Writers says of one command.
Inits(r) ==
    /\ r.pc \in {"create", "write"} <=> r.op = "init"
    /\ r.op = "init" => r.machine \in Machines

LEMMA InitsIdle == Inits(Idle) BY IdleFields DEF Inits

LEMMA InitsEnded ==
    ASSUME NEW r, NEW v, NEW how
    PROVE  Inits(Ended(r, how, v)) /\ Ended(r, how, v).pc # "write"
  BY EndedFields DEF Inits

LEMMA WritersStep == TypeOK /\ Writers /\ [Next]_vars => Writers'
  <1> SUFFICES ASSUME TypeOK, Writers, [Next]_vars PROVE Writers' OBVIOUS
  <1> DEFINE W == \A q \in Procs : Inits(run'[q])
  <1>h. \A q \in Procs : Inits(run[q]) BY DEF Writers, Inits
  <1>g. ASSUME W,
               \A q \in Procs : run'[q].pc = "write" =>
                  /\ idfile'[run'[q].machine] = << >>
                  /\ \A o \in Procs : run'[o].pc = "write" /\ run'[o].machine = run'[q].machine
                                        => o = q
        PROVE  Writers'
    BY <1>g DEF Writers, Inits
  \* Most steps start no writing, and touch no file.
  <1>k. ASSUME W, idfile' = idfile,
               \A q \in Procs : run'[q].pc = "write" =>
                  run[q].pc = "write" /\ run'[q].machine = run[q].machine
        PROVE  Writers'
    <2>1. ASSUME NEW q \in Procs, run'[q].pc = "write"
          PROVE  /\ idfile'[run'[q].machine] = << >>
                 /\ \A o \in Procs : run'[o].pc = "write" /\ run'[o].machine = run'[q].machine
                                       => o = q
      BY <1>k, <2>1 DEF Writers
    <2> QED BY <1>g, <1>k, <2>1
  <1>r. ASSUME NEW p \in Procs, NEW r, run' = [run EXCEPT ![p] = r], Inits(r),
               r.pc # "write", idfile' = idfile
        PROVE  Writers'
    <2>1. W BY <1>h, <1>r DEF TypeOK
    <2>2. ASSUME NEW q \in Procs, run'[q].pc = "write"
          PROVE  run[q].pc = "write" /\ run'[q].machine = run[q].machine
      BY <1>r, <2>2 DEF TypeOK
    <2> QED BY <1>k, <1>r, <2>1, <2>2
  <1>b. ASSUME NEW p \in Procs, NEW r \in Commands, NEW then \in Knowable,
               BeginChange(p, r, then), Inits(r), r.pc # "write", idfile' = idfile
        PROVE  Writers'
    <2>1. W BY <1>h, <1>b, BeginFields DEF Inits
    <2>2. ASSUME NEW q \in Procs, run'[q].pc = "write"
          PROVE  run[q].pc = "write" /\ run'[q].machine = run[q].machine
      BY <1>b, <2>2, BeginFields
    <2> QED BY <1>k, <1>b, <2>1, <2>2
  <1>1. ASSUME NEW p \in Procs, StartGet(p) PROVE Writers'
    <2> DEFINE r(t) == [Idle EXCEPT !.pc = "request", !.op = "get", !.name = t,
                                    !.sure = IF t \in Names THEN settled[t] ELSE Unknown]
    <2>1. PICK m \in Machines, t \in Typed :
            IF NoIdentity(m) THEN Fails(p, r(t))
            ELSE run' = [run EXCEPT ![p] = [r(t) EXCEPT !.ids = idfile[m]]]
      BY <1>1 DEF StartGet
    <2>2. r(t) \in Commands BY GetTyped DEF TypeOK, Knowable
    <2>3. r(t).pc = "request" /\ r(t).op = "get" BY IdleTyped DEF Commands
    <2> HIDE DEF r
    <2>4. LET s == [r(t) EXCEPT !.ids = idfile[m]] IN Inits(s) /\ s.pc # "write"
      BY <2>2, <2>3 DEF Inits, Commands
    <2> QED BY <1>1, <1>r, <2>1, <2>4, InitsEnded DEF StartGet, Fails
  <1>2. ASSUME NEW p \in Procs, StartSet(p) PROVE Writers'
    <2> DEFINE r(m, o) == [Idle EXCEPT !.pc = "request", !.op = "set", !.name = o[1],
                                       !.body = Sealed(idfile[m], o[1], o[2])]
    <2>1. PICK m \in Machines, o \in Offered :
            o[1] \in Names /\ ~NoIdentity(m) /\ BeginChange(p, r(m, o), o[2])
      BY <1>2 DEF StartSet
    <2>2. o[1] \in Typed /\ o[2] \in Values BY ClientConstants
    <2>3. EncryptionTarget(idfile[m]) \in Keys
      BY <2>1 DEF EncryptionTarget, NoIdentity, TypeOK
    <2>4. Sealed(idfile[m], o[1], o[2]) \in Ciphertexts
      BY <2>1, <2>2, <2>3 DEF Sealed, Ciphertexts
    <2>5. r(m, o) \in Commands BY <2>2, <2>4, SetTyped
    <2>6. r(m, o).pc = "request" /\ r(m, o).op = "set" BY IdleTyped DEF Commands
    <2> HIDE DEF r
    <2> QED BY <1>2, <1>b, <2>1, <2>2, <2>5, <2>6 DEF StartSet, Inits, Knowable
  <1>3. ASSUME NEW p \in Procs, StartDelete(p) PROVE Writers'
    <2> DEFINE r(t) == [Idle EXCEPT !.pc = "request", !.op = "delete", !.name = t]
    <2>1. PICK t \in Typed : BeginChange(p, r(t), Gone) BY <1>3 DEF StartDelete
    <2>2. r(t) \in Commands BY DeleteTyped
    <2>3. r(t).pc = "request" /\ r(t).op = "delete" BY IdleTyped DEF Commands
    <2> HIDE DEF r
    <2> QED BY <1>3, <1>b, <2>1, <2>2, <2>3 DEF StartDelete, Inits, Knowable
  <1>4. ASSUME NEW p \in Procs, Finish(p) PROVE Writers'
    <2>1. PICK how, v : run' = [run EXCEPT ![p] = Ended(run[p], how, v)]
      BY <1>4 DEF Finish, Show
    <2> QED BY <1>4, <1>r, <2>1, InitsEnded DEF Finish
  <1>5. ASSUME NEW p \in Procs, Abort(p) PROVE Writers'
    BY <1>5, <1>r, InitsEnded DEF Abort, Fails
  <1>6. ASSUME NEW p \in Procs, Quit(p) PROVE Writers'
    BY <1>6, <1>r, InitsIdle, IdleFields DEF Quit
  <1>7. ASSUME NEW p \in Procs, StartInit(p) PROVE Writers'
    <2> DEFINE r(m, k) == [Idle EXCEPT !.pc = "create", !.op = "init", !.machine = m,
                                       !.ids = <<k>>]
    <2>1. PICK m \in Machines, k \in Keys : run' = [run EXCEPT ![p] = r(m, k)]
      BY <1>7 DEF StartInit
    <2>2. r(m, k).pc = "create" /\ r(m, k).op = "init" /\ r(m, k).machine = m
      BY IdleTyped DEF Commands
    <2> HIDE DEF r
    <2> QED BY <1>7, <1>r, <2>1, <2>2 DEF StartInit, Inits
  <1>8. ASSUME NEW p \in Procs, Create(p) PROVE Writers'
    <2>1. CASE Fails(p, run[p]) /\ idfile' = idfile BY <1>r, <2>1, InitsEnded DEF Fails
    <2>2. CASE /\ idfile[run[p].machine] = Absent
               /\ idfile' = [idfile EXCEPT ![run[p].machine] = << >>]
               /\ run' = [run EXCEPT ![p].pc = "write"]
      <3>1. run[p] \in Commands BY DEF TypeOK
      <3>2. LET r == [run[p] EXCEPT !.pc = "write"]
            IN  r.pc = "write" /\ r.op = run[p].op /\ r.machine = run[p].machine
        BY <3>1 DEF Commands
      <3>3. run[p].pc = "create" BY <1>8 DEF Create
      <3>4. run[p].op = "init" /\ run[p].machine \in Machines BY <1>h, <3>3 DEF Inits
      <3>5. /\ run'[p].pc = "write" /\ run'[p].op = "init"
            /\ run'[p].machine = run[p].machine
            /\ \A q \in Procs \ {p} : run'[q] = run[q]
        BY <2>2, <3>2, <3>4 DEF TypeOK
      <3>6. W BY <1>h, <3>4, <3>5 DEF Inits
      <3>7. Absent # << >>
        <4>1. << >> \in Seq(Keys) OBVIOUS
        <4> QED BY <4>1, ClientConstants
      <3>8. ASSUME NEW q \in Procs, run[q].pc = "write"
            PROVE  run[q].machine # run[p].machine /\ idfile[run[q].machine] = << >>
        BY <2>2, <3>7, <3>8 DEF Writers
      <3>9. ASSUME NEW q \in Procs, run'[q].pc = "write"
            PROVE  /\ idfile'[run'[q].machine] = << >>
                   /\ \A o \in Procs : run'[o].pc = "write" /\ run'[o].machine = run'[q].machine
                                         => o = q
        <4>1. idfile'[run[p].machine] = << >> BY <2>2, <3>4 DEF TypeOK
        <4>2. CASE q = p BY <3>5, <3>8, <4>1, <4>2
        <4>3. CASE q # p
          <5>1. run[q].pc = "write" /\ run'[q] = run[q] BY <3>5, <3>9, <4>3
          <5>2. run[q].machine # run[p].machine BY <3>8, <5>1
          <5>3. idfile'[run[q].machine] = << >> BY <2>2, <3>8, <5>1, <5>2, <1>h DEF TypeOK, Inits
          <5> QED BY <3>5, <5>1, <5>2, <5>3 DEF Writers
        <4> QED BY <4>2, <4>3
      <3> QED BY <1>g, <3>6, <3>9
    <2> QED BY <1>8, <2>1, <2>2 DEF Create
  <1>9. ASSUME NEW p \in Procs, Write(p) PROVE Writers'
    <2>1. run' = [run EXCEPT ![p] = Idle] /\ run[p].pc = "write" BY <1>9 DEF Write
    <2>2. run'[p] = Idle /\ \A q \in Procs \ {p} : run'[q] = run[q] BY <2>1 DEF TypeOK
    <2>3. W BY <1>h, <2>2, InitsIdle
    <2>4. ASSUME NEW q \in Procs, run'[q].pc = "write"
          PROVE  /\ idfile'[run'[q].machine] = << >>
                 /\ \A o \in Procs : run'[o].pc = "write" /\ run'[o].machine = run'[q].machine
                                       => o = q
      <3>1. q # p BY <2>2, <2>4, IdleFields
      <3>2. run'[q] = run[q] /\ run[q].pc = "write" BY <2>2, <2>4, <3>1
      <3>3. run[q].machine # run[p].machine BY <2>1, <3>1, <3>2 DEF Writers
      <3>4. idfile'[run[q].machine] = idfile[run[q].machine]
        BY <1>9, <1>h, <3>2, <3>3 DEF Write, TypeOK, Inits
      <3> QED BY <2>2, <3>2, <3>4, IdleFields DEF Writers
    <2> QED BY <1>g, <2>3, <2>4
  <1>10. CASE FinishLate BY <1>10, <1>h, <1>k DEF FinishLate
  <1>11. CASE Stop BY <1>11, <1>h, <1>k DEF Stop
  <1>12. CASE Boot BY <1>12, <1>h, <1>k DEF Boot
  <1>13. CASE Rotate BY <1>13, <1>h, <1>k DEF Rotate
  <1>14. CASE Misfile
    <2>1. PICK o \in Names : run' = Doubt(run, o) /\ idfile' = idfile BY <1>14 DEF Misfile
    <2>2. W BY <1>h, <2>1, DoubtFields DEF Inits, TypeOK
    <2> QED BY <1>k, <2>1, <2>2, DoubtFields DEF TypeOK
  <1>15. ASSUME NEW m \in Machines, NEW ids \in IdentityFiles, Install(m, ids) PROVE Writers'
    <2>1. W BY <1>15, <1>h DEF Install
    <2>2. \A q \in Procs : run[q].pc = "write" =>
             run[q].machine # m /\ run[q].machine \in Machines
      BY <1>15, <1>h DEF Install, Inits
    <2>3. ASSUME NEW q \in Procs, run'[q].pc = "write"
          PROVE  /\ idfile'[run'[q].machine] = << >>
                 /\ \A o \in Procs : run'[o].pc = "write" /\ run'[o].machine = run'[q].machine
                                       => o = q
      BY <1>15, <2>2, <2>3 DEF Install, Writers, TypeOK
    <2> QED BY <1>g, <2>1, <2>3
  <1>16. CASE UNCHANGED vars BY <1>16, <1>h, <1>k DEF vars
  <1> QED BY <1>1, <1>2, <1>3, <1>4, <1>5, <1>6, <1>7, <1>8, <1>9, <1>10, <1>11, <1>12,
             <1>13, <1>14, <1>15, <1>16 DEF Next, Step, Operator

NothingReplaced ==
    \A p \in Procs, m \in Machines :
        run[p].op = "init" /\ run'[p] # run[p] /\ Held(m) # {} => idfile'[m] = idfile[m]

LEMMA InitStep == TypeOK /\ Writers /\ [Next]_vars => NothingReplaced
  <1> SUFFICES ASSUME TypeOK, Writers, [Next]_vars, idfile' # idfile PROVE NothingReplaced
    BY DEF NothingReplaced
  <1>1. ASSUME NEW p \in Procs, Create(p) PROVE NothingReplaced
    <2>1. ASSUME NEW m \in Machines, Held(m) # {} PROVE idfile'[m] = idfile[m]
      BY <1>1, <2>1 DEF Create, Held, TypeOK
    <2> QED BY <2>1 DEF NothingReplaced
  <1>2. ASSUME NEW p \in Procs, Write(p) PROVE NothingReplaced
    <2>1. Elements(<< >>) = {} BY DEF Elements
    <2>2. idfile[run[p].machine] = << >> BY <1>2 DEF Write, Writers
    <2>3. ASSUME NEW m \in Machines, Held(m) # {} PROVE idfile'[m] = idfile[m]
      BY <1>2, <2>1, <2>2, <2>3 DEF Write, Held, TypeOK
    <2> QED BY <2>3 DEF NothingReplaced
  <1>3. ASSUME NEW m \in Machines, NEW ids \in IdentityFiles, Install(m, ids)
        PROVE  NothingReplaced
    BY <1>3 DEF Install, NothingReplaced
  <1> QED BY <1>1, <1>2, <1>3 DEF Next, Step, Operator, vars, StartGet, StartSet, StartDelete,
             Finish, Abort, Quit, StartInit, FinishLate, Stop, Boot, Rotate, Misfile

\* However many of them run, init leaves every file with an identity as it is
\* (identity.go:19-41).
THEOREM NeverReplaces == Spec => InitNeverReplaces
  <1>1. Init => TypeOK /\ Writers
    <2>1. Init => TypeOK BY IdleTyped, ClientConstants DEF Init, TypeOK, EmptyDir
    <2>2. Init => Writers BY IdleFields DEF Init, Writers
    <2> QED BY <2>1, <2>2
  <1>2. TypeOK /\ Writers /\ [Next]_vars => (TypeOK /\ Writers)' /\ [NothingReplaced]_vars
    BY TypeStep, WritersStep, InitStep
  <1>3. Spec => [][NothingReplaced]_vars BY <1>1, <1>2, PTL DEF Spec
  <1> QED BY <1>3 DEF InitNeverReplaces, NothingReplaced

-----------------------------------------------------------------------------
\* With an overlap, every machine that can read anything can read it all.

\* Every machine that has identities reads c, and there is such a machine.
Safe(c) == c # NoFile => CanRead(c.key) /\ \E m \in Machines : ~NoIdentity(m)

AllSafe ==
    /\ \A n \in Names : Safe(store[n])
    /\ \A p \in Procs : Safe(run[p].body)
    /\ \A r \in late : Safe(r.body)

\* And what any machine will encrypt to.
Targets == \A m \in Machines : NoIdentity(m) \/ CanRead(Head(idfile[m]))

LEMMA SafeNoFile == Safe(NoFile) BY DEF Safe

LEMMA HeadIsElement ==
    ASSUME NEW s \in Seq(Keys), s # << >> PROVE Head(s) \in Elements(s)
  BY DEF Elements

LEMMA SameKeys ==
    ASSUME \A m \in Machines : (NoIdentity(m) <=> NoIdentity(m)'),
           \A m \in Machines : ~NoIdentity(m) => idfile'[m] = idfile[m]
    PROVE  /\ \A k : CanRead(k) => CanRead(k)'
           /\ \A c : Safe(c) => Safe(c)'
           /\ Targets => Targets'
  <1>1. ASSUME NEW k, CanRead(k) PROVE CanRead(k)'
    BY <1>1 DEF CanRead, Held, NoIdentity
  <1>2. ASSUME NEW c, Safe(c) PROVE Safe(c)'
    <2>1. ASSUME c # NoFile PROVE CanRead(c.key)' BY <1>1, <1>2, <2>1 DEF Safe
    <2> QED BY <1>2, <2>1 DEF Safe
  <1>3. ASSUME Targets PROVE Targets'
    <2>1. ASSUME NEW m \in Machines, ~NoIdentity(m)' PROVE CanRead(Head(idfile[m]))'
      BY <1>1, <1>3, <2>1 DEF Targets
    <2>2. ASSUME NEW m \in Machines, ~NoIdentity(m)' PROVE idfile'[m] = idfile[m] BY <2>2
    <2> QED BY <2>1, <2>2 DEF Targets
  <1> QED BY <1>1, <1>2, <1>3

KeysShared == AllSafe /\ Targets /\ OneIdentity

\* Steps that touch no identity file and start no init.
LEMMA KeysKept ==
    ASSUME KeysShared, idfile' = idfile,
           \A n \in Names : Safe(store'[n]),
           \A p \in Procs : Safe(run'[p].body),
           \A r \in late' : Safe(r.body),
           \A p \in Procs : run'[p].op = "init" =>
              /\ run[p].op = "init" /\ run'[p].machine = run[p].machine
              /\ run'[p].pc = "write" => run[p].pc = "write"
    PROVE  KeysShared'
  <1>1. \A c : Safe(c) => Safe(c)' BY SameKeys DEF NoIdentity
  <1>2. Targets' BY SameKeys DEF NoIdentity, KeysShared
  <1>3. AllSafe'
    <2>1. \A n \in Names : Safe(store[n])' BY <1>1 DEF Safe, CanRead, Held, NoIdentity
    <2>2. \A p \in Procs : Safe(run[p].body)' BY <1>1 DEF Safe, CanRead, Held, NoIdentity
    <2>3. \A r \in late' : Safe(r.body)' BY <1>1
    <2> QED BY <2>1, <2>2, <2>3 DEF AllSafe
  <1>4. OneIdentity'
    <2>1. \A m : NoIdentity(m)' <=> NoIdentity(m) BY DEF NoIdentity
    <2>2. ASSUME NEW p \in Procs, NEW q \in Procs, run'[p].op = "init"
          PROVE  /\ run'[q].op = "init" => run'[q].machine = run'[p].machine
                 /\ \A m \in Machines \ {run'[p].machine} : NoIdentity(m)'
                 /\ run'[p].pc = "write" => NoIdentity(run'[p].machine)
      BY <2>1, <2>2 DEF KeysShared, OneIdentity
    <2>3. ASSUME NEW p \in Procs PROVE NoIdentity(run[p].machine)' <=> NoIdentity(run'[p].machine)
      BY DEF NoIdentity
    <2> QED BY <2>2, <2>3 DEF OneIdentity
  <1> QED BY <1>2, <1>3, <1>4 DEF KeysShared

LEMMA KeysStep ==
    ASSUME Careful, TypeOK, Writers, KeysShared, [Next]_vars PROVE KeysShared'
  <1>t. \A n \in Names : Safe(store[n]) BY DEF KeysShared, AllSafe
  <1>h. \A q \in Procs : Safe(run[q].body) BY DEF KeysShared, AllSafe
  <1>l. \A r \in late : Safe(r.body) BY DEF KeysShared, AllSafe
  <1>r. ASSUME NEW p \in Procs, NEW r, run' = [run EXCEPT ![p] = r], Safe(r.body),
               r.op # "init", idfile' = idfile, \A n \in Names : Safe(store'[n]),
               late' \subseteq late
        PROVE  KeysShared'
    <2>1. run'[p] = r /\ \A q \in Procs \ {p} : run'[q] = run[q] BY <1>r DEF TypeOK
    <2> QED BY <1>h, <1>l, <1>r, <2>1, KeysKept
  <1>b. ASSUME NEW p \in Procs, NEW r \in Commands, NEW then \in Knowable,
               BeginChange(p, r, then), Safe(r.body), r.op # "init", idfile' = idfile,
               store' = store, late' = late
        PROVE  KeysShared'
    <2>1. \A q \in Procs : Safe(run'[q].body) BY <1>h, <1>b, BeginFields
    <2>2. \A q \in Procs : run'[q].op = "init" =>
              /\ run[q].op = "init" /\ run'[q].machine = run[q].machine
              /\ run'[q].pc = "write" => run[q].pc = "write"
      BY <1>b, BeginFields
    <2> QED BY <1>t, <1>l, <1>b, <2>1, <2>2, KeysKept
  <1>v. ASSUME NEW r, NEW answer, Serve(r, answer), Safe(r.body)
        PROVE  \A n \in Names : Safe(store'[n])
    BY <1>t, <1>v, SafeNoFile DEF Serve, TypeOK
  <1>e. ASSUME NEW r, NEW v, NEW how
        PROVE  Safe(Ended(r, how, v).body) /\ Ended(r, how, v).op # "init"
    BY EndedFields, SafeNoFile
  <1>1. ASSUME NEW p \in Procs, StartGet(p) PROVE KeysShared'
    <2> DEFINE r(t) == [Idle EXCEPT !.pc = "request", !.op = "get", !.name = t,
                                    !.sure = IF t \in Names THEN settled[t] ELSE Unknown]
    <2>1. PICK m \in Machines, t \in Typed :
            IF NoIdentity(m) THEN Fails(p, r(t))
            ELSE run' = [run EXCEPT ![p] = [r(t) EXCEPT !.ids = idfile[m]]]
      BY <1>1 DEF StartGet
    <2>2. r(t) \in Commands BY GetTyped DEF TypeOK, Knowable
    <2>3. r(t).body = NoFile /\ r(t).op = "get" BY IdleTyped, IdleFields DEF Commands
    <2> HIDE DEF r
    <2>4. LET s == [r(t) EXCEPT !.ids = idfile[m]] IN s.body = NoFile /\ s.op # "init"
      BY <2>2, <2>3 DEF Commands
    <2>5. idfile' = idfile /\ store' = store /\ late' = late BY <1>1 DEF StartGet
    <2>6. CASE NoIdentity(m) BY <1>e, <1>r, <1>t, <2>1, <2>5, <2>6 DEF Fails
    <2>7. CASE ~NoIdentity(m) BY <1>r, <1>t, <2>1, <2>4, <2>5, <2>7, SafeNoFile
    <2> QED BY <2>6, <2>7
  <1>2. ASSUME NEW p \in Procs, StartSet(p) PROVE KeysShared'
    <2> DEFINE r(m, o) == [Idle EXCEPT !.pc = "request", !.op = "set", !.name = o[1],
                                       !.body = Sealed(idfile[m], o[1], o[2])]
    <2>1. PICK m \in Machines, o \in Offered :
            o[1] \in Names /\ ~NoIdentity(m) /\ BeginChange(p, r(m, o), o[2])
      BY <1>2 DEF StartSet
    <2>2. o[1] \in Typed /\ o[2] \in Values BY ClientConstants
    <2>3. EncryptionTarget(idfile[m]) \in Keys
      BY <2>1 DEF EncryptionTarget, NoIdentity, TypeOK
    <2>4. Sealed(idfile[m], o[1], o[2]) \in Ciphertexts
      BY <2>1, <2>2, <2>3 DEF Sealed, Ciphertexts
    <2>5. r(m, o) \in Commands BY <2>2, <2>4, SetTyped
    <2>6. r(m, o).body = Sealed(idfile[m], o[1], o[2]) /\ r(m, o).op = "set"
      BY IdleTyped DEF Commands
    <2> HIDE DEF r
    <2>7. Sealed(idfile[m], o[1], o[2]).key = Head(idfile[m])
      BY DEF Sealed, EncryptionTarget
    <2>8. Safe(r(m, o).body) BY <2>1, <2>6, <2>7 DEF KeysShared, Targets, Safe
    <2>9. o[2] \in Knowable BY <2>2 DEF Knowable
    <2>10. r(m, o).op # "init" BY <2>6
    <2>11. idfile' = idfile /\ store' = store /\ late' = late BY <1>2 DEF StartSet
    <2> QED BY <1>b, <2>1, <2>5, <2>8, <2>9, <2>10, <2>11
  <1>3. ASSUME NEW p \in Procs, StartDelete(p) PROVE KeysShared'
    <2> DEFINE r(t) == [Idle EXCEPT !.pc = "request", !.op = "delete", !.name = t]
    <2>1. PICK t \in Typed : BeginChange(p, r(t), Gone) BY <1>3 DEF StartDelete
    <2>2. r(t) \in Commands BY DeleteTyped
    <2>3. r(t).body = NoFile /\ r(t).op = "delete" BY IdleTyped, IdleFields DEF Commands
    <2> HIDE DEF r
    <2>4. idfile' = idfile /\ store' = store /\ late' = late BY <1>3 DEF StartDelete
    <2>5. Safe(r(t).body) /\ r(t).op # "init" BY <2>3, SafeNoFile
    <2>6. Gone \in Knowable BY DEF Knowable
    <2> QED BY <1>b, <2>1, <2>2, <2>4, <2>5, <2>6
  <1>4. ASSUME NEW p \in Procs, Finish(p) PROVE KeysShared'
    <2>1. PICK how, v : run' = [run EXCEPT ![p] = Ended(run[p], how, v)]
      BY <1>4 DEF Finish, Show
    <2>2. \E answer : Serve(run[p], answer) BY <1>4 DEF Finish
    <2>3. \A n \in Names : Safe(store'[n]) BY <1>h, <1>v, <2>2
    <2> QED BY <1>4, <1>e, <1>r, <2>1, <2>3 DEF Finish
  <1>5. ASSUME NEW p \in Procs, Abort(p) PROVE KeysShared'
    <2>1. run' = [run EXCEPT ![p] = Ended(run[p], "failed", NoValue)]
      BY <1>5 DEF Abort, Fails
    <2>2. run'[p] = Ended(run[p], "failed", NoValue) /\ \A q \in Procs \ {p} : run'[q] = run[q]
      BY <2>1 DEF TypeOK
    <2>3. \A r \in late' : Safe(r.body)
      <3>1. \A r \in late' : r \in late \/ r.body = run[p].body BY <1>5 DEF Abort
      <3> QED BY <1>h, <1>l, <3>1
    <2>4. \A q \in Procs : Safe(run'[q].body) BY <1>h, <1>e, <2>2
    <2>5. \A q \in Procs : run'[q].op = "init" => run'[q] = run[q] BY <1>e, <2>2
    <2>6. idfile' = idfile /\ store' = store BY <1>5 DEF Abort
    <2> QED BY <1>t, <2>3, <2>4, <2>5, <2>6, KeysKept
  <1>6. ASSUME NEW p \in Procs, Quit(p) PROVE KeysShared'
    BY <1>6, <1>r, <1>t, IdleFields, SafeNoFile DEF Quit
  <1>7. ASSUME NEW p \in Procs, StartInit(p) PROVE KeysShared'
    <2> DEFINE r(m, k) == [Idle EXCEPT !.pc = "create", !.op = "init", !.machine = m,
                                       !.ids = <<k>>]
    <2>1. PICK m \in Machines, k \in Keys :
            /\ \A o \in Machines : NoIdentity(o)
            /\ \A q \in Procs : run[q].op = "init" => run[q].machine = m
            /\ run' = [run EXCEPT ![p] = r(m, k)]
      BY <1>7 DEF StartInit
    <2>2. r(m, k).op = "init" /\ r(m, k).machine = m /\ r(m, k).body = NoFile
      BY IdleTyped, IdleFields DEF Commands
    <2> HIDE DEF r
    <2>3. run'[p] = r(m, k) /\ \A q \in Procs \ {p} : run'[q] = run[q] BY <2>1 DEF TypeOK
    <2>4. idfile' = idfile /\ store' = store /\ late' = late BY <1>7 DEF StartInit
    <2>5. \A c : Safe(c) => Safe(c)' BY <2>4, SameKeys DEF NoIdentity
    <2>6. \A q \in Procs : Safe(run'[q].body) BY <1>h, <2>2, <2>3, SafeNoFile
    <2>7. AllSafe'
      BY <1>t, <1>l, <2>4, <2>6 DEF AllSafe, Safe, CanRead, NoIdentity, Held
    <2>8. Targets' BY <2>4, SameKeys DEF NoIdentity, KeysShared
    <2>9. \A o \in Machines : NoIdentity(o)' BY <2>1, <2>4 DEF NoIdentity
    <2>10. \A q \in Procs : run'[q].op = "init" => run'[q].machine = m
      BY <2>1, <2>2, <2>3
    <2>11. ASSUME NEW q \in Procs, run'[q].op = "init" PROVE NoIdentity(run[q].machine)'
      <3>1. NoIdentity(m)' BY <2>9
      <3> QED BY <2>10, <2>11, <3>1 DEF NoIdentity
    <2>12. OneIdentity' BY <2>9, <2>10, <2>11 DEF OneIdentity
    <2> QED BY <2>7, <2>8, <2>12 DEF KeysShared
  <1>8. ASSUME NEW p \in Procs, Create(p) PROVE KeysShared'
    <2>1. CASE Fails(p, run[p]) /\ idfile' = idfile
      BY <1>8, <1>e, <1>r, <1>t, <2>1 DEF Fails, Create
    <2>2. CASE /\ idfile[run[p].machine] = Absent
               /\ idfile' = [idfile EXCEPT ![run[p].machine] = << >>]
               /\ run' = [run EXCEPT ![p].pc = "write"]
      <3>1. run[p] \in Commands BY DEF TypeOK
      <3>2. LET r == [run[p] EXCEPT !.pc = "write"]
            IN  r.op = run[p].op /\ r.machine = run[p].machine /\ r.body = run[p].body
        BY <3>1 DEF Commands
      <3>3. /\ run'[p].op = run[p].op /\ run'[p].machine = run[p].machine
            /\ run'[p].body = run[p].body /\ \A q \in Procs \ {p} : run'[q] = run[q]
        BY <2>2, <3>2 DEF TypeOK
      <3>4. \A m \in Machines : NoIdentity(m) <=> NoIdentity(m)'
        BY <2>2 DEF NoIdentity, TypeOK
      <3>5. \A m \in Machines : ~NoIdentity(m) => idfile'[m] = idfile[m]
        BY <2>2 DEF NoIdentity, TypeOK
      <3>6. store' = store /\ late' = late BY <1>8 DEF Create
      <3>7. \A c : Safe(c) => Safe(c)' BY <3>4, <3>5, SameKeys
      <3>8. \A n \in Names : Safe(store[n])'
        <4>1. \A n \in Names : Safe(store[n]) BY <1>t
        <4> QED BY <3>6, <3>7, <4>1 DEF Safe, CanRead
      <3>9. \A q \in Procs : Safe(run[q].body)'
        <4>1. \A q \in Procs : run'[q].body = run[q].body BY <3>3
        <4> QED BY <1>h, <3>7, <4>1 DEF Safe, CanRead
      <3>10. \A r \in late' : Safe(r.body)' BY <1>l, <3>6, <3>7
      <3>11. Targets' BY <3>4, <3>5, SameKeys DEF KeysShared
      <3>12. OneIdentity'
        <4>1. run[p].pc = "create" BY <1>8 DEF Create
        <4>2. run[p].op = "init" /\ run[p].machine \in Machines BY <4>1 DEF Writers
        <4>3. \A q \in Procs : run'[q].op = run[q].op /\ run'[q].machine = run[q].machine
          BY <3>3
        <4>4. \A q \in Procs : run[q].op = "init" => run[q].machine = run[p].machine
          BY <4>2 DEF KeysShared, OneIdentity
        <4>5. \A m \in Machines \ {run[p].machine} : NoIdentity(m)'
          BY <3>4, <4>2 DEF KeysShared, OneIdentity
        <4>6. ASSUME NEW q \in Procs, run'[q].op = "init" PROVE NoIdentity(run[q].machine)'
          <5>1. run'[q].machine = run[p].machine BY <4>3, <4>4, <4>6
          <5> QED BY <2>2, <4>2, <5>1 DEF NoIdentity, TypeOK
        <4> QED BY <4>3, <4>4, <4>5, <4>6 DEF OneIdentity
      <3> QED BY <3>8, <3>9, <3>10, <3>11, <3>12 DEF KeysShared, AllSafe
    <2> QED BY <1>8, <2>1, <2>2 DEF Create
  <1>9. ASSUME NEW p \in Procs, Write(p) PROVE KeysShared'
    <2>1. run[p].pc = "write" /\ run' = [run EXCEPT ![p] = Idle] /\ store' = store /\ late' = late
      BY <1>9 DEF Write
    <2>2. CASE idfile' = idfile
      BY <1>r, <1>t, <2>1, <2>2, IdleFields, SafeNoFile
    <2>3. CASE idfile' = [idfile EXCEPT ![run[p].machine] = run[p].ids]
      <3> DEFINE m0 == run[p].machine
      <3>1. run[p].op = "init" /\ m0 \in Machines BY <2>1 DEF Writers
      <3>2. \A m \in Machines : NoIdentity(m)
        BY <2>1, <3>1 DEF KeysShared, OneIdentity
      <3>3. \A c : Safe(c) => c = NoFile BY <3>2 DEF Safe
      <3>4. \A q \in Procs : run'[q].body = NoFile
        <4>1. \A q \in Procs : run[q].body = NoFile BY <1>h, <3>3
        <4> QED BY <2>1, <4>1, IdleFields DEF TypeOK
      <3>5. AllSafe' BY <1>t, <1>l, <2>1, <3>3, <3>4 DEF AllSafe, Safe
      <3>6. \A m \in Machines \ {m0} : NoIdentity(m)' BY <2>3, <3>2 DEF NoIdentity, TypeOK
      <3>7. ASSUME idfile'[m0] # << >> PROVE Head(idfile'[m0]) \in Elements(idfile'[m0])
        <4>1. idfile'[m0] = run[p].ids /\ run[p].ids \in Seq(Keys)
          BY <2>3, <3>1 DEF TypeOK, Commands
        <4> QED BY <3>7, <4>1, HeadIsElement
      <3>8. Targets'
        <4>1. ASSUME NEW m \in Machines, ~NoIdentity(m)' PROVE CanRead(Head(idfile[m]))'
          <5>1. m = m0 BY <3>6, <4>1
          <5>2. idfile'[m0] \notin {Absent, << >>} BY <4>1, <5>1 DEF NoIdentity
          <5>3. Head(idfile'[m0]) \in Elements(idfile'[m0]) BY <3>7, <5>2
          <5> QED BY <3>6, <5>1, <5>2, <5>3 DEF CanRead, Held
        <4> QED BY <4>1 DEF Targets
      <3>9. OneIdentity'
        <4>1. run'[p] = Idle /\ \A q \in Procs \ {p} : run'[q] = run[q] BY <2>1 DEF TypeOK
        <4>2. \A q \in Procs : run'[q].op = "init" =>
                 run[q].op = "init" /\ run'[q] = run[q] /\ q # p
          BY <4>1, IdleFields
        <4>3. \A q \in Procs : run'[q].op = "init" => run'[q].machine = m0
          BY <3>1, <4>2 DEF KeysShared, OneIdentity
        <4>4. \A q \in Procs : run'[q].op = "init" => run'[q].pc # "write"
          BY <2>1, <4>2, <4>3 DEF Writers
        <4> QED BY <3>6, <4>3, <4>4 DEF OneIdentity
      <3> QED BY <3>5, <3>8, <3>9 DEF KeysShared
    <2> QED BY <1>9, <2>2, <2>3 DEF Write
  <1>10. CASE FinishLate
    <2>1. PICK r \in late, answer \in Answers : Serve(r, answer) BY <1>10 DEF FinishLate
    <2>2. \A n \in Names : Safe(store'[n]) BY <1>l, <1>v, <2>1
    <2>3. idfile' = idfile /\ run' = run /\ late' \subseteq late BY <1>10 DEF FinishLate
    <2> QED BY <1>h, <1>l, <2>2, <2>3, KeysKept
  <1>11. CASE Stop
    <2>1. idfile' = idfile /\ store' = store /\ run' = run /\ late' = {} BY <1>11 DEF Stop
    <2> QED BY <1>t, <1>h, <2>1, KeysKept
  <1>12. CASE Boot
    <2>1. idfile' = idfile /\ store' = store /\ run' = run /\ late' = late BY <1>12 DEF Boot
    <2> QED BY <1>t, <1>h, <1>l, <2>1, KeysKept
  <1>13. CASE Rotate
    <2>1. PICK k \in Keys :
            /\ Readable(k)
            /\ store' = [n \in Names |-> IF store[n] = NoFile THEN NoFile
                                         ELSE Rotated(n, store[n], k)]
      BY <1>13 DEF Rotate
    <2>2. CanRead(k) BY <2>1 DEF Readable, CanRead
    <2>3. ASSUME NEW n \in Names, store[n] # NoFile PROVE Safe(Rotated(n, store[n], k))
      BY <1>t, <2>2, <2>3 DEF Safe, Rotated
    <2>4. \A n \in Names : Safe(store'[n]) BY <2>1, <2>3, SafeNoFile
    <2>5. idfile' = idfile /\ run' = run /\ late' = late BY <1>13 DEF Rotate
    <2> QED BY <1>h, <1>l, <2>4, <2>5, KeysKept
  <1>14. CASE Misfile
    <2>1. PICK n \in Names, o \in Names :
            store' = [store EXCEPT ![o] = store[n]] /\ run' = Doubt(run, o)
      BY <1>14 DEF Misfile
    <2>2. \A i \in Names : Safe(store'[i]) BY <1>t, <2>1 DEF TypeOK
    <2>3. \A q \in Procs : /\ run'[q].body = run[q].body /\ run'[q].op = run[q].op
                           /\ run'[q].pc = run[q].pc /\ run'[q].machine = run[q].machine
      BY <2>1, DoubtFields DEF TypeOK
    <2>4. idfile' = idfile /\ late' = late BY <1>14 DEF Misfile
    <2> QED BY <1>h, <1>l, <2>2, <2>3, <2>4, KeysKept
  <1>15. ASSUME NEW m \in Machines, NEW ids \in IdentityFiles, Install(m, ids)
         PROVE  KeysShared'
    <2>1. /\ \A q \in Procs : run[q].op # "init"
          /\ Needed(m) \subseteq Elements(ids)
          /\ \A o \in Machines \ {m} : NoIdentity(o) \/ Head(ids) \in Held(o)
          /\ idfile' = [idfile EXCEPT ![m] = ids]
          /\ store' = store /\ run' = run /\ late' = late
      BY <1>15 DEF Install
    <2>2. ids \in Seq(Keys) /\ ids # << >> /\ ids # Absent
      <3>1. CASE \E k \in Keys : ids = <<k>>
        <4>1. PICK k \in Keys : ids = <<k>> BY <3>1
        <4>2. ids \in Seq(Keys) /\ ids # << >> BY <4>1
        <4> QED BY <4>2, ClientConstants
      <3>2. CASE ids \in Keys \X Keys
        <4>1. PICK k \in Keys, l \in Keys : ids = <<k, l>> BY <3>2
        <4>2. ids \in Seq(Keys) /\ ids # << >> BY <4>1
        <4> QED BY <4>2, ClientConstants
      <3> QED BY <1>15, <3>1, <3>2 DEF IdentityFiles
    <2>3. idfile'[m] = ids /\ \A o \in Machines \ {m} : idfile'[o] = idfile[o]
      BY <2>1 DEF TypeOK
    <2>4. ~NoIdentity(m)' BY <2>2, <2>3 DEF NoIdentity
    <2>5. ASSUME NEW k, k \in Elements(ids),
                 \A o \in Machines \ {m} : NoIdentity(o) \/ k \in Held(o)
          PROVE  CanRead(k)'
      BY <2>2, <2>3, <2>5 DEF CanRead, Held, NoIdentity
    <2>6. ASSUME NEW c, Safe(c), c = NoFile \/ c.key \in Needed(m) PROVE Safe(c)'
      <3>1. ASSUME c # NoFile PROVE CanRead(c.key)'
        BY <2>1, <2>5, <2>6, <3>1 DEF Safe, CanRead
      <3> QED BY <2>4, <3>1 DEF Safe
    <2>7. \A n \in Names : Safe(store[n])'
      <3>1. \A n \in Names : store[n] = NoFile \/ store[n].key \in Needed(m)
        BY DEF Needed, TypeOK
      <3>2. \A n \in Names : store'[n] = store[n] BY <2>1
      <3> QED BY <1>t, <2>6, <3>1, <3>2 DEF Safe, CanRead
    <2>8. \A q \in Procs : Safe(run[q].body)'
      <3>1. \A q \in Procs : run[q].body = NoFile \/ run[q].body.key \in Needed(m)
        BY DEF Needed, TypeOK, Commands
      <3>2. \A q \in Procs : run'[q].body = run[q].body BY <2>1
      <3> QED BY <1>h, <2>6, <3>1, <3>2 DEF Safe, CanRead
    <2>9. \A r \in late' : Safe(r.body)'
      <3>1. \A r \in late : r.body = NoFile \/ r.body.key \in Needed(m)
        BY DEF Needed, TypeOK
      <3> QED BY <1>l, <2>1, <2>6, <3>1
    <2>10. Targets'
      <3>1. ASSUME NEW o \in Machines, ~NoIdentity(o)' PROVE CanRead(Head(idfile[o]))'
        <4>1. CASE o = m
          <5>1. Head(ids) \in Elements(ids) BY <2>2, HeadIsElement
          <5>2. CanRead(Head(ids))' BY <2>1, <2>5, <5>1
          <5> QED BY <2>3, <4>1, <5>2 DEF CanRead
        <4>2. CASE o # m
          <5>1. ~NoIdentity(o) BY <2>3, <3>1, <4>2 DEF NoIdentity
          <5>2. Head(idfile[o]) \in Elements(ids) BY <2>1, <4>2, <5>1 DEF Needed
          <5>3. CanRead(Head(idfile[o])) BY <5>1 DEF KeysShared, Targets
          <5>4. \A i \in Machines \ {m} : NoIdentity(i) \/ Head(idfile[o]) \in Held(i)
            BY <5>3 DEF CanRead
          <5> DEFINE h == Head(idfile[o])
          <5>5. CanRead(h)
            BY <5>3
          <5>6. idfile'[o] = idfile[o] BY <2>3, <4>2
          <5>7. \A i \in Machines : NoIdentity(i)' \/ Head(idfile'[o]) \in Held(i)'
            BY <2>2, <2>3, <5>2, <5>4, <5>6 DEF Held, NoIdentity
          <5> QED BY <5>7 DEF CanRead
        <4> QED BY <4>1, <4>2
      <3> QED BY <3>1 DEF Targets
    <2>11. OneIdentity' BY <2>1 DEF OneIdentity
    <2> QED BY <2>7, <2>8, <2>9, <2>10, <2>11 DEF KeysShared, AllSafe
  <1>16. CASE UNCHANGED vars
    <2>1. idfile' = idfile /\ store' = store /\ run' = run /\ late' = late BY <1>16 DEF vars
    <2> QED BY <1>t, <1>h, <1>l, <2>1, KeysKept
  <1> QED BY <1>1, <1>2, <1>3, <1>4, <1>5, <1>6, <1>7, <1>8, <1>9, <1>10, <1>11, <1>12,
             <1>13, <1>14, <1>15, <1>16 DEF Next, Step, Operator

-----------------------------------------------------------------------------
\* What the user knows is so.

Knowledge == SettledIsTrue /\ SureOfGet /\ SureOfChange /\ ReadsWhatWasAcked

ChangesNow(r) == r.pc = "request" /\ Changes(r)

GetIsSure(r) ==
    r.op = "get" /\ r.pc = "request" /\ r.sure # Unknown =>
        /\ r.name \in Names
        /\ settled[r.name] = r.sure
        /\ store[r.name] # NoFile => store[r.name].key \in Elements(r.ids)

ReadIsRight(r) ==
    r.op = "get" /\ r.pc = "done" /\ r.sure # Unknown =>
        \/ r.out = "failed"
        \/ r.out = "absent" /\ r.sure = Gone
        \/ r.out = "printed" /\ r.sure = r.value

LEMMA KnowledgeParts ==
    ASSUME Careful
    PROVE  /\ SureOfGet <=> \A p \in Procs : GetIsSure(run[p])
           /\ ReadsWhatWasAcked <=> \A p \in Procs : ReadIsRight(run[p])
  BY DEF SureOfGet, GetIsSure, ReadsWhatWasAcked, ReadIsRight

LEMMA TargetOfName == ASSUME NEW r, r.name \in Names PROVE Target(r) = r.name
  BY ClientConstants DEF Target

\* Nobody knows anything of a name that is being changed.
LEMMA ChangedIsUnknown ==
    ASSUME SettledIsTrue, NEW n \in Names,
           (\E p \in Procs : ChangesNow(run[p]) /\ Target(run[p]) = n)
             \/ (\E r \in late : Target(r) = n)
    PROVE  settled[n] = Unknown
  BY DEF SettledIsTrue, Quiet, ChangesNow

LEMMA QuietUntilLater ==
    ASSUME NEW n, Quiet(n), late' \subseteq late,
           \A q \in Procs : ChangesNow(run'[q]) => ChangesNow(run[q])
                                                   /\ Target(run'[q]) = Target(run[q])
    PROVE  Quiet(n)'
  BY DEF Quiet, ChangesNow

\* Steps of one command that change no secret and end or begin no change.
LEMMA OneCommand ==
    ASSUME Careful, TypeOK, Knowledge, NEW p \in Procs, NEW r,
           run' = [run EXCEPT ![p] = r], ~ChangesNow(r), GetIsSure(r), ReadIsRight(r),
           store' = store, settled' = settled, late' \subseteq late
    PROVE  Knowledge'
  <1>1. run'[p] = r /\ \A q \in Procs \ {p} : run'[q] = run[q] BY DEF TypeOK
  <1>2. SettledIsTrue'
    <2>1. \A q \in Procs : ChangesNow(run'[q]) => run'[q] = run[q] BY <1>1
    <2>2. ASSUME NEW n \in Names, settled'[n] # Unknown PROVE Quiet(n)' /\ Matches(n, settled[n])'
      <3>1. Quiet(n) /\ Matches(n, settled[n]) BY <2>2 DEF Knowledge, SettledIsTrue
      <3>2. Quiet(n)' BY <2>1, <3>1, QuietUntilLater
      <3> QED BY <3>1, <3>2 DEF Matches
    <2> QED BY <2>2 DEF SettledIsTrue
  <1>3. SureOfGet' BY <1>1, KnowledgeParts DEF Knowledge, SureOfGet, GetIsSure
  <1>4. SureOfChange' BY <1>1 DEF Knowledge, SureOfChange, ChangesNow
  <1>5. ReadsWhatWasAcked' BY <1>1, KnowledgeParts DEF Knowledge, ReadsWhatWasAcked, ReadIsRight
  <1> QED BY <1>2, <1>3, <1>4, <1>5 DEF Knowledge

\* The beginning of a change of the name n.
LEMMA ChangeBegins ==
    ASSUME Careful, TypeOK, Knowledge, NEW p \in Procs, NEW r \in Commands,
           NEW then \in Knowable, BeginChange(p, r, then), ChangesNow(r),
           run[p].pc = "idle", then # Unknown,
           r.op = "set" => r.body # NoFile /\ r.body.bound = Target(r) /\ r.body.value = then,
           r.op = "delete" => then = Gone,
           store' = store, late' = late
    PROVE  Knowledge'
  <1> DEFINE n == Target(r)
  <1>1. \A q \in Procs :
            LET d == run'[q]
                o == IF q = p THEN r ELSE run[q]
            IN  /\ d.pc = o.pc /\ d.op = o.op /\ d.name = o.name /\ d.value = o.value
                /\ d.ids = o.ids /\ d.body = o.body /\ d.out = o.out /\ Target(d) = Target(o)
                /\ d.sure = IF q = p THEN IF Quiet(n) THEN then ELSE Unknown
                            ELSE IF Target(o) = n THEN Unknown ELSE o.sure
    BY BeginFields DEF Target
  <1>2. settled' = [m \in Names |-> IF m = n THEN Unknown ELSE settled[m]]
    BY DEF BeginChange, Forget
  <1>3. SettledIsTrue'
    <2>1. ASSUME NEW m \in Names, settled'[m] # Unknown PROVE Quiet(m)' /\ Matches(m, settled[m])'
      <3>1. m # n /\ settled'[m] = settled[m] BY <1>2, <2>1
      <3>2. Quiet(m) /\ Matches(m, settled[m]) BY <2>1, <3>1 DEF Knowledge, SettledIsTrue
      <3>3. Quiet(m)' BY <1>1, <3>1, <3>2 DEF Quiet, Changes
      <3>4. Matches(m, settled[m])' BY <3>1, <3>2 DEF Matches
      <3> QED BY <3>3, <3>4
    <2> QED BY <2>1 DEF SettledIsTrue
  <1>4. SureOfGet'
    <2>1. ASSUME NEW q \in Procs, run'[q].op = "get", run'[q].pc = "request",
                 run'[q].sure # Unknown
          PROVE  /\ run'[q].name \in Names
                 /\ settled'[run'[q].name] = run'[q].sure
                 /\ store'[run'[q].name] # NoFile =>
                       store'[run'[q].name].key \in Elements(run'[q].ids)
      <3>1. q # p BY <1>1, <2>1 DEF ChangesNow, Changes
      <3>2. /\ run[q].op = "get" /\ run[q].pc = "request" /\ run[q].sure # Unknown
            /\ run'[q].name = run[q].name /\ run'[q].ids = run[q].ids
            /\ run'[q].sure = run[q].sure /\ Target(run[q]) # n
        BY <1>1, <2>1, <3>1
      <3>3. /\ run[q].name \in Names
            /\ settled[run[q].name] = run[q].sure
            /\ store[run[q].name] # NoFile => store[run[q].name].key \in Elements(run[q].ids)
        BY <3>2 DEF Knowledge, SureOfGet
      <3>4. run[q].name # n BY <3>2, <3>3, TargetOfName
      <3> QED BY <1>2, <3>2, <3>3, <3>4
    <2> QED BY <2>1 DEF SureOfGet
  <1>5. SureOfChange'
    <2>1. ASSUME NEW q \in Procs, run'[q].pc = "request", Changes(run'[q]),
                 run'[q].sure # Unknown
          PROVE  /\ \A o \in Procs \ {q} :
                      run'[o].pc = "request" /\ Changes(run'[o]) => Target(run'[o]) # Target(run'[q])
                 /\ \A l \in late : Target(l) # Target(run'[q])
                 /\ run'[q].op = "set" =>
                      /\ run'[q].body # NoFile
                      /\ run'[q].body.bound = Target(run'[q])
                      /\ run'[q].body.value = run'[q].sure
                 /\ run'[q].op = "delete" => run'[q].sure = Gone
      <3>1. CASE q = p
        <4>1. Quiet(n) /\ run'[q].sure = then /\ Target(run'[q]) = n BY <1>1, <2>1, <3>1
        <4>2. \A o \in Procs \ {p} : Changes(run'[o]) <=> Changes(run[o])
          BY <1>1 DEF Changes
        <4>3. \A o \in Procs \ {p} : run'[o].pc = run[o].pc /\ Target(run'[o]) = Target(run[o])
          BY <1>1
        <4>4. run'[q].op = r.op /\ run'[q].body = r.body BY <1>1, <3>1
        <4> QED BY <3>1, <4>1, <4>2, <4>3, <4>4 DEF Quiet
      <3>2. CASE q # p
        <4>1. /\ run[q].pc = "request" /\ Changes(run[q]) /\ run'[q].sure = run[q].sure
              /\ run[q].sure # Unknown /\ Target(run[q]) # n /\ Target(run'[q]) = Target(run[q])
              /\ run'[q].op = run[q].op /\ run'[q].body = run[q].body
          BY <1>1, <2>1, <3>2 DEF Changes
        <4>2. ASSUME NEW o \in Procs \ {q}, run'[o].pc = "request", Changes(run'[o])
              PROVE  Target(run'[o]) # Target(run'[q])
          <5>1. CASE o = p BY <1>1, <4>1, <5>1
          <5>2. CASE o # p
            <6>1. run[o].pc = "request" /\ Changes(run[o]) /\ Target(run'[o]) = Target(run[o])
              BY <1>1, <4>2, <5>2 DEF Changes
            <6> QED BY <4>1, <6>1 DEF Knowledge, SureOfChange
          <5> QED BY <5>1, <5>2
        <4> QED BY <4>1, <4>2 DEF Knowledge, SureOfChange
      <3> QED BY <3>1, <3>2
    <2>2. ASSUME NEW q \in Procs PROVE Changes(run[q])' <=> Changes(run'[q]) BY DEF Changes
    <2> QED BY <2>1, <2>2 DEF SureOfChange, Target, Changes
  <1>6. ReadsWhatWasAcked'
    <2>1. \A q \in Procs : run'[q].pc = "done" => /\ q # p /\ run[q].pc = "done"
                                                  /\ run'[q].sure \in {Unknown, run[q].sure}
      BY <1>1 DEF ChangesNow
    <2> QED BY <1>1, <2>1 DEF Knowledge, ReadsWhatWasAcked
  <1> QED BY <1>3, <1>4, <1>5, <1>6 DEF Knowledge

\* The server changes the name n: nobody was sure of it.  A change that was
\* alone makes its own user sure of it.
LEMMA ServerChanges ==
    ASSUME Careful, TypeOK, Knowledge, NEW n \in Names, settled[n] = Unknown,
           \A m \in Names \ {n} : store'[m] = store[m] /\ settled'[m] = settled[m],
           settled'[n] # Unknown => Quiet(n)' /\ Matches(n, settled[n])',
           late' \subseteq late,
           \A q \in Procs : run'[q] = run[q]
                            \/ (~ChangesNow(run'[q]) /\ run'[q].pc \notin {"request", "done"})
    PROVE  Knowledge'
  <1>1. SettledIsTrue'
    <2>1. ASSUME NEW m \in Names \ {n}, settled'[m] # Unknown
          PROVE  Quiet(m)' /\ Matches(m, settled[m])'
      <3>1. Quiet(m) /\ Matches(m, settled[m]) BY <2>1 DEF Knowledge, SettledIsTrue
      <3>2. \A q \in Procs : ChangesNow(run'[q]) => run'[q] = run[q] OBVIOUS
      <3>3. Quiet(m)' BY <3>1, <3>2, QuietUntilLater
      <3> QED BY <3>1, <3>3 DEF Matches
    <2>2. ASSUME settled'[n] # Unknown PROVE Quiet(n)' /\ Matches(n, settled[n])' BY <2>2
    <2> QED BY <2>1, <2>2 DEF SettledIsTrue
  <1>2. SureOfGet'
    <2>1. ASSUME NEW q \in Procs, run'[q].op = "get", run'[q].pc = "request",
                 run'[q].sure # Unknown
          PROVE  /\ run'[q].name \in Names
                 /\ settled'[run'[q].name] = run'[q].sure
                 /\ store'[run'[q].name] # NoFile =>
                       store'[run'[q].name].key \in Elements(run'[q].ids)
      <3>1. run'[q] = run[q] BY <2>1
      <3>2. run[q].name \in Names /\ settled[run[q].name] = run[q].sure
        BY <2>1, <3>1 DEF Knowledge, SureOfGet
      <3>3. run[q].name # n BY <2>1, <3>1, <3>2
      <3> QED BY <2>1, <3>1, <3>2, <3>3 DEF Knowledge, SureOfGet
    <2> QED BY <2>1 DEF SureOfGet
  <1>3. SureOfChange'
    <2>1. \A q \in Procs : run'[q].pc = "request" => run'[q] = run[q] OBVIOUS
    <2> QED BY <2>1 DEF Knowledge, SureOfChange
  <1>4. ReadsWhatWasAcked'
    <2>1. \A q \in Procs : run'[q].pc = "done" => run'[q] = run[q] OBVIOUS
    <2> QED BY <2>1 DEF Knowledge, ReadsWhatWasAcked
  <1> QED BY <1>1, <1>2, <1>3, <1>4 DEF Knowledge

LEMMA FinishKnows ==
    ASSUME Careful, TypeOK, Knowledge, NEW p \in Procs, Finish(p) PROVE Knowledge'
  <1>0. PICK r, n : r = run[p] /\ n = Target(r) OBVIOUS
  <1>1. PICK answer \in Answers :
          /\ Serve(r, answer)
          /\ IF r.op = "get" /\ answer = "ok"
             THEN Show(p, r, store[n])
             ELSE run' = [run EXCEPT ![p] = Ended(r, answer, NoValue)]
          /\ settled' = [m \in Names |->
                IF Changes(r) /\ answer # "failed" /\ m = n THEN r.sure ELSE settled[m]]
    BY <1>0 DEF Finish
  <1>2. r \in Commands /\ r.pc = "request" /\ late' = late BY <1>0 DEF Finish, TypeOK
  <1>3. CASE Changes(r) /\ answer # "failed"
    <2>1. ChangesNow(r) BY <1>2, <1>3 DEF ChangesNow
    <2>2. n \in Names BY <1>0, <1>1, <1>3 DEF Serve
    <2>3. settled[n] = Unknown BY <1>0, <2>1, <2>2, ChangedIsUnknown DEF Knowledge
    <2>4. run' = [run EXCEPT ![p] = Idle] BY <1>1, <1>3 DEF Changes, Ended
    <2>5. run'[p] = Idle /\ \A q \in Procs \ {p} : run'[q] = run[q] BY <2>4 DEF TypeOK
    <2>6. ~ChangesNow(Idle) /\ Idle.pc = "idle" BY IdleFields DEF ChangesNow
    <2>7. settled'[n] = r.sure /\ \A m \in Names \ {n} : settled'[m] = settled[m]
      BY <1>1, <1>3, <2>2
    <2>8. \A m \in Names \ {n} : store'[m] = store[m] BY <1>0, <1>1, <1>3 DEF Serve, TypeOK
    <2>9. ASSUME r.sure # Unknown PROVE Quiet(n)' /\ Matches(n, settled[n])'
      <3>1. /\ \A q \in Procs \ {p} : ChangesNow(run[q]) => Target(run[q]) # n
            /\ \A l \in late : Target(l) # n
            /\ r.op = "set" => r.body # NoFile /\ r.body.bound = n /\ r.body.value = r.sure
            /\ r.op = "delete" => r.sure = Gone
        BY <1>0, <1>2, <1>3, <2>9 DEF Knowledge, SureOfChange, ChangesNow
      <3>2. \A q \in Procs : run'[q].pc = "request" /\ Changes(run'[q]) => Target(run'[q]) # n
        BY <2>5, <2>6, <3>1 DEF ChangesNow
      <3>3. Quiet(n)' BY <1>2, <3>1, <3>2 DEF Quiet, Changes, Target
      <3>4. CASE r.op = "set"
        <4>1. store'[n] = r.body BY <1>0, <1>1, <1>3, <2>2, <3>4 DEF Serve, TypeOK
        <4>2. r.sure \in Values BY <1>2, <3>1, <3>4 DEF Commands, Ciphertexts
        <4>3. r.sure # Gone BY <4>2, ClientConstants
        <4> QED BY <2>7, <3>1, <3>3, <3>4, <4>1, <4>3 DEF Matches
      <3>5. CASE r.op = "delete"
        <4>1. store'[n] = NoFile BY <1>0, <1>1, <1>3, <2>2, <3>5 DEF Serve, TypeOK
        <4> QED BY <2>7, <3>1, <3>3, <3>5, <4>1 DEF Matches
      <3> QED BY <1>3, <3>4, <3>5 DEF Changes
    <2>10. settled'[n] # Unknown => Quiet(n)' /\ Matches(n, settled[n])' BY <2>7, <2>9
    <2>11. \A q \in Procs : run'[q] = run[q]
                            \/ (~ChangesNow(run'[q]) /\ run'[q].pc \notin {"request", "done"})
      BY <2>5, <2>6
    <2> QED BY <1>2, <2>2, <2>3, <2>7, <2>8, <2>10, <2>11, ServerChanges
  <1>4. CASE ~(Changes(r) /\ answer # "failed")
    <2>1. settled' = settled BY <1>1, <1>4 DEF TypeOK
    <2>2. store' = store BY <1>1, <1>4 DEF Serve, Changes
    <2>3. PICK how, v : /\ run' = [run EXCEPT ![p] = Ended(r, how, v)]
                        /\ ReadIsRight(Ended(r, how, v))
      <3>1. CASE answer = "failed"
        <4>1. ReadIsRight(Ended(r, "failed", NoValue)) BY EndedFields DEF ReadIsRight
        <4> QED BY <1>1, <3>1, <4>1
      <3>2. CASE answer # "failed"
        <4>1. r.op = "get" /\ n \in Names
              /\ answer = IF store[n] # NoFile THEN "ok" ELSE "absent"
          BY <1>0, <1>1, <1>4, <3>2 DEF Serve, Changes
        <4>2. ASSUME r.sure # Unknown
              PROVE  /\ n = r.name /\ Matches(n, r.sure)
                     /\ store[n] # NoFile => store[n].key \in Elements(r.ids)
          <5>1. /\ r.name \in Names /\ settled[r.name] = r.sure
                /\ store[r.name] # NoFile => store[r.name].key \in Elements(r.ids)
            BY <1>0, <1>2, <4>1, <4>2 DEF Knowledge, SureOfGet
          <5>2. n = r.name BY <1>0, <5>1, TargetOfName
          <5> QED BY <4>2, <5>1, <5>2 DEF Knowledge, SettledIsTrue
        <4>3. CASE answer = "absent"
          <5>1. r.sure # Unknown => r.sure = Gone BY <4>1, <4>2, <4>3 DEF Matches
          <5>2. ReadIsRight(Ended(r, "absent", NoValue)) BY <5>1, EndedFields DEF ReadIsRight
          <5> QED BY <1>1, <4>3, <5>2
        <4>4. CASE answer = "ok"
          <5>1. store[n] # NoFile /\ store[n] \in Ciphertexts BY <4>1, <4>4 DEF TypeOK
          <5>2. r.sure # Unknown => /\ Opens(store[n], Elements(r.ids), r.name)
                                    /\ store[n].value = r.sure
            BY <4>2, <5>1 DEF Matches, Opens, Decrypts
          <5>3. CASE Opens(store[n], Elements(r.ids), r.name)
            <6>1. ReadIsRight(Ended(r, "printed", store[n].value))
              BY <5>2, EndedFields DEF ReadIsRight
            <6> QED BY <1>1, <4>1, <4>4, <5>3, <6>1 DEF Show
          <5>4. CASE ~Opens(store[n], Elements(r.ids), r.name)
            <6>1. ReadIsRight(Ended(r, "refused", NoValue))
              BY <5>2, <5>4, EndedFields DEF ReadIsRight
            <6> QED BY <1>1, <4>1, <4>4, <5>4, <6>1 DEF Show
          <5> QED BY <5>3, <5>4
        <4> QED BY <3>2, <4>3, <4>4 DEF Answers
      <3> QED BY <3>1, <3>2
    <2>4. ~ChangesNow(Ended(r, how, v)) /\ GetIsSure(Ended(r, how, v))
      BY EndedFields DEF ChangesNow, GetIsSure
    <2> QED BY <1>2, <2>1, <2>2, <2>3, <2>4, OneCommand
  <1> QED BY <1>3, <1>4

LEMMA AbortKnows ==
    ASSUME Careful, TypeOK, Knowledge, NEW p \in Procs, Abort(p) PROVE Knowledge'
  <1>0. PICK r, n : r = run[p] /\ n = Target(r) OBVIOUS
  <1>1. /\ run' = [run EXCEPT ![p] = Ended(r, "failed", NoValue)]
        /\ store' = store /\ settled' = settled
    BY <1>0 DEF Abort, Fails
  <1>2. /\ ~ChangesNow(Ended(r, "failed", NoValue))
        /\ GetIsSure(Ended(r, "failed", NoValue)) /\ ReadIsRight(Ended(r, "failed", NoValue))
    BY EndedFields DEF ChangesNow, GetIsSure, ReadIsRight
  <1>3. CASE late' = late BY <1>1, <1>2, <1>3, OneCommand
  \* The request is left behind: nobody was sure of its name.
  <1>4. CASE /\ ChangesNow(r)
             /\ late' = late \cup {[op |-> r.op, name |-> r.name, body |-> r.body]}
    <2>1. run'[p] = Ended(r, "failed", NoValue) /\ \A q \in Procs \ {p} : run'[q] = run[q]
      BY <1>1 DEF TypeOK
    <2>2. \A q \in Procs : ChangesNow(run'[q]) => q # p /\ run'[q] = run[q] BY <1>2, <2>1
    <2>3. \A l \in late' : l \in late \/ Target(l) = n BY <1>0, <1>4 DEF Target
    <2>4. SettledIsTrue'
      <3>1. ASSUME NEW m \in Names, settled'[m] # Unknown
            PROVE  Quiet(m)' /\ Matches(m, settled[m])'
        <4>1. Quiet(m) /\ Matches(m, settled[m]) BY <1>1, <3>1 DEF Knowledge, SettledIsTrue
        <4>2. n # m BY <1>0, <1>4, <4>1 DEF Quiet, ChangesNow
        <4>3. Quiet(m)' BY <2>2, <2>3, <4>1, <4>2 DEF Quiet, ChangesNow
        <4> QED BY <1>1, <4>1, <4>3 DEF Matches
      <3> QED BY <3>1 DEF SettledIsTrue
    <2>5. SureOfGet' BY <1>1, <1>2, <2>1, KnowledgeParts DEF Knowledge, SureOfGet, GetIsSure
    <2>6. SureOfChange'
      <3>1. ASSUME NEW q \in Procs, ChangesNow(run'[q]), run'[q].sure # Unknown
            PROVE  /\ \A o \in Procs \ {q} : ChangesNow(run'[o]) => Target(run'[o]) # Target(run'[q])
                   /\ \A l \in late' : Target(l) # Target(run'[q])
                   /\ run'[q].op = "set" =>
                        /\ run'[q].body # NoFile
                        /\ run'[q].body.bound = Target(run'[q])
                        /\ run'[q].body.value = run'[q].sure
                   /\ run'[q].op = "delete" => run'[q].sure = Gone
        <4>1. q # p /\ run'[q] = run[q] BY <2>2, <3>1
        <4>2. /\ \A o \in Procs \ {q} : ChangesNow(run[o]) => Target(run[o]) # Target(run[q])
              /\ \A l \in late : Target(l) # Target(run[q])
              /\ run[q].op = "set" =>
                    /\ run[q].body # NoFile
                    /\ run[q].body.bound = Target(run[q])
                    /\ run[q].body.value = run[q].sure
              /\ run[q].op = "delete" => run[q].sure = Gone
          BY <3>1, <4>1 DEF Knowledge, SureOfChange, ChangesNow
        <4>3. n # Target(run[q]) BY <1>0, <1>4, <4>1, <4>2
        <4> QED BY <2>2, <2>3, <4>1, <4>2, <4>3
      <3>2. \A q \in Procs : Target(run[q])' = Target(run'[q]) BY DEF Target
      <3>3. \A q \in Procs : Changes(run[q])' <=> Changes(run'[q]) BY DEF Changes
      <3> QED BY <3>1, <3>2, <3>3 DEF SureOfChange, ChangesNow
    <2>7. ReadsWhatWasAcked'
      BY <1>2, <2>1, KnowledgeParts DEF Knowledge, ReadsWhatWasAcked, ReadIsRight
    <2> QED BY <2>4, <2>5, <2>6, <2>7 DEF Knowledge
  <1> QED BY <1>0, <1>3, <1>4 DEF Abort, ChangesNow

LEMMA StartGetKnows ==
    ASSUME Careful, TypeOK, KeysShared, Knowledge, NEW p \in Procs, StartGet(p)
    PROVE  Knowledge'
  <1> DEFINE r(t) == [Idle EXCEPT !.pc = "request", !.op = "get", !.name = t,
                                  !.sure = IF t \in Names THEN settled[t] ELSE Unknown]
  <1>1. PICK m \in Machines, t \in Typed :
          IF NoIdentity(m) THEN Fails(p, r(t))
          ELSE run' = [run EXCEPT ![p] = [r(t) EXCEPT !.ids = idfile[m]]]
    BY DEF StartGet
  <1>2. r(t) \in Commands BY GetTyped DEF TypeOK, Knowable
  <1>3. /\ r(t).pc = "request" /\ r(t).op = "get" /\ r(t).name = t
        /\ r(t).sure = IF t \in Names THEN settled[t] ELSE Unknown
    BY IdleTyped DEF Commands
  <1> HIDE DEF r
  <1>4. store' = store /\ settled' = settled /\ late' = late BY DEF StartGet
  <1>5. CASE NoIdentity(m)
    <2>1. LET e == Ended(r(t), "failed", NoValue)
          IN  ~ChangesNow(e) /\ GetIsSure(e) /\ ReadIsRight(e)
      BY EndedFields DEF ChangesNow, GetIsSure, ReadIsRight
    <2> QED BY <1>1, <1>4, <1>5, <2>1, OneCommand DEF Fails
  <1>6. CASE ~NoIdentity(m)
    <2> DEFINE g == [r(t) EXCEPT !.ids = idfile[m]]
    <2>1. /\ g.pc = "request" /\ g.op = "get" /\ g.name = t /\ g.ids = idfile[m]
          /\ g.sure = IF t \in Names THEN settled[t] ELSE Unknown
      BY <1>2, <1>3 DEF Commands
    <2> HIDE DEF g
    <2>2. ASSUME t \in Names, store[t] # NoFile PROVE store[t].key \in Elements(idfile[m])
      BY <1>6, <2>2 DEF KeysShared, AllSafe, Safe, CanRead, Held, NoIdentity
    <2>3. ~ChangesNow(g) /\ GetIsSure(g) /\ ReadIsRight(g)
      BY <2>1, <2>2 DEF ChangesNow, Changes, GetIsSure, ReadIsRight
    <2>4. run' = [run EXCEPT ![p] = g] BY <1>1, <1>6 DEF g
    <2> QED BY <1>4, <2>3, <2>4, OneCommand
  <1> QED BY <1>5, <1>6

LEMMA RotateKnows ==
    ASSUME Careful, TypeOK, Knowledge, Rotate PROVE Knowledge'
  <1>1. PICK k \in Keys :
          /\ Readable(k)
          /\ store' = [n \in Names |-> IF store[n] = NoFile THEN NoFile
                                       ELSE Rotated(n, store[n], k)]
    BY DEF Rotate
  <1>2. run' = run /\ late' = late /\ settled' = settled BY DEF Rotate
  <1>3. SettledIsTrue'
    <2>1. ASSUME NEW n \in Names, settled'[n] # Unknown PROVE Quiet(n)' /\ Matches(n, settled[n])'
      <3>1. Quiet(n) /\ Matches(n, settled[n]) BY <1>2, <2>1 DEF Knowledge, SettledIsTrue
      <3>2. Quiet(n)' BY <1>2, <3>1, QuietUntilLater
      <3>3. store[n] # NoFile => store'[n] = Rotated(n, store[n], k) BY <1>1
      <3>4. store'[n] # NoFile <=> store[n] # NoFile
        <4>1. ASSUME store[n] # NoFile PROVE Rotated(n, store[n], k) \in Ciphertexts
          BY <4>1 DEF TypeOK, Rotated, Ciphertexts
        <4>2. NoFile \notin Ciphertexts BY MarkersAreNoCiphertexts DEF Ciphertexts
        <4> QED BY <1>1, <4>1, <4>2
      <3>5. Matches(n, settled[n])' BY <1>2, <3>1, <3>3, <3>4 DEF Matches, Rotated
      <3> QED BY <3>2, <3>5
    <2> QED BY <2>1 DEF SettledIsTrue
  <1>4. SureOfGet'
    <2>1. ASSUME NEW q \in Procs, run[q].op = "get", run[q].pc = "request",
                 run[q].name \in Names, store'[run[q].name] # NoFile
          PROVE  store'[run[q].name].key \in Elements(run[q].ids)
      <3>1. store'[run[q].name].key = k BY <1>1, <2>1 DEF Rotated
      <3> QED BY <1>1, <2>1, <3>1 DEF Readable
    <2> QED BY <1>2, <2>1 DEF Knowledge, SureOfGet
  <1>5. SureOfChange' /\ ReadsWhatWasAcked'
    BY <1>2 DEF Knowledge, SureOfChange, ReadsWhatWasAcked, Target, Changes
  <1> QED BY <1>3, <1>4, <1>5 DEF Knowledge

LEMMA MisfileKnows ==
    ASSUME Careful, TypeOK, Knowledge, Misfile PROVE Knowledge'
  <1>1. PICK i \in Names, n \in Names :
          /\ store' = [store EXCEPT ![n] = store[i]]
          /\ run' = Doubt(run, n)
          /\ Forget(n)
    BY DEF Misfile
  <1>2. late' = late BY DEF Misfile
  <1>3. settled' = [m \in Names |-> IF m = n THEN Unknown ELSE settled[m]]
    BY <1>1 DEF Forget
  <1>4. \A q \in Procs :
            LET d == run'[q]
                o == run[q]
            IN  /\ d.pc = o.pc /\ d.op = o.op /\ d.name = o.name /\ d.value = o.value
                /\ d.ids = o.ids /\ d.body = o.body /\ d.out = o.out /\ Target(d) = Target(o)
                /\ d.sure = IF Target(o) = n THEN Unknown ELSE o.sure
    BY <1>1, DoubtFields DEF TypeOK, Target
  <1>5. \A q \in Procs : ChangesNow(run'[q]) <=> ChangesNow(run[q])
    BY <1>4 DEF ChangesNow, Changes
  <1>6. SettledIsTrue'
    <2>1. ASSUME NEW m \in Names, settled'[m] # Unknown PROVE Quiet(m)' /\ Matches(m, settled[m])'
      <3>1. m # n /\ settled'[m] = settled[m] BY <1>3, <2>1
      <3>2. Quiet(m) /\ Matches(m, settled[m]) BY <2>1, <3>1 DEF Knowledge, SettledIsTrue
      <3>3. Quiet(m)' BY <1>2, <1>4, <1>5, <3>2, QuietUntilLater
      <3>4. store'[m] = store[m] BY <1>1, <3>1 DEF TypeOK
      <3> QED BY <3>1, <3>2, <3>3, <3>4 DEF Matches
    <2> QED BY <2>1 DEF SettledIsTrue
  <1>7. SureOfGet'
    <2>1. ASSUME NEW q \in Procs, run'[q].op = "get", run'[q].pc = "request",
                 run'[q].sure # Unknown
          PROVE  /\ run'[q].name \in Names
                 /\ settled'[run'[q].name] = run'[q].sure
                 /\ store'[run'[q].name] # NoFile =>
                       store'[run'[q].name].key \in Elements(run'[q].ids)
      <3>1. /\ run[q].op = "get" /\ run[q].pc = "request" /\ run[q].sure # Unknown
            /\ run'[q].name = run[q].name /\ run'[q].ids = run[q].ids
            /\ run'[q].sure = run[q].sure /\ Target(run[q]) # n
        BY <1>4, <2>1
      <3>2. /\ run[q].name \in Names
            /\ settled[run[q].name] = run[q].sure
            /\ store[run[q].name] # NoFile => store[run[q].name].key \in Elements(run[q].ids)
        BY <3>1 DEF Knowledge, SureOfGet
      <3>3. run[q].name # n BY <3>1, <3>2, TargetOfName
      <3> QED BY <1>1, <1>3, <3>1, <3>2, <3>3 DEF TypeOK
    <2> QED BY <2>1 DEF SureOfGet
  <1>8. SureOfChange'
    <2>1. \A q \in Procs : run'[q].sure # Unknown => run'[q].sure = run[q].sure BY <1>4
    <2>2. \A q \in Procs : Changes(run'[q]) <=> Changes(run[q]) BY <1>4 DEF Changes
    <2>3. \A q \in Procs : Changes(run[q])' <=> Changes(run'[q]) BY DEF Changes
    <2>4. \A q \in Procs : Target(run[q])' = Target(run'[q]) BY DEF Target
    <2> QED BY <1>2, <1>4, <2>1, <2>2, <2>3, <2>4 DEF Knowledge, SureOfChange
  <1>9. ReadsWhatWasAcked' BY <1>4 DEF Knowledge, ReadsWhatWasAcked
  <1> QED BY <1>6, <1>7, <1>8, <1>9 DEF Knowledge

LEMMA KnowledgeStep ==
    ASSUME Careful, TypeOK, KeysShared, Knowledge, [Next]_vars PROVE Knowledge'
  <1>i. ~ChangesNow(Idle) /\ GetIsSure(Idle) /\ ReadIsRight(Idle)
    BY IdleFields DEF ChangesNow, GetIsSure, ReadIsRight
  \* Steps that leave secrets, knowledge and commands alone.
  <1>k. ASSUME store' = store, run' = run, settled' = settled, late' \subseteq late
        PROVE  Knowledge'
    <2>1. SettledIsTrue'
      <3>1. \A n \in Names : Quiet(n) => Quiet(n)' BY <1>k, QuietUntilLater
      <3> QED BY <1>k, <3>1 DEF Knowledge, SettledIsTrue, Matches
    <2>2. SureOfGet' /\ SureOfChange' /\ ReadsWhatWasAcked'
      BY <1>k DEF Knowledge, SureOfGet, SureOfChange, ReadsWhatWasAcked, Target, Changes
    <2> QED BY <2>1, <2>2 DEF Knowledge
  <1>1. ASSUME NEW p \in Procs, StartGet(p) PROVE Knowledge' BY <1>1, StartGetKnows
  <1>2. ASSUME NEW p \in Procs, StartSet(p) PROVE Knowledge'
    <2> DEFINE r(m, o) == [Idle EXCEPT !.pc = "request", !.op = "set", !.name = o[1],
                                       !.body = Sealed(idfile[m], o[1], o[2])]
    <2>1. PICK m \in Machines, o \in Offered :
            o[1] \in Names /\ ~NoIdentity(m) /\ BeginChange(p, r(m, o), o[2])
      BY <1>2 DEF StartSet
    <2>2. o[1] \in Typed /\ o[2] \in Values BY ClientConstants
    <2>3. EncryptionTarget(idfile[m]) \in Keys
      BY <2>1 DEF EncryptionTarget, NoIdentity, TypeOK
    <2>4. PICK c : c = Sealed(idfile[m], o[1], o[2]) OBVIOUS
    <2>5. c \in Ciphertexts BY <2>1, <2>2, <2>3, <2>4 DEF Sealed, Ciphertexts
    <2>6. PICK g : g = r(m, o) OBVIOUS
    <2>7. g \in Commands BY <2>2, <2>4, <2>5, <2>6, SetTyped
    <2>8. g.pc = "request" /\ g.op = "set" /\ g.name = o[1] /\ g.body = c
      BY <2>4, <2>6, IdleTyped DEF Commands
    <2>9. Target(g) = o[1] BY <2>1, <2>8, TargetOfName
    <2>10. c # NoFile BY <2>5, MarkersAreNoCiphertexts DEF Ciphertexts
    <2>11. c.bound = o[1] /\ c.value = o[2] BY <2>4 DEF Sealed
    <2>12. o[2] # Unknown /\ o[2] \in Knowable BY <2>2, ClientConstants DEF Knowable
    <2>13. ChangesNow(g) BY <2>8 DEF ChangesNow, Changes
    <2>14. store' = store /\ late' = late /\ run[p].pc = "idle" BY <1>2 DEF StartSet
    <2>15. BeginChange(p, g, o[2]) BY <2>1, <2>6
    <2> HIDE DEF r
    <2> QED BY <2>7, <2>8, <2>9, <2>10, <2>11, <2>12, <2>13, <2>14, <2>15, ChangeBegins
  <1>3. ASSUME NEW p \in Procs, StartDelete(p) PROVE Knowledge'
    <2> DEFINE r(t) == [Idle EXCEPT !.pc = "request", !.op = "delete", !.name = t]
    <2>1. PICK t \in Typed : BeginChange(p, r(t), Gone) BY <1>3 DEF StartDelete
    <2>2. r(t) \in Commands BY DeleteTyped
    <2>3. r(t).pc = "request" /\ r(t).op = "delete" BY IdleTyped DEF Commands
    <2> HIDE DEF r
    <2>4. ChangesNow(r(t)) BY <2>3 DEF ChangesNow, Changes
    <2>5. store' = store /\ late' = late /\ run[p].pc = "idle" BY <1>3 DEF StartDelete
    <2>6. Gone # Unknown /\ Gone \in Knowable BY ClientConstants DEF Knowable
    <2> QED BY <2>1, <2>2, <2>3, <2>4, <2>5, <2>6, ChangeBegins
  <1>4. ASSUME NEW p \in Procs, Finish(p) PROVE Knowledge' BY <1>4, FinishKnows
  <1>5. ASSUME NEW p \in Procs, Abort(p) PROVE Knowledge' BY <1>5, AbortKnows
  <1>6. ASSUME NEW p \in Procs, Quit(p) PROVE Knowledge'
    BY <1>6, <1>i, OneCommand DEF Quit
  <1>7. ASSUME NEW p \in Procs, StartInit(p) PROVE Knowledge'
    <2> DEFINE r(m, k) == [Idle EXCEPT !.pc = "create", !.op = "init", !.machine = m,
                                       !.ids = <<k>>]
    <2>1. PICK m \in Machines, k \in Keys : run' = [run EXCEPT ![p] = r(m, k)]
      BY <1>7 DEF StartInit
    <2>2. r(m, k).pc = "create" BY IdleTyped DEF Commands
    <2> HIDE DEF r
    <2>3. ~ChangesNow(r(m, k)) /\ GetIsSure(r(m, k)) /\ ReadIsRight(r(m, k))
      BY <2>2 DEF ChangesNow, GetIsSure, ReadIsRight
    <2>4. store' = store /\ settled' = settled /\ late' = late BY <1>7 DEF StartInit
    <2> QED BY <2>1, <2>3, <2>4, OneCommand
  <1>8. ASSUME NEW p \in Procs, Create(p) PROVE Knowledge'
    <2>1. LET e == Ended(run[p], "failed", NoValue)
          IN  ~ChangesNow(e) /\ GetIsSure(e) /\ ReadIsRight(e)
      BY EndedFields DEF ChangesNow, GetIsSure, ReadIsRight
    <2>2. LET w == [run[p] EXCEPT !.pc = "write"]
          IN  ~ChangesNow(w) /\ GetIsSure(w) /\ ReadIsRight(w)
      <3>1. run[p] \in Commands BY DEF TypeOK
      <3>2. [run[p] EXCEPT !.pc = "write"].pc = "write" BY <3>1 DEF Commands
      <3> QED BY <3>2 DEF ChangesNow, GetIsSure, ReadIsRight
    <2>3. \/ run' = [run EXCEPT ![p] = [run[p] EXCEPT !.pc = "write"]]
          \/ run' = [run EXCEPT ![p] = Ended(run[p], "failed", NoValue)]
      BY <1>8 DEF Create, Fails
    <2>4. store' = store /\ settled' = settled /\ late' = late BY <1>8 DEF Create
    <2>5. CASE run' = [run EXCEPT ![p] = [run[p] EXCEPT !.pc = "write"]]
      BY <2>2, <2>4, <2>5, OneCommand
    <2>6. CASE run' = [run EXCEPT ![p] = Ended(run[p], "failed", NoValue)]
      BY <2>1, <2>4, <2>6, OneCommand
    <2> QED BY <2>3, <2>5, <2>6
  <1>9. ASSUME NEW p \in Procs, Write(p) PROVE Knowledge'
    BY <1>9, <1>i, OneCommand DEF Write
  <1>10. CASE FinishLate
    <2>1. PICK r \in late, answer \in Answers : Serve(r, answer) /\ late' = late \ {r}
      BY <1>10 DEF FinishLate
    <2>2. run' = run /\ settled' = settled BY <1>10 DEF FinishLate
    <2>3. CASE store' = store BY <1>k, <2>1, <2>2, <2>3
    <2>4. CASE store' # store
      <3>1. PICK n \in Names : n = Target(r) BY <2>1, <2>4 DEF Serve
      <3>2. \A m \in Names \ {n} : store'[m] = store[m] BY <2>1, <3>1 DEF Serve, TypeOK
      <3>3. settled[n] = Unknown BY <3>1, ChangedIsUnknown DEF Knowledge
      <3> QED BY <2>1, <2>2, <3>2, <3>3, ServerChanges
    <2> QED BY <2>3, <2>4
  <1>11. CASE Stop BY <1>11, <1>k DEF Stop
  <1>12. CASE Boot BY <1>12, <1>k DEF Boot
  <1>13. CASE Rotate BY <1>13, RotateKnows
  <1>14. CASE Misfile BY <1>14, MisfileKnows
  <1>15. ASSUME NEW m \in Machines, NEW ids \in IdentityFiles, Install(m, ids) PROVE Knowledge'
    BY <1>15, <1>k DEF Install
  <1>16. CASE UNCHANGED vars BY <1>16, <1>k DEF vars
  <1> QED BY <1>1, <1>2, <1>3, <1>4, <1>5, <1>6, <1>7, <1>8, <1>9, <1>10, <1>11, <1>12,
             <1>13, <1>14, <1>15, <1>16 DEF Next, Step, Operator

LEMMA KnowledgeInit == ASSUME Careful, Init PROVE KeysShared /\ Knowledge
  <1>1. KeysShared
    BY IdleFields DEF Init, KeysShared, AllSafe, Safe, Targets, NoIdentity, OneIdentity, EmptyDir
  <1>2. SettledIsTrue
    BY IdleFields DEF Init, SettledIsTrue, Quiet, Matches, EmptyDir
  <1>3. SureOfGet /\ SureOfChange /\ ReadsWhatWasAcked
    BY IdleFields DEF Init, SureOfGet, SureOfChange, ReadsWhatWasAcked
  <1> QED BY <1>1, <1>2, <1>3 DEF Knowledge

\* When keys are replaced with an overlap, a get that gets an answer prints
\* the value of the last answered change, or says that there is none, unless
\* another change may be under way (client.go:79-114, 167-209).
THEOREM ReadsAcked == Spec => []ReadsWhatWasAcked
  <1> DEFINE IInv == TypeOK /\ Writers /\ (Careful => KeysShared /\ Knowledge)
  <1>1. Init => IInv
    <2>1. Init => TypeOK BY IdleTyped, ClientConstants DEF Init, TypeOK, EmptyDir
    <2>2. Init => Writers BY IdleFields DEF Init, Writers
    <2> QED BY <2>1, <2>2, KnowledgeInit
  <1>2. IInv /\ [Next]_vars => IInv'
    BY TypeStep, WritersStep, KeysStep, KnowledgeStep
  <1>3. IInv => ReadsWhatWasAcked BY DEF Knowledge, ReadsWhatWasAcked
  <1> QED BY <1>1, <1>2, <1>3, PTL DEF Spec

=============================================================================
