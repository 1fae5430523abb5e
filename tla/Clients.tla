------------------------------ MODULE Clients ------------------------------
(***************************************************************************)
(* The commands get, set, delete and init as one user runs them on several *)
(* machines, against a server that keeps AbstractStore's promise: a        *)
(* request takes effect at one instant between its arrival and its answer, *)
(* or not at all.                                                          *)
(*                                                                         *)
(* No command holds anything between its steps.  The identity file is read *)
(* before the request is made, the request is made once, without a         *)
(* timeout, and a client that is gone does not take back what it sent.     *)
(* Meanwhile the operator may restart the server, rotate the identity,     *)
(* hand out new identity files, and put a ciphertext under a wrong name.   *)
(* "Careful" says whether keys are replaced with an overlap: a key is used *)
(* once everyone can read it, and dropped once nothing needs it.           *)
(***************************************************************************)
EXTENDS Ciphertexts, Sequences, Naturals, FiniteSets

CONSTANTS
    Procs,      \* invocations that may be under way at once
    Machines,   \* the user's machines, each with its identity file
    Typed,      \* names as typed on a command line, the valid ones included
    BadName,    \* what the server refuses
    Addressed,  \* [typed name -> the name the server reads off the URL]
    Offered,    \* the pairs of a typed name and a value the user may set
    Nowhere,    \* the machine of no command
    NoValue,    \* the value of a command that has none
    Absent,     \* no identity file
    Gone,       \* known of a name: no secret is stored
    Unknown,    \* nothing is known of a name
    MaxLate,    \* bound: requests whose client is gone
    Careful     \* are keys replaced with an overlap?

\* A valid name is its own path; others are cut at "?" or "#", unescaped, or
\* refused by the server's validName.
ASSUME ClientConstants ==
    /\ Invalid = {}
    /\ Names \subseteq Typed
    /\ BadName \notin Names /\ Unbound \notin Typed
    /\ Addressed \in [Typed -> Names \cup {BadName}]
    /\ \A n \in Names : Addressed[n] = n
    /\ Offered \subseteq Typed \X Values
    /\ Nowhere \notin Machines
    /\ NoValue \notin Values
    /\ Absent \notin Seq(Keys)
    /\ Gone \notin Values /\ Unknown \notin Values /\ Gone # Unknown
    /\ MaxLate \in Nat
    /\ Careful \in BOOLEAN

VARIABLES
    store,      \* the user's secrets on the server
    up,         \* is the server running?
    idfile,     \* [machine -> the identities in its file, in order, or Absent]
    run,        \* [process -> the command it runs]
    late,       \* requests that a server still has from clients that are gone
    settled     \* history: [name -> what the last answer tells the user]

vars == <<store, up, idfile, run, late, settled>>

\* A command has one step for each look at what others can change: the
\* identity file, then the server.  Its fields: the next step; what was typed;
\* the identities it loaded (init: the one it made); the ciphertext it sends;
\* how it ended; and, a history, what a get must find, or a change establishes.
Idle == [pc |-> "idle", op |-> "none", machine |-> Nowhere, name |-> BadName,
         value |-> NoValue, ids |-> << >>, body |-> NoFile, out |-> "none",
         sure |-> Unknown]

Init ==
    /\ store = EmptyDir
    /\ up = TRUE
    /\ idfile = [m \in Machines |-> Absent]
    /\ run = [p \in Procs |-> Idle]
    /\ late = {}
    /\ settled = [n \in Names |-> Gone]

Elements(s) == { s[i] : i \in DOMAIN s }

\* The keys a machine can decrypt with.
Held(m) == IF idfile[m] = Absent THEN {} ELSE Elements(idfile[m])

Target(r) == IF r.name \in Typed THEN Addressed[r.name] ELSE BadName

Changes(r) == r.op \in {"set", "delete"}

\* No change of n is under way.
Quiet(n) ==
    /\ \A q \in Procs : run[q].pc = "request" /\ Changes(run[q]) => Target(run[q]) # n
    /\ \A r \in late : Target(r) # n

-----------------------------------------------------------------------------
\* What the user may conclude: nothing of a name that is being changed.

Doubt(runs, n) ==
    [q \in Procs |-> IF Target(runs[q]) = n THEN [runs[q] EXCEPT !.sure = Unknown]
                     ELSE runs[q]]

Forget(n) == settled' = [m \in Names |-> IF m = n THEN Unknown ELSE settled[m]]

\* A command that will change the name it addresses begins.
BeginChange(p, r, then) ==
    LET n == Target(r)
    IN  /\ run' = [Doubt(run, n) EXCEPT
                    ![p] = [r EXCEPT !.sure = IF Quiet(n) THEN then ELSE Unknown]]
        /\ Forget(n)

\* Only a get leaves something to look at.
Ended(r, how, value) ==
    IF r.op = "get"
    THEN [pc |-> "done", op |-> "get", machine |-> Nowhere, name |-> r.name,
          value |-> value, ids |-> << >>, body |-> NoFile, out |-> how, sure |-> r.sure]
    ELSE Idle

Fails(p, r) == run' = [run EXCEPT ![p] = Ended(r, "failed", NoValue)]

-----------------------------------------------------------------------------
\* The commands, up to the request.

\* Variant with a bug: the identity that was added last is the target.
LastTarget(ids) == ids[Len(ids)]

EncryptionTarget(ids) == Head(ids)

\* Variant with a bug: the value is sent as it is.
PlainRequest(ids, t, v) == v

\* packEnvelope and age.Encrypt.
Sealed(ids, t, v) == [key |-> EncryptionTarget(ids), bound |-> t, value |-> v]

\* loadClientIdentities: no file, or one without an identity, is an error.
NoIdentity(m) == idfile[m] \in {Absent, << >>}

StartGet(p) ==
    /\ run[p].pc = "idle"
    /\ \E m \in Machines, t \in Typed :
        LET r == [Idle EXCEPT !.pc = "request", !.op = "get", !.name = t,
                              !.sure = IF t \in Names THEN settled[t] ELSE Unknown]
        IN  IF NoIdentity(m) THEN Fails(p, r)
            ELSE run' = [run EXCEPT ![p] = [r EXCEPT !.ids = idfile[m]]]
    /\ UNCHANGED <<store, up, idfile, late, settled>>

\* set refuses a name that validName refuses before it does anything else.
StartSet(p) ==
    /\ run[p].pc = "idle"
    /\ \E m \in Machines, o \in Offered :
        /\ o[1] \in Names /\ ~NoIdentity(m)
        /\ BeginChange(p,
              [Idle EXCEPT !.pc = "request", !.op = "set", !.name = o[1],
                           !.body = Sealed(idfile[m], o[1], o[2])],
              o[2])
    /\ UNCHANGED <<store, up, idfile, late>>

\* del loads no identity and sends whatever was typed.
StartDelete(p) ==
    /\ run[p].pc = "idle"
    /\ \E t \in Typed :
        BeginChange(p, [Idle EXCEPT !.pc = "request", !.op = "delete", !.name = t], Gone)
    /\ UNCHANGED <<store, up, idfile, late>>

-----------------------------------------------------------------------------
\* The server's part, as AbstractStore has it.

Serve(r, answer) ==
    LET n == Target(r)
        found == IF n \in Names /\ store[n] # NoFile THEN "ok" ELSE "absent"
    IN  \/ /\ n \in Names /\ r.op = "set" /\ answer = "ok"
           /\ store' = [store EXCEPT ![n] = r.body]
        \/ /\ n \in Names /\ r.op = "delete" /\ answer = found
           /\ store' = [store EXCEPT ![n] = NoFile]
        \/ /\ n \in Names /\ r.op = "get" /\ answer = found
           /\ UNCHANGED store
        \/ /\ n = BadName \/ r.op = "set"
           /\ answer = "failed"
           /\ UNCHANGED store

Answers == {"ok", "absent", "failed"}

-----------------------------------------------------------------------------
\* The rest of a command, once the server has acted.

\* Variant with a bug: the envelope's name is not compared.
OpensAnyName(c, ids, name) == Decrypts(c, ids)

\* decryptCiphertext and unpackEnvelope.
Opens(c, ids, name) == Decrypts(c, ids) /\ c.bound = name

\* What get makes of a ciphertext.
Show(p, r, c) ==
    run' = [run EXCEPT ![p] = IF Opens(c, Elements(r.ids), r.name)
                              THEN Ended(r, "printed", c.value)
                              ELSE Ended(r, "refused", NoValue)]

Finish(p) ==
    /\ up /\ run[p].pc = "request"
    /\ \E answer \in Answers :
        LET r == run[p]
        IN  /\ Serve(r, answer)
            /\ IF r.op = "get" /\ answer = "ok"
               THEN Show(p, r, store[Target(r)])
               ELSE run' = [run EXCEPT ![p] = Ended(r, answer, NoValue)]
            /\ settled' = [n \in Names |->
                  IF Changes(r) /\ answer # "failed" /\ n = Target(r) THEN r.sure
                  ELSE settled[n]]
    /\ UNCHANGED <<up, idfile, late>>

\* The server cannot be reached, the connection breaks, or the command is
\* interrupted: a server that has the request may still act on it.
Abort(p) ==
    /\ run[p].pc \in {"request", "create", "write"}
    /\ Fails(p, run[p])
    /\ \/ UNCHANGED late
       \/ /\ up /\ run[p].pc = "request" /\ Changes(run[p])
          /\ Cardinality(late) < MaxLate
          /\ late' = late \cup {[op |-> run[p].op, name |-> run[p].name,
                                 body |-> run[p].body]}
    /\ UNCHANGED <<store, up, idfile, settled>>

FinishLate ==
    /\ up
    /\ \E r \in late :
        /\ \E answer \in Answers : Serve(r, answer)
        /\ late' = late \ {r}
    /\ UNCHANGED <<up, idfile, run, settled>>

Quit(p) ==
    /\ run[p].pc = "done"
    /\ run' = [run EXCEPT ![p] = Idle]
    /\ UNCHANGED <<store, up, idfile, late, settled>>

-----------------------------------------------------------------------------
\* init.

InUse == UNION ({ Held(m) : m \in Machines }
                \cup { Elements(run[p].ids) : p \in Procs })
         \cup { c.key : c \in Ciphertexts \cap
                    ({ store[n] : n \in Names } \cup { run[p].body : p \in Procs }
                        \cup { r.body : r \in late }) }

\* A careful user makes one identity and copies it to the other machines.
StartInit(p) ==
    /\ run[p].pc = "idle"
    /\ \E m \in Machines, k \in Keys \ InUse :
        /\ idfile[m] = Absent
        /\ Careful => /\ \A o \in Machines : NoIdentity(o)
                      /\ \A q \in Procs : run[q].op = "init" => run[q].machine = m
        /\ run' = [run EXCEPT ![p] = [Idle EXCEPT !.pc = "create", !.op = "init",
                                                  !.machine = m, !.ids = <<k>>]]
    /\ UNCHANGED <<store, up, idfile, late, settled>>

\* Variant with a bug: os.OpenFile without O_EXCL, with O_TRUNC.
CreateAnyway(p) ==
    /\ run[p].pc = "create"
    /\ idfile' = [idfile EXCEPT ![run[p].machine] = << >>]
    /\ run' = [run EXCEPT ![p].pc = "write"]
    /\ UNCHANGED <<store, up, late, settled>>

Create(p) ==
    /\ run[p].pc = "create"
    /\ \/ /\ idfile[run[p].machine] = Absent
          /\ idfile' = [idfile EXCEPT ![run[p].machine] = << >>]
          /\ run' = [run EXCEPT ![p].pc = "write"]
       \/ /\ idfile[run[p].machine] # Absent
          /\ Fails(p, run[p])
          /\ UNCHANGED idfile
    /\ UNCHANGED <<store, up, late, settled>>

\* The error of Fprintf is not looked at: after a full disk the command ends
\* as after a write.
Write(p) ==
    /\ run[p].pc = "write"
    /\ \/ idfile' = [idfile EXCEPT ![run[p].machine] = run[p].ids]
       \/ UNCHANGED idfile
    /\ run' = [run EXCEPT ![p] = Idle]
    /\ UNCHANGED <<store, up, late, settled>>

-----------------------------------------------------------------------------
\* The operator.

\* The server's process ends and forgets its requests.  Commands that were
\* waiting for it go to Abort; one that has not sent its request yet may still
\* send it to the next process.
Stop ==
    /\ up
    /\ up' = FALSE
    /\ late' = {}
    /\ UNCHANGED <<store, idfile, run, settled>>

Boot ==
    /\ ~up
    /\ up' = TRUE
    /\ UNCHANGED <<store, idfile, run, late, settled>>

\* Everyone can read what is encrypted to k: each machine that has a file,
\* and each get that has loaded one.
Readable(k) ==
    /\ \A m \in Machines : NoIdentity(m) \/ k \in Held(m)
    /\ \A p \in Procs : run[p].op = "get" /\ run[p].pc = "request" =>
                        k \in Elements(run[p].ids)

\* rotate-identity with some machine's identity file: all secrets or none.
Rotate ==
    /\ ~up
    /\ \E m \in Machines, k \in Keys :
        /\ Careful => Readable(k)
        /\ \A n \in Listed(store) : Migrates(n, store[n], Held(m))
        /\ store' = [n \in Names |-> IF store[n] = NoFile THEN NoFile
                                     ELSE Rotated(n, store[n], k)]
    /\ UNCHANGED <<up, idfile, run, late, settled>>

\* The keys that are stored, under way, or the next target of another machine.
Needed(m) ==
    { c.key : c \in Ciphertexts \cap
          ({ store[n] : n \in Names } \cup { run[p].body : p \in Procs }
              \cup { r.body : r \in late }) }
    \cup { Head(idfile[o]) : o \in { o \in Machines \ {m} : ~NoIdentity(o) } }

\* A machine's identity file is written by hand, though not while an init is
\* writing it.
Install(m, ids) ==
    /\ \A p \in Procs : run[p].pc = "write" => run[p].machine # m
    /\ Careful => /\ \A p \in Procs : run[p].op # "init"
                  /\ Needed(m) \subseteq Elements(ids)
                  /\ \A o \in Machines \ {m} : NoIdentity(o) \/ Head(ids) \in Held(o)
    /\ idfile' = [idfile EXCEPT ![m] = ids]
    /\ UNCHANGED <<store, up, run, late, settled>>

\* Files that name each identity once.
IdentityFiles == { <<k>> : k \in Keys } \cup { p \in Keys \X Keys : p[1] # p[2] }

\* A ciphertext is copied over another's on the server's disk.
Misfile ==
    /\ \E n, o \in Names :
        /\ n # o /\ store[n] # NoFile
        /\ store' = [store EXCEPT ![o] = store[n]]
        /\ run' = Doubt(run, o)
        /\ Forget(o)
    /\ UNCHANGED <<up, idfile, late>>

-----------------------------------------------------------------------------

Step(p) ==
    \/ StartGet(p) \/ StartSet(p) \/ StartDelete(p) \/ Finish(p) \/ Abort(p) \/ Quit(p)
    \/ StartInit(p) \/ Create(p) \/ Write(p)

Operator ==
    \/ Stop \/ Boot \/ Rotate \/ Misfile
    \/ \E m \in Machines, ids \in IdentityFiles : Install(m, ids)

Next == (\E p \in Procs : Step(p)) \/ FinishLate \/ Operator

Spec == Init /\ [][Next]_vars

-----------------------------------------------------------------------------
\* The shape of the state.
Commands ==
    [pc : {"idle", "request", "create", "write", "done"},
     op : {"none", "get", "set", "delete", "init"},
     machine : Machines \cup {Nowhere},
     name : Typed \cup {BadName},
     value : Values \cup {NoValue},
     ids : Seq(Keys),
     body : Ciphertexts \cup {NoFile},
     out : {"none", "absent", "failed", "refused", "printed"},
     sure : Values \cup {Gone, Unknown}]

TypeOK ==
    /\ store \in [Names -> Ciphertexts \cup {NoFile}]
    /\ up \in BOOLEAN
    /\ idfile \in [Machines -> Seq(Keys) \cup {Absent}]
    /\ run \in [Procs -> Commands]
    /\ late \subseteq [op : {"set", "delete"}, name : Typed \cup {BadName},
                       body : Ciphertexts \cup {NoFile}]
    /\ settled \in [Names -> Values \cup {Gone, Unknown}]

\* What get prints under a name, a user set under that very name, whatever
\* was moved on the disk, rotated, sent late, and however carelessly keys are
\* handled: the envelope (envelope.go:40-62, client.go:106-111).
PrintsOwnName ==
    \A p \in Procs : run[p].out = "printed" => <<run[p].name, run[p].value>> \in Offered

\* Keys are replaced with an overlap.  If the last change of a name was
\* answered, and no other change of it was under way meanwhile or has begun
\* since (a client that gave up may still have one under way), a get on any
\* machine that gets an answer prints that value, or says there is none:
\* set's target is the file's first identity (client.go:180), get tries all
\* (client.go:97), though both read the file before the request.
ReadsWhatWasAcked ==
    \A p \in Procs :
        Careful /\ run[p].op = "get" /\ run[p].pc = "done" /\ run[p].sure # Unknown =>
            \/ run[p].out = "failed"
            \/ run[p].out = "absent" /\ run[p].sure = Gone
            \/ run[p].out = "printed" /\ run[p].sure = run[p].value

\* init, however many run at once, never touches a file with an identity in
\* it (identity.go:19, 32: Stat, and O_EXCL against the race with it).
InitNeverReplaces ==
    [][\A p \in Procs, m \in Machines :
          run[p].op = "init" /\ run'[p] # run[p] /\ Held(m) # {} => idfile'[m] = idfile[m]]_vars

=============================================================================
