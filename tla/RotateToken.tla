---------------------------- MODULE RotateToken ----------------------------
(***************************************************************************)
(* aged rotate-token, the operator who also edits the configuration file,  *)
(* and the server that reads it when it starts.                            *)
(*                                                                         *)
(* A run reads the file, gives one user a new random token, stages the     *)
(* whole file anew with the old one's owner, and renames it into place.    *)
(* It takes no lock.  "Careful" says whether the operator lets one run end *)
(* before the next run or edit.                                            *)
(***************************************************************************)
EXTENDS Users

CONSTANTS
    Rotators,       \* invocations of the command; each runs once
    Rests,          \* the file's other values, taken together
    Environments,   \* AGED_USERNAME and AGED_TOKEN as the server may see them
    InitialUsers,   \* what the file's [[users]] may be at first
    MaxUsers,       \* bound: entries in the file
    MaxEdits,       \* bound: the operator's edits
    NoStage,        \* no staged file
    Faults,         \* may a system call fail, a run be killed?
    Careful         \* does the operator do one thing at a time?

ASSUME TokenConstants ==
    /\ Environments \subseteq [name : UserNames \cup {Unset}, token : Tokens \cup {Unset}]
    /\ InitialUsers \subseteq Seq(User)
    /\ MaxUsers \in Nat /\ MaxEdits \in Nat
    /\ Faults \in BOOLEAN /\ Careful \in BOOLEAN

VARIABLES
    file,       \* the configuration file: its users, other values, owner
    env,        \* the server's environment
    staged,     \* [run -> its .config-*.toml, or NoStage]
    pc,         \* [run -> its next step]
    run,        \* [run -> what it holds in memory]
    tenants,    \* the running server's users; << >> when it is down
    edits,      \* how many edits the operator has made
    issued,     \* history: the tokens in use so far; random ones are new
    given,      \* history: [name -> the token its client was last told, or Unset]
    untold,     \* history: names whose new token was lost before it was printed
    retired,    \* history: tokens a rotation took out of the configuration
    buried      \* history: tokens retired when the server last started

vars == <<file, env, staged, pc, run, tenants, edits, issued, given, untold,
          retired, buried>>
server == <<tenants, buried>>
told == <<given, untold>>

Owners == {"root", "service"}

TokensIn(users) == {users[i].token : i \in DOMAIN users}

\* Variant with a bug: a generator that may repeat an earlier token.
Repeating == Tokens \ (Malformed \cup TokensIn(file.users))

\* rand.Read: 256 random bits are no token seen before.
FreshTokens == Tokens \ (Malformed \cup issued)

GivenAtFirst(users) ==
    [n \in UserNames |->
        IF \E i \in DOMAIN users : users[i].name = n
        THEN users[CHOOSE i \in DOMAIN users : users[i].name = n].token
        ELSE Unset]

\* A process before it starts and after its end: who runs it, the user it was
\* asked for, the users it read and then changed, the position of its target, and
\* the owner of the file as it found it.
NoRun == [runner |-> "root", user |-> Unset, users |-> << >>, rest |-> NoStage,
          target |-> NoOne, owner |-> "root"]

Init ==
    /\ file \in [users : InitialUsers, rest : Rests, owner : {"service"}]
    /\ env \in Environments
    /\ staged = [r \in Rotators |-> NoStage]
    /\ pc = [r \in Rotators |-> "idle"]
    /\ run = [r \in Rotators |-> NoRun]
    /\ tenants = << >>
    /\ edits = 0
    /\ issued = TokensIn(file.users) \cup ({env.token} \ {Unset})
    /\ given = GivenAtFirst(file.users)
    /\ untold = {}
    /\ retired = {}
    /\ buried = {}

-----------------------------------------------------------------------------
\* rotateToken, step by step.

Goto(r, label) == pc' = [pc EXCEPT ![r] = label]

Active(r) == pc[r] \notin {"idle", "done"}

Exit(r) == Goto(r, "done") /\ run' = [run EXCEPT ![r] = NoRun]

\* Every error path: the deferred os.Remove leaves no staged file.
Abort(r) == Exit(r) /\ staged' = [staged EXCEPT ![r] = NoStage]

Begin(r) ==
    /\ pc[r] = "idle"
    /\ Careful => \A q \in Rotators : ~Active(q)
    /\ \E runner \in Owners, user \in UserNames \cup {Unset} :
        run' = [run EXCEPT ![r].runner = runner, ![r].user = user]
    /\ Goto(r, "read")
    /\ UNCHANGED <<file, env, staged, server, edits, issued, told, retired>>

\* toml.DecodeFile and the choice of the target; the file's mode is 0600.
Readable(runner) == runner \in {"root", file.owner}

Read(r) ==
    /\ pc[r] = "read"
    /\ LET targets == selectRotateTarget(file.users, run[r].user) IN
        \/ \E i \in targets :
            /\ Readable(run[r].runner)
            /\ run' = [run EXCEPT ![r].users = file.users, ![r].rest = file.rest,
                                  ![r].target = i]
            /\ Goto(r, "stat")
            /\ UNCHANGED staged
        \/ (targets = {} \/ ~Readable(run[r].runner)) /\ Abort(r)
    /\ UNCHANGED <<file, env, server, edits, issued, told, retired>>

\* os.Stat of the file; then the new token, and the rules for the whole set.
Stat(r) ==
    /\ pc[r] = "stat"
    /\ \E token \in FreshTokens :
        LET users == [run[r].users EXCEPT ![run[r].target].token = token] IN
        /\ issued' = issued \cup {token}
        /\ \/ /\ Fatal(users, run[r].target) = {}
              /\ run' = [run EXCEPT ![r].users = users, ![r].owner = file.owner]
              /\ Goto(r, "stage")
              /\ UNCHANGED staged
           \/ Fatal(users, run[r].target) # {} /\ Abort(r)
    /\ UNCHANGED <<file, env, server, edits, told, retired>>

\* Variant with a bug: the file is decoded into Config, so that what Config
\* does not know is lost.
StageKnownKeys(r) ==
    /\ pc[r] = "stage"
    /\ staged' = [staged EXCEPT ![r] =
            [users |-> run[r].users, rest |-> CHOOSE x \in Rests : TRUE,
             owner |-> run[r].runner]]
    /\ Goto(r, "chown")
    /\ UNCHANGED <<run, file, env, server, edits, issued, told, retired>>

\* os.CreateTemp, Chmod, Encode, Close: the file is the runner's.
Stage(r) ==
    /\ pc[r] = "stage"
    /\ \/ /\ staged' = [staged EXCEPT ![r] =
                [users |-> run[r].users, rest |-> run[r].rest, owner |-> run[r].runner]]
          /\ Goto(r, "chown")
          /\ UNCHANGED run
       \/ Faults /\ Abort(r)
    /\ UNCHANGED <<file, env, server, edits, issued, told, retired>>

\* Variant with a bug: a chown that is not allowed is passed over.
ChownIgnored(r) ==
    /\ pc[r] = "chown"
    /\ Goto(r, "rename")
    /\ UNCHANGED <<file, env, staged, run, server, edits, issued, told, retired>>

\* Variant with a bug: a failed chown removes the file but does not return.
ChownGoesOn(r) ==
    /\ pc[r] = "chown"
    /\ \/ /\ run[r].runner \in {"root", run[r].owner}
          /\ staged' = [staged EXCEPT ![r].owner = run[r].owner]
       \/ /\ run[r].runner \notin {"root", run[r].owner} \/ Faults
          /\ staged' = [staged EXCEPT ![r] = NoStage]
    /\ Goto(r, "rename")
    /\ UNCHANGED <<file, env, run, server, edits, issued, told, retired>>

\* Only root, or the owner for its own file, may set an owner.
Chown(r) ==
    /\ pc[r] = "chown"
    /\ \/ /\ run[r].runner \in {"root", run[r].owner}
          /\ staged' = [staged EXCEPT ![r].owner = run[r].owner]
          /\ Goto(r, "rename")
          /\ UNCHANGED run
       \/ (run[r].runner \notin {"root", run[r].owner} \/ Faults) /\ Abort(r)
    /\ UNCHANGED <<file, env, server, edits, issued, told, retired>>

\* Variant with a bug: the new token does not reach the encoded map.
RenameKeepsTokens(r) ==
    /\ pc[r] = "rename"
    /\ file' = [staged[r] EXCEPT !.users = file.users]
    /\ staged' = [staged EXCEPT ![r] = NoStage]
    /\ Goto(r, "print")
    /\ UNCHANGED <<env, run, server, edits, issued, told, retired>>

\* From here on the file has a token that nobody was told.
Rename(r) ==
    /\ pc[r] = "rename"
    /\ \/ /\ file' = staged[r]
          /\ staged' = [staged EXCEPT ![r] = NoStage]
          /\ Goto(r, "print")
          /\ retired' = retired \cup
                (TokensIn(file.users) \ (TokensIn(run[r].users) \cup {env.token}))
          /\ UNCHANGED run
       \/ Faults /\ Abort(r) /\ UNCHANGED <<file, retired>>
    /\ UNCHANGED <<env, server, edits, issued, told>>

\* The user whose new token is in the file and has yet to be printed.
Unsaid(r) ==
    IF pc[r] = "print" THEN {run[r].users[run[r].target].name} ELSE {}

\* Fprintf to standard output; its error is ignored, and the token is lost.
Announce(r) ==
    /\ pc[r] = "print"
    /\ \/ LET user == run[r].users[run[r].target] IN
            /\ given' = [given EXCEPT ![user.name] = user.token]
            /\ untold' = untold \ {user.name}
       \/ Faults /\ untold' = untold \cup Unsaid(r) /\ UNCHANGED given
    /\ Exit(r)
    /\ UNCHANGED <<file, env, staged, server, edits, issued, retired>>

\* The process is killed: the deferred call does not run.
Kill(r) ==
    /\ Faults
    /\ Active(r)
    /\ Exit(r)
    /\ untold' = untold \cup Unsaid(r)
    /\ UNCHANGED <<file, env, staged, server, edits, issued, given, retired>>

RunStep(r) ==
    Begin(r) \/ Read(r) \/ Stat(r) \/ Stage(r) \/ Chown(r) \/ Rename(r) \/ Announce(r)

-----------------------------------------------------------------------------
\* The operator's editor: a token replaced, an entry added or removed.  The
\* token is a new one, a copy of one in the file, or a placeholder.

Edited(users, name, token) ==
    /\ edits < MaxEdits
    /\ Careful => \A r \in Rotators : ~Active(r)
    /\ edits' = edits + 1
    /\ file' = [file EXCEPT !.users = users]
    /\ given' = [given EXCEPT ![name] = token]
    /\ untold' = untold \ {name}
    /\ issued' = issued \cup ({token} \ {Unset})
    /\ UNCHANGED <<env, staged, pc, run, server, retired>>

EditToken ==
    \E i \in DOMAIN file.users, t \in FreshTokens \cup Malformed \cup TokensIn(file.users) :
        Edited([file.users EXCEPT ![i].token = t], file.users[i].name, t)

AddUser ==
    \E n \in UserNames, t \in FreshTokens \cup Malformed \cup TokensIn(file.users) :
        /\ Len(file.users) < MaxUsers
        /\ Edited(Append(file.users, [name |-> n, token |-> t]), n, t)

RemoveUser ==
    \E i \in DOMAIN file.users :
        Edited(SubSeq(file.users, 1, i - 1) \o SubSeq(file.users, i + 1, Len(file.users)),
               file.users[i].name, Unset)

\* Another value is changed, or another owner set.
EditRest ==
    /\ edits < MaxEdits
    /\ Careful => \A r \in Rotators : ~Active(r)
    /\ edits' = edits + 1
    /\ \/ \E x \in Rests : file' = [file EXCEPT !.rest = x]
       \/ \E o \in Owners : file' = [file EXCEPT !.owner = o]
    /\ UNCHANGED <<env, staged, pc, run, server, issued, told, retired>>

-----------------------------------------------------------------------------
\* aged serve runs as "service".  loadConfig only warns of a file it cannot
\* read, and goes on without it.
ConfiguredUsers == IF file.owner = "service" THEN file.users ELSE << >>

Start ==
    /\ tenants = << >>
    /\ checkServeConfig(ConfiguredUsers, env)
    /\ tenants' = Merged(ConfiguredUsers, env)
    /\ buried' = retired
    /\ UNCHANGED <<file, env, staged, pc, run, edits, issued, told, retired>>

Stop ==
    /\ tenants # << >>
    /\ tenants' = << >>
    /\ UNCHANGED <<file, env, staged, pc, run, buried, edits, issued, told, retired>>

Next ==
    \/ \E r \in Rotators : RunStep(r) \/ Kill(r)
    \/ EditToken \/ AddUser \/ RemoveUser \/ EditRest
    \/ Start \/ Stop

Spec == Init /\ [][Next]_vars

-----------------------------------------------------------------------------
\* Properties.

File == [users : Seq(User), rest : Rests, owner : Owners]

\* Every variable keeps its shape.
TypeOK ==
    /\ file \in File
    /\ env \in Environments
    /\ staged \in [Rotators -> File \cup {NoStage}]
    /\ pc \in [Rotators -> {"idle", "read", "stat", "stage", "chown", "rename",
                            "print", "done"}]
    /\ run \in [Rotators -> [runner : Owners, user : UserNames \cup {Unset},
                             users : Seq(User), rest : Rests \cup {NoStage},
                             target : Nat, owner : Owners]]
    /\ tenants \in Seq(User)
    /\ edits \in 0 .. MaxEdits
    /\ issued \subseteq Tokens
    /\ given \in [UserNames -> Tokens \cup {Unset}]
    /\ untold \subseteq UserNames
    /\ retired \subseteq Tokens
    /\ buried \subseteq Tokens

\* Would a server started now come up, and with the users of the file?
Startable(f) == f.owner = "service" /\ checkServeConfig(f.users, env)

\* The step is r's rename, and succeeds.
Renaming(r) == pc[r] = "rename" /\ pc'[r] = "print"

\* The server's users, validated at the start, and the middleware's loop fit
\* together: a token authenticates the one user whose token it is, and what
\* is no well-formed token (no header at all) authenticates nobody.
RoutesByToken ==
    tenants # << >> =>
        \A got \in Tokens :
            LET who == Authenticated(tenants, got) IN
            /\ got \in Malformed => who = NoOne
            /\ \A i \in DOMAIN tenants : tenants[i].token = got <=> who = i

\* A token that was rotated away before the server's last start is dead, and
\* no later run or restart brings it back.
RetiredStayDead ==
    \A t \in buried : Authenticated(tenants, t) = NoOne

\* The users whose token in the file was told to nobody: a run is between its
\* rename and its print, or ended there and nothing was done for them since.
CutOff == untold \cup UNION { Unsaid(r) : r \in Rotators }

\* Would a server started now know user n by that token?
KnownBy(n, token) ==
    LET users == Merged(file.users, env)
        who == Authenticated(users, token)
    IN  who # NoOne /\ users[who].name = n

\* The token a user was last told is the one that a server started now would
\* know that user by, whatever fails or is killed, with one exception: a run
\* between its rename and its print has cut its user off, and one that ends
\* there leaves it so.  It is nobody but the run's target, and only until a
\* token is rotated and printed, or typed in, for that user.
GivenTokensWork ==
    Startable(file) =>
        \A n \in UserNames : given[n] # Unset =>
            (KnownBy(n, given[n]) <=> n \notin CutOff)

\* A rotation changes one user's token; every other value, and the owner, is
\* as it was the moment before.
OthersKept ==
    [][\A r \in Rotators : Renaming(r) =>
        /\ file'.rest = file.rest /\ file'.owner = file.owner
        /\ \E t \in Tokens :
            file'.users = [file.users EXCEPT ![run[r].target].token = t]]_vars

\* A rotation never turns a configuration the server would start with into
\* one that it refuses or cannot read.
NeverUnstartable ==
    [][\A r \in Rotators : Renaming(r) /\ Startable(file) => Startable(file')]_vars

NamesInOrder(users) ==
    /\ \A i \in DOMAIN users : users[i].name \notin BadNames
    /\ ~SameName(users)

\* Whether a rotation of the user at i would be let through.
Rotatable(users, i) ==
    \A t \in FreshTokens : Fatal([users EXCEPT ![i].token = t], i) = {}

\* Where tokens are only malformed, any user can be rotated, in any order.
RepairNotBlocked ==
    NamesInOrder(file.users) /\ ~SameToken(file.users) =>
        \A i \in DOMAIN file.users : Rotatable(file.users, i)

=============================================================================
