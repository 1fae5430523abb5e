# aged in TLA+

`aged` keeps age-encrypted secrets behind a small HTTP server. The server never
decrypts: it stores opaque ciphertexts as `.age` files, one directory per user,
and authenticates a user by a bearer token. Clients encrypt and decrypt. Two
operator commands change what the server relies on while it may be running:
`rotate-identity` re-encrypts a whole directory, `rotate-token` rewrites the
configuration file. **None of the three takes a lock.** What keeps them
correct is the order of their system calls, and that is what is modelled here,
one system call (or one purely local computation) per action.

## The system's parts

| part | source | state | operations | modules |
|---|---|---|---|---|
| store | `server.go:31-254`, `atomic.go` | one user's directory tree | `setValue`, `getValue`, `removeValue`, `listNames`, `writeFileAtomic` | `SecretTree`, `Store`, promise `AbstractStore` |
| HTTP handlers | `server.go` | the request being served | set, get, delete, list | `Requests`, inside `Store` |
| rotate-identity | `rotate_identity.go` | live directory, staging, backups | the run, the recovery commands | `RotateIdentity`, promise `AbstractRotation` |
| envelope | `envelope.go` | none | bind a plaintext to its name | `Ciphertexts` |
| users | `users.go` | none | `validateUserSet`, `resolveUsers` | `Users` |
| rotate-token | `rotate.go` | configuration file, staged file | the run | `RotateToken` |
| authentication | `server.go:490-537` | the tenants of the running process | `bearerMiddleware` | `Users`, `RotateToken` |
| configuration | `config.go`, `server.go:248-263` | file and environment | `loadConfig`, `checkServeConfig` | `Users`, `RotateToken`, `Startup` |
| start-up | `server.go:265-302`, `scan.go` | base directory, tenants | `serve`, `scanSecretsDir`, `newStore` | `Startup` |
| client commands | `client.go`, `identity.go` | identity files of the user's machines | get, set, delete, init | `Clients` |
| command line, packaging | `main.go`, `Makefile`, `contrib` | none | argument parsing | not modelled |

How they interact:

- An HTTP request passes `bearerMiddleware`, which maps its token to a tenant,
  and then a handler that works on that tenant's `store`. Each handler is a
  goroutine; handlers share nothing but the file system.
- `rotate-identity` is another process on the same directory. It refuses to
  start while the server's address is bound, then lets go of the address.
- `rotate-token` is another process on the configuration file, which the server
  reads once, when it starts, and an operator edits by hand.
- A starting server reads the configuration, then looks at the base directory
  entry by entry, then makes directories, then binds its address; a rotation
  binds the same address for a moment and renames directories in the same base.
- A client command reads the machine's identity file and makes one request. It
  holds nothing between commands, so what a user can rely on depends on how
  their machines' files, rotations and requests interleave.
- Crashes are part of the picture: `defer` does not run in a killed process,
  and nothing in the program looks for what an earlier process left behind.

What is hard in it, in short (PROJECT.json lists every hazard at its line):

- `MkdirAll` of one set, the cleanup loop of a delete and the walk of a list act
  on the same directories at once;
- the cleanup loop ignores the errors of `ReadDir` and `Remove` and acts on what
  was true a moment ago;
- the swap of `rotate-identity` is two renames, with an absent directory between
  them that anybody's `newStore` will create;
- read-modify-write of the configuration file with no lock; a new token that
  exists on disk before anyone has been told;
- errors that are fatal in one command and a warning in another;
- requests that take effect after their client has given up; keys that are
  replaced on several machines one after the other;
- a scan of a directory that others rename and fill meanwhile.

What makes each part correct:

- store: sets, gets and deletes are linearizable; a list is faithful; nothing
  but its own delete removes a secret; the disk stays a tree; empty namespaces
  go away; every request is answered;
- rotate-identity: all secrets or none; only verified ciphertexts are swapped
  in; no acknowledged value is gone from both directory and backups;
- rotate-token: one token changes and nothing else; a server that would start
  still starts; the token a user was last told works, unless a run is between
  its rename and its print for that user, or ended there; malformed
  configurations can be repaired one user at a time;
- start-up: what must be looked at by a human keeps the server down, nothing
  else does for good, nor at all without a cause; a refusal leaves no trace; no two users share a directory;
- clients: what get prints was set under that name, and is what the last
  answered change left; no identity is ever overwritten;
- authentication: a token authenticates the one user it belongs to, a retired
  or malformed token nobody.

## The modules

### Store

`Requests` holds the requests and outcomes; `SecretTree` maps names to paths: a
name is the sequence of its segments, `FileOf` appends `.age` to the last one,
`HomeOf` is its namespace directory. `NoClash` says that no name's file is
another's namespace directory. The name syntax allows a clash (`x` and
`x.age/b`), so it is an assumption of single statements, not of the module.

`Store` is the mechanism. `pc` names the system call a handler makes next:

- **set** `stat` … `lstat` are `os.MkdirAll`, which climbs with Stat to the
  nearest existing directory and makes the missing ones on the way down (a
  failed Mkdir is forgiven if Lstat finds a directory); `resolve` is
  `EvalSymlinks`; `create`, `write`, `rename`, `unstage` are `writeFileAtomic`
  with its deferred removal.
- **get, delete** `verify` is `verifyExistingWithinRoot`; then `read`, or
  `remove` followed by the cleanup loop `readdir`/`rmdir` with its ignored
  errors.
- **list** `walk` reads one directory of those still pending, in any order.

`Crash` ends all handlers at once and turns their temporary files into
`orphans`. `always` and `ever` are history variables for the promise of a list.
`BadName` and `BadBody` stand for everything answered by 400 or 413 before the
disk is touched. `AbstractStore` is the promise: a map that changes at one
instant per request; a list returns every name stored throughout and none that
was never stored meanwhile. `KeepsPromise` is the refinement
(`INSTANCE ... WITH`): `kv` is read off the files, and `stage` off `pc`.

### rotate-identity

`Ciphertexts` says what the program can tell of an `.age` file: its key, the
name its envelope binds it to, its value; a file may be `Garbage`.
`RotateIdentity` has one action per step of `rotateIdentity`/`performRotate`
(`Begin` the bind check, `Open` identities and `newStore`, `List`, `DryOne`,
`StatBackup`, `MkStaging`, `Migrate`, `Verify`, `ToBackup`, `Swap`, `Cleanup`,
and `Kill` at any point), the server (`ServerOpen`, `ServerListen`, `ServerStop`,
`Set`, `Delete`), and the operator: `Abandon` and `Complete` are the two `mv`
commands of the CRITICAL message, `Reconfigure` installs the new identity file,
`Tick` passes a second, the resolution of a backup's name. `Careful` chooses an
operator who keeps to the documented order (server stopped, one run at a time,
repair before anything else) or one who keeps to none. The server's set and
delete are one step each here: `Store` is where their inside is checked.

`AbstractRotation` is the promise to the careful operator: one atomic change of
all secrets, or none. `AllOrNothing` maps `secrets` to the live directory, or,
between the renames, to the newest backup.

### rotate-token, users, authentication

`Users` has the pure rules: `validateUserSet` as the set of its problems with
their category and index, `Fatal` as `rotateToken`'s policy towards them,
`Merged`/`checkServeConfig` for the environment pair, `selectRotateTarget`, and
the middleware's loop as a fold over the tenants (`Compared`). Two regular
expressions become the constants `BadNames` and `Malformed`, ASCII folding
becomes `Lower`.

`RotateToken` runs `Begin`, `Read`, `Stat` (owner, new token, rules), `Stage`
(CreateTemp, Chmod, Encode, Close), `Chown`, `Rename`, `Announce` (the print), and `Kill`;
around it the operator's editor, and the server that reads the file at `Start`.
A run is root's or the service user's; the file's mode is 0600, so only root and
the owner can read it. The print may fail without the run noticing (Fprintf's
error is ignored). Histories, which only record: `given` is the token each user was last
told (at first, by a print, or by the operator who typed it in), `untold` the
names whose new token went into the file and was lost before the print,
`retired` what rotations took out of the file, `buried` what was
retired when the server last started.

### start-up

`Startup` is one `serve` after the other: `Start` (`loadConfig`, `resolveUsers`),
`ReadDir`, one `StatEntry` per entry in the order `os.ReadDir` sorts them,
`Verdict`, one `CreateStore` per user, `Listen`. An entry is absent, a file, a
dangling link, an empty or a full directory. Around it `Handle` is a serving
process that fills and empties the users' directories; `Bind`, `DryRun`,
`Unbind`, `Open`, `Stage`, `Migrate`, `ToBackup`, `Swap` and `Cleanup` are
rotate-identity as the base directory and the address see it (`RotateIdentity`
has its inside); `Edit` and `Configure` are the operator, `Switch` is
systemctl, `Die` and `Kill` are deaths. `Root` maps a user's name to the entry
the file system finds for it: on one that ignores case two names may find the
same. Histories: `made` is what this start made, `disturbed` whether anyone
else changed the base since `ReadDir`, `stuck` what was no directory at
`ReadDir` and has been none since.

### Clients

`Clients` has one user's machines, each with its identity file, and a server
that keeps `AbstractStore`'s promise (which `Store` is shown to implement): a request takes
effect at one instant or not at all. A command has one step per look at what
others can change: `StartGet`, `StartSet`, `StartDelete`, `StartInit` read the
file, `Finish` is the request and what the command makes of the answer
(`Show`: decryption and envelope), `Create` and `Write` the two steps of init.
`Abort` is a lost connection or an interrupted client, whose request may stay
with the server (`late`, `FinishLate`). `Stop`, `Boot`, `Rotate`, `Install` (an
identity file written by hand) and `Misfile` (a ciphertext copied over another
on the server's disk) are the operator. `Careful` says that keys are replaced
with an overlap, which is what several identities in one file are for
(`client.go:176-179`): a key becomes a target once every machine can read it (`Readable`), and is dropped once nothing
needs it (`Needed`). The history `settled` is what the last answered change of
a name lets the user conclude, `Unknown` while one is under way or unanswered.
`Typed` may hold names that the server reads off the URL as another
(`Addressed`): `a?x` is sent as `a`.

## What the runs check

| run | instance | what it shows |
|---|---|---|
| `store_promise` | 2 handlers, 3 names in two directories, 2 values, faults; 0.4 M states | every operation refines `AbstractStore`; the tree; only its delete removes a secret |
| `store_races` | 3 handlers, a two-level tree, no faults; 0.2 M | the same with set, delete, list racing; no empty namespace directory is left |
| `store_clash` | 2 handlers, names that clash, faults; 0.3 M | still a tree; only the secret that clashes is ever lost; each call brings its request nearer to the answer whatever others do, and every request is answered (liveness) |
| `store_clash_lost` | 3 handlers, clashing names | **violation**: a late cleanup loop deletes the secret `x` that another request stored |
| `rotid_promise` | 2 runs, 2 names, 2 keys, careful, faults; 2.0 M | `AllOrNothing`; a run that reports success has left no secret behind; a server that is up serves what it acknowledged |
| `rotid_careless` | 2 runs at once, an invalid name, careless, faults; 0.6 M | nothing acknowledged is lost; only verified secrets are swapped in |
| `rotid_guidance` | 1 run | **violation**: the directory the CRITICAL message names has been removed |
| `rotid_rerun` | 2 runs, one at a time, server down | **violation**: a rerun after a kill rotates an empty directory and reports success |
| `tokens_careful` | 2 runs, 1 edit, 1-2 users wrong in every way, environment pair, faults; 1.1 M | a rotation changes one token and keeps the server startable, repairs are never blocked by another's malformed token, last told tokens work except for the target of a run that ended between rename and print, retired ones stay dead, tokens route to their owner |
| `startup` | 1 server, 5 entries, 6 configurations, 1 rotation at a time, 3 surprises; 0.2 M | what is no directory blocks every start that it outlasts; a refusal leaves no trace; users are apart; only four causes stop a start; the server comes up (liveness) |
| `clients` | 2 commands at once, 2 machines, 2 names, 3 values, 2 keys, careful; 1.2 M | a get prints what was set under its name and what the last answered change left; init replaces nothing |
| `clients_delete` | 1 command at a time | **violation**: `aged delete 'a?x'` deletes `a` |

### Bounds, and why they are enough

- Two handlers are enough for every pairwise race of a store; three are taken
  where a third party matters (two cleanup loops and a set; a secret stored
  where a lagging loop believes a directory to be). Handlers serve requests
  again and again, so the histories are unbounded.
- Names are the smallest trees with the interesting shape: two secrets in one
  namespace and one outside; a two-level namespace, so that a cleanup loop climbs
  twice; a clash at a file, and a clash below it.
- `MaxClock = 1`: two backup names, so that two runs may or may not share one.
  Each run slot is used once: two runs are a race or a rerun.
- `MaxEdits`, `MaxUsers` bound the operator's editor; the initial files already
  contain every single problem of one user and every pair of token problems of
  two. Four well-formed
  tokens leave two new ones, enough for one rotation of each of two runs or for
  one rotation and one edit.
- `MaxSurprises = 3`: acts of the operator, of systemctl, deaths, failed system
  calls and starts of a rotation, together; one to enable the service, one to
  start a rotation or kill the server, one to edit the directory. With 4 the
  run passes, too (2.4 M states, some minutes). Two siblings are a staging
  directory and a backup at once; `note` is no user's; the configurations are a
  right one with one user and with two, an environment pair that joins, one
  whose name clashes but for case, half of one, and a malformed token.
- `rotid_careless` has one key, so that a swap that went wrong shows in names,
  bindings and `Garbage`; `rotid_promise` has two keys, and the theorems any number.
- `clients`: two machines and two keys are the smallest overlap, two commands
  the smallest race; `MaxLate = 1` is one request that outlives its client, in
  addition to the two under way. Values tell under which name they were set.
- Symmetry is declared on handlers, commands, machines, values, runs, keys and tokens that no
  initial state names, and only in runs without a liveness property.

### Fairness

In `store_clash`, `FairSpec` has weak fairness of each handler's next call,
since a runnable goroutine is run and a system call on a local file system
returns. Clients owe nothing: no request is ever forced.

In `startup`, `FairSpec` has weak fairness of the server's start and of a
rotation that is under way. Processes run on and system calls return; and a
server that is enabled and failed is started again, because `serve`'s error makes
`main` exit with 1 and the unit file says `Restart=on-failure`, `RestartSec=5`
(`aged.service:11-12`; a restart every five seconds stays below systemd's
default start limit of five in ten). Operators, deaths and new rotations have no
fairness. `ComesUp` asks for it only once configuration and directory stay in
order. That surprises end (`MaxSurprises`) is an assumption of it: an operator who
starts a rotation whenever the server is about to bind, or a machine that kills
it each time, could keep it down for ever.

No liveness is claimed of clients, rotations and `rotate-token`, which are
commands that may be interrupted at any step.

`CHECK_DEADLOCK FALSE` stands in `tokens_careful` and `rotid_rerun`, where runs
and edits are used up and the server need not start, and in `startup`, where
surprises are.

## What is proved

All for every value of the constants, with `tlapm`.

**Store** (`SecretTreeProofs`, `StoreProofs`, `StoreTidyProofs`,
`StorePromiseProofs`), for any number of handlers and names. `TypeInv` is `TypeOK` plus
`PcMeaning`: what a program counter says of the request, of the cursor (it stays
between the root and the namespace directory) and of the temporary file (it
exists exactly from CreateTemp to Rename or removal, and is complete at the
rename). `TypeOK` alone is not inductive: that the cursor stays inside the tree
needs the cursor's place relative to its goal.

- `TypeCorrect`: `Spec => []TypeOK`.
- `DiskIsTree`: `Spec => []TreeShape`, for clashing names too. The argument:
  Mkdir, CreateTemp and Rename succeed only in an existing directory, and
  os.Remove of a directory only in an empty one.
- `OthersAreSafe`: `OnlyClashedAreLost`, for every set of names: a secret leaves
  the disk only by its own delete, unless its file is another's namespace
  directory. So the loss that `store_clash_lost` shows is confined to that one
  secret; those below it are safe. `SecretsSurvive` is its consequence under
  `NoClash`: `OnlyItsDeleteRemoves`.
- `StoreKeepsPromise`: under `NoClash`, `Spec => KeepsPromise`, with failing calls
  and crashes. Each request takes effect at one of its system calls: a set at its
  rename, a delete at its unlink, a get at its read or at the failed lookup, a
  list at its last directory read. `PromiseInv` adds that what
  stands at a secret's path is a whole ciphertext (`WholeFiles`), that directories
  are reached through directories (`Reached`), and what a list has collected
  (`ListsKept`): every name stored since it started is in its result or still at
  or below a directory it has yet to read.
- `EmptiesAttended` and `TidyAtRest`: under `NoClash` and with `Faults = FALSE`,
  `EmptyIsAttended` and from it `NoEmptyNamespaceAtRest`. The invariant
  `EmptyIsMinded` is stronger than the former: it counts only a handler that is
  certain to deal with the directory, which is a set whose next directory or file
  goes right into it or a cleanup loop at or below it. A set further off may fail
  when a loop takes the directory it stands in.
- `NobodyWaits`: `WaitFree`, with clashes, failing calls and crashes, for every
  finite set of names (`IsFiniteSet(Names)`: what a disk can hold).
  `CallsLeft` is a bound on the calls a request will still make. Each of its own
  calls lowers the bound, and no other request's call raises it. This is what
  `EveryRequestAnswered` needs besides a scheduler, and says more: the bound is
  known when the request arrives. For MkdirAll and the cleanup loop it is a
  matter of the depth of the name: a Lstat that finds nothing gives up, it
  never climbs again. For a list it is the number of namespace directories that
  lie or could come to lie below what it has still to read (`AheadOf`); that
  reading one puts only its children in its place needs the invariant `Apart`:
  no directory still to be read lies below another.

**rotate-identity** (`RotateIdentityProofs`), any number of runs, careless or
not:

- `TypeCorrect`; its `TypeInv` adds `Staged`: while a run migrates, every staged
  secret but the one under verification is fit to serve.
- `VerifiedBeforeSwap`: `SwapsInVerified`, which is `Staged` at the swap.
- `AckedSurvives`: `NothingLost`. No step takes a directory away without its
  contents being, or having become, live or a backup: `os.Rename` refuses a
  target that is a directory, and only the staging directory is ever removed.

and with `Careful`:

- `ServedAsAcked`: `ServesAcked`.
- `RotationIsAtomic`: `Spec => AllOrNothing`. All steps of a run are stutters but
  the second rename or `Complete`, its repair by hand; the first rename is one
  because the operator's view moves with the directory to the newest backup.
- `SuccessLosesNone`: `SuccessIsComplete`, which without `Careful` is false
  (`rotid_rerun`): what a successful run swaps in holds every acknowledged value.

All three rest on one invariant. `InTurn`: at most one run is active or torn
(between its renames, or dead there), and the live directory is absent exactly
while one is torn. `Newest`: the backup of a torn run is the newest. `Copying` and
`Copied`: what is staged is the re-encryption of the live directory name by
name, and at the renames of all of it. `Faithful`: the live directory, or the
torn run's backup, holds the acknowledged values. `BackupsPast`: no backup is
younger than the clock.

**rotate-token** (`RotateTokenProofs`):

- `TypeCorrect`; `TypeInv` adds what a run holds in memory at each step.
- `OneTokenReplaced`: `Careful` implies `OthersKept`. The invariant `CarefulInv`
  says that at most one run is under way (`Alone`), that what it holds is the
  file as it is now but for one token (`Copied`), and that this token is none of
  the file's or the environment's (`Unused`). Without `Careful` it is false: of
  two runs at once the later rename undoes the earlier, and an edit in between
  is lost. `Careful` leaves that interleaving out of `OthersKept`,
  `RetiredStayDead`, `NeverUnstartable` and `GivenTokensWork` alike: the code
  takes no lock and says so (`rotate.go:165-168`).
- `StartableStays`: `Careful` implies `NeverUnstartable`, from the same
  invariant and a lemma on `validateUserSet` (`NewTokenKeepsValid`): a new,
  well-formed token put into a valid set leaves it valid, also with the
  environment's user appended (`MergedReplaces`).
- `RepairGoesOn`: `Careful` implies `RepairNotBlocked`, since a new token is
  none of the file's.

and, resting on the loop of the middleware:

- `AuthenticatedIs`: `Compared`, a fold over the tenants with no early exit, ends
  at a tenant with the token exactly if there is one, for any number of tenants.
  This is an induction over the length of the sequence. The library's induction
  theorems need an operator as parameter, which the provers cannot instantiate;
  its theorem on minimal elements of well-founded relations needs only a set
  (`LeastNat`; `UpTo`: a set that has 0 and, up to a bound, the successor of
  each of its members has all numbers up to the bound).
- `TokensRouted`: `Spec => []RoutesByToken`, careless or not, because the tenants
  of a server that runs were valid when it started (`RoutedInv`).
- `RetiredAreDead`: `Careful` implies `RetiredStayDead`. `RetiredInv`: of the
  well-formed tokens none that is retired is in the file, in the environment's
  pair, or in what a run is about to put in the file's place, and none of the
  running server's tokens was retired before it started. A malformed one may be
  typed in again; it authenticates nobody anyway.
- `GivenTokensAreGood`: `Careful` implies `GivenTokensWork`, an equivalence: the
  token a user was last told is the one a server started now knows that user by,
  if and only if the user is not cut off (`CutOff`). Cut off is the target of a run
  that is between its rename and its print (`rotate.go:242-249`), or that was
  killed there or failed to print, until a token is rotated and printed, or typed
  in, for that user. That such a run does cut its user off is a weakness of the
  code that the statement does not hide, but confines: to that window, to that
  user, and to what a rerun repairs. `GivenInv`: the file has, for a user, the
  token last told, or, for one cut off, another one (`Known`); and the
  token that a run is about to put into the file is no user's last told
  (`Secret`), since it was new when it was made and nobody is told it before the
  print. In a valid set of users, names and tokens are each unique
  (`ValidKnows`), so a cut off user's last told token is really dead.

**start-up** (`StartupProofs`), for every set of entries, users and
configurations and any number of surprises:

- `TypeCorrect`.
- `NothingLooseGetsBy` and `NoTrace`: `LooseBlocks` and `RefusedLeavesNoTrace`,
  both from `ScanInv`: while the scan runs, whatever is no directory and was
  none at `ReadDir` (or is there undisturbed) is still to be looked at or has
  been found. Everyone but the server is shown once (`OthersStep`) to do no more
  than `OthersOnly`, and that to keep the invariant.
- `Apart`: `TenantsApart`, from what `validateUserSet` accepts.
- `OnlyCausesStop`: `NothingElseStops`, for every finite base directory. It is
  the converse of `LooseBlocks`, and the part of `ComesUp` that is not fairness:
  a step of a start lowers `StepsLeft`, unless the configuration is invalid,
  something is no directory, somebody changes the base between ReadDir and
  Listen, or a rotation holds the address. `InOrder`: undisturbed, the scan looks
  only at what is there and finds fault only with what is no directory.

**Clients** (`ClientsProofs`), for any number of commands, machines, names and
keys, and any number of late requests:

- `TypeCorrect`.
- `OwnName`: `PrintsOwnName`, careful or not. Every ciphertext anywhere (stored,
  under way, late) is bound to the name that its value was set under (`Bound`).
- `NeverReplaces`: `InitNeverReplaces`. An init that is writing is alone with
  a file that is still empty (`Writers`).
- `ReadsAcked`: `ReadsWhatWasAcked`. The invariant has two halves. `KeysShared`:
  every key that something is or may be encrypted to can be read by every
  machine and every get under way. `Knowledge`: what a user may conclude is true
  of the store, of every get under way and of every change under way. Neither is
  inductive without the other: a get decides at the server, but the keys it
  decides with were read before.

The assumptions are those the modules declare on their constants
(`RequestConstants`, `NamesAssumption`, `DotAgeAssumption`, `NodeConstants`,
`CiphertextConstants`, `RotationConstants`, `UserConstants`, `TokenConstants`,
`StartupConstants`, `ClientConstants`);
TLC evaluates each on the runs.

`NobodyWaits` and `OnlyCausesStop` assume in addition that the names and the
entries of the base directory are finitely many.

Only model-checked: `EveryRequestAnswered` and `ComesUp`. Liveness under fairness
is out of the prover's reach; `WaitFree` and `NothingElseStops` are the parts
of the two that are safety, and proved. Every other property of a passing run is
proved; those of the violation runs are false.

## Abstractions

- Bytes: names, bodies, tokens and keys are model values. The age format, the
  envelope's grammar and the TOML encoding are not modelled; an envelope is its
  outcome (bound to a name, unbound).
- `os.Remove`, and `EvalSymlinks` (at its deciding Lstat), are atomic; so is the
  read of one directory of a walk, and the removal of a staging tree.
- Symbolic links do not occur; a temporary file's random name never repeats.
- A crash is the death of the process: what was written stays. Power loss is left
  out (the code syncs nothing and promises nothing about it).
- Faults are disk-full and the like on mkdir, create, write and rename; a staged
  ciphertext may turn out `Garbage`.
- `Startup`: `newStore`'s `MkdirAll` and `EvalSymlinks` are one step that may fail;
  symbolic links to directories are directories; the base directory itself can
  be read; no user is named like a backup or a staging directory, or like
  nothing that is an entry (`.`).
- `Clients`: the server is the promise, not `Store`; one user; a client's token
  and URL do not change; a key made by init was never used before; rotate-identity
  is one step while the server is down (`RotateIdentity` checks that).
- `rotate-token`: a file that does not decode, or whose users are of the wrong
  type, ends a run the way an unknown user does and is left out; the search for
  the configuration file is left out; an owner can always be determined (Linux).
  256 random bits never repeat a token that was in use.
- The server's owner is the service user; the file it cannot read counts as no
  file (`ConfiguredUsers`), as `loadConfig` only warns.

## Divergences seen in the code, without a run of their own

- A dry run of `rotate-identity` opens the store with `newStore`, which creates
  the directory; it stops at the first secret it cannot migrate
  (`rotate_identity.go:216`) and counts no failures.
- With clashing names, a get or delete below a file answers 500, not 404
  (`ENOTDIR`); without a clash both only ever answer 200/204 or 404.
- A list answers 500 if a directory it has seen goes before it is read.
- A temporary file left by a dead process keeps its namespace directory from ever
  being cleaned up. This is modelled (`orphans`), and no property forbids it.
- `rotate-identity` only warns of problems of other users' entries and does not
  validate its target's name: with a user named `.` it works on the base
  directory of all users (comment at `rotate_identity.go:75-77`).
- `rotate-token` validates the file's users without the environment's pair.
- With a complete environment pair and an unreadable file the server starts
  without the file's users.
- A valid set may answer 500: a delete's cleanup loop removes the namespace
  directory between the set's `MkdirAll` and its `EvalSymlinks` or `CreateTemp`
  (`server.go:173`), and nothing retries. `KeepsPromise` holds: the old value stays.
- Two `rotate-token` runs at once: the later rename brings the other user's
  old token back (`rotate.go:128`, `:242`); `spec.md:300` has all other values
  preserved. The proof of `OthersKept` assumes one run at a time.
- A `rotate-token` killed between its rename (`rotate.go:242`) and its print
  (`:246-249`), or whose print fails (the error is ignored), has replaced a token
  by one that nobody was told: the user is cut off at the server's next start.
  No document promises otherwise; `GivenTokensWork` says exactly when it happens.
- Where three users share a token, every rotation is refused, since two still
  collide (`rotate.go:206`); the multi-user design (D5.3) says that repeated
  invocations converge.
- An entry that vanishes between ReadDir and Stat makes the scan refuse
  (`scan.go:62`), also a sibling, which the comment at `scan.go:28-34` says does
  not block a start; the next start gets by (`ComesUp`).
- The momentary bind of `rotate-identity` can make a server's start fail
  (`rotate_identity.go:148`), which the comment there counts only in the other
  direction.
- `init` ignores the error of its write (`identity.go:38`): it announces a
  public key that is nowhere, and the empty file makes the next init refuse.
- `init`'s help says "run on each machine" (`main.go:13`), which makes a key per
  machine; secrets set on one are then unreadable on the others. The README
  says to copy the file (`README.md:192`), which is what `Careful` does.
- Two users' directories can be one through symbolic links, which
  `validateUserSet` cannot see; and a user may be named like another's backup.

## Not modelled

- `list` and `pubkey` of the client: they print what they read; the list itself
  is an operation of `Store`, checked there.
- Argument parsing (`main.go`), and where a set's value comes from
  (`resolveSetValue`): no state, and nothing others can change in between.
- The wire format, timeouts and log lines of the HTTP server; `resolveClientIP`
  only chooses what is logged.
- The search for the configuration file, and the fields of it that no property
  tells apart.
- What a dry run of `rotate-identity` counts and prints.
- The byte grammars (age, envelope, TOML): parsing without state.
- Packaging: unit file, build and fail2ban filter configure other programs.
