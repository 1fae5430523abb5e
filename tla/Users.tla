------------------------------- MODULE Users -------------------------------
(***************************************************************************)
(* The configured users: what aged serve and rotate-token accept as a set  *)
(* of users, how the environment pair joins it, how a run picks its        *)
(* target, and how the server finds the user a bearer token belongs to.    *)
(* A name matters only by its validity and its lower-case form, a token by *)
(* its identity and whether it is 64 hexadecimal digits.                   *)
(***************************************************************************)
EXTENDS Naturals, Sequences, SequencesExt

CONSTANTS
    UserNames,  \* names that occur in the configuration
    BadNames,   \* those validUserName refuses
    Lower,      \* [name -> its lower-case form]
    Tokens,     \* strings that occur as tokens, or come with a request
    Malformed,  \* those validTokenFormat refuses, the empty one included
    Unset       \* an environment variable, or an argument, that is not given

ASSUME UserConstants ==
    /\ BadNames \subseteq UserNames
    /\ Malformed \subseteq Tokens
    /\ Unset \notin UserNames \cup Tokens

User == [name : UserNames, token : Tokens]

NoOne == 0

-----------------------------------------------------------------------------
\* validateUserSet: the problems of a sequence of users.  A problem of two
\* users, or of none, has no index.

Structural(i) == [index |-> i, category |-> "structural"]
TokenFormat(i) == [index |-> i, category |-> "tokenFormat"]

\* Variant with a bug: names are compared as they are written.
SameNameExactly(users) ==
    \E i, j \in DOMAIN users : i < j /\ users[i].name = users[j].name

SameName(users) ==
    \E i, j \in DOMAIN users : i < j /\ Lower[users[i].name] = Lower[users[j].name]

SameToken(users) ==
    \E i, j \in DOMAIN users : i < j /\ users[i].token = users[j].token

\* Variant with a bug: tokens are not compared with each other.
ValidatesEachAlone(users) ==
    {Structural(i) : i \in {i \in DOMAIN users : users[i].name \in BadNames}}
    \cup {TokenFormat(i) : i \in {i \in DOMAIN users : users[i].token \in Malformed}}
    \cup {p \in {Structural(NoOne)} : users = << >> \/ SameName(users)}

validateUserSet(users) ==
    {Structural(i) : i \in {i \in DOMAIN users : users[i].name \in BadNames}}
    \cup {TokenFormat(i) : i \in {i \in DOMAIN users : users[i].token \in Malformed}}
    \cup {p \in {Structural(NoOne)} :
            users = << >> \/ SameName(users) \/ SameToken(users)}

\* Variant with a bug: every problem is fatal.
EveryProblemIsFatal(users, target) == validateUserSet(users)

\* rotateToken's policy: another user's malformed token is only a warning.
Fatal(users, target) ==
    {p \in validateUserSet(users) : p.category = "tokenFormat" => p.index = target}

-----------------------------------------------------------------------------
\* resolveUsers: the environment pair is the last user, or half a pair.

HalfPair(env) == (env.name = Unset) # (env.token = Unset)

Merged(users, env) == IF Unset \in {env.name, env.token} THEN users ELSE Append(users, env)

checkServeConfig(users, env) ==
    ~HalfPair(env) /\ validateUserSet(Merged(users, env)) = {}

\* selectRotateTarget: the only user, or the first one of that name; as a set
\* that is empty when the command gives up.
selectRotateTarget(users, username) ==
    IF username = Unset
    THEN {i \in DOMAIN users : Len(users) = 1}
    ELSE {i \in DOMAIN users :
            users[i].name = username /\ \A j \in 1 .. i - 1 : users[j].name # username}

-----------------------------------------------------------------------------
\* bearerMiddleware: every tenant is compared, without an early exit.

Compared(tenants, got) ==
    FoldLeft(LAMBDA acc, i :
                LET eq == tenants[i].token = got
                IN  [matched |-> acc.matched \/ eq, idx |-> IF eq THEN i ELSE acc.idx],
             [matched |-> FALSE, idx |-> 1],
             [i \in DOMAIN tenants |-> i])

Authenticated(tenants, got) ==
    LET loop == Compared(tenants, got) IN IF loop.matched THEN loop.idx ELSE NoOne

=============================================================================
