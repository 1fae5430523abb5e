------------------------------ MODULE Requests ------------------------------
(***************************************************************************)
(* The requests a tenant's HTTP handlers receive and the outcomes they     *)
(* answer with, shared by the promise (AbstractStore) and the mechanism    *)
(* (Store).                                                                *)
(***************************************************************************)

CONSTANTS
    Names,      \* secret names that pass validName
    BadName,    \* stands for every name validName refuses
    Values,     \* bodies that begin with the age v1 magic and fit the limit
    BadBody,    \* stands for a body without the magic, or above the limit
    NoName,     \* the name of a request that carries none
    NoValue,    \* the body of a request that carries none; no stored value
    Handlers,   \* goroutines serving this tenant's requests
    Ops         \* the operations this instance exercises

ASSUME RequestConstants ==
    /\ BadName \notin Names
    /\ NoName \notin Names
    /\ BadBody \notin Values
    /\ NoValue \notin Values
    /\ Ops \subseteq {"set", "get", "delete", "list"}

-----------------------------------------------------------------------------

AllRequests ==
    [op : {"set"}, name : Names \cup {BadName}, value : Values \cup {BadBody}]
        \cup
    [op : {"get", "delete"}, name : Names \cup {BadName}, value : {NoValue}]
        \cup
    [op : {"list"}, name : {NoName}, value : {NoValue}]

Offered == { r \in AllRequests : r.op \in Ops }

\* What a handler holds between two requests.
NoRequest == [op |-> "none", name |-> NoName, value |-> NoValue]

\* Variant with a bug: the age v1 magic is not checked.
RejectedNoMagic(r) == r.name = BadName

\* The 400 and 413 answers: given before the store is touched.
Rejected(r) == r.name = BadName \/ r.value = BadBody

\* "ok" 200 or 204, "absent" 404, "failed" 500, "rejected" 400 or 413.
Outcomes == {"none", "ok", "absent", "failed", "rejected"}

=============================================================================
