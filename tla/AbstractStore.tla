--------------------------- MODULE AbstractStore ---------------------------
(***************************************************************************)
(* What one tenant's store promises: a map from secret names to opaque     *)
(* ciphertexts.  Every set, get and delete takes effect at one instant     *)
(* between its request and its answer, or not at all; a list reports every *)
(* name stored throughout the request, and none that was never stored      *)
(* during it.  A set (no room, or its namespace directory was removed      *)
(* under it) and a list (a directory vanished in the middle of the walk)   *)
(* may fail; a get or a delete never does.                                 *)
(***************************************************************************)
EXTENDS Requests

CONSTANT Faults         \* may the server process die between two steps?

VARIABLES
    kv,         \* [name -> stored ciphertext, or NoValue]
    req,        \* [handler -> the request it serves]
    stage,      \* [handler -> "idle", "pending" or "done"]
    res,        \* [handler -> outcome, once done]
    got,        \* [handler -> the ciphertext a get returns]
    found,      \* [handler -> the names a list returns]
    always,     \* [handler -> names stored ever since its list began]
    ever        \* [handler -> names stored at some time since then]

vars == <<kv, req, stage, res, got, found, always, ever>>

Stored == { n \in Names : kv[n] # NoValue }

Init ==
    /\ kv = [n \in Names |-> NoValue]
    /\ req = [h \in Handlers |-> NoRequest]
    /\ stage = [h \in Handlers |-> "idle"]
    /\ res = [h \in Handlers |-> "none"]
    /\ got = [h \in Handlers |-> NoValue]
    /\ found = [h \in Handlers |-> {}]
    /\ always = [h \in Handlers |-> {}]
    /\ ever = [h \in Handlers |-> {}]

Answered(h, outcome) ==
    /\ stage' = [stage EXCEPT ![h] = "done"]
    /\ res' = [res EXCEPT ![h] = outcome]
    /\ UNCHANGED req

Receive(h) ==
    /\ stage[h] = "idle"
    /\ \E r \in Offered :
        /\ req' = [req EXCEPT ![h] = r]
        /\ stage' = [stage EXCEPT ![h] =
                        IF Rejected(r) THEN "done" ELSE "pending"]
        /\ res' = [res EXCEPT ![h] =
                        IF Rejected(r) THEN "rejected" ELSE "none"]
    /\ UNCHANGED <<kv, got, found>>

Serving(h, o) == stage[h] = "pending" /\ req[h].op = o

Set(h) ==
    /\ Serving(h, "set")
    /\ \/ /\ kv' = [kv EXCEPT ![req[h].name] = req[h].value]
          /\ Answered(h, "ok")
       \/ /\ UNCHANGED kv
          /\ Answered(h, "failed")
    /\ UNCHANGED <<got, found>>

Get(h) ==
    /\ Serving(h, "get")
    /\ \/ /\ req[h].name \in Stored
          /\ got' = [got EXCEPT ![h] = kv[req[h].name]]
          /\ Answered(h, "ok")
       \/ /\ req[h].name \notin Stored
          /\ UNCHANGED got
          /\ Answered(h, "absent")
    /\ UNCHANGED <<kv, found>>

Delete(h) ==
    /\ Serving(h, "delete")
    /\ \/ /\ req[h].name \in Stored
          /\ kv' = [kv EXCEPT ![req[h].name] = NoValue]
          /\ Answered(h, "ok")
       \/ /\ req[h].name \notin Stored
          /\ UNCHANGED kv
          /\ Answered(h, "absent")
    /\ UNCHANGED <<got, found>>

List(h) ==
    /\ Serving(h, "list")
    /\ \/ /\ \E S \in SUBSET ever[h] :
                /\ always[h] \subseteq S
                /\ found' = [found EXCEPT ![h] = S]
          /\ Answered(h, "ok")
       \/ /\ UNCHANGED found
          /\ Answered(h, "failed")
    /\ UNCHANGED <<kv, got>>

Reply(h) ==
    /\ stage[h] = "done"
    /\ req' = [req EXCEPT ![h] = NoRequest]
    /\ stage' = [stage EXCEPT ![h] = "idle"]
    /\ res' = [res EXCEPT ![h] = "none"]
    /\ got' = [got EXCEPT ![h] = NoValue]
    /\ found' = [found EXCEPT ![h] = {}]
    /\ UNCHANGED kv

\* The process dies: no request in progress is ever answered, and what each
\* of them had already done to the map stays done.
Crash ==
    /\ Faults
    /\ req' = [h \in Handlers |-> NoRequest]
    /\ stage' = [h \in Handlers |-> "idle"]
    /\ res' = [h \in Handlers |-> "none"]
    /\ got' = [h \in Handlers |-> NoValue]
    /\ found' = [h \in Handlers |-> {}]
    /\ UNCHANGED kv

\* The names stored during each list that is still in progress.
Watch ==
    /\ always' = [h \in Handlers |->
                    IF stage'[h] # "pending" \/ req'[h].op # "list" THEN {}
                    ELSE IF stage[h] = "idle" THEN Stored'
                    ELSE always[h] \cap Stored']
    /\ ever' = [h \in Handlers |->
                    IF stage'[h] # "pending" \/ req'[h].op # "list" THEN {}
                    ELSE IF stage[h] = "idle" THEN Stored'
                    ELSE ever[h] \cup Stored']

Handle(h) == Set(h) \/ Get(h) \/ Delete(h) \/ List(h) \/ Reply(h)

Next ==
    /\ \/ \E h \in Handlers : Receive(h) \/ Handle(h)
       \/ Crash
    /\ Watch

Spec == Init /\ [][Next]_vars

=============================================================================
