------------------------------- MODULE Table -------------------------------
(***************************************************************************)
(* What a table promises (map.h): it is a map, here as the set of its      *)
(* pairs of key and value, and nothing changes it but what is asked of it. *)
(* A call may take its time; then the table waits for it, as it was.       *)
(***************************************************************************)
CONSTANTS
    Keys,
    Values

VARIABLES
    pairs,
    call,      \* the last call
    waiting    \* it has had no effect yet

vars == <<pairs, call, waiting>>

\* Key k is to have these values: one that is put in, or none to delete it.
Call(k, vs) == [key |-> k, values |-> vs]

Calls == {Call(k, vs) : k \in Keys, vs \in {{v} : v \in Values} \cup {{}}}

\* The pairs when c has had its effect: other keys keep what they have.
After(c) == {p \in pairs : p[1] # c.key} \cup {<<c.key, v>> : v \in c.values}

Init == pairs = {} /\ call.values = {} /\ waiting = FALSE

\* A call is made, and has its effect at once or later.
Do  == call' \in Calls /\ waiting' = FALSE /\ pairs' = After(call')
Ask == call' \in Calls /\ waiting' = TRUE /\ UNCHANGED pairs

Finish == waiting' = FALSE /\ pairs' = After(call) /\ UNCHANGED call

Next == IF waiting THEN Finish ELSE Do \/ Ask

Spec == Init /\ [][Next]_vars
=============================================================================
