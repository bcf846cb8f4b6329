------------------------------ MODULE Admission ------------------------------
(***************************************************************************)
(* What the proxy promises about each request, whatever goes on inside: a  *)
(* request is open until it is released, turned away or barred, and that   *)
(* decision stands.  A barred request gets its 403 only with a report on   *)
(* record, and nobody is told of a block that has none.                    *)
(***************************************************************************)
CONSTANT Requests

VARIABLES
    fate,        \* what has become of each request
    reported,    \* requests with a report on record
    told         \* requests whose requester was told

vars == <<fate, reported, told>>

Init ==
    /\ fate = [r \in Requests |-> "open"]
    /\ reported = {}
    /\ told = {}

Settle(r, from, to) ==
    /\ fate[r] = from
    /\ fate' = [fate EXCEPT ![r] = to]

\* Content from Nexus, or an answer without any: an error, or nobody listens.
Release(r) == Settle(r, "open", "released") /\ UNCHANGED <<reported, told>>
TurnAway(r) == Settle(r, "open", "turned_away") /\ UNCHANGED <<reported, told>>

Bar(r) == Settle(r, "open", "barred") /\ UNCHANGED <<reported, told>>

Report(r) ==
    /\ fate[r] = "barred"
    /\ reported' = reported \cup {r}
    /\ UNCHANGED <<fate, told>>

Forbid(r) ==
    /\ Settle(r, "barred", "forbidden")
    /\ r \in reported
    /\ told' \in {told, told \cup {r}}
    /\ UNCHANGED reported

\* The block could not be completed; its report may be on record all the same.
Fail(r) ==
    /\ Settle(r, "barred", "failed")
    /\ reported' \in {reported, reported \cup {r}}
    /\ UNCHANGED told

Next ==
    \E r \in Requests :
        Release(r) \/ TurnAway(r) \/ Bar(r) \/ Report(r) \/ Forbid(r) \/ Fail(r)

Spec == Init /\ [][Next]_vars
==============================================================================
