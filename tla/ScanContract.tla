----------------------------- MODULE ScanContract -----------------------------
(***************************************************************************)
(* What a vulnerability source promises the request that waits for it: one *)
(* answer, for good.  Either an error, and then no findings at all, or a   *)
(* list that lacks nothing that was true throughout the scan and holds     *)
(* nothing that was never true.  A lenient source (a chart scanned with    *)
(* fail_open) may leave findings out.  Gateway takes such a scan as one    *)
(* step; OsvQuery and HelmChart implement it in many.                      *)
(***************************************************************************)

VARIABLES
    status,    \* pending, ok or error
    answer,    \* the findings given out
    lenient,   \* findings may be missing
    must,      \* findings that were true all the time
    may        \* findings that were true at some time

vars == <<status, answer, lenient, must, may>>

Init ==
    /\ status = "pending"
    /\ answer = {}
    /\ lenient \in BOOLEAN
    /\ must = may

\* The world moves while the scan is under way.
Move ==
    /\ status = "pending"
    /\ must' \subseteq must
    /\ may \subseteq may'
    /\ UNCHANGED <<status, answer, lenient>>

Succeed ==
    /\ status = "pending"
    /\ status' = "ok"
    /\ lenient \/ must \subseteq answer'
    /\ answer' \subseteq may
    /\ UNCHANGED <<lenient, must, may>>

Fail ==
    /\ status = "pending"
    /\ status' = "error"
    /\ UNCHANGED <<answer, lenient, must, may>>

Next == Move \/ Succeed \/ Fail

Spec == Init /\ [][Next]_vars
==============================================================================
