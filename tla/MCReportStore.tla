---------------------------- MODULE MCReportStore ----------------------------
(* Small instances of ReportStore: two reports, processes that share the     *)
(* directory, a reader and a write probe.                                    *)
EXTENDS ReportStore, TLC

CONSTANTS r1, r2, h1, h2

\* The processes are interchangeable; the reports too.
Interchangeable == Permutations({r1, r2}) \cup Permutations({h1, h2})

\* A write probe meets one create call, which cleans, and no read, which uses
\* other names.
ProbeAndCreate ==
    \/ \A q \in Probes : probing[q] = "open"
    \/ /\ \A x \in Readers : rpc[x] = "idle"
       /\ \E c \in Reports : pc[c] = "idle"
==============================================================================
