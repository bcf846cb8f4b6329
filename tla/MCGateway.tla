----------------------------- MODULE MCGateway -----------------------------
(* Small instances of Gateway for TLC.                                     *)
EXTENDS Gateway, TLC

CONSTANTS r1, r2, v, w, c0, c1, c2, pkg, chart, img, page, meta, admin, strict, lenient

MCKind ==
    [t \in Targets |->
        CASE t = pkg -> "package" [] t = chart -> "helm" [] t = img -> "image"
          [] t = page -> "other" [] t = meta -> "metadata" [] t = admin -> "reserved"]

\* c0 is clean, v is tolerable, w is not.  The package's advisory is withdrawn
\* by the database update.
MCTruth ==
    [d \in 0..MaxDb |->
        [s \in Targets \cup Contents |->
            CASE s = c1 -> {v}
              [] s = c2 -> {w}
              [] s = pkg /\ d = 0 -> {w}
              [] OTHER -> {}]]

MCOutcome(p, t, scan) ==
    IF w \notin scan THEN "Allowed" ELSE IF p = strict THEN "Blocked" ELSE "ReportOnly"

\* Start-up configurations: everything is scanned and nothing let through
\* unseen; the same with fail_open; and two under which requests leave the
\* handler early.
Mode(open, unsupported, docker, mapped) ==
    [fail_open |-> open, unsupported |-> unsupported, docker |-> docker, mapped |-> mapped]
StrictConfigs == {Mode(FALSE, "block", TRUE, Formats)}
BothConfigs == StrictConfigs \cup {Mode(TRUE, "block", TRUE, Formats)}
AllConfigs ==
    BothConfigs \cup {Mode(FALSE, "allow", TRUE, {}), Mode(FALSE, "allow", FALSE, {"docker"})}

\* Bound: the requests of a behaviour ask for one and the same target, only
\* what concerns that target changes, and with fail_open neither the policy
\* nor the database does.
Asked == {target[r] : r \in {q \in Requests : pc[q] # "idle"}}
OneTarget ==
    /\ Cardinality(Asked) <= 1
    /\ db # 0 => Asked \cap Stored = {} /\ ~config.fail_open
    /\ \A t \in Stored : upstream[t] # c0 => t \in Asked
    /\ config.fail_open => policy = strict

\* Requests are interchangeable; only safety is checked with this.
RequestSymmetry == Permutations(Requests)
=============================================================================
