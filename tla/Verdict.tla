------------------------------- MODULE Verdict -------------------------------
(***************************************************************************)
(* The two ends of handle_policy_evaluation: the verdict on a download, and *)
(* the Trust Report a block leaves in DefectDojo.  Any target and any       *)
(* vulnerabilities can be blocked under some policy, and a report that is   *)
(* on its way does not change with the policy, so the two share no state;   *)
(* a behaviour looks at one of them while the other rests.                  *)
(***************************************************************************)
EXTENDS PolicyEvaluator, DefectDojo

VARIABLE stage   \* which of the two is looked at

verdictVars == <<vars, dojoVars, stage>>

\* Nothing is judged any more.
Judged ==
    /\ raw = CHOOSE file \in PolicyFiles : Valid(file)
    /\ set = FromRaw(raw)
    /\ request = CHOOSE r \in Requests : TRUE
    /\ found = {}
    /\ now = 0

\* Nothing is reported yet.
Unreported ==
    /\ block = <<>> /\ pc = <<>> /\ wire = <<>> /\ reply = <<>>
    /\ link = [r \in Reports |-> {}]
    /\ tests = <<>>
    /\ submitted = 0 /\ failed = 0
    /\ category = NoCategory
    /\ reader = [at |-> "idle", submitted |-> 0, failed |-> 0, category |-> NoCategory]

VerdictInit ==
    \/ stage = "judge" /\ Init /\ Unreported
    \/ stage = "report" /\ DojoInit /\ Judged

Judge == stage = "judge" /\ Next /\ UNCHANGED <<dojoVars, stage>>
Report == stage = "report" /\ DojoNext /\ UNCHANGED <<vars, stage>>

VerdictSpec == VerdictInit /\ [][Judge \/ Report]_verdictVars
==============================================================================
