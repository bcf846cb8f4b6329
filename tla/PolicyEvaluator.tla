--------------------------- MODULE PolicyEvaluator ---------------------------
(***************************************************************************)
(* The policy decision: how a policy file becomes a PolicySet, and how     *)
(* PolicyEvaluator.evaluate_at judges one request for a list of            *)
(* vulnerabilities and a moment.  The state machine around it asks again   *)
(* and again about one request, while advisories are published and         *)
(* exceptions expire.                                                      *)
(*                                                                         *)
(* Names (identifiers, repositories, formats, teams, packages, versions)   *)
(* are spellings; NormalForm gives what is left after trimming and case    *)
(* folding, Blank if nothing is.  Severities are ranks, 0 for an advisory  *)
(* that has none.  The vulnerability list is the set of its entries.       *)
(***************************************************************************)
EXTENDS Naturals, Sequences, FiniteSets

CONSTANTS
    Vulns,              \* advisories that may be published for the package
    Identifiers,        \* of each: its id and aliases, as spelled
    SeverityOf,         \* of each: its rank
    Names, NormalForm,  \* spellings, and what normalisation makes of them
    Blank,              \* a name that is missing or only white space
    DefaultRepository, GenericFormat,
    PolicyFiles,        \* policy files an administrator may provide
    Requests,           \* repository, format, package and version of a download
    NoLimit,            \* a limit the file does not set
    MaxTime             \* bound on the clock

Severities == 1..4
Limits == Nat \cup {NoLimit}

\* A [[policies]] table, an [[exceptions]] table and the file.
RawRules ==
    [id : Names, mode : {"enforce", "report_only"}, minimum : Severities,
     allowed : SUBSET Names, total : Limits, limits : [Severities -> Limits],
     repositories : SUBSET Names, formats : SUBSET Names, teams : SUBSET Names]
RawExceptions ==
    [id : Names, ids : SUBSET Names, expires : Nat,
     packages : SUBSET Names, versions : SUBSET Names,
     repositories : SUBSET Names, formats : SUBSET Names, teams : SUBSET Names]
RawPolicySets ==
    [default : RawRules, policies : Seq(RawRules), exceptions : Seq(RawExceptions),
     teams : Seq([repository : Names, team : Names])]

ASSUME EvaluatorAssumptions ==
    /\ IsFiniteSet(Vulns)
    /\ Blank \in Names
    /\ DefaultRepository \in Names /\ GenericFormat \in Names
    /\ NormalForm \in [Names -> Names]
    /\ \A x \in Names : NormalForm[NormalForm[x]] = NormalForm[x]
    /\ NormalForm[Blank] = Blank
    /\ Identifiers \in [Vulns -> SUBSET Names]
    /\ SeverityOf \in [Vulns -> 0..4]
    /\ NoLimit \notin Nat
    /\ MaxTime \in Nat
    /\ PolicyFiles \subseteq RawPolicySets
    /\ Requests \subseteq [repository : Names, format : Names, package : Names, version : Names]
------------------------------------------------------------------------------
(* Loading a file: PolicySet::from_raw.                                     *)

Normalized(values) == {NormalForm[x] : x \in values} \ {Blank}

RuleOf(raw) ==
    [raw EXCEPT !.allowed = Normalized(@), !.repositories = Normalized(@),
                !.formats = Normalized(@), !.teams = Normalized(@)]

ExceptionOf(raw) ==
    [raw EXCEPT !.ids = Normalized(@), !.repositories = Normalized(@),
                !.formats = Normalized(@), !.teams = Normalized(@),
                !.packages = Normalized(@), !.versions = Normalized(@)]

\* A name that is only blank, a repeated one and an exception without
\* identifiers are errors.
DistinctNames(list) ==
    \A i, j \in DOMAIN list :
        /\ NormalForm[list[i].id] # Blank
        /\ i # j => NormalForm[list[i].id] # NormalForm[list[j].id]

Valid(raw) ==
    /\ NormalForm[raw.default.id] # Blank
    /\ DistinctNames(raw.policies)
    /\ \A i \in DOMAIN raw.policies :
          NormalForm[raw.policies[i].id] # NormalForm[raw.default.id]
    /\ DistinctNames(raw.exceptions)
    /\ \A i \in DOMAIN raw.exceptions : Normalized(raw.exceptions[i].ids) # {}

FromRaw(raw) ==
    [default |-> RuleOf(raw.default),
     teams |-> raw.teams,
     policies |-> [i \in DOMAIN raw.policies |-> RuleOf(raw.policies[i])],
     exceptions |-> {ExceptionOf(raw.exceptions[i]) : i \in DOMAIN raw.exceptions}]
------------------------------------------------------------------------------
(* Scopes and the choice of the rule.                                       *)

\* matches_case_insensitive_selector: no selector admits everything, and a
\* missing value passes no other.
Selects(selectors, value) ==
    selectors = {} \/ (NormalForm[value] # Blank /\ NormalForm[value] \in selectors)

\* team_for_repository: the first entry that names the repository.
TeamOf(set, repository) ==
    LET named == {i \in DOMAIN set.teams :
                     NormalForm[set.teams[i].repository] = NormalForm[repository]}
    IN  IF NormalForm[repository] = Blank \/ named = {} THEN Blank
        ELSE set.teams[CHOOSE i \in named : \A j \in named : i <= j].team

\* PolicySet::context: blank values have defaults.
Context(set, request) ==
    [repository |-> IF NormalForm[request.repository] = Blank THEN DefaultRepository
                    ELSE NormalForm[request.repository],
     format |-> IF NormalForm[request.format] = Blank THEN GenericFormat
                ELSE NormalForm[request.format],
     team |-> NormalForm[TeamOf(set, request.repository)]]

ScopeMatches(scope, context) ==
    /\ Selects(scope.repositories, context.repository)
    /\ Selects(scope.formats, context.format)
    /\ Selects(scope.teams, context.team)

\* select_policy: the first rule whose scope matches, or the default.
SelectPolicy(set, context) ==
    LET matching == {i \in DOMAIN set.policies : ScopeMatches(set.policies[i], context)}
    IN  IF matching = {} THEN set.default
        ELSE set.policies[CHOOSE i \in matching : \A j \in matching : i <= j]
------------------------------------------------------------------------------
(* Vulnerabilities: exceptions, the allow list and the limits.              *)

Known(v) == Normalized(Identifiers[v])

\* An exception lapses at the moment it names.
IsActiveAt(exception, now) == now < exception.expires

Concerns(exception, context, request, v) ==
    /\ ScopeMatches(exception, context)
    /\ Selects(exception.packages, request.package)
    /\ Selects(exception.versions, request.version)
    /\ Known(v) \cap exception.ids # {}

\* Mutant: nothing that was excused is recorded.
AppliedToRest(set, context, request, found, now) ==
    {e \in set.exceptions :
        IsActiveAt(e, now)
        /\ \E v \in found : /\ Concerns(e, context, request, v)
                            /\ ~\E d \in set.exceptions : IsActiveAt(d, now)
                                  /\ Concerns(d, context, request, v)}

\* matching_exception_applies: all exceptions that match are collected.
Applied(set, context, request, found, now) ==
    {e \in set.exceptions :
        IsActiveAt(e, now) /\ \E v \in found : Concerns(e, context, request, v)}

\* Mutant: at the moment of expiry an exception is in neither list.
ExpiredMatchesLate(set, context, request, found, now) ==
    {e \in set.exceptions :
        now > e.expires /\ \E v \in found : Concerns(e, context, request, v)}

ExpiredMatches(set, context, request, found, now) ==
    {e \in set.exceptions :
        ~IsActiveAt(e, now) /\ \E v \in found : Concerns(e, context, request, v)}

Excepted(set, context, request, v, now) ==
    \E e \in set.exceptions : IsActiveAt(e, now) /\ Concerns(e, context, request, v)

Allows(rule, v) == Known(v) \cap rule.allowed # {}

Evaluated(set, context, request, found, now) ==
    {v \in found : /\ ~Excepted(set, context, request, v, now)
                   /\ ~Allows(SelectPolicy(set, context), v)}

EffectiveLimit(rule, severity) ==
    IF rule.limits[severity] # NoLimit THEN rule.limits[severity]
    ELSE IF severity >= rule.minimum THEN 0 ELSE NoLimit

\* Mutant: only the count just above the limit is noticed.
JustExceeds(n, limit) == limit # NoLimit /\ n = limit + 1
\* Mutant: the limit itself is already too much.
Reaches(n, limit) == limit # NoLimit /\ n >= limit
Exceeds(n, limit) == limit # NoLimit /\ n > limit

OfSeverity(vulns, severity) == {v \in vulns : SeverityOf[v] = severity}

Violates(rule, vulns) ==
    \/ Exceeds(Cardinality(vulns), rule.total)
    \/ \E s \in Severities :
          Exceeds(Cardinality(OfSeverity(vulns, s)), EffectiveLimit(rule, s))

\* evaluate_at
Outcome(set, request, found, now) ==
    LET context == Context(set, request)
        rule == SelectPolicy(set, context)
    IN  IF ~Violates(rule, Evaluated(set, context, request, found, now)) THEN "allowed"
        ELSE IF rule.mode = "enforce" THEN "blocked" ELSE "report_only"
------------------------------------------------------------------------------
(* One request, asked about again and again.                                *)

VARIABLES raw, set, request, found, now
vars == <<raw, set, request, found, now>>

Init ==
    /\ raw \in PolicyFiles
    /\ Valid(raw)
    /\ set = FromRaw(raw)
    /\ request \in Requests
    /\ found = {}
    /\ now = 0

Publish(v) ==
    /\ v \notin found
    /\ found' = found \cup {v}
    /\ UNCHANGED <<raw, set, request, now>>

Tick ==
    /\ now < MaxTime
    /\ now' = now + 1
    /\ UNCHANGED <<raw, set, request, found>>

Next == Tick \/ \E v \in Vulns : Publish(v)

Spec == Init /\ [][Next]_vars

Judgement == Outcome(set, request, found, now)
------------------------------------------------------------------------------
(* Properties.                                                              *)

\* Under one policy file a block is never lifted by bad news or by waiting:
\* more advisories, and exceptions that expire, only make evaluate_at
\* stricter.  The same holds of a report-only finding.
NoBlockIsLifted == [][Judgement # "allowed" => Judgement' = Judgement]_vars

SameName(a, b) == NormalForm[a] = NormalForm[b] /\ NormalForm[a] # Blank

\* The file's own words: a list that names nothing stands for everything.
Lists(list, x) == (\A y \in list : NormalForm[y] = Blank) \/ \E y \in list : SameName(x, y)

Covers(scope, context) ==
    /\ Lists(scope.repositories, context.repository)
    /\ Lists(scope.formats, context.format)
    /\ Lists(scope.teams, context.team)

\* The reference: a download is refused exactly when the rule that comes first
\* in the file is broken by a group of unexcused vulnerabilities one larger
\* than a limit, or by a single one at or above the blocking severity whose
\* severity has no limit.
RefusedByTheFile ==
    LET context == Context(set, request)
        first == {i \in DOMAIN raw.policies :
                     /\ Covers(raw.policies[i], context)
                     /\ \A j \in 1..(i - 1) : ~Covers(raw.policies[j], context)}
        rule == IF first = {} THEN raw.default ELSE raw.policies[CHOOSE i \in first : TRUE]
        excused(v) ==
            \/ \E x \in Identifiers[v], y \in rule.allowed : SameName(x, y)
            \/ \E i \in DOMAIN raw.exceptions :
                  LET e == raw.exceptions[i]
                  IN  /\ now < e.expires
                      /\ Covers(e, context)
                      /\ Lists(e.packages, request.package)
                      /\ Lists(e.versions, request.version)
                      /\ \E x \in Identifiers[v], y \in e.ids : SameName(x, y)
    IN  \E group \in SUBSET {v \in found : ~excused(v)} :
          \/ Cardinality(group) = 1
             /\ \A v \in group : /\ SeverityOf[v] >= rule.minimum
                                 /\ rule.limits[SeverityOf[v]] = NoLimit
          \/ \E s \in Severities :
                /\ \A v \in group : SeverityOf[v] = s
                /\ rule.limits[s] # NoLimit /\ Cardinality(group) = rule.limits[s] + 1
          \/ rule.total # NoLimit /\ Cardinality(group) = rule.total + 1

\* evaluate_at decides what the file says, whatever the spelling of names, the
\* order of rules, limits and exceptions.
JudgesByTheFile == (Judgement # "allowed") <=> RefusedByTheFile

\* An exception that lets a download pass is on record: without exceptions the
\* outcome would be the same, or evaluate_at reports one as applied.
LeniencyIsRecorded ==
    \/ Outcome([set EXCEPT !.exceptions = {}], request, found, now) = Judgement
    \/ Applied(set, Context(set, request), request, found, now) # {}

\* A block that an exception used to prevent names it as expired.
ExpiryIsReported ==
    (Judgement # "allowed" /\ Outcome(set, request, found, 0) = "allowed") =>
        ExpiredMatches(set, Context(set, request), request, found, now) # {}
==============================================================================
