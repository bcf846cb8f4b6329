------------------------ MODULE PolicyEvaluatorProofs ------------------------
(***************************************************************************)
(* For every policy file, request and set of advisories: evaluate_at       *)
(* decides what the file says, it is monotone (a block is never lifted by  *)
(* more advisories or by waiting), and exceptions leave a trace.           *)
(***************************************************************************)
EXTENDS PolicyEvaluator, FiniteSetTheorems, WellFoundedInduction, TLAPS

\* What loading makes of a file: limits and expiry dates stay numbers.
LimitsTyped(rule) == rule.total \in Limits /\ rule.limits \in [Severities -> Limits]

Loaded ==
    /\ LimitsTyped(set.default)
    /\ DOMAIN set.policies \subseteq Nat
    /\ \A i \in DOMAIN set.policies : LimitsTyped(set.policies[i])
    /\ \A e \in set.exceptions : e.expires \in Nat

\* The type of the whole state; this is the inductive invariant.
Inv ==
    /\ raw \in RawPolicySets
    /\ set = FromRaw(raw)
    /\ Loaded
    /\ found \subseteq Vulns
    /\ now \in Nat

\* Normalising a rule leaves its limits alone.
LEMMA RuleKeepsLimits ==
    ASSUME NEW r \in RawRules
    PROVE  LimitsTyped(RuleOf(r))
BY DEF RawRules, LimitsTyped, RuleOf

\* Normalising an exception leaves its expiry alone.
LEMMA ExceptionKeepsExpiry ==
    ASSUME NEW e \in RawExceptions
    PROVE  ExceptionOf(e).expires \in Nat
BY DEF RawExceptions, ExceptionOf

\* What from_raw makes of a file in PolicyFiles is typed.
LEMMA InitLoaded == Init => Inv
<1> SUFFICES ASSUME Init PROVE Inv
    OBVIOUS
<1>1. raw \in RawPolicySets
    BY EvaluatorAssumptions DEF Init
<1>2. LimitsTyped(set.default)
    BY <1>1, RuleKeepsLimits DEF Init, FromRaw, RawPolicySets
<1>3. ASSUME NEW i \in DOMAIN set.policies
      PROVE  LimitsTyped(set.policies[i])
    <2>1. i \in DOMAIN raw.policies /\ set.policies[i] = RuleOf(raw.policies[i])
        BY DEF Init, FromRaw
    <2>2. raw.policies[i] \in RawRules
        BY <1>1, <2>1 DEF RawPolicySets
    <2> QED BY <2>1, <2>2, RuleKeepsLimits
<1>5. DOMAIN set.policies \subseteq Nat
    BY <1>1 DEF Init, FromRaw, RawPolicySets
<1>4. ASSUME NEW e \in set.exceptions
      PROVE  e.expires \in Nat
    <2>1. PICK i \in DOMAIN raw.exceptions : e = ExceptionOf(raw.exceptions[i])
        BY DEF Init, FromRaw
    <2>2. raw.exceptions[i] \in RawExceptions
        BY <1>1, <2>1 DEF RawPolicySets
    <2> QED BY <2>1, <2>2, ExceptionKeepsExpiry
<1> QED BY <1>1, <1>2, <1>3, <1>4, <1>5 DEF Init, Inv, Loaded

\* Steps keep the policy set and the type of the rest.
LEMMA StepLoaded == Inv /\ [Next]_vars => Inv'
BY EvaluatorAssumptions DEF Inv, Loaded, Next, Tick, Publish, vars, LimitsTyped

\* A non-empty set of natural numbers has a least element.
LEMMA LeastNumber ==
    ASSUME NEW T, T \subseteq Nat, T # {}
    PROVE  \E i \in T : \A j \in T : i <= j
<1> DEFINE R == OpToRel(<, Nat)
<1>1. PICK i \in T : \A j \in T : ~(<<j, i>> \in R)
    <2> HIDE DEF R
    <2>1. IsWellFoundedOn(R, Nat)
        BY NatLessThanWellFounded DEF R
    <2> QED BY <2>1, WFMin
<1>2. ASSUME NEW j \in T
      PROVE  i <= j
    <2>1. ASSUME j < i PROVE <<j, i>> \in R
        <3>1. <<j, i>> \in Nat \X Nat
            OBVIOUS
        <3>2. <<j, i>>[1] < <<j, i>>[2]
            BY <2>1
        <3> QED BY <3>1, <3>2, Zenon DEF OpToRel
    <2>2. ~(j < i)
        BY <1>1, <2>1
    <2> QED BY <2>2
<1> QED BY <1>2

\* select_policy answers with a rule of the set.
LEMMA SelectedTyped ==
    ASSUME Inv, NEW context
    PROVE  LimitsTyped(SelectPolicy(set, context))
<1> DEFINE matching == {i \in DOMAIN set.policies : ScopeMatches(set.policies[i], context)}
           first == CHOOSE i \in matching : \A j \in matching : i <= j
<1>1. CASE matching = {}
    BY <1>1 DEF Inv, Loaded, SelectPolicy
<1>2. CASE matching # {}
    <2>1. first \in matching
        <3>1. \E i \in matching : \A j \in matching : i <= j
            BY <1>2, LeastNumber DEF Inv, Loaded
        <3> QED BY <3>1
    <2> QED BY <1>2, <2>1 DEF Inv, Loaded, SelectPolicy
<1> QED BY <1>1, <1>2

\* An effective limit is a limit.
LEMMA EffectiveTyped ==
    ASSUME NEW r, LimitsTyped(r), NEW s \in Severities
    PROVE  EffectiveLimit(r, s) \in Limits
BY DEF LimitsTyped, EffectiveLimit, Limits

\* A limit that is exceeded is exceeded by more.
LEMMA ExceedsMore ==
    ASSUME NEW limit \in Limits, NEW m \in Nat, NEW n \in Nat, m <= n, Exceeds(m, limit)
    PROVE  Exceeds(n, limit)
BY DEF Limits, Exceeds

\* policy_violations: what a list violates, a longer list violates.
LEMMA ViolationsGrow ==
    ASSUME NEW r, LimitsTyped(r), NEW V, NEW W, V \subseteq W, IsFiniteSet(W),
           Violates(r, V)
    PROVE  Violates(r, W)
<1>1. /\ Cardinality(V) \in Nat /\ Cardinality(W) \in Nat
      /\ Cardinality(V) <= Cardinality(W)
    BY FS_Subset, FS_CardinalityType
<1>2. CASE Exceeds(Cardinality(V), r.total)
    BY <1>1, <1>2, ExceedsMore DEF Violates, LimitsTyped
<1>3. ASSUME NEW s \in Severities,
             Exceeds(Cardinality(OfSeverity(V, s)), EffectiveLimit(r, s))
      PROVE  Violates(r, W)
    <2>1. OfSeverity(V, s) \subseteq OfSeverity(W, s) /\ OfSeverity(W, s) \subseteq W
        BY DEF OfSeverity
    <2>2. IsFiniteSet(OfSeverity(W, s))
        BY <2>1, FS_Subset
    <2>3. /\ Cardinality(OfSeverity(V, s)) \in Nat /\ Cardinality(OfSeverity(W, s)) \in Nat
          /\ Cardinality(OfSeverity(V, s)) <= Cardinality(OfSeverity(W, s))
        BY <2>1, <2>2, FS_Subset, FS_CardinalityType
    <2>4. Exceeds(Cardinality(OfSeverity(W, s)), EffectiveLimit(r, s))
        BY <1>3, <2>3, EffectiveTyped, ExceedsMore
    <2> QED BY <2>4 DEF Violates
<1> QED BY <1>2, <1>3 DEF Violates

\* What no exception excuses now is excused by none later, and what was found
\* stays found.
LEMMA EvaluatedGrows ==
    ASSUME Inv, NEW context, NEW more, found \subseteq more,
           NEW later \in Nat, now <= later
    PROVE  Evaluated(set, context, request, found, now)
               \subseteq Evaluated(set, context, request, more, later)
<1>1. ASSUME NEW v, Excepted(set, context, request, v, later)
      PROVE  Excepted(set, context, request, v, now)
    BY <1>1 DEF Excepted, IsActiveAt, Inv, Loaded
<1> QED BY <1>1 DEF Evaluated

\* Under one policy file a block, or a report-only finding, is never lifted by
\* more advisories or by the expiry of exceptions.
THEOREM BlocksAreNotLifted == Spec => NoBlockIsLifted
<1>1. Inv /\ [Next]_vars => [Judgement # "allowed" => Judgement' = Judgement]_vars
    <2> SUFFICES ASSUME Inv, [Next]_vars, Judgement # "allowed"
                 PROVE  Judgement' = Judgement
        OBVIOUS
    <2>1. /\ set' = set /\ request' = request
          /\ found \subseteq found' /\ found' \subseteq Vulns
          /\ now' \in Nat /\ now <= now'
        BY EvaluatorAssumptions DEF Inv, Next, Tick, Publish, vars
    <2> DEFINE context == Context(set, request)
               rule == SelectPolicy(set, context)
               before == Evaluated(set, context, request, found, now)
               after == Evaluated(set, context, request, found', now')
    <2>2. Violates(rule, before)
        BY DEF Judgement, Outcome
    <2>3. before \subseteq after
        BY <2>1, EvaluatedGrows
    <2>4. IsFiniteSet(after)
        <3>1. after \subseteq Vulns
            BY <2>1 DEF Evaluated
        <3> QED BY <3>1, EvaluatorAssumptions, FS_Subset
    <2>5. LimitsTyped(rule)
        BY SelectedTyped
    <2>6. Violates(rule, after)
        <3> HIDE DEF rule, before, after
        <3> QED BY <2>2, <2>3, <2>4, <2>5, ViolationsGrow
    <2>7. Judgement' = Outcome(set, request, found', now')
        BY <2>1 DEF Judgement
    <2> QED BY <2>2, <2>6, <2>7 DEF Judgement, Outcome
<1> QED BY <1>1, InitLoaded, StepLoaded, PTL DEF Spec, NoBlockIsLifted

\* Vulnerabilities that are excused alike at two moments, or by two policy sets
\* with the same rules and teams, are judged alike.
LEMMA JudgedAlike ==
    ASSUME NEW other, other.default = set.default, other.policies = set.policies,
           other.teams = set.teams, NEW t, NEW u,
           \A v \in found : Excepted(other, Context(set, request), request, v, t)
                            <=> Excepted(set, Context(set, request), request, v, u)
    PROVE  Outcome(other, request, found, t) = Outcome(set, request, found, u)
<1>1. Context(other, request) = Context(set, request)
    <2>1. TeamOf(other, request.repository) = TeamOf(set, request.repository)
        <3> DEFINE Team(teams) ==
                LET named == {i \in DOMAIN teams :
                                 NormalForm[teams[i].repository] = NormalForm[request.repository]}
                IN  IF NormalForm[request.repository] = Blank \/ named = {} THEN Blank
                    ELSE teams[CHOOSE i \in named : \A j \in named : i <= j].team
        <3>1. /\ TeamOf(other, request.repository) = Team(other.teams)
              /\ TeamOf(set, request.repository) = Team(set.teams)
            BY DEF TeamOf
        <3> HIDE DEF Team
        <3> QED BY <3>1
    <2> QED BY <2>1 DEF Context
<1> DEFINE context == Context(set, request)
<1>2. SelectPolicy(other, context) = SelectPolicy(set, context)
    <2> DEFINE Rule(default, policies) ==
            LET matching == {i \in DOMAIN policies : ScopeMatches(policies[i], context)}
            IN  IF matching = {} THEN default
                ELSE policies[CHOOSE i \in matching : \A j \in matching : i <= j]
    <2>1. /\ SelectPolicy(other, context) = Rule(other.default, other.policies)
          /\ SelectPolicy(set, context) = Rule(set.default, set.policies)
        BY DEF SelectPolicy
    <2> HIDE DEF Rule
    <2> QED BY <2>1
<1>3. Evaluated(other, context, request, found, t) = Evaluated(set, context, request, found, u)
    BY <1>2 DEF Evaluated
<1> QED BY <1>1, <1>2, <1>3 DEF Outcome

\* An exception that changes the outcome is reported as applied.
THEOREM LeniencyIsOnRecord == Spec => []LeniencyIsRecorded
<1>1. Inv => LeniencyIsRecorded
    <2> SUFFICES ASSUME Inv, Applied(set, Context(set, request), request, found, now) = {}
                 PROVE  Outcome([set EXCEPT !.exceptions = {}], request, found, now) = Judgement
        BY DEF LeniencyIsRecorded
    <2> DEFINE other == [set EXCEPT !.exceptions = {}]
    <2>1. /\ other.default = set.default /\ other.policies = set.policies
          /\ other.teams = set.teams /\ other.exceptions = {}
        BY DEF Inv, FromRaw
    <2>2. \A v \in found : ~Excepted(set, Context(set, request), request, v, now)
        BY DEF Applied, Excepted
    <2> HIDE DEF other
    <2>3. \A v \in found : ~Excepted(other, Context(set, request), request, v, now)
        BY <2>1 DEF Excepted
    <2>4. Outcome(other, request, found, now) = Outcome(set, request, found, now)
        BY <2>1, <2>2, <2>3, JudgedAlike
    <2> QED BY <2>4 DEF other, Judgement
<1> QED BY <1>1, InitLoaded, StepLoaded, PTL DEF Spec

\* A block that an exception used to prevent names it as expired.
THEOREM ExpiriesAreReported == Spec => []ExpiryIsReported
<1>1. Inv => ExpiryIsReported
    <2> SUFFICES ASSUME Inv,
                        ExpiredMatches(set, Context(set, request), request, found, now) = {}
                 PROVE  Outcome(set, request, found, 0) = Judgement
        BY DEF ExpiryIsReported
    <2>1. ASSUME NEW v \in found
          PROVE  Excepted(set, Context(set, request), request, v, 0)
                     <=> Excepted(set, Context(set, request), request, v, now)
        <3>1. ASSUME NEW e \in set.exceptions, Concerns(e, Context(set, request), request, v)
              PROVE  IsActiveAt(e, now) /\ IsActiveAt(e, 0)
            <4>1. IsActiveAt(e, now)
                BY <3>1 DEF ExpiredMatches
            <4>2. e.expires \in Nat /\ now \in Nat
                BY DEF Inv, Loaded
            <4> QED BY <4>1, <4>2 DEF IsActiveAt
        <3> QED BY <3>1 DEF Excepted
    <2>2. Outcome(set, request, found, 0) = Outcome(set, request, found, now)
        BY <2>1, JudgedAlike
    <2> QED BY <2>2 DEF Judgement
<1> QED BY <1>1, InitLoaded, StepLoaded, PTL DEF Spec
------------------------------------------------------------------------------
(* evaluate_at decides what the file says.                                  *)

\* The names that RefusedByTheFile gives to its parts.
FirstCovering(context) ==
    {i \in DOMAIN raw.policies :
        /\ Covers(raw.policies[i], context)
        /\ \A j \in 1..(i - 1) : ~Covers(raw.policies[j], context)}

FileRule(context) ==
    IF FirstCovering(context) = {} THEN raw.default
    ELSE raw.policies[CHOOSE i \in FirstCovering(context) : TRUE]

FileExcuses(context, rule, v) ==
    \/ \E x \in Identifiers[v], y \in rule.allowed : SameName(x, y)
    \/ \E i \in DOMAIN raw.exceptions :
          LET e == raw.exceptions[i]
          IN  /\ now < e.expires
              /\ Covers(e, context)
              /\ Lists(e.packages, request.package)
              /\ Lists(e.versions, request.version)
              /\ \E x \in Identifiers[v], y \in e.ids : SameName(x, y)

\* A group of these vulnerabilities breaks the rule.
BrokenBy(rule, vulns) ==
    \E group \in SUBSET vulns :
        \/ Cardinality(group) = 1
           /\ \A v \in group : /\ SeverityOf[v] >= rule.minimum
                               /\ rule.limits[SeverityOf[v]] = NoLimit
        \/ \E s \in Severities :
              /\ \A v \in group : SeverityOf[v] = s
              /\ rule.limits[s] # NoLimit /\ Cardinality(group) = rule.limits[s] + 1
        \/ rule.total # NoLimit /\ Cardinality(group) = rule.total + 1

\* A finite set has more than k elements if and only if a part of it has k + 1.
LEMMA PartsOfSize ==
    ASSUME NEW S, IsFiniteSet(S), NEW k \in Nat
    PROVE  Cardinality(S) > k <=> \E part \in SUBSET S : Cardinality(part) = k + 1
<1>1. ASSUME NEW part \in SUBSET S, Cardinality(part) = k + 1
      PROVE  Cardinality(S) > k
    <2>1. Cardinality(part) <= Cardinality(S) /\ Cardinality(S) \in Nat
        BY FS_Subset, FS_CardinalityType
    <2> QED BY <1>1, <2>1
<1>2. ASSUME Cardinality(S) > k
      PROVE  \E part \in SUBSET S : Cardinality(part) = k + 1
    <2> DEFINE n == Cardinality(S)
    <2>1. n \in Nat /\ ExistsBijection(1..n, S)
        BY FS_CardinalityType
    <2>2. PICK f \in Bijection(1..n, S) : TRUE
        BY <2>1 DEF ExistsBijection
    <2>3. /\ f \in [1..n -> S]
          /\ \A a, b \in 1..n : f[a] = f[b] => a = b
        BY <2>2 DEF Bijection, Injection, IsInjective
    <2>4. 1..(k + 1) \subseteq 1..n
        BY <1>2, <2>1
    <2> HIDE DEF n
    <2> DEFINE part == {f[i] : i \in 1..(k + 1)}
               g == [i \in 1..(k + 1) |-> f[i]]
    <2>5. part \in SUBSET S
        BY <2>3, <2>4
    <2>6. g \in [1..(k + 1) -> part] /\ DOMAIN g = 1..(k + 1)
        OBVIOUS
    <2>7. \A a, b \in 1..(k + 1) : g[a] = g[b] => a = b
        BY <2>3, <2>4
    <2>8. \A t \in part : \E i \in 1..(k + 1) : g[i] = t
        OBVIOUS
    <2>9. ExistsBijection(1..(k + 1), part)
        <3> HIDE DEF g, part
        <3>1. g \in Bijection(1..(k + 1), part)
            BY <2>6, <2>7, <2>8 DEF Bijection, Injection, Surjection, IsInjective
        <3> QED BY <3>1 DEF ExistsBijection
    <2>10. Cardinality(part) = k + 1
        <3> HIDE DEF part
        <3> QED BY <2>9, FS_CountingElements
    <2> QED BY <2>5, <2>10
<1> QED BY <1>1, <1>2

\* policy_violations compares counts with limits; the file speaks of groups.
LEMMA ViolatedIsBroken ==
    ASSUME NEW r \in RawRules, NEW V, IsFiniteSet(V), V \subseteq Vulns
    PROVE  Violates(r, V) <=> BrokenBy(r, V)
<1>1. /\ r.total \in Limits /\ r.minimum \in Severities
      /\ \A s \in Severities : r.limits[s] \in Limits
    BY DEF RawRules
<1>2. \A v \in V : SeverityOf[v] \in 0..4
    BY EvaluatorAssumptions
<1>3. \A s : OfSeverity(V, s) \subseteq V /\ IsFiniteSet(OfSeverity(V, s))
    <2>1. \A s : OfSeverity(V, s) \in SUBSET V
        BY DEF OfSeverity
    <2> QED BY <2>1, FS_Subset
<1>4. ASSUME NEW k \in Limits
      PROVE  Exceeds(Cardinality(V), k)
                <=> k # NoLimit /\ \E g \in SUBSET V : Cardinality(g) = k + 1
    BY PartsOfSize DEF Limits, Exceeds
<1>5. ASSUME NEW s \in Severities, NEW k \in Limits
      PROVE  Exceeds(Cardinality(OfSeverity(V, s)), k)
                <=> k # NoLimit /\ \E g \in SUBSET OfSeverity(V, s) : Cardinality(g) = k + 1
    BY <1>3, PartsOfSize DEF Limits, Exceeds
<1>6. ASSUME Violates(r, V) PROVE BrokenBy(r, V)
    <2>1. CASE Exceeds(Cardinality(V), r.total)
        BY <1>1, <1>4, <2>1 DEF BrokenBy
    <2>2. ASSUME NEW s \in Severities,
                 Exceeds(Cardinality(OfSeverity(V, s)), EffectiveLimit(r, s))
          PROVE  BrokenBy(r, V)
        <3>1. EffectiveLimit(r, s) \in Limits
            BY <1>1 DEF EffectiveLimit, Limits
        <3>2. PICK g \in SUBSET OfSeverity(V, s) : Cardinality(g) = EffectiveLimit(r, s) + 1
            BY <1>5, <2>2, <3>1
        <3>3. EffectiveLimit(r, s) # NoLimit
            BY <2>2 DEF Exceeds
        <3>4. g \in SUBSET V /\ \A v \in g : SeverityOf[v] = s
            BY <3>2 DEF OfSeverity
        <3>5. CASE r.limits[s] # NoLimit
            BY <3>2, <3>4, <3>5 DEF EffectiveLimit, BrokenBy
        <3>6. CASE r.limits[s] = NoLimit
            <4>1. s >= r.minimum /\ Cardinality(g) = 1
                BY <3>2, <3>3, <3>6 DEF EffectiveLimit
            <4> QED BY <3>4, <3>6, <4>1 DEF BrokenBy
        <3> QED BY <3>5, <3>6
    <2> QED BY <1>6, <2>1, <2>2 DEF Violates
<1>7. ASSUME BrokenBy(r, V) PROVE Violates(r, V)
    <2>1. PICK g \in SUBSET V :
             \/ Cardinality(g) = 1
                /\ \A v \in g : /\ SeverityOf[v] >= r.minimum
                                /\ r.limits[SeverityOf[v]] = NoLimit
             \/ \E s \in Severities :
                   /\ \A v \in g : SeverityOf[v] = s
                   /\ r.limits[s] # NoLimit /\ Cardinality(g) = r.limits[s] + 1
             \/ r.total # NoLimit /\ Cardinality(g) = r.total + 1
        BY <1>7 DEF BrokenBy
    <2>2. CASE /\ Cardinality(g) = 1
               /\ \A v \in g : /\ SeverityOf[v] >= r.minimum
                               /\ r.limits[SeverityOf[v]] = NoLimit
        <3>1. IsFiniteSet(g)
            BY FS_Subset
        <3>2. PICK v \in V : g = {v}
            BY <2>2, <3>1, FS_Singleton
        <3>3. SeverityOf[v] \in Severities
            BY <1>1, <1>2, <2>2, <3>2 DEF Severities
        <3>4. EffectiveLimit(r, SeverityOf[v]) = 0
            BY <2>2, <3>2 DEF EffectiveLimit
        <3>5. g \in SUBSET OfSeverity(V, SeverityOf[v]) /\ Cardinality(g) = 0 + 1
            BY <2>2, <3>2 DEF OfSeverity
        <3>6. 0 \in Limits /\ 0 # NoLimit
            BY EvaluatorAssumptions DEF Limits
        <3> QED BY <1>5, <3>3, <3>4, <3>5, <3>6 DEF Violates
    <2>3. ASSUME NEW s \in Severities, \A v \in g : SeverityOf[v] = s,
                 r.limits[s] # NoLimit, Cardinality(g) = r.limits[s] + 1
          PROVE  Violates(r, V)
        <3>1. g \in SUBSET OfSeverity(V, s)
            BY <2>3 DEF OfSeverity
        <3>2. EffectiveLimit(r, s) = r.limits[s]
            BY <2>3 DEF EffectiveLimit
        <3> QED BY <1>1, <1>5, <2>3, <3>1, <3>2 DEF Violates
    <2>4. CASE r.total # NoLimit /\ Cardinality(g) = r.total + 1
        BY <1>1, <1>4, <2>4 DEF Violates
    <2> QED BY <2>1, <2>2, <2>3, <2>4
<1> QED BY <1>6, <1>7

\* A normalised selector list admits what the file's list names.
LEMMA SelectorsMean ==
    ASSUME NEW list, NEW x
    PROVE  Selects(Normalized(list), x) <=> Lists(list, x)
BY DEF Selects, Normalized, Lists, SameName

\* Two lists of spellings meet after normalisation if they share a name.
LEMMA NamesMeet ==
    ASSUME NEW a, NEW b
    PROVE  Normalized(a) \cap Normalized(b) # {} <=> \E x \in a, y \in b : SameName(x, y)
BY DEF Normalized, SameName

\* Loading keeps the scope, the allow list, the limits and the mode of a rule.
LEMMA RuleMeans ==
    ASSUME NEW r \in RawRules, NEW context
    PROVE  /\ ScopeMatches(RuleOf(r), context) <=> Covers(r, context)
           /\ RuleOf(r).allowed = Normalized(r.allowed)
           /\ RuleOf(r).total = r.total
           /\ RuleOf(r).limits = r.limits
           /\ RuleOf(r).minimum = r.minimum
<1>1. /\ RuleOf(r).repositories = Normalized(r.repositories)
      /\ RuleOf(r).formats = Normalized(r.formats)
      /\ RuleOf(r).teams = Normalized(r.teams)
      /\ RuleOf(r).allowed = Normalized(r.allowed)
      /\ RuleOf(r).total = r.total
      /\ RuleOf(r).limits = r.limits
      /\ RuleOf(r).minimum = r.minimum
    BY DEF RuleOf, RawRules
<1> QED BY <1>1, SelectorsMean DEF ScopeMatches, Covers

\* Loading keeps the scope, the identifiers and the expiry of an exception.
LEMMA ExceptionMeans ==
    ASSUME NEW e \in RawExceptions, NEW context, NEW v
    PROVE  /\ Concerns(ExceptionOf(e), context, request, v) <=>
                 /\ Covers(e, context)
                 /\ Lists(e.packages, request.package)
                 /\ Lists(e.versions, request.version)
                 /\ \E x \in Identifiers[v], y \in e.ids : SameName(x, y)
           /\ IsActiveAt(ExceptionOf(e), now) <=> now < e.expires
<1>1. /\ ExceptionOf(e).repositories = Normalized(e.repositories)
      /\ ExceptionOf(e).formats = Normalized(e.formats)
      /\ ExceptionOf(e).teams = Normalized(e.teams)
      /\ ExceptionOf(e).packages = Normalized(e.packages)
      /\ ExceptionOf(e).versions = Normalized(e.versions)
      /\ ExceptionOf(e).ids = Normalized(e.ids)
      /\ ExceptionOf(e).expires = e.expires
    BY DEF ExceptionOf, RawExceptions
<1>2. ScopeMatches(ExceptionOf(e), context) <=> Covers(e, context)
    BY <1>1, SelectorsMean DEF ScopeMatches, Covers
<1>3. /\ Selects(ExceptionOf(e).packages, request.package) <=> Lists(e.packages, request.package)
      /\ Selects(ExceptionOf(e).versions, request.version) <=> Lists(e.versions, request.version)
    BY <1>1, SelectorsMean
<1>4. Known(v) \cap ExceptionOf(e).ids # {}
          <=> \E x \in Identifiers[v], y \in e.ids : SameName(x, y)
    BY <1>1, NamesMeet DEF Known
<1> QED BY <1>1, <1>2, <1>3, <1>4 DEF Concerns, IsActiveAt

\* select_policy takes the rule that comes first in the file.
LEMMA FirstRuleIsSelected ==
    ASSUME Inv, NEW context
    PROVE  /\ FileRule(context) \in RawRules
           /\ SelectPolicy(set, context) = RuleOf(FileRule(context))
<1> DEFINE matching == {i \in DOMAIN set.policies : ScopeMatches(set.policies[i], context)}
           least == CHOOSE i \in matching : \A j \in matching : i <= j
           first == CHOOSE i \in FirstCovering(context) : TRUE
<1>1. /\ raw.default \in RawRules
      /\ raw.policies \in Seq(RawRules)
    BY DEF Inv, RawPolicySets
<1>2. /\ set.default = RuleOf(raw.default)
      /\ DOMAIN set.policies = DOMAIN raw.policies
      /\ \A i \in DOMAIN raw.policies : set.policies[i] = RuleOf(raw.policies[i])
    BY DEF Inv, FromRaw
<1>3. \A i \in DOMAIN raw.policies : raw.policies[i] \in RawRules
    BY <1>1
<1>4. matching = {i \in DOMAIN raw.policies : Covers(raw.policies[i], context)}
    BY <1>2, <1>3, RuleMeans
<1>5. /\ DOMAIN raw.policies = 1..Len(raw.policies) /\ Len(raw.policies) \in Nat
    BY <1>1
<1>6. CASE matching = {}
    <2>1. FirstCovering(context) = {}
        BY <1>4, <1>6 DEF FirstCovering
    <2> QED BY <1>1, <1>2, <1>6, <2>1 DEF SelectPolicy, FileRule
<1>7. CASE matching # {}
    <2>1. matching \subseteq Nat
        BY <1>5, <1>4
    <2>2. least \in matching /\ \A j \in matching : least <= j
        <3>1. \E i \in matching : \A j \in matching : i <= j
            <4> HIDE DEF matching
            <4> QED BY <1>7, <2>1, LeastNumber
        <3> HIDE DEF matching
        <3> QED BY <3>1
    <2>3. FirstCovering(context) = {least}
        <3> HIDE DEF least, matching
        <3>1. least \in FirstCovering(context)
            BY <1>4, <1>5, <2>1, <2>2 DEF FirstCovering
        <3>2. ASSUME NEW i \in FirstCovering(context) PROVE i = least
            <4>1. i \in matching /\ \A j \in 1..(i - 1) : j \notin matching
                BY <1>4, <1>5 DEF FirstCovering
            <4>2. i \in Nat /\ least \in Nat /\ least >= 1 /\ least <= i
                BY <1>4, <1>5, <2>1, <2>2, <4>1
            <4> QED BY <2>2, <4>1, <4>2
        <3> QED BY <3>1, <3>2
    <2>4. first = least
        <3> HIDE DEF least
        <3> QED BY <2>3
    <2>5. FileRule(context) = raw.policies[least]
        <3> HIDE DEF least
        <3> QED BY <2>3, <2>4 DEF FileRule
    <2>6. least \in DOMAIN raw.policies
        BY <1>4, <2>2
    <2>7. SelectPolicy(set, context) = set.policies[least]
        BY <1>7 DEF SelectPolicy
    <2> HIDE DEF least
    <2> QED BY <1>2, <1>3, <2>5, <2>6, <2>7
<1> QED BY <1>6, <1>7

\* An exception or the allow list excuses what the file excuses.
LEMMA ExcusedByTheFile ==
    ASSUME Inv, NEW context, NEW v
    PROVE  Excepted(set, context, request, v, now) \/ Allows(SelectPolicy(set, context), v)
              <=> FileExcuses(context, FileRule(context), v)
<1>1. Allows(SelectPolicy(set, context), v)
          <=> \E x \in Identifiers[v], y \in FileRule(context).allowed : SameName(x, y)
    <2>1. /\ FileRule(context) \in RawRules
          /\ SelectPolicy(set, context) = RuleOf(FileRule(context))
        BY FirstRuleIsSelected
    <2> DEFINE r == FileRule(context)
    <2> HIDE DEF r
    <2>2. RuleOf(r).allowed = Normalized(r.allowed)
        <3>1. r \in RawRules
            BY <2>1 DEF r
        <3> QED BY <3>1, RuleMeans
    <2>3. Allows(RuleOf(r), v) <=> Known(v) \cap Normalized(r.allowed) # {}
        BY <2>2 DEF Allows
    <2>4. Known(v) \cap Normalized(r.allowed) # {}
              <=> \E x \in Identifiers[v], y \in r.allowed : SameName(x, y)
        BY NamesMeet DEF Known
    <2> QED BY <2>1, <2>3, <2>4 DEF r
<1>2. \A i \in DOMAIN raw.exceptions : raw.exceptions[i] \in RawExceptions
    BY DEF Inv, RawPolicySets
<1>3. set.exceptions = {ExceptionOf(raw.exceptions[i]) : i \in DOMAIN raw.exceptions}
    BY DEF Inv, FromRaw
<1>4. Excepted(set, context, request, v, now) <=>
         \E i \in DOMAIN raw.exceptions :
             /\ IsActiveAt(ExceptionOf(raw.exceptions[i]), now)
             /\ Concerns(ExceptionOf(raw.exceptions[i]), context, request, v)
    BY <1>3 DEF Excepted
<1> QED BY <1>1, <1>2, <1>4, ExceptionMeans DEF FileExcuses

\* evaluate_at decides what the file says, for every file, request, moment and
\* set of advisories.
THEOREM JudgedByTheFile == Spec => []JudgesByTheFile
<1>1. Inv => JudgesByTheFile
    <2> SUFFICES ASSUME Inv PROVE JudgesByTheFile
        OBVIOUS
    <2> DEFINE context == Context(set, request)
               rule == FileRule(context)
               unexcused == {v \in found : ~FileExcuses(context, rule, v)}
    <2>1. RefusedByTheFile <=> BrokenBy(rule, unexcused)
        BY DEF RefusedByTheFile, BrokenBy, FileExcuses, FileRule, FirstCovering
    <2>2. Evaluated(set, context, request, found, now) = unexcused
        BY ExcusedByTheFile DEF Evaluated
    <2>3. rule \in RawRules /\ SelectPolicy(set, context) = RuleOf(rule)
        BY FirstRuleIsSelected
    <2>4. unexcused \subseteq Vulns /\ IsFiniteSet(unexcused)
        <3>1. unexcused \in SUBSET Vulns
            BY DEF Inv
        <3> HIDE DEF unexcused
        <3> QED BY <3>1, EvaluatorAssumptions, FS_Subset
    <2>5. Judgement # "allowed" <=> Violates(RuleOf(rule), unexcused)
        BY <2>2, <2>3 DEF Judgement, Outcome
    <2>6. Violates(RuleOf(rule), unexcused) <=> Violates(rule, unexcused)
        <3> HIDE DEF rule, unexcused
        <3> QED BY <2>3, RuleMeans DEF Violates, EffectiveLimit
    <2>7. Violates(rule, unexcused) <=> BrokenBy(rule, unexcused)
        <3> HIDE DEF rule, unexcused
        <3> QED BY <2>3, <2>4, ViolatedIsBroken
    <2> QED BY <2>1, <2>5, <2>6, <2>7 DEF JudgesByTheFile
<1> QED BY <1>1, InitLoaded, StepLoaded, PTL DEF Spec
==============================================================================
