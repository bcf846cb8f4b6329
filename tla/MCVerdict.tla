------------------------------ MODULE MCVerdict ------------------------------
(* Instances of Verdict: four advisories, one of them without a severity,    *)
(* and policy files that combine limits, scopes and exceptions spelled       *)
(* differently from what they are compared with; two reports submitted at    *)
(* once, on two targets with up to two vulnerabilities.                      *)
EXTENDS Verdict, TLC

MCVulns == {"v1", "v2", "v3", "v4"}
MCIdentifiers ==
    [v1 |-> {"CVE-1", "ghsa-1"}, v2 |-> {"cve-2"}, v3 |-> {"CVE-3", " "}, v4 |-> {"CVE-4"}]
MCSeverityOf == [v1 |-> 3, v2 |-> 3, v3 |-> 0, v4 |-> 2]

Folded == [x \in {"cve-1", "ghsa-1", "cve-2", "Releases", "Team-A", " "} |->
              CASE x = "cve-1" -> "CVE-1" [] x = "ghsa-1" -> "GHSA-1"
                [] x = "cve-2" -> "CVE-2" [] x = "Releases" -> "releases"
                [] x = "Team-A" -> "team-a" [] x = " " -> ""]
MCNames == DOMAIN Folded \cup {Folded[x] : x \in DOMAIN Folded}
           \cup {"CVE-3", "CVE-4", "npm", "default", "generic", "left-pad", "1.0", "strict", "e1", "e2"}
MCNormalForm == [x \in MCNames |-> IF x \in DOMAIN Folded THEN Folded[x] ELSE x]

Rule(id, mode, minimum, allowed, total, high, medium, repositories, teams) ==
    [id |-> id, mode |-> mode, minimum |-> minimum, allowed |-> allowed, total |-> total,
     limits |-> <<NoLimit, medium, high, NoLimit>>,
     repositories |-> repositories, formats |-> {}, teams |-> teams]

Exception(id, ids, expires, packages, versions, repositories) ==
    [id |-> id, ids |-> ids, expires |-> expires, packages |-> packages,
     versions |-> versions, repositories |-> repositories, formats |-> {}, teams |-> {}]

Defaults ==
    {Rule("default", "enforce", minimum, allowed, total, high, NoLimit, {}, {}) :
        minimum \in {2, 4}, allowed \in {{}, {"cve-1"}},
        total \in {NoLimit, 2}, high \in {NoLimit, 0, 1}}

Policies ==
    {<<>>} \cup
    {<<Rule(id, "enforce", 3, {" ", "GHSA-1"}, NoLimit, NoLimit, 0, repositories, teams)>> :
        id \in {"strict", "default"}, repositories \in {{}, {"Releases"}, {" "}},
        teams \in {{}, {"team-a"}}}

Exceptions ==
    LET first == {Exception("e1", ids, expires, packages, versions, {}) :
                     ids \in {{"ghsa-1"}, {"cve-2", " "}, {" "}}, expires \in 1..2,
                     packages \in {{}, {"left-pad"}}, versions \in {{}, {"1.0"}}}
        second == Exception("e2", {"CVE-1", "CVE-4"}, 1, {}, {}, {"releases"})
    IN  {<<>>} \cup {<<e>> : e \in first} \cup {<<e, second>> : e \in first}

Teams == {<<>>, <<[repository |-> "releases", team |-> "Team-A"]>>}

\* Limits against exceptions, and scopes and teams against exceptions.
MCPolicyFiles ==
    [default : Defaults, policies : {<<>>}, exceptions : Exceptions, teams : {<<>>}]
    \cup
    [default : {Rule("default", "report_only", 2, {}, NoLimit, 1, NoLimit, {}, {})},
     policies : Policies, exceptions : Exceptions, teams : Teams]

\* An artifact has no version.
MCRequests ==
    {[repository |-> r, format |-> "npm", package |-> "left-pad", version |-> v] :
        <<r, v>> \in {<<"Releases", "1.0">>, <<"Releases", "">>, <<"generic", "1.0">>}}

DojoSymmetry == Permutations(Reports) \cup Permutations(Targets) \cup Permutations(VulnIds)
==============================================================================
