--------------------------- MODULE DefectDojoProofs --------------------------
(***************************************************************************)
(* The safety properties of DefectDojo for every set of submissions,       *)
(* targets and vulnerabilities.                                            *)
(***************************************************************************)
EXTENDS DefectDojo, FiniteSetTheorems, TLAPS

Noted == {"timeout", "transport", "rejected", "invalid_response"}
Fields == [success : BOOLEAN, test_id : SUBSET Nat, test : SUBSET Nat]

Work == ({"vulnerability"} \X Targets \X VulnIds) \cup ({"policy"} \X Reports)
Tests == [report : Reports, findings : SUBSET Work]

\* The ids an answer mentions.
Mentioned(answer) == answer.test_id \cup answer.test

\* Types, as far as the arguments below need them.
Shape ==
    /\ wire \in [Reports -> {"unsent", "sent", "answered"}]
    /\ pc \in [Reports -> {"idle", "sent", "created", "failed", "gone"} \cup Noted]
    /\ reply \in [Reports -> Fields]
    /\ link \in [Reports -> SUBSET Nat]
    /\ block \in [Reports -> Blocks]
    /\ tests \in Seq(Tests)
    /\ failed \in Nat

\* A Test exists for an answered request only, and one at most; an answer
\* mentions no Test but its own; a call not yet made has sent nothing.
Answered ==
    /\ \A n \in DOMAIN tests : wire[tests[n].report] = "answered"
    /\ OneTestPerBlock
    /\ \A r \in Reports : \A n \in Mentioned(reply[r]) :
          n > 0 => n \in DOMAIN tests /\ tests[n].report = r
    /\ \A r \in Reports : pc[r] = "idle" <=> wire[r] = "unsent"

\* Whoever is about to write a category has counted, and so has whoever wrote
\* the one that stands; what the reader has shown was counted then.
Counted ==
    /\ \A r \in Reports : pc[r] \in Noted => failed > 0
    /\ category # NoCategory => failed > 0
    /\ StatusCountsItsFailure

IInv == Shape /\ Answered /\ LinkIsTheReport /\ Counted

\* GenericReport::from makes findings of the two known forms.
LEMMA FindingsAreFindings ==
    ASSUME NEW r \in Reports, block \in [Reports -> Blocks]
    PROVE  Findings(r) \in SUBSET Work
<1>1. \A v \in block[r].vulns : VulnerabilityIdentity(r, v) \in Work
  BY DEF VulnerabilityIdentity, Work, Blocks
<1>2. PolicyIdentity(r) \in Work
  BY DEF PolicyIdentity, Work
<1> QED
  BY <1>1, <1>2 DEF Findings

\* Before the first submission nothing was sent, counted or shown.
LEMMA InitIInv == DojoInit => IInv
BY DEF DojoInit, IInv, Shape, Answered, LinkIsTheReport, OneTestPerBlock, Counted,
       StatusCountsItsFailure, NoReply, Fields, Mentioned, Tests, Noted

\* Each step of a call, of a reader and of DefectDojo keeps the invariant.
LEMMA NextIInv == IInv /\ [DojoNext]_dojoVars => IInv'
<1> SUFFICES ASSUME IInv, [DojoNext]_dojoVars PROVE IInv'
  OBVIOUS
<1> USE DEF IInv
<1>1. ASSUME NEW r \in Reports, Submit(r) PROVE IInv'
  BY <1>1 DEF Submit, Shape, Answered, LinkIsTheReport, OneTestPerBlock, Counted,
              StatusCountsItsFailure, Noted, Mentioned
<1>2. ASSUME NEW r \in Reports, Created(r) PROVE IInv'
  <2>1. Named(reply[r]) \subseteq {n \in Mentioned(reply[r]) : n > 0}
    BY DEF Named, Mentioned
  <2>2. Named(reply[r]) \subseteq Nat
    BY DEF Named, Shape, Fields
  <2>3. LinkIsTheReport'
    BY <1>2, <2>1 DEF Created, Shape, Answered, LinkIsTheReport
  <2> QED
    BY <1>2, <2>2, <2>3 DEF Created, Shape, Answered, OneTestPerBlock, Counted,
              StatusCountsItsFailure, Noted, Mentioned
<1>3. ASSUME NEW r \in Reports, Fails(r) PROVE IInv'
  <2>1. Failures(r) \subseteq Noted
    BY DEF Failures, Noted
  <2> QED
    BY <1>3, <2>1 DEF Fails, Shape, Answered, LinkIsTheReport, OneTestPerBlock, Counted,
              StatusCountsItsFailure, Noted, Mentioned
<1>4. ASSUME NEW r \in Reports, NoteFailure(r) PROVE IInv'
  BY <1>4 DEF NoteFailure, Shape, Answered, LinkIsTheReport, OneTestPerBlock, Counted,
              StatusCountsItsFailure, Noted, Mentioned
<1>5. ASSUME NEW r \in Reports, Cancel(r) PROVE IInv'
  BY <1>5 DEF Cancel, Shape, Answered, LinkIsTheReport, OneTestPerBlock, Counted,
              StatusCountsItsFailure, Noted, Mentioned
<1>6. ASSUME NEW r \in Reports, Import(r) PROVE IInv'
  <2> DEFINE test == [report |-> r, findings |-> Findings(r)]
  <2>1. test \in Tests
    BY FindingsAreFindings DEF Tests, Shape
  <2>2. /\ tests' \in Seq(Tests)
        /\ Len(tests') = Len(tests) + 1
        /\ tests'[Len(tests')] = test
        /\ \A n \in DOMAIN tests : tests'[n] = tests[n]
        /\ DOMAIN tests' = DOMAIN tests \cup {Len(tests')}
        /\ Len(tests') \notin DOMAIN tests
        /\ Len(tests') \in Nat
    BY <1>6, <2>1 DEF Import, Shape
  <2>3. \A n \in DOMAIN tests : tests[n].report # r /\ tests[n].report \in Reports
    <3>1. wire[r] = "sent" /\ \A n \in DOMAIN tests : wire[tests[n].report] = "answered"
      BY <1>6 DEF Import, Answered
    <3>2. \A n \in DOMAIN tests : tests[n] \in Tests
      BY DEF Shape
    <3> QED
      BY <3>1, <3>2 DEF Tests
  <2>4. PICK t \in {{}, {0}, {Len(tests')}}, u \in {{}, {Len(tests')}} :
           reply' = [reply EXCEPT ![r] = [success |-> TRUE, test_id |-> t, test |-> u]]
    BY <1>6 DEF Import
  <2>5. /\ \A q \in Reports : q # r => reply'[q] = reply[q]
        /\ reply'[r].test_id = t /\ reply'[r].test = u
    BY <2>4 DEF Shape
  <2>6. Shape'
    BY <1>6, <2>2, <2>4 DEF Import, Shape, Fields
  <2>7. \A q \in Reports : \A n \in Mentioned(reply'[q]) :
           n > 0 => n \in DOMAIN tests' /\ tests'[n].report = q
    <3> SUFFICES ASSUME NEW q \in Reports, NEW n \in Mentioned(reply'[q]), n > 0
                 PROVE  n \in DOMAIN tests' /\ tests'[n].report = q
      OBVIOUS
    <3>1. CASE q = r
      BY <3>1, <2>2, <2>5 DEF Mentioned
    <3>2. CASE q # r
      BY <3>2, <2>2, <2>5 DEF Mentioned, Answered
    <3> QED
      BY <3>1, <3>2
  <2>8. OneTestPerBlock'
    BY <2>2, <2>3 DEF Answered, OneTestPerBlock
  <2>9. Answered'
    <3>1. \A n \in DOMAIN tests' : wire'[tests'[n].report] = "answered"
      BY <1>6, <2>2, <2>3 DEF Import, Answered, Shape
    <3>2. \A q \in Reports : pc'[q] = "idle" <=> wire'[q] = "unsent"
      BY <1>6 DEF Import, Answered, Shape
    <3> QED
      BY <3>1, <3>2, <2>7, <2>8 DEF Answered, Mentioned
  <2>10. LinkIsTheReport'
    BY <1>6, <2>2 DEF Import, LinkIsTheReport
  <2>11. Counted'
    BY <1>6 DEF Import, Counted, StatusCountsItsFailure
  <2> QED
    BY <2>6, <2>9, <2>10, <2>11
<1>7. ASSUME NEW r \in Reports, Refuse(r) PROVE IInv'
  BY <1>7 DEF Refuse, Shape, Answered, LinkIsTheReport, OneTestPerBlock, Counted,
              StatusCountsItsFailure, Noted, Mentioned
<1>8. CASE ReadSubmitted
  BY <1>8 DEF ReadSubmitted, Shape, Answered, LinkIsTheReport, OneTestPerBlock, Counted,
              StatusCountsItsFailure, Noted, Mentioned
<1>9. CASE ReadFailed
  BY <1>9 DEF ReadFailed, Shape, Answered, LinkIsTheReport, OneTestPerBlock, Counted,
              StatusCountsItsFailure, Noted, Mentioned
<1>10. CASE UNCHANGED dojoVars
  BY <1>10 DEF dojoVars, Shape, Answered, LinkIsTheReport, OneTestPerBlock, Counted,
              StatusCountsItsFailure, Noted, Mentioned
<1> QED
  BY <1>1, <1>2, <1>3, <1>4, <1>5, <1>6, <1>7, <1>8, <1>9, <1>10 DEF DojoNext

\* The URL of a denial names the Test of this very block, however many blocks
\* are reported at once and whatever DefectDojo answers.
THEOREM LinksAreReports == DojoSpec => []LinkIsTheReport
<1>1. IInv => LinkIsTheReport
  BY DEF IInv
<1> QED
  BY InitIInv, NextIInv, <1>1, PTL DEF DojoSpec

\* No block ever has two Tests: submit makes one attempt.
THEOREM BlocksHaveOneTest == DojoSpec => []OneTestPerBlock
<1>1. IInv => OneTestPerBlock
  BY DEF IInv, Answered
<1> QED
  BY InitIInv, NextIInv, <1>1, PTL DEF DojoSpec

\* A status that shows a failure's category has counted a failure, because
\* record_failure counts before it writes and status loads the counter last.
THEOREM StatusesCount == DojoSpec => []StatusCountsItsFailure
<1>1. IInv => StatusCountsItsFailure
  BY DEF IInv, Counted
<1> QED
  BY InitIInv, NextIInv, <1>1, PTL DEF DojoSpec

\* DefectDojo keeps what GenericReport::from made of the block.
Written == \A n \in DOMAIN tests : tests[n].findings = Findings(tests[n].report)

\* A Test is written once, from the findings of its report.
LEMMA NextWritten == IInv /\ Written /\ [DojoNext]_dojoVars => Written'
<1> SUFFICES ASSUME IInv, Written, [DojoNext]_dojoVars PROVE Written'
  OBVIOUS
<1>1. block' = block
  BY DEF DojoNext, dojoVars, Submit, Created, Fails, NoteFailure, Cancel, Import, Refuse,
         ReadSubmitted, ReadFailed
<1>3. ASSUME NEW r \in Reports, Import(r) PROVE Written'
  <2> DEFINE test == [report |-> r, findings |-> Findings(r)]
  <2>1. test \in Tests
    BY FindingsAreFindings DEF Tests, IInv, Shape
  <2>2. /\ tests'[Len(tests')] = test
        /\ \A n \in DOMAIN tests : tests'[n] = tests[n]
        /\ DOMAIN tests' = DOMAIN tests \cup {Len(tests')}
    BY <1>3, <2>1 DEF Import, IInv, Shape
  <2>3. \A n \in DOMAIN tests' : tests'[n].findings = Findings(tests'[n].report)
    <3> SUFFICES ASSUME NEW n \in DOMAIN tests'
                 PROVE  tests'[n].findings = Findings(tests'[n].report)
      OBVIOUS
    <3>1. CASE n \in DOMAIN tests
      BY <2>2, <3>1, Zenon DEF Written
    <3>2. CASE n = Len(tests')
      BY <2>2, <3>2
    <3> QED
      BY <2>2, <3>1, <3>2
  <2> QED
    BY <1>1, <2>3, Zenon DEF Written, Findings, VulnerabilityIdentity, PolicyIdentity
<1>4. CASE tests' = tests
  BY <1>1, <1>4, Zenon DEF Written, Findings, VulnerabilityIdentity, PolicyIdentity
<1> QED
  BY <1>3, <1>4 DEF DojoNext, dojoVars, Submit, Created, Fails, NoteFailure, Cancel, Refuse,
         ReadSubmitted, ReadFailed

\* Two reports share the findings of the vulnerabilities they have in common on
\* one target, and nothing else.
LEMMA SharedFindings ==
    ASSUME IInv, NEW r \in Reports, NEW q \in Reports, r # q
    PROVE  Cardinality(Findings(r) \cap Findings(q)) =
              Cardinality(IF block[r].target = block[q].target
                          THEN block[r].vulns \cap block[q].vulns ELSE {})
<1> DEFINE common == IF block[r].target = block[q].target
                     THEN block[r].vulns \cap block[q].vulns ELSE {}
           shared == Findings(r) \cap Findings(q)
           f == [v \in common |-> <<"vulnerability", block[r].target, v>>]
<1>1. ASSUME NEW w \in shared
      PROVE  \E v \in common : w = f[v]
  <2>1. block[r].vulns # {} /\ block[q].vulns # {}
    <3>1. \A v : VulnerabilityIdentity(r, v) # PolicyIdentity(q)
      BY DEF VulnerabilityIdentity, PolicyIdentity
    <3>2. \A v : VulnerabilityIdentity(q, v) # PolicyIdentity(r)
      BY DEF VulnerabilityIdentity, PolicyIdentity
    <3>3. PolicyIdentity(r) # PolicyIdentity(q)
      BY DEF PolicyIdentity
    <3> QED
      BY <3>1, <3>2, <3>3 DEF Findings
  <2>2. PICK v \in block[r].vulns : w = VulnerabilityIdentity(r, v)
    BY <2>1 DEF Findings
  <2>3. PICK u \in block[q].vulns : w = VulnerabilityIdentity(q, u)
    BY <2>1 DEF Findings
  <2>4. v = u /\ block[r].target = block[q].target
    BY <2>2, <2>3 DEF VulnerabilityIdentity
  <2> QED
    BY <2>2, <2>3, <2>4 DEF VulnerabilityIdentity
<1>2. ASSUME NEW v \in common
      PROVE  f[v] \in shared
  <2>1. v \in block[r].vulns /\ v \in block[q].vulns /\ block[r].target = block[q].target
    OBVIOUS
  <2>2. f[v] = VulnerabilityIdentity(r, v) /\ f[v] = VulnerabilityIdentity(q, v)
    BY <2>1 DEF VulnerabilityIdentity
  <2> QED
    BY <2>1, <2>2 DEF Findings
<1>3. \A u, v \in common : f[u] = f[v] => u = v
  OBVIOUS
<1>4. IsFiniteSet(common)
  <2>1. common \subseteq VulnIds
    BY DEF IInv, Shape, Blocks
  <2> QED
    BY <2>1, VulnsAssumption, FS_Subset
<1>5. f \in [common -> shared]
  BY <1>2
<1> HIDE DEF shared
<1>6. f \in Bijection(common, shared)
  <2>1. DOMAIN f = common
    OBVIOUS
  <2> HIDE DEF f, common
  <2> QED
    BY <1>1, <1>3, <1>5, <2>1 DEF Bijection, Injection, Surjection, IsInjective
<1>7. ExistsBijection(common, shared)
  BY <1>6 DEF ExistsBijection
<1> HIDE DEF common
<1> QED
  BY <1>4, <1>7, FS_Bijection DEF common, shared

\* Two Tests share a finding exactly where it is the same piece of work.
THEOREM FindingsAreShared == DojoSpec => []FindingsAreWork
<1>1. DojoInit => Written
  BY DEF DojoInit, Written
<1>2. IInv /\ Written => FindingsAreWork
  <2> SUFFICES ASSUME IInv, Written, NEW m \in DOMAIN tests, NEW n \in DOMAIN tests
               PROVE  /\ tests[m].findings # {}
                      /\ m # n => Cardinality(tests[m].findings \cap tests[n].findings) =
                            Cardinality(IF block[tests[m].report].target = block[tests[n].report].target
                                        THEN block[tests[m].report].vulns
                                               \cap block[tests[n].report].vulns
                                        ELSE {})
    BY Zenon DEF FindingsAreWork
  <2>1. /\ tests[m].report \in Reports /\ tests[n].report \in Reports
        /\ tests[m].findings = Findings(tests[m].report)
        /\ tests[n].findings = Findings(tests[n].report)
    <3>1. tests[m] \in Tests /\ tests[n] \in Tests
      BY DEF IInv, Shape
    <3> QED
      BY <3>1, Zenon DEF Tests, Written
  <2>2. Findings(tests[m].report) # {}
    BY DEF Findings
  <2>3. m # n => tests[m].report # tests[n].report
    BY DEF IInv, Answered, OneTestPerBlock
  <2> QED
    BY <2>1, <2>2, <2>3, SharedFindings
<1> QED
  BY InitIInv, NextIInv, NextWritten, <1>1, <1>2, PTL DEF DojoSpec
==============================================================================
