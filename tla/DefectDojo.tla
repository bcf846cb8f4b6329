----------------------------- MODULE DefectDojo ------------------------------
(***************************************************************************)
(* Trust Reports kept by DefectDojo: every enforced block submits its      *)
(* report with one POST, without a retry, while other blocks do the same,  *)
(* the request or its reply gets lost, the client hangs up, and an         *)
(* administrator reads the delivery counters.                              *)
(*                                                                         *)
(* Encoding a report cannot fail (strings, and a constant MIME type), so   *)
(* the category report_encoding never occurs.                              *)
(***************************************************************************)
EXTENDS Naturals, Sequences, FiniteSets

CONSTANTS
    Reports,     \* submissions; each one has a new report UUID
    Targets,     \* blocked targets (repository, namespace, identifier, version)
    VulnIds,     \* primary vulnerability ids
    NoCategory   \* last_failure_category while it is None

ASSUME VulnsAssumption == IsFiniteSet(VulnIds)

VARIABLES
    block,       \* the block each report is about: [target, vulns]
    pc,          \* where each submit call is
    wire,        \* what DefectDojo has done with the request of the call
    reply,       \* its answer
    link,        \* the Test the returned URL names, as a set of at most one
    tests,       \* DefectDojo: the Tests, in the order of their ids
    submitted,   \* DeliveryStatus.submitted
    failed,      \* DeliveryStatus.failed
    category,    \* LastDelivery.last_failure_category
    reader       \* the call of status() and what it has loaded

dojoVars == <<block, pc, wire, reply, link, tests, submitted, failed, category, reader>>

Blocks == [target : Targets, vulns : SUBSET VulnIds]
NoReply == [success |-> FALSE, test_id |-> {}, test |-> {}]

DojoInit ==
    /\ block \in [Reports -> Blocks]
    /\ pc = [r \in Reports |-> "idle"]
    /\ wire = [r \in Reports |-> "unsent"]
    /\ reply = [r \in Reports |-> NoReply]
    /\ link = [r \in Reports |-> {}]
    /\ tests = <<>>
    /\ submitted = 0
    /\ failed = 0
    /\ category = NoCategory
    /\ reader = [at |-> "idle", submitted |-> 0, failed |-> 0, category |-> NoCategory]
------------------------------------------------------------------------------
(* The report that is sent.  A finding is known by unique_id_from_tool,     *)
(* here the tuple the UUIDv5 is computed from.                              *)

\* Mutant: the target is left out of what is hashed.
IdentityOfVulnerability(r, v) == <<"vulnerability", v>>

\* vulnerability_identity: it does not depend on the report.
VulnerabilityIdentity(r, v) == <<"vulnerability", block[r].target, v>>

\* GenericFinding::policy: it does.
PolicyIdentity(r) == <<"policy", r>>

\* GenericReport::from.
Findings(r) ==
    IF block[r].vulns = {}
    THEN {PolicyIdentity(r)}
    ELSE {VulnerabilityIdentity(r, v) : v \in block[r].vulns}
------------------------------------------------------------------------------
(* submit and submit_inner.                                                 *)

Submit(r) ==
    /\ pc[r] = "idle"
    /\ submitted' = submitted + 1
    /\ pc' = [pc EXCEPT ![r] = "sent"]
    /\ wire' = [wire EXCEPT ![r] = "sent"]
    /\ UNCHANGED <<block, reply, link, tests, failed, category, reader>>

\* Mutant: the first of the two fields is believed whatever it says.
NamedUnfiltered(answer) ==
    IF answer.test_id # {} THEN answer.test_id ELSE answer.test

\* test_id, else test, if it is positive.
Named(answer) ==
    {n \in (IF answer.test_id # {} THEN answer.test_id ELSE answer.test) : n > 0}

\* A success that names the Test.
Created(r) ==
    /\ pc[r] = "sent"
    /\ reply[r].success
    /\ Named(reply[r]) # {}
    /\ link' = [link EXCEPT ![r] = Named(reply[r])]
    /\ reader.at # "locked"                             \* record_success
    /\ pc' = [pc EXCEPT ![r] = "created"]
    /\ UNCHANGED <<block, wire, reply, tests, submitted, failed, category, reader>>

\* How the attempt can fail: no answer before the timeout, or a transport
\* error, at any time; an error status; a success that cannot be read to its
\* end, is not JSON or names no Test.
Failures(r) ==
    {"timeout", "transport"} \cup
    (IF wire[r] # "answered" THEN {}
     ELSE IF reply[r].success THEN {"invalid_response"} ELSE {"rejected"})

\* Mutant: the category is written before the failure is counted.
FailsBeforeCounted(r) ==
    \/ /\ pc[r] = "sent"
       /\ reader.at # "locked"
       /\ category' \in Failures(r)
       /\ pc' = [pc EXCEPT ![r] = "uncounted"]
       /\ UNCHANGED <<block, wire, reply, link, tests, submitted, failed, reader>>
    \/ /\ pc[r] = "uncounted"
       /\ failed' = failed + 1
       /\ pc' = [pc EXCEPT ![r] = "failed"]
       /\ UNCHANGED <<block, wire, reply, link, tests, submitted, category, reader>>

\* record_failure counts first ...
Fails(r) ==
    /\ pc[r] = "sent"
    /\ failed' = failed + 1
    /\ \E c \in Failures(r) : pc' = [pc EXCEPT ![r] = c]
    /\ UNCHANGED <<block, wire, reply, link, tests, submitted, category, reader>>

\* Mutant: another attempt after a timeout.
NoteFailureAndRetry(r) ==
    /\ pc[r] \in {"timeout", "transport", "rejected", "invalid_response"}
    /\ reader.at # "locked"
    /\ category' = pc[r]
    /\ pc' = [pc EXCEPT ![r] = IF pc[r] = "timeout" THEN "sent" ELSE "failed"]
    /\ wire' = [wire EXCEPT ![r] = IF pc[r] = "timeout" THEN "sent" ELSE wire[r]]
    /\ UNCHANGED <<block, reply, link, tests, submitted, failed, reader>>

\* ... and then, under the mutex, writes the category.  The error reaches
\* create_trust_report: there is no second attempt and no local report.
NoteFailure(r) ==
    /\ pc[r] \in {"timeout", "transport", "rejected", "invalid_response"}
    /\ reader.at # "locked"
    /\ category' = pc[r]
    /\ pc' = [pc EXCEPT ![r] = "failed"]
    /\ UNCHANGED <<block, wire, reply, link, tests, submitted, failed, reader>>

\* The client hangs up and the future is dropped at one of its awaits.  What
\* was sent stays sent.
Cancel(r) ==
    /\ pc[r] = "sent"
    /\ pc' = [pc EXCEPT ![r] = "gone"]
    /\ UNCHANGED <<block, wire, reply, link, tests, submitted, failed, category, reader>>
------------------------------------------------------------------------------
(* status, for the admin page: it holds the mutex of last and loads the two *)
(* atomic counters one after the other.                                     *)

ReadSubmitted ==
    /\ reader.at = "idle"
    /\ reader' = [reader EXCEPT !.at = "locked", !.submitted = submitted]
    /\ UNCHANGED <<block, pc, wire, reply, link, tests, submitted, failed, category>>

ReadFailed ==
    /\ reader.at = "locked"
    /\ reader' = [reader EXCEPT !.at = "idle", !.failed = failed, !.category = category]
    /\ UNCHANGED <<block, pc, wire, reply, link, tests, submitted, failed, category>>
------------------------------------------------------------------------------
(* DefectDojo, which may get to a request after its sender gave up, or      *)
(* never: a lost request.                                                   *)

\* The synchronous import makes one Test, and the answer names it in one of
\* two fields, or in none.
Import(r) ==
    /\ wire[r] = "sent"
    /\ tests' = Append(tests, [report |-> r, findings |-> Findings(r)])
    /\ wire' = [wire EXCEPT ![r] = "answered"]
    /\ \E t \in {{}, {0}, {Len(tests')}}, u \in {{}, {Len(tests')}} :
          reply' = [reply EXCEPT ![r] = [success |-> TRUE, test_id |-> t, test |-> u]]
    /\ UNCHANGED <<block, pc, link, submitted, failed, category, reader>>

Refuse(r) ==
    /\ wire[r] = "sent"
    /\ wire' = [wire EXCEPT ![r] = "answered"]
    /\ UNCHANGED <<block, pc, reply, link, tests, submitted, failed, category, reader>>

------------------------------------------------------------------------------
DojoNext ==
    \/ \E r \in Reports :
          \/ Submit(r) \/ Created(r) \/ Fails(r) \/ NoteFailure(r) \/ Cancel(r)
          \/ Import(r) \/ Refuse(r)
    \/ ReadSubmitted \/ ReadFailed

DojoSpec == DojoInit /\ [][DojoNext]_dojoVars
------------------------------------------------------------------------------
(* Properties.                                                              *)

\* The URL in the denial names a Test that exists and tells of this block and
\* of no other, whatever else DefectDojo was sent meanwhile
\* (docs/defectdojo-integration-plan.md:134-136).
LinkIsTheReport ==
    \A r \in Reports : \A n \in link[r] :
        /\ n \in DOMAIN tests
        /\ tests[n].report = r

\* However the attempt ends, also when DefectDojo comes to it after the
\* timeout, a block has at most one Test
\* (docs/adr/0012-defectdojo-health-is-request-scoped.md:3).
OneTestPerBlock ==
    \A m, n \in DOMAIN tests : tests[m].report = tests[n].report => m = n

\* Every Test says something, and findings are one piece of work exactly where
\* they should be: two Tests share one only for a vulnerability of the same
\* target, and then they do; a policy finding is never shared
\* (docs/defectdojo-integration-plan.md:126-132).
FindingsAreWork ==
    \A m, n \in DOMAIN tests :
        LET b == block[tests[m].report]
            c == block[tests[n].report]
            common == IF b.target = c.target THEN b.vulns \cap c.vulns ELSE {}
        IN  /\ tests[m].findings # {}
            /\ m # n => Cardinality(tests[m].findings \cap tests[n].findings)
                           = Cardinality(common)

\* A status that shows the category of a failure has counted that failure,
\* though the counters are read apart from one another and without the mutex
\* on the writers' side (README.md:445-446).
StatusCountsItsFailure ==
    reader.at = "idle" /\ reader.category # NoCategory => reader.failed > 0
==============================================================================
