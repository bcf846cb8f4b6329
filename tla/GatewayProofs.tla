---------------------------- MODULE GatewayProofs ----------------------------
(* What holds of Gateway for every value of its constants.                 *)
EXTENDS Gateway, FiniteSetTheorems, TLAPS

USE DEF cacheVars, requestVars, blockVars, worldVars, scannerVars

\* Where a request can wait, given what it asks for, and what it then has in
\* hand.  TypeOK needs this: a scan looks at bytes that were fetched before.
Flow ==
    \A r \in Requests :
        LET kind == Kind[target[r]] IN
        /\ pc[r] = "idle" => body[r] = NoBody
        /\ pc[r] = "fetch" => kind = "image"
        /\ pc[r] = "osv" => kind = "package"
        /\ pc[r] = "prefetch" => kind = "helm"
        /\ pc[r] \in {"permit", "render", "scan"} => kind \in {"helm", "image"}
        /\ pc[r] \in {"render", "scan"} => body[r] # NoBody
        /\ pc[r] \in {"get_vulnerable", "get_clean", "permit"} =>
              (kind = "image") = (body[r] # NoBody)
        /\ pc[r] \in {"get_vulnerable", "get_clean", "put_invalidate",
                      "put_insert", "evaluate"} => kind \in {"package", "helm", "image"}

\* BlockIsFinal, strengthened: a blocked request is past every point from
\* which something could be released, only a finished one has an answer, and
\* of a package Nexus is asked to verify the requester or to serve it.
BlockInv ==
    \A r \in Requests :
        /\ pc[r] # "done" => response[r] = "none"
        /\ pc[r] = "idle" => r \notin contacted
        /\ (Kind[target[r]] = "package" /\ r \in contacted) =>
              \/ auth[r] = "basic"
              \/ pc[r] = "done" /\ verdict[r] \notin {"Blocked", "Unsupported"}
        /\ verdict[r] \in {"Blocked", "Unsupported"} =>
              /\ pc[r] \in {"verify", "report", "recipient", "done", "gone"}
              /\ response[r] \notin {"buffered", "index", "forwarded"}

\* BlockSequence, strengthened: how far the sequence has come at each point,
SequenceInv ==
    \A r \in Requests :
        /\ pc[r] \in {"verify", "report", "recipient"} =>
              verdict[r] \in {"Blocked", "Unsupported"}
        /\ pc[r] \in {"report", "recipient"} =>
              (auth[r] = "basic" => r \in verified)
        /\ pc[r] = "recipient" => r \in reports
        /\ pc[r] # "done" => response[r] = "none"
        /\ response[r] = "forbidden" => r \in reports
        /\ r \in reports =>
              /\ pc[r] \in {"recipient", "done", "gone"}
              /\ auth[r] = "basic" => r \in verified
        /\ r \in notified => pc[r] = "done" /\ r \in reports /\ auth[r] # "none"

\* and a request is in the log only once it is past its verdict.
PastVerdict == {"forward", "recipient", "done", "gone"}

Justified(outcome, r) ==
    \/ outcome = "ReportOnly" /\ verdict[r] = "ReportOnly"
    \/ /\ outcome = "Blocked" /\ r \in reports
       /\ verdict[r] \in {"Blocked", "Unsupported"}

LogInv ==
    /\ \A i, j \in DOMAIN log : log[i].request = log[j].request => i = j
    /\ \A i \in DOMAIN log :
          /\ pc[log[i].request] \in PastVerdict
          /\ Justified(log[i].outcome, log[i].request)

\* A step leaves what the log says about q alone.
LogFrame(q) ==
    pc[q] \in PastVerdict =>
        /\ pc'[q] \in PastVerdict /\ verdict'[q] = verdict[q]
        /\ q \in reports => q \in reports'

\* The subjects a request's findings can be about: a chart served from the
\* cache has been scanned in some version, the others have been looked at.
Subjects(r) ==
    CASE Kind[target[r]] = "package" -> {target[r]}
      [] Kind[target[r]] = "helm" /\ body[r] = NoBody -> Contents
      [] OTHER -> {body[r]} \ {NoBody}

Supported(r) == \E s \in Subjects(r), d \in 0..db : findings[r] = Truth[d][s]

\* Findings in hand are evidence about the target, and the policy that will
\* judge them is one that was active since they were obtained.
Judging == {"put_invalidate", "put_insert", "evaluate"}

InHand(r) ==
    /\ pc[r] \in Judging =>
          /\ policy \in since[r]
          /\ (Kind[target[r]] = "helm" /\ config.fail_open) \/ Supported(r)
    /\ (pc[r] \in {"put_invalidate", "put_insert"} /\ Kind[target[r]] # "package")
          => body[r] # NoBody
    /\ Kind[target[r]] = "package" => body[r] = NoBody

EvidenceInv == CacheIsEvidence /\ \A r \in Requests : InHand(r)

\* A step takes q away from its findings, or leaves both as they are.
HandFrame(q) ==
    \/ /\ pc'[q] \notin Judging
       /\ Kind[target'[q]] = "package" => body'[q] = NoBody
    \/ /\ pc[q] \in Judging
       /\ pc[q] = "evaluate" => pc'[q] = "evaluate"
       /\ target'[q] = target[q] /\ body'[q] = body[q] /\ findings'[q] = findings[q]
       /\ policy \in since[q] => policy' \in since'[q]

\* ReleaseIsJudged, strengthened to the requests that are being forwarded.
Closed == ~config.fail_open /\ config.unsupported = "block"

ReleaseOK(r) ==
    /\ pc[r] # "done" => response[r] = "none"
    /\ response[r] = "buffered" => Judged(r, body[r])
    /\ ((pc[r] = "forward" \/ response[r] = "forwarded") /\ method[r] # "PUT")
          => ForwardJudged(r)

ReleaseInv == Closed => \A r \in Requests : ReleaseOK(r)

\* A step releases nothing of q, or leaves alone what q's release rests on.
ReleaseFrame(q) ==
    /\ pc'[q] # "done" => response'[q] = "none"
    /\ \/ pc'[q] # "forward" /\ response'[q] \notin {"buffered", "forwarded"}
       \/ /\ since'[q] = since[q] /\ target'[q] = target[q] /\ method'[q] = method[q]
          /\ response'[q] = "buffered" => response[q] = "buffered" /\ body'[q] = body[q]
          /\ (pc'[q] = "forward" \/ response'[q] = "forwarded") =>
                (pc[q] = "forward" \/ response[q] = "forwarded")

\* proxy_handler sends a request to a call it waits for, or answers it.
LEMMA RouteType ==
    ASSUME NEW kind \in Kinds, NEW verb \in Verbs,
           NEW ranged \in BOOLEAN, NEW known \in BOOLEAN
    PROVE  Route(kind, verb, ranged, known) \in Waiting \cup Answers
BY DEF Kinds, Verbs, Route, DockerRoute, ArtifactRoute, Waiting, Answers

\* Where a routed request waits fits the kind of its target.
LEMMA RouteFlow ==
    ASSUME NEW kind \in Kinds, NEW verb \in Verbs,
           NEW ranged \in BOOLEAN, NEW known \in BOOLEAN,
           Route(kind, verb, ranged, known) \notin Answers
    PROVE  \/ Route(kind, verb, ranged, known) \in {"forward", "unsupported"}
           \/ Route(kind, verb, ranged, known) = "fetch" /\ kind = "image"
           \/ Route(kind, verb, ranged, known) = "get_vulnerable" /\ kind \in {"package", "helm"}
BY DEF Kinds, Verbs, Route, DockerRoute, ArtifactRoute, Answers

\* A decision log stays a sequence of decisions of bounded length.
LEMMA PushedType ==
    ASSUME NEW S, NEW seq \in Seq(S), NEW entry \in S
    PROVE  Pushed(seq, entry) \in Seq(S)
<1> DEFINE longer == <<entry>> \o seq
<1>1. longer \in Seq(S)
  OBVIOUS
<1>2. ASSUME Len(longer) > LogCapacity
      PROVE  SubSeq(longer, 1, LogCapacity) \in Seq(S)
  BY <1>1, <1>2, GatewayAssumptions
<1> QED
  BY <1>1, <1>2 DEF Pushed

\* artifact_cache_key and its siblings stay within the keys of the cache.
LEMMA CacheKeyType ==
    ASSUME TypeOK, NEW r \in Requests
    PROVE  CacheKey(r) \in CacheKeys
BY DEF TypeOK, CacheKey, CacheKeys

\* A handler that goes on keeps the types of pc and response.
LEMMA ContinueType ==
    ASSUME TypeOK, NEW r \in Requests, NEW label \in Waiting, Continue(r, label)
    PROVE  /\ pc' \in [Requests -> Waiting \cup {"idle", "done", "gone"}]
           /\ response' \in [Requests -> Answers \cup {"none"}]
BY DEF TypeOK, Continue

\* A handler that answers keeps the types of pc and response.
LEMMA AnswerType ==
    ASSUME TypeOK, NEW r \in Requests, NEW answer \in Answers, Answer(r, answer)
    PROVE  /\ pc' \in [Requests -> Waiting \cup {"idle", "done", "gone"}]
           /\ response' \in [Requests -> Answers \cup {"none"}]
BY DEF TypeOK, Answer

\* A handler that obtains vulnerability lists keeps the types of its locals.
LEMMA ObtainType ==
    ASSUME TypeOK, NEW r \in Requests, NEW scan \in Scans, Obtain(r, scan)
    PROVE  /\ findings' \in [Requests -> Scans]
           /\ since' \in [Requests -> SUBSET Policies]
           /\ UNCHANGED <<target, method, auth, verdict>>
BY DEF TypeOK, Obtain

\* What the databases say of a request's target is a set of vulnerabilities.
LEMMA TruthType ==
    ASSUME TypeOK, NEW r \in Requests, body[r] # NoBody \/ Kind[target[r]] = "package"
    PROVE  Truth[db][Subject(r)] \in Scans
BY GatewayAssumptions DEF TypeOK, Subject

\* The first half of put keeps the types of both cache tiers.
LEMMA PutInsertType ==
    ASSUME NEW key \in CacheKeys, NEW scan \in Scans, PutInsert(key, scan),
           clean \in [CacheKeys -> SUBSET Scans],
           vulnerable \in [CacheKeys -> SUBSET Scans]
    PROVE  /\ clean' \in [CacheKeys -> SUBSET Scans]
           /\ vulnerable' \in [CacheKeys -> SUBSET Scans]
<1>1. {scan} \in SUBSET Scans
  OBVIOUS
<1> QED
  BY <1>1 DEF PutInsert

\* A cache hit keeps the type invariant.
LEMMA CacheHitType ==
    ASSUME TypeOK, NEW r \in Requests,
           NEW tier \in [CacheKeys -> SUBSET Scans], CacheHit(r, tier)
    PROVE  TypeOK'
<1>1. PICK scan \in tier[CacheKey(r)] : Obtain(r, scan)
  BY DEF CacheHit
<1>2. scan \in Scans
  BY <1>1, CacheKeyType
<1>3. "evaluate" \in Waiting /\ Continue(r, "evaluate")
  BY DEF CacheHit, Waiting
<1> QED
  BY <1>1, <1>2, <1>3, ObtainType, ContinueType DEF CacheHit, TypeOK

\* Every step of a handler, of the renderer or of the world keeps the types.
LEMMA TypeStep == TypeOK /\ Flow /\ [Next]_vars => TypeOK'
<1> SUFFICES ASSUME TypeOK, Flow, [Next]_vars PROVE TypeOK'
  OBVIOUS
<1> USE GatewayAssumptions DEF TypeOK, Waiting, Answers
<1>1. ASSUME NEW r \in Requests, NEW t \in Targets, NEW verb \in Verbs,
             NEW ranged \in BOOLEAN, NEW known \in BOOLEAN,
             Arrive(r, t, verb, ranged, known)
      PROVE  TypeOK'
  <2>1. Route(Kind[t], verb, ranged, known) \in Waiting \cup Answers
    BY RouteType
  <2>2. auth' \in [Requests -> {"none", "basic", "bearer"}]
    BY <1>1 DEF Arrive, Credentials
  <2> QED
    BY <1>1, <2>1, <2>2, AnswerType, ContinueType DEF Arrive
<1>2. ASSUME NEW r \in Requests, GetVulnerable(r) PROVE TypeOK'
  <2>1. CASE CacheHit(r, vulnerable)
    BY <2>1, CacheHitType DEF CacheKeys
  <2>2. CASE CacheMiss(r, vulnerable, "get_clean")
    BY <2>2, ContinueType DEF CacheMiss
  <2> QED
    BY <1>2, <2>1, <2>2 DEF GetVulnerable
<1>3. ASSUME NEW r \in Requests, GetClean(r) PROVE TypeOK'
  <2>1. CASE CacheHit(r, clean)
    BY <2>1, CacheHitType
  <2>2. CASE \E label \in {"osv", "permit"} : CacheMiss(r, clean, label)
    BY <2>2, ContinueType DEF CacheMiss
  <2> QED
    BY <1>3, <2>1, <2>2 DEF GetClean
<1>4. ASSUME NEW r \in Requests, PutCacheInvalidate(r) PROVE TypeOK'
  BY <1>4, ContinueType, CacheKeyType DEF PutCacheInvalidate, PutInvalidate
<1>5. ASSUME NEW r \in Requests, PutCacheInsert(r) PROVE TypeOK'
  <2>1. /\ clean' \in [CacheKeys -> SUBSET Scans]
        /\ vulnerable' \in [CacheKeys -> SUBSET Scans]
    BY <1>5, CacheKeyType, PutInsertType DEF PutCacheInsert
  <2> QED
    BY <1>5, <2>1, ContinueType DEF PutCacheInsert
<1>6. ASSUME NEW r \in Requests, OsvAnswers(r) PROVE TypeOK'
  BY <1>6, ContinueType, ObtainType, TruthType DEF OsvAnswers, Flow
<1>7. ASSUME NEW r \in Requests, OsvFails(r) PROVE TypeOK'
  BY <1>7, ContinueType, AnswerType DEF OsvFails
<1>8. ASSUME NEW r \in Requests, FetchManifest(r) PROVE TypeOK'
  BY <1>8, ContinueType DEF FetchManifest, Fetched, Flow, Stored
<1>9. ASSUME NEW r \in Requests, FetchIndex(r) PROVE TypeOK'
  BY <1>9, AnswerType DEF FetchIndex, Fetched, Flow, Stored
<1>10. ASSUME NEW r \in Requests, FetchUnusable(r) PROVE TypeOK'
  BY <1>10, AnswerType DEF FetchUnusable, Fetched, Flow, Stored
<1>11. ASSUME NEW r \in Requests, FetchFails(r) PROVE TypeOK'
  BY <1>11, ContinueType, AnswerType DEF FetchFails
<1>12. ASSUME NEW r \in Requests, AcquirePermit(r) PROVE TypeOK'
  BY <1>12, ContinueType DEF AcquirePermit
<1>13. ASSUME NEW r \in Requests, PrefetchCompletes(r) PROVE TypeOK'
  BY <1>13, ContinueType DEF PrefetchCompletes, Flow, Stored
<1>14. ASSUME NEW r \in Requests, PrefetchTooLarge(r) PROVE TypeOK'
  <2>1. body' \in [Requests -> Contents \cup {NoBody}]
    BY <1>14 DEF PrefetchTooLarge, Flow, Stored
  <2> QED
    BY <1>14, <2>1, ContinueType DEF PrefetchTooLarge, DropPermit
<1>15. ASSUME NEW r \in Requests, PrefetchFails(r) PROVE TypeOK'
  BY <1>15, ContinueType, AnswerType DEF PrefetchFails, DropPermit
<1>16. ASSUME NEW r \in Requests, RenderChart(r) PROVE TypeOK'
  BY <1>16, ContinueType DEF RenderChart
<1>17. ASSUME NEW r \in Requests, RenderNoImages(r) PROVE TypeOK'
  BY <1>17, ContinueType, ObtainType DEF RenderNoImages, ScanReports, DropPermit, Scans
<1>18. ASSUME NEW r \in Requests, ScanSucceeds(r) PROVE TypeOK'
  <2>1. Truth[db][Subject(r)] \in Scans
    BY <1>18, TruthType DEF ScanSucceeds, Flow
  <2> QED
    BY <1>18, <2>1, ContinueType, ObtainType DEF ScanSucceeds, ScanReports, DropPermit
<1>19. ASSUME NEW r \in Requests, ScanPartial(r) PROVE TypeOK'
  BY <1>19, ContinueType, ObtainType, TruthType DEF ScanPartial, ScanReports, DropPermit, Flow, Scans
<1>20. ASSUME NEW r \in Requests, ScanFails(r) PROVE TypeOK'
  BY <1>20, AnswerType DEF ScanFails, ScanGivesUp, DropPermit
<1>21. ASSUME NEW r \in Requests, ScanTimesOut(r) PROVE TypeOK'
  BY <1>21, AnswerType DEF ScanTimesOut, ScanGivesUp, DropPermit
<1>22. ASSUME NEW r \in Requests, ScannerExits(r) PROVE TypeOK'
  BY <1>22 DEF ScannerExits
<1>23. ASSUME NEW r \in Requests, EvaluatePolicy(r) PROVE TypeOK'
  <2> DEFINE outcome == Outcome(policy, target[r], findings[r])
  <2>1. outcome \in Outcomes
    OBVIOUS
  <2>2. verdict' \in [Requests -> Outcomes \cup {"none", "Unsupported"}]
    BY <1>23, <2>1 DEF EvaluatePolicy
  <2>3. log' \in Seq([request : Requests, outcome : Outcomes])
    <3>1. [request |-> r, outcome |-> outcome] \in [request : Requests, outcome : Outcomes]
      BY <2>1
    <3>2. Pushed(log, [request |-> r, outcome |-> outcome])
             \in Seq([request : Requests, outcome : Outcomes])
      BY <3>1, PushedType
    <3> QED
      BY <1>23, <3>2 DEF EvaluatePolicy, RecordDecision
  <2>4. /\ pc' \in [Requests -> Waiting \cup {"idle", "done", "gone"}]
        /\ response' \in [Requests -> Answers \cup {"none"}]
    BY <1>23, ContinueType, AnswerType DEF EvaluatePolicy, Release
  <2> QED
    BY <1>23, <2>2, <2>3, <2>4 DEF EvaluatePolicy
<1>24. ASSUME NEW r \in Requests, UnsupportedTarget(r) PROVE TypeOK'
  BY <1>24, ContinueType, AnswerType DEF UnsupportedTarget
<1>25. ASSUME NEW r \in Requests, VerifySkipped(r) PROVE TypeOK'
  BY <1>25, ContinueType DEF VerifySkipped
<1>26. ASSUME NEW r \in Requests, VerifyAccepted(r) PROVE TypeOK'
  BY <1>26, ContinueType DEF VerifyAccepted
<1>27. ASSUME NEW r \in Requests, VerifyRefused(r) PROVE TypeOK'
  BY <1>27, AnswerType DEF VerifyRefused
<1>28. ASSUME NEW r \in Requests, ReportCreated(r) PROVE TypeOK'
  BY <1>28, ContinueType, PushedType DEF ReportCreated, RecordDecision, Outcomes
<1>29. ASSUME NEW r \in Requests, ReportFails(r) PROVE TypeOK'
  BY <1>29, AnswerType DEF ReportFails
<1>30. ASSUME NEW r \in Requests, NotifyAndForbid(r) PROVE TypeOK'
  BY <1>30, AnswerType DEF NotifyAndForbid
<1>31. ASSUME NEW r \in Requests, Forward(r) PROVE TypeOK'
  <2>1. body' \in [Requests -> Contents \cup {NoBody}]
    <3>1. CASE body' = body
      BY <3>1
    <3>2. CASE /\ target[r] \in Stored
               /\ body' = [body EXCEPT ![r] = upstream[target[r]]]
      BY <3>2
    <3> QED
      BY <1>31, <3>1, <3>2 DEF Forward
  <2>2. \E answer \in Answers : Answer(r, answer)
    BY <1>31 DEF Forward
  <2> QED
    BY <1>31, <2>1, <2>2, AnswerType DEF Forward
<1>32. ASSUME NEW r \in Requests, Disconnect(r) PROVE TypeOK'
  BY <1>32 DEF Disconnect
<1>33. ASSUME NEW p \in Policies, ReloadPolicy(p) PROVE TypeOK'
  BY <1>33 DEF ReloadPolicy
<1>34. CASE UpdateDb
  BY <1>34 DEF UpdateDb
<1>35. ASSUME NEW t \in Stored, NEW c \in Contents, Publish(t, c) PROVE TypeOK'
  BY <1>35 DEF Publish
<1>36. ASSUME NEW k \in CacheKeys, ExpireEntry(k) PROVE TypeOK'
  BY <1>36 DEF ExpireEntry, ExpireClean, ExpireVulnerable
<1>37. CASE UNCHANGED vars
  BY <1>37 DEF vars
<1> HIDE GatewayAssumptions DEF TypeOK, Waiting, Answers
<1> QED
  BY <1>1, <1>2, <1>3, <1>4, <1>5, <1>6, <1>7, <1>8, <1>9, <1>10, <1>11,
     <1>12, <1>13, <1>14, <1>15, <1>16, <1>17, <1>18, <1>19, <1>20, <1>21,
     <1>22, <1>23, <1>24, <1>25, <1>26, <1>27, <1>28, <1>29, <1>30, <1>31,
     <1>32, <1>33, <1>34, <1>35, <1>36, <1>37
     DEF Next, Handle, Render, World

\* Every step keeps handlers of a kind on the path of that kind.
LEMMA FlowStep == TypeOK /\ Flow /\ [Next]_vars => Flow'
<1> SUFFICES ASSUME TypeOK, Flow, [Next]_vars PROVE Flow'
  OBVIOUS
<1> USE GatewayAssumptions DEF TypeOK, Flow
<1>1. ASSUME NEW r \in Requests, NEW t \in Targets, NEW verb \in Verbs,
             NEW ranged \in BOOLEAN, NEW known \in BOOLEAN,
             Arrive(r, t, verb, ranged, known)
      PROVE  Flow'
  <2>1. CASE Route(Kind[t], verb, ranged, known) \in Answers
    BY <1>1, <2>1 DEF Arrive, Answer
  <2>2. CASE Route(Kind[t], verb, ranged, known) \notin Answers
    <3>1. /\ pc'[r] = Route(Kind[t], verb, ranged, known) /\ target'[r] = t
          /\ body'[r] = NoBody
          /\ \A q \in Requests \ {r} :
                pc'[q] = pc[q] /\ target'[q] = target[q] /\ body'[q] = body[q]
      BY <1>1, <2>2 DEF Arrive, Continue
    <3>2. \/ pc'[r] \in {"forward", "unsupported"}
          \/ pc'[r] = "fetch" /\ Kind[target'[r]] = "image"
          \/ pc'[r] = "get_vulnerable" /\ Kind[target'[r]] \in {"package", "helm"}
      BY <2>2, <3>1, RouteFlow
    <3> HIDE DEF TypeOK
    <3> QED
      BY <3>1, <3>2
  <2> QED
    BY <2>1, <2>2
<1>2. ASSUME NEW r \in Requests, GetVulnerable(r) PROVE Flow'
  BY <1>2 DEF GetVulnerable, CacheHit, CacheMiss, Obtain, Continue
<1>3. ASSUME NEW r \in Requests, GetClean(r) PROVE Flow'
  BY <1>3 DEF GetClean, CacheHit, CacheMiss, Obtain, Continue
<1>4. ASSUME NEW r \in Requests, PutCacheInvalidate(r) PROVE Flow'
  BY <1>4 DEF PutCacheInvalidate, Continue
<1>5. ASSUME NEW r \in Requests, PutCacheInsert(r) PROVE Flow'
  BY <1>5 DEF PutCacheInsert, Continue
<1>6. ASSUME NEW r \in Requests, OsvAnswers(r) PROVE Flow'
  BY <1>6 DEF OsvAnswers, Obtain, Continue
<1>7. ASSUME NEW r \in Requests, OsvFails(r) PROVE Flow'
  BY <1>7 DEF OsvFails, Continue, Answer
<1>8. ASSUME NEW r \in Requests, FetchManifest(r) PROVE Flow'
  BY <1>8 DEF FetchManifest, Fetched, Continue, Stored
<1>9. ASSUME NEW r \in Requests, FetchIndex(r) PROVE Flow'
  BY <1>9 DEF FetchIndex, Fetched, Answer
<1>10. ASSUME NEW r \in Requests, FetchUnusable(r) PROVE Flow'
  BY <1>10 DEF FetchUnusable, Fetched, Answer
<1>11. ASSUME NEW r \in Requests, FetchFails(r) PROVE Flow'
  BY <1>11 DEF FetchFails, Continue, Answer
<1>12. ASSUME NEW r \in Requests, AcquirePermit(r) PROVE Flow'
  BY <1>12 DEF AcquirePermit, Continue
<1>13. ASSUME NEW r \in Requests, PrefetchCompletes(r) PROVE Flow'
  BY <1>13 DEF PrefetchCompletes, Continue, Stored
<1>14. ASSUME NEW r \in Requests, PrefetchTooLarge(r) PROVE Flow'
  BY <1>14 DEF PrefetchTooLarge, Continue
<1>15. ASSUME NEW r \in Requests, PrefetchFails(r) PROVE Flow'
  BY <1>15 DEF PrefetchFails, Continue, Answer
<1>16. ASSUME NEW r \in Requests, RenderChart(r) PROVE Flow'
  BY <1>16 DEF RenderChart, Continue
<1>17. ASSUME NEW r \in Requests, RenderNoImages(r) PROVE Flow'
  BY <1>17 DEF RenderNoImages, ScanReports, Obtain, Continue
<1>18. ASSUME NEW r \in Requests, ScanSucceeds(r) PROVE Flow'
  BY <1>18 DEF ScanSucceeds, ScanReports, Obtain, Continue
<1>19. ASSUME NEW r \in Requests, ScanPartial(r) PROVE Flow'
  BY <1>19 DEF ScanPartial, ScanReports, Obtain, Continue
<1>20. ASSUME NEW r \in Requests, ScanFails(r) PROVE Flow'
  BY <1>20 DEF ScanFails, ScanGivesUp, Answer
<1>21. ASSUME NEW r \in Requests, ScanTimesOut(r) PROVE Flow'
  BY <1>21 DEF ScanTimesOut, ScanGivesUp, Answer
<1>22. ASSUME NEW r \in Requests, ScannerExits(r) PROVE Flow'
  BY <1>22 DEF ScannerExits
<1>23. ASSUME NEW r \in Requests, EvaluatePolicy(r) PROVE Flow'
  BY <1>23 DEF EvaluatePolicy, Release, Continue, Answer
<1>24. ASSUME NEW r \in Requests, UnsupportedTarget(r) PROVE Flow'
  BY <1>24 DEF UnsupportedTarget, Continue, Answer
<1>25. ASSUME NEW r \in Requests, VerifySkipped(r) PROVE Flow'
  BY <1>25 DEF VerifySkipped, Continue
<1>26. ASSUME NEW r \in Requests, VerifyAccepted(r) PROVE Flow'
  BY <1>26 DEF VerifyAccepted, Continue
<1>27. ASSUME NEW r \in Requests, VerifyRefused(r) PROVE Flow'
  BY <1>27 DEF VerifyRefused, Answer
<1>28. ASSUME NEW r \in Requests, ReportCreated(r) PROVE Flow'
  BY <1>28 DEF ReportCreated, Continue
<1>29. ASSUME NEW r \in Requests, ReportFails(r) PROVE Flow'
  BY <1>29 DEF ReportFails, Answer
<1>30. ASSUME NEW r \in Requests, NotifyAndForbid(r) PROVE Flow'
  BY <1>30 DEF NotifyAndForbid, Answer
<1>31. ASSUME NEW r \in Requests, Forward(r) PROVE Flow'
  BY <1>31 DEF Forward, Answer
<1>32. ASSUME NEW r \in Requests, Disconnect(r) PROVE Flow'
  BY <1>32 DEF Disconnect
<1>33. ASSUME NEW p \in Policies, ReloadPolicy(p) PROVE Flow'
  BY <1>33 DEF ReloadPolicy
<1>34. CASE UpdateDb
  BY <1>34 DEF UpdateDb
<1>35. ASSUME NEW t \in Stored, NEW c \in Contents, Publish(t, c) PROVE Flow'
  BY <1>35 DEF Publish
<1>36. ASSUME NEW k \in CacheKeys, ExpireEntry(k) PROVE Flow'
  BY <1>36 DEF ExpireEntry, ExpireClean, ExpireVulnerable
<1>37. CASE UNCHANGED vars
  BY <1>37 DEF vars
<1> HIDE GatewayAssumptions DEF TypeOK, Flow
<1> QED
  BY <1>1, <1>2, <1>3, <1>4, <1>5, <1>6, <1>7, <1>8, <1>9, <1>10, <1>11,
     <1>12, <1>13, <1>14, <1>15, <1>16, <1>17, <1>18, <1>19, <1>20, <1>21,
     <1>22, <1>23, <1>24, <1>25, <1>26, <1>27, <1>28, <1>29, <1>30, <1>31,
     <1>32, <1>33, <1>34, <1>35, <1>36, <1>37
     DEF Next, Handle, Render, World

\* Every step keeps a denied request denied, whatever the other requests do.
LEMMA BlockStep == TypeOK /\ Flow /\ BlockInv /\ [Next]_vars => BlockInv'
<1> SUFFICES ASSUME TypeOK, Flow, BlockInv, [Next]_vars PROVE BlockInv'
  OBVIOUS
<1>0. /\ DOMAIN response = Requests /\ DOMAIN verdict = Requests
      /\ pc \in [Requests -> Waiting \cup {"idle", "done", "gone"}]
      /\ response \in [Requests -> Answers \cup {"none"}]
      /\ verdict \in [Requests -> Outcomes \cup {"none", "Unsupported"}]
      /\ DOMAIN target = Requests /\ DOMAIN auth = Requests
      /\ contacted \subseteq Requests
  BY DEF TypeOK
<1> USE <1>0 DEF BlockInv, Waiting
<1>1. ASSUME NEW r \in Requests, NEW t \in Targets, NEW verb \in Verbs,
             NEW ranged \in BOOLEAN, NEW known \in BOOLEAN,
             Arrive(r, t, verb, ranged, known)
      PROVE  BlockInv'
  BY <1>1 DEF Arrive, Continue, Answer, Answers
<1>2. ASSUME NEW r \in Requests, GetVulnerable(r) PROVE BlockInv'
  BY <1>2 DEF GetVulnerable, CacheHit, CacheMiss, Obtain, Continue
<1>3. ASSUME NEW r \in Requests, GetClean(r) PROVE BlockInv'
  BY <1>3 DEF GetClean, CacheHit, CacheMiss, Obtain, Continue
<1>4. ASSUME NEW r \in Requests, PutCacheInvalidate(r) PROVE BlockInv'
  BY <1>4 DEF PutCacheInvalidate, Continue
<1>5. ASSUME NEW r \in Requests, PutCacheInsert(r) PROVE BlockInv'
  BY <1>5 DEF PutCacheInsert, Continue
<1>6. ASSUME NEW r \in Requests, OsvAnswers(r) PROVE BlockInv'
  BY <1>6 DEF OsvAnswers, Obtain, Continue
<1>7. ASSUME NEW r \in Requests, OsvFails(r) PROVE BlockInv'
  BY <1>7 DEF OsvFails, Continue, Answer
<1>8. ASSUME NEW r \in Requests, FetchManifest(r) PROVE BlockInv'
  BY <1>8 DEF Flow, FetchManifest, Fetched, Continue, Stored
<1>9. ASSUME NEW r \in Requests, FetchIndex(r) PROVE BlockInv'
  BY <1>9 DEF Flow, FetchIndex, Fetched, Answer
<1>10. ASSUME NEW r \in Requests, FetchUnusable(r) PROVE BlockInv'
  BY <1>10 DEF Flow, FetchUnusable, Fetched, Answer
<1>11. ASSUME NEW r \in Requests, FetchFails(r) PROVE BlockInv'
  BY <1>11 DEF Flow, FetchFails, Continue, Answer
<1>12. ASSUME NEW r \in Requests, AcquirePermit(r) PROVE BlockInv'
  BY <1>12 DEF AcquirePermit, Continue
<1>13. ASSUME NEW r \in Requests, PrefetchCompletes(r) PROVE BlockInv'
  BY <1>13 DEF Flow, PrefetchCompletes, Continue, Stored
<1>14. ASSUME NEW r \in Requests, PrefetchTooLarge(r) PROVE BlockInv'
  BY <1>14 DEF Flow, PrefetchTooLarge, Continue
<1>15. ASSUME NEW r \in Requests, PrefetchFails(r) PROVE BlockInv'
  BY <1>15 DEF Flow, PrefetchFails, Continue, Answer
<1>16. ASSUME NEW r \in Requests, RenderChart(r) PROVE BlockInv'
  BY <1>16 DEF RenderChart, Continue
<1>17. ASSUME NEW r \in Requests, RenderNoImages(r) PROVE BlockInv'
  BY <1>17 DEF RenderNoImages, ScanReports, Obtain, Continue
<1>18. ASSUME NEW r \in Requests, ScanSucceeds(r) PROVE BlockInv'
  BY <1>18 DEF ScanSucceeds, ScanReports, Obtain, Continue
<1>19. ASSUME NEW r \in Requests, ScanPartial(r) PROVE BlockInv'
  BY <1>19 DEF ScanPartial, ScanReports, Obtain, Continue
<1>20. ASSUME NEW r \in Requests, ScanFails(r) PROVE BlockInv'
  BY <1>20 DEF ScanFails, ScanGivesUp, Answer
<1>21. ASSUME NEW r \in Requests, ScanTimesOut(r) PROVE BlockInv'
  BY <1>21 DEF ScanTimesOut, ScanGivesUp, Answer
<1>22. ASSUME NEW r \in Requests, ScannerExits(r) PROVE BlockInv'
  BY <1>22 DEF ScannerExits
<1>23. ASSUME NEW r \in Requests, EvaluatePolicy(r) PROVE BlockInv'
  <2>1. CASE Outcome(policy, target[r], findings[r]) = "Blocked"
    BY <1>23, <2>1 DEF EvaluatePolicy, Continue
  <2>2. CASE Outcome(policy, target[r], findings[r]) \in {"Allowed", "ReportOnly"}
    <3>1. CASE body[r] = NoBody
      BY <1>23, <2>2, <3>1 DEF EvaluatePolicy, Release, Continue
    <3>2. CASE body[r] # NoBody
      BY <1>23, <2>2, <3>2 DEF EvaluatePolicy, Release, Answer
    <3> QED
      BY <3>1, <3>2
  <2>3. Outcome(policy, target[r], findings[r]) \in Outcomes
    BY GatewayAssumptions DEF TypeOK
  <2> QED
    BY <2>1, <2>2, <2>3 DEF Outcomes
<1>24. ASSUME NEW r \in Requests, UnsupportedTarget(r) PROVE BlockInv'
  BY <1>24 DEF UnsupportedTarget, Continue, Answer
<1>25. ASSUME NEW r \in Requests, VerifySkipped(r) PROVE BlockInv'
  BY <1>25 DEF VerifySkipped, Continue
<1>26. ASSUME NEW r \in Requests, VerifyAccepted(r) PROVE BlockInv'
  BY <1>26 DEF VerifyAccepted, Continue
<1>27. ASSUME NEW r \in Requests, VerifyRefused(r) PROVE BlockInv'
  BY <1>27 DEF VerifyRefused, Answer
<1>28. ASSUME NEW r \in Requests, ReportCreated(r) PROVE BlockInv'
  BY <1>28 DEF ReportCreated, Continue
<1>29. ASSUME NEW r \in Requests, ReportFails(r) PROVE BlockInv'
  BY <1>29 DEF ReportFails, Answer
<1>30. ASSUME NEW r \in Requests, NotifyAndForbid(r) PROVE BlockInv'
  BY <1>30 DEF NotifyAndForbid, Answer
<1>31. ASSUME NEW r \in Requests, Forward(r) PROVE BlockInv'
  BY <1>31 DEF Forward, Answer
<1>32. ASSUME NEW r \in Requests, Disconnect(r) PROVE BlockInv'
  BY <1>32 DEF Disconnect
<1>33. ASSUME NEW p \in Policies, ReloadPolicy(p) PROVE BlockInv'
  BY <1>33 DEF ReloadPolicy
<1>34. CASE UpdateDb
  BY <1>34 DEF UpdateDb
<1>35. ASSUME NEW t \in Stored, NEW c \in Contents, Publish(t, c) PROVE BlockInv'
  BY <1>35 DEF Publish
<1>36. ASSUME NEW k \in CacheKeys, ExpireEntry(k) PROVE BlockInv'
  BY <1>36 DEF ExpireEntry, ExpireClean, ExpireVulnerable
<1>37. CASE UNCHANGED vars
  BY <1>37 DEF vars
<1> HIDE DEF BlockInv, Waiting
<1> QED
  BY <1>1, <1>2, <1>3, <1>4, <1>5, <1>6, <1>7, <1>8, <1>9, <1>10, <1>11,
     <1>12, <1>13, <1>14, <1>15, <1>16, <1>17, <1>18, <1>19, <1>20, <1>21,
     <1>22, <1>23, <1>24, <1>25, <1>26, <1>27, <1>28, <1>29, <1>30, <1>31,
     <1>32, <1>33, <1>34, <1>35, <1>36, <1>37
     DEF Next, Handle, Render, World

\* The three ways a step can treat the permits: it leaves them alone, takes
\* one for a request that had none, or returns the one of its holder.
LEMMA PermitKept ==
    ASSUME PermitsAccounted, Holders' = Holders, available' = available
    PROVE  PermitsAccounted'
BY DEF PermitsAccounted

\* Finitely many handlers hold a scanner permit.
LEMMA HoldersFinite ==
    IsFiniteSet(Holders) /\ Cardinality(Holders) \in Nat
<1>1. Holders \subseteq Requests
  BY DEF Holders
<1>2. IsFiniteSet(Requests)
  BY GatewayAssumptions
<1> QED
  BY <1>1, <1>2, FS_Subset, FS_CardinalityType

\* Acquiring a permit keeps the count of permits and holders.
LEMMA PermitTaken ==
    ASSUME TypeOK, PermitsAccounted, NEW r \in Requests, r \notin Holders,
           Holders' = Holders \cup {r}, available > 0, available' = available - 1
    PROVE  PermitsAccounted'
<1>1. Cardinality(Holders \cup {r}) = Cardinality(Holders) + 1
  BY HoldersFinite, FS_AddElement
<1> QED
  BY <1>1, HoldersFinite DEF PermitsAccounted, TypeOK

\* Dropping a permit keeps the count of permits and holders.
LEMMA PermitReturned ==
    ASSUME TypeOK, PermitsAccounted, NEW r \in Holders,
           Holders' = Holders \ {r}, available' = available + 1
    PROVE  PermitsAccounted'
<1>1. Cardinality(Holders \ {r}) = Cardinality(Holders) - 1
  BY HoldersFinite, FS_RemoveElement
<1> QED
  BY <1>1, HoldersFinite DEF PermitsAccounted, TypeOK

\* Every step neither loses nor invents a scanner permit.
LEMMA PermitStep == TypeOK /\ PermitsAccounted /\ [Next]_vars => PermitsAccounted'
<1> SUFFICES ASSUME TypeOK, PermitsAccounted, [Next]_vars PROVE PermitsAccounted'
  OBVIOUS
<1>0. pc \in [Requests -> Waiting \cup {"idle", "done", "gone"}]
  BY DEF TypeOK
<1> USE <1>0
<1>1. ASSUME NEW r \in Requests, NEW t \in Targets, NEW verb \in Verbs,
             NEW ranged \in BOOLEAN, NEW known \in BOOLEAN,
             Arrive(r, t, verb, ranged, known)
      PROVE  PermitsAccounted'
  <2>1. Route(Kind[t], verb, ranged, known) \notin {"prefetch", "render", "scan"}
    <3>1. Kind[t] \in Kinds
      BY GatewayAssumptions
    <3> QED
      BY <3>1, RouteFlow DEF Answers
  <2>2. Holders' = Holders /\ available' = available
    BY <1>1, <2>1 DEF Arrive, Continue, Answer, Holders
  <2> QED
    BY <2>2, PermitKept
<1>2. ASSUME NEW r \in Requests, GetVulnerable(r) PROVE PermitsAccounted'
  <2>1. Holders' = Holders /\ available' = available
    BY <1>2 DEF GetVulnerable, CacheHit, CacheMiss, Obtain, Continue, Holders
  <2> QED
    BY <2>1, PermitKept
<1>3. ASSUME NEW r \in Requests, GetClean(r) PROVE PermitsAccounted'
  <2>1. Holders' = Holders /\ available' = available
    BY <1>3 DEF GetClean, CacheHit, CacheMiss, Obtain, Continue, Holders
  <2> QED
    BY <2>1, PermitKept
<1>4. ASSUME NEW r \in Requests, PutCacheInvalidate(r) PROVE PermitsAccounted'
  <2>1. Holders' = Holders /\ available' = available
    BY <1>4 DEF PutCacheInvalidate, Continue, Holders
  <2> QED
    BY <2>1, PermitKept
<1>5. ASSUME NEW r \in Requests, PutCacheInsert(r) PROVE PermitsAccounted'
  <2>1. Holders' = Holders /\ available' = available
    BY <1>5 DEF PutCacheInsert, Continue, Holders
  <2> QED
    BY <2>1, PermitKept
<1>6. ASSUME NEW r \in Requests, OsvAnswers(r) PROVE PermitsAccounted'
  <2>1. Holders' = Holders /\ available' = available
    BY <1>6 DEF OsvAnswers, Obtain, Continue, Holders
  <2> QED
    BY <2>1, PermitKept
<1>7. ASSUME NEW r \in Requests, OsvFails(r) PROVE PermitsAccounted'
  <2>1. Holders' = Holders /\ available' = available
    BY <1>7 DEF OsvFails, Continue, Answer, Holders
  <2> QED
    BY <2>1, PermitKept
<1>8. ASSUME NEW r \in Requests, FetchManifest(r) PROVE PermitsAccounted'
  <2>1. Holders' = Holders /\ available' = available
    BY <1>8 DEF FetchManifest, Fetched, Continue, Stored, Holders
  <2> QED
    BY <2>1, PermitKept
<1>9. ASSUME NEW r \in Requests, FetchIndex(r) PROVE PermitsAccounted'
  <2>1. Holders' = Holders /\ available' = available
    BY <1>9 DEF FetchIndex, Fetched, Answer, Holders
  <2> QED
    BY <2>1, PermitKept
<1>10. ASSUME NEW r \in Requests, FetchUnusable(r) PROVE PermitsAccounted'
  <2>1. Holders' = Holders /\ available' = available
    BY <1>10 DEF FetchUnusable, Fetched, Answer, Holders
  <2> QED
    BY <2>1, PermitKept
<1>11. ASSUME NEW r \in Requests, FetchFails(r) PROVE PermitsAccounted'
  <2>1. Holders' = Holders /\ available' = available
    BY <1>11 DEF FetchFails, Continue, Answer, Holders
  <2> QED
    BY <2>1, PermitKept
<1>12. ASSUME NEW r \in Requests, AcquirePermit(r) PROVE PermitsAccounted'
  <2>1. /\ r \notin Holders /\ Holders' = Holders \cup {r}
        /\ available > 0 /\ available' = available - 1
    BY <1>12 DEF AcquirePermit, Continue, Holders
  <2> QED
    BY <2>1, PermitTaken
<1>13. ASSUME NEW r \in Requests, PrefetchCompletes(r) PROVE PermitsAccounted'
  <2>1. Holders' = Holders /\ available' = available
    BY <1>13 DEF PrefetchCompletes, Continue, Stored, Holders
  <2> QED
    BY <2>1, PermitKept
<1>14. ASSUME NEW r \in Requests, PrefetchTooLarge(r) PROVE PermitsAccounted'
  <2>1. r \in Holders /\ Holders' = Holders \ {r} /\ available' = available + 1
    BY <1>14 DEF PrefetchTooLarge, Continue, DropPermit, Holders
  <2> QED
    BY <2>1, PermitReturned
<1>15. ASSUME NEW r \in Requests, PrefetchFails(r) PROVE PermitsAccounted'
  <2>1. r \in Holders /\ Holders' = Holders \ {r} /\ available' = available + 1
    BY <1>15 DEF PrefetchFails, Continue, Answer, DropPermit, Holders
  <2> QED
    BY <2>1, PermitReturned
<1>16. ASSUME NEW r \in Requests, RenderChart(r) PROVE PermitsAccounted'
  <2>1. Holders' = Holders /\ available' = available
    BY <1>16 DEF RenderChart, Continue, Holders
  <2> QED
    BY <2>1, PermitKept
<1>17. ASSUME NEW r \in Requests, RenderNoImages(r) PROVE PermitsAccounted'
  <2>1. r \in Holders /\ Holders' = Holders \ {r} /\ available' = available + 1
    BY <1>17 DEF RenderNoImages, ScanReports, Obtain, Continue, DropPermit, Holders
  <2> QED
    BY <2>1, PermitReturned
<1>18. ASSUME NEW r \in Requests, ScanSucceeds(r) PROVE PermitsAccounted'
  <2>1. r \in Holders /\ Holders' = Holders \ {r} /\ available' = available + 1
    BY <1>18 DEF ScanSucceeds, ScanReports, Obtain, Continue, DropPermit, Holders
  <2> QED
    BY <2>1, PermitReturned
<1>19. ASSUME NEW r \in Requests, ScanPartial(r) PROVE PermitsAccounted'
  <2>1. r \in Holders /\ Holders' = Holders \ {r} /\ available' = available + 1
    BY <1>19 DEF ScanPartial, ScanReports, Obtain, Continue, DropPermit, Holders
  <2> QED
    BY <2>1, PermitReturned
<1>20. ASSUME NEW r \in Requests, ScanFails(r) PROVE PermitsAccounted'
  <2>1. r \in Holders /\ Holders' = Holders \ {r} /\ available' = available + 1
    BY <1>20 DEF ScanFails, ScanGivesUp, Answer, DropPermit, Holders
  <2> QED
    BY <2>1, PermitReturned
<1>21. ASSUME NEW r \in Requests, ScanTimesOut(r) PROVE PermitsAccounted'
  <2>1. r \in Holders /\ Holders' = Holders \ {r} /\ available' = available + 1
    BY <1>21 DEF ScanTimesOut, ScanGivesUp, Answer, DropPermit, Holders
  <2> QED
    BY <2>1, PermitReturned
<1>22. ASSUME NEW r \in Requests, ScannerExits(r) PROVE PermitsAccounted'
  <2>1. Holders' = Holders /\ available' = available
    BY <1>22 DEF ScannerExits, Holders
  <2> QED
    BY <2>1, PermitKept
<1>23. ASSUME NEW r \in Requests, EvaluatePolicy(r) PROVE PermitsAccounted'
  <2>1. Holders' = Holders /\ available' = available
    BY <1>23 DEF EvaluatePolicy, Release, Continue, Answer, Holders
  <2> QED
    BY <2>1, PermitKept
<1>24. ASSUME NEW r \in Requests, UnsupportedTarget(r) PROVE PermitsAccounted'
  <2>1. Holders' = Holders /\ available' = available
    BY <1>24 DEF UnsupportedTarget, Continue, Answer, Holders
  <2> QED
    BY <2>1, PermitKept
<1>25. ASSUME NEW r \in Requests, VerifySkipped(r) PROVE PermitsAccounted'
  <2>1. Holders' = Holders /\ available' = available
    BY <1>25 DEF VerifySkipped, Continue, Holders
  <2> QED
    BY <2>1, PermitKept
<1>26. ASSUME NEW r \in Requests, VerifyAccepted(r) PROVE PermitsAccounted'
  <2>1. Holders' = Holders /\ available' = available
    BY <1>26 DEF VerifyAccepted, Continue, Holders
  <2> QED
    BY <2>1, PermitKept
<1>27. ASSUME NEW r \in Requests, VerifyRefused(r) PROVE PermitsAccounted'
  <2>1. Holders' = Holders /\ available' = available
    BY <1>27 DEF VerifyRefused, Answer, Holders
  <2> QED
    BY <2>1, PermitKept
<1>28. ASSUME NEW r \in Requests, ReportCreated(r) PROVE PermitsAccounted'
  <2>1. Holders' = Holders /\ available' = available
    BY <1>28 DEF ReportCreated, Continue, Holders
  <2> QED
    BY <2>1, PermitKept
<1>29. ASSUME NEW r \in Requests, ReportFails(r) PROVE PermitsAccounted'
  <2>1. Holders' = Holders /\ available' = available
    BY <1>29 DEF ReportFails, Answer, Holders
  <2> QED
    BY <2>1, PermitKept
<1>30. ASSUME NEW r \in Requests, NotifyAndForbid(r) PROVE PermitsAccounted'
  <2>1. Holders' = Holders /\ available' = available
    BY <1>30 DEF NotifyAndForbid, Answer, Holders
  <2> QED
    BY <2>1, PermitKept
<1>31. ASSUME NEW r \in Requests, Forward(r) PROVE PermitsAccounted'
  <2>1. Holders' = Holders /\ available' = available
    BY <1>31 DEF Forward, Answer, Holders
  <2> QED
    BY <2>1, PermitKept
<1>32. ASSUME NEW r \in Requests, Disconnect(r) PROVE PermitsAccounted'
  <2>1. CASE r \in Holders
    <3>1. Holders' = Holders \ {r} /\ available' = available + 1
      BY <1>32, <2>1 DEF Disconnect, Holders
    <3> QED
      BY <2>1, <3>1, PermitReturned
  <2>2. CASE r \notin Holders
    <3>1. Holders' = Holders /\ available' = available
      BY <1>32, <2>2 DEF Disconnect, Holders
    <3> QED
      BY <3>1, PermitKept
  <2> QED
    BY <2>1, <2>2
<1>33. ASSUME NEW p \in Policies, ReloadPolicy(p) PROVE PermitsAccounted'
  BY <1>33, PermitKept DEF ReloadPolicy, Holders
<1>34. CASE UpdateDb
  BY <1>34, PermitKept DEF UpdateDb, Holders
<1>35. ASSUME NEW t \in Stored, NEW c \in Contents, Publish(t, c) PROVE PermitsAccounted'
  BY <1>35, PermitKept DEF Publish, Holders
<1>36. ASSUME NEW k \in CacheKeys, ExpireEntry(k) PROVE PermitsAccounted'
  BY <1>36, PermitKept DEF ExpireEntry, Holders
<1>37. CASE UNCHANGED vars
  BY <1>37, PermitKept DEF vars, Holders
<1> QED
  BY <1>1, <1>2, <1>3, <1>4, <1>5, <1>6, <1>7, <1>8, <1>9, <1>10, <1>11,
     <1>12, <1>13, <1>14, <1>15, <1>16, <1>17, <1>18, <1>19, <1>20, <1>21,
     <1>22, <1>23, <1>24, <1>25, <1>26, <1>27, <1>28, <1>29, <1>30, <1>31,
     <1>32, <1>33, <1>34, <1>35, <1>36, <1>37
     DEF Next, Handle, Render, World

\* The decision log after a push: the new entry, then old ones in their order.
LEMMA PushedEntries ==
    ASSUME NEW S, NEW seq \in Seq(S), NEW entry \in S,
           NEW i \in DOMAIN Pushed(seq, entry)
    PROVE  \/ i = 1 /\ Pushed(seq, entry)[i] = entry
           \/ /\ i # 1 /\ i - 1 \in DOMAIN seq /\ i \in Nat
              /\ Pushed(seq, entry)[i] = seq[i - 1]
<1> DEFINE longer == <<entry>> \o seq
<1>1. longer \in Seq(S) /\ Len(longer) = Len(seq) + 1
  OBVIOUS
<1>2. \A k \in DOMAIN longer :
         \/ k = 1 /\ longer[k] = entry
         \/ k # 1 /\ k - 1 \in DOMAIN seq /\ k \in Nat /\ longer[k] = seq[k - 1]
  OBVIOUS
<1>3. DOMAIN Pushed(seq, entry) \subseteq DOMAIN longer
  BY <1>1, GatewayAssumptions DEF Pushed
<1>4. Pushed(seq, entry)[i] = longer[i]
  BY <1>1, GatewayAssumptions DEF Pushed
<1> QED
  BY <1>2, <1>3, <1>4

\* Every step keeps the order verdict, report, decision, notification, 403.
LEMMA SequenceStep == TypeOK /\ SequenceInv /\ [Next]_vars => SequenceInv'
<1> SUFFICES ASSUME TypeOK, SequenceInv, [Next]_vars PROVE SequenceInv'
  OBVIOUS
<1>0. /\ pc \in [Requests -> Waiting \cup {"idle", "done", "gone"}]
      /\ response \in [Requests -> Answers \cup {"none"}]
      /\ verdict \in [Requests -> Outcomes \cup {"none", "Unsupported"}]
      /\ auth \in [Requests -> {"none", "basic", "bearer"}]
  BY DEF TypeOK
<1> USE <1>0 DEF SequenceInv, Waiting
<1>1. ASSUME NEW r \in Requests, NEW t \in Targets, NEW verb \in Verbs,
             NEW ranged \in BOOLEAN, NEW known \in BOOLEAN,
             Arrive(r, t, verb, ranged, known)
      PROVE  SequenceInv'
  <2>1. Route(Kind[t], verb, ranged, known)
           \notin {"verify", "report", "recipient", "forbidden"}
    <3>1. Kind[t] \in Kinds
      BY GatewayAssumptions
    <3> QED
      BY <3>1 DEF Kinds, Verbs, Route, DockerRoute, ArtifactRoute
  <2> QED
    BY <1>1, <2>1 DEF Arrive, Continue, Answer
<1>2. ASSUME NEW r \in Requests, GetVulnerable(r) PROVE SequenceInv'
  BY <1>2 DEF GetVulnerable, CacheHit, CacheMiss, Obtain, Continue
<1>3. ASSUME NEW r \in Requests, GetClean(r) PROVE SequenceInv'
  BY <1>3 DEF GetClean, CacheHit, CacheMiss, Obtain, Continue
<1>4. ASSUME NEW r \in Requests, PutCacheInvalidate(r) PROVE SequenceInv'
  BY <1>4 DEF PutCacheInvalidate, Continue
<1>5. ASSUME NEW r \in Requests, PutCacheInsert(r) PROVE SequenceInv'
  BY <1>5 DEF PutCacheInsert, Continue
<1>6. ASSUME NEW r \in Requests, OsvAnswers(r) PROVE SequenceInv'
  BY <1>6 DEF OsvAnswers, Obtain, Continue
<1>7. ASSUME NEW r \in Requests, OsvFails(r) PROVE SequenceInv'
  BY <1>7 DEF OsvFails, Continue, Answer
<1>8. ASSUME NEW r \in Requests, FetchManifest(r) PROVE SequenceInv'
  BY <1>8 DEF FetchManifest, Fetched, Continue, Stored
<1>9. ASSUME NEW r \in Requests, FetchIndex(r) PROVE SequenceInv'
  BY <1>9 DEF FetchIndex, Fetched, Answer
<1>10. ASSUME NEW r \in Requests, FetchUnusable(r) PROVE SequenceInv'
  BY <1>10 DEF FetchUnusable, Fetched, Answer
<1>11. ASSUME NEW r \in Requests, FetchFails(r) PROVE SequenceInv'
  BY <1>11 DEF FetchFails, Continue, Answer
<1>12. ASSUME NEW r \in Requests, AcquirePermit(r) PROVE SequenceInv'
  BY <1>12 DEF AcquirePermit, Continue
<1>13. ASSUME NEW r \in Requests, PrefetchCompletes(r) PROVE SequenceInv'
  BY <1>13 DEF PrefetchCompletes, Continue, Stored
<1>14. ASSUME NEW r \in Requests, PrefetchTooLarge(r) PROVE SequenceInv'
  BY <1>14 DEF PrefetchTooLarge, Continue
<1>15. ASSUME NEW r \in Requests, PrefetchFails(r) PROVE SequenceInv'
  BY <1>15 DEF PrefetchFails, Continue, Answer
<1>16. ASSUME NEW r \in Requests, RenderChart(r) PROVE SequenceInv'
  BY <1>16 DEF RenderChart, Continue
<1>17. ASSUME NEW r \in Requests, RenderNoImages(r) PROVE SequenceInv'
  BY <1>17 DEF RenderNoImages, ScanReports, Obtain, Continue
<1>18. ASSUME NEW r \in Requests, ScanSucceeds(r) PROVE SequenceInv'
  BY <1>18 DEF ScanSucceeds, ScanReports, Obtain, Continue
<1>19. ASSUME NEW r \in Requests, ScanPartial(r) PROVE SequenceInv'
  BY <1>19 DEF ScanPartial, ScanReports, Obtain, Continue
<1>20. ASSUME NEW r \in Requests, ScanFails(r) PROVE SequenceInv'
  BY <1>20 DEF ScanFails, ScanGivesUp, Answer
<1>21. ASSUME NEW r \in Requests, ScanTimesOut(r) PROVE SequenceInv'
  BY <1>21 DEF ScanTimesOut, ScanGivesUp, Answer
<1>22. ASSUME NEW r \in Requests, ScannerExits(r) PROVE SequenceInv'
  BY <1>22 DEF ScannerExits
<1>23. ASSUME NEW r \in Requests, EvaluatePolicy(r) PROVE SequenceInv'
  <2>1. CASE Outcome(policy, target[r], findings[r]) = "Blocked"
    BY <1>23, <2>1 DEF EvaluatePolicy, Continue
  <2>2. CASE Outcome(policy, target[r], findings[r]) # "Blocked" /\ body[r] = NoBody
    BY <1>23, <2>2 DEF EvaluatePolicy, Release, Continue
  <2>3. CASE Outcome(policy, target[r], findings[r]) # "Blocked" /\ body[r] # NoBody
    BY <1>23, <2>3 DEF EvaluatePolicy, Release, Answer
  <2> QED
    BY <2>1, <2>2, <2>3
<1>24. ASSUME NEW r \in Requests, UnsupportedTarget(r) PROVE SequenceInv'
  BY <1>24 DEF UnsupportedTarget, Continue, Answer
<1>25. ASSUME NEW r \in Requests, VerifySkipped(r) PROVE SequenceInv'
  BY <1>25 DEF VerifySkipped, Continue
<1>26. ASSUME NEW r \in Requests, VerifyAccepted(r) PROVE SequenceInv'
  BY <1>26 DEF VerifyAccepted, Continue
<1>27. ASSUME NEW r \in Requests, VerifyRefused(r) PROVE SequenceInv'
  BY <1>27 DEF VerifyRefused, Answer
<1>28. ASSUME NEW r \in Requests, ReportCreated(r) PROVE SequenceInv'
  BY <1>28 DEF ReportCreated, Continue
<1>29. ASSUME NEW r \in Requests, ReportFails(r) PROVE SequenceInv'
  BY <1>29 DEF ReportFails, Answer
<1>30. ASSUME NEW r \in Requests, NotifyAndForbid(r) PROVE SequenceInv'
  BY <1>30 DEF NotifyAndForbid, Answer
<1>31. ASSUME NEW r \in Requests, Forward(r) PROVE SequenceInv'
  BY <1>31 DEF Forward, Answer
<1>32. ASSUME NEW r \in Requests, Disconnect(r) PROVE SequenceInv'
  BY <1>32 DEF Disconnect
<1>33. ASSUME NEW p \in Policies, ReloadPolicy(p) PROVE SequenceInv'
  BY <1>33 DEF ReloadPolicy
<1>34. CASE UpdateDb
  BY <1>34 DEF UpdateDb
<1>35. ASSUME NEW t \in Stored, NEW c \in Contents, Publish(t, c) PROVE SequenceInv'
  BY <1>35 DEF Publish
<1>36. ASSUME NEW k \in CacheKeys, ExpireEntry(k) PROVE SequenceInv'
  BY <1>36 DEF ExpireEntry, ExpireClean, ExpireVulnerable
<1>37. CASE UNCHANGED vars
  BY <1>37 DEF vars
<1> HIDE DEF SequenceInv, Waiting
<1> QED
  BY <1>1, <1>2, <1>3, <1>4, <1>5, <1>6, <1>7, <1>8, <1>9, <1>10, <1>11,
     <1>12, <1>13, <1>14, <1>15, <1>16, <1>17, <1>18, <1>19, <1>20, <1>21,
     <1>22, <1>23, <1>24, <1>25, <1>26, <1>27, <1>28, <1>29, <1>30, <1>31,
     <1>32, <1>33, <1>34, <1>35, <1>36, <1>37
     DEF Next, Handle, Render, World

\* A recorded decision is about a request.
LEMMA LogEntryType ==
    ASSUME TypeOK, NEW i \in DOMAIN log
    PROVE  log[i].request \in Requests
<1> DEFINE S == [request : Requests, outcome : Outcomes]
<1>1. log \in Seq(S)
  BY DEF TypeOK
<1>2. ASSUME NEW T, log \in Seq(T) PROVE log[i] \in T
  BY <1>2
<1>3. log[i] \in S
  BY <1>1, <1>2
<1> QED
  BY <1>3

\* A step that records no decision keeps the recorded ones justified.
LEMMA LogKept ==
    ASSUME TypeOK, LogInv, log' = log, \A q \in Requests : LogFrame(q)
    PROVE  LogInv'
<1>1. \A i \in DOMAIN log : log[i].request \in Requests
  BY LogEntryType
<1>2. ASSUME NEW i \in DOMAIN log
      PROVE  /\ pc'[log[i].request] \in PastVerdict
             /\ Justified(log[i].outcome, log[i].request)'
  BY <1>1, <1>2 DEF LogInv, LogFrame, Justified
<1> QED
  BY <1>2 DEF LogInv

\* record_decision keeps the log justified, also when it drops the oldest entry.
LEMMA LogPushed ==
    ASSUME TypeOK, LogInv, NEW r \in Requests, NEW o \in Outcomes,
           log' = Pushed(log, [request |-> r, outcome |-> o]),
           pc[r] \notin PastVerdict, pc'[r] \in PastVerdict, Justified(o, r)',
           \A q \in Requests : LogFrame(q)
    PROVE  LogInv'
<1> DEFINE entry == [request |-> r, outcome |-> o]
           S == [request : Requests, outcome : Outcomes]
<1>1. \A i \in DOMAIN log : log[i].request \in Requests
  BY LogEntryType
<1>2. \A i \in DOMAIN log : log[i].request # r
  BY DEF LogInv
<1>3. \A i \in DOMAIN log' :
         \/ i = 1 /\ log'[i] = entry
         \/ i # 1 /\ i \in Nat /\ i - 1 \in DOMAIN log /\ log'[i] = log[i - 1]
  <2>1. log \in Seq(S)
    BY DEF TypeOK
  <2>2. entry \in S
    OBVIOUS
  <2> HIDE DEF S, entry
  <2>3. \A i \in DOMAIN Pushed(log, entry) :
           \/ i = 1 /\ Pushed(log, entry)[i] = entry
           \/ /\ i # 1 /\ i - 1 \in DOMAIN log /\ i \in Nat
              /\ Pushed(log, entry)[i] = log[i - 1]
    BY <2>1, <2>2, PushedEntries
  <2>4. log' = Pushed(log, entry)
    BY DEF entry
  <2> QED
    BY <2>3, <2>4
<1>4. \A i \in DOMAIN log' :
         /\ pc'[log'[i].request] \in PastVerdict
         /\ Justified(log[i].outcome, log[i].request)'
  <2> SUFFICES ASSUME NEW i \in DOMAIN log'
               PROVE  /\ pc'[log'[i].request] \in PastVerdict
                      /\ Justified(log[i].outcome, log[i].request)'
    OBVIOUS
  <2>1. CASE i = 1
    <3>1. log'[i].request = r /\ log'[i].outcome = o
      BY <1>3, <2>1
    <3> QED
      BY <3>1 DEF Justified
  <2>2. CASE i # 1
    <3>1. i - 1 \in DOMAIN log /\ log'[i] = log[i - 1]
      BY <1>3, <2>2
    <3>2. /\ log[i - 1].request \in Requests
          /\ pc[log[i - 1].request] \in PastVerdict
          /\ Justified(log[i - 1].outcome, log[i - 1].request)
      BY <1>1, <3>1 DEF LogInv
    <3>3. LogFrame(log[i - 1].request)
      BY <3>2
    <3> QED
      BY <3>1, <3>2, <3>3 DEF LogFrame, Justified
  <2> QED
    BY <2>1, <2>2
<1>5. \A i, j \in DOMAIN log' : log'[i].request = log'[j].request => i = j
  <2> SUFFICES ASSUME NEW i \in DOMAIN log', NEW j \in DOMAIN log',
                      log'[i].request = log'[j].request
               PROVE  i = j
    OBVIOUS
  <2>1. CASE i = 1 \/ j = 1
    BY <1>2, <1>3, <2>1
  <2>2. CASE i # 1 /\ j # 1
    <3>1. i - 1 = j - 1
      BY <1>3, <2>2 DEF LogInv
    <3>2. i \in Nat /\ j \in Nat
      BY <1>3, <2>2
    <3> QED
      BY <3>1, <3>2
  <2> QED
    BY <2>1, <2>2
<1> QED
  BY <1>4, <1>5 DEF LogInv

\* Every step keeps each recorded decision justified by a verdict.
LEMMA LogStep == TypeOK /\ SequenceInv /\ LogInv /\ [Next]_vars => LogInv'
<1> SUFFICES ASSUME TypeOK, SequenceInv, LogInv, [Next]_vars PROVE LogInv'
  OBVIOUS
<1>0. /\ pc \in [Requests -> Waiting \cup {"idle", "done", "gone"}]
      /\ verdict \in [Requests -> Outcomes \cup {"none", "Unsupported"}]
  BY DEF TypeOK
<1> USE <1>0
<1>1. ASSUME NEW r \in Requests, NEW t \in Targets, NEW verb \in Verbs,
             NEW ranged \in BOOLEAN, NEW known \in BOOLEAN,
             Arrive(r, t, verb, ranged, known)
      PROVE  LogInv'
  <2>1. log' = log /\ \A q \in Requests : LogFrame(q)
    BY <1>1 DEF Arrive, Continue, Answer, LogFrame, PastVerdict
  <2> QED
    BY <2>1, LogKept
<1>2. ASSUME NEW r \in Requests, GetVulnerable(r) PROVE LogInv'
  <2>1. log' = log /\ \A q \in Requests : LogFrame(q)
    BY <1>2 DEF GetVulnerable, CacheHit, CacheMiss, Obtain, Continue, LogFrame, PastVerdict
  <2> QED
    BY <2>1, LogKept
<1>3. ASSUME NEW r \in Requests, GetClean(r) PROVE LogInv'
  <2>1. log' = log /\ \A q \in Requests : LogFrame(q)
    BY <1>3 DEF GetClean, CacheHit, CacheMiss, Obtain, Continue, LogFrame, PastVerdict
  <2> QED
    BY <2>1, LogKept
<1>4. ASSUME NEW r \in Requests, PutCacheInvalidate(r) PROVE LogInv'
  <2>1. log' = log /\ \A q \in Requests : LogFrame(q)
    BY <1>4 DEF PutCacheInvalidate, Continue, LogFrame, PastVerdict
  <2> QED
    BY <2>1, LogKept
<1>5. ASSUME NEW r \in Requests, PutCacheInsert(r) PROVE LogInv'
  <2>1. log' = log /\ \A q \in Requests : LogFrame(q)
    BY <1>5 DEF PutCacheInsert, Continue, LogFrame, PastVerdict
  <2> QED
    BY <2>1, LogKept
<1>6. ASSUME NEW r \in Requests, OsvAnswers(r) PROVE LogInv'
  <2>1. log' = log /\ \A q \in Requests : LogFrame(q)
    BY <1>6 DEF OsvAnswers, Obtain, Continue, LogFrame, PastVerdict
  <2> QED
    BY <2>1, LogKept
<1>7. ASSUME NEW r \in Requests, OsvFails(r) PROVE LogInv'
  <2>1. log' = log /\ \A q \in Requests : LogFrame(q)
    BY <1>7 DEF OsvFails, Continue, Answer, LogFrame, PastVerdict
  <2> QED
    BY <2>1, LogKept
<1>8. ASSUME NEW r \in Requests, FetchManifest(r) PROVE LogInv'
  <2>1. log' = log /\ \A q \in Requests : LogFrame(q)
    BY <1>8 DEF FetchManifest, Fetched, Continue, Stored, LogFrame, PastVerdict
  <2> QED
    BY <2>1, LogKept
<1>9. ASSUME NEW r \in Requests, FetchIndex(r) PROVE LogInv'
  <2>1. log' = log /\ \A q \in Requests : LogFrame(q)
    BY <1>9 DEF FetchIndex, Fetched, Answer, LogFrame, PastVerdict
  <2> QED
    BY <2>1, LogKept
<1>10. ASSUME NEW r \in Requests, FetchUnusable(r) PROVE LogInv'
  <2>1. log' = log /\ \A q \in Requests : LogFrame(q)
    BY <1>10 DEF FetchUnusable, Fetched, Answer, LogFrame, PastVerdict
  <2> QED
    BY <2>1, LogKept
<1>11. ASSUME NEW r \in Requests, FetchFails(r) PROVE LogInv'
  <2>1. log' = log /\ \A q \in Requests : LogFrame(q)
    BY <1>11 DEF FetchFails, Continue, Answer, LogFrame, PastVerdict
  <2> QED
    BY <2>1, LogKept
<1>12. ASSUME NEW r \in Requests, AcquirePermit(r) PROVE LogInv'
  <2>1. log' = log /\ \A q \in Requests : LogFrame(q)
    BY <1>12 DEF AcquirePermit, Continue, LogFrame, PastVerdict
  <2> QED
    BY <2>1, LogKept
<1>13. ASSUME NEW r \in Requests, PrefetchCompletes(r) PROVE LogInv'
  <2>1. log' = log /\ \A q \in Requests : LogFrame(q)
    BY <1>13 DEF PrefetchCompletes, Continue, Stored, LogFrame, PastVerdict
  <2> QED
    BY <2>1, LogKept
<1>14. ASSUME NEW r \in Requests, PrefetchTooLarge(r) PROVE LogInv'
  <2>1. log' = log /\ \A q \in Requests : LogFrame(q)
    BY <1>14 DEF PrefetchTooLarge, Continue, LogFrame, PastVerdict
  <2> QED
    BY <2>1, LogKept
<1>15. ASSUME NEW r \in Requests, PrefetchFails(r) PROVE LogInv'
  <2>1. log' = log /\ \A q \in Requests : LogFrame(q)
    BY <1>15 DEF PrefetchFails, Continue, Answer, LogFrame, PastVerdict
  <2> QED
    BY <2>1, LogKept
<1>16. ASSUME NEW r \in Requests, RenderChart(r) PROVE LogInv'
  <2>1. log' = log /\ \A q \in Requests : LogFrame(q)
    BY <1>16 DEF RenderChart, Continue, LogFrame, PastVerdict
  <2> QED
    BY <2>1, LogKept
<1>17. ASSUME NEW r \in Requests, RenderNoImages(r) PROVE LogInv'
  <2>1. log' = log /\ \A q \in Requests : LogFrame(q)
    BY <1>17 DEF RenderNoImages, ScanReports, Obtain, Continue, LogFrame, PastVerdict
  <2> QED
    BY <2>1, LogKept
<1>18. ASSUME NEW r \in Requests, ScanSucceeds(r) PROVE LogInv'
  <2>1. log' = log /\ \A q \in Requests : LogFrame(q)
    BY <1>18 DEF ScanSucceeds, ScanReports, Obtain, Continue, LogFrame, PastVerdict
  <2> QED
    BY <2>1, LogKept
<1>19. ASSUME NEW r \in Requests, ScanPartial(r) PROVE LogInv'
  <2>1. log' = log /\ \A q \in Requests : LogFrame(q)
    BY <1>19 DEF ScanPartial, ScanReports, Obtain, Continue, LogFrame, PastVerdict
  <2> QED
    BY <2>1, LogKept
<1>20. ASSUME NEW r \in Requests, ScanFails(r) PROVE LogInv'
  <2>1. log' = log /\ \A q \in Requests : LogFrame(q)
    BY <1>20 DEF ScanFails, ScanGivesUp, Answer, LogFrame, PastVerdict
  <2> QED
    BY <2>1, LogKept
<1>21. ASSUME NEW r \in Requests, ScanTimesOut(r) PROVE LogInv'
  <2>1. log' = log /\ \A q \in Requests : LogFrame(q)
    BY <1>21 DEF ScanTimesOut, ScanGivesUp, Answer, LogFrame, PastVerdict
  <2> QED
    BY <2>1, LogKept
<1>22. ASSUME NEW r \in Requests, ScannerExits(r) PROVE LogInv'
  <2>1. log' = log /\ \A q \in Requests : LogFrame(q)
    BY <1>22 DEF ScannerExits, LogFrame, PastVerdict
  <2> QED
    BY <2>1, LogKept
<1>23. ASSUME NEW r \in Requests, EvaluatePolicy(r) PROVE LogInv'
  <2> DEFINE outcome == Outcome(policy, target[r], findings[r])
  <2>1. \A q \in Requests : LogFrame(q)
    BY <1>23 DEF EvaluatePolicy, Release, Continue, Answer, LogFrame, PastVerdict
  <2>2. CASE outcome = "ReportOnly"
    <3>1. log' = Pushed(log, [request |-> r, outcome |-> "ReportOnly"])
      BY <1>23, <2>2 DEF EvaluatePolicy, RecordDecision
    <3>2. pc[r] \notin PastVerdict /\ pc'[r] \in PastVerdict
      BY <1>23, <2>2 DEF EvaluatePolicy, Release, Continue, Answer, PastVerdict
    <3>3. Justified("ReportOnly", r)'
      BY <1>23, <2>2 DEF EvaluatePolicy, Justified
    <3> QED
      BY <2>1, <3>1, <3>2, <3>3, LogPushed DEF Outcomes
  <2>3. CASE outcome # "ReportOnly"
    BY <1>23, <2>1, <2>3, LogKept DEF EvaluatePolicy
  <2> QED
    BY <2>2, <2>3
<1>24. ASSUME NEW r \in Requests, UnsupportedTarget(r) PROVE LogInv'
  <2>1. log' = log /\ \A q \in Requests : LogFrame(q)
    BY <1>24 DEF UnsupportedTarget, Continue, Answer, LogFrame, PastVerdict
  <2> QED
    BY <2>1, LogKept
<1>25. ASSUME NEW r \in Requests, VerifySkipped(r) PROVE LogInv'
  <2>1. log' = log /\ \A q \in Requests : LogFrame(q)
    BY <1>25 DEF VerifySkipped, Continue, LogFrame, PastVerdict
  <2> QED
    BY <2>1, LogKept
<1>26. ASSUME NEW r \in Requests, VerifyAccepted(r) PROVE LogInv'
  <2>1. log' = log /\ \A q \in Requests : LogFrame(q)
    BY <1>26 DEF VerifyAccepted, Continue, LogFrame, PastVerdict
  <2> QED
    BY <2>1, LogKept
<1>27. ASSUME NEW r \in Requests, VerifyRefused(r) PROVE LogInv'
  <2>1. log' = log /\ \A q \in Requests : LogFrame(q)
    BY <1>27 DEF VerifyRefused, Answer, LogFrame, PastVerdict
  <2> QED
    BY <2>1, LogKept
<1>28. ASSUME NEW r \in Requests, ReportCreated(r) PROVE LogInv'
  <2>1. \A q \in Requests : LogFrame(q)
    BY <1>28 DEF ReportCreated, Continue, LogFrame, PastVerdict
  <2>2. log' = Pushed(log, [request |-> r, outcome |-> "Blocked"])
    BY <1>28 DEF ReportCreated, RecordDecision
  <2>3. pc[r] \notin PastVerdict /\ pc'[r] \in PastVerdict
    BY <1>28 DEF ReportCreated, Continue, PastVerdict
  <2>4. Justified("Blocked", r)'
    BY <1>28 DEF ReportCreated, SequenceInv, Justified
  <2> QED
    BY <2>1, <2>2, <2>3, <2>4, LogPushed DEF Outcomes
<1>29. ASSUME NEW r \in Requests, ReportFails(r) PROVE LogInv'
  <2>1. log' = log /\ \A q \in Requests : LogFrame(q)
    BY <1>29 DEF ReportFails, Answer, LogFrame, PastVerdict
  <2> QED
    BY <2>1, LogKept
<1>30. ASSUME NEW r \in Requests, NotifyAndForbid(r) PROVE LogInv'
  <2>1. log' = log /\ \A q \in Requests : LogFrame(q)
    BY <1>30 DEF NotifyAndForbid, Answer, LogFrame, PastVerdict
  <2> QED
    BY <2>1, LogKept
<1>31. ASSUME NEW r \in Requests, Forward(r) PROVE LogInv'
  <2>1. log' = log /\ \A q \in Requests : LogFrame(q)
    BY <1>31 DEF Forward, Answer, LogFrame, PastVerdict
  <2> QED
    BY <2>1, LogKept
<1>32. ASSUME NEW r \in Requests, Disconnect(r) PROVE LogInv'
  <2>1. log' = log /\ \A q \in Requests : LogFrame(q)
    BY <1>32 DEF Disconnect, LogFrame, PastVerdict
  <2> QED
    BY <2>1, LogKept
<1>33. ASSUME NEW p \in Policies, ReloadPolicy(p) PROVE LogInv'
  BY <1>33, LogKept DEF ReloadPolicy, LogFrame
<1>34. CASE UpdateDb
  BY <1>34, LogKept DEF UpdateDb, LogFrame
<1>35. ASSUME NEW t \in Stored, NEW c \in Contents, Publish(t, c) PROVE LogInv'
  BY <1>35, LogKept DEF Publish, LogFrame
<1>36. ASSUME NEW k \in CacheKeys, ExpireEntry(k) PROVE LogInv'
  BY <1>36, LogKept DEF ExpireEntry, LogFrame
<1>37. CASE UNCHANGED vars
  BY <1>37, LogKept DEF vars, LogFrame
<1> QED
  BY <1>1, <1>2, <1>3, <1>4, <1>5, <1>6, <1>7, <1>8, <1>9, <1>10, <1>11,
     <1>12, <1>13, <1>14, <1>15, <1>16, <1>17, <1>18, <1>19, <1>20, <1>21,
     <1>22, <1>23, <1>24, <1>25, <1>26, <1>27, <1>28, <1>29, <1>30, <1>31,
     <1>32, <1>33, <1>34, <1>35, <1>36, <1>37
     DEF Next, Handle, Render, World

\* Evidence a handler holds stays evidence while others move.
LEMMA HandKept ==
    ASSUME TypeOK, NEW q \in Requests, InHand(q), HandFrame(q), config' = config,
           db' \in Nat, db <= db'
    PROVE  InHand(q)'
<1>1. db \in Nat /\ 0..db \subseteq 0..db'
  BY GatewayAssumptions DEF TypeOK
<1>2. CASE pc'[q] \notin Judging
  BY <1>2 DEF HandFrame, InHand, Judging
<1>3. CASE pc'[q] \in Judging
  <2>1. (Kind[target[q]] = "helm" /\ config.fail_open) \/ Supported(q)
    BY <1>3 DEF HandFrame, InHand
  <2>2. Supported(q) => Supported(q)'
    BY <1>1, <1>3 DEF HandFrame, Supported, Subjects
  <2> QED
    BY <1>3, <2>1, <2>2 DEF HandFrame, InHand, Judging
<1> QED
  BY <1>2, <1>3

\* A request that obtains findings which say something true of its target.
LEMMA ObtainHand ==
    ASSUME TypeOK, \A q \in Requests : InHand(q),
           NEW r \in Requests, NEW scan \in Scans, NEW label \in Judging,
           Obtain(r, scan), Continue(r, label), UNCHANGED <<body, worldVars>>,
           (label # "evaluate" /\ Kind[target[r]] # "package") => body[r] # NoBody,
           \/ Kind[target[r]] = "helm" /\ config.fail_open
           \/ \E s \in Subjects(r), d \in 0..db : scan = Truth[d][s]
    PROVE  \A q \in Requests : InHand(q)'
<1> SUFFICES ASSUME NEW q \in Requests PROVE InHand(q)'
  OBVIOUS
<1>0. /\ pc \in [Requests -> Waiting \cup {"idle", "done", "gone"}]
      /\ findings \in [Requests -> Scans]
      /\ since \in [Requests -> SUBSET Policies]
      /\ db \in Nat
  BY GatewayAssumptions DEF TypeOK
<1>1. CASE q # r
  <2>1. HandFrame(q)
    BY <1>0, <1>1 DEF HandFrame, InHand, Obtain, Continue, Judging
  <2> QED
    BY <1>0, <2>1, HandKept
<1>2. CASE q = r
  <2>1. policy' \in since'[r] /\ findings'[r] = scan /\ pc'[r] = label
    BY <1>0 DEF Obtain, Continue
  <2>2. (Kind[target[r]] = "helm" /\ config.fail_open) \/ Supported(r)'
    BY <2>1 DEF Supported, Subjects, Obtain
  <2> QED
    BY <1>2, <2>1, <2>2 DEF InHand, Obtain, Judging
<1> QED
  BY <1>1, <1>2

\* An entry of either tier says something true of the target that hits it.
LEMMA HitHand ==
    ASSUME TypeOK, Flow, EvidenceInv, NEW r \in Requests,
           pc[r] \in {"get_vulnerable", "get_clean"},
           CacheHit(r, clean) \/ CacheHit(r, vulnerable)
    PROVE  \A q \in Requests : InHand(q)'
<1>1. PICK scan \in clean[CacheKey(r)] \cup vulnerable[CacheKey(r)] : Obtain(r, scan)
  BY DEF CacheHit
<1>2. CacheKey(r) \in CacheKeys
  BY CacheKeyType
<1>3. scan \in Scans
  BY <1>1, <1>2 DEF TypeOK
<1>4. /\ target[r] \in Targets /\ body[r] \in Contents \cup {NoBody}
      /\ Kind[target[r]] \in {"package", "helm", "image"}
      /\ (Kind[target[r]] = "image") = (body[r] # NoBody)
  BY DEF TypeOK, Flow
<1>5. \/ Kind[target[r]] = "helm" /\ config.fail_open
      \/ \E s \in Subjects(r), d \in 0..db : scan = Truth[d][s]
  <2>1. CASE Kind[target[r]] = "image"
    <3>1. CacheKey(r) = <<target[r], body[r]>>
      BY <2>1 DEF CacheKey
    <3>2. \E s \in {body[r]}, d \in 0..db : s # NoBody /\ scan = Truth[d][s]
      BY <1>1, <1>4, <2>1, <3>1 DEF EvidenceInv, CacheIsEvidence, Evident
    <3> QED
      BY <2>1, <3>2 DEF Subjects
  <2>2. CASE Kind[target[r]] = "helm"
    <3>1. CacheKey(r) = <<target[r], NoBody>>
      BY <2>2 DEF CacheKey
    <3>2. \/ config.fail_open
          \/ \E s \in Contents, d \in 0..db : s # NoBody /\ scan = Truth[d][s]
      BY <1>1, <1>4, <2>2, <3>1 DEF EvidenceInv, CacheIsEvidence, Evident
    <3> QED
      BY <1>4, <2>2, <3>2 DEF Subjects
  <2>3. CASE Kind[target[r]] = "package"
    <3>1. CacheKey(r) = <<target[r], NoBody>>
      BY <2>3 DEF CacheKey
    <3>2. \E s \in {target[r]}, d \in 0..db : s # NoBody /\ scan = Truth[d][s]
      BY <1>1, <1>4, <2>3, <3>1 DEF EvidenceInv, CacheIsEvidence, Evident
    <3> QED
      BY <2>3, <3>2 DEF Subjects
  <2> QED
    BY <1>4, <2>1, <2>2, <2>3
<1> QED
  BY <1>1, <1>3, <1>5, ObtainHand DEF CacheHit, EvidenceInv, Judging

\* Every step keeps what handlers hold before judging evidence of their target.
LEMMA HandStep == TypeOK /\ Flow /\ EvidenceInv /\ [Next]_vars => \A q \in Requests : InHand(q)'
<1> SUFFICES ASSUME TypeOK, Flow, EvidenceInv, [Next]_vars PROVE \A q \in Requests : InHand(q)'
  OBVIOUS
<1>0. /\ pc \in [Requests -> Waiting \cup {"idle", "done", "gone"}]
      /\ target \in [Requests -> Targets]
      /\ body \in [Requests -> Contents \cup {NoBody}]
      /\ findings \in [Requests -> Scans]
      /\ since \in [Requests -> SUBSET Policies]
      /\ db \in 0..MaxDb /\ MaxDb \in Nat
  BY GatewayAssumptions DEF TypeOK
<1>h. \A q \in Requests : InHand(q)
  BY DEF EvidenceInv
<1> USE <1>0, <1>h
<1>1. ASSUME NEW r \in Requests, NEW t \in Targets, NEW verb \in Verbs,
             NEW ranged \in BOOLEAN, NEW known \in BOOLEAN,
             Arrive(r, t, verb, ranged, known)
      PROVE  \A q \in Requests : InHand(q)'
  <2>1. Route(Kind[t], verb, ranged, known) \notin Judging
    <3>1. Kind[t] \in Kinds
      BY GatewayAssumptions
    <3> QED
      BY <3>1, RouteFlow DEF Answers, Judging
  <2>2. \A q \in Requests : HandFrame(q)
    BY <1>1, <2>1 DEF Arrive, Continue, Answer, HandFrame, InHand, Judging, Flow
  <2>3. config' = config /\ db' = db
    BY <1>1 DEF Arrive
  <2> QED
    BY <1>0, <2>2, <2>3, HandKept
<1>2. ASSUME NEW r \in Requests, GetVulnerable(r) PROVE \A q \in Requests : InHand(q)'
  <2>1. CASE CacheHit(r, vulnerable)
    BY <1>2, <2>1, HitHand DEF GetVulnerable
  <2>2. CASE CacheMiss(r, vulnerable, "get_clean")
    <3>1. \A q \in Requests : HandFrame(q)
      BY <2>2 DEF CacheMiss, Continue, HandFrame, InHand, Judging
    <3>2. config' = config /\ db' = db
      BY <2>2 DEF CacheMiss
    <3> QED
      BY <3>1, <3>2, HandKept
  <2> QED
    BY <1>2, <2>1, <2>2 DEF GetVulnerable
<1>3. ASSUME NEW r \in Requests, GetClean(r) PROVE \A q \in Requests : InHand(q)'
  <2>1. CASE CacheHit(r, clean)
    BY <1>3, <2>1, HitHand DEF GetClean
  <2>2. CASE \E label \in {"osv", "permit"} : CacheMiss(r, clean, label)
    <3>1. \A q \in Requests : HandFrame(q)
      BY <2>2 DEF CacheMiss, Continue, HandFrame, InHand, Judging
    <3>2. config' = config /\ db' = db
      BY <2>2 DEF CacheMiss
    <3> QED
      BY <3>1, <3>2, HandKept
  <2> QED
    BY <1>3, <2>1, <2>2 DEF GetClean
<1>4. ASSUME NEW r \in Requests, PutCacheInvalidate(r) PROVE \A q \in Requests : InHand(q)'
  <2>1. \A q \in Requests : HandFrame(q)
    BY <1>4 DEF PutCacheInvalidate, Continue, HandFrame, InHand, Judging
  <2>2. config' = config /\ db' = db
    BY <1>4 DEF PutCacheInvalidate
  <2> QED
    BY <1>0, <2>1, <2>2, HandKept
<1>5. ASSUME NEW r \in Requests, PutCacheInsert(r) PROVE \A q \in Requests : InHand(q)'
  <2>1. \A q \in Requests : HandFrame(q)
    BY <1>5 DEF PutCacheInsert, Continue, HandFrame, InHand, Judging
  <2>2. config' = config /\ db' = db
    BY <1>5 DEF PutCacheInsert
  <2> QED
    BY <1>0, <2>1, <2>2, HandKept
<1>6. ASSUME NEW r \in Requests, OsvAnswers(r) PROVE \A q \in Requests : InHand(q)'
  <2>1. Kind[target[r]] = "package" /\ Truth[db][Subject(r)] \in Scans
    BY <1>6, TruthType DEF OsvAnswers, Flow
  <2>2. \E s \in Subjects(r), d \in 0..db : Truth[db][Subject(r)] = Truth[d][s]
    BY <2>1 DEF Subjects, Subject
  <2> QED
    BY <1>6, <2>1, <2>2, ObtainHand DEF OsvAnswers, Judging
<1>7. ASSUME NEW r \in Requests, OsvFails(r) PROVE \A q \in Requests : InHand(q)'
  <2>1. \A q \in Requests : HandFrame(q)
    BY <1>7 DEF OsvFails, Continue, Answer, HandFrame, InHand, Judging
  <2>2. config' = config /\ db' = db
    BY <1>7 DEF OsvFails
  <2> QED
    BY <1>0, <2>1, <2>2, HandKept
<1>8. ASSUME NEW r \in Requests, FetchManifest(r) PROVE \A q \in Requests : InHand(q)'
  <2>1. \A q \in Requests : HandFrame(q)
    BY <1>8 DEF FetchManifest, Fetched, Continue, Stored, Flow, HandFrame, InHand, Judging
  <2>2. config' = config /\ db' = db
    BY <1>8 DEF FetchManifest, Fetched
  <2> QED
    BY <1>0, <2>1, <2>2, HandKept
<1>9. ASSUME NEW r \in Requests, FetchIndex(r) PROVE \A q \in Requests : InHand(q)'
  <2>1. \A q \in Requests : HandFrame(q)
    BY <1>9 DEF FetchIndex, Fetched, Answer, Flow, HandFrame, InHand, Judging
  <2>2. config' = config /\ db' = db
    BY <1>9 DEF FetchIndex, Fetched
  <2> QED
    BY <1>0, <2>1, <2>2, HandKept
<1>10. ASSUME NEW r \in Requests, FetchUnusable(r) PROVE \A q \in Requests : InHand(q)'
  <2>1. \A q \in Requests : HandFrame(q)
    BY <1>10 DEF FetchUnusable, Fetched, Answer, Flow, HandFrame, InHand, Judging
  <2>2. config' = config /\ db' = db
    BY <1>10 DEF FetchUnusable, Fetched
  <2> QED
    BY <1>0, <2>1, <2>2, HandKept
<1>11. ASSUME NEW r \in Requests, FetchFails(r) PROVE \A q \in Requests : InHand(q)'
  <2>1. \A q \in Requests : HandFrame(q)
    BY <1>11 DEF FetchFails, Continue, Answer, Flow, HandFrame, InHand, Judging
  <2>2. config' = config /\ db' = db
    BY <1>11 DEF FetchFails, Fetched
  <2> QED
    BY <1>0, <2>1, <2>2, HandKept
<1>12. ASSUME NEW r \in Requests, AcquirePermit(r) PROVE \A q \in Requests : InHand(q)'
  <2>1. \A q \in Requests : HandFrame(q)
    BY <1>12 DEF AcquirePermit, Continue, HandFrame, InHand, Judging
  <2>2. config' = config /\ db' = db
    BY <1>12 DEF AcquirePermit
  <2> QED
    BY <1>0, <2>1, <2>2, HandKept
<1>13. ASSUME NEW r \in Requests, PrefetchCompletes(r) PROVE \A q \in Requests : InHand(q)'
  <2>1. \A q \in Requests : HandFrame(q)
    BY <1>13 DEF PrefetchCompletes, Continue, Stored, Flow, HandFrame, InHand, Judging
  <2>2. config' = config /\ db' = db
    BY <1>13 DEF PrefetchCompletes
  <2> QED
    BY <1>0, <2>1, <2>2, HandKept
<1>14. ASSUME NEW r \in Requests, PrefetchTooLarge(r) PROVE \A q \in Requests : InHand(q)'
  <2>1. \A q \in Requests : HandFrame(q)
    BY <1>14 DEF PrefetchTooLarge, Continue, Flow, HandFrame, InHand, Judging
  <2>2. config' = config /\ db' = db
    BY <1>14 DEF PrefetchTooLarge
  <2> QED
    BY <1>0, <2>1, <2>2, HandKept
<1>15. ASSUME NEW r \in Requests, PrefetchFails(r) PROVE \A q \in Requests : InHand(q)'
  <2>1. \A q \in Requests : HandFrame(q)
    BY <1>15 DEF PrefetchFails, Continue, Answer, HandFrame, InHand, Judging
  <2>2. config' = config /\ db' = db
    BY <1>15 DEF PrefetchFails
  <2> QED
    BY <1>0, <2>1, <2>2, HandKept
<1>16. ASSUME NEW r \in Requests, RenderChart(r) PROVE \A q \in Requests : InHand(q)'
  <2>1. \A q \in Requests : HandFrame(q)
    BY <1>16 DEF RenderChart, Continue, HandFrame, InHand, Judging
  <2>2. config' = config /\ db' = db
    BY <1>16 DEF RenderChart
  <2> QED
    BY <1>0, <2>1, <2>2, HandKept
<1>17. ASSUME NEW r \in Requests, RenderNoImages(r) PROVE \A q \in Requests : InHand(q)'
  <2>1. /\ body[r] # NoBody /\ Kind[target[r]] # "package"
        /\ Truth[db][Subject(r)] \in Scans
    BY <1>17, TruthType DEF RenderNoImages, Flow
  <2>2. \E s \in Subjects(r), d \in 0..db : Truth[db][Subject(r)] = Truth[d][s]
    BY <2>1 DEF Subjects, Subject
  <2>3. /\ Obtain(r, Truth[db][Subject(r)]) /\ Continue(r, "put_invalidate")
        /\ UNCHANGED <<body, worldVars>>
    BY <1>17 DEF RenderNoImages, ScanReports
  <2> QED
    BY <2>1, <2>2, <2>3, ObtainHand DEF Judging
<1>18. ASSUME NEW r \in Requests, ScanSucceeds(r) PROVE \A q \in Requests : InHand(q)'
  <2>1. /\ body[r] # NoBody /\ Kind[target[r]] # "package"
        /\ Truth[db][Subject(r)] \in Scans
    BY <1>18, TruthType DEF ScanSucceeds, Flow
  <2>2. \E s \in Subjects(r), d \in 0..db : Truth[db][Subject(r)] = Truth[d][s]
    BY <2>1 DEF Subjects, Subject
  <2>3. /\ Obtain(r, Truth[db][Subject(r)]) /\ Continue(r, "put_invalidate")
        /\ UNCHANGED <<body, worldVars>>
    BY <1>18 DEF ScanSucceeds, ScanReports
  <2> QED
    BY <2>1, <2>2, <2>3, ObtainHand DEF Judging
<1>19. ASSUME NEW r \in Requests, ScanPartial(r) PROVE \A q \in Requests : InHand(q)'
  <2>1. /\ body[r] # NoBody /\ Kind[target[r]] = "helm" /\ config.fail_open
        /\ Truth[db][Subject(r)] \in Scans
    BY <1>19, TruthType DEF ScanPartial, Flow
  <2>2. PICK scan \in SUBSET Truth[db][Subject(r)] : ScanReports(r, scan)
    BY <1>19 DEF ScanPartial
  <2>3. scan \in Scans
    BY <2>1 DEF Scans
  <2> QED
    BY <2>1, <2>2, <2>3, ObtainHand DEF ScanReports, Judging
<1>20. ASSUME NEW r \in Requests, ScanFails(r) PROVE \A q \in Requests : InHand(q)'
  <2>1. \A q \in Requests : HandFrame(q)
    BY <1>20 DEF ScanFails, ScanGivesUp, Answer, HandFrame, InHand, Judging
  <2>2. config' = config /\ db' = db
    BY <1>20 DEF ScanFails, ScanGivesUp
  <2> QED
    BY <1>0, <2>1, <2>2, HandKept
<1>21. ASSUME NEW r \in Requests, ScanTimesOut(r) PROVE \A q \in Requests : InHand(q)'
  <2>1. \A q \in Requests : HandFrame(q)
    BY <1>21 DEF ScanTimesOut, ScanGivesUp, Answer, HandFrame, InHand, Judging
  <2>2. config' = config /\ db' = db
    BY <1>21 DEF ScanTimesOut, ScanGivesUp
  <2> QED
    BY <1>0, <2>1, <2>2, HandKept
<1>22. ASSUME NEW r \in Requests, ScannerExits(r) PROVE \A q \in Requests : InHand(q)'
  <2>1. \A q \in Requests : HandFrame(q)
    BY <1>22 DEF ScannerExits, HandFrame, InHand, Judging
  <2>2. config' = config /\ db' = db
    BY <1>22 DEF ScannerExits
  <2> QED
    BY <1>0, <2>1, <2>2, HandKept
<1>23. ASSUME NEW r \in Requests, EvaluatePolicy(r) PROVE \A q \in Requests : InHand(q)'
  <2>1. \A q \in Requests : HandFrame(q)
    BY <1>23 DEF EvaluatePolicy, Release, Continue, Answer, HandFrame, InHand, Judging
  <2>2. config' = config /\ db' = db
    BY <1>23 DEF EvaluatePolicy
  <2> QED
    BY <1>0, <2>1, <2>2, HandKept
<1>24. ASSUME NEW r \in Requests, UnsupportedTarget(r) PROVE \A q \in Requests : InHand(q)'
  <2>1. \A q \in Requests : HandFrame(q)
    BY <1>24 DEF UnsupportedTarget, Continue, Answer, HandFrame, InHand, Judging
  <2>2. config' = config /\ db' = db
    BY <1>24 DEF UnsupportedTarget
  <2> QED
    BY <1>0, <2>1, <2>2, HandKept
<1>25. ASSUME NEW r \in Requests, VerifySkipped(r) PROVE \A q \in Requests : InHand(q)'
  <2>1. \A q \in Requests : HandFrame(q)
    BY <1>25 DEF VerifySkipped, Continue, HandFrame, InHand, Judging
  <2>2. config' = config /\ db' = db
    BY <1>25 DEF VerifySkipped
  <2> QED
    BY <1>0, <2>1, <2>2, HandKept
<1>26. ASSUME NEW r \in Requests, VerifyAccepted(r) PROVE \A q \in Requests : InHand(q)'
  <2>1. \A q \in Requests : HandFrame(q)
    BY <1>26 DEF VerifyAccepted, Continue, HandFrame, InHand, Judging
  <2>2. config' = config /\ db' = db
    BY <1>26 DEF VerifyAccepted
  <2> QED
    BY <1>0, <2>1, <2>2, HandKept
<1>27. ASSUME NEW r \in Requests, VerifyRefused(r) PROVE \A q \in Requests : InHand(q)'
  <2>1. \A q \in Requests : HandFrame(q)
    BY <1>27 DEF VerifyRefused, Answer, HandFrame, InHand, Judging
  <2>2. config' = config /\ db' = db
    BY <1>27 DEF VerifyRefused
  <2> QED
    BY <1>0, <2>1, <2>2, HandKept
<1>28. ASSUME NEW r \in Requests, ReportCreated(r) PROVE \A q \in Requests : InHand(q)'
  <2>1. \A q \in Requests : HandFrame(q)
    BY <1>28 DEF ReportCreated, Continue, HandFrame, InHand, Judging
  <2>2. config' = config /\ db' = db
    BY <1>28 DEF ReportCreated
  <2> QED
    BY <1>0, <2>1, <2>2, HandKept
<1>29. ASSUME NEW r \in Requests, ReportFails(r) PROVE \A q \in Requests : InHand(q)'
  <2>1. \A q \in Requests : HandFrame(q)
    BY <1>29 DEF ReportFails, Answer, HandFrame, InHand, Judging
  <2>2. config' = config /\ db' = db
    BY <1>29 DEF ReportFails
  <2> QED
    BY <1>0, <2>1, <2>2, HandKept
<1>30. ASSUME NEW r \in Requests, NotifyAndForbid(r) PROVE \A q \in Requests : InHand(q)'
  <2>1. \A q \in Requests : HandFrame(q)
    BY <1>30 DEF NotifyAndForbid, Answer, HandFrame, InHand, Judging
  <2>2. config' = config /\ db' = db
    BY <1>30 DEF NotifyAndForbid
  <2> QED
    BY <1>0, <2>1, <2>2, HandKept
<1>31. ASSUME NEW r \in Requests, Forward(r) PROVE \A q \in Requests : InHand(q)'
  <2>1. \A q \in Requests : HandFrame(q)
    BY <1>31 DEF Forward, Answer, Flow, Stored, HandFrame, InHand, Judging
  <2>2. config' = config /\ db' = db
    BY <1>31 DEF Forward
  <2> QED
    BY <1>0, <2>1, <2>2, HandKept
<1>32. ASSUME NEW r \in Requests, Disconnect(r) PROVE \A q \in Requests : InHand(q)'
  <2>1. \A q \in Requests : HandFrame(q)
    BY <1>32 DEF Disconnect, HandFrame, InHand, Judging
  <2>2. config' = config /\ db' = db
    BY <1>32 DEF Disconnect
  <2> QED
    BY <1>0, <2>1, <2>2, HandKept
<1>33. ASSUME NEW p \in Policies, ReloadPolicy(p) PROVE \A q \in Requests : InHand(q)'
  <2>1. \A q \in Requests : HandFrame(q)
    BY <1>33 DEF ReloadPolicy, HandFrame, InHand, Judging
  <2>2. config' = config /\ db' \in Nat /\ db <= db'
    BY <1>33 DEF ReloadPolicy
  <2> QED
    BY <2>1, <2>2, HandKept
<1>34. CASE UpdateDb
  <2>1. \A q \in Requests : HandFrame(q)
    BY <1>34 DEF UpdateDb, HandFrame, InHand, Judging
  <2>2. config' = config /\ db' \in Nat /\ db <= db'
    BY <1>34 DEF UpdateDb
  <2> QED
    BY <2>1, <2>2, HandKept
<1>35. ASSUME NEW t \in Stored, NEW c \in Contents, Publish(t, c) PROVE \A q \in Requests : InHand(q)'
  <2>1. \A q \in Requests : HandFrame(q)
    BY <1>35 DEF Publish, HandFrame, InHand, Judging
  <2>2. config' = config /\ db' \in Nat /\ db <= db'
    BY <1>35 DEF Publish
  <2> QED
    BY <2>1, <2>2, HandKept
<1>36. ASSUME NEW k \in CacheKeys, ExpireEntry(k) PROVE \A q \in Requests : InHand(q)'
  <2>1. \A q \in Requests : HandFrame(q)
    BY <1>36 DEF ExpireEntry, HandFrame, InHand, Judging
  <2>2. config' = config /\ db' \in Nat /\ db <= db'
    BY <1>36 DEF ExpireEntry
  <2> QED
    BY <2>1, <2>2, HandKept
<1>37. CASE UNCHANGED vars
  <2>1. \A q \in Requests : HandFrame(q)
    BY <1>37 DEF vars, HandFrame, InHand, Judging
  <2>2. config' = config /\ db' \in Nat /\ db <= db'
    BY <1>37 DEF vars
  <2> QED
    BY <2>1, <2>2, HandKept
<1> QED
  BY <1>1, <1>2, <1>3, <1>4, <1>5, <1>6, <1>7, <1>8, <1>9, <1>10, <1>11,
     <1>12, <1>13, <1>14, <1>15, <1>16, <1>17, <1>18, <1>19, <1>20, <1>21,
     <1>22, <1>23, <1>24, <1>25, <1>26, <1>27, <1>28, <1>29, <1>30, <1>31,
     <1>32, <1>33, <1>34, <1>35, <1>36, <1>37
     DEF Next, Handle, Render, World

\* Entries that stay, or go, are evidence as long as the database only grows.
LEMMA CacheKept ==
    ASSUME CacheIsEvidence, config' = config, db \in Nat, db' \in Nat, db <= db',
           \A k \in CacheKeys : clean'[k] \subseteq clean[k]
                                /\ vulnerable'[k] \subseteq vulnerable[k]
    PROVE  CacheIsEvidence'
<1>1. 0..db \subseteq 0..db'
  OBVIOUS
<1>2. \A t \in Targets, b \in Contents \cup {NoBody} :
         clean'[<<t, b>>] \cup vulnerable'[<<t, b>>]
            \subseteq clean[<<t, b>>] \cup vulnerable[<<t, b>>]
  BY DEF CacheKeys
<1> QED
  BY <1>1, <1>2 DEF CacheIsEvidence

\* Every step keeps both cache tiers evidence of the targets they are keyed by.
LEMMA CacheStep == TypeOK /\ Flow /\ EvidenceInv /\ [Next]_vars => CacheIsEvidence'
<1> SUFFICES ASSUME TypeOK, Flow, EvidenceInv, [Next]_vars PROVE CacheIsEvidence'
  OBVIOUS
<1>0. /\ db \in 0..MaxDb /\ MaxDb \in Nat /\ db \in Nat
      /\ clean \in [CacheKeys -> SUBSET Scans]
      /\ vulnerable \in [CacheKeys -> SUBSET Scans]
      /\ CacheIsEvidence
  BY GatewayAssumptions DEF TypeOK, EvidenceInv
<1> USE <1>0
<1>1. ASSUME NEW r \in Requests, NEW t \in Targets, NEW verb \in Verbs,
             NEW ranged \in BOOLEAN, NEW known \in BOOLEAN,
             Arrive(r, t, verb, ranged, known)
      PROVE  CacheIsEvidence'
  BY <1>1, CacheKept DEF Arrive
<1>2. ASSUME NEW r \in Requests, GetVulnerable(r) PROVE CacheIsEvidence'
  BY <1>2, CacheKept DEF GetVulnerable, CacheHit, CacheMiss
<1>3. ASSUME NEW r \in Requests, GetClean(r) PROVE CacheIsEvidence'
  BY <1>3, CacheKept DEF GetClean, CacheHit, CacheMiss
<1>4. ASSUME NEW r \in Requests, PutCacheInvalidate(r) PROVE CacheIsEvidence'
  <2>1. \A k \in CacheKeys : clean'[k] \subseteq clean[k]
                             /\ vulnerable'[k] \subseteq vulnerable[k]
    BY <1>4 DEF PutCacheInvalidate, PutInvalidate
  <2> QED
    BY <1>4, <2>1, CacheKept DEF PutCacheInvalidate
<1>5. ASSUME NEW r \in Requests, PutCacheInsert(r) PROVE CacheIsEvidence'
  <2>1. /\ config' = config /\ db' = db
        /\ InHand(r) /\ pc[r] = "put_insert" /\ target[r] \in Targets
        /\ body[r] \in Contents \cup {NoBody}
        /\ Kind[target[r]] \in {"package", "helm", "image"}
    BY <1>5 DEF PutCacheInsert, EvidenceInv, TypeOK, Flow
  <2>2. ASSUME NEW k \in CacheKeys, k # CacheKey(r)
        PROVE  clean'[k] = clean[k] /\ vulnerable'[k] = vulnerable[k]
    BY <1>5, <2>2 DEF PutCacheInsert, PutInsert
  <2>3. /\ clean'[CacheKey(r)] \subseteq clean[CacheKey(r)] \cup {findings[r]}
        /\ vulnerable'[CacheKey(r)] \subseteq vulnerable[CacheKey(r)] \cup {findings[r]}
    BY <1>5, CacheKeyType DEF PutCacheInsert, PutInsert
  <2>4. (Kind[target[r]] = "helm" /\ config.fail_open) \/ Supported(r)
    BY <2>1 DEF InHand, Judging
  <2> SUFFICES ASSUME NEW t \in Targets, NEW b \in Contents \cup {NoBody},
                      ~(Kind[t] = "helm" /\ config.fail_open),
                      NEW scan \in clean'[<<t, b>>] \cup vulnerable'[<<t, b>>]
               PROVE  \E x \in Evident(t, b), d \in 0..db : x # NoBody /\ scan = Truth[d][x]
    BY <2>1 DEF CacheIsEvidence, Evident
  <2>5. CASE scan \in clean[<<t, b>>] \cup vulnerable[<<t, b>>]
    BY <2>5 DEF EvidenceInv, CacheIsEvidence, Evident
  <2>6. CASE scan \notin clean[<<t, b>>] \cup vulnerable[<<t, b>>]
    <3>1. <<t, b>> = CacheKey(r) /\ scan = findings[r]
      BY <2>2, <2>3, <2>6 DEF CacheKeys
    <3>2. t = target[r] /\ b = IF Kind[t] = "image" THEN body[r] ELSE NoBody
      BY <3>1 DEF CacheKey
    <3>3. PICK x \in Subjects(r), d \in 0..db : scan = Truth[d][x]
      BY <2>4, <3>1, <3>2 DEF Supported
    <3>4. x \in Evident(t, b) /\ x # NoBody
      BY <2>1, <3>2, <3>3, GatewayAssumptions DEF Subjects, Evident, InHand
    <3> QED
      BY <3>3, <3>4
  <2> QED
    BY <2>5, <2>6
<1>6. ASSUME NEW r \in Requests, OsvAnswers(r) PROVE CacheIsEvidence'
  BY <1>6, CacheKept DEF OsvAnswers
<1>7. ASSUME NEW r \in Requests, OsvFails(r) PROVE CacheIsEvidence'
  BY <1>7, CacheKept DEF OsvFails
<1>8. ASSUME NEW r \in Requests, FetchManifest(r) PROVE CacheIsEvidence'
  BY <1>8, CacheKept DEF FetchManifest, Fetched
<1>9. ASSUME NEW r \in Requests, FetchIndex(r) PROVE CacheIsEvidence'
  BY <1>9, CacheKept DEF FetchIndex, Fetched
<1>10. ASSUME NEW r \in Requests, FetchUnusable(r) PROVE CacheIsEvidence'
  BY <1>10, CacheKept DEF FetchUnusable, Fetched
<1>11. ASSUME NEW r \in Requests, FetchFails(r) PROVE CacheIsEvidence'
  BY <1>11, CacheKept DEF FetchFails
<1>12. ASSUME NEW r \in Requests, AcquirePermit(r) PROVE CacheIsEvidence'
  BY <1>12, CacheKept DEF AcquirePermit
<1>13. ASSUME NEW r \in Requests, PrefetchCompletes(r) PROVE CacheIsEvidence'
  BY <1>13, CacheKept DEF PrefetchCompletes
<1>14. ASSUME NEW r \in Requests, PrefetchTooLarge(r) PROVE CacheIsEvidence'
  BY <1>14, CacheKept DEF PrefetchTooLarge
<1>15. ASSUME NEW r \in Requests, PrefetchFails(r) PROVE CacheIsEvidence'
  BY <1>15, CacheKept DEF PrefetchFails
<1>16. ASSUME NEW r \in Requests, RenderChart(r) PROVE CacheIsEvidence'
  BY <1>16, CacheKept DEF RenderChart
<1>17. ASSUME NEW r \in Requests, RenderNoImages(r) PROVE CacheIsEvidence'
  BY <1>17, CacheKept DEF RenderNoImages, ScanReports
<1>18. ASSUME NEW r \in Requests, ScanSucceeds(r) PROVE CacheIsEvidence'
  BY <1>18, CacheKept DEF ScanSucceeds, ScanReports
<1>19. ASSUME NEW r \in Requests, ScanPartial(r) PROVE CacheIsEvidence'
  BY <1>19, CacheKept DEF ScanPartial, ScanReports
<1>20. ASSUME NEW r \in Requests, ScanFails(r) PROVE CacheIsEvidence'
  BY <1>20, CacheKept DEF ScanFails, ScanGivesUp
<1>21. ASSUME NEW r \in Requests, ScanTimesOut(r) PROVE CacheIsEvidence'
  BY <1>21, CacheKept DEF ScanTimesOut, ScanGivesUp
<1>22. ASSUME NEW r \in Requests, ScannerExits(r) PROVE CacheIsEvidence'
  BY <1>22, CacheKept DEF ScannerExits
<1>23. ASSUME NEW r \in Requests, EvaluatePolicy(r) PROVE CacheIsEvidence'
  BY <1>23, CacheKept DEF EvaluatePolicy
<1>24. ASSUME NEW r \in Requests, UnsupportedTarget(r) PROVE CacheIsEvidence'
  BY <1>24, CacheKept DEF UnsupportedTarget
<1>25. ASSUME NEW r \in Requests, VerifySkipped(r) PROVE CacheIsEvidence'
  BY <1>25, CacheKept DEF VerifySkipped
<1>26. ASSUME NEW r \in Requests, VerifyAccepted(r) PROVE CacheIsEvidence'
  BY <1>26, CacheKept DEF VerifyAccepted
<1>27. ASSUME NEW r \in Requests, VerifyRefused(r) PROVE CacheIsEvidence'
  BY <1>27, CacheKept DEF VerifyRefused
<1>28. ASSUME NEW r \in Requests, ReportCreated(r) PROVE CacheIsEvidence'
  BY <1>28, CacheKept DEF ReportCreated
<1>29. ASSUME NEW r \in Requests, ReportFails(r) PROVE CacheIsEvidence'
  BY <1>29, CacheKept DEF ReportFails
<1>30. ASSUME NEW r \in Requests, NotifyAndForbid(r) PROVE CacheIsEvidence'
  BY <1>30, CacheKept DEF NotifyAndForbid
<1>31. ASSUME NEW r \in Requests, Forward(r) PROVE CacheIsEvidence'
  BY <1>31, CacheKept DEF Forward
<1>32. ASSUME NEW r \in Requests, Disconnect(r) PROVE CacheIsEvidence'
  BY <1>32, CacheKept DEF Disconnect
<1>33. ASSUME NEW p \in Policies, ReloadPolicy(p) PROVE CacheIsEvidence'
  BY <1>33, CacheKept DEF ReloadPolicy
<1>34. CASE UpdateDb
  BY <1>34, CacheKept DEF UpdateDb
<1>35. ASSUME NEW t \in Stored, NEW c \in Contents, Publish(t, c) PROVE CacheIsEvidence'
  BY <1>35, CacheKept DEF Publish
<1>36. ASSUME NEW k \in CacheKeys, ExpireEntry(k) PROVE CacheIsEvidence'
  <2>1. \A q \in CacheKeys : clean'[q] \subseteq clean[q]
                             /\ vulnerable'[q] \subseteq vulnerable[q]
    BY <1>36 DEF ExpireEntry, ExpireClean, ExpireVulnerable
  <2> QED
    BY <1>36, <2>1, CacheKept DEF ExpireEntry
<1>37. CASE UNCHANGED vars
  BY <1>37, CacheKept DEF vars
<1> QED
  BY <1>1, <1>2, <1>3, <1>4, <1>5, <1>6, <1>7, <1>8, <1>9, <1>10, <1>11,
     <1>12, <1>13, <1>14, <1>15, <1>16, <1>17, <1>18, <1>19, <1>20, <1>21,
     <1>22, <1>23, <1>24, <1>25, <1>26, <1>27, <1>28, <1>29, <1>30, <1>31,
     <1>32, <1>33, <1>34, <1>35, <1>36, <1>37
     DEF Next, Handle, Render, World

\* A release stays judged while others move.
LEMMA ReleaseKept ==
    ASSUME NEW q \in Requests, ReleaseOK(q), ReleaseFrame(q),
           config' = config, db \in Nat, db' \in Nat, db <= db'
    PROVE  ReleaseOK(q)'
<1>1. CASE pc'[q] # "forward" /\ response'[q] \notin {"buffered", "forwarded"}
  BY <1>1 DEF ReleaseFrame, ReleaseOK
<1>2. CASE ~(pc'[q] # "forward" /\ response'[q] \notin {"buffered", "forwarded"})
  <2>1. 0..db \subseteq 0..db'
    OBVIOUS
  <2>2. since'[q] = since[q] /\ target'[q] = target[q] /\ method'[q] = method[q]
    BY <1>2 DEF ReleaseFrame
  <2>3. \A s : Judged(q, s) => Judged(q, s)'
    BY <2>1, <2>2 DEF Judged
  <2>4. ForwardJudged(q) => ForwardJudged(q)'
    BY <2>2, <2>3 DEF ForwardJudged
  <2>5. (response[q] = "buffered" /\ body'[q] = body[q] /\ Judged(q, body[q]))
           => Judged(q, body[q])'
    BY <2>3
  <2> QED
    BY <1>2, <2>2, <2>4, <2>5 DEF ReleaseFrame, ReleaseOK
<1> QED
  BY <1>1, <1>2

\* No step changes the configuration of the process.
LEMMA ConfigFixed == [Next]_vars => config' = config
BY DEF Next, Handle, Render, World, vars, Arrive, GetVulnerable, GetClean, CacheHit,
       CacheMiss, PutCacheInvalidate, PutCacheInsert, OsvAnswers, OsvFails,
       FetchManifest, FetchIndex, FetchUnusable, Fetched, FetchFails, AcquirePermit,
       PrefetchCompletes, PrefetchTooLarge, PrefetchFails, RenderChart,
       RenderNoImages, ScanSucceeds, ScanPartial, ScanReports, ScanFails,
       ScanTimesOut, ScanGivesUp, ScannerExits, EvaluatePolicy, UnsupportedTarget,
       VerifySkipped, VerifyAccepted, VerifyRefused, ReportCreated, ReportFails,
       NotifyAndForbid, Forward, Disconnect, ReloadPolicy, UpdateDb, Publish,
       ExpireEntry

\* What proxy_handler forwards without looking at it.
LEMMA RouteForward ==
    ASSUME NEW kind \in Kinds, NEW verb \in Verbs,
           NEW ranged \in BOOLEAN, NEW known \in BOOLEAN
    PROVE  /\ Route(kind, verb, ranged, known) \notin {"buffered", "forwarded"}
           /\ (Route(kind, verb, ranged, known) = "forward" /\ verb # "PUT") =>
                /\ kind # "package"
                /\ kind = "helm" => verb = "HEAD" /\ "helm" \in config.mapped
                /\ kind = "image" => \/ verb = "HEAD" \/ ~config.docker
                                     \/ "docker" \notin config.mapped
<1>1. CASE kind = "image"
  <2>1. Route(kind, verb, ranged, known) = DockerRoute(verb, known)
    BY <1>1 DEF Route
  <2> QED
    BY <1>1, <2>1 DEF DockerRoute, Verbs
<1>2. CASE kind = "helm" /\ known /\ verb \in {"GET", "HEAD"}
  <2>1. Route(kind, verb, ranged, known) = ArtifactRoute(verb, ranged)
    BY <1>2 DEF Route
  <2> QED
    BY <1>2, <2>1 DEF ArtifactRoute
<1>3. CASE kind = "helm" /\ ~(known /\ verb \in {"GET", "HEAD"})
  BY <1>3 DEF Route, Verbs
<1>4. CASE kind \notin {"image", "helm"}
  BY <1>4 DEF Kinds, Verbs, Route
<1> QED
  BY <1>1, <1>2, <1>3, <1>4

\* Every step releases only what the active policy judged on evidence.
LEMMA ReleaseStep ==
    TypeOK /\ Flow /\ EvidenceInv /\ ReleaseInv /\ [Next]_vars => ReleaseInv'
<1> SUFFICES ASSUME TypeOK, Flow, EvidenceInv, ReleaseInv, [Next]_vars, Closed'
             PROVE  \A q \in Requests : ReleaseOK(q)'
  BY DEF ReleaseInv
<1>c. Closed
  BY ConfigFixed DEF Closed
<1>0. /\ pc \in [Requests -> Waiting \cup {"idle", "done", "gone"}]
      /\ response \in [Requests -> Answers \cup {"none"}]
      /\ target \in [Requests -> Targets]
      /\ method \in [Requests -> Verbs]
      /\ body \in [Requests -> Contents \cup {NoBody}]
      /\ since \in [Requests -> SUBSET Policies]
      /\ db \in 0..MaxDb /\ MaxDb \in Nat /\ db \in Nat
      /\ config' = config
  BY GatewayAssumptions, ConfigFixed DEF TypeOK
<1>h. ~config.fail_open /\ config.unsupported = "block" /\ \A q \in Requests : ReleaseOK(q)
  BY <1>c DEF ReleaseInv, Closed
<1> USE <1>0, <1>h
<1>1. ASSUME NEW r \in Requests, NEW t \in Targets, NEW verb \in Verbs,
             NEW ranged \in BOOLEAN, NEW known \in BOOLEAN,
             Arrive(r, t, verb, ranged, known)
      PROVE  \A q \in Requests : ReleaseOK(q)'
  <2>1. Kind[t] \in Kinds
    BY GatewayAssumptions
  <2>2. db' = db /\ \A q \in Requests \ {r} : ReleaseFrame(q)
    BY <1>1 DEF Arrive, Continue, Answer, ReleaseFrame, ReleaseOK
  <2>3. /\ target'[r] = t /\ method'[r] = verb
        /\ \/ pc'[r] = "done" /\ response'[r] = Route(Kind[t], verb, ranged, known)
           \/ pc'[r] = Route(Kind[t], verb, ranged, known) /\ response'[r] = "none"
    BY <1>1 DEF Arrive, Continue, Answer, ReleaseOK
  <2>4. /\ response'[r] \notin {"buffered", "forwarded"}
        /\ pc'[r] # "done" => response'[r] = "none"
    BY <2>1, <2>3, RouteForward
  <2>5. (pc'[r] = "forward" /\ method'[r] # "PUT") => ForwardJudged(r)'
    BY <2>1, <2>3, RouteForward DEF ForwardJudged
  <2>6. ReleaseOK(r)'
    BY <2>4, <2>5 DEF ReleaseOK
  <2> QED
    BY <2>2, <2>6, ReleaseKept
<1>2. ASSUME NEW r \in Requests, GetVulnerable(r) PROVE \A q \in Requests : ReleaseOK(q)'
  <2>1. db' = db /\ \A q \in Requests : ReleaseFrame(q)
    BY <1>2 DEF GetVulnerable, CacheHit, CacheMiss, Obtain, Continue, ReleaseFrame, ReleaseOK, Waiting
  <2> QED
    BY <2>1, ReleaseKept
<1>3. ASSUME NEW r \in Requests, GetClean(r) PROVE \A q \in Requests : ReleaseOK(q)'
  <2>1. db' = db /\ \A q \in Requests : ReleaseFrame(q)
    BY <1>3 DEF GetClean, CacheHit, CacheMiss, Obtain, Continue, ReleaseFrame, ReleaseOK, Waiting
  <2> QED
    BY <2>1, ReleaseKept
<1>4. ASSUME NEW r \in Requests, PutCacheInvalidate(r) PROVE \A q \in Requests : ReleaseOK(q)'
  <2>1. db' = db /\ \A q \in Requests : ReleaseFrame(q)
    BY <1>4 DEF PutCacheInvalidate, Continue, ReleaseFrame, ReleaseOK, Waiting
  <2> QED
    BY <2>1, ReleaseKept
<1>5. ASSUME NEW r \in Requests, PutCacheInsert(r) PROVE \A q \in Requests : ReleaseOK(q)'
  <2>1. db' = db /\ \A q \in Requests : ReleaseFrame(q)
    BY <1>5 DEF PutCacheInsert, Continue, ReleaseFrame, ReleaseOK, Waiting
  <2> QED
    BY <2>1, ReleaseKept
<1>6. ASSUME NEW r \in Requests, OsvAnswers(r) PROVE \A q \in Requests : ReleaseOK(q)'
  <2>1. db' = db /\ \A q \in Requests : ReleaseFrame(q)
    BY <1>6 DEF OsvAnswers, Obtain, Continue, ReleaseFrame, ReleaseOK, Waiting
  <2> QED
    BY <2>1, ReleaseKept
<1>7. ASSUME NEW r \in Requests, OsvFails(r) PROVE \A q \in Requests : ReleaseOK(q)'
  <2>1. db' = db /\ \A q \in Requests : ReleaseFrame(q)
    BY <1>7 DEF OsvFails, Continue, Answer, ReleaseFrame, ReleaseOK, Waiting
  <2> QED
    BY <2>1, ReleaseKept
<1>8. ASSUME NEW r \in Requests, FetchManifest(r) PROVE \A q \in Requests : ReleaseOK(q)'
  <2>1. db' = db /\ \A q \in Requests : ReleaseFrame(q)
    BY <1>8 DEF FetchManifest, Fetched, Continue, Stored, ReleaseFrame, ReleaseOK, Waiting
  <2> QED
    BY <2>1, ReleaseKept
<1>9. ASSUME NEW r \in Requests, FetchIndex(r) PROVE \A q \in Requests : ReleaseOK(q)'
  <2>1. db' = db /\ \A q \in Requests : ReleaseFrame(q)
    BY <1>9 DEF FetchIndex, Fetched, Answer, ReleaseFrame, ReleaseOK, Waiting
  <2> QED
    BY <2>1, ReleaseKept
<1>10. ASSUME NEW r \in Requests, FetchUnusable(r) PROVE \A q \in Requests : ReleaseOK(q)'
  <2>1. db' = db /\ \A q \in Requests : ReleaseFrame(q)
    BY <1>10 DEF FetchUnusable, Fetched, Answer, ReleaseFrame, ReleaseOK, Waiting
  <2> QED
    BY <2>1, ReleaseKept
<1>11. ASSUME NEW r \in Requests, FetchFails(r) PROVE \A q \in Requests : ReleaseOK(q)'
  <2>1. db' = db /\ \A q \in Requests : ReleaseFrame(q)
    BY <1>11 DEF FetchFails, Continue, Answer, ReleaseFrame, ReleaseOK, Waiting
  <2> QED
    BY <2>1, ReleaseKept
<1>12. ASSUME NEW r \in Requests, AcquirePermit(r) PROVE \A q \in Requests : ReleaseOK(q)'
  <2>1. db' = db /\ \A q \in Requests : ReleaseFrame(q)
    BY <1>12 DEF AcquirePermit, Continue, ReleaseFrame, ReleaseOK, Waiting
  <2> QED
    BY <2>1, ReleaseKept
<1>13. ASSUME NEW r \in Requests, PrefetchCompletes(r) PROVE \A q \in Requests : ReleaseOK(q)'
  <2>1. db' = db /\ \A q \in Requests : ReleaseFrame(q)
    BY <1>13 DEF PrefetchCompletes, Continue, Stored, ReleaseFrame, ReleaseOK, Waiting
  <2> QED
    BY <2>1, ReleaseKept
<1>14. ASSUME NEW r \in Requests, PrefetchTooLarge(r) PROVE \A q \in Requests : ReleaseOK(q)'
  <2>1. db' = db /\ \A q \in Requests : ReleaseFrame(q)
    BY <1>14 DEF PrefetchTooLarge, Continue, ReleaseFrame, ReleaseOK, Waiting
  <2> QED
    BY <2>1, ReleaseKept
<1>15. ASSUME NEW r \in Requests, PrefetchFails(r) PROVE \A q \in Requests : ReleaseOK(q)'
  <2>1. db' = db /\ \A q \in Requests : ReleaseFrame(q)
    BY <1>15 DEF PrefetchFails, Continue, Answer, ReleaseFrame, ReleaseOK, Waiting
  <2> QED
    BY <2>1, ReleaseKept
<1>16. ASSUME NEW r \in Requests, RenderChart(r) PROVE \A q \in Requests : ReleaseOK(q)'
  <2>1. db' = db /\ \A q \in Requests : ReleaseFrame(q)
    BY <1>16 DEF RenderChart, Continue, ReleaseFrame, ReleaseOK, Waiting
  <2> QED
    BY <2>1, ReleaseKept
<1>17. ASSUME NEW r \in Requests, RenderNoImages(r) PROVE \A q \in Requests : ReleaseOK(q)'
  <2>1. db' = db /\ \A q \in Requests : ReleaseFrame(q)
    BY <1>17 DEF RenderNoImages, ScanReports, Obtain, Continue, ReleaseFrame, ReleaseOK, Waiting
  <2> QED
    BY <2>1, ReleaseKept
<1>18. ASSUME NEW r \in Requests, ScanSucceeds(r) PROVE \A q \in Requests : ReleaseOK(q)'
  <2>1. db' = db /\ \A q \in Requests : ReleaseFrame(q)
    BY <1>18 DEF ScanSucceeds, ScanReports, Obtain, Continue, ReleaseFrame, ReleaseOK, Waiting
  <2> QED
    BY <2>1, ReleaseKept
<1>19. ASSUME NEW r \in Requests, ScanPartial(r) PROVE \A q \in Requests : ReleaseOK(q)'
  <2>1. db' = db /\ \A q \in Requests : ReleaseFrame(q)
    BY <1>19 DEF ScanPartial, ScanReports, Obtain, Continue, ReleaseFrame, ReleaseOK, Waiting
  <2> QED
    BY <2>1, ReleaseKept
<1>20. ASSUME NEW r \in Requests, ScanFails(r) PROVE \A q \in Requests : ReleaseOK(q)'
  <2>1. db' = db /\ \A q \in Requests : ReleaseFrame(q)
    BY <1>20 DEF ScanFails, ScanGivesUp, Answer, ReleaseFrame, ReleaseOK, Waiting
  <2> QED
    BY <2>1, ReleaseKept
<1>21. ASSUME NEW r \in Requests, ScanTimesOut(r) PROVE \A q \in Requests : ReleaseOK(q)'
  <2>1. db' = db /\ \A q \in Requests : ReleaseFrame(q)
    BY <1>21 DEF ScanTimesOut, ScanGivesUp, Answer, ReleaseFrame, ReleaseOK, Waiting
  <2> QED
    BY <2>1, ReleaseKept
<1>22. ASSUME NEW r \in Requests, ScannerExits(r) PROVE \A q \in Requests : ReleaseOK(q)'
  <2>1. db' = db /\ \A q \in Requests : ReleaseFrame(q)
    BY <1>22 DEF ScannerExits, ReleaseFrame, ReleaseOK, Waiting
  <2> QED
    BY <2>1, ReleaseKept
<1>23. ASSUME NEW r \in Requests, EvaluatePolicy(r) PROVE \A q \in Requests : ReleaseOK(q)'
  <2> DEFINE outcome == Outcome(policy, target[r], findings[r])
  <2>1. db' = db /\ \A q \in Requests \ {r} : ReleaseFrame(q)
    BY <1>23 DEF EvaluatePolicy, Release, Continue, Answer, ReleaseFrame, ReleaseOK
  <2>2. CASE outcome = "Blocked"
    <3>1. ReleaseFrame(r)
      BY <1>23, <2>2 DEF EvaluatePolicy, Continue, ReleaseFrame, ReleaseOK
    <3> QED
      BY <2>1, <3>1, ReleaseKept
  <2>3. CASE outcome # "Blocked"
    <3>1. /\ InHand(r) /\ pc[r] = "evaluate"
          /\ Kind[target[r]] \in {"package", "helm", "image"}
      BY <1>23 DEF EvaluatePolicy, EvidenceInv, Flow
    <3>2. policy \in since[r] /\ Supported(r)
      BY <3>1 DEF InHand, Judging
    <3>3. PICK s \in Subjects(r), d \in 0..db : findings[r] = Truth[d][s]
      BY <3>2 DEF Supported
    <3>4. Judged(r, s)'
      BY <1>23, <2>3, <3>2, <3>3 DEF EvaluatePolicy, Judged
    <3>5. CASE body[r] # NoBody
      <4>1. s = body[r]
        BY <3>1, <3>3, <3>5 DEF Subjects, InHand
      <4>2. pc'[r] = "done" /\ response'[r] = "buffered" /\ body' = body
        BY <1>23, <2>3, <3>5 DEF EvaluatePolicy, Release, Answer
      <4> QED
        BY <2>1, <3>4, <4>1, <4>2, ReleaseKept DEF ReleaseOK
    <3>6. CASE body[r] = NoBody
      <4>1. \/ Kind[target[r]] = "package" /\ s = target[r]
            \/ Kind[target[r]] = "helm" /\ s \in Contents
        BY <3>1, <3>3, <3>6 DEF Subjects
      <4>2. pc'[r] = "forward" /\ response'[r] = "none" /\ target' = target
        BY <1>23, <2>3, <3>1, <3>6 DEF EvaluatePolicy, Release, Continue, ReleaseOK
      <4>3. ForwardJudged(r)'
        BY <3>4, <4>1, <4>2 DEF ForwardJudged
      <4> QED
        BY <2>1, <4>2, <4>3, ReleaseKept DEF ReleaseOK
    <3> QED
      BY <3>5, <3>6
  <2> QED
    BY <2>2, <2>3
<1>24. ASSUME NEW r \in Requests, UnsupportedTarget(r) PROVE \A q \in Requests : ReleaseOK(q)'
  <2>1. db' = db /\ \A q \in Requests : ReleaseFrame(q)
    BY <1>24 DEF UnsupportedTarget, Continue, Answer, ReleaseFrame, ReleaseOK, Waiting
  <2> QED
    BY <2>1, ReleaseKept
<1>25. ASSUME NEW r \in Requests, VerifySkipped(r) PROVE \A q \in Requests : ReleaseOK(q)'
  <2>1. db' = db /\ \A q \in Requests : ReleaseFrame(q)
    BY <1>25 DEF VerifySkipped, Continue, ReleaseFrame, ReleaseOK, Waiting
  <2> QED
    BY <2>1, ReleaseKept
<1>26. ASSUME NEW r \in Requests, VerifyAccepted(r) PROVE \A q \in Requests : ReleaseOK(q)'
  <2>1. db' = db /\ \A q \in Requests : ReleaseFrame(q)
    BY <1>26 DEF VerifyAccepted, Continue, ReleaseFrame, ReleaseOK, Waiting
  <2> QED
    BY <2>1, ReleaseKept
<1>27. ASSUME NEW r \in Requests, VerifyRefused(r) PROVE \A q \in Requests : ReleaseOK(q)'
  <2>1. db' = db /\ \A q \in Requests : ReleaseFrame(q)
    BY <1>27 DEF VerifyRefused, Answer, ReleaseFrame, ReleaseOK, Waiting
  <2> QED
    BY <2>1, ReleaseKept
<1>28. ASSUME NEW r \in Requests, ReportCreated(r) PROVE \A q \in Requests : ReleaseOK(q)'
  <2>1. db' = db /\ \A q \in Requests : ReleaseFrame(q)
    BY <1>28 DEF ReportCreated, Continue, ReleaseFrame, ReleaseOK, Waiting
  <2> QED
    BY <2>1, ReleaseKept
<1>29. ASSUME NEW r \in Requests, ReportFails(r) PROVE \A q \in Requests : ReleaseOK(q)'
  <2>1. db' = db /\ \A q \in Requests : ReleaseFrame(q)
    BY <1>29 DEF ReportFails, Answer, ReleaseFrame, ReleaseOK, Waiting
  <2> QED
    BY <2>1, ReleaseKept
<1>30. ASSUME NEW r \in Requests, NotifyAndForbid(r) PROVE \A q \in Requests : ReleaseOK(q)'
  <2>1. db' = db /\ \A q \in Requests : ReleaseFrame(q)
    BY <1>30 DEF NotifyAndForbid, Answer, ReleaseFrame, ReleaseOK, Waiting
  <2> QED
    BY <2>1, ReleaseKept
<1>31. ASSUME NEW r \in Requests, Forward(r) PROVE \A q \in Requests : ReleaseOK(q)'
  <2>1. db' = db /\ \A q \in Requests : ReleaseFrame(q)
    BY <1>31 DEF Forward, Answer, ReleaseFrame, ReleaseOK, Waiting
  <2> QED
    BY <2>1, ReleaseKept
<1>32. ASSUME NEW r \in Requests, Disconnect(r) PROVE \A q \in Requests : ReleaseOK(q)'
  <2>1. db' = db /\ \A q \in Requests : ReleaseFrame(q)
    BY <1>32 DEF Disconnect, ReleaseFrame, ReleaseOK, Waiting
  <2> QED
    BY <2>1, ReleaseKept
<1>33. ASSUME NEW p \in Policies, ReloadPolicy(p) PROVE \A q \in Requests : ReleaseOK(q)'
  <2>1. db' \in Nat /\ db <= db' /\ \A q \in Requests : ReleaseFrame(q)
    BY <1>33 DEF ReloadPolicy, Waiting, ReleaseFrame, ReleaseOK
  <2> QED
    BY <2>1, ReleaseKept
<1>34. CASE UpdateDb
  <2>1. db' \in Nat /\ db <= db' /\ \A q \in Requests : ReleaseFrame(q)
    BY <1>34 DEF UpdateDb, ReleaseFrame, ReleaseOK
  <2> QED
    BY <2>1, ReleaseKept
<1>35. ASSUME NEW t \in Stored, NEW c \in Contents, Publish(t, c) PROVE \A q \in Requests : ReleaseOK(q)'
  <2>1. db' \in Nat /\ db <= db' /\ \A q \in Requests : ReleaseFrame(q)
    BY <1>35 DEF Publish, ReleaseFrame, ReleaseOK
  <2> QED
    BY <2>1, ReleaseKept
<1>36. ASSUME NEW k \in CacheKeys, ExpireEntry(k) PROVE \A q \in Requests : ReleaseOK(q)'
  <2>1. db' \in Nat /\ db <= db' /\ \A q \in Requests : ReleaseFrame(q)
    BY <1>36 DEF ExpireEntry, ReleaseFrame, ReleaseOK
  <2> QED
    BY <2>1, ReleaseKept
<1>37. CASE UNCHANGED vars
  <2>1. db' \in Nat /\ db <= db' /\ \A q \in Requests : ReleaseFrame(q)
    BY <1>37 DEF vars, ReleaseFrame, ReleaseOK
  <2> QED
    BY <2>1, ReleaseKept
<1> QED
  BY <1>1, <1>2, <1>3, <1>4, <1>5, <1>6, <1>7, <1>8, <1>9, <1>10, <1>11,
     <1>12, <1>13, <1>14, <1>15, <1>16, <1>17, <1>18, <1>19, <1>20, <1>21,
     <1>22, <1>23, <1>24, <1>25, <1>26, <1>27, <1>28, <1>29, <1>30, <1>31,
     <1>32, <1>33, <1>34, <1>35, <1>36, <1>37
     DEF Next, Handle, Render, World

\* Admission sees one request move on, and no report and no message.
QuietMove(r) ==
    /\ pc[r] \notin {"done", "gone"}
    /\ response'[r] # "forbidden"
    /\ \/ verdict'[r] = verdict[r]
       \/ /\ verdict[r] \notin {"Blocked", "Unsupported"}
          /\ verdict'[r] \in {"Blocked", "Unsupported"} => pc'[r] \notin {"done", "gone"}
    /\ reports' = reports /\ notified' = notified

\* A step leaves alone what Admission sees of a request.
FateKept(q) == pc'[q] = pc[q] /\ verdict'[q] = verdict[q] /\ response'[q] = response[q]

\* A step that touches nothing of a request leaves its fate alone.
LEMMA FateStays ==
    ASSUME NEW q \in Requests, FateKept(q)
    PROVE  Fate(q)' = Fate(q)
BY DEF FateKept, Fate

\* A step of one request changes the fates at that request only.
LEMMA FatesMove ==
    ASSUME NEW r \in Requests, \A q \in Requests \ {r} : FateKept(q)
    PROVE  [q \in Requests |-> Fate(q)]' = [[q \in Requests |-> Fate(q)] EXCEPT ![r] = Fate(r)']
<1>1. \A q \in Requests \ {r} : Fate(q)' = Fate(q)
  BY FateStays
<1> HIDE DEF Fate
<1> QED
  BY <1>1

\* A step that touches nothing of any request is a stutter of Admission.
LEMMA AdmissionStutters ==
    ASSUME \A q \in Requests : FateKept(q), reports' = reports, notified' = notified
    PROVE  UNCHANGED Enforcement!vars
<1>1. \A q \in Requests : Fate(q)' = Fate(q)
  BY FateStays
<1> HIDE DEF Fate
<1> QED
  BY <1>1 DEF Enforcement!vars

\* A quiet move releases, turns away, bars or fails the request, or leaves
\* its fate as it is.
LEMMA AdmissionMoves ==
    ASSUME TypeOK, BlockInv, BlockInv', NEW r \in Requests, QuietMove(r),
           \A q \in Requests \ {r} : FateKept(q)
    PROVE  [Enforcement!Next]_(Enforcement!vars)
<1> DEFINE fates == [q \in Requests |-> Fate(q)]
<1>1. fates' = [fates EXCEPT ![r] = Fate(r)'] /\ fates[r] = Fate(r)
  BY FatesMove
<1>2. response[r] = "none"
  BY DEF BlockInv, QuietMove
<1>3. \/ Fate(r)' = Fate(r)
      \/ Fate(r) = "open" /\ Fate(r)' \in {"released", "turned_away", "barred"}
      \/ Fate(r) = "barred" /\ Fate(r)' = "failed"
  <2>1. CASE verdict[r] \in {"Blocked", "Unsupported"}
    BY <1>2, <2>1 DEF BlockInv, QuietMove, Fate
  <2>2. CASE verdict[r] \notin {"Blocked", "Unsupported"}
    BY <1>2, <2>2 DEF BlockInv, QuietMove, Fate
  <2> QED
    BY <2>1, <2>2
<1>4. reports' = reports /\ notified' = notified
  BY DEF QuietMove
<1> HIDE DEF fates, Fate
<1>5. CASE Fate(r)' = Fate(r)
  <2>1. fates' = fates
    BY <1>1, <1>5 DEF fates
  <2> QED
    BY <1>4, <2>1 DEF fates, Enforcement!vars
<1>6. CASE Fate(r) = "open" /\ Fate(r)' \in {"released", "turned_away", "barred"}
  BY <1>1, <1>4, <1>6 DEF fates, Enforcement!Next, Enforcement!Release,
     Enforcement!TurnAway, Enforcement!Bar, Enforcement!Settle
<1>7. CASE Fate(r) = "barred" /\ Fate(r)' = "failed"
  BY <1>1, <1>4, <1>7 DEF fates, Enforcement!Next, Enforcement!Fail, Enforcement!Settle
<1> QED
  BY <1>3, <1>5, <1>6, <1>7

\* Every step of the handlers is a step of Admission, or none.
LEMMA AdmissionStep ==
    TypeOK /\ BlockInv /\ BlockInv' /\ SequenceInv /\ [Next]_vars
        => [Enforcement!Next]_(Enforcement!vars)
<1> DEFINE Kept == [Enforcement!Next]_(Enforcement!vars)
<1> SUFFICES ASSUME TypeOK, BlockInv, BlockInv', SequenceInv, [Next]_vars PROVE Kept
  OBVIOUS
<1>0. /\ pc \in [Requests -> Waiting \cup {"idle", "done", "gone"}]
      /\ response \in [Requests -> Answers \cup {"none"}]
      /\ verdict \in [Requests -> Outcomes \cup {"none", "Unsupported"}]
  BY DEF TypeOK
<1>q. ASSUME NEW r \in Requests, QuietMove(r), \A q \in Requests \ {r} : FateKept(q)
      PROVE  Kept
  BY <1>q, AdmissionMoves
<1>s. ASSUME \A q \in Requests : FateKept(q), reports' = reports, notified' = notified
      PROVE  Kept
  BY <1>s, AdmissionStutters
<1>b. \A r \in Requests : pc[r] \in {"verify", "report", "recipient"} =>
         Fate(r) = "barred" /\ response[r] = "none"
  BY DEF SequenceInv, Fate
<1> HIDE DEF Kept
<1> USE <1>0
<1>1. ASSUME NEW r \in Requests, NEW t \in Targets, NEW verb \in Verbs,
             NEW ranged \in BOOLEAN, NEW known \in BOOLEAN,
             Arrive(r, t, verb, ranged, known)
      PROVE  Kept
  <2>1. Route(Kind[t], verb, ranged, known) # "forbidden"
    <3>1. Kind[t] \in Kinds
      BY GatewayAssumptions
    <3> QED
      BY <3>1 DEF Kinds, Verbs, Route, DockerRoute, ArtifactRoute
  <2>2. response[r] = "none"
    BY <1>1 DEF Arrive, BlockInv
  <2>3. QuietMove(r) /\ \A q \in Requests \ {r} : FateKept(q)
    BY <1>1, <2>1, <2>2 DEF Arrive, Continue, Answer, QuietMove, FateKept
  <2> QED
    BY <2>3, <1>q
<1>2. ASSUME NEW r \in Requests, GetVulnerable(r) PROVE Kept
  <2>1. QuietMove(r) /\ \A q \in Requests \ {r} : FateKept(q)
    BY <1>2 DEF GetVulnerable, CacheHit, CacheMiss, Obtain, Continue, QuietMove, FateKept, BlockInv
  <2> QED
    BY <2>1, <1>q
<1>3. ASSUME NEW r \in Requests, GetClean(r) PROVE Kept
  <2>1. QuietMove(r) /\ \A q \in Requests \ {r} : FateKept(q)
    BY <1>3 DEF GetClean, CacheHit, CacheMiss, Obtain, Continue, QuietMove, FateKept, BlockInv
  <2> QED
    BY <2>1, <1>q
<1>4. ASSUME NEW r \in Requests, PutCacheInvalidate(r) PROVE Kept
  <2>1. QuietMove(r) /\ \A q \in Requests \ {r} : FateKept(q)
    BY <1>4 DEF PutCacheInvalidate, Continue, QuietMove, FateKept, BlockInv
  <2> QED
    BY <2>1, <1>q
<1>5. ASSUME NEW r \in Requests, PutCacheInsert(r) PROVE Kept
  <2>1. QuietMove(r) /\ \A q \in Requests \ {r} : FateKept(q)
    BY <1>5 DEF PutCacheInsert, Continue, QuietMove, FateKept, BlockInv
  <2> QED
    BY <2>1, <1>q
<1>6. ASSUME NEW r \in Requests, OsvAnswers(r) PROVE Kept
  <2>1. QuietMove(r) /\ \A q \in Requests \ {r} : FateKept(q)
    BY <1>6 DEF OsvAnswers, Obtain, Continue, QuietMove, FateKept, BlockInv
  <2> QED
    BY <2>1, <1>q
<1>7. ASSUME NEW r \in Requests, OsvFails(r) PROVE Kept
  <2>1. QuietMove(r) /\ \A q \in Requests \ {r} : FateKept(q)
    BY <1>7 DEF OsvFails, Continue, Answer, QuietMove, FateKept, BlockInv
  <2> QED
    BY <2>1, <1>q
<1>8. ASSUME NEW r \in Requests, FetchManifest(r) PROVE Kept
  <2>1. QuietMove(r) /\ \A q \in Requests \ {r} : FateKept(q)
    BY <1>8 DEF FetchManifest, Fetched, Continue, Stored, QuietMove, FateKept, BlockInv
  <2> QED
    BY <2>1, <1>q
<1>9. ASSUME NEW r \in Requests, FetchIndex(r) PROVE Kept
  <2>1. QuietMove(r) /\ \A q \in Requests \ {r} : FateKept(q)
    BY <1>9 DEF FetchIndex, Fetched, Answer, QuietMove, FateKept, BlockInv
  <2> QED
    BY <2>1, <1>q
<1>10. ASSUME NEW r \in Requests, FetchUnusable(r) PROVE Kept
  <2>1. QuietMove(r) /\ \A q \in Requests \ {r} : FateKept(q)
    BY <1>10 DEF FetchUnusable, Fetched, Answer, QuietMove, FateKept, BlockInv
  <2> QED
    BY <2>1, <1>q
<1>11. ASSUME NEW r \in Requests, FetchFails(r) PROVE Kept
  <2>1. QuietMove(r) /\ \A q \in Requests \ {r} : FateKept(q)
    BY <1>11 DEF FetchFails, Continue, Answer, QuietMove, FateKept, BlockInv
  <2> QED
    BY <2>1, <1>q
<1>12. ASSUME NEW r \in Requests, AcquirePermit(r) PROVE Kept
  <2>1. QuietMove(r) /\ \A q \in Requests \ {r} : FateKept(q)
    BY <1>12 DEF AcquirePermit, Continue, QuietMove, FateKept, BlockInv
  <2> QED
    BY <2>1, <1>q
<1>13. ASSUME NEW r \in Requests, PrefetchCompletes(r) PROVE Kept
  <2>1. QuietMove(r) /\ \A q \in Requests \ {r} : FateKept(q)
    BY <1>13 DEF PrefetchCompletes, Continue, Stored, QuietMove, FateKept, BlockInv
  <2> QED
    BY <2>1, <1>q
<1>14. ASSUME NEW r \in Requests, PrefetchTooLarge(r) PROVE Kept
  <2>1. QuietMove(r) /\ \A q \in Requests \ {r} : FateKept(q)
    BY <1>14 DEF PrefetchTooLarge, Continue, QuietMove, FateKept, BlockInv
  <2> QED
    BY <2>1, <1>q
<1>15. ASSUME NEW r \in Requests, PrefetchFails(r) PROVE Kept
  <2>1. QuietMove(r) /\ \A q \in Requests \ {r} : FateKept(q)
    BY <1>15 DEF PrefetchFails, Continue, Answer, QuietMove, FateKept, BlockInv
  <2> QED
    BY <2>1, <1>q
<1>16. ASSUME NEW r \in Requests, RenderChart(r) PROVE Kept
  <2>1. QuietMove(r) /\ \A q \in Requests \ {r} : FateKept(q)
    BY <1>16 DEF RenderChart, Continue, QuietMove, FateKept, BlockInv
  <2> QED
    BY <2>1, <1>q
<1>17. ASSUME NEW r \in Requests, RenderNoImages(r) PROVE Kept
  <2>1. QuietMove(r) /\ \A q \in Requests \ {r} : FateKept(q)
    BY <1>17 DEF RenderNoImages, ScanReports, Obtain, Continue, QuietMove, FateKept, BlockInv
  <2> QED
    BY <2>1, <1>q
<1>18. ASSUME NEW r \in Requests, ScanSucceeds(r) PROVE Kept
  <2>1. QuietMove(r) /\ \A q \in Requests \ {r} : FateKept(q)
    BY <1>18 DEF ScanSucceeds, ScanReports, Obtain, Continue, QuietMove, FateKept, BlockInv
  <2> QED
    BY <2>1, <1>q
<1>19. ASSUME NEW r \in Requests, ScanPartial(r) PROVE Kept
  <2>1. QuietMove(r) /\ \A q \in Requests \ {r} : FateKept(q)
    BY <1>19 DEF ScanPartial, ScanReports, Obtain, Continue, QuietMove, FateKept, BlockInv
  <2> QED
    BY <2>1, <1>q
<1>20. ASSUME NEW r \in Requests, ScanFails(r) PROVE Kept
  <2>1. QuietMove(r) /\ \A q \in Requests \ {r} : FateKept(q)
    BY <1>20 DEF ScanFails, ScanGivesUp, Answer, QuietMove, FateKept, BlockInv
  <2> QED
    BY <2>1, <1>q
<1>21. ASSUME NEW r \in Requests, ScanTimesOut(r) PROVE Kept
  <2>1. QuietMove(r) /\ \A q \in Requests \ {r} : FateKept(q)
    BY <1>21 DEF ScanTimesOut, ScanGivesUp, Answer, QuietMove, FateKept, BlockInv
  <2> QED
    BY <2>1, <1>q
<1>22. ASSUME NEW r \in Requests, ScannerExits(r) PROVE Kept
  BY <1>22, <1>s DEF ScannerExits, FateKept
<1>23. ASSUME NEW r \in Requests, EvaluatePolicy(r) PROVE Kept
  <2>1. CASE Outcome(policy, target[r], findings[r]) = "Blocked"
    <3>1. QuietMove(r) /\ \A q \in Requests \ {r} : FateKept(q)
      BY <1>23, <2>1 DEF EvaluatePolicy, Continue, QuietMove, FateKept, BlockInv
    <3> QED
      BY <3>1, <1>q
  <2>2. CASE Outcome(policy, target[r], findings[r]) \in {"Allowed", "ReportOnly"}
    <3>1. CASE body[r] = NoBody
      <4>1. QuietMove(r) /\ \A q \in Requests \ {r} : FateKept(q)
        BY <1>23, <2>2, <3>1 DEF EvaluatePolicy, Release, Continue, QuietMove, FateKept, BlockInv
      <4> QED
        BY <4>1, <1>q
    <3>2. CASE body[r] # NoBody
      <4>1. QuietMove(r) /\ \A q \in Requests \ {r} : FateKept(q)
        BY <1>23, <2>2, <3>2 DEF EvaluatePolicy, Release, Answer, QuietMove, FateKept, BlockInv
      <4> QED
        BY <4>1, <1>q
    <3> QED
      BY <3>1, <3>2
  <2>3. Outcome(policy, target[r], findings[r]) \in Outcomes
    BY GatewayAssumptions DEF TypeOK
  <2> QED
    BY <2>1, <2>2, <2>3 DEF Outcomes
<1>24. ASSUME NEW r \in Requests, UnsupportedTarget(r) PROVE Kept
  <2>1. QuietMove(r) /\ \A q \in Requests \ {r} : FateKept(q)
    BY <1>24 DEF UnsupportedTarget, Continue, Answer, QuietMove, FateKept, BlockInv
  <2> QED
    BY <2>1, <1>q
<1>25. ASSUME NEW r \in Requests, VerifySkipped(r) PROVE Kept
  <2>1. QuietMove(r) /\ \A q \in Requests \ {r} : FateKept(q)
    BY <1>25 DEF VerifySkipped, Continue, QuietMove, FateKept, BlockInv
  <2> QED
    BY <2>1, <1>q
<1>26. ASSUME NEW r \in Requests, VerifyAccepted(r) PROVE Kept
  <2>1. QuietMove(r) /\ \A q \in Requests \ {r} : FateKept(q)
    BY <1>26 DEF VerifyAccepted, Continue, QuietMove, FateKept, BlockInv
  <2> QED
    BY <2>1, <1>q
<1>27. ASSUME NEW r \in Requests, VerifyRefused(r) PROVE Kept
  <2>1. QuietMove(r) /\ \A q \in Requests \ {r} : FateKept(q)
    BY <1>27 DEF VerifyRefused, Answer, QuietMove, FateKept, BlockInv
  <2> QED
    BY <2>1, <1>q
<1>28. ASSUME NEW r \in Requests, ReportCreated(r) PROVE Kept
  <2>1. \A q \in Requests : FateKept(q) \/ (q = r /\ Fate(r) = "barred" /\ Fate(r)' = "barred")
    BY <1>28, <1>b DEF ReportCreated, Continue, FateKept, SequenceInv, Fate
  <2>2. \A q \in Requests : Fate(q)' = Fate(q)
    BY <2>1, FateStays
  <2>3. Fate(r) = "barred" /\ reports' = reports \cup {r} /\ notified' = notified
    BY <1>28, <1>b DEF ReportCreated
  <2> HIDE DEF Fate
  <2>4. Enforcement!Report(r)
    BY <2>2, <2>3 DEF Enforcement!Report
  <2> QED
    BY <2>4 DEF Kept, Enforcement!Next
<1>29. ASSUME NEW r \in Requests, ReportFails(r) PROVE Kept
  <2>1. Fate(r) = "barred" /\ \A q \in Requests \ {r} : FateKept(q)
    BY <1>29, <1>b DEF ReportFails, Answer, FateKept
  <2>2. Fate(r)' = "failed"
    BY <1>29, <1>b DEF ReportFails, Answer, SequenceInv, Fate
  <2>3. Enforcement!Fail(r)
    BY <1>29, <2>1, <2>2, FatesMove DEF ReportFails, Enforcement!Fail, Enforcement!Settle
  <2> QED
    BY <2>3 DEF Kept, Enforcement!Next
<1>30. ASSUME NEW r \in Requests, NotifyAndForbid(r) PROVE Kept
  <2>1. Fate(r) = "barred" /\ \A q \in Requests \ {r} : FateKept(q)
    BY <1>30, <1>b DEF NotifyAndForbid, Answer, FateKept
  <2>2. Fate(r)' = "forbidden" /\ r \in reports
    BY <1>30, <1>b DEF NotifyAndForbid, Answer, SequenceInv, Fate
  <2>3. Enforcement!Forbid(r)
    BY <1>30, <2>1, <2>2, FatesMove DEF NotifyAndForbid, Enforcement!Forbid, Enforcement!Settle
  <2> QED
    BY <2>3 DEF Kept, Enforcement!Next
<1>31. ASSUME NEW r \in Requests, Forward(r) PROVE Kept
  <2>1. QuietMove(r) /\ \A q \in Requests \ {r} : FateKept(q)
    BY <1>31 DEF Forward, Answer, QuietMove, FateKept, BlockInv
  <2> QED
    BY <2>1, <1>q
<1>32. ASSUME NEW r \in Requests, Disconnect(r) PROVE Kept
  <2>0. \A q \in Requests \ {r} : FateKept(q)
    BY <1>32 DEF Disconnect, FateKept
  <2>1. CASE reports' = reports
    <3>1. QuietMove(r)
      BY <1>32, <2>1 DEF Disconnect, Waiting, QuietMove, BlockInv
    <3> QED
      BY <2>0, <3>1, <1>q
  <2>2. CASE reports' # reports
    <3>1. pc[r] = "report" /\ reports' = reports \cup {r}
      BY <1>32, <2>2 DEF Disconnect
    <3>2. Fate(r) = "barred" /\ Fate(r)' = "failed"
      BY <1>32, <3>1, <1>b DEF Disconnect, SequenceInv, Fate
    <3>3. Enforcement!Fail(r)
      BY <1>32, <2>0, <3>1, <3>2, FatesMove
         DEF Disconnect, Enforcement!Fail, Enforcement!Settle
    <3> QED
      BY <3>3 DEF Kept, Enforcement!Next
  <2> QED
    BY <2>1, <2>2
<1>33. ASSUME NEW p \in Policies, ReloadPolicy(p) PROVE Kept
  BY <1>33, <1>s DEF ReloadPolicy, FateKept
<1>34. CASE UpdateDb
  BY <1>34, <1>s DEF UpdateDb, FateKept
<1>35. ASSUME NEW t \in Stored, NEW c \in Contents, Publish(t, c) PROVE Kept
  BY <1>35, <1>s DEF Publish, FateKept
<1>36. ASSUME NEW k \in CacheKeys, ExpireEntry(k) PROVE Kept
  BY <1>36, <1>s DEF ExpireEntry, FateKept
<1>37. CASE UNCHANGED vars
  BY <1>37, <1>s DEF vars, FateKept
<1> QED
  BY <1>1, <1>2, <1>3, <1>4, <1>5, <1>6, <1>7, <1>8, <1>9, <1>10, <1>11,
     <1>12, <1>13, <1>14, <1>15, <1>16, <1>17, <1>18, <1>19, <1>20, <1>21,
     <1>22, <1>23, <1>24, <1>25, <1>26, <1>27, <1>28, <1>29, <1>30, <1>31,
     <1>32, <1>33, <1>34, <1>35, <1>36, <1>37
     DEF Next, Handle, Render, World
------------------------------------------------------------------------------
\* The initial states satisfy every part of the inductive invariants.
LEMMA InitialStates ==
    Init => /\ TypeOK /\ Flow /\ BlockInv /\ PermitsAccounted /\ SequenceInv
            /\ LogInv /\ EvidenceInv /\ ReleaseInv
<1> SUFFICES ASSUME Init
             PROVE  /\ TypeOK /\ Flow /\ BlockInv /\ PermitsAccounted /\ SequenceInv
                    /\ LogInv /\ EvidenceInv /\ ReleaseInv
  OBVIOUS
<1> USE GatewayAssumptions DEF Init
<1>1. TypeOK
  BY DEF TypeOK, Verbs, Scans
<1>2. Flow /\ BlockInv /\ SequenceInv
  BY DEF Flow, BlockInv, SequenceInv
<1>3. PermitsAccounted
  <2>1. Holders = {}
    BY DEF Holders
  <2> QED
    BY <2>1, FS_EmptySet DEF PermitsAccounted
<1>4. LogInv
  BY DEF LogInv
<1>5. EvidenceInv
  <2>1. CacheIsEvidence
    BY DEF CacheIsEvidence, CacheKeys
  <2> QED
    BY <2>1 DEF EvidenceInv, InHand, Judging
<1>6. ReleaseInv
  BY DEF ReleaseInv, ReleaseOK
<1> QED
  BY <1>1, <1>2, <1>3, <1>4, <1>5, <1>6

\* Every variable keeps its type; in particular the scanner semaphore never
\* hands out a permit it does not have.
THEOREM TypeCorrect == Spec => [](TypeOK /\ Flow)
<1>1. Init => TypeOK /\ Flow
  BY InitialStates
<1>2. TypeOK /\ Flow /\ [Next]_vars => (TypeOK /\ Flow)'
  BY TypeStep, FlowStep
<1> QED
  BY <1>1, <1>2, PTL DEF Spec

\* No request that was judged Blocked or Unsupported is ever answered with
\* content from Nexus, whatever fails afterwards and whatever the mode; and
\* Nexus hears of a blocked package only to verify a Basic requester.
THEOREM BlocksAreFinal == Spec => []BlockIsFinal
<1>1. Init => BlockInv
  BY InitialStates
<1>2. TypeOK /\ Flow /\ BlockInv /\ [Next]_vars => BlockInv'
  BY BlockStep
<1>3. BlockInv => BlockIsFinal
  BY DEF BlockInv, BlockIsFinal
<1> QED
  BY <1>1, <1>2, <1>3, TypeCorrect, PTL DEF Spec

\* No permit is lost and none is invented, on any way out of the handler.
THEOREM PermitsAreAccounted == Spec => []PermitsAccounted
<1>1. Init => PermitsAccounted
  BY InitialStates
<1>2. TypeOK /\ PermitsAccounted /\ [Next]_vars => PermitsAccounted'
  BY PermitStep
<1> QED
  BY <1>1, <1>2, TypeCorrect, PTL DEF Spec

\* Verification, report, decision and message come in that order, and a 403
\* is given only for a stored report.
THEOREM BlocksInSequence == Spec => []BlockSequence
<1>1. Init => SequenceInv /\ LogInv
  BY InitialStates
<1>2. TypeOK /\ SequenceInv /\ LogInv /\ [Next]_vars => (SequenceInv /\ LogInv)'
  BY SequenceStep, LogStep
<1>3. SequenceInv /\ LogInv => BlockSequence
  BY DEF SequenceInv, LogInv, Justified, BlockSequence
<1> QED
  BY <1>1, <1>2, <1>3, TypeCorrect, PTL DEF Spec

\* Handlers and cache hold evidence of their targets throughout.
LEMMA EvidenceInvariant == Spec => []EvidenceInv
<1>1. Init => EvidenceInv
  BY InitialStates
<1>2. TypeOK /\ Flow /\ EvidenceInv /\ [Next]_vars => EvidenceInv'
  BY CacheStep, HandStep DEF EvidenceInv
<1> QED
  BY <1>1, <1>2, TypeCorrect, PTL DEF Spec

\* The cache never holds a scan that was not made of what it is filed under.
THEOREM CacheHoldsEvidence == Spec => []CacheIsEvidence
<1>1. EvidenceInv => CacheIsEvidence
  BY DEF EvidenceInv
<1> QED
  BY <1>1, EvidenceInvariant, PTL

\* Nothing is released unjudged when the proxy is configured to fail closed.
THEOREM ReleasesAreJudged == Spec => []ReleaseIsJudged
<1>1. Init => ReleaseInv
  BY InitialStates
<1>2. TypeOK /\ Flow /\ EvidenceInv /\ ReleaseInv /\ [Next]_vars => ReleaseInv'
  BY ReleaseStep
<1>3. ReleaseInv => ReleaseIsJudged
  BY DEF ReleaseInv, ReleaseOK, Closed, ReleaseIsJudged
<1> QED
  BY <1>1, <1>2, <1>3, TypeCorrect, EvidenceInvariant, PTL DEF Spec

\* The handlers implement Admission: every request is decided once and the
\* decision stands, whatever fails later, and a 403 or a message has its
\* report behind it.
THEOREM RequestsKeepAdmission == Spec => KeepsAdmission
<1>1. Init => Enforcement!Init
  BY DEF Init, Enforcement!Init, Fate
<1>2. Init => BlockInv /\ SequenceInv
  BY InitialStates
<1>3. TypeOK /\ Flow /\ BlockInv /\ SequenceInv /\ [Next]_vars => BlockInv' /\ SequenceInv'
  BY BlockStep, SequenceStep
<1>4. TypeOK /\ BlockInv /\ BlockInv' /\ SequenceInv /\ [Next]_vars
        => [Enforcement!Next]_(Enforcement!vars)
  BY AdmissionStep
<1> QED
  BY <1>1, <1>2, <1>3, <1>4, TypeCorrect, PTL DEF Spec, KeepsAdmission, Enforcement!Spec
==============================================================================
