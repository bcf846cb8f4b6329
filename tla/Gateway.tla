------------------------------- MODULE Gateway -------------------------------
(***************************************************************************)
(* The request path of the proxy: proxy_handler with the three             *)
(* authorisation flows it leads to (packages through OSV, Helm charts and  *)
(* Docker manifests through the external scanner), the scan cache, the     *)
(* scanner semaphore, policy evaluation and the enforced-block sequence.   *)
(*                                                                         *)
(* Requests are handled concurrently.  A request's pc names the call it is *)
(* waiting for; one action is what the handler does when that call comes   *)
(* back.  The rest of the world (Nexus content, the vulnerability          *)
(* databases, the administrator's policy, clients that hang up) moves      *)
(* between any two steps.                                                  *)
(***************************************************************************)
EXTENDS Naturals, Sequences, FiniteSets, TierCache

CONSTANTS
    Requests,        \* the requests the proxy receives
    Targets,         \* what a request can ask for
    Kind,            \* Kind[t]: how the proxy classifies target t
    Contents,        \* versions of the bytes Nexus stores
    NoBody,          \* no bytes in hand
    Vulns,           \* vulnerabilities
    Truth,           \* Truth[d][s]: what database version d says of subject s
    MaxDb,           \* bound on the number of database updates
    Policies,        \* policy sets an administrator can install
    Outcome(_, _, _),\* Outcome(p, t, scan): the evaluator's result
    Configs,         \* the start-up configurations considered
    Permits,         \* ARTIFACT_SCANNER_CONCURRENCY
    LogCapacity      \* entries the decision log keeps

Kinds == {"reserved", "other", "metadata", "package", "helm", "image"}
Outcomes == {"Allowed", "ReportOnly", "Blocked"}
Scans == SUBSET Vulns
Verbs == {"GET", "HEAD", "PUT"}   \* PUT stands for every other method
Formats == {"helm", "docker"}
ConfigType ==
    [fail_open : BOOLEAN, unsupported : {"allow", "block"},
     docker : BOOLEAN, mapped : SUBSET Formats]

ASSUME GatewayAssumptions ==
    /\ IsFiniteSet(Requests)
    /\ Targets # {}
    /\ Kind \in [Targets -> Kinds]
    /\ NoBody \notin Targets \cup Contents
    /\ MaxDb \in Nat
    /\ Truth \in [0..MaxDb -> [Targets \cup Contents -> Scans]]
    /\ \A p \in Policies, t \in Targets, s \in Scans :
          Outcome(p, t, s) \in Outcomes
    /\ Configs \subseteq ConfigType
    /\ Permits \in Nat \ {0}
    /\ LogCapacity \in Nat \ {0}

VARIABLES
    config,      \* AppConfig, fixed at start-up
    policy,      \* the active policy set
    db,          \* version of the vulnerability databases
    upstream,    \* the bytes Nexus holds for each target
    available,   \* free permits of artifact_scanner_semaphore
    orphans,     \* requests whose scanner process outlived its handler
    pc,          \* the call each request is waiting for
    target,
    method,
    auth,        \* the credentials that came with the request
    body,        \* the bytes fetched from Nexus for it
    findings,    \* the raw vulnerability list in hand
    verdict,     \* what was decided about it
    response,    \* how it was answered
    reports,     \* requests with a stored Trust report
    log,         \* the decision log, newest first
    notified,    \* requests handed to the messenger
    verified,    \* requests whose requester Nexus accepted
    contacted,   \* requests on whose behalf Nexus was asked for the content
    since        \* policies active since the request's findings were obtained

requestVars == <<target, method, auth, body, findings, verdict, since>>
blockVars == <<reports, log, notified, verified>>
worldVars == <<config, policy, db, upstream>>
scannerVars == <<available, orphans>>
vars == <<requestVars, blockVars, worldVars, scannerVars, cacheVars,
          pc, response, contacted>>

Waiting == {"fetch", "get_vulnerable", "get_clean", "osv", "permit",
            "prefetch", "render", "scan", "put_invalidate", "put_insert",
            "evaluate", "unsupported", "verify", "report", "recipient",
            "forward"}
Answers == {"not_found", "method_unsupported", "misconfigured",
            "unknown_repository", "buffered", "index", "forwarded", "relayed",
            "forbidden", "denied", "unverified", "bad_gateway"}

\* The requests that hold a scanner permit.
Holders == {r \in Requests : pc[r] \in {"prefetch", "render", "scan"}}

\* Cache keys: a Docker manifest is cached under its digest, everything else
\* under its coordinates or its repository and path.
CacheKeys == Targets \X (Contents \cup {NoBody})
CacheKeyOfTag(r) == <<target[r], NoBody>>   \* mutant: manifests cached by tag
CacheKey(r) ==
    IF Kind[target[r]] = "image" THEN <<target[r], body[r]>>
                                 ELSE <<target[r], NoBody>>

\* What a scan of r's target looks at: coordinates, or the fetched bytes.
Subject(r) == IF Kind[target[r]] = "package" THEN target[r] ELSE body[r]

\* The bytes of a target are modelled where the proxy looks at them.
Stored == {t \in Targets : Kind[t] \in {"helm", "image"}}

\* The handler goes on to wait for another call, or is done.
Continue(r, label) ==
    /\ pc' = [pc EXCEPT ![r] = label]
    /\ UNCHANGED response

Answer(r, answer) ==
    /\ pc' = [pc EXCEPT ![r] = "done"]
    /\ response' = [response EXCEPT ![r] = answer]
------------------------------------------------------------------------------
Init ==
    /\ config \in Configs
    /\ policy \in Policies
    /\ db = 0
    /\ upstream \in [Stored -> Contents]
    /\ available = Permits
    /\ orphans = {}
    /\ pc = [r \in Requests |-> "idle"]
    /\ target = [r \in Requests |-> CHOOSE t \in Targets : TRUE]
    /\ method = [r \in Requests |-> "GET"]
    /\ auth = [r \in Requests |-> "none"]
    /\ body = [r \in Requests |-> NoBody]
    /\ findings = [r \in Requests |-> {}]
    /\ verdict = [r \in Requests |-> "none"]
    /\ response = [r \in Requests |-> "none"]
    /\ reports = {}
    /\ log = <<>>
    /\ notified = {}
    /\ verified = {}
    /\ contacted = {}
    /\ since = [r \in Requests |-> {}]
    /\ clean = [k \in CacheKeys |-> {}]
    /\ vulnerable = [k \in CacheKeys |-> {}]
------------------------------------------------------------------------------
(* Routing: proxy_handler and handle_docker_registry_request up to the      *)
(* first call they wait for.                                                *)

\* A path below /v2.  known: the configured Docker repository is in the
\* catalog with format docker (module Catalog shows that it always is).
DockerRoute(verb, known) ==
    IF ~config.docker THEN "forward"
    ELSE IF verb \notin {"GET", "HEAD"} THEN "method_unsupported"
    ELSE IF verb = "HEAD" THEN "forward"
    ELSE IF ~known THEN "misconfigured"
    ELSE IF "docker" \in config.mapped THEN "fetch" ELSE "forward"

\* A Helm chart of a known repository, asked for with GET or HEAD.
ArtifactRoute(verb, ranged) ==
    IF "helm" \notin config.mapped THEN "unsupported"
    ELSE IF verb = "HEAD" THEN "forward"
    ELSE IF ranged THEN "unsupported" ELSE "get_vulnerable"

\* Where a request goes first.  known: its repository is in the catalog
\* snapshot taken for it.
Route(kind, verb, ranged, known) ==
    CASE kind = "reserved" -> "not_found"
      [] kind = "other" -> "forward"
      [] kind = "image" -> DockerRoute(verb, known)
      [] kind \in {"metadata", "package", "helm"} /\ ~known -> "unknown_repository"
      [] kind = "metadata" /\ known -> "forward"
      [] kind \in {"package", "helm"} /\ known /\ verb \notin {"GET", "HEAD"} -> "forward"
      [] kind = "package" /\ known /\ verb \in {"GET", "HEAD"} -> "get_vulnerable"
      [] kind = "helm" /\ known /\ verb \in {"GET", "HEAD"} -> ArtifactRoute(verb, ranged)

\* Requester::basic reads an Authorization header of a repository request,
\* Requester::docker_bearer the token of a manifest request.
Credentials(kind) == {"none", IF kind = "image" THEN "bearer" ELSE "basic"}

Arrive(r, t, verb, ranged, known) ==
    LET route == Route(Kind[t], verb, ranged, known) IN
    /\ pc[r] = "idle"
    /\ \E a \in Credentials(Kind[t]) : auth' = [auth EXCEPT ![r] = a]
    /\ target' = [target EXCEPT ![r] = t]
    /\ method' = [method EXCEPT ![r] = verb]
    /\ IF route \in Answers THEN Answer(r, route) ELSE Continue(r, route)
    /\ UNCHANGED <<body, findings, verdict, since, blockVars, worldVars, scannerVars,
                   cacheVars, contacted>>
------------------------------------------------------------------------------
(* The scan cache, and the evidence it gives.                               *)

\* The request now holds a vulnerability list, and owes it an evaluation
\* under a policy that is active from here on.
Obtain(r, scan) ==
    /\ findings' = [findings EXCEPT ![r] = scan]
    /\ since' = [since EXCEPT ![r] = {policy}]
    /\ UNCHANGED <<target, method, auth, verdict>>

CacheHit(r, tier) ==
    /\ \E scan \in tier[CacheKey(r)] : Obtain(r, scan)
    /\ Continue(r, "evaluate")
    /\ UNCHANGED <<body, blockVars, worldVars, scannerVars, cacheVars, contacted>>

CacheMiss(r, tier, label) ==
    /\ tier[CacheKey(r)] = {}
    /\ Continue(r, label)
    /\ UNCHANGED <<requestVars, blockVars, worldVars, scannerVars, cacheVars, contacted>>

\* MokaScanCache::get asks the vulnerable tier first, then the clean one.
GetVulnerable(r) ==
    /\ pc[r] = "get_vulnerable"
    /\ CacheHit(r, vulnerable) \/ CacheMiss(r, vulnerable, "get_clean")

GetClean(r) ==
    /\ pc[r] = "get_clean"
    /\ \/ CacheHit(r, clean)
       \/ CacheMiss(r, clean, IF Kind[target[r]] = "package" THEN "osv" ELSE "permit")

\* put_cache: MokaScanCache::put, one step per call on a tier.
PutCacheInvalidate(r) ==
    /\ pc[r] = "put_invalidate"
    /\ PutInvalidate(CacheKey(r), findings[r])
    /\ Continue(r, "put_insert")
    /\ UNCHANGED <<requestVars, blockVars, worldVars, scannerVars, contacted>>

PutCacheInsert(r) ==
    /\ pc[r] = "put_insert"
    /\ PutInsert(CacheKey(r), findings[r])
    /\ Continue(r, "evaluate")
    /\ UNCHANGED <<requestVars, blockVars, worldVars, scannerVars, contacted>>
------------------------------------------------------------------------------
(* Packages: authorize_package_target after a cache miss.                   *)

OsvAnswers(r) ==
    /\ pc[r] = "osv"
    /\ Obtain(r, Truth[db][Subject(r)])
    /\ Continue(r, "put_invalidate")
    /\ UNCHANGED <<body, blockVars, worldVars, scannerVars, cacheVars, contacted>>

\* Mutant: a failed query counts as a query without findings.
OsvFailureIsClean(r) ==
    /\ pc[r] = "osv"
    /\ Obtain(r, {})
    /\ Continue(r, "put_invalidate")
    /\ UNCHANGED <<body, blockVars, worldVars, scannerVars, cacheVars, contacted>>

OsvFails(r) ==
    /\ pc[r] = "osv"
    /\ IF config.fail_open THEN Continue(r, "forward") ELSE Answer(r, "denied")
    /\ UNCHANGED <<requestVars, blockVars, worldVars, scannerVars, cacheVars, contacted>>
------------------------------------------------------------------------------
(* Docker manifests: authorize_docker_manifest_inner before the cache.      *)

\* Nexus answers 200: the bytes are in hand, and with them the digest.
Fetched(r) ==
    /\ pc[r] = "fetch"
    /\ body' = [body EXCEPT ![r] = upstream[target[r]]]
    /\ contacted' = contacted \cup {r}
    /\ UNCHANGED <<target, method, auth, findings, verdict, since, blockVars,
                   worldVars, scannerVars, cacheVars>>

FetchManifest(r) == Fetched(r) /\ Continue(r, "get_vulnerable")

\* A manifest list or an attestation is released as it is.
FetchIndex(r) == Fetched(r) /\ Answer(r, "index")

\* docker_manifest_failure: unknown media type, or no digest to scan by.
FetchUnusable(r) ==
    /\ Fetched(r)
    /\ Answer(r, IF config.fail_open THEN "buffered" ELSE "denied")

\* Nexus answers something other than 200, or not at all.
FetchFails(r) ==
    /\ pc[r] = "fetch"
    /\ contacted' = contacted \cup {r}
    /\ \/ Answer(r, "relayed")
       \/ config.fail_open /\ Continue(r, "forward")
       \/ ~config.fail_open /\ Answer(r, "denied")
    /\ UNCHANGED <<requestVars, blockVars, worldVars, scannerVars, cacheVars>>
------------------------------------------------------------------------------
(* The external scanner: authorize_artifact_target and                      *)
(* authorize_docker_manifest_inner after a cache miss.                      *)

\* Mutant: nobody waits for a permit.
AcquireWithoutPermit(r) ==
    /\ pc[r] = "permit"
    /\ available' = available - 1
    /\ Continue(r, IF Kind[target[r]] = "helm" THEN "prefetch" ELSE "scan")
    /\ UNCHANGED <<requestVars, blockVars, worldVars, orphans, cacheVars, contacted>>

AcquirePermit(r) ==
    /\ pc[r] = "permit"
    /\ available > 0
    /\ available' = available - 1
    /\ Continue(r, IF Kind[target[r]] = "helm" THEN "prefetch" ELSE "scan")
    /\ UNCHANGED <<requestVars, blockVars, worldVars, orphans, cacheVars, contacted>>

DropPermit == available' = available + 1

\* prefetch_artifact, Complete: one whole 200 response is buffered.
PrefetchCompletes(r) ==
    /\ pc[r] = "prefetch"
    /\ body' = [body EXCEPT ![r] = upstream[target[r]]]
    /\ contacted' = contacted \cup {r}
    /\ Continue(r, "render")
    /\ UNCHANGED <<target, method, auth, findings, verdict, since, blockVars,
                   worldVars, scannerVars, cacheVars>>

\* TooLarge: announced (the response is kept) or noticed while streaming.
PrefetchTooLarge(r) ==
    /\ pc[r] = "prefetch"
    /\ DropPermit
    /\ contacted' = contacted \cup {r}
    /\ \/ body' = [body EXCEPT ![r] = upstream[target[r]]]
       \/ UNCHANGED body
    /\ Continue(r, "unsupported")
    /\ UNCHANGED <<target, method, auth, findings, verdict, since, blockVars,
                   worldVars, orphans, cacheVars>>

\* Forward: a status other than 200 is relayed.  Err: artifact_scan_failure.
PrefetchFails(r) ==
    /\ pc[r] = "prefetch"
    /\ DropPermit
    /\ contacted' = contacted \cup {r}
    /\ \/ Answer(r, "relayed")
       \/ config.fail_open /\ Continue(r, "forward")
       \/ ~config.fail_open /\ Answer(r, "denied")
    /\ UNCHANGED <<requestVars, blockVars, worldVars, orphans, cacheVars>>

\* extract_chart_images: helm template has rendered the chart.
RenderChart(r) ==
    /\ pc[r] = "render"
    /\ Continue(r, "scan")
    /\ UNCHANGED <<requestVars, blockVars, worldVars, scannerVars, cacheVars, contacted>>

ScanReports(r, scan) ==
    /\ Obtain(r, scan)
    /\ DropPermit
    /\ Continue(r, "put_invalidate")
    /\ UNCHANGED <<body, blockVars, worldVars, cacheVars, contacted>>

\* A chart that names no image has nothing to scan.
RenderNoImages(r) ==
    /\ pc[r] = "render"
    /\ Truth[db][Subject(r)] = {}
    /\ ScanReports(r, {})
    /\ UNCHANGED orphans

\* scan_image of a manifest, or of every image of a chart.
ScanSucceeds(r) ==
    /\ pc[r] = "scan"
    /\ ScanReports(r, Truth[db][Subject(r)])
    /\ UNCHANGED orphans

\* Mutant: images that cannot be scanned are always skipped.
ScanAlwaysPartial(r) ==
    /\ pc[r] = "scan"
    /\ Kind[target[r]] = "helm"
    /\ \E scan \in SUBSET Truth[db][Subject(r)] : ScanReports(r, scan)
    /\ UNCHANGED orphans

\* scan_helm_chart with fail_open goes on past the images it cannot scan;
\* an image given up on by the timeout leaves its scanner running.
ScanPartial(r) ==
    /\ pc[r] = "scan"
    /\ Kind[target[r]] = "helm" /\ config.fail_open
    /\ \E scan \in SUBSET Truth[db][Subject(r)] : ScanReports(r, scan)
    /\ orphans' \in {orphans, orphans \cup {r}}

\* Mutant: the permit is kept.
ScanGivesUpLeaking(r) ==
    /\ Answer(r, IF config.fail_open THEN "buffered" ELSE "denied")
    /\ UNCHANGED <<requestVars, blockVars, worldVars, cacheVars, contacted, available>>

\* The scan is an error: the buffered bytes are released or denied.
ScanGivesUp(r) ==
    /\ DropPermit
    /\ Answer(r, IF config.fail_open THEN "buffered" ELSE "denied")
    /\ UNCHANGED <<requestVars, blockVars, worldVars, cacheVars, contacted>>

ScanFails(r) ==
    /\ pc[r] \in {"render", "scan"}
    /\ ScanGivesUp(r)
    /\ UNCHANGED orphans

\* SecurityError::ScannerTimeout: the handler stops waiting, and nothing
\* stops the process it was waiting for.
ScanTimesOut(r) ==
    /\ pc[r] = "scan"
    /\ Kind[target[r]] = "helm" => ~config.fail_open
    /\ ScanGivesUp(r)
    /\ orphans' = orphans \cup {r}

\* A scanner that was left behind ends by itself.
ScannerExits(r) ==
    /\ r \in orphans
    /\ orphans' = orphans \ {r}
    /\ UNCHANGED <<requestVars, blockVars, worldVars, available, cacheVars,
                   pc, response, contacted>>
------------------------------------------------------------------------------
(* The verdict, and the enforced-block sequence.                            *)

\* DecisionLog::push: newest first, the oldest entry falls off the end.
Pushed(seq, entry) ==
    LET longer == <<entry>> \o seq IN
    IF Len(longer) > LogCapacity THEN SubSeq(longer, 1, LogCapacity) ELSE longer

RecordDecision(r, outcome) ==
    log' = Pushed(log, [request |-> r, outcome |-> outcome])

\* The bytes in hand are released; without any the request goes to Nexus.
Release(r) ==
    IF body[r] # NoBody THEN Answer(r, "buffered") ELSE Continue(r, "forward")

\* The policy that is active now judges the findings in hand.
EvaluatePolicy(r) ==
    LET outcome == Outcome(policy, target[r], findings[r]) IN
    /\ pc[r] = "evaluate"
    /\ verdict' = [verdict EXCEPT ![r] = outcome]
    /\ IF outcome = "ReportOnly" THEN RecordDecision(r, outcome) ELSE UNCHANGED log
    /\ IF outcome = "Blocked" THEN Continue(r, "verify") ELSE Release(r)
    /\ UNCHANGED <<target, method, auth, body, findings, since, reports, notified,
                   verified, worldVars, scannerVars, cacheVars, contacted>>

\* handle_unsupported_target.  Allowed: a response that announced its size is
\* passed on, anything else is asked of Nexus (again).
UnsupportedTarget(r) ==
    /\ pc[r] = "unsupported"
    /\ \/ /\ config.unsupported = "allow"
          /\ UNCHANGED verdict
          /\ IF body[r] # NoBody THEN Answer(r, "forwarded") ELSE Continue(r, "forward")
       \/ /\ config.unsupported = "block"
          /\ verdict' = [verdict EXCEPT ![r] = "Unsupported"]
          /\ Continue(r, "verify")
    /\ UNCHANGED <<target, method, auth, body, findings, since, blockVars, worldVars,
                   scannerVars, cacheVars, contacted>>

\* Mutant: Nexus is asked about every requester.
VerifyEveryone(r) ==
    /\ pc[r] = "verify"
    /\ auth[r] # "basic"
    /\ contacted' = contacted \cup {r}
    /\ Continue(r, "report")
    /\ UNCHANGED <<requestVars, blockVars, worldVars, scannerVars, cacheVars>>

\* verify_requester.  Without a Basic header there is nobody to ask about: a
\* Docker manifest was already fetched with the client's own credentials.
VerifySkipped(r) ==
    /\ pc[r] = "verify"
    /\ auth[r] # "basic"
    /\ Continue(r, "report")
    /\ UNCHANGED <<requestVars, blockVars, worldVars, scannerVars, cacheVars, contacted>>

\* HEAD of the same content with the client's Authorization header.
VerifyAccepted(r) ==
    /\ pc[r] = "verify"
    /\ auth[r] = "basic"
    /\ contacted' = contacted \cup {r}
    /\ verified' = verified \cup {r}
    /\ Continue(r, "report")
    /\ UNCHANGED <<requestVars, reports, log, notified, worldVars, scannerVars, cacheVars>>

\* 401, 403 and 404 are passed on; everything else but success is a 503.
VerifyRefused(r) ==
    /\ pc[r] = "verify"
    /\ auth[r] = "basic"
    /\ contacted' = contacted \cup {r}
    /\ \E answer \in {"unverified", "denied"} : Answer(r, answer)
    /\ UNCHANGED <<requestVars, blockVars, worldVars, scannerVars, cacheVars>>

\* create_trust_report, the audit event and the decision.
ReportCreated(r) ==
    /\ pc[r] = "report"
    /\ reports' = reports \cup {r}
    /\ RecordDecision(r, "Blocked")
    /\ Continue(r, "recipient")
    /\ UNCHANGED <<requestVars, notified, verified, worldVars, scannerVars,
                   cacheVars, contacted>>

\* Mutants: fail_open extends to the report backend; the failure is ignored.
ReportFailsOpen(r) ==
    /\ pc[r] = "report"
    /\ Answer(r, IF config.fail_open THEN "forwarded" ELSE "denied")
    /\ UNCHANGED <<requestVars, blockVars, worldVars, scannerVars, cacheVars, contacted>>

ReportFailureIgnored(r) ==
    /\ pc[r] = "report"
    /\ Continue(r, "recipient")
    /\ UNCHANGED <<requestVars, blockVars, worldVars, scannerVars, cacheVars, contacted>>

\* The backend fails, or stores the report and its answer is lost.
ReportFails(r) ==
    /\ pc[r] = "report"
    /\ reports' \in {reports, reports \cup {r}}
    /\ Answer(r, "denied")
    /\ UNCHANGED <<requestVars, log, notified, verified, worldVars, scannerVars,
                   cacheVars, contacted>>

\* messenger_recipient_for_block and notify_blocked, then the 403.
NotifyAndForbid(r) ==
    /\ pc[r] = "recipient"
    /\ \/ auth[r] # "none" /\ notified' = notified \cup {r}
       \/ UNCHANGED notified
    /\ Answer(r, "forbidden")
    /\ UNCHANGED <<requestVars, reports, log, verified, worldVars, scannerVars,
                   cacheVars, contacted>>
------------------------------------------------------------------------------
(* forward_request: whatever Nexus holds at that moment goes to the client. *)

Forward(r) ==
    /\ pc[r] = "forward"
    /\ contacted' = contacted \cup {r}
    /\ \/ /\ Answer(r, "forwarded")
          /\ body' = IF target[r] \in Stored
                     THEN [body EXCEPT ![r] = upstream[target[r]]] ELSE body
       \/ /\ \E answer \in {"relayed", "bad_gateway"} : Answer(r, answer)
          /\ UNCHANGED body
    /\ UNCHANGED <<target, method, auth, findings, verdict, since, blockVars,
                   worldVars, scannerVars, cacheVars>>

\* The client hangs up and the handler is dropped where it waits: its permit
\* returns; a scanner or a report that was under way may still complete.
Disconnect(r) ==
    /\ pc[r] \in Waiting
    /\ pc' = [pc EXCEPT ![r] = "gone"]
    /\ available' = IF r \in Holders THEN available + 1 ELSE available
    /\ orphans' = IF pc[r] = "scan" THEN orphans \cup {r} ELSE orphans
    /\ \/ pc[r] = "report" /\ reports' = reports \cup {r}
       \/ UNCHANGED reports
    /\ UNCHANGED <<requestVars, log, notified, verified, worldVars, cacheVars,
                   response, contacted>>
------------------------------------------------------------------------------
(* The world around the handlers.                                           *)

\* AppState::reload_active_policy swaps the policy under the write lock.  An
\* exception that expires changes what the policy says in the same way.
ReloadPolicy(p) ==
    /\ policy' = p
    /\ since' = [r \in Requests |->
                    IF pc[r] \in {"put_invalidate", "put_insert", "evaluate"}
                    THEN since[r] \cup {p} ELSE since[r]]
    /\ UNCHANGED <<target, method, auth, body, findings, verdict, blockVars, config,
                   db, upstream, scannerVars, cacheVars, pc, response, contacted>>

\* OSV and the scanner database learn of vulnerabilities.
UpdateDb ==
    /\ db < MaxDb
    /\ db' = db + 1
    /\ UNCHANGED <<requestVars, blockVars, config, policy, upstream,
                   scannerVars, cacheVars, pc, response, contacted>>

\* Somebody publishes other bytes under the same path or tag.
Publish(t, c) ==
    /\ upstream' = [upstream EXCEPT ![t] = c]
    /\ UNCHANGED <<requestVars, blockVars, config, policy, db, scannerVars,
                   cacheVars, pc, response, contacted>>

ExpireEntry(k) ==
    /\ ExpireVulnerable(k) \/ ExpireClean(k)
    /\ UNCHANGED <<requestVars, blockVars, worldVars, scannerVars, pc, response, contacted>>
------------------------------------------------------------------------------
\* What the proxy does for a request it is handling, helm template apart.
Handle(r) ==
    \/ GetVulnerable(r) \/ GetClean(r) \/ PutCacheInvalidate(r) \/ PutCacheInsert(r)
    \/ OsvAnswers(r) \/ OsvFails(r)
    \/ FetchManifest(r) \/ FetchIndex(r) \/ FetchUnusable(r) \/ FetchFails(r)
    \/ PrefetchCompletes(r) \/ PrefetchTooLarge(r) \/ PrefetchFails(r)
    \/ ScanSucceeds(r) \/ ScanPartial(r) \/ ScanTimesOut(r)
    \/ EvaluatePolicy(r) \/ UnsupportedTarget(r)
    \/ VerifySkipped(r) \/ VerifyAccepted(r) \/ VerifyRefused(r)
    \/ ReportCreated(r) \/ ReportFails(r) \/ NotifyAndForbid(r)
    \/ Forward(r)

Render(r) == RenderChart(r) \/ RenderNoImages(r)

World ==
    \/ \E p \in Policies : ReloadPolicy(p)
    \/ UpdateDb
    \/ \E t \in Stored, c \in Contents : Publish(t, c)
    \/ \E k \in CacheKeys : ExpireEntry(k)

Next ==
    \/ \E r \in Requests :
          \/ \E t \in Targets, verb \in Verbs,
                ranged \in BOOLEAN, known \in BOOLEAN :
                Arrive(r, t, verb, ranged, known)
          \/ AcquirePermit(r) \/ Handle(r) \/ Render(r) \/ ScanFails(r)
          \/ ScannerExits(r) \/ Disconnect(r)
    \/ World

Spec == Init /\ [][Next]_vars

\* Fairness.  Every call a handler waits for ends: HTTP calls and scanner runs
\* have timeouts, file operations return; tokio wakes the tasks.  The
\* semaphore is first come, first served, hence strong fairness for the
\* permit.  helm template runs without a timeout: nothing is assumed of it.
Fairness ==
    \A r \in Requests : WF_vars(Handle(r)) /\ SF_vars(AcquirePermit(r))

FairSpec == Spec /\ Fairness
------------------------------------------------------------------------------
(* Properties.                                                              *)

TypeOK ==
    /\ config \in Configs
    /\ policy \in Policies
    /\ db \in 0..MaxDb
    /\ upstream \in [Stored -> Contents]
    /\ available \in Nat
    /\ orphans \subseteq Requests
    /\ pc \in [Requests -> Waiting \cup {"idle", "done", "gone"}]
    /\ target \in [Requests -> Targets]
    /\ method \in [Requests -> Verbs]
    /\ auth \in [Requests -> {"none", "basic", "bearer"}]
    /\ body \in [Requests -> Contents \cup {NoBody}]
    /\ findings \in [Requests -> Scans]
    /\ verdict \in [Requests -> Outcomes \cup {"none", "Unsupported"}]
    /\ response \in [Requests -> Answers \cup {"none"}]
    /\ reports \subseteq Requests
    /\ log \in Seq([request : Requests, outcome : Outcomes])
    /\ notified \subseteq Requests
    /\ verified \subseteq Requests
    /\ contacted \subseteq Requests
    /\ since \in [Requests -> SUBSET Policies]
    /\ clean \in [CacheKeys -> SUBSET Scans]
    /\ vulnerable \in [CacheKeys -> SUBSET Scans]

\* Enforcement is final.  Once a request has been judged Blocked, or
\* Unsupported under the block policy, no Nexus bytes ever answer it: not
\* when its report cannot be stored, not when its requester cannot be
\* verified, and not with fail_open (handle_policy_evaluation and
\* handle_unsupported_target return Err on every path after the verdict).  And
\* Nexus does not hear of a blocked package (README.md:20, "before Nexus
\* receives the request") but for the HEAD by which ADR 0003 verifies a
\* requester with Basic credentials.
BlockIsFinal ==
    \A r \in Requests :
        verdict[r] \in {"Blocked", "Unsupported"} =>
            /\ response[r] \notin {"buffered", "index", "forwarded"}
            /\ (Kind[target[r]] = "package" /\ r \in contacted) => auth[r] = "basic"

\* What has become of a request: what its client got, whatever the verdict was;
\* until then, and if it got neither content nor a 403, the verdict tells.
Fate(r) ==
    CASE response[r] \in {"buffered", "index", "forwarded"} -> "released"
      [] response[r] = "forbidden" -> "forbidden"
      [] response[r] \notin {"buffered", "index", "forwarded", "forbidden"} ->
           IF verdict[r] \in {"Blocked", "Unsupported"}
           THEN IF pc[r] \in {"done", "gone"} THEN "failed" ELSE "barred"
           ELSE IF pc[r] \in {"done", "gone"} THEN "turned_away" ELSE "open"

Enforcement == INSTANCE Admission
    WITH fate <- [r \in Requests |-> Fate(r)], reported <- reports, told <- notified

\* The handlers, with all their errors, early returns and hang-ups, keep the
\* promise of Admission: one decision for each request, which stands, and the
\* report before the 403 and the message.
KeepsAdmission == Enforcement!Spec

\* Some policy active since r's findings were obtained lets through what some
\* database version reported of subject s.
Judged(r, s) ==
    \E p \in since[r], d \in 0..db : Outcome(p, target[r], Truth[d][s]) # "Blocked"

\* What entitles a request to be forwarded: OSV's word on the coordinates of a
\* package, a scan of some version of a chart; a manifest never is, unless the
\* proxy does not scan manifests.  A HEAD carries no content.
ForwardJudged(r) ==
    CASE Kind[target[r]] = "package" -> Judged(r, target[r])
      [] Kind[target[r]] = "helm" ->
           \/ method[r] = "HEAD" /\ "helm" \in config.mapped
           \/ \E c \in Contents : Judged(r, c)
      [] Kind[target[r]] = "image" ->
           \/ method[r] = "HEAD" \/ ~config.docker
           \/ "docker" \notin config.mapped
      [] OTHER -> TRUE

\* With fail_open off and unsupported targets blocked, nothing is released
\* unjudged: the manifest or chart bytes released from the buffer are bytes a
\* completed scan looked at, and what is forwarded was judged as far as
\* ForwardJudged says.  Policy reloads, republished content, expiring cache
\* entries and other requests may come at any point in between.
ReleaseIsJudged ==
    (~config.fail_open /\ config.unsupported = "block") =>
        \A r \in Requests :
            /\ response[r] = "buffered" => Judged(r, body[r])
            /\ (response[r] = "forwarded" /\ method[r] # "PUT") => ForwardJudged(r)

\* The order of the enforced-block sequence.  A 403 carries the URL of a
\* stored report; a decision logged as Blocked, and a message, come after the
\* report; a report on behalf of a Basic user comes after Nexus accepted the
\* credentials (ADR 0003); and a request is logged at most once, as judged.
BlockSequence ==
    /\ \A r \in Requests :
          /\ response[r] = "forbidden" => r \in reports
          /\ r \in notified => r \in reports /\ auth[r] # "none"
          /\ (r \in reports /\ auth[r] = "basic") => r \in verified
    /\ \A i, j \in DOMAIN log :
          log[i].request = log[j].request => i = j
    /\ \A i \in DOMAIN log :
          LET r == log[i].request IN
          \/ log[i].outcome = "ReportOnly" /\ verdict[r] = "ReportOnly"
          \/ /\ log[i].outcome = "Blocked" /\ r \in reports
             /\ verdict[r] \in {"Blocked", "Unsupported"}

\* Every permit is either free or held by a request that prefetches, renders
\* or scans, whichever way such a request ends.
PermitsAccounted == available + Cardinality(Holders) = Permits

\* The subjects an entry filed under <<t, b>> can be about.
Evident(t, b) ==
    CASE Kind[t] = "image" -> {b}
      [] Kind[t] = "helm" -> Contents
      [] OTHER -> {t}

\* A cache entry is what a completed scan reported: of the same coordinates,
\* of the very digest it is filed under, or of some version of the chart.
\* Only a chart scanned with fail_open may be filed incompletely.
CacheIsEvidence ==
    \A t \in Targets, b \in Contents \cup {NoBody} :
        \/ Kind[t] = "helm" /\ config.fail_open
        \/ \A scan \in clean[<<t, b>>] \cup vulnerable[<<t, b>>] :
              \E s \in Evident(t, b), d \in 0..db :
                  s # NoBody /\ scan = Truth[d][s]

\* Every request is answered or abandoned by its client, provided that no
\* helm template runs forever: permits come back and nobody starves.
EveryRequestEnds ==
    (\A r \in Requests : []<>(pc[r] # "render")) =>
        \A r \in Requests : (pc[r] \in Waiting) ~> (pc[r] \in {"done", "gone"})
------------------------------------------------------------------------------
(* Two statements of the repository that the code does not keep.            *)

\* README.md:29-31: "Mapped artifact GET requests are fetched from Nexus,
\* buffered to a temporary file, scanned, and released only after the active
\* policy allows or reports the result."  On a cache hit the chart is asked of
\* Nexus again, and what it holds by then was not scanned.
ChartBytesAreScanned ==
    ~config.fail_open =>
        \A r \in Requests :
            (/\ Kind[target[r]] = "helm" /\ "helm" \in config.mapped
             /\ method[r] = "GET" /\ config.unsupported = "block"
             /\ response[r] \in {"buffered", "forwarded"}) => Judged(r, body[r])

\* gateway.rs:254 names the semaphore the "scanner concurrency limiter" of
\* ARTIFACT_SCANNER_CONCURRENCY.  A scanner given up on by a timeout or a
\* client that hung up runs on without a permit.
ScannersWithinLimit ==
    Cardinality({r \in Requests : pc[r] = "scan"} \cup orphans) <= Permits
==============================================================================
