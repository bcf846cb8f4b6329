# A TLA+ model of nexus-sec-proxy

nexus-sec-proxy stands between package clients and a Sonatype Nexus. For every
download it classifies the path, obtains a vulnerability list (from OSV for
packages, from an external scanner for Helm charts and Docker manifests),
judges it by the active policy and either lets the request pass to Nexus or
denies it with a Trust report, a log entry and a message to the requester.
This directory models that program, checks the model with TLC and proves its
main properties with TLAPS.

## 1. The system

| Part | State it keeps | Operations | Hard part | What makes it correct |
|---|---|---|---|---|
| Request path (`proxy/src/gateway.rs`, `docker.rs`, `scan.rs`, `requester.rs`) | one task per request; nothing shared but the parts below | `proxy_handler`, `authorize_package`, `authorize_artifact_target`, `authorize_docker_manifest`, `handle_policy_evaluation`, `handle_unsupported_target` | many tasks, an await at every call, content, databases and policy moving in between, clients hanging up | nothing is released unjudged; a block is final; report, log entry, message and 403 come in this order |
| Scan cache (`cache/src/moka.rs`) | two tiers: clean and vulnerable scans, each with its time to live | `get`, `put` (two tier calls each) | the two calls interleave with those of other requests and with expiry | an entry is what a completed scan said of the thing it is filed under |
| Scanner semaphore and scanner (`gateway.rs`, `security/src/external.rs`, `helm.rs`) | free permits; processes | acquire, prefetch, render, scan, give up | errors, timeouts and dropped handlers while a permit is held | permits come back; no more scanners than permits (it is not so, see 4) |
| Helm chart scan (`proxy/src/helm.rs`) | merged vulnerability list | render, extract references, scan image after image | tags move, images fail, fail_open | every extracted image is scanned or, with fail_open, skipped; all findings are kept |
| Policy evaluation (`security/src/policy/*`) | immutable `PolicySet` | `from_raw`, `evaluate_at` | spelling, scopes, limits, lapsing exceptions | agrees with the file; monotone; exceptions leave a trace |
| Policy reload (`admin.rs`, `state.rs`) | active policy and generation under a lock | `POST /admin/api/policy/reload` | requests overlap, the file changes | only sound files become active; an answered reload is current (it is not so, see 4) |
| Repository catalog (`catalog.rs`, `state.rs`, `main.rs`) | active catalog, reload mutex | reload by administrators and by the refresh task, shutdown | Nexus changes and fails, tasks are dropped while they hold the mutex | usable, never goes back, reloads end |
| Path classification (`proxy/src/classifier/*`) | none | `classify_path`, one classifier per format | names and versions are cut out of file names at hyphens both may contain; registries escape and respell names | a file is looked up as the package and version it belongs to (not for Go modules with capitals, see 4) |
| OSV query (`security/src/osv.rs`) | the pages so far | `query_package` | pages fail, advisories change between pages, the end has two marks | a complete list or an error, and it ends |
| Local Trust reports (`trust_reports.rs`) | a directory, the time of the last cleanup | `create`, `read`, `cleanup`, `verify_writable`, `initialize` | several processes on one directory, crashes between file operations | no half report is shown, no report disappears early, nothing stays for ever |
| DefectDojo reports (`defectdojo/src/lib.rs`) | delivery counters | `submit`, `status` | lost and late answers, counters read apart | the link names this block's Test, one Test per block |
| Messenger (`yandex-messenger/src/lib.rs`) | bounded queue, template cache, counters | `notify_blocked`, the worker, rendering, truncation, shutdown | full queue, retries of what was done, template edited between stat and read, texts beyond the limit | told at most once, nothing lost silently, the report URL arrives whole |
| Configuration (`config/src/*`) | the environment, read once | `from_env_vars` | what one crate validates others rely on, long after | every part finds what it needs when it needs it (Helm scanning may not, see 4) |
| Start-up, health checks, shutdown (`main.rs`) | how far `main` has come; requests under way | `main`, `healthz`, `shutdown_signal` | the order of the shutdown, tasks holding the mutex at the signal, two lists of health parts | the process exits, no block comes too late to be told of, the health answer is about the parts in use |
| Decision log (`decisions.rs`) | ring of recent decisions | push | several writers at capacity | one entry per decision, as judged |
| Audit log, admin pages, response formatting | none that another part depends on | | | not modelled (see 8) |

How they interact: `proxy_handler` reads the catalog snapshot and the policy,
calls the cache, Nexus, OSV or the scanner, then the report backend, the
decision log and the messenger. Administrators replace policy and catalog
beside it. The report backend is either the local store or DefectDojo. The
messenger's queue decouples the worker from the handlers. `main` builds all of
it in a fixed order and takes it down in another.

## 2. Modules

A model step is what a task does between two awaits. Bytes, names and
advisories are model values; control, error paths and their order are kept.

| Module | Models | State and actions |
|---|---|---|
| `TierCache` | the two moka tiers | one operator per call on one tier |
| `Gateway` (extends `TierCache`) | the request path with semaphore, cache, block sequence and log | `pc[r]` is the call request `r` waits for; one action per way the call can come back. `Publish`, `UpdateDb`, `ReloadPolicy`, `ExpireEntry` and `Disconnect` are the rest of the world |
| `Admission` | abstract: what the proxy promises of one request | `fate[r]`: open, then released, turned away or barred; barred, then forbidden or failed |
| `ScanContract` | abstract: what a scan promises | pending, then an error or a list with all that must be in it and nothing that may not |
| `Classifier` | `classify_path` | operators named after the functions; a segment is split at hyphens and has a suffix |
| `OsvQuery` | the loop over OSV's pages | `PageArrives`, `PageFails`, and `ListingChanges` at OSV |
| `HelmChart` | the scan Gateway takes as one step | `Extracted` is `parse_image_references`; one action per image scanned, failed or timed out |
| `ScanSources` (extends `Classifier`, `OsvQuery`, `HelmChart`) | from a path to its scan | `Classify`, then the steps of the source asked. `Layout` says where the clients of a format find a package's files, with Go's escapes of capitals and the spellings of Python; `PlainLayout` is the part of it that needs no unescaping |
| `PolicyEvaluator` | loading and evaluation | operators named after the methods; the state machine asks about one request while advisories appear and time passes |
| `PolicyReload` | overlapping policy reloads | `Start`, `Load`, `Swap`, `Edit` |
| `Catalog` | catalog reloads and the refresh task | `LoadFirst`, `Start`, `Lock`, `Fetch`, `Reject`, `Install`, `Drop`, `Shutdown` |
| `Configuration` | `from_env_vars` | which variables are absent, blank, bad or given; one `...Error` operator per part |
| `Lifecycle` (extends `Catalog`, `Configuration`) | `main` | `stage` is how far it has come; one action per step of start-up and shutdown; requests, health probes and Catalog's steps while it serves. `lacking` records what a part took from configuration or catalog and did not find: the `context(...)?` branches of the constructors, `docker_repository_and_scanner`, `scan_helm_chart`, `resolve_nexus_email` |
| `ReportStore` | the report directory | one action per file operation of `create`, `cleanup`, `read` and `verify_writable`; `Crash`, `Initialize`, `Cancel` |
| `DefectDojo` | submission and status | `Submit`, `Import`, `Refuse`, `Created`, `Fails`, `NoteFailure`, two reads by the status |
| `Verdict` (extends `PolicyEvaluator`, `DefectDojo`) | the two ends of `handle_policy_evaluation` | `Judge`, `Report`: the evaluator's steps or DefectDojo's; they share no state |
| `MessageText` | the text of a notification | `RenderTemplate`, `Render`, `TruncateText` on sequences of characters |
| `Messenger` (extends `MessageText`) | queue, worker, template, shutdown | `Notify`, `Receive`, `Metadata`, `ReadTemplate`, `SendOk`, `SendTransient`, `SendFails`, shutdown steps |
| `MC*` | small instances for TLC | |
| `*Proofs` | theorems | |

Some definitions have a variant marked "Mutant" before them: a plausible slip
in that code. Replacing the definition by it must break a property, which
shows that the property depends on that code.

Abstractions a reader should know:

- `Gateway.Truth[d][s]` is what database version `d` says of a subject: a
  package's coordinates or the bytes of a chart or manifest. For a chart it is
  what extraction and scanner together report; `HelmChart` and `OsvQuery` look
  inside. Gateway's one-step scan assumes one database version per scan; what
  a scan over several moments can report is `ScanContract`.
- A manifest is identified with its digest. The code takes the digest from the
  `Docker-Content-Digest` header of Nexus when there is one; Nexus is trusted.
- A client may have one orphaned scanner per request in `Gateway`; a chart can
  leave several, which `HelmChart` counts.
- OSV's `UnsupportedTarget` (scan.rs:81) cannot occur, since only packages get
  there; `scan_path` is not called by the proxy, since only Helm charts are
  classified as artifacts; a closed messenger channel cannot be met while
  serving. Those branches have no action.
- A crash in `ReportStore` is that of a process, not of the machine: a rename
  is durable once done.
- In `PolicyEvaluator` a selector list that holds only blanks is an empty list
  and matches everything, as in the code.
- In `Classifier` texts are told apart at hyphens only: `file.contains(version)`
  is containment of hyphen-separated parts, and an encoded slash within a
  segment is not represented. `Layout` has release files: a timestamped Maven
  snapshot does not contain the version of its directory and is forwarded
  unclassified.
- What a package is called is said by its registry, not by the classifier:
  `PypiName` is PEP 503, where a run of separators counts as one, while
  `normalize_pypi_name` replaces each separator; `Escape` is the Go module proxy
  protocol. Both differ from the code on some paths. `ScannedIsServed` claims the
  exact name and version for `PlainLayout` only: a Go path without escapes, a
  Python name without runs of separators, every path of the other formats. For
  the rest it claims a lookup in the right ecosystem. `my__pkg-1.0.zip` is looked
  up as `my--pkg`; the usual build tools write no such file names, so this is
  not held against the code, while Go clients do escape every capital (see 4).
- A text in `MessageText` is a sequence of short strings that stand for one
  character each. `UrlIsKept` leaves out two cases the code does not promise:
  a `{report_url}` behind a brace left open, which is neither filled in nor
  appended, and a URL line longer than the service's limit.
- In `Configuration` a value is absent, blank, bad or given; what the parsers of
  numbers, URLs and lists refuse is `malformed`. The `context(...)?` branches
  behind it are kept in `Lifecycle`: that they cannot be taken is what
  `EveryNeedIsMet` shows, not something the model assumes.
- In `Lifecycle` `axum::serve` returns only after the graceful shutdown, a
  signal before the server runs ends the process as any signal does, and a
  panic of the refresh task (the `?` on its join) is left out.
- `PolicyEvaluator.Valid` admits files with blank repository names, teams,
  owners, tickets or reasons, which `trim_required` refuses (parse.rs:231-246):
  what is shown holds for more files than the code loads. `TeamOf` takes the
  first entry of a repository where the code keeps the last of two that become
  equal by trimming; no file of the run has such a pair.
- `ReportStore.Initialize` does the cleanup of the start-up in one step. The
  other processes do theirs step by step beside it, which is where two cleaners
  can meet.
- `DefectDojo.Import` has no error status after the import was committed; for
  the caller it is the lost or malformed answer, which the model has.
- The DefectDojo status may show more failed than submitted, since `submitted`
  is loaded first; nothing promises otherwise and no property does.

## 3. Runs

| Run | Instance | Shows |
|---|---|---|
| `gateway_requests` | 2 requests; a vulnerable chart and manifest, other, metadata and reserved paths; 1 permit; strict, fail_open and two configurations with early exits | `TypeOK`, `PermitsAccounted`; each request refines `Admission` (`KeepsAdmission`), in which a block is final and a 403 has its report; every request ends (`EveryRequestEnds`) |
| `gateway_target` | 2 requests for the same target: a package whose advisory is withdrawn, a chart or tag republished between a clean and a vulnerable version; 2 policies reloaded at will; with and without fail_open; a log of 2 entries | `ReleaseIsJudged`, `CacheIsEvidence` where content, cache entry and permit are contended; `BlockIsFinal` for packages, which Nexus hears of only by the requester's HEAD; `BlockSequence` in a log that has room to hold a decision twice |
| `scan_sources` | every release file of 24 packages of 5 formats (Go modules and versions with and without capitals, Python names with single, mixed and repeated separators), uploads, indexes and checksums; 3 advisories in pages of any size; every chart of up to 3 rendered lines over 2 images in quoted and plain spelling, tags moving | `ScannedIsServed`, `MergeIsComplete`; both scans refine `ScanContract` (`QueryKeepsContract`, `ChartKeepsContract`); `QueryEnds` |
| `lifecycle` | 17 environments: complete ones and one for each thing missing or wrong; 1 administrator, the refresh task, 1 download of an image, a chart or something blocked, a health probe; 5 listings (usable, empty, blank names, Docker repository missing or of another format), one change of Nexus, generations that run out | `CatalogUsable`, `ReloadIsCurrent`, `EveryNeedIsMet`, `HealthIsHonest`, `NoNoticeIsLate`, `CatalogMovesForward`; `ReloadsEnd`, `ProcessExits` |
| `verdict` | more than a thousand policy files, every set of 4 advisories, 3 moments; or 2 submissions to DefectDojo, 2 targets, 2 vulnerabilities, a status reader | `JudgesByTheFile`: agreement with a reference reading of the file; `NoBlockIsLifted`, `LeniencyIsRecorded`, `ExpiryIsReported`; `LinkIsTheReport`, `OneTestPerBlock`, `FindingsAreWork`, `StatusCountsItsFailure` |
| `report_store` | 2 reports, 2 processes on one directory, 1 reader, 1 write probe, a clock past the retention | `NeverHalfAReport`, `CreatedStays`, `FailedIsUnpublished`, `CleanupLockIsReleased`, `CleanupIsComplete` |
| `messenger` | 3 notifications for a queue of 2, 3 attempts, 2 template edits, a limit of 8 characters, shutdown | `Accounted`, `ToldOnce`, `SentIsShown`, `TemplateIsFresh`, `UrlIsKept`; `EveryMessageSettles` |
| `gateway_chart_bytes`, `gateway_scanner_limit`, `helm_chart_references`, `policy_reload_current`, `go_module_names` | the smallest instance of each | a violation, see 4 |

Why these bounds: two requests are the fewest that meet in the cache, at the
permit and in the log, and the theorems of section 6 remove the bound for the
safety properties of `Gateway`. One permit makes every pair compete. The log
of two entries in `gateway_target` would show a decision that is entered twice;
that of one in `gateway_requests` overflows with the second decision. Two
contents and two policies let what is used differ from what was checked. `Retention = 2` above
`CleanupInterval = 1` keeps the two apart, and `MaxTime = 3` lets a report
expire after a cleanup has passed it by. The constraint `OneTarget` of
`gateway_target` leaves out pairs of different targets, which share only the
permit and the log and are in `gateway_requests`, and changes of policy or
database with fail_open. Three notifications fill a queue of
two and leave one to be skipped. `MaxTextChars = 8` is met exactly, missed by
one and exceeded by the templates of the instance. `MaxAdvisory = 3` allows
three pages, empty ones between them, and a change behind and before the
cursor. One administrator beside the refresh task is the fewest that compete
for the reload mutex. The constraint `ProbeAndCreate` of `report_store` lets a
write probe meet one create call and no read; they share no names, and the
theorems have no such bound. Deadlock checking is off everywhere: each
model has a finite number of requests and stops when they are done.

Three refinements are stated with `INSTANCE ... WITH`. `Gateway` implements
`Admission` under the mapping `Fate`, which reads off a request's answer, or its
verdict and place while it has none, what has become of it: release, refusal and block exclude
each other and stand, and a 403 has its report. `OsvQuery` and `HelmChart`
implement `ScanContract`: the loop over pages and the loop over images each
look like one scan, with what was there throughout as the least and what was
there at some time as the most they may report. And the process implements
`Catalog`'s own specification (`ProcessRunsCatalog`), so what is proved of the
catalog alone holds when `main` runs it.

Requests are interchangeable in `gateway_target`, reports, processes and DefectDojo
submissions in theirs; symmetry is used in runs without liveness only.

## 4. Where code and documents disagree

- `gateway_chart_bytes`: README.md:29-31 says that mapped artifacts are
  buffered, scanned and then released. On a cache hit
  (gateway.rs:235) the request is forwarded, and the client gets whatever
  Nexus holds by then, under the verdict on an earlier version.
- `gateway_scanner_limit`: the semaphore is the scanner concurrency limiter
  (gateway.rs:254). A scanner given up on by a timeout or a dropped handler
  is not killed (external.rs:138) and runs on beside the next one.
- `helm_chart_references`: README.md:590 says all `image:` references are
  extracted. A reference that is the first key of a list item (`- image: x`)
  is not (helm.rs:62), and such a chart can pass as clean.
- `policy_reload_current`: README.md:366 says the request reloads the file. The
  file is read before the lock is taken (admin.rs:471); the request that read
  the older version may install it last, and both report success. The catalog
  reload holds a mutex across both steps and has no such problem.
- `go_module_names`: README.md:552-561 says that Go proxy-style downloads are
  checked against OSV, so that known-vulnerable packages never enter the cache
  of Nexus. `classify_go` (formats.rs:128) does not undo the escapes Go clients
  write for capitals; OSV is asked about `github.com/!azure/...`, knows no such
  module, and the download passes as clean.

A sixth disagreement has no run of its own and is the exemption in
`EveryNeedIsMet`: README.md:567-572 says that Helm chart scanning requires the
Docker registry URL. The configuration (model.rs:109) does not ask for it; the
process serves, and fails every chart that has images (helm.rs:146). Without the
exemption TLC shows it in the environment `NoRegistry` of the `lifecycle` run.

A seventh sentence is kept with a qualification: README.md:19-20 has the 403
come "before Nexus receives the request". For Basic credentials Nexus gets the
HEAD of ADR 0003 first; `BlockIsFinal` says that it gets nothing else.

## 5. Fairness

- `Gateway`: weak fairness for every call a handler waits for (HTTP calls and
  scanner runs have timeouts, file operations return, tokio polls what is
  ready), strong fairness for the permit (the tokio semaphore is first come,
  first served). Nothing is assumed of `helm template`, which has no timeout;
  `EveryRequestEnds` has its return as a premise.
- `Lifecycle`: strong fairness for the async mutex, which is first come, first
  served too; weak fairness for the load (the HTTP client has a timeout), for
  the refresh task's `select!` on the shutdown token, for `main`'s own steps and
  for the health check, which has a timeout. Nothing is assumed of a download
  under way: `ProcessExits` excludes that one is open for ever.
- `ScanSources`: weak fairness for a page request, which has a timeout, and for
  the classification, which is a computation. OSV's tokens grow, which the
  model takes from how paging works; the code itself bounds no page count.
- `Messenger`: weak fairness for the worker, whose sends have timeouts.

Clients, administrators, clocks, edits, crashes and the answers of services
are never fair.

## 6. Proofs

All theorems hold for every value of the constants allowed by the named
assumptions (`GatewayAssumptions`, `CatalogAssumptions`,
`ConfigurationAssumptions`, `EvaluatorAssumptions`, `QueryAssumptions`,
`ChartAssumptions`, `PackagesAssumption`, `DownloadsAssumption`,
`ReportStoreAssumptions`, `MessengerAssumptions`, `VulnsAssumption`): any finite
number of requests, any targets, contents, policies, capacities, environments,
limits and numbers of processes, texts, charts and paths of any length.

`GatewayProofs`. The invariants are not inductive alone; their strengthenings:

- `TypeCorrect`: `TypeOK` needs `Flow`, where a request can wait given what it
  asks for. A scan looks at bytes only because the chart was prefetched or the
  manifest fetched.
- `BlocksAreFinal` from `BlockInv`: a blocked request is past every point from
  which something could be released, and a package was shown to Nexus only to
  verify the requester or after the verdict allowed it.
- `PermitsAreAccounted`: the holders are a finite set, and each way out of a
  holding state takes one request out of it and one permit back.
- `BlocksInSequence` from `SequenceInv`, how far the sequence has come at each
  point, and `LogInv`, no request is logged before its verdict or twice.
- `CacheHoldsEvidence` from `EvidenceInv`: findings in hand between scan and
  evaluation are what some database version said of the subject (`InHand`),
  and the bytes a manifest's key is built from stay in hand until the put is
  over.
- `ReleasesAreJudged` from `ReleaseInv`: what is on its way to Nexus was
  already judged, and the policy that judged is one that was active since the
  findings were obtained.

- `RequestsKeepAdmission`: most steps leave a request's fate alone
  (`QuietMove`); the others are matched with a step of `Admission` one by one,
  with `BlockInv` and `SequenceInv` to exclude what cannot follow.

`LifecycleProofs`. `CatalogIsUsable`, `ReloadsAreCurrent` and
`CatalogsMoveForward` are about `Catalog` and rest on `Serialised`: who loads or
installs holds the mutex, so the generation and the listing in hand still
follow the active catalog. `ProcessRunsCatalog` carries them over to the
process. `NeedsAreMet`, `HealthChecksAreHonest` and `NoticesAreInTime` rest on `SetUp` (what each stage of `main` has established) and `UnderWay` (requests exist
only while the server runs, so none is left when the notifier is stopped).
`NeedsAreMet` takes two lemmas: an accepted environment has what the parts ask
of it (`NeedsAreThere`), and a catalog that replaces another still has the
Docker repository, so that what was validated at start-up is there at the
hundredth image after the tenth reload (`NothingIsMissing`).

`ScanSourcesProofs`.

- `QueryImplementsContract`: the strengthening says that every advisory up to
  the cursor that stayed is collected, and that what is collected was listed at
  some time.
- `MergesAreComplete` and `ChartImplementsContract` from `ChartInv`: the images
  are the extracted ones and `at` says how far the loop is (`ChartPlace`), those
  before `at` are exactly the scanned and the skipped ones, each once, and all
  their findings are merged (`ChartDone`), and what a scan saw is among what its
  tag ever named (`ChartHistory`). That no image is listed twice, and that the list is what the
  chart's lines name, is a lemma about the recursive function behind
  `Extracted` (`ExtractsReferences`).
- `SourcesKeepContract` puts the two together: the steps of `ScanSources` are
  steps of the source that is asked, or leave it alone.
- `ScansWhatIsServed`: a file of a release is looked up in its ecosystem, and as
  that release where its path is in `PlainLayout`. There is one lemma per format (`MavenRelease`, `NpmRelease`, `PypiRelease`,
  `CargoRelease`, `GoRelease`), which takes a path of the format's layout apart
  the way its classifier does: the version is in the middle of a jar's name,
  follows the package's name in a tarball's, is the last part of a source
  archive and the second of a wheel; `position` finds the first marker.
  `PlainSpelling` says where the code's normaliser agrees with PEP 503, from
  `NoRuns`: without empty words nothing is dropped; `EscapedName` that an escaped
  module path still has its marker in the same place. The
  constants are constrained by what the package managers publish
  (`PackagesAssumption`: a Python version has no hyphen, each spelling of a name
  normalises to it by PEP 503, no Go module has a segment `@v` and no escape
  makes one) and by what a repository
  serves (`DownloadsAssumption`: a release where its format puts it, in a
  repository of that format whose configured ecosystem, if any, is the
  release's; besides releases only what `NoRelease` lists). The second half of
  `ScannedIsServed`, that nothing else is looked up as a release, is therefore
  relative to `NoRelease`, which says what an index, a checksum or a list looks
  like; the first half, the one that decides what a verdict is about, is not.

`PolicyReloadProofs` shows what the unserialised reload does keep:
`ActivePolicyIsSound`, by what a reload carries between its two steps, and
`GenerationsCount`, by the cardinality of the successful reloads. And it shows
what would be enough for the property that `policy_reload_current` refutes:
`TurnsAreCurrent`, if no two reloads are under way at once, an answered one is
current. `TurnInv` says that what a reload has read is no older than any request
answered before it swaps, which is what an overlapping reload breaks.

`PolicyEvaluatorProofs`. `BlocksAreNotLifted`: `evaluate_at` is monotone: the
rule chosen does not change, unexcused vulnerabilities only grow, and so does
each count compared with a limit. `JudgedByTheFile`: the normalised rules and
exceptions mean what the raw ones say (`RuleMeans`, `ExceptionMeans`,
`SelectorsMean`), the first rule selected is the first that matches in the file
(`FirstRuleIsSelected`), and a limit is exceeded exactly if the reference reading
finds it broken (`ViolatedIsBroken`). `LeniencyIsOnRecord` and
`ExpiriesAreReported` follow from the same invariant, that the active set is
`FromRaw` of the file.

`ReportStoreProofs`. `ReportInv` says what the two names of a report hold at
each point of its create call, `RemovalInv` that whoever is about to remove a
report is right to, although it looked some steps ago: a report's time never
changes and the clock does not go back. From them `NobodySeesHalf`,
`CreatedReportsStay` and `FailuresPublishNothing`. `CleanupsAreComplete` from
`StaleInv`: an entry expired at the listing is settled, or still to be looked
at, or about to be removed; what is settled stays so, since a name is only
written with the current time. `CleanupLocksAreReleased` from `LockInv`.

`MessengerProofs`. `QueueInv` counts where notifications are (`NothingIsLost`);
`PayloadInv`: ids given out are below the counter and the one in hand belongs to
the current message (`RequestersAreToldOnce`); `SentInv` leaves room for the
message whose answer was lost (`SentMessagesAreShown`); `FreshInv` relates the
cached modification time, the edition it was read under and the edition in
hand (`TemplatesAreFresh`). `UrlsAreKept` is about the texts: `FillInvariant`
says what `render_template` has written after the first i characters, from
which `UrlIsFilledIn`: a `{report_url}` that is placed is replaced by the URL
and stays (`OutputGrows`); `CutTextEndsWithUrl` says what `truncate_text` leaves;
`VersionInv` that the text in hand was rendered from a template there was.

`DefectDojoProofs`: `LinksAreReports`, `BlocksHaveOneTest` and `StatusesCount`
from `Answered` (an answer mentions no Test but its own) and `Counted` (who
writes a category has counted before). `FindingsAreShared` from `Written` (a Test
holds the findings of its report): a bijection between findings and pieces of
work.

What `Extracted` and `RenderTemplate` compute is proved by induction although
the library's induction theorems take an operator as a parameter, which the
provers do not instantiate. Both are written as recursive functions, and the
induction is done on sets: the numbers up to n at which a fact fails would have
a least one (`LeastNumber`, from the well-foundedness of `<`), which gives
`LineInduction` and `TextInduction` for a set of numbers instead of a predicate.
The recursive function is first shown to exist (`FoundExists`, `FilledExists`),
and only then is its equation used (`FoundEquation`, `FilledEquation`).

Every safety invariant, every action property and every refinement that a
passing run checks is a theorem. Only model-checked: the liveness properties
`EveryRequestEnds`, `QueryEnds`, `ReloadsEnd`, `ProcessExits` and
`EveryMessageSettles`, since fairness and ENABLED are beyond the prover. The five
violations of section 4 are TLC's counterexamples.

## 7. Plan

Done, in this order: `Gateway` with `TierCache` and its proofs, `Catalog`,
`PolicyReload`, `PolicyEvaluator`, `ReportStore`, `Messenger`, `DefectDojo`,
`HelmChart`; then `OsvQuery` and `ScanContract`, `MessageText`, `Configuration`
and `Lifecycle`, `Admission`, the proofs of `ReportStore`, `Messenger` and of the
rest of `PolicyEvaluator` and `DefectDojo`, the write probe, and `Classifier`.

Then the proofs about what is computed from texts, charts and paths
(`UrlsAreKept`, `MergesAreComplete`, `ChartImplementsContract`,
`ScansWhatIsServed`) and `TurnsAreCurrent`; then the escapes of Go, the
spellings of PEP 503 and what the parts of the process take from its
configuration.

Next: the cache as a partial map that may forget, as an abstract specification
of `TierCache`, with the refinement proved from `EvidenceInv`.

## 8. Not modelled

The audit log, tracing, admin pages and response formatting (output only); the
parsers of configuration values (`malformed` in `Configuration`); the search for
scanner database files of the health check (ok or failed); HTTP headers, URL
building and the `Www-Authenticate` rewrite; the JSON of OSV and of the scanners;
the HTML of reports and the wording of messages; panics of tasks; crashes of the
machine, as opposed to the process, in the report directory.
