------------------------------ MODULE Lifecycle ------------------------------
(***************************************************************************)
(* The life of one process: main's start-up, what it serves while Catalog  *)
(* runs beside it, the health check, and the shutdown.  Catalog's steps    *)
(* happen only when main has got that far.                                 *)
(*                                                                         *)
(* A download is a request under way; whether it is for an image or for a  *)
(* chart, and whether it ends in an enforced block whose requester is to   *)
(* be told, is left open (Gateway, Messenger).  What a part of the program *)
(* asks of the configuration where it needs it, and does not find, is put  *)
(* on record.                                                              *)
(***************************************************************************)
EXTENDS Catalog, Configuration

CONSTANTS
    Downloads,     \* requests for a download
    NoAnswer       \* no answer of the health check yet

VARIABLES
    env,           \* the environment the process was started in
    stage,         \* how far main has come
    backend,       \* report_backend: none, local or defectdojo
    notifier,      \* none, running or stopped
    open,          \* downloads being handled
    unseen,        \* downloads that have not been asked for
    late,          \* blocks whose notification met a closed queue
    lacking,       \* what a part of the program needed and did not find
    nexusCheck,    \* the Nexus part of the health check under way
    health         \* the answer of /healthz: the unused parts, the verdict

serveVars == <<open, unseen, late, lacking>>
probeVars == <<nexusCheck, health>>
mainVars == <<env, stage, backend, notifier>>
lifeVars == <<vars, mainVars, serveVars, probeVars>>

LifeInit ==
    /\ Init
    /\ env \in Environments
    /\ docker = DockerConfigured(env)
    /\ stage = "config" /\ backend = "none" /\ notifier = "none"
    /\ open = {} /\ unseen = Downloads /\ late = {} /\ lacking = {}
    /\ nexusCheck = "idle" /\ health = NoAnswer

Parts == {"trust_reports", "docker_registry", "trivy"}

Goto(from, to) == stage = from /\ stage' = to
Up == stage \in {"serving", "draining", "joining"}
------------------------------------------------------------------------------
(* What the configuration and the catalog of the moment are relied on for.  *)

Found(need) ==
    CASE need = "defectdojo_url" -> env.defectdojo_url = "given"
      [] need = "defectdojo_token" -> HasSecret(env.defectdojo_token)
      [] need = "defectdojo_engagement_id" -> \E id \in env.defectdojo_engagement_id : id > 0
      [] need = "trust_base_url" -> env.trust_base_url = "given"
      [] need = "yandex_messenger_token" -> HasSecret(env.yandex_messenger_token)
      [] need = "yandex_messenger_template_file" -> Given(env.yandex_messenger_template_file)
      [] need = "nexus_credentials" -> Given(env.nexus_username) /\ HasSecret(env.nexus_password)
      [] need = "docker_registry_base_url" -> env.docker_registry_base_url = "given"
      [] need = "docker_repository_name" -> Given(env.docker_repository_name)
      [] need = "docker_repository" ->
            /\ DockerName \in DOMAIN catalog.repositories
            /\ catalog.repositories[DockerName] = "docker"

Missing(needs) == {need \in needs : ~Found(need)}

Ask(part, needs) ==
    lacking' = lacking \cup {[part |-> part, need |-> need] : need \in Missing(needs)}

BackendNeeds ==
    IF env.defectdojo_enabled
    THEN {"defectdojo_url", "defectdojo_token", "defectdojo_engagement_id"}
    ELSE {"trust_base_url"}
MessengerNeeds == {"yandex_messenger_token", "yandex_messenger_template_file"}
DockerNeeds == {"docker_registry_base_url", "docker_repository_name", "docker_repository"}
------------------------------------------------------------------------------
(* main, up to the server.  Every error ends it.                            *)

Configure ==
    /\ Goto("config", IF ConfigError(env) \/ ~Compiled(env) THEN "refused" ELSE "backend")
    /\ UNCHANGED <<vars, env, backend, notifier, serveVars, probeVars>>

\* report_backend_from_config; DefectDojo is not contacted.
OpenBackend ==
    /\ Goto("backend", "catalog")
    /\ Missing(BackendNeeds) = {}
    /\ backend' = IF env.defectdojo_enabled THEN "defectdojo" ELSE "local"
    /\ UNCHANGED <<vars, env, notifier, serveVars, probeVars>>

\* A setting is not there, or the report directory cannot be created, written
\* to or cleaned.
OpenBackendFails ==
    /\ Goto("backend", "refused")
    /\ env.defectdojo_enabled => Missing(BackendNeeds) # {}
    /\ Ask("backend", BackendNeeds)
    /\ UNCHANGED <<vars, env, backend, notifier, open, unseen, late, probeVars>>

LoadCatalog ==
    /\ Goto("catalog", "messenger")
    /\ LoadFirst
    /\ UNCHANGED <<env, backend, notifier, serveVars, probeVars>>

\* Nexus does not answer, or its listing is refused.
LoadCatalogFails ==
    /\ Goto("catalog", "refused")
    /\ UNCHANGED <<vars, env, backend, notifier, serveVars, probeVars>>

\* yandex_messenger_from_config.
StartMessenger ==
    /\ Goto("messenger", "bind")
    /\ env.yandex_messenger_enabled => Missing(MessengerNeeds) = {}
    /\ notifier' = IF env.yandex_messenger_enabled THEN "running" ELSE "none"
    /\ UNCHANGED <<vars, env, backend, serveVars, probeVars>>

\* A setting is not there; or validate_config: the template cannot be read or
\* is empty, or no URL.
StartMessengerFails ==
    /\ Goto("messenger", "refused")
    /\ env.yandex_messenger_enabled
    /\ Ask("messenger", MessengerNeeds)
    /\ UNCHANGED <<vars, env, backend, notifier, open, unseen, late, probeVars>>

Bind ==
    /\ Goto("bind", "serving") \/ Goto("bind", "refused")
    /\ UNCHANGED <<vars, env, backend, notifier, serveVars, probeVars>>
------------------------------------------------------------------------------
(* While it serves.                                                         *)

\* spawn_repository_catalog_refresh: with an interval of zero there is no task.
Refreshing == env.repository_refresh_interval_secs # 0

\* Reloads start when somebody can ask for them; the rest is Catalog's.
ServeCatalog ==
    /\ Up
    /\ \/ /\ stage = "serving"
          /\ \/ \E a \in Admins : Given(env.admin_token) /\ Start(a)
             \/ Refreshing /\ Start(Refresher)
       \/ \E a \in Reloaders : Reloading(a)
       \/ \E a \in Admins : Drop(a)
       \/ Refreshing /\ Drop(Refresher)
    /\ UNCHANGED <<mainVars, serveVars, probeVars>>

NexusMoves == NexusChanges /\ UNCHANGED <<mainVars, serveVars, probeVars>>

Arrive(d) ==
    /\ stage = "serving"
    /\ d \in unseen
    /\ unseen' = unseen \ {d} /\ open' = open \cup {d}
    /\ UNCHANGED <<vars, mainVars, late, lacking, probeVars>>

\* A handler returns, or the client hangs up.
Leave(d) ==
    /\ d \in open
    /\ open' = open \ {d}
    /\ UNCHANGED <<vars, mainVars, unseen, late, lacking, probeVars>>

\* A handler of the registry path, in Docker mode: it looks the repository up
\* in the catalog of the moment (docker_repository_and_scanner).
LeaveImage(d) ==
    /\ d \in open
    /\ DockerConfigured(env)
    /\ open' = open \ {d}
    /\ Ask("image", DockerNeeds)
    /\ UNCHANGED <<vars, mainVars, unseen, late, probeVars>>

\* The handler of a chart with images, from a repository of the format helm
\* that is scanned: the images are resolved against the registry.
LeaveChart(d) ==
    /\ d \in open
    /\ "helm" \in env.artifact_scanner_formats
    /\ \E name \in DOMAIN catalog.repositories : catalog.repositories[name] = "helm"
    /\ open' = open \ {d}
    /\ Ask("chart", {"docker_registry_base_url"})
    /\ UNCHANGED <<vars, mainVars, unseen, late, probeVars>>

\* A handler returns 403; on the way it has looked its requester up with the
\* Nexus credentials and handed over a notification.
LeaveBlocked(d) ==
    /\ d \in open
    /\ notifier # "none"
    /\ open' = open \ {d}
    /\ late' = IF notifier = "running" THEN late ELSE late \cup {d}
    /\ Ask("requester", {"nexus_credentials"})
    /\ UNCHANGED <<vars, mainVars, unseen, probeVars>>
------------------------------------------------------------------------------
(* /healthz.                                                                *)

Probe ==
    /\ stage = "serving"
    /\ nexusCheck = "idle" /\ health = NoAnswer
    /\ nexusCheck' = "pending"
    /\ UNCHANGED <<vars, mainVars, serveVars, health>>

\* check_nexus loads a catalog and throws it away.
CheckNexus ==
    /\ nexusCheck = "pending"
    /\ nexusCheck' \in {"failed", IF Usable(nexus.items) THEN "ok" ELSE "failed"}
    /\ UNCHANGED <<vars, mainVars, serveVars, health>>

\* The parts besides Nexus, as health_checks asks them (the registry if it has
\* an address) and as timed_out_health_checks lists them.
Asked ==
    {part \in Parts :
        CASE part = "trust_reports" -> backend = "local"
          [] part = "docker_registry" -> Given(env.docker_registry_base_url)
          [] part = "trivy" -> TrivyUsed(env)}

Listed ==
    {part \in Parts :
        CASE part = "trust_reports" -> backend = "local"
          [] part = "docker_registry" -> DockerConfigured(env)
          [] part = "trivy" -> TrivyUsed(env)}

Answer(used, healthy) ==
    /\ health' = [unused |-> Parts \ used, healthy |-> healthy]
    /\ nexusCheck' = "idle"
    /\ UNCHANGED <<vars, mainVars, serveVars>>

\* Any part that was asked may have failed.
ProbeAnswers ==
    /\ nexusCheck \in {"ok", "failed"}
    /\ \E failed \in SUBSET Asked : Answer(Asked, nexusCheck = "ok" /\ failed = {})

\* Two seconds are over.
ProbeTimesOut ==
    /\ nexusCheck # "idle"
    /\ Answer(Listed, FALSE)
------------------------------------------------------------------------------
(* Shutdown.                                                                *)

\* A signal cancels the token, and the server takes no new requests.
Signal ==
    /\ Goto("serving", "draining")
    /\ Shutdown
    /\ UNCHANGED <<env, backend, notifier, serveVars, probeVars>>

Idle ==
    /\ open = {} /\ nexusCheck = "idle"
    /\ \A a \in Admins : pc[a] \notin {"lock", "load", "install"}

\* Mutant: the notifier goes down with the listener, before the handlers.
DrainedAtOnce ==
    /\ Goto("draining", "joining")
    /\ UNCHANGED <<vars, env, backend, notifier, serveVars, probeVars>>

\* axum::serve returns when every request has been answered.
Drained ==
    /\ Goto("draining", "joining")
    /\ Idle
    /\ UNCHANGED <<vars, env, backend, notifier, serveVars, probeVars>>

\* main waits for the refresh task, then drains the notifier's queue for a
\* bounded time (Messenger) and returns.
Exit ==
    /\ Goto("joining", "exited")
    /\ Refreshing => pc[Refresher] = "gone"
    /\ notifier' = IF notifier = "running" THEN "stopped" ELSE notifier
    /\ UNCHANGED <<vars, env, backend, serveVars, probeVars>>
------------------------------------------------------------------------------
Startup ==
    \/ Configure \/ OpenBackend \/ OpenBackendFails \/ LoadCatalog \/ LoadCatalogFails
    \/ StartMessenger \/ StartMessengerFails \/ Bind

ProbeStep == CheckNexus \/ ProbeAnswers \/ ProbeTimesOut

LifeNext ==
    \/ Startup \/ ServeCatalog \/ NexusMoves
    \/ \E d \in Downloads :
          Arrive(d) \/ Leave(d) \/ LeaveImage(d) \/ LeaveChart(d) \/ LeaveBlocked(d)
    \/ Probe \/ ProbeStep
    \/ Signal \/ Drained \/ Exit

LifeSpec == LifeInit /\ [][LifeNext]_lifeVars

\* Start-up calls have timeouts or return; the health check ends after two
\* seconds; the reloads are as fair as in Catalog.  Nothing makes a download
\* end, and nobody has to stop the process.
LifeFairSpec ==
    /\ LifeSpec
    /\ WF_lifeVars(Startup) /\ WF_lifeVars(ProbeStep)
    /\ WF_lifeVars(Drained) /\ WF_lifeVars(Exit)
    /\ \A a \in Reloaders :
          /\ SF_lifeVars(ServeCatalog /\ (Lock(a) \/ GenerationOverflow(a)))
          /\ WF_lifeVars(ServeCatalog /\ (Fetch(a) \/ FetchFails(a) \/ Reject(a) \/ Install(a)))
    /\ WF_lifeVars(ServeCatalog /\ Drop(Refresher))
------------------------------------------------------------------------------
(* Properties.                                                              *)

\* A process that was let past its configuration never lacks what it needs:
\* neither the report backend and the messenger when they are opened, nor the
\* handler of a block that looks its requester up, nor that of an image that
\* looks its repository up in a catalog reloaded meanwhile.  One thing may be
\* missing: README.md:567-572 has Helm chart scanning, active when `helm=trivy`
\* is set, require `NEXUS_SEC_PROXY_DOCKER_REGISTRY_BASE_URL`; the configuration
\* does not ask for it, and without it the images of a chart have no registry.
EveryNeedIsMet ==
    \A miss \in lacking :
        miss = [part |-> "chart", need |-> "docker_registry_base_url"] /\ ~docker

\* The health check is about the parts this process uses and no others,
\* whether its checks come back or time out: local storage without DefectDojo,
\* the registry in Docker mode, the scanner for formats that are scanned at all
\* (README.md:47-50).
HealthIsHonest ==
    health # NoAnswer =>
        /\ "trust_reports" \in health.unused <=> env.defectdojo_enabled
        /\ "docker_registry" \in health.unused <=> ~docker
        /\ "trivy" \in health.unused <=>
              env.artifact_scanner_formats \subseteq (IF docker THEN {} ELSE {"docker"})

\* No block comes too late to be told of: the notifier is stopped only after
\* the last handler has returned, whatever is under way when the signal comes.
NoNoticeIsLate == late = {}

\* A process that is told to stop does, although reloads hold the mutex, wait
\* for it or have just been started, unless a download never ends.
ProcessExits ==
    <>[](open # {}) \/ (cancelled ~> (stage = "exited"))
==============================================================================
