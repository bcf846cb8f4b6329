--------------------------- MODULE LifecycleProofs ---------------------------
(***************************************************************************)
(* What holds of Catalog for every set of administrators, every listing    *)
(* Nexus can give and every bound, and of Lifecycle for every environment. *)
(* The process is shown to run Catalog, so what is proved of Catalog holds *)
(* of the process.                                                         *)
(***************************************************************************)
EXTENDS Lifecycle, TLAPS

TypeInv ==
    /\ nexus.version \in Nat
    /\ catalog.generation \in Nat /\ catalog.asOf \in Nat
    /\ catalog # NotLoaded => catalog.generation > 0
    /\ pc \in [Reloaders -> {"idle", "lock", "load", "install", "done", "gone"}]
    /\ began \in [Reloaders -> Nat]
    /\ next \in [Reloaders -> Nat]
    /\ DOMAIN fetched = Reloaders
    /\ result \in [Reloaders -> {"none", "failed", "reloaded"}]

\* The mutex is held exactly from the reading of the generation to the
\* replacement, so both the generation and the listing in hand still follow
\* the active catalog when they are installed.
Serialised ==
    /\ catalog = NotLoaded => \A a \in Reloaders : pc[a] \in {"idle", "gone"}
    /\ \A a \in Reloaders : (pc[a] \in {"load", "install"}) <=> (lock = a)
    /\ \A a \in Reloaders :
          pc[a] \in {"load", "install"} => next[a] = catalog.generation + 1
    /\ \A a \in Reloaders :
          pc[a] = "install" =>
             /\ fetched[a].version \in Nat
             /\ catalog.asOf <= fetched[a].version
             /\ began[a] <= fetched[a].version
             /\ fetched[a].version <= nexus.version

Current ==
    /\ catalog.asOf <= nexus.version
    /\ \A a \in Reloaders : began[a] <= nexus.version
    /\ \A a \in Admins : result[a] = "reloaded" => pc[a] = "done" /\ began[a] <= catalog.asOf

Inv == TypeInv /\ Serialised /\ Current /\ CatalogUsable

\* A process that has not loaded its catalog yet satisfies the inductive invariant.
LEMMA InitInv == Init => Inv
BY CatalogAssumptions
   DEF Init, Inv, TypeInv, Serialised, Current, CatalogUsable, Reloaders, NotLoaded

\* Every step of a reload, of the refresh task and of Nexus keeps it.
LEMMA NextInv == Inv /\ [Next]_vars => Inv'
<1> SUFFICES ASSUME Inv, [Next]_vars PROVE Inv'
  OBVIOUS
<1> USE CatalogAssumptions DEF Inv, TypeInv, Serialised, Current, CatalogUsable, Reloaders
<1>0. CASE LoadFirst
  BY <1>0 DEF LoadFirst, Usable, HasDocker, NotLoaded
<1>1. ASSUME NEW a \in Reloaders, Start(a) PROVE Inv'
  BY <1>1 DEF Start
<1>2. ASSUME NEW a \in Reloaders, Lock(a) PROVE Inv'
  BY <1>2 DEF Lock
<1>3. ASSUME NEW a \in Reloaders, GenerationOverflow(a) PROVE Inv'
  BY <1>3 DEF GenerationOverflow, Finish, Forget
<1>4. ASSUME NEW a \in Reloaders, Fetch(a) PROVE Inv'
  BY <1>4 DEF Fetch
<1>5. ASSUME NEW a \in Reloaders, FetchFails(a) PROVE Inv'
  BY <1>5 DEF FetchFails, Finish, Forget
<1>6. ASSUME NEW a \in Reloaders, Reject(a) PROVE Inv'
  BY <1>6 DEF Reject, Finish, Forget
<1>7. ASSUME NEW a \in Reloaders, Install(a) PROVE Inv'
  BY <1>7 DEF Install, Finish, Forget, Usable, HasDocker, NotLoaded
<1>8. ASSUME NEW a \in Reloaders, Drop(a) PROVE Inv'
  BY <1>8 DEF Drop, Forget
<1>9. CASE NexusChanges
  BY <1>9 DEF NexusChanges
<1>10. CASE Shutdown
  BY <1>10 DEF Shutdown
<1>11. CASE UNCHANGED vars
  BY <1>11 DEF vars
<1> HIDE DEF Inv
<1> QED
  BY <1>0, <1>1, <1>2, <1>3, <1>4, <1>5, <1>6, <1>7, <1>8, <1>9, <1>10, <1>11
     DEF Next, Reloading

\* It holds throughout.
LEMMA Invariance == Spec => []Inv
BY InitInv, NextInv, PTL DEF Spec

\* The active catalog always has the configured Docker repository.
THEOREM CatalogIsUsable == Spec => []CatalogUsable
<1>1. Inv => CatalogUsable
  BY DEF Inv
<1> QED
  BY <1>1, Invariance, PTL

\* An answered reload is never older than the request for it.
THEOREM ReloadsAreCurrent == Spec => []ReloadIsCurrent
<1>1. Inv => ReloadIsCurrent
  BY DEF Inv, TypeInv, Current, ReloadIsCurrent, Reloaders
<1> QED
  BY <1>1, Invariance, PTL

\* Catalogs follow one another in the order of Nexus's listings, one
\* generation at a time.
THEOREM CatalogsMoveForward == Spec => CatalogMovesForward
<1>1. Inv /\ [Next]_vars =>
        [catalog' # catalog => /\ catalog'.asOf >= catalog.asOf
                               /\ catalog'.generation = catalog.generation + 1]_catalog
  <2> SUFFICES ASSUME Inv, [Next]_vars, catalog' # catalog
               PROVE  /\ catalog'.asOf >= catalog.asOf
                      /\ catalog'.generation = catalog.generation + 1
    OBVIOUS
  <2>1. CASE LoadFirst
    BY <2>1 DEF LoadFirst, NotLoaded, Inv, TypeInv
  <2>2. CASE ~LoadFirst
    <3>1. PICK a \in Reloaders : Install(a)
      BY <2>2 DEF Next, vars, Reloading, Start, Lock, GenerationOverflow, Fetch, FetchFails,
             Reject, Drop, NexusChanges, Shutdown
    <3> QED
      BY <3>1 DEF Install, Inv, TypeInv, Serialised
  <2> QED
    BY <2>1, <2>2
<1> QED
  BY <1>1, Invariance, PTL DEF Spec, CatalogMovesForward
------------------------------------------------------------------------------
\* Every step of the process is a step of Catalog or leaves it alone: the
\* process loads its catalog once, and reloads it only as Catalog does.
THEOREM ProcessRunsCatalog == LifeSpec => Spec
<1>1. LifeInit => Init
  BY DEF LifeInit
<1>2. [LifeNext]_lifeVars => [Next]_vars
  <2> SUFFICES ASSUME [LifeNext]_lifeVars PROVE [Next]_vars
    OBVIOUS
  <2>1. CASE Startup
    BY <2>1 DEF Startup, Configure, OpenBackend, OpenBackendFails, LoadCatalog,
                LoadCatalogFails, StartMessenger, StartMessengerFails, Bind, Next
  <2>2. CASE ServeCatalog
    BY <2>2 DEF ServeCatalog, Next, Reloaders
  <2>3. CASE NexusMoves \/ Signal
    BY <2>3 DEF NexusMoves, Signal, Next
  <2>4. CASE \E d \in Downloads :
               Arrive(d) \/ Leave(d) \/ LeaveImage(d) \/ LeaveChart(d) \/ LeaveBlocked(d)
    BY <2>4 DEF Arrive, Leave, LeaveImage, LeaveChart, LeaveBlocked
  <2>5. CASE Probe \/ ProbeStep
    BY <2>5 DEF Probe, ProbeStep, CheckNexus, ProbeAnswers, ProbeTimesOut, Answer
  <2>6. CASE Drained \/ Exit
    BY <2>6 DEF Drained, Exit
  <2>7. CASE UNCHANGED lifeVars
    BY <2>7 DEF lifeVars
  <2> QED
    BY <2>1, <2>2, <2>3, <2>4, <2>5, <2>6, <2>7 DEF LifeNext
<1> QED
  BY <1>1, <1>2, PTL DEF LifeSpec, Spec

Running == {"serving", "draining", "joining"}

\* How far main has come tells what has been set up.
SetUp ==
    /\ env \in Environments
    /\ docker = DockerConfigured(env)
    /\ stage \in {"config", "backend", "catalog", "messenger", "bind", "refused", "exited"}
               \cup Running
    /\ stage \notin {"config", "refused"} => ~ConfigError(env)
    /\ stage \in {"catalog", "messenger", "bind", "exited"} \cup Running =>
          backend = IF env.defectdojo_enabled THEN "defectdojo" ELSE "local"
    /\ stage \in {"bind"} \cup Running =>
          notifier = IF env.yandex_messenger_enabled THEN "running" ELSE "none"
    /\ stage \in {"messenger", "bind"} \cup Running => catalog # NotLoaded

\* Only a process that serves or drains has requests under way.
UnderWay ==
    /\ open # {} => stage \in {"serving", "draining"}
    /\ nexusCheck # "idle" => stage \in {"serving", "draining"}
    /\ health # NoAnswer => stage \in Running \cup {"exited"}

LifeInv == SetUp /\ UnderWay /\ NoNoticeIsLate /\ HealthIsHonest /\ EveryNeedIsMet

\* A process that has just been started satisfies it.
LEMMA LifeInitInv == LifeInit => LifeInv
BY DEF LifeInit, LifeInv, SetUp, UnderWay, NoNoticeIsLate, HealthIsHonest, EveryNeedIsMet, Running

\* Both lists of the parts in use agree with the configuration: the registry
\* has a repository as soon as it has an address.
LEMMA PartsInUse ==
    ASSUME SetUp, stage \in {"serving", "draining"}
    PROVE  /\ Asked = Listed
           /\ "trust_reports" \in Parts \ Listed <=> env.defectdojo_enabled
           /\ "docker_registry" \in Parts \ Listed <=> ~docker
           /\ "trivy" \in Parts \ Listed <=>
                 env.artifact_scanner_formats \subseteq (IF docker THEN {} ELSE {"docker"})
<1>1. env \in EnvironmentType
  BY ConfigurationAssumptions DEF SetUp
<1>2. Given(env.docker_registry_base_url) <=> DockerConfigured(env)
  BY DEF SetUp, ConfigError, DockerError, DockerConfigured
<1>3. backend = "local" <=> ~env.defectdojo_enabled
  BY <1>1 DEF SetUp, Running, EnvironmentType
<1>4. TrivyUsed(env) <=>
         ~(env.artifact_scanner_formats \subseteq (IF docker THEN {} ELSE {"docker"}))
  BY <1>1 DEF TrivyUsed, SetUp, EnvironmentType
<1>5. Asked = Listed
  BY <1>2 DEF Asked, Listed
<1>6. /\ "trust_reports" \in Listed <=> backend = "local"
      /\ "docker_registry" \in Listed <=> DockerConfigured(env)
      /\ "trivy" \in Listed <=> TrivyUsed(env)
  BY DEF Listed, Parts
<1>7. docker <=> DockerConfigured(env)
  BY DEF SetUp, DockerConfigured
<1> QED
  BY <1>1, <1>3, <1>4, <1>5, <1>6, <1>7 DEF Parts, EnvironmentType

\* What was validated at the start is there at every later use, and the
\* repository of the images is in whatever catalog is active.
LEMMA NeedsAreThere ==
    ASSUME SetUp, CatalogUsable, stage \notin {"config", "refused"}
    PROVE  /\ Missing(BackendNeeds) = {}
           /\ env.yandex_messenger_enabled =>
                 Missing(MessengerNeeds) = {} /\ Missing({"nexus_credentials"}) = {}
           /\ docker /\ catalog # NotLoaded => Missing(DockerNeeds) = {}
           /\ docker => Missing({"docker_registry_base_url"}) = {}
<1>1. env \in EnvironmentType /\ ~ConfigError(env)
  BY ConfigurationAssumptions DEF SetUp
<1>2. env.defectdojo_enabled =>
        /\ Found("defectdojo_url") /\ Found("defectdojo_token")
        /\ Found("defectdojo_engagement_id")
  <2> SUFFICES ASSUME env.defectdojo_enabled
               PROVE  /\ env.defectdojo_url = "given" /\ HasSecret(env.defectdojo_token)
                      /\ \E id \in env.defectdojo_engagement_id : id > 0
    BY DEF Found
  <2>1. /\ env.defectdojo_url = "given" /\ HasSecret(env.defectdojo_token)
        /\ env.defectdojo_engagement_id # {} /\ env.defectdojo_engagement_id # {0}
    BY <1>1 DEF ConfigError, DefectDojoError
  <2>2. env.defectdojo_engagement_id \subseteq Nat
    BY <1>1 DEF EnvironmentType
  <2>3. \E id \in env.defectdojo_engagement_id : id # 0
    BY <2>1
  <2> QED
    BY <2>1, <2>2, <2>3
<1>3. ~env.defectdojo_enabled => Found("trust_base_url")
  BY <1>1 DEF ConfigError, TrustReportError, Found
<1>4. env.yandex_messenger_enabled =>
        /\ Found("yandex_messenger_token") /\ Found("yandex_messenger_template_file")
        /\ Found("nexus_credentials")
  BY <1>1 DEF ConfigError, MessengerError, Found
<1>5. docker => Found("docker_registry_base_url") /\ Found("docker_repository_name")
  <2>1. docker => DockerConfigured(env) /\ env.docker_registry_base_url # "bad"
    BY <1>1 DEF SetUp, ConfigError, DockerError
  <2>2. env.docker_registry_base_url \in Texts
    BY <1>1 DEF EnvironmentType
  <2> QED
    BY <2>1, <2>2 DEF Found, DockerConfigured, Given, Texts
<1>6. docker /\ catalog # NotLoaded => Found("docker_repository")
  BY DEF CatalogUsable, HasDocker, Found
<1> QED
  BY <1>1, <1>2, <1>3, <1>4, <1>5, <1>6
     DEF Missing, BackendNeeds, MessengerNeeds, DockerNeeds, EnvironmentType

\* Who finds everything leaves nothing on record.
LEMMA NothingIsMissing ==
    ASSUME NEW part, NEW needs, Ask(part, needs), Missing(needs) = {}
    PROVE  lacking' = lacking
BY DEF Ask

\* No step of start-up, service or shutdown breaks it.
LEMMA LifeNextInv == LifeInv /\ Inv /\ [LifeNext]_lifeVars => LifeInv'
<1> SUFFICES ASSUME LifeInv, Inv, [LifeNext]_lifeVars PROVE LifeInv'
  OBVIOUS
<1> USE DEF LifeInv, UnderWay, NoNoticeIsLate, HealthIsHonest, EveryNeedIsMet, Running
<1>0. CatalogUsable
  BY DEF Inv
<1>1. CASE Startup
  <2> USE DEF SetUp, Goto
  <2>1. CASE Configure
    BY <2>1 DEF Configure, vars, serveVars, probeVars
  <2>2. CASE OpenBackend \/ OpenBackendFails
    <3>1. lacking' = lacking
      BY <1>0, <2>2, NeedsAreThere, NothingIsMissing DEF OpenBackend, OpenBackendFails, serveVars
    <3> QED
      BY <2>2, <3>1 DEF OpenBackend, OpenBackendFails, vars, serveVars, probeVars
  <2>3. CASE LoadCatalog
    <3>1. catalog'.generation = 1 /\ docker' = docker
      BY <2>3 DEF LoadCatalog, LoadFirst
    <3>2. catalog' # NotLoaded
      BY <3>1 DEF NotLoaded
    <3> QED
      BY <2>3, <3>1, <3>2 DEF LoadCatalog, serveVars, probeVars
  <2>4. CASE LoadCatalogFails
    BY <2>4 DEF LoadCatalogFails, vars, serveVars, probeVars
  <2>5. CASE StartMessenger \/ StartMessengerFails
    <3>1. lacking' = lacking
      BY <1>0, <2>5, NeedsAreThere, NothingIsMissing
         DEF StartMessenger, StartMessengerFails, serveVars
    <3> QED
      BY <2>5, <3>1 DEF StartMessenger, StartMessengerFails, vars, serveVars, probeVars
  <2>6. CASE Bind
    BY <2>6 DEF Bind, vars, serveVars, probeVars
  <2> QED
    BY <1>1, <2>1, <2>2, <2>3, <2>4, <2>5, <2>6 DEF Startup
<1>2. CASE ServeCatalog
  <2>1. docker' = docker /\ (catalog' = catalog \/ \E a \in Reloaders : Install(a))
    BY <1>2 DEF ServeCatalog, Reloaders, Reloading, Start, Lock, GenerationOverflow, Fetch,
                FetchFails, Reject, Install, Drop
  <2>2. ASSUME NEW a \in Reloaders, Install(a) PROVE catalog' # NotLoaded
    <3>1. next[a] \in Nat /\ next[a] = catalog.generation + 1 /\ catalog.generation \in Nat
      BY <2>2 DEF Install, Inv, TypeInv, Serialised
    <3>2. catalog'.generation # 0
      BY <2>2, <3>1 DEF Install
    <3> QED
      BY <3>2 DEF NotLoaded
  <2> QED
    BY <1>2, <2>1, <2>2 DEF ServeCatalog, Up, SetUp, mainVars, serveVars, probeVars
<1>3. CASE NexusMoves
  BY <1>3 DEF NexusMoves, NexusChanges, SetUp, mainVars, serveVars, probeVars
<1>4. ASSUME NEW d \in Downloads, Arrive(d) PROVE LifeInv'
  BY <1>4 DEF Arrive, SetUp, vars, mainVars, probeVars
<1>5. ASSUME NEW d \in Downloads,
             Leave(d) \/ LeaveImage(d) \/ LeaveChart(d) \/ LeaveBlocked(d)
      PROVE  LifeInv'
  <2>1. stage \in {"serving", "draining"}
    BY <1>5 DEF Leave, LeaveImage, LeaveChart, LeaveBlocked
  <2>2. SetUp /\ catalog # NotLoaded /\ (docker <=> DockerConfigured(env))
    BY <2>1 DEF SetUp, DockerConfigured
  <2>3. docker' = docker
    BY <1>5 DEF Leave, LeaveImage, LeaveChart, LeaveBlocked, vars
  <2>4. EveryNeedIsMet'
    <3>1. CASE Leave(d)
      BY <2>3, <3>1 DEF Leave
    <3>2. CASE LeaveImage(d)
      BY <1>0, <2>1, <2>2, <2>3, <3>2, NeedsAreThere, NothingIsMissing DEF LeaveImage
    <3>3. CASE LeaveChart(d)
      <4>1. CASE docker
        BY <1>0, <2>1, <2>2, <2>3, <3>3, <4>1, NeedsAreThere, NothingIsMissing DEF LeaveChart
      <4>2. CASE ~docker
        <5>1. Missing({"docker_registry_base_url"}) \subseteq {"docker_registry_base_url"}
          BY DEF Missing
        <5> QED
          BY <2>3, <3>3, <4>2, <5>1 DEF LeaveChart, Ask
      <4> QED
        BY <4>1, <4>2
    <3>4. CASE LeaveBlocked(d)
      <4>1. env.yandex_messenger_enabled
        BY <2>1, <3>4 DEF LeaveBlocked, SetUp
      <4> QED
        BY <1>0, <2>1, <2>2, <2>3, <3>4, <4>1, NeedsAreThere, NothingIsMissing DEF LeaveBlocked
    <3> QED
      BY <1>5, <3>1, <3>2, <3>3, <3>4
  <2>5. SetUp' /\ UnderWay' /\ NoNoticeIsLate' /\ HealthIsHonest'
    BY <1>5 DEF Leave, LeaveImage, LeaveChart, LeaveBlocked, SetUp, vars, mainVars, probeVars
  <2> QED
    BY <2>4, <2>5
<1>6. CASE Probe \/ CheckNexus
  BY <1>6 DEF Probe, CheckNexus, SetUp, vars, mainVars, serveVars
<1>7. CASE ProbeAnswers \/ ProbeTimesOut
  <2>1. stage \in {"serving", "draining"}
    BY <1>7 DEF ProbeAnswers, ProbeTimesOut
  <2>2. SetUp'
    BY <1>7 DEF ProbeAnswers, ProbeTimesOut, Answer, SetUp, vars, mainVars
  <2>3. health'.unused = Parts \ Listed
    BY <1>7, <2>1, PartsInUse DEF ProbeAnswers, ProbeTimesOut, Answer
  <2> QED
    BY <1>7, <2>1, <2>2, <2>3, PartsInUse
       DEF ProbeAnswers, ProbeTimesOut, Answer, vars, mainVars, serveVars
<1>8. CASE Signal
  BY <1>8 DEF Signal, Shutdown, Goto, SetUp, serveVars, probeVars
<1>9. CASE Drained
  BY <1>9 DEF Drained, Idle, Goto, SetUp, vars, serveVars, probeVars
<1>10. CASE Exit
  BY <1>10 DEF Exit, Goto, SetUp, vars, serveVars, probeVars
<1>11. CASE UNCHANGED lifeVars
  BY <1>11 DEF lifeVars, SetUp, vars, mainVars, serveVars, probeVars
<1> HIDE DEF LifeInv
<1> QED
  BY <1>1, <1>2, <1>3, <1>4, <1>5, <1>6, <1>7, <1>8, <1>9, <1>10, <1>11
     DEF LifeNext, ProbeStep

\* It holds throughout, since Catalog's invariant does.
LEMMA LifeInvariance == LifeSpec => []LifeInv
<1>1. LifeSpec => []Inv
  BY ProcessRunsCatalog, Invariance, PTL
<1> QED
  BY <1>1, LifeInitInv, LifeNextInv, PTL DEF LifeSpec

\* In every environment that is accepted, and under every catalog that replaces
\* another, each part finds what it needs where it needs it; only the scan of
\* charts without a registry does not.
THEOREM NeedsAreMet == LifeSpec => []EveryNeedIsMet
<1>1. LifeInv => EveryNeedIsMet
  BY DEF LifeInv
<1> QED
  BY <1>1, LifeInvariance, PTL

\* The health check names the parts in use, whether it completes or times out.
THEOREM HealthChecksAreHonest == LifeSpec => []HealthIsHonest
<1>1. LifeInv => HealthIsHonest
  BY DEF LifeInv
<1> QED
  BY <1>1, LifeInvariance, PTL

\* The notifier outlives every handler.
THEOREM NoticesAreInTime == LifeSpec => []NoNoticeIsLate
<1>1. LifeInv => NoNoticeIsLate
  BY DEF LifeInv
<1> QED
  BY <1>1, LifeInvariance, PTL
==============================================================================
