---------------------------- MODULE MCLifecycle ------------------------------
(* Small instances of Lifecycle, and Catalog within it, for TLC.            *)
EXTENDS Lifecycle

CONSTANTS a1, hub, lib, d1

Item(name, format) == [name |-> name, format |-> format]

\* Usable: the hub repository given twice, the second time right, and charts
\* beside it; charts alone without Docker mode.  Refused
\* in Docker mode: another repository alone, the hub given twice, the second
\* time with another format.  Refused always: nothing, a blank name.
MCListings ==
    {<<Item(hub, "maven2"), Item(lib, "helm"), Item(hub, "docker")>>,
     <<>>,
     <<Item(lib, "helm")>>,
     <<Item(hub, "docker"), Item(Blank, "npm")>>,
     <<Item(hub, "docker"), Item(hub, "maven2")>>}

Secret(value, file) == [value |-> value, file |-> file]

\* Docker mode, local reports, the messenger, a refresh task.
Full ==
    [malformed |-> FALSE,
     docker_registry_base_url |-> "given", docker_repository_name |-> "given",
     nexus_username |-> "given", nexus_password |-> Secret("absent", "given"),
     yandex_messenger_enabled |-> TRUE, yandex_messenger_token |-> Secret("given", "blank"),
     yandex_messenger_template_file |-> "given",
     defectdojo_enabled |-> FALSE, defectdojo_url |-> "bad",
     defectdojo_token |-> Secret("absent", "empty"), defectdojo_engagement_id |-> {0},
     trust_base_url |-> "given", trust_report_retention_days |-> 1,
     repository_refresh_interval_secs |-> 1, admin_token |-> "given",
     artifact_scanner_formats |-> {"docker", "helm"}]

\* DefectDojo, a Docker repository without a registry, no refresh task and no
\* administrators; only Docker images would be scanned.
Remote ==
    [Full EXCEPT !.docker_registry_base_url = "blank",
                 !.yandex_messenger_enabled = FALSE, !.yandex_messenger_token.value = "absent",
                 !.defectdojo_enabled = TRUE, !.defectdojo_url = "given",
                 !.defectdojo_token = Secret("given", "absent"), !.defectdojo_engagement_id = {7},
                 !.trust_base_url = "absent", !.trust_report_retention_days = 0,
                 !.repository_refresh_interval_secs = 0, !.admin_token = "blank",
                 !.artifact_scanner_formats = {"docker"}]

\* What is missing or wrong in one place each.
Broken ==
    {[Full EXCEPT !.malformed = TRUE],
     [Full EXCEPT !.docker_registry_base_url = "bad"],
     [Full EXCEPT !.docker_repository_name = "blank"],
     [Full EXCEPT !.nexus_username = "absent"],
     [Full EXCEPT !.nexus_password = Secret("given", "given")],
     [Full EXCEPT !.nexus_password = Secret("absent", "empty")],
     [Full EXCEPT !.yandex_messenger_token = Secret("blank", "unreadable")],
     [Full EXCEPT !.yandex_messenger_template_file = "absent"],
     [Full EXCEPT !.trust_base_url = "bad"],
     [Full EXCEPT !.trust_report_retention_days = 0],
     [Remote EXCEPT !.defectdojo_url = "bad"],
     [Remote EXCEPT !.defectdojo_token = Secret("absent", "blank")],
     [Remote EXCEPT !.defectdojo_engagement_id = {}],
     [Remote EXCEPT !.defectdojo_engagement_id = {0}]}

\* Charts are scanned, and there is no registry for their images.
NoRegistry == [Remote EXCEPT !.artifact_scanner_formats = {"helm"}]

MCEnvironments == {Full, Remote, NoRegistry} \cup Broken
==============================================================================
