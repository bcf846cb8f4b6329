---------------------------- MODULE Configuration ----------------------------
(***************************************************************************)
(* The configuration: which environments AppConfig::from_env_vars accepts, *)
(* and what the rest of the program asks of it.                            *)
(*                                                                         *)
(* A textual variable is absent, blank, bad (a value its validation        *)
(* refuses) or given.  A secret comes from a variable or from a file that  *)
(* another variable names.  The policy file, and the variables that are    *)
(* only parsed (addresses, flags, numbers and maps), are one flag:         *)
(* malformed.                                                              *)
(***************************************************************************)
EXTENDS Naturals

CONSTANTS
    Environments,    \* the environments the process is started in
    Features         \* the features the binary is built with

Texts == {"absent", "blank", "bad", "given"}
Secrets == [value : {"absent", "blank", "given"},
            file : {"absent", "blank", "unreadable", "empty", "given"}]

EnvironmentType ==
    [malformed : BOOLEAN,
     docker_registry_base_url : Texts, docker_repository_name : Texts,
     nexus_username : Texts, nexus_password : Secrets,
     yandex_messenger_enabled : BOOLEAN, yandex_messenger_token : Secrets,
     yandex_messenger_template_file : Texts,
     defectdojo_enabled : BOOLEAN, defectdojo_url : Texts,
     defectdojo_token : Secrets, defectdojo_engagement_id : SUBSET Nat,
     trust_base_url : Texts, trust_report_retention_days : Nat,
     repository_refresh_interval_secs : Nat, admin_token : Texts,
     artifact_scanner_formats : SUBSET {"docker", "helm"}]

ASSUME ConfigurationAssumptions ==
    /\ Environments \subseteq EnvironmentType
    /\ Features \subseteq {"defectdojo", "yandex-messenger"}

\* optional_string_env: what is blank is not there.
Given(text) == text \notin {"absent", "blank"}

\* secret_env: two sources conflict, and a file must be readable.
SecretError(s) == Given(s.file) /\ (Given(s.value) \/ s.file = "unreadable")

\* An empty file is no secret.
HasSecret(s) == Given(s.value) \/ s.file = "given"

\* Mutant: the name of the repository is not asked for.
DockerUrlError(e) == e.docker_registry_base_url = "bad"

DockerError(e) ==
    \/ e.docker_registry_base_url = "bad"
    \/ Given(e.docker_registry_base_url) /\ ~Given(e.docker_repository_name)

\* Mutant: the credentials for looking up the requester are forgotten.
MessengerOwnError(e) ==
    \/ SecretError(e.yandex_messenger_token)
    \/ /\ e.yandex_messenger_enabled
       /\ \/ ~HasSecret(e.yandex_messenger_token)
          \/ ~Given(e.yandex_messenger_template_file)

MessengerError(e) ==
    \/ SecretError(e.yandex_messenger_token)
    \/ /\ e.yandex_messenger_enabled
       /\ \/ ~HasSecret(e.yandex_messenger_token)
          \/ ~Given(e.yandex_messenger_template_file)
          \/ ~Given(e.nexus_username)
          \/ ~HasSecret(e.nexus_password)

\* The URL is looked at only when it is used.
DefectDojoError(e) ==
    \/ SecretError(e.defectdojo_token)
    \/ /\ e.defectdojo_enabled
       /\ \/ e.defectdojo_url # "given"
          \/ ~HasSecret(e.defectdojo_token)
          \/ e.defectdojo_engagement_id \in {{}, {0}}

\* The local store's settings count only without DefectDojo.
TrustReportError(e) ==
    /\ ~e.defectdojo_enabled
    /\ e.trust_base_url # "given" \/ e.trust_report_retention_days < 1

\* That charts are scanned does not make the Docker registry's address required.
ConfigError(e) ==
    \/ e.malformed
    \/ SecretError(e.nexus_password)
    \/ DockerError(e) \/ MessengerError(e) \/ DefectDojoError(e) \/ TrustReportError(e)

\* validate_compiled_integrations.
Compiled(e) ==
    /\ e.yandex_messenger_enabled => "yandex-messenger" \in Features
    /\ e.defectdojo_enabled => "defectdojo" \in Features

DockerConfigured(e) ==
    Given(e.docker_registry_base_url) /\ Given(e.docker_repository_name)

\* used_artifact_scanners: Trivy, for a format whose downloads are scanned.
TrivyUsed(e) ==
    \E f \in e.artifact_scanner_formats : f # "docker" \/ DockerConfigured(e)
==============================================================================
