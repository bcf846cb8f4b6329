----------------------------- MODULE PolicyReload ----------------------------
(***************************************************************************)
(* POST /admin/api/policy/reload.  The handler reads and validates the     *)
(* policy file, then swaps the active policy under the write lock of an    *)
(* RwLock.  Nothing is held between the two, so reloads overlap.  Every    *)
(* version of the file has a number; the active policy remembers the one   *)
(* it was read from (asOf).                                                *)
(***************************************************************************)
EXTENDS Naturals, FiniteSets

CONSTANTS
    Admins,       \* the reload requests
    MaxVersion    \* bound on edits of the policy file

VARIABLES
    file,     \* [version, valid]: the policy file
    sound,    \* the versions of it that validate
    active,   \* [generation, asOf]: the active policy
    pc,
    began,    \* the version the file had when the reload was asked for
    read,     \* the version the reload has read
    result

vars == <<file, sound, active, pc, began, read, result>>

\* main does not start without a valid policy.
Init ==
    /\ file = [version |-> 0, valid |-> TRUE]
    /\ sound = {0}
    /\ active = [generation |-> 1, asOf |-> 0]
    /\ pc = [a \in Admins |-> "idle"]
    /\ began = [a \in Admins |-> 0]
    /\ read = [a \in Admins |-> 0]
    /\ result = [a \in Admins |-> "none"]

Start(a) ==
    /\ pc[a] = "idle"
    /\ pc' = [pc EXCEPT ![a] = "read"]
    /\ began' = [began EXCEPT ![a] = file.version]
    /\ UNCHANGED <<file, sound, active, read, result>>

\* load_policy_file: the file is read, parsed and validated.
Load(a) ==
    /\ pc[a] = "read"
    /\ file.valid
    /\ pc' = [pc EXCEPT ![a] = "swap"]
    /\ read' = [read EXCEPT ![a] = file.version]
    /\ UNCHANGED <<file, sound, active, began, result>>

LoadFails(a) ==
    /\ pc[a] = "read"
    /\ ~file.valid
    /\ pc' = [pc EXCEPT ![a] = "done"]
    /\ result' = [result EXCEPT ![a] = "failed"]
    /\ UNCHANGED <<file, sound, active, began, read>>

\* reload_active_policy: the generation is read and written under the lock.
Swap(a) ==
    /\ pc[a] = "swap"
    /\ active' = [generation |-> active.generation + 1, asOf |-> read[a]]
    /\ pc' = [pc EXCEPT ![a] = "done"]
    /\ result' = [result EXCEPT ![a] = "reloaded"]
    /\ UNCHANGED <<file, sound, began, read>>

Edit ==
    /\ file.version < MaxVersion
    /\ file' \in [version : {file.version + 1}, valid : BOOLEAN]
    /\ sound' = IF file'.valid THEN sound \cup {file'.version} ELSE sound
    /\ UNCHANGED <<active, pc, began, read, result>>

Next ==
    \/ \E a \in Admins : Start(a) \/ Load(a) \/ LoadFails(a) \/ Swap(a)
    \/ Edit

Spec == Init /\ [][Next]_vars
------------------------------------------------------------------------------
\* README.md:330, "Policy reload swaps the active policy only after successful
\* validation": what is active was valid as a whole when it was read, and is
\* a version some reload that succeeded has read.
ActiveIsSound ==
    /\ active.asOf \in sound
    /\ active.asOf # 0 => \E a \in Admins : result[a] = "reloaded" /\ read[a] = active.asOf

\* The generation an administrator watches counts the reloads that succeeded,
\* however they overlap; a failed one does not show.
GenerationCounts ==
    active.generation = 1 + Cardinality({a \in Admins : result[a] = "reloaded"})

\* README.md:366: "POST /admin/api/policy/reload reloads
\* NEXUS_SEC_PROXY_POLICY_FILE."  Of two overlapping reloads the one that read
\* the older file may swap last: both report success, the older policy stays.
ReloadIsCurrent ==
    \A a \in Admins : result[a] = "reloaded" => active.asOf >= began[a]
==============================================================================
