------------------------------- MODULE Catalog -------------------------------
(***************************************************************************)
(* The repository catalog: loaded once at start-up, then reloaded by POST  *)
(* /admin/api/repositories/reload and by the background refresh task, one  *)
(* at a time under an async mutex.  Nexus changes what it lists meanwhile, *)
(* clients hang up, and the proxy shuts down.                              *)
(*                                                                         *)
(* Every version of the Nexus listing has a number, and a catalog          *)
(* remembers the number it was loaded from (asOf).                         *)
(***************************************************************************)
EXTENDS Naturals, Sequences

CONSTANTS
    Admins,          \* POST /admin/api/repositories/reload requests
    Refresher,       \* the background refresh task
    Nobody,          \* holder of a free mutex
    Blank,           \* a name or a format that is empty after trimming
    DockerName,      \* DOCKER_REPOSITORY_NAME
    Listings,        \* answers of Nexus: sequences of [name, format]
    MaxVersion,      \* bound on changes of the Nexus listing
    MaxGeneration    \* u64::MAX

ASSUME CatalogAssumptions ==
    /\ Refresher \notin Admins
    /\ Nobody \notin Admins \cup {Refresher}
    /\ MaxVersion \in Nat
    /\ MaxGeneration \in Nat \ {0}

Reloaders == Admins \cup {Refresher}
NoListing == [version |-> 0, items |-> <<>>]
NotLoaded == [repositories |-> <<>>, generation |-> 0, asOf |-> 0]

VARIABLES
    docker,      \* docker_registry_configured
    nexus,       \* [version, items]: what Nexus lists now
    catalog,     \* [repositories, generation, asOf]: the active catalog
    lock,        \* repository_catalog_reload
    pc,          \* what each reloader waits for
    began,       \* the version Nexus was at when the reload was asked for
    next,        \* the generation the reload will install
    fetched,     \* the answer of Nexus it holds
    result,      \* how the reload ended
    cancelled    \* the shutdown token

vars == <<docker, nexus, catalog, lock, pc, began, next, fetched, result, cancelled>>

\* RepositoryCatalog::new refuses an empty listing and blank names or formats.
WellFormed(items) ==
    /\ items # <<>>
    /\ \A i \in DOMAIN items : items[i].name # Blank /\ items[i].format # Blank

\* The map it builds: of several items with one name the last one stays.
Indexed(items) ==
    [n \in {items[i].name : i \in DOMAIN items} |->
        items[CHOOSE i \in DOMAIN items :
                 /\ items[i].name = n
                 /\ \A j \in DOMAIN items : items[j].name = n => j <= i].format]

\* Mutant: only the listing is looked at, not what the map made of it.
ListsDocker(repositories) == docker => DockerName \in DOMAIN repositories

\* validate_configured_repositories.
HasDocker(repositories) ==
    docker => DockerName \in DOMAIN repositories /\ repositories[DockerName] = "docker"

Usable(items) == WellFormed(items) /\ HasDocker(Indexed(items))

Init ==
    /\ docker \in BOOLEAN
    /\ nexus \in [version : {0}, items : Listings]
    /\ catalog = NotLoaded
    /\ lock = Nobody
    /\ pc = [a \in Reloaders |-> "idle"]
    /\ began = [a \in Reloaders |-> 0]
    /\ next = [a \in Reloaders |-> 0]
    /\ fetched = [a \in Reloaders |-> NoListing]
    /\ result = [a \in Reloaders |-> "none"]
    /\ cancelled = FALSE
------------------------------------------------------------------------------
\* main loads the first catalog the same way, and does not serve without it.
LoadFirst ==
    /\ catalog = NotLoaded
    /\ Usable(nexus.items)
    /\ catalog' = [repositories |-> Indexed(nexus.items), generation |-> 1,
                   asOf |-> nexus.version]
    /\ UNCHANGED <<docker, nexus, lock, pc, began, next, fetched, result, cancelled>>

(* reload_repository_catalog, called by an admin handler or by the task.    *)

Forget(a) ==
    /\ next' = [next EXCEPT ![a] = 0]
    /\ fetched' = [fetched EXCEPT ![a] = NoListing]

\* The admin handler is called; the ticker of the task fires.
Start(a) ==
    /\ catalog # NotLoaded
    /\ pc[a] = "idle"
    /\ a = Refresher => ~cancelled
    /\ pc' = [pc EXCEPT ![a] = "lock"]
    /\ began' = [began EXCEPT ![a] = nexus.version]
    /\ UNCHANGED <<docker, nexus, catalog, lock, next, fetched, result, cancelled>>

\* An admin request is answered once; the task waits for its next tick.  The
\* locals of the call are gone.
Finish(a, outcome) ==
    /\ pc' = [pc EXCEPT ![a] = IF a = Refresher THEN "idle" ELSE "done"]
    /\ result' = [result EXCEPT ![a] = outcome]
    /\ Forget(a)

\* Mutant: the mutex is gone.
LockIgnored(a) ==
    /\ pc[a] = "lock"
    /\ lock' = a
    /\ next' = [next EXCEPT ![a] = catalog.generation + 1]
    /\ pc' = [pc EXCEPT ![a] = "load"]
    /\ UNCHANGED <<docker, nexus, catalog, began, fetched, result, cancelled>>

\* The generation is taken from the current catalog under the mutex.
Lock(a) ==
    /\ pc[a] = "lock"
    /\ lock = Nobody
    /\ catalog.generation < MaxGeneration
    /\ lock' = a
    /\ next' = [next EXCEPT ![a] = catalog.generation + 1]
    /\ pc' = [pc EXCEPT ![a] = "load"]
    /\ UNCHANGED <<docker, nexus, catalog, began, fetched, result, cancelled>>

\* checked_add fails; the guard is dropped at once.
GenerationOverflow(a) ==
    /\ pc[a] = "lock"
    /\ lock = Nobody
    /\ catalog.generation = MaxGeneration
    /\ Finish(a, "failed")
    /\ UNCHANGED <<docker, nexus, catalog, lock, began, cancelled>>

\* Nexus answers with what it lists at that moment.
Fetch(a) ==
    /\ pc[a] = "load"
    /\ fetched' = [fetched EXCEPT ![a] = nexus]
    /\ pc' = [pc EXCEPT ![a] = "install"]
    /\ UNCHANGED <<docker, nexus, catalog, lock, began, next, result, cancelled>>

\* No answer in time, an error status, or a body that is no listing.
FetchFails(a) ==
    /\ pc[a] \in {"load", "install"}
    /\ lock' = Nobody
    /\ Finish(a, "failed")
    /\ UNCHANGED <<docker, nexus, catalog, began, cancelled>>

\* Mutant: the guard lives on in a task that failed.
RejectKeepingLock(a) ==
    /\ pc[a] = "install"
    /\ ~Usable(fetched[a].items)
    /\ Finish(a, "failed")
    /\ UNCHANGED <<docker, nexus, catalog, lock, began, cancelled>>

\* The answer has arrived and is refused: the last valid catalog stays.
Reject(a) ==
    /\ pc[a] = "install"
    /\ ~Usable(fetched[a].items)
    /\ lock' = Nobody
    /\ Finish(a, "failed")
    /\ UNCHANGED <<docker, nexus, catalog, began, cancelled>>

\* replace_repository_catalog, and the guard is dropped on return.
Install(a) ==
    /\ pc[a] = "install"
    /\ Usable(fetched[a].items)
    /\ catalog' = [repositories |-> Indexed(fetched[a].items),
                   generation |-> next[a], asOf |-> fetched[a].version]
    /\ lock' = Nobody
    /\ Finish(a, "reloaded")
    /\ UNCHANGED <<docker, nexus, began, cancelled>>

\* Mutant: the task watches the token only while it reloads.
DropDuringReload(a) ==
    /\ pc[a] \in {"lock", "load", "install"}
    /\ a = Refresher => cancelled
    /\ pc' = [pc EXCEPT ![a] = "gone"]
    /\ lock' = IF lock = a THEN Nobody ELSE lock
    /\ Forget(a)
    /\ UNCHANGED <<docker, nexus, catalog, began, result, cancelled>>

\* The client hangs up, or the token ends the task: the future is dropped
\* where it waits, and with it the guard it may hold.
Drop(a) ==
    /\ pc[a] \in {"lock", "load", "install"} \/ (a = Refresher /\ pc[a] = "idle")
    /\ a = Refresher => cancelled
    /\ pc' = [pc EXCEPT ![a] = "gone"]
    /\ lock' = IF lock = a THEN Nobody ELSE lock
    /\ Forget(a)
    /\ UNCHANGED <<docker, nexus, catalog, began, result, cancelled>>
------------------------------------------------------------------------------
NexusChanges ==
    /\ nexus.version < MaxVersion
    /\ nexus' \in [version : {nexus.version + 1}, items : Listings]
    /\ UNCHANGED <<docker, catalog, lock, pc, began, next, fetched, result, cancelled>>

Shutdown ==
    /\ ~cancelled
    /\ cancelled' = TRUE
    /\ UNCHANGED <<docker, nexus, catalog, lock, pc, began, next, fetched, result>>

Reloading(a) ==
    \/ Lock(a) \/ GenerationOverflow(a)
    \/ Fetch(a) \/ FetchFails(a) \/ Reject(a) \/ Install(a)

Next ==
    \/ \E a \in Reloaders : Start(a) \/ Reloading(a) \/ Drop(a)
    \/ LoadFirst \/ NexusChanges \/ Shutdown

Spec == Init /\ [][Next]_vars

\* The mutex queues its waiters first come, first served; the HTTP client has
\* a timeout; tokio wakes a task whose token was cancelled.
FairSpec ==
    /\ Spec
    /\ \A a \in Reloaders :
          /\ SF_vars(Lock(a) \/ GenerationOverflow(a))
          /\ WF_vars(Fetch(a) \/ FetchFails(a) \/ Reject(a) \/ Install(a))
    /\ WF_vars(Drop(Refresher))
------------------------------------------------------------------------------
(* Properties.                                                              *)

\* The active catalog has the configured Docker repository, with that format,
\* whatever Nexus has answered (README.md:176-180): the handlers never answer
\* that Docker mode is misconfigured.
CatalogUsable ==
    docker /\ catalog # NotLoaded =>
        /\ DockerName \in DOMAIN catalog.repositories
        /\ catalog.repositories[DockerName] = "docker"

\* Reloads never go back: a catalog is replaced only by a listing Nexus gave
\* no earlier, under the next generation, though reloads overlap, fail and
\* are dropped halfway.
CatalogMovesForward ==
    [][catalog' # catalog =>
         /\ catalog'.asOf >= catalog.asOf
         /\ catalog'.generation = catalog.generation + 1]_catalog

\* An answered reload is current: the active catalog is what Nexus listed when
\* the reload was asked for, or something newer.
ReloadIsCurrent ==
    \A a \in Admins : result[a] = "reloaded" => catalog.asOf >= began[a]

\* Every reload ends and the mutex comes back, also from tasks that were
\* dropped while they held it.
ReloadsEnd == \A a \in Admins : (pc[a] = "lock") ~> (pc[a] \in {"done", "gone"})

==============================================================================
