----------------------------- MODULE ReportStore -----------------------------
(***************************************************************************)
(* The local Trust report store: create, cleanup_if_due and                *)
(* cleanup_expired, read, verify_writable, and the start-up of a process.  *)
(* Several proxy processes share the directory; within a process the       *)
(* last_cleanup mutex admits one cleaner.  Every file operation is an      *)
(* await: it is a step of its own, a client that hangs up drops the        *)
(* handler there, and a process can crash there.                           *)
(*                                                                         *)
(* A report has two names in the directory, the temporary and the final    *)
(* one; both derive from a fresh UUID, so nobody else uses them.  A write  *)
(* probe has one, also from a fresh UUID.                                  *)
(***************************************************************************)
EXTENDS Naturals

CONSTANTS
    Reports,           \* the reports to create, one create call each
    Readers,           \* GET /trust/reports/{id} requests
    Probes,            \* calls of verify_writable, by health checks and start-ups
    Processes,         \* proxy processes that mount the directory
    Retention,         \* TRUST_REPORT_RETENTION_DAYS, in ticks of the clock
    CleanupInterval,   \* CLEANUP_INTERVAL, in ticks
    MaxTime,           \* bound on the clock
    Nobody, NoPlace

ASSUME ReportStoreAssumptions ==
    /\ Retention \in Nat \ {0}
    /\ CleanupInterval \in Nat \ {0}
    /\ MaxTime \in Nat
    /\ Nobody \notin Reports

Places == ({"tmp", "final"} \X Reports) \cup ({"probe"} \X Probes)
Absent == [content |-> "absent", modified |-> 0]

VARIABLES
    now,
    file,          \* place |-> [content, modified]
    running,       \* the processes that are up
    lastCleanup,   \* per process
    cleaner,       \* per process: the create call that holds the mutex
    pc, host,      \* of each create call: what it waits for, and where it runs
    stale,         \* history: what was expired when it listed the directory
    written,       \* history: when its report was written
    todo,          \* entries it has yet to look at
    victim,        \* the expired entry it is about to remove
    rpc, asked, served,  \* of each read: what it waits for, and its answer
    probing        \* of each write probe: what it waits for, and its answer

createVars == <<pc, host, stale, written, todo, victim>>
readVars == <<rpc, asked, served, probing>>
processVars == <<running, lastCleanup, cleaner>>
vars == <<now, file, processVars, createVars, readVars>>

Creating == {"lock", "list", "stat", "remove", "open", "write", "rename", "abort"}

\* Mutant: a report lives as long as the pause between two cleanups.
IsExpiredEarly(f) == now - f.modified >= CleanupInterval
IsExpired(f) == now - f.modified >= Retention

Present(place) == file[place].content # "absent"
Stale == {<<p, file[p].modified>> : p \in {q \in Places : Present(q) /\ IsExpired(file[q])}}

Init ==
    /\ now = 0
    /\ file = [p \in Places |-> Absent]
    /\ running = Processes
    /\ lastCleanup = [h \in Processes |-> 0]
    /\ cleaner = [h \in Processes |-> Nobody]
    /\ pc = [c \in Reports |-> "idle"]
    /\ host \in [Reports -> Processes]
    /\ stale = [c \in Reports |-> {}]
    /\ written = [c \in Reports |-> 0]
    /\ todo = [c \in Reports |-> {}]
    /\ victim = [c \in Reports |-> NoPlace]
    /\ rpc = [x \in Readers |-> "idle"]
    /\ asked \in [Readers -> Reports]
    /\ served = [x \in Readers |-> "none"]
    /\ probing = [q \in Probes |-> "open"]

Goto(c, label) == pc' = [pc EXCEPT ![c] = label]
Unlock(c) == cleaner' = [cleaner EXCEPT ![host[c]] = Nobody]
Keep(place, content) == file' = [file EXCEPT ![place] = [content |-> content, modified |-> now]]
Remove(place) == file' = [file EXCEPT ![place] = Absent]
MoveToFinal(c) ==
    file' = [file EXCEPT ![<<"final", c>>] = file[<<"tmp", c>>], ![<<"tmp", c>>] = Absent]
------------------------------------------------------------------------------
(* create: first cleanup_if_due,                                            *)

Begin(c) ==
    /\ pc[c] = "idle"
    /\ host[c] \in running
    /\ Goto(c, "lock")
    /\ UNCHANGED <<now, file, processVars, host, stale, written, todo, victim, readVars>>

NotDue(c) ==
    /\ pc[c] = "lock"
    /\ cleaner[host[c]] = Nobody
    /\ now - lastCleanup[host[c]] < CleanupInterval
    /\ Goto(c, "open")
    /\ UNCHANGED <<now, file, processVars, host, stale, written, todo, victim, readVars>>

Due(c) ==
    /\ pc[c] = "lock"
    /\ cleaner[host[c]] = Nobody
    /\ now - lastCleanup[host[c]] >= CleanupInterval
    /\ cleaner' = [cleaner EXCEPT ![host[c]] = c]
    /\ Goto(c, "list")
    /\ UNCHANGED <<now, file, running, lastCleanup, host, stale, written, todo, victim, readVars>>

\* Mutant: only names that end in .html are looked at.
ListReports(c) ==
    /\ pc[c] = "list"
    /\ todo' = [todo EXCEPT ![c] = {p \in {"final"} \X Reports : Present(p)}]
    /\ stale' = [stale EXCEPT ![c] = Stale]
    /\ Goto(c, "stat")
    /\ UNCHANGED <<now, file, processVars, host, written, victim, readVars>>

\* read_dir: the entries of the directory at this moment.
List(c) ==
    /\ pc[c] = "list"
    /\ todo' = [todo EXCEPT ![c] = {p \in Places : Present(p)}]
    /\ stale' = [stale EXCEPT ![c] = Stale]
    /\ Goto(c, "stat")
    /\ UNCHANGED <<now, file, processVars, host, written, victim, readVars>>

\* metadata of an entry: gone meanwhile, or young enough, or to be removed.
\* read_dir may also come across an entry that appeared since.
Stat(c, place) ==
    /\ pc[c] = "stat"
    /\ place \in todo[c] \/ Present(place)
    /\ todo' = [todo EXCEPT ![c] = @ \ {place}]
    /\ IF Present(place) /\ IsExpired(file[place])
       THEN victim' = [victim EXCEPT ![c] = place] /\ Goto(c, "remove")
       ELSE UNCHANGED <<victim, pc>>
    /\ UNCHANGED <<now, file, processVars, host, stale, written, readVars>>

RemoveExpired(c) ==
    /\ pc[c] = "remove"
    /\ Remove(victim[c])
    /\ victim' = [victim EXCEPT ![c] = NoPlace]
    /\ Goto(c, "stat")
    /\ UNCHANGED <<now, processVars, host, stale, written, todo, readVars>>

CleanupDone(c) ==
    /\ pc[c] = "stat"
    /\ todo[c] = {}
    /\ lastCleanup' = [lastCleanup EXCEPT ![host[c]] = now]
    /\ Unlock(c)
    /\ Goto(c, "open")
    /\ UNCHANGED <<now, file, running, host, stale, written, todo, victim, readVars>>

\* Mutant: the failed cleaner stays registered.
CleanupFailsLocked(c) ==
    /\ pc[c] \in {"list", "stat", "remove"}
    /\ todo' = [todo EXCEPT ![c] = {}]
    /\ victim' = [victim EXCEPT ![c] = NoPlace]
    /\ Goto(c, "failed")
    /\ UNCHANGED <<now, file, processVars, host, stale, written, readVars>>

\* An I/O error ends the cleanup, and with it the create call.
CleanupFails(c) ==
    /\ pc[c] \in {"list", "stat", "remove"}
    /\ todo' = [todo EXCEPT ![c] = {}]
    /\ victim' = [victim EXCEPT ![c] = NoPlace]
    /\ Unlock(c)
    /\ Goto(c, "failed")
    /\ UNCHANGED <<now, file, running, lastCleanup, host, stale, written, readVars>>
------------------------------------------------------------------------------
(* then the report: written under the temporary name, renamed when whole.   *)

\* Mutant: the report is written where readers look for it.
OpenInPlace(c) ==
    /\ pc[c] = "open"
    /\ Keep(<<"final", c>>, "partial")
    /\ Goto(c, "write")
    /\ UNCHANGED <<now, processVars, host, stale, written, todo, victim, readVars>>

Open(c) ==
    /\ pc[c] = "open"
    /\ Keep(<<"tmp", c>>, "partial")
    /\ Goto(c, "write")
    /\ UNCHANGED <<now, processVars, host, stale, written, todo, victim, readVars>>

\* write_all and sync_all.  The open file survives if its name was removed.
Write(c) ==
    /\ pc[c] = "write"
    /\ IF Present(<<"tmp", c>>) THEN Keep(<<"tmp", c>>, "whole") ELSE UNCHANGED file
    /\ written' = [written EXCEPT ![c] = now]
    /\ Goto(c, "rename")
    /\ UNCHANGED <<now, processVars, host, stale, todo, victim, readVars>>

\* rename keeps the modification time; without the temporary name it fails.
Rename(c) ==
    /\ pc[c] = "rename"
    /\ IF Present(<<"tmp", c>>)
       THEN MoveToFinal(c) /\ Goto(c, "created")
       ELSE UNCHANGED file /\ Goto(c, "abort")
    /\ UNCHANGED <<now, processVars, host, stale, written, todo, victim, readVars>>

WriteFails(c) ==
    /\ pc[c] \in {"open", "write", "rename"}
    /\ Goto(c, "abort")
    /\ UNCHANGED <<now, file, processVars, host, stale, written, todo, victim, readVars>>

\* The temporary name is removed as far as possible, and the call fails.
Abort(c) ==
    /\ pc[c] = "abort"
    /\ Remove(<<"tmp", c>>) \/ UNCHANGED file
    /\ Goto(c, "failed")
    /\ UNCHANGED <<now, processVars, host, stale, written, todo, victim, readVars>>

\* A file operation that was under way when the call was dropped may or may
\* not still happen.
InFlight(c) ==
    \/ UNCHANGED file
    \/ pc[c] = "remove" /\ Remove(victim[c])
    \/ pc[c] = "open" /\ Keep(<<"tmp", c>>, "partial")
    \/ pc[c] = "write" /\ Present(<<"tmp", c>>) /\ Keep(<<"tmp", c>>, "whole")
    \/ pc[c] = "rename" /\ Present(<<"tmp", c>>) /\ MoveToFinal(c)
    \/ pc[c] = "abort" /\ Remove(<<"tmp", c>>)

\* The client hangs up and the call is dropped, with the guard it may hold.
Cancel(c) ==
    /\ pc[c] \in Creating
    /\ InFlight(c)
    /\ todo' = [todo EXCEPT ![c] = {}]
    /\ victim' = [victim EXCEPT ![c] = NoPlace]
    /\ cleaner' = IF cleaner[host[c]] = c THEN [cleaner EXCEPT ![host[c]] = Nobody]
                  ELSE cleaner
    /\ Goto(c, "gone")
    /\ UNCHANGED <<now, running, lastCleanup, host, stale, written, readVars>>
------------------------------------------------------------------------------
(* read, in two steps; an expired report is removed on the way.             *)

Look(x) ==
    LET place == <<"final", asked[x]>> IN
    /\ rpc[x] = "idle"
    /\ \/ /\ Present(place) /\ ~IsExpired(file[place])
          /\ rpc' = [rpc EXCEPT ![x] = "read"]
          /\ UNCHANGED served
       \/ /\ Present(place) /\ IsExpired(file[place])
          /\ rpc' = [rpc EXCEPT ![x] = "remove"]
          /\ UNCHANGED served
       \/ /\ ~Present(place)
          /\ rpc' = [rpc EXCEPT ![x] = "done"]
          /\ served' = [served EXCEPT ![x] = "not_found"]
    /\ UNCHANGED <<now, file, processVars, createVars, asked, probing>>

ReadContents(x) ==
    LET place == <<"final", asked[x]>> IN
    /\ rpc[x] = "read"
    /\ rpc' = [rpc EXCEPT ![x] = "done"]
    /\ served' = [served EXCEPT ![x] =
                     IF Present(place) THEN file[place].content ELSE "not_found"]
    /\ UNCHANGED <<now, file, processVars, createVars, asked, probing>>

ReadFails(x) ==
    /\ rpc[x] \in {"idle", "read"}
    /\ rpc' = [rpc EXCEPT ![x] = "done"]
    /\ served' = [served EXCEPT ![x] = "error"]
    /\ UNCHANGED <<now, file, processVars, createVars, asked, probing>>

RemoveOnRead(x) ==
    /\ rpc[x] = "remove"
    /\ Remove(<<"final", asked[x]>>) \/ UNCHANGED file
    /\ rpc' = [rpc EXCEPT ![x] = "done"]
    /\ served' = [served EXCEPT ![x] = "not_found"]
    /\ UNCHANGED <<now, processVars, createVars, asked, probing>>
------------------------------------------------------------------------------
(* verify_writable: a probe file is created, written and removed.  A health *)
(* check calls it in a task of its own, a start-up before the first cleanup.*)

Probe(q) == <<"probe", q>>
ProbeGoto(q, label) == probing' = [probing EXCEPT ![q] = label]

ProbeOpen(q) ==
    /\ probing[q] = "open"
    /\ Keep(Probe(q), "partial")
    /\ ProbeGoto(q, "write")

ProbeWrite(q) ==
    /\ probing[q] = "write"
    /\ IF Present(Probe(q)) THEN Keep(Probe(q), "whole") ELSE UNCHANGED file
    /\ ProbeGoto(q, "remove")

\* A cleaner may have removed the probe of a call that took too long.
ProbeRemove(q) ==
    /\ probing[q] = "remove"
    /\ Remove(Probe(q))
    /\ ProbeGoto(q, IF Present(Probe(q)) THEN "ok" ELSE "abort")

ProbeFails(q) ==
    /\ probing[q] \in {"open", "write", "remove"}
    /\ UNCHANGED file
    /\ ProbeGoto(q, "abort")

ProbeAbort(q) ==
    /\ probing[q] = "abort"
    /\ Remove(Probe(q)) \/ UNCHANGED file
    /\ ProbeGoto(q, "failed")

\* The health check's time is up, or the process crashes; a file operation
\* under way may or may not still happen.
ProbeDropped(q) ==
    /\ probing[q] \in {"open", "write", "remove", "abort"}
    /\ \/ UNCHANGED file
       \/ probing[q] = "open" /\ Keep(Probe(q), "partial")
       \/ probing[q] = "write" /\ Present(Probe(q)) /\ Keep(Probe(q), "whole")
       \/ probing[q] \in {"remove", "abort"} /\ Remove(Probe(q))
    /\ ProbeGoto(q, "gone")

ProbeStep(q) ==
    /\ \/ ProbeOpen(q) \/ ProbeWrite(q) \/ ProbeRemove(q)
       \/ ProbeFails(q) \/ ProbeAbort(q) \/ ProbeDropped(q)
    /\ UNCHANGED <<now, processVars, createVars, rpc, asked, served>>
------------------------------------------------------------------------------
\* A process ends anywhere; its calls are over, its mutex goes with it.
Crash(h) ==
    /\ h \in running
    /\ running' = running \ {h}
    /\ cleaner' = [cleaner EXCEPT ![h] = Nobody]
    /\ pc' = [c \in Reports |-> IF host[c] = h /\ pc[c] \in Creating
                                THEN "gone" ELSE pc[c]]
    /\ todo' = [c \in Reports |-> IF host[c] = h THEN {} ELSE todo[c]]
    /\ victim' = [c \in Reports |-> IF host[c] = h THEN NoPlace ELSE victim[c]]
    /\ UNCHANGED <<now, file, lastCleanup, host, stale, written, readVars>>

\* initialize: after a write probe the directory is cleaned, before requests
\* come in.  On an I/O error part of it may be cleaned, and the process does
\* not start.
Initialize(h) ==
    /\ h \notin running
    /\ \E removed \in SUBSET {p \in Places : Present(p) /\ IsExpired(file[p])} :
          file' = [p \in Places |-> IF p \in removed THEN Absent ELSE file[p]]
    /\ \/ /\ \A p \in Places : file'[p] # Absent => ~IsExpired(file[p])
          /\ running' = running \cup {h}
          /\ lastCleanup' = [lastCleanup EXCEPT ![h] = now]
       \/ UNCHANGED <<running, lastCleanup>>
    /\ UNCHANGED <<now, cleaner, createVars, readVars>>

Tick ==
    /\ now < MaxTime
    /\ now' = now + 1
    /\ UNCHANGED <<file, processVars, createVars, readVars>>

CreateStep(c) ==
    \/ NotDue(c) \/ Due(c) \/ List(c) \/ (\E p \in Places : Stat(c, p))
    \/ RemoveExpired(c) \/ CleanupDone(c) \/ CleanupFails(c)
    \/ Open(c) \/ Write(c) \/ Rename(c) \/ WriteFails(c) \/ Abort(c)

Next ==
    \/ \E c \in Reports : Begin(c) \/ CreateStep(c) \/ Cancel(c)
    \/ \E x \in Readers : Look(x) \/ ReadContents(x) \/ ReadFails(x) \/ RemoveOnRead(x)
    \/ \E q \in Probes : ProbeStep(q)
    \/ \E h \in Processes : Crash(h) \/ Initialize(h)
    \/ Tick

Spec == Init /\ [][Next]_vars
------------------------------------------------------------------------------
(* Properties.                                                              *)

\* Nobody is ever shown half a report: a read answers with a whole one,
\* with 404 or with an error, also while the report is being written, after a
\* crash, and while cleaners remove files.
NeverHalfAReport == \A x \in Readers : served[x] # "partial"

\* A report whose URL was given out stays until its retention is over, though
\* cleaners of several processes, readers and restarts remove files beside it.
CreatedStays ==
    \A c \in Reports :
        pc[c] = "created" =>
            \/ file[<<"final", c>>].content = "whole"
            \/ now - written[c] >= Retention

\* A create call that failed published nothing: a denied download has no
\* report somebody could find.
FailedIsUnpublished ==
    \A c \in Reports : pc[c] = "failed" => ~Present(<<"final", c>>)

\* A completed cleanup leaves no file behind that was expired when it listed
\* the directory and has not been written or renamed since: the temporary
\* files and write probes that crashed processes left go too, whoever else
\* removes files meanwhile.
CleanupIsComplete ==
    [][\A c \in Reports :
          (pc[c] = "stat" /\ pc'[c] = "open") =>
              \A s \in stale[c] : Present(s[1]) => file[s[1]].modified # s[2]]_vars

\* Nobody waits for ever for the cleanup mutex: who holds it is inside the
\* cleanup and, as its process runs and file operations return, leaves it, also
\* after a failed cleanup or a dropped handler.
CleanupLockIsReleased ==
    \A h \in Processes :
        cleaner[h] # Nobody =>
            /\ h \in running /\ host[cleaner[h]] = h
            /\ pc[cleaner[h]] \in {"list", "stat", "remove"}
==============================================================================
