--------------------------- MODULE ReportStoreProofs --------------------------
(* What holds of ReportStore for any number of reports, readers and         *)
(* processes, and any retention.                                            *)
EXTENDS ReportStore, TLAPS

USE DEF createVars, readVars, processVars

Contents == {"absent", "partial", "whole"}
Files == [Places -> [content : Contents, modified : Nat]]

TypeOK ==
    /\ now \in Nat
    /\ file \in Files
    /\ running \subseteq Processes
    /\ lastCleanup \in [Processes -> Nat]
    /\ cleaner \in [Processes -> Reports \cup {Nobody}]
    /\ pc \in [Reports -> Creating \cup {"idle", "created", "failed", "gone"}]
    /\ host \in [Reports -> Processes]
    /\ stale \in [Reports -> SUBSET (Places \X Nat)]
    /\ written \in [Reports -> Nat]
    /\ todo \in [Reports -> SUBSET Places]
    /\ victim \in [Reports -> Places \cup {NoPlace}]
    /\ rpc \in [Readers -> {"idle", "read", "remove", "done"}]
    /\ asked \in [Readers -> Reports]
    /\ served \in [Readers -> Contents \cup {"none", "not_found", "error"}]
    /\ probing \in [Probes -> {"open", "write", "remove", "abort", "ok", "failed", "gone"}]

\* The mutex is held inside the cleanup, by a call of a process that runs.
LockInv ==
    /\ CleanupLockIsReleased
    /\ \A c \in Reports : pc[c] \in Creating => host[c] \in running

Final(c) == file[<<"final", c>>]
Temp(c) == file[<<"tmp", c>>]

\* Nobody relies on the report any more: its retention is over, or its create
\* call was dropped.
Over(c) == pc[c] = "gone" \/ (pc[c] = "created" /\ now - written[c] >= Retention)

\* NeverHalfAReport, CreatedStays and FailedIsUnpublished, strengthened: what
\* the two names of a report hold at each point of its create call,
ReportInv(c) ==
    /\ Final(c).content # "partial"
    /\ pc[c] \notin {"created", "gone"} => Final(c).content = "absent"
    /\ (pc[c] = "rename" /\ Temp(c).content # "absent") =>
          Temp(c).content = "whole" /\ Temp(c).modified = written[c]
    /\ pc[c] = "created" =>
          \/ Final(c).content = "whole" /\ Final(c).modified = written[c]
          \/ Final(c).content = "absent" /\ Over(c)

\* and who is about to remove a report is right to.
RemovalInv ==
    /\ \A d \in Reports : pc[d] = "remove" =>
          \A c \in Reports : victim[d] = <<"final", c>> => Over(c)
    /\ \A x \in Readers : rpc[x] = "remove" => Over(asked[x])
    /\ \A x \in Readers : served[x] # "partial"

StoreInv == RemovalInv /\ \A c \in Reports : ReportInv(c)

\* A step takes away what it may of a report, if anything.
FileKept(c) ==
    /\ Final(c)' = Final(c) \/ (Final(c)' = Absent /\ Over(c))
    /\ Temp(c)' \in {Temp(c), Absent}

\* CleanupIsComplete, strengthened: of the entries that were expired at the
\* listing, one that was not removed or replaced is still to be looked at.
Settled(s) == ~Present(s[1]) \/ file[s[1]].modified # s[2]

StaleInv(d) ==
    pc[d] \in {"stat", "remove"} =>
        \A s \in stale[d] :
            /\ now - s[2] >= Retention
            /\ \A c \in Reports : s[1] = <<"final", c>> => pc[c] \in {"created", "gone"}
            /\ \/ Settled(s) \/ s[1] \in todo[d]
               \/ pc[d] = "remove" /\ victim[d] = s[1]

\* A step leaves a name alone, clears it, writes it now or publishes a report.
NameStep(p) ==
    \/ file'[p] = file[p] \/ file'[p] = Absent \/ file'[p].modified = now
    \/ \E c \in Reports : p = <<"final", c>> /\ pc[c] = "rename"
------------------------------------------------------------------------------
\* The two names of a report.
LEMMA Names ==
    ASSUME NEW c \in Reports
    PROVE  /\ <<"tmp", c>> \in Places /\ <<"final", c>> \in Places
           /\ <<"tmp", c>> # <<"final", c>>
BY DEF Places

\* What a file operation leaves is a directory.
LEMMA Operations ==
    ASSUME TypeOK
    PROVE  /\ \A p : Remove(p) => file' \in Files
           /\ \A p : Keep(p, "partial") \/ Keep(p, "whole") => file' \in Files
           /\ \A c \in Reports : MoveToFinal(c) => file' \in Files
<1>1. file \in Files /\ now \in Nat
  BY DEF TypeOK
<1>2. ASSUME NEW p, Remove(p) PROVE file' \in Files
  BY <1>1, <1>2 DEF Remove, Absent, Files, Contents
<1>3. ASSUME NEW p, Keep(p, "partial") \/ Keep(p, "whole") PROVE file' \in Files
  BY <1>1, <1>3 DEF Keep, Files, Contents
<1>4. ASSUME NEW c \in Reports, MoveToFinal(c) PROVE file' \in Files
  BY <1>1, <1>4, Names DEF MoveToFinal, Absent, Files, Contents
<1> QED
  BY <1>2, <1>3, <1>4

\* What a write probe does: something to its own file, nothing else.
LEMMA ProbeEffect ==
    ASSUME NEW b \in Probes, ProbeStep(b)
    PROVE  /\ UNCHANGED <<now, processVars, createVars, rpc, asked, served>>
           /\ \/ file' = file \/ Remove(Probe(b))
              \/ Keep(Probe(b), "partial") \/ Keep(Probe(b), "whole")
BY DEF ProbeStep, ProbeOpen, ProbeWrite, ProbeRemove, ProbeFails, ProbeAbort, ProbeDropped

\* Every step keeps the types.
LEMMA TypeStep == TypeOK /\ [Next]_vars => TypeOK'
<1> SUFFICES ASSUME TypeOK, [Next]_vars PROVE TypeOK'
  OBVIOUS
<1> USE ReportStoreAssumptions DEF TypeOK, Creating
<1>1. ASSUME NEW c \in Reports, Begin(c) PROVE TypeOK'
  BY <1>1 DEF Begin, Goto
<1>2. ASSUME NEW c \in Reports, NotDue(c) PROVE TypeOK'
  BY <1>2 DEF NotDue, Goto
<1>3. ASSUME NEW c \in Reports, Due(c) PROVE TypeOK'
  BY <1>3 DEF Due, Goto
<1>4. ASSUME NEW c \in Reports, List(c) PROVE TypeOK'
  <2>1. Stale \subseteq Places \X Nat
    BY DEF Stale, Files
  <2>2. {q \in Places : Present(q)} \subseteq Places
    OBVIOUS
  <2> QED
    BY <1>4, <2>1, <2>2 DEF List, Goto
<1>5. ASSUME NEW c \in Reports, NEW p \in Places, Stat(c, p) PROVE TypeOK'
  <2>1. CASE Present(p) /\ IsExpired(file[p])
    BY <1>5, <2>1 DEF Stat, Goto
  <2>2. CASE ~(Present(p) /\ IsExpired(file[p]))
    BY <1>5, <2>2 DEF Stat, Goto
  <2> QED
    BY <2>1, <2>2
<1>6. ASSUME NEW c \in Reports, RemoveExpired(c) PROVE TypeOK'
  <2>1. file' \in Files
    BY <1>6, Operations DEF RemoveExpired
  <2> QED
    BY <1>6, <2>1 DEF RemoveExpired, Goto
<1>7. ASSUME NEW c \in Reports, CleanupDone(c) PROVE TypeOK'
  BY <1>7 DEF CleanupDone, Unlock, Goto
<1>8. ASSUME NEW c \in Reports, CleanupFails(c) PROVE TypeOK'
  BY <1>8 DEF CleanupFails, Unlock, Goto
<1>9. ASSUME NEW c \in Reports, Open(c) PROVE TypeOK'
  <2>1. file' \in Files
    BY <1>9, Operations DEF Open
  <2> QED
    BY <1>9, <2>1 DEF Open, Goto
<1>10. ASSUME NEW c \in Reports, Write(c) PROVE TypeOK'
  <2>1. file' \in Files
    BY <1>10, Operations DEF Write
  <2> QED
    BY <1>10, <2>1 DEF Write, Goto
<1>11. ASSUME NEW c \in Reports, Rename(c) PROVE TypeOK'
  <2>1. file' \in Files
    BY <1>11, Operations DEF Rename
  <2> QED
    BY <1>11, <2>1 DEF Rename, Goto
<1>12. ASSUME NEW c \in Reports, WriteFails(c) PROVE TypeOK'
  BY <1>12 DEF WriteFails, Goto
<1>13. ASSUME NEW c \in Reports, Abort(c) PROVE TypeOK'
  <2>1. file' \in Files
    BY <1>13, Operations DEF Abort
  <2> QED
    BY <1>13, <2>1 DEF Abort, Goto
<1>14. ASSUME NEW c \in Reports, Cancel(c) PROVE TypeOK'
  <2>1. file' \in Files
    BY <1>14, Operations DEF Cancel, InFlight
  <2> QED
    BY <1>14, <2>1 DEF Cancel, Goto
<1>15. ASSUME NEW x \in Readers, Look(x) PROVE TypeOK'
  BY <1>15 DEF Look
<1>16. ASSUME NEW x \in Readers, ReadContents(x) PROVE TypeOK'
  <2>1. file[<<"final", asked[x]>>].content \in Contents
    BY Names DEF Files
  <2> QED
    BY <1>16, <2>1 DEF ReadContents, Contents
<1>17. ASSUME NEW x \in Readers, ReadFails(x) PROVE TypeOK'
  BY <1>17 DEF ReadFails
<1>18. ASSUME NEW x \in Readers, RemoveOnRead(x) PROVE TypeOK'
  <2>1. file' \in Files
    BY <1>18, Operations DEF RemoveOnRead
  <2> QED
    BY <1>18, <2>1 DEF RemoveOnRead
<1>19. ASSUME NEW h \in Processes, Crash(h) PROVE TypeOK'
  BY <1>19 DEF Crash
<1>20. ASSUME NEW h \in Processes, Initialize(h) PROVE TypeOK'
  <2>1. file' \in Files
    BY <1>20 DEF Initialize, Absent, Files, Contents
  <2> QED
    BY <1>20, <2>1 DEF Initialize
<1>21. CASE Tick
  BY <1>21 DEF Tick
<1>22. CASE UNCHANGED vars
  BY <1>22 DEF vars
<1>23. ASSUME NEW b \in Probes, ProbeStep(b) PROVE TypeOK'
  <2>1. file' \in Files
    BY <1>23, ProbeEffect, Operations
  <2>2. probing' \in [Probes -> {"open", "write", "remove", "abort", "ok", "failed", "gone"}]
    BY <1>23 DEF ProbeStep, ProbeOpen, ProbeWrite, ProbeRemove, ProbeFails, ProbeAbort,
                 ProbeDropped, ProbeGoto
  <2> QED
    BY <1>23, <2>1, <2>2, ProbeEffect
<1> HIDE DEF TypeOK, Creating
<1> QED
  BY <1>1, <1>2, <1>3, <1>4, <1>5, <1>6, <1>7, <1>8, <1>9, <1>10, <1>11,
     <1>12, <1>13, <1>14, <1>15, <1>16, <1>17, <1>18, <1>19, <1>20, <1>21, <1>22,
     <1>23
     DEF Next, CreateStep

\* Every step keeps the mutex with a call that will give it back.
LEMMA LockStep == TypeOK /\ LockInv /\ [Next]_vars => LockInv'
<1> SUFFICES ASSUME TypeOK, LockInv, [Next]_vars PROVE LockInv'
  OBVIOUS
<1>0. /\ running \subseteq Processes
      /\ cleaner \in [Processes -> Reports \cup {Nobody}]
      /\ pc \in [Reports -> Creating \cup {"idle", "created", "failed", "gone"}]
      /\ host \in [Reports -> Processes]
  BY DEF TypeOK
<1> USE <1>0, ReportStoreAssumptions DEF LockInv, CleanupLockIsReleased, Creating
<1>1. ASSUME NEW c \in Reports, Begin(c) PROVE LockInv'
  BY <1>1 DEF Begin, Goto
<1>2. ASSUME NEW c \in Reports, NotDue(c) PROVE LockInv'
  BY <1>2 DEF NotDue, Goto
<1>3. ASSUME NEW c \in Reports, Due(c) PROVE LockInv'
  BY <1>3 DEF Due, Goto
<1>4. ASSUME NEW c \in Reports, List(c) PROVE LockInv'
  BY <1>4 DEF List, Goto
<1>5. ASSUME NEW c \in Reports, NEW p \in Places, Stat(c, p) PROVE LockInv'
  BY <1>5 DEF Stat, Goto
<1>6. ASSUME NEW c \in Reports, RemoveExpired(c) PROVE LockInv'
  BY <1>6 DEF RemoveExpired, Remove, Goto
<1>7. ASSUME NEW c \in Reports, CleanupDone(c) PROVE LockInv'
  BY <1>7 DEF CleanupDone, Unlock, Goto
<1>8. ASSUME NEW c \in Reports, CleanupFails(c) PROVE LockInv'
  BY <1>8 DEF CleanupFails, Unlock, Goto
<1>9. ASSUME NEW c \in Reports, Open(c) PROVE LockInv'
  BY <1>9 DEF Open, Keep, Goto
<1>10. ASSUME NEW c \in Reports, Write(c) PROVE LockInv'
  BY <1>10 DEF Write, Keep, Goto
<1>11. ASSUME NEW c \in Reports, Rename(c) PROVE LockInv'
  BY <1>11 DEF Rename, MoveToFinal, Goto
<1>12. ASSUME NEW c \in Reports, WriteFails(c) PROVE LockInv'
  BY <1>12 DEF WriteFails, Goto
<1>13. ASSUME NEW c \in Reports, Abort(c) PROVE LockInv'
  BY <1>13 DEF Abort, Remove, Goto
<1>14. ASSUME NEW c \in Reports, Cancel(c) PROVE LockInv'
  BY <1>14 DEF Cancel, InFlight, Remove, Keep, MoveToFinal, Goto
<1>15. ASSUME NEW x \in Readers, Look(x) PROVE LockInv'
  BY <1>15 DEF Look
<1>16. ASSUME NEW x \in Readers, ReadContents(x) PROVE LockInv'
  BY <1>16 DEF ReadContents
<1>17. ASSUME NEW x \in Readers, ReadFails(x) PROVE LockInv'
  BY <1>17 DEF ReadFails
<1>18. ASSUME NEW x \in Readers, RemoveOnRead(x) PROVE LockInv'
  BY <1>18 DEF RemoveOnRead, Remove
<1>19. ASSUME NEW h \in Processes, Crash(h) PROVE LockInv'
  BY <1>19 DEF Crash
<1>20. ASSUME NEW h \in Processes, Initialize(h) PROVE LockInv'
  BY <1>20 DEF Initialize
<1>21. CASE Tick
  BY <1>21 DEF Tick
<1>22. CASE UNCHANGED vars
  BY <1>22 DEF vars
<1>23. ASSUME NEW b \in Probes, ProbeStep(b) PROVE LockInv'
  BY <1>23, ProbeEffect
<1> HIDE DEF LockInv, CleanupLockIsReleased, Creating
<1> QED
  BY <1>1, <1>2, <1>3, <1>4, <1>5, <1>6, <1>7, <1>8, <1>9, <1>10, <1>11,
     <1>12, <1>13, <1>14, <1>15, <1>16, <1>17, <1>18, <1>19, <1>20, <1>21, <1>22,
     <1>23
     DEF Next, CreateStep

\* The names of two reports differ.
LEMMA DistinctNames ==
    ASSUME NEW c \in Reports, NEW d \in Reports
    PROVE  /\ <<"tmp", c>> # <<"final", d>>
           /\ <<"tmp", c>> = <<"tmp", d>> => c = d
           /\ <<"final", c>> = <<"final", d>> => c = d
           /\ \A b : Probe(b) # <<"tmp", c>> /\ Probe(b) # <<"final", c>>
BY DEF Probe

\* The clock does not run backwards, and calls that ended do not come back.
LEMMA ClockAndEnds ==
    ASSUME TypeOK, [Next]_vars
    PROVE  /\ now' \in Nat /\ now <= now'
           /\ \A c \in Reports : pc[c] \in {"created", "gone"} => pc'[c] = pc[c]
<1> DEFINE Goal == /\ now' \in Nat /\ now <= now'
                   /\ \A q \in Reports : pc[q] \in {"created", "gone"} => pc'[q] = pc[q]
<1> SUFFICES Goal
  OBVIOUS
<1>0. now \in Nat /\ DOMAIN pc = Reports
  BY DEF TypeOK
<1> USE <1>0
<1>1. ASSUME NEW c \in Reports, Begin(c) PROVE Goal
  BY <1>1 DEF Begin, Goto
<1>2. ASSUME NEW c \in Reports, NotDue(c) PROVE Goal
  BY <1>2 DEF NotDue, Goto
<1>3. ASSUME NEW c \in Reports, Due(c) PROVE Goal
  BY <1>3 DEF Due, Goto
<1>4. ASSUME NEW c \in Reports, List(c) PROVE Goal
  BY <1>4 DEF List, Goto
<1>5. ASSUME NEW c \in Reports, NEW p \in Places, Stat(c, p) PROVE Goal
  BY <1>5 DEF Stat, Goto
<1>6. ASSUME NEW c \in Reports, RemoveExpired(c) PROVE Goal
  BY <1>6 DEF RemoveExpired, Remove, Goto
<1>7. ASSUME NEW c \in Reports, CleanupDone(c) PROVE Goal
  BY <1>7 DEF CleanupDone, Unlock, Goto
<1>8. ASSUME NEW c \in Reports, CleanupFails(c) PROVE Goal
  BY <1>8 DEF CleanupFails, Unlock, Goto
<1>9. ASSUME NEW c \in Reports, Open(c) PROVE Goal
  BY <1>9 DEF Open, Keep, Goto
<1>10. ASSUME NEW c \in Reports, Write(c) PROVE Goal
  BY <1>10 DEF Write, Keep, Goto
<1>11. ASSUME NEW c \in Reports, Rename(c) PROVE Goal
  BY <1>11 DEF Rename, MoveToFinal, Goto
<1>12. ASSUME NEW c \in Reports, WriteFails(c) PROVE Goal
  BY <1>12 DEF WriteFails, Goto
<1>13. ASSUME NEW c \in Reports, Abort(c) PROVE Goal
  BY <1>13 DEF Abort, Remove, Goto
<1>14. ASSUME NEW c \in Reports, Cancel(c) PROVE Goal
  BY <1>14 DEF Cancel, Creating, Goto
<1>15. ASSUME NEW x \in Readers, Look(x) PROVE Goal
  BY <1>15 DEF Look
<1>16. ASSUME NEW x \in Readers, ReadContents(x) PROVE Goal
  BY <1>16 DEF ReadContents
<1>17. ASSUME NEW x \in Readers, ReadFails(x) PROVE Goal
  BY <1>17 DEF ReadFails
<1>18. ASSUME NEW x \in Readers, RemoveOnRead(x) PROVE Goal
  BY <1>18 DEF RemoveOnRead, Remove
<1>19. ASSUME NEW h \in Processes, Crash(h) PROVE Goal
  BY <1>19 DEF Crash, Creating
<1>20. ASSUME NEW h \in Processes, Initialize(h) PROVE Goal
  BY <1>20 DEF Initialize
<1>21. CASE Tick
  BY <1>21 DEF Tick
<1>22. CASE UNCHANGED vars
  BY <1>22 DEF vars
<1>23. ASSUME NEW b \in Probes, ProbeStep(b) PROVE Goal
  BY <1>23, ProbeEffect
<1> HIDE DEF Goal
<1> QED
  BY <1>1, <1>2, <1>3, <1>4, <1>5, <1>6, <1>7, <1>8, <1>9, <1>10, <1>11,
     <1>12, <1>13, <1>14, <1>15, <1>16, <1>17, <1>18, <1>19, <1>20, <1>21, <1>22,
     <1>23
     DEF Next, CreateStep

\* What is over stays over: calls that ended do not come back and the clock
\* does not run backwards.
LEMMA OverStays ==
    ASSUME TypeOK, [Next]_vars, NEW q \in Reports, Over(q)
    PROVE  Over(q)'
<1>0. /\ now \in Nat /\ written \in [Reports -> Nat]
      /\ DOMAIN pc = Reports
  BY DEF TypeOK
<1> USE <1>0, ReportStoreAssumptions DEF Over
<1>1. ASSUME NEW c \in Reports, Begin(c) PROVE Over(q)'
  BY <1>1 DEF Begin, Goto
<1>2. ASSUME NEW c \in Reports, NotDue(c) PROVE Over(q)'
  BY <1>2 DEF NotDue, Goto
<1>3. ASSUME NEW c \in Reports, Due(c) PROVE Over(q)'
  BY <1>3 DEF Due, Goto
<1>4. ASSUME NEW c \in Reports, List(c) PROVE Over(q)'
  BY <1>4 DEF List, Goto
<1>5. ASSUME NEW c \in Reports, NEW p \in Places, Stat(c, p) PROVE Over(q)'
  BY <1>5 DEF Stat, Goto
<1>6. ASSUME NEW c \in Reports, RemoveExpired(c) PROVE Over(q)'
  BY <1>6 DEF RemoveExpired, Remove, Goto
<1>7. ASSUME NEW c \in Reports, CleanupDone(c) PROVE Over(q)'
  BY <1>7 DEF CleanupDone, Unlock, Goto
<1>8. ASSUME NEW c \in Reports, CleanupFails(c) PROVE Over(q)'
  BY <1>8 DEF CleanupFails, Unlock, Goto
<1>9. ASSUME NEW c \in Reports, Open(c) PROVE Over(q)'
  BY <1>9 DEF Open, Keep, Goto
<1>10. ASSUME NEW c \in Reports, Write(c) PROVE Over(q)'
  BY <1>10 DEF Write, Keep, Goto
<1>11. ASSUME NEW c \in Reports, Rename(c) PROVE Over(q)'
  BY <1>11 DEF Rename, MoveToFinal, Goto
<1>12. ASSUME NEW c \in Reports, WriteFails(c) PROVE Over(q)'
  BY <1>12 DEF WriteFails, Goto
<1>13. ASSUME NEW c \in Reports, Abort(c) PROVE Over(q)'
  BY <1>13 DEF Abort, Remove, Goto
<1>14. ASSUME NEW c \in Reports, Cancel(c) PROVE Over(q)'
  BY <1>14 DEF Cancel, Creating, Goto
<1>15. ASSUME NEW x \in Readers, Look(x) PROVE Over(q)'
  BY <1>15 DEF Look
<1>16. ASSUME NEW x \in Readers, ReadContents(x) PROVE Over(q)'
  BY <1>16 DEF ReadContents
<1>17. ASSUME NEW x \in Readers, ReadFails(x) PROVE Over(q)'
  BY <1>17 DEF ReadFails
<1>18. ASSUME NEW x \in Readers, RemoveOnRead(x) PROVE Over(q)'
  BY <1>18 DEF RemoveOnRead, Remove
<1>19. ASSUME NEW h \in Processes, Crash(h) PROVE Over(q)'
  BY <1>19 DEF Crash, Creating
<1>20. ASSUME NEW h \in Processes, Initialize(h) PROVE Over(q)'
  BY <1>20 DEF Initialize
<1>21. CASE Tick
  BY <1>21 DEF Tick
<1>22. CASE UNCHANGED vars
  BY <1>22 DEF vars
<1>23. ASSUME NEW b \in Probes, ProbeStep(b) PROVE Over(q)'
  BY <1>23, ProbeEffect
<1> HIDE DEF Over
<1> QED
  BY <1>1, <1>2, <1>3, <1>4, <1>5, <1>6, <1>7, <1>8, <1>9, <1>10, <1>11,
     <1>12, <1>13, <1>14, <1>15, <1>16, <1>17, <1>18, <1>19, <1>20, <1>21, <1>22,
     <1>23
     DEF Next, CreateStep

\* Every step treats every name in one of four ways.
LEMMA NamesStep ==
    ASSUME TypeOK, [Next]_vars, NEW q \in Places
    PROVE  NameStep(q)
<1>0. file \in Files /\ now \in Nat
  BY DEF TypeOK
<1>a. ASSUME NEW p, Remove(p) PROVE NameStep(q)
  BY <1>0, <1>a DEF Remove, NameStep, Files
<1>b. ASSUME NEW p, NEW content, Keep(p, content) PROVE NameStep(q)
  BY <1>0, <1>b DEF Keep, NameStep, Files
<1>c. ASSUME NEW c \in Reports, pc[c] = "rename", MoveToFinal(c) PROVE NameStep(q)
  BY <1>0, <1>c, Names DEF MoveToFinal, NameStep, Files
<1>d. ASSUME file' = file PROVE NameStep(q)
  BY <1>d DEF NameStep
<1>1. ASSUME NEW c \in Reports, Begin(c) PROVE NameStep(q)
  BY <1>1, <1>a, <1>b, <1>c, <1>d DEF Begin
<1>2. ASSUME NEW c \in Reports, NotDue(c) PROVE NameStep(q)
  BY <1>2, <1>a, <1>b, <1>c, <1>d DEF NotDue
<1>3. ASSUME NEW c \in Reports, Due(c) PROVE NameStep(q)
  BY <1>3, <1>a, <1>b, <1>c, <1>d DEF Due
<1>4. ASSUME NEW c \in Reports, List(c) PROVE NameStep(q)
  BY <1>4, <1>a, <1>b, <1>c, <1>d DEF List
<1>5. ASSUME NEW c \in Reports, NEW p \in Places, Stat(c, p) PROVE NameStep(q)
  BY <1>5, <1>a, <1>b, <1>c, <1>d DEF Stat
<1>6. ASSUME NEW c \in Reports, RemoveExpired(c) PROVE NameStep(q)
  BY <1>6, <1>a, <1>b, <1>c, <1>d DEF RemoveExpired
<1>7. ASSUME NEW c \in Reports, CleanupDone(c) PROVE NameStep(q)
  BY <1>7, <1>a, <1>b, <1>c, <1>d DEF CleanupDone
<1>8. ASSUME NEW c \in Reports, CleanupFails(c) PROVE NameStep(q)
  BY <1>8, <1>a, <1>b, <1>c, <1>d DEF CleanupFails
<1>9. ASSUME NEW c \in Reports, Open(c) PROVE NameStep(q)
  BY <1>9, <1>a, <1>b, <1>c, <1>d DEF Open
<1>10. ASSUME NEW c \in Reports, Write(c) PROVE NameStep(q)
  BY <1>10, <1>a, <1>b, <1>c, <1>d DEF Write
<1>11. ASSUME NEW c \in Reports, Rename(c) PROVE NameStep(q)
  BY <1>11, <1>a, <1>b, <1>c, <1>d DEF Rename
<1>12. ASSUME NEW c \in Reports, WriteFails(c) PROVE NameStep(q)
  BY <1>12, <1>a, <1>b, <1>c, <1>d DEF WriteFails
<1>13. ASSUME NEW c \in Reports, Abort(c) PROVE NameStep(q)
  BY <1>13, <1>a, <1>b, <1>c, <1>d DEF Abort
<1>14. ASSUME NEW c \in Reports, Cancel(c) PROVE NameStep(q)
  BY <1>14, <1>a, <1>b, <1>c, <1>d DEF Cancel, InFlight
<1>15. ASSUME NEW x \in Readers, Look(x) PROVE NameStep(q)
  BY <1>15, <1>a, <1>b, <1>c, <1>d DEF Look
<1>16. ASSUME NEW x \in Readers, ReadContents(x) PROVE NameStep(q)
  BY <1>16, <1>a, <1>b, <1>c, <1>d DEF ReadContents
<1>17. ASSUME NEW x \in Readers, ReadFails(x) PROVE NameStep(q)
  BY <1>17, <1>a, <1>b, <1>c, <1>d DEF ReadFails
<1>18. ASSUME NEW x \in Readers, RemoveOnRead(x) PROVE NameStep(q)
  BY <1>18, <1>a, <1>b, <1>c, <1>d DEF RemoveOnRead
<1>19. ASSUME NEW h \in Processes, Crash(h) PROVE NameStep(q)
  BY <1>19, <1>a, <1>b, <1>c, <1>d DEF Crash
<1>20. ASSUME NEW h \in Processes, Initialize(h) PROVE NameStep(q)
  BY <1>20, <1>0 DEF Initialize, NameStep
<1>21. CASE Tick
  BY <1>21, <1>a, <1>b, <1>c, <1>d DEF Tick
<1>22. CASE UNCHANGED vars
  BY <1>22, <1>a, <1>b, <1>c, <1>d DEF vars
<1>23. ASSUME NEW b \in Probes, ProbeStep(b) PROVE NameStep(q)
  BY <1>23, <1>a, <1>b, <1>d, ProbeEffect
<1> QED
  BY <1>1, <1>2, <1>3, <1>4, <1>5, <1>6, <1>7, <1>8, <1>9, <1>10, <1>11,
     <1>12, <1>13, <1>14, <1>15, <1>16, <1>17, <1>18, <1>19, <1>20, <1>21, <1>22,
     <1>23
     DEF Next, CreateStep

\* A report somebody finds expired is one nobody relies on.
LEMMA ExpiredIsOver ==
    ASSUME TypeOK, NEW c \in Reports, ReportInv(c),
           Present(<<"final", c>>), IsExpired(file[<<"final", c>>])
    PROVE  Over(c)
BY DEF ReportInv, Present, IsExpired, Over, Final

\* What the other calls do to the names of a report keeps them as they
\* should be.
LEMMA ReportKept ==
    ASSUME TypeOK, NEW c \in Reports, ReportInv(c), FileKept(c), now' \in Nat, now <= now',
           \/ pc'[c] = pc[c]
           \/ pc'[c] \notin {"created", "rename"} /\ (pc[c] = "gone" => pc'[c] = "gone")
              /\ (pc[c] = "created" => pc'[c] = "gone"),
           written'[c] = written[c]
    PROVE  ReportInv(c)'
<1>1. Absent.content = "absent" /\ written[c] \in Nat /\ now \in Nat
      /\ Retention \in Nat
  BY ReportStoreAssumptions DEF Absent, TypeOK
<1> QED
  BY <1>1 DEF ReportInv, FileKept, Over

\* Every step keeps every report as it should be.
LEMMA ReportStep == TypeOK /\ StoreInv /\ [Next]_vars => \A q \in Reports : ReportInv(q)'
<1> SUFFICES ASSUME TypeOK, StoreInv, [Next]_vars, NEW q \in Reports PROVE ReportInv(q)'
  OBVIOUS
<1>0. /\ now \in Nat /\ file \in Files /\ written \in [Reports -> Nat]
      /\ pc \in [Reports -> Creating \cup {"idle", "created", "failed", "gone"}]
      /\ ReportInv(q) /\ asked \in [Readers -> Reports]
  BY DEF TypeOK, StoreInv
<1>k. ASSUME FileKept(q), now' = now, written'[q] = written[q],
             \/ pc'[q] = pc[q]
             \/ pc'[q] \notin {"created", "rename"} /\ pc[q] \notin {"created", "gone"}
      PROVE  ReportInv(q)'
  BY <1>k, <1>0, ReportKept
<1>u. ASSUME file' = file PROVE FileKept(q)
  BY <1>u DEF FileKept, Final, Temp
<1>r. ASSUME NEW p, Remove(p), p = <<"final", q>> => Over(q) PROVE FileKept(q)
  BY <1>r, <1>0, Names, DistinctNames DEF Remove, FileKept, Final, Temp, Files
<1>w. ASSUME NEW c \in Reports \ {q}, NEW content,
             Keep(<<"tmp", c>>, content) PROVE FileKept(q)
  BY <1>w, <1>0, Names, DistinctNames DEF Keep, FileKept, Final, Temp, Files
<1>m. ASSUME NEW c \in Reports \ {q}, MoveToFinal(c) PROVE FileKept(q)
  BY <1>m, <1>0, Names, DistinctNames DEF MoveToFinal, FileKept, Final, Temp, Files
<1>1. ASSUME NEW c \in Reports, Begin(c) PROVE ReportInv(q)'
  BY <1>1, <1>0, <1>k, <1>u DEF Begin, Goto
<1>2. ASSUME NEW c \in Reports, NotDue(c) PROVE ReportInv(q)'
  BY <1>2, <1>0, <1>k, <1>u DEF NotDue, Goto
<1>3. ASSUME NEW c \in Reports, Due(c) PROVE ReportInv(q)'
  BY <1>3, <1>0, <1>k, <1>u DEF Due, Goto
<1>4. ASSUME NEW c \in Reports, List(c) PROVE ReportInv(q)'
  BY <1>4, <1>0, <1>k, <1>u DEF List, Goto
<1>5. ASSUME NEW c \in Reports, NEW p \in Places, Stat(c, p) PROVE ReportInv(q)'
  BY <1>5, <1>0, <1>k, <1>u DEF Stat, Goto
<1>6. ASSUME NEW c \in Reports, RemoveExpired(c) PROVE ReportInv(q)'
  <2>1. victim[c] = <<"final", q>> => Over(q)
    BY <1>6 DEF RemoveExpired, StoreInv, RemovalInv
  <2>2. FileKept(q)
    BY <1>6, <2>1, <1>r DEF RemoveExpired
  <2> QED
    BY <1>6, <1>0, <2>2, <1>k DEF RemoveExpired, Goto
<1>7. ASSUME NEW c \in Reports, CleanupDone(c) PROVE ReportInv(q)'
  BY <1>7, <1>0, <1>k, <1>u DEF CleanupDone, Goto
<1>8. ASSUME NEW c \in Reports, CleanupFails(c) PROVE ReportInv(q)'
  BY <1>8, <1>0, <1>k, <1>u DEF CleanupFails, Goto
<1>9. ASSUME NEW c \in Reports, Open(c) PROVE ReportInv(q)'
  <2>1. CASE c = q
    BY <1>9, <1>0, <2>1, Names DEF Open, Goto, Keep, ReportInv, Final, Temp, Files
  <2>2. CASE c # q
    BY <1>9, <1>0, <2>2, <1>w, <1>k DEF Open, Goto
  <2> QED
    BY <2>1, <2>2
<1>10. ASSUME NEW c \in Reports, Write(c) PROVE ReportInv(q)'
  <2>1. CASE c = q
    BY <1>10, <1>0, <2>1, Names DEF Write, Goto, Keep, Present, ReportInv, Final, Temp, Files
  <2>2. CASE c # q
    <3>1. FileKept(q)
      BY <1>10, <2>2, <1>w, <1>u DEF Write
    <3> QED
      BY <1>10, <1>0, <2>2, <3>1, <1>k DEF Write, Goto
  <2> QED
    BY <2>1, <2>2
<1>11. ASSUME NEW c \in Reports, Rename(c) PROVE ReportInv(q)'
  <2>1. CASE c = q /\ Present(<<"tmp", c>>)
    <3>1. Final(q)' = Temp(q) /\ pc'[q] = "created" /\ written'[q] = written[q]
      BY <1>11, <1>0, <2>1, Names DEF Rename, MoveToFinal, Goto, Final, Temp, Files
    <3>2. Temp(q).content = "whole" /\ Temp(q).modified = written[q]
      BY <1>11, <1>0, <2>1 DEF Rename, Present, ReportInv, Temp
    <3> QED
      BY <3>1, <3>2 DEF ReportInv
  <2>2. CASE c = q /\ ~Present(<<"tmp", c>>)
    BY <1>11, <1>0, <2>2, <1>u, <1>k DEF Rename, Goto
  <2>3. CASE c # q
    <3>1. FileKept(q)
      BY <1>11, <2>3, <1>m, <1>u DEF Rename
    <3> QED
      BY <1>11, <1>0, <2>3, <3>1, <1>k DEF Rename, Goto
  <2> QED
    BY <2>1, <2>2, <2>3
<1>12. ASSUME NEW c \in Reports, WriteFails(c) PROVE ReportInv(q)'
  BY <1>12, <1>0, <1>k, <1>u DEF WriteFails, Goto
<1>13. ASSUME NEW c \in Reports, Abort(c) PROVE ReportInv(q)'
  <2>1. FileKept(q)
    BY <1>13, <1>r, <1>u, DistinctNames DEF Abort
  <2> QED
    BY <1>13, <1>0, <2>1, <1>k DEF Abort, Goto
<1>14. ASSUME NEW c \in Reports, Cancel(c) PROVE ReportInv(q)'
  <2>0. pc' = [pc EXCEPT ![c] = "gone"] /\ written' = written /\ now' = now
        /\ InFlight(c) /\ pc[c] \in Creating
    BY <1>14 DEF Cancel, Goto
  <2>1. CASE c = q
    <3>1. Final(q)'.content # "partial"
      <4>1. CASE FileKept(q)
        BY <1>0, <4>1 DEF FileKept, ReportInv, Absent
      <4>2. CASE \E content : Keep(<<"tmp", c>>, content)
        BY <1>0, <2>1, <4>2, Names DEF Keep, Final, Files, ReportInv
      <4>3. CASE pc[c] = "rename" /\ Present(<<"tmp", c>>) /\ MoveToFinal(c)
        BY <1>0, <2>1, <4>3, Names DEF MoveToFinal, Final, Temp, Files, Present, ReportInv
      <4>4. ASSUME NEW p, Remove(p), (pc[c] = "remove" /\ p = victim[c]) \/ p = <<"tmp", c>>
            PROVE  FileKept(q)
        BY <4>4, <1>r, DistinctNames DEF StoreInv, RemovalInv
      <4> QED
        BY <2>0, <1>u, <4>1, <4>2, <4>3, <4>4 DEF InFlight
    <3> QED
      BY <2>0, <2>1, <3>1, <1>0 DEF ReportInv
  <2>2. CASE c # q
    <3>1. ASSUME NEW p, Remove(p), (pc[c] = "remove" /\ p = victim[c]) \/ p = <<"tmp", c>>
          PROVE  FileKept(q)
      BY <3>1, <1>r, DistinctNames DEF StoreInv, RemovalInv
    <3>2. FileKept(q)
      BY <2>0, <2>2, <3>1, <1>u, <1>w, <1>m DEF InFlight
    <3> QED
      BY <2>0, <2>2, <3>2, <1>0, <1>k
  <2> QED
    BY <2>1, <2>2
<1>15. ASSUME NEW x \in Readers, Look(x) PROVE ReportInv(q)'
  BY <1>15, <1>0, <1>k, <1>u DEF Look
<1>16. ASSUME NEW x \in Readers, ReadContents(x) PROVE ReportInv(q)'
  BY <1>16, <1>0, <1>k, <1>u DEF ReadContents
<1>17. ASSUME NEW x \in Readers, ReadFails(x) PROVE ReportInv(q)'
  BY <1>17, <1>0, <1>k, <1>u DEF ReadFails
<1>18. ASSUME NEW x \in Readers, RemoveOnRead(x) PROVE ReportInv(q)'
  <2>1. <<"final", asked[x]>> = <<"final", q>> => Over(q)
    BY <1>18, <1>0, DistinctNames DEF RemoveOnRead, StoreInv, RemovalInv
  <2>2. FileKept(q)
    BY <1>18, <2>1, <1>r, <1>u DEF RemoveOnRead
  <2> QED
    BY <1>18, <1>0, <2>2, <1>k DEF RemoveOnRead
<1>19. ASSUME NEW h \in Processes, Crash(h) PROVE ReportInv(q)'
  BY <1>19, <1>0, <1>k, <1>u DEF Crash, Creating
<1>20. ASSUME NEW h \in Processes, Initialize(h) PROVE ReportInv(q)'
  <2>1. FileKept(q)
    <3>1. file'[<<"tmp", q>>] \in {file[<<"tmp", q>>], Absent}
      BY <1>20, Names DEF Initialize
    <3>2. \/ file'[<<"final", q>>] = file[<<"final", q>>]
          \/ /\ file'[<<"final", q>>] = Absent
             /\ Present(<<"final", q>>) /\ IsExpired(file[<<"final", q>>])
      BY <1>20, Names DEF Initialize
    <3> QED
      BY <1>0, <3>1, <3>2, ExpiredIsOver DEF FileKept, Final, Temp
  <2> QED
    BY <1>20, <1>0, <2>1, <1>k DEF Initialize
<1>21. CASE Tick
  <2>1. FileKept(q) /\ pc' = pc /\ written' = written /\ now' = now + 1
    BY <1>21, <1>u DEF Tick
  <2> QED
    BY <1>0, <2>1, ReportKept
<1>22. CASE UNCHANGED vars
  BY <1>22, <1>0, <1>k, <1>u DEF vars
<1>23. ASSUME NEW b \in Probes, ProbeStep(b) PROVE ReportInv(q)'
  <2>1. Probe(b) # <<"tmp", q>> /\ Probe(b) # <<"final", q>>
    BY DistinctNames
  <2>2. ASSUME NEW content, Keep(Probe(b), content) PROVE FileKept(q)
    BY <2>1, <2>2, <1>0, Names DEF Keep, FileKept, Final, Temp, Files
  <2>3. FileKept(q)
    BY <1>23, <2>1, <2>2, <1>u, <1>r, ProbeEffect
  <2> QED
    BY <1>23, <2>3, <1>0, <1>k, ProbeEffect
<1> QED
  BY <1>1, <1>2, <1>3, <1>4, <1>5, <1>6, <1>7, <1>8, <1>9, <1>10, <1>11,
     <1>12, <1>13, <1>14, <1>15, <1>16, <1>17, <1>18, <1>19, <1>20, <1>21, <1>22,
     <1>23
     DEF Next, CreateStep

\* Every step keeps the removals under way to what nobody relies on.
LEMMA RemovalStep == TypeOK /\ StoreInv /\ [Next]_vars => RemovalInv'
<1> SUFFICES ASSUME TypeOK, StoreInv, [Next]_vars PROVE RemovalInv'
  OBVIOUS
<1>0. /\ pc \in [Reports -> Creating \cup {"idle", "created", "failed", "gone"}]
      /\ victim \in [Reports -> Places \cup {NoPlace}]
      /\ rpc \in [Readers -> {"idle", "read", "remove", "done"}]
      /\ asked \in [Readers -> Reports] /\ DOMAIN served = Readers
      /\ \A c \in Reports : ReportInv(c)
  BY DEF TypeOK, StoreInv
<1>o. \A c \in Reports : Over(c) => Over(c)'
  BY OverStays
<1>a. RemovalInv
  BY DEF StoreInv
<1>k. ASSUME \A d \in Reports : pc'[d] = "remove" => pc[d] = "remove" /\ victim'[d] = victim[d],
             \A x \in Readers : rpc'[x] = "remove" => rpc[x] = "remove",
             asked' = asked,
             \A x \in Readers : served'[x] # "partial"
      PROVE  RemovalInv'
  BY <1>k, <1>0, <1>o, <1>a DEF RemovalInv
<1>s. \A x \in Readers : served[x] # "partial"
  BY <1>a DEF RemovalInv
<1> USE <1>0, <1>s
<1>1. ASSUME NEW c \in Reports, Begin(c) PROVE RemovalInv'
  BY <1>1, <1>k DEF Begin, Goto
<1>2. ASSUME NEW c \in Reports, NotDue(c) PROVE RemovalInv'
  BY <1>2, <1>k DEF NotDue, Goto
<1>3. ASSUME NEW c \in Reports, Due(c) PROVE RemovalInv'
  BY <1>3, <1>k DEF Due, Goto
<1>4. ASSUME NEW c \in Reports, List(c) PROVE RemovalInv'
  BY <1>4, <1>k DEF List, Goto
<1>5. ASSUME NEW c \in Reports, NEW p \in Places, Stat(c, p) PROVE RemovalInv'
  <2>1. CASE Present(p) /\ IsExpired(file[p])
    <3>1. /\ pc' = [pc EXCEPT ![c] = "remove"] /\ victim' = [victim EXCEPT ![c] = p]
          /\ UNCHANGED readVars
      BY <1>5, <2>1 DEF Stat, Goto
    <3>2. \A q \in Reports : p = <<"final", q>> => Over(q)
      BY <2>1, ExpiredIsOver
    <3> QED
      BY <3>1, <3>2, <1>o, <1>a DEF RemovalInv
  <2>2. CASE ~(Present(p) /\ IsExpired(file[p]))
    BY <1>5, <2>2, <1>k DEF Stat
  <2> QED
    BY <2>1, <2>2
<1>6. ASSUME NEW c \in Reports, RemoveExpired(c) PROVE RemovalInv'
  BY <1>6, <1>k DEF RemoveExpired, Remove, Goto
<1>7. ASSUME NEW c \in Reports, CleanupDone(c) PROVE RemovalInv'
  BY <1>7, <1>k DEF CleanupDone, Unlock, Goto
<1>8. ASSUME NEW c \in Reports, CleanupFails(c) PROVE RemovalInv'
  BY <1>8, <1>k DEF CleanupFails, Unlock, Goto
<1>9. ASSUME NEW c \in Reports, Open(c) PROVE RemovalInv'
  BY <1>9, <1>k DEF Open, Keep, Goto
<1>10. ASSUME NEW c \in Reports, Write(c) PROVE RemovalInv'
  BY <1>10, <1>k DEF Write, Keep, Goto
<1>11. ASSUME NEW c \in Reports, Rename(c) PROVE RemovalInv'
  BY <1>11, <1>k DEF Rename, MoveToFinal, Goto
<1>12. ASSUME NEW c \in Reports, WriteFails(c) PROVE RemovalInv'
  BY <1>12, <1>k DEF WriteFails, Goto
<1>13. ASSUME NEW c \in Reports, Abort(c) PROVE RemovalInv'
  BY <1>13, <1>k DEF Abort, Remove, Goto
<1>14. ASSUME NEW c \in Reports, Cancel(c) PROVE RemovalInv'
  BY <1>14, <1>k DEF Cancel, Goto
<1>15. ASSUME NEW x \in Readers, Look(x) PROVE RemovalInv'
  <2>1. CASE rpc'[x] = "remove"
    <3>1. Over(asked[x])
      BY <1>15, <2>1, ExpiredIsOver DEF Look
    <3>2. rpc' = [rpc EXCEPT ![x] = "remove"] /\ UNCHANGED <<served, asked, pc, victim>>
      BY <1>15, <2>1 DEF Look
    <3> QED
      BY <3>1, <3>2, <1>o, <1>a DEF RemovalInv
  <2>2. CASE rpc'[x] # "remove"
    BY <1>15, <2>2, <1>k DEF Look
  <2> QED
    BY <2>1, <2>2
<1>16. ASSUME NEW x \in Readers, ReadContents(x) PROVE RemovalInv'
  <2>1. file[<<"final", asked[x]>>].content # "partial"
    BY DEF ReportInv, Final
  <2> QED
    BY <1>16, <2>1, <1>k DEF ReadContents
<1>17. ASSUME NEW x \in Readers, ReadFails(x) PROVE RemovalInv'
  BY <1>17, <1>k DEF ReadFails
<1>18. ASSUME NEW x \in Readers, RemoveOnRead(x) PROVE RemovalInv'
  BY <1>18, <1>k DEF RemoveOnRead, Remove
<1>19. ASSUME NEW h \in Processes, Crash(h) PROVE RemovalInv'
  BY <1>19, <1>k DEF Crash
<1>20. ASSUME NEW h \in Processes, Initialize(h) PROVE RemovalInv'
  BY <1>20, <1>k DEF Initialize
<1>21. CASE Tick
  BY <1>21, <1>k DEF Tick
<1>22. CASE UNCHANGED vars
  BY <1>22, <1>k DEF vars
<1>23. ASSUME NEW b \in Probes, ProbeStep(b) PROVE RemovalInv'
  BY <1>23, <1>k, ProbeEffect
<1> QED
  BY <1>1, <1>2, <1>3, <1>4, <1>5, <1>6, <1>7, <1>8, <1>9, <1>10, <1>11,
     <1>12, <1>13, <1>14, <1>15, <1>16, <1>17, <1>18, <1>19, <1>20, <1>21, <1>22,
     <1>23
     DEF Next, CreateStep

\* What is settled stays settled: a name that was expired comes back only with
\* the time of its new contents.
LEMMA SettledStays ==
    ASSUME TypeOK, [Next]_vars, NEW s \in Places \X Nat, now - s[2] >= Retention,
           \A c \in Reports : s[1] = <<"final", c>> => pc[c] \in {"created", "gone"},
           Settled(s)
    PROVE  Settled(s)'
<1>1. NameStep(s[1])
  BY NamesStep
<1>2. file'[s[1]] = file[s[1]] \/ file'[s[1]] = Absent \/ file'[s[1]].modified = now
  BY <1>1 DEF NameStep
<1>3. now \in Nat /\ s[2] \in Nat /\ s[2] # now
  BY ReportStoreAssumptions DEF TypeOK
<1> QED
  BY <1>2, <1>3 DEF Settled, Present, Absent

\* A cleanup that goes on elsewhere, or not at all, misses nothing.
LEMMA StaleKept ==
    ASSUME TypeOK, [Next]_vars, NEW d \in Reports, StaleInv(d),
           pc'[d] \in {"stat", "remove"} =>
               /\ pc'[d] = pc[d] /\ stale'[d] = stale[d]
               /\ todo'[d] = todo[d] /\ victim'[d] = victim[d]
    PROVE  StaleInv(d)'
<1> SUFFICES ASSUME pc'[d] \in {"stat", "remove"}, NEW s \in stale[d]
             PROVE  /\ now' - s[2] >= Retention
                    /\ \A c \in Reports : s[1] = <<"final", c>> => pc'[c] \in {"created", "gone"}
                    /\ \/ Settled(s)' \/ s[1] \in todo[d]
                       \/ pc[d] = "remove" /\ victim[d] = s[1]
  BY DEF StaleInv
<1>1. s \in Places \X Nat
  BY DEF TypeOK
<1>2. /\ now - s[2] >= Retention
      /\ \A c \in Reports : s[1] = <<"final", c>> => pc[c] \in {"created", "gone"}
      /\ \/ Settled(s) \/ s[1] \in todo[d] \/ (pc[d] = "remove" /\ victim[d] = s[1])
  BY DEF StaleInv
<1>3. now' \in Nat /\ now <= now' /\ \A c \in Reports : pc[c] \in {"created", "gone"} => pc'[c] = pc[c]
  BY ClockAndEnds
<1>4. Settled(s) => Settled(s)'
  BY <1>1, <1>2, SettledStays
<1>5. now \in Nat /\ s[2] \in Nat /\ Retention \in Nat
  BY <1>1, ReportStoreAssumptions DEF TypeOK
<1> QED
  BY <1>2, <1>3, <1>4, <1>5

\* Every step keeps each cleanup from missing an expired entry.
LEMMA StaleStep ==
    TypeOK /\ StoreInv /\ (\A q \in Reports : StaleInv(q)) /\ [Next]_vars
        => \A q \in Reports : StaleInv(q)'
<1> SUFFICES ASSUME TypeOK, StoreInv, \A q \in Reports : StaleInv(q), [Next]_vars,
                    NEW q \in Reports
             PROVE  StaleInv(q)'
  OBVIOUS
<1>0. /\ pc \in [Reports -> Creating \cup {"idle", "created", "failed", "gone"}]
      /\ victim \in [Reports -> Places \cup {NoPlace}]
      /\ todo \in [Reports -> SUBSET Places]
      /\ stale \in [Reports -> SUBSET (Places \X Nat)]
      /\ now \in Nat /\ file \in Files /\ Retention \in Nat
  BY ReportStoreAssumptions DEF TypeOK
<1>k. ASSUME pc'[q] \in {"stat", "remove"} =>
                 /\ pc'[q] = pc[q] /\ stale'[q] = stale[q]
                 /\ todo'[q] = todo[q] /\ victim'[q] = victim[q]
      PROVE  StaleInv(q)'
  BY <1>k, StaleKept
<1> USE <1>0
<1>1. ASSUME NEW c \in Reports, Begin(c) PROVE StaleInv(q)'
  BY <1>1, <1>k DEF Begin, Goto
<1>2. ASSUME NEW c \in Reports, NotDue(c) PROVE StaleInv(q)'
  BY <1>2, <1>k DEF NotDue, Goto
<1>3. ASSUME NEW c \in Reports, Due(c) PROVE StaleInv(q)'
  BY <1>3, <1>k DEF Due, Goto
<1>4. ASSUME NEW c \in Reports, List(c) PROVE StaleInv(q)'
  <2>1. CASE c = q
    <3>1. /\ pc'[q] = "stat" /\ stale'[q] = Stale
          /\ todo'[q] = {p \in Places : Present(p)}
          /\ now' = now /\ file' = file
          /\ \A d \in Reports : pc[d] \in {"created", "gone"} => pc'[d] = pc[d]
      BY <1>4, <2>1 DEF List, Goto
    <3>2. ASSUME NEW s \in Stale
          PROVE  /\ s[1] \in Places /\ s[2] = file[s[1]].modified
                 /\ Present(s[1]) /\ now - s[2] >= Retention
      BY DEF Stale, IsExpired
    <3>3. ASSUME NEW s \in Stale, NEW d \in Reports, s[1] = <<"final", d>>
          PROVE  pc[d] \in {"created", "gone"}
      BY <3>2, <3>3 DEF StoreInv, ReportInv, Present, Final
    <3> QED
      BY <3>1, <3>2, <3>3 DEF StaleInv
  <2>2. CASE c # q
    BY <1>4, <2>2, <1>k DEF List, Goto
  <2> QED
    BY <2>1, <2>2
<1>5. ASSUME NEW c \in Reports, NEW p \in Places, Stat(c, p) PROVE StaleInv(q)'
  <2>1. CASE c = q
    <3>1. /\ now' = now /\ file' = file /\ stale' = stale
          /\ todo'[q] = todo[q] \ {p} /\ pc[q] = "stat"
          /\ \A d \in Reports : pc[d] \in {"created", "gone"} => pc'[d] = pc[d]
      BY <1>5, <2>1 DEF Stat, Goto
    <3>2. \/ pc'[q] = "remove" /\ victim'[q] = p
          \/ pc'[q] = "stat" /\ ~(Present(p) /\ IsExpired(file[p]))
      BY <1>5, <2>1 DEF Stat, Goto
    <3>3. ASSUME NEW s \in stale[q]
          PROVE  /\ now - s[2] >= Retention
                 /\ \A d \in Reports : s[1] = <<"final", d>> => pc[d] \in {"created", "gone"}
                 /\ Settled(s) \/ s[1] \in todo[q]
      BY <3>1 DEF StaleInv
    <3>4. ASSUME NEW s \in stale[q], s[1] = p, ~(Present(p) /\ IsExpired(file[p]))
          PROVE  Settled(s)
      BY <3>3, <3>4 DEF Settled, IsExpired
    <3>5. ASSUME NEW s \in stale[q], Settled(s) PROVE Settled(s)'
      BY <3>1, <3>5 DEF Settled, Present
    <3> QED
      BY <3>1, <3>2, <3>3, <3>4, <3>5 DEF StaleInv
  <2>2. CASE c # q
    BY <1>5, <2>2, <1>k DEF Stat, Goto
  <2> QED
    BY <2>1, <2>2
<1>6. ASSUME NEW c \in Reports, RemoveExpired(c) PROVE StaleInv(q)'
  <2>1. CASE c = q
    <3>1. /\ now' = now /\ stale' = stale /\ todo' = todo
          /\ pc[q] = "remove" /\ pc'[q] = "stat" /\ Remove(victim[q])
          /\ \A d \in Reports : pc[d] \in {"created", "gone"} => pc'[d] = pc[d]
      BY <1>6, <2>1 DEF RemoveExpired, Goto
    <3>2. ASSUME NEW s \in stale[q]
          PROVE  /\ now - s[2] >= Retention
                 /\ \A d \in Reports : s[1] = <<"final", d>> => pc[d] \in {"created", "gone"}
                 /\ Settled(s) \/ s[1] \in todo[q] \/ victim[q] = s[1]
      BY <3>1 DEF StaleInv
    <3>3. ASSUME NEW s \in stale[q], Settled(s) PROVE Settled(s)'
      BY <3>2, <3>3, SettledStays
    <3>4. ASSUME NEW s \in stale[q], victim[q] = s[1] PROVE Settled(s)'
      <4>1. s[1] \in Places
        OBVIOUS
      <4> QED
        BY <3>1, <3>4, <4>1 DEF Remove, Files, Absent, Settled, Present
    <3> QED
      BY <3>1, <3>2, <3>3, <3>4 DEF StaleInv
  <2>2. CASE c # q
    BY <1>6, <2>2, <1>k DEF RemoveExpired, Goto
  <2> QED
    BY <2>1, <2>2
<1>7. ASSUME NEW c \in Reports, CleanupDone(c) PROVE StaleInv(q)'
  BY <1>7, <1>k DEF CleanupDone, Unlock, Goto
<1>8. ASSUME NEW c \in Reports, CleanupFails(c) PROVE StaleInv(q)'
  BY <1>8, <1>k DEF CleanupFails, Unlock, Goto
<1>9. ASSUME NEW c \in Reports, Open(c) PROVE StaleInv(q)'
  BY <1>9, <1>k DEF Open, Keep, Goto
<1>10. ASSUME NEW c \in Reports, Write(c) PROVE StaleInv(q)'
  BY <1>10, <1>k DEF Write, Keep, Goto
<1>11. ASSUME NEW c \in Reports, Rename(c) PROVE StaleInv(q)'
  BY <1>11, <1>k DEF Rename, MoveToFinal, Goto
<1>12. ASSUME NEW c \in Reports, WriteFails(c) PROVE StaleInv(q)'
  BY <1>12, <1>k DEF WriteFails, Goto
<1>13. ASSUME NEW c \in Reports, Abort(c) PROVE StaleInv(q)'
  BY <1>13, <1>k DEF Abort, Remove, Goto
<1>14. ASSUME NEW c \in Reports, Cancel(c) PROVE StaleInv(q)'
  BY <1>14, <1>k DEF Cancel, Goto
<1>15. ASSUME NEW x \in Readers, Look(x) PROVE StaleInv(q)'
  BY <1>15, <1>k DEF Look
<1>16. ASSUME NEW x \in Readers, ReadContents(x) PROVE StaleInv(q)'
  BY <1>16, <1>k DEF ReadContents
<1>17. ASSUME NEW x \in Readers, ReadFails(x) PROVE StaleInv(q)'
  BY <1>17, <1>k DEF ReadFails
<1>18. ASSUME NEW x \in Readers, RemoveOnRead(x) PROVE StaleInv(q)'
  BY <1>18, <1>k DEF RemoveOnRead, Remove
<1>19. ASSUME NEW h \in Processes, Crash(h) PROVE StaleInv(q)'
  BY <1>19, <1>k DEF Crash
<1>20. ASSUME NEW h \in Processes, Initialize(h) PROVE StaleInv(q)'
  BY <1>20, <1>k DEF Initialize
<1>21. CASE Tick
  BY <1>21, <1>k DEF Tick
<1>22. CASE UNCHANGED vars
  BY <1>22, <1>k DEF vars
<1>23. ASSUME NEW b \in Probes, ProbeStep(b) PROVE StaleInv(q)'
  BY <1>23, <1>k, ProbeEffect
<1> QED
  BY <1>1, <1>2, <1>3, <1>4, <1>5, <1>6, <1>7, <1>8, <1>9, <1>10, <1>11,
     <1>12, <1>13, <1>14, <1>15, <1>16, <1>17, <1>18, <1>19, <1>20, <1>21, <1>22,
     <1>23
     DEF Next, CreateStep

\* A cleanup completes only when it has looked at every entry it listed.
LEMMA CompletedLookedAtAll ==
    ASSUME TypeOK, [Next]_vars, NEW q \in Reports, pc[q] = "stat", pc'[q] = "open"
    PROVE  todo[q] = {}
<1>0. DOMAIN pc = Reports
  BY DEF TypeOK
<1> USE <1>0
<1>1. ASSUME NEW c \in Reports, Begin(c) PROVE todo[q] = {}
  BY <1>1 DEF Begin, Goto
<1>2. ASSUME NEW c \in Reports, NotDue(c) PROVE todo[q] = {}
  BY <1>2 DEF NotDue, Goto
<1>3. ASSUME NEW c \in Reports, Due(c) PROVE todo[q] = {}
  BY <1>3 DEF Due, Goto
<1>4. ASSUME NEW c \in Reports, List(c) PROVE todo[q] = {}
  BY <1>4 DEF List, Goto
<1>5. ASSUME NEW c \in Reports, NEW p \in Places, Stat(c, p) PROVE todo[q] = {}
  BY <1>5 DEF Stat, Goto
<1>6. ASSUME NEW c \in Reports, RemoveExpired(c) PROVE todo[q] = {}
  BY <1>6 DEF RemoveExpired, Remove, Goto
<1>7. ASSUME NEW c \in Reports, CleanupDone(c) PROVE todo[q] = {}
  BY <1>7 DEF CleanupDone, Unlock, Goto
<1>8. ASSUME NEW c \in Reports, CleanupFails(c) PROVE todo[q] = {}
  BY <1>8 DEF CleanupFails, Unlock, Goto
<1>9. ASSUME NEW c \in Reports, Open(c) PROVE todo[q] = {}
  BY <1>9 DEF Open, Keep, Goto
<1>10. ASSUME NEW c \in Reports, Write(c) PROVE todo[q] = {}
  BY <1>10 DEF Write, Keep, Goto
<1>11. ASSUME NEW c \in Reports, Rename(c) PROVE todo[q] = {}
  BY <1>11 DEF Rename, MoveToFinal, Goto
<1>12. ASSUME NEW c \in Reports, WriteFails(c) PROVE todo[q] = {}
  BY <1>12 DEF WriteFails, Goto
<1>13. ASSUME NEW c \in Reports, Abort(c) PROVE todo[q] = {}
  BY <1>13 DEF Abort, Remove, Goto
<1>14. ASSUME NEW c \in Reports, Cancel(c) PROVE todo[q] = {}
  BY <1>14 DEF Cancel, Goto
<1>15. ASSUME NEW x \in Readers, Look(x) PROVE todo[q] = {}
  BY <1>15 DEF Look
<1>16. ASSUME NEW x \in Readers, ReadContents(x) PROVE todo[q] = {}
  BY <1>16 DEF ReadContents
<1>17. ASSUME NEW x \in Readers, ReadFails(x) PROVE todo[q] = {}
  BY <1>17 DEF ReadFails
<1>18. ASSUME NEW x \in Readers, RemoveOnRead(x) PROVE todo[q] = {}
  BY <1>18 DEF RemoveOnRead, Remove
<1>19. ASSUME NEW h \in Processes, Crash(h) PROVE todo[q] = {}
  BY <1>19 DEF Crash
<1>20. ASSUME NEW h \in Processes, Initialize(h) PROVE todo[q] = {}
  BY <1>20 DEF Initialize
<1>21. CASE Tick
  BY <1>21 DEF Tick
<1>22. CASE UNCHANGED vars
  BY <1>22 DEF vars
<1>23. ASSUME NEW b \in Probes, ProbeStep(b) PROVE todo[q] = {}
  BY <1>23, ProbeEffect
<1> QED
  BY <1>1, <1>2, <1>3, <1>4, <1>5, <1>6, <1>7, <1>8, <1>9, <1>10, <1>11,
     <1>12, <1>13, <1>14, <1>15, <1>16, <1>17, <1>18, <1>19, <1>20, <1>21, <1>22,
     <1>23
     DEF Next, CreateStep
------------------------------------------------------------------------------
\* The initial states satisfy every part of the inductive invariants.
LEMMA InitialStates ==
    Init => TypeOK /\ LockInv /\ StoreInv /\ \A c \in Reports : StaleInv(c)
<1> SUFFICES ASSUME Init PROVE TypeOK /\ LockInv /\ StoreInv /\ \A c \in Reports : StaleInv(c)
  OBVIOUS
<1>1. TypeOK
  BY DEF Init, TypeOK, Files, Contents, Absent, Places
<1>2. LockInv
  BY DEF Init, LockInv, CleanupLockIsReleased, Creating
<1>3. RemovalInv
  BY DEF Init, RemovalInv
<1>4. ASSUME NEW c \in Reports PROVE ReportInv(c) /\ StaleInv(c)
  BY Names DEF Init, ReportInv, StaleInv, Final, Absent
<1> QED
  BY <1>1, <1>2, <1>3, <1>4 DEF StoreInv

\* The inductive invariant of the store.
LEMMA StoreInvariant ==
    Spec => [](TypeOK /\ LockInv /\ StoreInv /\ \A c \in Reports : StaleInv(c))
<1>1. TypeOK /\ StoreInv /\ [Next]_vars => StoreInv'
  BY ReportStep, RemovalStep DEF StoreInv
<1>2. TypeOK /\ LockInv /\ StoreInv /\ (\A c \in Reports : StaleInv(c)) /\ [Next]_vars
        => (TypeOK /\ LockInv /\ StoreInv /\ \A c \in Reports : StaleInv(c))'
  BY <1>1, TypeStep, LockStep, StaleStep
<1> QED
  BY <1>2, InitialStates, PTL DEF Spec

\* Nobody is ever shown half a report, whoever writes, crashes or cleans.
THEOREM NobodySeesHalf == Spec => []NeverHalfAReport
<1>1. StoreInv => NeverHalfAReport
  BY DEF StoreInv, RemovalInv, NeverHalfAReport
<1> QED
  BY <1>1, StoreInvariant, PTL

\* A report whose URL was given out stays until its retention is over, with
\* any number of processes that clean the directory, crash and restart.
THEOREM CreatedReportsStay == Spec => []CreatedStays
<1>1. StoreInv => CreatedStays
  BY DEF StoreInv, ReportInv, Over, Final, CreatedStays
<1> QED
  BY <1>1, StoreInvariant, PTL

\* A create call that returns an error has published nothing.
THEOREM FailuresPublishNothing == Spec => []FailedIsUnpublished
<1>1. StoreInv => FailedIsUnpublished
  BY DEF StoreInv, ReportInv, Final, Present, FailedIsUnpublished
<1> QED
  BY <1>1, StoreInvariant, PTL

\* The cleanup mutex is only ever held inside a cleanup of a running process.
THEOREM CleanupLocksAreReleased == Spec => []CleanupLockIsReleased
<1>1. LockInv => CleanupLockIsReleased
  BY DEF LockInv
<1> QED
  BY <1>1, StoreInvariant, PTL

\* A completed cleanup leaves no entry that was expired when it began.
THEOREM CleanupsAreComplete == Spec => CleanupIsComplete
<1> DEFINE Complete ==
        \A c \in Reports : (pc[c] = "stat" /\ pc'[c] = "open") =>
            \A s \in stale[c] : Present(s[1]) => file[s[1]].modified # s[2]
<1>1. TypeOK /\ (\A c \in Reports : StaleInv(c)) /\ [Next]_vars => Complete
  <2> SUFFICES ASSUME TypeOK, \A c \in Reports : StaleInv(c), [Next]_vars,
                      NEW c \in Reports, pc[c] = "stat", pc'[c] = "open",
                      NEW s \in stale[c]
               PROVE  Present(s[1]) => file[s[1]].modified # s[2]
    OBVIOUS
  <2>1. todo[c] = {}
    BY CompletedLookedAtAll
  <2> QED
    BY <2>1 DEF StaleInv, Settled
<1> QED
  BY <1>1, StoreInvariant, PTL DEF Spec, CleanupIsComplete
==============================================================================
