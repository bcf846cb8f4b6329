-------------------------- MODULE PolicyReloadProofs -------------------------
(* What overlapping policy reloads keep, and what they keep if they take     *)
(* turns, for any number of them.                                            *)
EXTENDS PolicyReload, FiniteSetTheorems, TLAPS

Reloaded == {a \in Admins : result[a] = "reloaded"}

\* What a reload holds between reading and swapping is sound, however often
\* the file is edited meanwhile; only a finished one has a result.
Inv ==
    /\ pc \in [Admins -> {"idle", "read", "swap", "done"}]
    /\ read \in [Admins -> Nat] /\ DOMAIN result = Admins
    /\ file \in [version : Nat, valid : BOOLEAN]
    /\ active \in [generation : Nat, asOf : Nat]
    /\ file.valid => file.version \in sound
    /\ \A a \in Admins :
          /\ pc[a] = "swap" => read[a] \in sound
          /\ pc[a] # "done" => result[a] = "none"
    /\ ActiveIsSound

\* main starts with the file it has just validated.
LEMMA InvInit == Init => Inv
  BY DEF Init, Inv, ActiveIsSound

\* Every step of every reload, and every edit of the file, keeps Inv.
LEMMA InvStep == Inv /\ [Next]_vars => Inv'
<1> SUFFICES ASSUME Inv, [Next]_vars PROVE Inv'
  OBVIOUS
<1> USE DEF Inv, ActiveIsSound
<1>1. ASSUME NEW a \in Admins, Start(a) PROVE Inv'
  BY <1>1 DEF Start
<1>2. ASSUME NEW a \in Admins, Load(a) PROVE Inv'
  BY <1>2 DEF Load
<1>3. ASSUME NEW a \in Admins, LoadFails(a) PROVE Inv'
  BY <1>3 DEF LoadFails
<1>4. ASSUME NEW a \in Admins, Swap(a) PROVE Inv'
  BY <1>4 DEF Swap
<1>5. CASE Edit
  BY <1>5 DEF Edit
<1>6. CASE UNCHANGED vars
  BY <1>6 DEF vars
<1> QED
  BY <1>1, <1>2, <1>3, <1>4, <1>5, <1>6 DEF Next

\* The active policy always is a version of the file that validated as a
\* whole, read by a reload that reported success or at start-up.
THEOREM ActivePolicyIsSound == Spec => []ActiveIsSound
<1>1. Inv => ActiveIsSound
  BY DEF Inv
<1> QED
  BY <1>1, InvInit, InvStep, PTL DEF Spec

\* The generation counts the reloads that reported success: none is lost and
\* none is counted twice when they overlap.
THEOREM GenerationsCount ==
    ASSUME IsFiniteSet(Admins)
    PROVE  Spec => []GenerationCounts
<1>1. Init => GenerationCounts
  <2> SUFFICES ASSUME Init PROVE GenerationCounts
    OBVIOUS
  <2>1. Reloaded = {}
    BY DEF Init, Reloaded
  <2> QED
    BY <2>1, FS_EmptySet DEF Init, GenerationCounts, Reloaded
<1>2. Inv /\ GenerationCounts /\ [Next]_vars => GenerationCounts'
  <2> SUFFICES ASSUME Inv, GenerationCounts, [Next]_vars PROVE GenerationCounts'
    OBVIOUS
  <2>1. IsFiniteSet(Reloaded) /\ Cardinality(Reloaded) \in Nat
    BY FS_Subset, FS_CardinalityType DEF Reloaded
  <2>2. ASSUME NEW a \in Admins, Swap(a) PROVE GenerationCounts'
    <3>1. a \notin Reloaded /\ Reloaded' = Reloaded \cup {a}
      BY <2>2 DEF Swap, Inv, Reloaded
    <3>2. Cardinality(Reloaded') = Cardinality(Reloaded) + 1
      BY <3>1, <2>1, FS_AddElement
    <3>3. active'.generation = active.generation + 1
      BY <2>2 DEF Swap
    <3> QED
      BY <3>2, <3>3, <2>1 DEF GenerationCounts, Reloaded
  <2>3. ASSUME active' = active, Reloaded' = Reloaded PROVE GenerationCounts'
    BY <2>3 DEF GenerationCounts, Reloaded
  <2>4. ASSUME NEW a \in Admins, Start(a) PROVE active' = active /\ Reloaded' = Reloaded
    BY <2>4 DEF Start, Reloaded
  <2>5. ASSUME NEW a \in Admins, Load(a) PROVE active' = active /\ Reloaded' = Reloaded
    BY <2>5 DEF Load, Reloaded
  <2>6. ASSUME NEW a \in Admins, LoadFails(a) PROVE active' = active /\ Reloaded' = Reloaded
    BY <2>6 DEF LoadFails, Reloaded, Inv
  <2>7. CASE Edit
    BY <2>7, <2>3 DEF Edit, Reloaded
  <2>8. CASE UNCHANGED vars
    BY <2>8, <2>3 DEF vars, Reloaded
  <2> QED
    BY <2>2, <2>3, <2>4, <2>5, <2>6, <2>7, <2>8 DEF Next
<1> QED
  BY <1>1, <1>2, InvInit, InvStep, PTL DEF Spec
------------------------------------------------------------------------------
\* Reloads that take turns: none is asked for while another is between its
\* request and its answer.  Administrators can see to it; the code does not.
TakesTurns ==
    \A a, b \in Admins : pc[a] \in {"read", "swap"} /\ pc[b] \in {"read", "swap"} => a = b

\* What a reload has read is no older than any request answered before it
\* swaps.  This is what a second reload between the two steps breaks.
TurnInv ==
    /\ Inv
    /\ began \in [Admins -> Nat]
    /\ \A a \in Admins : began[a] <= file.version
    /\ \A a \in Admins : pc[a] = "swap" =>
          /\ read[a] >= began[a]
          /\ \A b \in Admins : result[b] = "reloaded" => read[a] >= began[b]
    /\ ReloadIsCurrent

\* No step of reloads that take turns breaks it.
LEMMA TurnStep == TurnInv /\ TakesTurns /\ [Next]_vars => TurnInv'
<1> SUFFICES ASSUME TurnInv, TakesTurns, [Next]_vars PROVE TurnInv'
  OBVIOUS
<1>1. Inv /\ Inv'
  BY InvStep DEF TurnInv
<1> USE DEF TurnInv, ReloadIsCurrent
<1>2. ASSUME NEW a \in Admins, Start(a) PROVE TurnInv'
  BY <1>1, <1>2 DEF Start, Inv
<1>3. ASSUME NEW a \in Admins, Load(a) PROVE TurnInv'
  BY <1>1, <1>3 DEF Load, Inv
<1>4. ASSUME NEW a \in Admins, LoadFails(a) PROVE TurnInv'
  BY <1>1, <1>4 DEF LoadFails, Inv
<1>5. ASSUME NEW a \in Admins, Swap(a) PROVE TurnInv'
  <2>1. \A b \in Admins : pc'[b] # "swap"
    BY <1>5 DEF Swap, TakesTurns, Inv
  <2>2. active'.asOf = read[a] /\ began' = began /\ file' = file
    BY <1>5 DEF Swap
  <2>3. \A b \in Admins : result'[b] = "reloaded" => read[a] >= began[b]
    BY <1>5 DEF Swap, Inv
  <2> QED BY <1>1, <2>1, <2>2, <2>3
<1>6. CASE Edit
  BY <1>1, <1>6 DEF Edit, Inv
<1>7. CASE UNCHANGED vars
  BY <1>1, <1>7 DEF vars
<1> QED BY <1>2, <1>3, <1>4, <1>5, <1>6, <1>7 DEF Next

\* Where reloads take turns, an answered one is current, however often the file
\* is edited in between: the disagreement with README.md:366 needs two reloads
\* that overlap, which reload_repository_catalog excludes by its mutex.
THEOREM TurnsAreCurrent == Spec /\ []TakesTurns => []ReloadIsCurrent
<1>1. Init => TurnInv
  BY InvInit DEF Init, TurnInv, ReloadIsCurrent
<1>2. TurnInv => ReloadIsCurrent
  BY DEF TurnInv
<1> QED BY <1>1, <1>2, TurnStep, PTL DEF Spec
==============================================================================
