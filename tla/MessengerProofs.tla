---------------------------- MODULE MessengerProofs ---------------------------
(* What holds of Messenger for any number of notifications, any queue        *)
(* capacity and any number of attempts.                                      *)
EXTENDS Messenger, FiniteSetTheorems, WellFoundedInduction, TLAPS

USE DEF queueVars, sendVars, templateVars

Sending == worker \in {"send", "sleep"}
Counters == [sent : Nat, retried : Nat, failed : Nat, skipped : Nat]
Versions == [version : Nat, modified : Nat]

TypeOK ==
    /\ phase \in {"serving", "signal", "drain", "drained", "aborted"}
    /\ notified \subseteq Notifications /\ IsFiniteSet(notified)
    /\ queue \in Seq(Notifications \cup {Shutdown})
    /\ worker \in {"recv", "metadata", "read", "send", "sleep", "stopped"}
    /\ current \in Notifications \cup {None}
    /\ attempt \in Nat /\ payload \in Nat /\ sequence \in Nat
    /\ status \in Counters
    /\ edition \in Nat /\ readable \in BOOLEAN
    /\ cached \in Versions \cup {None}
    /\ seen \in Nat /\ text \in Nat /\ began \in Nat /\ fellBack \in BOOLEAN
    /\ shown \subseteq Nat \X Notifications /\ IsFiniteSet(shown)

\* Where a notification can be: Shutdown is the last thing in the channel, and
\* what waits there waits once, is not being delivered and was not shown.
QueueInv ==
    /\ \A i \in DOMAIN queue : queue[i] = Shutdown =>
          i = Len(queue) /\ phase \notin {"serving", "signal"}
    /\ \A i, j \in DOMAIN queue : queue[i] = queue[j] => i = j
    /\ \A i \in DOMAIN queue : queue[i] # Shutdown =>
          queue[i] \in notified /\ queue[i] # current
    /\ \A m \in shown : m[2] \in notified /\ \A i \in DOMAIN queue : queue[i] # m[2]
    /\ current # None => current \in notified
    /\ worker \in {"metadata", "read", "send", "sleep"} => current # None

\* ToldOnce, strengthened: a payload_id belongs to one notification, and the
\* one in use is used for the current notification only.
PayloadInv ==
    /\ \A m \in shown : m[1] < sequence
    /\ Sending => payload < sequence
    /\ \A a, b \in shown : a[1] = b[1] => a = b
    /\ ToldOnce
    /\ Sending => \A m \in shown : (m[1] = payload) = (m[2] = current)
    /\ worker \in {"metadata", "read"} => \A m \in shown : m[2] # current

\* SentIsShown, strengthened: what a retry has shown already is not yet sent.
Repeated == IF Sending /\ \E m \in shown : m[1] = payload THEN 1 ELSE 0
SentInv == status.sent + Repeated <= Cardinality(shown)

\* TemplateIsFresh, strengthened: the cached contents are no older than the
\* modification time they are filed under.
FreshInv ==
    /\ began <= edition
    /\ worker = "read" => seen <= edition
    /\ cached # None => cached.modified <= cached.version /\ cached.version <= edition
    /\ TemplateIsFresh

\* What the two steps before a POST come to: an error, a message or a read.
Prepared ==
    /\ worker \in {"metadata", "read"}
    /\ UNCHANGED <<queueVars, edition, readable, began, shown>>
    /\ \/ /\ Count("failed") /\ worker' = "recv" /\ current' = None
          /\ UNCHANGED <<text, payload, sequence, attempt>>
       \/ /\ payload' = sequence /\ sequence' = sequence + 1 /\ attempt' = 1
          /\ worker' = "send" /\ UNCHANGED <<current, status>>
       \/ worker' = "read" /\ UNCHANGED <<text, sendVars, status>>

\* The characters of a text: strings.  (The provers do not know that a string
\* that is written out is a member of STRING.)
Chars == STRING \cup {"{", "}", "\n", "Report: ", "report_url"}

Messages(q) == {i \in DOMAIN q : q[i] # Shutdown}
------------------------------------------------------------------------------
\* Looking for a template ends in one of three ways.
LEMMA Preparation == Metadata \/ ReadTemplate => Prepared
BY DEF Metadata, ReadTemplate, RenderFromCache, Compose, Abandon, Prepared

\* Numbering messages keeps the texts' versions natural numbers.
LEMMA PreparedTypes ==
    ASSUME TypeOK, Metadata \/ ReadTemplate
    PROVE  /\ text' \in Nat /\ seen' \in Nat /\ fellBack' \in BOOLEAN
           /\ cached' \in Versions \cup {None}
<1>1. ASSUME NEW v \in Nat, Compose(v) PROVE text' \in Nat
  BY <1>1 DEF TypeOK, Compose, Abandon
<1>2. cached # None => cached.version \in Nat
  BY DEF TypeOK, Versions
<1>3. ASSUME RenderFromCache PROVE text' \in Nat
  BY <1>1, <1>2, <1>3 DEF RenderFromCache, Abandon, TypeOK
<1>4. CASE Metadata
  <2>1. text' \in Nat
    BY <1>1, <1>2, <1>3, <1>4 DEF Metadata, Unchanged, TypeOK
  <2> QED
    BY <1>4, <2>1 DEF Metadata, TypeOK
<1>5. CASE ReadTemplate
  <2>1. text' \in Nat
    BY <1>1, <1>3, <1>5 DEF ReadTemplate, TypeOK
  <2>2. cached' \in Versions \cup {None}
    BY <1>5 DEF ReadTemplate, TypeOK, Versions
  <2> QED
    BY <1>5, <2>1, <2>2 DEF ReadTemplate, TypeOK
<1> QED
  BY <1>4, <1>5

\* What the service takes in is one message more, or none.
LEMMA TakenType ==
    ASSUME TypeOK, current \in Notifications
    PROVE  Taken \subseteq Nat \X Notifications /\ IsFiniteSet(Taken)
<1>1. <<payload, current>> \in Nat \X Notifications
  BY DEF TypeOK
<1>2. IsFiniteSet(shown \cup {<<payload, current>>})
  BY FS_AddElement DEF TypeOK
<1> QED
  BY <1>1, <1>2 DEF Taken, TypeOK

\* A counter goes up by one, the others stay.
LEMMA Counting ==
    ASSUME TypeOK
    PROVE  /\ Count("sent") => /\ status' \in Counters /\ status'.sent = status.sent + 1
                               /\ status'.failed = status.failed /\ status'.skipped = status.skipped
           /\ Count("retried") => /\ status' \in Counters /\ status'.sent = status.sent
                                  /\ status'.failed = status.failed /\ status'.skipped = status.skipped
           /\ Count("failed") => /\ status' \in Counters /\ status'.sent = status.sent
                                 /\ status'.failed = status.failed + 1 /\ status'.skipped = status.skipped
           /\ Count("skipped") => /\ status' \in Counters /\ status'.sent = status.sent
                                  /\ status'.failed = status.failed /\ status'.skipped = status.skipped + 1
BY DEF TypeOK, Counters, Count

\* Every step keeps the types.
LEMMA TypeStep == TypeOK /\ QueueInv /\ [Next]_vars => TypeOK'
<1> SUFFICES ASSUME TypeOK, QueueInv, [Next]_vars PROVE TypeOK'
  OBVIOUS
<1>0. worker = "send" => Taken \subseteq Nat \X Notifications /\ IsFiniteSet(Taken)
  <2>1. worker = "send" => current \in Notifications
    BY DEF QueueInv, TypeOK
  <2> QED
    BY <2>1, TakenType
<1> USE MessengerAssumptions
<1>1. ASSUME NEW n \in Notifications, Notify(n) PROVE TypeOK'
  <2>1. IsFiniteSet(notified') /\ notified' \subseteq Notifications
    BY <1>1, FS_AddElement DEF Notify, TypeOK
  <2>2. queue' \in Seq(Notifications \cup {Shutdown})
    <3>1. queue \in Seq(Notifications \cup {Shutdown})
      BY DEF TypeOK
    <3>2. Append(queue, n) \in Seq(Notifications \cup {Shutdown})
      BY <3>1
    <3> QED
      BY <1>1, <3>1, <3>2 DEF Notify
  <2>3. status' \in Counters
    BY <1>1, Counting DEF Notify, TypeOK
  <2> QED
    BY <1>1, <2>1, <2>2, <2>3 DEF Notify, TypeOK
<1>2. CASE Receive
  <2>1. queue # <<>> => Head(queue) \in Notifications \cup {Shutdown}
                        /\ Tail(queue) \in Seq(Notifications \cup {Shutdown})
    BY DEF TypeOK
  <2>2. <<>> \in Seq(Notifications \cup {Shutdown})
    OBVIOUS
  <2> QED
    BY <1>2, <2>1, <2>2 DEF Receive, TypeOK
<1>3. CASE Metadata \/ ReadTemplate
  <2>1. status' \in Counters
    BY <1>3, Preparation, Counting DEF Prepared, TypeOK
  <2>2. /\ attempt' \in Nat /\ payload' \in Nat /\ sequence' \in Nat
        /\ current' \in Notifications \cup {None}
        /\ worker' \in {"recv", "metadata", "read", "send", "sleep", "stopped"}
    BY <1>3, Preparation DEF Prepared, TypeOK
  <2>3. UNCHANGED <<queueVars, edition, readable, began, shown>>
    BY <1>3, Preparation DEF Prepared
  <2>4. text' \in Nat /\ seen' \in Nat /\ fellBack' \in BOOLEAN /\ cached' \in Versions \cup {None}
    BY <1>3, PreparedTypes
  <2> QED
    BY <2>1, <2>2, <2>3, <2>4 DEF TypeOK
<1>4. CASE SendOk
  BY <1>4, <1>0, Counting DEF SendOk, TypeOK
<1>5. CASE SendTransient
  BY <1>5, <1>0, Counting DEF SendTransient, TypeOK
<1>6. CASE Sleep
  BY <1>6, <1>0, Counting DEF Sleep, TypeOK
<1>7. CASE SendFails
  BY <1>7, <1>0, Counting DEF SendFails, TypeOK
<1>8. CASE ServerStops
  BY <1>8, <1>0, Counting DEF ServerStops, TypeOK
<1>9. CASE SendShutdown
  <2>1. queue' \in Seq(Notifications \cup {Shutdown})
    BY <1>9 DEF SendShutdown, TypeOK
  <2> QED
    BY <1>9, <2>1 DEF SendShutdown, TypeOK
<1>10. CASE ShutdownTimesOut
  <2>1. <<>> \in Seq(Notifications \cup {Shutdown})
    OBVIOUS
  <2> QED
    BY <1>10, <2>1 DEF ShutdownTimesOut, TypeOK
<1>11. CASE Drained
  BY <1>11, <1>0, Counting DEF Drained, TypeOK
<1>12. CASE EditTemplate
  BY <1>12, <1>0, Counting DEF EditTemplate, TypeOK
<1>13. CASE UNCHANGED vars
  BY <1>13, <1>0, Counting DEF vars, TypeOK
<1> QED
  BY <1>1, <1>2, <1>3, <1>4, <1>5, <1>6, <1>7, <1>8, <1>9, <1>10, <1>11,
     <1>12, <1>13 DEF Next, WorkerStep

\* Every step keeps each notification in one place.
LEMMA QueueStep == TypeOK /\ QueueInv /\ [Next]_vars => QueueInv'
<1> SUFFICES ASSUME TypeOK, QueueInv, [Next]_vars PROVE QueueInv'
  OBVIOUS
<1>0. /\ queue \in Seq(Notifications \cup {Shutdown})
      /\ current \in Notifications \cup {None}
      /\ notified \subseteq Notifications
  BY DEF TypeOK
<1>k. ASSUME queue' = queue \/ queue' = <<>>, notified' = notified,
             phase' = phase \/ phase' \notin {"serving", "signal"}
                 \/ (phase = "serving" /\ phase' = "signal"),
             current' = current \/ current' = None,
             \A m \in shown' : m \in shown \/ (m[2] = current /\ worker = "send"),
             worker' \in {"metadata", "read", "send", "sleep"} =>
                 current' = current /\ worker \in {"metadata", "read", "send", "sleep"}
      PROVE  QueueInv'
  BY <1>0, <1>k, MessengerAssumptions DEF QueueInv
<1>t. \A m \in Taken : m \in shown \/ m[2] = current
  BY DEF Taken
<1>1. ASSUME NEW n \in Notifications, Notify(n) PROVE QueueInv'
  <2>1. CASE queue' = Append(queue, n)
    <3>1. /\ Len(queue') = Len(queue) + 1 /\ DOMAIN queue' = 1..Len(queue) + 1
          /\ \A i \in DOMAIN queue : queue'[i] = queue[i]
          /\ queue'[Len(queue) + 1] = n
      BY <1>0, <2>1
    <3>2. \A i \in DOMAIN queue' : i \in DOMAIN queue \/ i = Len(queue) + 1
      BY <1>0, <3>1
    <3>3. \A i \in DOMAIN queue : queue[i] # n /\ queue[i] # Shutdown
      BY <1>1 DEF Notify, QueueInv
    <3>4. n # Shutdown /\ n # None /\ n # current /\ \A m \in shown : m[2] # n
      BY <1>1, MessengerAssumptions DEF Notify, QueueInv
    <3>5. UNCHANGED <<phase, worker, current, shown>> /\ notified' = notified \cup {n}
      BY <1>1 DEF Notify
    <3> QED
      BY <3>1, <3>2, <3>3, <3>4, <3>5 DEF QueueInv
  <2>2. CASE queue' = queue
    BY <1>1, <2>2 DEF Notify, QueueInv
  <2> QED
    BY <1>1, <2>1, <2>2 DEF Notify
<1>2. CASE Receive
  <2>1. CASE Head(queue) = Shutdown
    BY <1>2, <2>1, <1>k DEF Receive
  <2>2. CASE Head(queue) # Shutdown
    <3>1. /\ queue' = Tail(queue) /\ current' = Head(queue) /\ queue # <<>>
          /\ UNCHANGED <<phase, notified, shown>>
      BY <1>2, <2>2 DEF Receive
    <3>2. /\ Len(queue') = Len(queue) - 1 /\ Head(queue) = queue[1] /\ 1 \in DOMAIN queue
          /\ \A i \in DOMAIN queue' : i + 1 \in DOMAIN queue /\ i + 1 # 1 /\ i \in Nat
                                      /\ queue'[i] = queue[i + 1]
      BY <1>0, <3>1
    <3>3. queue[1] \in Notifications
      BY <1>0, <2>2, <3>2
    <3>4. \A i \in DOMAIN queue' : queue'[i] = Shutdown =>
              i = Len(queue') /\ phase' \notin {"serving", "signal"}
      BY <1>0, <3>1, <3>2 DEF QueueInv
    <3>5. \A i, j \in DOMAIN queue' : queue'[i] = queue'[j] => i = j
      <4> SUFFICES ASSUME NEW i \in DOMAIN queue', NEW j \in DOMAIN queue',
                          queue'[i] = queue'[j]
                   PROVE  i = j
        OBVIOUS
      <4>1. i + 1 = j + 1
        BY <3>2 DEF QueueInv
      <4> QED
        BY <3>2, <4>1
    <3>6. \A i \in DOMAIN queue' : queue'[i] # Shutdown =>
              queue'[i] \in notified' /\ queue'[i] # current'
      BY <3>1, <3>2 DEF QueueInv
    <3>7. \A m \in shown' : m[2] \in notified' /\ \A i \in DOMAIN queue' : queue'[i] # m[2]
      BY <3>1, <3>2 DEF QueueInv
    <3>8. current' # None /\ current' \in notified'
      BY <2>2, <3>1, <3>2, <3>3, MessengerAssumptions DEF QueueInv
    <3> QED
      BY <3>4, <3>5, <3>6, <3>7, <3>8 DEF QueueInv
  <2> QED
    BY <2>1, <2>2
<1>3. CASE Metadata \/ ReadTemplate
  BY <1>3, <1>k, Preparation DEF Prepared
<1>4. CASE SendOk
  BY <1>4, <1>k, <1>t DEF SendOk
<1>5. CASE SendTransient
  BY <1>5, <1>k, <1>t DEF SendTransient
<1>6. CASE Sleep
  BY <1>6, <1>k, <1>t DEF Sleep
<1>7. CASE SendFails
  BY <1>7, <1>k, <1>t DEF SendFails
<1>8. CASE ServerStops
  BY <1>8, <1>k, <1>t DEF ServerStops
<1>9. CASE SendShutdown
  <2>1. /\ Len(queue') = Len(queue) + 1 /\ DOMAIN queue' = 1..Len(queue) + 1
        /\ \A i \in DOMAIN queue : queue'[i] = queue[i]
        /\ queue'[Len(queue) + 1] = Shutdown
    BY <1>9, <1>0 DEF SendShutdown
  <2>2. \A i \in DOMAIN queue' : i \in DOMAIN queue \/ i = Len(queue) + 1
    BY <1>0, <2>1
  <2>3. \A i \in DOMAIN queue : queue[i] # Shutdown
    BY <1>9 DEF SendShutdown, QueueInv
  <2>4. \A m \in shown : m[2] # Shutdown
    BY MessengerAssumptions DEF TypeOK
  <2>5. UNCHANGED <<notified, worker, current, shown>> /\ phase' = "drain"
    BY <1>9 DEF SendShutdown
  <2> QED
    BY <2>1, <2>2, <2>3, <2>4, <2>5 DEF QueueInv
<1>10. CASE ShutdownTimesOut
  BY <1>10, <1>k, <1>t DEF ShutdownTimesOut
<1>11. CASE Drained
  BY <1>11, <1>k, <1>t DEF Drained
<1>12. CASE EditTemplate
  BY <1>12, <1>k, <1>t DEF EditTemplate
<1>13. CASE UNCHANGED vars
  BY <1>13, <1>k, <1>t DEF vars
<1> QED
  BY <1>1, <1>2, <1>3, <1>4, <1>5, <1>6, <1>7, <1>8, <1>9, <1>10, <1>11,
     <1>12, <1>13 DEF Next, WorkerStep

\* Every step keeps the payload_ids apart and the current one to itself.
LEMMA PayloadStep == TypeOK /\ QueueInv /\ PayloadInv /\ [Next]_vars => PayloadInv'
<1> SUFFICES ASSUME TypeOK, QueueInv, PayloadInv, [Next]_vars PROVE PayloadInv'
  OBVIOUS
<1>0. /\ sequence \in Nat /\ payload \in Nat /\ shown \subseteq Nat \X Notifications
      /\ current \in Notifications \cup {None}
  BY DEF TypeOK
<1>k. ASSUME shown' = shown, sequence' = sequence,
             worker' \in {"recv", "stopped"} \/ UNCHANGED <<worker, payload, current>>
      PROVE  PayloadInv'
  BY <1>k DEF PayloadInv, ToldOnce, Sending
<1>t. ASSUME worker = "send", shown' \in {shown, Taken}, sequence' = sequence,
             \/ worker' \in {"recv", "stopped"}
             \/ worker' = "sleep" /\ UNCHANGED <<payload, current>>
      PROVE  PayloadInv'
  <2>1. CASE shown' = shown
    BY <1>t, <2>1 DEF PayloadInv, ToldOnce, Sending
  <2>2. CASE shown' # shown
    <3>1. /\ shown' = shown \cup {<<payload, current>>}
          /\ \A m \in shown : m[1] # payload
      BY <1>t, <2>2 DEF Taken
    <3>2. /\ payload < sequence
          /\ \A m \in shown : m[2] # current
      BY <1>t, <3>1 DEF PayloadInv, Sending
    <3>3. ToldOnce'
      BY <3>1, <3>2 DEF PayloadInv, ToldOnce
    <3>4. \A a, b \in shown' : a[1] = b[1] => a = b
      BY <3>1 DEF PayloadInv
    <3> QED
      BY <1>0, <1>t, <3>1, <3>2, <3>3, <3>4 DEF PayloadInv, Sending
  <2> QED
    BY <2>1, <2>2
<1>1. ASSUME NEW n \in Notifications, Notify(n) PROVE PayloadInv'
  BY <1>1, <1>k, <1>t DEF Notify
<1>2. CASE Receive
  <2>1. CASE Head(queue) = Shutdown
    BY <1>2, <2>1, <1>k DEF Receive
  <2>2. CASE Head(queue) # Shutdown
    <3>1. /\ worker' = "metadata" /\ current' = Head(queue) /\ queue # <<>>
          /\ UNCHANGED <<shown, sequence>>
      BY <1>2, <2>2 DEF Receive
    <3>2. Head(queue) = queue[1] /\ 1 \in DOMAIN queue
      BY <3>1 DEF TypeOK
    <3>3. \A m \in shown : m[2] # current'
      BY <3>1, <3>2 DEF QueueInv
    <3> QED
      BY <3>1, <3>3 DEF PayloadInv, ToldOnce, Sending
  <2> QED
    BY <2>1, <2>2
<1>3. CASE Metadata \/ ReadTemplate
  <2>1. Prepared
    BY <1>3, Preparation
  <2>2. CASE worker' = "send"
    <3>1. /\ payload' = sequence /\ sequence' = sequence + 1
          /\ UNCHANGED <<shown, current>> /\ worker \in {"metadata", "read"}
      BY <2>1, <2>2 DEF Prepared
    <3>2. \A m \in shown : m[1] \in Nat /\ m[1] < sequence /\ m[2] # current
      BY <1>0, <3>1 DEF PayloadInv
    <3>3. \A m \in shown : m[1] < sequence' /\ m[1] # payload'
      BY <1>0, <3>1, <3>2
    <3>4. payload' < sequence'
      BY <1>0, <3>1
    <3> QED
      BY <2>2, <3>1, <3>2, <3>3, <3>4 DEF PayloadInv, ToldOnce, Sending
  <2>3. CASE worker' = "recv"
    BY <2>1, <2>3, <1>k DEF Prepared
  <2>4. CASE worker' = "read"
    BY <2>1, <2>4 DEF Prepared, PayloadInv, ToldOnce, Sending
  <2> QED
    BY <2>1, <2>2, <2>3, <2>4 DEF Prepared
<1>4. CASE SendOk
  BY <1>4, <1>k, <1>t DEF SendOk
<1>5. CASE SendTransient
  BY <1>5, <1>k, <1>t DEF SendTransient
<1>6. CASE Sleep
  BY <1>6 DEF Sleep, PayloadInv, ToldOnce, Sending
<1>7. CASE SendFails
  BY <1>7, <1>k, <1>t DEF SendFails
<1>8. CASE ServerStops
  BY <1>8, <1>k, <1>t DEF ServerStops
<1>9. CASE SendShutdown
  BY <1>9, <1>k, <1>t DEF SendShutdown
<1>10. CASE ShutdownTimesOut
  BY <1>10, <1>k, <1>t DEF ShutdownTimesOut
<1>11. CASE Drained
  BY <1>11, <1>k, <1>t DEF Drained
<1>12. CASE EditTemplate
  BY <1>12, <1>k, <1>t DEF EditTemplate
<1>13. CASE UNCHANGED vars
  BY <1>13, <1>k, <1>t DEF vars
<1> QED
  BY <1>1, <1>2, <1>3, <1>4, <1>5, <1>6, <1>7, <1>8, <1>9, <1>10, <1>11,
     <1>12, <1>13 DEF Next, WorkerStep

\* Every step keeps what counts as sent among what is shown.
LEMMA SentStep ==
    TypeOK /\ QueueInv /\ PayloadInv /\ SentInv /\ [Next]_vars => SentInv'
<1> SUFFICES ASSUME TypeOK, QueueInv, PayloadInv, SentInv, [Next]_vars PROVE SentInv'
  OBVIOUS
<1>0. /\ status.sent \in Nat /\ Cardinality(shown) \in Nat /\ Repeated \in {0, 1}
      /\ sequence \in Nat /\ shown \subseteq Nat \X Notifications
  BY FS_CardinalityType DEF TypeOK, Counters, Repeated
<1>k. ASSUME status'.sent = status.sent, shown' = shown,
             Sending' => Sending /\ payload' = payload
      PROVE  SentInv'
  BY <1>0, <1>k DEF SentInv, Repeated
<1>a. ASSUME <<payload, current>> \notin shown
      PROVE  Cardinality(shown \cup {<<payload, current>>}) = Cardinality(shown) + 1
  BY <1>a, FS_AddElement DEF TypeOK
<1>t. worker = "send" => Cardinality(Taken) \in Nat /\ status.sent + 1 <= Cardinality(Taken)
  <2> SUFFICES ASSUME worker = "send"
               PROVE  Cardinality(Taken) \in Nat /\ status.sent + 1 <= Cardinality(Taken)
    OBVIOUS
  <2>1. CASE \E m \in shown : m[1] = payload
    <3>1. Taken = shown /\ Repeated = 1
      BY <2>1 DEF Taken, Repeated, Sending
    <3> QED
      BY <1>0, <3>1 DEF SentInv
  <2>2. CASE ~\E m \in shown : m[1] = payload
    <3>1. Taken = shown \cup {<<payload, current>>} /\ <<payload, current>> \notin shown
      BY <2>2 DEF Taken
    <3> QED
      BY <1>0, <1>a, <3>1 DEF SentInv
  <2> QED
    BY <2>1, <2>2
<1>s. ASSUME worker = "send", shown' \in {shown, Taken}, status'.sent = status.sent,
             \/ worker' = "recv"
             \/ worker' = "sleep" /\ payload' = payload
      PROVE  SentInv'
  <2>1. CASE shown' = shown
    BY <1>s, <2>1, <1>k DEF Sending
  <2>2. CASE shown' = Taken
    <3>1. Repeated' \in {0, 1}
      BY DEF Repeated
    <3> QED
      BY <1>0, <1>s, <1>t, <2>2, <3>1 DEF SentInv
  <2> QED
    BY <1>s, <2>1, <2>2
<1> USE Counting
<1>1. ASSUME NEW n \in Notifications, Notify(n) PROVE SentInv'
  BY <1>1, <1>k, <1>s DEF Notify, Sending
<1>2. CASE Receive
  BY <1>2, <1>k, <1>s DEF Receive, Sending
<1>3. CASE Metadata \/ ReadTemplate
  <2>1. Prepared
    BY <1>3, Preparation
  <2>2. CASE worker' = "send"
    <3>1. payload' = sequence /\ UNCHANGED <<shown, status>>
      BY <2>1, <2>2 DEF Prepared
    <3>2. \A m \in shown : m[1] \in Nat /\ m[1] < sequence
      BY <1>0 DEF PayloadInv
    <3>3. Repeated' = 0
      BY <1>0, <3>1, <3>2 DEF Repeated
    <3> QED
      BY <1>0, <3>1, <3>3 DEF SentInv
  <2>3. CASE worker' # "send"
    BY <2>1, <2>3, <1>k DEF Prepared, Sending
  <2> QED
    BY <2>2, <2>3
<1>4. CASE SendOk
  <2>1. Repeated' = 0 /\ status'.sent = status.sent + 1 /\ shown' = Taken
    BY <1>4 DEF SendOk, Repeated, Sending
  <2> QED
    BY <1>4, <1>0, <1>t, <2>1 DEF SendOk, SentInv
<1>5. CASE SendTransient
  BY <1>5, <1>k, <1>s DEF SendTransient, Sending
<1>6. CASE Sleep
  BY <1>6, <1>k, <1>s DEF Sleep, Sending
<1>7. CASE SendFails
  BY <1>7, <1>k, <1>s DEF SendFails, Sending
<1>8. CASE ServerStops
  BY <1>8, <1>k, <1>s DEF ServerStops, Sending
<1>9. CASE SendShutdown
  BY <1>9, <1>k, <1>s DEF SendShutdown, Sending
<1>10. CASE ShutdownTimesOut
  BY <1>10, <1>k, <1>s DEF ShutdownTimesOut, Sending
<1>11. CASE Drained
  BY <1>11, <1>k, <1>s DEF Drained, Sending
<1>12. CASE EditTemplate
  BY <1>12, <1>k, <1>s DEF EditTemplate, Sending
<1>13. CASE UNCHANGED vars
  BY <1>13, <1>k, <1>s DEF vars, Sending
<1> QED
  BY <1>1, <1>2, <1>3, <1>4, <1>5, <1>6, <1>7, <1>8, <1>9, <1>10, <1>11,
     <1>12, <1>13 DEF Next, WorkerStep

\* Every step keeps the template fresh.
LEMMA FreshStep == TypeOK /\ FreshInv /\ [Next]_vars => FreshInv'
<1> SUFFICES ASSUME TypeOK, FreshInv, [Next]_vars PROVE FreshInv'
  OBVIOUS
<1>0. /\ edition \in Nat /\ began \in Nat /\ seen \in Nat /\ text \in Nat
      /\ readable \in BOOLEAN /\ fellBack \in BOOLEAN
      /\ cached # None => cached.modified \in Nat /\ cached.version \in Nat
  BY DEF TypeOK, Versions
<1>k. ASSUME UNCHANGED <<began, cached, edition>>,
             Sending' => Sending /\ UNCHANGED <<text, fellBack>>,
             worker' # "read"
      PROVE  FreshInv'
  BY <1>k DEF FreshInv, TemplateIsFresh, Sending
<1>c. ASSUME NEW v \in Nat, Compose(v) PROVE worker' = "recv" \/ (worker' = "send" /\ text' = v)
  BY <1>c DEF Compose, Abandon
<1>r. ASSUME RenderFromCache PROVE worker' \in {"recv", "send"}
  BY <1>r DEF RenderFromCache, Compose, Abandon
<1>1. ASSUME NEW n \in Notifications, Notify(n) PROVE FreshInv'
  BY <1>1 DEF Notify, FreshInv, TemplateIsFresh
<1>2. CASE Receive
  BY <1>2, <1>0 DEF Receive, FreshInv, TemplateIsFresh
<1>3. CASE Metadata \/ ReadTemplate
  <2>1. CASE Metadata
    <3>1. CASE ~readable
      BY <2>1, <3>1, <1>r DEF Metadata, FreshInv, TemplateIsFresh
    <3>2. CASE readable /\ Unchanged
      <4>1. cached.version = edition
        BY <1>0, <3>2 DEF Unchanged, FreshInv
      <4>2. Compose(cached.version)
        BY <2>1, <3>2 DEF Metadata
      <4> QED
        BY <1>0, <1>c, <2>1, <4>1, <4>2 DEF Metadata, FreshInv, TemplateIsFresh
    <3>3. CASE readable /\ ~Unchanged
      BY <1>0, <2>1, <3>3 DEF Metadata, FreshInv, TemplateIsFresh
    <3> QED
      BY <3>1, <3>2, <3>3
  <2>2. CASE ReadTemplate
    <3>1. CASE ~readable
      BY <2>2, <3>1, <1>r DEF ReadTemplate, FreshInv, TemplateIsFresh
    <3>2. CASE readable
      <4>1. /\ cached' = [version |-> edition, modified |-> seen] /\ Compose(edition)
            /\ UNCHANGED <<edition, began>> /\ seen <= edition
        BY <2>2, <3>2 DEF ReadTemplate, FreshInv
      <4> QED
        BY <1>0, <1>c, <4>1 DEF FreshInv, TemplateIsFresh
    <3> QED
      BY <3>1, <3>2
  <2> QED
    BY <1>3, <2>1, <2>2
<1>4. CASE SendOk
  BY <1>4, <1>k DEF SendOk, Sending
<1>5. CASE SendTransient
  BY <1>5, <1>k DEF SendTransient, Sending
<1>6. CASE Sleep
  BY <1>6, <1>k DEF Sleep, Sending
<1>7. CASE SendFails
  BY <1>7, <1>k DEF SendFails, Sending
<1>8. CASE ServerStops
  BY <1>8 DEF ServerStops, FreshInv, TemplateIsFresh
<1>9. CASE SendShutdown
  BY <1>9 DEF SendShutdown, FreshInv, TemplateIsFresh
<1>10. CASE ShutdownTimesOut
  BY <1>10, <1>k DEF ShutdownTimesOut, Sending
<1>11. CASE Drained
  BY <1>11 DEF Drained, FreshInv, TemplateIsFresh
<1>12. CASE EditTemplate
  BY <1>12, <1>0 DEF EditTemplate, FreshInv, TemplateIsFresh
<1>13. CASE UNCHANGED vars
  BY <1>13 DEF vars, FreshInv, TemplateIsFresh
<1> QED
  BY <1>1, <1>2, <1>3, <1>4, <1>5, <1>6, <1>7, <1>8, <1>9, <1>10, <1>11,
     <1>12, <1>13 DEF Next, WorkerStep

\* How many messages wait in the channel, and how that number changes.
LEMMA MessagesFinite ==
    ASSUME NEW q \in Seq(Notifications \cup {Shutdown})
    PROVE  IsFiniteSet(Messages(q)) /\ Cardinality(Messages(q)) \in Nat
<1>1. IsFiniteSet(1..Len(q)) /\ Messages(q) \subseteq 1..Len(q)
  BY FS_Interval DEF Messages
<1> QED
  BY <1>1, FS_Subset, FS_CardinalityType

\* An empty channel has none.
LEMMA MessagesEmpty == Cardinality(Messages(<<>>)) = 0
<1>1. Messages(<<>>) = {}
  BY DEF Messages
<1> QED
  BY <1>1, FS_EmptySet

\* A notification at the end of the channel is one more.
LEMMA MessagesAppended ==
    ASSUME NEW q \in Seq(Notifications \cup {Shutdown}), NEW n \in Notifications
    PROVE  Cardinality(Messages(Append(q, n))) = Cardinality(Messages(q)) + 1
<1>1. Messages(Append(q, n)) = Messages(q) \cup {Len(q) + 1}
  BY MessengerAssumptions DEF Messages
<1>2. Len(q) + 1 \notin Messages(q)
  BY DEF Messages
<1> QED
  BY <1>1, <1>2, MessagesFinite, FS_AddElement

\* Shutdown is none.
LEMMA ShutdownAppended ==
    ASSUME NEW q \in Seq(Notifications \cup {Shutdown})
    PROVE  Messages(Append(q, Shutdown)) = Messages(q)
BY DEF Messages

\* Taking a notification from the front leaves one less.
LEMMA MessageTaken ==
    ASSUME NEW q \in Seq(Notifications \cup {Shutdown}), q # <<>>, Head(q) # Shutdown
    PROVE  Cardinality(Messages(q)) = Cardinality(Messages(Tail(q))) + 1
<1> DEFINE S == Messages(q) \ {1}
           T == Messages(Tail(q))
           shift == [i \in S |-> i - 1]
<1>0. /\ Len(q) \in Nat /\ DOMAIN q = 1..Len(q) /\ DOMAIN Tail(q) = 1..Len(q) - 1
      /\ \A i \in 1..Len(q) - 1 : Tail(q)[i] = q[i + 1]
      /\ q[1] # Shutdown /\ 1 \in DOMAIN q
  OBVIOUS
<1>1. \A i \in S : i \in Nat /\ i - 1 \in T
  BY <1>0 DEF Messages
<1>2. \A j \in T : j \in Nat /\ j + 1 \in S /\ (j + 1) - 1 = j
  BY <1>0 DEF Messages
<1>3. shift \in Bijection(S, T)
  <2> HIDE DEF S, T
  <2>1. shift \in [S -> T]
    BY <1>1
  <2>2. \A a, b \in S : shift[a] = shift[b] => a = b
    BY <1>1
  <2>3. \A t \in T : \E s \in S : shift[s] = t
    BY <1>2
  <2> QED
    BY <2>1, <2>2, <2>3 DEF Bijection, Injection, Surjection, IsInjective
<1>4. 1 \in Messages(q)
  BY <1>0 DEF Messages
<1>5. IsFiniteSet(Messages(q)) /\ Cardinality(Messages(q)) \in Nat
  BY MessagesFinite
<1>6. IsFiniteSet(S) /\ Cardinality(S) = Cardinality(Messages(q)) - 1
  BY <1>4, <1>5, FS_RemoveElement
<1>7. Cardinality(S) = Cardinality(T)
  BY <1>3, <1>6, FS_Bijection DEF ExistsBijection
<1> QED
  BY <1>5, <1>6, <1>7

\* Every step keeps account of every notification.
LEMMA AccountStep == TypeOK /\ QueueInv /\ Accounted /\ [Next]_vars => Accounted'
<1> DEFINE Busy == IF worker \in {"recv", "stopped"} THEN 0 ELSE 1
           Waiting == Cardinality(Messages(queue))
           Done == status.sent + status.failed + status.skipped
<1> SUFFICES ASSUME TypeOK, QueueInv, Accounted, [Next]_vars, phase' # "aborted"
             PROVE  Accounted'
  BY DEF Accounted
<1>0. /\ status.sent \in Nat /\ status.failed \in Nat /\ status.skipped \in Nat
      /\ Waiting \in Nat /\ Busy \in Nat /\ queue \in Seq(Notifications \cup {Shutdown})
  BY MessagesFinite DEF TypeOK, Counters
<1>1a. Pending = Waiting + Busy /\ Pending' = Waiting' + Busy'
  BY DEF Pending, Messages
<1>a. phase # "aborted" => Cardinality(notified) = Done + Waiting + Busy
  BY <1>0, <1>1a DEF Accounted
<1>b. phase = "aborted" => phase' = "aborted"
  BY DEF Next, vars, Notify, WorkerStep, Receive, Metadata, ReadTemplate, SendOk,
     SendTransient, Sleep, SendFails, ServerStops, SendShutdown, ShutdownTimesOut,
     Drained, EditTemplate
<1>k. ASSUME notified' = notified, Waiting' \in Nat, Busy' \in Nat, Done' \in Nat,
             Done' + Waiting' + Busy' = Done + Waiting + Busy
      PROVE  Accounted'
  BY <1>0, <1>1a, <1>a, <1>b, <1>k DEF Accounted
<1>n. ASSUME Cardinality(notified') = Cardinality(notified) + 1, Cardinality(notified) \in Nat,
             phase # "aborted", Waiting' \in Nat, Busy' \in Nat, Done' \in Nat,
             Done' + Waiting' + Busy' = Done + Waiting + Busy + 1
      PROVE  Accounted'
  BY <1>0, <1>1a, <1>a, <1>n DEF Accounted
<1>d. Done \in Nat
  BY <1>0
<1> USE Counting
<1> HIDE DEF Busy, Waiting, Done
<1>1. ASSUME NEW n \in Notifications, Notify(n) PROVE Accounted'
  <2>1. Cardinality(notified') = Cardinality(notified) + 1 /\ Cardinality(notified) \in Nat
    BY <1>1, FS_AddElement, FS_CardinalityType DEF Notify, TypeOK
  <2>2. Busy' = Busy
    BY <1>1 DEF Notify, Busy
  <2>3. CASE queue' = Append(queue, n) /\ UNCHANGED status
    <3>1. Waiting' = Waiting + 1 /\ Done' = Done
      BY <1>0, <2>3, MessagesAppended DEF Waiting, Done
    <3> QED
      BY <1>1, <1>0, <1>d, <1>n, <2>1, <2>2, <3>1 DEF Notify
  <2>4. CASE Count("skipped") /\ queue' = queue
    <3>1. Waiting' = Waiting /\ Done' = Done + 1
      BY <1>0, <2>4 DEF Waiting, Done
    <3> QED
      BY <1>1, <1>0, <1>d, <1>n, <2>1, <2>2, <3>1 DEF Notify
  <2> QED
    BY <1>1, <2>3, <2>4 DEF Notify
<1>2. CASE Receive
  <2>1. CASE Head(queue) = Shutdown
    <3>1. 1 \in DOMAIN queue /\ queue[1] = Shutdown /\ queue' = <<>>
      BY <1>2, <1>0, <2>1 DEF Receive
    <3>2. Messages(queue) = {}
      BY <1>0, <3>1 DEF QueueInv, Messages
    <3>3. Waiting = 0 /\ Waiting' = 0
      BY <3>1, <3>2, FS_EmptySet, MessagesEmpty DEF Waiting
    <3> QED
      BY <1>2, <1>0, <1>k, <2>1, <3>3 DEF Receive, Busy, Done
  <2>2. CASE Head(queue) # Shutdown
    <3>1. queue' = Tail(queue) /\ queue' \in Seq(Notifications \cup {Shutdown})
      BY <1>2, <1>0, <2>2 DEF Receive
    <3>2. Waiting = Waiting' + 1 /\ Waiting' \in Nat
      BY <1>2, <1>0, <2>2, <3>1, MessageTaken, MessagesFinite DEF Receive, Waiting
    <3>3. Busy = 0 /\ Busy' = 1 /\ Done' = Done /\ notified' = notified
      BY <1>2, <2>2 DEF Receive, Busy, Done
    <3> QED
      BY <1>d, <1>k, <3>2, <3>3
  <2> QED
    BY <2>1, <2>2
<1>3. CASE Metadata \/ ReadTemplate
  <2>1. Prepared
    BY <1>3, Preparation
  <2>2. CASE worker' = "recv"
    <3>1. Done' = Done + 1 /\ Busy = 1 /\ Busy' = 0 /\ Waiting' = Waiting
      BY <1>0, <2>1, <2>2 DEF Prepared, Done, Busy, Waiting
    <3> QED
      BY <1>0, <1>k, <2>1, <3>1 DEF Prepared, Done
  <2>3. CASE worker' # "recv"
    BY <1>0, <1>k, <2>1, <2>3 DEF Prepared, Done, Busy, Waiting
  <2> QED
    BY <2>2, <2>3
<1>4. CASE SendOk
  <2>1. Done' = Done + 1 /\ Busy = 1 /\ Busy' = 0 /\ Waiting' = Waiting
    BY <1>4, <1>0 DEF SendOk, Done, Busy, Waiting
  <2> QED
    BY <1>4, <1>0, <1>k, <2>1 DEF SendOk, Done
<1>5. CASE SendTransient
  BY <1>5, <1>0, <1>k DEF SendTransient, Done, Busy, Waiting
<1>6. CASE Sleep
  BY <1>6, <1>0, <1>k DEF Sleep, Done, Busy, Waiting
<1>7. CASE SendFails
  <2>1. Done' = Done + 1 /\ Busy = 1 /\ Busy' = 0 /\ Waiting' = Waiting
    BY <1>7, <1>0 DEF SendFails, Done, Busy, Waiting
  <2> QED
    BY <1>7, <1>0, <1>k, <2>1 DEF SendFails, Done
<1>8. CASE ServerStops
  BY <1>8, <1>0, <1>k DEF ServerStops, Done, Busy, Waiting
<1>9. CASE SendShutdown
  <2>1. Waiting' = Waiting
    BY <1>9, <1>0, ShutdownAppended DEF SendShutdown, Waiting
  <2> QED
    BY <1>9, <1>0, <1>k, <2>1 DEF SendShutdown, Busy, Done
<1>10. CASE ShutdownTimesOut
  BY <1>10 DEF ShutdownTimesOut
<1>11. CASE Drained
  BY <1>11, <1>0, <1>k DEF Drained, Done, Busy, Waiting
<1>12. CASE EditTemplate
  BY <1>12, <1>0, <1>k DEF EditTemplate, Done, Busy, Waiting
<1>13. CASE UNCHANGED vars
  BY <1>13, <1>0, <1>k DEF vars, Done, Busy, Waiting
<1> QED
  BY <1>1, <1>2, <1>3, <1>4, <1>5, <1>6, <1>7, <1>8, <1>9, <1>10, <1>11,
     <1>12, <1>13 DEF Next, WorkerStep

\* Two texts one after the other.
LEMMA Joined ==
    ASSUME NEW S, NEW a \in Seq(S), NEW b \in Seq(S)
    PROVE  /\ a \o b \in Seq(S) /\ Len(a \o b) = Len(a) + Len(b)
           /\ \A i \in 1..Len(b) : (a \o b)[Len(a) + i] = b[i] /\ (a \o b)[i + Len(a)] = b[i]
OBVIOUS

\* A stretch of a text that agrees with another text letter by letter is it.
LEMMA Window ==
    ASSUME NEW S, NEW a \in Seq(S), NEW b \in Seq(S), NEW k \in Nat,
           k + 2 + Len(b) <= Len(a),
           \A i \in 1..Len(b) : a[k + 2 + i] = b[i]
    PROVE  SubSeq(a, k + 3, k + 2 + Len(b)) = b
<1> DEFINE w == SubSeq(a, k + 3, k + 2 + Len(b))
<1>1. Len(b) \in Nat /\ Len(a) \in Nat
  OBVIOUS
<1>2. w \in Seq(S) /\ Len(w) = Len(b)
  BY <1>1
<1>3. ASSUME NEW i \in 1..Len(b) PROVE w[i] = b[i]
  <2>1. w[i] = a[(k + 3) + i - 1] /\ (k + 3) + i - 1 = k + 2 + i
    BY <1>1
  <2> QED
    BY <2>1
<1> HIDE DEF w
<1>4. w = b
  BY <1>2, <1>3
<1> QED
  BY <1>4 DEF w

\* A set of numbers has a least one.
LEMMA LeastNumber ==
    ASSUME NEW T, T \subseteq Nat, T # {}
    PROVE  \E i \in T : \A j \in T : i <= j
<1> DEFINE R == OpToRel(<, Nat)
<1>1. PICK i \in T : \A j \in T : ~(<<j, i>> \in R)
  <2> HIDE DEF R
  <2>1. IsWellFoundedOn(R, Nat)
    BY NatLessThanWellFounded DEF R
  <2> QED
    BY <2>1, WFMin
<1>2. ASSUME NEW j \in T
      PROVE  i <= j
  <2>1. ASSUME j < i PROVE <<j, i>> \in R
    <3>1. <<j, i>> \in Nat \X Nat
      OBVIOUS
    <3>2. <<j, i>>[1] < <<j, i>>[2]
      BY <2>1
    <3> QED
      BY <3>1, <3>2, Zenon DEF OpToRel
  <2>2. ~(j < i)
    BY <1>1, <2>1
  <2> QED
    BY <2>2
<1> QED
  BY <1>2

\* Induction over the characters of a text, for a set of positions.
LEMMA TextInduction ==
    ASSUME NEW n \in Nat, NEW T, 0 \in T,
           \A i \in 0..(n - 1) : i \in T => i + 1 \in T
    PROVE  \A i \in 0..n : i \in T
<1> DEFINE missing == {i \in 0..n : i \notin T}
<1> SUFFICES ASSUME missing # {} PROVE FALSE
  OBVIOUS
<1>1. PICK i \in missing : \A j \in missing : i <= j
  <2>1. missing \subseteq Nat
    OBVIOUS
  <2> HIDE DEF missing
  <2> QED
    BY <2>1, LeastNumber
<1>2. i # 0 /\ i - 1 \in 0..(n - 1) /\ (i - 1) + 1 = i
  OBVIOUS
<1>3. i - 1 \in T
  BY <1>1, <1>2
<1> QED
  BY <1>2, <1>3

\* The state of render_template before the first character.
Blank == [out |-> <<>>, open |-> FALSE, name |-> <<>>]

\* f is what the first m characters come to, as FilledUpTo describes it.
Fills(n, t, f, m) ==
    f = [i \in 0..m |-> IF i = 0 THEN Blank ELSE Fill(n, f[i - 1], t[i])]

\* There is such a function.
LEMMA FilledExists ==
    ASSUME NEW n, NEW t \in Seq(Chars)
    PROVE  \E f : Fills(n, t, f, Len(t))
<1> DEFINE e == Len(t)
           Upto(f, m) == f = [i \in 0..m |-> IF i = 0 THEN Blank ELSE Fill(n, f[i - 1], t[i])]
           T == {m \in 0..e : \E f : Upto(f, m)}
<1>1. e \in Nat
  OBVIOUS
<1>2. 0 \in T
  <2>1. Upto([i \in 0..0 |-> Blank], 0)
    OBVIOUS
  <2> HIDE DEF Upto
  <2> QED
    BY <1>1, <2>1
<1>3. ASSUME NEW m \in 0..(e - 1), m \in T PROVE m + 1 \in T
  <2>1. PICK f : Upto(f, m)
    BY <1>3
  <2> DEFINE g == [i \in 0..(m + 1) |-> IF i = m + 1 THEN Fill(n, f[m], t[m + 1]) ELSE f[i]]
  <2>2. ASSUME NEW i \in 0..(m + 1)
        PROVE  g[i] = IF i = 0 THEN Blank ELSE Fill(n, g[i - 1], t[i])
    <3>1. CASE i = m + 1
      <4>1. g[i] = Fill(n, f[m], t[i]) /\ g[i - 1] = f[m]
        BY <1>1, <3>1
      <4> QED
        BY <1>1, <3>1, <4>1
    <3>2. CASE i # m + 1
      <4>1. i \in 0..m /\ g[i] = f[i]
        BY <1>1, <3>2
      <4>2. i # 0 => g[i - 1] = f[i - 1]
        BY <1>1, <4>1
      <4>3. f[i] = IF i = 0 THEN Blank ELSE Fill(n, f[i - 1], t[i])
        BY <2>1, <4>1
      <4> QED
        BY <4>1, <4>2, <4>3
    <3> QED
      BY <3>1, <3>2
  <2>3. Upto(g, m + 1)
    BY <2>2
  <2> HIDE DEF Upto, g
  <2> QED
    BY <1>1, <2>3
<1>4. e \in T
  <2> HIDE DEF T, e
  <2>1. \A i \in 0..(e - 1) : i \in T => i + 1 \in T
    BY <1>3
  <2>2. \A i \in 0..e : i \in T
    BY <1>1, <1>2, <2>1, TextInduction
  <2> QED
    BY <1>1, <2>2
<1> QED
  BY <1>4 DEF Fills

\* FilledUpTo satisfies its own equation.
LEMMA FilledEquation ==
    ASSUME NEW n, NEW t \in Seq(Chars)
    PROVE  \A i \in 0..Len(t) :
              FilledUpTo(n, t)[i] = IF i = 0 THEN Blank ELSE Fill(n, FilledUpTo(n, t)[i - 1], t[i])
<1> DEFINE f == FilledUpTo(n, t)
           g == [i \in 0..Len(t) |-> IF i = 0 THEN Blank ELSE Fill(n, f[i - 1], t[i])]
<1>1. \E h : Fills(n, t, h, Len(t))
  BY FilledExists
<1>2. f = CHOOSE h : Fills(n, t, h, Len(t))
  BY DEF FilledUpTo, Blank, Fills
<1>3. Fills(n, t, f, Len(t))
  <2> HIDE DEF f
  <2> QED
    BY <1>1, <1>2
<1>4. f = g
  BY <1>3 DEF Fills
<1>5. \A i \in 0..Len(t) : g[i] = IF i = 0 THEN Blank ELSE Fill(n, f[i - 1], t[i])
  OBVIOUS
<1> HIDE DEF f, g
<1> QED
  BY <1>4, <1>5 DEF f

\* A sequence over a set is one over a larger set.
LEMMA MoreChars ==
    ASSUME NEW S, NEW T, S \subseteq T, NEW t \in Seq(S)
    PROVE  t \in Seq(T)
OBVIOUS

\* The fields of a notification are texts.
LEMMA FieldsAreTexts ==
    ASSUME NEW n \in Notifications, NEW x \in DOMAIN Context[n]
    PROVE  Context[n][x] \in Seq(Chars)
<1>1. Context[n][x] \in Seq(STRING)
  BY MessengerAssumptions
<1>2. STRING \subseteq Chars
  BY DEF Chars
<1> QED
  BY <1>1, <1>2, MoreChars

\* A text with something behind it, and the text that something is.
LEMMA OccursInFront ==
    ASSUME NEW S, NEW a \in Seq(S), NEW b \in Seq(S), NEW part \in Seq(S), Occurs(part, a)
    PROVE  Occurs(part, a \o b)
<1>1. PICK i \in 1..Len(a) - Len(part) + 1 : SubSeq(a, i, i + Len(part) - 1) = part
  BY DEF Occurs
<1>2. Len(a) \in Nat /\ Len(b) \in Nat /\ Len(part) \in Nat /\ Len(a \o b) = Len(a) + Len(b)
  OBVIOUS
<1>3. i \in 1..Len(a \o b) - Len(part) + 1
  BY <1>2
<1>4. SubSeq(a \o b, i, i + Len(part) - 1) = SubSeq(a, i, i + Len(part) - 1)
  <2>1. \A k \in i..(i + Len(part) - 1) : k \in 1..Len(a) /\ (a \o b)[k] = a[k]
    BY <1>2
  <2> DEFINE c == a \o b
  <2>2. c \in Seq(S) /\ Len(a) <= Len(c)
    BY <1>2
  <2>3. \A k \in i..(i + Len(part) - 1) : c[k] = a[k]
    BY <2>1
  <2> HIDE DEF c
  <2>4. SubSeq(c, i, i + Len(part) - 1) = SubSeq(a, i, i + Len(part) - 1)
    BY <1>2, <2>2, <2>3
  <2> QED
    BY <2>4 DEF c
<1> QED
  BY <1>1, <1>3, <1>4 DEF Occurs

\* What is put at the end occurs.
LEMMA OccursAtEnd ==
    ASSUME NEW S, NEW a \in Seq(S), NEW b \in Seq(S)
    PROVE  Occurs(b, a \o b)
<1> DEFINE c == a \o b
<1>1. /\ Len(a) \in Nat /\ Len(b) \in Nat /\ c \in Seq(S) /\ Len(c) = Len(a) + Len(b)
      /\ \A i \in 1..Len(b) : c[Len(a) + i] = b[i]
  BY Joined
<1> HIDE DEF c
<1> DEFINE w == SubSeq(c, Len(a) + 1, Len(a) + 1 + Len(b) - 1)
<1>2. w \in Seq(S) /\ Len(w) = Len(b)
  BY <1>1
<1>3. ASSUME NEW i \in 1..Len(b) PROVE w[i] = b[i]
  <2>1. w[i] = c[(Len(a) + 1) + i - 1] /\ (Len(a) + 1) + i - 1 = Len(a) + i
    BY <1>1
  <2> QED
    BY <1>1, <2>1
<1>4. w = b
  <2> HIDE DEF w
  <2> QED
    BY <1>2, <1>3
<1>5. Len(a) + 1 \in 1..Len(c) - Len(b) + 1
  BY <1>1
<1> QED
  BY <1>4, <1>5 DEF Occurs, c, w

\* The line that ends a cut text is complete, however long the text was, and
\* the text keeps within the limit: truncate_text counts the line before it cuts.
THEOREM CutTextEndsWithUrl ==
    ASSUME NEW n \in Notifications, NEW message \in Seq(Chars),
           Len(message) > MaxTextChars, Len(Suffix(n)) <= MaxTextChars
    PROVE  /\ Len(TruncateText(n, message)) = MaxTextChars
           /\ Occurs(ReportUrl(n), TruncateText(n, message))
<1> DEFINE url == ReportUrl(n)
           cut == TruncateText(n, message)
           kept == MaxTextChars - Len(Suffix(n))
<1>a. "\n" \in Chars /\ "Report: " \in Chars
  BY DEF Chars
<1>b. message \in Seq(Chars)
  OBVIOUS
<1>1. /\ url \in Seq(Chars) /\ MaxTextChars \in Nat /\ Suffix(n) \in Seq(Chars)
      /\ Len(Suffix(n)) = Len(url) + 2
      /\ \A i \in 1..Len(url) : Suffix(n)[i + 2] = url[i]
  <2>1. url \in Seq(Chars) /\ MaxTextChars \in Nat
    BY FieldsAreTexts, MessengerAssumptions DEF ReportUrl
  <2> DEFINE line == <<"\n", "Report: ">>
  <2>2. line \in Seq(Chars) /\ Len(line) = 2
    <3>1. ASSUME NEW S, NEW a \in S, NEW b \in S
          PROVE  <<a, b>> \in Seq(S) /\ Len(<<a, b>>) = 2
      OBVIOUS
    <3> QED
      BY <1>a, <3>1
  <2>3. Suffix(n) = line \o url
    BY DEF Suffix
  <2> HIDE DEF url, line
  <2>4. /\ line \o url \in Seq(Chars) /\ Len(line \o url) = Len(line) + Len(url)
        /\ \A i \in 1..Len(url) : (line \o url)[i + Len(line)] = url[i]
    <3>1. line \in Seq(Chars) /\ url \in Seq(Chars)
      BY <2>1, <2>2
    <3> QED
      BY <3>1, Joined
  <2>5. Len(url) \in Nat
    BY <2>1
  <2> QED
    BY <2>1, <2>2, <2>3, <2>4, <2>5
<1> HIDE DEF url
<1>2. kept \in Nat /\ kept <= Len(message)
  BY <1>1, <1>b
<1>3. cut = SubSeq(message, 1, kept) \o Suffix(n)
  <2>1. CASE Len(Suffix(n)) >= MaxTextChars
    <3>1. Len(Suffix(n)) = MaxTextChars /\ kept = 0
      BY <1>1, <2>1
    <3>2. cut = SubSeq(Suffix(n), 1, MaxTextChars)
      BY <1>1, <1>b, <2>1 DEF TruncateText
    <3>3. SubSeq(Suffix(n), 1, Len(Suffix(n))) = Suffix(n)
      BY <1>1
    <3>4. SubSeq(message, 1, 0) = <<>> /\ <<>> \o Suffix(n) = Suffix(n)
      BY <1>1, <1>b
    <3> QED
      BY <3>1, <3>2, <3>3, <3>4
  <2>2. CASE ~(Len(Suffix(n)) >= MaxTextChars)
    BY <1>1, <1>b, <2>2 DEF TruncateText
  <2> QED
    BY <2>1, <2>2
<1>4. SubSeq(message, 1, kept) \in Seq(Chars) /\ Len(SubSeq(message, 1, kept)) = kept
  BY <1>2, <1>b
<1> HIDE DEF cut, kept
<1>5. /\ cut \in Seq(Chars) /\ Len(cut) = kept + Len(Suffix(n))
      /\ \A i \in 1..Len(Suffix(n)) : cut[kept + i] = Suffix(n)[i]
  <2> DEFINE before == SubSeq(message, 1, kept)
             line == Suffix(n)
  <2>1. before \in Seq(Chars) /\ line \in Seq(Chars) /\ Len(before) = kept /\ cut = before \o line
    BY <1>1, <1>3, <1>4
  <2> HIDE DEF before, line
  <2>2. /\ before \o line \in Seq(Chars) /\ Len(before \o line) = Len(before) + Len(line)
        /\ \A i \in 1..Len(line) : (before \o line)[Len(before) + i] = line[i]
    <3>1. before \in Seq(Chars) /\ line \in Seq(Chars)
      BY <2>1
    <3> QED
      BY <3>1, Joined
  <2>3. /\ cut \in Seq(Chars) /\ Len(cut) = kept + Len(line)
        /\ \A i \in 1..Len(line) : cut[kept + i] = line[i]
    BY <2>1, <2>2
  <2> QED
    BY <2>3 DEF line
<1>6. Len(cut) = MaxTextChars
  BY <1>1, <1>2, <1>5 DEF kept
<1>7. SubSeq(cut, kept + 3, kept + 2 + Len(url)) = url
  <2>1. \A i \in 1..Len(url) : cut[kept + 2 + i] = url[i]
    BY <1>1, <1>2, <1>5
  <2>2. /\ url \in Seq(Chars) /\ Len(url) \in Nat /\ cut \in Seq(Chars)
        /\ kept \in Nat /\ kept + 2 + Len(url) <= Len(cut)
    BY <1>1, <1>2, <1>5
  <2> QED
    BY <2>1, <2>2, Window
<1>8. Occurs(url, cut)
  <2>1. kept + 3 \in 1..Len(cut) - Len(url) + 1
    BY <1>1, <1>2, <1>5
  <2>2. (kept + 3) + Len(url) - 1 = kept + 2 + Len(url)
    BY <1>1, <1>2
  <2>3. SubSeq(cut, kept + 3, (kept + 3) + Len(url) - 1) = url
    BY <1>7, <2>2
  <2> QED
    BY <2>1, <2>3 DEF Occurs
<1> QED
  BY <1>6, <1>8 DEF url, cut
------------------------------------------------------------------------------
(* What render_template makes of a template that places the URL.             *)

Fillings == [out : Seq(Chars), open : BOOLEAN, name : Seq(Chars)]

\* A brace that is open was opened at some place and not closed since.
Opened(t, i) == \E j \in 1..i : t[j] = "{" /\ \A k \in j..i : t[k] # "}"

\* What is known after i characters.
FillInv(n, t, i) ==
    LET sofar == FilledUpTo(n, t)[i] IN
    /\ sofar \in Fillings
    /\ sofar.open => Opened(t, i)
    /\ ~sofar.open => sofar.name = <<>>

\* One character more at the end of a text.
LEMMA OneMore ==
    ASSUME NEW S, NEW a \in Seq(S), NEW c \in S
    PROVE  <<c>> \in Seq(S) /\ Append(a, c) \in Seq(S) /\ Append(a, c) = a \o <<c>>
OBVIOUS

\* The shortest texts.
LEMMA ShortTexts ==
    ASSUME NEW S
    PROVE  <<>> \in Seq(S) /\ \A c \in S : <<c>> \in Seq(S)
OBVIOUS

\* What a closed brace is replaced by is a text.
LEMMA FilledIsText ==
    ASSUME NEW n \in Notifications, NEW name \in Seq(Chars)
    PROVE  Filled(n, name) \in Seq(Chars)
<1>1. "{" \in Chars /\ "}" \in Chars
  BY DEF Chars
<1>2. <<"{">> \in Seq(Chars) /\ <<"}">> \in Seq(Chars)
  BY <1>1, OneMore
<1>3. <<"{">> \o name \o <<"}">> \in Seq(Chars)
  <2>1. <<"{">> \o name \in Seq(Chars)
    BY <1>2, Joined
  <2> QED
    BY <1>2, <2>1, Joined
<1> QED
  BY <1>3, FieldsAreTexts DEF Filled

\* The parts of a state of render_template.
LEMMA FillingParts ==
    ASSUME NEW sofar \in Fillings
    PROVE  sofar.out \in Seq(Chars) /\ sofar.open \in BOOLEAN /\ sofar.name \in Seq(Chars)
BY DEF Fillings

\* A brace is closed.
LEMMA FillCloses ==
    ASSUME NEW n \in Notifications, NEW sofar \in Fillings, sofar.open
    PROVE  /\ Fill(n, sofar, "}") \in Fillings
           /\ Fill(n, sofar, "}").out = sofar.out \o Filled(n, sofar.name)
           /\ Fill(n, sofar, "}").open = FALSE
           /\ Fill(n, sofar, "}").name = <<>>
<1> DEFINE out == sofar.out \o Filled(n, sofar.name)
           next == Fill(n, sofar, "}")
<1>1. out \in Seq(Chars)
  <2>1. Filled(n, sofar.name) \in Seq(Chars) /\ sofar.out \in Seq(Chars)
    BY FillingParts, FilledIsText
  <2> QED
    BY <2>1, Joined
<1>2. next = [out |-> out, open |-> FALSE, name |-> <<>>]
  BY DEF Fill
<1>3. <<>> \in Seq(Chars)
  OBVIOUS
<1> HIDE DEF out, next
<1>4. next \in Fillings /\ next.out = out /\ next.open = FALSE /\ next.name = <<>>
  BY <1>1, <1>2, <1>3 DEF Fillings
<1> QED
  BY <1>4 DEF out, next

\* A character of a placeholder's name.
LEMMA FillNames ==
    ASSUME NEW n \in Notifications, NEW sofar \in Fillings, sofar.open, NEW c \in Chars, c # "}"
    PROVE  /\ Fill(n, sofar, c) \in Fillings
           /\ Fill(n, sofar, c).out = sofar.out
           /\ Fill(n, sofar, c).open = TRUE
           /\ Fill(n, sofar, c).name = Append(sofar.name, c)
<1> DEFINE next == Fill(n, sofar, c)
<1>1. next = [sofar EXCEPT !.name = Append(@, c)]
  BY DEF Fill
<1>2. Append(sofar.name, c) \in Seq(Chars) /\ sofar.open = TRUE
  BY FillingParts, OneMore
<1>3. next \in Fillings /\ next.out = sofar.out /\ next.open = TRUE /\ next.name = Append(sofar.name, c)
  BY <1>1, <1>2 DEF Fillings
<1> QED
  BY <1>3

\* A brace is opened.
LEMMA FillOpens ==
    ASSUME NEW n \in Notifications, NEW sofar \in Fillings, ~sofar.open
    PROVE  /\ Fill(n, sofar, "{") \in Fillings
           /\ Fill(n, sofar, "{").out = sofar.out
           /\ Fill(n, sofar, "{").open = TRUE
           /\ Fill(n, sofar, "{").name = sofar.name
<1> DEFINE next == Fill(n, sofar, "{")
<1>1. next = [sofar EXCEPT !.open = TRUE]
  BY DEF Fill
<1>2. next \in Fillings /\ next.out = sofar.out /\ next.open = TRUE /\ next.name = sofar.name
  BY <1>1 DEF Fillings
<1> QED
  BY <1>2

\* Any other character is copied.
LEMMA FillCopies ==
    ASSUME NEW n \in Notifications, NEW sofar \in Fillings, ~sofar.open, NEW c \in Chars, c # "{"
    PROVE  /\ Fill(n, sofar, c) \in Fillings
           /\ Fill(n, sofar, c).out = Append(sofar.out, c)
           /\ Fill(n, sofar, c).open = FALSE
           /\ Fill(n, sofar, c).name = sofar.name
<1> DEFINE next == Fill(n, sofar, c)
<1>1. next = [sofar EXCEPT !.out = Append(@, c)]
  BY DEF Fill
<1>2. Append(sofar.out, c) \in Seq(Chars) /\ sofar.open = FALSE
  BY FillingParts, OneMore
<1>3. next \in Fillings /\ next.out = Append(sofar.out, c) /\ next.open = FALSE /\ next.name = sofar.name
  BY <1>1, <1>2 DEF Fillings
<1> QED
  BY <1>3

\* A brace that is open stays open until it is closed.
LEMMA StaysOpened ==
    ASSUME NEW t \in Seq(Chars), NEW i \in Nat, i + 1 <= Len(t)
    PROVE  /\ Opened(t, i) /\ t[i + 1] # "}" => Opened(t, i + 1)
           /\ t[i + 1] = "{" => Opened(t, i + 1)
<1>1. ASSUME Opened(t, i), t[i + 1] # "}" PROVE Opened(t, i + 1)
  <2>1. PICK j \in 1..i : t[j] = "{" /\ \A k \in j..i : t[k] # "}"
    BY <1>1 DEF Opened
  <2>2. j \in 1..(i + 1) /\ \A k \in j..(i + 1) : k \in j..i \/ k = i + 1
    OBVIOUS
  <2>3. \A k \in j..(i + 1) : t[k] # "}"
    BY <1>1, <2>1, <2>2
  <2> QED
    BY <2>1, <2>2, <2>3 DEF Opened
<1>2. ASSUME t[i + 1] = "{" PROVE Opened(t, i + 1)
  <2>1. i + 1 \in 1..(i + 1) /\ \A k \in (i + 1)..(i + 1) : k = i + 1
    OBVIOUS
  <2>2. \A k \in (i + 1)..(i + 1) : t[k] # "}"
    BY <1>2, <2>1
  <2> QED
    BY <1>2, <2>1, <2>2 DEF Opened
<1> QED
  BY <1>1, <1>2

\* After every character the state is as FillInv says.
LEMMA FillInvariant ==
    ASSUME NEW n \in Notifications, NEW t \in Seq(Chars)
    PROVE  \A i \in 0..Len(t) : FillInv(n, t, i)
<1> DEFINE e == Len(t)
           f == FilledUpTo(n, t)
           T == {i \in 0..e : FillInv(n, t, i)}
<1>1. e \in Nat
  OBVIOUS
<1>2. \A i \in 0..e : f[i] = IF i = 0 THEN Blank ELSE Fill(n, f[i - 1], t[i])
  BY FilledEquation
<1>3. 0 \in T
  <2>1. f[0] = Blank /\ 0 \in 0..e
    BY <1>1, <1>2
  <2>2. Blank \in Fillings /\ Blank.open = FALSE /\ Blank.name = <<>>
    BY DEF Blank, Fillings
  <2> HIDE DEF e
  <2> QED
    BY <2>1, <2>2 DEF FillInv
<1>4. ASSUME NEW i \in 0..(e - 1), i \in T PROVE i + 1 \in T
  <2> DEFINE sofar == f[i]
             c == t[i + 1]
             next == f[i + 1]
  <2>1. i + 1 \in 0..e /\ i + 1 # 0 /\ (i + 1) - 1 = i /\ c \in Chars /\ i \in Nat
    BY <1>1
  <2>2. next = Fill(n, sofar, c)
    BY <1>2, <2>1
  <2>3. sofar \in Fillings /\ (sofar.open => Opened(t, i)) /\ (~sofar.open => sofar.name = <<>>)
    BY <1>4 DEF FillInv
  <2>4. /\ Opened(t, i) /\ c # "}" => Opened(t, i + 1)
        /\ c = "{" => Opened(t, i + 1)
    <3>1. i \in Nat /\ i + 1 <= Len(t)
      BY <2>1
    <3> QED
      BY <3>1, StaysOpened
  <2> HIDE DEF sofar, c, next
  <2> DEFINE Goal == next \in Fillings /\ (next.open => Opened(t, i + 1)) /\ (~next.open => next.name = <<>>)
  <2>5. ASSUME sofar.open, c = "}" PROVE Goal
    <3>1. next \in Fillings /\ next.open = FALSE /\ next.name = <<>>
      BY <2>2, <2>3, <2>5, FillCloses
    <3> QED
      BY <3>1
  <2>6. ASSUME sofar.open, c # "}" PROVE Goal
    <3>1. next \in Fillings /\ next.open = TRUE
      BY <2>1, <2>2, <2>3, <2>6, FillNames
    <3> QED
      BY <2>3, <2>4, <2>6, <3>1
  <2>7. ASSUME ~sofar.open, c = "{" PROVE Goal
    <3>1. next \in Fillings /\ next.open = TRUE
      BY <2>2, <2>3, <2>7, FillOpens
    <3> QED
      BY <2>4, <2>7, <3>1
  <2>8. ASSUME ~sofar.open, c # "{" PROVE Goal
    <3>1. next \in Fillings /\ next.open = FALSE /\ next.name = sofar.name
      BY <2>1, <2>2, <2>3, <2>8, FillCopies
    <3> QED
      BY <2>3, <2>8, <3>1
  <2>9. Goal
    <3> HIDE DEF Goal
    <3> QED
      BY <2>5, <2>6, <2>7, <2>8
  <2> QED
    BY <2>1, <2>9 DEF FillInv, next
<1>5. \A i \in 0..e : i \in T
  <2> HIDE DEF T, e
  <2>1. \A i \in 0..(e - 1) : i \in T => i + 1 \in T
    BY <1>4
  <2> QED
    BY <1>1, <1>3, <2>1, TextInduction
<1> QED
  BY <1>5

\* Three characters of a text.
LEMMA ThreeChars ==
    ASSUME NEW S, NEW t \in Seq(S), NEW p \in Nat, 1 <= p, p + 2 <= Len(t)
    PROVE  /\ SubSeq(t, p, p + 2)[1] = t[p]
           /\ SubSeq(t, p, p + 2)[2] = t[p + 1]
           /\ SubSeq(t, p, p + 2)[3] = t[p + 2]
OBVIOUS

\* The placeholder stands at p, and no brace is open there.
PlacesUrlAt(t, p) ==
    /\ SubSeq(t, p, p + 2) = UrlPlaceholder
    /\ \A j \in 1..p-1 : t[j] = "{" => \E k \in j..p-1 : t[k] = "}"

\* Where the placeholder stands outside of braces, the URL is filled in.
LEMMA UrlIsFilledIn ==
    ASSUME NEW n \in Notifications, NEW t \in Seq(Chars),
           NEW p \in Nat, 1 <= p, p + 2 <= Len(t), PlacesUrlAt(t, p)
    PROVE  Occurs(ReportUrl(n), FilledUpTo(n, t)[p + 2].out)
<1> DEFINE f == FilledUpTo(n, t)
           url == ReportUrl(n)
<1>1. /\ Len(t) \in Nat /\ p - 1 \in 0..Len(t) /\ p \in 0..Len(t)
      /\ p + 1 \in 0..Len(t) /\ p + 2 \in 0..Len(t)
  OBVIOUS
<1>2. t[p] = "{" /\ t[p + 1] = "report_url" /\ t[p + 2] = "}"
  <2> DEFINE w == SubSeq(t, p, p + 2)
  <2>1. w[1] = t[p] /\ w[2] = t[p + 1] /\ w[3] = t[p + 2]
    BY ThreeChars
  <2>2. w = <<"{", "report_url", "}">>
    BY DEF PlacesUrlAt, UrlPlaceholder
  <2> HIDE DEF w
  <2>3. w[1] = "{" /\ w[2] = "report_url" /\ w[3] = "}"
    BY <2>2
  <2> QED
    BY <2>1, <2>3
<1>3. "{" \in Chars /\ "}" \in Chars /\ "report_url" \in Chars
  BY DEF Chars
<1>4. \A i \in 0..Len(t) : f[i] = IF i = 0 THEN Blank ELSE Fill(n, f[i - 1], t[i])
  BY FilledEquation
<1>5. /\ f[p] = Fill(n, f[p - 1], "{")
      /\ f[p + 1] = Fill(n, f[p], "report_url")
      /\ f[p + 2] = Fill(n, f[p + 1], "}")
  <2>1. p # 0 /\ p + 1 # 0 /\ p + 2 # 0 /\ (p + 1) - 1 = p /\ (p + 2) - 1 = p + 1
    OBVIOUS
  <2> HIDE DEF f
  <2> QED
    BY <1>1, <1>2, <1>4, <2>1
<1>6. FillInv(n, t, p - 1)
  BY <1>1, FillInvariant
<1>7. ~Opened(t, p - 1)
  BY DEF Opened, PlacesUrlAt
<1>8. f[p - 1] \in Fillings /\ ~f[p - 1].open /\ f[p - 1].name = <<>>
  BY <1>6, <1>7 DEF FillInv
<1> HIDE DEF f, url
<1>9. f[p] \in Fillings /\ f[p].open /\ f[p].name = <<>>
  <2> DEFINE a == f[p - 1]
             b == f[p]
  <2>1. a \in Fillings /\ ~a.open /\ a.name = <<>> /\ b = Fill(n, a, "{")
    BY <1>5, <1>8
  <2> HIDE DEF a, b
  <2>2. b \in Fillings /\ b.open = TRUE /\ b.name = a.name
    BY <2>1, FillOpens
  <2>3. b \in Fillings /\ b.open /\ b.name = <<>>
    BY <2>1, <2>2
  <2> QED
    BY <2>3 DEF b
<1>10. f[p + 1] \in Fillings /\ f[p + 1].open /\ f[p + 1].name = <<"report_url">>
  <2> DEFINE a == f[p]
             b == f[p + 1]
  <2>1. a \in Fillings /\ a.open /\ a.name = <<>> /\ b = Fill(n, a, "report_url")
    BY <1>5, <1>9
  <2> HIDE DEF a, b
  <2>2. b \in Fillings /\ b.open = TRUE /\ b.name = Append(a.name, "report_url")
    BY <1>3, <2>1, FillNames
  <2>3. Append(<<>>, "report_url") = <<"report_url">>
    OBVIOUS
  <2>4. b \in Fillings /\ b.open /\ b.name = <<"report_url">>
    BY <2>1, <2>2, <2>3
  <2> QED
    BY <2>4 DEF b
<1>11. f[p + 2].out = f[p + 1].out \o url /\ f[p + 1].out \in Seq(Chars)
  <2> DEFINE a == f[p + 1]
             b == f[p + 2]
  <2>1. a \in Fillings /\ a.open /\ a.name = <<"report_url">> /\ b = Fill(n, a, "}")
    BY <1>5, <1>10
  <2> HIDE DEF a, b
  <2>2. b.out = a.out \o Filled(n, a.name)
    BY <2>1, FillCloses
  <2>3. Filled(n, <<"report_url">>) = url
    <3>1. "report_url" \in DOMAIN Context[n]
      BY MessengerAssumptions
    <3> QED
      BY <3>1 DEF Filled, url, ReportUrl
  <2>4. b.out = a.out \o url /\ a.out \in Seq(Chars)
    BY <2>1, <2>2, <2>3 DEF Fillings
  <2> QED
    BY <2>4 DEF a, b
<1>12. url \in Seq(Chars)
  BY FieldsAreTexts, MessengerAssumptions DEF url, ReportUrl
<1>13. Occurs(url, f[p + 2].out)
  <2> DEFINE a == f[p + 1].out
  <2>1. a \in Seq(Chars) /\ f[p + 2].out = a \o url
    BY <1>11
  <2> HIDE DEF a
  <2> QED
    BY <1>12, <2>1, OccursAtEnd
<1> QED
  BY <1>13 DEF f, url

\* What is in the output stays there.
LEMMA OutputGrows ==
    ASSUME NEW n \in Notifications, NEW t \in Seq(Chars), NEW part \in Seq(Chars),
           NEW p \in 0..Len(t), Occurs(part, FilledUpTo(n, t)[p].out)
    PROVE  \A i \in p..Len(t) : Occurs(part, FilledUpTo(n, t)[i].out)
<1> DEFINE e == Len(t)
           f == FilledUpTo(n, t)
           T == {i \in 0..e : i < p \/ Occurs(part, f[i].out)}
<1>1. e \in Nat /\ p \in 0..e
  OBVIOUS
<1>2. \A i \in 0..e : f[i] = IF i = 0 THEN Blank ELSE Fill(n, f[i - 1], t[i])
  BY FilledEquation
<1>3. Occurs(part, f[p].out)
  OBVIOUS
<1>4. \A i \in 0..e : f[i] \in Fillings
  BY FillInvariant DEF FillInv
<1>5. \A i \in 1..e : t[i] \in Chars
  OBVIOUS
<1> HIDE DEF e, f
<1>6. 0 \in T
  BY <1>1, <1>3
<1>7. ASSUME NEW i \in 0..(e - 1), i \in T PROVE i + 1 \in T
  <2>1. i + 1 \in 0..e /\ i + 1 # 0 /\ (i + 1) - 1 = i /\ i \in 0..e /\ i + 1 \in 1..e
    BY <1>1
  <2>2. CASE i + 1 <= p
    BY <1>1, <1>3, <2>1, <2>2
  <2>3. CASE p <= i
    <3> DEFINE a == f[i]
               b == f[i + 1]
               c == t[i + 1]
    <3>1. a \in Fillings /\ c \in Chars /\ b = Fill(n, a, c) /\ Occurs(part, a.out)
      BY <1>1, <1>2, <1>4, <1>5, <1>7, <2>1, <2>3
    <3> HIDE DEF a, b, c
    <3>2. a.out \in Seq(Chars) /\ a.name \in Seq(Chars) /\ a.open \in BOOLEAN
      BY <3>1 DEF Fillings
    <3>3. \E more \in Seq(Chars) : b.out = a.out \o more
      <4>1. ASSUME a.open, c = "}"
            PROVE  \E more \in Seq(Chars) : b.out = a.out \o more
        <5>1. b.out = a.out \o Filled(n, a.name)
          BY <3>1, <4>1, FillCloses
        <5>2. Filled(n, a.name) \in Seq(Chars)
          BY <3>2, FilledIsText
        <5> QED
          BY <5>1, <5>2
      <4>2. ASSUME (a.open /\ c # "}") \/ (~a.open /\ c = "{")
            PROVE  \E more \in Seq(Chars) : b.out = a.out \o more
        <5>1. b.out = a.out
          <6>1. a.open /\ c # "}" => b.out = a.out
            BY <3>1, FillNames
          <6>2. ~a.open /\ c = "{" => b.out = a.out
            BY <3>1, FillOpens
          <6> QED
            BY <4>2, <6>1, <6>2
        <5>2. a.out = a.out \o <<>> /\ <<>> \in Seq(Chars)
          BY <3>2
        <5> QED
          BY <5>1, <5>2
      <4>3. ASSUME ~a.open, c # "{"
            PROVE  \E more \in Seq(Chars) : b.out = a.out \o more
        <5>1. b.out = Append(a.out, c)
          BY <3>1, <4>3, FillCopies
        <5>2. Append(a.out, c) = a.out \o <<c>> /\ <<c>> \in Seq(Chars)
          BY <3>1, <3>2, OneMore
        <5> QED
          BY <5>1, <5>2
      <4> QED
        BY <4>1, <4>2, <4>3
    <3>4. Occurs(part, b.out)
      <4>1. PICK more \in Seq(Chars) : b.out = a.out \o more
        BY <3>3
      <4>2. Occurs(part, a.out \o more)
        BY <3>1, <3>2, OccursInFront
      <4> QED
        BY <4>1, <4>2
    <3> QED
      BY <2>1, <3>4 DEF b
  <2> QED
    BY <1>1, <2>2, <2>3
<1>8. \A i \in 0..e : i \in T
  <2> HIDE DEF T
  <2>1. \A i \in 0..(e - 1) : i \in T => i + 1 \in T
    BY <1>7
  <2> QED
    BY <1>1, <1>6, <2>1, TextInduction
<1>9. \A i \in p..e : i \in 0..e /\ ~(i < p)
  BY <1>1
<1> QED
  BY <1>8, <1>9 DEF e, f

\* What is rendered is a text, and has what the output has.
LEMMA RenderedText ==
    ASSUME NEW n \in Notifications, NEW t \in Seq(Chars)
    PROVE  /\ RenderTemplate(n, t) \in Seq(Chars)
           /\ \A part \in Seq(Chars) : Occurs(part, FilledUpTo(n, t)[Len(t)].out)
                                          => Occurs(part, RenderTemplate(n, t))
<1> DEFINE end == FilledUpTo(n, t)[Len(t)]
           rest == IF end.open THEN <<"{">> \o end.name ELSE <<>>
<1>1. end \in Fillings
  <2>1. Len(t) \in 0..Len(t)
    OBVIOUS
  <2> QED
    BY <2>1, FillInvariant DEF FillInv
<1> HIDE DEF end
<1>2. end.out \in Seq(Chars) /\ end.name \in Seq(Chars) /\ end.open \in BOOLEAN
  BY <1>1, FillingParts
<1>3. rest \in Seq(Chars)
  <2>1. "{" \in Chars
    BY DEF Chars
  <2>2. <<"{">> \in Seq(Chars) /\ <<>> \in Seq(Chars)
    BY <2>1, ShortTexts
  <2>3. <<"{">> \o end.name \in Seq(Chars)
    BY <1>2, <2>2, Joined
  <2> QED
    BY <2>2, <2>3
<1>4. RenderTemplate(n, t) = end.out \o rest
  BY DEF RenderTemplate, end
<1> HIDE DEF rest
<1>5. end.out \o rest \in Seq(Chars)
  BY <1>2, <1>3, Joined
<1>6. \A part \in Seq(Chars) : Occurs(part, end.out) => Occurs(part, end.out \o rest)
  BY <1>2, <1>3, OccursInFront
<1> QED
  BY <1>4, <1>5, <1>6 DEF end

\* The message of a notification has the URL, filled in or appended.
LEMMA MessageHasUrl ==
    ASSUME NEW n \in Notifications, NEW t \in Seq(Chars)
    PROVE  /\ Render(n, t) \in Seq(Chars)
           /\ PlacesUrl(t) \/ ~Occurs(UrlPlaceholder, t) => Occurs(ReportUrl(n), Render(n, t))
<1> DEFINE rendered == RenderTemplate(n, t)
           newline == IF rendered = <<>> \/ rendered[Len(rendered)] = "\n" THEN <<>> ELSE <<"\n">>
           url == ReportUrl(n)
<1>1. rendered \in Seq(Chars)
  BY RenderedText
<1>2. url \in Seq(Chars)
  BY FieldsAreTexts, MessengerAssumptions DEF ReportUrl
<1>3. <<"\n">> \in Seq(Chars) /\ <<>> \in Seq(Chars) /\ <<"Report: ">> \in Seq(Chars)
  <2>1. "\n" \in Chars /\ "Report: " \in Chars
    BY DEF Chars
  <2> QED
    BY <2>1, ShortTexts
<1>4. Render(n, t) = IF Occurs(UrlPlaceholder, t) THEN rendered
                     ELSE rendered \o newline \o <<"Report: ">> \o url
  BY DEF Render
<1>5. newline \in Seq(Chars)
  BY <1>3
<1> HIDE DEF rendered, newline, url
<1>6. CASE ~Occurs(UrlPlaceholder, t)
  <2> DEFINE front == rendered \o newline \o <<"Report: ">>
  <2>1. rendered \o newline \in Seq(Chars)
    BY <1>1, <1>5, Joined
  <2>2. front \in Seq(Chars)
    BY <1>3, <2>1, Joined
  <2>3. Render(n, t) = front \o url
    BY <1>4, <1>6
  <2> HIDE DEF front
  <2>4. front \o url \in Seq(Chars) /\ Occurs(url, front \o url)
    BY <1>2, <2>2, Joined, OccursAtEnd
  <2> QED
    BY <2>3, <2>4 DEF url
<1>7. CASE Occurs(UrlPlaceholder, t)
  <2>1. Render(n, t) = rendered
    BY <1>4, <1>7
  <2>2. ASSUME PlacesUrl(t) PROVE Occurs(url, rendered)
    <3>1. PICK p \in 1..Len(t) - 2 : PlacesUrlAt(t, p)
      BY <2>2 DEF PlacesUrl, PlacesUrlAt
    <3>2. Len(t) \in Nat /\ p \in Nat /\ 1 <= p /\ p + 2 <= Len(t)
      <4>1. Len(t) \in Nat
        OBVIOUS
      <4> QED
        BY <4>1
    <3>3. Occurs(url, FilledUpTo(n, t)[p + 2].out)
      BY <3>1, <3>2, UrlIsFilledIn DEF url
    <3>4. p + 2 \in 0..Len(t) /\ Len(t) \in (p + 2)..Len(t)
      BY <3>2
    <3>5. Occurs(url, FilledUpTo(n, t)[Len(t)].out)
      BY <1>2, <3>3, <3>4, OutputGrows
    <3> QED
      BY <1>2, <3>5, RenderedText DEF rendered
  <2> QED
    BY <1>1, <1>7, <2>1, <2>2 DEF url
<1> QED
  BY <1>6, <1>7

\* No text is longer than the service accepts.
LEMMA TextIsCut ==
    ASSUME NEW n \in Notifications, NEW message \in Seq(Chars)
    PROVE  Len(TruncateText(n, message)) <= MaxTextChars
<1>1. MaxTextChars \in Nat /\ Len(message) \in Nat
  BY MessengerAssumptions
<1>2. Suffix(n) \in Seq(Chars)
  <2>1. ReportUrl(n) \in Seq(Chars)
    BY FieldsAreTexts, MessengerAssumptions DEF ReportUrl
  <2>2. "\n" \in Chars /\ "Report: " \in Chars
    BY DEF Chars
  <2>3. <<"\n", "Report: ">> \in Seq(Chars)
    <3>1. ASSUME NEW S, NEW a \in S, NEW b \in S PROVE <<a, b>> \in Seq(S)
      OBVIOUS
    <3> QED
      BY <2>2, <3>1
  <2> QED
    BY <2>1, <2>3, Joined DEF Suffix
<1>3. CASE Len(message) <= MaxTextChars
  BY <1>3 DEF TruncateText
<1>4. CASE Len(message) > MaxTextChars /\ Len(Suffix(n)) >= MaxTextChars
  <2>1. TruncateText(n, message) = SubSeq(Suffix(n), 1, MaxTextChars)
    BY <1>1, <1>4 DEF TruncateText
  <2>2. Len(SubSeq(Suffix(n), 1, MaxTextChars)) = MaxTextChars
    BY <1>1, <1>2, <1>4
  <2> QED
    BY <1>1, <2>1, <2>2
<1>5. CASE Len(message) > MaxTextChars /\ Len(Suffix(n)) < MaxTextChars
  BY <1>1, <1>2, <1>5, CutTextEndsWithUrl
<1> QED
  BY <1>1, <1>2, <1>3, <1>4, <1>5
------------------------------------------------------------------------------
\* A message is rendered from a version of the template that exists.
VersionInv ==
    /\ edition \in 0..MaxVersion
    /\ text \in 0..MaxVersion
    /\ cached # None => cached.version \in 0..MaxVersion

\* Every step keeps to the versions that exist.
LEMMA VersionStep == TypeOK /\ VersionInv /\ [Next]_vars => VersionInv'
<1> SUFFICES ASSUME TypeOK, VersionInv, [Next]_vars PROVE VersionInv'
  OBVIOUS
<1>0. MaxVersion \in Nat
  BY MessengerAssumptions
<1>k. ASSUME UNCHANGED <<edition, text, cached>> PROVE VersionInv'
  BY <1>k DEF VersionInv
<1>c. ASSUME NEW v \in 0..MaxVersion, Compose(v) PROVE text' \in 0..MaxVersion
  BY <1>c DEF Compose, Abandon, VersionInv
<1>r. ASSUME RenderFromCache PROVE text' \in 0..MaxVersion
  BY <1>r, <1>c DEF RenderFromCache, Abandon, VersionInv
<1>1. ASSUME NEW n \in Notifications, Notify(n) PROVE VersionInv'
  BY <1>1, <1>k DEF Notify
<1>2. CASE Receive
  BY <1>2, <1>k DEF Receive
<1>3. CASE Metadata
  <2>1. text' \in 0..MaxVersion
    BY <1>3, <1>c, <1>r DEF Metadata, Unchanged, VersionInv
  <2> QED
    BY <1>3, <2>1 DEF Metadata, VersionInv
<1>4. CASE ReadTemplate
  <2>1. CASE readable
    <3>1. /\ cached' = [version |-> edition, modified |-> seen] /\ Compose(edition)
          /\ UNCHANGED edition
      BY <1>4, <2>1 DEF ReadTemplate
    <3> QED
      BY <1>c, <3>1 DEF VersionInv
  <2>2. CASE ~readable
    BY <1>4, <1>r, <2>2 DEF ReadTemplate, VersionInv
  <2> QED
    BY <2>1, <2>2
<1>5. CASE SendOk \/ SendTransient \/ Sleep \/ SendFails
  BY <1>5, <1>k DEF SendOk, SendTransient, Sleep, SendFails
<1>6. CASE ServerStops \/ SendShutdown \/ ShutdownTimesOut \/ Drained
  BY <1>6, <1>k DEF ServerStops, SendShutdown, ShutdownTimesOut, Drained
<1>7. CASE EditTemplate
  BY <1>7, <1>0 DEF EditTemplate, VersionInv
<1>8. CASE UNCHANGED vars
  BY <1>8, <1>k DEF vars
<1> QED
  BY <1>1, <1>2, <1>3, <1>4, <1>5, <1>6, <1>7, <1>8 DEF Next, WorkerStep

------------------------------------------------------------------------------
\* The initial states satisfy every part of the inductive invariants.
LEMMA InitialStates ==
    Init => TypeOK /\ QueueInv /\ PayloadInv /\ SentInv /\ FreshInv /\ Accounted
<1> SUFFICES ASSUME Init
             PROVE  TypeOK /\ QueueInv /\ PayloadInv /\ SentInv /\ FreshInv /\ Accounted
  OBVIOUS
<1>1. TypeOK
  <2>1. IsFiniteSet({}) /\ <<>> \in Seq(Notifications \cup {Shutdown})
    BY FS_EmptySet
  <2>2. status \in Counters
    BY DEF Init, Counters
  <2> QED
    BY <2>1, <2>2 DEF Init, TypeOK
<1>2. QueueInv /\ PayloadInv /\ FreshInv
  BY DEF Init, QueueInv, PayloadInv, ToldOnce, Sending, FreshInv, TemplateIsFresh
<1>3. SentInv
  BY FS_EmptySet DEF Init, SentInv, Repeated, Sending
<1>4. Accounted
  <2>1. Cardinality({i \in DOMAIN queue : queue[i] # Shutdown}) = 0
    BY MessagesEmpty DEF Init, Messages
  <2> QED
    BY <2>1, FS_EmptySet DEF Init, Accounted, Pending
<1> QED
  BY <1>1, <1>2, <1>3, <1>4

\* The inductive invariant of the notifier.
LEMMA NotifierInvariant ==
    Spec => [](TypeOK /\ QueueInv /\ PayloadInv /\ SentInv /\ FreshInv /\ Accounted)
<1>1. TypeOK /\ QueueInv /\ PayloadInv /\ SentInv /\ FreshInv /\ Accounted /\ [Next]_vars
        => (TypeOK /\ QueueInv /\ PayloadInv /\ SentInv /\ FreshInv /\ Accounted)'
  BY TypeStep, QueueStep, PayloadStep, SentStep, FreshStep, AccountStep
<1> QED
  BY <1>1, InitialStates, PTL DEF Spec

\* Every notification is sent, failed, skipped or on its way, unless a
\* shutdown was cut short by its timeout.
THEOREM NothingIsLost == Spec => []Accounted
BY NotifierInvariant, PTL

\* No requester is told twice of one blocked download, however often the
\* answer of the service is lost.
THEOREM RequestersAreToldOnce == Spec => []ToldOnce
<1>1. PayloadInv => ToldOnce
  BY DEF PayloadInv
<1> QED
  BY <1>1, NotifierInvariant, PTL

\* No message counts as sent that the service took for a repetition.
THEOREM SentMessagesAreShown == Spec => []SentIsShown
<1>1. TypeOK /\ SentInv => SentIsShown
  <2> SUFFICES ASSUME TypeOK, SentInv PROVE SentIsShown
    OBVIOUS
  <2>1. status.sent \in Nat /\ Cardinality(shown) \in Nat /\ Repeated \in {0, 1}
    BY FS_CardinalityType DEF TypeOK, Counters, Repeated
  <2> QED
    BY <2>1 DEF SentInv, SentIsShown
<1> QED
  BY <1>1, NotifierInvariant, PTL

\* A message is rendered from what the template file said during its delivery,
\* however the file is edited between the two calls that look at it.
THEOREM TemplatesAreFresh == Spec => []TemplateIsFresh
<1>1. FreshInv => TemplateIsFresh
  BY DEF FreshInv
<1> QED
  BY <1>1, NotifierInvariant, PTL

\* Whatever the template, the texts of the fields and the limit are, every text
\* that is sent keeps within the limit, and has the complete report URL if the
\* template leaves the URL out or places it and the last line fits at all.
THEOREM UrlsAreKept == Spec => []UrlIsKept
<1>1. Init => VersionInv
  BY MessengerAssumptions DEF Init, VersionInv
<1>2. TypeOK /\ VersionInv /\ [Next]_vars => VersionInv'
  BY VersionStep
<1>3. TypeOK /\ QueueInv /\ VersionInv => UrlIsKept
  <2> SUFFICES ASSUME TypeOK, QueueInv, VersionInv, worker \in {"send", "sleep"}
               PROVE  LET template == Templates[text]
                          sent == TruncateText(current, Rendered[current][text])
                      IN  /\ Len(sent) <= MaxTextChars
                          /\ /\ PlacesUrl(template) \/ ~Occurs(UrlPlaceholder, template)
                             /\ Len(Suffix(current)) <= MaxTextChars
                             => Occurs(ReportUrl(current), sent)
    BY DEF UrlIsKept
  <2> DEFINE template == Templates[text]
             message == Rendered[current][text]
             sent == TruncateText(current, message)
  <2>1. current \in Notifications /\ text \in 0..MaxVersion
    BY DEF TypeOK, QueueInv, VersionInv
  <2>2. template \in Seq(Chars)
    <3>1. template \in Seq(STRING)
      BY <2>1, MessengerAssumptions
    <3>2. STRING \subseteq Chars
      BY DEF Chars
    <3> QED
      BY <3>1, <3>2, MoreChars
  <2>3. message = Render(current, template)
    BY <2>1 DEF Rendered
  <2> HIDE DEF template, message
  <2>4. /\ message \in Seq(Chars)
        /\ PlacesUrl(template) \/ ~Occurs(UrlPlaceholder, template) => Occurs(ReportUrl(current), message)
    BY <2>1, <2>2, <2>3, MessageHasUrl
  <2>5. Len(sent) <= MaxTextChars
    BY <2>1, <2>4, TextIsCut
  <2>6. ASSUME PlacesUrl(template) \/ ~Occurs(UrlPlaceholder, template),
               Len(Suffix(current)) <= MaxTextChars
        PROVE  Occurs(ReportUrl(current), sent)
    <3>1. MaxTextChars \in Nat /\ Len(message) \in Nat
      BY <2>4, MessengerAssumptions
    <3>2. CASE Len(message) <= MaxTextChars
      BY <2>4, <2>6, <3>2 DEF TruncateText
    <3>3. CASE Len(message) > MaxTextChars
      BY <2>1, <2>4, <2>6, <3>3, CutTextEndsWithUrl
    <3> QED
      BY <3>1, <3>2, <3>3
  <2> QED
    BY <2>5, <2>6 DEF template, message
<1> QED
  BY <1>1, <1>2, <1>3, NotifierInvariant, PTL DEF Spec
==============================================================================
