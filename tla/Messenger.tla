------------------------------ MODULE Messenger ------------------------------
(***************************************************************************)
(* Yandex Messenger delivery: the bounded queue between the handlers that  *)
(* deny a download and the one worker that tells the requester, the        *)
(* worker's template cache and retries, and the shutdown of the notifier.  *)
(*                                                                         *)
(* The template file is a version number that every edit raises; its       *)
(* modification time is taken to change with it.  The Messenger service is *)
(* external: a POST may reach it although the worker sees an error, and    *)
(* it shows one message for each payload_id.  MessageText says what a      *)
(* message reads.                                                          *)
(***************************************************************************)
EXTENDS Naturals, Sequences, FiniteSets, MessageText

CONSTANTS
    Notifications,     \* blocked downloads whose requester can be told
    QueueCapacity,     \* QUEUE_CAPACITY
    MaxSendAttempts,   \* MAX_SEND_ATTEMPTS
    MaxVersion,        \* bound: edits of the template file
    Templates,         \* what the file says in each version
    Shutdown, None

ASSUME MessengerAssumptions ==
    /\ QueueCapacity \in Nat \ {0}
    /\ MaxSendAttempts \in Nat \ {0}
    /\ MaxVersion \in Nat
    /\ MaxTextChars \in Nat
    /\ Templates \in [0..MaxVersion -> Seq(STRING)]
    /\ DOMAIN Context = Notifications
    /\ \A n \in Notifications :
           /\ "report_url" \in DOMAIN Context[n]
           /\ \A name \in DOMAIN Context[n] : Context[n][name] \in Seq(STRING)
    /\ Shutdown \notin Notifications /\ None \notin Notifications

VARIABLES
    phase,         \* the notifier: serving, signal, drain, drained or aborted
    notified,      \* the notifications handed to notify_blocked
    queue,         \* the channel
    worker,        \* what the worker does or waits for
    current,       \* the notification it delivers
    attempt, payload,
    sequence,      \* payload_sequence
    status,        \* the counters of DeliveryStatus
    edition, readable,   \* the template file
    cached,        \* TemplateState
    seen,          \* the modification time read before the contents
    text,          \* the version the message was rendered from
    began,         \* history: the file's version when the delivery began
    fellBack,      \* history: the file could not be read in this delivery
    shown          \* <<payload, notification>>: messages the service shows

queueVars == <<phase, notified, queue>>
sendVars == <<current, attempt, payload, sequence>>
templateVars == <<edition, readable, cached, seen, text, began, fellBack>>
vars == <<queueVars, worker, sendVars, status, templateVars, shown>>

Init ==
    /\ phase = "serving" /\ notified = {} /\ queue = <<>>
    /\ worker = "recv" /\ current = None
    /\ attempt = 0 /\ payload = 0 /\ sequence = 1
    /\ status = [sent |-> 0, retried |-> 0, failed |-> 0, skipped |-> 0]
    /\ edition = 0 /\ readable = TRUE /\ cached = None /\ seen = 0
    /\ text = 0 /\ began = 0 /\ fellBack = FALSE
    /\ shown = {}

\* What each version of the template makes of each notification.
Rendered == [n \in Notifications |-> [v \in 0..MaxVersion |-> Render(n, Templates[v])]]

Count(counter) == status' = [status EXCEPT ![counter] = @ + 1]
------------------------------------------------------------------------------
(* Handlers.                                                                *)

\* try_send: never waits; a full or closed queue drops the new message.
Notify(n) ==
    /\ phase = "serving"
    /\ n \notin notified
    /\ notified' = notified \cup {n}
    /\ IF Len(queue) < QueueCapacity /\ worker # "stopped"
       THEN queue' = Append(queue, n) /\ UNCHANGED status
       ELSE Count("skipped") /\ UNCHANGED queue
    /\ UNCHANGED <<phase, worker, sendVars, templateVars, shown>>
------------------------------------------------------------------------------
(* The worker: run and deliver.                                             *)

Receive ==
    /\ worker = "recv"
    /\ queue # <<>>
    /\ IF Head(queue) = Shutdown
       THEN /\ worker' = "stopped"
            /\ queue' = <<>>
            /\ UNCHANGED <<current, began>>
       ELSE /\ worker' = "metadata"
            /\ queue' = Tail(queue)
            /\ current' = Head(queue)
            /\ began' = edition
    /\ fellBack' = FALSE
    /\ UNCHANGED <<phase, notified, attempt, payload, sequence, status,
                   edition, readable, cached, seen, text, shown>>

\* Mutant: the sequence is read and never advanced.
ComposeUnnumbered(version) ==
    /\ text' = version
    /\ payload' = sequence
    /\ attempt' = 1
    /\ worker' = "send"
    /\ UNCHANGED <<current, status, sequence>>

\* record_failure before anything was sent.
Abandon ==
    /\ Count("failed")
    /\ worker' = "recv" /\ current' = None
    /\ UNCHANGED <<text, payload, sequence, attempt>>

\* An empty text is not sent; next_payload_id is a number of its own for every
\* message.
Compose(version) ==
    IF Rendered[current][version] = <<>>
    THEN Abandon
    ELSE /\ text' = version
         /\ payload' = sequence
         /\ sequence' = sequence + 1
         /\ attempt' = 1
         /\ worker' = "send"
         /\ UNCHANGED <<current, status>>

\* Mutant: the worker waits for a template it can read.
RenderFromCacheOrWait ==
    IF cached # None
    THEN Compose(cached.version)
    ELSE /\ worker' = "metadata"
         /\ UNCHANGED <<status, current, text, payload, sequence, attempt>>

\* The template file is unreadable: the last good template serves, if any.
RenderFromCache ==
    IF cached # None
    THEN Compose(cached.version)
    ELSE Abandon

\* Mutant: once loaded, the template is never looked at again.
LoadedOnce == cached # None
Unchanged == cached # None /\ cached.modified = edition

Metadata ==
    /\ worker = "metadata"
    /\ \/ ~readable /\ RenderFromCache /\ UNCHANGED seen
       \/ readable /\ Unchanged /\ Compose(cached.version) /\ UNCHANGED seen
       \/ /\ readable /\ ~Unchanged
          /\ seen' = edition
          /\ worker' = "read"
          /\ UNCHANGED <<text, sendVars, status>>
    /\ fellBack' = ~readable
    /\ UNCHANGED <<queueVars, edition, readable, cached, began, shown>>

ReadTemplate ==
    /\ worker = "read"
    /\ \/ /\ readable
          /\ cached' = [version |-> edition, modified |-> seen]
          /\ Compose(edition)
       \/ ~readable /\ RenderFromCache /\ UNCHANGED cached
    /\ fellBack' = ~readable
    /\ UNCHANGED <<queueVars, edition, readable, seen, began, shown>>

\* The service takes the message in, unless it knows its payload_id.
Taken == IF \E m \in shown : m[1] = payload
         THEN shown
         ELSE shown \cup {<<payload, current>>}

SendOk ==
    /\ worker = "send"
    /\ shown' = Taken
    /\ Count("sent")
    /\ worker' = "recv" /\ current' = None
    /\ UNCHANGED <<queueVars, attempt, payload, sequence, templateVars>>

\* Mutant: a retry is a message of its own.
SendTransientAfresh ==
    /\ worker = "send"
    /\ attempt < MaxSendAttempts
    /\ shown' \in {shown, Taken}
    /\ Count("retried")
    /\ payload' = sequence /\ sequence' = sequence + 1
    /\ worker' = "sleep"
    /\ UNCHANGED <<queueVars, current, attempt, templateVars>>

\* No answer, 429 or 5xx: the same request again after a pause.
SendTransient ==
    /\ worker = "send"
    /\ attempt < MaxSendAttempts
    /\ shown' \in {shown, Taken}
    /\ Count("retried")
    /\ worker' = "sleep"
    /\ UNCHANGED <<queueVars, sendVars, templateVars>>

Sleep ==
    /\ worker = "sleep"
    /\ attempt' = attempt + 1
    /\ worker' = "send"
    /\ UNCHANGED <<queueVars, current, payload, sequence, status, templateVars, shown>>

\* Mutant: a message that was given up is not counted.
SendFailsUncounted ==
    /\ worker = "send"
    /\ shown' \in {shown, Taken}
    /\ worker' = "recv" /\ current' = None
    /\ UNCHANGED <<queueVars, attempt, payload, sequence, status, templateVars>>

\* A permanent failure, or the last transient one.
SendFails ==
    /\ worker = "send"
    /\ shown' \in {shown, Taken}
    /\ Count("failed")
    /\ worker' = "recv" /\ current' = None
    /\ UNCHANGED <<queueVars, attempt, payload, sequence, templateVars>>
------------------------------------------------------------------------------
(* shutdown, called once the server has answered its last request.          *)

ServerStops ==
    /\ phase = "serving"
    /\ phase' = "signal"
    /\ UNCHANGED <<notified, queue, worker, sendVars, status, templateVars, shown>>

SendShutdown ==
    /\ phase = "signal"
    /\ Len(queue) < QueueCapacity
    /\ queue' = Append(queue, Shutdown)
    /\ phase' = "drain"
    /\ UNCHANGED <<notified, worker, sendVars, status, templateVars, shown>>

\* Either timeout aborts the worker where it is.
ShutdownTimesOut ==
    /\ phase \in {"signal", "drain"}
    /\ worker # "stopped"
    /\ worker' = "stopped"
    /\ queue' = <<>>
    /\ current' = None
    /\ phase' = "aborted"
    /\ UNCHANGED <<notified, attempt, payload, sequence, status, templateVars, shown>>

Drained ==
    /\ phase = "drain"
    /\ worker = "stopped"
    /\ phase' = "drained"
    /\ UNCHANGED <<notified, queue, worker, sendVars, status, templateVars, shown>>
------------------------------------------------------------------------------
\* Somebody edits, removes or restores the template file.
EditTemplate ==
    /\ edition < MaxVersion
    /\ edition' = edition + 1
    /\ readable' \in BOOLEAN
    /\ UNCHANGED <<queueVars, worker, sendVars, status, cached, seen, text,
                   began, fellBack, shown>>

WorkerStep == Receive \/ Metadata \/ ReadTemplate \/ SendOk \/ SendTransient
              \/ Sleep \/ SendFails

Next ==
    \/ \E n \in Notifications : Notify(n)
    \/ WorkerStep
    \/ ServerStops \/ SendShutdown \/ ShutdownTimesOut \/ Drained
    \/ EditTemplate

Spec == Init /\ [][Next]_vars

\* Files are read, the HTTP client has a timeout and the pauses are bounded.
FairSpec == Spec /\ WF_vars(WorkerStep)
------------------------------------------------------------------------------
(* Properties.                                                              *)

Pending == Cardinality({i \in DOMAIN queue : queue[i] # Shutdown})
           + (IF worker \in {"recv", "stopped"} THEN 0 ELSE 1)

\* Nothing is lost silently: every notification a handler hands over is
\* counted as sent, failed or skipped, or still on its way.  Only a shutdown
\* that runs into a timeout loses some; a drained one has told of them all.
Accounted ==
    phase # "aborted" =>
        Cardinality(notified) = status.sent + status.failed + status.skipped + Pending

\* The requester is told at most once of one blocked download, whatever is
\* lost between the worker and the service: a retry keeps its payload_id.
ToldOnce ==
    \A a, b \in shown : a[2] = b[2] => a = b

\* What is counted as sent is shown: the service never mistakes a message for
\* a repetition of another.
SentIsShown == status.sent <= Cardinality(shown)

\* A message is rendered from a template the file held since its delivery
\* began, although the modification time is read before the contents; an
\* older one serves only while the file cannot be read.
TemplateIsFresh ==
    worker \in {"send", "sleep"} /\ ~fellBack => text \in began..edition

\* Whatever the template and the lengths of its fields, the text that is sent
\* keeps within the service's limit and holds the complete report URL, if the
\* template leaves the URL out or places it, and the line that ends a cut text
\* fits at all.  (A {report_url} behind a brace left open is neither filled in
\* nor appended, since render only asks whether the template contains it.)
UrlIsKept ==
    worker \in {"send", "sleep"} =>
        LET template == Templates[text]
            sent     == TruncateText(current, Rendered[current][text])
        IN  /\ Len(sent) <= MaxTextChars
            /\ /\ PlacesUrl(template) \/ ~Occurs(UrlPlaceholder, template)
               /\ Len(Suffix(current)) <= MaxTextChars
               => Occurs(ReportUrl(current), sent)

\* Every queued message is settled: three attempts, then the next.
EveryMessageSettles ==
    \A n \in Notifications :
        (n \in {queue[i] : i \in DOMAIN queue}) ~>
            (n # current /\ n \notin {queue[i] : i \in DOMAIN queue})
==============================================================================
