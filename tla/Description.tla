----------------------------- MODULE Description -----------------------------
(***************************************************************************)
(* The worker of src/backend/main.py that keeps the bot's TeamSpeak        *)
(* description in step with the player, the queue and the settings.        *)
(* A change asks for an update by raising a flag; one task at a time       *)
(* clears the flag, lets a burst pass, builds the text and sends it.  The  *)
(* handler of DELETE /queue/{id} runs in a thread: it raises the flag      *)
(* there and leaves it to a callback of the event loop to start the task.  *)
(* The text is abstracted to the number of the last change it shows.       *)
(***************************************************************************)
EXTENDS Naturals

CONSTANT MaxEvents      \* bound: changes, requests and restarts in a run

ASSUME MaxEventsAssumption == MaxEvents \in Nat \ {0}

VARIABLES
    events,     \* the number of changes, requests and restarts so far
    version,    \* the number of changes so far: what a text built now shows
    requested,  \* _ts_desc_requested
    worker,     \* _ts_desc_task: where the worker stands
    built,      \* the version of the text the worker is sending
    callback,   \* _ensure_task is in the event loop's queue
    remover,    \* the thread of DELETE /queue/{id}
    shown,      \* the version TeamSpeak shows
    asked,      \* ghost: the version at the last request for an update
    lost        \* ghost: the last text sent met an error

textVars == <<version, requested, worker, built, callback, remover, shown,
              asked, lost>>
descVars == <<events, textVars>>

Phases == {"none", "check", "debounce", "rate", "send"}

DescriptionTypeOK ==
    /\ {events, version, built, shown, asked} \subseteq 0..MaxEvents
    /\ {requested, callback, lost} \subseteq BOOLEAN
    /\ worker \in Phases
    /\ remover \in {"idle", "committed", "flagged"}

DescriptionInit ==
    /\ events = 0 /\ version = 0 /\ built = 0 /\ shown = 0 /\ asked = 0
    /\ requested = FALSE /\ worker = "none"
    /\ callback = FALSE /\ remover = "idle" /\ lost = FALSE

-----------------------------------------------------------------------------

\* _ensure_task: the worker's task is created unless one is running.
EnsureTask == worker' = IF worker = "none" THEN "check" ELSE worker

\* _schedule_ts_description_update on the event loop.  The caller has set
\* version'.
Schedule ==
    /\ requested' = TRUE
    /\ asked' = version'
    /\ EnsureTask

Event == events < MaxEvents /\ events' = events + 1

\* A change of the player or the queue whose handler asks for the update in
\* the same step of the loop.
Change ==
    /\ Event /\ version' = version + 1
    /\ Schedule
    /\ UNCHANGED <<built, callback, remover, shown, lost>>

\* POST /queue adds a song and asks for nothing.
QuietChange ==
    /\ Event /\ version' = version + 1
    /\ UNCHANGED <<requested, worker, built, callback, remover, shown, asked,
                   lost>>

\* DELETE /queue/{id}, in a thread of the pool: the row goes, the flag rises,
\* the loop is asked to see to the task.  The loop runs between the three.
RemoverCommits ==
    /\ remover = "idle"
    /\ Event /\ version' = version + 1
    /\ remover' = "committed"
    /\ UNCHANGED <<requested, worker, built, callback, shown, asked, lost>>

RemoverFlags ==
    /\ remover = "committed"
    /\ remover' = "flagged"
    /\ requested' = TRUE
    /\ asked' = version
    /\ UNCHANGED <<events, version, worker, built, callback, shown, lost>>

RemoverCalls ==
    /\ remover = "flagged"
    /\ remover' = "idle"
    /\ callback' = TRUE
    /\ UNCHANGED <<events, version, requested, worker, built, shown, asked, lost>>

Callback ==
    /\ callback
    /\ callback' = FALSE
    /\ EnsureTask
    /\ UNCHANGED <<events, version, requested, built, remover, shown, asked, lost>>

-----------------------------------------------------------------------------

\* _ts_desc_worker: the head of the loop, up to the 0.8 s wait.
WorkerChecks ==
    /\ worker = "check"
    /\ requested' = FALSE
    /\ worker' = IF requested THEN "debounce" ELSE "none"
    /\ UNCHANGED <<events, version, built, callback, remover, shown, asked, lost>>

\* Another request during the wait starts the wait again.
WorkerDebounced ==
    /\ worker = "debounce"
    /\ worker' = IF requested THEN "check" ELSE "rate"
    /\ UNCHANGED <<events, version, requested, built, callback, remover, shown,
                   asked, lost>>

\* _build_ts_description, after the rate limit and the wait for the playback
\* lock: the player and the queue are read in one step.
WorkerBuilds ==
    /\ worker = "rate"
    /\ worker' = "send"
    /\ built' = version
    /\ UNCHANGED <<events, version, requested, callback, remover, shown, asked, lost>>

\* Mutant: the flag is lowered when the text has been sent.
WorkerSentLowers(ok) ==
    /\ worker = "send"
    /\ worker' = "check"
    /\ requested' = FALSE
    /\ shown' \in IF ok THEN {built} ELSE {shown, built}
    /\ lost' = ~ok
    /\ UNCHANGED <<events, version, built, callback, remover, asked>>

\* set_client_description came back.  An error is swallowed, and one that is
\* a deadline says nothing about what TeamSpeak shows.
WorkerSent(ok) ==
    /\ worker = "send"
    /\ worker' = "check"
    /\ shown' \in IF ok THEN {built} ELSE {shown, built}
    /\ lost' = ~ok
    /\ UNCHANGED <<events, version, requested, built, callback, remover, asked>>

\* The end of _startup after a crash: the task, the thread and the callback
\* are gone, and an update is asked for.  The caller sets version'.
DescriptionRestart ==
    /\ requested' = TRUE
    /\ asked' = version'
    /\ worker' = "check"
    /\ callback' = FALSE
    /\ remover' = "idle"
    /\ UNCHANGED <<built, shown, lost>>

DescriptionNext ==
    \/ Change \/ QuietChange
    \/ RemoverCommits \/ RemoverFlags \/ RemoverCalls \/ Callback
    \/ WorkerChecks \/ WorkerDebounced \/ WorkerBuilds
    \/ \E ok \in BOOLEAN : WorkerSent(ok)

-----------------------------------------------------------------------------

\* When the worker has ended and nobody is on the way to start it, TeamSpeak
\* shows everything an update was asked for, unless the last text sent met an
\* error: no request of the loop or of a thread is dropped by a worker that
\* was sending an older text or about to end.
RestingIsUpToDate ==
    worker = "none" /\ ~callback /\ remover # "flagged"
        => shown >= asked \/ lost

=============================================================================
