------------------------------ MODULE Settings ------------------------------
(***************************************************************************)
(* The runtime settings: runtime_config.py, the /admin/settings and        *)
(* /admin/assets handlers of main.py, and the voice service's restart on a *)
(* changed configuration file.                                             *)
(*                                                                         *)
(* A setting lives in up to four places: a row of the database, an         *)
(* attribute of the running backend, the voice service's configuration     *)
(* file and the voice service that loaded it.  "Save" only stages a change *)
(* in the database and remembers its effect; "apply" brings the attributes *)
(* and the file up to date.  Three settings stand for the forty: addr      *)
(* (backend only), host (voice service only), desc (both).                 *)
(*                                                                         *)
(* Handlers on the event loop run in one step up to an await.  The one     *)
(* that deletes an image runs in a thread, and its write of the file       *)
(* shares a temporary file with the loop's.                                *)
(***************************************************************************)
EXTENDS Description

CONSTANTS
    Addrs, Hosts, Descs,    \* the values of the three settings
    DefaultOf,              \* what the environment gives for each key
    Named,                  \* what the requests name: keys with a value or None
    None

ASSUME SettingsAssumption ==
    /\ DefaultOf \in [addr : Addrs, host : Hosts, desc : Descs]
    /\ \A named \in Named : \A key \in DOMAIN named :
          named[key] \in [addr |-> Addrs, host |-> Hosts, desc |-> Descs][key]
                            \union {None}
    /\ None \notin Addrs \union Hosts \union Descs

VARIABLES
    db,         \* the rows of AppSetting; None: no row
    pending,    \* the row of PENDING_EFFECTS_KEY
    attrs,      \* the settings object: voice_grpc_addr, voice_description_*
    avatar,     \* the avatar's file exists
    file,       \* the voice configuration file, or Torn
    deleter,    \* the thread of DELETE /admin/assets/{key}
    closing,    \* the handler that awaits voice.close()
    channel,    \* the address the gRPC channel was opened with
    loaded,     \* the bytes the voice service read when it started
    leaving,    \* the voice service is shutting down to start again
    troubled,   \* ghost: a write of the file failed or met the thread's, and
                \* no undisturbed write followed
    unclosed    \* ghost: an apply that did not name the address changed it

setVars == <<db, pending, attrs, avatar, file, deleter, closing, channel,
             loaded, leaving, troubled, unclosed>>
vars == <<descVars, setVars>>

Values == [addr |-> Addrs, host |-> Hosts, desc |-> Descs]
Keys == DOMAIN Values

\* The effect of a key: the "restart" of its definition.
Effect(key) == IF key = "addr" THEN "none" ELSE "voice"

Configs == [host : Hosts, desc : Descs, avatar : BOOLEAN, rev : 0..MaxEvents]
Torn == [torn |-> TRUE]

NoDelete == [at |-> "idle"]
Settled == [at |-> "idle"]

TypeOK ==
    /\ DescriptionTypeOK
    /\ \A key \in Keys : db[key] \in Values[key] \union {None}
    /\ pending \subseteq {"none", "voice"}
    /\ attrs \in [addr : Addrs, desc : Descs]
    /\ {avatar, leaving, troubled, unclosed} \subseteq BOOLEAN
    /\ {file, loaded} \subseteq Configs \union {Torn}
    /\ \/ deleter.at \in {"idle", "unlinked"}
       \/ deleter.at = "gathered" /\ deleter.config \in Configs
    /\ closing = Settled \/ closing.describe \in BOOLEAN
    /\ channel \in Addrs \union {None}

-----------------------------------------------------------------------------

\* _env_value: the environment's value or the default; a setting the backend
\* keeps and whose variable is unset is whatever the attribute is now.
EnvValue(at, key) == IF key \in DOMAIN at THEN at[key] ELSE DefaultOf[key]

\* get_value
Value(rows, at, key) ==
    IF rows[key] # None THEN rows[key] ELSE EnvValue(at, key)

\* apply_backend_settings
Applied(rows, at) == [key \in DOMAIN at |-> Value(rows, at, key)]

\* _voice_env, with the revision write_voice_config adds
VoiceConfig(rows, at, image, rev) ==
    [host |-> Value(rows, at, "host"), desc |-> Value(rows, at, "desc"),
     avatar |-> image, rev |-> rev]

Defaults == [addr |-> DefaultOf.addr, desc |-> DefaultOf.desc]

Init ==
    /\ DescriptionInit
    /\ db = DefaultOf /\ pending = {} /\ attrs = Defaults
    /\ avatar \in BOOLEAN
    /\ file = VoiceConfig(db, attrs, avatar, 0)
    /\ loaded = file /\ leaving = FALSE
    /\ deleter = NoDelete /\ closing = Settled /\ channel = None
    /\ troubled = FALSE /\ unclosed = FALSE

\* write_voice_config(force_restart=True) on the loop.  It may fail; while the
\* thread is between its reading and its writing, the two share the temporary
\* file: this write may come out torn, and so may the thread's.
WriteConfig(config, ok) ==
    LET overlaps == deleter.at = "gathered"
    IN  /\ file' \in IF ok THEN {config} \union (IF overlaps THEN {Torn} ELSE {})
                     ELSE {file}
        /\ troubled' = (~ok \/ overlaps)
        /\ deleter' = IF overlaps THEN [deleter EXCEPT !.met = TRUE] ELSE deleter

\* The rows of update_settings: None deletes the row, and a value equal to the
\* present one has no effect.
Stored(named) == [key \in Keys |-> IF key \in DOMAIN named THEN named[key]
                                   ELSE db[key]]

Effects(named) == {Effect(key) : key \in {k \in DOMAIN named : named[k] # db[k]}}

-----------------------------------------------------------------------------

\* Mutant: staging remembers only the effects of the last save.
StageForgetful(named) ==
    /\ Event
    /\ db' = Stored(named)
    /\ pending' = Effects(named)
    /\ UNCHANGED <<textVars, attrs, avatar, file, deleter, closing, channel,
                   loaded, leaving, troubled, unclosed>>

\* PUT /admin/settings with apply = false
Stage(named) ==
    /\ Event
    /\ db' = Stored(named)
    /\ pending' = pending \union Effects(named)
    /\ UNCHANGED <<textVars, attrs, avatar, file, deleter, closing, channel,
                   loaded, leaving, troubled, unclosed>>

\* A description built from now on shows the new title.
DescriptionFollows ==
    version' = IF attrs'.desc # attrs.desc THEN version + 1 ELSE version

\* update_settings(apply=True): the rows, the pending effects with the new
\* ones, the attributes, and the file if the voice service needs it.
Update(named, ok) ==
    LET effects == pending \union Effects(named)
        at == Applied(Stored(named), attrs)
    IN  /\ ok \/ "voice" \in effects
        /\ db' = Stored(named)
        /\ pending' = {}
        /\ attrs' = at
        /\ DescriptionFollows
        /\ IF "voice" \in effects
             THEN WriteConfig(VoiceConfig(db', at, avatar, events'), ok)
             ELSE UNCHANGED <<file, troubled, deleter>>

\* Mutant: the channel is closed only when the request changes the row.
ClosesOnChange(named) ==
    "addr" \in DOMAIN named /\ named.addr # db.addr

\* Whether a request names the address: its handler closes the channel.
Closes(named) == "addr" \in DOMAIN named

\* PUT /admin/settings with apply = true.  A file that cannot be written ends
\* the request after the commit.  A request that names the address awaits the
\* close of an open channel before it asks for a description (bound: one such
\* request at a time).
Apply(named, ok) ==
    LET describe == "desc" \in DOMAIN named
                    /\ "voice" \in pending \union Effects(named)
        awaits == ok /\ Closes(named) /\ channel # None
    IN  /\ Event
        /\ "addr" \in DOMAIN named => closing = Settled
        /\ Update(named, ok)
        /\ closing' = IF awaits THEN [at |-> "await", describe |-> describe]
                      ELSE closing
        /\ IF ok /\ describe /\ ~awaits THEN Schedule
           ELSE UNCHANGED <<requested, asked, worker>>
        /\ unclosed' = (unclosed \/ /\ attrs'.addr # attrs.addr
                                    /\ channel # None
                                    /\ "addr" \notin DOMAIN named \/ ~ok)
        /\ UNCHANGED <<built, callback, remover, shown, lost, avatar, channel,
                       loaded, leaving>>

\* voice.close() is done: the next call opens another channel.
Closed ==
    /\ closing # Settled
    /\ closing' = Settled
    /\ channel' = None
    /\ unclosed' = FALSE
    /\ UNCHANGED <<events, version>>
    /\ IF closing.describe THEN Schedule
       ELSE UNCHANGED <<requested, asked, worker>>
    /\ UNCHANGED <<built, callback, remover, shown, lost, db, pending, attrs,
                   avatar, file, deleter, loaded, leaving, troubled>>

\* VoiceClient._get_stub: a call opens a channel if there is none.
OpenChannel ==
    /\ channel = None
    /\ channel' = attrs.addr
    /\ UNCHANGED <<descVars, db, pending, attrs, avatar, file, deleter, closing,
                   loaded, leaving, troubled, unclosed>>

-----------------------------------------------------------------------------

\* PUT /admin/assets/teamspeak-avatar: from the last chunk of the body on it
\* is one step.  The file gets every voice setting's row, staged ones too.
Upload(ok) ==
    /\ Event
    /\ avatar' = TRUE
    /\ WriteConfig(VoiceConfig(db, attrs, TRUE, events'), ok)
    /\ UNCHANGED <<textVars, db, pending, attrs, closing, channel, loaded,
                   leaving, unclosed>>

\* DELETE /admin/assets/teamspeak-avatar, in a thread: the image goes, the
\* settings are read, the file is written.
DeleterUnlinks ==
    /\ deleter = NoDelete /\ avatar
    /\ Event
    /\ avatar' = FALSE
    /\ deleter' = [at |-> "unlinked"]
    /\ UNCHANGED <<textVars, db, pending, attrs, file, closing, channel, loaded,
                   leaving, troubled, unclosed>>

\* The revision is the one of the request: no other write has it.
DeleterGathers ==
    /\ deleter.at = "unlinked"
    /\ deleter' = [at |-> "gathered", met |-> FALSE,
                   config |-> VoiceConfig(db, attrs, avatar, events)]
    /\ UNCHANGED <<descVars, db, pending, attrs, avatar, file, closing, channel,
                   loaded, leaving, troubled, unclosed>>

DeleterStores(ok) ==
    /\ deleter.at = "gathered"
    /\ deleter' = NoDelete
    /\ file' \in IF deleter.met THEN {deleter.config, Torn, file}
                 ELSE IF ok THEN {deleter.config} ELSE {file}
    /\ troubled' = (~ok \/ deleter.met)
    /\ UNCHANGED <<descVars, db, pending, attrs, avatar, closing, channel,
                   loaded, leaving, unclosed>>

-----------------------------------------------------------------------------

\* Mutant: the watcher compares the revisions.
DiffersInRevision ==
    LET rev(config) == IF config = Torn THEN 0 ELSE config.rev
    IN  rev(file) # rev(loaded)

\* The watcher of the voice service: the file differs from the bytes read
\* when the service started.
Differs == file # loaded

VoiceLeaves ==
    /\ ~leaving /\ Differs
    /\ leaving' = TRUE
    /\ UNCHANGED <<descVars, db, pending, attrs, avatar, file, deleter, closing,
                   channel, loaded, troubled, unclosed>>

\* The service executes itself again and reads the file first.
VoiceStarts ==
    /\ leaving
    /\ leaving' = FALSE
    /\ loaded' = file
    /\ UNCHANGED <<descVars, db, pending, attrs, avatar, file, deleter, closing,
                   channel, troubled, unclosed>>

\* initialize_runtime_settings: missing rows are filled from the environment,
\* the pending effects go, and the attributes and the file get every row.
\* The file keeps the revision it has.
Initialize ==
    LET rows == [key \in Keys |-> Value(db, Defaults, key)]
        rev == IF file = Torn THEN 0 ELSE file.rev
    IN  /\ db' = rows
        /\ pending' = {}
        /\ attrs' = Applied(rows, Defaults)
        /\ file' = VoiceConfig(rows, attrs', avatar, rev)

\* The backend crashes or is restarted, and _startup runs to its end.
BackendRestart ==
    /\ Event
    /\ Initialize
    /\ DescriptionFollows
    /\ DescriptionRestart
    /\ deleter' = NoDelete /\ closing' = Settled /\ channel' = None
    /\ troubled' = FALSE /\ unclosed' = FALSE
    /\ UNCHANGED <<avatar, loaded, leaving>>

Next ==
    \/ DescriptionNext /\ UNCHANGED setVars
    \/ \E named \in Named : Stage(named)
    \/ \E named \in Named, ok \in BOOLEAN : Apply(named, ok)
    \/ Closed \/ OpenChannel
    \/ \E ok \in BOOLEAN : Upload(ok)
    \/ DeleterUnlinks \/ DeleterGathers
    \/ \E ok \in BOOLEAN : DeleterStores(ok)
    \/ VoiceLeaves \/ VoiceStarts
    \/ BackendRestart

\* The event loop, the pool's threads and the voice service keep running.
Fairness ==
    /\ WF_vars((WorkerChecks \/ WorkerDebounced \/ WorkerBuilds
                \/ \E ok \in BOOLEAN : WorkerSent(ok)) /\ UNCHANGED setVars)
    /\ WF_vars((RemoverFlags \/ RemoverCalls) /\ UNCHANGED setVars)
    /\ WF_vars(Callback /\ UNCHANGED setVars)
    /\ WF_vars(Closed)
    /\ WF_vars(DeleterGathers \/ \E ok \in BOOLEAN : DeleterStores(ok))
    /\ WF_vars(VoiceLeaves) /\ WF_vars(VoiceStarts)

Spec == Init /\ [][Next]_vars /\ Fairness

-----------------------------------------------------------------------------

\* Whether a configuration gives the voice service what the database has.
UpToDate(config) ==
    config # Torn /\ config = VoiceConfig(db, attrs, avatar, config.rev)

\* A change that was saved and is not in force is remembered as pending, so
\* that "apply" shows up in the page and brings it in: a running attribute or
\* the voice configuration differs from the database only while its effect is
\* pending, unless a write failed or met the thread's.
UnappliedIsPending ==
    /\ \A key \in DOMAIN attrs :
          attrs[key] # Value(db, attrs, key) => pending # {}
    /\ deleter = NoDelete /\ ~troubled /\ ~UpToDate(file) => "voice" \in pending

\* The gRPC channel goes to the address in force, or is being closed, whatever
\* applies, closes and calls overlap, if the request that brought the address
\* in force named it and its file could be written.
ChannelFollows == channel \in {None, attrs.addr} \/ closing # Settled \/ unclosed

\* What was asked for arrives.  Once nothing is pending and no write went wrong,
\* the voice service comes to run with the database's values, whatever it was
\* doing when the file changed; and TeamSpeak comes to show what an update of
\* the description was asked for, or the text met an error.
ChangesArrive ==
    /\ []<>(pending # {} \/ troubled \/ deleter # NoDelete \/ UpToDate(loaded))
    /\ asked > shown ~> (shown >= asked \/ lost)

=============================================================================
