---------------------------- MODULE SettingsProofs ----------------------------
(***************************************************************************)
(* Proofs about Settings and the Description it extends, for any values of *)
(* the settings, any requests and any number of events: no request for a   *)
(* description is dropped, no unapplied setting is forgotten, and the      *)
(* channel goes to the address in force.                                   *)
(***************************************************************************)
EXTENDS Settings, TLAPS

-----------------------------------------------------------------------------
(* The description.                                                        *)

\* What the flag and the worker tell of the last request: a raised flag is on
\* its way to a worker; a lowered one was seen by a worker whose text is at
\* least as new as the request.
DescInv ==
  /\ version \in Nat /\ asked \in Nat /\ built \in Nat /\ shown \in Nat
  /\ asked <= version
  /\ requested => worker # "none" \/ callback \/ remover = "flagged"
  /\ ~requested /\ worker \in {"none", "check"} => shown >= asked \/ lost
  /\ ~requested /\ worker = "send" => built >= asked

\* The steps of the worker, of the thread and of the callback keep it.
LEMMA DescriptionKeeps == DescInv /\ DescriptionNext => DescInv'
<1> SUFFICES ASSUME DescInv, DescriptionNext PROVE DescInv'
  OBVIOUS
<1>1. CASE Change \/ QuietChange
  BY <1>1 DEF DescInv, Change, QuietChange, Schedule, EnsureTask
<1>2. CASE RemoverCommits \/ RemoverFlags \/ RemoverCalls
  BY <1>2 DEF DescInv, RemoverCommits, RemoverFlags, RemoverCalls
<1>3. CASE Callback
  BY <1>3 DEF DescInv, Callback, EnsureTask
<1>4. CASE WorkerChecks \/ WorkerDebounced \/ WorkerBuilds
  BY <1>4 DEF DescInv, WorkerChecks, WorkerDebounced, WorkerBuilds
<1>5. ASSUME NEW ok \in BOOLEAN, WorkerSent(ok) PROVE DescInv'
  BY <1>5 DEF DescInv, WorkerSent
<1> QED
  BY <1>1, <1>2, <1>3, <1>4, <1>5 DEF DescriptionNext

\* A handler that changes what the description shows, and asks for it or leaves
\* the flag and the worker alone.
LEMMA HandlerKeeps ==
  ASSUME DescInv, version' \in {version, version + 1}, UNCHANGED <<built, callback, remover, shown, lost>>,
         Schedule \/ UNCHANGED <<requested, asked, worker>>
  PROVE  DescInv'
BY DEF DescInv, Schedule, EnsureTask

\* Every step keeps it.
LEMMA DescStep == DescInv /\ [Next]_vars => DescInv'
<1> SUFFICES ASSUME DescInv, [Next]_vars PROVE DescInv'
  OBVIOUS
<1>1. CASE DescriptionNext
  BY <1>1, DescriptionKeeps
<1>2. ASSUME NEW named \in Named, Stage(named) PROVE DescInv'
  BY <1>2 DEF DescInv, Stage, textVars
<1>3. ASSUME NEW named \in Named, NEW ok \in BOOLEAN, Apply(named, ok) PROVE DescInv'
  <2>1. version' \in {version, version + 1}
    BY <1>3 DEF Apply, Update, DescriptionFollows
  <2>2. Schedule \/ UNCHANGED <<requested, asked, worker>>
    BY <1>3 DEF Apply
  <2> QED
    BY <1>3, <2>1, <2>2, HandlerKeeps DEF Apply
<1>4. CASE Closed
  BY <1>4, HandlerKeeps DEF Closed
<1>5. CASE OpenChannel \/ DeleterUnlinks \/ DeleterGathers \/ VoiceLeaves \/ VoiceStarts
  BY <1>5 DEF DescInv, OpenChannel, DeleterUnlinks, DeleterGathers, VoiceLeaves, VoiceStarts,
     descVars, textVars
<1>6. ASSUME NEW ok \in BOOLEAN, Upload(ok) \/ DeleterStores(ok) PROVE DescInv'
  <2>1. UNCHANGED textVars
    BY <1>6 DEF Upload, DeleterStores, descVars
  <2> QED
    BY <2>1 DEF DescInv, textVars
<1>7. CASE BackendRestart
  BY <1>7 DEF DescInv, BackendRestart, DescriptionFollows, DescriptionRestart
<1>8. CASE UNCHANGED vars
  BY <1>8 DEF DescInv, vars, descVars, textVars
<1> QED
  BY <1>1, <1>2, <1>3, <1>4, <1>5, <1>6, <1>7, <1>8 DEF Next

\* It holds in every state.
THEOREM DescriptionInvariant == Spec => []DescInv
<1>1. Init => DescInv
  BY DEF Init, DescriptionInit, DescInv
<1> QED
  BY <1>1, DescStep, PTL DEF Spec

\* A worker at rest leaves TeamSpeak with everything an update was asked for,
\* or with a text that met an error, whatever the thread of DELETE /queue/{id}
\* and the loop do between its steps (_schedule_ts_description_update,
\* _ts_desc_worker).
THEOREM NoRequestIsDropped == Spec => []RestingIsUpToDate
<1>1. DescInv => RestingIsUpToDate
  BY DEF DescInv, RestingIsUpToDate
<1> QED
  BY <1>1, DescriptionInvariant, PTL

-----------------------------------------------------------------------------
(* The channel.                                                            *)

\* A handler that waits for the close is not at rest.
LEMMA AwaitIsNotSettled == ASSUME NEW d PROVE [at |-> "await", describe |-> d] # Settled
<1>1. [at |-> "await", describe |-> d].at # Settled.at
  BY DEF Settled
<1> QED
  BY <1>1

\* Every step leaves the channel, closes it or has a reason not to.
LEMMA ChannelStep == ChannelFollows /\ [Next]_vars => ChannelFollows'
<1> SUFFICES ASSUME ChannelFollows, [Next]_vars PROVE ChannelFollows'
  OBVIOUS
<1>1. CASE DescriptionNext /\ UNCHANGED setVars
  BY <1>1 DEF ChannelFollows, setVars
<1>2. ASSUME NEW named \in Named, Stage(named) PROVE ChannelFollows'
  BY <1>2 DEF ChannelFollows, Stage
<1>3. ASSUME NEW named \in Named, NEW ok \in BOOLEAN, Apply(named, ok) PROVE ChannelFollows'
  <2>1. channel' = channel
    BY <1>3 DEF Apply
  <2>2. CASE channel = None \/ unclosed
    BY <1>3, <2>1, <2>2 DEF ChannelFollows, Apply
  <2>3. CASE ok /\ Closes(named) /\ channel # None
    <3>1. \E d : closing' = [at |-> "await", describe |-> d]
      BY <1>3, <2>3 DEF Apply
    <3> QED
      BY <3>1, AwaitIsNotSettled DEF ChannelFollows
  <2>4. CASE channel # None /\ ~(ok /\ Closes(named))
    <3>1. closing' = closing
      BY <1>3, <2>4 DEF Apply
    <3>2. CASE attrs'.addr = attrs.addr
      BY <1>3, <2>1, <3>1, <3>2 DEF ChannelFollows, Apply
    <3>3. CASE attrs'.addr # attrs.addr
      BY <1>3, <2>4, <3>3 DEF ChannelFollows, Apply, Closes
    <3> QED
      BY <3>2, <3>3
  <2> QED
    BY <2>2, <2>3, <2>4
<1>4. CASE Closed \/ OpenChannel \/ BackendRestart
  BY <1>4 DEF ChannelFollows, Closed, OpenChannel, BackendRestart
<1>5. CASE DeleterUnlinks \/ DeleterGathers \/ VoiceLeaves \/ VoiceStarts
  BY <1>5 DEF ChannelFollows, DeleterUnlinks, DeleterGathers, VoiceLeaves, VoiceStarts
<1>6. ASSUME NEW ok \in BOOLEAN, Upload(ok) \/ DeleterStores(ok) PROVE ChannelFollows'
  BY <1>6 DEF ChannelFollows, Upload, DeleterStores
<1>7. CASE UNCHANGED vars
  BY <1>7 DEF ChannelFollows, vars, setVars
<1> QED
  BY <1>1, <1>2, <1>3, <1>4, <1>5, <1>6, <1>7 DEF Next

\* The channel goes to the address in force or is being closed, however applies,
\* closes and calls overlap, for requests that name the address they bring in
\* force and can write the file (update_admin_settings, VoiceClient._get_stub).
THEOREM ChannelGoesWhereItShould == Spec => []ChannelFollows
<1>1. Init => ChannelFollows
  BY DEF Init, ChannelFollows
<1> QED
  BY <1>1, ChannelStep, PTL DEF Spec

-----------------------------------------------------------------------------
(* Unapplied settings.                                                     *)

VoiceKeys == {"host", "desc"}

\* The three settings.
LEMMA KeysAre == Keys = {"addr", "host", "desc"}
BY DEF Keys, Values

\* A configuration is whole and has its revision.
LEMMA ConfigIsWhole ==
  ASSUME NEW rows, NEW at, NEW image, NEW rev
  PROVE  /\ VoiceConfig(rows, at, image, rev) # Torn
         /\ VoiceConfig(rows, at, image, rev).rev = rev
<1>1. VoiceConfig(rows, at, image, rev).rev = rev
  BY DEF VoiceConfig
<1>2. "rev" \in DOMAIN VoiceConfig(rows, at, image, rev)
  BY DEF VoiceConfig
<1>3. "rev" \notin DOMAIN Torn
  BY DEF Torn
<1> QED
  BY <1>1, <1>2, <1>3

\* What an apply brings in force is what the rows gave before it.
LEMMA AppliedGivesRows ==
  ASSUME NEW rows, NEW at, DOMAIN at = {"addr", "desc"}, NEW key \in Keys
  PROVE  /\ Value(rows, Applied(rows, at), key) = Value(rows, at, key)
         /\ DOMAIN Applied(rows, at) = {"addr", "desc"}
         /\ key \in DOMAIN at => Applied(rows, at)[key] = Value(rows, at, key)
BY KeysAre DEF Value, EnvValue, Applied

\* A request without an effect on the voice service changes none of its rows.
LEMMA NoEffectNoChange ==
  ASSUME NEW named, "voice" \notin Effects(named), NEW key \in VoiceKeys
  PROVE  Stored(named)[key] = db[key]
BY KeysAre DEF Effects, Effect, Stored, VoiceKeys

\* The configuration depends on the values of the two keys and on the image.
LEMMA SameConfig ==
  ASSUME NEW rows, NEW at, NEW rows2, NEW at2, NEW image, NEW rev,
         \A key \in VoiceKeys : Value(rows2, at2, key) = Value(rows, at, key)
  PROVE  VoiceConfig(rows2, at2, image, rev) = VoiceConfig(rows, at, image, rev)
BY DEF VoiceConfig, VoiceKeys

\* The two parts of UnappliedIsPending, and what they rest on: what the thread
\* that deletes the image is about to write is up to date, or an effect is
\* pending, or its write met another.
DeleterShape ==
  /\ deleter.at \in {"idle", "unlinked", "gathered"}
  /\ deleter.at = "idle" => deleter = NoDelete
  /\ deleter.at = "gathered" =>
       DOMAIN deleter = {"at", "met", "config"} /\ deleter.met \in BOOLEAN

AttrsPending == \A key \in DOMAIN attrs : attrs[key] # Value(db, attrs, key) => pending # {}

FilePending == deleter = NoDelete /\ ~troubled => UpToDate(file) \/ "voice" \in pending

DeleterPending ==
  deleter.at = "gathered" /\ deleter.met = FALSE => UpToDate(deleter.config) \/ "voice" \in pending

SettingsInv ==
  /\ DOMAIN attrs = {"addr", "desc"} /\ troubled \in BOOLEAN /\ DeleterShape
  /\ AttrsPending /\ FilePending /\ DeleterPending

\* A step after which the voice service is due the same configuration, or an
\* effect on it is pending, and that leaves the file and the thread alone.
LEMMA FileLeftAlone ==
  ASSUME SettingsInv, UNCHANGED <<file, deleter, troubled, avatar>>,
         \/ "voice" \in pending'
         \/ /\ "voice" \notin pending
            /\ \A key \in VoiceKeys : Value(db', attrs', key) = Value(db, attrs, key)
  PROVE  DeleterShape' /\ FilePending' /\ DeleterPending'
<1>1. DeleterShape'
  BY DEF SettingsInv, DeleterShape
<1>2. CASE "voice" \in pending'
  BY <1>1, <1>2 DEF FilePending, DeleterPending
<1>3. CASE /\ "voice" \notin pending
           /\ \A key \in VoiceKeys : Value(db', attrs', key) = Value(db, attrs, key)
  <2>1. ASSUME NEW rev PROVE VoiceConfig(db', attrs', avatar', rev) = VoiceConfig(db, attrs, avatar, rev)
    BY <1>3, SameConfig
  <2>2. FilePending'
    BY <1>3, <2>1 DEF SettingsInv, FilePending, UpToDate
  <2>3. DeleterPending'
    BY <1>3, <2>1 DEF SettingsInv, DeleterPending, UpToDate
  <2> QED
    BY <1>1, <2>2, <2>3
<1> QED
  BY <1>2, <1>3

\* A write of what the voice service is due, whole, failed or met by the thread's.
LEMMA FileWritten ==
  ASSUME SettingsInv, NEW ok \in BOOLEAN, NEW rev,
         WriteConfig(VoiceConfig(db', attrs', avatar', rev), ok)
  PROVE  troubled' \in BOOLEAN /\ DeleterShape' /\ FilePending' /\ DeleterPending'
<1> DEFINE config == VoiceConfig(db', attrs', avatar', rev)
<1>1. config # Torn /\ config.rev = rev
  BY ConfigIsWhole
<1>2. CASE deleter.at = "gathered"
  <2>1. /\ troubled' = TRUE /\ deleter'.at = "gathered" /\ deleter'.met = TRUE
        /\ DOMAIN deleter' = {"at", "met", "config"}
    BY <1>2 DEF SettingsInv, DeleterShape, WriteConfig
  <2> QED
    BY <2>1 DEF DeleterShape, FilePending, DeleterPending
<1>3. CASE deleter.at # "gathered"
  <2>1. deleter' = deleter /\ troubled' = ~ok /\ file' \in IF ok THEN {config} ELSE {file}
    BY <1>3 DEF WriteConfig
  <2>2. ok => UpToDate(file)'
    BY <1>1, <2>1 DEF UpToDate
  <2> QED
    BY <1>3, <2>1, <2>2 DEF SettingsInv, DeleterShape, FilePending, DeleterPending
<1> QED
  BY <1>2, <1>3

\* Staging changes rows and remembers the effect of each.
LEMMA StageKeeps ==
  ASSUME SettingsInv, NEW named \in Named, Stage(named)
  PROVE  SettingsInv'
<1>0. /\ db' = Stored(named) /\ pending' = pending \union Effects(named)
      /\ UNCHANGED <<attrs, avatar, file, deleter, troubled>>
  BY DEF Stage
<1>1. DeleterShape' /\ FilePending' /\ DeleterPending'
  <2>1. CASE "voice" \in pending'
    BY <1>0, <2>1, FileLeftAlone
  <2>2. CASE "voice" \notin pending'
    <3>1. \A key \in VoiceKeys : db'[key] = db[key]
      BY <1>0, <2>2, NoEffectNoChange
    <3>2. \A key \in VoiceKeys : Value(db', attrs', key) = Value(db, attrs, key)
      BY <1>0, <3>1 DEF Value
    <3> QED
      BY <1>0, <2>2, <3>2, FileLeftAlone
  <2> QED
    BY <2>1, <2>2
<1>2. AttrsPending'
  <2> SUFFICES ASSUME NEW key \in DOMAIN attrs, attrs[key] # Value(db', attrs, key)
               PROVE  pending' # {}
    BY <1>0 DEF AttrsPending
  <2>1. key \in Keys
    BY KeysAre DEF SettingsInv
  <2>2. CASE db'[key] = db[key]
    BY <1>0, <2>2 DEF SettingsInv, AttrsPending, Value
  <2>3. CASE db'[key] # db[key]
    <3>1. key \in DOMAIN named /\ named[key] # db[key]
      BY <1>0, <2>1, <2>3 DEF Stored
    <3>2. Effect(key) \in Effects(named)
      BY <3>1 DEF Effects
    <3> QED
      BY <1>0, <3>2
  <2> QED
    BY <2>2, <2>3
<1> QED
  BY <1>0, <1>1, <1>2 DEF SettingsInv

\* An apply brings the attributes in force, and writes the file if an effect on
\* the voice service is pending.
LEMMA ApplyKeeps ==
  ASSUME SettingsInv, NEW named \in Named, NEW ok \in BOOLEAN, Apply(named, ok)
  PROVE  SettingsInv'
<1> DEFINE effects == pending \union Effects(named)
<1>0. /\ db' = Stored(named) /\ pending' = {} /\ avatar' = avatar
      /\ attrs' = Applied(db', attrs)
      /\ IF "voice" \in effects
           THEN WriteConfig(VoiceConfig(db', attrs', avatar', events'), ok)
           ELSE UNCHANGED <<file, troubled, deleter>>
  <2>1. Update(named, ok) /\ avatar' = avatar
    BY DEF Apply
  <2> QED
    BY <2>1 DEF Update
<1>1. DOMAIN attrs' = {"addr", "desc"}
  BY <1>0, AppliedGivesRows, KeysAre DEF SettingsInv
<1>2. AttrsPending'
  BY <1>0, <1>1, AppliedGivesRows, KeysAre DEF SettingsInv, AttrsPending
<1>3. CASE "voice" \in effects
  BY <1>0, <1>1, <1>2, <1>3, FileWritten DEF SettingsInv
<1>4. CASE "voice" \notin effects
  <2>1. \A key \in VoiceKeys : db'[key] = db[key]
    BY <1>0, <1>4, NoEffectNoChange
  <2>2. \A key \in VoiceKeys : Value(db', attrs', key) = Value(db', attrs, key)
    BY <1>0, AppliedGivesRows, KeysAre DEF SettingsInv, VoiceKeys
  <2>3. \A key \in VoiceKeys : Value(db', attrs', key) = Value(db, attrs, key)
    BY <2>1, <2>2 DEF Value
  <2>4. DeleterShape' /\ FilePending' /\ DeleterPending' /\ troubled' = troubled
    BY <1>0, <1>4, <2>3, FileLeftAlone
  <2> QED
    BY <1>1, <1>2, <2>4 DEF SettingsInv
<1> QED
  BY <1>3, <1>4

\* The upload and the three steps of the thread that deletes the image.
LEMMA ImageKeeps ==
  ASSUME SettingsInv, NEW ok \in BOOLEAN,
         Upload(ok) \/ DeleterUnlinks \/ DeleterGathers \/ DeleterStores(ok)
  PROVE  SettingsInv'
<1>0. UNCHANGED <<db, pending, attrs>>
  BY DEF Upload, DeleterUnlinks, DeleterGathers, DeleterStores
<1>1. DOMAIN attrs' = {"addr", "desc"} /\ AttrsPending'
  BY <1>0 DEF SettingsInv, AttrsPending
<1>2. CASE Upload(ok)
  <2>1. WriteConfig(VoiceConfig(db', attrs', avatar', events'), ok)
    BY <1>0, <1>2 DEF Upload
  <2> QED
    BY <1>1, <2>1, FileWritten DEF SettingsInv
<1>3. CASE DeleterUnlinks
  <2>1. deleter'.at = "unlinked" /\ troubled' = troubled
    BY <1>3 DEF DeleterUnlinks
  <2> QED
    BY <1>1, <2>1 DEF SettingsInv, DeleterShape, FilePending, DeleterPending, NoDelete
<1>4. CASE DeleterGathers
  <2>1. /\ deleter'.at = "gathered" /\ deleter'.met = FALSE
        /\ DOMAIN deleter' = {"at", "met", "config"} /\ troubled' = troubled
        /\ deleter'.config = VoiceConfig(db', attrs', avatar', events)
    BY <1>0, <1>4 DEF DeleterGathers
  <2>2. /\ deleter'.config # Torn
        /\ deleter'.config = VoiceConfig(db', attrs', avatar', deleter'.config.rev)
    <3> DEFINE config == VoiceConfig(db', attrs', avatar', events)
    <3>1. config # Torn /\ config.rev = events
      BY ConfigIsWhole
    <3>2. config = VoiceConfig(db', attrs', avatar', config.rev)
      BY <3>1
    <3>3. deleter'.config = config
      BY <2>1
    <3> HIDE DEF config
    <3> QED
      BY <3>1, <3>2, <3>3
  <2>3. UpToDate(deleter.config)'
    BY <2>2 DEF UpToDate
  <2>4. deleter' # NoDelete
    BY <2>1 DEF NoDelete
  <2>5. DeleterShape' /\ FilePending' /\ DeleterPending'
    BY <2>1, <2>3, <2>4 DEF DeleterShape, FilePending, DeleterPending
  <2> QED
    BY <1>1, <2>1, <2>5 DEF SettingsInv
<1>5. CASE DeleterStores(ok)
  <2>1. deleter.at = "gathered" /\ deleter' = NoDelete /\ UNCHANGED avatar
    BY <1>5 DEF DeleterStores
  <2>2. deleter.met \in BOOLEAN /\ troubled' = (~ok \/ deleter.met)
    BY <1>5, <2>1 DEF SettingsInv, DeleterShape, DeleterStores
  <2>3. troubled' \in BOOLEAN
    BY <2>2
  <2>4. DeleterShape' /\ DeleterPending'
    BY <2>1 DEF DeleterShape, DeleterPending, NoDelete
  <2>5. FilePending'
    <3>1. CASE deleter.met = FALSE /\ ok
      <4>1. file' = deleter.config
        BY <1>5, <3>1 DEF DeleterStores
      <4>2. UpToDate(deleter.config) \/ "voice" \in pending
        BY <2>1, <3>1 DEF SettingsInv, DeleterPending
      <4> QED
        BY <1>0, <2>1, <4>1, <4>2 DEF FilePending, UpToDate
    <3>2. CASE ~(deleter.met = FALSE /\ ok)
      BY <2>2, <3>2 DEF FilePending
    <3> QED
      BY <3>1, <3>2
  <2> QED
    BY <1>1, <2>3, <2>4, <2>5 DEF SettingsInv
<1> QED
  BY <1>2, <1>3, <1>4, <1>5

\* The start of the backend writes every row.
LEMMA RestartKeeps ==
  ASSUME SettingsInv, BackendRestart
  PROVE  SettingsInv'
<1>0. /\ pending' = {} /\ deleter' = NoDelete /\ troubled' = FALSE /\ avatar' = avatar
      /\ attrs' = Applied(db', Defaults)
      /\ \E rev : file' = VoiceConfig(db', attrs', avatar', rev)
  BY DEF BackendRestart, Initialize
<1>1. DOMAIN Defaults = {"addr", "desc"}
  BY DEF Defaults
<1>2. DOMAIN attrs' = {"addr", "desc"} /\ AttrsPending'
  BY <1>0, <1>1, AppliedGivesRows, KeysAre DEF AttrsPending
<1>3. UpToDate(file)'
  BY <1>0, ConfigIsWhole DEF UpToDate
<1> QED
  BY <1>0, <1>2, <1>3 DEF SettingsInv, DeleterShape, FilePending, DeleterPending, NoDelete

\* Every step keeps the invariant.
LEMMA SettingsStep == SettingsInv /\ [Next]_vars => SettingsInv'
<1> SUFFICES ASSUME SettingsInv, [Next]_vars PROVE SettingsInv'
  OBVIOUS
<1>1. ASSUME UNCHANGED <<db, pending, attrs, avatar, file, deleter, troubled>>
      PROVE  SettingsInv'
  BY <1>1 DEF SettingsInv, DeleterShape, AttrsPending, FilePending, DeleterPending, UpToDate
<1>2. CASE \/ DescriptionNext /\ UNCHANGED setVars
           \/ Closed \/ OpenChannel \/ VoiceLeaves \/ VoiceStarts \/ UNCHANGED vars
  BY <1>1, <1>2 DEF Closed, OpenChannel, VoiceLeaves, VoiceStarts, setVars, vars
<1>3. ASSUME NEW named \in Named, Stage(named) PROVE SettingsInv'
  BY <1>3, StageKeeps
<1>4. ASSUME NEW named \in Named, NEW ok \in BOOLEAN, Apply(named, ok) PROVE SettingsInv'
  BY <1>4, ApplyKeeps
<1>5. ASSUME NEW ok \in BOOLEAN,
             Upload(ok) \/ DeleterUnlinks \/ DeleterGathers \/ DeleterStores(ok)
      PROVE  SettingsInv'
  BY <1>5, ImageKeeps
<1>6. CASE BackendRestart
  BY <1>6, RestartKeeps
<1> QED
  BY <1>2, <1>3, <1>4, <1>5, <1>6 DEF Next

\* The first start has every row, the file and the service agree.
LEMMA SettingsInit == Init => SettingsInv
<1> SUFFICES ASSUME Init PROVE SettingsInv
  OBVIOUS
<1>1. DOMAIN attrs = {"addr", "desc"} /\ deleter = NoDelete /\ troubled = FALSE
  BY DEF Init, Defaults
<1>2. AttrsPending
  BY <1>1 DEF Init, Defaults, AttrsPending, Value, EnvValue
<1>3. UpToDate(file)
  BY ConfigIsWhole DEF Init, UpToDate
<1> QED
  BY <1>1, <1>2, <1>3 DEF SettingsInv, DeleterShape, FilePending, DeleterPending, NoDelete

\* A saved change that is not in force is remembered as pending, whatever order
\* of saves, applies, uploads, deletions and restarts led there, unless a write
\* of the file failed or met the thread's (update_settings, write_voice_config).
THEOREM NothingUnappliedIsForgotten == Spec => []UnappliedIsPending
<1>1. SettingsInv => UnappliedIsPending
  BY DEF SettingsInv, UnappliedIsPending, AttrsPending, FilePending
<1> QED
  BY <1>1, SettingsInit, SettingsStep, PTL DEF Spec
=============================================================================
