---------------------------- MODULE VoiceService ----------------------------
(***************************************************************************)
(* Playback control in voice-service/src/main.rs: the RPC handlers Play,   *)
(* Seek, Stop (and Skip, which is Stop), Pause and Resume, the two mutexes *)
(* they share (`status` and `playback`) and the playback loops they spawn. *)
(*                                                                         *)
(* Handlers are tasks of a multi-threaded runtime: a step here is what one *)
(* of them does under one lock.  Only stop_internal keeps a lock while it  *)
(* waits: it holds `playback` for as long as it joins the loop it has      *)
(* cancelled, two seconds at most.                                         *)
(*                                                                         *)
(* What a loop plays (decoding, effects, the 20 ms cadence) is abstracted  *)
(* to how it can end.  Volume and effects change none of this state.       *)
(***************************************************************************)
EXTENDS Naturals, Sequences, FiniteSets

CONSTANTS
  Calls,      \* RPC handlers that can be in progress at once
  Sources,    \* source URLs
  NoSource,   \* now_playing_source_url is empty
  MaxLoops,   \* bound on loops spawned
  MaxToggles, \* bound on Pause and Resume calls
  MaxControl  \* how many of the calls in progress may be Play, Seek or Stop

ASSUME CallAssumption   == NoSource \notin Sources /\ IsFiniteSet(Calls) /\ "none" \notin Calls
ASSUME BoundAssumption  == MaxLoops \in Nat /\ MaxToggles \in Nat /\ MaxControl \in Nat

VARIABLES
  status,  \* SharedStatus: state and now_playing_source_url
  lock,    \* the handler that keeps the `playback` mutex while it waits, or NoCall
  slot,    \* the loop whose PlaybackControl is in `playback`, 0 for None
  loops,   \* the loops spawned so far
  h,       \* where each handler is, with its locals
  toggles, \* Pause and Resume calls so far
  last     \* history: the playback event emitted last

vars == <<status, lock, slot, loops, h, toggles, last>>

NoCall  == "none"
None   == 0
Free   == lock = NoCall
Idle   == [at |-> "idle", kind |-> "none", src |-> NoSource, paused |-> FALSE, loop |-> None]

LoopIds == 1..Len(loops)
Control == {"play", "seek", "stop"}
Busy    == {c \in Calls : h[c].kind \in Control}

\* A loop whose task is at one of its awaits: still playing, or winding up.
Unfinished == {"playing", "held", "ended", "failed"}

Goto(c, point) == h' = [h EXCEPT ![c].at = point]
Answer(c)      == h' = [h EXCEPT ![c] = Idle]

-----------------------------------------------------------------------------
(* Calls arrive *)

Arrive(c, kind, src) ==
  /\ h[c] = Idle
  /\ kind \in Control => Cardinality(Busy) < MaxControl /\ Len(loops) + Cardinality(Busy) < MaxLoops
  /\ h' = [h EXCEPT ![c] = [Idle EXCEPT !.kind = kind, !.src = src,
                                        !.at = IF kind = "seek" THEN "snapshot"
                                               ELSE IF kind \in Control THEN "take" ELSE "toggle"]]
  /\ UNCHANGED <<status, lock, slot, loops, last>>

Play(c, src) == Arrive(c, "play", src) /\ UNCHANGED toggles
Seek(c)      == Arrive(c, "seek", NoSource) /\ UNCHANGED toggles
Stop(c)      == Arrive(c, "stop", NoSource) /\ UNCHANGED toggles
Toggle(c)    == /\ toggles < MaxToggles /\ toggles' = toggles + 1
                /\ \E kind \in {"pause", "resume"} : Arrive(c, kind, NoSource)

-----------------------------------------------------------------------------
(* Seek: current_playback_snapshot reads the pause flag under one lock and the source
   under the other, then starts the same source anew. *)

SeekPaused(c) ==
  /\ h[c].at = "snapshot" /\ Free
  /\ IF slot = None THEN Answer(c)
     ELSE h' = [h EXCEPT ![c].at = "source", ![c].paused = loops[slot].paused]
  /\ UNCHANGED <<status, lock, slot, loops, toggles, last>>

SeekSource(c) ==
  /\ h[c].at = "source"
  /\ IF status.src = NoSource THEN Answer(c)
     ELSE h' = [h EXCEPT ![c].at = "take", ![c].src = status.src]
  /\ UNCHANGED <<status, lock, slot, loops, toggles, last>>

-----------------------------------------------------------------------------
(* stop_internal *)

\* Mutant: the loop is not told to stop.
NotCancelled(l) == loops

Cancelled(l) == [loops EXCEPT ![l].cancelled = TRUE]

TakeSlot(c) ==
  /\ h[c].at = "take" /\ Free
  /\ IF slot = None
     THEN Goto(c, "status") /\ UNCHANGED <<lock, loops>>
     ELSE /\ lock' = c
          /\ loops' = Cancelled(slot)
          /\ h' = [h EXCEPT ![c].at = "join", ![c].loop = slot]
  /\ slot' = None
  /\ UNCHANGED <<status, toggles, last>>

Joined(c) ==
  /\ h[c].at = "join" /\ loops[h[c].loop].phase = "done"
  /\ lock' = NoCall /\ Goto(c, "status")
  /\ UNCHANGED <<status, slot, loops, toggles, last>>

\* Mutant: the join has no time limit.
NoTimeout(l) == FALSE

\* A loop that does not come to an end in two seconds waits for the audio channel or
\* for ffmpeg; the few instructions of its report are not what takes that long.
TimesOut(l) == loops[l].phase \in Unfinished
Aborted(l)  == [loops EXCEPT ![l].aborted = TRUE]

JoinTimesOut(c) ==
  /\ h[c].at = "join" /\ TimesOut(h[c].loop)
  /\ loops' = Aborted(h[c].loop)
  /\ lock' = NoCall /\ Goto(c, "status")
  /\ UNCHANGED <<status, slot, toggles, last>>

-----------------------------------------------------------------------------
(* The rest of start_playback_internal, and of Stop *)

\* Mutant: a stop leaves the source of what it stopped.
StatusKeepingSource(r) ==
  IF r.kind = "stop" THEN [status EXCEPT !.state = "idle"]
  ELSE [state |-> IF r.paused THEN "paused" ELSE "playing", src |-> r.src]

StatusFrom(r) ==
  IF r.kind = "stop" THEN [state |-> "idle", src |-> NoSource]
  ELSE [state |-> IF r.paused THEN "paused" ELSE "playing", src |-> r.src]

SetStatus(c) ==
  /\ h[c].at = "status"
  /\ status' = StatusFrom(h[c])
  /\ IF h[c].kind = "stop" THEN Answer(c) ELSE Goto(c, "spawn")
  /\ UNCHANGED <<lock, slot, loops, toggles, last>>

Spawn(c) ==
  LET l == Len(loops) + 1
  IN /\ h[c].at = "spawn"
     /\ last' = [type |-> "started", loop |-> l]
     /\ loops' = Append(loops, [src |-> h[c].src, paused |-> h[c].paused, cancelled |-> FALSE,
                                aborted |-> FALSE, orphan |-> FALSE, phase |-> "playing"])
     /\ h' = [h EXCEPT ![c].at = "put", ![c].loop = l]
     /\ UNCHANGED <<status, lock, slot, toggles>>

\* *pb = Some(control): whatever control was there is dropped with its pause channel,
\* and its loop is neither cancelled nor joined.
PutSlot(c) ==
  /\ h[c].at = "put" /\ Free
  /\ slot' = h[c].loop
  /\ loops' = IF slot = None THEN loops ELSE [loops EXCEPT ![slot].orphan = TRUE]
  /\ Answer(c)
  /\ UNCHANGED <<status, lock, toggles, last>>

-----------------------------------------------------------------------------
(* Pause and Resume: the status under one lock, then the loop under the other *)

Toggled(kind, state) == IF kind = "pause" /\ state = "playing" THEN "paused"
                        ELSE IF kind = "resume" /\ state = "paused" THEN "playing" ELSE state

ToggleStatus(c) ==
  /\ h[c].at = "toggle"
  /\ status' = [status EXCEPT !.state = Toggled(h[c].kind, @)]
  /\ Goto(c, "signal")
  /\ UNCHANGED <<lock, slot, loops, toggles, last>>

ToggleLoop(c) ==
  /\ h[c].at = "signal" /\ Free
  /\ loops' = IF slot = None THEN loops ELSE [loops EXCEPT ![slot].paused = (h[c].kind = "pause")]
  /\ Answer(c)
  /\ UNCHANGED <<status, lock, slot, toggles, last>>

-----------------------------------------------------------------------------
(* A playback loop, and the task around it that reports how it ended *)

Advance(l, phase) == loops' = [loops EXCEPT ![l].phase = phase]

\* At the top of its loop it looks at the pause flag, and holds until that changes.
LoopHolds(l) ==
  /\ \/ loops[l].phase = "playing" /\ loops[l].paused  /\ Advance(l, "held")
     \/ loops[l].phase = "held"    /\ ~loops[l].paused /\ Advance(l, "playing")
  /\ UNCHANGED <<status, lock, slot, h, toggles, last>>

\* EOF or a failure, anywhere but where it holds.
LoopEnds(l) ==
  /\ loops[l].phase = "playing"
  /\ Advance(l, "ended") \/ Advance(l, "failed")
  /\ UNCHANGED <<status, lock, slot, h, toggles, last>>

\* It sees the cancellation, or its pause channel is closed while it holds.
LoopBreaks(l) ==
  /\ \/ loops[l].phase \in {"playing", "held"} /\ loops[l].cancelled
     \/ loops[l].phase = "held" /\ loops[l].orphan
  /\ Advance(l, "ended")
  /\ UNCHANGED <<status, lock, slot, h, toggles, last>>

\* Mutant: a cancelled loop reports its end like any other.
ReportsAnyway(l) == TRUE

Reports(l) == ~loops[l].cancelled

LoopChecks(l) ==
  /\ loops[l].phase \in {"ended", "failed"}
  /\ Advance(l, IF ~Reports(l) THEN "done"
                ELSE IF loops[l].phase = "ended" THEN "finished" ELSE "error")
  /\ UNCHANGED <<status, lock, slot, h, toggles, last>>

LoopReports(l) ==
  /\ loops[l].phase \in {"finished", "error"}
  /\ last' = [type |-> loops[l].phase, loop |-> l]
  /\ Advance(l, "done")
  /\ UNCHANGED <<status, lock, slot, h, toggles>>

\* An abort takes effect where the task awaits.
LoopAborted(l) ==
  /\ loops[l].aborted /\ loops[l].phase \in Unfinished
  /\ Advance(l, "done")
  /\ UNCHANGED <<status, lock, slot, h, toggles, last>>

-----------------------------------------------------------------------------
Init ==
  /\ status = [state |-> "idle", src |-> NoSource]
  /\ lock = NoCall /\ slot = None /\ loops = <<>>
  /\ h = [c \in Calls |-> Idle]
  /\ toggles = 0 /\ last = [type |-> "none", loop |-> None]

Request(c) == (\E src \in Sources : Play(c, src)) \/ Seek(c) \/ Stop(c) \/ Toggle(c)

Handle(c) ==
  \/ SeekPaused(c) \/ SeekSource(c)
  \/ TakeSlot(c) \/ Joined(c) \/ JoinTimesOut(c)
  \/ SetStatus(c) \/ Spawn(c) \/ PutSlot(c)
  \/ ToggleStatus(c) \/ ToggleLoop(c)

Loop(l) == LoopHolds(l) \/ LoopEnds(l) \/ LoopBreaks(l) \/ LoopChecks(l) \/ LoopReports(l) \/ LoopAborted(l)

Next == (\E c \in Calls : Request(c) \/ Handle(c)) \/ (\E l \in LoopIds : Loop(l))
Spec == Init /\ [][Next]_vars

\* Handlers are scheduled and the mutexes are first come, first served; the join is
\* timed.  Nothing is assumed of the loops but that their short report goes on.
Fairness ==
  /\ \A c \in Calls : SF_vars(Handle(c))
  /\ \A l \in 1..MaxLoops : WF_vars(l \in LoopIds /\ LoopReports(l))
FairSpec == Spec /\ Fairness

-----------------------------------------------------------------------------
(* Properties *)

Phases  == {"playing", "held", "ended", "failed", "finished", "error", "done"}
LoopRec == [src : Sources, paused : BOOLEAN, cancelled : BOOLEAN, aborted : BOOLEAN,
            orphan : BOOLEAN, phase : Phases]
CallRec == [at : {"idle", "snapshot", "source", "take", "join", "status", "spawn", "put", "toggle", "signal"},
            kind : Control \cup {"none", "pause", "resume"},
            src : Sources \cup {NoSource}, paused : BOOLEAN, loop : 0..MaxLoops]

\* Every variable has its type, and what plays has a source.
TypeOK ==
  /\ status \in [state : {"idle", "playing", "paused"}, src : Sources \cup {NoSource}]
  /\ lock \in Calls \cup {NoCall} /\ slot \in 0..Len(loops)
  /\ Len(loops) <= MaxLoops /\ \A l \in LoopIds : loops[l] \in LoopRec
  /\ h \in [Calls -> CallRec]
  /\ toggles \in 0..MaxToggles
  /\ status.state # "idle" => status.src \in Sources

\* A loop that goes on playing: nothing has told it to stop.
GoesOn(l) == loops[l].phase \in {"playing", "held"} /\ ~loops[l].cancelled

\* When playback commands do not overlap, at most one loop goes on playing: the one that
\* the control in `playback` cancels, or the one a handler is about to put there.  So a
\* stop reaches whatever plays, pauses and resumes in between included.
OneVoice ==
  \A l \in LoopIds : GoesOn(l) => /\ slot = l \/ \E c \in Calls : h[c].at = "put" /\ h[c].loop = l
                                  /\ \A k \in LoopIds : GoesOn(k) => k = l

\* The end of a playback is never reported after the start of the next one: the backend,
\* which matches events by source URL, can follow the stream in order.
EndsBeforeNextStart ==
  [][last' # last /\ last'.type # "started" => last'.loop = Len(loops)]_vars

\* A playback that was stopped, replaced or sought away from does not report its end
\* any more once the call that did so has gone on.
StoppedStaysSilent ==
  [][last' # last /\ last'.type # "started" =>
       \/ slot = last'.loop
       \/ \E c \in Calls : h[c].loop = last'.loop /\ h[c].at \in {"put", "join"}]_vars

\* Once no playback command is in progress the status is that of the loop whose control
\* is in place; without one it is idle and names no source.
StatusOfSlot ==
  Busy = {} => IF slot = None THEN status = [state |-> "idle", src |-> NoSource]
               ELSE status.state # "idle" /\ status.src = loops[slot].src

\* Every call answers, whatever the loop it has to wait for does: the backend's calls
\* have a deadline of ten seconds.
CallsAnswer == \A c \in Calls : h[c] # Idle ~> h[c] = Idle

\* main.rs:493 logs "stopped" and docs/API.md:393 answers "playback_stopped": true.
\* A stop that no other playback command overlaps, when it takes the control out of
\* `playback`, cancels everything that plays.
StopSilences ==
  [][\A c \in Calls : h[c].kind = "stop" /\ h[c].at = "take" /\ h'[c].at # "take" /\ Busy = {c}
        => \A l \in LoopIds' : ~GoesOn(l)']_vars
=============================================================================
