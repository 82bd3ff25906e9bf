------------------------------ MODULE Playback ------------------------------
(***************************************************************************)
(* The playback orchestration of backend/main.py: the queue table, the     *)
(* now-playing record, the play-request generation, shuffle and repeat,    *)
(* every handler that changes them, and the voice service as the backend   *)
(* sees it (unary commands and an event stream).                           *)
(*                                                                         *)
(* Atomicity.  All handlers are coroutines of one event loop, so a step is *)
(* the code between two suspensions.  _playback_lock never suspends: no    *)
(* body that holds it awaits, so an acquire always finds it free.  What    *)
(* does suspend is resolving a track's URL (HTTP) and every voice RPC.     *)
(* A step here is therefore a stretch of code between two of those.  The   *)
(* exception is DELETE /queue/{id}, a `def` endpoint that runs in the      *)
(* thread pool and interleaves with the loop inside its body.              *)
(*                                                                         *)
(* A track stands for its source URL: two rows of one track play the same  *)
(* source (a Bilibili file in the cache, a stored URL).  The history table *)
(* is only ever appended to and no handler reads it back: it is left out.  *)
(***************************************************************************)
EXTENDS Integers, Sequences, FiniteSets, SequencesExt

CONSTANTS
  Web,        \* HTTP requests that can be in progress at once
  Worker,     \* _chat_command_worker: one coroutine for chat and voice events
  Tracks,     \* what a queue row can hold; a track is also its source URL
  NoTrack,    \* the absence of a row, or of a source
  Ops,        \* the kinds of user command this instance exercises
  MaxId,      \* bound on row ids
  MaxOps,     \* bound on user commands
  MaxGen,     \* bound on the generation at which a track may still end
  InitFloor,  \* ids 1..InitFloor were used up by an earlier clear (0: none)
  InitLen,    \* rows in the queue at the start
  InitRepeat, \* repeat modes at the start
  MayFail,    \* RPCs and URL resolution may raise
  MayLose,    \* the event stream may drop what it has not delivered
  InOrder     \* RPCs reach the voice service in the order they were sent

Procs   == Web \cup {Worker}
Ids     == 1..MaxId
NoItem  == 0
Modes   == {"none", "all", "one"}
OpKinds == {"play", "playFirst", "next", "skip", "previous", "clear", "clearKeep",
            "stop", "delete", "add", "fetchAdd", "enqueue", "enqueueGated", "replay",
            "lookup", "voicePlay", "pause", "resume", "shuffle", "repeat"}
\* Commands typed in the TeamSpeak channel run on the worker, the others on a request.
ChatOnly == {"playFirst", "stop", "resume"}
ChatToo  == ChatOnly \cup {"skip", "clear", "lookup", "pause", "shuffle"}
\* What a request may ask of the enqueue functions; chat asks for a row and, if the
\* queue is idle, its start ("chatAdd"), or for the song at once ("enqueue").
WebRoutes == {"add", "fetchAdd", "enqueue", "enqueueGated"}
Routes(p) == IF p = Worker THEN {"chatAdd", "enqueue"} ELSE WebRoutes

ASSUME ProcAssumption  == Worker \notin Web
ASSUME TrackAssumption == NoTrack \notin Tracks
ASSUME BoundAssumption == /\ MaxId \in Nat /\ MaxOps \in Nat /\ MaxGen \in Nat
                          /\ InitFloor \in Nat /\ InitLen \in Nat
                          /\ InitFloor + InitLen <= MaxId
ASSUME ModeAssumption  == /\ Ops \subseteq OpKinds /\ InitRepeat \subseteq Modes
                          /\ {MayFail, MayLose, InOrder} \subseteq BOOLEAN

VARIABLES
  rows,     \* queue_items: id -> track, NoTrack where there is no row
  floor,    \* models._queue_id_floor
  now,      \* _current_queue_item_id, _current_source_url, _cleared_playing_item, _paused_at
  gen,      \* _play_request_generation
  pending,  \* _pending_queue_item_id
  shuffle,  \* _shuffle_enabled
  repeat,   \* _repeat_mode
  order,    \* _shuffle_queue
  pos,      \* _current_shuffle_index + 1, so 0 is the code's -1
  h,        \* where each coroutine is suspended, with the locals it kept
  wire,     \* voice RPCs sent and not yet served
  voice,    \* SharedStatus.state and .now_playing_source_url; whether a loop is playing
  events,   \* playback events emitted and not yet handled
  ops,      \* user commands so far
  took,     \* history: the ticket of the last tracked request that took over playback
  used      \* history: ids that rows have had since ids were first reserved

shuffleVars == <<shuffle, repeat, order, pos>>
requestVars == <<gen, pending>>
voiceVars   == <<wire, voice, events>>
ghosts      == <<took, used>>
vars == <<rows, floor, now, requestVars, shuffleVars, h, voiceVars, ops, ghosts>>

Idle    == [at |-> "idle", arg |-> 0, ticket |-> 0, track |-> NoTrack, reply |-> "none"]
Nothing == [item |-> NoItem, src |-> NoTrack, detached |-> NoItem, paused |-> FALSE]
Nowhere == [src |-> NoTrack, state |-> "idle", live |-> FALSE]

Points  == {"idle", "resolve", "play", "lookup", "fetchAdd", "fetch", "playNew",
            "skipped", "notice", "status", "statusAuto", "last", "delOrder", "delPos"}
Replies == {"none", "ok", "error", "idle", "playing", "paused"}
Cmds    == {"play", "skip", "stop", "pause", "resume", "notice", "status"}

-----------------------------------------------------------------------------
(* The queue table *)

InQueue(q) == {i \in Ids : q[i] # NoTrack}
TopId(q)   == CHOOSE m \in InQueue(q) \cup {0} : \A i \in InQueue(q) : i <= m
\* Mutant: the first row after id c is off by one.
FirstAfterOffByOne(q, c) ==
  LET later == {i \in InQueue(q) : i > c + 1}
  IN IF later = {} THEN NoItem ELSE CHOOSE i \in later : \A j \in later : i <= j

\* ORDER BY id LIMIT 1 over the rows after id c (c = NoItem: over all rows).
FirstAfter(q, c) ==
  LET later == {i \in InQueue(q) : i > c}
  IN IF later = {} THEN NoItem ELSE CHOOSE i \in later : \A j \in later : i <= j
LastBefore(q, c) ==
  LET earlier == {i \in InQueue(q) : i < c}
  IN IF earlier = {} THEN NoItem ELSE CHOOSE i \in earlier : \A j \in earlier : j <= i

\* Mutant: the before_insert hook ignores the floor.
NextIdIgnoringFloor == TopId(rows) + 1

\* SQLite hands out max(id) + 1 until a clear has reserved ids; from then on the
\* before_insert hook counts up from the floor.
NextId == IF floor = 0 \/ TopId(rows) > floor THEN TopId(rows) + 1 ELSE floor + 1

Insert(t) ==
  /\ NextId \in Ids
  /\ rows'  = [rows EXCEPT ![NextId] = t]
  /\ floor' = IF floor = 0 THEN 0 ELSE NextId
  /\ used'  = IF floor = 0 THEN used ELSE used \cup {NextId}

\* Mutant: reserves one id too many.
ReservedOneMore(highest) == highest + 1

Reserved(highest) == IF highest > floor THEN highest ELSE floor

-----------------------------------------------------------------------------
(* The shuffle order *)

IndexOf(s, x) == CHOOSE k \in DOMAIN s : s[k] = x

\* list.remove: the first element that equals x; the order lists no row twice.
Removed(s, x) == RemoveAt(s, IndexOf(s, x))

\* [x for x in s if x in S]
Kept(s, S) ==
  LET kept[k \in 0..Len(s)] ==
        IF k = 0 THEN <<>>
        ELSE IF s[k] \in S THEN Append(kept[k-1], s[k]) ELSE kept[k-1]
  IN kept[Len(s)]

PosAfterRemoval(k, ix) == IF k <= ix /\ ix > 0 THEN ix - 1 ELSE ix

\* What _delete_queue_item leaves of the order and the index: nothing changes unless
\* the row existed and shuffle listed it.
Shrunk(i) == shuffle /\ i \in InQueue(rows) /\ Contains(order, i)
OrderWithout(i) == IF Shrunk(i) THEN Removed(order, i) ELSE order
PosWithout(i)   == IF Shrunk(i) THEN PosAfterRemoval(IndexOf(order, i), pos) ELSE pos
RowsWithout(i)  == IF i \in Ids THEN [rows EXCEPT ![i] = NoTrack] ELSE rows

-----------------------------------------------------------------------------
(* Play requests and the now-playing record *)

\* Mutants: no generation check; the pending item outlives its request; a new track
\* inherits the pause, or the detached id, of the one before it.
AnyGeneration(ticket) == TRUE
PendingKept(i) == pending
NowStillPaused(i, t)   == [item |-> i, src |-> t, detached |-> NoItem, paused |-> now.paused]
NowStillDetached(i, t) == [item |-> i, src |-> t, detached |-> now.detached, paused |-> FALSE]

IsCurrent(ticket) == ticket = gen
PendingWithout(i) == IF pending = i THEN NoItem ELSE pending
NowPlaying(i, t)  == [item |-> i, src |-> t, detached |-> NoItem, paused |-> FALSE]
\* _take_now_playing_if_match: does this event's source match what is playing?
Matches(src) == now.item # NoItem /\ now.src # NoTrack /\ now.src = src

Send(p, cmd, src) == wire' = Append(wire, [by |-> p, cmd |-> cmd, src |-> src])
Await(p, point, arg, ticket) ==
  h' = [h EXCEPT ![p] = [Idle EXCEPT !.at = point, !.arg = arg, !.ticket = ticket]]
Finish(p) == h' = [h EXCEPT ![p] = Idle]

\* The head of _play_queue_item_internal, up to the await that resolves the URL, with
\* the queue q, the generation g and the pending item pd that the caller leaves.
Begin(p, i, q, g, pd) ==
  IF i \in InQueue(q)
  THEN /\ gen' = g + 1 /\ pending' = i
       /\ h' = [h EXCEPT ![p] = [at |-> "resolve", arg |-> i, ticket |-> g + 1,
                                 track |-> q[i], reply |-> "none"]]
  ELSE gen' = g /\ pending' = pd /\ Finish(p)

\* _auto_play_next_from_queue(start_after_id=start) on the queue q, the shuffle order o
\* at index ix, and the now-playing record n.
NextInOrder(start, q, n) ==
  IF start = NoItem /\ n.item # NoItem /\ n.detached = NoItem /\ repeat = "one"
  THEN n.item
  ELSE LET cursor == IF start # NoItem THEN start
                     ELSE IF n.detached # NoItem THEN NoItem ELSE n.item
           nxt    == FirstAfter(q, cursor)
       IN IF nxt = NoItem /\ repeat = "all" THEN FirstAfter(q, NoItem) ELSE nxt

\* The index after the resync of the shuffle order: it follows the id it pointed at.
PosInKept(o, ix, kept) ==
  IF ix \notin DOMAIN o THEN ix
  ELSE IF Contains(kept, o[ix]) THEN IndexOf(kept, o[ix]) ELSE 0

ShuffleNext(ix, len) == IF ix + 1 <= len THEN ix + 1 ELSE IF repeat = "all" THEN 1 ELSE 0

AutoNext(p, start, q, o, ix, n) ==
  IF shuffle
  THEN LET kept  == Kept(o, InQueue(q))
           fresh == InQueue(q) \ ToSet(kept)
           ix2   == PosInKept(o, ix, kept)
       IN \E tail \in SetToSeqs(fresh) :
            LET full == kept \o tail
                nxt  == IF full = <<>> THEN 0 ELSE ShuffleNext(ix2, Len(full))
            IN /\ order' = full
               /\ IF nxt = 0
                  THEN pos' = ix2 /\ Finish(p) /\ UNCHANGED requestVars
                  ELSE pos' = nxt /\ Begin(p, full[nxt], q, gen, pending)
  ELSE /\ order' = o /\ pos' = ix
       /\ Begin(p, NextInOrder(start, q, n), q, gen, pending)

-----------------------------------------------------------------------------
(* User commands.  Each starts on an idle coroutine and runs to its first await. *)

User(p, kind) ==
  /\ h[p] = Idle /\ ops < MaxOps /\ kind \in Ops
  /\ p = Worker => kind \in ChatToo
  /\ p # Worker => kind \notin ChatOnly
  /\ ops' = ops + 1

\* POST /queue/{id}/play
PlayItem(p, i) ==
  /\ User(p, "play")
  /\ Begin(p, i, rows, gen, pending)
  /\ UNCHANGED <<rows, floor, now, shuffleVars, voiceVars, ghosts>>

\* chat "play" without an argument: the first row of the queue
PlayFirst(p) ==
  /\ User(p, "playFirst")
  /\ Begin(p, FirstAfter(rows, NoItem), rows, gen, pending)
  /\ UNCHANGED <<rows, floor, now, shuffleVars, voiceVars, ghosts>>

\* What next and skip work on: `current or pending`.
Active == IF now.item # NoItem THEN now.item ELSE pending

\* The branch next and skip share: forget the track, tell the voice service, and
\* continue with the automatic next once it has answered.
SilenceThen(p, after) ==
  /\ now' = Nothing
  /\ Send(p, "skip", NoTrack)
  /\ Await(p, "skipped", after, 0)

\* POST /voice/next
VoiceNext(p) ==
  LET o   == OrderWithout(Active)
      ix  == PosWithout(Active)
      nxt == IF o = <<>> THEN 0 ELSE ShuffleNext(ix, Len(o))
  IN /\ User(p, "next")
     /\ rows' = RowsWithout(Active) /\ order' = o
     /\ \/ /\ shuffle /\ o # <<>> /\ nxt # 0
           /\ pos' = nxt
           /\ Begin(p, o[nxt], rows', gen + 1, NoItem)
           /\ UNCHANGED <<now, wire>>
        \/ /\ shuffle /\ o # <<>> /\ nxt = 0
           /\ now' = Nothing /\ Send(p, "skip", NoTrack) /\ Await(p, "last", 0, 0)
           /\ gen' = gen + 1 /\ pending' = NoItem /\ pos' = ix
        \/ /\ ~shuffle \/ o = <<>>
           /\ SilenceThen(p, Active)
           /\ gen' = gen + 1 /\ pending' = NoItem /\ pos' = ix
     /\ UNCHANGED <<floor, shuffle, repeat, voice, events, ghosts>>

\* POST /voice/skip and chat "skip"
VoiceSkip(p) ==
  /\ User(p, "skip")
  /\ gen' = gen + 1 /\ pending' = NoItem
  /\ IF Active # NoItem
     THEN /\ rows' = RowsWithout(Active)
          /\ order' = OrderWithout(Active) /\ pos' = PosWithout(Active)
          /\ SilenceThen(p, Active)
     ELSE UNCHANGED <<rows, order, pos, now, wire, h>>
  /\ UNCHANGED <<floor, shuffle, repeat, voice, events, ghosts>>

\* POST /voice/previous
VoicePrevious(p) ==
  LET back == IF pos > 1 THEN pos - 1 ELSE IF repeat = "all" THEN Len(order) ELSE 0
      prev == LastBefore(rows, Active)
      last == LastBefore(rows, MaxId + 1)
  IN /\ User(p, "previous")
     /\ IF shuffle /\ order # <<>>
        THEN IF back \in DOMAIN order
             THEN pos' = back /\ Begin(p, order[back], rows, gen, pending)
             ELSE UNCHANGED <<pos, requestVars, h>>
        ELSE /\ pos' = pos
             /\ Begin(p, IF Active = NoItem THEN NoItem
                         ELSE IF prev = NoItem /\ repeat = "all" THEN last ELSE prev,
                      rows, gen, pending)
     /\ UNCHANGED <<rows, floor, now, shuffle, repeat, order, voiceVars, ghosts>>

\* _cleared_playing_item after a clear: kept if the track is already detached, else the
\* current row if it is still there.
DetachedByClear == IF now.detached # NoItem THEN now.detached
                   ELSE IF now.item \in InQueue(rows) THEN now.item ELSE NoItem

\* DELETE /queue and chat "clear" (stop = TRUE), DELETE /queue?stop_playback=false
Clear(p, stop) ==
  /\ User(p, IF stop THEN "clear" ELSE "clearKeep")
  /\ floor' = Reserved(TopId(rows))
  /\ used'  = IF floor' = 0 THEN used ELSE used \cup InQueue(rows)
  /\ rows'  = [i \in Ids |-> NoTrack]
  /\ order' = <<>> /\ pos' = 0
  /\ gen' = gen + 1 /\ pending' = NoItem
  /\ IF stop
     THEN now' = Nothing /\ Send(p, "stop", NoTrack) /\ Await(p, "last", 0, 0)
     ELSE now' = [now EXCEPT !.detached = DetachedByClear] /\ UNCHANGED <<wire, h>>
  /\ UNCHANGED <<shuffle, repeat, voice, events, took>>

\* The transaction of a clear fails: the ids it had reserved stay reserved, everything
\* else is rolled back or not reached.
ClearFails(p) ==
  /\ User(p, "clear") /\ MayFail
  /\ floor' = Reserved(TopId(rows))
  /\ used'  = IF floor' = 0 THEN used ELSE used \cup InQueue(rows)
  /\ UNCHANGED <<rows, now, requestVars, shuffleVars, h, voiceVars, took>>

\* chat "stop"
ChatStop(p) ==
  /\ User(p, "stop")
  /\ gen' = gen + 1 /\ pending' = NoItem
  /\ now' = Nothing /\ Send(p, "stop", NoTrack) /\ Await(p, "last", 0, 0)
  /\ UNCHANGED <<rows, floor, shuffleVars, voice, events, ghosts>>

\* The three enqueue functions up to their first await.  Without play_now NetEase and
\* Bilibili insert the row at once, and chat then asks for the status to start an idle
\* queue; QQ resolves the URL first.  With play_now all resolve first: Bilibili takes a
\* ticket with no pending item, NetEase and QQ take none.
StartEnqueue(p, t, route) ==
  /\ \/ /\ route \in {"add", "chatAdd"}
        /\ Insert(t)
        /\ IF route = "add" THEN Finish(p) /\ wire' = wire
           ELSE Send(p, "status", NoTrack) /\ Await(p, "statusAuto", 0, 0)
        /\ UNCHANGED requestVars
     \/ /\ route \in {"fetchAdd", "enqueue", "enqueueGated"}
        /\ IF route = "enqueueGated" THEN gen' = gen + 1 /\ pending' = NoItem
           ELSE UNCHANGED requestVars
        /\ h' = [h EXCEPT ![p] = [Idle EXCEPT
                     !.at = IF route = "fetchAdd" THEN "fetchAdd" ELSE "fetch",
                     !.track = t, !.ticket = IF route = "enqueueGated" THEN gen' ELSE 0]]
        /\ UNCHANGED <<rows, floor, used, wire>>
  /\ UNCHANGED <<now, shuffleVars, voice, events, took>>

\* POST /queue, /queue/netease, /queue/qqmusic and /queue/bilibili
Enqueue(p, t, route) == User(p, route) /\ StartEnqueue(p, t, route)

\* POST /history/{id}/replay: the song is enqueued again by the route it came from.
Replay(p, t, route) == User(p, "replay") /\ route \in Routes(p) /\ StartEnqueue(p, t, route)

\* POST /external/queue without a complete song, chat "add" and "play" with an argument:
\* the search, or the song's details, come first.
LookUp(p, t) ==
  /\ User(p, "lookup")
  /\ h' = [h EXCEPT ![p] = [Idle EXCEPT !.at = "lookup", !.track = t]]
  /\ UNCHANGED <<rows, floor, now, requestVars, shuffleVars, voiceVars, ghosts>>

\* POST /voice/play
VoicePlay(p) ==
  /\ User(p, "voicePlay")
  /\ Send(p, "status", NoTrack) /\ Await(p, "status", 0, 0)
  /\ UNCHANGED <<rows, floor, now, requestVars, shuffleVars, voice, events, ghosts>>

\* POST /voice/pause and chat "pause": _mark_playback_paused, then the RPC
VoicePause(p) ==
  /\ User(p, "pause")
  /\ now' = [now EXCEPT !.paused = now.item # NoItem]
  /\ Send(p, "pause", NoTrack) /\ Await(p, "last", 0, 0)
  /\ UNCHANGED <<rows, floor, requestVars, shuffleVars, voice, events, ghosts>>

\* chat "resume": _mark_playback_resumed, then the RPC
ChatResume(p) ==
  /\ User(p, "resume")
  /\ now' = [now EXCEPT !.paused = FALSE]
  /\ Send(p, "resume", NoTrack) /\ Await(p, "last", 0, 0)
  /\ UNCHANGED <<rows, floor, requestVars, shuffleVars, voice, events, ghosts>>

\* POST /voice/shuffle; chat "random" and "order" also start an idle queue
SetShuffle(p, on) ==
  /\ User(p, "shuffle")
  /\ shuffle' = on
  /\ \E o \in SetToSeqs(IF on THEN InQueue(rows) ELSE {}) :
       /\ order' = o
       /\ pos' = IF Contains(o, now.item) THEN IndexOf(o, now.item) ELSE 0
  /\ IF p = Worker /\ on
     THEN Send(p, "status", NoTrack) /\ Await(p, "statusAuto", 0, 0)
     ELSE UNCHANGED <<wire, h>>
  /\ UNCHANGED <<rows, floor, now, requestVars, repeat, voice, events, ghosts>>

\* POST /voice/repeat
SetRepeat(p, mode) ==
  /\ User(p, "repeat")
  /\ mode # repeat /\ repeat' = mode
  /\ UNCHANGED <<rows, floor, now, requestVars, shuffle, order, pos, h, voiceVars, ghosts>>

\* DELETE /queue/{id}, in a thread of its own: the row goes and commits...
Delete(p, i) ==
  /\ User(p, "delete")
  /\ i \in InQueue(rows)
  /\ rows' = RowsWithout(i)
  /\ Await(p, "delOrder", i, 0)
  /\ UNCHANGED <<floor, now, requestVars, shuffleVars, voiceVars, ghosts>>

\* ...then the shuffle order, if it is on and lists the id, ...
DeleteFromOrder(p) ==
  LET i == h[p].arg
  IN /\ h[p].at = "delOrder"
     /\ IF shuffle /\ Contains(order, i)
        THEN order' = Removed(order, i) /\ Await(p, "delPos", IndexOf(order, i), 0)
        ELSE order' = order /\ Finish(p)
     /\ UNCHANGED <<rows, floor, now, requestVars, shuffle, repeat, pos, voiceVars, ops, ghosts>>

\* ...and last the index into it.
DeleteFixPos(p) ==
  /\ h[p].at = "delPos"
  /\ pos' = PosAfterRemoval(h[p].arg, pos)
  /\ Finish(p)
  /\ UNCHANGED <<rows, floor, now, requestVars, shuffle, repeat, order, voiceVars, ops, ghosts>>

-----------------------------------------------------------------------------
(* Resumptions: what a handler does when what it awaited has come back. *)

Returned(p, point) == h[p].at = point /\ h[p].reply # "none"

\* Mutants: the row is not looked at again; the index does not follow the track.
NotSuperseded(ticket, i) == IsCurrent(ticket)
PosLeftBehind(i) == pos

CanTakeOver(ticket, i) == IsCurrent(ticket) /\ i \in InQueue(rows)
PosOnTakeOver(i) == IF shuffle /\ Contains(order, i) THEN IndexOf(order, i) ELSE pos

\* _play_queue_item_internal once the URL is there.  A superseded request returns; a
\* request whose row is gone raises when it writes the row back; the others take over.
\* Either way `finally` clears the pending item if it is this one.
TakeOver(p) ==
  LET i == h[p].arg
  IN /\ pos' = PosOnTakeOver(i)
     /\ now' = NowPlaying(i, h[p].track)
     /\ took' = h[p].ticket
     /\ Send(p, "play", h[p].track)
     /\ Await(p, "play", i, h[p].ticket)
     /\ UNCHANGED pending

GiveUp(p) ==
  /\ pending' = PendingWithout(h[p].arg)
  /\ Finish(p)
  /\ UNCHANGED <<pos, now, took, wire>>

Resolved(p) ==
  /\ h[p].at = "resolve"
  /\ \/ IF CanTakeOver(h[p].ticket, h[p].arg) THEN TakeOver(p) ELSE GiveUp(p)
     \/ MayFail /\ GiveUp(p)
  /\ UNCHANGED <<rows, floor, gen, shuffle, repeat, order, voice, events, ops, used>>

\* voice.play has answered or raised: the history row, and `finally`.
Played(p) ==
  /\ Returned(p, "play")
  /\ GiveUp(p)
  /\ UNCHANGED <<rows, floor, gen, shuffle, repeat, order, voice, events, ops, used>>

\* The song is known (or the search raised, or found nothing).  The request fixed the
\* route from the start; nothing has depended on it so far, so it is chosen here.
LookedUp(p) ==
  /\ h[p].at = "lookup"
  /\ \/ \E route \in Routes(p) : StartEnqueue(p, h[p].track, route)
     \/ /\ MayFail
        /\ Finish(p)
        /\ UNCHANGED <<rows, floor, now, requestVars, shuffleVars, voiceVars, ghosts>>
  /\ ops' = ops

\* _enqueue_qqmusic_song without play_now: the row comes when its URL does.
FetchedAdd(p) ==
  /\ h[p].at = "fetchAdd"
  /\ Insert(h[p].track) \/ (MayFail /\ UNCHANGED <<rows, floor, used>>)
  /\ Finish(p)
  /\ UNCHANGED <<now, requestVars, shuffleVars, voiceVars, ops, took>>

\* The enqueue routes once the URL is there: insert the row and take over, unless a
\* newer command superseded the ticket (409).
Fetched(p) ==
  /\ h[p].at = "fetch"
  /\ \/ /\ h[p].ticket = 0 \/ IsCurrent(h[p].ticket)
        /\ Insert(h[p].track)
        /\ now' = NowPlaying(NextId, h[p].track)
        /\ took' = IF h[p].ticket = 0 THEN took ELSE h[p].ticket
        /\ Send(p, "play", h[p].track)
        /\ Await(p, "playNew", NextId, h[p].ticket)
     \/ /\ MayFail \/ h[p].ticket \notin {0, gen}
        /\ Finish(p)
        /\ UNCHANGED <<rows, floor, used, now, took, wire>>
  /\ UNCHANGED <<requestVars, shuffleVars, voice, events, ops>>

\* Handlers with nothing left to do but answer.
Done(p) ==
  /\ Returned(p, "playNew") \/ Returned(p, "last")
  /\ Finish(p)
  /\ UNCHANGED <<rows, floor, now, requestVars, shuffleVars, voiceVars, ops, ghosts>>

\* next, skip: play what follows, unless voice.skip raised.
Skipped(p) ==
  /\ Returned(p, "skipped")
  /\ IF h[p].reply = "ok" THEN AutoNext(p, h[p].arg, rows, order, pos, now)
     ELSE Finish(p) /\ UNCHANGED <<requestVars, order, pos>>
  /\ UNCHANGED <<rows, floor, now, shuffle, repeat, voiceVars, ops, ghosts>>

\* An ERROR event: the notice is best effort, the next track follows whatever it does.
Noticed(p) ==
  /\ Returned(p, "notice")
  /\ AutoNext(p, NoItem, rows, order, pos, now)
  /\ UNCHANGED <<rows, floor, now, shuffle, repeat, voiceVars, ops, ghosts>>

\* /voice/play with the status in hand; only this route looks at the pending item.
StatusRead(p) ==
  /\ Returned(p, "status")
  /\ \/ /\ h[p].reply = "idle" /\ pending = NoItem
        /\ AutoNext(p, NoItem, rows, order, pos, now)
        /\ UNCHANGED <<now, wire>>
     \/ /\ h[p].reply = "paused"
        /\ now' = [now EXCEPT !.paused = FALSE]
        /\ Send(p, "resume", NoTrack) /\ Await(p, "last", 0, 0)
        /\ UNCHANGED <<requestVars, order, pos>>
     \/ /\ h[p].reply # "paused" /\ (h[p].reply = "idle" => pending # NoItem)
        /\ Finish(p)
        /\ UNCHANGED <<now, wire, requestVars, order, pos>>
  /\ UNCHANGED <<rows, floor, shuffle, repeat, voice, events, ops, ghosts>>

\* chat "add" and chat "random" with the status in hand
StatusReadAuto(p) ==
  /\ Returned(p, "statusAuto")
  /\ IF h[p].reply = "idle" THEN AutoNext(p, NoItem, rows, order, pos, now)
     ELSE Finish(p) /\ UNCHANGED <<requestVars, order, pos>>
  /\ UNCHANGED <<rows, floor, now, shuffle, repeat, voiceVars, ops, ghosts>>

-----------------------------------------------------------------------------
(* The worker's playback events *)

EventReady == h[Worker] = Idle /\ events # <<>>

\* STARTED is only broadcast; an event that does not match what is playing is dropped.
EventIgnored ==
  /\ EventReady
  /\ ~Matches(Head(events).src)
  /\ events' = Tail(events)
  /\ UNCHANGED <<rows, floor, now, requestVars, shuffleVars, h, wire, voice, ops, ghosts>>

\* _handle_playback_finished
PlaybackFinished ==
  LET i == now.item
  IN /\ EventReady /\ Head(events).type = "finished" /\ Matches(Head(events).src)
     /\ events' = Tail(events)
     /\ now' = Nothing
     /\ IF repeat = "one" /\ now.detached = NoItem
        THEN Begin(Worker, i, rows, gen, pending) /\ UNCHANGED <<rows, order, pos>>
        ELSE IF now.detached # NoItem
        THEN rows' = rows /\ AutoNext(Worker, NoItem, rows, order, pos, Nothing)
        ELSE /\ rows' = RowsWithout(i)
             /\ AutoNext(Worker, NoItem, rows', OrderWithout(i), PosWithout(i), Nothing)
     /\ UNCHANGED <<floor, shuffle, repeat, wire, voice, ops, ghosts>>

\* The ERROR branch of _chat_command_worker, up to its notice
PlaybackError ==
  LET i == now.item
  IN /\ EventReady /\ Head(events).type = "error" /\ Matches(Head(events).src)
     /\ events' = Tail(events)
     /\ now' = Nothing
     /\ rows' = RowsWithout(i) /\ order' = OrderWithout(i) /\ pos' = PosWithout(i)
     /\ Send(Worker, "notice", NoTrack) /\ Await(Worker, "notice", 0, 0)
     /\ UNCHANGED <<floor, requestVars, shuffle, repeat, voice, ops, ghosts>>

-----------------------------------------------------------------------------
(* The voice service, as the backend sees it *)

\* The state after a command.  Nothing but these changes it: the end of a track does not.
After(v, c) ==
  CASE c.cmd = "play"             -> [src |-> c.src, state |-> "playing", live |-> TRUE]
    [] c.cmd \in {"skip", "stop"} -> Nowhere
    [] c.cmd = "pause"  /\ v.state = "playing" -> [v EXCEPT !.state = "paused"]
    [] c.cmd = "resume" /\ v.state = "paused"  -> [v EXCEPT !.state = "playing"]
    [] OTHER -> v

Deliverable(k) == k \in DOMAIN wire /\ (InOrder => k = 1)

Serve(k) ==
  /\ Deliverable(k)
  /\ voice' = After(voice, wire[k])
  /\ wire' = RemoveAt(wire, k)
  /\ \E r \in {IF wire[k].cmd = "status" THEN voice.state ELSE "ok"}
              \cup (IF MayFail THEN {"error"} ELSE {}) :
       h' = [h EXCEPT ![wire[k].by].reply = r]
  /\ UNCHANGED <<rows, floor, now, requestVars, shuffleVars, events, ops, ghosts>>

\* The call raises and the command never ran.
CallLost(k) ==
  /\ MayFail /\ Deliverable(k)
  /\ wire' = RemoveAt(wire, k)
  /\ h' = [h EXCEPT ![wire[k].by].reply = "error"]
  /\ UNCHANGED <<rows, floor, now, requestVars, shuffleVars, voice, events, ops, ghosts>>

\* The playback loop ends by itself.  The status is left as it is.
LoopEnds(type) ==
  /\ voice.live /\ voice.state = "playing" /\ gen < MaxGen
  /\ voice' = [voice EXCEPT !.live = FALSE]
  /\ events' = Append(events, [type |-> type, src |-> voice.src])
  /\ UNCHANGED <<rows, floor, now, requestVars, shuffleVars, h, wire, ops, ghosts>>

\* The subscription breaks: what it had not delivered is gone.
EventsLost ==
  /\ MayLose /\ events # <<>>
  /\ events' = <<>>
  /\ UNCHANGED <<rows, floor, now, requestVars, shuffleVars, h, wire, voice, ops, ghosts>>

-----------------------------------------------------------------------------
Init ==
  /\ rows \in {q \in [Ids -> Tracks \cup {NoTrack}] :
                 \A i \in Ids : (q[i] # NoTrack) <=> (i \in (InitFloor+1)..(InitFloor+InitLen))}
  /\ floor = IF InitFloor = 0 THEN 0 ELSE InitFloor + InitLen
  /\ now = Nothing /\ gen = 0 /\ pending = NoItem
  /\ shuffle = FALSE /\ order = <<>> /\ pos = 0 /\ repeat \in InitRepeat
  /\ h = [p \in Procs |-> Idle]
  /\ wire = <<>> /\ voice = Nowhere /\ events = <<>>
  /\ ops = 0 /\ took = 0
  /\ used = IF InitFloor = 0 THEN {} ELSE 1..(InitFloor + InitLen)

Command(p) ==
  \/ \E i \in Ids : PlayItem(p, i) \/ Delete(p, i)
  \/ PlayFirst(p) \/ VoiceNext(p) \/ VoiceSkip(p) \/ VoicePrevious(p) \/ ChatStop(p) \/ ClearFails(p)
  \/ \E stop \in BOOLEAN : Clear(p, stop)
  \/ \E t \in Tracks : LookUp(p, t) \/ \E route \in WebRoutes : Enqueue(p, t, route) \/ Replay(p, t, route)
  \/ VoicePlay(p) \/ VoicePause(p) \/ ChatResume(p)
  \/ \E on \in BOOLEAN : SetShuffle(p, on)
  \/ \E mode \in Modes : SetRepeat(p, mode)

Continue(p) ==
  \/ Resolved(p) \/ Played(p) \/ LookedUp(p) \/ FetchedAdd(p) \/ Fetched(p) \/ Done(p)
  \/ Skipped(p) \/ Noticed(p) \/ StatusRead(p) \/ StatusReadAuto(p)
  \/ DeleteFromOrder(p) \/ DeleteFixPos(p)

HandleEvent == EventIgnored \/ PlaybackFinished \/ PlaybackError

Backend == (\E p \in Procs : Command(p) \/ Continue(p)) \/ HandleEvent

VoiceService ==
  \/ \E k \in 1..Len(wire) : Serve(k) \/ CallLost(k)
  \/ \E type \in {"finished", "error"} : LoopEnds(type)
  \/ EventsLost

Next == Backend \/ VoiceService
Spec == Init /\ [][Next]_vars

\* Awaited calls come back (each has a timeout), the loop runs every ready coroutine,
\* and the worker takes the next event whenever it is free.  Users need not act and a
\* track need not end.
Fairness ==
  /\ \A p \in Procs : WF_vars(Continue(p))
  /\ WF_vars(HandleEvent)
  /\ WF_vars(Serve(1))
FairSpec == Spec /\ Fairness

-----------------------------------------------------------------------------
(* Properties *)

HandlerOK(r) ==
  /\ DOMAIN r = DOMAIN Idle
  /\ r.at \in Points /\ r.ticket \in Nat /\ r.reply \in Replies
  /\ r.track \in Tracks \cup {NoTrack}
  /\ r.at \in {"resolve", "lookup", "fetchAdd", "fetch"} => r.track \in Tracks
  /\ r.at # "delPos" => r.arg \in Nat

NowRecord == [item : Ids \cup {NoItem}, src : Tracks \cup {NoTrack},
              detached : Ids \cup {NoItem}, paused : BOOLEAN]

Call        == [by : Procs, cmd : Cmds, src : Tracks \cup {NoTrack}]
VoiceRecord == [src : Tracks \cup {NoTrack}, state : {"idle", "playing", "paused"},
                live : BOOLEAN]

VoiceTyped == wire \in Seq(Call) /\ voice \in VoiceRecord

\* The queue, the requests and the handlers are well typed: a request that resolves a
\* track has one, and the ids stay under their bound.
RequestsTyped ==
  /\ rows \in [Ids -> Tracks \cup {NoTrack}] /\ floor \in 0..MaxId /\ used \subseteq Ids
  /\ now \in NowRecord
  /\ gen \in Nat /\ pending \in Ids \cup {NoItem} /\ took \in Nat
  /\ DOMAIN h = Procs /\ \A p \in Procs : HandlerOK(h[p])

\* Every variable has its type; the counters stay under their bounds.
TypeOK ==
  /\ RequestsTyped /\ VoiceTyped
  /\ shuffle \in BOOLEAN /\ repeat \in Modes
  /\ ToSet(order) \subseteq Ids /\ pos \in Nat
  /\ \A p \in Procs : h[p].at = "delPos" => h[p].arg \in Nat
  /\ \A k \in DOMAIN events : /\ events[k].type \in {"finished", "error"}
                              /\ events[k].src \in Tracks
  /\ ops \in 0..MaxOps

\* The pending item always belongs to the newest play request, and that request is
\* still in progress: no path through the handlers, failures included, leaves a pending
\* item behind that would make POST /voice/play answer "pending" for ever.
PendingHasOwner ==
  pending # NoItem =>
    \E p \in Procs : /\ h[p].at \in {"resolve", "play"}
                     /\ h[p].arg = pending /\ h[p].ticket = gen

\* A detached track (cleared from the queue while it plays on) is the current track and
\* no row has its id, whatever is added, removed or played meanwhile: its finish cannot
\* delete a song that was queued later.
DetachedIsNotARow ==
  now.detached # NoItem => /\ now.item = now.detached
                           /\ now.detached \notin InQueue(rows)
                           /\ now.detached <= floor

\* What becomes the current item is a row of the queue at that moment, however long
\* its URL took to resolve and whatever was deleted or cleared meanwhile.
OnlyRowsStartPlaying ==
  [][now'.item \notin {NoItem, now.item} => now'.item \in InQueue(rows')]_vars

\* Tracked play requests take over playback in the order they were made: once a newer
\* one has, or a clear or a stop came in between, an older one never does, in whatever
\* order their URLs resolve.
TakeoversInOrder == [][took' # took => took' > took /\ took' = gen]_vars

\* Once a clear has reserved ids, no id that a row has had since is given out again.
IdsUniqueAfterClear ==
  [][floor # 0 => (InQueue(rows') \ InQueue(rows)) \cap used = {}]_vars

\* The shuffled order lists no row twice, and the index is inside it but for the
\* deletions that have shortened it and not yet moved the index.  While the newest
\* request is the one that took over, the index is on the track that plays, whatever
\* older requests, failures, additions and resyncs of the order happen around it:
\* `next` and `previous` start from there.
ShuffleIndexFollows ==
  /\ \A i, j \in DOMAIN order : order[i] = order[j] => i = j
  /\ pos <= Len(order) + Cardinality({p \in Procs : h[p].at = "delPos"})
  /\ ~shuffle => order = <<>> /\ pos = 0
  /\ took = gen /\ Contains(order, now.item) => pos > 0 /\ order[pos] = now.item

\* What becomes of the voice service's status v when it serves the commands w in order.
Served(v, w) ==
  LET after[k \in 0..Len(w)] == IF k = 0 THEN v ELSE After(after[k-1], w[k])
  IN after[Len(w)]
\* What it will be doing once it has served the commands on the wire.
Commanded == Served(voice, wire)

\* What the backend shows as playing (or paused) is what the commands it sent, in the
\* order it sent them, tell the voice service to play (or pause), however the handlers
\* that sent them interleaved.
ShownIsCommanded ==
  now.item # NoItem => /\ Commanded.src = now.src
                       /\ Commanded.state = IF now.paused THEN "paused" ELSE "playing"

\* A pending item does not stay pending: the request resolves, fails or is superseded.
PendingSettles == pending # NoItem ~> pending = NoItem

\* When the current track ends by itself, the next song of the queue comes to play,
\* unless the queue has been emptied.
FinishedTrackIsFollowed ==
  events # <<>> /\ Matches(Head(events).src) ~> voice.live \/ InQueue(rows) = {}
=============================================================================
