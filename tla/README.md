# Verification of Mineradio-web-tsbot

A music bot for TeamSpeak: a Python backend (FastAPI) keeps a queue in SQLite and
decides what plays, a Rust voice service decodes and sends the audio, and web clients
and chat commands steer the two. This directory holds TLA+ models of the parts whose
correctness depends on interleavings, their TLC configurations, and proofs checked by
TLAPS. `PROJECT.json` maps every definition to the lines of `src/` it stands for.

Contents: [inventory](#inventory), [modules](#modules), [runs](#runs),
[fairness](#fairness), [proofs](#proofs), [where code and documents differ](#where-code-and-documents-differ),
[what is not modelled](#what-is-not-modelled), [plan](#plan).

## Inventory

### Parts and how they interact

```
 web clients --HTTP--> backend/main.py --gRPC unary--> voice-service/src/main.rs
      ^                  |   ^  ^                         |  status, playback mutexes
      |                  |   |  +---- event stream -------+  playback loop (ffmpeg -> Opus -> TS3)
      +--/ws/status------+   |
         ws_manager.py       +-- TeamSpeak chat (through the same event stream)
```

| Part | State | Operations | What is hard |
|---|---|---|---|
| Playback orchestration, `backend/main.py`, `models.py` | queue table and id floor; now-playing record; play-request generation; pending item; shuffle order and index; repeat mode | play, next, previous, skip, stop, clear (with or without stopping), delete, add, enqueue, pause/resume, shuffle, repeat; the worker that handles voice events and chat | every handler suspends in URL resolution (seconds) and in each RPC, and others run meanwhile; RPCs and resolutions fail; one endpoint runs in the thread pool; events carry no playback id and can be lost |
| Voice service control, `voice-service/src/main.rs` | `SharedStatus`; the `PlaybackControl` slot; the spawned loops (cancellation, pause channel) | Play, Seek, Stop/Skip, Pause, Resume; loops that end, fail, hang, report | truly parallel handlers, two mutexes taken in turn, a timed join under one of them, an abort that races the loop's own end |
| Status push, `backend/ws_manager.py` | a bounded queue, an event and a writer task per client; tasks that close sockets | connect, disconnect, broadcast, reply, drain, close | slow clients, coalescing, wakeups, cancellation at every await, shutdown |
| Voice client, `backend/voice_client.py` | a channel | unary calls with deadlines, the event subscription | calls that fail or are answered late |
| Shared QQ library, `backend/qq_library.py` | load tasks, one pending load per cookie, a sixty-second cache | directory, detail, refresh, close | readers that share a load and go away, an account that is replaced meanwhile, a silent server |
| QQ account, `backend/qqmusic.py` and its endpoints | the saved cookie, the player's cookie, one jar for all QR logins | QR key, poll, confirm, paste, clear, visitor's cookie | logins that overlap in one jar, six writers of two cookies |
| Bilibili audio and login, `main.py:2180-2380`, `bilibili_cache.py`, `bilibili_auth.py` | cached files, per-video locks, a semaphore, QR sessions with their HTTP clients | look up, evict, download, fall back, start and poll a login, expire, shut down | a lookup in a thread beside one on the loop, pieces that failures leave, locks kept across awaits, sessions closed by whoever comes first |
| Settings, `runtime_config.py`, `managed_assets.py` and their endpoints | rows, pending effects, attributes, the voice service's configuration file, the gRPC channel | save, apply, reset, upload, delete an image, start | four copies of a setting, a thread that writes the same file, errors after a commit |
| TeamSpeak description, `main.py:465-568` | a request flag, a task, the time of the last update | schedule, worker | debounce and rate limit, scheduled from two threads |
| Releases, `scripts/deploy_web.py`, `deploy_queue_clear.py`, `verify_deployment.py` | images, overrides, containers, manifest, report; the backend's checkpoint | Web release, rollback, paired release, acceptance | commands that fail, signals, lost connections, an interrupted operator, a song that must go on |
| Position clock, `main.py:629-676` | three times | pause, resume, seek, take over | real time |
| Web client: clear, import, write gate | pending writes, importer task | write, import, clear | a destructive call that must not overtake writes in flight |
| Web client: live state | generations, queue revision | pushed messages, reads, reconnection | late reads against newer state |
| Adapters, authentication, storage | HTTP clients, sessions, rows | requests | mostly I/O and sequential code |
| TeamSpeak actor, audio pipeline | connection, PCM buffer | connect, retry, decode, encode | library-driven; real-time cadence |
| Rendering, containers, vendored code | - | - | outside what a model can settle |

How the modelled parts meet: `Settings` contains `Description` (an applied title asks
the description's worker for an update) and the voice service's configuration watcher;
`Playback` contains the voice service as the backend sees it; `Release` contains the
backend's start-up with its playback checkpoint; `QQLibrary` takes the saved cookie that
`QQLogin` changes as its environment.

### What correctness means here

- *Playback*: a request that was overtaken never takes over; only rows of the queue
  start playing; a detached track (cleared while it plays) stays apart from the queue;
  ids are not given out twice; a pending song belongs to somebody and settles; what is
  shown is what was commanded; the shuffled order follows what plays; the end of a
  track starts the next one.
- *Voice service*: one loop plays, every stop reaches it, its end is reported once and
  in order or not at all, every call answers.
- *Status push*: state changes arrive, once and in order; nothing waits for a sleeping
  writer; a dropped client is sent nothing more; shutdown leaves nothing.
- *Releases*: nothing is called deployed that was not probed; how an operation ends tells
  what runs; a working Web client survives a failed release; a paired release keeps
  the song.
- *Bilibili*: a piece that a failure left is never served; a path outlives its use; a
  video is not downloaded twice; a login's client is open as long as the login can be
  polled; every request ends.
- *QQ*: a login saves its own account; the player follows the saved cookie; playlists
  shown are those of the saved account; one load at a time serves everybody.
- *Settings*: a saved change is in force or pending; the voice service comes to run with
  it; the channel goes to the address in force; TeamSpeak shows what was asked for.

## Modules

| Module | Models | Proofs | For TLC |
|---|---|---|---|
| `Playback` | orchestration, with the voice service as the backend sees it | `PlaybackProofs` | `MCPlayback` |
| `VoiceService` | the Rust control code | `VoiceServiceProofs` | `MCVoiceService` |
| `WsManager` | the status push | `WsManagerProofs` | `MCWsManager` |
| `Release` | the release scripts, their acceptance checks, the checkpoint | `ReleaseProofs` | `MCRelease` |
| `Bilibili` | audio cache and downloads, QR logins | `BilibiliProofs` | `MCBilibili` |
| `QQLogin` | QQ account: logins and cookies | `QQLoginProofs` | `MCQQLogin` |
| `SingleFlight` | abstract: shared loads, one per key | - | - |
| `QQLibrary` | the shared library, implements `SingleFlight` | `QQLibraryProofs` | `MCQQLibrary` |
| `Description` | the TeamSpeak description's worker | - | - |
| `Settings` | runtime settings, extends `Description` | `SettingsProofs` | `MCSettings` |

Definitions marked *Mutant* are deliberate errors that the specifications never use;
each is the replacement that shows a property can fail (`PROJECT.json`, "mutants").

### Playback

State to code: `rows` is the table `queue_items`, `floor` is `models._queue_id_floor`,
`now` groups `_current_queue_item_id`, `_current_source_url`, `_cleared_playing_item` and
whether `_paused_at` is set, `gen` is `_play_request_generation`, `pending` is
`_pending_queue_item_id`, `order` and `pos` are `_shuffle_queue` and
`_current_shuffle_index + 1`. `h[p]` says where coroutine `p` is suspended and which
locals it keeps; `wire`, `voice` and `events` are the RPCs under way, the voice
service's status, and the event stream.

Atomicity. Everything but one endpoint runs on one event loop. `_playback_lock` never
suspends anybody, as no body that holds it awaits, so the suspensions are exactly URL
resolution and RPCs and a step is the code between two of them. One action per
handler stands for its code up to the first suspension (`PlayItem`, `VoiceNext`,
`VoiceSkip`, `Clear`, ...) and one per resumption (`Resolved`, `Played`, `Fetched`,
`Done`, `Skipped`, ...). `DELETE /queue/{id}` is a `def` endpoint and runs in the
thread pool: its three sections (`Delete`, `DeleteFromOrder`, `DeleteFixPos`)
interleave with the event loop.

Abstraction. A track is its source URL, so two rows can share one, as they can in the
code. Titles, artists, artwork, durations, history rows and notices' wording are left
out. URL resolution either succeeds or raises.

### VoiceService

State to code: `status` is `SharedStatus` (state and source), `slot` the
`Option<PlaybackControl>`, `loops` the tasks spawned so far with their cancellation
token, pause channel and progress, `lock` the handler that keeps the `playback` mutex
across an await. Only `stop_internal` does; every other critical section has no await
inside it and is one step. `h[c]` is where a handler is. A loop is *playing*, *held*
(paused), *ended* or *failed* (the loop function has returned, or is winding up),
*finished* or *error* (it has read `is_cancelled()` as false and is about to emit),
and *done*. Reading the token and emitting are two steps, as another thread can cancel
in between. A join can time out whatever an unfinished loop does, since a loop can
block on the audio channel or on ffmpeg.

### WsManager

State to code: `connections`, `pending`, `ready` and `writer` are the fields of
`_connections`; a queue is the set of its messages, which are numbered as they come, so
that its head is the least; `closer` is the task of `_drop_slow_client`; `cancelled` holds the
writers whose cancellation is requested and not yet seen. A cancelled task resumes
with `CancelledError` at its await, except where it awaits a send that has just
completed: the backend's image runs Python 3.11 (`Dockerfile.backend`), whose
`asyncio.wait_for` then returns normally. The step between the completion of a send
and the writer's next turn is therefore a state of its own (`"sent"`), in which a
cancellation is swallowed (`GoesOn`). `offered` and `got` are history variables.

### Release

State to code: `op[o]` is what operator `o`'s script knows (kind, release, what it had
found, where its remote shell is, whether `switched` and `complete` are set). `serves`
is what the containers run, `under` the override the Web container's labels name,
`override` the override files, `stage` the release directories with their manifests, and
`offers` the routes each release's image serves (none before it is built).
`checkpoint` and `saved` are the file the backend consumes and the copy a release keeps.
An image may have a defect; the checks of `verify_deployment.py` are predicates over
what a site offers, each with the code it reads. One action per remote command that
changes something; a command may fail (`set -e` runs the trap), a signal or a lost
connection may come between any two, and the acceptance or its restore may be
interrupted. A history flag, `trouble`, marks an operation that overlapped with another,
got a signal, lost its connection, was interrupted on the operator's side after the
switch, or whose restoring `up` failed; a command that fails otherwise is no trouble.
Playback is one track with the voice service's status, so that capture,
restart, restore and comparison of a paired release can meet a song's end.

### Bilibili

`task[r]` is what a request is doing; `videoLock` and `downloading` are the per-video
locks and the semaphore. `dir[v]` is what the cache directory has of a video: its finished
file and its `.part` file, each absent, a piece, whole or empty; a broken stream, a failed
yt-dlp and the death of the process leave pieces there. `mtime` and `clock` are the
modification times. `look[r]` is what a lookup has read: the listed files it has still to
look at, the times of the others, what it counts. One action for each file that is looked
at, found too old, or removed (`Stat`, `Expire`, `Evict`), then the second listing and
`touch()` (`List`, `Touch`): on the event loop only worker threads come between them, in a
download's worker thread anything does. QR logins are sessions with an HTTP client each,
polled by several pages, expired by age, closed at shutdown; a login may fail before the
registry knows it, with (`GenerateFails`) or without (`LeftOpen`) its client being closed.
A file has one size and the directory room for `MaxFiles`.

Three variables are history. `since` of a request are the videos used since its path was
found, `crossed` says that two lookups overlapped meanwhile, `entered` are the logins that
were in the registry. `crossed` and `entered` mark where the code does not keep what one
would like it to: see the exceptions below.

### QQLogin

A cookie is the account it belongs to, its music key and its QR session. `jar` is the
client's one session for all logins, `stored` the saved row, `player` what the adapter
uses, `visitor` a cookie a visitor brought. Every request of a login is two actions,
sending and answer, and the pages a confirmed login visits are one each.

### QQLibrary and SingleFlight

`reader[r]` is a request (which cookie it read, which load it awaits), `flight[f]` a load
task with its progress, `pending` the table of loads by cookie, `cache` the kept
snapshots. A `done` callback is a step of its own (`Forget`), as asyncio runs it later.
`SingleFlight` says what a library of shared loads promises: one flight per key at a
time, an answer is of the key that was asked for and was loaded for it, a reader that
leaves takes nobody's load away. `Promise` maps the library to it. Bound: a load needs
a free member of `Flights`; a cookie's page loop is bounded by `MaxPages`.

### Settings and Description

Three settings stand for all: `addr` (backend only), `host` (voice service only) and
`desc` (both). `db` holds the rows (`None`: no row), `pending` the effects of saved and
not applied changes, `attrs` the backend's attributes, `file` the configuration file or
`Torn`, `loaded` the bytes the voice service read when it started. A handler runs in
one step up to an await; deleting an image runs in a thread with three steps, whose
write and the loop's share a temporary file: writes that meet may come out torn, stale
or as an error. Three ghosts say when the code leaves a copy behind by itself:
`troubled` (a write failed or met another), `unclosed` (an address came into force by a
request that did not name it), `lost` (the last description met an error).
A description's text is the number of the last change it shows; `asked` is the number at
the last request for an update.

## Runs

All passing runs end within three minutes. `qq_library` and `qq_login` check for deadlock;
the others say `CHECK_DEADLOCK FALSE`, because their bounds (and, in the system, users who
stop acting) end every behaviour.

| Run | Bounds | Shows |
|---|---|---|
| `playback_requests` | 2 requests and the worker, 3 ids, 3 commands, RPCs in any order, failures, lost events | request generation, pending item, detached track, ids: `TypeOK`, `PendingHasOwner`, `DetachedIsNotARow`, `OnlyRowsStartPlaying`, `TakeoversInOrder`, `IdsUniqueAfterClear` |
| `playback_commands` | every handler that sends a command or moves the shuffled order, RPCs in order, no failures | `ShownIsCommanded`, `ShuffleIndexFollows` |
| `playback_liveness` | 1 request and the worker, 2 tracks, ids up to 5, repeat all, no failures | `PendingSettles`, `FinishedTrackIsFollowed` |
| `voice` | 2 calls of which one controls, 3 loops, 1 toggle, 2 sources | `OneVoice`, `StatusOfSlot`, `EndsBeforeNextStart`, `StoppedStaysSilent`, `CallsAnswer` |
| `ws` | 2 clients, queues of 2, 3 messages | `ChangesReachClients`, `NoLostWakeup`, `OrphansSleep`, `ClosedMeansQuiet`, `DroppedGetNothing`, `WritersGetOn` |
| `release` | 2 operations in a row, 3 releases, 2 tracks, one kind of defect | `DeployedWasProbed`, `OutcomeIsTrue`, `WorkingWebStays`, `PlaybackSurvives` |
| `bilibili` | 2 requests at a time and 3 in all, 3 videos, room for 2, 1 download at a time, 1 login | `NoPieceIsServed`, `PathsOutliveTheirUse`, `NoClientIsLost`, `NeverDownloadedTwice`, `EveryRequestEnds` |
| `qq_login` | 2 logins of 2 accounts, pastes, clears, visitors, restarts | `PlayerFollowsStored`, `LoginSavesItsOwn` |
| `qq_library` | 2 readers, 2 cookies, loads that fail, stall and are closed | `CompleteIsWhole`, `AnswersAreCurrent`, `PromiseKept` (refinement), `EveryReaderIsAnswered` |
| `settings` | 3 events (changes, requests, restarts), 7 forms of a request | `RestingIsUpToDate`, `UnappliedIsPending`, `ChannelFollows`, `ChangesArrive` |
| `voice_overlap` | 2 overlapping Plays and a Stop | violates `StopSilences`, see below |
| `bilibili_evict` | a lookup on the loop and one in a thread | violates `RequestedAudioStays`, see below |

Why the bounds are enough. Three commands are what it takes for one request to be
overtaken by a second while a third removes its row; two requests and the worker give
three coroutines, so two can be suspended around a third. Three ids leave room for a
clear, a detached track and a new row; `playback_liveness` has five, so that no insertion
is stopped by the bound. Three loops are a predecessor, a current one
and a successor. Two messages fill a queue of two and the third overflows it or
replaces a position; clients interact only through broadcasts and shutdown, so two of
them show any effect of one on another. Two operations in a row are what a rollback
or a second release after a failed one needs; operators that overlap are covered by the
proofs only. Two requests and room for two of three videos make an eviction meet a
lookup and a download, and a third request finds what they left; with one request more
`bilibili_evict` reaches its counterexample. Two logins overlap in one jar; a third adds nobody new. One
event changes a setting, a second meets the thread that deletes an image, a third is a
restart or a further change. `MaxGen` bounds the generation up to which tracks end by
themselves, which keeps repeat modes finite.

`playback_commands` keeps `DELETE` out of the shuffled order's way and lets no RPC fail:
with the thread-pool `DELETE` the index can really leave the order (its two sections and
a skip between them move it twice), which is listed as a hazard; the model of `DELETE`
itself is exercised by `playback_requests`. The restrictions of that run are the hypotheses of
the two theorems about its properties. `TypeOK` of `Playback` is checked and proved, those of
`Release` and `WsManager` are proved; in the other modules it documents the state.

## Fairness

- *Backend coroutines* (`WF` on `Continue`, `HandleEvent`): the event loop runs every
  ready task, and everything awaited comes back: RPCs have deadlines
  (`voice_client.py`: 10 s for commands, 3 s for status), resolution uses HTTP clients
  with timeouts.
- *First RPC on the wire* (`WF` on `Serve(1)`): the voice service answers or the
  deadline passes.
- *Voice service handlers* (`SF` on `Handle(c)`): tokio schedules every task and its
  mutex is first come, first served, so a handler that keeps finding the mutex taken
  gets its turn. Nothing is assumed of a loop except that the few instructions of its
  report run; that calls answer rests on the two-second timeout of the join.
- *Writers* (`WF` on `Drain`, `SlowClosed`, `CloseStep`): every send and close in
  `ws_manager.py` has a timeout.
- *Bilibili requests*: every await in them has a timeout, and the locks are handed on in
  order; the phone and Bilibili's server are not assumed to answer.
- *Library loads*: the server need not answer, the 35-second limit ends every load and
  the HTTP client's time-out the request for a playlist's songs (a server that keeps
  sending a byte in time is not considered there); callbacks and woken readers run.
- *Settings*: the description's worker, the pool's thread, a callback, `voice.close()` and
  the voice service's watcher and restart get on (`WF` each); a text may meet an error
  every time.
- `Release`, `QQLogin` have safety properties only: an operator may stop for good.
- Users, peers and the end of tracks are never assumed to happen.

## Proofs

`tlapm` checks all proof modules to the last leaf. Every safety property of the passing
runs is the statement of a theorem. What the proofs assume are the named `ASSUME`s of the
modules, which TLC evaluates on each run, and what a theorem itself says:

| Theorem | Hypothesis | Why |
|---|---|---|
| those of `VoiceServiceProofs` | `MaxControl = 1` | playback commands that overlap break them (`voice_overlap`) |
| `ShownAsCommanded` | `InOrder`, `~MayFail` | a `voice.play` that raises leaves the record set (`main.py:834`); RPCs served out of order swap what plays |
| `IndexFollowsShuffle` | no `"delete"` in `Ops` | the thread's deletion and a skip move the index twice |

`PlaybackProofs` (any number of requests, tracks, ids and commands):

- `Typed`: the queue, the requests and the voice side keep their types.
- `PendingAlwaysHasOwner`: from the types and the property itself, which is inductive:
  a handler's step either leaves the owner's record alone, or hands the pending item
  to the newest ticket, or clears it.
- `IdsStayUnique`: from `UsedUnderFloor` (every id used since the floor is in force is
  at most the floor, and the table has nothing above it). The property alone is not inductive,
  as it does not say how the floor relates to what was used.
- `DetachedStaysDetached`: new rows have ids above the floor, the detached id is not.
- `OnlyRowsPlay`: the take-over tests the row in the step in which it takes over.
- `TakeoversStayInOrder`: from `TookPast` (no handler's ticket and no past take-over is
  newer than the generation); a take-over needs the newest ticket.
- `TypeCorrect`: the whole of `TypeOK`, from `AllTyped`, which adds to `Typed` the shuffled
  order (a sequence of ids), what every handler waits for and the counters' bounds.
- `ShownAsCommanded`: the property is inductive with the types. Serving is a fold over the
  wire; the lemmas on `Served` say that a command sent goes to its end, that the voice
  service takes it from its front, and that equal statuses stay equal. `ShowStep` lists the
  ways in which a step can change the record together with what it sends.
- `IndexFollowsShuffle`: from `OrderFits` (the order lists rows of the queue, none twice, and
  the index is inside it) and `TookPast`: a step takes a new ticket, after
  which the property asks nothing until that ticket takes over, or leaves order and index
  alone, or puts the index where the track that plays is listed (`FollowStep`).

The last two speak of `list.remove`, of a list comprehension and of a fold, which are
recursive functions on the prefixes of a sequence. `RunExists` shows that such a function is
what its definition says, `Induct` is induction along it by a least counterexample
(`LeastNatural`), as the library's induction theorems cannot be instantiated.

`VoiceServiceProofs` (any number of calls, loops, sources, pauses and resumes; `MaxControl = 1`):

- `OneVoiceAlways`, `EndsInOrder`, `SilentAfterStop` from one invariant: every loop that
  can still report is the slot's or is held by a handler (`Owned`), what is owned is the
  newest loop (`Newest`), the slot is empty from the moment a command takes it until it
  puts its control back (`Vacated`), a joined loop is cancelled (`Joining`), and at most
  one command is in progress (`Alone`). `Owned` is what makes it inductive: uniqueness
  alone does not exclude a loop that a later spawn would double.
- `StatusIsTheSlots`: from `Shown`. Between taking the slot and filling it again a command
  brings the status to the loop it is about to put there (`Announced`); with no command
  between the two, status and slot match (`Matches`). A pause or resume changes only the
  state, and only of a status that is not idle.

`WsManagerProofs` (any number of clients and messages, any queue bound):

- `NoMessageIsForgotten`, `WritersOfTheGoneSleep`, `CloseLeavesNothing`,
  `NothingAfterTheDrop` from one invariant: a connection not yet accepted has left no
  trace (`Fresh`), the queue of a connection that is gone is empty unless its writer is
  closing the socket (`Emptied`), `close()` has unregistered everything and awaits
  every writer (`Closing`), and the two properties themselves. `Emptied` is what keeps
  a writer that swallowed its cancellation from sending on.
- `ChangesArrive`: from `Records`. A client's messages are numbered below the counter
  (`Numbered`); a state change or reply that was offered to a connected client has been sent,
  is being sent or waits (`Complete`), whatever was sent is older than what waits
  (`Ordered`), and a position that waits is the newest one offered (`NewestWaits`).
- `QueuesAreBounded`: `TypeOK` with the bound on the queues, from `Bounded`; coalescing makes
  the room that the newest position takes, and a full queue drops the client.

`ReleaseProofs` (any number of operators that overlap, releases, defects, operations):

- `TypesHold` and `DeployedAreProbed`: the manifest says "deployed" only of an image that
  was probed. Inductive with it: a shell past its probe holds an image that works, the
  images of a release do not change once built, and two operators never build into the
  same release directory (`Fresh`, which the test of the directory gives up to the gap
  between the test and its creation).
- `OverridesAreWrittenOnce`, `LabelsAreTrue`: an override is written by the operation that
  makes its release, into a directory that was new (`Written`), and a running Web container
  names one that has its image (`Labelled`).
- `OutcomesAreTrue`, `WorkingWebClientsStay`, `PlaybackSurvivesPairs`: what an end, a
  recovery and a pair promise of an operation that had no trouble. Excepted are others
  working at the same time, a signal, a lost connection, an interrupted acceptance and a
  restore that fails; every other failure of a command is in. A failure past `complete=1`
  which is not the acceptance's - the manifest's update, the report - is reported as a
  failure with the new images running, and `OutcomesAreTrue` says just that. From
  `Relied`: an untroubled operation is the only one (`Exclusive`), the containers run what
  its progress says (`Reliable`), and what it goes back to is what it started from, as
  nobody writes an override again. `Named` says that the override of a Web release past its
  unpacking names its image, so that the running image, which is compared before
  `complete=1`, is the release's. `SteadyPlays` carries a captured track to the new backend.

`BilibiliProofs` (any number of requests, videos, slots, logins; room for any number of
files; assumed of the constants: both limits are positive, `Nothing` is nobody):

- All four go by `BInv`, an invariant of the audio (`AudioInv`) and one of the logins
  (`LoginInv`).
- `NoPieceReachesAPlayer`: a path is a finished file's (`Holds`), and no finished file is a
  piece (`Dated`), as a piece gets that name only when it is whole and a lookup never takes
  a `.part` file.
- `PathsStayGood`: a request's file is there and whatever is newer was noted, or as many
  were noted as there is room for (`Outlives`). That an eviction leaves it so needs what the
  evicting lookup has read: the times it holds are those of the files, if it overlapped with
  no other lookup (`Reads`), and whose path it meets it either protects, has noted itself
  against, or has not seen (`Meets`). Lookups that overlap know it, and so does every path
  that is held meanwhile (`Cross`): the theorem excepts those.
- `DownloadsAreNew`: a request between its lock and its path has its video's lock
  (`Locks`), past the semaphore one of its places (`Holds`), and no more are given out than
  there are (`SlotsInUse`).
- `ClientsAreClosed`: from `Starting`: a login that is being started has a client of its own
  and was never in the registry, so that its failure, closed or not, is nobody else's.

`QQLoginProofs` (any number of accounts and login windows):

- `PlayerIsOnStored`: inductive by itself once the types hold: the only steps that set
  the player to something else than the saved cookie are a visitor's and the answer of
  `auth_url`, which starts a visit that its own save ends.
- `LoginsSaveTheirOwn`: from `Own`: a window that has had the jar to itself since it
  emptied it finds some cookie in it, nobody's but its own account's, and asks the pages
  for no other. That it finds *some* cookie matters: with an empty jar the save would take
  the player's cookie, which is another's.

`SettingsProofs` (any values, requests and number of events):

- `NoRequestIsDropped`: from `DescInv`: a raised flag has a worker, a callback or a thread
  on its way to one; with a lowered flag the text on its way, or the last one sent, is at
  least as new as the last request.
- `ChannelGoesWhereItShould`: inductive by itself.
- `NothingUnappliedIsForgotten`: from `SettingsInv`. The property says nothing while the
  thread is at work; `DeleterPending` says it of what the thread is about to write, and
  that a write it overlaps with is remembered.

`QQLibraryProofs` (any number of readers, cookies, loads and pages; assumed of the
constants: `None` is no cookie and no load):

- `Invariant`: from `LInv`. A load that runs, or that has ended and whose callback is still
  to come, is the pending one of its cookie unless the library was closed (`Flown`); what is
  pending for a cookie is a load of that cookie which was not forgotten (`Pending`); a
  reader waits for a load of its own cookie (`Asked`). The last is needed because an answer
  reaches a reader through the load, not through the cookie.
- `CompleteDirectoriesAreWhole`: part of `LInv`; only a page loop that missed nothing puts a
  complete directory into the cache.
- `AnswersStayCurrent`: a step that answers a reader tests the saved cookie in that step.
- `LibraryImplementsSingleFlight`: an initial state maps to an initial state of
  `SingleFlight`; every action maps to one of its actions or to a stutter, one lemma each.
  `Flown` and `Asked` make a woken reader's answer one that its own key's flight brought.

Only model-checked: everything under fairness, as liveness and `ENABLED` are out of the
prover's reach (`PendingSettles`, `FinishedTrackIsFollowed`, `CallsAnswer`, `WritersGetOn`,
`EveryRequestEnds`, `EveryReaderIsAnswered`, `ChangesArrive` of `Settings`); and the two
counterexamples, each of which TLC finds. Nothing is proved of the cases the hypotheses above
exclude.

## Where code and documents differ

Two runs are kept as counterexamples:

| Run | Statement | What the code does |
|---|---|---|
| `voice_overlap` | `main.rs:493`, `docs/API.md:393`: stopped | two overlapping Plays leave a loop without a control; a later Stop does not reach it |
| `bilibili_evict` | `tests/test_backend_regressions.py:65`: a lookup does not evict the requested audio | a lookup in a download's thread evicts the file a lookup on the loop has selected, and `touch()` leaves an empty file under its name |

Others were met while modelling. To keep the number of runs small they have no run of
their own; each follows from one or two steps of the modules:

- `models.py:70-72`: ids stay unique so that a playing track cannot alias a new song. The
  hook is off until the first clear: delete the last row while it plays, add a song, and
  the song has the playing track's id.
- `docs/API.md:507`: POST /voice/play starts or resumes. After the last track has ended
  by itself the voice service's status still says playing: add a song, and the call
  answers "noop".
- `main.py:2598`: skip removes the current song. Of two play requests for one row the
  overtaken one clears the pending item of the other, and skip no longer sees the song
  that loads.
- `ws_manager.py:100`: `close()` awaits sender cancellation, bounded. A cancellation that
  meets a send that has just completed is lost (Python 3.11's `wait_for`), and `close()`
  waits for ever. This was reproduced by running the class itself with a socket whose
  send completes at once and a `close()` right after a broadcast; from Python 3.12 on
  `wait_for` no longer swallows the cancellation.
- `deploy_queue_clear.py:108`: a failed paired release restores the previous backend. Its
  trap takes the override the Web container names: after a paired release and a Web
  rollback that is an older backend than the one that ran.
- `main.py:412`: a checkpoint for a track that no longer plays is refused. The status
  stays at playing after a track's end, so it is accepted.
- `tests/test_admin_configuration.py:155`: saving stages a voice setting until it is
  applied. An avatar upload writes the configuration file from the rows, staged ones
  included (`main.py:4520`).

Some behaviours are surprising and contradict no document; they are listed as hazards
with a note: continuations of next and skip do not look at the generation, events are
matched by source URL alone, a failed `voice.play` leaves the record set, a trap for
TERM or HUP does not end the release script, a voice configuration that cannot be
written is not tried again, a staged gRPC address applied later leaves the old channel
open, a description whose sending failed waits for the next change; a Web release whose
manifest cannot be updated (`deploy_web.py:669`), or whose report cannot be written (790),
says that it failed and leaves the new image running; a lookup in a download's thread
removes files by times it read before, and so one that the loop touched and returned
meanwhile (`bilibili_cache.py:79`); a QR login whose image cannot be drawn, or which is
cancelled before it is registered, leaves its HTTP client open for good
(`bilibili_auth.py:269`, 302).

## What is not modelled

- A call that raised after its deadline and takes effect later: `CallLost` loses it.
- A voice-service handler dropped half-way because its caller went away.
- The position clock and seek in the backend; history rows; a chat "select" that inserts
  a whole list; the search lists and permissions of the external API and the chat.
- Volume and effects, which change none of the modelled state.
- Use of a `WsManager` after `close()`; messages offered before a connection is registered.
- In `Release`: archives, ssh options, the drill script, the gap between the test for a
  release's directory and its creation, and a failure of the last `rm -f` of a rollback
  (after `complete=1`, of a file of its own).
- In `Bilibili`: file sizes (one size, one name per video) and the byte rate, unlink errors,
  the removal of old `.part` files, an age limit so short that a file expires while a
  request holds its path, a failure or cancellation between taking a login out of the
  registry and closing its client, the Playwright subtitle reader; in `QQLibrary`: playlist and song fields.
- In `Settings`: validation and encryption of values, images other than the avatar, an
  address request that comes while another still closes the channel (one at a time).
- The web client: its gates and request generations guard against the orders the
  backend's modules allow, but a browser's page, its storage and the DOM would have to
  be modelled from JavaScript beside them; left for an extension.
- Everything in `PROJECT.json` with status `not_modelled`, with the reason there.

## Plan

Done: `Playback`, `VoiceService`, `WsManager`, `Release`, `Bilibili`, `QQLogin`,
`QQLibrary` with `SingleFlight`, `Description`, `Settings`. Worth doing next:

1. *Refinement*: an abstract specification of playback as its users see it (a newest request
   wins, only rows start, a stopped track stays silent) which `Playback` implements, and
   `VoiceService` shown to implement the voice side of `Playback` when commands do not overlap;
   the steps of both as theorems.
2. *Proofs*: what is left of `ShuffleIndexFollows` with the thread's `DELETE` (no row twice, the
   index at most one beyond the order per deletion under way); what is shown after a
   command failed, as a weaker form of `ShownIsCommanded`.
3. *Web client: clear, import and write gate*, composed with the backend's queue: no song
   is added after a clear that was confirmed. Theorem: the gate's exclusion.
4. *Web client: live state*: a late read never replaces newer state. Theorem: the
   revision argument.
5. *Playback*: a discrete position clock with seek.
