------------------------------ MODULE Bilibili ------------------------------
(***************************************************************************)
(* Bilibili audio and logins in the backend: the audio cache directory and *)
(* its downloads (backend/main.py, bilibili_cache.py, bandwidth.py), and   *)
(* the QR login sessions that bring the account's cookie                   *)
(* (bilibili_auth.py and the admin endpoints of main.py).                  *)
(*                                                                         *)
(* A request is an asyncio task.  What it does without suspending runs on  *)
(* the event loop alone; a download runs in a worker thread, beside the    *)
(* loop.  A lookup in the cache lists the directory, reads the files'      *)
(* times one by one, removes files one by one by the times it read, lists  *)
(* again and touches what it selected.  On the loop only worker threads    *)
(* come between these steps; in a worker thread anything does.             *)
(*                                                                         *)
(* Assumed: the age limit of a file (hours) is longer than a request holds *)
(* its path.  Left out: that a lookup also removes .part files once they   *)
(* are old, which are of no use to anybody then; a piece that a failed     *)
(* download left stays, the worst for those that look.                     *)
(***************************************************************************)
EXTENDS Naturals, FiniteSets

CONSTANTS
  Requests,    \* the tasks that serve requests
  Videos,
  Logins,      \* the ids of QR login sessions
  Nothing,     \* no video, no holder, no file, no login
  MaxFiles,    \* how many files the cache may hold: its limit in bytes
  Slots,       \* downloads allowed at a time
  MaxBegun     \* bound of the model: requests in all

ASSUME Limits == MaxFiles \in Nat \ {0} /\ Slots \in Nat \ {0}
ASSUME NothingIsNone == Nothing \notin Requests \cup Videos \cup Logins

VARIABLES
  dir,         \* the cache directory: what each video's finished file and .part hold
  mtime,       \* when a finished file was modified; 0: no file
  clock,       \* how many times one was
  look,        \* what each lookup in progress has read of the directory
  videoLock,   \* the request that holds a video's lock
  downloading, \* the requests that hold the download semaphore
  task,        \* what each request is doing
  registry,    \* the QR logins that can be polled
  entered,     \* history: the QR logins that ever were in the registry
  client,      \* the HTTP client of each login
  key,         \* what Bilibili's server says of the login's QR code
  cookie,      \* the account cookie saved in the database
  begun,       \* how many requests came (at most MaxBegun)
  stopped      \* the backend was shut down

files == <<dir, mtime, clock>>
audio == <<files, look, videoLock, downloading>>
login == <<registry, entered, client, key, cookie>>
life  == <<begun, stopped>>
vars  == <<audio, login, task, life>>

-----------------------------------------------------------------------------
Kinds   == {"audio", "part"}               \* a finished file, a .part file
Contents == {"absent", "piece", "all", "nothing"}
Cookies == {"none", "incomplete", "complete"}
Stages  == {"lock", "slot", "thread"}      \* where a lookup is made
LookSteps  == {"stat", "expire", "touch"}
AudioSteps == {"waitLock", "waitSlot", "scan", "api", "apiWrite", "fallback",
               "have"} \cup LookSteps
LoginSteps == {"generate", "poll", "finalize", "pop", "save", "nav"}

Idle == [at |-> "idle", video |-> Nothing, stage |-> "lock", path |-> Nothing,
         since |-> {}, crossed |-> FALSE, login |-> Nothing, got |-> "none"]

Task == [at : {"idle"} \cup AudioSteps \cup LoginSteps,
         video : Videos \cup {Nothing},
         stage : Stages,
         path  : Kinds \cup {Nothing},     \* the file a lookup or a download gave
         since : SUBSET Videos,            \* history: asked for since it did
         crossed : BOOLEAN,                \* history: lookups overlapped meanwhile
         login : Logins \cup {Nothing},
         got   : Cookies]                  \* the cookie a login brought

\* What prune_audio_cache holds: the files it has still to look at, the times it
\* read of the others (0: none, or tried already), the files it counts, and the
\* file it found to be too old.
Look == [unseen : SUBSET Videos, snap : [Videos -> Nat], counted : SUBSET Videos,
         old : Videos \cup {Nothing}]

NoLook == [unseen |-> {}, snap |-> [v \in Videos |-> 0], counted |-> {}, old |-> Nothing]

TypeOK ==
  /\ dir \in [Videos -> [Kinds -> Contents]]
  /\ mtime \in [Videos -> Nat] /\ clock \in Nat
  /\ look \in [Requests -> Look]
  /\ videoLock \in [Videos -> Requests \cup {Nothing}]
  /\ downloading \subseteq Requests
  /\ task \in [Requests -> Task]
  /\ registry \subseteq Logins /\ entered \subseteq Logins
  /\ client \in [Logins -> {"none", "open", "closed"}]
  /\ key \in [Logins -> {"waiting", "scanned", "confirmed", "expired"}]
  /\ cookie \in Cookies
  /\ begun \in Nat
  /\ stopped \in BOOLEAN

NoFile == [k \in Kinds |-> "absent"]

Init ==
  /\ dir = [v \in Videos |-> NoFile]
  /\ mtime = [v \in Videos |-> 0]
  /\ clock = 0
  /\ look = [r \in Requests |-> NoLook]
  /\ videoLock = [v \in Videos |-> Nothing]
  /\ downloading = {}
  /\ task = [r \in Requests |-> Idle]
  /\ registry = {}
  /\ entered = {}
  /\ client = [l \in Logins |-> "none"]
  /\ key = [l \in Logins |-> "waiting"]
  /\ cookie = "none"
  /\ begun = 0
  /\ stopped = FALSE

At(r, step)   == task[r].at = step
Arrives(r)    == At(r, "idle") /\ ~stopped /\ begun < MaxBegun /\ begun' = begun + 1
Move(r, step) == task' = [task EXCEPT ![r].at = step]
Finish(r)     == task' = [task EXCEPT ![r] = Idle]

\* A worker thread moves at any time.  A lookup outside one keeps the event
\* loop until it is over; every other step waits for the loop.
OnLoop(r)   == task[r].at \in LookSteps /\ task[r].stage # "thread"
LoopFor(r)  == \A q \in Requests \ {r} : ~OnLoop(q)
MayLook(r)  == task[r].stage = "thread" \/ LoopFor(r)

Exists(v, kind) == dir[v][kind] # "absent"
Cached(v)       == Exists(v, "audio")
Files           == {v \in Videos : Cached(v)}
InLookup(r)     == task[r].at \in LookSteps
HasPath(r)      == At(r, "have")

\* v's files become these; the finished one is the newest.
Modify(v, these) ==
  /\ clock' = clock + 1
  /\ mtime' = [mtime EXCEPT ![v] = clock + 1]
  /\ dir' = [dir EXCEPT ![v] = these]

\* _unlink: v's finished file goes, if it is there.
Remove(v) ==
  /\ dir' = [dir EXCEPT ![v]["audio"] = "absent"]
  /\ mtime' = [mtime EXCEPT ![v] = 0]
  /\ UNCHANGED clock

-----------------------------------------------------------------------------
(* A lookup in the cache: _find_cached_bilibili_audio with prune_audio_cache. *)

\* History.  Requests that hold a file, or are about to, note that v is used after
\* it (looked up, returned or downloaded); r itself becomes rec.
Noting(v, r, rec) ==
  [q \in Requests |->
     IF q = r THEN rec
     ELSE IF task[q].at \in {"touch", "have"} /\ task[q].video # v
          THEN [task[q] EXCEPT !.since = @ \cup {v}]
          ELSE task[q]]

\* History.  A lookup of r begins, as rec.  When another one is in progress the two
\* overlap, for themselves and for every request that holds a path meanwhile.
Crossing(v, r, rec) ==
  IF \E q \in Requests \ {r} : InLookup(q)
  THEN [q \in Requests |-> IF q = r \/ InLookup(q) \/ HasPath(q)
                           THEN [Noting(v, r, rec)[q] EXCEPT !.crossed = TRUE]
                           ELSE Noting(v, r, rec)[q]]
  ELSE Noting(v, r, rec)

\* r's lookup begins: the directory is listed.
BeginLookup(r, stage) ==
  /\ look' = [look EXCEPT ![r] = [NoLook EXCEPT !.unseen = Files]]
  /\ task' = Crossing(task[r].video, r,
                      [task[r] EXCEPT !.at = "stat", !.stage = stage, !.crossed = FALSE])

\* The lookup of a download's thread.
Scan(r) ==
  /\ At(r, "scan")
  /\ BeginLookup(r, "thread")
  /\ UNCHANGED <<files, videoLock, downloading, login, life>>

\* A file that nobody holds may be too old, that of the lookup itself too (one that
\* yt-dlp fetched may be dated by the server).
MayBeOld(v) == \A q \in Requests : HasPath(q) => task[q].video # v

\* One listed file is looked at: gone meanwhile, too old, or a file that counts,
\* with its time.
Stat(r) ==
  /\ At(r, "stat") /\ MayLook(r)
  /\ \E v \in look[r].unseen :
       LET rest == look[r].unseen \ {v}
       IN  \/ /\ ~Cached(v)
              /\ look' = [look EXCEPT ![r].unseen = rest]
              /\ UNCHANGED task
           \/ /\ Cached(v) /\ MayBeOld(v)
              /\ look' = [look EXCEPT ![r].unseen = rest, ![r].old = v]
              /\ Move(r, "expire")
           \/ /\ Cached(v)
              /\ look' = [look EXCEPT ![r].unseen = rest, ![r].snap[v] = mtime[v],
                                      ![r].counted = @ \cup {v}]
              /\ UNCHANGED task
  /\ UNCHANGED <<files, videoLock, downloading, login, life>>

\* The file that was found too old goes, whatever happened to it since.
Expire(r) ==
  /\ At(r, "expire") /\ MayLook(r)
  /\ Remove(look[r].old)
  /\ look' = [look EXCEPT ![r].old = Nothing]
  /\ Move(r, "stat")
  /\ UNCHANGED <<videoLock, downloading, login, life>>

\* Files that can go for the sake of the limit: not tried yet and not protected.
Evictable(r) == {v \in Videos \ {task[r].video} : look[r].snap[v] # 0}
Crowded(r)   == Cardinality(look[r].counted) > MaxFiles

\* Mutant: the newest files go first.
NextVictimNewest(r) == {v \in Evictable(r) : \A w \in Evictable(r) : look[r].snap[w] <= look[r].snap[v]}

NextVictim(r) == {v \in Evictable(r) : \A w \in Evictable(r) : look[r].snap[v] <= look[r].snap[w]}

\* While too much is counted the next file goes, the oldest by the times that were
\* read.  It counts no longer, unless it was not there any more.
Evict(r) ==
  /\ At(r, "stat") /\ MayLook(r)
  /\ look[r].unseen = {} /\ Crowded(r)
  /\ \E v \in NextVictim(r) :
       /\ Remove(v)
       /\ look' = [look EXCEPT ![r].snap[v] = 0,
                               ![r].counted = IF Cached(v) THEN @ \ {v} ELSE @]
  /\ UNCHANGED <<task, videoLock, downloading, login, life>>

Pruned(r) == look[r].unseen = {} /\ (~Crowded(r) \/ Evictable(r) = {})

\* Mutant: .part files are found as well.
CandidatesAll(v) == {kind \in Kinds : Exists(v, kind)}

Candidates(v) == {kind \in Kinds \ {"part"} : Exists(v, kind)}

\* Any file of the video but a .part file is taken for its audio, one with a known
\* extension first.
List(r) ==
  LET v     == task[r].video
      stage == task[r].stage
      found == Candidates(v) # {}
  IN  /\ At(r, "stat") /\ MayLook(r) /\ Pruned(r)
      /\ \/ \E kind \in Candidates(v) :
              /\ Cached(v) => kind = "audio"
              /\ task' = [task EXCEPT ![r].at = "touch", ![r].path = kind, ![r].since = {}]
         \/ ~found /\ stage = "lock" /\ Move(r, "waitSlot")
         \/ ~found /\ stage = "slot" /\ task' = [task EXCEPT ![r].at = "api", ![r].stage = "thread"]
         \/ ~found /\ stage = "thread" /\ Finish(r)
      /\ IF ~found /\ stage = "thread"
           THEN /\ downloading' = downloading \ {r}
                /\ videoLock' = [videoLock EXCEPT ![v] = Nothing]
           ELSE UNCHANGED <<videoLock, downloading>>
      /\ look' = [look EXCEPT ![r] = NoLook]
      /\ UNCHANGED <<files, login, life>>

\* The request leaves the semaphore and the lock with a path.
Obtain(r, kind) ==
  LET v       == task[r].video
      crossed == task[r].crossed \/ \E q \in Requests : InLookup(q) /\ task[q].crossed
  IN  /\ task' = Noting(v, r, [task[r] EXCEPT !.at = "have", !.stage = "lock", !.path = kind,
                                              !.crossed = crossed])
      /\ downloading' = downloading \ {r}
      /\ videoLock' = [videoLock EXCEPT ![v] = Nothing]

\* touch() makes the selected file the newest, and makes an empty file of that
\* name when another lookup has removed it.
Touch(r) ==
  LET v    == task[r].video
      kind == task[r].path
  IN  /\ At(r, "touch") /\ MayLook(r)
      /\ IF kind = "part" THEN UNCHANGED files
         ELSE Modify(v, [dir[v] EXCEPT !["audio"] = IF Cached(v) THEN @ ELSE "nothing"])
      /\ Obtain(r, kind)
      /\ UNCHANGED <<look, login, life>>

-----------------------------------------------------------------------------
(* The download: one per video, a few in all, in a worker thread.          *)

\* _download_bilibili_audio: the lock of the video, then a first lookup.
AskAudio(r) ==
  /\ Arrives(r) /\ LoopFor(r)
  /\ \E v \in Videos : task' = [task EXCEPT ![r] = [Idle EXCEPT !.at = "waitLock", !.video = v]]
  /\ UNCHANGED <<audio, login, stopped>>

TakeLock(r) ==
  /\ At(r, "waitLock") /\ LoopFor(r)
  /\ videoLock[task[r].video] = Nothing
  /\ videoLock' = [videoLock EXCEPT ![task[r].video] = r]
  /\ BeginLookup(r, "lock")
  /\ UNCHANGED <<files, downloading, login, life>>

\* Mutant: one download too many.
TakeSlotTooMany(r) ==
  /\ At(r, "waitSlot") /\ LoopFor(r)
  /\ Cardinality(downloading) <= Slots
  /\ downloading' = downloading \cup {r}
  /\ BeginLookup(r, "slot")
  /\ UNCHANGED <<files, videoLock, login, life>>

\* The semaphore, then a second lookup.
TakeSlot(r) ==
  /\ At(r, "waitSlot") /\ LoopFor(r)
  /\ Cardinality(downloading) < Slots
  /\ downloading' = downloading \cup {r}
  /\ BeginLookup(r, "slot")
  /\ UNCHANGED <<files, videoLock, login, life>>

\* What v's .part file holds from now on.
Part(v, holds) == dir' = [dir EXCEPT ![v]["part"] = holds] /\ UNCHANGED <<mtime, clock>>

\* _download_bilibili_audio_sync: the address from Bilibili's API, then the
\* stream into a .part file, at a limited rate.
OpenPart(r) ==
  /\ At(r, "api")
  /\ Part(task[r].video, "piece")
  /\ Move(r, "apiWrite")
  /\ UNCHANGED <<look, videoLock, downloading, login, life>>

\* The stream is complete: os.replace gives the .part file its name.
Complete(r) ==
  LET v == task[r].video
  IN  /\ At(r, "apiWrite")
      /\ Modify(v, [NoFile EXCEPT !["audio"] = "all"])
      /\ Obtain(r, "audio")
      /\ UNCHANGED <<look, login, life>>

\* Any error of the API or of the stream, whose piece stays: yt-dlp is tried, with
\* a .part file of its own.
FallBack(r) ==
  /\ task[r].at \in {"api", "apiWrite"}
  /\ Part(task[r].video, "piece")
  /\ Move(r, "fallback")
  /\ UNCHANGED <<look, videoLock, downloading, login, life>>

\* yt-dlp renames its .part file when it is complete, and the file is looked for.
\* The piece of the stream stays.
FallbackCompletes(r) ==
  LET v == task[r].video
  IN  /\ At(r, "fallback")
      /\ Modify(v, [dir[v] EXCEPT !["audio"] = "all"])
      /\ task' = Noting(v, r, [task[r] EXCEPT !.at = "scan"])
      /\ UNCHANGED <<look, videoLock, downloading, login, life>>

\* Mutant: the semaphore is not given back after an error.
FallbackFailsHolding(r) ==
  /\ At(r, "fallback")
  /\ videoLock' = [videoLock EXCEPT ![task[r].video] = Nothing]
  /\ Finish(r)
  /\ UNCHANGED <<files, look, downloading, login, life>>

\* yt-dlp fails as well: the request is answered 502, and its piece stays.
FallbackFails(r) ==
  /\ At(r, "fallback")
  /\ downloading' = downloading \ {r}
  /\ videoLock' = [videoLock EXCEPT ![task[r].video] = Nothing]
  /\ Finish(r)
  /\ UNCHANGED <<files, look, login, life>>

\* _resolve_bilibili_playback_payload: the metadata that did not come with the file
\* is fetched, if the item lacks it; then the path goes to the voice service, or the
\* metadata failed (502).
HandOver(r) ==
  /\ HasPath(r) /\ LoopFor(r)
  /\ Finish(r)
  /\ UNCHANGED <<audio, login, life>>

-----------------------------------------------------------------------------
(* QR logins.  Between taking a login out of the registry and closing its  *)
(* client nothing fails and nothing cancels the request.                   *)

Close(l) == client' = [client EXCEPT ![l] = "closed"]

\* _cleanup_qr_sessions_locked: logins past their age leave the registry and
\* their clients are closed; l, if any, is entered after that.
CleanUp(old, l) ==
  /\ registry' = (registry \ old) \cup (IF l = Nothing THEN {} ELSE {l})
  /\ entered' = entered \cup (IF l = Nothing THEN {} ELSE {l})
  /\ client' = [m \in Logins |-> IF m \in old THEN "closed" ELSE client[m]]

\* start_bilibili_qr_login_session: a client of its own asks for a QR code.
StartLogin(r) ==
  /\ Arrives(r) /\ LoopFor(r)
  /\ \E l \in Logins :
       /\ client[l] = "none"
       /\ client' = [client EXCEPT ![l] = "open"]
       /\ task' = [task EXCEPT ![r] = [Idle EXCEPT !.at = "generate", !.login = l]]
  /\ UNCHANGED <<audio, registry, entered, key, cookie, stopped>>

Generated(r) ==
  /\ At(r, "generate") /\ LoopFor(r)
  /\ \E old \in SUBSET registry : CleanUp(old, task[r].login)
  /\ Finish(r)
  /\ UNCHANGED <<audio, key, cookie, life>>

\* The request fails, or its answer has no QR code in it.
GenerateFails(r) ==
  /\ At(r, "generate") /\ LoopFor(r)
  /\ Close(task[r].login)
  /\ Finish(r)
  /\ UNCHANGED <<audio, registry, entered, key, cookie, life>>

\* The QR image cannot be drawn, or the request is cancelled: no handler closes
\* the client, and the registry never had it.
LeftOpen(r) ==
  /\ At(r, "generate") /\ LoopFor(r)
  /\ Finish(r)
  /\ UNCHANGED <<audio, login, life>>

\* The QR code is scanned, confirmed on the phone, or expires.
PhoneOrServer ==
  \E l \in registry :
    /\ \/ key[l] = "waiting" /\ \E k \in {"scanned", "expired"} : key' = [key EXCEPT ![l] = k]
       \/ key[l] = "scanned" /\ \E k \in {"confirmed", "expired"} : key' = [key EXCEPT ![l] = k]
    /\ UNCHANGED <<audio, registry, entered, client, cookie, task, life>>

\* poll_bilibili_qr_login_session: the login is looked up under the lock, the
\* request is made outside it.
Poll(r) ==
  /\ Arrives(r) /\ LoopFor(r)
  /\ \E l \in Logins, old \in SUBSET registry :
       /\ client[l] # "none"
       /\ CleanUp(old, Nothing)
       /\ task' = IF l \in registry \ old
                    THEN [task EXCEPT ![r] = [Idle EXCEPT !.at = "poll", !.login = l]]
                    ELSE task
  /\ UNCHANGED <<audio, key, cookie, stopped>>

\* Waiting, scanned, an unknown code, an answer that cannot be read, or none.
PollAnswered(r) ==
  /\ At(r, "poll") /\ LoopFor(r)
  /\ Finish(r)
  /\ UNCHANGED <<audio, login, life>>

\* Mutant: the client of a login whose code expired is left open.
PollExpiredOpen(r) ==
  LET l == task[r].login
  IN  /\ At(r, "poll") /\ LoopFor(r)
      /\ key[l] = "expired"
      /\ registry' = registry \ {l}
      /\ Finish(r)
      /\ UNCHANGED <<audio, entered, client, key, cookie, life>>

\* The code expired: the login leaves the registry.
PollExpired(r) ==
  LET l == task[r].login
  IN  /\ At(r, "poll") /\ LoopFor(r)
      /\ key[l] = "expired"
      /\ registry' = registry \ {l}
      /\ IF l \in registry THEN Close(l) ELSE UNCHANGED client
      /\ Finish(r)
      /\ UNCHANGED <<audio, entered, key, cookie, life>>

\* The login was confirmed.  The server gives the code up, at once or later;
\* without a complete cookie the login is finalized first.
PollConfirmed(r) ==
  LET l == task[r].login
  IN  /\ At(r, "poll") /\ LoopFor(r)
      /\ key[l] = "confirmed"
      /\ \E k \in {"confirmed", "expired"} : key' = [key EXCEPT ![l] = k]
      /\ \E c \in Cookies :
           task' = [task EXCEPT ![r].got = c, ![r].at = IF c = "complete" THEN "pop" ELSE "finalize"]
      /\ UNCHANGED <<audio, registry, entered, client, cookie, life>>

\* _finalize_bilibili_qr_session: two more requests with the login's client,
\* whose errors (a client closed meanwhile) are swallowed.
Finalize(r) ==
  LET t == task[r]
  IN  /\ At(r, "finalize") /\ LoopFor(r)
      /\ \E c \in {t.got} \cup (IF client[t.login] = "open" THEN {"incomplete", "complete"} ELSE {}) :
           task' = [task EXCEPT ![r].got = c, ![r].at = "pop"]
      /\ UNCHANGED <<audio, login, life>>

PopLogin(r) ==
  LET l == task[r].login
  IN  /\ At(r, "pop") /\ LoopFor(r)
      /\ registry' = registry \ {l}
      /\ IF l \in registry THEN Close(l) ELSE UNCHANGED client
      /\ Move(r, "save")
      /\ UNCHANGED <<audio, entered, key, cookie, life>>

\* admin_bilibili_qr_check: any cookie that is not empty is saved.
SaveCookie(r) ==
  /\ At(r, "save") /\ LoopFor(r)
  /\ cookie' = IF task[r].got = "none" THEN cookie ELSE task[r].got
  /\ Finish(r)
  /\ UNCHANGED <<audio, registry, entered, client, key, life>>

\* admin_bilibili_set_cookie: a cookie that was pasted is saved when Bilibili
\* says that it is logged in.
PasteCookie(r) ==
  /\ Arrives(r) /\ LoopFor(r)
  /\ task' = [task EXCEPT ![r] = [Idle EXCEPT !.at = "nav"]]
  /\ UNCHANGED <<audio, login, stopped>>

PastedChecked(r) ==
  /\ At(r, "nav") /\ LoopFor(r)
  /\ cookie' \in {cookie, "complete"}
  /\ Finish(r)
  /\ UNCHANGED <<audio, registry, entered, client, key, life>>

\* close_all_bilibili_qr_sessions, at shutdown, when no request is served.
Shutdown ==
  /\ ~stopped /\ \A r \in Requests : At(r, "idle")
  /\ stopped' = TRUE
  /\ registry' = {}
  /\ client' = [l \in Logins |-> IF l \in registry THEN "closed" ELSE client[l]]
  /\ UNCHANGED <<audio, entered, key, cookie, task, begun>>

\* The process dies during a download (elsewhere it only loses its requests) and is
\* started again: the directory and the database stay.
Crash ==
  /\ \E r \in Requests : task[r].at \in {"apiWrite", "fallback"}
  /\ look' = [r \in Requests |-> NoLook]
  /\ videoLock' = [v \in Videos |-> Nothing]
  /\ downloading' = {}
  /\ task' = [r \in Requests |-> Idle]
  /\ registry' = {}
  /\ client' = [l \in Logins |-> IF client[l] = "open" THEN "closed" ELSE client[l]]
  /\ UNCHANGED <<files, entered, key, cookie, life>>

-----------------------------------------------------------------------------
LookUp(r)   == \/ Scan(r) \/ Stat(r) \/ Expire(r) \/ Evict(r) \/ List(r)
               \/ Touch(r)
Download(r) == \/ OpenPart(r) \/ Complete(r) \/ FallBack(r)
               \/ FallbackCompletes(r) \/ FallbackFails(r)
LogIn(r)    == \/ Generated(r) \/ GenerateFails(r) \/ LeftOpen(r)
               \/ PollAnswered(r) \/ PollExpired(r) \/ PollConfirmed(r)
               \/ Finalize(r) \/ PopLogin(r) \/ SaveCookie(r) \/ PastedChecked(r)
Begin(r)    == AskAudio(r) \/ StartLogin(r) \/ Poll(r) \/ PasteCookie(r)

Proceed(r)  == LookUp(r) \/ Download(r) \/ HandOver(r) \/ LogIn(r)

Next ==
  \/ \E r \in Requests : Begin(r) \/ TakeLock(r) \/ TakeSlot(r) \/ Proceed(r)
  \/ PhoneOrServer
  \/ Shutdown
  \/ Crash

Spec == Init /\ [][Next]_vars

\* Every request and download has a timeout, so what was begun ends; a lock and
\* the semaphore are handed on in the order in which they were asked for.
Fairness ==
  \A r \in Requests : /\ WF_vars(Proceed(r))
                      /\ SF_vars(TakeLock(r))
                      /\ SF_vars(TakeSlot(r))

FairSpec == Spec /\ Fairness

-----------------------------------------------------------------------------
\* A piece of audio that a failed download or a process that died left behind is
\* never given to a player: the file of a path a request holds is whole, whatever
\* failed before and whoever looks meanwhile (or it is the empty file of the
\* finding about touch).
NoPieceIsServed ==
  \A r \in Requests : HasPath(r) => dir[task[r].video][task[r].path] # "piece"

\* The path a request was given stays good until it is handed to the voice
\* service, unless as many other videos were asked for since as the cache has
\* room for (prune_audio_cache removes the least recently used file first).
\* Excepted: two lookups overlapped, one of them in a download's thread, while the
\* request had its path or looked for it.  A lookup removes files by the times it
\* read before, so it may then take one that was touched and returned meanwhile,
\* or more files than it must.
PathsOutliveTheirUse ==
  \A r \in Requests :
    HasPath(r) /\ ~task[r].crossed /\ ~Cached(task[r].video) =>
      Cardinality(task[r].since) >= MaxFiles

\* A download starts only for a video that is not in the cache and that no other
\* request downloads, and never more of them run than there are slots.
NeverDownloadedTwice ==
  [][\A r \in Requests :
       task[r].at # "api" /\ task'[r].at = "api" =>
         /\ ~Cached(task[r].video)
         /\ Cardinality({q \in Requests : task'[q].stage = "thread"}) <= Slots
         /\ \A q \in Requests \ {r} : task[q].stage = "thread" => task[q].video # task[r].video]_vars

\* The HTTP client of a login that was entered in the registry is open exactly as
\* long as the login can be polled: polls, clean-up, shutdown and a crash leave
\* none open behind, and none closes the client of a login that goes on.
\* Not so before: a login that fails after its request was answered, when the QR
\* image is drawn, leaves its client open outside the registry, for good
\* (LeftOpen).
NoClientIsLost ==
  \A l \in entered : client[l] = "open" <=> l \in registry

\* Every request is answered: nobody waits for ever for a video's lock or for
\* the download semaphore.
EveryRequestEnds == \A r \in Requests : ~At(r, "idle") ~> At(r, "idle")

\* A lookup does not evict the audio that is asked for (the name of the test
\* test_cache_lookup_does_not_evict_the_requested_audio): the file a lookup has
\* selected is there when it is touched and returned.
RequestedAudioStays ==
  \A r \in Requests : At(r, "touch") => Exists(task[r].video, task[r].path)
=============================================================================
