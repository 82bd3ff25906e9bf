------------------------------ MODULE QQLibrary ------------------------------
(***************************************************************************)
(* The shared QQ library (backend/qq_library.py and its two endpoints in   *)
(* main.py): every visitor may read the playlists of the account that is   *)
(* saved.  A read goes by a snapshot of the saved cookie, taken when it    *)
(* comes in; reads of one cookie share one load, which runs in a task of   *)
(* its own; what a load brought is cached for a while; and an answer is    *)
(* given only if the saved cookie is still the snapshot.                   *)
(*                                                                         *)
(* Ages: "new" is under 5 seconds, "recent" under 60.                      *)
(*                                                                         *)
(* Assumed of QQ's server: a total that it tells is right, and where it    *)
(* tells none it fills its pages.                                          *)
(***************************************************************************)
EXTENDS Naturals, FiniteSets

CONSTANTS
  Readers,     \* requests to the two endpoints
  Cookies,     \* cookies of a logged-in account; the key of a cache entry is its hash
  Flights,     \* load tasks
  None,        \* no usable cookie, no load
  Telling,     \* the cookies whose playlists the server tells the total of
  MaxPages     \* how many pages of playlists a load reads at most (100)

ASSUME NoneIsNone == None \notin Cookies \cup Flights
ASSUME Server == Telling \subseteq Cookies
ASSUME PageLimit == MaxPages \in Nat \ {0}

VARIABLES
  stored,      \* the saved cookie
  reader,      \* the readers' requests
  flight,      \* the load tasks
  pending,     \* _pending: the load task of each cookie
  cache,       \* _cache: what the last load brought
  closed       \* the library is being closed

vars == <<stored, reader, flight, pending, cache, closed>>

-----------------------------------------------------------------------------
Reader == [at     : {"idle", "wait", "songs", "answered"},
           cookie : Cookies \cup {None},      \* its snapshot
           detail : BOOLEAN,                  \* of one playlist, not of the directory
           flight : Flights \cup {None},
           of     : Cookies \cup {None}]      \* whose data it was given

Load == [at     : {"new", "running", "done", "failed", "cancelled"},
         of     : Cookies \cup {None},
         page   : 0..MaxPages,
         popped : BOOLEAN]                    \* its done callback ran

Content == [of : Cookies, age : {"new", "recent"}, left : BOOLEAN, whole : BOOLEAN]

TypeOK ==
  /\ stored \in Cookies \cup {None}
  /\ reader \in [Readers -> Reader]
  /\ flight \in [Flights -> Load]
  /\ pending \in [Cookies -> Flights \cup {None}]
  /\ cache \subseteq Content /\ Cardinality(cache) <= 1
  /\ closed \in BOOLEAN

NewReader == [at |-> "idle", cookie |-> None, detail |-> FALSE, flight |-> None,
              of |-> None]
NewLoad   == [at |-> "new", of |-> None, page |-> 0,
              popped |-> FALSE]

Init ==
  /\ stored \in Cookies \cup {None}
  /\ reader = [r \in Readers |-> NewReader]
  /\ flight = [f \in Flights |-> NewLoad]
  /\ pending = [c \in Cookies |-> None]
  /\ cache = {}
  /\ closed = FALSE

Running(f) == flight[f].at = "running"
Ended(f)   == flight[f].at \in {"done", "failed", "cancelled"}

\* The task of an ended load lives until its callback ran and its readers left.
Collect(tasks) ==
  flight' = [f \in Flights |->
    IF tasks[f].popped /\ \A r \in Readers : reader'[r].flight # f THEN NewLoad ELSE tasks[f]]

\* An admin saves or clears the cookie (QQLogin has the details).
ChangeCookie ==
  /\ \E c \in (Cookies \cup {None}) \ {stored} : stored' = c
  /\ UNCHANGED <<reader, flight, pending, cache, closed>>

-----------------------------------------------------------------------------
(* A reader asks.                                                          *)

Becomes(r, rec) == reader' = [reader EXCEPT ![r] = rec]
Asking(c, d)    == [NewReader EXCEPT !.at = "wait", !.cookie = c, !.detail = d]

\* Mutant: the saved cookie is not looked at again.
AnsweredUnchecked(rec, of) ==
  [NewReader EXCEPT !.at = "answered", !.of = of]

\* _check_qq_library_snapshot: the answer, if the cookie is still the saved one.
Answered(rec, of) ==
  IF stored = rec.cookie
    THEN [NewReader EXCEPT !.at = "answered", !.of = of]
    ELSE NewReader

\* A directory is at hand: it is the answer, or the playlist is looked up in it
\* and its songs are asked for.
Given(rec, of) ==
  IF rec.detail THEN {[rec EXCEPT !.at = "songs", !.of = of, !.flight = None], NewReader}
                ELSE {Answered(rec, of)}

Fresh(c, ages) == {x \in cache : x.of = c /\ x.age \in ages}

\* A new task: which object it is does not matter.
Start(f, c) ==
  /\ flight[f].at = "new" /\ f = CHOOSE g \in Flights : flight[g].at = "new"
  /\ flight' = [flight EXCEPT ![f] = [NewLoad EXCEPT !.at = "running", !.of = c]]
  /\ pending' = [pending EXCEPT ![c] = f]

\* directory(): from the cache, or from the cookie's load.
Directory(r, c, d, refresh) ==
  LET found == Fresh(c, IF refresh THEN {"new"} ELSE {"new", "recent"})
  IN  \/ /\ found # {}
         /\ \E rec \in Given(Asking(c, d), c) : Becomes(r, rec)
         /\ UNCHANGED <<flight, pending>>
      \/ /\ found = {} /\ pending[c] # None
         /\ Becomes(r, [Asking(c, d) EXCEPT !.flight = pending[c]])
         /\ UNCHANGED <<flight, pending>>
      \/ /\ found = {} /\ pending[c] = None
         /\ \E f \in Flights : Start(f, c) /\ Becomes(r, [Asking(c, d) EXCEPT !.flight = f])

Free(r) == reader[r].at \in {"idle", "answered"} /\ ~closed

AskDirectory(r) ==
  /\ Free(r) /\ stored # None
  /\ \E refresh \in BOOLEAN : Directory(r, stored, FALSE, refresh)
  /\ UNCHANGED <<stored, cache, closed>>

\* detail(): the browser's directory must be of the saved cookie.
AskDetail(r) ==
  /\ Free(r) /\ stored # None
  /\ \E expected \in Cookies :
       \/ expected = stored /\ Directory(r, stored, TRUE, FALSE)
       \/ expected # stored /\ Becomes(r, NewReader) /\ UNCHANGED <<flight, pending>>
  /\ UNCHANGED <<stored, cache, closed>>

\* The load ended.  Its callback was there first; then its readers go on.
Wake(r) ==
  LET f == reader[r].flight
  IN  /\ reader[r].at = "wait" /\ Ended(f) /\ flight[f].popped
      /\ IF flight[f].at = "done" THEN \E rec \in Given(reader[r], flight[f].of) : Becomes(r, rec)
                                  ELSE Becomes(r, NewReader)
      /\ Collect(flight)
      /\ UNCHANGED <<stored, pending, cache, closed>>

SongsAnswered(r) ==
  /\ reader[r].at = "songs"
  /\ \/ Becomes(r, Answered(reader[r], reader[r].of))
     \/ Becomes(r, NewReader)
  /\ UNCHANGED <<stored, flight, pending, cache, closed>>

\* Mutant: the load is not shielded from its reader's cancellation.
DisconnectUnshielded(r) ==
  LET f == reader[r].flight
  IN  /\ reader[r].at \in {"wait", "songs"}
      /\ Becomes(r, NewReader)
      /\ Collect(IF reader[r].at = "wait" /\ Running(f)
                   THEN [flight EXCEPT ![f].at = "cancelled"] ELSE flight)
      /\ UNCHANGED <<stored, pending, cache, closed>>

\* The reader goes away, and its request is cancelled; its load is shielded.
Disconnect(r) ==
  /\ reader[r].at \in {"wait", "songs"}
  /\ Becomes(r, NewReader)
  /\ Collect(flight)
  /\ UNCHANGED <<stored, pending, cache, closed>>

-----------------------------------------------------------------------------
(* The loads.                                                              *)

\* Mutant: the load that runs out of pages calls itself complete.
PageEndsWhole(f) ==
  LET p == flight[f]
  IN  /\ Running(f)
      /\ \E n \in {"none", "some", "full"}, left \in BOOLEAN :
           LET told  == p.of \in Telling
               last  == n = "none" \/ (told /\ ~left) \/ (~told /\ n # "full")
               whole == ~last \/ ~told \/ ~left
           IN  /\ told \/ n = "full" \/ ~left
               /\ IF last \/ p.page + 1 = MaxPages
                    THEN /\ flight' = [flight EXCEPT ![f] = [NewLoad EXCEPT !.at = "done", !.of = p.of]]
                         /\ cache' = {[of |-> p.of, age |-> "new", left |-> left, whole |-> whole]}
                    ELSE /\ flight' = [flight EXCEPT ![f].page = p.page + 1]
                         /\ UNCHANGED cache
      /\ UNCHANGED <<stored, reader, pending, closed>>

\* _load: one page after the other, until the total is reached, a page is empty
\* or, the total unknown, not full; or until there were too many.  left: the
\* account has playlists beyond this page.
Page(f) ==
  LET p == flight[f]
  IN  /\ Running(f)
      /\ \E n \in {"none", "some", "full"}, left \in BOOLEAN :
           LET told  == p.of \in Telling
               last  == n = "none" \/ (told /\ ~left) \/ (~told /\ n # "full")
               whole == last /\ (~told \/ ~left)
           IN  /\ told \/ n = "full" \/ ~left
               /\ IF last \/ p.page + 1 = MaxPages
                    THEN /\ flight' = [flight EXCEPT ![f] = [NewLoad EXCEPT !.at = "done", !.of = p.of]]
                         /\ cache' = {[of |-> p.of, age |-> "new", left |-> left, whole |-> whole]}
                    ELSE /\ flight' = [flight EXCEPT ![f].page = p.page + 1]
                         /\ UNCHANGED cache
      /\ UNCHANGED <<stored, reader, pending, closed>>

\* Mutant: the time limit is of the first page only.
LoadFailsAtFirst(f) ==
  /\ Running(f) /\ flight[f].page = 0
  /\ flight' = [flight EXCEPT ![f] = [NewLoad EXCEPT !.at = "failed", !.of = flight[f].of]]
  /\ UNCHANGED <<stored, reader, pending, cache, closed>>

\* An answer says the cookie is expired, or is no answer, or 35 seconds are over.
LoadFails(f) ==
  /\ Running(f)
  /\ flight' = [flight EXCEPT ![f] = [NewLoad EXCEPT !.at = "failed", !.of = flight[f].of]]
  /\ UNCHANGED <<stored, reader, pending, cache, closed>>

\* completed(): the done callback forgets the load, however it ended.
Forget(f) ==
  /\ Ended(f) /\ ~flight[f].popped
  /\ UNCHANGED reader /\ Collect([flight EXCEPT ![f].popped = TRUE])
  /\ pending' = [pending EXCEPT ![flight[f].of] = None]
  /\ UNCHANGED <<stored, cache, closed>>

\* An entry over 60 seconds old is as good as none.
Age ==
  /\ \E x \in cache : \/ x.age = "new" /\ cache' = {[x EXCEPT !.age = "recent"]}
                      \/ x.age = "recent" /\ cache' = {}
  /\ UNCHANGED <<stored, reader, flight, pending, closed>>

\* close(), at the backend's shutdown: the loads are cancelled ...
Close ==
  /\ ~closed
  /\ closed' = TRUE
  /\ flight' = [f \in Flights |-> IF Running(f) /\ \E c \in Cookies : pending[c] = f
                                    THEN [NewLoad EXCEPT !.at = "cancelled", !.of = flight[f].of] ELSE flight[f]]
  /\ UNCHANGED <<stored, reader, pending, cache>>

\* ... and when they have ended everything is forgotten.
Cleared ==
  /\ closed /\ \A c \in Cookies : pending[c] # None => Ended(pending[c])
  /\ pending' = [c \in Cookies |-> None]
  /\ cache' = {}
  /\ UNCHANGED <<stored, reader, flight, closed>>

ReaderStep(r) == AskDirectory(r) \/ AskDetail(r) \/ Wake(r) \/ SongsAnswered(r) \/ Disconnect(r)
LoadStep(f)   == Page(f) \/ LoadFails(f) \/ Forget(f)

Next ==
  \/ \E r \in Readers : ReaderStep(r)
  \/ \E f \in Flights : LoadStep(f)
  \/ ChangeCookie \/ Age \/ Close \/ Cleared

Spec == Init /\ [][Next]_vars

\* The server need not answer: a load has its time limit, and the request for a
\* playlist's songs the one of the HTTP client.  Callbacks and woken requests run.
FairSpec ==
  /\ Spec
  /\ \A f \in Flights : WF_vars(LoadFails(f) \/ Forget(f))
  /\ \A r \in Readers : WF_vars(Wake(r) \/ SongsAnswered(r))

-----------------------------------------------------------------------------
(* Properties.                                                             *)

\* No visitor is shown the playlists of an account that was replaced or logged
\* out while they were read: an answer is of the cookie that is saved when it is
\* given, whatever came between (main.py:5943).
AnswerIsCurrent == \A r \in Readers :
  reader'[r] # reader[r] /\ reader'[r].at = "answered" => reader'[r].of = stored

AnswersAreCurrent == [][AnswerIsCurrent]_vars

\* A directory that says it is complete holds every playlist of the account.
CompleteIsWhole == \A x \in cache : x.whole => ~x.left

\* The library implements SingleFlight: a reader that waits wants its snapshot's
\* cookie, a flight under way is a running load, and what a load brought is at hand
\* while it is cached or its task is there.
Wanted == [r \in Readers |-> IF reader[r].at = "wait" THEN reader[r].cookie ELSE None]
Served == [r \in Readers |-> reader[r].of]
Flying == [f \in Flights |-> IF Running(f) THEN flight[f].of ELSE None]
AtHand == {x.of : x \in cache} \cup {flight[f].of : f \in {g \in Flights : flight[g].at = "done"}}

Promise == INSTANCE SingleFlight WITH
  Keys <- Cookies, wants <- Wanted, got <- Served, flying <- Flying, atHand <- AtHand

PromiseKept == Promise!Spec

Unanswered(r) == reader[r].at \in {"wait", "songs"}

\* Every reader of the directory or of a playlist is answered, if only with an
\* error, though the server may fall silent.  A load that failed is not held against
\* later readers: it is forgotten, and the next one to ask starts a new one.
EveryReaderIsAnswered ==
  /\ \A r \in Readers : Unanswered(r) ~> ~Unanswered(r)
  /\ \A c \in Cookies : pending[c] # None ~> pending[c] = None
=============================================================================
