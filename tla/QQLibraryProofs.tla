--------------------------- MODULE QQLibraryProofs ---------------------------
(***************************************************************************)
(* Proofs about QQLibrary, for any number of readers, cookies and loads: a *)
(* complete directory is whole, an answer is of the cookie that is saved   *)
(* when it is given, and the library implements SingleFlight.              *)
(***************************************************************************)
EXTENDS QQLibrary, TLAPS

-----------------------------------------------------------------------------
(* The invariant.                                                          *)

Task == [at : {"new", "running", "done", "failed", "cancelled"}, of : Cookies \cup {None},
         page : Nat, popped : BOOLEAN]

Typed ==
  /\ stored \in Cookies \cup {None}
  /\ reader \in [Readers -> Reader]
  /\ flight \in [Flights -> Task]
  /\ pending \in [Cookies -> Flights \cup {None}]
  /\ cache \subseteq Content
  /\ closed \in BOOLEAN

\* A load that runs, and one that has ended and whose callback has not run, is the
\* pending one of its cookie; but when the library is closed none runs.
Flown(f) ==
  /\ flight[f].at # "new" => flight[f].of \in Cookies
  /\ flight[f].popped => Ended(f)
  /\ Running(f) => pending[flight[f].of] = f /\ ~closed
  /\ Ended(f) /\ ~flight[f].popped => pending[flight[f].of] = f \/ closed

\* What is pending for a cookie is a load of it that was not forgotten.
Pending(c) ==
  pending[c] # None => /\ flight[pending[c]].at # "new"
                       /\ flight[pending[c]].of = c /\ ~flight[pending[c]].popped

\* A reader waits for a load of its cookie, and asks for the songs of its cookie's.
Asked(r) ==
  /\ reader[r].at = "wait" =>
       /\ reader[r].cookie \in Cookies /\ reader[r].flight \in Flights
       /\ flight[reader[r].flight].at # "new"
       /\ flight[reader[r].flight].of = reader[r].cookie
  /\ reader[r].at = "songs" => reader[r].of = reader[r].cookie /\ reader[r].cookie \in Cookies

AllFlown   == \A f \in Flights : Flown(f)
AllPending == \A c \in Cookies : Pending(c)
AllAsked   == \A r \in Readers : Asked(r)

LInv == Typed /\ AllFlown /\ AllPending /\ AllAsked /\ CompleteIsWhole

-----------------------------------------------------------------------------
(* Records.                                                                *)

\* The records readers and loads start with, and what may become of them.
LEMMA RecordsTyped ==
  /\ NewReader \in Reader /\ NewReader.at = "idle" /\ NewReader.of = None
  /\ NewLoad \in Task /\ NewLoad.at = "new" /\ ~NewLoad.popped
  /\ \A s \in {"running", "done", "failed", "cancelled"}, c \in Cookies \cup {None} :
       LET t == [NewLoad EXCEPT !.at = s, !.of = c]
       IN  t \in Task /\ t.at = s /\ t.of = c /\ t.popped = FALSE
BY DEF NewReader, Reader, NewLoad, Task

\* A reader that asks.
LEMMA AskingTyped ==
  ASSUME NEW c \in Cookies, NEW d \in BOOLEAN
  PROVE  /\ Asking(c, d) \in Reader /\ Asking(c, d).at = "wait" /\ Asking(c, d).cookie = c
         /\ Asking(c, d).of = None /\ Asking(c, d).detail = d
         /\ \A f \in Flights : LET rec == [Asking(c, d) EXCEPT !.flight = f]
                               IN  /\ rec \in Reader /\ rec.at = "wait" /\ rec.cookie = c
                                   /\ rec.of = None /\ rec.flight = f
BY DEF Asking, NewReader, Reader

\* A reader with its directory: answered with its cookie's, asking for the songs of
\* a list of it, or turned away.
LEMMA GivenTyped ==
  ASSUME NEW rec \in Reader, rec.cookie \in Cookies, NEW new \in Given(rec, rec.cookie)
  PROVE  /\ new \in Reader /\ new.at \in {"idle", "songs", "answered"}
         /\ new.at = "songs" => new.of = rec.cookie /\ new.cookie = rec.cookie
         /\ new.at = "answered" => new.of = rec.cookie /\ stored = rec.cookie
         /\ new.at = "idle" => new = NewReader
         /\ new.of \in {rec.cookie, None} /\ (new.of = None => new = NewReader)
<1>1. CASE new = NewReader
  BY <1>1, RecordsTyped
<1>2. CASE new = [rec EXCEPT !.at = "songs", !.of = rec.cookie, !.flight = None]
  BY <1>2, NoneIsNone DEF Reader
<1>3. CASE new = [NewReader EXCEPT !.at = "answered", !.of = rec.cookie] /\ stored = rec.cookie
  BY <1>3, NoneIsNone DEF Reader, NewReader
<1> QED
  BY <1>1, <1>2, <1>3 DEF Given, Answered

\* One reader becomes another record.
LEMMA BecomesTyped ==
  ASSUME Typed, NEW r \in Readers, NEW rec \in Reader, Becomes(r, rec)
  PROVE  /\ reader' \in [Readers -> Reader] /\ reader'[r] = rec
         /\ \A q \in Readers : q # r => reader'[q] = reader[q]
         /\ Served' = [Served EXCEPT ![r] = rec.of]
         /\ Wanted' = [Wanted EXCEPT ![r] = IF rec.at = "wait" THEN rec.cookie ELSE None]
BY DEF Typed, Becomes, Served, Wanted

\* A task that was collected is new again, had its callback run, and is nobody's.
LEMMA CollectTyped ==
  ASSUME NEW tasks \in [Flights -> Task], Collect(tasks)
  PROVE  /\ flight' \in [Flights -> Task]
         /\ \A f \in Flights :
              \/ flight'[f] = tasks[f]
              \/ /\ flight'[f] = NewLoad /\ tasks[f].popped
                 /\ \A r \in Readers : reader'[r].flight # f
BY RecordsTyped DEF Collect

-----------------------------------------------------------------------------
(* The induction.                                                          *)

\* It holds of an empty library.
LEMMA InitInv == Init => LInv
<1> SUFFICES ASSUME Init PROVE LInv
  OBVIOUS
<1>1. Typed
  BY RecordsTyped DEF Init, Typed
<1>2. AllFlown /\ AllPending /\ AllAsked
  BY RecordsTyped DEF Init, AllFlown, AllPending, AllAsked, Flown, Pending, Asked, Running, Ended
<1>3. CompleteIsWhole
  BY DEF Init, CompleteIsWhole
<1> QED
  BY <1>1, <1>2, <1>3 DEF LInv

\* A reader asks or goes on, and the loads do not notice.
LEMMA ReaderMoves ==
  ASSUME LInv, NEW r \in Readers, NEW rec \in Reader, Becomes(r, rec),
         UNCHANGED <<stored, flight, pending, cache, closed>>,
         rec.at = "wait" => /\ rec.cookie \in Cookies /\ rec.flight \in Flights
                            /\ flight[rec.flight].at # "new"
                            /\ flight[rec.flight].of = rec.cookie,
         rec.at = "songs" => rec.of = rec.cookie /\ rec.cookie \in Cookies
  PROVE  LInv'
<1>0. Typed
  BY DEF LInv
<1>1. Typed'
  BY <1>0, BecomesTyped DEF Typed
<1>2. AllFlown' /\ AllPending' /\ CompleteIsWhole'
  BY DEF LInv, AllFlown, AllPending, Flown, Pending, Running, Ended, CompleteIsWhole
<1>3. AllAsked'
  BY <1>0, BecomesTyped DEF LInv, AllAsked, Asked
<1> QED
  BY <1>1, <1>2, <1>3 DEF LInv

\* A reader leaves its load, which may be collected for it.
LEMMA ReaderLeaves ==
  ASSUME LInv, NEW r \in Readers, NEW rec \in Reader, Becomes(r, rec), Collect(flight),
         UNCHANGED <<stored, pending, cache, closed>>,
         rec.at # "wait",
         rec.at = "songs" => rec.of = rec.cookie /\ rec.cookie \in Cookies
  PROVE  LInv'
<1>0. Typed /\ AllFlown /\ AllPending /\ AllAsked
  BY DEF LInv
<1>1. Typed'
  BY <1>0, BecomesTyped, CollectTyped DEF Typed
<1>2. AllFlown'
  <2> SUFFICES ASSUME NEW f \in Flights PROVE Flown(f)'
    BY DEF AllFlown
  <2>1. CASE flight'[f] = flight[f]
    BY <1>0, <2>1 DEF AllFlown, Flown, Running, Ended
  <2>2. CASE flight'[f] = NewLoad
    BY <2>2, RecordsTyped DEF Flown, Running, Ended
  <2> QED
    BY <1>0, <2>1, <2>2, CollectTyped DEF Typed
<1>3. AllPending'
  BY <1>0, CollectTyped DEF Typed, AllPending, Pending
<1>4. AllAsked'
  BY <1>0, BecomesTyped, CollectTyped DEF Typed, AllAsked, Asked
<1> QED
  BY <1>1, <1>2, <1>3, <1>4 DEF LInv, CompleteIsWhole

\* A load begins for a cookie that has none, and its reader waits for it.
LEMMA LoadStarts ==
  ASSUME LInv, NEW r \in Readers, NEW f \in Flights, NEW c \in Cookies, NEW d \in BOOLEAN,
         ~closed, pending[c] = None, Start(f, c), Becomes(r, [Asking(c, d) EXCEPT !.flight = f]),
         UNCHANGED <<stored, cache, closed>>
  PROVE  LInv'
<1> DEFINE rec == [Asking(c, d) EXCEPT !.flight = f]
           t == [NewLoad EXCEPT !.at = "running", !.of = c]
<1>0. Typed /\ AllFlown /\ AllPending /\ AllAsked
  BY DEF LInv
<1>1. rec \in Reader /\ rec.at = "wait" /\ rec.cookie = c /\ rec.flight = f
  BY AskingTyped
<1>2. t \in Task /\ t.at = "running" /\ t.of = c /\ t.popped = FALSE
  BY RecordsTyped
<1>3. /\ flight[f].at = "new" /\ flight' = [flight EXCEPT ![f] = t]
      /\ pending' = [pending EXCEPT ![c] = f]
  BY DEF Start
<1>4. Becomes(r, rec)
  OBVIOUS
<1> HIDE DEF rec, t
<1>5. Typed'
  BY <1>0, <1>1, <1>2, <1>3, <1>4, BecomesTyped DEF Typed
<1>6. AllFlown'
  <2>1. ASSUME NEW g \in Flights, g # f PROVE Flown(g)'
    BY <1>0, <1>2, <1>3, <2>1, NoneIsNone DEF Typed, AllFlown, Flown, Running, Ended
  <2>2. Flown(f)'
    BY <1>0, <1>2, <1>3 DEF Typed, Flown, Running, Ended
  <2> QED
    BY <2>1, <2>2 DEF AllFlown
<1>7. AllPending'
  BY <1>0, <1>2, <1>3 DEF Typed, AllPending, Pending
<1>8. AllAsked'
  BY <1>0, <1>1, <1>2, <1>3, <1>4, BecomesTyped DEF Typed, AllAsked, Asked
<1> QED
  BY <1>5, <1>6, <1>7, <1>8 DEF LInv, CompleteIsWhole

\* A load goes on, lands or fails.
LEMMA LoadMoves ==
  ASSUME LInv, NEW f \in Flights, NEW t \in Task, Running(f), flight' = [flight EXCEPT ![f] = t],
         t.of = flight[f].of, t.at \in {"running", "done", "failed"}, t.popped = FALSE,
         UNCHANGED <<stored, reader, pending, closed>>,
         cache' \subseteq Content, CompleteIsWhole'
  PROVE  LInv'
<1>0. Typed /\ AllFlown /\ AllPending /\ AllAsked
  BY DEF LInv
<1>1. Typed'
  BY <1>0 DEF Typed
<1>2. AllFlown'
  BY <1>0 DEF Typed, AllFlown, Flown, Running, Ended
<1>3. AllPending'
  BY <1>0 DEF Typed, AllPending, Pending
<1>4. AllAsked'
  BY <1>0 DEF Typed, AllAsked, Asked, Running
<1> QED
  BY <1>1, <1>2, <1>3, <1>4 DEF LInv

\* directory(), and detail() up to its load.
LEMMA DirectoryKeeps ==
  ASSUME LInv, NEW r \in Readers, NEW d \in BOOLEAN, NEW refresh \in BOOLEAN,
         ~closed, stored # None, Directory(r, stored, d, refresh), UNCHANGED <<stored, cache, closed>>
  PROVE  LInv'
<1>0. Typed /\ AllPending /\ stored \in Cookies
  BY DEF LInv, Typed
<1> DEFINE ask == Asking(stored, d)
<1>1. ask \in Reader /\ ask.cookie = stored
  BY <1>0, AskingTyped
<1>2. CASE /\ \E rec \in Given(ask, stored) : Becomes(r, rec)
           /\ UNCHANGED <<flight, pending>>
  <2>1. PICK rec \in Given(ask, stored) : Becomes(r, rec)
    BY <1>2
  <2>2. rec \in Given(ask, ask.cookie)
    BY <1>1
  <2> HIDE DEF ask
  <2>3. /\ rec \in Reader /\ rec.at # "wait"
        /\ rec.at = "songs" => rec.of = rec.cookie /\ rec.cookie \in Cookies
    BY <1>0, <1>1, <2>2, GivenTyped
  <2> QED
    BY <1>2, <2>1, <2>3, ReaderMoves
<1>3. CASE /\ pending[stored] # None /\ Becomes(r, [ask EXCEPT !.flight = pending[stored]])
           /\ UNCHANGED <<flight, pending>>
  <2> DEFINE rec == [ask EXCEPT !.flight = pending[stored]]
  <2>1. pending[stored] \in Flights
    BY <1>0, <1>3 DEF Typed
  <2>2. rec \in Reader /\ rec.at = "wait" /\ rec.cookie = stored /\ rec.flight = pending[stored]
    BY <1>0, <2>1, AskingTyped
  <2>3. flight[rec.flight].at # "new" /\ flight[rec.flight].of = stored
    BY <1>0, <1>3, <2>2 DEF AllPending, Pending
  <2>4. Becomes(r, rec)
    BY <1>3
  <2> HIDE DEF rec
  <2> QED
    BY <1>0, <1>3, <2>1, <2>2, <2>3, <2>4, ReaderMoves
<1>4. CASE /\ pending[stored] = None
           /\ \E f \in Flights : Start(f, stored) /\ Becomes(r, [ask EXCEPT !.flight = f])
  BY <1>0, <1>4, LoadStarts
<1> QED
  BY <1>2, <1>3, <1>4 DEF Directory

\* Every step of a reader.
LEMMA ReaderKeeps ==
  ASSUME LInv, NEW r \in Readers, ReaderStep(r)
  PROVE  LInv'
<1>0. Typed /\ AllFlown /\ AllAsked /\ reader[r] \in Reader
  BY DEF LInv, Typed
<1>1. CASE AskDirectory(r)
  BY <1>1, DirectoryKeeps DEF AskDirectory, Free
<1>2. CASE AskDetail(r)
  <2>1. CASE Directory(r, stored, TRUE, FALSE)
    BY <1>2, <2>1, DirectoryKeeps DEF AskDetail, Free
  <2>2. CASE Becomes(r, NewReader) /\ UNCHANGED <<flight, pending>>
    BY <1>2, <2>2, ReaderMoves, RecordsTyped DEF AskDetail
  <2> QED
    BY <1>2, <2>1, <2>2 DEF AskDetail
<1>3. CASE Wake(r)
  <2> DEFINE f == reader[r].flight
  <2>1. f \in Flights /\ flight[f].of = reader[r].cookie /\ reader[r].cookie \in Cookies
    BY <1>0, <1>3 DEF Wake, AllAsked, Asked
  <2>2. CASE \E rec \in Given(reader[r], flight[f].of) : Becomes(r, rec)
    <3>1. PICK rec \in Given(reader[r], reader[r].cookie) : Becomes(r, rec)
      BY <2>1, <2>2
    <3>2. /\ rec \in Reader /\ rec.at # "wait"
          /\ rec.at = "songs" => rec.of = rec.cookie /\ rec.cookie \in Cookies
      BY <1>0, <2>1, <3>1, GivenTyped
    <3> QED
      BY <1>3, <3>1, <3>2, ReaderLeaves DEF Wake
  <2>3. CASE Becomes(r, NewReader)
    BY <1>3, <2>3, ReaderLeaves, RecordsTyped DEF Wake
  <2> QED
    BY <1>3, <2>2, <2>3 DEF Wake
<1>4. CASE SongsAnswered(r)
  <2>1. PICK rec \in {Answered(reader[r], reader[r].of), NewReader} : Becomes(r, rec)
    BY <1>4 DEF SongsAnswered
  <2>2. rec \in Reader /\ rec.at \in {"idle", "answered"}
    <3>1. CASE rec = NewReader
      BY <3>1, RecordsTyped
    <3>2. CASE rec = [NewReader EXCEPT !.at = "answered", !.of = reader[r].of]
      BY <1>0, <3>2 DEF NewReader, Reader
    <3> QED
      BY <2>1, <3>1, <3>2 DEF Answered
  <2> QED
    BY <1>4, <2>1, <2>2, ReaderMoves DEF SongsAnswered
<1>5. CASE Disconnect(r)
  BY <1>5, ReaderLeaves, RecordsTyped DEF Disconnect
<1> QED
  BY <1>1, <1>2, <1>3, <1>4, <1>5 DEF ReaderStep

\* The page that ends a load tells whether it was the last one.
LEMMA PageKeeps ==
  ASSUME LInv, NEW f \in Flights, Page(f)
  PROVE  LInv'
<1> DEFINE p == flight[f]
<1>0. Typed /\ AllFlown /\ Running(f) /\ p \in Task
  BY DEF LInv, Typed, Page
<1>1. PICK n \in {"none", "some", "full"}, left \in BOOLEAN :
        LET told  == p.of \in Telling
            last  == n = "none" \/ (told /\ ~left) \/ (~told /\ n # "full")
            whole == last /\ (~told \/ ~left)
        IN  /\ told \/ n = "full" \/ ~left
            /\ IF last \/ p.page + 1 = MaxPages
                 THEN /\ flight' = [flight EXCEPT ![f] = [NewLoad EXCEPT !.at = "done", !.of = p.of]]
                      /\ cache' = {[of |-> p.of, age |-> "new", left |-> left, whole |-> whole]}
                 ELSE /\ flight' = [flight EXCEPT ![f].page = p.page + 1]
                      /\ UNCHANGED cache
  BY DEF Page
<1>2. p.of \in Cookies
  BY <1>0 DEF AllFlown, Flown, Running
<1>3. CASE /\ flight' = [flight EXCEPT ![f].page = p.page + 1]
           /\ UNCHANGED cache
  <2> DEFINE t == [p EXCEPT !.page = p.page + 1]
  <2>1. t \in Task /\ t.of = p.of /\ t.at = "running" /\ t.popped = p.popped /\ p.popped = FALSE
    <3>1. p.at = "running" /\ p.popped = FALSE
      BY <1>0 DEF Task, Running, AllFlown, Flown, Ended
    <3>2. p \in Task /\ p.page + 1 \in Nat
      BY <1>0 DEF Task
    <3> HIDE DEF p
    <3> QED
      BY <3>1, <3>2 DEF Task
  <2>2. flight' = [flight EXCEPT ![f] = t]
    BY <1>0, <1>3 DEF Typed
  <2>3. cache' \subseteq Content /\ CompleteIsWhole'
    BY <1>0, <1>3 DEF LInv, Typed, CompleteIsWhole
  <2> HIDE DEF t
  <2> QED
    BY <1>0, <2>1, <2>2, <2>3, LoadMoves DEF Page
<1>4. CASE \E whole \in BOOLEAN :
             /\ flight' = [flight EXCEPT ![f] = [NewLoad EXCEPT !.at = "done", !.of = p.of]]
             /\ cache' = {[of |-> p.of, age |-> "new", left |-> left, whole |-> whole]}
             /\ whole => ~left
  <2> DEFINE t == [NewLoad EXCEPT !.at = "done", !.of = p.of]
  <2>1. t \in Task /\ t.of = p.of /\ t.at = "done" /\ t.popped = FALSE
    BY <1>2, RecordsTyped
  <2>2. cache' \subseteq Content /\ CompleteIsWhole'
    BY <1>2, <1>4 DEF Content, CompleteIsWhole
  <2>3. flight' = [flight EXCEPT ![f] = t]
    BY <1>4
  <2> HIDE DEF t
  <2> QED
    BY <1>0, <2>1, <2>2, <2>3, LoadMoves DEF Page
<1> QED
  BY <1>1, <1>3, <1>4

\* Every step of a load.
LEMMA LoadKeeps ==
  ASSUME LInv, NEW f \in Flights, LoadStep(f)
  PROVE  LInv'
<1>0. Typed /\ AllFlown /\ AllPending /\ AllAsked /\ flight[f] \in Task
  BY DEF LInv, Typed
<1>1. CASE Page(f)
  BY <1>1, PageKeeps
<1>2. CASE LoadFails(f)
  <2> DEFINE t == [NewLoad EXCEPT !.at = "failed", !.of = flight[f].of]
  <2>1. t \in Task /\ t.of = flight[f].of /\ t.at = "failed" /\ t.popped = FALSE
    BY <1>0, RecordsTyped DEF Task
  <2>2. flight' = [flight EXCEPT ![f] = t]
    BY <1>2 DEF LoadFails
  <2>3. cache' \subseteq Content /\ CompleteIsWhole'
    BY <1>0, <1>2 DEF LInv, Typed, CompleteIsWhole, LoadFails
  <2> HIDE DEF t
  <2> QED
    BY <1>2, <2>1, <2>2, <2>3, LoadMoves DEF LoadFails
<1>3. CASE Forget(f)
  <2> DEFINE c == flight[f].of
             t == [flight[f] EXCEPT !.popped = TRUE]
             tasks == [flight EXCEPT ![f] = t]
  <2>1. /\ Ended(f) /\ flight[f].popped = FALSE /\ c \in Cookies
        /\ pending' = [pending EXCEPT ![c] = None]
        /\ UNCHANGED <<stored, reader, cache, closed>>
    BY <1>0, <1>3 DEF Forget, Ended, AllFlown, Flown, Task
  <2>2. t \in Task /\ t.at = flight[f].at /\ t.of = c /\ t.popped = TRUE
    BY <1>0 DEF Task
  <2>3. tasks \in [Flights -> Task] /\ Collect(tasks)
    <3>1. tasks = [flight EXCEPT ![f].popped = TRUE]
      BY <1>0 DEF Typed
    <3> QED
      BY <1>0, <1>3, <2>2, <3>1 DEF Forget, Typed
  <2>4. /\ tasks[f] = t /\ \A g \in Flights : g # f => tasks[g] = flight[g]
        /\ \A g \in Flights : tasks[g].at = flight[g].at /\ tasks[g].of = flight[g].of
    BY <1>0, <2>2 DEF Typed
  <2> HIDE DEF t, tasks, c
  <2>5. Typed'
    BY <1>0, <2>1, <2>3, CollectTyped DEF Typed
  <2>6. AllFlown'
    <3> SUFFICES ASSUME NEW g \in Flights PROVE Flown(g)'
      BY DEF AllFlown
    <3>1. CASE flight'[g] = NewLoad
      BY <3>1, RecordsTyped DEF Flown, Running, Ended
    <3>2. CASE flight'[g] = tasks[g] /\ g = f
      <4>1. flight'[f] = t
        BY <2>4, <3>2
      <4> QED
        BY <2>1, <2>2, <3>2, <4>1 DEF Flown, Running, Ended
    <3>3. CASE flight'[g] = tasks[g] /\ g # f
      <4>1. flight'[g] = flight[g] /\ Flown(g)
        BY <1>0, <2>4, <3>3 DEF AllFlown
      <4>2. flight[g].of = c => ~Running(g) /\ (Ended(g) => flight[g].popped \/ closed)
        <5>1. pending[c] = f \/ closed
          BY <1>0, <2>1 DEF AllFlown, Flown, c
        <5> QED
          BY <3>3, <4>1, <5>1 DEF Flown
      <4>3. flight[g].of # c /\ flight[g].of \in Cookies => pending'[flight[g].of] = pending[flight[g].of]
        BY <1>0, <2>1 DEF Typed
      <4> QED
        BY <2>1, <4>1, <4>2, <4>3 DEF Flown, Running, Ended
    <3> QED
      BY <2>3, <3>1, <3>2, <3>3, CollectTyped
  <2>7. AllPending'
    <3> SUFFICES ASSUME NEW k \in Cookies, pending'[k] # None PROVE Pending(k)'
      BY DEF AllPending, Pending
    <3>1. k # c /\ pending'[k] = pending[k] /\ pending[k] \in Flights
      BY <1>0, <2>1 DEF Typed
    <3>2. Pending(k) /\ pending[k] # f
      BY <1>0, <3>1 DEF AllPending, Pending, c
    <3>3. tasks[pending[k]] = flight[pending[k]] /\ ~flight[pending[k]].popped
      BY <2>4, <3>1, <3>2 DEF Pending
    <3>4. flight'[pending[k]] = flight[pending[k]]
      BY <2>3, <3>1, <3>3, CollectTyped
    <3> QED
      BY <3>1, <3>2, <3>4 DEF Pending
  <2>8. AllAsked'
    BY <1>0, <2>1, <2>3, <2>4, CollectTyped DEF Typed, AllAsked, Asked
  <2> QED
    BY <2>1, <2>5, <2>6, <2>7, <2>8 DEF LInv, CompleteIsWhole
<1> QED
  BY <1>1, <1>2, <1>3 DEF LoadStep

\* Every step keeps the invariant.
LEMMA StepInv == LInv /\ [Next]_vars => LInv'
<1> SUFFICES ASSUME LInv, [Next]_vars PROVE LInv'
  OBVIOUS
<1>0. Typed /\ AllFlown /\ AllPending /\ AllAsked /\ CompleteIsWhole
  BY DEF LInv
<1>1. ASSUME NEW r \in Readers, ReaderStep(r) PROVE LInv'
  BY <1>1, ReaderKeeps
<1>2. ASSUME NEW f \in Flights, LoadStep(f) PROVE LInv'
  BY <1>2, LoadKeeps
<1>3. CASE ChangeCookie \/ UNCHANGED vars
  BY <1>0, <1>3 DEF ChangeCookie, vars, LInv, Typed, AllFlown, AllPending, AllAsked, Flown, Pending,
     Asked, Running, Ended, CompleteIsWhole
<1>4. CASE Age
  <2>1. cache' \subseteq Content /\ CompleteIsWhole'
    BY <1>0, <1>4 DEF Age, Typed, Content, CompleteIsWhole
  <2> QED
    BY <1>0, <1>4, <2>1 DEF Age, LInv, Typed, AllFlown, AllPending, AllAsked, Flown, Pending, Asked,
       Running, Ended
<1>5. CASE Close
  <2>1. /\ flight' \in [Flights -> Task]
        /\ \A f \in Flights : /\ flight'[f].of = flight[f].of /\ flight'[f].popped = flight[f].popped
                              /\ flight'[f].at # "running"
                              /\ flight'[f].at = "new" <=> flight[f].at = "new"
                              /\ (flight'[f].at = flight[f].at \/ flight'[f].at = "cancelled")
    <3> SUFFICES ASSUME NEW f \in Flights
                 PROVE  /\ flight'[f] \in Task
                        /\ flight'[f].of = flight[f].of /\ flight'[f].popped = flight[f].popped
                        /\ flight'[f].at # "running"
                        /\ flight'[f].at = "new" <=> flight[f].at = "new"
                        /\ (flight'[f].at = flight[f].at \/ flight'[f].at = "cancelled")
      BY <1>5 DEF Close
    <3>1. flight[f] \in Task /\ flight[f].of \in Cookies \cup {None}
      BY <1>0 DEF Typed, Task
    <3>2. CASE Running(f)
      <4>1. flight[f].of \in Cookies /\ pending[flight[f].of] = f
        BY <1>0, <3>2 DEF AllFlown, Flown, Running
      <4>2. flight'[f] = [NewLoad EXCEPT !.at = "cancelled", !.of = flight[f].of]
        BY <1>5, <3>2, <4>1 DEF Close
      <4>3. flight[f].popped = FALSE
        BY <1>0, <3>1, <3>2 DEF AllFlown, Flown, Running, Ended, Task
      <4>4. /\ flight'[f] \in Task /\ flight'[f].at = "cancelled" /\ flight'[f].of = flight[f].of
            /\ flight'[f].popped = FALSE
        <5> DEFINE t == [NewLoad EXCEPT !.at = "cancelled", !.of = flight[f].of]
        <5>1. t \in Task /\ t.at = "cancelled" /\ t.of = flight[f].of /\ t.popped = FALSE
          BY <3>1, RecordsTyped
        <5>2. flight'[f] = t
          BY <4>2
        <5> HIDE DEF t
        <5> QED
          BY <5>1, <5>2
      <4>5. flight'[f].popped = flight[f].popped
        BY <4>3, <4>4
      <4>6. flight[f].at = "running"
        BY <3>2 DEF Running
      <4> QED
        BY <4>4, <4>5, <4>6
    <3>3. CASE ~Running(f)
      BY <1>5, <3>1, <3>3 DEF Close, Running
    <3> QED
      BY <3>2, <3>3
  <2>2. UNCHANGED <<stored, reader, pending, cache>> /\ closed' = TRUE
    BY <1>5 DEF Close
  <2>3. Typed'
    BY <1>0, <2>1, <2>2 DEF Typed
  <2>4. AllFlown'
    BY <1>0, <2>1, <2>2 DEF Typed, AllFlown, Flown, Running, Ended
  <2>5. AllPending'
    BY <1>0, <2>1, <2>2 DEF Typed, AllPending, Pending
  <2>6. AllAsked'
    BY <1>0, <2>1, <2>2 DEF Typed, AllAsked, Asked
  <2> QED
    BY <1>0, <2>2, <2>3, <2>4, <2>5, <2>6 DEF LInv, CompleteIsWhole
<1>6. CASE Cleared
  <2>1. /\ UNCHANGED <<stored, reader, flight, closed>> /\ cache' = {} /\ closed
        /\ pending' = [c \in Cookies |-> None]
    BY <1>6 DEF Cleared
  <2>2. Typed' /\ AllPending' /\ CompleteIsWhole'
    BY <1>0, <2>1 DEF Typed, AllPending, Pending, CompleteIsWhole
  <2>3. AllFlown' /\ AllAsked'
    BY <1>0, <2>1 DEF AllFlown, Flown, Running, Ended, AllAsked, Asked
  <2> QED
    BY <2>2, <2>3 DEF LInv
<1> QED
  BY <1>1, <1>2, <1>3, <1>4, <1>5, <1>6 DEF Next

\* It holds in every state.
THEOREM Invariant == Spec => []LInv
BY InitInv, StepInv, PTL DEF Spec

-----------------------------------------------------------------------------
(* What a reader is told.                                                  *)

\* A directory that says it is complete is, for any number of pages, loads and
\* cookies (_load of qq_library.py).
THEOREM CompleteDirectoriesAreWhole == Spec => []CompleteIsWhole
<1>1. LInv => CompleteIsWhole
  BY DEF LInv
<1> QED
  BY <1>1, Invariant, PTL

\* A step that gives a reader an answer gives it the saved cookie's.
LEMMA StepAnswersCurrent == LInv /\ [Next]_vars => [AnswerIsCurrent]_vars
<1> SUFFICES ASSUME LInv, Next, NEW r \in Readers, reader'[r] # reader[r], reader'[r].at = "answered"
             PROVE  reader'[r].of = stored
  BY DEF AnswerIsCurrent
<1>0. Typed /\ AllAsked /\ \A q \in Readers : reader[q] \in Reader
  BY DEF LInv, Typed
<1>1. PICK q \in Readers : ReaderStep(q)
  BY DEF Next, LoadStep, Page, LoadFails, Forget, ChangeCookie, Age, Close, Cleared
<1>2. ASSUME NEW rec \in Reader, Becomes(q, rec), rec.at = "answered" => rec.of = stored
      PROVE  reader'[r].of = stored
  BY <1>0, <1>2, BecomesTyped
<1>3. ASSUME NEW base \in Reader, base.cookie \in Cookies, NEW rec \in Given(base, base.cookie),
             Becomes(q, rec)
      PROVE  reader'[r].of = stored
  BY <1>2, <1>3, GivenTyped
<1>4. ASSUME NEW d \in BOOLEAN, NEW refresh \in BOOLEAN, stored # None, Directory(q, stored, d, refresh)
      PROVE  reader'[r].of = stored
  <2> DEFINE ask == Asking(stored, d)
  <2>1. ask \in Reader /\ ask.cookie = stored /\ stored \in Cookies
    BY <1>0, <1>4, AskingTyped DEF Typed
  <2>2. ASSUME NEW f \in Flights, Becomes(q, [ask EXCEPT !.flight = f]) PROVE reader'[r].of = stored
    <3> DEFINE rec == [ask EXCEPT !.flight = f]
    <3>1. rec \in Reader /\ rec.at = "wait"
      BY <2>1, AskingTyped
    <3>2. Becomes(q, rec)
      BY <2>2
    <3> HIDE DEF rec
    <3> QED
      BY <1>2, <3>1, <3>2
  <2>3. CASE \E rec \in Given(ask, stored) : Becomes(q, rec)
    <3>1. PICK rec \in Given(ask, ask.cookie) : Becomes(q, rec)
      BY <2>1, <2>3
    <3> HIDE DEF ask
    <3> QED
      BY <1>3, <2>1, <3>1
  <2>4. CASE pending[stored] # None /\ Becomes(q, [ask EXCEPT !.flight = pending[stored]])
    BY <1>0, <2>1, <2>2, <2>4 DEF Typed
  <2> QED
    BY <1>4, <2>2, <2>3, <2>4 DEF Directory
<1>5. CASE AskDirectory(q)
  BY <1>4, <1>5 DEF AskDirectory
<1>6. CASE AskDetail(q)
  <2>1. CASE Directory(q, stored, TRUE, FALSE)
    BY <1>4, <1>6, <2>1 DEF AskDetail
  <2>2. CASE Becomes(q, NewReader)
    BY <1>2, <2>2, RecordsTyped
  <2> QED
    BY <1>6, <2>1, <2>2 DEF AskDetail
<1>7. CASE Wake(q)
  <2>1. flight[reader[q].flight].of = reader[q].cookie /\ reader[q].cookie \in Cookies
    BY <1>0, <1>7 DEF Wake, AllAsked, Asked
  <2>2. CASE \E rec \in Given(reader[q], flight[reader[q].flight].of) : Becomes(q, rec)
    BY <1>0, <1>3, <2>1, <2>2
  <2>3. CASE Becomes(q, NewReader)
    BY <1>2, <2>3, RecordsTyped
  <2> QED
    BY <1>7, <2>2, <2>3 DEF Wake
<1>8. CASE SongsAnswered(q)
  <2>1. reader[q].of = reader[q].cookie /\ reader[q].of \in Cookies
    BY <1>0, <1>8 DEF SongsAnswered, AllAsked, Asked
  <2>2. CASE Becomes(q, [NewReader EXCEPT !.at = "answered", !.of = reader[q].of]) /\ stored = reader[q].cookie
    <3> DEFINE rec == [NewReader EXCEPT !.at = "answered", !.of = reader[q].of]
    <3>1. rec \in Reader /\ rec.of = stored
      BY <2>1, <2>2 DEF NewReader, Reader
    <3>2. Becomes(q, rec)
      BY <2>2
    <3> HIDE DEF rec
    <3> QED
      BY <1>2, <3>1, <3>2
  <2>3. CASE Becomes(q, NewReader)
    BY <1>2, <2>3, RecordsTyped
  <2> QED
    BY <1>8, <2>2, <2>3 DEF SongsAnswered, Answered
<1>9. CASE Disconnect(q)
  BY <1>2, <1>9, RecordsTyped DEF Disconnect
<1> QED
  BY <1>1, <1>5, <1>6, <1>7, <1>8, <1>9 DEF ReaderStep

\* No reader is shown the playlists of an account that was replaced or logged out
\* while it waited (_check_qq_library_snapshot).
THEOREM AnswersStayCurrent == Spec => AnswersAreCurrent
BY Invariant, StepAnswersCurrent, PTL DEF Spec, AnswersAreCurrent

-----------------------------------------------------------------------------
(* The library implements SingleFlight.                                    *)

\* An empty library is one of SingleFlight.
LEMMA InitRefines == Init => Promise!Init
<1> SUFFICES ASSUME Init PROVE Promise!Init
  OBVIOUS
<1>1. Wanted = [r \in Readers |-> None] /\ Served = [r \in Readers |-> None]
  <2>1. \A r \in Readers : reader[r].at # "wait" /\ reader[r].of = None
    BY RecordsTyped DEF Init
  <2> QED
    BY <2>1 DEF Wanted, Served
<1>2. Flying = [f \in Flights |-> None] /\ AtHand = {}
  <2>1. \A f \in Flights : flight[f].at = "new"
    BY RecordsTyped DEF Init
  <2> QED
    BY <2>1 DEF Init, Flying, AtHand, Running
<1> QED
  BY <1>1, <1>2 DEF Promise!Init, Init

\* Collecting tasks lands nothing, fails nothing and brings nothing.
LEMMA CollectRefines ==
  ASSUME LInv, NEW tasks \in [Flights -> Task], Collect(tasks), UNCHANGED cache,
         \A f \in Flights : /\ tasks[f].at = flight[f].at /\ tasks[f].of = flight[f].of
                            /\ tasks[f].popped => Ended(f)
  PROVE  Flying' = Flying /\ AtHand' \subseteq AtHand
<1>1. ASSUME NEW f \in Flights
      PROVE  \/ flight'[f].at = flight[f].at /\ flight'[f].of = flight[f].of
             \/ flight'[f].at = "new" /\ flight[f].at # "running"
  <2>1. CASE flight'[f] = tasks[f]
    BY <2>1
  <2>2. CASE flight'[f] = NewLoad /\ tasks[f].popped
    BY <2>2, RecordsTyped DEF Ended
  <2> QED
    BY <2>1, <2>2, CollectTyped
<1>2. Flying' = Flying
  BY <1>1 DEF Flying, Running
<1>3. AtHand' \subseteq AtHand
  <2>1. \A f \in Flights : flight'[f].at = "done" =>
          flight[f].at = "done" /\ flight'[f].of = flight[f].of
    BY <1>1
  <2> QED
    BY <2>1 DEF AtHand
<1> QED
  BY <1>2, <1>3

\* A reader at a directory of a key that is at hand is served, or leaves.
LEMMA GivenRefines ==
  ASSUME LInv, NEW r \in Readers, NEW base \in Reader, base.cookie \in Cookies,
         NEW rec \in Given(base, base.cookie), Becomes(r, rec),
         Wanted[r] \in {base.cookie, None}, base.cookie \in AtHand,
         AtHand' \subseteq AtHand, Flying' = Flying, closed' = closed
  PROVE  Promise!Next
<1>1. /\ rec \in Reader /\ rec.at # "wait"
      /\ rec.of \in {base.cookie, None}
  BY GivenTyped
<1>2. /\ Wanted' = [Wanted EXCEPT ![r] = None]
      /\ Served' = [Served EXCEPT ![r] = rec.of]
  BY <1>1, BecomesTyped DEF LInv
<1>3. CASE rec.of = base.cookie
  <2>1. Promise!Serve(r, base.cookie)
    BY <1>2, <1>3 DEF Promise!Serve
  <2> QED
    BY <2>1 DEF Promise!Next
<1>4. CASE rec.of = None
  <2>1. Promise!Leave(r)
    BY <1>2, <1>4 DEF Promise!Leave
  <2> QED
    BY <2>1 DEF Promise!Next
<1> QED
  BY <1>1, <1>3, <1>4

\* A reader that ends its request leaves.
LEMMA LeaveRefines ==
  ASSUME LInv, NEW r \in Readers, Becomes(r, NewReader),
         AtHand' \subseteq AtHand, Flying' = Flying, closed' = closed
  PROVE  Promise!Next
<1>1. /\ Wanted' = [Wanted EXCEPT ![r] = None]
      /\ Served' = [Served EXCEPT ![r] = None]
  <2>1. NewReader \in Reader /\ NewReader.at # "wait" /\ NewReader.of = None
    BY RecordsTyped
  <2>2. Typed
    BY DEF LInv
  <2> QED
    BY <2>1, <2>2, BecomesTyped
<1>2. Promise!Leave(r)
  BY <1>1 DEF Promise!Leave
<1> QED
  BY <1>2 DEF Promise!Next

\* A reader that joins a load or starts one asks; if there is a fresh directory it
\* is served at once.
LEMMA DirectoryRefines ==
  ASSUME LInv, NEW r \in Readers, NEW d \in BOOLEAN, NEW refresh \in BOOLEAN, Free(r),
         stored # None, Directory(r, stored, d, refresh), UNCHANGED <<stored, cache, closed>>
  PROVE  Promise!Next
<1> DEFINE ask == Asking(stored, d)
<1>0. Typed /\ AllFlown /\ AllPending /\ stored \in Cookies
  BY DEF LInv, Typed
<1>1. Wanted[r] = None /\ ~closed
  BY DEF Free, Wanted
<1>2. ask \in Reader /\ ask.cookie = stored
  BY <1>0, AskingTyped
<1>3. ASSUME NEW f \in Flights, Becomes(r, [ask EXCEPT !.flight = f])
      PROVE  /\ Wanted' = [Wanted EXCEPT ![r] = stored]
             /\ Served' = [Served EXCEPT ![r] = None]
  <2> DEFINE rec == [ask EXCEPT !.flight = f]
  <2>1. rec \in Reader /\ rec.at = "wait" /\ rec.cookie = stored /\ rec.of = None
    BY <1>0, AskingTyped
  <2>2. Becomes(r, rec)
    BY <1>3
  <2> HIDE DEF rec
  <2> QED
    BY <1>0, <2>1, <2>2, BecomesTyped
<1>4. CASE /\ Fresh(stored, IF refresh THEN {"new"} ELSE {"new", "recent"}) # {}
           /\ \E rec \in Given(ask, stored) : Becomes(r, rec)
           /\ UNCHANGED <<flight, pending>>
  <2>1. PICK rec \in Given(ask, ask.cookie) : Becomes(r, rec)
    BY <1>2, <1>4
  <2>2. stored \in AtHand
    BY <1>4 DEF Fresh, AtHand
  <2>3. AtHand' = AtHand /\ Flying' = Flying
    BY <1>4 DEF AtHand, Flying, Running
  <2> HIDE DEF ask
  <2> QED
    BY <1>0, <1>1, <1>2, <2>1, <2>2, <2>3, GivenRefines
<1>5. CASE /\ pending[stored] # None /\ Becomes(r, [ask EXCEPT !.flight = pending[stored]])
           /\ UNCHANGED <<flight, pending>>
  <2>1. pending[stored] \in Flights
    BY <1>0, <1>5 DEF Typed
  <2>2. AtHand' = AtHand /\ Flying' = Flying
    BY <1>5 DEF AtHand, Flying, Running
  <2>3. Promise!Ask(r, stored)
    BY <1>1, <1>3, <1>5, <2>1, <2>2 DEF Promise!Ask
  <2> QED
    BY <1>0, <2>3 DEF Promise!Next
<1>6. CASE /\ pending[stored] = None
           /\ \E f \in Flights : Start(f, stored) /\ Becomes(r, [ask EXCEPT !.flight = f])
  <2>1. PICK f \in Flights : Start(f, stored) /\ Becomes(r, [ask EXCEPT !.flight = f])
    BY <1>6
  <2> DEFINE t == [NewLoad EXCEPT !.at = "running", !.of = stored]
  <2>2. t.at = "running" /\ t.of = stored
    BY DEF NewLoad
  <2>3. flight[f].at = "new" /\ flight' = [flight EXCEPT ![f] = t]
    BY <2>1 DEF Start
  <2> HIDE DEF t
  <2>4. Flying[f] = None /\ Flying' = [Flying EXCEPT ![f] = stored]
    BY <1>0, <2>2, <2>3 DEF Flying, Running, Typed
  <2>5. \A g \in Flights : Flying[g] # stored
    BY <1>0, <1>6, NoneIsNone DEF Flying, AllFlown, Flown
  <2>6. AtHand' = AtHand
    <3>1. {g \in Flights : flight'[g].at = "done"} = {g \in Flights : flight[g].at = "done"}
      BY <1>0, <2>2, <2>3 DEF Typed
    <3>2. \A g \in {h \in Flights : flight[h].at = "done"} : flight'[g].of = flight[g].of
      BY <1>0, <2>3 DEF Typed
    <3> QED
      BY <3>1, <3>2 DEF AtHand
  <2>7. Promise!Launch(f, stored)
    BY <2>4, <2>5 DEF Promise!Launch
  <2>8. Promise!Ask(r, stored)
    BY <1>1, <1>3, <2>1, <2>6, <2>7 DEF Promise!Ask
  <2> QED
    BY <1>0, <2>8 DEF Promise!Next
<1> QED
  BY <1>4, <1>5, <1>6 DEF Directory

\* Every step of a reader asks, serves, leaves, or is none of SingleFlight's.
LEMMA ReaderRefines ==
  ASSUME LInv, NEW r \in Readers, ReaderStep(r)
  PROVE  Promise!Next \/ UNCHANGED Promise!vars
<1>0. /\ Typed /\ AllFlown /\ AllAsked /\ reader[r] \in Reader
      /\ flight \in [Flights -> Task] /\ \A f \in Flights : flight[f].popped => Ended(f)
  BY DEF LInv, Typed, AllFlown, Flown
<1>1. CASE AskDirectory(r)
  BY <1>1, DirectoryRefines DEF AskDirectory
<1>2. CASE AskDetail(r)
  <2>1. CASE Directory(r, stored, TRUE, FALSE)
    BY <1>2, <2>1, DirectoryRefines DEF AskDetail
  <2>2. CASE Becomes(r, NewReader) /\ UNCHANGED <<flight, pending>>
    <3>1. AtHand' = AtHand /\ Flying' = Flying
      BY <1>2, <2>2 DEF AskDetail, AtHand, Flying, Running
    <3> QED
      BY <1>2, <2>2, <3>1, LeaveRefines DEF AskDetail
  <2> QED
    BY <1>2, <2>1, <2>2 DEF AskDetail
<1>3. CASE Wake(r)
  <2> DEFINE f == reader[r].flight
  <2>1. f \in Flights /\ flight[f].of = reader[r].cookie /\ reader[r].cookie \in Cookies
    BY <1>0, <1>3 DEF Wake, AllAsked, Asked
  <2>2. Flying' = Flying /\ AtHand' \subseteq AtHand /\ closed' = closed
    BY <1>0, <1>3, CollectRefines DEF Wake
  <2>3. CASE flight[f].at = "done" /\ \E rec \in Given(reader[r], flight[f].of) : Becomes(r, rec)
    <3>1. PICK rec \in Given(reader[r], reader[r].cookie) : Becomes(r, rec)
      BY <2>1, <2>3
    <3>2. Wanted[r] = reader[r].cookie
      BY <1>3 DEF Wake, Wanted
    <3>3. reader[r].cookie \in AtHand
      BY <2>1, <2>3 DEF AtHand
    <3> QED
      BY <1>0, <2>1, <2>2, <3>1, <3>2, <3>3, GivenRefines
  <2>4. CASE Becomes(r, NewReader)
    BY <2>2, <2>4, LeaveRefines
  <2> QED
    BY <1>3, <2>3, <2>4 DEF Wake
<1>4. CASE SongsAnswered(r)
  <2>1. AtHand' = AtHand /\ Flying' = Flying /\ closed' = closed
    BY <1>4 DEF SongsAnswered, AtHand, Flying, Running
  <2>2. CASE Becomes(r, [NewReader EXCEPT !.at = "answered", !.of = reader[r].of])
    <3> DEFINE rec == [NewReader EXCEPT !.at = "answered", !.of = reader[r].of]
    <3>1. rec \in Reader /\ rec.at = "answered" /\ rec.of = reader[r].of
      BY <1>0 DEF NewReader, Reader
    <3>2. Becomes(r, rec)
      BY <2>2
    <3> HIDE DEF rec
    <3>3. /\ Wanted' = [Wanted EXCEPT ![r] = None]
          /\ Served' = [Served EXCEPT ![r] = reader[r].of]
      BY <1>0, <3>1, <3>2, BecomesTyped
    <3>4. Wanted' = Wanted /\ Served' = Served
      BY <1>4, <3>3 DEF SongsAnswered, Wanted, Served
    <3> QED
      BY <2>1, <3>4 DEF Promise!vars
  <2>3. CASE Becomes(r, NewReader)
    BY <2>1, <2>3, LeaveRefines
  <2> QED
    BY <1>4, <2>2, <2>3 DEF SongsAnswered, Answered
<1>5. CASE Disconnect(r)
  <2>1. Flying' = Flying /\ AtHand' \subseteq AtHand /\ closed' = closed
    BY <1>0, <1>5, CollectRefines DEF Disconnect
  <2> QED
    BY <1>5, <2>1, LeaveRefines DEF Disconnect
<1> QED
  BY <1>1, <1>2, <1>3, <1>4, <1>5 DEF ReaderStep

\* A load that ends lands with its key, or fails.
LEMMA LoadRefines ==
  ASSUME LInv, NEW f \in Flights, LoadStep(f)
  PROVE  Promise!Next \/ UNCHANGED Promise!vars
<1> DEFINE k == flight[f].of
<1>0. Typed /\ AllFlown /\ flight[f] \in Task
  BY DEF LInv, Typed
<1>1. ASSUME reader' = reader PROVE Wanted' = Wanted /\ Served' = Served
  BY <1>1 DEF Wanted, Served
<1>2. ASSUME Running(f), NEW t \in Task, t.at # "running", flight' = [flight EXCEPT ![f] = t]
      PROVE  Flying[f] = k /\ k # None /\ Flying' = [Flying EXCEPT ![f] = None]
  <2>1. k \in Cookies
    BY <1>0, <1>2 DEF AllFlown, Flown, Running
  <2> QED
    BY <1>0, <1>2, <2>1, NoneIsNone DEF Flying, Running, Typed
<1>3. CASE Page(f)
  <2>1. Running(f) /\ UNCHANGED <<stored, reader, pending, closed>> /\ k \in Cookies
    BY <1>0, <1>3 DEF Page, AllFlown, Flown, Running
  <2>2. CASE /\ flight' = [flight EXCEPT ![f] = [NewLoad EXCEPT !.at = "done", !.of = k]]
             /\ \E left, whole : cache' = {[of |-> k, age |-> "new", left |-> left, whole |-> whole]}
    <3> DEFINE t == [NewLoad EXCEPT !.at = "done", !.of = k]
    <3>1. t \in Task /\ t.at = "done" /\ t.of = k
      BY <2>1, RecordsTyped
    <3>2. flight' = [flight EXCEPT ![f] = t]
      BY <2>2
    <3> HIDE DEF t
    <3>3. Flying[f] = k /\ k # None /\ Flying' = [Flying EXCEPT ![f] = None]
      BY <1>2, <2>1, <3>1, <3>2
    <3>4. {x.of : x \in cache'} = {k}
      BY <2>2
    <3>5. \A g \in Flights : flight'[g].at = "done" => g = f \/ flight'[g] = flight[g]
      BY <1>0, <3>2 DEF Typed
    <3>6. flight'[f].of = k
      BY <1>0, <3>1, <3>2 DEF Typed
    <3>7. k \in AtHand' /\ AtHand' \subseteq AtHand \cup {k}
      BY <3>4, <3>5, <3>6 DEF AtHand
    <3>8. Promise!Land(f)
      BY <1>1, <2>1, <3>3, <3>7 DEF Promise!Land
    <3> QED
      BY <3>8 DEF Promise!Next
  <2>3. CASE flight' = [flight EXCEPT ![f].page = flight[f].page + 1] /\ UNCHANGED cache
    <3>1. \A g \in Flights : flight'[g].at = flight[g].at /\ flight'[g].of = flight[g].of
      BY <1>0, <2>3 DEF Typed, Task
    <3>2. Flying' = Flying /\ AtHand' = AtHand
      BY <2>3, <3>1 DEF Flying, AtHand, Running
    <3> QED
      BY <1>1, <2>1, <3>2 DEF Promise!vars
  <2> QED
    BY <1>3, <2>2, <2>3 DEF Page
<1>4. CASE LoadFails(f)
  <2> DEFINE t == [NewLoad EXCEPT !.at = "failed", !.of = k]
  <2>1. Running(f) /\ UNCHANGED <<stored, reader, pending, cache, closed>> /\ k \in Cookies
    BY <1>0, <1>4 DEF LoadFails, AllFlown, Flown, Running
  <2>2. t \in Task /\ t.at = "failed"
    BY <2>1, RecordsTyped
  <2>3. flight' = [flight EXCEPT ![f] = t]
    BY <1>4 DEF LoadFails
  <2> HIDE DEF t
  <2>4. Flying[f] = k /\ k # None /\ Flying' = [Flying EXCEPT ![f] = None]
    BY <1>2, <2>1, <2>2, <2>3
  <2>5. AtHand' = AtHand
    <3>1. {g \in Flights : flight'[g].at = "done"} = {g \in Flights : flight[g].at = "done"}
      BY <1>0, <2>1, <2>2, <2>3 DEF Typed, Running
    <3>2. \A g \in {h \in Flights : flight[h].at = "done"} : flight'[g].of = flight[g].of
      BY <1>0, <2>1, <2>3 DEF Typed, Running
    <3> QED
      BY <2>1, <3>1, <3>2 DEF AtHand
  <2>6. Promise!Fail(f)
    BY <1>1, <2>1, <2>4, <2>5 DEF Promise!Fail
  <2> QED
    BY <2>6 DEF Promise!Next
<1>5. CASE Forget(f)
  <2> DEFINE tasks == [flight EXCEPT ![f] = [flight[f] EXCEPT !.popped = TRUE]]
  <2>1. Ended(f) /\ UNCHANGED <<stored, reader, cache, closed>>
    BY <1>5 DEF Forget
  <2>2. tasks = [flight EXCEPT ![f].popped = TRUE]
    BY <1>0 DEF Typed
  <2>3. Collect(tasks)
    BY <1>5, <2>2 DEF Forget
  <2>4. /\ tasks \in [Flights -> Task]
        /\ \A g \in Flights : tasks[g].at = flight[g].at /\ tasks[g].of = flight[g].of
        /\ \A g \in Flights : g # f => tasks[g] = flight[g]
    BY <1>0 DEF Typed, Task
  <2> HIDE DEF tasks
  <2>5. \A g \in Flights : tasks[g].popped => Ended(g)
    BY <1>0, <2>1, <2>4 DEF AllFlown, Flown
  <2>6. Flying' = Flying /\ AtHand' \subseteq AtHand
    BY <2>1, <2>3, <2>4, <2>5, CollectRefines
  <2>7. Promise!Drop
    BY <1>1, <2>1, <2>6 DEF Promise!Drop
  <2> QED
    BY <2>7 DEF Promise!Next
<1> QED
  BY <1>3, <1>4, <1>5 DEF LoadStep

\* Every step is a step of SingleFlight or leaves its state as it is.
LEMMA StepRefines == LInv /\ [Next]_vars => [Promise!Next]_(Promise!vars)
<1> SUFFICES ASSUME LInv, [Next]_vars PROVE Promise!Next \/ UNCHANGED Promise!vars
  OBVIOUS
<1>0. Typed /\ AllFlown /\ \A f \in Flights : flight[f] \in Task
  BY DEF LInv, Typed
<1>1. ASSUME NEW r \in Readers, ReaderStep(r) PROVE Promise!Next \/ UNCHANGED Promise!vars
  BY <1>1, ReaderRefines
<1>2. ASSUME NEW f \in Flights, LoadStep(f) PROVE Promise!Next \/ UNCHANGED Promise!vars
  BY <1>2, LoadRefines
<1>3. CASE ChangeCookie \/ UNCHANGED vars
  <2>1. UNCHANGED <<reader, flight, cache, closed>>
    BY <1>3 DEF ChangeCookie, vars
  <2> QED
    BY <2>1 DEF Promise!vars, Wanted, Served, Flying, AtHand, Running
<1>4. CASE Age \/ Cleared
  <2>1. UNCHANGED <<reader, flight, closed>>
    BY <1>4 DEF Age, Cleared
  <2>2. Wanted' = Wanted /\ Served' = Served /\ Flying' = Flying
    BY <2>1 DEF Wanted, Served, Flying, Running
  <2>3. \A y \in cache' : \E x \in cache : y.of = x.of
    BY <1>0, <1>4 DEF Age, Cleared, Typed, Content
  <2>4. AtHand' \subseteq AtHand
    BY <2>1, <2>3 DEF AtHand
  <2>5. Promise!Drop
    BY <2>1, <2>2, <2>4 DEF Promise!Drop
  <2> QED
    BY <2>5 DEF Promise!Next
<1>5. CASE Close
  <2>1. UNCHANGED <<reader, cache>> /\ closed' = TRUE
    BY <1>5 DEF Close
  <2>2. ASSUME NEW f \in Flights
        PROVE  /\ flight'[f].at # "running"
               /\ flight[f].at = "done" <=> flight'[f].at = "done"
               /\ flight[f].at = "done" => flight'[f].of = flight[f].of
    <3>1. CASE Running(f)
      <4>1. flight[f].of \in Cookies /\ pending[flight[f].of] = f
        BY <1>0, <3>1 DEF AllFlown, Flown, Running
      <4> DEFINE t == [NewLoad EXCEPT !.at = "cancelled", !.of = flight[f].of]
      <4>2. t.at = "cancelled"
        BY <4>1, RecordsTyped
      <4>3. flight'[f] = t
        BY <1>5, <3>1, <4>1 DEF Close
      <4> HIDE DEF t
      <4> QED
        BY <3>1, <4>2, <4>3 DEF Running
    <3>2. CASE ~Running(f)
      BY <1>5, <3>2 DEF Close, Running
    <3> QED
      BY <3>1, <3>2
  <2>3. Wanted' = Wanted /\ Served' = Served /\ Flying' = [f \in Flights |-> None]
    BY <2>1, <2>2 DEF Wanted, Served, Flying, Running
  <2>4. AtHand' = AtHand
    <3>1. {f \in Flights : flight'[f].at = "done"} = {f \in Flights : flight[f].at = "done"}
      BY <2>2
    <3> QED
      BY <2>1, <2>2, <3>1 DEF AtHand
  <2>5. Promise!Close
    BY <2>1, <2>3, <2>4 DEF Promise!Close
  <2> QED
    BY <2>5 DEF Promise!Next
<1> QED
  BY <1>1, <1>2, <1>3, <1>4, <1>5 DEF Next

\* The library keeps the promise: one flight per key, what a flight brought is of
\* the key that was asked for, and no reader's leaving ends a flight, for any number
\* of readers, keys and loads.
THEOREM LibraryImplementsSingleFlight == Spec => PromiseKept
BY Invariant, InitRefines, StepRefines, PTL DEF Spec, PromiseKept, Promise!Spec
=============================================================================
