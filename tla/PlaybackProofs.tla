--------------------------- MODULE PlaybackProofs ---------------------------
(***************************************************************************)
(* Proofs about Playback, for any number of requests, tracks and ids: its  *)
(* types, the pending item, the detached track, the ids, the take-overs;   *)
(* what is shown, when commands come in order and none fails; and the      *)
(* index of the shuffled order, when no row is deleted from a thread.      *)
(***************************************************************************)
EXTENDS Playback, FiniteSetTheorems, SequenceTheorems, WellFoundedInduction, TLAPS

Table == [Ids -> Tracks \cup {NoTrack}]

-----------------------------------------------------------------------------
(* The queue table *)

\* A set of naturals that is not empty has a least element.
LEMMA LeastNatural ==
  ASSUME NEW S, S \subseteq Nat, S # {}
  PROVE  \E n \in S : \A m \in S : n <= m
<1> DEFINE Less == OpToRel(<, Nat)
<1>1. \E n \in S : \A m \in S : <<m, n>> \notin Less
  <2> HIDE DEF Less
  <2>1. IsWellFoundedOn(Less, Nat)
    BY NatLessThanWellFounded DEF Less
  <2> QED  BY <2>1, WFMin
<1>2. PICK n \in S : \A m \in S : <<m, n>> \notin Less
  BY <1>1
<1>3. ASSUME NEW m \in S  PROVE n <= m
  <2>1. m \in Nat /\ n \in Nat
    OBVIOUS
  <2>2. <<m, n>> \in Less <=> m < n
    BY <2>1 DEF OpToRel
  <2> HIDE DEF Less
  <2> QED  BY <1>2, <2>1, <2>2
<1> QED
  BY <1>3

\* TopId is the highest id of the table, 0 for an empty one.
LEMMA TopIdIsHighest ==
  ASSUME NEW q \in Table
  PROVE  /\ TopId(q) \in 0..MaxId
         /\ \A i \in InQueue(q) : i <= TopId(q)
<1> DEFINE I == InQueue(q) \cup {0}
           S == {MaxId - i : i \in I}
<1>1. I \subseteq 0..MaxId /\ 0 \in I
  BY BoundAssumption DEF InQueue, Ids
<1>2. \E top \in I : \A i \in I : i <= top
  <2> HIDE DEF I
  <2>1. S \subseteq Nat /\ S # {}
    BY <1>1, BoundAssumption
  <2>2. PICK n \in S : \A m \in S : n <= m
    <3> HIDE DEF S
    <3> QED  BY <2>1, LeastNatural
  <2>3. PICK top \in I : n = MaxId - top
    OBVIOUS
  <2>4. ASSUME NEW i \in I  PROVE i <= top
    <3>1. n <= MaxId - i
      BY <2>2
    <3> QED  BY <3>1, <2>3, <1>1, BoundAssumption
  <2> QED  BY <2>4
<1>3. TopId(q) \in I /\ \A i \in InQueue(q) : i <= TopId(q)
  BY <1>2 DEF TopId
<1> QED
  <2> HIDE DEF I
  <2> QED  BY <1>1, <1>3

\* A new row's id is above the floor and above every id in the table.
LEMMA NextIdIsFresh ==
  ASSUME RequestsTyped
  PROVE  NextId \in Nat /\ NextId > floor /\ \A i \in InQueue(rows) : i < NextId
<1>1. TopId(rows) \in 0..MaxId /\ \A i \in InQueue(rows) : i <= TopId(rows)
  BY TopIdIsHighest DEF RequestsTyped, Table
<1>2. \A i \in InQueue(rows) : i \in Nat
  BY DEF InQueue, Ids
<1> QED
  BY <1>1, <1>2, BoundAssumption DEF NextId, RequestsTyped

\* Reserving the ids of the table leaves a floor that no id in it is above.
LEMMA ReservedCoversTable ==
  ASSUME RequestsTyped
  PROVE  /\ Reserved(TopId(rows)) \in 0..MaxId /\ Reserved(TopId(rows)) >= floor
         /\ \A i \in InQueue(rows) : i <= Reserved(TopId(rows))
<1>1. TopId(rows) \in 0..MaxId /\ \A i \in InQueue(rows) : i <= TopId(rows)
  BY TopIdIsHighest DEF RequestsTyped, Table
<1>2. \A i \in InQueue(rows) : i \in Nat
  BY DEF InQueue, Ids
<1> QED
  BY <1>1, <1>2, BoundAssumption DEF Reserved, RequestsTyped

-----------------------------------------------------------------------------
(* The handlers *)

Handlers == DOMAIN h = Procs /\ \A p \in Procs : HandlerOK(h[p])

\* Suspending and finishing keep the handlers well typed.
LEMMA AwaitTyped ==
  ASSUME RequestsTyped, NEW p \in Procs, NEW arg \in Nat, NEW ticket \in Nat,
         NEW point \in Points \ {"resolve", "lookup", "fetchAdd", "fetch", "delPos"}, Await(p, point, arg, ticket)
  PROVE  Handlers'
BY DEF RequestsTyped, Await, Handlers, HandlerOK, Idle, Points, Replies

\* A handler that ends leaves its record idle.
LEMMA FinishTyped ==
  ASSUME RequestsTyped, NEW p \in Procs, Finish(p)
  PROVE  Handlers'
BY DEF RequestsTyped, Finish, Handlers, HandlerOK, Idle, Points, Replies

\* A request that begins, or finds no row, keeps the types.
LEMMA BeginTyped ==
  ASSUME RequestsTyped, NEW p \in Procs, NEW i, NEW q \in Table, NEW g \in Nat,
         NEW pd \in Ids \cup {NoItem}, Begin(p, i, q, g, pd)
  PROVE  Handlers' /\ gen' \in Nat /\ pending' \in Ids \cup {NoItem}
<1>1. CASE i \in InQueue(q)
  <2>1. q[i] \in Tracks /\ i \in Ids /\ i \in Nat
    BY <1>1, TrackAssumption DEF InQueue, Table, Ids
  <2> QED
    BY <1>1, <2>1 DEF Begin, RequestsTyped, Handlers, HandlerOK, Idle, Points, Replies
<1>2. CASE i \notin InQueue(q)
  BY <1>2, FinishTyped DEF Begin
<1> QED
  BY <1>1, <1>2

\* The automatic next begins a request for some row, or does nothing.
LEMMA AutoNextBegins ==
  ASSUME NEW p, NEW start, NEW q, NEW o, NEW ix, NEW n, AutoNext(p, start, q, o, ix, n)
  PROVE  \/ \E i : Begin(p, i, q, gen, pending)
         \/ Finish(p) /\ UNCHANGED requestVars
BY DEF AutoNext

\* The automatic next keeps the types.
LEMMA AutoNextTyped ==
  ASSUME RequestsTyped, NEW p \in Procs, NEW start, NEW q \in Table, NEW o, NEW ix, NEW n,
         AutoNext(p, start, q, o, ix, n)
  PROVE  Handlers' /\ gen' \in Nat /\ pending' \in Ids \cup {NoItem}
<1>1. CASE \E i : Begin(p, i, q, gen, pending)
  BY <1>1, BeginTyped DEF RequestsTyped
<1>2. CASE Finish(p) /\ UNCHANGED requestVars
  BY <1>2, FinishTyped DEF RequestsTyped, requestVars
<1> QED
  BY <1>1, <1>2, AutoNextBegins

\* Adding a row and removing one keep the table well typed.
LEMMA InsertTyped ==
  ASSUME RequestsTyped, NEW t \in Tracks, Insert(t)
  PROVE  /\ rows' \in Table /\ floor' \in 0..MaxId /\ used' \subseteq Ids
         /\ NextId \in Ids /\ NextId \in InQueue(rows') /\ rows' = [rows EXCEPT ![NextId] = t]
<1>1. NextId \in Ids
  BY DEF Insert
<1> QED
  BY <1>1, TrackAssumption, BoundAssumption DEF Insert, RequestsTyped, Table, InQueue, Ids

\* A table without a row is a table.
LEMMA RowsWithoutTyped ==
  ASSUME RequestsTyped, NEW i
  PROVE  RowsWithout(i) \in Table
BY DEF RowsWithout, RequestsTyped, Table

\* What plays has an id, or there is none.
LEMMA ActiveTyped ==
  ASSUME RequestsTyped
  PROVE  Active \in Ids \cup {NoItem} /\ Active \in Nat
BY DEF Active, RequestsTyped, NowRecord, Ids, NoItem

\* No song at all is a now-playing record.
LEMMA NothingTyped == Nothing \in NowRecord
BY DEF Nothing, NowRecord, NoItem

\* A coroutine may wait, with a track of its own, for the song or for its URL.
LEMMA HoldTyped ==
  ASSUME RequestsTyped, NEW p \in Procs, NEW t \in Tracks, NEW ticket \in Nat,
         NEW point \in {"lookup", "fetchAdd", "fetch"},
         h' = [h EXCEPT ![p] = [Idle EXCEPT !.at = point, !.track = t, !.ticket = ticket]]
  PROVE  Handlers'
BY DEF RequestsTyped, Handlers, HandlerOK, Idle, Points, Replies

\* The head of an enqueue keeps the queue, the requests and the handlers well typed.
LEMMA StartEnqueueTyped ==
  ASSUME RequestsTyped, NEW p \in Procs, NEW t \in Tracks, NEW route, StartEnqueue(p, t, route)
  PROVE  RequestsTyped'
<1>0. gen \in Nat /\ gen + 1 \in Nat /\ NoItem \in Nat
  BY DEF RequestsTyped, NoItem
<1>1. CASE /\ Insert(t) /\ UNCHANGED requestVars
           /\ Finish(p) \/ Await(p, "statusAuto", 0, 0)
  <2>1. Handlers'
    BY <1>1, FinishTyped, AwaitTyped DEF Points
  <2> QED
    BY <1>1, <2>1, InsertTyped DEF StartEnqueue, RequestsTyped, Table, Handlers, requestVars
<1>2. CASE route = "enqueueGated"
  <2>1. /\ gen' = gen + 1 /\ pending' = NoItem
        /\ h' = [h EXCEPT ![p] = [Idle EXCEPT !.at = "fetch", !.track = t, !.ticket = gen + 1]]
    BY <1>2 DEF StartEnqueue
  <2>2. Handlers'
    BY <1>0, <2>1, HoldTyped
  <2> QED
    BY <1>0, <1>2, <2>1, <2>2 DEF StartEnqueue, RequestsTyped, Handlers
<1>3. CASE route \in {"fetchAdd", "enqueue"}
  <2>1. PICK point \in {"fetchAdd", "fetch"} :
          h' = [h EXCEPT ![p] = [Idle EXCEPT !.at = point, !.track = t, !.ticket = 0]]
    BY <1>3 DEF StartEnqueue
  <2>2. Handlers'
    BY <2>1, HoldTyped
  <2> QED
    BY <1>3, <2>2 DEF StartEnqueue, RequestsTyped, Handlers, requestVars
<1> QED
  BY <1>1, <1>2, <1>3 DEF StartEnqueue

\* Every command keeps the queue, the requests and the handlers well typed.
LEMMA CommandTyped ==
  ASSUME RequestsTyped, NEW p \in Procs, Command(p)
  PROVE  RequestsTyped'
<1>0. rows \in Table /\ gen \in Nat /\ gen + 1 \in Nat /\ pending \in Ids \cup {NoItem} /\ NoItem \in Nat
  BY DEF RequestsTyped, Table, NoItem
<1> USE <1>0
<1>1. ASSUME NEW i \in Ids, PlayItem(p, i)  PROVE RequestsTyped'
  BY <1>1, BeginTyped DEF PlayItem, RequestsTyped, Handlers, ghosts
<1>2. CASE PlayFirst(p)
  BY <1>2, BeginTyped DEF PlayFirst, RequestsTyped, Handlers, ghosts
<1>3. CASE VoiceNext(p)
  <2>1. RowsWithout(Active) \in Table /\ Active \in Nat
    BY RowsWithoutTyped, ActiveTyped
  <2>2. rows' \in Table
    BY <1>3, <2>1 DEF VoiceNext
  <2>3. /\ Handlers' /\ gen' \in Nat /\ pending' \in Ids \cup {NoItem}
        /\ now' = now \/ now' = Nothing
    <3>1. CASE \E i : Begin(p, i, rows', gen + 1, NoItem) /\ now' = now
      BY <3>1, <2>2, BeginTyped
    <3>2. CASE /\ now' = Nothing /\ gen' = gen + 1 /\ pending' = NoItem
               /\ Await(p, "last", 0, 0) \/ Await(p, "skipped", Active, 0)
      BY <3>2, <2>1, AwaitTyped DEF Points
    <3> QED
      BY <1>3, <3>1, <3>2 DEF VoiceNext, SilenceThen
  <2> QED
    BY <1>3, <2>2, <2>3, NothingTyped DEF VoiceNext, RequestsTyped, Table, Handlers, ghosts
<1>4. CASE VoiceSkip(p)
  <2>1. RowsWithout(Active) \in Table /\ Active \in Nat
    BY RowsWithoutTyped, ActiveTyped
  <2>2. CASE Active # NoItem
    <3>1. Await(p, "skipped", Active, 0)
      BY <1>4, <2>2 DEF VoiceSkip, SilenceThen
    <3>2. Handlers'
      BY <3>1, <2>1, AwaitTyped DEF Points
    <3> QED
      BY <1>4, <2>1, <2>2, <3>2, NothingTyped DEF VoiceSkip, SilenceThen, RequestsTyped, Table, Handlers, ghosts
  <2>3. CASE Active = NoItem
    BY <1>4, <2>3 DEF VoiceSkip, RequestsTyped, ghosts
  <2> QED
    BY <2>2, <2>3
<1>5. CASE VoicePrevious(p)
  <2>1. Handlers' /\ gen' \in Nat /\ pending' \in Ids \cup {NoItem}
    <3>1. CASE \E i : Begin(p, i, rows, gen, pending)
      BY <3>1, BeginTyped
    <3>2. CASE UNCHANGED <<requestVars, h>>
      BY <3>2 DEF RequestsTyped, requestVars, Handlers
    <3> QED
      BY <1>5, <3>1, <3>2 DEF VoicePrevious
  <2> QED
    BY <1>5, <2>1 DEF VoicePrevious, RequestsTyped, Handlers, ghosts
<1>6. ASSUME NEW stop \in BOOLEAN, Clear(p, stop)  PROVE RequestsTyped'
  <2>1. rows' \in Table /\ gen' \in Nat /\ pending' \in Ids \cup {NoItem}
    BY <1>6 DEF Clear, Table
  <2>2. floor' \in 0..MaxId /\ used' \subseteq Ids
    BY <1>6, ReservedCoversTable DEF Clear, RequestsTyped, InQueue
  <2>3. CASE stop
    <3>1. Handlers'
      BY <1>6, <2>3, AwaitTyped DEF Clear, Points
    <3> QED
      BY <1>6, <2>1, <2>2, <2>3, <3>1, NothingTyped DEF Clear, RequestsTyped, Table, Handlers
  <2>4. CASE ~stop
    <3>1. DetachedByClear \in Ids \cup {NoItem}
      BY DEF DetachedByClear, RequestsTyped, NowRecord, NoItem
    <3> QED
      BY <1>6, <2>1, <2>2, <2>4, <3>1 DEF Clear, RequestsTyped, NowRecord, Table
  <2> QED
    BY <2>3, <2>4
<1>7. CASE ClearFails(p)
  BY <1>7, ReservedCoversTable DEF ClearFails, RequestsTyped, InQueue, requestVars
<1>8. CASE ChatStop(p)
  <2>1. Handlers'
    BY <1>8, AwaitTyped DEF ChatStop, Points
  <2> QED
    BY <1>8, <2>1, NothingTyped DEF ChatStop, RequestsTyped, Handlers, ghosts
<1>9. ASSUME NEW t \in Tracks, NEW route, Enqueue(p, t, route) \/ Replay(p, t, route)  PROVE RequestsTyped'
  BY <1>9, StartEnqueueTyped DEF Enqueue, Replay
<1>10. ASSUME NEW t \in Tracks, LookUp(p, t)  PROVE RequestsTyped'
  <2>2. Handlers'
    BY <1>10 DEF LookUp, RequestsTyped, Handlers, HandlerOK, Idle, Points, Replies
  <2> QED
    BY <1>10, <2>2 DEF LookUp, RequestsTyped, Handlers, requestVars, ghosts
<1>12. CASE VoicePlay(p)
  <2>1. Handlers'
    BY <1>12, AwaitTyped DEF VoicePlay, Points
  <2> QED
    BY <1>12, <2>1 DEF VoicePlay, RequestsTyped, Handlers, requestVars, ghosts
<1>13. CASE VoicePause(p)
  <2>1. Handlers'
    BY <1>13, AwaitTyped DEF VoicePause, Points
  <2>2. (now.item # NoItem) \in BOOLEAN
    OBVIOUS
  <2> QED
    BY <1>13, <2>1, <2>2 DEF VoicePause, RequestsTyped, NowRecord, Handlers, requestVars, ghosts
<1>14. CASE ChatResume(p)
  <2>1. Handlers'
    BY <1>14, AwaitTyped DEF ChatResume, Points
  <2> QED
    BY <1>14, <2>1 DEF ChatResume, RequestsTyped, NowRecord, Handlers, requestVars, ghosts
<1>15. ASSUME NEW on \in BOOLEAN, SetShuffle(p, on)  PROVE RequestsTyped'
  <2>1. CASE p = Worker /\ on
    <3>1. Handlers'
      BY <1>15, <2>1, AwaitTyped DEF SetShuffle, Points
    <3> QED
      BY <1>15, <3>1 DEF SetShuffle, RequestsTyped, Handlers, requestVars, ghosts
  <2>2. CASE ~(p = Worker /\ on)
    BY <1>15, <2>2 DEF SetShuffle, RequestsTyped, requestVars, ghosts
  <2> QED
    BY <2>1, <2>2
<1>16. ASSUME NEW mode \in Modes, SetRepeat(p, mode)  PROVE RequestsTyped'
  BY <1>16 DEF SetRepeat, RequestsTyped, requestVars, ghosts
<1>17. ASSUME NEW i \in Ids, Delete(p, i)  PROVE RequestsTyped'
  <2>1. Handlers'
    BY <1>17, AwaitTyped DEF Delete, Points, Ids
  <2> QED
    BY <1>17, <2>1, RowsWithoutTyped DEF Delete, RequestsTyped, Table, Handlers, requestVars, ghosts
<1> QED
  BY <1>1, <1>2, <1>3, <1>4, <1>5, <1>6, <1>7, <1>8, <1>9, <1>10, <1>12, <1>13,
     <1>14, <1>15, <1>16, <1>17 DEF Command

\* Every resumption does.
LEMMA TakeOverTyped ==
  ASSUME RequestsTyped, NEW p \in Procs, CanTakeOver(h[p].ticket, h[p].arg), TakeOver(p),
         h[p].at = "resolve"
  PROVE  /\ Handlers' /\ now' \in NowRecord /\ pending' = pending /\ took' \in Nat
<1>1. HandlerOK(h[p]) /\ h[p].arg \in Ids
  BY DEF RequestsTyped, CanTakeOver, InQueue
<1>2. h[p].arg \in Nat /\ h[p].ticket \in Nat /\ h[p].track \in Tracks
  BY <1>1 DEF HandlerOK, Ids
<1>3. Handlers'
  BY <1>2, AwaitTyped DEF TakeOver, Points
<1> QED
  BY <1>1, <1>2, <1>3 DEF TakeOver, NowPlaying, NowRecord, NoItem

\* A request that gives up keeps the types.
LEMMA GiveUpTyped ==
  ASSUME RequestsTyped, NEW p \in Procs, GiveUp(p)
  PROVE  Handlers' /\ pending' \in Ids \cup {NoItem} /\ now' = now /\ took' = took
BY FinishTyped DEF GiveUp, PendingWithout, RequestsTyped

\* Every resumption keeps the types.
LEMMA ContinueTyped ==
  ASSUME RequestsTyped, NEW p \in Procs, Continue(p)
  PROVE  RequestsTyped'
<1>0. rows \in Table /\ gen \in Nat /\ pending \in Ids \cup {NoItem} /\ NoItem \in Nat
  BY DEF RequestsTyped, Table, NoItem
<1> USE <1>0
<1>1. CASE Resolved(p)
  <2>1. CASE CanTakeOver(h[p].ticket, h[p].arg) /\ TakeOver(p)
    BY <1>1, <2>1, TakeOverTyped DEF Resolved, RequestsTyped, Handlers
  <2>2. CASE GiveUp(p)
    BY <1>1, <2>2, GiveUpTyped DEF Resolved, RequestsTyped, Handlers
  <2> QED
    BY <1>1, <2>1, <2>2 DEF Resolved
<1>2. CASE Played(p)
  BY <1>2, GiveUpTyped DEF Played, RequestsTyped, Handlers
<1>3. CASE Fetched(p)
  <2>1. CASE /\ Insert(h[p].track) /\ now' = NowPlaying(NextId, h[p].track)
             /\ took' = IF h[p].ticket = 0 THEN took ELSE h[p].ticket
             /\ Await(p, "playNew", NextId, h[p].ticket)
    <3>1. h[p].track \in Tracks /\ h[p].ticket \in Nat
      BY <1>3 DEF Fetched, RequestsTyped, HandlerOK
    <3>2. NextId \in Ids /\ rows' \in Table /\ floor' \in 0..MaxId /\ used' \subseteq Ids
      BY <2>1, <3>1, InsertTyped
    <3>3. Handlers'
      BY <2>1, <3>1, <3>2, AwaitTyped DEF Points, Ids
    <3>4. now' \in NowRecord
      BY <2>1, <3>1, <3>2 DEF NowPlaying, NowRecord, NoItem
    <3> QED
      BY <1>3, <2>1, <3>1, <3>2, <3>3, <3>4 DEF Fetched, RequestsTyped, Handlers, Table, requestVars
  <2>2. CASE Finish(p) /\ UNCHANGED <<rows, floor, used, now, took>>
    BY <1>3, <2>2, FinishTyped DEF Fetched, RequestsTyped, Handlers, requestVars
  <2> QED
    BY <1>3, <2>1, <2>2 DEF Fetched
<1>4. CASE Done(p)
  BY <1>4, FinishTyped DEF Done, RequestsTyped, Handlers, requestVars, ghosts
<1>5. CASE Skipped(p)
  <2>1. Handlers' /\ gen' \in Nat /\ pending' \in Ids \cup {NoItem}
    <3>1. CASE h[p].reply = "ok"
      BY <1>5, <3>1, AutoNextTyped DEF Skipped
    <3>2. CASE h[p].reply # "ok"
      BY <1>5, <3>2, FinishTyped DEF Skipped, requestVars
    <3> QED
      BY <3>1, <3>2
  <2> QED
    BY <1>5, <2>1 DEF Skipped, RequestsTyped, Handlers, ghosts
<1>6. CASE Noticed(p)
  BY <1>6, AutoNextTyped DEF Noticed, RequestsTyped, Handlers, ghosts
<1>7. CASE StatusRead(p)
  <2>1. CASE AutoNext(p, NoItem, rows, order, pos, now) /\ now' = now
    BY <1>7, <2>1, AutoNextTyped DEF StatusRead, RequestsTyped, Handlers, ghosts
  <2>2. CASE now' = [now EXCEPT !.paused = FALSE] /\ Await(p, "last", 0, 0) /\ UNCHANGED requestVars
    <3>1. Handlers'
      BY <2>2, AwaitTyped DEF Points
    <3> QED
      BY <1>7, <2>2, <3>1 DEF StatusRead, RequestsTyped, NowRecord, Handlers, requestVars, ghosts
  <2>3. CASE Finish(p) /\ UNCHANGED <<now, requestVars>>
    BY <1>7, <2>3, FinishTyped DEF StatusRead, RequestsTyped, Handlers, requestVars, ghosts
  <2> QED
    BY <1>7, <2>1, <2>2, <2>3 DEF StatusRead, requestVars
<1>8. CASE StatusReadAuto(p)
  <2>1. Handlers' /\ gen' \in Nat /\ pending' \in Ids \cup {NoItem}
    <3>1. CASE h[p].reply = "idle"
      BY <1>8, <3>1, AutoNextTyped DEF StatusReadAuto
    <3>2. CASE h[p].reply # "idle"
      BY <1>8, <3>2, FinishTyped DEF StatusReadAuto, requestVars
    <3> QED
      BY <3>1, <3>2
  <2> QED
    BY <1>8, <2>1 DEF StatusReadAuto, RequestsTyped, Handlers, ghosts
<1>9. CASE DeleteFromOrder(p)
  <2>1. CASE Finish(p)
    BY <1>9, <2>1, FinishTyped DEF DeleteFromOrder, RequestsTyped, Handlers, requestVars, ghosts
  <2>2. CASE Await(p, "delPos", IndexOf(order, h[p].arg), 0)
    <3>1. Handlers'
      BY <2>2 DEF Await, RequestsTyped, Handlers, HandlerOK, Idle, Points, Replies
    <3> QED
      BY <1>9, <3>1 DEF DeleteFromOrder, RequestsTyped, Handlers, requestVars, ghosts
  <2> QED
    BY <1>9, <2>1, <2>2 DEF DeleteFromOrder
<1>10. CASE DeleteFixPos(p)
  BY <1>10, FinishTyped DEF DeleteFixPos, RequestsTyped, Handlers, requestVars, ghosts
<1>11. CASE LookedUp(p)
  <2>1. h[p].track \in Tracks
    BY <1>11 DEF LookedUp, RequestsTyped, HandlerOK
  <2>2. CASE \E route \in Routes(p) : StartEnqueue(p, h[p].track, route)
    BY <2>1, <2>2, StartEnqueueTyped
  <2>3. CASE Finish(p) /\ UNCHANGED <<rows, floor, now, requestVars, ghosts>>
    BY <2>3, FinishTyped DEF RequestsTyped, Handlers, requestVars, ghosts
  <2> QED
    BY <1>11, <2>2, <2>3 DEF LookedUp
<1>12. CASE FetchedAdd(p)
  <2>1. h[p].track \in Tracks
    BY <1>12 DEF FetchedAdd, RequestsTyped, HandlerOK
  <2>2. rows' \in Table /\ floor' \in 0..MaxId /\ used' \subseteq Ids
    BY <1>12, <2>1, InsertTyped DEF FetchedAdd, RequestsTyped, Table
  <2> QED
    BY <1>12, <2>2, FinishTyped DEF FetchedAdd, RequestsTyped, Table, Handlers, requestVars
<1> QED
  BY <1>1, <1>2, <1>3, <1>4, <1>5, <1>6, <1>7, <1>8, <1>9, <1>10, <1>11, <1>12 DEF Continue

\* So does the worker's handling of an event.
LEMMA HandleEventTyped ==
  ASSUME RequestsTyped, HandleEvent
  PROVE  RequestsTyped'
<1>0. /\ rows \in Table /\ gen \in Nat /\ pending \in Ids \cup {NoItem} /\ NoItem \in Nat
      /\ Worker \in Procs
  BY DEF RequestsTyped, Table, NoItem, Procs
<1> USE <1>0
<1>1. CASE EventIgnored
  BY <1>1 DEF EventIgnored, RequestsTyped, requestVars, ghosts
<1>2. CASE PlaybackFinished
  <2>1. rows' \in Table
    BY <1>2, RowsWithoutTyped DEF PlaybackFinished
  <2>2. Handlers' /\ gen' \in Nat /\ pending' \in Ids \cup {NoItem}
    <3>1. CASE Begin(Worker, now.item, rows, gen, pending)
      BY <3>1, BeginTyped
    <3>2. CASE \E q \in {rows, rows'} : \E start, o, ix, n : AutoNext(Worker, start, q, o, ix, n)
      BY <2>1, <3>2, AutoNextTyped
    <3> QED
      BY <1>2, <3>1, <3>2 DEF PlaybackFinished
  <2> QED
    BY <1>2, <2>1, <2>2, NothingTyped DEF PlaybackFinished, RequestsTyped, Table, Handlers, ghosts
<1>3. CASE PlaybackError
  <2>1. Handlers'
    BY <1>3, AwaitTyped DEF PlaybackError, Points
  <2> QED
    BY <1>3, <2>1, RowsWithoutTyped, NothingTyped
       DEF PlaybackError, RequestsTyped, Table, Handlers, requestVars, ghosts
<1> QED
  BY <1>1, <1>2, <1>3 DEF HandleEvent

-----------------------------------------------------------------------------
(* The voice service *)

\* A command that is sent is a command on the wire.
LEMMA SendTyped ==
  ASSUME VoiceTyped, NEW p \in Procs, NEW cmd \in Cmds, NEW src \in Tracks \cup {NoTrack},
         Send(p, cmd, src), voice' = voice
  PROVE  VoiceTyped'
<1>1. [by |-> p, cmd |-> cmd, src |-> src] \in Call
  BY DEF Call
<1> QED
  BY <1>1 DEF Send, VoiceTyped

\* Taking a command off the wire leaves commands.
LEMMA TakenOffTyped ==
  ASSUME VoiceTyped, NEW k \in 1..Len(wire), wire' = RemoveAt(wire, k)
  PROVE  wire' \in Seq(Call) /\ wire[k] \in Call
<1>1. wire \in Seq(Call) /\ k \in Nat /\ Len(wire) \in Nat
  BY DEF VoiceTyped
<1>2. SubSeq(wire, 1, k - 1) \in Seq(Call) /\ SubSeq(wire, k + 1, Len(wire)) \in Seq(Call)
  BY <1>1
<1> QED
  BY <1>1, <1>2 DEF RemoveAt

\* A command leaves the voice service with a status.
LEMMA AfterTyped ==
  ASSUME NEW v \in VoiceRecord, NEW c \in Call
  PROVE  After(v, c) \in VoiceRecord
<1>1. c.src \in Tracks \cup {NoTrack}
  BY DEF Call
<1>2. Nowhere \in VoiceRecord
  BY DEF Nowhere, VoiceRecord
<1>3. [src |-> c.src, state |-> "playing", live |-> TRUE] \in VoiceRecord
  BY <1>1 DEF VoiceRecord
<1>4. /\ [v EXCEPT !.state = "paused"] \in VoiceRecord
      /\ [v EXCEPT !.state = "playing"] \in VoiceRecord
  BY DEF VoiceRecord
<1> QED
  BY <1>2, <1>3, <1>4 DEF After

\* What the voice service does keeps everything well typed.
LEMMA VoiceServiceTyped ==
  ASSUME RequestsTyped, VoiceTyped, VoiceService
  PROVE  RequestsTyped' /\ VoiceTyped'
<1>1. ASSUME NEW k \in 1..Len(wire), Serve(k)  PROVE RequestsTyped' /\ VoiceTyped'
  <2>1. wire' \in Seq(Call) /\ wire[k] \in Call
    BY <1>1, TakenOffTyped DEF Serve
  <2>2. voice' \in VoiceRecord
    BY <1>1, <2>1, AfterTyped DEF Serve, VoiceTyped
  <2>3. wire[k].by \in Procs /\ voice.state \in Replies
    BY <2>1 DEF Call, VoiceTyped, VoiceRecord, Replies
  <2>4. PICK r \in Replies : h' = [h EXCEPT ![wire[k].by].reply = r]
    BY <1>1, <2>3 DEF Serve, Replies
  <2>5. Handlers'
    BY <2>3, <2>4 DEF RequestsTyped, Handlers, HandlerOK, Idle
  <2> QED
    BY <1>1, <2>1, <2>2, <2>5 DEF Serve, RequestsTyped, VoiceTyped, Handlers, requestVars, ghosts
<1>2. ASSUME NEW k \in 1..Len(wire), CallLost(k)  PROVE RequestsTyped' /\ VoiceTyped'
  <2>1. wire' \in Seq(Call) /\ wire[k] \in Call
    BY <1>2, TakenOffTyped DEF CallLost
  <2>2. wire[k].by \in Procs /\ "error" \in Replies
    BY <2>1 DEF Call, Replies
  <2>3. Handlers'
    BY <1>2, <2>2 DEF CallLost, RequestsTyped, Handlers, HandlerOK, Idle
  <2> QED
    BY <1>2, <2>1, <2>3 DEF CallLost, RequestsTyped, VoiceTyped, Handlers, requestVars, ghosts
<1>3. ASSUME NEW type \in {"finished", "error"}, LoopEnds(type)  PROVE RequestsTyped' /\ VoiceTyped'
  BY <1>3 DEF LoopEnds, RequestsTyped, VoiceTyped, VoiceRecord, requestVars, ghosts
<1>4. CASE EventsLost
  BY <1>4 DEF EventsLost, RequestsTyped, VoiceTyped, requestVars, ghosts
<1> QED
  BY <1>1, <1>2, <1>3, <1>4 DEF VoiceService

\* A backend step sends one command, or none.
LEMMA CommandSends ==
  ASSUME VoiceTyped, NEW p \in Procs, Command(p)
  PROVE  VoiceTyped'
<1>1. CASE voice' = voice /\ (wire' = wire \/ \E cmd \in Cmds : Send(p, cmd, NoTrack))
  BY <1>1, SendTyped DEF VoiceTyped
<1>2. ASSUME NEW i \in Ids, PlayItem(p, i) \/ Delete(p, i)  PROVE voice' = voice /\ wire' = wire
  BY <1>2 DEF PlayItem, Delete, voiceVars
<1>3. ASSUME PlayFirst(p) \/ VoicePrevious(p) \/ ClearFails(p)  PROVE voice' = voice /\ wire' = wire
  BY <1>3 DEF PlayFirst, VoicePrevious, ClearFails, voiceVars
<1>4. ASSUME VoiceNext(p) \/ VoiceSkip(p)
      PROVE  voice' = voice /\ (wire' = wire \/ Send(p, "skip", NoTrack))
  BY <1>4 DEF VoiceNext, VoiceSkip, SilenceThen
<1>5. ASSUME ChatStop(p) \/ \E stop \in BOOLEAN : Clear(p, stop)
      PROVE  voice' = voice /\ (wire' = wire \/ Send(p, "stop", NoTrack))
  BY <1>5 DEF ChatStop, Clear
<1>6. ASSUME NEW t \in Tracks, NEW route, Enqueue(p, t, route) \/ Replay(p, t, route) \/ LookUp(p, t)
      PROVE  voice' = voice /\ (wire' = wire \/ Send(p, "status", NoTrack))
  BY <1>6 DEF Enqueue, Replay, StartEnqueue, LookUp, voiceVars
<1>7. ASSUME VoicePlay(p) \/ VoicePause(p) \/ ChatResume(p)
      PROVE  voice' = voice /\ \E cmd \in {"status", "pause", "resume"} : Send(p, cmd, NoTrack)
  BY <1>7 DEF VoicePlay, VoicePause, ChatResume
<1>8. ASSUME NEW on \in BOOLEAN, SetShuffle(p, on)
      PROVE  voice' = voice /\ (wire' = wire \/ Send(p, "status", NoTrack))
  BY <1>8 DEF SetShuffle
<1>9. ASSUME NEW mode \in Modes, SetRepeat(p, mode)  PROVE voice' = voice /\ wire' = wire
  BY <1>9 DEF SetRepeat, voiceVars
<1>10. {"skip", "stop", "status", "pause", "resume"} \subseteq Cmds
  BY DEF Cmds
<1> QED
  BY <1>1, <1>2, <1>3, <1>4, <1>5, <1>6, <1>7, <1>8, <1>9, <1>10 DEF Command

\* Every resumption keeps the types of the voice side.
LEMMA ContinueSends ==
  ASSUME RequestsTyped, VoiceTyped, NEW p \in Procs, Continue(p)
  PROVE  VoiceTyped'
<1>1. h[p].track \in Tracks \cup {NoTrack} /\ {"play", "resume"} \subseteq Cmds
  BY DEF RequestsTyped, HandlerOK, Cmds
<1>2. CASE wire' = wire /\ voice' = voice
  BY <1>2 DEF VoiceTyped
<1>3. CASE voice' = voice /\ (Send(p, "play", h[p].track) \/ Send(p, "resume", NoTrack))
  BY <1>1, <1>3, SendTyped
<1>4. ASSUME Resolved(p) \/ Played(p)
      PROVE  voice' = voice /\ (wire' = wire \/ Send(p, "play", h[p].track))
  BY <1>4 DEF Resolved, Played, TakeOver, GiveUp
<1>5. ASSUME Fetched(p)
      PROVE  voice' = voice /\ (wire' = wire \/ Send(p, "play", h[p].track))
  BY <1>5 DEF Fetched
<1>6. ASSUME StatusRead(p)
      PROVE  voice' = voice /\ (wire' = wire \/ Send(p, "resume", NoTrack))
  BY <1>6 DEF StatusRead
<1>7. ASSUME Done(p) \/ Skipped(p) \/ Noticed(p) \/ StatusReadAuto(p) \/ DeleteFromOrder(p) \/ DeleteFixPos(p)
      PROVE  wire' = wire /\ voice' = voice
  BY <1>7 DEF Done, Skipped, Noticed, StatusReadAuto, DeleteFromOrder, DeleteFixPos, voiceVars
<1>8. ASSUME LookedUp(p) \/ FetchedAdd(p)
      PROVE  voice' = voice /\ (wire' = wire \/ Send(p, "status", NoTrack))
  BY <1>8 DEF LookedUp, FetchedAdd, StartEnqueue, voiceVars
<1>9. CASE voice' = voice /\ Send(p, "status", NoTrack)
  BY <1>9, SendTyped DEF Cmds
<1> QED
  BY <1>2, <1>3, <1>4, <1>5, <1>6, <1>7, <1>8, <1>9 DEF Continue

\* So does every event.
LEMMA HandleEventSends ==
  ASSUME VoiceTyped, HandleEvent
  PROVE  VoiceTyped'
<1>1. CASE wire' = wire /\ voice' = voice
  BY <1>1 DEF VoiceTyped
<1>2. CASE voice' = voice /\ Send(Worker, "notice", NoTrack)
  BY <1>2, SendTyped DEF Procs, Cmds
<1> QED
  BY <1>1, <1>2 DEF HandleEvent, EventIgnored, PlaybackFinished, PlaybackError

-----------------------------------------------------------------------------
(* Types *)

\* The first state has the types.
LEMMA InitTyped == Init => RequestsTyped /\ VoiceTyped
<1> SUFFICES ASSUME Init  PROVE RequestsTyped /\ VoiceTyped
  OBVIOUS
<1>1. rows \in Table /\ floor \in 0..MaxId /\ used \subseteq Ids
  BY BoundAssumption DEF Init, Table, Ids
<1>2. Handlers
  BY DEF Init, Handlers, HandlerOK, Idle, Points, Replies
<1>3. VoiceTyped
  BY DEF Init, VoiceTyped, Nowhere, VoiceRecord
<1> QED
  BY <1>1, <1>2, <1>3, NothingTyped DEF Init, RequestsTyped, Table, Handlers, NoItem

\* Every step keeps the types.
LEMMA StepTyped == RequestsTyped /\ VoiceTyped /\ [Next]_vars => RequestsTyped' /\ VoiceTyped'
<1> SUFFICES ASSUME RequestsTyped, VoiceTyped, [Next]_vars  PROVE RequestsTyped' /\ VoiceTyped'
  OBVIOUS
<1>1. ASSUME NEW p \in Procs, Command(p)  PROVE RequestsTyped' /\ VoiceTyped'
  BY <1>1, CommandTyped, CommandSends
<1>2. ASSUME NEW p \in Procs, Continue(p)  PROVE RequestsTyped' /\ VoiceTyped'
  BY <1>2, ContinueTyped, ContinueSends
<1>3. CASE HandleEvent
  BY <1>3, HandleEventTyped, HandleEventSends
<1>4. CASE VoiceService
  BY <1>4, VoiceServiceTyped
<1>5. CASE UNCHANGED vars
  BY <1>5 DEF vars, RequestsTyped, VoiceTyped, requestVars, voiceVars, ghosts
<1> QED
  BY <1>1, <1>2, <1>3, <1>4, <1>5 DEF Next, Backend

\* The queue, the requests, the handlers and the commands in flight stay well typed,
\* for any number of requests, tracks and ids.
THEOREM Typed == Spec => [](RequestsTyped /\ VoiceTyped)
<1> QED
  BY InitTyped, StepTyped, PTL DEF Spec

-----------------------------------------------------------------------------
(* The pending item and its request *)

Resolving(p) == h[p].at \in {"resolve", "play"}

\* A coroutine that owns no request may move as long as it leaves the requests alone.
LEMMA OwnerUndisturbed ==
  ASSUME RequestsTyped, PendingHasOwner, NEW p \in Procs, ~Resolving(p),
         UNCHANGED requestVars, h' = h \/ \E r : h' = [h EXCEPT ![p] = r]
  PROVE  PendingHasOwner'
BY DEF RequestsTyped, PendingHasOwner, Resolving, requestVars

\* A request that begins is the owner of the pending item it sets.
LEMMA BeginOwns ==
  ASSUME RequestsTyped, PendingHasOwner, NEW p \in Procs, ~Resolving(p),
         NEW i, NEW q, NEW g, NEW pd, Begin(p, i, q, g, pd),
         (g = gen /\ pd = pending) \/ pd = NoItem
  PROVE  PendingHasOwner'
<1>1. CASE i \in InQueue(q)
  BY <1>1 DEF Begin, PendingHasOwner, RequestsTyped
<1>2. CASE i \notin InQueue(q)
  <2>1. gen' = g /\ pending' = pd /\ \E r : h' = [h EXCEPT ![p] = r]
    BY <1>2 DEF Begin, Finish
  <2> QED
    BY <2>1, OwnerUndisturbed DEF PendingHasOwner, requestVars
<1> QED
  BY <1>1, <1>2

\* The automatic next leaves the pending item with its owner.
LEMMA AutoNextOwns ==
  ASSUME RequestsTyped, PendingHasOwner, NEW p \in Procs, ~Resolving(p),
         NEW start, NEW q, NEW o, NEW ix, NEW n, AutoNext(p, start, q, o, ix, n)
  PROVE  PendingHasOwner'
<1>1. CASE \E i : Begin(p, i, q, gen, pending)
  BY <1>1, BeginOwns
<1>2. CASE Finish(p) /\ UNCHANGED requestVars
  BY <1>2, OwnerUndisturbed DEF Finish
<1> QED
  BY <1>1, <1>2, AutoNextBegins

\* The head of an enqueue begins no request for a row; a gated one clears the pending item.
LEMMA StartEnqueueOwner ==
  ASSUME RequestsTyped, PendingHasOwner, NEW p \in Procs, ~Resolving(p), NEW t, NEW route,
         StartEnqueue(p, t, route)
  PROVE  PendingHasOwner'
<1>1. CASE pending' = NoItem
  BY <1>1 DEF PendingHasOwner
<1>2. CASE UNCHANGED requestVars /\ \E r : h' = [h EXCEPT ![p] = r]
  BY <1>2, OwnerUndisturbed
<1> QED
  BY <1>1, <1>2 DEF StartEnqueue, Finish, Await

\* Every command does.
LEMMA CommandOwner ==
  ASSUME RequestsTyped, PendingHasOwner, NEW p \in Procs, Command(p)
  PROVE  PendingHasOwner'
<1>1. ASSUME NEW kind, User(p, kind)  PROVE ~Resolving(p)
  BY <1>1 DEF User, Resolving, Idle
<1>2. CASE pending' = NoItem
  BY <1>2 DEF PendingHasOwner
<1>3. CASE ~Resolving(p) /\ UNCHANGED requestVars /\ (h' = h \/ \E r : h' = [h EXCEPT ![p] = r])
  BY <1>3, OwnerUndisturbed
<1>4. ASSUME NEW i \in Ids, PlayItem(p, i)  PROVE PendingHasOwner'
  BY <1>1, <1>4, BeginOwns DEF PlayItem
<1>5. CASE PlayFirst(p)
  BY <1>1, <1>5, BeginOwns DEF PlayFirst
<1>6. CASE VoiceNext(p)
  <2>1. CASE \E i, q : Begin(p, i, q, gen + 1, NoItem)
    BY <1>1, <1>6, <2>1, BeginOwns DEF VoiceNext
  <2> QED
    BY <1>2, <1>6, <2>1 DEF VoiceNext
<1>7. CASE VoiceSkip(p) \/ ChatStop(p) \/ \E stop \in BOOLEAN : Clear(p, stop)
  BY <1>2, <1>7 DEF VoiceSkip, ChatStop, Clear
<1>8. CASE VoicePrevious(p)
  <2>1. CASE \E i : Begin(p, i, rows, gen, pending)
    BY <1>1, <1>8, <2>1, BeginOwns DEF VoicePrevious
  <2>2. CASE UNCHANGED <<requestVars, h>>
    BY <1>1, <1>3, <1>8, <2>2 DEF VoicePrevious
  <2> QED
    BY <1>8, <2>1, <2>2 DEF VoicePrevious
<1>9. ASSUME NEW t \in Tracks, NEW route, Enqueue(p, t, route) \/ Replay(p, t, route)  PROVE PendingHasOwner'
  BY <1>1, <1>9, StartEnqueueOwner DEF Enqueue, Replay
<1>10. ASSUME NEW t \in Tracks, LookUp(p, t)  PROVE PendingHasOwner'
  BY <1>1, <1>3, <1>10 DEF LookUp
<1>11. CASE VoicePlay(p) \/ VoicePause(p) \/ ChatResume(p) \/ ClearFails(p)
  BY <1>1, <1>3, <1>11 DEF VoicePlay, VoicePause, ChatResume, ClearFails, Await
<1>12. ASSUME NEW on \in BOOLEAN, SetShuffle(p, on)  PROVE PendingHasOwner'
  BY <1>1, <1>3, <1>12 DEF SetShuffle, Await
<1>13. ASSUME NEW mode \in Modes, SetRepeat(p, mode)  PROVE PendingHasOwner'
  BY <1>1, <1>3, <1>13 DEF SetRepeat
<1>14. ASSUME NEW i \in Ids, Delete(p, i)  PROVE PendingHasOwner'
  BY <1>1, <1>3, <1>14 DEF Delete, Await
<1> QED
  BY <1>4, <1>5, <1>6, <1>7, <1>8, <1>9, <1>10, <1>11, <1>12, <1>13, <1>14 DEF Command

\* Every resumption does.
LEMMA ContinueOwner ==
  ASSUME RequestsTyped, PendingHasOwner, NEW p \in Procs, Continue(p)
  PROVE  PendingHasOwner'
<1>1. CASE ~Resolving(p) /\ UNCHANGED requestVars /\ (h' = h \/ \E r : h' = [h EXCEPT ![p] = r])
  BY <1>1, OwnerUndisturbed
\* The `finally` clears the pending item if it is this request's row, so another owner
\* is of another row.
<1>2. ASSUME GiveUp(p), gen' = gen  PROVE PendingHasOwner'
  <2>1. CASE pending = h[p].arg
    BY <1>2, <2>1 DEF GiveUp, PendingWithout, PendingHasOwner
  <2>2. CASE pending # h[p].arg
    BY <1>2, <2>2 DEF GiveUp, PendingWithout, Finish, PendingHasOwner, RequestsTyped
  <2> QED
    BY <2>1, <2>2
<1>3. CASE Resolved(p)
  <2>1. CASE TakeOver(p)
    <3>1. h'[p].at = "play" /\ h'[p].arg = h[p].arg /\ h'[p].ticket = h[p].ticket
      BY <2>1 DEF TakeOver, Await, RequestsTyped, Idle
    <3>2. \A q \in Procs \ {p} : h'[q] = h[q]
      BY <2>1 DEF TakeOver, Await, RequestsTyped
    <3> QED
      BY <1>3, <2>1, <3>1, <3>2 DEF Resolved, TakeOver, PendingHasOwner
  <2> QED
    BY <1>2, <1>3, <2>1 DEF Resolved
<1>4. CASE Played(p)
  BY <1>2, <1>4 DEF Played
<1>5. CASE Fetched(p)
  BY <1>1, <1>5 DEF Fetched, Resolving, Await, Finish
<1>6. CASE Done(p)
  BY <1>1, <1>6 DEF Done, Returned, Resolving, Finish
<1>7. CASE Skipped(p)
  <2>1. ~Resolving(p)
    BY <1>7 DEF Skipped, Returned, Resolving
  <2> QED
    BY <1>1, <1>7, <2>1, AutoNextOwns DEF Skipped, Finish
<1>8. CASE Noticed(p)
  BY <1>8, AutoNextOwns DEF Noticed, Returned, Resolving
<1>9. CASE StatusRead(p)
  <2>1. ~Resolving(p)
    BY <1>9 DEF StatusRead, Returned, Resolving
  <2>2. CASE AutoNext(p, NoItem, rows, order, pos, now)
    BY <2>1, <2>2, AutoNextOwns
  <2>3. CASE UNCHANGED requestVars /\ (Await(p, "last", 0, 0) \/ Finish(p))
    BY <1>1, <2>1, <2>3 DEF Await, Finish
  <2> QED
    BY <1>9, <2>2, <2>3 DEF StatusRead
<1>10. CASE StatusReadAuto(p)
  <2>1. ~Resolving(p)
    BY <1>10 DEF StatusReadAuto, Returned, Resolving
  <2> QED
    BY <1>1, <1>10, <2>1, AutoNextOwns DEF StatusReadAuto, Finish
<1>11. CASE DeleteFromOrder(p) \/ DeleteFixPos(p)
  BY <1>1, <1>11 DEF DeleteFromOrder, DeleteFixPos, Resolving, Await, Finish
<1>12. CASE LookedUp(p)
  <2>1. ~Resolving(p)
    BY <1>12 DEF LookedUp, Resolving
  <2> QED
    BY <1>1, <1>12, <2>1, StartEnqueueOwner DEF LookedUp, Finish
<1>13. CASE FetchedAdd(p)
  BY <1>1, <1>13 DEF FetchedAdd, Resolving, Finish
<1> QED
  BY <1>3, <1>4, <1>5, <1>6, <1>7, <1>8, <1>9, <1>10, <1>11, <1>12, <1>13 DEF Continue

\* Every event does.
LEMMA HandleEventOwner ==
  ASSUME RequestsTyped, PendingHasOwner, HandleEvent
  PROVE  PendingHasOwner'
<1>1. ~Resolving(Worker) /\ Worker \in Procs
  BY DEF HandleEvent, EventIgnored, PlaybackFinished, PlaybackError, EventReady, Resolving, Idle, Procs
<1>2. CASE EventIgnored
  BY <1>1, <1>2, OwnerUndisturbed DEF EventIgnored
<1>3. CASE PlaybackFinished
  BY <1>1, <1>3, BeginOwns, AutoNextOwns DEF PlaybackFinished
<1>4. CASE PlaybackError
  BY <1>1, <1>4, OwnerUndisturbed DEF PlaybackError, Await
<1> QED
  BY <1>2, <1>3, <1>4 DEF HandleEvent

\* An answer from the voice service moves no handler.
LEMMA VoiceServiceOwner ==
  ASSUME RequestsTyped, VoiceTyped, PendingHasOwner, VoiceService
  PROVE  PendingHasOwner'
<1>1. UNCHANGED requestVars
  BY DEF VoiceService, Serve, CallLost, LoopEnds, EventsLost
<1>2. CASE h' = h
  BY <1>1, <1>2 DEF PendingHasOwner, requestVars
<1>3. CASE \E q \in Procs : \E r : h' = [h EXCEPT ![q].reply = r]
  <2>1. \A p \in Procs : h'[p].at = h[p].at /\ h'[p].arg = h[p].arg /\ h'[p].ticket = h[p].ticket
    BY <1>3 DEF RequestsTyped, HandlerOK, Idle
  <2> QED
    BY <1>1, <2>1 DEF PendingHasOwner, requestVars
<1>4. ASSUME NEW k \in 1..Len(wire)  PROVE wire[k].by \in Procs
  <2>1. wire[k] \in Call
    BY DEF VoiceTyped
  <2> QED
    BY <2>1 DEF Call
<1> QED
  BY <1>2, <1>3, <1>4 DEF VoiceService, Serve, CallLost, LoopEnds, EventsLost

\* No path through the handlers leaves behind a pending item that no request in progress
\* will clear, whatever the number of requests, rows and tracks.
THEOREM PendingAlwaysHasOwner == Spec => []PendingHasOwner
<1>1. Init => PendingHasOwner
  BY DEF Init, PendingHasOwner
<1>2. RequestsTyped /\ VoiceTyped /\ PendingHasOwner /\ [Next]_vars => PendingHasOwner'
  <2> SUFFICES ASSUME RequestsTyped, VoiceTyped, PendingHasOwner, [Next]_vars
               PROVE  PendingHasOwner'
    OBVIOUS
  <2>1. CASE UNCHANGED vars
    BY <2>1 DEF vars, requestVars, PendingHasOwner
  <2> QED
    BY <2>1, CommandOwner, ContinueOwner, HandleEventOwner, VoiceServiceOwner DEF Next, Backend
<1> QED
  BY <1>1, <1>2, Typed, PTL DEF Spec

-----------------------------------------------------------------------------
(* Reserved ids *)

\* From the first clear on, the floor is above every id that a row has had since, and
\* every row's id is among those; before it none has been recorded.
UsedUnderFloor ==
  IF floor = 0 THEN used = {}
  ELSE InQueue(rows) \subseteq used /\ \A i \in used : i <= floor

\* What a step may do to the table: add a row, remove one, clear it, fail to clear it.
TableStep ==
  \/ \E t \in Tracks : Insert(t)
  \/ (\E i : rows' = RowsWithout(i)) /\ UNCHANGED <<floor, used>>
  \/ /\ floor' = Reserved(TopId(rows))
     /\ used' = IF floor' = 0 THEN used ELSE used \cup InQueue(rows)
     /\ rows' = rows \/ rows' = [i \in Ids |-> NoTrack]
  \/ UNCHANGED <<rows, floor, used>>

\* Every step is one of the table.
LEMMA StepOfTable ==
  ASSUME RequestsTyped, [Next]_vars
  PROVE  TableStep
<1>1. ASSUME NEW p \in Procs, Command(p)  PROVE TableStep
  <2>1. ASSUME NEW i \in Ids, PlayItem(p, i) \/ Delete(p, i)  PROVE TableStep
    BY <2>1 DEF PlayItem, Delete, TableStep, ghosts
  <2>2. CASE PlayFirst(p) \/ VoicePrevious(p) \/ ChatStop(p) \/ VoicePlay(p) \/ VoicePause(p) \/ ChatResume(p)
    BY <2>2 DEF PlayFirst, VoicePrevious, ChatStop, VoicePlay, VoicePause, ChatResume, TableStep, ghosts
  <2>3. CASE VoiceNext(p) \/ VoiceSkip(p)
    BY <2>3 DEF VoiceNext, VoiceSkip, TableStep, ghosts
  <2>4. CASE ClearFails(p) \/ \E stop \in BOOLEAN : Clear(p, stop)
    BY <2>4 DEF ClearFails, Clear, TableStep
  <2>5. ASSUME NEW t \in Tracks, NEW route, Enqueue(p, t, route) \/ Replay(p, t, route) \/ LookUp(p, t)
        PROVE  TableStep
    BY <2>5 DEF Enqueue, Replay, StartEnqueue, LookUp, TableStep, ghosts
  <2>6. CASE (\E on \in BOOLEAN : SetShuffle(p, on)) \/ (\E mode \in Modes : SetRepeat(p, mode))
    BY <2>6 DEF SetShuffle, SetRepeat, TableStep, ghosts
  <2> QED
    BY <1>1, <2>1, <2>2, <2>3, <2>4, <2>5, <2>6 DEF Command
<1>2. ASSUME NEW p \in Procs, Continue(p)  PROVE TableStep
  <2>1. CASE Fetched(p) \/ LookedUp(p) \/ FetchedAdd(p)
    <3>1. h[p].track \in Tracks
      BY <2>1 DEF Fetched, LookedUp, FetchedAdd, RequestsTyped, HandlerOK
    <3> QED
      BY <2>1, <3>1 DEF Fetched, LookedUp, FetchedAdd, StartEnqueue, TableStep, ghosts
  <2>2. CASE ~(Fetched(p) \/ LookedUp(p) \/ FetchedAdd(p))
    BY <1>2, <2>2 DEF Continue, Resolved, Played, Done, Skipped, Noticed, StatusRead,
         StatusReadAuto, DeleteFromOrder, DeleteFixPos, TableStep, ghosts
  <2> QED
    BY <2>1, <2>2
<1>3. CASE HandleEvent
  BY <1>3 DEF HandleEvent, EventIgnored, PlaybackFinished, PlaybackError, TableStep, ghosts
<1>4. CASE VoiceService
  BY <1>4 DEF VoiceService, Serve, CallLost, LoopEnds, EventsLost, TableStep, ghosts
<1>5. CASE UNCHANGED vars
  BY <1>5 DEF vars, TableStep, ghosts
<1> QED
  BY <1>1, <1>2, <1>3, <1>4, <1>5 DEF Next, Backend

\* While ids are reserved a new row's id is above the floor, so no row has had it.
LEMMA TableStepKeepsFloor ==
  ASSUME RequestsTyped, UsedUnderFloor, TableStep
  PROVE  /\ UsedUnderFloor'
         /\ floor # 0 => (InQueue(rows') \ InQueue(rows)) \cap used = {}
         /\ floor' >= floor
<1>0. /\ rows \in Table /\ floor \in Nat /\ used \subseteq Ids
      /\ \A i \in Ids : i \in Nat /\ i # 0
  BY DEF RequestsTyped, Table, Ids
<1>1. ASSUME NEW t \in Tracks, Insert(t)
      PROVE  /\ UsedUnderFloor' /\ floor' >= floor
             /\ floor # 0 => (InQueue(rows') \ InQueue(rows)) \cap used = {}
  <2>1. InQueue(rows') \subseteq InQueue(rows) \cup {NextId}
    BY <1>0, <1>1, InsertTyped DEF InQueue, Table
  <2>2. NextId \in Nat /\ NextId > floor
    BY NextIdIsFresh
  <2>3. CASE floor = 0
    BY <1>0, <1>1, <2>3 DEF Insert, UsedUnderFloor
  <2>4. CASE floor # 0
    <3>1. floor' = NextId /\ used' = used \cup {NextId}
      BY <1>1, <2>4 DEF Insert
    <3>2. \A i \in used : i < NextId
      BY <1>0, <2>2, <2>4 DEF UsedUnderFloor
    <3> QED
      BY <1>0, <2>1, <2>2, <2>4, <3>1, <3>2 DEF UsedUnderFloor
  <2> QED
    BY <2>3, <2>4
<1>2. ASSUME NEW i, rows' = RowsWithout(i), UNCHANGED <<floor, used>>
      PROVE  /\ UsedUnderFloor' /\ floor' >= floor
             /\ floor # 0 => (InQueue(rows') \ InQueue(rows)) \cap used = {}
  <2>1. InQueue(rows') \subseteq InQueue(rows)
    BY <1>0, <1>2 DEF RowsWithout, InQueue, Table
  <2> QED
    BY <1>0, <1>2, <2>1 DEF UsedUnderFloor
<1>3. ASSUME floor' = Reserved(TopId(rows)),
             used' = IF floor' = 0 THEN used ELSE used \cup InQueue(rows),
             rows' = rows \/ rows' = [i \in Ids |-> NoTrack]
      PROVE  /\ UsedUnderFloor' /\ floor' >= floor
             /\ floor # 0 => (InQueue(rows') \ InQueue(rows)) \cap used = {}
  <2>1. InQueue(rows') \subseteq InQueue(rows)
    BY <1>0, <1>3 DEF InQueue, Table
  <2>2. floor' \in Nat /\ floor' >= floor /\ \A i \in InQueue(rows) : i <= floor'
    BY <1>3, ReservedCoversTable
  <2>3. \A i \in used : i <= floor'
    BY <1>0, <2>2 DEF UsedUnderFloor
  <2> QED
    BY <1>0, <1>3, <2>1, <2>2, <2>3 DEF UsedUnderFloor
<1>4. CASE UNCHANGED <<rows, floor, used>>
  BY <1>0, <1>4 DEF UsedUnderFloor
<1> QED
  BY <1>1, <1>2, <1>3, <1>4 DEF TableStep

\* The floor stays above every id that was used.
LEMMA FloorInvariant == Spec => []UsedUnderFloor
<1>1. Init => UsedUnderFloor
  <2> SUFFICES ASSUME Init  PROVE UsedUnderFloor
    OBVIOUS
  <2>1. CASE InitFloor = 0
    BY <2>1 DEF Init, UsedUnderFloor
  <2>2. CASE InitFloor # 0
    BY <2>2, BoundAssumption DEF Init, UsedUnderFloor, InQueue, Ids
  <2> QED
    BY <2>1, <2>2
<1>2. RequestsTyped /\ UsedUnderFloor /\ [Next]_vars => UsedUnderFloor'
  BY StepOfTable, TableStepKeepsFloor
<1> QED
  BY <1>1, <1>2, Typed, PTL DEF Spec

\* Once ids are reserved, no row is ever given the id of another one: neither deletions,
\* further clears nor clears that fail make an id free again.
THEOREM IdsStayUnique == Spec => IdsUniqueAfterClear
<1>1. RequestsTyped /\ UsedUnderFloor /\ [Next]_vars
        => [floor # 0 => (InQueue(rows') \ InQueue(rows)) \cap used = {}]_vars
  BY StepOfTable, TableStepKeepsFloor
<1> QED
  BY <1>1, Typed, FloorInvariant, PTL DEF Spec, IdsUniqueAfterClear

-----------------------------------------------------------------------------
(* What plays *)

\* What a step may do to the now-playing record: forget the track, keep it, start a row
\* of the queue, or detach the track of a queue that is cleared.
NowStep ==
  \/ now' = Nothing
  \/ now'.item = now.item /\ now'.detached = now.detached
  \/ \E i \in InQueue(rows'), t \in Tracks : now' = NowPlaying(i, t)
  \/ /\ now'.item = now.item /\ now'.detached = DetachedByClear
     /\ InQueue(rows') = {} /\ floor' = Reserved(TopId(rows))

\* Every step is one of the now-playing record.
LEMMA StepOfNow ==
  ASSUME RequestsTyped, [Next]_vars
  PROVE  NowStep
<1>0. now \in NowRecord
  BY DEF RequestsTyped
<1>1. ASSUME NEW p \in Procs, Command(p)  PROVE NowStep
  <2>1. ASSUME NEW stop \in BOOLEAN, Clear(p, stop)  PROVE NowStep
    <3>1. InQueue(rows') = {} /\ floor' = Reserved(TopId(rows))
      BY <2>1 DEF Clear, InQueue
    <3> QED
      BY <1>0, <2>1, <3>1 DEF Clear, NowStep, NowRecord
  <2>2. CASE VoicePause(p) \/ ChatResume(p)
    BY <1>0, <2>2 DEF VoicePause, ChatResume, NowStep, NowRecord
  <2>3. CASE VoiceNext(p) \/ VoiceSkip(p) \/ ChatStop(p)
    BY <2>3 DEF VoiceNext, VoiceSkip, ChatStop, SilenceThen, NowStep
  <2>4. ASSUME NEW i \in Ids, PlayItem(p, i) \/ Delete(p, i)  PROVE NowStep
    BY <2>4 DEF PlayItem, Delete, NowStep
  <2>5. CASE PlayFirst(p) \/ VoicePrevious(p) \/ VoicePlay(p) \/ ClearFails(p)
    BY <2>5 DEF PlayFirst, VoicePrevious, VoicePlay, ClearFails, NowStep
  <2>6. ASSUME NEW t \in Tracks, NEW route, Enqueue(p, t, route) \/ Replay(p, t, route) \/ LookUp(p, t)
        PROVE  NowStep
    BY <2>6 DEF Enqueue, Replay, StartEnqueue, LookUp, NowStep
  <2>7. CASE (\E on \in BOOLEAN : SetShuffle(p, on)) \/ (\E mode \in Modes : SetRepeat(p, mode))
    BY <2>7 DEF SetShuffle, SetRepeat, NowStep
  <2> QED
    BY <1>1, <2>1, <2>2, <2>3, <2>4, <2>5, <2>6, <2>7 DEF Command
<1>2. ASSUME NEW p \in Procs, Continue(p)  PROVE NowStep
  <2>0. HandlerOK(h[p])
    BY DEF RequestsTyped
  <2>1. CASE Resolved(p)
    <3>1. CASE CanTakeOver(h[p].ticket, h[p].arg) /\ TakeOver(p)
      BY <2>0, <2>1, <3>1 DEF Resolved, CanTakeOver, TakeOver, HandlerOK, InQueue, NowStep
    <3>2. CASE GiveUp(p)
      BY <3>2 DEF GiveUp, NowStep
    <3> QED
      BY <2>1, <3>1, <3>2 DEF Resolved
  <2>2. CASE Fetched(p)
    <3>1. h[p].track \in Tracks
      BY <2>0, <2>2 DEF Fetched, HandlerOK
    <3>2. CASE Insert(h[p].track) /\ now' = NowPlaying(NextId, h[p].track)
      BY <3>1, <3>2, InsertTyped DEF NowStep
    <3>3. CASE now' = now
      BY <3>3 DEF NowStep
    <3> QED
      BY <2>2, <3>2, <3>3 DEF Fetched
  <2>3. CASE StatusRead(p)
    BY <1>0, <2>3 DEF StatusRead, NowStep, NowRecord
  <2>4. CASE Played(p) \/ LookedUp(p) \/ FetchedAdd(p) \/ Done(p) \/ Skipped(p) \/ Noticed(p)
             \/ StatusReadAuto(p) \/ DeleteFromOrder(p) \/ DeleteFixPos(p)
    BY <2>4 DEF Played, LookedUp, FetchedAdd, StartEnqueue, GiveUp, Done, Skipped, Noticed,
         StatusReadAuto, DeleteFromOrder, DeleteFixPos, NowStep
  <2> QED
    BY <1>2, <2>1, <2>2, <2>3, <2>4 DEF Continue
<1>3. CASE HandleEvent
  BY <1>3 DEF HandleEvent, EventIgnored, PlaybackFinished, PlaybackError, NowStep
<1>4. CASE VoiceService
  BY <1>4 DEF VoiceService, Serve, CallLost, LoopEnds, EventsLost, NowStep
<1>5. CASE UNCHANGED vars
  BY <1>5 DEF vars, NowStep
<1> QED
  BY <1>1, <1>2, <1>3, <1>4, <1>5 DEF Next, Backend

\* Rows appear above the floor only.
LEMMA NewRowsAboveFloor ==
  ASSUME RequestsTyped, TableStep
  PROVE  \A i \in InQueue(rows') : i \in InQueue(rows) \/ i > floor
<1>0. rows \in Table
  BY DEF RequestsTyped, Table
<1>1. ASSUME NEW t \in Tracks, Insert(t)  PROVE \A i \in InQueue(rows') : i \in InQueue(rows) \/ i > floor
  <2>1. \A i \in InQueue(rows') : i \in InQueue(rows) \/ i = NextId
    BY <1>0, <1>1, InsertTyped DEF InQueue, Table
  <2> QED
    BY <2>1, NextIdIsFresh
<1>2. CASE \E i : rows' = RowsWithout(i)
  BY <1>0, <1>2 DEF RowsWithout, InQueue, Table
<1>3. CASE rows' = rows \/ rows' = [i \in Ids |-> NoTrack]
  BY <1>3 DEF InQueue
<1> QED
  BY <1>1, <1>2, <1>3 DEF TableStep

\* A track that plays on after its queue was cleared is never taken for a row: what is
\* queued later gets other ids, so its finish deletes nobody's song.
THEOREM DetachedStaysDetached == Spec => []DetachedIsNotARow
<1>1. Init => DetachedIsNotARow
  BY DEF Init, Nothing, DetachedIsNotARow, NoItem
<1>2. RequestsTyped /\ UsedUnderFloor /\ DetachedIsNotARow /\ [Next]_vars => DetachedIsNotARow'
  <2> SUFFICES ASSUME RequestsTyped, UsedUnderFloor, DetachedIsNotARow, [Next]_vars
               PROVE  DetachedIsNotARow'
    OBVIOUS
  <2>0. /\ TableStep /\ NowStep /\ floor \in Nat /\ floor' >= floor
        /\ now.detached \in Nat /\ InQueue(rows) \subseteq Nat
    BY StepOfTable, StepOfNow, TableStepKeepsFloor DEF RequestsTyped, NowRecord, Ids, NoItem, InQueue
  <2>1. floor' \in Nat
    BY <2>0, NextIdIsFresh, ReservedCoversTable DEF TableStep, Insert
  <2>2. CASE now' = Nothing \/ \E i, t : now' = NowPlaying(i, t)
    BY <2>2 DEF Nothing, NowPlaying, DetachedIsNotARow, NoItem
  <2>3. CASE now'.item = now.item /\ now'.detached = now.detached
    <3>1. CASE now.detached # NoItem
      <4>1. now.detached \notin InQueue(rows')
        BY <2>0, <3>1, NewRowsAboveFloor DEF DetachedIsNotARow
      <4> QED
        BY <2>0, <2>1, <2>3, <3>1, <4>1 DEF DetachedIsNotARow
    <3> QED
      BY <2>3, <3>1 DEF DetachedIsNotARow
  <2>4. CASE /\ now'.item = now.item /\ now'.detached = DetachedByClear
             /\ InQueue(rows') = {} /\ floor' = Reserved(TopId(rows))
    <3>1. CASE now.detached # NoItem
      BY <2>0, <2>1, <2>4, <3>1 DEF DetachedIsNotARow, DetachedByClear
    <3>2. CASE now.detached = NoItem /\ now.item \in InQueue(rows)
      BY <2>4, <3>2, ReservedCoversTable DEF DetachedIsNotARow, DetachedByClear
    <3>3. CASE now.detached = NoItem /\ now.item \notin InQueue(rows)
      BY <2>4, <3>3 DEF DetachedIsNotARow, DetachedByClear
    <3> QED
      BY <3>1, <3>2, <3>3
  <2> QED
    BY <2>0, <2>2, <2>3, <2>4 DEF NowStep
<1> QED
  BY <1>1, <1>2, Typed, FloorInvariant, PTL DEF Spec

\* Only rows of the queue come to play, whatever happens to them while they resolve.
THEOREM OnlyRowsPlay == Spec => OnlyRowsStartPlaying
<1>1. RequestsTyped /\ [Next]_vars
        => [now'.item \notin {NoItem, now.item} => now'.item \in InQueue(rows')]_vars
  <2> SUFFICES ASSUME RequestsTyped, [Next]_vars, now'.item \notin {NoItem, now.item}
               PROVE  now'.item \in InQueue(rows')
    OBVIOUS
  <2> QED
    BY StepOfNow DEF NowStep, Nothing, NowPlaying
<1> QED
  BY <1>1, Typed, PTL DEF Spec, OnlyRowsStartPlaying

-----------------------------------------------------------------------------
(* The order of takeovers *)

TookPast == took <= gen

\* A step makes requests newer, or the newest one takes over.
TicketStep ==
  \/ took' = took /\ gen' \in {gen, gen + 1, gen + 2}
  \/ took' = gen /\ gen' = gen

\* A request that begins takes the next ticket, or none.
LEMMA BeginTicket ==
  ASSUME NEW p, NEW i, NEW q, NEW g, NEW pd, Begin(p, i, q, g, pd)
  PROVE  gen' \in {g, g + 1}
BY DEF Begin

\* The automatic next takes the next ticket, or none.
LEMMA AutoNextTicket ==
  ASSUME NEW p, NEW start, NEW q, NEW o, NEW ix, NEW n, AutoNext(p, start, q, o, ix, n)
  PROVE  gen' \in {gen, gen + 1}
BY AutoNextBegins, BeginTicket DEF requestVars

\* Every step is one of the tickets.
LEMMA StepOfTickets ==
  ASSUME RequestsTyped, [Next]_vars
  PROVE  TicketStep
<1>0. gen \in Nat
  BY DEF RequestsTyped
<1>1. ASSUME NEW p \in Procs, Command(p)  PROVE TicketStep
  <2>1. ASSUME NEW i \in Ids, PlayItem(p, i) \/ Delete(p, i)  PROVE TicketStep
    BY <2>1, BeginTicket DEF PlayItem, Delete, TicketStep, requestVars, ghosts
  <2>2. CASE PlayFirst(p)
    BY <2>2, BeginTicket DEF PlayFirst, TicketStep, ghosts
  <2>3. CASE VoicePrevious(p)
    BY <2>3, BeginTicket DEF VoicePrevious, TicketStep, requestVars, ghosts
  <2>4. CASE VoiceNext(p)
    <3>1. CASE \E i, q : Begin(p, i, q, gen + 1, NoItem)
      BY <1>0, <2>4, <3>1, BeginTicket DEF VoiceNext, TicketStep, ghosts
    <3> QED
      BY <2>4, <3>1 DEF VoiceNext, TicketStep, ghosts
  <2>5. CASE VoiceSkip(p) \/ ChatStop(p) \/ \E stop \in BOOLEAN : Clear(p, stop)
    BY <2>5 DEF VoiceSkip, ChatStop, Clear, TicketStep, ghosts
  <2>6. CASE VoicePlay(p) \/ VoicePause(p) \/ ChatResume(p) \/ ClearFails(p)
    BY <2>6 DEF VoicePlay, VoicePause, ChatResume, ClearFails, TicketStep, requestVars, ghosts
  <2>7. ASSUME NEW t \in Tracks, NEW route, Enqueue(p, t, route) \/ Replay(p, t, route) \/ LookUp(p, t)
        PROVE  TicketStep
    BY <2>7 DEF Enqueue, Replay, StartEnqueue, LookUp, TicketStep, requestVars, ghosts
  <2>8. CASE (\E on \in BOOLEAN : SetShuffle(p, on)) \/ (\E mode \in Modes : SetRepeat(p, mode))
    BY <2>8 DEF SetShuffle, SetRepeat, TicketStep, requestVars, ghosts
  <2> QED
    BY <1>1, <2>1, <2>2, <2>3, <2>4, <2>5, <2>6, <2>7, <2>8 DEF Command
<1>2. ASSUME NEW p \in Procs, Continue(p)  PROVE TicketStep
  <2>1. CASE Resolved(p)
    BY <2>1 DEF Resolved, CanTakeOver, IsCurrent, TakeOver, GiveUp, TicketStep
  <2>2. CASE Fetched(p)
    BY <2>2 DEF Fetched, IsCurrent, TicketStep, requestVars
  <2>3. CASE Skipped(p) \/ Noticed(p) \/ StatusRead(p) \/ StatusReadAuto(p)
    BY <2>3, AutoNextTicket DEF Skipped, Noticed, StatusRead, StatusReadAuto, TicketStep, requestVars, ghosts
  <2>4. CASE Played(p) \/ LookedUp(p) \/ FetchedAdd(p) \/ Done(p) \/ DeleteFromOrder(p) \/ DeleteFixPos(p)
    BY <2>4 DEF Played, LookedUp, FetchedAdd, StartEnqueue, GiveUp, Done, DeleteFromOrder,
         DeleteFixPos, TicketStep, requestVars, ghosts
  <2> QED
    BY <1>2, <2>1, <2>2, <2>3, <2>4 DEF Continue
<1>3. CASE HandleEvent
  BY <1>3, BeginTicket, AutoNextTicket
     DEF HandleEvent, EventIgnored, PlaybackFinished, PlaybackError, TicketStep, requestVars, ghosts
<1>4. CASE VoiceService
  BY <1>4 DEF VoiceService, Serve, CallLost, LoopEnds, EventsLost, TicketStep, requestVars, ghosts
<1>5. CASE UNCHANGED vars
  BY <1>5 DEF vars, TicketStep, requestVars, ghosts
<1> QED
  BY <1>1, <1>2, <1>3, <1>4, <1>5 DEF Next, Backend

\* No take-over and no ticket is ever newer than the generation.
LEMMA TookPastInvariant == Spec => []TookPast
<1>1. Init => TookPast
  BY DEF Init, TookPast
<1>2. RequestsTyped /\ TookPast /\ [Next]_vars => TookPast'
  BY StepOfTickets DEF TicketStep, TookPast, RequestsTyped
<1> QED
  BY <1>1, <1>2, Typed, PTL DEF Spec

\* Play requests take over in the order they were made, and only the newest does, for
\* any number of requests resolving at once.
THEOREM TakeoversStayInOrder == Spec => TakeoversInOrder
<1>1. RequestsTyped /\ TookPast /\ [Next]_vars => [took' # took => took' > took /\ took' = gen]_vars
  <2> SUFFICES ASSUME RequestsTyped, TookPast, [Next]_vars, took' # took
               PROVE  took' > took /\ took' = gen
    OBVIOUS
  <2> QED
    BY StepOfTickets DEF TicketStep, TookPast, RequestsTyped
<1> QED
  BY <1>1, Typed, TookPastInvariant, PTL DEF Spec, TakeoversInOrder

-----------------------------------------------------------------------------
(* Functions defined by recursion on the prefixes of a sequence *)

\* What holds of 0, and of k when it holds of k - 1, holds up to n.
LEMMA Induct ==
  ASSUME NEW n \in Nat, NEW S, 0 \in S, \A k \in 1..n : k - 1 \in S => k \in S
  PROVE  \A k \in 0..n : k \in S
<1> DEFINE Bad == {k \in 0..n : k \notin S}
<1> SUFFICES ASSUME Bad # {}  PROVE FALSE
  OBVIOUS
<1>1. Bad \subseteq Nat
  OBVIOUS
<1>2. PICK k \in Bad : \A m \in Bad : k <= m
  <2> HIDE DEF Bad
  <2> QED  BY <1>1, LeastNatural
<1>3. k \in 1..n /\ k - 1 \in 0..n
  OBVIOUS
<1>4. k - 1 \in S
  BY <1>2, <1>3
<1> QED
  BY <1>3, <1>4

\* f is the run that starts at b and takes step g[k] at k.
Run(f, n, T, b, g) == /\ f \in [0..n -> T] /\ f[0] = b
                      /\ \A k \in 1..n : f[k] = g[k][f[k-1]]

\* There is such a run.
LEMMA RunExists ==
  ASSUME NEW n \in Nat, NEW T, NEW b \in T, NEW g \in [1..n -> [T -> T]]
  PROVE  \E f : Run(f, n, T, b, g)
<1> DEFINE S == {m \in 0..n : \E f : Run(f, m, T, b, g)}
<1>1. 0 \in S
  <2>1. Run([k \in 0..0 |-> b], 0, T, b, g)
    BY DEF Run
  <2> QED  BY <2>1
<1>2. ASSUME NEW k \in 1..n, k - 1 \in S  PROVE k \in S
  <2>1. PICK f : Run(f, k - 1, T, b, g)
    BY <1>2
  <2> DEFINE e == [j \in 0..k |-> IF j = k THEN g[k][f[k-1]] ELSE f[j]]
  <2>2. f \in [0..(k-1) -> T] /\ f[0] = b /\ \A j \in 1..(k-1) : f[j] = g[j][f[j-1]]
    BY <2>1 DEF Run
  <2>3. g[k] \in [T -> T] /\ f[k-1] \in T
    BY <2>2
  <2>4. g[k][f[k-1]] \in T
    BY <2>3
  <2>5. e \in [0..k -> T]
    BY <2>2, <2>4
  <2>6. \A j \in 0..(k-1) : e[j] = f[j]
    BY <2>2
  <2>7. e[k] = g[k][f[k-1]]
    OBVIOUS
  <2> HIDE DEF e
  <2>8. ASSUME NEW j \in 1..k  PROVE e[j] = g[j][e[j-1]]
    <3>1. j - 1 \in 0..(k-1) /\ (j = k \/ j \in 1..(k-1))
      OBVIOUS
    <3> QED  BY <3>1, <2>2, <2>6, <2>7
  <2>9. e[0] = b
    BY <2>2, <2>6
  <2>10. Run(e, k, T, b, g)
    BY <2>5, <2>8, <2>9 DEF Run
  <2> QED  BY <2>10
<1>3. \A k \in 0..n : k \in S
  <2> HIDE DEF S
  <2> QED  BY <1>1, <1>2, Induct
<1> QED
  BY <1>3

-----------------------------------------------------------------------------
(* What the commands on the wire come to *)

\* The statuses the commands w lead through, from v.
Statuses(f, v, w) == /\ f \in [0..Len(w) -> VoiceRecord] /\ f[0] = v
                     /\ \A k \in 1..Len(w) : f[k] = After(f[k-1], w[k])

\* Served is where they end.
LEMMA ServedIsLast ==
  ASSUME NEW v \in VoiceRecord, NEW w \in Seq(Call)
  PROVE  /\ \E f : Statuses(f, v, w)
         /\ \A f : Statuses(f, v, w) => Served(v, w) = f[Len(w)]
<1> DEFINE n == Len(w)
           g == [k \in 1..n |-> [u \in VoiceRecord |-> After(u, w[k])]]
           IsAfter(a) == a = [k \in 0..n |-> IF k = 0 THEN v ELSE After(a[k-1], w[k])]
           after == CHOOSE a : IsAfter(a)
<1>0. n \in Nat /\ \A k \in 1..n : w[k] \in Call
  OBVIOUS
<1>1. g \in [1..n -> [VoiceRecord -> VoiceRecord]]
  <2>1. ASSUME NEW k \in 1..n  PROVE [u \in VoiceRecord |-> After(u, w[k])] \in [VoiceRecord -> VoiceRecord]
    BY <1>0, AfterTyped
  <2> QED  BY <2>1
<1>2. \A k \in 1..n, u \in VoiceRecord : g[k][u] = After(u, w[k])
  OBVIOUS
<1> HIDE DEF g
<1>3. ASSUME NEW f, Statuses(f, v, w)  PROVE Run(f, n, VoiceRecord, v, g)
  <2>1. \A k \in 1..n : k - 1 \in 0..n
    BY <1>0
  <2> QED
    BY <1>2, <1>3, <2>1 DEF Statuses, Run
<1>4. ASSUME NEW f, Run(f, n, VoiceRecord, v, g)  PROVE Statuses(f, v, w)
  <2>1. \A k \in 1..n : k - 1 \in 0..n
    BY <1>0
  <2> QED
    BY <1>2, <1>4, <2>1 DEF Statuses, Run
<1>5. PICK f : Run(f, n, VoiceRecord, v, g)
  <2> HIDE DEF n
  <2> QED  BY <1>0, <1>1, RunExists
<1>6. Statuses(f, v, w)
  BY <1>4, <1>5
<1>7. IsAfter(f)
  <2>1. f \in [0..n -> VoiceRecord] /\ f[0] = v /\ \A k \in 1..n : f[k] = After(f[k-1], w[k])
    BY <1>6 DEF Statuses
  <2>2. \A k \in 0..n : f[k] = IF k = 0 THEN v ELSE After(f[k-1], w[k])
    <3>1. \A k \in 0..n : k = 0 \/ k \in 1..n
      BY <1>0
    <3> QED  BY <2>1, <3>1
  <2> QED  BY <2>1, <2>2
<1>8. IsAfter(after)
  <2> HIDE DEF IsAfter
  <2> QED  BY <1>7
<1>9. Served(v, w) = after[n]
  BY DEF Served
<1> HIDE DEF after
<1>10. ASSUME NEW e, Statuses(e, v, w)  PROVE Served(v, w) = e[n]
  <2> DEFINE S == {k \in 0..n : after[k] = e[k]}
  <2>1. after[0] = v /\ \A k \in 1..n : after[k] = After(after[k-1], w[k])
    BY <1>8, <1>0
  <2>2. e[0] = v /\ \A k \in 1..n : e[k] = After(e[k-1], w[k])
    BY <1>10 DEF Statuses
  <2>3. 0 \in S /\ \A k \in 1..n : k - 1 \in S => k \in S
    BY <2>1, <2>2, <1>0
  <2>4. \A k \in 0..n : k \in S
    <3> HIDE DEF S
    <3> QED  BY <1>0, <2>3, Induct
  <2>5. after[n] = e[n]
    BY <1>0, <2>4
  <2> QED  BY <1>9, <2>5
<1> QED
  BY <1>6, <1>10

\* Removing the element at k leaves the others in their order.
LEMMA AtRemoved ==
  ASSUME NEW S, NEW s \in Seq(S), NEW k \in 1..Len(s)
  PROVE  /\ RemoveAt(s, k) \in Seq(S) /\ Len(RemoveAt(s, k)) = Len(s) - 1
         /\ \A j \in 1..(Len(s)-1) : RemoveAt(s, k)[j] = IF j < k THEN s[j] ELSE s[j+1]
<1> DEFINE n == Len(s)
           l == SubSeq(s, 1, k - 1)
           r == SubSeq(s, k + 1, n)
<1>0. n \in Nat /\ \A j \in 1..n : s[j] \in S
  OBVIOUS
<1>1. l \in Seq(S) /\ Len(l) = k - 1 /\ \A j \in 1..(k-1) : l[j] = s[j]
  BY <1>0, SubSeqProperties
<1>2. r \in Seq(S) /\ Len(r) = n - k /\ \A j \in 1..(n-k) : r[j] = s[k+j]
  BY <1>0, SubSeqProperties
<1>3. RemoveAt(s, k) = l \o r
  BY DEF RemoveAt
<1> HIDE DEF l, r
<1>4. /\ l \o r \in Seq(S) /\ Len(l \o r) = n - 1
      /\ \A j \in 1..(n-1) : (l \o r)[j] = IF j <= k - 1 THEN l[j] ELSE r[j - (k-1)]
  BY <1>0, <1>1, <1>2, ConcatProperties
<1>5. ASSUME NEW j \in 1..(n-1)  PROVE (l \o r)[j] = IF j < k THEN s[j] ELSE s[j+1]
  <2>1. CASE j < k
    BY <1>0, <1>1, <1>4, <2>1
  <2>2. CASE ~(j < k)
    <3>1. j - (k - 1) \in 1..(n-k) /\ k + (j - (k-1)) = j + 1 /\ ~(j <= k - 1)
      BY <1>0, <2>2
    <3> QED  BY <1>2, <1>4, <2>2, <3>1
  <2> QED  BY <2>1, <2>2
<1> QED
  BY <1>3, <1>4, <1>5

\* A command that is sent is served after all the others.
LEMMA ServedAppend ==
  ASSUME NEW v \in VoiceRecord, NEW w \in Seq(Call), NEW c \in Call
  PROVE  /\ Served(v, Append(w, c)) = After(Served(v, w), c)
         /\ Served(v, w) \in VoiceRecord
<1> DEFINE n == Len(w)
           x == Append(w, c)
<1>0. n \in Nat /\ x \in Seq(Call) /\ Len(x) = n + 1 /\ x[n+1] = c /\ \A k \in 1..n : x[k] = w[k]
  OBVIOUS
<1> HIDE DEF x
<1>1. PICK f : Statuses(f, v, w)
  BY ServedIsLast
<1>2. Served(v, w) = f[n]
  BY <1>1, ServedIsLast
<1>3. f \in [0..n -> VoiceRecord] /\ f[0] = v /\ \A k \in 1..n : f[k] = After(f[k-1], w[k])
  BY <1>1 DEF Statuses
<1>4. f[n] \in VoiceRecord
  BY <1>0, <1>3
<1> DEFINE last == After(f[n], c)
           e == [k \in 0..(n+1) |-> IF k = n + 1 THEN last ELSE f[k]]
<1>5. last \in VoiceRecord
  BY <1>4, AfterTyped
<1> HIDE DEF last
<1>6. e \in [0..(n+1) -> VoiceRecord] /\ e[n+1] = last /\ \A k \in 0..n : e[k] = f[k]
  BY <1>0, <1>3, <1>5
<1> HIDE DEF e
<1>7. ASSUME NEW k \in 1..(n+1)  PROVE e[k] = After(e[k-1], x[k])
  <2>1. CASE k = n + 1
    <3>1. k - 1 = n /\ n \in 0..n
      BY <1>0, <2>1
    <3> QED  BY <1>0, <1>6, <2>1, <3>1 DEF last
  <2>2. CASE k \in 1..n
    <3>1. k - 1 \in 0..n /\ k \in 0..n
      BY <1>0, <2>2
    <3> QED  BY <1>0, <1>3, <1>6, <2>2, <3>1
  <2> QED  BY <1>0, <2>1, <2>2
<1>8. e[0] = v
  BY <1>0, <1>3, <1>6
<1>9. Statuses(e, v, x)
  BY <1>0, <1>6, <1>7, <1>8 DEF Statuses
<1>10. Served(v, x) = e[n+1]
  BY <1>0, <1>9, ServedIsLast
<1> QED
  BY <1>2, <1>4, <1>6, <1>10 DEF last, x

\* To serve the first command and then the others is to serve them all.
LEMMA ServedHead ==
  ASSUME NEW v \in VoiceRecord, NEW w \in Seq(Call), w # <<>>
  PROVE  Served(After(v, w[1]), RemoveAt(w, 1)) = Served(v, w)
<1> DEFINE n == Len(w)
           x == RemoveAt(w, 1)
<1>0. n \in Nat /\ n >= 1 /\ w[1] \in Call
  OBVIOUS
<1>1. x \in Seq(Call) /\ Len(x) = n - 1 /\ \A k \in 1..(n-1) : x[k] = w[k+1]
  BY <1>0, AtRemoved
<1> HIDE DEF x
<1>2. PICK f : Statuses(f, v, w)
  BY ServedIsLast
<1>3. Served(v, w) = f[n]
  BY <1>2, ServedIsLast
<1>4. f \in [0..n -> VoiceRecord] /\ f[0] = v /\ \A k \in 1..n : f[k] = After(f[k-1], w[k])
  BY <1>2 DEF Statuses
<1> DEFINE e == [k \in 0..(n-1) |-> f[k+1]]
<1>5. e \in [0..(n-1) -> VoiceRecord] /\ \A k \in 0..(n-1) : e[k] = f[k+1]
  BY <1>0, <1>4
<1> HIDE DEF e
<1>6. e[0] = After(v, w[1]) /\ e[n-1] = f[n]
  <2>1. 0 \in 0..(n-1) /\ n - 1 \in 0..(n-1) /\ 1 \in 1..n /\ 1 - 1 = 0 /\ 0 + 1 = 1 /\ (n-1)+1 = n
    BY <1>0
  <2>2. f[1] = After(f[0], w[1])
    BY <1>4, <2>1
  <2> QED  BY <1>4, <1>5, <2>1, <2>2
<1>7. ASSUME NEW k \in 1..(n-1)  PROVE e[k] = After(e[k-1], x[k])
  <2>1. k \in 0..(n-1) /\ k - 1 \in 0..(n-1) /\ (k-1)+1 = k /\ k + 1 \in 1..n /\ (k+1)-1 = k
    BY <1>0
  <2>2. f[k+1] = After(f[k], w[k+1])
    BY <1>4, <2>1
  <2>3. e[k] = f[k+1] /\ e[k-1] = f[k]
    BY <1>5, <2>1
  <2> QED  BY <1>1, <2>2, <2>3
<1>8. After(v, w[1]) \in VoiceRecord
  BY <1>0, AfterTyped
<1>9. Statuses(e, After(v, w[1]), x)
  BY <1>1, <1>5, <1>6, <1>7 DEF Statuses
<1>10. Served(After(v, w[1]), x) = e[Len(x)]
  BY <1>1, <1>8, <1>9, ServedIsLast
<1> QED
  BY <1>1, <1>3, <1>6, <1>10 DEF x

\* Two statuses that show the same.
Alike(u, v) == u.src = v.src /\ u.state = v.state

\* A command does the same to both.
LEMMA AfterAlike ==
  ASSUME NEW u \in VoiceRecord, NEW v \in VoiceRecord, NEW c \in Call, Alike(u, v)
  PROVE  Alike(After(u, c), After(v, c))
<1>1. CASE c.cmd = "play"
  BY <1>1 DEF After, Alike
<1>2. CASE c.cmd \in {"skip", "stop"}
  BY <1>2 DEF After, Alike, Nowhere
<1>3. CASE c.cmd = "pause"
  <2>1. CASE u.state = "playing"
    BY <1>3, <2>1 DEF After, Alike, VoiceRecord
  <2>2. CASE u.state # "playing"
    BY <1>3, <2>2 DEF After, Alike, VoiceRecord
  <2> QED  BY <2>1, <2>2
<1>4. CASE c.cmd = "resume"
  <2>1. CASE u.state = "paused"
    BY <1>4, <2>1 DEF After, Alike, VoiceRecord
  <2>2. CASE u.state # "paused"
    BY <1>4, <2>2 DEF After, Alike, VoiceRecord
  <2> QED  BY <2>1, <2>2
<1>5. CASE c.cmd \notin {"play", "skip", "stop", "pause", "resume"}
  BY <1>5 DEF After, Alike
<1> QED
  BY <1>1, <1>2, <1>3, <1>4, <1>5

\* Whether a loop is still playing changes nothing of what is shown in the end.
LEMMA ServedAlike ==
  ASSUME NEW u \in VoiceRecord, NEW v \in VoiceRecord, NEW w \in Seq(Call), Alike(u, v)
  PROVE  Alike(Served(u, w), Served(v, w))
<1> DEFINE n == Len(w)
<1>0. n \in Nat /\ \A k \in 1..n : w[k] \in Call
  OBVIOUS
<1>1. PICK f : Statuses(f, u, w)
  BY ServedIsLast
<1>2. PICK e : Statuses(e, v, w)
  BY ServedIsLast
<1>3. Served(u, w) = f[n] /\ Served(v, w) = e[n]
  BY <1>1, <1>2, ServedIsLast
<1>4. f \in [0..n -> VoiceRecord] /\ f[0] = u /\ \A k \in 1..n : f[k] = After(f[k-1], w[k])
  BY <1>1 DEF Statuses
<1>5. e \in [0..n -> VoiceRecord] /\ e[0] = v /\ \A k \in 1..n : e[k] = After(e[k-1], w[k])
  BY <1>2 DEF Statuses
<1> DEFINE S == {k \in 0..n : Alike(f[k], e[k])}
<1>6. 0 \in S
  BY <1>0, <1>4, <1>5
<1>7. ASSUME NEW k \in 1..n, k - 1 \in S  PROVE k \in S
  <2>1. f[k-1] \in VoiceRecord /\ e[k-1] \in VoiceRecord /\ Alike(f[k-1], e[k-1])
    BY <1>4, <1>5, <1>7
  <2>2. Alike(After(f[k-1], w[k]), After(e[k-1], w[k]))
    BY <1>0, <2>1, AfterAlike
  <2> QED  BY <1>4, <1>5, <2>2
<1>8. \A k \in 0..n : k \in S
  <2> HIDE DEF S
  <2> QED  BY <1>0, <1>6, <1>7, Induct
<1> QED
  BY <1>0, <1>3, <1>8

-----------------------------------------------------------------------------
(* What is shown and what was commanded *)

Same == now'.item = now.item /\ now'.src = now.src /\ now'.paused = now.paused

\* What a step may do to the record of what plays and to the voice service together: show
\* nothing; keep what is shown and command nothing, or nothing that changes the playback;
\* show and command the same; be served; or end a loop.
ShowStep ==
  \/ now' = Nothing
  \/ Same /\ wire' = wire /\ voice' = voice
  \/ /\ Same /\ voice' = voice
     /\ \E p \in Procs : Send(p, "status", NoTrack)
  \/ /\ voice' = voice
     /\ \E p \in Procs, i \in Nat, t \in Tracks : now' = NowPlaying(i, t) /\ Send(p, "play", t)
  \/ /\ now' = [now EXCEPT !.paused = now.item # NoItem] /\ voice' = voice
     /\ \E p \in Procs : Send(p, "pause", NoTrack)
  \/ /\ now' = [now EXCEPT !.paused = FALSE] /\ voice' = voice
     /\ \E p \in Procs : Send(p, "resume", NoTrack)
  \/ Same /\ wire # <<>> /\ voice' = After(voice, wire[1]) /\ wire' = RemoveAt(wire, 1)
  \/ Same /\ wire' = wire /\ voice' = [voice EXCEPT !.live = FALSE]

\* Every step is one of those, when calls are delivered in order and never fail.
LEMMA StepOfShown ==
  ASSUME InOrder = TRUE, MayFail = FALSE, RequestsTyped, VoiceTyped, [Next]_vars
  PROVE  ShowStep
<1>0. now \in NowRecord /\ Worker \in Procs
  BY DEF RequestsTyped, Procs
<1>1. ASSUME NEW p \in Procs, Command(p)  PROVE ShowStep
  <2>1. ASSUME NEW stop \in BOOLEAN, Clear(p, stop)  PROVE ShowStep
    BY <1>0, <2>1 DEF Clear, ShowStep, Same, NowRecord
  <2>2. CASE VoicePause(p)
    BY <2>2 DEF VoicePause, ShowStep
  <2>3. CASE ChatResume(p)
    BY <2>3 DEF ChatResume, ShowStep
  <2>4. CASE VoiceNext(p)
    BY <2>4 DEF VoiceNext, SilenceThen, ShowStep, Same
  <2>5. CASE VoiceSkip(p)
    BY <2>5 DEF VoiceSkip, SilenceThen, ShowStep, Same
  <2>6. CASE ChatStop(p)
    BY <2>6 DEF ChatStop, ShowStep
  <2>7. ASSUME NEW i \in Ids, PlayItem(p, i) \/ Delete(p, i)  PROVE ShowStep
    BY <2>7 DEF PlayItem, Delete, ShowStep, Same, voiceVars
  <2>8. CASE PlayFirst(p) \/ VoicePrevious(p) \/ ClearFails(p)
    BY <2>8 DEF PlayFirst, VoicePrevious, ClearFails, ShowStep, Same, voiceVars
  <2>9. CASE VoicePlay(p)
    BY <2>9 DEF VoicePlay, ShowStep, Same
  <2>10. ASSUME NEW t \in Tracks, NEW route, Enqueue(p, t, route) \/ Replay(p, t, route) \/ LookUp(p, t)
         PROVE  ShowStep
    <3>1. CASE LookUp(p, t)
      BY <3>1 DEF LookUp, ShowStep, Same, voiceVars
    <3>2. CASE StartEnqueue(p, t, route)
      BY <3>2 DEF StartEnqueue, ShowStep, Same, voiceVars
    <3> QED
      BY <2>10, <3>1, <3>2 DEF Enqueue, Replay
  <2>11. ASSUME NEW on \in BOOLEAN, SetShuffle(p, on)  PROVE ShowStep
    BY <2>11 DEF SetShuffle, ShowStep, Same
  <2>12. ASSUME NEW mode \in Modes, SetRepeat(p, mode)  PROVE ShowStep
    BY <2>12 DEF SetRepeat, ShowStep, Same, voiceVars
  <2> QED
    BY <1>1, <2>1, <2>2, <2>3, <2>4, <2>5, <2>6, <2>7, <2>8, <2>9, <2>10, <2>11, <2>12 DEF Command
<1>2. ASSUME NEW p \in Procs, Continue(p)  PROVE ShowStep
  <2>0. HandlerOK(h[p])
    BY DEF RequestsTyped
  <2>1. CASE Resolved(p)
    <3>1. CASE CanTakeOver(h[p].ticket, h[p].arg) /\ TakeOver(p)
      <4>1. h[p].track \in Tracks /\ h[p].arg \in Nat
        BY <2>0, <2>1 DEF Resolved, HandlerOK
      <4> QED
        BY <2>1, <3>1, <4>1 DEF Resolved, TakeOver, ShowStep
    <3>2. CASE GiveUp(p)
      BY <2>1, <3>2 DEF Resolved, GiveUp, ShowStep, Same
    <3> QED
      BY <2>1, <3>1, <3>2 DEF Resolved
  <2>2. CASE Fetched(p)
    <3>1. h[p].track \in Tracks
      BY <2>0, <2>2 DEF Fetched, HandlerOK
    <3>2. CASE Insert(h[p].track) /\ now' = NowPlaying(NextId, h[p].track) /\ Send(p, "play", h[p].track)
      <4>1. NextId \in Nat
        BY NextIdIsFresh
      <4> QED
        BY <2>2, <3>1, <3>2, <4>1 DEF Fetched, ShowStep
    <3>3. CASE now' = now /\ wire' = wire
      BY <2>2, <3>3 DEF Fetched, ShowStep, Same
    <3> QED
      BY <2>2, <3>2, <3>3 DEF Fetched
  <2>3. CASE StatusRead(p)
    BY <2>3 DEF StatusRead, ShowStep, Same
  <2>4. CASE Played(p)
    BY <2>4 DEF Played, GiveUp, ShowStep, Same
  <2>5. CASE LookedUp(p)
    <3>1. CASE \E route \in Routes(p) : StartEnqueue(p, h[p].track, route)
      BY <3>1 DEF StartEnqueue, ShowStep, Same, voiceVars
    <3> QED
      BY <2>5, <3>1 DEF LookedUp
  <2>6. CASE FetchedAdd(p) \/ Done(p) \/ Skipped(p) \/ Noticed(p)
             \/ StatusReadAuto(p) \/ DeleteFromOrder(p) \/ DeleteFixPos(p)
    BY <2>6 DEF FetchedAdd, Done, Skipped, Noticed,
         StatusReadAuto, DeleteFromOrder, DeleteFixPos, ShowStep, Same, voiceVars
  <2> QED
    BY <1>2, <2>1, <2>2, <2>3, <2>4, <2>5, <2>6 DEF Continue
<1>3. CASE HandleEvent
  BY <1>3 DEF HandleEvent, EventIgnored, PlaybackFinished, PlaybackError, ShowStep, Same
<1>4. CASE VoiceService
  <2>1. ASSUME NEW k \in 1..Len(wire), Serve(k)  PROVE ShowStep
    BY <2>1 DEF Serve, Deliverable, VoiceTyped, ShowStep, Same
  <2>2. ASSUME NEW k \in 1..Len(wire), CallLost(k)  PROVE FALSE
    BY <2>2 DEF CallLost
  <2>3. ASSUME NEW type, LoopEnds(type)  PROVE ShowStep
    BY <2>3 DEF LoopEnds, ShowStep, Same
  <2>4. CASE EventsLost
    BY <2>4 DEF EventsLost, ShowStep, Same
  <2> QED
    BY <1>4, <2>1, <2>2, <2>3, <2>4 DEF VoiceService
<1>5. CASE UNCHANGED vars
  BY <1>5 DEF vars, ShowStep, Same, voiceVars
<1> QED
  BY <1>1, <1>2, <1>3, <1>4, <1>5 DEF Next, Backend

\* A command that is sent comes last.
LEMMA SendCommands ==
  ASSUME VoiceTyped, NEW p \in Procs, NEW cmd \in Cmds, NEW src \in Tracks \cup {NoTrack},
         Send(p, cmd, src), voice' = voice
  PROVE  /\ Commanded' = After(Commanded, [by |-> p, cmd |-> cmd, src |-> src])
         /\ Commanded \in VoiceRecord
<1>1. PICK c \in Call : c = [by |-> p, cmd |-> cmd, src |-> src]
  BY DEF Call
<1>2. PICK v \in VoiceRecord : v = voice
  BY DEF VoiceTyped
<1>3. PICK w \in Seq(Call) : w = wire
  BY DEF VoiceTyped
<1>4. Served(v, Append(w, c)) = After(Served(v, w), c) /\ Served(v, w) \in VoiceRecord
  BY ServedAppend
<1>5. Commanded = Served(v, w)
  BY <1>2, <1>3 DEF Commanded
<1>6. Commanded' = Served(v, Append(w, c))
  BY <1>1, <1>2, <1>3 DEF Commanded, Send
<1> QED
  BY <1>1, <1>4, <1>5, <1>6

\* What is shown follows.
LEMMA ShowStepKeeps ==
  ASSUME RequestsTyped, VoiceTyped, ShownIsCommanded, ShowStep, VoiceTyped'
  PROVE  ShownIsCommanded'
<1>0. now \in NowRecord
  BY DEF RequestsTyped
<1>1. CASE now' = Nothing
  BY <1>1 DEF ShownIsCommanded, Nothing
<1>2. CASE Same /\ wire' = wire /\ voice' = voice
  BY <1>2 DEF ShownIsCommanded, Same, Commanded
<1>3. ASSUME NEW p \in Procs, Same, voice' = voice, Send(p, "status", NoTrack)
      PROVE  ShownIsCommanded'
  <2>1. Commanded' = After(Commanded, [by |-> p, cmd |-> "status", src |-> NoTrack])
    BY <1>3, SendCommands DEF Cmds
  <2>2. Commanded' = Commanded
    BY <2>1 DEF After
  <2> QED
    BY <1>3, <2>2 DEF ShownIsCommanded, Same
<1>4. ASSUME NEW p \in Procs, NEW i \in Nat, NEW t \in Tracks, voice' = voice,
             now' = NowPlaying(i, t), Send(p, "play", t)
      PROVE  ShownIsCommanded'
  <2>1. Commanded' = After(Commanded, [by |-> p, cmd |-> "play", src |-> t])
    BY <1>4, SendCommands DEF Cmds
  <2>2. Commanded' = [src |-> t, state |-> "playing", live |-> TRUE]
    BY <2>1 DEF After
  <2> QED
    BY <1>4, <2>2 DEF ShownIsCommanded, NowPlaying
<1>5. ASSUME NEW p \in Procs, voice' = voice, now' = [now EXCEPT !.paused = now.item # NoItem],
             Send(p, "pause", NoTrack)
      PROVE  ShownIsCommanded'
  <2>1. /\ Commanded' = After(Commanded, [by |-> p, cmd |-> "pause", src |-> NoTrack])
        /\ Commanded \in VoiceRecord
    BY <1>5, SendCommands DEF Cmds
  <2>2. PICK c \in VoiceRecord : c = Commanded
    BY <2>1
  <2>3. c.state = "playing" => Commanded' = [c EXCEPT !.state = "paused"]
    BY <2>1, <2>2 DEF After
  <2>4. c.state # "playing" => Commanded' = c
    BY <2>1, <2>2 DEF After
  <2>5. now'.item = now.item /\ now'.src = now.src /\ (now.item # NoItem => now'.paused)
    BY <1>0, <1>5 DEF NowRecord
  <2>6. SUFFICES ASSUME now.item # NoItem
        PROVE  Commanded'.src = now.src /\ Commanded'.state = "paused"
    BY <2>5 DEF ShownIsCommanded
  <2>7. c.src = now.src /\ c.state \in {"playing", "paused"}
    BY <2>2, <2>6 DEF ShownIsCommanded
  <2> QED
    BY <2>3, <2>4, <2>7 DEF VoiceRecord
<1>6. ASSUME NEW p \in Procs, voice' = voice, now' = [now EXCEPT !.paused = FALSE],
             Send(p, "resume", NoTrack)
      PROVE  ShownIsCommanded'
  <2>1. /\ Commanded' = After(Commanded, [by |-> p, cmd |-> "resume", src |-> NoTrack])
        /\ Commanded \in VoiceRecord
    BY <1>6, SendCommands DEF Cmds
  <2>2. PICK c \in VoiceRecord : c = Commanded
    BY <2>1
  <2>3. c.state = "paused" => Commanded' = [c EXCEPT !.state = "playing"]
    BY <2>1, <2>2 DEF After
  <2>4. c.state # "paused" => Commanded' = c
    BY <2>1, <2>2 DEF After
  <2>5. now'.item = now.item /\ now'.src = now.src /\ now'.paused = FALSE
    BY <1>0, <1>6 DEF NowRecord
  <2>6. SUFFICES ASSUME now.item # NoItem
        PROVE  Commanded'.src = now.src /\ Commanded'.state = "playing"
    BY <2>5 DEF ShownIsCommanded
  <2>7. c.src = now.src /\ c.state \in {"playing", "paused"}
    BY <2>2, <2>6 DEF ShownIsCommanded
  <2> QED
    BY <2>3, <2>4, <2>7 DEF VoiceRecord
<1>7. CASE Same /\ wire # <<>> /\ voice' = After(voice, wire[1]) /\ wire' = RemoveAt(wire, 1)
  <2>1. PICK v \in VoiceRecord : v = voice
    BY DEF VoiceTyped
  <2>2. PICK w \in Seq(Call) : w = wire
    BY DEF VoiceTyped
  <2>3. Served(After(v, w[1]), RemoveAt(w, 1)) = Served(v, w)
    BY <1>7, <2>2, ServedHead
  <2>4. Commanded' = Commanded
    BY <1>7, <2>1, <2>2, <2>3 DEF Commanded
  <2> QED
    BY <1>7, <2>4 DEF ShownIsCommanded, Same
<1>8. CASE Same /\ wire' = wire /\ voice' = [voice EXCEPT !.live = FALSE]
  <2>1. PICK v \in VoiceRecord : v = voice
    BY DEF VoiceTyped
  <2>2. PICK w \in Seq(Call) : w = wire
    BY DEF VoiceTyped
  <2>3. PICK u \in VoiceRecord : u = voice'
    BY DEF VoiceTyped
  <2>4. Alike(u, v)
    BY <1>8, <2>1, <2>3 DEF Alike, VoiceRecord
  <2>5. Alike(Served(u, w), Served(v, w))
    BY <2>4, ServedAlike
  <2>6. Commanded = Served(v, w) /\ Commanded' = Served(u, w)
    BY <1>8, <2>1, <2>2, <2>3 DEF Commanded
  <2> QED
    BY <1>8, <2>5, <2>6 DEF ShownIsCommanded, Same, Alike
<1> QED
  BY <1>1, <1>2, <1>3, <1>4, <1>5, <1>6, <1>7, <1>8 DEF ShowStep

\* What the backend shows as playing is what its commands, in the order they were sent, tell
\* the voice service to play, for any number of requests and commands under way, when the
\* commands are delivered in order and none fails.
THEOREM ShownAsCommanded ==
  ASSUME InOrder = TRUE, MayFail = FALSE
  PROVE  Spec => []ShownIsCommanded
<1>1. Init => ShownIsCommanded
  BY DEF Init, Nothing, ShownIsCommanded
<1>2. RequestsTyped /\ VoiceTyped /\ ShownIsCommanded /\ [Next]_vars => ShownIsCommanded'
  BY StepOfShown, ShowStepKeeps, StepTyped
<1>3. Init => RequestsTyped /\ VoiceTyped
  BY InitTyped
<1>4. RequestsTyped /\ VoiceTyped /\ [Next]_vars => RequestsTyped' /\ VoiceTyped'
  BY StepTyped
<1> QED
  BY <1>1, <1>2, <1>3, <1>4, PTL DEF Spec

-----------------------------------------------------------------------------
(* The rest of the types *)

\* What a step does to the handlers: nothing, an answer arrives, a coroutine goes on to a
\* point outside DELETE /queue/{id}, or that endpoint takes a step of its own.
HandlerStep ==
  \/ h' = h
  \/ \E p \in Procs, x \in Replies : h' = [h EXCEPT ![p].reply = x]
  \/ \E p \in Procs : \E r : h' = [h EXCEPT ![p] = r] /\ r.at \notin {"delOrder", "delPos"}
  \/ \E p \in Procs : (\E i \in Ids : Delete(p, i)) \/ DeleteFromOrder(p)

\* A coroutine that goes on elsewhere takes such a step.
LEMMA GoesOn ==
  ASSUME NEW p \in Procs, NEW r, h' = [h EXCEPT ![p] = r], r.at \notin {"delOrder", "delPos"}
  PROVE  HandlerStep
BY DEF HandlerStep

\* Suspending elsewhere is one.
LEMMA AwaitIsHandlerStep ==
  ASSUME NEW p \in Procs, NEW point, point \notin {"delOrder", "delPos"}, NEW arg, NEW ticket,
         Await(p, point, arg, ticket)
  PROVE  HandlerStep
<1>1. [Idle EXCEPT !.at = point, !.arg = arg, !.ticket = ticket].at = point
  BY DEF Idle
<1> QED
  BY <1>1, GoesOn DEF Await

\* And the end of a handler.
LEMMA FinishIsHandlerStep ==
  ASSUME NEW p \in Procs, Finish(p)
  PROVE  HandlerStep
BY GoesOn DEF Finish, Idle

\* So is the start of a request.
LEMMA BeginIsHandlerStep ==
  ASSUME NEW p \in Procs, NEW i, NEW q, NEW g, NEW pd, Begin(p, i, q, g, pd)
  PROVE  HandlerStep
<1>1. CASE i \in InQueue(q)
  <2>1. \E r : r.at = "resolve" /\ h' = [h EXCEPT ![p] = r]
    BY <1>1 DEF Begin
  <2> QED
    BY <2>1, GoesOn
<1>2. CASE i \notin InQueue(q)
  BY <1>2, FinishIsHandlerStep DEF Begin
<1> QED
  BY <1>1, <1>2

\* And the automatic next.
LEMMA AutoNextIsHandlerStep ==
  ASSUME NEW p \in Procs, NEW start, NEW q, NEW o, NEW ix, NEW n, AutoNext(p, start, q, o, ix, n)
  PROVE  HandlerStep
<1>1. CASE \E i : Begin(p, i, q, gen, pending)
  BY <1>1, BeginIsHandlerStep
<1>2. CASE Finish(p)
  BY <1>2, FinishIsHandlerStep
<1> QED
  BY <1>1, <1>2, AutoNextBegins

\* And the head of an enqueue.
LEMMA StartEnqueueIsHandlerStep ==
  ASSUME NEW p \in Procs, NEW t, NEW route, StartEnqueue(p, t, route)
  PROVE  HandlerStep
<1>1. CASE Finish(p) \/ Await(p, "statusAuto", 0, 0)
  BY <1>1, FinishIsHandlerStep, AwaitIsHandlerStep
<1>2. ASSUME NEW point \in {"fetchAdd", "fetch"}, NEW ticket,
             h' = [h EXCEPT ![p] = [Idle EXCEPT !.at = point, !.track = t, !.ticket = ticket]]
      PROVE  HandlerStep
  <2>1. [Idle EXCEPT !.at = point, !.track = t, !.ticket = ticket].at \notin {"delOrder", "delPos"}
    BY DEF Idle
  <2> QED
    BY <1>2, <2>1 DEF HandlerStep
<1>3. CASE route \in {"fetchAdd", "enqueue", "enqueueGated"}
  <2>1. \E point \in {"fetchAdd", "fetch"} : \E ticket :
          h' = [h EXCEPT ![p] = [Idle EXCEPT !.at = point, !.track = t, !.ticket = ticket]]
    BY <1>3 DEF StartEnqueue
  <2> QED
    BY <1>2, <2>1
<1> QED
  BY <1>1, <1>3 DEF StartEnqueue

\* Every step is one of those of the handlers.
LEMMA StepOfHandlers ==
  ASSUME VoiceTyped, [Next]_vars
  PROVE  HandlerStep
<1>1. ASSUME NEW p \in Procs, Command(p)  PROVE HandlerStep
  <2>1. ASSUME NEW i \in Ids, PlayItem(p, i)  PROVE HandlerStep
    BY <2>1, BeginIsHandlerStep DEF PlayItem
  <2>2. ASSUME NEW i \in Ids, Delete(p, i)  PROVE HandlerStep
    BY <2>2 DEF HandlerStep
  <2>3. CASE PlayFirst(p) \/ VoicePrevious(p)
    <3>1. CASE h' = h
      BY <3>1 DEF HandlerStep
    <3>2. CASE \E i : Begin(p, i, rows, gen, pending)
      BY <3>2, BeginIsHandlerStep
    <3> QED
      BY <2>3, <3>1, <3>2 DEF PlayFirst, VoicePrevious
  <2>4. CASE VoiceNext(p) \/ VoiceSkip(p) \/ ChatStop(p) \/ \E stop \in BOOLEAN : Clear(p, stop)
    <3>1. CASE h' = h
      BY <3>1 DEF HandlerStep
    <3>2. CASE \E i, q : Begin(p, i, q, gen + 1, NoItem)
      BY <3>2, BeginIsHandlerStep
    <3>3. CASE \E arg : Await(p, "skipped", arg, 0) \/ Await(p, "last", 0, 0)
      BY <3>3, AwaitIsHandlerStep
    <3> QED
      BY <2>4, <3>1, <3>2, <3>3 DEF VoiceNext, VoiceSkip, SilenceThen, ChatStop, Clear
  <2>5. CASE ClearFails(p) \/ \E mode \in Modes : SetRepeat(p, mode)
    BY <2>5 DEF ClearFails, SetRepeat, HandlerStep
  <2>6. CASE VoicePlay(p) \/ VoicePause(p) \/ ChatResume(p) \/ \E on \in BOOLEAN : SetShuffle(p, on)
    <3>1. CASE h' = h
      BY <3>1 DEF HandlerStep
    <3>2. CASE \E point \in {"status", "last", "statusAuto"} : Await(p, point, 0, 0)
      BY <3>2, AwaitIsHandlerStep
    <3> QED
      BY <2>6, <3>1, <3>2 DEF VoicePlay, VoicePause, ChatResume, SetShuffle
  <2>7. ASSUME NEW t \in Tracks, NEW route, Enqueue(p, t, route) \/ Replay(p, t, route)
        PROVE  HandlerStep
    BY <2>7, StartEnqueueIsHandlerStep DEF Enqueue, Replay
  <2>8. ASSUME NEW t \in Tracks, LookUp(p, t)  PROVE HandlerStep
    <3>1. [Idle EXCEPT !.at = "lookup", !.track = t].at = "lookup"
      BY DEF Idle
    <3> QED
      BY <2>8, <3>1 DEF LookUp, HandlerStep
  <2> QED
    BY <1>1, <2>1, <2>2, <2>3, <2>4, <2>5, <2>6, <2>7, <2>8 DEF Command
<1>2. ASSUME NEW p \in Procs, Continue(p)  PROVE HandlerStep
  <2>1. CASE \E arg, ticket : \E point \in {"play", "playNew", "last"} :
                 Await(p, point, arg, ticket)
    BY <2>1, AwaitIsHandlerStep
  <2>2. CASE \E start, q, o, ix, n : AutoNext(p, start, q, o, ix, n)
    BY <2>2, AutoNextIsHandlerStep
  <2>3. CASE \E t, route : StartEnqueue(p, t, route)
    BY <2>3, StartEnqueueIsHandlerStep
  <2>4. CASE DeleteFromOrder(p)
    BY <2>4 DEF HandlerStep
  <2>5. CASE Finish(p)
    BY <2>5, FinishIsHandlerStep
  <2>6. ASSUME Resolved(p) \/ Played(p) \/ Fetched(p) \/ Done(p) \/ FetchedAdd(p) \/ DeleteFixPos(p)
        PROVE  \/ \E arg, ticket : \E point \in {"play", "playNew", "last"} :
                    Await(p, point, arg, ticket)
               \/ Finish(p)
    BY <2>6 DEF Resolved, Played, TakeOver, GiveUp, Fetched, Done, FetchedAdd, DeleteFixPos
  <2>7. ASSUME Skipped(p) \/ Noticed(p) \/ StatusReadAuto(p)
        PROVE  Finish(p) \/ \E start, q, o, ix, n : AutoNext(p, start, q, o, ix, n)
    BY <2>7 DEF Skipped, Noticed, StatusReadAuto
  <2>8. CASE StatusRead(p)
    <3>1. CASE Await(p, "last", 0, 0)
      BY <3>1, AwaitIsHandlerStep
    <3> QED
      BY <2>2, <2>5, <2>8, <3>1 DEF StatusRead
  <2>9. CASE LookedUp(p)
    BY <2>3, <2>5, <2>9 DEF LookedUp
  <2> QED
    BY <1>2, <2>1, <2>2, <2>4, <2>5, <2>6, <2>7, <2>8, <2>9 DEF Continue
<1>3. CASE HandleEvent
  <2>1. Worker \in Procs
    BY DEF Procs
  <2>2. CASE h' = h
    BY <2>2 DEF HandlerStep
  <2>3. CASE \E i : Begin(Worker, i, rows, gen, pending)
    BY <2>1, <2>3, BeginIsHandlerStep
  <2>4. CASE \E start, q, o, ix, n : AutoNext(Worker, start, q, o, ix, n)
    BY <2>1, <2>4, AutoNextIsHandlerStep
  <2>5. CASE Await(Worker, "notice", 0, 0)
    BY <2>1, <2>5, AwaitIsHandlerStep
  <2> QED
    BY <1>3, <2>2, <2>3, <2>4, <2>5 DEF HandleEvent, EventIgnored, PlaybackFinished, PlaybackError
<1>4. CASE VoiceService
  <2>0. \A k \in 1..Len(wire) : wire[k] \in Call
    BY DEF VoiceTyped
  <2>1. ASSUME NEW k \in 1..Len(wire), Serve(k)  PROVE HandlerStep
    <3>1. wire[k].by \in Procs /\ voice.state \in Replies
      BY <2>0 DEF VoiceTyped, Call, VoiceRecord, Replies
    <3>2. PICK r \in Replies : h' = [h EXCEPT ![wire[k].by].reply = r]
      BY <2>1, <3>1 DEF Serve, Replies
    <3> QED
      BY <3>1, <3>2 DEF HandlerStep
  <2>2. ASSUME NEW k \in 1..Len(wire), CallLost(k)  PROVE HandlerStep
    <3>1. wire[k].by \in Procs
      BY <2>0 DEF Call
    <3> QED
      BY <2>2, <3>1 DEF CallLost, Replies, HandlerStep
  <2>3. CASE (\E type \in {"finished", "error"} : LoopEnds(type)) \/ EventsLost
    BY <2>3 DEF LoopEnds, EventsLost, HandlerStep
  <2> QED
    BY <1>4, <2>1, <2>2, <2>3 DEF VoiceService
<1>5. CASE UNCHANGED vars
  BY <1>5 DEF vars, HandlerStep
<1> QED
  BY <1>1, <1>2, <1>3, <1>4, <1>5 DEF Next, Backend

\* What a step does to the calls, the events and the count of commands: a command may be
\* sent; the voice service serves one, or one is lost; a loop ends; events are handled or lost.
CallStep ==
  /\ \/ wire' = wire /\ voice' = voice
     \/ /\ voice' = voice
        /\ \E p \in Procs, cmd \in Cmds, src \in Tracks \cup {NoTrack} :
             Send(p, cmd, src) /\ (cmd = "play" => src \in Tracks)
     \/ \E k \in 1..Len(wire) : wire' = RemoveAt(wire, k) /\ voice' \in {voice, After(voice, wire[k])}
     \/ wire' = wire /\ voice' = [voice EXCEPT !.live = FALSE]
  /\ \/ events' = events \/ events' = <<>>
     \/ events # <<>> /\ events' = Tail(events)
     \/ \E type \in {"finished", "error"} :
          voice.live /\ events' = Append(events, [type |-> type, src |-> voice.src])
  /\ ops' = ops \/ (ops < MaxOps /\ ops' = ops + 1)

\* The commands without a source.
Plain == Cmds \ {"play"}

\* Sending one, or nothing, is such a step.
LEMMA SendsPlain ==
  ASSUME NEW p \in Procs, NEW cmd \in Plain, voice' = voice, events' = events,
         wire' = wire \/ Send(p, cmd, NoTrack),
         ops' = ops \/ (ops < MaxOps /\ ops' = ops + 1)
  PROVE  CallStep
<1>1. cmd \in Cmds /\ cmd # "play"
  BY DEF Plain
<1> QED
  BY <1>1 DEF CallStep

\* Every step is one of those.
LEMMA StepOfCalls ==
  ASSUME RequestsTyped, [Next]_vars
  PROVE  CallStep
<1>0. {"skip", "stop", "pause", "resume", "notice", "status"} \subseteq Plain
  BY DEF Plain, Cmds
<1>1. ASSUME NEW p \in Procs, Command(p)  PROVE CallStep
  <2> DEFINE Asks(cmd) == /\ voice' = voice /\ events' = events
                          /\ wire' = wire \/ Send(p, cmd, NoTrack)
                          /\ ops < MaxOps /\ ops' = ops + 1
  <2>1. ASSUME NEW cmd \in Plain, Asks(cmd)  PROVE CallStep
    BY <2>1, SendsPlain
  <2>2. ASSUME NEW i \in Ids, PlayItem(p, i) \/ Delete(p, i)
        PROVE  Asks("status")
    BY <2>2 DEF PlayItem, Delete, User, voiceVars
  <2>3. ASSUME PlayFirst(p) \/ VoicePrevious(p) \/ ClearFails(p)
        PROVE  Asks("status")
    BY <2>3 DEF PlayFirst, VoicePrevious, ClearFails, User, voiceVars
  <2>4. ASSUME VoiceNext(p) \/ VoiceSkip(p)
        PROVE  Asks("skip")
    BY <2>4 DEF VoiceNext, VoiceSkip, SilenceThen, User
  <2>5. ASSUME ChatStop(p) \/ \E stop \in BOOLEAN : Clear(p, stop)
        PROVE  Asks("stop")
    BY <2>5 DEF ChatStop, Clear, User
  <2>6. ASSUME NEW t \in Tracks, NEW route, Enqueue(p, t, route) \/ Replay(p, t, route) \/ LookUp(p, t)
        PROVE  Asks("status")
    BY <2>6 DEF Enqueue, Replay, StartEnqueue, LookUp, User, voiceVars
  <2>7. ASSUME VoicePlay(p) \/ VoicePause(p) \/ ChatResume(p)
        PROVE  Asks("status") \/ Asks("pause") \/ Asks("resume")
    BY <2>7 DEF VoicePlay, VoicePause, ChatResume, User
  <2>8. ASSUME NEW on \in BOOLEAN, SetShuffle(p, on)
        PROVE  Asks("status")
    BY <2>8 DEF SetShuffle, User
  <2>9. ASSUME NEW mode \in Modes, SetRepeat(p, mode)
        PROVE  Asks("status")
    BY <2>9 DEF SetRepeat, User, voiceVars
  <2> HIDE DEF Asks
  <2> QED
    BY <1>0, <1>1, <2>1, <2>2, <2>3, <2>4, <2>5, <2>6, <2>7, <2>8, <2>9 DEF Command
<1>2. ASSUME NEW p \in Procs, Continue(p)  PROVE CallStep
  <2>0. HandlerOK(h[p])
    BY DEF RequestsTyped
  <2>1. CASE \E cmd \in Plain : /\ voice' = voice /\ events' = events /\ ops' = ops
                                /\ wire' = wire \/ Send(p, cmd, NoTrack)
    BY <2>1, SendsPlain
  <2>2. CASE /\ voice' = voice /\ events' = events /\ ops' = ops
             /\ Send(p, "play", h[p].track) /\ h[p].track \in Tracks
    <3>1. "play" \in Cmds
      BY DEF Cmds
    <3> QED
      BY <2>2, <3>1 DEF CallStep
  <2>3. ASSUME Resolved(p) \/ Played(p)
        PROVE  /\ voice' = voice /\ events' = events /\ ops' = ops
               /\ wire' = wire \/ (Send(p, "play", h[p].track) /\ h[p].track \in Tracks)
    BY <2>0, <2>3 DEF Resolved, Played, TakeOver, GiveUp, HandlerOK
  <2>4. ASSUME Fetched(p)
        PROVE  /\ voice' = voice /\ events' = events /\ ops' = ops
               /\ wire' = wire \/ (Send(p, "play", h[p].track) /\ h[p].track \in Tracks)
    BY <2>0, <2>4 DEF Fetched, HandlerOK
  <2>5. ASSUME StatusRead(p)
        PROVE  voice' = voice /\ events' = events /\ ops' = ops /\ (wire' = wire \/ Send(p, "resume", NoTrack))
    BY <2>5 DEF StatusRead
  <2>6. ASSUME Done(p) \/ Skipped(p) \/ Noticed(p) \/ StatusReadAuto(p) \/ DeleteFromOrder(p) \/ DeleteFixPos(p)
        PROVE  wire' = wire /\ voice' = voice /\ events' = events /\ ops' = ops
    BY <2>6 DEF Done, Skipped, Noticed, StatusReadAuto, DeleteFromOrder, DeleteFixPos, voiceVars
  <2>7. ASSUME LookedUp(p) \/ FetchedAdd(p)
        PROVE  voice' = voice /\ events' = events /\ ops' = ops /\ (wire' = wire \/ Send(p, "status", NoTrack))
    BY <2>7 DEF LookedUp, FetchedAdd, StartEnqueue, voiceVars
  <2> QED
    BY <1>0, <1>2, <2>1, <2>2, <2>3, <2>4, <2>5, <2>6, <2>7 DEF Continue
<1>3. CASE HandleEvent
  <2>1. /\ voice' = voice /\ ops' = ops /\ events # <<>> /\ events' = Tail(events)
        /\ wire' = wire \/ Send(Worker, "notice", NoTrack)
    BY <1>3 DEF HandleEvent, EventReady, EventIgnored, PlaybackFinished, PlaybackError
  <2>2. Worker \in Procs /\ "notice" \in Cmds
    BY DEF Procs, Cmds
  <2> QED
    BY <2>1, <2>2 DEF CallStep
<1>4. CASE VoiceService
  BY <1>4 DEF VoiceService, Serve, CallLost, LoopEnds, EventsLost, CallStep
<1>5. CASE UNCHANGED vars
  BY <1>5 DEF vars, voiceVars, CallStep
<1> QED
  BY <1>1, <1>2, <1>3, <1>4, <1>5 DEF Next, Backend

Event == [type : {"finished", "error"}, src : Tracks]

\* Only a source plays, and only its end is told of.
CallsTyped ==
  /\ voice.live => voice.src \in Tracks
  /\ \A k \in 1..Len(wire) : wire[k].cmd = "play" => wire[k].src \in Tracks
  /\ events \in Seq(Event)
  /\ ops \in 0..MaxOps

\* Every step keeps that.
LEMMA CallStepKeeps ==
  ASSUME VoiceTyped, CallsTyped, CallStep
  PROVE  CallsTyped'
<1>0. wire \in Seq(Call) /\ voice \in VoiceRecord
  BY DEF VoiceTyped
<1>1. events' \in Seq(Event)
  <2>1. events \in Seq(Event)
    BY DEF CallsTyped
  <2>2. CASE events # <<>> /\ events' = Tail(events)
    BY <2>1, <2>2
  <2>3. ASSUME NEW type \in {"finished", "error"},
               voice.live, events' = Append(events, [type |-> type, src |-> voice.src])
        PROVE  events' \in Seq(Event)
    <3>1. [type |-> type, src |-> voice.src] \in Event
      BY <2>3 DEF CallsTyped, Event
    <3> QED
      BY <2>1, <2>3, <3>1
  <2>4. CASE events' = events \/ events' = <<>>
    <3>1. <<>> \in Seq(Event)
      BY EmptySeq
    <3> QED  BY <2>1, <2>4, <3>1
  <2> QED
    BY <2>2, <2>3, <2>4 DEF CallStep
<1>2. ops' \in 0..MaxOps
  BY BoundAssumption DEF CallsTyped, CallStep
<1>3. CASE wire' = wire /\ voice' = voice
  BY <1>1, <1>2, <1>3 DEF CallsTyped
<1>4. ASSUME NEW p \in Procs, NEW cmd \in Cmds, NEW src \in Tracks \cup {NoTrack},
             voice' = voice, Send(p, cmd, src), cmd = "play" => src \in Tracks
      PROVE  CallsTyped'
  <2>1. PICK c \in Call : c = [by |-> p, cmd |-> cmd, src |-> src]
    BY DEF Call
  <2>2. wire' = Append(wire, c) /\ (c.cmd = "play" => c.src \in Tracks)
    BY <1>4, <2>1 DEF Send
  <2>3. \A k \in 1..Len(wire') : wire'[k] = c \/ (k \in 1..Len(wire) /\ wire'[k] = wire[k])
    BY <1>0, <2>2
  <2>4. \A k \in 1..Len(wire') : wire'[k].cmd = "play" => wire'[k].src \in Tracks
    BY <2>2, <2>3 DEF CallsTyped
  <2> QED
    BY <1>1, <1>2, <1>4, <2>4 DEF CallsTyped
<1>5. ASSUME NEW k \in 1..Len(wire), wire' = RemoveAt(wire, k), voice' \in {voice, After(voice, wire[k])}
      PROVE  CallsTyped'
  <2>1. /\ Len(wire') = Len(wire) - 1
        /\ \A j \in 1..(Len(wire)-1) : wire'[j] = IF j < k THEN wire[j] ELSE wire[j+1]
    BY <1>0, <1>5, AtRemoved
  <2>2. Len(wire) \in Nat
    BY <1>0
  <2>3. \A j \in 1..Len(wire') : \E m \in 1..Len(wire) : wire'[j] = wire[m]
    <3>1. \A j \in 1..Len(wire') : j \in 1..Len(wire) /\ j + 1 \in 1..Len(wire)
      BY <2>1, <2>2
    <3> QED  BY <2>1, <2>2, <3>1
  <2>4. \A j \in 1..Len(wire') : wire'[j].cmd = "play" => wire'[j].src \in Tracks
    BY <2>3 DEF CallsTyped
  <2>5. voice'.live => voice'.src \in Tracks
    <3>1. PICK v \in VoiceRecord : v = voice
      BY <1>0
    <3>2. PICK c \in Call : c = wire[k]
      BY <1>0
    <3>3. (v.live => v.src \in Tracks) /\ (c.cmd = "play" => c.src \in Tracks)
      BY <3>1, <3>2 DEF CallsTyped
    <3>4. After(v, c).live => After(v, c).src \in Tracks
      BY <3>3 DEF After, VoiceRecord, Nowhere
    <3> QED
      BY <1>5, <3>1, <3>2, <3>3, <3>4
  <2> QED
    BY <1>1, <1>2, <2>4, <2>5 DEF CallsTyped
<1>6. CASE wire' = wire /\ voice' = [voice EXCEPT !.live = FALSE]
  <2>1. ~voice'.live
    BY <1>0, <1>6 DEF VoiceRecord
  <2> QED
    BY <1>1, <1>2, <1>6, <2>1 DEF CallsTyped
<1> QED
  BY <1>3, <1>4, <1>5, <1>6 DEF CallStep

-----------------------------------------------------------------------------
(* Orders of the rows *)

\* The orders that Kept leads through: what it has kept of the first k elements.
KeptSoFar(f, s, S) ==
  /\ f \in [0..Len(s) -> Seq(Ids)] /\ f[0] = <<>>
  /\ \A k \in 1..Len(s) : f[k] = IF s[k] \in S THEN Append(f[k-1], s[k]) ELSE f[k-1]

\* Kept is where they end.
LEMMA KeptIsLast ==
  ASSUME NEW s \in Seq(Ids), NEW S
  PROVE  \E f : KeptSoFar(f, s, S) /\ Kept(s, S) = f[Len(s)]
<1> DEFINE n == Len(s)
           Step(k, u) == IF s[k] \in S THEN Append(u, s[k]) ELSE u
           g == [k \in 1..n |-> [u \in Seq(Ids) |-> Step(k, u)]]
           IsKept(a) == a = [k \in 0..n |-> IF k = 0 THEN <<>> ELSE Step(k, a[k-1])]
           kept == CHOOSE a : IsKept(a)
<1>0. n \in Nat /\ (\A k \in 1..n : s[k] \in Ids) /\ <<>> \in Seq(Ids)
  BY EmptySeq
<1>1. g \in [1..n -> [Seq(Ids) -> Seq(Ids)]]
  <2>1. ASSUME NEW k \in 1..n, NEW u \in Seq(Ids)  PROVE Step(k, u) \in Seq(Ids)
    BY <1>0, AppendProperties
  <2> HIDE DEF Step
  <2>2. \A k \in 1..n : [u \in Seq(Ids) |-> Step(k, u)] \in [Seq(Ids) -> Seq(Ids)]
    BY <2>1
  <2> QED  BY <2>2
<1>2. \A k \in 1..n, u \in Seq(Ids) : g[k][u] = Step(k, u)
  OBVIOUS
<1> HIDE DEF g
<1>3. PICK f : Run(f, n, Seq(Ids), <<>>, g)
  <2> HIDE DEF n
  <2> QED  BY <1>0, <1>1, RunExists
<1>4. f \in [0..n -> Seq(Ids)] /\ f[0] = <<>> /\ \A k \in 1..n : f[k] = Step(k, f[k-1])
  <2>1. \A k \in 1..n : k - 1 \in 0..n
    BY <1>0
  <2> HIDE DEF Step
  <2> QED
    BY <1>2, <1>3, <2>1 DEF Run
<1>5. KeptSoFar(f, s, S)
  BY <1>4 DEF KeptSoFar
<1>6. IsKept(f)
  <2> HIDE DEF Step
  <2>1. \A k \in 0..n : f[k] = IF k = 0 THEN <<>> ELSE Step(k, f[k-1])
    <3>1. \A k \in 0..n : k = 0 \/ k \in 1..n
      BY <1>0
    <3> QED  BY <1>4, <3>1
  <2> QED  BY <1>4, <2>1
<1>7. IsKept(kept)
  <2> HIDE DEF IsKept
  <2> QED  BY <1>6
<1>8. Kept(s, S) = kept[n]
  BY DEF Kept
<1>9. kept[0] = <<>> /\ \A k \in 1..n : kept[k] = Step(k, kept[k-1])
  <2> HIDE DEF Step, kept
  <2> QED  BY <1>0, <1>7
<1> HIDE DEF kept
<1>10. kept[n] = f[n]
  <2> DEFINE E == {k \in 0..n : kept[k] = f[k]}
  <2>1. 0 \in E /\ \A k \in 1..n : k - 1 \in E => k \in E
    <3> HIDE DEF Step
    <3> QED  BY <1>0, <1>4, <1>9
  <2>2. \A k \in 0..n : k \in E
    <3> HIDE DEF E
    <3> QED  BY <1>0, <2>1, Induct
  <2> QED  BY <1>0, <2>2
<1> QED
  BY <1>5, <1>8, <1>10

\* It is an order of rows, and the whole one if S has all the rows it lists.
LEMMA KeptLists ==
  ASSUME NEW s \in Seq(Ids), NEW S
  PROVE  Kept(s, S) \in Seq(Ids) /\ (ToSet(s) \subseteq S => Kept(s, S) = s)
<1> DEFINE n == Len(s)
<1>0. n \in Nat /\ \A k \in 1..n : s[k] \in Ids
  OBVIOUS
<1>1. PICK f : KeptSoFar(f, s, S) /\ Kept(s, S) = f[n]
  BY KeptIsLast
<1>2. /\ f \in [0..n -> Seq(Ids)] /\ f[0] = <<>>
      /\ \A k \in 1..n : f[k] = IF s[k] \in S THEN Append(f[k-1], s[k]) ELSE f[k-1]
  BY <1>1 DEF KeptSoFar
<1>3. ASSUME ToSet(s) \subseteq S  PROVE f[n] = s
  <2>1. \A k \in 1..n : s[k] \in S
    BY <1>0, <1>3 DEF ToSet
  <2> DEFINE P(k) == Len(f[k]) = k /\ \A j \in 1..k : f[k][j] = s[j]
             E == {k \in 0..n : P(k)}
  <2>2. 0 \in E
    BY <1>0, <1>2
  <2>3. ASSUME NEW k \in 1..n, k - 1 \in E  PROVE k \in E
    <3>1. f[k-1] \in Seq(Ids) /\ f[k] = Append(f[k-1], s[k])
      <4> HIDE DEF n, E
      <4>1. k - 1 \in 0..n /\ s[k] \in S
        BY <1>0, <2>1
      <4> QED  BY <1>2, <4>1
    <3>2. Len(f[k-1]) = k - 1 /\ \A j \in 1..(k-1) : f[k-1][j] = s[j]
      BY <2>3
    <3>3. PICK u \in Seq(Ids) : u = f[k-1]
      BY <3>1
    <3>4. /\ Len(Append(u, s[k])) = k /\ Append(u, s[k])[k] = s[k]
          /\ \A j \in 1..(k-1) : Append(u, s[k])[j] = u[j]
      <4>1. Len(u) = k - 1 /\ s[k] \in Ids
        BY <1>0, <3>2, <3>3
      <4>2. /\ Len(Append(u, s[k])) = Len(u) + 1 /\ Append(u, s[k])[Len(u) + 1] = s[k]
            /\ \A j \in 1..Len(u) : Append(u, s[k])[j] = u[j]
        BY <4>1, AppendProperties
      <4>3. k \in Nat /\ (k - 1) + 1 = k
        BY <1>0
      <4> QED  BY <4>1, <4>2, <4>3
    <3>5. f[k] = Append(u, s[k])
      BY <3>1, <3>3
    <3> HIDE DEF n
    <3>6. \A j \in 1..k : j = k \/ j \in 1..(k-1)
      BY <1>0
    <3>7. P(k)
      BY <3>2, <3>3, <3>4, <3>5, <3>6
    <3>8. k \in 0..n
      BY <1>0
    <3> QED  BY <3>7, <3>8
  <2>4. \A k \in 0..n : k \in E
    <3> HIDE DEF E
    <3> QED  BY <1>0, <2>2, <2>3, Induct
  <2>5. P(n) /\ f[n] \in Seq(Ids)
    BY <1>0, <1>2, <2>4
  <2>6. PICK u \in Seq(Ids) : u = f[n]
    BY <2>5
  <2> QED  BY <2>5, <2>6, SeqEqual
<1> QED
  BY <1>0, <1>1, <1>2, <1>3

Injective(o) == \A i, j \in DOMAIN o : o[i] = o[j] => i = j

\* The orders of a set of rows list rows of that set, none of them twice.
LEMMA OrderOfSet ==
  ASSUME NEW S \in SUBSET Ids, NEW o \in SetToSeqs(S)
  PROVE  o \in Seq(Ids) /\ Injective(o) /\ ToSet(o) \subseteq S
<1> DEFINE n == Cardinality(S)
<1>1. n \in Nat
  <2>1. IsFiniteSet(Ids)
    BY BoundAssumption, FS_Interval DEF Ids
  <2> QED  BY <2>1, FS_Subset, FS_CardinalityType
<1>2. o \in [1..n -> S] /\ \A i, j \in 1..n : i # j => o[i] # o[j]
  BY DEF SetToSeqs
<1> HIDE DEF n
<1>3. o \in Seq(S)
  BY <1>1, <1>2
<1>4. o \in Seq(Ids)
  BY <1>1, <1>2
<1> QED
  BY <1>2, <1>4 DEF Injective, ToSet

\* The index of an element that is listed is one.
LEMMA IndexFinds ==
  ASSUME NEW o \in Seq(Ids), NEW x, Contains(o, x)
  PROVE  IndexOf(o, x) \in 1..Len(o) /\ o[IndexOf(o, x)] = x
<1>1. \E k \in DOMAIN o : o[k] = x
  BY DEF Contains
<1>2. DOMAIN o = 1..Len(o)
  OBVIOUS
<1> QED
  BY <1>1, <1>2 DEF IndexOf

\* The order without an element it lists.
LEMMA RemovedTyped ==
  ASSUME NEW o \in Seq(Ids), NEW x, Contains(o, x)
  PROVE  /\ Removed(o, x) \in Seq(Ids) /\ Len(Removed(o, x)) = Len(o) - 1
         /\ Injective(o) => /\ Injective(Removed(o, x))
                            /\ ToSet(Removed(o, x)) \subseteq ToSet(o) \ {x}
<1>1. PICK k \in 1..Len(o) : k = IndexOf(o, x) /\ o[k] = x
  BY IndexFinds
<1>2. PICK r : r = Removed(o, x)
  OBVIOUS
<1>3. /\ r \in Seq(Ids) /\ Len(r) = Len(o) - 1
      /\ \A j \in 1..(Len(o)-1) : r[j] = IF j < k THEN o[j] ELSE o[j+1]
  BY <1>1, <1>2, AtRemoved DEF Removed
<1>4. ASSUME Injective(o)  PROVE Injective(r) /\ ToSet(r) \subseteq ToSet(o) \ {x}
  <2>0. Len(o) \in Nat /\ DOMAIN o = 1..Len(o) /\ DOMAIN r = 1..(Len(o)-1)
    BY <1>3
  <2> DEFINE At(j) == IF j < k THEN j ELSE j + 1
  <2>1. ASSUME NEW j \in 1..(Len(o)-1)
        PROVE  At(j) \in 1..Len(o) /\ At(j) # k /\ r[j] = o[At(j)]
    BY <1>3, <2>0
  <2>2. ASSUME NEW i \in 1..(Len(o)-1), NEW j \in 1..(Len(o)-1), At(i) = At(j)  PROVE i = j
    BY <2>0, <2>2
  <2> HIDE DEF At
  <2>3. Injective(r)
    BY <1>4, <2>0, <2>1, <2>2 DEF Injective
  <2>4. ASSUME NEW y \in ToSet(r)  PROVE y \in ToSet(o) \ {x}
    <3>1. PICK j \in 1..(Len(o)-1) : y = r[j]
      BY <2>0 DEF ToSet
    <3> QED
      BY <1>1, <1>4, <2>0, <2>1, <3>1 DEF Injective, ToSet
  <2> QED
    BY <2>3, <2>4
<1> QED
  BY <1>2, <1>3, <1>4

\* The order o and the index ix fit the rows q.
Fits(q, o, ix) == /\ o \in Seq(Ids) /\ Injective(o)
                  /\ ToSet(o) \subseteq InQueue(q) /\ ix \in 0..Len(o)

\* The index moves forward inside the order, or there is none left.
LEMMA ShuffleNextInside ==
  ASSUME NEW ix \in Nat, NEW n \in Nat, n > 0
  PROVE  /\ ShuffleNext(ix, n) \in 0..n
         /\ ShuffleNext(ix, n) = 0 => ix >= n
BY DEF ShuffleNext

\* The automatic next leaves an order of rows and an index...
LEMMA AutoNextOrder ==
  ASSUME NEW p, NEW start, NEW q \in Table, NEW o \in Seq(Ids), NEW ix \in Nat, NEW n,
         AutoNext(p, start, q, o, ix, n)
  PROVE  order' \in Seq(Ids) /\ pos' \in Nat
<1>1. CASE ~shuffle
  BY <1>1 DEF AutoNext
<1>2. CASE shuffle
  <2> DEFINE kept == Kept(o, InQueue(q))
             fresh == InQueue(q) \ ToSet(kept)
             ix2 == PosInKept(o, ix, kept)
             Nxt(full) == IF full = <<>> THEN 0 ELSE ShuffleNext(ix2, Len(full))
  <2>1. kept \in Seq(Ids)
    BY KeptLists
  <2>2. fresh \in SUBSET Ids
    BY DEF InQueue
  <2> HIDE DEF kept, fresh
  <2>3. ix2 \in Nat
    <3>1. Contains(kept, o[ix]) => IndexOf(kept, o[ix]) \in Nat
      BY <2>1, IndexFinds
    <3> QED  BY <3>1 DEF PosInKept
  <2> HIDE DEF ix2
  <2>4. PICK tail \in SetToSeqs(fresh) :
          order' = kept \o tail /\ pos' \in {ix2, Nxt(kept \o tail)}
    BY <1>2 DEF AutoNext, kept, fresh, ix2
  <2>5. PICK full \in Seq(Ids) : full = kept \o tail
    <3>1. tail \in Seq(Ids)
      BY <2>2, <2>4, OrderOfSet
    <3> QED  BY <2>1, <3>1, ConcatProperties
  <2>6. Nxt(full) \in Nat
    <3>1. CASE full # <<>>
      <4>1. Len(full) \in Nat /\ Len(full) > 0
        BY <3>1, EmptySeq
      <4>2. PICK m \in Nat : m = Len(full) /\ m > 0
        BY <4>1
      <4>3. ShuffleNext(ix2, m) \in 0..m
        BY <2>3, <4>2, ShuffleNextInside
      <4> QED  BY <3>1, <4>2, <4>3
    <3> QED  BY <3>1
  <2> QED
    BY <2>3, <2>4, <2>5, <2>6
<1> QED
  BY <1>1, <1>2

\* ...and when they fitted, they do; and they are the same unless a row is requested.
LEMMA AutoNextFits ==
  ASSUME NEW p, NEW start, NEW q \in Table, NEW o, NEW ix, NEW n, Fits(q, o, ix), gen \in Nat,
         AutoNext(p, start, q, o, ix, n)
  PROVE  /\ Fits(q, order', pos') /\ (~shuffle => order' = o /\ pos' = ix)
         /\ (order' = o /\ pos' = ix /\ gen' = gen) \/ gen' = gen + 1
<1>0. /\ o \in Seq(Ids) /\ Injective(o) /\ ToSet(o) \subseteq InQueue(q)
      /\ Len(o) \in Nat /\ ix \in 0..Len(o) /\ DOMAIN o = 1..Len(o)
  BY DEF Fits
<1>1. CASE ~shuffle
  BY <1>1 DEF AutoNext, Begin
<1>2. CASE shuffle
  <2> DEFINE kept == Kept(o, InQueue(q))
             fresh == InQueue(q) \ ToSet(kept)
             ix2 == PosInKept(o, ix, kept)
             Nxt(full) == IF full = <<>> THEN 0 ELSE ShuffleNext(ix2, Len(full))
  <2>1. kept = o
    BY <1>0, KeptLists
  <2>2. fresh \in SUBSET Ids
    BY DEF InQueue
  <2>3. ix2 = ix
    <3>1. CASE ix \in DOMAIN o
      <4>1. Contains(o, o[ix])
        BY <1>0, <3>1 DEF Contains
      <4>2. IndexOf(o, o[ix]) = ix
        BY <1>0, <3>1, <4>1, IndexFinds DEF Injective
      <4> QED  BY <2>1, <3>1, <4>1, <4>2 DEF PosInKept
    <3> QED  BY <3>1 DEF PosInKept
  <2>4. PICK tail \in SetToSeqs(fresh) :
          /\ order' = kept \o tail
          /\ IF Nxt(kept \o tail) = 0
             THEN pos' = ix2 /\ UNCHANGED requestVars
             ELSE /\ pos' = Nxt(kept \o tail)
                  /\ Begin(p, (kept \o tail)[Nxt(kept \o tail)], q, gen, pending)
    <3> HIDE DEF kept, fresh, ix2
    <3> QED  BY <1>2 DEF AutoNext, kept, fresh, ix2
  <2>5. fresh = InQueue(q) \ ToSet(o)
    BY <2>1
  <2> HIDE DEF kept, fresh, ix2
  <2>6. tail \in Seq(Ids) /\ Injective(tail) /\ ToSet(tail) \subseteq InQueue(q) \ ToSet(o)
    BY <2>2, <2>4, <2>5, OrderOfSet
  <2>7. PICK full \in Seq(Ids) : full = o \o tail
    BY <1>0, <2>6, ConcatProperties
  <2>8. /\ Len(full) = Len(o) + Len(tail) /\ Len(tail) \in Nat /\ DOMAIN full = 1..Len(full)
        /\ DOMAIN tail = 1..Len(tail)
        /\ \A i \in 1..Len(full) : full[i] = IF i <= Len(o) THEN o[i] ELSE tail[i - Len(o)]
    BY <1>0, <2>6, <2>7, ConcatProperties
  <2>9. \A i \in 1..Len(full) : \/ i \in 1..Len(o) /\ full[i] = o[i] /\ full[i] \in ToSet(o)
                                \/ /\ i - Len(o) \in 1..Len(tail) /\ full[i] = tail[i - Len(o)]
                                   /\ full[i] \in InQueue(q) \ ToSet(o)
    <3>1. ASSUME NEW i \in 1..Len(full)
          PROVE  \/ i \in 1..Len(o) /\ full[i] = o[i]
                 \/ i - Len(o) \in 1..Len(tail) /\ full[i] = tail[i - Len(o)]
      BY <1>0, <2>8
    <3>2. \A i \in 1..Len(o) : o[i] \in ToSet(o)
      BY <1>0 DEF ToSet
    <3>3. \A i \in 1..Len(tail) : tail[i] \in InQueue(q) \ ToSet(o)
      BY <2>6, <2>8 DEF ToSet
    <3> QED  BY <3>1, <3>2, <3>3
  <2>10. Injective(full)
    <3> SUFFICES ASSUME NEW i \in 1..Len(full), NEW j \in 1..Len(full), full[i] = full[j]
                 PROVE  i = j
      BY <2>8 DEF Injective
    <3>1. CASE full[i] \in ToSet(o)
      <4>1. i \in 1..Len(o) /\ j \in 1..Len(o) /\ o[i] = o[j]
        BY <2>9, <3>1
      <4> QED  BY <1>0, <4>1 DEF Injective
    <3>2. CASE full[i] \notin ToSet(o)
      <4>1. /\ i - Len(o) \in 1..Len(tail) /\ j - Len(o) \in 1..Len(tail)
            /\ tail[i - Len(o)] = tail[j - Len(o)]
        BY <2>9, <3>2
      <4>2. i - Len(o) = j - Len(o)
        BY <2>6, <2>8, <4>1 DEF Injective
      <4> QED  BY <1>0, <4>2
    <3> QED  BY <3>1, <3>2
  <2>11. ToSet(full) \subseteq InQueue(q)
    BY <1>0, <2>8, <2>9 DEF ToSet
  <2>12. order' = full /\ Nxt(kept \o tail) = Nxt(full)
    BY <2>1, <2>4, <2>7
  <2>13. CASE Nxt(full) = 0
    <3>1. pos' = ix /\ gen' = gen
      BY <2>3, <2>4, <2>12, <2>13 DEF requestVars
    <3>2. order' = o
      <4>1. CASE full = <<>>
        <5>1. o \o tail = <<>> <=> o = <<>> /\ tail = <<>>
          BY <1>0, <2>6, ConcatEqualIffEmpty
        <5> QED  BY <2>7, <2>12, <4>1, <5>1
      <4>2. CASE full # <<>>
        <5>1. Len(full) \in Nat /\ Len(full) > 0 /\ ShuffleNext(ix, Len(full)) = 0
          BY <2>3, <2>13, <4>2, EmptySeq
        <5>2. ix >= Len(full)
          BY <1>0, <5>1, ShuffleNextInside
        <5>3. Len(tail) = 0
          BY <1>0, <2>8, <5>2
        <5>4. tail = <<>>
          BY <2>6, <5>3
        <5> QED  BY <1>0, <2>6, <2>7, <2>12, <5>4, ConcatEqualIffEmpty
      <4> QED  BY <4>1, <4>2
    <3> QED
      BY <1>2, <3>1, <3>2
  <2>14. CASE Nxt(full) # 0
    <3>1. Nxt(full) \in 1..Len(full)
      <4>1. Len(full) \in Nat /\ Len(full) > 0 /\ full # <<>>
        BY <2>14, EmptySeq
      <4>2. ShuffleNext(ix, Len(full)) \in 0..Len(full)
        BY <1>0, <4>1, ShuffleNextInside
      <4> QED  BY <2>3, <2>14, <4>1, <4>2
    <3>2. PICK k \in 1..Len(full) : k = Nxt(full)
      BY <3>1
    <3>3. pos' = k /\ Begin(p, full[k], q, gen, pending)
      BY <2>1, <2>4, <2>7, <2>12, <2>14, <3>2
    <3>4. full[k] \in InQueue(q)
      BY <2>8, <2>11 DEF ToSet
    <3>5. gen' = gen + 1
      BY <3>3, <3>4 DEF Begin
    <3> QED
      BY <1>2, <2>7, <2>10, <2>11, <2>12, <3>3, <3>5 DEF Fits
  <2> QED
    BY <2>13, <2>14
<1> QED
  BY <1>1, <1>2

\* What is left of an order, and of the index, when a row goes.
LEMMA WithoutTyped ==
  ASSUME order \in Seq(Ids), pos \in Nat, NEW i
  PROVE  /\ OrderWithout(i) \in Seq(Ids) /\ PosWithout(i) \in Nat
         /\ ~shuffle => OrderWithout(i) = order /\ PosWithout(i) = pos
<1>1. CASE Shrunk(i)
  <2>1. PICK o \in Seq(Ids) : o = order
    OBVIOUS
  <2>2. Contains(o, i) /\ shuffle
    BY <1>1, <2>1 DEF Shrunk
  <2>3. Removed(o, i) \in Seq(Ids)
    BY <2>2, RemovedTyped
  <2> QED
    BY <1>1, <2>1, <2>2, <2>3 DEF OrderWithout, PosWithout, PosAfterRemoval
<1>2. CASE ~Shrunk(i)
  BY <1>2 DEF OrderWithout, PosWithout
<1> QED
  BY <1>1, <1>2

\* When they fitted, what is left fits what is left of the rows.
LEMMA WithoutFits ==
  ASSUME Fits(rows, order, pos), rows \in Table, ~shuffle => order = <<>>, NEW i
  PROVE  Fits(RowsWithout(i), OrderWithout(i), PosWithout(i))
<1>0. /\ order \in Seq(Ids) /\ Injective(order) /\ ToSet(order) \subseteq InQueue(rows)
      /\ pos \in 0..Len(order) /\ Len(order) \in Nat
  BY DEF Fits
<1>1. InQueue(RowsWithout(i)) = InQueue(rows) \ {i}
  BY DEF RowsWithout, InQueue, Table
<1>2. CASE Shrunk(i)
  <2>1. PICK o \in Seq(Ids) : o = order
    BY <1>0
  <2>2. Contains(o, i)
    BY <1>2, <2>1 DEF Shrunk
  <2>3. /\ Removed(o, i) \in Seq(Ids) /\ Len(Removed(o, i)) = Len(o) - 1
        /\ Injective(Removed(o, i)) /\ ToSet(Removed(o, i)) \subseteq ToSet(o) \ {i}
    BY <1>0, <2>1, <2>2, RemovedTyped
  <2>4. IndexOf(o, i) \in 1..Len(o)
    BY <2>2, IndexFinds
  <2>5. PosAfterRemoval(IndexOf(o, i), pos) \in 0..(Len(o) - 1)
    BY <1>0, <2>1, <2>4 DEF PosAfterRemoval
  <2>6. OrderWithout(i) = Removed(o, i) /\ PosWithout(i) = PosAfterRemoval(IndexOf(o, i), pos)
    BY <1>2, <2>1 DEF OrderWithout, PosWithout
  <2> QED
    BY <1>0, <1>1, <2>1, <2>3, <2>5, <2>6 DEF Fits
<1>3. CASE ~Shrunk(i)
  <2>1. OrderWithout(i) = order /\ PosWithout(i) = pos
    BY <1>3 DEF OrderWithout, PosWithout
  <2>2. i \notin ToSet(order)
    <3>1. CASE shuffle /\ i \in ToSet(order)
      <4>1. i \in InQueue(rows)
        BY <1>0, <3>1
      <4>2. Contains(order, i)
        BY <1>0, <3>1 DEF ToSet, Contains
      <4> QED  BY <1>3, <3>1, <4>1, <4>2 DEF Shrunk
    <3>2. CASE ~shuffle
      BY <3>2 DEF ToSet
    <3> QED  BY <3>1, <3>2
  <2> QED
    BY <1>0, <1>1, <2>1, <2>2 DEF Fits
<1> QED
  BY <1>2, <1>3

-----------------------------------------------------------------------------
(* How the order and the index into it change *)

\* Nothing moves, and no row goes.
OrderKept == UNCHANGED <<shuffle, order, pos>> /\ InQueue(rows) \subseteq InQueue(rows')
\* The index moves inside the order.
IndexMoved == UNCHANGED <<rows, shuffle, order>> /\ shuffle /\ pos' \in 1..Len(order)
\* A row goes, from the order too; the index may move on inside what is left.
RowRemoved == \E i : /\ rows' = RowsWithout(i) /\ order' = OrderWithout(i) /\ shuffle' = shuffle
                     /\ pos' = PosWithout(i) \/ (shuffle /\ pos' \in 1..Len(order'))
\* The automatic next, after a row went or without that.
OrderAdvanced == /\ shuffle' = shuffle
                 /\ \E p, start, n :
                      \/ rows' = rows /\ AutoNext(p, start, rows, order, pos, n)
                      \/ \E i : /\ rows' = RowsWithout(i)
                                /\ AutoNext(p, start, rows', OrderWithout(i), PosWithout(i), n)
OrderEmptied == shuffle' = shuffle /\ order' = <<>> /\ pos' = 0
Reshuffled == /\ rows' = rows /\ shuffle' \in BOOLEAN
              /\ order' \in SetToSeqs(IF shuffle' THEN InQueue(rows) ELSE {})
              /\ pos' = IF Contains(order', now.item) THEN IndexOf(order', now.item) ELSE 0
DeleteStep == \E p \in Procs : \/ \E i \in Ids : Delete(p, i)
                               \/ DeleteFromOrder(p) \/ DeleteFixPos(p)

OrderStep == \/ OrderKept \/ IndexMoved \/ RowRemoved \/ OrderAdvanced
             \/ OrderEmptied \/ Reshuffled \/ DeleteStep

\* A row that is added takes none away.
LEMMA InsertKeepsRows ==
  ASSUME RequestsTyped, NEW t \in Tracks, Insert(t)
  PROVE  InQueue(rows) \subseteq InQueue(rows')
BY InsertTyped, TrackAssumption DEF InQueue, RequestsTyped, Table

\* The head of an enqueue moves nothing.
LEMMA StartEnqueueKeepsOrder ==
  ASSUME RequestsTyped, NEW p, NEW t \in Tracks, NEW route, StartEnqueue(p, t, route)
  PROVE  OrderKept
<1>1. CASE Insert(t)
  BY <1>1, InsertKeepsRows DEF StartEnqueue, shuffleVars, OrderKept
<1>2. CASE rows' = rows
  BY <1>2 DEF StartEnqueue, shuffleVars, OrderKept
<1> QED
  BY <1>1, <1>2 DEF StartEnqueue

\* Where a request takes over, the index moves to its row if the order lists it.
LEMMA TakeOverMoves ==
  ASSUME order \in Seq(Ids), NEW i, UNCHANGED <<rows, shuffle, order>>, pos' = PosOnTakeOver(i)
  PROVE  OrderKept \/ IndexMoved
<1>1. PICK o \in Seq(Ids) : o = order
  OBVIOUS
<1>2. CASE shuffle /\ Contains(o, i)
  <2>1. IndexOf(o, i) \in 1..Len(o)
    BY <1>2, IndexFinds
  <2> QED
    BY <1>1, <1>2, <2>1 DEF PosOnTakeOver, IndexMoved
<1>3. CASE ~(shuffle /\ Contains(o, i))
  BY <1>1, <1>3 DEF PosOnTakeOver, OrderKept
<1> QED
  BY <1>2, <1>3

\* Every step is one of those of the order.
LEMMA StepOfOrder ==
  ASSUME RequestsTyped, order \in Seq(Ids), pos \in Nat, [Next]_vars
  PROVE  OrderStep
<1> SUFFICES ASSUME ~DeleteStep
             PROVE  OrderKept \/ IndexMoved \/ RowRemoved \/ OrderAdvanced \/ OrderEmptied \/ Reshuffled
  BY DEF OrderStep
<1> DEFINE Goal == OrderKept \/ IndexMoved \/ RowRemoved \/ OrderAdvanced \/ OrderEmptied \/ Reshuffled
<1>0. order \in Seq(Ids) /\ DOMAIN order = 1..Len(order)
  OBVIOUS
<1>1. ASSUME NEW p \in Procs, Command(p)  PROVE Goal
  <2>1. ASSUME NEW i \in Ids, PlayItem(p, i)  PROVE Goal
    BY <2>1 DEF PlayItem, shuffleVars, OrderKept
  <2>2. ASSUME NEW i \in Ids, Delete(p, i)  PROVE FALSE
    BY <2>2 DEF DeleteStep
  <2>3. CASE PlayFirst(p) \/ VoicePlay(p) \/ VoicePause(p) \/ ChatResume(p) \/ ChatStop(p) \/ ClearFails(p)
    BY <2>3 DEF PlayFirst, VoicePlay, VoicePause, ChatResume, ChatStop, ClearFails, shuffleVars, OrderKept
  <2>4. CASE VoicePrevious(p)
    <3>1. CASE UNCHANGED pos
      BY <2>4, <3>1 DEF VoicePrevious, OrderKept
    <3>2. CASE ~UNCHANGED pos
      BY <1>0, <2>4, <3>2 DEF VoicePrevious, IndexMoved
    <3> QED  BY <3>1, <3>2
  <2>5. CASE VoiceNext(p)
    <3> DEFINE i  == Active
               o  == OrderWithout(i)
               ix == PosWithout(i)
    <3>1. o \in Seq(Ids) /\ ix \in Nat
      BY WithoutTyped
    <3>2. rows' = RowsWithout(i) /\ order' = o /\ shuffle' = shuffle
      BY <2>5 DEF VoiceNext
    <3>3. pos' = ix \/ (shuffle /\ o # <<>> /\ pos' = ShuffleNext(ix, Len(o)) /\ pos' # 0)
      BY <2>5 DEF VoiceNext
    <3> HIDE DEF o, ix
    <3>4. CASE pos' = ix
      BY <3>2, <3>4 DEF RowRemoved, o, ix
    <3>5. CASE shuffle /\ o # <<>> /\ pos' = ShuffleNext(ix, Len(o)) /\ pos' # 0
      <4>1. PICK m \in Nat : m = Len(o) /\ m > 0
        BY <3>1, <3>5, EmptySeq
      <4>2. ShuffleNext(ix, m) \in 0..m
        BY <3>1, <4>1, ShuffleNextInside
      <4>3. pos' \in 1..Len(o)
        BY <3>5, <4>1, <4>2
      <4> QED
        BY <3>2, <3>5, <4>3 DEF RowRemoved, o
    <3> QED
      BY <3>3, <3>4, <3>5
  <2>6. CASE VoiceSkip(p)
    <3>1. CASE Active # NoItem
      BY <2>6, <3>1 DEF VoiceSkip, RowRemoved
    <3>2. CASE Active = NoItem
      BY <2>6, <3>2 DEF VoiceSkip, OrderKept
    <3> QED  BY <3>1, <3>2
  <2>7. ASSUME NEW stop \in BOOLEAN, Clear(p, stop)  PROVE Goal
    BY <2>7 DEF Clear, OrderEmptied
  <2>8. ASSUME NEW t \in Tracks, NEW route, Enqueue(p, t, route) \/ Replay(p, t, route)
        PROVE  Goal
    BY <2>8, StartEnqueueKeepsOrder DEF Enqueue, Replay
  <2>9. ASSUME NEW t \in Tracks, LookUp(p, t)  PROVE Goal
    BY <2>9 DEF LookUp, shuffleVars, OrderKept
  <2>10. ASSUME NEW on \in BOOLEAN, SetShuffle(p, on)  PROVE Goal
    BY <2>10 DEF SetShuffle, Reshuffled
  <2>11. ASSUME NEW mode \in Modes, SetRepeat(p, mode)  PROVE Goal
    BY <2>11 DEF SetRepeat, OrderKept
  <2> HIDE DEF Goal
  <2> QED
    BY <1>1, <2>1, <2>2, <2>3, <2>4, <2>5, <2>6, <2>7, <2>8, <2>9, <2>10, <2>11 DEF Command
<1>2. ASSUME NEW p \in Procs, Continue(p)  PROVE Goal
  <2>0. HandlerOK(h[p])
    BY DEF RequestsTyped
  <2>1. CASE Resolved(p)
    <3>1. CASE TakeOver(p)
      <4>1. OrderKept \/ IndexMoved
        BY <2>1, <3>1, TakeOverMoves DEF Resolved, TakeOver
      <4> QED  BY <4>1
    <3>2. CASE GiveUp(p)
      BY <2>1, <3>2 DEF Resolved, GiveUp, OrderKept
    <3> QED  BY <2>1, <3>1, <3>2 DEF Resolved
  <2>2. CASE Played(p)
    BY <2>2 DEF Played, GiveUp, OrderKept
  <2>3. CASE LookedUp(p)
    <3>1. h[p].track \in Tracks
      BY <2>0, <2>3 DEF LookedUp, HandlerOK
    <3>2. CASE \E route \in Routes(p) : StartEnqueue(p, h[p].track, route)
      BY <3>1, <3>2, StartEnqueueKeepsOrder
    <3>3. CASE UNCHANGED <<rows, shuffleVars>>
      BY <3>3 DEF shuffleVars, OrderKept
    <3> QED  BY <2>3, <3>2, <3>3 DEF LookedUp
  <2>4. CASE FetchedAdd(p)
    <3>1. h[p].track \in Tracks
      BY <2>0, <2>4 DEF FetchedAdd, HandlerOK
    <3>2. InQueue(rows) \subseteq InQueue(rows')
      BY <2>4, <3>1, InsertKeepsRows DEF FetchedAdd
    <3> QED  BY <2>4, <3>2 DEF FetchedAdd, shuffleVars, OrderKept
  <2>5. CASE Fetched(p)
    <3>1. h[p].track \in Tracks
      BY <2>0, <2>5 DEF Fetched, HandlerOK
    <3>2. InQueue(rows) \subseteq InQueue(rows')
      BY <2>5, <3>1, InsertKeepsRows DEF Fetched
    <3> QED  BY <2>5, <3>2 DEF Fetched, shuffleVars, OrderKept
  <2>6. CASE Done(p)
    BY <2>6 DEF Done, shuffleVars, OrderKept
  <2>7. CASE Skipped(p) \/ Noticed(p) \/ StatusRead(p) \/ StatusReadAuto(p)
    <3>1. rows' = rows /\ shuffle' = shuffle
      BY <2>7 DEF Skipped, Noticed, StatusRead, StatusReadAuto
    <3>2. CASE UNCHANGED <<order, pos>>
      BY <3>1, <3>2 DEF OrderKept
    <3>3. CASE \E start, n : AutoNext(p, start, rows, order, pos, n)
      BY <3>1, <3>3 DEF OrderAdvanced
    <3> QED
      BY <2>7, <3>2, <3>3 DEF Skipped, Noticed, StatusRead, StatusReadAuto
  <2>8. ASSUME DeleteFromOrder(p) \/ DeleteFixPos(p)  PROVE FALSE
    BY <2>8 DEF DeleteStep
  <2> HIDE DEF Goal
  <2> QED
    BY <1>2, <2>1, <2>2, <2>3, <2>4, <2>5, <2>6, <2>7, <2>8 DEF Continue
<1>3. CASE HandleEvent
  <2>1. CASE EventIgnored
    BY <2>1 DEF EventIgnored, shuffleVars, OrderKept
  <2>2. CASE PlaybackFinished
    <3>1. shuffle' = shuffle
      BY <2>2 DEF PlaybackFinished
    <3>2. CASE UNCHANGED <<rows, order, pos>>
      BY <3>1, <3>2 DEF OrderKept
    <3>3. CASE rows' = rows /\ \E start, n : AutoNext(Worker, start, rows, order, pos, n)
      BY <3>1, <3>3 DEF OrderAdvanced
    <3>4. CASE \E i : /\ rows' = RowsWithout(i)
                      /\ AutoNext(Worker, NoItem, rows', OrderWithout(i), PosWithout(i), Nothing)
      BY <3>1, <3>4 DEF OrderAdvanced
    <3> QED
      BY <2>2, <3>2, <3>3, <3>4 DEF PlaybackFinished
  <2>3. CASE PlaybackError
    BY <2>3 DEF PlaybackError, RowRemoved
  <2> QED
    BY <1>3, <2>1, <2>2, <2>3 DEF HandleEvent
<1>4. CASE VoiceService
  BY <1>4 DEF VoiceService, Serve, CallLost, LoopEnds, EventsLost, shuffleVars, OrderKept
<1>5. CASE UNCHANGED vars
  BY <1>5 DEF vars, shuffleVars, OrderKept
<1> QED
  BY <1>1, <1>2, <1>3, <1>4, <1>5 DEF Next, Backend

\* The order lists ids, the index is a number, and so is the one a deletion keeps.
OrderTyped ==
  /\ order \in Seq(Ids) /\ pos \in Nat
  /\ \A p \in Procs : h[p].at = "delPos" => h[p].arg \in Nat

\* Every step keeps that.
LEMMA OrderStepTyped ==
  ASSUME RequestsTyped, OrderTyped, OrderStep, HandlerStep
  PROVE  OrderTyped'
<1>0. order \in Seq(Ids) /\ pos \in Nat /\ rows \in Table /\ DOMAIN h = Procs
  BY DEF OrderTyped, RequestsTyped, Table
<1>1. order' \in Seq(Ids) /\ pos' \in Nat
  <2>1. CASE OrderKept
    BY <1>0, <2>1 DEF OrderKept
  <2>2. CASE IndexMoved
    BY <1>0, <2>2 DEF IndexMoved
  <2>3. CASE RowRemoved
    BY <1>0, <2>3, WithoutTyped DEF RowRemoved
  <2>4. CASE OrderAdvanced
    <3>1. PICK p, start, n : \/ rows' = rows /\ AutoNext(p, start, rows, order, pos, n)
                             \/ \E i : /\ rows' = RowsWithout(i)
                                       /\ AutoNext(p, start, rows', OrderWithout(i), PosWithout(i), n)
      BY <2>4 DEF OrderAdvanced
    <3>2. CASE AutoNext(p, start, rows, order, pos, n)
      BY <1>0, <3>2, AutoNextOrder
    <3>3. ASSUME NEW i, rows' = RowsWithout(i),
                 AutoNext(p, start, rows', OrderWithout(i), PosWithout(i), n)
          PROVE  order' \in Seq(Ids) /\ pos' \in Nat
      <4>1. OrderWithout(i) \in Seq(Ids) /\ PosWithout(i) \in Nat /\ rows' \in Table
        BY <1>0, <3>3, WithoutTyped, RowsWithoutTyped
      <4> QED
        BY <3>3, <4>1, AutoNextOrder
    <3> QED
      BY <3>1, <3>2, <3>3
  <2>5. CASE OrderEmptied
    BY <2>5, EmptySeq DEF OrderEmptied
  <2>6. CASE Reshuffled
    <3>1. PICK S \in SUBSET Ids : order' \in SetToSeqs(S)
      BY <2>6 DEF Reshuffled, InQueue
    <3>2. PICK o \in Seq(Ids) : o = order'
      BY <3>1, OrderOfSet
    <3>3. Contains(o, now.item) => IndexOf(o, now.item) \in Nat
      BY IndexFinds
    <3> QED
      BY <2>6, <3>2, <3>3 DEF Reshuffled
  <2>7. CASE DeleteStep
    <3>1. PICK p \in Procs : (\E i \in Ids : Delete(p, i)) \/ DeleteFromOrder(p) \/ DeleteFixPos(p)
      BY <2>7 DEF DeleteStep
    <3>2. CASE \E i \in Ids : Delete(p, i)
      BY <1>0, <3>2 DEF Delete, shuffleVars
    <3>3. CASE DeleteFixPos(p)
      BY <1>0, <3>3 DEF DeleteFixPos, PosAfterRemoval
    <3>4. CASE DeleteFromOrder(p)
      <4>1. PICK o \in Seq(Ids) : o = order
        BY <1>0
      <4>2. Contains(o, h[p].arg) => Removed(o, h[p].arg) \in Seq(Ids)
        BY RemovedTyped
      <4> QED
        BY <1>0, <3>4, <4>1, <4>2 DEF DeleteFromOrder
    <3> QED  BY <3>1, <3>2, <3>3, <3>4
  <2> QED
    BY <2>1, <2>2, <2>3, <2>4, <2>5, <2>6, <2>7 DEF OrderStep
<1>2. ASSUME NEW q \in Procs, h'[q].at = "delPos"  PROVE h'[q].arg \in Nat
  <2>1. CASE h' = h
    BY <1>2, <2>1 DEF OrderTyped
  <2>2. CASE \E p \in Procs, x \in Replies : h' = [h EXCEPT ![p].reply = x]
    <3>1. HandlerOK(h[q])
      BY DEF RequestsTyped
    <3>2. h'[q].at = h[q].at /\ h'[q].arg = h[q].arg
      BY <1>0, <2>2, <3>1 DEF HandlerOK, Idle
    <3> QED  BY <1>2, <3>2 DEF OrderTyped
  <2>3. CASE \E p \in Procs : \E r : h' = [h EXCEPT ![p] = r] /\ r.at \notin {"delOrder", "delPos"}
    BY <1>0, <1>2, <2>3 DEF OrderTyped
  <2>4. ASSUME NEW p \in Procs, NEW i \in Ids, Delete(p, i)  PROVE h'[q].arg \in Nat
    <3>1. q # p
      BY <1>0, <1>2, <2>4 DEF Delete, Await, Idle
    <3> QED
      BY <1>0, <1>2, <2>4, <3>1 DEF Delete, Await, OrderTyped
  <2>5. ASSUME NEW p \in Procs, DeleteFromOrder(p)  PROVE h'[q].arg \in Nat
    <3>1. CASE q # p
      BY <1>0, <1>2, <2>5, <3>1 DEF DeleteFromOrder, Await, Finish, OrderTyped
    <3>2. CASE q = p
      <4>1. ~Finish(p)
        BY <1>0, <1>2, <3>2 DEF Finish, Idle
      <4>2. Contains(order, h[p].arg) /\ h'[p].arg = IndexOf(order, h[p].arg)
        BY <1>0, <2>5, <4>1 DEF DeleteFromOrder, Await, Idle
      <4>3. PICK o \in Seq(Ids) : o = order
        BY <1>0
      <4>4. IndexOf(o, h[p].arg) \in Nat
        BY <4>2, <4>3, IndexFinds
      <4> QED  BY <3>2, <4>2, <4>3, <4>4
    <3> QED  BY <3>1, <3>2
  <2> QED
    BY <2>1, <2>2, <2>3, <2>4, <2>5 DEF HandlerStep
<1> QED
  BY <1>1, <1>2 DEF OrderTyped

ModesTyped == shuffle \in BOOLEAN /\ repeat \in Modes

\* Every step keeps the modes.
LEMMA StepOfModes ==
  ASSUME ModesTyped, OrderStep, [Next]_vars
  PROVE  ModesTyped'
<1>1. shuffle' \in BOOLEAN
  BY DEF OrderStep, OrderKept, IndexMoved, RowRemoved, OrderAdvanced, OrderEmptied, Reshuffled,
         DeleteStep, Delete, DeleteFromOrder, DeleteFixPos, shuffleVars, ModesTyped
<1>2. repeat' \in Modes
  <2>0. SUFFICES ASSUME repeat' # repeat  PROVE repeat' \in Modes
    BY DEF ModesTyped
  <2>1. ASSUME NEW p \in Procs, Command(p)  PROVE repeat' \in Modes
    <3>1. ASSUME NEW i, PlayItem(p, i) \/ Delete(p, i)  PROVE FALSE
      BY <2>0, <3>1 DEF PlayItem, Delete, shuffleVars
    <3>2. ASSUME PlayFirst(p) \/ VoiceNext(p) \/ VoiceSkip(p) \/ VoicePrevious(p) \/ ChatStop(p) \/ ClearFails(p)
          PROVE  FALSE
      BY <2>0, <3>2 DEF PlayFirst, VoiceNext, VoiceSkip, VoicePrevious, ChatStop, ClearFails, shuffleVars
    <3>3. ASSUME NEW stop, Clear(p, stop)  PROVE FALSE
      BY <2>0, <3>3 DEF Clear
    <3>4. ASSUME NEW t, NEW route, Enqueue(p, t, route) \/ Replay(p, t, route) \/ LookUp(p, t)  PROVE FALSE
      BY <2>0, <3>4 DEF Enqueue, Replay, StartEnqueue, LookUp, shuffleVars
    <3>5. ASSUME VoicePlay(p) \/ VoicePause(p) \/ ChatResume(p)  PROVE FALSE
      BY <2>0, <3>5 DEF VoicePlay, VoicePause, ChatResume, shuffleVars
    <3>6. ASSUME NEW on, SetShuffle(p, on)  PROVE FALSE
      BY <2>0, <3>6 DEF SetShuffle
    <3>7. ASSUME NEW mode \in Modes, SetRepeat(p, mode)  PROVE repeat' \in Modes
      BY <3>7 DEF SetRepeat
    <3> QED
      BY <2>1, <3>1, <3>2, <3>3, <3>4, <3>5, <3>6, <3>7 DEF Command
  <2>2. ASSUME NEW p \in Procs, Continue(p)  PROVE FALSE
    <3>1. ASSUME Resolved(p) \/ Played(p) \/ LookedUp(p) \/ FetchedAdd(p) \/ Fetched(p) \/ Done(p)  PROVE FALSE
      BY <2>0, <3>1 DEF Resolved, Played, LookedUp, StartEnqueue, FetchedAdd, Fetched, Done, shuffleVars
    <3>2. ASSUME \/ Skipped(p) \/ Noticed(p) \/ StatusRead(p) \/ StatusReadAuto(p)
                 \/ DeleteFromOrder(p) \/ DeleteFixPos(p)
          PROVE  FALSE
      BY <2>0, <3>2 DEF Skipped, Noticed, StatusRead, StatusReadAuto, DeleteFromOrder, DeleteFixPos
    <3> QED
      BY <2>2, <3>1, <3>2 DEF Continue
  <2>3. ASSUME HandleEvent  PROVE FALSE
    BY <2>0, <2>3 DEF HandleEvent, EventIgnored, PlaybackFinished, PlaybackError, shuffleVars
  <2>4. ASSUME VoiceService  PROVE FALSE
    BY <2>0, <2>4 DEF VoiceService, Serve, CallLost, LoopEnds, EventsLost, shuffleVars
  <2>5. ASSUME UNCHANGED vars  PROVE FALSE
    BY <2>0, <2>5 DEF vars, shuffleVars
  <2> QED
    BY <2>1, <2>2, <2>3, <2>4, <2>5 DEF Next, Backend
<1> QED
  BY <1>1, <1>2 DEF ModesTyped

AllTyped == RequestsTyped /\ VoiceTyped /\ CallsTyped /\ OrderTyped /\ ModesTyped

\* Every variable has its type, whatever fails, is lost or overtakes.
LEMMA AllTypedInvariant == Spec => []AllTyped
<1>1. Init => AllTyped
  <2> SUFFICES ASSUME Init  PROVE AllTyped
    OBVIOUS
  <2>1. CallsTyped
    BY BoundAssumption, EmptySeq DEF Init, CallsTyped, Nowhere
  <2>2. OrderTyped
    BY EmptySeq DEF Init, OrderTyped, Idle
  <2>3. ModesTyped
    BY ModeAssumption DEF Init, ModesTyped
  <2> QED
    BY <2>1, <2>2, <2>3, InitTyped DEF AllTyped
<1>2. AllTyped /\ [Next]_vars => AllTyped'
  <2> SUFFICES ASSUME AllTyped, [Next]_vars  PROVE AllTyped'
    OBVIOUS
  <2>1. RequestsTyped /\ VoiceTyped /\ CallsTyped /\ OrderTyped /\ ModesTyped
    BY DEF AllTyped
  <2>2. CallStep /\ HandlerStep /\ OrderStep
    BY <2>1, StepOfCalls, StepOfHandlers, StepOfOrder DEF OrderTyped
  <2> QED
    BY <2>1, <2>2, StepTyped, CallStepKeeps, OrderStepTyped, StepOfModes DEF AllTyped
<1> QED
  BY <1>1, <1>2, PTL DEF Spec

\* The type invariant: every variable has its type and every counter its bound, for any
\* number of requests and rows, whatever fails, is lost or comes out of order.
THEOREM TypeCorrect == Spec => []TypeOK
<1>1. AllTyped => TypeOK
  <2> SUFFICES ASSUME AllTyped  PROVE TypeOK
    OBVIOUS
  <2>1. \A k \in DOMAIN events : events[k].type \in {"finished", "error"} /\ events[k].src \in Tracks
    <3>1. \A k \in DOMAIN events : events[k] \in Event
      BY DEF AllTyped, CallsTyped
    <3> QED  BY <3>1 DEF Event
  <2>2. ToSet(order) \subseteq Ids
    BY DEF AllTyped, OrderTyped, ToSet
  <2> QED
    BY <2>1, <2>2 DEF AllTyped, TypeOK, CallsTyped, OrderTyped, ModesTyped
<1> QED
  BY <1>1, AllTypedInvariant, PTL

-----------------------------------------------------------------------------
(* The index follows what plays *)

\* What the order and the index promise while nothing is deleted from a thread.
OrderFits ==
  /\ Fits(rows, order, pos)
  /\ ~shuffle => order = <<>> /\ pos = 0
  /\ \A p \in Procs : h[p].at \notin {"delOrder", "delPos"}

Follows == took = gen /\ Contains(order, now.item) => pos > 0 /\ order[pos] = now.item

\* The order of no rows at all is empty.
LEMMA NoRowsNoOrder ==
  ASSUME NEW o \in SetToSeqs({})
  PROVE  o = <<>>
<1>1. o \in Seq(Ids) /\ ToSet(o) \subseteq {}
  BY OrderOfSet
<1>2. ASSUME Len(o) # 0  PROVE FALSE
  <2>1. 1 \in DOMAIN o
    BY <1>1, <1>2
  <2> QED  BY <1>1, <2>1 DEF ToSet
<1> QED
  BY <1>1, <1>2

\* Every step keeps the order and the index fitting.
LEMMA OrderFitsStep ==
  ASSUME "delete" \notin Ops, AllTyped, OrderFits, [Next]_vars
  PROVE  OrderFits'
<1>0. /\ rows \in Table /\ order \in Seq(Ids) /\ pos \in Nat /\ gen \in Nat /\ DOMAIN h = Procs
      /\ Fits(rows, order, pos) /\ (~shuffle => order = <<>> /\ pos = 0)
      /\ RequestsTyped /\ VoiceTyped /\ shuffle \in BOOLEAN
  BY DEF AllTyped, RequestsTyped, OrderTyped, OrderFits, Table, ModesTyped
<1>1. OrderStep /\ HandlerStep
  BY <1>0, StepOfOrder, StepOfHandlers
<1>2. ASSUME NEW p \in Procs, NEW i, Delete(p, i)  PROVE FALSE
  BY <1>2 DEF Delete, User
<1>3. ASSUME NEW p \in Procs, DeleteFromOrder(p) \/ DeleteFixPos(p)  PROVE FALSE
  BY <1>3 DEF DeleteFromOrder, DeleteFixPos, OrderFits
<1>4. \A q \in Procs : h'[q].at \notin {"delOrder", "delPos"}
  <2>1. CASE h' = h
    BY <2>1 DEF OrderFits
  <2>2. CASE \E p \in Procs, x \in Replies : h' = [h EXCEPT ![p].reply = x]
    <3>1. \A q \in Procs : HandlerOK(h[q])
      BY <1>0 DEF RequestsTyped
    <3>2. \A q \in Procs : h'[q].at = h[q].at
      BY <1>0, <2>2, <3>1 DEF HandlerOK, Idle
    <3> QED  BY <3>2 DEF OrderFits
  <2>3. CASE \E p \in Procs : \E r : h' = [h EXCEPT ![p] = r] /\ r.at \notin {"delOrder", "delPos"}
    BY <1>0, <2>3 DEF OrderFits
  <2> QED
    BY <1>1, <1>2, <1>3, <2>1, <2>2, <2>3 DEF HandlerStep
<1>5. Fits(rows', order', pos') /\ (~shuffle' => order' = <<>> /\ pos' = 0)
  <2>1. CASE OrderKept
    BY <1>0, <2>1 DEF OrderKept, Fits
  <2>2. CASE IndexMoved
    BY <1>0, <2>2 DEF IndexMoved, Fits
  <2>3. CASE RowRemoved
    <3>1. PICK i : /\ rows' = RowsWithout(i) /\ order' = OrderWithout(i) /\ shuffle' = shuffle
                   /\ pos' = PosWithout(i) \/ (shuffle /\ pos' \in 1..Len(order'))
      BY <2>3 DEF RowRemoved
    <3>2. Fits(RowsWithout(i), OrderWithout(i), PosWithout(i))
      BY <1>0, WithoutFits
    <3>3. ~shuffle => OrderWithout(i) = order /\ PosWithout(i) = pos
      BY <1>0, WithoutTyped
    <3> QED
      BY <1>0, <3>1, <3>2, <3>3 DEF Fits
  <2>4. CASE OrderAdvanced
    <3>1. PICK p, start, n : \/ rows' = rows /\ AutoNext(p, start, rows, order, pos, n)
                             \/ \E i : /\ rows' = RowsWithout(i)
                                       /\ AutoNext(p, start, rows', OrderWithout(i), PosWithout(i), n)
      BY <2>4 DEF OrderAdvanced
    <3>2. CASE rows' = rows /\ AutoNext(p, start, rows, order, pos, n)
      BY <1>0, <2>4, <3>2, AutoNextFits DEF OrderAdvanced
    <3>3. ASSUME NEW i, rows' = RowsWithout(i),
                 AutoNext(p, start, rows', OrderWithout(i), PosWithout(i), n)
          PROVE  Fits(rows', order', pos') /\ (~shuffle' => order' = <<>> /\ pos' = 0)
      <4>1. Fits(RowsWithout(i), OrderWithout(i), PosWithout(i)) /\ RowsWithout(i) \in Table
        BY <1>0, WithoutFits, RowsWithoutTyped
      <4>2. ~shuffle => OrderWithout(i) = order /\ PosWithout(i) = pos
        BY <1>0, WithoutTyped
      <4> QED
        BY <1>0, <2>4, <3>3, <4>1, <4>2, AutoNextFits DEF OrderAdvanced
    <3> QED
      BY <3>1, <3>2, <3>3
  <2>5. CASE OrderEmptied
    BY <2>5, EmptySeq DEF OrderEmptied, Fits, Injective, ToSet
  <2>6. CASE Reshuffled
    <3>1. PICK S \in SUBSET InQueue(rows) : order' \in SetToSeqs(S) /\ (~shuffle' => S = {})
      BY <2>6 DEF Reshuffled
    <3>2. S \in SUBSET Ids
      BY DEF InQueue
    <3>3. PICK o : o = order'
      OBVIOUS
    <3>4. o \in Seq(Ids) /\ Injective(o) /\ ToSet(o) \subseteq S
      BY <3>1, <3>2, <3>3, OrderOfSet
    <3>5. pos' \in 0..Len(o)
      BY <2>6, <3>3, <3>4, IndexFinds DEF Reshuffled
    <3>6. ~shuffle' => o = <<>>
      BY <3>1, <3>3, NoRowsNoOrder
    <3>7. ~shuffle' => pos' = 0
      BY <3>5, <3>6, EmptySeq
    <3>8. rows' = rows
      BY <2>6 DEF Reshuffled
    <3> QED
      BY <3>3, <3>4, <3>5, <3>6, <3>7, <3>8 DEF Fits
  <2> QED
    BY <1>1, <1>2, <1>3, <2>1, <2>2, <2>3, <2>4, <2>5, <2>6 DEF OrderStep, DeleteStep
<1> QED
  BY <1>4, <1>5 DEF OrderFits

\* What a step does to the newest request, to what plays and to the index: a newer request
\* is made; nothing of them changes; or the index is where the track that plays is listed.
FollowStep ==
  \/ took' = took /\ gen' > gen
  \/ UNCHANGED <<order, pos, gen, took>> /\ now'.item = now.item
  \/ Contains(order', now'.item) => pos' > 0 /\ order'[pos'] = now'.item

\* No row has the id that stands for none.
LEMMA NothingIsListed ==
  ASSUME NEW o \in Seq(Ids)
  PROVE  ~Contains(o, NoItem)
<1>1. \A i \in 1..Len(o) : o[i] \in Ids
  OBVIOUS
<1>2. NoItem \notin Ids
  BY DEF Ids, NoItem
<1> QED
  BY <1>1, <1>2 DEF Contains

\* A request for a row raises the generation, one for no row changes nothing of it.
LEMMA BeginRaises ==
  ASSUME NEW p, NEW i, NEW q, NEW g \in Nat, NEW pd, Begin(p, i, q, g, pd)
  PROVE  gen' \in {g, g + 1} /\ (i \in InQueue(q) => gen' = g + 1)
BY DEF Begin

\* The automatic next raises it, or leaves the order and the index.
LEMMA AutoNextFollows ==
  ASSUME AllTyped, OrderFits, NEW p, NEW start, NEW n, AutoNext(p, start, rows, order, pos, n),
         now'.item = now.item, took' = took
  PROVE  FollowStep
<1>1. rows \in Table /\ gen \in Nat /\ Fits(rows, order, pos)
  BY DEF AllTyped, RequestsTyped, Table, OrderFits
<1>2. (order' = order /\ pos' = pos /\ gen' = gen) \/ gen' = gen + 1
  BY <1>1, AutoNextFits
<1> QED
  BY <1>1, <1>2 DEF FollowStep

\* Every command is such a step.
LEMMA CommandFollows ==
  ASSUME "delete" \notin Ops, AllTyped, OrderFits, OrderFits', AllTyped', NEW p \in Procs, Command(p)
  PROVE  FollowStep
<1>0. /\ gen \in Nat /\ gen + 1 \in Nat /\ gen + 1 > gen /\ order \in Seq(Ids) /\ order' \in Seq(Ids)
      /\ DOMAIN order = 1..Len(order) /\ ToSet(order) \subseteq InQueue(rows) /\ now \in NowRecord
  BY DEF AllTyped, RequestsTyped, OrderTyped, OrderFits, Fits
<1>1. ASSUME NEW i \in Ids, PlayItem(p, i)  PROVE FollowStep
  BY <1>0, <1>1, BeginRaises DEF PlayItem, shuffleVars, ghosts, FollowStep
<1>2. CASE PlayFirst(p)
  BY <1>0, <1>2, BeginRaises DEF PlayFirst, shuffleVars, ghosts, FollowStep
<1>3. CASE VoiceNext(p)
  <2>1. took' = took /\ gen' \in {gen + 1, gen + 2}
    <3>1. CASE \E i, q : Begin(p, i, q, gen + 1, NoItem)
      <4>1. gen' \in {gen + 1, (gen + 1) + 1}
        BY <1>0, <3>1, BeginRaises
      <4> QED  BY <1>0, <1>3, <4>1 DEF VoiceNext, ghosts
    <3> QED  BY <1>3, <3>1 DEF VoiceNext, ghosts
  <2> QED
    BY <1>0, <2>1 DEF FollowStep
<1>4. CASE VoiceSkip(p) \/ ChatStop(p) \/ \E stop \in BOOLEAN : Clear(p, stop)
  BY <1>0, <1>4 DEF VoiceSkip, ChatStop, Clear, ghosts, FollowStep
<1>5. CASE VoicePrevious(p)
  <2>1. took' = took /\ now' = now /\ order' = order
    BY <1>5 DEF VoicePrevious, ghosts
  <2>2. CASE pos' = pos
    <3>1. gen' \in {gen, gen + 1}
      <4>1. CASE \E i : Begin(p, i, rows, gen, pending)
        BY <1>0, <4>1, BeginRaises
      <4> QED  BY <1>5, <4>1 DEF VoicePrevious, requestVars
    <3> QED  BY <1>0, <2>1, <2>2, <3>1 DEF FollowStep
  <2>3. CASE pos' # pos
    <3>1. pos' \in DOMAIN order /\ Begin(p, order[pos'], rows, gen, pending)
      BY <1>5, <2>3 DEF VoicePrevious
    <3>2. order[pos'] \in InQueue(rows)
      BY <1>0, <3>1 DEF ToSet
    <3>3. gen' = gen + 1
      BY <1>0, <3>1, <3>2, BeginRaises
    <3> QED  BY <1>0, <2>1, <3>3 DEF FollowStep
  <2> QED  BY <2>2, <2>3
<1>6. CASE ClearFails(p) \/ VoicePlay(p)
  BY <1>6 DEF ClearFails, VoicePlay, shuffleVars, requestVars, ghosts, FollowStep
<1>7. CASE VoicePause(p) \/ ChatResume(p)
  BY <1>0, <1>7 DEF VoicePause, ChatResume, NowRecord, shuffleVars, requestVars, ghosts, FollowStep
<1>8. ASSUME NEW t \in Tracks, NEW route, StartEnqueue(p, t, route)  PROVE FollowStep
  BY <1>0, <1>8 DEF StartEnqueue, shuffleVars, requestVars, FollowStep
<1>9. ASSUME NEW t \in Tracks, LookUp(p, t)  PROVE FollowStep
  BY <1>9 DEF LookUp, shuffleVars, requestVars, ghosts, FollowStep
<1>10. ASSUME NEW on \in BOOLEAN, SetShuffle(p, on)  PROVE FollowStep
  <2>1. PICK o \in Seq(Ids) : o = order'
    BY <1>0
  <2>2. PICK x : x = now.item
    OBVIOUS
  <2>3. now'.item = x /\ pos' = IF Contains(o, x) THEN IndexOf(o, x) ELSE 0
    BY <1>10, <2>1, <2>2 DEF SetShuffle
  <2>4. Contains(o, x) => IndexOf(o, x) \in 1..Len(o) /\ o[IndexOf(o, x)] = x
    BY IndexFinds
  <2>5. Contains(o, x) => pos' > 0 /\ o[pos'] = x
    BY <2>3, <2>4
  <2> QED
    BY <2>1, <2>3, <2>5 DEF FollowStep
<1>11. ASSUME NEW mode \in Modes, SetRepeat(p, mode)  PROVE FollowStep
  BY <1>11 DEF SetRepeat, requestVars, ghosts, FollowStep
<1>12. ASSUME NEW i \in Ids, Delete(p, i)  PROVE FALSE
  BY <1>12 DEF Delete, User
<1> QED
  BY <1>1, <1>2, <1>3, <1>4, <1>5, <1>6, <1>7, <1>8, <1>9, <1>10, <1>11, <1>12
     DEF Command, Enqueue, Replay

\* So is every resumption.
LEMMA ContinueFollows ==
  ASSUME AllTyped, OrderFits, OrderFits', NEW p \in Procs, Continue(p)
  PROVE  FollowStep
<1>0. /\ RequestsTyped /\ order \in Seq(Ids) /\ ToSet(order) \subseteq InQueue(rows)
      /\ (~shuffle => order = <<>>) /\ now \in NowRecord /\ HandlerOK(h[p])
  BY DEF AllTyped, RequestsTyped, OrderTyped, OrderFits, Fits
<1>1. CASE Resolved(p)
  <2>1. CASE TakeOver(p)
    <3>1. PICK o \in Seq(Ids) : o = order
      BY <1>0
    <3>2. PICK i : i = h[p].arg
      OBVIOUS
    <3>3. order' = o /\ now'.item = i /\ pos' = PosOnTakeOver(i)
      BY <1>1, <2>1, <3>1, <3>2 DEF Resolved, TakeOver, NowPlaying
    <3>4. Contains(o, i) => shuffle
      BY <1>0, <3>1 DEF Contains
    <3>5. Contains(o, i) => pos' = IndexOf(o, i)
      BY <3>1, <3>3, <3>4 DEF PosOnTakeOver
    <3>6. Contains(o, i) => IndexOf(o, i) \in 1..Len(o) /\ o[IndexOf(o, i)] = i
      BY IndexFinds
    <3>7. Contains(o, i) => pos' > 0 /\ o[pos'] = i
      BY <3>5, <3>6
    <3> QED
      BY <3>3, <3>7 DEF FollowStep
  <2>2. CASE GiveUp(p)
    BY <1>1, <2>2 DEF Resolved, GiveUp, FollowStep
  <2> QED
    BY <1>1, <2>1, <2>2 DEF Resolved
<1>2. CASE Played(p)
  BY <1>2 DEF Played, GiveUp, FollowStep
<1>3. CASE Fetched(p)
  <2>1. CASE now' = NowPlaying(NextId, h[p].track)
    <3>1. now'.item = NextId /\ order' = order
      BY <1>3, <2>1 DEF Fetched, NowPlaying, shuffleVars
    <3>2. NextId \notin InQueue(rows)
      <4>1. NextId \in Nat /\ \A i \in InQueue(rows) : i < NextId
        BY <1>0, NextIdIsFresh
      <4> QED  BY <4>1
    <3>3. ~Contains(order, NextId)
      BY <1>0, <3>2 DEF Contains, ToSet
    <3> QED
      BY <3>1, <3>3 DEF FollowStep
  <2>2. CASE now' = now /\ took' = took
    BY <1>3, <2>2 DEF Fetched, shuffleVars, requestVars, FollowStep
  <2> QED
    BY <1>3, <2>1, <2>2 DEF Fetched
<1>4. CASE LookedUp(p)
  <2>1. gen \in Nat
    BY <1>0 DEF RequestsTyped
  <2>2. CASE \E route \in Routes(p) : StartEnqueue(p, h[p].track, route)
    BY <2>1, <2>2 DEF StartEnqueue, shuffleVars, requestVars, FollowStep
  <2>3. CASE UNCHANGED <<now, requestVars, shuffleVars, ghosts>>
    BY <2>3 DEF shuffleVars, requestVars, ghosts, FollowStep
  <2> QED
    BY <1>4, <2>2, <2>3 DEF LookedUp
<1>5. CASE FetchedAdd(p) \/ Done(p)
  BY <1>5 DEF FetchedAdd, Done, shuffleVars, requestVars, ghosts, FollowStep
<1>6. CASE Skipped(p) \/ Noticed(p) \/ StatusRead(p) \/ StatusReadAuto(p)
  <2>1. now'.item = now.item /\ took' = took
    BY <1>0, <1>6 DEF Skipped, Noticed, StatusRead, StatusReadAuto, NowRecord, ghosts
  <2>2. CASE \E start, n : AutoNext(p, start, rows, order, pos, n)
    BY <2>1, <2>2, AutoNextFollows
  <2>3. CASE UNCHANGED <<order, pos, gen>>
    BY <2>1, <2>3 DEF FollowStep
  <2> QED
    BY <1>6, <2>2, <2>3 DEF Skipped, Noticed, StatusRead, StatusReadAuto, requestVars
<1>7. ASSUME DeleteFromOrder(p) \/ DeleteFixPos(p)  PROVE FALSE
  BY <1>7 DEF DeleteFromOrder, DeleteFixPos, OrderFits
<1> QED
  BY <1>1, <1>2, <1>3, <1>4, <1>5, <1>6, <1>7 DEF Continue

\* Every step keeps the index on the track that plays.
LEMMA FollowsStep ==
  ASSUME "delete" \notin Ops, AllTyped, AllTyped', OrderFits, OrderFits', TookPast, Follows, [Next]_vars
  PROVE  Follows'
<1>1. FollowStep
  <2>1. order' \in Seq(Ids)
    BY DEF AllTyped, OrderTyped
  <2>2. CASE EventIgnored
    BY <2>2 DEF EventIgnored, shuffleVars, requestVars, ghosts, FollowStep
  <2>3. CASE PlaybackFinished \/ PlaybackError
    <3>1. now'.item = NoItem
      BY <2>3 DEF PlaybackFinished, PlaybackError, Nothing
    <3> QED
      BY <2>1, <3>1, NothingIsListed DEF FollowStep
  <2>4. CASE VoiceService
    BY <2>4 DEF VoiceService, Serve, CallLost, LoopEnds, EventsLost, shuffleVars, requestVars, ghosts, FollowStep
  <2>5. CASE UNCHANGED vars
    BY <2>5 DEF vars, shuffleVars, requestVars, ghosts, FollowStep
  <2> QED
    BY <2>2, <2>3, <2>4, <2>5, CommandFollows, ContinueFollows DEF Next, Backend, HandleEvent
<1>2. took \in Nat /\ gen \in Nat /\ gen' \in Nat
  BY DEF AllTyped, RequestsTyped
<1>3. CASE took' = took /\ gen' > gen
  BY <1>2, <1>3 DEF TookPast, Follows
<1>4. CASE UNCHANGED <<order, pos, gen, took>> /\ now'.item = now.item
  BY <1>4 DEF Follows
<1>5. CASE Contains(order', now'.item) => pos' > 0 /\ order'[pos'] = now'.item
  BY <1>5 DEF Follows
<1> QED
  BY <1>1, <1>3, <1>4, <1>5 DEF FollowStep

\* The order lists no row twice and the index follows the track that plays, for any number
\* of rows, requests, failures, additions and resyncs, on the event loop: when no row is
\* deleted from a thread of the pool.
THEOREM IndexFollowsShuffle ==
  ASSUME "delete" \notin Ops
  PROVE  Spec => []ShuffleIndexFollows
<1>1. Init => OrderFits /\ Follows
  <2> SUFFICES ASSUME Init  PROVE OrderFits /\ Follows
    OBVIOUS
  <2>1. OrderFits
    BY EmptySeq DEF Init, OrderFits, Fits, Injective, ToSet, Idle
  <2>2. ~Contains(order, now.item)
    BY DEF Init, Contains
  <2> QED
    BY <2>1, <2>2 DEF Follows
<1>2. "delete" \notin Ops /\ AllTyped /\ AllTyped' /\ OrderFits /\ TookPast /\ Follows /\ [Next]_vars
        => OrderFits' /\ Follows'
  BY OrderFitsStep, FollowsStep
<1>3. AllTyped /\ OrderFits /\ Follows => ShuffleIndexFollows
  <2> SUFFICES ASSUME AllTyped, OrderFits, Follows  PROVE ShuffleIndexFollows
    OBVIOUS
  <2>1. Injective(order) /\ pos \in 0..Len(order) /\ Len(order) \in Nat
    BY DEF AllTyped, OrderTyped, OrderFits, Fits
  <2>2. {p \in Procs : h[p].at = "delPos"} = {}
    BY DEF OrderFits
  <2>3. Cardinality({p \in Procs : h[p].at = "delPos"}) = 0
    BY <2>2, FS_EmptySet
  <2> QED
    BY <2>1, <2>3 DEF ShuffleIndexFollows, OrderFits, Follows, Injective
<1>4. "delete" \notin Ops
  OBVIOUS
<1> QED
  BY <1>1, <1>2, <1>3, <1>4, AllTypedInvariant, TookPastInvariant, PTL DEF Spec
=============================================================================
