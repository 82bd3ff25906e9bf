------------------------- MODULE VoiceServiceProofs -------------------------
(***************************************************************************)
(* Proofs about VoiceService, for any number of calls in progress, loops   *)
(* and sources, when playback commands do not overlap: MaxControl = 1.     *)
(* Pauses and resumes may overlap everything.                              *)
(***************************************************************************)
EXTENDS VoiceService, FiniteSetTheorems, SequenceTheorems, TLAPS

ControlPoints == {"snapshot", "source", "take", "join", "status", "spawn", "put"}
Points        == ControlPoints \cup {"idle", "toggle", "signal"}

LoopType == [src : Sources \cup {NoSource}, paused : BOOLEAN, cancelled : BOOLEAN,
             aborted : BOOLEAN, orphan : BOOLEAN, phase : Phases]
CallType == [at : Points, kind : Control \cup {"none", "pause", "resume"},
             src : Sources \cup {NoSource}, paused : BOOLEAN, loop : Nat]

\* A loop that can still report an end: it plays on or winds up uncancelled, or it has
\* found that it was not cancelled.
CanReport(l) == \/ loops[l].phase \in Unfinished /\ ~loops[l].cancelled
                \/ loops[l].phase \in {"finished", "error"}
Holds(c, l)  == h[c].at \in {"put", "join"} /\ h[c].loop = l

Typed == /\ loops \in Seq(LoopType) /\ slot \in 0..Len(loops)
         /\ h \in [Calls -> CallType] /\ status.src \in Sources \cup {NoSource}
PointsOfControl == \A c \in Calls : h[c].kind \in Control <=> h[c].at \in ControlPoints
Alone    == \A c, d \in Calls : h[c].kind \in Control /\ h[d].kind \in Control => c = d
Vacated  == \A c \in Calls : h[c].at \in {"join", "status", "spawn", "put"} => slot = None
Newest   == /\ slot # None => slot = Len(loops)
            /\ \A c \in Calls : h[c].at \in {"put", "join"} => h[c].loop = Len(loops) /\ Len(loops) > 0
Joining  == \A c \in Calls : h[c].at = "join" => loops[h[c].loop].cancelled
Owned    == \A l \in LoopIds : CanReport(l) => slot = l \/ \E c \in Calls : Holds(c, l)

\* The inductive invariant.
Inv == Typed /\ PointsOfControl /\ Alone /\ Vacated /\ Newest /\ Joining /\ Owned

-----------------------------------------------------------------------------
\* A command that arrives when no two may overlap finds none in progress.
LEMMA NobodyElse ==
  ASSUME MaxControl = 1, Cardinality(Busy) < MaxControl
  PROVE  \A c \in Calls : h[c].kind \notin Control
<1>1. IsFiniteSet(Busy)
  BY CallAssumption, FS_Subset DEF Busy
<1>2. Cardinality(Busy) \in Nat
  BY <1>1, FS_CardinalityType
<1>3. Cardinality(Busy) = 0
  BY <1>2
<1>4. Busy = {}
  BY <1>1, <1>3, FS_EmptySet
<1> QED
  BY <1>4 DEF Busy

\* Replacing one loop of the sequence, or one call.
LEMMA SetLoop ==
  ASSUME NEW s \in Seq(LoopType), NEW l \in 1..Len(s), NEW r \in LoopType
  PROVE  LET t == [s EXCEPT ![l] = r]
         IN  /\ t \in Seq(LoopType) /\ Len(t) = Len(s) /\ t[l] = r
             /\ \A k \in 1..Len(s) : k # l => t[k] = s[k]
BY ExceptSeq

\* The same for one handler's record.
LEMMA SetCall ==
  ASSUME NEW f \in [Calls -> CallType], NEW c \in Calls, NEW r \in CallType
  PROVE  LET g == [f EXCEPT ![c] = r]
         IN  g \in [Calls -> CallType] /\ g[c] = r /\ \A d \in Calls \ {c} : g[d] = f[d]
OBVIOUS

\* Nothing plays at first.
LEMMA InitInv == Init => Inv
  BY DEF Init, Inv, Typed, PointsOfControl, Alone, Vacated, Newest, Joining, Owned, LoopIds,
         Idle, NoCall, None, Control, ControlPoints, Points, CallType

\* A call that arrives keeps the invariant.
LEMMA RequestInv ==
  ASSUME Inv, MaxControl = 1, NEW c \in Calls, Request(c)
  PROVE  Inv'
<1> USE DEF Inv
<1>1. PICK kind \in Control \cup {"pause", "resume"}, src \in Sources \cup {NoSource} : Arrive(c, kind, src)
  BY DEF Request, Play, Seek, Stop, Toggle, Control
<1>2. UNCHANGED <<status, lock, slot, loops>> /\ h[c] = Idle
  BY <1>1 DEF Arrive
<1>3. \A d \in Calls : d # c => h'[d] = h[d]
  BY <1>1 DEF Arrive, Typed
<1>4. h'[c].kind = kind /\ h'[c].at \notin {"join", "status", "spawn", "put"} /\ h' \in [Calls -> CallType]
      /\ (kind \in Control <=> h'[c].at \in ControlPoints)
  BY <1>1 DEF Arrive, Typed, Idle, CallType, Control, ControlPoints, Points, None
<1>5. kind \in Control => \A d \in Calls : h[d].kind \notin Control
  BY <1>1, NobodyElse DEF Arrive
<1>6. Typed' /\ PointsOfControl'
  BY <1>2, <1>3, <1>4 DEF Typed, PointsOfControl
<1>7. Alone'
  BY <1>3, <1>4, <1>5 DEF Alone
<1>8. Vacated' /\ Newest' /\ Joining'
  BY <1>2, <1>3, <1>4 DEF Vacated, Newest, Joining
<1>9. Owned'
  <2>1. \A l \in LoopIds, d \in Calls : Holds(d, l) => Holds(d, l)'
    BY <1>2, <1>3, <1>4 DEF Holds, Idle
  <2> QED  BY <1>2, <2>1 DEF Owned, CanReport, LoopIds
<1> QED
  BY <1>6, <1>7, <1>8, <1>9

\* What a step of one handler keeps, when nothing but that handler moves.
LEMMA OneMoves ==
  ASSUME Inv, NEW c \in Calls, h' \in [Calls -> CallType], \A d \in Calls \ {c} : h'[d] = h[d],
         h'[c].kind \in Control <=> h'[c].at \in ControlPoints,
         h'[c].kind \in Control => h[c].kind \in Control
  PROVE  PointsOfControl' /\ Alone'
BY DEF Inv, PointsOfControl, Alone

\* While one handler is at a point of a command, no other is.
LEMMA OthersIdle ==
  ASSUME Inv, NEW c \in Calls, h[c].at \in ControlPoints
  PROVE  \A d \in Calls \ {c} : h[d].at \notin ControlPoints
BY DEF Inv, PointsOfControl, Alone

\* What Goto and Answer do to the handlers.
LEMMA GotoMoves ==
  ASSUME Inv, NEW c \in Calls, NEW p \in Points, Goto(c, p), h[c].kind \in Control <=> p \in ControlPoints
  PROVE  /\ h' \in [Calls -> CallType] /\ \A d \in Calls \ {c} : h'[d] = h[d]
         /\ h'[c].at = p /\ h'[c].loop = h[c].loop /\ h'[c].kind = h[c].kind
         /\ PointsOfControl' /\ Alone'
<1>1. /\ h' \in [Calls -> CallType] /\ \A d \in Calls \ {c} : h'[d] = h[d]
      /\ h'[c].at = p /\ h'[c].loop = h[c].loop /\ h'[c].kind = h[c].kind
  BY DEF Inv, Typed, Goto, CallType
<1> QED
  BY <1>1, OneMoves

\* An answer leaves the handler free.
LEMMA AnswerMoves ==
  ASSUME Inv, NEW c \in Calls, Answer(c)
  PROVE  /\ h' \in [Calls -> CallType] /\ \A d \in Calls \ {c} : h'[d] = h[d]
         /\ h'[c].at = "idle" /\ PointsOfControl' /\ Alone'
<1>1. Idle \in CallType /\ Idle.at = "idle" /\ Idle.kind = "none"
  BY DEF Idle, CallType, Points, None
<1>2. h' \in [Calls -> CallType] /\ h'[c] = Idle /\ \A d \in Calls \ {c} : h'[d] = h[d]
  BY <1>1 DEF Inv, Typed, Answer
<1> QED
  BY <1>1, <1>2, OneMoves DEF Control, ControlPoints

\* A handler that is not, and was not, at a point where it holds a loop, nor anywhere
\* past the slot, moves without touching slot or loops.
LEMMA QuietMove ==
  ASSUME Inv, NEW c \in Calls, h' \in [Calls -> CallType], \A d \in Calls \ {c} : h'[d] = h[d],
         PointsOfControl', Alone', UNCHANGED slot, loops' \in Seq(LoopType), Len(loops') = Len(loops),
         status'.src \in Sources \cup {NoSource},
         \A l \in LoopIds : loops'[l].phase = loops[l].phase /\ loops'[l].cancelled = loops[l].cancelled,
         h[c].at \notin {"put", "join"}, h'[c].at \notin {"put", "join"},
         h'[c].at \in {"status", "spawn"} => slot = None
  PROVE  Inv'
<1> USE DEF Inv
<1>1. Typed' /\ Vacated'
  BY DEF Typed, Vacated
<1>2. Newest' /\ Joining'
  BY DEF Newest, Joining, Typed, LoopIds
<1>3. \A l \in LoopIds, d \in Calls : Holds(d, l) => Holds(d, l)'
  BY DEF Holds
<1>4. Owned'
  BY <1>3 DEF Owned, CanReport, LoopIds
<1> QED
  BY <1>1, <1>2, <1>4

\* A step of a handler keeps the invariant.  Taking the slot hands its loop to the handler,
\* a join that ends leaves no loop that can report, a spawn makes a newest loop that the
\* handler holds, and putting its control in place hands it to the slot.
LEMMA HandleInv ==
  ASSUME Inv, NEW c \in Calls, Handle(c)
  PROVE  Inv'
<1> USE DEF Inv
<1>a. loops \in Seq(LoopType) /\ h[c] \in CallType /\ status.src \in Sources \cup {NoSource} /\ slot \in 0..Len(loops)
  BY DEF Typed
<1>b. h[c].kind \in Control <=> h[c].at \in ControlPoints
  BY DEF PointsOfControl
<1>1. CASE SeekPaused(c)
  <2>1. CASE Answer(c) /\ UNCHANGED <<status, loops, slot>>
    BY <2>1, <1>1, <1>a, AnswerMoves, QuietMove DEF SeekPaused
  <2>2. CASE slot # None /\ h' = [h EXCEPT ![c].at = "source", ![c].paused = loops[slot].paused]
    <3>1. loops[slot].paused \in BOOLEAN
      <4>1. slot \in 1..Len(loops)
        BY <2>2, <1>a DEF None
      <4>2. loops[slot] \in LoopType
        BY <4>1, <1>a
      <4> QED
        BY <4>2 DEF LoopType
    <3>2. h' \in [Calls -> CallType] /\ (\A d \in Calls \ {c} : h'[d] = h[d])
          /\ h'[c].at = "source" /\ h'[c].kind = h[c].kind
      BY <2>2, <3>1 DEF Typed, CallType, Points, ControlPoints
    <3>3. PointsOfControl' /\ Alone'
      BY <3>2, <1>1, <1>b, OneMoves DEF SeekPaused, ControlPoints
    <3> QED
      BY <3>2, <3>3, <1>1, <1>a, QuietMove DEF SeekPaused
  <2> QED
    BY <1>1, <2>1, <2>2 DEF SeekPaused
<1>2. CASE SeekSource(c)
  <2>1. CASE Answer(c)
    BY <2>1, <1>2, <1>a, AnswerMoves, QuietMove DEF SeekSource
  <2>2. CASE h' = [h EXCEPT ![c].at = "take", ![c].src = status.src]
    <3>1. h' \in [Calls -> CallType] /\ (\A d \in Calls \ {c} : h'[d] = h[d])
          /\ h'[c].at = "take" /\ h'[c].kind = h[c].kind
      BY <2>2, <1>a DEF Typed, CallType, Points, ControlPoints
    <3>2. PointsOfControl' /\ Alone'
      BY <3>1, <1>2, <1>b, OneMoves DEF SeekSource, ControlPoints
    <3> QED
      BY <3>1, <3>2, <1>2, <1>a, QuietMove DEF SeekSource
  <2> QED
    BY <1>2, <2>1, <2>2 DEF SeekSource
<1>3. CASE TakeSlot(c)
  <2>0. h[c].at = "take" /\ h[c].kind \in Control /\ status' = status
    BY <1>3, <1>b DEF TakeSlot, ControlPoints
  <2>1. CASE slot = None
    <3>1. Goto(c, "status") /\ UNCHANGED <<slot, loops>>
      BY <1>3, <2>1 DEF TakeSlot
    <3>2. "status" \in Points /\ "status" \in ControlPoints
      BY DEF Points, ControlPoints
    <3> QED
      BY <3>1, <3>2, <2>0, <2>1, <1>a, GotoMoves, QuietMove
  <2>2. CASE slot # None
    <3>1. /\ loops' = [loops EXCEPT ![slot].cancelled = TRUE] /\ slot' = None
          /\ h' = [h EXCEPT ![c].at = "join", ![c].loop = slot] /\ slot = Len(loops) /\ slot > 0
      BY <1>3, <2>2, <1>a DEF TakeSlot, Cancelled, Newest, None
    <3>2. /\ loops' \in Seq(LoopType) /\ Len(loops') = Len(loops) /\ loops'[slot].cancelled
          /\ loops'[slot].phase = loops[slot].phase
          /\ \A l \in LoopIds \ {slot} : loops'[l] = loops[l]
      <4> DEFINE r == [loops[slot] EXCEPT !.cancelled = TRUE]
      <4>1. slot \in 1..Len(loops) /\ loops[slot] \in LoopType
        BY <3>1, <1>a
      <4>2. r \in LoopType /\ r.cancelled /\ r.phase = loops[slot].phase
        BY <4>1 DEF LoopType
      <4>3. loops' = [loops EXCEPT ![slot] = r]
        BY <3>1
      <4> QED
        BY <4>1, <4>2, <4>3, <1>a, SetLoop DEF LoopIds
    <3>3. h' \in [Calls -> CallType] /\ (\A d \in Calls \ {c} : h'[d] = h[d])
          /\ h'[c].at = "join" /\ h'[c].kind = h[c].kind /\ h'[c].loop = slot
      <4> DEFINE r == [h[c] EXCEPT !.at = "join", !.loop = slot]
      <4>1. slot \in Nat
        BY <1>a
      <4>2. r \in CallType /\ r.at = "join" /\ r.kind = h[c].kind /\ r.loop = slot
        BY <4>1, <1>a DEF CallType, Points, ControlPoints
      <4>3. h' = [h EXCEPT ![c] = r]
        BY <3>1
      <4> QED
        BY <4>2, <4>3, SetCall DEF Typed
    <3>4. PointsOfControl' /\ Alone'
      BY <3>3, <2>0, OneMoves DEF ControlPoints
    <3>5. \A d \in Calls \ {c} : h'[d].at \notin ControlPoints
      BY <3>3, <2>0, OthersIdle DEF ControlPoints
    <3>6. Typed' /\ Vacated'
      BY <3>1, <3>2, <3>3, <2>0, <1>a DEF Typed, Vacated, None
    <3>7. Newest' /\ Joining'
      BY <3>1, <3>2, <3>3, <3>5 DEF Newest, Joining, ControlPoints
    <3>8. Owned'
      <4>1. \A l \in LoopIds' : CanReport(l)' => CanReport(l)
        BY <3>1, <3>2 DEF CanReport, LoopIds
      <4>2. \A l \in LoopIds, d \in Calls : ~Holds(d, l)
        BY <2>2, <2>0, OthersIdle DEF Holds, ControlPoints
      <4>3. \A l \in LoopIds' : CanReport(l)' => l = slot
        BY <4>1, <4>2, <3>2 DEF Owned, LoopIds
      <4> QED
        BY <4>3, <3>3 DEF Owned, Holds
    <3> QED
      BY <3>4, <3>6, <3>7, <3>8
  <2> QED
    BY <2>1, <2>2
<1>4. CASE h[c].at = "join" /\ Goto(c, "status") /\ status' = status /\ slot' = slot
           /\ loops' \in Seq(LoopType) /\ Len(loops') = Len(loops)
           /\ loops[h[c].loop].phase \notin {"finished", "error"}
           /\ \A l \in LoopIds : loops'[l].phase = loops[l].phase /\ loops'[l].cancelled = loops[l].cancelled
  <2>1. "status" \in Points /\ "status" \in ControlPoints /\ "join" \in ControlPoints
    BY DEF Points, ControlPoints
  <2>2. /\ h' \in [Calls -> CallType] /\ \A d \in Calls \ {c} : h'[d] = h[d]
        /\ h'[c].at = "status" /\ PointsOfControl' /\ Alone'
    BY <1>4, <1>b, <2>1, GotoMoves
  <2>3. \A d \in Calls \ {c} : h'[d].at \notin ControlPoints /\ h[d].at \notin ControlPoints
    BY <1>4, <2>1, <2>2, OthersIdle
  <2>4. Typed' /\ Vacated'
    BY <1>4, <1>a, <2>2, <2>3 DEF Typed, Vacated, ControlPoints
  <2>5. Newest' /\ Joining'
    BY <1>4, <2>2, <2>3 DEF Newest, Joining, ControlPoints
  <2>6. Owned'
    <3>1. \A l \in LoopIds : ~CanReport(l)
      <4>1. h[c].loop = Len(loops) /\ slot = None /\ loops[h[c].loop].cancelled
        BY <1>4 DEF Newest, Vacated, Joining
      <4>2. ~CanReport(h[c].loop)
        BY <1>4, <4>1 DEF CanReport
      <4>3. \A l \in LoopIds : CanReport(l) => l = h[c].loop
        BY <1>a, <4>1, <2>2, <2>3 DEF Owned, Holds, LoopIds, None, ControlPoints
      <4> QED
        BY <4>2, <4>3
    <3> QED
      BY <3>1, <1>4 DEF Owned, CanReport, LoopIds
  <2> QED
    BY <2>2, <2>4, <2>5, <2>6
<1>5. CASE Joined(c)
  BY <1>5, <1>4, <1>a DEF Joined
<1>6. CASE JoinTimesOut(c)
  <2>1. h[c].loop \in 1..Len(loops)
    BY <1>6, <1>a DEF JoinTimesOut, Newest
  <2>2. loops' = [loops EXCEPT ![h[c].loop].aborted = TRUE] /\ loops[h[c].loop].phase \notin {"finished", "error"}
    BY <1>6 DEF JoinTimesOut, TimesOut, Aborted, Unfinished
  <2>3. loops' \in Seq(LoopType) /\ Len(loops') = Len(loops)
        /\ \A l \in LoopIds : loops'[l].phase = loops[l].phase /\ loops'[l].cancelled = loops[l].cancelled
    <3> DEFINE k == h[c].loop
               r == [loops[k] EXCEPT !.aborted = TRUE]
    <3>1. loops[k] \in LoopType
      BY <2>1, <1>a
    <3>2. r \in LoopType /\ r.cancelled = loops[k].cancelled /\ r.phase = loops[k].phase
      BY <3>1 DEF LoopType
    <3>3. loops' = [loops EXCEPT ![k] = r]
      BY <2>2
    <3> QED
      BY <2>1, <3>2, <3>3, <1>a, SetLoop DEF LoopIds
  <2> QED
    BY <1>6, <2>2, <2>3, <1>4 DEF JoinTimesOut
<1>7. CASE SetStatus(c)
  <2>1. slot = None /\ h[c].kind \in Control /\ h[c].at = "status" /\ UNCHANGED <<slot, loops>>
    BY <1>7, <1>b DEF SetStatus, Vacated, ControlPoints
  <2>2. status'.src \in Sources \cup {NoSource}
    BY <1>7, <1>a DEF SetStatus, StatusFrom, CallType
  <2>3. CASE Answer(c)
    BY <2>1, <2>2, <2>3, <1>a, AnswerMoves, QuietMove
  <2>4. CASE Goto(c, "spawn")
    <3>1. "spawn" \in Points /\ "spawn" \in ControlPoints
      BY DEF Points, ControlPoints
    <3> QED
      BY <3>1, <2>1, <2>2, <2>4, <1>a, GotoMoves, QuietMove
  <2> QED
    BY <1>7, <2>3, <2>4 DEF SetStatus
<1>8. CASE Spawn(c)
  <2> DEFINE l == Len(loops) + 1
             new == [src |-> h[c].src, paused |-> h[c].paused, cancelled |-> FALSE,
                     aborted |-> FALSE, orphan |-> FALSE, phase |-> "playing"]
  <2>1. /\ h[c].at = "spawn" /\ h[c].kind \in Control /\ slot = None /\ status' = status /\ slot' = slot
        /\ loops' = Append(loops, new) /\ h' = [h EXCEPT ![c].at = "put", ![c].loop = l]
    BY <1>8, <1>b DEF Spawn, Vacated, ControlPoints
  <2>2. new \in LoopType
    BY <1>a DEF LoopType, CallType, Phases
  <2>3. loops' \in Seq(LoopType) /\ Len(loops') = l /\ \A k \in LoopIds : loops'[k] = loops[k]
    BY <2>1, <2>2, <1>a DEF LoopIds
  <2>4. h' \in [Calls -> CallType] /\ (\A d \in Calls \ {c} : h'[d] = h[d])
        /\ h'[c].at = "put" /\ h'[c].kind = h[c].kind /\ h'[c].loop = l
    <3> DEFINE r == [h[c] EXCEPT !.at = "put", !.loop = l]
    <3>1. l \in Nat
      BY <1>a
    <3>2. r \in CallType /\ r.at = "put" /\ r.kind = h[c].kind /\ r.loop = l
      BY <3>1, <1>a DEF CallType, Points, ControlPoints
    <3>3. h' = [h EXCEPT ![c] = r]
      BY <2>1
    <3> QED
      BY <3>2, <3>3, SetCall DEF Typed
  <2>5. PointsOfControl' /\ Alone'
    BY <2>4, <2>1, OneMoves DEF ControlPoints
  <2>6. \A d \in Calls \ {c} : h[d].at \notin ControlPoints /\ h'[d].at \notin ControlPoints
    BY <2>4, <2>1, OthersIdle DEF ControlPoints
  <2>7. Typed' /\ Vacated'
    BY <2>1, <2>3, <2>4, <1>a DEF Typed, Vacated, None
  <2>8. Newest' /\ Joining'
    BY <2>1, <2>3, <2>4, <2>6, <1>a DEF Newest, Joining, ControlPoints
  <2>9. Owned'
    <3>1. \A k \in LoopIds : ~CanReport(k)
      BY <2>1, <2>6 DEF Owned, Holds, LoopIds, None, ControlPoints
    <3>2. \A k \in LoopIds' : k = l \/ k \in LoopIds
      BY <2>3, <1>a DEF LoopIds
    <3>3. \A k \in LoopIds' : CanReport(k)' => k = l
      BY <3>1, <3>2, <2>3 DEF CanReport
    <3> QED
      BY <3>3, <2>4 DEF Owned, Holds
  <2> QED
    BY <2>5, <2>7, <2>8, <2>9
<1>9. CASE PutSlot(c)
  <2>1. /\ h[c].at = "put" /\ slot = None /\ h[c].loop = Len(loops) /\ Len(loops) > 0
        /\ slot' = h[c].loop /\ UNCHANGED <<loops, status>> /\ Answer(c)
    BY <1>9 DEF PutSlot, Vacated, Newest
  <2>2. /\ h' \in [Calls -> CallType] /\ \A d \in Calls \ {c} : h'[d] = h[d]
        /\ h'[c].at = "idle" /\ PointsOfControl' /\ Alone'
    BY <2>1, AnswerMoves
  <2>3. \A d \in Calls \ {c} : h'[d].at \notin ControlPoints /\ h[d].at \notin ControlPoints
    BY <2>1, <2>2, OthersIdle DEF ControlPoints
  <2>4. Typed' /\ Vacated'
    BY <2>1, <2>2, <2>3, <1>a DEF Typed, Vacated, ControlPoints
  <2>5. Newest' /\ Joining'
    BY <2>1, <2>2, <2>3 DEF Newest, Joining, ControlPoints
  <2>6. \A k \in LoopIds : CanReport(k) => k = slot'
    BY <2>1, <2>3 DEF Owned, Holds, LoopIds, None, ControlPoints
  <2>7. Owned'
    BY <2>6, <2>1 DEF Owned, CanReport, LoopIds
  <2> QED
    BY <2>2, <2>4, <2>5, <2>7
<1>10. CASE ToggleStatus(c)
  <2>1. status'.src \in Sources \cup {NoSource} /\ UNCHANGED <<slot, loops>> /\ h[c].at = "toggle" /\ Goto(c, "signal")
    BY <1>10, <1>a DEF ToggleStatus
  <2>2. "signal" \in Points /\ "signal" \notin ControlPoints /\ "toggle" \notin ControlPoints
    BY DEF Points, ControlPoints
  <2> QED
    BY <2>1, <2>2, <1>a, <1>b, GotoMoves, QuietMove
<1>11. CASE ToggleLoop(c)
  <2>1. h[c].at = "signal" /\ Answer(c) /\ UNCHANGED <<slot, status>>
    BY <1>11 DEF ToggleLoop
  <2>2. loops' \in Seq(LoopType) /\ Len(loops') = Len(loops)
        /\ \A l \in LoopIds : loops'[l].phase = loops[l].phase /\ loops'[l].cancelled = loops[l].cancelled
    <3>1. CASE slot = None
      BY <3>1, <1>11, <1>a DEF ToggleLoop
    <3>2. CASE slot # None
      <4>0. PICK b \in BOOLEAN : b = (h[c].kind = "pause")
        OBVIOUS
      <4> DEFINE r == [loops[slot] EXCEPT !.paused = b]
      <4>1. slot \in 1..Len(loops)
        BY <3>2, <1>a DEF None
      <4>a. loops[slot] \in LoopType
        BY <4>1, <1>a
      <4>2. r \in LoopType /\ r.cancelled = loops[slot].cancelled /\ r.phase = loops[slot].phase
        BY <4>0, <4>a DEF LoopType
      <4>3. loops' = [loops EXCEPT ![slot] = r]
        BY <3>2, <4>0, <1>11 DEF ToggleLoop
      <4> QED
        BY <4>1, <4>2, <4>3, <1>a, SetLoop DEF LoopIds
    <3> QED
      BY <3>1, <3>2
  <2> QED
    BY <2>1, <2>2, <1>a, AnswerMoves, QuietMove
<1> QED
  BY <1>1, <1>2, <1>3, <1>5, <1>6, <1>7, <1>8, <1>9, <1>10, <1>11 DEF Handle

\* A loop moves on without making a report possible that was not.
LEMMA LoopMoves ==
  ASSUME Inv, NEW l \in LoopIds, NEW p \in Phases, Advance(l, p), UNCHANGED <<status, slot, h>>,
         CanReport(l)' => CanReport(l)
  PROVE  Inv'
<1> USE DEF Inv
<1>1. loops' = [loops EXCEPT ![l].phase = p] /\ loops \in Seq(LoopType)
  BY DEF Advance, Typed
<1>2. loops' \in Seq(LoopType) /\ Len(loops') = Len(loops)
      /\ \A k \in LoopIds : loops'[k].cancelled = loops[k].cancelled /\ (k # l => loops'[k] = loops[k])
  <2> DEFINE r == [loops[l] EXCEPT !.phase = p]
  <2>1. loops[l] \in LoopType
    BY <1>1 DEF LoopIds
  <2>2. r \in LoopType /\ r.cancelled = loops[l].cancelled
    BY <2>1 DEF LoopType
  <2>3. loops' = [loops EXCEPT ![l] = r]
    BY <1>1
  <2> QED
    BY <2>2, <2>3, <1>1, SetLoop DEF LoopIds
<1>3. Typed' /\ PointsOfControl' /\ Alone' /\ Vacated' /\ Newest'
  BY <1>2 DEF Typed, PointsOfControl, Alone, Vacated, Newest
<1>4. Joining'
  BY <1>2 DEF Joining, Newest, LoopIds
<1>5. \A k \in LoopIds : CanReport(k)' => CanReport(k)
  BY <1>2 DEF CanReport
<1>6. Owned'
  BY <1>2, <1>5 DEF Owned, Holds, LoopIds
<1> QED
  BY <1>3, <1>4, <1>6

\* A step of a loop keeps the invariant.
LEMMA LoopInv ==
  ASSUME Inv, NEW l \in LoopIds, Loop(l)
  PROVE  Inv'
<1>0. loops \in Seq(LoopType) /\ loops[l] \in LoopType
  BY DEF Inv, Typed, LoopIds
<1>1. ASSUME NEW p \in Phases, Advance(l, p), UNCHANGED <<status, slot, h>>,
             p \in Unfinished => loops[l].phase \in Unfinished,
             p \in {"finished", "error"} => loops[l].phase \in Unfinished /\ ~loops[l].cancelled
      PROVE  Inv'
  <2>1. loops' = [loops EXCEPT ![l].phase = p]
    BY <1>1 DEF Advance
  <2>2. loops'[l].phase = p /\ loops'[l].cancelled = loops[l].cancelled
    <3> DEFINE r == [loops[l] EXCEPT !.phase = p]
    <3>1. r \in LoopType /\ r.cancelled = loops[l].cancelled /\ r.phase = p
      BY <1>0, <1>1 DEF LoopType
    <3>2. loops' = [loops EXCEPT ![l] = r]
      BY <2>1
    <3> QED
      BY <3>1, <3>2, <1>0, SetLoop DEF LoopIds
  <2>3. CanReport(l)' => CanReport(l)
    BY <2>2, <1>1 DEF CanReport
  <2> QED
    BY <1>1, <2>3, LoopMoves
<1>2. CASE LoopHolds(l)
  BY <1>2, <1>1 DEF LoopHolds, Phases, Unfinished
<1>3. CASE LoopEnds(l)
  BY <1>3, <1>1 DEF LoopEnds, Phases, Unfinished
<1>4. CASE LoopBreaks(l)
  BY <1>4, <1>1 DEF LoopBreaks, Phases, Unfinished
<1>5. CASE LoopChecks(l)
  <2>1. CASE ~Reports(l)
    BY <1>5, <2>1, <1>1 DEF LoopChecks, Phases, Unfinished
  <2>2. CASE Reports(l) /\ loops[l].phase = "ended"
    BY <1>5, <2>2, <1>1 DEF LoopChecks, Phases, Unfinished, Reports
  <2>3. CASE Reports(l) /\ loops[l].phase = "failed"
    BY <1>5, <2>3, <1>1 DEF LoopChecks, Phases, Unfinished, Reports
  <2> QED
    BY <1>5, <2>1, <2>2, <2>3 DEF LoopChecks
<1>6. CASE LoopReports(l)
  BY <1>6, <1>1 DEF LoopReports, Phases, Unfinished
<1>7. CASE LoopAborted(l)
  BY <1>7, <1>1 DEF LoopAborted, Phases, Unfinished
<1> QED
  BY <1>2, <1>3, <1>4, <1>5, <1>6, <1>7 DEF Loop

-----------------------------------------------------------------------------
\* The invariant holds throughout, when playback commands do not overlap.
THEOREM Inductive == ASSUME MaxControl = 1 PROVE Spec => []Inv
<1>1. Inv /\ [Next]_vars => Inv'
  <2>1. ASSUME Inv, UNCHANGED vars PROVE Inv'
    BY <2>1 DEF Inv, vars, Typed, PointsOfControl, Alone, Vacated, Newest, Joining, Owned, CanReport,
                Holds, LoopIds
  <2> QED
    BY <2>1, RequestInv, HandleInv, LoopInv DEF Next
<1> QED
  BY <1>1, InitInv, PTL DEF Spec

\* Playback commands that do not overlap never leave a second loop playing, nor one that
\* the control in `playback` does not reach, however pauses and resumes fall.
THEOREM OneVoiceAlways == ASSUME MaxControl = 1 PROVE Spec => []OneVoice
<1>1. Inv => OneVoice
  <2> SUFFICES ASSUME Inv, NEW l \in LoopIds, GoesOn(l)
               PROVE  /\ slot = l \/ \E c \in Calls : h[c].at = "put" /\ h[c].loop = l
                      /\ \A k \in LoopIds : GoesOn(k) => k = l
    BY DEF OneVoice
  <2>1. ASSUME NEW k \in LoopIds, GoesOn(k)
        PROVE  k = Len(loops) /\ (slot = k \/ \E c \in Calls : h[c].at = "put" /\ h[c].loop = k)
    <3>1. slot = k \/ \E c \in Calls : Holds(c, k)
      BY <2>1 DEF Inv, Owned, CanReport, GoesOn, Unfinished
    <3>2. slot = k \/ \E c \in Calls : h[c].at = "put" /\ h[c].loop = k
      BY <3>1, <2>1 DEF Inv, Joining, Holds, GoesOn
    <3> QED
      BY <3>2 DEF Inv, Newest, LoopIds, None
  <2> QED
    BY <2>1
<1> QED
  BY <1>1, Inductive, PTL

\* A loop that reports its end is the newest, and it is the one the control reaches or a
\* handler holds.
LEMMA WhoReports ==
  ASSUME Inv, [Next]_vars, last' # last, last'.type # "started"
  PROVE  /\ last'.loop = Len(loops)
         /\ \/ slot = last'.loop
            \/ \E c \in Calls : h[c].loop = last'.loop /\ h[c].at \in {"put", "join"}
<1>0. ~UNCHANGED vars
  BY DEF vars
<1>a. ASSUME NEW c \in Calls, Request(c) PROVE FALSE
  BY <1>a DEF Request, Play, Seek, Stop, Toggle, Arrive
<1>b. ASSUME NEW c \in Calls, Handle(c) PROVE FALSE
  <2>1. CASE Spawn(c)
    BY <2>1 DEF Spawn
  <2> QED
    BY <1>b, <2>1 DEF Handle, SeekPaused, SeekSource, TakeSlot, Joined, JoinTimesOut, SetStatus, PutSlot,
                      ToggleStatus, ToggleLoop
<1>1. PICK l \in LoopIds : LoopReports(l)
  <2>1. PICK l \in LoopIds : Loop(l)
    BY <1>0, <1>a, <1>b DEF Next
  <2> QED
    BY <2>1 DEF Loop, LoopHolds, LoopEnds, LoopBreaks, LoopChecks, LoopAborted
<1>2. last'.loop = l /\ CanReport(l)
  BY <1>1 DEF LoopReports, CanReport
<1>3. slot = l \/ \E c \in Calls : Holds(c, l)
  BY <1>2 DEF Inv, Owned
<1>4. l = Len(loops)
  BY <1>3 DEF Inv, Newest, Holds, None, LoopIds
<1> QED
  BY <1>2, <1>3, <1>4 DEF Holds

\* No end of a playback is reported after the start of its successor.
THEOREM EndsInOrder == ASSUME MaxControl = 1 PROVE Spec => EndsBeforeNextStart
<1>1. Inv /\ [Next]_vars => [last' # last /\ last'.type # "started" => last'.loop = Len(loops)]_vars
  BY WhoReports
<1> QED
  BY <1>1, Inductive, PTL DEF Spec, EndsBeforeNextStart

\* A playback that was stopped, replaced or sought away from reports no end afterwards.
THEOREM SilentAfterStop == ASSUME MaxControl = 1 PROVE Spec => StoppedStaysSilent
<1>1. Inv /\ [Next]_vars =>
        [last' # last /\ last'.type # "started" =>
           \/ slot = last'.loop
           \/ \E c \in Calls : h[c].loop = last'.loop /\ h[c].at \in {"put", "join"}]_vars
  BY WhoReports
<1> QED
  BY <1>1, Inductive, PTL DEF Spec, StoppedStaysSilent

-----------------------------------------------------------------------------
(* The status and the control *)

\* The points at which a handler has emptied the slot, and has not filled it again.
Between == {"join", "status", "spawn", "put"}

Matches == IF slot = None THEN status = [state |-> "idle", src |-> NoSource]
           ELSE status.state # "idle" /\ status.src = loops[slot].src

\* From SetStatus on the status is that of the loop a handler spawns and puts in place.
Announced(c) ==
  /\ h[c].at = "spawn" => status.state # "idle" /\ status.src = h[c].src
  /\ h[c].at = "put"   => status.state # "idle" /\ status.src = loops[h[c].loop].src

Shown == /\ status \in [state : {"idle", "playing", "paused"}, src : Sources \cup {NoSource}]
         /\ \A c \in Calls : Announced(c)
         /\ (\A c \in Calls : h[c].at \notin Between) => Matches

LEMMA InitShown == Init => Shown
BY DEF Init, Shown, Announced, Matches, Idle, Between

LEMMA ShownSuffices == Inv /\ Shown => StatusOfSlot
BY DEF Inv, PointsOfControl, Shown, Between, Matches, StatusOfSlot, Busy, ControlPoints

\* A step that leaves the status, the slot and the sources of the loops alone, and brings
\* no handler to where it announces something.
LEMMA StillShown ==
  ASSUME Inv, Shown, UNCHANGED <<status, slot>>,
         \A l \in LoopIds : loops'[l].src = loops[l].src,
         \A c \in Calls : /\ h'[c].at \in {"spawn", "put"} => h'[c] = h[c]
                          /\ h[c].at \in Between => h'[c].at \in Between
  PROVE  Shown'
<1>1. Matches => Matches'
  BY DEF Matches, Inv, Typed, LoopIds, None
<1>2. ASSUME NEW c \in Calls PROVE Announced(c)'
  <2>1. Announced(c)
    BY <1>2 DEF Shown
  <2>2. CASE h'[c].at = "put"
    <3>1. h'[c] = h[c] /\ h[c].loop \in LoopIds
      BY <1>2, <2>2 DEF Inv, Newest, Typed, LoopIds
    <3> QED
      BY <2>1, <2>2, <3>1 DEF Announced
  <2>3. CASE h'[c].at # "put"
    BY <1>2, <2>1, <2>3 DEF Announced
  <2> QED
    BY <2>2, <2>3
<1> QED
  BY <1>1, <1>2 DEF Shown

\* A change of one loop's flags or phase leaves the sources alone.
LEMMA SourcesStay ==
  ASSUME Inv, NEW l \in LoopIds, NEW v,
         \/ loops' = [loops EXCEPT ![l].phase = v] \/ loops' = [loops EXCEPT ![l].paused = v]
         \/ loops' = [loops EXCEPT ![l].aborted = v] \/ loops' = [loops EXCEPT ![l].cancelled = v]
  PROVE  \A k \in LoopIds : loops'[k].src = loops[k].src
<1>1. loops \in Seq(LoopType) /\ loops[l] \in LoopType
  BY DEF Inv, Typed, LoopIds
<1>2. PICK r : loops' = [loops EXCEPT ![l] = r] /\ r.src = loops[l].src
  BY <1>1 DEF LoopType
<1> QED
  BY <1>1, <1>2 DEF LoopIds

\* A step of a handler keeps it.
LEMMA HandleShown ==
  ASSUME Inv, Shown, NEW c \in Calls, Handle(c)
  PROVE  Shown'
<1>a. /\ h \in [Calls -> CallType] /\ loops \in Seq(LoopType) /\ slot \in 0..Len(loops)
      /\ status \in [state : {"idle", "playing", "paused"}, src : Sources \cup {NoSource}]
  BY DEF Inv, Typed, Shown
<1>b. h[c].at \in ControlPoints => \A d \in Calls \ {c} : h[d].at \notin ControlPoints
  BY OthersIdle
<1>c. ASSUME NEW p, Goto(c, p)
      PROVE  (\A d \in Calls \ {c} : h'[d] = h[d]) /\ h'[c].at = p /\ h'[c].src = h[c].src /\ h'[c].loop = h[c].loop
  BY <1>c, <1>a DEF Goto, CallType
<1>d. ASSUME Answer(c) PROVE (\A d \in Calls \ {c} : h'[d] = h[d]) /\ h'[c].at = "idle"
  BY <1>d, <1>a DEF Answer, Idle
<1>1. CASE SeekPaused(c)
  <2>1. UNCHANGED <<status, slot, loops>> /\ h[c].at = "snapshot" /\ h'[c].at \in {"idle", "source"}
        /\ \A d \in Calls \ {c} : h'[d] = h[d]
    BY <1>1, <1>a, <1>d DEF SeekPaused, CallType
  <2> QED
    BY <2>1, StillShown DEF Between
<1>2. CASE SeekSource(c)
  <2>1. UNCHANGED <<status, slot, loops>> /\ h[c].at = "source" /\ h'[c].at \in {"idle", "take"}
        /\ \A d \in Calls \ {c} : h'[d] = h[d]
    BY <1>2, <1>a, <1>d DEF SeekSource, CallType
  <2> QED
    BY <2>1, StillShown DEF Between
<1>3. CASE TakeSlot(c)
  <2>1. CASE slot = None
    <3>1. UNCHANGED <<status, slot, loops>> /\ Goto(c, "status") /\ h[c].at = "take"
      BY <1>3, <2>1 DEF TakeSlot
    <3> QED
      BY <3>1, <1>c, StillShown DEF Between
  <2>2. CASE slot # None
    <3>1. /\ h[c].at = "take" /\ status' = status /\ \A d \in Calls \ {c} : h'[d] = h[d]
          /\ h'[c].at = "join"
      BY <1>3, <2>2, <1>a DEF TakeSlot, CallType
    <3>2. \A d \in Calls : h'[d].at \notin {"spawn", "put"}
      BY <3>1, <1>b DEF ControlPoints
    <3>3. h'[c].at \in Between
      BY <3>1 DEF Between
    <3> QED
      BY <3>1, <3>2, <3>3 DEF Shown, Announced
  <2> QED
    BY <2>1, <2>2
<1>4. CASE Joined(c)
  <2>1. UNCHANGED <<status, slot, loops>> /\ Goto(c, "status") /\ h[c].at = "join"
    BY <1>4 DEF Joined
  <2> QED
    BY <2>1, <1>c, StillShown DEF Between
<1>5. CASE JoinTimesOut(c)
  <2>1. UNCHANGED <<status, slot>> /\ Goto(c, "status") /\ h[c].at = "join"
        /\ loops' = [loops EXCEPT ![h[c].loop].aborted = TRUE]
    BY <1>5 DEF JoinTimesOut, Aborted
  <2>2. h[c].loop \in LoopIds
    BY <2>1, <1>a DEF Inv, Newest, LoopIds
  <2>3. \A k \in LoopIds : loops'[k].src = loops[k].src
    BY <2>1, <2>2, SourcesStay
  <2> QED
    BY <2>1, <2>3, <1>c, StillShown DEF Between
<1>6. CASE SetStatus(c)
  <2>1. slot = None /\ h[c].at = "status" /\ UNCHANGED <<slot, loops>> /\ status' = StatusFrom(h[c])
        /\ h[c].kind \in Control /\ \A d \in Calls \ {c} : h[d].at \notin ControlPoints
    BY <1>6, <1>b DEF SetStatus, Inv, Vacated, PointsOfControl, ControlPoints
  <2>2. CASE h[c].kind = "stop"
    <3>1. status' = [state |-> "idle", src |-> NoSource] /\ Answer(c)
      BY <1>6, <2>1, <2>2 DEF SetStatus, StatusFrom
    <3>2. \A d \in Calls : h'[d].at \notin {"spawn", "put"}
      BY <3>1, <2>1, <1>d DEF ControlPoints
    <3> QED
      BY <2>1, <3>1, <3>2 DEF Shown, Announced, Matches
  <2>3. CASE h[c].kind # "stop"
    <3>1. status' = [state |-> IF h[c].paused THEN "paused" ELSE "playing", src |-> h[c].src] /\ Goto(c, "spawn")
      BY <1>6, <2>1, <2>3 DEF SetStatus, StatusFrom
    <3>2. status'.state \in {"playing", "paused"} /\ status'.src = h[c].src
      BY <3>1
    <3>3. h'[c].at = "spawn" /\ h'[c].src = h[c].src /\ \A d \in Calls \ {c} : h'[d].at \notin {"spawn", "put"}
      BY <3>1, <2>1, <1>c DEF ControlPoints
    <3>4. status' \in [state : {"idle", "playing", "paused"}, src : Sources \cup {NoSource}]
      BY <3>1, <1>a DEF CallType
    <3>5. \A d \in Calls : Announced(d)'
      BY <3>2, <3>3 DEF Announced
    <3> QED
      BY <3>3, <3>4, <3>5 DEF Shown, Between
  <2> QED
    BY <2>2, <2>3
<1>7. CASE Spawn(c)
  <2> DEFINE l == Len(loops) + 1
  <2>1. h[c].at = "spawn" /\ UNCHANGED <<status, slot>> /\ \A d \in Calls \ {c} : h[d].at \notin ControlPoints
    BY <1>7, <1>b DEF Spawn, ControlPoints
  <2>2. PICK new : loops' = Append(loops, new) /\ new.src = h[c].src /\ new \in LoopType
    <3> DEFINE r == [src |-> h[c].src, paused |-> h[c].paused, cancelled |-> FALSE,
                     aborted |-> FALSE, orphan |-> FALSE, phase |-> "playing"]
    <3>1. r \in LoopType /\ r.src = h[c].src
      BY <1>a DEF LoopType, CallType, Phases
    <3>2. loops' = Append(loops, r)
      BY <1>7 DEF Spawn
    <3> QED
      BY <3>1, <3>2
  <2>3. loops'[l].src = h[c].src
    BY <2>2, <1>a
  <2>4. h'[c].at = "put" /\ h'[c].loop = l /\ \A d \in Calls \ {c} : h'[d] = h[d]
    BY <1>7, <1>a DEF Spawn, CallType
  <2>5. status.state # "idle" /\ status.src = h[c].src
    BY <2>1 DEF Shown, Announced
  <2>6. \A d \in Calls : Announced(d)'
    BY <2>1, <2>3, <2>4, <2>5 DEF Announced, ControlPoints
  <2> QED
    BY <2>1, <2>4, <2>6 DEF Shown, Between
<1>8. CASE PutSlot(c)
  <2>1. h[c].at = "put" /\ slot' = h[c].loop /\ h[c].loop > 0 /\ UNCHANGED <<status, loops>> /\ Answer(c)
        /\ \A d \in Calls \ {c} : h[d].at \notin ControlPoints
    BY <1>8, <1>b, <1>a DEF PutSlot, Inv, Vacated, Newest, ControlPoints
  <2>2. Matches'
    BY <2>1, <1>a DEF Shown, Announced, Matches, None
  <2>3. \A d \in Calls : h'[d].at \notin {"spawn", "put"}
    BY <2>1, <1>d DEF ControlPoints
  <2> QED
    BY <2>1, <2>2, <2>3 DEF Shown, Announced
<1>9. CASE ToggleStatus(c)
  <2>1. UNCHANGED <<slot, loops>> /\ Goto(c, "signal") /\ h[c].at = "toggle"
        /\ status' = [status EXCEPT !.state = Toggled(h[c].kind, status.state)]
    BY <1>9 DEF ToggleStatus
  <2>2. PICK s \in {"idle", "playing", "paused"} : s = Toggled(h[c].kind, status.state) /\ (s = "idle" <=> status.state = "idle")
    BY <1>a DEF Toggled
  <2>3. status' = [status EXCEPT !.state = s]
    BY <2>1, <2>2
  <2>4. status'.state = s /\ status'.src = status.src
        /\ status' \in [state : {"idle", "playing", "paused"}, src : Sources \cup {NoSource}]
        /\ (status = [state |-> "idle", src |-> NoSource] => status' = status)
    BY <2>2, <2>3, <1>a
  <2>5. Matches => Matches'
    BY <2>1, <2>2, <2>4 DEF Matches
  <2>6. h'[c].at = "signal" /\ \A d \in Calls \ {c} : h'[d] = h[d]
    BY <2>1, <1>c
  <2>7. ASSUME NEW d \in Calls PROVE Announced(d)'
    BY <2>1, <2>2, <2>4, <2>6, <2>7 DEF Shown, Announced
  <2>8. \A d \in Calls : h'[d].at \in Between <=> h[d].at \in Between
    BY <2>1, <2>6 DEF Between
  <2> QED
    BY <2>4, <2>5, <2>7, <2>8 DEF Shown
<1>10. CASE ToggleLoop(c)
  <2>1. UNCHANGED <<status, slot>> /\ Answer(c) /\ h[c].at = "signal"
    BY <1>10 DEF ToggleLoop
  <2>2. \A k \in LoopIds : loops'[k].src = loops[k].src
    <3>1. CASE slot = None
      BY <3>1, <1>10 DEF ToggleLoop
    <3>2. CASE slot # None
      <4>1. slot \in LoopIds
        BY <3>2, <1>a DEF LoopIds, None
      <4>2. PICK b : loops' = [loops EXCEPT ![slot].paused = b]
        BY <3>2, <1>10 DEF ToggleLoop
      <4> QED
        BY <4>1, <4>2, SourcesStay
    <3> QED
      BY <3>1, <3>2
  <2> QED
    BY <2>1, <2>2, <1>d, StillShown DEF Between
<1> QED
  BY <1>1, <1>2, <1>3, <1>4, <1>5, <1>6, <1>7, <1>8, <1>9, <1>10 DEF Handle

\* Calls that arrive and loops that go on change none of it.
LEMMA NextShown == Inv /\ Shown /\ [Next]_vars => Shown'
<1> SUFFICES ASSUME Inv, Shown, [Next]_vars PROVE Shown'
  OBVIOUS
<1>1. ASSUME UNCHANGED vars PROVE Shown'
  BY <1>1, StillShown DEF vars
<1>2. ASSUME NEW c \in Calls, Request(c) PROVE Shown'
  <2>1. PICK kind \in Control \cup {"pause", "resume"}, src \in Sources \cup {NoSource} : Arrive(c, kind, src)
    BY <1>2 DEF Request, Play, Seek, Stop, Toggle, Control
  <2>2. UNCHANGED <<status, slot, loops>> /\ h[c].at = "idle" /\ h'[c].at \in {"snapshot", "take", "toggle"}
        /\ \A d \in Calls \ {c} : h'[d] = h[d]
    BY <2>1 DEF Arrive, Idle, Inv, Typed
  <2> QED
    BY <2>2, StillShown DEF Between
<1>3. ASSUME NEW c \in Calls, Handle(c) PROVE Shown'
  BY <1>3, HandleShown
<1>4. ASSUME NEW l \in LoopIds, Loop(l) PROVE Shown'
  <2>1. UNCHANGED <<status, slot, h>> /\ \E p : Advance(l, p)
    BY <1>4 DEF Loop, LoopHolds, LoopEnds, LoopBreaks, LoopChecks, LoopReports, LoopAborted
  <2>2. \A k \in LoopIds : loops'[k].src = loops[k].src
    BY <1>4, <2>1, SourcesStay DEF Advance
  <2> QED
    BY <2>1, <2>2, StillShown
<1> QED
  BY <1>1, <1>2, <1>3, <1>4 DEF Next

\* When no playback command is in progress the status names the source of the loop whose
\* control is in place, and is idle without one, however pauses and resumes fall and
\* however slowly the loop before it came to its end.
THEOREM StatusIsTheSlots == ASSUME MaxControl = 1 PROVE Spec => []StatusOfSlot
<1>1. Spec => [](Inv /\ Shown)
  BY Inductive, InitShown, NextShown, PTL DEF Spec
<1> QED
  BY <1>1, ShownSuffices, PTL
=============================================================================
