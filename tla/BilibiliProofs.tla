--------------------------- MODULE BilibiliProofs ---------------------------
(***************************************************************************)
(* Proofs about Bilibili, for any number of requests, videos, logins,      *)
(* files and slots: no piece of audio is served, paths outlive their use,  *)
(* no download twice, no HTTP client of an entered login left open.        *)
(***************************************************************************)
EXTENDS Bilibili, FiniteSetTheorems, TLAPS

-----------------------------------------------------------------------------
(* The invariant.                                                          *)

Locking == {"scan", "stat", "expire", "touch", "waitSlot", "api", "apiWrite", "fallback"}

\* A file has a time of its own, and no finished file is a piece.
Dated ==
  /\ \A v \in Videos : /\ Cached(v) <=> mtime[v] # 0
                       /\ mtime[v] <= clock
                       /\ dir[v]["audio"] # "piece"
  /\ \A v, w \in Videos : Cached(v) /\ mtime[v] = mtime[w] => v = w

\* A request between its lock and its path holds its video's lock.
Locks(r) ==
  /\ task[r].at \in Locking \cup {"waitLock", "have"} => task[r].video \in Videos
  /\ task[r].at \in Locking => videoLock[task[r].video] = r

\* A request past the semaphore has one of its places; it downloads what is not
\* there; the path it is given is a finished file's.
Holds(r) ==
  /\ task[r].stage # "lock" => r \in downloading /\ task[r].at \in Locking \ {"waitSlot"}
  /\ task[r].at \in {"api", "apiWrite", "fallback", "scan"} => task[r].stage = "thread"
  /\ task[r].at \in {"api", "apiWrite", "fallback"} => ~Cached(task[r].video)
  /\ task[r].at \in {"touch", "have"} => task[r].path = "audio"

\* What a request with a path relies on: no lookups overlapped.  Its file is there
\* and those modified after it were noted, or enough were.
Holder(r) == HasPath(r) /\ ~task[r].crossed
Enough(r) == Cardinality(task[r].since) >= MaxFiles
Newest(r) == /\ Cached(task[r].video)
             /\ \A g \in Videos : mtime[g] > mtime[task[r].video] => g \in task[r].since

Outlives(r) ==
  /\ IsFiniteSet(task[r].since)
  /\ Holder(r) => Enough(r) \/ Newest(r)

Fine(r) == Locks(r) /\ Holds(r) /\ Outlives(r)

\* Lookups that overlap know it, and so does who has a path meanwhile.
Cross(q, p) ==
  /\ q # p /\ InLookup(q) /\ InLookup(p) => task[p].crossed
  /\ InLookup(q) /\ task[q].crossed /\ HasPath(p) => task[p].crossed

\* What a lookup that overlaps with none has read is so.
Reading(q) == task[q].at \in {"stat", "expire"} /\ ~task[q].crossed

Reads(q) ==
  Reading(q) =>
    /\ \A f \in look[q].unseen : f \in Files /\ look[q].snap[f] = 0
    /\ \A f \in Videos : look[q].snap[f] # 0 => Cached(f) /\ look[q].snap[f] = mtime[f]
    /\ \A f \in look[q].counted : look[q].snap[f] # 0
    /\ task[q].at = "expire" =>
         /\ look[q].old \in Files \ look[q].unseen /\ look[q].snap[look[q].old] = 0
         /\ \A p \in Requests : Holder(p) => task[p].video # look[q].old

\* Whom such a lookup meets: a file that is held was noted against its video, or it
\* does not see the file.
Meets(q, p) ==
  Reading(q) /\ Holder(p) =>
    \/ Enough(p)
    \/ task[q].video \in task[p].since \/ task[q].video = task[p].video
    \/ task[p].video \notin look[q].unseen /\ look[q].snap[task[p].video] = 0

AllFine    == \A r \in Requests : Fine(r)
AllReads   == \A q \in Requests : Reads(q)
AllMeet    == \A q, p \in Requests : Cross(q, p) /\ Meets(q, p)
SlotsInUse == IsFiniteSet(downloading) /\ Cardinality(downloading) <= Slots

AudioTyped ==
  /\ dir \in [Videos -> [Kinds -> Contents]]
  /\ mtime \in [Videos -> Nat] /\ clock \in Nat
  /\ look \in [Requests -> Look]
  /\ videoLock \in [Videos -> Requests \cup {Nothing}]
  /\ downloading \subseteq Requests
  /\ task \in [Requests -> Task]

LoginTyped ==
  /\ registry \subseteq Logins /\ entered \subseteq Logins
  /\ client \in [Logins -> {"none", "open", "closed"}]
  /\ key \in [Logins -> {"waiting", "scanned", "confirmed", "expired"}]
  /\ cookie \in Cookies

\* A login that is being started has a client of its own and was not entered yet.
Starting ==
  /\ \A l \in Logins : client[l] = "none" => l \notin entered
  /\ \A q \in Requests :
       At(q, "generate") => /\ task[q].login \in Logins \ entered
                            /\ client[task[q].login] = "open"
  /\ \A q, p \in Requests :
       At(q, "generate") /\ At(p, "generate") /\ q # p => task[q].login # task[p].login

AudioInv == AudioTyped /\ Dated /\ AllFine /\ AllReads /\ AllMeet /\ SlotsInUse
LoginInv == LoginTyped /\ registry \subseteq entered /\ Starting /\ NoClientIsLost
BInv     == AudioInv /\ LoginInv /\ begun \in Nat /\ stopped \in BOOLEAN

-----------------------------------------------------------------------------
(* The requests a step does not move.                                      *)

\* What the invariant says of the state before a step.
LEMMA InvParts ==
  ASSUME AudioInv
  PROVE  /\ dir \in [Videos -> [Kinds -> Contents]]
         /\ mtime \in [Videos -> Nat] /\ clock \in Nat
         /\ look \in [Requests -> Look]
         /\ videoLock \in [Videos -> Requests \cup {Nothing}]
         /\ downloading \subseteq Requests
         /\ task \in [Requests -> Task]
         /\ Dated /\ SlotsInUse
         /\ \A q \in Requests : Fine(q) /\ Reads(q)
         /\ \A q, p \in Requests : Cross(q, p) /\ Meets(q, p)
BY DEF AudioInv, AudioTyped, AllFine, AllReads, AllMeet

\* A lookup that overlaps with none is alone, and one that somebody's unspoilt path
\* meets overlaps with none.
LEMMA Alone ==
  ASSUME AudioInv, NEW q \in Requests, NEW p \in Requests, InLookup(q)
  PROVE  /\ ~task[q].crossed /\ p # q => ~InLookup(p)
         /\ Holder(p) => ~task[q].crossed
<1>1. Cross(q, p) /\ Cross(p, q) /\ task \in [Requests -> Task]
  BY InvParts
<1> QED
  BY <1>1 DEF Cross, Holder

\* Noting one video more.
LEMMA OneMore ==
  ASSUME NEW S, IsFiniteSet(S), NEW x
  PROVE  /\ IsFiniteSet(S \cup {x})
         /\ Cardinality(S) \in Nat /\ Cardinality(S \cup {x}) \in Nat
         /\ Cardinality(S \cup {x}) >= Cardinality(S)
<1>1. Cardinality(S) \in Nat
  BY FS_CardinalityType
<1>2. /\ IsFiniteSet(S \cup {x})
      /\ Cardinality(S \cup {x}) = IF x \in S THEN Cardinality(S) ELSE Cardinality(S) + 1
  BY FS_AddElement
<1> QED
  BY <1>1, <1>2

\* What the histories may do to a request that does not move: note a video, and that
\* lookups overlapped.
Follows(q) ==
  /\ task'[q].at = task[q].at /\ task'[q].video = task[q].video
  /\ task'[q].stage = task[q].stage /\ task'[q].path = task[q].path
  /\ task'[q].login = task[q].login
  /\ task[q].since \subseteq task'[q].since
  /\ IsFiniteSet(task[q].since) =>
       IsFiniteSet(task'[q].since) /\ Cardinality(task'[q].since) >= Cardinality(task[q].since)
  /\ task[q].crossed => task'[q].crossed

\* A request that stays as it is follows.
LEMMA StayFollows ==
  ASSUME NEW q, task'[q] = task[q]
  PROVE  Follows(q)
<1>1. IsFiniteSet(task[q].since) => Cardinality(task[q].since) \in Nat
  BY FS_CardinalityType
<1> QED
  BY <1>1 DEF Follows

\* What Noting does to the others.
LEMMA NotingOthers ==
  ASSUME AudioInv, NEW v \in Videos, NEW r \in Requests, NEW rec \in Task,
         task' = Noting(v, r, rec)
  PROVE  /\ task' \in [Requests -> Task] /\ task'[r] = rec
         /\ \A q \in Requests \ {r} :
              /\ Follows(q) /\ task'[q].crossed = task[q].crossed
              /\ HasPath(q) /\ task[q].video # v => v \in task'[q].since
<1>1. task \in [Requests -> Task]
  BY InvParts
<1>2. ASSUME NEW q \in Requests
      PROVE  LET rec2 == [task[q] EXCEPT !.since = @ \cup {v}]
             IN  /\ rec2 \in Task
                 /\ rec2.at = task[q].at /\ rec2.video = task[q].video
                 /\ rec2.stage = task[q].stage /\ rec2.path = task[q].path
                 /\ rec2.login = task[q].login /\ rec2.crossed = task[q].crossed
                 /\ rec2.since = task[q].since \cup {v}
  BY <1>1, <1>2 DEF Task
<1>3. task' \in [Requests -> Task] /\ task'[r] = rec
  BY <1>1, <1>2 DEF Noting
<1>4. ASSUME NEW q \in Requests \ {r}
      PROVE  /\ Follows(q) /\ task'[q].crossed = task[q].crossed
             /\ HasPath(q) /\ task[q].video # v => v \in task'[q].since
  <2>1. CASE task[q].at \in {"touch", "have"} /\ task[q].video # v
    <3>1. task'[q] = [task[q] EXCEPT !.since = @ \cup {v}]
      BY <2>1 DEF Noting
    <3>2. IsFiniteSet(task[q].since) =>
            /\ IsFiniteSet(task[q].since \cup {v})
            /\ Cardinality(task[q].since \cup {v}) >= Cardinality(task[q].since)
      BY OneMore
    <3> QED
      BY <1>2, <3>1, <3>2 DEF Follows
  <2>2. CASE ~(task[q].at \in {"touch", "have"} /\ task[q].video # v)
    <3>1. task'[q] = task[q]
      BY <2>2 DEF Noting
    <3> QED
      BY <2>2, <3>1, StayFollows DEF HasPath, At
  <2> QED
    BY <2>1, <2>2
<1> QED
  BY <1>3, <1>4

\* The locks and places of a request that does not move.
LEMMA LocksStay ==
  ASSUME AudioInv, NEW q \in Requests, Follows(q),
         q \in downloading => q \in downloading',
         task[q].at \in Locking => videoLock'[task[q].video] = videoLock[task[q].video],
         task[q].at \in {"api", "apiWrite", "fallback"} /\ ~Cached(task[q].video)
           => ~Cached(task[q].video)'
  PROVE  Locks(q)' /\ Holds(q)'
<1>0. PICK u : u = task[q].video
  OBVIOUS
<1>1. Locks(q) /\ Holds(q)
  BY InvParts DEF Fine
<1>2. /\ task'[q].at = task[q].at /\ task'[q].video = u
      /\ task'[q].stage = task[q].stage /\ task'[q].path = task[q].path
  BY <1>0 DEF Follows
<1>3. Locks(q)'
  BY <1>0, <1>1, <1>2 DEF Locks
<1>4. Holds(q)'
  <2>1. task[q].at \in {"api", "apiWrite", "fallback"} => ~Cached(u)'
    BY <1>0, <1>1, <1>2 DEF Holds, Cached, Exists
  <2> QED
    BY <1>0, <1>1, <1>2, <2>1 DEF Holds
<1> QED
  BY <1>3, <1>4

-----------------------------------------------------------------------------
(* What a step does to the files.                                          *)

Same ==
  /\ mtime' = mtime /\ clock' = clock
  /\ \A v \in Videos : dir'[v]["audio"] = dir[v]["audio"]

LEMMA SameDated ==
  ASSUME AudioInv, Same
  PROVE  Dated' /\ Files' = Files /\ \A v \in Videos : Cached(v)' <=> Cached(v)
<1>1. \A v \in Videos : Cached(v)' <=> Cached(v)
  BY DEF Same, Cached, Exists
<1>2. Dated
  BY InvParts
<1> QED
  BY <1>1, <1>2 DEF Dated, Same, Files

LEMMA ModifyDated ==
  ASSUME AudioInv, NEW v \in Videos, NEW these \in [Kinds -> Contents],
         these["audio"] \in {"all", "nothing"}, Modify(v, these)
  PROVE  /\ dir' \in [Videos -> [Kinds -> Contents]]
         /\ mtime' \in [Videos -> Nat] /\ clock' \in Nat /\ Dated'
         /\ Cached(v)' /\ \A g \in Videos : mtime'[g] <= mtime'[v]
         /\ \A w \in Videos \ {v} : (Cached(w)' <=> Cached(w)) /\ mtime'[w] = mtime[w]
<1>1. /\ dir \in [Videos -> [Kinds -> Contents]] /\ mtime \in [Videos -> Nat] /\ clock \in Nat
      /\ Dated
  BY InvParts
<1>2. /\ clock' = clock + 1 /\ mtime' = [mtime EXCEPT ![v] = clock + 1]
      /\ dir' = [dir EXCEPT ![v] = these]
  BY DEF Modify
<1>3. /\ dir' \in [Videos -> [Kinds -> Contents]]
      /\ mtime' \in [Videos -> Nat] /\ clock' \in Nat
  BY <1>1, <1>2
<1>4. /\ dir'[v] = these /\ mtime'[v] = clock + 1
      /\ \A w \in Videos \ {v} : dir'[w] = dir[w] /\ mtime'[w] = mtime[w]
  BY <1>1, <1>2
<1>5. /\ Cached(v)'
      /\ \A w \in Videos \ {v} : (Cached(w)' <=> Cached(w)) /\ mtime'[w] = mtime[w]
  BY <1>4 DEF Cached, Exists
<1>6. \A g \in Videos : mtime'[g] <= mtime'[v] /\ (g # v => mtime'[g] # mtime'[v])
  <2>1. \A g \in Videos : mtime[g] \in Nat /\ mtime[g] <= clock
    BY <1>1 DEF Dated
  <2> QED
    BY <1>1, <1>4, <2>1
<1>7. Dated'
  <2>1. ASSUME NEW w \in Videos
        PROVE  /\ Cached(w)' <=> mtime'[w] # 0
               /\ mtime'[w] <= clock'
               /\ dir'[w]["audio"] # "piece"
    <3>1. CASE w = v
      BY <1>1, <1>2, <1>4, <1>5, <3>1
    <3>2. CASE w # v
      <4>1. /\ Cached(w) <=> mtime[w] # 0
            /\ mtime[w] <= clock /\ mtime[w] \in Nat /\ dir[w]["audio"] # "piece"
        BY <1>1 DEF Dated
      <4> QED
        BY <1>1, <1>2, <1>4, <1>5, <3>2, <4>1
    <3> QED
      BY <3>1, <3>2
  <2>2. ASSUME NEW w \in Videos, NEW u \in Videos, Cached(w)', mtime'[w] = mtime'[u]
        PROVE  w = u
    <3>1. CASE w # v /\ u # v
      BY <1>1, <1>4, <1>5, <2>2, <3>1 DEF Dated
    <3> QED
      BY <1>6, <2>2, <3>1
  <2> QED
    BY <2>1, <2>2 DEF Dated
<1> QED
  BY <1>3, <1>5, <1>6, <1>7

LEMMA RemoveDated ==
  ASSUME AudioInv, NEW f \in Videos, Remove(f)
  PROVE  /\ dir' \in [Videos -> [Kinds -> Contents]]
         /\ mtime' \in [Videos -> Nat] /\ clock' \in Nat /\ Dated'
         /\ ~Cached(f)' /\ mtime'[f] = 0
         /\ \A w \in Videos \ {f} : (Cached(w)' <=> Cached(w)) /\ mtime'[w] = mtime[w]
<1>1. /\ dir \in [Videos -> [Kinds -> Contents]] /\ mtime \in [Videos -> Nat] /\ clock \in Nat
      /\ Dated
  BY InvParts
<1>2. /\ clock' = clock /\ mtime' = [mtime EXCEPT ![f] = 0]
      /\ dir' = [dir EXCEPT ![f]["audio"] = "absent"]
  BY DEF Remove
<1>3. /\ dir' \in [Videos -> [Kinds -> Contents]]
      /\ mtime' \in [Videos -> Nat] /\ clock' \in Nat
  BY <1>1, <1>2 DEF Kinds, Contents
<1>4. /\ dir'[f]["audio"] = "absent" /\ mtime'[f] = 0
      /\ \A w \in Videos \ {f} : dir'[w] = dir[w] /\ mtime'[w] = mtime[w]
  BY <1>1, <1>2 DEF Kinds
<1>5. /\ ~Cached(f)'
      /\ \A w \in Videos \ {f} : (Cached(w)' <=> Cached(w)) /\ mtime'[w] = mtime[w]
  BY <1>4 DEF Cached, Exists
<1>6. Dated'
  <2>1. ASSUME NEW w \in Videos
        PROVE  /\ Cached(w)' <=> mtime'[w] # 0
               /\ mtime'[w] <= clock'
               /\ dir'[w]["audio"] # "piece"
    <3>1. CASE w = f
      BY <1>1, <1>2, <1>4, <1>5, <3>1
    <3>2. CASE w # f
      BY <1>1, <1>2, <1>4, <1>5, <3>2 DEF Dated
    <3> QED
      BY <3>1, <3>2
  <2>2. ASSUME NEW w \in Videos, NEW u \in Videos, Cached(w)', mtime'[w] = mtime'[u]
        PROVE  w = u
    <3>1. mtime'[w] # 0
      BY <2>1, <2>2
    <3>2. w # f /\ u # f
      BY <1>4, <2>2, <3>1
    <3> QED
      BY <1>1, <1>4, <1>5, <2>2, <3>2 DEF Dated
  <2> QED
    BY <2>1, <2>2 DEF Dated
<1> QED
  BY <1>3, <1>4, <1>5, <1>6

\* A path goes on outliving its use: nothing happens to the files, ...
LEMMA OutlivesSame ==
  ASSUME AudioInv, Same, NEW q \in Requests, Follows(q)
  PROVE  Outlives(q)'
<1>0. PICK u : u = task[q].video
  OBVIOUS
<1>1. Outlives(q) /\ Locks(q)
  BY InvParts DEF Fine
<1>2. Holder(q)' => Holder(q)
  BY DEF Holder, HasPath, At, Follows
<1>3. IsFiniteSet(task'[q].since) /\ (Enough(q) => Enough(q)')
  <2>1. IsFiniteSet(task[q].since) /\ IsFiniteSet(task'[q].since)
        /\ Cardinality(task'[q].since) >= Cardinality(task[q].since)
    BY <1>1 DEF Outlives, Follows
  <2>2. Cardinality(task[q].since) \in Nat /\ Cardinality(task'[q].since) \in Nat
    BY <2>1, FS_CardinalityType
  <2> QED
    BY <2>1, <2>2, Limits DEF Enough
<1>4. ASSUME HasPath(q), Newest(q)
      PROVE  Newest(q)'
  <2>1. u \in Videos
    BY <1>0, <1>1, <1>4 DEF Locks, HasPath, At
  <2>2. Cached(u) /\ \A g \in Videos : mtime[g] > mtime[u] => g \in task[q].since
    BY <1>0, <1>4 DEF Newest
  <2>3. Cached(u)' /\ mtime' = mtime /\ task'[q].video = u /\ task[q].since \subseteq task'[q].since
    BY <1>0, <2>1, <2>2, SameDated DEF Follows, Same
  <2>4. \A g \in Videos : mtime'[g] > mtime'[u] => g \in task'[q].since
    BY <2>2, <2>3
  <2> QED
    BY <2>3, <2>4 DEF Newest, Cached, Exists
<1> QED
  BY <1>1, <1>2, <1>3, <1>4 DEF Outlives, Holder

\* ... or a file is modified, and noted, ...
LEMMA OutlivesModify ==
  ASSUME AudioInv, NEW v \in Videos, NEW these \in [Kinds -> Contents],
         these["audio"] \in {"all", "nothing"}, Modify(v, these),
         NEW q \in Requests, Follows(q),
         HasPath(q) /\ task[q].video # v => v \in task'[q].since
  PROVE  Outlives(q)'
<1>0. PICK u : u = task[q].video
  OBVIOUS
<1>1. Outlives(q) /\ Locks(q)
  BY InvParts DEF Fine
<1>2. Holder(q)' => Holder(q)
  BY DEF Holder, HasPath, At, Follows
<1>3. IsFiniteSet(task'[q].since) /\ (Enough(q) => Enough(q)')
  <2>1. IsFiniteSet(task[q].since) /\ IsFiniteSet(task'[q].since)
        /\ Cardinality(task'[q].since) >= Cardinality(task[q].since)
    BY <1>1 DEF Outlives, Follows
  <2>2. Cardinality(task[q].since) \in Nat /\ Cardinality(task'[q].since) \in Nat
    BY <2>1, FS_CardinalityType
  <2> QED
    BY <2>1, <2>2, Limits DEF Enough
<1>4. ASSUME HasPath(q), Newest(q)
      PROVE  Newest(q)'
  <2>1. u \in Videos
    BY <1>0, <1>1, <1>4 DEF Locks, HasPath, At
  <2>2. Cached(u) /\ \A g \in Videos : mtime[g] > mtime[u] => g \in task[q].since
    BY <1>0, <1>4 DEF Newest
  <2>3. task'[q].video = u /\ task[q].since \subseteq task'[q].since /\ (u # v => v \in task'[q].since)
    BY <1>0, <1>4 DEF Follows
  <2>4. /\ Cached(v)' /\ mtime' \in [Videos -> Nat] /\ \A g \in Videos : mtime'[g] <= mtime'[v]
        /\ \A w \in Videos \ {v} : (Cached(w)' <=> Cached(w)) /\ mtime'[w] = mtime[w]
    BY ModifyDated
  <2>5. Cached(u)'
    BY <2>1, <2>2, <2>4
  <2>6. ASSUME NEW g \in Videos, mtime'[g] > mtime'[u]
        PROVE  g \in task'[q].since
    <3>1. u # v
      BY <2>1, <2>4, <2>6
    <3>2. CASE g = v
      BY <2>3, <3>1, <3>2
    <3>3. CASE g # v
      BY <2>1, <2>2, <2>3, <2>4, <2>6, <3>1, <3>3
    <3> QED
      BY <3>2, <3>3
  <2> QED
    BY <2>3, <2>5, <2>6 DEF Newest, Cached, Exists
<1> QED
  BY <1>1, <1>2, <1>3, <1>4 DEF Outlives, Holder

\* ... or a file is removed that nobody needs.
LEMMA OutlivesRemove ==
  ASSUME AudioInv, NEW f \in Videos, Remove(f), NEW q \in Requests, Follows(q),
         Holder(q) /\ task[q].video = f => Enough(q)
  PROVE  Outlives(q)'
<1>0. PICK u : u = task[q].video
  OBVIOUS
<1>1. Outlives(q) /\ Locks(q)
  BY InvParts DEF Fine
<1>2. Holder(q)' => Holder(q)
  BY DEF Holder, HasPath, At, Follows
<1>3. IsFiniteSet(task'[q].since) /\ (Enough(q) => Enough(q)')
  <2>1. IsFiniteSet(task[q].since) /\ IsFiniteSet(task'[q].since)
        /\ Cardinality(task'[q].since) >= Cardinality(task[q].since)
    BY <1>1 DEF Outlives, Follows
  <2>2. Cardinality(task[q].since) \in Nat /\ Cardinality(task'[q].since) \in Nat
    BY <2>1, FS_CardinalityType
  <2> QED
    BY <2>1, <2>2, Limits DEF Enough
<1>4. ASSUME HasPath(q), Newest(q), u # f
      PROVE  Newest(q)'
  <2>1. u \in Videos
    BY <1>0, <1>1, <1>4 DEF Locks, HasPath, At
  <2>2. Cached(u) /\ \A g \in Videos : mtime[g] > mtime[u] => g \in task[q].since
    BY <1>0, <1>4 DEF Newest
  <2>3. task'[q].video = u /\ task[q].since \subseteq task'[q].since
    BY <1>0 DEF Follows
  <2>4. /\ mtime' \in [Videos -> Nat] /\ mtime'[f] = 0
        /\ \A w \in Videos \ {f} : (Cached(w)' <=> Cached(w)) /\ mtime'[w] = mtime[w]
    BY RemoveDated
  <2>5. Cached(u)'
    BY <1>4, <2>1, <2>2, <2>4
  <2>6. ASSUME NEW g \in Videos, mtime'[g] > mtime'[u]
        PROVE  g \in task'[q].since
    <3>1. g # f
      BY <2>1, <2>4, <2>6
    <3> QED
      BY <1>4, <2>1, <2>2, <2>3, <2>4, <2>6, <3>1
  <2> QED
    BY <2>3, <2>5, <2>6 DEF Newest, Cached, Exists
<1> QED
  BY <1>0, <1>1, <1>2, <1>3, <1>4 DEF Outlives, Holder

-----------------------------------------------------------------------------
(* What lookups have read, and whom they meet.                             *)

\* A lookup's reading stays true while the files it may have seen stay, ...
LEMMA ReadsStay ==
  ASSUME AudioInv, NEW q \in Requests, Follows(q), look'[q] = look[q],
         Reading(q) =>
           /\ \A f \in Files : Cached(f)' /\ mtime'[f] = mtime[f]
           /\ \A p \in Requests : Holder(p)' =>
                \/ Holder(p) /\ task'[p].video = task[p].video
                \/ task'[p].video \notin Files
  PROVE  Reads(q)'
<1> SUFFICES ASSUME Reading(q)'
             PROVE  /\ \A f \in look'[q].unseen : f \in Files' /\ look'[q].snap[f] = 0
                    /\ \A f \in Videos : look'[q].snap[f] # 0 =>
                         Cached(f)' /\ look'[q].snap[f] = mtime'[f]
                    /\ \A f \in look'[q].counted : look'[q].snap[f] # 0
                    /\ task'[q].at = "expire" =>
                         /\ look'[q].old \in Files' \ look'[q].unseen
                         /\ look'[q].snap[look'[q].old] = 0
                         /\ \A p \in Requests : Holder(p)' => task'[p].video # look'[q].old
  BY DEF Reads
<1>1. Reading(q) /\ task'[q].at = task[q].at
  BY DEF Reading, Follows
<1>2. /\ \A f \in look[q].unseen : f \in Files /\ look[q].snap[f] = 0
      /\ \A f \in Videos : look[q].snap[f] # 0 => Cached(f) /\ look[q].snap[f] = mtime[f]
      /\ \A f \in look[q].counted : look[q].snap[f] # 0
      /\ task[q].at = "expire" =>
           /\ look[q].old \in Files \ look[q].unseen /\ look[q].snap[look[q].old] = 0
           /\ \A p \in Requests : Holder(p) => task[p].video # look[q].old
  BY <1>1, InvParts DEF Reads
<1>3. Files \subseteq Files'
  BY <1>1 DEF Files
<1>4. \A f \in Videos : look'[q].snap[f] # 0 => Cached(f)' /\ look'[q].snap[f] = mtime'[f]
  BY <1>1, <1>2 DEF Files
<1> QED
  BY <1>1, <1>2, <1>3, <1>4

\* ... and so does what is known of those it meets.
LEMMA MeetsStay ==
  ASSUME AudioInv, NEW q \in Requests, NEW p \in Requests, Follows(q), Follows(p),
         look'[q] = look[q]
  PROVE  Meets(q, p)'
<1> SUFFICES ASSUME Reading(q)', Holder(p)'
             PROVE  \/ Enough(p)'
                    \/ task'[q].video \in task'[p].since \/ task'[q].video = task'[p].video
                    \/ /\ task'[p].video \notin look'[q].unseen
                       /\ look'[q].snap[task'[p].video] = 0
  BY DEF Meets
<1>1. /\ Reading(q) /\ Holder(p)
      /\ task'[q].video = task[q].video /\ task'[p].video = task[p].video
      /\ task[p].since \subseteq task'[p].since
  BY DEF Reading, Holder, HasPath, At, Follows
<1>2. Enough(p) => Enough(p)'
  <2>1. /\ IsFiniteSet(task[p].since) /\ IsFiniteSet(task'[p].since)
        /\ Cardinality(task'[p].since) >= Cardinality(task[p].since)
    BY InvParts DEF Fine, Outlives, Follows
  <2>2. Cardinality(task[p].since) \in Nat /\ Cardinality(task'[p].since) \in Nat
    BY <2>1, FS_CardinalityType
  <2> QED
    BY <2>1, <2>2, Limits DEF Enough
<1>3. Meets(q, p)
  BY InvParts
<1> QED
  BY <1>1, <1>2, <1>3 DEF Meets

\* A step of r: what there is to show.
LEMMA StepKeeps ==
  ASSUME AudioInv, NEW r \in Requests,
         AudioTyped', Dated', SlotsInUse',
         \A q \in Requests \ {r} :
           /\ Follows(q) /\ look'[q] = look[q] /\ Locks(q)' /\ Holds(q)' /\ Outlives(q)'
           /\ Reading(q)' =>
                /\ \A f \in Files : Cached(f)' /\ mtime'[f] = mtime[f]
                /\ \A p \in Requests : Holder(p)' =>
                     \/ Holder(p) /\ task'[p].video = task[p].video
                     \/ task'[p].video \notin Files
           /\ Cross(q, r)' /\ Cross(r, q)' /\ Meets(q, r)' /\ Meets(r, q)',
         \/ \A q \in Requests \ {r} : task'[q].crossed = task[q].crossed
         \/ \A q \in Requests : (InLookup(q) \/ HasPath(q))' => task'[q].crossed,
         Locks(r)', Holds(r)', Outlives(r)', Reads(r)'
  PROVE  AudioInv'
<1>1. AllFine'
  <2>1. \A q \in Requests : Fine(q)'
    BY DEF Fine
  <2> QED
    BY <2>1 DEF AllFine
<1>2. AllReads'
  <2>1. ASSUME NEW q \in Requests \ {r}
        PROVE  Reads(q)'
    <3>1. CASE Reading(q)'
      BY <3>1, ReadsStay
    <3>2. CASE ~Reading(q)'
      BY <3>2 DEF Reads
    <3> QED
      BY <3>1, <3>2
  <2> QED
    BY <2>1 DEF AllReads
<1>3. ASSUME NEW q \in Requests, NEW p \in Requests
      PROVE  Cross(q, p)' /\ Meets(q, p)'
  <2>1. CASE q = r /\ p = r
    <3>1. ~(InLookup(r)' /\ HasPath(r)') /\ ~(Reading(r)' /\ Holder(r)')
      BY DEF InLookup, HasPath, Reading, Holder, At, LookSteps
    <3> QED
      BY <2>1, <3>1 DEF Cross, Meets
  <2>2. CASE q # r /\ p # r
    <3>1. Meets(q, p)'
      BY <2>2, MeetsStay
    <3>2. Cross(q, p)
      BY InvParts
    <3>3. CASE \A s \in Requests : (InLookup(s) \/ HasPath(s))' => task'[s].crossed
      BY <3>1, <3>3 DEF Cross
    <3>4. CASE \A s \in Requests \ {r} : task'[s].crossed = task[s].crossed
      <4>1. /\ task'[q].at = task[q].at /\ task'[q].crossed = task[q].crossed
            /\ task'[p].at = task[p].at /\ task'[p].crossed = task[p].crossed
        BY <2>2, <3>4 DEF Follows
      <4> QED
        BY <3>1, <3>2, <4>1 DEF Cross, InLookup, HasPath, At
    <3> QED
      BY <3>3, <3>4
  <2> QED
    BY <2>1, <2>2
<1> QED
  BY <1>1, <1>2, <1>3 DEF AudioInv, AllMeet

\* A step that moves r alone and leaves the finished files, to where r reads nothing
\* and has no path.
LEMMA CalmKeeps ==
  ASSUME AudioInv, NEW r \in Requests, NEW rec \in Task,
         task' = [task EXCEPT ![r] = rec],
         dir' \in [Videos -> [Kinds -> Contents]], Same,
         look' \in [Requests -> Look], \A q \in Requests \ {r} : look'[q] = look[q],
         videoLock' \in [Videos -> Requests \cup {Nothing}],
         downloading' \subseteq Requests, SlotsInUse',
         \A q \in Requests \ {r} :
           /\ q \in downloading => q \in downloading'
           /\ task[q].at \in Locking => videoLock'[task[q].video] = videoLock[task[q].video],
         rec.at \notin {"stat", "expire", "have"},
         rec.at = "touch" => InLookup(r) /\ rec.crossed = task[r].crossed,
         IsFiniteSet(rec.since), Locks(r)', Holds(r)'
  PROVE  AudioInv'
<1>1. task' \in [Requests -> Task] /\ task'[r] = rec /\ \A q \in Requests \ {r} : task'[q] = task[q]
  BY InvParts
<1>2. /\ mtime' \in [Videos -> Nat] /\ clock' \in Nat /\ Dated' /\ Files' = Files
      /\ \A v \in Videos : Cached(v)' <=> Cached(v)
  BY InvParts, SameDated DEF Same
<1>3. AudioTyped'
  BY <1>1, <1>2 DEF AudioTyped
<1>4. /\ ~HasPath(r)' /\ ~Holder(r)' /\ ~Reading(r)' /\ Outlives(r)' /\ Reads(r)'
      /\ InLookup(r)' => InLookup(r) /\ task'[r].crossed = task[r].crossed
  BY <1>1 DEF HasPath, Holder, Reading, Outlives, Reads, InLookup, LookSteps, At
<1>5. ASSUME NEW q \in Requests \ {r}
      PROVE  /\ Follows(q) /\ look'[q] = look[q] /\ Locks(q)' /\ Holds(q)' /\ Outlives(q)'
             /\ Reading(q)' =>
                  /\ \A f \in Files : Cached(f)' /\ mtime'[f] = mtime[f]
                  /\ \A p \in Requests : Holder(p)' =>
                       Holder(p) /\ task'[p].video = task[p].video
             /\ Cross(q, r)' /\ Cross(r, q)' /\ Meets(q, r)' /\ Meets(r, q)'
             /\ task'[q].crossed = task[q].crossed
  <2>1. Follows(q) /\ task'[q] = task[q]
    BY <1>1, StayFollows
  <2>2. Outlives(q)'
    BY <2>1, OutlivesSame
  <2>3. Locks(q)' /\ Holds(q)'
    <3>1. task[q].at \in Locking => task[q].video \in Videos
      BY InvParts DEF Fine, Locks
    <3>2. PICK u : u = task[q].video
      OBVIOUS
    <3>3. task[q].at \in {"api", "apiWrite", "fallback"} /\ ~Cached(u) => ~Cached(u)'
      BY <1>2, <3>1, <3>2 DEF Locking
    <3>4. task[q].at \in {"api", "apiWrite", "fallback"} /\ ~Cached(task[q].video)
            => ~Cached(task[q].video)'
      BY <2>1, <3>2, <3>3 DEF Cached, Exists
    <3> QED
      BY <2>1, <3>4, LocksStay
  <2>4. /\ \A f \in Files : Cached(f)' /\ mtime'[f] = mtime[f]
        /\ \A p \in Requests : Holder(p)' => Holder(p) /\ task'[p].video = task[p].video
    BY <1>1, <1>2, <1>4 DEF Files, Same, Holder, HasPath, At
  <2>5. Cross(q, r) /\ Cross(r, q)
    BY InvParts
  <2>6. Cross(q, r)' /\ Cross(r, q)'
    BY <1>4, <2>1, <2>5 DEF Cross, InLookup, HasPath, At
  <2>7. Meets(q, r)' /\ Meets(r, q)'
    BY <1>4 DEF Meets
  <2> QED
    BY <2>1, <2>2, <2>3, <2>4, <2>6, <2>7
<1> QED
  BY <1>2, <1>3, <1>4, <1>5, StepKeeps

-----------------------------------------------------------------------------
(* A lookup.                                                               *)

\* What Crossing does: either lookups overlap, and all that have to do with it know,
\* or r's is the only one.
LEMMA CrossingOthers ==
  ASSUME AudioInv, NEW v \in Videos, NEW r \in Requests, NEW rec \in Task,
         rec.crossed = FALSE, rec.at = "stat", task' = Crossing(v, r, rec)
  PROVE  /\ task' \in [Requests -> Task]
         /\ task'[r].at = "stat" /\ task'[r].video = rec.video /\ task'[r].stage = rec.stage
         /\ task'[r].path = rec.path /\ task'[r].since = rec.since
         /\ \A q \in Requests \ {r} :
              /\ Follows(q)
              /\ HasPath(q) /\ task[q].video # v => v \in task'[q].since
         /\ \/ \A q \in Requests : (InLookup(q) \/ HasPath(q))' => task'[q].crossed
            \/ /\ \A q \in Requests \ {r} : ~InLookup(q) /\ task'[q].crossed = task[q].crossed
               /\ ~task'[r].crossed
<1> DEFINE noted == Noting(v, r, rec)
<1>1. /\ noted \in [Requests -> Task] /\ noted[r] = rec
      /\ \A q \in Requests \ {r} :
           /\ noted[q] = IF task[q].at \in {"touch", "have"} /\ task[q].video # v
                         THEN [task[q] EXCEPT !.since = @ \cup {v}] ELSE task[q]
           /\ noted[q].at = task[q].at /\ noted[q].video = task[q].video
           /\ noted[q].stage = task[q].stage /\ noted[q].path = task[q].path
           /\ noted[q].login = task[q].login /\ noted[q].crossed = task[q].crossed
           /\ noted[q].since = IF task[q].at \in {"touch", "have"} /\ task[q].video # v
                               THEN task[q].since \cup {v} ELSE task[q].since
  <2>1. task \in [Requests -> Task]
    BY InvParts
  <2>2. ASSUME NEW q \in Requests
        PROVE  LET rec2 == [task[q] EXCEPT !.since = @ \cup {v}]
               IN  /\ rec2 \in Task
                   /\ rec2.at = task[q].at /\ rec2.video = task[q].video
                   /\ rec2.stage = task[q].stage /\ rec2.path = task[q].path
                   /\ rec2.login = task[q].login /\ rec2.crossed = task[q].crossed
                   /\ rec2.since = task[q].since \cup {v}
    BY <2>1, <2>2 DEF Task
  <2>3. noted \in [Requests -> Task] /\ noted[r] = rec
    BY <2>1, <2>2 DEF Noting
  <2>4. ASSUME NEW q \in Requests \ {r}
        PROVE  /\ noted[q] = IF task[q].at \in {"touch", "have"} /\ task[q].video # v
                             THEN [task[q] EXCEPT !.since = @ \cup {v}] ELSE task[q]
               /\ noted[q].at = task[q].at /\ noted[q].video = task[q].video
               /\ noted[q].stage = task[q].stage /\ noted[q].path = task[q].path
               /\ noted[q].login = task[q].login /\ noted[q].crossed = task[q].crossed
               /\ noted[q].since = IF task[q].at \in {"touch", "have"} /\ task[q].video # v
                                   THEN task[q].since \cup {v} ELSE task[q].since
    <3>1. noted[q] = IF task[q].at \in {"touch", "have"} /\ task[q].video # v
                     THEN [task[q] EXCEPT !.since = @ \cup {v}] ELSE task[q]
      BY DEF Noting
    <3> QED
      BY <2>2, <3>1
  <2> QED
    BY <2>3, <2>4
<1> HIDE DEF noted
<1>2. PICK met \in BOOLEAN : met <=> \E q \in Requests \ {r} : InLookup(q)
  OBVIOUS
<1>3. task' = IF met THEN [q \in Requests |-> IF q = r \/ InLookup(q) \/ HasPath(q)
                                              THEN [noted[q] EXCEPT !.crossed = TRUE]
                                              ELSE noted[q]]
              ELSE noted
  BY <1>2 DEF Crossing, noted
<1>4. ASSUME NEW q \in Requests
      PROVE  LET rec2 == [noted[q] EXCEPT !.crossed = TRUE]
             IN  /\ rec2 \in Task /\ rec2.crossed
                 /\ rec2.at = noted[q].at /\ rec2.video = noted[q].video
                 /\ rec2.stage = noted[q].stage /\ rec2.path = noted[q].path
                 /\ rec2.login = noted[q].login /\ rec2.since = noted[q].since
  BY <1>1, <1>4 DEF Task
<1>5. ASSUME NEW q \in Requests
      PROVE  /\ task'[q] \in Task
             /\ task'[q].at = noted[q].at /\ task'[q].video = noted[q].video
             /\ task'[q].stage = noted[q].stage /\ task'[q].path = noted[q].path
             /\ task'[q].login = noted[q].login /\ task'[q].since = noted[q].since
             /\ task'[q].crossed =
                  IF met /\ (q = r \/ InLookup(q) \/ HasPath(q)) THEN TRUE ELSE noted[q].crossed
  <2>1. CASE met /\ (q = r \/ InLookup(q) \/ HasPath(q))
    <3>1. task'[q] = [noted[q] EXCEPT !.crossed = TRUE]
      BY <1>3, <2>1
    <3> QED
      BY <1>4, <2>1, <3>1
  <2>2. CASE ~(met /\ (q = r \/ InLookup(q) \/ HasPath(q)))
    <3>1. task'[q] = noted[q]
      BY <1>1, <1>3, <2>2
    <3> QED
      BY <1>1, <2>2, <3>1
  <2> QED
    BY <2>1, <2>2
<1>6. task' \in [Requests -> Task]
  <2>1. \E f : task' = [q \in Requests |-> f[q]]
    <3>1. task' = [q \in Requests |-> task'[q]]
      BY <1>1, <1>3
    <3> QED
      BY <3>1
  <2> QED
    BY <1>5, <2>1
<1>7. ASSUME NEW q \in Requests \ {r}
      PROVE  /\ Follows(q)
             /\ HasPath(q) /\ task[q].video # v => v \in task'[q].since
  <2>1. /\ task'[q].at = task[q].at /\ task'[q].video = task[q].video
        /\ task'[q].stage = task[q].stage /\ task'[q].path = task[q].path
        /\ task'[q].login = task[q].login
        /\ task'[q].since = IF task[q].at \in {"touch", "have"} /\ task[q].video # v
                            THEN task[q].since \cup {v} ELSE task[q].since
    <3>1. /\ task'[q].at = noted[q].at /\ task'[q].video = noted[q].video
          /\ task'[q].stage = noted[q].stage /\ task'[q].path = noted[q].path
          /\ task'[q].login = noted[q].login /\ task'[q].since = noted[q].since
      BY <1>5
    <3>2. /\ noted[q].at = task[q].at /\ noted[q].video = task[q].video
          /\ noted[q].stage = task[q].stage /\ noted[q].path = task[q].path
          /\ noted[q].login = task[q].login
          /\ noted[q].since = IF task[q].at \in {"touch", "have"} /\ task[q].video # v
                              THEN task[q].since \cup {v} ELSE task[q].since
      BY <1>1
    <3> QED
      BY <3>1, <3>2
  <2>6. task[q].crossed => task'[q].crossed
    <3>1. CASE met /\ (q = r \/ InLookup(q) \/ HasPath(q))
      BY <1>5, <3>1
    <3>2. CASE ~(met /\ (q = r \/ InLookup(q) \/ HasPath(q)))
      <4>1. task'[q].crossed = noted[q].crossed
        BY <1>5, <3>2
      <4> QED
        BY <1>1, <4>1
    <3> QED
      BY <3>1, <3>2
  <2>2. IsFiniteSet(task[q].since) =>
          /\ IsFiniteSet(task[q].since \cup {v})
          /\ Cardinality(task[q].since) \in Nat
          /\ Cardinality(task[q].since \cup {v}) >= Cardinality(task[q].since)
    BY OneMore
  <2>3. HasPath(q) => task[q].at = "have"
    BY DEF HasPath, At
  <2>4. CASE task[q].at \in {"touch", "have"} /\ task[q].video # v
    BY <2>1, <2>2, <2>4, <2>6 DEF Follows
  <2>5. CASE ~(task[q].at \in {"touch", "have"} /\ task[q].video # v)
    BY <2>1, <2>2, <2>3, <2>5, <2>6 DEF Follows
  <2> QED
    BY <2>4, <2>5
<1>8. CASE met
  <2>1. ASSUME NEW q \in Requests, (InLookup(q) \/ HasPath(q))'
        PROVE  task'[q].crossed
    <3>1. q = r \/ InLookup(q) \/ HasPath(q)
      BY <1>7, <2>1 DEF Follows, InLookup, HasPath, At
    <3> QED
      BY <1>5, <1>8, <3>1
  <2> QED
    BY <1>1, <1>5, <1>6, <1>7, <2>1
<1>9. CASE ~met
  <2>1. \A q \in Requests \ {r} : ~InLookup(q) /\ task'[q].crossed = task[q].crossed
    BY <1>1, <1>2, <1>5, <1>9
  <2>2. ~task'[r].crossed
    BY <1>1, <1>5, <1>9
  <2> QED
    BY <1>1, <1>5, <1>6, <1>7, <2>1, <2>2
<1> QED
  BY <1>8, <1>9

\* A lookup begins.
LEMMA BeginKeeps ==
  ASSUME AudioInv, NEW r \in Requests, NEW stage \in Stages, BeginLookup(r, stage),
         UNCHANGED files,
         task[r].at \in {"waitLock", "waitSlot", "scan"},
         videoLock' \in [Videos -> Requests \cup {Nothing}],
         videoLock'[task[r].video] = r,
         downloading' \subseteq Requests, SlotsInUse',
         \A q \in Requests \ {r} :
           /\ q \in downloading => q \in downloading'
           /\ task[q].at \in Locking => videoLock'[task[q].video] = videoLock[task[q].video],
         stage # "lock" => r \in downloading'
  PROVE  AudioInv'
<1>0. PICK v : v = task[r].video
  OBVIOUS
<1> DEFINE rec == [task[r] EXCEPT !.at = "stat", !.stage = stage, !.crossed = FALSE]
           now == [NoLook EXCEPT !.unseen = Files]
<1>1. Fine(r) /\ task[r] \in Task /\ v \in Videos
  BY <1>0, InvParts DEF Fine, Locks, Locking
<1>2. /\ rec \in Task /\ rec.at = "stat" /\ rec.video = v /\ rec.stage = stage
      /\ rec.crossed = FALSE /\ rec.since = task[r].since /\ rec.path = task[r].path
  BY <1>0, <1>1 DEF Task, AudioSteps, LookSteps
<1>3. task' = Crossing(v, r, rec) /\ look' = [look EXCEPT ![r] = now]
  BY <1>0 DEF BeginLookup
<1>4. /\ now \in Look /\ now.unseen = Files /\ now.snap = [f \in Videos |-> 0]
      /\ now.counted = {}
  BY DEF NoLook, Look, Files
<1> HIDE DEF rec, now
<1>5. /\ task' \in [Requests -> Task]
      /\ task'[r].at = "stat" /\ task'[r].video = v /\ task'[r].stage = stage
      /\ task'[r].since = task[r].since
      /\ \A q \in Requests \ {r} :
           /\ Follows(q)
           /\ HasPath(q) /\ task[q].video # v => v \in task'[q].since
      /\ \/ \A q \in Requests : (InLookup(q) \/ HasPath(q))' => task'[q].crossed
         \/ /\ \A q \in Requests \ {r} : ~InLookup(q) /\ task'[q].crossed = task[q].crossed
            /\ ~task'[r].crossed
  BY <1>1, <1>2, <1>3, CrossingOthers
<1>6. Same
  BY DEF Same, files
<1>7. look' \in [Requests -> Look] /\ look'[r] = now /\ \A q \in Requests \ {r} : look'[q] = look[q]
  BY <1>3, <1>4, InvParts
<1>8. /\ Dated' /\ Files' = Files /\ \A f \in Videos : Cached(f)' <=> Cached(f)
  BY <1>6, SameDated
<1>9. AudioTyped'
  BY <1>5, <1>7, InvParts DEF AudioTyped, files
<1>10. Locks(r)' /\ Holds(r)' /\ Outlives(r)'
  <2>1. videoLock'[v] = r
    BY <1>0
  <2>2. Locks(r)'
    BY <1>1, <1>5, <2>1 DEF Locks, Locking
  <2>3. Holds(r)'
    BY <1>5 DEF Holds, Locking
  <2>4. Outlives(r)'
    BY <1>1, <1>5 DEF Fine, Outlives, Holder, HasPath, At
  <2> QED
    BY <2>2, <2>3, <2>4
<1>11. Reads(r)'
  <2>1. /\ look'[r].unseen = Files' /\ look'[r].counted = {} /\ task'[r].at = "stat"
        /\ \A f \in Videos : look'[r].snap[f] = 0
        /\ Files' \subseteq Videos
    BY <1>4, <1>5, <1>7, <1>8 DEF Files
  <2> QED
    BY <2>1 DEF Reads
<1>12. ASSUME NEW q \in Requests \ {r}
       PROVE  /\ Locks(q)' /\ Holds(q)' /\ Outlives(q)'
              /\ ~Reading(q)'
              /\ Cross(q, r)' /\ Cross(r, q)' /\ Meets(q, r)' /\ Meets(r, q)'
  <2>1. Follows(q) /\ (HasPath(q) /\ task[q].video # v => v \in task'[q].since)
    BY <1>5
  <2>2. Outlives(q)'
    BY <1>6, <2>1, OutlivesSame
  <2>3. Locks(q)' /\ Holds(q)'
    <3>1. task[q].at \in Locking => task[q].video \in Videos
      BY InvParts DEF Fine, Locks
    <3>2. PICK u : u = task[q].video
      OBVIOUS
    <3>3. task[q].at \in {"api", "apiWrite", "fallback"} /\ ~Cached(u) => ~Cached(u)'
      BY <1>8, <3>1, <3>2 DEF Locking
    <3>4. task'[q].video = u
      BY <2>1, <3>2 DEF Follows
    <3>5. task[q].at \in {"api", "apiWrite", "fallback"} /\ ~Cached(task[q].video)
            => ~Cached(task[q].video)'
      BY <3>2, <3>3, <3>4 DEF Cached, Exists
    <3> QED
      BY <2>1, <3>5, LocksStay
  <2>4. task'[q].at = task[q].at /\ task'[q].video = task[q].video
    BY <2>1 DEF Follows
  <2>5. ~HasPath(r)' /\ ~Holder(r)'
    BY <1>5 DEF HasPath, Holder, At
  <2>6. CASE \A p \in Requests : (InLookup(p) \/ HasPath(p))' => task'[p].crossed
    <3>1. ~Reading(q)' /\ ~Reading(r)' /\ ~Holder(q)'
      BY <2>6 DEF Reading, Holder, InLookup, LookSteps
    <3> QED
      BY <2>2, <2>3, <2>5, <2>6, <3>1 DEF Cross, Meets
  <2>7. CASE ~InLookup(q) /\ ~task'[r].crossed
    <3>1. ~InLookup(q)' /\ ~Reading(q)'
      BY <2>4, <2>7 DEF InLookup, Reading, LookSteps
    <3>2. Cross(q, r)' /\ Cross(r, q)' /\ Meets(q, r)'
      BY <2>5, <2>7, <3>1 DEF Cross, Meets
    <3>3. Meets(r, q)'
      <4>1. Holder(q)' => HasPath(q)
        BY <2>4 DEF Holder, HasPath, At
      <4> QED
        BY <1>5, <2>1, <2>4, <4>1 DEF Meets
    <3> QED
      BY <2>2, <2>3, <3>1, <3>2, <3>3
  <2> QED
    BY <1>5, <2>6, <2>7
<1> QED
  BY <1>5, <1>7, <1>8, <1>9, <1>10, <1>11, <1>12, StepKeeps

\* A lookup goes on: it reads, or removes files.
LEMMA LookKeeps ==
  ASSUME AudioInv, NEW r \in Requests, NEW at \in {"stat", "expire"}, NEW now \in Look,
         task[r].at \in {"stat", "expire"},
         task' = [task EXCEPT ![r].at = at], look' = [look EXCEPT ![r] = now],
         UNCHANGED <<videoLock, downloading>>,
         dir' \in [Videos -> [Kinds -> Contents]],
         mtime' \in [Videos -> Nat], clock' \in Nat, Dated',
         \A f \in Videos : Cached(f)' => Cached(f),
         \A q \in Requests : Follows(q) => Outlives(q)',
         Reads(r)',
         \A q \in Requests \ {r} : Meets(r, q)'
  PROVE  AudioInv'
<1> DEFINE rec == [task[r] EXCEPT !.at = at]
<1>1. Fine(r) /\ task[r] \in Task
  BY InvParts
<1>2. /\ rec \in Task /\ rec.at = at /\ rec.video = task[r].video /\ rec.stage = task[r].stage
      /\ rec.path = task[r].path /\ rec.since = task[r].since /\ rec.crossed = task[r].crossed
  BY <1>1 DEF Task, AudioSteps, LookSteps
<1>3. /\ task' \in [Requests -> Task] /\ task'[r] = rec
      /\ \A q \in Requests \ {r} : task'[q] = task[q]
  BY <1>2, InvParts
<1> HIDE DEF rec
<1>4. look' \in [Requests -> Look] /\ \A q \in Requests \ {r} : look'[q] = look[q]
  BY InvParts
<1>5. AudioTyped' /\ SlotsInUse'
  BY <1>3, <1>4, InvParts DEF AudioTyped, SlotsInUse
<1>6. Locks(r)' /\ Holds(r)'
  BY <1>1, <1>2, <1>3 DEF Fine, Locks, Holds, Locking
<1>7. Outlives(r)'
  BY <1>1, <1>2, <1>3 DEF Fine, Outlives, Holder, HasPath, At
<1>8. InLookup(r) /\ ~HasPath(r)' /\ ~Holder(r)'
  BY <1>2, <1>3 DEF InLookup, LookSteps, HasPath, Holder, At
<1>9. ASSUME NEW q \in Requests \ {r}
      PROVE  /\ Follows(q) /\ look'[q] = look[q] /\ Locks(q)' /\ Holds(q)' /\ Outlives(q)'
             /\ ~Reading(q)'
             /\ Cross(q, r)' /\ Cross(r, q)' /\ Meets(q, r)' /\ Meets(r, q)'
             /\ task'[q].crossed = task[q].crossed
  <2>1. Follows(q) /\ task'[q] = task[q]
    BY <1>3, StayFollows
  <2>2. Locks(q)' /\ Holds(q)'
    <3>1. task[q].at \in Locking => task[q].video \in Videos
      BY InvParts DEF Fine, Locks
    <3>2. PICK u : u = task[q].video
      OBVIOUS
    <3>3. task[q].at \in {"api", "apiWrite", "fallback"} /\ ~Cached(u) => ~Cached(u)'
      BY <3>1, <3>2 DEF Locking
    <3>4. task[q].at \in {"api", "apiWrite", "fallback"} /\ ~Cached(task[q].video)
            => ~Cached(task[q].video)'
      BY <2>1, <3>2, <3>3 DEF Cached, Exists
    <3> QED
      BY <2>1, <3>4, LocksStay
  <2>3. ~Reading(q)'
    <3>1. ~task[q].crossed => ~InLookup(q)
      BY <1>8, Alone
    <3> QED
      BY <2>1, <3>1 DEF Reading, InLookup, LookSteps
  <2>4. Cross(q, r) /\ Cross(r, q)
    BY InvParts
  <2>5. Cross(q, r)' /\ Cross(r, q)'
    BY <1>2, <1>3, <1>8, <2>1, <2>4 DEF Cross, InLookup, HasPath, At
  <2>6. Meets(q, r)'
    BY <1>8 DEF Meets
  <2> QED
    BY <1>4, <2>1, <2>2, <2>3, <2>5, <2>6
<1> QED
  BY <1>5, <1>6, <1>7, <1>9, StepKeeps

\* What a lookup reads before a step and after it, as it stands in the invariant.
LEMMA LookTyped ==
  ASSUME AudioInv, NEW r \in Requests
  PROVE  /\ look[r] \in Look
         /\ look[r].unseen \subseteq Videos /\ look[r].snap \in [Videos -> Nat]
         /\ look[r].counted \subseteq Videos /\ look[r].old \in Videos \cup {Nothing}
BY InvParts DEF Look

\* It looks at a file.
LEMMA StatKeeps ==
  ASSUME AudioInv, NEW r \in Requests, Stat(r)
  PROVE  AudioInv'
<1>1. task[r].at = "stat" /\ UNCHANGED <<files, videoLock, downloading>>
  BY DEF Stat, At
<1>2. PICK v \in look[r].unseen :
        \/ /\ ~Cached(v)
           /\ look' = [look EXCEPT ![r].unseen = look[r].unseen \ {v}]
           /\ UNCHANGED task
        \/ /\ Cached(v) /\ MayBeOld(v)
           /\ look' = [look EXCEPT ![r].unseen = look[r].unseen \ {v}, ![r].old = v]
           /\ Move(r, "expire")
        \/ /\ Cached(v)
           /\ look' = [look EXCEPT ![r].unseen = look[r].unseen \ {v}, ![r].snap[v] = mtime[v],
                                   ![r].counted = @ \cup {v}]
           /\ UNCHANGED task
  BY DEF Stat
<1>3. /\ look[r] \in Look /\ look \in [Requests -> Look]
      /\ look[r].unseen \subseteq Videos /\ look[r].snap \in [Videos -> Nat]
      /\ look[r].counted \subseteq Videos /\ look[r].old \in Videos \cup {Nothing}
      /\ v \in Videos
  BY LookTyped, InvParts
<1>4. Same
  BY <1>1 DEF Same, files
<1>5. /\ dir' \in [Videos -> [Kinds -> Contents]]
      /\ mtime' \in [Videos -> Nat] /\ clock' \in Nat /\ Dated'
      /\ Files' = Files /\ \A f \in Videos : Cached(f)' <=> Cached(f)
  BY <1>1, <1>4, SameDated, InvParts DEF files
<1>6. \A q \in Requests : Follows(q) => Outlives(q)'
  BY <1>4, OutlivesSame
<1>7. task \in [Requests -> Task] /\ task[r] \in Task
  BY InvParts
<1>8. ~task[r].crossed =>
        /\ \A f \in look[r].unseen : f \in Files /\ look[r].snap[f] = 0
        /\ \A f \in Videos : look[r].snap[f] # 0 => Cached(f) /\ look[r].snap[f] = mtime[f]
        /\ \A f \in look[r].counted : look[r].snap[f] # 0
  BY <1>1, InvParts DEF Reads, Reading
<1>9. \A q \in Requests : Meets(r, q)
  BY InvParts
<1>10. /\ \A f \in Videos : Cached(f) <=> mtime[f] # 0
       /\ mtime \in [Videos -> Nat]
  BY InvParts DEF Dated
<1>11. ASSUME NEW at \in {"stat", "expire"}, NEW now \in Look, look' = [look EXCEPT ![r] = now],
              task' = [task EXCEPT ![r].at = at],
              now.unseen = look[r].unseen \ {v},
              \/ now.snap = look[r].snap /\ now.counted = look[r].counted
              \/ /\ now.snap = [look[r].snap EXCEPT ![v] = mtime[v]]
                 /\ now.counted = look[r].counted \cup {v} /\ Cached(v),
              at = "expire" => now.old = v /\ now.snap = look[r].snap /\ Cached(v) /\ MayBeOld(v)
       PROVE  AudioInv'
  <2>1. look'[r] = now
    BY <1>3, <1>11
  <2>2. /\ task'[r].at = at /\ task'[r].video = task[r].video
        /\ task'[r].crossed = task[r].crossed
        /\ \A q \in Requests \ {r} : task'[q] = task[q]
    BY <1>7, <1>11 DEF Task
  <2>3. ASSUME ~task[r].crossed
        PROVE  /\ \A f \in now.unseen : f \in Files' /\ now.snap[f] = 0
               /\ \A f \in Videos : now.snap[f] # 0 => Cached(f)' /\ now.snap[f] = mtime'[f]
               /\ \A f \in now.counted : now.snap[f] # 0
               /\ at = "expire" =>
                    /\ now.old \in Files' \ now.unseen /\ now.snap[now.old] = 0
                    /\ \A p \in Requests : Holder(p)' => task'[p].video # now.old
    <3>1. \A f \in now.unseen : f \in Files' /\ now.snap[f] = 0
      BY <1>3, <1>5, <1>8, <1>11, <2>3
    <3>2. mtime' = mtime
      BY <1>1 DEF files
    <3>3. ASSUME NEW f \in Videos
          PROVE  now.snap[f] = look[r].snap[f] \/ (f = v /\ Cached(v) /\ now.snap[f] = mtime[v])
      BY <1>3, <1>11
    <3>4. \A f \in Videos : now.snap[f] # 0 => Cached(f)' /\ now.snap[f] = mtime'[f]
      BY <1>5, <1>8, <2>3, <3>2, <3>3
    <3>5. \A f \in now.counted : now.snap[f] # 0
      BY <1>3, <1>8, <1>10, <1>11, <2>3
    <3>6. ASSUME at = "expire"
          PROVE  /\ now.old \in Files' \ now.unseen /\ now.snap[now.old] = 0
                 /\ \A p \in Requests : Holder(p)' => task'[p].video # now.old
      <4>1. now.old \in Files' \ now.unseen /\ now.snap[now.old] = 0
        BY <1>3, <1>5, <1>8, <1>11, <2>3, <3>6 DEF Files
      <4>2. \A p \in Requests : HasPath(p)' => HasPath(p) /\ task'[p].video = task[p].video
        BY <2>2, <3>6 DEF HasPath, At
      <4> QED
        BY <1>11, <3>6, <4>1, <4>2 DEF MayBeOld, Holder
    <3> QED
      BY <3>1, <3>4, <3>5, <3>6
  <2>4. Reads(r)'
    BY <2>1, <2>2, <2>3 DEF Reads, Reading
  <2>5. ASSUME NEW q \in Requests \ {r}
        PROVE  Meets(r, q)'
    <3> SUFFICES ASSUME Reading(r)', Holder(q)'
                 PROVE  \/ Enough(q)'
                        \/ task'[r].video \in task'[q].since \/ task'[r].video = task'[q].video
                        \/ /\ task'[q].video \notin look'[r].unseen
                           /\ look'[r].snap[task'[q].video] = 0
      BY DEF Meets
    <3>1. /\ task'[q] = task[q] /\ Reading(r) /\ Holder(q)
      BY <1>1, <2>2 DEF Reading, Holder, HasPath, At
    <3>2. \/ Enough(q)
          \/ task[r].video \in task[q].since \/ task[r].video = task[q].video
          \/ task[q].video \notin look[r].unseen /\ look[r].snap[task[q].video] = 0
      BY <1>9, <3>1 DEF Meets
    <3>3. Enough(q) => Enough(q)'
      BY <3>1 DEF Enough
    <3>4. CASE task[q].video \notin look[r].unseen /\ look[r].snap[task[q].video] = 0
      <4>1. task[q].video # v /\ task[q].video \in Videos
        BY <3>1, <3>4, InvParts DEF Holder, HasPath, At, Fine, Locks
      <4>2. now.snap[task[q].video] = 0 /\ task[q].video \notin now.unseen
        BY <1>3, <1>11, <3>4, <4>1
      <4> QED
        BY <2>1, <3>1, <4>2
    <3> QED
      BY <2>2, <3>1, <3>2, <3>3, <3>4
  <2> QED
    BY <1>1, <1>5, <1>6, <1>11, <2>4, <2>5, LookKeeps
<1>12. CASE /\ ~Cached(v) /\ UNCHANGED task
            /\ look' = [look EXCEPT ![r].unseen = look[r].unseen \ {v}]
  <2> DEFINE now == [look[r] EXCEPT !.unseen = look[r].unseen \ {v}]
  <2>1. /\ now \in Look /\ now.unseen = look[r].unseen \ {v}
        /\ now.snap = look[r].snap /\ now.counted = look[r].counted
    BY <1>3 DEF Look
  <2>2. look' = [look EXCEPT ![r] = now] /\ task' = [task EXCEPT ![r].at = "stat"]
    BY <1>1, <1>3, <1>7, <1>12 DEF Task
  <2> HIDE DEF now
  <2> QED
    BY <1>11, <2>1, <2>2
<1>13. CASE /\ Cached(v) /\ MayBeOld(v) /\ Move(r, "expire")
            /\ look' = [look EXCEPT ![r].unseen = look[r].unseen \ {v}, ![r].old = v]
  <2> DEFINE now == [look[r] EXCEPT !.unseen = look[r].unseen \ {v}, !.old = v]
  <2>1. /\ now \in Look /\ now.unseen = look[r].unseen \ {v} /\ now.old = v
        /\ now.snap = look[r].snap /\ now.counted = look[r].counted
    BY <1>3 DEF Look
  <2>2. look' = [look EXCEPT ![r] = now] /\ task' = [task EXCEPT ![r].at = "expire"]
    BY <1>3, <1>13 DEF Move
  <2> HIDE DEF now
  <2> QED
    BY <1>11, <1>13, <2>1, <2>2
<1>14. CASE /\ Cached(v) /\ UNCHANGED task
            /\ look' = [look EXCEPT ![r].unseen = look[r].unseen \ {v}, ![r].snap[v] = mtime[v],
                                    ![r].counted = @ \cup {v}]
  <2> DEFINE now == [look[r] EXCEPT !.unseen = look[r].unseen \ {v}, !.snap[v] = mtime[v],
                                    !.counted = @ \cup {v}]
  <2>1. /\ now \in Look /\ now.unseen = look[r].unseen \ {v}
        /\ now.snap = [look[r].snap EXCEPT ![v] = mtime[v]]
        /\ now.counted = look[r].counted \cup {v}
    BY <1>3, <1>10 DEF Look
  <2>2. look' = [look EXCEPT ![r] = now] /\ task' = [task EXCEPT ![r].at = "stat"]
    BY <1>1, <1>3, <1>7, <1>14 DEF Task
  <2> HIDE DEF now
  <2> QED
    BY <1>11, <1>14, <2>1, <2>2
<1> QED
  BY <1>2, <1>12, <1>13, <1>14

\* It removes a file that nobody needs.
LEMMA RemoveKeeps ==
  ASSUME AudioInv, NEW r \in Requests, NEW f \in Videos, NEW now \in Look, Remove(f),
         task[r].at \in {"stat", "expire"},
         task' = [task EXCEPT ![r].at = "stat"], look' = [look EXCEPT ![r] = now],
         UNCHANGED <<videoLock, downloading>>,
         ~task[r].crossed =>
           /\ now.unseen = look[r].unseen /\ f \notin look[r].unseen
           /\ \A g \in Videos : now.snap[g] = IF g = f THEN 0 ELSE look[r].snap[g]
           /\ now.counted \subseteq look[r].counted \ {f}
           /\ \A q \in Requests : Holder(q) /\ task[q].video = f => Enough(q)
  PROVE  AudioInv'
<1>1. /\ task \in [Requests -> Task] /\ look \in [Requests -> Look] /\ task[r] \in Task
      /\ look[r].unseen \subseteq Videos /\ look[r].counted \subseteq Videos
  BY InvParts, LookTyped
<1>2. /\ look'[r] = now /\ task'[r].at = "stat" /\ task'[r].video = task[r].video
      /\ task'[r].crossed = task[r].crossed
      /\ \A q \in Requests \ {r} : task'[q] = task[q]
  BY <1>1 DEF Task
<1>3. /\ dir' \in [Videos -> [Kinds -> Contents]]
      /\ mtime' \in [Videos -> Nat] /\ clock' \in Nat /\ Dated'
      /\ ~Cached(f)' /\ mtime'[f] = 0
      /\ \A w \in Videos \ {f} : (Cached(w)' <=> Cached(w)) /\ mtime'[w] = mtime[w]
  BY RemoveDated
<1>4. \A w \in Videos : Cached(w)' => Cached(w)
  BY <1>3
<1>5. \A q \in Requests : Holder(q) /\ task[q].video = f => Enough(q)
  <2>1. InLookup(r)
    BY DEF InLookup, LookSteps
  <2>2. CASE task[r].crossed
    BY <2>1, <2>2, Alone
  <2> QED
    BY <2>2
<1>6. \A q \in Requests : Follows(q) => Outlives(q)'
  BY <1>5, OutlivesRemove
<1>7. Reads(r)'
  <2> SUFFICES ASSUME Reading(r)'
               PROVE  /\ \A g \in look'[r].unseen : g \in Files' /\ look'[r].snap[g] = 0
                      /\ \A g \in Videos : look'[r].snap[g] # 0 =>
                           Cached(g)' /\ look'[r].snap[g] = mtime'[g]
                      /\ \A g \in look'[r].counted : look'[r].snap[g] # 0
    BY <1>2 DEF Reads
  <2>1. Reading(r) /\ ~task[r].crossed
    BY <1>2 DEF Reading
  <2>2. /\ \A g \in look[r].unseen : g \in Files /\ look[r].snap[g] = 0
        /\ \A g \in Videos : look[r].snap[g] # 0 => Cached(g) /\ look[r].snap[g] = mtime[g]
        /\ \A g \in look[r].counted : look[r].snap[g] # 0
    BY <2>1, InvParts DEF Reads
  <2>3. ASSUME NEW g \in look'[r].unseen
        PROVE  g \in Files' /\ look'[r].snap[g] = 0
    <3>1. g \in look[r].unseen /\ g # f /\ g \in Videos
      BY <1>1, <1>2, <2>1, <2>3
    <3>2. Cached(g) /\ look[r].snap[g] = 0
      BY <2>2, <3>1 DEF Files
    <3>3. Cached(g)'
      BY <1>3, <3>1, <3>2
    <3> QED
      BY <1>2, <2>1, <3>1, <3>2, <3>3 DEF Files
  <2>4. ASSUME NEW g \in Videos, look'[r].snap[g] # 0
        PROVE  Cached(g)' /\ look'[r].snap[g] = mtime'[g]
    <3>1. g # f /\ look'[r].snap[g] = look[r].snap[g]
      BY <1>2, <2>1, <2>4
    <3> QED
      BY <1>3, <2>2, <2>4, <3>1
  <2>5. \A g \in look'[r].counted : look'[r].snap[g] # 0
    BY <1>1, <1>2, <2>1, <2>2
  <2> QED
    BY <2>3, <2>4, <2>5
<1>8. ASSUME NEW q \in Requests \ {r}
      PROVE  Meets(r, q)'
  <2> SUFFICES ASSUME Reading(r)', Holder(q)'
               PROVE  \/ Enough(q)'
                      \/ task'[r].video \in task'[q].since \/ task'[r].video = task'[q].video
                      \/ /\ task'[q].video \notin look'[r].unseen
                         /\ look'[r].snap[task'[q].video] = 0
    BY DEF Meets
  <2>1. /\ task'[q] = task[q] /\ Reading(r) /\ ~task[r].crossed /\ Holder(q)
        /\ task[q].video \in Videos
    BY <1>2, InvParts DEF Reading, Holder, HasPath, At, Fine, Locks
  <2>2. \/ Enough(q)
        \/ task[r].video \in task[q].since \/ task[r].video = task[q].video
        \/ task[q].video \notin look[r].unseen /\ look[r].snap[task[q].video] = 0
    BY <2>1, InvParts DEF Meets
  <2>3. Enough(q) => Enough(q)'
    BY <2>1 DEF Enough
  <2> QED
    BY <1>2, <2>1, <2>2, <2>3
<1> QED
  BY <1>3, <1>4, <1>6, <1>7, <1>8, LookKeeps

\* It removes a file that is too old.
LEMMA ExpireKeeps ==
  ASSUME AudioInv, NEW r \in Requests, Expire(r)
  PROVE  AudioInv'
<1> DEFINE now == [look[r] EXCEPT !.old = Nothing]
<1>0. PICK f : f = look[r].old
  OBVIOUS
<1>1. /\ task[r].at = "expire" /\ UNCHANGED <<videoLock, downloading>> /\ Remove(f)
      /\ look' = [look EXCEPT ![r].old = Nothing] /\ task' = [task EXCEPT ![r].at = "stat"]
  BY <1>0 DEF Expire, At, Move
<1>2. /\ look[r] \in Look /\ look \in [Requests -> Look] /\ task \in [Requests -> Task]
      /\ task[r] \in Task
      /\ f \in Videos \cup {Nothing} /\ look[r].counted \subseteq Videos
      /\ look[r].snap \in [Videos -> Nat] /\ look[r].unseen \subseteq Videos
  BY <1>0, LookTyped, InvParts
<1>3. /\ now \in Look /\ now.unseen = look[r].unseen /\ now.snap = look[r].snap
      /\ now.counted = look[r].counted /\ look' = [look EXCEPT ![r] = now]
  BY <1>1, <1>2 DEF Look
<1> HIDE DEF now
<1>4. ASSUME ~task[r].crossed
      PROVE  /\ f \in Files \ look[r].unseen /\ look[r].snap[f] = 0 /\ f \notin look[r].counted
             /\ \A p \in Requests : Holder(p) => task[p].video # f
  BY <1>0, <1>1, <1>4, InvParts DEF Reads, Reading
<1>5. CASE f \in Videos
  <2>1. ~task[r].crossed =>
          /\ now.unseen = look[r].unseen /\ f \notin look[r].unseen
          /\ \A g \in Videos : now.snap[g] = IF g = f THEN 0 ELSE look[r].snap[g]
          /\ now.counted \subseteq look[r].counted \ {f}
          /\ \A q \in Requests : Holder(q) /\ task[q].video = f => Enough(q)
    BY <1>3, <1>4
  <2> QED
    BY <1>1, <1>3, <1>5, <2>1, RemoveKeeps
<1>6. CASE f \notin Videos
  <2>1. task[r].crossed
    BY <1>4, <1>6 DEF Files
  <2>2. /\ dir \in [Videos -> [Kinds -> Contents]] /\ mtime \in [Videos -> Nat]
        /\ clock \in Nat
    BY InvParts
  <2>3. dir' = dir /\ mtime' = mtime /\ clock' = clock
    BY <1>1, <1>6, <2>2 DEF Remove
  <2>4. Same
    BY <2>3 DEF Same
  <2>5. Dated' /\ \A v \in Videos : Cached(v)' <=> Cached(v)
    BY <2>4, SameDated
  <2>6. \A q \in Requests : Follows(q) => Outlives(q)'
    BY <2>4, OutlivesSame
  <2>7. ~Reading(r)'
    BY <1>1, <1>2, <2>1 DEF Reading, Task
  <2>8. Reads(r)' /\ \A q \in Requests : Meets(r, q)'
    BY <2>7 DEF Reads, Meets
  <2> QED
    BY <1>1, <1>3, <2>2, <2>3, <2>5, <2>6, <2>8, LookKeeps
<1> QED
  BY <1>5, <1>6

\* It removes a file for the sake of the limit.
LEMMA EvictKeeps ==
  ASSUME AudioInv, NEW r \in Requests, Evict(r)
  PROVE  AudioInv'
<1>1. /\ task[r].at = "stat" /\ look[r].unseen = {} /\ Crowded(r)
      /\ UNCHANGED <<task, videoLock, downloading>>
  BY DEF Evict, At
<1>2. PICK f \in NextVictim(r) :
        /\ Remove(f)
        /\ look' = [look EXCEPT ![r].snap[f] = 0,
                                ![r].counted = IF Cached(f) THEN @ \ {f} ELSE @]
  BY DEF Evict
<1> DEFINE now == [look[r] EXCEPT !.snap[f] = 0, !.counted = IF Cached(f) THEN @ \ {f} ELSE @]
<1>3. /\ f \in Videos /\ f # task[r].video /\ look[r].snap[f] # 0
      /\ \A g \in Videos \ {task[r].video} : look[r].snap[g] # 0 => look[r].snap[f] <= look[r].snap[g]
  BY DEF NextVictim, Evictable
<1>4. /\ look[r] \in Look /\ look \in [Requests -> Look] /\ task \in [Requests -> Task]
      /\ task[r] \in Task /\ look[r].counted \subseteq Videos
      /\ look[r].snap \in [Videos -> Nat]
  BY LookTyped, InvParts
<1>5. /\ now \in Look /\ now.unseen = look[r].unseen
      /\ now.snap = [look[r].snap EXCEPT ![f] = 0]
      /\ now.counted = IF Cached(f) THEN look[r].counted \ {f} ELSE look[r].counted
  BY <1>3, <1>4 DEF Look
<1>6. look' = [look EXCEPT ![r] = now] /\ task' = [task EXCEPT ![r].at = "stat"]
  <2>1. look' = [look EXCEPT ![r] = now]
    BY <1>2, <1>4
  <2>2. task' = [task EXCEPT ![r].at = "stat"]
    <3>1. [task EXCEPT ![r].at = "stat"][r] = task[r]
      BY <1>1, <1>4 DEF Task
    <3> QED
      BY <1>1, <1>4, <3>1
  <2> QED
    BY <2>1, <2>2
<1> HIDE DEF now
<1>7. ASSUME ~task[r].crossed
      PROVE  /\ \A g \in Videos : look[r].snap[g] # 0 => Cached(g) /\ look[r].snap[g] = mtime[g]
             /\ \A g \in look[r].counted : look[r].snap[g] # 0
  BY <1>1, <1>7, InvParts DEF Reads, Reading
<1>8. ASSUME ~task[r].crossed, NEW q \in Requests, Holder(q), task[q].video = f
      PROVE  Enough(q)
  <2> SUFFICES ASSUME ~Enough(q)
               PROVE  FALSE
    OBVIOUS
  <2>1. task[r].video \in task[q].since
    <3>1. Meets(r, q) /\ Reading(r)
      BY <1>1, <1>8, InvParts DEF Reading
    <3> QED
      BY <1>3, <1>8, <3>1 DEF Meets
  <2>2. /\ IsFiniteSet(task[q].since)
        /\ \A g \in Videos : mtime[g] > mtime[f] => g \in task[q].since
    BY <1>8, InvParts DEF Fine, Outlives, Newest
  <2>3. look[r].counted \subseteq task[q].since \cup {f}
    <3>1. ASSUME NEW g \in look[r].counted, g # f, g # task[r].video
          PROVE  g \in task[q].since
      <4>1. /\ g \in Videos /\ look[r].snap[g] # 0 /\ look[r].snap[f] <= look[r].snap[g]
        BY <1>3, <1>4, <1>7, <1>8, <3>1
      <4>2. mtime[f] <= mtime[g] /\ Cached(f) /\ Cached(g)
        BY <1>3, <1>7, <1>8, <4>1
      <4>3. mtime[f] # mtime[g] /\ mtime[f] \in Nat /\ mtime[g] \in Nat
        BY <1>3, <3>1, <4>1, <4>2, InvParts DEF Dated
      <4> QED
        BY <2>2, <4>1, <4>2, <4>3
    <3> QED
      BY <2>1, <3>1
  <2>4. /\ IsFiniteSet(task[q].since \cup {f})
        /\ Cardinality(task[q].since) \in Nat
        /\ Cardinality(task[q].since \cup {f})
             = IF f \in task[q].since THEN Cardinality(task[q].since)
               ELSE Cardinality(task[q].since) + 1
    BY <2>2, FS_AddElement, FS_CardinalityType
  <2>5. /\ Cardinality(look[r].counted) <= Cardinality(task[q].since \cup {f})
        /\ Cardinality(look[r].counted) \in Nat
    BY <2>3, <2>4, FS_Subset, FS_CardinalityType
  <2> QED
    BY <1>1, <2>4, <2>5, Limits DEF Crowded, Enough
<1>9. ~task[r].crossed =>
        /\ now.unseen = look[r].unseen /\ f \notin look[r].unseen
        /\ \A g \in Videos : now.snap[g] = IF g = f THEN 0 ELSE look[r].snap[g]
        /\ now.counted \subseteq look[r].counted \ {f}
        /\ \A q \in Requests : Holder(q) /\ task[q].video = f => Enough(q)
  BY <1>1, <1>3, <1>4, <1>5, <1>7, <1>8
<1> QED
  BY <1>1, <1>2, <1>3, <1>5, <1>6, <1>9, RemoveKeeps

-----------------------------------------------------------------------------
(* Locks and places.                                                       *)

\* A request that gives its lock and its place back takes no other's.
LEMMA GivesBack ==
  ASSUME AudioInv, NEW r \in Requests, task[r].at \in Locking,
         videoLock' = [videoLock EXCEPT ![task[r].video] = Nothing],
         downloading' = downloading \ {r}
  PROVE  /\ videoLock' \in [Videos -> Requests \cup {Nothing}]
         /\ downloading' \subseteq Requests /\ SlotsInUse'
         /\ \A q \in Requests \ {r} :
              /\ q \in downloading => q \in downloading'
              /\ task[q].at \in Locking =>
                   /\ task[q].video # task[r].video
                   /\ videoLock'[task[q].video] = videoLock[task[q].video]
<1>1. task[r].video \in Videos /\ videoLock[task[r].video] = r
  BY InvParts DEF Fine, Locks
<1>2. ASSUME NEW q \in Requests \ {r}, task[q].at \in Locking
      PROVE  task[q].video \in Videos /\ task[q].video # task[r].video
  BY <1>1, <1>2, InvParts DEF Fine, Locks
<1>3. SlotsInUse'
  <2>1. IsFiniteSet(downloading) /\ Cardinality(downloading) <= Slots
    BY InvParts DEF SlotsInUse
  <2>2. /\ IsFiniteSet(downloading') /\ Cardinality(downloading') <= Cardinality(downloading)
        /\ Cardinality(downloading) \in Nat /\ Cardinality(downloading') \in Nat
    BY <2>1, FS_Subset, FS_CardinalityType
  <2> QED
    BY <2>1, <2>2, Limits DEF SlotsInUse
<1> QED
  BY <1>1, <1>2, <1>3, InvParts

\* Nobody else has the lock of a request that needs it.
LEMMA LockedAlone ==
  ASSUME AudioInv, NEW r \in Requests, NEW q \in Requests \ {r},
         task[r].at \in Locking, task[q].at \in Locking
  PROVE  task[q].video # task[r].video
BY InvParts DEF Fine, Locks

\* The lock, the semaphore and the thread, each with its lookup.
LEMMA TakeLockKeeps ==
  ASSUME AudioInv, NEW r \in Requests, TakeLock(r)
  PROVE  AudioInv'
<1>1. /\ task[r].at = "waitLock" /\ videoLock[task[r].video] = Nothing
      /\ videoLock' = [videoLock EXCEPT ![task[r].video] = r]
      /\ BeginLookup(r, "lock") /\ UNCHANGED <<files, downloading>>
  BY DEF TakeLock, At
<1>2. task[r].video \in Videos
  BY <1>1, InvParts DEF Fine, Locks
<1>3. videoLock' \in [Videos -> Requests \cup {Nothing}] /\ videoLock'[task[r].video] = r
  BY <1>1, <1>2, InvParts
<1>4. \A q \in Requests \ {r} :
        task[q].at \in Locking => videoLock'[task[q].video] = videoLock[task[q].video]
  BY <1>1, <1>2, InvParts, NothingIsNone DEF Fine, Locks
<1>5. SlotsInUse' /\ downloading' \subseteq Requests
  BY <1>1, InvParts DEF SlotsInUse
<1> QED
  BY <1>1, <1>3, <1>4, <1>5, BeginKeeps DEF Stages

LEMMA TakeSlotKeeps ==
  ASSUME AudioInv, NEW r \in Requests, TakeSlot(r)
  PROVE  AudioInv'
<1>1. /\ task[r].at = "waitSlot" /\ Cardinality(downloading) < Slots
      /\ downloading' = downloading \cup {r}
      /\ BeginLookup(r, "slot") /\ UNCHANGED <<files, videoLock>>
  BY DEF TakeSlot, At
<1>2. videoLock'[task[r].video] = r /\ videoLock' \in [Videos -> Requests \cup {Nothing}]
  BY <1>1, InvParts DEF Fine, Locks, Locking
<1>3. SlotsInUse'
  <2>1. IsFiniteSet(downloading) /\ Cardinality(downloading) \in Nat
    BY InvParts, FS_CardinalityType DEF SlotsInUse
  <2>2. /\ IsFiniteSet(downloading')
        /\ Cardinality(downloading') = IF r \in downloading THEN Cardinality(downloading)
                                       ELSE Cardinality(downloading) + 1
    BY <1>1, <2>1, FS_AddElement
  <2> QED
    BY <1>1, <2>1, <2>2, Limits DEF SlotsInUse
<1>4. downloading' \subseteq Requests
  BY <1>1, InvParts
<1> QED
  BY <1>1, <1>2, <1>3, <1>4, BeginKeeps DEF Stages

LEMMA ScanKeeps ==
  ASSUME AudioInv, NEW r \in Requests, Scan(r)
  PROVE  AudioInv'
<1>1. /\ task[r].at = "scan" /\ BeginLookup(r, "thread")
      /\ UNCHANGED <<files, videoLock, downloading>>
  BY DEF Scan, At
<1>2. /\ videoLock'[task[r].video] = r /\ videoLock' \in [Videos -> Requests \cup {Nothing}]
      /\ r \in downloading' /\ downloading' \subseteq Requests
  BY <1>1, InvParts DEF Fine, Locks, Holds, Locking
<1>3. SlotsInUse'
  BY <1>1, InvParts DEF SlotsInUse
<1> QED
  BY <1>1, <1>2, <1>3, BeginKeeps DEF Stages

-----------------------------------------------------------------------------
(* Steps that leave the finished files.                                    *)

\* A request that does nothing, and a lookup that has read nothing.
LEMMA IdleTyped ==
  /\ Idle \in Task /\ Idle.at = "idle" /\ Idle.stage = "lock" /\ Idle.since = {}
  /\ Idle.crossed = FALSE
  /\ NoLook \in Look
  /\ \A v \in Videos : LET rec == [Idle EXCEPT !.at = "waitLock", !.video = v]
                       IN  /\ rec \in Task /\ rec.at = "waitLock" /\ rec.stage = "lock"
                           /\ rec.video = v /\ rec.since = {}
BY DEF Idle, Task, AudioSteps, LoginSteps, Stages, Cookies, NoLook, Look

\* A request that is over.
LEMMA FinishKeeps ==
  ASSUME AudioInv, NEW r \in Requests, UNCHANGED files, Finish(r),
         look' \in [Requests -> Look], \A q \in Requests \ {r} : look'[q] = look[q],
         \/ UNCHANGED <<videoLock, downloading>>
         \/ /\ task[r].at \in Locking /\ downloading' = downloading \ {r}
            /\ videoLock' = [videoLock EXCEPT ![task[r].video] = Nothing]
  PROVE  AudioInv'
<1>1. task' = [task EXCEPT ![r] = Idle] /\ task'[r] = Idle
  BY InvParts DEF Finish
<1>2. Locks(r)' /\ Holds(r)'
  BY <1>1, IdleTyped DEF Locks, Holds, Locking
<1>3. /\ videoLock' \in [Videos -> Requests \cup {Nothing}]
      /\ downloading' \subseteq Requests /\ SlotsInUse'
      /\ \A q \in Requests \ {r} :
           /\ q \in downloading => q \in downloading'
           /\ task[q].at \in Locking => videoLock'[task[q].video] = videoLock[task[q].video]
  <2>1. CASE UNCHANGED <<videoLock, downloading>>
    BY <2>1, InvParts DEF SlotsInUse
  <2>2. CASE ~UNCHANGED <<videoLock, downloading>>
    BY <2>2, GivesBack
  <2> QED
    BY <2>1, <2>2
<1>4. Same /\ dir' \in [Videos -> [Kinds -> Contents]]
  BY InvParts DEF Same, files
<1>5. IsFiniteSet(Idle.since)
  BY IdleTyped, FS_EmptySet
<1> QED
  BY <1>1, <1>2, <1>3, <1>4, <1>5, IdleTyped, CalmKeeps

\* A request asks.
LEMMA AskKeeps ==
  ASSUME AudioInv, NEW r \in Requests, AskAudio(r)
  PROVE  AudioInv'
<1>1. PICK v \in Videos : task' = [task EXCEPT ![r] = [Idle EXCEPT !.at = "waitLock", !.video = v]]
  BY DEF AskAudio
<1>2. UNCHANGED audio
  BY DEF AskAudio
<1> DEFINE rec == [Idle EXCEPT !.at = "waitLock", !.video = v]
<1>3. /\ rec \in Task /\ task'[r] = rec /\ rec.at = "waitLock" /\ rec.stage = "lock"
      /\ rec.video = v /\ rec.since = {}
  BY <1>1, IdleTyped, InvParts
<1>4. task' = [task EXCEPT ![r] = rec]
  BY <1>1
<1> HIDE DEF rec
<1>5. Locks(r)' /\ Holds(r)'
  BY <1>3 DEF Locks, Holds, Locking
<1>6. SlotsInUse' /\ Same
  BY <1>2, InvParts DEF SlotsInUse, audio, files, Same
<1>7. /\ dir' \in [Videos -> [Kinds -> Contents]] /\ look' \in [Requests -> Look]
      /\ videoLock' \in [Videos -> Requests \cup {Nothing}] /\ downloading' \subseteq Requests
      /\ look' = look /\ videoLock' = videoLock /\ downloading' = downloading
  BY <1>2, InvParts DEF audio, files
<1>8. IsFiniteSet(rec.since)
  BY <1>3, FS_EmptySet
<1> QED
  BY <1>3, <1>4, <1>5, <1>6, <1>7, <1>8, CalmKeeps

\* A lookup's result.
LEMMA ListKeeps ==
  ASSUME AudioInv, NEW r \in Requests, List(r)
  PROVE  AudioInv'
<1>0. PICK v : v = task[r].video
  OBVIOUS
<1>1. /\ task[r].at = "stat" /\ UNCHANGED files /\ Fine(r) /\ task[r] \in Task
      /\ videoLock[v] = r /\ v \in Videos
      /\ look' = [look EXCEPT ![r] = NoLook]
  BY <1>0, InvParts DEF List, At, Fine, Locks, Locking
<1>2. look' \in [Requests -> Look] /\ \A q \in Requests \ {r} : look'[q] = look[q]
  BY <1>1, IdleTyped, InvParts
<1>3. CASE /\ task[r].stage = "thread" /\ Finish(r)
           /\ downloading' = downloading \ {r}
           /\ videoLock' = [videoLock EXCEPT ![v] = Nothing]
  BY <1>0, <1>1, <1>2, <1>3, FinishKeeps DEF Locking
<1>4. ASSUME NEW rec \in Task, task' = [task EXCEPT ![r] = rec],
             UNCHANGED <<videoLock, downloading>>,
             rec.at \in {"touch", "waitSlot", "api"}, rec.video = v,
             rec.crossed = task[r].crossed, IsFiniteSet(rec.since),
             rec.at = "touch" => rec.path = "audio" /\ rec.stage = task[r].stage,
             rec.at = "waitSlot" => rec.stage = "lock",
             rec.at = "api" => task[r].stage = "slot" /\ rec.stage = "thread" /\ ~Cached(v)
      PROVE  AudioInv'
  <2>1. task'[r] = rec
    BY <1>4, InvParts
  <2>2. Locks(r)'
    BY <1>1, <1>4, <2>1 DEF Locks, Locking
  <2>3. Holds(r)'
    <3>1. rec.at = "api" => ~Cached(v)'
      BY <1>1, <1>4 DEF files, Cached, Exists
    <3>2. rec.at = "api" => ~Cached(task[r].video)'
      <4>1. task'[r].video = v
        BY <1>4, <2>1
      <4>2. Cached(v)' <=> dir'[v]["audio"] # "absent"
        BY DEF Cached, Exists
      <4> QED
        BY <3>1, <4>1, <4>2 DEF Cached, Exists
    <3> QED
      BY <1>1, <1>4, <2>1, <3>2 DEF Fine, Holds, Locking
  <2>4. SlotsInUse' /\ Same
    BY <1>1, <1>4, InvParts DEF SlotsInUse, Same, files
  <2>5. InLookup(r)
    BY <1>1 DEF InLookup, LookSteps
  <2> QED
    BY <1>1, <1>2, <1>4, <2>2, <2>3, <2>4, <2>5, InvParts, CalmKeeps DEF files
<1>5. ASSUME NEW kind \in Candidates(v), UNCHANGED <<videoLock, downloading>>,
             task' = [task EXCEPT ![r].at = "touch", ![r].path = kind, ![r].since = {}]
      PROVE  AudioInv'
  <2> DEFINE rec == [task[r] EXCEPT !.at = "touch", !.path = kind, !.since = {}]
  <2>1. kind = "audio"
    BY DEF Candidates, Kinds
  <2>2. rec \in Task /\ task' = [task EXCEPT ![r] = rec]
    BY <1>1, <1>5, <2>1, InvParts DEF Task, AudioSteps, LookSteps, Kinds
  <2>3. /\ rec.at = "touch" /\ rec.video = v /\ rec.stage = task[r].stage
        /\ rec.since = {} /\ rec.path = "audio" /\ rec.crossed = task[r].crossed
    BY <1>0, <1>1, <2>1 DEF Task
  <2> HIDE DEF rec
  <2> QED
    BY <1>4, <1>5, <2>2, <2>3, FS_EmptySet
<1>6. CASE /\ task[r].stage = "lock" /\ Move(r, "waitSlot") /\ UNCHANGED <<videoLock, downloading>>
  <2> DEFINE rec == [task[r] EXCEPT !.at = "waitSlot"]
  <2>1. rec \in Task /\ task' = [task EXCEPT ![r] = rec]
    BY <1>1, <1>6, InvParts DEF Task, AudioSteps, Move
  <2>2. /\ rec.at = "waitSlot" /\ rec.video = v /\ rec.stage = task[r].stage
        /\ rec.since = task[r].since /\ rec.crossed = task[r].crossed
    BY <1>0, <1>1 DEF Task
  <2> HIDE DEF rec
  <2> QED
    BY <1>1, <1>4, <1>6, <2>1, <2>2 DEF Fine, Outlives
<1>7. CASE /\ task[r].stage = "slot" /\ Candidates(v) = {} /\ UNCHANGED <<videoLock, downloading>>
           /\ task' = [task EXCEPT ![r].at = "api", ![r].stage = "thread"]
  <2> DEFINE rec == [task[r] EXCEPT !.at = "api", !.stage = "thread"]
  <2>1. rec \in Task /\ task' = [task EXCEPT ![r] = rec]
    BY <1>1, <1>7, InvParts DEF Task, AudioSteps, Stages
  <2>2. /\ rec.at = "api" /\ rec.video = v /\ rec.stage = "thread"
        /\ rec.since = task[r].since /\ rec.crossed = task[r].crossed
    BY <1>0, <1>1 DEF Task
  <2>3. ~Cached(v)
    BY <1>7 DEF Candidates, Kinds, Cached
  <2> HIDE DEF rec
  <2> QED
    BY <1>1, <1>4, <1>7, <2>1, <2>2, <2>3 DEF Fine, Outlives
<1> QED
  BY <1>0, <1>3, <1>5, <1>6, <1>7 DEF List

-----------------------------------------------------------------------------
(* Steps that modify files, and the others of a download.                  *)

\* A file is modified by r, which then has a path or goes on: what there is to show
\* of the lookups meanwhile.
LEMMA WriteKeeps ==
  ASSUME AudioInv, NEW r \in Requests, NEW v \in Videos, v = task[r].video,
         NEW rec \in Task, task' = Noting(v, r, rec), UNCHANGED look,
         NEW these \in [Kinds -> Contents], these["audio"] \in {"all", "nothing"},
         Modify(v, these),
         \/ task[r].at = "touch"
         \/ task[r].at \in {"apiWrite", "fallback"},
         rec.video = v, rec.since = task[r].since,
         \/ /\ rec.at = "have" /\ rec.stage = "lock" /\ rec.path = "audio"
            /\ rec.crossed = (task[r].crossed \/ \E q \in Requests : InLookup(q) /\ task[q].crossed)
            /\ downloading' = downloading \ {r}
            /\ videoLock' = [videoLock EXCEPT ![v] = Nothing]
         \/ /\ rec.at = "scan" /\ rec.stage = "thread" /\ task[r].stage = "thread"
            /\ UNCHANGED <<videoLock, downloading>>
  PROVE  AudioInv'
<1>1. /\ Fine(r) /\ task[r] \in Task /\ task[r].at \in Locking
      /\ task \in [Requests -> Task] /\ look \in [Requests -> Look]
  BY InvParts DEF Locking
<1>2. /\ task' \in [Requests -> Task] /\ task'[r] = rec
      /\ \A q \in Requests \ {r} :
           /\ Follows(q) /\ task'[q].crossed = task[q].crossed
           /\ HasPath(q) /\ task[q].video # v => v \in task'[q].since
  BY NotingOthers
<1>3. /\ dir' \in [Videos -> [Kinds -> Contents]]
      /\ mtime' \in [Videos -> Nat] /\ clock' \in Nat /\ Dated'
      /\ Cached(v)' /\ \A g \in Videos : mtime'[g] <= mtime'[v]
      /\ \A w \in Videos \ {v} : (Cached(w)' <=> Cached(w)) /\ mtime'[w] = mtime[w]
  BY ModifyDated
<1>4. /\ videoLock' \in [Videos -> Requests \cup {Nothing}]
      /\ downloading' \subseteq Requests /\ SlotsInUse'
      /\ \A q \in Requests \ {r} :
           /\ q \in downloading => q \in downloading'
           /\ task[q].at \in Locking => videoLock'[task[q].video] = videoLock[task[q].video]
  <2>1. CASE rec.at = "have"
    BY <1>1, <2>1, GivesBack
  <2>2. CASE rec.at = "scan"
    BY <2>2, InvParts DEF SlotsInUse
  <2> QED
    BY <2>1, <2>2
<1>5. AudioTyped'
  BY <1>1, <1>2, <1>3, <1>4 DEF AudioTyped
<1>6. Locks(r)' /\ Holds(r)'
  <2>1. Locks(r)'
    BY <1>1, <1>2 DEF Fine, Locks, Locking
  <2>2. Holds(r)'
    BY <1>1, <1>2 DEF Fine, Holds, Locking
  <2> QED
    BY <2>1, <2>2
<1>7. Outlives(r)'
  <2>1. IsFiniteSet(task'[r].since)
    BY <1>1, <1>2 DEF Fine, Outlives
  <2>2. ~(\E g \in Videos : mtime'[g] > mtime'[v])
    BY <1>3
  <2>3. Newest(r)'
    BY <1>2, <1>3, <2>2 DEF Newest, Cached, Exists
  <2> QED
    BY <2>1, <2>3 DEF Outlives
<1>8. ~InLookup(r)' /\ ~Reading(r)' /\ Reads(r)'
  BY <1>2 DEF InLookup, LookSteps, Reading, Reads
<1>9. ASSUME NEW q \in Requests \ {r}
      PROVE  /\ Follows(q) /\ look'[q] = look[q] /\ Locks(q)' /\ Holds(q)' /\ Outlives(q)'
             /\ Reading(q)' =>
                  /\ \A f \in Files : Cached(f)' /\ mtime'[f] = mtime[f]
                  /\ \A p \in Requests : Holder(p)' =>
                       \/ Holder(p) /\ task'[p].video = task[p].video
                       \/ task'[p].video \notin Files
             /\ Cross(q, r)' /\ Cross(r, q)' /\ Meets(q, r)' /\ Meets(r, q)'
             /\ task'[q].crossed = task[q].crossed
  <2>0. PICK u : u = task[q].video
    OBVIOUS
  <2>1. /\ Follows(q) /\ task'[q].crossed = task[q].crossed
        /\ HasPath(q) /\ task[q].video # v => v \in task'[q].since
    BY <1>2
  <2>2. task'[q].at = task[q].at /\ task'[q].video = u
    BY <2>0, <2>1 DEF Follows
  <2>3. Outlives(q)'
    BY <2>1, OutlivesModify
  <2>4. Locks(q)' /\ Holds(q)'
    <3>1. task[q].at \in Locking => u \in Videos /\ u # v
      BY <1>1, <2>0, LockedAlone, InvParts DEF Fine, Locks
    <3>2. task[q].at \in {"api", "apiWrite", "fallback"} /\ ~Cached(u) => ~Cached(u)'
      BY <1>3, <3>1 DEF Locking
    <3>3. task[q].at \in {"api", "apiWrite", "fallback"} /\ ~Cached(task[q].video)
            => ~Cached(task[q].video)'
      BY <2>0, <2>2, <3>2 DEF Cached, Exists
    <3> QED
      BY <1>4, <2>1, <3>3, LocksStay
  <2>5. Reading(q)' => Reading(q) /\ InLookup(q) /\ ~task[q].crossed
    BY <2>1, <2>2 DEF Reading, InLookup, LookSteps
  <2>6. ASSUME Reading(q)'
        PROVE  v \notin Files
    <3>1. task[r].at # "touch"
      <4>1. ~InLookup(r)
        BY <2>5, <2>6, Alone
      <4> QED
        BY <4>1 DEF InLookup, LookSteps
    <3> QED
      BY <1>1, <3>1 DEF Fine, Holds, Files
  <2>7. ASSUME Reading(q)'
        PROVE  /\ \A f \in Files : Cached(f)' /\ mtime'[f] = mtime[f]
               /\ \A p \in Requests : Holder(p)' =>
                    \/ Holder(p) /\ task'[p].video = task[p].video
                    \/ task'[p].video \notin Files
    <3>1. \A f \in Files : Cached(f)' /\ mtime'[f] = mtime[f]
      BY <1>3, <2>6, <2>7 DEF Files
    <3>2. ASSUME NEW p \in Requests, Holder(p)'
          PROVE  (Holder(p) /\ task'[p].video = task[p].video) \/ task'[p].video \notin Files
      <4>1. CASE p = r
        BY <1>2, <2>6, <2>7, <4>1
      <4>2. CASE p # r
        BY <1>2, <3>2, <4>2 DEF Follows, Holder, HasPath, At
      <4> QED
        BY <4>1, <4>2
    <3> QED
      BY <3>1, <3>2
  <2>8. Cross(q, r)' /\ Cross(r, q)'
    <3>1. HasPath(r)' /\ InLookup(q)' /\ task'[q].crossed => task'[r].crossed
      <4>1. HasPath(r)' => rec.at = "have"
        BY <1>2 DEF HasPath, At
      <4>2. InLookup(q)' => InLookup(q)
        BY <2>2 DEF InLookup
      <4> QED
        BY <1>2, <2>1, <4>1, <4>2
    <3> QED
      BY <1>8, <3>1 DEF Cross
  <2>9. Meets(r, q)'
    BY <1>8 DEF Meets
  <2>10. Meets(q, r)'
    <3> SUFFICES ASSUME Reading(q)'
                 PROVE  v \notin look[q].unseen /\ look[q].snap[v] = 0
      BY <1>2 DEF Meets
    <3> QED
      BY <2>5, <2>6, InvParts DEF Reads, Files
  <2> QED
    BY <2>1, <2>3, <2>4, <2>7, <2>8, <2>9, <2>10
<1> QED
  BY <1>3, <1>4, <1>5, <1>6, <1>7, <1>8, <1>9, StepKeeps

\* What becomes of a request that obtains a path.
LEMMA ObtainTyped ==
  ASSUME AudioInv, NEW r \in Requests, NEW crossed \in BOOLEAN
  PROVE  LET rec == [task[r] EXCEPT !.at = "have", !.stage = "lock", !.path = "audio",
                                    !.crossed = crossed]
         IN  /\ rec \in Task /\ rec.at = "have" /\ rec.stage = "lock" /\ rec.path = "audio"
             /\ rec.video = task[r].video /\ rec.since = task[r].since
             /\ rec.crossed = crossed
BY InvParts DEF Task, AudioSteps, Stages, Kinds

LEMMA TouchKeeps ==
  ASSUME AudioInv, NEW r \in Requests, Touch(r)
  PROVE  AudioInv'
<1>0. PICK v : v = task[r].video
  OBVIOUS
<1>1. task[r].at = "touch" /\ task[r].path = "audio" /\ v \in Videos
  BY <1>0, InvParts DEF Touch, At, Fine, Holds, Locks, Locking
<1>2. PICK crossed : crossed = (task[r].crossed \/ \E q \in Requests : InLookup(q) /\ task[q].crossed)
  OBVIOUS
<1>3. crossed \in BOOLEAN
  BY <1>2, InvParts DEF Task
<1> DEFINE rec == [task[r] EXCEPT !.at = "have", !.stage = "lock", !.path = "audio",
                                  !.crossed = crossed]
           these == [dir[v] EXCEPT !["audio"] = IF Cached(v) THEN @ ELSE "nothing"]
<1>4. /\ Modify(v, these) /\ task' = Noting(v, r, rec)
      /\ downloading' = downloading \ {r} /\ videoLock' = [videoLock EXCEPT ![v] = Nothing]
      /\ UNCHANGED look
  BY <1>0, <1>1, <1>2 DEF Touch, Obtain
<1>5. these \in [Kinds -> Contents] /\ these["audio"] \in {"all", "nothing"}
  <2>1. /\ dir[v] \in [Kinds -> Contents] /\ dir[v]["audio"] # "piece"
        /\ Cached(v) <=> dir[v]["audio"] # "absent"
    BY <1>1, InvParts DEF Dated, Cached, Exists
  <2>2. dir[v]["audio"] \in Contents
    BY <2>1 DEF Kinds
  <2>3. CASE Cached(v)
    BY <2>1, <2>2, <2>3 DEF Kinds, Contents
  <2>4. CASE ~Cached(v)
    BY <2>1, <2>4 DEF Kinds, Contents
  <2> QED
    BY <2>3, <2>4
<1>6. /\ rec \in Task /\ rec.at = "have" /\ rec.stage = "lock" /\ rec.path = "audio"
      /\ rec.video = v /\ rec.since = task[r].since /\ rec.crossed = crossed
  BY <1>0, <1>3, ObtainTyped
<1> HIDE DEF rec, these
<1> QED
  BY <1>0, <1>1, <1>2, <1>4, <1>5, <1>6, WriteKeeps

LEMMA CompleteKeeps ==
  ASSUME AudioInv, NEW r \in Requests, Complete(r)
  PROVE  AudioInv'
<1>0. PICK v : v = task[r].video
  OBVIOUS
<1>1. task[r].at = "apiWrite" /\ v \in Videos
  BY <1>0, InvParts DEF Complete, At, Fine, Locks, Locking
<1>2. PICK crossed : crossed = (task[r].crossed \/ \E q \in Requests : InLookup(q) /\ task[q].crossed)
  OBVIOUS
<1>3. crossed \in BOOLEAN
  BY <1>2, InvParts DEF Task
<1> DEFINE rec == [task[r] EXCEPT !.at = "have", !.stage = "lock", !.path = "audio",
                                  !.crossed = crossed]
           these == [NoFile EXCEPT !["audio"] = "all"]
<1>4. /\ Modify(v, these) /\ task' = Noting(v, r, rec)
      /\ downloading' = downloading \ {r} /\ videoLock' = [videoLock EXCEPT ![v] = Nothing]
      /\ UNCHANGED look
  BY <1>0, <1>2 DEF Complete, Obtain
<1>5. these \in [Kinds -> Contents] /\ these["audio"] \in {"all", "nothing"}
  BY DEF NoFile, Kinds, Contents
<1>6. /\ rec \in Task /\ rec.at = "have" /\ rec.stage = "lock" /\ rec.path = "audio"
      /\ rec.video = v /\ rec.since = task[r].since /\ rec.crossed = crossed
  BY <1>0, <1>3, ObtainTyped
<1> HIDE DEF rec, these
<1> QED
  BY <1>0, <1>1, <1>2, <1>4, <1>5, <1>6, WriteKeeps

LEMMA FallbackCompletesKeeps ==
  ASSUME AudioInv, NEW r \in Requests, FallbackCompletes(r)
  PROVE  AudioInv'
<1>0. PICK v : v = task[r].video
  OBVIOUS
<1>1. /\ task[r].at = "fallback" /\ v \in Videos /\ task[r].stage = "thread"
      /\ task[r] \in Task /\ dir[v] \in [Kinds -> Contents]
  BY <1>0, InvParts DEF FallbackCompletes, At, Fine, Holds, Locks, Locking
<1> DEFINE rec == [task[r] EXCEPT !.at = "scan"]
           these == [dir[v] EXCEPT !["audio"] = "all"]
<1>2. /\ Modify(v, these) /\ task' = Noting(v, r, rec)
      /\ UNCHANGED <<look, videoLock, downloading>>
  BY <1>0 DEF FallbackCompletes
<1>3. these \in [Kinds -> Contents] /\ these["audio"] \in {"all", "nothing"}
  BY <1>1 DEF Kinds, Contents
<1>4. /\ rec \in Task /\ rec.at = "scan" /\ rec.stage = "thread"
      /\ rec.video = v /\ rec.since = task[r].since
  BY <1>0, <1>1 DEF Task, AudioSteps
<1> HIDE DEF rec, these
<1> QED
  BY <1>0, <1>1, <1>2, <1>3, <1>4, WriteKeeps

\* A .part file is opened.
LEMMA PartKeeps ==
  ASSUME AudioInv, NEW r \in Requests, NEW to \in {"apiWrite", "fallback"},
         task[r].at \in {"api", "apiWrite"}, Part(task[r].video, "piece"), Move(r, to),
         UNCHANGED <<look, videoLock, downloading>>
  PROVE  AudioInv'
<1>0. PICK v : v = task[r].video
  OBVIOUS
<1> DEFINE rec == [task[r] EXCEPT !.at = to]
<1>1. Fine(r) /\ task[r] \in Task /\ v \in Videos /\ ~Cached(v)
  BY <1>0, InvParts DEF Fine, Holds, Locks, Locking
<1>2. /\ dir' = [dir EXCEPT ![v]["part"] = "piece"] /\ mtime' = mtime /\ clock' = clock
      /\ task' = [task EXCEPT ![r] = rec]
  BY <1>0, InvParts DEF Part, Move
<1>3. /\ rec \in Task /\ rec.at = to /\ rec.video = v /\ rec.stage = task[r].stage
      /\ rec.since = task[r].since
  BY <1>0, <1>1 DEF Task, AudioSteps
<1> HIDE DEF rec
<1>4. task'[r] = rec
  BY <1>2, InvParts
<1>5. dir' \in [Videos -> [Kinds -> Contents]] /\ Same
  BY <1>1, <1>2, InvParts DEF Same, Kinds, Contents
<1>6. Locks(r)'
  BY <1>0, <1>1, <1>3, <1>4 DEF Fine, Locks, Locking
<1>7. Holds(r)'
  <2>1. ~Cached(v)'
    BY <1>1, <1>5, SameDated
  <2>2. ~Cached(task[r].video)'
    <3>1. task'[r].video = v
      BY <1>3, <1>4
    <3> QED
      BY <2>1, <3>1 DEF Cached, Exists
  <2> QED
    BY <1>1, <1>3, <1>4, <2>2 DEF Fine, Holds, Locking
<1>8. SlotsInUse' /\ IsFiniteSet(rec.since)
  BY <1>1, <1>3, InvParts DEF SlotsInUse, Fine, Outlives
<1> QED
  BY <1>2, <1>3, <1>5, <1>6, <1>7, <1>8, InvParts, CalmKeeps

LEMMA DownloadKeeps ==
  ASSUME AudioInv, NEW r \in Requests, Download(r)
  PROVE  AudioInv'
<1>1. CASE OpenPart(r)
  BY <1>1, PartKeeps DEF OpenPart, At
<1>2. CASE Complete(r)
  BY <1>2, CompleteKeeps
<1>3. CASE FallBack(r)
  BY <1>3, PartKeeps DEF FallBack
<1>4. CASE FallbackCompletes(r)
  BY <1>4, FallbackCompletesKeeps
<1>5. CASE FallbackFails(r)
  BY <1>5, FinishKeeps, InvParts DEF FallbackFails, At, Locking
<1> QED
  BY <1>1, <1>2, <1>3, <1>4, <1>5 DEF Download

LEMMA LookUpKeeps ==
  ASSUME AudioInv, NEW r \in Requests, LookUp(r)
  PROVE  AudioInv'
BY ScanKeeps, StatKeeps, ExpireKeeps, EvictKeeps, ListKeeps, TouchKeeps DEF LookUp

LEMMA HandOverKeeps ==
  ASSUME AudioInv, NEW r \in Requests, HandOver(r)
  PROVE  AudioInv'
BY FinishKeeps, InvParts DEF HandOver, audio

-----------------------------------------------------------------------------
(* Logins: what they leave of the audio.                                   *)

\* A request that is, or becomes, a login's has no lock, no place and no path.
LEMMA LoginTask ==
  ASSUME AudioInv, NEW r \in Requests, NEW to \in LoginSteps \cup {"idle"}, NEW c \in Cookies,
         task[r].at \in LoginSteps
  PROVE  LET rec == [task[r] EXCEPT !.at = to, !.got = c]
         IN  /\ rec \in Task /\ rec.at = to /\ rec.stage = "lock" /\ IsFiniteSet(rec.since)
<1>1. Fine(r) /\ task[r] \in Task
  BY InvParts
<1>2. task[r].stage = "lock" /\ IsFiniteSet(task[r].since)
  BY <1>1 DEF Fine, Holds, Outlives, Locking, LoginSteps
<1> QED
  BY <1>1, <1>2 DEF Task

\* A step that moves r from and to a login's steps.
LEMMA LoginMoves ==
  ASSUME AudioInv, NEW r \in Requests, NEW rec \in Task, UNCHANGED audio,
         task' = [task EXCEPT ![r] = rec], rec.at \in LoginSteps \cup {"idle"},
         rec.stage = "lock", IsFiniteSet(rec.since)
  PROVE  AudioInv'
<1>1. task'[r] = rec
  BY InvParts
<1>2. Locks(r)' /\ Holds(r)'
  BY <1>1 DEF Locks, Holds, Locking, LoginSteps
<1>3. SlotsInUse' /\ Same
  BY InvParts DEF SlotsInUse, Same, audio, files
<1>4. /\ dir' \in [Videos -> [Kinds -> Contents]] /\ look' \in [Requests -> Look]
      /\ videoLock' \in [Videos -> Requests \cup {Nothing}] /\ downloading' \subseteq Requests
      /\ look' = look /\ videoLock' = videoLock /\ downloading' = downloading
  BY InvParts DEF audio, files
<1>5. rec.at \notin {"stat", "expire", "have", "touch"}
  BY DEF LoginSteps
<1> QED
  BY <1>2, <1>3, <1>4, <1>5, CalmKeeps

\* Nothing that has to do with audio happens.
LEMMA AudioRests ==
  ASSUME AudioInv, UNCHANGED <<audio, task>>
  PROVE  AudioInv'
BY DEF audio, files, AudioInv, AudioTyped, Dated, AllFine, AllReads, AllMeet, SlotsInUse,
       Fine, Locks, Holds, Outlives, Reads, Meets, Cross, Reading, Holder, Enough, Newest,
       InLookup, HasPath, At, Files, Cached, Exists

\* The steps of logins leave what is known of the audio.
LEMMA LoginLeavesAudio ==
  ASSUME AudioInv, NEW r \in Requests,
         LogIn(r) \/ StartLogin(r) \/ Poll(r) \/ PasteCookie(r)
  PROVE  AudioInv'
<1>1. CASE UNCHANGED audio /\ Finish(r)
  <2>1. look' \in [Requests -> Look] /\ look' = look
    BY <1>1, InvParts DEF audio
  <2> QED
    BY <1>1, <2>1, FinishKeeps DEF audio
<1>2. ASSUME NEW l \in Logins, NEW at \in {"generate", "poll"}, UNCHANGED audio,
             task' = [task EXCEPT ![r] = [Idle EXCEPT !.at = at, !.login = l]]
      PROVE  AudioInv'
  <2> DEFINE rec == [Idle EXCEPT !.at = at, !.login = l]
  <2>1. rec \in Task /\ rec.at = at /\ rec.stage = "lock" /\ rec.since = {}
    BY DEF Idle, Task, LoginSteps, Stages, Cookies
  <2> QED
    BY <1>2, <2>1, FS_EmptySet, LoginMoves DEF LoginSteps
<1>3. CASE UNCHANGED audio /\ task' = [task EXCEPT ![r] = [Idle EXCEPT !.at = "nav"]]
  <2> DEFINE rec == [Idle EXCEPT !.at = "nav"]
  <2>1. rec \in Task /\ rec.at = "nav" /\ rec.stage = "lock" /\ rec.since = {}
    BY DEF Idle, Task, LoginSteps, Stages, Cookies
  <2> QED
    BY <1>3, <2>1, FS_EmptySet, LoginMoves DEF LoginSteps
<1>4. ASSUME NEW c \in Cookies, NEW to \in LoginSteps, task[r].at \in LoginSteps,
             UNCHANGED audio, task' = [task EXCEPT ![r].got = c, ![r].at = to]
      PROVE  AudioInv'
  <2> DEFINE rec == [task[r] EXCEPT !.at = to, !.got = c]
  <2>1. rec \in Task /\ rec.at = to /\ rec.stage = "lock" /\ IsFiniteSet(rec.since)
    BY <1>4, LoginTask
  <2>2. task' = [task EXCEPT ![r] = rec]
    BY <1>4, InvParts DEF Task
  <2> QED
    BY <1>4, <2>1, <2>2, LoginMoves
<1>5. CASE StartLogin(r)
  BY <1>2, <1>5 DEF StartLogin
<1>6. CASE Poll(r)
  BY <1>2, <1>6, AudioRests DEF Poll
<1>7. CASE PasteCookie(r)
  BY <1>3, <1>7 DEF PasteCookie
<1>8. CASE \/ Generated(r) \/ GenerateFails(r) \/ LeftOpen(r) \/ PollAnswered(r) \/ PollExpired(r)
           \/ SaveCookie(r) \/ PastedChecked(r)
  BY <1>1, <1>8 DEF Generated, GenerateFails, LeftOpen, PollAnswered, PollExpired, SaveCookie,
                    PastedChecked
<1>9. CASE PollConfirmed(r)
  BY <1>4, <1>9 DEF PollConfirmed, At, LoginSteps
<1>10. CASE Finalize(r)
  <2>1. task[r].got \in Cookies
    BY InvParts DEF Task
  <2> QED
    BY <1>4, <1>10, <2>1 DEF Finalize, At, LoginSteps, Cookies
<1>11. CASE PopLogin(r)
  <2>1. task[r].got \in Cookies /\ task' = [task EXCEPT ![r].got = task[r].got, ![r].at = "save"]
    BY <1>11, InvParts DEF PopLogin, Move, Task
  <2> QED
    BY <1>4, <1>11, <2>1 DEF PopLogin, At, LoginSteps
<1> QED
  BY <1>5, <1>6, <1>7, <1>8, <1>9, <1>10, <1>11 DEF LogIn

-----------------------------------------------------------------------------
(* The clients of logins.                                                  *)

\* Nobody begins to start a login.
NoneStarts ==
  \A q \in Requests :
    task'[q].at = "generate" => task[q].at = "generate" /\ task'[q].login = task[q].login

\* Logins leave the registry, and exactly their clients are closed.
LEMMA LoginsEnd ==
  ASSUME LoginInv, NoneStarts, registry' \subseteq registry, entered' = entered,
         client' \in [Logins -> {"none", "open", "closed"}],
         \A l \in Logins :
           client'[l] = IF l \in registry \ registry' THEN "closed" ELSE client[l],
         key' \in [Logins -> {"waiting", "scanned", "confirmed", "expired"}],
         cookie' \in Cookies
  PROVE  LoginInv'
<1>1. LoginTyped /\ registry \subseteq entered /\ Starting /\ NoClientIsLost
  BY DEF LoginInv
<1>2. entered \subseteq Logins /\ registry \subseteq Logins
  BY <1>1 DEF LoginTyped
<1>3. LoginTyped' /\ registry' \subseteq entered'
  BY <1>1, <1>2 DEF LoginTyped
<1>4. NoClientIsLost'
  BY <1>1, <1>2 DEF NoClientIsLost
<1>5. Starting'
  BY <1>1, <1>2 DEF Starting, NoneStarts, At
<1> QED
  BY <1>3, <1>4, <1>5 DEF LoginInv

\* What has to do with audio starts no login.
LEMMA AudioStartsNone ==
  ASSUME AudioInv, NEW r \in Requests,
         \/ AskAudio(r) \/ TakeLock(r) \/ TakeSlot(r)
         \/ LookUp(r) \/ Download(r) \/ HandOver(r)
  PROVE  NoneStarts
<1>1. task \in [Requests -> Task] /\ Idle.at = "idle"
  BY InvParts, IdleTyped
<1>2. ASSUME NEW rec, task' = [task EXCEPT ![r] = rec], rec.at # "generate"
      PROVE  NoneStarts
  BY <1>1, <1>2 DEF NoneStarts
<1>3. CASE UNCHANGED task
  BY <1>3 DEF NoneStarts
<1>4. ASSUME NEW to \in {"stat", "expire", "waitSlot", "apiWrite", "fallback"}, Move(r, to)
      PROVE  NoneStarts
  <2>1. [task[r] EXCEPT !.at = to].at # "generate"
    BY <1>1 DEF Task
  <2> QED
    BY <1>2, <1>4, <2>1 DEF Move
<1>5. CASE Finish(r)
  BY <1>1, <1>2, <1>5 DEF Finish
<1>6. CASE AskAudio(r)
  <2>1. PICK v \in Videos : task' = [task EXCEPT ![r] = [Idle EXCEPT !.at = "waitLock", !.video = v]]
    BY <1>6 DEF AskAudio
  <2> QED
    BY <1>2, <2>1, IdleTyped
<1>7. CASE List(r)
  <2>1. ASSUME NEW kind,
               task' = [task EXCEPT ![r].at = "touch", ![r].path = kind, ![r].since = {}]
        PROVE  NoneStarts
    <3>1. [task[r] EXCEPT !.at = "touch", !.path = kind, !.since = {}].at # "generate"
      BY <1>1 DEF Task
    <3> QED
      BY <1>2, <2>1, <3>1
  <2>2. ASSUME task' = [task EXCEPT ![r].at = "api", ![r].stage = "thread"]
        PROVE  NoneStarts
    <3>1. [task[r] EXCEPT !.at = "api", !.stage = "thread"].at # "generate"
      BY <1>1 DEF Task
    <3> QED
      BY <1>2, <2>2, <3>1
  <2> QED
    BY <1>4, <1>5, <1>7, <2>1, <2>2 DEF List
<1>8. ASSUME NEW rec \in Task, rec.at # "generate", NEW v \in Videos, task' = Noting(v, r, rec)
      PROVE  NoneStarts
  <2>1. task'[r] = rec /\ \A q \in Requests \ {r} : Follows(q)
    BY <1>8, NotingOthers
  <2> QED
    BY <1>8, <2>1 DEF NoneStarts, Follows
<1>9. ASSUME NEW stage \in Stages, BeginLookup(r, stage), task[r].video \in Videos
      PROVE  NoneStarts
  <2> DEFINE rec == [task[r] EXCEPT !.at = "stat", !.stage = stage, !.crossed = FALSE]
  <2>1. rec \in Task /\ rec.at = "stat" /\ rec.crossed = FALSE
    BY <1>1 DEF Task, AudioSteps, LookSteps
  <2>2. task' = Crossing(task[r].video, r, rec)
    BY <1>9 DEF BeginLookup
  <2> HIDE DEF rec
  <2>3. task'[r].at = "stat" /\ \A q \in Requests \ {r} : Follows(q)
    BY <1>9, <2>1, <2>2, CrossingOthers
  <2> QED
    BY <2>3 DEF NoneStarts, Follows
<1>10. CASE TakeLock(r) \/ TakeSlot(r) \/ Scan(r)
  <2>1. task[r].video \in Videos
    BY <1>10, InvParts DEF TakeLock, TakeSlot, Scan, At, Fine, Locks, Locking
  <2> QED
    BY <1>9, <1>10, <2>1 DEF TakeLock, TakeSlot, Scan, Stages
<1>11. CASE Stat(r) \/ Expire(r) \/ Evict(r)
  BY <1>3, <1>4, <1>11 DEF Stat, Expire, Evict
<1>12. CASE Touch(r) \/ Complete(r)
  <2>1. task[r].video \in Videos
    BY <1>12, InvParts DEF Touch, Complete, At, Fine, Locks, Locking
  <2>2. PICK crossed : crossed = (task[r].crossed \/ \E q \in Requests : InLookup(q) /\ task[q].crossed)
    OBVIOUS
  <2>3. crossed \in BOOLEAN
    BY <1>1, <2>2 DEF Task
  <2> DEFINE rec == [task[r] EXCEPT !.at = "have", !.stage = "lock", !.path = "audio",
                                    !.crossed = crossed]
  <2>4. rec \in Task /\ rec.at = "have"
    BY <2>3, ObtainTyped
  <2>5. task[r].at = "touch" => task[r].path = "audio"
    BY InvParts DEF Fine, Holds
  <2>6. task' = Noting(task[r].video, r, rec)
    BY <1>12, <2>2, <2>5 DEF Touch, Complete, Obtain, At
  <2> HIDE DEF rec
  <2> QED
    BY <1>8, <2>1, <2>4, <2>6
<1>13. CASE FallbackCompletes(r)
  <2> DEFINE rec == [task[r] EXCEPT !.at = "scan"]
  <2>1. task[r].video \in Videos /\ rec \in Task /\ rec.at = "scan"
    BY <1>1, <1>13, InvParts DEF FallbackCompletes, At, Fine, Locks, Locking, Task, AudioSteps
  <2>2. task' = Noting(task[r].video, r, rec)
    BY <1>13 DEF FallbackCompletes
  <2> HIDE DEF rec
  <2> QED
    BY <1>8, <2>1, <2>2
<1>14. CASE OpenPart(r) \/ FallBack(r)
  BY <1>4, <1>14 DEF OpenPart, FallBack
<1>15. CASE FallbackFails(r) \/ HandOver(r)
  BY <1>5, <1>15 DEF FallbackFails, HandOver
<1> QED
  BY <1>6, <1>7, <1>10, <1>11, <1>12, <1>13, <1>14, <1>15 DEF LookUp, Download

\* It leaves the logins alone.
LEMMA AudioLeavesLogins ==
  ASSUME AudioInv, LoginInv, NEW r \in Requests,
         \/ AskAudio(r) \/ TakeLock(r) \/ TakeSlot(r)
         \/ LookUp(r) \/ Download(r) \/ HandOver(r)
  PROVE  LoginInv'
<1>1. UNCHANGED login
  BY DEF AskAudio, TakeLock, TakeSlot, LookUp, Scan, Stat, Expire, Evict, List, Touch, Download,
         OpenPart, Complete, FallBack, FallbackCompletes, FallbackFails, HandOver
<1>2. LoginTyped
  BY DEF LoginInv
<1> QED
  BY <1>1, <1>2, AudioStartsNone, LoginsEnd DEF login, LoginTyped

\* A login is started, asked for, confirmed, finalized and removed.
LEMMA LoginKeeps ==
  ASSUME AudioInv, LoginInv, NEW r \in Requests,
         LogIn(r) \/ StartLogin(r) \/ Poll(r) \/ PasteCookie(r)
  PROVE  LoginInv'
<1>1. /\ task \in [Requests -> Task] /\ Idle.at = "idle"
      /\ LoginTyped /\ registry \subseteq entered /\ Starting /\ NoClientIsLost
  BY InvParts, IdleTyped DEF LoginInv
<1>2. /\ registry \subseteq Logins /\ entered \subseteq Logins
      /\ client \in [Logins -> {"none", "open", "closed"}]
      /\ key \in [Logins -> {"waiting", "scanned", "confirmed", "expired"}]
      /\ cookie \in Cookies
  BY <1>1 DEF LoginTyped
<1>3. ASSUME NEW rec, task' = [task EXCEPT ![r] = rec], rec.at # "generate"
      PROVE  NoneStarts
  BY <1>1, <1>3 DEF NoneStarts
<1>4. CASE StartLogin(r)
  <2>1. PICK l \in Logins :
          /\ client[l] = "none" /\ client' = [client EXCEPT ![l] = "open"]
          /\ task' = [task EXCEPT ![r] = [Idle EXCEPT !.at = "generate", !.login = l]]
    BY <1>4 DEF StartLogin
  <2>2. UNCHANGED <<registry, entered, key, cookie>>
    BY <1>4 DEF StartLogin
  <2>3. /\ task'[r].at = "generate" /\ task'[r].login = l
        /\ \A q \in Requests \ {r} : task'[q] = task[q]
    BY <1>1, <2>1 DEF Idle
  <2>4. l \notin entered
    BY <1>1, <2>1 DEF Starting
  <2>5. /\ client'[l] = "open" /\ \A m \in Logins \ {l} : client'[m] = client[m]
        /\ client' \in [Logins -> {"none", "open", "closed"}]
    BY <1>2, <2>1
  <2>6. Starting'
    <3>1. ASSUME NEW q \in Requests, task'[q].at = "generate"
          PROVE  /\ task'[q].login \in Logins \ entered' /\ client'[task'[q].login] = "open"
                 /\ q # r => task'[q].login # l
      <4>1. CASE q = r
        BY <2>2, <2>3, <2>4, <2>5, <4>1
      <4>2. CASE q # r
        <5>1. /\ task'[q] = task[q] /\ task[q].login \in Logins \ entered
              /\ client[task[q].login] = "open"
          BY <1>1, <2>3, <3>1, <4>2 DEF Starting, At
        <5> QED
          BY <2>1, <2>2, <2>5, <5>1
      <4> QED
        BY <4>1, <4>2
    <3>2. \A m \in Logins : client'[m] = "none" => m \notin entered'
      BY <1>1, <2>2, <2>4, <2>5 DEF Starting
    <3> QED
      BY <1>1, <2>3, <3>1, <3>2 DEF Starting, At
  <2>7. NoClientIsLost'
    BY <1>1, <1>2, <2>2, <2>4, <2>5 DEF NoClientIsLost
  <2> QED
    BY <1>1, <1>2, <2>2, <2>5, <2>6, <2>7 DEF LoginInv, LoginTyped
<1>5. CASE Generated(r)
  <2>0. PICK l : l = task[r].login
    OBVIOUS
  <2>1. PICK old \in SUBSET registry : CleanUp(old, l)
    BY <1>5, <2>0 DEF Generated
  <2>2. task[r].at = "generate" /\ Finish(r) /\ UNCHANGED <<key, cookie>>
    BY <1>5 DEF Generated, At
  <2>3. l \in Logins \ entered /\ client[l] = "open" /\ l # Nothing
    BY <1>1, <2>0, <2>2, NothingIsNone DEF Starting, At
  <2>4. /\ registry' = (registry \ old) \cup {l} /\ entered' = entered \cup {l}
        /\ client' = [m \in Logins |-> IF m \in old THEN "closed" ELSE client[m]]
    BY <2>1, <2>3 DEF CleanUp
  <2>5. task'[r] = Idle /\ \A q \in Requests \ {r} : task'[q] = task[q]
    BY <1>1, <2>2 DEF Finish
  <2>6. LoginTyped' /\ registry' \subseteq entered'
    BY <1>1, <1>2, <2>2, <2>3, <2>4 DEF LoginTyped
  <2>7. NoClientIsLost'
    BY <1>1, <1>2, <2>3, <2>4 DEF NoClientIsLost
  <2>8. Starting'
    <3>1. ASSUME NEW q \in Requests, task'[q].at = "generate"
          PROVE  /\ q # r /\ task'[q] = task[q]
                 /\ task'[q].login \in Logins \ entered' /\ client'[task'[q].login] = "open"
      <4>1. q # r /\ task'[q] = task[q]
        BY <1>1, <2>5, <3>1
      <4>2. /\ task[q].login \in Logins \ entered /\ client[task[q].login] = "open"
            /\ task[q].login # l
        BY <1>1, <2>0, <2>2, <3>1, <4>1 DEF Starting, At
      <4> QED
        BY <1>1, <2>4, <4>1, <4>2
    <3>2. \A m \in Logins : client'[m] = "none" => m \notin entered'
      BY <1>1, <2>3, <2>4 DEF Starting
    <3> QED
      BY <1>1, <3>1, <3>2 DEF Starting, At
  <2> QED
    BY <2>6, <2>7, <2>8 DEF LoginInv
<1>6. CASE GenerateFails(r)
  <2>0. PICK l : l = task[r].login
    OBVIOUS
  <2>1. /\ task[r].at = "generate" /\ client' = [client EXCEPT ![l] = "closed"] /\ Finish(r)
        /\ UNCHANGED <<registry, entered, key, cookie>>
    BY <1>6, <2>0 DEF GenerateFails, Close, At
  <2>2. l \in Logins \ entered
    BY <1>1, <2>0, <2>1 DEF Starting, At
  <2>3. task'[r] = Idle /\ \A q \in Requests \ {r} : task'[q] = task[q]
    BY <1>1, <2>1 DEF Finish
  <2>4. /\ client'[l] = "closed" /\ \A m \in Logins \ {l} : client'[m] = client[m]
        /\ client' \in [Logins -> {"none", "open", "closed"}]
    BY <1>2, <2>1, <2>2
  <2>5. NoClientIsLost'
    BY <1>1, <1>2, <2>1, <2>2, <2>4 DEF NoClientIsLost
  <2>6. Starting'
    <3>1. ASSUME NEW q \in Requests, task'[q].at = "generate"
          PROVE  /\ task'[q] = task[q]
                 /\ task'[q].login \in Logins \ entered' /\ client'[task'[q].login] = "open"
      <4>1. q # r /\ task'[q] = task[q]
        BY <1>1, <2>3, <3>1
      <4>2. /\ task[q].login \in Logins \ entered /\ client[task[q].login] = "open"
            /\ task[q].login # l
        BY <1>1, <2>0, <2>1, <3>1, <4>1 DEF Starting, At
      <4> QED
        BY <2>1, <2>4, <4>1, <4>2
    <3>2. \A m \in Logins : client'[m] = "none" => m \notin entered'
      BY <1>1, <2>1, <2>4 DEF Starting
    <3> QED
      BY <1>1, <3>1, <3>2 DEF Starting, At
  <2> QED
    BY <1>1, <1>2, <2>1, <2>4, <2>5, <2>6 DEF LoginInv, LoginTyped
<1>7. CASE Poll(r)
  <2>1. PICK l \in Logins, old \in SUBSET registry :
          /\ CleanUp(old, Nothing)
          /\ task' = IF l \in registry \ old
                       THEN [task EXCEPT ![r] = [Idle EXCEPT !.at = "poll", !.login = l]]
                       ELSE task
    BY <1>7 DEF Poll
  <2>2. UNCHANGED <<key, cookie>>
    BY <1>7 DEF Poll
  <2>3. /\ registry' = registry \ old /\ entered' = entered
        /\ client' = [m \in Logins |-> IF m \in old THEN "closed" ELSE client[m]]
    BY <2>1 DEF CleanUp
  <2>4. NoneStarts
    <3>1. [Idle EXCEPT !.at = "poll", !.login = l].at # "generate"
      BY DEF Idle
    <3>2. CASE UNCHANGED task
      BY <3>2 DEF NoneStarts
    <3> QED
      BY <1>3, <2>1, <3>1, <3>2
  <2>5. \A m \in Logins : m \in registry \ registry' <=> m \in old
    BY <2>3
  <2>6. /\ client' \in [Logins -> {"none", "open", "closed"}]
        /\ \A m \in Logins : client'[m] = IF m \in registry \ registry' THEN "closed" ELSE client[m]
    BY <1>2, <2>3, <2>5
  <2> QED
    BY <1>2, <2>2, <2>3, <2>4, <2>6, LoginsEnd
<1>8. CASE PollExpired(r) \/ PopLogin(r)
  <2>1. PICK l : l = task[r].login
    OBVIOUS
  <2>2. /\ registry' = registry \ {l} /\ UNCHANGED <<entered, key, cookie>>
        /\ IF l \in registry THEN client' = [client EXCEPT ![l] = "closed"] ELSE UNCHANGED client
        /\ Finish(r) \/ Move(r, "save")
    BY <1>8, <2>1 DEF PollExpired, PopLogin, Close
  <2>3. NoneStarts
    <3>1. [task[r] EXCEPT !.at = "save"].at # "generate"
      BY <1>1 DEF Task
    <3> QED
      BY <1>1, <1>3, <2>2, <3>1 DEF Finish, Move
  <2>4. /\ client' \in [Logins -> {"none", "open", "closed"}]
        /\ \A m \in Logins : client'[m] = IF m \in registry \ registry' THEN "closed" ELSE client[m]
    BY <1>2, <2>2
  <2> QED
    BY <1>2, <2>2, <2>3, <2>4, LoginsEnd
<1>9. CASE \/ LeftOpen(r) \/ PollAnswered(r) \/ PollConfirmed(r) \/ Finalize(r) \/ SaveCookie(r)
           \/ PasteCookie(r) \/ PastedChecked(r)
  <2>1. UNCHANGED <<registry, entered, client>>
    BY <1>9 DEF LeftOpen, PollAnswered, PollConfirmed, Finalize, SaveCookie, PasteCookie,
                PastedChecked, login
  <2>2. NoneStarts
    <3>1. CASE LeftOpen(r) \/ PollAnswered(r) \/ SaveCookie(r) \/ PastedChecked(r)
      <4>1. Finish(r)
        BY <3>1 DEF LeftOpen, PollAnswered, SaveCookie, PastedChecked
      <4> QED
        BY <1>1, <1>3, <4>1 DEF Finish
    <3>2. CASE PasteCookie(r)
      <4>1. [Idle EXCEPT !.at = "nav"].at # "generate"
        BY DEF Idle
      <4> QED
        BY <1>3, <3>2, <4>1 DEF PasteCookie
    <3>3. CASE PollConfirmed(r) \/ Finalize(r)
      <4>1. PICK c \in Cookies, to \in {"pop", "finalize"} : task' = [task EXCEPT ![r].got = c, ![r].at = to]
        <5>1. CASE PollConfirmed(r)
          BY <5>1 DEF PollConfirmed
        <5>2. CASE Finalize(r)
          <6>1. task[r].got \in Cookies
            BY <1>1 DEF Task
          <6>2. PICK c \in Cookies : task' = [task EXCEPT ![r].got = c, ![r].at = "pop"]
            BY <5>2, <6>1 DEF Finalize, Cookies
          <6> QED
            BY <6>2
        <5> QED
          BY <3>3, <5>1, <5>2
      <4>2. [task[r] EXCEPT !.got = c, !.at = to].at # "generate"
        BY <1>1 DEF Task
      <4> QED
        BY <1>3, <4>1, <4>2
    <3> QED
      BY <1>9, <3>1, <3>2, <3>3
  <2>3. task[r].got \in Cookies
    BY <1>1 DEF Task
  <2>4. key' \in [Logins -> {"waiting", "scanned", "confirmed", "expired"}] /\ cookie' \in Cookies
    BY <1>2, <1>9, <2>3 DEF LeftOpen, PollAnswered, PollConfirmed, Finalize, SaveCookie, PasteCookie,
                PastedChecked, login, Cookies
  <2> QED
    BY <1>2, <2>1, <2>2, <2>4, LoginsEnd
<1> QED
  BY <1>4, <1>5, <1>6, <1>7, <1>8, <1>9 DEF LogIn

-----------------------------------------------------------------------------
(* The invariant holds.                                                    *)

\* Requests that are all idle.
LEMMA IdleInv ==
  ASSUME task = [r \in Requests |-> Idle], look = [r \in Requests |-> NoLook],
         videoLock = [v \in Videos |-> Nothing], downloading = {},
         dir \in [Videos -> [Kinds -> Contents]],
         mtime \in [Videos -> Nat], clock \in Nat, Dated
  PROVE  AudioInv
<1>1. AudioTyped
  BY IdleTyped DEF AudioTyped
<1>2. SlotsInUse
  BY FS_EmptySet, Limits DEF SlotsInUse
<1>3. ASSUME NEW r \in Requests
      PROVE  /\ Fine(r) /\ Reads(r) /\ ~InLookup(r) /\ ~Reading(r)
  <2>1. task[r] = Idle
    OBVIOUS
  <2> QED
    BY <2>1, IdleTyped, FS_EmptySet DEF Fine, Locks, Holds, Outlives, Holder, HasPath, Locking,
       Reads, Reading, InLookup, LookSteps, At
<1>4. AllFine /\ AllReads /\ AllMeet
  BY <1>3 DEF AllFine, AllReads, AllMeet, Cross, Meets
<1> QED
  BY <1>1, <1>2, <1>4 DEF AudioInv

LEMMA InitInv == Init => BInv
<1> SUFFICES ASSUME Init
             PROVE  BInv
  OBVIOUS
<1>1. /\ dir \in [Videos -> [Kinds -> Contents]] /\ mtime \in [Videos -> Nat] /\ clock \in Nat
      /\ \A v \in Videos : dir[v]["audio"] = "absent" /\ mtime[v] = 0
      /\ clock = 0
  BY DEF Init, NoFile, Kinds, Contents
<1>2. Dated
  BY <1>1 DEF Dated, Cached, Exists
<1>3. AudioInv
  BY <1>1, <1>2, IdleInv DEF Init
<1>4. LoginTyped /\ begun \in Nat /\ stopped \in BOOLEAN /\ registry \subseteq entered
  BY DEF Init, LoginTyped, Cookies
<1>5. Starting /\ NoClientIsLost
  BY IdleTyped DEF Init, Starting, NoClientIsLost, At
<1> QED
  BY <1>3, <1>4, <1>5 DEF BInv, LoginInv

\* The process dies and is started again.
LEMMA CrashKeeps ==
  ASSUME BInv, Crash
  PROVE  AudioInv' /\ LoginInv'
<1>1. AudioInv /\ LoginInv
  BY DEF BInv
<1>2. /\ look' = [r \in Requests |-> NoLook] /\ videoLock' = [v \in Videos |-> Nothing]
      /\ downloading' = {} /\ task' = [r \in Requests |-> Idle] /\ registry' = {}
      /\ client' = [l \in Logins |-> IF client[l] = "open" THEN "closed" ELSE client[l]]
      /\ UNCHANGED <<dir, mtime, clock, entered, key, cookie>>
  BY DEF Crash, files
<1>3. Dated'
  BY <1>1, <1>2, InvParts DEF Dated, Cached, Exists
<1>4. /\ dir' \in [Videos -> [Kinds -> Contents]]
      /\ mtime' \in [Videos -> Nat] /\ clock' \in Nat
  BY <1>1, <1>2, InvParts
<1>5. AudioInv'
  <2>1. AudioTyped'
    BY <1>2, <1>4, IdleTyped DEF AudioTyped
  <2>2. SlotsInUse'
    BY <1>2, FS_EmptySet, Limits DEF SlotsInUse
  <2>3. ASSUME NEW r \in Requests
        PROVE  /\ Fine(r)' /\ Reads(r)' /\ ~InLookup(r)' /\ ~Reading(r)'
    <3>1. task'[r] = Idle
      BY <1>2
    <3> QED
      BY <3>1, IdleTyped, FS_EmptySet DEF Fine, Locks, Holds, Outlives, Holder, HasPath, Locking,
         Reads, Reading, InLookup, LookSteps, At
  <2>4. AllFine' /\ AllReads' /\ AllMeet'
    BY <2>3 DEF AllFine, AllReads, AllMeet, Cross, Meets
  <2> QED
    BY <1>3, <2>1, <2>2, <2>4 DEF AudioInv
<1>6. LoginInv'
  <2>1. LoginTyped /\ Starting
    BY <1>1 DEF LoginInv
  <2>2. LoginTyped' /\ registry' \subseteq entered'
    BY <1>2, <2>1 DEF LoginTyped
  <2>3. \A r \in Requests : task'[r].at # "generate"
    BY <1>2, IdleTyped
  <2>4. \A l \in Logins : client'[l] # "open" /\ (client'[l] = "none" => client[l] = "none")
    BY <1>2
  <2>5. Starting'
    BY <1>2, <2>1, <2>3, <2>4 DEF Starting, At
  <2>6. NoClientIsLost'
    BY <1>2, <2>1, <2>4 DEF NoClientIsLost, LoginTyped
  <2> QED
    BY <2>2, <2>5, <2>6 DEF LoginInv
<1> QED
  BY <1>5, <1>6

\* A step of nobody's request.
LEMMA OthersKeep ==
  ASSUME BInv, PhoneOrServer \/ Shutdown \/ UNCHANGED vars
  PROVE  AudioInv' /\ LoginInv'
<1>1. UNCHANGED <<audio, task>> /\ LoginInv /\ AudioInv
  BY DEF PhoneOrServer, Shutdown, vars, BInv
<1>2. AudioInv'
  BY <1>1, AudioRests
<1>3. NoneStarts /\ LoginTyped
  BY <1>1 DEF NoneStarts, LoginInv
<1>4. CASE Shutdown
  <2>1. /\ registry' = {} /\ UNCHANGED <<entered, key, cookie>>
        /\ client' = [l \in Logins |-> IF l \in registry THEN "closed" ELSE client[l]]
    BY <1>4 DEF Shutdown
  <2> QED
    BY <1>1, <1>2, <1>3, <2>1, LoginsEnd DEF LoginTyped
<1>5. CASE PhoneOrServer
  <2>1. UNCHANGED <<registry, entered, client, cookie>>
    BY <1>5 DEF PhoneOrServer
  <2>2. key' \in [Logins -> {"waiting", "scanned", "confirmed", "expired"}]
    BY <1>3, <1>5 DEF PhoneOrServer, LoginTyped
  <2> QED
    BY <1>1, <1>2, <1>3, <2>1, <2>2, LoginsEnd DEF LoginTyped
<1>6. CASE UNCHANGED vars
  BY <1>1, <1>2, <1>3, <1>6, LoginsEnd DEF LoginTyped, vars, login
<1> QED
  BY <1>4, <1>5, <1>6

LEMMA StepInv == BInv /\ [Next]_vars => BInv'
<1> SUFFICES ASSUME BInv, [Next]_vars
             PROVE  BInv'
  OBVIOUS
<1>1. AudioInv /\ LoginInv /\ begun \in Nat /\ stopped \in BOOLEAN
  BY DEF BInv
<1>2. begun' \in Nat /\ stopped' \in BOOLEAN
  <2>1. ASSUME NEW r \in Requests, Begin(r)
        PROVE  begun' = begun + 1 /\ stopped' = stopped
    BY <2>1 DEF Begin, AskAudio, StartLogin, Poll, PasteCookie, Arrives
  <2>2. ASSUME NEW r \in Requests,
               TakeLock(r) \/ TakeSlot(r) \/ LookUp(r) \/ Download(r) \/ HandOver(r)
        PROVE  UNCHANGED life
    BY <2>2 DEF TakeLock, TakeSlot, LookUp, Scan, Stat, Expire, Evict, List, Touch, Download,
                OpenPart, Complete, FallBack, FallbackCompletes, FallbackFails, HandOver
  <2>3. ASSUME NEW r \in Requests, LogIn(r)
        PROVE  UNCHANGED life
    BY <2>3 DEF LogIn, Generated, GenerateFails, LeftOpen, PollAnswered, PollExpired,
                PollConfirmed, Finalize, PopLogin, SaveCookie, PastedChecked
  <2>4. CASE PhoneOrServer \/ Shutdown \/ Crash \/ UNCHANGED vars
    BY <1>1, <2>4 DEF PhoneOrServer, Shutdown, Crash, vars, life
  <2> QED
    BY <1>1, <2>1, <2>2, <2>3, <2>4 DEF Next, Proceed, life
<1>3. ASSUME NEW r \in Requests,
             \/ AskAudio(r) \/ TakeLock(r) \/ TakeSlot(r)
             \/ LookUp(r) \/ Download(r) \/ HandOver(r)
      PROVE  AudioInv' /\ LoginInv'
  BY <1>1, <1>3, AudioLeavesLogins, AskKeeps, TakeLockKeeps, TakeSlotKeeps, LookUpKeeps,
     DownloadKeeps, HandOverKeeps
<1>4. ASSUME NEW r \in Requests, StartLogin(r) \/ Poll(r) \/ PasteCookie(r) \/ LogIn(r)
      PROVE  AudioInv' /\ LoginInv'
  BY <1>1, <1>4, LoginLeavesAudio, LoginKeeps
<1>5. ASSUME PhoneOrServer \/ Shutdown \/ UNCHANGED vars
      PROVE  AudioInv' /\ LoginInv'
  BY <1>5, OthersKeep
<1>6. ASSUME Crash
      PROVE  AudioInv' /\ LoginInv'
  BY <1>6, CrashKeeps
<1>7. AudioInv' /\ LoginInv'
  BY <1>3, <1>4, <1>5, <1>6 DEF Next, Begin, Proceed
<1> QED
  BY <1>2, <1>7 DEF BInv

\* It holds in every state.
THEOREM Invariant == Spec => []BInv
BY InitInv, StepInv, PTL DEF Spec

-----------------------------------------------------------------------------
(* What it says.                                                           *)

\* A request is never given a piece of audio that a failed download or a dead process
\* left behind, whoever fails, looks or removes meanwhile, for any number of requests
\* and videos (the filter for .part files in _find_cached_bilibili_audio, os.replace
\* in _download_bilibili_audio_sync).
THEOREM NoPieceReachesAPlayer == Spec => []NoPieceIsServed
<1>1. BInv => NoPieceIsServed
  <2> SUFFICES ASSUME BInv, NEW r \in Requests, HasPath(r)
               PROVE  dir[task[r].video][task[r].path] # "piece"
    BY DEF NoPieceIsServed
  <2>1. task[r].path = "audio" /\ task[r].video \in Videos /\ Dated
    BY InvParts DEF BInv, Fine, Holds, Locks, HasPath, At
  <2> QED
    BY <2>1 DEF Dated
<1> QED
  BY <1>1, Invariant, PTL

\* The path a request was given is good until it is handed over, unless lookups
\* overlapped, one of them in a thread, or as many other videos were used since as
\* the cache has room for (prune_audio_cache reads the times of the files one by one
\* and removes them one by one), for any number of requests, files and videos.
THEOREM PathsStayGood == Spec => []PathsOutliveTheirUse
<1>1. BInv => PathsOutliveTheirUse
  <2> SUFFICES ASSUME BInv, NEW r \in Requests, HasPath(r), ~task[r].crossed,
                      ~Cached(task[r].video)
               PROVE  Cardinality(task[r].since) >= MaxFiles
    BY DEF PathsOutliveTheirUse
  <2> QED
    BY InvParts DEF BInv, Fine, Outlives, Holder, Enough, Newest
<1> QED
  BY <1>1, Invariant, PTL

\* The HTTP client of a login that was entered in the registry is open exactly as
\* long as the login is there, whoever of its polls, the clean-up, the shutdown and a
\* crash comes first, for any number of logins and polls.
THEOREM ClientsAreClosed == Spec => []NoClientIsLost
<1>1. BInv => NoClientIsLost
  BY DEF BInv, LoginInv
<1> QED
  BY <1>1, Invariant, PTL

\* The step that starts a download.
DownloadIsNew(r) ==
  task[r].at # "api" /\ task'[r].at = "api" =>
    /\ ~Cached(task[r].video)
    /\ Cardinality({q \in Requests : task'[q].stage = "thread"}) <= Slots
    /\ \A q \in Requests \ {r} : task[q].stage = "thread" => task[q].video # task[r].video

\* Only a lookup that found nothing starts a download.
LEMMA OnlyListStarts ==
  ASSUME BInv, [Next]_vars, NEW r \in Requests, task[r].at # "api", task'[r].at = "api"
  PROVE  List(r)
<1>1. AudioInv /\ task \in [Requests -> Task]
  BY InvParts DEF BInv
<1>2. Idle.at # "api"
  BY DEF Idle
<1>3. ASSUME NEW q \in Requests, NEW v \in Videos, NEW rec \in Task, rec.at # "api",
             task' = Noting(v, q, rec)
      PROVE  FALSE
  <2>1. task'[q] = rec /\ \A p \in Requests \ {q} : task'[p].at = task[p].at
    BY <1>1, <1>3, NotingOthers DEF Follows
  <2> QED
    BY <1>3, <2>1
<1>4. ASSUME NEW q \in Requests, NEW rec, rec.at # "api", task' = [task EXCEPT ![q] = rec]
      PROVE  FALSE
  BY <1>1, <1>4
<1>5. ASSUME NEW q \in Requests, Touch(q) \/ Complete(q) \/ FallbackCompletes(q)
      PROVE  FALSE
  <2>1. task[q].video \in Videos
    BY <1>1, <1>5, InvParts DEF Touch, Complete, FallbackCompletes, At, Fine, Locks, Locking
  <2>2. PICK crossed : crossed = (task[q].crossed \/ \E p \in Requests : InLookup(p) /\ task[p].crossed)
    OBVIOUS
  <2>3. crossed \in BOOLEAN
    BY <1>1, <2>2 DEF Task
  <2> DEFINE got  == [task[q] EXCEPT !.at = "have", !.stage = "lock", !.path = "audio",
                                     !.crossed = crossed]
             done == [task[q] EXCEPT !.at = "scan"]
  <2>4. got \in Task /\ got.at = "have"
    BY <1>1, <2>3, ObtainTyped
  <2>5. done \in Task /\ done.at = "scan"
    BY <1>1 DEF Task, AudioSteps
  <2>6. task[q].at = "touch" => task[q].path = "audio"
    BY <1>1, InvParts DEF Fine, Holds
  <2>7. task' = Noting(task[q].video, q, got) \/ task' = Noting(task[q].video, q, done)
    BY <1>5, <2>2, <2>6 DEF Touch, Complete, FallbackCompletes, Obtain, At
  <2> HIDE DEF got, done
  <2> QED
    BY <1>3, <2>1, <2>4, <2>5, <2>7
<1>6. ASSUME NEW q \in Requests, TakeLock(q) \/ TakeSlot(q) \/ Scan(q)
      PROVE  FALSE
  <2>1. task[q].video \in Videos
    BY <1>1, <1>6, InvParts DEF TakeLock, TakeSlot, Scan, At, Fine, Locks, Locking
  <2>2. PICK stage \in Stages : BeginLookup(q, stage)
    BY <1>6 DEF TakeLock, TakeSlot, Scan, Stages
  <2> DEFINE rec == [task[q] EXCEPT !.at = "stat", !.stage = stage, !.crossed = FALSE]
  <2>3. rec \in Task /\ rec.at = "stat" /\ rec.crossed = FALSE
    BY <1>1 DEF Task, AudioSteps, LookSteps
  <2>4. task' = Crossing(task[q].video, q, rec)
    BY <2>2 DEF BeginLookup
  <2> HIDE DEF rec
  <2>5. task'[q].at = "stat" /\ \A p \in Requests \ {q} : task'[p].at = task[p].at
    BY <1>1, <2>1, <2>3, <2>4, CrossingOthers DEF Follows
  <2> QED
    BY <2>5
<1>7. ASSUME NEW q \in Requests, NEW to, to # "api", Move(q, to)
      PROVE  FALSE
  <2>1. [task[q] EXCEPT !.at = to].at # "api"
    BY <1>1, <1>7 DEF Task
  <2> QED
    BY <1>4, <1>7, <2>1 DEF Move
<1>8. ASSUME NEW q \in Requests,
             \/ Stat(q) \/ Expire(q) \/ Evict(q) \/ OpenPart(q) \/ FallBack(q) \/ PopLogin(q)
      PROVE  FALSE
  <2>1. ~UNCHANGED task
    OBVIOUS
  <2> QED
    BY <1>7, <1>8, <2>1 DEF Stat, Expire, Evict, OpenPart, FallBack, PopLogin
<1>9. ASSUME NEW q \in Requests, Begin(q)
      PROVE  FALSE
  <2>1. \E rec : rec.at # "api" /\ (task' = [task EXCEPT ![q] = rec] \/ UNCHANGED task)
    BY <1>2, <1>9 DEF Begin, AskAudio, StartLogin, Poll, PasteCookie, Idle
  <2> QED
    BY <1>4, <2>1
<1>10. ASSUME NEW q \in Requests, PollConfirmed(q) \/ Finalize(q)
       PROVE  FALSE
  <2>1. PICK c \in Cookies, to \in {"pop", "finalize"} : task' = [task EXCEPT ![q].got = c, ![q].at = to]
    <3>1. CASE PollConfirmed(q)
      BY <3>1 DEF PollConfirmed
    <3>2. CASE Finalize(q)
      <4>1. task[q].got \in Cookies
        BY <1>1 DEF Task
      <4>2. PICK c \in Cookies : task' = [task EXCEPT ![q].got = c, ![q].at = "pop"]
        BY <3>2, <4>1 DEF Finalize, Cookies
      <4> QED
        BY <4>2
    <3> QED
      BY <1>10, <3>1, <3>2
  <2>2. [task[q] EXCEPT !.got = c, !.at = to].at # "api"
    BY <1>1 DEF Task
  <2> QED
    BY <1>4, <2>1, <2>2
<1>11. ASSUME NEW q \in Requests,
              \/ FallbackFails(q) \/ HandOver(q) \/ Generated(q) \/ GenerateFails(q)
              \/ LeftOpen(q) \/ PollAnswered(q) \/ PollExpired(q) \/ SaveCookie(q)
              \/ PastedChecked(q)
       PROVE  FALSE
  <2>1. Finish(q)
    BY <1>11 DEF FallbackFails, HandOver, Generated, GenerateFails, LeftOpen, PollAnswered,
                 PollExpired, SaveCookie, PastedChecked
  <2> QED
    BY <1>2, <1>4, <2>1 DEF Finish
<1>12. ASSUME NEW q \in Requests, List(q), q # r
       PROVE  FALSE
  <2>1. \E rec : task' = [task EXCEPT ![q] = rec]
    BY <1>12 DEF List, Move, Finish
  <2> QED
    BY <1>1, <1>12, <2>1
<1>13. CASE PhoneOrServer \/ Shutdown \/ Crash \/ UNCHANGED vars
  BY <1>2, <1>13 DEF PhoneOrServer, Shutdown, Crash, vars
<1> QED
  BY <1>5, <1>6, <1>8, <1>9, <1>10, <1>11, <1>12, <1>13
     DEF Next, Proceed, LookUp, Download, LogIn

\* It starts one that is new.
LEMMA StepIsNew ==
  ASSUME BInv, [Next]_vars, NEW r \in Requests
  PROVE  DownloadIsNew(r)
<1> SUFFICES ASSUME task[r].at # "api", task'[r].at = "api"
             PROVE  /\ ~Cached(task[r].video)
                    /\ Cardinality({q \in Requests : task'[q].stage = "thread"}) <= Slots
                    /\ \A q \in Requests \ {r} :
                         task[q].stage = "thread" => task[q].video # task[r].video
  BY DEF DownloadIsNew
<1>1. List(r) /\ BInv'
  BY OnlyListStarts, StepInv
<1>2. AudioInv /\ task \in [Requests -> Task] /\ SlotsInUse' /\ \A q \in Requests : Fine(q) /\ Fine(q)'
  BY <1>1, InvParts DEF BInv, AudioInv, AllFine
<1>3. task[r].at = "stat"
  BY <1>1 DEF List, At
<1>4. ~Cached(task[r].video)
  <2>1. task'[r].at # "touch" /\ task'[r].at # "waitSlot" /\ task'[r].at # "idle"
    OBVIOUS
  <2>2. Candidates(task[r].video) = {}
    BY <1>1, <1>2, <2>1 DEF List, Task
  <2> QED
    BY <2>2 DEF Candidates, Kinds, Cached
<1>5. Cardinality({q \in Requests : task'[q].stage = "thread"}) <= Slots
  <2> DEFINE threads == {q \in Requests : task'[q].stage = "thread"}
  <2>1. threads \subseteq downloading'
    BY <1>2 DEF Fine, Holds
  <2>2. IsFiniteSet(downloading') /\ Cardinality(downloading') <= Slots
    BY <1>2 DEF SlotsInUse
  <2>3. /\ Cardinality(threads) <= Cardinality(downloading')
        /\ Cardinality(threads) \in Nat /\ Cardinality(downloading') \in Nat
    BY <2>1, <2>2, FS_Subset, FS_CardinalityType
  <2> QED
    BY <2>2, <2>3, Limits
<1>6. ASSUME NEW q \in Requests \ {r}, task[q].stage = "thread"
      PROVE  task[q].video # task[r].video
  BY <1>2, <1>3, <1>6 DEF Fine, Locks, Holds, Locking
<1> QED
  BY <1>4, <1>5, <1>6

\* A download starts only for a video that is not in the cache and that nobody else
\* downloads, and no more run than there are slots (_download_bilibili_audio), for
\* any number of requests, videos and slots.
THEOREM DownloadsAreNew == Spec => NeverDownloadedTwice
<1>1. BInv /\ [Next]_vars => [\A r \in Requests : DownloadIsNew(r)]_vars
  BY StepIsNew
<1>2. (\A r \in Requests : DownloadIsNew(r))
        <=> \A r \in Requests :
              task[r].at # "api" /\ task'[r].at = "api" =>
                /\ ~Cached(task[r].video)
                /\ Cardinality({q \in Requests : task'[q].stage = "thread"}) <= Slots
                /\ \A q \in Requests \ {r} : task[q].stage = "thread" => task[q].video # task[r].video
  BY DEF DownloadIsNew
<1> QED
  BY <1>1, <1>2, Invariant, PTL DEF Spec, NeverDownloadedTwice

=============================================================================
