--------------------------- MODULE ReleaseProofs ---------------------------
(***************************************************************************)
(* Proofs about Release, for any number of operators working at once, any  *)
(* releases and any defects: no manifest calls a release deployed whose    *)
(* Web image lacks a route; and of an operation around which nothing else  *)
(* went wrong, that its report says what runs, that it leaves a working    *)
(* Web client working, and that a pair keeps the song.                     *)
(***************************************************************************)
EXTENDS Release, TLAPS

(* Types *)

\* A record at rest is an operation.
LEMMA RestingTyped == Resting \in Operation
BY ReleaseAssumption DEF Resting, Operation, Kinds, Services

\* Docker Compose leaves containers of known releases.
LEMMA RecreateTyped ==
  ASSUME TypeOK, NEW scope \in SUBSET Services, NEW r \in Releases, Recreate(scope, r)
  PROVE  /\ serves' \in [Services -> Releases \cup {Nothing}] /\ under' \in Releases
         /\ voice' \in [src : Tracks, on : BOOLEAN]
         /\ now' \in Tracks \cup {Nothing} /\ up' \in {"up", "boot", "down"}
<1>1. override[r] \in Overrides
  BY DEF TypeOK, Recreate
<1> QED
  BY <1>1 DEF TypeOK, Recreate, Overrides

\* And so does one that failed half way.
LEMMA UpFailsTyped ==
  ASSUME TypeOK, NEW scope \in SUBSET Services, NEW r \in Releases, UpFails(scope, r)
  PROVE  /\ serves' \in [Services -> Releases \cup {Nothing}] /\ under' \in Releases
         /\ voice' \in [src : Tracks, on : BOOLEAN]
         /\ now' \in Tracks \cup {Nothing} /\ up' \in {"up", "boot", "down"}
BY DEF TypeOK, UpFails

\* A kind of release is about some of the services.
LEMMA ScopeTyped == ASSUME NEW kind PROVE Scope(kind) \in SUBSET Services
BY DEF Scope, Services

\* One operation changes to a record of the type.
LEMMA OneTyped ==
  ASSUME TypeOK, NEW o \in Operators, NEW rec \in Operation, op' = [op EXCEPT ![o] = rec]
  PROVE  op' \in [Operators -> Operation]
<1>1. op \in [Operators -> Operation]
  BY DEF TypeOK
<1> QED
  BY <1>1

\* An operation that has ended is one at rest with its result.
LEMMA SettledTyped ==
  ASSUME NEW rec \in Operation
  PROVE  Settled(rec) \in Operation
<1>1. rec.result \in {"none", "ok", "failed"} /\ rec.trouble \in BOOLEAN
  BY DEF Operation
<1>2. [Resting EXCEPT !.result = rec.result, !.trouble = rec.trouble] \in Operation
  BY <1>1, RestingTyped DEF Operation
<1> QED
  BY <1>2 DEF Settled

\* A result is a record of the type.
LEMMA EndsTyped ==
  ASSUME TypeOK, NEW o \in Operators, NEW result \in {"ok", "failed"}, NEW t \in BOOLEAN,
         Ends(o, result, t)
  PROVE  op' \in [Operators -> Operation]
<1>1. op[o] \in Operation
  BY DEF TypeOK
<1>2. [op[o] EXCEPT !.at = "idle", !.result = result, !.trouble = op[o].trouble \/ t] \in Operation
  BY <1>1 DEF Operation
<1> QED
  BY <1>2, SettledTyped, OneTyped DEF Ends

\* So is the next stage of a script.
LEMMA GoesToTyped ==
  ASSUME TypeOK, NEW o \in Operators,
         NEW s \in {"unpack", "build", "probe", "capture", "switch", "resumed", "web", "image",
                    "ready", "commit", "exit"},
         GoesTo(o, s)
  PROVE  op' \in [Operators -> Operation] /\ op'[o].sh = s
<1>1. op[o] \in Operation
  BY DEF TypeOK
<1>2. [op[o] EXCEPT !.sh = s] \in Operation
  BY <1>1 DEF Operation
<1>3. op' = [op EXCEPT ![o] = [op[o] EXCEPT !.sh = s]]
  BY <1>1 DEF GoesTo, TypeOK
<1> QED
  BY <1>1, <1>2, <1>3, OneTyped DEF TypeOK, Operation

\* So is a script that fails,
LEMMA ShellFailsTyped ==
  ASSUME TypeOK, NEW o \in Operators, ShellFails(o)
  PROVE  TypeOK'
BY GoesToTyped DEF ShellFails, Untouched, TypeOK, hostVars, fileVars, playVars, pointVars

\* and one that cleans up after itself.
LEMMA CleanupTyped ==
  ASSUME TypeOK, NEW o \in Operators, NEW s \in {"over", op[o].sh}, NEW t \in BOOLEAN, Cleanup(o, s, t)
  PROVE  TypeOK'
<1>1. op[o] \in Operation /\ op[o].from \in Releases
  BY DEF TypeOK, Operation
<1>2. \A more \in BOOLEAN :
        [op[o] EXCEPT !.sh = s, !.trouble = op[o].trouble \/ t \/ more] \in Operation
  BY <1>1 DEF Operation
<1>3. op' \in [Operators -> Operation]
  BY <1>2, SettledTyped, OneTyped DEF Cleanup
<1>4. /\ serves' \in [Services -> Releases \cup {Nothing}] /\ under' \in Releases
      /\ voice' \in [src : Tracks, on : BOOLEAN]
      /\ now' \in Tracks \cup {Nothing} /\ up' \in {"up", "boot", "down"}
  <2>1. CASE UNCHANGED <<hostVars, playVars>>
    BY <2>1 DEF TypeOK, hostVars, playVars
  <2>2. CASE Recreate(Scope(op[o].kind), op[o].from)
    BY <1>1, <2>2, RecreateTyped, ScopeTyped
  <2>3. CASE UpFails(Scope(op[o].kind), op[o].from)
    BY <1>1, <2>3, UpFailsTyped, ScopeTyped
  <2> QED
    BY <2>1, <2>2, <2>3 DEF Cleanup
<1> QED
  BY <1>3, <1>4 DEF Cleanup, TypeOK, fileVars, pointVars

-----------------------------------------------------------------------------
HostTyped == /\ serves \in [Services -> Releases \cup {Nothing}] /\ under \in Releases
             /\ voice \in [src : Tracks, on : BOOLEAN]
             /\ now \in Tracks \cup {Nothing} /\ up \in {"up", "boot", "down"}

\* The first state has the types.
LEMMA InitTyped == Init => TypeOK
<1> SUFFICES ASSUME Init PROVE TypeOK
  OBVIOUS
<1>1. op \in [Operators -> Operation]
  BY RestingTyped DEF Init
<1>2. [s \in Services |-> First] \in Overrides /\ runs \in 0 .. MaxRuns
  BY ReleaseAssumption DEF Overrides, Init
<1>3. HostTyped
  BY ReleaseAssumption DEF Init, HostTyped
<1>4. /\ override \in [Releases -> Overrides \cup {Nothing}]
      /\ stage \in [Releases -> {"none", "made", "prepared", "deployed"}]
      /\ offers \in [Releases -> SUBSET Routes]
  BY <1>2 DEF Init
<1>5. checkpoint \in [Releases -> Payload \cup {Nothing}] /\ saved \in [Releases -> Payload \cup {Nothing}]
      /\ steady \subseteq Releases
  BY DEF Init
<1> QED
  BY <1>1, <1>2, <1>3, <1>4, <1>5 DEF TypeOK, HostTyped

\* Finding out what runs keeps the types.
LEMMA DiscoverTyped ==
  ASSUME TypeOK, NEW o \in Operators, NEW kind \in Kinds, NEW r \in Releases, Discover(o, kind, r)
  PROVE  TypeOK'
<1>1. op \in [Operators -> Operation] /\ under \in Releases /\ runs \in 0 .. MaxRuns
      /\ serves \in [Services -> Releases \cup {Nothing}]
  BY DEF TypeOK
<1>2. ASSUME NEW p \in Operators
      PROVE  op[p] \in Operation /\ [op[p] EXCEPT !.trouble = TRUE] \in Operation
  <2>1. op[p] \in Operation
    BY <1>1
  <2> QED
    BY <2>1 DEF Operation
<1>3. [Resting EXCEPT
         !.at = IF kind = "rollback" THEN "remote" ELSE "package",
         !.sh = IF kind = "rollback" THEN "switch" ELSE "none",
         !.kind = kind, !.rel = r, !.from = under,
         !.switched = (kind = "rollback"), !.link = TRUE,
         !.had = serves, !.trouble = ~Alone(o)] \in Operation
  BY <1>1, RestingTyped DEF Operation, Resting
<1>4. op' \in [Operators -> Operation]
  BY <1>2, <1>3 DEF Discover
<1>5. runs' \in 0 .. MaxRuns
  BY <1>1, ReleaseAssumption DEF Discover
<1> QED
  BY <1>4, <1>5 DEF Discover, TypeOK, hostVars, fileVars, playVars, pointVars

\* Packaging, accepting, reporting and what interrupts a script keep the types.
LEMMA ScriptTyped ==
  ASSUME TypeOK, NEW o \in Operators, Package(o) \/ Returned(o) \/ Accept(o) \/ WriteReport(o) \/ Interrupt(o)
                                     \/ LinkLost(o) \/ BrokenPipe(o)
  PROVE  TypeOK'
<1>1. op[o] \in Operation /\ op \in [Operators -> Operation]
  BY DEF TypeOK
<1>2. Untouched
  BY DEF Package, Returned, Accept, WriteReport, Interrupt, LinkLost, BrokenPipe
<1>3. CASE \E result \in {"ok", "failed"}, t \in BOOLEAN : Ends(o, result, t)
  BY <1>2, <1>3, EndsTyped DEF Untouched, TypeOK, hostVars, fileVars, playVars, pointVars
<1>4. ASSUME NEW rec \in Operation, op' = [op EXCEPT ![o] = rec] PROVE TypeOK'
  BY <1>2, <1>4, OneTyped DEF Untouched, TypeOK, hostVars, fileVars, playVars, pointVars
<1>5. CASE Package(o)
  <2>1. [op[o] EXCEPT !.at = "remote", !.sh = "fresh"] \in Operation
    BY <1>1 DEF Operation
  <2>2. CASE op' = [op EXCEPT ![o].at = "remote", ![o].sh = "fresh"]
    <3>1. op' = [op EXCEPT ![o] = [op[o] EXCEPT !.at = "remote", !.sh = "fresh"]]
      BY <1>1, <2>2
    <3> QED
      BY <1>4, <2>1, <3>1
  <2> QED
    BY <1>3, <1>5, <2>2 DEF Package
<1>6. ASSUME NEW a \in {"accept", "again", "restore", "report"}, op' = [op EXCEPT ![o].at = a] PROVE TypeOK'
  <2>1. [op[o] EXCEPT !.at = a] \in Operation
    BY <1>1 DEF Operation
  <2>2. op' = [op EXCEPT ![o] = [op[o] EXCEPT !.at = a]]
    BY <1>1, <1>6
  <2> QED
    BY <1>4, <2>1, <2>2
<1>7. CASE Returned(o)
  BY <1>3, <1>6, <1>7 DEF Returned
<1>8. CASE Accept(o)
  BY <1>3, <1>6, <1>8 DEF Accept
<1>9. CASE WriteReport(o) \/ Interrupt(o)
  BY <1>3, <1>9 DEF WriteReport, Interrupt
<1>10. CASE LinkLost(o)
  <2>1. [op[o] EXCEPT !.at = "idle", !.link = FALSE, !.result = "failed", !.trouble = TRUE] \in Operation
    BY <1>1 DEF Operation
  <2>2. op' = [op EXCEPT ![o] = [op[o] EXCEPT !.at = "idle", !.link = FALSE, !.result = "failed", !.trouble = TRUE]]
    BY <1>1, <1>10 DEF LinkLost
  <2> QED
    BY <1>4, <2>1, <2>2
<1>11. CASE BrokenPipe(o)
  <2>1. [op[o] EXCEPT !.sh = "over"] \in Operation
    BY <1>1 DEF Operation
  <2> QED
    BY <1>4, <1>11, <2>1, SettledTyped DEF BrokenPipe
<1> QED
  BY <1>5, <1>7, <1>8, <1>9, <1>10, <1>11

\* Putting the override back keeps the types.
LEMMA RestoreTyped ==
  ASSUME TypeOK, NEW o \in Operators, RestoreOverride(o)
  PROVE  TypeOK'
<1>1. op[o].from \in Releases
  BY DEF TypeOK, Operation
<1>2. op' \in [Operators -> Operation]
  BY EndsTyped DEF RestoreOverride
<1>3. HostTyped'
  BY <1>1, RecreateTyped, UpFailsTyped, ScopeTyped DEF RestoreOverride, HostTyped
<1> QED
  BY <1>2, <1>3 DEF RestoreOverride, TypeOK, HostTyped, fileVars, pointVars

\* The test for the release directory keeps the types.
LEMMA FreshTyped ==
  ASSUME TypeOK, NEW o \in Operators, Fresh(o)
  PROVE  TypeOK'
<1>1. CASE ShellFails(o)
  BY <1>1, ShellFailsTyped
<1>2. CASE GoesTo(o, "unpack") /\ Untouched
  BY <1>2, GoesToTyped DEF Untouched, TypeOK, hostVars, fileVars, playVars, pointVars
<1> QED
  BY <1>1, <1>2 DEF Fresh

\* Unpacking keeps the types.
LEMMA UnpackTyped ==
  ASSUME TypeOK, NEW o \in Operators, Unpack(o)
  PROVE  TypeOK'
<1>1. op[o].rel \in Releases /\ op[o].from \in Releases
  BY DEF TypeOK, Operation
<1>2. op' \in [Operators -> Operation]
  BY GoesToTyped DEF Unpack
<1>3. stage' \in [Releases -> {"none", "made", "prepared", "deployed"}]
  BY <1>1 DEF Unpack, TypeOK
<1>4. override' \in [Releases -> Overrides \cup {Nothing}]
  <2>1. override[op[o].from] \in Overrides \cup {Nothing} /\ override \in [Releases -> Overrides \cup {Nothing}]
    BY <1>1 DEF TypeOK
  <2>2. override[op[o].from] # Nothing => WebOverride(o) \in Overrides
    BY <1>1, <2>1 DEF WebOverride, Overrides
  <2> QED
    BY <1>1, <2>1, <2>2 DEF Unpack
<1> QED
  BY <1>2, <1>3, <1>4 DEF Unpack, TypeOK, hostVars, playVars, pointVars

\* Building keeps the types.
LEMMA BuildTyped ==
  ASSUME TypeOK, NEW o \in Operators, Build(o)
  PROVE  TypeOK'
<1>1. CASE ShellFails(o)
  BY <1>1, ShellFailsTyped
<1>2. CASE /\ GoesTo(o, "probe")
           /\ \E d \in Defects \cup {Nothing} : offers' = [offers EXCEPT ![op[o].rel] = Routes \ {d}]
           /\ UNCHANGED <<hostVars, playVars, pointVars, override, stage, runs>>
  <2>1. op' \in [Operators -> Operation]
    BY <1>2, GoesToTyped
  <2>2. offers' \in [Releases -> SUBSET Routes]
    <3>1. offers \in [Releases -> SUBSET Routes]
      BY DEF TypeOK
    <3>2. PICK d : offers' = [offers EXCEPT ![op[o].rel] = Routes \ {d}]
      BY <1>2
    <3> QED
      BY <3>1, <3>2
  <2> QED
    BY <1>2, <2>1, <2>2 DEF TypeOK, hostVars, playVars, pointVars
<1> QED
  BY <1>1, <1>2 DEF Build

\* Probing keeps the types.
LEMMA ProbeTyped ==
  ASSUME TypeOK, NEW o \in Operators, Probe(o)
  PROVE  TypeOK'
<1>1. CASE ShellFails(o)
  BY <1>1, ShellFailsTyped
<1>2. CASE /\ GoesTo(o, "switch") \/ GoesTo(o, "capture")
           /\ \/ UNCHANGED override
              \/ override' = [override EXCEPT ![op[o].rel] = [s \in Services |-> op[o].rel]]
           /\ UNCHANGED <<hostVars, playVars, pointVars, stage, offers, runs>>
  <2>1. op' \in [Operators -> Operation] /\ op[o].rel \in Releases
    BY <1>2, GoesToTyped DEF TypeOK, Operation
  <2>2. override' \in [Releases -> Overrides \cup {Nothing}]
    BY <1>2, <2>1 DEF TypeOK, Overrides
  <2> QED
    BY <1>2, <2>1, <2>2 DEF TypeOK, hostVars, playVars, pointVars
<1> QED
  BY <1>1, <1>2 DEF Probe

\* Saving the playback keeps the types.
LEMMA CaptureTyped ==
  ASSUME TypeOK, NEW o \in Operators, Capture(o)
  PROVE  TypeOK'
<1>1. CASE ShellFails(o)
  BY <1>1, ShellFailsTyped
<1>2. CASE ~ShellFails(o)
  <2>1. PICK p \in {StatusNow, Unreachable}
                 \cup {saved[q] : q \in {q \in Releases : /\ now = Nothing
                                                         /\ saved[q] # Nothing
                                                         /\ saved[q].src = voice.src}} :
             /\ checkpoint' = [checkpoint EXCEPT ![op[o].rel] = p]
             /\ saved' = [saved EXCEPT ![op[o].rel] = p]
             /\ steady' = IF voice.on /\ p.state = "playing" /\ p.src = voice.src
                          THEN steady \cup {op[o].rel} ELSE steady \ {op[o].rel}
    BY <1>2 DEF Capture
  <2>2. GoesTo(o, "switch") /\ UNCHANGED <<hostVars, fileVars, playVars, runs>>
    BY <1>2 DEF Capture
  <2>3. op' \in [Operators -> Operation] /\ op[o].rel \in Releases
    BY <2>2, GoesToTyped DEF TypeOK, Operation
  <2>4. p \in Payload
    <3>1. voice.src \in Tracks /\ now \in Tracks \cup {Nothing}
          /\ \A q \in Releases : saved[q] \in Payload \cup {Nothing}
      BY DEF TypeOK
    <3>2. StatusNow \in Payload /\ Unreachable \in Payload
      BY <3>1 DEF StatusNow, Unreachable, Payload
    <3> QED
      BY <3>1, <3>2
  <2>5. /\ checkpoint' \in [Releases -> Payload \cup {Nothing}]
        /\ saved' \in [Releases -> Payload \cup {Nothing}] /\ steady' \subseteq Releases
    BY <2>1, <2>3, <2>4 DEF TypeOK
  <2> QED
    BY <2>2, <2>3, <2>5 DEF TypeOK, hostVars, fileVars, playVars
<1> QED
  BY <1>1, <1>2

\* Switching the services keeps the types.
LEMMA SwitchTyped ==
  ASSUME TypeOK, NEW o \in Operators, Switch(o)
  PROVE  TypeOK'
<1>1. op[o] \in Operation /\ op[o].rel \in Releases
  BY DEF TypeOK, Operation
<1>2. CASE ShellFails(o)
  BY <1>2, ShellFailsTyped
<1>3. CASE ~ShellFails(o)
  <2>1. PICK s \in {"resumed", "image", "exit"} : op' = [op EXCEPT ![o].sh = s, ![o].switched = TRUE]
    BY <1>3 DEF Switch
  <2>2. [op[o] EXCEPT !.sh = s, !.switched = TRUE] \in Operation
    BY <1>1 DEF Operation
  <2>3. op' = [op EXCEPT ![o] = [op[o] EXCEPT !.sh = s, !.switched = TRUE]]
    BY <1>1, <2>1 DEF TypeOK
  <2>4. op' \in [Operators -> Operation]
    BY <2>2, <2>3, OneTyped
  <2>5. HostTyped'
    <3>1. {"backend"} \in SUBSET Services /\ {"web"} \in SUBSET Services
      BY DEF Services
    <3> QED
      BY <1>1, <1>3, <3>1, RecreateTyped, UpFailsTyped DEF Switch, HostTyped
  <2> QED
    BY <1>3, <2>4, <2>5 DEF Switch, TypeOK, HostTyped, fileVars, pointVars
<1> QED
  BY <1>2, <1>3

\* Switching the Web service alone keeps the types.
LEMMA SwitchWebTyped ==
  ASSUME TypeOK, NEW o \in Operators, SwitchWeb(o)
  PROVE  TypeOK'
<1>1. op[o].rel \in Releases /\ {"web"} \in SUBSET Services
  BY DEF TypeOK, Operation, Services
<1>2. op' \in [Operators -> Operation]
  BY GoesToTyped DEF SwitchWeb
<1>3. HostTyped'
  BY <1>1, RecreateTyped, UpFailsTyped DEF SwitchWeb, HostTyped
<1> QED
  BY <1>2, <1>3 DEF SwitchWeb, TypeOK, HostTyped, fileVars, pointVars

\* The checks of the switched services keep the types.
LEMMA ChecksTyped ==
  ASSUME TypeOK, NEW o \in Operators, Resumed(o) \/ Image(o) \/ Ready(o)
  PROVE  TypeOK'
<1>1. CASE ShellFails(o)
  BY <1>1, ShellFailsTyped
<1>2. CASE /\ GoesTo(o, "web") \/ GoesTo(o, "commit") \/ GoesTo(o, "ready") \/ GoesTo(o, "image")
           /\ Untouched
  BY <1>2, GoesToTyped DEF Untouched, TypeOK, hostVars, fileVars, playVars, pointVars
<1> QED
  BY <1>1, <1>2 DEF Resumed, Image, Ready

\* Writing the manifest keeps the types.
LEMMA CommitTyped ==
  ASSUME TypeOK, NEW o \in Operators, Commit(o)
  PROVE  TypeOK'
<1>1. op[o] \in Operation /\ op[o].rel \in Releases
  BY DEF TypeOK, Operation
<1>2. PICK s \in {"over", "exit"} :
        op' = [op EXCEPT ![o].sh = s, ![o].complete = TRUE, ![o].ok = (s = "over")]
  BY DEF Commit
<1> DEFINE rec == [op[o] EXCEPT !.sh = s, !.complete = TRUE, !.ok = (s = "over")]
<1>3. rec \in Operation
  BY <1>1 DEF Operation
<1>4. op' = [op EXCEPT ![o] = rec]
  BY <1>1, <1>2 DEF TypeOK
<1>5. op' \in [Operators -> Operation]
  BY <1>3, <1>4, OneTyped
<1>6. stage' \in [Releases -> {"none", "made", "prepared", "deployed"}]
  BY <1>1 DEF Commit, TypeOK
<1> QED
  BY <1>5, <1>6 DEF Commit, TypeOK, hostVars, playVars, pointVars

\* What listeners and the backend do keeps the types.
LEMMA PlayTyped ==
  ASSUME TypeOK, TrackEnds \/ BackendBoots
  PROVE  TypeOK'
<1>1. CASE TrackEnds
  <2>1. voice' \in [src : Tracks, on : BOOLEAN] /\ now' \in Tracks \cup {Nothing} /\ steady' \subseteq Releases
    <3>1. voice \in [src : Tracks, on : BOOLEAN] /\ now \in Tracks \cup {Nothing}
      BY DEF TypeOK
    <3>2. /\ [voice EXCEPT !.on = FALSE] \in [src : Tracks, on : BOOLEAN]
          /\ \A t \in Tracks : [src |-> t, on |-> TRUE] \in [src : Tracks, on : BOOLEAN]
      BY <3>1
    <3>3. steady' = {} /\ now' \in Tracks \cup {Nothing}
      BY <1>1, <3>1 DEF TrackEnds
    <3>4. \/ voice' = [voice EXCEPT !.on = FALSE]
          \/ \E t \in Tracks : voice' = [src |-> t, on |-> TRUE]
      BY <1>1 DEF TrackEnds
    <3> QED
      BY <3>2, <3>3, <3>4
  <2> QED
    BY <1>1, <2>1 DEF TrackEnds, TypeOK, hostVars, fileVars
<1>2. CASE BackendBoots
  <2>1. now' \in Tracks \cup {Nothing} /\ up' \in {"up", "boot", "down"}
    BY <1>2 DEF BackendBoots, Consumed
  <2>2. checkpoint' \in [Releases -> Payload \cup {Nothing}]
    BY <1>2 DEF BackendBoots, TypeOK
  <2> QED
    BY <1>2, <2>1, <2>2 DEF BackendBoots, TypeOK, hostVars, fileVars
<1> QED
  BY <1>1, <1>2

\* Every step keeps the types.
LEMMA NextTyped == TypeOK /\ [Next]_vars => TypeOK'
<1> SUFFICES ASSUME TypeOK, [Next]_vars PROVE TypeOK'
  OBVIOUS
<1>1. ASSUME NEW o \in Operators, NEW kind \in Kinds, NEW r \in Releases, Discover(o, kind, r)
      PROVE  TypeOK'
  BY <1>1, DiscoverTyped
<1>2. ASSUME NEW o \in Operators, Script(o) \/ LinkLost(o) \/ BrokenPipe(o) \/ Interrupt(o)
      PROVE  TypeOK'
  BY <1>2, ScriptTyped, RestoreTyped DEF Script
<1>3. ASSUME NEW o \in Operators, Shell(o) PROVE TypeOK'
  <2>1. CASE ExitTrap(o)
    BY <2>1, CleanupTyped DEF ExitTrap
  <2> QED
    BY <1>3, <2>1, FreshTyped, UnpackTyped, BuildTyped, ProbeTyped, CaptureTyped, SwitchTyped,
       ChecksTyped, SwitchWebTyped, CommitTyped DEF Shell
<1>4. ASSUME NEW o \in Operators, Signal(o) PROVE TypeOK'
  BY <1>4, CleanupTyped DEF Signal
<1>5. CASE TrackEnds \/ BackendBoots
  BY <1>5, PlayTyped
<1>6. CASE UNCHANGED vars
  BY <1>6 DEF vars, hostVars, fileVars, playVars, pointVars, TypeOK
<1> QED
  BY <1>1, <1>2, <1>3, <1>4, <1>5, <1>6 DEF Next

\* The variables keep their types (TypeOK), for any operators, releases and tracks.
THEOREM TypesHold == Spec => []TypeOK
BY InitTyped, NextTyped, PTL DEF Spec

-----------------------------------------------------------------------------
(* Deployed releases were probed *)

\* What the argument needs of the types.
Typed ==
  /\ op \in [Operators -> Operation]
  /\ stage \in [Releases -> {"none", "made", "prepared", "deployed"}]
  /\ offers \in [Releases -> SUBSET Routes]

\* A release is made by one operation at a time: the names carry the time.
OneMaker ==
  \A o, p \in Operators :
    /\ o # p /\ Busy(o) /\ Busy(p)
    /\ op[o].kind # "rollback" /\ op[p].kind # "rollback"
    => op[o].rel # op[p].rel

\* A shell that is still preparing a release works on one that is not deployed.
Preparing == {"unpack", "build", "probe"}
NotYetDeployed == \A o \in Operators : op[o].sh \in Preparing => stage[op[o].rel] # "deployed"

\* A rollback prepares nothing, and a Web release keeps no checkpoint.
Fits(rec) ==
  /\ rec.kind = "rollback" =>
       rec.at # "package" /\ rec.sh \notin Preparing \cup {"fresh", "capture"}
  /\ rec.kind = "deploy" => rec.sh \notin {"capture", "resumed", "web"}
KindFits == \A o \in Operators : Fits(op[o])

\* The shell of a Web release is past its probe only with a sound image.
PastProbe == {"switch", "image", "ready", "commit"}
ProbedBefore == \A o \in Operators :
  op[o].kind = "deploy" /\ op[o].sh \in PastProbe => Works(op[o].rel)

\* The inductive invariant.
Inv == /\ Typed /\ OneMaker /\ NotYetDeployed /\ KindFits /\ ProbedBefore
       /\ DeployedWasProbed

\* Everything but the operations themselves, as the argument sees it.
Still == UNCHANGED <<stage, offers>>

\* Operation o goes on as rec: the same release, and busy only if it was.
Continues(o, rec) ==
  /\ rec \in Operation
  /\ op' = [op EXCEPT ![o] = rec]
  /\ \/ rec.at = "idle" /\ rec.sh = "none"
     \/ /\ Busy(o) /\ rec.kind = op[o].kind /\ rec.rel = op[o].rel
        /\ Fits(rec)

\* The names of the releases are no placeholders.
LEMMA NamesAreReal == First \in Releases /\ \A r \in Releases : r # Nothing
BY ReleaseAssumption

\* A verification that passes has asked the site for every route.
LEMMA VerifyAsksForAll ==
  ASSUME NEW site \in SUBSET Routes, NEW browser \in BOOLEAN, VerifyPasses(site, browser)
  PROVE  site = Routes
<1> DEFINE report == Report(site, {}, browser)
<1>1. Accepted(report)
  BY DEF VerifyPasses
<1>2. "web-entry" \in Holds(site)
  <2>1. report["web-entry"] # "fail"
    BY <1>1 DEF Accepted, Checks
  <2> QED
    BY <2>1 DEF Report, Checks
<1>3. \A c \in Checks \ {"browser-smoke"} : c \in Holds(site)
  <2> SUFFICES ASSUME NEW c \in Checks \ {"browser-smoke"} PROVE c \in Holds(site)
    OBVIOUS
  <2>1. report[c] # "fail"
    BY <1>1 DEF Accepted
  <2> QED
    BY <1>2, <2>1 DEF Report
<1>4. {"page", "assets", "api", "admin", "cover", "socket"} \subseteq site
  BY <1>3 DEF Checks, Holds, CheckWebEntry, CheckStaticAssets, CheckOpenapi, CheckExternalStatus,
              CheckAdminProxy, CheckCoverProxy, CheckWebsocket
<1> QED
  BY <1>4 DEF Routes

\* A probe of a Web release that passes has found every route.
LEMMA ProbeAsksForAll ==
  ASSUME Typed, NEW o \in Operators, op[o].kind = "deploy", ProbeSound(o)
  PROVE  Works(op[o].rel)
<1> DEFINE site == IF up = "up" THEN offers[op[o].rel] ELSE offers[op[o].rel] \ Proxied
<1>1. /\ VerifyPasses(site, FALSE) /\ op[o].rel \in Releases /\ site \subseteq offers[op[o].rel]
      /\ offers[op[o].rel] \subseteq Routes
  BY DEF Typed, Operation, ProbeSound
<1>2. site = Routes
  BY <1>1, VerifyAsksForAll
<1> QED
  BY <1>1, <1>2, NamesAreReal DEF Works

\* A step in which nothing is built and no manifest changes keeps the invariant when
\* the shell it is about does not enter a critical part.
LEMMA ContinuesInv ==
  ASSUME Inv, NEW o \in Operators, NEW rec, Continues(o, rec), Still,
         \/ rec.at = "idle" /\ rec.sh = "none"
         \/ rec.sh = op[o].sh
         \/ /\ rec.sh \in Preparing => op[o].sh \in Preparing \/ stage[op[o].rel] # "deployed"
            /\ rec.kind = "deploy" /\ rec.sh \in PastProbe => op[o].sh \in PastProbe \/ Works(op[o].rel)
  PROVE  Inv'
<1>1. Typed' /\ op'[o] = rec /\ \A p \in Operators \ {o} : op'[p] = op[p]
  BY DEF Inv, Typed, Still, Continues
<1>2. OneMaker'
  BY <1>1 DEF Inv, OneMaker, Continues, Busy
<1>3. NotYetDeployed'
  BY <1>1 DEF Inv, NotYetDeployed, Continues, Still, Preparing
<1>4. KindFits'
  BY <1>1 DEF Inv, KindFits, Fits, Continues, Preparing
<1>5. ProbedBefore'
  BY <1>1 DEF Inv, ProbedBefore, Continues, Still, Works, PastProbe
<1>6. DeployedWasProbed'
  BY DEF Inv, DeployedWasProbed, Still, Works
<1> QED
  BY <1>1, <1>2, <1>3, <1>4, <1>5, <1>6 DEF Inv

-----------------------------------------------------------------------------
\* The shell moves on to s, or stays.
LEMMA Moves ==
  ASSUME Inv, NEW o \in Operators, At(o, "fresh") \/ At(o, "unpack") \/ At(o, "build") \/ At(o, "probe")
           \/ At(o, "capture") \/ At(o, "switch") \/ At(o, "resumed") \/ At(o, "web")
           \/ At(o, "image") \/ At(o, "ready"),
         NEW s \in {"unpack", "build", "probe", "capture", "switch", "resumed", "web", "image",
                    "ready", "commit", "exit"},
         NEW f \in BOOLEAN,
         op' = [op EXCEPT ![o].sh = s, ![o].switched = f],
         op[o].kind = "rollback" => s \notin Preparing \cup {"fresh", "capture"},
         op[o].kind = "deploy" => s \notin {"capture", "resumed", "web"}
  PROVE  Continues(o, [op[o] EXCEPT !.sh = s, !.switched = f])
<1>1. op[o] \in Operation /\ Busy(o)
  BY DEF Inv, Typed, At, Busy
<1>2. [op[o] EXCEPT !.sh = s, !.switched = f] \in Operation
  BY <1>1 DEF Operation
<1> QED
  BY <1>1, <1>2 DEF Continues, Inv, KindFits, Fits, Operation, Typed

\* A move that changes the position alone.
LEMMA GoesOn ==
  ASSUME Inv, NEW o \in Operators, At(o, "fresh") \/ At(o, "unpack") \/ At(o, "build") \/ At(o, "probe")
           \/ At(o, "capture") \/ At(o, "switch") \/ At(o, "resumed") \/ At(o, "web")
           \/ At(o, "image") \/ At(o, "ready"),
         NEW s \in {"unpack", "build", "probe", "capture", "switch", "resumed", "web", "image",
                    "ready", "commit", "exit"},
         GoesTo(o, s),
         op[o].kind = "rollback" => s \notin Preparing \cup {"fresh", "capture"},
         op[o].kind = "deploy" => s \notin {"capture", "resumed", "web"}
  PROVE  Continues(o, [op[o] EXCEPT !.sh = s])
<1>1. op[o] \in Operation /\ Busy(o)
  BY DEF Inv, Typed, At, Busy
<1>2. [op[o] EXCEPT !.sh = s] \in Operation
  BY <1>1 DEF Operation
<1> QED
  BY <1>1, <1>2 DEF Continues, Inv, KindFits, Fits, Operation, Typed, GoesTo

\* An operation whose script or shell ends, or that merely notes trouble.
LEMMA Winds ==
  ASSUME Inv, NEW o \in Operators, Busy(o),
         NEW rec \in Operation, rec.kind = op[o].kind, rec.rel = op[o].rel,
         rec.at \in {op[o].at, "idle"}, rec.sh \in {op[o].sh, "exit", "over"},
         op' = [op EXCEPT ![o] = Settled(rec)], Still
  PROVE  Inv'
<1>1. CASE rec.at = "idle" /\ rec.sh \in {"none", "over"}
  <2>1. Settled(rec) = [Resting EXCEPT !.result = rec.result, !.trouble = rec.trouble]
    BY <1>1 DEF Settled
  <2>2. Settled(rec) \in Operation /\ Settled(rec).at = "idle" /\ Settled(rec).sh = "none"
    BY <2>1, RestingTyped DEF Operation, Resting
  <2> QED
    BY <2>2, ContinuesInv DEF Continues
<1>2. CASE ~(rec.at = "idle" /\ rec.sh \in {"none", "over"})
  <2>1. Settled(rec) = rec
    BY <1>2 DEF Settled
  <2>2. Continues(o, rec)
    BY <2>1 DEF Continues, Inv, KindFits, Fits, Preparing
  <2> QED
    BY <2>2, ContinuesInv DEF Preparing, PastProbe
<1> QED
  BY <1>1, <1>2

\* The script of an operation ends.
LEMMA EndsInv ==
  ASSUME Inv, NEW o \in Operators, op[o].at # "idle", NEW result \in {"ok", "failed"},
         NEW t \in BOOLEAN, Ends(o, result, t), Still
  PROVE  Inv'
<1> DEFINE rec == [op[o] EXCEPT !.at = "idle", !.result = result, !.trouble = op[o].trouble \/ t]
<1>1. op[o] \in Operation
  BY DEF Inv, Typed
<1>2. rec \in Operation /\ rec.at = "idle" /\ rec.sh = op[o].sh /\ rec.kind = op[o].kind /\ rec.rel = op[o].rel
  BY <1>1 DEF Operation
<1>3. op' = [op EXCEPT ![o] = Settled(rec)]
  BY <1>1 DEF Ends, Inv, Typed
<1> HIDE DEF rec
<1> QED
  BY <1>2, <1>3, Winds DEF Busy

\* The script goes on; the shell stays where it is.
LEMMA ScriptInv ==
  ASSUME Inv, NEW o \in Operators, NEW a \in {"accept", "again", "restore", "report"},
         op[o].at # "idle", op' = [op EXCEPT ![o].at = a], Still
  PROVE  Inv'
<1> DEFINE rec == [op[o] EXCEPT !.at = a]
<1>1. op[o] \in Operation
  BY DEF Inv, Typed
<1>2. rec \in Operation /\ rec.at = a /\ rec.sh = op[o].sh /\ rec.kind = op[o].kind /\ rec.rel = op[o].rel
  BY <1>1 DEF Operation
<1>3. op' = [op EXCEPT ![o] = rec]
  BY <1>1 DEF Inv, Typed
<1> HIDE DEF rec
<1>4. Continues(o, rec)
  BY <1>2, <1>3 DEF Continues, Busy, Inv, KindFits, Fits
<1> QED
  BY <1>2, <1>4, ContinuesInv

-----------------------------------------------------------------------------
\* A shell command that fails, or that changes neither images nor manifests.
LEMMA PassesInv ==
  ASSUME Inv, NEW o \in Operators, At(o, "fresh") \/ At(o, "unpack") \/ At(o, "build") \/ At(o, "probe")
           \/ At(o, "capture") \/ At(o, "switch") \/ At(o, "resumed") \/ At(o, "web")
           \/ At(o, "image") \/ At(o, "ready"),
         NEW s \in {"switch", "resumed", "web", "image", "ready", "commit", "exit"},
         NEW f \in BOOLEAN,
         op' = [op EXCEPT ![o].sh = s, ![o].switched = f], Still,
         op[o].kind = "deploy" /\ s # "exit" => op[o].sh \in PastProbe /\ s \notin {"capture", "resumed", "web"}
  PROVE  Inv'
<1> DEFINE rec == [op[o] EXCEPT !.sh = s, !.switched = f]
<1>1. Continues(o, rec)
  BY Moves DEF Preparing
<1>2. op[o] \in Operation
  BY DEF Inv, Typed
<1>3. rec.sh = s /\ rec.kind = op[o].kind
  BY <1>2 DEF Operation
<1> HIDE DEF rec
<1> QED
  BY <1>1, <1>3, ContinuesInv DEF Preparing, PastProbe

\* The same for a command that leaves `switched` alone.
LEMMA PassesOnInv ==
  ASSUME Inv, NEW o \in Operators, At(o, "fresh") \/ At(o, "unpack") \/ At(o, "build") \/ At(o, "probe")
           \/ At(o, "capture") \/ At(o, "switch") \/ At(o, "resumed") \/ At(o, "web")
           \/ At(o, "image") \/ At(o, "ready"),
         NEW s \in {"switch", "resumed", "web", "image", "ready", "commit", "exit"},
         GoesTo(o, s), Still,
         op[o].kind = "deploy" /\ s # "exit" => op[o].sh \in PastProbe /\ s \notin {"capture", "resumed", "web"}
  PROVE  Inv'
<1> DEFINE rec == [op[o] EXCEPT !.sh = s]
<1>1. Continues(o, rec)
  BY GoesOn DEF Preparing
<1>2. op[o] \in Operation
  BY DEF Inv, Typed
<1>3. rec.sh = s /\ rec.kind = op[o].kind
  BY <1>2 DEF Operation
<1> HIDE DEF rec
<1> QED
  BY <1>1, <1>3, ContinuesInv DEF Preparing, PastProbe

\* A new operation has a release of its own.
LEMMA DiscoverInv ==
  ASSUME Inv, NEW o \in Operators, NEW kind \in Kinds, NEW r \in Releases,
         Discover(o, kind, r), under \in Releases, serves \in [Services -> Releases \cup {Nothing}]
  PROVE  Inv'
<1> DEFINE mine == [Resting EXCEPT
                      !.at = IF kind = "rollback" THEN "remote" ELSE "package",
                      !.sh = IF kind = "rollback" THEN "switch" ELSE "none",
                      !.kind = kind, !.rel = r, !.from = under,
                      !.switched = (kind = "rollback"), !.link = TRUE,
                      !.had = serves, !.trouble = ~Alone(o)]
<1>1. /\ op' = [p \in Operators |-> IF p = o THEN mine
                                    ELSE IF Busy(p) THEN [op[p] EXCEPT !.trouble = TRUE] ELSE op[p]]
      /\ Still /\ ~Busy(o)
      /\ \A p \in Operators : Busy(p) /\ "rollback" \notin {kind, op[p].kind} => op[p].rel # r
  BY DEF Discover, Still, fileVars
<1>2. /\ mine \in Operation /\ mine.kind = kind /\ mine.rel = r
      /\ mine.at = (IF kind = "rollback" THEN "remote" ELSE "package")
      /\ mine.sh = (IF kind = "rollback" THEN "switch" ELSE "none")
  BY RestingTyped DEF Operation, Resting, Kinds
<1> HIDE DEF mine
<1>3. \A p \in Operators \ {o} :
        /\ op'[p] \in Operation /\ op'[p].at = op[p].at /\ op'[p].sh = op[p].sh
        /\ op'[p].kind = op[p].kind /\ op'[p].rel = op[p].rel
  <2> SUFFICES ASSUME NEW p \in Operators \ {o}
               PROVE  /\ op'[p] \in Operation /\ op'[p].at = op[p].at /\ op'[p].sh = op[p].sh
                      /\ op'[p].kind = op[p].kind /\ op'[p].rel = op[p].rel
    OBVIOUS
  <2>1. op[p] \in Operation /\ op'[p] \in {op[p], [op[p] EXCEPT !.trouble = TRUE]}
    BY <1>1 DEF Inv, Typed
  <2>2. CASE op'[p] = op[p]
    BY <2>1, <2>2
  <2>3. CASE op'[p] = [op[p] EXCEPT !.trouble = TRUE]
    BY <2>1, <2>3 DEF Operation
  <2> QED
    BY <2>1, <2>2, <2>3
<1>4. op'[o] = mine
  BY <1>1
<1>5. Typed'
  <2>1. \A p \in Operators : op'[p] \in Operation
    BY <1>2, <1>3, <1>4
  <2> QED
    BY <1>1, <2>1 DEF Inv, Typed, Still
<1>6. OneMaker'
  BY <1>1, <1>2, <1>3, <1>4 DEF Inv, OneMaker, Busy
<1>7. NotYetDeployed' /\ KindFits'
  BY <1>1, <1>2, <1>3, <1>4 DEF Inv, NotYetDeployed, KindFits, Fits, Still, Preparing
<1>8. ProbedBefore' /\ DeployedWasProbed'
  BY <1>1, <1>2, <1>3, <1>4 DEF Inv, ProbedBefore, DeployedWasProbed, Still, Works, PastProbe
<1> QED
  BY <1>5, <1>6, <1>7, <1>8 DEF Inv

\* Packaging keeps the invariant.
LEMMA PackageInv ==
  ASSUME Inv, NEW o \in Operators, Package(o)
  PROVE  Inv'
<1>1. Still /\ op[o].at = "package" /\ op[o] \in Operation
  BY DEF Package, Untouched, Still, fileVars, Inv, Typed
<1>2. CASE Ends(o, "failed", FALSE)
  BY <1>1, <1>2, EndsInv
<1>3. CASE op' = [op EXCEPT ![o].at = "remote", ![o].sh = "fresh"]
  <2> DEFINE rec == [op[o] EXCEPT !.at = "remote", !.sh = "fresh"]
  <2>1. rec \in Operation /\ rec.at = "remote" /\ rec.sh = "fresh" /\ rec.kind = op[o].kind /\ rec.rel = op[o].rel
    BY <1>1 DEF Operation
  <2>2. op' = [op EXCEPT ![o] = rec]
    BY <1>3 DEF Inv, Typed
  <2> HIDE DEF rec
  <2>3. Continues(o, rec)
    BY <1>1, <2>1, <2>2 DEF Continues, Busy, Inv, KindFits, Fits
  <2> QED
    BY <1>1, <2>1, <2>3, ContinuesInv DEF Preparing, PastProbe
<1> QED
  BY <1>2, <1>3 DEF Package

\* The directory is new: the release is not deployed.
LEMMA FreshInv ==
  ASSUME Inv, NEW o \in Operators, Fresh(o)
  PROVE  Inv'
<1>1. Still /\ At(o, "fresh") /\ op[o] \in Operation /\ op[o].kind # "rollback"
  BY DEF Fresh, ShellFails, Untouched, Still, fileVars, Inv, Typed, KindFits, Fits, At
<1>2. CASE GoesTo(o, "exit")
  BY <1>1, <1>2, PassesOnInv
<1>3. CASE stage[op[o].rel] = "none" /\ GoesTo(o, "unpack")
  <2> DEFINE rec == [op[o] EXCEPT !.sh = "unpack"]
  <2>1. Continues(o, rec)
    BY <1>1, <1>3, GoesOn
  <2>2. rec.sh = "unpack"
    BY <1>1 DEF Operation
  <2> HIDE DEF rec
  <2> QED
    BY <1>1, <1>3, <2>1, <2>2, ContinuesInv DEF PastProbe
<1> QED
  BY <1>2, <1>3 DEF Fresh, ShellFails

\* Unpacking keeps the invariant.
LEMMA UnpackInv ==
  ASSUME Inv, NEW o \in Operators, Unpack(o)
  PROVE  Inv'
<1>1. /\ At(o, "unpack") /\ op[o] \in Operation /\ op[o].kind # "rollback" /\ Busy(o)
      /\ stage[op[o].rel] # "deployed"
  BY DEF Unpack, Inv, Typed, NotYetDeployed, Preparing, At, Busy
<1>2. PICK s \in {"build", "exit"} : GoesTo(o, s)
  BY DEF Unpack
<1>3. /\ offers' = offers
      /\ \E w \in {"made", "prepared"} : stage' = [stage EXCEPT ![op[o].rel] = w]
  BY DEF Unpack
<1> DEFINE rec == [op[o] EXCEPT !.sh = s]
<1>4. Continues(o, rec)
  BY <1>1, <1>2, GoesOn
<1>5. rec.sh = s /\ rec.kind = op[o].kind /\ rec.rel = op[o].rel /\ rec.at = op[o].at
  BY <1>1 DEF Operation
<1> HIDE DEF rec
<1>6. rec \in Operation /\ op'[o] = rec /\ \A p \in Operators \ {o} : op'[p] = op[p]
  BY <1>4 DEF Continues, Inv, Typed
<1>7. Typed'
  BY <1>1, <1>3, <1>4 DEF Inv, Typed, Continues, Operation
<1>8. OneMaker' /\ KindFits'
  BY <1>1, <1>5, <1>6 DEF Inv, OneMaker, KindFits, Fits, Busy, Preparing
<1>9. \A r \in Releases : stage'[r] = "deployed" => stage[r] = "deployed"
  BY <1>3 DEF Inv, Typed
<1>10. NotYetDeployed'
  <2> SUFFICES ASSUME NEW p \in Operators, op'[p].sh \in Preparing PROVE stage'[op'[p].rel] # "deployed"
    BY DEF NotYetDeployed
  <2>1. op'[p].rel \in Releases
    BY <1>7 DEF Typed, Operation
  <2> QED
    BY <1>1, <1>5, <1>6, <1>9, <2>1 DEF Inv, NotYetDeployed
<1>11. ProbedBefore'
  BY <1>3, <1>5, <1>6 DEF Inv, ProbedBefore, Works, PastProbe
<1>12. DeployedWasProbed'
  BY <1>3, <1>9 DEF Inv, DeployedWasProbed, Works
<1> QED
  BY <1>7, <1>8, <1>10, <1>11, <1>12 DEF Inv

\* A build changes what nobody has probed yet: its release is not deployed, and no
\* other operation makes the same one.
LEMMA BuildInv ==
  ASSUME Inv, NEW o \in Operators, Build(o)
  PROVE  Inv'
<1>1. /\ At(o, "build") /\ op[o] \in Operation /\ op[o].kind # "rollback" /\ Busy(o)
      /\ stage[op[o].rel] # "deployed"
  BY DEF Build, Inv, Typed, NotYetDeployed, KindFits, Fits, Preparing, At, Busy
<1>2. CASE ShellFails(o)
  BY <1>1, <1>2, PassesOnInv DEF ShellFails, Untouched, Still, fileVars
<1>3. CASE ~ShellFails(o)
  <2>1. /\ GoesTo(o, "probe") /\ stage' = stage
        /\ \E d : offers' = [offers EXCEPT ![op[o].rel] = Routes \ {d}]
    BY <1>3 DEF Build
  <2> DEFINE rec == [op[o] EXCEPT !.sh = "probe"]
  <2>2. Continues(o, rec)
    BY <1>1, <2>1, GoesOn
  <2>3. rec.sh = "probe" /\ rec.kind = op[o].kind /\ rec.rel = op[o].rel /\ rec.at = op[o].at
    BY <1>1 DEF Operation
  <2> HIDE DEF rec
  <2>4. rec \in Operation /\ op'[o] = rec /\ \A p \in Operators \ {o} : op'[p] = op[p]
    BY <2>2 DEF Continues, Inv, Typed
  <2>5. op' \in [Operators -> Operation] /\ offers' \in [Releases -> SUBSET Routes]
    BY <2>1, <2>2 DEF Inv, Typed, Continues
  <2>6. OneMaker' /\ KindFits'
    BY <1>1, <2>3, <2>4 DEF Inv, OneMaker, KindFits, Fits, Busy, Preparing
  <2>7. NotYetDeployed'
    BY <1>1, <2>1, <2>3, <2>4 DEF Inv, NotYetDeployed, Preparing, At
  <2>8. \A r \in Releases \ {op[o].rel} : offers'[r] = offers[r]
    BY <2>1 DEF Inv, Typed
  <2>9. ProbedBefore'
    <3> SUFFICES ASSUME NEW p \in Operators, op'[p].kind = "deploy", op'[p].sh \in PastProbe
                 PROVE  Works(op[p].rel)'
      BY DEF ProbedBefore
    <3>1. p # o /\ op'[p] = op[p]
      <4>1. "probe" \notin PastProbe
        BY DEF PastProbe
      <4> QED
        BY <2>3, <2>4, <4>1
    <3>2. op[p].rel # op[o].rel /\ op[p].rel \in Releases
      BY <1>1, <3>1 DEF Inv, OneMaker, Busy, PastProbe, Typed, Operation
    <3>3. Works(op[p].rel) /\ offers'[op[p].rel] = offers[op[p].rel]
      BY <2>8, <3>1, <3>2 DEF Inv, ProbedBefore
    <3> QED
      BY <3>1, <3>3 DEF Works
  <2>10. DeployedWasProbed'
    BY <1>1, <2>1, <2>8 DEF Inv, DeployedWasProbed, Works
  <2> QED
    BY <2>1, <2>5, <2>6, <2>7, <2>9, <2>10 DEF Inv, Typed
<1> QED
  BY <1>2, <1>3

\* A Web release leaves its probe with every route served.
LEMMA ProbeInv ==
  ASSUME Inv, NEW o \in Operators, Probe(o)
  PROVE  Inv'
<1>1. At(o, "probe") /\ op[o] \in Operation /\ op[o].kind # "rollback" /\ Still
  BY DEF Probe, ShellFails, Untouched, Still, fileVars, Inv, Typed, KindFits, Fits, Preparing, At
<1>2. CASE GoesTo(o, "exit")
  BY <1>1, <1>2, PassesOnInv
<1>3. CASE ProbeSound(o) /\ IF op[o].kind = "deploy" THEN GoesTo(o, "switch") ELSE GoesTo(o, "capture")
  <2> DEFINE s == IF op[o].kind = "deploy" THEN "switch" ELSE "capture"
             rec == [op[o] EXCEPT !.sh = s]
  <2>1. Continues(o, rec)
    BY <1>1, <1>3, GoesOn
  <2>2. rec.sh = s /\ rec.kind = op[o].kind
    BY <1>1 DEF Operation
  <2>3. op[o].kind = "deploy" => Works(op[o].rel)
    BY <1>3, ProbeAsksForAll DEF Inv
  <2> HIDE DEF rec
  <2> QED
    BY <1>1, <2>1, <2>2, <2>3, ContinuesInv DEF Preparing, PastProbe
<1> QED
  BY <1>2, <1>3 DEF Probe, ShellFails

\* The manifest says "deployed" of a release that was probed.
LEMMA CommitInv ==
  ASSUME Inv, NEW o \in Operators, Commit(o)
  PROVE  Inv'
<1>1. /\ At(o, "commit") /\ op[o] \in Operation /\ Busy(o) /\ offers' = offers
      /\ op[o].kind = "deploy" => Works(op[o].rel)
  BY DEF Commit, Inv, Typed, ProbedBefore, PastProbe, At, Busy
<1>2. PICK s \in {"over", "exit"} :
        op' = [op EXCEPT ![o].sh = s, ![o].complete = TRUE, ![o].ok = (s = "over")]
  BY DEF Commit
<1>3. \/ stage' = stage
      \/ op[o].kind = "deploy" /\ stage' = [stage EXCEPT ![op[o].rel] = "deployed"]
  BY DEF Commit
<1> DEFINE rec == [op[o] EXCEPT !.sh = s, !.complete = TRUE, !.ok = (s = "over")]
<1>4. /\ rec \in Operation /\ rec.sh = s /\ rec.kind = op[o].kind /\ rec.rel = op[o].rel
      /\ rec.at = op[o].at
  BY <1>1 DEF Operation
<1>5. op' = [op EXCEPT ![o] = rec]
  BY <1>1, <1>2 DEF Inv, Typed
<1> HIDE DEF rec
<1>6. op'[o] = rec /\ \A p \in Operators \ {o} : op'[p] = op[p]
  BY <1>5 DEF Inv, Typed
<1>7. Typed'
  BY <1>1, <1>3, <1>4, <1>5 DEF Inv, Typed, Operation
<1>8. OneMaker' /\ KindFits'
  BY <1>1, <1>4, <1>6 DEF Inv, OneMaker, KindFits, Fits, Busy, Preparing
<1>9. NotYetDeployed'
  <2> SUFFICES ASSUME NEW p \in Operators, op'[p].sh \in Preparing PROVE stage'[op'[p].rel] # "deployed"
    BY DEF NotYetDeployed
  <2>1. p # o /\ op'[p] = op[p] /\ op[p].kind # "rollback" /\ Busy(p)
    BY <1>4, <1>6 DEF Preparing, Inv, KindFits, Fits, Busy
  <2>2. stage[op[p].rel] # "deployed" /\ op[p].rel \in Releases
    BY <2>1 DEF Inv, NotYetDeployed, Typed, Operation
  <2>3. op[o].kind = "deploy" => op[p].rel # op[o].rel
    BY <1>1, <2>1 DEF Inv, OneMaker
  <2> QED
    BY <1>3, <2>1, <2>2, <2>3 DEF Inv, Typed
<1>10. ProbedBefore'
  BY <1>1, <1>4, <1>6 DEF Inv, ProbedBefore, Works, PastProbe
<1>11. DeployedWasProbed'
  BY <1>1, <1>3 DEF Inv, DeployedWasProbed, Works, Typed
<1> QED
  BY <1>7, <1>8, <1>9, <1>10, <1>11 DEF Inv

-----------------------------------------------------------------------------
\* Signals, traps, ends of the shell and of the script, lost connections.
LEMMA WindingInv ==
  ASSUME Inv, NEW o \in Operators,
         ExitTrap(o) \/ Signal(o) \/ BrokenPipe(o) \/ LinkLost(o)
  PROVE  Inv'
<1>1. op[o] \in Operation /\ Busy(o)
  BY DEF Inv, Typed, ExitTrap, Signal, BrokenPipe, LinkLost, Busy, At, Alive
<1>2. Still
  BY DEF ExitTrap, Signal, BrokenPipe, LinkLost, Cleanup, Untouched, Still, fileVars
<1>3. CASE ExitTrap(o) \/ Signal(o)
  <2>1. PICK s \in {"over", op[o].sh}, w \in BOOLEAN :
          op' = [op EXCEPT ![o] = Settled([op[o] EXCEPT !.sh = s, !.trouble = w])]
    <3>1. PICK s \in {"over", op[o].sh}, t \in BOOLEAN : Cleanup(o, s, t)
      BY <1>3 DEF ExitTrap, Signal
    <3>2. PICK more \in BOOLEAN :
            op' = [op EXCEPT ![o] = Settled([op[o] EXCEPT !.sh = s, !.trouble = op[o].trouble \/ t \/ more])]
      BY <3>1 DEF Cleanup
    <3> QED
      BY <3>2
  <2> DEFINE rec == [op[o] EXCEPT !.sh = s, !.trouble = w]
  <2>2. rec \in Operation /\ rec.kind = op[o].kind /\ rec.rel = op[o].rel /\ rec.at = op[o].at /\ rec.sh = s
    BY <1>1 DEF Operation
  <2>3. op' = [op EXCEPT ![o] = Settled(rec)]
    BY <2>1
  <2> HIDE DEF rec
  <2> QED
    BY <1>1, <1>2, <2>2, <2>3, Winds
<1>4. CASE BrokenPipe(o)
  <2> DEFINE rec == [op[o] EXCEPT !.sh = "over"]
  <2>1. rec \in Operation /\ rec.kind = op[o].kind /\ rec.rel = op[o].rel /\ rec.at = op[o].at /\ rec.sh = "over"
    BY <1>1 DEF Operation
  <2>2. op' = [op EXCEPT ![o] = Settled(rec)]
    BY <1>4 DEF BrokenPipe
  <2> HIDE DEF rec
  <2> QED
    BY <1>1, <1>2, <2>1, <2>2, Winds
<1>5. CASE LinkLost(o)
  <2> DEFINE rec == [op[o] EXCEPT !.at = "idle", !.link = FALSE, !.result = "failed", !.trouble = TRUE]
  <2>1. rec \in Operation /\ rec.kind = op[o].kind /\ rec.rel = op[o].rel /\ rec.at = "idle" /\ rec.sh = op[o].sh
    BY <1>1 DEF Operation
  <2>2. op' = [op EXCEPT ![o] = rec]
    BY <1>1, <1>5 DEF LinkLost, Inv, Typed
  <2> HIDE DEF rec
  <2>3. Continues(o, rec)
    BY <1>1, <2>1, <2>2 DEF Continues, Inv, KindFits, Fits
  <2> QED
    BY <1>2, <2>1, <2>3, ContinuesInv
<1> QED
  BY <1>3, <1>4, <1>5

\* The later commands of the shell.
LEMMA ShellInv ==
  ASSUME Inv, NEW o \in Operators, Shell(o)
  PROVE  Inv'
<1>1. CASE Fresh(o) \/ Unpack(o) \/ Build(o) \/ Probe(o) \/ Commit(o) \/ ExitTrap(o)
  BY <1>1, FreshInv, UnpackInv, BuildInv, ProbeInv, CommitInv, WindingInv
<1>2. CASE Capture(o) \/ Resumed(o) \/ SwitchWeb(o) \/ Image(o) \/ Ready(o)
  <2>1. /\ Still
        /\ At(o, "capture") \/ At(o, "resumed") \/ At(o, "web") \/ At(o, "image") \/ At(o, "ready")
        /\ \E s \in {"switch", "web", "image", "ready", "commit", "exit"} : GoesTo(o, s)
    BY <1>2 DEF Capture, Resumed, SwitchWeb, Image, Ready, ShellFails, Untouched, Still, fileVars
  <2>2. At(o, "image") \/ At(o, "ready") => op[o].sh \in PastProbe
    BY DEF At, PastProbe
  <2>3. CASE At(o, "image") \/ At(o, "ready")
    <3>1. PICK s \in {"image", "ready", "commit", "exit"} : GoesTo(o, s)
      BY <1>2, <2>3 DEF Image, Ready, SwitchWeb, Capture, Resumed, At, ShellFails
    <3> QED
      BY <2>1, <2>2, <2>3, <3>1, PassesOnInv
  <2>4. CASE At(o, "capture") \/ At(o, "resumed") \/ At(o, "web")
    <3>1. op[o].kind # "deploy"
      BY <2>4 DEF Inv, KindFits, Fits, At
    <3>2. PICK s \in {"switch", "web", "image", "ready", "commit", "exit"} : GoesTo(o, s)
      BY <2>1
    <3> QED
      BY <2>1, <2>4, <3>1, <3>2, PassesOnInv
  <2> QED
    BY <2>1, <2>3, <2>4
<1>3. CASE Switch(o)
  <2>1. Still /\ At(o, "switch") /\ op[o].sh \in PastProbe /\ op[o] \in Operation
    BY <1>3 DEF Switch, ShellFails, Untouched, Still, fileVars, At, PastProbe, Inv, Typed
  <2>2. CASE GoesTo(o, "exit")
    BY <2>1, <2>2, PassesOnInv
  <2>3. ASSUME NEW s \in {"resumed", "image", "exit"}, op[o].kind = "deploy" => s # "resumed",
               op' = [op EXCEPT ![o].sh = s, ![o].switched = TRUE]
        PROVE  Inv'
    BY <2>1, <2>3, PassesInv
  <2> QED
    BY <1>3, <2>2, <2>3 DEF Switch, ShellFails, Kinds
<1> QED
  BY <1>1, <1>2, <1>3 DEF Shell

\* Every step of the scripts keeps the invariant.
LEMMA ScriptsInv ==
  ASSUME Inv, NEW o \in Operators, Script(o) \/ Interrupt(o)
  PROVE  Inv'
<1>1. CASE Package(o)
  BY <1>1, PackageInv
<1>2. CASE Returned(o) \/ Accept(o) \/ RestoreOverride(o) \/ WriteReport(o) \/ Interrupt(o)
  <2>1. Still /\ op[o].at # "idle"
    BY <1>2 DEF Returned, Accept, RestoreOverride, WriteReport, Interrupt, Untouched, Still, fileVars
  <2>2. \/ \E result \in {"ok", "failed"}, t \in BOOLEAN : Ends(o, result, t)
        \/ \E a \in {"accept", "again", "restore", "report"} : op' = [op EXCEPT ![o].at = a]
    BY <1>2 DEF Returned, Accept, RestoreOverride, WriteReport, Interrupt
  <2> QED
    BY <2>1, <2>2, EndsInv, ScriptInv
<1> QED
  BY <1>1, <1>2 DEF Script

\* The inductive step.
LEMMA NextInv == TypeOK /\ Inv /\ [Next]_vars => Inv'
<1> SUFFICES ASSUME TypeOK, Inv, [Next]_vars PROVE Inv'
  OBVIOUS
<1>1. ASSUME NEW o \in Operators, NEW kind \in Kinds, NEW r \in Releases, Discover(o, kind, r)
      PROVE  Inv'
  <2>1. under \in Releases /\ serves \in [Services -> Releases \cup {Nothing}]
    BY DEF TypeOK
  <2> QED
    BY <1>1, <2>1, DiscoverInv
<1>2. ASSUME NEW o \in Operators, Script(o) \/ Interrupt(o) PROVE Inv'
  BY <1>2, ScriptsInv
<1>3. ASSUME NEW o \in Operators, Shell(o) PROVE Inv'
  BY <1>3, ShellInv
<1>4. ASSUME NEW o \in Operators, Signal(o) \/ BrokenPipe(o) \/ LinkLost(o) PROVE Inv'
  BY <1>4, WindingInv
<1>5. CASE TrackEnds \/ BackendBoots \/ UNCHANGED vars
  <2>1. UNCHANGED <<op, stage, offers>>
    BY <1>5 DEF TrackEnds, BackendBoots, vars, fileVars
  <2> QED
    BY <2>1 DEF Inv, Typed, OneMaker, NotYetDeployed, KindFits, ProbedBefore, DeployedWasProbed,
                Works, Busy
<1> QED
  BY <1>1, <1>2, <1>3, <1>4, <1>5 DEF Next

\* The invariant holds at first.
LEMMA InitInv == Init => Inv
<1> SUFFICES ASSUME Init PROVE Inv
  OBVIOUS
<1>1. TypeOK
  BY InitTyped
<1>2. Typed
  BY <1>1 DEF TypeOK, Typed
<1>3. \A o \in Operators : op[o] = Resting /\ ~Busy(o)
  BY DEF Init, Busy, Resting
<1>4. OneMaker /\ NotYetDeployed /\ KindFits /\ ProbedBefore
  BY <1>3 DEF OneMaker, NotYetDeployed, KindFits, Fits, ProbedBefore, Resting, Preparing, PastProbe
<1>5. DeployedWasProbed
  BY NamesAreReal DEF Init, DeployedWasProbed, Works
<1> QED
  BY <1>2, <1>4, <1>5 DEF Inv

\* No manifest says "deployed" of an image that lacks a route (DeployedWasProbed),
\* however many operators overlap, are signalled or lose their connections.
THEOREM DeployedAreProbed == Spec => []DeployedWasProbed
<1>1. Init => TypeOK /\ Inv
  BY InitTyped, InitInv
<1>2. TypeOK /\ Inv /\ [Next]_vars => TypeOK' /\ Inv'
  BY NextTyped, NextInv
<1>3. TypeOK /\ Inv => DeployedWasProbed
  BY DEF Inv
<1> QED
  BY <1>1, <1>2, <1>3, PTL DEF Spec
-----------------------------------------------------------------------------
(* What an operation says of itself *)

\* An override is written once: by the operation that makes its release, into a
\* directory that was new.  A Web release writes it when it unpacks, a pair when
\* its probe has passed.
Written ==
  /\ \A r \in Releases : stage[r] = "none" => override[r] = Nothing
  /\ \A o \in Operators :
       /\ op[o].sh = "unpack" => stage[op[o].rel] = "none"
       /\ op[o].sh \in {"build", "probe"} =>
            /\ stage[op[o].rel] # "none"
            /\ op[o].kind = "paired" => override[op[o].rel] = Nothing

\* Once a Web release has unpacked, its override names its own image for the Web
\* container.
Unpacked == {"build", "probe", "capture", "switch", "resumed", "web", "image", "ready", "commit"}
Named ==
  \A o \in Operators :
    op[o].kind = "deploy" /\ op[o].sh \in Unpacked =>
      override[op[o].rel] # Nothing /\ override[op[o].rel]["web"] = op[o].rel

\* The labels of a Web container that runs name the override with its image.
Labelled ==
  serves["web"] # Nothing =>
    override[under] # Nothing /\ override[under]["web"] = serves["web"]

\* The capture of a release in steady is what plays.
SteadyPlays ==
  \A r \in steady :
    saved[r].state = "playing" /\ voice.on /\ voice.src = saved[r].src

\* An operation that nothing went wrong around is the only one.
Untroubled(o) == Busy(o) /\ ~op[o].trouble
Exclusive == \A o \in Operators : Untroubled(o) => Alone(o)

\* Where the script and the shell of an untroubled operation can be, and its flags.
Placed(rec) ==
  /\ rec.link /\ rec.at # "idle"
  /\ rec.at = "package" => rec.sh = "none"
  /\ rec.at = "remote" => rec.sh # "none"
  /\ rec.at \in {"accept", "again", "restore", "report"} => rec.sh = "over" /\ rec.ok
  /\ rec.ok => rec.sh = "over" /\ rec.complete
  /\ rec.complete => rec.sh \in {"exit", "over"} /\ rec.switched
  /\ rec.sh \in {"resumed", "web", "image", "ready", "commit"} => rec.switched
  /\ rec.sh \in {"capture", "resumed", "web"} => rec.kind = "paired"

\* The containers an operation is about run the images of release r.
Runs(o, r) == \A s \in Scope(op[o].kind) : serves[s] = override[r][s]

\* Nothing is switched yet; the images were compared; the captured track was shown.
Ahead(rec) ==
  \/ rec.sh \in {"none", "fresh", "unpack", "build", "probe", "capture", "switch"}
  \/ rec.sh = "exit" /\ ~rec.switched
Compared(rec) ==
  /\ rec.at # "restore"
  /\ \/ rec.sh = "commit" \/ rec.complete
     \/ rec.kind # "paired" /\ rec.sh = "ready"
Resuming(rec) ==
  /\ rec.at # "restore" /\ rec.kind = "paired"
  /\ rec.sh \in {"web", "ready", "image", "commit"} \/ rec.ok

\* What an untroubled operation can rely on at each place.
Reliable(o) ==
  /\ Placed(op[o])
  /\ op[o].had["web"] # Nothing /\ override[op[o].from] # Nothing
  /\ override[op[o].from]["web"] = op[o].had["web"]
  /\ Ahead(op[o]) => serves = op[o].had
  /\ op[o].sh = "over" /\ ~op[o].complete => serves = op[o].had \/ Runs(o, op[o].from)
  /\ Compared(op[o]) => Runs(o, op[o].rel)
  /\ op[o].complete /\ ~op[o].ok => Works(serves["web"])
  /\ op[o].at = "report" => Works(serves["web"])
  /\ Resuming(op[o]) =>
       up = "up" /\ (op[o].rel \in steady => now = saved[op[o].rel].track)
Relied == \A o \in Operators : Untroubled(o) => Reliable(o)

\* The inductive invariant, beside Inv.
Truth == Written /\ Named /\ Labelled /\ SteadyPlays /\ Exclusive /\ Relied

\* Operation o becomes rec; the others stay as they are.
Becomes(o, rec) == rec \in Operation /\ op' = [op EXCEPT ![o] = rec]
SameRun(rec, old) ==
  /\ rec.kind = old.kind /\ rec.rel = old.rel /\ rec.from = old.from
  /\ rec.had = old.had /\ rec.link = old.link

\* What is written stays.
WrittenOnce == \A r \in Releases : override[r] # Nothing => override'[r] = override[r]

\* The first state has what an untroubled operation relies on.
LEMMA InitTruth == Init => Truth
<1> SUFFICES ASSUME Init PROVE Truth
  OBVIOUS
<1>1. \A o \in Operators : op[o] = Resting /\ ~Busy(o)
  BY DEF Init, Busy, Resting
<1>2. Written
  BY <1>1 DEF Init, Written, Resting
<1>3. Labelled
  <2>1. First \in Releases /\ "web" \in Services /\ [s \in Services |-> First] # Nothing
    BY ReleaseAssumption, NothingIsNone DEF Services, Overrides
  <2> QED
    BY <2>1 DEF Init, Labelled
<1>4. Named /\ SteadyPlays /\ Exclusive /\ Relied
  BY <1>1 DEF Init, Named, Unpacked, Resting, SteadyPlays, Exclusive, Relied, Untroubled
<1> QED
  BY <1>2, <1>3, <1>4 DEF Truth

-----------------------------------------------------------------------------
\* Naming one file in the map of overrides leaves what is written alone, when that
\* file is not there yet.
LEMMA WritesNew ==
  ASSUME TypeOK, NEW r \in Releases, NEW new, override[r] = Nothing,
         override' = [override EXCEPT ![r] = new]
  PROVE  WrittenOnce
BY DEF TypeOK, WrittenOnce

\* Operations that prepare different releases: those at the same place as o.
LEMMA OwnRelease ==
  ASSUME Inv, NEW o \in Operators, op[o].sh \in {"unpack", "build", "probe"} \/ op[o].kind = "deploy", Busy(o),
         NEW p \in Operators \ {o}, op[p].sh \in Preparing
  PROVE  op[p].rel # op[o].rel
<1>1. op[o].kind # "rollback" /\ op[p].kind # "rollback" /\ Busy(p)
  BY DEF Inv, KindFits, Fits, Preparing, Busy
<1> QED
  BY <1>1 DEF Inv, OneMaker

\* A step that writes no file and puts no shell before its probe.
LEMMA NothingWritten ==
  ASSUME TypeOK, Written, UNCHANGED <<override, stage>>,
         \A o \in Operators :
           \/ op'[o].sh \notin Preparing
           \/ op'[o].sh = op[o].sh /\ op'[o].rel = op[o].rel /\ op'[o].kind = op[o].kind
  PROVE  Written' /\ WrittenOnce
BY DEF Written, WrittenOnce, Preparing

\* A shell that goes on prepares another step only from the one before.
LEMMA GoesToFields ==
  ASSUME TypeOK, NEW o \in Operators,
         NEW s \in {"unpack", "build", "probe", "capture", "switch", "resumed", "web", "image",
                    "ready", "commit", "exit"},
         GoesTo(o, s)
  PROVE  \E rec : /\ Becomes(o, rec) /\ SameRun(rec, op[o])
                  /\ rec.sh = s /\ rec.at = op[o].at /\ rec.switched = op[o].switched
                  /\ rec.complete = op[o].complete /\ rec.ok = op[o].ok
                  /\ rec.trouble = op[o].trouble
<1> DEFINE rec == [op[o] EXCEPT !.sh = s]
<1>1. op[o] \in Operation
  BY DEF TypeOK
<1>2. /\ rec \in Operation /\ SameRun(rec, op[o])
      /\ rec.sh = s /\ rec.at = op[o].at /\ rec.switched = op[o].switched
      /\ rec.complete = op[o].complete /\ rec.ok = op[o].ok
      /\ rec.trouble = op[o].trouble
  BY <1>1 DEF Operation, SameRun
<1>3. op' = [op EXCEPT ![o] = rec]
  BY <1>1 DEF GoesTo, TypeOK
<1> QED
  BY <1>2, <1>3 DEF Becomes

\* The others stay as they are.
LEMMA BecomesOne ==
  ASSUME TypeOK, NEW o \in Operators, NEW rec, Becomes(o, rec)
  PROVE  op'[o] = rec /\ \A p \in Operators \ {o} : op'[p] = op[p]
BY DEF TypeOK, Becomes

\* The release an operation makes is still unwritten when it unpacks it.
LEMMA UnpackWritten ==
  ASSUME TypeOK, Inv, Written, NEW o \in Operators, Unpack(o)
  PROVE  Written' /\ WrittenOnce
<1> DEFINE r == op[o].rel
<1>1. /\ op[o].sh = "unpack" /\ Busy(o) /\ r \in Releases
      /\ stage[r] = "none" /\ override[r] = Nothing
  BY DEF Unpack, At, Busy, Written, TypeOK, Operation
<1>2. PICK s \in {"build", "exit"} : GoesTo(o, s)
  BY DEF Unpack
<1>3. PICK rec : Becomes(o, rec) /\ SameRun(rec, op[o]) /\ rec.sh = s
  BY <1>2, GoesToFields
<1>4. op'[o] = rec /\ \A p \in Operators \ {o} : op'[p] = op[p]
  BY <1>3, BecomesOne
<1>5. PICK w \in {"made", "prepared"} : stage' = [stage EXCEPT ![r] = w]
  BY DEF Unpack
<1>6. \/ UNCHANGED override
      \/ op[o].kind = "deploy" /\ \E new : override' = [override EXCEPT ![r] = new]
  BY DEF Unpack
<1>7. WrittenOnce
  BY <1>1, <1>6, WritesNew DEF WrittenOnce
<1>8. \A q \in Releases \ {r} : override'[q] = override[q] /\ stage'[q] = stage[q]
  BY <1>5, <1>6 DEF TypeOK
<1>9. stage'[r] # "none" /\ (op[o].kind = "paired" => override'[r] = Nothing)
  BY <1>1, <1>5, <1>6 DEF TypeOK
<1>10. \A q \in Releases : stage'[q] = "none" => override'[q] = Nothing
  BY <1>8, <1>9 DEF Written
<1>11. ASSUME NEW p \in Operators
       PROVE  /\ op'[p].sh = "unpack" => stage'[op'[p].rel] = "none"
              /\ op'[p].sh \in {"build", "probe"} =>
                   /\ stage'[op'[p].rel] # "none"
                   /\ op'[p].kind = "paired" => override'[op'[p].rel] = Nothing
  <2>1. CASE p = o
    BY <1>3, <1>4, <1>9, <2>1 DEF SameRun
  <2>2. CASE p # o
    <3>1. op[p].sh \in Preparing => op[p].rel \in Releases \ {r}
      BY <1>1, <2>2, OwnRelease DEF TypeOK, Operation
    <3> QED
      BY <1>4, <1>8, <2>2, <3>1 DEF Written, Preparing
  <2> QED
    BY <2>1, <2>2
<1> QED
  BY <1>7, <1>10, <1>11 DEF Written

\* A pair's override is written when its probe has passed.
LEMMA ProbeWritten ==
  ASSUME TypeOK, Inv, Written, NEW o \in Operators, Probe(o)
  PROVE  Written' /\ WrittenOnce
<1> DEFINE r == op[o].rel
<1>1. /\ op[o].sh = "probe" /\ Busy(o) /\ r \in Releases /\ op[o].kind \in {"deploy", "paired"}
      /\ stage[r] # "none" /\ (op[o].kind = "paired" => override[r] = Nothing)
  BY DEF Probe, At, Busy, Written, TypeOK, Operation, Inv, KindFits, Fits, Preparing, Kinds
<1>2. PICK s \in {"switch", "capture", "exit"} : GoesTo(o, s)
  BY DEF Probe, ShellFails
<1>3. PICK rec : Becomes(o, rec) /\ SameRun(rec, op[o]) /\ rec.sh = s
  BY <1>2, GoesToFields
<1>4. op'[o] = rec /\ \A p \in Operators \ {o} : op'[p] = op[p]
  BY <1>3, BecomesOne
<1>5. stage' = stage
  BY DEF Probe, ShellFails, Untouched, fileVars
<1>6. \/ UNCHANGED override
      \/ op[o].kind # "deploy" /\ \E new : override' = [override EXCEPT ![r] = new]
  BY DEF Probe, ShellFails, Untouched, fileVars
<1>7. WrittenOnce
  BY <1>1, <1>6, WritesNew DEF WrittenOnce
<1>8. \A q \in Releases \ {r} : override'[q] = override[q]
  BY <1>6 DEF TypeOK
<1>9. \A q \in Releases : stage'[q] = "none" => override'[q] = Nothing
  BY <1>1, <1>5, <1>8 DEF Written
<1>10. ASSUME NEW p \in Operators
       PROVE  /\ op'[p].sh = "unpack" => stage'[op'[p].rel] = "none"
              /\ op'[p].sh \in {"build", "probe"} =>
                   /\ stage'[op'[p].rel] # "none"
                   /\ op'[p].kind = "paired" => override'[op'[p].rel] = Nothing
  <2>1. CASE p = o
    BY <1>3, <1>4, <2>1
  <2>2. CASE p # o
    <3>1. op[p].sh \in Preparing => op[p].rel \in Releases \ {r}
      BY <1>1, <2>2, OwnRelease DEF TypeOK, Operation
    <3> QED
      BY <1>4, <1>5, <1>8, <2>2, <3>1 DEF Written, Preparing
  <2> QED
    BY <2>1, <2>2
<1> QED
  BY <1>7, <1>9, <1>10 DEF Written

\* The directory of a release that is unpacked is new.
LEMMA FreshWritten ==
  ASSUME TypeOK, Written, NEW o \in Operators, Fresh(o)
  PROVE  Written' /\ WrittenOnce
<1>1. UNCHANGED <<override, stage>>
  BY DEF Fresh, ShellFails, Untouched, fileVars
<1>2. PICK s \in {"unpack", "exit"} : GoesTo(o, s) /\ (s = "unpack" => stage[op[o].rel] = "none")
  BY DEF Fresh, ShellFails
<1>3. PICK rec : Becomes(o, rec) /\ SameRun(rec, op[o]) /\ rec.sh = s
  BY <1>2, GoesToFields
<1>4. op'[o] = rec /\ \A p \in Operators \ {o} : op'[p] = op[p]
  BY <1>3, BecomesOne
<1> QED
  BY <1>1, <1>2, <1>3, <1>4 DEF Written, WrittenOnce, SameRun

\* What is built was unpacked.
LEMMA BuildWritten ==
  ASSUME TypeOK, Written, NEW o \in Operators, Build(o)
  PROVE  Written' /\ WrittenOnce
<1>1. UNCHANGED <<override, stage>> /\ op[o].sh = "build"
  BY DEF Build, ShellFails, Untouched, fileVars, At
<1>2. PICK s \in {"probe", "exit"} : GoesTo(o, s)
  BY DEF Build, ShellFails
<1>3. PICK rec : Becomes(o, rec) /\ SameRun(rec, op[o]) /\ rec.sh = s
  BY <1>2, GoesToFields
<1>4. op'[o] = rec /\ \A p \in Operators \ {o} : op'[p] = op[p]
  BY <1>3, BecomesOne
<1> QED
  BY <1>1, <1>2, <1>3, <1>4 DEF Written, WrittenOnce, SameRun

\* The record a finished shell or a failed manifest leaves.
LEMMA CommitFields ==
  ASSUME TypeOK, NEW o \in Operators, Commit(o)
  PROVE  \E rec : /\ Becomes(o, rec) /\ SameRun(rec, op[o]) /\ rec.at = op[o].at
                  /\ rec.switched = op[o].switched /\ rec.complete
                  /\ rec.trouble = op[o].trouble
                  /\ \/ rec.sh = "over" /\ rec.ok
                     \/ rec.sh = "exit" /\ ~rec.ok /\ op[o].kind = "deploy"
<1>1. op[o] \in Operation
  BY DEF TypeOK
<1>2. PICK s \in {"over", "exit"} :
        /\ op' = [op EXCEPT ![o].sh = s, ![o].complete = TRUE, ![o].ok = (s = "over")]
        /\ s = "exit" => op[o].kind = "deploy"
  BY DEF Commit
<1> DEFINE rec == [op[o] EXCEPT !.sh = s, !.complete = TRUE, !.ok = (s = "over")]
<1>3. /\ rec \in Operation /\ SameRun(rec, op[o]) /\ rec.at = op[o].at /\ rec.sh = s
      /\ rec.switched = op[o].switched /\ rec.complete = TRUE /\ rec.ok = (s = "over")
      /\ rec.trouble = op[o].trouble
  BY <1>1 DEF Operation, SameRun
<1>4. op' = [op EXCEPT ![o] = rec]
  BY <1>1, <1>2 DEF TypeOK
<1> HIDE DEF rec
<1>5. Becomes(o, rec)
  BY <1>3, <1>4 DEF Becomes
<1>6. CASE s = "over"
  BY <1>3, <1>5, <1>6
<1>7. CASE s = "exit"
  BY <1>2, <1>3, <1>5, <1>7
<1> QED
  BY <1>6, <1>7

\* A manifest says "deployed" of a release that is made.
LEMMA CommitWritten ==
  ASSUME TypeOK, Inv, Written, NEW o \in Operators, Commit(o)
  PROVE  Written' /\ WrittenOnce
<1> DEFINE r == op[o].rel
<1>1. op[o].sh = "commit" /\ Busy(o) /\ r \in Releases /\ override' = override
  BY DEF Commit, At, Busy, TypeOK, Operation
<1>2. PICK rec : Becomes(o, rec) /\ rec.sh \in {"over", "exit"}
  BY CommitFields
<1>3. op'[o] = rec /\ \A p \in Operators \ {o} : op'[p] = op[p]
  BY <1>2, BecomesOne
<1>4. \/ stage' = stage
      \/ op[o].kind = "deploy" /\ stage' = [stage EXCEPT ![r] = "deployed"]
  BY DEF Commit
<1>5. \A q \in Releases : \/ stage'[q] = stage[q]
                          \/ q = r /\ op[o].kind = "deploy" /\ stage'[q] = "deployed"
  BY <1>4 DEF TypeOK
<1>6. ASSUME NEW p \in Operators
      PROVE  /\ op'[p].sh = "unpack" => stage'[op'[p].rel] = "none"
             /\ op'[p].sh \in {"build", "probe"} =>
                  /\ stage'[op'[p].rel] # "none"
                  /\ op'[p].kind = "paired" => override'[op'[p].rel] = Nothing
  <2>1. CASE p = o
    BY <1>2, <1>3, <2>1
  <2>2. CASE p # o
    <3>1. op[p].rel \in Releases
      BY DEF TypeOK, Operation
    <3>2. op[p].sh \in Preparing /\ op[o].kind = "deploy" => op[p].rel # r
      BY <1>1, <2>2, OwnRelease
    <3> QED
      BY <1>1, <1>3, <1>5, <2>2, <3>1, <3>2 DEF Written, Preparing
  <2> QED
    BY <2>1, <2>2
<1> QED
  BY <1>1, <1>5, <1>6 DEF Written, WrittenOnce

\* An operation whose two sides are over is at rest; otherwise it is as noted.
LEMMA SettledFields ==
  ASSUME NEW rec \in Operation
  PROVE  /\ Settled(rec) \in Operation /\ Settled(rec).trouble = rec.trouble
         /\ Settled(rec).result = rec.result
         /\ IF rec.at = "idle" /\ rec.sh \in {"none", "over"}
            THEN Settled(rec).at = "idle" /\ Settled(rec).sh = "none"
            ELSE Settled(rec) = rec
<1>1. rec.result \in {"none", "ok", "failed"} /\ rec.trouble \in BOOLEAN
  BY DEF Operation
<1>2. [Resting EXCEPT !.result = rec.result, !.trouble = rec.trouble] \in Operation
  BY <1>1, RestingTyped DEF Operation
<1>3. CASE rec.at = "idle" /\ rec.sh \in {"none", "over"}
  BY <1>1, <1>2, <1>3 DEF Settled, Resting
<1>4. CASE ~(rec.at = "idle" /\ rec.sh \in {"none", "over"})
  BY <1>4 DEF Settled
<1> QED
  BY <1>3, <1>4

\* What the trap notes: the position s, and trouble unless nothing was amiss.
LEMMA CleanupFields ==
  ASSUME TypeOK, NEW o \in Operators, NEW s \in {"over", op[o].sh}, NEW t \in BOOLEAN, Cleanup(o, s, t)
  PROVE  \E rec : /\ op' = [op EXCEPT ![o] = Settled(rec)] /\ rec \in Operation
                  /\ SameRun(rec, op[o]) /\ rec.sh = s /\ rec.at = op[o].at
                  /\ rec.switched = op[o].switched /\ rec.complete = op[o].complete
                  /\ rec.ok = op[o].ok
                  /\ op[o].trouble \/ t => rec.trouble
                  /\ \/ rec.trouble
                     \/ ~Unfinished(o) /\ UNCHANGED <<hostVars, playVars>>
                     \/ Unfinished(o) /\ Recreate(Scope(op[o].kind), op[o].from)
<1>1. op[o] \in Operation
  BY DEF TypeOK
<1>2. PICK more \in BOOLEAN :
        /\ op' = [op EXCEPT ![o] = Settled([op[o] EXCEPT !.sh = s, !.trouble = op[o].trouble \/ t \/ more])]
        /\ \/ more
           \/ ~Unfinished(o) /\ UNCHANGED <<hostVars, playVars>>
           \/ Unfinished(o) /\ Recreate(Scope(op[o].kind), op[o].from)
  BY DEF Cleanup
<1> DEFINE rec == [op[o] EXCEPT !.sh = s, !.trouble = op[o].trouble \/ t \/ more]
<1>3. /\ rec \in Operation /\ SameRun(rec, op[o]) /\ rec.sh = s /\ rec.at = op[o].at
      /\ rec.switched = op[o].switched /\ rec.complete = op[o].complete /\ rec.ok = op[o].ok
      /\ rec.trouble = (op[o].trouble \/ t \/ more)
  BY <1>1 DEF Operation, SameRun
<1>4. op' = [op EXCEPT ![o] = Settled(rec)]
  BY <1>2
<1> HIDE DEF rec
<1> QED
  BY <1>2, <1>3, <1>4

\* What the end of a script notes.
LEMMA EndsFields ==
  ASSUME TypeOK, NEW o \in Operators, NEW result \in {"ok", "failed"}, NEW t \in BOOLEAN,
         Ends(o, result, t)
  PROVE  \E rec : /\ op' = [op EXCEPT ![o] = Settled(rec)] /\ rec \in Operation
                  /\ SameRun(rec, op[o]) /\ rec.at = "idle" /\ rec.sh = op[o].sh
                  /\ rec.result = result /\ (op[o].trouble \/ t => rec.trouble)
<1>1. op[o] \in Operation
  BY DEF TypeOK
<1> DEFINE rec == [op[o] EXCEPT !.at = "idle", !.result = result, !.trouble = op[o].trouble \/ t]
<1>2. /\ rec \in Operation /\ SameRun(rec, op[o]) /\ rec.at = "idle" /\ rec.sh = op[o].sh
      /\ rec.result = result /\ rec.trouble = (op[o].trouble \/ t)
  BY <1>1 DEF Operation, SameRun
<1>3. op' = [op EXCEPT ![o] = Settled(rec)]
  BY DEF Ends
<1> HIDE DEF rec
<1> QED
  BY <1>2, <1>3

\* The script goes on to a; the shell stays where it is.
LEMMA ScriptFields ==
  ASSUME TypeOK, NEW o \in Operators, NEW a \in {"accept", "again", "restore", "report"},
         op' = [op EXCEPT ![o].at = a]
  PROVE  \E rec : /\ Becomes(o, rec) /\ SameRun(rec, op[o])
                  /\ rec.at = a /\ rec.sh = op[o].sh /\ rec.switched = op[o].switched
                  /\ rec.complete = op[o].complete /\ rec.ok = op[o].ok
                  /\ rec.trouble = op[o].trouble
<1> DEFINE rec == [op[o] EXCEPT !.at = a]
<1>1. op[o] \in Operation
  BY DEF TypeOK
<1>2. /\ rec \in Operation /\ SameRun(rec, op[o])
      /\ rec.at = a /\ rec.sh = op[o].sh /\ rec.switched = op[o].switched
      /\ rec.complete = op[o].complete /\ rec.ok = op[o].ok
      /\ rec.trouble = op[o].trouble
  BY <1>1 DEF Operation, SameRun
<1>3. op' = [op EXCEPT ![o] = rec]
  BY <1>1 DEF TypeOK
<1> QED
  BY <1>2, <1>3 DEF Becomes

\* The shell is started.
LEMMA PackageFields ==
  ASSUME TypeOK, NEW o \in Operators, op' = [op EXCEPT ![o].at = "remote", ![o].sh = "fresh"]
  PROVE  \E rec : /\ Becomes(o, rec) /\ SameRun(rec, op[o])
                  /\ rec.at = "remote" /\ rec.sh = "fresh" /\ rec.switched = op[o].switched
                  /\ rec.complete = op[o].complete /\ rec.ok = op[o].ok
                  /\ rec.trouble = op[o].trouble
<1> DEFINE rec == [op[o] EXCEPT !.at = "remote", !.sh = "fresh"]
<1>1. op[o] \in Operation
  BY DEF TypeOK
<1>2. /\ rec \in Operation /\ SameRun(rec, op[o])
      /\ rec.at = "remote" /\ rec.sh = "fresh" /\ rec.switched = op[o].switched
      /\ rec.complete = op[o].complete /\ rec.ok = op[o].ok
      /\ rec.trouble = op[o].trouble
  BY <1>1 DEF Operation, SameRun
<1>3. op' = [op EXCEPT ![o] = rec]
  BY <1>1 DEF TypeOK
<1> QED
  BY <1>2, <1>3 DEF Becomes

\* The switch is noted before its outcome is known.
LEMMA SwitchFields ==
  ASSUME TypeOK, NEW o \in Operators, NEW s \in {"resumed", "image", "exit"},
         op' = [op EXCEPT ![o].sh = s, ![o].switched = TRUE]
  PROVE  \E rec : /\ Becomes(o, rec) /\ SameRun(rec, op[o])
                  /\ rec.sh = s /\ rec.at = op[o].at /\ rec.switched
                  /\ rec.complete = op[o].complete /\ rec.ok = op[o].ok
                  /\ rec.trouble = op[o].trouble
<1> DEFINE rec == [op[o] EXCEPT !.sh = s, !.switched = TRUE]
<1>1. op[o] \in Operation
  BY DEF TypeOK
<1>2. /\ rec \in Operation /\ SameRun(rec, op[o])
      /\ rec.sh = s /\ rec.at = op[o].at /\ rec.switched
      /\ rec.complete = op[o].complete /\ rec.ok = op[o].ok
      /\ rec.trouble = op[o].trouble
  BY <1>1 DEF Operation, SameRun
<1>3. op' = [op EXCEPT ![o] = rec]
  BY <1>1 DEF TypeOK
<1> QED
  BY <1>2, <1>3 DEF Becomes

\* A killed shell is over.
LEMMA BrokenPipeFields ==
  ASSUME TypeOK, NEW o \in Operators, BrokenPipe(o)
  PROVE  \E rec : /\ op' = [op EXCEPT ![o] = Settled(rec)] /\ rec \in Operation
                  /\ SameRun(rec, op[o]) /\ rec.sh = "over" /\ rec.at = op[o].at
                  /\ rec.trouble = op[o].trouble
<1> DEFINE rec == [op[o] EXCEPT !.sh = "over"]
<1>1. op[o] \in Operation
  BY DEF TypeOK
<1>2. /\ rec \in Operation /\ SameRun(rec, op[o]) /\ rec.sh = "over" /\ rec.at = op[o].at
      /\ rec.trouble = op[o].trouble
  BY <1>1 DEF Operation, SameRun
<1>3. op' = [op EXCEPT ![o] = Settled(rec)]
  BY DEF BrokenPipe
<1> QED
  BY <1>2, <1>3

\* A lost connection leaves the shell to itself.
LEMMA LinkLostFields ==
  ASSUME TypeOK, NEW o \in Operators, LinkLost(o)
  PROVE  \E rec : /\ Becomes(o, rec) /\ rec.at = "idle" /\ rec.sh = op[o].sh
                  /\ rec.rel = op[o].rel /\ rec.kind = op[o].kind /\ rec.trouble
<1> DEFINE rec == [op[o] EXCEPT !.at = "idle", !.link = FALSE, !.result = "failed", !.trouble = TRUE]
<1>1. op[o] \in Operation
  BY DEF TypeOK
<1>2. /\ rec \in Operation /\ rec.at = "idle" /\ rec.sh = op[o].sh
      /\ rec.rel = op[o].rel /\ rec.kind = op[o].kind /\ rec.trouble
  BY <1>1 DEF Operation
<1>3. op' = [op EXCEPT ![o] = rec]
  BY <1>1 DEF LinkLost, TypeOK
<1> QED
  BY <1>2, <1>3 DEF Becomes

\* What a new operation starts with, and what the others note of it.
LEMMA DiscoverFields ==
  ASSUME TypeOK, NEW o \in Operators, NEW kind \in Kinds, NEW r \in Releases, Discover(o, kind, r)
  PROVE  /\ op'[o].had = serves /\ op'[o].from = under /\ op'[o].kind = kind /\ op'[o].rel = r
         /\ op'[o].link /\ ~op'[o].complete /\ ~op'[o].ok /\ op'[o].trouble = ~Alone(o)
         /\ \/ op'[o].at = "package" /\ op'[o].sh = "none"
            \/ op'[o].at = "remote" /\ op'[o].sh = "switch"
         /\ \A p \in Operators \ {o} :
              /\ op'[p].at = op[p].at /\ op'[p].sh = op[p].sh
              /\ op'[p].rel = op[p].rel /\ op'[p].kind = op[p].kind
              /\ Busy(p) => op'[p].trouble
<1> DEFINE mine == [Resting EXCEPT
                      !.at = IF kind = "rollback" THEN "remote" ELSE "package",
                      !.sh = IF kind = "rollback" THEN "switch" ELSE "none",
                      !.kind = kind, !.rel = r, !.from = under,
                      !.switched = (kind = "rollback"), !.link = TRUE,
                      !.had = serves, !.trouble = ~Alone(o)]
<1>1. op' = [p \in Operators |-> IF p = o THEN mine
                                 ELSE IF Busy(p) THEN [op[p] EXCEPT !.trouble = TRUE] ELSE op[p]]
  BY DEF Discover
<1>2. /\ mine.had = serves /\ mine.from = under /\ mine.kind = kind /\ mine.rel = r
      /\ mine.link /\ ~mine.complete /\ ~mine.ok /\ mine.trouble = ~Alone(o)
      /\ mine.at = (IF kind = "rollback" THEN "remote" ELSE "package")
      /\ mine.sh = (IF kind = "rollback" THEN "switch" ELSE "none")
  BY DEF Resting
<1> HIDE DEF mine
<1>3. op'[o] = mine
  BY <1>1
<1>4. ASSUME NEW p \in Operators \ {o}
      PROVE  /\ op'[p].at = op[p].at /\ op'[p].sh = op[p].sh
             /\ op'[p].rel = op[p].rel /\ op'[p].kind = op[p].kind
             /\ Busy(p) => op'[p].trouble
  <2>1. op[p] \in Operation
    BY DEF TypeOK
  <2>2. CASE Busy(p)
    <3>1. op'[p] = [op[p] EXCEPT !.trouble = TRUE]
      BY <1>1, <2>2
    <3> QED
      BY <2>1, <3>1 DEF Operation
  <2>3. CASE ~Busy(p)
    BY <1>1, <2>3
  <2> QED
    BY <2>2, <2>3
<1> QED
  BY <1>2, <1>3, <1>4

\* Commands after the probe, ends and interruptions write no override.
LEMMA LaterWritten ==
  ASSUME TypeOK, Written, NEW o \in Operators,
         \/ Package(o) \/ Returned(o) \/ Accept(o) \/ RestoreOverride(o) \/ WriteReport(o)
         \/ Interrupt(o) \/ Capture(o) \/ Switch(o) \/ Resumed(o) \/ SwitchWeb(o) \/ Image(o)
         \/ Ready(o) \/ ExitTrap(o) \/ Signal(o) \/ BrokenPipe(o) \/ LinkLost(o)
  PROVE  Written' /\ WrittenOnce
<1>1. UNCHANGED <<override, stage>>
  BY DEF Package, Returned, Accept, RestoreOverride, WriteReport, Interrupt, Capture, Switch, Resumed,
         SwitchWeb, Image, Ready, ExitTrap, Signal, BrokenPipe, LinkLost, Cleanup, ShellFails,
         Untouched, fileVars
<1>2. ASSUME NEW rec, Becomes(o, rec),
             \/ rec.sh \notin Preparing
             \/ rec.sh = op[o].sh /\ rec.rel = op[o].rel /\ rec.kind = op[o].kind
      PROVE  Written' /\ WrittenOnce
  BY <1>1, <1>2, BecomesOne, NothingWritten
<1>3. ASSUME NEW rec, op' = [op EXCEPT ![o] = Settled(rec)], rec \in Operation, SameRun(rec, op[o]),
             rec.sh \in {op[o].sh, "over"}
      PROVE  Written' /\ WrittenOnce
  <2>1. Becomes(o, Settled(rec))
    BY <1>3, SettledFields DEF Becomes
  <2>2. \/ Settled(rec).sh \notin Preparing
        \/ Settled(rec).sh = op[o].sh /\ Settled(rec).rel = op[o].rel /\ Settled(rec).kind = op[o].kind
    BY <1>3, SettledFields DEF SameRun, Preparing
  <2> QED
    BY <1>2, <2>1, <2>2
<1>4. ASSUME NEW s \in {"switch", "web", "image", "ready", "commit", "exit"}, GoesTo(o, s)
      PROVE  Written' /\ WrittenOnce
  <2>1. PICK rec : Becomes(o, rec) /\ rec.sh = s
    BY <1>4, GoesToFields
  <2> QED
    BY <1>2, <2>1 DEF Preparing
<1>5. CASE \E result \in {"ok", "failed"}, t \in BOOLEAN : Ends(o, result, t)
  BY <1>3, <1>5, EndsFields
<1>6. CASE \E a \in {"accept", "again", "restore", "report"} : op' = [op EXCEPT ![o].at = a]
  BY <1>2, <1>6, ScriptFields DEF SameRun
<1>7. CASE Package(o)
  <2>1. CASE Ends(o, "failed", FALSE)
    BY <1>5, <2>1
  <2>2. CASE op' = [op EXCEPT ![o].at = "remote", ![o].sh = "fresh"]
    <3>1. PICK rec : Becomes(o, rec) /\ rec.sh = "fresh"
      BY <2>2, PackageFields
    <3> QED
      BY <1>2, <3>1 DEF Preparing
  <2> QED
    BY <1>7, <2>1, <2>2 DEF Package
<1>8. CASE Returned(o) \/ Accept(o) \/ RestoreOverride(o) \/ WriteReport(o) \/ Interrupt(o)
  BY <1>5, <1>6, <1>8 DEF Returned, Accept, RestoreOverride, WriteReport, Interrupt
<1>9. CASE Capture(o) \/ Resumed(o) \/ SwitchWeb(o) \/ Image(o) \/ Ready(o)
  <2>1. \E s \in {"switch", "web", "image", "ready", "commit", "exit"} : GoesTo(o, s)
    BY <1>9 DEF Capture, Resumed, SwitchWeb, Image, Ready, ShellFails
  <2> QED
    BY <1>4, <2>1
<1>10. CASE Switch(o)
  <2>1. \/ GoesTo(o, "exit")
        \/ \E s \in {"resumed", "image", "exit"} : op' = [op EXCEPT ![o].sh = s, ![o].switched = TRUE]
    BY <1>10 DEF Switch, ShellFails
  <2>2. CASE \E s \in {"resumed", "image", "exit"} : op' = [op EXCEPT ![o].sh = s, ![o].switched = TRUE]
    <3>1. PICK rec : Becomes(o, rec) /\ rec.sh \in {"resumed", "image", "exit"}
      BY <2>2, SwitchFields
    <3> QED
      BY <1>2, <3>1 DEF Preparing
  <2> QED
    BY <1>4, <2>1, <2>2
<1>11. CASE ExitTrap(o) \/ Signal(o)
  <2>1. PICK s \in {"over", op[o].sh}, t \in BOOLEAN : Cleanup(o, s, t)
    BY <1>11 DEF ExitTrap, Signal
  <2> QED
    BY <1>3, <2>1, CleanupFields
<1>12. CASE BrokenPipe(o)
  BY <1>3, <1>12, BrokenPipeFields
<1>13. CASE LinkLost(o)
  BY <1>2, <1>13, LinkLostFields
<1> QED
  BY <1>7, <1>8, <1>9, <1>10, <1>11, <1>12, <1>13

\* Every step keeps what is written, and says so.
LEMMA NextWritten ==
  ASSUME TypeOK, Inv, Written, [Next]_vars
  PROVE  Written' /\ WrittenOnce
<1>1. ASSUME NEW o \in Operators, NEW kind \in Kinds, NEW r \in Releases, Discover(o, kind, r)
      PROVE  Written' /\ WrittenOnce
  <2>1. UNCHANGED <<override, stage>>
    BY <1>1 DEF Discover, fileVars
  <2>2. op'[o].sh \notin Preparing
    BY <1>1, DiscoverFields DEF Preparing
  <2>3. \A p \in Operators \ {o} : op'[p].sh = op[p].sh /\ op'[p].rel = op[p].rel /\ op'[p].kind = op[p].kind
    BY <1>1, DiscoverFields
  <2> QED
    BY <2>1, <2>2, <2>3, NothingWritten
<1>2. ASSUME NEW o \in Operators, Script(o) \/ Shell(o) \/ Signal(o) \/ BrokenPipe(o) \/ LinkLost(o) \/ Interrupt(o)
      PROVE  Written' /\ WrittenOnce
  BY <1>2, FreshWritten, UnpackWritten, BuildWritten, ProbeWritten, CommitWritten, LaterWritten
     DEF Script, Shell
<1>3. CASE TrackEnds \/ BackendBoots \/ UNCHANGED vars
  <2>1. UNCHANGED <<override, stage, op>>
    BY <1>3 DEF TrackEnds, BackendBoots, vars, fileVars
  <2> QED
    BY <2>1, NothingWritten
<1> QED
  BY <1>1, <1>2, <1>3 DEF Next

\* What a Web release wrote when it unpacked stays, and nobody else gets past there.
LEMMA NextNamed ==
  ASSUME TypeOK, Named, WrittenOnce, [Next]_vars
  PROVE  Named'
<1>1. ASSUME NEW o \in Operators, NEW rec, Becomes(o, rec),
             rec.kind = "deploy" /\ rec.sh \in Unpacked =>
               \/ op[o].kind = "deploy" /\ rec.rel = op[o].rel /\ op[o].sh \in Unpacked
               \/ override'[rec.rel] # Nothing /\ override'[rec.rel]["web"] = rec.rel
      PROVE  Named'
  <2> SUFFICES ASSUME NEW p \in Operators, op'[p].kind = "deploy", op'[p].sh \in Unpacked
               PROVE  override'[op'[p].rel] # Nothing /\ override'[op'[p].rel]["web"] = op'[p].rel
    BY DEF Named
  <2>1. op'[o] = rec /\ \A q \in Operators \ {o} : op'[q] = op[q]
    BY <1>1, BecomesOne
  <2>2. op[p].rel \in Releases /\ op[o].rel \in Releases
    BY DEF TypeOK, Operation
  <2>3. CASE p = o
    BY <1>1, <2>1, <2>2, <2>3 DEF Named, WrittenOnce
  <2>4. CASE p # o
    BY <2>1, <2>2, <2>4 DEF Named, WrittenOnce
  <2> QED
    BY <2>3, <2>4
<1>2. ASSUME NEW o \in Operators, NEW rec, op' = [op EXCEPT ![o] = Settled(rec)], rec \in Operation,
             SameRun(rec, op[o]), rec.sh \in {op[o].sh, "over"}
      PROVE  Named'
  <2>1. Becomes(o, Settled(rec))
    BY <1>2, SettledFields DEF Becomes
  <2>2. Settled(rec).sh \in Unpacked => Settled(rec) = rec
    BY <1>2, SettledFields DEF Unpacked
  <2> QED
    BY <1>1, <1>2, <2>1, <2>2 DEF SameRun, Unpacked
<1>3. ASSUME NEW o \in Operators,
             NEW s \in {"unpack", "build", "probe", "capture", "switch", "web", "image", "ready",
                        "commit", "exit"},
             GoesTo(o, s),
             s \in Unpacked /\ op[o].kind = "deploy" =>
               \/ op[o].sh \in Unpacked
               \/ override'[op[o].rel] # Nothing /\ override'[op[o].rel]["web"] = op[o].rel
      PROVE  Named'
  <2>1. PICK rec : Becomes(o, rec) /\ SameRun(rec, op[o]) /\ rec.sh = s
    BY <1>3, GoesToFields
  <2> QED
    BY <1>1, <1>3, <2>1 DEF SameRun
<1>4. ASSUME NEW o \in Operators, Script(o) \/ Interrupt(o) PROVE Named'
  <2>1. \/ \E result \in {"ok", "failed"}, t \in BOOLEAN : Ends(o, result, t)
        \/ \E a \in {"accept", "again", "restore", "report"} : op' = [op EXCEPT ![o].at = a]
        \/ op' = [op EXCEPT ![o].at = "remote", ![o].sh = "fresh"]
    BY <1>4 DEF Script, Package, Returned, Accept, RestoreOverride, WriteReport, Interrupt
  <2>2. CASE \E result \in {"ok", "failed"}, t \in BOOLEAN : Ends(o, result, t)
    <3>1. PICK rec : /\ op' = [op EXCEPT ![o] = Settled(rec)] /\ rec \in Operation
                     /\ SameRun(rec, op[o]) /\ rec.sh = op[o].sh
      BY <2>2, EndsFields
    <3> QED
      BY <1>2, <3>1
  <2>3. CASE \E a \in {"accept", "again", "restore", "report"} : op' = [op EXCEPT ![o].at = a]
    <3>1. PICK a \in {"accept", "again", "restore", "report"} : op' = [op EXCEPT ![o].at = a]
      BY <2>3
    <3>2. PICK rec : /\ Becomes(o, rec) /\ SameRun(rec, op[o])
                     /\ rec.at = a /\ rec.sh = op[o].sh /\ rec.switched = op[o].switched
                     /\ rec.complete = op[o].complete /\ rec.ok = op[o].ok
                     /\ rec.trouble = op[o].trouble
      BY <3>1, ScriptFields
    <3> QED
      BY <1>1, <3>2 DEF SameRun
  <2>4. CASE op' = [op EXCEPT ![o].at = "remote", ![o].sh = "fresh"]
    <3>1. PICK rec : Becomes(o, rec) /\ rec.sh = "fresh"
      BY <2>4, PackageFields
    <3> QED
      BY <1>1, <3>1 DEF Unpacked
  <2> QED
    BY <2>1, <2>2, <2>3, <2>4
<1>5. ASSUME NEW o \in Operators, Unpack(o) PROVE Named'
  <2>1. op[o].rel \in Releases /\ op[o].from \in Releases /\ op[o].kind \in Kinds
    BY DEF TypeOK, Operation
  <2>2. PICK s \in {"build", "exit"} : GoesTo(o, s)
    BY <1>5 DEF Unpack
  <2>3. op'[o].sh = s
    BY <2>2, GoesToFields, BecomesOne
  <2>4. ASSUME op[o].kind = "deploy", s = "build"
        PROVE  override'[op[o].rel] # Nothing /\ override'[op[o].rel]["web"] = op[o].rel
    <3>1. override[op[o].from] # Nothing /\ override' = [override EXCEPT ![op[o].rel] = WebOverride(o)]
      BY <1>5, <2>3, <2>4 DEF Unpack
    <3>2. WebOverride(o) \in Overrides /\ WebOverride(o)["web"] = op[o].rel
      BY <2>1, <3>1 DEF WebOverride, TypeOK, Overrides, Services
    <3>3. override'[op[o].rel] = WebOverride(o)
      BY <2>1, <3>1 DEF TypeOK
    <3> QED
      BY <3>2, <3>3, NothingIsNone
  <2> QED
    BY <1>3, <2>2, <2>4 DEF Unpacked
<1>6. ASSUME NEW o \in Operators,
             Fresh(o) \/ Build(o) \/ Probe(o) \/ Capture(o) \/ Resumed(o) \/ SwitchWeb(o)
             \/ Image(o) \/ Ready(o)
      PROVE  Named'
  <2>1. PICK s \in {"unpack", "probe", "capture", "switch", "web", "image", "ready", "commit", "exit"} :
          GoesTo(o, s) /\ (s \in Unpacked => op[o].sh \in Unpacked)
    BY <1>6 DEF Fresh, Build, Probe, Capture, Resumed, SwitchWeb, Image, Ready, ShellFails, At, Unpacked
  <2> QED
    BY <1>3, <2>1
<1>7. ASSUME NEW o \in Operators, Switch(o) PROVE Named'
  <2>1. op[o].sh \in Unpacked
    BY <1>7 DEF Switch, At, Unpacked
  <2>2. \/ GoesTo(o, "exit")
        \/ \E s \in {"resumed", "image", "exit"} : op' = [op EXCEPT ![o].sh = s, ![o].switched = TRUE]
    BY <1>7 DEF Switch, ShellFails
  <2>3. CASE \E s \in {"resumed", "image", "exit"} : op' = [op EXCEPT ![o].sh = s, ![o].switched = TRUE]
    <3>1. PICK rec : Becomes(o, rec) /\ SameRun(rec, op[o])
      BY <2>3, SwitchFields
    <3> QED
      BY <1>1, <2>1, <3>1 DEF SameRun
  <2> QED
    BY <1>3, <2>1, <2>2, <2>3
<1>8. ASSUME NEW o \in Operators, Commit(o) PROVE Named'
  <2>1. PICK rec : Becomes(o, rec) /\ rec.sh \in {"over", "exit"}
    BY <1>8, CommitFields
  <2> QED
    BY <1>1, <2>1 DEF Unpacked
<1>9. ASSUME NEW o \in Operators, ExitTrap(o) \/ Signal(o) PROVE Named'
  <2>1. PICK s \in {"over", op[o].sh}, t \in BOOLEAN : Cleanup(o, s, t)
    BY <1>9 DEF ExitTrap, Signal
  <2> QED
    BY <1>2, <2>1, CleanupFields
<1>10. ASSUME NEW o \in Operators, BrokenPipe(o) PROVE Named'
  BY <1>2, <1>10, BrokenPipeFields
<1>11. ASSUME NEW o \in Operators, LinkLost(o) PROVE Named'
  BY <1>1, <1>11, LinkLostFields
<1>12. ASSUME NEW o \in Operators, NEW kind \in Kinds, NEW r \in Releases, Discover(o, kind, r) PROVE Named'
  <2>1. op'[o].sh = "switch" => op'[o].kind = "rollback"
    <3>1. op'[o].kind = kind /\ (op'[o].at = "package" \/ op'[o].at = "remote")
          /\ (op'[o].at = "package" => op'[o].sh = "none")
      BY <1>12, DiscoverFields
    <3>2. kind # "rollback" => op'[o].at = "package"
      BY <1>12 DEF Discover, TypeOK, Resting
    <3> QED
      BY <3>1, <3>2
  <2>2. op'[o].sh \in {"none", "switch"}
    BY <1>12, DiscoverFields
  <2>3. UNCHANGED override
    BY <1>12 DEF Discover, fileVars
  <2>4. \A p \in Operators \ {o} : op'[p].sh = op[p].sh /\ op'[p].rel = op[p].rel /\ op'[p].kind = op[p].kind
    BY <1>12, DiscoverFields
  <2> QED
    BY <2>1, <2>2, <2>3, <2>4 DEF Named, Unpacked
<1>13. CASE TrackEnds \/ BackendBoots \/ UNCHANGED vars
  BY <1>13 DEF TrackEnds, BackendBoots, vars, fileVars, Named
<1> QED
  BY <1>4, <1>5, <1>6, <1>7, <1>8, <1>9, <1>10, <1>11, <1>12, <1>13 DEF Next, Shell

-----------------------------------------------------------------------------
\* An override is in effect once `up` has succeeded with it; its labels name it.
LEMMA RecreateRuns ==
  ASSUME TypeOK, NEW scope \in SUBSET Services, NEW r \in Releases, Recreate(scope, r)
  PROVE  /\ \A s \in scope : serves'[s] = override[r][s]
         /\ \A s \in Services \ scope : serves'[s] = serves[s]
         /\ override[r] # Nothing /\ voice' = voice
         /\ "backend" \notin scope => now' = now /\ up' = up
         /\ \/ under' = under /\ serves'["web"] = serves["web"]
            \/ under' = r /\ serves'["web"] = override[r]["web"]
BY DEF TypeOK, Recreate, Services

\* Labels stay true: what is written stays, and only `up` changes labels.
LEMMA NextLabelled ==
  ASSUME TypeOK, Labelled, WrittenOnce, [Next]_vars
  PROVE  Labelled'
<1>1. CASE UNCHANGED hostVars
  BY <1>1 DEF Labelled, WrittenOnce, TypeOK, hostVars
<1>2. ASSUME NEW scope \in SUBSET Services, NEW r \in Releases, Recreate(scope, r) PROVE Labelled'
  BY <1>2, RecreateRuns DEF Labelled, WrittenOnce, TypeOK
<1>3. ASSUME NEW scope \in SUBSET Services, NEW r \in Releases, UpFails(scope, r) PROVE Labelled'
  <2>1. \/ serves'["web"] = Nothing
        \/ serves'["web"] = serves["web"] /\ under' = under
    BY <1>3 DEF UpFails, TypeOK, Services
  <2> QED
    BY <2>1 DEF Labelled, WrittenOnce, TypeOK
<1>4. ASSUME NEW o \in Operators
      PROVE  op[o].rel \in Releases /\ op[o].from \in Releases /\ Scope(op[o].kind) \in SUBSET Services
             /\ {"web"} \in SUBSET Services /\ {"backend"} \in SUBSET Services
  BY ScopeTyped DEF TypeOK, Operation, Services
<1>5. ASSUME NEW o \in Operators, Switch(o) \/ SwitchWeb(o) \/ RestoreOverride(o) PROVE Labelled'
  <2>1. \/ UNCHANGED hostVars
        \/ \E scope \in SUBSET Services : \E r \in Releases : Recreate(scope, r) \/ UpFails(scope, r)
    BY <1>4, <1>5 DEF Switch, SwitchWeb, RestoreOverride, ShellFails, Untouched
  <2> QED
    BY <1>1, <1>2, <1>3, <2>1
<1>6. ASSUME NEW o \in Operators, ExitTrap(o) \/ Signal(o) PROVE Labelled'
  <2>1. \/ UNCHANGED hostVars
        \/ \E scope \in SUBSET Services : \E r \in Releases : Recreate(scope, r) \/ UpFails(scope, r)
    BY <1>4, <1>6 DEF ExitTrap, Signal, Cleanup
  <2> QED
    BY <1>1, <1>2, <1>3, <2>1
<1>7. ASSUME NEW o \in Operators,
             \/ Package(o) \/ Returned(o) \/ Accept(o) \/ WriteReport(o) \/ Interrupt(o)
             \/ Fresh(o) \/ Unpack(o) \/ Build(o) \/ Probe(o) \/ Capture(o) \/ Resumed(o)
             \/ Image(o) \/ Ready(o) \/ Commit(o) \/ BrokenPipe(o) \/ LinkLost(o)
             \/ \E kind \in Kinds : \E r \in Releases : Discover(o, kind, r)
      PROVE  UNCHANGED hostVars
  BY <1>7 DEF Package, Returned, Accept, WriteReport, Interrupt, Fresh, Unpack, Build, Probe, Capture,
       Resumed, Image, Ready, Commit, BrokenPipe, LinkLost, Discover, ShellFails, Untouched, hostVars
<1>8. CASE TrackEnds \/ BackendBoots \/ UNCHANGED vars
  <2>1. UNCHANGED hostVars
    BY <1>8 DEF TrackEnds, BackendBoots, vars, hostVars
  <2> QED
    BY <1>1, <2>1
<1> QED
  BY <1>1, <1>5, <1>6, <1>7, <1>8 DEF Next, Script, Shell

-----------------------------------------------------------------------------
\* What a new capture says plays, plays; every end of a track ends the history.
LEMMA NextSteady ==
  ASSUME TypeOK, SteadyPlays, [Next]_vars
  PROVE  SteadyPlays'
<1>1. CASE UNCHANGED <<voice, saved, steady>>
  BY <1>1 DEF SteadyPlays
<1>2. ASSUME NEW o \in Operators, Capture(o) PROVE SteadyPlays'
  <2>1. CASE ShellFails(o)
    BY <1>1, <2>1 DEF ShellFails, Untouched, playVars, pointVars
  <2>2. CASE ~ShellFails(o)
    <3>1. op[o].rel \in Releases /\ saved \in [Releases -> Payload \cup {Nothing}] /\ steady \subseteq Releases
      BY DEF TypeOK, Operation
    <3>2. PICK p : /\ saved' = [saved EXCEPT ![op[o].rel] = p]
                   /\ steady' = IF voice.on /\ p.state = "playing" /\ p.src = voice.src
                                THEN steady \cup {op[o].rel} ELSE steady \ {op[o].rel}
      BY <1>2, <2>2 DEF Capture
    <3>3. voice' = voice
      BY <1>2, <2>2 DEF Capture, playVars
    <3> QED
      BY <3>1, <3>2, <3>3 DEF SteadyPlays
  <2> QED
    BY <2>1, <2>2
<1>3. CASE TrackEnds
  BY <1>3 DEF TrackEnds, SteadyPlays
<1>4. ASSUME NEW o \in Operators, Switch(o) \/ SwitchWeb(o) \/ RestoreOverride(o) \/ ExitTrap(o) \/ Signal(o)
      PROVE  UNCHANGED <<voice, saved, steady>>
  BY <1>4 DEF Switch, SwitchWeb, RestoreOverride, ExitTrap, Signal, Cleanup, Recreate, UpFails, ShellFails,
              Untouched, playVars, pointVars
<1>5. ASSUME NEW o \in Operators,
             \/ Package(o) \/ Returned(o) \/ Accept(o) \/ WriteReport(o) \/ Interrupt(o)
             \/ Fresh(o) \/ Unpack(o) \/ Build(o) \/ Probe(o) \/ Resumed(o)
             \/ Image(o) \/ Ready(o) \/ Commit(o) \/ BrokenPipe(o) \/ LinkLost(o)
             \/ \E kind \in Kinds : \E r \in Releases : Discover(o, kind, r)
      PROVE  UNCHANGED <<voice, saved, steady>>
  BY <1>5 DEF Package, Returned, Accept, WriteReport, Interrupt, Fresh, Unpack, Build, Probe,
       Resumed, Image, Ready, Commit, BrokenPipe, LinkLost, Discover, ShellFails, Untouched, playVars, pointVars
<1>6. CASE BackendBoots \/ UNCHANGED vars
  BY <1>1, <1>6 DEF BackendBoots, vars, playVars, pointVars
<1> QED
  BY <1>1, <1>2, <1>3, <1>4, <1>5, <1>6 DEF Next, Script, Shell

\* One operation goes on: it stays alone, and what it relies on need be seen only
\* while nothing goes wrong.
LEMMA Advance ==
  ASSUME TypeOK, Exclusive, Relied, NEW o \in Operators, Busy(o), NEW rec, Becomes(o, rec),
         op[o].trouble => rec.trouble,
         Untroubled(o) /\ Reliable(o) /\ Untroubled(o)' => Reliable(o)'
  PROVE  Exclusive' /\ Relied'
<1>1. op'[o] = rec /\ \A p \in Operators \ {o} : op'[p] = op[p]
  BY BecomesOne
<1>2. ASSUME NEW p \in Operators, Untroubled(p)' PROVE p = o /\ Untroubled(o) /\ Alone(o)'
  <2>1. CASE p # o
    <3>1. Untroubled(p)
      BY <1>1, <1>2, <2>1 DEF Untroubled, Busy
    <3>2. Alone(p)
      BY <3>1 DEF Exclusive
    <3> QED
      BY <2>1, <3>2 DEF Alone
  <2>2. CASE p = o
    <3>1. Untroubled(o)
      BY <1>1, <1>2, <2>2 DEF Untroubled
    <3>2. Alone(o)
      BY <3>1 DEF Exclusive
    <3> QED
      BY <1>1, <2>2, <3>1, <3>2 DEF Alone, Busy
  <2> QED
    BY <2>1, <2>2
<1> QED
  BY <1>2 DEF Exclusive, Relied

\* An operation that comes to rest relies on nothing.
LEMMA Rests ==
  ASSUME TypeOK, Exclusive, Relied, NEW o \in Operators, Busy(o),
         NEW rec \in Operation, op' = [op EXCEPT ![o] = Settled(rec)],
         op[o].trouble => rec.trouble,
         \/ rec.trouble
         \/ rec.at = "idle" /\ rec.sh \in {"none", "over"}
         \/ ~Reliable(o)
  PROVE  Exclusive' /\ Relied'
<1>1. Becomes(o, Settled(rec)) /\ Settled(rec).trouble = rec.trouble
  BY SettledFields DEF Becomes
<1>2. op'[o] = Settled(rec)
  BY <1>1, BecomesOne
<1>3. Untroubled(o)' => ~Reliable(o)
  BY <1>1, <1>2, SettledFields DEF Untroubled, Busy
<1> QED
  BY <1>1, <1>3, Advance

\* The end of a script that fails before anything is switched, or with everything over.
LEMMA EndsRelied ==
  ASSUME TypeOK, Exclusive, Relied, NEW o \in Operators, op[o].at # "idle",
         NEW result \in {"ok", "failed"}, NEW t \in BOOLEAN, Ends(o, result, t),
         Reliable(o) => op[o].sh \in {"none", "over"}
  PROVE  Exclusive' /\ Relied'
<1>1. Busy(o)
  BY DEF Busy
<1>2. PICK rec : /\ op' = [op EXCEPT ![o] = Settled(rec)] /\ rec \in Operation
                 /\ rec.at = "idle" /\ rec.sh = op[o].sh
                 /\ (op[o].trouble \/ t => rec.trouble)
  BY EndsFields
<1> QED
  BY <1>1, <1>2, Rests

\* A position before the switch: the containers are those the operation found.
LEMMA Prepares ==
  ASSUME TypeOK, Inv, Truth, WrittenOnce, NEW o \in Operators,
         op[o].sh \in {"fresh", "unpack", "build", "probe", "capture", "switch"},
         NEW s \in {"unpack", "build", "probe", "capture", "switch", "exit"},
         s = "capture" => op[o].kind = "paired",
         GoesTo(o, s), serves' = serves
  PROVE  Exclusive' /\ Relied'
<1>1. PICK rec : /\ Becomes(o, rec) /\ SameRun(rec, op[o])
                 /\ rec.sh = s /\ rec.at = op[o].at /\ rec.switched = op[o].switched
                 /\ rec.complete = op[o].complete /\ rec.ok = op[o].ok
                 /\ rec.trouble = op[o].trouble
  BY GoesToFields
<1>2. op'[o] = rec /\ Busy(o) /\ op[o].from \in Releases
      /\ op[o].at \in {"idle", "package", "remote", "accept", "again", "restore", "report"}
  BY <1>1, BecomesOne DEF Busy, TypeOK, Operation
<1>3. ASSUME Reliable(o) PROVE Reliable(o)'
  <2>1. Placed(rec) /\ ~rec.ok /\ ~rec.complete /\ rec.at = "remote"
    BY <1>1, <1>2, <1>3 DEF Reliable, Placed, SameRun
  <2>2. serves' = op[o].had
    BY <1>3 DEF Reliable, Ahead
  <2>3. override'[op[o].from] = override[op[o].from]
    BY <1>2, <1>3 DEF Reliable, WrittenOnce
  <2>4. ~Compared(rec) /\ ~Resuming(rec)
    BY <1>1, <2>1 DEF Compared, Resuming
  <2>5. /\ rec.had["web"] # Nothing /\ override'[rec.from] # Nothing
        /\ override'[rec.from]["web"] = rec.had["web"] /\ serves' = rec.had
    BY <1>1, <1>3, <2>2, <2>3 DEF Reliable, SameRun
  <2>6. rec.sh # "over" /\ rec.at # "report"
    BY <1>1, <2>1
  <2> QED
    BY <1>2, <2>1, <2>4, <2>5, <2>6 DEF Reliable
<1> QED
  BY <1>1, <1>2, <1>3, Advance DEF Truth

\* The script's start, and the commands before the switch.
LEMMA PackageRelied ==
  ASSUME TypeOK, Truth, WrittenOnce, NEW o \in Operators, Package(o)
  PROVE  Exclusive' /\ Relied'
<1>1. op[o].at = "package" /\ Busy(o) /\ Untouched /\ op[o].from \in Releases
  BY DEF Package, Busy, TypeOK, Operation
<1>2. CASE Ends(o, "failed", FALSE)
  BY <1>1, <1>2, EndsRelied DEF Truth, Reliable, Placed
<1>3. CASE op' = [op EXCEPT ![o].at = "remote", ![o].sh = "fresh"]
  <2>1. PICK rec : /\ Becomes(o, rec) /\ SameRun(rec, op[o])
                   /\ rec.at = "remote" /\ rec.sh = "fresh" /\ rec.switched = op[o].switched
                   /\ rec.complete = op[o].complete /\ rec.ok = op[o].ok
                   /\ rec.trouble = op[o].trouble
    BY <1>3, PackageFields
  <2>2. op'[o] = rec
    BY <2>1, BecomesOne
  <2>3. ASSUME Reliable(o) PROVE Reliable(o)'
    <3>1. Placed(rec) /\ ~rec.ok /\ ~rec.complete
      BY <1>1, <2>1, <2>3 DEF Reliable, Placed, SameRun
    <3>2. serves' = op[o].had
      BY <1>1, <2>3 DEF Reliable, Placed, Ahead, Untouched, hostVars
    <3>3. override'[op[o].from] = override[op[o].from]
      BY <1>1, <2>3 DEF Reliable, WrittenOnce
    <3>4. ~Compared(rec) /\ ~Resuming(rec)
      BY <2>1, <3>1 DEF Compared, Resuming
    <3>5. /\ rec.had["web"] # Nothing /\ override'[rec.from] # Nothing
          /\ override'[rec.from]["web"] = rec.had["web"] /\ serves' = rec.had
      BY <2>1, <2>3, <3>2, <3>3 DEF Reliable, SameRun
    <3> QED
      BY <2>1, <2>2, <3>1, <3>4, <3>5 DEF Reliable
  <2> QED
    BY <1>1, <2>1, <2>3, Advance DEF Truth
<1> QED
  BY <1>2, <1>3 DEF Package

\* The commands before the switch move the shell alone.
LEMMA PreparingRelied ==
  ASSUME TypeOK, Inv, Truth, WrittenOnce, NEW o \in Operators,
         Fresh(o) \/ Unpack(o) \/ Build(o) \/ Probe(o) \/ Capture(o)
  PROVE  Exclusive' /\ Relied'
<1>1. op[o].sh \in {"fresh", "unpack", "build", "probe", "capture"} /\ serves' = serves
  BY DEF Fresh, Unpack, Build, Probe, Capture, At, ShellFails, Untouched, hostVars
<1>2. op[o].kind \in Kinds
  BY DEF TypeOK, Operation
<1>3. PICK s \in {"unpack", "build", "probe", "capture", "switch", "exit"} :
        GoesTo(o, s) /\ (s = "capture" => op[o].kind = "paired")
  <2>1. Probe(o) => op[o].kind # "rollback"
    BY DEF Probe, At, Inv, KindFits, Fits, Preparing
  <2>2. CASE Fresh(o) \/ Unpack(o) \/ Build(o) \/ Capture(o)
    BY <2>2 DEF Fresh, Unpack, Build, Capture, ShellFails
  <2>3. CASE Probe(o)
    BY <1>2, <2>1, <2>3 DEF Probe, ShellFails, Kinds
  <2> QED
    BY <2>2, <2>3
<1> QED
  BY <1>1, <1>3, Prepares

\* The first `up` of an operation, failed or not, and a later command that fails.
LEMMA Switches ==
  ASSUME TypeOK, Exclusive, Relied, NEW o \in Operators, Busy(o),
         NEW rec, Becomes(o, rec), SameRun(rec, op[o]), rec.at = op[o].at,
         rec.complete = op[o].complete, rec.ok = op[o].ok, rec.trouble = op[o].trouble,
         rec.sh \in {"resumed", "image", "exit"}, override' = override,
         Reliable(o) => op[o].at = "remote" /\ ~op[o].complete /\ rec.switched,
         rec.sh = "resumed" => op[o].kind = "paired",
         rec.sh = "image" => op[o].kind # "paired"
  PROVE  Exclusive' /\ Relied'
<1>1. op'[o] = rec
  BY BecomesOne
<1>2. ASSUME Reliable(o) PROVE Reliable(o)'
  <2>1. Placed(rec) /\ rec.at = "remote" /\ ~rec.ok /\ ~rec.complete /\ rec.switched
    BY <1>2 DEF Reliable, Placed, SameRun
  <2>2. /\ rec.had["web"] # Nothing /\ override[rec.from] # Nothing
        /\ override[rec.from]["web"] = rec.had["web"]
    BY <1>2 DEF Reliable, SameRun
  <2>3. ~Compared(rec) /\ ~Resuming(rec) /\ ~Ahead(rec)
    BY <2>1 DEF Compared, Resuming, Ahead, SameRun
  <2> QED
    BY <1>1, <2>1, <2>2, <2>3 DEF Reliable
<1> QED
  BY <1>2, Advance

\* The switch: `up` of the Web container, or of a pair's backend.
LEMMA SwitchRelied ==
  ASSUME TypeOK, Inv, Truth, WrittenOnce, NEW o \in Operators, Switch(o)
  PROVE  Exclusive' /\ Relied'
<1>1. op[o].sh = "switch" /\ Busy(o) /\ op[o] \in Operation
  BY DEF Switch, At, Busy, TypeOK
<1>2. CASE ShellFails(o)
  BY <1>1, <1>2, Prepares DEF ShellFails, Untouched, hostVars
<1>3. CASE ~ShellFails(o)
  <2>1. PICK s \in {"resumed", "image", "exit"} :
          /\ op' = [op EXCEPT ![o].sh = s, ![o].switched = TRUE]
          /\ s = "resumed" => op[o].kind = "paired"
          /\ s = "image" => op[o].kind # "paired"
    BY <1>3 DEF Switch
  <2>2. PICK rec : /\ Becomes(o, rec) /\ SameRun(rec, op[o])
                   /\ rec.sh = s /\ rec.at = op[o].at /\ rec.switched
                   /\ rec.complete = op[o].complete /\ rec.ok = op[o].ok
                   /\ rec.trouble = op[o].trouble
    BY <2>1, SwitchFields
  <2>3. Reliable(o) => op[o].at = "remote" /\ ~op[o].complete
    BY <1>1 DEF Reliable, Placed, Operation
  <2>4. override' = override
    BY <1>3 DEF Switch, fileVars
  <2> QED
    BY <1>1, <2>1, <2>2, <2>3, <2>4, Switches DEF Truth
<1> QED
  BY <1>2, <1>3

\* A command after the switch that fails.
LEMMA LaterFails ==
  ASSUME TypeOK, Truth, NEW o \in Operators, op[o].sh \in {"resumed", "web", "image", "ready"},
         GoesTo(o, "exit"), override' = override
  PROVE  Exclusive' /\ Relied'
<1>1. PICK rec : /\ Becomes(o, rec) /\ SameRun(rec, op[o])
                 /\ rec.sh = "exit" /\ rec.at = op[o].at /\ rec.switched = op[o].switched
                 /\ rec.complete = op[o].complete /\ rec.ok = op[o].ok
                 /\ rec.trouble = op[o].trouble
  BY GoesToFields
<1>2. Busy(o) /\ op[o].at \in {"idle", "package", "remote", "accept", "again", "restore", "report"}
  BY DEF Busy, TypeOK, Operation
<1>3. Reliable(o) => op[o].at = "remote" /\ ~op[o].complete /\ rec.switched
  BY <1>1, <1>2 DEF Reliable, Placed
<1> QED
  BY <1>1, <1>2, <1>3, Switches DEF Truth

\* A command after the switch that succeeds, on containers that stay as they are: what
\* is compared or shown from here on has just been.
LEMMA Passes ==
  ASSUME TypeOK, Truth, NEW o \in Operators, op[o].sh \in {"resumed", "image", "ready"},
         NEW s \in {"web", "image", "ready", "commit"}, GoesTo(o, s), Untouched,
         Reliable(o) /\ s = "web" => op[o].kind = "paired",
         Reliable(o) /\ (s = "commit" \/ (s = "ready" /\ op[o].kind # "paired")) =>
           Runs(o, op[o].rel) \/ Compared(op[o]),
         Reliable(o) /\ op[o].kind = "paired" =>
           \/ Resuming(op[o])
           \/ up = "up" /\ (op[o].rel \in steady => now = saved[op[o].rel].track)
  PROVE  Exclusive' /\ Relied'
<1>1. PICK rec : /\ Becomes(o, rec) /\ SameRun(rec, op[o])
                 /\ rec.sh = s /\ rec.at = op[o].at /\ rec.switched = op[o].switched
                 /\ rec.complete = op[o].complete /\ rec.ok = op[o].ok
                 /\ rec.trouble = op[o].trouble
  BY GoesToFields
<1>2. /\ Busy(o) /\ op[o].at \in {"idle", "package", "remote", "accept", "again", "restore", "report"}
      /\ op'[o] = rec
  BY <1>1, BecomesOne DEF Busy, TypeOK, Operation
<1>3. UNCHANGED <<serves, override, offers, up, now, saved, steady>>
  BY DEF Untouched, hostVars, fileVars, playVars, pointVars
<1>4. ASSUME Reliable(o) PROVE Reliable(o)'
  <2>1. Placed(rec) /\ rec.at = "remote" /\ ~rec.ok /\ ~rec.complete
    BY <1>1, <1>2, <1>4 DEF Reliable, Placed, SameRun
  <2>2. /\ rec.had["web"] # Nothing /\ override[rec.from] # Nothing
        /\ override[rec.from]["web"] = rec.had["web"]
    BY <1>1, <1>4 DEF Reliable, SameRun
  <2>3. Compared(rec) => Runs(o, op[o].rel)
    BY <1>1, <1>4, <2>1 DEF Reliable, Compared, SameRun
  <2>4. (Runs(o, op[o].rel) => Runs(o, rec.rel)') /\ rec.rel = op[o].rel
    BY <1>1, <1>2, <1>3 DEF Runs, SameRun
  <2>5. Resuming(rec) => up = "up" /\ (rec.rel \in steady => now = saved[rec.rel].track)
    BY <1>1, <1>4, <2>1 DEF Reliable, Resuming, SameRun
  <2>6. ~Ahead(rec) /\ rec.sh # "over" /\ rec.at # "report"
    BY <1>1, <2>1 DEF Ahead
  <2> QED
    BY <1>2, <1>3, <2>1, <2>2, <2>3, <2>4, <2>5, <2>6 DEF Reliable
<1> QED
  BY <1>1, <1>2, <1>4, Advance DEF Truth

\* A pair's backend shows the captured track, or the shell ends.
LEMMA ResumedRelied ==
  ASSUME TypeOK, Truth, NEW o \in Operators, Resumed(o)
  PROVE  Exclusive' /\ Relied'
<1>1. op[o].sh = "resumed"
  BY DEF Resumed, At
<1>2. CASE ShellFails(o)
  BY <1>1, <1>2, LaterFails DEF ShellFails, Untouched, fileVars
<1>3. CASE ~ShellFails(o)
  <2>1. up = "up" /\ ShowsCaptured(saved[op[o].rel]) /\ GoesTo(o, "web") /\ Untouched
    BY <1>3 DEF Resumed
  <2>2. op[o].rel \in steady => now = saved[op[o].rel].track
    BY <2>1 DEF ShowsCaptured, Truth, SteadyPlays
  <2> QED
    BY <1>1, <2>1, <2>2, Passes DEF Reliable, Placed
<1> QED
  BY <1>2, <1>3

\* The images are compared, or the shell ends.
LEMMA ImageRelied ==
  ASSUME TypeOK, Truth, NEW o \in Operators, Image(o)
  PROVE  Exclusive' /\ Relied'
<1>1. op[o].sh = "image"
  BY DEF Image, At
<1>2. CASE ShellFails(o)
  BY <1>1, <1>2, LaterFails DEF ShellFails, Untouched, fileVars
<1>3. CASE ~ShellFails(o)
  <2>1. RightImages(o) /\ Untouched /\ GoesTo(o, IF op[o].kind = "paired" THEN "commit" ELSE "ready")
    BY <1>3 DEF Image
  <2>2. Runs(o, op[o].rel)
    BY <2>1 DEF RightImages, Runs
  <2>3. ASSUME Reliable(o), op[o].kind = "paired" PROVE Resuming(op[o])
    BY <1>1, <2>3 DEF Reliable, Placed, Resuming
  <2> QED
    BY <1>1, <2>1, <2>2, <2>3, Passes
<1> QED
  BY <1>2, <1>3

\* The page answers, or the shell ends.
LEMMA ReadyRelied ==
  ASSUME TypeOK, Truth, NEW o \in Operators, Ready(o)
  PROVE  Exclusive' /\ Relied'
<1>1. op[o].sh = "ready"
  BY DEF Ready, At
<1>2. CASE ShellFails(o)
  BY <1>1, <1>2, LaterFails DEF ShellFails, Untouched, fileVars
<1>3. CASE ~ShellFails(o)
  <2>1. Untouched /\ GoesTo(o, IF op[o].kind = "paired" THEN "image" ELSE "commit")
    BY <1>3 DEF Ready
  <2>2. ASSUME Reliable(o), op[o].kind = "paired" PROVE Resuming(op[o])
    BY <1>1, <2>2 DEF Reliable, Placed, Resuming
  <2>3. ASSUME Reliable(o), op[o].kind # "paired" PROVE Compared(op[o])
    BY <1>1, <2>3 DEF Reliable, Placed, Compared
  <2> QED
    BY <1>1, <2>1, <2>2, <2>3, Passes
<1> QED
  BY <1>2, <1>3

\* A pair's Web container follows; the backend is not touched.
LEMMA SwitchWebRelied ==
  ASSUME TypeOK, Truth, NEW o \in Operators, SwitchWeb(o)
  PROVE  Exclusive' /\ Relied'
<1>1. op[o].sh = "web" /\ op[o].rel \in Releases /\ {"web"} \in SUBSET Services
  BY DEF SwitchWeb, At, TypeOK, Operation, Services
<1>2. CASE GoesTo(o, "exit")
  BY <1>1, <1>2, LaterFails DEF SwitchWeb, fileVars
<1>3. CASE Recreate({"web"}, op[o].rel) /\ GoesTo(o, "ready")
  <2>1. PICK rec : /\ Becomes(o, rec) /\ SameRun(rec, op[o])
                   /\ rec.sh = "ready" /\ rec.at = op[o].at /\ rec.switched = op[o].switched
                   /\ rec.complete = op[o].complete /\ rec.ok = op[o].ok
                   /\ rec.trouble = op[o].trouble
    BY <1>3, GoesToFields
  <2>2. /\ Busy(o) /\ op[o].at \in {"idle", "package", "remote", "accept", "again", "restore", "report"}
        /\ op'[o] = rec
    BY <1>1, <2>1, BecomesOne DEF Busy, TypeOK, Operation
  <2>3. UNCHANGED <<override, offers, up, now, saved, steady>>
    BY <1>1, <1>3, RecreateRuns DEF SwitchWeb, fileVars, pointVars
  <2>4. ASSUME Reliable(o) PROVE Reliable(o)'
    <3>1. Placed(rec) /\ rec.at = "remote" /\ ~rec.ok /\ ~rec.complete /\ rec.kind = "paired"
      BY <1>1, <2>1, <2>2, <2>4 DEF Reliable, Placed, SameRun
    <3>2. /\ rec.had["web"] # Nothing /\ override[rec.from] # Nothing
          /\ override[rec.from]["web"] = rec.had["web"]
      BY <2>1, <2>4 DEF Reliable, SameRun
    <3>3. up = "up" /\ (rec.rel \in steady => now = saved[rec.rel].track)
      BY <1>1, <2>1, <2>4, <3>1 DEF Reliable, Resuming, SameRun
    <3>4. ~Ahead(rec) /\ rec.sh # "over" /\ rec.at # "report" /\ ~Compared(rec)
      BY <2>1, <3>1 DEF Ahead, Compared
    <3> QED
      BY <2>2, <2>3, <3>1, <3>2, <3>3, <3>4 DEF Reliable
  <2> QED
    BY <2>1, <2>2, <2>4, Advance DEF Truth
<1> QED
  BY <1>2, <1>3 DEF SwitchWeb

\* The shell ends with success, or fails with the images of its release running.
LEMMA CommitRelied ==
  ASSUME TypeOK, Inv, Truth, NEW o \in Operators, Commit(o)
  PROVE  Exclusive' /\ Relied'
<1>1. /\ op[o].sh = "commit" /\ Busy(o)
      /\ op[o].at \in {"idle", "package", "remote", "accept", "again", "restore", "report"}
      /\ UNCHANGED <<serves, override, offers, up, now, saved, steady>>
  BY DEF Commit, At, Busy, TypeOK, Operation, hostVars, playVars, pointVars
<1>2. PICK rec : /\ Becomes(o, rec) /\ SameRun(rec, op[o]) /\ rec.at = op[o].at
                 /\ rec.switched = op[o].switched /\ rec.complete
                 /\ rec.trouble = op[o].trouble
                 /\ \/ rec.sh = "over" /\ rec.ok
                    \/ rec.sh = "exit" /\ ~rec.ok /\ op[o].kind = "deploy"
  BY CommitFields
<1>3. op'[o] = rec
  BY <1>2, BecomesOne
<1>4. ASSUME Reliable(o) PROVE Reliable(o)'
  <2>1. Placed(rec) /\ rec.at = "remote" /\ rec.complete /\ rec.switched
    BY <1>1, <1>2, <1>4 DEF Reliable, Placed, SameRun
  <2>2. /\ rec.had["web"] # Nothing /\ override[rec.from] # Nothing
        /\ override[rec.from]["web"] = rec.had["web"]
    BY <1>2, <1>4 DEF Reliable, SameRun
  <2>3. Runs(o, op[o].rel)
    BY <1>1, <1>2, <1>4, <2>1 DEF Reliable, Compared
  <2>4. (Runs(o, op[o].rel) => Runs(o, rec.rel)') /\ rec.rel = op[o].rel
    BY <1>1, <1>2, <1>3 DEF Runs, SameRun
  <2>5. Resuming(rec) => up = "up" /\ (rec.rel \in steady => now = saved[rec.rel].track)
    BY <1>1, <1>2, <1>4, <2>1 DEF Reliable, Resuming, SameRun
  <2>6. ~Ahead(rec)
    BY <1>2, <2>1 DEF Ahead
  <2>7. ~rec.ok => Works(serves["web"])'
    <3>1. SUFFICES ASSUME ~rec.ok PROVE Works(serves["web"])
      BY <1>1 DEF Works
    <3>2. op[o].kind = "deploy"
      BY <1>2, <3>1
    <3>3. "web" \in Scope(op[o].kind)
      BY <3>2 DEF Scope
    <3>4. serves["web"] = op[o].rel
      BY <1>1, <2>3, <3>2, <3>3 DEF Runs, Truth, Named, Unpacked
    <3>5. Works(op[o].rel)
      BY <1>1, <3>2 DEF Inv, ProbedBefore, PastProbe
    <3> QED
      BY <3>4, <3>5
  <2> QED
    BY <1>1, <1>3, <2>1, <2>2, <2>3, <2>4, <2>5, <2>6, <2>7 DEF Reliable
<1> QED
  BY <1>1, <1>2, <1>4, Advance DEF Truth

\* The trap has put the starting override back, or there was nothing to undo.
LEMMA TrapRelied ==
  ASSUME TypeOK, Truth, NEW o \in Operators, ExitTrap(o)
  PROVE  Exclusive' /\ Relied'
<1>1. /\ op[o].sh = "exit" /\ Busy(o) /\ op[o].from \in Releases
      /\ op[o].at \in {"idle", "package", "remote", "accept", "again", "restore", "report"}
      /\ UNCHANGED <<override, offers, saved, steady>>
  BY DEF ExitTrap, Cleanup, At, Busy, TypeOK, Operation, fileVars, pointVars
<1>2. PICK rec : /\ op' = [op EXCEPT ![o] = Settled(rec)] /\ rec \in Operation
                 /\ SameRun(rec, op[o]) /\ rec.sh = "over" /\ rec.at = op[o].at
                 /\ rec.switched = op[o].switched /\ rec.complete = op[o].complete
                 /\ rec.ok = op[o].ok
                 /\ op[o].trouble => rec.trouble
                 /\ \/ rec.trouble
                    \/ ~Unfinished(o) /\ UNCHANGED <<hostVars, playVars>>
                    \/ Unfinished(o) /\ Recreate(Scope(op[o].kind), op[o].from)
  BY CleanupFields DEF ExitTrap
<1>3. CASE rec.trouble \/ ~Reliable(o)
  BY <1>1, <1>2, <1>3, Rests DEF Truth
<1>4. CASE ~rec.trouble /\ Reliable(o)
  <2>1. rec.at = "remote" /\ ~rec.ok /\ Placed(rec)
    BY <1>1, <1>2, <1>4 DEF Reliable, Placed, SameRun
  <2>2. Settled(rec) = rec
    BY <1>2, <2>1, SettledFields
  <2>3. Becomes(o, rec)
    BY <1>2, <2>2 DEF Becomes
  <2>4. op'[o] = rec
    BY <2>3, BecomesOne
  <2>5. /\ rec.had["web"] # Nothing /\ override[rec.from] # Nothing
        /\ override[rec.from]["web"] = rec.had["web"]
    BY <1>2, <1>4 DEF Reliable, SameRun
  <2>6. ASSUME op[o].complete PROVE Reliable(o)'
    <3>1. UNCHANGED serves /\ rec.complete
      BY <1>2, <1>4, <2>6 DEF Unfinished, hostVars
    <3>2. Runs(o, op[o].rel) /\ Works(serves["web"])
      BY <1>1, <1>2, <1>4, <2>1, <2>6 DEF Reliable, Compared
    <3>3. Runs(o, rec.rel)' /\ Works(serves["web"])'
      BY <1>1, <1>2, <2>4, <3>1, <3>2 DEF Runs, SameRun, Works
    <3>4. ~Ahead(rec) /\ ~Resuming(rec)
      BY <1>2, <2>1 DEF Ahead, Resuming
    <3> QED
      BY <1>1, <2>1, <2>4, <2>5, <3>1, <3>3, <3>4 DEF Reliable
  <2>7. ASSUME ~op[o].complete PROVE Reliable(o)'
    <3>1. ASSUME ~Unfinished(o), UNCHANGED <<hostVars, playVars>> PROVE serves' = rec.had
      BY <1>1, <1>2, <1>4, <2>1, <2>7, <3>1 DEF Unfinished, Reliable, Ahead, SameRun, hostVars
    <3>2. ASSUME Recreate(Scope(op[o].kind), op[o].from) PROVE Runs(o, rec.from)'
      <4>1. \A s \in Scope(op[o].kind) : serves'[s] = override[op[o].from][s]
        BY <1>1, <3>2, RecreateRuns, ScopeTyped
      <4> QED
        BY <1>1, <1>2, <2>4, <4>1 DEF Runs, SameRun
    <3>3. serves' = rec.had \/ Runs(o, rec.from)'
      BY <1>2, <1>4, <3>1, <3>2
    <3>4. ~Ahead(rec) /\ ~Compared(rec) /\ ~Resuming(rec) /\ ~rec.complete
      BY <1>2, <2>1, <2>7 DEF Ahead, Compared, Resuming
    <3> QED
      BY <1>1, <2>1, <2>4, <2>5, <3>3, <3>4 DEF Reliable
  <2>8. Reliable(o)'
    BY <2>6, <2>7
  <2> QED
    BY <1>1, <1>2, <2>3, <2>8, Advance DEF Truth
<1> QED
  BY <1>3, <1>4

\* Whatever else happens to an operation is trouble, or finds it in trouble.
LEMMA AmissRelied ==
  ASSUME TypeOK, Truth, NEW o \in Operators,
         Signal(o) \/ BrokenPipe(o) \/ LinkLost(o) \/ Interrupt(o)
  PROVE  Exclusive' /\ Relied'
<1>1. Busy(o)
  BY DEF Signal, BrokenPipe, LinkLost, Interrupt, Busy, Alive
<1>2. CASE Signal(o)
  <2>1. PICK rec : /\ op' = [op EXCEPT ![o] = Settled(rec)] /\ rec \in Operation /\ rec.trouble
    BY <1>2, CleanupFields DEF Signal
  <2> QED
    BY <1>1, <2>1, Rests DEF Truth
<1>3. CASE BrokenPipe(o)
  <2>1. PICK rec : /\ op' = [op EXCEPT ![o] = Settled(rec)] /\ rec \in Operation
                   /\ rec.trouble = op[o].trouble
    BY <1>3, BrokenPipeFields
  <2>2. ~Reliable(o)
    BY <1>3 DEF BrokenPipe, Reliable, Placed
  <2> QED
    BY <1>1, <2>1, <2>2, Rests DEF Truth
<1>4. CASE LinkLost(o)
  <2>1. PICK rec : Becomes(o, rec) /\ rec.trouble
    BY <1>4, LinkLostFields
  <2>2. ~Untroubled(o)'
    BY <2>1, BecomesOne DEF Untroubled
  <2> QED
    BY <1>1, <2>1, <2>2, Advance DEF Truth
<1>5. CASE Interrupt(o)
  <2>1. op[o].at # "idle" /\ Ends(o, "failed", TRUE)
    BY <1>5 DEF Interrupt
  <2>2. Reliable(o) => op[o].sh \in {"none", "over"}
    BY <1>5 DEF Interrupt, Reliable, Placed
  <2> QED
    BY <2>1, <2>2, EndsRelied DEF Truth
<1> QED
  BY <1>2, <1>3, <1>4, <1>5

\* The site on the public address is that of the image that runs.
LEMMA AcceptedWorks ==
  ASSUME TypeOK, VerifyPasses(Site(serves["web"]), TRUE)
  PROVE  Works(serves["web"])
<1>1. serves["web"] \in Releases \cup {Nothing} /\ \A r \in Releases : offers[r] \in SUBSET Routes
  BY DEF TypeOK, Services
<1>2. Site(serves["web"]) \in SUBSET Routes
  BY <1>1 DEF Site
<1>3. Site(serves["web"]) = Routes
  BY <1>2, VerifyAsksForAll
<1>4. serves["web"] # Nothing /\ Routes \subseteq offers[serves["web"]]
  BY <1>3 DEF Site, Routes
<1> QED
  BY <1>1, <1>4 DEF Works

\* The operator's side, once the shell has returned.
LEMMA ScriptRelied ==
  ASSUME TypeOK, Truth, NEW o \in Operators,
         NEW a \in {"accept", "again", "restore", "report"}, op' = [op EXCEPT ![o].at = a], Untouched,
         op[o].at # "idle", op[o].at # "restore",
         Reliable(o) => op[o].sh = "over" /\ op[o].ok,
         a = "report" => Works(serves["web"])
  PROVE  Exclusive' /\ Relied'
<1>1. PICK rec : /\ Becomes(o, rec) /\ SameRun(rec, op[o])
                 /\ rec.at = a /\ rec.sh = op[o].sh /\ rec.switched = op[o].switched
                 /\ rec.complete = op[o].complete /\ rec.ok = op[o].ok
                 /\ rec.trouble = op[o].trouble
  BY ScriptFields
<1>2. op'[o] = rec /\ Busy(o) /\ UNCHANGED <<serves, override, offers, up, now, saved, steady>>
  BY <1>1, BecomesOne DEF Busy, Untouched, hostVars, fileVars, playVars, pointVars
<1>3. ASSUME Reliable(o) PROVE Reliable(o)'
  <2>1. Placed(rec) /\ rec.sh = "over" /\ rec.ok /\ rec.complete /\ op[o].complete
    BY <1>1, <1>3 DEF Reliable, Placed, SameRun
  <2>2. /\ rec.had["web"] # Nothing /\ override[rec.from] # Nothing
        /\ override[rec.from]["web"] = rec.had["web"]
    BY <1>1, <1>3 DEF Reliable, SameRun
  <2>3. Compared(rec) => Runs(o, op[o].rel)
    BY <1>1, <1>3, <2>1 DEF Reliable, Compared, SameRun
  <2>4. (Runs(o, op[o].rel) => Runs(o, rec.rel)') /\ rec.rel = op[o].rel
    BY <1>1, <1>2 DEF Runs, SameRun
  <2>5. Resuming(rec) => up = "up" /\ (rec.rel \in steady => now = saved[rec.rel].track)
    BY <1>1, <1>3, <2>1 DEF Reliable, Resuming, SameRun
  <2>6. ~Ahead(rec)
    BY <2>1 DEF Ahead
  <2>7. rec.at = "report" => Works(serves["web"])'
    BY <1>1, <1>2 DEF Works
  <2> QED
    BY <1>2, <2>1, <2>2, <2>3, <2>4, <2>5, <2>6, <2>7 DEF Reliable
<1> QED
  BY <1>1, <1>2, <1>3, Advance DEF Truth

\* The script moves on, or ends with its shell over.
LEMMA EndingRelied ==
  ASSUME TypeOK, Truth, NEW o \in Operators,
         Returned(o) \/ Accept(o) \/ RestoreOverride(o) \/ WriteReport(o)
  PROVE  Exclusive' /\ Relied'
<1>1. op[o].at # "idle"
  BY DEF Returned, Accept, RestoreOverride, WriteReport
<1>2. Reliable(o) => op[o].sh = "over"
  BY DEF Returned, Accept, RestoreOverride, WriteReport, Reliable, Placed, At
<1>3. ASSUME NEW result \in {"ok", "failed"}, NEW t \in BOOLEAN, Ends(o, result, t)
      PROVE  Exclusive' /\ Relied'
  BY <1>1, <1>2, <1>3, EndsRelied DEF Truth
<1>4. CASE Returned(o)
  <2>1. CASE op[o].ok
    <3>1. op' = [op EXCEPT ![o].at = "accept"] /\ Untouched /\ op[o].at # "restore"
      BY <1>4, <2>1 DEF Returned
    <3> QED
      BY <1>1, <1>2, <2>1, <3>1, ScriptRelied
  <2>2. CASE ~op[o].ok
    BY <1>3, <1>4, <2>2 DEF Returned
  <2> QED
    BY <2>1, <2>2
<1>5. CASE Accept(o)
  <2>1. PICK a \in {"again", "restore", "report"} :
          op' = [op EXCEPT ![o].at = a] /\ (a = "report" => VerifyPasses(Site(serves["web"]), TRUE))
    BY <1>5 DEF Accept
  <2>2. Reliable(o) => op[o].ok
    BY <1>5 DEF Accept, Reliable, Placed
  <2>3. Untouched /\ op[o].at # "restore" /\ (a = "report" => Works(serves["web"]))
    BY <1>5, <2>1, AcceptedWorks DEF Accept
  <2> QED
    BY <1>1, <1>2, <2>1, <2>2, <2>3, ScriptRelied
<1>6. CASE RestoreOverride(o) \/ WriteReport(o)
  <2>1. \E result \in {"ok", "failed"} : \E t \in BOOLEAN : Ends(o, result, t)
    BY <1>6 DEF RestoreOverride, WriteReport
  <2> QED
    BY <1>3, <2>1
<1> QED
  BY <1>4, <1>5, <1>6

\* An operation begins alone, with what runs and the override its labels name, or
\* in trouble; those in progress are in trouble from then on.
LEMMA DiscoverRelied ==
  ASSUME TypeOK, Truth, NEW o \in Operators, NEW kind \in Kinds, NEW r \in Releases, Discover(o, kind, r)
  PROVE  Exclusive' /\ Relied'
<1>1. /\ op'[o].had = serves /\ op'[o].from = under
      /\ op'[o].link /\ ~op'[o].complete /\ ~op'[o].ok /\ op'[o].trouble = ~Alone(o)
      /\ \/ op'[o].at = "package" /\ op'[o].sh = "none"
         \/ op'[o].at = "remote" /\ op'[o].sh = "switch"
  BY DiscoverFields
<1>2. \A p \in Operators \ {o} :
        /\ op'[p].at = op[p].at /\ op'[p].sh = op[p].sh
        /\ Busy(p) => op'[p].trouble
  BY DiscoverFields
<1>3. serves["web"] # Nothing /\ UNCHANGED <<serves, override>>
  BY DEF Discover, hostVars, fileVars
<1>4. \A p \in Operators : Untroubled(p)' => p = o /\ Alone(o)
  BY <1>1, <1>2 DEF Untroubled, Busy
<1>5. Alone(o) => Alone(o)'
  BY <1>2 DEF Alone, Busy
<1>6. Reliable(o)'
  <2>1. Placed(op'[o])
    BY <1>1 DEF Placed
  <2>2. override[under] # Nothing /\ override[under]["web"] = serves["web"]
    BY <1>3 DEF Truth, Labelled
  <2>3. ~Compared(op'[o]) /\ ~Resuming(op'[o]) /\ op'[o].at # "report" /\ op'[o].sh # "over"
    BY <1>1 DEF Compared, Resuming
  <2> QED
    BY <1>1, <1>3, <2>1, <2>2, <2>3 DEF Reliable
<1> QED
  BY <1>4, <1>5, <1>6 DEF Exclusive, Relied

\* The end of a track, or of the backend's start, changes nothing that is relied on.
LEMMA PlayRelied ==
  ASSUME TypeOK, Truth, TrackEnds \/ BackendBoots \/ UNCHANGED vars
  PROVE  Exclusive' /\ Relied'
<1>1. UNCHANGED <<op, serves, override, offers, saved>>
  BY DEF TrackEnds, BackendBoots, vars, hostVars, fileVars, pointVars
<1>2. Exclusive'
  BY <1>1 DEF Truth, Exclusive, Untroubled, Busy, Alone
<1>3. ASSUME NEW o \in Operators, Untroubled(o)' PROVE Reliable(o)'
  <2>1. Reliable(o)
    BY <1>1, <1>3 DEF Truth, Relied, Untroubled, Busy
  <2>2. Resuming(op[o]) =>
          up' = "up" /\ (op[o].rel \in steady' => now' = saved[op[o].rel].track)
    BY <2>1 DEF Reliable, TrackEnds, BackendBoots, vars, playVars, pointVars
  <2>3. \A r : Runs(o, r) => Runs(o, r)'
    BY <1>1 DEF Runs
  <2>4. op[o].at = "report" \/ (op[o].complete /\ ~op[o].ok) => Works(serves["web"])'
    BY <1>1, <2>1 DEF Reliable, Works
  <2> QED
    BY <1>1, <2>1, <2>2, <2>3, <2>4 DEF Reliable
<1> QED
  BY <1>2, <1>3 DEF Relied

\* The inductive step.
LEMMA NextTruth == TypeOK /\ Inv /\ Truth /\ [Next]_vars => Truth' /\ WrittenOnce
<1> SUFFICES ASSUME TypeOK, Inv, Truth, [Next]_vars PROVE Truth' /\ WrittenOnce
  OBVIOUS
<1>1. Written' /\ WrittenOnce
  BY NextWritten DEF Truth
<1>2. Labelled' /\ SteadyPlays' /\ Named'
  BY <1>1, NextLabelled, NextSteady, NextNamed DEF Truth
<1>3. ASSUME NEW o \in Operators, NEW kind \in Kinds, NEW r \in Releases, Discover(o, kind, r)
      PROVE  Exclusive' /\ Relied'
  BY <1>3, DiscoverRelied
<1>4. ASSUME NEW o \in Operators, Script(o) PROVE Exclusive' /\ Relied'
  BY <1>1, <1>4, PackageRelied, EndingRelied DEF Script
<1>5. ASSUME NEW o \in Operators, Shell(o) PROVE Exclusive' /\ Relied'
  BY <1>1, <1>5, PreparingRelied, SwitchRelied, ResumedRelied, SwitchWebRelied, ImageRelied, ReadyRelied,
     CommitRelied, TrapRelied DEF Shell
<1>6. ASSUME NEW o \in Operators, Signal(o) \/ BrokenPipe(o) \/ LinkLost(o) \/ Interrupt(o)
      PROVE  Exclusive' /\ Relied'
  BY <1>6, AmissRelied
<1>7. TrackEnds \/ BackendBoots \/ UNCHANGED vars => Exclusive' /\ Relied'
  BY PlayRelied DEF Truth
<1>8. Exclusive' /\ Relied'
  BY <1>3, <1>4, <1>5, <1>6, <1>7 DEF Next
<1> QED
  BY <1>1, <1>2, <1>8 DEF Truth

-----------------------------------------------------------------------------
(* The reports *)

\* The steps in which the script of an operation is over without trouble.
Reported(o) ==
  \/ /\ op'[o].result = "failed" /\ UNCHANGED serves
     /\ op[o].at = "package" \/ (op[o].at = "remote" /\ op[o].sh = "over" /\ ~op[o].ok)
  \/ /\ op'[o].result = "failed" /\ op[o].at = "restore"
     /\ Recreate(Scope(op[o].kind), op[o].from)
  \/ /\ op'[o].result \in {"ok", "failed"} /\ op[o].at = "report"
     /\ UNCHANGED <<serves, now, voice>>

\* What an end of the script leaves of its result.
LEMMA EndsResult ==
  ASSUME TypeOK, NEW o \in Operators, NEW result \in {"ok", "failed"}, NEW t \in BOOLEAN,
         Ends(o, result, t)
  PROVE  op'[o].result = result /\ (op[o].trouble \/ t => op'[o].trouble)
<1>1. PICK rec : /\ op' = [op EXCEPT ![o] = Settled(rec)] /\ rec \in Operation
                 /\ rec.result = result /\ (op[o].trouble \/ t => rec.trouble)
  BY EndsFields
<1>2. op'[o] = Settled(rec)
  BY <1>1 DEF TypeOK
<1> QED
  BY <1>1, <1>2, SettledFields

\* A script does not end in a step of its shell.
LEMMA ShellKeepsScript ==
  ASSUME TypeOK, NEW o \in Operators, Shell(o) \/ Signal(o) \/ BrokenPipe(o), op[o].at # "idle"
  PROVE  op'[o].at # "idle"
<1>1. ASSUME NEW rec, Becomes(o, rec), rec.at = op[o].at PROVE op'[o].at # "idle"
  BY <1>1, BecomesOne
<1>2. ASSUME NEW rec \in Operation, op' = [op EXCEPT ![o] = Settled(rec)], rec.at = op[o].at
      PROVE  op'[o].at # "idle"
  <2>1. op'[o] = Settled(rec)
    BY <1>2 DEF TypeOK
  <2> QED
    BY <1>2, <2>1, SettledFields
<1>3. ASSUME NEW s \in {"unpack", "build", "probe", "capture", "switch", "web", "image", "ready",
                        "commit", "exit"}, GoesTo(o, s)
      PROVE  op'[o].at # "idle"
  BY <1>1, <1>3, GoesToFields
<1>4. CASE Fresh(o) \/ Unpack(o) \/ Build(o) \/ Probe(o) \/ Capture(o) \/ Resumed(o) \/ SwitchWeb(o)
           \/ Image(o) \/ Ready(o)
  <2>1. \E s \in {"unpack", "build", "probe", "capture", "switch", "web", "image", "ready",
                  "commit", "exit"} : GoesTo(o, s)
    BY <1>4 DEF Fresh, Unpack, Build, Probe, Capture, Resumed, SwitchWeb, Image, Ready, ShellFails
  <2> QED
    BY <1>3, <2>1
<1>5. CASE Switch(o)
  <2>1. \/ GoesTo(o, "exit")
        \/ \E s \in {"resumed", "image", "exit"} : op' = [op EXCEPT ![o].sh = s, ![o].switched = TRUE]
    BY <1>5 DEF Switch, ShellFails
  <2> QED
    BY <1>1, <1>3, <2>1, SwitchFields
<1>6. CASE Commit(o)
  BY <1>1, <1>6, CommitFields
<1>7. CASE ExitTrap(o) \/ Signal(o)
  <2>1. PICK s \in {"over", op[o].sh}, t \in BOOLEAN : Cleanup(o, s, t)
    BY <1>7 DEF ExitTrap, Signal
  <2> QED
    BY <1>2, <2>1, CleanupFields
<1>8. CASE BrokenPipe(o)
  BY <1>2, <1>8, BrokenPipeFields
<1> QED
  BY <1>4, <1>5, <1>6, <1>7, <1>8 DEF Shell

\* A step of an operation is about its own record.
LEMMA OneChanges ==
  ASSUME NEW p \in Operators,
         Script(p) \/ Shell(p) \/ Signal(p) \/ BrokenPipe(p) \/ LinkLost(p) \/ Interrupt(p)
  PROVE  \A q \in Operators \ {p} : op \in [Operators -> Operation] => op'[q] = op[q]
<1>1. CASE Script(p) \/ LinkLost(p) \/ Interrupt(p)
  BY <1>1 DEF Script, Package, Returned, Accept, RestoreOverride, WriteReport, LinkLost, Interrupt, Ends
<1>2. CASE Shell(p)
  BY <1>2 DEF Shell, Fresh, Unpack, Build, Probe, Capture, Switch, Resumed, SwitchWeb, Image, Ready,
              Commit, ExitTrap, Cleanup, ShellFails, GoesTo
<1>3. CASE Signal(p) \/ BrokenPipe(p)
  BY <1>3 DEF Signal, BrokenPipe, Cleanup
<1> QED
  BY <1>1, <1>2, <1>3

\* The script's own steps.
LEMMA ScriptReports ==
  ASSUME TypeOK, NEW o \in Operators, Script(o) \/ LinkLost(o) \/ Interrupt(o), EndsUntroubled(o)
  PROVE  Reported(o) /\ (op[o].trouble => op'[o].trouble)
<1>1. op[o].at # "idle" /\ op'[o].at = "idle" /\ ~op'[o].trouble
  BY DEF EndsUntroubled
<1>2. \A a : op' = [op EXCEPT ![o].at = a] => op'[o].at = a
  <2>1. op[o] \in Operation
    BY DEF TypeOK
  <2> QED
    BY <2>1 DEF TypeOK, Operation
<1>3. CASE Package(o)
  <2>1. ~(op' = [op EXCEPT ![o].at = "remote", ![o].sh = "fresh"])
    BY <1>1, PackageFields, BecomesOne
  <2>2. Ends(o, "failed", FALSE) /\ op[o].at = "package" /\ UNCHANGED serves
    BY <1>3, <2>1 DEF Package, Untouched, hostVars
  <2> QED
    BY <2>2, EndsResult DEF Reported
<1>4. CASE Returned(o)
  <2>1. Ends(o, "failed", FALSE) /\ ~op[o].ok /\ op[o].at = "remote" /\ op[o].sh = "over" /\ UNCHANGED serves
    BY <1>1, <1>2, <1>4 DEF Returned, Untouched, hostVars, At
  <2> QED
    BY <2>1, EndsResult DEF Reported
<1>5. CASE Accept(o)
  <2>1. \E a \in {"again", "restore", "report"} : op' = [op EXCEPT ![o].at = a]
    BY <1>5 DEF Accept
  <2> QED
    BY <1>1, <1>2, <2>1
<1>6. CASE RestoreOverride(o)
  <2>1. ~Ends(o, "failed", TRUE)
    BY <1>1, EndsResult
  <2>2. Recreate(Scope(op[o].kind), op[o].from) /\ Ends(o, "failed", FALSE) /\ op[o].at = "restore"
    BY <1>6, <2>1 DEF RestoreOverride
  <2> QED
    BY <2>2, EndsResult DEF Reported
<1>7. CASE WriteReport(o)
  <2>1. PICK result \in {"ok", "failed"} : Ends(o, result, FALSE)
    BY <1>7 DEF WriteReport
  <2>2. op[o].at = "report" /\ UNCHANGED <<serves, now, voice>>
    BY <1>7 DEF WriteReport, Untouched, hostVars, playVars
  <2> QED
    BY <2>1, <2>2, EndsResult DEF Reported
<1>8. CASE LinkLost(o)
  BY <1>1, <1>8, LinkLostFields, BecomesOne
<1>9. CASE Interrupt(o)
  BY <1>1, <1>9, EndsResult DEF Interrupt
<1> QED
  BY <1>3, <1>4, <1>5, <1>6, <1>7, <1>8, <1>9 DEF Script

\* An operation that ends untroubled was untroubled, and says how it ends.
LEMMA EndsReported ==
  ASSUME TypeOK, [Next]_vars, NEW o \in Operators, EndsUntroubled(o)
  PROVE  Untroubled(o) /\ Reported(o)
<1>1. op[o].at # "idle" /\ op'[o].at = "idle" /\ ~op'[o].trouble /\ Busy(o)
  BY DEF EndsUntroubled, Busy
<1>2. ASSUME NEW p \in Operators, NEW kind \in Kinds, NEW r \in Releases, Discover(p, kind, r)
      PROVE  FALSE
  <2>1. p # o
    BY <1>1, <1>2 DEF Discover
  <2> QED
    BY <1>1, <1>2, <2>1, DiscoverFields
<1>3. ASSUME NEW p \in Operators, p # o,
             Script(p) \/ Shell(p) \/ Signal(p) \/ BrokenPipe(p) \/ LinkLost(p) \/ Interrupt(p)
      PROVE  FALSE
  BY <1>1, <1>3, OneChanges DEF TypeOK
<1>4. ~(TrackEnds \/ BackendBoots \/ UNCHANGED vars)
  BY <1>1 DEF TrackEnds, BackendBoots, vars
<1>5. Script(o) \/ Shell(o) \/ Signal(o) \/ BrokenPipe(o) \/ LinkLost(o) \/ Interrupt(o)
  BY <1>2, <1>3, <1>4 DEF Next
<1>6. Script(o) \/ LinkLost(o) \/ Interrupt(o)
  BY <1>1, <1>5, ShellKeepsScript
<1> QED
  BY <1>1, <1>6, ScriptReports DEF Untroubled

-----------------------------------------------------------------------------
\* The invariants together, and that every step keeps them.
All == TypeOK /\ Inv /\ Truth

\* They hold at first, and every step keeps them.
LEMMA AllHold == (Init => All) /\ (All /\ [Next]_vars => All')
BY InitTyped, InitInv, InitTruth, NextTyped, NextInv, NextTruth DEF All

\* A release's override is never written again once it is there: what an operation
\* compares with, and puts back, is what it was made with.
THEOREM OverridesAreWrittenOnce == Spec => [][WrittenOnce]_vars
<1>1. All /\ [Next]_vars => WrittenOnce
  BY NextTruth DEF All
<1> QED
  BY <1>1, AllHold, PTL DEF Spec

\* The labels of a running Web container name an override that exists and names the
\* container's image, so that a release starts from what runs.
THEOREM LabelsAreTrue == Spec => []Labelled
<1>1. All => Labelled
  BY DEF All, Truth
<1> QED
  BY <1>1, AllHold, PTL DEF Spec

\* How an operation ends tells what runs (OutcomeIsTrue).
OutcomeStep ==
  \A o \in Operators : EndsUntroubled(o) =>
    LET Ran(r) == \A s \in Scope(op[o].kind) : serves'[s] = override[r][s]
    IN IF op'[o].result = "ok" \/ (op[o].complete /\ op[o].at # "restore")
       THEN Ran(op[o].rel)
       ELSE serves' = op[o].had \/ Ran(op[o].from)

\* Each step's end is told by what the containers run.
LEMMA StepsAreTrue == All /\ [Next]_vars => OutcomeStep
<1> SUFFICES ASSUME All, [Next]_vars, NEW o \in Operators, EndsUntroubled(o)
             PROVE  IF op'[o].result = "ok" \/ (op[o].complete /\ op[o].at # "restore")
                    THEN \A s \in Scope(op[o].kind) : serves'[s] = override[op[o].rel][s]
                    ELSE \/ serves' = op[o].had
                         \/ \A s \in Scope(op[o].kind) : serves'[s] = override[op[o].from][s]
  BY DEF OutcomeStep
<1>1. Reliable(o) /\ Reported(o) /\ op[o].from \in Releases
  BY EndsReported DEF All, Truth, Relied, TypeOK, Operation
<1>2. CASE /\ op'[o].result = "failed" /\ UNCHANGED serves
           /\ op[o].at = "package" \/ (op[o].at = "remote" /\ op[o].sh = "over" /\ ~op[o].ok)
  <2>1. op[o].at # "restore" /\ (op[o].complete => Runs(o, op[o].rel))
    BY <1>1, <1>2 DEF Reliable, Compared
  <2>2. ~op[o].complete => serves = op[o].had \/ Runs(o, op[o].from)
    BY <1>1, <1>2 DEF Reliable, Placed, Ahead
  <2> QED
    BY <1>2, <2>1, <2>2 DEF Runs
<1>3. CASE op'[o].result = "failed" /\ op[o].at = "restore" /\ Recreate(Scope(op[o].kind), op[o].from)
  BY <1>1, <1>3, RecreateRuns, ScopeTyped DEF All
<1>4. CASE op[o].at = "report" /\ UNCHANGED <<serves, now, voice>>
  BY <1>1, <1>4 DEF Reliable, Placed, Compared, Runs
<1> QED
  BY <1>1, <1>2, <1>3, <1>4 DEF Reported

\* How an operation ends tells what runs (OutcomeIsTrue): the images of its release
\* after "ok" and after a failure past `complete=1` that is no acceptance check, else
\* what ran before or what the starting override names, for any commands that fail in
\* an operation around which nothing that EndsUntroubled excludes happened.
THEOREM OutcomesAreTrue == Spec => OutcomeIsTrue
<1>1. All /\ [Next]_vars => OutcomeStep
  BY StepsAreTrue
<1> QED
  BY <1>1, AllHold, PTL DEF Spec, OutcomeIsTrue, OutcomeStep

\* An accepted Web client answers everything; the starting override brings back the
\* image that ran.
WorkingStep ==
  \A o \in Operators : EndsUntroubled(o) /\ Works(op[o].had["web"]) => Works(serves'["web"])

\* Each step's end leaves a working Web client.
LEMMA StepsKeepWorking == All /\ [Next]_vars => WorkingStep
<1> SUFFICES ASSUME All, [Next]_vars, NEW o \in Operators, EndsUntroubled(o), Works(op[o].had["web"])
             PROVE  Works(serves'["web"])
  BY DEF WorkingStep
<1>1. Reliable(o) /\ Reported(o) /\ op[o].from \in Releases /\ "web" \in Scope(op[o].kind)
  BY EndsReported DEF All, Truth, Relied, TypeOK, Operation, Scope, Services
<1>2. override[op[o].from]["web"] = op[o].had["web"]
  BY <1>1 DEF Reliable
<1>3. CASE /\ op'[o].result = "failed" /\ UNCHANGED serves
           /\ op[o].at = "package" \/ (op[o].at = "remote" /\ op[o].sh = "over" /\ ~op[o].ok)
  <2>1. op[o].complete => Works(serves'["web"])
    BY <1>1, <1>3 DEF Reliable, Placed, Works, Reported
  <2>2. ~op[o].complete => serves = op[o].had \/ Runs(o, op[o].from)
    BY <1>1, <1>3 DEF Reliable, Placed, Ahead
  <2> QED
    BY <1>1, <1>2, <1>3, <2>1, <2>2 DEF Runs
<1>4. CASE op'[o].result = "failed" /\ Recreate(Scope(op[o].kind), op[o].from)
  <2>1. serves'["web"] = override[op[o].from]["web"]
    BY <1>1, <1>4, RecreateRuns, ScopeTyped DEF All
  <2> QED
    BY <1>2, <2>1
<1>5. CASE op[o].at = "report" /\ UNCHANGED <<serves, now, voice>>
  BY <1>1, <1>5 DEF Reliable
<1> QED
  BY <1>1, <1>3, <1>4, <1>5 DEF Reported

\* A working Web client is followed by a working one (WorkingWebStays), however
\* defective a build or the target of a rollback is.
THEOREM WorkingWebClientsStay == Spec => WorkingWebStays
<1>1. All /\ [Next]_vars => WorkingStep
  BY StepsKeepWorking
<1> QED
  BY <1>1, AllHold, PTL DEF Spec, WorkingWebStays, WorkingStep

\* A pair that succeeds shows the captured track.
PlaybackStep ==
  \A o \in Operators :
    (/\ EndsUntroubled(o) /\ op[o].kind = "paired" /\ op'[o].result = "ok"
     /\ op[o].rel \in steady)
    => now' = saved[op[o].rel].track /\ voice'.on /\ voice'.src = saved[op[o].rel].src

\* Each step's success of a pair shows what plays.
LEMMA StepsKeepPlayback == All /\ [Next]_vars => PlaybackStep
<1> SUFFICES ASSUME All, [Next]_vars, NEW o \in Operators, EndsUntroubled(o), op[o].kind = "paired",
                    op'[o].result = "ok", op[o].rel \in steady
             PROVE  now' = saved[op[o].rel].track /\ voice'.on /\ voice'.src = saved[op[o].rel].src
  BY DEF PlaybackStep
<1>1. Reliable(o) /\ op[o].at = "report" /\ UNCHANGED <<now, voice>>
  BY EndsReported DEF All, Truth, Relied, Reported
<1>2. now = saved[op[o].rel].track
  BY <1>1 DEF Reliable, Placed, Resuming
<1> QED
  BY <1>1, <1>2 DEF All, Truth, SteadyPlays

\* The track a paired release captured is what its new backend shows and the voice
\* service plays (PlaybackSurvives), as long as no track ended meanwhile.
THEOREM PlaybackSurvivesPairs == Spec => PlaybackSurvives
<1>1. All /\ [Next]_vars => PlaybackStep
  BY StepsKeepPlayback
<1> QED
  BY <1>1, AllHold, PTL DEF Spec, PlaybackSurvives, PlaybackStep
=============================================================================
