--------------------------- MODULE WsManagerProofs ---------------------------
(***************************************************************************)
(* Proofs about WsManager, for any number of clients, any bound on the     *)
(* queues and any number of messages: no lost wakeup, writers that outlive *)
(* their connection sleep, a dropped client is sent nothing more, nothing  *)
(* is left when close() has returned, a client that stays connected gets   *)
(* every state change in order, and no queue exceeds its bound.            *)
(***************************************************************************)
EXTENDS WsManager, FiniteSetTheorems, TLAPS

Points == {"none", "wait", "send", "sent", "close", "done"}

Typed ==
  /\ connections \subseteq Sockets /\ ready \subseteq Sockets
  /\ writer \in [Sockets -> Points]
  /\ pending = [ws \in Sockets |-> pending[ws]] /\ sending = [ws \in Sockets |-> sending[ws]]
  /\ closer = [ws \in Sockets |-> closer[ws]] /\ peer = [ws \in Sockets |-> peer[ws]]
  /\ shutdown \in {"no", "writers", "sockets", "returned"}

\* A connection that has not been accepted yet has left no trace.
Fresh == \A ws \in Sockets : peer[ws] \in {"new", "accepting"} =>
           writer[ws] = "none" /\ ws \notin cancelled \cup connections /\ pending[ws] = {}

\* The queue of a connection that is gone is empty, unless its writer closes the socket.
Emptied == \A ws \in Sockets \ connections : writer[ws] # "close" => pending[ws] = {}

\* close() has unregistered everything, and awaits every writer there is.
Closing ==
  /\ shutdown # "no" => connections = {}
  /\ shutdown = "writers" => \A ws \in Sockets : Alive(ws) => ws \in gathered
  /\ shutdown \in {"sockets", "returned"} => \A ws \in Sockets : ~Alive(ws)
  /\ shutdown = "returned" => \A ws \in Sockets : closer[ws] # "running"

\* The inductive invariant.
Inv == Typed /\ Fresh /\ Emptied /\ Closing /\ OrphansSleep /\ NoLostWakeup

-----------------------------------------------------------------------------
\* The manager starts with nobody connected.
LEMMA InitInv == Init => Inv
BY DEF Init, Inv, Typed, Points, Fresh, Emptied, Closing, OrphansSleep, NoLostWakeup, Alive, Nothing

\* disconnect() cancels the writers of what it drops, and empties the queues.
LEMMA Dropped ==
  ASSUME Typed, NEW dropped \in SUBSET connections, NEW q, Disconnect(dropped, q)
  PROVE  /\ connections' = connections \ dropped
         /\ pending' = [ws \in Sockets |-> pending'[ws]]
         /\ \A ws \in Sockets : pending'[ws] = IF ws \in dropped THEN {} ELSE q[ws]
         /\ \A ws \in Sockets : ws \in cancelled' <=> ws \in cancelled \/ (ws \in dropped /\ Alive(ws))
BY DEF Typed, Disconnect, Cleared, WithCancelled

\* A broadcast or a reply keeps the invariant: who takes the message has its `ready` set,
\* who cannot take it is dropped, and everybody else is left alone.
LEMMA OfferInv ==
  ASSUME Inv, NEW to \in SUBSET connections, to # {}, NEW kind, Offer(to, kind)
  PROVE  Inv'
<1> DEFINE msg   == [kind |-> kind, n |-> count + 1]
           rest  == [ws \in Sockets |-> IF ws \in to THEN Coalesced(pending[ws], kind) ELSE pending[ws]]
           slow  == {ws \in to : Full(rest[ws])}
           taken == to \ slow
           q     == [ws \in Sockets |-> IF ws \in taken THEN rest[ws] \cup {msg} ELSE rest[ws]]
<1>1. /\ Disconnect(slow, q) /\ ready' = ready \cup taken
      /\ closer' = [ws \in Sockets |-> IF ws \in slow THEN "running" ELSE closer[ws]]
      /\ UNCHANGED <<writer, sending, peer, shutdown, gathered>>
  BY DEF Offer, shutdownVars
<1>2. \A ws \in Sockets \ to : q[ws] = pending[ws]
  OBVIOUS
<1> HIDE DEF q, taken
<1>3. slow \in SUBSET connections /\ taken \subseteq connections /\ taken = to \ slow
  BY DEF taken
<1> HIDE DEF slow
<1>4. /\ connections' = connections \ slow
      /\ pending' = [ws \in Sockets |-> pending'[ws]]
      /\ \A ws \in Sockets : pending'[ws] = IF ws \in slow THEN {} ELSE q[ws]
      /\ \A ws \in Sockets : ws \in cancelled' <=> ws \in cancelled \/ (ws \in slow /\ Alive(ws))
  BY <1>1, <1>3, Dropped DEF Inv
<1>5. shutdown = "no"
  BY DEF Inv, Closing
<1>6. Typed' /\ Closing'
  BY <1>1, <1>3, <1>4, <1>5 DEF Inv, Typed, Closing
<1>7. Fresh' /\ Emptied'
  BY <1>1, <1>2, <1>3, <1>4 DEF Inv, Typed, Fresh, Emptied
<1>8. OrphansSleep'
  BY <1>1, <1>2, <1>3, <1>4 DEF Inv, Typed, OrphansSleep, Alive, Points
<1>9. NoLostWakeup'
  BY <1>1, <1>2, <1>3, <1>4 DEF Inv, Typed, NoLostWakeup
<1> QED
  BY <1>6, <1>7, <1>8, <1>9 DEF Inv

\* A writer that goes for its next message, registered or not: without a message it waits
\* and `ready` is clear, with one it sends, and only the queue's first message is gone.
LEMMA TakesNext ==
  ASSUME Inv, NEW ws \in Sockets, Alive(ws), writer[ws] # "close", ws \in connections \/ pending[ws] = {},
         TakeNext(ws, pending[ws]), cancelled' = cancelled \ {ws}, UNCHANGED <<connections, closer, peer, shutdownVars>>
  PROVE  Inv'
<1>1. /\ \A d \in Sockets : d # ws => writer'[d] = writer[d] /\ pending'[d] = pending[d] /\ (d \in ready' <=> d \in ready)
      /\ writer' \in [Sockets -> Points] /\ writer'[ws] \in {"wait", "send"} /\ ready' \subseteq Sockets
      /\ pending' = [d \in Sockets |-> pending'[d]] /\ sending' = [d \in Sockets |-> sending'[d]]
  BY DEF TakeNext, Inv, Typed, Points
<1>2. CASE pending[ws] = {}
  <2>1. writer'[ws] = "wait" /\ ready' = ready \ {ws} /\ pending' = pending
    BY <1>2 DEF TakeNext, Inv, Typed
  <2>2. Typed' /\ Fresh' /\ Emptied'
    BY <1>1, <2>1 DEF Inv, Typed, Fresh, Emptied, Alive, shutdownVars
  <2>3. Closing' /\ OrphansSleep' /\ NoLostWakeup'
    BY <1>1, <1>2, <2>1 DEF Inv, Typed, Closing, OrphansSleep, NoLostWakeup, Alive, shutdownVars
  <2> QED
    BY <2>2, <2>3 DEF Inv
<1>3. CASE pending[ws] # {}
  <2>1. writer'[ws] = "send" /\ ready' = ready /\ ws \in connections
    BY <1>3 DEF TakeNext, Inv, Typed
  <2>2. Typed' /\ Fresh' /\ Emptied'
    BY <1>1, <2>1 DEF Inv, Typed, Fresh, Emptied, Alive, shutdownVars
  <2>3. Closing' /\ OrphansSleep'
    BY <1>1, <2>1 DEF Inv, Closing, OrphansSleep, Alive, shutdownVars
  <2>4. NoLostWakeup'
    BY <1>1, <1>3, <2>1 DEF Inv, Typed, NoLostWakeup
  <2> QED
    BY <2>2, <2>3, <2>4 DEF Inv
<1> QED
  BY <1>2, <1>3

\* Every step keeps the invariant.
LEMMA NextInv == Inv /\ [Next]_vars => Inv'
<1> SUFFICES ASSUME Inv, [Next]_vars PROVE Inv'
  OBVIOUS
<1> USE DEF Inv, Typed, Points, Fresh, Emptied, Closing, OrphansSleep, NoLostWakeup, Alive, Registered,
            shutdownVars, taskVars
<1>1. CASE UNCHANGED vars
  BY <1>1 DEF vars
<1>2. ASSUME NEW ws \in Sockets, Connect(ws) PROVE Inv'
  BY <1>2 DEF Connect
<1>3. ASSUME NEW ws \in Sockets, Accepted(ws) PROVE Inv'
  BY <1>3 DEF Accepted
<1>4. ASSUME NEW ws \in Sockets, Refused(ws) PROVE Inv'
  BY <1>4 DEF Refused
<1>5. ASSUME NEW ws \in Sockets, SendText(ws) PROVE Inv'
  <2>1. {ws} \in SUBSET connections /\ {ws} # {} /\ Offer({ws}, "change")
    BY <1>5 DEF SendText
  <2> QED
    BY <2>1, OfferInv
<1>6. ASSUME NEW ws \in Sockets, PeerLeaves(ws) PROVE Inv'
  <2>1. /\ {ws} \in SUBSET connections /\ Disconnect({ws}, pending) /\ peer' = [peer EXCEPT ![ws] = "gone"]
        /\ UNCHANGED <<ready, writer, sending, closer, shutdown, gathered>>
    BY <1>6 DEF PeerLeaves
  <2>2. /\ connections' = connections \ {ws}
        /\ pending' = [d \in Sockets |-> pending'[d]]
        /\ \A d \in Sockets : pending'[d] = IF d \in {ws} THEN {} ELSE pending[d]
        /\ \A d \in Sockets : d \in cancelled' <=> d \in cancelled \/ (d \in {ws} /\ Alive(d))
    BY <2>1, Dropped
  <2> QED
    BY <2>1, <2>2
<1>7. ASSUME NEW ws \in Sockets, Wake(ws) PROVE Inv'
  <2>1. writer[ws] = "wait" /\ ws \notin cancelled /\ ws \in ready /\ TakeNext(ws, pending[ws])
        /\ UNCHANGED <<connections, cancelled, peer, closer, shutdownVars>>
    BY <1>7 DEF Wake, Resumes
  <2>2. cancelled' = cancelled \ {ws} /\ (ws \in connections \/ pending[ws] = {})
    BY <2>1
  <2>3. Inv /\ Alive(ws) /\ writer[ws] # "close"
    BY <2>1
  <2> QED
    BY <2>1, <2>2, <2>3, TakesNext
<1>8. ASSUME NEW ws \in Sockets, Sent(ws) PROVE Inv'
  BY <1>8 DEF Sent
<1>9. ASSUME NEW ws \in Sockets, GoesOn(ws) PROVE Inv'
  BY <1>9, TakesNext DEF GoesOn, Left
<1>10. ASSUME NEW ws \in Sockets, SendFails(ws) PROVE Inv'
  BY <1>10 DEF SendFails, Resumes
<1>11. ASSUME NEW ws \in Sockets, WriterCloses(ws) PROVE Inv'
  BY <1>11 DEF WriterCloses, Resumes
<1>12. ASSUME NEW ws \in Sockets, WriterCancelled(ws) PROVE Inv'
  BY <1>12 DEF WriterCancelled, AfterCancellation
<1>13. ASSUME NEW ws \in Sockets, SlowClosed(ws) PROVE Inv'
  BY <1>13 DEF SlowClosed
<1>14. ASSUME NEW kind \in Kinds, Broadcast(kind) PROVE Inv'
  BY <1>14, OfferInv DEF Broadcast
<1>15. CASE CloseBegins
  BY <1>15 DEF CloseBegins, Writers
<1>16. CASE CloseStep
  BY <1>16 DEF CloseStep, WritersGone, SocketClosed, CloseReturns
<1> QED
  BY <1>1, <1>2, <1>3, <1>4, <1>5, <1>6, <1>7, <1>8, <1>9, <1>10, <1>11, <1>12, <1>13, <1>14, <1>15, <1>16
     DEF Next, Drain

-----------------------------------------------------------------------------
\* The invariant holds throughout.
LEMMA Inductive == Spec => []Inv
BY InitInv, NextInv, PTL DEF Spec

\* A message never waits for a writer that sleeps, whatever the interleaving of
\* broadcasts, replies, sends, drops and shutdown.
THEOREM NoMessageIsForgotten == Spec => []NoLostWakeup
<1>1. Inv => NoLostWakeup
  BY DEF Inv
<1> QED
  BY <1>1, Inductive, PTL

\* A writer that outlives its connection sees its cancellation, or sleeps for good.
THEOREM WritersOfTheGoneSleep == Spec => []OrphansSleep
<1>1. Inv => OrphansSleep
  BY DEF Inv
<1> QED
  BY <1>1, Inductive, PTL

\* When close() has returned nothing of the manager is left.
THEOREM CloseLeavesNothing == Spec => []ClosedMeansQuiet
<1>1. Inv => ClosedMeansQuiet
  BY DEF Inv, Closing, Emptied, ClosedMeansQuiet, Alive
<1> QED
  BY <1>1, Inductive, PTL

\* A client that has been dropped is sent nothing more, even by a writer that swallowed
\* its cancellation: by then its queue is empty.
THEOREM NothingAfterTheDrop == Spec => DroppedGetNothing
<1>1. Inv /\ [Next]_vars =>
        [\A ws \in Sockets : ws \notin connections /\ sending'[ws] # sending[ws] => sending'[ws] = Nothing]_vars
  <2> SUFFICES ASSUME Inv, Next, NEW ws \in Sockets, ws \notin connections, sending'[ws] # sending[ws]
               PROVE  sending'[ws] = Nothing
    OBVIOUS
  <2>1. PICK d \in Sockets : Wake(d) \/ Sent(d) \/ GoesOn(d) \/ SendFails(d) \/ WriterCancelled(d)
    BY DEF Next, Connect, Accepted, Refused, SendText, Broadcast, Offer, PeerLeaves, Drain, WriterCloses,
           SlowClosed, CloseBegins, CloseStep, WritersGone, SocketClosed, CloseReturns, taskVars
  <2>2. sending = [x \in Sockets |-> sending[x]] /\ writer[ws] \in Points
    BY DEF Inv, Typed
  <2>3. CASE Wake(d)
    <3>1. d # ws
      BY <2>3, <2>2 DEF Wake, Resumes, Inv, OrphansSleep, Alive
    <3> QED
      BY <3>1, <2>2, <2>3 DEF Wake, TakeNext
  <2>4. CASE Sent(d) \/ SendFails(d) \/ WriterCancelled(d)
    BY <2>2, <2>4 DEF Sent, SendFails, WriterCancelled
  <2>5. CASE GoesOn(d)
    <3>1. d = ws => pending[d] = {}
      BY <2>5 DEF GoesOn, Inv, Emptied
    <3> QED
      BY <3>1, <2>2, <2>5 DEF GoesOn, TakeNext, Left
  <2> QED
    BY <2>1, <2>3, <2>4, <2>5
<1> QED
  BY <1>1, Inductive, PTL DEF Spec, DroppedGetNothing

-----------------------------------------------------------------------------
(* What a client gets *)

\* Messages are numbered as they are offered; what a client got, is being sent or has
\* waiting was offered to it, and only a writer in send_text has a message in hand.
Numbered ==
  /\ count \in Nat
  /\ got = [ws \in Sockets |-> got[ws]] /\ offered = [ws \in Sockets |-> offered[ws]]
  /\ \A ws \in Sockets :
       /\ got[ws] \cup sending[ws] \cup pending[ws] \subseteq offered[ws]
       /\ \A m \in offered[ws] : m.n \in Nat /\ m.n <= count
       /\ \A m, o \in offered[ws] : m.n = o.n => m = o
       /\ writer[ws] # "send" => sending[ws] = {}
       /\ peer[ws] \in {"new", "accepting"} => offered[ws] = {}

\* The two halves of ChangesReachClients.
Complete == \A ws \in connections :
              Changes(got[ws] \cup sending[ws] \cup pending[ws]) = Changes(offered[ws])
Ordered(ws) == Older(got[ws], sending[ws]) /\ Older(got[ws] \cup sending[ws], pending[ws])
NewestWaits(ws) == \A m \in pending[ws] \ Changes(pending[ws]) :
                     \A o \in offered[ws] \ Changes(offered[ws]) : o.n <= m.n

\* What is kept of the messages of the clients.
Records == Numbered /\ Complete /\ \A ws \in Sockets : Ordered(ws) /\ NewestWaits(ws)

LEMMA RecordsSuffice == Records => ChangesReachClients
BY DEF Records, Complete, Ordered, NewestWaits, ChangesReachClients

LEMMA InitRecords == Init => Records
BY DEF Init, Records, Numbered, Complete, Ordered, NewestWaits, Older, Changes, Nothing

\* Nothing is lost to a client when its queue only shrinks and what it is being sent is
\* dropped, as long as it is connected no longer.
LEMMA LetGo ==
  ASSUME Inv, Records, Typed',
         \A ws \in Sockets : /\ pending'[ws] \subseteq pending[ws]
                             /\ sending'[ws] \subseteq sending[ws]
                             /\ writer'[ws] # "send" => sending'[ws] = {}
                             /\ peer'[ws] \in {"new", "accepting"} => offered[ws] = {}
                             /\ ws \in connections' =>
                                  \/ offered[ws] = {}
                                  \/ ws \in connections /\ pending'[ws] = pending[ws] /\ sending'[ws] = sending[ws],
         UNCHANGED <<count, got, offered>>
  PROVE  Records'
<1>1. Numbered'
  BY DEF Records, Numbered
<1>2. Complete'
  <2> SUFFICES ASSUME NEW ws \in connections'
               PROVE  Changes(got[ws] \cup sending'[ws] \cup pending'[ws]) = Changes(offered[ws])
    BY DEF Complete, Changes
  <2>1. ws \in Sockets
    BY DEF Typed
  <2>2. CASE offered[ws] = {}
    <3>1. got[ws] \cup sending'[ws] \cup pending'[ws] = {}
      BY <2>1, <2>2 DEF Records, Numbered
    <3> QED
      BY <3>1, <2>2
  <2>3. CASE ws \in connections /\ pending'[ws] = pending[ws] /\ sending'[ws] = sending[ws]
    BY <2>3 DEF Records, Complete
  <2> QED
    BY <2>1, <2>2, <2>3
<1>3. ASSUME NEW ws \in Sockets PROVE Ordered(ws)' /\ NewestWaits(ws)'
  <2>1. pending'[ws] \subseteq pending[ws] /\ sending'[ws] \subseteq sending[ws] /\ UNCHANGED <<got, offered>>
    BY <1>3
  <2>2. Ordered(ws) /\ NewestWaits(ws)
    BY <1>3 DEF Records
  <2> QED
    BY <2>1, <2>2 DEF Ordered, NewestWaits, Older, Changes
<1> QED
  BY <1>1, <1>2, <1>3 DEF Records

\* A message that is offered is newer than all others: the queues that take it keep their
\* state changes, and a client that cannot take it is connected no longer.
LEMMA OfferRecords ==
  ASSUME Inv, Records, Inv', NEW to \in SUBSET connections, NEW kind \in Kinds, Offer(to, kind)
  PROVE  Records'
<1> DEFINE msg   == [kind |-> kind, n |-> count + 1]
           rest  == [ws \in Sockets |-> IF ws \in to THEN Coalesced(pending[ws], kind) ELSE pending[ws]]
           slow  == {ws \in to : Full(rest[ws])}
           taken == to \ slow
           q     == [ws \in Sockets |-> IF ws \in taken THEN rest[ws] \cup {msg} ELSE rest[ws]]
<1>1. /\ Disconnect(slow, q) /\ count' = count + 1
      /\ offered' = [ws \in Sockets |-> IF ws \in taken THEN offered[ws] \cup {msg} ELSE offered[ws]]
      /\ UNCHANGED <<writer, sending, peer, got>>
  BY DEF Offer
<1>2. /\ connections' = connections \ slow
      /\ \A ws \in Sockets : pending'[ws] = IF ws \in slow THEN {} ELSE q[ws]
  <2> HIDE DEF q
  <2>1. slow \in SUBSET connections
    OBVIOUS
  <2> HIDE DEF slow
  <2> QED
    BY <1>1, <2>1, Dropped DEF Inv
<1>3. PICK m : m = msg
  OBVIOUS
<1>4. m.n = count + 1 /\ m.kind = kind /\ count \in Nat
  BY <1>3 DEF Records, Numbered
<1>5. ASSUME NEW ws \in Sockets
      PROVE  \/ ws \in slow /\ pending'[ws] = {} /\ offered'[ws] = offered[ws] /\ ws \notin connections'
             \/ ws \notin to /\ pending'[ws] = pending[ws] /\ offered'[ws] = offered[ws]
             \/ ws \in to /\ pending'[ws] = Coalesced(pending[ws], kind) \cup {m} /\ offered'[ws] = offered[ws] \cup {m}
  BY <1>1, <1>2, <1>3, <1>5
<1> HIDE DEF msg, rest, slow, taken, q
<1>6. ASSUME NEW ws \in Sockets
      PROVE  /\ got[ws] \cup sending[ws] \cup pending[ws] \subseteq offered[ws]
             /\ \A o \in offered[ws] : o.n \in Nat /\ o.n <= count
             /\ \A a, b \in offered[ws] : a.n = b.n => a = b
             /\ writer[ws] # "send" => sending[ws] = {}
             /\ peer[ws] \in {"new", "accepting"} => offered[ws] = {} /\ ws \notin to
             /\ got'[ws] = got[ws] /\ sending'[ws] = sending[ws] /\ writer'[ws] = writer[ws] /\ peer'[ws] = peer[ws]
             /\ Coalesced(pending[ws], kind) \subseteq pending[ws]
             /\ Ordered(ws) /\ NewestWaits(ws)
  BY <1>1, <1>6 DEF Records, Numbered, Inv, Fresh, Coalesced, Changes
<1>7. Numbered'
  <2>1. ASSUME NEW ws \in Sockets
        PROVE  /\ got'[ws] \cup sending'[ws] \cup pending'[ws] \subseteq offered'[ws]
               /\ \A o \in offered'[ws] : o.n \in Nat /\ o.n <= count'
               /\ \A a, b \in offered'[ws] : a.n = b.n => a = b
               /\ writer'[ws] # "send" => sending'[ws] = {}
               /\ peer'[ws] \in {"new", "accepting"} => offered'[ws] = {}
    <3>1. got'[ws] \cup sending'[ws] \cup pending'[ws] \subseteq offered'[ws]
      BY <1>5, <1>6, <2>1
    <3>2. \A o \in offered'[ws] : o.n \in Nat /\ o.n <= count'
      <4>1. count' = count + 1
        BY <1>1
      <4>2. \A o \in offered[ws] : o.n \in Nat /\ o.n <= count'
        BY <1>4, <1>6, <2>1, <4>1
      <4>3. m.n \in Nat /\ m.n <= count'
        BY <1>4, <4>1
      <4> QED
        BY <1>5, <2>1, <4>2, <4>3
    <3>3. \A a, b \in offered'[ws] : a.n = b.n => a = b
      BY <1>4, <1>5, <1>6, <2>1
    <3> QED
      BY <1>5, <1>6, <2>1, <3>1, <3>2, <3>3
  <2>2. count' \in Nat /\ got' = [ws \in Sockets |-> got'[ws]] /\ offered' = [ws \in Sockets |-> offered'[ws]]
    BY <1>1, <1>4 DEF Records, Numbered
  <2> QED
    BY <2>1, <2>2 DEF Numbered
<1>8. Complete'
  <2> SUFFICES ASSUME NEW ws \in connections'
               PROVE  Changes(got[ws] \cup sending[ws] \cup pending'[ws]) = Changes(offered'[ws])
    BY <1>1 DEF Complete, Changes
  <2>1. ws \in Sockets /\ ws \in connections
    BY <1>2 DEF Inv, Typed
  <2>2. Changes(got[ws] \cup sending[ws] \cup pending[ws]) = Changes(offered[ws])
    BY <2>1 DEF Records, Complete
  <2>3. CASE pending'[ws] = pending[ws] /\ offered'[ws] = offered[ws]
    BY <2>2, <2>3
  <2>4. CASE pending'[ws] = Coalesced(pending[ws], kind) \cup {m} /\ offered'[ws] = offered[ws] \cup {m}
    BY <2>2, <2>4 DEF Coalesced, Changes
  <2> QED
    BY <1>5, <2>1, <2>3, <2>4
<1>9. ASSUME NEW ws \in Sockets PROVE Ordered(ws)' /\ NewestWaits(ws)'
  <2>1. CASE pending'[ws] \subseteq pending[ws] /\ offered'[ws] = offered[ws]
    BY <1>6, <1>9, <2>1 DEF Ordered, NewestWaits, Older, Changes
  <2>2. CASE pending'[ws] = Coalesced(pending[ws], kind) \cup {m} /\ offered'[ws] = offered[ws] \cup {m}
    <3>1. Ordered(ws)'
      <4>1. Older(got[ws], sending[ws])
        BY <1>6, <1>9 DEF Ordered
      <4>2. \A a \in got[ws] \cup sending[ws] : \A b \in pending'[ws] : a.n < b.n
        <5> SUFFICES ASSUME NEW a \in got[ws] \cup sending[ws], NEW b \in pending'[ws] PROVE a.n < b.n
          OBVIOUS
        <5>1. CASE b = m
          BY <1>4, <1>6, <1>9, <5>1
        <5>2. CASE b \in pending[ws]
          BY <1>6, <1>9, <5>2 DEF Ordered, Older
        <5> QED
          BY <1>6, <1>9, <2>2, <5>1, <5>2
      <4> QED
        BY <1>6, <1>9, <4>1, <4>2 DEF Ordered, Older
    <3>2. NewestWaits(ws)'
      <4> SUFFICES ASSUME NEW a \in pending'[ws], a.kind = "progress", NEW o \in offered'[ws], o.kind = "progress"
                   PROVE  o.n <= a.n
        BY DEF NewestWaits, Changes
      <4>1. CASE kind = "progress"
        <5>1. a = m
          BY <1>6, <1>9, <2>2, <4>1 DEF Coalesced, Changes
        <5> QED
          BY <1>4, <1>6, <1>9, <2>2, <5>1
      <4>2. CASE kind # "progress"
        <5>1. a \in pending[ws] /\ o \in offered[ws]
          BY <1>4, <2>2, <4>2 DEF Coalesced
        <5> QED
          BY <1>6, <1>9, <5>1 DEF NewestWaits, Changes
      <4> QED
        BY <4>1, <4>2
    <3> QED
      BY <3>1, <3>2
  <2> QED
    BY <1>5, <1>9, <2>1, <2>2
<1> QED
  BY <1>7, <1>8, <1>9 DEF Records

\* The writer goes for the oldest message, which is newer than all it has sent.
LEMMA TakesOldest ==
  ASSUME Inv, Records, NEW ws \in Sockets, writer[ws] # "send", TakeNext(ws, pending[ws]),
         UNCHANGED <<connections, peer, count, got, offered>>
  PROVE  Records'
<1>1. /\ \A d \in Sockets \ {ws} : writer'[d] = writer[d] /\ sending'[d] = sending[d] /\ pending'[d] = pending[d]
      /\ sending[ws] = {}
      /\ \/ writer'[ws] = "wait" /\ sending'[ws] = {} /\ pending'[ws] = pending[ws]
         \/ /\ writer'[ws] = "send"
            /\ \E m \in pending[ws] : /\ \A o \in pending[ws] : m.n <= o.n
                                      /\ sending'[ws] = {m} /\ pending'[ws] = pending[ws] \ {m}
  BY DEF TakeNext, Inv, Typed, Records, Numbered, Nothing
<1>2. sending'[ws] \cup pending'[ws] = sending[ws] \cup pending[ws]
  BY <1>1
<1>3. Numbered'
  <2>1. ASSUME NEW d \in Sockets
        PROVE  /\ sending'[d] \cup pending'[d] = sending[d] \cup pending[d]
               /\ writer'[d] # "send" => sending'[d] = {}
    BY <1>1, <1>2, <2>1 DEF Records, Numbered
  <2> QED
    BY <2>1 DEF Records, Numbered
<1>4. Complete'
  <2>1. ASSUME NEW d \in connections
        PROVE  got[d] \cup sending'[d] \cup pending'[d] = got[d] \cup sending[d] \cup pending[d]
    BY <1>1, <1>2, <2>1 DEF Inv, Typed
  <2> QED
    BY <2>1 DEF Records, Complete, Changes
<1>5. ASSUME NEW d \in Sockets PROVE Ordered(d)' /\ NewestWaits(d)'
  <2>1. CASE d # ws
    BY <1>1, <1>5, <2>1 DEF Records, Ordered, NewestWaits, Older, Changes
  <2>2. CASE d = ws
    <3>1. NewestWaits(ws)'
      <4>1. pending'[ws] \subseteq pending[ws]
        BY <1>1
      <4> QED
        BY <4>1 DEF Records, NewestWaits, Changes
    <3>2. Ordered(ws)
      BY DEF Records
    <3>3. ASSUME writer'[ws] # "send" PROVE Ordered(ws)'
      BY <1>1, <3>2, <3>3 DEF Ordered, Older
    <3>4. ASSUME writer'[ws] = "send" PROVE Ordered(ws)'
      <4>1. PICK m \in pending[ws] : /\ \A o \in pending[ws] : m.n <= o.n
                                     /\ sending'[ws] = {m} /\ pending'[ws] = pending[ws] \ {m}
        BY <1>1, <3>4
      <4>2. \A o \in pending'[ws] : m.n < o.n
        BY <4>1 DEF Records, Numbered
      <4>3. \A o \in got[ws] : o.n < m.n
        BY <3>2, <4>1 DEF Ordered, Older
      <4> QED
        BY <3>2, <4>1, <4>2, <4>3 DEF Ordered, Older
    <3> QED
      BY <2>2, <3>1, <3>3, <3>4
  <2> QED
    BY <2>1, <2>2
<1> QED
  BY <1>3, <1>4, <1>5 DEF Records

\* What has been sent has been got, and nothing else changes.
LEMMA SentRecords ==
  ASSUME Inv, Records, NEW ws \in Sockets, Sent(ws)
  PROVE  Records'
<1>1. /\ UNCHANGED <<connections, pending, peer, count, offered>>
      /\ got' = [got EXCEPT ![ws] = got[ws] \cup sending[ws]]
      /\ \A d \in Sockets \ {ws} : writer'[d] = writer[d] /\ sending'[d] = sending[d] /\ got'[d] = got[d]
      /\ got'[ws] = got[ws] \cup sending[ws] /\ sending'[ws] = {}
  BY DEF Sent, Inv, Typed, Records, Numbered, Nothing
<1>2. ASSUME NEW d \in Sockets
      PROVE  /\ got'[d] \cup sending'[d] = got[d] \cup sending[d]
             /\ writer'[d] # "send" => sending'[d] = {}
  BY <1>1, <1>2 DEF Records, Numbered
<1>3. Numbered'
  BY <1>1, <1>2 DEF Records, Numbered
<1>4. Complete'
  BY <1>1, <1>2 DEF Records, Complete, Changes, Inv, Typed
<1>5. ASSUME NEW d \in Sockets PROVE Ordered(d)' /\ NewestWaits(d)'
  <2>1. Ordered(d) /\ NewestWaits(d)
    BY <1>5 DEF Records
  <2>2. Older(got'[d], sending'[d])
    BY <1>1, <1>5, <2>1 DEF Ordered, Older
  <2>3. Older(got'[d] \cup sending'[d], pending'[d])
    BY <1>1, <1>2, <1>5, <2>1 DEF Ordered
  <2>4. NewestWaits(d)'
    BY <1>1, <2>1 DEF NewestWaits, Changes
  <2> QED
    BY <2>2, <2>3, <2>4 DEF Ordered
<1> QED
  BY <1>3, <1>4, <1>5 DEF Records

\* Every step keeps what is recorded of the messages.
LEMMA NextRecords == Inv /\ Records /\ [Next]_vars => Records'
<1> SUFFICES ASSUME Inv, Records, [Next]_vars PROVE Records'
  OBVIOUS
<1>1. Inv' /\ Typed'
  BY NextInv DEF Inv
<1>2. ASSUME NEW ws \in Sockets
      PROVE  /\ writer[ws] # "send" => sending[ws] = {}
             /\ peer[ws] \in {"new", "accepting"} => offered[ws] = {}
             /\ ws \in connections => peer[ws] \notin {"new", "accepting"}
  BY <1>2 DEF Records, Numbered, Inv, Fresh
<1> USE DEF taskVars, shutdownVars
<1>3. ASSUME UNCHANGED vars PROVE Records'
  BY <1>1, <1>2, <1>3, LetGo DEF vars
<1>4. ASSUME NEW ws \in Sockets, Connect(ws) \/ Accepted(ws) \/ Refused(ws) \/ PeerLeaves(ws) PROVE Records'
  <2>1. UNCHANGED <<count, got, offered, sending>>
    BY <1>4 DEF Connect, Accepted, Refused, PeerLeaves
  <2>2. ASSUME NEW d \in Sockets
        PROVE  /\ pending'[d] \subseteq pending[d]
               /\ writer'[d] # "send" => sending[d] = {}
               /\ peer'[d] \in {"new", "accepting"} => offered[d] = {}
               /\ d \in connections' => offered[d] = {} \/ (d \in connections /\ pending'[d] = pending[d])
    BY <1>2, <1>4, <2>2 DEF Connect, Accepted, Refused, PeerLeaves, Disconnect, Cleared, Inv, Typed, Fresh, Registered
  <2> QED
    BY <1>1, <2>1, <2>2, LetGo
<1>5. ASSUME NEW ws \in Sockets, SendFails(ws) \/ WriterCloses(ws) \/ WriterCancelled(ws) \/ SlowClosed(ws) PROVE Records'
  <2>1. UNCHANGED <<count, got, offered>>
    BY <1>5 DEF SendFails, WriterCloses, WriterCancelled, SlowClosed
  <2>2. ASSUME NEW d \in Sockets
        PROVE  /\ pending'[d] \subseteq pending[d] /\ sending'[d] \subseteq sending[d]
               /\ writer'[d] # "send" => sending'[d] = {}
               /\ peer'[d] \in {"new", "accepting"} => offered[d] = {}
               /\ d \in connections' => d \in connections /\ pending'[d] = pending[d] /\ sending'[d] = sending[d]
    BY <1>2, <1>5, <2>2 DEF SendFails, WriterCloses, WriterCancelled, SlowClosed, Resumes, AfterCancellation, Inv, Typed,
       NoLostWakeup, Nothing, Registered
  <2> QED
    BY <1>1, <2>1, <2>2, LetGo
<1>6. ASSUME CloseBegins \/ CloseStep PROVE Records'
  <2>1. UNCHANGED <<count, got, offered, sending, writer>> /\ connections' = {}
    BY <1>6 DEF CloseBegins, CloseStep, WritersGone, SocketClosed, CloseReturns, Inv, Closing
  <2>2. ASSUME NEW d \in Sockets
        PROVE  /\ pending'[d] \subseteq pending[d]
               /\ peer'[d] \in {"new", "accepting"} => offered[d] = {}
    BY <1>2, <1>6, <2>2 DEF CloseBegins, CloseStep, WritersGone, SocketClosed, CloseReturns, Inv, Typed
  <2> QED
    BY <1>1, <1>2, <2>1, <2>2, LetGo
<1>7. ASSUME NEW ws \in Sockets, SendText(ws) PROVE Records'
  <2>1. {ws} \in SUBSET connections /\ Offer({ws}, "change") /\ "change" \in Kinds
    BY <1>7 DEF SendText, Registered, Kinds
  <2> QED
    BY <1>1, <2>1, OfferRecords
<1>8. ASSUME NEW kind \in Kinds, Broadcast(kind) PROVE Records'
  BY <1>1, <1>8, OfferRecords DEF Broadcast
<1>9. ASSUME NEW ws \in Sockets, Wake(ws) \/ GoesOn(ws) PROVE Records'
  <2>1. writer[ws] # "send" /\ TakeNext(ws, pending[ws]) /\ UNCHANGED <<connections, peer, count, got, offered>>
    BY <1>9 DEF Wake, GoesOn, Resumes, Left
  <2> QED
    BY <2>1, TakesOldest
<1>10. ASSUME NEW ws \in Sockets, Sent(ws) PROVE Records'
  BY <1>10, SentRecords
<1> QED
  BY <1>3, <1>4, <1>5, <1>6, <1>7, <1>8, <1>9, <1>10 DEF Next, Drain

\* Every client that stays connected gets every state change and reply, each once and in
\* the order in which they were offered, and the position that waits is the newest one,
\* whatever is coalesced, dropped, cancelled or swallowed.
THEOREM ChangesArrive == Spec => []ChangesReachClients
<1>1. Spec => []Records
  BY InitRecords, NextRecords, Inductive, PTL DEF Spec
<1> QED
  BY <1>1, RecordsSuffice, PTL

-----------------------------------------------------------------------------
(* Types, and the bound on the queues *)

Bounded ==
  /\ cancelled \subseteq Sockets /\ closing \subseteq Sockets /\ gathered \subseteq Sockets
  /\ closer \in [Sockets -> {"none", "running", "done"}]
  /\ peer \in [Sockets -> {"new", "accepting", "open", "gone"}]
  /\ count <= MaxMessages /\ offered \in [Sockets -> SUBSET Message]
  /\ \A ws \in Sockets :
       /\ IsFiniteSet(pending[ws]) /\ Cardinality(pending[ws]) <= MaxPending
       /\ sending[ws] = {} \/ \E m \in offered[ws] : sending[ws] = {m}
       /\ writer[ws] = "send" => sending[ws] # {}

LEMMA BoundedSuffices == Inv /\ Records /\ Bounded => TypeOK
<1> SUFFICES ASSUME Inv, Records, Bounded PROVE TypeOK
  OBVIOUS
<1>1. \A f \in {pending, sending, offered, got} : f \in [Sockets -> SUBSET Message]
  BY DEF Inv, Typed, Records, Numbered, Bounded
<1>2. ASSUME NEW ws \in Sockets PROVE Cardinality(sending[ws]) <= 1
  <2>1. CASE sending[ws] = {}
    BY <2>1, FS_EmptySet
  <2>2. ASSUME NEW m, sending[ws] = {m} PROVE Cardinality(sending[ws]) <= 1
    <3>1. Cardinality({m}) = 1
      BY FS_Singleton, Zenon
    <3> QED
      BY <2>2, <3>1
  <2> QED
    BY <1>2, <2>1, <2>2 DEF Bounded
<1>3. ASSUME NEW ws \in Sockets PROVE (writer[ws] = "send") <=> (sending[ws] # Nothing)
  BY <1>3 DEF Records, Numbered, Bounded, Nothing
<1>4. count \in 0..MaxMessages
  BY BoundAssumption DEF Records, Numbered, Bounded
<1> QED
  BY <1>1, <1>2, <1>3, <1>4 DEF TypeOK, Inv, Typed, Points, Bounded

LEMMA InitBounded == Init => Bounded
<1>1. IsFiniteSet({}) /\ Cardinality({}) = 0
  BY FS_EmptySet
<1> QED
  BY <1>1, BoundAssumption DEF Init, Bounded, Nothing

\* A set that shrinks stays within the bound.
LEMMA Shrinks ==
  ASSUME NEW s, NEW t, IsFiniteSet(s), Cardinality(s) <= MaxPending, t \subseteq s
  PROVE  IsFiniteSet(t) /\ Cardinality(t) <= MaxPending
<1>1. IsFiniteSet(t) /\ Cardinality(t) <= Cardinality(s)
  BY FS_Subset
<1>2. Cardinality(s) \in Nat /\ Cardinality(t) \in Nat
  BY <1>1, FS_CardinalityType
<1> QED
  BY <1>1, <1>2, BoundAssumption

\* Nothing is appended to a full queue: its client is dropped instead.
LEMMA OfferBounded ==
  ASSUME Inv, Records, Bounded, NEW to \in SUBSET connections, NEW kind \in Kinds, Offer(to, kind)
  PROVE  Bounded'
<1> DEFINE msg   == [kind |-> kind, n |-> count + 1]
           rest  == [ws \in Sockets |-> IF ws \in to THEN Coalesced(pending[ws], kind) ELSE pending[ws]]
           slow  == {ws \in to : Full(rest[ws])}
           taken == to \ slow
           q     == [ws \in Sockets |-> IF ws \in taken THEN rest[ws] \cup {msg} ELSE rest[ws]]
<1>1. /\ Disconnect(slow, q) /\ count < MaxMessages /\ count' = count + 1
      /\ closer' = [ws \in Sockets |-> IF ws \in slow THEN "running" ELSE closer[ws]]
      /\ offered' = [ws \in Sockets |-> IF ws \in taken THEN offered[ws] \cup {msg} ELSE offered[ws]]
      /\ UNCHANGED <<writer, sending, peer, closing, gathered>>
  BY DEF Offer, shutdownVars
<1>2. /\ \A ws \in Sockets : pending'[ws] = IF ws \in slow THEN {} ELSE q[ws]
      /\ \A ws \in cancelled' : ws \in Sockets
  <2> HIDE DEF q
  <2>1. slow \in SUBSET connections
    OBVIOUS
  <2> HIDE DEF slow
  <2>2. cancelled' \subseteq Sockets
    BY <1>1, <2>1 DEF Disconnect, WithCancelled, Bounded, Inv, Typed
  <2> QED
    BY <1>1, <2>1, <2>2, Dropped DEF Inv
<1>3. msg \in Message
  BY <1>1, BoundAssumption DEF Message, Records, Numbered
<1>4. ASSUME NEW ws \in Sockets PROVE IsFiniteSet(pending'[ws]) /\ Cardinality(pending'[ws]) <= MaxPending
  <2>1. IsFiniteSet(pending[ws]) /\ Cardinality(pending[ws]) <= MaxPending
    BY <1>4 DEF Bounded
  <2>2. rest[ws] \subseteq pending[ws]
    BY <1>4 DEF Coalesced, Changes
  <2>3. PICK r : r = rest[ws]
    OBVIOUS
  <2>4. IsFiniteSet(r) /\ Cardinality(r) <= MaxPending
    BY <2>1, <2>2, <2>3, Shrinks
  <2>5. CASE ws \in slow
    <3>1. pending'[ws] = {}
      BY <1>2, <1>4, <2>5
    <3> QED
      BY <2>4, <3>1, Shrinks
  <2>6. CASE ws \in taken
    <3>1. ~ (Cardinality(r) >= MaxPending)
      BY <2>3, <2>6 DEF Full
    <3>2. PICK m : m = msg
      OBVIOUS
    <3>3. pending'[ws] = r \cup {m}
      BY <1>2, <1>4, <2>3, <2>6, <3>2
    <3>4. CASE m \in r
      <4>1. pending'[ws] = r
        BY <3>3, <3>4
      <4> QED
        BY <2>4, <4>1
    <3>5. CASE m \notin r
      <4>1. IsFiniteSet(r \cup {m}) /\ Cardinality(r \cup {m}) = Cardinality(r) + 1
        BY <2>4, <3>5, FS_AddElement
      <4>2. Cardinality(r) \in Nat
        BY <2>4, FS_CardinalityType
      <4> QED
        BY <3>1, <3>3, <4>1, <4>2, BoundAssumption
    <3> QED
      BY <3>4, <3>5
  <2>7. CASE ws \notin to
    <3>1. pending'[ws] = r
      BY <1>2, <1>4, <2>3, <2>7
    <3> QED
      BY <2>4, <3>1
  <2> QED
    BY <2>5, <2>6, <2>7
<1> HIDE DEF msg, slow, taken, q, rest
<1>5. count' <= MaxMessages /\ offered' \in [Sockets -> SUBSET Message]
  <2>1. count' <= MaxMessages
    BY <1>1, BoundAssumption DEF Records, Numbered
  <2>2. \A ws \in Sockets : offered[ws] \cup {msg} \in SUBSET Message /\ offered[ws] \in SUBSET Message
    BY <1>3 DEF Bounded
  <2> QED
    BY <1>1, <2>1, <2>2
<1>6. closer' \in [Sockets -> {"none", "running", "done"}]
  BY <1>1 DEF Bounded
<1>7. ASSUME NEW ws \in Sockets
      PROVE  /\ sending'[ws] = {} \/ \E m \in offered'[ws] : sending'[ws] = {m}
             /\ writer'[ws] = "send" => sending'[ws] # {}
  BY <1>1, <1>7 DEF Bounded
<1> QED
  BY <1>1, <1>2, <1>4, <1>5, <1>6, <1>7 DEF Bounded

\* Every other step takes from the queues or leaves them alone.
LEMMA NextBounded == Inv /\ Records /\ Bounded /\ [Next]_vars => Bounded'
<1> SUFFICES ASSUME Inv, Records, Bounded, [Next]_vars PROVE Bounded'
  OBVIOUS
<1> USE DEF taskVars, shutdownVars
<1> DEFINE Kept(ws) == /\ pending'[ws] \subseteq pending[ws]
                       /\ \/ sending'[ws] = {} /\ writer'[ws] # "send"
                          \/ \E m \in offered[ws] : sending'[ws] = {m}
                          \/ sending'[ws] = sending[ws] /\ writer'[ws] = writer[ws]
           Rest == /\ cancelled' \subseteq Sockets /\ closing' \subseteq Sockets /\ gathered' \subseteq Sockets
                   /\ closer' \in [Sockets -> {"none", "running", "done"}]
                   /\ peer' \in [Sockets -> {"new", "accepting", "open", "gone"}]
                   /\ UNCHANGED <<count, offered>>
<1>1. ASSUME \A ws \in Sockets : Kept(ws), Rest PROVE Bounded'
  <2>1. ASSUME NEW ws \in Sockets
        PROVE  /\ IsFiniteSet(pending'[ws]) /\ Cardinality(pending'[ws]) <= MaxPending
               /\ sending'[ws] = {} \/ \E m \in offered[ws] : sending'[ws] = {m}
               /\ writer'[ws] = "send" => sending'[ws] # {}
    <3>1. Kept(ws)
      BY <1>1, <2>1
    <3>2. IsFiniteSet(pending'[ws]) /\ Cardinality(pending'[ws]) <= MaxPending
      BY <2>1, <3>1, Shrinks DEF Bounded
    <3> QED
      BY <2>1, <3>1, <3>2 DEF Bounded
  <2> QED
    BY <1>1, <2>1 DEF Bounded
<1>2. ASSUME UNCHANGED vars PROVE Bounded'
  BY <1>2 DEF vars, Bounded
<1>3. ASSUME NEW ws \in Sockets, SendText(ws) PROVE Bounded'
  <2>1. {ws} \in SUBSET connections /\ Offer({ws}, "change") /\ "change" \in Kinds
    BY <1>3 DEF SendText, Registered, Kinds
  <2> QED
    BY <2>1, OfferBounded
<1>4. ASSUME NEW kind \in Kinds, Broadcast(kind) PROVE Bounded'
  BY <1>4, OfferBounded DEF Broadcast
<1>5. ASSUME NEW ws \in Sockets, Wake(ws) \/ GoesOn(ws) PROVE Bounded'
  <2>1. TakeNext(ws, pending[ws]) /\ UNCHANGED <<peer, closer, closing, gathered, count, offered>>
        /\ cancelled' \subseteq cancelled
    BY <1>5 DEF Wake, GoesOn, Left
  <2>2. ASSUME NEW d \in Sockets PROVE Kept(d)
    <3>1. CASE d # ws
      BY <2>1, <2>2, <3>1 DEF TakeNext, Inv, Typed
    <3>2. ASSUME pending[ws] = {} PROVE Kept(ws)
      BY <2>1, <3>2 DEF TakeNext, Inv, Typed, Nothing
    <3>3. ASSUME pending[ws] # {} PROVE Kept(ws)
      <4>1. PICK m \in pending[ws] : sending' = [sending EXCEPT ![ws] = {m}]
                                     /\ pending' = [pending EXCEPT ![ws] = pending[ws] \ {m}]
        BY <2>1, <3>3 DEF TakeNext
      <4>2. m \in offered[ws]
        BY <4>1 DEF Records, Numbered
      <4> QED
        BY <4>1, <4>2 DEF Inv, Typed
    <3> QED
      BY <3>1, <3>2, <3>3
  <2>3. Rest
    BY <2>1 DEF Bounded
  <2> HIDE DEF Kept, Rest
  <2> QED
    BY <1>1, <2>2, <2>3
<1>6. ASSUME NEW ws \in Sockets, \/ Connect(ws) \/ Accepted(ws) \/ Refused(ws) \/ PeerLeaves(ws) \/ Sent(ws)
                                 \/ SendFails(ws) \/ WriterCloses(ws) \/ WriterCancelled(ws) \/ SlowClosed(ws)
      PROVE Bounded'
  <2>1. Rest
    <3>1. UNCHANGED <<count, offered, closing, gathered>>
      BY <1>6 DEF Connect, Accepted, Refused, PeerLeaves, Sent, SendFails, WriterCloses, WriterCancelled, SlowClosed
    <3>2. cancelled' \subseteq Sockets
      BY <1>6 DEF Connect, Accepted, Refused, PeerLeaves, Sent, SendFails, WriterCloses, WriterCancelled, SlowClosed,
         Disconnect, WithCancelled, Bounded
    <3>3. closer' \in [Sockets -> {"none", "running", "done"}]
      BY <1>6 DEF Connect, Accepted, Refused, PeerLeaves, Sent, SendFails, WriterCloses, WriterCancelled, SlowClosed, Bounded
    <3>4. peer' \in [Sockets -> {"new", "accepting", "open", "gone"}]
      BY <1>6 DEF Connect, Accepted, Refused, PeerLeaves, Sent, SendFails, WriterCloses, WriterCancelled, SlowClosed, Bounded
    <3> QED
      BY <3>1, <3>2, <3>3, <3>4 DEF Bounded
  <2>2. ASSUME NEW d \in Sockets PROVE Kept(d)
    <3>1. writer[d] # "send" => sending[d] = {}
      BY <2>2 DEF Records, Numbered
    <3>2. CASE Connect(ws) \/ Refused(ws) \/ SlowClosed(ws)
      BY <3>2 DEF Connect, Refused, SlowClosed
    <3>3. CASE PeerLeaves(ws)
      BY <2>2, <3>3 DEF PeerLeaves, Disconnect, Cleared
    <3>4. CASE Accepted(ws)
      BY <2>2, <3>1, <3>4 DEF Accepted, Inv, Typed, Fresh
    <3>5. CASE Sent(ws)
      BY <2>2, <3>5 DEF Sent, Inv, Typed, Nothing
    <3>6. CASE SendFails(ws)
      BY <2>2, <3>6 DEF SendFails, Inv, Typed, Nothing
    <3>7. CASE WriterCloses(ws)
      BY <2>2, <3>1, <3>7 DEF WriterCloses, Resumes, Inv, Typed
    <3>8. CASE WriterCancelled(ws)
      BY <2>2, <3>8 DEF WriterCancelled, AfterCancellation, Inv, Typed, Nothing
    <3> QED
      BY <1>6, <3>2, <3>3, <3>4, <3>5, <3>6, <3>7, <3>8
  <2> HIDE DEF Kept, Rest
  <2> QED
    BY <1>1, <2>1, <2>2
<1>7. ASSUME CloseBegins \/ CloseStep PROVE Bounded'
  <2>1. Rest
    BY <1>7 DEF CloseBegins, CloseStep, WritersGone, SocketClosed, CloseReturns, Writers, Bounded, Inv, Typed
  <2>2. ASSUME NEW d \in Sockets PROVE Kept(d)
    BY <1>7, <2>2 DEF CloseBegins, CloseStep, WritersGone, SocketClosed, CloseReturns
  <2> HIDE DEF Kept, Rest
  <2> QED
    BY <1>1, <2>1, <2>2
<1> QED
  BY <1>2, <1>3, <1>4, <1>5, <1>6, <1>7 DEF Next, Drain

\* Every variable has its type, and no client ever has more than max_pending messages
\* waiting, however slow it is.
THEOREM QueuesAreBounded == Spec => []TypeOK
<1>1. Spec => [](Inv /\ Records /\ Bounded)
  BY InitRecords, NextRecords, InitBounded, NextBounded, Inductive, PTL DEF Spec
<1> QED
  BY <1>1, BoundedSuffices, PTL
=============================================================================
