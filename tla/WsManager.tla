------------------------------ MODULE WsManager ------------------------------
(***************************************************************************)
(* backend/ws_manager.py: the playback notifications of every WebSocket    *)
(* client go through a bounded queue of its own, drained by a writer task  *)
(* of its own, so that a slow client holds up nobody else.                 *)
(*                                                                         *)
(* Everything runs on one event loop; a step is the code between two       *)
(* awaits.  The awaits are accept, ready.wait, send_text, ws.close and, in *)
(* close(), the two gathers.  A task that was cancelled resumes with       *)
(* CancelledError at the await where it is, with one exception: sends are  *)
(* awaited through asyncio.wait_for, and on the Python the backend runs on *)
(* (3.11, Dockerfile.backend) wait_for returns normally, and swallows the  *)
(* cancellation, when what it waits for is already done.                   *)
(*                                                                         *)
(* A WebSocket object stands for one connection of one client: it is       *)
(* accepted once.  What a message says is left out; its number tells it    *)
(* from the others.  A queue is the set of the messages that wait in it:   *)
(* numbers grow, so that append adds the greatest and popleft takes the    *)
(* least.  The manager is not used again after close().                    *)
(***************************************************************************)
EXTENDS Naturals, FiniteSets

CONSTANTS
  Sockets,    \* WebSocket objects
  MaxPending, \* max_pending
  MaxMessages \* bound on messages offered

ASSUME BoundAssumption == MaxPending \in Nat \ {0} /\ MaxMessages \in Nat

VARIABLES
  connections, \* the keys of _connections
  pending,     \* connection.pending: the messages that wait
  ready,       \* connection.ready
  writer,      \* where connection.writer is
  cancelled,   \* writers with a cancellation they have not seen yet
  sending,     \* the message a writer is in send_text with: one or none
  peer,        \* the socket: not accepted yet, open, or closed by either side
  closer,      \* the task of _drop_slow_client that closes the socket
  shutdown,    \* close(): not called, waiting for writers, closing sockets, returned
  gathered,    \* the writers that close() awaits
  closing,     \* the sockets that close() found open
  count,       \* messages offered so far
  offered,     \* history: what was offered to each client
  got          \* history: what each client was sent

shutdownVars == <<shutdown, gathered, closing>>
taskVars == <<writer, cancelled, sending, closer>>
vars == <<connections, pending, ready, taskVars, peer, shutdownVars, count, offered, got>>

\* Positions can be replaced; state changes and replies (the pong) cannot.
Kinds   == {"progress", "change"}
Nothing == {}

Registered(ws) == ws \in connections
\* The writer awaits something, or is about to run for the first time.
Alive(ws) == writer[ws] \in {"wait", "send", "sent", "close"}

-----------------------------------------------------------------------------
(* The manager's operations, called from handlers and broadcasts *)

\* connect(), up to accept...
Connect(ws) ==
  /\ peer[ws] = "new" /\ shutdown = "no"
  /\ peer' = [peer EXCEPT ![ws] = "accepting"]
  /\ UNCHANGED <<connections, pending, ready, taskVars, shutdownVars, count, offered, got>>

\* ...and after it: the connection is registered and its writer starts.
Accepted(ws) ==
  /\ peer[ws] = "accepting" /\ shutdown = "no"
  /\ peer' = [peer EXCEPT ![ws] = "open"]
  /\ connections' = connections \cup {ws}
  /\ writer' = [writer EXCEPT ![ws] = "wait"]
  /\ UNCHANGED <<pending, ready, cancelled, sending, closer, shutdownVars, count, offered, got>>

\* accept() fails or takes too long.
Refused(ws) ==
  /\ peer[ws] = "accepting"
  /\ peer' = [peer EXCEPT ![ws] = "gone"]
  /\ UNCHANGED <<connections, pending, ready, taskVars, shutdownVars, count, offered, got>>

\* Mutant: the writer of a dropped connection is left to itself.
NobodyCancelled(dropped) == cancelled

WithCancelled(dropped) == cancelled \cup {ws \in dropped : Alive(ws)}

\* Mutant: the queue of a dropped connection is left as it is.
NotCleared(dropped, q) == q

Cleared(dropped, q) == [ws \in Sockets |-> IF ws \in dropped THEN {} ELSE q[ws]]

\* disconnect() of every connection in `dropped`, on top of the queues q.
Disconnect(dropped, q) ==
  /\ connections' = connections \ dropped
  /\ pending' = Cleared(dropped, q)
  /\ cancelled' = WithCancelled(dropped)

\* Mutant: a position replaces whatever waits.
EmptiedBy(q, kind) == IF kind = "progress" THEN {} ELSE q

Changes(q) == {m \in q : m.kind # "progress"}
Full(q) == Cardinality(q) >= MaxPending
\* A new position makes the ones that wait obsolete.
Coalesced(q, kind) == IF kind = "progress" THEN Changes(q) ELSE q

\* _enqueue for every connection in `to`; a client whose queue is full is dropped, and
\* a task closes its socket.
Offer(to, kind) ==
  LET msg   == [kind |-> kind, n |-> count + 1]
      rest  == [ws \in Sockets |-> IF ws \in to THEN Coalesced(pending[ws], kind) ELSE pending[ws]]
      slow  == {ws \in to : Full(rest[ws])}
      taken == to \ slow
  IN /\ count < MaxMessages /\ count' = count + 1
     /\ Disconnect(slow, [ws \in Sockets |-> IF ws \in taken THEN rest[ws] \cup {msg} ELSE rest[ws]])
     /\ ready' = ready \cup taken
     /\ closer' = [ws \in Sockets |-> IF ws \in slow THEN "running" ELSE closer[ws]]
     /\ offered' = [ws \in Sockets |-> IF ws \in taken THEN offered[ws] \cup {msg} ELSE offered[ws]]
     /\ UNCHANGED <<writer, sending, peer, shutdownVars, got>>

Broadcast(kind) == shutdown = "no" /\ connections # {} /\ Offer(connections, kind)
\* The pong of ws_status.
SendText(ws)    == Registered(ws) /\ Offer({ws}, "change")

\* The peer goes away and the handler of /ws/status disconnects it; without a
\* registered connection disconnect() does nothing.
PeerLeaves(ws) ==
  /\ Registered(ws)
  /\ peer' = [peer EXCEPT ![ws] = "gone"]
  /\ Disconnect({ws}, pending)
  /\ UNCHANGED <<ready, writer, sending, closer, shutdownVars, count, offered, got>>

-----------------------------------------------------------------------------
(* The writer task, _drain *)

Resumes(ws, point) == writer[ws] = point /\ ws \notin cancelled

\* What the writer does next: send the oldest message, or clear `ready` and wait.
TakeNext(ws, q) ==
  IF q = {}
  THEN /\ writer' = [writer EXCEPT ![ws] = "wait"] /\ ready' = ready \ {ws}
       /\ sending' = [sending EXCEPT ![ws] = Nothing] /\ UNCHANGED pending
  ELSE /\ writer' = [writer EXCEPT ![ws] = "send"] /\ UNCHANGED ready
       /\ \E m \in q : /\ \A o \in q : m.n <= o.n
                      /\ sending' = [sending EXCEPT ![ws] = {m}]
                      /\ pending' = [pending EXCEPT ![ws] = q \ {m}]

Wake(ws) ==
  /\ Resumes(ws, "wait") /\ ws \in ready
  /\ TakeNext(ws, pending[ws])
  /\ UNCHANGED <<connections, cancelled, peer, closer, shutdownVars, count, offered, got>>

\* Mutant: the writer sends what it found and waits again, whatever came meanwhile.
NoneLeft(ws) == {}

Left(ws) == pending[ws]

\* send_text is done; the writer has not resumed yet.
Sent(ws) ==
  /\ writer[ws] = "send"
  /\ got' = [got EXCEPT ![ws] = @ \cup sending[ws]]
  /\ sending' = [sending EXCEPT ![ws] = Nothing]
  /\ writer' = [writer EXCEPT ![ws] = "sent"]
  /\ UNCHANGED <<connections, pending, ready, cancelled, peer, closer, shutdownVars, count, offered>>

\* wait_for returns, to a writer that was cancelled meanwhile as well.
GoesOn(ws) ==
  /\ writer[ws] = "sent"
  /\ TakeNext(ws, Left(ws))
  /\ cancelled' = cancelled \ {ws}
  /\ UNCHANGED <<connections, peer, closer, shutdownVars, count, offered, got>>

\* send_text fails or takes too long.  The connection is dropped and its socket closed,
\* unless that has happened already.
SendFails(ws) ==
  /\ Resumes(ws, "send")
  /\ connections' = connections \ {ws}
  /\ sending' = [sending EXCEPT ![ws] = Nothing]
  /\ IF Registered(ws)
     THEN writer' = [writer EXCEPT ![ws] = "close"] /\ UNCHANGED pending
     ELSE writer' = [writer EXCEPT ![ws] = "done"] /\ pending' = [pending EXCEPT ![ws] = {}]
  /\ UNCHANGED <<ready, cancelled, peer, closer, shutdownVars, count, offered, got>>

\* _close_socket has closed the socket or given up, and `finally` clears the queue.
WriterCloses(ws) ==
  /\ Resumes(ws, "close")
  /\ peer' = [peer EXCEPT ![ws] = "gone"]
  /\ writer' = [writer EXCEPT ![ws] = "done"]
  /\ pending' = [pending EXCEPT ![ws] = {}]
  /\ UNCHANGED <<connections, ready, cancelled, sending, closer, shutdownVars, count, offered, got>>

\* Mutant: the writer swallows its cancellation.
CarriesOn == "wait"

AfterCancellation == "done"

\* CancelledError: straight to `finally`, from wherever the writer is.
WriterCancelled(ws) ==
  /\ Alive(ws) /\ ws \in cancelled /\ writer[ws] # "sent"
  /\ writer' = [writer EXCEPT ![ws] = AfterCancellation]
  /\ cancelled' = cancelled \ {ws}
  /\ sending' = [sending EXCEPT ![ws] = Nothing]
  /\ pending' = [pending EXCEPT ![ws] = {}]
  /\ connections' = connections \ {ws}
  /\ UNCHANGED <<ready, peer, closer, shutdownVars, count, offered, got>>

\* The task of _drop_slow_client
SlowClosed(ws) ==
  /\ closer[ws] = "running"
  /\ closer' = [closer EXCEPT ![ws] = "done"]
  /\ peer' = [peer EXCEPT ![ws] = "gone"]
  /\ UNCHANGED <<connections, pending, ready, writer, cancelled, sending, shutdownVars, count, offered, got>>

-----------------------------------------------------------------------------
(* close() *)

\* Mutant: only the writers of registered connections are cancelled.
OnlyRegistered == connections

Writers == {ws \in Sockets : Alive(ws)}

\* The server stops accepting and lets the handlers finish before it shuts down.
CloseBegins ==
  /\ shutdown = "no" /\ \A ws \in Sockets : peer[ws] # "accepting"
  /\ closing' = connections
  /\ connections' = {}
  /\ pending' = [ws \in Sockets |-> IF Registered(ws) THEN {} ELSE pending[ws]]
  /\ gathered' = Writers /\ cancelled' = cancelled \cup Writers
  /\ shutdown' = "writers"
  /\ UNCHANGED <<ready, writer, sending, peer, closer, count, offered, got>>

WritersGone ==
  /\ shutdown = "writers" /\ \A ws \in gathered : ~Alive(ws)
  /\ shutdown' = "sockets"
  /\ UNCHANGED <<connections, pending, ready, taskVars, peer, gathered, closing, count, offered, got>>

\* _close_socket of one of the sockets that were open
SocketClosed(ws) ==
  /\ shutdown = "sockets" /\ ws \in closing
  /\ closing' = closing \ {ws}
  /\ peer' = [peer EXCEPT ![ws] = "gone"]
  /\ UNCHANGED <<connections, pending, ready, taskVars, shutdown, gathered, count, offered, got>>

CloseReturns ==
  /\ shutdown = "sockets" /\ closing = {} /\ \A ws \in Sockets : closer[ws] # "running"
  /\ shutdown' = "returned"
  /\ UNCHANGED <<connections, pending, ready, taskVars, peer, gathered, closing, count, offered, got>>

-----------------------------------------------------------------------------
Init ==
  /\ connections = {} /\ ready = {} /\ cancelled = {} /\ closing = {} /\ gathered = {}
  /\ pending = [ws \in Sockets |-> {}]
  /\ writer = [ws \in Sockets |-> "none"]
  /\ sending = [ws \in Sockets |-> Nothing]
  /\ peer = [ws \in Sockets |-> "new"]
  /\ closer = [ws \in Sockets |-> "none"]
  /\ shutdown = "no" /\ count = 0
  /\ offered = [ws \in Sockets |-> {}] /\ got = [ws \in Sockets |-> {}]

Drain(ws) == Wake(ws) \/ Sent(ws) \/ GoesOn(ws) \/ SendFails(ws) \/ WriterCloses(ws) \/ WriterCancelled(ws)
CloseStep == WritersGone \/ (\E ws \in Sockets : SocketClosed(ws)) \/ CloseReturns

Next ==
  \/ \E ws \in Sockets : \/ Connect(ws) \/ Accepted(ws) \/ Refused(ws)
                         \/ SendText(ws) \/ PeerLeaves(ws)
                         \/ Drain(ws) \/ SlowClosed(ws)
  \/ \E kind \in Kinds : Broadcast(kind)
  \/ CloseBegins \/ CloseStep
Spec == Init /\ [][Next]_vars

\* The event loop runs every ready task, and every send and close has a timeout.
Fairness == /\ \A ws \in Sockets : WF_vars(Drain(ws)) /\ WF_vars(SlowClosed(ws))
            /\ WF_vars(CloseStep)
FairSpec == Spec /\ Fairness

-----------------------------------------------------------------------------
(* Properties *)

Message == [kind : Kinds, n : 1..MaxMessages]

\* Every variable has its type.
TypeOK ==
  /\ connections \subseteq Sockets /\ ready \subseteq Sockets /\ cancelled \subseteq Sockets
  /\ closing \subseteq Sockets /\ gathered \subseteq Sockets
  /\ writer \in [Sockets -> {"none", "wait", "send", "sent", "close", "done"}]
  /\ peer \in [Sockets -> {"new", "accepting", "open", "gone"}]
  /\ closer \in [Sockets -> {"none", "running", "done"}]
  /\ shutdown \in {"no", "writers", "sockets", "returned"}
  /\ count \in 0..MaxMessages
  /\ \A f \in {pending, sending, offered, got} : f \in [Sockets -> SUBSET Message]
  /\ \A ws \in Sockets : /\ Cardinality(pending[ws]) <= MaxPending
                         /\ Cardinality(sending[ws]) <= 1
                         /\ (writer[ws] = "send") <=> (sending[ws] # Nothing)

\* Every message of one set is older than every message of the other.
Older(s, t) == \A m \in s : \A o \in t : m.n < o.n

\* "Obsolete positions are replaceable; state changes and replies are not"
\* (ws_manager.py:63): a client that is still connected has got, is being sent or has
\* waiting for it every state change and reply since it connected.  What a client is
\* sent is newer than all it got, and older than all that waits: nothing comes out of
\* order or twice.  The position that waits is the newest one that was offered.
ChangesReachClients ==
  /\ \A ws \in connections :
       Changes(got[ws] \cup sending[ws] \cup pending[ws]) = Changes(offered[ws])
  /\ \A ws \in Sockets :
       /\ Older(got[ws], sending[ws]) /\ Older(got[ws] \cup sending[ws], pending[ws])
       /\ \A m \in pending[ws] \ Changes(pending[ws]) :
            \A o \in offered[ws] \ Changes(offered[ws]) : o.n <= m.n

\* A message never waits for a writer that sleeps, and a connection has a writer that
\* nobody has cancelled.
NoLostWakeup ==
  \A ws \in connections :
    /\ ws \notin cancelled /\ writer[ws] \in {"wait", "send", "sent"}
    /\ pending[ws] # {} => ws \in ready

\* A writer whose connection is gone will see its cancellation.  The one that swallowed it
\* sleeps with nothing to send and nothing that could wake it.
OrphansSleep ==
  \A ws \in Sockets : Alive(ws) /\ writer[ws] # "close" /\ ws \notin connections \cup cancelled
                        => writer[ws] = "wait" /\ ws \notin ready /\ pending[ws] = {}

\* A client that has been disconnected or dropped is not sent another message, even by a
\* writer that swallows its cancellation.
DroppedGetNothing ==
  [][\A ws \in Sockets : ws \notin connections /\ sending'[ws] # sending[ws] => sending'[ws] = Nothing]_vars

\* When close() has returned no task of the manager is left and nothing is registered.
ClosedMeansQuiet ==
  shutdown = "returned" =>
    /\ connections = {}
    /\ \A ws \in Sockets : ~Alive(ws) /\ closer[ws] # "running" /\ pending[ws] = {}

\* The writers get on: whatever waits for a client is sent, or the client is dropped,
\* however slow it is; and close() returns, however many closes are stuck, when no
\* writer it awaits is in a send.
WritersGetOn ==
  /\ \A ws \in Sockets : pending[ws] # {} ~> pending[ws] = {}
  /\ /\ shutdown = "writers"
     /\ \A ws \in gathered : Alive(ws) => ws \in cancelled /\ writer[ws] \in {"wait", "close"}
     ~> shutdown = "returned"
=============================================================================
