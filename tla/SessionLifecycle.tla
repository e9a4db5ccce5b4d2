-------------------------- MODULE SessionLifecycle --------------------------
(***************************************************************************)
(* The life of one login session: its user_activity row, the HTTP requests *)
(* that run in its name or end it, the idle sweepers, and the WebSockets   *)
(* that its browser tabs open on the workers of the cluster.               *)
(*                                                                         *)
(* A step is what runs without an await in between, or one statement on the*)
(* row.  Sessions do not touch each other's rows or sockets (but for the   *)
(* limit on a user's connections, which is left out), so one session is    *)
(* modelled.  A request or socket that ended is reused for the next one.   *)
(***************************************************************************)
EXTENDS Naturals, FiniteSets

CONSTANTS
  Worker,    \* processes of the cluster
  Request,   \* HTTP requests of the session in progress at once
  Socket,    \* WebSockets that exist at once
  NoSocket,  \* "no socket"
  MaxBus     \* bound: closeActivity events waiting for one worker

ASSUME SessionAssumption ==
  /\ Worker # {}
  /\ NoSocket \notin Socket
  /\ MaxBus \in Nat

VARIABLES
  row,      \* the session's row in user_activity
  req,      \* the session's requests
  closing,  \* workers on which an operation that ended the session has
            \* still to close its sockets
  sock,     \* the sockets
  clients,  \* per worker, connectedClients.get(session)
  entries,  \* per worker, socketEntriesByActivity.get(session)
  bus,      \* per worker, events that were published and not yet received
  swept     \* history: the workers that closed the session's sockets

sockets == <<sock, clients, entries, bus, swept>>
vars == <<row, req, closing, sock, clients, entries, bus, swept>>

(* What a request does is chosen when it reaches its handler.              *)
NoRequest == [pc |-> "idle", late |-> FALSE]
NoConnection == [st |-> "none", w |-> CHOOSE w \in Worker : TRUE, ok |-> FALSE, slipped |-> FALSE]

(* A logged-in session.                                                    *)
Init ==
  /\ row = [here |-> TRUE, active |-> TRUE, ended |-> FALSE, fresh |-> TRUE]
  /\ req = [r \in Request |-> NoRequest]
  /\ closing = {}
  /\ sock = [s \in Socket |-> NoConnection]
  /\ clients = [w \in Worker |-> NoSocket]
  /\ entries = [w \in Worker |-> NoSocket]
  /\ bus = [w \in Worker |-> 0]
  /\ swept = {}

Dead == row.ended \/ ~row.here
Live == row.here /\ row.active /\ ~row.ended

EndRow    == row' = IF row.here THEN [row EXCEPT !.active = FALSE, !.ended = TRUE] ELSE row
Ends(w)   == EndRow /\ closing' = closing \cup {w}
Refreshed == IF row.here THEN [row EXCEPT !.fresh = TRUE] ELSE row
-----------------------------------------------------------------------------
(* The sockets of one worker.  Drop removes a socket from both maps; the   *)
(* map of clients publishes the removal of an entry it had.                *)
Without(m, w, s) == [m EXCEPT ![w] = IF @ = s THEN NoSocket ELSE @]
Publish(w) == bus' = [v \in Worker |-> IF v # w /\ bus[v] < MaxBus THEN bus[v] + 1 ELSE bus[v]]
PublishIf(held, w) == IF held THEN Publish(w) ELSE UNCHANGED bus

\* Variant for the checks: a socket's removal is by session only.
DropAny(w, s) ==
  /\ clients' = [clients EXCEPT ![w] = NoSocket]
  /\ entries' = [entries EXCEPT ![w] = NoSocket]
Drop(w, s) ==
  /\ clients' = Without(clients, w, s)
  /\ entries' = Without(entries, w, s)

Closing(f, s) == IF s # NoSocket /\ f[s].st = "open" THEN [f EXCEPT ![s].st = "closing"] ELSE f

(* closeSocket of the activity service and of the sweeper, on worker w: the*)
(* client is closed and leaves the map of clients, its entry stays until   *)
(* its close event.  The handshakes that have read the row slip through.   *)
CloseSockets(w) ==
  /\ w \in closing
  /\ closing' = closing \ {w}
  /\ sock' = [s \in Socket |->
                IF s = clients[w] /\ sock[s].st = "open" THEN [sock[s] EXCEPT !.st = "closing"]
                ELSE IF sock[s].w = w /\ sock[s].st = "read" THEN [sock[s] EXCEPT !.slipped = TRUE]
                ELSE sock[s]]
  /\ clients' = [clients EXCEPT ![w] = NoSocket]
  /\ PublishIf(clients[w] # NoSocket, w)
  /\ swept' = swept \cup {w}
  /\ UNCHANGED <<row, req, entries>>
-----------------------------------------------------------------------------
(* Requests.  authenticateToken reads the row, and records the activity    *)
(* unless it did so a moment ago.                                          *)
Goto(r, pc) == req' = [req EXCEPT ![r].pc = pc]
Leave(r)    == req' = [req EXCEPT ![r] = NoRequest]

Arrive(r) ==
  /\ req[r].pc = "idle"
  /\ req' = [req EXCEPT ![r] = [pc |-> "guard", late |-> Dead]]
  /\ UNCHANGED <<row, closing, sockets>>

\* Variant for the checks: only isActive is looked at.
AdmittedIfActive == row.here /\ row.active
Admitted == Live

GuardRead(r) ==
  /\ req[r].pc = "guard"
  /\ IF Admitted THEN Goto(r, "touch") ELSE Leave(r)
  /\ UNCHANGED <<row, closing, sockets>>

Touch(r) ==
  /\ req[r].pc = "touch"
  /\ \/ Goto(r, "handle") /\ UNCHANGED row
     \/ Live /\ Goto(r, "handle") /\ row' = Refreshed
     \/ ~Live /\ Leave(r) /\ UNCHANGED row
  /\ UNCHANGED <<closing, sockets>>

Heartbeat(r) ==
  /\ req[r].pc = "handle"
  /\ row' = IF row.here THEN [row EXCEPT !.active = TRUE, !.fresh = TRUE] ELSE row
  /\ Leave(r)
  /\ UNCHANGED <<closing, sockets>>

Logout(r) ==
  /\ req[r].pc = "handle"
  /\ row.here /\ row.active
  /\ Goto(r, "flush")
  /\ UNCHANGED <<row, closing, sockets>>

Flush(r) ==
  /\ req[r].pc = "flush"
  /\ row' = Refreshed
  /\ Goto(r, "end")
  /\ UNCHANGED <<closing, sockets>>

EndByLogout(r) ==
  /\ req[r].pc = "end"
  /\ \E w \in Worker : Ends(w)
  /\ Leave(r)
  /\ UNCHANGED sockets

(* The request does anything else, or one of its statements fails.         *)
OtherOrFails(r) ==
  /\ req[r].pc # "idle"
  /\ Leave(r)
  /\ UNCHANGED <<row, closing, sockets>>

(* The guard finds the account blocked, or a ban of the account had read   *)
(* the session as inactive: the session ends, its sockets are left alone.  *)
EndOnly ==
  /\ row.here /\ row.active
  /\ EndRow
  /\ UNCHANGED <<req, closing, sockets>>
-----------------------------------------------------------------------------
(* Administrators kick or ban the session, or delete its row.              *)
Kick(w) ==
  /\ row.here
  /\ Ends(w)
  /\ UNCHANGED <<req, sockets>>

DeleteRow(w) ==
  /\ row.here
  /\ row' = [row EXCEPT !.here = FALSE, !.active = FALSE]
  /\ closing' = closing \cup {w}
  /\ UNCHANGED <<req, sockets>>

(* The idle sweeper of a worker: one transaction, then the local sockets.  *)
Age ==
  /\ row.here /\ row.fresh
  /\ row' = [row EXCEPT !.fresh = FALSE]
  /\ UNCHANGED <<req, closing, sockets>>

\* Variant for the checks: a row that has a logout time is passed over.
IdleUnended == row.here /\ row.active /\ ~row.fresh /\ ~row.ended
Idle == row.here /\ row.active /\ ~row.fresh

Sweep(w) ==
  /\ Idle
  /\ Ends(w)
  /\ UNCHANGED <<req, sockets>>
-----------------------------------------------------------------------------
(* WebSockets: the handshake reads the row and registers the socket after  *)
(* the await, in the place of the one that was registered.                 *)
SockTo(s, st) == [sock EXCEPT ![s].st = st]

Connect(s, w) ==
  /\ sock[s].st = "none"
  /\ sock' = [sock EXCEPT ![s] = [NoConnection EXCEPT !.st = "reading", !.w = w]]
  /\ UNCHANGED <<row, req, closing, clients, entries, bus, swept>>

\* Variant for the checks: only isActive is looked at.
SessionOkIfActive == row.here /\ row.active
SessionOk == Live

ReadRow(s) ==
  /\ sock[s].st = "reading"
  /\ sock' = [sock EXCEPT ![s].st = "read", ![s].ok = SessionOk]
  /\ UNCHANGED <<row, req, closing, clients, entries, bus, swept>>

(* The client leaves before the handshake ends, the row cannot be read, or *)
(* the handshake is refused.                                               *)
Abort(s) ==
  /\ sock[s].st \in {"reading", "read"}
  /\ sock' = [sock EXCEPT ![s] = NoConnection]
  /\ UNCHANGED <<row, req, closing, clients, entries, bus, swept>>

Register(s) ==
  /\ sock[s].st = "read" /\ sock[s].ok
  /\ LET w == sock[s].w
         existing == IF entries[w] # NoSocket THEN entries[w] ELSE clients[w]
     IN  /\ sock' = Closing([sock EXCEPT ![s].st = "open", ![s].ok = FALSE], existing)
         /\ clients' = [clients EXCEPT ![w] = s]
         /\ entries' = [entries EXCEPT ![w] = s]
  /\ UNCHANGED <<row, req, closing, bus, swept>>

(* The peer closes, or the connection breaks.                              *)
PeerCloses(s) ==
  /\ sock[s].st = "open"
  /\ sock' = SockTo(s, "closing")
  /\ UNCHANGED <<row, req, closing, clients, entries, bus, swept>>

(* handleSocketClose; a socket whose handlers were detached is in no map.  *)
CloseEvent(s) ==
  /\ sock[s].st = "closing"
  /\ sock' = [sock EXCEPT ![s] = NoConnection]
  /\ Drop(sock[s].w, s)
  /\ PublishIf(clients[sock[s].w] # clients'[sock[s].w], sock[s].w)
  /\ UNCHANGED <<row, req, closing, swept>>

(* The heartbeat timer drops sockets that are no longer open, and closes   *)
(* one that left the map of clients or did not answer the last ping; a     *)
(* socket that breaks the limits on messages is dropped and closed alike.  *)
Ping(w) ==
  /\ entries[w] # NoSocket
  /\ Drop(w, entries[w])
  /\ sock' = Closing(sock, entries[w])
  /\ PublishIf(clients[w] # clients'[w], w)
  /\ UNCHANGED <<row, req, closing, swept>>

(* A closeActivity event of another worker; nothing is published for it.   *)
Receive(w) ==
  /\ bus[w] > 0
  /\ bus' = [bus EXCEPT ![w] = @ - 1]
  /\ LET target == IF clients[w] # NoSocket THEN clients[w] ELSE entries[w]
     IN  /\ sock' = Closing(sock, target)
         /\ Drop(w, target)
  /\ UNCHANGED <<row, req, closing, swept>>

(* The bus delivers at most once.                                          *)
Lose(w) ==
  /\ bus[w] > 0
  /\ bus' = [bus EXCEPT ![w] = @ - 1]
  /\ UNCHANGED <<row, req, closing, sock, clients, entries, swept>>

(* A worker dies with some of the requests, and is started again.          *)
Crash(w) ==
  /\ \E R \in SUBSET Request : req' = [r \in Request |-> IF r \in R THEN NoRequest ELSE req[r]]
  /\ closing' = closing \ {w}
  /\ sock' = [s \in Socket |-> IF sock[s].w = w THEN NoConnection ELSE sock[s]]
  /\ clients' = [clients EXCEPT ![w] = NoSocket]
  /\ entries' = [entries EXCEPT ![w] = NoSocket]
  /\ bus' = [bus EXCEPT ![w] = 0]
  /\ UNCHANGED <<row, swept>>
-----------------------------------------------------------------------------
RequestStep(r) ==
  \/ GuardRead(r) \/ Touch(r) \/ Heartbeat(r)
  \/ Logout(r) \/ Flush(r) \/ EndByLogout(r) \/ OtherOrFails(r)

SocketStep(s) == ReadRow(s) \/ Abort(s) \/ Register(s) \/ PeerCloses(s) \/ CloseEvent(s)

Next ==
  \/ \E r \in Request :
       Arrive(r) \/ RequestStep(r)
  \/ \E s \in Socket : SocketStep(s) \/ \E w \in Worker : Connect(s, w)
  \/ \E w \in Worker : \/ Kick(w) \/ DeleteRow(w) \/ Sweep(w) \/ CloseSockets(w)
                      \/ Ping(w) \/ Receive(w) \/ Lose(w) \/ Crash(w)
  \/ EndOnly \/ Age

Spec == Init /\ [][Next]_vars

(* Requests make progress, each sweeper runs every minute, and the row gets*)
(* old once nothing that may touch it is in progress.                      *)
Quiet == \A r \in Request : req[r].pc \notin {"touch", "handle", "flush"}
Fairness ==
  /\ \A r \in Request : WF_vars(RequestStep(r))
  /\ \A w \in Worker : WF_vars(Sweep(w))
  /\ WF_vars(Quiet /\ Age)

FairSpec == Spec /\ Fairness
-----------------------------------------------------------------------------
(* Every variable keeps its type; a session that is gone is not active.    *)
TypeOK ==
  /\ row \in [here : BOOLEAN, active : BOOLEAN, ended : BOOLEAN, fresh : BOOLEAN]
  /\ ~row.here => ~row.active
  /\ req \in [Request -> [pc : {"idle", "guard", "touch", "handle", "flush", "end"}, late : BOOLEAN]]
  /\ closing \subseteq Worker
  /\ sock \in [Socket -> [st : {"none", "reading", "read", "open", "closing"}, w : Worker, ok : BOOLEAN, slipped : BOOLEAN]]
  /\ clients \in [Worker -> Socket \cup {NoSocket}]
  /\ entries \in [Worker -> Socket \cup {NoSocket}]
  /\ bus \in [Worker -> 0..MaxBus]
  /\ swept \subseteq Worker

(* A request that arrives after its session ended or was deleted never     *)
(* reaches a handler, although a heartbeat that was admitted before the end*)
(* may have set isActive again.                                            *)
AdmittedBeforeEnd ==
  \A r \in Request : req[r].pc \in {"handle", "flush", "end"} => ~req[r].late

(* An open socket is the one that its worker finds for the session, in both*)
(* of its maps: replacements, late close events, closes from the bus and   *)
(* the heartbeat timer leave no socket that a logout would miss.           *)
NoOrphanSocket ==
  \A s \in Socket : sock[s].st = "open" => clients[sock[s].w] = s /\ entries[sock[s].w] = s

(* Of the sockets on a worker that closed the session's sockets when it    *)
(* ended, only one whose handshake had read the row before, and registered *)
(* after, may be open.                                                     *)
OnlySlippedSurvive ==
  \A s \in Socket : Dead /\ sock[s].st = "open" /\ sock[s].w \in swept => sock[s].slipped

(* A session that ended is for good inactive after a while: heartbeats that*)
(* set isActive on its row are finitely many, and the sweep undoes them.   *)
EndedSettles == row.ended ~> [](~row.active)
=============================================================================
