----------------------- MODULE SessionLifecycleProofs ------------------------
(***************************************************************************)
(* Proofs about a session, for any numbers of workers, requests and        *)
(* sockets: its types, that a request that comes after the end reaches no  *)
(* handler, and what is open on a worker.                                  *)
(***************************************************************************)
EXTENDS SessionLifecycle, TLAPS

Step == {"idle", "guard", "touch", "handle", "flush", "end"}
Stage == {"none", "reading", "read", "open", "closing"}
ReqType  == [Request -> [pc : Step, late : BOOLEAN]]
SockType == [Socket -> [st : Stage, w : Worker, ok : BOOLEAN, slipped : BOOLEAN]]

(* A request that came after the end is still before its guard's read.     *)
LateInv == \A r \in Request : req[r].late => Dead /\ req[r].pc = "guard"

(* Sockets are only closed on behalf of a session that has ended.          *)
EndInv == closing # {} \/ swept # {} => Dead

(* On a worker that closed the session's sockets, a socket that is open, or*)
(* whose handshake will be accepted, had read the row before.              *)
SlipInv ==
  \A s \in Socket :
    /\ sock[s].w \in swept
    /\ sock[s].st = "open" \/ (sock[s].st = "read" /\ sock[s].ok)
    => sock[s].slipped

IInv == TypeOK /\ LateInv /\ EndInv /\ SlipInv /\ NoOrphanSocket
-----------------------------------------------------------------------------
LEMMA NoConnectionTyped ==
  /\ NoConnection \in [st : Stage, w : Worker, ok : BOOLEAN, slipped : BOOLEAN]
  /\ NoConnection.st = "none"
<1>1. (CHOOSE w \in Worker : TRUE) \in Worker
  BY SessionAssumption
<1> QED BY <1>1 DEF NoConnection, Stage

LEMMA InitIInv == Init => IInv
BY NoConnectionTyped, SessionAssumption
DEF Init, IInv, TypeOK, LateInv, EndInv, SlipInv, NoOrphanSocket, NoRequest, Dead, Stage

(* The end of a session is final, and its row stays well typed.            *)
RowKept ==
  /\ row' \in [here : BOOLEAN, active : BOOLEAN, ended : BOOLEAN, fresh : BOOLEAN]
  /\ ~row'.here => ~row'.active
  /\ Dead => Dead'

LEMMA RowSteps ==
  ASSUME TypeOK,
         \/ EndRow
         \/ row' = Refreshed
         \/ row' = (IF row.here THEN [row EXCEPT !.active = TRUE, !.fresh = TRUE] ELSE row)
         \/ row' = [row EXCEPT !.fresh = FALSE]
         \/ row' = [row EXCEPT !.here = FALSE, !.active = FALSE]
         \/ UNCHANGED row
  PROVE  RowKept
BY DEF TypeOK, EndRow, Refreshed, RowKept, Dead

(* A step of a request, or of what ends the session, leaves the sockets.   *)
LEMMA RequestKeeps ==
  ASSUME IInv, UNCHANGED sockets, RowKept,
         req' \in ReqType,
         LateInv',
         closing' \subseteq Worker, closing' = closing \/ Dead'
  PROVE  IInv'
BY DEF IInv, TypeOK, LateInv, EndInv, SlipInv, NoOrphanSocket, sockets, RowKept, Dead, ReqType, Step

(* A request goes on only if it came before the end, or it leaves.         *)
LEMMA GotoOrLeave ==
  ASSUME IInv, NEW r \in Request, RowKept,
         \/ ~req[r].late /\ \E pc \in Step : Goto(r, pc)
         \/ Leave(r)
  PROVE  req' \in ReqType /\ LateInv'
<1> USE DEF IInv, TypeOK, LateInv, ReqType, Step, RowKept
<1>1. CASE Leave(r)
  BY <1>1 DEF Leave, NoRequest
<1>2. ASSUME ~req[r].late, NEW pc \in Step, Goto(r, pc)
      PROVE  req' \in ReqType /\ LateInv'
  BY <1>2 DEF Goto
<1> QED BY <1>1, <1>2

LEMMA RequestSteps ==
  ASSUME IInv, NEW r \in Request, Arrive(r) \/ RequestStep(r)
  PROVE  IInv'
<1>1. CASE Arrive(r)
  <2>1. RowKept
    BY <1>1, RowSteps DEF Arrive, IInv
  <2>2. req' \in ReqType /\ LateInv'
    BY <1>1 DEF Arrive, Dead, IInv, TypeOK, LateInv, ReqType, Step
  <2> QED BY <1>1, <2>1, <2>2, RequestKeeps DEF Arrive, IInv, TypeOK
<1>2. CASE RequestStep(r)
  <2>1. RowKept
    BY <1>2, RowSteps
    DEF IInv, RequestStep, GuardRead, Touch, Heartbeat, Logout, Flush, EndByLogout, OtherOrFails, Ends
  <2>2. \/ ~req[r].late /\ \E pc \in Step : Goto(r, pc)
        \/ Leave(r)
    <3>1. req[r].late => ~Live /\ req[r].pc = "guard"
      BY DEF IInv, LateInv, Dead, Live
    <3> QED BY <1>2, <3>1
        DEF RequestStep, GuardRead, Touch, Heartbeat, Logout, Flush, EndByLogout, OtherOrFails, Admitted, Step
  <2>3. closing' \subseteq Worker /\ (closing' = closing \/ Dead')
    BY <1>2 DEF IInv, TypeOK, RequestStep, GuardRead, Touch, Heartbeat, Logout, Flush, EndByLogout,
                OtherOrFails, Ends, EndRow, Dead
  <2>4. UNCHANGED sockets
    BY <1>2 DEF RequestStep, GuardRead, Touch, Heartbeat, Logout, Flush, EndByLogout, OtherOrFails
  <2> QED BY <2>1, <2>2, <2>3, <2>4, GotoOrLeave, RequestKeeps
<1> QED BY <1>1, <1>2

LEMMA EndSteps ==
  ASSUME IInv, EndOnly \/ Age \/ \E w \in Worker : Kick(w) \/ DeleteRow(w) \/ Sweep(w)
  PROVE  IInv'
<1>1. RowKept
  BY RowSteps DEF IInv, EndOnly, Age, Kick, DeleteRow, Sweep, Ends
<1>2. req' \in ReqType /\ LateInv'
  BY <1>1 DEF IInv, TypeOK, LateInv, ReqType, Step, RowKept, EndOnly, Age, Kick, DeleteRow, Sweep
<1>3. closing' \subseteq Worker /\ (closing' = closing \/ Dead')
  BY DEF IInv, TypeOK, EndOnly, Age, Kick, DeleteRow, Sweep, Ends, EndRow, Dead
<1> QED BY <1>1, <1>2, <1>3, RequestKeeps DEF EndOnly, Age, Kick, DeleteRow, Sweep
-----------------------------------------------------------------------------
(* Steps of the sockets leave the row and the requests.                    *)
LEMMA SocketKeeps ==
  ASSUME IInv, UNCHANGED <<row, req>>, closing' \subseteq closing, swept' \subseteq swept \cup closing,
         sock' \in SockType,
         clients' \in [Worker -> Socket \cup {NoSocket}],
         entries' \in [Worker -> Socket \cup {NoSocket}],
         bus' \in [Worker -> 0..MaxBus],
         SlipInv', NoOrphanSocket'
  PROVE  IInv'
BY DEF IInv, TypeOK, LateInv, EndInv, Dead, SockType, Stage

(* Whatever a step does to the bus keeps the bound.                        *)
LEMMA BusSteps ==
  ASSUME bus \in [Worker -> 0..MaxBus], NEW w \in Worker
  PROVE  /\ Publish(w) => bus' \in [Worker -> 0..MaxBus]
         /\ UNCHANGED bus => bus' \in [Worker -> 0..MaxBus]
         /\ bus' = [bus EXCEPT ![w] = 0] => bus' \in [Worker -> 0..MaxBus]
         /\ bus[w] > 0 /\ bus' = [bus EXCEPT ![w] = @ - 1] => bus' \in [Worker -> 0..MaxBus]
<1>1. Publish(w) => bus' \in [Worker -> 0..MaxBus]
  BY SessionAssumption DEF Publish
<1>2. UNCHANGED bus => bus' \in [Worker -> 0..MaxBus]
  OBVIOUS
<1>3. bus' = [bus EXCEPT ![w] = 0] => bus' \in [Worker -> 0..MaxBus]
  BY SessionAssumption
<1>4. bus[w] > 0 /\ bus' = [bus EXCEPT ![w] = @ - 1] => bus' \in [Worker -> 0..MaxBus]
  BY SessionAssumption
<1> QED BY <1>1, <1>2, <1>3, <1>4

(* Closing a socket that is open is all that Closing does.                 *)
Shuts(f, g, t) ==
  \A x \in Socket :
    /\ g[x].w = f[x].w /\ g[x].ok = f[x].ok /\ g[x].slipped = f[x].slipped
    /\ g[x].st = f[x].st \/ g[x].st = "closing"
    /\ g[x].st = "open" => f[x].st = "open" /\ x # t

LEMMA ClosingShuts ==
  ASSUME NEW f \in SockType, NEW t \in Socket \cup {NoSocket}
  PROVE  Closing(f, t) \in SockType /\ Shuts(f, Closing(f, t), t)
<1>1. CASE t # NoSocket /\ f[t].st = "open"
  <2>1. Closing(f, t) = [f EXCEPT ![t].st = "closing"] /\ t \in Socket
    BY <1>1 DEF Closing
  <2>2. Closing(f, t) \in SockType
    BY <2>1 DEF SockType, Stage
  <2>3. Shuts(f, Closing(f, t), t)
    BY <2>1 DEF Shuts, SockType
  <2> QED BY <2>2, <2>3
<1>2. CASE ~(t # NoSocket /\ f[t].st = "open")
  BY <1>2, SessionAssumption DEF Closing, Shuts
<1> QED BY <1>1, <1>2

LEMMA MapSteps ==
  ASSUME clients \in [Worker -> Socket \cup {NoSocket}],
         entries \in [Worker -> Socket \cup {NoSocket}],
         NEW w \in Worker, NEW s, Drop(w, s)
  PROVE  /\ clients' \in [Worker -> Socket \cup {NoSocket}]
         /\ entries' \in [Worker -> Socket \cup {NoSocket}]
         /\ \A v \in Worker, x \in Socket :
              /\ clients[v] = x /\ (v # w \/ x # s) => clients'[v] = x
              /\ entries[v] = x /\ (v # w \/ x # s) => entries'[v] = x
BY DEF Drop, Without

(* The handshake.                                                          *)
LEMMA HandshakeSteps ==
  ASSUME IInv, NEW s \in Socket,
         ReadRow(s) \/ Abort(s) \/ \E w \in Worker : Connect(s, w)
  PROVE  IInv'
<1> USE DEF IInv, TypeOK, SockType, Stage
<1>1. CASE ReadRow(s)
  <2>1. SessionOk => swept = {}
    BY DEF EndInv, SessionOk, Live, Dead
  <2>2. sock' \in SockType /\ SlipInv' /\ NoOrphanSocket'
    BY <1>1, <2>1 DEF ReadRow, SlipInv, NoOrphanSocket, SessionOk, Live
  <2> QED BY <1>1, <2>2, SocketKeeps DEF ReadRow
<1>2. CASE Abort(s)
  <2>1. sock' \in SockType /\ SlipInv' /\ NoOrphanSocket'
    BY <1>2, NoConnectionTyped DEF Abort, SlipInv, NoOrphanSocket
  <2> QED BY <1>2, <2>1, SocketKeeps DEF Abort
<1>3. ASSUME NEW w \in Worker, Connect(s, w)
      PROVE  IInv'
  <2>1. sock' \in SockType /\ SlipInv' /\ NoOrphanSocket'
    BY <1>3, NoConnectionTyped DEF Connect, SlipInv, NoOrphanSocket
  <2> QED BY <1>3, <2>1, SocketKeeps DEF Connect
<1> QED BY <1>1, <1>2, <1>3

(* A socket takes the place of the one that is registered, which is the    *)
(* only one that may be open on its worker.                                *)
LEMMA RegisterKeeps ==
  ASSUME IInv, NEW s \in Socket, Register(s)
  PROVE  IInv'
<1> USE DEF IInv, TypeOK, SockType, Stage
<1> DEFINE w == sock[s].w
           existing == IF entries[w] # NoSocket THEN entries[w] ELSE clients[w]
<1>1. /\ w \in Worker
      /\ sock' = Closing([sock EXCEPT ![s].st = "open", ![s].ok = FALSE], existing)
      /\ clients' = [clients EXCEPT ![w] = s]
      /\ entries' = [entries EXCEPT ![w] = s]
      /\ UNCHANGED <<row, req, closing, bus, swept>>
  BY DEF Register
<1> DEFINE f == [sock EXCEPT ![s].st = "open", ![s].ok = FALSE]
<1>2. /\ f \in SockType
      /\ \A x \in Socket :
           /\ f[x].w = sock[x].w /\ f[x].slipped = sock[x].slipped
           /\ f[x].ok => sock[x].ok
           /\ x # s => f[x].st = sock[x].st
      /\ f[s].st = "open"
  OBVIOUS
<1> HIDE DEF f
<1>3. sock' \in SockType /\ Shuts(f, sock', existing)
  <2>1. existing \in Socket \cup {NoSocket}
    OBVIOUS
  <2>2. sock' = Closing(f, existing)
    BY <1>1 DEF f
  <2> QED BY <1>2, <2>1, <2>2, ClosingShuts
<1>4. SlipInv'
  <2>1. sock[s].st = "read" /\ sock[s].ok
    BY DEF Register
  <2>2. ASSUME NEW x \in Socket, sock'[x].w \in swept',
               sock'[x].st = "open" \/ (sock'[x].st = "read" /\ sock'[x].ok)
        PROVE  sock'[x].slipped
    <3>1. /\ sock'[x].w = sock[x].w /\ sock'[x].slipped = sock[x].slipped
          /\ sock'[x].ok => sock[x].ok
          /\ sock'[x].st = f[x].st
      BY <1>2, <1>3, <2>2 DEF Shuts
    <3>2. sock[x].st = "open" \/ (sock[x].st = "read" /\ sock[x].ok)
      BY <1>2, <2>1, <2>2, <3>1
    <3> QED BY <1>1, <2>2, <3>1, <3>2 DEF SlipInv
  <2> QED BY <2>2 DEF SlipInv
<1>5. NoOrphanSocket'
  <2>1. ASSUME NEW x \in Socket, sock'[x].st = "open"
        PROVE  clients'[sock'[x].w] = x /\ entries'[sock'[x].w] = x
    <3>1. sock'[x].w = sock[x].w /\ x # existing /\ f[x].st = "open"
      BY <1>2, <1>3, <2>1 DEF Shuts
    <3>2. CASE x = s
      BY <1>1, <3>1, <3>2
    <3>3. CASE x # s
      <4>1. clients[sock[x].w] = x /\ entries[sock[x].w] = x
        BY <1>2, <3>1, <3>3 DEF NoOrphanSocket
      <4>2. sock[x].w # w
        BY <3>1, <4>1, SessionAssumption
      <4> QED BY <1>1, <3>1, <4>1, <4>2
    <3> QED BY <3>2, <3>3
  <2> QED BY <2>1 DEF NoOrphanSocket
<1>6. /\ clients' \in [Worker -> Socket \cup {NoSocket}]
      /\ entries' \in [Worker -> Socket \cup {NoSocket}]
  BY <1>1
<1> QED BY <1>1, <1>3, <1>4, <1>5, <1>6, SocketKeeps

(* A socket that is closed or dropped, on its own worker.                  *)
LEMMA CloseSteps ==
  ASSUME IInv, NEW s \in Socket, PeerCloses(s) \/ CloseEvent(s)
  PROVE  IInv'
<1> USE DEF IInv, TypeOK, SockType, Stage
<1>1. CASE PeerCloses(s)
  <2>1. sock' \in SockType /\ SlipInv' /\ NoOrphanSocket'
    BY <1>1 DEF PeerCloses, SockTo, SlipInv, NoOrphanSocket
  <2> QED BY <1>1, <2>1, SocketKeeps DEF PeerCloses
<1>2. CASE CloseEvent(s)
  <2>1. sock[s].w \in Worker /\ Drop(sock[s].w, s)
    BY <1>2 DEF CloseEvent
  <2>2. bus' \in [Worker -> 0..MaxBus]
    <3>1. Publish(sock[s].w) \/ UNCHANGED bus
      BY <1>2 DEF CloseEvent, PublishIf
    <3> QED BY <2>1, <3>1, BusSteps
  <2>3. sock' \in SockType /\ SlipInv' /\ NoOrphanSocket'
    BY <1>2, <2>1, MapSteps, NoConnectionTyped DEF CloseEvent, SlipInv, NoOrphanSocket
  <2> QED BY <1>2, <2>1, <2>2, <2>3, MapSteps, SocketKeeps DEF CloseEvent
<1> QED BY <1>1, <1>2

(* The heartbeat timer and the shared bus remove a socket from the maps of *)
(* a worker and close it.                                                  *)
LEMMA RemoteSteps ==
  ASSUME IInv, NEW w \in Worker, Ping(w) \/ Receive(w) \/ Lose(w)
  PROVE  IInv'
<1> USE DEF IInv, TypeOK, SockType, Stage
<1>0. ASSUME NEW target \in Socket \cup {NoSocket}, Drop(w, target), sock' = Closing(sock, target)
      PROVE  sock' \in SockType /\ SlipInv' /\ NoOrphanSocket'
  <2>1. sock' \in SockType /\ Shuts(sock, sock', target)
    BY <1>0, ClosingShuts
  <2>2. SlipInv'
    BY <2>1 DEF SlipInv, Shuts, Ping, Receive, Lose
  <2>3. NoOrphanSocket'
    BY <1>0, <2>1, MapSteps DEF NoOrphanSocket, Shuts
  <2> QED BY <2>1, <2>2, <2>3
<1>1. CASE Ping(w)
  <2>1. bus' \in [Worker -> 0..MaxBus]
    <3>1. Publish(w) \/ UNCHANGED bus
      BY <1>1 DEF Ping, PublishIf
    <3> QED BY <3>1, BusSteps
  <2>2. entries[w] \in Socket \cup {NoSocket}
    OBVIOUS
  <2> QED BY <1>0, <1>1, <2>1, <2>2, MapSteps, SocketKeeps DEF Ping
<1>2. CASE Receive(w)
  <2> DEFINE target == IF clients[w] # NoSocket THEN clients[w] ELSE entries[w]
  <2>1. bus' \in [Worker -> 0..MaxBus]
    BY <1>2, BusSteps DEF Receive
  <2>2. target \in Socket \cup {NoSocket} /\ Drop(w, target) /\ sock' = Closing(sock, target)
    BY <1>2 DEF Receive
  <2>3. UNCHANGED <<row, req, closing, swept>>
    BY <1>2 DEF Receive
  <2> QED BY <1>0, <2>1, <2>2, <2>3, MapSteps, SocketKeeps
<1>3. CASE Lose(w)
  <2>1. bus' \in [Worker -> 0..MaxBus]
    BY <1>3, BusSteps DEF Lose
  <2>2. SlipInv' /\ NoOrphanSocket'
    BY <1>3 DEF Lose, SlipInv, NoOrphanSocket
  <2> QED BY <1>3, <2>1, <2>2, SocketKeeps DEF Lose
<1> QED BY <1>1, <1>2, <1>3

(* The operation that ended the session closes the sockets of its worker.  *)
LEMMA CloseSocketsKeeps ==
  ASSUME IInv, NEW w \in Worker, CloseSockets(w)
  PROVE  IInv'
<1> USE DEF IInv, TypeOK, SockType, Stage
<1>1. bus' \in [Worker -> 0..MaxBus]
  <2>1. Publish(w) \/ UNCHANGED bus
    BY DEF CloseSockets, PublishIf
  <2> QED BY <2>1, BusSteps
<1>2. sock' \in SockType
  BY DEF CloseSockets
<1>3. \A x \in Socket :
        /\ sock'[x].w = sock[x].w /\ sock'[x].ok = sock[x].ok
        /\ sock'[x].slipped \in {sock[x].slipped, TRUE}
        /\ sock'[x].st = "open" => sock[x].st = "open" /\ x # clients[w]
        /\ sock'[x].st = "read" => sock[x].st = "read" /\ (sock[x].w = w => sock'[x].slipped)
  BY DEF CloseSockets
<1>4. \A x \in Socket : sock'[x].st = "open" => sock[x].w # w
  <2>1. \A x \in Socket : sock[x].st = "open" /\ sock[x].w = w => clients[w] = x
    BY DEF NoOrphanSocket
  <2> QED BY <1>3, <2>1
<1>5. SlipInv'
  BY <1>3, <1>4 DEF SlipInv, CloseSockets
<1>6. NoOrphanSocket'
  BY <1>3, <1>4 DEF NoOrphanSocket, CloseSockets
<1>7. /\ clients' \in [Worker -> Socket \cup {NoSocket}]
      /\ entries' \in [Worker -> Socket \cup {NoSocket}]
      /\ closing' \subseteq closing /\ swept' \subseteq swept \cup closing
  BY DEF CloseSockets
<1> QED BY <1>1, <1>2, <1>5, <1>6, <1>7, SocketKeeps DEF CloseSockets

(* The sockets and the requests of a worker that dies.                     *)
LEMMA CrashKeeps ==
  ASSUME IInv, NEW w \in Worker, Crash(w)
  PROVE  IInv'
<1> USE DEF IInv, TypeOK, SockType, Stage
<1>1. /\ UNCHANGED <<row, swept>>
      /\ closing' \subseteq closing
      /\ \A r \in Request : req'[r] \in {req[r], NoRequest}
      /\ req' = [r \in Request |-> req'[r]]
  BY DEF Crash
<1>2. sock' \in SockType /\ SlipInv' /\ NoOrphanSocket'
  BY NoConnectionTyped DEF Crash, SlipInv, NoOrphanSocket
<1>3. bus' \in [Worker -> 0..MaxBus]
  BY BusSteps DEF Crash
<1>4. /\ clients' \in [Worker -> Socket \cup {NoSocket}]
      /\ entries' \in [Worker -> Socket \cup {NoSocket}]
  BY DEF Crash
<1>5. req' \in [Request -> [pc : Step, late : BOOLEAN]]
  <2>1. NoRequest \in [pc : Step, late : BOOLEAN]
    BY DEF NoRequest, Step
  <2>2. \A r \in Request : req'[r] \in [pc : Step, late : BOOLEAN]
    BY <1>1, <2>1 DEF Step
  <2>3. req' = [r \in Request |-> req'[r]]
    BY <1>1
  <2> QED BY <2>2, <2>3
<1>6. LateInv'
  <2>1. ~NoRequest.late
    BY DEF NoRequest
  <2> QED BY <1>1, <2>1 DEF LateInv, Dead
<1> QED BY <1>1, <1>2, <1>3, <1>4, <1>5, <1>6 DEF EndInv, Dead, Step

LEMMA StepKeeps ==
  ASSUME IInv, [Next]_vars
  PROVE  IInv'
<1>1. CASE UNCHANGED vars
  BY <1>1 DEF vars, IInv, TypeOK, LateInv, EndInv, SlipInv, NoOrphanSocket, Dead
<1>2. ASSUME NEW s \in Socket, SocketStep(s)
      PROVE  IInv'
  BY <1>2, HandshakeSteps, RegisterKeeps, CloseSteps DEF SocketStep
<1> QED BY <1>1, <1>2, RequestSteps, EndSteps, HandshakeSteps, CloseSocketsKeeps, RemoteSteps, CrashKeeps DEF Next

LEMMA SpecIInv == Spec => []IInv
<1> QED BY InitIInv, StepKeeps, PTL DEF Spec

(* Every reachable state of a session, its requests and its sockets is well*)
(* typed.                                                                  *)
THEOREM SessionTypeCorrect == Spec => []TypeOK
<1>1. IInv => TypeOK
  BY DEF IInv
<1> QED BY <1>1, SpecIInv, PTL

(* A request that comes after the end of its session reaches no handler.   *)
THEOREM AdmissionsPrecedeEnd == Spec => []AdmittedBeforeEnd
<1>1. IInv => AdmittedBeforeEnd
  BY DEF IInv, LateInv, AdmittedBeforeEnd
<1> QED BY <1>1, SpecIInv, PTL

(* An open socket is in both maps of its worker.                           *)
THEOREM OpenSocketsAreKnown == Spec => []NoOrphanSocket
<1>1. IInv => NoOrphanSocket
  BY DEF IInv
<1> QED BY <1>1, SpecIInv, PTL

(* Only a handshake that had read the row survives the close of a session's*)
(* sockets on its worker.                                                  *)
THEOREM SurvivorsSlipped == Spec => []OnlySlippedSurvive
<1>1. IInv => OnlySlippedSurvive
  BY DEF IInv, SlipInv, OnlySlippedSurvive
<1> QED BY <1>1, SpecIInv, PTL
=============================================================================
