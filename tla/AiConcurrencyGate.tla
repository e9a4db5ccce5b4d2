------------------------- MODULE AiConcurrencyGate -------------------------
(***************************************************************************)
(* The gate in front of the AI routes: it lets a bounded number of         *)
(* requests run at once, in all and per role, keeps a bounded queue of     *)
(* others for a bounded time, and hands over the slots that are released.  *)
(*                                                                         *)
(* A step is what runs without an await in between.  A promise that was    *)
(* settled and a microtask that was queued are steps of their own, and any *)
(* other step may come before them.  A request that is over, or was        *)
(* refused, is used again for the next one.                                *)
(***************************************************************************)
EXTENDS Naturals, FiniteSets, Sequences

CONSTANTS
  Request,      \* requests that exist at once
  Role,         \* roles of users
  RoleOf,       \* the role in whose name a request comes
  GlobalLimit,  \* slots in all
  RoleLimit,    \* slots of each role
  QueueLimit    \* requests that may wait

ASSUME GateAssumption ==
  /\ IsFiniteSet(Request)
  /\ RoleOf \in [Request -> Role]
  /\ GlobalLimit \in Nat \ {0}
  /\ RoleLimit \in [Role -> Nat \ {0}]
  /\ QueueLimit \in Nat

VARIABLES
  pc,        \* where each request is
  leased,    \* the requests whose lease is not released
  inflight,  \* inflightGlobal and inflightByRole
  queue,     \* the queued items, by request
  draining,  \* is a call of drainQueue queued as a microtask?
  stopped    \* was the gate stopped?

gateVars == <<pc, leased, inflight, queue, draining, stopped>>

GateInit ==
  /\ pc = [r \in Request |-> "idle"]
  /\ leased = {}
  /\ inflight = [all |-> 0, of |-> [ro \in Role |-> 0]]
  /\ queue = <<>>
  /\ draining = FALSE
  /\ stopped = FALSE
-----------------------------------------------------------------------------
CanAcquire(role) ==
  /\ inflight.all < GlobalLimit
  /\ inflight.of[role] < RoleLimit[role]

\* The slots in use once the requests of S have acquired one each.
Acquired(S) ==
  [all |-> inflight.all + Cardinality(S),
   of  |-> [ro \in Role |-> inflight.of[ro] + Cardinality({r \in S : RoleOf[r] = ro})]]

(* The requests of queue q that the loop of drainQueue serves: each is     *)
(* served if the requests ahead of it leave it a slot.                     *)
Items(q)       == {q[i] : i \in DOMAIN q}
Position(q, r) == CHOOSE i \in DOMAIN q : q[i] = r
Ahead(q, r)    == {q[i] : i \in 1 .. (Position(q, r) - 1)}

\* Variant for the checks: the loop ends at the first item without a slot.
ServedInLine(q, S) ==
  \A r \in Items(q) :
    r \in S <=> /\ Ahead(q, r) \subseteq S
                /\ Acquired(S \cap Ahead(q, r)).all < GlobalLimit
                /\ Acquired(S \cap Ahead(q, r)).of[RoleOf[r]] < RoleLimit[RoleOf[r]]
Served(q, S) ==
  \A r \in Items(q) :
    LET before == Acquired(S \cap Ahead(q, r)) IN
    r \in S <=> /\ before.all < GlobalLimit
                /\ before.of[RoleOf[r]] < RoleLimit[RoleOf[r]]

(* What is left of queue q, in its order, without the requests of S: the   *)
(* one element of this set.                                                *)
Without(q, S) ==
  {s \in UNION {[1 .. n -> Items(q) \ S] : n \in 0 .. Len(q)} :
     /\ Items(q) \ S \subseteq Items(s)
     /\ \A i, j \in DOMAIN s : i < j => Position(q, s[i]) < Position(q, s[j])}

(* drainQueue on queue q, from the places p of the requests: a request     *)
(* that is served leaves the queue with a lease, its promise resolved.      *)
Drain(q, p) ==
  \E S \in SUBSET Items(q) :
    /\ Served(q, S)
    /\ inflight' = Acquired(S)
    /\ queue' \in Without(q, S)
    /\ leased' = leased \cup S
    /\ pc' = [r \in Request |-> IF r \in S THEN "granted" ELSE p[r]]

DrainQueue ==
  /\ draining
  /\ draining' = FALSE
  /\ IF stopped THEN UNCHANGED <<inflight, queue, leased, pc>> ELSE Drain(queue, pc)
  /\ UNCHANGED stopped
-----------------------------------------------------------------------------
(* waitForSlot: a request that finds a slot takes it, whoever is waiting;  *)
(* one that finds none waits, if there is room.  A refusal changes nothing.*)
Arrive(r) ==
  /\ pc[r] = "idle"
  /\ ~stopped
  /\ \/ /\ CanAcquire(RoleOf[r])
        /\ inflight' = Acquired({r})
        /\ leased' = leased \cup {r}
        /\ pc' = [pc EXCEPT ![r] = "granted"]
        /\ UNCHANGED queue
     \/ /\ ~CanAcquire(RoleOf[r])
        /\ Len(queue) < QueueLimit
        /\ Drain(Append(queue, r), [pc EXCEPT ![r] = "queued"])
  /\ UNCHANGED <<draining, stopped>>

(* The timer of a queued item.                                             *)
TimeOut(r) ==
  /\ pc[r] = "queued"
  /\ pc' = [pc EXCEPT ![r] = "idle"]
  /\ queue' \in Without(queue, {r})
  /\ UNCHANGED <<leased, inflight, draining, stopped>>

(* The await of waitForSlot returns: the handler is called.                *)
Resume(r) ==
  /\ pc[r] = "granted"
  /\ pc' = [pc EXCEPT ![r] = "handling"]
  /\ UNCHANGED <<leased, inflight, queue, draining, stopped>>

\* Variant for the checks: a lease is released once per event.
ReleaseEach(r) ==
  /\ leased' = leased \ {r}
  /\ LET Less(n) == IF n = 0 THEN 0 ELSE n - 1
     IN  inflight' = [all |-> Less(inflight.all),
                      of  |-> [inflight.of EXCEPT ![RoleOf[r]] = Less(@)]]
  /\ draining' = TRUE
Release(r) ==
  IF r \in leased THEN
    /\ leased' = leased \ {r}
    /\ inflight' = [all |-> inflight.all - 1, of |-> [inflight.of EXCEPT ![RoleOf[r]] = @ - 1]]
    /\ draining' = TRUE
  ELSE UNCHANGED <<leased, inflight, draining>>

(* The client closes the connection while its handler runs: the handler    *)
(* goes on without the slot.  Nobody listens before: a client that leaves  *)
(* the queue stays in it, and is served and handled like one that stays.   *)
ClientCloses(r) ==
  /\ pc[r] = "handling" /\ r \in leased
  /\ Release(r)
  /\ UNCHANGED <<pc, queue, stopped>>

(* The handler returns or throws.  The response ends after that, when the  *)
(* slot is free already.                                                   *)
HandlerEnds(r) ==
  /\ pc[r] = "handling"
  /\ Release(r)
  /\ pc' = [pc EXCEPT ![r] = "idle"]
  /\ UNCHANGED <<queue, stopped>>

(* stopAiConcurrencyGate, when the server closes.                          *)
Stop ==
  /\ ~stopped
  /\ stopped' = TRUE
  /\ queue' = <<>>
  /\ pc' = [r \in Request |-> IF pc[r] = "queued" THEN "idle" ELSE pc[r]]
  /\ UNCHANGED <<leased, inflight, draining>>

GateStep(r) ==
  Arrive(r) \/ TimeOut(r) \/ Resume(r) \/ ClientCloses(r) \/ HandlerEnds(r)
GateNext == DrainQueue \/ Stop \/ \E r \in Request : GateStep(r)
GateSpec == GateInit /\ [][GateNext]_gateVars
-----------------------------------------------------------------------------
(* The types of the variables.                                             *)
GateTypeOK ==
  /\ pc \in [Request -> {"idle", "queued", "granted", "handling"}]
  /\ leased \subseteq Request
  /\ inflight \in [all : Nat, of : [Role -> Nat]]
  /\ queue \in Seq(Request)
  /\ draining \in BOOLEAN
  /\ stopped \in BOOLEAN

(* The counters of release and acquire are the slots that requests hold:   *)
(* none is lost, given back twice or given beyond a limit, and only        *)
(* requests that are served hold one, however the end of a handler, the    *)
(* close of its connection, a timeout and the stop of the gate meet.       *)
SlotsAccounted ==
  /\ inflight.all = Cardinality(leased)
  /\ \A ro \in Role : inflight.of[ro] = Cardinality({r \in leased : RoleOf[r] = ro})
  /\ inflight.all <= GlobalLimit
  /\ \A ro \in Role : inflight.of[ro] <= RoleLimit[ro]
  /\ \A r \in leased : pc[r] \in {"granted", "handling"}

(* No slot stays free beside a request that may have it: while a queued    *)
(* request could acquire one, a call of drainQueue is on its way.  The     *)
(* queue itself holds each waiting request once.                           *)
NoIdleSlot ==
  /\ Items(queue) = {r \in Request : pc[r] = "queued"}
  /\ Len(queue) = Cardinality({r \in Request : pc[r] = "queued"})
  /\ Len(queue) <= QueueLimit
  /\ \A r \in Request : pc[r] = "queued" /\ CanAcquire(RoleOf[r]) => draining
=============================================================================
