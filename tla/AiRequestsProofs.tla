-------------------------- MODULE AiRequestsProofs --------------------------
(***************************************************************************)
(* Proofs about the AI requests, for any requests, roles, window and       *)
(* limits.  First the circuit breaker: its types, and that the places it   *)
(* counts are the probes that run.  Then the concurrency gate: that its    *)
(* slots are accounted for, and that none is idle beside a request that    *)
(* could have it.  Each is proved of the breaker or the gate alone; that   *)
(* the requests use them only through their operations carries it over.    *)
(***************************************************************************)
EXTENDS AiRequests, FiniteSetTheorems, WellFoundedInduction, TLAPS

Probes == {c \in Call : call[c] = "probe"}

CircuitInv == CircuitTypeOK /\ PlacesMatchProbes
-----------------------------------------------------------------------------
LEMMA ProbesFinite ==
  /\ IsFiniteSet(Probes)
  /\ Cardinality(Probes) \in Nat
BY CircuitAssumption, FS_Subset, FS_CardinalityType DEF Probes

(* A counter of places at zero means that there is no probe.               *)
LEMMA NoPlacesNoProbes ==
  ASSUME CircuitInv, places = 0
  PROVE  Probes = {}
BY ProbesFinite, FS_EmptySet DEF CircuitInv, PlacesMatchProbes, Probes

(* A change of state forgets the probes, and takes all places back.        *)
LEMMA NoneLeft ==
  ASSUME places' = 0, \A c \in Call : call'[c] # "probe",
         due' => state' = "OPEN"
  PROVE  PlacesMatchProbes'
<1>1. {c \in Call : call'[c] = "probe"} = {}
  OBVIOUS
<1> QED BY <1>1, FS_EmptySet, CircuitAssumption DEF PlacesMatchProbes

LEMMA RecordedTyped ==
  ASSUME CircuitTypeOK, NEW ok \in BOOLEAN
  PROVE  Recorded(ok) \in Seq(BOOLEAN) /\ Len(Recorded(ok)) <= MaxWindow
<1> USE DEF CircuitTypeOK
<1>1. CASE Len(outcomes) < MaxWindow
  BY <1>1, CircuitAssumption DEF Recorded
<1>2. CASE ~(Len(outcomes) < MaxWindow)
  <2>1. Len(outcomes) = MaxWindow /\ outcomes # <<>>
    BY <1>2, CircuitAssumption
  <2>2. Tail(outcomes) \in Seq(BOOLEAN) /\ Len(Tail(outcomes)) = MaxWindow - 1
    BY <2>1, CircuitAssumption
  <2>3. Append(Tail(outcomes), ok) \in Seq(BOOLEAN) /\ Len(Append(Tail(outcomes), ok)) = MaxWindow
    BY <2>2, CircuitAssumption
  <2> QED BY <1>2, <2>3, CircuitAssumption DEF Recorded
<1> QED BY <1>1, <1>2
-----------------------------------------------------------------------------
(* The steps that change the state of the circuit.                         *)
LEMMA OpenKeeps ==
  ASSUME CircuitInv, NEW c \in Call, Open(c),
         outcomes' \in Seq(BOOLEAN) /\ Len(outcomes') <= MaxWindow
  PROVE  CircuitInv'
<1>1. /\ call' \in [Call -> {"none", "plain", "probe"}]
      /\ \A d \in Call : call'[d] # "probe"
  BY DEF Open, Ended, CircuitInv, CircuitTypeOK
<1>2. PlacesMatchProbes'
  BY <1>1, NoneLeft DEF Open
<1> QED BY <1>1, <1>2 DEF CircuitInv, CircuitTypeOK, Open

LEMMA CloseKeeps ==
  ASSUME CircuitInv, NEW c \in Call, Close(c)
  PROVE  CircuitInv'
<1>1. /\ call' \in [Call -> {"none", "plain", "probe"}]
      /\ \A d \in Call : call'[d] # "probe"
  BY DEF Close, Ended, CircuitInv, CircuitTypeOK
<1>2. PlacesMatchProbes'
  BY <1>1, NoneLeft DEF Close
<1>3. outcomes' \in Seq(BOOLEAN) /\ Len(outcomes') <= MaxWindow
  BY CircuitAssumption DEF Close
<1> QED BY <1>1, <1>2, <1>3 DEF CircuitInv, CircuitTypeOK, Close

(* Outside a half-open period no call is a probe, so that one that returns *)
(* gives no place back.                                                    *)
LEMMA ReturnedKeeps ==
  ASSUME CircuitInv, NEW c \in Call, state # "HALF_OPEN", Returned(c),
         outcomes' \in Seq(BOOLEAN) /\ Len(outcomes') <= MaxWindow
  PROVE  CircuitInv'
<1>1. places = 0
  BY DEF CircuitInv, PlacesMatchProbes
<1>2. \A d \in Call : call[d] # "probe"
  BY <1>1, NoPlacesNoProbes DEF Probes
<1>3. /\ call' \in [Call -> {"none", "plain", "probe"}]
      /\ \A d \in Call : call'[d] # "probe"
  BY <1>2 DEF Returned, CircuitInv, CircuitTypeOK
<1>4. PlacesMatchProbes'
  BY <1>1, <1>3, NoneLeft DEF Returned, CircuitInv, PlacesMatchProbes
<1> QED BY <1>3, <1>4 DEF CircuitInv, CircuitTypeOK, Returned

(* A half-open circuit with a place left lets one more probe through.      *)
LEMMA AdmitKeeps ==
  ASSUME CircuitInv, NEW c \in Call, Admit(c)
  PROVE  CircuitInv'
<1>1. CASE Evaluated # "HALF_OPEN"
  <2>1. state = "CLOSED" /\ ~HalfOpens
    BY <1>1 DEF Admit, Admits, Evaluated, CircuitInv, CircuitTypeOK
  <2>2. /\ state' = "CLOSED" /\ due' = FALSE /\ places' = 0 /\ places = 0 /\ UNCHANGED outcomes
        /\ call' = [call EXCEPT ![c] = "plain"]
    BY <1>1, <2>1 DEF Admit, Evaluated, Places, CircuitInv, PlacesMatchProbes
  <2>3. \A d \in Call : call[d] # "probe"
    BY <2>2, NoPlacesNoProbes DEF Probes
  <2>4. /\ call' \in [Call -> {"none", "plain", "probe"}]
        /\ \A d \in Call : call'[d] # "probe"
    BY <2>2, <2>3 DEF CircuitInv, CircuitTypeOK
  <2>5. PlacesMatchProbes'
    BY <2>2, <2>4, NoneLeft
  <2>6. CircuitTypeOK'
    BY <2>2, <2>4 DEF CircuitInv, CircuitTypeOK
  <2> QED BY <2>5, <2>6 DEF CircuitInv
<1>2. CASE Evaluated = "HALF_OPEN"
  <2>1. Places = Cardinality(Probes) /\ Places < HalfOpenMax
    <3>1. HalfOpens => places = 0
      BY DEF HalfOpens, CircuitInv, PlacesMatchProbes
    <3> QED BY <1>2, <3>1 DEF Admit, Admits, Places, CircuitInv, PlacesMatchProbes, Probes
  <2>2. /\ state' = "HALF_OPEN" /\ due' = FALSE /\ places' = Places + 1 /\ UNCHANGED outcomes
        /\ call' = [call EXCEPT ![c] = "probe"]
    BY <1>2 DEF Admit
  <2>3. call' \in [Call -> {"none", "plain", "probe"}]
    BY <2>2 DEF CircuitInv, CircuitTypeOK
  <2>4. Probes' = Probes \cup {c} /\ c \notin Probes
    BY <2>2 DEF Admit, Probes, CircuitInv, CircuitTypeOK
  <2>5. Cardinality(Probes') = Cardinality(Probes) + 1
    BY <2>4, ProbesFinite, FS_AddElement
  <2>6. places' = Cardinality(Probes') /\ places' <= HalfOpenMax
    BY <2>1, <2>2, <2>5, ProbesFinite, CircuitAssumption
  <2>7. PlacesMatchProbes'
    BY <2>2, <2>6 DEF PlacesMatchProbes, Probes
  <2>8. places' \in Nat
    BY <2>1, <2>2, ProbesFinite
  <2> QED BY <2>2, <2>3, <2>7, <2>8 DEF CircuitInv, CircuitTypeOK
<1> QED BY <1>1, <1>2

LEMMA CircuitStep ==
  ASSUME CircuitInv, [CircuitNext]_circuitVars
  PROVE  CircuitInv'
<1>1. CASE CoolDown \/ Look \/ UNCHANGED circuitVars
  <2>1. /\ UNCHANGED <<outcomes, call>>
        /\ places' = places
        /\ state' \in {"CLOSED", "OPEN", "HALF_OPEN"} /\ due' \in BOOLEAN
        /\ state' # "HALF_OPEN" => places' = 0
        /\ due' => state' = "OPEN"
    <3>1. /\ state \in {"CLOSED", "OPEN", "HALF_OPEN"} /\ due \in BOOLEAN
          /\ state # "HALF_OPEN" => places = 0
          /\ due => state = "OPEN"
      BY DEF CircuitInv, CircuitTypeOK, PlacesMatchProbes
    <3>2. CASE CoolDown
      BY <3>1, <3>2 DEF CoolDown
    <3>3. CASE Look
      BY <3>1, <3>3 DEF Look, HalfOpens
    <3>4. CASE UNCHANGED circuitVars
      BY <3>1, <3>4 DEF circuitVars
    <3> QED BY <1>1, <3>2, <3>3, <3>4
  <2>2. {c \in Call : call'[c] = "probe"} = {c \in Call : call[c] = "probe"}
    BY <2>1
  <2>3. PlacesMatchProbes'
    BY <2>1, <2>2 DEF CircuitInv, PlacesMatchProbes
  <2>4. CircuitTypeOK'
    BY <2>1 DEF CircuitInv, CircuitTypeOK
  <2> QED BY <2>3, <2>4 DEF CircuitInv
<1>2. ASSUME NEW c \in Call, Admit(c)
      PROVE  CircuitInv'
  BY <1>2, AdmitKeeps
<1>3. ASSUME NEW c \in Call, Succeed(c)
      PROVE  CircuitInv'
  <2>1. CASE state = "HALF_OPEN"
    BY <1>3, <2>1, CloseKeeps DEF Succeed
  <2>2. CASE state # "HALF_OPEN"
    BY <1>3, <2>2, RecordedTyped, ReturnedKeeps DEF Succeed, CircuitInv
  <2> QED BY <2>1, <2>2
<1>4. ASSUME NEW c \in Call, Fail(c)
      PROVE  CircuitInv'
  <2>1. outcomes' \in Seq(BOOLEAN) /\ Len(outcomes') <= MaxWindow
    BY <1>4, RecordedTyped DEF Fail, CircuitInv
  <2>2. CASE Open(c)
    BY <2>1, <2>2, OpenKeeps
  <2>3. CASE state # "HALF_OPEN" /\ Returned(c)
    BY <2>1, <2>3, ReturnedKeeps
  <2> QED BY <1>4, <2>2, <2>3 DEF Fail
<1> QED BY <1>1, <1>2, <1>3, <1>4 DEF CircuitNext

LEMMA InitCircuit == CircuitInit => CircuitInv
<1> SUFFICES ASSUME CircuitInit PROVE CircuitInv
  OBVIOUS
<1>1. {c \in Call : call[c] = "probe"} = {}
  BY DEF CircuitInit
<1>2. CircuitTypeOK
  <2>1. <<>> \in Seq(BOOLEAN) /\ Len(<<>>) = 0 /\ 0 <= MaxWindow
    BY CircuitAssumption
  <2> QED BY <2>1 DEF CircuitInit, CircuitTypeOK
<1>3. PlacesMatchProbes
  BY <1>1, FS_EmptySet, CircuitAssumption DEF CircuitInit, PlacesMatchProbes
<1> QED BY <1>2, <1>3 DEF CircuitInv

LEMMA CircuitInvariant == CircuitSpec => []CircuitInv
<1> QED BY InitCircuit, CircuitStep, PTL DEF CircuitSpec

-----------------------------------------------------------------------------
(* Whatever the requests do, the breaker does one of its own steps or none.*)
LEMMA CircuitSteps == [Next]_vars => [CircuitNext]_circuitVars
<1> SUFFICES ASSUME [Next]_vars PROVE [CircuitNext]_circuitVars
  OBVIOUS
<1> USE DEF Outer, Inner, InFlight
<1>0. \A r \in Request : Outer(r) \in Call /\ Inner(r) \in Call
  BY AiAssumption
<1>1. CASE UNCHANGED vars
  BY <1>1 DEF vars
<1>2. CASE GateMoves \/ Recover
  BY <1>2 DEF GateMoves, Recover
<1>3. CASE Cooling
  BY <1>3 DEF Cooling, CircuitNext
<1>4. ASSUME NEW r \in Request, ArriveAtGate(r) \/ Begin(r) \/ EndHandling(r)
      PROVE  UNCHANGED circuitVars
  BY <1>4 DEF ArriveAtGate, Begin, EndHandling
<1>5. ASSUME NEW r \in Request, Execute(r) \/ Ask(r)
      PROVE  UNCHANGED circuitVars \/ Admit(Outer(r)) \/ Admit(Inner(r))
  BY <1>5 DEF Execute, Ask
<1>6. ASSUME NEW r \in Request, ModelAnswers(r) \/ Finish(r)
      PROVE  \E c \in {Outer(r), Inner(r)} : Succeed(c) \/ Fail(c)
  BY <1>6 DEF ModelAnswers, Finish, Answered
<1> QED BY <1>0, <1>1, <1>2, <1>3, <1>4, <1>5, <1>6 DEF Next, Work, CircuitNext

LEMMA RequestsUseCircuit == Spec => CircuitSpec
<1>1. Init => CircuitInit
  BY DEF Init
<1> QED BY <1>1, CircuitSteps, PTL DEF Spec, CircuitSpec

(* Every reachable state of the breaker is well typed; its window never    *)
(* grows beyond its size.                                                  *)
THEOREM CircuitTypeCorrect == Spec => []CircuitTypeOK
<1>1. CircuitInv => CircuitTypeOK
  BY DEF CircuitInv
<1> QED BY <1>1, RequestsUseCircuit, CircuitInvariant, PTL

(* The places taken in a half-open circuit are the probes that run, never  *)
(* more than its limit, whatever calls of earlier states return meanwhile. *)
THEOREM PlacesAreProbes == Spec => []PlacesMatchProbes
<1>1. CircuitInv => PlacesMatchProbes
  BY DEF CircuitInv
<1> QED BY <1>1, RequestsUseCircuit, CircuitInvariant, PTL
-----------------------------------------------------------------------------
(* The gate.  Its queue holds each waiting request once.                   *)
Distinct(q) ==
  q \in Seq(Request) /\ \A i, j \in DOMAIN q : q[i] = q[j] => i = j

OfRole(S, role) == {r \in S : RoleOf[r] = role}

(* Counters n are those of the slots that the requests of L hold, and      *)
(* within the limits.                                                      *)
Slots == [all : Nat, of : [Role -> Nat]]
Accounts(n, L) ==
  n.all = Cardinality(L) /\ \A role \in Role : n.of[role] = Cardinality(OfRole(L, role))
Within(n) ==
  n.all <= GlobalLimit /\ \A role \in Role : n.of[role] <= RoleLimit[role]

Holding(L, p) == \A r \in L : p[r] \in {"granted", "handling"}

GateInv ==
  /\ GateTypeOK
  /\ Distinct(queue)
  /\ Items(queue) = {r \in Request : pc[r] = "queued"}
  /\ Len(queue) <= QueueLimit
  /\ Holding(leased, pc)
  /\ Accounts(inflight, leased) /\ Within(inflight)
  /\ \A r \in Items(queue) : CanAcquire(RoleOf[r]) => draining = TRUE
  /\ stopped = TRUE => Items(queue) = {}

(* A set of numbers that is not empty has a least one.                     *)
LEMMA LeastNat ==
  ASSUME NEW S \in SUBSET Nat, S # {}
  PROVE  \E n \in S : \A m \in S : n <= m
<1> DEFINE R == OpToRel(<, Nat)
<1>1. IsWellFoundedOn(R, Nat)
  BY NatLessThanWellFounded
<1>2. \A m, n \in Nat : m < n => <<m, n>> \in R
  BY DEF OpToRel
<1> HIDE DEF R
<1>3. \E n \in S : \A m \in S : ~ (<<m, n>> \in R)
  BY <1>1, WFMin
<1>4. PICK n \in S : \A m \in S : ~ (<<m, n>> \in R)
  BY <1>3
<1>5. \A m \in S : ~ (m < n)
  <2> SUFFICES ASSUME NEW m \in S PROVE ~ (m < n)
    OBVIOUS
  <2>1. m \in Nat /\ n \in Nat
    OBVIOUS
  <2> QED BY <2>1, <1>2, <1>4, Zenon
<1> QED BY <1>5

LEMMA PositionOf ==
  ASSUME NEW q, Distinct(q), NEW i \in DOMAIN q
  PROVE  Position(q, q[i]) = i
BY DEF Distinct, Position

LEMMA PositionFound ==
  ASSUME NEW q, Distinct(q), NEW r \in Items(q)
  PROVE  /\ Position(q, r) \in 1 .. Len(q) /\ Position(q, r) \in Nat
         /\ q[Position(q, r)] = r
         /\ r \in Request
<1>1. PICK i \in DOMAIN q : r = q[i]
  BY DEF Items
<1>2. Position(q, r) = i
  BY <1>1, PositionOf
<1>3. DOMAIN q = 1 .. Len(q) /\ Len(q) \in Nat /\ q[i] \in Request
  BY DEF Distinct
<1> QED BY <1>1, <1>2, <1>3

(* What is left of a queue holds the others, each once.                    *)
LEMMA WithoutKeeps ==
  ASSUME NEW q, Distinct(q), NEW S, NEW s \in Without(q, S)
  PROVE  Distinct(s) /\ Items(s) = Items(q) \ S /\ Len(s) <= Len(q)
<1>1. PICK n \in 0 .. Len(q) : s \in [1 .. n -> Items(q) \ S]
  BY DEF Without
<1>2. /\ Items(q) \ S \subseteq Items(s)
      /\ \A i, j \in DOMAIN s : i < j => Position(q, s[i]) < Position(q, s[j])
  BY DEF Without
<1>3. Len(q) \in Nat /\ n \in Nat
  BY <1>1 DEF Distinct
<1>4. Items(q) \subseteq Request
  BY PositionFound
<1>5. s \in Seq(Request) /\ Len(s) = n /\ DOMAIN s = 1 .. n
  BY <1>1, <1>3, <1>4
<1>6. Items(s) = Items(q) \ S
  BY <1>1, <1>2, <1>5 DEF Items
<1>7. ASSUME NEW i \in DOMAIN s, NEW j \in DOMAIN s, s[i] = s[j]
      PROVE  i = j
  <2>1. s[i] \in Items(q) /\ s[j] \in Items(q)
    BY <1>1, <1>5
  <2>2. Position(q, s[i]) \in Nat /\ Position(q, s[i]) = Position(q, s[j])
    BY <1>7, <2>1, PositionFound
  <2>3. ~(i < j) /\ ~(j < i)
    BY <1>2, <2>2
  <2> QED BY <1>3, <1>5, <2>3
<1> QED BY <1>1, <1>3, <1>5, <1>6, <1>7 DEF Distinct

(* Some requests of a queue: one of them has all others ahead of it.       *)
LEMMA LastOf ==
  ASSUME NEW q, Distinct(q), NEW X \in SUBSET Items(q), X # {}
  PROVE  \E r \in X : X \cap Ahead(q, r) = X \ {r}
<1> DEFINE Behind(r) == Len(q) - Position(q, r)
           N == {Behind(r) : r \in X}
<1>0. Len(q) \in Nat /\ DOMAIN q = 1 .. Len(q)
  BY DEF Distinct
<1>1. \A r \in X : /\ Position(q, r) \in 1 .. Len(q) /\ Position(q, r) \in Nat
                   /\ q[Position(q, r)] = r
  BY PositionFound
<1>2. N \in SUBSET Nat /\ N # {}
  BY <1>0, <1>1
<1>3. PICK n \in N : \A m \in N : n <= m
  BY <1>2, LeastNat
<1>4. PICK r \in X : n = Behind(r)
  BY <1>3
<1>5. ASSUME NEW x \in X, x # r
      PROVE  x \in Ahead(q, r)
  <2>1. Position(q, x) # Position(q, r)
    BY <1>1, <1>5
  <2>2. Position(q, x) <= Position(q, r)
    <3>1. Behind(x) \in N
      OBVIOUS
    <3>2. Behind(r) <= Behind(x)
      BY <1>3, <1>4, <3>1
    <3>3. Position(q, x) \in Nat /\ Position(q, r) \in Nat
      BY <1>1
    <3> QED BY <1>0, <3>2, <3>3
  <2>3. Position(q, x) \in 1 .. (Position(q, r) - 1)
    BY <1>1, <2>1, <2>2
  <2> QED BY <1>1, <2>3 DEF Ahead
<1>6. r \notin Ahead(q, r)
  <2> SUFFICES ASSUME NEW i \in 1 .. (Position(q, r) - 1), q[i] = r
               PROVE  FALSE
    BY DEF Ahead
  <2>1. i \in DOMAIN q /\ Position(q, r) \in DOMAIN q
    BY <1>0, <1>1
  <2>2. i = Position(q, r)
    BY <1>1, <2>1 DEF Distinct
  <2> QED BY <1>1, <2>2
<1> QED BY <1>5, <1>6

LEMMA Finite ==
  ASSUME NEW S \in SUBSET Request
  PROVE  IsFiniteSet(S) /\ Cardinality(S) \in Nat
BY GateAssumption, FS_Subset, FS_CardinalityType

LEMMA RoleFinite ==
  ASSUME NEW S \in SUBSET Request, NEW role
  PROVE  OfRole(S, role) \in SUBSET Request /\ Cardinality(OfRole(S, role)) \in Nat
BY Finite DEF OfRole

LEMMA AcquiredIs ==
  ASSUME inflight \in Slots, NEW S \in SUBSET Request
  PROVE  /\ Acquired(S) \in Slots
         /\ Acquired(S).all = inflight.all + Cardinality(S)
         /\ \A role \in Role : Acquired(S).of[role] = inflight.of[role] + Cardinality(OfRole(S, role))
<1>1. \A role \in Role : Cardinality({r \in S : RoleOf[r] = role}) \in Nat
  BY RoleFinite DEF OfRole
<1> QED BY <1>1, Finite DEF Acquired, Slots, OfRole

(* Slots that requests without one acquire are accounted for.              *)
LEMMA AcquiredAccounts ==
  ASSUME inflight \in Slots, NEW S \in SUBSET Request, leased \in SUBSET Request,
         S \cap leased = {}, Accounts(inflight, leased)
  PROVE  Accounts(Acquired(S), leased \cup S)
<1>1. ASSUME NEW A \in SUBSET leased, NEW B \in SUBSET S
      PROVE  Cardinality(A \cup B) = Cardinality(A) + Cardinality(B)
  <2>1. A \cap B = {} /\ A \in SUBSET Request /\ B \in SUBSET Request
    OBVIOUS
  <2>2. Cardinality(A \cap B) = 0
    BY <2>1, FS_EmptySet
  <2>3. IsFiniteSet(A) /\ IsFiniteSet(B) /\ Cardinality(A) \in Nat /\ Cardinality(B) \in Nat
    BY <2>1, Finite
  <2>4. Cardinality(A \cup B) = Cardinality(A) + Cardinality(B) - Cardinality(A \cap B)
    BY <2>3, FS_Union
  <2> QED BY <2>2, <2>3, <2>4
<1>2. Acquired(S).all = Cardinality(leased \cup S)
  BY <1>1, AcquiredIs DEF Accounts
<1>3. ASSUME NEW role \in Role
      PROVE  Acquired(S).of[role] = Cardinality(OfRole(leased \cup S, role))
  <2>1. OfRole(leased \cup S, role) = OfRole(leased, role) \cup OfRole(S, role)
    BY DEF OfRole
  <2>2. OfRole(leased, role) \in SUBSET leased /\ OfRole(S, role) \in SUBSET S
    BY DEF OfRole
  <2>3. Cardinality(OfRole(leased \cup S, role))
          = Cardinality(OfRole(leased, role)) + Cardinality(OfRole(S, role))
    BY <1>1, <2>1, <2>2
  <2> QED BY <2>3, AcquiredIs DEF Accounts
<1> QED BY <1>2, <1>3 DEF Accounts

(* Of requests in a queue, the last one found a slot with the others       *)
(* served, so that they are all within a limit.                            *)
LEMMA ServedAreWithin ==
  ASSUME inflight \in Slots, Within(inflight), NEW q, Distinct(q),
         NEW S \in SUBSET Items(q), Served(q, S)
  PROVE  Within(Acquired(S))
<1>0. /\ Items(q) \subseteq Request /\ S \in SUBSET Request
      /\ GlobalLimit \in Nat /\ RoleLimit \in [Role -> Nat] /\ RoleOf \in [Request -> Role]
  BY PositionFound, GateAssumption
<1>1. \A r \in S : /\ Acquired(S \cap Ahead(q, r)).all < GlobalLimit
                   /\ Acquired(S \cap Ahead(q, r)).of[RoleOf[r]] < RoleLimit[RoleOf[r]]
  BY DEF Served
<1>2. \A r \in S : /\ inflight.all + Cardinality(S \cap Ahead(q, r)) < GlobalLimit
                   /\ inflight.of[RoleOf[r]] + Cardinality(OfRole(S \cap Ahead(q, r), RoleOf[r])) < RoleLimit[RoleOf[r]]
  <2> SUFFICES ASSUME NEW r \in S
               PROVE  /\ inflight.all + Cardinality(S \cap Ahead(q, r)) < GlobalLimit
                      /\ inflight.of[RoleOf[r]] + Cardinality(OfRole(S \cap Ahead(q, r), RoleOf[r])) < RoleLimit[RoleOf[r]]
    OBVIOUS
  <2>1. S \cap Ahead(q, r) \in SUBSET Request /\ RoleOf[r] \in Role
    BY <1>0
  <2> QED BY <1>1, <2>1, AcquiredIs
<1>3. ASSUME NEW X \in SUBSET Items(q), NEW r \in X, X \cap Ahead(q, r) = X \ {r}
      PROVE  /\ Cardinality(X) = Cardinality(X \cap Ahead(q, r)) + 1
             /\ Cardinality(X \cap Ahead(q, r)) \in Nat
  <2>1. X \in SUBSET Request /\ X \ {r} \in SUBSET Request /\ r \in X
    BY <1>0
  <2>2. Cardinality(X \ {r}) = Cardinality(X) - 1
    BY <2>1, Finite, FS_RemoveElement
  <2>3. Cardinality(X) \in Nat /\ Cardinality(X \ {r}) \in Nat
    BY <2>1, Finite
  <2>4. Cardinality(X \cap Ahead(q, r)) = Cardinality(X \ {r})
    BY <1>3
  <2> QED BY <2>2, <2>3, <2>4
<1>4. Acquired(S).all <= GlobalLimit
  <2>1. CASE S = {}
    BY <1>0, <2>1, AcquiredIs, FS_EmptySet DEF Within, Slots
  <2>2. CASE S # {}
    <3>1. PICK r \in S : S \cap Ahead(q, r) = S \ {r}
      BY <2>2, LastOf
    <3>2. Cardinality(S) = Cardinality(S \cap Ahead(q, r)) + 1 /\ Cardinality(S \cap Ahead(q, r)) \in Nat
      BY <1>3, <3>1
    <3>3. inflight.all + Cardinality(S \cap Ahead(q, r)) < GlobalLimit /\ inflight.all \in Nat
      BY <1>2 DEF Slots
    <3> QED BY <1>0, <3>2, <3>3, AcquiredIs
  <2> QED BY <2>1, <2>2
<1>5. ASSUME NEW role \in Role
      PROVE  Acquired(S).of[role] <= RoleLimit[role]
  <2> DEFINE X == OfRole(S, role)
  <2>0. X \in SUBSET Items(q) /\ X \subseteq S /\ \A r \in X : RoleOf[r] = role
    BY DEF OfRole
  <2>1. CASE X = {}
    <3>1. Acquired(S).of[role] = inflight.of[role] + 0
      BY <1>0, <2>1, AcquiredIs, FS_EmptySet
    <3>2. inflight.of[role] \in Nat /\ inflight.of[role] <= RoleLimit[role]
      BY DEF Within, Slots
    <3> QED BY <3>1, <3>2
  <2>2. CASE X # {}
    <3>1. PICK r \in X : X \cap Ahead(q, r) = X \ {r}
      BY <2>0, <2>2, LastOf
    <3>2. Cardinality(X) = Cardinality(X \cap Ahead(q, r)) + 1 /\ Cardinality(X \cap Ahead(q, r)) \in Nat
      BY <1>3, <2>0, <3>1
    <3>3. X \cap Ahead(q, r) = OfRole(S \cap Ahead(q, r), role)
      BY DEF OfRole
    <3>4. inflight.of[role] + Cardinality(X \cap Ahead(q, r)) < RoleLimit[role] /\ inflight.of[role] \in Nat
      BY <1>2, <2>0, <3>3 DEF Slots
    <3>5. Acquired(S).of[role] = inflight.of[role] + Cardinality(X)
      BY <1>0, AcquiredIs
    <3>6. RoleLimit[role] \in Nat
      BY <1>0
    <3> HIDE DEF X
    <3> QED BY <3>2, <3>4, <3>5, <3>6
  <2> QED BY <2>1, <2>2
<1> QED BY <1>4, <1>5 DEF Within

(* A request that is not served finds no slot after all others are.        *)
LEMMA OthersFindNone ==
  ASSUME inflight \in Slots, NEW q, Distinct(q), NEW S \in SUBSET Items(q), Served(q, S),
         NEW r \in Items(q) \ S
  PROVE  ~ (Acquired(S).all < GlobalLimit /\ Acquired(S).of[RoleOf[r]] < RoleLimit[RoleOf[r]])
<1> DEFINE B == S \cap Ahead(q, r)
           ro == RoleOf[r]
<1>0. /\ S \in SUBSET Request /\ B \in SUBSET Request /\ B \in SUBSET S /\ ro \in Role
      /\ GlobalLimit \in Nat /\ RoleLimit[ro] \in Nat
  BY PositionFound, GateAssumption
<1>1. ~ (Acquired(B).all < GlobalLimit /\ Acquired(B).of[ro] < RoleLimit[ro])
  BY DEF Served
<1>2. OfRole(B, ro) \in SUBSET OfRole(S, ro)
  BY DEF OfRole
<1>3. Cardinality(B) <= Cardinality(S) /\ Cardinality(B) \in Nat /\ Cardinality(S) \in Nat
  BY <1>0, Finite, FS_Subset
<1>4. /\ Cardinality(OfRole(B, ro)) <= Cardinality(OfRole(S, ro))
      /\ Cardinality(OfRole(B, ro)) \in Nat /\ Cardinality(OfRole(S, ro)) \in Nat
  BY <1>0, <1>2, Finite, RoleFinite, FS_Subset
<1>5. /\ Acquired(B).all = inflight.all + Cardinality(B)
      /\ Acquired(S).all = inflight.all + Cardinality(S)
      /\ Acquired(B).of[ro] = inflight.of[ro] + Cardinality(OfRole(B, ro))
      /\ Acquired(S).of[ro] = inflight.of[ro] + Cardinality(OfRole(S, ro))
      /\ inflight.all \in Nat /\ inflight.of[ro] \in Nat
  BY <1>0, AcquiredIs DEF Slots
<1> HIDE DEF B, ro
<1>6. ~ (Acquired(S).all < GlobalLimit /\ Acquired(S).of[ro] < RoleLimit[ro])
  BY <1>0, <1>1, <1>3, <1>4, <1>5
<1> QED BY <1>6 DEF ro

\* Where a request can be.
Stations == {"idle", "queued", "granted", "handling"}

(* drainQueue keeps the books, and leaves no request in the queue that     *)
(* could have a slot.                                                      *)
LEMMA DrainKeeps ==
  ASSUME GateTypeOK, Accounts(inflight, leased), Within(inflight),
         NEW q, Distinct(q), Len(q) <= QueueLimit,
         NEW p \in [Request -> Stations], Items(q) = {r \in Request : p[r] = "queued"},
         Holding(leased, p), Drain(q, p)
  PROVE  /\ inflight' \in Slots /\ leased' \in SUBSET Request /\ pc' \in [Request -> Stations]
         /\ Distinct(queue') /\ Len(queue') <= QueueLimit
         /\ Items(queue') = {r \in Request : pc'[r] = "queued"}
         /\ Holding(leased', pc')
         /\ Accounts(inflight', leased') /\ Within(inflight')
         /\ \A r \in Items(queue') : ~ CanAcquire(RoleOf[r])'
<1>1. PICK S \in SUBSET Items(q) :
        /\ Served(q, S)
        /\ inflight' = Acquired(S)
        /\ queue' \in Without(q, S)
        /\ leased' = leased \cup S
        /\ pc' = [r \in Request |-> IF r \in S THEN "granted" ELSE p[r]]
  BY DEF Drain
<1>2. S \in SUBSET Request /\ leased \in SUBSET Request /\ inflight \in Slots
  BY DEF GateTypeOK, Slots
<1>3. Distinct(queue') /\ Items(queue') = Items(q) \ S /\ Len(queue') <= Len(q)
  BY <1>1, WithoutKeeps
<1>4. Len(queue') <= QueueLimit
  BY <1>3, GateAssumption DEF Distinct
<1>5. pc' \in [Request -> Stations] /\ Items(queue') = {r \in Request : pc'[r] = "queued"}
  BY <1>1, <1>2, <1>3 DEF Stations
<1>6. Holding(leased', pc')
  BY <1>1, <1>2 DEF Holding
<1>7. S \cap leased = {}
  BY <1>2 DEF Holding
<1>8. Accounts(inflight', leased')
  BY <1>1, <1>2, <1>7, AcquiredAccounts
<1>9. inflight' \in Slots /\ Within(inflight')
  BY <1>1, <1>2, AcquiredIs, ServedAreWithin
<1>10. ASSUME NEW r \in Items(queue')
       PROVE  ~ CanAcquire(RoleOf[r])'
  <2>1. r \in Items(q) \ S
    BY <1>3
  <2>2. ~ (inflight'.all < GlobalLimit /\ inflight'.of[RoleOf[r]] < RoleLimit[RoleOf[r]])
    BY <1>1, <1>2, <2>1, OthersFindNone
  <2> QED BY <2>2 DEF CanAcquire
<1> QED BY <1>1, <1>2, <1>3, <1>4, <1>5, <1>6, <1>8, <1>9, <1>10

LEMMA DrainQueueKeeps ==
  ASSUME GateInv, DrainQueue
  PROVE  GateInv'
<1>0. draining' = FALSE /\ stopped' = stopped /\ stopped \in BOOLEAN /\ pc \in [Request -> Stations]
  BY DEF DrainQueue, GateInv, GateTypeOK, Stations
<1>1. CASE stopped = TRUE
  <2>1. inflight' = inflight /\ queue' = queue /\ leased' = leased /\ pc' = pc
    BY <1>1 DEF DrainQueue
  <2>2. Items(queue') = {}
    BY <1>1, <2>1 DEF GateInv
  <2>3. GateTypeOK'
    BY <1>0, <2>1 DEF GateInv, GateTypeOK
  <2> QED BY <1>0, <2>1, <2>2, <2>3 DEF GateInv
<1>2. CASE stopped = FALSE
  <2>1. Drain(queue, pc)
    BY <1>2 DEF DrainQueue
  <2>2. /\ inflight' \in Slots /\ leased' \in SUBSET Request /\ pc' \in [Request -> Stations]
        /\ Distinct(queue') /\ Len(queue') <= QueueLimit
        /\ Items(queue') = {r \in Request : pc'[r] = "queued"}
        /\ Holding(leased', pc')
        /\ Accounts(inflight', leased') /\ Within(inflight')
        /\ \A r \in Items(queue') : ~ CanAcquire(RoleOf[r])'
    BY <1>0, <2>1, DrainKeeps DEF GateInv
  <2>3. GateTypeOK'
    BY <1>0, <2>2 DEF GateTypeOK, Slots, Stations, Distinct
  <2> QED BY <1>0, <1>2, <2>2, <2>3 DEF GateInv
<1> QED BY <1>0, <1>1, <1>2

(* A request takes a slot that is free.                                    *)
LEMMA TakeKeeps ==
  ASSUME GateInv, NEW r \in Request, pc[r] = "idle", stopped = FALSE, UNCHANGED <<queue, draining, stopped>>,
         CanAcquire(RoleOf[r]), inflight' = Acquired({r}), leased' = leased \cup {r},
         pc' = [pc EXCEPT ![r] = "granted"]
  PROVE  GateInv'
<1>0. /\ {r} \in SUBSET Request /\ leased \in SUBSET Request /\ inflight \in Slots
      /\ {r} \cap leased = {}
  BY DEF GateInv, GateTypeOK, Slots, Holding
<1>1. Accounts(inflight', leased') /\ inflight' \in Slots
  BY <1>0, AcquiredAccounts, AcquiredIs DEF GateInv
<1>2. /\ inflight'.all = inflight.all + 1
      /\ \A role \in Role : inflight'.of[role] = inflight.of[role] + (IF role = RoleOf[r] THEN 1 ELSE 0)
  <2>1. Cardinality({r}) = 1 /\ Cardinality({}) = 0
    BY FS_Singleton, FS_EmptySet
  <2>2. \A role \in Role : OfRole({r}, role) = IF role = RoleOf[r] THEN {r} ELSE {}
    BY DEF OfRole
  <2>3. \A role \in Role : Cardinality(OfRole({r}, role)) = IF role = RoleOf[r] THEN 1 ELSE 0
    BY <2>1, <2>2
  <2> QED BY <1>0, <2>1, <2>3, AcquiredIs
<1>3. Within(inflight')
  <2>1. inflight.all \in Nat /\ GlobalLimit \in Nat /\ inflight.all < GlobalLimit
    BY <1>0, GateAssumption DEF CanAcquire, Slots
  <2>2. ASSUME NEW role \in Role
        PROVE  inflight'.of[role] <= RoleLimit[role]
    <3>1. inflight.of[role] \in Nat /\ RoleLimit[role] \in Nat /\ inflight.of[role] <= RoleLimit[role]
      BY <1>0, GateAssumption DEF GateInv, Within, Slots
    <3>2. role = RoleOf[r] => inflight.of[role] < RoleLimit[role]
      BY DEF CanAcquire
    <3>3. CASE role = RoleOf[r]
      <4>1. inflight'.of[role] = inflight.of[role] + 1
        BY <1>2, <3>3
      <4> QED BY <3>1, <3>2, <3>3, <4>1
    <3>4. CASE role # RoleOf[r]
      <4>1. inflight'.of[role] = inflight.of[role] + 0
        BY <1>2, <3>4
      <4> QED BY <3>1, <4>1
    <3> QED BY <3>3, <3>4
  <2>3. inflight'.all <= GlobalLimit
    BY <1>2, <2>1
  <2> QED BY <2>2, <2>3 DEF Within
<1>4. GateTypeOK' /\ Holding(leased', pc')
  BY <1>0, <1>1 DEF GateInv, GateTypeOK, Slots, Holding
<1>5. Items(queue') = {x \in Request : pc'[x] = "queued"} /\ Items(queue') = Items(queue)
  BY DEF GateInv, GateTypeOK, Items
<1>6. ASSUME NEW x \in Items(queue'), CanAcquire(RoleOf[x])'
      PROVE  draining' = TRUE
  <2>1. RoleOf[x] \in Role
    BY <1>5, GateAssumption
  <2>2. /\ inflight.all \in Nat /\ inflight.of[RoleOf[x]] \in Nat
        /\ GlobalLimit \in Nat /\ RoleLimit[RoleOf[x]] \in Nat
    BY <1>0, <2>1, GateAssumption DEF Slots
  <2>3. inflight'.all = inflight.all + 1 /\ inflight.of[RoleOf[x]] <= inflight'.of[RoleOf[x]]
    <3>1. CASE RoleOf[x] = RoleOf[r]
      <4>1. inflight'.of[RoleOf[x]] = inflight.of[RoleOf[x]] + 1
        BY <1>2, <2>1, <3>1
      <4> QED BY <1>2, <2>2, <4>1
    <3>2. CASE RoleOf[x] # RoleOf[r]
      <4>1. inflight'.of[RoleOf[x]] = inflight.of[RoleOf[x]] + 0
        BY <1>2, <2>1, <3>2
      <4> QED BY <1>2, <2>2, <4>1
    <3> QED BY <3>1, <3>2
  <2>4. inflight'.all < GlobalLimit /\ inflight'.of[RoleOf[x]] < RoleLimit[RoleOf[x]]
    BY <1>6 DEF CanAcquire
  <2>5. inflight'.of[RoleOf[x]] \in Nat
    BY <1>1, <2>1 DEF Slots
  <2>6. CanAcquire(RoleOf[x])
    BY <2>2, <2>3, <2>4, <2>5 DEF CanAcquire
  <2> QED BY <1>5, <2>6 DEF GateInv
<1> QED BY <1>1, <1>3, <1>4, <1>5, <1>6 DEF GateInv, Distinct

LEMMA ArriveKeeps ==
  ASSUME GateInv, NEW r \in Request, Arrive(r)
  PROVE  GateInv'
<1>0. pc[r] = "idle" /\ stopped = FALSE /\ UNCHANGED <<draining, stopped>> /\ pc \in [Request -> Stations]
  BY DEF Arrive, GateInv, GateTypeOK, Stations
<1>1. CASE CanAcquire(RoleOf[r])
  BY <1>0, <1>1, TakeKeeps DEF Arrive
<1>2. CASE ~CanAcquire(RoleOf[r])
  <2> DEFINE q == Append(queue, r)
             p == [pc EXCEPT ![r] = "queued"]
  <2>1. Drain(q, p) /\ Len(queue) < QueueLimit
    BY <1>2 DEF Arrive
  <2>2. r \notin Items(queue) /\ queue \in Seq(Request) /\ DOMAIN queue = 1 .. Len(queue) /\ Len(queue) \in Nat
    BY <1>0 DEF GateInv, GateTypeOK
  <2>3. /\ q \in Seq(Request) /\ Len(q) = Len(queue) + 1 /\ DOMAIN q = 1 .. Len(queue) + 1
        /\ \A i \in DOMAIN queue : q[i] = queue[i]
        /\ q[Len(queue) + 1] = r
    BY <2>2
  <2>4. Items(q) = Items(queue) \cup {r}
    BY <2>2, <2>3 DEF Items
  <2>5. ASSUME NEW i \in DOMAIN q, NEW j \in DOMAIN q, q[i] = q[j]
        PROVE  i = j
    <3>1. \A k \in DOMAIN queue : queue[k] # r
      BY <2>2 DEF Items
    <3>2. \A k \in DOMAIN q : k \in DOMAIN queue \/ k = Len(queue) + 1
      BY <2>2, <2>3
    <3> HIDE DEF q
    <3> QED BY <2>3, <2>5, <3>1, <3>2 DEF GateInv, Distinct
  <2>6. Distinct(q) /\ Len(q) <= QueueLimit
    <3> HIDE DEF q
    <3>1. QueueLimit \in Nat
      BY GateAssumption
    <3> QED BY <2>1, <2>2, <2>3, <2>5, <3>1 DEF Distinct
  <2>7. /\ p \in [Request -> Stations]
        /\ Items(q) = {x \in Request : p[x] = "queued"}
        /\ Holding(leased, p)
    BY <1>0, <2>4 DEF GateInv, Holding, Stations
  <2> HIDE DEF q, p
  <2>8. /\ inflight' \in Slots /\ leased' \in SUBSET Request /\ pc' \in [Request -> Stations]
        /\ Distinct(queue') /\ Len(queue') <= QueueLimit
        /\ Items(queue') = {x \in Request : pc'[x] = "queued"}
        /\ Holding(leased', pc')
        /\ Accounts(inflight', leased') /\ Within(inflight')
        /\ \A x \in Items(queue') : ~ CanAcquire(RoleOf[x])'
    BY <2>1, <2>6, <2>7, DrainKeeps DEF GateInv
  <2>9. GateTypeOK'
    BY <1>0, <2>8 DEF GateInv, GateTypeOK, Slots, Stations, Distinct
  <2> QED BY <1>0, <2>8, <2>9 DEF GateInv
<1> QED BY <1>1, <1>2

(* A release gives one slot back, if it was not given back before.         *)
LEMMA ReleaseKeeps ==
  ASSUME GateInv, NEW r \in Request, Release(r)
  PROVE  /\ leased' \in SUBSET leased /\ r \notin leased'
         /\ inflight' \in Slots /\ Accounts(inflight', leased') /\ Within(inflight')
         /\ draining' = TRUE \/ UNCHANGED <<inflight, draining>>
<1>0. leased \in SUBSET Request /\ inflight \in Slots /\ Accounts(inflight, leased) /\ Within(inflight)
  BY DEF GateInv, GateTypeOK, Slots
<1>1. CASE r \notin leased
  BY <1>0, <1>1 DEF Release
<1>2. CASE r \in leased
  <2> DEFINE own == RoleOf[r]
  <2>1. /\ leased' = leased \ {r} /\ draining' = TRUE
        /\ inflight' = [all |-> inflight.all - 1, of |-> [inflight.of EXCEPT ![own] = @ - 1]]
    BY <1>2 DEF Release
  <2>2. own \in Role
    BY GateAssumption
  <2>3. Cardinality(leased \ {r}) = Cardinality(leased) - 1 /\ Cardinality(leased \ {r}) \in Nat
    BY <1>0, <1>2, Finite, FS_RemoveElement
  <2>4. ASSUME NEW role \in Role
        PROVE  /\ Cardinality(OfRole(leased \ {r}, role)) \in Nat
               /\ Cardinality(OfRole(leased \ {r}, role))
                    = Cardinality(OfRole(leased, role)) - (IF role = own THEN 1 ELSE 0)
               /\ Cardinality(OfRole(leased, role)) \in Nat
    <3>0. OfRole(leased, role) \in SUBSET Request /\ OfRole(leased \ {r}, role) \in SUBSET Request
      BY <1>0 DEF OfRole
    <3>1. CASE role = own
      <4>1. OfRole(leased \ {r}, role) = OfRole(leased, role) \ {r} /\ r \in OfRole(leased, role)
        BY <1>2, <3>1 DEF OfRole
      <4>2. Cardinality(OfRole(leased, role) \ {r}) = Cardinality(OfRole(leased, role)) - 1
        BY <3>0, <4>1, Finite, FS_RemoveElement
      <4>3. /\ Cardinality(OfRole(leased \ {r}, role)) \in Nat
            /\ Cardinality(OfRole(leased, role)) \in Nat
        BY <3>0, Finite
      <4> QED BY <3>1, <4>1, <4>2, <4>3
    <3>2. CASE role # own
      <4>1. OfRole(leased \ {r}, role) = OfRole(leased, role)
        BY <3>2 DEF OfRole
      <4> QED BY <3>0, <3>2, <4>1, Finite
    <3> QED BY <3>1, <3>2
  <2>5. inflight.all \in Nat /\ inflight.of \in [Role -> Nat]
    BY <1>0 DEF Slots
  <2>6. inflight'.all = Cardinality(leased') /\ inflight'.all <= inflight.all /\ inflight'.all \in Nat
    BY <1>0, <2>1, <2>3, <2>5 DEF Accounts
  <2>7. ASSUME NEW role \in Role
        PROVE  /\ inflight'.of[role] = Cardinality(OfRole(leased', role))
               /\ inflight'.of[role] <= inflight.of[role] /\ inflight'.of[role] \in Nat
    <3>1. inflight'.of[role] = inflight.of[role] - (IF role = own THEN 1 ELSE 0)
      BY <2>1, <2>2, <2>5
    <3>2. inflight.of[role] = Cardinality(OfRole(leased, role))
      BY <1>0 DEF Accounts
    <3> QED BY <2>1, <2>4, <3>1, <3>2
  <2>8. inflight' \in Slots
    <3>1. inflight'.of \in [Role -> Nat] /\ inflight' = [all |-> inflight'.all, of |-> inflight'.of]
      BY <2>1, <2>2, <2>5, <2>7
    <3> QED BY <2>6, <3>1 DEF Slots
  <2>9. Within(inflight')
    <3>1. GlobalLimit \in Nat /\ RoleLimit \in [Role -> Nat]
      BY GateAssumption
    <3>2. inflight'.all <= GlobalLimit
      BY <1>0, <2>5, <2>6, <3>1 DEF Within
    <3>3. \A role \in Role : inflight'.of[role] <= RoleLimit[role]
      <4> SUFFICES ASSUME NEW role \in Role PROVE inflight'.of[role] <= RoleLimit[role]
        OBVIOUS
      <4>1. inflight.of[role] <= RoleLimit[role] /\ inflight.of[role] \in Nat /\ RoleLimit[role] \in Nat
        BY <1>0, <2>5, <3>1 DEF Within
      <4> QED BY <2>7, <4>1
    <3> QED BY <3>2, <3>3 DEF Within
  <2> QED BY <2>1, <2>6, <2>7, <2>8, <2>9 DEF Accounts
<1> QED BY <1>1, <1>2

(* The timer, the resumption and the ends of handlers.                     *)
LEMMA HandleKeeps ==
  ASSUME GateInv, NEW r \in Request, TimeOut(r) \/ Resume(r) \/ ClientCloses(r) \/ HandlerEnds(r)
  PROVE  GateInv'
<1>0. /\ pc \in [Request -> Stations] /\ queue \in Seq(Request) /\ leased \in SUBSET Request
      /\ inflight \in Slots /\ Items(queue) = {x \in Request : pc[x] = "queued"}
      /\ draining \in BOOLEAN /\ stopped \in BOOLEAN
  BY DEF GateInv, GateTypeOK, Stations, Slots
<1>1. CASE TimeOut(r)
  <2>1. Distinct(queue') /\ Items(queue') = Items(queue) \ {r} /\ Len(queue') <= Len(queue)
    BY <1>1, WithoutKeeps DEF TimeOut, GateInv
  <2>2. Len(queue') <= QueueLimit
    BY <1>0, <2>1, GateAssumption DEF GateInv, Distinct
  <2>3. GateTypeOK' /\ Holding(leased', pc')
    BY <1>0, <1>1, <2>1 DEF TimeOut, GateInv, GateTypeOK, Distinct, Holding
  <2>4. Items(queue') = {x \in Request : pc'[x] = "queued"}
    BY <1>0, <1>1, <2>1 DEF TimeOut
  <2> QED BY <1>1, <2>1, <2>2, <2>3, <2>4 DEF TimeOut, GateInv, CanAcquire, Accounts, Within, OfRole
<1>2. CASE Resume(r)
  <2>1. GateTypeOK' /\ Holding(leased', pc')
    BY <1>0, <1>2 DEF Resume, GateInv, GateTypeOK, Holding
  <2>2. Items(queue') = {x \in Request : pc'[x] = "queued"} /\ Items(queue') = Items(queue)
    BY <1>0, <1>2 DEF Resume
  <2> QED BY <1>2, <2>1, <2>2 DEF Resume, GateInv, CanAcquire, Accounts, Within, OfRole, Distinct
<1>3. CASE ClientCloses(r) \/ HandlerEnds(r)
  <2>1. /\ Release(r) /\ UNCHANGED <<queue, stopped>> /\ pc[r] = "handling"
        /\ pc' = pc \/ pc' = [pc EXCEPT ![r] = "idle"]
    BY <1>3 DEF ClientCloses, HandlerEnds
  <2>2. /\ leased' \in SUBSET leased /\ r \notin leased'
        /\ inflight' \in Slots /\ Accounts(inflight', leased') /\ Within(inflight')
        /\ draining' = TRUE \/ UNCHANGED <<inflight, draining>>
    BY <2>1, ReleaseKeeps
  <2>3. GateTypeOK' /\ Holding(leased', pc')
    BY <1>0, <2>1, <2>2 DEF GateInv, GateTypeOK, Slots, Holding
  <2>4. Items(queue') = {x \in Request : pc'[x] = "queued"} /\ Items(queue') = Items(queue)
    BY <1>0, <2>1
  <2> QED BY <2>1, <2>2, <2>3, <2>4 DEF GateInv, CanAcquire, Distinct
<1> QED BY <1>1, <1>2, <1>3

LEMMA StopKeeps ==
  ASSUME GateInv, Stop
  PROVE  GateInv'
<1>1. queue' = <<>> /\ stopped' = TRUE /\ UNCHANGED <<leased, inflight, draining>>
      /\ pc' = [r \in Request |-> IF pc[r] = "queued" THEN "idle" ELSE pc[r]]
  BY DEF Stop
<1>2. Items(queue') = {} /\ Distinct(queue') /\ Len(queue') <= QueueLimit
  BY <1>1, GateAssumption DEF Items, Distinct
<1>3. GateTypeOK' /\ Holding(leased', pc')
  BY <1>1 DEF GateInv, GateTypeOK, Holding
<1>4. Items(queue') = {r \in Request : pc'[r] = "queued"}
  BY <1>1, <1>2
<1> QED BY <1>1, <1>2, <1>3, <1>4 DEF GateInv, Accounts, Within, OfRole

LEMMA GateStepKeeps ==
  ASSUME GateInv, [GateNext]_gateVars
  PROVE  GateInv'
<1>1. CASE UNCHANGED gateVars
  BY <1>1 DEF gateVars, GateInv, GateTypeOK, Distinct, Items, Holding, Accounts, Within, OfRole, CanAcquire
<1>2. ASSUME NEW r \in Request, GateStep(r)
      PROVE  GateInv'
  BY <1>2, ArriveKeeps, HandleKeeps DEF GateStep
<1> QED BY <1>1, <1>2, DrainQueueKeeps, StopKeeps DEF GateNext

LEMMA InitGate == GateInit => GateInv
<1> SUFFICES ASSUME GateInit PROVE GateInv
  OBVIOUS
<1>1. Items(queue) = {} /\ Distinct(queue) /\ Len(queue) <= QueueLimit
  BY GateAssumption DEF GateInit, Items, Distinct
<1>2. GateTypeOK /\ Holding(leased, pc)
  <2>1. <<>> \in Seq(Request)
    OBVIOUS
  <2> QED BY <2>1 DEF GateInit, GateTypeOK, Holding
<1>3. Accounts(inflight, leased) /\ Within(inflight)
  <2>1. \A role \in Role : OfRole({}, role) = {}
    BY DEF OfRole
  <2>2. Cardinality({}) = 0
    BY FS_EmptySet
  <2>3. leased = {} /\ inflight.all = 0 /\ \A role \in Role : inflight.of[role] = 0
    BY DEF GateInit
  <2>4. GlobalLimit \in Nat /\ \A role \in Role : RoleLimit[role] \in Nat
    BY GateAssumption
  <2> QED BY <2>1, <2>2, <2>3, <2>4 DEF Accounts, Within
<1> QED BY <1>1, <1>2, <1>3 DEF GateInv, GateInit

LEMMA GateInvariant == GateSpec => []GateInv
<1> QED BY InitGate, GateStepKeeps, PTL DEF GateSpec

(* Whatever the requests do, the gate does one of its own steps or none.   *)
LEMMA GateSteps == [Next]_vars => [GateNext]_gateVars
<1> SUFFICES ASSUME [Next]_vars PROVE [GateNext]_gateVars
  OBVIOUS
<1>1. CASE UNCHANGED vars
  BY <1>1 DEF vars
<1>2. CASE GateMoves
  BY <1>2 DEF GateMoves, GateNext, GateStep
<1>3. CASE Cooling \/ Recover
  BY <1>3 DEF Cooling, Recover
<1>4. ASSUME NEW r \in Request, Begin(r) \/ Execute(r) \/ Ask(r) \/ ModelAnswers(r) \/ Finish(r)
      PROVE  UNCHANGED gateVars
  BY <1>4 DEF Begin, Execute, Ask, ModelAnswers, Finish
<1>5. ASSUME NEW r \in Request, ArriveAtGate(r) \/ EndHandling(r)
      PROVE  GateNext
  BY <1>5 DEF ArriveAtGate, EndHandling, GateNext, GateStep
<1> QED BY <1>1, <1>2, <1>3, <1>4, <1>5 DEF Next, Work

LEMMA RequestsUseGate == Spec => GateSpec
<1>1. Init => GateInit
  BY DEF Init
<1> QED BY <1>1, GateSteps, PTL DEF Spec, GateSpec

(* The counters are the slots that requests hold, within the limits, and   *)
(* only requests that are served hold one, for any requests, roles and     *)
(* limits, however timeouts, disconnections, ends and the stop meet.       *)
THEOREM SlotsAreAccounted == Spec => []SlotsAccounted
<1>1. GateInv => SlotsAccounted
  BY DEF GateInv, SlotsAccounted, Accounts, Within, Holding, OfRole
<1> QED BY <1>1, RequestsUseGate, GateInvariant, PTL

(* A queued request that could have a slot has a call of drainQueue on its *)
(* way, and the queue holds each waiting request once.                     *)
THEOREM NoSlotIsIdle == Spec => []NoIdleSlot
<1>1. GateInv => NoIdleSlot
  <2> SUFFICES ASSUME GateInv PROVE NoIdleSlot
    OBVIOUS
  <2>1. Items(queue) = {r \in Request : pc[r] = "queued"} /\ Len(queue) <= QueueLimit
    BY DEF GateInv
  <2>2. \A r \in Request : pc[r] = "queued" /\ CanAcquire(RoleOf[r]) => draining = TRUE
    BY <2>1 DEF GateInv
  <2>3. DOMAIN queue = 1 .. Len(queue) /\ Len(queue) \in Nat
    BY DEF GateInv, GateTypeOK
  <2> DEFINE place == [i \in 1 .. Len(queue) |-> queue[i]]
  <2>4. place \in Bijection(1 .. Len(queue), Items(queue))
    <3>1. place \in [1 .. Len(queue) -> Items(queue)]
      BY <2>3 DEF Items
    <3>2. \A i, j \in 1 .. Len(queue) : place[i] = place[j] => i = j
      BY <2>3 DEF GateInv, Distinct
    <3>3. \A r \in Items(queue) : \E i \in 1 .. Len(queue) : place[i] = r
      BY <2>3 DEF Items
    <3> HIDE DEF place
    <3> QED BY <3>1, <3>2, <3>3 DEF Bijection, Injection, Surjection, IsInjective
  <2>5. Cardinality(Items(queue)) = Len(queue)
    BY <2>3, <2>4, FS_CountingElements DEF ExistsBijection
  <2> QED BY <2>1, <2>2, <2>5 DEF NoIdleSlot
<1> QED BY <1>1, RequestsUseGate, GateInvariant, PTL
=============================================================================
