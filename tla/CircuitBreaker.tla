--------------------------- MODULE CircuitBreaker ---------------------------
(***************************************************************************)
(* The circuit breaker around calls to a service that may fail.  Calls     *)
(* overlap: one that was admitted in one state may return in another.      *)
(* Its counters of failures and successes are those of the outcomes it     *)
(* remembers; its counter of rejections is only shown.                     *)
(***************************************************************************)
EXTENDS Naturals, FiniteSets, Sequences

CONSTANTS
  Call,         \* calls that may be in flight at once
  MaxWindow,    \* outcomes that are remembered
  MinRequests,  \* outcomes needed before the rate counts
  Threshold,    \* failures that open the circuit, of every Scale outcomes
  Scale,
  HalfOpenMax   \* calls let through by a half-open circuit

ASSUME CircuitAssumption ==
  /\ IsFiniteSet(Call)
  /\ MaxWindow \in Nat \ {0} /\ MinRequests \in Nat \ {0}
  /\ Scale \in Nat \ {0} /\ Threshold \in 1 .. Scale
  /\ HalfOpenMax \in Nat \ {0}

VARIABLES
  state,     \* CLOSED, OPEN or HALF_OPEN
  due,       \* has the cooldown of an open circuit passed?
  places,    \* halfOpenInFlight
  outcomes,  \* the latest outcomes: did the call succeed?
  call       \* the calls: "none", or in flight as a "probe" of the half-open
             \* period that still lasts, or as a "plain" call

circuitVars == <<state, due, places, outcomes, call>>

CircuitInit ==
  /\ state = "CLOSED"
  /\ due = FALSE
  /\ places = 0
  /\ outcomes = <<>>
  /\ call = [c \in Call |-> "none"]
-----------------------------------------------------------------------------
(* evaluateCooldown.                                                       *)
HalfOpens == state = "OPEN" /\ due
Evaluated == IF HalfOpens THEN "HALF_OPEN" ELSE state
Places    == IF HalfOpens THEN 0 ELSE places

Admits ==
  /\ Evaluated # "OPEN"
  /\ Evaluated = "HALF_OPEN" => Places < HalfOpenMax

(* execute, up to the call of the operation.  A call that is not admitted  *)
(* changes nothing: it would not be rejected if the cooldown had passed.   *)
Admit(c) ==
  /\ call[c] = "none"
  /\ Admits
  /\ state' = Evaluated
  /\ due' = FALSE
  /\ places' = IF Evaluated = "HALF_OPEN" THEN Places + 1 ELSE Places
  /\ call' = [call EXCEPT ![c] = IF Evaluated = "HALF_OPEN" THEN "probe" ELSE "plain"]
  /\ UNCHANGED outcomes

Ended(c) == [d \in Call |-> IF d = c THEN "none" ELSE IF call[d] = "probe" THEN "plain" ELSE call[d]]

Open(c) ==
  /\ state' = "OPEN"
  /\ due' = FALSE
  /\ places' = 0
  /\ call' = Ended(c)

Close(c) ==
  /\ state' = "CLOSED"
  /\ due' = FALSE
  /\ places' = 0
  /\ outcomes' = <<>>
  /\ call' = Ended(c)

Recorded(ok) ==
  IF Len(outcomes) < MaxWindow THEN Append(outcomes, ok) ELSE Append(Tail(outcomes), ok)
Failures(os) == Cardinality({i \in DOMAIN os : ~os[i]})
Tripped(os) ==
  /\ Len(os) >= MinRequests
  /\ Failures(os) * Scale >= Threshold * Len(os)

\* The end of a call, in a circuit that is not half-open, that leaves its state.
Returned(c) == call' = [call EXCEPT ![c] = "none"] /\ UNCHANGED <<state, due, places>>

\* Variant for the checks: a success is only recorded.
SucceedRecorded(c) ==
  /\ call[c] # "none"
  /\ outcomes' = Recorded(TRUE)
  /\ call' = [call EXCEPT ![c] = "none"]
  /\ places' = IF state = "HALF_OPEN" /\ places > 0 THEN places - 1 ELSE places
  /\ UNCHANGED <<state, due>>
Succeed(c) ==
  /\ call[c] # "none"
  /\ IF state = "HALF_OPEN" THEN Close(c) ELSE outcomes' = Recorded(TRUE) /\ Returned(c)

\* Variant for the checks: a failure of a half-open circuit counts as any other,
\* and its place is given back.
FailAsAny(c) ==
  /\ call[c] # "none"
  /\ outcomes' = Recorded(FALSE)
  /\ IF Tripped(outcomes') THEN Open(c)
     ELSE /\ call' = [call EXCEPT ![c] = "none"]
          /\ places' = IF state = "HALF_OPEN" /\ places > 0 THEN places - 1 ELSE places
          /\ UNCHANGED <<state, due>>
Fail(c) ==
  /\ call[c] # "none"
  /\ outcomes' = Recorded(FALSE)
  /\ IF state = "HALF_OPEN" \/ Tripped(outcomes') THEN Open(c) ELSE Returned(c)

(* The cooldown passes.                                                    *)
CoolDown ==
  /\ state = "OPEN" /\ ~due
  /\ due' = TRUE
  /\ UNCHANGED <<state, places, outcomes, call>>

(* getState and getSnapshot, for the runtime monitor.                      *)
Look ==
  /\ HalfOpens
  /\ state' = "HALF_OPEN"
  /\ due' = FALSE
  /\ places' = 0
  /\ UNCHANGED <<outcomes, call>>

CircuitNext == CoolDown \/ Look \/ \E c \in Call : Admit(c) \/ Succeed(c) \/ Fail(c)
CircuitSpec == CircuitInit /\ [][CircuitNext]_circuitVars
-----------------------------------------------------------------------------
(* The types of the variables.                                             *)
CircuitTypeOK ==
  /\ state \in {"CLOSED", "OPEN", "HALF_OPEN"}
  /\ due \in BOOLEAN
  /\ places \in Nat
  /\ outcomes \in Seq(BOOLEAN) /\ Len(outcomes) <= MaxWindow
  /\ call \in [Call -> {"none", "plain", "probe"}]

(* The places taken in a half-open circuit are the calls that it let       *)
(* through and that still run, never more than its limit, whatever calls   *)
(* of earlier states return meanwhile: a place that is not counted would   *)
(* let a crowd through to a service that fails, and one that is never      *)
(* given back would keep the circuit half-open for ever.  Only an open     *)
(* circuit has a cooldown.                                                 *)
PlacesMatchProbes ==
  /\ places = Cardinality({c \in Call : call[c] = "probe"})
  /\ places <= HalfOpenMax
  /\ state # "HALF_OPEN" => places = 0
  /\ due => state = "OPEN"
=============================================================================
