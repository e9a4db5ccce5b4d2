----------------------------- MODULE AiRequests -----------------------------
(***************************************************************************)
(* The AI routes: requests that pass the concurrency gate, and whose       *)
(* handlers reach the model through the AI circuit breaker.                *)
(*                                                                         *)
(* A chat makes one call.  A search wraps its whole computation in one     *)
(* call, and inside it asks the model for the intent and an embedding      *)
(* through the same breaker; both have a fallback.  Its handler stops      *)
(* waiting after a while, and the computation goes on.  The searches are   *)
(* for different queries, so that none joins the computation of another.   *)
(* Other requests are answered from a cache or from the database.          *)
(***************************************************************************)
EXTENDS AiConcurrencyGate, CircuitBreaker

CONSTANTS
  Search,  \* the requests whose search is computed
  Chat     \* the requests whose chat asks the model

ASSUME AiAssumption ==
  /\ Search \subseteq Request /\ Chat \subseteq Request \ Search
  /\ Call = Request \X {"outer", "inner"}

VARIABLES
  stage,   \* how far the work of each request is
  healthy  \* from now on, does every call succeed?

vars == <<gateVars, circuitVars, stage, healthy>>

Outer(r) == <<r, "outer">>
Inner(r) == <<r, "inner">>
InFlight(c) == call[c] # "none"

Init ==
  /\ GateInit
  /\ CircuitInit
  /\ stage = [r \in Request |-> "none"]
  /\ healthy = FALSE

Enter(r, st) == stage' = [stage EXCEPT ![r] = st]
-----------------------------------------------------------------------------
(* The gate.  A place in the model is used again when its work is over.    *)
ArriveAtGate(r) ==
  /\ stage[r] = "none"
  /\ Arrive(r)
  /\ UNCHANGED <<circuitVars, stage, healthy>>

GateMoves ==
  /\ \/ DrainQueue
     \/ Stop
     \/ \E r \in Request : TimeOut(r) \/ Resume(r) \/ ClientCloses(r)
  /\ UNCHANGED <<circuitVars, stage, healthy>>

(* A handler ends without a call, after its call, or, if it is a search,   *)
(* before its call is over.                                                *)
EndHandling(r) ==
  /\ \/ stage[r] \in {"none", "done"} /\ Enter(r, "none")
     \/ r \in Search /\ InFlight(Outer(r)) /\ UNCHANGED stage
  /\ HandlerEnds(r)
  /\ UNCHANGED <<circuitVars, healthy>>
-----------------------------------------------------------------------------
(* The work of a request: it comes to its call, and is admitted or not.    *)
Begin(r) ==
  /\ r \in Search \cup Chat
  /\ pc[r] = "handling" /\ stage[r] = "none"
  /\ Enter(r, "calling")
  /\ UNCHANGED <<gateVars, circuitVars, healthy>>

Execute(r) ==
  /\ stage[r] = "calling"
  /\ \/ Admit(Outer(r)) /\ Enter(r, IF r \in Search THEN "intent" ELSE "last")
     \/ ~Admits /\ Enter(r, "done") /\ UNCHANGED circuitVars
  /\ UNCHANGED <<gateVars, healthy>>

(* A search asks for the intent, then for the embedding.  Either may be    *)
(* left out, and does without an answer if it is rejected.                 *)
Ask(r) ==
  /\ stage[r] \in {"intent", "embedding"} /\ ~InFlight(Inner(r))
  /\ Enter(r, IF stage[r] = "intent" THEN "embedding" ELSE "last")
  /\ Admit(Inner(r)) \/ UNCHANGED circuitVars
  /\ UNCHANGED <<gateVars, healthy>>

Answered(c) == Succeed(c) \/ (~healthy /\ Fail(c))

ModelAnswers(r) ==
  /\ Answered(Inner(r))
  /\ UNCHANGED <<gateVars, stage, healthy>>

(* The end of a call.  A search whose queries fail ends early.             *)
Finish(r) ==
  /\ InFlight(Outer(r)) /\ ~InFlight(Inner(r))
  /\ \/ stage[r] = "last" /\ Answered(Outer(r))
     \/ stage[r] # "last" /\ ~healthy /\ Fail(Outer(r))
  /\ Enter(r, IF pc[r] = "handling" THEN "done" ELSE "none")
  /\ UNCHANGED <<gateVars, healthy>>

Cooling ==
  /\ CoolDown \/ Look
  /\ UNCHANGED <<gateVars, stage, healthy>>

(* The model and the database recover for good.                            *)
Recover ==
  /\ ~healthy
  /\ healthy' = TRUE
  /\ UNCHANGED <<gateVars, circuitVars, stage>>

Work(r) == EndHandling(r) \/ Execute(r) \/ Ask(r) \/ ModelAnswers(r) \/ Finish(r)
Next ==
  \/ GateMoves \/ Cooling \/ Recover
  \/ \E r \in Request : ArriveAtGate(r) \/ Begin(r) \/ Work(r)

Spec == Init /\ [][Next]_vars

(* A handler that runs, a call in flight and the cooldown end.  Nobody     *)
(* has to send a request.                                                  *)
FairSpec ==
  /\ Spec
  /\ \A r \in Request : WF_vars(Work(r))
  /\ WF_vars(CoolDown /\ UNCHANGED <<gateVars, stage, healthy>>)
-----------------------------------------------------------------------------
(* The types of the variables.                                             *)
TypeOK ==
  /\ GateTypeOK
  /\ CircuitTypeOK
  /\ stage \in [Request -> {"none", "calling", "intent", "embedding", "last", "done"}]
  /\ healthy \in BOOLEAN

(* If requests keep coming to the breaker, it closes some time after the   *)
(* service has recovered and stays closed, whatever calls of the time      *)
(* before return meanwhile.                                                *)
CircuitRecovers ==
  []<>(\E r \in Request : stage[r] = "calling") => (healthy ~> [](state = "CLOSED"))
=============================================================================
