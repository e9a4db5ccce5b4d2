----------------------- MODULE MCMutationIdempotency ------------------------
(* Bounds for TLC: two attempts of one payload, of which the second has no *)
(* fingerprint, and a reuse of the key for another payload.                *)
EXTENDS MutationIdempotency
CONSTANTS r1, r2, r3, a, b

MCPayloadOf == [r \in Request |-> IF r = r3 THEN b ELSE a]
=============================================================================
