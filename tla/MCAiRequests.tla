---------------------------- MODULE MCAiRequests ----------------------------
(* Bounds for TLC: two users, who share one slot, and two admins, who have *)
(* as many as there are.  One request is a search, one a chat.             *)
EXTENDS AiRequests, TLC

CONSTANTS u1, u2, a1, a2, user, admin

MCRoleOf == [r \in Request |-> IF r \in {u1, u2} THEN user ELSE admin]
MCRoleLimit == (user :> 1) @@ (admin :> 2)
MCCall == Request \X {"outer", "inner"}
=============================================================================
