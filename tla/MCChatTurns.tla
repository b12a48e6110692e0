----------------------------- MODULE MCChatTurns -----------------------------
(* Three requests with one idempotency key, and one without that shares the session. *)
EXTENDS ChatTurns, TLC

CONSTANTS r1, r2, r3, r4, k

MCKey == (r1 :> k) @@ (r2 :> k) @@ (r3 :> k) @@ (r4 :> NoKey)

=============================================================================
