-------------------------- MODULE MCExecutionOutbox --------------------------
(* ExecutionOutbox for TLC: two starts from one chat message. *)
EXTENDS ExecutionOutbox

CONSTANTS first, second, chat

RequestsOf == {first, second}
SameKey == [r \in RequestsOf |-> chat]

=============================================================================
