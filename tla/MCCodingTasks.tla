---------------------------- MODULE MCCodingTasks ----------------------------
(* CodingTasks for TLC: two requests run one task that updates two files, while a workflow
   delivers a change set that deletes and creates one of them, whatever it holds. *)
EXTENDS CodingTasks, TLC

CONSTANTS r1, r2, flow, f1, f2

Update(f) == [kind |-> "update", file |-> f, guarded |-> TRUE]
Blind(kind, f) == [kind |-> kind, file |-> f, guarded |-> FALSE]

RunnersOf == {r1, r2}
Symmetry == Permutations(RunnersOf)
PatchersOf == RunnersOf \cup {flow}

ChangesOf ==
    [p \in PatchersOf |->
       IF p = flow THEN <<Blind("delete", f2), Blind("create", f2)>>
       ELSE <<Update(f1), Update(f2)>>]

=============================================================================
