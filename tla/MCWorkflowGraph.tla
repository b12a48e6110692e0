--------------------------- MODULE MCWorkflowGraph ---------------------------
(***************************************************************************)
(* WorkflowGraph for TLC, with the statements that comments, assertions    *)
(* and skill documents of the repository make about the graph.             *)
(***************************************************************************)
EXTENDS WorkflowGraph

\* odinAgentNode asserts that the story it routes has a specification (and throws an error
\* that ends the run otherwise): routing must never send it a story without one.
OdinHasSpec == next = {"odinAgent"} /\ ~thrown => ~OdinThrows(state)

\* The front skill's document: "The source of truth is the approved spec".  In the mode in
\* which a human approves specifications, the workers only build from an approved one.
BuildsFromApprovedSpec ==
    state.mode = "standard" /\ next \cap Workers # {} => state.humanFeedback[state.idx] = "approved"

\* state.ts: pendingCuratorReview is "Set by curator when it passes but score <
\* SCORE_THRESHOLD", so a pending review is always about a passing verdict.
ReviewIsOfAPass ==
    state.pendingReview => state.feedback[state.idx].passed

=============================================================================
