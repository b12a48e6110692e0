---------------------------- MODULE MCWorkflowRun ----------------------------
(***************************************************************************)
(* WorkflowRun for TLC, with what the README's system flow says of a pass. *)
(***************************************************************************)
EXTENDS WorkflowRun

\* The README's flow: a pass of the curator leads to the files of the preview.  In the modes
\* that edit a project, a run stored as completed in which every story passed and no loop threw (no
\* human accepted or stopped anything, or answered while a stream was still delivering) has every
\* story's latest change set in the project.
PassIsDelivered ==
    stored = "completed" /\ AllClosed /\ state.mode \in CodeModes
      /\ accepted = {} /\ ~stopped /\ ~overlap /\ (\A k \in 1 .. Last : ~streams[k].broken) =>
        \A u \in Stories : LatestSet(u) # 0 => sets[LatestSet(u)].status = "applied"

=============================================================================
