-------------------------- MODULE MCWorkflowEventLog --------------------------
(***************************************************************************)
(* WorkflowEventLog for TLC, with what the README and the client's merge   *)
(* of events by id assume of the timeline.                                 *)
(***************************************************************************)
EXTENDS WorkflowEventLog

\* The console merges the fetched and the streamed events by id so that its timeline shows
\* each event once, under one sequence number.
TimelineShowsOnce ==
    \A x, y \in Timeline : x.event = y.event => x = y

=============================================================================
