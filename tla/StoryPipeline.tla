---------------------------- MODULE StoryPipeline ----------------------------
(***************************************************************************)
(* What a workflow promises about its user stories, whatever its agents    *)
(* answer: it works or waits for a human, it settles the stories one at a  *)
(* time and in order, it changes none once it is over, and it is never     *)
(* completed with stories left unless the human said to stop.              *)
(***************************************************************************)
EXTENDS Naturals

VARIABLES
    stories,   \* how many stories the run has
    phase,     \* "working", "waiting" (for a human), "completed" or "ended" without completing
    settled,   \* how many stories are settled; story number settled is the current one
    stopped    \* the human gave up on the current story

vars == <<stories, phase, settled, stopped>>

Init == stories \in Nat \ {0} /\ phase = "working" /\ settled = 0 /\ stopped = FALSE

\* A story is settled by the agents themselves; work goes on with the next one.
Settle == /\ phase = "working" /\ settled < stories
          /\ settled' = settled + 1
          /\ phase' \in {"working", "completed"}
          /\ phase' = "completed" => settled' = stories
          /\ UNCHANGED stopped

Ask == /\ phase = "working" /\ settled < stories
       /\ phase' = "waiting"
       /\ UNCHANGED <<settled, stopped>>

\* An answer settles the current story, sends it back to work, or ends the run.
Answer == /\ phase = "waiting"
          /\ \/ /\ settled' \in {settled, settled + 1}
                /\ phase' = IF settled' = stories THEN "completed" ELSE "working"
                /\ UNCHANGED stopped
             \/ /\ phase' = "completed" /\ stopped' = TRUE /\ UNCHANGED settled
             \/ /\ phase' = "ended" /\ UNCHANGED <<settled, stopped>>

Complete == /\ phase = "working" /\ settled = stories
            /\ phase' = "completed"
            /\ UNCHANGED <<settled, stopped>>

\* A blocked delivery, or an agent that failed for good.
End == /\ phase = "working"
       /\ phase' = "ended"
       /\ UNCHANGED <<settled, stopped>>

Next == UNCHANGED stories /\ (Settle \/ Ask \/ Answer \/ Complete \/ End)

Spec == Init /\ [][Next]_vars

=============================================================================
