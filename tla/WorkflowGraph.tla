---------------------------- MODULE WorkflowGraph ----------------------------
(***************************************************************************)
(* One thread of the compiled workflow graph (infrastructure/langgraph):   *)
(* supersteps of agent nodes, front and QA agents in parallel, and the     *)
(* three checkpoints at which the graph is interrupted until a human       *)
(* answers.  LangGraph itself is external: a superstep runs every node of  *)
(* next, a router gives the next one, and a node that throws ends the      *)
(* stream (a spent recursion limit is such a throw too).                   *)
(***************************************************************************)
EXTENDS GraphNodes

VARIABLES
    state,     \* the channel values
    next,      \* the nodes of the current superstep; {} once the graph reached END
    done,      \* those of them that have finished
    thrown,    \* a node threw and the stream rejected
    \* History, read by the properties only:
    accepted,  \* the stories whose low-score review the human accepted
    stopped,   \* the human declined another round of retries
    attempts   \* verdicts on the current story since a human last answered

graph   == <<state, next, done, thrown>>
history == <<accepted, stopped, attempts>>
vars    == <<state, next, done, thrown, accepted, stopped, attempts>>

Agents    == Nodes \ Checkpoints
Live      == next # {} /\ ~thrown
Waiting   == Live /\ next \subseteq Checkpoints
Working   == Live /\ ~(next \subseteq Checkpoints)

Init ==
    /\ \E mode \in Modes : \E stories \in InitialStories(mode) :
         \E specs \in InitialSpecs(mode, stories) :
           state = InitialGraphState(mode, stories, specs)
    /\ next = RouteFromStart(state)
    /\ done = {} /\ thrown = FALSE
    /\ accepted = {} /\ stopped = FALSE /\ attempts = 0

\* The superstep consists of this one node and it returns an update.
RunsAlone(node) == next = {node} /\ ~thrown /\ UNCHANGED <<done, thrown>>

RunSpecAgent ==
    /\ RunsAlone("specAgent") /\ HasStory(state)
    /\ \E kind \in SpecKind : state' = SpecAgent(state, kind)
    /\ next' = RouteAfterSpecAgent(state')
    /\ UNCHANGED history

RunOdinAgent ==
    /\ RunsAlone("odinAgent") /\ ~OdinThrows(state)
    /\ state' = OdinAgent(state)
    /\ next' = RouteToParallelAgents(state')
    /\ UNCHANGED history

\* A worker of a parallel superstep finishes; the curator runs once, after all of them.
WorkerFinishes(worker) ==
    /\ worker \in next \ done /\ ~thrown /\ HasSpec(state)
    /\ IF next = done \cup {worker}
       THEN next' = {"curatorAgent"} /\ done' = {}
       ELSE next' = next /\ done' = done \cup {worker}
    /\ UNCHANGED <<thrown, accepted, stopped, attempts>>

RunFrontAgent ==
    /\ WorkerFinishes("frontAgent")
    /\ \E out \in FrontKind : state' = FrontAgent(state, out)

RunQaAgent ==
    /\ WorkerFinishes("qaAgent")
    /\ state' = state

RunCuratorAgent ==
    /\ RunsAlone("curatorAgent") /\ HasSpec(state)
    /\ \E v \in Verdicts(state) : state' = CuratorAgent(state, v)
    /\ next' = RouteAfterCurator(state')
    /\ attempts' = IF state'.idx = state.idx THEN attempts + 1 ELSE 0
    /\ UNCHANGED <<accepted, stopped>>

ApproveSpec(approved) ==
    /\ RunsAlone("hitlCheckpoint") /\ HasSpec(state)
    /\ \E kind \in SpecKind : state' = HitlCheckpoint(state, approved, kind)
    /\ next' = RouteAfterHitlCheckpoint(state')
    /\ attempts' = 0
    /\ UNCHANGED <<accepted, stopped>>

DecideRetry(continueRetry) ==
    /\ RunsAlone("retryCheckpoint") /\ HasStory(state)
    /\ state' = RetryCheckpoint(state, continueRetry)
    /\ next' = RouteAfterRetryCheckpoint(state')
    /\ attempts' = 0
    /\ stopped' = ~continueRetry
    /\ UNCHANGED accepted

DecideReview(accept) ==
    /\ RunsAlone("curatorReviewCheckpoint") /\ HasStory(state)
    /\ state' = CuratorReviewCheckpoint(state, accept)
    /\ next' = RouteAfterCuratorReviewCheckpoint(state')
    /\ attempts' = 0
    /\ accepted' = IF accept THEN accepted \cup {state.idx} ELSE accepted
    /\ UNCHANGED stopped

\* An agent node throws: its attempts failed or timed out, its circuit is open, or it has
\* no story or specification to work on.
NodeThrows ==
    /\ Live /\ next \cap Agents # {}
    /\ thrown' = TRUE
    /\ UNCHANGED <<state, next, done, accepted, stopped, attempts>>

AgentStep ==
    \/ RunSpecAgent \/ RunOdinAgent
    \/ RunFrontAgent \/ RunQaAgent \/ RunCuratorAgent
    \/ NodeThrows

HumanStep ==
    \E answer \in BOOLEAN : ApproveSpec(answer) \/ DecideRetry(answer) \/ DecideReview(answer)

Next == AgentStep \/ HumanStep

Spec == Init /\ [][Next]_vars

\* Every agent attempt is raced against a timeout, so a node returns or throws.
\* Nothing obliges the human to answer.
FairSpec == Spec /\ WF_vars(AgentStep)

-----------------------------------------------------------------------------
TypeOK ==
    /\ state \in GraphState
    /\ next \in SUBSET Nodes /\ done \in SUBSET Workers
    /\ thrown \in BOOLEAN /\ stopped \in BOOLEAN
    /\ accepted \in SUBSET Stories
    /\ attempts \in 0 .. MaxRetries + 1

\* A story is settled by a passing verdict that needed no review, or by a human who
\* accepted the reviewed one.
Settled(u) ==
    \/ state.mode = "spec_generation" /\ state.specs[u] # "none"
    \/ state.feedback[u].passed /\ ~state.feedback[u].low
    \/ u \in accepted

\* The graph waits for a human exactly when its status says so, and the pending payloads
\* name the checkpoint it waits at: an answer to the wrong checkpoint is refused and no
\* payload of an earlier story is left to ask again (routeAfterCurator reads both).
WaitsAtItsCheckpoint ==
    /\ (state.status = "awaiting_human") <=> (next # {} /\ next \subseteq Checkpoints)
    /\ state.pendingRetry  <=> next = {"retryCheckpoint"}
    /\ state.pendingReview <=> next = {"curatorReviewCheckpoint"}

\* Completion is never reported with a story unsettled, except when the human stopped.
CompletedMeansSettled ==
    state.status = "completed" /\ ~stopped =>
        /\ state.idx = state.stories
        /\ \A u \in 0 .. state.stories - 1 : Settled(u)

\* The self-correction loop is bounded: between two answers of a human the curator judges
\* one story at most MaxRetries + 1 times (MAX_RETRIES, counted by retryCount).
AttemptsBounded ==
    /\ attempts <= MaxRetries + 1
    /\ attempts = MaxRetries + 1 => next \cap Agents = {}

\* The retry counter and the pending payloads never leak from one story to the next.
FreshStory ==
    [][state'.idx # state.idx =>
         /\ state'.idx = state.idx + 1
         /\ state'.retryCount = 0 /\ ~state'.pendingRetry /\ ~state'.pendingReview
         /\ \A u \in Stories : u = state.idx => Settled(u)']_vars

\* Left to itself the graph stops working: it ends, fails, or asks a human.
AutomationHalts == Working ~> ~Working

\* The workflow implements the abstract pipeline of stories.
Pipeline == INSTANCE StoryPipeline WITH
    stories <- state.stories,
    settled <- state.idx,
    phase   <- CASE thrown                                           -> "ended"
                 [] ~thrown /\ next = {} /\ state.status = "completed" -> "completed"
                 [] ~thrown /\ next = {} /\ state.status # "completed" -> "ended"
                 [] Waiting                                            -> "waiting"
                 [] OTHER                                              -> "working"

ImplementsPipeline == Pipeline!Spec

=============================================================================
