----------------------------- MODULE GraphNodes -----------------------------
(***************************************************************************)
(* The nodes and routers of the Horus.AI workflow graph, as what they are  *)
(* in the code: a node is a function from the graph state to an update of  *)
(* it, a router a function from the graph state to the nodes to run next.  *)
(*                                                                         *)
(* A graph state s is a record of the channels of UBuildStateAnnotation    *)
(* that some node or router reads:                                         *)
(*   mode (workflowMode), stories (the length of userStories), status,     *)
(*   idx (currentUSIndex), specs, humanFeedback, feedback                  *)
(*   (curatorFeedback), front (the latest front result of the story in     *)
(*   agentResults), routing (routingDecision), retryCount, pendingRetry    *)
(*   and pendingReview (whether the payload is not null).                  *)
(* A specification is abstracted to what Odin reads of it ("ui": it has UI *)
(* work or no endpoint, "api": neither), a curator verdict to its passed   *)
(* flag, whether its score is below SCORE_THRESHOLD, and its fixTarget.    *)
(***************************************************************************)
EXTENDS Integers, FiniteSets

CONSTANTS
    MaxStories,      \* bound on the length of userStories
    MaxRetries,      \* MAX_RETRIES of curatorAgentNode.ts
    GatesAvailable,  \* the graph is wired with preflightCodeChangeSet, as the server does
    WiredValidators  \* the curator's other validators are the server's own (see Verdicts)

ASSUME GraphAssumption ==
    /\ MaxStories \in Nat \ {0}
    /\ MaxRetries \in Nat \ {0}
    /\ GatesAvailable \in BOOLEAN
    /\ WiredValidators \in BOOLEAN

Stories == 0 .. MaxStories - 1

\* The modes that edit a project; their runs bring a project root and every specification.
CodeModes == {"chat_code_change", "project_construction"}
Modes     == CodeModes \cup {"standard", "spec_generation"}

SpecKind   == {"ui", "api"}
FrontKind  == {"proposed", "edited"}   \* "edited": the governed tool loop already changed files
FixTarget  == {"front", "qa", "both"}
Verdict    == [passed : BOOLEAN, low : BOOLEAN, fixTarget : FixTarget]
NoFeedback == [passed |-> FALSE, low |-> FALSE, fixTarget |-> "none"]
GateFailure == [passed |-> FALSE, low |-> TRUE, fixTarget |-> "front"]

Workers     == {"frontAgent", "qaAgent"}
Checkpoints == {"hitlCheckpoint", "retryCheckpoint", "curatorReviewCheckpoint"}
Nodes       == Workers \cup Checkpoints \cup {"specAgent", "odinAgent", "curatorAgent"}

NodeStatus == {"running", "awaiting_human", "completed", "cancelled", "blocked"}

GraphState ==
    [ mode          : Modes,
      stories       : 1 .. MaxStories,
      status        : NodeStatus,
      idx           : 0 .. MaxStories,
      specs         : [Stories -> SpecKind \cup {"none"}],
      humanFeedback : [Stories -> {"none", "approved", "rejected"}],
      feedback      : [Stories -> Verdict \cup {NoFeedback}],
      front         : [Stories -> FrontKind \cup {"none"}],
      routing       : SUBSET Workers,
      retryCount    : 0 .. MaxRetries + 1,
      pendingRetry  : BOOLEAN,
      pendingReview : BOOLEAN ]

\* The channel values a run starts from.  Project construction refuses stories without a
\* specification and a chat change brings its own one; the other modes reuse what exists.
InitialGraphState(mode, stories, specs) ==
    [ mode          |-> mode,
      stories       |-> stories,
      status        |-> "running",
      idx           |-> 0,
      specs         |-> specs,
      humanFeedback |-> [u \in Stories |-> "none"],
      feedback      |-> [u \in Stories |-> NoFeedback],
      front         |-> [u \in Stories |-> "none"],
      routing       |-> {},
      retryCount    |-> 0,
      pendingRetry  |-> FALSE,
      pendingReview |-> FALSE ]

\* A chat change is about one story.
InitialStories(mode) == IF mode = "chat_code_change" THEN {1} ELSE 1 .. MaxStories

InitialSpecs(mode, stories) ==
    {specs \in [Stories -> SpecKind \cup {"none"}] :
        \A u \in Stories : IF u < stories THEN mode \in CodeModes => specs[u] # "none"
                                         ELSE specs[u] = "none"}

HasStory(s) == s.idx \in Stories /\ s.idx < s.stories
HasSpec(s)  == HasStory(s) /\ s.specs[s.idx] # "none"

-----------------------------------------------------------------------------
(***************************************************************************)
(* Nodes.  Each operator is the node's update; the guard under which the   *)
(* node does not throw is HasStory for specAgent, HasSpec for the others.  *)
(***************************************************************************)

\* Moving to the next story; the workflow completes after the last one.  Wrong variant: the
\* end of the stories is missed by one.
AdvancePastEnd(s) ==
    [s EXCEPT !.idx = @ + 1,
              !.status = IF s.idx + 1 > s.stories THEN "completed" ELSE "running"]

Advance(s) ==
    [s EXCEPT !.idx = @ + 1,
              !.status = IF s.idx + 1 >= s.stories THEN "completed" ELSE "running"]

\* specAgent keeps an existing specification and generates a missing one (of some kind).
\* Wrong variant: spec generation generates again and does not go on to the next story.
SpecAgentStays(s, kind) ==
    [s EXCEPT !.specs[s.idx] = kind,
              !.status = IF s.mode = "spec_generation" THEN "running" ELSE "awaiting_human"]

SpecAgent(s, kind) ==
    LET specified == [s EXCEPT !.specs[s.idx] = IF @ = "none" THEN kind ELSE @]
    IN  IF s.mode = "spec_generation"
        THEN Advance(specified)
        ELSE [specified EXCEPT !.status = "awaiting_human"]

\* The human approves the specification, possibly edited, or cancels the run.
HitlCheckpoint(s, approved, kind) ==
    IF approved
    THEN [s EXCEPT !.humanFeedback[s.idx] = "approved", !.specs[s.idx] = kind,
                   !.status = "running"]
    ELSE [s EXCEPT !.humanFeedback[s.idx] = "rejected", !.status = "cancelled"]

\* decideRouting: a failed verdict names what to fix, else the shape of the specification.
DecideRouting(kind, verdict) ==
    IF verdict # NoFeedback /\ ~verdict.passed
    THEN CASE verdict.fixTarget = "front" -> {"frontAgent"}
           [] verdict.fixTarget = "qa"    -> {"qaAgent"}
           [] OTHER                       -> Workers
    ELSE IF kind = "ui" THEN Workers ELSE {"qaAgent"}

OdinAgent(s) ==
    [s EXCEPT !.routing =
        IF s.status = "completed" THEN {}
        ELSE IF s.mode = "chat_code_change" /\ s.feedback[s.idx] = NoFeedback
             THEN {"frontAgent"}
             ELSE DecideRouting(s.specs[s.idx], s.feedback[s.idx])]

OdinThrows(s) == s.status # "completed" /\ ~HasSpec(s)

\* The front agent appends a change set to its results; the QA agent's result is only
\* evidence for the curator, whose verdict is arbitrary where it depends on it.
FrontAgent(s, out) == [s EXCEPT !.front[s.idx] = out]

\* Another round of retries starts from a fresh counter, or the run is over.  Wrong variant:
\* the counter is not reset.
RetryCheckpointKeepsCount(s, continueRetry) ==
    IF continueRetry
    THEN [s EXCEPT !.pendingRetry = FALSE, !.status = "running"]
    ELSE [s EXCEPT !.pendingRetry = FALSE, !.status = "completed"]

RetryCheckpoint(s, continueRetry) ==
    IF continueRetry
    THEN [s EXCEPT !.pendingRetry = FALSE, !.retryCount = 0, !.status = "running"]
    ELSE [s EXCEPT !.pendingRetry = FALSE, !.status = "completed"]

\* An accepted review settles the story, a refused one sends it back.  Wrong variants: the
\* pending payload is left behind; so is the counter.
ReviewKeepsPending(s, accepted) ==
    LET reviewed == [s EXCEPT !.retryCount = 0]
    IN  IF accepted THEN Advance(reviewed) ELSE [reviewed EXCEPT !.status = "running"]

ReviewKeepsCount(s, accepted) ==
    LET reviewed == [s EXCEPT !.pendingReview = FALSE]
    IN  IF accepted THEN Advance(reviewed) ELSE [reviewed EXCEPT !.status = "running"]

CuratorReviewCheckpoint(s, accepted) ==
    LET reviewed == [s EXCEPT !.pendingReview = FALSE, !.retryCount = 0]
    IN  IF accepted THEN Advance(reviewed) ELSE [reviewed EXCEPT !.status = "running"]

-----------------------------------------------------------------------------
(* The curator: which verdicts it can reach, and what it makes of one. *)

GatesRequired(s) ==
    s.front[s.idx] # "none" /\ s.mode \in CodeModes

ToolEditSucceeded(s) == s.mode = "chat_code_change" /\ s.front[s.idx] = "edited"

\* Deterministic gates decide in the code-changing modes: without them the verdict is a
\* failure with score 0, with them a pass scores at least 94 and a failure blames the front
\* agent.  Elsewhere a model answers.  The validators are injected; those the server wires
\* in fail every story without a front result (the visual gate finds nothing to look at) and
\* never fail one with a score of SCORE_THRESHOLD or more (the gate fails below it, and the
\* model's answer is made to pass from it on).  The fixTarget of a pass is read by nothing.
Verdicts(s) ==
    IF (GatesRequired(s) /\ ~GatesAvailable) \/ (WiredValidators /\ s.front[s.idx] = "none")
    THEN {GateFailure}
    ELSE {v \in Verdict : /\ GatesRequired(s) => v.fixTarget = "front" /\ (v.passed => ~v.low)
                          /\ WiredValidators => (v.passed \/ v.low)
                          /\ v.passed => v.fixTarget = "front"}

\* The outcomes.  Wrong variants: a pass is a pass whatever its score; one retry too many.
PassesWithAnyScore(s, v) == v.passed

CuratorPasses(s, v)     == v.passed /\ ~v.low
CuratorDoubts(s, v)     == v.passed /\ v.low
CuratorBlocks(s, v)     == /\ ~v.passed
                           /\ ToolEditSucceeded(s) \/ (GatesRequired(s) /\ ~GatesAvailable)
EscalatesLate(s, v)     == ~v.passed /\ ~CuratorBlocks(s, v) /\ s.retryCount > MaxRetries
CuratorEscalates(s, v)  == ~v.passed /\ ~CuratorBlocks(s, v) /\ s.retryCount >= MaxRetries
CuratorAsksFirst(s, v)  == ~v.passed /\ ~CuratorBlocks(s, v) /\ s.retryCount < MaxRetries /\ v.low

CuratorAgent(s, v) ==
    LET judged == [s EXCEPT !.feedback[s.idx] = v]
        failed == [judged EXCEPT !.retryCount = @ + 1]
    IN  CASE CuratorPasses(s, v) ->
               Advance([judged EXCEPT !.retryCount = 0,
                                      !.pendingRetry = FALSE, !.pendingReview = FALSE])
          [] CuratorDoubts(s, v) ->
               [judged EXCEPT !.pendingRetry = FALSE, !.pendingReview = TRUE,
                              !.status = "awaiting_human"]
          [] CuratorBlocks(s, v) ->
               [judged EXCEPT !.pendingRetry = FALSE, !.status = "blocked"]
          [] CuratorEscalates(s, v) ->
               [failed EXCEPT !.pendingRetry = TRUE, !.status = "awaiting_human"]
          [] CuratorAsksFirst(s, v) ->
               [failed EXCEPT !.pendingRetry = FALSE, !.pendingReview = TRUE,
                              !.status = "awaiting_human"]
          [] OTHER ->
               [failed EXCEPT !.pendingRetry = FALSE, !.status = "running"]

-----------------------------------------------------------------------------
(* Routers: the nodes of the next superstep; the empty set is END. *)

Ended(s) == s.status \in {"completed", "cancelled", "blocked"}

RouteFromStart(s) ==
    IF s.mode \in CodeModes THEN {"odinAgent"} ELSE {"specAgent"}

RouteAfterSpecAgent(s) ==
    IF s.mode # "spec_generation" THEN {"hitlCheckpoint"}
    ELSE IF s.status \in {"completed", "blocked"} THEN {} ELSE {"specAgent"}

RouteAfterHitlCheckpoint(s) ==
    IF s.status \in {"cancelled", "blocked"} THEN {} ELSE {"odinAgent"}

RouteToParallelAgents(s) ==
    IF Ended(s) \/ ~HasStory(s) THEN {}
    ELSE IF s.routing = {} THEN Workers ELSE s.routing

RouteAfterCurator(s) ==
    IF s.status = "awaiting_human" /\ s.pendingReview THEN {"curatorReviewCheckpoint"}
    ELSE IF s.status = "completed" THEN {"odinAgent"}
    ELSE IF s.status \in {"cancelled", "blocked"} \/ ~HasStory(s) THEN {}
    ELSE IF s.feedback[s.idx] = NoFeedback \/ s.feedback[s.idx].passed
         THEN IF s.mode = "project_construction" THEN {"odinAgent"} ELSE {"specAgent"}
    ELSE IF s.pendingRetry THEN {"retryCheckpoint"}
    ELSE {"odinAgent"}

RouteAfterCuratorReviewCheckpoint(s) ==
    IF s.status \in {"completed", "cancelled"} THEN {} ELSE {"odinAgent"}

RouteAfterRetryCheckpoint(s) ==
    IF s.status \in {"completed", "blocked"} THEN {} ELSE {"odinAgent"}

=============================================================================
