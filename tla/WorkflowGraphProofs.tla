------------------------- MODULE WorkflowGraphProofs -------------------------
(***************************************************************************)
(* Proofs about the workflow graph, for every number of stories, every     *)
(* mode, every retry limit and every answer of the agents and the human.   *)
(***************************************************************************)
EXTENDS WorkflowGraph, TLAPS

\* The strengthening: a superstep is a set of workers or a single other node, the retry
\* counter covers the verdicts given without a human, and the settled stories are a prefix.
SuperstepShape == next \subseteq Workers \/ \E n \in Nodes \ Workers : next = {n}

CounterCovers ==
    next \cap (Agents \cup {"hitlCheckpoint"}) # {} =>
        attempts <= state.retryCount /\ state.retryCount <= MaxRetries

SettledPrefix == \A u \in Stories : u < state.idx => Settled(u)

CompletedAtTheEnd == state.status = "completed" /\ ~stopped => state.idx = state.stories

IInv ==
    /\ TypeOK
    /\ SuperstepShape
    /\ WaitsAtItsCheckpoint
    /\ CounterCovers
    /\ SettledPrefix
    /\ CompletedAtTheEnd

-----------------------------------------------------------------------------
(* What each node returns, and what it leaves alone. *)

LEMMA Ranges ==
    /\ 0 \in 0 .. MaxRetries + 1
    /\ {"running", "awaiting_human", "completed", "cancelled", "blocked"} \subseteq NodeStatus
  BY GraphAssumption DEF NodeStatus

LEMMA IndexRange ==
    ASSUME NEW s \in GraphState PROVE s.idx \in 0 .. MaxStories /\ s.stories \in 1 .. MaxStories
  BY DEF GraphState

\* One past the current story is at most their number.
LEMMA LastStory ==
    ASSUME NEW s \in GraphState, HasStory(s), NEW i, i = s.idx + 1, i >= s.stories
    PROVE  i = s.stories
  BY IndexRange, GraphAssumption DEF HasStory, Stories

LEMMA AskLemma ==
    ASSUME NEW s \in GraphState,
           NEW t, t = [s EXCEPT !.pendingRetry = FALSE, !.pendingReview = TRUE,
                                !.status = "awaiting_human"]
    PROVE  /\ t \in GraphState /\ t.mode = s.mode /\ t.stories = s.stories
           /\ t.specs = s.specs /\ t.front = s.front /\ t.idx = s.idx /\ t.feedback = s.feedback
           /\ t.retryCount = s.retryCount
           /\ t.pendingRetry = FALSE /\ t.pendingReview = TRUE /\ t.status = "awaiting_human"
  <1> DEFINE r == [s EXCEPT !.pendingRetry = FALSE, !.pendingReview = TRUE]
  <1>1. /\ r \in GraphState /\ r.mode = s.mode /\ r.stories = s.stories
        /\ r.specs = s.specs /\ r.front = s.front /\ r.idx = s.idx /\ r.feedback = s.feedback
        /\ r.retryCount = s.retryCount /\ r.pendingRetry = FALSE /\ r.pendingReview = TRUE
    BY DEF GraphState
  <1>2. t = [r EXCEPT !.status = "awaiting_human"]
    BY DEF GraphState
  <1> HIDE DEF r
  <1> QED
    BY <1>1, <1>2, Ranges DEF GraphState

LEMMA AdvanceLemma ==
    ASSUME NEW s \in GraphState, HasStory(s)
    PROVE  /\ Advance(s) \in GraphState /\ Advance(s).mode = s.mode /\ Advance(s).stories = s.stories
           /\ Advance(s).idx = s.idx + 1
           /\ Advance(s).status = IF s.idx + 1 >= s.stories THEN "completed" ELSE "running"
           /\ Advance(s).specs = s.specs /\ Advance(s).feedback = s.feedback /\ Advance(s).front = s.front
           /\ Advance(s).retryCount = s.retryCount
           /\ Advance(s).pendingRetry = s.pendingRetry
           /\ Advance(s).pendingReview = s.pendingReview
  <1> DEFINE i == s.idx + 1
             st == IF s.idx + 1 >= s.stories THEN "completed" ELSE "running"
  <1>1. i \in 0 .. MaxStories
    BY GraphAssumption DEF HasStory, Stories
  <1>2. st \in NodeStatus
    BY DEF NodeStatus
  <1>3. Advance(s) = [s EXCEPT !.idx = i, !.status = st]
    BY DEF Advance
  <1> HIDE DEF i, st
  <1>4. /\ Advance(s) \in GraphState /\ Advance(s).mode = s.mode /\ Advance(s).stories = s.stories
        /\ Advance(s).idx = i /\ Advance(s).status = st
        /\ Advance(s).specs = s.specs /\ Advance(s).feedback = s.feedback /\ Advance(s).front = s.front
        /\ Advance(s).retryCount = s.retryCount
        /\ Advance(s).pendingRetry = s.pendingRetry
        /\ Advance(s).pendingReview = s.pendingReview
    BY <1>1, <1>2, <1>3 DEF GraphState
  <1> QED
    BY <1>4 DEF i, st

LEMMA SpecAgentLemma ==
    ASSUME NEW s \in GraphState, HasStory(s), NEW kind \in SpecKind,
           NEW t, t = SpecAgent(s, kind)
    PROVE  /\ t \in GraphState /\ t.mode = s.mode /\ t.stories = s.stories
           /\ t.specs[s.idx] # "none"
           /\ \A u \in Stories : s.specs[u] # "none" => t.specs[u] # "none"
           /\ t.feedback = s.feedback /\ t.front = s.front /\ t.retryCount = s.retryCount
           /\ t.pendingRetry = s.pendingRetry /\ t.pendingReview = s.pendingReview
           /\ s.mode = "spec_generation" =>
                /\ t.idx = s.idx + 1
                /\ t.status = IF t.idx >= s.stories THEN "completed" ELSE "running"
           /\ s.mode # "spec_generation" => t.idx = s.idx /\ t.status = "awaiting_human"
  <1> DEFINE specified == [s EXCEPT !.specs[s.idx] = IF @ = "none" THEN kind ELSE @]
  <1>1. /\ specified \in GraphState
        /\ specified.mode = s.mode /\ specified.stories = s.stories
    BY DEF GraphState, HasStory, Stories
  <1>2. /\ specified.specs[s.idx] # "none"
        /\ \A u \in Stories : s.specs[u] # "none" => specified.specs[u] # "none"
        /\ specified.idx = s.idx /\ specified.feedback = s.feedback /\ specified.front = s.front
        /\ specified.retryCount = s.retryCount
        /\ specified.pendingRetry = s.pendingRetry
        /\ specified.pendingReview = s.pendingReview
    BY DEF GraphState, HasStory, Stories, SpecKind
  <1> HIDE DEF specified
  <1>3. CASE s.mode = "spec_generation"
    <2>1. t = Advance(specified)
      BY <1>3 DEF SpecAgent, specified
    <2>2. HasStory(specified)
      BY <1>1, <1>2 DEF HasStory
    <2> QED
      BY <1>1, <1>2, <1>3, <2>1, <2>2, AdvanceLemma
  <1>4. CASE s.mode # "spec_generation"
    <2>1. t = [specified EXCEPT !.status = "awaiting_human"]
      BY <1>4 DEF SpecAgent, specified
    <2>2. /\ t \in GraphState /\ t.mode = s.mode /\ t.stories = s.stories
          /\ t.specs = specified.specs /\ t.feedback = specified.feedback /\ t.front = specified.front
          /\ t.retryCount = specified.retryCount /\ t.idx = specified.idx
          /\ t.pendingRetry = specified.pendingRetry
          /\ t.pendingReview = specified.pendingReview
          /\ t.status = "awaiting_human"
      BY <1>1, <2>1, Ranges DEF GraphState
    <2> QED
      BY <1>2, <1>4, <2>2
  <1> QED
    BY <1>3, <1>4

LEMMA HitlCheckpointLemma ==
    ASSUME NEW s \in GraphState, HasSpec(s), NEW approved \in BOOLEAN, NEW kind \in SpecKind,
           NEW t, t = HitlCheckpoint(s, approved, kind)
    PROVE  /\ t \in GraphState /\ t.mode = s.mode /\ t.stories = s.stories
           /\ t.idx = s.idx /\ t.feedback = s.feedback /\ t.front = s.front /\ t.retryCount = s.retryCount
           /\ t.pendingRetry = s.pendingRetry /\ t.pendingReview = s.pendingReview
           /\ \A u \in Stories : s.specs[u] # "none" => t.specs[u] # "none"
           /\ t.status = IF approved THEN "running" ELSE "cancelled"
  <1> USE DEF HitlCheckpoint, GraphState, HasSpec, HasStory, Stories, NodeStatus, SpecKind
  <1>1. CASE approved
    BY <1>1
  <1>2. CASE ~approved
    BY <1>2
  <1> QED
    BY <1>1, <1>2

LEMMA OdinAgentLemma ==
    ASSUME NEW s \in GraphState, NEW t, t = OdinAgent(s)
    PROVE  /\ t \in GraphState /\ t.mode = s.mode /\ t.stories = s.stories
           /\ t.idx = s.idx /\ t.feedback = s.feedback /\ t.front = s.front /\ t.retryCount = s.retryCount
           /\ t.specs = s.specs /\ t.status = s.status
           /\ t.pendingRetry = s.pendingRetry /\ t.pendingReview = s.pendingReview
  <1>1. \A kind, verdict : DecideRouting(kind, verdict) \in SUBSET Workers
    BY DEF DecideRouting, Workers
  <1> DEFINE route == IF s.status = "completed" THEN {}
                      ELSE IF s.mode = "chat_code_change" /\ s.feedback[s.idx] = NoFeedback
                           THEN {"frontAgent"}
                           ELSE DecideRouting(s.specs[s.idx], s.feedback[s.idx])
  <1>2. route \in SUBSET Workers
    BY <1>1 DEF Workers
  <1>3. t = [s EXCEPT !.routing = route]
    BY DEF OdinAgent
  <1> HIDE DEF route
  <1> QED
    BY <1>2, <1>3 DEF GraphState

LEMMA FrontAgentLemma ==
    ASSUME NEW s \in GraphState, HasStory(s), NEW out \in FrontKind, NEW t, t = FrontAgent(s, out)
    PROVE  /\ t \in GraphState /\ t.mode = s.mode /\ t.stories = s.stories
           /\ t.idx = s.idx /\ t.feedback = s.feedback /\ t.retryCount = s.retryCount
           /\ t.specs = s.specs /\ t.status = s.status
           /\ t.pendingRetry = s.pendingRetry /\ t.pendingReview = s.pendingReview
  BY DEF FrontAgent, GraphState, HasStory, Stories

LEMMA FrontResultLemma ==
    ASSUME NEW s \in GraphState, HasStory(s), NEW out \in FrontKind
    PROVE  FrontAgent(s, out).front = [s.front EXCEPT ![s.idx] = out]
  BY DEF FrontAgent, GraphState

LEMMA CuratorReviewCheckpointLemma ==
    ASSUME NEW s \in GraphState, HasStory(s), NEW accept \in BOOLEAN,
           NEW t, t = CuratorReviewCheckpoint(s, accept)
    PROVE  /\ t \in GraphState /\ t.mode = s.mode /\ t.stories = s.stories
           /\ t.feedback = s.feedback /\ t.specs = s.specs /\ t.front = s.front
           /\ t.retryCount = 0
           /\ t.pendingRetry = s.pendingRetry /\ t.pendingReview = FALSE
           /\ accept => /\ t.idx = s.idx + 1
                        /\ t.status = IF t.idx >= s.stories THEN "completed" ELSE "running"
           /\ ~accept => t.idx = s.idx /\ t.status = "running"
  <1> DEFINE reviewed == [s EXCEPT !.pendingReview = FALSE, !.retryCount = 0]
  <1>1. /\ reviewed \in GraphState /\ reviewed.mode = s.mode /\ reviewed.stories = s.stories
        /\ reviewed.idx = s.idx /\ reviewed.feedback = s.feedback /\ reviewed.specs = s.specs /\ reviewed.front = s.front
        /\ reviewed.retryCount = 0
        /\ reviewed.pendingRetry = s.pendingRetry /\ reviewed.pendingReview = FALSE
    BY Ranges DEF GraphState
  <1> HIDE DEF reviewed
  <1>2. CASE accept
    <2>1. t = Advance(reviewed) /\ HasStory(reviewed)
      BY <1>1, <1>2 DEF CuratorReviewCheckpoint, HasStory, reviewed
    <2>2. /\ t \in GraphState /\ t.mode = s.mode /\ t.stories = s.stories
          /\ t.feedback = s.feedback /\ t.specs = s.specs /\ t.front = s.front
          /\ t.retryCount = 0 /\ t.idx = s.idx + 1
          /\ t.pendingRetry = s.pendingRetry /\ t.pendingReview = FALSE
          /\ t.status = IF s.idx + 1 >= s.stories THEN "completed" ELSE "running"
      BY <1>1, <2>1, AdvanceLemma
    <2> QED
      BY <1>2, <2>2
  <1>3. CASE ~accept
    <2>1. t = [reviewed EXCEPT !.status = "running"]
      BY <1>3 DEF CuratorReviewCheckpoint, reviewed
    <2> QED
      BY <1>1, <1>3, <2>1, Ranges DEF GraphState
  <1> QED
    BY <1>2, <1>3

\* The state before the verdict is that of a running curator: no payload is pending and a
\* retry is left or this is the last one.
LEMMA CuratorAgentLemma ==
    ASSUME NEW s \in GraphState, HasStory(s), NEW v \in Verdict,
           s.retryCount <= MaxRetries, ~s.pendingRetry, ~s.pendingReview,
           NEW t, t = CuratorAgent(s, v)
    PROVE  /\ t \in GraphState /\ t.mode = s.mode /\ t.stories = s.stories
           /\ t.specs = s.specs /\ t.front = s.front
           /\ t.feedback = [s.feedback EXCEPT ![s.idx] = v]
           /\ CuratorPasses(s, v) =>
                /\ t.idx = s.idx + 1 /\ t.retryCount = 0
                /\ ~t.pendingRetry /\ ~t.pendingReview
                /\ t.status = IF t.idx >= s.stories THEN "completed" ELSE "running"
           /\ ~CuratorPasses(s, v) => t.idx = s.idx
           /\ CuratorDoubts(s, v) =>
                /\ t.retryCount = s.retryCount
                /\ ~t.pendingRetry /\ t.pendingReview /\ t.status = "awaiting_human"
           /\ CuratorBlocks(s, v) =>
                /\ ~t.pendingRetry /\ ~t.pendingReview /\ t.status = "blocked"
           /\ CuratorEscalates(s, v) =>
                /\ t.retryCount = s.retryCount + 1
                /\ t.pendingRetry /\ ~t.pendingReview /\ t.status = "awaiting_human"
           /\ CuratorAsksFirst(s, v) =>
                /\ t.retryCount = s.retryCount + 1 /\ t.retryCount <= MaxRetries
                /\ ~t.pendingRetry /\ t.pendingReview /\ t.status = "awaiting_human"
           /\ ~(v.passed \/ CuratorBlocks(s, v) \/ CuratorEscalates(s, v) \/ CuratorAsksFirst(s, v)) =>
                /\ t.retryCount = s.retryCount + 1 /\ t.retryCount <= MaxRetries
                /\ ~t.pendingRetry /\ ~t.pendingReview /\ t.status = "running"
  <1> DEFINE judged == [s EXCEPT !.feedback[s.idx] = v]
             failed == [judged EXCEPT !.retryCount = @ + 1]
             passing == [judged EXCEPT !.retryCount = 0,
                                       !.pendingRetry = FALSE, !.pendingReview = FALSE]
  <1>1. /\ judged \in GraphState /\ judged.mode = s.mode /\ judged.stories = s.stories
        /\ judged.feedback = [s.feedback EXCEPT ![s.idx] = v]
        /\ judged.idx = s.idx /\ judged.specs = s.specs /\ judged.front = s.front
        /\ judged.retryCount = s.retryCount
        /\ judged.pendingRetry = s.pendingRetry /\ judged.pendingReview = s.pendingReview
    BY DEF GraphState, HasStory
  <1> HIDE DEF judged
  <1>2. s.retryCount + 1 \in 0 .. MaxRetries + 1
    BY GraphAssumption DEF GraphState
  <1>3. /\ failed \in GraphState /\ failed.mode = s.mode /\ failed.stories = s.stories
        /\ failed.feedback = [s.feedback EXCEPT ![s.idx] = v]
        /\ failed.idx = s.idx /\ failed.specs = s.specs /\ failed.front = s.front
        /\ failed.retryCount = s.retryCount + 1
        /\ failed.pendingRetry = s.pendingRetry /\ failed.pendingReview = s.pendingReview
    BY <1>1, <1>2 DEF GraphState
  <1>4. /\ passing \in GraphState /\ passing.mode = s.mode /\ passing.stories = s.stories
        /\ passing.feedback = [s.feedback EXCEPT ![s.idx] = v]
        /\ passing.idx = s.idx /\ passing.specs = s.specs /\ passing.front = s.front
        /\ passing.retryCount = 0 /\ ~passing.pendingRetry /\ ~passing.pendingReview
    BY <1>1, Ranges DEF GraphState
  <1> HIDE DEF failed, passing
  <1>0. /\ CuratorPasses(s, v) => ~(\/ CuratorDoubts(s, v) \/ CuratorBlocks(s, v)
                                    \/ CuratorEscalates(s, v) \/ CuratorAsksFirst(s, v))
        /\ CuratorDoubts(s, v) => ~(\/ CuratorBlocks(s, v) \/ CuratorEscalates(s, v)
                                    \/ CuratorAsksFirst(s, v))
        /\ CuratorBlocks(s, v) => ~(CuratorEscalates(s, v) \/ CuratorAsksFirst(s, v))
        /\ CuratorEscalates(s, v) => ~CuratorAsksFirst(s, v)
    BY GraphAssumption
    DEF CuratorPasses, CuratorDoubts, CuratorBlocks, CuratorEscalates, CuratorAsksFirst, GraphState
  <1>5. CASE CuratorPasses(s, v)
    <2>1. t = Advance(passing) /\ HasStory(passing)
      BY <1>0, <1>4, <1>5 DEF CuratorAgent, judged, passing, HasStory
    <2>2. /\ t \in GraphState /\ t.mode = s.mode /\ t.stories = s.stories
          /\ t.specs = s.specs /\ t.front = s.front
          /\ t.feedback = [s.feedback EXCEPT ![s.idx] = v]
          /\ t.idx = s.idx + 1 /\ t.retryCount = 0
          /\ ~t.pendingRetry /\ ~t.pendingReview
          /\ t.status = IF s.idx + 1 >= s.stories THEN "completed" ELSE "running"
      BY <1>4, <2>1, AdvanceLemma
    <2>3. v.passed /\ ~v.low
      BY <1>5 DEF CuratorPasses
    <2> QED
      BY <1>5, <2>2, <2>3
      DEF CuratorDoubts, CuratorBlocks, CuratorEscalates, CuratorAsksFirst
  <1>6. CASE CuratorDoubts(s, v)
    <2>1. v.passed /\ v.low
      BY <1>6 DEF CuratorDoubts
    <2>2. t = [judged EXCEPT !.pendingRetry = FALSE, !.pendingReview = TRUE,
                             !.status = "awaiting_human"]
      BY <1>0, <1>6 DEF CuratorAgent, judged
    <2>3. /\ t \in GraphState /\ t.mode = s.mode /\ t.stories = s.stories
          /\ t.specs = s.specs /\ t.front = s.front /\ t.idx = s.idx
          /\ t.feedback = [s.feedback EXCEPT ![s.idx] = v]
          /\ t.retryCount = s.retryCount
          /\ ~t.pendingRetry /\ t.pendingReview /\ t.status = "awaiting_human"
      BY <1>1, <2>2, AskLemma, ZenonT(60)
    <2> QED
      BY <2>1, <2>3
      DEF CuratorPasses, CuratorDoubts, CuratorBlocks, CuratorEscalates, CuratorAsksFirst
  <1>7. CASE CuratorBlocks(s, v)
    <2>1. ~v.passed
      BY <1>7 DEF CuratorBlocks
    <2>2. t = [judged EXCEPT !.pendingRetry = FALSE, !.status = "blocked"]
      BY <1>0, <1>7 DEF CuratorAgent, judged
    <2>3. /\ t \in GraphState /\ t.mode = s.mode /\ t.stories = s.stories
          /\ t.specs = s.specs /\ t.front = s.front /\ t.idx = s.idx
          /\ t.feedback = [s.feedback EXCEPT ![s.idx] = v]
          /\ ~t.pendingRetry /\ ~t.pendingReview /\ t.status = "blocked"
      BY <1>1, <2>2, Ranges, ZenonT(60) DEF GraphState
    <2> QED
      BY <1>7, <2>1, <2>3 DEF CuratorPasses, CuratorDoubts, CuratorEscalates, CuratorAsksFirst
  <1>8. CASE CuratorEscalates(s, v)
    <2>1. ~v.passed /\ ~CuratorBlocks(s, v) /\ s.retryCount >= MaxRetries
      BY <1>8 DEF CuratorEscalates
    <2>2. t = [failed EXCEPT !.pendingRetry = TRUE, !.status = "awaiting_human"]
      BY <1>0, <1>8 DEF CuratorAgent, judged, failed
    <2>3. /\ t \in GraphState /\ t.mode = s.mode /\ t.stories = s.stories
          /\ t.specs = s.specs /\ t.front = s.front /\ t.idx = s.idx
          /\ t.feedback = [s.feedback EXCEPT ![s.idx] = v]
          /\ t.retryCount = s.retryCount + 1
          /\ t.pendingRetry /\ ~t.pendingReview /\ t.status = "awaiting_human"
      BY <1>3, <2>2, Ranges, ZenonT(60) DEF GraphState
    <2>4. ~CuratorAsksFirst(s, v)
      BY <2>1, GraphAssumption DEF CuratorAsksFirst, GraphState
    <2> QED
      BY <1>8, <2>1, <2>3, <2>4 DEF CuratorPasses, CuratorDoubts
  <1>9. CASE CuratorAsksFirst(s, v)
    <2>1. ~v.passed /\ ~CuratorBlocks(s, v) /\ s.retryCount < MaxRetries
      BY <1>9 DEF CuratorAsksFirst
    <2>2. ~CuratorEscalates(s, v)
      BY <2>1, GraphAssumption DEF CuratorEscalates, GraphState
    <2>3. t = [failed EXCEPT !.pendingRetry = FALSE, !.pendingReview = TRUE,
                             !.status = "awaiting_human"]
      BY <1>0, <1>9 DEF CuratorAgent, judged, failed
    <2>4. /\ t \in GraphState /\ t.mode = s.mode /\ t.stories = s.stories
          /\ t.specs = s.specs /\ t.front = s.front /\ t.idx = s.idx
          /\ t.feedback = [s.feedback EXCEPT ![s.idx] = v]
          /\ t.retryCount = s.retryCount + 1
          /\ ~t.pendingRetry /\ t.pendingReview /\ t.status = "awaiting_human"
      BY <1>3, <2>3, AskLemma, ZenonT(60)
    <2>5. t.retryCount <= MaxRetries
      BY <2>1, <2>4, GraphAssumption DEF GraphState
    <2> QED
      BY <1>9, <2>1, <2>2, <2>4, <2>5 DEF CuratorPasses, CuratorDoubts
  <1>10. CASE ~(\/ CuratorPasses(s, v) \/ CuratorDoubts(s, v) \/ CuratorBlocks(s, v)
                \/ CuratorEscalates(s, v) \/ CuratorAsksFirst(s, v))
    <2>1. t = [failed EXCEPT !.pendingRetry = FALSE, !.status = "running"]
      BY <1>10 DEF CuratorAgent, judged, failed
    <2>2. /\ t \in GraphState /\ t.mode = s.mode /\ t.stories = s.stories
          /\ t.specs = s.specs /\ t.front = s.front /\ t.idx = s.idx
          /\ t.feedback = [s.feedback EXCEPT ![s.idx] = v]
          /\ t.retryCount = s.retryCount + 1
          /\ ~t.pendingRetry /\ ~t.pendingReview /\ t.status = "running"
      BY <1>3, <2>1, Ranges, ZenonT(60) DEF GraphState
    <2>3. ~v.passed
      BY <1>10 DEF CuratorPasses, CuratorDoubts, Verdict
    <2>4. s.retryCount < MaxRetries
      BY <1>10, <2>3, GraphAssumption DEF CuratorEscalates, GraphState
    <2>5. t.retryCount <= MaxRetries
      BY <2>2, <2>4, GraphAssumption DEF GraphState
    <2> QED
      BY <1>10, <2>2, <2>3, <2>5
  <1> QED
    BY <1>5, <1>6, <1>7, <1>8, <1>9, <1>10

-----------------------------------------------------------------------------
(* The invariant is inductive: one lemma per action. *)

\* The facts about a step that every action's proof starts from.
LEMMA SingleNode ==
    ASSUME IInv, NEW n \in Nodes \ Workers, next = {n}
    PROVE  /\ (state.status = "awaiting_human") <=> n \in Checkpoints
           /\ state.pendingRetry  <=> n = "retryCheckpoint"
           /\ state.pendingReview <=> n = "curatorReviewCheckpoint"
           /\ n \in Agents \cup {"hitlCheckpoint"} =>
                attempts <= state.retryCount /\ state.retryCount <= MaxRetries
  BY DEF IInv, WaitsAtItsCheckpoint, CounterCovers, Agents

LEMMA InitIInv == Init => IInv
  <1> SUFFICES ASSUME Init PROVE IInv
    OBVIOUS
  <1>1. PICK mode, stories, specs :
          /\ mode \in Modes /\ stories \in InitialStories(mode)
          /\ specs \in InitialSpecs(mode, stories)
          /\ state = InitialGraphState(mode, stories, specs)
    BY DEF Init
  <1>2. /\ specs \in [Stories -> SpecKind \cup {"none"}]
        /\ stories \in 1 .. MaxStories
    BY <1>1, GraphAssumption DEF InitialSpecs, InitialStories
  <1>3. /\ 0 \in 0 .. MaxStories /\ 0 \in 0 .. MaxRetries + 1 /\ {} \in SUBSET Workers
        /\ "running" \in NodeStatus
    BY GraphAssumption, Ranges
  <1>4. /\ [u \in Stories |-> "none"] \in [Stories -> {"none", "approved", "rejected"}]
        /\ [u \in Stories |-> "none"] \in [Stories -> FrontKind \cup {"none"}]
        /\ [u \in Stories |-> NoFeedback] \in [Stories -> Verdict \cup {NoFeedback}]
    OBVIOUS
  <1>5. /\ state \in GraphState
        /\ state.status = "running" /\ state.idx = 0 /\ state.retryCount = 0
        /\ ~state.pendingRetry /\ ~state.pendingReview
    BY <1>1, <1>2, <1>3, <1>4 DEF InitialGraphState, GraphState
  <1>6. next \in {{"odinAgent"}, {"specAgent"}}
    BY DEF Init, RouteFromStart
  <1>7. TypeOK
    BY <1>3, <1>5, <1>6 DEF Init, TypeOK, Nodes
  <1>8. SuperstepShape /\ WaitsAtItsCheckpoint
    BY <1>5, <1>6 DEF SuperstepShape, WaitsAtItsCheckpoint, Nodes, Workers, Checkpoints
  <1>9. CounterCovers
    BY <1>5, GraphAssumption DEF Init, CounterCovers
  <1>10. SettledPrefix /\ CompletedAtTheEnd
    BY <1>5, GraphAssumption DEF SettledPrefix, CompletedAtTheEnd, Stories
  <1> QED
    BY <1>7, <1>8, <1>9, <1>10 DEF IInv

LEMMA SpecAgentStep == IInv /\ RunSpecAgent => IInv'
  <1> SUFFICES ASSUME IInv, RunSpecAgent PROVE IInv'
    OBVIOUS
  <1>1. PICK kind \in SpecKind : state' = SpecAgent(state, kind)
    BY DEF RunSpecAgent
  <1>2. /\ next = {"specAgent"} /\ next' = RouteAfterSpecAgent(state') /\ HasStory(state)
        /\ UNCHANGED <<done, thrown, accepted, stopped, attempts>>
    BY DEF RunSpecAgent, RunsAlone, history
  <1>3. state \in GraphState
    BY DEF IInv, TypeOK
  <1>4. /\ ~state.pendingRetry /\ ~state.pendingReview
        /\ attempts <= state.retryCount /\ state.retryCount <= MaxRetries
    BY <1>2, SingleNode DEF Nodes, Workers, Checkpoints, Agents
  <1>5. /\ state' \in GraphState /\ state'.mode = state.mode /\ state'.stories = state.stories
        /\ state'.specs[state.idx] # "none"
        /\ \A u \in Stories : state.specs[u] # "none" => state'.specs[u] # "none"
        /\ state'.feedback = state.feedback /\ state'.retryCount = state.retryCount
        /\ ~state'.pendingRetry /\ ~state'.pendingReview
        /\ state.mode = "spec_generation" =>
             /\ state'.idx = state.idx + 1
             /\ state'.status = IF state'.idx >= state.stories THEN "completed" ELSE "running"
        /\ state.mode # "spec_generation" => state'.idx = state.idx /\ state'.status = "awaiting_human"
    <2>1. ASSUME NEW t, t = SpecAgent(state, kind)
          PROVE  /\ t \in GraphState /\ t.mode = state.mode /\ t.stories = state.stories
                 /\ t.specs[state.idx] # "none"
                 /\ \A u \in Stories : state.specs[u] # "none" => t.specs[u] # "none"
                 /\ t.feedback = state.feedback /\ t.retryCount = state.retryCount
                 /\ t.pendingRetry = state.pendingRetry /\ t.pendingReview = state.pendingReview
                 /\ state.mode = "spec_generation" =>
                      /\ t.idx = state.idx + 1
                      /\ t.status = IF t.idx >= state.stories THEN "completed" ELSE "running"
                 /\ state.mode # "spec_generation" => t.idx = state.idx /\ t.status = "awaiting_human"
      BY <1>2, <1>3, <2>1, SpecAgentLemma
    <2>2. /\ state' \in GraphState /\ state'.mode = state.mode /\ state'.stories = state.stories
          /\ state'.specs[state.idx] # "none"
          /\ \A u \in Stories : state.specs[u] # "none" => state'.specs[u] # "none"
          /\ state'.feedback = state.feedback /\ state'.retryCount = state.retryCount
          /\ state'.pendingRetry = state.pendingRetry /\ state'.pendingReview = state.pendingReview
      BY <1>1, <2>1
    <2>3. state.mode = "spec_generation" =>
            /\ state'.idx = state.idx + 1
            /\ state'.status = IF state'.idx >= state.stories THEN "completed" ELSE "running"
      BY <1>1, <2>1
    <2>4. state.mode # "spec_generation" => state'.idx = state.idx /\ state'.status = "awaiting_human"
      BY <1>1, <2>1
    <2> QED
      BY <1>4, <2>2, <2>3, <2>4
  <1>6. CASE state.mode = "spec_generation"
    <2>1. next' \in {{}, {"specAgent"}}
      BY <1>2, <1>5, <1>6 DEF RouteAfterSpecAgent
    <2>2. TypeOK'
      BY <1>2, <1>5, <2>1 DEF IInv, TypeOK, Nodes
    <2>3. (SuperstepShape /\ WaitsAtItsCheckpoint)'
      BY <1>5, <1>6, <2>1
      DEF SuperstepShape, WaitsAtItsCheckpoint, Nodes, Workers, Checkpoints
    <2>4. CounterCovers'
      BY <1>2, <1>4, <1>5 DEF CounterCovers
    <2>5. SettledPrefix'
      <3> SUFFICES ASSUME NEW u \in Stories, u < state'.idx PROVE Settled(u)'
        BY DEF SettledPrefix
      <3>1. u < state.idx \/ u = state.idx
        BY <1>2, <1>5, <1>6 DEF Stories, HasStory
      <3> QED
        BY <1>2, <1>5, <1>6, <3>1 DEF IInv, SettledPrefix, Settled
    <2>6. CompletedAtTheEnd'
      <3> SUFFICES ASSUME state'.status = "completed", ~stopped'
                   PROVE  state'.idx = state'.stories
        BY Zenon DEF CompletedAtTheEnd
      <3>1. state'.idx = state.idx + 1 /\ state'.idx >= state.stories
        BY <1>5, <1>6
      <3> QED
        BY <1>2, <1>3, <1>5, <3>1, LastStory
    <2> QED
      BY <2>2, <2>3, <2>4, <2>5, <2>6 DEF IInv
  <1>7. CASE state.mode # "spec_generation"
    <2>1. next' = {"hitlCheckpoint"}
      BY <1>2, <1>5, <1>7 DEF RouteAfterSpecAgent
    <2>2. TypeOK'
      BY <1>2, <1>5, <2>1 DEF IInv, TypeOK, Nodes, Checkpoints
    <2>3. (SuperstepShape /\ WaitsAtItsCheckpoint)'
      BY <1>5, <1>7, <2>1
      DEF SuperstepShape, WaitsAtItsCheckpoint, Nodes, Workers, Checkpoints
    <2>4. CounterCovers'
      BY <1>2, <1>4, <1>5 DEF CounterCovers
    <2>5. (SettledPrefix /\ CompletedAtTheEnd)'
      BY <1>2, <1>5, <1>7 DEF IInv, SettledPrefix, CompletedAtTheEnd, Settled
    <2> QED
      BY <2>2, <2>3, <2>4, <2>5 DEF IInv
  <1> QED
    BY <1>6, <1>7

LEMMA OdinAgentStep == IInv /\ RunOdinAgent => IInv'
  <1> SUFFICES ASSUME IInv, RunOdinAgent PROVE IInv'
    OBVIOUS
  <1>1. /\ next = {"odinAgent"} /\ state' = OdinAgent(state)
        /\ next' = RouteToParallelAgents(state')
        /\ UNCHANGED <<done, thrown, accepted, stopped, attempts>>
    BY DEF RunOdinAgent, RunsAlone, history
  <1>2. state \in GraphState
    BY DEF IInv, TypeOK
  <1>3. /\ state' \in GraphState /\ state'.mode = state.mode /\ state'.stories = state.stories
        /\ state'.idx = state.idx /\ state'.feedback = state.feedback
        /\ state'.retryCount = state.retryCount
        /\ state'.specs = state.specs /\ state'.status = state.status
        /\ state'.pendingRetry = state.pendingRetry /\ state'.pendingReview = state.pendingReview
    BY <1>1, <1>2, OdinAgentLemma
  <1>4. /\ state.status # "awaiting_human" /\ ~state.pendingRetry /\ ~state.pendingReview
        /\ attempts <= state.retryCount /\ state.retryCount <= MaxRetries
    BY <1>1, SingleNode DEF Nodes, Workers, Checkpoints, Agents
  <1>5. next' \subseteq Workers
    BY <1>1, <1>3 DEF RouteToParallelAgents, GraphState
  <1>6. TypeOK'
    BY <1>1, <1>3, <1>5 DEF IInv, TypeOK, Nodes
  <1>7. (SuperstepShape /\ WaitsAtItsCheckpoint)'
    BY <1>3, <1>4, <1>5 DEF SuperstepShape, WaitsAtItsCheckpoint, Workers, Checkpoints
  <1>8. CounterCovers'
    BY <1>1, <1>3, <1>4 DEF CounterCovers
  <1>9. (SettledPrefix /\ CompletedAtTheEnd)'
    BY <1>1, <1>3 DEF IInv, SettledPrefix, CompletedAtTheEnd, Settled
  <1> QED
    BY <1>6, <1>7, <1>8, <1>9 DEF IInv

\* A worker finishes: next becomes the curator or stays a set of workers.
LEMMA WorkerStep ==
    IInv /\ (RunFrontAgent \/ RunQaAgent) => IInv'
  <1> SUFFICES ASSUME IInv, RunFrontAgent \/ RunQaAgent PROVE IInv'
    OBVIOUS
  <1>1. PICK worker \in Workers :
          /\ worker \in next /\ HasSpec(state)
          /\ \/ next' = {"curatorAgent"} /\ done' = {}
             \/ next' = next /\ done' = done \cup {worker}
          /\ UNCHANGED <<thrown, accepted, stopped, attempts>>
    BY DEF RunFrontAgent, RunQaAgent, WorkerFinishes, Workers
  <1>2. state \in GraphState /\ HasStory(state)
    BY <1>1 DEF IInv, TypeOK, HasSpec
  <1>3. /\ state' \in GraphState /\ state'.mode = state.mode /\ state'.stories = state.stories
        /\ state'.idx = state.idx /\ state'.feedback = state.feedback
        /\ state'.retryCount = state.retryCount
        /\ state'.specs = state.specs /\ state'.status = state.status
        /\ state'.pendingRetry = state.pendingRetry /\ state'.pendingReview = state.pendingReview
    <2>1. CASE RunFrontAgent
      <3>1. PICK out \in FrontKind : state' = FrontAgent(state, out)
        BY <2>1 DEF RunFrontAgent
      <3> QED
        BY <1>2, <3>1, FrontAgentLemma
    <2>2. CASE RunQaAgent
      BY <1>2, <2>2 DEF RunQaAgent
    <2> QED
      BY <2>1, <2>2
  <1>4. next \subseteq Workers
    BY <1>1 DEF IInv, SuperstepShape
  <1>5. /\ state.status # "awaiting_human" /\ ~state.pendingRetry /\ ~state.pendingReview
        /\ attempts <= state.retryCount /\ state.retryCount <= MaxRetries
    BY <1>1, <1>4
    DEF IInv, WaitsAtItsCheckpoint, CounterCovers, Workers, Checkpoints, Agents, Nodes
  <1>6. next' = {"curatorAgent"} \/ (next' \subseteq Workers /\ next' # {})
    BY <1>1, <1>4
  <1>7. TypeOK'
    BY <1>1, <1>3, <1>6 DEF IInv, TypeOK, Nodes
  <1>8. (SuperstepShape /\ WaitsAtItsCheckpoint)'
    BY <1>3, <1>5, <1>6 DEF SuperstepShape, WaitsAtItsCheckpoint, Workers, Checkpoints, Nodes
  <1>9. CounterCovers'
    BY <1>1, <1>3, <1>5 DEF CounterCovers
  <1>10. (SettledPrefix /\ CompletedAtTheEnd)'
    BY <1>1, <1>3 DEF IInv, SettledPrefix, CompletedAtTheEnd, Settled
  <1> QED
    BY <1>7, <1>8, <1>9, <1>10 DEF IInv

\* Every verdict the curator reaches is one.
LEMMA VerdictsLemma == ASSUME NEW s PROVE Verdicts(s) \subseteq Verdict
  <1> DEFINE NoInput == \/ GatesRequired(s) /\ ~GatesAvailable
                        \/ WiredValidators /\ s.front[s.idx] = "none"
  <1>1. GateFailure \in Verdict
    BY DEF GateFailure, Verdict, FixTarget
  <1>2. CASE NoInput
    BY <1>1, <1>2 DEF Verdicts
  <1>3. CASE ~NoInput
    <2>1. Verdicts(s) =
            {v \in Verdict : /\ GatesRequired(s) => v.fixTarget = "front" /\ (v.passed => ~v.low)
                             /\ WiredValidators => (v.passed \/ v.low)
                             /\ v.passed => v.fixTarget = "front"}
      BY <1>3 DEF Verdicts
    <2> QED
      BY <2>1
  <1> QED
    BY <1>2, <1>3

LEMMA CuratorStep == IInv /\ RunCuratorAgent => IInv'
  <1> SUFFICES ASSUME IInv, RunCuratorAgent PROVE IInv'
    OBVIOUS
  <1>1. PICK v \in Verdicts(state) : state' = CuratorAgent(state, v)
    BY DEF RunCuratorAgent
  <1>2. v \in Verdict
    BY <1>1, VerdictsLemma
  <1>3. /\ next = {"curatorAgent"} /\ next' = RouteAfterCurator(state')
        /\ attempts' = IF state'.idx = state.idx THEN attempts + 1 ELSE 0
        /\ UNCHANGED <<done, thrown, accepted, stopped>>
    BY DEF RunCuratorAgent, RunsAlone
  <1>4. state \in GraphState /\ HasStory(state)
    BY DEF IInv, TypeOK, RunCuratorAgent, HasSpec
  <1>5. /\ ~state.pendingRetry /\ ~state.pendingReview
        /\ attempts <= state.retryCount /\ state.retryCount <= MaxRetries
    BY <1>3, SingleNode DEF Nodes, Workers, Checkpoints, Agents
  <1>6. /\ state' \in GraphState /\ state'.mode = state.mode /\ state'.stories = state.stories
        /\ state'.specs = state.specs
        /\ state'.feedback = [state.feedback EXCEPT ![state.idx] = v]
    BY <1>1, <1>2, <1>4, <1>5, CuratorAgentLemma
  <1>7. attempts \in 0 .. MaxRetries + 1 /\ state.idx \in Stories
    BY <1>4 DEF IInv, TypeOK, HasStory
  \* What the outcomes do to the shape of the superstep, the flags and the counter.
  <1> DEFINE Shape ==
        /\ next' \in {{}} \cup {{n} : n \in Nodes \ Workers}
        /\ WaitsAtItsCheckpoint' /\ CounterCovers'
        /\ attempts' \in 0 .. MaxRetries + 1
        /\ SettledPrefix' /\ CompletedAtTheEnd'
  <1>8. ASSUME CuratorPasses(state, v) PROVE Shape
    <2>1. /\ state'.idx = state.idx + 1 /\ state'.retryCount = 0
          /\ ~state'.pendingRetry /\ ~state'.pendingReview
          /\ state'.status = IF state'.idx >= state.stories THEN "completed" ELSE "running"
      BY <1>1, <1>2, <1>4, <1>5, <1>8, CuratorAgentLemma
    <2>2. attempts' = 0
      BY <1>3, <1>7, <2>1 DEF Stories
    <2>3. next' \in {{}, {"odinAgent"}, {"specAgent"}}
      BY <1>3, <2>1 DEF RouteAfterCurator
    <2>4. WaitsAtItsCheckpoint'
      BY <2>1, <2>3 DEF WaitsAtItsCheckpoint, Checkpoints
    <2>5. CounterCovers' /\ attempts' \in 0 .. MaxRetries + 1
      BY <2>1, <2>2, GraphAssumption DEF CounterCovers
    <2>6. SettledPrefix'
      <3> SUFFICES ASSUME NEW u \in Stories, u < state'.idx PROVE Settled(u)'
        BY DEF SettledPrefix
      <3>1. CASE u = state.idx
        BY <1>4, <1>6, <1>8, <3>1 DEF Settled, CuratorPasses, GraphState
      <3>2. CASE u # state.idx
        <4>1. u < state.idx
          BY <1>7, <2>1, <3>2 DEF Stories
        <4>2. state'.feedback[u] = state.feedback[u]
          BY <1>4, <1>6, <3>2 DEF GraphState
        <4> QED
          BY <1>3, <1>6, <4>1, <4>2 DEF IInv, SettledPrefix, Settled
      <3> QED
        BY <3>1, <3>2
    <2>7. CompletedAtTheEnd'
      <3> SUFFICES ASSUME state'.status = "completed", ~stopped'
                   PROVE  state'.idx = state'.stories
        BY Zenon DEF CompletedAtTheEnd
      <3>1. state'.idx = state.idx + 1 /\ state'.idx >= state.stories
        BY <2>1
      <3> QED
        BY <1>4, <1>6, <3>1, LastStory
    <2> QED
      BY <2>3, <2>4, <2>5, <2>6, <2>7 DEF Nodes, Workers, Checkpoints
  <1>9. ASSUME ~CuratorPasses(state, v) PROVE Shape
    <2>1. state'.idx = state.idx /\ attempts' = attempts + 1
      BY <1>1, <1>2, <1>3, <1>4, <1>5, <1>9, CuratorAgentLemma
    <2>2. SettledPrefix'
      <3> SUFFICES ASSUME NEW u \in Stories, u < state'.idx PROVE Settled(u)'
        BY DEF SettledPrefix
      <3>1. u # state.idx /\ u < state.idx
        BY <1>7, <2>1 DEF Stories
      <3>2. state'.feedback[u] = state.feedback[u]
        BY <1>4, <1>6, <3>1 DEF GraphState
      <3> QED
        BY <1>3, <1>6, <3>1, <3>2 DEF IInv, SettledPrefix, Settled
    <2>3. attempts' \in 0 .. MaxRetries + 1
      BY <1>5, <1>7, <2>1, <1>4, GraphAssumption DEF GraphState
    <2>4. state'.feedback[state'.idx] = v /\ v # NoFeedback /\ HasStory(state')
      BY <1>2, <1>4, <1>6, <2>1
      DEF GraphState, HasStory, Verdict, NoFeedback, FixTarget
    <2>5. CASE CuratorDoubts(state, v) \/ CuratorAsksFirst(state, v)
      <3>1. /\ ~state'.pendingRetry /\ state'.pendingReview
            /\ state'.status = "awaiting_human"
        BY <1>1, <1>2, <1>4, <1>5, <2>5, CuratorAgentLemma
      <3>2. next' = {"curatorReviewCheckpoint"}
        BY <1>3, <3>1 DEF RouteAfterCurator
      <3> QED
        BY <2>2, <2>3, <3>1, <3>2
        DEF WaitsAtItsCheckpoint, CounterCovers, CompletedAtTheEnd, Nodes, Workers, Checkpoints, Agents
    <2>6. CASE CuratorBlocks(state, v)
      <3>1. ~state'.pendingRetry /\ ~state'.pendingReview /\ state'.status = "blocked"
        BY <1>1, <1>2, <1>4, <1>5, <2>6, CuratorAgentLemma
      <3>2. next' = {}
        BY <1>3, <3>1 DEF RouteAfterCurator
      <3> QED
        BY <2>2, <2>3, <3>1, <3>2 DEF WaitsAtItsCheckpoint, CounterCovers, CompletedAtTheEnd
    <2>7. CASE CuratorEscalates(state, v)
      <3>1. state'.pendingRetry /\ ~state'.pendingReview /\ state'.status = "awaiting_human"
        BY <1>1, <1>2, <1>4, <1>5, <2>7, CuratorAgentLemma
      <3>2. ~v.passed
        BY <2>7 DEF CuratorEscalates
      <3>3. next' = {"retryCheckpoint"}
        BY <1>3, <2>4, <3>1, <3>2 DEF RouteAfterCurator
      <3> QED
        BY <2>2, <2>3, <3>1, <3>3
        DEF WaitsAtItsCheckpoint, CounterCovers, CompletedAtTheEnd, Nodes, Workers, Checkpoints, Agents
    <2>8. CASE ~(\/ v.passed \/ CuratorBlocks(state, v)
                 \/ CuratorEscalates(state, v) \/ CuratorAsksFirst(state, v))
      <3>1. /\ state'.retryCount = state.retryCount + 1 /\ state'.retryCount <= MaxRetries
            /\ ~state'.pendingRetry /\ ~state'.pendingReview /\ state'.status = "running"
        BY <1>1, <1>2, <1>4, <1>5, <2>8, CuratorAgentLemma
      <3>2. next' = {"odinAgent"}
        BY <1>3, <2>4, <2>8, <3>1 DEF RouteAfterCurator
      <3>3. attempts' <= state'.retryCount
        BY <1>4, <1>5, <1>7, <2>1, <3>1, GraphAssumption DEF GraphState
      <3> QED
        BY <2>2, <2>3, <3>1, <3>2, <3>3
        DEF WaitsAtItsCheckpoint, CounterCovers, CompletedAtTheEnd, Nodes, Workers, Checkpoints
    <2> QED
      BY <1>2, <1>9, <2>5, <2>6, <2>7, <2>8 DEF CuratorPasses, CuratorDoubts, Verdict
  <1>10. Shape
    BY <1>8, <1>9
  <1>11. TypeOK'
    BY <1>3, <1>6, <1>10 DEF IInv, TypeOK
  <1>12. SuperstepShape'
    BY <1>10 DEF SuperstepShape
  <1> QED
    BY <1>10, <1>11, <1>12 DEF IInv

LEMMA ApproveSpecStep ==
    ASSUME IInv, NEW approved \in BOOLEAN, ApproveSpec(approved) PROVE IInv'
  <1>1. PICK kind \in SpecKind : state' = HitlCheckpoint(state, approved, kind)
    BY DEF ApproveSpec
  <1>2. /\ next = {"hitlCheckpoint"} /\ next' = RouteAfterHitlCheckpoint(state')
        /\ HasSpec(state) /\ attempts' = 0
        /\ UNCHANGED <<done, thrown, accepted, stopped>>
    BY DEF ApproveSpec, RunsAlone
  <1>3. state \in GraphState
    BY DEF IInv, TypeOK
  <1>4. /\ ~state.pendingRetry /\ ~state.pendingReview /\ state.status = "awaiting_human"
        /\ state.retryCount <= MaxRetries
    BY <1>2, SingleNode DEF Nodes, Workers, Checkpoints
  <1>11. state.retryCount \in 0 .. MaxRetries + 1
    BY <1>3 DEF GraphState
  <1>5. /\ state' \in GraphState /\ state'.mode = state.mode /\ state'.stories = state.stories
        /\ state'.idx = state.idx /\ state'.feedback = state.feedback
        /\ state'.retryCount = state.retryCount
        /\ ~state'.pendingRetry /\ ~state'.pendingReview
        /\ \A u \in Stories : state.specs[u] # "none" => state'.specs[u] # "none"
        /\ state'.status = IF approved THEN "running" ELSE "cancelled"
    BY <1>1, <1>2, <1>3, <1>4, HitlCheckpointLemma
  <1>6. next' = IF approved THEN {"odinAgent"} ELSE {}
    BY <1>2, <1>5 DEF RouteAfterHitlCheckpoint
  <1>7. TypeOK'
    BY <1>2, <1>5, <1>6, GraphAssumption DEF IInv, TypeOK, Nodes
  <1>8. (SuperstepShape /\ WaitsAtItsCheckpoint)'
    BY <1>5, <1>6 DEF SuperstepShape, WaitsAtItsCheckpoint, Nodes, Workers, Checkpoints
  <1>9. CounterCovers'
    BY <1>2, <1>4, <1>5, <1>11, GraphAssumption DEF CounterCovers
  <1>10. (SettledPrefix /\ CompletedAtTheEnd)'
    BY <1>2, <1>5 DEF IInv, SettledPrefix, CompletedAtTheEnd, Settled
  <1> QED
    BY <1>7, <1>8, <1>9, <1>10 DEF IInv

LEMMA DecideRetryStep ==
    ASSUME IInv, NEW continueRetry \in BOOLEAN, DecideRetry(continueRetry) PROVE IInv'
  <1>1. /\ next = {"retryCheckpoint"} /\ next' = RouteAfterRetryCheckpoint(state')
        /\ state' = RetryCheckpoint(state, continueRetry)
        /\ attempts' = 0
        /\ UNCHANGED <<done, thrown, accepted>>
    BY DEF DecideRetry, RunsAlone
  <1>2. state \in GraphState
    BY DEF IInv, TypeOK
  <1>3. ~state.pendingReview
    BY <1>1, SingleNode DEF Nodes, Workers, Checkpoints
  <1>10. /\ state' \in GraphState /\ state'.mode = state.mode /\ state'.stories = state.stories
         /\ state'.idx = state.idx /\ state'.feedback = state.feedback /\ state'.specs = state.specs
         /\ state'.pendingRetry = FALSE /\ state'.pendingReview = state.pendingReview
         /\ continueRetry => state'.status = "running" /\ state'.retryCount = 0
         /\ ~continueRetry => state'.status = "completed" /\ state'.retryCount = state.retryCount
    <2>1. CASE continueRetry
      <3>1. state' = [state EXCEPT !.pendingRetry = FALSE, !.retryCount = 0, !.status = "running"]
        BY <1>1, <2>1 DEF RetryCheckpoint
      <3> QED
        BY <1>2, <2>1, <3>1, Ranges DEF GraphState
    <2>2. CASE ~continueRetry
      <3>1. state' = [state EXCEPT !.pendingRetry = FALSE, !.status = "completed"]
        BY <1>1, <2>2 DEF RetryCheckpoint
      <3> QED
        BY <1>2, <2>2, <3>1, Ranges DEF GraphState
    <2> QED
      BY <2>1, <2>2
  <1>11. stopped' \in BOOLEAN /\ (~stopped' => continueRetry)
    BY Zenon DEF DecideRetry
  <1>4. /\ state' \in GraphState /\ state'.mode = state.mode /\ state'.stories = state.stories
        /\ state'.idx = state.idx /\ state'.feedback = state.feedback /\ state'.specs = state.specs
        /\ ~state'.pendingRetry /\ ~state'.pendingReview
        /\ continueRetry => state'.status = "running" /\ state'.retryCount = 0
        /\ ~continueRetry => state'.status = "completed"
    BY <1>3, <1>10
  <1>5. next' = IF continueRetry THEN {"odinAgent"} ELSE {}
    BY <1>1, <1>4 DEF RouteAfterRetryCheckpoint
  <1>6. TypeOK'
    BY <1>1, <1>4, <1>5, <1>11, GraphAssumption, Ranges DEF IInv, TypeOK, Nodes
  <1>7. (SuperstepShape /\ WaitsAtItsCheckpoint)'
    BY <1>4, <1>5 DEF SuperstepShape, WaitsAtItsCheckpoint, Nodes, Workers, Checkpoints
  <1>8. CounterCovers'
    <2>1. CASE continueRetry
      <3>1. attempts' = 0 /\ state'.retryCount = 0
        BY <1>1, <1>4, <2>1
      <3> QED
        BY <3>1, GraphAssumption DEF CounterCovers
    <2>2. CASE ~continueRetry
      BY <1>5, <2>2 DEF CounterCovers
    <2> QED
      BY <2>1, <2>2
  <1>9. (SettledPrefix /\ CompletedAtTheEnd)'
    BY <1>1, <1>4, <1>11 DEF IInv, SettledPrefix, CompletedAtTheEnd, Settled
  <1> QED
    BY <1>6, <1>7, <1>8, <1>9 DEF IInv

LEMMA DecideReviewStep ==
    ASSUME IInv, NEW accept \in BOOLEAN, DecideReview(accept) PROVE IInv'
  <1>1. /\ next = {"curatorReviewCheckpoint"} /\ HasStory(state)
        /\ next' = RouteAfterCuratorReviewCheckpoint(state')
        /\ state' = CuratorReviewCheckpoint(state, accept)
        /\ accepted' = IF accept THEN accepted \cup {state.idx} ELSE accepted
        /\ attempts' = 0
        /\ UNCHANGED <<done, thrown, stopped>>
    BY DEF DecideReview, RunsAlone
  <1>2. state \in GraphState /\ state.idx \in Stories
    BY <1>1 DEF IInv, TypeOK, HasStory
  <1>3. ~state.pendingRetry
    BY <1>1, SingleNode DEF Nodes, Workers, Checkpoints
  <1>4. /\ state' \in GraphState /\ state'.mode = state.mode /\ state'.stories = state.stories
        /\ state'.feedback = state.feedback /\ state'.specs = state.specs
        /\ state'.retryCount = 0 /\ ~state'.pendingRetry /\ ~state'.pendingReview
        /\ accept => /\ state'.idx = state.idx + 1
                     /\ state'.status = IF state'.idx >= state.stories THEN "completed" ELSE "running"
        /\ ~accept => state'.idx = state.idx /\ state'.status = "running"
    BY <1>1, <1>2, <1>3, CuratorReviewCheckpointLemma, ZenonT(60)
  <1>5. next' \in {{}, {"odinAgent"}}
    BY <1>1 DEF RouteAfterCuratorReviewCheckpoint
  <1>6. TypeOK'
    BY <1>1, <1>2, <1>4, <1>5, GraphAssumption DEF IInv, TypeOK, Nodes
  <1>7. (SuperstepShape /\ WaitsAtItsCheckpoint)'
    BY <1>4, <1>5 DEF SuperstepShape, WaitsAtItsCheckpoint, Nodes, Workers, Checkpoints
  <1>8. CounterCovers'
    BY <1>1, <1>4, GraphAssumption DEF CounterCovers
  <1>9. SettledPrefix'
    <2> SUFFICES ASSUME NEW u \in Stories, u < state'.idx PROVE Settled(u)'
      BY DEF SettledPrefix
    <2>1. u < state.idx \/ (accept /\ u = state.idx)
      BY <1>2, <1>4 DEF Stories
    <2> QED
      BY <1>1, <1>4, <2>1 DEF IInv, SettledPrefix, Settled
  <1>10. CompletedAtTheEnd'
    <2> SUFFICES ASSUME state'.status = "completed", ~stopped'
                 PROVE  state'.idx = state'.stories
      BY Zenon DEF CompletedAtTheEnd
    <2>1. state'.idx = state.idx + 1 /\ state'.idx >= state.stories
      BY <1>4
    <2> QED
      BY <1>1, <1>2, <1>4, <2>1, LastStory
  <1> QED
    BY <1>6, <1>7, <1>8, <1>9, <1>10 DEF IInv

LEMMA ThrowStep == IInv /\ (NodeThrows \/ UNCHANGED vars) => IInv'
  BY DEF IInv, NodeThrows, vars, TypeOK, SuperstepShape, WaitsAtItsCheckpoint, CounterCovers,
         SettledPrefix, CompletedAtTheEnd, Settled

LEMMA StepIInv == IInv /\ [Next]_vars => IInv'
  <1> SUFFICES ASSUME IInv, [Next]_vars PROVE IInv'
    OBVIOUS
  <1>1. CASE RunSpecAgent
    BY <1>1, SpecAgentStep
  <1>2. CASE RunOdinAgent
    BY <1>2, OdinAgentStep
  <1>3. CASE RunFrontAgent \/ RunQaAgent
    BY <1>3, WorkerStep
  <1>4. CASE RunCuratorAgent
    BY <1>4, CuratorStep
  <1>5. CASE NodeThrows \/ UNCHANGED vars
    BY <1>5, ThrowStep
  <1>6. CASE HumanStep
    BY <1>6, ApproveSpecStep, DecideRetryStep, DecideReviewStep DEF HumanStep
  <1> QED
    BY <1>1, <1>2, <1>3, <1>4, <1>5, <1>6 DEF Next, AgentStep

LEMMA Invariance == Spec => []IInv
  BY InitIInv, StepIInv, PTL DEF Spec

-----------------------------------------------------------------------------
(* What a step of each kind does to the current story. *)

LEMMA FrontMove ==
    ASSUME IInv, RunFrontAgent
    PROVE  /\ ~thrown /\ "frontAgent" \in next \ done /\ next \subseteq Workers
           /\ state.idx \in Stories /\ state.idx < state.stories
           /\ state'.mode = state.mode /\ state'.stories = state.stories /\ state'.idx = state.idx
           /\ state'.feedback = state.feedback /\ state'.status = state.status
           /\ state'.front[state.idx] \in FrontKind
           /\ \A u \in Stories : u # state.idx => state'.front[u] = state.front[u]
           /\ UNCHANGED <<thrown, accepted, stopped>>
           /\ \/ next' = {"curatorAgent"} /\ done' = {}
              \/ next' = next /\ done' = done \cup {"frontAgent"}
  <1>1. /\ "frontAgent" \in next \ done /\ ~thrown /\ HasStory(state)
        /\ \/ next' = {"curatorAgent"} /\ done' = {}
           \/ next' = next /\ done' = done \cup {"frontAgent"}
        /\ UNCHANGED <<thrown, accepted, stopped>>
    BY DEF RunFrontAgent, WorkerFinishes, HasSpec
  <1>2. PICK out \in FrontKind : state' = FrontAgent(state, out)
    BY DEF RunFrontAgent
  <1>3. state \in GraphState
    BY DEF IInv, TypeOK
  <1>4. next \subseteq Workers
    BY <1>1 DEF IInv, SuperstepShape, Workers
  <1>5. /\ state'.mode = state.mode /\ state'.stories = state.stories /\ state'.idx = state.idx
        /\ state'.feedback = state.feedback /\ state'.status = state.status
    BY <1>1, <1>2, <1>3, FrontAgentLemma
  <1>6. state.idx \in Stories /\ state.idx < state.stories
    BY <1>1 DEF HasStory
  <1>7. state'.front = [state.front EXCEPT ![state.idx] = out]
    BY <1>1, <1>2, <1>3, FrontResultLemma
  <1>8. state.front \in [Stories -> FrontKind \cup {"none"}]
    BY <1>3 DEF GraphState
  <1>9. /\ state'.front[state.idx] = out
        /\ \A u \in Stories : u # state.idx => state'.front[u] = state.front[u]
    BY <1>6, <1>7, <1>8
  <1> QED
    BY <1>1, <1>2, <1>4, <1>5, <1>6, <1>9

LEMMA QaMove ==
    ASSUME IInv, RunQaAgent
    PROVE  /\ ~thrown /\ "qaAgent" \in next \ done /\ next \subseteq Workers
           /\ state.idx \in Stories /\ state.idx < state.stories
           /\ UNCHANGED <<state, thrown, accepted, stopped>>
           /\ \/ next' = {"curatorAgent"} /\ done' = {} /\ next = done \cup {"qaAgent"}
              \/ next' = next /\ done' = done \cup {"qaAgent"}
  BY DEF IInv, SuperstepShape, Workers, RunQaAgent, WorkerFinishes, HasSpec, HasStory

LEMMA CuratorMove ==
    ASSUME IInv, RunCuratorAgent
    PROVE  /\ ~thrown /\ next = {"curatorAgent"} /\ UNCHANGED <<done, thrown, accepted, stopped>>
           /\ state.idx \in Stories /\ state.idx < state.stories
           /\ state'.mode = state.mode /\ state'.stories = state.stories /\ state'.front = state.front
           /\ state'.idx = state.idx \/ (state'.idx = state.idx + 1 /\ state'.feedback[state.idx].passed)
           /\ next' \cap Workers = {} /\ next' # {"curatorAgent"}
           /\ state.mode \in CodeModes /\ state.front[state.idx] # "none" =>
                /\ state'.feedback[state.idx].passed => state'.idx = state.idx + 1
                /\ ~state'.feedback[state.idx].passed => state'.feedback[state.idx].fixTarget = "front"
  <1>1. PICK v \in Verdicts(state) : state' = CuratorAgent(state, v)
    BY DEF RunCuratorAgent
  <1>2. v \in Verdict
    BY <1>1, VerdictsLemma
  <1>3. /\ next = {"curatorAgent"} /\ next' = RouteAfterCurator(state') /\ ~thrown
        /\ UNCHANGED <<done, thrown, accepted, stopped>>
    BY DEF RunCuratorAgent, RunsAlone
  <1>4. state \in GraphState /\ HasStory(state)
    BY DEF IInv, TypeOK, RunCuratorAgent, HasSpec
  <1>5. ~state.pendingRetry /\ ~state.pendingReview /\ state.retryCount <= MaxRetries
    BY <1>3, SingleNode DEF Nodes, Workers, Checkpoints, Agents
  <1>6. /\ state'.mode = state.mode /\ state'.stories = state.stories /\ state'.front = state.front
        /\ state'.feedback = [state.feedback EXCEPT ![state.idx] = v]
        /\ CuratorPasses(state, v) => state'.idx = state.idx + 1
        /\ ~CuratorPasses(state, v) => state'.idx = state.idx
    BY <1>1, <1>2, <1>4, <1>5, CuratorAgentLemma
  <1>7. state'.feedback[state.idx] = v
    BY <1>4, <1>6 DEF GraphState, HasStory
  <1>8. next' \cap Workers = {} /\ next' # {"curatorAgent"}
    BY <1>3 DEF RouteAfterCurator, Workers
  <1>9. ASSUME state.mode \in CodeModes, state.front[state.idx] # "none"
        PROVE  (v.passed => ~v.low) /\ (~v.passed => v.fixTarget = "front")
    <2>1. GatesRequired(state)
      BY <1>9 DEF GatesRequired
    <2>2. CASE ~GatesAvailable
      BY <2>1, <2>2 DEF Verdicts, GateFailure
    <2>3. CASE GatesAvailable
      <3>1. Verdicts(state) =
              {w \in Verdict : /\ GatesRequired(state) => w.fixTarget = "front" /\ (w.passed => ~w.low)
                               /\ WiredValidators => (w.passed \/ w.low)
                               /\ w.passed => w.fixTarget = "front"}
        BY <1>9, <2>3 DEF Verdicts
      <3> QED
        BY <2>1, <3>1
    <2> QED
      BY <2>2, <2>3
  <1>10. CuratorPasses(state, v) <=> v.passed /\ ~v.low
    BY DEF CuratorPasses
  <1>11. state.idx \in Stories /\ state.idx < state.stories
    BY <1>4 DEF HasStory
  <1>12. state'.idx = state.idx \/ (state'.idx = state.idx + 1 /\ state'.feedback[state.idx].passed)
    BY <1>6, <1>7, <1>10
  <1>13. state.mode \in CodeModes /\ state.front[state.idx] # "none" =>
           /\ state'.feedback[state.idx].passed => state'.idx = state.idx + 1
           /\ ~state'.feedback[state.idx].passed => state'.feedback[state.idx].fixTarget = "front"
    BY <1>6, <1>7, <1>9, <1>10
  <1> QED
    BY <1>3, <1>6, <1>8, <1>11, <1>12, <1>13

LEMMA SpecMove ==
    ASSUME IInv, RunSpecAgent
    PROVE  /\ ~thrown /\ next = {"specAgent"} /\ UNCHANGED <<done, thrown, accepted, stopped>>
           /\ state.idx \in Stories /\ state.idx < state.stories
           /\ state'.mode = state.mode /\ state'.stories = state.stories /\ state'.front = state.front
           /\ state'.feedback = state.feedback
           /\ state'.idx = state.idx \/ (state'.idx = state.idx + 1 /\ state.mode = "spec_generation")
           /\ next' \cap Workers = {} /\ next' # {"curatorAgent"}
  <1>1. PICK kind \in SpecKind : state' = SpecAgent(state, kind)
    BY DEF RunSpecAgent
  <1>2. /\ next = {"specAgent"} /\ ~thrown /\ next' = RouteAfterSpecAgent(state') /\ HasStory(state)
        /\ UNCHANGED <<done, thrown, accepted, stopped>>
    BY DEF RunSpecAgent, RunsAlone, history
  <1>3. state \in GraphState
    BY DEF IInv, TypeOK
  <1>4. /\ state'.mode = state.mode /\ state'.stories = state.stories /\ state'.front = state.front
        /\ state'.feedback = state.feedback
        /\ state.mode = "spec_generation" => state'.idx = state.idx + 1
        /\ state.mode # "spec_generation" => state'.idx = state.idx
    BY <1>1, <1>2, <1>3, SpecAgentLemma
  <1>5. next' \cap Workers = {} /\ next' # {"curatorAgent"}
    BY <1>2 DEF RouteAfterSpecAgent, Workers
  <1> QED
    BY <1>2, <1>4, <1>5 DEF HasStory

LEMMA OdinMove ==
    ASSUME IInv, RunOdinAgent
    PROVE  /\ ~thrown /\ next = {"odinAgent"} /\ UNCHANGED <<done, thrown, accepted, stopped>>
           /\ state'.mode = state.mode /\ state'.stories = state.stories /\ state'.front = state.front
           /\ state'.feedback = state.feedback /\ state'.idx = state.idx /\ state'.status = state.status
           /\ next' \subseteq Workers
           /\ ~state.feedback[state.idx].passed /\ state.feedback[state.idx].fixTarget = "front" =>
                next' \in {{}, {"frontAgent"}}
  <1>1. /\ next = {"odinAgent"} /\ ~thrown /\ state' = OdinAgent(state)
        /\ next' = RouteToParallelAgents(state')
        /\ UNCHANGED <<done, thrown, accepted, stopped>>
    BY DEF RunOdinAgent, RunsAlone, history
  <1>2. state \in GraphState
    BY DEF IInv, TypeOK
  <1>3. /\ state' \in GraphState /\ state'.mode = state.mode /\ state'.stories = state.stories
        /\ state'.front = state.front /\ state'.feedback = state.feedback
        /\ state'.idx = state.idx /\ state'.status = state.status
    BY <1>1, <1>2, OdinAgentLemma
  <1>4. next' \subseteq Workers
    BY <1>1, <1>3 DEF RouteToParallelAgents, GraphState
  <1>5. ASSUME ~state.feedback[state.idx].passed, state.feedback[state.idx].fixTarget = "front"
        PROVE  next' \in {{}, {"frontAgent"}}
    <2>1. CASE state.status = "completed"
      BY <1>1, <1>3, <2>1 DEF RouteToParallelAgents, Ended
    <2>2. CASE state.status # "completed"
      <3>1. state.feedback[state.idx] # NoFeedback
        BY <1>5 DEF NoFeedback
      <3>2. DecideRouting(state.specs[state.idx], state.feedback[state.idx]) = {"frontAgent"}
        BY <1>5, <3>1 DEF DecideRouting
      <3>3. state'.routing = {"frontAgent"}
        BY <1>1, <1>2, <2>2, <3>1, <3>2 DEF OdinAgent, GraphState
      <3> QED
        BY <1>1, <3>3 DEF RouteToParallelAgents
    <2> QED
      BY <2>1, <2>2
  <1> QED
    BY <1>1, <1>3, <1>4, <1>5

LEMMA AnswerMove ==
    ASSUME IInv, HumanStep
    PROVE  /\ ~thrown /\ (\E n \in Checkpoints : next = {n}) /\ UNCHANGED <<done, thrown>>
           /\ state'.mode = state.mode /\ state'.stories = state.stories /\ state'.front = state.front
           /\ state'.feedback = state.feedback /\ accepted \subseteq accepted'
           /\ state'.idx = state.idx \/ (state'.idx = state.idx + 1 /\ accepted' # {})
           /\ next' \in {{}, {"odinAgent"}}
  <1>1. state \in GraphState
    BY DEF IInv, TypeOK
  <1>2. ASSUME NEW approved \in BOOLEAN, ApproveSpec(approved)
        PROVE  /\ ~thrown /\ next = {"hitlCheckpoint"} /\ UNCHANGED <<done, thrown, accepted>>
               /\ state'.mode = state.mode /\ state'.stories = state.stories /\ state'.front = state.front
               /\ state'.feedback = state.feedback /\ state'.idx = state.idx
               /\ next' \in {{}, {"odinAgent"}}
    <2>1. PICK kind \in SpecKind : state' = HitlCheckpoint(state, approved, kind)
      BY <1>2 DEF ApproveSpec
    <2>2. /\ next = {"hitlCheckpoint"} /\ ~thrown /\ next' = RouteAfterHitlCheckpoint(state')
          /\ HasSpec(state) /\ UNCHANGED <<done, thrown, accepted>>
      BY <1>2 DEF ApproveSpec, RunsAlone
    <2>3. /\ state'.mode = state.mode /\ state'.stories = state.stories /\ state'.front = state.front
          /\ state'.feedback = state.feedback /\ state'.idx = state.idx
      BY <1>1, <2>1, <2>2, HitlCheckpointLemma
    <2> QED
      BY <2>2, <2>3 DEF RouteAfterHitlCheckpoint
  <1>3. ASSUME NEW continueRetry \in BOOLEAN, DecideRetry(continueRetry)
        PROVE  /\ ~thrown /\ next = {"retryCheckpoint"} /\ UNCHANGED <<done, thrown, accepted>>
               /\ state'.mode = state.mode /\ state'.stories = state.stories /\ state'.front = state.front
               /\ state'.feedback = state.feedback /\ state'.idx = state.idx
               /\ next' \in {{}, {"odinAgent"}}
    <2>1. /\ next = {"retryCheckpoint"} /\ ~thrown /\ next' = RouteAfterRetryCheckpoint(state')
          /\ state' = RetryCheckpoint(state, continueRetry) /\ UNCHANGED <<done, thrown, accepted>>
      BY <1>3 DEF DecideRetry, RunsAlone
    <2>2. \/ state' = [state EXCEPT !.pendingRetry = FALSE, !.retryCount = 0, !.status = "running"]
          \/ state' = [state EXCEPT !.pendingRetry = FALSE, !.status = "completed"]
      BY <2>1 DEF RetryCheckpoint
    <2>3. /\ state'.mode = state.mode /\ state'.stories = state.stories /\ state'.front = state.front
          /\ state'.feedback = state.feedback /\ state'.idx = state.idx
      BY <1>1, <2>2 DEF GraphState
    <2> QED
      BY <2>1, <2>3 DEF RouteAfterRetryCheckpoint
  <1>4. ASSUME NEW accept \in BOOLEAN, DecideReview(accept)
        PROVE  /\ ~thrown /\ next = {"curatorReviewCheckpoint"} /\ UNCHANGED <<done, thrown>>
               /\ state'.mode = state.mode /\ state'.stories = state.stories /\ state'.front = state.front
               /\ state'.feedback = state.feedback /\ accepted \subseteq accepted'
               /\ state'.idx = state.idx \/ (state'.idx = state.idx + 1 /\ accepted' # {})
               /\ next' \in {{}, {"odinAgent"}}
    <2>1. /\ next = {"curatorReviewCheckpoint"} /\ ~thrown /\ HasStory(state)
          /\ next' = RouteAfterCuratorReviewCheckpoint(state')
          /\ state' = CuratorReviewCheckpoint(state, accept)
          /\ accepted' = IF accept THEN accepted \cup {state.idx} ELSE accepted
          /\ UNCHANGED <<done, thrown>>
      BY <1>4 DEF DecideReview, RunsAlone
    <2>2. /\ state'.mode = state.mode /\ state'.stories = state.stories /\ state'.front = state.front
          /\ state'.feedback = state.feedback
          /\ accept => state'.idx = state.idx + 1
          /\ ~accept => state'.idx = state.idx
      BY <1>1, <2>1, CuratorReviewCheckpointLemma, ZenonT(60)
    <2>3. accepted \subseteq accepted' /\ (accept => accepted' # {})
      BY <2>1
    <2>4. next' \in {{}, {"odinAgent"}}
      BY <2>1 DEF RouteAfterCuratorReviewCheckpoint
    <2> QED
      BY <2>1, <2>2, <2>3, <2>4
  <1> QED
    BY <1>2, <1>3, <1>4 DEF HumanStep, Checkpoints

-----------------------------------------------------------------------------
\* The state stays in its type: no index, counter or verdict leaves its range.
THEOREM TypeCorrect == Spec => []TypeOK
  <1>1. IInv => TypeOK
    BY DEF IInv
  <1> QED
    BY <1>1, Invariance, PTL

\* The graph waits exactly when it says so, at the checkpoint its payloads name.
THEOREM WaitsCorrectly == Spec => []WaitsAtItsCheckpoint
  <1>1. IInv => WaitsAtItsCheckpoint
    BY DEF IInv
  <1> QED
    BY <1>1, Invariance, PTL

\* However the curator answers, it judges a story at most MaxRetries + 1 times in a row.
THEOREM RetriesBounded == Spec => []AttemptsBounded
  <1>1. IInv => AttemptsBounded
    BY GraphAssumption DEF IInv, TypeOK, CounterCovers, AttemptsBounded, GraphState
  <1> QED
    BY <1>1, Invariance, PTL

\* A completed workflow settled all its stories, unless the human stopped it.
THEOREM CompletionSound == Spec => []CompletedMeansSettled
  <1>1. IInv => CompletedMeansSettled
    <2> SUFFICES ASSUME IInv, state.status = "completed", ~stopped
                 PROVE  /\ state.idx = state.stories
                        /\ \A u \in 0 .. state.stories - 1 : Settled(u)
      BY DEF CompletedMeansSettled
    <2>1. state.idx = state.stories
      BY Zenon DEF IInv, CompletedAtTheEnd
    <2>2. state.stories \in 1 .. MaxStories
      BY IndexRange DEF IInv, TypeOK
    <2>3. \A u \in 0 .. state.stories - 1 : u \in Stories /\ u < state.idx
      BY <2>1, <2>2, GraphAssumption DEF Stories
    <2> QED
      BY <2>1, <2>3 DEF IInv, SettledPrefix
  <1> QED
    BY <1>1, Invariance, PTL

-----------------------------------------------------------------------------
(* The refinement of StoryPipeline, and what is fresh with each story *)

\* Spec generation runs the specification agent and nothing else; once stopped, nothing runs.
SpecOnly == state.mode = "spec_generation" => next \in {{}, {"specAgent"}} /\ state.retryCount = 0
StopEnds == stopped => next = {}

Modest == SpecOnly /\ StopEnds

LEMMA InitModest == Init => Modest
  <1> SUFFICES ASSUME Init PROVE Modest
    OBVIOUS
  <1>1. PICK mode, stories, specs : state = InitialGraphState(mode, stories, specs)
    BY DEF Init
  <1>2. state.retryCount = 0
    BY <1>1 DEF InitialGraphState
  <1>3. state.mode = "spec_generation" => next = {"specAgent"}
    BY DEF Init, RouteFromStart, CodeModes
  <1> QED
    BY <1>2, <1>3 DEF Modest, SpecOnly, StopEnds, Init

LEMMA SpecAgentModest == ASSUME IInv, Modest, RunSpecAgent PROVE Modest'
  <1>1. PICK kind \in SpecKind : state' = SpecAgent(state, kind)
    BY DEF RunSpecAgent
  <1>2. /\ next = {"specAgent"} /\ next' = RouteAfterSpecAgent(state') /\ HasStory(state) /\ stopped' = stopped
    BY DEF RunSpecAgent, RunsAlone, history
  <1>3. state'.mode = state.mode /\ state'.retryCount = state.retryCount
    BY <1>1, <1>2, SpecAgentLemma DEF IInv, TypeOK
  <1> QED
    BY <1>2, <1>3 DEF Modest, SpecOnly, StopEnds, RouteAfterSpecAgent

LEMMA OtherModest ==
    ASSUME IInv, Modest, \/ RunOdinAgent \/ RunFrontAgent \/ RunQaAgent \/ RunCuratorAgent \/ NodeThrows
                         \/ UNCHANGED vars
    PROVE  Modest'
  <1>1. CASE NodeThrows \/ UNCHANGED vars
    BY <1>1 DEF NodeThrows, vars, Modest, SpecOnly, StopEnds
  <1>2. CASE RunOdinAgent
    BY <1>2, OdinMove DEF Modest, SpecOnly, StopEnds
  <1>3. CASE RunFrontAgent
    BY <1>3, FrontMove DEF Modest, SpecOnly, StopEnds
  <1>4. CASE RunQaAgent
    BY <1>4, QaMove DEF Modest, SpecOnly, StopEnds
  <1>5. CASE RunCuratorAgent
    BY <1>5, CuratorMove DEF Modest, SpecOnly, StopEnds
  <1> QED
    BY <1>1, <1>2, <1>3, <1>4, <1>5

LEMMA AnswerModest == ASSUME IInv, Modest, HumanStep PROVE Modest'
  <1>1. /\ \E n \in Checkpoints : next = {n}
        /\ state'.mode = state.mode
    BY AnswerMove
  <1>2. state.mode # "spec_generation" /\ ~stopped
    BY <1>1 DEF Modest, SpecOnly, StopEnds, Checkpoints
  <1>3. stopped' => next' = {}
    <2>1. ASSUME NEW continueRetry \in BOOLEAN, DecideRetry(continueRetry), stopped'
          PROVE  next' = {}
      <3>1. ~continueRetry
        BY <2>1, Zenon DEF DecideRetry
      <3>2. state' = [state EXCEPT !.pendingRetry = FALSE, !.status = "completed"]
        BY <2>1, <3>1 DEF DecideRetry, RetryCheckpoint
      <3>3. state'.status = "completed"
        BY <3>2 DEF IInv, TypeOK, GraphState
      <3> QED
        BY <2>1, <3>3 DEF DecideRetry, RouteAfterRetryCheckpoint
    <2>2. (\E answer \in BOOLEAN : DecideRetry(answer)) \/ stopped' = stopped
      BY DEF HumanStep, ApproveSpec, DecideReview
    <2> QED
      BY <1>2, <2>1, <2>2
  <1> QED
    BY <1>1, <1>2, <1>3 DEF Modest, SpecOnly, StopEnds

LEMMA StepModest == IInv /\ Modest /\ [Next]_vars => Modest'
  BY SpecAgentModest, OtherModest, AnswerModest DEF Next, AgentStep

LEMMA ModestInvariance == Spec => [](IInv /\ Modest)
  BY InitIInv, StepIInv, InitModest, StepModest, PTL DEF Spec

-----------------------------------------------------------------------------
\* What is fresh when the current story changes.
Fresh ==
    /\ state'.idx = state.idx + 1
    /\ state'.retryCount = 0 /\ ~state'.pendingRetry /\ ~state'.pendingReview
    /\ \A u \in Stories : u = state.idx => Settled(u)'

LEMMA FreshPayloads ==
    ASSUME IInv', next' \cap {"retryCheckpoint", "curatorReviewCheckpoint"} = {}
    PROVE  ~state'.pendingRetry /\ ~state'.pendingReview
  BY DEF IInv, WaitsAtItsCheckpoint

LEMMA FreshSettled ==
    ASSUME IInv, IInv', state'.idx = state.idx + 1, NEW u \in Stories, u = state.idx
    PROVE  Settled(u)'
  BY DEF IInv, SettledPrefix, Stories

LEMMA FreshStep == ASSUME IInv, Modest, IInv', Next, state'.idx # state.idx PROVE Fresh
  <1>0. state \in GraphState /\ state.retryCount \in 0 .. MaxRetries + 1
    BY DEF IInv, TypeOK, GraphState
  <1>1. CASE RunSpecAgent
    <2>1. PICK kind \in SpecKind : state' = SpecAgent(state, kind)
      BY <1>1 DEF RunSpecAgent
    <2>2. HasStory(state) /\ next' = RouteAfterSpecAgent(state')
      BY <1>1 DEF RunSpecAgent
    <2>3. state'.retryCount = state.retryCount
      BY <1>0, <2>1, <2>2, SpecAgentLemma
    <2>4. state'.idx = state.idx + 1 /\ state.mode = "spec_generation" /\ state'.mode = state.mode
      BY <1>1, SpecMove
    <2>5. next' \in {{}, {"specAgent"}}
      BY <2>2, <2>4 DEF RouteAfterSpecAgent
    <2> QED
      BY <2>3, <2>4, <2>5, FreshPayloads, FreshSettled DEF Fresh, Modest, SpecOnly
  <1>2. CASE RunCuratorAgent
    <2>1. PICK v \in Verdicts(state) : state' = CuratorAgent(state, v)
      BY <1>2 DEF RunCuratorAgent
    <2>2. v \in Verdict /\ next = {"curatorAgent"} /\ HasStory(state)
      BY <1>2, <2>1, VerdictsLemma DEF RunCuratorAgent, RunsAlone, HasSpec
    <2>3. ~state.pendingRetry /\ ~state.pendingReview /\ state.retryCount <= MaxRetries
      BY <2>2, SingleNode DEF Nodes, Workers, Checkpoints, Agents
    <2>4. state'.idx = state.idx + 1 /\ state'.retryCount = 0 /\ ~state'.pendingRetry /\ ~state'.pendingReview
      BY <1>0, <2>1, <2>2, <2>3, CuratorAgentLemma
    <2> QED
      BY <2>4, FreshSettled DEF Fresh
  <1>3. CASE HumanStep
    <2>1. state'.idx = state.idx + 1 /\ next' \in {{}, {"odinAgent"}}
      BY <1>3, AnswerMove
    <2>2. PICK answer \in BOOLEAN : ApproveSpec(answer) \/ DecideRetry(answer) \/ DecideReview(answer)
      BY <1>3 DEF HumanStep
    <2>3. state'.retryCount = 0
      <3>1. CASE DecideReview(answer)
        <4>1. HasStory(state) /\ state' = CuratorReviewCheckpoint(state, answer)
          BY <3>1 DEF DecideReview
        <4> QED
          BY <1>0, <4>1, CuratorReviewCheckpointLemma
      <3>2. CASE DecideRetry(answer)
        <4>1. \/ state' = [state EXCEPT !.pendingRetry = FALSE, !.retryCount = 0, !.status = "running"]
              \/ state' = [state EXCEPT !.pendingRetry = FALSE, !.status = "completed"]
          BY <3>2 DEF DecideRetry, RetryCheckpoint
        <4> QED
          BY <1>0, <4>1 DEF GraphState
      <3>3. CASE ApproveSpec(answer)
        <4>1. PICK kind \in SpecKind : state' = HitlCheckpoint(state, answer, kind) /\ HasSpec(state)
          BY <3>3 DEF ApproveSpec
        <4> QED
          BY <1>0, <4>1, HitlCheckpointLemma
      <3> QED
        BY <2>2, <3>1, <3>2, <3>3
    <2> QED
      BY <2>1, <2>3, FreshPayloads, FreshSettled DEF Fresh
  <1>4. CASE RunOdinAgent \/ RunFrontAgent \/ RunQaAgent \/ NodeThrows
    BY <1>4, OdinMove, FrontMove, QaMove DEF NodeThrows
  <1> QED
    BY <1>1, <1>2, <1>3, <1>4 DEF Next, AgentStep

\* Whenever the workflow goes on to the next story it goes on by one, the story left behind is settled,
\* and neither a retry counter nor a pending payload is carried over.
THEOREM StoriesAreFresh == Spec => FreshStory
  <1>1. IInv /\ Modest /\ (IInv /\ Modest)' /\ [Next]_vars =>
          [state'.idx # state.idx =>
             /\ state'.idx = state.idx + 1
             /\ state'.retryCount = 0 /\ ~state'.pendingRetry /\ ~state'.pendingReview
             /\ \A u \in Stories : u = state.idx => Settled(u)']_vars
    BY FreshStep DEF Fresh
  <1> QED
    BY <1>1, ModestInvariance, PTL DEF Spec, FreshStory

-----------------------------------------------------------------------------
(* StoryPipeline is implemented: every step is one of its steps or none. *)

\* What Pipeline calls phase.
Phase == CASE thrown                                             -> "ended"
           [] ~thrown /\ next = {} /\ state.status = "completed" -> "completed"
           [] ~thrown /\ next = {} /\ state.status # "completed" -> "ended"
           [] Waiting                                            -> "waiting"
           [] OTHER                                              -> "working"

LEMMA PipelineSteps ==
    /\ Pipeline!Settle <=> /\ Phase = "working" /\ state.idx < state.stories
                           /\ state'.idx = state.idx + 1
                           /\ Phase' \in {"working", "completed"}
                           /\ Phase' = "completed" => state'.idx = state.stories
                           /\ stopped' = stopped
    /\ Pipeline!Ask <=> /\ Phase = "working" /\ state.idx < state.stories /\ Phase' = "waiting"
                        /\ state'.idx = state.idx /\ stopped' = stopped
    /\ Pipeline!Answer <=> /\ Phase = "waiting"
                           /\ \/ /\ state'.idx \in {state.idx, state.idx + 1}
                                 /\ Phase' = IF state'.idx = state.stories THEN "completed" ELSE "working"
                                 /\ stopped' = stopped
                              \/ Phase' = "completed" /\ stopped' = TRUE /\ state'.idx = state.idx
                              \/ Phase' = "ended" /\ state'.idx = state.idx /\ stopped' = stopped
    /\ Pipeline!Complete <=> /\ Phase = "working" /\ state.idx = state.stories /\ Phase' = "completed"
                             /\ state'.idx = state.idx /\ stopped' = stopped
    /\ Pipeline!End <=> Phase = "working" /\ Phase' = "ended" /\ state'.idx = state.idx /\ stopped' = stopped
    /\ UNCHANGED Pipeline!vars <=> /\ state'.stories = state.stories /\ Phase' = Phase
                                   /\ state'.idx = state.idx /\ stopped' = stopped
  BY DEF Phase, Pipeline!Settle, Pipeline!Ask, Pipeline!Answer, Pipeline!Complete, Pipeline!End, Pipeline!vars

LEMMA PhaseIs ==
    ASSUME IInv
    PROVE  /\ thrown => Phase = "ended"
           /\ ~thrown /\ next = {} =>
                Phase = IF state.status = "completed" THEN "completed" ELSE "ended"
           /\ ~thrown /\ next # {} =>
                Phase = IF state.status = "awaiting_human" THEN "waiting" ELSE "working"
  <1>1. (state.status = "awaiting_human") <=> (next # {} /\ next \subseteq Checkpoints)
    BY DEF IInv, WaitsAtItsCheckpoint
  <1> QED
    BY <1>1 DEF Phase, Waiting, Live

\* A step of the abstract pipeline, or none.
Mapped == [Pipeline!Next]_(Pipeline!vars)

LEMMA InitMapped == Init => Pipeline!Init
  <1> SUFFICES ASSUME Init PROVE Pipeline!Init
    OBVIOUS
  <1>1. IInv
    BY InitIInv
  <1>2. PICK mode, stories, specs :
          /\ mode \in Modes /\ stories \in InitialStories(mode)
          /\ state = InitialGraphState(mode, stories, specs)
    BY DEF Init
  <1>3. state.idx = 0 /\ state.status = "running"
    BY <1>2 DEF InitialGraphState
  <1>4. state.stories \in Nat \ {0}
    BY <1>1, IndexRange, GraphAssumption DEF IInv, TypeOK
  <1>5. ~thrown /\ stopped = FALSE /\ next # {}
    BY DEF Init, RouteFromStart
  <1>6. Phase = "working"
    BY <1>1, <1>3, <1>5, PhaseIs
  <1> QED
    BY <1>3, <1>4, <1>5, <1>6 DEF Pipeline!Init, Phase

LEMMA PhaseIsNext ==
    ASSUME IInv'
    PROVE  /\ thrown' => Phase' = "ended"
           /\ ~thrown' /\ next' = {} =>
                Phase' = IF state'.status = "completed" THEN "completed" ELSE "ended"
           /\ ~thrown' /\ next' # {} =>
                Phase' = IF state'.status = "awaiting_human" THEN "waiting" ELSE "working"
  <1>1. (state'.status = "awaiting_human") <=> (next' # {} /\ next' \subseteq Checkpoints)
    BY DEF IInv, WaitsAtItsCheckpoint
  <1> QED
    BY <1>1 DEF Phase, Waiting, Live

\* A step maps to a step of the pipeline, or to none.
LEMMA MappedIf ==
    ASSUME state'.stories = state.stories,
           \/ Phase' = Phase /\ state'.idx = state.idx /\ stopped' = stopped
           \/ Pipeline!Settle \/ Pipeline!Ask \/ Pipeline!Answer \/ Pipeline!Complete \/ Pipeline!End
    PROVE  Mapped
  BY PipelineSteps DEF Mapped, Pipeline!Next

\* What the curator makes of a story, as far as the pipeline is concerned.
LEMMA CuratorOutcome ==
    ASSUME NEW s \in GraphState, HasStory(s), NEW v \in Verdict,
           s.retryCount <= MaxRetries, ~s.pendingRetry, ~s.pendingReview,
           NEW t, t = CuratorAgent(s, v)
    PROVE  /\ t.stories = s.stories
           /\ \/ /\ t.idx = s.idx + 1 /\ ~t.pendingRetry
                 /\ t.status = IF t.idx >= s.stories THEN "completed" ELSE "running"
              \/ t.idx = s.idx /\ t.status \in {"awaiting_human", "blocked", "running"}
  <1>1. CASE CuratorPasses(s, v)
    BY <1>1, CuratorAgentLemma
  <1>2. CASE ~CuratorPasses(s, v)
    <2>1. t.idx = s.idx /\ t.stories = s.stories
      BY <1>2, CuratorAgentLemma
    <2>2. \/ CuratorDoubts(s, v) \/ CuratorBlocks(s, v) \/ CuratorEscalates(s, v) \/ CuratorAsksFirst(s, v)
          \/ ~(v.passed \/ CuratorBlocks(s, v) \/ CuratorEscalates(s, v) \/ CuratorAsksFirst(s, v))
      BY <1>2 DEF CuratorPasses, CuratorDoubts, Verdict
    <2>3. t.status \in {"awaiting_human", "blocked", "running"}
      BY <2>2, CuratorAgentLemma
    <2> QED
      BY <2>1, <2>3
  <1> QED
    BY <1>1, <1>2

LEMMA SpecAgentMapped == ASSUME IInv, IInv', RunSpecAgent PROVE Mapped
  <1>1. PICK kind \in SpecKind : state' = SpecAgent(state, kind)
    BY DEF RunSpecAgent
  <1>2. /\ next = {"specAgent"} /\ ~thrown /\ ~thrown' /\ stopped' = stopped
        /\ next' = RouteAfterSpecAgent(state') /\ HasStory(state)
    BY DEF RunSpecAgent, RunsAlone, history
  <1>3. state \in GraphState /\ state' \in GraphState
    BY DEF IInv, TypeOK
  <1>4. state.status # "awaiting_human"
    BY <1>2, SingleNode DEF Nodes, Workers, Checkpoints
  <1>5. Phase = "working"
    BY <1>2, <1>4, PhaseIs
  <1>6. /\ state'.stories = state.stories /\ state'.mode = state.mode
        /\ state.mode = "spec_generation" =>
             /\ state'.idx = state.idx + 1
             /\ state'.status = IF state'.idx >= state.stories THEN "completed" ELSE "running"
        /\ state.mode # "spec_generation" => state'.idx = state.idx /\ state'.status = "awaiting_human"
    BY <1>1, <1>2, <1>3, SpecAgentLemma
  <1>7. state.idx < state.stories
    BY <1>2 DEF HasStory
  <1>8. CASE state.mode # "spec_generation"
    <2>1. next' = {"hitlCheckpoint"}
      BY <1>2, <1>6, <1>8 DEF RouteAfterSpecAgent
    <2>2. Phase' = "waiting"
      BY <1>2, <1>6, <1>8, <2>1, PhaseIsNext
    <2> QED
      BY <1>2, <1>5, <1>6, <1>7, <1>8, <2>2, PipelineSteps, MappedIf
  <1>9. CASE state.mode = "spec_generation"
    <2>1. CASE state'.idx >= state.stories
      <3>1. state'.status = "completed" /\ next' = {}
        BY <1>2, <1>6, <1>9, <2>1 DEF RouteAfterSpecAgent
      <3>2. Phase' = "completed"
        BY <1>2, <3>1, PhaseIsNext
      <3>3. state'.idx = state.stories
        BY <1>2, <1>3, <1>6, <1>9, <2>1, LastStory
      <3> QED
        BY <1>2, <1>5, <1>6, <1>7, <1>9, <3>2, <3>3, PipelineSteps, MappedIf
    <2>2. CASE ~(state'.idx >= state.stories)
      <3>1. state'.status = "running" /\ next' = {"specAgent"}
        BY <1>2, <1>6, <1>9, <2>2 DEF RouteAfterSpecAgent
      <3>2. Phase' = "working"
        BY <1>2, <3>1, PhaseIsNext
      <3> QED
        BY <1>2, <1>5, <1>6, <1>7, <1>9, <3>2, PipelineSteps, MappedIf
    <2> QED
      BY <2>1, <2>2
  <1> QED
    BY <1>8, <1>9

LEMMA OdinAgentMapped == ASSUME IInv, Modest, IInv', RunOdinAgent PROVE Mapped
  <1>1. /\ next = {"odinAgent"} /\ ~thrown /\ ~thrown' /\ stopped' = stopped
        /\ state'.stories = state.stories /\ state'.idx = state.idx /\ state'.status = state.status
    BY OdinMove
  <1>2. state.status # "awaiting_human"
    BY <1>1, SingleNode DEF Nodes, Workers, Checkpoints
  <1>3. Phase = "working"
    BY <1>1, <1>2, PhaseIs
  <1>4. CASE next' # {}
    <2>1. Phase' = "working"
      BY <1>1, <1>2, <1>4, PhaseIsNext
    <2> QED
      BY <1>1, <1>3, <2>1, MappedIf
  <1>5. CASE next' = {} /\ state.status # "completed"
    <2>1. Phase' = "ended"
      BY <1>1, <1>5, PhaseIsNext
    <2> QED
      BY <1>1, <1>3, <2>1, PipelineSteps, MappedIf
  <1>6. CASE next' = {} /\ state.status = "completed"
    <2>1. Phase' = "completed"
      BY <1>1, <1>6, PhaseIsNext
    <2>2. ~stopped
      BY <1>1 DEF Modest, StopEnds
    <2>3. state.idx = state.stories
      BY <1>6, <2>2, Zenon DEF IInv, CompletedAtTheEnd
    <2> QED
      BY <1>1, <1>3, <2>1, <2>3, PipelineSteps, MappedIf
  <1> QED
    BY <1>4, <1>5, <1>6

LEMMA WorkerMapped == ASSUME IInv, IInv', RunFrontAgent \/ RunQaAgent PROVE Mapped
  <1>1. /\ ~thrown /\ ~thrown' /\ next \subseteq Workers /\ next # {} /\ next' # {} /\ stopped' = stopped
        /\ state'.stories = state.stories /\ state'.idx = state.idx /\ state'.status = state.status
    BY FrontMove, QaMove
  <1>2. state.status # "awaiting_human"
    BY <1>1 DEF IInv, WaitsAtItsCheckpoint, Workers, Checkpoints
  <1> QED
    BY <1>1, <1>2, PhaseIs, PhaseIsNext, MappedIf

LEMMA CuratorMapped == ASSUME IInv, IInv', RunCuratorAgent PROVE Mapped
  <1>1. PICK v \in Verdicts(state) : state' = CuratorAgent(state, v)
    BY DEF RunCuratorAgent
  <1>2. v \in Verdict
    BY <1>1, VerdictsLemma
  <1>3. /\ next = {"curatorAgent"} /\ ~thrown /\ ~thrown' /\ stopped' = stopped
        /\ next' = RouteAfterCurator(state') /\ HasStory(state)
    BY DEF RunCuratorAgent, RunsAlone, HasSpec
  <1>4. state \in GraphState /\ state' \in GraphState
    BY DEF IInv, TypeOK
  <1>5. /\ state.status # "awaiting_human" /\ ~state.pendingRetry /\ ~state.pendingReview
        /\ state.retryCount <= MaxRetries
    BY <1>3, SingleNode DEF Nodes, Workers, Checkpoints, Agents
  <1>6. Phase = "working"
    BY <1>3, <1>5, PhaseIs
  <1>7. state.idx < state.stories /\ state.idx \in Stories
    BY <1>3 DEF HasStory
  <1>8. /\ state'.stories = state.stories
        /\ \/ /\ state'.idx = state.idx + 1 /\ ~state'.pendingRetry
              /\ state'.status = IF state'.idx >= state.stories THEN "completed" ELSE "running"
           \/ state'.idx = state.idx /\ state'.status \in {"awaiting_human", "blocked", "running"}
    BY <1>1, <1>2, <1>3, <1>4, <1>5, CuratorOutcome
  <1>9. CASE /\ state'.idx = state.idx + 1
             /\ state'.status = IF state'.idx >= state.stories THEN "completed" ELSE "running"
    <2>1. next' # {}
      <3>1. CASE state'.idx >= state.stories
        BY <1>3, <1>9, <3>1 DEF RouteAfterCurator
      <3>2. CASE ~(state'.idx >= state.stories)
        <4>1. state'.status = "running"
          BY <1>9, <3>2
        <4>2. state'.idx < state'.stories /\ state'.idx \in Stories
          BY <1>4, <1>7, <1>8, <1>9, <3>2, IndexRange, GraphAssumption DEF Stories
        <4> QED
          BY <1>3, <4>1, <4>2 DEF RouteAfterCurator, HasStory
      <3> QED
        BY <3>1, <3>2
    <2>2. Phase' = "working"
      BY <1>3, <1>9, <2>1, PhaseIsNext
    <2> QED
      BY <1>3, <1>6, <1>7, <1>8, <1>9, <2>2, PipelineSteps, MappedIf
  <1>10. CASE state'.idx = state.idx /\ state'.status = "awaiting_human"
    <2>1. next' # {}
      BY <1>10 DEF IInv, WaitsAtItsCheckpoint
    <2>2. Phase' = "waiting"
      BY <1>3, <1>10, <2>1, PhaseIsNext
    <2> QED
      BY <1>3, <1>6, <1>7, <1>8, <1>10, <2>2, PipelineSteps, MappedIf
  <1>11. CASE state'.idx = state.idx /\ state'.status = "blocked"
    <2>1. next' = {} \/ next' # {}
      OBVIOUS
    <2>2. Phase' \in {"ended", "working"}
      BY <1>3, <1>11, <2>1, PhaseIsNext
    <2> QED
      BY <1>3, <1>6, <1>8, <1>11, <2>2, PipelineSteps, MappedIf
  <1>12. CASE state'.idx = state.idx /\ state'.status = "running"
    <2>1. next' # {}
      BY <1>3, <1>7, <1>8, <1>12 DEF RouteAfterCurator, HasStory
    <2>2. Phase' = "working"
      BY <1>3, <1>12, <2>1, PhaseIsNext
    <2> QED
      BY <1>3, <1>6, <1>8, <1>12, <2>2, MappedIf
  <1> QED
    BY <1>8, <1>9, <1>10, <1>11, <1>12

\* An answer of the human: it settles the story, sends it back to work, or ends the run.
LEMMA AnswerMapped == ASSUME IInv, Modest, IInv', HumanStep PROVE Mapped
  <1>1. PICK answer \in BOOLEAN : ApproveSpec(answer) \/ DecideRetry(answer) \/ DecideReview(answer)
    BY DEF HumanStep
  <1>2. /\ ~thrown /\ ~thrown' /\ (\E n \in Checkpoints : next = {n})
        /\ state'.stories = state.stories
    BY AnswerMove
  <1>3. next # {} /\ next \subseteq Checkpoints /\ ~stopped
    BY <1>2 DEF Modest, StopEnds
  <1>4. Phase = "waiting"
    BY <1>2, <1>3, PhaseIs DEF IInv, WaitsAtItsCheckpoint
  <1>5. state \in GraphState /\ state' \in GraphState /\ stopped \in BOOLEAN
    BY DEF IInv, TypeOK
  <1>6. state.idx < state.stories /\ HasStory(state) /\ state.idx \in Nat /\ state.stories \in Nat
    BY <1>1, <1>5, IndexRange, GraphAssumption DEF ApproveSpec, DecideRetry, DecideReview, HasSpec, HasStory
  <1>7. CASE ApproveSpec(answer)
    <2>1. PICK kind \in SpecKind : state' = HitlCheckpoint(state, answer, kind)
      BY <1>7 DEF ApproveSpec
    <2>2. HasSpec(state) /\ stopped' = stopped /\ next' = RouteAfterHitlCheckpoint(state')
      BY <1>7 DEF ApproveSpec
    <2>3. state'.idx = state.idx /\ state'.status = IF answer THEN "running" ELSE "cancelled"
      BY <1>5, <2>1, <2>2, HitlCheckpointLemma
    <2>4. CASE answer
      <3>1. Phase' = "working"
        BY <1>2, <2>2, <2>3, <2>4, PhaseIsNext DEF RouteAfterHitlCheckpoint
      <3> QED
        BY <1>2, <1>4, <1>6, <2>2, <2>3, <3>1, PipelineSteps, MappedIf
    <2>5. CASE ~answer
      <3>1. Phase' = "ended"
        BY <1>2, <2>2, <2>3, <2>5, PhaseIsNext DEF RouteAfterHitlCheckpoint
      <3> QED
        BY <1>2, <1>4, <2>2, <2>3, <3>1, PipelineSteps, MappedIf
    <2> QED
      BY <2>4, <2>5
  <1>8. CASE DecideRetry(answer)
    <2>1. /\ state' = RetryCheckpoint(state, answer) /\ stopped' = ~answer
          /\ next' = RouteAfterRetryCheckpoint(state')
      BY <1>8, Zenon DEF DecideRetry
    <2>2. CASE answer
      <3>1. state' = [state EXCEPT !.pendingRetry = FALSE, !.retryCount = 0, !.status = "running"]
        BY <2>1, <2>2 DEF RetryCheckpoint
      <3>2. state'.idx = state.idx /\ state'.status = "running"
        BY <1>5, <3>1 DEF GraphState
      <3>3. Phase' = "working"
        BY <1>2, <2>1, <3>2, PhaseIsNext DEF RouteAfterRetryCheckpoint
      <3>4. stopped' = stopped
        BY <1>3, <1>5, <2>1, <2>2
      <3> QED
        BY <1>2, <1>4, <1>6, <3>2, <3>3, <3>4, PipelineSteps, MappedIf
    <2>3. CASE ~answer
      <3>1. state' = [state EXCEPT !.pendingRetry = FALSE, !.status = "completed"]
        BY <2>1, <2>3 DEF RetryCheckpoint
      <3>2. state'.idx = state.idx /\ state'.status = "completed"
        BY <1>5, <3>1 DEF GraphState
      <3>3. Phase' = "completed"
        BY <1>2, <2>1, <3>2, PhaseIsNext DEF RouteAfterRetryCheckpoint
      <3>4. stopped' = TRUE
        BY <2>1, <2>3
      <3> QED
        BY <1>2, <1>4, <3>2, <3>3, <3>4, PipelineSteps, MappedIf
    <2> QED
      BY <2>2, <2>3
  <1>9. CASE DecideReview(answer)
    <2>1. /\ state' = CuratorReviewCheckpoint(state, answer) /\ stopped' = stopped
          /\ next' = RouteAfterCuratorReviewCheckpoint(state')
      BY <1>9 DEF DecideReview
    <2>2. /\ answer => /\ state'.idx = state.idx + 1
                       /\ state'.status = IF state'.idx >= state.stories THEN "completed" ELSE "running"
          /\ ~answer => state'.idx = state.idx /\ state'.status = "running"
      BY <1>5, <1>6, <2>1, CuratorReviewCheckpointLemma, ZenonT(60)
    <2>3. CASE answer /\ state'.idx >= state.stories
      <3>1. state'.status = "completed" /\ state'.idx = state.stories
        BY <1>6, <2>2, <2>3
      <3>2. Phase' = "completed"
        BY <1>2, <2>1, <3>1, PhaseIsNext DEF RouteAfterCuratorReviewCheckpoint
      <3> QED
        BY <1>2, <1>4, <2>1, <2>2, <2>3, <3>1, <3>2, PipelineSteps, MappedIf
    <2>4. CASE ~(answer /\ state'.idx >= state.stories)
      <3>1. state'.status = "running" /\ state'.idx \in {state.idx, state.idx + 1} /\ state'.idx # state.stories
        BY <1>6, <2>2, <2>4
      <3>2. Phase' = "working"
        BY <1>2, <2>1, <3>1, PhaseIsNext DEF RouteAfterCuratorReviewCheckpoint
      <3> QED
        BY <1>2, <1>4, <2>1, <3>1, <3>2, PipelineSteps, MappedIf
    <2> QED
      BY <2>3, <2>4
  <1> QED
    BY <1>1, <1>7, <1>8, <1>9

LEMMA ThrowMapped == ASSUME IInv, IInv', NodeThrows PROVE Mapped
  <1>1. /\ ~thrown /\ next # {} /\ next \cap Agents # {} /\ thrown' /\ stopped' = stopped /\ state' = state
    BY DEF NodeThrows, Live
  <1>2. state.status # "awaiting_human"
    BY <1>1 DEF IInv, WaitsAtItsCheckpoint, Agents
  <1>3. Phase = "working" /\ Phase' = "ended"
    BY <1>1, <1>2, PhaseIs, PhaseIsNext
  <1> QED
    BY <1>1, <1>3, PipelineSteps, MappedIf

LEMMA StepMapped == IInv /\ Modest /\ IInv' /\ [Next]_vars => Mapped
  <1> SUFFICES ASSUME IInv, Modest, IInv', [Next]_vars PROVE Mapped
    OBVIOUS
  <1>1. CASE UNCHANGED vars
    BY <1>1 DEF vars, Mapped, Pipeline!vars, Waiting, Live
  <1>2. CASE Next
    BY <1>2, SpecAgentMapped, OdinAgentMapped, WorkerMapped, CuratorMapped, AnswerMapped, ThrowMapped
    DEF Next, AgentStep
  <1> QED
    BY <1>1, <1>2

\* The workflow implements StoryPipeline: whatever agents and human answer, it settles its stories one
\* at a time and in order, changes none once it is over, and is completed only with all of them settled
\* or when the human said to stop.
THEOREM PipelineImplemented == Spec => ImplementsPipeline
  BY InitMapped, StepMapped, ModestInvariance, PTL DEF Spec, ImplementsPipeline, Pipeline!Spec, Mapped

=============================================================================
