-------------------------- MODULE WorkflowRunProofs --------------------------
(***************************************************************************)
(* Theorems about WorkflowRun, for every number of stories, retries and    *)
(* streams: all its invariants and its action property.  The invariant of  *)
(* the graph is taken from WorkflowGraphProofs, whose theorems hold for    *)
(* the graph of this run (P); each step of the run is first described by   *)
(* what it does to the streams and to the change sets (the lemmas named    *)
(* ...Move), and the invariants are proved from these descriptions, one    *)
(* after the other: Base (types, what a stream holds), TellInv (what its   *)
(* status tells), NewsInv (a front chunk is the first news of its set),    *)
(* PendingInv (what is to be done is on its way), RouteInv, OnceInv and    *)
(* JobInv (a set is judged once) and PassInv (what passed is applied).     *)
(***************************************************************************)
EXTENDS WorkflowRun, SequenceTheorems, TLAPS

\* The theorems about the graph, for the graph of this run.
P == INSTANCE WorkflowGraphProofs

-----------------------------------------------------------------------------
(* G and P are the same graph: their definitions agree, word for word. *)

LEMMA SameSets ==
    /\ G!Stories = Stories /\ P!Stories = Stories
    /\ P!CodeModes = CodeModes /\ P!Workers = Workers /\ P!Checkpoints = Checkpoints
    /\ P!FrontKind = FrontKind /\ P!Nodes = Nodes
    /\ P!NodeStatus = NodeStatus
  BY DEF G!Stories, P!Stories, Stories, P!CodeModes, CodeModes, P!Workers, Workers, P!Checkpoints,
         Checkpoints, P!FrontKind, FrontKind, P!Nodes, Nodes,
         P!NodeStatus, NodeStatus

LEMMA SameGraph ==
    /\ G!TypeOK <=> P!TypeOK
    /\ G!Waiting <=> P!Waiting
    /\ G!Working <=> P!Working
    /\ G!Init <=> P!Init
    /\ G!RunSpecAgent <=> P!RunSpecAgent
    /\ G!RunOdinAgent <=> P!RunOdinAgent
    /\ G!RunFrontAgent <=> P!RunFrontAgent
    /\ G!RunQaAgent <=> P!RunQaAgent
    /\ G!RunCuratorAgent <=> P!RunCuratorAgent
    /\ G!NodeThrows <=> P!NodeThrows
    /\ G!HumanStep <=> P!HumanStep
    /\ UNCHANGED graphVars <=> UNCHANGED P!vars
    /\ G!TypeOK' <=> P!TypeOK'
    /\ G!Waiting' <=> P!Waiting'
    /\ G!Working' <=> P!Working'
  BY DEF graphVars,
         G!Stories, P!Stories, G!CodeModes, P!CodeModes, G!Modes, P!Modes, G!SpecKind, P!SpecKind,
         G!FrontKind, P!FrontKind, G!FixTarget, P!FixTarget, G!Verdict, P!Verdict, G!NoFeedback,
         P!NoFeedback, G!GateFailure, P!GateFailure, G!Workers, P!Workers, G!Checkpoints,
         P!Checkpoints, G!Nodes, P!Nodes, G!NodeStatus, P!NodeStatus, G!GraphState, P!GraphState,
         G!InitialGraphState, P!InitialGraphState, G!InitialStories, P!InitialStories,
         G!InitialSpecs, P!InitialSpecs, G!HasStory, P!HasStory, G!HasSpec, P!HasSpec, G!Advance,
         P!Advance, G!SpecAgent, P!SpecAgent, G!HitlCheckpoint, P!HitlCheckpoint, G!DecideRouting,
         P!DecideRouting, G!OdinAgent, P!OdinAgent, G!OdinThrows, P!OdinThrows, G!FrontAgent,
         P!FrontAgent, G!RetryCheckpoint, P!RetryCheckpoint, G!CuratorReviewCheckpoint,
         P!CuratorReviewCheckpoint, G!GatesRequired, P!GatesRequired, G!ToolEditSucceeded,
         P!ToolEditSucceeded, G!Verdicts, P!Verdicts, G!CuratorPasses, P!CuratorPasses,
         G!CuratorDoubts, P!CuratorDoubts, G!CuratorBlocks, P!CuratorBlocks, G!CuratorEscalates,
         P!CuratorEscalates, G!CuratorAsksFirst, P!CuratorAsksFirst, G!CuratorAgent, P!CuratorAgent,
         G!Ended, P!Ended, G!RouteFromStart, P!RouteFromStart, G!RouteAfterSpecAgent,
         P!RouteAfterSpecAgent, G!RouteAfterHitlCheckpoint, P!RouteAfterHitlCheckpoint,
         G!RouteToParallelAgents, P!RouteToParallelAgents, G!RouteAfterCurator, P!RouteAfterCurator,
         G!RouteAfterCuratorReviewCheckpoint, P!RouteAfterCuratorReviewCheckpoint,
         G!RouteAfterRetryCheckpoint, P!RouteAfterRetryCheckpoint, G!Agents, P!Agents, G!Live,
         P!Live, G!Waiting, P!Waiting, G!Working, P!Working, G!Init, P!Init, G!RunsAlone,
         P!RunsAlone, G!RunSpecAgent, P!RunSpecAgent, G!RunOdinAgent, P!RunOdinAgent,
         G!WorkerFinishes, P!WorkerFinishes, G!RunFrontAgent, P!RunFrontAgent, G!RunQaAgent,
         P!RunQaAgent, G!RunCuratorAgent, P!RunCuratorAgent, G!ApproveSpec, P!ApproveSpec,
         G!DecideRetry, P!DecideRetry, G!DecideReview, P!DecideReview, G!NodeThrows, P!NodeThrows,
         G!AgentStep, P!AgentStep, G!HumanStep, P!HumanStep, G!Next, P!Next, G!TypeOK, P!TypeOK,
         G!history, P!history, G!vars, P!vars

\* An instantiated theorem holds under the instantiated assumption.
LEMMA SameAssumption == P!GraphAssumption
  BY GraphAssumption DEF P!GraphAssumption

\* What the theorems about the graph rely on: its own invariant.
GraphInv == P!IInv /\ P!Modest

LEMMA GraphInit == G!Init => GraphInv
  BY SameGraph, SameAssumption, P!InitIInv, P!InitModest DEF GraphInv

LEMMA GraphStep ==
    ASSUME GraphInv,
           \/ G!RunSpecAgent \/ G!RunOdinAgent \/ G!RunFrontAgent \/ G!RunQaAgent \/ G!RunCuratorAgent
           \/ G!NodeThrows \/ G!HumanStep \/ UNCHANGED graphVars
    PROVE  GraphInv'
  <1>1. [P!Next]_(P!vars)
    BY SameGraph DEF P!Next, P!AgentStep
  <1> QED
    BY <1>1, SameAssumption, P!StepIInv, P!StepModest DEF GraphInv

LEMMA GraphTypes == ASSUME GraphInv PROVE G!TypeOK
  BY SameGraph DEF GraphInv, P!IInv

LEMMA GraphTypesNext == ASSUME GraphInv' PROVE G!TypeOK'
  BY SameGraph DEF GraphInv, P!IInv

-----------------------------------------------------------------------------
(* Types.  What a chunk or a job may name grows with the change sets. *)

ChunkOf(n)  == [node : {"front", "curator"}, set : 0 .. n, passed : BOOLEAN]
JobOf(n)    == [kind : {"judge", "apply"}, set : 1 .. n, passed : BOOLEAN] \cup {NoJob}
StreamOf(n) == [phase : {"open", "saving", "closed"}, queue : Seq(ChunkOf(n)), job : JobOf(n),
                blocked : BOOLEAN, broken : BOOLEAN, snapshot : StoredStatus \cup {"none"}]
ChangeSet   == [story : Stories, edited : BOOLEAN, status : SetStatus]

\* The part of the type invariant that is not the graph's.
RunTypes ==
    /\ project \in BOOLEAN /\ overlap \in BOOLEAN
    /\ sets \in Seq(ChangeSet)
    /\ streams \in Seq(StreamOf(Len(sets)))
    /\ stored \in StoredStatus /\ ledger \in StoredStatus

LEMMA Types == TypeOK <=> G!TypeOK /\ RunTypes /\ failedBy \subseteq 1 .. MaxStreams
  <1>1. ASSUME sets \in Seq(ChangeSet) PROVE Chunk = ChunkOf(Len(sets)) /\ Job = JobOf(Len(sets))
    BY <1>1 DEF Chunk, Job, ChunkOf, JobOf
  <1> QED
    BY <1>1 DEF TypeOK, RunTypes, StreamOf, ChangeSet

LEMMA StreamsGrow == ASSUME NEW m \in Nat, NEW n \in Nat, m <= n PROVE Seq(StreamOf(m)) \subseteq Seq(StreamOf(n))
  <1>1. ChunkOf(m) \subseteq ChunkOf(n) /\ JobOf(m) \subseteq JobOf(n)
    BY DEF ChunkOf, JobOf
  <1>2. Seq(ChunkOf(m)) \subseteq Seq(ChunkOf(n))
    BY <1>1
  <1>3. StreamOf(m) \subseteq StreamOf(n)
    BY <1>1, <1>2 DEF StreamOf
  <1> QED
    BY <1>3

Numbers == 1 .. Last

LEMMA StreamTyped ==
    ASSUME RunTypes, NEW k \in Numbers
    PROVE  /\ streams[k] \in StreamOf(Len(sets)) /\ Len(sets) \in Nat /\ Last \in Nat
           /\ streams[k].queue \in Seq(ChunkOf(Len(sets))) /\ streams[k].job \in JobOf(Len(sets))
           /\ streams[k].phase \in {"open", "saving", "closed"}
           /\ streams[k].blocked \in BOOLEAN /\ streams[k].broken \in BOOLEAN
           /\ streams[k].snapshot \in StoredStatus \cup {"none"}
  <1>1. streams[k] \in StreamOf(Len(sets)) /\ Len(sets) \in Nat /\ Last \in Nat
    BY DEF RunTypes, Numbers, Last
  <1> QED
    BY <1>1 DEF StreamOf

\* A change of one stream leaves the others alone.
Others(k) == Last' = Last /\ \A l \in Numbers : l # k => streams'[l] = streams[l]

LEMMA StreamBecomes ==
    ASSUME RunTypes, NEW k \in Numbers, NEW r \in StreamOf(Len(sets)),
           streams' = [streams EXCEPT ![k] = r]
    PROVE  streams' \in Seq(StreamOf(Len(sets))) /\ Others(k) /\ streams'[k] = r
  BY DEF RunTypes, Numbers, Last, Others

\* A change of one set's status.
StatusOnly(i, status) ==
    /\ Len(sets') = Len(sets)
    /\ \A j \in DOMAIN sets : /\ sets'[j].story = sets[j].story /\ sets'[j].edited = sets[j].edited
                              /\ sets'[j].status = IF j = i THEN status ELSE sets[j].status

LEMMA SetBecomes ==
    ASSUME sets \in Seq(ChangeSet), NEW i \in DOMAIN sets, NEW status \in SetStatus,
           sets' = [sets EXCEPT ![i].status = status]
    PROVE  sets' \in Seq(ChangeSet) /\ StatusOnly(i, status)
  <1> DEFINE c == [sets[i] EXCEPT !.status = status]
  <1>0. sets[i] \in ChangeSet
    OBVIOUS
  <1>1. c \in ChangeSet /\ c.story = sets[i].story /\ c.edited = sets[i].edited /\ c.status = status
    BY <1>0 DEF ChangeSet
  <1>2. sets' = [sets EXCEPT ![i] = c]
    OBVIOUS
  <1> HIDE DEF c
  <1> QED
    BY <1>1, <1>2 DEF StatusOnly

-----------------------------------------------------------------------------
(* What each step does: to the streams, to the sets, and that the types hold after it. *)

LEMMA PushMove ==
    ASSUME RunTypes, Last \in Nat \ {0}, NEW n \in Nat, Len(sets) <= n, NEW chunk \in ChunkOf(n), Push(chunk)
    PROVE  /\ streams' \in Seq(StreamOf(n)) /\ Others(Last)
           /\ streams[Last].broken => streams' = streams
           /\ ~streams[Last].broken => streams'[Last].queue = Append(streams[Last].queue, chunk)
           /\ streams'[Last].phase = streams[Last].phase /\ streams'[Last].job = streams[Last].job
           /\ streams'[Last].blocked = streams[Last].blocked /\ streams'[Last].broken = streams[Last].broken
           /\ streams'[Last].snapshot = streams[Last].snapshot
  <1>1. Len(sets) \in Nat /\ Last \in Numbers
    BY DEF RunTypes, Numbers
  <1>2. streams \in Seq(StreamOf(n))
    BY <1>1, StreamsGrow DEF RunTypes
  <1>3. CASE streams[Last].broken
    BY <1>2, <1>3 DEF Push, Others, Last
  <1>4. CASE ~streams[Last].broken
    <2> DEFINE r == [streams[Last] EXCEPT !.queue = Append(streams[Last].queue, chunk)]
    <2>1. streams[Last] \in StreamOf(n)
      BY <1>1, <1>2 DEF Numbers, Last
    <2>0. Append(streams[Last].queue, chunk) \in Seq(ChunkOf(n))
      BY <2>1 DEF StreamOf
    <2>2. /\ r \in StreamOf(n) /\ r.queue = Append(streams[Last].queue, chunk)
          /\ r.phase = streams[Last].phase /\ r.job = streams[Last].job
          /\ r.blocked = streams[Last].blocked /\ r.broken = streams[Last].broken
          /\ r.snapshot = streams[Last].snapshot
      BY <2>0, <2>1 DEF StreamOf
    <2>3. streams' = [streams EXCEPT ![Last] = r]
      BY <1>4 DEF Push
    <2> HIDE DEF r
    <2>4. streams' \in Seq(StreamOf(n)) /\ Others(Last) /\ streams'[Last] = r
      BY <1>1, <1>2, <2>2, <2>3 DEF Numbers, Last, Others
    <2> QED
      BY <1>4, <2>2, <2>4
  <1> QED
    BY <1>3, <1>4

\* The chunk the consumer reads next is taken.
Taken(k) ==
    /\ Consuming(k) /\ streams[k].queue # <<>> /\ Others(k)
    /\ streams'[k].queue = Tail(streams[k].queue)
    /\ streams'[k].phase = "open" /\ ~streams'[k].broken
    /\ streams'[k].blocked = streams[k].blocked

LEMMA RecordSetMove ==
    ASSUME RunTypes, NEW k, RecordSet(k), Head(streams[k].queue).set # 0
    PROVE  /\ RunTypes' /\ Taken(k) /\ streams'[k].job = NoJob
           /\ Head(streams[k].queue).node = "front" /\ Head(streams[k].queue).set \in DOMAIN sets
           /\ \E status \in {"applied", "proposed"} :
                /\ StatusOnly(Head(streams[k].queue).set, status)
                /\ sets[Head(streams[k].queue).set].status # "produced" => status = "proposed"
           /\ UNCHANGED <<graphVars, project, stored, ledger, overlap, failedBy>>
  <1>1. /\ k \in Numbers /\ streams[k].phase = "open" /\ streams[k].job = NoJob /\ ~streams[k].broken
        /\ streams[k].queue # <<>> /\ Head(streams[k].queue).node = "front"
        /\ UNCHANGED <<graphVars, project, stored, ledger, overlap, failedBy>>
    BY DEF RecordSet, Consuming, Numbers, statusVars
  <1> DEFINE r == [streams[k] EXCEPT !.queue = Tail(streams[k].queue)]
  <1>2. streams[k] \in StreamOf(Len(sets)) /\ streams[k].queue \in Seq(ChunkOf(Len(sets)))
    BY <1>1, StreamTyped
  <1>3. /\ r \in StreamOf(Len(sets)) /\ r.queue = Tail(streams[k].queue) /\ r.phase = streams[k].phase
        /\ r.job = streams[k].job /\ r.blocked = streams[k].blocked /\ r.broken = streams[k].broken
    BY <1>1, <1>2 DEF StreamOf
  <1>4. streams' = [streams EXCEPT ![k] = r]
    BY DEF RecordSet
  <1> HIDE DEF r
  <1>5. streams' \in Seq(StreamOf(Len(sets))) /\ Others(k) /\ streams'[k] = r
    BY <1>1, <1>3, <1>4, StreamBecomes
  <1>6. Head(streams[k].queue) \in ChunkOf(Len(sets))
    BY <1>1, <1>2
  <1>7. PICK i \in DOMAIN sets : i = Head(streams[k].queue).set
    BY <1>6 DEF ChunkOf, RunTypes
  <1>8. PICK status \in {"applied", "proposed"} :
          /\ sets' = [sets EXCEPT ![i].status = status]
          /\ sets[i].status # "produced" => status = "proposed"
    <2>1. sets' = [sets EXCEPT ![i].status = IF sets[i].status = "produced" /\ sets[i].edited
                                               THEN "applied" ELSE "proposed"]
      BY <1>7 DEF RecordSet
    <2> QED
      BY <2>1
  <1>9. sets' \in Seq(ChangeSet) /\ StatusOnly(i, status)
    BY <1>8, SetBecomes DEF RunTypes, SetStatus
  <1>10. RunTypes'
    BY <1>1, <1>5, <1>9 DEF RunTypes, StatusOnly
  <1>11. Taken(k)
    BY <1>1, <1>3, <1>5 DEF Taken, Consuming, Numbers
  <1> QED
    BY <1>1, <1>3, <1>5, <1>7, <1>8, <1>9, <1>10, <1>11

LEMMA TakeVerdictMove ==
    ASSUME RunTypes, NEW k, TakeVerdict(k)
    PROVE  /\ RunTypes' /\ Taken(k) /\ Head(streams[k].queue).node = "curator"
           /\ streams'[k].job = JobFor(FindProposed(Head(streams[k].queue).set), Head(streams[k].queue).passed)
           /\ UNCHANGED <<graphVars, project, sets, stored, ledger, overlap, failedBy>>
  <1>1. /\ k \in Numbers /\ streams[k].phase = "open" /\ streams[k].job = NoJob /\ ~streams[k].broken
        /\ streams[k].queue # <<>> /\ Head(streams[k].queue).node = "curator"
        /\ UNCHANGED <<graphVars, project, sets, stored, ledger, overlap, failedBy>>
    BY DEF TakeVerdict, Consuming, Numbers, statusVars
  <1>2. streams[k] \in StreamOf(Len(sets)) /\ streams[k].queue \in Seq(ChunkOf(Len(sets)))
    BY <1>1, StreamTyped
  <1>3. PICK chunk \in ChunkOf(Len(sets)) : chunk = Head(streams[k].queue)
    BY <1>1, <1>2
  <1>4. PICK job \in JobOf(Len(sets)) : job = JobFor(FindProposed(chunk.set), chunk.passed)
    <2>1. chunk.set \in 0 .. Len(sets) /\ chunk.passed \in BOOLEAN
      BY DEF ChunkOf
    <2>2. FindProposed(chunk.set) \in 0 .. Len(sets)
      BY <2>1 DEF FindProposed
    <2>3. JobFor(FindProposed(chunk.set), chunk.passed) \in JobOf(Len(sets))
      BY <2>1, <2>2 DEF JobFor, JobOf
    <2> QED
      BY <2>3
  <1> DEFINE r == [streams[k] EXCEPT !.queue = Tail(streams[k].queue), !.job = job]
  <1>5. /\ r \in StreamOf(Len(sets)) /\ r.queue = Tail(streams[k].queue) /\ r.phase = streams[k].phase
        /\ r.job = job /\ r.blocked = streams[k].blocked /\ r.broken = streams[k].broken
    <2>1. Tail(streams[k].queue) \in Seq(ChunkOf(Len(sets)))
      BY <1>1, <1>2
    <2> QED
      BY <1>2, <2>1 DEF StreamOf
  <1>6. streams' = [streams EXCEPT ![k] = r]
    BY <1>2, <1>3, <1>4 DEF TakeVerdict, StreamOf
  <1> HIDE DEF r
  <1>7. streams' \in Seq(StreamOf(Len(sets))) /\ Others(k) /\ streams'[k] = r
    BY <1>1, <1>5, <1>6, StreamBecomes
  <1>8. RunTypes'
    BY <1>1, <1>7 DEF RunTypes
  <1> QED
    BY <1>1, <1>3, <1>4, <1>5, <1>7, <1>8 DEF Taken, Consuming, Numbers

LEMMA JudgeMove ==
    ASSUME RunTypes, NEW k, Judge(k)
    PROVE  /\ RunTypes' /\ k \in Numbers /\ Others(k) /\ streams[k].job.kind = "judge"
           /\ streams[k].job \in [kind : {"judge", "apply"}, set : DOMAIN sets, passed : BOOLEAN]
           /\ streams'[k].queue = streams[k].queue /\ streams'[k].phase = streams[k].phase
           /\ streams'[k].blocked = streams[k].blocked /\ streams'[k].broken = streams[k].broken
           /\ streams'[k].snapshot = streams[k].snapshot
           /\ StatusOnly(streams[k].job.set, IF streams[k].job.passed THEN "curator_approved" ELSE "curator_rejected")
           /\ streams'[k].job = IF streams[k].job.passed /\ project
                                THEN [kind |-> "apply", set |-> streams[k].job.set, passed |-> TRUE] ELSE NoJob
           /\ UNCHANGED <<graphVars, project, stored, ledger, overlap, failedBy>>
  <1>1. /\ k \in Numbers /\ streams[k].job.kind = "judge"
        /\ UNCHANGED <<graphVars, project, stored, ledger, overlap, failedBy>>
    BY DEF Judge, Numbers, statusVars
  <1>2. streams[k] \in StreamOf(Len(sets)) /\ streams[k].job \in JobOf(Len(sets))
    BY <1>1, StreamTyped
  <1>3. PICK job \in [kind : {"judge", "apply"}, set : DOMAIN sets, passed : BOOLEAN] : job = streams[k].job
    BY <1>1, <1>2 DEF JobOf, NoJob, RunTypes
  <1>4. job.kind = "judge" /\ job.set \in DOMAIN sets /\ job.passed \in BOOLEAN
    BY <1>1, <1>3
  <1> DEFINE status == IF job.passed THEN "curator_approved" ELSE "curator_rejected"
             after  == IF job.passed /\ project
                       THEN [kind |-> "apply", set |-> job.set, passed |-> TRUE] ELSE NoJob
             r      == [streams[k] EXCEPT !.job = after]
  <1>5. after \in JobOf(Len(sets))
    BY <1>4 DEF JobOf, RunTypes
  <1>6. sets' = [sets EXCEPT ![job.set].status = status]
    BY <1>3 DEF Judge
  <1>7. streams' = [streams EXCEPT ![k] = r]
    <2>1. ASSUME job.passed
          PROVE  [job EXCEPT !.kind = "apply"] = [kind |-> "apply", set |-> job.set, passed |-> TRUE]
      <3>1. job.passed = TRUE
        BY <1>4, <2>1
      <3>2. job \in [kind : {"judge", "apply"}, set : DOMAIN sets, passed : BOOLEAN]
        OBVIOUS
      <3>3. [job EXCEPT !.kind = "apply"] = [kind |-> "apply", set |-> job.set, passed |-> job.passed]
        BY <3>2
      <3> QED
        BY <3>1, <3>3
    <2>2. (IF job.passed /\ project THEN [job EXCEPT !.kind = "apply"] ELSE NoJob) = after
      BY <2>1
    <2> QED
      BY <1>3, <2>2 DEF Judge
  <1> HIDE DEF after
  <1>8. /\ r \in StreamOf(Len(sets)) /\ r.queue = streams[k].queue /\ r.phase = streams[k].phase
        /\ r.job = after /\ r.blocked = streams[k].blocked /\ r.broken = streams[k].broken
        /\ r.snapshot = streams[k].snapshot
    BY <1>2, <1>5 DEF StreamOf
  <1>9. status \in SetStatus
    BY DEF SetStatus
  <1> HIDE DEF r, status
  <1>10. streams' \in Seq(StreamOf(Len(sets))) /\ Others(k) /\ streams'[k] = r
    BY <1>1, <1>7, <1>8, StreamBecomes
  <1>11. sets' \in Seq(ChangeSet) /\ StatusOnly(job.set, status)
    BY <1>4, <1>6, <1>9, SetBecomes DEF RunTypes
  <1>12. RunTypes'
    BY <1>1, <1>10, <1>11 DEF RunTypes, StatusOnly
  <1> QED
    BY <1>1, <1>3, <1>8, <1>10, <1>11, <1>12 DEF after, status

LEMMA ApplyFinishesMove ==
    ASSUME RunTypes, NEW k, NEW delivered \in BOOLEAN, ApplyFinishes(k, delivered)
    PROVE  /\ RunTypes' /\ k \in Numbers /\ Others(k) /\ streams[k].job.kind = "apply"
           /\ streams[k].job \in [kind : {"judge", "apply"}, set : DOMAIN sets, passed : BOOLEAN]
           /\ streams'[k].queue = streams[k].queue /\ streams'[k].phase = streams[k].phase
           /\ streams'[k].blocked = (streams[k].blocked \/ ~delivered)
           /\ streams'[k].broken = streams[k].broken
           /\ streams'[k].snapshot = streams[k].snapshot /\ streams'[k].job = NoJob
           /\ StatusOnly(streams[k].job.set, IF delivered THEN "applied" ELSE "failed")
           /\ failedBy' = IF delivered THEN failedBy ELSE failedBy \cup {k}
           /\ UNCHANGED <<graphVars, project, stored, ledger, overlap>>
  <1>1. /\ k \in Numbers /\ streams[k].job.kind = "apply"
        /\ failedBy' = IF delivered THEN failedBy ELSE failedBy \cup {k}
        /\ UNCHANGED <<graphVars, project, stored, ledger, overlap>>
    BY DEF ApplyFinishes, Numbers, statusVars
  <1>2. /\ streams[k] \in StreamOf(Len(sets)) /\ streams[k].job \in JobOf(Len(sets))
        /\ streams[k].blocked \in BOOLEAN
    BY <1>1, StreamTyped
  <1>3. PICK job \in [kind : {"judge", "apply"}, set : DOMAIN sets, passed : BOOLEAN] : job = streams[k].job
    BY <1>1, <1>2 DEF JobOf, NoJob, RunTypes
  <1> DEFINE status == IF delivered THEN "applied" ELSE "failed"
             blocks == streams[k].blocked \/ ~delivered
             r      == [streams[k] EXCEPT !.job = NoJob, !.blocked = blocks]
  <1>4. sets' = [sets EXCEPT ![job.set].status = status]
    BY <1>3 DEF ApplyFinishes
  <1>5. blocks \in BOOLEAN /\ Blocked(k, delivered) = blocks
    BY <1>2 DEF Blocked
  <1> HIDE DEF blocks
  <1>6. NoJob \in JobOf(Len(sets))
    BY DEF JobOf
  <1>7. /\ r \in StreamOf(Len(sets)) /\ r.queue = streams[k].queue /\ r.phase = streams[k].phase
        /\ r.job = NoJob /\ r.blocked = blocks /\ r.broken = streams[k].broken
        /\ r.snapshot = streams[k].snapshot
    BY <1>2, <1>5, <1>6 DEF StreamOf
  <1>8. streams' = [streams EXCEPT ![k] = r]
    BY <1>2, <1>5 DEF ApplyFinishes, StreamOf
  <1>9. status \in SetStatus
    BY DEF SetStatus
  <1> HIDE DEF r, status
  <1>10. streams' \in Seq(StreamOf(Len(sets))) /\ Others(k) /\ streams'[k] = r
    BY <1>1, <1>7, <1>8, StreamBecomes
  <1>11. sets' \in Seq(ChangeSet) /\ StatusOnly(job.set, status)
    BY <1>3, <1>4, <1>9, SetBecomes DEF RunTypes
  <1>12. RunTypes'
    BY <1>1, <1>10, <1>11 DEF RunTypes, StatusOnly
  <1> QED
    BY <1>1, <1>3, <1>7, <1>10, <1>11, <1>12 DEF blocks, status

LEMMA LoopThrowsMove ==
    ASSUME RunTypes, NEW k, LoopThrows(k)
    PROVE  /\ RunTypes' /\ k \in Numbers /\ Others(k) /\ streams[k].phase = "open"
           /\ streams'[k].queue = <<>> /\ streams'[k].phase = streams[k].phase
           /\ streams'[k].blocked = streams[k].blocked /\ streams'[k].broken
           /\ streams'[k].snapshot = streams[k].snapshot /\ streams'[k].job = NoJob
           /\ failedBy' = failedBy \cup {k}
           /\ UNCHANGED <<graphVars, project, sets, stored, ledger, overlap>>
  <1>1. /\ k \in Numbers /\ streams[k].phase = "open" /\ failedBy' = failedBy \cup {k}
        /\ UNCHANGED <<graphVars, project, sets, stored, ledger, overlap>>
    BY DEF LoopThrows, Numbers, statusVars
  <1>2. streams[k] \in StreamOf(Len(sets))
    BY <1>1, StreamTyped
  <1> DEFINE r == [streams[k] EXCEPT !.job = NoJob, !.queue = <<>>, !.broken = TRUE]
  <1>3. NoJob \in JobOf(Len(sets)) /\ <<>> \in Seq(ChunkOf(Len(sets)))
    BY DEF JobOf
  <1>4. /\ r \in StreamOf(Len(sets)) /\ r.queue = <<>> /\ r.phase = streams[k].phase
        /\ r.job = NoJob /\ r.blocked = streams[k].blocked /\ r.broken
        /\ r.snapshot = streams[k].snapshot
    BY <1>2, <1>3 DEF StreamOf
  <1>5. streams' = [streams EXCEPT ![k] = r]
    BY <1>2 DEF LoopThrows, StreamOf
  <1> HIDE DEF r
  <1>6. streams' \in Seq(StreamOf(Len(sets))) /\ Others(k) /\ streams'[k] = r
    BY <1>1, <1>4, <1>5, StreamBecomes
  <1>7. RunTypes'
    BY <1>1, <1>6 DEF RunTypes
  <1> QED
    BY <1>1, <1>4, <1>6, <1>7

\* The loop is over for stream k: it was left, or nothing more is to be read.
LoopOver(k) ==
    /\ k \in Numbers /\ streams[k].phase = "open"
    /\ \/ streams[k].broken
       \/ streams[k].job = NoJob /\ (Exhausted(k) \/ (k = Last /\ thrown))

LEMMA SnapshotMove ==
    ASSUME RunTypes, GraphInv, NEW k, Snapshot(k)
    PROVE  /\ RunTypes' /\ LoopOver(k) /\ Others(k)
           /\ streams'[k].queue = <<>> /\ streams'[k].phase = "saving"
           /\ streams'[k].blocked = streams[k].blocked /\ streams'[k].broken = streams[k].broken
           /\ streams'[k].snapshot = ResolvePersistedStatus(HasError(k))
           /\ streams'[k].job = streams[k].job
           /\ UNCHANGED <<graphVars, project, sets, stored, ledger, overlap, failedBy>>
  <1>1. LoopOver(k) /\ UNCHANGED <<graphVars, project, sets, stored, ledger, overlap, failedBy>>
    BY DEF Snapshot, Consuming, LoopOver, Numbers, statusVars
  <1>2. k \in Numbers /\ streams[k] \in StreamOf(Len(sets)) /\ streams[k].broken \in BOOLEAN
    BY <1>1, StreamTyped DEF LoopOver
  <1>3. PICK found \in StoredStatus : found = ResolvePersistedStatus(HasError(k))
    <2>1. state.status \in NodeStatus
      BY SameGraph DEF GraphInv, P!IInv, P!TypeOK, P!GraphState, P!NodeStatus, NodeStatus
    <2>2. ResolvePersistedStatus(HasError(k)) \in StoredStatus
      BY <2>1 DEF ResolvePersistedStatus, StoredStatus, NodeStatus
    <2> QED
      BY <2>2
  <1> DEFINE r == [streams[k] EXCEPT !.phase = "saving", !.queue = <<>>, !.snapshot = found]
  <1>4. <<>> \in Seq(ChunkOf(Len(sets)))
    OBVIOUS
  <1>5. /\ r \in StreamOf(Len(sets)) /\ r.queue = <<>> /\ r.phase = "saving"
        /\ r.job = streams[k].job /\ r.blocked = streams[k].blocked /\ r.broken = streams[k].broken
        /\ r.snapshot = found
    BY <1>2, <1>4 DEF StreamOf
  <1>6. streams' = [streams EXCEPT ![k] = r]
    BY <1>2, <1>3 DEF Snapshot, StreamOf
  <1> HIDE DEF r
  <1>7. streams' \in Seq(StreamOf(Len(sets))) /\ Others(k) /\ streams'[k] = r
    BY <1>2, <1>5, <1>6, StreamBecomes
  <1>8. RunTypes'
    BY <1>1, <1>7 DEF RunTypes
  <1> QED
    BY <1>1, <1>3, <1>5, <1>7, <1>8

LEMMA SaveStateMove ==
    ASSUME RunTypes, NEW k, SaveState(k), streams[k].snapshot # "none"
    PROVE  /\ RunTypes' /\ k \in Numbers /\ Others(k) /\ streams[k].phase = "saving"
           /\ streams'[k].queue = streams[k].queue /\ streams'[k].phase = "closed"
           /\ streams'[k].blocked = streams[k].blocked /\ streams'[k].broken = streams[k].broken
           /\ stored' = streams[k].snapshot /\ streams'[k].job = streams[k].job
           /\ UNCHANGED <<graphVars, project, sets, overlap, failedBy>>
  <1>1. /\ k \in Numbers /\ streams[k].phase = "saving" /\ stored' = streams[k].snapshot
        /\ ledger' \in {ledger, streams[k].snapshot}
        /\ UNCHANGED <<graphVars, project, sets, overlap, failedBy>>
    BY DEF SaveState, Numbers
  <1>2. streams[k] \in StreamOf(Len(sets)) /\ streams[k].snapshot \in StoredStatus \cup {"none"}
    BY <1>1, StreamTyped
  <1> DEFINE r == [streams[k] EXCEPT !.phase = "closed", !.snapshot = "none"]
  <1>3. /\ r \in StreamOf(Len(sets)) /\ r.queue = streams[k].queue /\ r.phase = "closed"
        /\ r.job = streams[k].job /\ r.blocked = streams[k].blocked /\ r.broken = streams[k].broken
    BY <1>2 DEF StreamOf
  <1>4. streams' = [streams EXCEPT ![k] = r]
    BY <1>2 DEF SaveState, StreamOf
  <1> HIDE DEF r
  <1>5. streams' \in Seq(StreamOf(Len(sets))) /\ Others(k) /\ streams'[k] = r
    BY <1>1, <1>3, <1>4, StreamBecomes
  <1>6. RunTypes'
    BY <1>1, <1>2, <1>5 DEF RunTypes
  <1> QED
    BY <1>1, <1>3, <1>5, <1>6

-----------------------------------------------------------------------------
(* The sets of a story in the order they were made. *)

IsLatest(u, i) ==
    /\ i \in DOMAIN sets /\ sets[i].story = u
    /\ \A j \in DOMAIN sets : sets[j].story = u => j <= i

HasSet(u) == \E i \in DOMAIN sets : sets[i].story = u

\* A superstep's finished workers are its own; a set is of a story that has its turn or had it; a story
\* with a set has a latest one, and a front result.
SetInv ==
    /\ done \subseteq next
    /\ \A i \in DOMAIN sets : sets[i].story <= state.idx /\ sets[i].story < state.stories
    /\ \A u \in Stories : HasSet(u) => state.front[u] # "none" /\ \E i \in DOMAIN sets : IsLatest(u, i)

LEMMA LatestIs ==
    ASSUME RunTypes, SetInv, NEW u \in Stories
    PROVE  /\ HasSet(u) => IsLatest(u, LatestSet(u))
           /\ ~HasSet(u) => LatestSet(u) = 0
           /\ LatestSet(u) \in 0 .. Len(sets)
           /\ LatestSet(u) # 0 => HasSet(u)
  <1> DEFINE of == {i \in DOMAIN sets : sets[i].story = u}
  <1>1. DOMAIN sets = 1 .. Len(sets) /\ Len(sets) \in Nat
    BY DEF RunTypes
  <1>2. CASE HasSet(u)
    <2>1. of # {} /\ \E i \in of : \A j \in of : j <= i
      BY <1>2 DEF SetInv, HasSet, IsLatest
    <2>2. LatestSet(u) = CHOOSE i \in of : \A j \in of : j <= i
      BY <2>1 DEF LatestSet
    <2>3. LatestSet(u) \in of /\ \A j \in of : j <= LatestSet(u)
      BY <2>1, <2>2, Zenon
    <2> QED
      BY <1>1, <1>2, <2>3 DEF IsLatest
  <1>3. CASE ~HasSet(u)
    <2>1. of = {}
      BY <1>3 DEF HasSet
    <2> QED
      BY <1>1, <1>3, <2>1 DEF LatestSet
  <1> QED
    BY <1>2, <1>3

LEMMA OneLatest ==
    ASSUME RunTypes, NEW u, NEW i, NEW j, IsLatest(u, i), IsLatest(u, j) PROVE i = j
  BY DEF IsLatest, RunTypes

-----------------------------------------------------------------------------
(* The producer's steps. *)

\* The open end of the last stream gets a chunk.
Pushed(chunk) ==
    /\ Others(Last)
    /\ streams[Last].broken => streams' = streams
    /\ ~streams[Last].broken => streams'[Last].queue = Append(streams[Last].queue, chunk)
    /\ streams'[Last].phase = streams[Last].phase /\ streams'[Last].job = streams[Last].job
    /\ streams'[Last].blocked = streams[Last].blocked /\ streams'[Last].broken = streams[Last].broken
    /\ streams'[Last].snapshot = streams[Last].snapshot

LEMMA FrontProducesMove ==
    ASSUME RunTypes, GraphInv, Last \in Nat \ {0}, FrontProduces
    PROVE  /\ RunTypes' /\ GraphInv'
           /\ ~thrown /\ "frontAgent" \in next \ done /\ next \subseteq Workers
           /\ state.idx \in Stories /\ state.idx < state.stories
           /\ state'.mode = state.mode /\ state'.stories = state.stories /\ state'.idx = state.idx
           /\ state'.feedback = state.feedback /\ state'.status = state.status
           /\ state'.front[state.idx] # "none"
           /\ \A u \in Stories : u # state.idx => state'.front[u] = state.front[u]
           /\ \/ next' = {"curatorAgent"} /\ done' = {}
              \/ next' = next /\ done' = done \cup {"frontAgent"}
           /\ Len(sets') = Len(sets) + 1
           /\ \A j \in DOMAIN sets : sets'[j] = sets[j]
           /\ sets'[Len(sets) + 1].story = state.idx /\ sets'[Len(sets) + 1].status = "produced"
           /\ Pushed([node |-> "front", set |-> Len(sets) + 1, passed |-> FALSE])
           /\ UNCHANGED <<thrown, accepted, stopped, project, stored, ledger, overlap, failedBy>>
  <1> DEFINE chunk == [node |-> "front", set |-> Len(sets) + 1, passed |-> FALSE]
             made  == [story |-> state.idx, edited |-> state'.front[state.idx] = "edited",
                       status |-> "produced"]
  <1>1. /\ G!RunFrontAgent /\ Push(chunk) /\ sets' = Append(sets, made)
        /\ UNCHANGED <<project, stored, ledger, overlap, failedBy>>
    BY DEF FrontProduces
  <1>2. GraphInv'
    BY <1>1, GraphStep
  <1>3. /\ ~thrown /\ "frontAgent" \in next \ done /\ next \subseteq Workers
        /\ state.idx \in Stories /\ state.idx < state.stories
        /\ state'.mode = state.mode /\ state'.stories = state.stories /\ state'.idx = state.idx
        /\ state'.feedback = state.feedback /\ state'.status = state.status
        /\ state'.front[state.idx] \in FrontKind
        /\ \A u \in Stories : u # state.idx => state'.front[u] = state.front[u]
        /\ UNCHANGED <<thrown, accepted, stopped>>
        /\ \/ next' = {"curatorAgent"} /\ done' = {}
           \/ next' = next /\ done' = done \cup {"frontAgent"}
    BY <1>1, SameGraph, SameSets, SameAssumption, P!FrontMove DEF GraphInv
  <1>4. made \in ChangeSet /\ made.story = state.idx /\ made.status = "produced"
    BY <1>3 DEF ChangeSet, SetStatus
  <1>5. Len(sets) \in Nat /\ sets \in Seq(ChangeSet)
    BY DEF RunTypes
  <1>6. chunk \in ChunkOf(Len(sets) + 1)
    BY <1>5 DEF ChunkOf
  <1> HIDE DEF chunk, made
  <1>7. /\ sets' \in Seq(ChangeSet) /\ Len(sets') = Len(sets) + 1
        /\ \A j \in DOMAIN sets : sets'[j] = sets[j]
        /\ sets'[Len(sets) + 1] = made
    BY <1>1, <1>4, <1>5
  <1>8. streams' \in Seq(StreamOf(Len(sets) + 1)) /\ Pushed(chunk)
    BY <1>1, <1>5, <1>6, PushMove DEF Pushed
  <1>9. RunTypes'
    BY <1>1, <1>7, <1>8 DEF RunTypes
  <1>10. state'.front[state.idx] # "none"
    BY <1>3 DEF FrontKind
  <1> QED
    BY <1>1, <1>2, <1>3, <1>4, <1>7, <1>8, <1>9, <1>10 DEF chunk

LEMMA CuratorProducesMove ==
    ASSUME RunTypes, GraphInv, SetInv, Last \in Nat \ {0}, CuratorProduces
    PROVE  /\ RunTypes' /\ GraphInv'
           /\ ~thrown /\ next = {"curatorAgent"} /\ UNCHANGED <<done, thrown, accepted, stopped>>
           /\ state.idx \in Stories /\ state.idx < state.stories
           /\ state'.mode = state.mode /\ state'.stories = state.stories /\ state'.front = state.front
           /\ state'.idx = state.idx \/ (state'.idx = state.idx + 1 /\ state'.feedback[state.idx].passed)
           /\ next' \cap Workers = {} /\ next' # {"curatorAgent"}
           /\ state.mode \in CodeModes /\ state.front[state.idx] # "none" =>
                /\ state'.feedback[state.idx].passed => state'.idx = state.idx + 1
                /\ ~state'.feedback[state.idx].passed => state'.feedback[state.idx].fixTarget = "front"
           /\ \E chunk \in ChunkOf(Len(sets)) :
                /\ chunk = [node |-> "curator", set |-> LatestSet(state.idx),
                            passed |-> state'.feedback[state.idx].passed]
                /\ Pushed(chunk)
           /\ UNCHANGED <<sets, project, stored, ledger, overlap, failedBy>>
  <1>1. /\ G!RunCuratorAgent
        /\ Push([node |-> "curator", set |-> LatestSet(state.idx), passed |-> state'.feedback[state.idx].passed])
        /\ UNCHANGED <<project, sets, stored, ledger, overlap, failedBy>>
    BY DEF CuratorProduces
  <1>2. GraphInv'
    BY <1>1, GraphStep
  <1>3. /\ ~thrown /\ next = {"curatorAgent"} /\ UNCHANGED <<done, thrown, accepted, stopped>>
        /\ state.idx \in Stories /\ state.idx < state.stories
        /\ state'.mode = state.mode /\ state'.stories = state.stories /\ state'.front = state.front
        /\ state'.idx = state.idx \/ (state'.idx = state.idx + 1 /\ state'.feedback[state.idx].passed)
        /\ next' \cap Workers = {} /\ next' # {"curatorAgent"}
        /\ state.mode \in CodeModes /\ state.front[state.idx] # "none" =>
             /\ state'.feedback[state.idx].passed => state'.idx = state.idx + 1
             /\ ~state'.feedback[state.idx].passed => state'.feedback[state.idx].fixTarget = "front"
    BY <1>1, SameGraph, SameSets, SameAssumption, P!CuratorMove DEF GraphInv
  <1>4. state'.feedback[state.idx].passed \in BOOLEAN
    <2>1. state' \in P!GraphState
      BY <1>2 DEF GraphInv, P!IInv, P!TypeOK
    <2>2. PICK f \in P!Verdict \cup {P!NoFeedback} : f = state'.feedback[state.idx]
      BY <1>3, <2>1, SameSets DEF P!GraphState
    <2>3. P!NoFeedback.passed = FALSE
      BY DEF P!NoFeedback
    <2>4. \A v \in P!Verdict : v.passed \in BOOLEAN
      BY DEF P!Verdict
    <2> QED
      BY <2>2, <2>3, <2>4
  <1>5. PICK chunk \in ChunkOf(Len(sets)) :
          chunk = [node |-> "curator", set |-> LatestSet(state.idx), passed |-> state'.feedback[state.idx].passed]
    BY <1>3, <1>4, LatestIs DEF ChunkOf
  <1>6. streams' \in Seq(StreamOf(Len(sets))) /\ Pushed(chunk)
    BY <1>1, <1>5, PushMove DEF Pushed, RunTypes
  <1>7. RunTypes'
    BY <1>1, <1>6 DEF RunTypes
  <1> QED
    BY <1>1, <1>2, <1>3, <1>5, <1>6, <1>7

\* Every other node of the graph: the sets and the streams stay.
LEMMA OtherProducesMove ==
    ASSUME RunTypes, GraphInv, SetInv, OtherNodeProduces
    PROVE  /\ RunTypes' /\ GraphInv' /\ G!Working
           /\ state'.mode = state.mode /\ state'.stories = state.stories /\ state'.front = state.front
           /\ state'.feedback = state.feedback
           /\ state'.idx = state.idx \/ (state'.idx = state.idx + 1 /\ state.mode = "spec_generation")
           /\ next \subseteq Workers \/ next \cap Workers = {}
           /\ next # {"curatorAgent"} \/ (thrown' /\ next' = next)
           /\ UNCHANGED <<accepted, stopped>> /\ (thrown => thrown')
           /\ done' \subseteq next'
           /\ \/ thrown' /\ UNCHANGED <<state, next, done>>
              \/ next = {"specAgent"} /\ next' \cap Workers = {} /\ next' # {"curatorAgent"} /\ done' = done
              \/ next = {"odinAgent"} /\ next' \subseteq Workers /\ done' = done /\ state'.idx = state.idx
                 /\ (~state.feedback[state.idx].passed /\ state.feedback[state.idx].fixTarget = "front" =>
                        next' \in {{}, {"frontAgent"}})
              \/ state' = state /\ "qaAgent" \in next \ done /\ next \subseteq Workers
                 /\ \/ next' = {"curatorAgent"} /\ done' = {} /\ next = done \cup {"qaAgent"}
                    \/ next' = next /\ done' = done \cup {"qaAgent"}
           /\ UNCHANGED <<sets, streams, project, stored, ledger, overlap, failedBy>>
  <1>1. /\ G!RunSpecAgent \/ G!RunOdinAgent \/ G!RunQaAgent \/ G!NodeThrows
        /\ UNCHANGED <<sets, streams, project, stored, ledger, overlap, failedBy>>
    BY DEF OtherNodeProduces
  <1>2. GraphInv'
    BY <1>1, GraphStep
  <1>3. RunTypes'
    BY <1>1 DEF RunTypes
  <1>4. done \subseteq next /\ done \subseteq Workers
    BY SameSets DEF SetInv, GraphInv, P!IInv, P!TypeOK
  <1>5. CASE G!NodeThrows
    <2>1. /\ G!Live /\ next \cap G!Agents # {} /\ thrown' /\ ~thrown
          /\ UNCHANGED <<state, next, done, accepted, stopped>>
      BY <1>5 DEF G!NodeThrows, G!Live
    <2>2. G!Working
      BY <2>1 DEF G!Working, G!Agents
    <2>3. next \subseteq Workers \/ next \cap Workers = {}
      BY SameSets DEF GraphInv, P!IInv, P!SuperstepShape
    <2> QED
      BY <1>1, <1>2, <1>3, <1>4, <2>1, <2>2, <2>3
  <1>6. CASE G!RunSpecAgent
    <2>1. /\ ~thrown /\ next = {"specAgent"} /\ UNCHANGED <<done, thrown, accepted, stopped>>
          /\ state'.mode = state.mode /\ state'.stories = state.stories /\ state'.front = state.front
          /\ state'.feedback = state.feedback
          /\ state'.idx = state.idx \/ (state'.idx = state.idx + 1 /\ state.mode = "spec_generation")
          /\ next' \cap Workers = {} /\ next' # {"curatorAgent"}
      BY <1>6, SameGraph, SameSets, SameAssumption, P!SpecMove DEF GraphInv
    <2>2. G!Working
      BY <2>1 DEF G!Working, G!Live, G!Checkpoints
    <2>3. done = {} /\ next \cap Workers = {} /\ next # {"curatorAgent"}
      BY <1>4, <2>1 DEF Workers
    <2> QED
      BY <1>1, <1>2, <1>3, <2>1, <2>2, <2>3
  <1>7. CASE G!RunOdinAgent
    <2>1. /\ ~thrown /\ next = {"odinAgent"} /\ UNCHANGED <<done, thrown, accepted, stopped>>
          /\ state'.mode = state.mode /\ state'.stories = state.stories /\ state'.front = state.front
          /\ state'.feedback = state.feedback /\ state'.idx = state.idx
          /\ next' \subseteq Workers
          /\ ~state.feedback[state.idx].passed /\ state.feedback[state.idx].fixTarget = "front" =>
               next' \in {{}, {"frontAgent"}}
      BY <1>7, SameGraph, SameSets, SameAssumption, P!OdinMove DEF GraphInv
    <2>2. G!Working
      BY <2>1 DEF G!Working, G!Live, G!Checkpoints
    <2>3. done = {} /\ next \cap Workers = {} /\ next # {"curatorAgent"}
      BY <1>4, <2>1 DEF Workers
    <2> QED
      BY <1>1, <1>2, <1>3, <2>1, <2>2, <2>3
  <1>8. CASE G!RunQaAgent
    <2>1. /\ ~thrown /\ "qaAgent" \in next \ done /\ next \subseteq Workers
          /\ UNCHANGED <<state, thrown, accepted, stopped>>
          /\ \/ next' = {"curatorAgent"} /\ done' = {} /\ next = done \cup {"qaAgent"}
             \/ next' = next /\ done' = done \cup {"qaAgent"}
      BY <1>8, SameGraph, SameSets, SameAssumption, P!QaMove DEF GraphInv
    <2>2. G!Working
      BY <2>1, SameSets DEF G!Working, G!Live, G!Checkpoints, Workers
    <2>3. next # {"curatorAgent"} /\ done' \subseteq next'
      BY <1>4, <2>1 DEF Workers
    <2> QED
      BY <1>1, <1>2, <1>3, <2>1, <2>2, <2>3
  <1> QED
    BY <1>1, <1>5, <1>6, <1>7, <1>8

LEMMA AnswerMovesOn ==
    ASSUME RunTypes, GraphInv, SetInv, Last \in Nat \ {0}, Answer
    PROVE  /\ RunTypes' /\ GraphInv'
           /\ Last < MaxStreams /\ Last' = Last + 1 /\ (\A k \in Numbers : streams'[k] = streams[k])
           /\ streams'[Last + 1] = OpenStream /\ streams[Last].queue = <<>>
           /\ overlap' = (overlap \/ \E k \in Numbers : streams[k].phase # "closed")
           /\ ~thrown /\ (\E n \in Checkpoints : next = {n}) /\ thrown' = thrown
           /\ done = {} /\ done' = {}
           /\ state'.mode = state.mode /\ state'.stories = state.stories /\ state'.front = state.front
           /\ state'.feedback = state.feedback /\ accepted \subseteq accepted'
           /\ state'.idx = state.idx \/ (state'.idx = state.idx + 1 /\ accepted' # {})
           /\ next' \in {{}, {"odinAgent"}}
           /\ UNCHANGED <<sets, project, stored, ledger, failedBy>>
  <1>1. /\ G!HumanStep /\ Last < MaxStreams /\ streams[Last].queue = <<>>
        /\ streams' = Append(streams, OpenStream)
        /\ overlap' = (overlap \/ \E k \in Numbers : streams[k].phase # "closed")
        /\ UNCHANGED <<sets, project, stored, ledger, failedBy>>
    BY DEF Answer, Numbers
  <1>2. GraphInv'
    BY <1>1, GraphStep
  <1>3. /\ ~thrown /\ (\E n \in Checkpoints : next = {n}) /\ UNCHANGED <<done, thrown>>
        /\ state'.mode = state.mode /\ state'.stories = state.stories /\ state'.front = state.front
        /\ state'.feedback = state.feedback /\ accepted \subseteq accepted'
        /\ state'.idx = state.idx \/ (state'.idx = state.idx + 1 /\ accepted' # {})
        /\ next' \in {{}, {"odinAgent"}}
    BY <1>1, SameGraph, SameSets, SameAssumption, P!AnswerMove DEF GraphInv
  <1>4. done = {}
    <2>1. done \subseteq next /\ done \subseteq Workers
      BY SameSets DEF SetInv, GraphInv, P!IInv, P!TypeOK
    <2> QED
      BY <1>3, <2>1 DEF Checkpoints, Workers
  <1>5. OpenStream \in StreamOf(Len(sets))
    BY DEF OpenStream, StreamOf, JobOf
  <1>6. /\ streams' \in Seq(StreamOf(Len(sets))) /\ Last' = Last + 1
        /\ \A k \in Numbers : streams'[k] = streams[k]
        /\ streams'[Last + 1] = OpenStream
    BY <1>1, <1>5 DEF RunTypes, Numbers, Last
  <1>7. overlap' \in BOOLEAN
    BY <1>1 DEF RunTypes
  <1>8. RunTypes'
    BY <1>1, <1>6, <1>7 DEF RunTypes
  <1> QED
    BY <1>1, <1>2, <1>3, <1>4, <1>6, <1>8

-----------------------------------------------------------------------------
(* The base of the invariant: types, the graph's own invariant, and what streams hold. *)

\* A stream that is over, or whose consumer has thrown, holds nothing; one is marked exactly when a
\* delivery failed in it; unless answers overlap, all but the last one are closed.
Over(k) == streams[k].phase # "open" \/ streams[k].broken

StreamOK(k) ==
    /\ Over(k) => streams[k].queue = <<>> /\ streams[k].job = NoJob
    /\ k \in failedBy <=> streams[k].blocked \/ streams[k].broken
    /\ ~overlap /\ k < Last => streams[k].phase = "closed"
    /\ streams[k].phase = "saving" => streams[k].snapshot # "none"
    /\ \A n \in DOMAIN streams[k].queue : streams[k].queue[n].node = "front" => streams[k].queue[n].set # 0

\* The graph works for an open stream, or for one whose consumer has thrown.
Attended == streams[Last].phase # "open" /\ ~streams[Last].broken => ~G!Working

StreamInv ==
    /\ Last \in 1 .. MaxStreams /\ failedBy \subseteq Numbers
    /\ \A k \in Numbers : StreamOK(k)
    /\ Attended

Base == RunTypes /\ GraphInv /\ SetInv /\ StreamInv

LEMMA OtherStreams ==
    ASSUME StreamInv, NEW k \in Numbers, Others(k), overlap' = overlap,
           failedBy' = failedBy \/ failedBy' = failedBy \cup {k}, StreamOK(k)', UNCHANGED graphVars,
           k = Last /\ streams'[k].phase # "open" /\ ~streams'[k].broken =>
              ~G!Working \/ (streams[k].phase # "open" /\ ~streams[k].broken)
    PROVE  StreamInv'
  <1>1. Last' = Last /\ Numbers' = Numbers
    BY DEF Others, Numbers
  <1>2. ASSUME NEW l \in Numbers, l # k PROVE StreamOK(l)'
    <2>1. streams'[l] = streams[l] /\ (l \in failedBy' <=> l \in failedBy)
      BY <1>2 DEF Others
    <2> QED
      BY <1>1, <2>1 DEF StreamInv, StreamOK, Over
  <1>3. failedBy' \subseteq Numbers
    BY DEF StreamInv
  <1>4. G!Working' <=> G!Working
    BY DEF G!Working, G!Live, graphVars
  <1>5. Attended'
    <2>1. CASE Last = k
      BY <1>1, <1>4, <2>1 DEF StreamInv, Attended
    <2>2. CASE Last # k
      BY <1>1, <1>4, <2>2 DEF StreamInv, Attended, Others, Numbers
    <2> QED
      BY <2>1, <2>2
  <1> QED
    BY <1>1, <1>2, <1>3, <1>5 DEF StreamInv

\* The sets' stories and the graph stay as they are.
LEMMA SetsStay ==
    ASSUME RunTypes, SetInv, UNCHANGED graphVars, UNCHANGED sets \/ \E i, status : StatusOnly(i, status),
           RunTypes'
    PROVE  SetInv'
  <1>1. /\ DOMAIN sets' = DOMAIN sets /\ \A j \in DOMAIN sets : sets'[j].story = sets[j].story
        /\ state' = state /\ next' = next /\ done' = done
    BY DEF StatusOnly, RunTypes, graphVars
  <1> QED
    BY <1>1 DEF SetInv, HasSet, IsLatest

\* The first chunk of a queue, and what is left without it.
LEMMA QueueTail ==
    ASSUME RunTypes, NEW k \in Numbers, streams[k].queue # <<>>
    PROVE  /\ Head(streams[k].queue) = streams[k].queue[1] /\ 1 \in DOMAIN streams[k].queue
           /\ \A n \in DOMAIN Tail(streams[k].queue) :
                n + 1 \in DOMAIN streams[k].queue /\ n \in Nat \ {0}
                  /\ Tail(streams[k].queue)[n] = streams[k].queue[n + 1]
           /\ \A n \in DOMAIN streams[k].queue :
                n \in Nat /\ (n # 1 => n - 1 \in DOMAIN Tail(streams[k].queue))
  <1>1. streams[k].queue \in Seq(ChunkOf(Len(sets)))
    BY StreamTyped
  <1> QED
    BY <1>1

LEMMA TakenBase ==
    ASSUME Base, NEW k, Taken(k), overlap' = overlap, failedBy' = failedBy, UNCHANGED graphVars
    PROVE  k \in Numbers /\ StreamInv'
  <1>1. /\ k \in Numbers /\ streams[k].phase = "open" /\ ~streams[k].broken /\ Others(k)
        /\ streams'[k].queue = Tail(streams[k].queue) /\ streams[k].queue # <<>>
        /\ streams'[k].phase = "open" /\ ~streams'[k].broken
        /\ streams'[k].blocked = streams[k].blocked
    BY DEF Taken, Consuming, Numbers
  <1>2. \A n \in DOMAIN streams'[k].queue : streams'[k].queue[n].node = "front" => streams'[k].queue[n].set # 0
    BY <1>1, QueueTail DEF Base, StreamInv, StreamOK
  <1>3. StreamOK(k)'
    BY <1>1, <1>2 DEF Base, StreamInv, StreamOK, Over, Others
  <1> QED
    BY <1>1, <1>3, OtherStreams DEF Base

\* The chunk taken by persistProposedCodeChangeSets names a set.
LEMMA FrontNamesSet ==
    ASSUME Base, NEW k, RecordSet(k) PROVE Head(streams[k].queue).set # 0
  <1>1. k \in Numbers /\ streams[k].queue # <<>> /\ Head(streams[k].queue).node = "front"
    BY DEF RecordSet, Consuming, Numbers
  <1> QED
    BY <1>1, QueueTail DEF Base, StreamInv, StreamOK

\* What the consumer of stream k does, or where it is left.
Delivers(k) == Consume(k) \/ LoopThrows(k)

LEMMA ConsumeBase ==
    ASSUME Base, NEW k \in 1 .. MaxStreams, Delivers(k)
    PROVE  Base'
  <1> USE DEF Base
  <1>1. CASE RecordSet(k)
    <2>1. /\ RunTypes' /\ Taken(k) /\ \E status : StatusOnly(Head(streams[k].queue).set, status)
          /\ UNCHANGED <<graphVars, overlap, failedBy>>
      BY <1>1, FrontNamesSet, RecordSetMove
    <2> QED
      BY <2>1, TakenBase, SetsStay, GraphStep
  <1>2. CASE TakeVerdict(k)
    <2>1. RunTypes' /\ Taken(k) /\ UNCHANGED <<graphVars, sets, overlap, failedBy>>
      BY <1>2, TakeVerdictMove
    <2> QED
      BY <2>1, TakenBase, SetsStay, GraphStep
  <1>3. CASE Judge(k)
    <2>0. streams[k].job # NoJob
      BY <1>3 DEF Judge, NoJob
    <2>1. /\ RunTypes' /\ k \in Numbers /\ Others(k) /\ streams[k].job # NoJob
          /\ streams'[k].queue = streams[k].queue /\ streams'[k].phase = streams[k].phase
          /\ streams'[k].blocked = streams[k].blocked /\ streams'[k].broken = streams[k].broken
          /\ streams'[k].snapshot = streams[k].snapshot
          /\ UNCHANGED <<graphVars, overlap, failedBy>>
      BY <1>3, JudgeMove, <2>0
    <2>2. \E i, status : StatusOnly(i, status)
      BY <1>3, JudgeMove
    <2>3. StreamOK(k)'
      BY <2>1 DEF StreamInv, StreamOK, Over, Others
    <2> QED
      BY <2>1, <2>2, <2>3, OtherStreams, SetsStay, GraphStep
  <1>4. ASSUME NEW delivered \in BOOLEAN, ApplyFinishes(k, delivered) PROVE Base'
    <2>0. streams[k].job # NoJob
      BY <1>4 DEF ApplyFinishes, NoJob
    <2>1. /\ RunTypes' /\ k \in Numbers /\ Others(k) /\ streams[k].job # NoJob
          /\ streams'[k].queue = streams[k].queue /\ streams'[k].phase = streams[k].phase
          /\ streams'[k].blocked = (streams[k].blocked \/ ~delivered) /\ streams'[k].broken = streams[k].broken
          /\ streams'[k].snapshot = streams[k].snapshot
          /\ failedBy' = IF delivered THEN failedBy ELSE failedBy \cup {k}
          /\ UNCHANGED <<graphVars, overlap>>
      BY <1>4, ApplyFinishesMove, <2>0
    <2>2. \E i, status : StatusOnly(i, status)
      BY <1>4, ApplyFinishesMove
    <2>3. StreamOK(k)'
      BY <2>1 DEF StreamInv, StreamOK, Over, Others
    <2> QED
      BY <2>1, <2>2, <2>3, OtherStreams, SetsStay, GraphStep
  <1>5. CASE LoopThrows(k)
    <2>1. /\ RunTypes' /\ k \in Numbers /\ Others(k) /\ streams[k].phase = "open"
          /\ streams'[k].queue = <<>> /\ streams'[k].phase = streams[k].phase
          /\ streams'[k].broken /\ streams'[k].job = NoJob /\ streams'[k].snapshot = streams[k].snapshot
          /\ failedBy' = failedBy \cup {k}
          /\ UNCHANGED <<graphVars, sets, overlap>>
      BY <1>5, LoopThrowsMove
    <2>2. StreamOK(k)'
      BY <2>1 DEF StreamInv, StreamOK, Over, Others
    <2> QED
      BY <2>1, <2>2, OtherStreams, SetsStay, GraphStep
  <1>6. CASE Snapshot(k)
    <2>1. /\ RunTypes' /\ LoopOver(k) /\ Others(k)
          /\ streams'[k].queue = <<>> /\ streams'[k].phase = "saving"
          /\ streams'[k].blocked = streams[k].blocked /\ streams'[k].broken = streams[k].broken
          /\ streams'[k].snapshot = ResolvePersistedStatus(HasError(k)) /\ streams'[k].job = streams[k].job
          /\ UNCHANGED <<graphVars, sets, overlap, failedBy>>
      BY <1>6, SnapshotMove
    <2>2. k \in Numbers /\ streams[k].phase = "open" /\ streams[k].job = NoJob
      BY <2>1 DEF LoopOver, StreamInv, StreamOK, Over
    <2>3. ResolvePersistedStatus(HasError(k)) # "none"
      <3>1. state.status \in NodeStatus
        BY SameSets DEF GraphInv, P!IInv, P!TypeOK, P!GraphState
      <3> QED
        BY <3>1 DEF ResolvePersistedStatus, NodeStatus
    <2>4. StreamOK(k)'
      BY <2>1, <2>2, <2>3 DEF StreamInv, StreamOK, Over, Others
    <2>5. k = Last /\ ~streams[k].broken => ~G!Working
      BY <2>1, <2>2 DEF LoopOver, Exhausted, G!Working, G!Live, StreamInv, StreamOK, Numbers
    <2> QED
      BY <2>1, <2>2, <2>4, <2>5, OtherStreams, SetsStay, GraphStep
  <1>7. CASE SaveState(k)
    <2>1. k \in Numbers /\ streams[k].snapshot # "none"
      BY <1>7 DEF SaveState, Numbers, StreamInv, StreamOK
    <2>2. /\ RunTypes' /\ Others(k) /\ streams[k].phase = "saving"
          /\ streams'[k].queue = streams[k].queue /\ streams'[k].phase = "closed"
          /\ streams'[k].blocked = streams[k].blocked /\ streams'[k].broken = streams[k].broken
          /\ streams'[k].job = streams[k].job
          /\ UNCHANGED <<graphVars, sets, overlap, failedBy>>
      BY <1>7, <2>1, SaveStateMove
    <2>3. StreamOK(k)'
      BY <2>1, <2>2 DEF StreamInv, StreamOK, Over, Others
    <2> QED
      BY <2>1, <2>2, <2>3, OtherStreams, SetsStay, GraphStep
  <1> QED
    BY <1>1, <1>2, <1>3, <1>4, <1>5, <1>6, <1>7 DEF Delivers, Consume

\* A producing step finds the last stream open, or its consumer gone.
LEMMA PushedBase ==
    ASSUME Base, G!Working, NEW chunk, NEW n \in Nat, chunk \in ChunkOf(n), Pushed(chunk),
           chunk.node = "front" => chunk.set # 0,
           overlap' = overlap, failedBy' = failedBy
    PROVE  StreamInv'
  <1>1. Last \in Numbers /\ Last' = Last /\ Numbers' = Numbers
    BY DEF Base, StreamInv, Numbers, Pushed, Others
  <1>2. ASSUME NEW l \in Numbers, l # Last PROVE StreamOK(l)'
    <2>1. streams'[l] = streams[l]
      BY <1>2 DEF Pushed, Others
    <2> QED
      BY <1>1, <2>1 DEF Base, StreamInv, StreamOK, Over
  <1>3. CASE streams[Last].broken
    <2>1. StreamOK(Last)
      BY <1>1 DEF Base, StreamInv
    <2>2. StreamOK(Last)'
      BY <1>1, <1>3, <2>1 DEF Pushed, StreamOK, Over
    <2> QED
      BY <1>1, <1>2, <1>3, <2>2 DEF Base, StreamInv, Attended, Pushed
  <1>4. CASE ~streams[Last].broken
    <2>1. StreamOK(Last) /\ streams[Last].phase = "open"
      BY <1>1, <1>4 DEF Base, StreamInv, Attended
    <2>2. streams[Last].queue \in Seq(ChunkOf(Len(sets)))
      BY <1>1, StreamTyped DEF Base
    <2>3. \A m \in DOMAIN Append(streams[Last].queue, chunk) :
            Append(streams[Last].queue, chunk)[m].node = "front" => Append(streams[Last].queue, chunk)[m].set # 0
      BY <2>1, <2>2 DEF StreamOK
    <2>4. StreamOK(Last)'
      BY <1>1, <1>4, <2>1, <2>3 DEF Pushed, StreamOK, Over
    <2> QED
      BY <1>1, <1>2, <2>1, <2>4 DEF Base, StreamInv, Attended, Pushed
  <1> QED
    BY <1>3, <1>4

LEMMA LastPositive == ASSUME Base PROVE Last \in Nat \ {0} /\ Last \in Numbers
  BY DEF Base, StreamInv, Numbers

\* The new set is the latest one of the current story.
LEMMA FrontSets ==
    ASSUME Base, FrontProduces
    PROVE  /\ SetInv'
           /\ \A i : i = Len(sets) + 1 => IsLatest(state.idx, i)'
           /\ DOMAIN sets' = DOMAIN sets \cup {Len(sets) + 1} /\ Len(sets) + 1 \notin DOMAIN sets
           /\ \A u \in Stories : u # state.idx =>
                /\ HasSet(u)' <=> HasSet(u)
                /\ \A i \in DOMAIN sets : IsLatest(u, i)' <=> IsLatest(u, i)
  <1>1. /\ "frontAgent" \in next
        /\ state.idx \in Stories /\ state.idx < state.stories
        /\ state'.stories = state.stories /\ state'.idx = state.idx
        /\ state'.front[state.idx] # "none"
        /\ \A u \in Stories : u # state.idx => state'.front[u] = state.front[u]
        /\ \/ next' = {"curatorAgent"} /\ done' = {}
           \/ next' = next /\ done' = done \cup {"frontAgent"}
        /\ Len(sets') = Len(sets) + 1
        /\ \A j \in DOMAIN sets : sets'[j] = sets[j]
        /\ sets'[Len(sets) + 1].story = state.idx
    BY LastPositive, FrontProducesMove DEF Base
  <1>2. /\ DOMAIN sets = 1 .. Len(sets) /\ Len(sets) \in Nat
        /\ DOMAIN sets' = 1 .. Len(sets')
    BY LastPositive, FrontProducesMove DEF Base, RunTypes
  <1>3. DOMAIN sets' = DOMAIN sets \cup {Len(sets) + 1} /\ Len(sets) + 1 \notin DOMAIN sets
    BY <1>1, <1>2
  <1>4. ASSUME NEW i, i = Len(sets) + 1 PROVE IsLatest(state.idx, i)'
    <2>1. \A j \in DOMAIN sets' : j <= i
      BY <1>1, <1>2, <1>4
    <2> QED
      BY <1>1, <1>3, <1>4, <2>1 DEF IsLatest
  <1>5. ASSUME NEW u \in Stories, u # state.idx
        PROVE  /\ HasSet(u)' <=> HasSet(u)
               /\ \A i \in DOMAIN sets : IsLatest(u, i)' <=> IsLatest(u, i)
    BY <1>1, <1>3, <1>5 DEF HasSet, IsLatest
  <1>6. done' \subseteq next'
    BY <1>1 DEF Base, SetInv
  <1>7. \A i \in DOMAIN sets' : sets'[i].story <= state'.idx /\ sets'[i].story < state'.stories
    BY <1>1, <1>3 DEF Base, SetInv, Stories
  <1>8. ASSUME NEW u \in Stories, HasSet(u)'
        PROVE  state'.front[u] # "none" /\ \E i \in DOMAIN sets' : IsLatest(u, i)'
    <2>1. CASE u = state.idx
      <3>1. PICK i \in DOMAIN sets' : i = Len(sets) + 1
        BY <1>3
      <3>2. IsLatest(state.idx, i)'
        BY <1>4, <3>1
      <3> QED
        BY <1>1, <2>1, <3>2
    <2>2. CASE u # state.idx
      BY <1>1, <1>3, <1>5, <1>8, <2>2 DEF Base, SetInv
    <2> QED
      BY <2>1, <2>2
  <1>9. SetInv'
    BY <1>6, <1>7, <1>8 DEF SetInv
  <1> QED
    BY <1>1, <1>3, <1>4, <1>5, <1>9

LEMMA StoryNumbers == ASSUME Base PROVE state.idx \in Nat /\ \A i \in DOMAIN sets : sets[i].story \in Nat
  <1>1. state.idx \in Nat
    BY GraphAssumption, SameAssumption, P!IndexRange DEF Base, GraphInv, P!IInv, P!TypeOK
  <1>2. \A i \in DOMAIN sets : sets[i] \in ChangeSet
    BY DEF Base, RunTypes
  <1> QED
    BY <1>1, <1>2, GraphAssumption DEF ChangeSet, Stories

\* The sets stay, and the graph goes on.
LEMMA SameSetsOn ==
    ASSUME Base, UNCHANGED sets, done' \subseteq next', state'.idx \in {state.idx, state.idx + 1},
           state'.stories = state.stories, state'.front = state.front
    PROVE  SetInv'
  <1>1. state.idx \in Nat /\ \A i \in DOMAIN sets : sets[i].story \in Nat
    BY StoryNumbers
  <1> QED
    BY <1>1 DEF Base, SetInv, HasSet, IsLatest

LEMMA ProduceBase == ASSUME Base, Produce PROVE Base'
  <1> USE DEF Base
  <1>1. CASE FrontProduces
    <2>1. /\ RunTypes' /\ GraphInv' /\ ~thrown /\ "frontAgent" \in next
          /\ Pushed([node |-> "front", set |-> Len(sets) + 1, passed |-> FALSE])
          /\ overlap' = overlap /\ failedBy' = failedBy
      BY <1>1, LastPositive, FrontProducesMove
    <2>2. G!Working
      BY <2>1 DEF G!Working, G!Live, G!Checkpoints
    <2>3. Len(sets) \in Nat
      BY DEF RunTypes
    <2>4. [node |-> "front", set |-> Len(sets) + 1, passed |-> FALSE] \in ChunkOf(Len(sets) + 1)
      BY <2>3 DEF ChunkOf
    <2>5. StreamInv'
      <3> DEFINE chunk == [node |-> "front", set |-> Len(sets) + 1, passed |-> FALSE]
      <3>1. chunk.set # 0
        BY <2>3
      <3> HIDE DEF chunk
      <3>2. chunk \in ChunkOf(Len(sets) + 1) /\ Pushed(chunk)
        BY <2>1, <2>4 DEF chunk
      <3> QED
        BY <2>1, <2>2, <2>3, <3>1, <3>2, PushedBase
    <2> QED
      BY <1>1, <2>1, <2>5, FrontSets
  <1>2. CASE CuratorProduces
    <2>1. /\ RunTypes' /\ GraphInv' /\ ~thrown /\ next = {"curatorAgent"} /\ done' = done
          /\ state'.stories = state.stories /\ state'.front = state.front
          /\ state'.idx \in {state.idx, state.idx + 1}
          /\ overlap' = overlap /\ failedBy' = failedBy /\ UNCHANGED sets
      BY <1>2, LastPositive, CuratorProducesMove
    <2>2. PICK chunk \in ChunkOf(Len(sets)) :
            /\ chunk = [node |-> "curator", set |-> LatestSet(state.idx),
                        passed |-> state'.feedback[state.idx].passed]
            /\ Pushed(chunk)
      BY <1>2, LastPositive, CuratorProducesMove
    <2>3. G!Working
      BY <2>1 DEF G!Working, G!Live, G!Checkpoints
    <2>4. StreamInv'
      BY <2>1, <2>2, <2>3, PushedBase DEF RunTypes
    <2>5. done' \subseteq next'
      BY <2>1, SameSets DEF SetInv, GraphInv, P!IInv, P!TypeOK, Workers
    <2> QED
      BY <2>1, <2>4, <2>5, SameSetsOn
  <1>3. CASE OtherNodeProduces
    <2>1. /\ RunTypes' /\ GraphInv' /\ G!Working
          /\ state'.stories = state.stories /\ state'.front = state.front
          /\ state'.idx \in {state.idx, state.idx + 1}
          /\ done' \subseteq next'
          /\ UNCHANGED <<sets, streams, overlap, failedBy>>
      BY <1>3, OtherProducesMove
    <2>2. SetInv'
      BY <2>1, SameSetsOn
    <2>3. StreamInv'
      <3>1. Last' = Last /\ Numbers' = Numbers
        BY <2>1 DEF Last, Numbers
      <3>2. \A l \in Numbers : StreamOK(l)'
        BY <2>1, <3>1 DEF StreamInv, StreamOK, Over
      <3> QED
        BY <2>1, <3>1, <3>2 DEF StreamInv, Attended
    <2> QED
      BY <2>1, <2>2, <2>3
  <1> QED
    BY <1>1, <1>2, <1>3 DEF Produce

LEMMA AnswerBase == ASSUME Base, Answer PROVE Base'
  <1> USE DEF Base
  <1>1. /\ RunTypes' /\ GraphInv'
        /\ Last < MaxStreams /\ Last' = Last + 1 /\ (\A k \in Numbers : streams'[k] = streams[k])
        /\ streams'[Last + 1] = OpenStream
        /\ overlap' = (overlap \/ \E k \in Numbers : streams[k].phase # "closed")
        /\ done' = {} /\ state'.stories = state.stories /\ state'.front = state.front
        /\ state'.idx \in {state.idx, state.idx + 1}
        /\ UNCHANGED <<sets, failedBy>>
    BY LastPositive, AnswerMovesOn
  <1>2. SetInv'
    BY <1>1, SameSetsOn
  <1>3. Last \in Nat \ {0} /\ Numbers' = Numbers \cup {Last + 1} /\ Last + 1 \notin Numbers
    BY <1>1, LastPositive DEF Numbers
  <1>4. ASSUME NEW l \in Numbers PROVE StreamOK(l)'
    BY <1>1 DEF StreamInv, StreamOK, Over
  <1>5. /\ OpenStream.phase = "open" /\ ~OpenStream.broken /\ ~OpenStream.blocked
        /\ OpenStream.queue = <<>> /\ OpenStream.job = NoJob
    BY DEF OpenStream
  <1>6. ASSUME NEW l, l = Last + 1 PROVE StreamOK(l)'
    <2>1. streams'[l] = OpenStream /\ l \notin failedBy' /\ ~(l < Last')
      BY <1>1, <1>3, <1>6 DEF StreamInv
    <2> QED
      BY <1>5, <2>1 DEF StreamOK, Over
  <1>7. StreamInv'
    BY <1>1, <1>3, <1>4, <1>5, <1>6, RunAssumption DEF StreamInv, Attended
  <1> QED
    BY <1>1, <1>2, <1>7

LEMMA InitBase == Init => Base
  <1> SUFFICES ASSUME Init PROVE Base
    OBVIOUS
  <1>1. GraphInv
    BY GraphInit DEF Init
  <1>2. Last = 1 /\ streams[1] = OpenStream /\ sets = <<>> /\ failedBy = {}
    BY DEF Init, Last
  <1>3. OpenStream \in StreamOf(0)
    BY DEF OpenStream, StreamOf, JobOf
  <1>4. RunTypes
    <2>1. /\ project \in BOOLEAN /\ overlap = FALSE /\ stored = "running" /\ ledger = "running"
          /\ sets = <<>> /\ streams = <<OpenStream>>
      BY DEF Init
    <2>2. sets \in Seq(ChangeSet) /\ Len(sets) = 0
      BY <2>1
    <2>3. streams \in Seq(StreamOf(Len(sets)))
      BY <1>3, <2>1, <2>2
    <2> QED
      BY <2>1, <2>2, <2>3 DEF RunTypes, StoredStatus, NodeStatus
  <1>5. done = {}
    BY DEF Init, G!Init
  <1>6. SetInv
    BY <1>2, <1>5 DEF SetInv, HasSet
  <1>7. /\ OpenStream.phase = "open" /\ ~OpenStream.broken /\ ~OpenStream.blocked
        /\ OpenStream.queue = <<>> /\ OpenStream.job = NoJob
    BY DEF OpenStream
  <1>8. StreamInv
    BY <1>2, <1>7, RunAssumption DEF StreamInv, StreamOK, Over, Attended, Numbers
  <1> QED
    BY <1>1, <1>4, <1>6, <1>8 DEF Base

LEMMA StepBase == Base /\ [Next]_vars => Base'
  <1> SUFFICES ASSUME Base, [Next]_vars PROVE Base'
    OBVIOUS
  <1>1. CASE UNCHANGED vars
    <2>1. UNCHANGED graphVars /\ UNCHANGED <<project, sets, streams, stored, ledger, overlap, failedBy>>
      BY <1>1 DEF vars, statusVars
    <2>2. GraphInv'
      BY <2>1, GraphStep DEF Base
    <2>3. RunTypes' /\ SetInv'
      BY <2>1 DEF Base, RunTypes, SetInv, HasSet, IsLatest, graphVars
    <2>4. Last' = Last /\ Numbers' = Numbers
      BY <2>1 DEF Last, Numbers
    <2>5. \A l \in Numbers : StreamOK(l)'
      BY <2>1, <2>4 DEF Base, StreamInv, StreamOK, Over
    <2>6. StreamInv'
      BY <2>1, <2>4, <2>5 DEF Base, StreamInv, Attended, G!Working, G!Live, graphVars
    <2> QED
      BY <2>2, <2>3, <2>6 DEF Base
  <1> QED
    BY <1>1, ProduceBase, AnswerBase, ConsumeBase DEF Next, Delivers

\* Every value a run handles keeps its type: no chunk or job names a set that was not made.
THEOREM TypeCorrect == Spec => []TypeOK
  <1>1. Base => TypeOK
    <2> SUFFICES ASSUME Base PROVE TypeOK
      OBVIOUS
    <2>1. G!TypeOK /\ RunTypes
      BY GraphTypes DEF Base
    <2>2. failedBy \subseteq 1 .. MaxStreams
      BY RunAssumption DEF Base, StreamInv, Numbers
    <2> QED
      BY <2>1, <2>2, Types
  <1> QED
    BY <1>1, InitBase, StepBase, PTL DEF Spec

-----------------------------------------------------------------------------
(* What the stored status tells. *)

\* What the status v of the last stream tells.
Tells(v) ==
    /\ (v = "awaiting_human") <=> (G!Waiting /\ Last \notin failedBy)
    /\ Last \in failedBy => v = "error"
    /\ v = "completed" => state.status = "completed" /\ ~thrown

TellInv ==
    /\ ~overlap /\ streams[Last].phase = "saving" => Tells(streams[Last].snapshot)
    /\ ~overlap /\ streams[Last].phase = "closed" => Tells(stored)

\* The status of a loop that is over tells the truth.
LEMMA PersistedTells ==
    ASSUME Base, LoopOver(Last) PROVE Tells(ResolvePersistedStatus(HasError(Last)))
  <1>1. Last \in Numbers /\ StreamOK(Last)
    BY LastPositive DEF Base, StreamInv
  <1>2. /\ Last \in failedBy => streams[Last].blocked \/ streams[Last].broken
        /\ streams[Last].blocked \/ streams[Last].broken => Last \in failedBy
    BY <1>1 DEF StreamOK
  <1>3. HasError(Last) <=> Last \in failedBy \/ thrown
    BY <1>2 DEF HasError
  <1>4. CASE HasError(Last)
    <2>1. ResolvePersistedStatus(HasError(Last)) = "error"
      BY <1>4 DEF ResolvePersistedStatus
    <2>2. ~(G!Waiting /\ Last \notin failedBy)
      BY <1>3, <1>4 DEF G!Waiting, G!Live
    <2> QED
      BY <2>1, <2>2 DEF Tells
  <1>5. CASE ~HasError(Last)
    <2>1. Last \notin failedBy /\ ~thrown /\ ~streams[Last].broken
      <3>1. ~streams[Last].blocked /\ ~streams[Last].broken
        BY <1>5, Zenon DEF HasError
      <3>2. ~thrown
        BY <1>5 DEF HasError
      <3> QED
        BY <1>2, <3>1, <3>2
    <2>2. ~G!Working
      BY <2>1, LastPositive DEF LoopOver, Exhausted, Base
    <2>3. next = {} \/ next \subseteq Checkpoints
      BY <2>1, <2>2 DEF G!Working, G!Live, G!Checkpoints, Checkpoints
    <2>4. (state.status = "awaiting_human") <=> (next # {} /\ next \subseteq Checkpoints)
      BY SameSets DEF Base, GraphInv, P!IInv, P!WaitsAtItsCheckpoint
    <2>5. G!Waiting <=> next # {}
      BY <2>1, <2>3 DEF G!Waiting, G!Live, G!Checkpoints, Checkpoints
    <2>6. CASE next = {}
      <3>1. /\ state.status # "awaiting_human"
            /\ ResolvePersistedStatus(HasError(Last)) \in {state.status, "completed_unverified"}
        BY <1>5, <2>4, <2>6 DEF ResolvePersistedStatus
      <3> QED
        BY <2>1, <2>5, <2>6, <3>1 DEF Tells
    <2>7. CASE next # {}
      <3>1. ResolvePersistedStatus(HasError(Last)) = "awaiting_human"
        BY <1>5, <2>3, <2>7 DEF ResolvePersistedStatus
      <3> QED
        BY <2>1, <2>5, <2>7, <3>1 DEF Tells
    <2> QED
      BY <2>6, <2>7
  <1> QED
    BY <1>4, <1>5

\* While the last stream has told its status, the graph stays unless the consumer has thrown.
LEMMA TellsOn ==
    ASSUME Base, NEW v, Tells(v), Last' = Last, failedBy' \ {Last} = failedBy \ {Last},
           Last \in failedBy' <=> Last \in failedBy,
           UNCHANGED graphVars \/ Last \in failedBy
    PROVE  Tells(v)'
  <1>1. CASE UNCHANGED graphVars
    <2>1. G!Waiting' <=> G!Waiting
      BY <1>1 DEF G!Waiting, G!Live, graphVars
    <2> QED
      BY <1>1, <2>1 DEF Tells, graphVars
  <1>2. CASE Last \in failedBy
    BY <1>2 DEF Tells
  <1> QED
    BY <1>1, <1>2

LEMMA ConsumeTells ==
    ASSUME Base, TellInv, NEW k \in 1 .. MaxStreams, Delivers(k)
    PROVE  TellInv'
  <1>0. /\ Last \in Numbers /\ (\A l \in Numbers : StreamOK(l)) /\ Last \in Nat
        /\ RunTypes /\ GraphInv
    BY LastPositive DEF Base, StreamInv
  \* Steps before the loop of stream k is over: k is open, or not the last one and answers overlap.
  <1>1. ASSUME k \in Numbers, Others(k), streams[k].phase = "open", streams'[k].phase = "open",
               failedBy' = failedBy \/ failedBy' = failedBy \cup {k},
               UNCHANGED <<graphVars, stored, overlap>>
        PROVE  TellInv'
    <2>1. CASE k = Last
      BY <1>1, <2>1 DEF TellInv, Others
    <2>2. CASE k # Last
      <3>1. overlap
        BY <1>0, <1>1, <2>2 DEF StreamOK, Numbers
      <3> QED
        BY <1>1, <3>1 DEF TellInv
    <2> QED
      BY <2>1, <2>2
  <1>2. CASE RecordSet(k)
    <2>1. Taken(k) /\ UNCHANGED <<graphVars, stored, overlap, failedBy>>
      BY <1>0, <1>2, FrontNamesSet, RecordSetMove
    <2> QED
      BY <1>1, <2>1 DEF Taken, Consuming, Numbers
  <1>3. CASE TakeVerdict(k)
    <2>1. Taken(k) /\ UNCHANGED <<graphVars, stored, overlap, failedBy>>
      BY <1>0, <1>3, TakeVerdictMove
    <2> QED
      BY <1>1, <2>1 DEF Taken, Consuming, Numbers
  <1>4. CASE Judge(k)
    <2>1. /\ k \in Numbers /\ Others(k) /\ streams'[k].phase = streams[k].phase
          /\ UNCHANGED <<graphVars, stored, overlap, failedBy>>
      BY <1>0, <1>4, JudgeMove
    <2>2. streams[k].phase = "open"
      BY <1>0, <1>4, <2>1 DEF Judge, NoJob, StreamOK, Over
    <2> QED
      BY <1>1, <2>1, <2>2
  <1>5. ASSUME NEW delivered \in BOOLEAN, ApplyFinishes(k, delivered) PROVE TellInv'
    <2>1. /\ k \in Numbers /\ Others(k) /\ streams'[k].phase = streams[k].phase
          /\ failedBy' = IF delivered THEN failedBy ELSE failedBy \cup {k}
          /\ UNCHANGED <<graphVars, stored, overlap>>
      BY <1>0, <1>5, ApplyFinishesMove
    <2>2. streams[k].phase = "open"
      BY <1>0, <1>5, <2>1 DEF ApplyFinishes, NoJob, StreamOK, Over
    <2> QED
      BY <1>1, <2>1, <2>2
  <1>6. CASE LoopThrows(k)
    <2>1. /\ k \in Numbers /\ Others(k) /\ streams'[k].phase = streams[k].phase
          /\ failedBy' = failedBy \cup {k}
          /\ UNCHANGED <<graphVars, stored, overlap>>
      BY <1>0, <1>6, LoopThrowsMove
    <2>2. streams[k].phase = "open"
      BY <1>0, <1>6, <2>1 DEF LoopThrows, NoJob, StreamOK, Over
    <2> QED
      BY <1>1, <2>1, <2>2
  <1>7. CASE Snapshot(k)
    <2>1. /\ LoopOver(k) /\ Others(k) /\ streams'[k].phase = "saving"
          /\ streams'[k].snapshot = ResolvePersistedStatus(HasError(k))
          /\ UNCHANGED <<graphVars, stored, overlap, failedBy>>
      BY <1>0, <1>7, SnapshotMove
    <2>2. k \in Numbers /\ streams[k].phase = "open" /\ Last' = Last
      BY <2>1 DEF LoopOver, Others
    <2>3. CASE k = Last
      <3>1. PICK v : v = ResolvePersistedStatus(HasError(k))
        OBVIOUS
      <3>2. Tells(v)
        BY <2>1, <2>3, <3>1, PersistedTells
      <3>3. Tells(v)'
        BY <2>1, <2>2, <3>2, TellsOn
      <3> QED
        BY <2>1, <2>2, <2>3, <3>1, <3>3 DEF TellInv
    <2>4. CASE k # Last
      <3>1. overlap
        BY <1>0, <2>2, <2>4 DEF StreamOK, Numbers
      <3> QED
        BY <2>1, <3>1 DEF TellInv
    <2> QED
      BY <2>3, <2>4
  <1>8. CASE SaveState(k)
    <2>1. k \in Numbers /\ streams[k].snapshot # "none"
      BY <1>0, <1>8 DEF SaveState, Numbers, StreamOK
    <2>2. /\ Others(k) /\ streams[k].phase = "saving" /\ streams'[k].phase = "closed"
          /\ stored' = streams[k].snapshot /\ Last' = Last
          /\ UNCHANGED <<graphVars, overlap, failedBy>>
      BY <1>0, <1>8, <2>1, SaveStateMove DEF Others
    <2>3. CASE k = Last /\ ~overlap
      <3>1. PICK v : v = streams[k].snapshot
        OBVIOUS
      <3>2. Tells(v)
        BY <2>2, <2>3, <3>1 DEF TellInv
      <3>3. Tells(v)'
        BY <2>2, <3>2, TellsOn
      <3> QED
        BY <2>2, <2>3, <3>1, <3>3 DEF TellInv
    <2>4. CASE ~(k = Last /\ ~overlap)
      <3>1. overlap
        BY <1>0, <2>1, <2>2, <2>4 DEF StreamOK, Numbers
      <3> QED
        BY <2>2, <3>1 DEF TellInv
    <2> QED
      BY <2>3, <2>4
  <1> QED
    BY <1>2, <1>3, <1>4, <1>5, <1>6, <1>7, <1>8 DEF Delivers, Consume

LEMMA ProduceTells == ASSUME Base, TellInv, Produce PROVE TellInv'
  <1>0. RunTypes /\ GraphInv /\ SetInv /\ Last \in Nat \ {0} /\ Last \in Numbers
    BY LastPositive DEF Base
  <1>1. /\ G!Working /\ Last' = Last /\ UNCHANGED <<stored, overlap, failedBy>>
        /\ streams'[Last].phase = streams[Last].phase /\ streams'[Last].snapshot = streams[Last].snapshot
    <2>1. CASE FrontProduces
      <3>1. /\ ~thrown /\ "frontAgent" \in next /\ UNCHANGED <<stored, overlap, failedBy>> /\ Last' = Last
            /\ streams'[Last].phase = streams[Last].phase /\ streams'[Last].snapshot = streams[Last].snapshot
        BY <1>0, <2>1, FrontProducesMove DEF Pushed, Others
      <3> QED
        BY <3>1 DEF G!Working, G!Live, G!Checkpoints
    <2>2. CASE CuratorProduces
      <3>1. /\ ~thrown /\ next = {"curatorAgent"} /\ UNCHANGED <<stored, overlap, failedBy>> /\ Last' = Last
            /\ streams'[Last].phase = streams[Last].phase /\ streams'[Last].snapshot = streams[Last].snapshot
        BY <1>0, <2>2, CuratorProducesMove DEF Pushed, Others
      <3> QED
        BY <3>1 DEF G!Working, G!Live, G!Checkpoints
    <2>3. CASE OtherNodeProduces
      BY <1>0, <2>3, OtherProducesMove DEF Last
    <2> QED
      BY <2>1, <2>2, <2>3 DEF Produce
  <1>2. CASE streams[Last].phase = "open"
    BY <1>1, <1>2 DEF TellInv
  <1>3. CASE streams[Last].phase # "open"
    <2>1. Last \in failedBy
      BY <1>0, <1>1, <1>3 DEF Base, StreamInv, StreamOK, Attended
    <2>2. ASSUME NEW v, Tells(v) PROVE Tells(v)'
      BY <1>1, <2>1, <2>2, TellsOn
    <2>3. PICK v : v = streams[Last].snapshot
      OBVIOUS
    <2>4. ~overlap /\ streams[Last].phase = "saving" => Tells(v)'
      BY <2>2, <2>3 DEF TellInv
    <2>5. PICK w : w = stored
      OBVIOUS
    <2>6. ~overlap /\ streams[Last].phase = "closed" => Tells(w)'
      BY <2>2, <2>5 DEF TellInv
    <2> QED
      BY <1>1, <2>3, <2>4, <2>5, <2>6 DEF TellInv
  <1> QED
    BY <1>2, <1>3

LEMMA StepTells == Base /\ TellInv /\ [Next]_vars => TellInv'
  <1> SUFFICES ASSUME Base, TellInv, [Next]_vars PROVE TellInv'
    OBVIOUS
  <1>1. CASE UNCHANGED vars
    BY <1>1 DEF vars, graphVars, statusVars, TellInv, Tells, Last, G!Waiting, G!Live
  <1>2. CASE Answer
    <2>1. RunTypes /\ GraphInv /\ SetInv /\ Last \in Nat \ {0}
      BY LastPositive DEF Base
    <2>2. Last' = Last + 1 /\ streams'[Last + 1] = OpenStream
      BY <1>2, <2>1, AnswerMovesOn
    <2>3. streams'[Last'].phase = "open"
      BY <2>2 DEF OpenStream
    <2> QED
      BY <2>3 DEF TellInv
  <1> QED
    BY <1>1, <1>2, ProduceTells, ConsumeTells DEF Next, Delivers

LEMMA TellInvariance == Spec => [](Base /\ TellInv)
  <1>1. Init => TellInv
    BY DEF Init, TellInv, Last, OpenStream
  <1> QED
    BY <1>1, InitBase, StepBase, StepTells, PTL DEF Spec

\* A stream that could not deliver a change set is never stored as a success, unless the human answered
\* before it was over.
THEOREM FailuresAreStored == Spec => []BlockedIsError
  <1>1. Base /\ TellInv => BlockedIsError
    BY DEF TellInv, Tells, BlockedIsError
  <1> QED
    BY <1>1, TellInvariance, PTL

\* When no stream is left, the stored status is the one that lets the human find the checkpoint the run
\* waits at, and only then.
THEOREM WaitingIsStored == Spec => []StoredTellsWaiting
  <1>1. Base /\ TellInv => StoredTellsWaiting
    <2> SUFFICES ASSUME Base, TellInv, AllClosed, ~overlap
                 PROVE  (stored = "awaiting_human") <=> (G!Waiting /\ Last \notin failedBy)
      BY DEF StoredTellsWaiting
    <2>1. Last \in 1 .. Last
      BY LastPositive DEF Numbers
    <2>2. streams[Last].phase = "closed"
      BY <2>1 DEF AllClosed
    <2> QED
      BY <2>2 DEF TellInv, Tells
  <1> QED
    BY <1>1, TellInvariance, PTL


-----------------------------------------------------------------------------
(* The chunks on their way and the jobs at work, and how a step changes them. *)

IsFront(k, n, i) ==
    n \in DOMAIN streams[k].queue /\ streams[k].queue[n].node = "front" /\ streams[k].queue[n].set = i

IsVerdict(k, n, i) ==
    n \in DOMAIN streams[k].queue /\ streams[k].queue[n].node = "curator" /\ streams[k].queue[n].set = i

IsPass(k, n, i) == IsVerdict(k, n, i) /\ streams[k].queue[n].passed

AtWork(k, i) == streams[k].job # NoJob /\ streams[k].job.set = i

\* Stream l has the same chunks and the same job.
SameChunks(l) == \A n, i : /\ IsFront(l, n, i)' <=> IsFront(l, n, i)
                           /\ IsVerdict(l, n, i)' <=> IsVerdict(l, n, i)
                           /\ IsPass(l, n, i)' <=> IsPass(l, n, i)

LEMMA KeptChunks ==
    ASSUME NEW l, streams'[l].queue = streams[l].queue PROVE SameChunks(l)
  BY DEF SameChunks, IsFront, IsVerdict, IsPass

LEMMA OtherChunks ==
    ASSUME NEW k, Others(k), NEW l \in Numbers, l # k
    PROVE  SameChunks(l) /\ streams'[l].job = streams[l].job
  BY DEF Others, SameChunks, IsFront, IsVerdict, IsPass

\* The first chunk of stream k is gone, the others move up.
Shifted(k) ==
    \A n, i :
        /\ IsFront(k, n, i)' => n \in Nat \ {0} /\ IsFront(k, n + 1, i)
        /\ IsVerdict(k, n, i)' => n \in Nat \ {0} /\ IsVerdict(k, n + 1, i)
        /\ IsPass(k, n, i)' => n \in Nat \ {0} /\ IsPass(k, n + 1, i)
        /\ IsFront(k, n, i) =>
             /\ n \in Nat \ {0} /\ (n # 1 => IsFront(k, n - 1, i)')
             /\ n = 1 => Head(streams[k].queue).node = "front" /\ Head(streams[k].queue).set = i
        /\ IsVerdict(k, n, i) =>
             /\ n \in Nat \ {0} /\ (n # 1 => IsVerdict(k, n - 1, i)')
             /\ n = 1 => Head(streams[k].queue).node = "curator" /\ Head(streams[k].queue).set = i
        /\ IsPass(k, n, i) =>
             /\ n \in Nat \ {0} /\ (n # 1 => IsPass(k, n - 1, i)')
             /\ n = 1 => Head(streams[k].queue).passed

\* Positions in a queue are numbers.
LEMMA Positions ==
    ASSUME RunTypes, NEW k \in Numbers, NEW n, n \in DOMAIN streams[k].queue PROVE n \in Nat \ {0}
  <1>1. streams[k].queue \in Seq(ChunkOf(Len(sets)))
    BY StreamTyped
  <1> QED
    BY <1>1

LEMMA TakenChunks ==
    ASSUME RunTypes, NEW k, Taken(k)
    PROVE  /\ k \in Numbers /\ Shifted(k)
           /\ \A l \in Numbers : l # k => SameChunks(l) /\ streams'[l].job = streams[l].job
           /\ IsFront(k, 1, Head(streams[k].queue).set) <=> Head(streams[k].queue).node = "front"
           /\ IsVerdict(k, 1, Head(streams[k].queue).set) <=> Head(streams[k].queue).node = "curator"
           /\ IsPass(k, 1, Head(streams[k].queue).set) <=>
                Head(streams[k].queue).node = "curator" /\ Head(streams[k].queue).passed
  <1>1. /\ k \in Numbers /\ streams[k].queue # <<>> /\ Others(k)
        /\ streams'[k].queue = Tail(streams[k].queue)
    BY DEF Taken, Consuming, Numbers
  <1>2. /\ Head(streams[k].queue) = streams[k].queue[1] /\ 1 \in DOMAIN streams[k].queue
        /\ \A n \in DOMAIN streams'[k].queue :
             n + 1 \in DOMAIN streams[k].queue /\ n \in Nat \ {0}
               /\ streams'[k].queue[n] = streams[k].queue[n + 1]
        /\ \A n \in DOMAIN streams[k].queue :
             n \in Nat /\ (n # 1 => n - 1 \in DOMAIN streams'[k].queue)
    BY <1>1, QueueTail
  <1>3. \A n \in DOMAIN streams[k].queue : n # 1 =>
           n - 1 \in DOMAIN streams'[k].queue /\ streams'[k].queue[n - 1] = streams[k].queue[n]
    BY <1>2
  <1>4. Shifted(k)
    BY <1>2, <1>3 DEF Shifted, IsFront, IsVerdict, IsPass
  <1> QED
    BY <1>1, <1>2, <1>4, OtherChunks DEF IsFront, IsVerdict, IsPass

\* Where a chunk was before one was taken from stream k.
LEMMA BeforeTaken ==
    ASSUME NEW k, Shifted(k), \A l \in Numbers : l # k => SameChunks(l),
           NEW l \in Numbers, NEW n, NEW i
    PROVE  /\ IsFront(l, n, i)' => \E m : /\ IsFront(l, m, i) /\ (l # k => m = n)
                                          /\ (l = k => n \in Nat \ {0} /\ m = n + 1)
           /\ IsVerdict(l, n, i)' => \E m : /\ IsVerdict(l, m, i) /\ (l # k => m = n)
                                            /\ (l = k => n \in Nat \ {0} /\ m = n + 1)
           /\ IsPass(l, n, i)' => \E m : /\ IsPass(l, m, i) /\ (l # k => m = n)
                                         /\ (l = k => n \in Nat \ {0} /\ m = n + 1)
  <1>1. CASE l # k
    BY <1>1 DEF SameChunks
  <1>2. CASE l = k
    <2>1. PICK m : m = n + 1
      OBVIOUS
    <2> QED
      BY <1>2, <2>1 DEF Shifted
  <1> QED
    BY <1>1, <1>2

\* The last stream has a new chunk at position m.
AddedAt(m, chunk) ==
    \A n, i :
        /\ IsFront(Last, n, i)' <=> IsFront(Last, n, i) \/ (n = m /\ chunk.node = "front" /\ chunk.set = i)
        /\ IsVerdict(Last, n, i)' <=> IsVerdict(Last, n, i) \/ (n = m /\ chunk.node = "curator" /\ chunk.set = i)
        /\ IsPass(Last, n, i)' <=>
             IsPass(Last, n, i) \/ (n = m /\ chunk.node = "curator" /\ chunk.set = i /\ chunk.passed)

\* Position m follows all positions of the last stream's queue.
AtEnd(m) == m \in Nat /\ \A n \in DOMAIN streams[Last].queue : n \in Nat /\ n < m

\* A chunk is pushed, unless the consumer has thrown.
LEMMA PushedChunks ==
    ASSUME RunTypes, Last \in Numbers, NEW l \in Nat, NEW chunk \in ChunkOf(l), Len(sets) <= l, Pushed(chunk)
    PROVE  /\ Last' = Last
           /\ \A k \in Numbers : streams'[k].job = streams[k].job /\ streams'[k].broken = streams[k].broken
           /\ \A k \in Numbers : k # Last \/ streams[Last].broken => SameChunks(k)
           /\ ~streams[Last].broken => \E m : AtEnd(m) /\ AddedAt(m, chunk)
  <1>1. /\ Others(Last) /\ Last' = Last
        /\ streams[Last].broken => streams' = streams
        /\ ~streams[Last].broken => streams'[Last].queue = Append(streams[Last].queue, chunk)
        /\ streams'[Last].job = streams[Last].job /\ streams'[Last].broken = streams[Last].broken
    BY DEF Pushed, Others
  <1>2. \A k \in Numbers : streams'[k].job = streams[k].job /\ streams'[k].broken = streams[k].broken
    BY <1>1 DEF Others
  <1>3. ASSUME NEW k \in Numbers, k # Last \/ streams[Last].broken PROVE SameChunks(k)
    BY <1>1, <1>3, KeptChunks DEF Others
  <1>4. ASSUME ~streams[Last].broken PROVE \E m : AtEnd(m) /\ AddedAt(m, chunk)
    <2>1. PICK q \in Seq(ChunkOf(l)) : q = streams[Last].queue
      <3>1. streams \in Seq(StreamOf(l))
        BY StreamsGrow DEF RunTypes
      <3>2. streams[Last] \in StreamOf(l)
        BY <3>1 DEF Numbers, Last
      <3> QED
        BY <3>2 DEF StreamOf
    <2>2. streams'[Last].queue = Append(q, chunk)
      BY <1>1, <1>4, <2>1
    <2>3. /\ Append(q, chunk) \in Seq(ChunkOf(l)) /\ Len(Append(q, chunk)) = Len(q) + 1
          /\ DOMAIN Append(q, chunk) = DOMAIN q \cup {Len(q) + 1}
          /\ \A n \in DOMAIN q : Append(q, chunk)[n] = q[n]
          /\ Append(q, chunk)[Len(q) + 1] = chunk
      OBVIOUS
    <2>4. PICK m : m = Len(q) + 1
      OBVIOUS
    <2>5. m \in Nat /\ \A n \in DOMAIN q : n \in Nat /\ n < m
      BY <2>4
    <2>6. AtEnd(m)
      BY <2>1, <2>5 DEF AtEnd
    <2>7. m \notin DOMAIN q
      BY <2>5
    <2>8. /\ DOMAIN streams'[Last].queue = DOMAIN streams[Last].queue \cup {m}
          /\ \A n \in DOMAIN streams[Last].queue : streams'[Last].queue[n] = streams[Last].queue[n]
          /\ streams'[Last].queue[m] = chunk
      BY <2>1, <2>2, <2>3, <2>4
    <2>9. AddedAt(m, chunk)
      BY <1>1, <2>1, <2>7, <2>8 DEF AddedAt, IsFront, IsVerdict, IsPass
    <2> QED
      BY <2>6, <2>9
  <1> QED
    BY <1>1, <1>2, <1>3, <1>4

-----------------------------------------------------------------------------
(* The news of a set: the chunk of its front result is the only one, and the first thing the
   consumer learns of it. *)

NewsInv ==
    /\ \A k \in Numbers : \A n, i : IsFront(k, n, i) =>
         /\ sets[i].status = "produced"
         /\ \A l \in Numbers : \A m : IsFront(l, m, i) => l = k /\ m = n
    /\ \A k \in Numbers : \A i : AtWork(k, i) => sets[i].status # "produced"

\* What a chunk or a job names was made.
LEMMA NamesSets ==
    ASSUME Base, NEW k \in Numbers
    PROVE  /\ \A n, i : IsFront(k, n, i) => i \in DOMAIN sets /\ n \in Nat \ {0}
           /\ \A n, i : IsVerdict(k, n, i) => i \in 0 .. Len(sets) /\ n \in Nat \ {0}
           /\ \A i : AtWork(k, i) => i \in DOMAIN sets
           /\ DOMAIN sets = 1 .. Len(sets) /\ Len(sets) \in Nat
  <1>1. /\ streams[k].queue \in Seq(ChunkOf(Len(sets))) /\ streams[k].job \in JobOf(Len(sets))
        /\ Len(sets) \in Nat /\ DOMAIN sets = 1 .. Len(sets)
    BY StreamTyped DEF Base, RunTypes
  <1>2. \A n \in DOMAIN streams[k].queue :
          /\ streams[k].queue[n] \in ChunkOf(Len(sets)) /\ n \in Nat \ {0}
          /\ streams[k].queue[n].node = "front" => streams[k].queue[n].set # 0
    BY <1>1 DEF Base, StreamInv, StreamOK
  <1>3. \A n \in DOMAIN streams[k].queue :
          /\ streams[k].queue[n].set \in 0 .. Len(sets) /\ n \in Nat \ {0}
          /\ streams[k].queue[n].node = "front" => streams[k].queue[n].set # 0
    BY <1>2 DEF ChunkOf
  <1>4. ASSUME NEW i, AtWork(k, i) PROVE i \in DOMAIN sets
    <2>1. streams[k].job \in [kind : {"judge", "apply"}, set : 1 .. Len(sets), passed : BOOLEAN]
      BY <1>1, <1>4 DEF AtWork, JobOf
    <2> QED
      BY <1>1, <1>4, <2>1 DEF AtWork
  <1> QED
    BY <1>1, <1>3, <1>4 DEF IsFront, IsVerdict

\* Steps that add no chunk and no job, and change no produced set.
LEMMA NewsStays ==
    ASSUME Base, NewsInv, Last' = Last,
           \A k \in Numbers : \A n, i : IsFront(k, n, i)' => IsFront(k, n, i),
           \A k \in Numbers : \A i : AtWork(k, i)' => AtWork(k, i),
           \A i \in DOMAIN sets : /\ sets[i].status = "produced" => sets'[i].status = "produced"
                                  /\ sets[i].status # "produced" => sets'[i].status # "produced"
    PROVE  NewsInv'
  <1>1. Numbers' = Numbers
    BY DEF Numbers
  <1>2. \A k \in Numbers : \A n, i : IsFront(k, n, i) => i \in DOMAIN sets
    BY NamesSets
  <1>3. \A k \in Numbers : \A i : AtWork(k, i) => i \in DOMAIN sets
    BY NamesSets
  <1> QED
    BY <1>1, <1>2, <1>3 DEF NewsInv

LEMMA FrontNews ==
    ASSUME Base, NewsInv, FrontProduces PROVE NewsInv'
  <1> DEFINE chunk == [node |-> "front", set |-> Len(sets) + 1, passed |-> FALSE]
  <1>1. /\ Last \in Numbers /\ Last' = Last /\ Numbers' = Numbers /\ Len(sets) \in Nat
        /\ DOMAIN sets = 1 .. Len(sets)
    BY LastPositive, NamesSets, FrontProducesMove DEF Base, Pushed, Others, Numbers
  <1>2. /\ \A j \in DOMAIN sets : sets'[j] = sets[j]
        /\ sets'[Len(sets) + 1].status = "produced"
        /\ Pushed(chunk) /\ RunTypes
    BY LastPositive, FrontProducesMove DEF Base
  <1>3. chunk \in ChunkOf(Len(sets) + 1) /\ chunk.node = "front" /\ chunk.set = Len(sets) + 1
    BY <1>1 DEF ChunkOf
  <1> HIDE DEF chunk
  <1>4. /\ \A k \in Numbers : streams'[k].job = streams[k].job
        /\ \A k \in Numbers : k # Last \/ streams[Last].broken => SameChunks(k)
        /\ ~streams[Last].broken => \E m : AtEnd(m) /\ AddedAt(m, chunk)
    BY <1>1, <1>2, <1>3, PushedChunks
  <1>5. \A k \in Numbers : \A n, i : IsFront(k, n, i) => i \in DOMAIN sets
    BY NamesSets
  <1>6. PICK m : \A k \in Numbers : \A n, i : IsFront(k, n, i)' =>
                   \/ IsFront(k, n, i) /\ i \in DOMAIN sets
                   \/ k = Last /\ n = m /\ i = Len(sets) + 1
    <2>1. CASE streams[Last].broken
      BY <1>4, <1>5, <2>1 DEF SameChunks
    <2>2. CASE ~streams[Last].broken
      <3>1. PICK m : AddedAt(m, chunk)
        BY <1>4, <2>2
      <3>2. \A n, i : IsFront(Last, n, i)' => IsFront(Last, n, i) \/ (n = m /\ i = Len(sets) + 1)
        BY <1>3, <3>1 DEF AddedAt
      <3> QED
        BY <1>1, <1>4, <1>5, <3>2 DEF SameChunks
    <2> QED
      BY <2>1, <2>2
  <1>7. Len(sets) + 1 \notin DOMAIN sets
    BY <1>1
  <1>8. ASSUME NEW k \in Numbers, NEW n, NEW i, IsFront(k, n, i)'
        PROVE  /\ sets'[i].status = "produced"
               /\ \A l \in Numbers : \A j : IsFront(l, j, i)' => l = k /\ j = n
    BY <1>2, <1>6, <1>7, <1>8 DEF NewsInv
  <1>9. ASSUME NEW k \in Numbers, NEW i, AtWork(k, i)' PROVE sets'[i].status # "produced"
    <2>1. AtWork(k, i) /\ i \in DOMAIN sets
      BY <1>4, <1>9, NamesSets DEF AtWork
    <2> QED
      BY <1>2, <2>1 DEF NewsInv
  <1> QED
    BY <1>1, <1>8, <1>9 DEF NewsInv

LEMMA CuratorNews ==
    ASSUME Base, NewsInv, CuratorProduces PROVE NewsInv'
  <1>1. Last \in Numbers /\ Len(sets) \in Nat /\ RunTypes /\ sets' = sets
    BY LastPositive, NamesSets, CuratorProducesMove DEF Base
  <1>2. PICK chunk \in ChunkOf(Len(sets)) : chunk.node = "curator" /\ Pushed(chunk)
    BY LastPositive, CuratorProducesMove DEF Base
  <1>3. /\ Last' = Last /\ \A k \in Numbers : streams'[k].job = streams[k].job
        /\ \A k \in Numbers : k # Last \/ streams[Last].broken => SameChunks(k)
        /\ ~streams[Last].broken => \E m : AtEnd(m) /\ AddedAt(m, chunk)
    BY <1>1, <1>2, PushedChunks
  <1>4. \A k \in Numbers : \A n, i : IsFront(k, n, i)' => IsFront(k, n, i)
    BY <1>2, <1>3 DEF SameChunks, AddedAt
  <1> QED
    BY <1>1, <1>3, <1>4, NewsStays DEF AtWork

\* Streams and sets stay.
LEMMA OtherNews ==
    ASSUME Base, NewsInv, UNCHANGED <<streams, sets>> PROVE NewsInv'
  BY DEF NewsInv, IsFront, AtWork, Numbers, Last

LEMMA AnswerNews ==
    ASSUME Base, NewsInv, Answer PROVE NewsInv'
  <1>1. /\ Last' = Last + 1 /\ (\A k \in Numbers : streams'[k] = streams[k])
        /\ streams'[Last + 1] = OpenStream /\ sets' = sets /\ Last \in Nat
    BY LastPositive, AnswerMovesOn DEF Base
  <1>2. \A k \in Numbers' : k \in Numbers \/ k = Last + 1
    BY <1>1 DEF Numbers
  <1>3. \A k \in Numbers' : \A n, i : IsFront(k, n, i)' => k \in Numbers /\ IsFront(k, n, i)
    BY <1>1, <1>2 DEF IsFront, OpenStream
  <1>4. \A k \in Numbers' : \A i : AtWork(k, i)' => k \in Numbers /\ AtWork(k, i)
    BY <1>1, <1>2 DEF AtWork, OpenStream
  <1> QED
    BY <1>1, <1>3, <1>4 DEF NewsInv

LEMMA RecordNews ==
    ASSUME Base, NewsInv, NEW k, RecordSet(k) PROVE NewsInv'
  <1>1. /\ Taken(k) /\ streams'[k].job = NoJob /\ RunTypes
        /\ Head(streams[k].queue).node = "front" /\ Head(streams[k].queue).set \in DOMAIN sets
        /\ Last' = Last /\ Numbers' = Numbers
    BY FrontNamesSet, RecordSetMove DEF Base, Taken, Others, Numbers
  <1>2. PICK i0 \in DOMAIN sets : i0 = Head(streams[k].queue).set
    BY <1>1
  <1>3. PICK status \in {"applied", "proposed"} : StatusOnly(i0, status)
    BY <1>2, FrontNamesSet, RecordSetMove DEF Base
  <1>4. /\ k \in Numbers /\ Shifted(k)
        /\ \A l \in Numbers : l # k => SameChunks(l) /\ streams'[l].job = streams[l].job
        /\ IsFront(k, 1, i0)
    BY <1>1, <1>2, TakenChunks
  <1>5. \A i \in DOMAIN sets : sets'[i].status = IF i = i0 THEN status ELSE sets[i].status
    BY <1>3 DEF StatusOnly
  <1>6. ASSUME NEW l \in Numbers, NEW n, NEW i, IsFront(l, n, i)'
        PROVE  \E m : IsFront(l, m, i) /\ (l # k => m = n) /\ (l = k => n \in Nat \ {0} /\ m = n + 1)
    BY <1>4, <1>6, BeforeTaken
  <1>7. ASSUME NEW l \in Numbers, NEW n, NEW i, IsFront(l, n, i)'
        PROVE  /\ sets'[i].status = "produced"
               /\ \A h \in Numbers : \A j : IsFront(h, j, i)' => h = l /\ j = n
    <2>1. PICK m : IsFront(l, m, i) /\ (l # k => m = n) /\ (l = k => n \in Nat \ {0} /\ m = n + 1)
      BY <1>6, <1>7
    <2>2. /\ sets[i].status = "produced" /\ i \in DOMAIN sets
          /\ \A h \in Numbers : \A j : IsFront(h, j, i) => h = l /\ j = m
      BY <2>1, NamesSets DEF NewsInv
    <2>3. i # i0
      <3>1. CASE i = i0
        BY <1>4, <2>1, <2>2, <3>1
      <3> QED
        BY <3>1
    <2>4. ASSUME NEW h \in Numbers, NEW j, IsFront(h, j, i)' PROVE h = l /\ j = n
      <3>1. PICK p : IsFront(h, p, i) /\ (h # k => p = j) /\ (h = k => j \in Nat \ {0} /\ p = j + 1)
        BY <1>6, <2>4
      <3>2. h = l /\ p = m
        BY <2>2, <3>1
      <3> QED
        BY <2>1, <3>1, <3>2
    <2> QED
      BY <1>5, <2>2, <2>3, <2>4
  <1>8. ASSUME NEW l \in Numbers, NEW i, AtWork(l, i)' PROVE sets'[i].status # "produced"
    <2>1. l # k /\ AtWork(l, i) /\ i \in DOMAIN sets
      BY <1>1, <1>4, <1>8, NamesSets DEF AtWork
    <2> QED
      BY <1>5, <2>1 DEF NewsInv
  <1> QED
    BY <1>1, <1>7, <1>8 DEF NewsInv

LEMMA VerdictNews ==
    ASSUME Base, NewsInv, NEW k, TakeVerdict(k) PROVE NewsInv'
  <1>1. /\ Taken(k) /\ RunTypes /\ sets' = sets /\ Last' = Last /\ Numbers' = Numbers
        /\ streams'[k].job = JobFor(FindProposed(Head(streams[k].queue).set), Head(streams[k].queue).passed)
    BY TakeVerdictMove DEF Base, Taken, Others, Numbers
  <1>2. /\ k \in Numbers /\ Shifted(k)
        /\ \A l \in Numbers : l # k => SameChunks(l) /\ streams'[l].job = streams[l].job
    BY <1>1, TakenChunks
  <1>6. ASSUME NEW l \in Numbers, NEW n, NEW i, IsFront(l, n, i)'
        PROVE  \E m : IsFront(l, m, i) /\ (l # k => m = n) /\ (l = k => n \in Nat \ {0} /\ m = n + 1)
    BY <1>2, <1>6, BeforeTaken
  <1>7. ASSUME NEW l \in Numbers, NEW n, NEW i, IsFront(l, n, i)'
        PROVE  /\ sets'[i].status = "produced"
               /\ \A h \in Numbers : \A j : IsFront(h, j, i)' => h = l /\ j = n
    <2>1. PICK m : IsFront(l, m, i) /\ (l # k => m = n) /\ (l = k => n \in Nat \ {0} /\ m = n + 1)
      BY <1>6, <1>7
    <2>2. /\ sets[i].status = "produced"
          /\ \A h \in Numbers : \A j : IsFront(h, j, i) => h = l /\ j = m
      BY <2>1 DEF NewsInv
    <2>4. ASSUME NEW h \in Numbers, NEW j, IsFront(h, j, i)' PROVE h = l /\ j = n
      <3>1. PICK p : IsFront(h, p, i) /\ (h # k => p = j) /\ (h = k => j \in Nat \ {0} /\ p = j + 1)
        BY <1>6, <2>4
      <3>2. h = l /\ p = m
        BY <2>2, <3>1
      <3> QED
        BY <2>1, <3>1, <3>2
    <2> QED
      BY <1>1, <2>2, <2>4
  <1>8. ASSUME NEW l \in Numbers, NEW i, AtWork(l, i)' PROVE sets'[i].status # "produced"
    <2>1. CASE l # k
      BY <1>1, <1>2, <1>8, <2>1 DEF NewsInv, AtWork
    <2>2. CASE l = k
      BY <1>1, <1>8, <2>2 DEF AtWork, JobFor, FindProposed, NoJob
    <2> QED
      BY <2>1, <2>2
  <1> QED
    BY <1>1, <1>7, <1>8 DEF NewsInv

\* A job's step keeps the chunks and changes a set that is no news.
LEMMA JobNews ==
    ASSUME Base, NewsInv, NEW k \in Numbers, Others(k), streams'[k].queue = streams[k].queue,
           \A i : AtWork(k, i)' => AtWork(k, i),
           \/ sets' = sets
           \/ \E i, status : AtWork(k, i) /\ status # "produced" /\ StatusOnly(i, status)
    PROVE  NewsInv'
  <1>1. \A l \in Numbers : SameChunks(l) /\ (l # k => streams'[l].job = streams[l].job)
    BY KeptChunks, OtherChunks
  <1>2. \A i \in DOMAIN sets : /\ sets[i].status = "produced" => sets'[i].status = "produced"
                               /\ sets[i].status # "produced" => sets'[i].status # "produced"
    BY DEF StatusOnly, NewsInv
  <1> QED
    BY <1>1, <1>2, NewsStays DEF Others, SameChunks, AtWork

\* The queue is given up.
LEMMA EmptiedNews ==
    ASSUME Base, NewsInv, NEW k \in Numbers, Others(k), streams'[k].queue = <<>>, sets' = sets,
           \A i : AtWork(k, i)' => AtWork(k, i)
    PROVE  NewsInv'
  <1>1. \A l \in Numbers : l # k => SameChunks(l) /\ streams'[l].job = streams[l].job
    BY OtherChunks
  <1>2. \A n, i : ~IsFront(k, n, i)'
    BY DEF IsFront
  <1> QED
    BY <1>1, <1>2, NewsStays DEF Others, SameChunks, AtWork

LEMMA ConsumeNews ==
    ASSUME Base, NewsInv, NEW k \in 1 .. MaxStreams, Delivers(k) PROVE NewsInv'
  <1>0. RunTypes /\ GraphInv
    BY DEF Base
  <1>1. CASE Judge(k)
    <2>1. /\ k \in Numbers /\ Others(k) /\ streams[k].job.kind = "judge"
          /\ streams'[k].queue = streams[k].queue
          /\ StatusOnly(streams[k].job.set, IF streams[k].job.passed THEN "curator_approved" ELSE "curator_rejected")
          /\ streams'[k].job = IF streams[k].job.passed /\ project
                               THEN [kind |-> "apply", set |-> streams[k].job.set, passed |-> TRUE] ELSE NoJob
      BY <1>0, <1>1, JudgeMove
    <2>2. streams[k].job # NoJob
      BY <2>1 DEF NoJob
    <2>3. PICK i, status : AtWork(k, i) /\ status # "produced" /\ StatusOnly(i, status)
      BY <2>1, <2>2 DEF AtWork
    <2>4. \A j : AtWork(k, j)' => AtWork(k, j)
      BY <2>1, <2>2 DEF AtWork
    <2> QED
      BY <2>1, <2>3, <2>4, JobNews
  <1>2. ASSUME NEW delivered \in BOOLEAN, ApplyFinishes(k, delivered) PROVE NewsInv'
    <2>1. /\ k \in Numbers /\ Others(k) /\ streams[k].job.kind = "apply"
          /\ streams'[k].queue = streams[k].queue /\ streams'[k].job = NoJob
          /\ StatusOnly(streams[k].job.set, IF delivered THEN "applied" ELSE "failed")
      BY <1>0, <1>2, ApplyFinishesMove
    <2>2. streams[k].job # NoJob
      BY <2>1 DEF NoJob
    <2>3. PICK i, status : AtWork(k, i) /\ status # "produced" /\ StatusOnly(i, status)
      BY <2>1, <2>2 DEF AtWork
    <2>4. \A j : AtWork(k, j)' => AtWork(k, j)
      BY <2>1 DEF AtWork
    <2> QED
      BY <2>1, <2>3, <2>4, JobNews
  <1>3. CASE LoopThrows(k)
    <2>1. /\ k \in Numbers /\ Others(k) /\ streams'[k].queue = <<>> /\ streams'[k].job = NoJob /\ sets' = sets
      BY <1>0, <1>3, LoopThrowsMove
    <2> QED
      BY <2>1, EmptiedNews DEF AtWork
  <1>4. CASE Snapshot(k)
    <2>1. /\ k \in Numbers /\ Others(k) /\ streams'[k].queue = <<>> /\ streams'[k].job = streams[k].job
          /\ sets' = sets
      BY <1>0, <1>4, SnapshotMove DEF LoopOver
    <2> QED
      BY <2>1, EmptiedNews DEF AtWork
  <1>5. CASE SaveState(k)
    <2>1. k \in Numbers /\ streams[k].snapshot # "none"
      BY <1>5 DEF SaveState, Numbers, Base, StreamInv, StreamOK
    <2>2. /\ Others(k) /\ streams'[k].queue = streams[k].queue /\ streams'[k].job = streams[k].job
          /\ sets' = sets
      BY <1>0, <1>5, <2>1, SaveStateMove
    <2> QED
      BY <2>1, <2>2, JobNews DEF AtWork
  <1> QED
    BY <1>1, <1>2, <1>3, <1>4, <1>5, RecordNews, VerdictNews DEF Delivers, Consume

LEMMA StepNews == Base /\ NewsInv /\ [Next]_vars => NewsInv'
  <1> SUFFICES ASSUME Base, NewsInv, [Next]_vars PROVE NewsInv'
    OBVIOUS
  <1>1. CASE UNCHANGED vars
    BY <1>1, OtherNews DEF vars
  <1>2. CASE OtherNodeProduces
    BY <1>2, OtherNews DEF OtherNodeProduces
  <1> QED
    BY <1>1, <1>2, FrontNews, CuratorNews, AnswerNews, ConsumeNews DEF Next, Delivers, Produce

-----------------------------------------------------------------------------
(* What is still to be done about a set: as long as nothing has thrown, its chunk, its verdict or
   its job is on its way. *)

Judged   == "frontAgent" \in done \/ next = {"curatorAgent"}
About(i) == Judged /\ IsLatest(state.idx, i)

Troubled == thrown \/ \E k \in Numbers : streams[k].broken

NewsWaits(i) ==
    \E k \in Numbers : \E n : /\ IsFront(k, n, i)
                              /\ (\E m : n < m /\ IsVerdict(k, m, i)) \/ (k = Last /\ About(i))

VerdictWaits(i) ==
    \E k \in Numbers : \/ AtWork(k, i) /\ streams[k].job.kind = "judge"
                       \/ \E m : IsVerdict(k, m, i)
                       \/ k = Last /\ About(i)

ApplyWaits(i) == \E k \in Numbers : AtWork(k, i) /\ streams[k].job.kind = "apply"

Waits(i) ==
    /\ sets[i].status = "produced" => NewsWaits(i)
    /\ sets[i].status = "proposed" => VerdictWaits(i)
    /\ sets[i].status = "curator_approved" /\ project => ApplyWaits(i)

PendingInv == ~Troubled => \A i \in DOMAIN sets : Waits(i)

LEMMA AboutStays ==
    ASSUME RunTypes, UNCHANGED graphVars, UNCHANGED sets \/ \E i, status : StatusOnly(i, status), RunTypes'
    PROVE  \A i : About(i)' <=> About(i)
  <1>1. /\ DOMAIN sets' = DOMAIN sets /\ \A j \in DOMAIN sets : sets'[j].story = sets[j].story
        /\ state' = state /\ next' = next /\ done' = done
    BY DEF StatusOnly, RunTypes, graphVars
  <1> QED
    BY <1>1 DEF About, Judged, IsLatest

\* What is on its way stays so: a verdict to be given is still to be given, or was given.
LEMMA WaitsOn ==
    ASSUME NEW i, Waits(i), sets'[i].status = sets[i].status, project' = project,
           \A k \in Numbers :
              /\ k \in Numbers' /\ streams'[k].job = streams[k].job
              /\ \A n : /\ IsFront(k, n, i) => IsFront(k, n, i)'
                        /\ IsVerdict(k, n, i) => IsVerdict(k, n, i)',
           About(i) => \/ About(i)' /\ Last' = Last
                       \/ \A k \in Numbers : k = Last =>
                            \E m : /\ IsVerdict(k, m, i)'
                                   /\ \A n \in DOMAIN streams[k].queue : n < m
    PROVE  Waits(i)'
  <1>1. ASSUME NewsWaits(i) PROVE NewsWaits(i)'
    <2>1. PICK k, n : /\ k \in Numbers /\ IsFront(k, n, i)
                      /\ (\E m : n < m /\ IsVerdict(k, m, i)) \/ (k = Last /\ About(i))
      BY <1>1 DEF NewsWaits
    <2>2. k \in Numbers' /\ IsFront(k, n, i)'
      BY <2>1
    <2>3. CASE \E m : n < m /\ IsVerdict(k, m, i)
      BY <2>1, <2>2, <2>3 DEF NewsWaits
    <2>4. CASE k = Last /\ About(i)
      <3>1. CASE About(i)' /\ Last' = Last
        BY <2>1, <2>2, <2>4, <3>1 DEF NewsWaits
      <3>2. ASSUME NEW m, IsVerdict(k, m, i)', \A j \in DOMAIN streams[k].queue : j < m PROVE NewsWaits(i)'
        <4>1. n < m
          BY <2>1, <3>2 DEF IsFront
        <4> QED
          BY <2>1, <2>2, <3>2, <4>1 DEF NewsWaits
      <3> QED
        BY <2>1, <2>4, <3>1, <3>2
    <2> QED
      BY <2>1, <2>3, <2>4
  <1>2. ASSUME VerdictWaits(i) PROVE VerdictWaits(i)'
    <2>1. PICK k \in Numbers : \/ AtWork(k, i) /\ streams[k].job.kind = "judge"
                               \/ \E m : IsVerdict(k, m, i)
                               \/ k = Last /\ About(i)
      BY <1>2 DEF VerdictWaits
    <2>2. CASE AtWork(k, i) /\ streams[k].job.kind = "judge"
      BY <2>2 DEF VerdictWaits, AtWork
    <2>3. CASE \E m : IsVerdict(k, m, i)
      BY <2>3 DEF VerdictWaits
    <2>4. CASE k = Last /\ About(i)
      BY <2>4 DEF VerdictWaits
    <2> QED
      BY <2>1, <2>2, <2>3, <2>4
  <1>3. ApplyWaits(i) => ApplyWaits(i)'
    BY DEF ApplyWaits, AtWork
  <1> QED
    BY <1>1, <1>2, <1>3 DEF Waits

LEMMA TroubleStays ==
    ASSUME thrown => thrown', \A k \in Numbers : k \in Numbers' /\ (streams[k].broken => streams'[k].broken),
           ~Troubled'
    PROVE  ~Troubled
  BY DEF Troubled

LEMMA FrontPending ==
    ASSUME Base, PendingInv, FrontProduces PROVE PendingInv'
  <1> SUFFICES ASSUME ~Troubled' PROVE \A i \in DOMAIN sets' : Waits(i)'
    BY DEF PendingInv
  <1> DEFINE chunk == [node |-> "front", set |-> Len(sets) + 1, passed |-> FALSE]
  <1>1. /\ Last \in Numbers /\ Last' = Last /\ Numbers' = Numbers /\ Len(sets) \in Nat
    BY LastPositive, NamesSets, FrontProducesMove DEF Base, Pushed, Others, Numbers
  <1>2. /\ \A j \in DOMAIN sets : sets'[j] = sets[j]
        /\ sets'[Len(sets) + 1].status = "produced"
        /\ Pushed(chunk) /\ RunTypes /\ project' = project /\ thrown' = thrown
        /\ "frontAgent" \in next \ done /\ next \subseteq Workers
        /\ state'.idx = state.idx
        /\ \/ next' = {"curatorAgent"} /\ done' = {}
           \/ next' = next /\ done' = done \cup {"frontAgent"}
    BY LastPositive, FrontProducesMove DEF Base
  <1>3. chunk \in ChunkOf(Len(sets) + 1) /\ chunk.node = "front" /\ chunk.set = Len(sets) + 1
    BY <1>1 DEF ChunkOf
  <1> HIDE DEF chunk
  <1>4. /\ \A k \in Numbers : streams'[k].job = streams[k].job /\ streams'[k].broken = streams[k].broken
        /\ \A k \in Numbers : k # Last \/ streams[Last].broken => SameChunks(k)
        /\ ~streams[Last].broken => \E m : AtEnd(m) /\ AddedAt(m, chunk)
    BY <1>1, <1>2, <1>3, PushedChunks
  <1>5. ~Troubled
    BY <1>1, <1>2, <1>4, TroubleStays
  <1>6. PICK m : AddedAt(m, chunk)
    BY <1>1, <1>4, <1>5 DEF Troubled
  <1>7. ~Judged /\ Judged'
    BY <1>2 DEF Judged, Workers, Base, SetInv
  <1>8. /\ DOMAIN sets' = DOMAIN sets \cup {Len(sets) + 1}
        /\ \A i : i = Len(sets) + 1 => IsLatest(state.idx, i)'
    BY FrontSets
  <1>9. \A i : i = Len(sets) + 1 => About(i)'
    BY <1>2, <1>7, <1>8 DEF About
  <1>10. ASSUME NEW i \in DOMAIN sets PROVE Waits(i)'
    <2>1. Waits(i) /\ ~About(i)
      BY <1>5, <1>7 DEF PendingInv, About
    <2>2. \A k \in Numbers : \A n : /\ IsFront(k, n, i) => IsFront(k, n, i)'
                                    /\ IsVerdict(k, n, i) => IsVerdict(k, n, i)'
      BY <1>1, <1>4, <1>6 DEF SameChunks, AddedAt
    <2> QED
      BY <1>1, <1>2, <1>4, <2>1, <2>2, WaitsOn
  <1>11. ASSUME NEW i, i = Len(sets) + 1 PROVE Waits(i)'
    <2>1. IsFront(Last, m, i)'
      BY <1>3, <1>6, <1>11 DEF AddedAt
    <2>2. Last' \in Numbers'
      BY <1>1
    <2>3. NewsWaits(i)'
      BY <1>9, <1>11, <2>1, <2>2 DEF NewsWaits
    <2> QED
      BY <1>2, <1>11, <2>3 DEF Waits
  <1> QED
    BY <1>8, <1>10, <1>11

LEMMA CuratorPending ==
    ASSUME Base, PendingInv, CuratorProduces PROVE PendingInv'
  <1> SUFFICES ASSUME ~Troubled' PROVE \A i \in DOMAIN sets' : Waits(i)'
    BY DEF PendingInv
  <1>1. /\ Last \in Numbers /\ Len(sets) \in Nat /\ RunTypes /\ SetInv /\ sets' = sets /\ project' = project
        /\ thrown' = thrown /\ state.idx \in Stories
    BY LastPositive, NamesSets, CuratorProducesMove DEF Base
  <1>2. PICK chunk \in ChunkOf(Len(sets)) :
          chunk.node = "curator" /\ chunk.set = LatestSet(state.idx) /\ Pushed(chunk)
    BY LastPositive, CuratorProducesMove DEF Base
  <1>3. /\ Last' = Last
        /\ \A k \in Numbers : streams'[k].job = streams[k].job /\ streams'[k].broken = streams[k].broken
        /\ \A k \in Numbers : k # Last \/ streams[Last].broken => SameChunks(k)
        /\ ~streams[Last].broken => \E m : AtEnd(m) /\ AddedAt(m, chunk)
    BY <1>1, <1>2, PushedChunks
  <1>4. Numbers' = Numbers
    BY <1>3 DEF Numbers
  <1>5. ~Troubled
    BY <1>1, <1>3, <1>4, TroubleStays
  <1>6. PICK m : AtEnd(m) /\ AddedAt(m, chunk)
    BY <1>1, <1>3, <1>5 DEF Troubled
  <1>7. ASSUME NEW i \in DOMAIN sets PROVE Waits(i)'
    <2>1. Waits(i)
      BY <1>5 DEF PendingInv
    <2>2. \A k \in Numbers : \A n : /\ IsFront(k, n, i) => IsFront(k, n, i)'
                                    /\ IsVerdict(k, n, i) => IsVerdict(k, n, i)'
      BY <1>3, <1>6 DEF SameChunks, AddedAt
    <2>3. ASSUME About(i), NEW k \in Numbers, k = Last
          PROVE  IsVerdict(k, m, i)' /\ \A n \in DOMAIN streams[k].queue : n < m
      <3>1. IsLatest(state.idx, i) /\ HasSet(state.idx)
        BY <2>3 DEF About, IsLatest, HasSet
      <3>2. i = chunk.set
        BY <1>1, <1>2, <3>1, LatestIs, OneLatest
      <3> QED
        BY <1>2, <1>3, <1>6, <2>3, <3>2 DEF AddedAt, AtEnd
    <2> QED
      BY <1>1, <1>3, <1>4, <2>1, <2>2, <2>3, WaitsOn
  <1> QED
    BY <1>1, <1>7

LEMMA OtherPending ==
    ASSUME Base, PendingInv, OtherNodeProduces PROVE PendingInv'
  <1> SUFFICES ASSUME ~Troubled' PROVE \A i \in DOMAIN sets' : Waits(i)'
    BY DEF PendingInv
  <1>1. /\ done \subseteq next /\ (thrown => thrown')
        /\ \/ thrown'
           \/ next = {"specAgent"}
           \/ next = {"odinAgent"}
           \/ state' = state /\ next \subseteq Workers
              /\ \/ next' = {"curatorAgent"}
                 \/ next' = next /\ done' = done \cup {"qaAgent"}
        /\ UNCHANGED <<sets, streams, project>>
    BY OtherProducesMove DEF Base, SetInv
  <1>2. Last' = Last /\ Numbers' = Numbers
    BY <1>1 DEF Last, Numbers
  <1>3. ~Troubled /\ ~thrown'
    BY <1>1, <1>2, TroubleStays DEF Troubled
  <1>4. \A i : About(i) => About(i)'
    BY <1>1, <1>3 DEF About, Judged, IsLatest, Workers
  <1>5. \A k \in Numbers : SameChunks(k)
    BY <1>1, KeptChunks
  <1>6. ASSUME NEW i \in DOMAIN sets PROVE Waits(i)'
    <2>1. Waits(i)
      BY <1>3 DEF PendingInv
    <2> QED
      BY <1>1, <1>2, <1>4, <1>5, <2>1, WaitsOn DEF SameChunks
  <1> QED
    BY <1>1, <1>6

LEMMA AnswerPending ==
    ASSUME Base, PendingInv, Answer PROVE PendingInv'
  <1> SUFFICES ASSUME ~Troubled' PROVE \A i \in DOMAIN sets' : Waits(i)'
    BY DEF PendingInv
  <1>1. /\ Last' = Last + 1 /\ (\A k \in Numbers : streams'[k] = streams[k]) /\ Last \in Nat
        /\ (\E n \in Checkpoints : next = {n}) /\ thrown' = thrown /\ done = {}
        /\ UNCHANGED <<sets, project>>
    BY LastPositive, AnswerMovesOn DEF Base
  <1>2. \A k \in Numbers : k \in Numbers'
    BY <1>1 DEF Numbers
  <1>3. ~Troubled
    BY <1>1, <1>2, TroubleStays
  <1>4. ~Judged
    BY <1>1 DEF Judged, Checkpoints
  <1>5. \A k \in Numbers : SameChunks(k)
    BY <1>1, KeptChunks
  <1>6. ASSUME NEW i \in DOMAIN sets PROVE Waits(i)'
    <2>1. Waits(i) /\ ~About(i)
      BY <1>3, <1>4 DEF PendingInv, About
    <2> QED
      BY <1>1, <1>2, <1>5, <2>1, WaitsOn DEF SameChunks
  <1> QED
    BY <1>1, <1>6

\* Where a chunk is after the one before it was taken from stream k.
LEMMA AfterTaken ==
    ASSUME NEW k, Shifted(k), NEW n, n # 1, NEW i
    PROVE  /\ IsFront(k, n, i) => n \in Nat /\ \E m : m \in Nat /\ n = m + 1 /\ IsFront(k, m, i)'
           /\ IsVerdict(k, n, i) => n \in Nat /\ \E m : m \in Nat /\ n = m + 1 /\ IsVerdict(k, m, i)'
  <1>1. PICK m : m = n - 1
    OBVIOUS
  <1>2. ASSUME IsFront(k, n, i) PROVE n \in Nat \ {0} /\ IsFront(k, m, i)'
    BY <1>1, <1>2 DEF Shifted
  <1>3. ASSUME IsVerdict(k, n, i) PROVE n \in Nat \ {0} /\ IsVerdict(k, m, i)'
    BY <1>1, <1>3 DEF Shifted
  <1>4. n \in Nat \ {0} => m \in Nat /\ n = m + 1
    BY <1>1
  <1> QED
    BY <1>2, <1>3, <1>4

\* The consumer reads a chunk, of another set or a verdict it acts on.
LEMMA TakenWaits ==
    ASSUME Base, NEW k, Taken(k), NEW i, Waits(i), About(i)' <=> About(i),
           sets'[i].status = sets[i].status, project' = project,
           ~IsFront(k, 1, i),
           IsVerdict(k, 1, i) /\ sets[i].status = "proposed" =>
              AtWork(k, i)' /\ streams'[k].job.kind = "judge"
    PROVE  Waits(i)'
  <1>1. /\ k \in Numbers /\ Shifted(k) /\ Last' = Last /\ Numbers' = Numbers /\ streams[k].job = NoJob
        /\ \A l \in Numbers : l # k => SameChunks(l) /\ streams'[l].job = streams[l].job
    BY TakenChunks DEF Base, Taken, Consuming, Others, Numbers
  <1>2. ASSUME NewsWaits(i) PROVE NewsWaits(i)'
    <2>1. PICK l, n : /\ l \in Numbers /\ IsFront(l, n, i)
                      /\ (\E m : n < m /\ IsVerdict(l, m, i)) \/ (l = Last /\ About(i))
      BY <1>2 DEF NewsWaits
    <2>2. CASE l # k
      <3>1. l \in Numbers' /\ IsFront(l, n, i)' /\ \A m : IsVerdict(l, m, i) => IsVerdict(l, m, i)'
        BY <1>1, <2>1, <2>2 DEF SameChunks
      <3>2. (\E m : n < m /\ IsVerdict(l, m, i)') \/ (l = Last' /\ About(i)')
        BY <1>1, <2>1, <3>1
      <3> QED
        BY <3>1, <3>2 DEF NewsWaits
    <2>3. CASE l = k
      <3>1. PICK p : p \in Nat /\ n = p + 1 /\ IsFront(l, p, i)'
        <4>1. n # 1
          BY <2>1, <2>3
        <4> QED
          BY <1>1, <2>1, <2>3, <4>1, AfterTaken
      <3>3. ASSUME NEW m, n < m, IsVerdict(l, m, i) PROVE NewsWaits(i)'
        <4>1. m \in Nat
          BY <2>1, <3>3, NamesSets
        <4>2. m # 1
          BY <3>1, <3>3, <4>1
        <4>3. PICK q : q \in Nat /\ m = q + 1 /\ IsVerdict(l, q, i)'
          BY <1>1, <2>3, <3>3, <4>2, AfterTaken
        <4>4. p < q
          BY <3>1, <3>3, <4>3
        <4> QED
          BY <1>1, <2>1, <2>3, <3>1, <4>3, <4>4 DEF NewsWaits
      <3>4. CASE l = Last /\ About(i)
        BY <1>1, <2>1, <2>3, <3>1, <3>4 DEF NewsWaits
      <3> QED
        BY <2>1, <3>3, <3>4
    <2> QED
      BY <2>2, <2>3
  <1>3. ASSUME VerdictWaits(i), sets[i].status = "proposed" PROVE VerdictWaits(i)'
    <2>1. PICK l \in Numbers : \/ AtWork(l, i) /\ streams[l].job.kind = "judge"
                               \/ \E m : IsVerdict(l, m, i)
                               \/ l = Last /\ About(i)
      BY <1>3 DEF VerdictWaits
    <2>2. CASE AtWork(l, i) /\ streams[l].job.kind = "judge"
      BY <1>1, <2>2 DEF VerdictWaits, AtWork
    <2>3. ASSUME NEW m, IsVerdict(l, m, i) PROVE VerdictWaits(i)'
      <3>1. CASE l # k
        <4>1. l \in Numbers' /\ IsVerdict(l, m, i)'
          BY <1>1, <2>3, <3>1 DEF SameChunks
        <4> QED
          BY <4>1 DEF VerdictWaits
      <3>2. CASE l = k /\ m = 1
        <4>1. IsVerdict(k, 1, i)
          BY <2>3, <3>2
        <4>2. k \in Numbers' /\ AtWork(k, i)' /\ streams'[k].job.kind = "judge"
          BY <1>1, <1>3, <4>1
        <4> QED
          BY <4>2 DEF VerdictWaits
      <3>3. CASE l = k /\ m # 1
        <4>1. PICK q : IsVerdict(l, q, i)'
          BY <1>1, <2>3, <3>3, AfterTaken
        <4> QED
          BY <1>1, <4>1 DEF VerdictWaits
      <3> QED
        BY <3>1, <3>2, <3>3
    <2>4. CASE l = Last /\ About(i)
      BY <1>1, <2>4 DEF VerdictWaits
    <2> QED
      BY <2>1, <2>2, <2>3, <2>4
  <1>4. ApplyWaits(i) => ApplyWaits(i)'
    <2>1. \A l \in Numbers : AtWork(l, i) => l # k
      BY <1>1 DEF AtWork
    <2> QED
      BY <1>1, <2>1 DEF ApplyWaits, AtWork
  <1> QED
    BY <1>2, <1>3, <1>4 DEF Waits

LEMMA RecordPending ==
    ASSUME Base, NewsInv, PendingInv, NEW k, RecordSet(k) PROVE PendingInv'
  <1> SUFFICES ASSUME ~Troubled' PROVE \A i \in DOMAIN sets' : Waits(i)'
    BY DEF PendingInv
  <1>1. /\ Taken(k) /\ RunTypes /\ RunTypes' /\ UNCHANGED graphVars /\ project' = project /\ thrown' = thrown
        /\ Head(streams[k].queue).node = "front" /\ Head(streams[k].queue).set \in DOMAIN sets
    BY FrontNamesSet, RecordSetMove DEF Base, graphVars
  <1>2. PICK i0 \in DOMAIN sets : i0 = Head(streams[k].queue).set
    BY <1>1
  <1>3. PICK status \in {"applied", "proposed"} : StatusOnly(i0, status)
    BY <1>2, FrontNamesSet, RecordSetMove DEF Base
  <1>4. /\ k \in Numbers /\ Shifted(k) /\ Last' = Last /\ Numbers' = Numbers
        /\ ~streams[k].broken /\ ~streams'[k].broken /\ Others(k)
        /\ \A l \in Numbers : l # k => SameChunks(l) /\ streams'[l].job = streams[l].job
        /\ IsFront(k, 1, i0) /\ \A i : ~IsVerdict(k, 1, i)
    <2>1. /\ Shifted(k) /\ \A l \in Numbers : l # k => SameChunks(l) /\ streams'[l].job = streams[l].job
          /\ IsFront(k, 1, i0)
      BY <1>1, <1>2, TakenChunks
    <2>2. \A i : ~IsVerdict(k, 1, i)
      BY <2>1 DEF IsFront, IsVerdict
    <2> QED
      BY <1>1, <2>1, <2>2 DEF Taken, Consuming, Others, Numbers
  <1>5. ~Troubled
    BY <1>1, <1>4, TroubleStays DEF Others
  <1>6. /\ \A i : About(i)' <=> About(i)
        /\ DOMAIN sets' = DOMAIN sets
        /\ \A i \in DOMAIN sets : sets'[i].status = IF i = i0 THEN status ELSE sets[i].status
    <2>1. \A i : About(i)' <=> About(i)
      BY <1>1, <1>3, AboutStays
    <2> QED
      BY <1>1, <1>3, <2>1 DEF StatusOnly, RunTypes
  <1>7. ASSUME NEW i \in DOMAIN sets, i # i0 PROVE Waits(i)'
    <2>1. Waits(i)
      BY <1>5 DEF PendingInv
    <2>2. ~IsFront(k, 1, i)
      BY <1>4, <1>7 DEF IsFront
    <2> QED
      BY <1>1, <1>4, <1>6, <1>7, <2>1, <2>2, TakenWaits
  <1>8. Waits(i0)'
    <2>1. NewsWaits(i0)
      BY <1>4, <1>5 DEF PendingInv, Waits, NewsInv
    <2>2. (\E m : 1 < m /\ IsVerdict(k, m, i0)) \/ (k = Last /\ About(i0))
      BY <1>4, <2>1 DEF NewsWaits, NewsInv
    <2>3. ASSUME NEW m, 1 < m, IsVerdict(k, m, i0) PROVE VerdictWaits(i0)'
      <3>1. m # 1
        BY <1>4, <2>3
      <3>2. PICK q : IsVerdict(k, q, i0)'
        BY <1>4, <2>3, <3>1, AfterTaken
      <3> QED
        BY <1>4, <3>2 DEF VerdictWaits
    <2>4. ASSUME k = Last, About(i0) PROVE VerdictWaits(i0)'
      BY <1>4, <1>6, <2>4 DEF VerdictWaits
    <2>5. VerdictWaits(i0)'
      BY <2>2, <2>3, <2>4
    <2> QED
      BY <1>6, <2>5 DEF Waits
  <1> QED
    BY <1>6, <1>7, <1>8

LEMMA VerdictPending ==
    ASSUME Base, PendingInv, NEW k, TakeVerdict(k) PROVE PendingInv'
  <1> SUFFICES ASSUME ~Troubled' PROVE \A i \in DOMAIN sets' : Waits(i)'
    BY DEF PendingInv
  <1>1. /\ Taken(k) /\ RunTypes /\ RunTypes' /\ UNCHANGED graphVars /\ project' = project /\ thrown' = thrown
        /\ Head(streams[k].queue).node = "curator" /\ sets' = sets
        /\ streams'[k].job = JobFor(FindProposed(Head(streams[k].queue).set), Head(streams[k].queue).passed)
    BY TakeVerdictMove DEF Base, graphVars
  <1>2. /\ k \in Numbers /\ ~streams[k].broken /\ ~streams'[k].broken /\ Others(k) /\ Last' = Last /\ Numbers' = Numbers
    BY <1>1 DEF Taken, Consuming, Others, Numbers
  <1>3. IsVerdict(k, 1, Head(streams[k].queue).set)
    BY <1>1, TakenChunks
  <1>4. ~Troubled
    BY <1>1, <1>2, TroubleStays DEF Others
  <1>5. ASSUME NEW i \in DOMAIN sets PROVE Waits(i)'
    <2>1. Waits(i) /\ i # 0
      BY <1>1, <1>4 DEF PendingInv, RunTypes
    <2>2. ~IsFront(k, 1, i)
      BY <1>3 DEF IsFront, IsVerdict
    <2>3. ASSUME IsVerdict(k, 1, i), sets[i].status = "proposed"
          PROVE  AtWork(k, i)' /\ streams'[k].job.kind = "judge"
      <3>1. Head(streams[k].queue).set = i
        BY <1>3, <2>3 DEF IsVerdict
      <3>2. streams'[k].job = [kind |-> "judge", set |-> i, passed |-> Head(streams[k].queue).passed]
        BY <1>1, <2>1, <2>3, <3>1 DEF JobFor, FindProposed
      <3>3. streams'[k].job.kind = "judge" /\ streams'[k].job.set = i /\ streams'[k].job # NoJob
        BY <3>2 DEF NoJob
      <3> QED
        BY <3>3 DEF AtWork
    <2>4. About(i)' <=> About(i)
      BY <1>1, AboutStays
    <2> QED
      BY <1>1, <2>1, <2>2, <2>3, <2>4, TakenWaits
  <1> QED
    BY <1>1, <1>5

\* A job's step: the queues stay, and other sets' jobs do.
LEMMA JobWaits ==
    ASSUME Base, NEW k \in Numbers, Others(k), streams'[k].queue = streams[k].queue, project' = project,
           NEW i, Waits(i), About(i)' <=> About(i), sets'[i].status = sets[i].status,
           AtWork(k, i) => streams'[k].job = streams[k].job
    PROVE  Waits(i)'
  <1>1. /\ Last' = Last /\ Numbers' = Numbers
        /\ \A l \in Numbers : SameChunks(l)
        /\ \A l \in Numbers : l # k => streams'[l].job = streams[l].job
    BY KeptChunks, OtherChunks DEF Others, Numbers
  <1>2. NewsWaits(i) => NewsWaits(i)'
    BY <1>1 DEF NewsWaits, SameChunks
  <1>3. \A l \in Numbers : AtWork(l, i) => AtWork(l, i)' /\ streams'[l].job = streams[l].job
    BY <1>1 DEF AtWork
  <1>4. ASSUME VerdictWaits(i) PROVE VerdictWaits(i)'
    <2>1. PICK l \in Numbers : \/ AtWork(l, i) /\ streams[l].job.kind = "judge"
                               \/ \E m : IsVerdict(l, m, i)
                               \/ l = Last /\ About(i)
      BY <1>4 DEF VerdictWaits
    <2>2. CASE AtWork(l, i) /\ streams[l].job.kind = "judge"
      BY <1>1, <1>3, <2>2 DEF VerdictWaits
    <2>3. CASE \E m : IsVerdict(l, m, i)
      BY <1>1, <2>3 DEF VerdictWaits, SameChunks
    <2>4. CASE l = Last /\ About(i)
      BY <1>1, <2>4 DEF VerdictWaits
    <2> QED
      BY <2>1, <2>2, <2>3, <2>4
  <1>5. ApplyWaits(i) => ApplyWaits(i)'
    BY <1>1, <1>3 DEF ApplyWaits
  <1> QED
    BY <1>2, <1>4, <1>5 DEF Waits

LEMMA JudgePending ==
    ASSUME Base, PendingInv, NEW k, Judge(k) PROVE PendingInv'
  <1> SUFFICES ASSUME ~Troubled' PROVE \A i \in DOMAIN sets' : Waits(i)'
    BY DEF PendingInv
  <1> DEFINE job == streams[k].job
  <1>1. /\ RunTypes /\ RunTypes' /\ k \in Numbers /\ Others(k) /\ job.kind = "judge"
        /\ streams'[k].queue = streams[k].queue /\ streams'[k].broken = streams[k].broken
        /\ StatusOnly(job.set, IF job.passed THEN "curator_approved" ELSE "curator_rejected")
        /\ streams'[k].job = IF job.passed /\ project
                             THEN [kind |-> "apply", set |-> job.set, passed |-> TRUE] ELSE NoJob
        /\ UNCHANGED graphVars /\ project' = project /\ thrown' = thrown
    BY JudgeMove DEF Base, graphVars
  <1>2. /\ Last' = Last /\ Numbers' = Numbers /\ ~Troubled
    BY <1>1, TroubleStays DEF Others, Numbers
  <1>3. /\ \A i : About(i)' <=> About(i)
        /\ DOMAIN sets' = DOMAIN sets
        /\ \A i \in DOMAIN sets : i # job.set => sets'[i].status = sets[i].status
        /\ \A i \in DOMAIN sets : i = job.set =>
             sets'[i].status = IF job.passed THEN "curator_approved" ELSE "curator_rejected"
    <2>1. \A i : About(i)' <=> About(i)
      BY <1>1, AboutStays
    <2> QED
      BY <1>1, <2>1 DEF StatusOnly, RunTypes
  <1>4. ASSUME NEW i \in DOMAIN sets, i # job.set PROVE Waits(i)'
    <2>1. Waits(i) /\ ~AtWork(k, i)
      BY <1>2, <1>4 DEF PendingInv, AtWork
    <2> QED
      BY <1>1, <1>3, <1>4, <2>1, JobWaits
  <1>5. ASSUME NEW i \in DOMAIN sets, i = job.set PROVE Waits(i)'
    <2>1. sets'[i].status # "curator_approved" \/ job.passed
      BY <1>3, <1>5
    <2>2. ASSUME job.passed, project PROVE ApplyWaits(i)'
      <3>1. streams'[k].job = [kind |-> "apply", set |-> i, passed |-> TRUE]
        BY <1>1, <1>5, <2>2
      <3>2. AtWork(k, i)' /\ streams'[k].job.kind = "apply"
        BY <3>1 DEF AtWork, NoJob
      <3> QED
        BY <1>1, <1>2, <3>2 DEF ApplyWaits
    <2>3. sets'[i].status \in {"curator_approved", "curator_rejected"}
      BY <1>3, <1>5
    <2> QED
      BY <1>1, <2>1, <2>2, <2>3 DEF Waits
  <1> QED
    BY <1>3, <1>4, <1>5

LEMMA FinishPending ==
    ASSUME Base, PendingInv, NEW k, NEW delivered \in BOOLEAN, ApplyFinishes(k, delivered) PROVE PendingInv'
  <1> SUFFICES ASSUME ~Troubled' PROVE \A i \in DOMAIN sets' : Waits(i)'
    BY DEF PendingInv
  <1>1. /\ RunTypes /\ RunTypes' /\ k \in Numbers /\ Others(k)
        /\ streams'[k].queue = streams[k].queue /\ streams'[k].broken = streams[k].broken
        /\ StatusOnly(streams[k].job.set, IF delivered THEN "applied" ELSE "failed")
        /\ UNCHANGED graphVars /\ project' = project /\ thrown' = thrown
    BY ApplyFinishesMove DEF Base, graphVars
  <1>2. ~Troubled
    BY <1>1, TroubleStays DEF Others, Numbers
  <1>3. /\ \A i : About(i)' <=> About(i)
        /\ DOMAIN sets' = DOMAIN sets
        /\ \A i \in DOMAIN sets : i # streams[k].job.set => sets'[i].status = sets[i].status
        /\ \A i \in DOMAIN sets : i = streams[k].job.set => sets'[i].status \in {"applied", "failed"}
    <2>1. \A i : About(i)' <=> About(i)
      BY <1>1, AboutStays
    <2> QED
      BY <1>1, <2>1 DEF StatusOnly, RunTypes
  <1>4. ASSUME NEW i \in DOMAIN sets, i # streams[k].job.set PROVE Waits(i)'
    <2>1. Waits(i) /\ ~AtWork(k, i)
      BY <1>2, <1>4 DEF PendingInv, AtWork
    <2> QED
      BY <1>1, <1>3, <1>4, <2>1, JobWaits
  <1>5. ASSUME NEW i \in DOMAIN sets, i = streams[k].job.set PROVE Waits(i)'
    BY <1>3, <1>5 DEF Waits
  <1> QED
    BY <1>3, <1>4, <1>5

\* The end of a loop: no chunk is left unread unless something threw.
LEMMA EndPending ==
    ASSUME Base, PendingInv, NEW k, Snapshot(k) \/ SaveState(k) PROVE PendingInv'
  <1> SUFFICES ASSUME ~Troubled' PROVE \A i \in DOMAIN sets' : Waits(i)'
    BY DEF PendingInv
  <1>1. /\ RunTypes /\ k \in Numbers /\ Others(k)
        /\ streams'[k].broken = streams[k].broken /\ streams'[k].job = streams[k].job
        /\ Snapshot(k) => LoopOver(k) /\ streams'[k].queue = <<>>
        /\ ~Snapshot(k) => streams'[k].queue = streams[k].queue
        /\ UNCHANGED graphVars /\ project' = project /\ thrown' = thrown /\ sets' = sets
    <2>1. CASE Snapshot(k)
      BY <2>1, SnapshotMove DEF Base, LoopOver, graphVars
    <2>2. CASE SaveState(k) /\ ~Snapshot(k)
      <3>1. k \in Numbers /\ streams[k].snapshot # "none"
        BY <2>2 DEF SaveState, Numbers, Base, StreamInv, StreamOK
      <3> QED
        BY <2>2, <3>1, SaveStateMove DEF Base, graphVars
    <2> QED
      BY <2>1, <2>2
  <1>2. ~Troubled
    BY <1>1, TroubleStays DEF Others, Numbers
  <1>3. streams'[k].queue = streams[k].queue
    BY <1>1, <1>2 DEF LoopOver, Exhausted, Troubled
  <1>4. ASSUME NEW i \in DOMAIN sets PROVE Waits(i)'
    <2>1. Waits(i) /\ (About(i)' <=> About(i))
      BY <1>1, <1>2 DEF PendingInv, About, Judged, IsLatest, graphVars
    <2> QED
      BY <1>1, <1>3, <2>1, JobWaits
  <1> QED
    BY <1>1, <1>4

LEMMA ConsumePending ==
    ASSUME Base, NewsInv, PendingInv, NEW k \in 1 .. MaxStreams, Delivers(k) PROVE PendingInv'
  <1>1. ASSUME LoopThrows(k) PROVE PendingInv'
    <2>1. k \in Numbers /\ Others(k) /\ streams'[k].broken
      BY <1>1, LoopThrowsMove DEF Base
    <2> QED
      BY <2>1 DEF PendingInv, Troubled, Others, Numbers
  <1> QED
    BY <1>1, RecordPending, VerdictPending, JudgePending, FinishPending, EndPending DEF Delivers, Consume

LEMMA StepPending == Base /\ NewsInv /\ PendingInv /\ [Next]_vars => PendingInv'
  <1> SUFFICES ASSUME Base, NewsInv, PendingInv, [Next]_vars PROVE PendingInv'
    OBVIOUS
  <1>1. CASE UNCHANGED vars
    BY <1>1 DEF vars, graphVars, PendingInv, Troubled, Waits, NewsWaits, VerdictWaits, ApplyWaits, About,
                Judged, IsLatest, IsFront, IsVerdict, AtWork, Numbers, Last
  <1> QED
    BY <1>1, FrontPending, CuratorPending, OtherPending, AnswerPending, ConsumePending DEF Next, Delivers, Produce

DecidedInv == NewsInv /\ PendingInv

LEMMA DecidedInvariance == Spec => [](Base /\ DecidedInv)
  <1>1. Init => NewsInv /\ PendingInv
    BY DEF Init, NewsInv, PendingInv, IsFront, AtWork, Numbers, Last, OpenStream
  <1> QED
    BY <1>1, InitBase, StepBase, StepNews, StepPending, PTL DEF Spec, DecidedInv

\* The curator's verdict reaches every change set and every approved one is applied or reported
\* as failed before the streams of a run are over, unless an agent or an applier threw.
THEOREM SetsAreDecided == Spec => []EverySetDecided
  <1>1. ASSUME Base, DecidedInv PROVE EverySetDecided
    <2> SUFFICES ASSUME AllClosed, ~Troubled, NEW i \in DOMAIN sets
                 PROVE  /\ sets[i].status \notin {"produced", "proposed"}
                        /\ project => sets[i].status # "curator_approved"
      BY DEF EverySetDecided, Troubled, Numbers
    <2>1. Waits(i)
      BY <1>1 DEF DecidedInv, PendingInv
    <2>2. \A k \in Numbers : streams[k].queue = <<>> /\ streams[k].job = NoJob
      BY <1>1 DEF AllClosed, Numbers, Base, StreamInv, StreamOK, Over
    <2>3. \A k \in Numbers : \A n : ~IsFront(k, n, i) /\ ~IsVerdict(k, n, i) /\ ~AtWork(k, i)
      BY <2>2 DEF IsFront, IsVerdict, AtWork
    <2>4. ~About(i)
      <3>1. ~G!Working
        BY <1>1, LastPositive DEF AllClosed, Numbers, Base, StreamInv, Attended, Troubled
      <3>2. CASE Judged
        <4>1. next \ Checkpoints # {} /\ ~thrown
          BY <1>1, <3>2 DEF Judged, Base, SetInv, Checkpoints, Troubled
        <4> QED
          BY <3>1, <4>1 DEF G!Working, G!Live, G!Checkpoints, Checkpoints
      <3> QED
        BY <3>2 DEF About
    <2> QED
      BY <2>1, <2>3, <2>4 DEF Waits, NewsWaits, VerdictWaits, ApplyWaits
  <1> QED
    BY <1>1, DecidedInvariance, PTL

-----------------------------------------------------------------------------
(* The modes that edit a project: a story with a change set goes back to the front agent until it
   passes, and so a set is judged once. *)

Code == state.mode \in CodeModes

RouteInv ==
    /\ Code => project
    /\ Code /\ HasSet(state.idx) =>
         /\ next \cap Workers # {} => "frontAgent" \in next
         /\ next \cap Workers = {} /\ next # {"curatorAgent"} =>
              ~state.feedback[state.idx].passed /\ state.feedback[state.idx].fixTarget = "front"

\* The stories of the sets stay.
LEMMA HasSetStays ==
    ASSUME RunTypes, UNCHANGED sets \/ \E i, status : StatusOnly(i, status), RunTypes'
    PROVE  \A u : HasSet(u)' <=> HasSet(u)
  <1>1. DOMAIN sets' = DOMAIN sets /\ \A j \in DOMAIN sets : sets'[j].story = sets[j].story
    BY DEF StatusOnly, RunTypes
  <1> QED
    BY <1>1 DEF HasSet

\* No set is of a story whose turn is still to come.
LEMMA NoSetYet ==
    ASSUME Base, NEW u, u = state.idx + 1 PROVE ~HasSet(u)
  <1>1. state.idx \in Nat /\ \A i \in DOMAIN sets : sets[i].story \in Nat
    BY StoryNumbers
  <1> QED
    BY <1>1 DEF HasSet, Base, SetInv

LEMMA ProduceRoute == ASSUME Base, RouteInv, Produce PROVE RouteInv'
  <1>0. RunTypes /\ GraphInv /\ SetInv /\ Last \in Nat \ {0}
    BY LastPositive DEF Base
  <1>1. CASE FrontProduces
    <2>1. /\ "frontAgent" \in next /\ next \subseteq Workers /\ state'.mode = state.mode /\ project' = project
          /\ next' = {"curatorAgent"} \/ next' = next
      BY <1>0, <1>1, FrontProducesMove
    <2> QED
      BY <2>1 DEF RouteInv, Code, Workers
  <1>2. CASE CuratorProduces
    <2>1. /\ state.idx \in Stories /\ state'.mode = state.mode /\ project' = project /\ sets' = sets
          /\ state'.idx = state.idx \/ state'.idx = state.idx + 1
          /\ next' \cap Workers = {}
          /\ state.mode \in CodeModes /\ state.front[state.idx] # "none" =>
               /\ state'.feedback[state.idx].passed => state'.idx = state.idx + 1
               /\ ~state'.feedback[state.idx].passed => state'.feedback[state.idx].fixTarget = "front"
      BY <1>0, <1>2, CuratorProducesMove
    <2>2. \A u : HasSet(u)' <=> HasSet(u)
      BY <2>1 DEF HasSet
    <2>3. state.idx # state.idx + 1
      BY <2>1 DEF Stories
    <2>4. CASE state'.idx = state.idx
      <3>1. HasSet(state.idx) => state.front[state.idx] # "none"
        BY <1>0, <2>1 DEF SetInv
      <3>2. ASSUME Code, HasSet(state.idx)
            PROVE  ~state'.feedback[state.idx].passed /\ state'.feedback[state.idx].fixTarget = "front"
        BY <2>1, <2>3, <2>4, <3>1, <3>2 DEF Code
      <3>3. \A u : u = state.idx => (HasSet(u)' <=> HasSet(u))
        BY <2>2
      <3>4. HasSet(state.idx)' => HasSet(state.idx)
        BY <2>1, <2>4 DEF HasSet
      <3> QED
        BY <2>1, <2>4, <3>2, <3>4 DEF RouteInv, Code
    <2>5. CASE state'.idx = state.idx + 1
      <3>1. ~HasSet(state.idx)'
        BY <2>1, <2>5, NoSetYet DEF HasSet
      <3> QED
        BY <2>1, <3>1 DEF RouteInv, Code
    <2> QED
      BY <2>1, <2>4, <2>5
  <1>3. CASE OtherNodeProduces
    <2>1. /\ state'.mode = state.mode /\ state'.feedback = state.feedback /\ project' = project /\ sets' = sets
          /\ state'.idx = state.idx \/ state.mode = "spec_generation"
          /\ \/ UNCHANGED <<state, next>>
             \/ next = {"specAgent"} /\ next' \cap Workers = {}
             \/ next = {"odinAgent"} /\ next' \subseteq Workers
                /\ (~state.feedback[state.idx].passed /\ state.feedback[state.idx].fixTarget = "front" =>
                       next' \in {{}, {"frontAgent"}})
             \/ state' = state /\ (next' = {"curatorAgent"} \/ next' = next)
      BY <1>0, <1>3, OtherProducesMove
    <2>2. Code => state.mode # "spec_generation"
      BY DEF Code, CodeModes
    <2>3. Code /\ HasSet(state.idx)' => Code /\ state'.idx = state.idx /\ HasSet(state.idx)
      BY <2>1, <2>2 DEF HasSet
    <2>4. CASE next = {"specAgent"} /\ next' \cap Workers = {}
      <3>1. next \cap Workers = {} /\ next # {"curatorAgent"}
        BY <2>4 DEF Workers
      <3> QED
        BY <2>1, <2>3, <2>4, <3>1 DEF RouteInv, Code
    <2>5. CASE /\ next = {"odinAgent"} /\ next' \subseteq Workers
               /\ (~state.feedback[state.idx].passed /\ state.feedback[state.idx].fixTarget = "front" =>
                      next' \in {{}, {"frontAgent"}})
      <3>1. next \cap Workers = {} /\ next # {"curatorAgent"}
        BY <2>5 DEF Workers
      <3> QED
        BY <2>1, <2>3, <2>5, <3>1 DEF RouteInv, Code, Workers
    <2>6. CASE UNCHANGED <<state, next>> \/ (state' = state /\ (next' = {"curatorAgent"} \/ next' = next))
      <3>1. {"curatorAgent"} \cap Workers = {}
        BY DEF Workers
      <3> QED
        BY <2>1, <2>3, <2>6, <3>1 DEF RouteInv, Code
    <2> QED
      BY <2>1, <2>4, <2>5, <2>6
  <1> QED
    BY <1>1, <1>2, <1>3 DEF Produce

LEMMA AnswerRoute == ASSUME Base, RouteInv, Answer PROVE RouteInv'
  <1>1. /\ (\E n \in Checkpoints : next = {n}) /\ state'.mode = state.mode /\ state'.feedback = state.feedback
        /\ state'.idx = state.idx \/ state'.idx = state.idx + 1
        /\ next' \in {{}, {"odinAgent"}} /\ sets' = sets /\ project' = project
    BY LastPositive, AnswerMovesOn DEF Base
  <1>2. next \cap Workers = {} /\ next # {"curatorAgent"} /\ next' \cap Workers = {}
    BY <1>1 DEF Workers, Checkpoints
  <1>3. CASE state'.idx = state.idx
    <2>1. HasSet(state.idx)' => HasSet(state.idx)
      BY <1>1, <1>3 DEF HasSet
    <2> QED
      BY <1>1, <1>2, <1>3, <2>1 DEF RouteInv, Code
  <1>4. CASE state'.idx = state.idx + 1
    <2>1. ~HasSet(state.idx)'
      BY <1>1, <1>4, NoSetYet DEF HasSet
    <2> QED
      BY <1>1, <2>1 DEF RouteInv, Code
  <1> QED
    BY <1>1, <1>3, <1>4

\* What every step of a consumer has in common.
LEMMA ConsumeKeeps ==
    ASSUME Base, NEW k \in 1 .. MaxStreams, Delivers(k)
    PROVE  /\ RunTypes /\ RunTypes' /\ k \in Numbers /\ Others(k) /\ Last' = Last /\ Numbers' = Numbers
           /\ UNCHANGED <<state, next, done, thrown, accepted, stopped, attempts, project, overlap>>
           /\ UNCHANGED sets \/ \E i \in DOMAIN sets : \E status : StatusOnly(i, status)
  <1>0. RunTypes /\ RunTypes' /\ GraphInv
    BY ConsumeBase DEF Base
  <1>1. CASE RecordSet(k)
    <2>1. /\ Taken(k) /\ Head(streams[k].queue).set \in DOMAIN sets
          /\ \E status : StatusOnly(Head(streams[k].queue).set, status)
          /\ UNCHANGED <<graphVars, project, overlap>>
      BY <1>0, <1>1, FrontNamesSet, RecordSetMove
    <2> QED
      BY <1>0, <2>1 DEF Taken, Consuming, Others, Numbers, graphVars
  <1>2. CASE TakeVerdict(k)
    <2>1. Taken(k) /\ UNCHANGED <<graphVars, project, overlap, sets>>
      BY <1>0, <1>2, TakeVerdictMove
    <2> QED
      BY <1>0, <2>1 DEF Taken, Consuming, Others, Numbers, graphVars
  <1>3. CASE Judge(k)
    <2>1. /\ k \in Numbers /\ Others(k) /\ UNCHANGED <<graphVars, project, overlap>>
          /\ streams[k].job.set \in DOMAIN sets /\ \E status : StatusOnly(streams[k].job.set, status)
      BY <1>0, <1>3, JudgeMove
    <2> QED
      BY <1>0, <2>1 DEF Others, Numbers, graphVars
  <1>4. ASSUME NEW delivered \in BOOLEAN, ApplyFinishes(k, delivered)
        PROVE  /\ k \in Numbers /\ Others(k) /\ UNCHANGED <<graphVars, project, overlap>>
               /\ \E i \in DOMAIN sets : \E status : StatusOnly(i, status)
    <2>1. /\ k \in Numbers /\ Others(k) /\ UNCHANGED <<graphVars, project, overlap>>
          /\ streams[k].job.set \in DOMAIN sets /\ \E status : StatusOnly(streams[k].job.set, status)
      BY <1>0, <1>4, ApplyFinishesMove
    <2> QED
      BY <2>1
  <1>5. CASE LoopThrows(k)
    <2>1. k \in Numbers /\ Others(k) /\ UNCHANGED <<graphVars, project, overlap, sets>>
      BY <1>0, <1>5, LoopThrowsMove
    <2> QED
      BY <1>0, <2>1 DEF Others, Numbers, graphVars
  <1>6. CASE Snapshot(k)
    <2>1. k \in Numbers /\ Others(k) /\ UNCHANGED <<graphVars, project, overlap, sets>>
      BY <1>0, <1>6, SnapshotMove DEF LoopOver
    <2> QED
      BY <1>0, <2>1 DEF Others, Numbers, graphVars
  <1>7. CASE SaveState(k)
    <2>1. k \in Numbers /\ streams[k].snapshot # "none"
      BY <1>7 DEF SaveState, Numbers, Base, StreamInv, StreamOK
    <2>2. Others(k) /\ UNCHANGED <<graphVars, project, overlap, sets>>
      BY <1>0, <1>7, <2>1, SaveStateMove
    <2> QED
      BY <1>0, <2>1, <2>2 DEF Others, Numbers, graphVars
  <1>8. CASE \E delivered \in BOOLEAN : ApplyFinishes(k, delivered)
    BY <1>0, <1>4, <1>8 DEF Others, Numbers, graphVars
  <1> QED
    BY <1>1, <1>2, <1>3, <1>5, <1>6, <1>7, <1>8 DEF Delivers, Consume

LEMMA StepRoute == Base /\ RouteInv /\ [Next]_vars => RouteInv'
  <1> SUFFICES ASSUME Base, RouteInv, [Next]_vars PROVE RouteInv'
    OBVIOUS
  <1>1. ASSUME UNCHANGED <<state, next, project>>, \A u : HasSet(u)' <=> HasSet(u) PROVE RouteInv'
    <2>1. HasSet(state.idx)' => HasSet(state.idx)
      <3>1. PICK u : u = state.idx
        OBVIOUS
      <3>2. state'.idx = u
        BY <1>1, <3>1
      <3>3. HasSet(state.idx)' => HasSet(u)'
        BY <3>2 DEF HasSet
      <3> QED
        BY <1>1, <3>1, <3>3
    <2> QED
      BY <1>1, <2>1 DEF RouteInv, Code
  <1>2. CASE UNCHANGED vars
    BY <1>1, <1>2 DEF vars, graphVars, HasSet
  <1>3. ASSUME NEW k \in 1 .. MaxStreams, Delivers(k) PROVE RouteInv'
    <2>1. /\ RunTypes /\ RunTypes' /\ UNCHANGED <<state, next, project>>
          /\ UNCHANGED sets \/ \E i, status : StatusOnly(i, status)
      BY <1>3, ConsumeKeeps
    <2>2. \A u : HasSet(u)' <=> HasSet(u)
      BY <2>1, HasSetStays
    <2> QED
      BY <1>1, <2>1, <2>2
  <1> QED
    BY <1>2, <1>3, ProduceRoute, AnswerRoute DEF Next, Delivers

\* The verdict on a set: on its way as the chunk at n in stream k, ...
VerdictSent(k, n, i) ==
    /\ ~About(i)
    /\ \A l \in Numbers : \A m : IsVerdict(l, m, i) => l = k /\ m = n
    /\ \A l \in Numbers : ~AtWork(l, i)
    /\ sets[i].status \in {"produced", "proposed", "applied"}
    /\ sets[i].status = "produced" => \E m : m < n /\ IsFront(k, m, i)

\* ... or still to be given.
VerdictDue(i) ==
    /\ \A k \in Numbers : ~AtWork(k, i)
    /\ sets[i].status \in {"produced", "proposed", "applied"}
    /\ sets[i].status = "produced" /\ ~thrown /\ ~streams[Last].broken => \E n : IsFront(Last, n, i)

OnceInv ==
    Code => \A i \in DOMAIN sets :
              /\ \A k \in Numbers : \A n : IsVerdict(k, n, i) => VerdictSent(k, n, i)
              /\ About(i) => VerdictDue(i)

LEMMA FrontOnce ==
    ASSUME Base, OnceInv, FrontProduces PROVE OnceInv'
  <1> DEFINE chunk == [node |-> "front", set |-> Len(sets) + 1, passed |-> FALSE]
  <1>1. /\ Last \in Numbers /\ Last' = Last /\ Numbers' = Numbers /\ Len(sets) \in Nat
        /\ DOMAIN sets = 1 .. Len(sets)
    BY LastPositive, NamesSets, FrontProducesMove DEF Base, Pushed, Others, Numbers
  <1>2. /\ \A j \in DOMAIN sets : sets'[j] = sets[j]
        /\ sets'[Len(sets) + 1].status = "produced"
        /\ Pushed(chunk) /\ RunTypes /\ thrown' = thrown
        /\ "frontAgent" \in next \ done /\ next \subseteq Workers
        /\ state'.idx = state.idx /\ state'.mode = state.mode
    BY LastPositive, FrontProducesMove DEF Base
  <1>3. chunk \in ChunkOf(Len(sets) + 1) /\ chunk.node = "front" /\ chunk.set = Len(sets) + 1
    BY <1>1 DEF ChunkOf
  <1> HIDE DEF chunk
  <1>4. /\ \A k \in Numbers : streams'[k].job = streams[k].job /\ streams'[k].broken = streams[k].broken
        /\ \A k \in Numbers : k # Last \/ streams[Last].broken => SameChunks(k)
        /\ ~streams[Last].broken => \E m : AtEnd(m) /\ AddedAt(m, chunk)
    BY <1>1, <1>2, <1>3, PushedChunks
  <1>5. /\ DOMAIN sets' = DOMAIN sets \cup {Len(sets) + 1} /\ Len(sets) + 1 \notin DOMAIN sets
        /\ \A i : i = Len(sets) + 1 => IsLatest(state.idx, i)'
        /\ RunTypes'
    BY FrontSets, FrontProducesMove, LastPositive DEF Base
  <1>6. \A k \in Numbers : \A n, i : /\ IsFront(k, n, i) => IsFront(k, n, i)'
                                     /\ IsVerdict(k, n, i)' <=> IsVerdict(k, n, i)
    <2>1. CASE streams[Last].broken
      BY <1>4, <2>1 DEF SameChunks
    <2>2. CASE ~streams[Last].broken
      <3>1. PICK m : AddedAt(m, chunk)
        BY <1>4, <2>2
      <3>2. \A n, i : /\ IsFront(Last, n, i) => IsFront(Last, n, i)'
                      /\ IsVerdict(Last, n, i)' <=> IsVerdict(Last, n, i)
        BY <1>3, <3>1 DEF AddedAt
      <3> QED
        BY <1>1, <1>4, <3>2 DEF SameChunks
    <2> QED
      BY <2>1, <2>2
  <1>7. \A i \in DOMAIN sets : ~About(i)'
    <2>1. ASSUME NEW i \in DOMAIN sets, IsLatest(state.idx, i)' PROVE FALSE
      <3>1. PICK u, j : u = state.idx /\ j = Len(sets) + 1
        OBVIOUS
      <3>2. IsLatest(u, i)' /\ IsLatest(u, j)'
        BY <1>2, <1>5, <2>1, <3>1 DEF IsLatest
      <3>3. i \in 1 .. Len(sets) /\ j \in DOMAIN sets' /\ j <= i
        BY <1>1, <3>1, <3>2 DEF IsLatest
      <3> QED
        BY <1>1, <3>1, <3>3
    <2> QED
      BY <2>1 DEF About
  <1>8. ASSUME NEW i \in DOMAIN sets, Code PROVE \A k \in Numbers : \A n : IsVerdict(k, n, i)' => VerdictSent(k, n, i)'
    <2>1. ASSUME NEW k \in Numbers, NEW n, IsVerdict(k, n, i)' PROVE VerdictSent(k, n, i)'
      <3>1. VerdictSent(k, n, i)
        BY <1>6, <1>8, <2>1 DEF OnceInv
      <3>2. \A l \in Numbers : ~AtWork(l, i)'
        BY <1>4, <3>1 DEF VerdictSent, AtWork
      <3> QED
        BY <1>1, <1>2, <1>6, <1>7, <3>1, <3>2 DEF VerdictSent
    <2> QED
      BY <2>1
  <1>9. ASSUME NEW i, i = Len(sets) + 1
        PROVE  (\A k \in Numbers : \A n : ~IsVerdict(k, n, i)') /\ VerdictDue(i)'
    <2>1. i \notin 0 .. Len(sets)
      BY <1>1, <1>9
    <2>2. \A k \in Numbers : \A n : ~IsVerdict(k, n, i)'
      BY <1>6, <2>1, NamesSets
    <2>3. \A k \in Numbers : ~AtWork(k, i)'
      BY <1>1, <1>4, <2>1, NamesSets DEF AtWork
    <2>4. ASSUME ~streams[Last].broken PROVE \E n : IsFront(Last, n, i)'
      BY <1>3, <1>4, <1>9, <2>4 DEF AddedAt
    <2>5. \A k \in Numbers : k = Last => (\E n : IsFront(k, n, i)') \/ streams'[k].broken
      BY <1>1, <1>4, <2>4
    <2> QED
      BY <1>1, <1>2, <1>9, <2>2, <2>3, <2>5 DEF VerdictDue
  <1> QED
    BY <1>1, <1>2, <1>5, <1>7, <1>8, <1>9 DEF OnceInv, Code

LEMMA CuratorOnce ==
    ASSUME Base, OnceInv, CuratorProduces PROVE OnceInv'
  <1>1. /\ Last \in Numbers /\ Len(sets) \in Nat /\ RunTypes /\ SetInv /\ sets' = sets
        /\ state.idx \in Stories /\ state'.mode = state.mode /\ DOMAIN sets = 1 .. Len(sets)
        /\ ~thrown /\ next = {"curatorAgent"} /\ done' = done /\ next' # {"curatorAgent"}
    BY LastPositive, NamesSets, CuratorProducesMove DEF Base
  <1>2. PICK chunk \in ChunkOf(Len(sets)) :
          chunk.node = "curator" /\ chunk.set = LatestSet(state.idx) /\ Pushed(chunk)
    BY LastPositive, CuratorProducesMove DEF Base
  <1>3. /\ Last' = Last /\ Numbers' = Numbers
        /\ \A k \in Numbers : streams'[k].job = streams[k].job /\ streams'[k].broken = streams[k].broken
        /\ \A k \in Numbers : k # Last \/ streams[Last].broken => SameChunks(k)
        /\ ~streams[Last].broken => \E m : AtEnd(m) /\ AddedAt(m, chunk)
    BY <1>1, <1>2, PushedChunks DEF Numbers
  <1>4. \A i : ~About(i)'
    BY <1>1 DEF About, Judged, SetInv
  <1>5. \A i \in DOMAIN sets : i = chunk.set => About(i)
    <2>1. ASSUME NEW i \in DOMAIN sets, i = chunk.set PROVE About(i)
      <3>1. i # 0
        BY <1>1
      <3>2. IsLatest(state.idx, i)
        BY <1>1, <1>2, <2>1, <3>1, LatestIs
      <3> QED
        BY <1>1, <3>2 DEF About, Judged
    <2> QED
      BY <2>1
  <1>6. \A k \in Numbers : \A n, i : IsFront(k, n, i) => IsFront(k, n, i)'
    <2>1. CASE streams[Last].broken
      BY <1>3, <2>1 DEF SameChunks
    <2>2. CASE ~streams[Last].broken
      <3>1. PICK m : AddedAt(m, chunk)
        BY <1>3, <2>2
      <3>2. \A n, i : IsFront(Last, n, i) => IsFront(Last, n, i)'
        BY <3>1 DEF AddedAt
      <3> QED
        BY <1>3, <3>2 DEF SameChunks
    <2> QED
      BY <2>1, <2>2
  <1>7. ASSUME Code, NEW i \in DOMAIN sets, i # chunk.set, NEW k \in Numbers, NEW n, IsVerdict(k, n, i)'
        PROVE  VerdictSent(k, n, i)'
    <2>1. \A l \in Numbers : \A m : IsVerdict(l, m, i)' <=> IsVerdict(l, m, i)
      <3>1. CASE streams[Last].broken
        BY <1>3, <3>1 DEF SameChunks
      <3>2. CASE ~streams[Last].broken
        <4>1. PICK m : AddedAt(m, chunk)
          BY <1>3, <3>2
        <4>2. \A j : IsVerdict(Last, j, i)' <=> IsVerdict(Last, j, i)
          BY <1>7, <4>1 DEF AddedAt
        <4> QED
          BY <1>3, <4>2 DEF SameChunks
      <3> QED
        BY <3>1, <3>2
    <2>2. VerdictSent(k, n, i)
      BY <1>7, <2>1 DEF OnceInv
    <2>3. \A l \in Numbers : ~AtWork(l, i)'
      BY <1>3, <2>2 DEF VerdictSent, AtWork
    <2> QED
      BY <1>1, <1>3, <1>4, <1>6, <2>1, <2>2, <2>3 DEF VerdictSent
  <1>8. ASSUME Code, NEW i \in DOMAIN sets, i = chunk.set, NEW k \in Numbers, NEW n, IsVerdict(k, n, i)'
        PROVE  VerdictSent(k, n, i)'
    <2>1. VerdictDue(i) /\ \A l \in Numbers : \A m : ~IsVerdict(l, m, i)
      BY <1>5, <1>8 DEF OnceInv, VerdictSent
    <2>2. ~streams[Last].broken
      BY <1>3, <1>8, <2>1 DEF SameChunks
    <2>3. PICK m : AtEnd(m) /\ AddedAt(m, chunk)
      BY <1>3, <2>2
    <2>4. \A l \in Numbers : \A j : IsVerdict(l, j, i)' => l = Last /\ j = m
      BY <1>3, <2>1, <2>3 DEF AddedAt, SameChunks
    <2>5. k = Last /\ n = m
      BY <1>8, <2>4
    <2>6. \A l \in Numbers : ~AtWork(l, i)'
      BY <1>3, <2>1 DEF VerdictDue, AtWork
    <2>7. ASSUME sets[i].status = "produced" PROVE \E j : j < n /\ IsFront(k, j, i)'
      <3>1. PICK j : IsFront(Last, j, i)
        BY <1>1, <2>1, <2>2, <2>7 DEF VerdictDue
      <3>2. j < m /\ IsFront(k, j, i)'
        BY <1>1, <1>6, <2>3, <2>5, <3>1 DEF AtEnd, IsFront
      <3> QED
        BY <2>5, <3>2
    <2> QED
      BY <1>1, <1>3, <1>4, <2>1, <2>4, <2>5, <2>6, <2>7 DEF VerdictSent, VerdictDue
  <1> QED
    BY <1>1, <1>3, <1>4, <1>7, <1>8 DEF OnceInv, Code

\* Steps that leave the chunks, the jobs and the sets alone.
LEMMA OnceStays ==
    ASSUME Base, OnceInv, sets' = sets, state'.mode = state.mode,
           \A k \in Numbers : k \in Numbers' /\ SameChunks(k) /\ streams'[k].job = streams[k].job
                              /\ streams'[k].broken = streams[k].broken,
           \A k \in Numbers' : k \in Numbers \/ (streams'[k].queue = <<>> /\ streams'[k].job = NoJob),
           \A i \in DOMAIN sets : Code /\ About(i)' => About(i) /\ Last' = Last,
           thrown => thrown'
    PROVE  OnceInv'
  <1>1. \A k \in Numbers' : \A n, i : IsVerdict(k, n, i)' => k \in Numbers /\ IsVerdict(k, n, i)
    <2>1. \A k \in Numbers' : k \notin Numbers => \A n, i : ~IsVerdict(k, n, i)'
      BY DEF IsVerdict
    <2> QED
      BY <2>1 DEF SameChunks
  <1>2. \A k \in Numbers' : \A i : AtWork(k, i)' => k \in Numbers /\ AtWork(k, i)
    BY DEF AtWork
  <1>3. ASSUME NEW i \in DOMAIN sets, Code, NEW k \in Numbers', NEW n, IsVerdict(k, n, i)'
        PROVE  VerdictSent(k, n, i)'
    <2>1. k \in Numbers /\ VerdictSent(k, n, i)
      BY <1>1, <1>3 DEF OnceInv
    <2>2. \A m : IsFront(k, m, i) => IsFront(k, m, i)'
      BY <2>1 DEF SameChunks
    <2> QED
      BY <1>1, <1>2, <1>3, <2>1, <2>2 DEF VerdictSent
  <1>4. ASSUME NEW i \in DOMAIN sets, Code, About(i)' PROVE VerdictDue(i)'
    <2>1. VerdictDue(i) /\ Last' = Last
      BY <1>4 DEF OnceInv
    <2>2. \A k \in Numbers : k = Last => ((\E n : IsFront(k, n, i)) => (\E n : IsFront(k, n, i)'))
      BY DEF SameChunks
    <2>3. Last \in Numbers
      BY LastPositive
    <2>4. \A k \in Numbers : k = Last =>
             (sets[i].status = "produced" /\ ~thrown' /\ ~streams'[k].broken => \E n : IsFront(k, n, i)')
      BY <2>1, <2>2 DEF VerdictDue
    <2> QED
      BY <1>2, <2>1, <2>3, <2>4 DEF VerdictDue
  <1> QED
    BY <1>3, <1>4 DEF OnceInv, Code

LEMMA OtherOnce ==
    ASSUME Base, RouteInv, OnceInv, OtherNodeProduces PROVE OnceInv'
  <1>1. /\ done \subseteq next /\ (thrown => thrown') /\ state'.mode = state.mode
        /\ \/ UNCHANGED <<state, next, done>>
           \/ next = {"specAgent"} /\ next' # {"curatorAgent"} /\ done' = done
           \/ next = {"odinAgent"} /\ next' \subseteq Workers /\ done' = done
           \/ state' = state /\ "qaAgent" \in next \ done /\ next \subseteq Workers
              /\ \/ next' = {"curatorAgent"} /\ done' = {} /\ next = done \cup {"qaAgent"}
                 \/ next' = next /\ done' = done \cup {"qaAgent"}
        /\ UNCHANGED <<sets, streams>>
    BY OtherProducesMove DEF Base, SetInv
  <1>2. Last' = Last /\ Numbers' = Numbers
    BY <1>1 DEF Last, Numbers
  <1>3. \A k \in Numbers : SameChunks(k)
    BY <1>1, KeptChunks
  <1>4. ASSUME NEW i \in DOMAIN sets, Code, About(i)' PROVE About(i)
    <2>1. CASE UNCHANGED <<state, next, done>>
      BY <1>1, <1>4, <2>1 DEF About, Judged, IsLatest
    <2>2. CASE next = {"specAgent"} /\ next' # {"curatorAgent"} /\ done' = done
      BY <1>1, <1>4, <2>2 DEF About, Judged
    <2>3. CASE next = {"odinAgent"} /\ next' \subseteq Workers /\ done' = done
      BY <1>1, <1>4, <2>3 DEF About, Judged, Workers
    <2>4. ASSUME state' = state, "qaAgent" \in next \ done, next \subseteq Workers
          PROVE  About(i)
      <3>1. IsLatest(state.idx, i) /\ HasSet(state.idx)
        BY <1>1, <1>4, <2>4 DEF About, IsLatest, HasSet
      <3>2. "frontAgent" \in next /\ next # {"curatorAgent"}
        BY <1>4, <2>4, <3>1 DEF RouteInv, Workers
      <3>3. "frontAgent" \in done
        BY <1>1, <1>4, <2>4, <3>2 DEF About, Judged
      <3> QED
        BY <3>1, <3>3 DEF About, Judged
    <2> QED
      BY <1>1, <2>1, <2>2, <2>3, <2>4
  <1> QED
    BY <1>1, <1>2, <1>3, <1>4, OnceStays

LEMMA AnswerOnce ==
    ASSUME Base, OnceInv, Answer PROVE OnceInv'
  <1>1. /\ Last' = Last + 1 /\ (\A k \in Numbers : streams'[k] = streams[k]) /\ Last \in Nat
        /\ streams'[Last + 1] = OpenStream /\ thrown' = thrown /\ state'.mode = state.mode
        /\ next' \in {{}, {"odinAgent"}} /\ done' = {} /\ sets' = sets
    BY LastPositive, AnswerMovesOn DEF Base
  <1>2. \A i : ~About(i)'
    BY <1>1 DEF About, Judged
  <1>3. /\ \A k \in Numbers : k \in Numbers'
        /\ \A k \in Numbers' : k \in Numbers \/ k = Last + 1
    BY <1>1 DEF Numbers
  <1>4. \A k \in Numbers : SameChunks(k)
    BY <1>1, KeptChunks
  <1>5. \A k \in Numbers' : k \in Numbers \/ (streams'[k].queue = <<>> /\ streams'[k].job = NoJob)
    BY <1>1, <1>3 DEF OpenStream
  <1> QED
    BY <1>1, <1>2, <1>3, <1>4, <1>5, OnceStays

\* The consumer reads a chunk.
LEMMA TakenOnce ==
    ASSUME Base, OnceInv, Code, NEW k, Taken(k), NEW i \in DOMAIN sets,
           About(i)' <=> About(i), thrown' = thrown,
           sets'[i].status = sets[i].status \/ sets'[i].status \in {"proposed", "applied"},
           IsFront(k, 1, i) => sets'[i].status # "produced",
           AtWork(k, i)' => IsVerdict(k, 1, i)
    PROVE  /\ \A l \in Numbers : \A n : IsVerdict(l, n, i)' => VerdictSent(l, n, i)'
           /\ About(i) => VerdictDue(i)'
  <1>1. /\ k \in Numbers /\ Shifted(k) /\ Last' = Last /\ Numbers' = Numbers /\ Others(k)
        /\ \A l \in Numbers : l # k => SameChunks(l) /\ streams'[l].job = streams[l].job
        /\ ~streams[k].broken /\ ~streams'[k].broken
    BY TakenChunks DEF Base, Taken, Consuming, Others, Numbers
  <1>2. ASSUME NEW l \in Numbers, NEW n, IsVerdict(l, n, i)'
        PROVE  \E m : IsVerdict(l, m, i) /\ (l # k => m = n) /\ (l = k => n \in Nat \ {0} /\ m = n + 1)
    BY <1>1, <1>2, BeforeTaken
  <1>3. \A l \in Numbers : AtWork(l, i)' => AtWork(l, i) \/ (l = k /\ IsVerdict(k, 1, i))
    BY <1>1 DEF AtWork
  <1>4. ASSUME NEW l \in Numbers, NEW p, IsFront(l, p, i), sets'[i].status = "produced"
        PROVE  /\ l # k => IsFront(l, p, i)'
               /\ l = k => p \in Nat /\ \E q : q \in Nat /\ p = q + 1 /\ IsFront(l, q, i)'
    <2>1. CASE l # k
      BY <1>1, <1>4, <2>1 DEF SameChunks
    <2>2. CASE l = k
      <3>1. p # 1
        BY <1>4, <2>2
      <3> QED
        BY <1>1, <1>4, <2>2, <3>1, AfterTaken
    <2> QED
      BY <2>1, <2>2
  <1>5. ASSUME NEW l \in Numbers, NEW n, IsVerdict(l, n, i)' PROVE VerdictSent(l, n, i)'
    <2>1. PICK m : IsVerdict(l, m, i) /\ (l # k => m = n) /\ (l = k => n \in Nat \ {0} /\ m = n + 1)
      BY <1>2, <1>5
    <2>2. VerdictSent(l, m, i)
      BY <2>1 DEF OnceInv
    <2>3. ASSUME NEW h \in Numbers, NEW j, IsVerdict(h, j, i)' PROVE h = l /\ j = n
      <3>1. PICK p : IsVerdict(h, p, i) /\ (h # k => p = j) /\ (h = k => j \in Nat \ {0} /\ p = j + 1)
        BY <1>2, <2>3
      <3>2. h = l /\ p = m
        BY <2>2, <3>1 DEF VerdictSent
      <3> QED
        BY <2>1, <3>1, <3>2
    <2>4. ASSUME NEW h \in Numbers, AtWork(h, i)' PROVE FALSE
      <3>1. h = k /\ IsVerdict(k, 1, i)
        BY <1>3, <2>2, <2>4 DEF VerdictSent
      <3>2. l = k /\ m = 1
        BY <1>1, <2>2, <3>1 DEF VerdictSent
      <3> QED
        BY <2>1, <3>2
    <2>5. ASSUME sets'[i].status = "produced" PROVE \E q : q < n /\ IsFront(l, q, i)'
      <3>1. PICK p : p < m /\ IsFront(l, p, i)
        BY <2>2, <2>5 DEF VerdictSent
      <3>2. CASE l # k
        BY <1>4, <2>1, <2>5, <3>1, <3>2
      <3>3. CASE l = k
        <4>1. PICK q : q \in Nat /\ p = q + 1 /\ IsFront(l, q, i)'
          BY <1>4, <2>5, <3>1, <3>3
        <4>2. q < n
          BY <2>1, <3>1, <3>3, <4>1
        <4> QED
          BY <4>1, <4>2
      <3> QED
        BY <3>2, <3>3
    <2>6. sets'[i].status \in {"produced", "proposed", "applied"} /\ ~About(i)'
      BY <2>2 DEF VerdictSent
    <2> QED
      BY <1>1, <2>3, <2>4, <2>5, <2>6 DEF VerdictSent
  <1>6. ASSUME About(i) PROVE VerdictDue(i)'
    <2>1. VerdictDue(i)
      BY <1>6 DEF OnceInv
    <2>2. \A l \in Numbers : ~AtWork(l, i)'
      BY <1>1, <1>3, <1>6, <2>1 DEF OnceInv, VerdictSent, VerdictDue
    <2>3. ASSUME sets'[i].status = "produced", ~thrown, ~streams'[Last].broken PROVE \E n : IsFront(Last, n, i)'
      <3>1. ~streams[Last].broken
        BY <1>1, <2>3, LastPositive DEF Others
      <3>2. PICK n : IsFront(Last, n, i)
        BY <2>1, <2>3, <3>1 DEF VerdictDue
      <3>3. PICK l \in Numbers : l = Last
        BY LastPositive
      <3>4. \E q : IsFront(l, q, i)'
        BY <1>4, <2>3, <3>2, <3>3
      <3> QED
        BY <1>1, <3>3, <3>4 DEF IsFront
    <2>4. \A l \in Numbers : l = Last =>
             (sets'[i].status = "produced" /\ ~thrown /\ ~streams'[l].broken => \E n : IsFront(l, n, i)')
      <3>1. ASSUME NEW l \in Numbers, l = Last, sets'[i].status = "produced", ~thrown, ~streams'[l].broken
            PROVE  \E n : IsFront(l, n, i)'
        <4>1. PICK n : IsFront(Last, n, i)'
          BY <2>3, <3>1
        <4>2. IsFront(l, n, i)'
          BY <1>1, <3>1, <4>1 DEF IsFront
        <4> QED
          BY <4>2
      <3> QED
        BY <3>1
    <2>5. sets'[i].status \in {"produced", "proposed", "applied"}
      BY <2>1 DEF VerdictDue
    <2> QED
      BY <1>1, <2>2, <2>4, <2>5, LastPositive DEF VerdictDue
  <1> QED
    BY <1>5, <1>6

\* A job's step, or one that saves: the queue stays.
LEMMA JobOnce ==
    ASSUME Base, OnceInv, Code, NEW k \in Numbers, Others(k), streams'[k].queue = streams[k].queue,
           streams'[k].broken = streams[k].broken, NEW i \in DOMAIN sets,
           About(i)' <=> About(i), thrown' = thrown,
           AtWork(k, i)' => AtWork(k, i), ~AtWork(k, i) => sets'[i].status = sets[i].status
    PROVE  /\ \A l \in Numbers : \A n : IsVerdict(l, n, i)' => VerdictSent(l, n, i)'
           /\ About(i) => VerdictDue(i)'
  <1>1. /\ Last' = Last /\ Numbers' = Numbers
        /\ \A l \in Numbers : SameChunks(l) /\ streams'[l].broken = streams[l].broken
        /\ \A l \in Numbers : l # k => streams'[l].job = streams[l].job
    BY KeptChunks, OtherChunks DEF Others, Numbers
  <1>2. \A l \in Numbers : AtWork(l, i)' => AtWork(l, i)
    BY <1>1 DEF AtWork
  <1>3. ASSUME NEW l \in Numbers, NEW n, IsVerdict(l, n, i)' PROVE VerdictSent(l, n, i)'
    <2>1. IsVerdict(l, n, i) /\ VerdictSent(l, n, i)
      BY <1>1, <1>3 DEF SameChunks, OnceInv
    <2>2. sets'[i].status = sets[i].status
      BY <2>1 DEF VerdictSent
    <2>3. /\ \A h \in Numbers : \A m : IsVerdict(h, m, i)' => IsVerdict(h, m, i)
          /\ \A m : IsFront(l, m, i) => IsFront(l, m, i)'
      BY <1>1 DEF SameChunks
    <2> QED
      BY <1>1, <1>2, <2>1, <2>2, <2>3 DEF VerdictSent
  <1>4. ASSUME About(i) PROVE VerdictDue(i)'
    <2>1. VerdictDue(i)
      BY <1>4 DEF OnceInv
    <2>2. sets'[i].status = sets[i].status
      BY <2>1 DEF VerdictDue
    <2>3. \A l \in Numbers : l = Last => ((\E n : IsFront(l, n, i)) => (\E n : IsFront(l, n, i)'))
      BY <1>1 DEF SameChunks
    <2>4. \A l \in Numbers : l = Last =>
             (sets'[i].status = "produced" /\ ~thrown /\ ~streams'[l].broken => \E n : IsFront(l, n, i)')
      BY <1>1, <2>1, <2>2, <2>3 DEF VerdictDue
    <2> QED
      BY <1>1, <1>2, <2>1, <2>2, <2>4, LastPositive DEF VerdictDue
  <1> QED
    BY <1>3, <1>4

\* The queue is given up, in trouble, or was empty.
LEMMA EmptiedOnce ==
    ASSUME Base, OnceInv, Code, NEW k \in Numbers, Others(k), streams'[k].queue = <<>>, sets' = sets,
           NEW i \in DOMAIN sets, About(i)' <=> About(i), thrown' = thrown,
           AtWork(k, i)' => AtWork(k, i),
           k = Last => thrown \/ streams'[k].broken \/ streams[k].queue = <<>>,
           streams[k].broken => streams'[k].broken
    PROVE  /\ \A l \in Numbers : \A n : IsVerdict(l, n, i)' => VerdictSent(l, n, i)'
           /\ About(i) => VerdictDue(i)'
  <1>1. /\ Last' = Last /\ Numbers' = Numbers
        /\ \A l \in Numbers : l # k => SameChunks(l) /\ streams'[l].job = streams[l].job
                                       /\ streams'[l].broken = streams[l].broken
        /\ \A n : ~IsVerdict(k, n, i)'
    <2>1. \A n : ~IsVerdict(k, n, i)'
      BY DEF IsVerdict
    <2>2. \A l \in Numbers : l # k => SameChunks(l) /\ streams'[l].job = streams[l].job
      BY OtherChunks
    <2> QED
      BY <2>1, <2>2 DEF Others, Numbers
  <1>2. \A l \in Numbers : AtWork(l, i)' => AtWork(l, i)
    BY <1>1 DEF AtWork
  <1>3. ASSUME NEW l \in Numbers, NEW n, IsVerdict(l, n, i)' PROVE VerdictSent(l, n, i)'
    <2>1. l # k /\ IsVerdict(l, n, i) /\ VerdictSent(l, n, i)
      BY <1>1, <1>3 DEF SameChunks, OnceInv
    <2>2. /\ \A h \in Numbers : \A m : IsVerdict(h, m, i)' => IsVerdict(h, m, i)
          /\ \A m : IsFront(l, m, i) => IsFront(l, m, i)'
      BY <1>1, <2>1 DEF SameChunks
    <2> QED
      BY <1>1, <1>2, <2>1, <2>2 DEF VerdictSent
  <1>4. ASSUME About(i) PROVE VerdictDue(i)'
    <2>1. VerdictDue(i)
      BY <1>4 DEF OnceInv
    <2>2. ASSUME NEW l \in Numbers, l = Last, sets[i].status = "produced", ~thrown, ~streams'[l].broken
          PROVE  \E n : IsFront(l, n, i)'
      <3>1. ~streams[l].broken
        BY <1>1, <2>2
      <3>2. PICK n : IsFront(l, n, i)
        BY <2>1, <2>2, <3>1 DEF VerdictDue
      <3>3. l # k
        <4>1. CASE l = k
          BY <2>2, <3>2, <4>1 DEF IsFront
        <4> QED
          BY <4>1
      <3> QED
        BY <1>1, <3>2, <3>3 DEF SameChunks
    <2> QED
      BY <1>1, <1>2, <2>1, <2>2, LastPositive DEF VerdictDue
  <1> QED
    BY <1>3, <1>4

LEMMA ConsumeOnce ==
    ASSUME Base, NewsInv, OnceInv, NEW k \in 1 .. MaxStreams, Delivers(k) PROVE OnceInv'
  <1>1. /\ RunTypes /\ RunTypes' /\ k \in Numbers /\ Others(k) /\ Last' = Last /\ Numbers' = Numbers
        /\ UNCHANGED graphVars /\ state' = state /\ thrown' = thrown
        /\ UNCHANGED sets \/ \E i, status : StatusOnly(i, status)
    BY ConsumeKeeps DEF graphVars
  <1>2. DOMAIN sets' = DOMAIN sets /\ \A i : About(i)' <=> About(i)
    <2>1. \A i : About(i)' <=> About(i)
      BY <1>1, AboutStays
    <2> QED
      BY <1>1, <2>1 DEF StatusOnly, RunTypes
  <1> SUFFICES ASSUME Code, NEW i \in DOMAIN sets
               PROVE  /\ \A l \in Numbers : \A n : IsVerdict(l, n, i)' => VerdictSent(l, n, i)'
                      /\ About(i) => VerdictDue(i)'
    BY <1>1, <1>2 DEF OnceInv, Code
  <1>3. About(i)' <=> About(i)
    BY <1>2
  <1>4. CASE RecordSet(k)
    <2>1. /\ Taken(k) /\ streams'[k].job = NoJob
          /\ Head(streams[k].queue).node = "front" /\ Head(streams[k].queue).set \in DOMAIN sets
      BY <1>1, <1>4, FrontNamesSet, RecordSetMove
    <2>2. PICK i0 \in DOMAIN sets : i0 = Head(streams[k].queue).set
      BY <2>1
    <2>3. PICK status \in {"applied", "proposed"} : StatusOnly(i0, status)
      BY <1>1, <1>4, <2>2, FrontNamesSet, RecordSetMove
    <2>4. IsFront(k, 1, i) => i = i0
      <3>1. IsFront(k, 1, i0)
        BY <1>1, <2>1, <2>2, TakenChunks
      <3> QED
        BY <3>1 DEF IsFront
    <2>5. sets'[i].status = IF i = i0 THEN status ELSE sets[i].status
      BY <2>3 DEF StatusOnly
    <2>6. ~AtWork(k, i)'
      BY <2>1 DEF AtWork
    <2> QED
      BY <1>1, <1>3, <2>1, <2>4, <2>5, <2>6, TakenOnce
  <1>5. CASE TakeVerdict(k)
    <2>1. /\ Taken(k) /\ sets' = sets /\ Head(streams[k].queue).node = "curator"
          /\ streams'[k].job = JobFor(FindProposed(Head(streams[k].queue).set), Head(streams[k].queue).passed)
      BY <1>1, <1>5, TakeVerdictMove
    <2>2. IsVerdict(k, 1, Head(streams[k].queue).set)
      BY <1>1, <2>1, TakenChunks
    <2>3. ~IsFront(k, 1, i)
      BY <2>2 DEF IsFront, IsVerdict
    <2>4. AtWork(k, i)' => IsVerdict(k, 1, i)
      BY <2>1, <2>2 DEF AtWork, JobFor, FindProposed
    <2> QED
      BY <1>1, <1>3, <2>1, <2>3, <2>4, TakenOnce
  <1>6. CASE Judge(k)
    <2>1. /\ streams[k].job.kind = "judge"
          /\ streams'[k].queue = streams[k].queue /\ streams'[k].broken = streams[k].broken
          /\ \E status : StatusOnly(streams[k].job.set, status)
          /\ streams'[k].job = NoJob \/ streams'[k].job.set = streams[k].job.set
      <3>1. /\ streams[k].job.kind = "judge"
            /\ streams'[k].queue = streams[k].queue /\ streams'[k].broken = streams[k].broken
            /\ StatusOnly(streams[k].job.set, IF streams[k].job.passed THEN "curator_approved" ELSE "curator_rejected")
            /\ streams'[k].job = IF streams[k].job.passed /\ project
                                 THEN [kind |-> "apply", set |-> streams[k].job.set, passed |-> TRUE] ELSE NoJob
        BY <1>1, <1>6, JudgeMove
      <3> QED
        BY <3>1
    <2>2. streams[k].job # NoJob
      BY <2>1 DEF NoJob
    <2>3. AtWork(k, i)' => AtWork(k, i)
      BY <2>1, <2>2 DEF AtWork
    <2>4. ~AtWork(k, i) => sets'[i].status = sets[i].status
      BY <2>1, <2>2 DEF AtWork, StatusOnly
    <2> QED
      BY <1>1, <1>3, <2>1, <2>3, <2>4, JobOnce
  <1>7. ASSUME NEW delivered \in BOOLEAN, ApplyFinishes(k, delivered)
        PROVE  /\ \A l \in Numbers : \A n : IsVerdict(l, n, i)' => VerdictSent(l, n, i)'
               /\ About(i) => VerdictDue(i)'
    <2>1. /\ streams[k].job.kind = "apply" /\ streams'[k].job = NoJob
          /\ streams'[k].queue = streams[k].queue /\ streams'[k].broken = streams[k].broken
          /\ \E status : StatusOnly(streams[k].job.set, status)
      BY <1>1, <1>7, ApplyFinishesMove
    <2>2. streams[k].job # NoJob
      BY <2>1 DEF NoJob
    <2>3. ~AtWork(k, i)'
      BY <2>1 DEF AtWork
    <2>4. ~AtWork(k, i) => sets'[i].status = sets[i].status
      BY <2>1, <2>2 DEF AtWork, StatusOnly
    <2> QED
      BY <1>1, <1>3, <2>1, <2>3, <2>4, JobOnce
  <1>8. CASE LoopThrows(k)
    <2>1. /\ streams'[k].queue = <<>> /\ streams'[k].job = NoJob /\ sets' = sets /\ streams'[k].broken
      BY <1>1, <1>8, LoopThrowsMove
    <2> QED
      BY <1>1, <1>3, <2>1, EmptiedOnce DEF AtWork
  <1>9. CASE Snapshot(k)
    <2>1. /\ streams'[k].queue = <<>> /\ streams'[k].job = streams[k].job /\ sets' = sets
          /\ streams'[k].broken = streams[k].broken /\ LoopOver(k)
      BY <1>1, <1>9, SnapshotMove DEF Base
    <2>2. k = Last => thrown \/ streams'[k].broken \/ streams[k].queue = <<>>
      BY <2>1 DEF LoopOver, Exhausted
    <2> QED
      BY <1>1, <1>3, <2>1, <2>2, EmptiedOnce DEF AtWork
  <1>10. CASE SaveState(k)
    <2>1. k \in Numbers /\ streams[k].snapshot # "none"
      BY <1>10 DEF SaveState, Numbers, Base, StreamInv, StreamOK
    <2>2. /\ streams'[k].queue = streams[k].queue /\ streams'[k].job = streams[k].job /\ sets' = sets
          /\ streams'[k].broken = streams[k].broken
      BY <1>1, <1>10, <2>1, SaveStateMove
    <2> QED
      BY <1>1, <1>3, <2>2, JobOnce DEF AtWork
  <1> QED
    BY <1>4, <1>5, <1>6, <1>7, <1>8, <1>9, <1>10 DEF Delivers, Consume

LEMMA StepOnce == Base /\ NewsInv /\ RouteInv /\ OnceInv /\ [Next]_vars => OnceInv'
  <1> SUFFICES ASSUME Base, NewsInv, RouteInv, OnceInv, [Next]_vars PROVE OnceInv'
    OBVIOUS
  <1>1. CASE UNCHANGED vars
    BY <1>1 DEF vars, graphVars, OnceInv, Code, VerdictSent, VerdictDue, About, Judged, IsLatest, IsFront,
                IsVerdict, AtWork, Numbers, Last
  <1> QED
    BY <1>1, FrontOnce, CuratorOnce, OtherOnce, AnswerOnce, ConsumeOnce DEF Next, Delivers, Produce

-----------------------------------------------------------------------------
(* The way of a change set. *)

\* A job finds its set as it was when it was taken.
JobInv ==
    Code \/ ~overlap =>
        \A k \in Numbers : \A i : AtWork(k, i) =>
            /\ streams[k].job.kind = "judge" => sets[i].status = "proposed"
            /\ streams[k].job.kind = "apply" => sets[i].status = "curator_approved"
            /\ \A l \in Numbers : AtWork(l, i) => l = k

\* Steps that take no job and change no set that is at work.
LEMMA JobsStay ==
    ASSUME Base, JobInv, Code' => Code, overlap => overlap',
           \A k \in Numbers' : \A i : AtWork(k, i)' => /\ k \in Numbers /\ AtWork(k, i)
                                                       /\ streams'[k].job = streams[k].job
                                                       /\ sets'[i].status = sets[i].status
    PROVE  JobInv'
  BY DEF JobInv

LEMMA ProduceJobs == ASSUME Base, JobInv, Produce PROVE JobInv'
  <1>0. RunTypes /\ GraphInv /\ SetInv /\ Last \in Nat \ {0}
    BY LastPositive DEF Base
  <1>1. CASE FrontProduces
    <2>1. /\ Others(Last) /\ streams'[Last].job = streams[Last].job
          /\ state'.mode = state.mode /\ overlap' = overlap
          /\ \A j \in DOMAIN sets : sets'[j] = sets[j]
      BY <1>0, <1>1, FrontProducesMove DEF Pushed
    <2>2. \A k \in Numbers : \A i : AtWork(k, i) => i \in DOMAIN sets
      BY NamesSets
    <2>3. Numbers' = Numbers /\ \A k \in Numbers : streams'[k].job = streams[k].job
      BY <2>1 DEF Others, Numbers
    <2> QED
      BY <2>1, <2>2, <2>3, JobsStay DEF AtWork, Code
  <1>2. CASE CuratorProduces
    <2>1. /\ sets' = sets /\ state'.mode = state.mode /\ overlap' = overlap
          /\ \E chunk : Pushed(chunk)
      BY <1>0, <1>2, CuratorProducesMove
    <2>2. Numbers' = Numbers /\ \A k \in Numbers : streams'[k].job = streams[k].job
      BY <2>1 DEF Pushed, Others, Numbers
    <2> QED
      BY <2>1, <2>2, JobsStay DEF AtWork, Code
  <1>3. CASE OtherNodeProduces
    <2>1. UNCHANGED <<sets, streams, overlap>> /\ state'.mode = state.mode
      BY <1>0, <1>3, OtherProducesMove
    <2>2. Numbers' = Numbers
      BY <2>1 DEF Numbers, Last
    <2> QED
      BY <2>1, <2>2, JobsStay DEF AtWork, Code
  <1> QED
    BY <1>1, <1>2, <1>3 DEF Produce

LEMMA AnswerJobs == ASSUME Base, JobInv, Answer PROVE JobInv'
  <1>1. /\ Last' = Last + 1 /\ (\A k \in Numbers : streams'[k] = streams[k]) /\ Last \in Nat
        /\ streams'[Last + 1] = OpenStream /\ state'.mode = state.mode /\ sets' = sets
        /\ overlap' = (overlap \/ \E k \in Numbers : streams[k].phase # "closed")
    BY LastPositive, AnswerMovesOn DEF Base
  <1>2. \A k \in Numbers' : k \in Numbers \/ k = Last + 1
    BY <1>1 DEF Numbers
  <1>3. \A k \in Numbers' : \A i : AtWork(k, i)' => k \in Numbers /\ AtWork(k, i) /\ streams'[k].job = streams[k].job
    BY <1>1, <1>2 DEF AtWork, OpenStream
  <1> QED
    BY <1>1, <1>3, JobsStay DEF Code

\* Unless answers overlap, only the last stream has a job.
LEMMA LastWorks ==
    ASSUME Base, ~overlap, NEW k \in Numbers, streams[k].phase = "open" \/ streams[k].job # NoJob PROVE k = Last
  BY LastPositive DEF Base, StreamInv, StreamOK, Over, Numbers

LEMMA ConsumeJobs ==
    ASSUME Base, NewsInv, OnceInv, JobInv, NEW k \in 1 .. MaxStreams, Delivers(k) PROVE JobInv'
  <1>1. /\ RunTypes /\ RunTypes' /\ k \in Numbers /\ Others(k) /\ Last' = Last /\ Numbers' = Numbers
        /\ state' = state /\ overlap' = overlap
    BY ConsumeKeeps
  <1>2. \A l \in Numbers : \A i : AtWork(l, i) => i \in DOMAIN sets
    BY NamesSets
  <1>3. \A l \in Numbers : l # k => streams'[l].job = streams[l].job
    BY <1>1, OtherChunks
  <1>4. CASE RecordSet(k)
    <2>1. /\ Taken(k) /\ streams'[k].job = NoJob
          /\ Head(streams[k].queue).node = "front" /\ Head(streams[k].queue).set \in DOMAIN sets
      BY <1>1, <1>4, FrontNamesSet, RecordSetMove
    <2>2. PICK i0 \in DOMAIN sets : i0 = Head(streams[k].queue).set
      BY <2>1
    <2>3. PICK status : StatusOnly(i0, status)
      BY <1>1, <1>4, <2>2, FrontNamesSet, RecordSetMove
    <2>4. \A l \in Numbers : ~AtWork(l, i0)
      <3>1. IsFront(k, 1, i0)
        BY <1>1, <2>1, <2>2, TakenChunks
      <3> QED
        BY <1>1, <3>1 DEF NewsInv
    <2>5. \A l \in Numbers : \A i : AtWork(l, i)' => /\ AtWork(l, i) /\ streams'[l].job = streams[l].job
                                                    /\ sets'[i].status = sets[i].status
      <3>1. ASSUME NEW l \in Numbers, NEW i, AtWork(l, i)'
            PROVE  AtWork(l, i) /\ streams'[l].job = streams[l].job
        BY <1>3, <2>1, <3>1 DEF AtWork
      <3>2. ASSUME NEW l \in Numbers, NEW i, AtWork(l, i) PROVE sets'[i].status = sets[i].status
        <4>1. i \in DOMAIN sets /\ i # i0
          BY <1>2, <2>4, <3>2
        <4> QED
          BY <2>3, <4>1 DEF StatusOnly
      <3> QED
        BY <3>1, <3>2
    <2> QED
      BY <1>1, <2>5, JobsStay DEF Code
  <1>5. CASE TakeVerdict(k)
    <2>1. /\ Taken(k) /\ sets' = sets /\ Head(streams[k].queue).node = "curator"
          /\ streams'[k].job = JobFor(FindProposed(Head(streams[k].queue).set), Head(streams[k].queue).passed)
      BY <1>1, <1>5, TakeVerdictMove
    <2>2. IsVerdict(k, 1, Head(streams[k].queue).set)
      BY <1>1, <2>1, TakenChunks
    <2>3. ASSUME NEW i, AtWork(k, i)'
          PROVE  /\ IsVerdict(k, 1, i) /\ i \in DOMAIN sets /\ sets[i].status = "proposed"
                 /\ streams'[k].job.kind = "judge"
      <3>1. /\ IsVerdict(k, 1, i) /\ i # 0 /\ sets[i].status = "proposed" /\ streams'[k].job.kind = "judge"
        BY <2>1, <2>2, <2>3 DEF AtWork, JobFor, FindProposed, NoJob
      <3>2. i \in 0 .. Len(sets) /\ DOMAIN sets = 1 .. Len(sets) /\ Len(sets) \in Nat
        BY <1>1, <3>1, NamesSets
      <3> QED
        BY <3>1, <3>2
    <2>4. ASSUME Code \/ ~overlap, NEW i, AtWork(k, i)', NEW l \in Numbers, l # k PROVE ~AtWork(l, i)
      <3>1. CASE Code
        BY <1>1, <2>3, <2>4, <3>1 DEF OnceInv, VerdictSent
      <3>2. CASE ~overlap
        <4>1. streams[k].phase = "open"
          BY <2>1 DEF Taken, Consuming
        <4>2. k = Last
          BY <1>1, <3>2, <4>1, LastWorks
        <4>3. streams[l].job = NoJob
          BY <2>4, <3>2, <4>2, LastWorks
        <4> QED
          BY <4>3 DEF AtWork
      <3> QED
        BY <2>4, <3>1, <3>2
    <2>5. \A l \in Numbers : \A i : l # k => (AtWork(l, i)' <=> AtWork(l, i))
      BY <1>3 DEF AtWork
    <2> SUFFICES ASSUME Code \/ ~overlap, NEW l \in Numbers, NEW i, AtWork(l, i)'
                 PROVE  /\ streams'[l].job.kind = "judge" => sets'[i].status = "proposed"
                        /\ streams'[l].job.kind = "apply" => sets'[i].status = "curator_approved"
                        /\ \A h \in Numbers : AtWork(h, i)' => h = l
      BY <1>1 DEF JobInv, Code
    <2>6. CASE l = k
      BY <2>1, <2>3, <2>4, <2>5, <2>6
    <2>7. CASE l # k
      <3>1. AtWork(l, i) /\ streams'[l].job = streams[l].job
        BY <1>3, <2>5, <2>7
      <3>2. ~AtWork(k, i)'
        BY <2>4, <2>7, <3>1
      <3> QED
        BY <2>1, <2>5, <3>1, <3>2 DEF JobInv
    <2> QED
      BY <2>6, <2>7
  <1>6. CASE Judge(k)
    <2>1. PICK i0 \in DOMAIN sets : i0 = streams[k].job.set
      BY <1>1, <1>6, JudgeMove
    <2>2. PICK status : StatusOnly(i0, status) /\ (streams[k].job.passed => status = "curator_approved")
      BY <1>1, <1>6, <2>1, JudgeMove
    <2>3. \/ streams'[k].job = NoJob
          \/ streams[k].job.passed /\ streams'[k].job = [kind |-> "apply", set |-> i0, passed |-> TRUE]
      BY <1>1, <1>6, <2>1, JudgeMove
    <2>4. AtWork(k, i0)
      <3>1. streams[k].job.kind = "judge"
        BY <1>6 DEF Judge
      <3> QED
        BY <2>1, <3>1 DEF AtWork, NoJob
    <2>5. \A i : AtWork(k, i)' => i = i0 /\ streams[k].job.passed /\ streams'[k].job.kind = "apply"
      BY <2>3 DEF AtWork
    <2>6. \A l \in Numbers : \A i : l # k => (AtWork(l, i)' <=> AtWork(l, i))
      BY <1>3 DEF AtWork
    <2> SUFFICES ASSUME Code \/ ~overlap, NEW l \in Numbers, NEW i, AtWork(l, i)'
                 PROVE  /\ streams'[l].job.kind = "judge" => sets'[i].status = "proposed"
                        /\ streams'[l].job.kind = "apply" => sets'[i].status = "curator_approved"
                        /\ \A h \in Numbers : AtWork(h, i)' => h = l
      BY <1>1 DEF JobInv, Code
    <2>7. CASE l = k
      <3>1. /\ i = i0 /\ streams'[k].job.kind = "apply" /\ status = "curator_approved"
        BY <2>2, <2>5, <2>7
      <3>2. sets'[i].status = "curator_approved"
        BY <2>2, <3>1 DEF StatusOnly
      <3>3. \A h \in Numbers : h # k => ~AtWork(h, i)
        BY <1>1, <2>4, <3>1 DEF JobInv
      <3> QED
        BY <2>6, <2>7, <3>1, <3>2, <3>3
    <2>8. CASE l # k
      <3>1. AtWork(l, i) /\ streams'[l].job = streams[l].job /\ i \in DOMAIN sets
        BY <1>2, <1>3, <2>6, <2>8
      <3>2. i # i0
        BY <1>1, <2>4, <2>8, <3>1 DEF JobInv
      <3>3. sets'[i].status = sets[i].status /\ ~AtWork(k, i)'
        BY <2>2, <2>5, <3>1, <3>2 DEF StatusOnly
      <3> QED
        BY <2>6, <3>1, <3>3 DEF JobInv
    <2> QED
      BY <2>7, <2>8
  <1>7. ASSUME NEW delivered \in BOOLEAN, ApplyFinishes(k, delivered) PROVE JobInv'
    <2>1. PICK i0 \in DOMAIN sets : i0 = streams[k].job.set
      BY <1>1, <1>7, ApplyFinishesMove
    <2>2. PICK status : StatusOnly(i0, status)
      BY <1>1, <1>7, <2>1, ApplyFinishesMove
    <2>3. streams'[k].job = NoJob
      BY <1>1, <1>7, ApplyFinishesMove
    <2>4. AtWork(k, i0)
      <3>1. streams[k].job.kind = "apply"
        BY <1>7 DEF ApplyFinishes
      <3> QED
        BY <2>1, <3>1 DEF AtWork, NoJob
    <2> SUFFICES ASSUME Code \/ ~overlap, NEW l \in Numbers, NEW i, AtWork(l, i)'
                 PROVE  /\ streams'[l].job.kind = "judge" => sets'[i].status = "proposed"
                        /\ streams'[l].job.kind = "apply" => sets'[i].status = "curator_approved"
                        /\ \A h \in Numbers : AtWork(h, i)' => h = l
      BY <1>1 DEF JobInv, Code
    <2>5. \A h \in Numbers : AtWork(h, i)' => h # k /\ AtWork(h, i)
      BY <1>3, <2>3 DEF AtWork
    <2>6. l # k /\ AtWork(l, i) /\ streams'[l].job = streams[l].job /\ i \in DOMAIN sets
      BY <1>2, <1>3, <2>5
    <2>7. i # i0
      BY <1>1, <2>4, <2>6 DEF JobInv
    <2>8. sets'[i].status = sets[i].status
      BY <2>2, <2>6, <2>7 DEF StatusOnly
    <2> QED
      BY <2>5, <2>6, <2>8 DEF JobInv
  <1>8. CASE LoopThrows(k)
    <2>1. streams'[k].job = NoJob /\ sets' = sets
      BY <1>1, <1>8, LoopThrowsMove
    <2>2. \A l \in Numbers : \A i : AtWork(l, i)' => AtWork(l, i) /\ streams'[l].job = streams[l].job
      BY <1>3, <2>1 DEF AtWork
    <2> QED
      BY <1>1, <2>1, <2>2, JobsStay DEF Code
  <1>9. CASE Snapshot(k) \/ SaveState(k)
    <2>1. streams'[k].job = streams[k].job /\ sets' = sets
      <3>1. CASE Snapshot(k)
        BY <1>1, <3>1, SnapshotMove DEF Base
      <3>2. CASE SaveState(k)
        <4>1. streams[k].snapshot # "none"
          BY <1>1, <3>2 DEF SaveState, Base, StreamInv, StreamOK
        <4> QED
          BY <1>1, <3>2, <4>1, SaveStateMove
      <3> QED
        BY <1>9, <3>1, <3>2
    <2>2. \A l \in Numbers : \A i : AtWork(l, i)' => AtWork(l, i) /\ streams'[l].job = streams[l].job
      BY <1>3, <2>1 DEF AtWork
    <2> QED
      BY <1>1, <2>1, <2>2, JobsStay DEF Code
  <1> QED
    BY <1>4, <1>5, <1>6, <1>7, <1>8, <1>9 DEF Delivers, Consume

LEMMA StepJobs == Base /\ NewsInv /\ OnceInv /\ JobInv /\ [Next]_vars => JobInv'
  <1> SUFFICES ASSUME Base, NewsInv, OnceInv, JobInv, [Next]_vars PROVE JobInv'
    OBVIOUS
  <1>1. CASE UNCHANGED vars
    BY <1>1 DEF vars, graphVars, JobInv, Code, AtWork, Numbers, Last
  <1> QED
    BY <1>1, ProduceJobs, AnswerJobs, ConsumeJobs DEF Next, Delivers

LifeInv == NewsInv /\ RouteInv /\ OnceInv /\ JobInv

LEMMA LifeInvariance == Spec => [](Base /\ LifeInv)
  <1>1. Init => LifeInv
    <2> SUFFICES ASSUME Init PROVE LifeInv
      OBVIOUS
    <2>1. sets = <<>> /\ streams = <<OpenStream>> /\ (state.mode \in CodeModes => project)
      BY DEF Init
    <2>2. \A k \in Numbers : streams[k].queue = <<>> /\ streams[k].job = NoJob
      BY <2>1 DEF Numbers, Last, OpenStream
    <2>3. /\ \A k \in Numbers : \A n, i : ~IsFront(k, n, i) /\ ~IsVerdict(k, n, i) /\ ~AtWork(k, i)
      BY <2>2 DEF IsFront, IsVerdict, AtWork
    <2>4. DOMAIN sets = {}
      BY <2>1
    <2>5. NewsInv /\ JobInv
      BY <2>3 DEF NewsInv, JobInv
    <2>6. RouteInv
      BY <2>1, <2>4 DEF RouteInv, HasSet, Code
    <2>7. OnceInv
      BY <2>4 DEF OnceInv
    <2> QED
      BY <2>5, <2>6, <2>7 DEF LifeInv
  <1> QED
    BY <1>1, InitBase, StepBase, StepNews, StepRoute, StepOnce, StepJobs, PTL DEF Spec, LifeInv

\* A change set goes one way: it is judged once, applied once and only when approved, and never
\* changes again after it was rejected, applied or failed; with two streams delivering at once,
\* at least in the modes that edit a project.
THEOREM SetsGoOneWay == Spec => SetLifecycle
  <1> DEFINE Way == \A i \in DOMAIN sets :
                      sets'[i].status # sets[i].status /\ (state.mode \in CodeModes \/ ~overlap) =>
                        <<sets[i].status, sets'[i].status>> \in Follows
  <1>1. ASSUME Base, LifeInv, Next PROVE Way
    <2> SUFFICES ASSUME NEW i \in DOMAIN sets, sets'[i].status # sets[i].status, Code \/ ~overlap
                 PROVE  <<sets[i].status, sets'[i].status>> \in Follows
      BY DEF Code
    <2>0. RunTypes /\ GraphInv /\ SetInv /\ Last \in Nat \ {0}
      BY <1>1, LastPositive DEF Base
    <2>1. ~Produce
      BY <1>1, <2>0, FrontProducesMove, CuratorProducesMove, OtherProducesMove DEF Produce
    <2>2. ~Answer
      BY <1>1, <2>0, AnswerMovesOn
    <2>3. PICK k \in 1 .. MaxStreams : Delivers(k)
      BY <1>1, <2>1, <2>2 DEF Next, Delivers
    <2>4. k \in Numbers /\ RunTypes
      BY <1>1, <2>3, ConsumeKeeps
    <2>5. CASE RecordSet(k)
      <3>1. /\ Taken(k) /\ Head(streams[k].queue).node = "front"
            /\ \E status \in {"applied", "proposed"} : StatusOnly(Head(streams[k].queue).set, status)
        BY <1>1, <2>0, <2>5, FrontNamesSet, RecordSetMove
      <3>2. i = Head(streams[k].queue).set /\ sets'[i].status \in {"applied", "proposed"}
        BY <3>1 DEF StatusOnly
      <3>3. IsFront(k, 1, i)
        BY <2>4, <3>1, <3>2, TakenChunks
      <3>4. sets[i].status = "produced"
        BY <1>1, <2>4, <3>3 DEF LifeInv, NewsInv
      <3> QED
        BY <3>2, <3>4 DEF Follows
    <2>6. CASE Judge(k)
      <3>1. /\ streams[k].job.kind = "judge"
            /\ StatusOnly(streams[k].job.set, IF streams[k].job.passed THEN "curator_approved" ELSE "curator_rejected")
        BY <2>0, <2>6, JudgeMove
      <3>2. AtWork(k, i) /\ sets'[i].status \in {"curator_approved", "curator_rejected"}
        BY <3>1 DEF StatusOnly, AtWork, NoJob
      <3>3. sets[i].status = "proposed"
        BY <1>1, <2>4, <3>1, <3>2 DEF LifeInv, JobInv
      <3> QED
        BY <3>2, <3>3 DEF Follows
    <2>7. ASSUME NEW delivered \in BOOLEAN, ApplyFinishes(k, delivered)
          PROVE  <<sets[i].status, sets'[i].status>> \in Follows
      <3>1. /\ streams[k].job.kind = "apply"
            /\ StatusOnly(streams[k].job.set, IF delivered THEN "applied" ELSE "failed")
        BY <2>0, <2>7, ApplyFinishesMove
      <3>2. AtWork(k, i) /\ sets'[i].status \in {"applied", "failed"}
        BY <3>1 DEF StatusOnly, AtWork, NoJob
      <3>3. sets[i].status = "curator_approved"
        BY <1>1, <2>4, <3>1, <3>2 DEF LifeInv, JobInv
      <3> QED
        BY <3>2, <3>3 DEF Follows
    <2>8. CASE TakeVerdict(k) \/ LoopThrows(k) \/ Snapshot(k) \/ SaveState(k)
      BY <2>8 DEF TakeVerdict, LoopThrows, Snapshot, SaveState
    <2> QED
      BY <2>3, <2>5, <2>6, <2>7, <2>8 DEF Delivers, Consume
  <1>2. ASSUME UNCHANGED vars PROVE Way
    BY <1>2 DEF vars
  <1>3. Base /\ LifeInv /\ [Next]_vars => [Way]_vars
    BY <1>1, <1>2
  <1>4. Spec => [][Way]_vars
    BY <1>3, LifeInvariance, PTL DEF Spec
  <1> QED
    BY <1>4 DEF SetLifecycle

-----------------------------------------------------------------------------
(* What is stored as completed was delivered. *)

\* A set that passed is applied, or will be.
Passes(i) ==
    \/ sets[i].status = "applied"
    \/ \E k \in Numbers : AtWork(k, i) /\ streams[k].job.passed
    \/ \E k \in Numbers : \E n : IsPass(k, n, i)

\* Nothing went wrong, and no human accepted a failed review.
Smooth == accepted = {} /\ failedBy = {} /\ ~thrown

PassInv == Code /\ Smooth => \A u \in Stories : \A i : u < state.idx /\ IsLatest(u, i) => Passes(i)

LEMMA Unbroken == ASSUME Base, failedBy = {} PROVE \A k \in Numbers : ~streams[k].broken
  BY DEF Base, StreamInv, StreamOK

LEMMA PassesOn ==
    ASSUME NEW i, Passes(i), sets'[i].status = sets[i].status,
           \A k \in Numbers : /\ k \in Numbers' /\ streams'[k].job = streams[k].job
                              /\ \A n : IsPass(k, n, i) => IsPass(k, n, i)'
    PROVE  Passes(i)'
  <1>1. CASE sets[i].status = "applied"
    BY <1>1 DEF Passes
  <1>2. CASE \E k \in Numbers : AtWork(k, i) /\ streams[k].job.passed
    BY <1>2 DEF Passes, AtWork
  <1>3. CASE \E k \in Numbers : \E n : IsPass(k, n, i)
    BY <1>3 DEF Passes
  <1> QED
    BY <1>1, <1>2, <1>3 DEF Passes

LEMMA FrontPassed == ASSUME Base, PassInv, FrontProduces PROVE PassInv'
  <1> DEFINE chunk == [node |-> "front", set |-> Len(sets) + 1, passed |-> FALSE]
  <1>1. /\ Last \in Numbers /\ Last' = Last /\ Numbers' = Numbers /\ Len(sets) \in Nat
        /\ DOMAIN sets = 1 .. Len(sets)
    BY LastPositive, NamesSets, FrontProducesMove DEF Base, Pushed, Others, Numbers
  <1>2. /\ \A j \in DOMAIN sets : sets'[j] = sets[j]
        /\ Pushed(chunk) /\ RunTypes /\ state'.idx = state.idx /\ state'.mode = state.mode
        /\ sets'[Len(sets) + 1].story = state.idx
        /\ UNCHANGED <<thrown, accepted, failedBy>>
    BY LastPositive, FrontProducesMove DEF Base
  <1>3. chunk \in ChunkOf(Len(sets) + 1) /\ chunk.node = "front"
    BY <1>1 DEF ChunkOf
  <1> HIDE DEF chunk
  <1>4. /\ \A k \in Numbers : streams'[k].job = streams[k].job
        /\ \A k \in Numbers : k # Last \/ streams[Last].broken => SameChunks(k)
        /\ ~streams[Last].broken => \E m : AtEnd(m) /\ AddedAt(m, chunk)
    BY <1>1, <1>2, <1>3, PushedChunks
  <1>5. DOMAIN sets' = DOMAIN sets \cup {Len(sets) + 1}
    BY FrontSets
  <1> SUFFICES ASSUME Code, Smooth, NEW u \in Stories, NEW i, u < state.idx, IsLatest(u, i)' PROVE Passes(i)'
    BY <1>2 DEF PassInv, Code, Smooth
  <1>6. u # state.idx
    BY StoryNumbers, GraphAssumption DEF Stories
  <1>7. i \in DOMAIN sets /\ IsLatest(u, i)
    BY <1>2, <1>5, <1>6 DEF IsLatest
  <1>8. Passes(i)
    BY <1>7 DEF PassInv
  <1>9. PICK m : AddedAt(m, chunk)
    BY <1>1, <1>4, Unbroken DEF Smooth
  <1>10. \A k \in Numbers : \A n : IsPass(k, n, i) => IsPass(k, n, i)'
    BY <1>1, <1>4, <1>9 DEF SameChunks, AddedAt
  <1> QED
    BY <1>1, <1>2, <1>4, <1>7, <1>8, <1>10, PassesOn

LEMMA CuratorPassed == ASSUME Base, PassInv, CuratorProduces PROVE PassInv'
  <1>1. /\ Last \in Numbers /\ Len(sets) \in Nat /\ RunTypes /\ SetInv /\ sets' = sets
        /\ state.idx \in Stories /\ state'.mode = state.mode /\ DOMAIN sets = 1 .. Len(sets)
        /\ UNCHANGED <<thrown, accepted, failedBy>>
    BY LastPositive, NamesSets, CuratorProducesMove DEF Base
  <1>2. PICK chunk \in ChunkOf(Len(sets)) :
          /\ chunk.node = "curator" /\ chunk.set = LatestSet(state.idx) /\ Pushed(chunk)
          /\ state'.idx = state.idx \/ (state'.idx = state.idx + 1 /\ chunk.passed)
    BY LastPositive, CuratorProducesMove DEF Base
  <1>3. /\ Last' = Last /\ Numbers' = Numbers
        /\ \A k \in Numbers : streams'[k].job = streams[k].job
        /\ \A k \in Numbers : k # Last \/ streams[Last].broken => SameChunks(k)
        /\ ~streams[Last].broken => \E m : AtEnd(m) /\ AddedAt(m, chunk)
    BY <1>1, <1>2, PushedChunks DEF Numbers
  <1> SUFFICES ASSUME Code, Smooth, NEW u \in Stories, NEW i, u < state'.idx, IsLatest(u, i) PROVE Passes(i)'
    BY <1>1 DEF PassInv, Code, Smooth, IsLatest
  <1>4. PICK m : AddedAt(m, chunk)
    BY <1>1, <1>3, Unbroken DEF Smooth
  <1>5. CASE u < state.idx
    <2>1. Passes(i)
      BY <1>5 DEF PassInv
    <2>2. \A k \in Numbers : \A n : IsPass(k, n, i) => IsPass(k, n, i)'
      BY <1>3, <1>4 DEF SameChunks, AddedAt
    <2> QED
      BY <1>1, <1>3, <2>1, <2>2, PassesOn
  <1>6. CASE ~(u < state.idx)
    <2>1. u \in Nat /\ state.idx \in Nat
      BY StoryNumbers, GraphAssumption DEF Stories
    <2>2. u = state.idx /\ chunk.passed
      BY <1>2, <1>6, <2>1
    <2>3. IsLatest(state.idx, i) /\ HasSet(state.idx)
      BY <2>2 DEF IsLatest, HasSet
    <2>4. i = chunk.set
      BY <1>1, <1>2, <2>3, LatestIs, OneLatest
    <2>5. IsPass(Last, m, i)'
      BY <1>2, <1>4, <2>2, <2>4 DEF AddedAt
    <2> QED
      BY <1>1, <1>3, <2>5 DEF Passes
  <1> QED
    BY <1>5, <1>6

LEMMA OtherPassed == ASSUME Base, PassInv, OtherNodeProduces PROVE PassInv'
  <1>1. /\ (thrown => thrown') /\ state'.mode = state.mode /\ (thrown' \/ state'.idx = state.idx \/ ~Code)
        /\ UNCHANGED <<sets, streams, accepted, failedBy>>
    BY OtherProducesMove DEF Base, Code, CodeModes
  <1>2. Last' = Last /\ Numbers' = Numbers
    BY <1>1 DEF Last, Numbers
  <1>3. \A k \in Numbers : SameChunks(k)
    BY <1>1, KeptChunks
  <1> SUFFICES ASSUME Code, Smooth, ~thrown', NEW u \in Stories, NEW i, u < state.idx, IsLatest(u, i) PROVE Passes(i)'
    BY <1>1 DEF PassInv, Code, Smooth, IsLatest
  <1>4. Passes(i)
    BY DEF PassInv
  <1> QED
    BY <1>1, <1>2, <1>3, <1>4, PassesOn DEF SameChunks

LEMMA AnswerPassed == ASSUME Base, PassInv, Answer PROVE PassInv'
  <1>1. /\ Last' = Last + 1 /\ (\A k \in Numbers : streams'[k] = streams[k]) /\ Last \in Nat
        /\ thrown' = thrown /\ state'.mode = state.mode /\ accepted \subseteq accepted'
        /\ state'.idx = state.idx \/ accepted' # {}
        /\ sets' = sets /\ failedBy' = failedBy
    BY LastPositive, AnswerMovesOn DEF Base
  <1>2. \A k \in Numbers : k \in Numbers'
    BY <1>1 DEF Numbers
  <1>3. \A k \in Numbers : SameChunks(k)
    BY <1>1, KeptChunks
  <1> SUFFICES ASSUME Code, Smooth, NEW u \in Stories, NEW i, u < state.idx, IsLatest(u, i) PROVE Passes(i)'
    BY <1>1 DEF PassInv, Code, Smooth, IsLatest
  <1>4. Passes(i)
    BY DEF PassInv
  <1> QED
    BY <1>1, <1>2, <1>3, <1>4, PassesOn DEF SameChunks

\* A chunk is read that is no verdict on the set that passed it, or is acted on.
LEMMA TakenPassed ==
    ASSUME Base, NEW k, Taken(k), NEW i, Passes(i), sets[i].status = "applied" => sets'[i].status = "applied",
           IsPass(k, 1, i) => sets'[i].status = "applied" \/ (AtWork(k, i)' /\ streams'[k].job.passed)
    PROVE  Passes(i)'
  <1>1. /\ k \in Numbers /\ Shifted(k) /\ Numbers' = Numbers /\ streams[k].job = NoJob
        /\ \A l \in Numbers : l # k => SameChunks(l) /\ streams'[l].job = streams[l].job
    BY TakenChunks DEF Base, Taken, Consuming, Others, Numbers
  <1>2. CASE sets[i].status = "applied"
    BY <1>2 DEF Passes
  <1>3. ASSUME NEW l \in Numbers, AtWork(l, i), streams[l].job.passed PROVE Passes(i)'
    <2>1. l # k
      BY <1>1, <1>3 DEF AtWork
    <2>2. AtWork(l, i)' /\ streams'[l].job.passed
      BY <1>1, <1>3, <2>1 DEF AtWork
    <2> QED
      BY <1>1, <2>2 DEF Passes
  <1>4. ASSUME NEW l \in Numbers, NEW n, IsPass(l, n, i) PROVE Passes(i)'
    <2>1. CASE l # k
      <3>1. IsPass(l, n, i)'
        BY <1>1, <1>4, <2>1 DEF SameChunks
      <3> QED
        BY <1>1, <3>1 DEF Passes
    <2>2. CASE l = k /\ n = 1
      <3>1. IsPass(k, 1, i)
        BY <1>4, <2>2
      <3> QED
        BY <1>1, <3>1 DEF Passes
    <2>3. CASE l = k /\ n # 1
      <3>1. PICK m : m = n - 1
        OBVIOUS
      <3>2. IsPass(k, m, i)'
        BY <1>1, <1>4, <2>3, <3>1 DEF Shifted
      <3> QED
        BY <1>1, <3>2 DEF Passes
    <2> QED
      BY <2>1, <2>2, <2>3
  <1> QED
    BY <1>2, <1>3, <1>4 DEF Passes

LEMMA ConsumePassed ==
    ASSUME Base, LifeInv, PassInv, NEW k \in 1 .. MaxStreams, Delivers(k) PROVE PassInv'
  <1>1. /\ RunTypes /\ RunTypes' /\ k \in Numbers /\ Others(k) /\ Last' = Last /\ Numbers' = Numbers
        /\ state' = state /\ thrown' = thrown /\ accepted' = accepted /\ project' = project
        /\ UNCHANGED sets \/ \E i, status : StatusOnly(i, status)
    BY ConsumeKeeps
  <1>2. failedBy \subseteq failedBy'
    BY DEF Delivers, Consume, RecordSet, TakeVerdict, Judge, ApplyFinishes, LoopThrows, Snapshot, SaveState
  <1>3. \A u, i : IsLatest(u, i)' <=> IsLatest(u, i)
    <2>1. DOMAIN sets' = DOMAIN sets /\ \A j \in DOMAIN sets : sets'[j].story = sets[j].story
      BY <1>1 DEF StatusOnly, RunTypes
    <2> QED
      BY <2>1 DEF IsLatest
  <1> SUFFICES ASSUME Code, Smooth, failedBy' = {}, NEW u \in Stories, NEW i, u < state.idx, IsLatest(u, i)
               PROVE  Passes(i)'
    BY <1>1, <1>2, <1>3 DEF PassInv, Code, Smooth
  <1>4. Passes(i) /\ i \in DOMAIN sets
    BY DEF PassInv, IsLatest
  <1>5. \A l \in Numbers : l # k => SameChunks(l) /\ streams'[l].job = streams[l].job
    BY <1>1, OtherChunks
  <1>6. CASE RecordSet(k)
    <2>1. /\ Taken(k) /\ streams'[k].job = NoJob
          /\ Head(streams[k].queue).node = "front" /\ Head(streams[k].queue).set \in DOMAIN sets
      BY <1>1, <1>6, FrontNamesSet, RecordSetMove
    <2>2. PICK i0 \in DOMAIN sets : i0 = Head(streams[k].queue).set
      BY <2>1
    <2>3. PICK status : StatusOnly(i0, status)
      BY <1>1, <1>6, <2>2, FrontNamesSet, RecordSetMove
    <2>4. IsFront(k, 1, i0)
      BY <1>1, <2>1, <2>2, TakenChunks
    <2>5. sets[i0].status = "produced"
      BY <1>1, <2>4 DEF LifeInv, NewsInv
    <2>6. sets[i].status = "applied" => sets'[i].status = "applied"
      BY <1>4, <2>3, <2>5 DEF StatusOnly
    <2>7. ~IsPass(k, 1, i)
      BY <2>4 DEF IsFront, IsPass, IsVerdict
    <2> QED
      BY <1>4, <2>1, <2>6, <2>7, TakenPassed
  <1>7. CASE TakeVerdict(k)
    <2>1. /\ Taken(k) /\ sets' = sets
          /\ streams'[k].job = JobFor(FindProposed(Head(streams[k].queue).set), Head(streams[k].queue).passed)
      BY <1>1, <1>7, TakeVerdictMove
    <2>2. ASSUME IsPass(k, 1, i), sets[i].status # "applied" PROVE AtWork(k, i)' /\ streams'[k].job.passed
      <3>1. IsVerdict(k, 1, i)
        BY <2>2 DEF IsPass
      <3>2. VerdictSent(k, 1, i)
        BY <1>1, <1>4, <3>1 DEF LifeInv, OnceInv
      <3>3. sets[i].status # "produced"
        <4>1. \A m : IsFront(k, m, i) => ~(m < 1)
          BY <1>1, NamesSets
        <4> QED
          BY <3>2, <4>1 DEF VerdictSent
      <3>4. sets[i].status = "proposed" /\ i # 0
        BY <1>1, <1>4, <2>2, <3>2, <3>3 DEF VerdictSent, RunTypes
      <3>5. Head(streams[k].queue).set = i /\ Head(streams[k].queue).passed
        <4>1. streams[k].queue # <<>> /\ Head(streams[k].queue) = streams[k].queue[1]
          BY <1>1, <2>1, QueueTail DEF Taken
        <4> QED
          BY <2>2, <4>1 DEF IsPass, IsVerdict
      <3>6. streams'[k].job = [kind |-> "judge", set |-> i, passed |-> Head(streams[k].queue).passed]
        BY <2>1, <3>4, <3>5 DEF JobFor, FindProposed
      <3>7. streams'[k].job.kind = "judge" /\ streams'[k].job.set = i /\ streams'[k].job.passed
        BY <3>5, <3>6
      <3> QED
        BY <3>7 DEF AtWork, NoJob
    <2> QED
      BY <1>4, <2>1, <2>2, TakenPassed
  <1>8. CASE Judge(k)
    <2>1. PICK i0 \in DOMAIN sets : i0 = streams[k].job.set
      BY <1>1, <1>8, JudgeMove
    <2>2. /\ streams[k].job.kind = "judge" /\ streams'[k].queue = streams[k].queue
          /\ \E status : StatusOnly(i0, status)
          /\ streams[k].job.passed /\ project =>
               streams'[k].job = [kind |-> "apply", set |-> i0, passed |-> TRUE]
      BY <1>1, <1>8, <2>1, JudgeMove
    <2>3. AtWork(k, i0) /\ sets[i0].status = "proposed"
      <3>1. AtWork(k, i0)
        BY <2>1, <2>2 DEF AtWork, NoJob
      <3> QED
        BY <1>1, <2>2, <3>1 DEF LifeInv, JobInv
    <2>4. SameChunks(k)
      BY <2>2, KeptChunks
    <2>5. ASSUME NEW l \in Numbers, AtWork(l, i), streams[l].job.passed PROVE AtWork(l, i)' /\ streams'[l].job.passed
      <3>1. CASE l # k
        BY <1>5, <2>5, <3>1 DEF AtWork
      <3>2. CASE l = k
        <4>1. i = i0 /\ project
          BY <2>1, <2>5, <3>2 DEF AtWork, LifeInv, RouteInv
        <4>2. streams'[k].job = [kind |-> "apply", set |-> i, passed |-> TRUE]
          BY <2>2, <2>5, <3>2, <4>1
        <4>3. streams'[k].job.kind = "apply" /\ streams'[k].job.set = i /\ streams'[k].job.passed
          BY <4>2
        <4> QED
          BY <3>2, <4>3 DEF AtWork, NoJob
      <3> QED
        BY <3>1, <3>2
    <2>6. sets[i].status = "applied" => sets'[i].status = "applied"
      BY <1>4, <2>2, <2>3 DEF StatusOnly
    <2>7. \A l \in Numbers : \A n : IsPass(l, n, i) => IsPass(l, n, i)'
      BY <1>5, <2>4 DEF SameChunks
    <2> QED
      BY <1>1, <1>4, <2>5, <2>6, <2>7 DEF Passes
  <1>9. ASSUME NEW delivered \in BOOLEAN, ApplyFinishes(k, delivered) PROVE Passes(i)'
    <2>1. PICK i0 \in DOMAIN sets : i0 = streams[k].job.set
      BY <1>1, <1>9, ApplyFinishesMove
    <2>2. /\ failedBy' = IF delivered THEN failedBy ELSE failedBy \cup {k}
          /\ StatusOnly(i0, IF delivered THEN "applied" ELSE "failed")
          /\ streams'[k].queue = streams[k].queue
      BY <1>1, <1>9, <2>1, ApplyFinishesMove
    <2>3. StatusOnly(i0, "applied")
      BY <2>2
    <2>4. SameChunks(k)
      BY <2>2, KeptChunks
    <2>5. CASE i = i0
      BY <1>4, <2>3, <2>5 DEF StatusOnly, Passes
    <2>6. CASE i # i0
      <3>1. ~AtWork(k, i)
        BY <2>1, <2>6 DEF AtWork
      <3>2. sets'[i].status = sets[i].status
        BY <1>4, <2>3, <2>6 DEF StatusOnly
      <3>3. \A l \in Numbers : AtWork(l, i) => AtWork(l, i)' /\ streams'[l].job = streams[l].job
        BY <1>5, <3>1 DEF AtWork
      <3>4. \A l \in Numbers : \A n : IsPass(l, n, i) => IsPass(l, n, i)'
        BY <1>5, <2>4 DEF SameChunks
      <3> QED
        BY <1>1, <1>4, <3>2, <3>3, <3>4 DEF Passes
    <2> QED
      BY <2>5, <2>6
  <1>10. ~LoopThrows(k)
    <2>1. ASSUME LoopThrows(k) PROVE FALSE
      <3>1. failedBy' = failedBy \cup {k}
        BY <2>1 DEF LoopThrows
      <3> QED
        BY <3>1
    <2> QED
      BY <2>1
  <1>11. CASE Snapshot(k) \/ SaveState(k)
    <2>1. /\ streams'[k].job = streams[k].job /\ sets' = sets
          /\ streams'[k].queue = streams[k].queue
      <3>1. CASE Snapshot(k)
        <4>1. LoopOver(k) /\ streams'[k].job = streams[k].job /\ sets' = sets /\ streams'[k].queue = <<>>
          BY <1>1, <3>1, SnapshotMove DEF Base
        <4>2. streams[k].queue = <<>>
          BY <1>1, <4>1, Unbroken DEF LoopOver, Exhausted, Smooth
        <4> QED
          BY <4>1, <4>2
      <3>2. CASE SaveState(k)
        <4>1. streams[k].snapshot # "none"
          BY <1>1, <3>2 DEF SaveState, Base, StreamInv, StreamOK
        <4> QED
          BY <1>1, <3>2, <4>1, SaveStateMove
      <3> QED
        BY <1>11, <3>1, <3>2
    <2>2. SameChunks(k)
      BY <2>1, KeptChunks
    <2>3. \A l \in Numbers : streams'[l].job = streams[l].job /\ SameChunks(l)
      BY <1>5, <2>1, <2>2
    <2> QED
      BY <1>1, <1>4, <2>1, <2>3, PassesOn DEF SameChunks
  <1> QED
    BY <1>6, <1>7, <1>8, <1>9, <1>10, <1>11 DEF Delivers, Consume

LEMMA StepPassed == Base /\ LifeInv /\ PassInv /\ [Next]_vars => PassInv'
  <1> SUFFICES ASSUME Base, LifeInv, PassInv, [Next]_vars PROVE PassInv'
    OBVIOUS
  <1>1. CASE UNCHANGED vars
    BY <1>1 DEF vars, graphVars, PassInv, Code, Smooth, Passes, IsLatest, IsPass, IsVerdict, AtWork, Numbers, Last
  <1> QED
    BY <1>1, FrontPassed, CuratorPassed, OtherPassed, AnswerPassed, ConsumePassed DEF Next, Delivers, Produce

\* What is stored as completed was delivered: in the modes that edit a project, the latest change
\* set of every story is in the project, unless a human accepted a failed review, declined another
\* retry, resumed a run whose delivery had been blocked, or answered before the stream before was over.
THEOREM CompletedMeansDelivered == Spec => []CompletedIsDelivered
  <1>1. Init => PassInv
    <2> SUFFICES ASSUME Init PROVE PassInv
      OBVIOUS
    <2>1. DOMAIN sets = {}
      BY DEF Init
    <2> QED
      BY <2>1 DEF PassInv, IsLatest
  <1>2. Spec => []PassInv
    BY <1>1, StepPassed, LifeInvariance, PTL DEF Spec
  <1>3. ASSUME Base, TellInv, PassInv PROVE CompletedIsDelivered
    <2> SUFFICES ASSUME stored = "completed", AllClosed, Code, accepted = {}, ~stopped, failedBy = {}, ~overlap,
                        NEW u \in Stories, LatestSet(u) # 0
                 PROVE  sets[LatestSet(u)].status = "applied"
      BY DEF CompletedIsDelivered, Code
    <2>1. state.status = "completed" /\ ~thrown
      BY <1>3, LastPositive DEF TellInv, Tells, AllClosed, Numbers
    <2>2. state.idx = state.stories
      BY <1>3, <2>1 DEF Base, GraphInv, P!IInv, P!CompletedAtTheEnd
    <2>3. PICK i : i = LatestSet(u)
      OBVIOUS
    <2>4. IsLatest(u, i)
      BY <1>3, <2>3, LatestIs DEF Base
    <2>5. u < state.idx
      BY <1>3, <2>2, <2>4 DEF IsLatest, Base, SetInv
    <2>6. Passes(i)
      BY <1>3, <2>1, <2>4, <2>5 DEF PassInv, Smooth
    <2>7. \A k \in Numbers : streams[k].queue = <<>> /\ streams[k].job = NoJob
      BY <1>3 DEF AllClosed, Numbers, Base, StreamInv, StreamOK, Over
    <2>8. \A k \in Numbers : \A n : ~IsPass(k, n, i) /\ ~AtWork(k, i)
      BY <2>7 DEF IsPass, IsVerdict, AtWork
    <2> QED
      BY <2>3, <2>6, <2>8 DEF Passes
  <1> QED
    BY <1>2, <1>3, TellInvariance, PTL
=============================================================================
