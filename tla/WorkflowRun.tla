----------------------------- MODULE WorkflowRun -----------------------------
(***************************************************************************)
(* A workflow run as WorkflowOrchestrator sees it: the graph (module       *)
(* WorkflowGraph) produces chunks, runGraphStream consumes them and        *)
(* delivers the front agent's change sets through                          *)
(* CodeChangeSetLifecycleService, and WorkflowStatePersister writes the    *)
(* status of the run when a stream is over.  The graph runs ahead of the   *)
(* consumer.  A human answer starts another stream, as soon as the graph   *)
(* has reached the checkpoint and its event was emitted: the stream before *)
(* may still be delivering and has not yet written its status.             *)
(***************************************************************************)
EXTENDS GraphNodes, Sequences

CONSTANT MaxStreams   \* bound on the streams of a run: the first one and one per answer

ASSUME RunAssumption == MaxStreams \in Nat \ {0}

VARIABLES
    state, next, done, thrown, accepted, stopped, attempts,   \* of WorkflowGraph
    project,   \* the run has a frontendProjectRootPath
    sets,      \* the change sets in the order the front agent made them
    streams,   \* the activations of runGraphStream, the producing one last
    stored,    \* the status WorkflowStatePersister saved last
    ledger,    \* the status of the run in the execution ledger
    overlap,   \* history: an answer was taken before the stream before it was over
    failedBy   \* history: the streams in which a delivery failed, or the loop threw

G == INSTANCE WorkflowGraph

graphVars == <<state, next, done, thrown, accepted, stopped, attempts>>
statusVars == <<stored, ledger>>
vars == <<graphVars, project, sets, streams, stored, ledger, overlap, failedBy>>

\* "produced": in the graph's state only, not yet recorded by the consumer.
SetStatus == {"produced", "proposed", "curator_rejected", "curator_approved", "applied", "failed"}

\* How the consumer left off with the latest curator chunk: it found the proposed set the
\* verdict is about (set), or it is applying the approved one.
NoJob == [kind |-> "none", set |-> 0, passed |-> FALSE]

OpenStream == [phase |-> "open", queue |-> <<>>, job |-> NoJob, blocked |-> FALSE,
               broken |-> FALSE, snapshot |-> "none"]

Last == Len(streams)

\* The candidateId of a verdict names the change set of the story's latest front result.
\* Wrong variant: the first result is taken.
FirstSet(u) ==
    LET of == {i \in DOMAIN sets : sets[i].story = u}
    IN  IF of = {} THEN 0 ELSE CHOOSE i \in of : \A j \in of : i <= j

LatestSet(u) ==
    LET of == {i \in DOMAIN sets : sets[i].story = u}
    IN  IF of = {} THEN 0 ELSE CHOOSE i \in of : \A j \in of : j <= i

Init ==
    /\ G!Init
    /\ project \in BOOLEAN /\ (state.mode \in CodeModes => project)
    /\ sets = <<>>
    /\ streams = <<OpenStream>>
    /\ stored = "running" /\ ledger = "running"
    /\ overlap = FALSE /\ failedBy = {}

-----------------------------------------------------------------------------
(* The producer: a step of the graph, and the chunk the stream gets of it. *)

\* Once the consumer has thrown, chunks go nowhere.
Push(chunk) ==
    streams' = IF streams[Last].broken THEN streams
               ELSE [streams EXCEPT ![Last].queue = Append(@, chunk)]

\* Every front result brings a change set; only a project can have been edited directly.
FrontProduces ==
    /\ G!RunFrontAgent
    /\ state'.front[state.idx] = "edited" => project
    /\ sets' = Append(sets, [story  |-> state.idx,
                             edited |-> state'.front[state.idx] = "edited",
                             status |-> "produced"])
    /\ Push([node |-> "front", set |-> Len(sets) + 1, passed |-> FALSE])
    /\ UNCHANGED <<project, stored, ledger, overlap, failedBy>>

CuratorProduces ==
    /\ G!RunCuratorAgent
    /\ Push([node |-> "curator", set |-> LatestSet(state.idx),
             passed |-> state'.feedback[state.idx].passed])
    /\ UNCHANGED <<project, sets, stored, ledger, overlap, failedBy>>

OtherNodeProduces ==
    /\ G!RunSpecAgent \/ G!RunOdinAgent \/ G!RunQaAgent \/ G!NodeThrows
    /\ UNCHANGED <<project, sets, streams, stored, ledger, overlap, failedBy>>

\* Whether the graph goes on without a consumer is up to LangGraph.
Produce == FrontProduces \/ CuratorProduces \/ OtherNodeProduces

\* resume, retryDecision, curatorReviewDecision: the graph waits at the checkpoint, which is
\* all that is asked, and the chunk whose event tells the human so was read.
Answer ==
    /\ Last < MaxStreams
    /\ streams[Last].queue = <<>>
    /\ G!HumanStep
    /\ streams' = Append(streams, OpenStream)
    /\ overlap' = (overlap \/ \E k \in 1 .. Last : streams[k].phase # "closed")
    /\ UNCHANGED <<project, sets, stored, ledger, failedBy>>

-----------------------------------------------------------------------------
(* The consumer of stream k. *)

Consuming(k) == /\ k \in 1 .. Last
                /\ streams[k].phase = "open" /\ streams[k].job = NoJob /\ ~streams[k].broken

\* The loop reads all chunks until the graph ends, throws or is interrupted.  Wrong
\* variants: chunks are left unread; an interrupt does not end the loop.
ExhaustedEarly(k) == k < Last \/ ~G!Working
ExhaustedAtEnd(k) == streams[k].queue = <<>> /\ (k < Last \/ next = {})

Exhausted(k) == streams[k].queue = <<>> /\ (k < Last \/ ~G!Working)

\* persistProposedCodeChangeSets.
RecordSet(k) ==
    /\ Consuming(k) /\ streams[k].queue # <<>> /\ Head(streams[k].queue).node = "front"
    /\ LET i == Head(streams[k].queue).set
       IN  sets' = [sets EXCEPT ![i].status = IF @ = "produced" /\ sets[i].edited
                                              THEN "applied" ELSE "proposed"]
    /\ streams' = [streams EXCEPT ![k].queue = Tail(@)]
    /\ UNCHANGED <<graphVars, project, statusVars, overlap, failedBy>>

\* The look-up of finalizeAfterCurator: a set that is not "proposed" is not found.  Wrong
\* variant: whatever set the verdict names.
FindAny(i) == i

FindProposed(i) == IF i # 0 /\ sets[i].status = "proposed" THEN i ELSE 0

\* What is left to do for a verdict: nothing if no set was found.  Wrong variant: the early
\* return is missing.
JobForAny(found, passed) == [kind |-> "judge", set |-> found, passed |-> passed]

JobFor(found, passed) ==
    IF found = 0 THEN NoJob ELSE [kind |-> "judge", set |-> found, passed |-> passed]

TakeVerdict(k) ==
    /\ Consuming(k) /\ streams[k].queue # <<>> /\ Head(streams[k].queue).node = "curator"
    /\ LET chunk == Head(streams[k].queue)
       IN  streams' = [streams EXCEPT
               ![k].queue = Tail(@),
               ![k].job = JobFor(FindProposed(chunk.set), chunk.passed)]
    /\ UNCHANGED <<graphVars, project, sets, statusVars, overlap, failedBy>>

\* The rest of it: the record found before is written back with the verdict, and an approved
\* set is applied if there is a project to apply it to.
Judge(k) ==
    /\ k \in 1 .. Last /\ streams[k].job.kind = "judge"
    /\ LET job == streams[k].job
       IN  /\ sets' = [sets EXCEPT ![job.set].status =
                           IF job.passed THEN "curator_approved" ELSE "curator_rejected"]
           /\ streams' = [streams EXCEPT ![k].job =
                           IF job.passed /\ project THEN [job EXCEPT !.kind = "apply"] ELSE NoJob]
    /\ UNCHANGED <<graphVars, project, statusVars, overlap, failedBy>>

\* A blocked delivery blocks the stream for good.  Wrong variant: the last delivery decides.
LastBlocks(k, delivered) == ~delivered

Blocked(k, delivered) == streams[k].blocked \/ ~delivered

\* The applier reports a set it could not apply, or one that failed final validation and was
\* rolled back, as failed.
ApplyFinishes(k, delivered) ==
    /\ k \in 1 .. Last /\ streams[k].job.kind = "apply"
    /\ sets' = [sets EXCEPT ![streams[k].job.set].status = IF delivered THEN "applied" ELSE "failed"]
    /\ streams' = [streams EXCEPT ![k].job = NoJob, ![k].blocked = Blocked(k, delivered)]
    /\ failedBy' = IF delivered THEN failedBy ELSE failedBy \cup {k}
    /\ UNCHANGED <<graphVars, project, statusVars, overlap>>

\* Whatever the loop waits for may throw: a write of a spec or of a change set, or the applier, when
\* the change does not fit the files or after it rolled a failed write back.  The record stays as it
\* is and the loop is left by its catch block, with the chunks that nobody has read.
LoopThrows(k) ==
    /\ k \in 1 .. Last /\ streams[k].phase = "open" /\ ~streams[k].broken
    /\ streams' = [streams EXCEPT ![k].job = NoJob, ![k].queue = <<>>, ![k].broken = TRUE]
    /\ failedBy' = failedBy \cup {k}
    /\ UNCHANGED <<graphVars, project, sets, statusVars, overlap>>

\* resolvePersistedStatus.  Wrong variant: a pending checkpoint hides an error.
ResolveCheckpointFirst(isError) ==
    IF next \cap Checkpoints # {} THEN "awaiting_human"
    ELSE IF isError THEN "error"
    ELSE IF state.status # "running" THEN state.status
    ELSE "completed_unverified"

ResolvePersistedStatus(isError) ==
    IF isError THEN "error"
    ELSE IF next \cap Checkpoints # {} THEN "awaiting_human"
    ELSE IF state.status # "running" THEN state.status
    ELSE "completed_unverified"

\* The loop is over, or was left by an error, and persist reads the graph's state.  A node
\* that threw rejects the stream, which may drop the chunks not read yet.
HasError(k) == streams[k].blocked \/ streams[k].broken \/ (k = Last /\ thrown)

Snapshot(k) ==
    /\ \/ Consuming(k) /\ (Exhausted(k) \/ (k = Last /\ thrown))
       \/ k \in 1 .. Last /\ streams[k].phase = "open" /\ streams[k].broken
    /\ streams' = [streams EXCEPT
           ![k].phase = "saving", ![k].queue = <<>>,
           ![k].snapshot = ResolvePersistedStatus(HasError(k))]
    /\ UNCHANGED <<graphVars, project, sets, statusVars, overlap, failedBy>>

\* ... and saves what it read.  Only the first stream has an execution to report to.
SaveState(k) ==
    /\ k \in 1 .. Last /\ streams[k].phase = "saving"
    /\ stored' = streams[k].snapshot
    /\ ledger' = IF k = 1 THEN streams[k].snapshot ELSE ledger
    /\ streams' = [streams EXCEPT ![k].phase = "closed", ![k].snapshot = "none"]
    /\ UNCHANGED <<graphVars, project, sets, overlap, failedBy>>

Consume(k) ==
    \/ RecordSet(k) \/ TakeVerdict(k) \/ Judge(k)
    \/ \E delivered \in BOOLEAN : ApplyFinishes(k, delivered)
    \/ Snapshot(k) \/ SaveState(k)

Next == Produce \/ Answer \/ \E k \in 1 .. MaxStreams : Consume(k) \/ LoopThrows(k)

Spec == Init /\ [][Next]_vars

\* Agents return or throw, the loop reads what is there, and the applier's commands have
\* timeouts.  Nothing obliges the human to answer.
FairSpec == /\ Spec
            /\ WF_vars(Produce /\ ~streams[Last].broken)
            /\ \A k \in 1 .. MaxStreams : WF_vars(Consume(k))

-----------------------------------------------------------------------------
StoredStatus == NodeStatus \cup {"completed_unverified", "error"}

Chunk == [node : {"front", "curator"}, set : 0 .. Len(sets), passed : BOOLEAN]
Job   == [kind : {"judge", "apply"}, set : DOMAIN sets, passed : BOOLEAN] \cup {NoJob}

TypeOK ==
    /\ G!TypeOK
    /\ project \in BOOLEAN /\ overlap \in BOOLEAN
    /\ failedBy \subseteq 1 .. MaxStreams
    /\ sets \in Seq([story : Stories, edited : BOOLEAN, status : SetStatus])
    /\ streams \in Seq([phase : {"open", "saving", "closed"}, queue : Seq(Chunk), job : Job,
                        blocked : BOOLEAN, broken : BOOLEAN, snapshot : StoredStatus \cup {"none"}])
    /\ stored \in StoredStatus /\ ledger \in StoredStatus

AllClosed == \A k \in 1 .. Last : streams[k].phase = "closed"

\* A change set goes one way: it is judged once, applied once and only when approved, and
\* never changes again after it was rejected, applied or failed.  In the modes whose verdicts
\* always send the front agent back, this holds even while two streams deliver at once.
Follows == { <<"produced", "proposed">>, <<"produced", "applied">>,
             <<"proposed", "curator_rejected">>, <<"proposed", "curator_approved">>,
             <<"curator_approved", "applied">>, <<"curator_approved", "failed">> }

SetLifecycle ==
    [][\A i \in DOMAIN sets :
         sets'[i].status # sets[i].status /\ (state.mode \in CodeModes \/ ~overlap) =>
             <<sets[i].status, sets'[i].status>> \in Follows]_vars

\* No stream ends with work undone: once all are over and neither an agent nor the loop
\* threw, the curator's verdict reached every change set and every approved one was applied,
\* or reported as failed, if there is a project.
EverySetDecided ==
    AllClosed /\ ~thrown /\ (\A k \in 1 .. Last : ~streams[k].broken) =>
        \A i \in DOMAIN sets :
            /\ sets[i].status \notin {"produced", "proposed"}
            /\ project => sets[i].status # "curator_approved"

\* What is stored as completed was delivered: in the modes that edit a project, the latest
\* change set of every story is in the project, unless a human accepted a failed review,
\* declined another retry, resumed a run whose delivery had been blocked or whose loop had thrown,
\* or answered before the stream before was over.
CompletedIsDelivered ==
    stored = "completed" /\ AllClosed /\ state.mode \in CodeModes
      /\ accepted = {} /\ ~stopped /\ failedBy = {} /\ ~overlap =>
        \A u \in Stories : LatestSet(u) # 0 => sets[LatestSet(u)].status = "applied"

\* A delivery that failed, or an error of the loop, is never stored as a success by the stream it
\* happened in.
BlockedIsError ==
    \A k \in failedBy : k = Last /\ streams[k].phase = "closed" /\ ~overlap => stored = "error"

\* When every stream is over and none overlapped another, the stored status tells whether a
\* human is awaited, so that the run can be found and resumed.
StoredTellsWaiting ==
    AllClosed /\ ~overlap => ((stored = "awaiting_human") <=> (G!Waiting /\ Last \notin failedBy))

\* Every stream comes to its end and reports.
StreamsClose ==
    \A k \in 1 .. MaxStreams : (k <= Last) ~> (k <= Last /\ streams[k].phase = "closed")

=============================================================================
