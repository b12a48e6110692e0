# Horus.AI in TLA+

Horus.AI turns a user story into code through a workflow of agents: a spec agent
writes a specification, ODIN routes it to a front and a QA agent, a curator
judges the result, and humans answer at three checkpoints. The server
(`src/apps/server`) runs the workflow as a LangGraph graph, delivers the change
sets that passed into a project, and keeps the run's status in a store and in an
execution ledger.

## Inventory

| Part | State | Operations | What is hard about it | What makes it correct |
|---|---|---|---|---|
| Workflow graph (`infrastructure/langgraph`) | the channels of `UBuildStateAnnotation` | six agent nodes, three checkpoints, eight routers | loops through agents and humans, counters and flags shared by all stories, front and QA agents in parallel | bounded retries, nothing leaks between stories, completion only when all stories are settled, the human is asked where the graph waits |
| Run streams (`WorkflowOrchestrator.runGraphStream`) | one activation per start or answer; its local "delivery blocked" message | consume chunks, emit events, persist the status | the graph runs ahead of the consumer; an answer may start the next stream before the last one finished | every stream ends and reports; no error is forgotten |
| Change set delivery (`CodeChangeSetLifecycleService`, appliers) | change set records | propose, judge, apply | find and save with awaits between, several sets per story, an applier that fails or throws | one way through the lifecycle; completed means applied |
| Status (`WorkflowStatePersister`) | stored status of the run | persist | a snapshot written late | it tells whether a human is awaited |
| Execution ledger and outbox (`*AgentExecutionLedgerRepository`, `drainExecutionOutbox`) | turns, runs, attempts, outbox events with locks | start, enqueue, claim, complete, fail, recover at boot | retries of a start, crashes between writes, a lease without heartbeat | one run per turn, every queued start is run or dead-lettered, nothing processed is left running |
| Event log (`FileWorkflowEventLogRepository`, `PersistentWorkflowEventStream`, `SseEventStreamAdapter`) | lock file, JSON lines, subscribers, history | append, list, emit, subscribe, cleanup | unawaited appends racing for a lock with a timeout; crash with the lock held | unique consecutive numbers, no append left hanging, no gap between log and live stream |
| Node isolation (`AgentNodeIsolation`) | circuits per agent profile | wrap, attempts, timeout, open and close a circuit | zombie attempts, two agents updating one document | a circuit opens after the threshold and closes after the cooldown |
| Execution tasks (`ExecutionTaskRuntime`) | task records, abort markers, child processes | start, approve, retry, cancel, time out, kill through another runtime | signals racing exits, two runtimes on one record, restart | nothing that wants approval runs without one, a killed command is not a success |
| Command permission (`CommandPermissionEngine`) | none | tokenise, classify, decide allow, ask or deny | the same command in several forms, judged by several policies | a retry or an approval never widens what may run |
| Preview sessions (`PreviewRuntimeManager`, `ProcessBrowserPreviewAdapter`) | session records, managed processes | create, start, stop, reload, device, recover at boot | whole records saved from copies read before an await, children that outlive the server | a record names only a child of its session and this server |
| Chat turns (`SubmitHorusChatTurnUseCase`, `FileChatMemoryStore`) | messages, locks per key and per session | submit, replay, fail, cancel | concurrent submissions with one key, failure half-way, a client that leaves | the work is done once per key, one answer per turn, every lock released |
| Coding runtime (`CodingRuntimeOrchestrator`, `CodingWorkflowStateMachine`) | the coding task's record | run the pipeline, fail, cancel | several requests on copies of one record, stored without looking | the last word is a terminal state, a patch replaces what was validated |
| File mutations (`FileMutationPreflightApplier`, `ProjectCodeChangeSetApplier`) | project files | plan, gate, apply, roll back | a write failing half-way, other writers in between | all or nothing |

Parts without a model and without a plan (agents' prompts and parsing, indexing,
HTTP routes, the web client, archives, git wrappers) are listed with the reason
in PROJECT.json.

How they interact: a use case calls `WorkflowOrchestrator.start`, which writes the
ledger, the initial state and an outbox event, and drains the outbox; draining runs
the graph through `runGraphStream`. The stream's chunks go to
`CodeChangeSetLifecycleService` and, as events, through `WorkflowEventProjector` to the
log and to subscribers. An answer of a human calls `resume`, `retryDecision` or
`curatorReviewDecision`, each of which starts another stream on the same graph thread.
At boot the server drains the outbox and marks silent runs as stalled.
A chat turn starts a workflow through the same `start`, with the turn's idempotency key;
the coding runtime and the delivery of change sets share the file applier; agents' tools
start execution tasks, which the routes list, kill, retry and approve.

## Modules

* **StoryPipeline** is the abstract specification of a workflow: stories are settled
  one at a time and in order, the run works or waits for a human, and is never
  completed with stories left unless the human said to stop.
* **GraphNodes** has the nodes and the routers as operators on a record of channel
  values: a node gives the new state, a router the set of nodes to run next. A
  specification is abstracted to what ODIN reads of it, a verdict to its `passed` flag,
  to whether its score is below `SCORE_THRESHOLD`, and to `fixTarget`. Two constants
  describe how the graph is wired: `GatesAvailable` (`preflightCodeChangeSet` is
  injected) and `WiredValidators` (the other validators of the curator are the
  server's own; without it they may answer anything).
  Definitions commented "Wrong variant" are plausible bugs of the definition that
  follows them; no specification uses them. They exist to show that a
  property notices such a bug.
* **WorkflowGraph** runs them: one action per node and per answer of a human. `next` is
  the current superstep, `done` the workers of it that finished (the front and QA
  agents run in parallel and the curator after both), `thrown` that a node threw.
* **WorkflowRun** is a run as the orchestrator sees it. The graph's steps push chunks to
  the queue of the current stream; each stream consumes its chunks at its own pace:
  `RecordSet` (`persistProposedCodeChangeSets`), `TakeVerdict` and `Judge` (the look-up
  and the save of `finalizeAfterCurator`, between which others may run), `ApplyFinishes`,
  `Snapshot` and `SaveState` (the read and the write of `persist`). `LoopThrows` is any error
  of what the loop awaits (an applier that throws, a spec or a change set that cannot be
  saved); it may come at any time and is not assumed to. Emitting events is synchronous and
  part of the step it belongs to.
  `Answer` takes a human's answer as soon as the chunk that announced the checkpoint
  was read, which is before that stream is over.
* **MCWorkflowGraph** and **MCWorkflowRun** add statements of the repository that the
  code does not keep (the findings).
* **AppendOnlyLog** is the abstract specification of a thread's event log: it grows by one
  emitted event at a time, holds none twice, numbers them one after the other.
* **WorkflowEventLog** is the file log and what a viewer sees of it. Each emission starts an
  append that nobody awaits; `appends[e]` says how far it is (`Acquire`, `ComputeSequence`,
  `WriteLine`, `Release`, and their failures `GiveUp`, `ListFails`, `WriteFails`), so any number of
  appends race for the lock file. `tail` says whether the log ends in a newline, in a line
  whose newline is missing, or in a part of a line: a failed write or `Crash` leaves any of
  them, and a line written after one without its newline spoils both. `lock` is `Stale` when
  the lock file has outlived its owner. `viewer` is a browser tab: the run it fetched,
  the events it streamed, and the stream's route, which lists (`ListAfter`) and then sends and
  subscribes (`Subscribe`); emissions and appends may come in between. Time is not modelled:
  the five-second timeout of the lock may strike at any moment (`GiveUp`). One thread,
  one server process at a time, one tab.
* **MCWorkflowEventLog** adds what the documentation says of the timeline.
* **ExecutionOutbox** is the durable start of a run on the Postgres ledger, one statement per
  step. `call[r]` walks through `start` (turn, run, attempt, stored state, outbox event);
  `drain[d]` is a drain loop: it claims the pending events and those whose lock is stale, runs the
  graph of each one, saves the outcome, writes it to run, attempt and turn, and
  completes the event; each of these may fail and leads to another place in the code.
  `rec` is the recovery of a boot: it drains, then visits the runs, attempts and turns
  the ledger still calls running, then the stored states. `Reboot` loses calls and drain
  loops at any point. A lock is `fresh` or `stale`; `LeaseExpires` may strike
  under a live drain loop (there is no heartbeat), but then costs a trouble. Whether a thread is silent
  is up to chance in any recovery (`Silence`), also for a run that was just claimed: claiming writes no event.
* **CommandPermission** has the rules of the permission engine as operators: `Evaluate` judges a
  command, given as what tokenising its line yields (segments with their program and
  subcommand, marks for operators that are refused, the agent, whether a script's text is harmless).
* **ExecutionTasks** runs commands under these rules. `own[t]` is the chain of callbacks of the
  runtime that started the task, cut at each await; `disk`, `marker` and `child` are what the routes'
  runtime sees of a task that is not its own, and `kill[t]` is its kill in three steps.
  A retry or an approval makes a new task from the record of an old one; `root` follows the chain
  back to the first.
* **FilePatches** is the applier on a project's files: a plan that reads and checks the operations one
  by one (`before[i]` is what it read for operation i), the frontend gate, one action per operation, and
  a rollback in reverse order whose writes may fail as well. Nothing in the applier keeps a change set
  from having several operations on one file, and the model allows it. Files are not locked; `late`
  collects what others wrote since the plan. An operation is `guarded` when its change set says
  what it expects of the file (`beforeContent`, a hash, a "missing" precondition).
* **CodingTasks** extends it by the coding runtime: `stored` is the record, `runner[r].task` the
  copy a run moves along the pipeline and stores after each step, `canceller` the request that
  cancels. The runs are patchers, and a third patcher, a workflow's delivery, writes
  the same project. A run updates each of its files once and only as it read it, as `AstPatchPlanner`
  drafts one update per file with its `beforeContent` and hash; a delivery may do anything. A store call
  that fails may have stored the state all the same (`StoreFails`).
* **PreviewSessions** is the manager with the adapter and the session file: each request
  reads the record, then does what the code awaits (probe, spawn, wait until ready, SIGTERM, SIGKILL)
  and saves the whole record it read. `child` has the operating system's processes,
  `managed` the adapter's map, which a restart empties and the children survive.
* **ChatTurns** has the turns of one session. A lock is a chain of promises: `tail` is the last
  in the chain, `ahead[r]` the one `r` waits for. The phases of a turn are those of `execute`; an
  append reads the messages, writes them and touches the session under the message lock.
  What a turn works on is one step that succeeds or throws.
* **MCExecutionOutbox**, **MCExecutionTasks**, **MCCodingTasks**, **MCPreviewSessions** and
  **MCChatTurns** give constants their values and name symmetry sets.
* **WorkflowGraphProofs**, **WorkflowRunProofs**, **WorkflowEventLogProofs**, **ExecutionOutboxProofs**,
  **ExecutionTasksProofs**, **CodingTasksProofs** (with FilePatches), **PreviewSessionsProofs** and
  **ChatTurnsProofs** hold the theorems about the module they are named after. They define
  invariants and lemmas only; no run uses them.

## Runs

| Run | Question | Bounds | Shows |
|---|---|---|---|
| `graph` | does the graph keep its invariants whatever agents and humans answer? | 2 stories, `MAX_RETRIES` 3 as in the code, validators that answer anything | `WaitsAtItsCheckpoint`, `CompletedMeansSettled`, `AttemptsBounded`, `FreshStory`, `AutomationHalts`, and that WorkflowGraph implements StoryPipeline |
| `run` | is every change set decided and delivered, and is the stored status right? | 2 stories, 1 retry, 2 streams | `EverySetDecided`, `CompletedIsDelivered`, `BlockedIsError`, `StoredTellsWaiting`, `SetLifecycle`, `StreamsClose` |
| `event_log` | is the log numbered, exclusive and append-only, does every append settle, does the viewer miss an event? | 3 events, 1 older one, history of 2, 1 crash, 1 fetch | `LockIsExclusive`, `NumbersAreConsecutive`, `EveryAppendSettles`, `NoGap`, and that WorkflowEventLog implements AppendOnlyLog |
| `outbox` | does one key give one thread, and does anything stay unsettled? | 2 starts with one key, 2 drain loops, dead letter at attempt 2 (3 in the code), 2 troubles | `OneThreadPerKey`, `ProcessedIsSettled`, `ColdBootSettles`, `EveryQueuedSettles` |
| `tasks` | can a command get around its approval, or a kill around the record? | a tool's task and one made from it, 5 commands, 1 trouble | `NoSpawnUnapproved`, `KilledIsRecorded`, `WatchedSettles` |
| `coding` | is a patch all or nothing, and does a task end? | 2 runs and 1 cancellation of a task, a workflow's delivery that deletes one of the 2 files and creates it again, 1 trouble; symmetric in the runs | `AllOrNothing`, `QuietIsTerminal`, `ValidatedIsReplaced` |
| `previews` | is the record true of the children? | 1 session, 2 requests at once, 3 live children, 1 trouble; symmetric in requests and in children | `RecordKnowsChild`, `ProcessIsOurs` |
| `chat` | is a key worked on once and every turn answered? | 3 turns with one key, 1 without, 1 trouble | `WorkedOnce`, `TurnsAreAnswered`, `TurnsEnd` |
| `graph_odin_without_spec` | has a story that is routed a specification? | as `graph`, validators as wired | no: after an accepted review the next story goes to ODIN without one and the run fails |
| `graph_review_of_failure` | is a pending review about a pass? | as `graph`, validators as wired | no: a failing verdict asks for a review, and with the wired validators all do |
| `run_undelivered` | is a completed run's work in the project? | as `run` | no: the failed delivery of an earlier stream, whose loop did not throw, is forgotten when the run is resumed |
| `event_log_timeline` | does the timeline show an event once? | 3 events, history of 2, no crash, 1 fetch | no: subscribing replays the history under new sequence numbers |

Why the bounds are enough. All state of a story is indexed by the story or reset when
the index moves, and routers look at the current story only, so two stories show every
hand-over (first to last, last to end); the theorems hold for any number. In `run` one
retry gives a story two change sets and two streams give one answer, overlapping or
not; three streams were explored once while the model was written, with the
same result for `SetLifecycle`.

In `event_log` three appends are needed for one to hold the lock while two wait, and for the
history of two to forget an event; a crash may fall between any two steps. `maxHistory`
is 50 in the code; the model keeps the relation (more events than the history holds).

A trouble is a crash, a failing write or call, a client that leaves or a lease that expires under a live
worker. The hazards of these modules need one or two of them at the right moment, and TLC tries
every moment. In `outbox` two attempts are one retry and one dead letter; a third repeats the retry.
Two drain loops are a worker and the one that takes over from it. In `tasks` the commands are one per
verdict of the permission rules, and one for each way in which the verdict changes
between a shell line, its direct form in a retry and an approval. In `chat` three turns with one key let one
work while two wait, so that the entry of the map is removed with a waiter behind and without; the
fourth makes the two locks interfere. In `previews` a slot of a dead child that nothing refers to is
used again, which bounds the children that matter and not how often a session is started; the
session file of each session is its own; what sessions share is the address, and one session with
the children of former servers already has it answered by a child that is not its own.

Guards on the properties name real limits. `NoGap` excuses an event after which as many
were emitted as the history holds: then a stream that lists before it is logged and
subscribes after can miss it. `SetLifecycle` is not claimed for overlapping
streams outside the code-editing modes: there a review refused with `fixTarget` "qa"
judges the same change set again, and two streams may both have read it as proposed.
`CompletedIsDelivered` leaves out runs in which a human accepted a failed review,
stopped, answered early or resumed after a failed delivery or an error of the loop. The last of these is the
finding `run_undelivered`. `ProcessedIsSettled` excuses the outcomes `WorkflowStatePersister`
could not save, which it swallows. `RecordKnowsChild` is about requests that do not overlap;
`TurnsAreAnswered` about turns whose own appends did not fail; `QuietIsTerminal` about runs
that neither a crash nor the store cut off.

Deadlock is not checked: a run that ended, or that waits for a human, may stop, and so may a
server that no request comes to.

### What the models show besides

Behaviour of the code that no document contradicts, met while modelling and allowed by the models:

* Outbox: a graph that runs for more than two minutes may be claimed and run a second time
  on the same thread. A run whose save failed stays running until a recovery finds it.
* Tasks: approving a task does not consume it, so a repeated approval runs the command again. A shell
  utility a profiled agent may run from a shell line is outside its profile in the direct form
  a retry uses; a compound line of such an agent is put up for approval and refused once approved. The kill
  of another runtime's task does not escalate to SIGKILL, and may write "aborted" over a
  completed record. Until the first record is written nobody listens to the
  child, so one that ends before is never settled; if that write fails, an untracked child goes on.
  The record of a task whose server died stays "running".
* Coding: a cancellation that comes while a run works is overwritten by the run's next step: the state
  machine refuses to leave a terminal state, but of the run's copy only.
* Previews: two starts at once spawn two servers, and the first one is lost to the adapter;
  no record changes when a child exits by itself; children survive the server, and the
  probe of a later start can be answered by one of them.
* Chat: a failed turn keeps its key, and a retry with the same key replays the failure, which the
  web client avoids by a fresh key. The failure text says the message was saved also when saving it is
  what failed. A crash leaves a user message without answer, and the same key works again.

### Fairness

`AgentStep` is weakly fair: every agent attempt is raced against a timeout
(`AgentNodeIsolation.ts:133`), so a node returns or throws. In WorkflowRun each
consumer is weakly fair: the loop reads what is there and the commands of the applier
have timeouts. The graph itself is fair only while its consumer still reads: whether
LangGraph goes on after the consumer has left is not assumed. Nothing makes the human
answer. In WorkflowEventLog each append is weakly fair: file operations return, and an append
that waits for the lock polls it and gives up (`acquireFileLock`). The viewer is not fair.

In ExecutionOutbox each drain loop is weakly fair (its calls return or throw), a lock nobody
holds becomes two minutes old, and drain loops keep being started: each `start` and each
boot starts one, an idle server none, so `EveryQueuedSettles` assumes continued traffic. In
ExecutionTasks the owner's callbacks run and its timeout and SIGKILL timers fire; that a child ends
by itself, or on SIGTERM, is not assumed. In ChatTurns the steps of a turn are weakly fair: the models,
tools and stores it calls return or fail. CodingTasks and PreviewSessions are checked for
invariants only and state no fairness.

## Proofs

Every invariant and every action property of a passing run, and both refinements, are theorems. They
hold for every value of the constants that the modules' assumptions admit; a run shows the same on one
small instance. The argument has the same form everywhere: an inductive invariant, checked by TLC on
the run's instance before it was proved, one lemma per action, or per kind of effect an action has,
and the property from the invariant. What each invariant adds to the property is the interesting part.

**WorkflowGraphProofs** (any number of stories, any `MAX_RETRIES`, any wiring: `GraphAssumption`) proves
`TypeOK`, `WaitsAtItsCheckpoint`, `AttemptsBounded`, `CompletedMeansSettled`, `FreshStory` and
`ImplementsPipeline`. The invariant says which statuses and indices go with which `next` (a node runs
on a story that exists, a spec agent never runs in a code-editing mode, END means a final status),
that every story before the current one is settled, and how `attempts` and `retryCount` are related
at each node: that relation makes the bound inductive, since the curator reads the counter while the
property is about the verdicts. For `FreshStory` and the refinement, `Modest` adds that a run which
only writes specifications has no retries and that a stopped run is over. In the refinement each
action is a step of StoryPipeline or a stutter.

**WorkflowRunProofs** (any number of stories, retries and streams: `GraphAssumption`, `RunAssumption`)
proves `TypeOK`, `BlockedIsError`, `StoredTellsWaiting`, `EverySetDecided`, `SetLifecycle` and
`CompletedIsDelivered`. The graph inside the run keeps the invariant of WorkflowGraphProofs, which is
instantiated. Steps are first described by their effect on streams and sets. Then the invariants come one
on another: `Base` (types, what a stream may hold in which phase, the latest set of a story), `TellInv`
(a status a stream has read and not saved yet is the true one), `NewsInv` (a front chunk is the first
news of its set), `PendingInv` (a set that is not decided has a chunk or a job on its way), `RouteInv`
and `OnceInv` (for each set at most one verdict is on its way, and none for a decided one), `JobInv`
(what a job holds is what is stored) and `PassInv` (a story that passed has its latest set applied, on
its way, or one of the named exceptions occurred). In the code-editing modes these hold for overlapping
streams too.

**WorkflowEventLogProofs** (any number of events, any older log, any history, any number of crashes and
fetches: `LogAssumption`) proves `TypeOK`, `LockIsExclusive`, `NumbersAreConsecutive`, `NoGap` and
`ImplementsAppendOnlyLog`. An append that has computed its number holds the next one (`NumberIsNext`):
the lock keeps the log from growing in between, so exclusion and numbering are proved together. A
logged event's append has left the phases before the write (`LoggedHasWritten`), which makes it unique.
For `NoGap`, an event that may still get into the log is in the history or too old for it
(`PendingIsRemembered`); between listing and subscribing, what was listed too early is in the history
(`ListedOrRemembered`); and an open stream has received all that may still be logged
(`PendingIsReceived`).

**ExecutionOutboxProofs** (any requests, keys, drain loops, attempts and troubles: `OutboxAssumption`,
which asks for at least one drain loop because a boot starts one) proves `TypeOK`, `OneThreadPerKey`,
`ProcessedIsSettled` and `ColdBootSettles`. The invariant adds the unique index (a turn has at most one
run, `OneRun`), what a call and a drain loop know of their run at each step, and that the running
runs a recovery knows of are among those it has still to visit.

**ExecutionTasksProofs** (any tasks and commands: `TasksAssumption`; a command in direct form has one
segment, because the code makes it of one program and its arguments) proves `TypeOK`, `NoSpawnUnapproved`,
`KilledIsRecorded`, and beyond the run's properties `NothingDeniedRuns`: a command with a segment that the static rules
refuse is never spawned. The lemma about the permission engine is `AllowedIsApproved`: what `Evaluate`
allows has no refused segment, and was approved if any form of it wants approval. The invariant says of
each task that it was judged before its child exists (`Judged`), where its callbacks can be for each
state of record and child (`Placed`), what marker and flags tell of a signal (`Marked`), and that its
root is the first of its chain (`Rooted`).

**CodingTasksProofs** (any patchers, files, change sets, runs and cancellations: `PatchAssumption`,
`CodingAssumption`) proves `TypeOK`, `AllOrNothing`, `QuietIsTerminal` and `ValidatedIsReplaced`.
For `AllOrNothing` the invariant says of every operation of every patch what its file holds unless it
is late: before the operation is applied what the plan read, afterwards its result, and under
rollback again what the plan read; that covers several operations on one file, where only the last one
shows. `ValidatedIsReplaced` needs that what the validation ran on, the base of the change set and what the plan
read are the same content (`CheckedInv`, `PlannedIsBase`). It needs the assumption that a run updates
files and updates each once: a creation overwrites without comparing.

**PreviewSessionsProofs** (any sessions, requests, children and troubles: `PreviewAssumption`) proves `TypeOK`,
`ProcessIsOurs` and `RecordKnowsChild`. A request holds for its session only children spawned for it
(`RequestOK`), which is why whole records saved late name no stranger; on an orderly session the one request
in flight knows the only child that lives (`OrderlyOK`).

**ChatTurnsProofs** (any requests and keys, any troubles: `TurnsAssumption`) proves `TypeOK`, `WorkedOnce` and
`TurnsAreAnswered`. The chains of promises are queues: their members can be ranked so that each waits
for the one before, nobody for the first, and the tail is the last (`LockInv`). The rank exists and is
nowhere in the code; without it a removed tail could belong to someone in the middle. From it follow one holder per
key, one append at a time, and that an append writes back messages nobody changed since it read them. `TalkInv`
and `ToldInv` say what a turn at each phase has in the conversation.

What stays with TLC, because the prover cannot do liveness under fairness or ENABLED: `AutomationHalts`,
`StreamsClose`, `EveryAppendSettles`, `EveryQueuedSettles`, `WatchedSettles` and `TurnsEnd`. The
properties of the findings are violated and have no theorem. No definition is recursive, so nothing else is
out of the prover's reach.

## Not modelled

Prompts, parsing of model answers, and what files contain: an agent's answer is an
arbitrary member of a small set, and a file's content is who wrote it. The LangGraph recursion
limit is one of the reasons for which `NodeThrows` happens. The curator's immediate escalation of a
structural mismatch (`curatorAgentNode.ts:246-264`) is left out: it needs a front result without a change
set, and `frontAgentNode.ts:187-203` attaches one to every result. Two answers to the same checkpoint at the
same time are not modelled, because what concurrent invocations of a thread do is LangGraph's.

* AgentNodeIsolation: the attempts inside a node, abandoned ones that go on editing, and the circuit
  breaker's store, which the parallel agents rewrite as a whole.
* FileMemorySaver: the order in which its whole-file writes are renamed.
* The file ledger, used without a database: its read-modify-write of one document without a lock.
* A crash while a resumed stream runs (WorkflowRun has no restart, ExecutionOutbox only first streams).
* CodingTasks: `createTask`'s lookup by idempotency key, and the copy of the project that the runtime
  validation takes while others may be writing it: the copy is one step.
* PreviewSessions: visual instruction drafts, the event stream, and the timeline, whose `appendEvent`
  is a read-modify-write without a lock; when it fails after a save, the request ends with an error and the
  same record. A boot whose recovery cannot list or save the sessions ends the server (nothing catches
  it at `server.ts:183`), which is the next `Crash`.
* ExecutionTasks: `SafeCliRunner`, which runs one command without a record, and output. `Terminate`
  takes the abort marker and the signal as one step: the code does not await the marker's write
  (`ExecutionTaskRuntime.ts:599-609`), but the owner's callbacks read the abort from memory. Whether a direct
  command names a program of its agent's profile is judged where it is refused, after an approval,
  and not where approval is asked.
* ChatTurns: creating a session, whose read-modify-write of `sessions.json` takes no lock while
  `appendMessage` writes the same file, and the actions of a turn.
* The HTTP routes beyond what is named above, the web client, indexing and search, project
  construction, git wrappers, evaluations and tests: parsing, display, data transformation and calls
  of external tools. Most of the repository's lines are of this kind.

## Plan

1. Done: StoryPipeline, GraphNodes, WorkflowGraph, WorkflowRun, AppendOnlyLog,
   WorkflowEventLog, and theorems about the graph and the log.
2. Done: ExecutionOutbox, CommandPermission, ExecutionTasks, FilePatches, CodingTasks,
   PreviewSessions, ChatTurns.
3. Done: theorems for all invariants, action properties and refinements the runs check.
4. Abstract specifications of the durable start (queued, run, settled or dead-lettered) and of a
   keyed turn (asked, answered once), refined by ExecutionOutbox and ChatTurns; action properties of
   the task records and of the preview records; shorter proofs where one lemma can serve several.
5. AgentNodeIsolation with the circuit breaker, the file ledger against the guarantees of
   ExecutionOutbox, FileMemorySaver.
