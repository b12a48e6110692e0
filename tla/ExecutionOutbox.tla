--------------------------- MODULE ExecutionOutbox ---------------------------
(***************************************************************************)
(* The durable start of a workflow: WorkflowOrchestrator.start writes a    *)
(* turn, a run, an attempt, the initial state and an outbox event, one     *)
(* statement each, and drain loops claim the event, run the graph and      *)
(* write the outcome back.  The ledger is the Postgres one, where each     *)
(* statement is atomic.  The process can die between any two steps; after  *)
(* a restart the boot drains the outbox and WorkflowRecoveryService looks  *)
(* at what is left.  A request stands for the thread it would create.      *)
(***************************************************************************)
EXTENDS Naturals, FiniteSets

CONSTANTS
    Requests,     \* the calls of start, each with the thread id it draws
    Keys,         \* the idempotency keys of turns
    Key,          \* the key of each request, or NoKey: it comes from no chat message
    NoKey,
    Drains,       \* slots for the drain loops that run at once
    MaxAttempts,  \* the attempt that leads to a dead letter
    MaxTroubles   \* bound on the crashes and failing ledger or storage calls; a lease that expires
                  \* under a live drain loop uses all of it

ASSUME OutboxAssumption ==
    /\ Key \in [Requests -> Keys \cup {NoKey}] /\ NoKey \notin Keys
    /\ Drains # {}
    /\ MaxAttempts \in Nat \ {0}
    /\ MaxTroubles \in Nat

VARIABLES
    turn,     \* the status of the turn of each key
    run,      \* the ledger status of each thread's run
    attempt,  \* the status of the run's only attempt
    stored,   \* the status of the stored workflow state
    outbox,   \* the start event of each run, its attempt count and its lock
    call,     \* where each start call is, and the thread it returned
    drain,    \* the drain loops
    rec,      \* the recovery of this boot
    unsaved,  \* history: the threads whose outcome WorkflowStatePersister failed to save
    troubles  \* how many there were

ledgerVars == <<turn, run, attempt, outbox>>
vars == <<turn, run, attempt, stored, outbox, call, drain, rec, unsaved, troubles>>

\* "completed" stands for every terminal status but error: they are written alike.
Terminal == {"completed", "error"}
RunStatus == {"none", "running", "awaiting_human"} \cup Terminal
TurnStatus == {"none", "accepted", "running", "completed", "failed"}
OutboxStatus == {"none", "pending", "processing", "failed", "processed", "dead_letter"}

CallPc == {"idle", "lookup", "run", "attempt", "store", "turn", "queue", "returned", "rejected"}
DrainPc == {"off", "claim", "check", "graph", "persist", "run", "attempt", "turn", "complete", "fail"}
RecPc == {"off", "drain", "list", "pick", "store", "run", "turn", "legacy", "done"}

NoThread == "no thread"
Idle == [pc |-> "off", ev |-> NoThread, count |-> 0, result |-> "none", caught |-> FALSE]
Claiming == [Idle EXCEPT !.pc = "claim"]
NoRecovery == [pc |-> "off", by |-> {}, todo |-> {}, cur |-> NoThread, status |-> "none", known |-> {}]

Init ==
    /\ turn = [k \in Keys |-> "none"]
    /\ run = [r \in Requests |-> "none"]
    /\ attempt = [r \in Requests |-> "none"]
    /\ stored = [r \in Requests |-> "none"]
    /\ outbox = [r \in Requests |-> [status |-> "none", attempts |-> 0, lock |-> "none"]]
    /\ call = [r \in Requests |-> [pc |-> "idle", thread |-> NoThread]]
    /\ drain = [d \in Drains |-> Idle]
    /\ rec = NoRecovery
    /\ unsaved = {}
    /\ troubles = 0

Trouble == troubles < MaxTroubles /\ troubles' = troubles + 1

FreeSlot == CHOOSE d \in Drains : drain[d].pc = "off"

Holders(r) == {d \in Drains : drain[d].pc \notin {"off", "claim"} /\ drain[d].ev = r}

SameTurn(r, q) == Key[r] # NoKey /\ Key[r] = Key[q]

-----------------------------------------------------------------------------
(* WorkflowOrchestrator.start *)

AtCall(r, pc) == call[r].pc = pc
Goto(r, pc) == call' = [call EXCEPT ![r].pc = pc]

\* createTurn answers with the turn the key already has.
CallTurn(r) ==
    /\ AtCall(r, "idle")
    /\ IF Key[r] = NoKey
       THEN Goto(r, "run") /\ UNCHANGED turn
       ELSE /\ Goto(r, "lookup")
            /\ turn' = [turn EXCEPT ![Key[r]] = IF @ = "none" THEN "accepted" ELSE @]
    /\ UNCHANGED <<run, attempt, stored, outbox, drain, rec, unsaved, troubles>>

\* getRunByTurnId: a run of the same turn ends the call with that run's thread.
CallLookup(r) ==
    /\ AtCall(r, "lookup")
    /\ \/ /\ \A q \in Requests : SameTurn(r, q) => run[q] = "none"
          /\ Goto(r, "run")
       \/ \E q \in Requests :
            /\ SameTurn(r, q) /\ run[q] # "none"
            /\ call' = [call EXCEPT ![r] = [pc |-> "returned", thread |-> q]]
    /\ UNCHANGED <<ledgerVars, stored, drain, rec, unsaved, troubles>>

\* Wrong variant: no unique index on the turn of a run.
CreateRunAnyTurn(r) ==
    /\ AtCall(r, "run")
    /\ run' = [run EXCEPT ![r] = "running"]
    /\ Goto(r, "attempt")
    /\ UNCHANGED <<turn, attempt, stored, outbox, drain, rec, unsaved, troubles>>

\* createRun inserts; the second insert for a turn violates the unique index and the call fails.
CallRun(r) ==
    /\ AtCall(r, "run")
    /\ IF \E q \in Requests : SameTurn(r, q) /\ run[q] # "none"
       THEN Goto(r, "rejected") /\ UNCHANGED run
       ELSE Goto(r, "attempt") /\ run' = [run EXCEPT ![r] = "running"]
    /\ UNCHANGED <<turn, attempt, stored, outbox, drain, rec, unsaved, troubles>>

CallAttempt(r) ==
    /\ AtCall(r, "attempt")
    /\ attempt' = [attempt EXCEPT ![r] = "running"]
    /\ Goto(r, "store")
    /\ UNCHANGED <<turn, run, stored, outbox, drain, rec, unsaved, troubles>>

\* storage.save of the initial state, and the status_changed event.
CallStore(r) ==
    /\ AtCall(r, "store")
    /\ stored' = [stored EXCEPT ![r] = "running"]
    /\ Goto(r, IF Key[r] = NoKey THEN "queue" ELSE "turn")
    /\ UNCHANGED <<ledgerVars, drain, rec, unsaved, troubles>>

CallTurnRunning(r) ==
    /\ AtCall(r, "turn")
    /\ turn' = [turn EXCEPT ![Key[r]] = "running"]
    /\ Goto(r, "queue")
    /\ UNCHANGED <<run, attempt, stored, outbox, drain, rec, unsaved, troubles>>

\* enqueueOutbox, a drain loop nobody waits for, and the answer.
CallQueue(r) ==
    /\ AtCall(r, "queue")
    /\ outbox' = [outbox EXCEPT ![r].status = "pending"]
    /\ call' = [call EXCEPT ![r] = [pc |-> "returned", thread |-> r]]
    /\ \E d \in Drains : drain[d].pc = "off"
    /\ drain' = [drain EXCEPT ![FreeSlot] = Claiming]
    /\ UNCHANGED <<turn, run, attempt, stored, rec, unsaved, troubles>>

\* What is left of a call that fails or dies: one that created no run may be made again.
Broken(c) == CASE c.pc \in {"idle", "lookup", "run"} -> [c EXCEPT !.pc = "idle"]
               [] c.pc \in {"attempt", "store", "turn", "queue"} -> [c EXCEPT !.pc = "rejected"]
               [] OTHER -> c

\* A write of the call fails: what it wrote before stays.
CallFails(r) ==
    /\ call[r].pc \notin {"idle", "returned", "rejected"}
    /\ Trouble
    /\ call' = [call EXCEPT ![r] = Broken(@)]
    /\ UNCHANGED <<ledgerVars, stored, drain, rec, unsaved>>

Call(r) == CallTurn(r) \/ CallLookup(r) \/ CallRun(r) \/ CallAttempt(r) \/ CallStore(r)
             \/ CallTurnRunning(r) \/ CallQueue(r)

-----------------------------------------------------------------------------
(* drainExecutionOutbox, processExecutionOutboxEvent and the part of       *)
(* runGraphStream that writes the ledger.                                  *)

At(d, pc) == drain[d].pc = pc
Step(d, pc) == drain' = [drain EXCEPT ![d].pc = pc]

\* Wrong variant: an event that is being processed is never claimed again.
ClaimableIdle(r) == outbox[r].status \in {"pending", "failed"}

\* pending, failed, or processing under a lock older than the lease.
Claimable(r) ==
    \/ outbox[r].status \in {"pending", "failed"}
    \/ outbox[r].status = "processing" /\ outbox[r].lock = "stale"

\* The start of a thread outside this model drains too; a loop that would find nothing to claim
\* changes nothing and is left out.
StartDrain ==
    /\ \E r \in Requests : Claimable(r)
    /\ \E d \in Drains : drain[d].pc = "off"
    /\ drain' = [drain EXCEPT ![FreeSlot] = Claiming]
    /\ UNCHANGED <<ledgerVars, stored, call, rec, unsaved, troubles>>

\* claimNextOutbox takes the oldest; times are abstract, so any may be the oldest.
Claim(d) ==
    /\ At(d, "claim")
    /\ \E r \in Requests :
         /\ Claimable(r)
         /\ outbox' = [outbox EXCEPT ![r] = [status |-> "processing", attempts |-> @.attempts + 1,
                                             lock |-> "fresh"]]
         /\ drain' = [drain EXCEPT ![d] = [Idle EXCEPT !.pc = "check", !.ev = r,
                                                       !.count = outbox[r].attempts + 1]]
    /\ UNCHANGED <<turn, run, attempt, stored, call, rec, unsaved, troubles>>

\* Nothing to claim: the loop is over, and the boot goes on with the stale runs.
DrainDone(d) ==
    /\ At(d, "claim")
    /\ \A r \in Requests : ~Claimable(r)
    /\ drain' = [drain EXCEPT ![d] = Idle]
    /\ rec' = IF d \in rec.by THEN [rec EXCEPT !.pc = "list", !.by = {}] ELSE rec
    /\ UNCHANGED <<ledgerVars, stored, call, unsaved, troubles>>

\* A run that is over is not run again; any other starts from its first input.
Check(d) ==
    /\ At(d, "check")
    /\ LET r == drain[d].ev
       IN  IF run[r] \in Terminal
           THEN Step(d, "complete") /\ UNCHANGED rec
           ELSE Step(d, "graph") /\ rec' = [rec EXCEPT !.known = @ \ {r}]
    /\ UNCHANGED <<ledgerVars, stored, call, unsaved, troubles>>

\* The stream is over: the graph ended, waits for a human, or threw.
GraphEnds(d) ==
    /\ At(d, "graph")
    /\ \E result \in {"completed", "error", "awaiting_human"}, caught \in BOOLEAN :
         /\ caught => result = "error"
         /\ drain' = [drain EXCEPT ![d].pc = "persist", ![d].result = result, ![d].caught = caught]
    /\ UNCHANGED <<ledgerVars, stored, call, rec, unsaved, troubles>>

Persist(d) ==
    /\ At(d, "persist")
    /\ stored' = [stored EXCEPT ![drain[d].ev] = drain[d].result]
    /\ Step(d, "run")
    /\ UNCHANGED <<ledgerVars, call, rec, unsaved, troubles>>

\* The persister swallows its own failure and returns no status: the ledger is left alone,
\* unless the stream is already handling an error.  The state may have been saved before a later
\* write of the persister failed.
PersistFails(d) ==
    /\ At(d, "persist")
    /\ Trouble
    /\ \/ UNCHANGED stored
       \/ stored' = [stored EXCEPT ![drain[d].ev] = drain[d].result]
    /\ Step(d, IF drain[d].caught THEN "run" ELSE "complete")
    /\ unsaved' = unsaved \cup {drain[d].ev}
    /\ UNCHANGED <<ledgerVars, call, rec>>

UpdateRun(d) ==
    /\ At(d, "run")
    /\ run' = [run EXCEPT ![drain[d].ev] = drain[d].result]
    /\ Step(d, "attempt")
    /\ UNCHANGED <<turn, attempt, outbox, stored, call, rec, unsaved, troubles>>

UpdateAttempt(d) ==
    /\ At(d, "attempt")
    /\ attempt' = [attempt EXCEPT ![drain[d].ev] =
                     IF drain[d].result = "error" THEN "failed" ELSE "completed"]
    /\ Step(d, IF Key[drain[d].ev] = NoKey THEN "complete" ELSE "turn")
    /\ UNCHANGED <<turn, run, outbox, stored, call, rec, unsaved, troubles>>

\* Wrong variant: the status of the run is written to the turn.
TurnAsRun(result) == result

TurnOf(result) == CASE result = "error" -> "failed"
                    [] result = "completed" -> "completed"
                    [] OTHER -> "running"

UpdateTurn(d) ==
    /\ At(d, "turn")
    /\ turn' = [turn EXCEPT ![Key[drain[d].ev]] = TurnOf(drain[d].result)]
    /\ Step(d, "complete")
    /\ UNCHANGED <<run, attempt, outbox, stored, call, rec, unsaved, troubles>>

\* Wrong variant: the failure is logged and the event goes on.
WriteFailsQuietly(d) ==
    /\ drain[d].pc \in {"run", "attempt", "turn"}
    /\ Trouble
    /\ Step(d, "complete")
    /\ UNCHANGED <<ledgerVars, stored, call, rec, unsaved>>

\* A ledger write fails: once, the stream writes an error instead; while it does so, the event fails.
WriteFails(d) ==
    /\ drain[d].pc \in {"run", "attempt", "turn"}
    /\ Trouble
    /\ drain' = IF drain[d].caught THEN [drain EXCEPT ![d].pc = "fail"]
                ELSE [drain EXCEPT ![d].pc = "persist", ![d].result = "error", ![d].caught = TRUE]
    /\ UNCHANGED <<ledgerVars, stored, call, rec, unsaved>>

\* The reads before the stream, or completeOutbox, fail.
ProcessFails(d) ==
    /\ drain[d].pc \in {"check", "complete"}
    /\ Trouble
    /\ Step(d, "fail")
    /\ UNCHANGED <<ledgerVars, stored, call, rec, unsaved>>

Complete(d) ==
    /\ At(d, "complete")
    /\ outbox' = [outbox EXCEPT ![drain[d].ev] = [@ EXCEPT !.status = "processed", !.lock = "none"]]
    /\ drain' = [drain EXCEPT ![d] = Claiming]
    /\ UNCHANGED <<turn, run, attempt, stored, call, rec, unsaved, troubles>>

\* failOutbox: whoever holds the event by now, and claimable again at once.
Fail(d) ==
    /\ At(d, "fail")
    /\ outbox' = [outbox EXCEPT ![drain[d].ev] = [@ EXCEPT !.lock = "none",
                    !.status = IF drain[d].count >= MaxAttempts THEN "dead_letter" ELSE "failed"]]
    /\ drain' = [drain EXCEPT ![d] = Claiming]
    /\ UNCHANGED <<turn, run, attempt, stored, call, rec, unsaved, troubles>>

Work(d) == Claim(d) \/ DrainDone(d) \/ Check(d) \/ GraphEnds(d) \/ Persist(d) \/ UpdateRun(d)
             \/ UpdateAttempt(d) \/ UpdateTurn(d) \/ Complete(d) \/ Fail(d)

-----------------------------------------------------------------------------
(* Time and crashes *)

\* Nothing renews the lock while the graph runs.
LeaseExpires(r) ==
    /\ outbox[r].status = "processing" /\ outbox[r].lock = "fresh"
    /\ IF Holders(r) = {} THEN UNCHANGED troubles
       ELSE troubles = 0 /\ troubles' = MaxTroubles
    /\ outbox' = [outbox EXCEPT ![r].lock = "stale"]
    /\ UNCHANGED <<turn, run, attempt, stored, call, drain, rec, unsaved>>

\* The process dies, also of a failing claim, failOutbox or recovery (nobody waits for those
\* promises, and an unhandled rejection ends the process), and comes back.  A call that had not
\* created a run may be made again.  recoverPendingExecutions begins with a drain.  After a long
\* outage every lock is stale, and every run that was running (known) is silent until a stream
\* starts on it.
Reboot(long) ==
    /\ Trouble
    /\ LET slot == CHOOSE d \in Drains : TRUE
       IN  /\ drain' = [d \in Drains |-> IF d = slot THEN Claiming ELSE Idle]
           /\ rec' = [NoRecovery EXCEPT !.pc = "drain", !.by = {slot},
                         !.known = IF long THEN {r \in Requests : run[r] = "running"} ELSE {}]
    /\ call' = [r \in Requests |-> Broken(call[r])]
    /\ outbox' = IF long THEN [r \in Requests |-> [outbox[r] EXCEPT !.lock =
                                                     IF @ = "fresh" THEN "stale" ELSE @]]
                 ELSE outbox
    /\ UNCHANGED <<turn, run, attempt, stored, unsaved>>

-----------------------------------------------------------------------------
(* WorkflowRecoveryService *)

AtRec(pc) == rec.pc = pc

\* Wrong variant: only the runs that have an outbox event are looked at.
ListQueuedRuns ==
    /\ AtRec("list")
    /\ rec' = [rec EXCEPT !.pc = "pick",
                          !.todo = {r \in Requests : run[r] = "running" /\ outbox[r].status # "none"}]
    /\ UNCHANGED <<ledgerVars, stored, call, drain, unsaved, troubles>>

ListRecoverableRuns ==
    /\ AtRec("list")
    /\ rec' = [rec EXCEPT !.pc = "pick", !.todo = {r \in Requests : run[r] = "running"}]
    /\ UNCHANGED <<ledgerVars, stored, call, drain, unsaved, troubles>>

Picking == [rec EXCEPT !.pc = "pick", !.cur = NoThread, !.status = "none"]

\* Whether the last event of a thread is older than the stall threshold: after a long outage it is;
\* otherwise it may be, also when a worker has just claimed the run, for a claim writes no event.
Silence(r) == IF r \in rec.known THEN {TRUE} ELSE BOOLEAN

\* A run whose stored state is over takes its status; a silent one is stalled.
PickRun ==
    /\ AtRec("pick")
    /\ \E r \in rec.todo : \E silent \in Silence(r) :
         rec' = IF stored[r] \notin Terminal /\ ~silent
                THEN [rec EXCEPT !.todo = @ \ {r}]
                ELSE [rec EXCEPT !.todo = @ \ {r}, !.cur = r,
                                 !.status = IF stored[r] \in Terminal THEN stored[r] ELSE "error",
                                 !.pc = IF stored[r] \in Terminal \cup {"none"} THEN "run" ELSE "store"]
    /\ UNCHANGED <<ledgerVars, stored, call, drain, unsaved, troubles>>

RecoverStored ==
    /\ AtRec("store")
    /\ stored' = [stored EXCEPT ![rec.cur] = "error"]
    /\ rec' = [rec EXCEPT !.pc = "run"]
    /\ UNCHANGED <<ledgerVars, call, drain, unsaved, troubles>>

RecoverRun ==
    /\ AtRec("run")
    /\ run' = [run EXCEPT ![rec.cur] = rec.status]
    /\ rec' = IF Key[rec.cur] = NoKey THEN Picking ELSE [rec EXCEPT !.pc = "turn"]
    /\ UNCHANGED <<turn, attempt, outbox, stored, call, drain, unsaved, troubles>>

RecoverTurn ==
    /\ AtRec("turn")
    /\ turn' = [turn EXCEPT ![Key[rec.cur]] = TurnOf(rec.status)]
    /\ rec' = Picking
    /\ UNCHANGED <<run, attempt, outbox, stored, call, drain, unsaved, troubles>>

RunsDone ==
    /\ AtRec("pick") /\ rec.todo = {}
    /\ rec' = [rec EXCEPT !.pc = "legacy", !.todo = {r \in Requests : stored[r] # "none"}]
    /\ UNCHANGED <<ledgerVars, stored, call, drain, unsaved, troubles>>

\* markLegacyStaleWorkflowStates: a stored running state without a run in the ledger, which is
\* also what a failing lookup looks like.
LegacyState ==
    /\ AtRec("legacy")
    /\ \E r \in rec.todo :
         /\ rec' = [rec EXCEPT !.todo = @ \ {r}]
         /\ \/ /\ stored[r] = "running" /\ TRUE \in Silence(r)
               /\ IF run[r] = "none" THEN UNCHANGED troubles ELSE Trouble
               /\ stored' = [stored EXCEPT ![r] = "error"]
            \/ /\ stored[r] = "running" /\ run[r] = "none" => FALSE \in Silence(r)
               /\ UNCHANGED <<stored, troubles>>
    /\ UNCHANGED <<ledgerVars, call, drain, unsaved>>

RecoveryDone ==
    /\ AtRec("legacy") /\ rec.todo = {}
    /\ rec' = [rec EXCEPT !.pc = "done"]
    /\ UNCHANGED <<ledgerVars, stored, call, drain, unsaved, troubles>>

Recover == ListRecoverableRuns \/ PickRun \/ RecoverStored \/ RecoverRun \/ RecoverTurn
             \/ RunsDone \/ LegacyState \/ RecoveryDone

-----------------------------------------------------------------------------
Next ==
    \/ \E r \in Requests : Call(r) \/ CallFails(r) \/ LeaseExpires(r)
    \/ \E d \in Drains : Work(d) \/ PersistFails(d) \/ WriteFails(d) \/ ProcessFails(d)
    \/ StartDrain
    \/ \E long \in BOOLEAN : Reboot(long)
    \/ Recover

Spec == Init /\ [][Next]_vars

\* The steps of the process are taken, a lock nobody holds grows old, and start is called again
\* and again (StartDrain): an idle server drains nothing.
Fairness ==
    /\ \A d \in Drains : WF_vars(Work(d))
    /\ WF_vars(StartDrain)
    /\ WF_vars(\E r \in Requests : LeaseExpires(r) /\ Holders(r) = {})

FairSpec == Spec /\ Fairness

-----------------------------------------------------------------------------
TypeOK ==
    /\ turn \in [Keys -> TurnStatus]
    /\ run \in [Requests -> RunStatus]
    /\ attempt \in [Requests -> {"none", "running", "completed", "failed"}]
    /\ stored \in [Requests -> RunStatus]
    /\ outbox \in [Requests -> [status : OutboxStatus, attempts : Nat, lock : {"none", "fresh", "stale"}]]
    /\ call \in [Requests -> [pc : CallPc, thread : Requests \cup {NoThread}]]
    /\ drain \in [Drains -> [pc : DrainPc, ev : Requests \cup {NoThread}, count : Nat,
                             result : RunStatus, caught : BOOLEAN]]
    /\ rec \in [pc : RecPc, by : SUBSET Drains, todo : SUBSET Requests, cur : Requests \cup {NoThread},
                status : RunStatus, known : SUBSET Requests]
    /\ unsaved \subseteq Requests
    /\ troubles \in 0..MaxTroubles

\* Two calls of start with one idempotency key never answer with different threads, and the
\* thread they answer with has a run, however the calls interleave, fail or are repeated.
OneThreadPerKey ==
    \A r, q \in Requests :
        call[r].pc = "returned" =>
            /\ run[call[r].thread] # "none"
            /\ call[q].pc = "returned" /\ SameTurn(r, q) => call[r].thread = call[q].thread

\* An event is processed only when its run has left the running status, so that no worker's loss
\* and no failing write turns a run into one that nobody will continue; the exception is an
\* outcome the persister could not save.
ProcessedIsSettled ==
    \A r \in Requests : outbox[r].status = "processed" => run[r] # "running" \/ r \in unsaved

\* When the recovery after a long outage is over, no run the outage found running is still
\* running, unless a stream was started on it since: this is what settles the runs whose start
\* died before its event was queued, and those whose outcome was lost.
ColdBootSettles == rec.pc = "done" => \A r \in rec.known : run[r] # "running"

\* Every queued start is processed or dead-lettered in the end, whatever workers die on the way,
\* as long as the process comes back and drain loops keep being started.
EveryQueuedSettles ==
    \A r \in Requests :
        outbox[r].status = "pending" ~> outbox[r].status \in {"processed", "dead_letter"}

=============================================================================
