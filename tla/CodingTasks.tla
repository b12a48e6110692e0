----------------------------- MODULE CodingTasks -----------------------------
(***************************************************************************)
(* A coding task: CodingRuntimeOrchestrator runs seven steps over one task *)
(* record, moved by CodingWorkflowStateMachine and stored after each move; *)
(* the last step applies the patch to the project (FilePatches).  Several  *)
(* requests may run or cancel the same task, each on the copy of the       *)
(* record it read or wrote last: the repository stores what it is given.   *)
(***************************************************************************)
EXTENDS FilePatches

CONSTANTS
    Runners,     \* the requests that run the task; they are patchers
    Cancellers,  \* the requests that cancel it
    MaxTroubles  \* bound on the crashes and the failing reads and writes

\* A structural patch updates files it has read, as it read them, one change per file.
ASSUME CodingAssumption ==
    /\ Runners \subseteq Patchers
    /\ \A r \in Runners : \A i \in DOMAIN Changes[r] :
         /\ Changes[r][i].kind = "update" /\ Changes[r][i].guarded
         /\ \A j \in DOMAIN Changes[r] : Changes[r][j].file = Changes[r][i].file => j = i
    /\ MaxTroubles \in Nat

VARIABLES
    stored,     \* the task's record
    runner,     \* where each run is, and its copy of the record
    canceller,  \* where each cancellation is, and its copy
    validated,  \* history: the files each run's runtime validation was made on
    crashed,    \* history: the runs that lost their server or the store
    troubles

codingVars == <<stored, runner, canceller, validated, crashed>>
vars == <<patchVars, codingVars, troubles>>

\* One step of PIPELINE: the state it moves the task to, and the kind of its artifact.
Step(state, kind) == [state |-> state, kind |-> kind]
Pipeline == <<Step("scanning", "scan"), Step("retrieving", "retrieval"),
              Step("ast_analyzing", "ast_analysis"), Step("planning_patch", "patch_plan"),
              Step("validating_ast", "ast_validation"),
              Step("validating_runtime", "runtime_validation"),
              Step("applying_patch", "patch_apply")>>

Terminal == {"completed", "failed", "cancelled"}
States == {"accepted"} \cup {Pipeline[i].state : i \in DOMAIN Pipeline} \cup Terminal

\* TRANSITIONS: step i is requested from the state of the step before it.
Requestable(state, i) == state = IF i = 1 THEN "accepted" ELSE Pipeline[i - 1].state

RunPc == {"idle", "step", "execute", "patching", "complete", "finish", "catch", "settle", "over"}
Idle == [pc |-> "idle", i |-> 1, task |-> "accepted", artifact |-> "ready", aborted |-> FALSE]

CodingInit ==
    /\ PatchInit
    /\ stored = "accepted"
    /\ runner = [r \in Runners |-> Idle]
    /\ canceller = [c \in Cancellers |-> "idle"]
    /\ validated = [r \in Runners |-> <<>>]
    /\ crashed = {}
    /\ troubles = 0

\* A run that has answered keeps nothing.
Over == [Idle EXCEPT !.pc = "over"]

Trouble == troubles < MaxTroubles /\ troubles' = troubles + 1

At(r, pc) == runner[r].pc = pc
Goto(r, pc) == runner' = [runner EXCEPT ![r].pc = pc]
Kind(r) == Pipeline[runner[r].i].kind

\* transition: the record the run holds is moved and stored, whatever is stored by now.
Record(r, state, pc) ==
    /\ stored' = state
    /\ runner' = [runner EXCEPT ![r].task = state, ![r].pc = pc]

Answer(r, state) ==
    /\ stored' = state
    /\ runner' = [runner EXCEPT ![r] = Over]

-----------------------------------------------------------------------------
(* runTask *)

Run(r) ==
    /\ At(r, "idle")
    /\ runner' = [runner EXCEPT ![r] = IF stored \in Terminal THEN Over
                                       ELSE [Idle EXCEPT !.pc = "step", !.task = stored]]
    /\ UNCHANGED <<patchVars, stored, canceller, validated, crashed, troubles>>

\* An aborted signal and a transition the table does not have both throw.
StepThrows(r) == runner[r].aborted \/ ~Requestable(runner[r].task, runner[r].i)

BeginStep(r) ==
    /\ At(r, "step")
    /\ IF StepThrows(r)
       THEN Goto(r, "catch") /\ UNCHANGED stored
       ELSE Record(r, Pipeline[runner[r].i].state, "execute")
    /\ UNCHANGED <<patchVars, canceller, validated, crashed, troubles>>

Yields(r, statuses) ==
    \E status \in statuses : runner' = [runner EXCEPT ![r].pc = "complete", ![r].artifact = status]

\* The steps that read the project or the artifacts; retrieval is where the patch gets its contents.
Inspect(r) ==
    /\ At(r, "execute")
    /\ Kind(r) \notin {"runtime_validation", "patch_apply"}
    /\ Yields(r, {"ready", "failed"})
    /\ base' = IF Kind(r) = "retrieval" THEN [base EXCEPT ![r] = files] ELSE base
    /\ UNCHANGED <<files, patch, stored, canceller, validated, crashed, troubles>>

\* The project is copied and the patch applied to the copy, which refuses files it was not made
\* for; then the commands pass or are skipped, or they do not pass.
Validate(r) ==
    /\ At(r, "execute") /\ Kind(r) = "runtime_validation"
    /\ \/ /\ \A i \in DOMAIN Changes[r] :
               LET f == Changes[r][i].file IN Legal(Changes[r][i], files[f], base[r][f])
          /\ Yields(r, {"ready", "failed"})
          /\ validated' = [validated EXCEPT ![r] = files]
       \/ /\ \E i \in DOMAIN Changes[r] :
               LET f == Changes[r][i].file IN ~Legal(Changes[r][i], files[f], base[r][f])
          /\ Goto(r, "catch")
          /\ UNCHANGED validated
    /\ UNCHANGED <<patchVars, stored, canceller, crashed, troubles>>

\* Any step throws: a file cannot be read, or it noticed the abort.
Throw(r) ==
    /\ At(r, "execute")
    /\ Goto(r, "catch")
    /\ UNCHANGED <<patchVars, stored, canceller, validated, crashed, troubles>>

ApplyPatch(r) ==
    /\ At(r, "execute") /\ Kind(r) = "patch_apply"
    /\ BeginPatch(r)
    /\ Goto(r, "patching")
    /\ UNCHANGED <<stored, canceller, validated, crashed, troubles>>

\* A patch that failed is a failed artifact, not an error.  (What was validated no longer matters.)
Patched(r) ==
    /\ At(r, "patching") /\ PatchEnded(r)
    /\ Yields(r, {IF PatchAt(r, "applied") THEN "ready" ELSE "failed"})
    /\ validated' = [validated EXCEPT ![r] = <<>>]
    /\ UNCHANGED <<patchVars, stored, canceller, crashed, troubles>>

\* Wrong variant: a failed artifact ends the loop.
CompleteStops(r) ==
    /\ At(r, "complete")
    /\ Answer(r, runner[r].task)
    /\ UNCHANGED <<patchVars, canceller, validated, crashed, troubles>>

\* Wrong variant: the loop goes one step too far.
CompleteOneMore(r) ==
    /\ At(r, "complete")
    /\ stored' = runner[r].task
    /\ runner' = [runner EXCEPT ![r] =
                    IF @.artifact = "failed" THEN [@ EXCEPT !.pc = "catch", !.artifact = "ready"]
                    ELSE [@ EXCEPT !.pc = "step", !.i = runner[r].i + 1]]
    /\ UNCHANGED <<patchVars, canceller, validated, crashed, troubles>>

\* The artifact is recorded; a failed one throws.
Complete(r) ==
    /\ At(r, "complete")
    /\ stored' = runner[r].task
    /\ runner' = [runner EXCEPT ![r] =
                    IF @.artifact = "failed" THEN [@ EXCEPT !.pc = "catch", !.artifact = "ready"]
                    ELSE IF @.i = Len(Pipeline) THEN [@ EXCEPT !.pc = "finish"]
                    ELSE [@ EXCEPT !.pc = "step", !.i = runner[r].i + 1]]
    /\ UNCHANGED <<patchVars, canceller, validated, crashed, troubles>>

Finish(r) ==
    /\ At(r, "finish")
    /\ Answer(r, "completed")
    /\ UNCHANGED <<patchVars, canceller, validated, crashed, troubles>>

\* The catch reads the record again; a task that is over stays as it is.
Catch(r) ==
    /\ At(r, "catch")
    /\ runner' = [runner EXCEPT ![r] =
                    IF stored \in Terminal THEN Over
                    ELSE [Idle EXCEPT !.pc = "settle", !.task = stored, !.aborted = runner[r].aborted]]
    /\ UNCHANGED <<patchVars, stored, canceller, validated, crashed, troubles>>

\* Cancelled if the abort was noticed or the signal is aborted, else failed.
Outcome(r) == IF runner[r].aborted THEN "cancelled" ELSE "failed"

Settle(r) ==
    /\ At(r, "settle")
    /\ Answer(r, Outcome(r))
    /\ UNCHANGED <<patchVars, canceller, validated, crashed, troubles>>

\* The client disconnects and the signal is aborted.  It is looked at before each step and when an
\* error is settled: an abort at any other time shows first at one of these.
Disconnect(r) ==
    /\ runner[r].pc \in {"step", "catch"} /\ ~runner[r].aborted
    /\ runner' = [runner EXCEPT ![r].aborted = TRUE]
    /\ UNCHANGED <<patchVars, stored, canceller, validated, crashed, troubles>>

\* The state the run is about to store, if any.
Storing(r) == CASE At(r, "step") /\ ~StepThrows(r) -> {Pipeline[runner[r].i].state}
                [] At(r, "complete") -> {runner[r].task}
                [] At(r, "finish") -> {"completed"}
                [] At(r, "settle") -> {Outcome(r)}
                [] OTHER -> {}

\* recordTransition or getSnapshot fails: within the try it is caught, in the catch it is not.
\* recordTransition reads the events after its commit, so the state may be stored all the same.
StoreFails(r) ==
    /\ Trouble
    /\ stored' \in {stored} \cup Storing(r)
    /\ \/ /\ runner[r].pc \in {"step", "complete", "finish"}
          /\ Goto(r, "catch")
          /\ UNCHANGED crashed
       \/ /\ runner[r].pc \in {"catch", "settle"}
          /\ runner' = [runner EXCEPT ![r] = Over]
          /\ crashed' = crashed \cup {r}
    /\ UNCHANGED <<patchVars, canceller, validated>>

-----------------------------------------------------------------------------
(* cancelTask *)

\* A task that is over is answered as it is.
CancelRead(c) ==
    /\ canceller[c] = "idle"
    /\ canceller' = [canceller EXCEPT ![c] = IF stored \in Terminal THEN "over" ELSE "write"]
    /\ UNCHANGED <<patchVars, stored, runner, validated, crashed, troubles>>

CancelWrite(c) ==
    /\ canceller[c] = "write"
    /\ stored' = "cancelled"
    /\ canceller' = [canceller EXCEPT ![c] = "over"]
    /\ UNCHANGED <<patchVars, runner, validated, crashed, troubles>>

-----------------------------------------------------------------------------
\* The server dies with its runs, cancellations and patches; later requests find the record and
\* the files as they are.
Crash ==
    /\ Trouble
    /\ runner' = [r \in Runners |-> IF At(r, "idle") THEN Idle ELSE Over]
    /\ crashed' = crashed \cup {r \in Runners : runner[r].pc \notin {"idle", "over"}}
    /\ canceller' = [c \in Cancellers |-> IF canceller[c] = "idle" THEN "idle" ELSE "over"]
    /\ patch' = [p \in Patchers |->
                   IF patch[p].pc \in {"plan", "gate", "apply", "rollback"}
                   THEN [patch[p] EXCEPT !.pc = "torn"] ELSE patch[p]]
    /\ UNCHANGED <<files, base, stored, validated>>

\* The change set of a workflow or a chat tool is applied to the same project.
Deliver(p) ==
    /\ p \notin Runners /\ BeginPatch(p)
    /\ UNCHANGED <<codingVars, troubles>>

PatchProgress(p) ==
    \/ PatchStep(p) /\ UNCHANGED <<codingVars, troubles>>
    \/ (ApplyFails(p) \/ Tear(p)) /\ Trouble /\ UNCHANGED codingVars

Drive(r) == Run(r) \/ BeginStep(r) \/ Inspect(r) \/ Validate(r) \/ Throw(r) \/ ApplyPatch(r)
              \/ Patched(r) \/ Complete(r) \/ Finish(r) \/ Catch(r) \/ Settle(r)

CodingNext ==
    \/ \E r \in Runners : Drive(r) \/ Disconnect(r) \/ StoreFails(r)
    \/ \E c \in Cancellers : CancelRead(c) \/ CancelWrite(c)
    \/ \E p \in Patchers : Deliver(p) \/ PatchProgress(p)
    \/ Crash

Spec == CodingInit /\ [][CodingNext]_vars

-----------------------------------------------------------------------------
TypeOK ==
    /\ PatchTypeOK
    /\ stored \in States
    /\ runner \in [Runners -> [pc : RunPc, i : DOMAIN Pipeline, task : States,
                               artifact : {"ready", "failed"}, aborted : BOOLEAN]]
    /\ canceller \in [Cancellers -> {"idle", "write", "over"}]
    /\ validated \in [Runners -> [Files -> Contents] \cup {<<>>}]
    /\ crashed \subseteq Runners
    /\ troubles \in 0..MaxTroubles

\* When nobody works on a task any more and no run was lost to a crash or the store, it is over:
\* whatever runs and cancellations overwrote of each other, the last word is a terminal one.
QuietIsTerminal ==
    (/\ crashed = {}
     /\ \A c \in Cancellers : canceller[c] # "write"
     /\ \A r \in Runners : runner[r].pc \in {"idle", "over"}
     /\ \E r \in Runners : At(r, "over"))
        => stored \in Terminal

\* What a run is about to overwrite is what its runtime validation ran on, unless someone else
\* wrote the file after the patch was planned: a patch validated on other contents is refused.
ValidatedIsReplaced ==
    \A r \in Runners : PatchAt(r, "apply") =>
        \A i \in patch[r].i..Len(Changes[r]) :
            LET f == Changes[r][i].file
            IN  f \notin patch[r].late => files[f] = validated[r][f]

=============================================================================
