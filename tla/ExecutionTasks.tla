---------------------------- MODULE ExecutionTasks ----------------------------
(***************************************************************************)
(* The commands the server runs for agents and operators:                  *)
(* ExecutionTaskRuntime and the routes that list, kill, retry and approve. *)
(* Each task has a record on disk (task.json), a marker file that says it  *)
(* was aborted, a detached child process, and an owner: the runtime of a   *)
(* tool call, or the one the routes share.  The routes reach the task of a *)
(* tool only through the disk and the process id.  The owner is a chain of *)
(* callbacks, cut at each await; a restart loses it and leaves the child.  *)
(***************************************************************************)
EXTENDS CommandPermission

CONSTANTS
    Tasks,        \* task ids
    Commands,     \* the commands tools and catalogues may ask for
    Origins,      \* those a tool call starts; the others come from a retry or an approval
    MaxTroubles   \* bound on the restarts and failing writes

\* A direct command is one executable.
ASSUME TasksAssumption ==
    /\ Origins \subseteq Tasks /\ MaxTroubles \in Nat
    /\ Commands \subseteq Command
    /\ \A c \in Commands : c.form = "direct" => Len(c.segments) = 1

VARIABLES
    task,      \* what each task was started with
    own,       \* what its owner holds in memory, and where its callbacks are
    disk,      \* the status in task.json
    marker,    \* whether the abort marker exists
    child,     \* the process: "ok" and "bad" tell how it ended
    kill,      \* a kill that goes through the disk
    granted,   \* history: the first tasks of the chains somebody approved
    hit,       \* history: the tasks whose child a kill or an abort signalled while it lived
    troubles

vars == <<task, own, disk, marker, child, kill, granted, hit, troubles>>

Ended == {"completed", "failed", "timed_out", "aborted", "rejected"}
Status == Ended \cup {"none", "awaiting_approval", "running"}

\* catalogue: judged by a policy that allows the command's own executable.
NoCommand == [form |-> "direct", segments |-> <<>>, marks |-> {}, agent |-> "unknown", sound |-> FALSE]
Unused == [cmd |-> NoCommand, catalogue |-> FALSE, approved |-> FALSE, owner |-> "tool", root |-> "none"]

OwnPc == {"off", "policy", "initial", "watch", "drain", "read", "mark", "write"}
Off == [pc |-> "off", snap |-> "none", cancel |-> FALSE, timedOut |-> FALSE, aborted |-> FALSE,
        grace |-> FALSE, queue |-> 0, seen |-> FALSE, err |-> FALSE]

Init ==
    /\ task = [t \in Tasks |-> Unused]
    /\ own = [t \in Tasks |-> Off]
    /\ disk = [t \in Tasks |-> "none"]
    /\ marker = [t \in Tasks |-> FALSE]
    /\ child = [t \in Tasks |-> "none"]
    /\ kill = [t \in Tasks |-> "idle"]
    /\ granted = {}
    /\ hit = {}
    /\ troubles = 0

At(t, pc) == own[t].pc = pc
Goto(t, pc) == own' = [own EXCEPT ![t].pc = pc]
Trouble == troubles < MaxTroubles /\ troubles' = troubles + 1

\* activeTasks holds a task from the moment its listeners are attached until it is settled.
Active(t) == own[t].pc \in {"watch", "drain", "read", "mark", "write"}

\* getTask of the routes' runtime: the snapshot of a task of its own, else the disk.
RouteSees(t) == IF task[t].owner = "route" /\ own[t].snap # "none" THEN own[t].snap ELSE disk[t]

-----------------------------------------------------------------------------
(* start, approve and retry *)

Fresh(t) == task[t] = Unused

Begin(t, spec) ==
    /\ task' = [task EXCEPT ![t] = spec]
    /\ Goto(t, "policy")
    /\ UNCHANGED <<disk, marker, child, kill, hit, troubles>>

\* A tool gives a text or an executable, or names a command of the catalogue: these, like those of a
\* validation plan, are approved by the system.
Calls(t) ==
    LET Asked(c, catalogue, approved) ==
            [cmd |-> c, catalogue |-> catalogue, approved |-> approved, owner |-> "tool", root |-> t]
        Direct == {c \in Commands : c.form = "direct"}
    IN  {Asked(c, FALSE, FALSE) : c \in Commands} \cup {Asked(c, FALSE, TRUE) : c \in Direct}
          \cup {Asked(c, TRUE, TRUE) : c \in Direct}

Grant(spec) == granted' = IF spec.approved THEN granted \cup {spec.root} ELSE granted

Start(t) ==
    /\ t \in Origins /\ Fresh(t)
    /\ \E spec \in Calls(t) : Begin(t, spec) /\ Grant(spec)

\* The signal of the tool call was aborted before the start.
StartAborted(t) ==
    /\ t \in Origins /\ Fresh(t)
    /\ \E spec \in Calls(t) : task' = [task EXCEPT ![t] = spec] /\ Grant(spec)
    /\ disk' = [disk EXCEPT ![t] = "rejected"]
    /\ UNCHANGED <<own, marker, child, kill, hit, troubles>>

\* The routes have a policy of their own, with the default lists: it is not the policy of the tool.
Again(q, t, approved) ==
    Begin(t, [cmd |-> task[q].cmd, catalogue |-> FALSE, approved |-> approved, owner |-> "route",
              root |-> task[q].root])

\* Nothing marks the awaiting record as approved: the same task can be approved again.
Approve(q, t) ==
    /\ t \notin Origins /\ Fresh(t) /\ RouteSees(q) = "awaiting_approval"
    /\ Again(q, t, TRUE)
    /\ granted' = granted \cup {task[q].root}

\* Wrong variant: what an operator retries counts as approved.
RetryApproved(q, t) ==
    /\ t \notin Origins /\ Fresh(t) /\ RouteSees(q) \notin {"none", "running"}
    /\ Again(q, t, TRUE)
    /\ UNCHANGED granted

\* A task that awaits approval may be retried too; it keeps the approval it had.
Retry(q, t) ==
    /\ t \notin Origins /\ Fresh(t) /\ RouteSees(q) \notin {"none", "running"}
    /\ Again(q, t, task[q].approved)
    /\ UNCHANGED granted

-----------------------------------------------------------------------------
(* The owner: policy, spawn, listeners, close *)

\* The package script, if the command runs one, is whatever the project holds at this moment.
Verdicts(t) ==
    LET allowed == IF task[t].catalogue THEN CatalogueAllowed(task[t].cmd) ELSE DefaultAllowed
    IN  {Evaluate(allowed, task[t].cmd, task[t].approved, dangerous) : dangerous \in BOOLEAN}

Refuse(t) ==
    /\ At(t, "policy")
    /\ \/ /\ "ask" \in Verdicts(t)
          /\ disk' = [disk EXCEPT ![t] = "awaiting_approval"]
       \/ /\ "deny" \in Verdicts(t)
          /\ disk' = [disk EXCEPT ![t] = "rejected"]
    /\ own' = [own EXCEPT ![t] = Off]
    /\ UNCHANGED <<task, marker, child, kill, granted, hit, troubles>>

\* spawn throws, starts the child, or reports by an error event that it could not.  From here on the
\* task is known by its executable and arguments: a retry of a shell line is not one.
Spawn(t) ==
    /\ At(t, "policy") /\ "allow" \in Verdicts(t)
    /\ task' = [task EXCEPT ![t].cmd = Normalized(@)]
    /\ \/ /\ disk' = [disk EXCEPT ![t] = "failed"]
          /\ own' = [own EXCEPT ![t] = Off]
          /\ UNCHANGED child
       \/ /\ \E c \in {"alive", "unspawned"} : child' = [child EXCEPT ![t] = c]
          /\ own' = [own EXCEPT ![t].pc = "initial", ![t].snap = "running"]
          /\ UNCHANGED disk
    /\ UNCHANGED <<marker, kill, granted, hit, troubles>>

Signalled(t) == IF child[t] = "alive" THEN hit \cup {t} ELSE hit

\* terminate("abort"): the flag, the marker and SIGTERM; SIGKILL follows after a grace.
Terminated(o) == [o EXCEPT !.aborted = TRUE, !.grace = o.pc = "watch"]

\* The first record is written; only now the listeners are attached, and the task is active.
Watch(t) ==
    /\ At(t, "initial")
    /\ disk' = [disk EXCEPT ![t] = "running"]
    /\ LET o == [own[t] EXCEPT !.pc = "watch"]
       IN  own' = [own EXCEPT ![t] = IF o.cancel THEN Terminated([o EXCEPT !.cancel = FALSE]) ELSE o]
    /\ marker' = [marker EXCEPT ![t] = @ \/ own[t].cancel]
    /\ hit' = IF own[t].cancel THEN Signalled(t) ELSE hit
    /\ UNCHANGED <<task, child, kill, granted, troubles>>

\* The first write fails and start with it: the child runs on, and its snapshot stays.
WatchFails(t) ==
    /\ At(t, "initial")
    /\ Trouble
    /\ own' = [own EXCEPT ![t] = [Off EXCEPT !.snap = "running"]]
    /\ UNCHANGED <<task, disk, marker, child, kill, granted, hit>>

\* Each chunk of output appends a snapshot of the running task to the chain of writes.
Output(t) ==
    /\ At(t, "watch") /\ child[t] = "alive" /\ own[t].queue = 0
    /\ own' = [own EXCEPT ![t].queue = 1]
    /\ UNCHANGED <<task, disk, marker, child, kill, granted, hit, troubles>>

WriteSnapshot(t) ==
    /\ own[t].queue > 0
    /\ disk' = [disk EXCEPT ![t] = "running"]
    /\ own' = [own EXCEPT ![t].queue = @ - 1]
    /\ UNCHANGED <<task, marker, child, kill, granted, hit, troubles>>

\* settled: no SIGKILL will follow.
Closing(o) == [o EXCEPT !.pc = "drain", !.grace = FALSE]

\* The child ends and its close event fires: with no listener yet, or no longer, it is lost.
Close(t) ==
    /\ child[t] \in {"alive", "unspawned", "errored"}
    /\ \E how \in IF child[t] = "alive" THEN {"ok", "bad"} ELSE {"bad"} :
         child' = [child EXCEPT ![t] = how]
    /\ own' = IF At(t, "watch") THEN [own EXCEPT ![t] = Closing(@)] ELSE own
    /\ UNCHANGED <<task, disk, marker, kill, granted, hit, troubles>>

\* The error event of a child that was not spawned; the close after a handled one changes nothing more.
SpawnError(t) ==
    /\ child[t] = "unspawned"
    /\ child' = [child EXCEPT ![t] = IF At(t, "watch") THEN "bad" ELSE "errored"]
    /\ own' = IF At(t, "watch") THEN [own EXCEPT ![t] = [Closing(@) EXCEPT !.err = TRUE]] ELSE own
    /\ UNCHANGED <<task, disk, marker, kill, granted, hit, troubles>>

\* The handler awaits the output streams and the chain of snapshot writes.
Drain(t) ==
    /\ At(t, "drain") /\ own[t].queue = 0
    /\ own' = IF own[t].err THEN [own EXCEPT ![t].pc = "write", ![t].snap = "failed"]
              ELSE [own EXCEPT ![t].pc = "read"]
    /\ UNCHANGED <<task, disk, marker, child, kill, granted, hit, troubles>>

ReadPersisted(t) ==
    /\ At(t, "read")
    /\ own' = [own EXCEPT ![t].pc = "mark", ![t].seen = disk[t] = "aborted"]
    /\ UNCHANGED <<task, disk, marker, child, kill, granted, hit, troubles>>

\* Wrong variant: how the child ended is taken for the status.
StatusByExit(t) ==
    IF own[t].timedOut THEN "timed_out"
    ELSE IF own[t].aborted \/ own[t].seen \/ marker[t] THEN "aborted"
    ELSE child[t]

StatusAtClose(t) ==
    IF own[t].timedOut THEN "timed_out"
    ELSE IF own[t].aborted \/ own[t].seen \/ marker[t] THEN "aborted"
    ELSE IF child[t] = "ok" THEN "completed" ELSE "failed"

\* The marker is looked at, and the status is decided.
Decide(t) ==
    /\ At(t, "mark")
    /\ own' = [own EXCEPT ![t].pc = "write", ![t].snap = StatusAtClose(t)]
    /\ UNCHANGED <<task, disk, marker, child, kill, granted, hit, troubles>>

Settle(t) ==
    /\ At(t, "write")
    /\ disk' = [disk EXCEPT ![t] = own[t].snap]
    /\ own' = [own EXCEPT ![t] = [Off EXCEPT !.queue = own[t].queue]]
    /\ UNCHANGED <<task, marker, child, kill, granted, hit, troubles>>

Own(t) == Refuse(t) \/ Spawn(t) \/ Watch(t) \/ WriteSnapshot(t) \/ Drain(t)
            \/ ReadPersisted(t) \/ Decide(t) \/ Settle(t)

-----------------------------------------------------------------------------
(* Timeouts, aborts and kills *)

\* Wrong variant: a timeout sends SIGTERM only.
TimeoutOnce(t) ==
    /\ At(t, "watch") /\ ~own[t].timedOut
    /\ own' = [own EXCEPT ![t].timedOut = TRUE]
    /\ UNCHANGED <<task, disk, marker, child, kill, granted, hit, troubles>>

Timeout(t) ==
    /\ At(t, "watch") /\ ~own[t].timedOut
    /\ own' = [own EXCEPT ![t].timedOut = TRUE, ![t].grace = TRUE]
    /\ UNCHANGED <<task, disk, marker, child, kill, granted, hit, troubles>>

\* SIGKILL, unless the close or error event has fired.
Grace(t) ==
    /\ own[t].grace
    /\ child' = IF At(t, "watch") /\ child[t] = "alive" THEN [child EXCEPT ![t] = "bad"] ELSE child
    /\ own' = [own EXCEPT ![t] = IF At(t, "watch") /\ child[t] = "alive" THEN Closing(@)
                                 ELSE [@ EXCEPT !.grace = FALSE]]
    /\ UNCHANGED <<task, disk, marker, kill, granted, hit, troubles>>

\* abort of an active task.
Abort(t) ==
    /\ own' = [own EXCEPT ![t] = Terminated(@)]
    /\ marker' = [marker EXCEPT ![t] = TRUE]
    /\ hit' = Signalled(t)
    /\ UNCHANGED <<task, disk, child, kill, granted, troubles>>

\* The signal of a tool call: it is seen only once the listeners are attached.
Cancel(t) ==
    /\ task[t].owner = "tool" /\ ~own[t].cancel
    /\ \/ At(t, "watch") /\ ~own[t].aborted /\ Abort(t)
       \/ /\ own[t].pc \in {"policy", "initial"}
          /\ own' = [own EXCEPT ![t].cancel = TRUE]
          /\ UNCHANGED <<task, disk, marker, child, kill, granted, hit, troubles>>

\* kill of a route: an active task of the same runtime is aborted; for any other the record decides.
KillActive(t) ==
    /\ task[t].owner = "route" /\ Active(t) /\ ~own[t].aborted
    /\ Abort(t)

KillRead(t) ==
    /\ kill[t] = "idle" /\ disk[t] # "none"
    /\ ~(task[t].owner = "route" /\ Active(t))
    /\ RouteSees(t) = "running" /\ child[t] \notin {"unspawned", "errored"}
    /\ kill' = [kill EXCEPT ![t] = "mark"]
    /\ UNCHANGED <<task, own, disk, marker, child, granted, hit, troubles>>

\* Wrong variant: the signal goes out before the marker is written.
KillSignalFirst(t) ==
    /\ kill[t] = "mark"
    /\ hit' = Signalled(t)
    /\ kill' = [kill EXCEPT ![t] = "signal"]
    /\ UNCHANGED <<task, own, disk, marker, child, granted, troubles>>

KillMark(t) ==
    /\ kill[t] = "mark"
    /\ marker' = [marker EXCEPT ![t] = TRUE]
    /\ kill' = [kill EXCEPT ![t] = "signal"]
    /\ UNCHANGED <<task, own, disk, child, granted, hit, troubles>>

\* SIGTERM, and nothing after it.
KillSignal(t) ==
    /\ kill[t] = "signal"
    /\ hit' = Signalled(t)
    /\ kill' = [kill EXCEPT ![t] = "store"]
    /\ UNCHANGED <<task, own, disk, marker, child, granted, troubles>>

\* The record as it was read, now aborted, whatever was written since.
KillStore(t) ==
    /\ kill[t] = "store"
    /\ disk' = [disk EXCEPT ![t] = "aborted"]
    /\ kill' = [kill EXCEPT ![t] = "idle"]
    /\ UNCHANGED <<task, own, marker, child, granted, hit, troubles>>

\* The server dies (also of a failing write of a handler, whose promise nobody awaits); the
\* detached children live on.
Restart ==
    /\ Trouble
    /\ own' = [t \in Tasks |-> Off]
    /\ kill' = [t \in Tasks |-> "idle"]
    /\ UNCHANGED <<task, disk, marker, child, granted, hit>>

-----------------------------------------------------------------------------
Next ==
    \/ \E t \in Tasks :
         \/ Start(t) \/ StartAborted(t)
         \/ \E q \in Tasks : Approve(q, t) \/ Retry(q, t)
         \/ Own(t) \/ WatchFails(t) \/ Output(t) \/ Close(t) \/ SpawnError(t)
         \/ Timeout(t) \/ Grace(t) \/ Cancel(t)
         \/ KillActive(t) \/ KillRead(t) \/ KillMark(t) \/ KillSignal(t) \/ KillStore(t)
    \/ Restart

Spec == Init /\ [][Next]_vars

\* Callbacks are run and timers fire; a child need not end by itself, nor on SIGTERM.
Fairness == \A t \in Tasks : WF_vars(Own(t)) /\ WF_vars(Timeout(t)) /\ WF_vars(Grace(t))

FairSpec == Spec /\ Fairness

-----------------------------------------------------------------------------
TypeOK ==
    /\ task \in [Tasks -> [cmd : {NoCommand} \cup Commands \cup {Normalized(c) : c \in Commands},
                           catalogue : BOOLEAN, approved : BOOLEAN, owner : {"tool", "route"},
                           root : Tasks \cup {"none"}]]
    /\ own \in [Tasks -> [pc : OwnPc, snap : Status, cancel : BOOLEAN, timedOut : BOOLEAN,
                          aborted : BOOLEAN, grace : BOOLEAN, queue : 0..1, seen : BOOLEAN,
                          err : BOOLEAN]]
    /\ disk \in [Tasks -> Status]
    /\ marker \in [Tasks -> BOOLEAN]
    /\ child \in [Tasks -> {"none", "alive", "unspawned", "errored", "ok", "bad"}]
    /\ kill \in [Tasks -> {"idle", "mark", "signal", "store"}]
    /\ granted \subseteq Tasks /\ hit \subseteq Tasks
    /\ troubles \in 0..MaxTroubles

\* What changes dependencies or the repository, and whatever an agent under supervision runs.
WantsApproval(c) ==
    \/ \E i \in 1..Len(c.segments) : NeedsApproval(c.segments[i])
    \/ Profiled(c.agent) /\ Profile[c.agent].asks

\* A command that wants approval is never spawned in a chain of retries in which nobody, neither an
\* operator nor the system that started it, approved it, whatever form the retry gives it and
\* whichever policy judges it.
NoSpawnUnapproved ==
    \A t \in Tasks : child[t] # "none" /\ WantsApproval(task[t].cmd) => task[t].root \in granted

\* A command that a kill or an abort reached while it ran is never recorded as completed or
\* failed, whichever runtime received the kill and whatever its owner's handler had read.
KilledIsRecorded == \A t \in hit : disk[t] \notin {"completed", "failed"}

\* A child whose events are listened to does not keep its owner waiting for ever, even if it
\* ignores SIGTERM: the task is settled, or the owner is lost in a restart.
WatchedSettles ==
    \A t \in Tasks : At(t, "watch") /\ child[t] = "alive" ~> At(t, "off")

=============================================================================
