---------------------------- MODULE PreviewSessions ----------------------------
(***************************************************************************)
(* The previews of generated frontends: PreviewRuntimeManager over         *)
(* ProcessBrowserPreviewAdapter and FilePreviewSessionStore.  A session is *)
(* one record on disk; the adapter holds one development server per        *)
(* session, a detached child that outlives the server.  Each request reads *)
(* the record once, awaits, and saves the whole record it read.  The       *)
(* sessions here show one address, and readiness is a probe of the address *)
(* and not of the child.  Device, drafts, timeline and event stream are    *)
(* left out: nothing is decided on them.                                   *)
(***************************************************************************)
EXTENDS Naturals

CONSTANTS
    Sessions,
    Requests,     \* slots of the requests in flight
    Children,     \* the processes ever spawned (slots, used again once nothing refers to them)
    None,
    MaxTroubles   \* bound on the crashes, failing saves and failing spawns

ASSUME PreviewAssumption ==
    None \notin Sessions \cup Children /\ MaxTroubles \in Nat

VARIABLES
    record,    \* session.json: status and processId
    child,     \* the operating system's processes and, of each, whether its close was handled
    managed,   \* the adapter's processes: session -> child
    request,   \* the requests in flight
    booting,   \* the sessions recoverStaleRuntimeSessions has still to visit; no request comes before
    orderly,   \* history: since boot, no two requests on the session met, no close was late, no save failed
    troubles

vars == <<record, child, managed, request, booting, orderly, troubles>>

Status == {"none", "waiting", "starting", "running", "stopped", "error"}
Records == [status : Status, pid : Children \cup {None}]
NoRecord == [status |-> "none", pid |-> None]

\* of is the session that spawned the child; None if a server that is gone did.
NoChild == [of |-> None, alive |-> FALSE, ready |-> FALSE, closed |-> TRUE]

Kinds == {"start", "stop", "reload", "device"}
Pc == {"idle", "read", "look", "probe", "spawn", "wait", "term", "kill", "save", "fail"}
Idle == [kind |-> "device", of |-> None, pc |-> "idle", snap |-> NoRecord, child |-> None, mine |-> FALSE]

Init ==
    /\ record = [s \in Sessions |-> NoRecord]
    /\ child = [p \in Children |-> NoChild]
    /\ managed = [s \in Sessions |-> None]
    /\ request = [r \in Requests |-> Idle]
    /\ booting = {}
    /\ orderly = [s \in Sessions |-> TRUE]
    /\ troubles = 0

Trouble == troubles < MaxTroubles /\ troubles' = troubles + 1
At(r, kind, pc) == request[r].kind = kind /\ request[r].pc = pc
Goto(r, pc) == request' = [request EXCEPT ![r].pc = pc]
End(r) == request' = [request EXCEPT ![r] = Idle]
InFlight(s) == \E r \in Requests : request[r].of = s

\* Whoever answers at the address: a child of this session, of another, or of a former server.
Reachable == \E p \in Children : child[p].ready

Exited(p) == child[p].closed

-----------------------------------------------------------------------------
(* Requests: create, and the read each other one begins with *)

CreateSession(s) ==
    /\ booting = {} /\ record[s].status = "none"
    /\ record' = [record EXCEPT ![s].status = "waiting"]
    /\ UNCHANGED <<child, managed, request, booting, orderly, troubles>>

\* getSession; what follows in each handler comes after an await.  snap is kept as long as the handler
\* may save its status or processId again; stop saves neither.
Read(r, s, kind) ==
    /\ booting = {} /\ request[r].pc = "idle" /\ record[s].status # "none"
    /\ request' = [request EXCEPT ![r] =
         [Idle EXCEPT !.kind = kind, !.of = s, !.pc = "read", !.snap = IF kind = "stop" THEN @ ELSE record[s]]]
    /\ orderly' = [orderly EXCEPT ![s] = @ /\ ~InFlight(s)]
    /\ UNCHANGED <<record, child, managed, booting, troubles>>

\* saveSession of the request's last step.
SaveAndEnd(r, rec) ==
    /\ record' = [record EXCEPT ![request[r].of] = rec]
    /\ End(r)
    /\ UNCHANGED <<child, managed, booting, orderly, troubles>>

\* setDevice: only the device differs from the record it read.
SetDevice(r) == At(r, "device", "read") /\ SaveAndEnd(r, request[r].snap)

-----------------------------------------------------------------------------
(* startSession and the adapter's start *)

\* The audit reads the project's files at each start: they may be static pages this time, which
\* need no child.  startStaticSession saves at once.
StartStatic(r) ==
    /\ At(r, "start", "read")
    /\ SaveAndEnd(r, [status |-> "running", pid |-> None])

\* A static project with problems: assertStartable throws before anything is saved.
StaticRefused(r) ==
    /\ At(r, "start", "read")
    /\ End(r)
    /\ UNCHANGED <<record, child, managed, booting, orderly, troubles>>

Starting(r) ==
    /\ At(r, "start", "read")
    /\ record' = [record EXCEPT ![request[r].of] = [request[r].snap EXCEPT !.status = "starting"]]
    /\ request' = [request EXCEPT ![r].pc = "look", ![r].snap = NoRecord]
    /\ UNCHANGED <<child, managed, booting, orderly, troubles>>

\* Wrong variant: the child the session has is not looked for.
LookSpawns(r) ==
    /\ At(r, "start", "look")
    /\ Goto(r, "probe")
    /\ UNCHANGED <<record, child, managed, booting, orderly, troubles>>

\* A child that has not been seen to exit is used again; it is not this request's to stop.
Look(r) ==
    /\ At(r, "start", "look")
    /\ LET p == managed[request[r].of]
       IN  IF p # None /\ ~Exited(p)
           THEN request' = [request EXCEPT ![r].pc = "wait", ![r].child = p]
           ELSE Goto(r, "probe")
    /\ UNCHANGED <<record, child, managed, booting, orderly, troubles>>

\* Something answers already: the session runs on it, with no child.
AlreadyReachable(r) ==
    /\ At(r, "start", "probe") /\ Reachable
    /\ Goto(r, "save")
    /\ UNCHANGED <<record, child, managed, booting, orderly, troubles>>

NothingAnswers(r) ==
    /\ At(r, "start", "probe") /\ ~Reachable
    /\ Goto(r, "spawn")
    /\ UNCHANGED <<record, child, managed, booting, orderly, troubles>>

\* The project is not startable (before the adapter is called), its address belongs to another
\* one, or no command can be resolved: the error is caught.
NotStartable(r) ==
    /\ request[r].kind = "start" /\ request[r].pc \in {"look", "probe", "spawn"}
    /\ Goto(r, "fail")
    /\ UNCHANGED <<record, child, managed, booting, orderly, troubles>>

Free(p) ==
    /\ ~child[p].alive /\ child[p].closed
    /\ \A s \in Sessions : record[s].pid # p /\ managed[s] # p
    /\ \A r \in Requests : request[r].child # p /\ request[r].snap.pid # p

\* A spawn that fails is told by an event of the child, handled like its close.  The processes map
\* was looked at several awaits ago: another start may have spawned since.
Spawn(r) ==
    /\ At(r, "start", "spawn")
    /\ \E p \in Children, ok \in BOOLEAN :
         /\ Free(p)
         /\ IF ok THEN UNCHANGED troubles ELSE Trouble
         /\ child' = [child EXCEPT ![p] = [of |-> request[r].of, alive |-> ok, ready |-> FALSE, closed |-> FALSE]]
         /\ managed' = [managed EXCEPT ![request[r].of] = p]
         /\ request' = [request EXCEPT ![r].pc = "wait", ![r].child = p, ![r].mine = TRUE]
    /\ UNCHANGED <<record, booting, orderly>>

\* waitForReadiness returns when the address answers and the child has not exited.
Ready(r) ==
    /\ request[r].pc = "wait" /\ ~Exited(request[r].child) /\ Reachable
    /\ Goto(r, "save")
    /\ UNCHANGED <<record, child, managed, booting, orderly, troubles>>

\* It throws when the child has exited, at the deadline, or when another project answers at the
\* address.  start stops the child it spawned, and no other.
NotReady(r) ==
    /\ request[r].pc = "wait"
    /\ Goto(r, IF request[r].mine THEN "term" ELSE "fail")
    /\ UNCHANGED <<record, child, managed, booting, orderly, troubles>>

Started(r) ==
    /\ At(r, "start", "save")
    /\ SaveAndEnd(r, [status |-> "running", pid |-> request[r].child])

StartFailed(r) ==
    /\ At(r, "start", "fail")
    /\ SaveAndEnd(r, [status |-> "error", pid |-> None])

-----------------------------------------------------------------------------
(* stopSession, reloadSession and stopManagedProcess *)

\* Wrong variant: stop takes it that the session has a child.
StopLooksAnyway(r) ==
    /\ At(r, "stop", "read")
    /\ request' = [request EXCEPT ![r].pc = "term", ![r].child = managed[request[r].of]]
    /\ UNCHANGED <<record, child, managed, booting, orderly, troubles>>

StopLooks(r) ==
    /\ At(r, "stop", "read")
    /\ LET p == managed[request[r].of]
       IN  IF p = None THEN Goto(r, "save")
           ELSE request' = [request EXCEPT ![r].pc = "term", ![r].child = p]
    /\ UNCHANGED <<record, child, managed, booting, orderly, troubles>>

Stopped(r) ==
    /\ At(r, "stop", "save")
    /\ SaveAndEnd(r, [status |-> "stopped", pid |-> None])

ReloadLooks(r) ==
    /\ At(r, "reload", "read")
    /\ LET p == managed[request[r].of]
       IN  IF p = None \/ Exited(p) THEN Goto(r, "save")
           ELSE request' = [request EXCEPT ![r].pc = "wait", ![r].child = p]
    /\ UNCHANGED <<record, child, managed, booting, orderly, troubles>>

\* A reload that finds no answer throws: nothing is saved.
ReloadFailed(r) ==
    /\ At(r, "reload", "fail")
    /\ End(r)
    /\ UNCHANGED <<record, child, managed, booting, orderly, troubles>>

\* A session that is not stopped is running from then on, whether it has a child or not.
Reloaded(r) ==
    /\ At(r, "reload", "save")
    /\ LET snap == request[r].snap
       IN  SaveAndEnd(r, [snap EXCEPT !.status = IF @ = "stopped" THEN "stopped" ELSE "running"])

\* stopManagedProcess has returned: the session's entry is deleted, whichever child it names now.
StopReturns(r) ==
    /\ managed' = [managed EXCEPT ![request[r].of] = None]
    /\ Goto(r, IF request[r].kind = "start" THEN "fail" ELSE "save")
    /\ UNCHANGED <<record, child, booting, troubles>>

\* The close of the child was handled, before the signal or after it.
Closed(r) ==
    /\ request[r].pc \in {"term", "kill"} /\ Exited(request[r].child)
    /\ StopReturns(r)
    /\ UNCHANGED orderly

\* The grace after SIGTERM is over: SIGKILL.  (A spawn that failed has no pid: no signal is sent and
\* nothing more waited for, which comes to this step and the next at once.)
Grace(r) ==
    /\ request[r].pc = "term" /\ ~Exited(request[r].child)
    /\ child' = [child EXCEPT ![request[r].child].alive = FALSE, ![request[r].child].ready = FALSE]
    /\ Goto(r, "kill")
    /\ UNCHANGED <<record, managed, booting, orderly, troubles>>

\* So is the second one, before the close was handled.
SecondGrace(r) ==
    /\ request[r].pc = "kill" /\ ~Exited(request[r].child)
    /\ StopReturns(r)
    /\ orderly' = [orderly EXCEPT ![request[r].of] = FALSE]

\* A save that fails ends the request with the error.
SaveFails(r) ==
    /\ \/ request[r].pc \in {"save", "fail"}
       \/ request[r].pc = "read" /\ request[r].kind \in {"start", "device"}
    /\ Trouble
    /\ End(r)
    /\ orderly' = [orderly EXCEPT ![request[r].of] = FALSE]
    /\ UNCHANGED <<record, child, managed, booting>>

-----------------------------------------------------------------------------
(* The children, and the server's end and boot *)

Answers(p) ==
    /\ child[p].alive /\ ~child[p].ready
    /\ child' = [child EXCEPT ![p].ready = TRUE]
    /\ UNCHANGED <<record, managed, request, booting, orderly, troubles>>

\* By itself or by SIGTERM.
Exit(p) ==
    /\ child[p].alive
    /\ child' = [child EXCEPT ![p].alive = FALSE, ![p].ready = FALSE]
    /\ UNCHANGED <<record, managed, request, booting, orderly, troubles>>

\* The listener deletes the entry of the session, even that of a later child.
CloseEvent(p) ==
    /\ ~child[p].alive /\ ~child[p].closed
    /\ child' = [child EXCEPT ![p].closed = TRUE]
    /\ managed' = [managed EXCEPT ![child[p].of] = None]
    /\ UNCHANGED <<record, request, booting, orderly, troubles>>

\* The children are detached, and nothing ends them with the server.
Crash ==
    /\ Trouble
    /\ child' = [p \in Children |-> IF child[p].alive THEN [child[p] EXCEPT !.of = None, !.closed = TRUE] ELSE NoChild]
    /\ managed' = [s \in Sessions |-> None]
    /\ request' = [r \in Requests |-> Idle]
    /\ orderly' = [s \in Sessions |-> TRUE]
    /\ booting' = {s \in Sessions : record[s].status # "none"}
    /\ UNCHANGED record

\* Wrong variant: a session counts as stale by its status only when it runs.
RecoveredIfRunning(rec) ==
    IF rec.status = "running" THEN [status |-> "stopped", pid |-> None] ELSE rec

Recovered(rec) ==
    IF rec.status \in {"starting", "running"} THEN [status |-> "stopped", pid |-> None]
    ELSE [rec EXCEPT !.pid = None]

\* recoverStaleRuntimeSessions, which the server awaits before it listens.
Recover(s) ==
    /\ s \in booting
    /\ record' = [record EXCEPT ![s] = Recovered(@)]
    /\ booting' = booting \ {s}
    /\ UNCHANGED <<child, managed, request, orderly, troubles>>

-----------------------------------------------------------------------------
RequestStep(r) ==
    \/ SetDevice(r) \/ StartStatic(r) \/ StaticRefused(r) \/ Starting(r) \/ Look(r)
    \/ AlreadyReachable(r) \/ NothingAnswers(r) \/ NotStartable(r) \/ Spawn(r)
    \/ Ready(r) \/ NotReady(r) \/ Started(r) \/ StartFailed(r)
    \/ StopLooks(r) \/ Stopped(r) \/ ReloadLooks(r) \/ ReloadFailed(r) \/ Reloaded(r)
    \/ Closed(r) \/ Grace(r) \/ SecondGrace(r)

Next ==
    \/ \E s \in Sessions : CreateSession(s) \/ Recover(s)
    \/ \E r \in Requests, s \in Sessions, kind \in Kinds : Read(r, s, kind)
    \/ \E r \in Requests : RequestStep(r) \/ SaveFails(r)
    \/ \E p \in Children : Answers(p) \/ Exit(p) \/ CloseEvent(p)
    \/ Crash

Spec == Init /\ [][Next]_vars

-----------------------------------------------------------------------------
TypeOK ==
    /\ record \in [Sessions -> Records]
    /\ child \in [Children -> [of : Sessions \cup {None}, alive : BOOLEAN, ready : BOOLEAN, closed : BOOLEAN]]
    /\ managed \in [Sessions -> Children \cup {None}]
    /\ request \in [Requests -> [kind : Kinds, of : Sessions \cup {None}, pc : Pc, snap : Records,
                                 child : Children \cup {None}, mine : BOOLEAN]]
    /\ \A r \in Requests : request[r].pc \in {"wait", "term", "kill"} => request[r].child # None
    /\ booting \subseteq Sessions
    /\ orderly \in [Sessions -> BOOLEAN]
    /\ troubles \in 0..MaxTroubles

\* As long as requests on a session come one at a time, their saves succeed and no close comes after
\* both graces, what the record says between two requests is true of the children this server spawned
\* for it: each that lives is the one the adapter can stop, none lives when the record says waiting
\* or stopped, and the child a record names has not been replaced by another.
RecordKnowsChild ==
    \A s \in Sessions : (orderly[s] /\ ~InFlight(s) /\ booting = {}) =>
        \A p \in Children : (child[p].of = s /\ child[p].alive) =>
            /\ managed[s] = p
            /\ record[s].status \notin {"none", "waiting", "stopped"}
            /\ record[s].pid \in {p, None}

\* However requests meet and crashes fall, a record the routes can show names no process of a former
\* server: its process id is one this server spawned for that very session, so no one reads a child's
\* id that the system may have given to another process since.
ProcessIsOurs ==
    booting = {} => \A s \in Sessions : record[s].pid # None => child[record[s].pid].of = s

=============================================================================
