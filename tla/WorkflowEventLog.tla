--------------------------- MODULE WorkflowEventLog ---------------------------
(***************************************************************************)
(* The events of one workflow thread: PersistentWorkflowEventStream.emit   *)
(* starts an append to the file log without awaiting it and hands the      *)
(* event to SseEventStreamAdapter; FileWorkflowEventLogRepository.append   *)
(* takes a lock file, reads the log for the next sequence number and adds  *)
(* a line; agentRunFlowRoutes streams the events to a viewer, which merges *)
(* them into its timeline (useRunFlowEvents).                              *)
(*                                                                         *)
(* An event is the number of its emission.  The process may crash: memory  *)
(* is lost, the files stay as they are.                                    *)
(***************************************************************************)
EXTENDS Integers, Sequences

CONSTANTS
    MaxEvents,    \* bound on the emissions
    MaxLegacy,    \* bound on the events of the older single-document log
    MaxHistory,   \* maxHistory of SseEventStreamAdapter
    MaxCrashes,   \* bound on the crashes
    MaxFetches    \* bound on the viewer's fetches

ASSUME LogAssumption ==
    /\ MaxEvents \in Nat \ {0} /\ MaxHistory \in Nat \ {0}
    /\ MaxLegacy \in Nat /\ MaxCrashes \in Nat /\ MaxFetches \in Nat

VARIABLES
    emitted,   \* the emissions so far
    appends,   \* where the append of each emission is
    number,    \* the sequence number an append has computed
    lock,      \* the lock file: absent, whose it is, or left by a process that died
    legacy,    \* the events of the older log file, numbered from 1
    log,       \* the lines of the log
    tail,      \* how the log ends: with a newline, a line without one, or part of a line
    crashes,
    history,   \* the last events, kept for new subscribers
    viewer     \* the timeline in a browser and its stream

fileVars == <<lock, legacy, log, tail>>
vars == <<emitted, appends, number, lock, legacy, log, tail, crashes, history, viewer>>

Events  == 1 .. MaxEvents
Free    == 0
Stale   == -1
Entry   == [sequence : Nat, event : Events]
Phases  == {"none", "waiting", "locked", "numbered", "written", "aborted", "logged", "failed", "lost"}
Holding == {"locked", "numbered", "written", "aborted"}

\* list parses every line, and throws if one does not parse.
Readable == tail # "torn"

Listing == {log[k] : k \in DOMAIN log}

\* The highest number in use; the older file's events are numbered from 1 to legacy.
MaxSequence ==
    LET used == {legacy} \cup {entry.sequence : entry \in Listing}
    IN  CHOOSE m \in used : \A n \in used : n <= m

\* Wrong variant: the lines are counted, and the older file forgotten.
CountLines == Len(log) + 1

NextSequence == MaxSequence + 1

-----------------------------------------------------------------------------
(* The viewer.  An entry's id is made of its sequence number, so merging drops an entry whose
   number is taken by a newer one.  The event's type, the other part of the id, is the same. *)

Merge(base, incoming) ==
    {entry \in base : \A other \in incoming : other.sequence # entry.sequence} \cup incoming

Numbered(after, events) ==
    {[sequence |-> after + k, event |-> events[k]] : k \in DOMAIN events}

Timeline == Merge(viewer.base, viewer.streamed)

\* subscribe calls the handler with the history first.  Wrong variant: with nothing.
NoReplay == <<>>

Replay == history

\* A handler call of the stream: the next number is given to whatever event comes.
Deliver(view, events) ==
    [view EXCEPT !.live     = @ + Len(events),
                 !.streamed = Merge(@, Numbered(view.live, events)),
                 !.received = @ \cup {events[k] : k \in DOMAIN events}]

Highest(after, entries) ==
    CHOOSE m \in {after} \cup {entry.sequence : entry \in entries} :
        m >= after /\ \A entry \in entries : entry.sequence <= m

Init ==
    /\ emitted = 0 /\ crashes = 0
    /\ appends = [e \in Events |-> "none"]
    /\ number = [e \in Events |-> 0]
    /\ lock = Free /\ legacy \in 0 .. MaxLegacy /\ log = <<>> /\ tail = "complete"
    /\ history = <<>>
    /\ viewer = [phase |-> "closed", since |-> 0, live |-> 0, replay |-> {}, base |-> {},
                 streamed |-> {}, received |-> {}, fetches |-> 0]

-----------------------------------------------------------------------------
(* Emitting and appending. *)

\* The history keeps the last events.  Wrong variant: all of them.
RememberAll(past, e) == Append(past, e)

Remember(past, e) ==
    IF Len(past) < MaxHistory THEN Append(past, e) ELSE Append(Tail(past), e)

Emit ==
    /\ emitted < MaxEvents
    /\ emitted' = emitted + 1
    /\ appends' = [appends EXCEPT ![emitted + 1] = "waiting"]
    /\ history' = Remember(history, emitted + 1)
    /\ viewer' = IF viewer.phase = "open" THEN Deliver(viewer, <<emitted + 1>>) ELSE viewer
    /\ UNCHANGED <<number, fileVars, crashes>>

\* open(path, "wx") succeeds for one append only.
Acquire(e) ==
    /\ appends[e] = "waiting" /\ lock = Free
    /\ lock' = e
    /\ appends' = [appends EXCEPT ![e] = "locked"]
    /\ UNCHANGED <<emitted, number, legacy, log, tail, crashes, history, viewer>>

\* After five seconds, or on another error of open, the append throws; emit logs the error.
\* Wrong variants: it removes the lock file as the others do; it waits on.
GiveUpRemovesLock(e) ==
    /\ appends[e] = "waiting"
    /\ appends' = [appends EXCEPT ![e] = "failed"]
    /\ lock' = Free
    /\ UNCHANGED <<emitted, number, legacy, log, tail, crashes, history, viewer>>

GiveUpNever(e) == appends[e] = "waiting" /\ lock = Free /\ UNCHANGED vars

GiveUp(e) ==
    /\ appends[e] = "waiting"
    /\ appends' = [appends EXCEPT ![e] = "failed"]
    /\ UNCHANGED <<emitted, number, fileVars, crashes, history, viewer>>

ComputeSequence(e) ==
    /\ appends[e] = "locked" /\ Readable
    /\ appends' = [appends EXCEPT ![e] = "numbered"]
    /\ number' = [number EXCEPT ![e] = NextSequence]
    /\ UNCHANGED <<emitted, fileVars, crashes, history, viewer>>

\* list throws: a line does not parse, or the file cannot be read.
ListFails(e) ==
    /\ appends[e] = "locked"
    /\ appends' = [appends EXCEPT ![e] = "aborted"]
    /\ UNCHANGED <<emitted, number, fileVars, crashes, history, viewer>>

\* A line after one without a newline continues it, and neither can be read.
WholeLine(e) ==
    IF tail = "complete"
    THEN log' = Append(log, [sequence |-> number[e], event |-> e]) /\ UNCHANGED tail
    ELSE tail' = "torn" /\ UNCHANGED log

\* A write reaches the file in part, if at all; all but the newline is a line that parses.
PartOfLine(e) ==
    \/ tail' \in {tail, "torn"} /\ UNCHANGED log
    \/ /\ tail = "complete"
       /\ log' = Append(log, [sequence |-> number[e], event |-> e])
       /\ tail' = "unterminated"

WriteLine(e) ==
    /\ appends[e] = "numbered"
    /\ WholeLine(e)
    /\ appends' = [appends EXCEPT ![e] = "written"]
    /\ UNCHANGED <<emitted, number, lock, legacy, crashes, history, viewer>>

\* Wrong variant: a write whose sync failed is tried again.
WriteAgain(e) ==
    /\ appends[e] = "numbered"
    /\ WholeLine(e) \/ PartOfLine(e)
    /\ UNCHANGED <<emitted, appends, number, lock, legacy, crashes, history, viewer>>

WriteFails(e) ==
    /\ appends[e] = "numbered"
    /\ WholeLine(e) \/ PartOfLine(e)
    /\ appends' = [appends EXCEPT ![e] = "aborted"]
    /\ UNCHANGED <<emitted, number, lock, legacy, crashes, history, viewer>>

\* The lock file is closed and removed.  It stays if either fails; a failing close also makes
\* the append throw.
Release(e) ==
    /\ appends[e] \in {"written", "aborted"}
    /\ \/ /\ lock' \in {Free, Stale}
          /\ appends' = [appends EXCEPT ![e] = IF @ = "written" THEN "logged" ELSE "failed"]
       \/ /\ lock' = Stale
          /\ appends' = [appends EXCEPT ![e] = "failed"]
    /\ UNCHANGED <<emitted, number, legacy, log, tail, crashes, history, viewer>>

AppendStep(e) ==
    \/ Acquire(e) \/ GiveUp(e)
    \/ ComputeSequence(e) \/ ListFails(e)
    \/ WriteLine(e) \/ WriteFails(e)
    \/ Release(e)

\* The appends under way are lost, and a lock file stays behind.
Crash ==
    /\ crashes < MaxCrashes
    /\ crashes' = crashes + 1
    /\ appends' = [e \in Events |-> IF appends[e] \in Holding \cup {"waiting"} THEN "lost"
                                    ELSE appends[e]]
    /\ lock' = IF lock = Free THEN Free ELSE Stale
    /\ \/ \E e \in Events : appends[e] = "numbered" /\ (WholeLine(e) \/ PartOfLine(e))
       \/ UNCHANGED <<log, tail>>
    /\ history' = <<>>
    /\ viewer' = [viewer EXCEPT !.phase = "closed", !.live = 0, !.replay = {}, !.received = {}]
    /\ UNCHANGED <<emitted, number, legacy>>

-----------------------------------------------------------------------------
(* Streaming to the viewer. *)

\* The viewer fetches the run and opens a stream from its last event on.
Fetch ==
    /\ Readable /\ viewer.fetches < MaxFetches
    /\ viewer' = [viewer EXCEPT !.phase = "requested", !.base = Listing, !.live = 0,
                                !.since = MaxSequence, !.replay = {}, !.received = {},
                                !.fetches = @ + 1]
    /\ UNCHANGED <<emitted, appends, number, fileVars, crashes, history>>

\* A stream that broke is opened again with the same address.
Reconnect ==
    /\ viewer.phase = "closed" /\ viewer.fetches > 0
    /\ viewer' = [viewer EXCEPT !.phase = "requested"]
    /\ UNCHANGED <<emitted, appends, number, fileVars, crashes, history>>

\* listEventsAfter: a torn log leaves the stream without an answer.
ListAfter ==
    /\ viewer.phase = "requested" /\ Readable
    /\ viewer' = [viewer EXCEPT
           !.phase = "listed",
           !.replay = {entry \in Listing : entry.sequence > viewer.since}]
    /\ UNCHANGED <<emitted, appends, number, fileVars, crashes, history>>

\* The events listed are sent and the stream subscribes, in one go.
Subscribe ==
    /\ viewer.phase = "listed"
    /\ LET sent == [viewer EXCEPT
               !.phase    = "open",
               !.live     = Highest(viewer.since, viewer.replay),
               !.streamed = Merge(@, viewer.replay),
               !.received = {entry.event : entry \in viewer.replay},
               !.replay   = {}]
       IN  viewer' = Deliver(sent, Replay)
    /\ UNCHANGED <<emitted, appends, number, fileVars, crashes, history>>

Next ==
    \/ Emit \/ Crash
    \/ \E e \in Events : AppendStep(e)
    \/ Fetch \/ Reconnect \/ ListAfter \/ Subscribe

Spec == Init /\ [][Next]_vars

\* File operations return, and an append polls the lock until its timeout.
FairSpec == Spec /\ \A e \in Events : WF_vars(AppendStep(e))

-----------------------------------------------------------------------------
TypeOK ==
    /\ emitted \in 0 .. MaxEvents /\ crashes \in 0 .. MaxCrashes
    /\ appends \in [Events -> Phases]
    /\ number \in [Events -> Nat]
    /\ lock \in Events \cup {Free, Stale}
    /\ legacy \in 0 .. MaxLegacy /\ tail \in {"complete", "unterminated", "torn"}
    /\ log \in Seq(Entry)
    /\ history \in Seq(Events) /\ Len(history) <= MaxHistory
    /\ viewer \in [phase : {"closed", "requested", "listed", "open"}, since : Nat, live : Nat,
                   replay : SUBSET Entry, base : SUBSET Entry, streamed : SUBSET Entry,
                   received : SUBSET Events, fetches : Nat]

\* The lock file keeps two appends of one thread from computing and writing numbers at once,
\* whatever times out or crashes in between (withFileLock, acquireFileLock).
LockIsExclusive == \A e \in Events : appends[e] \in Holding => lock = e

\* The sequence numbers go on from the older log without gap or repetition, also after a crash,
\* a failed write or a timeout (append, maxSequence).
NumbersAreConsecutive == \A k \in DOMAIN log : log[k].sequence = legacy + k

\* No emission is left hanging: its append succeeds, fails with a report, or dies with the
\* process, even behind a lock file nobody removes.
EveryAppendSettles ==
    \A e \in Events : (appends[e] = "waiting") ~> (appends[e] \in {"logged", "failed", "lost"})

\* The hand-over from the log to the live stream has no gap: while a stream is open, the viewer
\* has got every logged event from it or from the fetch before it, also one that was logged or
\* emitted between the listing and the subscription, unless as many events as the history
\* holds were emitted after it.
NoGap ==
    viewer.phase = "open" =>
        \A entry \in Listing :
            \/ entry.event \in viewer.received
            \/ entry \in viewer.base
            \/ entry.event + MaxHistory <= emitted

\* The log implements an append-only log.
AppendOnly == INSTANCE AppendOnlyLog WITH
    entries <- [k \in DOMAIN log |-> log[k].event],
    numbers <- [k \in DOMAIN log |-> log[k].sequence],
    first   <- legacy + 1

ImplementsAppendOnlyLog == AppendOnly!Spec

=============================================================================
