------------------------ MODULE WorkflowEventLogProofs ------------------------
(***************************************************************************)
(* Theorems about WorkflowEventLog, for any number of events, any older    *)
(* log, any history and any number of crashes and fetches.                 *)
(*                                                                         *)
(* The numbers are consecutive because an append that has computed its     *)
(* number holds the lock until its line is written, so that the log does   *)
(* not grow in between (NumberIsNext).  An event is in the log only once   *)
(* because its append leaves the phases before the write when it writes    *)
(* (LoggedHasWritten).                                                     *)
(* A viewer misses nothing because every logged event is either listed by  *)
(* its stream's route or still to be subscribed to, and what was emitted   *)
(* before the subscription is in the history unless the history is full    *)
(* (ViewInv).                                                              *)
(***************************************************************************)
EXTENDS WorkflowEventLog, TLAPS

Types ==
    /\ emitted \in 0 .. MaxEvents
    /\ appends \in [Events -> Phases]
    /\ number \in [Events -> Nat]
    /\ lock \in Events \cup {Free, Stale}
    /\ legacy \in Nat
    /\ log \in Seq(Entry)

OnlyEmitted == \A e \in Events : appends[e] # "none" => e <= emitted

NumberIsNext ==
    \A e \in Events : appends[e] = "numbered" => number[e] = legacy + Len(log) + 1

LoggedHasWritten ==
    \A k \in DOMAIN log :
        appends[log[k].event] \notin {"none", "waiting", "locked", "numbered"}

IInv ==
    /\ Types /\ LockIsExclusive /\ NumbersAreConsecutive
    /\ OnlyEmitted /\ NumberIsNext /\ LoggedHasWritten

-----------------------------------------------------------------------------

LEMMA LinesAreEntries ==
    ASSUME Types
    PROVE  /\ DOMAIN log = 1 .. Len(log) /\ Len(log) \in Nat
           /\ \A k \in DOMAIN log :
                  log[k] \in Entry /\ log[k].sequence \in Nat /\ log[k].event \in Events
<1>1. \A line \in Entry : line.sequence \in Nat /\ line.event \in Events
  BY DEF Entry
<1>2. /\ DOMAIN log = 1 .. Len(log) /\ Len(log) \in Nat
      /\ \A k \in DOMAIN log : log[k] \in Entry
  BY DEF Types
<1> QED BY <1>1, <1>2

\* The highest number in use is that of the last line, or of the older log's last event.
LEMMA MaxIsLast ==
    ASSUME Types, NumbersAreConsecutive
    PROVE  MaxSequence = legacy + Len(log)
<1> DEFINE inUse == {legacy} \cup {entry.sequence : entry \in Listing}
           last == legacy + Len(log)
<1>1. Len(log) \in Nat /\ DOMAIN log = 1 .. Len(log) /\ legacy \in Nat
  BY DEF Types
<1>2. last \in inUse
  <2>1. CASE Len(log) = 0
    BY <1>1, <2>1
  <2>2. CASE Len(log) # 0
    <3>1. Len(log) \in DOMAIN log
      BY <1>1, <2>2
    <3>2. log[Len(log)] \in Listing /\ log[Len(log)].sequence = last
      BY <3>1 DEF Listing, NumbersAreConsecutive
    <3> QED BY <3>2
  <2> QED BY <2>1, <2>2
<1>3. \A n \in inUse : n \in Nat /\ n <= last
  <2> SUFFICES ASSUME NEW n \in inUse PROVE n \in Nat /\ n <= last
    OBVIOUS
  <2>1. CASE n = legacy
    BY <1>1, <2>1
  <2>2. CASE \E k \in DOMAIN log : n = log[k].sequence
    BY <1>1, <2>2 DEF NumbersAreConsecutive
  <2> QED BY <2>1, <2>2 DEF Listing
<1>4. MaxSequence = (CHOOSE m \in inUse : \A n \in inUse : n <= m)
  BY DEF MaxSequence
<1> HIDE DEF inUse, last
<1>5. \A m \in inUse : (\A n \in inUse : n <= m) => m = last
  BY <1>2, <1>3
<1>6. \A n \in inUse : n <= last
  BY <1>3
<1>7. (CHOOSE m \in inUse : \A n \in inUse : n <= m) = last
  BY <1>2, <1>5, <1>6
<1> QED BY <1>4, <1>7 DEF last

LEMMA InitInv == ASSUME Init PROVE IInv
BY LogAssumption
DEF Init, IInv, Types, LockIsExclusive, NumbersAreConsecutive, OnlyEmitted, NumberIsNext,
    LoggedHasWritten, Events, Phases, Holding, Free, Entry

-----------------------------------------------------------------------------
(* The two ways the log changes in one step: it stays, or a line is added by the append that
   holds the lock. *)

Unwritten == {"none", "waiting", "locked", "numbered"}

\* What a write, whether it succeeds or not, does to the log.
LineAdded(e) == log' = Append(log, [sequence |-> number[e], event |-> e])

LEMMA WritesAtMostOneLine ==
    ASSUME NEW e \in Events, WholeLine(e) \/ PartOfLine(e)
    PROVE  log' = log \/ LineAdded(e)
BY DEF WholeLine, PartOfLine, LineAdded

\* The number of the append that is numbered is the next one.
LEMMA LineKeepsOrder ==
    ASSUME IInv, NEW e \in Events, appends[e] = "numbered", LineAdded(e), legacy' = legacy
    PROVE  log' \in Seq(Entry) /\ NumbersAreConsecutive' /\ Len(log') = Len(log) + 1
<1>1. number[e] = legacy + Len(log) + 1
  BY DEF IInv, NumberIsNext
<1>2. Types /\ NumbersAreConsecutive
  BY DEF IInv
<1>3. [sequence |-> number[e], event |-> e] \in Entry
  BY <1>2 DEF Types, Entry
<1>4. log' \in Seq(Entry) /\ Len(log') = Len(log) + 1
  BY <1>2, <1>3 DEF Types, LineAdded
<1>5. ASSUME NEW k \in DOMAIN log' PROVE log'[k].sequence = legacy' + k
  <2>1. CASE k = Len(log) + 1
    BY <1>1, <1>2, <1>3, <2>1 DEF LineAdded, Types
  <2>2. CASE k # Len(log) + 1
    <3>1. k \in DOMAIN log /\ log'[k] = log[k]
      BY <1>2, <1>3, <1>4, <2>2 DEF LineAdded, Types
    <3> QED BY <1>2, <3>1 DEF NumbersAreConsecutive
  <2> QED BY <2>1, <2>2
<1> QED BY <1>4, <1>5 DEF NumbersAreConsecutive

\* A written event has left the phases before the write, and the others have not gone back.
LEMMA LineKeepsWritten ==
    ASSUME IInv, NEW e \in Events, LineAdded(e) \/ log' = log,
           appends'[e] \notin Unwritten,
           \A f \in Events : appends[f] \notin Unwritten => appends'[f] \notin Unwritten
    PROVE  LoggedHasWritten'
<1>1. Types /\ LoggedHasWritten
  BY DEF IInv
<1>2. ASSUME NEW k \in DOMAIN log' PROVE appends'[log'[k].event] \notin Unwritten
  <2>1. CASE LineAdded(e) /\ k = Len(log) + 1
    <3>1. log'[k] = [sequence |-> number[e], event |-> e]
      BY <1>1, <2>1 DEF LineAdded, Types
    <3> QED BY <3>1
  <2>2. CASE ~(LineAdded(e) /\ k = Len(log) + 1)
    <3>1. k \in DOMAIN log /\ log'[k] = log[k] /\ log[k].event \in Events
      BY <1>1, <2>2, LinesAreEntries DEF LineAdded, Types
    <3>2. appends[log[k].event] \notin Unwritten
      BY <1>1, <3>1 DEF LoggedHasWritten, Unwritten
    <3> QED BY <3>1, <3>2, Zenon
  <2> QED BY <2>1, <2>2
<1> QED BY <1>2 DEF LoggedHasWritten, Unwritten

-----------------------------------------------------------------------------
(* One lemma per action. *)

LEMMA EmitStep == ASSUME IInv, Emit PROVE IInv'
<1> USE DEF IInv, Emit, fileVars
<1>1. emitted + 1 \in Events /\ appends[emitted + 1] = "none"
  BY LogAssumption DEF Types, OnlyEmitted, Events
<1>2. Types'
  BY <1>1, LogAssumption DEF Types, Phases, Events
<1>3. LockIsExclusive'
  BY <1>1 DEF LockIsExclusive, Holding, Types
<1>4. NumbersAreConsecutive'
  BY DEF NumbersAreConsecutive
<1>5. OnlyEmitted'
  BY <1>1 DEF OnlyEmitted, Types, Events
<1>6. NumberIsNext'
  BY <1>1 DEF NumberIsNext, Types
<1>7. LoggedHasWritten'
  BY <1>1 DEF LoggedHasWritten, Types
<1> QED BY <1>2, <1>3, <1>4, <1>5, <1>6, <1>7

LEMMA AcquireStep == ASSUME IInv, NEW e \in Events, Acquire(e) PROVE IInv'
<1> USE DEF IInv, Acquire
<1>1. Types'
  BY DEF Types, Phases, Events, Free, Stale
<1>2. LockIsExclusive'
  BY DEF LockIsExclusive, Holding, Types, Free, Events
<1>3. NumbersAreConsecutive'
  BY DEF NumbersAreConsecutive
<1>4. OnlyEmitted'
  BY DEF OnlyEmitted, Types, Events
<1>5. NumberIsNext'
  BY DEF NumberIsNext, Types
<1>6. LoggedHasWritten'
  BY DEF LoggedHasWritten, Types
<1> QED BY <1>1, <1>2, <1>3, <1>4, <1>5, <1>6

LEMMA GiveUpStep == ASSUME IInv, NEW e \in Events, GiveUp(e) PROVE IInv'
<1> USE DEF IInv, GiveUp, fileVars
<1>1. Types'
  BY DEF Types, Phases
<1>2. LockIsExclusive'
  BY DEF LockIsExclusive, Holding, Types
<1>3. NumbersAreConsecutive'
  BY DEF NumbersAreConsecutive
<1>4. OnlyEmitted'
  BY DEF OnlyEmitted, Types, Events
<1>5. NumberIsNext'
  BY DEF NumberIsNext, Types
<1>6. LoggedHasWritten'
  BY DEF LoggedHasWritten, Types
<1> QED BY <1>1, <1>2, <1>3, <1>4, <1>5, <1>6

LEMMA ComputeSequenceStep == ASSUME IInv, NEW e \in Events, ComputeSequence(e) PROVE IInv'
<1> USE DEF IInv, ComputeSequence, fileVars
<1>1. NextSequence = legacy + Len(log) + 1 /\ NextSequence \in Nat
  BY MaxIsLast DEF NextSequence, Types
<1>2. Types'
  BY <1>1 DEF Types, Phases
<1>3. LockIsExclusive'
  BY DEF LockIsExclusive, Holding, Types
<1>4. NumbersAreConsecutive'
  BY DEF NumbersAreConsecutive
<1>5. OnlyEmitted'
  BY DEF OnlyEmitted, Types, Events
<1>6. NumberIsNext'
  BY <1>1 DEF NumberIsNext, Types
<1>7. LoggedHasWritten'
  BY DEF LoggedHasWritten, Types
<1> QED BY <1>2, <1>3, <1>4, <1>5, <1>6, <1>7

LEMMA ListFailsStep == ASSUME IInv, NEW e \in Events, ListFails(e) PROVE IInv'
<1> USE DEF IInv, ListFails, fileVars
<1>1. Types'
  BY DEF Types, Phases
<1>2. LockIsExclusive'
  BY DEF LockIsExclusive, Holding, Types
<1>3. NumbersAreConsecutive'
  BY DEF NumbersAreConsecutive
<1>4. OnlyEmitted'
  BY DEF OnlyEmitted, Types, Events
<1>5. NumberIsNext'
  BY DEF NumberIsNext, Types
<1>6. LoggedHasWritten'
  BY DEF LoggedHasWritten, Types
<1> QED BY <1>1, <1>2, <1>3, <1>4, <1>5, <1>6

LEMMA WriteStep == ASSUME IInv, NEW e \in Events, WriteLine(e) \/ WriteFails(e) PROVE IInv'
<1> USE DEF IInv
<1>1. /\ appends[e] = "numbered" /\ legacy' = legacy /\ lock' = lock /\ lock = e
      /\ number' = number /\ emitted' = emitted
      /\ \E phase \in {"written", "aborted"} : appends' = [appends EXCEPT ![e] = phase]
  BY DEF WriteLine, WriteFails, LockIsExclusive, Holding
<1>2. log' = log \/ LineAdded(e)
  BY WritesAtMostOneLine DEF WriteLine, WriteFails
<1>3. log' \in Seq(Entry) /\ NumbersAreConsecutive'
  BY <1>1, <1>2, LineKeepsOrder DEF Types, NumbersAreConsecutive
<1>4. Types'
  BY <1>1, <1>3 DEF Types, Phases
<1>5. LockIsExclusive'
  BY <1>1 DEF LockIsExclusive, Holding, Types
<1>6. OnlyEmitted'
  BY <1>1 DEF OnlyEmitted, Types, Events
<1>7. NumberIsNext'
  BY <1>1 DEF NumberIsNext, LockIsExclusive, Holding, Types
<1>8. LoggedHasWritten'
  <2>1. appends'[e] \notin Unwritten
    BY <1>1 DEF Types, Unwritten
  <2>2. \A f \in Events : appends[f] \notin Unwritten => appends'[f] \notin Unwritten
    BY <1>1 DEF Types, Unwritten
  <2> QED BY <1>2, <2>1, <2>2, LineKeepsWritten
<1> QED BY <1>3, <1>4, <1>5, <1>6, <1>7, <1>8

LEMMA ReleaseStep == ASSUME IInv, NEW e \in Events, Release(e) PROVE IInv'
<1> USE DEF IInv
<1>1. /\ appends[e] \in {"written", "aborted"} /\ lock = e
      /\ lock' \in {Free, Stale}
      /\ \E phase \in {"logged", "failed"} : appends' = [appends EXCEPT ![e] = phase]
      /\ UNCHANGED <<emitted, number, legacy, log>>
  BY DEF Release, LockIsExclusive, Holding
<1>2. Types'
  BY <1>1 DEF Types, Phases
<1>3. LockIsExclusive'
  BY <1>1 DEF LockIsExclusive, Holding, Types
<1>4. NumbersAreConsecutive'
  BY <1>1 DEF NumbersAreConsecutive
<1>5. OnlyEmitted'
  BY <1>1 DEF OnlyEmitted, Types, Events
<1>6. NumberIsNext'
  BY <1>1 DEF NumberIsNext, Types
<1>7. LoggedHasWritten'
  BY <1>1 DEF LoggedHasWritten, Types
<1> QED BY <1>2, <1>3, <1>4, <1>5, <1>6, <1>7

\* Whatever the crash leaves of the writes under way, it is at most one line.
LEMMA CrashStep == ASSUME IInv, Crash PROVE IInv'
<1> USE DEF IInv
<1>1. /\ appends' \in [Events -> Phases]
      /\ \A e \in Events : appends'[e] \notin Holding
      /\ \A e \in Events : appends'[e] # appends[e] => appends'[e] = "lost"
      /\ \A e \in Events : appends'[e] = "none" => appends[e] = "none"
      /\ \A e \in Events : appends[e] = "none" => appends'[e] = "none"
      /\ \A e \in Events : appends[e] = "numbered" => appends'[e] \notin Unwritten
  BY DEF Crash, Types, Phases, Holding, Unwritten
<1>2. UNCHANGED <<emitted, number, legacy>> /\ lock' \in {Free, Stale}
  BY DEF Crash
<1>3. log' = log \/ \E e \in Events : appends[e] = "numbered" /\ LineAdded(e)
  BY WritesAtMostOneLine DEF Crash
<1>4. log' \in Seq(Entry) /\ NumbersAreConsecutive'
  BY <1>2, <1>3, LineKeepsOrder DEF Types, NumbersAreConsecutive
<1>5. Types'
  BY <1>1, <1>2, <1>4 DEF Types
<1>6. LockIsExclusive' /\ NumberIsNext'
  BY <1>1 DEF LockIsExclusive, NumberIsNext, Holding
<1>7. OnlyEmitted'
  BY <1>1, <1>2 DEF OnlyEmitted
<1>8. LoggedHasWritten'
  <2>1. \A f \in Events : appends[f] \notin Unwritten => appends'[f] \notin Unwritten
    BY <1>1 DEF Unwritten
  <2>2. CASE log' = log
    <3> SUFFICES ASSUME NEW k \in DOMAIN log PROVE appends'[log[k].event] \notin Unwritten
      BY <2>2 DEF LoggedHasWritten, Unwritten
    <3>1. log[k].event \in Events
      BY LinesAreEntries
    <3>2. appends[log[k].event] \notin Unwritten
      BY DEF LoggedHasWritten, Unwritten
    <3> QED BY <2>1, <3>1, <3>2, Zenon
  <2>3. CASE \E e \in Events : appends[e] = "numbered" /\ LineAdded(e)
    BY <1>1, <2>1, <2>3, LineKeepsWritten
  <2> QED BY <1>3, <2>2, <2>3
<1> QED BY <1>4, <1>5, <1>6, <1>7, <1>8

\* The viewer's steps, and steps that change nothing, leave the log and its appends alone.
LEMMA OtherStep ==
    ASSUME IInv, UNCHANGED <<emitted, appends, number, lock, legacy, log>>
    PROVE  IInv'
BY DEF IInv, Types, LockIsExclusive, NumbersAreConsecutive, OnlyEmitted, NumberIsNext,
       LoggedHasWritten

LEMMA InvStep == ASSUME IInv, [Next]_vars PROVE IInv'
<1>1. CASE Emit
  BY <1>1, EmitStep
<1>2. CASE Crash
  BY <1>2, CrashStep
<1>3. ASSUME NEW e \in Events, AppendStep(e) PROVE IInv'
  BY <1>3, AcquireStep, GiveUpStep, ComputeSequenceStep, ListFailsStep, WriteStep, ReleaseStep
  DEF AppendStep
<1>4. CASE Fetch \/ Reconnect \/ ListAfter \/ Subscribe
  BY <1>4, OtherStep DEF Fetch, Reconnect, ListAfter, Subscribe, fileVars
<1>5. CASE UNCHANGED vars
  BY <1>5, OtherStep DEF vars
<1> QED BY <1>1, <1>2, <1>3, <1>4, <1>5 DEF Next

\* The inductive invariant holds throughout.
THEOREM Inductive == Spec => []IInv
<1>1. Init => IInv
  BY InitInv
<1>2. IInv /\ [Next]_vars => IInv'
  BY InvStep
<1> QED BY <1>1, <1>2, PTL DEF Spec

\* Two appends of a thread never compute or write a number at once, whatever times out,
\* fails or crashes (withFileLock).
THEOREM MutualExclusion == Spec => []LockIsExclusive
BY Inductive, PTL DEF IInv

\* The numbers of the log go on from the older log without gap or repetition (append,
\* maxSequence).
THEOREM ConsecutiveNumbers == Spec => []NumbersAreConsecutive
BY Inductive, PTL DEF IInv

-----------------------------------------------------------------------------
(* The log implements an append-only log. *)

LEMMA RefinementInit == ASSUME Init PROVE AppendOnly!Init
BY LogAssumption DEF Init, AppendOnly!Init

\* A step that adds a line logs an event that was emitted and is not in the log yet.
LEMMA LineIsLogged ==
    ASSUME IInv, NEW e \in Events, appends[e] = "numbered", LineAdded(e),
           UNCHANGED <<emitted, legacy>>
    PROVE  AppendOnly!Log
<1> DEFINE entries == [k \in DOMAIN log |-> log[k].event]
           numbers == [k \in DOMAIN log |-> log[k].sequence]
           line    == [sequence |-> number[e], event |-> e]
<1>1. /\ log \in Seq(Entry) /\ line \in Entry /\ Len(log) \in Nat
      /\ legacy \in Nat /\ emitted \in 0 .. MaxEvents
  BY DEF IInv, Types, Entry
<1>2. e \in 1 .. emitted
  BY <1>1 DEF IInv, OnlyEmitted, Events
<1>3. \A k \in DOMAIN entries : entries[k] # e
  BY DEF IInv, LoggedHasWritten
<1>4. number[e] = legacy + 1 + Len(log)
  BY <1>1 DEF IInv, NumberIsNext
<1>5. entries \in Seq(Events) /\ Len(entries) = Len(log)
  BY LinesAreEntries DEF IInv
<1>6. numbers \in Seq(Nat) /\ Len(numbers) = Len(log)
  BY LinesAreEntries DEF IInv
<1>7. /\ DOMAIN log' = 1 .. Len(log) + 1
      /\ \A k \in DOMAIN log' : log'[k] = IF k = Len(log) + 1 THEN line ELSE log[k]
  BY <1>1 DEF LineAdded
<1>8. [k \in DOMAIN log' |-> log'[k].event] = Append(entries, e)
  BY <1>1, <1>5, <1>7
<1>9. [k \in DOMAIN log' |-> log'[k].sequence] = Append(numbers, legacy + 1 + Len(numbers))
  <2>1. [k \in DOMAIN log' |-> log'[k].sequence] = Append(numbers, number[e])
    BY <1>1, <1>6, <1>7
  <2> QED BY <1>4, <1>6, <2>1
<1> QED BY <1>2, <1>3, <1>8, <1>9 DEF AppendOnly!Log

LEMMA RefinementStep == ASSUME IInv, [Next]_vars PROVE [AppendOnly!Next]_AppendOnly!vars
<1>1. CASE Emit
  BY <1>1 DEF Emit, fileVars, AppendOnly!Next, AppendOnly!Emit
<1>2. CASE Crash
  <2>1. UNCHANGED <<emitted, legacy>>
    BY <1>2 DEF Crash
  <2>2. log' = log \/ \E e \in Events : appends[e] = "numbered" /\ LineAdded(e)
    BY <1>2, WritesAtMostOneLine DEF Crash
  <2> QED BY <2>1, <2>2, LineIsLogged DEF AppendOnly!Next, AppendOnly!vars
<1>3. ASSUME NEW e \in Events, WriteLine(e) \/ WriteFails(e)
      PROVE  [AppendOnly!Next]_AppendOnly!vars
  <2>1. appends[e] = "numbered" /\ UNCHANGED <<emitted, legacy>>
    BY <1>3 DEF WriteLine, WriteFails
  <2>2. log' = log \/ LineAdded(e)
    BY <1>3, WritesAtMostOneLine DEF WriteLine, WriteFails
  <2> QED BY <2>1, <2>2, LineIsLogged DEF AppendOnly!Next, AppendOnly!vars
<1>4. ASSUME NEW e \in Events,
             Acquire(e) \/ GiveUp(e) \/ ComputeSequence(e) \/ ListFails(e) \/ Release(e)
      PROVE  UNCHANGED <<emitted, legacy, log>>
  BY <1>4 DEF Acquire, GiveUp, ComputeSequence, ListFails, Release, fileVars
<1>5. CASE Fetch \/ Reconnect \/ ListAfter \/ Subscribe \/ UNCHANGED vars
  <2>1. UNCHANGED <<emitted, legacy, log>>
    BY <1>5 DEF Fetch, Reconnect, ListAfter, Subscribe, fileVars, vars
  <2> QED BY <2>1 DEF AppendOnly!vars
<1>6. ASSUME UNCHANGED <<emitted, legacy, log>> PROVE [AppendOnly!Next]_AppendOnly!vars
  BY <1>6 DEF AppendOnly!vars
<1> QED BY <1>1, <1>2, <1>3, <1>4, <1>5, <1>6 DEF Next, AppendStep

\* The file log only grows, by one emitted event at a time, each at most once and under the
\* next number: it implements AppendOnlyLog.
THEOREM Refinement == Spec => ImplementsAppendOnlyLog
<1>1. Init => AppendOnly!Init
  BY RefinementInit
<1>2. IInv /\ [Next]_vars => [AppendOnly!Next]_AppendOnly!vars
  BY RefinementStep
<1> QED BY <1>1, <1>2, Inductive, PTL DEF Spec, ImplementsAppendOnlyLog, AppendOnly!Spec

-----------------------------------------------------------------------------
(* The viewer: what it has got, and what it still gets from the history. *)

\* The append of e is under way.
Pending(e) == appends[e] \in Holding \cup {"waiting"}

Remembered(e) == \E k \in DOMAIN history : history[k] = e

\* As many events as the history holds were emitted after e.
Old(e) == e + MaxHistory <= emitted

\* The history is made of the last emissions, one after the other.
HistoryIsRecent ==
    /\ Len(history) <= emitted
    /\ \A k \in DOMAIN history : history[k] = emitted - Len(history) + k

\* An event that may still get into the log is in the history, or too old for it.
PendingIsRemembered == \A e \in Events : Pending(e) => Remembered(e) \/ Old(e)

\* What was fetched is all up to the number the stream starts from.
FetchedUpTo ==
    /\ viewer.since <= legacy + Len(log)
    /\ \A entry \in Listing : entry \in viewer.base \/ entry.sequence > viewer.since

\* What is to be sent has a last entry.
ReplayEnds ==
    viewer.replay # {} => \E last \in viewer.replay :
        /\ last.sequence > viewer.since
        /\ \A entry \in viewer.replay : entry.sequence <= last.sequence

\* Between listing and subscribing, what was logged late is in the history.
ListedOrRemembered ==
    viewer.phase = "listed" => \A entry \in Listing :
        \/ entry \in viewer.base \cup viewer.replay
        \/ Remembered(entry.event) \/ Old(entry.event)

\* An open stream has handed over what may still get into the log.
PendingIsReceived ==
    viewer.phase = "open" =>
        \A e \in Events : Pending(e) => e \in viewer.received \/ Old(e)

ViewInv ==
    /\ IInv /\ TypeOK /\ HistoryIsRecent /\ PendingIsRemembered
    /\ FetchedUpTo /\ ReplayEnds /\ ListedOrRemembered /\ PendingIsReceived /\ NoGap

\* The rest of the type invariant: the viewer's entries are entries, its numbers are numbers.
ViewTypes ==
    /\ crashes \in 0 .. MaxCrashes /\ legacy \in 0 .. MaxLegacy
    /\ tail \in {"complete", "unterminated", "torn"}
    /\ history \in Seq(Events) /\ Len(history) <= MaxHistory
    /\ viewer \in [phase : {"closed", "requested", "listed", "open"}, since : Nat, live : Nat,
                   replay : SUBSET Entry, base : SUBSET Entry, streamed : SUBSET Entry,
                   received : SUBSET Events, fetches : Nat]

LEMMA AllTypes == IInv /\ ViewTypes => TypeOK
BY DEF IInv, Types, ViewTypes, TypeOK

LEMMA AllTypesNext == IInv' /\ ViewTypes' => TypeOK'
BY DEF IInv, Types, ViewTypes, TypeOK

LEMMA Listed ==
    ASSUME IInv
    PROVE  /\ Listing \subseteq Entry
           /\ \A entry \in Listing : /\ entry.sequence \in Nat /\ entry.event \in Events
                                     /\ entry.sequence > legacy /\ entry.sequence <= legacy + Len(log)
           /\ Len(log) \in Nat /\ legacy \in Nat
           /\ MaxSequence = legacy + Len(log)
<1>1. Types /\ NumbersAreConsecutive
  BY DEF IInv
<1>2. /\ DOMAIN log = 1 .. Len(log) /\ Len(log) \in Nat /\ legacy \in Nat
      /\ \A k \in DOMAIN log :
           log[k] \in Entry /\ log[k].sequence \in Nat /\ log[k].event \in Events
  BY <1>1, LinesAreEntries DEF Types
<1>3. \A k \in DOMAIN log : log[k].sequence = legacy + k
  BY <1>1 DEF NumbersAreConsecutive
<1> QED BY <1>1, <1>2, <1>3, MaxIsLast DEF Listing

\* A line adds one entry, under a number higher than all.
LEMMA ListingGrows ==
    ASSUME IInv, NEW e \in Events, appends[e] = "numbered", LineAdded(e), legacy' = legacy
    PROVE  /\ Len(log') = Len(log) + 1
           /\ \A entry \in Listing' :
                entry \in Listing \/ (entry.sequence = legacy + Len(log) + 1 /\ entry.event = e)
<1>1. Len(log') = Len(log) + 1
  BY LineKeepsOrder
<1>2. log \in Seq(Entry) /\ number[e] = legacy + Len(log) + 1
  BY DEF IInv, Types, NumberIsNext
<1> DEFINE line == [sequence |-> number[e], event |-> e]
<1>3. \A k \in DOMAIN log' : (k \in DOMAIN log /\ log'[k] = log[k]) \/ log'[k] = line
  BY <1>2 DEF LineAdded
<1>4. line.sequence = legacy + Len(log) + 1 /\ line.event = e
  BY <1>2
<1> HIDE DEF line
<1> QED BY <1>1, <1>3, <1>4 DEF Listing

\* What the log may do in a step, seen from the viewer.
Grows ==
    /\ legacy' = legacy /\ Len(log') >= Len(log)
    /\ \A entry \in Listing' :
         \/ entry \in Listing
         \/ /\ entry.sequence \in Nat /\ entry.sequence > legacy + Len(log)
            /\ entry.event \in Events /\ Pending(entry.event)

LEMMA GrowsBy ==
    ASSUME IInv, legacy' = legacy,
           \/ log' = log
           \/ \E e \in Events : appends[e] = "numbered" /\ LineAdded(e)
    PROVE  Grows
<1>1. Len(log) \in Nat /\ legacy \in Nat
  BY Listed
<1>2. CASE log' = log
  BY <1>1, <1>2 DEF Grows, Listing
<1>3. ASSUME NEW e \in Events, appends[e] = "numbered", LineAdded(e) PROVE Grows
  <2>1. Pending(e)
    BY <1>3 DEF Pending, Holding
  <2>2. /\ Len(log') = Len(log) + 1
        /\ \A entry \in Listing' :
             entry \in Listing \/ (entry.sequence = legacy + Len(log) + 1 /\ entry.event = e)
    BY <1>3, ListingGrows
  <2> QED BY <1>1, <2>1, <2>2 DEF Grows
<1> QED BY <1>2, <1>3

\* The file keeps what the viewer relies on.
LEMMA FetchedStays ==
    ASSUME IInv, ViewTypes, FetchedUpTo, Grows, viewer'.since = viewer.since, viewer'.base = viewer.base,
           IInv'
    PROVE  FetchedUpTo'
<1>1. Len(log) \in Nat /\ legacy \in Nat /\ viewer.since \in Nat
  BY Listed DEF ViewTypes
<1>2. Len(log') \in Nat
  BY DEF IInv, Types
<1>3. ASSUME NEW entry \in Listing' PROVE entry \in viewer.base \/ entry.sequence > viewer.since
  BY <1>1 DEF Grows, FetchedUpTo
<1> QED BY <1>1, <1>2, <1>3 DEF Grows, FetchedUpTo

-----------------------------------------------------------------------------
(* The same invariant after each kind of step. *)

\* An append's step: the viewer and the history stay.
LEMMA AppendStepView ==
    ASSUME ViewInv, ViewTypes, IInv', NEW e \in Events, AppendStep(e)
    PROVE  ViewInv' /\ ViewTypes'
<1>1. /\ UNCHANGED <<emitted, legacy, crashes, history, viewer>>
      /\ tail' \in {"complete", "unterminated", "torn"}
      /\ \A f \in Events : Pending(f)' => Pending(f)
  <2> USE DEF ViewInv, IInv, ViewTypes
  <2>1. appends \in [Events -> Phases]
    BY DEF Types
  <2>2. CASE Acquire(e) \/ GiveUp(e) \/ ComputeSequence(e) \/ ListFails(e)
    BY <2>1, <2>2 DEF Acquire, GiveUp, ComputeSequence, ListFails, fileVars, Pending, Holding
  <2>3. CASE WriteLine(e) \/ WriteFails(e)
    <3>1. /\ UNCHANGED <<emitted, legacy, crashes, history, viewer>>
          /\ tail' \in {"complete", "unterminated", "torn"}
      BY <2>3 DEF WriteLine, WriteFails, WholeLine, PartOfLine
    <3>2. /\ appends[e] = "numbered"
          /\ \E phase \in {"written", "aborted"} : appends' = [appends EXCEPT ![e] = phase]
      BY <2>3 DEF WriteLine, WriteFails
    <3> QED BY <2>1, <3>1, <3>2 DEF Pending, Holding
  <2>4. CASE Release(e)
    <3>1. /\ UNCHANGED <<emitted, legacy, crashes, history, viewer, tail>>
          /\ \E phase \in {"logged", "failed"} : appends' = [appends EXCEPT ![e] = phase]
      BY <2>4 DEF Release
    <3> QED BY <2>1, <3>1 DEF Pending, Holding
  <2> QED BY <2>2, <2>3, <2>4 DEF AppendStep
<1>2. log' = log \/ \E f \in Events : appends[f] = "numbered" /\ LineAdded(f)
  BY WritesAtMostOneLine
  DEF AppendStep, Acquire, GiveUp, ComputeSequence, ListFails, WriteLine, WriteFails, Release, fileVars
<1>3. Grows
  BY <1>1, <1>2, GrowsBy DEF ViewInv
<1>4. ViewTypes'
  BY <1>1 DEF ViewTypes
<1>5. TypeOK'
  BY <1>4, AllTypesNext
<1>6. FetchedUpTo'
  BY <1>1, <1>3, FetchedStays DEF ViewInv
<1>7. \A f : (Remembered(f)' <=> Remembered(f)) /\ (Old(f)' <=> Old(f))
  BY <1>1 DEF Remembered, Old
<1>8. HistoryIsRecent' /\ PendingIsRemembered' /\ ReplayEnds' /\ PendingIsReceived'
  BY <1>1, <1>7 DEF ViewInv, HistoryIsRecent, PendingIsRemembered, ReplayEnds, PendingIsReceived
<1>9. ListedOrRemembered'
  BY <1>1, <1>3, <1>7 DEF ViewInv, ListedOrRemembered, PendingIsRemembered, Grows
<1>10. NoGap'
  BY <1>1, <1>3, <1>7 DEF ViewInv, NoGap, PendingIsReceived, Grows, Old
<1> QED BY <1>4, <1>5, <1>6, <1>8, <1>9, <1>10 DEF ViewInv

\* A crash closes the viewer's stream and ends the appends.
LEMMA CrashView ==
    ASSUME ViewInv, ViewTypes, IInv', Crash
    PROVE  ViewInv' /\ ViewTypes'
<1>1. /\ UNCHANGED <<emitted, legacy>> /\ crashes' \in 0 .. MaxCrashes /\ history' = <<>>
      /\ \A f \in Events : ~Pending(f)'
  BY LogAssumption DEF Crash, Pending, Holding, ViewTypes
<1>2. tail' \in {"complete", "unterminated", "torn"}
  BY DEF Crash, WholeLine, PartOfLine, ViewTypes
<1>3. log' = log \/ \E f \in Events : appends[f] = "numbered" /\ LineAdded(f)
  BY WritesAtMostOneLine DEF Crash
<1>4. Grows
  BY <1>1, <1>3, GrowsBy DEF ViewInv
<1>5. viewer' = [viewer EXCEPT !.phase = "closed", !.live = 0, !.replay = {}, !.received = {}]
  BY DEF Crash
<1>6. /\ viewer'.phase = "closed" /\ viewer'.replay = {}
      /\ viewer'.since = viewer.since /\ viewer'.base = viewer.base
      /\ viewer' \in [phase : {"closed", "requested", "listed", "open"}, since : Nat, live : Nat,
                      replay : SUBSET Entry, base : SUBSET Entry, streamed : SUBSET Entry,
                      received : SUBSET Events, fetches : Nat]
  BY <1>5 DEF ViewTypes
<1>7. ViewTypes'
  BY <1>1, <1>2, <1>6, LogAssumption DEF ViewTypes
<1>8. TypeOK'
  BY <1>7, AllTypesNext
<1>9. FetchedUpTo'
  BY <1>4, <1>6, FetchedStays DEF ViewInv
<1>10. HistoryIsRecent'
  BY <1>1 DEF HistoryIsRecent, ViewInv, TypeOK
<1>11. PendingIsRemembered' /\ ReplayEnds' /\ ListedOrRemembered' /\ PendingIsReceived' /\ NoGap'
  BY <1>1, <1>6 DEF PendingIsRemembered, ReplayEnds, ListedOrRemembered, PendingIsReceived, NoGap
<1> QED BY <1>7, <1>8, <1>9, <1>10, <1>11 DEF ViewInv

LEMMA Appended ==
    ASSUME NEW S, NEW s \in Seq(S), NEW x \in S
    PROVE  /\ Append(s, x) \in Seq(S) /\ Len(Append(s, x)) = Len(s) + 1
           /\ \A k \in 1 .. Len(s) : Append(s, x)[k] = s[k]
           /\ Append(s, x)[Len(s) + 1] = x
OBVIOUS

\* The history takes the new event, and forgets at most the one that becomes too old.
LEMMA RememberMore ==
    ASSUME HistoryIsRecent, history \in Seq(Events), Len(history) <= MaxHistory,
           emitted \in Nat, emitted + 1 \in Events, emitted' = emitted + 1,
           history' = Remember(history, emitted + 1)
    PROVE  /\ history' \in Seq(Events) /\ Len(history') <= MaxHistory /\ HistoryIsRecent'
           /\ \E k \in DOMAIN history' : history'[k] = emitted + 1
           /\ \A e \in Events : Remembered(e) => Remembered(e)' \/ Old(e)'
<1>0. MaxHistory \in Nat \ {0} /\ \A e \in Events : e \in Nat
  BY LogAssumption DEF Events
<1>1. CASE Len(history) < MaxHistory
  <2>1. history' = Append(history, emitted + 1)
    BY <1>1 DEF Remember
  <2>2. /\ history' \in Seq(Events) /\ Len(history') = Len(history) + 1
        /\ \A k \in DOMAIN history : k \in DOMAIN history' /\ history'[k] = history[k]
        /\ \A k \in DOMAIN history' : k \in DOMAIN history \/ k = Len(history) + 1
        /\ Len(history) + 1 \in DOMAIN history' /\ history'[Len(history) + 1] = emitted + 1
    BY <2>1
  <2>3. HistoryIsRecent'
    BY <2>2 DEF HistoryIsRecent
  <2> QED BY <1>0, <1>1, <2>2, <2>3 DEF Remembered
<1>2. CASE ~(Len(history) < MaxHistory)
  <2>0. Len(history) = MaxHistory /\ history # <<>>
    BY <1>0, <1>2
  <2>1. history' = Append(Tail(history), emitted + 1)
    BY <1>2 DEF Remember
  <2>2. /\ Tail(history) \in Seq(Events) /\ Len(Tail(history)) = MaxHistory - 1
        /\ \A k \in 1 .. MaxHistory - 1 : Tail(history)[k] = history[k + 1]
    BY <1>0, <2>0
  <2>3. /\ history' \in Seq(Events) /\ Len(history') = MaxHistory
        /\ \A k \in 1 .. MaxHistory - 1 : history'[k] = history[k + 1]
        /\ history'[MaxHistory] = emitted + 1
    <3>1. PICK rest \in Seq(Events), e \in Events :
            /\ Len(rest) = MaxHistory - 1 /\ history' = Append(rest, e) /\ e = emitted + 1
            /\ \A k \in 1 .. MaxHistory - 1 : rest[k] = history[k + 1]
      BY <2>1, <2>2
    <3>2. /\ history' \in Seq(Events) /\ Len(history') = Len(rest) + 1
          /\ \A k \in 1 .. Len(rest) : history'[k] = rest[k]
          /\ history'[Len(rest) + 1] = e
      <4>1. /\ Append(rest, e) \in Seq(Events) /\ Len(Append(rest, e)) = Len(rest) + 1
            /\ \A k \in 1 .. Len(rest) : Append(rest, e)[k] = rest[k]
            /\ Append(rest, e)[Len(rest) + 1] = e
        BY Appended
      <4> QED BY <3>1, <4>1
    <3> QED BY <1>0, <3>1, <3>2
  <2>4. HistoryIsRecent'
    <3>1. /\ DOMAIN history = 1 .. MaxHistory /\ DOMAIN history' = 1 .. MaxHistory
          /\ MaxHistory <= emitted
      BY <2>0, <2>3 DEF HistoryIsRecent
    <3>2. ASSUME NEW k \in 1 .. MaxHistory PROVE history'[k] = emitted + 1 - MaxHistory + k
      <4>1. CASE k = MaxHistory
        BY <1>0, <2>3, <4>1
      <4>2. CASE k # MaxHistory
        <5>1. history'[k] = history[k + 1] /\ k + 1 \in 1 .. MaxHistory
          BY <1>0, <2>3, <4>2
        <5>2. history[k + 1] = emitted - MaxHistory + (k + 1)
          BY <2>0, <3>1, <5>1 DEF HistoryIsRecent
        <5> QED BY <1>0, <5>1, <5>2
      <4> QED BY <4>1, <4>2
    <3>3. Len(history') = MaxHistory /\ emitted' = emitted + 1
      BY <2>3
    <3>4. MaxHistory <= emitted + 1
      BY <1>0, <3>1
    <3> QED BY <3>1, <3>2, <3>3, <3>4 DEF HistoryIsRecent
  <2>5. MaxHistory \in DOMAIN history'
    BY <1>0, <2>3
  <2>6. ASSUME NEW e \in Events, Remembered(e) PROVE Remembered(e)' \/ Old(e)'
    <3>1. PICK k \in DOMAIN history : history[k] = e
      BY <2>6 DEF Remembered
    <3>2. k \in 1 .. MaxHistory
      BY <2>0
    <3>3. CASE k = 1
      <4>1. e = emitted - MaxHistory + 1
        BY <2>0, <3>1, <3>3 DEF HistoryIsRecent
      <4> QED BY <1>0, <4>1 DEF Old
    <3>4. CASE k # 1
      <4>1. k - 1 \in DOMAIN history' /\ history'[k - 1] = history[k]
        BY <1>0, <2>3, <3>2, <3>4
      <4> QED BY <3>1, <4>1 DEF Remembered
    <3> QED BY <3>3, <3>4
  <2> QED BY <1>0, <2>3, <2>4, <2>5, <2>6
<1> QED BY <1>1, <1>2

\* A handler call keeps the fetched part and adds to what was received.
LEMMA DeliverTypes ==
    ASSUME NEW view \in [phase : {"closed", "requested", "listed", "open"}, since : Nat, live : Nat,
                         replay : SUBSET Entry, base : SUBSET Entry, streamed : SUBSET Entry,
                         received : SUBSET Events, fetches : Nat],
           NEW events \in Seq(Events)
    PROVE  /\ Deliver(view, events) \in
                 [phase : {"closed", "requested", "listed", "open"}, since : Nat, live : Nat,
                  replay : SUBSET Entry, base : SUBSET Entry, streamed : SUBSET Entry,
                  received : SUBSET Events, fetches : Nat]
           /\ Deliver(view, events).phase = view.phase /\ Deliver(view, events).since = view.since
           /\ Deliver(view, events).base = view.base /\ Deliver(view, events).replay = view.replay
           /\ Deliver(view, events).received = view.received \cup {events[k] : k \in DOMAIN events}
<1>1. view.live + Len(events) \in Nat
  OBVIOUS
<1>2. Merge(view.streamed, Numbered(view.live, events)) \in SUBSET Entry
  <2>1. \A k \in DOMAIN events : [sequence |-> view.live + k, event |-> events[k]] \in Entry
    <3>1. \A k \in DOMAIN events : view.live + k \in Nat /\ events[k] \in Events
      OBVIOUS
    <3> QED BY <3>1 DEF Entry
  <2> QED BY <2>1 DEF Merge, Numbered
<1>3. view.received \cup {events[k] : k \in DOMAIN events} \in SUBSET Events
  OBVIOUS
<1> QED BY <1>1, <1>2, <1>3 DEF Deliver

LEMMA EmitView ==
    ASSUME ViewInv, ViewTypes, IInv', Emit
    PROVE  ViewInv' /\ ViewTypes'
<1>1. /\ emitted \in Nat /\ emitted + 1 \in Events /\ emitted' = emitted + 1
      /\ appends' = [appends EXCEPT ![emitted + 1] = "waiting"]
      /\ history' = Remember(history, emitted + 1)
      /\ UNCHANGED <<number, fileVars, crashes>>
  BY LogAssumption DEF Emit, Events, ViewInv, TypeOK
<1>2. /\ history' \in Seq(Events) /\ Len(history') <= MaxHistory /\ HistoryIsRecent'
      /\ \E k \in DOMAIN history' : history'[k] = emitted + 1
      /\ \A e \in Events : Remembered(e) => Remembered(e)' \/ Old(e)'
  BY <1>1, RememberMore DEF ViewInv, ViewTypes
<1>3. \A e \in Events : Old(e) => Old(e)'
  BY <1>1, LogAssumption DEF Old, Events
<1>4. \A e \in Events : Pending(e)' => Pending(e) \/ e = emitted + 1
  BY <1>1 DEF Pending, ViewInv, TypeOK
<1>5. Listing' = Listing /\ legacy' = legacy /\ log' = log
  BY <1>1 DEF Listing, fileVars
<1>6. <<emitted + 1>> \in Seq(Events) /\ {<<emitted + 1>>[k] : k \in DOMAIN <<emitted + 1>>} = {emitted + 1}
  BY <1>1
<1>7. /\ viewer' \in [phase : {"closed", "requested", "listed", "open"}, since : Nat, live : Nat,
                      replay : SUBSET Entry, base : SUBSET Entry, streamed : SUBSET Entry,
                      received : SUBSET Events, fetches : Nat]
      /\ viewer'.phase = viewer.phase /\ viewer'.since = viewer.since
      /\ viewer'.base = viewer.base /\ viewer'.replay = viewer.replay
      /\ viewer.received \subseteq viewer'.received
      /\ viewer.phase = "open" => emitted + 1 \in viewer'.received
  <2>1. CASE viewer.phase = "open"
    <3>1. PICK events \in Seq(Events) : events = <<emitted + 1>>
      BY <1>6
    <3>2. viewer' = Deliver(viewer, events)
      BY <2>1, <3>1 DEF Emit
    <3>3. {events[k] : k \in DOMAIN events} = {emitted + 1}
      BY <1>6, <3>1
    <3>4. PICK view \in [phase : {"closed", "requested", "listed", "open"}, since : Nat, live : Nat,
                         replay : SUBSET Entry, base : SUBSET Entry, streamed : SUBSET Entry,
                         received : SUBSET Events, fetches : Nat] : view = viewer
      BY DEF ViewTypes
    <3>5. /\ viewer'.received = viewer.received \cup {emitted + 1}
          /\ viewer'.phase = viewer.phase /\ viewer'.since = viewer.since
          /\ viewer'.base = viewer.base /\ viewer'.replay = viewer.replay
      BY <3>2, <3>3, <3>4, DeliverTypes
    <3>6. viewer' \in [phase : {"closed", "requested", "listed", "open"}, since : Nat, live : Nat,
                      replay : SUBSET Entry, base : SUBSET Entry, streamed : SUBSET Entry,
                      received : SUBSET Events, fetches : Nat]
      BY <3>2, <3>4, DeliverTypes
    <3> QED BY <3>5, <3>6
  <2>2. CASE viewer.phase # "open"
    BY <2>2 DEF Emit, ViewTypes
  <2> QED BY <2>1, <2>2
<1>8. ViewTypes'
  BY <1>1, <1>2, <1>7 DEF ViewTypes, fileVars
<1>9. TypeOK'
  BY <1>8, AllTypesNext
<1>10. PendingIsRemembered'
  <2>1. \A e : e = emitted + 1 => Remembered(e)'
    BY <1>2 DEF Remembered
  <2> QED BY <1>2, <1>3, <1>4, <2>1 DEF ViewInv, PendingIsRemembered
<1>11. FetchedUpTo' /\ ReplayEnds'
  BY <1>5, <1>7 DEF ViewInv, FetchedUpTo, ReplayEnds
<1>12. \A entry \in Listing : entry.event \in Events
  BY Listed DEF ViewInv
<1>13. ListedOrRemembered'
  BY <1>2, <1>3, <1>5, <1>7, <1>12 DEF ViewInv, ListedOrRemembered
<1>14. PendingIsReceived'
  BY <1>3, <1>4, <1>7 DEF ViewInv, PendingIsReceived
<1>15. NoGap'
  BY <1>3, <1>5, <1>7, <1>12 DEF ViewInv, NoGap, Old
<1> QED BY <1>2, <1>8, <1>9, <1>10, <1>11, <1>13, <1>14, <1>15 DEF ViewInv

\* The highest number sent, or the one the stream starts from.
LEMMA HighestIsNat ==
    ASSUME ReplayEnds, ViewTypes PROVE Highest(viewer.since, viewer.replay) \in Nat
<1> DEFINE inUse == {viewer.since} \cup {entry.sequence : entry \in viewer.replay}
<1>1. viewer.since \in Nat /\ \A entry \in viewer.replay : entry.sequence \in Nat
  <2>1. viewer.since \in Nat /\ viewer.replay \subseteq Entry
    BY DEF ViewTypes
  <2> QED BY <2>1 DEF Entry
<1>2. inUse \subseteq Nat
  BY <1>1
<1>3. \E m \in inUse : m >= viewer.since /\ \A entry \in viewer.replay : entry.sequence <= m
  <2>1. CASE viewer.replay = {}
    BY <1>1, <2>1
  <2>2. CASE viewer.replay # {}
    <3>1. PICK last \in viewer.replay :
            /\ last.sequence > viewer.since
            /\ \A entry \in viewer.replay : entry.sequence <= last.sequence
      BY <2>2 DEF ReplayEnds
    <3>2. last.sequence \in inUse /\ last.sequence >= viewer.since
      BY <1>1, <3>1
    <3> QED BY <3>1, <3>2
  <2> QED BY <2>1, <2>2
<1>4. Highest(viewer.since, viewer.replay)
        = CHOOSE m \in inUse : m >= viewer.since /\ \A entry \in viewer.replay : entry.sequence <= m
  BY DEF Highest
<1> HIDE DEF inUse
<1>5. Highest(viewer.since, viewer.replay) \in inUse
  BY <1>3, <1>4
<1> QED BY <1>2, <1>5

\* The steps of the viewer: the files, the appends and the history stay.
LEMMA ViewerStepView ==
    ASSUME ViewInv, ViewTypes, IInv', Fetch \/ Reconnect \/ ListAfter \/ Subscribe
    PROVE  ViewInv' /\ ViewTypes'
<1> DEFINE View == [phase : {"closed", "requested", "listed", "open"}, since : Nat, live : Nat,
                    replay : SUBSET Entry, base : SUBSET Entry, streamed : SUBSET Entry,
                    received : SUBSET Events, fetches : Nat]
<1>1. UNCHANGED <<emitted, appends, number, fileVars, crashes, history>>
  BY DEF Fetch, Reconnect, ListAfter, Subscribe
<1>2. /\ Listing' = Listing /\ legacy' = legacy /\ log' = log /\ emitted' = emitted
      /\ \A e : /\ Remembered(e)' <=> Remembered(e)
                /\ Old(e)' <=> Old(e)
                /\ Pending(e)' <=> Pending(e)
  BY <1>1 DEF Listing, fileVars, Remembered, Old, Pending
<1>3. HistoryIsRecent' /\ PendingIsRemembered'
  BY <1>1, <1>2 DEF ViewInv, HistoryIsRecent, PendingIsRemembered
<1>4. viewer \in View /\ viewer.since \in Nat /\ viewer.replay \in SUBSET Entry
  BY DEF ViewTypes
<1>5. /\ Listing \subseteq Entry /\ MaxSequence = legacy + Len(log)
      /\ Len(log) \in Nat /\ legacy \in Nat
      /\ \A entry \in Listing : /\ entry.sequence \in Nat /\ entry.event \in Events
                                /\ entry.sequence <= legacy + Len(log)
  BY Listed DEF ViewInv
<1>6. SUFFICES /\ viewer' \in View /\ FetchedUpTo' /\ ReplayEnds' /\ ListedOrRemembered'
               /\ PendingIsReceived' /\ NoGap'
  <2>1. viewer' \in View => ViewTypes'
    BY <1>1 DEF ViewTypes, fileVars
  <2>2. ViewTypes' => TypeOK'
    BY AllTypesNext
  <2> QED BY <1>3, <2>1, <2>2 DEF ViewInv
<1>7. CASE Fetch
  <2>1. /\ viewer' \in View
        /\ viewer'.phase = "requested" /\ viewer'.base = Listing /\ viewer'.since = MaxSequence
        /\ viewer'.replay = {}
    <3>1. MaxSequence \in Nat /\ viewer.fetches + 1 \in Nat
      BY <1>4, <1>5
    <3>2. viewer' = [viewer EXCEPT !.phase = "requested", !.base = Listing, !.live = 0,
                                   !.since = MaxSequence, !.replay = {}, !.received = {},
                                   !.fetches = viewer.fetches + 1]
      BY <1>4, <1>7 DEF Fetch
    <3> QED BY <1>4, <1>5, <3>1, <3>2
  <2> QED BY <1>2, <1>5, <2>1
      DEF FetchedUpTo, ReplayEnds, ListedOrRemembered, PendingIsReceived, NoGap
<1>8. CASE Reconnect
  <2>1. viewer' = [viewer EXCEPT !.phase = "requested"]
    BY <1>8 DEF Reconnect
  <2>2. /\ viewer' \in View /\ viewer'.phase = "requested" /\ viewer'.base = viewer.base
        /\ viewer'.since = viewer.since /\ viewer'.replay = viewer.replay
    BY <1>4, <2>1
  <2> QED BY <1>2, <2>2
      DEF ViewInv, FetchedUpTo, ReplayEnds, ListedOrRemembered, PendingIsReceived, NoGap
<1>9. CASE ListAfter
  <2> DEFINE replay == {entry \in Listing : entry.sequence > viewer.since}
  <2>1. /\ viewer' \in View /\ viewer'.phase = "listed" /\ viewer'.base = viewer.base
        /\ viewer'.since = viewer.since /\ viewer'.replay = replay
    BY <1>4, <1>5, <1>9 DEF ListAfter
  <2>2. ReplayEnds'
    <3> SUFFICES ASSUME NEW entry \in replay
                 PROVE  \E last \in replay : /\ last.sequence > viewer.since
                                             /\ \A other \in replay : other.sequence <= last.sequence
      BY <2>1 DEF ReplayEnds
    <3>1. entry.sequence > viewer.since /\ entry.sequence <= legacy + Len(log) /\ entry.sequence \in Nat
      BY <1>5
    <3>2. PICK k \in DOMAIN log : entry = log[k]
      BY DEF Listing
    <3>3. /\ DOMAIN log = 1 .. Len(log)
          /\ \A j \in DOMAIN log : log[j].sequence = legacy + j
      BY LinesAreEntries DEF ViewInv, IInv, NumbersAreConsecutive
    <3>4. PICK j \in DOMAIN log : j = Len(log)
      BY <1>5, <3>2, <3>3
    <3>5. log[j] \in Listing /\ log[j].sequence = legacy + Len(log)
      BY <3>3, <3>4 DEF Listing
    <3>6. log[j] \in replay
      BY <1>4, <1>5, <3>1, <3>5
    <3> QED BY <1>5, <3>5, <3>6
  <2>3. FetchedUpTo'
    BY <1>2, <2>1 DEF ViewInv, FetchedUpTo
  <2>4. ListedOrRemembered'
    BY <1>2, <2>1 DEF ViewInv, FetchedUpTo, ListedOrRemembered
  <2> QED BY <2>1, <2>2, <2>3, <2>4 DEF PendingIsReceived, NoGap
<1>10. CASE Subscribe
  <2> DEFINE highest == Highest(viewer.since, viewer.replay)
             merged  == Merge(viewer.streamed, viewer.replay)
             got     == {entry.event : entry \in viewer.replay}
             sent    == [viewer EXCEPT !.phase = "open", !.live = highest, !.streamed = merged,
                                       !.received = got, !.replay = {}]
  <2>1. highest \in Nat
    BY HighestIsNat DEF ViewInv
  <2>2. merged \in SUBSET Entry /\ got \in SUBSET Events
    BY <1>4 DEF Merge, Entry
  <2>3. viewer.phase = "listed" /\ viewer' = Deliver(sent, history)
    BY <1>4, <1>10 DEF Subscribe, Replay
  <2> HIDE DEF highest, merged, got
  <2>4. /\ sent \in View /\ sent.phase = "open" /\ sent.received = got /\ sent.replay = {}
        /\ sent.since = viewer.since /\ sent.base = viewer.base
    BY <1>4, <2>1, <2>2
  <2> HIDE DEF sent
  <2>5. history \in Seq(Events)
    BY DEF ViewTypes
  <2>6. /\ viewer' \in View /\ viewer'.phase = "open" /\ viewer'.base = viewer.base
        /\ viewer'.since = viewer.since /\ viewer'.replay = {}
        /\ viewer'.received = got \cup {history[k] : k \in DOMAIN history}
    BY <2>3, <2>4, <2>5, DeliverTypes
  <2>7. \A e : Remembered(e) => e \in viewer'.received
    BY <2>6 DEF Remembered
  <2>8. FetchedUpTo' /\ ReplayEnds' /\ ListedOrRemembered'
    BY <1>2, <2>6 DEF ViewInv, FetchedUpTo, ReplayEnds, ListedOrRemembered
  <2>9. PendingIsReceived'
    BY <1>2, <2>7 DEF ViewInv, PendingIsRemembered, PendingIsReceived
  <2>10. NoGap'
    <3>1. \A entry \in viewer.replay : entry.event \in got
      BY DEF got
    <3> QED BY <1>2, <2>3, <2>6, <2>7, <3>1 DEF ViewInv, ListedOrRemembered, NoGap, Old
  <2> QED BY <2>6, <2>8, <2>9, <2>10
<1> QED BY <1>7, <1>8, <1>9, <1>10

LEMMA ViewInitially == ASSUME Init PROVE ViewInv /\ ViewTypes
<1>1. IInv
  BY InitInv
<1>2. /\ emitted = 0 /\ crashes = 0 /\ legacy \in 0 .. MaxLegacy /\ log = <<>>
      /\ tail = "complete" /\ history = <<>>
      /\ \A e \in Events : appends[e] = "none"
      /\ viewer = [phase |-> "closed", since |-> 0, live |-> 0, replay |-> {}, base |-> {},
                   streamed |-> {}, received |-> {}, fetches |-> 0]
  BY DEF Init
<1>3. ViewTypes
  BY <1>2, LogAssumption DEF ViewTypes
<1>4. TypeOK
  BY <1>1, <1>3, AllTypes
<1>5. Listing = {} /\ Len(log) = 0 /\ legacy \in Nat
  BY <1>2, LogAssumption DEF Listing
<1> QED BY <1>1, <1>2, <1>3, <1>4, <1>5
    DEF ViewInv, HistoryIsRecent, PendingIsRemembered, Pending, Holding, FetchedUpTo, ReplayEnds,
        ListedOrRemembered, PendingIsReceived, NoGap

LEMMA ViewStep == ASSUME ViewInv, ViewTypes, [Next]_vars PROVE ViewInv' /\ ViewTypes'
<1>0. IInv'
  BY InvStep DEF ViewInv
<1>1. CASE UNCHANGED vars
  BY <1>0, <1>1
  DEF vars, fileVars, ViewInv, ViewTypes, TypeOK, HistoryIsRecent, PendingIsRemembered, Pending,
      Remembered, Old, FetchedUpTo, Listing, ReplayEnds, ListedOrRemembered, PendingIsReceived, NoGap
<1> QED BY <1>0, <1>1, EmitView, CrashView, AppendStepView, ViewerStepView DEF Next

LEMMA ViewInductive == Spec => [](ViewInv /\ ViewTypes)
<1>1. Init => ViewInv /\ ViewTypes
  BY ViewInitially
<1>2. ViewInv /\ ViewTypes /\ [Next]_vars => (ViewInv /\ ViewTypes)'
  BY ViewStep
<1> QED BY <1>1, <1>2, PTL DEF Spec

\* Every variable keeps its type, the timeline of a viewer among them.
THEOREM TypeCorrect == Spec => []TypeOK
BY ViewInductive, PTL DEF ViewInv

\* The hand-over from the log to the live stream loses nothing that the history still holds
\* (listEventsAfter, subscribe).
THEOREM HandOverHasNoGap == Spec => []NoGap
BY ViewInductive, PTL DEF ViewInv

=============================================================================
