------------------------- MODULE ExecutionTasksProofs -------------------------
(***************************************************************************)
(* Proofs about the commands the server runs, for every set of tasks and   *)
(* of commands, every chain of retries and approvals, every interleaving   *)
(* of callbacks, kills and aborts, and every number of restarts.           *)
(***************************************************************************)
EXTENDS ExecutionTasks, SequenceTheorems, TLAPS

Texts == {NoCommand} \cup Commands \cup {Normalized(c) : c \in Commands}
TaskType == [cmd : Texts, catalogue : BOOLEAN, approved : BOOLEAN, owner : {"tool", "route"},
             root : Tasks \cup {"none"}]
OwnType == [pc : OwnPc, snap : Status, cancel : BOOLEAN, timedOut : BOOLEAN, aborted : BOOLEAN,
            grace : BOOLEAN, queue : 0..1, seen : BOOLEAN, err : BOOLEAN]
ChildType == {"none", "alive", "unspawned", "errored", "ok", "bad"}
KillType == {"idle", "mark", "signal", "store"}

-----------------------------------------------------------------------------
(* The permission engine *)

\* What is allowed is not refused for every agent, and was approved if that is wanted, whatever the
\* lists of the policy and the text of the package script.
LEMMA AllowedIsApproved ==
    ASSUME NEW allowed, NEW c, NEW approved \in BOOLEAN, NEW dangerous \in BOOLEAN,
           c.form \in {"shell", "direct"}, c.segments \in Seq(Segment),
           c.form = "direct" => Len(c.segments) \in {0, 1},
           Evaluate(allowed, c, approved, dangerous) = "allow"
    PROVE  /\ Len(c.segments) = 1
           /\ ~DeniedOrDangerous(c.segments[1])
           /\ WantsApproval(c) => approved
  <1> DEFINE s == c.segments[1]
             profile == IF c.form = "shell" THEN ShellProfile(c.agent, c.segments, approved)
                        ELSE DirectProfile(c.agent, s, approved)
  <1>1. ~StaticDenial(allowed, c)
    BY DEF Evaluate
  <1>2. profile = "allow"
    BY <1>1 DEF Evaluate
  <1>3. c.form = "shell" => ~NotSimple(allowed, c)
    BY <1>1, <1>2 DEF Evaluate
  <1>4. NeedsApproval(s) => approved
    BY <1>1, <1>2, <1>3 DEF Evaluate
  <1>5. Len(c.segments) \in Nat /\ Len(c.segments) # 0
    BY <1>1, EmptySeq DEF StaticDenial
  <1>6. Len(c.segments) = 1
    <2>1. CASE c.form = "shell"
      BY <1>3, <2>1 DEF NotSimple
    <2>2. CASE c.form = "direct"
      BY <1>5, <2>2
    <2> QED
      BY <2>1, <2>2
  <1>7. ~DeniedOrDangerous(s)
    BY <1>1, <1>6 DEF StaticDenial
  <1>8. Profiled(c.agent) /\ Profile[c.agent].asks => approved
    <2>1. CASE c.form = "shell"
      <3> DEFINE Stops == {i \in 1..Len(c.segments) : SegmentProfile(c.agent, c.segments[i], approved) # "allow"}
                 first == CHOOSE i \in Stops : \A j \in Stops : i <= j
      <3>1. Stops # {} => first \in Stops
        <4> SUFFICES ASSUME Stops # {} PROVE first \in Stops
          OBVIOUS
        <4>1. Stops = {1}
          BY <1>6
        <4>2. \E i \in Stops : \A j \in Stops : i <= j
          BY <4>1
        <4> HIDE DEF Stops
        <4> QED
          BY <4>2
      <3>2. Stops # {} => SegmentProfile(c.agent, c.segments[first], approved) # "allow"
        BY <3>1
      <3>3. ShellProfile(c.agent, c.segments, approved) =
              IF ~Profiled(c.agent) THEN "allow"
              ELSE IF ~Profile[c.agent].shell THEN "deny"
              ELSE IF Stops # {} THEN SegmentProfile(c.agent, c.segments[first], approved)
              ELSE IF Profile[c.agent].asks /\ ~approved THEN "ask" ELSE "allow"
        BY DEF ShellProfile
      <3> HIDE DEF Stops, first
      <3> QED
        BY <1>2, <2>1, <3>2, <3>3
    <2>2. CASE c.form = "direct"
      BY <1>2, <2>2 DEF DirectProfile
    <2> QED
      BY <2>1, <2>2
  <1> QED
    BY <1>4, <1>6, <1>7, <1>8 DEF WantsApproval

LEMMA TextFacts ==
    ASSUME NEW c \in Texts
    PROVE  /\ c.form \in {"shell", "direct"} /\ c.segments \in Seq(Segment)
           /\ Normalized(c) \in Texts
           /\ Normalized(c).segments = c.segments /\ Normalized(c).agent = c.agent
           /\ Normalized(c).form = "direct"
  <1>0. NoCommand.segments = <<>> /\ NoCommand.form = "direct" /\ <<>> \in Seq(Segment)
    BY DEF NoCommand
  <1>1. \A d \in Commands : d \in Command
    BY TasksAssumption
  <1>2. ASSUME NEW d \in Command
        PROVE  /\ d.form \in {"shell", "direct"} /\ d.segments \in Seq(Segment)
               /\ Normalized(d).segments = d.segments /\ Normalized(d).agent = d.agent
               /\ Normalized(d).form = "direct" /\ Normalized(d) \in Command
               /\ Normalized(Normalized(d)) = Normalized(d)
    BY DEF Command, Normalized
  <1>3. Normalized(NoCommand) = NoCommand
    BY DEF Normalized, NoCommand
  <1>4. CASE c = NoCommand
    BY <1>0, <1>3, <1>4 DEF Texts
  <1>5. CASE c \in Commands
    BY <1>1, <1>2, <1>5 DEF Texts
  <1>6. ASSUME NEW d \in Commands, c = Normalized(d)
        PROVE  /\ c.form \in {"shell", "direct"} /\ c.segments \in Seq(Segment)
               /\ Normalized(c) \in Texts
               /\ Normalized(c).segments = c.segments /\ Normalized(c).agent = c.agent
               /\ Normalized(c).form = "direct"
    BY <1>1, <1>2, <1>6 DEF Texts
  <1> QED
    BY <1>4, <1>5, <1>6 DEF Texts

Unrefused(c) == \A i \in 1..Len(c.segments) : ~DeniedOrDangerous(c.segments[i])

LEMMA SameWants ==
    ASSUME NEW c \in Texts
    PROVE  /\ WantsApproval(Normalized(c)) <=> WantsApproval(c)
           /\ Unrefused(Normalized(c)) <=> Unrefused(c)
  BY TextFacts DEF WantsApproval, Unrefused

-----------------------------------------------------------------------------
(* The inductive invariant *)

\* What has been approved is granted, and what runs was judged.
Judged(t) ==
    /\ task[t].approved => task[t].root \in granted
    /\ task[t].cmd.form = "direct" => Len(task[t].cmd.segments) \in {0, 1}
    /\ child[t] # "none" =>
         /\ Len(task[t].cmd.segments) = 1 /\ Unrefused(task[t].cmd)
         /\ WantsApproval(task[t].cmd) => task[t].root \in granted

\* How far the owner is tells what the child does; no child runs on under an outcome.
Placed(t) ==
    /\ own[t].pc = "policy" => child[t] = "none"
    /\ own[t].pc \in {"initial", "watch"} => child[t] # "none"
    /\ own[t].pc \in {"drain", "read", "mark", "write"} => child[t] \in {"ok", "bad"}
    /\ own[t].err => child[t] = "bad"
    /\ child[t] = "alive" => disk[t] \notin {"completed", "failed"}
    /\ disk[t] \in {"completed", "failed"} => own[t].pc # "policy" /\ Len(task[t].cmd.segments) = 1

\* A signalled task has its marker, and no handler has decided otherwise.
Marked(t) ==
    /\ kill[t] \in {"signal", "store"} => marker[t]
    /\ t \in hit =>
         /\ marker[t] /\ child[t] \in {"alive", "ok", "bad"} /\ ~own[t].err
         /\ own[t].pc = "write" => own[t].snap \notin {"completed", "failed"}
         /\ disk[t] \notin {"completed", "failed"}

\* A task that was never begun has left nothing behind.
Rooted(t) == task[t].root \in Tasks \/ (own[t] = Off /\ disk[t] = "none" /\ kill[t] = "idle")

Good(t) == Judged(t) /\ Placed(t) /\ Marked(t) /\ Rooted(t)

Inv == \A t \in Tasks : Good(t)

\* A step on one task leaves the others alone.
OnlyOn(t) ==
    /\ \A q \in Tasks : q # t =>
         /\ task'[q] = task[q] /\ own'[q] = own[q] /\ disk'[q] = disk[q]
         /\ marker'[q] = marker[q] /\ child'[q] = child[q] /\ kill'[q] = kill[q]
         /\ q \in hit' => q \in hit
    /\ granted \subseteq granted'

LEMMA GoodOthers ==
    ASSUME Inv, NEW t \in Tasks, OnlyOn(t), Good(t)'
    PROVE  Inv'
  <1> SUFFICES ASSUME NEW q \in Tasks, q # t PROVE Good(q)'
    BY DEF Inv
  <1>1. Good(q)
    BY DEF Inv
  <1>2. /\ task'[q] = task[q] /\ own'[q] = own[q] /\ disk'[q] = disk[q]
        /\ marker'[q] = marker[q] /\ child'[q] = child[q] /\ kill'[q] = kill[q]
        /\ q \in hit' => q \in hit
        /\ granted \subseteq granted'
    BY DEF OnlyOn
  <1>3. Judged(q)'
    BY <1>1, <1>2 DEF Good, Judged
  <1>4. Placed(q)'
    BY <1>1, <1>2 DEF Good, Placed
  <1>5. Marked(q)'
    BY <1>1, <1>2 DEF Good, Marked
  <1>6. Rooted(q)'
    BY <1>1, <1>2 DEF Good, Rooted
  <1> QED
    BY <1>3, <1>4, <1>5, <1>6 DEF Good

LEMMA Typing == TypeOK =>
    /\ task \in [Tasks -> TaskType] /\ own \in [Tasks -> OwnType] /\ disk \in [Tasks -> Status]
    /\ marker \in [Tasks -> BOOLEAN] /\ child \in [Tasks -> ChildType] /\ kill \in [Tasks -> KillType]
    /\ granted \subseteq Tasks /\ hit \subseteq Tasks /\ troubles \in 0..MaxTroubles
  BY DEF TypeOK, TaskType, Texts, OwnType, ChildType, KillType

LEMMA TypingBack ==
    ASSUME task' \in [Tasks -> TaskType], own' \in [Tasks -> OwnType], disk' \in [Tasks -> Status],
           marker' \in [Tasks -> BOOLEAN], child' \in [Tasks -> ChildType], kill' \in [Tasks -> KillType],
           granted' \subseteq Tasks, hit' \subseteq Tasks, troubles' \in 0..MaxTroubles
    PROVE  TypeOK'
  BY DEF TypeOK, TaskType, Texts, OwnType, ChildType, KillType

LEMMA Troubled == TypeOK /\ Trouble => troubles' \in 0..MaxTroubles
  BY TasksAssumption DEF TypeOK, Trouble

LEMMA OffFacts ==
    /\ Off \in OwnType /\ Off.pc = "off" /\ Off.err = FALSE /\ Off.snap = "none"
    /\ Unused.cmd = NoCommand /\ Unused.approved = FALSE /\ Unused \in TaskType
    /\ NoCommand.segments = <<>> /\ NoCommand.form = "direct"
  BY DEF Off, OwnType, OwnPc, Status, Ended, Unused, TaskType, NoCommand, Texts

LEMMA SignalledFacts ==
    ASSUME TypeOK, NEW t \in Tasks
    PROVE  /\ Signalled(t) \subseteq Tasks /\ hit \subseteq Signalled(t)
           /\ t \in Signalled(t) => t \in hit \/ child[t] = "alive"
           /\ \A q \in Tasks : q # t /\ q \in Signalled(t) => q \in hit
  BY Typing DEF Signalled

\* The owner of t holds o.
Holds(t, o) ==
    /\ own' \in [Tasks -> OwnType] /\ own'[t] = o
    /\ \A q \in Tasks : q # t => own'[q] = own[q]

LEMMA PutOwn ==
    ASSUME own \in [Tasks -> OwnType], NEW t \in Tasks, NEW o \in OwnType, own' = [own EXCEPT ![t] = o]
    PROVE  Holds(t, o)
  BY DEF Holds

LEMMA PutOwnAt ==
    ASSUME own \in [Tasks -> OwnType], NEW t \in Tasks, own'[t] \in OwnType,
           own' = [q \in Tasks |-> own'[q]], \A q \in Tasks : q # t => own'[q] = own[q]
    PROVE  Holds(t, own'[t])
  BY DEF Holds

\* A task somebody owns has its root.
LEMMA RootedAt ==
    ASSUME NEW t \in Tasks, Rooted(t), own[t].pc # "off" \/ kill[t] # "idle" \/ disk[t] # "none"
    PROVE  task[t].root \in Tasks
  BY OffFacts DEF Rooted

-----------------------------------------------------------------------------
(* start, approve and retry *)

\* Only a task nobody runs is begun.
LEMMA FreshTask ==
    ASSUME Inv, NEW t \in Tasks, Fresh(t)
    PROVE  child[t] = "none" /\ disk[t] \notin {"completed", "failed"} /\ t \notin hit
  <1>1. Len(task[t].cmd.segments) = 0 /\ Good(t)
    BY OffFacts DEF Fresh, Inv
  <1> QED
    BY <1>1 DEF Good, Judged, Placed, Marked

LEMMA BeginStep ==
    ASSUME TypeOK, Inv, NEW t \in Tasks, Fresh(t), NEW spec \in TaskType, Begin(t, spec),
           granted \subseteq granted', granted' \subseteq Tasks, spec.root \in Tasks,
           spec.approved => spec.root \in granted',
           spec.cmd.form = "direct" => Len(spec.cmd.segments) \in {0, 1}
    PROVE  TypeOK' /\ Inv'
  <1>1. /\ task' = [task EXCEPT ![t] = spec] /\ disk' = disk /\ marker' = marker /\ child' = child
        /\ kill' = kill /\ hit' = hit /\ troubles' = troubles
    BY DEF Begin
  <1>2. own'[t] = [own[t] EXCEPT !.pc = "policy"] /\ own'[t] \in OwnType
    BY Typing DEF Begin, Goto, OwnType, OwnPc
  <1>3. Holds(t, own'[t])
    BY <1>2, PutOwnAt, Typing DEF Begin, Goto
  <1>4. /\ task' \in [Tasks -> TaskType] /\ task'[t] = spec
        /\ \A q \in Tasks : q # t => task'[q] = task[q]
    BY <1>1, Typing
  <1>5. OnlyOn(t)
    BY <1>1, <1>3, <1>4 DEF OnlyOn, Holds
  <1>6. own'[t].pc = "policy" /\ own'[t].err = own[t].err
    BY <1>2, Typing DEF OwnType
  <1>7. Good(t)
    BY DEF Inv
  <1>8. Judged(t)'
    BY <1>1, <1>4, FreshTask DEF Judged
  <1>9. Placed(t)'
    BY <1>1, <1>6, <1>7, FreshTask DEF Good, Placed
  <1>10. Marked(t)'
    BY <1>1, <1>7, FreshTask DEF Good, Marked
  <1>a. Rooted(t)'
    BY <1>4 DEF Rooted
  <1>11. Inv'
    BY <1>5, <1>8, <1>9, <1>10, <1>a, GoodOthers DEF Good
  <1> QED
    BY <1>1, <1>3, <1>4, <1>11, Typing, TypingBack DEF Holds

LEMMA CallFacts ==
    ASSUME NEW t \in Tasks, NEW spec \in Calls(t)
    PROVE  /\ spec \in TaskType /\ spec.root = t
           /\ spec.cmd.form = "direct" => Len(spec.cmd.segments) \in {0, 1}
  <1>1. PICK text \in Commands, judged \in BOOLEAN, given \in BOOLEAN :
          spec = [cmd |-> text, catalogue |-> judged, approved |-> given, owner |-> "tool", root |-> t]
    BY DEF Calls
  <1>2. text \in Texts
    BY DEF Texts
  <1>3. spec \in TaskType /\ spec.root = t /\ spec.cmd = text
    BY <1>1, <1>2 DEF TaskType
  <1>4. text.form = "direct" => Len(text.segments) = 1
    BY TasksAssumption
  <1>5. text.form = "direct" => Len(text.segments) \in {0, 1}
    BY <1>4
  <1> QED
    BY <1>3, <1>5

LEMMA GrantFacts ==
    ASSUME granted \subseteq Tasks, NEW t \in Tasks, NEW spec, spec.root = t, Grant(spec)
    PROVE  granted \subseteq granted' /\ granted' \subseteq Tasks /\ (spec.approved => spec.root \in granted')
  BY DEF Grant

LEMMA StartStep ==
    ASSUME TypeOK, Inv, NEW t \in Tasks, Start(t)
    PROVE  TypeOK' /\ Inv'
  <1>1. PICK spec \in Calls(t) : Begin(t, spec) /\ Grant(spec)
    BY DEF Start
  <1>2. /\ spec \in TaskType /\ spec.root = t
        /\ spec.cmd.form = "direct" => Len(spec.cmd.segments) \in {0, 1}
    BY CallFacts
  <1>3. granted \subseteq granted' /\ granted' \subseteq Tasks /\ (spec.approved => spec.root \in granted')
    BY <1>1, <1>2, GrantFacts, Typing
  <1> QED
    BY <1>1, <1>2, <1>3, BeginStep DEF Start

LEMMA StartAbortedStep ==
    ASSUME TypeOK, Inv, NEW t \in Tasks, StartAborted(t)
    PROVE  TypeOK' /\ Inv'
  <1>1. PICK spec \in Calls(t) : task' = [task EXCEPT ![t] = spec] /\ Grant(spec)
    BY DEF StartAborted
  <1>2. /\ spec \in TaskType /\ spec.root = t
        /\ spec.cmd.form = "direct" => Len(spec.cmd.segments) \in {0, 1}
    BY CallFacts
  <1>3. granted \subseteq granted' /\ granted' \subseteq Tasks /\ (spec.approved => spec.root \in granted')
    BY <1>1, <1>2, GrantFacts, Typing
  <1>4. /\ disk' = [disk EXCEPT ![t] = "rejected"] /\ own' = own /\ marker' = marker /\ child' = child
        /\ kill' = kill /\ hit' = hit /\ troubles' = troubles /\ Fresh(t)
    BY DEF StartAborted
  <1>5. /\ task' \in [Tasks -> TaskType] /\ task'[t] = spec
        /\ \A q \in Tasks : q # t => task'[q] = task[q]
    BY <1>1, <1>2, Typing
  <1>6. disk' \in [Tasks -> Status] /\ disk'[t] = "rejected" /\ \A q \in Tasks : q # t => disk'[q] = disk[q]
    BY <1>4, Typing DEF Status, Ended
  <1>7. OnlyOn(t)
    BY <1>3, <1>4, <1>5, <1>6 DEF OnlyOn
  <1>8. Good(t)
    BY DEF Inv
  <1>9. Judged(t)' /\ Placed(t)' /\ Marked(t)'
    BY <1>2, <1>3, <1>4, <1>5, <1>6, <1>8, FreshTask DEF Good, Judged, Placed, Marked
  <1>10. Rooted(t)'
    BY <1>2, <1>5 DEF Rooted
  <1> QED
    BY <1>3, <1>4, <1>5, <1>6, <1>7, <1>9, <1>10, GoodOthers, Typing, TypingBack DEF Good

LEMMA AgainStep ==
    ASSUME TypeOK, Inv, NEW t \in Tasks, NEW q \in Tasks, Approve(q, t) \/ Retry(q, t)
    PROVE  TypeOK' /\ Inv'
  <1>1. task[q] \in TaskType /\ Judged(q) /\ Rooted(q) /\ Fresh(t) /\ RouteSees(q) # "none"
    BY Typing DEF Inv, Good, Approve, Retry
  <1>r. task[q].root \in Tasks
    BY <1>1, OffFacts DEF Rooted, RouteSees
  <1>2. PICK approved \in BOOLEAN :
          /\ Again(q, t, approved)
          /\ \/ approved = task[q].approved /\ granted' = granted
             \/ granted' = granted \cup {task[q].root}
    BY <1>1 DEF Approve, Retry, TaskType
  <1> DEFINE spec == [cmd |-> task[q].cmd, catalogue |-> FALSE, approved |-> approved, owner |-> "route",
                      root |-> task[q].root]
  <1>3. spec \in TaskType /\ spec.cmd = task[q].cmd /\ spec.root = task[q].root /\ spec.approved = approved
    BY <1>1 DEF TaskType
  <1>4. Begin(t, spec)
    BY <1>2 DEF Again
  <1> HIDE DEF spec
  <1>5. granted' \subseteq Tasks
    BY <1>r, <1>2, Typing
  <1> QED
    BY <1>1, <1>r, <1>2, <1>3, <1>4, <1>5, BeginStep DEF Judged

-----------------------------------------------------------------------------
(* The owner *)

LEMMA RefuseStep ==
    ASSUME TypeOK, Inv, NEW t \in Tasks, Refuse(t)
    PROVE  TypeOK' /\ Inv'
  <1>1. /\ task' = task /\ marker' = marker /\ child' = child /\ kill' = kill /\ granted' = granted
        /\ hit' = hit /\ troubles' = troubles
    BY DEF Refuse
  <1>2. Holds(t, Off)
    BY OffFacts, PutOwn, Typing DEF Refuse
  <1>3. /\ disk' \in [Tasks -> Status] /\ disk'[t] \in {"awaiting_approval", "rejected"}
        /\ \A q \in Tasks : q # t => disk'[q] = disk[q]
    BY Typing DEF Refuse, Status, Ended
  <1>4. OnlyOn(t) /\ Good(t)
    BY <1>1, <1>2, <1>3 DEF OnlyOn, Holds, Inv
  <1>5. Judged(t)' /\ Placed(t)' /\ Marked(t)'
    BY <1>1, <1>2, <1>3, <1>4, OffFacts DEF Good, Judged, Placed, Marked, Holds
  <1>6. Rooted(t)'
    BY <1>1, <1>4, RootedAt DEF Refuse, At, Good, Rooted
  <1> QED
    BY <1>1, <1>2, <1>3, <1>4, <1>5, <1>6, GoodOthers, Typing, TypingBack DEF Good, Holds

\* What is spawned was judged.
LEMMA SpawnIsJudged ==
    ASSUME TypeOK, Inv, NEW t \in Tasks, "allow" \in Verdicts(t)
    PROVE  /\ Len(task[t].cmd.segments) = 1 /\ Unrefused(task[t].cmd)
           /\ WantsApproval(task[t].cmd) => task[t].root \in granted
  <1>1. task[t] \in TaskType /\ Judged(t)
    BY Typing DEF Inv, Good
  <1>2. task[t].cmd.form \in {"shell", "direct"} /\ task[t].cmd.segments \in Seq(Segment)
    BY <1>1, TextFacts DEF TaskType
  <1>3. task[t].approved \in BOOLEAN
    BY <1>1 DEF TaskType
  <1> DEFINE allowed == IF task[t].catalogue THEN CatalogueAllowed(task[t].cmd) ELSE DefaultAllowed
  <1>4. PICK dangerous \in BOOLEAN :
          Evaluate(allowed, task[t].cmd, task[t].approved, dangerous) = "allow"
    BY DEF Verdicts
  <1> HIDE DEF allowed
  <1>5. /\ Len(task[t].cmd.segments) = 1 /\ ~DeniedOrDangerous(task[t].cmd.segments[1])
        /\ WantsApproval(task[t].cmd) => task[t].approved
    BY <1>1, <1>2, <1>3, <1>4, AllowedIsApproved DEF Judged
  <1>6. Unrefused(task[t].cmd)
    BY <1>5 DEF Unrefused
  <1> QED
    BY <1>1, <1>5, <1>6 DEF Judged

LEMMA SpawnedOwn ==
    ASSUME own \in [Tasks -> OwnType], NEW t \in Tasks,
           own' = [own EXCEPT ![t].pc = "initial", ![t].snap = "running"]
    PROVE  Holds(t, own'[t]) /\ own'[t].pc = "initial" /\ own'[t].err = own[t].err
  <1> DEFINE x == [own[t] EXCEPT !.pc = "initial", !.snap = "running"]
  <1>1. x \in OwnType /\ x.pc = "initial" /\ x.err = own[t].err
    BY DEF OwnType, OwnPc, Status
  <1>2. own'[t] = x
    OBVIOUS
  <1>3. own' = [q \in Tasks |-> own'[q]] /\ \A q \in Tasks : q # t => own'[q] = own[q]
    OBVIOUS
  <1> HIDE DEF x
  <1> QED
    BY <1>1, <1>2, <1>3, PutOwnAt

LEMMA SpawnStep ==
    ASSUME TypeOK, Inv, NEW t \in Tasks, Spawn(t)
    PROVE  TypeOK' /\ Inv'
  <1>1. /\ task' = [task EXCEPT ![t].cmd = Normalized(@)]
        /\ marker' = marker /\ kill' = kill /\ granted' = granted /\ hit' = hit /\ troubles' = troubles
        /\ own[t].pc = "policy"
    BY DEF Spawn, At
  <1>2. /\ Len(task[t].cmd.segments) = 1 /\ Unrefused(task[t].cmd)
        /\ WantsApproval(task[t].cmd) => task[t].root \in granted
    BY SpawnIsJudged DEF Spawn
  <1>3. Good(t) /\ child[t] = "none" /\ task[t] \in TaskType
    BY <1>1, Typing DEF Inv, Good, Placed
  <1>4. /\ Normalized(task[t].cmd) \in Texts
        /\ Normalized(task[t].cmd).segments = task[t].cmd.segments
        /\ WantsApproval(Normalized(task[t].cmd)) <=> WantsApproval(task[t].cmd)
        /\ Unrefused(Normalized(task[t].cmd)) <=> Unrefused(task[t].cmd)
    BY <1>3, TextFacts, SameWants DEF TaskType
  <1>5. task'[t] = [task[t] EXCEPT !.cmd = Normalized(task[t].cmd)]
    BY <1>1, Typing
  <1>6. /\ task'[t] \in TaskType /\ task'[t].cmd = Normalized(task[t].cmd)
        /\ task'[t].approved = task[t].approved /\ task'[t].root = task[t].root
    BY <1>3, <1>4, <1>5 DEF TaskType
  <1>7. task' \in [Tasks -> TaskType] /\ \A q \in Tasks : q # t => task'[q] = task[q]
    BY <1>1, <1>6, Typing
  <1>8. Judged(t)' /\ Rooted(t)'
    <2>1. task[t].root \in Tasks
      BY <1>1, <1>3, RootedAt DEF Good
    <2>2. /\ Unrefused(task'[t].cmd) /\ Len(task'[t].cmd.segments) = 1
          /\ WantsApproval(task'[t].cmd) => task'[t].root \in granted'
          /\ task'[t].approved => task'[t].root \in granted'
      BY <1>1, <1>2, <1>3, <1>4, <1>6 DEF Good, Judged
    <2>3. Judged(t)'
      BY <2>2 DEF Judged
    <2> QED
      BY <1>6, <2>1, <2>3 DEF Rooted
  <1>9. CASE own' = [own EXCEPT ![t] = Off]
    <2>1. Holds(t, Off)
      BY <1>9, OffFacts, PutOwn, Typing
    <2>2. own'[t].snap # "running"
      BY <2>1, OffFacts DEF Holds
    <2>3. /\ child' = child /\ disk' \in [Tasks -> Status]
          /\ \A q \in Tasks : q # t => disk'[q] = disk[q]
      <3>1. ~(own' = [own EXCEPT ![t].pc = "initial", ![t].snap = "running"])
        BY <2>2, Typing DEF OwnType
      <3> QED
        BY <3>1, Typing DEF Spawn, Status, Ended
    <2>4. OnlyOn(t)
      BY <1>1, <1>7, <2>1, <2>3 DEF OnlyOn, Holds
    <2>5. Placed(t)' /\ Marked(t)'
      BY <1>1, <1>2, <1>3, <1>4, <1>6, <2>1, <2>3, OffFacts DEF Good, Placed, Marked, Holds
    <2> QED
      BY <1>1, <1>7, <1>8, <2>1, <2>3, <2>4, <2>5, GoodOthers, Typing, TypingBack DEF Good, Holds
  <1>10. CASE ~(own' = [own EXCEPT ![t] = Off])
    <2>1. /\ own' = [own EXCEPT ![t].pc = "initial", ![t].snap = "running"] /\ disk' = disk
          /\ \E c \in {"alive", "unspawned"} : child' = [child EXCEPT ![t] = c]
      BY <1>10 DEF Spawn
    <2>4. Holds(t, own'[t]) /\ own'[t].pc = "initial" /\ own'[t].err = own[t].err
      BY <2>1, SpawnedOwn, Typing
    <2>5. /\ child' \in [Tasks -> ChildType] /\ child'[t] \in {"alive", "unspawned"}
          /\ \A q \in Tasks : q # t => child'[q] = child[q]
      BY <2>1, Typing DEF ChildType
    <2>6. OnlyOn(t)
      BY <1>1, <1>7, <2>1, <2>4, <2>5 DEF OnlyOn, Holds
    <2>7. Placed(t)' /\ Marked(t)'
      BY <1>1, <1>3, <1>6, <2>1, <2>4, <2>5 DEF Good, Placed, Marked
    <2> QED
      BY <1>1, <1>7, <1>8, <2>1, <2>4, <2>5, <2>6, <2>7, GoodOthers, Typing, TypingBack DEF Good, Holds
  <1> QED
    BY <1>9, <1>10

-----------------------------------------------------------------------------
(* A task that has begun *)

\* Only t is touched, and nothing is approved.
Touches(t) ==
    /\ task' = task /\ granted' = granted
    /\ own' \in [Tasks -> OwnType] /\ disk' \in [Tasks -> Status] /\ marker' \in [Tasks -> BOOLEAN]
    /\ child' \in [Tasks -> ChildType] /\ kill' \in [Tasks -> KillType]
    /\ hit' \subseteq Tasks /\ troubles' \in 0..MaxTroubles
    /\ \A q \in Tasks : q # t =>
         /\ own'[q] = own[q] /\ disk'[q] = disk[q] /\ marker'[q] = marker[q]
         /\ child'[q] = child[q] /\ kill'[q] = kill[q]
         /\ q \in hit' => q \in hit

LEMMA TouchStep ==
    ASSUME TypeOK, Inv, NEW t \in Tasks, Touches(t), task[t].root \in Tasks,
           child'[t] # "none" => child[t] # "none", Placed(t)', Marked(t)'
    PROVE  TypeOK' /\ Inv'
  <1>1. task' = task /\ granted' = granted /\ Good(t)
    BY DEF Touches, Inv
  <1>2. OnlyOn(t)
    BY DEF Touches, OnlyOn
  <1>3. Judged(t)'
    BY <1>1 DEF Good, Judged
  <1>4. Rooted(t)'
    BY <1>1 DEF Rooted
  <1>5. TypeOK'
    BY Typing, TypingBack DEF Touches
  <1> QED
    BY <1>2, <1>3, <1>4, <1>5, GoodOthers DEF Good

LEMMA RootedOwner ==
    ASSUME Inv, NEW t \in Tasks, own[t] # Off \/ kill[t] # "idle" \/ disk[t] # "none"
    PROVE  task[t].root \in Tasks
  BY DEF Inv, Good, Rooted

\* A step of the owner that leaves the child, the record, the marker and the kills alone.
LEMMA OwnOnly ==
    ASSUME TypeOK, Inv, NEW t \in Tasks, Holds(t, own'[t]),
           task' = task, disk' = disk, marker' = marker, child' = child, kill' = kill,
           granted' = granted, hit' = hit, troubles' = troubles, own[t] # Off,
           own'[t].err = own[t].err,
           \/ own'[t].pc = own[t].pc /\ own'[t].snap = own[t].snap
           \/ own[t].pc \in {"drain", "read", "mark"} /\ own'[t].pc \in {"read", "mark"}
           \/ /\ own[t].pc \in {"drain", "mark"} /\ own'[t].pc = "write"
              /\ t \in hit => own'[t].snap \notin {"completed", "failed"}
    PROVE  TypeOK' /\ Inv'
  <1>1. Touches(t)
    BY Typing DEF Touches, Holds
  <1>2. Good(t) /\ task[t].root \in Tasks
    BY RootedOwner DEF Inv
  <1>3. Placed(t)'
    BY <1>2 DEF Good, Placed
  <1>4. Marked(t)'
    BY <1>2 DEF Good, Marked
  <1> QED
    BY <1>1, <1>2, <1>3, <1>4, TouchStep

LEMMA OwnAt ==
    ASSUME own \in [Tasks -> OwnType], NEW t \in Tasks
    PROVE  /\ own' = [own EXCEPT ![t].queue = 1] =>
                Holds(t, own'[t]) /\ own'[t] = [own[t] EXCEPT !.queue = 1]
           /\ \A pc \in OwnPc : own' = [own EXCEPT ![t].pc = pc] =>
                Holds(t, own'[t]) /\ own'[t] = [own[t] EXCEPT !.pc = pc]
           /\ own' = [own EXCEPT ![t].cancel = TRUE] =>
                Holds(t, own'[t]) /\ own'[t] = [own[t] EXCEPT !.cancel = TRUE]
  <1>1. ASSUME own' = [own EXCEPT ![t].queue = 1]
        PROVE  Holds(t, own'[t]) /\ own'[t] = [own[t] EXCEPT !.queue = 1]
    <2>1. own'[t] = [own[t] EXCEPT !.queue = 1] /\ own'[t] \in OwnType
      BY <1>1 DEF OwnType
    <2> QED
      BY <1>1, <2>1, PutOwnAt
  <1>2. ASSUME NEW pc \in OwnPc, own' = [own EXCEPT ![t].pc = pc]
        PROVE  Holds(t, own'[t]) /\ own'[t] = [own[t] EXCEPT !.pc = pc]
    <2>1. own'[t] = [own[t] EXCEPT !.pc = pc] /\ own'[t] \in OwnType
      BY <1>2 DEF OwnType
    <2> QED
      BY <1>2, <2>1, PutOwnAt
  <1>3. ASSUME own' = [own EXCEPT ![t].cancel = TRUE]
        PROVE  Holds(t, own'[t]) /\ own'[t] = [own[t] EXCEPT !.cancel = TRUE]
    <2>1. own'[t] = [own[t] EXCEPT !.cancel = TRUE] /\ own'[t] \in OwnType
      BY <1>3 DEF OwnType
    <2> QED
      BY <1>3, <2>1, PutOwnAt
  <1> QED
    BY <1>1, <1>2, <1>3

LEMMA OutputStep ==
    ASSUME TypeOK, Inv, NEW t \in Tasks, Output(t)
    PROVE  TypeOK' /\ Inv'
  <1>1. /\ own' = [own EXCEPT ![t].queue = 1] /\ own[t].pc = "watch"
        /\ task' = task /\ disk' = disk /\ marker' = marker /\ child' = child /\ kill' = kill
        /\ granted' = granted /\ hit' = hit /\ troubles' = troubles
    BY DEF Output, At
  <1>2. Holds(t, own'[t]) /\ own'[t] = [own[t] EXCEPT !.queue = 1]
    BY <1>1, OwnAt, Typing
  <1>3. own'[t].pc = own[t].pc /\ own'[t].snap = own[t].snap /\ own'[t].err = own[t].err
    BY <1>2, Typing DEF OwnType
  <1> QED
    BY <1>1, <1>2, <1>3, OffFacts, OwnOnly

LEMMA TimeoutStep ==
    ASSUME TypeOK, Inv, NEW t \in Tasks, Timeout(t)
    PROVE  TypeOK' /\ Inv'
  <1>1. /\ own' = [own EXCEPT ![t].timedOut = TRUE, ![t].grace = TRUE] /\ own[t].pc = "watch"
        /\ task' = task /\ disk' = disk /\ marker' = marker /\ child' = child /\ kill' = kill
        /\ granted' = granted /\ hit' = hit /\ troubles' = troubles /\ own \in [Tasks -> OwnType]
    BY Typing DEF Timeout, At
  <1> DEFINE x == [own[t] EXCEPT !.timedOut = TRUE, !.grace = TRUE]
  <1>2. x \in OwnType /\ x.pc = own[t].pc /\ x.snap = own[t].snap /\ x.err = own[t].err
    BY <1>1 DEF OwnType
  <1>3. own'[t] = x /\ own' = [q \in Tasks |-> own'[q]] /\ \A q \in Tasks : q # t => own'[q] = own[q]
    BY <1>1
  <1> HIDE DEF x
  <1>4. Holds(t, own'[t])
    BY <1>1, <1>2, <1>3, PutOwnAt
  <1> QED
    BY <1>1, <1>2, <1>3, <1>4, OffFacts, OwnOnly

LEMMA DrainStep ==
    ASSUME TypeOK, Inv, NEW t \in Tasks, Drain(t)
    PROVE  TypeOK' /\ Inv'
  <1>1. /\ own[t].pc = "drain"
        /\ task' = task /\ disk' = disk /\ marker' = marker /\ child' = child /\ kill' = kill
        /\ granted' = granted /\ hit' = hit /\ troubles' = troubles /\ own \in [Tasks -> OwnType]
    BY Typing DEF Drain, At
  <1>2. CASE own[t].err
    <2> DEFINE x == [own[t] EXCEPT !.pc = "write", !.snap = "failed"]
    <2>1. x \in OwnType /\ x.pc = "write" /\ x.err = own[t].err
      BY <1>1 DEF OwnType, OwnPc, Status, Ended
    <2>2. own' = [own EXCEPT ![t].pc = "write", ![t].snap = "failed"]
      BY <1>2 DEF Drain
    <2>3. own'[t] = x /\ own' = [q \in Tasks |-> own'[q]] /\ \A q \in Tasks : q # t => own'[q] = own[q]
      BY <1>1, <2>2
    <2> HIDE DEF x
    <2>4. Holds(t, own'[t])
      BY <1>1, <2>1, <2>3, PutOwnAt
    <2>5. t \notin hit
      BY <1>2 DEF Inv, Good, Marked
    <2> QED
      BY <1>1, <2>1, <2>3, <2>4, <2>5, OffFacts, OwnOnly
  <1>3. CASE ~own[t].err
    <2>1. own' = [own EXCEPT ![t].pc = "read"]
      BY <1>3 DEF Drain
    <2>2. Holds(t, own'[t]) /\ own'[t] = [own[t] EXCEPT !.pc = "read"]
      BY <1>1, <2>1, OwnAt DEF OwnPc
    <2>3. own'[t].pc = "read" /\ own'[t].err = own[t].err
      BY <1>1, <2>2 DEF OwnType
    <2> QED
      BY <1>1, <2>2, <2>3, OffFacts, OwnOnly
  <1> QED
    BY <1>2, <1>3

LEMMA ReadPersistedStep ==
    ASSUME TypeOK, Inv, NEW t \in Tasks, ReadPersisted(t)
    PROVE  TypeOK' /\ Inv'
  <1> DEFINE seen == disk[t] = "aborted"
  <1>1. /\ own' = [own EXCEPT ![t].pc = "mark", ![t].seen = seen] /\ own[t].pc = "read"
        /\ task' = task /\ disk' = disk /\ marker' = marker /\ child' = child /\ kill' = kill
        /\ granted' = granted /\ hit' = hit /\ troubles' = troubles /\ own \in [Tasks -> OwnType]
    BY Typing DEF ReadPersisted, At
  <1>b. seen \in BOOLEAN
    OBVIOUS
  <1> HIDE DEF seen
  <1> DEFINE x == [own[t] EXCEPT !.pc = "mark", !.seen = seen]
  <1>2. x \in OwnType /\ x.pc = "mark" /\ x.err = own[t].err
    BY <1>1, <1>b DEF OwnType, OwnPc
  <1>3. own'[t] = x /\ own' = [q \in Tasks |-> own'[q]] /\ \A q \in Tasks : q # t => own'[q] = own[q]
    BY <1>1
  <1> HIDE DEF x
  <1>4. Holds(t, own'[t])
    BY <1>1, <1>2, <1>3, PutOwnAt
  <1> QED
    BY <1>1, <1>2, <1>3, <1>4, OffFacts, OwnOnly

\* The marker decides.
LEMMA DecideStep ==
    ASSUME TypeOK, Inv, NEW t \in Tasks, Decide(t)
    PROVE  TypeOK' /\ Inv'
  <1> DEFINE status == StatusAtClose(t)
  <1>1. /\ own' = [own EXCEPT ![t].pc = "write", ![t].snap = status] /\ own[t].pc = "mark"
        /\ task' = task /\ disk' = disk /\ marker' = marker /\ child' = child /\ kill' = kill
        /\ granted' = granted /\ hit' = hit /\ troubles' = troubles /\ own \in [Tasks -> OwnType]
    BY Typing DEF Decide, At
  <1>2. status \in Status /\ (marker[t] => status \notin {"completed", "failed"})
    BY DEF StatusAtClose, Status, Ended
  <1>3. t \in hit => status \notin {"completed", "failed"}
    BY <1>2 DEF Inv, Good, Marked
  <1> HIDE DEF status
  <1> DEFINE x == [own[t] EXCEPT !.pc = "write", !.snap = status]
  <1>4. x \in OwnType /\ x.pc = "write" /\ x.err = own[t].err /\ x.snap = status
    BY <1>1, <1>2 DEF OwnType, OwnPc
  <1>5. own'[t] = x /\ own' = [q \in Tasks |-> own'[q]] /\ \A q \in Tasks : q # t => own'[q] = own[q]
    BY <1>1
  <1> HIDE DEF x
  <1>6. Holds(t, own'[t])
    BY <1>1, <1>4, <1>5, PutOwnAt
  <1> QED
    BY <1>1, <1>3, <1>4, <1>5, <1>6, OffFacts, OwnOnly

\* A step that writes the record and puts o in the owner's place.
LEMMA OwnAndDisk ==
    ASSUME TypeOK, Inv, NEW t \in Tasks, NEW o \in OwnType, NEW status \in Status,
           own' = [own EXCEPT ![t] = o], disk' = [disk EXCEPT ![t] = status],
           task' = task, marker' = marker, child' = child, kill' = kill,
           granted' = granted, hit' = hit, troubles' = troubles, own[t] # Off, o.err => own[t].err,
           (o.pc = own[t].pc /\ o.snap = own[t].snap) \/ o.pc = "off",
           status \in {"completed", "failed"} => own[t].pc = "write" /\ own[t].snap = status
    PROVE  TypeOK' /\ Inv'
  <1>1. Holds(t, o) /\ disk' \in [Tasks -> Status] /\ disk'[t] = status
        /\ \A q \in Tasks : q # t => disk'[q] = disk[q]
    BY PutOwn, Typing
  <1>2. Touches(t)
    BY <1>1, Typing DEF Touches, Holds
  <1>3. Good(t) /\ task[t].root \in Tasks
    BY RootedOwner DEF Inv
  <1>4. Placed(t)'
    BY <1>1, <1>3 DEF Good, Judged, Placed, Holds
  <1>5. Marked(t)'
    BY <1>1, <1>3 DEF Good, Marked, Holds
  <1> QED
    BY <1>2, <1>3, <1>4, <1>5, TouchStep

LEMMA WriteSnapshotStep ==
    ASSUME TypeOK, Inv, NEW t \in Tasks, WriteSnapshot(t)
    PROVE  TypeOK' /\ Inv'
  <1>1. own \in [Tasks -> OwnType] /\ own[t].queue \in 0..1 /\ own[t].queue > 0
    BY Typing DEF WriteSnapshot, OwnType
  <1> DEFINE x == [own[t] EXCEPT !.queue = @ - 1]
  <1>2. x \in OwnType /\ x.pc = own[t].pc /\ x.snap = own[t].snap /\ x.err = own[t].err
    BY <1>1 DEF OwnType
  <1>3. own' = [own EXCEPT ![t] = x]
    BY DEF WriteSnapshot
  <1>4. own[t] # Off
    BY <1>1 DEF Off
  <1> HIDE DEF x
  <1> QED
    BY <1>2, <1>3, <1>4, OwnAndDisk DEF WriteSnapshot, Status

LEMMA SettleStep ==
    ASSUME TypeOK, Inv, NEW t \in Tasks, Settle(t)
    PROVE  TypeOK' /\ Inv'
  <1>1. own[t] \in OwnType /\ own[t].pc = "write" /\ own[t].snap \in Status
    BY Typing DEF Settle, At, OwnType
  <1> DEFINE x == [Off EXCEPT !.queue = own[t].queue]
  <1>2. x \in OwnType /\ x.pc = "off" /\ x.err = FALSE
    BY <1>1 DEF Off, OwnType, OwnPc, Status
  <1>3. own' = [own EXCEPT ![t] = x] /\ disk' = [disk EXCEPT ![t] = own[t].snap]
    BY DEF Settle
  <1>4. own[t] # Off
    BY <1>1, OffFacts
  <1> HIDE DEF x
  <1> QED
    BY <1>1, <1>2, <1>3, <1>4, OwnAndDisk DEF Settle

LEMMA WatchFailsStep ==
    ASSUME TypeOK, Inv, NEW t \in Tasks, WatchFails(t)
    PROVE  TypeOK' /\ Inv'
  <1> DEFINE x == [Off EXCEPT !.snap = "running"]
  <1>1. x \in OwnType /\ x.pc = "off" /\ x.err = FALSE
    <2>1. "running" \in Status
      BY DEF Status
    <2>2. \A o \in OwnType : LET y == [o EXCEPT !.snap = "running"]
                            IN  y \in OwnType /\ y.pc = o.pc /\ y.err = o.err
      BY <2>1 DEF OwnType
    <2> QED
      BY <2>2, OffFacts
  <1>2. /\ own' = [own EXCEPT ![t] = x] /\ own[t].pc = "initial"
        /\ task' = task /\ disk' = disk /\ marker' = marker /\ child' = child /\ kill' = kill
        /\ granted' = granted /\ hit' = hit /\ troubles' \in 0..MaxTroubles
    BY Troubled DEF WatchFails, At
  <1> HIDE DEF x
  <1>3. Holds(t, x)
    BY <1>1, <1>2, PutOwn, Typing
  <1>4. Touches(t)
    BY <1>2, <1>3, Typing DEF Touches, Holds
  <1>5. Good(t) /\ task[t].root \in Tasks
    BY <1>2, OffFacts, RootedOwner DEF Inv
  <1>6. Placed(t)' /\ Marked(t)'
    BY <1>1, <1>2, <1>3, <1>5 DEF Good, Placed, Marked, Holds
  <1> QED
    BY <1>2, <1>4, <1>5, <1>6, TouchStep

LEMMA TerminatedFacts ==
    ASSUME NEW o \in OwnType
    PROVE  /\ Terminated(o) \in OwnType /\ Terminated(o).pc = o.pc /\ Terminated(o).snap = o.snap
           /\ Terminated(o).err = o.err
  <1> DEFINE grace == o.pc = "watch"
  <1>1. Terminated(o) = [o EXCEPT !.aborted = TRUE, !.grace = grace] /\ grace \in BOOLEAN
    BY DEF Terminated
  <1> HIDE DEF grace
  <1> QED
    BY <1>1 DEF OwnType

LEMMA WatchStep ==
    ASSUME TypeOK, Inv, NEW t \in Tasks, Watch(t)
    PROVE  TypeOK' /\ Inv'
  <1>1. /\ own[t].pc = "initial" /\ own[t] \in OwnType /\ own[t].cancel \in BOOLEAN
        /\ task' = task /\ child' = child /\ kill' = kill /\ granted' = granted /\ troubles' = troubles
    BY Typing DEF Watch, At, OwnType
  <1> DEFINE o == [own[t] EXCEPT !.pc = "watch"]
             p == [o EXCEPT !.cancel = FALSE]
             x == IF o.cancel THEN Terminated(p) ELSE o
  <1>2. /\ o \in OwnType /\ o.pc = "watch" /\ o.err = own[t].err /\ o.cancel = own[t].cancel
        /\ p \in OwnType /\ p.pc = "watch" /\ p.err = own[t].err
    BY <1>1 DEF OwnType, OwnPc
  <1>3. own' = [own EXCEPT ![t] = x]
    BY DEF Watch
  <1> HIDE DEF o, p
  <1>4. x \in OwnType /\ x.pc = "watch" /\ x.err = own[t].err
    BY <1>2, TerminatedFacts
  <1> HIDE DEF x
  <1>5. Holds(t, x)
    BY <1>3, <1>4, PutOwn, Typing
  <1>6. /\ disk' \in [Tasks -> Status] /\ disk'[t] = "running"
        /\ \A q \in Tasks : q # t => disk'[q] = disk[q]
    BY Typing DEF Watch, Status
  <1>7. /\ marker' \in [Tasks -> BOOLEAN] /\ (marker[t] \/ own[t].cancel => marker'[t])
        /\ \A q \in Tasks : q # t => marker'[q] = marker[q]
    BY <1>1, Typing DEF Watch
  <1>8. /\ hit' \subseteq Tasks /\ \A q \in Tasks : q # t /\ q \in hit' => q \in hit
        /\ t \in hit' => t \in hit \/ (own[t].cancel /\ child[t] = "alive")
    BY <1>1, SignalledFacts, Typing DEF Watch
  <1>9. Touches(t)
    BY <1>1, <1>5, <1>6, <1>7, <1>8, Typing DEF Touches, Holds
  <1>10. Good(t) /\ task[t].root \in Tasks
    BY <1>1, OffFacts, RootedOwner DEF Inv
  <1>11. Placed(t)'
    BY <1>1, <1>4, <1>5, <1>6, <1>10 DEF Good, Placed, Holds
  <1>12. Marked(t)'
    BY <1>1, <1>4, <1>5, <1>6, <1>7, <1>8, <1>10 DEF Good, Placed, Marked, Holds
  <1> QED
    BY <1>1, <1>9, <1>10, <1>11, <1>12, TouchStep

\* The child ends or reports that it never began.
LEMMA ClosingFacts ==
    ASSUME NEW o \in OwnType
    PROVE  /\ Closing(o) \in OwnType /\ Closing(o).pc = "drain" /\ Closing(o).err = o.err
           /\ [Closing(o) EXCEPT !.err = TRUE] \in OwnType
           /\ [Closing(o) EXCEPT !.err = TRUE].pc = "drain" /\ [Closing(o) EXCEPT !.err = TRUE].err = TRUE
  BY DEF Closing, OwnType, OwnPc

LEMMA ChildEnds ==
    ASSUME TypeOK, Inv, NEW t \in Tasks, NEW o \in OwnType, NEW how \in {"ok", "bad", "errored"},
           own' = [own EXCEPT ![t] = o], child' = [child EXCEPT ![t] = how],
           child[t] \in {"alive", "unspawned", "errored"},
           task' = task, disk' = disk, marker' = marker, kill' = kill,
           granted' = granted, hit' = hit, troubles' = troubles,
           how = "errored" => child[t] = "unspawned",
           child[t] = "alive" => o.err = own[t].err, o.err # own[t].err => how = "bad",
           IF own[t].pc = "watch" THEN o.pc = "drain" /\ how # "errored" ELSE o = own[t]
    PROVE  TypeOK' /\ Inv'
  <1>1. Holds(t, o) /\ child' \in [Tasks -> ChildType] /\ child'[t] = how
        /\ \A q \in Tasks : q # t => child'[q] = child[q]
    BY PutOwn, Typing DEF ChildType
  <1>2. Touches(t)
    BY <1>1, Typing DEF Touches, Holds
  <1>3. Good(t) /\ own[t] \in OwnType /\ own[t].err \in BOOLEAN
    BY Typing DEF Inv, OwnType
  <1>4. own[t].pc # "policy" /\ own[t].pc \notin {"drain", "read", "mark", "write"} /\ own[t].err = FALSE
    BY <1>3 DEF Good, Placed
  <1>5. Placed(t)'
    BY <1>1, <1>3, <1>4 DEF Good, Judged, Placed, Holds
  <1>6. t \in hit => child[t] = "alive"
    BY <1>3 DEF Good, Marked
  <1>7. Marked(t)'
    BY <1>1, <1>3, <1>4, <1>6 DEF Good, Marked, Holds
  <1>8. Judged(t)' /\ Rooted(t)'
    <2>1. Judged(t)'
      BY <1>1, <1>3 DEF Good, Judged
    <2>2. Rooted(t)'
      <3>1. CASE own[t].pc = "watch"
        BY <1>3, <3>1, OffFacts DEF Good, Rooted
      <3>2. CASE own[t].pc # "watch"
        BY <1>1, <1>3, <3>2 DEF Good, Rooted, Holds
      <3> QED
        BY <3>1, <3>2
    <2> QED
      BY <2>1, <2>2
  <1>9. OnlyOn(t)
    BY <1>2 DEF Touches, OnlyOn
  <1>10. TypeOK'
    BY <1>2, Typing, TypingBack DEF Touches
  <1> QED
    BY <1>5, <1>7, <1>8, <1>9, <1>10, GoodOthers DEF Good

LEMMA SameOwn ==
    ASSUME own \in [Tasks -> OwnType], NEW t \in Tasks, own' = own
    PROVE  own' = [own EXCEPT ![t] = own[t]] /\ own[t] \in OwnType
  OBVIOUS

LEMMA CloseStep ==
    ASSUME TypeOK, Inv, NEW t \in Tasks, Close(t)
    PROVE  TypeOK' /\ Inv'
  <1>1. PICK how \in {"ok", "bad"} : child' = [child EXCEPT ![t] = how]
    BY DEF Close
  <1>2. CASE own[t].pc = "watch"
    <2>1. own' = [own EXCEPT ![t] = Closing(own[t])]
      BY <1>2 DEF Close, At
    <2>2. own[t] \in OwnType
      BY Typing
    <2>3. /\ Closing(own[t]) \in OwnType /\ Closing(own[t]).pc = "drain"
          /\ Closing(own[t]).err = own[t].err
      BY <2>2, ClosingFacts
    <2>4. /\ child[t] \in {"alive", "unspawned", "errored"}
          /\ task' = task /\ disk' = disk /\ marker' = marker /\ kill' = kill
          /\ granted' = granted /\ hit' = hit /\ troubles' = troubles
      BY DEF Close
    <2> QED
      BY <1>1, <1>2, <2>1, <2>3, <2>4, ChildEnds
  <1>3. CASE own[t].pc # "watch"
    <2>1. own' = own
      BY <1>3 DEF Close, At
    <2>2. own' = [own EXCEPT ![t] = own[t]] /\ own[t] \in OwnType
      BY <2>1, SameOwn, Typing
    <2> QED
      BY <1>1, <1>3, <2>2, ChildEnds DEF Close
  <1> QED
    BY <1>2, <1>3

LEMMA SpawnErrorStep ==
    ASSUME TypeOK, Inv, NEW t \in Tasks, SpawnError(t)
    PROVE  TypeOK' /\ Inv'
  <1>1. CASE own[t].pc = "watch"
    <2>1. own' = [own EXCEPT ![t] = [Closing(own[t]) EXCEPT !.err = TRUE]] /\ child' = [child EXCEPT ![t] = "bad"]
      BY <1>1 DEF SpawnError, At
    <2>2. own[t] \in OwnType
      BY Typing
    <2> QED
      BY <1>1, <2>1, <2>2, ClosingFacts, ChildEnds DEF SpawnError
  <1>2. CASE own[t].pc # "watch"
    <2>1. own' = own /\ child' = [child EXCEPT ![t] = "errored"]
      BY <1>2 DEF SpawnError, At
    <2>2. own' = [own EXCEPT ![t] = own[t]] /\ own[t] \in OwnType
      BY <2>1, SameOwn, Typing
    <2> QED
      BY <1>2, <2>1, <2>2, ChildEnds DEF SpawnError
  <1> QED
    BY <1>1, <1>2

LEMMA GraceStep ==
    ASSUME TypeOK, Inv, NEW t \in Tasks, Grace(t)
    PROVE  TypeOK' /\ Inv'
  <1>1. own[t] \in OwnType /\ own \in [Tasks -> OwnType] /\ own[t].grace
    BY Typing DEF Grace
  <1>2. CASE own[t].pc = "watch" /\ child[t] = "alive"
    <2>1. own' = [own EXCEPT ![t] = Closing(own[t])] /\ child' = [child EXCEPT ![t] = "bad"]
      BY <1>2 DEF Grace, At
    <2> QED
      BY <1>1, <1>2, <2>1, ClosingFacts, ChildEnds DEF Grace
  <1>3. CASE ~(own[t].pc = "watch" /\ child[t] = "alive")
    <2> DEFINE x == [own[t] EXCEPT !.grace = FALSE]
    <2>1. own' = [own EXCEPT ![t] = x] /\ child' = child
      BY <1>3 DEF Grace, At
    <2>2. x \in OwnType /\ x.pc = own[t].pc /\ x.snap = own[t].snap /\ x.err = own[t].err
      BY <1>1 DEF OwnType
    <2> HIDE DEF x
    <2>3. Holds(t, x)
      BY <1>1, <2>1, <2>2, PutOwn
    <2>4. Holds(t, own'[t]) /\ own'[t] = x
      BY <2>3 DEF Holds
    <2>5. own[t] # Off
      BY <1>1 DEF Off
    <2> QED
      BY <2>1, <2>2, <2>4, <2>5, OwnOnly DEF Grace
  <1> QED
    BY <1>2, <1>3

-----------------------------------------------------------------------------
(* Aborts and kills *)

LEMMA AbortStep ==
    ASSUME TypeOK, Inv, NEW t \in Tasks, Abort(t), Active(t)
    PROVE  TypeOK' /\ Inv'
  <1>1. /\ own[t] \in OwnType /\ own[t].pc \in {"watch", "drain", "read", "mark", "write"}
        /\ own' = [own EXCEPT ![t] = Terminated(own[t])]
        /\ task' = task /\ disk' = disk /\ child' = child /\ kill' = kill
        /\ granted' = granted /\ troubles' = troubles
    BY Typing DEF Abort, Active
  <1>2. /\ Terminated(own[t]) \in OwnType /\ Terminated(own[t]).pc = own[t].pc
        /\ Terminated(own[t]).snap = own[t].snap /\ Terminated(own[t]).err = own[t].err
    BY <1>1, TerminatedFacts
  <1>3. Holds(t, Terminated(own[t]))
    BY <1>1, <1>2, PutOwn, Typing
  <1>4. /\ marker' \in [Tasks -> BOOLEAN] /\ marker'[t] = TRUE
        /\ \A q \in Tasks : q # t => marker'[q] = marker[q]
    BY Typing DEF Abort
  <1>5. /\ hit' \subseteq Tasks /\ \A q \in Tasks : q # t /\ q \in hit' => q \in hit
        /\ t \in hit' => t \in hit \/ child[t] = "alive"
    BY SignalledFacts DEF Abort
  <1>6. Touches(t)
    BY <1>1, <1>3, <1>4, <1>5, Typing DEF Touches, Holds
  <1>7. Good(t) /\ task[t].root \in Tasks
    BY <1>1, OffFacts, RootedOwner DEF Inv
  <1>8. Placed(t)'
    BY <1>1, <1>2, <1>3, <1>7 DEF Good, Placed, Holds
  <1>9. Marked(t)'
    BY <1>1, <1>2, <1>3, <1>4, <1>5, <1>7 DEF Good, Placed, Marked, Holds
  <1> QED
    BY <1>1, <1>6, <1>7, <1>8, <1>9, TouchStep

LEMMA CancelStep ==
    ASSUME TypeOK, Inv, NEW t \in Tasks, Cancel(t)
    PROVE  TypeOK' /\ Inv'
  <1>1. CASE own[t].pc = "watch" /\ Abort(t)
    BY <1>1, AbortStep DEF Active
  <1>2. CASE ~(own[t].pc = "watch" /\ Abort(t))
    <2>1. /\ own[t].pc \in {"policy", "initial"} /\ own' = [own EXCEPT ![t].cancel = TRUE]
          /\ task' = task /\ disk' = disk /\ marker' = marker /\ child' = child /\ kill' = kill
          /\ granted' = granted /\ hit' = hit /\ troubles' = troubles
      BY <1>2 DEF Cancel, At
    <2>2. Holds(t, own'[t]) /\ own'[t] = [own[t] EXCEPT !.cancel = TRUE] /\ own[t] \in OwnType
      BY <2>1, OwnAt, Typing
    <2>3. own'[t].pc = own[t].pc /\ own'[t].snap = own[t].snap /\ own'[t].err = own[t].err
      BY <2>2 DEF OwnType
    <2> QED
      BY <2>1, <2>2, <2>3, OffFacts, OwnOnly
  <1> QED
    BY <1>1, <1>2

LEMMA KillActiveStep ==
    ASSUME TypeOK, Inv, NEW t \in Tasks, KillActive(t)
    PROVE  TypeOK' /\ Inv'
  BY AbortStep DEF KillActive

\* The steps of a kill that goes through the disk: the marker is there before the signal.
LEMMA KillSteps ==
    ASSUME TypeOK, Inv, NEW t \in Tasks, KillRead(t) \/ KillMark(t) \/ KillSignal(t) \/ KillStore(t)
    PROVE  TypeOK' /\ Inv'
  <1>1. /\ task' = task /\ own' = own /\ child' = child /\ granted' = granted /\ troubles' = troubles
        /\ kill[t] # "idle" \/ disk[t] # "none"
    BY DEF KillRead, KillMark, KillSignal, KillStore
  <1>2. /\ kill' \in [Tasks -> KillType] /\ \A q \in Tasks : q # t => kill'[q] = kill[q]
    BY Typing DEF KillRead, KillMark, KillSignal, KillStore, KillType
  <1>3. /\ marker' \in [Tasks -> BOOLEAN] /\ (marker[t] => marker'[t])
        /\ \A q \in Tasks : q # t => marker'[q] = marker[q]
    BY Typing DEF KillRead, KillMark, KillSignal, KillStore
  <1>4. /\ disk' \in [Tasks -> Status] /\ disk'[t] \in {disk[t], "aborted"}
        /\ \A q \in Tasks : q # t => disk'[q] = disk[q]
    BY Typing DEF KillRead, KillMark, KillSignal, KillStore, Status, Ended
  <1>5. /\ hit' \subseteq Tasks /\ \A q \in Tasks : q # t /\ q \in hit' => q \in hit
        /\ t \in hit' => t \in hit \/ (child[t] = "alive" /\ kill[t] = "signal")
    BY SignalledFacts, Typing DEF KillRead, KillMark, KillSignal, KillStore
  <1>6. kill'[t] \in {"signal", "store"} => marker'[t]
    BY Typing DEF KillRead, KillMark, KillSignal, KillStore, Inv, Good, Marked
  <1>7. Touches(t)
    BY <1>1, <1>2, <1>3, <1>4, <1>5, Typing DEF Touches
  <1>8. Good(t) /\ task[t].root \in Tasks
    BY <1>1, RootedOwner DEF Inv
  <1>9. Placed(t)'
    BY <1>1, <1>4, <1>8 DEF Good, Placed
  <1>10. own[t].err => child[t] = "bad"
    BY <1>8 DEF Good, Placed
  <1>11. child[t] = "alive" => own[t].pc # "write" /\ disk[t] \notin {"completed", "failed"}
    BY <1>8 DEF Good, Placed
  <1>12. Marked(t)'
    BY <1>1, <1>3, <1>4, <1>5, <1>6, <1>8, <1>10, <1>11 DEF Good, Marked
  <1> QED
    BY <1>1, <1>7, <1>8, <1>9, <1>12, TouchStep

LEMMA RestartStep == TypeOK /\ Inv /\ Restart => TypeOK' /\ Inv'
  <1> SUFFICES ASSUME TypeOK, Inv, Restart PROVE TypeOK' /\ Inv'
    OBVIOUS
  <1>1. /\ own' = [t \in Tasks |-> Off] /\ kill' = [t \in Tasks |-> "idle"]
        /\ task' = task /\ disk' = disk /\ marker' = marker /\ child' = child
        /\ granted' = granted /\ hit' = hit /\ troubles' \in 0..MaxTroubles
    BY Troubled DEF Restart
  <1>2. own' \in [Tasks -> OwnType] /\ kill' \in [Tasks -> KillType]
    BY <1>1, OffFacts DEF KillType
  <1>3. ASSUME NEW t \in Tasks PROVE Good(t)'
    <2>1. Good(t) /\ own'[t] = Off /\ kill'[t] = "idle"
      BY <1>1 DEF Inv
    <2>2. Judged(t)' /\ Rooted(t)'
      BY <1>1, <2>1 DEF Good, Judged, Rooted
    <2>3. Placed(t)' /\ Marked(t)'
      BY <1>1, <2>1, OffFacts DEF Good, Placed, Marked
    <2> QED
      BY <2>2, <2>3 DEF Good
  <1> QED
    BY <1>1, <1>2, <1>3, Typing, TypingBack DEF Inv

-----------------------------------------------------------------------------
(* The theorems *)

LEMMA InvInit == Init => TypeOK /\ Inv
  <1> SUFFICES ASSUME Init PROVE TypeOK /\ Inv
    OBVIOUS
  <1>1. /\ task = [t \in Tasks |-> Unused] /\ own = [t \in Tasks |-> Off]
        /\ disk = [t \in Tasks |-> "none"] /\ marker = [t \in Tasks |-> FALSE]
        /\ child = [t \in Tasks |-> "none"] /\ kill = [t \in Tasks |-> "idle"]
        /\ granted = {} /\ hit = {} /\ troubles = 0
    BY DEF Init
  <1>2. /\ task \in [Tasks -> TaskType] /\ own \in [Tasks -> OwnType] /\ disk \in [Tasks -> Status]
        /\ marker \in [Tasks -> BOOLEAN] /\ child \in [Tasks -> ChildType] /\ kill \in [Tasks -> KillType]
    BY <1>1, OffFacts DEF Status, ChildType, KillType
  <1>3. TypeOK
    BY <1>1, <1>2, TasksAssumption DEF TypeOK, TaskType, Texts, OwnType, ChildType, KillType
  <1>4. ASSUME NEW t \in Tasks PROVE Good(t)
    BY <1>1, OffFacts DEF Good, Judged, Placed, Marked, Rooted
  <1> QED
    BY <1>3, <1>4 DEF Inv

LEMMA InvStep == TypeOK /\ Inv /\ [Next]_vars => TypeOK' /\ Inv'
  <1> SUFFICES ASSUME TypeOK, Inv, [Next]_vars PROVE TypeOK' /\ Inv'
    OBVIOUS
  <1>1. ASSUME NEW t \in Tasks, Start(t) \/ StartAborted(t) PROVE TypeOK' /\ Inv'
    BY <1>1, StartStep, StartAbortedStep
  <1>2. ASSUME NEW t \in Tasks, NEW q \in Tasks, Approve(q, t) \/ Retry(q, t) PROVE TypeOK' /\ Inv'
    BY <1>2, AgainStep
  <1>3. ASSUME NEW t \in Tasks, Own(t) PROVE TypeOK' /\ Inv'
    BY <1>3, RefuseStep, SpawnStep, WatchStep, WriteSnapshotStep, DrainStep, ReadPersistedStep,
       DecideStep, SettleStep DEF Own
  <1>4. ASSUME NEW t \in Tasks,
               \/ WatchFails(t) \/ Output(t) \/ Close(t) \/ SpawnError(t)
               \/ Timeout(t) \/ Grace(t) \/ Cancel(t)
        PROVE  TypeOK' /\ Inv'
    BY <1>4, WatchFailsStep, OutputStep, CloseStep, SpawnErrorStep, TimeoutStep, GraceStep, CancelStep
  <1>5. ASSUME NEW t \in Tasks,
               KillActive(t) \/ KillRead(t) \/ KillMark(t) \/ KillSignal(t) \/ KillStore(t)
        PROVE  TypeOK' /\ Inv'
    BY <1>5, KillActiveStep, KillSteps
  <1>6. ASSUME UNCHANGED vars PROVE TypeOK' /\ Inv'
    <2>1. /\ task' = task /\ own' = own /\ disk' = disk /\ marker' = marker /\ child' = child
          /\ kill' = kill /\ granted' = granted /\ hit' = hit /\ troubles' = troubles
      BY <1>6 DEF vars
    <2>2. ASSUME NEW t \in Tasks PROVE Good(t)'
      BY <2>1 DEF Inv, Good, Judged, Placed, Marked, Rooted
    <2> QED
      BY <2>1, <2>2, Typing, TypingBack DEF Inv
  <1> QED
    BY <1>1, <1>2, <1>3, <1>4, <1>5, <1>6, RestartStep DEF Next

\* Every variable of the execution tasks keeps its type.
THEOREM TypeCorrect == Spec => []TypeOK
  BY InvInit, InvStep, PTL DEF Spec

\* Whatever form and whichever policy a retry gives a command that wants approval, it is not spawned
\* unless somebody approved the chain of retries it is in.
THEOREM NothingRunsUnapproved == Spec => []NoSpawnUnapproved
  <1>1. Inv => NoSpawnUnapproved
    BY DEF Inv, Good, Judged, NoSpawnUnapproved
  <1> QED
    BY <1>1, InvInit, InvStep, PTL DEF Spec

\* A task whose command a kill or an abort reached while it ran never has a record that says
\* it completed or failed.
THEOREM KillsAreRecorded == Spec => []KilledIsRecorded
  <1>1. TypeOK /\ Inv => KilledIsRecorded
    BY Typing DEF Inv, Good, Marked, KilledIsRecorded
  <1> QED
    BY <1>1, InvInit, InvStep, PTL DEF Spec

\* What was spawned has no denied executable and no destructive sub-command in any of its parts.
NoSpawnDenied ==
    \A t \in Tasks : child[t] # "none" =>
        \A i \in 1..Len(task[t].cmd.segments) : ~DeniedOrDangerous(task[t].cmd.segments[i])

\* A command the static rules refuse is never spawned, whoever approves or retries it and whichever
\* policy judges it.
THEOREM NothingDeniedRuns == Spec => []NoSpawnDenied
  <1>1. Inv => NoSpawnDenied
    BY DEF Inv, Good, Judged, Unrefused, NoSpawnDenied
  <1> QED
    BY <1>1, InvInit, InvStep, PTL DEF Spec

=============================================================================
