------------------------ MODULE ExecutionOutboxProofs ------------------------
(***************************************************************************)
(* Proofs about the durable start of a workflow, for every set of requests *)
(* and keys, every number of drain loops and attempts, and every number of *)
(* crashes, failing writes and expired leases.                             *)
(***************************************************************************)
EXTENDS ExecutionOutbox, TLAPS

Locks == {"none", "fresh", "stale"}
CallType == [pc : CallPc, thread : Requests \cup {NoThread}]
OutboxType == [status : OutboxStatus, attempts : Nat, lock : Locks]
DrainType == [pc : DrainPc, ev : Requests \cup {NoThread}, count : Nat, result : RunStatus,
              caught : BOOLEAN]
RecType == [pc : RecPc, by : SUBSET Drains, todo : SUBSET Requests, cur : Requests \cup {NoThread},
            status : RunStatus, known : SUBSET Requests]

-----------------------------------------------------------------------------
(* The inductive invariant *)

\* Before a call has created its run there is none; later there is one.
Early == {"idle", "lookup", "run"}
Late == {"attempt", "store", "turn", "queue"}

CallOK(r) ==
    /\ call[r].pc \in Early => run[r] = "none"
    /\ call[r].pc \in Late => run[r] # "none"
    /\ call[r].pc = "returned" =>
         /\ call[r].thread \in Requests /\ run[call[r].thread] # "none"
         /\ call[r].thread = r \/ SameTurn(r, call[r].thread)

CallInv == \A r \in Requests : CallOK(r) /\ (outbox[r].status # "none" => run[r] # "none")

\* The unique index: a turn has at most one run.
OneRun == \A r, q \in Requests : SameTurn(r, q) /\ run[r] # "none" /\ run[q] # "none" => r = q

\* A drain loop works on a run that exists; it completes an event when the run has left "running".
DrainOK(d) ==
    /\ drain[d].pc \notin {"off", "claim"} => drain[d].ev \in Requests /\ run[drain[d].ev] # "none"
    /\ drain[d].pc \in {"persist", "run", "attempt", "turn"} =>
         drain[d].result \in {"completed", "error", "awaiting_human"}
    /\ drain[d].pc \in {"attempt", "turn"} => run[drain[d].ev] # "running"
    /\ drain[d].pc = "complete" => run[drain[d].ev] # "running" \/ drain[d].ev \in unsaved

DrainInv == \A d \in Drains : DrainOK(d)

\* The runs a long outage found running and the recovery of this boot has still to settle.
Open == {r \in rec.known : run[r] = "running"}

RecInv ==
    /\ \A r \in rec.known : run[r] # "none"
    /\ rec.pc \in {"pick", "store", "run", "turn"} => \A r \in rec.todo : run[r] # "none"
    /\ rec.pc \in {"store", "run", "turn"} =>
         rec.cur \in Requests /\ run[rec.cur] # "none" /\ rec.status \in Terminal
    /\ rec.pc \in {"pick", "turn"} => Open \subseteq rec.todo
    /\ rec.pc \in {"store", "run"} => Open \subseteq rec.todo \cup {rec.cur}
    /\ rec.pc \in {"legacy", "done"} => Open = {}

Inv == CallInv /\ OneRun /\ DrainInv /\ RecInv /\ ProcessedIsSettled

-----------------------------------------------------------------------------
(* What the steps leave alone *)

\* No run is created, and none is made running.
NoNewRun ==
    \A r \in Requests : (run'[r] = "none" <=> run[r] = "none") /\ (run'[r] = "running" => run[r] = "running")

LEMMA SameRuns == run' = run => NoNewRun
  BY DEF NoNewRun

LEMMA SetRun ==
    ASSUME run \in [Requests -> RunStatus], NEW r \in Requests, run[r] # "none",
           NEW status \in {"completed", "error", "awaiting_human"},
           run' = [run EXCEPT ![r] = status]
    PROVE  NoNewRun /\ run' \in [Requests -> RunStatus] /\ run'[r] = status
  BY DEF NoNewRun, RunStatus, Terminal

LEMMA CallsKept ==
    ASSUME CallInv, NoNewRun, call \in [Requests -> CallType], call' = call,
           \A r \in Requests : outbox'[r].status # "none" => outbox[r].status # "none"
    PROVE  CallInv'
  BY DEF CallInv, CallOK, NoNewRun, SameTurn

LEMMA OneRunKept == OneRun /\ NoNewRun => OneRun'
  BY DEF OneRun, NoNewRun, SameTurn

LEMMA DrainKept ==
    ASSUME NEW d \in Drains, DrainOK(d), NoNewRun, drain'[d] = drain[d], unsaved \subseteq unsaved'
    PROVE  DrainOK(d)'
  BY DEF DrainOK, NoNewRun

LEMMA DrainsKept ==
    ASSUME DrainInv, NoNewRun, drain' = drain, unsaved \subseteq unsaved'
    PROVE  DrainInv'
  BY DrainKept DEF DrainInv

LEMMA RecKept ==
    ASSUME RecInv, NoNewRun, rec' = rec, rec \in RecType
    PROVE  RecInv'
  <1>1. rec.todo \subseteq Requests /\ rec.known \subseteq Requests
    BY DEF RecType
  <1>2. Open' \subseteq Open
    BY <1>1 DEF Open, NoNewRun
  <1> QED
    BY <1>1, <1>2 DEF RecInv, NoNewRun

LEMMA ProcessedKept ==
    ASSUME ProcessedIsSettled, NoNewRun, unsaved \subseteq unsaved',
           \A r \in Requests : outbox'[r].status = "processed" => outbox[r].status = "processed"
    PROVE  ProcessedIsSettled'
  BY DEF ProcessedIsSettled, NoNewRun

-----------------------------------------------------------------------------
(* What the steps do to the records *)

CallMoves(r, pc, thread) ==
    /\ call' \in [Requests -> CallType]
    /\ call'[r].pc = pc /\ call'[r].thread = thread
    /\ \A q \in Requests : q # r => call'[q] = call[q]

DrainMoves(d, pc, ev, result, caught) ==
    /\ drain' \in [Drains -> DrainType]
    /\ drain'[d].pc = pc /\ drain'[d].ev = ev /\ drain'[d].result = result /\ drain'[d].caught = caught
    /\ \A e \in Drains : e # d => drain'[e] = drain[e]

OutboxMoves(r, status, lock) ==
    /\ outbox' \in [Requests -> OutboxType]
    /\ outbox'[r].status = status /\ outbox'[r].lock = lock
    /\ \A q \in Requests : q # r => outbox'[q] = outbox[q]

LEMMA Typing == TypeOK =>
    /\ turn \in [Keys -> TurnStatus] /\ run \in [Requests -> RunStatus]
    /\ attempt \in [Requests -> {"none", "running", "completed", "failed"}]
    /\ stored \in [Requests -> RunStatus] /\ outbox \in [Requests -> OutboxType]
    /\ call \in [Requests -> CallType] /\ drain \in [Drains -> DrainType] /\ rec \in RecType
    /\ unsaved \subseteq Requests /\ troubles \in 0..MaxTroubles
  BY DEF TypeOK, OutboxType, CallType, DrainType, RecType, Locks

LEMMA TypingBack ==
    ASSUME turn' \in [Keys -> TurnStatus], run' \in [Requests -> RunStatus],
           attempt' \in [Requests -> {"none", "running", "completed", "failed"}],
           stored' \in [Requests -> RunStatus], outbox' \in [Requests -> OutboxType],
           call' \in [Requests -> CallType], drain' \in [Drains -> DrainType], rec' \in RecType,
           unsaved' \subseteq Requests, troubles' \in 0..MaxTroubles
    PROVE  TypeOK'
  BY DEF TypeOK, OutboxType, CallType, DrainType, RecType, Locks

LEMMA Troubled == TypeOK /\ Trouble => troubles' \in 0..MaxTroubles
  BY OutboxAssumption DEF TypeOK, Trouble

LEMMA GotoMoves ==
    ASSUME call \in [Requests -> CallType], NEW r \in Requests, NEW pc \in CallPc, Goto(r, pc)
    PROVE  CallMoves(r, pc, call[r].thread)
  BY DEF Goto, CallMoves, CallType

LEMMA ReturnMoves ==
    ASSUME call \in [Requests -> CallType], NEW r \in Requests, NEW q \in Requests,
           call' = [call EXCEPT ![r] = [pc |-> "returned", thread |-> q]]
    PROVE  CallMoves(r, "returned", q)
  BY DEF CallMoves, CallType, CallPc

LEMMA BrokenCall ==
    ASSUME NEW c \in CallType
    PROVE  /\ Broken(c) \in CallType /\ Broken(c).thread = c.thread
           /\ Broken(c).pc = IF c.pc \in Early THEN "idle" ELSE IF c.pc \in Late THEN "rejected" ELSE c.pc
  <1>1. CASE c.pc \in Early
    BY <1>1 DEF Broken, CallType, CallPc, Early
  <1>2. CASE c.pc \in Late
    BY <1>2 DEF Broken, CallType, CallPc, Early, Late
  <1>3. CASE c.pc \notin Early \cup Late
    BY <1>3 DEF Broken, CallType, CallPc, Early, Late
  <1> QED
    BY <1>1, <1>2, <1>3

LEMMA StepMoves ==
    ASSUME drain \in [Drains -> DrainType], NEW d \in Drains, NEW pc \in DrainPc, Step(d, pc)
    PROVE  DrainMoves(d, pc, drain[d].ev, drain[d].result, drain[d].caught)
  BY DEF Step, DrainMoves, DrainType

LEMMA IdleDrain ==
    /\ Idle \in DrainType /\ Idle.pc = "off"
    /\ Claiming \in DrainType /\ Claiming.pc = "claim"
    /\ Claiming.ev = NoThread /\ Claiming.result = "none" /\ Claiming.caught = FALSE
    /\ Idle.ev = NoThread /\ Idle.result = "none" /\ Idle.caught = FALSE /\ Idle.count = 0
  BY DEF Idle, Claiming, DrainType, DrainPc, RunStatus

LEMMA PutDrain ==
    ASSUME drain \in [Drains -> DrainType], NEW d \in Drains, NEW x \in DrainType,
           drain' = [drain EXCEPT ![d] = x]
    PROVE  DrainMoves(d, x.pc, x.ev, x.result, x.caught)
  BY DEF DrainMoves

LEMMA SlotIsFree ==
    ASSUME \E d \in Drains : drain[d].pc = "off"
    PROVE  FreeSlot \in Drains /\ drain[FreeSlot].pc = "off"
  BY DEF FreeSlot

LEMMA PersistMoves ==
    ASSUME drain \in [Drains -> DrainType], NEW d \in Drains, NEW result \in RunStatus, NEW caught \in BOOLEAN,
           drain' = [drain EXCEPT ![d].pc = "persist", ![d].result = result, ![d].caught = caught]
    PROVE  DrainMoves(d, "persist", drain[d].ev, result, caught)
  <1> DEFINE x == [drain[d] EXCEPT !.pc = "persist", !.result = result, !.caught = caught]
  <1>1. x \in DrainType /\ x.pc = "persist" /\ x.ev = drain[d].ev /\ x.result = result /\ x.caught = caught
    BY DEF DrainType, DrainPc
  <1>2. drain'[d] = x
    OBVIOUS
  <1>3. drain' = [e \in Drains |-> drain'[e]] /\ \A e \in Drains : e # d => drain'[e] = drain[e]
    OBVIOUS
  <1> HIDE DEF x
  <1> QED
    BY <1>1, <1>2, <1>3 DEF DrainMoves

-----------------------------------------------------------------------------
(* The calls of start *)

\* A step of a call that touches neither runs nor events.
LEMMA CallQuiet ==
    ASSUME TypeOK, Inv, NEW r \in Requests, NEW pc, NEW thread, CallMoves(r, pc, thread),
           run' = run, outbox' = outbox, drain' = drain, rec' = rec, unsaved' = unsaved,
           pc \in Early => run[r] = "none",
           pc \in Late => run[r] # "none",
           pc = "returned" => /\ thread \in Requests /\ run[thread] # "none"
                              /\ thread = r \/ SameTurn(r, thread)
    PROVE  Inv'
  <1>1. NoNewRun /\ rec \in RecType
    BY SameRuns, Typing
  <1>2. CallInv'
    BY DEF Inv, CallInv, CallOK, CallMoves, SameTurn
  <1> QED
    BY <1>1, <1>2, OneRunKept, DrainsKept, RecKept, ProcessedKept DEF Inv

LEMMA CallTurnStep ==
    ASSUME TypeOK, Inv, NEW r \in Requests, CallTurn(r)
    PROVE  TypeOK' /\ Inv'
  <1>1. PICK pc \in {"run", "lookup"} : Goto(r, pc) /\ call[r].pc = "idle"
    BY DEF CallTurn, AtCall
  <1>2. CallMoves(r, pc, call[r].thread)
    BY <1>1, Typing, GotoMoves DEF CallPc
  <1>3. turn' \in [Keys -> TurnStatus]
    BY Typing DEF CallTurn, TurnStatus
  <1>4. Inv'
    BY <1>1, <1>2, CallQuiet DEF CallTurn, Inv, CallInv, CallOK, Early, Late
  <1>5. TypeOK'
    BY <1>2, <1>3, Typing, TypingBack DEF CallTurn, CallMoves
  <1> QED
    BY <1>4, <1>5

LEMMA CallLookupStep ==
    ASSUME TypeOK, Inv, NEW r \in Requests, CallLookup(r)
    PROVE  TypeOK' /\ Inv'
  <1>1. call[r].pc = "lookup" /\ run[r] = "none"
    BY DEF CallLookup, AtCall, Inv, CallInv, CallOK, Early
  <1>2. CASE Goto(r, "run")
    <2>1. CallMoves(r, "run", call[r].thread)
      BY <1>2, Typing, GotoMoves DEF CallPc
    <2>2. Inv'
      BY <1>1, <2>1, CallQuiet DEF CallLookup, ledgerVars, Early, Late
    <2> QED
      BY <2>1, <2>2, Typing, TypingBack DEF CallLookup, ledgerVars, CallMoves
  <1>3. ASSUME NEW q \in Requests, SameTurn(r, q), run[q] # "none",
               call' = [call EXCEPT ![r] = [pc |-> "returned", thread |-> q]]
        PROVE  TypeOK' /\ Inv'
    <2>1. CallMoves(r, "returned", q)
      BY <1>3, Typing, ReturnMoves
    <2>2. Inv'
      BY <1>3, <2>1, CallQuiet DEF CallLookup, ledgerVars, Early, Late
    <2> QED
      BY <2>1, <2>2, Typing, TypingBack DEF CallLookup, ledgerVars, CallMoves
  <1> QED
    BY <1>2, <1>3 DEF CallLookup

LEMMA CallRunStep ==
    ASSUME TypeOK, Inv, NEW r \in Requests, CallRun(r)
    PROVE  TypeOK' /\ Inv'
  <1>1. /\ call[r].pc = "run" /\ run[r] = "none" /\ outbox[r].status = "none"
        /\ turn' = turn /\ attempt' = attempt /\ stored' = stored /\ outbox' = outbox /\ drain' = drain
        /\ rec' = rec /\ unsaved' = unsaved /\ troubles' = troubles
    BY DEF CallRun, AtCall, Inv, CallInv, CallOK, Early
  <1>2. CASE \E q \in Requests : SameTurn(r, q) /\ run[q] # "none"
    <2>1. CallMoves(r, "rejected", call[r].thread) /\ run' = run
      BY <1>2, Typing, GotoMoves DEF CallRun, CallPc
    <2>2. Inv'
      BY <1>1, <2>1, CallQuiet DEF Early, Late
    <2> QED
      BY <1>1, <2>1, <2>2, Typing, TypingBack DEF CallMoves
  <1>3. CASE ~ \E q \in Requests : SameTurn(r, q) /\ run[q] # "none"
    <2>1. CallMoves(r, "attempt", call[r].thread) /\ run' = [run EXCEPT ![r] = "running"]
      BY <1>3, Typing, GotoMoves DEF CallRun, CallPc
    <2>2. /\ run' \in [Requests -> RunStatus] /\ run'[r] = "running"
          /\ \A q \in Requests : q # r => run'[q] = run[q]
      BY <2>1, Typing DEF RunStatus
    <2>3. CallInv'
      BY <1>1, <2>1, <2>2 DEF Inv, CallInv, CallOK, CallMoves, SameTurn, Early, Late
    <2>4. OneRun'
      BY <1>3, <2>2 DEF Inv, OneRun, SameTurn
    <2>5. DrainInv'
      BY <1>1, <2>2 DEF Inv, DrainInv, DrainOK
    <2>6. RecInv'
      <3>1. rec.todo \subseteq Requests /\ rec.known \subseteq Requests
        BY Typing DEF RecType
      <3>2. r \notin rec.known
        BY <1>1 DEF Inv, RecInv
      <3>3. Open' = Open
        BY <1>1, <2>2, <3>1, <3>2 DEF Open
      <3> QED
        BY <1>1, <2>2, <3>1, <3>3 DEF Inv, RecInv
    <2>7. ProcessedIsSettled'
      BY <1>1, <2>2 DEF Inv, ProcessedIsSettled
    <2>8. TypeOK'
      BY <1>1, <2>1, <2>2, Typing, TypingBack DEF CallMoves
    <2> QED
      BY <2>3, <2>4, <2>5, <2>6, <2>7, <2>8 DEF Inv
  <1> QED
    BY <1>2, <1>3

LEMMA CallLateStep ==
    ASSUME TypeOK, Inv, NEW r \in Requests, CallAttempt(r) \/ CallStore(r) \/ CallTurnRunning(r)
    PROVE  TypeOK' /\ Inv'
  <1>1. PICK pc \in {"store", "turn", "queue"} : Goto(r, pc)
    BY DEF CallAttempt, CallStore, CallTurnRunning
  <1>2. CallMoves(r, pc, call[r].thread)
    BY <1>1, Typing, GotoMoves DEF CallPc
  <1>3. call[r].pc \in Late /\ run[r] # "none"
    BY DEF CallAttempt, CallStore, CallTurnRunning, AtCall, Late, Inv, CallInv, CallOK
  <1>4. /\ run' = run /\ outbox' = outbox /\ drain' = drain /\ rec' = rec /\ unsaved' = unsaved
        /\ troubles' = troubles
    BY DEF CallAttempt, CallStore, CallTurnRunning, ledgerVars
  <1>5. /\ turn' \in [Keys -> TurnStatus] /\ stored' \in [Requests -> RunStatus]
        /\ attempt' \in [Requests -> {"none", "running", "completed", "failed"}]
    BY Typing DEF CallAttempt, CallStore, CallTurnRunning, ledgerVars, TurnStatus, RunStatus
  <1>6. Inv'
    BY <1>2, <1>3, <1>4, CallQuiet DEF Early
  <1>7. TypeOK'
    BY <1>2, <1>4, <1>5, Typing, TypingBack DEF CallMoves
  <1> QED
    BY <1>6, <1>7

LEMMA CallQueueStep ==
    ASSUME TypeOK, Inv, NEW r \in Requests, CallQueue(r)
    PROVE  TypeOK' /\ Inv'
  <1>1. /\ call[r].pc = "queue" /\ run[r] # "none"
        /\ outbox' = [outbox EXCEPT ![r].status = "pending"]
        /\ turn' = turn /\ run' = run /\ attempt' = attempt /\ stored' = stored
        /\ rec' = rec /\ unsaved' = unsaved /\ troubles' = troubles
    BY DEF CallQueue, AtCall, Inv, CallInv, CallOK, Late
  <1>2. CallMoves(r, "returned", r)
    BY Typing, ReturnMoves DEF CallQueue
  <1>3. OutboxMoves(r, "pending", outbox[r].lock)
    BY <1>1, Typing DEF OutboxMoves, OutboxType, OutboxStatus
  <1>4. FreeSlot \in Drains /\ drain[FreeSlot].pc = "off"
    BY SlotIsFree DEF CallQueue
  <1>5. DrainMoves(FreeSlot, "claim", NoThread, "none", FALSE)
    BY <1>4, Typing, IdleDrain, PutDrain DEF CallQueue
  <1>6. NoNewRun /\ rec \in RecType
    BY <1>1, SameRuns, Typing
  <1>7. CallInv'
    BY <1>1, <1>2, <1>3 DEF Inv, CallInv, CallOK, CallMoves, OutboxMoves, SameTurn, Early, Late
  <1>8. DrainInv'
    BY <1>1, <1>4, <1>5, <1>6, DrainKept DEF Inv, DrainInv, DrainOK, DrainMoves
  <1>9. ProcessedIsSettled'
    BY <1>1, <1>3, <1>6, ProcessedKept DEF Inv, OutboxMoves
  <1>10. TypeOK'
    BY <1>1, <1>2, <1>3, <1>5, Typing, TypingBack DEF CallMoves, OutboxMoves, DrainMoves
  <1> QED
    BY <1>1, <1>6, <1>7, <1>8, <1>9, <1>10, OneRunKept, RecKept DEF Inv

LEMMA CallFailsStep ==
    ASSUME TypeOK, Inv, NEW r \in Requests, CallFails(r)
    PROVE  TypeOK' /\ Inv'
  <1>1. /\ call' = [call EXCEPT ![r] = Broken(call[r])] /\ call[r].pc \in (Early \cup Late) \ {"idle"}
        /\ turn' = turn /\ run' = run /\ attempt' = attempt /\ outbox' = outbox /\ stored' = stored
        /\ drain' = drain /\ rec' = rec /\ unsaved' = unsaved /\ troubles' \in 0..MaxTroubles
    BY Typing, Troubled DEF CallFails, ledgerVars, CallType, CallPc, Early, Late
  <1>2. Broken(call[r]) \in CallType /\ Broken(call[r]).pc = IF call[r].pc \in Early THEN "idle" ELSE "rejected"
    BY <1>1, Typing, BrokenCall
  <1>3. CallMoves(r, Broken(call[r]).pc, Broken(call[r]).thread)
    BY <1>1, <1>2, Typing DEF CallMoves
  <1>4. call[r].pc \in Early => run[r] = "none"
    BY DEF Inv, CallInv, CallOK
  <1>5. Inv'
    BY <1>1, <1>2, <1>3, <1>4, CallQuiet DEF Early, Late
  <1>6. TypeOK'
    BY <1>1, <1>3, Typing, TypingBack DEF CallMoves
  <1> QED
    BY <1>5, <1>6

-----------------------------------------------------------------------------
(* The drain loops *)

\* A step of a drain loop that creates no run, queues no event and processes none.
LEMMA DrainQuiet ==
    ASSUME TypeOK, Inv, NEW d \in Drains, NEW pc, NEW ev, NEW result, NEW caught,
           DrainMoves(d, pc, ev, result, caught), DrainOK(d)',
           NoNewRun, call' = call, rec' = rec, unsaved \subseteq unsaved',
           \A r \in Requests : outbox'[r].status \in {"none", "processed"} => outbox'[r].status = outbox[r].status,
           \A r \in Requests : outbox[r].status = "none" => outbox'[r].status = "none"
    PROVE  Inv'
  <1>1. CallInv'
    BY CallsKept, Typing DEF Inv
  <1>2. DrainInv'
    BY DrainKept DEF Inv, DrainInv, DrainMoves
  <1>3. ProcessedIsSettled'
    BY ProcessedKept DEF Inv
  <1> QED
    BY <1>1, <1>2, <1>3, OneRunKept, RecKept, Typing DEF Inv

LEMMA StartDrainStep == TypeOK /\ Inv /\ StartDrain => TypeOK' /\ Inv'
  <1> SUFFICES ASSUME TypeOK, Inv, StartDrain PROVE TypeOK' /\ Inv'
    OBVIOUS
  <1>1. PICK slot \in Drains : drain' = [drain EXCEPT ![slot] = Claiming]
    BY SlotIsFree DEF StartDrain
  <1>2. DrainMoves(slot, "claim", NoThread, "none", FALSE)
    BY <1>1, Typing, IdleDrain, PutDrain
  <1>3. /\ turn' = turn /\ run' = run /\ attempt' = attempt /\ outbox' = outbox /\ stored' = stored
        /\ call' = call /\ rec' = rec /\ unsaved' = unsaved /\ troubles' = troubles
    BY DEF StartDrain, ledgerVars
  <1>4. DrainOK(slot)'
    BY <1>1, <1>2 DEF DrainOK, DrainMoves
  <1>5. Inv'
    BY <1>1, <1>2, <1>3, <1>4, SameRuns, DrainQuiet
  <1> QED
    BY <1>2, <1>3, <1>5, Typing, TypingBack DEF DrainMoves

LEMMA ClaimStep ==
    ASSUME TypeOK, Inv, NEW d \in Drains, Claim(d)
    PROVE  TypeOK' /\ Inv'
  <1>1. PICK r \in Requests :
          /\ Claimable(r)
          /\ outbox' = [outbox EXCEPT ![r] = [status |-> "processing", attempts |-> @.attempts + 1,
                                              lock |-> "fresh"]]
          /\ drain' = [drain EXCEPT ![d] = [Idle EXCEPT !.pc = "check", !.ev = r,
                                                        !.count = outbox[r].attempts + 1]]
    BY DEF Claim
  <1>2. /\ turn' = turn /\ run' = run /\ attempt' = attempt /\ stored' = stored
        /\ call' = call /\ rec' = rec /\ unsaved' = unsaved /\ troubles' = troubles
    BY DEF Claim
  <1>3. outbox[r].attempts + 1 \in Nat
    BY Typing DEF OutboxType
  <1>4. OutboxMoves(r, "processing", "fresh")
    BY <1>1, <1>3, Typing DEF OutboxMoves, OutboxType, OutboxStatus, Locks
  <1>5. DrainMoves(d, "check", r, "none", FALSE)
    <2> DEFINE x == [Idle EXCEPT !.pc = "check", !.ev = r, !.count = outbox[r].attempts + 1]
    <2>1. x \in DrainType /\ x.pc = "check" /\ x.ev = r /\ x.result = "none" /\ x.caught = FALSE
      BY <1>3 DEF Idle, DrainType, DrainPc, RunStatus
    <2> HIDE DEF x
    <2>2. drain' = [drain EXCEPT ![d] = x]
      BY <1>1 DEF x
    <2> QED
      BY <2>1, <2>2, Typing, PutDrain
  <1>6. outbox[r].status # "none" /\ run[r] # "none"
    BY <1>1 DEF Claimable, Inv, CallInv
  <1>7. DrainOK(d)'
    BY <1>2, <1>5, <1>6 DEF DrainOK, DrainMoves
  <1>8. Inv'
    BY <1>2, <1>4, <1>5, <1>6, <1>7, SameRuns, DrainQuiet DEF OutboxMoves
  <1> QED
    BY <1>2, <1>4, <1>5, <1>8, Typing, TypingBack DEF DrainMoves, OutboxMoves

LEMMA DrainDoneStep ==
    ASSUME TypeOK, Inv, NEW d \in Drains, DrainDone(d)
    PROVE  TypeOK' /\ Inv'
  <1>1. /\ turn' = turn /\ run' = run /\ attempt' = attempt /\ outbox' = outbox /\ stored' = stored
        /\ call' = call /\ unsaved' = unsaved /\ troubles' = troubles
    BY DEF DrainDone, ledgerVars
  <1>2. DrainMoves(d, "off", NoThread, "none", FALSE)
    BY Typing, IdleDrain, PutDrain DEF DrainDone
  <1>3. NoNewRun
    BY <1>1, SameRuns
  <1>4. DrainInv'
    BY <1>1, <1>2, <1>3, DrainKept DEF Inv, DrainInv, DrainOK, DrainMoves
  <1>5. RecInv' /\ rec' \in RecType
    <2>1. CASE rec' = rec
      BY <1>3, <2>1, RecKept, Typing DEF Inv
    <2>2. CASE rec' = [rec EXCEPT !.pc = "list", !.by = {}]
      <3>1. rec' \in RecType /\ rec'.pc = "list" /\ rec'.known = rec.known
        BY <2>2, Typing DEF RecType, RecPc
      <3> QED
        BY <1>1, <3>1 DEF Inv, RecInv
    <2> QED
      BY <2>1, <2>2 DEF DrainDone
  <1>6. Inv'
    BY <1>1, <1>3, <1>4, <1>5, CallsKept, OneRunKept, ProcessedKept, Typing DEF Inv
  <1> QED
    BY <1>1, <1>2, <1>5, <1>6, Typing, TypingBack DEF DrainMoves

LEMMA CheckStep ==
    ASSUME TypeOK, Inv, NEW d \in Drains, Check(d)
    PROVE  TypeOK' /\ Inv'
  <1>1. /\ turn' = turn /\ run' = run /\ attempt' = attempt /\ outbox' = outbox /\ stored' = stored
        /\ call' = call /\ unsaved' = unsaved /\ troubles' = troubles /\ drain[d].pc = "check"
    BY DEF Check, ledgerVars, At
  <1>2. NoNewRun /\ drain[d].ev \in Requests /\ run[drain[d].ev] # "none"
    BY <1>1, SameRuns DEF Inv, DrainInv, DrainOK
  <1>3. CASE run[drain[d].ev] \in Terminal
    <2>1. DrainMoves(d, "complete", drain[d].ev, drain[d].result, drain[d].caught) /\ rec' = rec
      BY <1>3, Typing, StepMoves DEF Check, DrainPc
    <2>2. DrainOK(d)'
      BY <1>1, <1>2, <1>3, <2>1 DEF DrainOK, DrainMoves, Terminal
    <2>3. Inv'
      BY <1>1, <1>2, <2>1, <2>2, DrainQuiet
    <2> QED
      BY <1>1, <2>1, <2>3, Typing, TypingBack DEF DrainMoves
  <1>4. CASE run[drain[d].ev] \notin Terminal
    <2>1. DrainMoves(d, "graph", drain[d].ev, drain[d].result, drain[d].caught)
      BY <1>4, Typing, StepMoves DEF Check, DrainPc
    <2>2. /\ rec' = [rec EXCEPT !.known = @ \ {drain[d].ev}] /\ rec' \in RecType
          /\ rec'.known \subseteq rec.known /\ rec'.pc = rec.pc /\ rec'.todo = rec.todo
          /\ rec'.cur = rec.cur /\ rec'.status = rec.status
      BY <1>4, Typing DEF Check, RecType
    <2>3. Open' \subseteq Open
      BY <1>1, <2>2 DEF Open
    <2>4. RecInv'
      BY <1>1, <2>2, <2>3 DEF Inv, RecInv
    <2>5. DrainInv'
      BY <1>1, <1>2, <2>1, DrainKept DEF Inv, DrainInv, DrainOK, DrainMoves
    <2>6. Inv'
      BY <1>1, <1>2, <2>4, <2>5, CallsKept, OneRunKept, ProcessedKept, Typing DEF Inv
    <2> QED
      BY <1>1, <2>1, <2>2, <2>6, Typing, TypingBack DEF DrainMoves
  <1> QED
    BY <1>3, <1>4

LEMMA GraphEndsStep ==
    ASSUME TypeOK, Inv, NEW d \in Drains, GraphEnds(d)
    PROVE  TypeOK' /\ Inv'
  <1>1. PICK result \in {"completed", "error", "awaiting_human"}, caught \in BOOLEAN :
          drain' = [drain EXCEPT ![d].pc = "persist", ![d].result = result, ![d].caught = caught]
    BY DEF GraphEnds
  <1>2. DrainMoves(d, "persist", drain[d].ev, result, caught)
    BY <1>1, Typing, PersistMoves DEF RunStatus, Terminal
  <1>3. /\ turn' = turn /\ run' = run /\ attempt' = attempt /\ outbox' = outbox /\ stored' = stored
        /\ call' = call /\ rec' = rec /\ unsaved' = unsaved /\ troubles' = troubles /\ drain[d].pc = "graph"
    BY DEF GraphEnds, ledgerVars, At
  <1>4. DrainOK(d)'
    BY <1>2, <1>3 DEF Inv, DrainInv, DrainOK, DrainMoves
  <1>5. Inv'
    BY <1>2, <1>3, <1>4, SameRuns, DrainQuiet
  <1> QED
    BY <1>2, <1>3, <1>5, Typing, TypingBack DEF DrainMoves

\* The steps that write no run and no event: the state, the attempt, the turn, and the failures.
LEMMA PersistStep ==
    ASSUME TypeOK, Inv, NEW d \in Drains, Persist(d) \/ PersistFails(d)
    PROVE  TypeOK' /\ Inv'
  <1>1. /\ turn' = turn /\ run' = run /\ attempt' = attempt /\ outbox' = outbox
        /\ call' = call /\ rec' = rec /\ drain[d].pc = "persist" /\ troubles' \in 0..MaxTroubles
    BY Typing, Troubled DEF Persist, PersistFails, ledgerVars, At
  <1>2. /\ drain[d].ev \in Requests /\ run[drain[d].ev] # "none"
        /\ drain[d].result \in {"completed", "error", "awaiting_human"}
    BY <1>1 DEF Inv, DrainInv, DrainOK
  <1>3. PICK pc \in {"run", "complete"} :
          /\ Step(d, pc) /\ unsaved \subseteq unsaved' /\ unsaved' \subseteq Requests
          /\ pc = "complete" => drain[d].ev \in unsaved'
    BY <1>2, Typing DEF Persist, PersistFails
  <1>4. DrainMoves(d, pc, drain[d].ev, drain[d].result, drain[d].caught)
    BY <1>3, Typing, StepMoves DEF DrainPc
  <1>5. stored' \in [Requests -> RunStatus]
    BY <1>2, Typing DEF Persist, PersistFails, RunStatus, Terminal
  <1>6. DrainOK(d)'
    BY <1>1, <1>2, <1>3, <1>4 DEF DrainOK, DrainMoves
  <1>7. Inv'
    BY <1>1, <1>3, <1>4, <1>6, SameRuns, DrainQuiet
  <1> QED
    BY <1>1, <1>3, <1>4, <1>5, <1>7, Typing, TypingBack DEF DrainMoves

LEMMA UpdateRunStep ==
    ASSUME TypeOK, Inv, NEW d \in Drains, UpdateRun(d)
    PROVE  TypeOK' /\ Inv'
  <1>1. /\ turn' = turn /\ attempt' = attempt /\ outbox' = outbox /\ stored' = stored /\ call' = call
        /\ rec' = rec /\ unsaved' = unsaved /\ troubles' = troubles /\ drain[d].pc = "run"
    BY DEF UpdateRun, At
  <1>2. /\ drain[d].ev \in Requests /\ run[drain[d].ev] # "none"
        /\ drain[d].result \in {"completed", "error", "awaiting_human"}
    BY <1>1 DEF Inv, DrainInv, DrainOK
  <1>3. NoNewRun /\ run' \in [Requests -> RunStatus] /\ run'[drain[d].ev] = drain[d].result
    BY <1>2, Typing, SetRun DEF UpdateRun
  <1>4. DrainMoves(d, "attempt", drain[d].ev, drain[d].result, drain[d].caught)
    BY Typing, StepMoves DEF UpdateRun, DrainPc
  <1>5. DrainOK(d)'
    BY <1>2, <1>3, <1>4 DEF DrainOK, DrainMoves
  <1>6. Inv'
    BY <1>1, <1>3, <1>4, <1>5, DrainQuiet
  <1> QED
    BY <1>1, <1>3, <1>4, <1>6, Typing, TypingBack DEF DrainMoves

LEMMA UpdateOthersStep ==
    ASSUME TypeOK, Inv, NEW d \in Drains, UpdateAttempt(d) \/ UpdateTurn(d)
    PROVE  TypeOK' /\ Inv'
  <1>1. /\ run' = run /\ outbox' = outbox /\ stored' = stored /\ call' = call
        /\ rec' = rec /\ unsaved' = unsaved /\ troubles' = troubles /\ drain[d].pc \in {"attempt", "turn"}
    BY DEF UpdateAttempt, UpdateTurn, At
  <1>2. /\ drain[d].ev \in Requests /\ run[drain[d].ev] \notin {"none", "running"}
        /\ drain[d].result \in {"completed", "error", "awaiting_human"}
    BY <1>1 DEF Inv, DrainInv, DrainOK
  <1>3. PICK pc \in {"turn", "complete"} : Step(d, pc)
    BY DEF UpdateAttempt, UpdateTurn
  <1>4. DrainMoves(d, pc, drain[d].ev, drain[d].result, drain[d].caught)
    BY <1>3, Typing, StepMoves DEF DrainPc
  <1>5. /\ turn' \in [Keys -> TurnStatus]
        /\ attempt' \in [Requests -> {"none", "running", "completed", "failed"}]
    BY <1>2, Typing DEF UpdateAttempt, UpdateTurn, TurnOf, TurnStatus
  <1>6. DrainOK(d)'
    BY <1>1, <1>2, <1>3, <1>4 DEF DrainOK, DrainMoves
  <1>7. Inv'
    BY <1>1, <1>4, <1>6, SameRuns, DrainQuiet
  <1> QED
    BY <1>1, <1>4, <1>5, <1>7, Typing, TypingBack DEF DrainMoves

LEMMA FailureStep ==
    ASSUME TypeOK, Inv, NEW d \in Drains, WriteFails(d) \/ ProcessFails(d)
    PROVE  TypeOK' /\ Inv'
  <1>1. /\ turn' = turn /\ run' = run /\ attempt' = attempt /\ outbox' = outbox /\ stored' = stored
        /\ call' = call /\ rec' = rec /\ unsaved' = unsaved /\ troubles' \in 0..MaxTroubles
        /\ drain[d].pc \in {"run", "attempt", "turn", "check", "complete"}
    BY Typing, Troubled DEF WriteFails, ProcessFails, ledgerVars
  <1>2. drain[d].ev \in Requests /\ run[drain[d].ev] # "none"
    BY <1>1 DEF Inv, DrainInv, DrainOK
  <1>3. PICK pc \in {"fail", "persist"}, result \in RunStatus, caught \in BOOLEAN :
          /\ DrainMoves(d, pc, drain[d].ev, result, caught)
          /\ pc = "persist" => result = "error"
    <2>1. CASE Step(d, "fail") \/ drain' = [drain EXCEPT ![d].pc = "fail"]
      <3>1. DrainMoves(d, "fail", drain[d].ev, drain[d].result, drain[d].caught)
        BY <2>1, Typing, StepMoves DEF Step, DrainPc
      <3>2. drain[d].result \in RunStatus /\ drain[d].caught \in BOOLEAN
        BY Typing DEF DrainType
      <3> QED
        BY <3>1, <3>2
    <2>2. CASE drain' = [drain EXCEPT ![d].pc = "persist", ![d].result = "error", ![d].caught = TRUE]
      <3>1. DrainMoves(d, "persist", drain[d].ev, "error", TRUE)
        BY <2>2, Typing, PersistMoves DEF RunStatus, Terminal
      <3> QED
        BY <3>1 DEF RunStatus, Terminal
    <2> QED
      BY <2>1, <2>2 DEF WriteFails, ProcessFails
  <1>4. DrainOK(d)'
    BY <1>1, <1>2, <1>3 DEF DrainOK, DrainMoves
  <1>5. Inv'
    BY <1>1, <1>3, <1>4, SameRuns, DrainQuiet
  <1> QED
    BY <1>1, <1>3, <1>5, Typing, TypingBack DEF DrainMoves

LEMMA CompleteStep ==
    ASSUME TypeOK, Inv, NEW d \in Drains, Complete(d)
    PROVE  TypeOK' /\ Inv'
  <1>1. /\ turn' = turn /\ run' = run /\ attempt' = attempt /\ stored' = stored /\ call' = call
        /\ rec' = rec /\ unsaved' = unsaved /\ troubles' = troubles /\ drain[d].pc = "complete"
    BY DEF Complete, At
  <1> DEFINE r == drain[d].ev
  <1>2. r \in Requests /\ run[r] # "none" /\ (run[r] # "running" \/ r \in unsaved)
    BY <1>1 DEF Inv, DrainInv, DrainOK
  <1>3. OutboxMoves(r, "processed", "none")
    BY <1>2, Typing DEF Complete, OutboxMoves, OutboxType, OutboxStatus, Locks
  <1>4. DrainMoves(d, "claim", NoThread, "none", FALSE)
    BY Typing, IdleDrain, PutDrain DEF Complete
  <1> HIDE DEF r
  <1>5. NoNewRun
    BY <1>1, SameRuns
  <1>6. CallInv'
    BY <1>1, <1>2, <1>3 DEF Inv, CallInv, CallOK, OutboxMoves, SameTurn
  <1>7. DrainInv'
    BY <1>1, <1>4, <1>5, DrainKept DEF Inv, DrainInv, DrainOK, DrainMoves
  <1>8. ProcessedIsSettled'
    BY <1>1, <1>2, <1>3 DEF Inv, ProcessedIsSettled, OutboxMoves
  <1>9. TypeOK'
    BY <1>1, <1>3, <1>4, Typing, TypingBack DEF OutboxMoves, DrainMoves
  <1> QED
    BY <1>1, <1>5, <1>6, <1>7, <1>8, <1>9, OneRunKept, RecKept, Typing DEF Inv

LEMMA FailStep ==
    ASSUME TypeOK, Inv, NEW d \in Drains, Fail(d)
    PROVE  TypeOK' /\ Inv'
  <1>1. /\ turn' = turn /\ run' = run /\ attempt' = attempt /\ stored' = stored /\ call' = call
        /\ rec' = rec /\ unsaved' = unsaved /\ troubles' = troubles /\ drain[d].pc = "fail"
    BY DEF Fail, At
  <1>2. drain[d].ev \in Requests /\ run[drain[d].ev] # "none"
    BY <1>1 DEF Inv, DrainInv, DrainOK
  <1>3. PICK status \in {"dead_letter", "failed"} : OutboxMoves(drain[d].ev, status, "none")
    BY <1>2, Typing DEF Fail, OutboxMoves, OutboxType, OutboxStatus, Locks
  <1>4. DrainMoves(d, "claim", NoThread, "none", FALSE)
    BY Typing, IdleDrain, PutDrain DEF Fail
  <1>5. NoNewRun
    BY <1>1, SameRuns
  <1>6. CallInv'
    BY <1>1, <1>2, <1>3 DEF Inv, CallInv, CallOK, OutboxMoves, SameTurn
  <1>7. DrainInv'
    BY <1>1, <1>4, <1>5, DrainKept DEF Inv, DrainInv, DrainOK, DrainMoves
  <1>8. ProcessedIsSettled'
    BY <1>1, <1>2, <1>3, <1>5, ProcessedKept DEF Inv, OutboxMoves
  <1>9. TypeOK'
    BY <1>1, <1>3, <1>4, Typing, TypingBack DEF OutboxMoves, DrainMoves
  <1> QED
    BY <1>1, <1>5, <1>6, <1>7, <1>8, <1>9, OneRunKept, RecKept, Typing DEF Inv

-----------------------------------------------------------------------------
(* Time and crashes *)

LEMMA LeaseExpiresStep ==
    ASSUME TypeOK, Inv, NEW r \in Requests, LeaseExpires(r)
    PROVE  TypeOK' /\ Inv'
  <1>1. /\ turn' = turn /\ run' = run /\ attempt' = attempt /\ stored' = stored /\ call' = call
        /\ drain' = drain /\ rec' = rec /\ unsaved' = unsaved
    BY DEF LeaseExpires
  <1>2. troubles' \in 0..MaxTroubles
    BY Typing, OutboxAssumption DEF LeaseExpires
  <1>3. OutboxMoves(r, outbox[r].status, "stale")
    BY Typing DEF LeaseExpires, OutboxMoves, OutboxType, Locks
  <1>4. Inv'
    BY <1>1, <1>3, SameRuns, CallsKept, OneRunKept, DrainsKept, RecKept, ProcessedKept, Typing
       DEF Inv, OutboxMoves
  <1> QED
    BY <1>1, <1>2, <1>3, <1>4, Typing, TypingBack DEF OutboxMoves

LEMMA RebootStep ==
    ASSUME TypeOK, Inv, NEW long \in BOOLEAN, Reboot(long)
    PROVE  TypeOK' /\ Inv'
  <1>1. /\ turn' = turn /\ run' = run /\ attempt' = attempt /\ stored' = stored /\ unsaved' = unsaved
        /\ troubles' \in 0..MaxTroubles
    BY Troubled DEF Reboot
  <1>2. NoNewRun
    BY <1>1, SameRuns
  <1>3. PICK slot \in Drains :
          /\ drain' = [d \in Drains |-> IF d = slot THEN Claiming ELSE Idle]
          /\ rec' = [NoRecovery EXCEPT !.pc = "drain", !.by = {slot},
                       !.known = IF long THEN {r \in Requests : run[r] = "running"} ELSE {}]
    <2>1. (CHOOSE d \in Drains : TRUE) \in Drains
      BY OutboxAssumption
    <2> QED
      BY <2>1 DEF Reboot
  <1>4. drain' \in [Drains -> DrainType] /\ \A d \in Drains : drain'[d].pc \in {"off", "claim"}
    BY <1>3, IdleDrain
  <1>5. DrainInv'
    BY <1>4 DEF DrainInv, DrainOK
  <1>6. rec' \in RecType /\ rec'.pc = "drain" /\ rec'.known \subseteq {r \in Requests : run[r] = "running"}
    BY <1>3 DEF NoRecovery, RecType, RecPc, RunStatus
  <1>7. RecInv'
    BY <1>1, <1>6 DEF RecInv
  <1>8. ASSUME NEW r \in Requests
        PROVE  /\ call'[r] \in CallType /\ call'[r].thread = call[r].thread
               /\ call'[r].pc = IF call[r].pc \in Early THEN "idle"
                                ELSE IF call[r].pc \in Late THEN "rejected" ELSE call[r].pc
    BY BrokenCall, Typing DEF Reboot
  <1>9. call' \in [Requests -> CallType]
    <2>1. call' = [r \in Requests |-> Broken(call[r])]
      BY DEF Reboot
    <2> QED
      BY <2>1, BrokenCall, Typing
  <1>10. outbox' \in [Requests -> OutboxType] /\ \A r \in Requests : outbox'[r].status = outbox[r].status
    <2>1. CASE long
      <3> DEFINE New(r) == [outbox[r] EXCEPT !.lock = IF @ = "fresh" THEN "stale" ELSE @]
      <3>1. ASSUME NEW r \in Requests PROVE New(r) \in OutboxType /\ New(r).status = outbox[r].status
        BY Typing DEF OutboxType, Locks
      <3>2. outbox' = [r \in Requests |-> New(r)]
        BY <2>1 DEF Reboot
      <3> HIDE DEF New
      <3> QED
        BY <3>1, <3>2
    <2>2. CASE ~long
      BY <2>2, Typing DEF Reboot
    <2> QED
      BY <2>1, <2>2
  <1>11. CallInv'
    <2>1. ASSUME NEW r \in Requests
          PROVE  CallOK(r)' /\ (outbox'[r].status # "none" => run'[r] # "none")
      BY <1>1, <1>8, <1>10 DEF Inv, CallInv, CallOK, SameTurn, Early, Late
    <2> QED
      BY <2>1 DEF CallInv
  <1>12. ProcessedIsSettled'
    BY <1>1, <1>2, <1>10, ProcessedKept DEF Inv
  <1> QED
    BY <1>1, <1>2, <1>4, <1>5, <1>6, <1>7, <1>9, <1>10, <1>11, <1>12, OneRunKept, Typing, TypingBack DEF Inv

-----------------------------------------------------------------------------
(* The recovery *)

\* A step of the recovery that touches no event and no drain loop.
LEMMA RecoveryQuiet ==
    ASSUME TypeOK, Inv, NoNewRun, RecInv', call' = call, outbox' = outbox, drain' = drain, unsaved' = unsaved
    PROVE  Inv'
  BY CallsKept, OneRunKept, DrainsKept, ProcessedKept, Typing DEF Inv

LEMMA ListStep == TypeOK /\ Inv /\ ListRecoverableRuns => TypeOK' /\ Inv'
  <1> SUFFICES ASSUME TypeOK, Inv, ListRecoverableRuns PROVE TypeOK' /\ Inv'
    OBVIOUS
  <1>1. /\ turn' = turn /\ run' = run /\ attempt' = attempt /\ outbox' = outbox /\ stored' = stored
        /\ call' = call /\ drain' = drain /\ unsaved' = unsaved /\ troubles' = troubles
    BY DEF ListRecoverableRuns, ledgerVars
  <1>2. /\ rec' \in RecType /\ rec'.pc = "pick" /\ rec'.known = rec.known
        /\ rec'.todo = {r \in Requests : run[r] = "running"}
    BY Typing DEF ListRecoverableRuns, RecType, RecPc
  <1>3. rec.known \subseteq Requests
    BY Typing DEF RecType
  <1>4. RecInv'
    BY <1>1, <1>2, <1>3 DEF Inv, RecInv, Open
  <1> QED
    BY <1>1, <1>2, <1>4, SameRuns, RecoveryQuiet, Typing, TypingBack

LEMMA PickStep == TypeOK /\ Inv /\ PickRun => TypeOK' /\ Inv'
  <1> SUFFICES ASSUME TypeOK, Inv, PickRun PROVE TypeOK' /\ Inv'
    OBVIOUS
  <1>1. /\ turn' = turn /\ run' = run /\ attempt' = attempt /\ outbox' = outbox /\ stored' = stored
        /\ call' = call /\ drain' = drain /\ unsaved' = unsaved /\ troubles' = troubles /\ rec.pc = "pick"
    BY DEF PickRun, ledgerVars, AtRec
  <1>a. PICK r \in rec.todo : \E silent \in Silence(r) :
          rec' = IF stored[r] \notin Terminal /\ ~silent
                 THEN [rec EXCEPT !.todo = @ \ {r}]
                 ELSE [rec EXCEPT !.todo = @ \ {r}, !.cur = r,
                                  !.status = IF stored[r] \in Terminal THEN stored[r] ELSE "error",
                                  !.pc = IF stored[r] \in Terminal \cup {"none"} THEN "run" ELSE "store"]
    BY DEF PickRun
  <1>2. PICK silent \in Silence(r) :
          rec' = IF stored[r] \notin Terminal /\ ~silent
                 THEN [rec EXCEPT !.todo = @ \ {r}]
                 ELSE [rec EXCEPT !.todo = @ \ {r}, !.cur = r,
                                  !.status = IF stored[r] \in Terminal THEN stored[r] ELSE "error",
                                  !.pc = IF stored[r] \in Terminal \cup {"none"} THEN "run" ELSE "store"]
    BY <1>a
  <1>3. /\ r \in Requests /\ rec.known \subseteq Requests /\ rec.todo \subseteq Requests
        /\ run[r] # "none" /\ Open \subseteq rec.todo
    BY <1>1, Typing DEF RecType, Inv, RecInv
  <1>4. CASE stored[r] \notin Terminal /\ ~silent
    <2>1. /\ rec' \in RecType /\ rec'.pc = "pick" /\ rec'.known = rec.known /\ rec'.todo = rec.todo \ {r}
      BY <1>1, <1>2, <1>4, Typing DEF RecType
    <2>2. r \notin rec.known
      BY <1>2, <1>4 DEF Silence
    <2>3. Open' \subseteq rec.todo \ {r}
      BY <1>1, <1>3, <2>1, <2>2 DEF Open
    <2>4. RecInv'
      BY <1>1, <2>1, <2>3 DEF Inv, RecInv
    <2> QED
      BY <1>1, <2>1, <2>4, SameRuns, RecoveryQuiet, Typing, TypingBack
  <1>5. CASE ~(stored[r] \notin Terminal /\ ~silent)
    <2> DEFINE status == IF stored[r] \in Terminal THEN stored[r] ELSE "error"
               pc == IF stored[r] \in Terminal \cup {"none"} THEN "run" ELSE "store"
    <2>1. status \in Terminal /\ pc \in {"run", "store"}
      BY DEF Terminal
    <2>2. rec' = [rec EXCEPT !.todo = @ \ {r}, !.cur = r, !.status = status, !.pc = pc]
      BY <1>2, <1>5
    <2> HIDE DEF status, pc
    <2>3. /\ rec' \in RecType /\ rec'.pc = pc /\ rec'.known = rec.known /\ rec'.todo = rec.todo \ {r}
          /\ rec'.cur = r /\ rec'.status = status
      BY <1>3, <2>1, <2>2, Typing DEF RecType, RecPc, RunStatus
    <2>4. Open' \subseteq rec'.todo \cup {rec'.cur}
      BY <1>1, <1>3, <2>3 DEF Open
    <2>5. RecInv'
      BY <1>1, <1>3, <2>1, <2>3, <2>4 DEF Inv, RecInv
    <2> QED
      BY <1>1, <2>3, <2>5, SameRuns, RecoveryQuiet, Typing, TypingBack
  <1> QED
    BY <1>4, <1>5

LEMMA RecoverStoredStep == TypeOK /\ Inv /\ RecoverStored => TypeOK' /\ Inv'
  <1> SUFFICES ASSUME TypeOK, Inv, RecoverStored PROVE TypeOK' /\ Inv'
    OBVIOUS
  <1>1. /\ turn' = turn /\ run' = run /\ attempt' = attempt /\ outbox' = outbox
        /\ call' = call /\ drain' = drain /\ unsaved' = unsaved /\ troubles' = troubles /\ rec.pc = "store"
    BY DEF RecoverStored, ledgerVars, AtRec
  <1>2. stored' \in [Requests -> RunStatus]
    BY Typing DEF RecoverStored, RunStatus, Terminal
  <1>3. /\ rec' \in RecType /\ rec'.pc = "run" /\ rec'.known = rec.known /\ rec'.todo = rec.todo
        /\ rec'.cur = rec.cur /\ rec'.status = rec.status
    BY Typing DEF RecoverStored, RecType, RecPc
  <1>4. RecInv'
    BY <1>1, <1>3 DEF Inv, RecInv, Open
  <1> QED
    BY <1>1, <1>2, <1>3, <1>4, SameRuns, RecoveryQuiet, Typing, TypingBack

LEMMA PickingRec ==
    ASSUME rec \in RecType
    PROVE  /\ Picking \in RecType /\ Picking.pc = "pick" /\ Picking.known = rec.known /\ Picking.todo = rec.todo
  BY DEF Picking, RecType, RecPc, RunStatus

LEMMA RecoverRunStep == TypeOK /\ Inv /\ RecoverRun => TypeOK' /\ Inv'
  <1> SUFFICES ASSUME TypeOK, Inv, RecoverRun PROVE TypeOK' /\ Inv'
    OBVIOUS
  <1>1. /\ turn' = turn /\ attempt' = attempt /\ outbox' = outbox /\ stored' = stored
        /\ call' = call /\ drain' = drain /\ unsaved' = unsaved /\ troubles' = troubles /\ rec.pc = "run"
    BY DEF RecoverRun, AtRec
  <1>2. /\ rec.cur \in Requests /\ run[rec.cur] # "none" /\ rec.status \in Terminal
        /\ rec.known \subseteq Requests /\ rec.todo \subseteq Requests
        /\ Open \subseteq rec.todo \cup {rec.cur}
    BY <1>1, Typing DEF RecType, Inv, RecInv
  <1>3. NoNewRun /\ run' \in [Requests -> RunStatus] /\ run'[rec.cur] = rec.status
    BY <1>2, Typing, SetRun DEF RecoverRun, Terminal
  <1>4. /\ rec' \in RecType /\ rec'.pc \in {"pick", "turn"} /\ rec'.known = rec.known /\ rec'.todo = rec.todo
        /\ rec'.pc = "turn" => rec'.cur = rec.cur /\ rec'.status = rec.status
    <2>1. CASE Key[rec.cur] = NoKey
      BY <2>1, PickingRec, Typing DEF RecoverRun
    <2>2. CASE Key[rec.cur] # NoKey
      BY <2>2, Typing DEF RecoverRun, RecType, RecPc
    <2> QED
      BY <2>1, <2>2
  <1>5. Open' \subseteq rec.todo
    BY <1>2, <1>3, <1>4 DEF Open, NoNewRun, Terminal
  <1>6. RecInv'
    BY <1>1, <1>2, <1>3, <1>4, <1>5 DEF Inv, RecInv, NoNewRun
  <1> QED
    BY <1>1, <1>3, <1>4, <1>6, RecoveryQuiet, Typing, TypingBack

LEMMA RecoverTurnStep == TypeOK /\ Inv /\ RecoverTurn => TypeOK' /\ Inv'
  <1> SUFFICES ASSUME TypeOK, Inv, RecoverTurn PROVE TypeOK' /\ Inv'
    OBVIOUS
  <1>1. /\ run' = run /\ attempt' = attempt /\ outbox' = outbox /\ stored' = stored
        /\ call' = call /\ drain' = drain /\ unsaved' = unsaved /\ troubles' = troubles /\ rec.pc = "turn"
    BY DEF RecoverTurn, AtRec
  <1>2. turn' \in [Keys -> TurnStatus]
    BY Typing DEF RecoverTurn, TurnOf, TurnStatus
  <1>3. rec' \in RecType /\ rec'.pc = "pick" /\ rec'.known = rec.known /\ rec'.todo = rec.todo
    BY PickingRec, Typing DEF RecoverTurn
  <1>4. RecInv'
    BY <1>1, <1>3 DEF Inv, RecInv, Open
  <1> QED
    BY <1>1, <1>2, <1>3, <1>4, SameRuns, RecoveryQuiet, Typing, TypingBack

LEMMA RunsDoneStep == TypeOK /\ Inv /\ RunsDone => TypeOK' /\ Inv'
  <1> SUFFICES ASSUME TypeOK, Inv, RunsDone PROVE TypeOK' /\ Inv'
    OBVIOUS
  <1>1. /\ turn' = turn /\ run' = run /\ attempt' = attempt /\ outbox' = outbox /\ stored' = stored
        /\ call' = call /\ drain' = drain /\ unsaved' = unsaved /\ troubles' = troubles
        /\ rec.pc = "pick" /\ rec.todo = {}
    BY DEF RunsDone, ledgerVars, AtRec
  <1>2. rec' \in RecType /\ rec'.pc = "legacy" /\ rec'.known = rec.known
    BY Typing DEF RunsDone, RecType, RecPc
  <1>3. RecInv'
    BY <1>1, <1>2 DEF Inv, RecInv, Open
  <1> QED
    BY <1>1, <1>2, <1>3, SameRuns, RecoveryQuiet, Typing, TypingBack

LEMMA LegacyStep == TypeOK /\ Inv /\ (LegacyState \/ RecoveryDone) => TypeOK' /\ Inv'
  <1> SUFFICES ASSUME TypeOK, Inv, LegacyState \/ RecoveryDone PROVE TypeOK' /\ Inv'
    OBVIOUS
  <1>1. /\ turn' = turn /\ run' = run /\ attempt' = attempt /\ outbox' = outbox
        /\ call' = call /\ drain' = drain /\ unsaved' = unsaved /\ rec.pc = "legacy"
    BY DEF LegacyState, RecoveryDone, ledgerVars, AtRec
  <1>2. rec' \in RecType /\ rec'.pc \in {"legacy", "done"} /\ rec'.known = rec.known
    BY <1>1, Typing DEF LegacyState, RecoveryDone, RecType, RecPc
  <1>3. troubles' \in 0..MaxTroubles
    BY Troubled, Typing DEF LegacyState, RecoveryDone
  <1>4. stored' \in [Requests -> RunStatus]
    BY Typing DEF LegacyState, RecoveryDone, RunStatus, Terminal
  <1>5. RecInv'
    BY <1>1, <1>2 DEF Inv, RecInv, Open
  <1> QED
    BY <1>1, <1>2, <1>3, <1>4, <1>5, SameRuns, RecoveryQuiet, Typing, TypingBack

-----------------------------------------------------------------------------
(* The theorems *)

LEMMA InvInit == Init => TypeOK /\ Inv
  <1> SUFFICES ASSUME Init PROVE TypeOK /\ Inv
    OBVIOUS
  <1>1. /\ turn = [k \in Keys |-> "none"] /\ run = [r \in Requests |-> "none"]
        /\ attempt = [r \in Requests |-> "none"] /\ stored = [r \in Requests |-> "none"]
        /\ outbox = [r \in Requests |-> [status |-> "none", attempts |-> 0, lock |-> "none"]]
        /\ call = [r \in Requests |-> [pc |-> "idle", thread |-> NoThread]]
        /\ drain = [d \in Drains |-> Idle] /\ rec = NoRecovery /\ unsaved = {} /\ troubles = 0
    BY DEF Init
  <1>2. rec \in RecType /\ rec.pc = "off" /\ rec.known = {}
    BY <1>1 DEF NoRecovery, RecType, RecPc, RunStatus
  <1>3. drain \in [Drains -> DrainType]
    BY <1>1, IdleDrain
  <1>4. /\ outbox \in [Requests -> OutboxType] /\ call \in [Requests -> CallType]
        /\ turn \in [Keys -> TurnStatus] /\ run \in [Requests -> RunStatus] /\ stored \in [Requests -> RunStatus]
        /\ attempt \in [Requests -> {"none", "running", "completed", "failed"}] /\ troubles \in 0..MaxTroubles
    BY <1>1, OutboxAssumption
       DEF OutboxType, OutboxStatus, Locks, CallType, CallPc, TurnStatus, RunStatus
  <1>5. TypeOK
    BY <1>1, <1>2, <1>3, <1>4 DEF TypeOK, OutboxType, CallType, DrainType, RecType, Locks
  <1>6. CallInv /\ OneRun /\ ProcessedIsSettled
    BY <1>1 DEF CallInv, CallOK, OneRun, ProcessedIsSettled, Late
  <1>7. DrainInv /\ RecInv
    BY <1>1, <1>2, IdleDrain DEF DrainInv, DrainOK, RecInv
  <1> QED
    BY <1>5, <1>6, <1>7 DEF Inv

LEMMA InvStep == TypeOK /\ Inv /\ [Next]_vars => TypeOK' /\ Inv'
  <1> SUFFICES ASSUME TypeOK, Inv, [Next]_vars PROVE TypeOK' /\ Inv'
    OBVIOUS
  <1>1. ASSUME NEW r \in Requests, Call(r) \/ CallFails(r) \/ LeaseExpires(r) PROVE TypeOK' /\ Inv'
    BY <1>1, CallTurnStep, CallLookupStep, CallRunStep, CallLateStep, CallQueueStep, CallFailsStep,
       LeaseExpiresStep DEF Call
  <1>2. ASSUME NEW d \in Drains, Work(d) \/ PersistFails(d) \/ WriteFails(d) \/ ProcessFails(d)
        PROVE  TypeOK' /\ Inv'
    BY <1>2, ClaimStep, DrainDoneStep, CheckStep, GraphEndsStep, PersistStep, UpdateRunStep,
       UpdateOthersStep, FailureStep, CompleteStep, FailStep DEF Work
  <1>3. ASSUME Recover PROVE TypeOK' /\ Inv'
    BY <1>3, ListStep, PickStep, RecoverStoredStep, RecoverRunStep, RecoverTurnStep, RunsDoneStep,
       LegacyStep DEF Recover
  <1>4. ASSUME UNCHANGED vars PROVE TypeOK' /\ Inv'
    <2>1. /\ turn' = turn /\ run' = run /\ attempt' = attempt /\ stored' = stored /\ outbox' = outbox
          /\ call' = call /\ drain' = drain /\ rec' = rec /\ unsaved' = unsaved /\ troubles' = troubles
      BY <1>4 DEF vars
    <2> QED
      BY <2>1, SameRuns, CallsKept, OneRunKept, DrainsKept, RecKept, ProcessedKept, Typing, TypingBack DEF Inv
  <1> QED
    BY <1>1, <1>2, <1>3, <1>4, StartDrainStep, RebootStep DEF Next

LEMMA OneThread == TypeOK /\ Inv => OneThreadPerKey
  <1> SUFFICES ASSUME TypeOK, Inv, NEW r \in Requests, NEW q \in Requests, call[r].pc = "returned"
               PROVE  /\ run[call[r].thread] # "none"
                      /\ call[q].pc = "returned" /\ SameTurn(r, q) => call[r].thread = call[q].thread
    BY DEF OneThreadPerKey
  <1>1. /\ call[r].thread \in Requests /\ run[call[r].thread] # "none"
        /\ call[r].thread = r \/ SameTurn(r, call[r].thread)
    BY DEF Inv, CallInv, CallOK
  <1>2. ASSUME call[q].pc = "returned", SameTurn(r, q) PROVE call[r].thread = call[q].thread
    <2>1. /\ call[q].thread \in Requests /\ run[call[q].thread] # "none"
          /\ call[q].thread = q \/ SameTurn(q, call[q].thread)
      BY <1>2 DEF Inv, CallInv, CallOK
    <2>2. SameTurn(call[r].thread, call[q].thread)
      BY <1>1, <1>2, <2>1 DEF SameTurn
    <2> QED
      BY <1>1, <2>1, <2>2 DEF Inv, OneRun
  <1> QED
    BY <1>1, <1>2

LEMMA SettledBoot == TypeOK /\ Inv => ColdBootSettles
  BY DEF Inv, RecInv, Open, ColdBootSettles

\* Every variable of the durable start keeps its type.
THEOREM TypeCorrect == Spec => []TypeOK
  BY InvInit, InvStep, PTL DEF Spec

\* However calls of start interleave, fail and are made again, those of one idempotency key answer
\* with one thread, and that thread has a run.
THEOREM StartsAnswerWithOneThread == Spec => []OneThreadPerKey
  BY InvInit, InvStep, OneThread, PTL DEF Spec

\* No event is processed while its run is still running, unless its outcome could not be saved.
THEOREM ProcessedEventsAreSettled == Spec => []ProcessedIsSettled
  <1>1. Inv => ProcessedIsSettled
    BY DEF Inv
  <1> QED
    BY <1>1, InvInit, InvStep, PTL DEF Spec

\* The recovery of a boot after a long outage leaves none of the runs it found running as they were.
THEOREM ColdBootsSettle == Spec => []ColdBootSettles
  BY InvInit, InvStep, SettledBoot, PTL DEF Spec

=============================================================================
