--------------------------- MODULE ChatTurnsProofs ---------------------------
(***************************************************************************)
(* Proofs about the turns of a chat session, for every set of requests,    *)
(* every assignment of keys, every interleaving of turns and appends, and  *)
(* every number of failing appends, lost clients and crashes.              *)
(***************************************************************************)
EXTENDS ChatTurns, TLAPS

\* A lock is a queue: its members stand in an order in which nobody is ahead of the first, everyone
\* else waits for the one right before, and the tail is the last.
InOrder(lock, l, M, rank) ==
    /\ \A r, q \in M : rank[r] = rank[q] => r = q
    /\ \A r \in M : lock.ahead[r] = Nobody => \A q \in M : rank[r] <= rank[q]
    /\ \A r \in M : lock.ahead[r] # Nobody =>
         /\ lock.ahead[r] \in M /\ rank[lock.ahead[r]] < rank[r]
         /\ \A q \in M : rank[q] < rank[r] => rank[q] <= rank[lock.ahead[r]]
    /\ IF M = {} THEN lock.tail[l] = Nobody
       ELSE lock.tail[l] \in M /\ \A q \in M : rank[q] <= rank[lock.tail[l]]

Queue(lock, l, M) == \E rank \in [Requests -> Nat] : InOrder(lock, l, M, rank)

Queued(k) == {r \in Requests : Key[r] = k /\ turn[r].pc \notin {"new", "over"}}
Appending == {r \in Requests : append[r].step # "off"}

LockType(names) == [ahead : [Requests -> Requests \cup {Nobody}], tail : [names -> Requests \cup {Nobody}]]

-----------------------------------------------------------------------------
(* The chains of promises *)

\* In a queue only the first waits for nobody.
LEMMA OneHead ==
    ASSUME NEW lock, NEW l, NEW M \in SUBSET Requests, Queue(lock, l, M),
           NEW r \in M, NEW q \in M, lock.ahead[r] = Nobody, lock.ahead[q] = Nobody
    PROVE  r = q
  BY DEF Queue, InOrder

LEMMA FreeQueue ==
    ASSUME NEW names, NEW l \in names
    PROVE  Queue(Free(names), l, {}) /\ Free(names) \in LockType(names)
  <1>1. [r \in Requests |-> 0] \in [Requests -> Nat]
    OBVIOUS
  <1> QED
    BY <1>1 DEF Queue, InOrder, Free, LockType

\* A newcomer comes last.
LEMMA JoinedQueue ==
    ASSUME NEW names, NEW lock \in LockType(names), NEW l \in names,
           NEW M \in SUBSET Requests, Queue(lock, l, M),
           NEW r \in Requests, r \notin M
    PROVE  /\ Joined(lock, l, r) \in LockType(names)
           /\ Queue(Joined(lock, l, r), l, M \cup {r})
  <1> DEFINE joined == Joined(lock, l, r)
             N == M \cup {r}
  <1>1. joined \in LockType(names)
    BY DEF Joined, LockType
  <1>2. /\ joined.ahead[r] = lock.tail[l] /\ joined.tail[l] = r
        /\ \A q \in M : joined.ahead[q] = lock.ahead[q]
    BY DEF Joined, LockType
  <1>3. PICK rank \in [Requests -> Nat] : InOrder(lock, l, M, rank)
    BY DEF Queue
  <1> DEFINE last == IF M = {} THEN 0 ELSE rank[lock.tail[l]] + 1
             later == [rank EXCEPT ![r] = last]
  <1>4. /\ later \in [Requests -> Nat] /\ later[r] = last
        /\ \A q \in M : later[q] = rank[q] /\ rank[q] < last /\ rank[q] \in Nat
    BY <1>3 DEF InOrder
  <1> HIDE DEF joined, later, last
  <1>5. \A p, q \in N : later[p] = later[q] => p = q
    BY <1>3, <1>4 DEF InOrder
  <1>6. \A p \in N : joined.ahead[p] = Nobody => \A q \in N : later[p] <= later[q]
    <2>1. ASSUME NEW p \in M, joined.ahead[p] = Nobody, NEW q \in N PROVE later[p] <= later[q]
      BY <1>2, <1>3, <1>4, <2>1 DEF InOrder
    <2>2. ASSUME joined.ahead[r] = Nobody PROVE M = {}
      BY <1>2, <1>3, <2>2, TurnsAssumption DEF InOrder
    <2> QED
      BY <1>4, <2>1, <2>2
  <1>7. ASSUME NEW p \in N, joined.ahead[p] # Nobody
        PROVE  /\ joined.ahead[p] \in N /\ later[joined.ahead[p]] < later[p]
               /\ \A q \in N : later[q] < later[p] => later[q] <= later[joined.ahead[p]]
    <2>1. CASE p = r
      <3>1. M # {} /\ joined.ahead[p] = lock.tail[l] /\ lock.tail[l] \in M
        BY <1>2, <1>3, <1>7, <2>1 DEF InOrder
      <3> QED
        BY <1>3, <1>4, <2>1, <3>1 DEF InOrder
    <2>2. CASE p \in M
      BY <1>2, <1>3, <1>4, <1>7, <2>2 DEF InOrder
    <2> QED
      BY <2>1, <2>2
  <1>8. N # {} /\ joined.tail[l] \in N /\ \A q \in N : later[q] <= later[joined.tail[l]]
    BY <1>2, <1>4
  <1>9. InOrder(joined, l, N, later)
    BY <1>5, <1>6, <1>7, <1>8 DEF InOrder
  <1>10. Queue(joined, l, N)
    BY <1>4, <1>9 DEF Queue
  <1> QED
    BY <1>1, <1>10 DEF joined

\* When the first leaves, the one behind it is the first.
LEMMA LeftQueue ==
    ASSUME NEW names, NEW lock \in LockType(names), NEW l \in names,
           NEW M \in SUBSET Requests, Queue(lock, l, M),
           NEW r \in M, lock.ahead[r] = Nobody
    PROVE  /\ Left(lock, l, r) \in LockType(names)
           /\ Queue(Left(lock, l, r), l, M \ {r})
           /\ \A q \in M \ {r} : lock.ahead[q] = Nobody => Left(lock, l, r).ahead[q] = Nobody
  <1> DEFINE left == Left(lock, l, r)
             N == M \ {r}
  <1>1. left \in LockType(names)
    BY DEF Left, LockType
  <1>2. /\ \A q \in M : left.ahead[q] = IF lock.ahead[q] = r THEN Nobody ELSE lock.ahead[q]
        /\ left.tail[l] = IF lock.tail[l] = r THEN Nobody ELSE lock.tail[l]
    BY DEF Left, LockType
  <1>3. PICK rank \in [Requests -> Nat] : InOrder(lock, l, M, rank)
    BY DEF Queue
  <1> HIDE DEF left
  <1>4. \A q \in M : rank[q] \in Nat /\ rank[r] <= rank[q] /\ (rank[q] = rank[r] => q = r)
    BY <1>3 DEF InOrder
  <1>5. ASSUME NEW p \in N, left.ahead[p] = Nobody, NEW q \in N PROVE rank[p] <= rank[q]
    <2>1. CASE lock.ahead[p] = Nobody
      BY <1>3, <2>1 DEF InOrder
    <2>2. CASE lock.ahead[p] = r
      <3>1. rank[q] < rank[p] => rank[q] <= rank[r]
        BY <1>3, <2>2, TurnsAssumption DEF InOrder
      <3> QED
        BY <1>4, <3>1
    <2> QED
      BY <1>2, <1>5, <2>1, <2>2
  <1>6. ASSUME NEW p \in N, left.ahead[p] # Nobody
        PROVE  /\ left.ahead[p] \in N /\ rank[left.ahead[p]] < rank[p]
               /\ \A q \in N : rank[q] < rank[p] => rank[q] <= rank[left.ahead[p]]
    BY <1>2, <1>3, <1>6 DEF InOrder
  <1>7. IF N = {} THEN left.tail[l] = Nobody
        ELSE left.tail[l] \in N /\ \A q \in N : rank[q] <= rank[left.tail[l]]
    <2>1. lock.tail[l] \in M /\ \A q \in M : rank[q] <= rank[lock.tail[l]]
      BY <1>3 DEF InOrder
    <2>2. CASE lock.tail[l] = r
      BY <1>2, <1>4, <2>1, <2>2
    <2>3. CASE lock.tail[l] # r
      BY <1>2, <2>1, <2>3
    <2> QED
      BY <2>2, <2>3
  <1>8. InOrder(left, l, N, rank)
    BY <1>3, <1>5, <1>6, <1>7 DEF InOrder
  <1> QED
    BY <1>1, <1>2, <1>8 DEF Queue, left

\* What one queue of a lock does leaves the others alone.
LEMMA OtherQueue ==
    ASSUME NEW names, NEW lock \in LockType(names), NEW l \in names, NEW m \in names, m # l,
           NEW M \in SUBSET Requests, Queue(lock, m, M), NEW r \in Requests, r \notin M
    PROVE  /\ Queue(Joined(lock, l, r), m, M) /\ Queue(Left(lock, l, r), m, M)
           /\ \A q \in M : Joined(lock, l, r).ahead[q] = lock.ahead[q]
           /\ \A q \in M : Left(lock, l, r).ahead[q] = lock.ahead[q]
  <1>1. PICK rank \in [Requests -> Nat] : InOrder(lock, m, M, rank)
    BY DEF Queue
  <1>2. ASSUME NEW q \in M
        PROVE  /\ Joined(lock, l, r).ahead[q] = lock.ahead[q] /\ Left(lock, l, r).ahead[q] = lock.ahead[q]
    <2>1. lock.ahead[q] # r
      BY <1>1, TurnsAssumption DEF InOrder
    <2> QED
      BY <2>1 DEF Joined, Left, LockType
  <1>3. Joined(lock, l, r).tail[m] = lock.tail[m] /\ Left(lock, l, r).tail[m] = lock.tail[m]
    BY DEF Joined, Left, LockType
  <1>4. InOrder(Joined(lock, l, r), m, M, rank) /\ InOrder(Left(lock, l, r), m, M, rank)
    BY <1>1, <1>2, <1>3 DEF InOrder
  <1> QED
    BY <1>2, <1>4 DEF Queue

-----------------------------------------------------------------------------
(* Types, and where a turn may be in an append *)

Saving == {"saveUser", "saveAnswer", "saveFailure"}

\* A turn appends exactly while it saves; what a turn that threw is told is why.
AppendPc == \A r \in Requests : append[r].step # "off" <=> turn[r].pc \in Saving
ThrownReply == \A r \in Requests : turn[r].pc \in {"throw", "saveFailure"} =>
                                     turn[r].reply \in {"failed", "cancelled"}

TypeInv == TypeOK /\ AppendPc /\ ThrownReply

TurnType == [pc : TurnPc, user : BOOLEAN, reply : Replies]
AppendType == [step : {"off", "read", "write", "touch"}, read : Seq(Message)]

LEMMA NoAppendType == NoAppend \in AppendType /\ [step |-> "read", read |-> <<>>] \in AppendType
  BY DEF NoAppend, AppendType

LEMMA TypeInit == Init => TypeInv
  <1> SUFFICES ASSUME Init PROVE TypeInv
    OBVIOUS
  <1> USE DEF Init
  <1>1. turnLock \in LockType(Keys) /\ messageLock \in LockType({"messages"})
    BY DEF Free, LockType
  <1>2. append \in [Requests -> AppendType]
    BY NoAppendType
  <1>3. turn \in [Requests -> TurnType]
    BY DEF TurnType, TurnPc, Replies
  <1>4. messages \in Seq(Message) /\ troubles \in 0..MaxTroubles
    BY TurnsAssumption
  <1> QED
    BY <1>1, <1>2, <1>3, <1>4 DEF TypeInv, TypeOK, AppendPc, ThrownReply, Saving, NoAppend,
       LockType, TurnType, AppendType

LEMMA LockSteps ==
    ASSUME NEW names, NEW lock \in LockType(names), NEW l \in names, NEW r \in Requests
    PROVE  Joined(lock, l, r) \in LockType(names) /\ Left(lock, l, r) \in LockType(names)
  BY DEF Joined, Left, LockType

LEMMA KeyIsName == ASSUME NEW r \in Requests, Key[r] # NoKey PROVE Key[r] \in Keys
  BY TurnsAssumption DEF Keys

\* What a step does to the turn and to the append of its request, and nothing to those of the others.
TurnMoves(r, pc, user, reply) ==
    /\ turn' \in [Requests -> TurnType]
    /\ turn'[r].pc = pc /\ turn'[r].user = user /\ turn'[r].reply = reply
    /\ \A q \in Requests : q # r => turn'[q] = turn[q]

AppendMoves(r, step, read) ==
    /\ append' \in [Requests -> AppendType]
    /\ append'[r].step = step /\ append'[r].read = read
    /\ \A q \in Requests : q # r => append'[q] = append[q]

LEMMA TurnForms ==
    ASSUME turn \in [Requests -> TurnType], NEW r \in Requests, NEW pc \in TurnPc, NEW reply \in Replies
    PROVE  /\ Goto(r, pc) => TurnMoves(r, pc, turn[r].user, turn[r].reply)
           /\ turn' = [turn EXCEPT ![r].pc = pc, ![r].reply = reply] => TurnMoves(r, pc, turn[r].user, reply)
           /\ turn' = [turn EXCEPT ![r].pc = pc, ![r].user = TRUE] => TurnMoves(r, pc, TRUE, turn[r].reply)
  <1>1. ASSUME Goto(r, pc) PROVE TurnMoves(r, pc, turn[r].user, turn[r].reply)
    BY <1>1 DEF Goto, TurnMoves, TurnType
  <1>2. ASSUME turn' = [turn EXCEPT ![r].pc = pc, ![r].reply = reply]
        PROVE  TurnMoves(r, pc, turn[r].user, reply)
    BY <1>2 DEF TurnMoves, TurnType
  <1>3. ASSUME turn' = [turn EXCEPT ![r].pc = pc, ![r].user = TRUE]
        PROVE  TurnMoves(r, pc, TRUE, turn[r].reply)
    BY <1>3 DEF TurnMoves, TurnType
  <1> QED
    BY <1>1, <1>2, <1>3

LEMMA AppendForms ==
    ASSUME append \in [Requests -> AppendType], NEW r \in Requests,
           NEW step \in {"off", "read", "write", "touch"}, NEW read \in Seq(Message),
           append' = [append EXCEPT ![r] = [step |-> step, read |-> read]]
    PROVE  AppendMoves(r, step, read)
  BY DEF AppendMoves, AppendType

LEMMA OverEffect ==
    ASSUME turn \in [Requests -> TurnType], turnLock \in LockType(Keys),
           NEW r \in Requests, NEW reply \in Replies, Over(r, reply)
    PROVE  TurnMoves(r, "over", turn[r].user, reply) /\ turnLock' \in LockType(Keys)
  <1>1. "over" \in TurnPc
    BY DEF TurnPc
  <1> QED
    BY <1>1, TurnForms, LockSteps, KeyIsName DEF Over

LEMMA ThrowEffect ==
    ASSUME turn \in [Requests -> TurnType], NEW r \in Requests, NEW how \in {"failed", "cancelled"},
           Throw(r, how)
    PROVE  TurnMoves(r, "throw", turn[r].user, how)
  <1>1. "throw" \in TurnPc /\ how \in Replies
    BY DEF TurnPc, Replies
  <1> QED
    BY <1>1, TurnForms DEF Throw

LEMMA BeginEffect ==
    ASSUME turn \in [Requests -> TurnType], append \in [Requests -> AppendType],
           messageLock \in LockType({"messages"}),
           NEW r \in Requests, NEW pc \in Saving, BeginAppend(r, pc)
    PROVE  /\ TurnMoves(r, pc, turn[r].user, turn[r].reply) /\ AppendMoves(r, "read", <<>>)
           /\ messageLock' \in LockType({"messages"})
  <1>1. pc \in TurnPc /\ "none" \in Replies
    BY DEF TurnPc, Saving, Replies
  <1>2. <<>> \in Seq(Message)
    OBVIOUS
  <1> QED
    BY <1>1, <1>2, TurnForms, AppendForms, LockSteps DEF BeginAppend

LEMMA EndsEffect ==
    ASSUME append \in [Requests -> AppendType], messageLock \in LockType({"messages"}),
           NEW r \in Requests, AppendEnds(r)
    PROVE  AppendMoves(r, "off", <<>>) /\ messageLock' \in LockType({"messages"})
  <1>1. <<>> \in Seq(Message)
    OBVIOUS
  <1> QED
    BY <1>1, AppendForms, LockSteps DEF AppendEnds, NoAppend

LEMMA MessageType ==
    ASSUME TypeInv, NEW r \in Requests, append[r].step = "write"
    PROVE  NewMessage(r) \in Message
  <1>1. \/ At(r, "saveUser") \/ At(r, "saveAnswer")
        \/ At(r, "saveFailure") /\ turn[r].reply \in {"failed", "cancelled"}
    BY DEF TypeInv, AppendPc, ThrownReply, Saving, At
  <1>2. CASE At(r, "saveUser")
    BY <1>2 DEF NewMessage, Message
  <1>3. CASE At(r, "saveAnswer")
    BY <1>3 DEF NewMessage, Message, At
  <1>4. CASE At(r, "saveFailure") /\ turn[r].reply \in {"failed", "cancelled"}
    BY <1>4 DEF NewMessage, Message, At
  <1> QED
    BY <1>1, <1>2, <1>3, <1>4

LEMMA TypeStep == TypeInv /\ [Next]_vars => TypeInv'
  <1> SUFFICES ASSUME TypeInv, [Next]_vars PROVE TypeInv'
    OBVIOUS
  <1>0. /\ turn \in [Requests -> TurnType] /\ append \in [Requests -> AppendType]
        /\ turnLock \in LockType(Keys) /\ messageLock \in LockType({"messages"})
        /\ messages \in Seq(Message) /\ aborted \subseteq Requests /\ harmed \subseteq Requests
        /\ troubles \in 0..MaxTroubles /\ AppendPc /\ ThrownReply
    BY DEF TypeInv, TypeOK, TurnType, AppendType, LockType
  <1> DEFINE Typed == /\ turn' \in [Requests -> TurnType] /\ append' \in [Requests -> AppendType]
                      /\ turnLock' \in LockType(Keys) /\ messageLock' \in LockType({"messages"})
                      /\ messages' \in Seq(Message) /\ aborted' \subseteq Requests
                      /\ harmed' \subseteq Requests /\ troubles' \in 0..MaxTroubles
                      /\ AppendPc' /\ ThrownReply'
  <1>1. SUFFICES Typed
    BY DEF TypeInv, TypeOK, TurnType, AppendType, LockType
  <1>p. /\ TurnPc = {"new", "lock", "replay", "saveUser", "work", "saveAnswer", "throw", "saveFailure", "over"}
        /\ {"none", "answered", "replayed", "failed", "cancelled", "lost"} = Replies
        /\ "none" \in Replies /\ <<>> \in Seq(Message)
    BY DEF TurnPc, Replies
  <1> USE DEF At, AppendPc, ThrownReply, Saving
  <1>2. ASSUME NEW r \in Requests, Submit(r) PROVE Typed
    <2>1. TurnMoves(r, "lock", turn[r].user, turn[r].reply)
      BY <1>0, <1>2, <1>p, TurnForms DEF Submit
    <2> QED
      BY <1>0, <1>2, <2>1, LockSteps, KeyIsName DEF Submit, TurnMoves
  <1>3. ASSUME NEW r \in Requests, Locked(r) PROVE Typed
    <2>1. CASE Cancelled(r) \/ Throw(r, "failed")
      BY <1>0, <1>3, <2>1, ThrowEffect DEF Locked, Cancelled, Throw, TurnMoves
    <2>2. CASE Goto(r, "replay") /\ UNCHANGED <<turnLock, messageLock, append>>
      <3>1. TurnMoves(r, "replay", turn[r].user, turn[r].reply)
        BY <1>0, <2>2, <1>p, TurnForms
      <3> QED
        BY <1>0, <1>3, <2>2, <3>1 DEF Locked, TurnMoves
    <2> QED
      BY <1>3, <2>1, <2>2 DEF Locked
  <1>4. ASSUME NEW r \in Requests, Replay(r) PROVE Typed
    BY <1>0, <1>4, <1>p, OverEffect DEF Replay, TurnMoves
  <1>5. ASSUME NEW r \in Requests, StartTurn(r) PROVE Typed
    <2>1. CASE Cancelled(r) \/ Throw(r, "failed")
      BY <1>0, <1>5, <2>1, ThrowEffect DEF StartTurn, Cancelled, Throw, TurnMoves
    <2>2. CASE BeginAppend(r, "saveUser") /\ UNCHANGED turnLock
      BY <1>0, <1>5, <2>2, BeginEffect DEF StartTurn, TurnMoves, AppendMoves
    <2> QED
      BY <1>5, <2>1, <2>2 DEF StartTurn
  <1>6. ASSUME NEW r \in Requests, Work(r) PROVE Typed
    <2>1. CASE Cancelled(r) \/ Throw(r, "failed")
      BY <1>0, <1>6, <2>1, ThrowEffect DEF Work, Cancelled, Throw, TurnMoves
    <2>2. CASE BeginAppend(r, "saveAnswer") /\ UNCHANGED turnLock
      BY <1>0, <1>6, <2>2, BeginEffect DEF Work, TurnMoves, AppendMoves
    <2> QED
      BY <1>6, <2>1, <2>2 DEF Work
  <1>7. ASSUME NEW r \in Requests, Catch(r) PROVE Typed
    <2>1. CASE turn[r].user
      BY <1>0, <1>7, <2>1, BeginEffect DEF Catch, TurnMoves, AppendMoves
    <2>2. CASE ~turn[r].user
      BY <1>0, <1>7, <2>2, <1>p, OverEffect DEF Catch, TurnMoves
    <2> QED
      BY <2>1, <2>2
  <1>8. ASSUME NEW r \in Requests, AppendReads(r) PROVE Typed
    <2>1. AppendMoves(r, "write", messages)
      BY <1>0, <1>8, AppendForms DEF AppendReads
    <2> QED
      BY <1>0, <1>8, <2>1 DEF AppendReads, AppendMoves
  <1>9. ASSUME NEW r \in Requests, AppendWrites(r) PROVE Typed
    <2>1. AppendMoves(r, "touch", <<>>)
      BY <1>0, <1>9, <1>p, AppendForms DEF AppendWrites
    <2>2. messages' \in Seq(Message)
      <3>1. NewMessage(r) \in Message /\ append[r].read \in Seq(Message)
        BY <1>0, <1>9, MessageType DEF AppendWrites, AppendType
      <3> QED
        BY <1>9, <3>1 DEF AppendWrites
    <2> QED
      BY <1>0, <1>9, <2>1, <2>2 DEF AppendWrites, AppendMoves
  <1>10. ASSUME NEW r \in Requests, AppendReturns(r) PROVE Typed
    <2>1. AppendMoves(r, "off", <<>>) /\ messageLock' \in LockType({"messages"})
      BY <1>0, <1>10, EndsEffect DEF AppendReturns
    <2>2. CASE At(r, "saveUser") /\ UserSaved(r) /\ UNCHANGED turnLock
      <3>1. TurnMoves(r, "work", TRUE, turn[r].reply)
        BY <1>0, <1>p, <2>2, TurnForms DEF UserSaved
      <3> QED
        BY <1>0, <1>10, <2>1, <2>2, <3>1 DEF AppendReturns, TurnMoves, AppendMoves
    <2>3. CASE Over(r, "answered") \/ Over(r, turn[r].reply)
      <3>1. \E reply \in Replies : Over(r, reply)
        BY <1>0, <1>p, <2>3 DEF TurnType
      <3>2. turnLock' \in LockType(Keys) /\ \E reply \in Replies : TurnMoves(r, "over", turn[r].user, reply)
        BY <1>0, <3>1, OverEffect
      <3> QED
        BY <1>0, <1>10, <2>1, <3>2 DEF AppendReturns, TurnMoves, AppendMoves
    <2> QED
      BY <1>10, <2>2, <2>3 DEF AppendReturns
  <1>11. ASSUME NEW r \in Requests, AppendFails(r) PROVE Typed
    <2>1. AppendMoves(r, "off", <<>>) /\ messageLock' \in LockType({"messages"})
      BY <1>0, <1>11, EndsEffect DEF AppendFails
    <2>2. troubles' \in 0..MaxTroubles
      BY <1>0, <1>11, TurnsAssumption DEF AppendFails, Trouble
    <2>3. CASE At(r, "saveFailure") /\ Over(r, turn[r].reply)
      <3>1. turnLock' \in LockType(Keys) /\ TurnMoves(r, "over", turn[r].user, turn[r].reply)
        BY <1>0, <2>3, OverEffect DEF TurnType
      <3> QED
        BY <1>0, <1>11, <2>1, <2>2, <3>1 DEF AppendFails, TurnMoves, AppendMoves
    <2>4. CASE UNCHANGED turnLock /\ turn' = [turn EXCEPT ![r].pc = "throw", ![r].reply = "failed"]
      <3>1. TurnMoves(r, "throw", turn[r].user, "failed")
        BY <1>0, <1>p, <2>4, TurnForms
      <3> QED
        BY <1>0, <1>11, <2>1, <2>2, <2>4, <3>1 DEF AppendFails, TurnMoves, AppendMoves
    <2> QED
      BY <1>11, <2>3, <2>4 DEF AppendFails
  <1>12. ASSUME NEW r \in Requests, Disconnect(r) PROVE Typed
    BY <1>0, <1>12, TurnsAssumption DEF Disconnect, Trouble
  <1>13. ASSUME Crash PROVE Typed
    <2>1. append' \in [Requests -> AppendType] /\ \A r \in Requests : append'[r].step = "off"
      BY <1>13, NoAppendType DEF Crash, NoAppend
    <2>2. turn' \in [Requests -> TurnType] /\ \A r \in Requests : turn'[r].pc \in {"new", "over"}
      BY <1>0, <1>13, <1>p DEF Crash, TurnType
    <2>3. turnLock' \in LockType(Keys) /\ messageLock' \in LockType({"messages"})
      BY <1>13 DEF Crash, Free, LockType
    <2>4. Trouble /\ messages' = messages /\ aborted' = aborted
      BY <1>13 DEF Crash
    <2>5. troubles' \in 0..MaxTroubles
      BY <1>0, <2>4, TurnsAssumption DEF Trouble
    <2>6. harmed' \subseteq Requests
      BY <1>0, <1>13 DEF Crash
    <2> QED
      BY <1>0, <2>1, <2>2, <2>3, <2>4, <2>5, <2>6
  <1>14. ASSUME UNCHANGED vars PROVE Typed
    BY <1>0, <1>14 DEF vars
  <1> HIDE DEF Typed
  <1> QED
    BY <1>2, <1>3, <1>4, <1>5, <1>6, <1>7, <1>8, <1>9, <1>10, <1>11, <1>12, <1>13, <1>14 DEF Next, Step

\* Every variable keeps its type.
THEOREM TypeCorrect == Spec => []TypeOK
  <1>1. TypeInv => TypeOK
    BY DEF TypeInv
  <1> QED
    BY TypeInit, TypeStep, <1>1, PTL DEF Spec

-----------------------------------------------------------------------------
(* The locks are queues, and who has passed one holds it *)

TurnQueues == \A k \in Keys : Queue(turnLock, k, Queued(k))
TurnHeld == \A r \in Requests : Key[r] # NoKey /\ turn[r].pc \notin {"new", "lock", "over"} =>
                                  turnLock.ahead[r] = Nobody

MessageQueue == Queue(messageLock, "messages", Appending)
MessageHeld == \A r \in Requests : append[r].step \in {"write", "touch"} => messageLock.ahead[r] = Nobody

\* Nobody has written the messages since the holder of the lock read them.
ReadIsCurrent == \A r \in Requests : append[r].step = "write" => append[r].read = messages

LockInv == TurnQueues /\ TurnHeld /\ MessageQueue /\ MessageHeld /\ ReadIsCurrent

\* The four things a step may do to a turn and its lock: it queues, goes on, stays, or is over.
Queues(r) ==
    /\ turn[r].pc = "new"
    /\ TurnMoves(r, "lock", turn[r].user, turn[r].reply)
    /\ turnLock' = IF Key[r] = NoKey THEN turnLock ELSE Joined(turnLock, Key[r], r)

\* From pc to pc, and what happens to the rest of the turn on the way.
Way(r, pc, user, reply) ==
    \/ /\ <<turn[r].pc, pc>> \in {<<"lock", "replay">>, <<"replay", "saveUser">>,
                                  <<"work", "saveAnswer">>, <<"throw", "saveFailure">>}
       /\ turn[r].pc = "throw" => turn[r].user
       /\ turn[r].pc = "replay" => ~Replayable(r)
       /\ user = turn[r].user /\ reply = turn[r].reply
    \/ /\ turn[r].pc = "saveUser" /\ pc = "work" /\ append[r].step = "touch"
       /\ user = TRUE /\ reply = turn[r].reply
    \/ /\ turn[r].pc \in {"lock", "replay", "work"} \cup Saving /\ pc = "throw"
       /\ turn[r].pc \in Saving => r \in harmed'
       /\ user = turn[r].user /\ reply \in {"failed", "cancelled"}

GoesOn(r) ==
    /\ turn[r].pc = "lock" => turnLock.ahead[r] = Nobody
    /\ \E pc \in TurnPc, user \in BOOLEAN, reply \in Replies :
         Way(r, pc, user, reply) /\ TurnMoves(r, pc, user, reply)
    /\ turnLock' = turnLock

WayOut(r, reply) ==
    \/ turn[r].pc = "replay" /\ reply = "replayed"
    \/ turn[r].pc = "throw" /\ ~turn[r].user /\ reply = turn[r].reply
    \/ turn[r].pc = "saveAnswer" /\ append[r].step = "touch" /\ reply = "answered"
    \/ /\ turn[r].pc = "saveFailure" /\ reply = turn[r].reply
       /\ append[r].step = "touch" \/ r \in harmed'

IsOver(r) ==
    /\ \E reply \in Replies : WayOut(r, reply) /\ TurnMoves(r, "over", turn[r].user, reply)
    /\ turnLock' = IF Key[r] = NoKey THEN turnLock ELSE Left(turnLock, Key[r], r)

TurnEffect(r) == Queues(r) \/ GoesOn(r) \/ UNCHANGED <<turn, turnLock>> \/ IsOver(r)

\* What it may do to an append and its lock.
Begins(r) ==
    /\ append[r].step = "off"
    /\ AppendMoves(r, "read", <<>>)
    /\ messageLock' = Joined(messageLock, "messages", r) /\ messages' = messages

Reads(r) ==
    /\ append[r].step = "read" /\ messageLock.ahead[r] = Nobody
    /\ AppendMoves(r, "write", messages)
    /\ UNCHANGED <<messageLock, messages>>

Writes(r) ==
    /\ append[r].step = "write"
    /\ AppendMoves(r, "touch", <<>>)
    /\ messages' = Append(append[r].read, NewMessage(r)) /\ messageLock' = messageLock

Ends(r) ==
    /\ append[r].step \in {"write", "touch"}
    /\ AppendMoves(r, "off", <<>>)
    /\ messageLock' = Left(messageLock, "messages", r) /\ messages' = messages

MessageEffect(r) ==
    Begins(r) \/ Reads(r) \/ Writes(r) \/ Ends(r) \/ UNCHANGED <<append, messageLock, messages>>

StepOf(r) == Submit(r) \/ Step(r) \/ AppendFails(r) \/ Disconnect(r)

LEMMA StepEffect ==
    ASSUME TypeInv, NEW r \in Requests, StepOf(r)
    PROVE  TurnEffect(r) /\ MessageEffect(r) /\ harmed \subseteq harmed'
  <1>0. /\ turn \in [Requests -> TurnType] /\ append \in [Requests -> AppendType]
        /\ turnLock \in LockType(Keys) /\ messageLock \in LockType({"messages"})
        /\ AppendPc /\ ThrownReply
    BY DEF TypeInv, TypeOK, TurnType, AppendType, LockType
  <1>p. /\ TurnPc = {"new", "lock", "replay", "saveUser", "work", "saveAnswer", "throw", "saveFailure", "over"}
        /\ {"none", "answered", "replayed", "failed", "cancelled", "lost"} = Replies
        /\ "none" \in Replies /\ <<>> \in Seq(Message)
        /\ turn[r].user \in BOOLEAN /\ turn[r].reply \in Replies
    BY <1>0 DEF TurnPc, Replies, TurnType
  <1>h. harmed \subseteq harmed'
    BY DEF StepOf, Submit, Step, Locked, Replay, StartTurn, Work, Catch, AppendReads, AppendWrites,
       AppendReturns, AppendFails, Disconnect
  <1>t. ASSUME NEW how \in {"failed", "cancelled"}, Throw(r, how), turn[r].pc \in {"replay", "work"}
               \/ (turn[r].pc = "lock" /\ turnLock.ahead[r] = Nobody)
        PROVE  GoesOn(r)
    <2>1. TurnMoves(r, "throw", turn[r].user, how) /\ turnLock' = turnLock
      BY <1>0, <1>t, ThrowEffect DEF Throw
    <2>2. Way(r, "throw", turn[r].user, how)
      BY <1>t DEF Way, Saving
    <2> QED
      BY <1>p, <1>t, <2>1, <2>2 DEF GoesOn
  <1>b. ASSUME NEW pc \in Saving, BeginAppend(r, pc), turnLock' = turnLock, messages' = messages,
               <<turn[r].pc, pc>> \in {<<"replay", "saveUser">>, <<"work", "saveAnswer">>, <<"throw", "saveFailure">>},
               turn[r].pc = "throw" => turn[r].user, turn[r].pc = "replay" => ~Replayable(r)
        PROVE  GoesOn(r) /\ Begins(r)
    <2>1. TurnMoves(r, pc, turn[r].user, turn[r].reply) /\ AppendMoves(r, "read", <<>>)
      BY <1>0, <1>b, BeginEffect
    <2>2. append[r].step = "off"
      BY <1>0, <1>b DEF AppendPc, Saving, AppendType
    <2>3. Way(r, pc, turn[r].user, turn[r].reply)
      BY <1>b DEF Way
    <2>4. pc \in TurnPc
      BY <1>p DEF Saving
    <2> QED
      BY <1>p, <1>b, <2>1, <2>2, <2>3, <2>4 DEF GoesOn, Begins, BeginAppend
  <1>o. ASSUME NEW reply \in Replies, Over(r, reply), WayOut(r, reply)
        PROVE  IsOver(r)
    <2>1. TurnMoves(r, "over", turn[r].user, reply)
      BY <1>0, <1>o, OverEffect
    <2> QED
      BY <1>o, <2>1 DEF IsOver, Over
  <1>1. CASE Submit(r)
    <2>1. TurnMoves(r, "lock", turn[r].user, turn[r].reply)
      BY <1>0, <1>1, <1>p, TurnForms DEF Submit
    <2> QED
      BY <1>1, <2>1 DEF Submit, At, TurnEffect, Queues, MessageEffect
  <1>2. CASE Locked(r)
    <2>1. CASE Cancelled(r) \/ Throw(r, "failed")
      <3>1. GoesOn(r)
        BY <1>2, <1>t, <2>1 DEF Locked, At, Cancelled
      <3> QED
        BY <1>2, <2>1, <3>1 DEF Locked, Cancelled, Throw, TurnEffect, MessageEffect
    <2>2. CASE Goto(r, "replay") /\ UNCHANGED <<turnLock, messageLock, append>>
      <3>1. TurnMoves(r, "replay", turn[r].user, turn[r].reply)
        BY <1>0, <2>2, <1>p, TurnForms
      <3>2. GoesOn(r)
        BY <1>p, <1>2, <2>2, <3>1 DEF Locked, At, Way, GoesOn
      <3> QED
        BY <1>2, <2>2, <3>2 DEF Locked, TurnEffect, MessageEffect
    <2> QED
      BY <1>2, <2>1, <2>2 DEF Locked
  <1>3. CASE Replay(r)
    BY <1>3, <1>h, <1>o, <1>p DEF Replay, At, WayOut, TurnEffect, MessageEffect
  <1>4. CASE StartTurn(r)
    <2>1. CASE Cancelled(r) \/ Throw(r, "failed")
      BY <1>4, <1>t, <2>1 DEF StartTurn, At, Cancelled, Throw, TurnEffect, MessageEffect
    <2>2. CASE BeginAppend(r, "saveUser") /\ UNCHANGED turnLock
      BY <1>4, <1>b, <2>2 DEF StartTurn, At, Saving, TurnEffect, MessageEffect
    <2> QED
      BY <1>4, <2>1, <2>2 DEF StartTurn
  <1>5. CASE Work(r)
    <2>1. CASE Cancelled(r) \/ Throw(r, "failed")
      BY <1>5, <1>t, <2>1 DEF Work, At, Cancelled, Throw, TurnEffect, MessageEffect
    <2>2. CASE BeginAppend(r, "saveAnswer") /\ UNCHANGED turnLock
      BY <1>5, <1>b, <2>2 DEF Work, At, Saving, TurnEffect, MessageEffect
    <2> QED
      BY <1>5, <2>1, <2>2 DEF Work
  <1>6. CASE Catch(r)
    <2>1. CASE turn[r].user
      BY <1>6, <1>b, <2>1 DEF Catch, At, Saving, TurnEffect, MessageEffect
    <2>2. CASE ~turn[r].user
      BY <1>6, <1>o, <1>p, <2>2 DEF Catch, At, WayOut, TurnEffect, MessageEffect
    <2> QED
      BY <2>1, <2>2
  <1>7. CASE AppendReads(r)
    <2>1. AppendMoves(r, "write", messages)
      BY <1>0, <1>7, AppendForms DEF AppendReads, TypeInv, TypeOK
    <2> QED
      BY <1>7, <2>1 DEF AppendReads, Reads, TurnEffect, MessageEffect
  <1>8. CASE AppendWrites(r)
    <2>1. AppendMoves(r, "touch", <<>>)
      BY <1>0, <1>8, <1>p, AppendForms DEF AppendWrites
    <2> QED
      BY <1>8, <2>1 DEF AppendWrites, Writes, TurnEffect, MessageEffect
  <1>9. CASE AppendReturns(r)
    <2>1. MessageEffect(r)
      BY <1>0, <1>9, EndsEffect DEF AppendReturns, AppendEnds, Ends, MessageEffect
    <2>2. CASE At(r, "saveUser") /\ UserSaved(r) /\ UNCHANGED turnLock
      <3>1. TurnMoves(r, "work", TRUE, turn[r].reply)
        BY <1>0, <1>p, <2>2, TurnForms DEF UserSaved
      <3> QED
        BY <1>9, <1>p, <2>1, <2>2, <3>1 DEF AppendReturns, At, Way, GoesOn, TurnEffect
    <2>3. CASE \/ At(r, "saveAnswer") /\ Over(r, "answered")
               \/ At(r, "saveFailure") /\ Over(r, turn[r].reply)
      BY <1>9, <1>o, <1>p, <2>1, <2>3 DEF AppendReturns, At, WayOut, TurnEffect
    <2> QED
      BY <1>9, <2>2, <2>3 DEF AppendReturns
  <1>10. CASE AppendFails(r)
    <2>1. MessageEffect(r)
      BY <1>0, <1>10, EndsEffect DEF AppendFails, AppendEnds, Ends, MessageEffect
    <2>2. CASE At(r, "saveFailure") /\ Over(r, turn[r].reply)
      BY <1>10, <1>o, <1>p, <2>1, <2>2 DEF AppendFails, At, WayOut, TurnEffect
    <2>3. CASE UNCHANGED turnLock /\ turn' = [turn EXCEPT ![r].pc = "throw", ![r].reply = "failed"]
      <3>1. TurnMoves(r, "throw", turn[r].user, "failed")
        BY <1>0, <1>p, <2>3, TurnForms
      <3>2. turn[r].pc \in Saving
        BY <1>0, <1>10 DEF AppendFails, AppendPc
      <3>3. Way(r, "throw", turn[r].user, "failed")
        BY <1>10, <3>2 DEF AppendFails, Way, Saving
      <3>4. turn[r].pc # "lock" /\ "throw" \in TurnPc /\ "failed" \in Replies
        BY <1>p, <3>2 DEF Saving
      <3>5. GoesOn(r)
        <4>1. turnLock' = turnLock
          BY <2>3
        <4> QED
          BY <1>p, <3>1, <3>3, <3>4, <4>1 DEF GoesOn
      <3> QED
        BY <1>h, <2>1, <3>5 DEF TurnEffect
    <2> QED
      BY <1>10, <2>2, <2>3 DEF AppendFails
  <1>11. CASE Disconnect(r)
    BY <1>11 DEF Disconnect, TurnEffect, MessageEffect
  <1> QED
    BY <1>h, <1>1, <1>2, <1>3, <1>4, <1>5, <1>6, <1>7, <1>8, <1>9, <1>10, <1>11 DEF StepOf, Step

LEMMA TurnLockStep ==
    ASSUME TypeInv, TurnQueues, TurnHeld, NEW r \in Requests, TurnEffect(r)
    PROVE  TurnQueues' /\ TurnHeld'
  <1>0. turn \in [Requests -> TurnType] /\ turnLock \in LockType(Keys)
    BY DEF TypeInv, TypeOK, TurnType, LockType
  <1>1. CASE UNCHANGED <<turn, turnLock>>
    BY <1>1 DEF TurnQueues, TurnHeld, Queued
  <1>2. CASE Queues(r)
    <2>0. \A k \in Keys : Queued(k)' = IF k = Key[r] THEN Queued(k) \cup {r} ELSE Queued(k)
      BY <1>2 DEF Queued, Queues, TurnMoves
    <2>1. CASE Key[r] = NoKey
      BY <1>2, <2>0, <2>1 DEF Queues, TurnMoves, TurnQueues, TurnHeld, Keys
    <2>2. CASE Key[r] # NoKey
      <3>1. /\ Key[r] \in Keys /\ r \notin Queued(Key[r]) /\ \A k \in Keys : Queued(k) \in SUBSET Requests
            /\ \A k \in Keys : k # Key[r] => r \notin Queued(k)
        BY <1>2, <2>2, KeyIsName DEF Queued, Queues
      <3>2. turnLock' = Joined(turnLock, Key[r], r)
        BY <1>2, <2>2 DEF Queues
      <3>3. ASSUME NEW k \in Keys PROVE Queue(turnLock', k, Queued(k)')
        <4>1. CASE k = Key[r]
          BY <1>0, <2>0, <3>1, <3>2, <4>1, JoinedQueue DEF TurnQueues
        <4>2. CASE k # Key[r]
          BY <1>0, <2>0, <3>1, <3>2, <4>2, OtherQueue DEF TurnQueues
        <4> QED
          BY <4>1, <4>2
      <3>4. ASSUME NEW q \in Requests, q # r PROVE turnLock'.ahead[q] = turnLock.ahead[q]
        BY <1>0, <3>2, <3>4 DEF Joined, LockType
      <3>5. TurnHeld'
        BY <1>2, <3>4 DEF TurnHeld, Queues, TurnMoves
      <3> QED
        BY <3>3, <3>5 DEF TurnQueues
    <2> QED
      BY <2>1, <2>2
  <1>3. CASE GoesOn(r)
    <2>0. /\ turn[r].pc \notin {"new", "over"} /\ turn'[r].pc \notin {"new", "lock", "over"}
          /\ \A q \in Requests : q # r => turn'[q] = turn[q]
      BY <1>3 DEF GoesOn, Way, TurnMoves, Saving
    <2>1. \A k \in Keys : Queued(k)' = Queued(k)
      BY <2>0 DEF Queued
    <2>2. TurnHeld'
      BY <1>3, <2>0 DEF GoesOn, TurnHeld
    <2> QED
      BY <1>3, <2>1, <2>2 DEF TurnQueues, GoesOn
  <1>4. CASE IsOver(r)
    <2>p. turn[r].pc \notin {"new", "lock", "over"}
      BY <1>4 DEF IsOver, WayOut
    <2>0. \A k \in Keys : Queued(k)' = Queued(k) \ {r}
      BY <1>4 DEF Queued, IsOver, TurnMoves
    <2>1. CASE Key[r] = NoKey
      <3>1. \A k \in Keys : Queued(k)' = Queued(k)
        BY <2>0, <2>1 DEF Queued, Keys
      <3>2. TurnHeld'
        BY <1>4, <2>1 DEF IsOver, TurnMoves, TurnHeld
      <3> QED
        BY <1>4, <2>1, <3>1, <3>2 DEF IsOver, TurnQueues
    <2>2. CASE Key[r] # NoKey
      <3>1. /\ Key[r] \in Keys /\ r \in Queued(Key[r]) /\ \A k \in Keys : Queued(k) \in SUBSET Requests
            /\ \A k \in Keys : k # Key[r] => r \notin Queued(k)
            /\ turnLock.ahead[r] = Nobody
        BY <2>p, <2>2, KeyIsName DEF Queued, TurnHeld
      <3>2. turnLock' = Left(turnLock, Key[r], r)
        BY <1>4, <2>2 DEF IsOver
      <3>3. ASSUME NEW k \in Keys PROVE Queue(turnLock', k, Queued(k)')
        <4>1. CASE k = Key[r]
          BY <1>0, <2>0, <3>1, <3>2, <4>1, LeftQueue DEF TurnQueues
        <4>2. CASE k # Key[r]
          <5>1. Queued(k)' = Queued(k)
            BY <2>0, <3>1, <4>2
          <5> QED
            BY <1>0, <3>1, <3>2, <4>2, <5>1, OtherQueue DEF TurnQueues
        <4> QED
          BY <4>1, <4>2
      <3>4. \A q \in Requests : turnLock.ahead[q] = Nobody => turnLock'.ahead[q] = Nobody
        BY <1>0, <3>2 DEF Left, LockType
      <3>5. TurnHeld'
        BY <1>4, <3>4 DEF TurnHeld, IsOver, TurnMoves
      <3> QED
        BY <3>3, <3>5 DEF TurnQueues
    <2> QED
      BY <2>1, <2>2
  <1> QED
    BY <1>1, <1>2, <1>3, <1>4 DEF TurnEffect

LEMMA MessageLockStep ==
    ASSUME TypeInv, MessageQueue, MessageHeld, ReadIsCurrent, NEW r \in Requests, MessageEffect(r)
    PROVE  MessageQueue' /\ MessageHeld' /\ ReadIsCurrent'
  <1>0. append \in [Requests -> AppendType] /\ messageLock \in LockType({"messages"})
    BY DEF TypeInv, TypeOK, AppendType, LockType
  <1>1. CASE UNCHANGED <<append, messageLock, messages>>
    BY <1>1 DEF MessageQueue, MessageHeld, ReadIsCurrent, Appending
  <1>2. CASE Begins(r)
    <2>1. Appending' = Appending \cup {r} /\ r \notin Appending
      BY <1>2 DEF Appending, Begins, AppendMoves
    <2>2. MessageQueue'
      BY <1>0, <1>2, <2>1, JoinedQueue DEF MessageQueue, Begins, Appending
    <2>3. ASSUME NEW q \in Requests, q # r PROVE messageLock'.ahead[q] = messageLock.ahead[q]
      BY <1>0, <1>2, <2>3 DEF Begins, Joined, LockType
    <2>4. MessageHeld' /\ ReadIsCurrent'
      BY <1>2, <2>3 DEF MessageHeld, ReadIsCurrent, Begins, AppendMoves
    <2> QED
      BY <2>2, <2>4
  <1>3. CASE Reads(r)
    <2>1. Appending' = Appending
      BY <1>3 DEF Appending, Reads, AppendMoves
    <2>2. MessageHeld' /\ ReadIsCurrent'
      BY <1>3 DEF MessageHeld, ReadIsCurrent, Reads, AppendMoves
    <2> QED
      BY <1>3, <2>1, <2>2 DEF MessageQueue, Reads
  <1>4. CASE Writes(r)
    <2>1. Appending' = Appending
      BY <1>4 DEF Appending, Writes, AppendMoves
    <2>2. MessageHeld'
      BY <1>4 DEF MessageHeld, Writes, AppendMoves
    <2>3. ASSUME NEW q \in Requests, append'[q].step = "write" PROVE FALSE
      <3>1. q # r /\ append[q].step = "write"
        BY <1>4, <2>3 DEF Writes, AppendMoves
      <3>2. /\ q \in Appending /\ r \in Appending /\ Appending \in SUBSET Requests
            /\ messageLock.ahead[q] = Nobody /\ messageLock.ahead[r] = Nobody
        BY <1>4, <3>1 DEF MessageHeld, Writes, Appending
      <3> QED
        BY <3>1, <3>2, OneHead DEF MessageQueue
    <2> QED
      BY <1>4, <2>1, <2>2, <2>3 DEF MessageQueue, ReadIsCurrent, Writes
  <1>5. CASE Ends(r)
    <2>1. /\ Appending' = Appending \ {r} /\ r \in Appending /\ Appending \in SUBSET Requests
          /\ messageLock.ahead[r] = Nobody
      BY <1>5 DEF Appending, Ends, AppendMoves, MessageHeld
    <2>2. MessageQueue'
      BY <1>0, <1>5, <2>1, LeftQueue DEF MessageQueue, Ends
    <2>3. \A q \in Requests : messageLock.ahead[q] = Nobody => messageLock'.ahead[q] = Nobody
      BY <1>0, <1>5 DEF Ends, Left, LockType
    <2>4. MessageHeld' /\ ReadIsCurrent'
      BY <1>5, <2>3 DEF MessageHeld, ReadIsCurrent, Ends, AppendMoves
    <2> QED
      BY <2>2, <2>4
  <1> QED
    BY <1>1, <1>2, <1>3, <1>4, <1>5 DEF MessageEffect

LEMMA LockInit == Init => LockInv
  <1> SUFFICES ASSUME Init PROVE LockInv
    OBVIOUS
  <1>1. (\A k \in Keys : Queued(k) = {}) /\ Appending = {}
    BY DEF Init, Queued, Appending, NoAppend
  <1>2. TurnQueues /\ MessageQueue
    BY <1>1, FreeQueue DEF Init, TurnQueues, MessageQueue
  <1>3. TurnHeld /\ MessageHeld /\ ReadIsCurrent
    BY DEF Init, TurnHeld, MessageHeld, ReadIsCurrent, NoAppend
  <1> QED
    BY <1>2, <1>3 DEF LockInv

LEMMA CrashEffect ==
    ASSUME TypeInv, Crash
    PROVE  /\ \A r \in Requests :
                /\ append'[r].step = "off" /\ turn'[r].pc \in {"new", "over"}
                /\ turn'[r].user = turn[r].user
                /\ turn'[r].pc = "new" => turn'[r] = turn[r]
                /\ turn'[r].pc = "over" => turn'[r] = turn[r] \/ r \in harmed'
           /\ turnLock' = Free(Keys) /\ messageLock' = Free({"messages"})
           /\ messages' = messages /\ harmed \subseteq harmed'
  <1>0. turn \in [Requests -> TurnType]
    BY DEF TypeInv, TypeOK, TurnType
  <1>1. ASSUME NEW r \in Requests
        PROVE  /\ turn'[r].pc \in {"new", "over"} /\ turn'[r].user = turn[r].user
               /\ turn'[r].pc = "new" => turn'[r] = turn[r]
               /\ turn'[r].pc = "over" => turn'[r] = turn[r] \/ r \in harmed'
    BY <1>0 DEF Crash, At, TurnType
  <1>2. /\ \A r \in Requests : append'[r].step = "off"
        /\ turnLock' = Free(Keys) /\ messageLock' = Free({"messages"})
        /\ messages' = messages /\ harmed \subseteq harmed'
    BY DEF Crash, NoAppend
  <1> QED
    BY <1>1, <1>2

LEMMA LockStep == TypeInv /\ LockInv /\ [Next]_vars => LockInv'
  <1> SUFFICES ASSUME TypeInv, LockInv, [Next]_vars PROVE LockInv'
    OBVIOUS
  <1>1. ASSUME NEW r \in Requests, StepOf(r) PROVE LockInv'
    BY <1>1, StepEffect, TurnLockStep, MessageLockStep DEF LockInv
  <1>2. ASSUME Crash PROVE LockInv'
    <2>1. /\ \A r \in Requests : append'[r].step = "off" /\ turn'[r].pc \in {"new", "over"}
          /\ turnLock' = Free(Keys) /\ messageLock' = Free({"messages"})
      BY <1>2, CrashEffect
    <2>2. (\A k \in Keys : Queued(k)' = {}) /\ Appending' = {}
      BY <2>1 DEF Queued, Appending
    <2>3. TurnQueues' /\ MessageQueue'
      BY <2>1, <2>2, FreeQueue DEF TurnQueues, MessageQueue
    <2>4. TurnHeld' /\ MessageHeld' /\ ReadIsCurrent'
      BY <2>1 DEF TurnHeld, MessageHeld, ReadIsCurrent
    <2> QED
      BY <2>3, <2>4 DEF LockInv
  <1>3. ASSUME UNCHANGED vars PROVE LockInv'
    BY <1>3 DEF vars, LockInv, TurnQueues, TurnHeld, MessageQueue, MessageHeld, ReadIsCurrent, Queued, Appending
  <1> QED
    BY <1>1, <1>2, <1>3 DEF Next, StepOf

-----------------------------------------------------------------------------
(* Whose messages there are *)

\* The flag of a turn tells that its user message is there, and no answer comes without a question.
UserKnown == \A r \in Requests :
    /\ turn[r].pc \in {"new", "lock", "replay", "saveUser"} => ~turn[r].user
    /\ turn[r].pc \in {"work", "saveAnswer", "saveFailure"} => turn[r].user

Asked == \A r \in Requests :
    /\ turn[r].user \/ (turn[r].pc = "saveUser" /\ append[r].step = "touch") => By(r, "user") # {}
    /\ By(r, "agent") # {} => By(r, "user") # {}

\* Nobody has answered the key of a turn that works.
Unanswered == \A r, q \in Requests :
    r # q /\ SameKey(r, q) /\ Working(r) => By(q, "agent") = {}

TalkInv == UserKnown /\ Asked /\ Unanswered

\* Two turns that have passed the lock of one key are one.
LEMMA OneHolder ==
    ASSUME LockInv, NEW r \in Requests, NEW q \in Requests, SameKey(r, q),
           turn[r].pc \notin {"new", "lock", "over"}, turn[q].pc \notin {"new", "lock", "over"}
    PROVE  r = q
  <1>1. /\ Key[r] \in Keys /\ r \in Queued(Key[r]) /\ q \in Queued(Key[r])
        /\ turnLock.ahead[r] = Nobody /\ turnLock.ahead[q] = Nobody
        /\ Queued(Key[r]) \in SUBSET Requests
    BY KeyIsName DEF LockInv, SameKey, Queued, TurnHeld
  <1> QED
    BY <1>1, OneHead DEF LockInv, TurnQueues

\* A write adds one message at the end.
LEMMA WriteAdds ==
    ASSUME TypeInv, LockInv, NEW r \in Requests, Writes(r)
    PROVE  /\ Len(messages) + 1 \in DOMAIN messages' /\ messages'[Len(messages) + 1] = NewMessage(r)
           /\ \A i \in DOMAIN messages : i \in DOMAIN messages' /\ i < Len(messages) + 1 /\ messages'[i] = messages[i]
           /\ \A q \in Requests : \A role \in {"user", "agent"} :
                By(q, role)' = IF q = r /\ role = NewMessage(r).role
                               THEN By(q, role) \cup {Len(messages) + 1} ELSE By(q, role)
           /\ NewMessage(r).by = r
  <1>0. /\ messages \in Seq(Message) /\ NewMessage(r) \in Message /\ NewMessage(r).by = r
        /\ messages' = Append(messages, NewMessage(r))
    BY MessageType DEF TypeInv, TypeOK, LockInv, ReadIsCurrent, Writes, NewMessage
  <1>1. /\ DOMAIN messages = 1..Len(messages) /\ Len(messages) \in Nat
        /\ DOMAIN messages' = 1..(Len(messages) + 1)
        /\ messages'[Len(messages) + 1] = NewMessage(r)
        /\ \A i \in 1..Len(messages) : messages'[i] = messages[i]
    BY <1>0
  <1>2. ASSUME NEW q \in Requests, NEW role \in {"user", "agent"}
        PROVE  By(q, role)' = IF q = r /\ role = NewMessage(r).role
                               THEN By(q, role) \cup {Len(messages) + 1} ELSE By(q, role)
    <2>1. By(q, role)' = {i \in 1..(Len(messages) + 1) : messages'[i].by = q /\ messages'[i].role = role}
      BY <1>1 DEF By
    <2>2. By(q, role) = {i \in 1..Len(messages) : messages[i].by = q /\ messages[i].role = role}
      BY <1>1 DEF By
    <2>3. \A i \in 1..(Len(messages) + 1) : i \in 1..Len(messages) \/ i = Len(messages) + 1
      BY <1>1
    <2> QED
      BY <1>0, <1>1, <2>1, <2>2, <2>3
  <1> QED
    BY <1>0, <1>1, <1>2

LEMMA WritersStay ==
    ASSUME TypeInv, TypeInv', NEW r \in Requests, TurnEffect(r), Reads(r) \/ Writes(r)
    PROVE  turn' = turn
  <1>0. turn \in [Requests -> TurnType] /\ AppendPc /\ AppendPc'
    BY DEF TypeInv, TypeOK, TurnType
  <1>1. /\ turn[r].pc \in Saving /\ turn'[r].pc \in Saving
    BY <1>0 DEF Reads, Writes, AppendMoves, AppendPc
  <1>2. ~Queues(r) /\ ~IsOver(r) /\ ~GoesOn(r)
    BY <1>1 DEF Queues, IsOver, GoesOn, TurnMoves, Way, Saving
  <1> QED
    BY <1>2 DEF TurnEffect

LEMMA NotReplayable ==
    ASSUME TypeInv, Asked, NEW r \in Requests, NEW q \in Requests, SameKey(r, q), ~Replayable(r)
    PROVE  By(q, "agent") = {}
  <1> SUFFICES ASSUME By(q, "agent") # {} PROVE FALSE
    OBVIOUS
  <1> DEFINE Of == {j \in DOMAIN messages : SameKey(r, messages[j].by)}
             Roles == {messages[i].role : i \in Of}
  <1>1. PICK i \in By(q, "agent"), j \in By(q, "user") : TRUE
    BY DEF Asked
  <1>2. /\ i \in Of /\ messages[i].role = "agent" /\ j \in Of /\ messages[j].role = "user"
    BY <1>1 DEF By
  <1>3. \A k \in Of : messages[k].role \in {"user", "agent"}
    <2>1. messages \in Seq(Message)
      BY DEF TypeInv, TypeOK
    <2>2. \A k \in DOMAIN messages : messages[k] \in Message
      BY <2>1
    <2> QED
      BY <2>2 DEF Message
  <1>4. Roles = {"user", "agent"}
    BY <1>2, <1>3
  <1> QED
    BY <1>4 DEF Replayable

LEMMA TalkInit == Init => TalkInv
  BY DEF Init, TalkInv, UserKnown, Asked, Unanswered, By, Working, NoAppend

LEMMA TalkOfStep ==
    ASSUME TypeInv, TypeInv', LockInv, TalkInv, NEW r \in Requests, TurnEffect(r), MessageEffect(r)
    PROVE  TalkInv'
  <1>0. /\ turn \in [Requests -> TurnType] /\ turn' \in [Requests -> TurnType]
        /\ append \in [Requests -> AppendType] /\ AppendPc /\ AppendPc'
        /\ UserKnown /\ Asked /\ Unanswered
    BY DEF TypeInv, TypeOK, TurnType, AppendType, TalkInv
  <1>o. \A q \in Requests : q # r => turn'[q] = turn[q] /\ append'[q] = append[q]
    BY DEF TurnEffect, Queues, GoesOn, IsOver, TurnMoves,
           MessageEffect, Begins, Reads, Writes, Ends, AppendMoves
  <1>1. UserKnown'
    <2>1. CASE Queues(r)
      BY <1>0, <2>1 DEF Queues, TurnMoves, UserKnown
    <2>2. CASE GoesOn(r)
      BY <1>0, <2>2 DEF GoesOn, Way, TurnMoves, UserKnown, Saving
    <2>3. CASE IsOver(r)
      BY <1>0, <2>3 DEF IsOver, TurnMoves, UserKnown
    <2>4. CASE UNCHANGED <<turn, turnLock>>
      BY <1>0, <2>4 DEF UserKnown
    <2> QED
      BY <2>1, <2>2, <2>3, <2>4 DEF TurnEffect
  <1>2. CASE Writes(r)
    <2>1. turn' = turn
      BY <1>2, WritersStay
    <2>2. ASSUME NEW q \in Requests, NEW role \in {"user", "agent"}
          PROVE  By(q, role)' = IF q = r /\ role = NewMessage(r).role
                                 THEN By(q, role) \cup {Len(messages) + 1} ELSE By(q, role)
      BY <1>2, WriteAdds
    <2>3. \/ turn[r].pc = "saveUser" /\ NewMessage(r).role = "user"
          \/ turn[r].pc \in {"saveAnswer", "saveFailure"} /\ NewMessage(r).role = "agent"
      BY <1>0, <1>2 DEF Writes, AppendPc, Saving, NewMessage, At
    <2>4. Asked'
      BY <1>0, <1>o, <2>1, <2>2, <2>3 DEF Asked, UserKnown
    <2>5. ASSUME NEW p \in Requests, NEW q \in Requests, p # q, SameKey(p, q), Working(p)'
          PROVE  By(q, "agent")' = {}
      <3>1. Working(p) /\ By(q, "agent") = {}
        BY <1>0, <2>1, <2>5 DEF Working, Unanswered
      <3>2. CASE q = r /\ NewMessage(r).role = "agent"
        BY <2>3, <2>5, <3>1, <3>2, OneHolder DEF Working
      <3> QED
        BY <2>2, <3>1, <3>2
    <2> QED
      BY <1>1, <2>4, <2>5 DEF TalkInv, Unanswered, SameKey
  <1>3. CASE ~Writes(r)
    <2>1. messages' = messages /\ \A q \in Requests : \A role \in {"user", "agent"} : By(q, role)' = By(q, role)
      BY <1>3 DEF MessageEffect, Begins, Reads, Ends, By
    <2>2. append'[r].step = "touch" => append[r].step = "touch"
      BY <1>3 DEF MessageEffect, Begins, Reads, Ends, AppendMoves
    <2>3. turn'[r].user \/ (turn'[r].pc = "saveUser" /\ append'[r].step = "touch") =>
            turn[r].user \/ (turn[r].pc = "saveUser" /\ append[r].step = "touch")
      <3>1. CASE Queues(r)
        BY <3>1 DEF Queues, TurnMoves
      <3>2. CASE GoesOn(r)
        BY <1>0, <2>2, <3>2 DEF GoesOn, Way, TurnMoves, AppendPc, Saving
      <3>3. CASE IsOver(r)
        BY <3>3 DEF IsOver, TurnMoves
      <3>4. CASE UNCHANGED <<turn, turnLock>>
        BY <2>2, <3>4
      <3> QED
        BY <3>1, <3>2, <3>3, <3>4 DEF TurnEffect
    <2>4. Asked'
      BY <1>0, <1>o, <2>1, <2>3 DEF Asked
    <2>5. Working(r)' => Working(r) \/ ~Replayable(r)
      BY DEF TurnEffect, Queues, GoesOn, Way, IsOver, TurnMoves, Working, Saving
    <2>6. ASSUME NEW p \in Requests, NEW q \in Requests, p # q, SameKey(p, q), Working(p)'
          PROVE  By(q, "agent")' = {}
      <3>1. CASE Working(p)
        BY <1>0, <2>1, <2>6, <3>1 DEF Unanswered
      <3>2. CASE p = r /\ ~Replayable(r)
        BY <1>0, <2>1, <2>6, <3>2, NotReplayable
      <3>3. CASE p # r
        BY <1>o, <2>6, <3>1, <3>3 DEF Working
      <3> QED
        BY <2>5, <2>6, <3>1, <3>2, <3>3
    <2> QED
      BY <1>1, <2>4, <2>6 DEF TalkInv, Unanswered, SameKey
  <1> QED
    BY <1>2, <1>3

LEMMA TalkStep == TypeInv /\ TypeInv' /\ LockInv /\ TalkInv /\ [Next]_vars => TalkInv'
  <1> SUFFICES ASSUME TypeInv, TypeInv', LockInv, TalkInv, [Next]_vars PROVE TalkInv'
    OBVIOUS
  <1>1. ASSUME NEW r \in Requests, StepOf(r) PROVE TalkInv'
    BY <1>1, StepEffect, TalkOfStep
  <1>2. ASSUME Crash PROVE TalkInv'
    <2>1. /\ \A r \in Requests :
               /\ append'[r].step = "off" /\ turn'[r].pc \in {"new", "over"}
               /\ turn'[r].user = turn[r].user /\ (turn'[r].pc = "new" => turn'[r] = turn[r])
          /\ messages' = messages
      BY <1>2, CrashEffect
    <2>2. \A q \in Requests : \A role \in {"user", "agent"} : By(q, role)' = By(q, role)
      BY <2>1 DEF By
    <2> QED
      BY <2>1, <2>2 DEF TalkInv, UserKnown, Asked, Unanswered, Working
  <1>3. ASSUME UNCHANGED vars PROVE TalkInv'
    BY <1>3 DEF vars, TalkInv, UserKnown, Asked, Unanswered, Working, By
  <1> QED
    BY <1>1, <1>2, <1>3 DEF Next, StepOf

LEMMA TalkIsWorkedOnce == LockInv /\ TalkInv => WorkedOnce
  <1> SUFFICES ASSUME LockInv, TalkInv, NEW r \in Requests, NEW q \in Requests,
                      r # q, SameKey(r, q), Working(r)
               PROVE  ~Working(q) /\ By(q, "agent") = {}
    BY DEF WorkedOnce
  <1>1. By(q, "agent") = {}
    BY DEF TalkInv, Unanswered
  <1>2. ~Working(q)
    BY OneHolder DEF Working
  <1> QED
    BY <1>1, <1>2

\* What the work of a turn does is done once per key: no other request with the key works meanwhile,
\* and none has been answered before.
THEOREM WorkIsDoneOnce == Spec => []WorkedOnce
  <1>1. Init => TypeInv /\ LockInv /\ TalkInv
    BY TypeInit, LockInit, TalkInit
  <1>2. TypeInv /\ LockInv /\ TalkInv /\ [Next]_vars => (TypeInv /\ LockInv /\ TalkInv)'
    BY TypeStep, LockStep, TalkStep
  <1>3. TypeInv /\ LockInv /\ TalkInv => WorkedOnce
    BY TalkIsWorkedOnce
  <1> QED
    BY <1>1, <1>2, <1>3, PTL DEF Spec

-----------------------------------------------------------------------------
(* How far the messages of a turn are *)

Silent(r) == By(r, "user") = {} /\ By(r, "agent") = {}
AskedOnce(r) == \E i \in DOMAIN messages : By(r, "user") = {i} /\ By(r, "agent") = {}
Answered(r, reply) ==
    \E i, j \in DOMAIN messages :
      /\ i < j /\ By(r, "user") = {i} /\ By(r, "agent") = {j}
      /\ messages[j].status = reply

\* What the place of a turn and of its append tells about its messages.
Told(r) ==
    /\ turn[r].pc \in {"new", "lock", "replay"} => Silent(r)
    /\ turn[r].pc = "saveUser" => IF append[r].step = "touch" THEN AskedOnce(r) ELSE Silent(r)
    /\ turn[r].pc = "work" => AskedOnce(r)
    /\ turn[r].pc = "saveAnswer" => IF append[r].step = "touch" THEN Answered(r, "answered") ELSE AskedOnce(r)
    /\ turn[r].pc = "throw" => IF turn[r].user THEN AskedOnce(r) ELSE Silent(r)
    /\ turn[r].pc = "saveFailure" => IF append[r].step = "touch" THEN Answered(r, turn[r].reply) ELSE AskedOnce(r)
    /\ turn[r].pc = "over" => \/ Silent(r) /\ turn[r].reply \in {"replayed", "failed", "cancelled"}
                              \/ Answered(r, turn[r].reply)

ToldInv == \A r \in Requests \ harmed : Told(r)

LEMMA ToldInit == Init => ToldInv
  BY DEF Init, ToldInv, Told, Silent, By

\* While nobody writes, the messages of a turn stay what they are.
LEMMA SameTalk ==
    ASSUME messages' = messages, NEW r \in Requests
    PROVE  /\ Silent(r)' <=> Silent(r)
           /\ AskedOnce(r)' <=> AskedOnce(r)
           /\ \A reply : Answered(r, reply)' <=> Answered(r, reply)
  BY DEF Silent, AskedOnce, Answered, By

\* A write of another turn does not change them either.
LEMMA OthersTalk ==
    ASSUME TypeInv, LockInv, NEW q \in Requests, Writes(q), NEW r \in Requests, r # q
    PROVE  /\ Silent(r) => Silent(r)'
           /\ AskedOnce(r) => AskedOnce(r)'
           /\ \A reply : Answered(r, reply) => Answered(r, reply)'
  <1>1. /\ By(r, "user")' = By(r, "user") /\ By(r, "agent")' = By(r, "agent")
        /\ \A i \in DOMAIN messages : i \in DOMAIN messages' /\ messages'[i] = messages[i]
    BY WriteAdds
  <1> QED
    BY <1>1 DEF Silent, AskedOnce, Answered

LEMMA ToldOfOthers ==
    ASSUME TypeInv, LockInv, NEW q \in Requests, TurnEffect(q), MessageEffect(q),
           NEW r \in Requests, r # q, Told(r)
    PROVE  Told(r)'
  <1>1. turn'[r] = turn[r] /\ append'[r] = append[r]
    BY DEF TurnEffect, Queues, GoesOn, IsOver, TurnMoves,
           MessageEffect, Begins, Reads, Writes, Ends, AppendMoves
  <1>2. CASE Writes(q)
    BY <1>1, <1>2, OthersTalk DEF Told
  <1>3. CASE ~Writes(q)
    <2>1. messages' = messages
      BY <1>3 DEF MessageEffect, Begins, Reads, Ends
    <2> QED
      BY <1>1, <2>1, SameTalk DEF Told
  <1> QED
    BY <1>2, <1>3

LEMMA ToldOfWriter ==
    ASSUME TypeInv, TypeInv', LockInv, NEW r \in Requests, TurnEffect(r), Writes(r), Told(r)
    PROVE  Told(r)'
  <1>1. /\ turn' = turn /\ append[r].step = "write" /\ append'[r].step = "touch" /\ turn[r].pc \in Saving
    BY WritersStay DEF Writes, AppendMoves, TypeInv, AppendPc
  <1> DEFINE n == Len(messages) + 1
  <1>2. /\ n \in DOMAIN messages' /\ messages'[n] = NewMessage(r)
        /\ \A i \in DOMAIN messages : i \in DOMAIN messages' /\ i < n /\ messages'[i] = messages[i]
        /\ By(r, "user")' = IF NewMessage(r).role = "user" THEN By(r, "user") \cup {n} ELSE By(r, "user")
        /\ By(r, "agent")' = IF NewMessage(r).role = "agent" THEN By(r, "agent") \cup {n} ELSE By(r, "agent")
    BY WriteAdds
  <1> HIDE DEF n
  <1>3. CASE turn[r].pc = "saveUser"
    <2>1. NewMessage(r).role = "user" /\ Silent(r)
      BY <1>1, <1>3 DEF NewMessage, At, Told
    <2>2. AskedOnce(r)'
      BY <1>2, <2>1 DEF Silent, AskedOnce
    <2> QED
      BY <1>1, <1>3, <2>2 DEF Told
  <1>4. CASE turn[r].pc # "saveUser"
    <2>1. PICK i \in DOMAIN messages : By(r, "user") = {i} /\ By(r, "agent") = {}
      BY <1>1, <1>4 DEF Told, AskedOnce, Saving
    <2>2. /\ NewMessage(r).role = "agent"
          /\ NewMessage(r).status = IF turn[r].pc = "saveAnswer" THEN "answered" ELSE turn[r].reply
      BY <1>4 DEF NewMessage, At
    <2>3. By(r, "user")' = {i} /\ By(r, "agent")' = {n} /\ i \in DOMAIN messages' /\ i < n
      BY <1>2, <2>1, <2>2
    <2>4. Answered(r, IF turn[r].pc = "saveAnswer" THEN "answered" ELSE turn[r].reply)'
      BY <1>1, <1>2, <2>2, <2>3 DEF Answered
    <2> QED
      BY <1>1, <1>4, <2>4 DEF Told, Saving
  <1> QED
    BY <1>3, <1>4

LEMMA ToldOfTurn ==
    ASSUME TypeInv, TypeInv', TalkInv, NEW r \in Requests, r \notin harmed',
           TurnEffect(r), MessageEffect(r), ~Writes(r), Told(r)
    PROVE  Told(r)'
  <1>0. /\ AppendPc /\ AppendPc' /\ UserKnown /\ ThrownReply
        /\ messages' = messages
        /\ append'[r].step = "touch" => append[r].step = "touch"
    BY DEF TypeInv, TalkInv, MessageEffect, Begins, Reads, Ends, AppendMoves
  <1>1. /\ Silent(r)' <=> Silent(r)
        /\ AskedOnce(r)' <=> AskedOnce(r)
        /\ \A reply : Answered(r, reply)' <=> Answered(r, reply)
    BY <1>0, SameTalk
  <1>2. turn[r].pc \notin Saving => append'[r].step # "touch"
    BY <1>0 DEF AppendPc
  <1>3. CASE Queues(r)
    BY <1>1, <1>3 DEF Queues, TurnMoves, Told
  <1>4. CASE GoesOn(r)
    <2>1. PICK pc \in TurnPc, user \in BOOLEAN, reply \in Replies :
            Way(r, pc, user, reply) /\ TurnMoves(r, pc, user, reply)
      BY <1>4 DEF GoesOn
    <2>2. turn'[r].pc = pc /\ turn'[r].user = user /\ turn'[r].reply = reply
      BY <2>1 DEF TurnMoves
    <2>3. CASE turn[r].pc = "lock" /\ pc = "replay"
      BY <1>1, <2>2, <2>3 DEF Told
    <2>4. CASE turn[r].pc = "replay" /\ pc = "saveUser"
      BY <1>1, <1>2, <2>2, <2>4 DEF Told, Saving
    <2>5. CASE \/ turn[r].pc = "work" /\ pc = "saveAnswer"
               \/ turn[r].pc = "throw" /\ turn[r].user /\ pc = "saveFailure"
      BY <1>1, <1>2, <2>2, <2>5 DEF Told, Saving
    <2>6. CASE turn[r].pc = "saveUser" /\ pc = "work" /\ append[r].step = "touch"
      BY <1>1, <2>2, <2>6 DEF Told
    <2>7. CASE turn[r].pc \in {"lock", "replay"} /\ pc = "throw" /\ user = turn[r].user
      BY <1>0, <1>1, <2>2, <2>7 DEF Told, UserKnown
    <2>8. CASE turn[r].pc = "work" /\ pc = "throw" /\ user = turn[r].user
      BY <1>0, <1>1, <2>2, <2>8 DEF Told, UserKnown
    <2> QED
      BY <2>1, <2>3, <2>4, <2>5, <2>6, <2>7, <2>8 DEF Way
  <1>5. CASE IsOver(r)
    <2>1. PICK reply \in Replies : WayOut(r, reply) /\ TurnMoves(r, "over", turn[r].user, reply)
      BY <1>5 DEF IsOver
    <2>2. turn'[r].pc = "over" /\ turn'[r].reply = reply
      BY <2>1 DEF TurnMoves
    <2> QED
      BY <1>0, <1>1, <2>1, <2>2 DEF WayOut, Told, ThrownReply
  <1>6. CASE UNCHANGED <<turn, turnLock>>
    <2>1. turn'[r] = turn[r] /\ (turn[r].pc \in Saving => (append'[r].step = "touch" <=> append[r].step = "touch"))
      BY <1>0, <1>6 DEF MessageEffect, Begins, Reads, Ends, AppendMoves, AppendPc
    <2> QED
      BY <1>1, <2>1 DEF Told, Saving
  <1> QED
    BY <1>3, <1>4, <1>5, <1>6 DEF TurnEffect

LEMMA ToldStep == TypeInv /\ TypeInv' /\ LockInv /\ TalkInv /\ ToldInv /\ [Next]_vars => ToldInv'
  <1> SUFFICES ASSUME TypeInv, TypeInv', LockInv, TalkInv, ToldInv, [Next]_vars,
                      NEW r \in Requests, r \notin harmed'
               PROVE  Told(r)'
    BY DEF ToldInv
  <1>1. ASSUME NEW q \in Requests, StepOf(q) PROVE Told(r)'
    <2>1. TurnEffect(q) /\ MessageEffect(q) /\ Told(r)
      BY <1>1, StepEffect DEF ToldInv
    <2> QED
      BY <2>1, ToldOfOthers, ToldOfWriter, ToldOfTurn
  <1>2. ASSUME Crash PROVE Told(r)'
    <2>1. /\ turn'[r].pc \in {"new", "over"} /\ turn'[r] = turn[r]
          /\ messages' = messages /\ r \notin harmed
      BY <1>2, CrashEffect
    <2> QED
      BY <2>1, SameTalk DEF ToldInv, Told
  <1>3. ASSUME UNCHANGED vars PROVE Told(r)'
    <2>1. turn' = turn /\ append' = append /\ messages' = messages /\ harmed' = harmed
      BY <1>3 DEF vars
    <2> QED
      BY <2>1, SameTalk DEF ToldInv, Told
  <1> QED
    BY <1>1, <1>2, <1>3 DEF Next, StepOf

\* A turn that is over and whose appends all worked left either nothing or its user message and,
\* after it, one message of the agent that says what the client was told.
THEOREM EveryTurnIsAnswered == Spec => []TurnsAreAnswered
  <1>1. Init => TypeInv /\ LockInv /\ TalkInv /\ ToldInv
    BY TypeInit, LockInit, TalkInit, ToldInit
  <1>2. TypeInv /\ LockInv /\ TalkInv /\ ToldInv /\ [Next]_vars => (TypeInv /\ LockInv /\ TalkInv /\ ToldInv)'
    BY TypeStep, LockStep, TalkStep, ToldStep
  <1>3. ToldInv => TurnsAreAnswered
    BY DEF ToldInv, Told, Silent, Answered, TurnsAreAnswered, At
  <1> QED
    BY <1>1, <1>2, <1>3, PTL DEF Spec

=============================================================================
