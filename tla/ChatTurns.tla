------------------------------ MODULE ChatTurns ------------------------------
(***************************************************************************)
(* The turns of one chat session: SubmitHorusChatTurnUseCase over the file *)
(* store of messages.  A request with an idempotency key first queues for  *)
(* that key, then looks for a turn to replay, and only then saves its user *)
(* message, works (classification, agent loop, actions) and saves the      *)
(* answer.  Each append reads the messages and writes them back with one   *)
(* more, under a lock of the session.  Both locks are chains of promises:  *)
(* a newcomer waits for the one at the tail.                               *)
(***************************************************************************)
EXTENDS Naturals, Sequences, FiniteSets

CONSTANTS
    Requests,     \* turns submitted, by execute or by stream
    Key,          \* [Requests -> an idempotency key or NoKey]
    NoKey, Nobody,
    MaxTroubles   \* bound on the failing appends, the clients that leave and the crashes

ASSUME TurnsAssumption ==
    /\ DOMAIN Key = Requests /\ Nobody \notin Requests
    /\ MaxTroubles \in Nat

VARIABLES
    turn,         \* where each request is
    messages,     \* messages.json of the session
    turnLock,     \* activeTurnLocks: the tail per key, and whom each request waits for
    messageLock,  \* messageLocks
    append,       \* the append each request is in, and the messages it has read
    aborted,      \* the requests whose client has left
    harmed,       \* history: the requests a failing append or a crash got in the way of
    troubles

vars == <<turn, messages, turnLock, messageLock, append, aborted, harmed, troubles>>

Keys == {Key[r] : r \in Requests} \ {NoKey}

TurnPc == {"new", "lock", "replay", "saveUser", "work", "saveAnswer",
           "throw", "saveFailure", "over"}
Replies == {"none", "answered", "replayed", "failed", "cancelled", "lost"}
Message == [by : Requests, role : {"user", "agent"}, status : {"pending", "answered", "failed", "cancelled"}]

NoAppend == [step |-> "off", read |-> <<>>]
Free(names) == [ahead |-> [r \in Requests |-> Nobody], tail |-> [l \in names |-> Nobody]]

Init ==
    /\ turn = [r \in Requests |-> [pc |-> "new", user |-> FALSE, reply |-> "none"]]
    /\ messages = <<>>
    /\ turnLock = Free(Keys) /\ messageLock = Free({"messages"})
    /\ append = [r \in Requests |-> NoAppend]
    /\ aborted = {} /\ harmed = {}
    /\ troubles = 0

At(r, pc) == turn[r].pc = pc
Goto(r, pc) == turn' = [turn EXCEPT ![r].pc = pc]
Trouble == troubles < MaxTroubles /\ troubles' = troubles + 1
SameKey(r, q) == Key[r] # NoKey /\ Key[q] = Key[r]
By(r, role) == {i \in DOMAIN messages : messages[i].by = r /\ messages[i].role = role}

-----------------------------------------------------------------------------
(* Locks: a newcomer waits for the tail of the chain and becomes it. *)

Joined(lock, l, r) ==
    [ahead |-> [lock.ahead EXCEPT ![r] = lock.tail[l]], tail |-> [lock.tail EXCEPT ![l] = r]]

\* Wrong variant: whoever leaves removes the entry, also when another waits behind it.
LeftAlways(lock, l, r) ==
    [ahead |-> [q \in Requests |-> IF lock.ahead[q] = r THEN Nobody ELSE lock.ahead[q]],
     tail |-> [lock.tail EXCEPT ![l] = Nobody]]

\* The next in the chain goes on; the entry is removed by the last in it only.
Left(lock, l, r) ==
    [ahead |-> [q \in Requests |-> IF lock.ahead[q] = r THEN Nobody ELSE lock.ahead[q]],
     tail |-> [lock.tail EXCEPT ![l] = IF @ = r THEN Nobody ELSE @]]

Submit(r) ==
    /\ At(r, "new")
    /\ Goto(r, "lock")
    /\ turnLock' = IF Key[r] = NoKey THEN turnLock ELSE Joined(turnLock, Key[r], r)
    /\ UNCHANGED <<messages, messageLock, append, aborted, harmed, troubles>>

\* The end of a turn: its lock is released whatever happened.
Over(r, reply) ==
    /\ turn' = [turn EXCEPT ![r].pc = "over", ![r].reply = reply]
    /\ turnLock' = IF Key[r] = NoKey THEN turnLock ELSE Left(turnLock, Key[r], r)

-----------------------------------------------------------------------------
(* Messages *)

BeginAppend(r, pc) ==
    /\ Goto(r, pc)
    /\ append' = [append EXCEPT ![r] = [step |-> "read", read |-> <<>>]]
    /\ messageLock' = Joined(messageLock, "messages", r)

\* Wrong variant: the answer carries what the client has been told so far.
NewMessageTold(r) ==
    [by |-> r, role |-> IF At(r, "saveUser") THEN "user" ELSE "agent",
     status |-> IF At(r, "saveUser") THEN "pending" ELSE turn[r].reply]

\* What the append writes, by where in the turn it is.
NewMessage(r) ==
    [by |-> r, role |-> IF At(r, "saveUser") THEN "user" ELSE "agent",
     status |-> CASE At(r, "saveUser") -> "pending" [] At(r, "saveAnswer") -> "answered" [] OTHER -> turn[r].reply]

AppendReads(r) ==
    /\ append[r].step = "read" /\ messageLock.ahead[r] = Nobody
    /\ append' = [append EXCEPT ![r] = [step |-> "write", read |-> messages]]
    /\ UNCHANGED <<turn, messages, turnLock, messageLock, aborted, harmed, troubles>>

AppendWrites(r) ==
    /\ append[r].step = "write"
    /\ messages' = Append(append[r].read, NewMessage(r))
    /\ append' = [append EXCEPT ![r] = [step |-> "touch", read |-> <<>>]]
    /\ UNCHANGED <<turn, turnLock, messageLock, aborted, harmed, troubles>>

AppendEnds(r) ==
    /\ append' = [append EXCEPT ![r] = NoAppend]
    /\ messageLock' = Left(messageLock, "messages", r)

-----------------------------------------------------------------------------
(* A turn *)

Throw(r, how) ==
    /\ turn' = [turn EXCEPT ![r].pc = "throw", ![r].reply = how]
    /\ UNCHANGED <<turnLock, messageLock, append>>

\* throwIfAborted.
Cancelled(r) == r \in aborted /\ Throw(r, "cancelled")

\* The key is free; the context is read and the request checked against the scope of the session.
Locked(r) ==
    /\ At(r, "lock") /\ turnLock.ahead[r] = Nobody
    /\ \/ Cancelled(r)
       \/ r \notin aborted /\ Goto(r, "replay") /\ UNCHANGED <<turnLock, messageLock, append>>
       \/ r \notin aborted /\ Throw(r, "failed")
    /\ UNCHANGED <<messages, aborted, harmed, troubles>>

\* A user message and a message of the agent with the key; every message of the agent, also one
\* about a failure, has an intent and an outcome.
Replayable(r) ==
    LET Roles == {messages[i].role : i \in {j \in DOMAIN messages : SameKey(r, messages[j].by)}}
    IN  Roles = {"user", "agent"}

Replay(r) ==
    /\ At(r, "replay") /\ Replayable(r)
    /\ Over(r, "replayed")
    /\ UNCHANGED <<messages, messageLock, append, aborted, harmed, troubles>>

\* Otherwise the model is resolved, which may fail, and the user message is saved.
StartTurn(r) ==
    /\ At(r, "replay") /\ ~Replayable(r)
    /\ \/ Cancelled(r)
       \/ r \notin aborted /\ BeginAppend(r, "saveUser") /\ UNCHANGED turnLock
       \/ r \notin aborted /\ Throw(r, "failed")
    /\ UNCHANGED <<messages, aborted, harmed, troubles>>

\* The answer is made, or the classification, the context or an action throws.  A client that leaves
\* is noticed at the next look at the signal; after the last one the answer is saved all the same.
\* (An agent loop that fails answers with a fallback.)
Work(r) ==
    /\ At(r, "work")
    /\ \/ Cancelled(r)
       \/ BeginAppend(r, "saveAnswer") /\ UNCHANGED turnLock
       \/ Throw(r, "failed")
    /\ UNCHANGED <<messages, aborted, harmed, troubles>>

\* Wrong variant: the signal is looked at before the saved message is remembered.
UserSavedLate(r) ==
    turn' = [turn EXCEPT ![r].pc = IF r \in aborted THEN "throw" ELSE "work",
                         ![r].reply = IF r \in aborted THEN "cancelled" ELSE @,
                         ![r].user = r \notin aborted]

\* The work begins with the next look at the signal.
UserSaved(r) == turn' = [turn EXCEPT ![r].pc = "work", ![r].user = TRUE]

\* The list of sessions is written, the lock released, and the turn goes on.
AppendReturns(r) ==
    /\ append[r].step = "touch"
    /\ AppendEnds(r)
    /\ \/ At(r, "saveUser") /\ UserSaved(r) /\ UNCHANGED turnLock
       \/ At(r, "saveAnswer") /\ Over(r, "answered")
       \/ At(r, "saveFailure") /\ Over(r, turn[r].reply)
    /\ UNCHANGED <<messages, aborted, harmed, troubles>>

\* An append throws before or after it has written the messages; that of a failure is given up.
AppendFails(r) ==
    /\ append[r].step \in {"write", "touch"}
    /\ Trouble
    /\ AppendEnds(r)
    /\ \/ At(r, "saveFailure") /\ Over(r, turn[r].reply)
       \/ ~At(r, "saveFailure") /\ UNCHANGED turnLock
            /\ turn' = [turn EXCEPT ![r].pc = "throw", ![r].reply = "failed"]
    /\ harmed' = harmed \cup {r}
    /\ UNCHANGED <<messages, aborted>>

\* Wrong variant: a turn that throws before its message is saved keeps its lock.
CatchKeepsLock(r) ==
    /\ At(r, "throw")
    /\ IF turn[r].user THEN BeginAppend(r, "saveFailure") /\ UNCHANGED turnLock
       ELSE Goto(r, "over") /\ UNCHANGED <<turnLock, messageLock, append>>
    /\ UNCHANGED <<messages, aborted, harmed, troubles>>

\* Once the user message is known to be saved, the failure is saved too.
Catch(r) ==
    /\ At(r, "throw")
    /\ IF turn[r].user THEN BeginAppend(r, "saveFailure") /\ UNCHANGED turnLock
       ELSE Over(r, turn[r].reply) /\ UNCHANGED <<messageLock, append>>
    /\ UNCHANGED <<messages, aborted, harmed, troubles>>

-----------------------------------------------------------------------------
(* The client and the process *)

\* The connection closes: from now on the signal is aborted.
Disconnect(r) ==
    /\ ~At(r, "new") /\ ~At(r, "over") /\ r \notin aborted
    /\ Trouble
    /\ aborted' = aborted \cup {r}
    /\ UNCHANGED <<turn, messages, turnLock, messageLock, append, harmed>>

\* The messages stay; the turns in flight and the locks are lost.
Crash ==
    /\ Trouble
    /\ LET Lost == {r \in Requests : ~At(r, "new") /\ ~At(r, "over")}
       IN  /\ turn' = [r \in Requests |-> IF r \in Lost THEN [turn[r] EXCEPT !.pc = "over", !.reply = "lost"]
                                          ELSE turn[r]]
           /\ harmed' = harmed \cup Lost
    /\ turnLock' = Free(Keys) /\ messageLock' = Free({"messages"})
    /\ append' = [r \in Requests |-> NoAppend]
    /\ UNCHANGED <<messages, aborted>>

Step(r) ==
    \/ Locked(r) \/ Replay(r) \/ StartTurn(r) \/ Work(r) \/ Catch(r)
    \/ AppendReads(r) \/ AppendWrites(r) \/ AppendReturns(r)

Next ==
    \/ \E r \in Requests : Submit(r) \/ Step(r) \/ AppendFails(r) \/ Disconnect(r)
    \/ Crash

Spec == Init /\ [][Next]_vars

\* The process runs, and the models, tools and stores a turn calls return or fail.
Fairness == \A r \in Requests : WF_vars(Step(r))

FairSpec == Spec /\ Fairness

-----------------------------------------------------------------------------
TypeOK ==
    /\ turn \in [Requests -> [pc : TurnPc, user : BOOLEAN, reply : Replies]]
    /\ messages \in Seq(Message)
    /\ turnLock \in [ahead : [Requests -> Requests \cup {Nobody}], tail : [Keys -> Requests \cup {Nobody}]]
    /\ messageLock \in [ahead : [Requests -> Requests \cup {Nobody}],
                         tail : [{"messages"} -> Requests \cup {Nobody}]]
    /\ append \in [Requests -> [step : {"off", "read", "write", "touch"}, read : Seq(Message)]]
    /\ aborted \subseteq Requests /\ harmed \subseteq Requests
    /\ troubles \in 0..MaxTroubles

Working(r) == turn[r].pc \in {"saveUser", "work", "saveAnswer"}

\* While a turn works, no other request with its key works, and none has been answered: what the work
\* does to files, runs and previews is done once per key, except for turns a crash or a failing append
\* cut off before the answer was there.
WorkedOnce ==
    \A r, q \in Requests : (r # q /\ SameKey(r, q) /\ Working(r)) => ~Working(q) /\ By(q, "agent") = {}

\* Whoever shares the session or the key, the client leaves or the work throws: when a turn is over
\* and no append of its own failed, its user message, if it got as far, is followed by exactly one
\* message of the agent that says what the client was told.
TurnsAreAnswered ==
    \A r \in Requests \ harmed : At(r, "over") =>
        \/ By(r, "user") = {} /\ By(r, "agent") = {} /\ turn[r].reply \in {"replayed", "failed", "cancelled"}
        \/ \E i, j \in DOMAIN messages :
             /\ i < j /\ By(r, "user") = {i} /\ By(r, "agent") = {j}
             /\ messages[j].status = turn[r].reply

\* Every turn that waits for its key gets it and comes to an end, however those before it ended.
TurnsEnd == \A r \in Requests : At(r, "lock") ~> At(r, "over")

=============================================================================
