------------------------- MODULE PreviewSessionsProofs -------------------------
(***************************************************************************)
(* Proofs about the previews, for every set of sessions, requests and      *)
(* children, every way requests meet, and every number of crashes, failing *)
(* saves and failing spawns.                                               *)
(***************************************************************************)
EXTENDS PreviewSessions, TLAPS

ChildType == [of : Sessions \cup {None}, alive : BOOLEAN, ready : BOOLEAN, closed : BOOLEAN]
RequestType == [kind : Kinds, of : Sessions \cup {None}, pc : Pc, snap : Records,
                child : Children \cup {None}, mine : BOOLEAN]

-----------------------------------------------------------------------------
(* The inductive invariant *)

Lives(s) == {p \in Children : child[p].of = s /\ child[p].alive}
Open(s) == {p \in Children : child[p].of = s /\ ~child[p].closed}

\* A child of this server is open as long as it lives; one of a former server is closed.
ChildOK(p) ==
    /\ child[p].of = None => child[p].closed
    /\ child[p].of # None /\ child[p].alive => ~child[p].closed

\* What a process id means: whoever holds one for a session holds a child spawned for that session.
Ours(s, p) == p # None => child[p].of = s

RequestOK(r) ==
    /\ request[r].pc = "idle" => request[r] = Idle
    /\ request[r].pc # "idle" =>
         /\ request[r].of \in Sessions /\ record[request[r].of].status # "none" /\ booting = {}
         /\ Ours(request[r].of, request[r].child) /\ Ours(request[r].of, request[r].snap.pid)
    /\ request[r].kind = "stop" => request[r].pc \in {"read", "term", "kill", "save"}
    /\ request[r].kind = "device" => request[r].pc \in {"idle", "read"}
    /\ request[r].kind = "reload" =>
         request[r].pc \in {"read", "wait", "save", "fail"} /\ ~request[r].mine /\ request[r].snap.status # "none"
    /\ request[r].kind # "stop" /\ request[r].pc = "read" => request[r].snap.status # "none"
    /\ request[r].pc \in {"wait", "term", "kill"} => request[r].child # None

SessionOK(s) ==
    /\ Ours(s, managed[s])
    /\ s \notin booting => Ours(s, record[s].pid)
    /\ record[s].status = "none" => record[s].pid = None
    /\ booting # {} => Lives(s) = {} /\ Open(s) = {}
    /\ s \in booting => record[s].status # "none"

\* A record that is true of the living children of s.
Fits(s, rec) ==
    \A p \in Lives(s) : rec.status \notin {"none", "waiting", "stopped"} /\ rec.pid \in {p, None}

\* What the one request on an orderly session relies on.
Stage(s, r) ==
    /\ request[r].pc = "read" =>
         Fits(s, record[s]) /\ (request[r].kind # "stop" => Fits(s, request[r].snap))
    /\ request[r].kind = "reload" => Fits(s, record[s]) /\ Fits(s, request[r].snap)
    /\ request[r].pc \in {"probe", "spawn"} => Open(s) = {}
    /\ request[r].pc \in {"wait", "term", "kill"} => managed[s] \in {request[r].child, None}
    /\ request[r].pc = "save" =>
         /\ request[r].kind = "start" => Lives(s) \subseteq {request[r].child}
         /\ request[r].kind = "stop" => Lives(s) = {}

OrderlyOK(s) == orderly[s] =>
    /\ \A r, q \in Requests : request[r].of = s /\ request[q].of = s => r = q
    /\ \A p \in Open(s) : managed[s] = p
    /\ ~InFlight(s) => Fits(s, record[s])
    /\ \A r \in Requests : request[r].of = s => Stage(s, r)

Inv ==
    /\ \A p \in Children : ChildOK(p)
    /\ \A r \in Requests : RequestOK(r)
    /\ \A s \in Sessions : SessionOK(s) /\ OrderlyOK(s)

-----------------------------------------------------------------------------
(* Types *)

LEMMA Typing == TypeOK =>
    /\ record \in [Sessions -> Records] /\ child \in [Children -> ChildType]
    /\ managed \in [Sessions -> Children \cup {None}] /\ request \in [Requests -> RequestType]
    /\ booting \subseteq Sessions /\ orderly \in [Sessions -> BOOLEAN] /\ troubles \in 0..MaxTroubles
  BY DEF TypeOK, ChildType, RequestType

LEMMA TypingBack ==
    ASSUME record' \in [Sessions -> Records], child' \in [Children -> ChildType],
           managed' \in [Sessions -> Children \cup {None}], request' \in [Requests -> RequestType],
           booting' \subseteq Sessions, orderly' \in [Sessions -> BOOLEAN], troubles' \in 0..MaxTroubles, Inv'
    PROVE  TypeOK'
  BY DEF TypeOK, ChildType, RequestType, Inv, RequestOK

LEMMA Troubled == TypeOK /\ Trouble => troubles' \in 0..MaxTroubles
  BY PreviewAssumption DEF TypeOK, Trouble

LEMMA Constants ==
    /\ None \notin Sessions /\ None \notin Children
    /\ NoRecord \in Records /\ NoRecord.pid = None /\ NoRecord.status = "none"
    /\ Idle \in RequestType /\ Idle.pc = "idle" /\ Idle.of = None /\ Idle.kind = "device"
    /\ Idle.child = None /\ Idle.snap = NoRecord /\ Idle.mine = FALSE
    /\ NoChild \in ChildType /\ NoChild.of = None /\ NoChild.closed = TRUE /\ NoChild.alive = FALSE
  <1>1. NoRecord \in Records /\ NoRecord.pid = None /\ NoRecord.status = "none"
    BY DEF NoRecord, Records, Status
  <1>2. /\ Idle \in RequestType /\ Idle.pc = "idle" /\ Idle.of = None /\ Idle.kind = "device"
        /\ Idle.child = None /\ Idle.snap = NoRecord /\ Idle.mine = FALSE
    BY <1>1 DEF Idle, RequestType, Kinds, Pc
  <1>3. NoChild \in ChildType /\ NoChild.of = None /\ NoChild.closed = TRUE /\ NoChild.alive = FALSE
    BY DEF NoChild, ChildType
  <1> QED
    BY <1>1, <1>2, <1>3, PreviewAssumption

\* The request r becomes x.
Becomes(r, x) ==
    /\ request' \in [Requests -> RequestType] /\ request'[r] = x
    /\ \A q \in Requests : q # r => request'[q] = request[q]

LEMMA PutRequest ==
    ASSUME request \in [Requests -> RequestType], NEW r \in Requests, NEW x \in RequestType,
           request' = [request EXCEPT ![r] = x]
    PROVE  Becomes(r, x)
  BY DEF Becomes

\* A step of r that leaves kind and session alone.
Moves(r, pc, snap, p, mine) ==
    /\ request' \in [Requests -> RequestType]
    /\ request'[r].kind = request[r].kind /\ request'[r].of = request[r].of
    /\ request'[r].pc = pc /\ request'[r].snap = snap /\ request'[r].child = p /\ request'[r].mine = mine
    /\ \A q \in Requests : q # r => request'[q] = request[q]

LEMMA GotoMoves ==
    ASSUME request \in [Requests -> RequestType], NEW r \in Requests, NEW pc \in Pc, Goto(r, pc)
    PROVE  Moves(r, pc, request[r].snap, request[r].child, request[r].mine)
  BY DEF Goto, Moves, RequestType

LEMMA ChildMoves ==
    ASSUME request \in [Requests -> RequestType], NEW r \in Requests, NEW pc \in Pc, NEW p \in Children \cup {None},
           request' = [request EXCEPT ![r].pc = pc, ![r].child = p]
    PROVE  Moves(r, pc, request[r].snap, p, request[r].mine)
  <1> DEFINE x == [request[r] EXCEPT !.pc = pc, !.child = p]
  <1>1. /\ x \in RequestType /\ x.kind = request[r].kind /\ x.of = request[r].of /\ x.pc = pc
        /\ x.snap = request[r].snap /\ x.child = p /\ x.mine = request[r].mine
    BY DEF RequestType
  <1>2. request'[r] = x /\ request' = [q \in Requests |-> request'[q]]
        /\ \A q \in Requests : q # r => request'[q] = request[q]
    OBVIOUS
  <1> HIDE DEF x
  <1> QED
    BY <1>1, <1>2 DEF Moves

LEMMA MineMoves ==
    ASSUME request \in [Requests -> RequestType], NEW r \in Requests, NEW p \in Children,
           request' = [request EXCEPT ![r].pc = "wait", ![r].child = p, ![r].mine = TRUE]
    PROVE  Moves(r, "wait", request[r].snap, p, TRUE)
  <1> DEFINE x == [request[r] EXCEPT !.pc = "wait", !.child = p, !.mine = TRUE]
  <1>1. /\ x \in RequestType /\ x.kind = request[r].kind /\ x.of = request[r].of /\ x.pc = "wait"
        /\ x.snap = request[r].snap /\ x.child = p /\ x.mine = TRUE
    BY DEF RequestType, Pc
  <1>2. request'[r] = x /\ request' = [q \in Requests |-> request'[q]]
        /\ \A q \in Requests : q # r => request'[q] = request[q]
    OBVIOUS
  <1> HIDE DEF x
  <1> QED
    BY <1>1, <1>2 DEF Moves

LEMMA SnapMoves ==
    ASSUME request \in [Requests -> RequestType], NEW r \in Requests,
           request' = [request EXCEPT ![r].pc = "look", ![r].snap = NoRecord]
    PROVE  Moves(r, "look", NoRecord, request[r].child, request[r].mine)
  <1> DEFINE x == [request[r] EXCEPT !.pc = "look", !.snap = NoRecord]
  <1>1. /\ x \in RequestType /\ x.kind = request[r].kind /\ x.of = request[r].of /\ x.pc = "look"
        /\ x.snap = NoRecord /\ x.child = request[r].child /\ x.mine = request[r].mine
    BY Constants DEF RequestType, Pc
  <1>2. request'[r] = x /\ request' = [q \in Requests |-> request'[q]]
        /\ \A q \in Requests : q # r => request'[q] = request[q]
    OBVIOUS
  <1> HIDE DEF x
  <1> QED
    BY <1>1, <1>2 DEF Moves

LEMMA PutRecord ==
    ASSUME record \in [Sessions -> Records], NEW s \in Sessions, NEW rec \in Records,
           record' = [record EXCEPT ![s] = rec]
    PROVE  /\ record' \in [Sessions -> Records] /\ record'[s] = rec
           /\ \A t \in Sessions : t # s => record'[t] = record[t]
  OBVIOUS

-----------------------------------------------------------------------------
(* What a step of one request leaves alone *)

\* A child changes its session only when nothing refers to it.
SameOwners == \A p \in Children : child'[p].of # child[p].of => Free(p)

Shrinks(t) == Lives(t)' \subseteq Lives(t) /\ Open(t)' \subseteq Open(t)

LEMMA SameChildren ==
    ASSUME TypeOK, Inv, UNCHANGED child
    PROVE  /\ SameOwners
           /\ \A t \in Sessions : Shrinks(t)
           /\ \A p \in Children : ChildOK(p)'
  BY DEF SameOwners, Shrinks, Lives, Open, Inv, ChildOK

LEMMA Referred ==
    ASSUME TypeOK, NEW p \in Children
    PROVE  /\ \A s \in Sessions : record[s].pid = p \/ managed[s] = p => ~Free(p)
           /\ \A r \in Requests : request[r].child = p \/ request[r].snap.pid = p => ~Free(p)
           /\ child[p].alive \/ ~child[p].closed => ~Free(p)
  BY DEF Free

LEMMA PidTypes ==
    ASSUME TypeOK
    PROVE  /\ \A s \in Sessions : record[s] \in Records /\ record[s].pid \in Children \cup {None}
                                  /\ managed[s] \in Children \cup {None} /\ orderly[s] \in BOOLEAN
           /\ \A r \in Requests : /\ request[r] \in RequestType
                                  /\ request[r].child \in Children \cup {None}
                                  /\ request[r].snap \in Records /\ request[r].snap.pid \in Children \cup {None}
  <1>1. \A x \in Records : x.pid \in Children \cup {None}
    BY DEF Records
  <1>2. \A x \in RequestType : x.child \in Children \cup {None} /\ x.snap \in Records
    BY DEF RequestType
  <1> QED
    BY <1>1, <1>2, Typing

\* The other requests.
LEMMA OtherRequest ==
    ASSUME TypeOK, Inv, SameOwners, NEW q \in Requests, request'[q] = request[q], UNCHANGED booting,
           request[q].pc # "idle" => record'[request[q].of].status # "none"
    PROVE  RequestOK(q)'
  <1>1. RequestOK(q) /\ request[q].child \in Children \cup {None} /\ request[q].snap.pid \in Children \cup {None}
    BY PidTypes DEF Inv
  <1>2. ASSUME request[q].pc # "idle"
        PROVE  Ours(request[q].of, request[q].child)' /\ Ours(request[q].of, request[q].snap.pid)'
    <2>1. /\ request[q].of \in Sessions
          /\ Ours(request[q].of, request[q].child) /\ Ours(request[q].of, request[q].snap.pid)
      BY <1>1, <1>2 DEF RequestOK
    <2>2. /\ request[q].child # None => ~Free(request[q].child)
          /\ request[q].snap.pid # None => ~Free(request[q].snap.pid)
      BY <1>1, Referred
    <2> QED
      BY <1>1, <2>1, <2>2 DEF Ours, SameOwners
  <1> QED
    BY <1>1, <1>2 DEF RequestOK

\* The other sessions.
LEMMA OtherSession ==
    ASSUME TypeOK, Inv, SameOwners, NEW t \in Sessions, UNCHANGED booting, Shrinks(t),
           record'[t] = record[t], managed'[t] = managed[t]
    PROVE  SessionOK(t)'
  <1>1. /\ SessionOK(t) /\ record[t].pid \in Children \cup {None} /\ managed[t] \in Children \cup {None}
    BY PidTypes DEF Inv
  <1>2. /\ record[t].pid # None => ~Free(record[t].pid)
        /\ managed[t] # None => ~Free(managed[t])
    BY <1>1, Referred
  <1>3. Ours(t, managed[t])' /\ (t \notin booting => Ours(t, record[t].pid)')
    BY <1>1, <1>2 DEF Ours, SameOwners, SessionOK
  <1>4. booting # {} => Lives(t)' = {} /\ Open(t)' = {}
    BY <1>1 DEF SessionOK, Shrinks
  <1> QED
    BY <1>1, <1>3, <1>4 DEF SessionOK

LEMMA StageStays ==
    ASSUME NEW t, NEW q, Shrinks(t), record'[t] = record[t], request'[q] = request[q],
           managed'[t] = managed[t] \/ managed'[t] = None, Stage(t, q)
    PROVE  Stage(t, q)'
  <1>1. /\ Fits(t, record[t]) => Fits(t, record[t])'
        /\ Fits(t, request[q].snap) => Fits(t, request[q].snap)'
    BY DEF Fits, Shrinks
  <1>2. /\ Open(t) = {} => Open(t)' = {}
        /\ Lives(t) \subseteq {request[q].child} => Lives(t)' \subseteq {request'[q].child}
        /\ Lives(t) = {} => Lives(t)' = {}
    BY DEF Shrinks
  <1> QED
    BY <1>1, <1>2 DEF Stage

LEMMA OtherOrderly ==
    ASSUME TypeOK, Inv, NEW t \in Sessions, Shrinks(t), orderly'[t] => orderly[t],
           record'[t] = record[t], managed'[t] = managed[t],
           \A q \in Requests : request[q].of = t \/ request'[q].of = t => request'[q] = request[q]
    PROVE  OrderlyOK(t)'
  <1> SUFFICES ASSUME orderly'[t]
               PROVE  /\ \A r, q \in Requests : request'[r].of = t /\ request'[q].of = t => r = q
                      /\ \A p \in Open(t)' : managed'[t] = p
                      /\ ~InFlight(t)' => Fits(t, record[t])'
                      /\ \A r \in Requests : request'[r].of = t => Stage(t, r)'
    BY DEF OrderlyOK
  <1>1. /\ \A r, q \in Requests : request[r].of = t /\ request[q].of = t => r = q
        /\ \A p \in Open(t) : managed[t] = p
        /\ ~InFlight(t) => Fits(t, record[t])
        /\ \A r \in Requests : request[r].of = t => Stage(t, r)
    BY DEF Inv, OrderlyOK
  <1>2. \A r, q \in Requests : request'[r].of = t /\ request'[q].of = t => r = q
    BY <1>1
  <1>3. \A p \in Open(t)' : managed'[t] = p
    BY <1>1 DEF Shrinks
  <1>4. ~InFlight(t)' => Fits(t, record[t])'
    <2>1. ~InFlight(t)' => ~InFlight(t)
      BY DEF InFlight
    <2> QED
      BY <1>1, <2>1 DEF Fits, Shrinks
  <1>5. \A r \in Requests : request'[r].of = t => Stage(t, r)'
    BY <1>1, StageStays
  <1> QED
    BY <1>2, <1>3, <1>4, <1>5

\* The parts of Inv that a step of the request r of the session s cannot disturb.
LEMMA Rest ==
    ASSUME TypeOK, Inv, SameOwners, UNCHANGED booting, NEW r \in Requests, NEW s \in Sessions,
           request[r].of = s \/ request[r].of = None, request'[r].of = s \/ request'[r].of = None,
           record'[s].status # "none",
           \A q \in Requests : q # r => request'[q] = request[q],
           \A t \in Sessions : t # s =>
             record'[t] = record[t] /\ managed'[t] = managed[t] /\ orderly'[t] = orderly[t] /\ Shrinks(t)
    PROVE  /\ \A q \in Requests : q # r => RequestOK(q)'
           /\ \A t \in Sessions : t # s => SessionOK(t)' /\ OrderlyOK(t)'
  <1>1. ASSUME NEW q \in Requests, q # r
        PROVE  RequestOK(q)'
    <2>1. request[q].pc # "idle" => record'[request[q].of].status # "none"
      BY DEF Inv, RequestOK
    <2> QED
      BY <1>1, <2>1, OtherRequest
  <1>2. ASSUME NEW t \in Sessions, t # s
        PROVE  SessionOK(t)' /\ OrderlyOK(t)'
    <2>1. SessionOK(t)'
      BY <1>2, OtherSession
    <2>2. \A q \in Requests : request[q].of = t \/ request'[q].of = t => request'[q] = request[q]
      BY <1>2, Constants
    <2> QED
      BY <1>2, <2>1, <2>2, OtherOrderly
  <1> QED
    BY <1>1, <1>2

-----------------------------------------------------------------------------
(* Steps that touch neither a child nor the adapter's processes *)

\* What a request at work knows.
LEMMA Working ==
    ASSUME TypeOK, Inv, NEW r \in Requests, request[r].pc # "idle"
    PROVE  /\ request[r].of \in Sessions /\ request[r].of # None
           /\ record[request[r].of].status # "none" /\ booting = {}
           /\ SessionOK(request[r].of) /\ OrderlyOK(request[r].of) /\ RequestOK(r)
           /\ orderly[request[r].of] =>
                Stage(request[r].of, r) /\ \A q \in Requests : request[q].of = request[r].of => q = r
  <1>1. RequestOK(r) /\ request[r].of \in Sessions
    BY DEF Inv, RequestOK
  <1>2. SessionOK(request[r].of) /\ OrderlyOK(request[r].of)
    BY <1>1 DEF Inv
  <1>3. record[request[r].of].status # "none" /\ booting = {} /\ request[r].of # None
    BY <1>1, Constants DEF RequestOK
  <1>4. orderly[request[r].of] =>
          Stage(request[r].of, r) /\ \A q \in Requests : request[q].of = request[r].of => q = r
    BY <1>2 DEF OrderlyOK
  <1> QED
    BY <1>1, <1>2, <1>3, <1>4

\* The request goes on.
LEMMA Onward ==
    ASSUME TypeOK, Inv, NEW r \in Requests, request[r].pc # "idle", NEW s \in Sessions, request[r].of = s,
           NEW pc, NEW snap, NEW p, NEW mine, Moves(r, pc, snap, p, mine),
           UNCHANGED <<record, booting>>, troubles' \in 0..MaxTroubles,
           child' \in [Children -> ChildType], SameOwners, \A c \in Children : ChildOK(c)',
           managed' \in [Sessions -> Children \cup {None}], Ours(s, managed[s])',
           orderly' \in [Sessions -> BOOLEAN],
           \A t \in Sessions : t # s => managed'[t] = managed[t] /\ orderly'[t] = orderly[t] /\ Shrinks(t),
           RequestOK(r)',
           orderly'[s] => orderly[s] /\ Stage(s, r)' /\ \A c \in Open(s)' : managed'[s] = c
    PROVE  TypeOK' /\ Inv'
  <1>1. /\ booting = {} /\ SessionOK(s) /\ record[s].status # "none"
        /\ record[s].pid \in Children \cup {None}
        /\ orderly[s] => \A q \in Requests : request[q].of = s => q = r
    BY Working, PidTypes
  <1>2. request'[r].of = s /\ \A q \in Requests : q # r => request'[q] = request[q]
    BY DEF Moves
  <1>3. /\ \A q \in Requests : q # r => RequestOK(q)'
        /\ \A t \in Sessions : t # s => SessionOK(t)' /\ OrderlyOK(t)'
    BY <1>1, <1>2, Rest
  <1>4. SessionOK(s)'
    <2>1. record[s].pid # None => ~Free(record[s].pid)
      BY <1>1, Referred
    <2>2. Ours(s, record[s].pid)'
      BY <1>1, <2>1 DEF SessionOK, Ours, SameOwners
    <2> QED
      BY <1>1, <2>2 DEF SessionOK
  <1>5. OrderlyOK(s)'
    <2>1. InFlight(s)'
      BY <1>2 DEF InFlight
    <2>2. \A q \in Requests : orderly[s] /\ request'[q].of = s => q = r
      BY <1>1, <1>2
    <2> QED
      BY <2>1, <2>2 DEF OrderlyOK
  <1>6. Inv'
    BY <1>3, <1>4, <1>5 DEF Inv
  <1>7. TypeOK'
    BY <1>6, Typing, TypingBack DEF Moves
  <1> QED
    BY <1>6, <1>7

\* It goes on, and changes nothing but itself.
LEMMA GoesOn ==
    ASSUME TypeOK, Inv, NEW r \in Requests, request[r].pc # "idle",
           NEW pc, NEW snap, NEW p, NEW mine, Moves(r, pc, snap, p, mine),
           UNCHANGED <<record, child, managed, booting, orderly, troubles>>,
           NEW s \in Sessions, request[r].of = s, RequestOK(r)', orderly[s] => Stage(s, r)'
    PROVE  TypeOK' /\ Inv'
  <1>1. SessionOK(s) /\ OrderlyOK(s)
    BY DEF Inv
  <1>2. SameOwners /\ (\A t \in Sessions : Shrinks(t)) /\ \A c \in Children : ChildOK(c)'
    BY SameChildren
  <1>3. Ours(s, managed[s])'
    BY <1>1 DEF SessionOK, Ours
  <1>4. orderly[s] => \A c \in Open(s)' : managed'[s] = c
    BY <1>1, <1>2 DEF OrderlyOK, Shrinks
  <1> QED
    BY <1>2, <1>3, <1>4, Typing, Onward

\* The request ends, having saved rec or nothing.
LEMMA Ends ==
    ASSUME TypeOK, Inv, NEW r \in Requests, request[r].pc # "idle", End(r),
           NEW rec \in Records, rec.status # "none", Ours(request[r].of, rec.pid),
           record' = [record EXCEPT ![request[r].of] = rec] \/ (rec = record[request[r].of] /\ UNCHANGED record),
           UNCHANGED <<child, managed, booting>>, troubles' \in 0..MaxTroubles,
           orderly' \in [Sessions -> BOOLEAN],
           \A t \in Sessions : t # request[r].of => orderly'[t] = orderly[t],
           orderly'[request[r].of] => orderly[request[r].of] /\ Fits(request[r].of, rec)
    PROVE  TypeOK' /\ Inv'
  <1>0. PICK s \in Sessions : s = request[r].of
    BY Working
  <1>1. /\ s \in Sessions /\ s # None /\ SessionOK(s) /\ OrderlyOK(s) /\ record[s].status # "none" /\ booting = {}
        /\ orderly[s] => \A q \in Requests : request[q].of = s => q = r
    BY <1>0, Working
  <1>2. Becomes(r, Idle)
    BY Typing, Constants, PutRequest DEF End
  <1>3. request'[r] = Idle /\ \A q \in Requests : q # r => request'[q] = request[q]
    BY <1>2 DEF Becomes
  <1>4. SameOwners /\ (\A t \in Sessions : Shrinks(t)) /\ \A c \in Children : ChildOK(c)'
    BY SameChildren
  <1>5. record' \in [Sessions -> Records] /\ record'[s] = rec /\ \A t \in Sessions : t # s => record'[t] = record[t]
    <2>1. record' = [record EXCEPT ![s] = rec] \/ (rec = record[s] /\ UNCHANGED record)
      BY <1>0
    <2> QED
      BY <1>1, <2>1, Typing, PutRecord
  <1>6. /\ \A q \in Requests : q # r => RequestOK(q)'
        /\ \A t \in Sessions : t # s => SessionOK(t)' /\ OrderlyOK(t)'
    <2>1. /\ request[r].of = s /\ request'[r].of = None
          /\ \A t \in Sessions : t # s => orderly'[t] = orderly[t]
      BY <1>0, <1>3, Constants
    <2> QED
      BY <1>1, <1>3, <1>4, <1>5, <2>1, Rest
  <1>7. RequestOK(r)'
    BY <1>3, Constants DEF RequestOK, Idle
  <1>8. SessionOK(s)'
    <2>1. Ours(s, rec.pid)
      BY <1>0
    <2> QED
      BY <1>1, <1>5, <2>1 DEF SessionOK, Ours
  <1>9. OrderlyOK(s)'
    <2>1. \A q \in Requests : orderly'[s] => request'[q].of # s
      BY <1>0, <1>1, <1>3, Constants
    <2>2. ASSUME orderly'[s]
          PROVE  (\A p \in Open(s)' : managed'[s] = p) /\ Fits(s, record[s])'
      <3>1. orderly[s] /\ Fits(s, rec)
        BY <1>0, <2>2
      <3> QED
        BY <1>1, <1>4, <1>5, <3>1 DEF OrderlyOK, Shrinks, Fits
    <2> QED
      BY <2>1, <2>2 DEF OrderlyOK
  <1>10. Inv'
    BY <1>4, <1>6, <1>7, <1>8, <1>9 DEF Inv
  <1>11. TypeOK'
    BY <1>2, <1>5, <1>10, Typing, TypingBack DEF Becomes
  <1> QED
    BY <1>10, <1>11

LEMMA Saves ==
    ASSUME TypeOK, Inv, NEW r \in Requests, request[r].pc # "idle", NEW rec \in Records, SaveAndEnd(r, rec),
           rec.status # "none", Ours(request[r].of, rec.pid),
           orderly[request[r].of] => Fits(request[r].of, rec)
    PROVE  TypeOK' /\ Inv'
  <1>1. troubles' \in 0..MaxTroubles /\ orderly' = orderly /\ orderly \in [Sessions -> BOOLEAN]
    BY Typing DEF SaveAndEnd
  <1> QED
    BY <1>1, Ends DEF SaveAndEnd

\* The request ends and saves nothing: what the record said is still true.
LEMMA Leaves ==
    ASSUME TypeOK, Inv, NEW r \in Requests, request[r].pc # "idle", End(r),
           UNCHANGED <<record, child, managed, booting>>, troubles' \in 0..MaxTroubles,
           orderly' \in [Sessions -> BOOLEAN],
           \A t \in Sessions : t # request[r].of => orderly'[t] = orderly[t],
           orderly'[request[r].of] => orderly[request[r].of] /\ Fits(request[r].of, record[request[r].of])
    PROVE  TypeOK' /\ Inv'
  <1>1. /\ record[request[r].of] \in Records /\ record[request[r].of].status # "none"
        /\ Ours(request[r].of, record[request[r].of].pid)
    BY Working, PidTypes DEF SessionOK
  <1> QED
    BY <1>1, Ends

-----------------------------------------------------------------------------
(* The steps of a request that only move it on *)

\* The request has moved, and holds what is the session's.
LEMMA MovedOK ==
    ASSUME TypeOK, Inv, NEW r \in Requests, request[r].pc # "idle",
           NEW pc \in Pc, NEW snap, NEW p, NEW mine, Moves(r, pc, snap, p, mine),
           UNCHANGED <<record, booting>>, SameOwners,
           pc \notin {"idle", "read"},
           p = request[r].child \/ p = managed[request[r].of] \/ p = None,
           snap = request[r].snap \/ (snap = NoRecord /\ request[r].kind = "start"),
           mine = request[r].mine,
           request[r].kind # "device",
           request[r].kind = "stop" => pc \in {"term", "kill", "save"},
           request[r].kind = "reload" => pc \in {"wait", "save", "fail"},
           pc \in {"wait", "term", "kill"} => p # None
    PROVE  RequestOK(r)'
  <1>1. /\ request[r].of \in Sessions /\ record[request[r].of].status # "none" /\ booting = {}
        /\ SessionOK(request[r].of) /\ RequestOK(r)
    BY Working
  <1>2. /\ request'[r].of = request[r].of /\ request'[r].kind = request[r].kind /\ request'[r].pc = pc
        /\ request'[r].snap = snap /\ request'[r].child = p /\ request'[r].mine = mine
    BY DEF Moves
  <1>3. PICK s \in Sessions : request[r].of = s
    BY <1>1
  <1>4. /\ Ours(s, request[r].child) /\ Ours(s, request[r].snap.pid) /\ Ours(s, managed[s])
        /\ request[r].child \in Children \cup {None} /\ request[r].snap.pid \in Children \cup {None}
        /\ managed[s] \in Children \cup {None}
    BY <1>1, <1>3, PidTypes DEF RequestOK, SessionOK
  <1>5. /\ request[r].child # None => ~Free(request[r].child)
        /\ request[r].snap.pid # None => ~Free(request[r].snap.pid)
        /\ managed[s] # None => ~Free(managed[s])
    BY <1>4, Referred
  <1>6. \A x \in Children \cup {None} : Ours(s, x) /\ (x # None => ~Free(x)) => (x # None => child'[x].of = s)
    BY DEF Ours, SameOwners
  <1>7. p # None => child'[p].of = s
    BY <1>3, <1>4, <1>5, <1>6
  <1>8. snap.pid # None => child'[snap.pid].of = s
    BY <1>4, <1>5, <1>6, Constants
  <1>9. request'[r].of = s
    BY <1>2, <1>3
  <1> QED
    BY <1>1, <1>2, <1>3, <1>7, <1>8, <1>9 DEF RequestOK, Ours

\* No child of an orderly session is open, if the adapter holds none or holds one that has closed.
LEMMA NoneOpen ==
    ASSUME TypeOK, Inv, NEW s \in Sessions, orderly[s], managed[s] = None \/ Exited(managed[s])
    PROVE  Open(s) = {}
  BY Constants DEF Inv, OrderlyOK, Open, Exited

LEMMA LivesOpen ==
    ASSUME TypeOK, Inv, NEW s \in Sessions
    PROVE  Lives(s) \subseteq Open(s)
  BY Constants DEF Inv, Lives, Open, ChildOK

LEMMA LookStep == ASSUME TypeOK, Inv, NEW r \in Requests, Look(r) PROVE TypeOK' /\ Inv'
  <1> USE DEF Look, At
  <1>0. request[r].pc # "idle" /\ request \in [Requests -> RequestType] /\ request[r].kind = "start"
    BY Typing
  <1>1. PICK s \in Sessions : request[r].of = s
    BY <1>0, Working
  <1>2. managed[s] \in Children \cup {None}
    BY PidTypes
  <1>3. CASE managed[s] # None /\ ~Exited(managed[s])
    <2>1. Moves(r, "wait", request[r].snap, managed[s], request[r].mine)
      BY <1>0, <1>1, <1>2, <1>3, ChildMoves DEF Pc
    <2>2. RequestOK(r)'
      BY <1>0, <1>1, <1>3, <2>1, MovedOK, SameChildren DEF Pc
    <2>3. Stage(s, r)'
      BY <1>0, <2>1 DEF Stage, Moves
    <2> QED
      BY <1>0, <1>1, <2>1, <2>2, <2>3, GoesOn
  <1>4. CASE managed[s] = None \/ Exited(managed[s])
    <2>1. Moves(r, "probe", request[r].snap, request[r].child, request[r].mine)
      BY <1>0, <1>1, <1>4, GotoMoves DEF Pc
    <2>2. RequestOK(r)'
      BY <1>0, <1>1, <2>1, MovedOK, SameChildren DEF Pc
    <2>3. orderly[s] => Open(s)' = {}
      BY <1>4, NoneOpen, SameChildren DEF Shrinks
    <2>4. orderly[s] => Stage(s, r)'
      BY <1>0, <2>1, <2>3 DEF Stage, Moves
    <2> QED
      BY <1>0, <1>1, <2>1, <2>2, <2>4, GoesOn
  <1> QED
    BY <1>3, <1>4

LEMMA AlreadyReachableStep == ASSUME TypeOK, Inv, NEW r \in Requests, AlreadyReachable(r) PROVE TypeOK' /\ Inv'
  <1> USE DEF AlreadyReachable, At
  <1>0. request[r].pc = "probe" /\ request \in [Requests -> RequestType] /\ request[r].kind = "start"
    BY Typing
  <1>1. PICK s \in Sessions : request[r].of = s
    BY <1>0, Working
  <1>2. Moves(r, "save", request[r].snap, request[r].child, request[r].mine)
    BY <1>0, GotoMoves DEF Pc
  <1>3. RequestOK(r)'
    BY <1>0, <1>2, MovedOK, SameChildren DEF Pc
  <1>4. orderly[s] => Lives(s)' = {}
    <2>1. orderly[s] => Open(s) = {}
      BY <1>0, <1>1, Working DEF Stage
    <2> QED
      BY <2>1, LivesOpen, SameChildren DEF Shrinks
  <1>5. orderly[s] => Stage(s, r)'
    BY <1>0, <1>2, <1>4 DEF Stage, Moves
  <1> QED
    BY <1>0, <1>1, <1>2, <1>3, <1>5, GoesOn

LEMMA NothingAnswersStep == ASSUME TypeOK, Inv, NEW r \in Requests, NothingAnswers(r) PROVE TypeOK' /\ Inv'
  <1> USE DEF NothingAnswers, At
  <1>0. request[r].pc = "probe" /\ request \in [Requests -> RequestType] /\ request[r].kind = "start"
    BY Typing
  <1>1. PICK s \in Sessions : request[r].of = s
    BY <1>0, Working
  <1>2. Moves(r, "spawn", request[r].snap, request[r].child, request[r].mine)
    BY <1>0, GotoMoves DEF Pc
  <1>3. RequestOK(r)'
    BY <1>0, <1>2, MovedOK, SameChildren DEF Pc
  <1>4. orderly[s] => Open(s)' = {}
    <2>1. orderly[s] => Open(s) = {}
      BY <1>0, <1>1, Working DEF Stage
    <2> QED
      BY <2>1, SameChildren DEF Shrinks
  <1>5. orderly[s] => Stage(s, r)'
    BY <1>0, <1>2, <1>4 DEF Stage, Moves
  <1> QED
    BY <1>0, <1>1, <1>2, <1>3, <1>5, GoesOn

LEMMA NotStartableStep == ASSUME TypeOK, Inv, NEW r \in Requests, NotStartable(r) PROVE TypeOK' /\ Inv'
  <1> USE DEF NotStartable
  <1>0. request[r].pc # "idle" /\ request \in [Requests -> RequestType] /\ request[r].kind = "start"
    BY Typing
  <1>1. PICK s \in Sessions : request[r].of = s
    BY <1>0, Working
  <1>2. Moves(r, "fail", request[r].snap, request[r].child, request[r].mine)
    BY <1>0, GotoMoves DEF Pc
  <1>3. RequestOK(r)'
    BY <1>0, <1>2, MovedOK, SameChildren DEF Pc
  <1>5. Stage(s, r)'
    BY <1>0, <1>2 DEF Stage, Moves
  <1> QED
    BY <1>0, <1>1, <1>2, <1>3, <1>5, GoesOn

\* A reload keeps, from its read on, a record that is true and one it may save.
LEMMA ReloadKeeps ==
    ASSUME TypeOK, Inv, NEW r \in Requests, NEW s \in Sessions, orderly[s], request[r].of = s,
           request[r].pc # "idle", request[r].kind = "reload", UNCHANGED <<record, child>>,
           request'[r].snap = request[r].snap
    PROVE  Fits(s, record[s])' /\ Fits(s, request[r].snap)'
  <1>1. Fits(s, record[s]) /\ Fits(s, request[r].snap)
    BY Working DEF Stage
  <1>2. Shrinks(s)
    BY SameChildren
  <1> QED
    BY <1>1, <1>2 DEF Fits, Shrinks

LEMMA ReadyStep == ASSUME TypeOK, Inv, NEW r \in Requests, Ready(r) PROVE TypeOK' /\ Inv'
  <1> USE DEF Ready
  <1>0. request[r].pc = "wait" /\ request \in [Requests -> RequestType]
    BY Typing
  <1>1. PICK s \in Sessions : request[r].of = s
    BY <1>0, Working
  <1>2. Moves(r, "save", request[r].snap, request[r].child, request[r].mine)
    BY <1>0, GotoMoves DEF Pc
  <1>3. request[r].kind \in {"start", "reload"}
    <2>1. RequestOK(r) /\ request[r].kind \in Kinds
      BY <1>0, Working DEF RequestType
    <2> QED
      BY <1>0, <2>1 DEF RequestOK, Kinds
  <1>4. RequestOK(r)'
    BY <1>0, <1>2, <1>3, MovedOK, SameChildren DEF Pc
  <1>5. ASSUME orderly[s]
        PROVE  Lives(s)' \subseteq {request[r].child}
    <2>1. managed[s] \in {request[r].child, None} /\ OrderlyOK(s)
      BY <1>0, <1>1, <1>5, Working DEF Stage
    <2>2. Open(s) \subseteq {request[r].child}
      BY <1>5, <2>1, Constants DEF OrderlyOK, Open
    <2> QED
      BY <2>2, LivesOpen, SameChildren DEF Shrinks
  <1>6. ASSUME orderly[s]
        PROVE  Stage(s, r)'
    <2>1. request[r].kind = "reload" => Fits(s, record[s])' /\ Fits(s, request[r].snap)'
      BY <1>0, <1>1, <1>2, <1>6, ReloadKeeps DEF Moves
    <2> QED
      BY <1>0, <1>2, <1>3, <1>5, <1>6, <2>1 DEF Stage, Moves
  <1> QED
    BY <1>0, <1>1, <1>2, <1>4, <1>6, GoesOn

LEMMA NotReadyStep == ASSUME TypeOK, Inv, NEW r \in Requests, NotReady(r) PROVE TypeOK' /\ Inv'
  <1> USE DEF NotReady
  <1>0. request[r].pc = "wait" /\ request \in [Requests -> RequestType]
    BY Typing
  <1>1. PICK s \in Sessions : request[r].of = s
    BY <1>0, Working
  <1>2. PICK pc \in {"term", "fail"} : /\ pc = IF request[r].mine THEN "term" ELSE "fail"
                                       /\ Moves(r, pc, request[r].snap, request[r].child, request[r].mine)
    BY <1>0, GotoMoves DEF Pc
  <1>3. RequestOK(r) /\ request[r].kind \in Kinds /\ request[r].child # None
    BY <1>0, Working DEF RequestType, RequestOK
  <1>4. request[r].kind \in {"start", "reload"} /\ (request[r].kind = "reload" => pc = "fail")
    BY <1>0, <1>2, <1>3 DEF RequestOK, Kinds
  <1>5. RequestOK(r)'
    BY <1>0, <1>2, <1>3, <1>4, MovedOK, SameChildren DEF Pc
  <1>6. ASSUME orderly[s]
        PROVE  Stage(s, r)'
    <2>1. request[r].kind = "reload" => Fits(s, record[s])' /\ Fits(s, request[r].snap)'
      BY <1>0, <1>1, <1>2, <1>6, ReloadKeeps DEF Moves
    <2>2. managed[s] \in {request[r].child, None}
      BY <1>0, <1>1, <1>6, Working DEF Stage
    <2> QED
      BY <1>0, <1>2, <1>4, <2>1, <2>2 DEF Stage, Moves
  <1> QED
    BY <1>0, <1>1, <1>2, <1>5, <1>6, GoesOn

LEMMA StopLooksStep == ASSUME TypeOK, Inv, NEW r \in Requests, StopLooks(r) PROVE TypeOK' /\ Inv'
  <1> USE DEF StopLooks, At
  <1>0. request[r].pc = "read" /\ request \in [Requests -> RequestType] /\ request[r].kind = "stop"
    BY Typing
  <1>1. PICK s \in Sessions : request[r].of = s
    BY <1>0, Working
  <1>2. managed[s] \in Children \cup {None}
    BY PidTypes
  <1>3. CASE managed[s] # None
    <2>1. Moves(r, "term", request[r].snap, managed[s], request[r].mine)
      BY <1>0, <1>1, <1>2, <1>3, ChildMoves DEF Pc
    <2>2. RequestOK(r)'
      BY <1>0, <1>1, <1>3, <2>1, MovedOK, SameChildren DEF Pc
    <2>3. Stage(s, r)'
      BY <1>0, <2>1 DEF Stage, Moves
    <2> QED
      BY <1>0, <1>1, <2>1, <2>2, <2>3, GoesOn
  <1>4. CASE managed[s] = None
    <2>1. Moves(r, "save", request[r].snap, request[r].child, request[r].mine)
      BY <1>0, <1>1, <1>4, GotoMoves DEF Pc
    <2>2. RequestOK(r)'
      BY <1>0, <1>1, <2>1, MovedOK, SameChildren DEF Pc
    <2>3. orderly[s] => Lives(s)' = {}
      BY <1>4, NoneOpen, LivesOpen, SameChildren DEF Shrinks
    <2>4. orderly[s] => Stage(s, r)'
      BY <1>0, <2>1, <2>3 DEF Stage, Moves
    <2> QED
      BY <1>0, <1>1, <2>1, <2>2, <2>4, GoesOn
  <1> QED
    BY <1>3, <1>4

LEMMA ReloadLooksStep == ASSUME TypeOK, Inv, NEW r \in Requests, ReloadLooks(r) PROVE TypeOK' /\ Inv'
  <1> USE DEF ReloadLooks, At
  <1>0. request[r].pc = "read" /\ request \in [Requests -> RequestType] /\ request[r].kind = "reload"
    BY Typing
  <1>1. PICK s \in Sessions : request[r].of = s
    BY <1>0, Working
  <1>2. managed[s] \in Children \cup {None}
    BY PidTypes
  <1>3. CASE managed[s] # None /\ ~Exited(managed[s])
    <2>1. Moves(r, "wait", request[r].snap, managed[s], request[r].mine)
      BY <1>0, <1>1, <1>2, <1>3, ChildMoves DEF Pc
    <2>2. RequestOK(r)'
      BY <1>0, <1>1, <1>3, <2>1, MovedOK, SameChildren DEF Pc
    <2>3. orderly[s] => Fits(s, record[s])' /\ Fits(s, request[r].snap)'
      BY <1>0, <1>1, <2>1, ReloadKeeps DEF Moves
    <2>4. orderly[s] => Stage(s, r)'
      BY <1>0, <2>1, <2>3 DEF Stage, Moves
    <2> QED
      BY <1>0, <1>1, <2>1, <2>2, <2>4, GoesOn
  <1>4. CASE managed[s] = None \/ Exited(managed[s])
    <2>1. Moves(r, "save", request[r].snap, request[r].child, request[r].mine)
      BY <1>0, <1>1, <1>4, GotoMoves DEF Pc
    <2>2. RequestOK(r)'
      BY <1>0, <1>1, <2>1, MovedOK, SameChildren DEF Pc
    <2>3. orderly[s] => Fits(s, record[s])' /\ Fits(s, request[r].snap)'
      BY <1>0, <1>1, <2>1, ReloadKeeps DEF Moves
    <2>4. orderly[s] => Stage(s, r)'
      BY <1>0, <2>1, <2>3 DEF Stage, Moves
    <2> QED
      BY <1>0, <1>1, <2>1, <2>2, <2>4, GoesOn
  <1> QED
    BY <1>3, <1>4

-----------------------------------------------------------------------------
(* The steps of a request that save or end it *)

LEMMA Rec ==
    ASSUME NEW st \in Status, NEW p \in Children \cup {None}
    PROVE  [status |-> st, pid |-> p] \in Records
  BY DEF Records

LEMMA SetDeviceStep == ASSUME TypeOK, Inv, NEW r \in Requests, SetDevice(r) PROVE TypeOK' /\ Inv'
  <1>1. request[r].pc = "read" /\ request[r].kind = "device" /\ SaveAndEnd(r, request[r].snap)
    BY DEF SetDevice, At
  <1>2. RequestOK(r) /\ request[r].snap \in Records
    BY <1>1, Working, PidTypes
  <1>3. request[r].snap.status # "none" /\ Ours(request[r].of, request[r].snap.pid)
    BY <1>1, <1>2 DEF RequestOK
  <1>4. orderly[request[r].of] => Fits(request[r].of, request[r].snap)
    BY <1>1, Working DEF Stage
  <1> QED
    BY <1>1, <1>2, <1>3, <1>4, Saves

LEMMA StartStaticStep == ASSUME TypeOK, Inv, NEW r \in Requests, StartStatic(r) PROVE TypeOK' /\ Inv'
  <1> DEFINE rec == [status |-> "running", pid |-> None]
  <1>1. request[r].pc = "read" /\ SaveAndEnd(r, rec)
    BY DEF StartStatic, At
  <1>2. rec \in Records /\ rec.status = "running" /\ rec.pid = None
    BY Rec DEF Status
  <1> HIDE DEF rec
  <1>3. Ours(request[r].of, rec.pid) /\ Fits(request[r].of, rec)
    BY <1>2 DEF Ours, Fits
  <1> QED
    BY <1>1, <1>2, <1>3, Saves

LEMMA StartFailedStep == ASSUME TypeOK, Inv, NEW r \in Requests, StartFailed(r) PROVE TypeOK' /\ Inv'
  <1> DEFINE rec == [status |-> "error", pid |-> None]
  <1>1. request[r].pc = "fail" /\ SaveAndEnd(r, rec)
    BY DEF StartFailed, At
  <1>2. rec \in Records /\ rec.status = "error" /\ rec.pid = None
    BY Rec DEF Status
  <1> HIDE DEF rec
  <1>3. Ours(request[r].of, rec.pid) /\ Fits(request[r].of, rec)
    BY <1>2 DEF Ours, Fits
  <1> QED
    BY <1>1, <1>2, <1>3, Saves

LEMMA StartedStep == ASSUME TypeOK, Inv, NEW r \in Requests, Started(r) PROVE TypeOK' /\ Inv'
  <1> DEFINE rec == [status |-> "running", pid |-> request[r].child]
  <1>1. request[r].pc = "save" /\ request[r].kind = "start" /\ SaveAndEnd(r, rec)
    BY DEF Started, At
  <1>2. rec \in Records /\ rec.status = "running" /\ rec.pid = request[r].child
    BY PidTypes, Rec DEF Status
  <1> HIDE DEF rec
  <1>3. Ours(request[r].of, rec.pid)
    BY <1>1, <1>2, Working DEF RequestOK
  <1>4. orderly[request[r].of] => Fits(request[r].of, rec)
    <2>1. orderly[request[r].of] => Lives(request[r].of) \subseteq {request[r].child}
      BY <1>1, Working DEF Stage
    <2> QED
      BY <1>2, <2>1 DEF Fits
  <1> QED
    BY <1>1, <1>2, <1>3, <1>4, Saves

LEMMA StoppedStep == ASSUME TypeOK, Inv, NEW r \in Requests, Stopped(r) PROVE TypeOK' /\ Inv'
  <1> DEFINE rec == [status |-> "stopped", pid |-> None]
  <1>1. request[r].pc = "save" /\ request[r].kind = "stop" /\ SaveAndEnd(r, rec)
    BY DEF Stopped, At
  <1>2. rec \in Records /\ rec.status = "stopped" /\ rec.pid = None
    BY Rec DEF Status
  <1> HIDE DEF rec
  <1>3. Ours(request[r].of, rec.pid)
    BY <1>2 DEF Ours
  <1>4. orderly[request[r].of] => Fits(request[r].of, rec)
    BY <1>1, Working DEF Stage, Fits
  <1> QED
    BY <1>1, <1>2, <1>3, <1>4, Saves

LEMMA ReloadedStep == ASSUME TypeOK, Inv, NEW r \in Requests, Reloaded(r) PROVE TypeOK' /\ Inv'
  <1> DEFINE snap == request[r].snap
             rec == [snap EXCEPT !.status = IF @ = "stopped" THEN "stopped" ELSE "running"]
  <1>1. request[r].pc = "save" /\ request[r].kind = "reload" /\ SaveAndEnd(r, rec)
    BY DEF Reloaded, At
  <1>2. /\ rec \in Records /\ rec.status \in {"stopped", "running"} /\ rec.pid = snap.pid
        /\ rec.status = "stopped" <=> snap.status = "stopped"
    <2>1. snap \in Records
      BY PidTypes
    <2> HIDE DEF snap
    <2> QED
      BY <2>1 DEF Records, Status
  <1>3. Ours(request[r].of, snap.pid)
    BY <1>1, Working DEF RequestOK
  <1>4. orderly[request[r].of] => Fits(request[r].of, snap)
    BY <1>1, Working DEF Stage
  <1> HIDE DEF snap, rec
  <1>5. Ours(request[r].of, rec.pid) /\ rec.status # "none"
    BY <1>2, <1>3
  <1>6. orderly[request[r].of] => Fits(request[r].of, rec)
    BY <1>2, <1>4 DEF Fits
  <1> QED
    BY <1>1, <1>2, <1>5, <1>6, Saves

LEMMA StaticRefusedStep == ASSUME TypeOK, Inv, NEW r \in Requests, StaticRefused(r) PROVE TypeOK' /\ Inv'
  <1>1. /\ request[r].pc = "read" /\ End(r)
        /\ UNCHANGED <<record, child, managed, booting, orderly, troubles>>
    BY DEF StaticRefused, At
  <1>2. orderly[request[r].of] => Fits(request[r].of, record[request[r].of])
    BY <1>1, Working DEF Stage
  <1> QED
    BY <1>1, <1>2, Typing, Leaves

LEMMA ReloadFailedStep == ASSUME TypeOK, Inv, NEW r \in Requests, ReloadFailed(r) PROVE TypeOK' /\ Inv'
  <1>1. /\ request[r].pc = "fail" /\ request[r].kind = "reload" /\ End(r)
        /\ UNCHANGED <<record, child, managed, booting, orderly, troubles>>
    BY DEF ReloadFailed, At
  <1>2. orderly[request[r].of] => Fits(request[r].of, record[request[r].of])
    BY <1>1, Working DEF Stage
  <1> QED
    BY <1>1, <1>2, Typing, Leaves

LEMMA SaveFailsStep == ASSUME TypeOK, Inv, NEW r \in Requests, SaveFails(r) PROVE TypeOK' /\ Inv'
  <1>1. /\ request[r].pc # "idle" /\ End(r) /\ UNCHANGED <<record, child, managed, booting>>
        /\ orderly' = [orderly EXCEPT ![request[r].of] = FALSE] /\ troubles' \in 0..MaxTroubles
    BY Troubled DEF SaveFails
  <1>2. request[r].of \in Sessions /\ orderly \in [Sessions -> BOOLEAN]
    BY <1>1, Working, Typing
  <1>3. /\ orderly' \in [Sessions -> BOOLEAN] /\ ~orderly'[request[r].of]
        /\ \A t \in Sessions : t # request[r].of => orderly'[t] = orderly[t]
    BY <1>1, <1>2
  <1> QED
    BY <1>1, <1>3, Leaves

\* The request goes on to look for a child, having saved that the session starts.
LEMMA StartingStep == ASSUME TypeOK, Inv, NEW r \in Requests, Starting(r) PROVE TypeOK' /\ Inv'
  <1>1. /\ request[r].pc = "read" /\ request[r].kind = "start"
        /\ request' = [request EXCEPT ![r].pc = "look", ![r].snap = NoRecord]
        /\ UNCHANGED <<child, managed, booting, orderly, troubles>>
    BY DEF Starting, At
  <1>2. PICK s \in Sessions : /\ request[r].of = s
                              /\ record' = [record EXCEPT ![s] = [request[r].snap EXCEPT !.status = "starting"]]
    BY <1>1, Working DEF Starting
  <1>3. PICK rec \in Records : rec.status = "starting" /\ rec.pid = request[r].snap.pid /\ record' = [record EXCEPT ![s] = rec]
    <2>1. request[r].snap \in Records
      BY PidTypes
    <2>2. /\ [request[r].snap EXCEPT !.status = "starting"] \in Records
          /\ [request[r].snap EXCEPT !.status = "starting"].status = "starting"
          /\ [request[r].snap EXCEPT !.status = "starting"].pid = request[r].snap.pid
      BY <2>1 DEF Records, Status
    <2> QED
      BY <1>2, <2>2
  <1>4. record' \in [Sessions -> Records] /\ record'[s] = rec /\ \A t \in Sessions : t # s => record'[t] = record[t]
    BY <1>3, Typing, PutRecord
  <1>5. Moves(r, "look", NoRecord, request[r].child, request[r].mine)
    BY <1>1, Typing, SnapMoves
  <1>6. SameOwners /\ (\A t \in Sessions : Shrinks(t)) /\ \A c \in Children : ChildOK(c)'
    BY <1>1, SameChildren
  <1>7. /\ s # None /\ booting = {} /\ SessionOK(s) /\ OrderlyOK(s) /\ RequestOK(r)
        /\ orderly[s] => \A q \in Requests : request[q].of = s => q = r
    BY <1>1, <1>2, Working
  <1>8. request'[r].of = s /\ \A q \in Requests : q # r => request'[q] = request[q]
    BY <1>2, <1>5 DEF Moves
  <1>9. /\ \A q \in Requests : q # r => RequestOK(q)'
        /\ \A t \in Sessions : t # s => SessionOK(t)' /\ OrderlyOK(t)'
    BY <1>1, <1>2, <1>3, <1>4, <1>6, <1>8, Rest
  <1>10. RequestOK(r)'
    <2>1. Ours(s, request[r].child)
      BY <1>1, <1>2, <1>7 DEF RequestOK
    <2>2. /\ request'[r].kind = "start" /\ request'[r].pc = "look" /\ request'[r].snap = NoRecord
          /\ request'[r].child = request[r].child /\ record'[s].status # "none"
      BY <1>1, <1>3, <1>4, <1>5 DEF Moves
    <2> QED
      BY <1>1, <1>7, <1>8, <2>1, <2>2, Constants DEF RequestOK, Ours
  <1>11. SessionOK(s)'
    <2>1. Ours(s, rec.pid)
      BY <1>1, <1>2, <1>3, <1>7 DEF RequestOK
    <2> QED
      BY <1>1, <1>3, <1>4, <1>7, <2>1 DEF SessionOK, Ours
  <1>12. OrderlyOK(s)'
    <2>1. \A q \in Requests : orderly[s] /\ request'[q].of = s => q = r
      BY <1>7, <1>8
    <2>2. InFlight(s)'
      BY <1>8 DEF InFlight
    <2>3. orderly[s] => \A p \in Open(s)' : managed'[s] = p
      BY <1>1, <1>6, <1>7 DEF OrderlyOK, Shrinks
    <2>4. Stage(s, r)'
      BY <1>1, <1>5 DEF Stage, Moves
    <2> QED
      BY <1>1, <2>1, <2>2, <2>3, <2>4 DEF OrderlyOK
  <1>13. Inv'
    BY <1>6, <1>9, <1>10, <1>11, <1>12 DEF Inv
  <1> QED
    BY <1>1, <1>4, <1>5, <1>13, Typing, TypingBack DEF Moves

-----------------------------------------------------------------------------
(* The children *)

\* The child p becomes x.
Turns(p, x) ==
    /\ child' \in [Children -> ChildType] /\ child'[p] = x
    /\ \A q \in Children : q # p => child'[q] = child[q]

LEMMA PutChild ==
    ASSUME child \in [Children -> ChildType], NEW p \in Children, NEW x \in ChildType,
           child' = [child EXCEPT ![p] = x]
    PROVE  Turns(p, x)
  BY DEF Turns

LEMMA AnswersTurns ==
    ASSUME child \in [Children -> ChildType], NEW p \in Children, child' = [child EXCEPT ![p].ready = TRUE]
    PROVE  \E x \in ChildType : /\ Turns(p, x) /\ x.of = child[p].of /\ x.alive = child[p].alive
                                /\ x.closed = child[p].closed
  <1> DEFINE x == [child[p] EXCEPT !.ready = TRUE]
  <1>1. x \in ChildType /\ x.of = child[p].of /\ x.alive = child[p].alive /\ x.closed = child[p].closed
    BY DEF ChildType
  <1>2. child'[p] = x /\ child' = [q \in Children |-> child'[q]]
        /\ \A q \in Children : q # p => child'[q] = child[q]
    OBVIOUS
  <1> HIDE DEF x
  <1> QED
    BY <1>1, <1>2 DEF Turns

LEMMA CloseTurns ==
    ASSUME child \in [Children -> ChildType], NEW p \in Children, child' = [child EXCEPT ![p].closed = TRUE]
    PROVE  \E x \in ChildType : Turns(p, x) /\ x.of = child[p].of /\ x.alive = child[p].alive /\ x.closed
  <1> DEFINE x == [child[p] EXCEPT !.closed = TRUE]
  <1>1. x \in ChildType /\ x.of = child[p].of /\ x.alive = child[p].alive /\ x.closed
    BY DEF ChildType
  <1>2. child'[p] = x /\ child' = [q \in Children |-> child'[q]]
        /\ \A q \in Children : q # p => child'[q] = child[q]
    OBVIOUS
  <1> HIDE DEF x
  <1> QED
    BY <1>1, <1>2 DEF Turns

LEMMA ExitTurns ==
    ASSUME child \in [Children -> ChildType], NEW p \in Children,
           child' = [child EXCEPT ![p].alive = FALSE, ![p].ready = FALSE]
    PROVE  \E x \in ChildType : Turns(p, x) /\ x.of = child[p].of /\ ~x.alive /\ x.closed = child[p].closed
  <1> DEFINE x == [child[p] EXCEPT !.alive = FALSE, !.ready = FALSE]
  <1>1. x \in ChildType /\ x.of = child[p].of /\ ~x.alive /\ x.closed = child[p].closed
    BY DEF ChildType
  <1>2. child'[p] = x /\ child' = [q \in Children |-> child'[q]]
        /\ \A q \in Children : q # p => child'[q] = child[q]
    OBVIOUS
  <1> HIDE DEF x
  <1> QED
    BY <1>1, <1>2 DEF Turns

\* A child that dies, or whose close is handled, or that answers, stays its session's.
LEMMA Fades ==
    ASSUME TypeOK, Inv, NEW p \in Children, NEW x \in ChildType, Turns(p, x), x.of = child[p].of,
           x.alive => child[p].alive, child[p].closed => x.closed, x.closed => child[p].closed \/ ~x.alive
    PROVE  /\ child' \in [Children -> ChildType] /\ SameOwners
           /\ \A t \in Sessions : Shrinks(t)
           /\ \A q \in Children : ChildOK(q)'
  <1>1. child' \in [Children -> ChildType] /\ SameOwners
    BY DEF Turns, SameOwners
  <1>2. \A t \in Sessions : Shrinks(t)
    BY DEF Turns, Shrinks, Lives, Open
  <1>3. ASSUME NEW q \in Children
        PROVE  ChildOK(q)'
    <2>1. ChildOK(q)
      BY DEF Inv
    <2>2. CASE q # p
      BY <2>1, <2>2 DEF Turns, ChildOK
    <2>3. CASE q = p
      BY <2>1, <2>3 DEF Turns, ChildOK
    <2> QED
      BY <2>2, <2>3
  <1> QED
    BY <1>1, <1>2, <1>3

LEMMA OnlyChildren ==
    ASSUME TypeOK, Inv, child' \in [Children -> ChildType], SameOwners,
           \A t \in Sessions : Shrinks(t), \A q \in Children : ChildOK(q)',
           UNCHANGED <<record, managed, request, booting, orderly, troubles>>
    PROVE  TypeOK' /\ Inv'
  <1>1. \A q \in Requests : RequestOK(q)'
    BY OtherRequest DEF Inv, RequestOK
  <1>2. ASSUME NEW t \in Sessions
        PROVE  SessionOK(t)' /\ OrderlyOK(t)'
    <2>1. Shrinks(t)
      OBVIOUS
    <2> QED
      BY <2>1, OtherSession, OtherOrderly
  <1>3. Inv'
    BY <1>1, <1>2 DEF Inv
  <1> QED
    BY <1>3, Typing, TypingBack

LEMMA AnswersStep == ASSUME TypeOK, Inv, NEW p \in Children, Answers(p) PROVE TypeOK' /\ Inv'
  <1>1. PICK x \in ChildType : Turns(p, x) /\ x.of = child[p].of /\ x.alive = child[p].alive
                               /\ x.closed = child[p].closed
    BY Typing, AnswersTurns DEF Answers
  <1> QED
    BY <1>1, Fades, OnlyChildren DEF Answers

LEMMA ExitStep == ASSUME TypeOK, Inv, NEW p \in Children, Exit(p) PROVE TypeOK' /\ Inv'
  <1>1. PICK x \in ChildType : Turns(p, x) /\ x.of = child[p].of /\ ~x.alive /\ x.closed = child[p].closed
    BY Typing, ExitTurns DEF Exit
  <1> QED
    BY <1>1, Fades, OnlyChildren DEF Exit

\* The listener of a child's close.
LEMMA CloseEventStep == ASSUME TypeOK, Inv, NEW p \in Children, CloseEvent(p) PROVE TypeOK' /\ Inv'
  <1>1. PICK x \in ChildType : Turns(p, x) /\ x.of = child[p].of /\ x.alive = child[p].alive /\ x.closed
    BY Typing, CloseTurns DEF CloseEvent
  <1>2. ~child[p].alive /\ ~child[p].closed /\ UNCHANGED <<record, request, booting, orderly, troubles>>
    BY DEF CloseEvent
  <1>3. /\ child' \in [Children -> ChildType] /\ SameOwners /\ (\A t \in Sessions : Shrinks(t))
        /\ \A q \in Children : ChildOK(q)'
    BY <1>1, <1>2, Fades
  <1>4. PICK s \in Sessions : child[p].of = s /\ managed' = [managed EXCEPT ![s] = None]
    <2>1. child[p].of \in Sessions \cup {None} /\ ChildOK(p)
      BY Typing DEF ChildType, Inv
    <2> QED
      BY <1>2, <2>1 DEF ChildOK, CloseEvent
  <1>5. /\ managed' \in [Sessions -> Children \cup {None}] /\ managed'[s] = None
        /\ \A t \in Sessions : t # s => managed'[t] = managed[t]
    BY <1>4, Typing
  <1>6. \A q \in Requests : RequestOK(q)'
    BY <1>2, <1>3, OtherRequest DEF Inv, RequestOK
  <1>7. \A t \in Sessions : t # s => SessionOK(t)' /\ OrderlyOK(t)'
    BY <1>2, <1>3, <1>5, OtherSession, OtherOrderly
  <1>8. SessionOK(s)'
    <2>1. SessionOK(s) /\ record[s].pid \in Children \cup {None}
      BY PidTypes DEF Inv
    <2>2. record[s].pid # None => ~Free(record[s].pid)
      BY <2>1, Referred
    <2>3. s \notin booting => Ours(s, record[s].pid)'
      BY <1>2, <1>3, <2>1, <2>2 DEF SessionOK, Ours, SameOwners
    <2>4. booting # {} => Lives(s)' = {} /\ Open(s)' = {}
      BY <1>3, <2>1 DEF SessionOK, Shrinks
    <2> QED
      BY <1>2, <1>5, <2>1, <2>3, <2>4 DEF SessionOK, Ours
  <1>9. OrderlyOK(s)'
    <2> SUFFICES ASSUME orderly[s]
                 PROVE  OrderlyOK(s)'
      BY <1>2 DEF OrderlyOK
    <2>1. OrderlyOK(s)
      BY DEF Inv
    <2>2. Open(s)' = {}
      BY <1>1, <1>2, <1>3, <1>4, <2>1 DEF OrderlyOK, Shrinks, Open, Turns
    <2>3. ~InFlight(s)' => Fits(s, record[s])'
      BY <1>2, <1>3, <2>1 DEF OrderlyOK, InFlight, Fits, Shrinks
    <2>4. \A r \in Requests : request'[r].of = s => Stage(s, r)'
      BY <1>2, <1>3, <1>5, <2>1, StageStays DEF OrderlyOK
    <2> QED
      BY <1>2, <2>1, <2>2, <2>3, <2>4 DEF OrderlyOK
  <1>10. Inv'
    BY <1>3, <1>6, <1>7, <1>8, <1>9 DEF Inv
  <1> QED
    BY <1>2, <1>3, <1>5, <1>10, Typing, TypingBack

-----------------------------------------------------------------------------
(* The steps of a request that stops a child or spawns one *)

LEMMA Stopping ==
    ASSUME TypeOK, Inv, NEW r \in Requests, request[r].pc \in {"term", "kill"}
    PROVE  /\ request[r].kind \in {"start", "stop"} /\ request[r].child \in Children /\ request[r].pc # "idle"
           /\ request[r].of \in Sessions
  <1>1. RequestOK(r) /\ request[r].kind \in Kinds /\ request[r].child \in Children \cup {None}
    BY PidTypes DEF Inv, RequestType
  <1> QED
    BY <1>1 DEF RequestOK, Kinds

LEMMA GraceStep == ASSUME TypeOK, Inv, NEW r \in Requests, Grace(r) PROVE TypeOK' /\ Inv'
  <1>1. /\ request[r].pc = "term" /\ request[r].child \in Children
        /\ request[r].kind \in {"start", "stop"}
    BY Stopping DEF Grace
  <1>2. PICK s \in Sessions : request[r].of = s
    BY <1>1, Stopping
  <1>3. PICK p \in Children : request[r].child = p
    BY <1>1
  <1>4. PICK x \in ChildType : Turns(p, x) /\ x.of = child[p].of /\ ~x.alive /\ x.closed = child[p].closed
    BY <1>3, Typing, ExitTurns DEF Grace
  <1>5. /\ child' \in [Children -> ChildType] /\ SameOwners /\ (\A t \in Sessions : Shrinks(t))
        /\ \A q \in Children : ChildOK(q)'
    BY <1>4, Fades
  <1>6. Moves(r, "kill", request[r].snap, p, request[r].mine)
    BY <1>1, <1>3, Typing, GotoMoves DEF Pc, Grace
  <1>7. UNCHANGED <<record, managed, booting, orderly, troubles>>
    BY DEF Grace
  <1>8. RequestOK(r)'
    BY <1>1, <1>3, <1>5, <1>6, <1>7, Constants, MovedOK DEF Pc
  <1>9. SessionOK(s) /\ OrderlyOK(s) /\ managed[s] \in Children \cup {None}
    BY PidTypes DEF Inv
  <1>10. Ours(s, managed[s])'
    <2>1. managed[s] # None => ~Free(managed[s])
      BY <1>9, Referred
    <2> QED
      BY <1>5, <1>7, <1>9, <2>1 DEF SessionOK, Ours, SameOwners
  <1>11. ASSUME orderly[s]
         PROVE  Stage(s, r)' /\ \A c \in Open(s)' : managed'[s] = c
    <2>1. managed[s] \in {p, None}
      BY <1>1, <1>2, <1>3, <1>11, Working DEF Stage
    <2>2. Stage(s, r)'
      BY <1>1, <1>6, <1>7, <2>1 DEF Stage, Moves
    <2> QED
      BY <1>5, <1>7, <1>9, <1>11, <2>2 DEF OrderlyOK, Shrinks
  <1> QED
    BY <1>1, <1>2, <1>5, <1>6, <1>7, <1>8, <1>10, <1>11, Typing, Onward

\* stopManagedProcess has returned: the adapter's entry is gone.
LEMMA Returns ==
    ASSUME TypeOK, Inv, NEW r \in Requests, request[r].pc \in {"term", "kill"}, StopReturns(r),
           NEW s \in Sessions, request[r].of = s, orderly' \in [Sessions -> BOOLEAN],
           \A t \in Sessions : t # s => orderly'[t] = orderly[t],
           orderly'[s] => orderly[s] /\ Exited(request[r].child)
    PROVE  TypeOK' /\ Inv'
  <1>1. /\ request[r].kind \in {"start", "stop"} /\ request[r].child \in Children /\ request[r].pc # "idle"
    BY Stopping
  <1>2. UNCHANGED <<record, child, booting, troubles>> /\ managed' = [managed EXCEPT ![s] = None]
    BY DEF StopReturns
  <1>3. PICK pc \in {"fail", "save"} :
          /\ Moves(r, pc, request[r].snap, request[r].child, request[r].mine)
          /\ request[r].kind = "start" => pc = "fail"
    BY Typing, GotoMoves DEF StopReturns, Pc
  <1>4. SameOwners /\ (\A t \in Sessions : Shrinks(t)) /\ \A c \in Children : ChildOK(c)'
    BY <1>2, SameChildren
  <1>5. /\ managed' \in [Sessions -> Children \cup {None}] /\ managed'[s] = None
        /\ \A t \in Sessions : t # s => managed'[t] = managed[t]
    BY <1>2, Typing
  <1>6. RequestOK(r)'
    <2>1. request[r].kind = "stop" => pc = "save"
      BY <1>1, <1>3, Typing, GotoMoves DEF StopReturns, Pc, Moves
    <2> QED
      BY <1>1, <1>2, <1>3, <1>4, <2>1, MovedOK DEF Pc
  <1>7. ASSUME orderly'[s]
        PROVE  orderly[s] /\ Stage(s, r)' /\ \A c \in Open(s)' : managed'[s] = c
    <2>1. managed[s] \in {request[r].child, None} /\ orderly[s] /\ Exited(request[r].child)
      BY <1>1, <1>7, Working DEF Stage
    <2>2. Open(s) = {}
      BY <2>1, NoneOpen
    <2>3. Open(s)' = {} /\ Lives(s)' = {}
      BY <1>4, <2>2, LivesOpen DEF Shrinks
    <2>4. Stage(s, r)'
      BY <1>1, <1>3, <2>3 DEF Stage, Moves
    <2> QED
      BY <2>1, <2>3, <2>4
  <1> QED
    BY <1>1, <1>2, <1>3, <1>4, <1>5, <1>6, <1>7, Typing, Onward DEF Ours

LEMMA ClosedStep == ASSUME TypeOK, Inv, NEW r \in Requests, Closed(r) PROVE TypeOK' /\ Inv'
  <1>1. request[r].pc \in {"term", "kill"} /\ Exited(request[r].child) /\ StopReturns(r) /\ UNCHANGED orderly
    BY DEF Closed
  <1>2. PICK s \in Sessions : request[r].of = s
    BY <1>1, Stopping
  <1> QED
    BY <1>1, <1>2, Typing, Returns

LEMMA SecondGraceStep == ASSUME TypeOK, Inv, NEW r \in Requests, SecondGrace(r) PROVE TypeOK' /\ Inv'
  <1>1. request[r].pc \in {"term", "kill"} /\ StopReturns(r)
    BY DEF SecondGrace
  <1>2. PICK s \in Sessions : request[r].of = s /\ orderly' = [orderly EXCEPT ![s] = FALSE]
    BY <1>1, Stopping DEF SecondGrace
  <1>3. /\ orderly' \in [Sessions -> BOOLEAN] /\ ~orderly'[s]
        /\ \A t \in Sessions : t # s => orderly'[t] = orderly[t]
    BY <1>2, Typing
  <1> QED
    BY <1>1, <1>2, <1>3, Returns

\* A start spawns a child that nothing refers to.
LEMMA SpawnStep == ASSUME TypeOK, Inv, NEW r \in Requests, Spawn(r) PROVE TypeOK' /\ Inv'
  <1>1. /\ request[r].pc = "spawn" /\ request[r].kind = "start" /\ request[r].pc # "idle"
        /\ UNCHANGED <<record, booting, orderly>>
    BY DEF Spawn, At
  <1>2. PICK s \in Sessions : request[r].of = s
    BY <1>1, Working
  <1>3. PICK p \in Children : \E ok \in BOOLEAN :
          /\ Free(p)
          /\ IF ok THEN UNCHANGED troubles ELSE Trouble
          /\ child' = [child EXCEPT ![p] = [of |-> s, alive |-> ok, ready |-> FALSE, closed |-> FALSE]]
          /\ managed' = [managed EXCEPT ![s] = p]
          /\ request' = [request EXCEPT ![r].pc = "wait", ![r].child = p, ![r].mine = TRUE]
    BY <1>2 DEF Spawn
  <1>4. PICK x \in ChildType : x.of = s /\ ~x.closed /\ child' = [child EXCEPT ![p] = x]
    <2>1. PICK ok \in BOOLEAN : child' = [child EXCEPT ![p] = [of |-> s, alive |-> ok, ready |-> FALSE, closed |-> FALSE]]
      BY <1>3
    <2>2. [of |-> s, alive |-> ok, ready |-> FALSE, closed |-> FALSE] \in ChildType
      BY DEF ChildType
    <2> QED
      BY <2>1, <2>2
  <1>5. Turns(p, x) /\ Free(p) /\ troubles' \in 0..MaxTroubles
    BY <1>3, <1>4, Typing, PutChild, Troubled
  <1>6. SameOwners
    BY <1>5 DEF SameOwners, Turns
  <1>7. \A c \in Children : ChildOK(c)'
    <2>1. ASSUME NEW c \in Children, c # p PROVE ChildOK(c)'
      BY <1>5, <2>1 DEF Inv, ChildOK, Turns
    <2>2. ChildOK(p)'
      BY <1>4, <1>5, Constants DEF ChildOK, Turns
    <2> QED
      BY <2>1, <2>2
  <1>8. \A t \in Sessions : t # s => Shrinks(t)
    BY <1>4, <1>5 DEF Shrinks, Lives, Open, Turns
  <1>9. /\ managed' \in [Sessions -> Children \cup {None}] /\ managed'[s] = p
        /\ \A t \in Sessions : t # s => managed'[t] = managed[t]
    BY <1>3, Typing
  <1>10. Moves(r, "wait", request[r].snap, p, TRUE)
    BY <1>3, Typing, MineMoves
  <1>11. p # None /\ Ours(s, p)' /\ Ours(s, managed[s])'
    BY <1>4, <1>5, <1>9, Constants DEF Ours, Turns
  <1>12. RequestOK(r)'
    <2>1. /\ booting = {} /\ record[s].status # "none" /\ Ours(s, request[r].snap.pid)
          /\ request[r].snap.pid \in Children \cup {None}
      BY <1>1, <1>2, Working, PidTypes DEF RequestOK
    <2>2. request[r].snap.pid # None => child'[request[r].snap.pid].of = s
      <3>1. request[r].snap.pid # None => ~Free(request[r].snap.pid)
        BY <2>1, Referred
      <3> QED
        BY <1>6, <2>1, <3>1 DEF Ours, SameOwners
    <2>3. /\ request'[r].kind = "start" /\ request'[r].pc = "wait" /\ request'[r].of = s
          /\ request'[r].snap = request[r].snap /\ request'[r].child = p
      BY <1>1, <1>2, <1>10 DEF Moves
    <2> QED
      BY <1>1, <1>11, <2>1, <2>2, <2>3 DEF RequestOK, Ours
  <1>13. ASSUME orderly[s]
         PROVE  Stage(s, r)' /\ \A c \in Open(s)' : managed'[s] = c
    <2>1. Open(s) = {}
      BY <1>1, <1>2, <1>13, Working DEF Stage
    <2>2. \A c \in Open(s)' : c = p
      BY <1>5, <2>1 DEF Open, Turns
    <2>3. Stage(s, r)'
      BY <1>1, <1>9, <1>10 DEF Stage, Moves
    <2> QED
      BY <1>9, <2>2, <2>3
  <1>14. child' \in [Children -> ChildType] /\ orderly' \in [Sessions -> BOOLEAN]
    BY <1>1, <1>5, Typing DEF Turns
  <1>15. \A t \in Sessions : t # s => managed'[t] = managed[t] /\ orderly'[t] = orderly[t] /\ Shrinks(t)
    BY <1>1, <1>8, <1>9
  <1> QED
    BY <1>1, <1>2, <1>5, <1>6, <1>7, <1>9, <1>10, <1>11, <1>12, <1>13, <1>14, <1>15, Onward

-----------------------------------------------------------------------------
(* A request begins; a session is created; the server ends and boots *)

LEMMA ReadStep ==
    ASSUME TypeOK, Inv, NEW r \in Requests, NEW s \in Sessions, NEW kind \in Kinds, Read(r, s, kind)
    PROVE  TypeOK' /\ Inv'
  <1> DEFINE x == [Idle EXCEPT !.kind = kind, !.of = s, !.pc = "read", !.snap = IF kind = "stop" THEN @ ELSE record[s]]
  <1>1. /\ booting = {} /\ request[r].pc = "idle" /\ record[s].status # "none"
        /\ request' = [request EXCEPT ![r] = x] /\ orderly' = [orderly EXCEPT ![s] = @ /\ ~InFlight(s)]
        /\ UNCHANGED <<record, child, managed, booting, troubles>>
    BY DEF Read
  <1>2. /\ record[s] \in Records /\ SessionOK(s) /\ OrderlyOK(s) /\ RequestOK(r) /\ s # None
    BY PidTypes, Constants DEF Inv
  <1>3. /\ x \in RequestType /\ x.kind = kind /\ x.of = s /\ x.pc = "read" /\ x.child = None /\ x.mine = FALSE
        /\ x.snap = IF kind = "stop" THEN NoRecord ELSE record[s]
    BY <1>2, Constants DEF RequestType, Idle, Pc
  <1> HIDE DEF x
  <1>4. Becomes(r, x) /\ request[r].of = None
    BY <1>1, <1>2, <1>3, Typing, PutRequest, Constants DEF RequestOK
  <1>5. /\ orderly' \in [Sessions -> BOOLEAN] /\ (orderly'[s] => orderly[s] /\ ~InFlight(s))
        /\ \A t \in Sessions : t # s => orderly'[t] = orderly[t]
    <2>1. PICK b \in BOOLEAN : (b <=> orderly[s] /\ ~InFlight(s)) /\ orderly' = [orderly EXCEPT ![s] = b]
      BY <1>1
    <2> QED
      BY <2>1, Typing
  <1>6. SameOwners /\ (\A t \in Sessions : Shrinks(t)) /\ \A c \in Children : ChildOK(c)'
    BY <1>1, SameChildren
  <1>7. request'[r].of = s /\ \A q \in Requests : q # r => request'[q] = request[q]
    BY <1>3, <1>4 DEF Becomes
  <1>8. /\ \A q \in Requests : q # r => RequestOK(q)'
        /\ \A t \in Sessions : t # s => SessionOK(t)' /\ OrderlyOK(t)'
    BY <1>1, <1>4, <1>5, <1>6, <1>7, Rest
  <1>9. SessionOK(s)'
    BY <1>1, <1>6, OtherSession
  <1>10. RequestOK(r)'
    <2>1. Ours(s, record[s].pid) /\ kind # "stop" => request'[r].snap.status # "none"
      BY <1>1, <1>2, <1>3, <1>4 DEF SessionOK, Becomes
    <2>2. Ours(s, request'[r].snap.pid)
      BY <1>1, <1>2, <1>3, <1>4, Constants DEF SessionOK, Becomes, Ours
    <2> QED
      BY <1>1, <1>3, <1>4, <2>1, <2>2 DEF RequestOK, Becomes, Ours, Kinds
  <1>11. OrderlyOK(s)'
    <2> SUFFICES ASSUME orderly'[s]
                 PROVE  OrderlyOK(s)'
      BY DEF OrderlyOK
    <2>1. orderly[s] /\ ~InFlight(s) /\ Fits(s, record[s]) /\ \A p \in Open(s) : managed[s] = p
      BY <1>2, <1>5 DEF OrderlyOK
    <2>2. \A q \in Requests : request'[q].of = s => q = r
      BY <1>7, <2>1 DEF InFlight
    <2>3. InFlight(s)'
      BY <1>7 DEF InFlight
    <2>4. Fits(s, record[s])' /\ (kind # "stop" => Fits(s, request[r].snap)')
      BY <1>1, <1>3, <1>4, <1>6, <2>1 DEF Fits, Shrinks, Becomes
    <2>5. Stage(s, r)'
      BY <1>3, <1>4, <2>4 DEF Stage, Becomes
    <2>6. \A p \in Open(s)' : managed'[s] = p
      BY <1>1, <1>6, <2>1 DEF Shrinks
    <2> QED
      BY <2>2, <2>3, <2>5, <2>6 DEF OrderlyOK
  <1>12. Inv'
    BY <1>6, <1>8, <1>9, <1>10, <1>11 DEF Inv
  <1> QED
    BY <1>1, <1>4, <1>5, <1>12, Typing, TypingBack DEF Becomes

\* A save of a session no request is at: its creation, and its recovery at boot.
LEMMA Resaved ==
    ASSUME TypeOK, Inv, NEW s \in Sessions, NEW rec \in Records, record' = [record EXCEPT ![s] = rec],
           rec.status # "none", rec.pid = None, orderly[s] => Fits(s, rec),
           booting' \subseteq booting, s \notin booting', \A t \in Sessions : t # s => (t \in booting <=> t \in booting'),
           UNCHANGED <<child, managed, request, orderly, troubles>>
    PROVE  TypeOK' /\ Inv'
  <1>1. record' \in [Sessions -> Records] /\ record'[s] = rec /\ \A t \in Sessions : t # s => record'[t] = record[t]
    BY Typing, PutRecord
  <1>2. SameOwners /\ (\A t \in Sessions : Shrinks(t)) /\ \A c \in Children : ChildOK(c)'
    BY SameChildren
  <1>3. ASSUME NEW q \in Requests
        PROVE  RequestOK(q)'
    <2>1. RequestOK(q)
      BY DEF Inv
    <2>2. request[q].pc # "idle" => record'[request[q].of].status # "none" /\ booting' = {}
      BY <1>1, <2>1 DEF RequestOK
    <2> QED
      BY <2>1, <2>2 DEF RequestOK, Ours
  <1>4. ASSUME NEW t \in Sessions, t # s
        PROVE  SessionOK(t)' /\ OrderlyOK(t)'
    <2>1. SessionOK(t)
      BY DEF Inv
    <2>2. SessionOK(t)'
      BY <1>1, <1>2, <1>4, <2>1 DEF SessionOK, Ours, Shrinks
    <2>3. OrderlyOK(t)'
      BY <1>1, <1>2, <1>4, OtherOrderly
    <2> QED
      BY <2>2, <2>3
  <1>5. SessionOK(s)'
    <2>1. SessionOK(s)
      BY DEF Inv
    <2> QED
      BY <1>1, <1>2, <2>1 DEF SessionOK, Ours, Shrinks
  <1>6. OrderlyOK(s)'
    <2>1. OrderlyOK(s)
      BY DEF Inv
    <2>2. orderly[s] => Fits(s, record[s])'
      BY <1>1 DEF Fits, Lives
    <2>3. ASSUME NEW r \in Requests, orderly[s], request[r].of = s
          PROVE  Stage(s, r)'
      <3>1. Stage(s, r)
        BY <2>1, <2>3 DEF OrderlyOK
      <3> QED
        BY <2>2, <2>3, <3>1 DEF Stage, Fits, Lives, Open
    <2> QED
      BY <2>1, <2>2, <2>3 DEF OrderlyOK, InFlight, Open
  <1>7. Inv'
    BY <1>2, <1>3, <1>4, <1>5, <1>6 DEF Inv
  <1> QED
    BY <1>1, <1>7, Typing, TypingBack

LEMMA CreateStep == ASSUME TypeOK, Inv, NEW s \in Sessions, CreateSession(s) PROVE TypeOK' /\ Inv'
  <1>1. /\ booting = {} /\ record[s].status = "none"
        /\ UNCHANGED <<child, managed, request, booting, orderly, troubles>>
    BY DEF CreateSession
  <1>2. SessionOK(s) /\ OrderlyOK(s) /\ record[s] \in Records
    BY PidTypes DEF Inv
  <1>3. PICK rec \in Records : rec.status = "waiting" /\ rec.pid = None /\ record' = [record EXCEPT ![s] = rec]
    <2>1. /\ [record[s] EXCEPT !.status = "waiting"] \in Records
          /\ [record[s] EXCEPT !.status = "waiting"].status = "waiting"
          /\ [record[s] EXCEPT !.status = "waiting"].pid = None
      BY <1>1, <1>2 DEF Records, Status, SessionOK
    <2>2. record' = [record EXCEPT ![s] = [record[s] EXCEPT !.status = "waiting"]]
      BY <1>2, Typing DEF CreateSession, Records
    <2> QED
      BY <2>1, <2>2
  <1>4. ~InFlight(s)
    BY <1>1, Constants DEF InFlight, Inv, RequestOK
  <1>5. orderly[s] => Fits(s, rec)
    BY <1>1, <1>2, <1>4 DEF OrderlyOK, Fits
  <1> QED
    BY <1>1, <1>3, <1>5, Resaved

LEMMA RecoverStep == ASSUME TypeOK, Inv, NEW s \in Sessions, Recover(s) PROVE TypeOK' /\ Inv'
  <1>1. /\ s \in booting /\ booting' = booting \ {s} /\ record' = [record EXCEPT ![s] = Recovered(record[s])]
        /\ UNCHANGED <<child, managed, request, orderly, troubles>>
    BY DEF Recover
  <1>2. SessionOK(s) /\ record[s] \in Records
    BY PidTypes DEF Inv
  <1>3. record[s].status # "none"
    BY <1>1, <1>2 DEF SessionOK
  <1>4. PICK rec \in Records : rec = Recovered(record[s]) /\ rec.pid = None /\ rec.status # "none"
    <2>1. [status |-> "stopped", pid |-> None] \in Records
      BY Rec DEF Status
    <2>2. [record[s] EXCEPT !.pid = None] \in Records
      BY <1>2 DEF Records
    <2> QED
      BY <1>2, <1>3, <2>1, <2>2 DEF Recovered, Records
  <1>5. Fits(s, rec)
    BY <1>1, <1>2 DEF SessionOK, Fits
  <1> QED
    BY <1>1, <1>4, <1>5, Typing, Resaved

LEMMA CrashStep == ASSUME TypeOK, Inv, Crash PROVE TypeOK' /\ Inv'
  <1>1. /\ troubles' \in 0..MaxTroubles /\ UNCHANGED record
        /\ child' = [p \in Children |-> IF child[p].alive THEN [child[p] EXCEPT !.of = None, !.closed = TRUE] ELSE NoChild]
        /\ managed' = [s \in Sessions |-> None] /\ request' = [r \in Requests |-> Idle]
        /\ orderly' = [s \in Sessions |-> TRUE] /\ booting' = {s \in Sessions : record[s].status # "none"}
    BY Troubled DEF Crash
  <1>2. ASSUME NEW p \in Children
        PROVE  child'[p] \in ChildType /\ child'[p].of = None /\ child'[p].closed
    <2>1. child[p] \in ChildType
      BY Typing
    <2>2. CASE ~child[p].alive
      BY <1>1, <2>2, Constants
    <2>3. CASE child[p].alive
      <3>1. child'[p] = [child[p] EXCEPT !.of = None, !.closed = TRUE]
        BY <1>1, <2>3
      <3>2. [child[p] EXCEPT !.of = None, !.closed = TRUE] \in ChildType
        BY <2>1 DEF ChildType
      <3>3. [child[p] EXCEPT !.of = None, !.closed = TRUE].of = None /\ [child[p] EXCEPT !.of = None, !.closed = TRUE].closed
        BY <2>1 DEF ChildType
      <3> QED
        BY <3>1, <3>2, <3>3
    <2> QED
      BY <2>2, <2>3
  <1>3. child' \in [Children -> ChildType]
    <2>1. child' = [p \in Children |-> child'[p]]
      BY <1>1
    <2> QED
      BY <1>2, <2>1
  <1>4. /\ record' \in [Sessions -> Records] /\ managed' \in [Sessions -> Children \cup {None}]
        /\ request' \in [Requests -> RequestType] /\ booting' \subseteq Sessions
        /\ orderly' \in [Sessions -> BOOLEAN]
    BY <1>1, Typing, Constants
  <1>5. \A p \in Children : ChildOK(p)'
    BY <1>2 DEF ChildOK
  <1>6. \A r \in Requests : request'[r] = Idle /\ request'[r].of = None
    BY <1>1, Constants
  <1>7. \A r \in Requests : RequestOK(r)'
    BY <1>6, Constants DEF RequestOK
  <1>8. ASSUME NEW s \in Sessions
        PROVE  SessionOK(s)' /\ OrderlyOK(s)'
    <2>1. Lives(s)' = {} /\ Open(s)' = {} /\ s # None
      BY <1>2, Constants DEF Lives, Open
    <2>2. SessionOK(s)'
      <3>1. SessionOK(s) /\ managed'[s] = None
        BY <1>1 DEF Inv
      <3>2. s \notin booting' => record'[s].status = "none"
        BY <1>1
      <3> QED
        BY <1>1, <2>1, <3>1, <3>2 DEF SessionOK, Ours
    <2>3. OrderlyOK(s)'
      BY <1>6, <2>1 DEF OrderlyOK, Fits
    <2> QED
      BY <2>2, <2>3
  <1>9. Inv'
    BY <1>5, <1>7, <1>8 DEF Inv
  <1> QED
    BY <1>1, <1>3, <1>4, <1>9, TypingBack

LEMMA InvInit == Init => TypeOK /\ Inv
  <1> SUFFICES ASSUME Init PROVE TypeOK /\ Inv
    OBVIOUS
  <1>1. /\ record = [s \in Sessions |-> NoRecord] /\ child = [p \in Children |-> NoChild]
        /\ managed = [s \in Sessions |-> None] /\ request = [r \in Requests |-> Idle]
        /\ booting = {} /\ orderly = [s \in Sessions |-> TRUE] /\ troubles = 0
    BY DEF Init
  <1>2. TypeOK
    <2>1. request \in [Requests -> RequestType] /\ child \in [Children -> ChildType]
      BY <1>1, Constants
    <2>2. \A r \in Requests : request[r].pc = "idle"
      BY <1>1, Constants
    <2> QED
      BY <1>1, <2>1, <2>2, Constants, PreviewAssumption DEF TypeOK, RequestType, ChildType
  <1>3. \A p \in Children : ChildOK(p)
    BY <1>1, Constants DEF ChildOK
  <1>4. \A r \in Requests : request[r] = Idle /\ request[r].of = None
    BY <1>1, Constants
  <1>5. \A r \in Requests : RequestOK(r)
    BY <1>4, Constants DEF RequestOK
  <1>6. ASSUME NEW s \in Sessions
        PROVE  SessionOK(s) /\ OrderlyOK(s)
    <2>1. Lives(s) = {} /\ Open(s) = {} /\ s # None
      BY <1>1, Constants DEF Lives, Open
    <2>2. record[s] = NoRecord /\ managed[s] = None
      BY <1>1
    <2>3. SessionOK(s)
      BY <1>1, <2>1, <2>2, Constants DEF SessionOK, Ours
    <2>4. OrderlyOK(s)
      BY <1>4, <2>1, Constants DEF OrderlyOK, Fits
    <2> QED
      BY <2>3, <2>4
  <1> QED
    BY <1>2, <1>3, <1>5, <1>6 DEF Inv

LEMMA Unchanged == ASSUME TypeOK, Inv, UNCHANGED vars PROVE TypeOK' /\ Inv'
  <1>1. UNCHANGED <<record, child, managed, request, booting, orderly, troubles>>
    BY DEF vars
  <1>2. SameOwners /\ (\A t \in Sessions : Shrinks(t)) /\ \A c \in Children : ChildOK(c)'
    BY <1>1, SameChildren
  <1> QED
    BY <1>1, <1>2, Typing, OnlyChildren

LEMMA InvStep == TypeOK /\ Inv /\ [Next]_vars => TypeOK' /\ Inv'
  <1> SUFFICES ASSUME TypeOK, Inv, [Next]_vars PROVE TypeOK' /\ Inv'
    OBVIOUS
  <1>1. CASE \E s \in Sessions : CreateSession(s) \/ Recover(s)
    BY <1>1, CreateStep, RecoverStep
  <1>2. CASE \E r \in Requests, s \in Sessions, kind \in Kinds : Read(r, s, kind)
    BY <1>2, ReadStep
  <1>3. ASSUME NEW r \in Requests, RequestStep(r) \/ SaveFails(r)
        PROVE  TypeOK' /\ Inv'
    <2>1. CASE SetDevice(r) \/ StartStatic(r) \/ StaticRefused(r) \/ Starting(r) \/ Look(r)
      BY <2>1, SetDeviceStep, StartStaticStep, StaticRefusedStep, StartingStep, LookStep
    <2>2. CASE AlreadyReachable(r) \/ NothingAnswers(r) \/ NotStartable(r) \/ Spawn(r)
      BY <2>2, AlreadyReachableStep, NothingAnswersStep, NotStartableStep, SpawnStep
    <2>3. CASE Ready(r) \/ NotReady(r) \/ Started(r) \/ StartFailed(r)
      BY <2>3, ReadyStep, NotReadyStep, StartedStep, StartFailedStep
    <2>4. CASE StopLooks(r) \/ Stopped(r) \/ ReloadLooks(r) \/ ReloadFailed(r) \/ Reloaded(r)
      BY <2>4, StopLooksStep, StoppedStep, ReloadLooksStep, ReloadFailedStep, ReloadedStep
    <2>5. CASE Closed(r) \/ Grace(r) \/ SecondGrace(r) \/ SaveFails(r)
      BY <2>5, ClosedStep, GraceStep, SecondGraceStep, SaveFailsStep
    <2> QED
      BY <1>3, <2>1, <2>2, <2>3, <2>4, <2>5 DEF RequestStep
  <1>4. CASE \E p \in Children : Answers(p) \/ Exit(p) \/ CloseEvent(p)
    BY <1>4, AnswersStep, ExitStep, CloseEventStep
  <1>5. CASE Crash
    BY <1>5, CrashStep
  <1>6. CASE UNCHANGED vars
    BY <1>6, Unchanged
  <1> QED
    BY <1>1, <1>2, <1>3, <1>4, <1>5, <1>6 DEF Next

-----------------------------------------------------------------------------
(* The theorems *)

\* Every record, child, entry of the adapter and request of PreviewRuntimeManager and its adapter has its
\* type, and a request that waits for a child or stops one holds one.
THEOREM TypeCorrect == Spec => []TypeOK
  BY InvInit, InvStep, PTL DEF Spec

LEMMA Invariance == Spec => []Inv
  BY InvInit, InvStep, PTL DEF Spec

\* However requests meet, saves fail and the server crashes, a record shown after boot names no process of
\* a former server: its process id is that of a child this server spawned for that very session.
THEOREM RecordsNameOwnProcesses == Spec => []ProcessIsOurs
  <1>1. Inv => ProcessIsOurs
    BY DEF Inv, SessionOK, Ours, ProcessIsOurs
  <1> QED
    BY <1>1, Invariance, PTL

\* Between two requests, what the record of an orderly session says is true of its living children: the
\* one that lives is the one the adapter would stop, and none lives behind a record that says stopped.
THEOREM RecordsKnowTheirChild == Spec => []RecordKnowsChild
  <1>1. ASSUME Inv, NEW s \in Sessions, orderly[s], ~InFlight(s), NEW p \in Children, child[p].of = s, child[p].alive
        PROVE  /\ managed[s] = p
               /\ record[s].status \notin {"none", "waiting", "stopped"}
               /\ record[s].pid \in {p, None}
    <2>1. ~child[p].closed
      BY <1>1, Constants DEF Inv, ChildOK
    <2>2. p \in Lives(s) /\ p \in Open(s)
      BY <1>1, <2>1 DEF Lives, Open
    <2>3. OrderlyOK(s)
      BY <1>1 DEF Inv
    <2> QED
      BY <1>1, <2>2, <2>3 DEF OrderlyOK, Fits
  <1>2. Inv => RecordKnowsChild
    BY <1>1 DEF RecordKnowsChild
  <1> QED
    BY <1>2, Invariance, PTL


=============================================================================
