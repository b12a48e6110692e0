-------------------------- MODULE CodingTasksProofs --------------------------
(***************************************************************************)
(* Proofs about coding tasks and the change sets applied to the files of a *)
(* project, for every set of patchers, files, runs and cancellations, every*)
(* change set, every interleaving and every number of crashes and failures.*)
(***************************************************************************)
EXTENDS CodingTasks, TLAPS

PatchType == [pc : PatchPc, i : Nat, before : Seq(Contents), late : SUBSET Files]
RunnerType == [pc : RunPc, i : DOMAIN Pipeline, task : States, artifact : {"ready", "failed"},
               aborted : BOOLEAN]

-----------------------------------------------------------------------------
(* What a step does to the patches *)

\* The patch of p moves, writes nothing, and no other patch changes.
PatchMoves(p, pc, i, before, late) ==
    /\ patch' \in [Patchers -> PatchType]
    /\ patch'[p].pc = pc /\ patch'[p].i = i /\ patch'[p].before = before /\ patch'[p].late = late
    /\ \A q \in Patchers : q # p => patch'[q] = patch[q]
    /\ files' = files

\* The patch of p writes f; the patches of others that have planned f are late on it.
PatchWrites(p, f, content, pc, i) ==
    /\ patch' \in [Patchers -> PatchType] /\ files' \in [Files -> Contents]
    /\ patch'[p].pc = pc /\ patch'[p].i = i
    /\ patch'[p].before = patch[p].before /\ patch'[p].late = patch[p].late
    /\ \A q \in Patchers : q # p =>
         /\ patch'[q].pc = patch[q].pc /\ patch'[q].i = patch[q].i /\ patch'[q].before = patch[q].before
         /\ patch'[q].late = IF f \in Planned(q) THEN patch[q].late \cup {f} ELSE patch[q].late
    /\ files'[f] = content /\ \A g \in Files : g # f => files'[g] = files[g]

\* How far a patch is, by its place.
Shape(p) ==
    LET n == Len(Changes[p])
    IN  /\ patch[p].pc \in {"off", "failed"} =>
             patch[p].i = 1 /\ patch[p].before = <<>> /\ patch[p].late = {}
        /\ patch[p].pc = "plan" => patch[p].i \in 1..n /\ Len(patch[p].before) = patch[p].i - 1
        /\ patch[p].pc \in {"gate", "apply", "rollback", "applied", "undone"} =>
             Len(patch[p].before) = n
        /\ patch[p].pc = "gate" => patch[p].i = 1
        /\ patch[p].pc = "apply" => patch[p].i \in 1..n
        /\ patch[p].pc = "applied" => patch[p].i = n
        /\ patch[p].pc = "rollback" => patch[p].i \in 1..(n + 1)
        /\ patch[p].pc = "undone" => patch[p].i = 1

PatchInv == PatchTypeOK /\ \A p \in Patchers : Shape(p)

Began(p) == patch[p].pc = "off" /\ PatchMoves(p, "plan", 1, <<>>, {})

Refused(p) == patch[p].pc \in {"plan", "gate"} /\ PatchMoves(p, "failed", 1, <<>>, {})

PlannedOne(p) ==
    /\ patch[p].pc = "plan" /\ Legal(Op(p), files[Op(p).file], base[p][Op(p).file])
    /\ PatchMoves(p, IF Last(p) THEN "gate" ELSE "plan", IF Last(p) THEN 1 ELSE patch[p].i + 1,
                  Append(patch[p].before, files[Op(p).file]), patch[p].late)

\* From one place to the next with the same plan and nothing written.
GoesTo(p, pc) == PatchMoves(p, pc, patch[p].i, patch[p].before, patch[p].late)

PassedOn(p) ==
    \/ patch[p].pc = "gate" /\ GoesTo(p, "apply")
    \/ patch[p].pc = "apply" /\ GoesTo(p, "rollback")
    \/ patch[p].pc = "rollback" /\ patch[p].i = 1 /\ GoesTo(p, "undone")
    \/ patch[p].pc = "rollback" /\ GoesTo(p, "torn")

WroteOp(p) ==
    /\ patch[p].pc = "apply"
    /\ \/ PatchWrites(p, Op(p).file, Result(p, patch[p].i), NextPc(p), NextIndex(p))
       \/ PatchWrites(p, Op(p).file, Result(p, patch[p].i), "rollback", patch[p].i + 1)

UndidOp(p) ==
    /\ patch[p].pc = "rollback" /\ patch[p].i # 1
    /\ PatchWrites(p, Changes[p][patch[p].i - 1].file, patch[p].before[patch[p].i - 1],
                   "rollback", patch[p].i - 1)

PatchEffect(p) == Began(p) \/ Refused(p) \/ PlannedOne(p) \/ PassedOn(p) \/ WroteOp(p) \/ UndidOp(p)

LEMMA OpFacts ==
    ASSUME NEW p \in Patchers
    PROVE  /\ Len(Changes[p]) \in Nat /\ Len(Changes[p]) >= 1 /\ DOMAIN Changes[p] = 1..Len(Changes[p])
           /\ \A i \in 1..Len(Changes[p]) :
                Changes[p][i].kind \in Kinds /\ Changes[p][i].file \in Files /\ Result(p, i) \in Contents
  <1> DEFINE Ops == [kind : Kinds, file : Files, guarded : BOOLEAN]
  <1>1. Changes[p] \in Seq(Ops) /\ Changes[p] # <<>>
    BY PatchAssumption
  <1>2. \A op \in Ops : op.kind \in Kinds /\ op.file \in Files
    OBVIOUS
  <1> HIDE DEF Ops
  <1>3. /\ Len(Changes[p]) \in Nat /\ Len(Changes[p]) >= 1 /\ DOMAIN Changes[p] = 1..Len(Changes[p])
        /\ \A i \in 1..Len(Changes[p]) : Changes[p][i] \in Ops
    BY <1>1
  <1>4. \A i \in 1..Len(Changes[p]) : Changes[p][i].kind \in Kinds /\ Changes[p][i].file \in Files
    BY <1>2, <1>3
  <1>5. \A i \in 1..Len(Changes[p]) : Result(p, i) \in Contents
    BY DEF Result, Contents
  <1> QED
    BY <1>3, <1>4, <1>5

LEMMA PatchForms ==
    ASSUME PatchTypeOK, NEW p \in Patchers, files' = files
    PROVE  /\ \A pc \in PatchPc : PatchGoto(p, pc) => GoesTo(p, pc)
           /\ patch' = [patch EXCEPT ![p] = [NoPatch EXCEPT !.pc = "failed"]] =>
                PatchMoves(p, "failed", 1, <<>>, {})
  <1>1. patch \in [Patchers -> PatchType]
    BY DEF PatchTypeOK, PatchType
  <1>2. ASSUME NEW pc \in PatchPc, PatchGoto(p, pc) PROVE GoesTo(p, pc)
    BY <1>1, <1>2 DEF PatchGoto, GoesTo, PatchMoves, PatchType
  <1>3. ASSUME patch' = [patch EXCEPT ![p] = [NoPatch EXCEPT !.pc = "failed"]]
        PROVE  PatchMoves(p, "failed", 1, <<>>, {})
    <2>1. "failed" \in PatchPc /\ <<>> \in Seq(Contents)
      BY DEF PatchPc
    <2> QED
      BY <1>1, <1>3, <2>1 DEF PatchMoves, PatchType, NoPatch
  <1> QED
    BY <1>2, <1>3

LEMMA WriteForm ==
    ASSUME PatchTypeOK, NEW p \in Patchers, NEW f \in Files, NEW content \in Contents,
           NEW pc \in PatchPc, NEW i \in Nat, Write(p, f, content, pc, i)
    PROVE  PatchWrites(p, f, content, pc, i)
  <1>1. patch \in [Patchers -> PatchType] /\ files \in [Files -> Contents]
    BY DEF PatchTypeOK, PatchType
  <1>2. files' \in [Files -> Contents] /\ files'[f] = content /\ \A g \in Files : g # f => files'[g] = files[g]
    BY <1>1 DEF Write
  <1>3. patch'[p] = [patch[p] EXCEPT !.pc = pc, !.i = i]
    BY DEF Write
  <1>4. ASSUME NEW q \in Patchers, q # p
        PROVE  patch'[q] = IF f \in Planned(q) THEN [patch[q] EXCEPT !.late = @ \cup {f}] ELSE patch[q]
    BY <1>4 DEF Write
  <1>5. /\ patch'[p] \in PatchType /\ patch'[p].pc = pc /\ patch'[p].i = i
        /\ patch'[p].before = patch[p].before /\ patch'[p].late = patch[p].late
    BY <1>1, <1>3 DEF PatchType
  <1>6. ASSUME NEW q \in Patchers, q # p
        PROVE  /\ patch'[q] \in PatchType
               /\ patch'[q].pc = patch[q].pc /\ patch'[q].i = patch[q].i /\ patch'[q].before = patch[q].before
               /\ patch'[q].late = IF f \in Planned(q) THEN patch[q].late \cup {f} ELSE patch[q].late
    <2>1. patch[q] \in PatchType /\ patch[q].late \subseteq Files
      BY <1>1, <1>6 DEF PatchType
    <2>2. CASE f \in Planned(q)
      <3>1. patch'[q] = [patch[q] EXCEPT !.late = @ \cup {f}] /\ patch[q].late \cup {f} \subseteq Files
        BY <1>4, <1>6, <2>1, <2>2
      <3> QED
        BY <2>1, <2>2, <3>1 DEF PatchType
    <2>3. CASE f \notin Planned(q)
      BY <1>4, <1>6, <2>1, <2>3
    <2> QED
      BY <2>2, <2>3
  <1>7. patch' \in [Patchers -> PatchType]
    <2> DEFINE New(q) == IF q = p THEN [patch[p] EXCEPT !.pc = pc, !.i = i]
                         ELSE IF f \in Planned(q) THEN [patch[q] EXCEPT !.late = @ \cup {f}] ELSE patch[q]
    <2>1. patch' = [q \in Patchers |-> New(q)]
      BY DEF Write
    <2> HIDE DEF New
    <2>2. DOMAIN patch' = Patchers /\ patch' = [q \in DOMAIN patch' |-> patch'[q]]
      BY <2>1
    <2>3. \A q \in Patchers : patch'[q] \in PatchType
      BY <1>5, <1>6
    <2> QED
      BY <2>2, <2>3
  <1> QED
    BY <1>2, <1>5, <1>6, <1>7 DEF PatchWrites

PatchAction(p) == BeginPatch(p) \/ PatchStep(p) \/ ApplyFails(p) \/ Tear(p)

LEMMA PatchActionEffect ==
    ASSUME PatchInv, NEW p \in Patchers, PatchAction(p)
    PROVE  PatchEffect(p) /\ base' = base
  <1>0. PatchTypeOK /\ Shape(p) /\ patch \in [Patchers -> PatchType] /\ files \in [Files -> Contents]
    BY DEF PatchInv, PatchTypeOK, PatchType
  <1>c. \A pc \in {"plan", "gate", "apply", "rollback", "applied", "failed", "undone", "torn"} : pc \in PatchPc
    BY DEF PatchPc
  <1>n. /\ Len(Changes[p]) \in Nat /\ \A i \in 1..Len(Changes[p]) :
             Changes[p][i].file \in Files /\ Result(p, i) \in Contents
    BY OpFacts
  <1>1. CASE BeginPatch(p)
    <2>1. patch[p].i = 1 /\ patch[p].before = <<>> /\ patch[p].late = {} /\ files' = files /\ base' = base
      BY <1>0, <1>1 DEF BeginPatch, PatchAt, Shape
    <2>2. GoesTo(p, "plan")
      BY <1>0, <1>1, <1>c, <2>1, PatchForms DEF BeginPatch
    <2> QED
      BY <1>1, <2>1, <2>2 DEF BeginPatch, PatchAt, GoesTo, Began, PatchEffect
  <1>2. CASE PlanOp(p)
    <2>1. patch[p].pc = "plan" /\ files' = files /\ base' = base
      BY <1>2 DEF PlanOp, PatchAt
    <2>2. CASE ~Legal(Op(p), files[Op(p).file], base[p][Op(p).file])
      <3>1. patch' = [patch EXCEPT ![p] = [NoPatch EXCEPT !.pc = "failed"]]
        BY <1>2, <2>2 DEF PlanOp
      <3> QED
        BY <1>0, <2>1, <3>1, PatchForms DEF Refused, PatchEffect
    <2>3. CASE Legal(Op(p), files[Op(p).file], base[p][Op(p).file])
      <3>1. patch' = [patch EXCEPT ![p].before = Append(@, files[Op(p).file]),
                                   ![p].i = IF Last(p) THEN 1 ELSE @ + 1,
                                   ![p].pc = IF Last(p) THEN "gate" ELSE @]
        BY <1>2, <2>3 DEF PlanOp
      <3>2. /\ Append(patch[p].before, files[Op(p).file]) \in Seq(Contents)
            /\ "gate" \in PatchPc /\ "plan" \in PatchPc /\ patch[p].i + 1 \in Nat /\ 1 \in Nat
        <4>1. patch[p].before \in Seq(Contents) /\ patch[p].i \in Nat
          BY <1>0 DEF PatchType
        <4>2. Op(p).file \in Files
          BY <1>0, <1>n, <2>1 DEF Shape, Op
        <4> QED
          BY <1>0, <1>c, <4>1, <4>2
      <3>3. PatchMoves(p, IF Last(p) THEN "gate" ELSE "plan", IF Last(p) THEN 1 ELSE patch[p].i + 1,
                       Append(patch[p].before, files[Op(p).file]), patch[p].late)
        BY <1>0, <2>1, <3>1, <3>2 DEF PatchMoves, PatchType
      <3> QED
        BY <2>1, <2>3, <3>3 DEF PlannedOne, PatchEffect
    <2> QED
      BY <2>2, <2>3
  <1>3. CASE Gate(p)
    <2>1. CASE PatchGoto(p, "apply")
      BY <1>0, <1>3, <1>c, <2>1, PatchForms DEF Gate, PatchAt, PassedOn, PatchEffect
    <2>2. CASE patch' = [patch EXCEPT ![p] = [NoPatch EXCEPT !.pc = "failed"]]
      BY <1>0, <1>3, <2>2, PatchForms DEF Gate, PatchAt, Refused, PatchEffect
    <2> QED
      BY <1>3, <2>1, <2>2 DEF Gate
  <1>a. ASSUME patch[p].pc = "apply", NEW pc \in PatchPc, NEW i \in Nat,
               Write(p, Op(p).file, Result(p, patch[p].i), pc, i)
        PROVE  PatchWrites(p, Op(p).file, Result(p, patch[p].i), pc, i)
    <2>1. Op(p).file \in Files /\ Result(p, patch[p].i) \in Contents
      BY <1>0, <1>n, <1>a DEF Shape, Op
    <2> QED
      BY <1>0, <1>a, <2>1, WriteForm
  <1>b. patch[p].i \in Nat /\ NextPc(p) \in PatchPc /\ NextIndex(p) \in Nat
    BY <1>0, <1>c DEF PatchType, NextPc, NextIndex
  <1>4. CASE ApplyOp(p)
    <2>1. CASE PatchGoto(p, "rollback") /\ files' = files
      BY <1>0, <1>4, <1>c, <2>1, PatchForms DEF ApplyOp, PatchAt, PassedOn, PatchEffect
    <2>2. CASE Write(p, Op(p).file, Result(p, patch[p].i), NextPc(p), NextIndex(p))
      BY <1>4, <1>a, <1>b, <2>2 DEF ApplyOp, PatchAt, WroteOp, PatchEffect
    <2> QED
      BY <1>4, <2>1, <2>2 DEF ApplyOp
  <1>5. CASE ApplyFails(p)
    <2>1. CASE WriteFails(p)
      BY <1>0, <1>5, <1>c, <2>1, PatchForms DEF ApplyFails, WriteFails, PatchAt, PassedOn, PatchEffect
    <2>2. CASE ReadBackFails(p)
      <3>1. patch[p].i + 1 \in Nat /\ "rollback" \in PatchPc
        BY <1>b, <1>c
      <3> QED
        BY <1>5, <1>a, <2>2, <3>1 DEF ApplyFails, ReadBackFails, PatchAt, WroteOp, PatchEffect
    <2> QED
      BY <1>5, <2>1, <2>2 DEF ApplyFails
  <1>6. CASE RollbackOp(p)
    <2>1. CASE patch[p].i = 1
      BY <1>0, <1>6, <1>c, <2>1, PatchForms DEF RollbackOp, PatchAt, PassedOn, PatchEffect
    <2>2. CASE patch[p].i # 1
      <3>1. /\ patch[p].i - 1 \in 1..Len(Changes[p]) /\ patch[p].pc = "rollback"
            /\ Len(patch[p].before) = Len(Changes[p])
        BY <1>0, <1>6, <1>b, <1>n, <2>2 DEF RollbackOp, PatchAt, Shape
      <3>2. patch[p].before \in Seq(Contents)
        BY <1>0 DEF PatchType
      <3>3. /\ Changes[p][patch[p].i - 1].file \in Files /\ patch[p].before[patch[p].i - 1] \in Contents
            /\ patch[p].i - 1 \in Nat
        BY <1>n, <3>1, <3>2
      <3> QED
        BY <1>0, <1>6, <1>c, <2>2, <3>1, <3>3, WriteForm DEF RollbackOp, UndidOp, PatchEffect
    <2> QED
      BY <2>1, <2>2
  <1>7. CASE Tear(p)
    BY <1>0, <1>7, <1>c, PatchForms DEF Tear, PatchAt, PassedOn, PatchEffect
  <1> QED
    BY <1>1, <1>2, <1>3, <1>4, <1>5, <1>6, <1>7 DEF PatchAction, PatchStep

LEMMA PatchShapeStep ==
    ASSUME PatchInv, NEW p \in Patchers, PatchEffect(p), base' = base
    PROVE  PatchInv'
  <1>0. /\ patch \in [Patchers -> PatchType] /\ files \in [Files -> Contents]
        /\ base \in [Patchers -> [Files -> Contents]] /\ \A q \in Patchers : Shape(q)
        /\ Len(Changes[p]) \in Nat /\ Len(Changes[p]) >= 1
    BY OpFacts DEF PatchInv, PatchTypeOK, PatchType
  <1>1. PatchTypeOK'
    <2>1. patch' \in [Patchers -> PatchType] /\ files' \in [Files -> Contents]
      BY <1>0 DEF PatchEffect, Began, Refused, PlannedOne, PassedOn, GoesTo, WroteOp, UndidOp, PatchMoves, PatchWrites
    <2> QED
      BY <1>0, <2>1 DEF PatchTypeOK, PatchType
  <1>2. ASSUME NEW q \in Patchers, q # p PROVE Shape(q)'
    <2>1. CASE patch'[q] = patch[q]
      BY <1>0, <2>1 DEF Shape
    <2>2. CASE patch'[q] # patch[q]
      <3>1. PICK f, content, pc, i : f \in Files /\ PatchWrites(p, f, content, pc, i)
        <4>1. WroteOp(p) \/ UndidOp(p)
          BY <1>2, <2>2 DEF PatchEffect, Began, Refused, PlannedOne, PassedOn, GoesTo, PatchMoves
        <4>2. CASE WroteOp(p)
          <5>1. Op(p).file \in Files
            BY <1>0, <4>2, OpFacts DEF WroteOp, Shape, Op
          <5> QED
            BY <4>2, <5>1 DEF WroteOp
        <4>3. CASE UndidOp(p)
          <5>1. patch[p].i - 1 \in 1..Len(Changes[p])
            BY <1>0, <4>3 DEF UndidOp, Shape
          <5>2. Changes[p][patch[p].i - 1].file \in Files
            BY <5>1, OpFacts
          <5> QED
            BY <4>3, <5>2 DEF UndidOp
        <4> QED
          BY <4>1, <4>2, <4>3
      <3>2. /\ patch'[q].pc = patch[q].pc /\ patch'[q].i = patch[q].i /\ patch'[q].before = patch[q].before
            /\ patch'[q].late = IF f \in Planned(q) THEN patch[q].late \cup {f} ELSE patch[q].late
        BY <1>2, <3>1 DEF PatchWrites
      <3>3. patch[q].before = <<>> => Planned(q) = {}
        BY DEF Planned
      <3> QED
        BY <1>0, <3>2, <3>3 DEF Shape
    <2> QED
      BY <2>1, <2>2
  <1>3. Shape(p)'
    <2>0. patch[p].i \in Nat /\ patch[p].before \in Seq(Contents)
      BY <1>0 DEF PatchType
    <2>1. CASE Began(p) \/ Refused(p)
      BY <1>0, <2>1 DEF Began, Refused, PatchMoves, Shape
    <2>2. CASE PlannedOne(p)
      <3>1. Len(patch'[p].before) = Len(patch[p].before) + 1
        BY <2>0, <2>2 DEF PlannedOne, PatchMoves
      <3> QED
        BY <1>0, <2>0, <2>2, <3>1 DEF PlannedOne, PatchMoves, Shape, Last
    <2>3. CASE PassedOn(p)
      BY <1>0, <2>0, <2>3 DEF PassedOn, GoesTo, PatchMoves, Shape
    <2>4. CASE WroteOp(p)
      BY <1>0, <2>0, <2>4 DEF WroteOp, PatchWrites, Shape, NextPc, NextIndex, Last
    <2>5. CASE UndidOp(p)
      BY <1>0, <2>0, <2>5 DEF UndidOp, PatchWrites, Shape
    <2> QED
      BY <2>1, <2>2, <2>3, <2>4, <2>5 DEF PatchEffect
  <1> QED
    BY <1>1, <1>2, <1>3 DEF PatchInv

-----------------------------------------------------------------------------
(* All or nothing *)

\* The operations that have been applied and not undone are the first so many.
Done(p) == IF patch[p].pc = "applied" THEN Len(Changes[p])
           ELSE IF patch[p].pc \in {"apply", "rollback"} THEN patch[p].i - 1 ELSE 0

\* A file nobody else has written since was read once and for all, and holds that until the patch
\* writes it.
Kept(p) == patch[p].pc # "torn" =>
    \A k \in DOMAIN patch[p].before : Changes[p][k].file \notin patch[p].late =>
        LET f == Changes[p][k].file
        IN  /\ \A l \in DOMAIN patch[p].before :
                 Changes[p][l].file = f => patch[p].before[l] = patch[p].before[k]
            /\ (\A l \in 1..Done(p) : Changes[p][l].file # f) => files[f] = patch[p].before[k]

\* From then on it holds what the last of the applied operations on it made of it.
Made(p) == patch[p].pc \in {"apply", "applied"} =>
    \A l \in 1..Done(p) : Changes[p][l].file \notin patch[p].late =>
        LET f == Changes[p][l].file
        IN  (\A m \in 1..Done(p) : m > l => Changes[p][m].file # f) => files[f] = Result(p, l)

\* What a patch has not written yet is nowhere to be found.
Unseen(p) == patch[p].pc \in {"off", "plan", "gate", "failed"} =>
    /\ \A f \in Files : files[f] # p
    /\ \A q \in Patchers : \A k \in DOMAIN patch[q].before : patch[q].before[k] # p

WholeInv == \A p \in Patchers : Kept(p) /\ Made(p) /\ Unseen(p)

LEMMA WholeInit == PatchInit => PatchInv /\ WholeInv
  <1> SUFFICES ASSUME PatchInit PROVE PatchInv /\ WholeInv
    OBVIOUS
  <1>1. Old \in Contents /\ "off" \in PatchPc /\ <<>> \in Seq(Contents)
    BY DEF Contents, PatchPc
  <1>2. patch \in [Patchers -> PatchType] /\ files \in [Files -> Contents]
        /\ base \in [Patchers -> [Files -> Contents]]
    BY <1>1 DEF PatchInit, NoPatch, PatchType
  <1>3. \A p \in Patchers : patch[p] = NoPatch /\ p # Old
    BY PatchAssumption DEF PatchInit
  <1>4. ASSUME NEW p \in Patchers PROVE Shape(p) /\ Kept(p) /\ Made(p) /\ Unseen(p)
    <2>1. /\ patch[p].pc = "off" /\ patch[p].i = 1 /\ patch[p].before = <<>> /\ patch[p].late = {}
          /\ \A q \in Patchers : patch[q].before = <<>>
      BY <1>3 DEF NoPatch
    <2>2. \A f \in Files : files[f] # p
      BY <1>3 DEF PatchInit
    <2> QED
      BY <2>1, <2>2 DEF Shape, Kept, Made, Unseen
  <1> QED
    BY <1>2, <1>4 DEF PatchInv, PatchTypeOK, PatchType, WholeInv

LEMMA WholeOfOthers ==
    ASSUME PatchInv, WholeInv, NEW p \in Patchers, PatchEffect(p), NEW q \in Patchers, q # p
    PROVE  Kept(q)' /\ Made(q)'
  <1>0. Kept(q) /\ Made(q) /\ Shape(q) /\ Shape(p) /\ patch[q].before \in Seq(Contents)
        /\ Len(Changes[q]) \in Nat /\ Len(Changes[q]) >= 1 /\ patch[q].i \in Nat /\ patch[q].pc \in PatchPc
    BY OpFacts DEF PatchInv, WholeInv, PatchTypeOK
  <1>1. CASE files' = files /\ patch'[q] = patch[q]
    BY <1>0, <1>1 DEF Kept, Made, Done
  <1>2. CASE \E f, content, pc, i : PatchWrites(p, f, content, pc, i)
    <2>1. PICK f, content, pc, i : PatchWrites(p, f, content, pc, i)
      BY <1>2
    <2>2. /\ patch'[q].pc = patch[q].pc /\ patch'[q].i = patch[q].i /\ patch'[q].before = patch[q].before
          /\ patch'[q].late = IF f \in Planned(q) THEN patch[q].late \cup {f} ELSE patch[q].late
          /\ \A g \in Files : g # f => files'[g] = files[g]
      BY <2>1 DEF PatchWrites
    <2>3. Done(q)' = Done(q)
      BY <2>2 DEF Done
    <2>4. \A k \in DOMAIN patch[q].before : Changes[q][k].file \notin patch'[q].late =>
            /\ Changes[q][k].file \notin patch[q].late /\ Changes[q][k].file # f
      BY <2>2 DEF Planned
    <2>5. patch[q].pc # "torn" => \A k \in DOMAIN patch[q].before : Changes[q][k].file \in Files
      <3>1. patch[q].pc # "torn" => DOMAIN patch[q].before \subseteq 1..Len(Changes[q])
        BY <1>0 DEF Shape, PatchPc
      <3> QED
        BY <3>1, OpFacts
    <2>6. Kept(q)'
      BY <1>0, <2>2, <2>3, <2>4, <2>5 DEF Kept
    <2>7. patch[q].pc \in {"apply", "applied"} => \A l \in 1..Done(q) : l \in DOMAIN patch[q].before
      BY <1>0 DEF Shape, Done
    <2>8. Made(q)'
      BY <1>0, <2>2, <2>3, <2>4, <2>5, <2>7 DEF Made, Result
    <2> QED
      BY <2>6, <2>8
  <1> QED
    BY <1>1, <1>2 DEF PatchEffect, Began, Refused, PlannedOne, PassedOn, GoesTo, PatchMoves, WroteOp, UndidOp

LEMMA WholeOfOwn ==
    ASSUME PatchInv, WholeInv, NEW p \in Patchers, PatchEffect(p)
    PROVE  Kept(p)' /\ Made(p)'
  <1> DEFINE n == Len(Changes[p])
             file(k) == Changes[p][k].file
             before == patch[p].before
             i == patch[p].i
  <1>0. /\ Kept(p) /\ Made(p) /\ Shape(p) /\ before \in Seq(Contents) /\ i \in Nat
        /\ n \in Nat /\ n >= 1 /\ \A k \in 1..n : file(k) \in Files
    BY OpFacts DEF PatchInv, WholeInv, PatchTypeOK
  <1>1. CASE Began(p) \/ Refused(p)
    BY <1>1 DEF Began, Refused, PatchMoves, Kept, Made, Done
  <1>2. CASE PlannedOne(p)
    <2>1. /\ patch[p].pc = "plan" /\ patch'[p].pc \in {"plan", "gate"} /\ i \in 1..n /\ Len(before) = i - 1
          /\ patch'[p].before = Append(before, files[file(i)]) /\ patch'[p].late = patch[p].late
          /\ files' = files
      BY <1>0, <1>2 DEF PlannedOne, PatchMoves, Shape, Op
    <2>2. Done(p) = 0 /\ Done(p)' = 0
      BY <2>1 DEF Done
    <2>3. /\ DOMAIN patch'[p].before = DOMAIN before \cup {i} /\ patch'[p].before[i] = files[file(i)]
          /\ \A k \in DOMAIN before : patch'[p].before[k] = before[k]
      <3>1. files[file(i)] \in Contents /\ DOMAIN before = 1..(i - 1)
        BY <1>0, <2>1 DEF PatchInv, PatchTypeOK
      <3>2. \A x \in Contents : /\ DOMAIN Append(before, x) = 1..i /\ Append(before, x)[i] = x
                                /\ \A k \in 1..(i - 1) : Append(before, x)[k] = before[k]
        BY <1>0, <2>1
      <3>3. 1..i = 1..(i - 1) \cup {i}
        BY <1>0, <2>1
      <3> QED
        BY <2>1, <3>1, <3>2, <3>3
    <2>4. \A k \in DOMAIN before : file(k) \notin patch[p].late =>
            /\ files[file(k)] = before[k]
            /\ \A l \in DOMAIN before : file(l) = file(k) => before[l] = before[k]
      BY <1>0, <2>1, <2>2 DEF Kept
    <2>6. \A k \in DOMAIN patch'[p].before : file(k) \notin patch[p].late => files[file(k)] = patch'[p].before[k]
      BY <2>3, <2>4
    <2>5. \A k \in DOMAIN patch'[p].before : file(k) \notin patch'[p].late =>
            /\ files'[file(k)] = patch'[p].before[k]
            /\ \A l \in DOMAIN patch'[p].before : file(l) = file(k) => patch'[p].before[l] = patch'[p].before[k]
      BY <2>1, <2>6
    <2> QED
      BY <2>1, <2>2, <2>5 DEF Kept, Made
  <1>3. CASE PassedOn(p)
    <2>1. /\ patch'[p].before = before /\ patch'[p].late = patch[p].late /\ files' = files
          /\ patch'[p].pc = "torn" \/ Done(p)' = Done(p)
          /\ patch'[p].pc \in {"apply", "rollback", "undone", "torn"}
          /\ patch'[p].pc = "apply" => Done(p)' = 0
          /\ patch[p].pc # "torn"
      BY <1>0, <1>3 DEF PassedOn, GoesTo, PatchMoves, Done, Shape
    <2>2. Kept(p)'
      BY <1>0, <2>1 DEF Kept
    <2>3. Made(p)'
      BY <2>1 DEF Made
    <2> QED
      BY <2>2, <2>3
  <1>4. CASE WroteOp(p)
    <2>1. /\ patch[p].pc = "apply" /\ i \in 1..n /\ Len(before) = n
          /\ patch'[p].before = before /\ patch'[p].late = patch[p].late
          /\ patch'[p].pc \in {"apply", "rollback", "applied"}
          /\ files'[file(i)] = Result(p, i) /\ \A g \in Files : g # file(i) => files'[g] = files[g]
      <3>1. patch[p].pc = "apply" /\ i \in 1..n /\ Len(before) = n
        BY <1>0, <1>4 DEF WroteOp, Shape
      <3>2. \E pc \in {"apply", "rollback", "applied"} : \E j : PatchWrites(p, file(i), Result(p, i), pc, j)
        BY <1>4 DEF WroteOp, Op, NextPc
      <3> QED
        BY <3>1, <3>2 DEF PatchWrites
    <2>2. Done(p) = i - 1 /\ Done(p)' = i
      <3>1. Done(p) = i - 1
        BY <2>1 DEF Done
      <3>2. CASE patch'[p].pc = NextPc(p) /\ patch'[p].i = NextIndex(p)
        <4>1. CASE Last(p)
          <5>1. patch'[p].pc = "applied" /\ n = i
            BY <3>2, <4>1 DEF NextPc, Last
          <5> QED
            BY <3>1, <5>1 DEF Done
        <4>2. CASE ~Last(p)
          <5>1. patch'[p].pc = "apply" /\ patch'[p].i = i + 1
            BY <3>2, <4>2 DEF NextPc, NextIndex
          <5> QED
            BY <1>0, <3>1, <5>1 DEF Done
        <4> QED
          BY <4>1, <4>2
      <3>3. CASE patch'[p].pc = "rollback" /\ patch'[p].i = i + 1
        BY <1>0, <3>1, <3>3 DEF Done
      <3> QED
        BY <1>4, <3>1, <3>2, <3>3 DEF WroteOp, PatchWrites
    <2>3. Kept(p)'
      <3> SUFFICES ASSUME NEW k \in DOMAIN before, file(k) \notin patch[p].late
                   PROVE  /\ \A l \in DOMAIN before : file(l) = file(k) => before[l] = before[k]
                          /\ (\A l \in 1..i : file(l) # file(k)) => files'[file(k)] = before[k]
        BY <2>1, <2>2 DEF Kept
      <3>1. /\ \A l \in DOMAIN before : file(l) = file(k) => before[l] = before[k]
            /\ (\A l \in 1..(i - 1) : file(l) # file(k)) => files[file(k)] = before[k]
        BY <1>0, <2>1, <2>2 DEF Kept
      <3>2. ASSUME \A l \in 1..i : file(l) # file(k) PROVE files'[file(k)] = before[k]
        <4>1. file(k) # file(i) /\ file(k) \in Files /\ \A l \in 1..(i - 1) : l \in 1..i
          BY <1>0, <2>1, <3>2
        <4> QED
          BY <2>1, <3>1, <3>2, <4>1
      <3> QED
        BY <3>1, <3>2
    <2>4. Made(p)'
      <3> SUFFICES ASSUME NEW l \in 1..i, file(l) \notin patch[p].late,
                          \A m \in 1..i : m > l => file(m) # file(l)
                   PROVE  files'[file(l)] = Result(p, l)
        BY <2>1, <2>2 DEF Made, Result
      <3>1. CASE l = i
        BY <2>1, <3>1
      <3>2. CASE l # i
        <4>1. /\ l \in 1..(i - 1) /\ file(i) # file(l) /\ file(l) \in Files
              /\ \A m \in 1..(i - 1) : m \in 1..i
          BY <1>0, <2>1, <3>2
        <4>2. files[file(l)] = Result(p, l)
          BY <1>0, <2>1, <2>2, <4>1 DEF Made
        <4> QED
          BY <2>1, <4>1, <4>2
      <3> QED
        BY <3>1, <3>2
    <2> QED
      BY <2>3, <2>4
  <1>5. CASE UndidOp(p)
    <2>1. /\ patch[p].pc = "rollback" /\ patch'[p].pc = "rollback" /\ Len(before) = n /\ i - 1 \in 1..n
          /\ patch'[p].before = before /\ patch'[p].late = patch[p].late
          /\ files'[file(i - 1)] = before[i - 1]
          /\ \A g \in Files : g # file(i - 1) => files'[g] = files[g]
      BY <1>0, <1>5 DEF UndidOp, PatchWrites, Shape
    <2>2. Done(p) = i - 1 /\ Done(p)' = i - 2
      BY <1>0, <1>5 DEF UndidOp, PatchWrites, Done
    <2>3. Kept(p)'
      <3> SUFFICES ASSUME NEW k \in DOMAIN before, file(k) \notin patch[p].late
                   PROVE  /\ \A l \in DOMAIN before : file(l) = file(k) => before[l] = before[k]
                          /\ (\A l \in 1..(i - 2) : file(l) # file(k)) => files'[file(k)] = before[k]
        BY <2>1, <2>2 DEF Kept
      <3>1. /\ \A l \in DOMAIN before : file(l) = file(k) => before[l] = before[k]
            /\ (\A l \in 1..(i - 1) : file(l) # file(k)) => files[file(k)] = before[k]
        BY <1>0, <2>1, <2>2 DEF Kept
      <3>2. i - 1 \in DOMAIN before
        BY <1>0, <2>1
      <3>3. ASSUME \A l \in 1..(i - 2) : file(l) # file(k), file(k) # file(i - 1)
            PROVE  files'[file(k)] = before[k]
        <4>1. \A l \in 1..(i - 1) : l \in 1..(i - 2) \/ l = i - 1
          BY <1>0, <2>1
        <4>2. file(k) \in Files
          BY <1>0, <2>1
        <4>3. \A l \in 1..(i - 1) : file(l) # file(k)
          BY <3>3, <4>1
        <4> QED
          BY <2>1, <3>1, <3>3, <4>2, <4>3
      <3> QED
        BY <2>1, <3>1, <3>2, <3>3
    <2> QED
      BY <2>1, <2>3 DEF Made
  <1> QED
    BY <1>1, <1>2, <1>3, <1>4, <1>5 DEF PatchEffect

LEMMA UnseenStep ==
    ASSUME PatchInv, WholeInv, NEW p \in Patchers, PatchEffect(p), NEW q \in Patchers
    PROVE  Unseen(q)'
  <1>0. /\ Unseen(q) /\ Shape(p) /\ patch[p].before \in Seq(Contents) /\ patch[p].i \in Nat /\ q # Missing
        /\ Len(Changes[p]) \in Nat /\ \A k \in 1..Len(Changes[p]) : Changes[p][k].file \in Files
    BY OpFacts, PatchAssumption DEF PatchInv, WholeInv, PatchTypeOK
  <1>1. CASE Began(p) \/ Refused(p) \/ PassedOn(p)
    <2>1. /\ files' = files /\ \A r \in Patchers : patch'[r].before \in {<<>>, patch[r].before}
          /\ patch'[q].pc \in {"off", "plan", "gate", "failed"} => patch[q].pc \in {"off", "plan", "gate", "failed"}
      BY <1>1 DEF Began, Refused, PassedOn, GoesTo, PatchMoves
    <2> QED
      BY <1>0, <2>1 DEF Unseen
  <1>2. CASE PlannedOne(p)
    <2>1. /\ files' = files /\ \A r \in Patchers : r # p => patch'[r].before = patch[r].before
          /\ patch'[p].before = Append(patch[p].before, files[Op(p).file]) /\ Op(p).file \in Files
          /\ patch'[q].pc \in {"off", "plan", "gate", "failed"} => patch[q].pc \in {"off", "plan", "gate", "failed"}
      BY <1>0, <1>2 DEF PlannedOne, PatchMoves, Shape, Op
    <2>2. \A k \in DOMAIN patch'[p].before :
            \/ k \in DOMAIN patch[p].before /\ patch'[p].before[k] = patch[p].before[k]
            \/ patch'[p].before[k] = files[Op(p).file]
      BY <1>0, <2>1
    <2> QED
      BY <1>0, <2>1, <2>2 DEF Unseen
  <1>3. CASE WroteOp(p) \/ UndidOp(p)
    <2>1. PICK f, content, pc, i :
            /\ PatchWrites(p, f, content, pc, i) /\ pc \in {"apply", "rollback", "applied"}
            /\ \/ content \in {p, Missing}
               \/ \E k \in DOMAIN patch[p].before : content = patch[p].before[k]
      <3>1. CASE WroteOp(p)
        <4>1. Result(p, patch[p].i) \in {p, Missing} /\ NextPc(p) \in {"apply", "rollback", "applied"}
          BY DEF Result, NextPc
        <4> QED
          BY <3>1, <4>1 DEF WroteOp
      <3>2. CASE UndidOp(p)
        <4>1. patch[p].i - 1 \in DOMAIN patch[p].before
          BY <1>0, <3>2 DEF UndidOp, Shape
        <4> QED
          BY <3>2, <4>1 DEF UndidOp
      <3> QED
        BY <1>3, <3>1, <3>2
    <2>2. /\ \A r \in Patchers : patch'[r].before = patch[r].before
          /\ patch'[q].pc \in {"off", "plan", "gate", "failed"} => q # p /\ patch[q].pc = patch'[q].pc
          /\ \A g \in Files : files'[g] \in {files[g], content}
      BY <2>1 DEF PatchWrites
    <2> QED
      BY <1>0, <2>1, <2>2 DEF Unseen
  <1> QED
    BY <1>1, <1>2, <1>3 DEF PatchEffect

LEMMA WholeIsAllOrNothing == PatchInv /\ WholeInv => AllOrNothing
  <1> SUFFICES ASSUME PatchInv, WholeInv, NEW p \in Patchers, NEW i \in DOMAIN Changes[p],
                      Changes[p][i].file \notin patch[p].late
               PROVE  LET f == Changes[p][i].file
                      IN  /\ PatchAt(p, "applied") /\ LastOn(p, i) => files[f] = Result(p, i)
                          /\ PatchAt(p, "undone") => files[f] = patch[p].before[i]
                          /\ PatchAt(p, "failed") => files[f] # p
    BY DEF AllOrNothing
  <1>0. /\ Kept(p) /\ Made(p) /\ Unseen(p) /\ Shape(p) /\ patch[p].before \in Seq(Contents)
        /\ i \in 1..Len(Changes[p]) /\ DOMAIN Changes[p] = 1..Len(Changes[p]) /\ Changes[p][i].file \in Files
    BY OpFacts DEF PatchInv, WholeInv, PatchTypeOK
  <1>1. ASSUME PatchAt(p, "applied"), LastOn(p, i) PROVE files[Changes[p][i].file] = Result(p, i)
    BY <1>0, <1>1 DEF Made, Done, PatchAt, LastOn
  <1>2. ASSUME PatchAt(p, "undone") PROVE files[Changes[p][i].file] = patch[p].before[i]
    <2>1. i \in DOMAIN patch[p].before /\ Done(p) = 0
      BY <1>0, <1>2 DEF Shape, PatchAt, Done
    <2> QED
      BY <1>0, <1>2, <2>1 DEF Kept, PatchAt
  <1>3. ASSUME PatchAt(p, "failed") PROVE files[Changes[p][i].file] # p
    BY <1>0, <1>3 DEF Unseen, PatchAt
  <1> QED
    BY <1>1, <1>2, <1>3

-----------------------------------------------------------------------------
(* The runs *)

\* The run of r moves; its copy of the record, its artifact and its signal may change.
RunMoves(r, pc, i, artifact) ==
    /\ runner' \in [Runners -> RunnerType]
    /\ runner'[r].pc = pc /\ runner'[r].i = i /\ runner'[r].artifact = artifact
    /\ \A q \in Runners : q # r => runner'[q] = runner[q]

TypeInv == TypeOK /\ PatchInv /\ WholeInv

LEMMA PipelineFacts ==
    /\ DOMAIN Pipeline = 1..7 /\ Len(Pipeline) = 7
    /\ \A i \in 1..7 : Pipeline[i].state \in States /\ (Pipeline[i].kind = "patch_apply" <=> i = 7)
                       /\ (Pipeline[i].kind = "runtime_validation" <=> i = 6)
    /\ "accepted" \in States /\ Terminal \subseteq States
  <1>1. DOMAIN Pipeline = 1..7 /\ Len(Pipeline) = 7
    BY DEF Pipeline
  <1>2. ASSUME NEW i \in 1..7
        PROVE  /\ Pipeline[i].kind = "patch_apply" <=> i = 7
               /\ Pipeline[i].kind = "runtime_validation" <=> i = 6
    BY <1>2 DEF Pipeline, Step
  <1>3. \A i \in 1..7 : Pipeline[i].state \in States
    BY <1>1 DEF States
  <1> QED
    BY <1>1, <1>2, <1>3 DEF States

\* Where a step of r takes its run, and what else it does.
RunStarts(r) ==
    /\ runner[r].pc = "idle" /\ UNCHANGED <<patchVars, stored, validated, crashed>>
    /\ \/ stored \in Terminal /\ RunMoves(r, "over", 1, "ready")
       \/ RunMoves(r, "step", 1, "ready")

RunBegins(r) ==
    /\ runner[r].pc = "step" /\ UNCHANGED <<patchVars, validated, crashed>>
    /\ \E pc \in {"catch", "execute"} : RunMoves(r, pc, runner[r].i, runner[r].artifact)
    /\ stored' \in States

RunInspects(r) ==
    /\ runner[r].pc = "execute" /\ runner[r].i \notin {6, 7}
    /\ \E artifact \in {"ready", "failed"} : RunMoves(r, "complete", runner[r].i, artifact)
    /\ base' \in [Patchers -> [Files -> Contents]] /\ \A p \in Patchers : p # r => base'[p] = base[p]
    /\ UNCHANGED <<files, patch, stored, validated, crashed>>

AllLegal(r) == \A k \in DOMAIN Changes[r] :
    LET f == Changes[r][k].file IN Legal(Changes[r][k], files[f], base[r][f])

RunValidates(r) ==
    /\ runner[r].pc = "execute" /\ runner[r].i = 6 /\ AllLegal(r)
    /\ \E artifact \in {"ready", "failed"} : RunMoves(r, "complete", runner[r].i, artifact)
    /\ validated' \in [Runners -> [Files -> Contents] \cup {<<>>}] /\ validated'[r] = files
    /\ \A q \in Runners : q # r => validated'[q] = validated[q]
    /\ UNCHANGED <<patchVars, stored, crashed>>

\* An error; or an abort, which moves nothing.
RunThrows(r) ==
    /\ runner[r].pc \in {"step", "execute", "complete", "finish"}
    /\ UNCHANGED <<patchVars, validated, crashed>>
    /\ stored' \in States
    /\ RunMoves(r, "catch", runner[r].i, runner[r].artifact)

RunIsAborted(r) ==
    /\ runner[r].pc \in {"step", "catch"}
    /\ UNCHANGED <<patchVars, stored, validated, crashed>>
    /\ RunMoves(r, runner[r].pc, runner[r].i, runner[r].artifact)

RunPatches(r) ==
    /\ runner[r].pc = "execute" /\ runner[r].i = 7
    /\ RunMoves(r, "patching", runner[r].i, runner[r].artifact)
    /\ BeginPatch(r) /\ UNCHANGED <<stored, validated, crashed>>

RunPatched(r) ==
    /\ runner[r].pc = "patching" /\ PatchEnded(r)
    /\ \E artifact \in {"ready", "failed"} : RunMoves(r, "complete", runner[r].i, artifact)
    /\ validated' \in [Runners -> [Files -> Contents] \cup {<<>>}]
    /\ \A q \in Runners : q # r => validated'[q] = validated[q]
    /\ UNCHANGED <<patchVars, stored, crashed>>

RunCompletes(r) ==
    /\ runner[r].pc = "complete" /\ UNCHANGED <<patchVars, validated, crashed>> /\ stored' \in States
    /\ \/ RunMoves(r, "catch", runner[r].i, "ready")
       \/ RunMoves(r, "finish", runner[r].i, runner[r].artifact)
       \/ /\ runner[r].artifact = "ready" /\ runner[r].i \in 1..6
          /\ RunMoves(r, "step", runner[r].i + 1, "ready")

RunEnds(r) ==
    /\ runner[r].pc \in {"finish", "catch", "settle"} /\ UNCHANGED <<patchVars, validated>>
    /\ RunMoves(r, "over", 1, "ready")
    /\ stored' \in States
    /\ (stored' \in Terminal /\ crashed' = crashed) \/ crashed' = crashed \cup {r}

RunSettles(r) ==
    /\ runner[r].pc = "catch" /\ UNCHANGED <<patchVars, stored, validated, crashed>>
    /\ RunMoves(r, "settle", 1, "ready")

RunEffect(r) ==
    \/ RunStarts(r) \/ RunBegins(r) \/ RunInspects(r) \/ RunValidates(r) \/ RunThrows(r) \/ RunIsAborted(r)
    \/ RunPatches(r) \/ RunPatched(r) \/ RunCompletes(r) \/ RunEnds(r) \/ RunSettles(r)

LEMMA RunForms ==
    ASSUME runner \in [Runners -> RunnerType], NEW r \in Runners
    PROVE  /\ \A pc \in RunPc : Goto(r, pc) => RunMoves(r, pc, runner[r].i, runner[r].artifact)
           /\ \A pc \in RunPc, artifact \in {"ready", "failed"} :
                runner' = [runner EXCEPT ![r].pc = pc, ![r].artifact = artifact] =>
                  RunMoves(r, pc, runner[r].i, artifact)
           /\ \A pc \in RunPc, task \in States :
                runner' = [runner EXCEPT ![r].task = task, ![r].pc = pc] =>
                  RunMoves(r, pc, runner[r].i, runner[r].artifact)
           /\ runner' = [runner EXCEPT ![r].aborted = TRUE] =>
                RunMoves(r, runner[r].pc, runner[r].i, runner[r].artifact)
  <1>1. ASSUME NEW pc \in RunPc, Goto(r, pc) PROVE RunMoves(r, pc, runner[r].i, runner[r].artifact)
    BY <1>1 DEF Goto, RunMoves, RunnerType
  <1>2. ASSUME NEW pc \in RunPc, NEW artifact \in {"ready", "failed"},
               runner' = [runner EXCEPT ![r].pc = pc, ![r].artifact = artifact]
        PROVE  RunMoves(r, pc, runner[r].i, artifact)
    BY <1>2 DEF RunMoves, RunnerType
  <1>3. ASSUME NEW pc \in RunPc, NEW task \in States,
               runner' = [runner EXCEPT ![r].task = task, ![r].pc = pc]
        PROVE  RunMoves(r, pc, runner[r].i, runner[r].artifact)
    BY <1>3 DEF RunMoves, RunnerType
  <1>5. ASSUME runner' = [runner EXCEPT ![r].aborted = TRUE]
        PROVE  RunMoves(r, runner[r].pc, runner[r].i, runner[r].artifact)
    BY <1>5 DEF RunMoves, RunnerType
  <1> QED
    BY <1>1, <1>2, <1>3, <1>5

RunAction(r) == Drive(r) \/ Disconnect(r) \/ StoreFails(r)

LEMMA RunActionEffect ==
    ASSUME TypeOK, NEW r \in Runners, RunAction(r)
    PROVE  RunEffect(r) /\ canceller' = canceller /\ troubles' \in 0..MaxTroubles
  <1>0. /\ runner \in [Runners -> RunnerType] /\ stored \in States /\ troubles \in 0..MaxTroubles
        /\ r \in Patchers
        /\ files \in [Files -> Contents] /\ base \in [Patchers -> [Files -> Contents]]
        /\ validated \in [Runners -> [Files -> Contents] \cup {<<>>}]
    BY CodingAssumption DEF TypeOK, RunnerType, PatchTypeOK
  <1>1. /\ runner[r].i \in 1..7 /\ runner[r].pc \in RunPc /\ runner[r].task \in States
        /\ runner[r].artifact \in {"ready", "failed"} /\ runner[r].aborted \in BOOLEAN
    BY <1>0, PipelineFacts DEF RunnerType
  <1>c. \A pc \in {"idle", "step", "execute", "patching", "complete", "finish", "catch", "settle", "over"} : pc \in RunPc
    BY DEF RunPc
  <1>r. ASSUME NEW rec \in RunnerType, runner' = [runner EXCEPT ![r] = rec], rec.i = 1, rec.artifact = "ready"
        PROVE  RunMoves(r, rec.pc, 1, "ready")
    BY <1>0, <1>r DEF RunMoves
  <1>i. Idle \in RunnerType /\ Idle.i = 1 /\ Idle.artifact = "ready"
    BY <1>c, PipelineFacts DEF Idle, RunnerType
  <1>e. ASSUME runner' = [runner EXCEPT ![r] = Over] PROVE RunMoves(r, "over", 1, "ready")
    <2>1. Over \in RunnerType /\ Over.pc = "over" /\ Over.i = 1 /\ Over.artifact = "ready"
      BY <1>c, <1>i DEF Over, RunnerType
    <2> QED
      BY <1>e, <1>r, <2>1
  <1>t. ASSUME UNCHANGED <<canceller, troubles>> PROVE canceller' = canceller /\ troubles' \in 0..MaxTroubles
    BY <1>0, <1>t
  <1>2. CASE Run(r)
    <2>1. CASE stored \in Terminal
      <3>1. RunMoves(r, "over", 1, "ready")
        BY <1>2, <1>e, <2>1 DEF Run
      <3> QED
        BY <1>2, <1>t, <2>1, <3>1 DEF Run, At, RunStarts, RunEffect
    <2>2. CASE stored \notin Terminal
      <3>1. runner' = [runner EXCEPT ![r] = [Idle EXCEPT !.pc = "step", !.task = stored]]
        BY <1>2, <2>2 DEF Run
      <3>2. RunMoves(r, "step", 1, "ready")
        <4> DEFINE rec == [Idle EXCEPT !.pc = "step", !.task = stored]
        <4>1. rec \in RunnerType /\ rec.pc = "step" /\ rec.i = 1 /\ rec.artifact = "ready"
          BY <1>0, <1>c, <1>i DEF RunnerType
        <4> QED
          BY <1>r, <3>1, <4>1
      <3> QED
        BY <1>2, <1>t, <3>2 DEF Run, At, RunStarts, RunEffect
    <2> QED
      BY <2>1, <2>2
  <1>3. CASE BeginStep(r)
    <2>1. CASE Goto(r, "catch") /\ UNCHANGED stored
      <3>1. RunMoves(r, "catch", runner[r].i, runner[r].artifact)
        BY <1>0, <1>c, <2>1, RunForms
      <3> QED
        BY <1>0, <1>3, <1>t, <2>1, <3>1 DEF BeginStep, At, RunThrows, RunEffect
    <2>2. CASE Record(r, Pipeline[runner[r].i].state, "execute")
      <3>1. Pipeline[runner[r].i].state \in States
        BY <1>1, PipelineFacts
      <3>2. RunMoves(r, "execute", runner[r].i, runner[r].artifact) /\ stored' \in States
        BY <1>0, <1>c, <2>2, <3>1, RunForms DEF Record
      <3> QED
        BY <1>3, <1>t, <3>2 DEF BeginStep, At, RunBegins, RunEffect
    <2> QED
      BY <1>3, <2>1, <2>2 DEF BeginStep
  <1>y. ASSUME NEW statuses \in SUBSET {"ready", "failed"}, Yields(r, statuses)
        PROVE  \E artifact \in {"ready", "failed"} : RunMoves(r, "complete", runner[r].i, artifact)
    BY <1>0, <1>c, <1>y, RunForms DEF Yields
  <1>4. CASE Inspect(r)
    <2>1. \E artifact \in {"ready", "failed"} : RunMoves(r, "complete", runner[r].i, artifact)
      BY <1>4, <1>y DEF Inspect
    <2>2. runner[r].i \notin {6, 7}
      BY <1>1, <1>4, PipelineFacts DEF Inspect, Kind
    <2>3. base' \in [Patchers -> [Files -> Contents]] /\ \A p \in Patchers : p # r => base'[p] = base[p]
      BY <1>0, <1>4 DEF Inspect
    <2> QED
      BY <1>4, <1>t, <2>1, <2>2, <2>3 DEF Inspect, At, RunInspects, RunEffect
  <1>5. CASE Validate(r)
    <2>0. runner[r].pc = "execute" /\ runner[r].i = 6 /\ UNCHANGED <<patchVars, stored, canceller, crashed, troubles>>
      BY <1>1, <1>5, PipelineFacts DEF Validate, Kind, At
    <2>1. CASE AllLegal(r) /\ Yields(r, {"ready", "failed"}) /\ validated' = [validated EXCEPT ![r] = files]
      <3>1. \E artifact \in {"ready", "failed"} : RunMoves(r, "complete", runner[r].i, artifact)
        BY <1>y, <2>1
      <3>2. /\ validated' \in [Runners -> [Files -> Contents] \cup {<<>>}] /\ validated'[r] = files
            /\ \A q \in Runners : q # r => validated'[q] = validated[q]
        BY <1>0, <2>1
      <3> QED
        BY <1>t, <2>0, <2>1, <3>1, <3>2 DEF RunValidates, RunEffect
    <2>2. CASE Goto(r, "catch") /\ UNCHANGED validated
      <3>1. RunMoves(r, "catch", runner[r].i, runner[r].artifact)
        BY <1>0, <1>c, <2>2, RunForms
      <3> QED
        BY <1>0, <1>t, <2>0, <2>2, <3>1 DEF RunThrows, RunEffect
    <2> QED
      BY <1>5, <2>1, <2>2 DEF Validate, AllLegal
  <1>6. CASE Throw(r)
    BY <1>0, <1>6, <1>c, <1>t, RunForms DEF Throw, At, RunThrows, RunEffect
  <1>7. CASE ApplyPatch(r)
    <2>1. runner[r].i = 7
      BY <1>1, <1>7, PipelineFacts DEF ApplyPatch, Kind
    <2> QED
      BY <1>0, <1>7, <1>c, <1>t, <2>1, RunForms DEF ApplyPatch, At, RunPatches, RunEffect
  <1>8. CASE Patched(r)
    <2>1. \E artifact \in {"ready", "failed"} : RunMoves(r, "complete", runner[r].i, artifact)
      BY <1>8, <1>y DEF Patched
    <2>2. /\ validated' \in [Runners -> [Files -> Contents] \cup {<<>>}]
          /\ \A q \in Runners : q # r => validated'[q] = validated[q]
      BY <1>0, <1>8 DEF Patched
    <2> QED
      BY <1>8, <1>t, <2>1, <2>2 DEF Patched, At, RunPatched, RunEffect
  <1>9. CASE Complete(r)
    <2>1. CASE runner[r].artifact = "failed"
      <3>1. runner' = [runner EXCEPT ![r] = [@ EXCEPT !.pc = "catch", !.artifact = "ready"]]
        BY <1>0, <1>9, <2>1 DEF Complete
      <3>2. RunMoves(r, "catch", runner[r].i, "ready")
        BY <1>0, <1>c, <3>1 DEF RunMoves, RunnerType
      <3> QED
        BY <1>1, <1>9, <1>t, <3>2 DEF Complete, At, RunCompletes, RunEffect
    <2>2. CASE runner[r].artifact # "failed" /\ runner[r].i = Len(Pipeline)
      <3>1. runner' = [runner EXCEPT ![r] = [@ EXCEPT !.pc = "finish"]]
        BY <1>0, <1>9, <2>2 DEF Complete
      <3>2. RunMoves(r, "finish", runner[r].i, runner[r].artifact)
        BY <1>0, <1>c, <3>1 DEF RunMoves, RunnerType
      <3> QED
        BY <1>1, <1>9, <1>t, <3>2 DEF Complete, At, RunCompletes, RunEffect
    <2>3. CASE runner[r].artifact # "failed" /\ runner[r].i # Len(Pipeline)
      <3>1. runner' = [runner EXCEPT ![r] = [runner[r] EXCEPT !.pc = "step", !.i = runner[r].i + 1]]
        BY <1>0, <1>9, <2>3 DEF Complete
      <3>2. runner[r].i \in 1..6 /\ runner[r].i + 1 \in DOMAIN Pipeline /\ runner[r].artifact = "ready"
        BY <1>1, <2>3, PipelineFacts
      <3>3. RunMoves(r, "step", runner[r].i + 1, "ready")
        BY <1>0, <1>c, <3>1, <3>2 DEF RunMoves, RunnerType
      <3> QED
        BY <1>1, <1>9, <1>t, <3>2, <3>3 DEF Complete, At, RunCompletes, RunEffect
    <2> QED
      BY <2>1, <2>2, <2>3
  <1>10. CASE Finish(r)
    BY <1>10, <1>e, <1>t DEF Finish, Answer, At, RunEnds, RunEffect, Terminal, States
  <1>11. CASE Catch(r)
    <2>1. CASE stored \in Terminal
      BY <1>0, <1>11, <1>e, <1>t, <2>1 DEF Catch, At, RunEnds, RunEffect
    <2>2. CASE stored \notin Terminal
      <3>1. runner' = [runner EXCEPT ![r] = [Idle EXCEPT !.pc = "settle", !.task = stored, !.aborted = runner[r].aborted]]
        BY <1>11, <2>2 DEF Catch
      <3>2. RunMoves(r, "settle", 1, "ready")
        <4> DEFINE rec == [Idle EXCEPT !.pc = "settle", !.task = stored, !.aborted = runner[r].aborted]
        <4>1. rec \in RunnerType /\ rec.pc = "settle" /\ rec.i = 1 /\ rec.artifact = "ready"
          BY <1>0, <1>1, <1>c, <1>i DEF RunnerType
        <4> QED
          BY <1>r, <3>1, <4>1
      <3> QED
        BY <1>11, <1>t, <3>2 DEF Catch, At, RunSettles, RunEffect
    <2> QED
      BY <2>1, <2>2
  <1>12. CASE Settle(r)
    <2>1. stored' \in Terminal /\ stored' \in States
      BY <1>12, PipelineFacts DEF Settle, Answer, Outcome, Terminal
    <2> QED
      BY <1>12, <1>e, <1>t, <2>1 DEF Settle, Answer, At, RunEnds, RunEffect
  <1>13. CASE Disconnect(r)
    BY <1>0, <1>13, <1>t, RunForms DEF Disconnect, RunIsAborted, RunEffect
  <1>14. CASE StoreFails(r)
    <2>1. canceller' = canceller /\ troubles' \in 0..MaxTroubles
      BY <1>0, <1>14, CodingAssumption DEF StoreFails, Trouble
    <2>s. stored' \in States
      <3>1. Storing(r) \subseteq States
        BY <1>1, PipelineFacts DEF Storing, Outcome, Terminal
      <3> QED
        BY <1>0, <1>14, <3>1 DEF StoreFails
    <2>2. CASE runner[r].pc \in {"step", "complete", "finish"} /\ Goto(r, "catch") /\ UNCHANGED crashed
      BY <1>0, <1>14, <1>c, <2>1, <2>s, <2>2, RunForms DEF StoreFails, RunThrows, RunEffect
    <2>3. CASE /\ runner[r].pc \in {"catch", "settle"} /\ runner' = [runner EXCEPT ![r] = Over]
               /\ crashed' = crashed \cup {r}
      BY <1>14, <1>e, <2>1, <2>s, <2>3 DEF StoreFails, RunEnds, RunEffect
    <2> QED
      BY <1>14, <2>2, <2>3 DEF StoreFails
  <1> QED
    BY <1>2, <1>3, <1>4, <1>5, <1>6, <1>7, <1>8, <1>9, <1>10, <1>11, <1>12, <1>13, <1>14 DEF RunAction, Drive

-----------------------------------------------------------------------------
(* Steps of the whole *)

\* A patch takes a step of its own.
Progress(p) == PatchStep(p) \/ ApplyFails(p) \/ Tear(p)

CancelEffect ==
    /\ canceller' \in [Cancellers -> {"idle", "write", "over"}] /\ stored' \in {stored, "cancelled"}
    /\ UNCHANGED <<patchVars, runner, validated, crashed, troubles>>

LEMMA NextEffect ==
    ASSUME TypeInv, [CodingNext]_vars
    PROVE  \/ \E r \in Runners : RunEffect(r) /\ canceller' = canceller /\ troubles' \in 0..MaxTroubles
           \/ \E p \in Patchers : /\ (p \notin Runners /\ BeginPatch(p)) \/ Progress(p)
                                  /\ UNCHANGED codingVars /\ troubles' \in 0..MaxTroubles
           \/ CancelEffect \/ Crash \/ UNCHANGED vars
  <1>0. TypeOK /\ troubles \in 0..MaxTroubles /\ canceller \in [Cancellers -> {"idle", "write", "over"}]
    BY DEF TypeInv, TypeOK
  <1>1. ASSUME NEW r \in Runners, RunAction(r)
        PROVE  RunEffect(r) /\ canceller' = canceller /\ troubles' \in 0..MaxTroubles
    BY <1>0, <1>1, RunActionEffect
  <1>2. ASSUME NEW c \in Cancellers, CancelRead(c) \/ CancelWrite(c) PROVE CancelEffect
    BY <1>0, <1>2 DEF CancelRead, CancelWrite, CancelEffect
  <1>3. ASSUME NEW p \in Patchers, Deliver(p) \/ PatchProgress(p)
        PROVE  /\ (p \notin Runners /\ BeginPatch(p)) \/ Progress(p)
               /\ UNCHANGED codingVars /\ troubles' \in 0..MaxTroubles
    BY <1>0, <1>3, CodingAssumption DEF Deliver, PatchProgress, Progress, Trouble
  <1> QED
    BY <1>1, <1>2, <1>3 DEF CodingNext, RunAction

LEMMA ProgressIsAction == ASSUME NEW p \in Patchers, BeginPatch(p) \/ Progress(p) PROVE PatchAction(p)
  BY DEF PatchAction, Progress

LEMMA WholeStep ==
    ASSUME PatchInv, WholeInv, NEW p \in Patchers, PatchAction(p)
    PROVE  PatchInv' /\ WholeInv' /\ PatchEffect(p) /\ base' = base
  <1>1. PatchEffect(p) /\ base' = base
    BY PatchActionEffect
  <1>2. PatchInv'
    BY <1>1, PatchShapeStep
  <1>3. ASSUME NEW q \in Patchers PROVE Kept(q)' /\ Made(q)' /\ Unseen(q)'
    BY <1>1, WholeOfOthers, WholeOfOwn, UnseenStep
  <1> QED
    BY <1>1, <1>2, <1>3 DEF WholeInv

\* Nothing that is said of the patches looks at what they were made from.
LEMMA PatchesStay ==
    ASSUME PatchInv, WholeInv, files' = files, patch' = patch, base' \in [Patchers -> [Files -> Contents]]
    PROVE  PatchInv' /\ WholeInv'
  <1>1. PatchInv'
    BY DEF PatchInv, PatchTypeOK, Shape
  <1>2. WholeInv'
    BY DEF WholeInv, Kept, Made, Unseen, Done, Result
  <1> QED
    BY <1>1, <1>2

LEMMA CrashOfPatches ==
    ASSUME PatchInv, WholeInv, Crash
    PROVE  /\ PatchInv' /\ WholeInv'
           /\ \A p \in Patchers : patch'[p].pc \notin {"plan", "gate", "apply", "rollback"}
  <1>0. /\ patch \in [Patchers -> PatchType] /\ files' = files /\ base' = base
        /\ PatchTypeOK /\ \A p \in Patchers : Shape(p) /\ Kept(p) /\ Made(p) /\ Unseen(p)
    BY DEF PatchInv, PatchTypeOK, PatchType, WholeInv, Crash
  <1>1. ASSUME NEW p \in Patchers
        PROVE  /\ patch'[p] \in PatchType /\ patch'[p].before = patch[p].before
               /\ \/ patch'[p].pc = "torn"
                  \/ patch'[p] = patch[p] /\ patch[p].pc \notin {"plan", "gate", "apply", "rollback"}
    <2>1. patch'[p] = IF patch[p].pc \in {"plan", "gate", "apply", "rollback"}
                      THEN [patch[p] EXCEPT !.pc = "torn"] ELSE patch[p]
      BY DEF Crash
    <2>2. "torn" \in PatchPc
      BY DEF PatchPc
    <2> QED
      BY <1>0, <2>1, <2>2 DEF PatchType
  <1>2. patch' \in [Patchers -> PatchType]
    <2> DEFINE New(p) == IF patch[p].pc \in {"plan", "gate", "apply", "rollback"}
                         THEN [patch[p] EXCEPT !.pc = "torn"] ELSE patch[p]
    <2>1. patch' = [p \in Patchers |-> New(p)]
      BY DEF Crash
    <2> HIDE DEF New
    <2>2. DOMAIN patch' = Patchers /\ patch' = [p \in DOMAIN patch' |-> patch'[p]]
      BY <2>1
    <2> QED
      BY <1>1, <2>2
  <1>3. PatchInv'
    <2>1. \A p \in Patchers : Shape(p)'
      BY <1>0, <1>1 DEF Shape
    <2> QED
      BY <1>0, <1>2, <2>1 DEF PatchInv, PatchTypeOK, PatchType
  <1>4. ASSUME NEW p \in Patchers PROVE Kept(p)' /\ Made(p)' /\ Unseen(p)'
    <2>1. CASE patch'[p].pc = "torn"
      BY <2>1 DEF Kept, Made, Unseen
    <2>2. CASE patch'[p] = patch[p]
      <3>1. Kept(p)' /\ Made(p)'
        BY <1>0, <2>2 DEF Kept, Made, Done, Result
      <3>2. Unseen(p)'
        BY <1>0, <1>1, <2>2 DEF Unseen
      <3> QED
        BY <3>1, <3>2
    <2> QED
      BY <1>1, <2>1, <2>2
  <1> QED
    BY <1>1, <1>3, <1>4 DEF WholeInv

LEMMA TypeInit == CodingInit => TypeInv
  <1> SUFFICES ASSUME CodingInit PROVE TypeInv
    OBVIOUS
  <1>1. PatchInv /\ WholeInv
    BY WholeInit DEF CodingInit
  <1>2. Idle \in RunnerType
    BY PipelineFacts DEF Idle, RunnerType, RunPc
  <1>3. /\ runner \in [Runners -> RunnerType] /\ stored \in States /\ troubles \in 0..MaxTroubles
        /\ canceller \in [Cancellers -> {"idle", "write", "over"}] /\ crashed \subseteq Runners
        /\ validated \in [Runners -> [Files -> Contents] \cup {<<>>}]
    BY <1>2, PipelineFacts, CodingAssumption DEF CodingInit
  <1> QED
    BY <1>1, <1>3 DEF TypeInv, TypeOK, PatchInv, RunnerType

LEMMA TypeStep == TypeInv /\ [CodingNext]_vars => TypeInv'
  <1> SUFFICES ASSUME TypeInv, [CodingNext]_vars PROVE TypeInv'
    OBVIOUS
  <1>0. /\ PatchInv /\ WholeInv /\ runner \in [Runners -> RunnerType] /\ stored \in States
        /\ troubles \in 0..MaxTroubles /\ canceller \in [Cancellers -> {"idle", "write", "over"}]
        /\ crashed \subseteq Runners /\ validated \in [Runners -> [Files -> Contents] \cup {<<>>}]
        /\ files \in [Files -> Contents] /\ base \in [Patchers -> [Files -> Contents]]
        /\ Runners \subseteq Patchers
    BY CodingAssumption DEF TypeInv, TypeOK, RunnerType, PatchTypeOK
  <1> DEFINE Rest == /\ runner' \in [Runners -> RunnerType] /\ stored' \in States
                     /\ troubles' \in 0..MaxTroubles /\ canceller' \in [Cancellers -> {"idle", "write", "over"}]
                     /\ crashed' \subseteq Runners /\ validated' \in [Runners -> [Files -> Contents] \cup {<<>>}]
  <1>1. SUFFICES PatchInv' /\ WholeInv' /\ Rest
    BY DEF TypeInv, TypeOK, RunnerType, PatchInv
  <1>2. ASSUME NEW r \in Runners, RunEffect(r), canceller' = canceller, troubles' \in 0..MaxTroubles
        PROVE  PatchInv' /\ WholeInv' /\ Rest
    <2>1. Rest
      BY <1>0, <1>2 DEF RunEffect, RunStarts, RunBegins, RunInspects, RunValidates, RunThrows, RunIsAborted,
         RunPatches, RunPatched, RunCompletes, RunEnds, RunSettles, RunMoves
    <2>2. CASE RunPatches(r)
      <3>1. PatchAction(r)
        BY <2>2 DEF RunPatches, PatchAction
      <3> QED
        BY <1>0, <2>1, <3>1, WholeStep
    <2>3. CASE ~RunPatches(r)
      <3>1. files' = files /\ patch' = patch /\ base' \in [Patchers -> [Files -> Contents]]
        BY <1>0, <1>2, <2>3 DEF RunEffect, RunStarts, RunBegins, RunInspects, RunValidates, RunThrows, RunIsAborted,
           RunPatched, RunCompletes, RunEnds, RunSettles, patchVars
      <3> QED
        BY <1>0, <2>1, <3>1, PatchesStay
    <2> QED
      BY <2>2, <2>3
  <1>3. ASSUME NEW p \in Patchers, BeginPatch(p) \/ Progress(p), UNCHANGED codingVars, troubles' \in 0..MaxTroubles
        PROVE  PatchInv' /\ WholeInv' /\ Rest
    <2>1. Rest
      BY <1>0, <1>3 DEF codingVars
    <2> QED
      BY <1>0, <1>3, <2>1, ProgressIsAction, WholeStep
  <1>4. ASSUME CancelEffect PROVE PatchInv' /\ WholeInv' /\ Rest
    <2>1. Rest
      BY <1>0, <1>4, PipelineFacts DEF CancelEffect, Terminal
    <2> QED
      BY <1>0, <1>4, <2>1, PatchesStay DEF CancelEffect, patchVars
  <1>5. ASSUME Crash PROVE PatchInv' /\ WholeInv' /\ Rest
    <2>0. Idle \in RunnerType
      BY PipelineFacts DEF Idle, RunnerType, RunPc
    <2>1. Idle \in RunnerType /\ Over \in RunnerType
      BY <2>0 DEF Over, RunnerType, RunPc
    <2>2. runner' \in [Runners -> RunnerType]
      BY <1>5, <2>1 DEF Crash
    <2>3. canceller' \in [Cancellers -> {"idle", "write", "over"}]
      BY <1>5 DEF Crash
    <2>4. /\ stored' = stored /\ validated' = validated /\ troubles' \in 0..MaxTroubles
          /\ crashed' \subseteq Runners
      BY <1>0, <1>5, CodingAssumption DEF Crash, Trouble
    <2> QED
      BY <1>0, <1>5, <2>2, <2>3, <2>4, CrashOfPatches
  <1>6. ASSUME UNCHANGED vars PROVE PatchInv' /\ WholeInv' /\ Rest
    <2>1. Rest
      BY <1>0, <1>6 DEF vars, codingVars
    <2> QED
      BY <1>0, <1>6, <2>1, PatchesStay DEF vars, patchVars
  <1> HIDE DEF Rest
  <1> QED
    BY <1>2, <1>3, <1>4, <1>5, <1>6, NextEffect

\* Every variable keeps its type.
THEOREM TypeCorrect == Spec => []TypeOK
  <1>1. TypeInv => TypeOK
    BY DEF TypeInv
  <1> QED
    BY TypeInit, TypeStep, <1>1, PTL DEF Spec

\* Applied patches have done all of their operations, undone and refused ones none, on every file
\* nobody else has written since they planned it, also when other patches, runs and crashes interleave.
THEOREM PatchesAreAllOrNothing == Spec => []AllOrNothing
  <1>1. TypeInv => AllOrNothing
    BY WholeIsAllOrNothing DEF TypeInv
  <1> QED
    BY TypeInit, TypeStep, <1>1, PTL DEF Spec

-----------------------------------------------------------------------------
(* The last word *)

Busy == \E r \in Runners : runner[r].pc \notin {"idle", "over"}

\* As long as no run is lost, a task that is not over has a run that works on it or none has begun.
WorkedOn == crashed = {} => \/ stored \in Terminal
                            \/ Busy
                            \/ \A r \in Runners : runner[r].pc = "idle"

LEMMA WorkedOnStep == TypeInv /\ WorkedOn /\ [CodingNext]_vars => WorkedOn'
  <1> SUFFICES ASSUME TypeInv, WorkedOn, [CodingNext]_vars, crashed' = {}
               PROVE  stored' \in Terminal \/ Busy' \/ \A r \in Runners : runner'[r].pc = "idle"
    BY DEF WorkedOn
  <1>1. ASSUME NEW r \in Runners, RunEffect(r)
        PROVE  stored' \in Terminal \/ Busy'
    <2>1. \/ runner'[r].pc \notin {"idle", "over"}
          \/ runner'[r].pc = "over" /\ stored' \in Terminal
      BY <1>1 DEF RunEffect, RunStarts, RunBegins, RunInspects, RunValidates, RunThrows, RunIsAborted,
         RunPatches, RunPatched, RunCompletes, RunEnds, RunSettles, RunMoves
    <2> QED
      BY <2>1 DEF Busy
  <1>2. ASSUME UNCHANGED codingVars
        PROVE  stored' \in Terminal \/ Busy' \/ \A r \in Runners : runner'[r].pc = "idle"
    BY <1>2 DEF codingVars, WorkedOn, Busy
  <1>3. ASSUME CancelEffect
        PROVE  stored' \in Terminal \/ Busy' \/ \A r \in Runners : runner'[r].pc = "idle"
    BY <1>3 DEF CancelEffect, WorkedOn, Busy, Terminal
  <1>4. ASSUME Crash
        PROVE  stored' \in Terminal \/ Busy' \/ \A r \in Runners : runner'[r].pc = "idle"
    <2>1. crashed = {} /\ \A r \in Runners : runner[r].pc \in {"idle", "over"}
      BY <1>4 DEF Crash
    <2>2. stored' = stored /\ \A r \in Runners : runner[r].pc = "idle" => runner'[r].pc = "idle"
      BY <1>4 DEF Crash, At, Idle
    <2> QED
      BY <2>1, <2>2 DEF WorkedOn, Busy
  <1>5. UNCHANGED vars => UNCHANGED codingVars
    BY DEF vars
  <1> QED
    BY <1>1, <1>2, <1>3, <1>4, <1>5, NextEffect

\* When nobody works on a task any more and no run was lost, the record has a terminal state.
THEOREM QuietTasksAreOver == Spec => []QuietIsTerminal
  <1>1. CodingInit => TypeInv /\ WorkedOn
    <2>1. CodingInit => WorkedOn
      BY DEF CodingInit, WorkedOn, Idle
    <2> QED
      BY <2>1, TypeInit
  <1>2. TypeInv /\ WorkedOn /\ [CodingNext]_vars => (TypeInv /\ WorkedOn)'
    BY TypeStep, WorkedOnStep
  <1>3. WorkedOn => QuietIsTerminal
    BY DEF WorkedOn, QuietIsTerminal, Busy, At
  <1> QED
    BY <1>1, <1>2, <1>3, PTL DEF Spec

-----------------------------------------------------------------------------
(* What was validated *)

\* A run waits for its patch while that is at work.
Awaited == \A r \in Runners :
    /\ patch[r].pc \in {"plan", "gate", "apply", "rollback"} => runner[r].pc = "patching"
    /\ runner[r].pc = "patching" => runner[r].i = 7

\* From the validation on, the files the run was validated on are those its patch was made from.
Checked(r) == \A k \in DOMAIN Changes[r] : validated[r][Changes[r][k].file] = base[r][Changes[r][k].file]
CheckedInv == \A r \in Runners :
    (\/ runner[r].pc = "complete" /\ runner[r].i = 6 /\ runner[r].artifact = "ready"
     \/ runner[r].pc \in {"step", "execute", "patching"} /\ runner[r].i = 7)
        => Checked(r)

\* So is what the plan of the patch has read.
PlannedIsBase == \A r \in Runners : patch[r].pc \in {"plan", "gate", "apply"} =>
    \A k \in DOMAIN patch[r].before : patch[r].before[k] = base[r][Changes[r][k].file]

RunInv == Awaited /\ CheckedInv /\ PlannedIsBase

LEMMA UpdateIsLegal ==
    ASSUME NEW content, NEW expected, NEW op, op.kind = "update", op.guarded, Legal(op, content, expected)
    PROVE  content = expected
  BY DEF Legal

LEMMA RunnerOps ==
    ASSUME NEW r \in Runners
    PROVE  /\ r \in Patchers
           /\ \A k \in DOMAIN Changes[r] :
                /\ Changes[r][k].kind = "update" /\ Changes[r][k].guarded /\ Changes[r][k].file \in Files
                /\ \A l \in DOMAIN Changes[r] : Changes[r][l].file = Changes[r][k].file => l = k
  BY CodingAssumption, OpFacts

\* A patch of another leaves a patch where it is and what its plan has read.
LEMMA OthersPatch ==
    ASSUME NEW p \in Patchers, PatchEffect(p), NEW q \in Patchers, q # p
    PROVE  patch'[q].pc = patch[q].pc /\ patch'[q].before = patch[q].before
  BY DEF PatchEffect, Began, Refused, PlannedOne, PassedOn, GoesTo, WroteOp, UndidOp, PatchMoves, PatchWrites

LEMMA PlannedIsBaseStep ==
    ASSUME TypeInv, PlannedIsBase, NEW p \in Patchers, PatchAction(p)
    PROVE  PlannedIsBase'
  <1>1. PatchEffect(p) /\ base' = base
    BY WholeStep DEF TypeInv
  <1> SUFFICES ASSUME NEW r \in Runners, patch'[r].pc \in {"plan", "gate", "apply"},
                      NEW k \in DOMAIN patch'[r].before
               PROVE  patch'[r].before[k] = base[r][Changes[r][k].file]
    BY <1>1 DEF PlannedIsBase
  <1>2. r \in Patchers
    BY RunnerOps
  <1>3. CASE r # p
    <2>1. patch'[r].pc = patch[r].pc /\ patch'[r].before = patch[r].before
      BY <1>1, <1>2, <1>3, OthersPatch
    <2> QED
      BY <2>1 DEF PlannedIsBase
  <1>4. CASE r = p
    <2>0. patch[p].before \in Seq(Contents) /\ Shape(p) /\ patch[p].i \in Nat
          /\ files \in [Files -> Contents]
      BY DEF TypeInv, PatchInv, PatchTypeOK
    <2>1. CASE PlannedOne(p)
      <3>1. /\ patch[p].pc = "plan" /\ patch[p].i \in 1..Len(Changes[p]) /\ Len(patch[p].before) = patch[p].i - 1
            /\ Legal(Op(p), files[Op(p).file], base[p][Op(p).file])
            /\ patch'[p].before = Append(patch[p].before, files[Op(p).file])
        BY <2>0, <2>1 DEF PlannedOne, PatchMoves, Shape
      <3>2. Op(p).kind = "update" /\ Op(p).guarded /\ Op(p).file \in Files
        BY <1>4, <3>1, RunnerOps, OpFacts DEF Op
      <3>3. files[Op(p).file] = base[p][Op(p).file]
        BY <3>1, <3>2, UpdateIsLegal
      <3>4. CASE k = patch[p].i
        <4>1. files[Op(p).file] \in Contents
          BY <2>0, <3>2
        <4>2. \A x \in Contents : Append(patch[p].before, x)[Len(patch[p].before) + 1] = x
          BY <2>0
        <4>3. patch'[p].before[patch[p].i] = files[Op(p).file]
          BY <2>0, <3>1, <4>1, <4>2
        <4> QED
          BY <1>4, <3>3, <3>4, <4>3 DEF Op
      <3>5. CASE k # patch[p].i
        <4>1. k \in DOMAIN patch[p].before /\ patch'[p].before[k] = patch[p].before[k]
          BY <1>4, <2>0, <3>1, <3>5
        <4> QED
          BY <1>4, <3>1, <4>1 DEF PlannedIsBase
      <3> QED
        BY <3>4, <3>5
    <2>2. CASE ~PlannedOne(p)
      <3>1. patch'[p].before \in {<<>>, patch[p].before} /\ (patch'[p].before # <<>> => patch[p].pc \in {"plan", "gate", "apply"})
        BY <1>1, <1>4, <2>2 DEF PatchEffect, Began, Refused, PassedOn, GoesTo, WroteOp, UndidOp, PatchMoves, PatchWrites
      <3> QED
        BY <1>4, <3>1 DEF PlannedIsBase
    <2> QED
      BY <2>1, <2>2
  <1> QED
    BY <1>3, <1>4

LEMMA RunInit == CodingInit => RunInv
  BY RunnerOps DEF CodingInit, PatchInit, RunInv, Awaited, CheckedInv, PlannedIsBase, Idle, NoPatch

LEMMA RunInvOfRun ==
    ASSUME TypeInv, RunInv, NEW r \in Runners, RunEffect(r)
    PROVE  RunInv'
  <1>0. Awaited /\ CheckedInv /\ PlannedIsBase /\ r \in Patchers /\ runner[r].i \in 1..7
    BY PipelineFacts, RunnerOps DEF RunInv, TypeInv, TypeOK
  <1>o. \A q \in Runners : q # r => runner'[q] = runner[q]
    BY DEF RunEffect, RunStarts, RunBegins, RunInspects, RunValidates, RunThrows, RunIsAborted,
       RunPatches, RunPatched, RunCompletes, RunEnds, RunSettles, RunMoves
  <1>1. CASE RunPatches(r)
    <2>1. PatchAction(r) /\ patch[r].pc = "off" /\ base' = base /\ validated' = validated
      BY <1>1 DEF RunPatches, PatchAction, BeginPatch, PatchAt
    <2>2. PatchEffect(r)
      BY <1>0, <2>1, WholeStep DEF TypeInv
    <2>3. Awaited'
      <3>1. runner'[r].pc = "patching" /\ runner'[r].i = 7
        BY <1>1 DEF RunPatches, RunMoves
      <3>2. \A q \in Runners : q # r => patch'[q].pc = patch[q].pc
        BY <1>0, <2>2, OthersPatch, RunnerOps
      <3> QED
        BY <1>0, <1>o, <3>1, <3>2 DEF Awaited
    <2>4. CheckedInv'
      BY <1>0, <1>1, <1>o, <2>1 DEF RunPatches, RunMoves, CheckedInv, Checked
    <2> QED
      BY <1>0, <2>1, <2>3, <2>4, PlannedIsBaseStep DEF RunInv
  <1>2. CASE RunInspects(r)
    <2>1. /\ runner[r].pc = "execute" /\ runner[r].i \notin {6, 7} /\ patch' = patch /\ validated' = validated
          /\ \A p \in Patchers : p # r => base'[p] = base[p]
          /\ runner'[r].pc = "complete" /\ runner'[r].i = runner[r].i
      BY <1>2 DEF RunInspects, RunMoves
    <2>2. Awaited'
      BY <1>0, <1>o, <2>1 DEF Awaited
    <2>3. CheckedInv'
      BY <1>0, <1>o, <2>1, RunnerOps DEF CheckedInv, Checked
    <2>4. PlannedIsBase'
      BY <1>0, <2>1, RunnerOps DEF PlannedIsBase, Awaited
    <2> QED
      BY <2>2, <2>3, <2>4 DEF RunInv
  <1>3. CASE RunValidates(r)
    <2>1. /\ runner[r].pc = "execute" /\ runner[r].i = 6 /\ AllLegal(r) /\ patch' = patch /\ base' = base
          /\ validated'[r] = files /\ \A q \in Runners : q # r => validated'[q] = validated[q]
          /\ runner'[r].pc = "complete" /\ runner'[r].i = runner[r].i
      BY <1>3 DEF RunValidates, RunMoves, patchVars
    <2>2. Awaited'
      BY <1>0, <1>o, <2>1 DEF Awaited
    <2>3. Checked(r)'
      <3>1. \A k \in DOMAIN Changes[r] : files[Changes[r][k].file] = base[r][Changes[r][k].file]
        BY <2>1, RunnerOps, UpdateIsLegal DEF AllLegal
      <3> QED
        BY <2>1, <3>1 DEF Checked
    <2>4. CheckedInv'
      BY <1>0, <1>o, <2>1, <2>3 DEF CheckedInv, Checked
    <2> QED
      BY <1>0, <2>1, <2>2, <2>4 DEF RunInv, PlannedIsBase
  <1>4. CASE RunPatched(r)
    <2>1. /\ runner[r].pc = "patching" /\ PatchEnded(r) /\ patch' = patch /\ base' = base
          /\ \A q \in Runners : q # r => validated'[q] = validated[q]
          /\ runner'[r].pc = "complete" /\ runner'[r].i = runner[r].i /\ runner[r].i = 7
      BY <1>0, <1>4 DEF RunPatched, RunMoves, patchVars, Awaited
    <2>2. Awaited'
      BY <1>0, <1>o, <2>1 DEF Awaited, PatchEnded
    <2>3. CheckedInv'
      BY <1>0, <1>o, <2>1 DEF CheckedInv, Checked
    <2> QED
      BY <1>0, <2>1, <2>2, <2>3 DEF RunInv, PlannedIsBase
  <1>5. CASE RunStarts(r) \/ RunBegins(r) \/ RunThrows(r) \/ RunIsAborted(r) \/ RunCompletes(r) \/ RunEnds(r) \/ RunSettles(r)
    <2>1. patch' = patch /\ base' = base /\ validated' = validated
      BY <1>5 DEF RunStarts, RunBegins, RunThrows, RunIsAborted, RunCompletes, RunEnds, RunSettles, patchVars
    <2>2. runner[r].pc # "patching" /\ runner'[r].pc # "patching"
      BY <1>5 DEF RunStarts, RunBegins, RunThrows, RunIsAborted, RunCompletes, RunEnds, RunSettles, RunMoves
    <2>3. \/ runner'[r].pc \notin {"step", "execute", "patching", "complete"}
          \/ runner'[r].i = 1 /\ runner'[r].pc = "step"
          \/ /\ runner[r].pc = "step" /\ runner'[r].pc \in {"step", "execute"} /\ runner'[r].i = runner[r].i
          \/ /\ runner[r].pc = "complete" /\ runner[r].artifact = "ready" /\ runner'[r].pc = "step"
             /\ runner'[r].i = runner[r].i + 1
      BY <1>5 DEF RunStarts, RunBegins, RunThrows, RunIsAborted, RunCompletes, RunEnds, RunSettles, RunMoves
    <2>4. Awaited'
      BY <1>0, <1>o, <2>1, <2>2 DEF Awaited
    <2>5. CheckedInv'
      <3>1. \A q \in Runners : Checked(q)' <=> Checked(q)
        BY <2>1 DEF Checked
      <3>2. (runner'[r].pc \in {"step", "execute", "patching"} /\ runner'[r].i = 7) => Checked(r)
        BY <1>0, <2>2, <2>3 DEF CheckedInv
      <3>3. runner'[r].pc # "complete"
        BY <1>5 DEF RunStarts, RunBegins, RunThrows, RunIsAborted, RunCompletes, RunEnds, RunSettles, RunMoves
      <3> QED
        BY <1>0, <1>o, <3>1, <3>2, <3>3 DEF CheckedInv
    <2> QED
      BY <1>0, <2>1, <2>4, <2>5 DEF RunInv, PlannedIsBase
  <1> QED
    BY <1>1, <1>2, <1>3, <1>4, <1>5 DEF RunEffect

LEMMA RunStep == TypeInv /\ RunInv /\ [CodingNext]_vars => RunInv'
  <1> SUFFICES ASSUME TypeInv, RunInv, [CodingNext]_vars PROVE RunInv'
    OBVIOUS
  <1>0. Awaited /\ CheckedInv /\ PlannedIsBase
    BY DEF RunInv
  <1>1. ASSUME NEW p \in Patchers, (p \notin Runners /\ BeginPatch(p)) \/ Progress(p), UNCHANGED codingVars
        PROVE  RunInv'
    <2>1. PatchAction(p)
      BY <1>1, ProgressIsAction
    <2>2. PatchEffect(p) /\ base' = base
      BY <2>1, WholeStep DEF TypeInv
    <2>3. p \in Runners => patch[p].pc \in {"plan", "gate", "apply", "rollback"}
      BY <1>1 DEF Progress, PatchStep, PlanOp, Gate, ApplyOp, RollbackOp, ApplyFails, Tear, PatchAt
    <2>4. runner' = runner /\ validated' = validated
      BY <1>1 DEF codingVars
    <2>5. Awaited'
      BY <1>0, <2>2, <2>3, <2>4, OthersPatch, RunnerOps DEF Awaited
    <2>6. CheckedInv'
      BY <1>0, <2>2, <2>4 DEF CheckedInv, Checked
    <2> QED
      BY <1>0, <2>1, <2>5, <2>6, PlannedIsBaseStep DEF RunInv
  <1>2. ASSUME patch' = patch, base' = base, runner' = runner, validated' = validated PROVE RunInv'
    BY <1>2, <1>0 DEF RunInv, Awaited, CheckedInv, Checked, PlannedIsBase
  <1>3. ASSUME Crash PROVE RunInv'
    <2>1. \A p \in Patchers : patch'[p].pc \notin {"plan", "gate", "apply", "rollback"}
      BY <1>3, CrashOfPatches DEF TypeInv
    <2>2. \A r \in Runners : runner'[r].pc \in {"idle", "over"}
      BY <1>3 DEF Crash, Idle, Over
    <2> QED
      BY <2>1, <2>2, RunnerOps DEF RunInv, Awaited, CheckedInv, PlannedIsBase
  <1> QED
    BY <1>1, <1>2, <1>3, NextEffect, RunInvOfRun DEF CancelEffect, patchVars, vars, codingVars

LEMMA RunIsReplaced == TypeInv /\ RunInv => ValidatedIsReplaced
  <1> SUFFICES ASSUME TypeInv, RunInv, NEW r \in Runners, PatchAt(r, "apply"),
                      NEW k \in patch[r].i..Len(Changes[r]), Changes[r][k].file \notin patch[r].late
               PROVE  files[Changes[r][k].file] = validated[r][Changes[r][k].file]
    BY DEF ValidatedIsReplaced
  <1>1. /\ r \in Patchers /\ patch[r].pc = "apply" /\ patch[r].before \in Seq(Contents)
        /\ patch[r].i \in 1..Len(Changes[r]) /\ Len(patch[r].before) = Len(Changes[r])
        /\ Len(Changes[r]) \in Nat /\ DOMAIN Changes[r] = 1..Len(Changes[r]) /\ Kept(r)
    BY RunnerOps, OpFacts DEF TypeInv, PatchInv, WholeInv, PatchTypeOK, Shape, PatchAt
  <1>2. k \in DOMAIN Changes[r] /\ k \in DOMAIN patch[r].before /\ Done(r) = patch[r].i - 1
    BY <1>1 DEF Done
  <1>3. \A l \in 1..Done(r) : Changes[r][l].file # Changes[r][k].file
    <2>1. \A l \in 1..Done(r) : l \in DOMAIN Changes[r] /\ l # k
      BY <1>1, <1>2
    <2> QED
      BY <1>2, <2>1, RunnerOps
  <1>4. files[Changes[r][k].file] = patch[r].before[k]
    BY <1>1, <1>2, <1>3 DEF Kept
  <1>5. patch[r].before[k] = base[r][Changes[r][k].file]
    BY <1>1, <1>2 DEF RunInv, PlannedIsBase
  <1>6. Checked(r)
    BY <1>1 DEF RunInv, Awaited, CheckedInv
  <1> QED
    BY <1>2, <1>4, <1>5, <1>6 DEF Checked

\* What a run is about to overwrite is what its validation ran on, unless someone else wrote the file
\* after the patch was planned.
THEOREM RunsReplaceWhatTheyValidated == Spec => []ValidatedIsReplaced
  <1>1. CodingInit => TypeInv /\ RunInv
    BY TypeInit, RunInit
  <1>2. TypeInv /\ RunInv /\ [CodingNext]_vars => (TypeInv /\ RunInv)'
    BY TypeStep, RunStep
  <1> QED
    BY <1>1, <1>2, RunIsReplaced, PTL DEF Spec

=============================================================================
