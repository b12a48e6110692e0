----------------------------- MODULE FilePatches -----------------------------
(***************************************************************************)
(* Change sets applied to the files of a project:                          *)
(* FileMutationPreflightApplier plans all operations, reading each file,   *)
(* and applies them one file at a time, with a rollback when one fails;    *)
(* ProjectCodeChangeSetApplier puts the frontend quality gate in between.  *)
(* Nothing locks the files: several patches and the operations of one      *)
(* interleave.  A content is the patcher that wrote it, Old or Missing;    *)
(* writing a file is a rename, thus atomic.                                *)
(***************************************************************************)
EXTENDS Naturals, Sequences

CONSTANTS
    Patchers,   \* those who apply a change set, each at most once
    Files,
    Changes,    \* the operations of each patcher; one that is guarded carries what it expects of the file
    Old,        \* the content of the files at first
    Missing     \* the content of a file that does not exist

Kinds == {"create", "update", "delete"}

ASSUME PatchAssumption ==
    /\ Changes \in [Patchers -> Seq([kind : Kinds, file : Files, guarded : BOOLEAN]) \ {<<>>}]
    /\ Old # Missing /\ Patchers \cap {Old, Missing} = {}

VARIABLES
    files,   \* the content of each file
    base,    \* what each patcher's change set was made from
    patch    \* where each patch is, what its plan read for each operation, and the files that others
             \* wrote since it planned them

patchVars == <<files, base, patch>>

Contents == Patchers \cup {Old, Missing}
PatchPc == {"off", "plan", "gate", "apply", "rollback", "applied", "failed", "undone", "torn"}

NoPatch == [pc |-> "off", i |-> 1, before |-> <<>>, late |-> {}]

PatchInit ==
    /\ files = [f \in Files |-> Old]
    /\ base = [p \in Patchers |-> files]
    /\ patch = [p \in Patchers |-> NoPatch]

Op(p) == Changes[p][patch[p].i]
Last(p) == patch[p].i = Len(Changes[p])

PatchAt(p, pc) == patch[p].pc = pc
PatchGoto(p, pc) == patch' = [patch EXCEPT ![p].pc = pc]

Planned(p) == {Changes[p][i].file : i \in DOMAIN patch[p].before}

\* p writes f, moves to pc and index i; every patch that has planned f finds another's content there.
Write(p, f, content, pc, i) ==
    /\ files' = [files EXCEPT ![f] = content]
    /\ patch' = [q \in Patchers |->
                   IF q = p THEN [patch[p] EXCEPT !.pc = pc, !.i = i]
                   ELSE IF f \in Planned(q) THEN [patch[q] EXCEPT !.late = @ \cup {f}]
                   ELSE patch[q]]

-----------------------------------------------------------------------------
(* planCodeChangeSet *)

BeginPatch(p) ==
    /\ PatchAt(p, "off")
    /\ PatchGoto(p, "plan")
    /\ UNCHANGED <<files, base>>

\* Wrong variant: only the existence of the file is compared.
LegalAnyContent(op, content, expected) ==
    IF op.kind = "create" THEN op.guarded => content = Missing ELSE content # Missing

\* An update or a deletion needs the file, and as the change set knew it (beforeContent, a hash) if
\* it is guarded; a creation overwrites, unless it is guarded by a "missing" precondition.
Legal(op, content, expected) ==
    IF op.kind = "create" THEN op.guarded => content = Missing
    ELSE content # Missing /\ (op.guarded => content = expected)

\* One operation is read and checked; the first refusal fails the plan, with nothing written.
PlanOp(p) ==
    /\ PatchAt(p, "plan")
    /\ LET f == Op(p).file
       IN  patch' = IF Legal(Op(p), files[f], base[p][f])
                    THEN [patch EXCEPT ![p].before = Append(@, files[f]),
                                       ![p].i = IF Last(p) THEN 1 ELSE @ + 1,
                                       ![p].pc = IF Last(p) THEN "gate" ELSE @]
                    ELSE [patch EXCEPT ![p] = [NoPatch EXCEPT !.pc = "failed"]]
    /\ UNCHANGED <<files, base>>

\* evaluateFrontendChangeSet
Gate(p) ==
    /\ PatchAt(p, "gate")
    /\ \/ PatchGoto(p, "apply")
       \/ patch' = [patch EXCEPT ![p] = [NoPatch EXCEPT !.pc = "failed"]]
    /\ UNCHANGED <<files, base>>

-----------------------------------------------------------------------------
(* applyPlanWithRollback *)

\* What operation i of p makes of its file.
Result(p, i) == IF Changes[p][i].kind = "delete" THEN Missing ELSE p

NextPc(p) == IF Last(p) THEN "applied" ELSE "apply"
NextIndex(p) == IF Last(p) THEN patch[p].i ELSE patch[p].i + 1

\* The file is written, or removed; a file that is gone cannot be removed, and that fails the patch.
ApplyOp(p) ==
    /\ PatchAt(p, "apply")
    /\ IF Op(p).kind = "delete" /\ files[Op(p).file] = Missing
       THEN PatchGoto(p, "rollback") /\ UNCHANGED files
       ELSE Write(p, Op(p).file, Result(p, patch[p].i), NextPc(p), NextIndex(p))
    /\ UNCHANGED base

\* The write fails and leaves the file; those before it, at the indices below i, are undone.
WriteFails(p) == PatchGoto(p, "rollback") /\ UNCHANGED files

\* Wrong variant: an operation counts as applied once its result has been read.
ReadBackForgets(p) == Write(p, Op(p).file, Result(p, patch[p].i), "rollback", patch[p].i)

\* The write succeeds and reading the result fails: the operation counts as applied.
ReadBackFails(p) == Write(p, Op(p).file, Result(p, patch[p].i), "rollback", patch[p].i + 1)

ApplyFails(p) ==
    /\ PatchAt(p, "apply")
    /\ WriteFails(p) \/ (Op(p).kind # "delete" /\ ReadBackFails(p))
    /\ UNCHANGED base

\* The applied operations are undone in reverse, with what the plan read.
RollbackOp(p) ==
    /\ PatchAt(p, "rollback")
    /\ IF patch[p].i = 1 THEN PatchGoto(p, "undone") /\ UNCHANGED files
       ELSE LET f == Changes[p][patch[p].i - 1].file
            IN  Write(p, f, patch[p].before[patch[p].i - 1], "rollback", patch[p].i - 1)
    /\ UNCHANGED base

\* The undoing fails, or the process dies: what is left stays.
Tear(p) ==
    /\ PatchAt(p, "rollback")
    /\ PatchGoto(p, "torn")
    /\ UNCHANGED <<files, base>>

PatchStep(p) == PlanOp(p) \/ Gate(p) \/ ApplyOp(p) \/ RollbackOp(p)

PatchEnded(p) == patch[p].pc \in {"applied", "failed", "undone", "torn"}

-----------------------------------------------------------------------------
PatchTypeOK ==
    /\ files \in [Files -> Contents]
    /\ base \in [Patchers -> [Files -> Contents]]
    /\ patch \in [Patchers -> [pc : PatchPc, i : Nat, before : Seq(Contents), late : SUBSET Files]]

\* Whether operation i of p is its last one on that file: nothing forbids two operations on one file.
LastOn(p, i) == \A j \in DOMAIN Changes[p] : j > i => Changes[p][j].file # Changes[p][i].file

\* A patch is all or nothing on the files nobody else writes after it has planned them: once it is
\* applied they all hold its content, and once it has been rolled back they all hold what they held
\* before, whichever operation failed and however; a patch refused by the plan or the gate wrote nothing.
AllOrNothing ==
    \A p \in Patchers : \A i \in DOMAIN Changes[p] :
        LET f == Changes[p][i].file
        IN  f \notin patch[p].late =>
              /\ PatchAt(p, "applied") /\ LastOn(p, i) => files[f] = Result(p, i)
              /\ PatchAt(p, "undone") => files[f] = patch[p].before[i]
              /\ PatchAt(p, "failed") => files[f] # p

=============================================================================
