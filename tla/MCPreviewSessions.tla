--------------------------- MODULE MCPreviewSessions ---------------------------
(* PreviewSessions for TLC.  The slots of requests and of children are       *)
(* interchangeable, and the run checks invariants only.                       *)
EXTENDS PreviewSessions, TLC

Symmetry == Permutations(Requests) \cup Permutations(Children)
=============================================================================
