--------------------------- MODULE MCPatchReview ---------------------------
(* Two tasks that may propose for two documents or create a third one.     *)
EXTENDS PatchReview, TLC
CONSTANTS d1, d2, n1
Alike == Permutations({d1, d2})
=============================================================================
