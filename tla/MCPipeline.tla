----------------------------- MODULE MCPipeline -----------------------------
(* Pipeline with model values for its sets; the .cfg files give the sizes.  *)
EXTENDS Pipeline, TLC

Symmetry == Permutations(Callers) \cup Permutations(Cancels)
=============================================================================
