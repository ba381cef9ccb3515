----------------------------- MODULE MCProjects -----------------------------
(* Projects with model values for its sets; the .cfg file gives the sizes. *)
EXTENDS Projects, TLC

Symmetry == Permutations(Docs) \cup Permutations(Calls)
=============================================================================
