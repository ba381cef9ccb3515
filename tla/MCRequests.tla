---------------------------- MODULE MCRequests ----------------------------
(* Requests with model values for its sets; the .cfg files give the sizes. *)
EXTENDS Requests, TLC

Symmetry == Permutations(Bodies)
=============================================================================
