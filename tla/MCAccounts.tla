---------------------------- MODULE MCAccounts ----------------------------
(* Accounts with model values for its sets; the .cfg file gives the sizes. *)
EXTENDS Accounts, TLC

Symmetry == Permutations(Sids) \cup Permutations(Calls) \cup Permutations(Admins)
=============================================================================
