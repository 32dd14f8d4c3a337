---------------------------- MODULE MCTaskStore -----------------------------
(***************************************************************************)
(* A small instance of TaskStore.                                          *)
(***************************************************************************)
EXTENDS TaskStore, TLC

Symmetry == Permutations(Task) \cup Permutations(Run) \cup Permutations(Key)
=============================================================================
