-------------------------- MODULE MCWorkspaceKeys --------------------------
(* WorkspaceKeys for TLC. *)
EXTENDS WorkspaceKeys, TLC
Symmetry == Permutations(Users) \cup Permutations(Procs)
=============================================================================
