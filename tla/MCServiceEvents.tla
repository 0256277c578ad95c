-------------------------- MODULE MCServiceEvents --------------------------
(***************************************************************************)
(* ServiceEvents with interchangeable names and tasks.  No name is vfs, so *)
(* that no capability is made: those are the matter of Registry's own run. *)
(***************************************************************************)
EXTENDS ServiceEvents

CONSTANTS n1, n2, p1, p2

Symmetry == Permutations({n1, n2}) \cup Permutations({p1, p2})
=============================================================================
