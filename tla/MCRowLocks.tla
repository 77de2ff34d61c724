------------------------------- MODULE MCRowLocks -------------------------------
(***************************************************************************)
(* Symmetry for TLC: owner ids are interchangeable.                        *)
(***************************************************************************)
EXTENDS RowLocks, TLC

Symmetry == Permutations(Owners)
=============================================================================
