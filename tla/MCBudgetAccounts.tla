--------------------------- MODULE MCBudgetAccounts ---------------------------
(***************************************************************************)
(* BudgetAccounts on small sets.  Requests, sessions and keys are          *)
(* interchangeable.                                                        *)
(***************************************************************************)
EXTENDS BudgetAccounts, TLC

Symmetry == Permutations(Requests) \cup Permutations(Sessions) \cup Permutations(Keys)
=============================================================================
