-------------------------- MODULE MCWorkflowDelivery --------------------------
(***************************************************************************)
(* WorkflowDelivery on small sets.  Events and owners are interchangeable: *)
(* no definition orders or names them.                                     *)
(***************************************************************************)
EXTENDS WorkflowDelivery, TLC

Symmetry == Permutations(Events) \cup Permutations(Owners)
=============================================================================
