---------------------------- MODULE MCDataTable ----------------------------
(***************************************************************************)
(* DataTable on small instances.  Values that are told apart only by       *)
(* equality are interchangeable.                                           *)
(***************************************************************************)
EXTENDS DataTable, TLC

ValueSymmetry == Permutations(Values)

=============================================================================
