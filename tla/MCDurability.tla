---------------------------- MODULE MCDurability ----------------------------
(***************************************************************************)
(* Instances of Durability for TLC.                                        *)
(***************************************************************************)
EXTENDS Durability, TLC

\* The tables are interchangeable.
TableSymmetry == Permutations(Tables)

=============================================================================
