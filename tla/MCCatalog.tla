------------------------------ MODULE MCCatalog ------------------------------
(***************************************************************************)
(* Instances of Catalog for TLC.                                           *)
(***************************************************************************)
EXTENDS Catalog, TLC

\* The names are interchangeable.
NameSymmetry == Permutations(Names)

=============================================================================
