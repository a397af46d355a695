------------------------ MODULE MCTransactionManager ------------------------
(***************************************************************************)
(* Instances of TransactionManager for TLC.                                *)
(***************************************************************************)
EXTENDS TransactionManager, TLC

\* The clients are interchangeable in the safety runs.
ClientSymmetry == Permutations(Clients)

=============================================================================
