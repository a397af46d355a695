--------------------------- MODULE MCBufferManager ---------------------------
(***************************************************************************)
(* Instances of BufferManager for TLC.  Threads are interchangeable in the *)
(* safety runs, and so are handle objects.                                 *)
(***************************************************************************)
EXTENDS BufferManager, TLC

Symmetry == Permutations(Threads) \cup Permutations(Handles)
=============================================================================
