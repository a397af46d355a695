-------------------------- MODULE MCUpdateSegment --------------------------
(***************************************************************************)
(* Instances of UpdateSegment for TLC.                                     *)
(***************************************************************************)
EXTENDS UpdateSegment

=============================================================================
