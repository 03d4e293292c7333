------------------------------ MODULE MCDetector ------------------------------
(***************************************************************************)
(* An instance of Detector for TLC.  The members are alike, and no         *)
(* property of the run is a temporal one.                                  *)
(***************************************************************************)
EXTENDS Detector, TLC

Symmetry == Permutations(Member)
=============================================================================
