------------------------- MODULE MCCamera2Pipeline -------------------------
(* Camera2Pipeline with a few openCamera calls, which are interchangeable. *)
EXTENDS Camera2Pipeline, TLC

OpensSymmetry == Permutations(Opens)
=============================================================================
