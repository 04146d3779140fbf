------------------------- MODULE MCNativeDetectors -------------------------
(* Instances of NativeDetectors for TLC. *)
EXTENDS NativeDetectors, TLC

(* The order of the resumes of an activity does not matter before them. *)
Symmetry == Permutations(DlibChains) \cup Permutations(VisionChains)
=============================================================================
