------------------------- MODULE MCLandmarksPreview -------------------------
(* Instances of LandmarksPreview for TLC. *)
EXTENDS LandmarksPreview, TLC

SourcesSymmetry == Permutations(Sources)
=============================================================================
