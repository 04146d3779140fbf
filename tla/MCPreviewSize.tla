--------------------------- MODULE MCPreviewSize ---------------------------
(* Instances of PreviewSize for TLC, in units of which the minimum is two.  *)
EXTENDS PreviewSize

Size(a, b) == [w |-> a, h |-> b]

MCParents == {Size(a, b) : a \in 2..5, b \in 2..5}

SupportedSizes == {Size(4, 3), Size(5, 3), Size(3, 3), Size(2, 1), Size(6, 2)}

MCCameras == UNION {[1..n -> SupportedSizes] : n \in 1..3}
=============================================================================
