\* Two resumes of the first activity and one of the second.
SPECIFICATION Spec
CONSTANTS
    DlibChains = {d1, d2}
    VisionChains = {v1}
    FileParts = {5, 68}
    MaxFaces = 1
SYMMETRY Symmetry
INVARIANT RejectedNotUsed
\* The resumes are used up.
CHECK_DEADLOCK FALSE
