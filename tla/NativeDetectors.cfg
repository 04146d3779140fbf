\* Two resumes of the first activity and one of the second.
SPECIFICATION FairSpec
CONSTANTS
    DlibChains = {d1, d2}
    VisionChains = {v1}
    FileParts = {5, 68}
    MaxFaces = 2
INVARIANTS
    TypeOK
    RaceNeedsAbandonedLoad
    HalfHasLoader
    PreparedBeforeCamera
    DrawDeathNeedsRejection
PROPERTIES
    LoadsSettle
    PreparationEnds
    LoadsRunOut
\* The resumes are used up.
CHECK_DEADLOCK FALSE
