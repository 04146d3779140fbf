\* Two emissions in a resume, so that a replaced source may still run, and
\* any number of resumes (without symmetry: liveness).
SPECIFICATION FairSpec
CONSTANTS
    Sources = {s1, s2, s3}
    None = None
    MaxEmissions = 2
    MaxFaces = 2
INVARIANTS
    TypeOK
    FacesOfOneDetection
    StartedWhenReady
    PauseStopsFrames
PROPERTIES
    PauseReturns
    ReleaseWaitEnds
