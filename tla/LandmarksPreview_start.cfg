\* Whether a start request outlives the release.
SPECIFICATION Spec
CONSTANTS
    Sources = {s1, s2}
    None = None
    MaxEmissions = 1
    MaxFaces = 2
SYMMETRY SourcesSymmetry
INVARIANT StartHasSource
