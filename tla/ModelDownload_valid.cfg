\* What the model file is when it is loaded.
SPECIFICATION Spec
CONSTANTS
    Chains = {c1, c2}
    Tasks = {t1, t2}
    None = None
SYMMETRY Symmetry
PROPERTY OnlyWholeModelsLoaded
