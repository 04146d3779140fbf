\* Every offer of the layout against cameras of up to three sizes.
SPECIFICATION Spec
CONSTANTS
    Parents <- MCParents
    Cameras <- MCCameras
    MINIMUM_PREVIEW_SIZE = 2
    None = None
INVARIANTS
    TypeOK
    ViewFits
    NotStretched
    ChosenIsSupported
