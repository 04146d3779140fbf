\* Two openCamera calls alive at a time, over any number of resumes (without
\* symmetry: liveness).
SPECIFICATION FairSpec
CONSTANTS
    Opens = {o1, o2}
    NoOpen = NoOpen
INVARIANTS
    TypeOK
    PreviewCameraStopped
    AllListenersDisposed
    NoSessionOnClosedCamera
    DisposedByOneThread
    FailureIsReported
    IInv
PROPERTIES
    PauseReturns
    ErrorReported
    WaitingEnds
    ImplementsPreview
