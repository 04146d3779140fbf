\* Two resumes and one download (without symmetry: liveness).
SPECIFICATION FairSpec
CONSTANTS
    Chains = {c1, c2}
    Tasks = {t1}
    None = None
INVARIANTS
    TypeOK
    NoMissedCompletion
    FatalCauses
    ReceiverReleased
    SecondDownloadNeedsOverlap
    TruncationNeedsOverlap
PROPERTIES
    ForgetsOnlyOnError
    DownloadedIsDelivered
