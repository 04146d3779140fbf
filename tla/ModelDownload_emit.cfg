\* Whether the check at the end of the call is heard.
SPECIFICATION Spec
CONSTANTS
    Chains = {c1, c2}
    Tasks = {t1, t2}
    None = None
SYMMETRY Symmetry
INVARIANT CompletedIsEmitted
