\* Whether onPause closes every camera it opened.
SPECIFICATION Spec
CONSTANTS
    Opens = {o1, o2}
    NoOpen = NoOpen
SYMMETRY OpensSymmetry
INVARIANT PauseClosesEveryCamera
