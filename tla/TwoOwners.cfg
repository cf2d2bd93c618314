\* Two processes run at one time.
SPECIFICATION Spec
CONSTANTS
    Server = {s1, s2}
    NoServer = NoServer
    Call = {c1, c2}
    NoState = NoState
    Together = TRUE
    MaxUpdates = 3
    MaxCrashes = 0
    MaxFailures = 0
CHECK_DEADLOCK FALSE
SYMMETRY MCSymmetry
INVARIANTS LoopIsLatest
