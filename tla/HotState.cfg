\* Two processes that replace each other: two calls in flight, a crash, two
\* failures of the database or of Redis.
SPECIFICATION Spec
CONSTANTS
    Server = {s1, s2}
    NoServer = NoServer
    Call = {c1, c2}
    NoState = NoState
    Together = FALSE
    MaxUpdates = 4
    MaxCrashes = 2
    MaxFailures = 2
CHECK_DEADLOCK FALSE
SYMMETRY MCSymmetry
INVARIANTS TypeOK LoopIsLatest RedisIsHot
PROPERTIES LoopExtends
