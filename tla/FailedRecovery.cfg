\* A query that fails while the server starts again.
SPECIFICATION Spec
CONSTANTS
    p1 = p1
    p2 = p2
    a1 = a1
    a2 = a2
    b1 = b1
    Player = {p1, p2}
    ActionId = {a1}
    NoPlayer = NoPlayer
    NoState = NoState
    NoAction = NoAction
    MAX_HEALTH = 100
    MAX_ENERGY = 100
    ACTION_HISTORY_LIMIT = 200
    Call = {c1, c2}
    Kinds = {"move", "reconnect"}
    Request <- MCRequest
    Rows <- MCRows
    FromLobby = FALSE
    MaxVersion = 3
    MaxCrashes = 1
    MaxFailures = 1
CHECK_DEADLOCK FALSE
INVARIANTS AcceptedIsApplied
