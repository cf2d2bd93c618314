\* Out of the lobby: two calls in flight, a crash and a database
\* error anywhere in the start.
SPECIFICATION FairSpec
CONSTANTS
    p1 = p1
    p2 = p2
    a1 = a1
    a2 = a2
    b1 = b1
    Player = {p1, p2}
    ActionId = {a1}
    NoPlayer = NoPlayer
    NoState = NoState
    NoAction = NoAction
    MAX_HEALTH = 100
    MAX_ENERGY = 100
    ACTION_HISTORY_LIMIT = 200
    Call = {c1, c2}
    Kinds = {"start", "move", "tick", "sync"}
    Request <- MCRequest
    Rows <- MCRows
    FromLobby = TRUE
    MaxVersion = 3
    MaxCrashes = 1
    MaxFailures = 1
CHECK_DEADLOCK FALSE
INVARIANTS  InProgressHasGame
PROPERTIES StartsOnce EveryActionSettles
