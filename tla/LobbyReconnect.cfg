\* A reconnect while the room is in the lobby.
SPECIFICATION Spec
CONSTANTS
    p1 = p1
    p2 = p2
    a1 = a1
    a2 = a2
    b1 = b1
    Player = {p1, p2}
    ActionId = {a1, b1}
    NoPlayer = NoPlayer
    NoState = NoState
    NoAction = NoAction
    MAX_HEALTH = 100
    MAX_ENERGY = 100
    ACTION_HISTORY_LIMIT = 200
    Call = {c1, c2}
    Kinds = {"reconnect", "start"}
    Request <- MCRequest
    Rows <- MCRows
    FromLobby = TRUE
    MaxVersion = 3
    MaxCrashes = 0
    MaxFailures = 0
CHECK_DEADLOCK FALSE
INVARIANTS InProgressHasGame
