\* A join beside a start.
SPECIFICATION Spec
CONSTANTS
    p1 = p1
    Player = {p1, p2, p3}
    NoPlayer = NoPlayer
    Socket = {}
    NoSocket = NoSocket
    UserOf <- MCUserOf
    Room = {1}
    Call = {c1, c2}
    Kinds = {"create", "join", "ready", "start"}
    Sizes = {2, 3}
    Visibility = {"PUBLIC"}
    MIN_ROOM_PLAYERS = 2
    MAX_ROOM_PLAYERS = 8
    MATCH_LIMIT = 20
SYMMETRY MCSymmetry
CHECK_DEADLOCK FALSE
PROPERTIES NoLateJoins
