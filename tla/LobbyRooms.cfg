\* One room with two seats for three players: two calls in flight.
SPECIFICATION Spec
CONSTANTS
    p1 = p1
    Player = {p1, p2, p3}
    NoPlayer = NoPlayer
    Socket = {s1}
    NoSocket = NoSocket
    UserOf <- MCUserOf
    Room = {1}
    Call = {c1, c2}
    Kinds = {"create", "join", "match", "ready", "start", "leave", "disconnect", "reconnect", "sync", "play"}
    Sizes = {2}
    Visibility = {"PUBLIC"}
    MIN_ROOM_PLAYERS = 2
    MAX_ROOM_PLAYERS = 8
    MATCH_LIMIT = 20
SYMMETRY MCSymmetry
CHECK_DEADLOCK FALSE
INVARIANTS TypeOK SeatsAreDistinct RosterIsAGame OneStarter
