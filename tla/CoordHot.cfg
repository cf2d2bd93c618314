\* A running game, to its end: two calls in flight, a crash, a database error
\* anywhere, the recovery included.  At 18 health p1's attack wins the game, its
\* pass does not.  Calm bounds the states that are explored:
\* calls overlap only while the room has a hot state that is not over.
SPECIFICATION Spec
CONSTANTS
    p1 = p1
    p2 = p2
    a1 = a1
    a2 = a2
    b1 = b1
    Player = {p1, p2}
    ActionId = {a1, a2}
    NoPlayer = NoPlayer
    NoState = NoState
    NoAction = NoAction
    MAX_HEALTH = 18
    MAX_ENERGY = 100
    ACTION_HISTORY_LIMIT = 200
    Call = {c1, c2}
    Kinds = {"move", "tick", "disconnect", "reconnect", "leave"}
    Request <- MCRequest
    Rows <- MCRows
    FromLobby = FALSE
    MaxVersion = 3
    MaxCrashes = 1
    MaxFailures = 1
CONSTRAINT Calm
CHECK_DEADLOCK FALSE
SYMMETRY CallSymmetry
INVARIANTS TypeOK OneHistory MemoryNotBehind AnswersHold VerdictsHold FinishedIsForgotten ScoredOnce
PROPERTIES LedgerSpec GameOverIsFinal
