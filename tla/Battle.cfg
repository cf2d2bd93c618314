\* Duels of nine moves, enough to be wounded and heal, to meet the cap on energy
\* and to pay for a special attack on a shield, and rooms of three with changing
\* connections and departures; hits that kill in one or two blows, and a history
\* of one action.
SPECIFICATION FairSpec
CONSTANTS
    p1 = p1
    p2 = p2
    p3 = p3
    Player = {p1, p2, p3}
    ActionId = {a1, a2}
    NoPlayer = NoPlayer
    MAX_HEALTH = 18
    MAX_ENERGY = 40
    ACTION_HISTORY_LIMIT = 1
    Seatings <- MCSeatings
    Power = {1}
    Sockets = {TRUE}
    MaxTurn <- MCMaxTurn
    MaxVersion <- MCMaxVersion
CHECK_DEADLOCK FALSE
INVARIANTS TypeOK TurnHolderAlive GameOverSound AliveIffHealthy
PROPERTIES TurnsFollowSeats MovesUseUpTurns EliminationIsFinal VersionsGrow StandingSpec EveryoneGetsATurn
