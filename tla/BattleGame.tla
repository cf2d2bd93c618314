------------------------------ MODULE BattleGame ------------------------------
(***************************************************************************)
(* One game from its first turn to its end, as src/game/gameEngine.ts plays *)
(* it when its callers hand it one state after the other: moves, deadline  *)
(* ticks, connection changes and departures, each applied to the state the *)
(* one before left.  GameCoordinator models how those calls interleave.    *)
(*                                                                         *)
(* clock says where the present lies with respect to turnDeadlineAt: a     *)
(* move is still accepted at the deadline (now > deadline refuses it) and  *)
(* a tick already ends the turn there (now < deadline spares it).          *)
(***************************************************************************)
EXTENDS GameEngine, FiniteSets

CONSTANTS
    Seatings,    \* the rooms that start: who sits on which seat
    Power,       \* powers of an attack
    Sockets,     \* what may be seen of a player's socket at the start
    MaxTurn,     \* bound, by the size of the room: no move or tick is taken at
                 \* this turn number
    MaxVersion   \* bound, by the size of the room: no connection change or
                 \* departure from this version on

ASSUME BattleAssumption ==
    /\ \A seats \in Seatings :
           /\ DOMAIN seats \subseteq Player /\ Several(DOMAIN seats)
           /\ \A p, q \in DOMAIN seats :
                  seats[p] \in Nat /\ (seats[p] = seats[q] => p = q)
    /\ Power \subseteq Nat
    /\ Sockets \subseteq BOOLEAN
    /\ \A n \in 2..Cardinality(Player) :
           MaxTurn[n] \in Nat /\ MaxVersion[n] \in Nat

VARIABLES game, clock
vars == <<game, clock>>

\* What room_players holds of a player when the game starts: the seat, the
\* column defaults, and whether the socket is there.
ParticipantRow(seat, online) ==
    [seatNumber |-> seat, health |-> MAX_HEALTH, energy |-> 0,
     connected |-> online, lastProcessedSeq |-> 0]

\* At least minPlayers >= 2 players, each on a seat of its own.
Participants ==
    UNION {{[p \in DOMAIN seats |-> ParticipantRow(seats[p], online[p])] :
               online \in [DOMAIN seats -> Sockets]} : seats \in Seatings}

TypeOK ==
    /\ DOMAIN game.players \subseteq Player
    /\ game \in GameState(DOMAIN game.players) /\ game.phase # "LOBBY"
    /\ clock \in {"before", "at", "after"}

-------------------------------------------------------------------------------
Init ==
    /\ \E f \in Participants : game = InitialState(f)
    /\ clock = "before"

\* A new turn has a new deadline; a finished game has none.
Play(g) ==
    /\ game' = g
    /\ clock' = IF g.turn # game.turn \/ g.phase = "FINISHED"
                THEN "before" ELSE clock

\* What p may send: a sequence number or turn already used among them, all of
\* them from 1 on.
Moves(p) ==
    LET last == game.players[p].lastProcessedSeq
    IN  [actionId : ActionId, playerId : {p}, seq : {last, last + 1} \ {0},
         roundNumber : {game.round - 1, game.round} \ {0},
         turnNumber : {game.turn - 1, game.turn} \ {0}, type : ActionType,
         target : Player \cup {NoPlayer}, power : Power]

TurnsLeft == game.turn < MaxTurn[Cardinality(DOMAIN game.players)]

MayChange == game.version < MaxVersion[Cardinality(DOMAIN game.players)]

Move(a) ==
    /\ TurnsLeft
    /\ Legal(game, a, clock = "after")
    /\ Play(ApplyAction(game, a))

TimePasses ==
    /\ game.phase = "ACTIVE"
    /\ \/ clock = "before" /\ clock' = "at"
       \/ clock = "at" /\ clock' = "after"
    /\ UNCHANGED game

Tick ==
    /\ TurnsLeft
    /\ TickDue(game, clock # "before")
    /\ Play(ProcessTick(game, TRUE))

\* handleDisconnect and handleReconnect skip a finished game.
Connection(p, connected) ==
    /\ MayChange
    /\ game.phase # "FINISHED"
    /\ Play(MarkConnection(game, p, connected))

\* So does handleLeave.
Leave(p) ==
    /\ MayChange
    /\ game.phase # "FINISHED"
    /\ Play(MarkLeft(game, p))

Next ==
    \/ \E p \in DOMAIN game.players : \E a \in Moves(p) : Move(a)
    \/ TimePasses
    \/ Tick
    \/ \E p \in Player, connected \in BOOLEAN : Connection(p, connected)
    \/ \E p \in Player : Leave(p)

Spec == Init /\ [][Next]_vars

\* Time goes on and the interval timer of the room fires.
FairSpec == Spec /\ WF_vars(TimePasses) /\ WF_vars(Tick)

-------------------------------------------------------------------------------
\* Every player stays on its own seat: what the order of turns rests on.
SeatsDistinct ==
    \A p, q \in DOMAIN game.players :
        game.players[p].seatNumber = game.players[q].seatNumber => p = q

\* While the game goes on, somebody alive holds the turn and has an opponent:
\* neither an elimination, nor a departure (of the holder or of another), nor a
\* timeout leaves the turn with nobody, or with a dead player for whom the room
\* would wait until the deadline.
TurnHolderAlive ==
    game.phase = "ACTIVE" => /\ game.current \in Alive(game)
                             /\ Several(Alive(game))

\* The game ends exactly with its last survivor as the winner, also when
\* the end comes by players leaving, and never without one, which the code
\* provides for; a finished game has no turn.
GameOverSound ==
    game.phase = "FINISHED" =>
        /\ game.current = NoPlayer
        /\ Alive(game) = {game.winner}

\* alive and health are two fields updated by hand in several methods: they
\* agree, so no player at zero health acts or is attacked, and none with
\* health left is skipped.
AliveIffHealthy ==
    \A p \in DOMAIN game.players :
        game.players[p].alive <=> game.players[p].health > 0

\* When the turn passes on, it goes to the next survivor by seat; the round
\* number moves exactly when no survivor sits behind the old holder.
TurnFollowsSeats ==
    game'.turn # game.turn =>
        /\ game'.turn = game.turn + 1
        /\ game'.current \in Alive(game')
        /\ LET seat(p) == game'.players[p].seatNumber
               rest == {p \in Alive(game') : seat(p) > seat(game.current)}
           IN  IF rest = {}
               THEN /\ game'.round = game.round + 1
                    /\ \A q \in Alive(game') : seat(game'.current) <= seat(q)
               ELSE /\ game'.round = game.round
                    /\ game'.current \in rest
                    /\ \A q \in rest : seat(game'.current) <= seat(q)

TurnsFollowSeats == [][TurnFollowsSeats]_vars

\* Every accepted move (one entered in the history) and every spent sequence
\* number is the turn holder's, the number is higher than the ones before, and
\* the turn or the game ends with it: sent twice, reordered or delayed, a
\* request never acts twice, not even when its id has left the history.
MoveUsesUpTurn ==
    LET seq(g, p) == g.players[p].lastProcessedSeq
    IN  /\ game'.processed # game.processed =>
              seq(game', game.current) > seq(game, game.current)
        /\ \A p \in DOMAIN game.players :
              seq(game', p) # seq(game, p) =>
                  /\ game.current = p /\ seq(game', p) > seq(game, p)
                  /\ game'.turn = game.turn + 1 \/ game'.phase = "FINISHED"

MovesUseUpTurns == [][MoveUsesUpTurn]_vars

\* Out is out: no reconnect, tick or move of another brings a player back, and
\* what the dead did is not changed any more.
OutIsOut ==
    \A p \in DOMAIN game.players \ Alive(game) :
        /\ p \notin Alive(game')
        /\ game'.players[p].lastProcessedSeq = game.players[p].lastProcessedSeq
        /\ game'.current # p

EliminationIsFinal == [][OutIsOut]_vars

\* Two states with the same version are the same state: snapshots are keyed
\* by it and clients compare it (lastSeenVersion).
VersionGrows == game' # game => game'.version > game.version

VersionsGrow == [][VersionGrows]_vars

\* The game seen from afar: who sits where, stands, holds the turn and wins.
Standing ==
    INSTANCE LastStanding
    WITH seat <- [p \in DOMAIN game.players |-> game.players[p].seatNumber],
         alive <- Alive(game), holder <- game.current, winner <- game.winner

\* The engine implements the contract of LastStanding: whatever is sent, in
\* whatever order, players fall one at a time, the turn goes round the seats,
\* and one player wins.
StandingSpec == Standing!Spec

\* Under a ticking loop every survivor's turn comes, whatever the others do or
\* fail to do (asked where the bound on turns leaves room for one more round).
EveryoneGetsATurn ==
    \A p \in Player :
        (/\ game.phase = "ACTIVE" /\ p \in Alive(game)
         /\ LET n == Cardinality(DOMAIN game.players)
            IN  game.turn + n <= MaxTurn[n])
            ~> (\/ game.phase = "FINISHED" \/ p \notin Alive(game)
                \/ game.current = p)
===============================================================================
