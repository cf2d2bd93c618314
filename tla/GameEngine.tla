------------------------------ MODULE GameEngine ------------------------------
(***************************************************************************)
(* The rules of a battle: src/game/gameEngine.ts as operators on a game    *)
(* state.  Every method of GameEngine clones its argument, changes the     *)
(* clone and returns it, so each is an operator from a state to a state.   *)
(*                                                                         *)
(* Abstracted: display names, the event list, the tick counter and the     *)
(* timestamps, which no rule reads.  The deadline of a turn is an argument *)
(* of the operators that read it (has it passed?).  turnOrder is sorted by *)
(* seat when the game is created and never changes, so a position in it is *)
(* represented by the seat number each player's record already carries.    *)
(***************************************************************************)
EXTENDS Integers, Sequences

CONSTANTS
    Player,               \* the players a room can hold
    ActionId,             \* the ids clients give to their actions
    NoPlayer,             \* the undefined player id
    MAX_HEALTH,           \* 100 in the code
    MAX_ENERGY,           \* 100 in the code
    ACTION_HISTORY_LIMIT  \* 200 in the code

ASSUME EngineAssumption ==
    /\ NoPlayer \notin Player
    /\ MAX_HEALTH \in Nat \ {0}
    /\ MAX_ENERGY \in Nat
    /\ ACTION_HISTORY_LIMIT \in Nat \ {0}

Phase == {"LOBBY", "ACTIVE", "FINISHED"}
ActionType == {"ATTACK", "SPECIAL", "DEFEND", "HEAL", "PASS"}

PlayerState ==
    [seatNumber : Nat, health : 0..MAX_HEALTH, energy : 0..MAX_ENERGY,
     shield : BOOLEAN, alive : BOOLEAN, connected : BOOLEAN,
     lastProcessedSeq : Nat]

EngineAction ==
    [actionId : ActionId, playerId : Player, seq : Nat, roundNumber : Nat,
     turnNumber : Nat, type : ActionType, target : Player \cup {NoPlayer},
     power : Nat]

\* The states of a game between the players in P; the lobby's has none.
GameState(P) ==
    [phase : Phase, round : Nat, turn : Nat, version : Nat,
     current : Player \cup {NoPlayer}, winner : Player \cup {NoPlayer},
     processed : Seq(ActionId), players : [P -> PlayerState]]

Least(m, n) == IF m < n THEN m ELSE n

-------------------------------------------------------------------------------
(***************************************************************************)
(* Who is alive, and who comes first in turnOrder.                         *)
(***************************************************************************)
Alive(s) == {p \in DOMAIN s.players : s.players[p].alive}

Several(S) == \E p, q \in S : p # q

First(s, S) ==
    CHOOSE p \in S :
        \A q \in S : s.players[p].seatNumber <= s.players[q].seatNumber

After(s, p) ==
    {q \in Alive(s) : s.players[q].seatNumber > s.players[p].seatNumber}

-------------------------------------------------------------------------------
\* Mutant: the winner is the first player by seat, dead or alive.
FinishWithFirstSeat(s) ==
    IF Several(Alive(s)) \/ s.phase = "FINISHED"
    THEN s
    ELSE [s EXCEPT !.phase = "FINISHED",
                   !.winner = IF Alive(s) = {} THEN NoPlayer
                              ELSE First(s, DOMAIN s.players),
                   !.current = NoPlayer,
                   !.version = @ + 1]

FinishIfNeeded(s) ==
    IF Several(Alive(s)) \/ s.phase = "FINISHED"
    THEN s
    ELSE [s EXCEPT !.phase = "FINISHED",
                   !.winner = IF Alive(s) = {} THEN NoPlayer
                              ELSE First(s, Alive(s)),
                   !.current = NoPlayer,
                   !.version = @ + 1]

\* Mutant: the turn order is searched for the holder among the living.
RemainingOfLiving(s) ==
    IF s.current \notin Alive(s) THEN Alive(s)
    ELSE {q \in Alive(s) :
             s.players[q].seatNumber > s.players[s.current].seatNumber}

\* The players still to move in this round: all of them when nobody holds the
\* turn (currentIndex is -1).
Remaining(s) == IF s.current = NoPlayer THEN Alive(s) ELSE After(s, s.current)

\* Mutant: a round ends only when the very first seat is up again, which it
\* never is once its player is dead.
AdvanceTurnPastFirstSeat(s) ==
    IF ~Several(Alive(s))
    THEN FinishIfNeeded(s)
    ELSE LET wraps == Remaining(s) = {}
             next == First(s, IF wraps THEN Alive(s) ELSE Remaining(s))
         IN  [s EXCEPT !.current = next,
                       !.round = IF next = First(s, DOMAIN s.players)
                                 THEN @ + 1 ELSE @,
                       !.turn = @ + 1]

AdvanceTurn(s) ==
    IF ~Several(Alive(s))
    THEN FinishIfNeeded(s)
    ELSE LET wraps == Remaining(s) = {}
         IN  [s EXCEPT !.current = First(s, IF wraps THEN Alive(s)
                                            ELSE Remaining(s)),
                       !.round = IF wraps THEN @ + 1 ELSE @,
                       !.turn = @ + 1]

-------------------------------------------------------------------------------
(***************************************************************************)
(* The effects of an action, on the record of one player and then on the   *)
(* state.                                                                  *)
(***************************************************************************)
Gain(r, n) == [r EXCEPT !.energy = Least(MAX_ENERGY, @ + n)]

Spend(r, n) == [r EXCEPT !.energy = @ - n]

Shielded(r) == [r EXCEPT !.shield = TRUE]

Healed(r) == [r EXCEPT !.health = Least(MAX_HEALTH, @ + 22)]

\* Mutant: a hit that leaves exactly nothing does not kill.
StruckToZero(r, amount) ==
    LET dealt == IF r.shield THEN (amount + 1) \div 2 ELSE amount
        left == IF r.health > dealt THEN r.health - dealt ELSE 0
    IN  [r EXCEPT !.shield = FALSE, !.health = left,
                  !.alive = @ /\ r.health >= dealt]

\* A shield halves one hit, rounding up, and is used up by it.
Struck(r, amount) ==
    LET dealt == IF r.shield THEN (amount + 1) \div 2 ELSE amount
        left == IF r.health > dealt THEN r.health - dealt ELSE 0
    IN  [r EXCEPT !.shield = FALSE, !.health = left, !.alive = @ /\ left > 0]

With(s, p, r) == [s EXCEPT !.players[p] = r]

NextVersion(s) == [s EXCEPT !.version = @ + 1]

ApplyDamage(s, actor, target, amount) ==
    With(With(s, target, Struck(s.players[target], amount)),
         actor, Gain(s.players[actor], 10))

Cost(type) == CASE type = "SPECIAL" -> 40
                [] type = "HEAL" -> 20
                [] OTHER -> 0

Effect(s, a) ==
    LET p == a.playerId
        paid == Spend(s.players[p], Cost(a.type))
    IN  CASE a.type = "ATTACK" ->
               ApplyDamage(s, p, a.target, 12 + a.power * 6)
          [] a.type = "SPECIAL" ->
               ApplyDamage(With(s, p, paid), p, a.target, 35)
          [] a.type = "DEFEND" -> With(s, p, Gain(Shielded(paid), 8))
          [] a.type = "HEAL" -> With(s, p, Healed(paid))
          [] a.type = "PASS" -> With(s, p, Gain(paid, 12))

\* The actions in the history of a state (processedActionIds).
Ids(s) == {s.processed[i] : i \in DOMAIN s.processed}

\* Ids only leave a history that is full.
Full(s) == Len(s.processed) = ACTION_HISTORY_LIMIT

\* The last ACTION_HISTORY_LIMIT ids, the new one among them.
Remembered(ids, id) ==
    IF Len(ids) < ACTION_HISTORY_LIMIT THEN Append(ids, id)
    ELSE Append(Tail(ids), id)

-------------------------------------------------------------------------------
(***************************************************************************)
(* applyAction, in two parts: Legal is the conjunction of its early        *)
(* returns, in their order; ApplyAction is what it returns once they are   *)
(* all passed.  A rejected action leaves the state as it is.               *)
(***************************************************************************)
\* Mutant: the history alone tells duplicates.
NotInHistory(s, a) == a.actionId \notin Ids(s)

NotDuplicate(s, a) ==
    /\ a.actionId \notin Ids(s)
    /\ a.seq > s.players[a.playerId].lastProcessedSeq

OnTurn(s, a) ==
    /\ s.current = a.playerId
    /\ a.roundNumber = s.round
    /\ a.turnNumber = s.turn

\* Mutant: actions are free.
PermittedUnpaid(s, a) ==
    a.type \in {"ATTACK", "SPECIAL"} => a.target \in Alive(s) \ {a.playerId}

Permitted(s, a) ==
    /\ a.type \in {"ATTACK", "SPECIAL"} => a.target \in Alive(s) \ {a.playerId}
    /\ s.players[a.playerId].energy >= Cost(a.type)

Legal(s, a, expired) ==
    /\ s.phase = "ACTIVE"
    /\ a.playerId \in Alive(s)
    /\ NotDuplicate(s, a)
    /\ OnTurn(s, a)
    /\ ~expired
    /\ Permitted(s, a)

\* The game ends or the turn passes on.
EndTurn(s) ==
    LET ended == FinishIfNeeded(s)
    IN  IF ended # s THEN ended ELSE AdvanceTurn(s)

\* The action is entered in the state it has had its effect on.
Recorded(s, a) ==
    LET r == s.players[a.playerId]
    IN  [With(s, a.playerId, [r EXCEPT !.lastProcessedSeq = a.seq]) EXCEPT
             !.processed = Remembered(@, a.actionId)]

ApplyAction(s, a) == EndTurn(NextVersion(Recorded(Effect(s, a), a)))

-------------------------------------------------------------------------------
\* The turn's holder times out.  A holder who is gone or dead loses the turn
\* without the consolation energy.
TimeoutTurn(s) ==
    IF s.current \in Alive(s)
    THEN AdvanceTurn(NextVersion(
             With(s, s.current, Gain(s.players[s.current], 8))))
    ELSE NextVersion(AdvanceTurn(s))

\* Mutant: only a connected player times out.
TickDueConnected(s, reached) ==
    s.phase = "ACTIVE" /\ reached /\ s.players[s.current].connected

\* processTick: whether the tick changes the game is TickDue.
TickDue(s, reached) == s.phase = "ACTIVE" /\ reached

ProcessTick(s, reached) == IF TickDue(s, reached) THEN TimeoutTurn(s) ELSE s

\* Mutant: a player who reconnects is back in the game.
MarkConnectionRevives(s, p, connected) ==
    IF p \notin DOMAIN s.players THEN s
    ELSE NextVersion(With(s, p, [s.players[p] EXCEPT !.connected = connected,
                                                     !.alive = @ \/ connected]))

\* Mutant: a connection change is not worth a version.
MarkConnectionUnversioned(s, p, connected) ==
    IF p \notin DOMAIN s.players THEN s
    ELSE With(s, p, [s.players[p] EXCEPT !.connected = connected])

MarkConnection(s, p, connected) ==
    IF p \notin DOMAIN s.players THEN s
    ELSE NextVersion(With(s, p, [s.players[p] EXCEPT !.connected = connected]))

Departed(r) ==
    [r EXCEPT !.connected = FALSE, !.alive = FALSE, !.health = 0]

\* Mutant: the turn of a player who leaves is not passed on.
MarkLeftOnTurn(s, p) ==
    IF p \notin DOMAIN s.players THEN s
    ELSE FinishIfNeeded(NextVersion(With(s, p, Departed(s.players[p]))))

MarkLeft(s, p) ==
    IF p \notin DOMAIN s.players THEN s
    ELSE LET gone == NextVersion(With(s, p, Departed(s.players[p])))
         IN  IF gone.current = p THEN EndTurn(gone) ELSE FinishIfNeeded(gone)

-------------------------------------------------------------------------------
(***************************************************************************)
(* createInitialState: participants is a function from the players of the  *)
(* room to what their room_players rows hold.                              *)
(***************************************************************************)
PlayerRow ==
    [seatNumber : Nat, health : 0..MAX_HEALTH, energy : 0..MAX_ENERGY,
     connected : BOOLEAN, lastProcessedSeq : Nat]

InitialPlayer(row) ==
    [seatNumber |-> row.seatNumber, health |-> row.health,
     energy |-> row.energy, shield |-> FALSE, alive |-> TRUE,
     connected |-> row.connected, lastProcessedSeq |-> row.lastProcessedSeq]

InitialState(participants) ==
    LET s == [phase |-> "ACTIVE", round |-> 1, turn |-> 1, version |-> 1,
              current |-> NoPlayer, winner |-> NoPlayer, processed |-> <<>>,
              players |-> [p \in DOMAIN participants |->
                               InitialPlayer(participants[p])]]
    IN  [s EXCEPT !.current = First(s, DOMAIN participants)]
===============================================================================
