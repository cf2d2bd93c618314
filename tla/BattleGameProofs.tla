--------------------------- MODULE BattleGameProofs ---------------------------
(***************************************************************************)
(* What BattleGame promises for every room, number of players, health,     *)
(* energy and history limit, from what GameEngineProofs says of the four   *)
(* methods the coordinator calls.                                          *)
(***************************************************************************)
EXTENDS BattleGame, GameEngineProofs

-------------------------------------------------------------------------------
(***************************************************************************)
(* The inductive invariant: the invariants of BattleGame together with the *)
(* seats being distinct, without which the lowest seat would not name one  *)
(* player and the turn could return to the player who had it.              *)
(***************************************************************************)
IInv ==
    /\ TypeOK
    /\ SeatsDistinct
    /\ TurnHolderAlive
    /\ GameOverSound
    /\ AliveIffHealthy

\* One player falls at a time, the turn passes only with its number, and a
\* game that is over rests.
StandingStep ==
    IF game.phase = "FINISHED" THEN game' = game
    ELSE /\ \E q : Alive(game) \subseteq Alive(game') \cup {q}
         /\ DOMAIN game'.players = DOMAIN game.players
         /\ \A p \in DOMAIN game.players :
               game'.players[p].seatNumber = game.players[p].seatNumber
         /\ game'.phase = "ACTIVE" =>
               /\ game'.winner = game.winner
               /\ game'.turn = game.turn => game'.current = game.current

Promised ==
    /\ TurnFollowsSeats /\ MoveUsesUpTurn /\ OutIsOut /\ VersionGrows
    /\ StandingStep

P0 == DOMAIN game.players

\* A step that ends the turn, or the game.
LEMMA TurnEndsSafe ==
    ASSUME IInv, game.phase = "ACTIVE", NEW m \in GameState(P0),
           Progress(game, m),
           NEW o, Alive(game) \subseteq Alive(m) \cup {o},
           game' \in GameState(P0), TurnEnds(m, game'),
           clock' \in {"before", "at", "after"}
    PROVE  IInv' /\ Promised
PROOF
<1>1. P0 \subseteq Player /\ game \in GameState(P0) /\ game.current \in P0
  BY DEF IInv, TypeOK, TurnHolderAlive, Alive, P0
<1>2. DOMAIN game'.players = P0 /\ DOMAIN m.players = P0
  BY DEF GameState
<1>3. game'.players = m.players /\ Alive(game') = Alive(m)
  BY DEF TurnEnds, Alive
<1>4. Alive(m) \subseteq Alive(game) /\ Alive(m) \subseteq P0
  BY <1>2 DEF Progress, Alive, P0
<1>5. TypeOK'
  <2>1. game'.phase # "LOBBY"
    BY DEF TurnEnds
  <2> QED BY <1>1, <1>2, <2>1 DEF TypeOK
<1>6. SeatsDistinct'
  BY <1>2, <1>3 DEF IInv, SeatsDistinct, Progress, P0
<1>7. AliveIffHealthy'
  BY <1>2, <1>3 DEF IInv, AliveIffHealthy, Progress, P0
<1>8. TurnHolderAlive' /\ GameOverSound'
  <2>1. TurnHolderAlive'
    BY <1>3 DEF TurnEnds, TurnHolderAlive
  <2>2. Alive(m) # {}
    BY DEF IInv, TurnHolderAlive, Several
  <2>3. ~Several(Alive(m)) => Alive(m) = {game'.winner}
    BY <2>2 DEF TurnEnds, Several
  <2>4. GameOverSound'
    BY <1>3, <2>3 DEF TurnEnds, GameOverSound
  <2> QED BY <2>1, <2>4
<1>9. /\ m.phase = "ACTIVE" /\ m.turn = game.turn /\ m.round = game.round
      /\ m.current = game.current /\ m.version = game.version + 1
  BY DEF Progress
<1>10. game.turn \in Nat /\ game.version \in Nat /\ game'.version \in Nat
  BY <1>1 DEF GameState
<1>11. TurnFollowsSeats
  <2> SUFFICES ASSUME game'.turn # game.turn PROVE TurnFollowsSeats
    BY DEF TurnFollowsSeats
  <2>1. Several(Alive(m))
    BY <1>9 DEF TurnEnds
  <2> QED BY <1>3, <1>9, <2>1 DEF TurnEnds, TurnFollowsSeats
<1>12. MoveUsesUpTurn
  <2>1. game'.turn = game.turn + 1 \/ game'.phase = "FINISHED"
    BY <1>9 DEF TurnEnds
  <2>2. game'.processed # game.processed =>
            game'.players[game.current].lastProcessedSeq
                > game.players[game.current].lastProcessedSeq
    BY <1>3 DEF Progress, TurnEnds
  <2>3. ASSUME NEW q \in DOMAIN game.players,
               game'.players[q].lastProcessedSeq
                   # game.players[q].lastProcessedSeq
        PROVE  /\ game.current = q
               /\ game'.players[q].lastProcessedSeq
                      > game.players[q].lastProcessedSeq
    BY <1>3, <2>3 DEF Progress
  <2> QED BY <2>1, <2>2, <2>3 DEF MoveUsesUpTurn
<1>13. OutIsOut
  <2>1. game'.current \in Alive(m) \/ game'.current = NoPlayer
    BY DEF TurnEnds
  <2>2. NoPlayer \notin P0
    BY <1>1, EngineAssumption
  <2>3. \A p \in P0 \ Alive(game) : m.players[p].lastProcessedSeq
                                      = game.players[p].lastProcessedSeq
    BY DEF Progress, Alive, P0
  <2> QED BY <1>3, <1>4, <2>1, <2>2, <2>3 DEF OutIsOut, P0
<1>14. VersionGrows
  BY <1>9, <1>10, <1>1 DEF VersionGrows, TurnEnds, GameState
<1>15. StandingStep
  <2>1. \A p \in P0 : game'.players[p].seatNumber = game.players[p].seatNumber
    BY <1>3 DEF Progress, P0
  <2>2. game'.phase = "ACTIVE" =>
            game'.winner = game.winner /\ game'.turn # game.turn
    BY <1>9, <1>10 DEF TurnEnds, Progress
  <2> QED BY <1>2, <1>3, <2>1, <2>2 DEF StandingStep, P0
<1> QED BY <1>5, <1>6, <1>7, <1>8, <1>11, <1>12, <1>13, <1>14, <1>15
        DEF IInv, Promised

\* A step after which the turn goes on.
LEMMA ProgressSafe ==
    ASSUME IInv, game.phase = "ACTIVE", game' \in GameState(P0),
           NEW o, Alive(game) \subseteq Alive(game') \cup {o},
           Progress(game, game'), SameSequences(game, game'),
           game.current \in Alive(game'), Several(Alive(game')),
           clock' \in {"before", "at", "after"}
    PROVE  IInv' /\ Promised
PROOF
<1>1. P0 \subseteq Player /\ game \in GameState(P0)
  BY DEF IInv, TypeOK, P0
<1>2. DOMAIN game'.players = P0
  BY DEF GameState
<1>3. Alive(game') \subseteq Alive(game)
  BY <1>2 DEF Progress, Alive, P0
<1>4. /\ game'.phase = "ACTIVE" /\ game'.turn = game.turn
      /\ game'.current = game.current /\ game'.version = game.version + 1
  BY DEF Progress
<1>5. TypeOK'
  BY <1>1, <1>2, <1>4 DEF TypeOK
<1>6. SeatsDistinct' /\ AliveIffHealthy'
  BY <1>2 DEF IInv, SeatsDistinct, AliveIffHealthy, Progress, P0
<1>7. TurnHolderAlive' /\ GameOverSound'
  BY <1>4 DEF TurnHolderAlive, GameOverSound
<1>8. TurnFollowsSeats
  BY <1>4 DEF TurnFollowsSeats
<1>9. MoveUsesUpTurn
  BY DEF MoveUsesUpTurn, SameSequences, P0
<1>10. OutIsOut
  BY <1>3, <1>4 DEF OutIsOut, SameSequences
<1>11. VersionGrows
  BY <1>1, <1>4 DEF VersionGrows, GameState
<1>12. StandingStep
  BY <1>2, <1>4 DEF StandingStep, Progress, P0
<1> QED BY <1>5, <1>6, <1>7, <1>8, <1>9, <1>10, <1>11, <1>12
        DEF IInv, Promised

\* Play takes the clock to one of its values.
LEMMA PlayClock ==
    ASSUME TypeOK, NEW g, Play(g)
    PROVE  game' = g /\ clock' \in {"before", "at", "after"}
PROOF BY DEF TypeOK, Play

LEMMA MovesWellFormed ==
    ASSUME IInv, NEW p \in DOMAIN game.players, NEW a \in Moves(p)
    PROVE  WellFormed(a)
PROOF
<1>1. game.players[p].lastProcessedSeq \in Nat
  BY DEF IInv, TypeOK, GameState, PlayerState
<1>2. /\ a.type \in ActionType /\ a.power \in Power
      /\ a.actionId \in ActionId
      /\ a.seq \in {game.players[p].lastProcessedSeq,
                    game.players[p].lastProcessedSeq + 1}
  BY DEF Moves
<1>3. a.power \in Nat
  BY <1>2, BattleAssumption
<1>4. a.seq \in Nat
  BY <1>1, <1>2
<1> QED BY <1>2, <1>3, <1>4 DEF WellFormed

\* A step that leaves the game as it is.
LEMMA SameGameSafe ==
    ASSUME IInv, game' = game, clock' \in {"before", "at", "after"}
    PROVE  IInv' /\ Promised
PROOF
<1>1. Alive(game') = Alive(game)
  BY DEF Alive
<1>2. TypeOK' /\ SeatsDistinct' /\ TurnHolderAlive' /\ AliveIffHealthy'
  BY <1>1 DEF IInv, TypeOK, SeatsDistinct, TurnHolderAlive, AliveIffHealthy
<1>3. GameOverSound'
  BY <1>1 DEF IInv, GameOverSound
<1>4. TurnFollowsSeats /\ MoveUsesUpTurn /\ VersionGrows
  BY DEF TurnFollowsSeats, MoveUsesUpTurn, VersionGrows
<1>5. OutIsOut
  <2>1. game.phase \in {"ACTIVE", "FINISHED"} /\ P0 \subseteq Player
    BY DEF IInv, TypeOK, GameState, P0, Phase
  <2>2. game.current \in Alive(game) \/ game.current = NoPlayer
    BY <2>1 DEF IInv, TurnHolderAlive, GameOverSound
  <2> QED BY <1>1, <2>1, <2>2, EngineAssumption DEF OutIsOut, P0
<1>6. StandingStep
  BY <1>1 DEF StandingStep
<1> QED BY <1>2, <1>3, <1>4, <1>5, <1>6 DEF IInv, Promised

\* The invariant is inductive and every step keeps the promises.
LEMMA StepSafe ==
    ASSUME IInv, [Next]_vars
    PROVE  IInv' /\ Promised
PROOF
<1>1. /\ game \in GameState(P0) /\ P0 \subseteq Player
      /\ clock \in {"before", "at", "after"} /\ TypeOK
  BY DEF IInv, TypeOK, P0
<1>2. game.phase = "ACTIVE" =>
          game.current \in Alive(game) /\ Several(Alive(game))
  BY DEF IInv, TurnHolderAlive
<1>3. Alive(game) \subseteq P0
  BY DEF Alive, P0
<1>4. game.phase # "FINISHED" => game.phase = "ACTIVE"
  BY <1>1 DEF GameState, TypeOK, Phase
<1>5. ASSUME NEW p \in DOMAIN game.players, NEW a \in Moves(p), Move(a)
      PROVE  IInv' /\ Promised
  <2> DEFINE m == NextVersion(Recorded(Effect(game, a), a))
  <2>1. Legal(game, a, clock = "after") /\ game.phase = "ACTIVE"
        /\ Play(EndTurn(m))
    BY <1>5 DEF Move, Legal, ApplyAction
  <2>2. /\ m \in GameState(P0) /\ Progress(game, m)
        /\ Alive(game) \subseteq Alive(m) \cup {a.target}
    <3>1. WellFormed(a)
      BY MovesWellFormed
    <3> QED BY <1>1, <2>1, <3>1, ActionProgress
  <2> HIDE DEF m
  <2>3. m.phase = "ACTIVE" /\ m.current \in P0
    BY <1>2, <1>3, <2>1, <2>2 DEF Progress
  <2>4. EndTurn(m) \in GameState(P0) /\ TurnEnds(m, EndTurn(m))
    BY <1>1, <2>2, <2>3, EndTurnEnds
  <2>5. game' = EndTurn(m) /\ clock' \in {"before", "at", "after"}
    BY <1>1, <2>1, PlayClock
  <2> QED BY <2>1, <2>2, <2>4, <2>5, TurnEndsSafe
<1>6. CASE TimePasses
  <2>1. UNCHANGED game /\ clock' \in {"before", "at", "after"}
    BY <1>6 DEF TimePasses
  <2> QED BY <2>1, SameGameSafe
<1>7. CASE Tick
  <2> DEFINE e == With(game, game.current,
                       Gain(game.players[game.current], 8))
             m == NextVersion(e)
  <2>1. game.phase = "ACTIVE" /\ Play(ProcessTick(game, TRUE))
    BY <1>7 DEF Tick, TickDue
  <2>2. game.current \in Alive(game) /\ game.current \in P0
    BY <1>2, <1>3, <2>1
  <2>3. ProcessTick(game, TRUE) = AdvanceTurn(m)
    BY <2>1, <2>2 DEF ProcessTick, TickDue, TimeoutTurn
  <2>4. /\ e \in GameState(P0) /\ Follows(game, e)
        /\ e.players[game.current].alive
        /\ \A q \in P0 \ {game.current} : e.players[q] = game.players[q]
    <3>1. game.players[game.current] \in PlayerState
          /\ game.players[game.current].alive
      BY <1>1, <2>2 DEF GameState, Alive
    <3>2. Keeps(game.players[game.current],
                Gain(game.players[game.current], 8))
          /\ Gain(game.players[game.current], 8).alive
      BY <3>1, GainKeeps
    <3> QED BY <1>1, <2>2, <3>2, WithFollows
  <2> HIDE DEF e
  <2>5. /\ m \in GameState(P0) /\ Progress(game, m)
        /\ m.players = e.players
    BY <1>1, <2>4, FollowsProgress, NextVersionOnly
  <2> HIDE DEF m
  <2>6. Alive(m) = Alive(game) /\ Several(Alive(m))
    <3>1. DOMAIN m.players = P0
      BY <2>5 DEF GameState
    <3>2. Alive(m) = Alive(game)
      BY <2>2, <2>4, <2>5, <3>1 DEF Alive, P0
    <3> QED BY <1>2, <2>1, <3>2
  <2>7. m.phase = "ACTIVE" /\ m.current \in P0 /\ m.version \in Nat
    BY <2>1, <2>2, <2>5 DEF Progress, GameState
  <2>8. AdvanceTurn(m) \in GameState(P0) /\ TurnEnds(m, AdvanceTurn(m))
    BY <1>1, <2>5, <2>6, <2>7, AdvanceFollowsSeats DEF TurnEnds
  <2>9. game' = AdvanceTurn(m) /\ clock' \in {"before", "at", "after"}
    BY <1>1, <2>1, <2>3, PlayClock
  <2> QED BY <2>1, <2>5, <2>6, <2>8, <2>9, TurnEndsSafe
<1>8. ASSUME NEW p \in Player, NEW c \in BOOLEAN, Connection(p, c)
      PROVE  IInv' /\ Promised
  <2>1. game.phase = "ACTIVE" /\ Play(MarkConnection(game, p, c))
    BY <1>4, <1>8 DEF Connection
  <2>2. game' = MarkConnection(game, p, c)
        /\ clock' \in {"before", "at", "after"}
    BY <1>1, <2>1, PlayClock
  <2>3. CASE p \notin P0
    <3>1. UNCHANGED game
      BY <2>2, <2>3 DEF MarkConnection, P0
    <3> QED BY <2>2, <3>1, SameGameSafe
  <2>4. CASE p \in P0
    <3> DEFINE r == [game.players[p] EXCEPT !.connected = c]
               e == With(game, p, r)
    <3>1. game' = NextVersion(e)
      BY <2>2, <2>4 DEF MarkConnection, P0
    <3>2. Keeps(game.players[p], r) /\ r.alive = game.players[p].alive
      <4>1. game.players[p] \in PlayerState
        BY <1>1, <2>4 DEF GameState
      <4> QED BY <4>1, ConnectedKeeps
    <3> HIDE DEF r
    <3>3. /\ e \in GameState(P0) /\ Follows(game, e) /\ e.players[p] = r
          /\ \A q \in P0 \ {p} : e.players[q] = game.players[q]
      BY <1>1, <2>4, <3>2, WithFollows
    <3> HIDE DEF e
    <3>4. /\ game' \in GameState(P0) /\ Progress(game, game')
          /\ SameSequences(game, game') /\ game'.players = e.players
      BY <1>1, <3>1, <3>3, FollowsProgress, NextVersionOnly
    <3>5. Alive(game') = Alive(game)
      <4>1. DOMAIN game'.players = P0
        BY <3>4 DEF GameState
      <4> QED BY <3>2, <3>3, <3>4, <4>1 DEF Alive, P0
    <3> QED BY <1>2, <2>1, <2>2, <3>4, <3>5, ProgressSafe
  <2> QED BY <2>3, <2>4
<1>9. ASSUME NEW p \in Player, Leave(p)
      PROVE  IInv' /\ Promised
  <2>1. game.phase = "ACTIVE" /\ Play(MarkLeft(game, p))
    BY <1>4, <1>9 DEF Leave
  <2>2. game' = MarkLeft(game, p) /\ clock' \in {"before", "at", "after"}
    BY <1>1, <2>1, PlayClock
  <2>3. CASE p \notin P0
    <3>1. UNCHANGED game
      BY <2>2, <2>3 DEF MarkLeft, P0
    <3> QED BY <2>2, <3>1, SameGameSafe
  <2>4. CASE p \in P0
    <3> DEFINE r == Departed(game.players[p])
               e == With(game, p, r)
               m == NextVersion(e)
    <3>1. game' = IF m.current = p THEN EndTurn(m) ELSE FinishIfNeeded(m)
      BY <2>2, <2>4 DEF MarkLeft, P0
    <3>2. Keeps(game.players[p], r)
      <4>1. game.players[p] \in PlayerState
        BY <1>1, <2>4 DEF GameState
      <4> QED BY <4>1, DepartedKeeps
    <3> HIDE DEF r
    <3>3. /\ e \in GameState(P0) /\ Follows(game, e)
          /\ \A q \in P0 \ {p} : e.players[q] = game.players[q]
      BY <1>1, <2>4, <3>2, WithFollows
    <3> HIDE DEF e
    <3>4. /\ m \in GameState(P0) /\ Progress(game, m)
          /\ SameSequences(game, m) /\ m.players = e.players
      BY <1>1, <3>3, FollowsProgress, NextVersionOnly
    <3> HIDE DEF m
    <3>5. m.phase = "ACTIVE" /\ m.current = game.current /\ m.current \in P0
      BY <1>2, <1>3, <2>1, <3>4 DEF Progress
    <3>8. Alive(game) \subseteq Alive(m) \cup {p}
      <4>1. DOMAIN m.players = P0
        BY <3>4 DEF GameState
      <4> QED BY <3>3, <3>4, <4>1 DEF Alive, P0
    <3>6. CASE m.current = p \/ ~Several(Alive(m))
      <4>1. EndTurn(m) \in GameState(P0) /\ TurnEnds(m, EndTurn(m))
        BY <1>1, <3>4, <3>5, EndTurnEnds
      <4>2. ~Several(Alive(m)) => EndTurn(m) = FinishIfNeeded(m)
        <5>1. ~Several(Alive(m)) => FinishIfNeeded(m) # m
          BY <1>1, <3>4, <3>5, FinishEnds
        <5> QED BY <5>1 DEF EndTurn
      <4>3. game' = EndTurn(m)
        BY <3>1, <3>6, <4>2
      <4> QED BY <2>1, <2>2, <3>4, <3>8, <4>1, <4>3, TurnEndsSafe
    <3>7. CASE m.current # p /\ Several(Alive(m))
      <4>1. game' = m
        BY <1>1, <3>1, <3>4, <3>5, <3>7, FinishEnds
      <4>2. game.current \in Alive(m)
        <5>1. m.players[game.current] = game.players[game.current]
          BY <3>3, <3>4, <3>5, <3>7
        <5>2. DOMAIN m.players = P0
          BY <3>4 DEF GameState
        <5> QED BY <1>2, <2>1, <3>5, <5>1, <5>2 DEF Alive
      <4> QED BY <2>1, <2>2, <3>4, <3>7, <3>8, <4>1, <4>2, ProgressSafe
    <3> QED BY <3>6, <3>7
  <2> QED BY <2>3, <2>4
<1>10. CASE UNCHANGED vars
  BY <1>1, <1>10, SameGameSafe DEF vars
<1> QED BY <1>5, <1>6, <1>7, <1>8, <1>9, <1>10 DEF Next

\* The first state: everyone alive, the lowest seat to move.
Opening ==
    /\ Alive(game) = P0 /\ Several(P0)
    /\ game.phase = "ACTIVE" /\ game.winner = NoPlayer
    /\ \A q \in P0 : game.players[game.current].seatNumber
                          <= game.players[q].seatNumber

LEMMA InitSafe == Init => IInv /\ Opening
PROOF
<1> SUFFICES ASSUME Init PROVE IInv /\ Opening
  OBVIOUS
<1>1. PICK f \in Participants : game = InitialState(f)
  BY DEF Init
<1> DEFINE P == DOMAIN f
<1>0. PICK seats \in Seatings :
           \E online \in [DOMAIN seats -> Sockets] :
               f = [p \in DOMAIN seats |-> ParticipantRow(seats[p], online[p])]
  BY DEF Participants
<1>a. PICK online \in [DOMAIN seats -> Sockets] :
           f = [p \in DOMAIN seats |-> ParticipantRow(seats[p], online[p])]
  BY <1>0
<1>b. /\ P \subseteq Player /\ Several(P) /\ P = DOMAIN seats
      /\ \A p, q \in P : seats[p] \in Nat /\ (seats[p] = seats[q] => p = q)
  BY <1>a, BattleAssumption
<1>c. \A p \in P : /\ f[p] = ParticipantRow(seats[p], online[p])
                    /\ seats[p] \in Nat /\ online[p] \in BOOLEAN
  BY <1>a, <1>b, BattleAssumption
<1>2. /\ P \subseteq Player /\ Several(P)
      /\ \A p, q \in P : f[p].seatNumber = f[q].seatNumber => p = q
  BY <1>a, <1>b, <1>c DEF ParticipantRow
<1>3. \A p \in P : f[p] \in PlayerRow /\ f[p].health > 0
  BY <1>c, EngineAssumption DEF ParticipantRow, PlayerRow
<1>4. P # {}
  BY <1>2 DEF Several
<1>5. /\ game \in GameState(P) /\ game.phase = "ACTIVE"
      /\ game.winner = NoPlayer /\ game.current \in P /\ Alive(game) = P
      /\ \A q \in P :
            /\ game.players[q].alive
            /\ game.players[q].seatNumber = f[q].seatNumber
            /\ game.players[q].health = f[q].health
            /\ game.players[game.current].seatNumber
                   <= game.players[q].seatNumber
  <2> HIDE DEF P
  <2> QED BY <1>1, <1>2, <1>3, <1>4, InitialIsReady DEF P
<1>6. DOMAIN game.players = P
  BY <1>5 DEF GameState
<1>7. TypeOK
  BY <1>2, <1>5, <1>6 DEF TypeOK, Init
<1>8. TurnHolderAlive /\ GameOverSound
  BY <1>2, <1>5 DEF TurnHolderAlive, GameOverSound
<1>9. SeatsDistinct
  BY <1>2, <1>5, <1>6 DEF SeatsDistinct
<1>10. AliveIffHealthy
  BY <1>3, <1>5, <1>6 DEF AliveIffHealthy
<1>11. Opening
  BY <1>2, <1>5, <1>6 DEF Opening, P0
<1> QED BY <1>7, <1>8, <1>9, <1>10, <1>11 DEF IInv

-------------------------------------------------------------------------------
(***************************************************************************)
(* The theorems.                                                           *)
(***************************************************************************)

\* The invariant holds in every state of every game.
THEOREM Invariance == Spec => []IInv
PROOF
<1>1. IInv /\ [Next]_vars => IInv'
  BY StepSafe
<1> QED BY InitSafe, <1>1, PTL DEF Spec

\* Type correctness of the state the engine passes from call to call.
THEOREM TypeCorrect == Spec => []TypeOK
PROOF
<1>1. IInv => TypeOK
  BY DEF IInv
<1> QED BY Invariance, <1>1, PTL

\* A running game always has a living holder of the turn with an opponent.
THEOREM TurnHolderIsAlive == Spec => []TurnHolderAlive
PROOF
<1>1. IInv => TurnHolderAlive
  BY DEF IInv
<1> QED BY Invariance, <1>1, PTL

\* A game that is over has at most one survivor, who is its winner.
THEOREM GameOverIsSound == Spec => []GameOverSound
PROOF
<1>1. IInv => GameOverSound
  BY DEF IInv
<1> QED BY Invariance, <1>1, PTL

\* Being alive and having health are the same thing throughout.
THEOREM LifeIsHealth == Spec => []AliveIffHealthy
PROOF
<1>1. IInv => AliveIffHealthy
  BY DEF IInv
<1> QED BY Invariance, <1>1, PTL

\* The turn goes round by seat among the survivors, one at a time.
THEOREM TurnsGoRound == Spec => TurnsFollowSeats
PROOF
<1>1. IInv /\ [Next]_vars => [TurnFollowsSeats]_vars
  BY StepSafe DEF Promised
<1> QED BY Invariance, <1>1, PTL DEF Spec, TurnsFollowSeats

\* No request acts twice and none acts without using up the turn.
THEOREM OneMoveATurn == Spec => MovesUseUpTurns
PROOF
<1>1. IInv /\ [Next]_vars => [MoveUsesUpTurn]_vars
  BY StepSafe DEF Promised
<1> QED BY Invariance, <1>1, PTL DEF Spec, MovesUseUpTurns

\* Nobody comes back from elimination.
THEOREM NobodyComesBack == Spec => EliminationIsFinal
PROOF
<1>1. IInv /\ [Next]_vars => [OutIsOut]_vars
  BY StepSafe DEF Promised
<1> QED BY Invariance, <1>1, PTL DEF Spec, EliminationIsFinal

\* A version number names one state of a game.
THEOREM VersionsNameStates == Spec => VersionsGrow
PROOF
<1>1. IInv /\ [Next]_vars => [VersionGrows]_vars
  BY StepSafe DEF Promised
<1> QED BY Invariance, <1>1, PTL DEF Spec, VersionsGrow


-------------------------------------------------------------------------------
(***************************************************************************)
(* The game implements LastStanding.                                       *)
(***************************************************************************)
LEMMA InitStands ==
    ASSUME Init
    PROVE  Standing!Init
PROOF
<1>1. IInv /\ Opening
  BY InitSafe
<1> DEFINE seat == [p \in DOMAIN game.players |-> game.players[p].seatNumber]
<1>2. /\ DOMAIN seat = P0 /\ P0 \subseteq Player
      /\ \A p \in P0 : seat[p] = game.players[p].seatNumber /\ seat[p] \in Nat
  BY <1>1 DEF P0, IInv, TypeOK, GameState, PlayerState
<1>3. /\ Alive(game) = P0 /\ Several(P0) /\ game.winner = NoPlayer
      /\ game.current \in P0
      /\ \A q \in P0 : game.players[game.current].seatNumber
                          <= game.players[q].seatNumber
  BY <1>1 DEF Opening, IInv, TurnHolderAlive
<1>4. \A p, q \in P0 : seat[p] = seat[q] => p = q
  BY <1>1, <1>2 DEF IInv, SeatsDistinct, P0
<1>5. seat \in [DOMAIN seat -> Nat]
  BY <1>2
<1>6. \A q \in P0 : seat[game.current] <= seat[q]
  BY <1>2, <1>3
<1> HIDE DEF seat
<1>7. Standing!Several(P0)
  BY <1>3 DEF Several, Standing!Several
<1> QED BY <1>2, <1>3, <1>4, <1>5, <1>6, <1>7 DEF Standing!Init, Standing!Lowest, seat

LEMMA NextStands ==
    ASSUME IInv, IInv', Promised, [Next]_vars
    PROVE  [Standing!Next]_Standing!vars
PROOF
<1> DEFINE seat == [p \in DOMAIN game.players |-> game.players[p].seatNumber]
<1>1. CASE game.phase = "FINISHED"
  <2>1. game' = game
    BY <1>1 DEF Promised, StandingStep
  <2>2. Alive(game') = Alive(game)
    BY <2>1 DEF Alive
  <2> QED BY <2>1, <2>2 DEF Standing!vars
<1>2. CASE game.phase = "ACTIVE"
  <2>1. /\ game.current \in Alive(game) /\ Several(Alive(game))
        /\ Alive(game) \subseteq P0 /\ NoPlayer \notin P0
    BY <1>2, EngineAssumption
       DEF IInv, TurnHolderAlive, Alive, P0, TypeOK
  <2>2. game.current # NoPlayer
    BY <2>1
  <2>3. seat' = seat /\ DOMAIN game'.players = P0
    BY <1>2 DEF Promised, StandingStep, P0
  <2>4. PICK o : Alive(game) \subseteq Alive(game') \cup {o}
    BY <1>2 DEF Promised, StandingStep
  <2>5. Alive(game') \subseteq Alive(game)
    <3>1. Alive(game') \subseteq P0
      BY <2>3 DEF Alive
    <3> QED BY <3>1 DEF Promised, OutIsOut, P0
  <2>6. \/ Alive(game') = Alive(game)
        \/ o \in Alive(game) /\ Alive(game') = Alive(game) \ {o}
    BY <2>4, <2>5
  <2>7. CASE game'.phase = "FINISHED"
    <3>1. Alive(game') = {game'.winner} /\ game'.current = NoPlayer
      BY <2>7 DEF IInv, GameOverSound
    <3>2. o \in Alive(game) /\ Alive(game') = Alive(game) \ {o}
      BY <2>1, <2>6, <3>1 DEF Several
    <3>3. Standing!LastFall(o)
      BY <2>2, <2>3, <3>1, <3>2 DEF Standing!LastFall
    <3> QED BY <3>2, <3>3 DEF Standing!Next
  <2>8. CASE game'.phase = "ACTIVE"
    <3>1. /\ game'.current \in Alive(game') /\ Several(Alive(game'))
          /\ game'.winner = game.winner
      BY <1>2, <2>8 DEF IInv, TurnHolderAlive, Promised, StandingStep
    <3>2. Standing!Several(Alive(game'))
      BY <3>1 DEF Several, Standing!Several
    <3>3. CASE game'.turn = game.turn
      <4>1. game'.current = game.current
        BY <1>2, <2>8, <3>3 DEF Promised, StandingStep
      <4>2. CASE Alive(game') = Alive(game)
        BY <2>3, <3>1, <4>1, <4>2 DEF Standing!vars
      <4>3. CASE o \in Alive(game) /\ Alive(game') = Alive(game) \ {o}
        <5>1. Standing!Fall(o)
          BY <2>2, <2>3, <3>1, <3>2, <4>1, <4>3 DEF Standing!Fall
        <5> QED BY <4>3, <5>1 DEF Standing!Next
      <4> QED BY <2>6, <4>2, <4>3
    <3>4. CASE game'.turn # game.turn
      <4> DEFINE rest == {p \in Alive(game') : seat[p] > seat[game.current]}
                 pool == IF rest = {} THEN Alive(game') ELSE rest
      <4>1. \A p \in P0 : /\ seat[p] = game.players[p].seatNumber
                          /\ seat[p] = game'.players[p].seatNumber
        BY <1>2, <2>3 DEF P0, Promised, StandingStep
      <4>2. Alive(game') \subseteq P0 /\ game.current \in P0
        BY <2>1, <2>5
      <4>3. rest = {p \in Alive(game') :
                       game'.players[p].seatNumber
                           > game'.players[game.current].seatNumber}
        BY <4>1, <4>2
      <4>4. /\ game'.current \in pool
            /\ \A q \in pool : game'.players[game'.current].seatNumber
                                  <= game'.players[q].seatNumber
        BY <3>1, <3>4, <4>3 DEF Promised, TurnFollowsSeats
      <4>5. /\ game'.current \in pool
            /\ \A q \in pool : seat[game'.current] <= seat[q]
        BY <4>1, <4>2, <4>4
      <4> HIDE DEF seat
      <4>6. Standing!IsNext(game'.current, Alive(game'))
        BY <4>5 DEF Standing!IsNext, Standing!Lowest, seat
      <4>7. CASE Alive(game') = Alive(game)
        <5>1. Standing!Pass
          BY <2>2, <2>3, <3>1, <4>6, <4>7 DEF Standing!Pass, seat
        <5> QED BY <5>1 DEF Standing!Next
      <4>8. CASE o \in Alive(game) /\ Alive(game') = Alive(game) \ {o}
        <5>1. Standing!Fall(o)
          BY <2>2, <2>3, <3>1, <3>2, <4>6, <4>8 DEF Standing!Fall, seat
        <5> QED BY <4>8, <5>1 DEF Standing!Next
      <4> QED BY <2>6, <4>7, <4>8
    <3> QED BY <3>3, <3>4
  <2>9. game'.phase \in {"ACTIVE", "FINISHED"}
    BY DEF IInv, TypeOK, GameState, Phase
  <2> QED BY <2>7, <2>8, <2>9
<1>3. game.phase \in {"ACTIVE", "FINISHED"}
  BY DEF IInv, TypeOK, GameState, Phase
<1> QED BY <1>1, <1>2, <1>3

\* Every game the engine plays follows the contract of LastStanding.
THEOREM GameStands == Spec => StandingSpec
PROOF
<1>1. Init => Standing!Init
  BY InitStands
<1>2. IInv /\ IInv' /\ [Next]_vars => [Standing!Next]_Standing!vars
  BY StepSafe, NextStands
<1>3. Spec => []IInv
  BY Invariance
<1> QED BY <1>1, <1>2, <1>3, PTL DEF Spec, StandingSpec, Standing!Spec
===============================================================================
