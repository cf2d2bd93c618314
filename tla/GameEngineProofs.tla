--------------------------- MODULE GameEngineProofs ---------------------------
(***************************************************************************)
(* What the methods of the engine make of a state, for every room, number  *)
(* of players, health, energy and history limit.  The lemmas follow the    *)
(* calls of the engine: First, FinishIfNeeded, AdvanceTurn, then the       *)
(* effects of an action, then the methods themselves.                      *)
(***************************************************************************)
EXTENDS GameEngine, TLAPS, WellFoundedInduction

\* A nonempty set of players has one with the least number.
LEMMA LeastExists ==
    ASSUME NEW S, S # {}, NEW f, \A p \in S : f[p] \in Nat
    PROVE  \E p \in S : \A q \in S : f[p] <= f[q]
PROOF
<1> DEFINE T == {f[p] : p \in S}
           R == OpToRel(<, Nat)
<1>1. T \subseteq Nat /\ T # {}
  OBVIOUS
<1>2. IsWellFoundedOn(R, Nat)
  BY NatLessThanWellFounded
<1>3. \A k, l \in Nat : k < l => <<k, l>> \in R
  BY DEF OpToRel
<1>4. \E m \in T : \A n \in T : m <= n
  <2> HIDE DEF T, R
  <2>1. PICK m \in T : \A n \in T : ~(<<n, m>> \in R)
    BY <1>1, <1>2, WFMin
  <2>2. \A n \in T : ~(n < m)
    BY <1>1, <1>3, <2>1
  <2>3. \A n \in T : m <= n
    BY <1>1, <2>2
  <2> QED BY <2>3
<1> QED BY <1>4

\* First picks a member of the set with the lowest seat.
LEMMA FirstIsLowest ==
    ASSUME NEW s, NEW S, S # {}, \A p \in S : s.players[p].seatNumber \in Nat
    PROVE  /\ First(s, S) \in S
           /\ \A q \in S : s.players[First(s, S)].seatNumber
                               <= s.players[q].seatNumber
PROOF
<1> DEFINE f == [p \in S |-> s.players[p].seatNumber]
<1>1. \A p \in S : f[p] \in Nat
  OBVIOUS
<1>2. \E p \in S : \A q \in S : f[p] <= f[q]
  <2> HIDE DEF f
  <2> QED BY <1>1, LeastExists
<1>3. \E p \in S : \A q \in S :
          s.players[p].seatNumber <= s.players[q].seatNumber
  BY <1>2
<1> QED BY <1>3 DEF First

\* FinishIfNeeded leaves a game with two survivors alone and ends any other
\* with its survivor, if any, as the winner.
LEMMA FinishEnds ==
    ASSUME NEW P \in SUBSET Player, NEW s \in GameState(P),
           s.phase = "ACTIVE", NEW n, n = FinishIfNeeded(s)
    PROVE  /\ n \in GameState(P)
           /\ n.players = s.players /\ n.processed = s.processed
           /\ n.turn = s.turn /\ n.round = s.round
           /\ Several(Alive(s)) => n = s
           /\ ~Several(Alive(s)) =>
                 /\ n.phase = "FINISHED" /\ n.current = NoPlayer
                 /\ n.version = s.version + 1
                 /\ IF Alive(s) = {} THEN n.winner = NoPlayer
                    ELSE n.winner \in Alive(s)
PROOF
<1>1. CASE Several(Alive(s))
  BY <1>1 DEF FinishIfNeeded
<1>2. CASE ~Several(Alive(s))
  <2>1. Alive(s) # {} => First(s, Alive(s)) \in Alive(s)
    <3>1. \A p \in Alive(s) : s.players[p].seatNumber \in Nat
      BY DEF Alive, GameState, PlayerState
    <3> QED BY <3>1, FirstIsLowest
  <2>2. Alive(s) \subseteq Player
    BY DEF Alive, GameState
  <2> DEFINE w == IF Alive(s) = {} THEN NoPlayer ELSE First(s, Alive(s))
  <2>3. n = [s EXCEPT !.phase = "FINISHED", !.winner = w,
                      !.current = NoPlayer, !.version = @ + 1]
    BY <1>2 DEF FinishIfNeeded
  <2>4. w \in Player \cup {NoPlayer}
    BY <2>1, <2>2
  <2>5. n.winner = w /\ n.phase = "FINISHED" /\ n.current = NoPlayer
        /\ n.version = s.version + 1 /\ n.players = s.players
        /\ n.processed = s.processed /\ n.turn = s.turn /\ n.round = s.round
    <3> HIDE DEF w
    <3> QED BY <2>3 DEF GameState
  <2>6. n \in GameState(P)
    <3>1. n = [phase |-> "FINISHED", round |-> s.round, turn |-> s.turn,
               version |-> s.version + 1, current |-> NoPlayer, winner |-> w,
               processed |-> s.processed, players |-> s.players]
      <4> HIDE DEF w
      <4> QED BY <2>3 DEF GameState
    <3> HIDE DEF w
    <3> QED BY <3>1, <2>4 DEF GameState, Phase
  <2> QED BY <1>2, <2>1, <2>5, <2>6
<1> QED BY <1>1, <1>2

\* AdvanceTurn gives the turn to the next survivor by seat and counts a round
\* when it starts again from the lowest seat.
LEMMA AdvanceFollowsSeats ==
    ASSUME NEW P \in SUBSET Player, NEW s \in GameState(P),
           s.phase = "ACTIVE", s.current \in P, Several(Alive(s)),
           NEW n, n = AdvanceTurn(s)
    PROVE  LET seat(p) == s.players[p].seatNumber
               rest == {p \in Alive(s) : seat(p) > seat(s.current)}
           IN  /\ n \in GameState(P)
               /\ n.players = s.players /\ n.processed = s.processed
               /\ n.phase = s.phase /\ n.version = s.version
               /\ n.winner = s.winner
               /\ n.turn = s.turn + 1
               /\ n.current \in Alive(s)
               /\ IF rest = {}
                  THEN /\ n.round = s.round + 1
                       /\ \A q \in Alive(s) : seat(n.current) <= seat(q)
                  ELSE /\ n.round = s.round
                       /\ n.current \in rest
                       /\ \A q \in rest : seat(n.current) <= seat(q)
PROOF
<1> DEFINE rest == Remaining(s)
           pool == IF rest = {} THEN Alive(s) ELSE rest
           next == First(s, pool)
           rnd == IF rest = {} THEN s.round + 1 ELSE s.round
<1>1. s.current # NoPlayer
  BY EngineAssumption
<1>2. rest = {p \in Alive(s) : s.players[p].seatNumber
                                  > s.players[s.current].seatNumber}
  BY <1>1 DEF Remaining, After
<1>3. \A p \in Alive(s) : s.players[p].seatNumber \in Nat
  BY DEF Alive, GameState, PlayerState
<1>4. pool # {} /\ pool \subseteq Alive(s)
  BY <1>2 DEF Several
<1>5. /\ next \in pool
      /\ \A q \in pool : s.players[next].seatNumber <= s.players[q].seatNumber
  <2> HIDE DEF pool
  <2> QED BY <1>3, <1>4, FirstIsLowest
<1>6. n = [s EXCEPT !.current = next, !.round = rnd, !.turn = @ + 1]
  BY DEF AdvanceTurn, GameState
<1>7. next \in Player /\ rnd \in Nat
  BY <1>4, <1>5 DEF Alive, GameState
<1>8. /\ n \in GameState(P)
      /\ n.players = s.players /\ n.processed = s.processed
      /\ n.phase = s.phase /\ n.version = s.version /\ n.winner = s.winner
      /\ n.turn = s.turn + 1 /\ n.current = next /\ n.round = rnd
  <2> HIDE DEF next, rnd
  <2>1. n = [phase |-> s.phase, round |-> rnd, turn |-> s.turn + 1,
             version |-> s.version, current |-> next, winner |-> s.winner,
             processed |-> s.processed, players |-> s.players]
    BY <1>6 DEF GameState
  <2> QED BY <2>1, <1>7 DEF GameState
<1>9. next \in Alive(s)
  BY <1>4, <1>5
<1> HIDE DEF next
<1> QED BY <1>2, <1>5, <1>8, <1>9

-------------------------------------------------------------------------------
\* What a turn's end makes of a state s: the conclusions of the two lemmas.
TurnEnds(s, n) ==
    LET seat(p) == s.players[p].seatNumber
        rest == {p \in Alive(s) : seat(p) > seat(s.current)}
    IN  /\ n.players = s.players /\ n.version >= s.version
        /\ n.processed = s.processed
        /\ Several(Alive(s)) =>
              /\ n.phase = "ACTIVE" /\ n.turn = s.turn + 1
              /\ n.winner = s.winner
              /\ n.current \in Alive(s)
              /\ IF rest = {}
                 THEN /\ n.round = s.round + 1
                      /\ \A q \in Alive(s) : seat(n.current) <= seat(q)
                 ELSE /\ n.round = s.round
                      /\ n.current \in rest
                      /\ \A q \in rest : seat(n.current) <= seat(q)
        /\ ~Several(Alive(s)) =>
              /\ n.phase = "FINISHED" /\ n.turn = s.turn /\ n.round = s.round
              /\ n.current = NoPlayer
              /\ IF Alive(s) = {} THEN n.winner = NoPlayer
                 ELSE n.winner \in Alive(s)

LEMMA EndTurnEnds ==
    ASSUME NEW P \in SUBSET Player, NEW s \in GameState(P),
           s.phase = "ACTIVE", s.current \in P, NEW n, n = EndTurn(s)
    PROVE  n \in GameState(P) /\ TurnEnds(s, n)
PROOF
<1> DEFINE f == FinishIfNeeded(s)
<1>0. s.version \in Nat
  BY DEF GameState
<1>1. CASE Several(Alive(s))
  <2>1. f = s
    BY <1>1, FinishEnds
  <2>2. n = AdvanceTurn(s)
    BY <2>1 DEF EndTurn
  <2> QED BY <1>0, <1>1, <2>2, AdvanceFollowsSeats DEF TurnEnds
<1>2. CASE ~Several(Alive(s))
  <2>1. f # s
    BY <1>2, FinishEnds
  <2>2. n = f
    BY <2>1 DEF EndTurn
  <2> QED BY <1>0, <1>2, <2>2, FinishEnds DEF TurnEnds
<1> QED BY <1>1, <1>2

LEMMA AdvanceEnds ==
    ASSUME NEW P \in SUBSET Player, NEW s \in GameState(P),
           s.phase = "ACTIVE", s.current \in P, NEW n, n = AdvanceTurn(s)
    PROVE  n \in GameState(P) /\ TurnEnds(s, n)
PROOF
<1>0. s.version \in Nat
  BY DEF GameState
<1>1. CASE Several(Alive(s))
  BY <1>0, <1>1, AdvanceFollowsSeats DEF TurnEnds
<1>2. CASE ~Several(Alive(s))
  <2>1. n = FinishIfNeeded(s)
    BY <1>2 DEF AdvanceTurn
  <2> QED BY <1>0, <1>2, <2>1, FinishEnds DEF TurnEnds
<1> QED BY <1>1, <1>2

-------------------------------------------------------------------------------
\* What happens to one player's record short of a departure: the seat stays,
\* the dead stay dead, and health and life keep going together.
Keeps(r, q) ==
    /\ q \in PlayerState
    /\ q.seatNumber = r.seatNumber
    /\ q.alive => r.alive
    /\ (r.alive <=> r.health > 0) => (q.alive <=> q.health > 0)
    /\ q.lastProcessedSeq = r.lastProcessedSeq

LEMMA GainKeeps ==
    ASSUME NEW r \in PlayerState, NEW n \in Nat
    PROVE  Keeps(r, Gain(r, n)) /\ Gain(r, n).alive = r.alive
PROOF
<1> DEFINE e == Least(MAX_ENERGY, r.energy + n)
<1>1. e \in 0..MAX_ENERGY
  BY EngineAssumption DEF Least, PlayerState
<1>2. Gain(r, n) = [seatNumber |-> r.seatNumber, health |-> r.health,
                    energy |-> e, shield |-> r.shield, alive |-> r.alive,
                    connected |-> r.connected,
                    lastProcessedSeq |-> r.lastProcessedSeq]
  <2>1. Gain(r, n) = [r EXCEPT !.energy = e]
    BY DEF Gain
  <2> HIDE DEF e
  <2> QED BY <2>1 DEF PlayerState
<1> HIDE DEF e
<1> QED BY <1>1, <1>2 DEF Keeps, PlayerState

LEMMA SpendKeeps ==
    ASSUME NEW r \in PlayerState, NEW n \in Nat, n <= r.energy
    PROVE  Keeps(r, Spend(r, n)) /\ Spend(r, n).alive = r.alive
PROOF
<1> DEFINE e == r.energy - n
<1>1. e \in 0..MAX_ENERGY
  BY EngineAssumption DEF PlayerState
<1>2. Spend(r, n) = [seatNumber |-> r.seatNumber, health |-> r.health,
                     energy |-> e, shield |-> r.shield, alive |-> r.alive,
                     connected |-> r.connected,
                     lastProcessedSeq |-> r.lastProcessedSeq]
  <2>1. Spend(r, n) = [r EXCEPT !.energy = e]
    BY DEF Spend
  <2> HIDE DEF e
  <2> QED BY <2>1 DEF PlayerState
<1> HIDE DEF e
<1> QED BY <1>1, <1>2 DEF Keeps, PlayerState

LEMMA ShieldedKeeps ==
    ASSUME NEW r \in PlayerState
    PROVE  Keeps(r, Shielded(r)) /\ Shielded(r).alive = r.alive
PROOF
<1> DEFINE up == TRUE
<1>1. Shielded(r) = [seatNumber |-> r.seatNumber, health |-> r.health,
                     energy |-> r.energy, shield |-> up, alive |-> r.alive,
                     connected |-> r.connected,
                     lastProcessedSeq |-> r.lastProcessedSeq]
  <2>1. Shielded(r) = [r EXCEPT !.shield = up]
    BY DEF Shielded
  <2> HIDE DEF up
  <2> QED BY <2>1 DEF PlayerState
<1>2. up \in BOOLEAN
  OBVIOUS
<1> HIDE DEF up
<1> QED BY <1>1, <1>2 DEF Keeps, PlayerState

\* Only the living are healed: Legal sees to it.
LEMMA HealedKeeps ==
    ASSUME NEW r \in PlayerState, r.alive
    PROVE  Keeps(r, Healed(r)) /\ Healed(r).alive = r.alive
PROOF
<1> DEFINE h == Least(MAX_HEALTH, r.health + 22)
<1>1. h \in 0..MAX_HEALTH /\ h > 0
  BY EngineAssumption DEF Least, PlayerState
<1>2. Healed(r) = [seatNumber |-> r.seatNumber, health |-> h,
                   energy |-> r.energy, shield |-> r.shield,
                   alive |-> r.alive, connected |-> r.connected,
                   lastProcessedSeq |-> r.lastProcessedSeq]
  <2>1. Healed(r) = [r EXCEPT !.health = h]
    BY DEF Healed
  <2> HIDE DEF h
  <2> QED BY <2>1 DEF PlayerState
<1> HIDE DEF h
<1> QED BY <1>1, <1>2 DEF Keeps, PlayerState

LEMMA StruckKeeps ==
    ASSUME NEW r \in PlayerState, NEW amount \in Nat
    PROVE  Keeps(r, Struck(r, amount))
PROOF
<1> DEFINE dealt == IF r.shield THEN (amount + 1) \div 2 ELSE amount
           left == IF r.health > dealt THEN r.health - dealt ELSE 0
           live == r.alive /\ left > 0
<1>1. dealt \in Nat
  OBVIOUS
<1>2. left \in 0..MAX_HEALTH
  <2> HIDE DEF dealt
  <2> QED BY <1>1, EngineAssumption DEF PlayerState
<1>3. left > 0 => r.health > 0
  <2> HIDE DEF dealt
  <2> QED BY <1>1 DEF PlayerState
<1>4. Struck(r, amount) =
          [seatNumber |-> r.seatNumber, health |-> left, energy |-> r.energy,
           shield |-> FALSE, alive |-> live, connected |-> r.connected,
           lastProcessedSeq |-> r.lastProcessedSeq]
  <2>1. Struck(r, amount) =
            [r EXCEPT !.shield = FALSE, !.health = left, !.alive = live]
    BY DEF Struck
  <2> HIDE DEF left, live
  <2> QED BY <2>1 DEF PlayerState
<1>5. live \in BOOLEAN /\ (live => r.alive)
      /\ ((r.alive <=> r.health > 0) => (live <=> left > 0))
  <2> HIDE DEF left
  <2> QED BY <1>3
<1> HIDE DEF left, live
<1> QED BY <1>2, <1>4, <1>5 DEF Keeps, PlayerState

LEMMA DepartedKeeps ==
    ASSUME NEW r \in PlayerState
    PROVE  Keeps(r, Departed(r)) /\ ~Departed(r).alive
PROOF
<1> DEFINE off == FALSE
<1>1. Departed(r) = [seatNumber |-> r.seatNumber, health |-> 0,
                     energy |-> r.energy, shield |-> r.shield, alive |-> off,
                     connected |-> off,
                     lastProcessedSeq |-> r.lastProcessedSeq]
  <2>1. Departed(r) =
            [r EXCEPT !.connected = off, !.alive = off, !.health = 0]
    BY DEF Departed
  <2> HIDE DEF off
  <2> QED BY <2>1 DEF PlayerState
<1>2. off \in BOOLEAN /\ ~off
  OBVIOUS
<1>3. 0 \in 0..MAX_HEALTH
  BY EngineAssumption
<1> HIDE DEF off
<1> QED BY <1>1, <1>2, <1>3 DEF Keeps, PlayerState

LEMMA ConnectedKeeps ==
    ASSUME NEW r \in PlayerState, NEW c \in BOOLEAN
    PROVE  /\ Keeps(r, [r EXCEPT !.connected = c])
           /\ [r EXCEPT !.connected = c].alive = r.alive
PROOF
<1>1. [r EXCEPT !.connected = c] =
          [seatNumber |-> r.seatNumber, health |-> r.health,
           energy |-> r.energy, shield |-> r.shield, alive |-> r.alive,
           connected |-> c, lastProcessedSeq |-> r.lastProcessedSeq]
  BY DEF PlayerState
<1> QED BY <1>1 DEF Keeps, PlayerState

LEMMA KeepsTransitive ==
    ASSUME NEW r \in PlayerState, NEW q, NEW t, Keeps(r, q), Keeps(q, t)
    PROVE  Keeps(r, t)
PROOF BY DEF Keeps, PlayerState

-------------------------------------------------------------------------------
\* n is s with the records of some players changed.
Follows(s, n) ==
    /\ n.phase = s.phase /\ n.turn = s.turn /\ n.round = s.round
    /\ n.current = s.current /\ n.winner = s.winner
    /\ n.version = s.version /\ n.processed = s.processed
    /\ DOMAIN n.players = DOMAIN s.players
    /\ \A p \in DOMAIN s.players : Keeps(s.players[p], n.players[p])

LEMMA WithFollows ==
    ASSUME NEW P, NEW s \in GameState(P), NEW p \in P, NEW r,
           Keeps(s.players[p], r), NEW n, n = With(s, p, r)
    PROVE  /\ n \in GameState(P) /\ Follows(s, n)
           /\ n.players[p] = r
           /\ \A q \in P \ {p} : n.players[q] = s.players[q]
PROOF
<1> DEFINE ps == [s.players EXCEPT ![p] = r]
<1>1. s.players \in [P -> PlayerState]
  BY DEF GameState
<1>2. n = [phase |-> s.phase, round |-> s.round, turn |-> s.turn,
           version |-> s.version, current |-> s.current,
           winner |-> s.winner, processed |-> s.processed, players |-> ps]
  <2>1. n = [s EXCEPT !.players = ps]
    BY DEF With
  <2> HIDE DEF ps
  <2> QED BY <2>1 DEF GameState
<1>3. /\ ps \in [P -> PlayerState] /\ ps[p] = r
      /\ \A q \in P \ {p} : ps[q] = s.players[q]
  BY <1>1 DEF Keeps
<1>4. \A q \in P : Keeps(s.players[q], s.players[q])
  BY <1>1 DEF Keeps
<1>5. \A q \in P : Keeps(s.players[q], ps[q])
  <2> HIDE DEF ps
  <2> QED BY <1>3, <1>4
<1> HIDE DEF ps
<1>6. n \in GameState(P)
  BY <1>2, <1>3 DEF GameState
<1> QED BY <1>1, <1>2, <1>3, <1>5, <1>6 DEF Follows

LEMMA FollowsTransitive ==
    ASSUME NEW P, NEW s \in GameState(P), NEW n, NEW m,
           Follows(s, n), Follows(n, m)
    PROVE  Follows(s, m)
PROOF
<1>1. \A p \in P : s.players[p] \in PlayerState
  BY DEF GameState
<1> QED BY <1>1, KeepsTransitive DEF Follows, GameState

\* A new version, the rest as it was.
LEMMA NextVersionOnly ==
    ASSUME NEW P, NEW s \in GameState(P), NEW n, n = NextVersion(s)
    PROVE  /\ n \in GameState(P) /\ n.version = s.version + 1
           /\ n.phase = s.phase /\ n.turn = s.turn /\ n.round = s.round
           /\ n.current = s.current /\ n.winner = s.winner
           /\ n.processed = s.processed /\ n.players = s.players
PROOF
<1>1. n = [phase |-> s.phase, round |-> s.round, turn |-> s.turn,
           version |-> s.version + 1, current |-> s.current,
           winner |-> s.winner, processed |-> s.processed,
           players |-> s.players]
  BY DEF NextVersion, GameState
<1> QED BY <1>1 DEF GameState

-------------------------------------------------------------------------------
LEMMA DamageFollows ==
    ASSUME NEW P, NEW s \in GameState(P), NEW p \in P, NEW q \in P \ {p},
           NEW amount \in Nat, NEW n, n = ApplyDamage(s, p, q, amount)
    PROVE  /\ n \in GameState(P) /\ Follows(s, n)
           /\ \A o \in P \ {q} : n.players[o].alive = s.players[o].alive
PROOF
<1> DEFINE m == With(s, q, Struck(s.players[q], amount))
<1>1. s.players \in [P -> PlayerState]
  BY DEF GameState
<1>2. /\ m \in GameState(P) /\ Follows(s, m)
      /\ \A o \in P \ {q} : m.players[o] = s.players[o]
  BY <1>1, StruckKeeps, WithFollows
<1>3. n = With(m, p, Gain(s.players[p], 10))
  BY DEF ApplyDamage
<1>4. /\ Keeps(m.players[p], Gain(s.players[p], 10))
      /\ Gain(s.players[p], 10).alive = s.players[p].alive
  BY <1>1, <1>2, GainKeeps
<1> HIDE DEF m
<1>5. /\ n \in GameState(P) /\ Follows(m, n)
      /\ n.players[p] = Gain(s.players[p], 10)
      /\ \A o \in P \ {p} : n.players[o] = m.players[o]
  BY <1>2, <1>3, <1>4, WithFollows
<1>6. \A o \in P \ {q} : n.players[o].alive = s.players[o].alive
  BY <1>2, <1>4, <1>5
<1> QED BY <1>2, <1>5, <1>6, FollowsTransitive

\* The fields of an action the engine relies on being well formed.
WellFormed(a) ==
    /\ a.type \in ActionType /\ a.power \in Nat /\ a.seq \in Nat
    /\ a.actionId \in ActionId

LEMMA EffectFollows ==
    ASSUME NEW P, NEW s \in GameState(P), NEW a, WellFormed(a),
           a.playerId \in Alive(s), Permitted(s, a), NEW n, n = Effect(s, a)
    PROVE  /\ n \in GameState(P) /\ Follows(s, n)
           /\ \A q \in Alive(s) : q # a.target => n.players[q].alive
PROOF
<1> DEFINE p == a.playerId
           r == s.players[p]
           paid == Spend(r, Cost(a.type))
<1>1. /\ p \in P /\ r \in PlayerState /\ r.alive
      /\ Alive(s) \subseteq P /\ \A q \in Alive(s) : s.players[q].alive
  BY DEF Alive, GameState
<1>2. Cost(a.type) \in Nat /\ Cost(a.type) <= r.energy
  <2>1. Cost(a.type) \in Nat
    BY DEF Cost
  <2> QED BY <1>1, <2>1 DEF Permitted, PlayerState
<1>3. Keeps(r, paid) /\ paid \in PlayerState /\ paid.alive
  <2>1. Keeps(r, paid) /\ paid.alive = r.alive
    BY <1>1, <1>2, SpendKeeps
  <2> QED BY <1>1, <2>1 DEF Keeps
<1>4. CASE a.type = "ATTACK"
  <2> DEFINE amount == 12 + a.power * 6
  <2>1. n = ApplyDamage(s, p, a.target, amount)
    BY <1>4 DEF Effect
  <2>2. amount \in Nat /\ a.target \in P \ {p}
    BY <1>1, <1>4 DEF WellFormed, Permitted
  <2> HIDE DEF amount
  <2>3. /\ n \in GameState(P) /\ Follows(s, n)
        /\ \A q \in P \ {a.target} : n.players[q].alive = s.players[q].alive
    BY <1>1, <2>1, <2>2, DamageFollows
  <2> QED BY <1>1, <2>3
<1>5. CASE a.type = "SPECIAL"
  <2> DEFINE m == With(s, p, paid)
  <2>1. n = ApplyDamage(m, p, a.target, 35)
    BY <1>5 DEF Effect
  <2>2. a.target \in P \ {p}
    BY <1>1, <1>5 DEF Permitted
  <2>3. /\ m \in GameState(P) /\ Follows(s, m)
        /\ m.players[p] = paid
        /\ \A q \in P \ {p} : m.players[q] = s.players[q]
    BY <1>1, <1>3, WithFollows
  <2> HIDE DEF m
  <2>4. /\ n \in GameState(P) /\ Follows(m, n)
        /\ \A q \in P \ {a.target} : n.players[q].alive = m.players[q].alive
    BY <1>1, <2>1, <2>2, <2>3, DamageFollows
  <2>5. \A q \in Alive(s) : m.players[q].alive
    BY <1>1, <1>3, <2>3
  <2>6. \A q \in Alive(s) : q # a.target => n.players[q].alive
    BY <1>1, <2>4, <2>5
  <2> QED BY <2>3, <2>4, <2>6, FollowsTransitive
<1>6. CASE a.type = "DEFEND"
  <2>1. n = With(s, p, Gain(Shielded(paid), 8))
    BY <1>6 DEF Effect
  <2>2. /\ Keeps(paid, Shielded(paid)) /\ Shielded(paid) \in PlayerState
        /\ Shielded(paid).alive
    BY <1>3, ShieldedKeeps DEF Keeps
  <2>3. /\ Keeps(Shielded(paid), Gain(Shielded(paid), 8))
        /\ Gain(Shielded(paid), 8).alive = Shielded(paid).alive
    BY <2>2, GainKeeps
  <2>4. Keeps(r, Gain(Shielded(paid), 8))
    <3> HIDE DEF paid, r
    <3> QED BY <1>1, <1>3, <2>2, <2>3, KeepsTransitive
  <2>5. Gain(Shielded(paid), 8).alive
    BY <2>2, <2>3
  <2> QED BY <1>1, <2>1, <2>4, <2>5, WithFollows
<1>7. CASE a.type = "HEAL"
  <2>1. n = With(s, p, Healed(paid))
    BY <1>7 DEF Effect
  <2>2. Keeps(paid, Healed(paid)) /\ Healed(paid).alive
    BY <1>3, HealedKeeps
  <2>3. Keeps(r, Healed(paid))
    <3> HIDE DEF paid, r
    <3> QED BY <1>1, <1>3, <2>2, KeepsTransitive
  <2> QED BY <1>1, <2>1, <2>2, <2>3, WithFollows
<1>8. CASE a.type = "PASS"
  <2>1. n = With(s, p, Gain(paid, 12))
    BY <1>8 DEF Effect
  <2>2. Keeps(paid, Gain(paid, 12)) /\ Gain(paid, 12).alive
    BY <1>3, GainKeeps
  <2>3. Keeps(r, Gain(paid, 12))
    <3> HIDE DEF paid, r
    <3> QED BY <1>1, <1>3, <2>2, KeepsTransitive
  <2> QED BY <1>1, <2>1, <2>2, <2>3, WithFollows
<1> QED BY <1>4, <1>5, <1>6, <1>7, <1>8 DEF WellFormed, ActionType

\* Entering an action changes its player's sequence number and the history.
LEMMA RecordedOnly ==
    ASSUME NEW P, NEW s \in GameState(P), NEW a, WellFormed(a),
           a.playerId \in P, NEW n, n = Recorded(s, a)
    PROVE  /\ n \in GameState(P)
           /\ n.phase = s.phase /\ n.turn = s.turn /\ n.round = s.round
           /\ n.current = s.current /\ n.version = s.version
           /\ n.winner = s.winner
           /\ n.processed = Remembered(s.processed, a.actionId)
           /\ n.players[a.playerId].lastProcessedSeq = a.seq
           /\ n.players[a.playerId].seatNumber
                = s.players[a.playerId].seatNumber
           /\ n.players[a.playerId].alive = s.players[a.playerId].alive
           /\ n.players[a.playerId].health = s.players[a.playerId].health
           /\ \A q \in P \ {a.playerId} : n.players[q] = s.players[q]
PROOF
<1> DEFINE p == a.playerId
           r == s.players[p]
           t == [r EXCEPT !.lastProcessedSeq = a.seq]
           ps == [s.players EXCEPT ![p] = t]
           ids == Remembered(s.processed, a.actionId)
<1>1. s.players \in [P -> PlayerState] /\ s.processed \in Seq(ActionId)
  BY DEF GameState
<1>2. t = [seatNumber |-> r.seatNumber, health |-> r.health,
           energy |-> r.energy, shield |-> r.shield, alive |-> r.alive,
           connected |-> r.connected, lastProcessedSeq |-> a.seq]
  BY <1>1 DEF PlayerState
<1>3. t \in PlayerState
  BY <1>1, <1>2 DEF PlayerState, WellFormed
<1>4. ids \in Seq(ActionId)
  BY <1>1, EngineAssumption DEF Remembered, WellFormed
<1>5. n = [phase |-> s.phase, round |-> s.round, turn |-> s.turn,
           version |-> s.version, current |-> s.current,
           winner |-> s.winner, processed |-> ids, players |-> ps]
  <2>1. With(s, p, t) = [s EXCEPT !.players = ps]
    BY DEF With
  <2>2. n = [With(s, p, t) EXCEPT !.processed = ids]
    <3> HIDE DEF ps
    <3> QED BY <2>1 DEF Recorded, GameState
  <2> HIDE DEF ps, ids
  <2> QED BY <2>1, <2>2 DEF GameState
<1>6. ps \in [P -> PlayerState] /\ ps[p] = t
      /\ \A q \in P \ {p} : ps[q] = s.players[q]
  BY <1>1, <1>3
<1>7. n.processed = Remembered(s.processed, a.actionId)
  BY <1>5
<1> HIDE DEF ps, ids
<1>8. n \in GameState(P)
  BY <1>4, <1>5, <1>6 DEF GameState
<1> HIDE DEF t
<1> QED BY <1>2, <1>5, <1>6, <1>7, <1>8

-------------------------------------------------------------------------------
(***************************************************************************)
(* Every call of the engine first changes players and counts a version     *)
(* (Progress), then perhaps ends the turn (TurnEnds).                      *)
(***************************************************************************)
Distinct(s) ==
    \A p, q \in DOMAIN s.players :
        s.players[p].seatNumber = s.players[q].seatNumber => p = q

Healthy(s) ==
    \A p \in DOMAIN s.players :
        s.players[p].alive <=> s.players[p].health > 0

Progress(s, m) ==
    /\ m.phase = s.phase /\ m.turn = s.turn /\ m.round = s.round
    /\ m.winner = s.winner
    /\ m.processed # s.processed =>
          m.players[s.current].lastProcessedSeq
              > s.players[s.current].lastProcessedSeq
    /\ m.current = s.current /\ m.version = s.version + 1
    /\ \A p \in DOMAIN s.players :
          /\ m.players[p].seatNumber = s.players[p].seatNumber
          /\ m.players[p].alive => s.players[p].alive
          /\ (s.players[p].alive <=> s.players[p].health > 0)
                => (m.players[p].alive <=> m.players[p].health > 0)
          /\ m.players[p].lastProcessedSeq # s.players[p].lastProcessedSeq
                => /\ s.current = p /\ s.players[p].alive
                   /\ m.players[p].lastProcessedSeq
                          > s.players[p].lastProcessedSeq

SameSequences(s, m) ==
    /\ m.processed = s.processed
    /\ \A p \in DOMAIN s.players :
          m.players[p].lastProcessedSeq = s.players[p].lastProcessedSeq

LEMMA FollowsProgress ==
    ASSUME NEW P, NEW s \in GameState(P), NEW e \in GameState(P),
           Follows(s, e), NEW m, m = NextVersion(e)
    PROVE  m \in GameState(P) /\ Progress(s, m) /\ SameSequences(s, m)
PROOF
<1>1. /\ m \in GameState(P) /\ m.version = e.version + 1
      /\ m.phase = e.phase /\ m.turn = e.turn /\ m.round = e.round
      /\ m.current = e.current /\ m.players = e.players
      /\ m.processed = e.processed /\ m.winner = e.winner
  BY NextVersionOnly
<1> QED BY <1>1 DEF Follows, Keeps, Progress, SameSequences, GameState

LEMMA ActionProgress ==
    ASSUME NEW P, NEW s \in GameState(P), NEW a, WellFormed(a),
           NEW expired, Legal(s, a, expired),
           NEW m, m = NextVersion(Recorded(Effect(s, a), a))
    PROVE  /\ m \in GameState(P) /\ Progress(s, m)
           /\ Alive(s) \subseteq Alive(m) \cup {a.target}
           /\ m.processed = Remembered(s.processed, a.actionId)
           /\ m.players[a.playerId].lastProcessedSeq = a.seq
PROOF
<1> DEFINE e == Effect(s, a)
           f == Recorded(e, a)
           p == a.playerId
<1>1. /\ p \in Alive(s) /\ p \in P /\ s.current = p /\ Permitted(s, a)
      /\ a.seq > s.players[p].lastProcessedSeq
  BY DEF Legal, NotDuplicate, OnTurn, Alive, GameState
<1>2. /\ e \in GameState(P) /\ Follows(s, e)
      /\ \A q \in Alive(s) : q # a.target => e.players[q].alive
  BY <1>1, EffectFollows
<1> HIDE DEF e
<1>3. /\ f \in GameState(P)
      /\ f.phase = e.phase /\ f.turn = e.turn /\ f.round = e.round
      /\ f.current = e.current /\ f.version = e.version
      /\ f.winner = e.winner
      /\ f.processed = Remembered(e.processed, a.actionId)
      /\ f.players[p].lastProcessedSeq = a.seq
      /\ f.players[p].seatNumber = e.players[p].seatNumber
      /\ f.players[p].alive = e.players[p].alive
      /\ f.players[p].health = e.players[p].health
      /\ \A q \in P \ {p} : f.players[q] = e.players[q]
  BY <1>1, <1>2, RecordedOnly
<1>4. m = NextVersion(f)
  BY DEF e
<1> HIDE DEF f
<1>5. /\ m \in GameState(P) /\ m.version = f.version + 1
      /\ m.phase = f.phase /\ m.turn = f.turn /\ m.round = f.round
      /\ m.current = f.current /\ m.players = f.players
      /\ m.winner = f.winner /\ m.processed = f.processed
  BY <1>3, <1>4, NextVersionOnly
<1>6. s.players[p].alive /\ DOMAIN s.players = P
  BY <1>1 DEF Alive, GameState
<1>7. \A q \in P :
          /\ m.players[q].seatNumber = s.players[q].seatNumber
          /\ m.players[q].alive => s.players[q].alive
          /\ (s.players[q].alive <=> s.players[q].health > 0)
                => (m.players[q].alive <=> m.players[q].health > 0)
          /\ m.players[q].lastProcessedSeq # s.players[q].lastProcessedSeq
                => q = p /\ m.players[q].lastProcessedSeq = a.seq
  <2> SUFFICES ASSUME NEW q \in P
               PROVE  /\ m.players[q].seatNumber = s.players[q].seatNumber
                      /\ m.players[q].alive => s.players[q].alive
                      /\ (s.players[q].alive <=> s.players[q].health > 0)
                            => (m.players[q].alive <=> m.players[q].health > 0)
                      /\ m.players[q].lastProcessedSeq
                                # s.players[q].lastProcessedSeq
                            => /\ q = p
                               /\ m.players[q].lastProcessedSeq = a.seq
    OBVIOUS
  <2>1. Keeps(s.players[q], e.players[q])
    BY <1>2, <1>6 DEF Follows
  <2>2. CASE q = p
    BY <1>3, <1>5, <2>1, <2>2 DEF Keeps
  <2>3. CASE q # p
    <3>1. m.players[q] = e.players[q]
      BY <1>3, <1>5, <2>3
    <3> QED BY <2>1, <3>1 DEF Keeps
  <2> QED BY <2>2, <2>3
<1>8. /\ m.phase = s.phase /\ m.turn = s.turn /\ m.round = s.round
      /\ m.current = s.current /\ m.version = s.version + 1
      /\ m.winner = s.winner
      /\ m.processed = Remembered(s.processed, a.actionId)
  BY <1>2, <1>3, <1>5 DEF Follows
<1>9. m.players[s.current].lastProcessedSeq
          > s.players[s.current].lastProcessedSeq
  BY <1>1, <1>3, <1>5
<1>10. Alive(s) \subseteq Alive(m) \cup {a.target}
  <2>1. \A q \in Alive(s) : q \in P /\ DOMAIN m.players = P
    BY <1>5 DEF Alive, GameState
  <2>2. \A q \in Alive(s) : q # a.target => m.players[q].alive
    BY <1>2, <1>3, <1>5, <2>1
  <2> QED BY <2>1, <2>2 DEF Alive
<1>11. m.players[p].lastProcessedSeq = a.seq
  BY <1>3, <1>5
<1> QED BY <1>1, <1>5, <1>6, <1>7, <1>8, <1>9, <1>10, <1>11 DEF Progress

-------------------------------------------------------------------------------
\* createInitialState gives the first turn to the lowest seat, and everybody
\* is in.
LEMMA InitialIsReady ==
    ASSUME NEW P \in SUBSET Player, P # {}, NEW f, DOMAIN f = P,
           \A p \in P : f[p] \in PlayerRow, NEW g, g = InitialState(f)
    PROVE  /\ g \in GameState(P) /\ g.phase = "ACTIVE"
           /\ g.round = 1 /\ g.turn = 1 /\ g.version = 1
           /\ g.processed = <<>> /\ g.winner = NoPlayer
           /\ g.current \in P /\ Alive(g) = P
           /\ \A q \in P :
                 /\ g.players[q].alive
                 /\ g.players[q].seatNumber = f[q].seatNumber
                 /\ g.players[q].health = f[q].health
                 /\ g.players[g.current].seatNumber <= g.players[q].seatNumber
PROOF
<1> DEFINE ps == [p \in P |-> InitialPlayer(f[p])]
           s == [phase |-> "ACTIVE", round |-> 1, turn |-> 1, version |-> 1,
                 current |-> NoPlayer, winner |-> NoPlayer,
                 processed |-> <<>>, players |-> ps]
           c == First(s, P)
<1>1. \A p \in P : /\ ps[p] \in PlayerState /\ ps[p].alive
                   /\ ps[p].health = f[p].health
                   /\ ps[p].seatNumber = f[p].seatNumber
  <2> SUFFICES ASSUME NEW p \in P
               PROVE  /\ ps[p] \in PlayerState /\ ps[p].alive
                      /\ ps[p].health = f[p].health
                      /\ ps[p].seatNumber = f[p].seatNumber
    OBVIOUS
  <2> DEFINE no == FALSE
             yes == TRUE
  <2>1. ps[p] = [seatNumber |-> f[p].seatNumber, health |-> f[p].health,
                 energy |-> f[p].energy, shield |-> no, alive |-> yes,
                 connected |-> f[p].connected,
                 lastProcessedSeq |-> f[p].lastProcessedSeq]
    BY DEF InitialPlayer
  <2>2. no \in BOOLEAN /\ yes \in BOOLEAN /\ yes
    OBVIOUS
  <2>3. f[p] \in PlayerRow
    OBVIOUS
  <2> HIDE DEF ps, no, yes
  <2> QED BY <2>1, <2>2, <2>3 DEF PlayerState, PlayerRow
<1>2. c \in P /\ \A q \in P : ps[c].seatNumber <= ps[q].seatNumber
  <2>1. \A p \in P : s.players[p].seatNumber \in Nat
    BY <1>1 DEF PlayerState
  <2>2. s.players = ps
    OBVIOUS
  <2> HIDE DEF s, ps
  <2> QED BY <2>1, <2>2, FirstIsLowest
<1>3. g = [phase |-> "ACTIVE", round |-> 1, turn |-> 1, version |-> 1,
           current |-> c, winner |-> NoPlayer, processed |-> <<>>,
           players |-> ps]
  <2>1. g = [s EXCEPT !.current = c]
    BY DEF InitialState
  <2> HIDE DEF c, ps
  <2> QED BY <2>1
<1>4. ps \in [P -> PlayerState] /\ DOMAIN ps = P
  BY <1>1
<1> HIDE DEF ps, c
<1>5. g \in GameState(P)
  BY <1>2, <1>3, <1>4 DEF GameState, Phase
<1>6. Alive(g) = P
  BY <1>1, <1>3, <1>4 DEF Alive
<1> QED BY <1>1, <1>2, <1>3, <1>4, <1>5, <1>6


-------------------------------------------------------------------------------
(***************************************************************************)
(* What the coordinator relies on, from one state it keeps to the next.    *)
(***************************************************************************)
\* A state of a game that has begun: while it goes on somebody alive holds the
\* turn and has an opponent, and the history keeps to its limit.
Begun(P, s) ==
    /\ s \in GameState(P) /\ s.phase # "LOBBY"
    /\ s.phase = "ACTIVE" => s.current \in Alive(s) /\ Several(Alive(s))
    /\ Len(s.processed) <= ACTION_HISTORY_LIMIT

\* n comes after s in one game, and has a version of its own.
Succeeds(s, n) ==
    /\ s.version < n.version
    /\ s.turn <= n.turn /\ s.round <= n.round
    /\ DOMAIN n.players = DOMAIN s.players
    /\ Alive(n) \subseteq Alive(s)
    /\ \A p \in DOMAIN s.players :
          s.players[p].lastProcessedSeq <= n.players[p].lastProcessedSeq
    /\ Ids(s) \subseteq Ids(n) \/ Full(n)
    /\ Full(s) => Full(n)

\* The history takes one action in and loses one only when it is full.
LEMMA HistoryGrows ==
    ASSUME NEW ids \in Seq(ActionId), Len(ids) <= ACTION_HISTORY_LIMIT,
           NEW id, NEW r, r = Remembered(ids, id)
    PROVE  /\ Len(r) <= ACTION_HISTORY_LIMIT
           /\ Len(ids) = ACTION_HISTORY_LIMIT => Len(r) = ACTION_HISTORY_LIMIT
           /\ \E i \in DOMAIN r : r[i] = id
           /\ \A i \in DOMAIN r :
                 r[i] = id \/ \E j \in DOMAIN ids : r[i] = ids[j]
           /\ \/ Len(r) = ACTION_HISTORY_LIMIT
              \/ \A j \in DOMAIN ids : \E i \in DOMAIN r : r[i] = ids[j]
PROOF
<1>0. ACTION_HISTORY_LIMIT \in Nat \ {0} /\ Len(ids) \in Nat
  BY EngineAssumption
<1>1. CASE Len(ids) < ACTION_HISTORY_LIMIT
  <2>1. r = Append(ids, id)
    BY <1>1 DEF Remembered
  <2>2. /\ Len(r) = Len(ids) + 1 /\ DOMAIN r = 1..(Len(ids) + 1)
        /\ \A j \in 1..Len(ids) : r[j] = ids[j]
        /\ r[Len(ids) + 1] = id /\ DOMAIN ids = 1..Len(ids)
    BY <2>1
  <2>3. Len(ids) + 1 \in DOMAIN r /\ Len(r) <= ACTION_HISTORY_LIMIT
    BY <1>0, <1>1, <2>2
  <2>4. \A i \in DOMAIN r : i # Len(ids) + 1 => i \in 1..Len(ids)
    BY <1>0, <2>2
  <2>5. \A i \in DOMAIN r : r[i] = id \/ \E j \in DOMAIN ids : r[i] = ids[j]
    BY <2>2, <2>4
  <2>6. \A j \in DOMAIN ids : j \in DOMAIN r
    BY <1>0, <2>2
  <2>7. \A j \in DOMAIN ids : \E i \in DOMAIN r : r[i] = ids[j]
    BY <2>2, <2>6
  <2>8. \E i \in DOMAIN r : r[i] = id
    BY <2>2, <2>3, Zenon
  <2>9. Len(ids) = ACTION_HISTORY_LIMIT => Len(r) = ACTION_HISTORY_LIMIT
    BY <1>0, <1>1
  <2> QED BY <2>3, <2>5, <2>7, <2>8, <2>9, Zenon
<1>2. CASE Len(ids) = ACTION_HISTORY_LIMIT
  <2>1. PICK t : t = Tail(ids)
    OBVIOUS
  <2>2. /\ t \in Seq(ActionId) /\ Len(t) = Len(ids) - 1
        /\ \A j \in 1..Len(t) : t[j] = ids[j + 1]
    BY <1>0, <1>2, <2>1
  <2>3. r = Append(t, id)
    BY <1>0, <1>2, <2>1 DEF Remembered
  <2>4. /\ Len(r) = Len(t) + 1 /\ DOMAIN r = 1..(Len(t) + 1)
        /\ \A j \in 1..Len(t) : r[j] = t[j]
        /\ r[Len(t) + 1] = id /\ DOMAIN ids = 1..Len(ids)
    BY <2>2, <2>3
  <2>5. \A i \in DOMAIN r : r[i] = id \/ \E j \in DOMAIN ids : r[i] = ids[j]
    <3> SUFFICES ASSUME NEW i \in DOMAIN r, i # Len(t) + 1
                 PROVE  \E j \in DOMAIN ids : r[i] = ids[j]
      BY <2>4
    <3>1. i \in 1..Len(t) /\ i + 1 \in DOMAIN ids
      BY <1>0, <2>2, <2>4
    <3> QED BY <2>2, <2>4, <3>1
  <2>6. Len(t) + 1 \in DOMAIN r /\ Len(r) = ACTION_HISTORY_LIMIT
    BY <1>0, <1>2, <2>2, <2>4
  <2>7. \E i \in DOMAIN r : r[i] = id
    BY <2>4, <2>6
  <2>8. Len(r) <= ACTION_HISTORY_LIMIT
    BY <1>0, <2>6
  <2> QED BY <2>5, <2>6, <2>7, <2>8, Zenon
<1> QED BY <1>0, <1>1, <1>2

\* The end of a turn, after a call has changed players and counted a version.
LEMMA TurnSucceeds ==
    ASSUME NEW P \in SUBSET Player, NEW s, Begun(P, s), s.phase = "ACTIVE",
           NEW m \in GameState(P), Progress(s, m),
           NEW n \in GameState(P),
           \/ TurnEnds(m, n)
           \/ n = m /\ m.current \in Alive(m) /\ Several(Alive(m)),
           Len(m.processed) <= ACTION_HISTORY_LIMIT,
           Ids(s) \subseteq Ids(m) \/ Full(m), Full(s) => Full(m)
    PROVE  Begun(P, n) /\ Succeeds(s, n) /\ Ids(n) = Ids(m)
           /\ n.players = m.players
PROOF
<1>1. /\ s \in GameState(P) /\ DOMAIN s.players = P /\ DOMAIN m.players = P
      /\ s.version \in Nat /\ s.turn \in Nat /\ s.round \in Nat
      /\ n.version \in Nat /\ n.turn \in Nat /\ n.round \in Nat
  BY DEF Begun, GameState
<1>2. n.players = m.players /\ n.processed = m.processed /\ Alive(n) = Alive(m)
  BY DEF TurnEnds, Alive
<1>3. m.turn <= n.turn /\ m.round <= n.round /\ m.version <= n.version
  <2>1. m.turn \in Nat /\ m.round \in Nat /\ m.version \in Nat
    BY DEF GameState
  <2>2. CASE n = m
    BY <2>1, <2>2
  <2>3. CASE TurnEnds(m, n) /\ Several(Alive(m))
    BY <1>1, <2>1, <2>3 DEF TurnEnds
  <2>4. CASE TurnEnds(m, n) /\ ~Several(Alive(m))
    <3>1. n.turn = m.turn /\ n.round = m.round /\ n.version >= m.version
      BY <2>4 DEF TurnEnds
    <3> QED BY <1>1, <2>1, <3>1
  <2> QED BY <2>2, <2>3, <2>4
<1>4. m.turn = s.turn /\ m.round = s.round /\ m.version = s.version + 1
  BY DEF Progress
<1>5. \A p \in P : s.players[p].lastProcessedSeq \in Nat
                   /\ m.players[p].lastProcessedSeq \in Nat
  BY DEF GameState, PlayerState, Begun
<1>6. \A p \in P : s.players[p].lastProcessedSeq <= m.players[p].lastProcessedSeq
  BY <1>1, <1>5 DEF Progress
<1>7. Alive(m) \subseteq Alive(s)
  BY <1>1 DEF Progress, Alive
<1>8. n.phase # "LOBBY"
      /\ (n.phase = "ACTIVE" => n.current \in Alive(n) /\ Several(Alive(n)))
  BY <1>2 DEF TurnEnds, Progress
<1>9. Ids(n) = Ids(m) /\ (Full(n) <=> Full(m))
  BY <1>2 DEF Ids, Full
<1>10. Begun(P, n)
  BY <1>2, <1>8 DEF Begun
<1>11. Succeeds(s, n)
  <2>1. s.version < n.version /\ s.turn <= n.turn /\ s.round <= n.round
    BY <1>1, <1>3, <1>4
  <2> QED BY <1>1, <1>2, <1>6, <1>7, <1>9, <2>1 DEF Succeeds
<1> QED BY <1>2, <1>9, <1>10, <1>11

\* applyAction: the action is in the history of the state it has had its effect
\* on, with its player's sequence number.
LEMMA ActionSucceeds ==
    ASSUME NEW P \in SUBSET Player, NEW s, Begun(P, s), NEW a, WellFormed(a),
           NEW expired, Legal(s, a, expired), NEW n, n = ApplyAction(s, a)
    PROVE  /\ Begun(P, n) /\ Succeeds(s, n)
           /\ a.actionId \in Ids(n) /\ Ids(n) \subseteq Ids(s) \cup {a.actionId}
           /\ a.playerId \in P
           /\ n.players[a.playerId].lastProcessedSeq = a.seq
PROOF
<1>1. PICK m : m = NextVersion(Recorded(Effect(s, a), a))
  OBVIOUS
<1>2. s \in GameState(P) /\ s.phase = "ACTIVE" /\ s.current \in P
      /\ a.playerId \in P
  BY DEF Begun, Legal, Alive, GameState
<1>3. /\ m \in GameState(P) /\ Progress(s, m)
      /\ m.processed = Remembered(s.processed, a.actionId)
      /\ m.players[a.playerId].lastProcessedSeq = a.seq
  BY <1>1, <1>2, ActionProgress
<1>4. n = EndTurn(m)
  BY <1>1 DEF ApplyAction
<1>5. n \in GameState(P) /\ TurnEnds(m, n)
  BY <1>2, <1>3, <1>4, EndTurnEnds DEF Progress
<1>6. s.processed \in Seq(ActionId) /\ Len(s.processed) <= ACTION_HISTORY_LIMIT
  BY <1>2 DEF GameState, Begun
<1>7. /\ Len(m.processed) <= ACTION_HISTORY_LIMIT
      /\ Full(s) => Full(m)
      /\ a.actionId \in Ids(m) /\ Ids(m) \subseteq Ids(s) \cup {a.actionId}
      /\ Ids(s) \subseteq Ids(m) \/ Full(m)
  BY <1>3, <1>6, HistoryGrows DEF Ids, Full
<1>8. Begun(P, n) /\ Succeeds(s, n) /\ Ids(n) = Ids(m) /\ n.players = m.players
  BY <1>2, <1>3, <1>5, <1>7, TurnSucceeds
<1> QED BY <1>2, <1>3, <1>7, <1>8

\* What the calls without an action have in common.
LEMMA QuietSucceeds ==
    ASSUME NEW P \in SUBSET Player, NEW s, Begun(P, s), s.phase = "ACTIVE",
           NEW e \in GameState(P), Follows(s, e), NEW m, m = NextVersion(e),
           NEW n \in GameState(P),
           \/ TurnEnds(m, n)
           \/ n = m /\ m.current \in Alive(m) /\ Several(Alive(m))
    PROVE  Begun(P, n) /\ Succeeds(s, n) /\ Ids(n) = Ids(s)
PROOF
<1>1. s \in GameState(P) /\ Len(s.processed) <= ACTION_HISTORY_LIMIT
  BY DEF Begun
<1>2. m \in GameState(P) /\ Progress(s, m) /\ m.processed = s.processed
  BY <1>1, FollowsProgress DEF SameSequences
<1>3. Ids(m) = Ids(s) /\ (Full(s) => Full(m))
      /\ Len(m.processed) <= ACTION_HISTORY_LIMIT
  BY <1>1, <1>2 DEF Ids, Full
<1> QED BY <1>2, <1>3, TurnSucceeds

\* processTick past the deadline.
LEMMA TickSucceeds ==
    ASSUME NEW P \in SUBSET Player, NEW s, Begun(P, s),
           NEW reached, TickDue(s, reached), NEW n, n = ProcessTick(s, reached)
    PROVE  Begun(P, n) /\ Succeeds(s, n) /\ Ids(n) = Ids(s)
PROOF
<1>1. /\ s \in GameState(P) /\ s.phase = "ACTIVE"
      /\ s.current \in Alive(s) /\ s.current \in P
      /\ s.players[s.current] \in PlayerState
  BY DEF Begun, TickDue, Alive, GameState
<1>2. PICK e : e = With(s, s.current, Gain(s.players[s.current], 8))
  OBVIOUS
<1>3. e \in GameState(P) /\ Follows(s, e)
  BY <1>1, <1>2, GainKeeps, WithFollows
<1>4. PICK m : m = NextVersion(e)
  OBVIOUS
<1>5. m \in GameState(P) /\ m.phase = "ACTIVE" /\ m.current \in P
  BY <1>1, <1>3, <1>4, NextVersionOnly DEF Follows
<1>6. n = AdvanceTurn(m)
  BY <1>1, <1>2, <1>4 DEF ProcessTick, TimeoutTurn
<1>7. n \in GameState(P) /\ TurnEnds(m, n)
  BY <1>5, <1>6, AdvanceEnds
<1> QED BY <1>1, <1>3, <1>4, <1>7, QuietSucceeds

\* markConnection of a player of the game.
LEMMA ConnectionSucceeds ==
    ASSUME NEW P \in SUBSET Player, NEW s, Begun(P, s), s.phase = "ACTIVE",
           NEW p \in P, NEW on \in BOOLEAN, NEW n, n = MarkConnection(s, p, on)
    PROVE  Begun(P, n) /\ Succeeds(s, n) /\ Ids(n) = Ids(s)
PROOF
<1>1. /\ s \in GameState(P) /\ s.players[p] \in PlayerState
      /\ DOMAIN s.players = P
      /\ s.current \in Alive(s) /\ Several(Alive(s))
  BY DEF Begun, GameState
<1>2. PICK r : r = [s.players[p] EXCEPT !.connected = on]
  OBVIOUS
<1>3. Keeps(s.players[p], r) /\ r.alive = s.players[p].alive
  BY <1>1, <1>2, ConnectedKeeps
<1>4. PICK e : e = With(s, p, r)
  OBVIOUS
<1>5. /\ e \in GameState(P) /\ Follows(s, e) /\ e.players[p] = r
      /\ \A q \in P \ {p} : e.players[q] = s.players[q]
  BY <1>1, <1>3, <1>4, WithFollows
<1>6. n = NextVersion(e)
  BY <1>1, <1>2, <1>4 DEF MarkConnection
<1>7. n \in GameState(P) /\ n.players = e.players /\ n.current = s.current
  BY <1>5, <1>6, NextVersionOnly DEF Follows
<1>8. Alive(n) = Alive(s)
  <2>1. DOMAIN n.players = P
    BY <1>7 DEF GameState
  <2>2. \A q \in P : n.players[q].alive = s.players[q].alive
    BY <1>3, <1>5, <1>7
  <2> QED BY <1>1, <2>1, <2>2 DEF Alive
<1> QED BY <1>1, <1>5, <1>6, <1>7, <1>8, QuietSucceeds

\* markLeft of a player of the game: the turn passes on if it was theirs.
LEMMA LeaveSucceeds ==
    ASSUME NEW P \in SUBSET Player, NEW s, Begun(P, s), s.phase = "ACTIVE",
           NEW p \in P, NEW n, n = MarkLeft(s, p)
    PROVE  Begun(P, n) /\ Succeeds(s, n) /\ Ids(n) = Ids(s)
PROOF
<1>1. /\ s \in GameState(P) /\ s.players[p] \in PlayerState
      /\ DOMAIN s.players = P /\ s.current \in Alive(s)
      /\ s.current \in P
  BY DEF Begun, GameState, Alive
<1>2. PICK e : e = With(s, p, Departed(s.players[p]))
  OBVIOUS
<1>3. /\ e \in GameState(P) /\ Follows(s, e)
      /\ \A q \in P \ {p} : e.players[q] = s.players[q]
  BY <1>1, <1>2, DepartedKeeps, WithFollows
<1>4. PICK m : m = NextVersion(e)
  OBVIOUS
<1>5. /\ m \in GameState(P) /\ m.phase = "ACTIVE"
      /\ m.current = s.current /\ m.players = e.players
  BY <1>3, <1>4, NextVersionOnly DEF Follows
<1>6. n = IF m.current = p THEN EndTurn(m) ELSE FinishIfNeeded(m)
  BY <1>1, <1>2, <1>4 DEF MarkLeft
<1>7. CASE m.current = p
  <2>1. n \in GameState(P) /\ TurnEnds(m, n)
    BY <1>1, <1>5, <1>6, <1>7, EndTurnEnds
  <2> QED BY <1>3, <1>4, <2>1, QuietSucceeds
<1>8. CASE m.current # p /\ Several(Alive(m))
  <2>1. n = m
    BY <1>5, <1>6, <1>8, FinishEnds
  <2>2. m.current \in Alive(m)
    BY <1>1, <1>3, <1>5, <1>8 DEF Alive, GameState
  <2> QED BY <1>3, <1>4, <1>5, <1>8, <2>1, <2>2, QuietSucceeds
<1>9. CASE m.current # p /\ ~Several(Alive(m))
  <2>1. n \in GameState(P) /\ TurnEnds(m, n)
    <3>1. m.version \in Nat
      BY <1>5 DEF GameState
    <3> QED BY <1>5, <1>6, <1>9, <3>1, FinishEnds DEF TurnEnds
  <2> QED BY <1>3, <1>4, <2>1, QuietSucceeds
<1> QED BY <1>7, <1>8, <1>9

===============================================================================
