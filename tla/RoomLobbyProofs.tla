--------------------------- MODULE RoomLobbyProofs ---------------------------
(***************************************************************************)
(* The promises of RoomLobby for any number of players, sockets, rooms and *)
(* calls, and for every size of a room.                                    *)
(***************************************************************************)
EXTENDS RoomLobby, FiniteSetTheorems, WellFoundedInduction, TLAPS

(***************************************************************************)
(* The inductive invariant: what a room's status says about its rows, what *)
(* the phases of its game say about its status, and what a call in flight  *)
(* may rely on since its query.                                            *)
(***************************************************************************)
RoomsOK ==
    \A r \in Room :
        /\ rooms[r].status = "NONE" => Members(r) = {}
        /\ rooms[r].status # "NONE" =>
              2 <= rooms[r].min /\ rooms[r].min <= rooms[r].max

GamesOK ==
    \A r \in Room :
        /\ games[r].players \subseteq Members(r)
        /\ games[r].hot \in {"ACTIVE", "FINISHED"} => games[r].latest # "LOBBY"
        /\ games[r].latest # "LOBBY" =>
              rooms[r].status \notin {"NONE", "WAITING"}

WithRoom == Pc \ {"idle", "create"}

WithMember == {"ready", "leave", "leaving", "handleLeave", "disconnect",
               "handleDisconnect", "reconnect", "handleReconnect"}

Starting == {"claim", "countdown", "started"}

CallOK(c) ==
    LET k == calls[c]
    IN  /\ k.pc \in WithRoom => k.room \in Room /\ rooms[k.room].status # "NONE"
        /\ k.pc \in WithMember => k.playerId \in Members(k.room)
        /\ k.pc \in {"create", "matched", "join"} => k.playerId \in Player
        /\ k.pc = "join" /\ k.row.status = "NONE" =>
              k.row.seat \in 1..rooms[k.room].max
        /\ k.pc = "reconnect" => k.status \in RowStatus \ {"NONE"}
        /\ k.pc \in Starting =>
              /\ k.players \subseteq Members(k.room)
              /\ Cardinality(k.players) >= rooms[k.room].min
        /\ k.pc \in {"countdown", "started"} =>
              rooms[k.room].status # "WAITING"
        /\ k.pc = "started" =>
              /\ games[k.room].latest # "LOBBY"
              /\ games[k.room].players = k.players

CallsOK == \A c \in Call : CallOK(c)

IInv ==
    /\ TypeOK /\ RoomsOK /\ SeatsAreDistinct /\ GamesOK /\ CallsOK /\ OneStarter

\* What every step keeps, and a call in flight relies on: a row stays where it
\* is, a room keeps its size and never waits again, a game keeps its players.
RoomLasts(r) ==
    /\ rooms[r].status # "NONE" =>
          /\ rooms'[r].status # "NONE"
          /\ rooms'[r].min = rooms[r].min /\ rooms'[r].max = rooms[r].max
    /\ rooms[r].status \notin {"NONE", "WAITING"} =>
          rooms'[r].status \notin {"NONE", "WAITING"}
    /\ games[r].latest # "LOBBY" =>
          /\ games'[r].latest # "LOBBY"
          /\ games'[r].players = games[r].players
    /\ \A p \in Player :
          members[r][p].status # "NONE" =>
              /\ members'[r][p].status # "NONE"
              /\ members'[r][p].seat = members[r][p].seat

Lasts == \A r \in Room : RoomLasts(r)

-------------------------------------------------------------------------------
\* nextSeat returns a free seat if there is one.
LEMMA LeastIsMember ==
    ASSUME NEW S \in SUBSET Nat, S # {}
    PROVE  Least(S) \in S
PROOF
<1> DEFINE R == OpToRel(<, Nat)
<1>1. IsWellFoundedOn(R, Nat)
  BY NatLessThanWellFounded
<1>2. \A k, l \in Nat : k < l => <<k, l>> \in R
  BY DEF OpToRel
<1>3. S \subseteq Nat /\ S # {}
  OBVIOUS
<1> HIDE DEF R
<1>4. PICK m \in S : \A n \in S : ~(<<n, m>> \in R)
  BY <1>1, <1>3, WFMin
<1>5. \A n \in S : ~(n < m)
  BY <1>2, <1>3, <1>4
<1>6. \A n \in S : m <= n
  BY <1>3, <1>5
<1> QED BY <1>6 DEF Least

\* Writing the socket changes nothing else of a row.
LEMMA BoundRow ==
    ASSUME NEW row \in Row, NEW s \in Socket \cup {NoSocket}
    PROVE  /\ Bound(row, s) \in Row
           /\ Bound(row, s).status = row.status
           /\ Bound(row, s).seat = row.seat
PROOF BY DEF Bound, Row

\* A call that has not moved may still rely on what it read.
LEMMA CallLasts ==
    ASSUME TypeOK, Lasts, NEW c \in Call, CallOK(c), calls'[c] = calls[c]
    PROVE  CallOK(c)'
PROOF
<1> DEFINE r == calls[c].room
<1>1. CASE calls[c].pc \in WithRoom
  <2>1. r \in Room /\ RoomLasts(r)
    BY <1>1 DEF CallOK, Lasts
  <2>2. Members(r) \subseteq Members(r)'
    BY <2>1 DEF RoomLasts, Members
  <2> QED BY <1>1, <2>1, <2>2 DEF CallOK, RoomLasts, WithRoom, WithMember, Starting, Pc, TypeOK, CallRecord, RoomRecord
<1>2. CASE calls[c].pc \notin WithRoom
  BY <1>2 DEF CallOK, WithRoom, WithMember, Starting, Pc
<1> QED BY <1>1, <1>2

\* The same for all of them.
LEMMA OthersLast ==
    ASSUME TypeOK, Lasts, CallsOK, NEW c \in Call,
           \A d \in Call \ {c} : calls'[d] = calls[d], CallOK(c)'
    PROVE  CallsOK'
PROOF BY CallLasts DEF CallsOK

\* No row is added and no room is opened: the seats stay as they are.
LEMMA RowsLast ==
    ASSUME TypeOK, RoomsOK, SeatsAreDistinct, Lasts,
           \A r \in Room :
               /\ Members(r)' \subseteq Members(r)
               /\ rooms[r].status = "NONE" => rooms'[r].status = "NONE"
    PROVE  RoomsOK' /\ SeatsAreDistinct'
PROOF
<1> USE DEF Lasts, RoomLasts
<1>1. \A r \in Room : \A p \in Members(r)' :
          /\ p \in Members(r) /\ rooms[r].status # "NONE"
          /\ members'[r][p].seat = members[r][p].seat
  BY DEF Members, RoomsOK
<1>2. RoomsOK'
  BY DEF RoomsOK, Members
<1>3. SeatsAreDistinct'
  BY <1>1 DEF SeatsAreDistinct
<1> QED BY <1>2, <1>3

\* No start is claimed or stored.
LEMMA NoStart ==
    ASSUME TypeOK, OneStarter, CallsOK,
           \A c \in Call : calls'[c].pc \in {"countdown", "started"}
                               => calls'[c] = calls[c],
           \A r \in Room : games[r].latest = "LOBBY"
                               => games'[r].latest = "LOBBY"
    PROVE  OneStarter'
PROOF BY DEF OneStarter, CallsOK, CallOK, WithRoom, Pc

\* A step that only moves one call, and not into a start.
LEMMA OnlyACall ==
    ASSUME IInv, UNCHANGED <<rooms, members, games>>, open' \subseteq Socket,
           NEW c \in Call, NEW k \in CallRecord,
           calls' = [calls EXCEPT ![c] = k],
           k.pc \notin {"countdown", "started"}, CallOK(c)'
    PROVE  IInv'
PROOF
<1> USE DEF IInv
<1>1. TypeOK'
  BY DEF TypeOK
<1>2. Lasts
  BY DEF Lasts, RoomLasts
<1>3. \A r \in Room : Members(r)' = Members(r)
  BY DEF Members
<1>4. RoomsOK' /\ SeatsAreDistinct'
  BY <1>2, <1>3, RowsLast
<1>5. GamesOK'
  BY <1>3 DEF GamesOK
<1>6. calls'[c] = k /\ \A d \in Call \ {c} : calls'[d] = calls[d]
  BY DEF TypeOK
<1>7. CallsOK'
  BY <1>2, <1>6, OthersLast
<1>8. OneStarter'
  BY <1>6, NoStart
<1> QED BY <1>1, <1>4, <1>5, <1>7, <1>8

\* An idle call relies on nothing.
LEMMA IdleIsOK ==
    /\ Idle \in CallRecord
    /\ \A c \in Call : calls[c] = Idle => CallOK(c)
PROOF
<1>1. Idle \in CallRecord
  BY DEF Idle, CallRecord, NoRow, Row, Pc, RowStatus
<1>2. ASSUME NEW c \in Call, calls[c] = Idle PROVE CallOK(c)
  BY <1>2 DEF CallOK, Idle, WithRoom, WithMember, Starting
<1> QED BY <1>1, <1>2

\* The same of the next state.
LEMMA IdleIsOKNext ==
    \A c \in Call : calls'[c] = Idle => CallOK(c)'
PROOF BY DEF CallOK, Idle, WithRoom, WithMember, Starting

\* A step that adds no row,
Kept ==
    /\ rooms' \in [Room -> RoomRecord]
    /\ members' \in [Room -> [Player -> Row]]
    /\ games' \in [Room -> GameRecord]
    /\ \A r \in Room :
          /\ games'[r].alive \subseteq games'[r].players
          /\ Members(r)' \subseteq Members(r)
          /\ rooms[r].status = "NONE" => rooms'[r].status = "NONE"
    /\ Lasts
    /\ GamesOK'

\* and starts no game.
NoGameStarts ==
    \A r \in Room : games[r].latest = "LOBBY" => games'[r].latest = "LOBBY"

RowsKept == Kept /\ NoGameStarts

LEMMA KeptStep ==
    ASSUME IInv, Kept, open' \subseteq Socket,
           calls' \in [Call -> CallRecord],
           \A c \in Call : calls'[c] = calls[c] \/ CallOK(c)'
    PROVE  /\ TypeOK' /\ RoomsOK' /\ SeatsAreDistinct' /\ GamesOK'
           /\ CallsOK'
PROOF
<1> USE DEF IInv
<1>1. TypeOK'
  BY DEF TypeOK, Kept
<1>2. RoomsOK' /\ SeatsAreDistinct'
  BY RowsLast DEF Kept
<1>3. CallsOK'
  <2>1. SUFFICES ASSUME NEW c \in Call PROVE CallOK(c)'
    BY DEF CallsOK
  <2>2. CASE calls'[c] = calls[c]
    BY <2>2, CallLasts DEF Kept, CallsOK
  <2> QED BY <2>2
<1> QED BY <1>1, <1>2, <1>3 DEF Kept

LEMMA RowsStep ==
    ASSUME IInv, RowsKept, open' \subseteq Socket,
           calls' \in [Call -> CallRecord],
           \A c \in Call :
               \/ calls'[c] = calls[c]
               \/ calls'[c].pc \notin {"countdown", "started"} /\ CallOK(c)'
    PROVE  IInv'
PROOF
<1>1. OneStarter'
  BY NoStart DEF RowsKept, NoGameStarts, IInv
<1> QED BY <1>1, KeptStep DEF RowsKept, IInv

\* Writing one row.  A room may be cancelled with it.
LEMMA RowWritten ==
    ASSUME IInv, NEW r \in Room, NEW p \in Members(r), NEW row \in Row,
           row.status # "NONE", row.seat = members[r][p].seat,
           members' = [members EXCEPT ![r][p] = row],
           \/ rooms' = rooms
           \/ /\ rooms' = [rooms EXCEPT ![r].status = "CANCELLED"]
              /\ rooms[r].status # "NONE",
           UNCHANGED games
    PROVE  RowsKept
PROOF
<1> USE DEF IInv, TypeOK
<1>1. members' \in [Room -> [Player -> Row]]
  BY DEF Members
<1>2. \A q \in Room : \A n \in Player :
          members'[q][n] = IF q = r /\ n = p THEN row ELSE members[q][n]
  BY DEF Members
<1>3. \A q \in Room : Members(q)' = Members(q)
  BY <1>2 DEF Members
<1>4. rooms' \in [Room -> RoomRecord]
  BY DEF RoomRecord, RoomStatus
<1>5. \A q \in Room :
          /\ rooms'[q].min = rooms[q].min /\ rooms'[q].max = rooms[q].max
          /\ rooms'[q].status \in {rooms[q].status, "CANCELLED"}
          /\ rooms[q].status = "NONE" => rooms'[q].status = "NONE"
  BY DEF RoomRecord
<1>6. Lasts
  BY <1>2, <1>5 DEF Lasts, RoomLasts
<1>7. GamesOK'
  BY <1>3, <1>5 DEF GamesOK
<1> QED BY <1>1, <1>3, <1>4, <1>5, <1>6, <1>7 DEF RowsKept, Kept, NoGameStarts

\* persistGameState, for the lobby's state or that of a game.
LEMMA Saved ==
    ASSUME IInv, NEW r \in Room, rooms[r].status # "NONE",
           NEW phase \in {"LOBBY", "ACTIVE"},
           phase = "ACTIVE" => games[r].latest # "LOBBY",
           NEW alive, alive \subseteq games[r].players,
           Save(r, phase, alive)
    PROVE  RowsKept
PROOF
<1> DEFINE over == phase = "ACTIVE" /\ Cardinality(alive) < 2
           plays(p) == phase = "ACTIVE" /\ p \in games[r].players
<1> USE DEF IInv, TypeOK
<1>1. /\ rooms' = [rooms EXCEPT ![r].status =
              IF over THEN "FINISHED" ELSE "IN_PROGRESS"]
      /\ members' = [members EXCEPT ![r] = [p \in Player |->
               IF plays(p)
               THEN [members[r][p] EXCEPT !.status =
                         IF p \in alive THEN "PLAYING" ELSE "ELIMINATED"]
               ELSE members[r][p]]]
  BY DEF Save
<1>12. games' = [games EXCEPT ![r] =
              [hot |-> IF over THEN "NONE" ELSE phase,
               latest |-> IF over THEN "FINISHED" ELSE games[r].latest,
               players |-> games[r].players, alive |-> alive]]
  BY DEF Save
<1>2. \A p \in Player : plays(p) => p \in Members(r)
  BY DEF GamesOK
<1>3. over => phase = "ACTIVE"
  OBVIOUS
<1> HIDE DEF over
<1>4. /\ rooms' \in [Room -> RoomRecord]
      /\ \A q \in Room :
            /\ rooms'[q].min = rooms[q].min /\ rooms'[q].max = rooms[q].max
            /\ q # r => rooms'[q].status = rooms[q].status
            /\ rooms'[r].status \in {"FINISHED", "IN_PROGRESS"}
  <2>1. PICK st \in {"FINISHED", "IN_PROGRESS"} :
            rooms' = [rooms EXCEPT ![r].status = st]
    BY <1>1
  <2>2. rooms[r] \in RoomRecord
    OBVIOUS
  <2>3. [rooms[r] EXCEPT !.status = st] \in RoomRecord
    BY <2>2 DEF RoomRecord, RoomStatus
  <2>4. rooms' \in [Room -> RoomRecord]
    BY <2>1, <2>3
  <2>5. rooms'[r].min = rooms[r].min /\ rooms'[r].max = rooms[r].max
        /\ rooms'[r].status = st
    BY <2>1, <2>2 DEF RoomRecord
  <2>6. \A q \in Room : q # r => rooms'[q] = rooms[q]
    BY <2>1
  <2> QED BY <2>4, <2>5, <2>6
<1>5. \A q \in Room : \A p \in Player :
          /\ members'[q][p] \in Row
          /\ members'[q][p].seat = members[q][p].seat
          /\ members'[q][p].status = "NONE" <=> members[q][p].status = "NONE"
  <2>1. SUFFICES ASSUME NEW q \in Room, NEW p \in Player
                 PROVE  /\ members'[q][p] \in Row
                        /\ members'[q][p].seat = members[q][p].seat
                        /\ members'[q][p].status = "NONE"
                               <=> members[q][p].status = "NONE"
    OBVIOUS
  <2>2. members[q][p] \in Row
    OBVIOUS
  <2>3. CASE q = r /\ plays(p)
    <3>1. PICK st \in {"PLAYING", "ELIMINATED"} :
              members'[q][p] = [members[q][p] EXCEPT !.status = st]
      BY <1>1, <2>3
    <3> HIDE DEF plays
    <3> QED BY <1>2, <2>2, <2>3, <3>1
            DEF Row, RowStatus, ActiveStatus, Members
  <2>4. CASE ~(q = r /\ plays(p))
    <3>1. members'[q][p] = members[q][p]
      BY <1>1, <2>4
    <3> QED BY <2>2, <3>1
  <2> QED BY <2>3, <2>4
<1>6. members' \in [Room -> [Player -> Row]]
  BY <1>1, <1>5
<1>7. \A q \in Room : Members(q)' = Members(q)
  BY <1>5 DEF Members
<1>8. /\ games' \in [Room -> GameRecord]
      /\ \A q \in Room : q # r => games'[q] = games[q]
      /\ games'[r].players = games[r].players
      /\ games'[r].alive = alive
      /\ games'[r].latest = IF over THEN "FINISHED" ELSE games[r].latest
      /\ games'[r].hot = IF over THEN "NONE" ELSE phase
  <2> DEFINE hot == IF over THEN "NONE" ELSE phase
             latest == IF over THEN "FINISHED" ELSE games[r].latest
  <2>1. hot \in GamePhase \cup {"NONE"} /\ latest \in GamePhase
    BY DEF GameRecord, GamePhase
  <2>2. games' = [games EXCEPT ![r] = [hot |-> hot, latest |-> latest,
                      players |-> games[r].players, alive |-> alive]]
    BY <1>12
  <2> HIDE DEF hot, latest
  <2>3. games' \in [Room -> GameRecord]
    BY <2>1, <2>2 DEF GameRecord
  <2>4. /\ \A q \in Room : q # r => games'[q] = games[q]
        /\ games'[r] = [hot |-> hot, latest |-> latest,
                        players |-> games[r].players, alive |-> alive]
    BY <2>2
  <2> QED BY <2>3, <2>4 DEF hot, latest
<1> HIDE DEF plays
<1>9. \A q \in Room : games[q].latest = "LOBBY" <=> games'[q].latest = "LOBBY"
  BY <1>3, <1>8
<1>10. GamesOK'
  BY <1>3, <1>4, <1>7, <1>8, <1>9 DEF GamesOK
<1>11. Lasts
  BY <1>4, <1>5, <1>8, <1>9 DEF Lasts, RoomLasts
<1> QED BY <1>4, <1>6, <1>7, <1>8, <1>9, <1>10, <1>11 DEF RowsKept, Kept, NoGameStarts

\* getState only brings a state to memory.
LEMMA Loaded ==
    ASSUME IInv, NEW r \in Room, Load(r)
    PROVE  RowsKept
PROOF
<1> USE DEF IInv, TypeOK
<1>1. /\ games' \in [Room -> GameRecord]
      /\ \A q \in Room : /\ games'[q].players = games[q].players
                         /\ games'[q].alive = games[q].alive
                         /\ games'[q].latest = games[q].latest
                         /\ q # r => games'[q].hot = games[q].hot
      /\ games'[r].hot = Phase(r)
  BY DEF Load, Phase, GameRecord, GamePhase
<1>2. UNCHANGED <<rooms, members>> /\ \A q \in Room : Members(q)' = Members(q)
  BY DEF Load, Members
<1>3. GamesOK'
  BY <1>1, <1>2 DEF GamesOK, Phase
<1>4. Lasts
  BY <1>1, <1>2 DEF Lasts, RoomLasts
<1> QED BY <1>1, <1>2, <1>3, <1>4 DEF RowsKept, Kept, NoGameStarts

LEMMA Unchanged ==
    ASSUME IInv, UNCHANGED <<rooms, members, games>>
    PROVE  RowsKept
PROOF BY DEF IInv, TypeOK, RowsKept, Kept, NoGameStarts, Lasts, RoomLasts,
             GamesOK, Members

-------------------------------------------------------------------------------
\* A call is over, or rejected.
LEMMA EndStep ==
    ASSUME IInv, NEW c \in Call, End(c),
           UNCHANGED <<rooms, members, games, open>>
    PROVE  IInv'
PROOF
<1>1. CallOK(c)'
  BY IdleIsOKNext DEF End, IInv, TypeOK
<1> QED BY <1>1, IdleIsOK, OnlyACall DEF End, IInv, TypeOK, Idle

LEMMA ReadForJoinStep ==
    ASSUME IInv, NEW c \in Call, NEW p \in Player, NEW r \in Room,
           NEW s \in Socket \cup {NoSocket}, ReadForJoin(c, p, r, s)
    PROVE  IInv'
PROOF
<1> USE DEF IInv
<1> DEFINE mine == members[r][p]
           row == IF p \in Active(r) THEN mine
                  ELSE [NoRow EXCEPT !.seat = Least(FreeSeats(r))]
           k == [Idle EXCEPT !.pc = "join", !.playerId = p, !.room = r,
                             !.socket = s, !.row = row]
<1>1. CASE End(c)
  BY <1>1, EndStep DEF ReadForJoin
<1>2. CASE /\ calls' = [calls EXCEPT ![c] = k]
           /\ rooms[r].status \in {"WAITING", "STARTING"}
           /\ p \in Active(r) \/ FreeSeats(r) # {}
  <2>1. mine \in Row /\ (p \in Active(r) => mine.status # "NONE")
    BY DEF TypeOK, Active, ActiveStatus
  <2>2. rooms[r].max \in Nat /\ FreeSeats(r) \subseteq 1..rooms[r].max
    BY DEF TypeOK, RoomRecord, FreeSeats
  <2>3. p \notin Active(r) => Least(FreeSeats(r)) \in 1..rooms[r].max
    BY <1>2, <2>2, LeastIsMember
  <2>4. /\ row \in Row
        /\ row.status = "NONE" => row.seat \in 1..rooms[r].max
    <3>1. CASE p \in Active(r)
      BY <2>1, <3>1
    <3>2. CASE p \notin Active(r)
      <4>1. row = [NoRow EXCEPT !.seat = Least(FreeSeats(r))]
        BY <3>2
      <4>2. Least(FreeSeats(r)) \in 1..rooms[r].max
        BY <2>3, <3>2
      <4> HIDE DEF row, mine
      <4>3. PICK seat \in Nat : seat = Least(FreeSeats(r))
        BY <2>2, <4>2
      <4>4. row \in Row /\ row.seat = seat
        BY <4>1, <4>3 DEF Row, NoRow, RowStatus
      <4> QED BY <4>2, <4>3, <4>4
    <3> QED BY <3>1, <3>2
  <2> HIDE DEF row
  <2>5. /\ k \in CallRecord
        /\ k.pc = "join" /\ k.room = r /\ k.playerId = p /\ k.row = row
    BY <2>4, IdleIsOK DEF CallRecord, Pc
  <2>6. calls'[c] = k
    BY <1>2 DEF TypeOK
  <2>7. CallOK(c)'
    <3> HIDE DEF k
    <3> QED BY <1>2, <2>4, <2>5, <2>6
            DEF ReadForJoin, CallOK, WithRoom, WithMember, Starting, Pc
  <2> HIDE DEF k
  <2> QED BY <1>2, <2>5, <2>7, OnlyACall DEF ReadForJoin, TypeOK
<1>3. End(c) \/ /\ calls' = [calls EXCEPT ![c] = k]
                /\ rooms[r].status \in {"WAITING", "STARTING"}
                /\ p \in Active(r) \/ FreeSeats(r) # {}
  BY DEF ReadForJoin
<1> QED BY <1>1, <1>2, <1>3

LEMMA FindMatchStep ==
    ASSUME IInv, NEW c \in Call, NEW p \in Player,
           NEW s \in Socket \cup {NoSocket}, NEW hi \in Sizes,
           FindMatch(c, p, s, hi)
    PROVE  IInv'
PROOF
<1> USE DEF IInv
<1> DEFINE vacant == {r \in Page(hi) : Cardinality(Active(r)) < rooms[r].max}
           k == [Idle EXCEPT !.playerId = p, !.socket = s]
<1>1. /\ k \in CallRecord /\ k.playerId = p
      /\ k.row = NoRow /\ NoRow \in Row /\ hi \in Nat
  BY IdleIsOK, LobbyAssumption DEF Idle, CallRecord, NoRow, Row, RowStatus
<1>2. vacant \subseteq {r \in Room : rooms[r].status # "NONE"}
  BY DEF Page
<1> DEFINE new == [k EXCEPT !.pc = "create", !.row.seat = hi]
           old == [k EXCEPT !.pc = "matched", !.room = Least(vacant)]
<1>3. CASE vacant = {} /\ calls' = [calls EXCEPT ![c] = new]
  <2>1. new \in CallRecord /\ new.pc = "create" /\ new.playerId = p
    <3> HIDE DEF k
    <3> QED BY <1>1 DEF CallRecord, Pc, Row
  <2> HIDE DEF new, vacant, k
  <2>2. calls'[c] = new
    BY <1>3 DEF TypeOK
  <2>3. CallOK(c)'
    BY <2>1, <2>2 DEF CallOK, WithRoom, WithMember, Starting
  <2> QED BY <1>3, <2>1, <2>3, OnlyACall DEF FindMatch, TypeOK
<1>4. CASE vacant # {} /\ calls' = [calls EXCEPT ![c] = old]
  <2>1. Least(vacant) \in vacant
    BY <1>2, <1>4, LeastIsMember, LobbyAssumption
  <2>2. /\ old \in CallRecord /\ old.pc = "matched" /\ old.playerId = p
        /\ old.room \in Room /\ rooms[old.room].status # "NONE"
    <3> HIDE DEF k, vacant
    <3> QED BY <1>1, <1>2, <2>1 DEF CallRecord, Pc
  <2> HIDE DEF old, vacant, k
  <2>3. calls'[c] = old
    BY <1>4 DEF TypeOK
  <2>4. CallOK(c)'
    BY <2>2, <2>3 DEF FindMatch, CallOK, WithRoom, WithMember, Starting
  <2> QED BY <1>4, <2>2, <2>4, OnlyACall DEF FindMatch, TypeOK
<1> QED BY <1>3, <1>4 DEF FindMatch, Begin

\* createRoom's transaction: the room is new, its owner alone in it.
LEMMA InsertStep ==
    ASSUME IInv, NEW p \in Player, NEW s \in Socket \cup {NoSocket},
           NEW room \in RoomRecord, room.status = "WAITING", room.min >= 2,
           Insert(p, s, room),
           \/ UNCHANGED calls
           \/ \E c \in Call : End(c)
    PROVE  IInv'
PROOF
<1> USE DEF IInv
<1> DEFINE row == Bound([NoRow EXCEPT !.status = "JOINED", !.seat = 1], s)
<1>1. /\ row \in Row /\ row.status = "JOINED" /\ row.seat = 1
  <2>1. PICK n : n = [NoRow EXCEPT !.status = "JOINED", !.seat = 1]
    OBVIOUS
  <2>2. n \in Row /\ n.status = "JOINED" /\ n.seat = 1
    BY <2>1 DEF NoRow, Row, RowStatus, ActiveStatus
  <2> QED BY <2>1, <2>2, BoundRow
<1>2. PICK r \in Room :
          /\ \A q \in Room : rooms[q].status = "NONE" <=> q >= r
          /\ rooms' = [rooms EXCEPT ![r] = room]
          /\ members' = [members EXCEPT ![r][p] = row]
  BY DEF Insert
<1> HIDE DEF row
<1>3. /\ rooms[r].status = "NONE" /\ Members(r) = {}
      /\ games[r].latest = "LOBBY"
  BY <1>2, LobbyAssumption DEF RoomsOK, GamesOK
<1>4. room.min \in Nat /\ room.max \in Nat /\ room.min <= room.max
      /\ 2 <= room.min
  BY DEF RoomRecord, Insert
<1>5. /\ rooms' \in [Room -> RoomRecord] /\ rooms'[r] = room
      /\ \A q \in Room : q # r => rooms'[q] = rooms[q]
  BY <1>2 DEF TypeOK
<1>6. /\ members' \in [Room -> [Player -> Row]] /\ members'[r][p] = row
      /\ \A q \in Room, n \in Player :
            ~(q = r /\ n = p) => members'[q][n] = members[q][n]
  BY <1>1, <1>2 DEF TypeOK
<1>7. /\ Members(r)' = {p}
      /\ \A q \in Room : q # r => Members(q)' = Members(q)
  BY <1>1, <1>3, <1>6 DEF Members
<1>8. UNCHANGED <<games, open>>
  BY DEF Insert
<1>9. calls' \in [Call -> CallRecord]
      /\ \A c \in Call : calls'[c] = calls[c] \/ calls'[c] = Idle
  BY IdleIsOK DEF TypeOK, End
<1>10. TypeOK'
  BY <1>5, <1>6, <1>8, <1>9 DEF TypeOK
<1>11. RoomsOK'
  BY <1>4, <1>5, <1>7 DEF RoomsOK
<1>12. SeatsAreDistinct'
  <2>1. SUFFICES ASSUME NEW q \in Room, NEW m \in Members(q)',
                        NEW n \in Members(q)'
                 PROVE  /\ members'[q][m].seat \in 1..rooms'[q].max
                        /\ members'[q][m].seat = members'[q][n].seat => m = n
    BY DEF SeatsAreDistinct
  <2>2. CASE q = r
    BY <1>1, <1>4, <1>5, <1>6, <1>7, <2>2
  <2>3. CASE q # r
    BY <1>5, <1>6, <1>7, <2>3 DEF SeatsAreDistinct, Members
  <2> QED BY <2>2, <2>3
<1>13. GamesOK'
  BY <1>3, <1>5, <1>7, <1>8 DEF GamesOK
<1>14. Lasts
  <2>1. \A m \in Player : members[r][m].status = "NONE"
    BY <1>3 DEF Members
  <2> QED BY <1>3, <1>5, <1>6, <1>8, <2>1 DEF Lasts, RoomLasts
<1>15. CallsOK'
  BY <1>9, <1>14, CallLasts, IdleIsOKNext DEF CallsOK
<1>16. OneStarter'
  <2>1. \A c \in Call : calls'[c].pc \in {"countdown", "started"}
                            => calls'[c] = calls[c]
    BY <1>9 DEF Idle
  <2> QED BY <1>8, <2>1, NoStart
<1> QED BY <1>10, <1>11, <1>12, <1>13, <1>15, <1>16

\* The size the server allows is at least two.
LEMMA NewRoomIsOK ==
    ASSUME NEW p \in Player, NEW lo \in Nat, NEW hi \in Nat,
           NEW visibility \in {"PUBLIC", "PRIVATE"}
    PROVE  /\ NewRoom(p, lo, hi, visibility) \in RoomRecord
           /\ NewRoom(p, lo, hi, visibility).status = "WAITING"
           /\ NewRoom(p, lo, hi, visibility).min >= 2
PROOF
<1>1. PICK m \in Nat :
          /\ m = IF lo > MIN_ROOM_PLAYERS THEN lo ELSE MIN_ROOM_PLAYERS
          /\ m >= 2
  BY LobbyAssumption
<1>2. PICK n \in Nat :
          n = IF hi < MAX_ROOM_PLAYERS THEN hi ELSE MAX_ROOM_PLAYERS
  BY LobbyAssumption
<1>3. NewRoom(p, lo, hi, visibility) =
          [status |-> "WAITING", owner |-> p, visibility |-> visibility,
           min |-> m, max |-> n]
  BY <1>1, <1>2 DEF NewRoom
<1> QED BY <1>1, <1>2, <1>3 DEF RoomRecord, RoomStatus

LEMMA CreateRoomStep ==
    ASSUME IInv, NEW p \in Player, NEW s \in Socket \cup {NoSocket},
           NEW lo \in Sizes, NEW hi \in Sizes, NEW visibility \in Visibility,
           CreateRoom(p, s, lo, hi, visibility)
    PROVE  IInv'
PROOF
<1>1. lo \in Nat /\ hi \in Nat /\ visibility \in {"PUBLIC", "PRIVATE"}
  BY LobbyAssumption
<1> QED BY <1>1, NewRoomIsOK, InsertStep DEF CreateRoom

LEMMA CreateMatchStep ==
    ASSUME IInv, NEW c \in Call, CreateMatch(c)
    PROVE  IInv'
PROOF
<1> DEFINE k == calls[c]
<1>1. /\ k.playerId \in Player /\ k.socket \in Socket \cup {NoSocket}
      /\ k.row.seat \in Nat
  BY DEF CreateMatch, IInv, TypeOK, CallRecord, Row, CallsOK, CallOK
<1>2. MIN_ROOM_PLAYERS \in Nat
  BY LobbyAssumption
<1> QED BY <1>1, <1>2, NewRoomIsOK, InsertStep DEF CreateMatch

\* joinRoom's commit: a new member takes the seat it read, if nobody has it.
LEMMA JoinStep ==
    ASSUME IInv, NEW c \in Call, Join(c)
    PROVE  IInv'
PROOF
<1> USE DEF IInv
<1> DEFINE k == calls[c]
<1>0. PICK r \in Room, p \in Player : r = k.room /\ p = k.playerId
  BY DEF Join, TypeOK, CallsOK, CallOK, CallRecord, WithRoom, Pc
<1> DEFINE row == Bound([k.row EXCEPT !.status = Lobbied(k.row.ready)],
                        k.socket)
           kept(d) == ~(calls[d].pc = "join" /\ calls[d].room = r)
<1>1. /\ rooms[r].status # "NONE"
      /\ k.row \in Row
      /\ k.row.status = "NONE" => k.row.seat \in 1..rooms[r].max
  BY <1>0 DEF Join, TypeOK, CallsOK, CallOK, CallRecord, WithRoom, Pc
<1>2. row \in Row /\ row.status # "NONE" /\ row.seat = k.row.seat
  <2>1. PICK st \in {"READY", "JOINED"} : st = Lobbied(k.row.ready)
    BY DEF Lobbied
  <2>2. PICK n : n = [k.row EXCEPT !.status = st]
    OBVIOUS
  <2>3. n \in Row /\ n.status = st /\ n.seat = k.row.seat
    BY <1>1, <2>2 DEF Row, RowStatus, ActiveStatus
  <2>4. k.socket \in Socket \cup {NoSocket}
    BY DEF TypeOK, CallRecord
  <2> QED BY <2>1, <2>2, <2>3, <2>4, BoundRow
<1>3. CASE End(c) /\ UNCHANGED members
  BY <1>3, EndStep DEF Join
<1>4. CASE /\ members' = [members EXCEPT ![r][p] = row]
           /\ calls' = [d \in Call |-> IF kept(d) THEN calls[d] ELSE Idle]
           /\ IF k.row.status = "NONE" THEN Unique(r, p, k.row.seat)
              ELSE members[r][p] = k.row
  <2>1. UNCHANGED <<rooms, games, open>>
    BY DEF Join
  <2>2. /\ calls' \in [Call -> CallRecord]
        /\ \A d \in Call : calls'[d] = calls[d] \/ calls'[d] = Idle
    BY <1>4, IdleIsOK DEF TypeOK
  <2>3. CASE k.row.status # "NONE"
    <3>1. p \in Members(r) /\ row.seat = members[r][p].seat
      BY <1>1, <1>2, <1>4, <2>3 DEF Members
    <3> HIDE DEF row
    <3>2. RowsKept
      BY <1>1, <1>2, <1>4, <2>1, <3>1, RowWritten
    <3> QED BY <2>1, <2>2, <3>2, RowsStep, IdleIsOKNext DEF Idle, TypeOK
  <2>4. CASE k.row.status = "NONE"
    <3>1. /\ p \notin Members(r) /\ row.seat \in 1..rooms[r].max
          /\ \A q \in Members(r) : members[r][q].seat # row.seat
      BY <1>1, <1>2, <1>4, <2>4 DEF Unique
    <3> HIDE DEF row, kept
    <3>2. /\ members' \in [Room -> [Player -> Row]] /\ members'[r][p] = row
          /\ \A q \in Room, n \in Player :
                ~(q = r /\ n = p) => members'[q][n] = members[q][n]
      BY <1>1, <1>2, <1>4 DEF TypeOK
    <3>3. /\ Members(r)' = Members(r) \cup {p}
          /\ \A q \in Room : q # r => Members(q)' = Members(q)
      BY <1>1, <1>2, <3>2 DEF Members
    <3>4. TypeOK'
      BY <2>1, <2>2, <3>2 DEF TypeOK
    <3>5. RoomsOK'
      BY <1>1, <2>1, <3>3 DEF RoomsOK
    <3>6. SeatsAreDistinct'
      <4>1. SUFFICES ASSUME NEW q \in Room, NEW m \in Members(q)',
                            NEW n \in Members(q)'
                     PROVE  /\ members'[q][m].seat \in 1..rooms'[q].max
                            /\ members'[q][m].seat = members'[q][n].seat
                                   => m = n
        BY DEF SeatsAreDistinct
      <4>2. CASE q = r
        <5>1. \A x \in Members(r) : members'[r][x].seat = members[r][x].seat
          BY <1>1, <3>1, <3>2 DEF Members
        <5>2. \A x \in Members(r) :
                  /\ members[r][x].seat \in 1..rooms[r].max
                  /\ \A y \in Members(r) :
                        members[r][x].seat = members[r][y].seat => x = y
          BY <1>1 DEF SeatsAreDistinct
        <5> QED BY <2>1, <3>1, <3>2, <3>3, <4>2, <5>1, <5>2
      <4>3. CASE q # r
        BY <2>1, <3>2, <3>3, <4>3 DEF SeatsAreDistinct, Members
      <4> QED BY <4>2, <4>3
    <3>7. GamesOK'
      BY <2>1, <3>3 DEF GamesOK
    <3>8. Lasts
      <4>1. members[r][p].status = "NONE"
        BY <1>1, <3>1 DEF Members
      <4> QED BY <2>1, <3>2, <4>1 DEF Lasts, RoomLasts
    <3>9. CallsOK'
      BY <2>2, <3>8, CallLasts, IdleIsOKNext DEF CallsOK
    <3>10. OneStarter'
      <4>1. \A d \in Call : calls'[d].pc \in {"countdown", "started"}
                                => calls'[d] = calls[d]
        BY <2>2 DEF Idle
      <4> QED BY <2>1, <4>1, NoStart
    <3> QED BY <3>4, <3>5, <3>6, <3>7, <3>9, <3>10
  <2> QED BY <2>3, <2>4
<1> QED BY <1>0, <1>3, <1>4 DEF Join

\* A call begins with a query about a member.
LEMMA BeginStep ==
    ASSUME IInv, NEW c \in Call, NEW k \in CallRecord, Begin(c, k),
           UNCHANGED <<rooms, members, games>>, open' \subseteq Socket,
           k.pc \in {"ready", "leave", "disconnect", "reconnect"},
           k.pc = "reconnect" => k.status \in RowStatus \ {"NONE"},
           NEW r \in Room, k.room = r, NEW p \in Members(r), k.playerId = p
    PROVE  IInv'
PROOF
<1> USE DEF IInv
<1>1. rooms[r].status # "NONE"
  BY DEF RoomsOK
<1>2. calls'[c] = k
  BY DEF Begin, TypeOK
<1>3. p \in Members(r)'
  BY DEF Members
<1>4. CallOK(c)'
  BY <1>1, <1>2, <1>3 DEF CallOK, WithRoom, WithMember, Starting, Pc
<1> QED BY <1>4, OnlyACall DEF Begin

LEMMA ReadForReadyStep ==
    ASSUME IInv, NEW c \in Call, NEW p \in Player, NEW r \in Room,
           NEW isReady \in BOOLEAN, ReadForReady(c, p, r, isReady)
    PROVE  IInv'
PROOF
<1>1. PICK k : k = [Idle EXCEPT !.pc = "ready", !.playerId = p, !.room = r,
                                !.row.ready = isReady]
  OBVIOUS
<1>2. NoRow \in Row /\ Idle.row = NoRow
  BY DEF NoRow, Row, RowStatus, Idle
<1>3. /\ k \in CallRecord /\ k.pc = "ready"
      /\ k.playerId = p /\ k.room = r
  BY <1>1, <1>2, IdleIsOK DEF CallRecord, Pc, Row
<1> QED BY <1>1, <1>3, BeginStep DEF ReadForReady, IInv, TypeOK

LEMMA ReadForLeaveStep ==
    ASSUME IInv, NEW c \in Call, NEW p \in Player, NEW r \in Room,
           ReadForLeave(c, p, r)
    PROVE  IInv'
PROOF
<1>1. PICK k : k = [Idle EXCEPT !.pc = "leave", !.playerId = p, !.room = r,
                                !.status = rooms[r].status]
  OBVIOUS
<1>2. rooms[r].status \in RoomStatus
  BY DEF IInv, TypeOK, RoomRecord
<1>3. /\ k \in CallRecord /\ k.pc = "leave"
      /\ k.playerId = p /\ k.room = r
  BY <1>1, <1>2, IdleIsOK DEF CallRecord, Pc
<1> QED BY <1>1, <1>3, BeginStep DEF ReadForLeave, IInv, TypeOK

LEMMA CloseSocketStep ==
    ASSUME IInv, NEW c \in Call, NEW s \in Socket, CloseSocket(c, s)
    PROVE  IInv'
PROOF
<1> USE DEF IInv
<1>1. open' \subseteq Socket /\ UNCHANGED <<rooms, members, games>>
  BY DEF CloseSocket, TypeOK
<1>2. CASE UNCHANGED calls
  <2>1. RowsKept
    BY <1>1, Unchanged
  <2>2. calls' \in [Call -> CallRecord] /\ \A d \in Call : calls'[d] = calls[d]
    BY <1>2 DEF TypeOK
  <2> QED BY <1>1, <2>1, <2>2, RowsStep
<1>3. CASE Seated(s) # {}
  <2>1. PICK m \in Seated(s) :
            Begin(c, [Idle EXCEPT !.pc = "disconnect", !.room = m[1],
                                  !.playerId = m[2], !.socket = s])
    BY <1>3 DEF CloseSocket
  <2>2. PICK r \in Room, p \in Player : m = <<r, p>>
    BY DEF Seated
  <2>3. p \in Members(r)
    BY <2>2 DEF Seated, Members
  <2>4. PICK k : k = [Idle EXCEPT !.pc = "disconnect", !.room = r,
                                  !.playerId = p, !.socket = s]
    OBVIOUS
  <2>5. /\ k \in CallRecord /\ k.pc = "disconnect"
        /\ k.playerId = p /\ k.room = r
    BY <2>4, IdleIsOK DEF CallRecord, Pc
  <2>6. Begin(c, k)
    BY <2>1, <2>2, <2>4
  <2> QED BY <1>1, <2>3, <2>5, <2>6, BeginStep
<1> QED BY <1>2, <1>3 DEF CloseSocket

LEMMA ReadForReconnectStep ==
    ASSUME IInv, NEW c \in Call, NEW p \in Player, NEW r \in Room,
           NEW s \in Socket \cup {NoSocket}, ReadForReconnect(c, p, r, s)
    PROVE  IInv'
PROOF
<1> DEFINE status == IF rooms[r].status = "IN_PROGRESS" THEN "PLAYING"
                     ELSE Lobbied(members[r][p].ready)
<1>1. status \in {"PLAYING", "READY", "JOINED"}
  BY DEF Lobbied
<1>2. Begin(c, [Idle EXCEPT !.pc = "reconnect", !.playerId = p, !.room = r,
                            !.socket = s, !.status = status])
  BY DEF ReadForReconnect
<1> HIDE DEF status
<1>3. PICK k : k = [Idle EXCEPT !.pc = "reconnect", !.playerId = p,
                        !.room = r, !.socket = s, !.status = status]
  OBVIOUS
<1>4. /\ k \in CallRecord /\ k.pc = "reconnect" /\ k.status = status
      /\ k.playerId = p /\ k.room = r
  BY <1>1, <1>3, IdleIsOK DEF CallRecord, Pc, RowStatus, ActiveStatus
<1>5. /\ Begin(c, k) /\ UNCHANGED <<rooms, members, games>>
      /\ open' \subseteq Socket /\ p \in Members(r)
  BY <1>2, <1>3 DEF ReadForReconnect, IInv, TypeOK
<1> QED BY <1>1, <1>4, <1>5, BeginStep DEF RowStatus, ActiveStatus

\* A call goes on after writing the row of its member.
LEMMA WriteStep ==
    ASSUME IInv, NEW c \in Call, calls[c].pc \in WithMember,
           NEW next \in {"idle", "handleLeave", "handleDisconnect",
                         "handleReconnect"},
           IF next = "idle" THEN End(c) ELSE Goto(c, next),
           NEW row \in Row, row.status # "NONE",
           row.seat = members[calls[c].room][calls[c].playerId].seat,
           members' = [members EXCEPT ![calls[c].room][calls[c].playerId] = row],
           \/ rooms' = rooms
           \/ rooms' = [rooms EXCEPT ![calls[c].room].status = "CANCELLED"],
           UNCHANGED <<games, open>>
    PROVE  IInv'
PROOF
<1> USE DEF IInv
<1>1. PICK r \in Room, p \in Player :
          /\ r = calls[c].room /\ p = calls[c].playerId
          /\ p \in Members(r) /\ rooms[r].status # "NONE"
  BY DEF CallsOK, CallOK, WithRoom, WithMember, Pc, Members
<1>2. RowsKept
  BY <1>1, RowWritten
<1>3. CASE next = "idle"
  <2>1. /\ calls' \in [Call -> CallRecord]
        /\ \A d \in Call : calls'[d] = calls[d] \/ calls'[d] = Idle
    BY <1>3, IdleIsOK DEF End, TypeOK
  <2>2. Idle.pc \notin {"countdown", "started"}
    BY DEF Idle
  <2> QED BY <1>2, <2>1, <2>2, IdleIsOKNext, RowsStep DEF TypeOK
<1>4. CASE next # "idle"
  <2>1. /\ calls' \in [Call -> CallRecord]
        /\ calls'[c].pc = next /\ calls'[c].room = r /\ calls'[c].playerId = p
        /\ \A d \in Call \ {c} : calls'[d] = calls[d]
    <3>1. PICK k : k = [calls[c] EXCEPT !.pc = next]
      OBVIOUS
    <3>2. calls[c] \in CallRecord
      BY DEF TypeOK
    <3>4. k \in CallRecord
      BY <3>1, <3>2 DEF CallRecord, Pc
    <3>5. k.pc = next /\ k.room = r /\ k.playerId = p
      BY <1>1, <3>1, <3>2 DEF CallRecord
    <3>3. calls' = [calls EXCEPT ![c] = k]
      BY <1>4, <3>1 DEF Goto
    <3> QED BY <3>3, <3>4, <3>5 DEF TypeOK
  <2>2. rooms'[r].status # "NONE" /\ p \in Members(r)'
    BY <1>1, <1>2 DEF RowsKept, Kept, NoGameStarts, Lasts, RoomLasts, Members
  <2>3. CallOK(c)'
    BY <1>4, <2>1, <2>2 DEF CallOK, WithRoom, WithMember, Starting, Pc
  <2> QED BY <1>2, <1>4, <2>1, <2>3, RowsStep DEF TypeOK
<1> QED BY <1>3, <1>4

\* The row such a call is about.
LEMMA RowOfCall ==
    ASSUME IInv, NEW c \in Call, calls[c].pc \in WithMember
    PROVE  members[calls[c].room][calls[c].playerId] \in Row
PROOF BY DEF IInv, TypeOK, CallsOK, CallOK, WithRoom, WithMember, Pc, Members

LEMMA SetReadyStep ==
    ASSUME IInv, NEW c \in Call, SetReady(c)
    PROVE  IInv'
PROOF
<1> DEFINE k == calls[c]
           old == members[k.room][k.playerId]
<1>1. old \in Row /\ k.pc \in WithMember /\ k.row.ready \in BOOLEAN
  BY RowOfCall DEF SetReady, WithMember, IInv, TypeOK, CallRecord, Row
<1>2. PICK st \in {"READY", "JOINED"} : st = Lobbied(k.row.ready)
  BY DEF Lobbied
<1>3. PICK row : row = [old EXCEPT !.ready = k.row.ready, !.status = st]
  OBVIOUS
<1>4. row \in Row /\ row.status # "NONE" /\ row.seat = old.seat
  BY <1>1, <1>3 DEF Row, RowStatus, ActiveStatus
<1>5. members' = [members EXCEPT ![k.room][k.playerId] = row]
  BY <1>2, <1>3 DEF SetReady
<1> HIDE DEF k
<1> QED BY <1>1, <1>4, <1>5, WriteStep DEF SetReady, k

LEMMA LeaveRoomStep ==
    ASSUME IInv, NEW c \in Call, LeaveRoom(c)
    PROVE  IInv'
PROOF
<1> DEFINE k == calls[c]
           old == members[k.room][k.playerId]
<1>1. old \in Row /\ k.pc \in WithMember
  BY RowOfCall DEF LeaveRoom, WithMember
<1>2. PICK row : row = [old EXCEPT !.status = "LEFT", !.ready = FALSE,
                                   !.socket = NoSocket]
  OBVIOUS
<1>3. row \in Row /\ row.status # "NONE" /\ row.seat = old.seat
  BY <1>1, <1>2 DEF Row, RowStatus
<1>4. members' = [members EXCEPT ![k.room][k.playerId] = row]
  BY <1>2 DEF LeaveRoom
<1> QED BY <1>1, <1>3, <1>4, WriteStep DEF LeaveRoom

LEMMA MarkSocketDisconnectedStep ==
    ASSUME IInv, NEW c \in Call, MarkSocketDisconnected(c)
    PROVE  IInv'
PROOF
<1> DEFINE k == calls[c]
           old == members[k.room][k.playerId]
<1>1. old \in Row /\ k.pc \in WithMember
  BY RowOfCall DEF MarkSocketDisconnected, WithMember
<1>2. PICK row : row = [old EXCEPT !.status = "DISCONNECTED",
                                   !.socket = NoSocket]
  OBVIOUS
<1>3. row \in Row /\ row.status # "NONE" /\ row.seat = old.seat
  BY <1>1, <1>2 DEF Row, RowStatus, ActiveStatus
<1>4. members' = [members EXCEPT ![k.room][k.playerId] = row]
  BY <1>2 DEF MarkSocketDisconnected
<1> QED BY <1>1, <1>3, <1>4, WriteStep DEF MarkSocketDisconnected

LEMMA ReconnectPlayerStep ==
    ASSUME IInv, NEW c \in Call, ReconnectPlayer(c)
    PROVE  IInv'
PROOF
<1> DEFINE k == calls[c]
           old == members[k.room][k.playerId]
<1>1. old \in Row /\ k.pc \in WithMember
  BY RowOfCall DEF ReconnectPlayer, WithMember
<1>2. k.status \in RowStatus \ {"NONE"} /\ k.socket \in Socket \cup {NoSocket}
  BY DEF ReconnectPlayer, IInv, TypeOK, CallRecord, CallsOK, CallOK
<1>3. PICK row : row = [old EXCEPT !.status = k.status, !.socket = k.socket]
  OBVIOUS
<1>4. row \in Row /\ row.status # "NONE" /\ row.seat = old.seat
  BY <1>1, <1>2, <1>3 DEF Row
<1>5. members' = [members EXCEPT ![k.room][k.playerId] = row]
  BY <1>3 DEF ReconnectPlayer
<1> QED BY <1>1, <1>4, <1>5, WriteStep DEF ReconnectPlayer

-------------------------------------------------------------------------------
LEMMA ReadForStartStep ==
    ASSUME IInv, NEW c \in Call, NEW p \in Player, NEW r \in Room,
           ReadForStart(c, p, r)
    PROVE  IInv'
PROOF
<1> USE DEF IInv
<1>1. PICK k : k = [Idle EXCEPT !.pc = "claim", !.playerId = p, !.room = r,
                                !.players = Participants(r)]
  OBVIOUS
<1>2. Participants(r) \subseteq Members(r) /\ Participants(r) \subseteq Player
  BY DEF Participants, Members
<1>3. /\ k \in CallRecord /\ k.pc = "claim"
      /\ k.players = Participants(r) /\ k.room = r
  BY <1>1, <1>2, IdleIsOK DEF CallRecord, Pc
<1>4. /\ rooms[r].status # "NONE"
      /\ Cardinality(k.players) >= rooms[r].min
  BY <1>3 DEF ReadForStart, CanStart
<1>5. calls' = [calls EXCEPT ![c] = k] /\ UNCHANGED <<rooms, members, games>>
      /\ open' \subseteq Socket
  BY <1>1 DEF ReadForStart, Begin, TypeOK
<1>6. calls'[c] = k
  BY <1>5 DEF TypeOK
<1>7. Members(r)' = Members(r)
  BY <1>5 DEF Members
<1>8. CallOK(c)'
  BY <1>2, <1>3, <1>4, <1>5, <1>6, <1>7
     DEF CallOK, WithRoom, WithMember, Starting, Pc
<1> QED BY <1>3, <1>5, <1>8, OnlyACall

\* A starting call goes to the next of its steps.
LEMMA StartGoesOn ==
    ASSUME IInv, NEW c \in Call, calls[c].pc \in Starting,
           NEW next \in Starting, Goto(c, next)
    PROVE  /\ calls' \in [Call -> CallRecord]
           /\ calls'[c].pc = next /\ calls'[c].room = calls[c].room
           /\ calls'[c].players = calls[c].players
           /\ \A d \in Call \ {c} : calls'[d] = calls[d]
PROOF
<1>1. PICK k : k = [calls[c] EXCEPT !.pc = next]
  OBVIOUS
<1>2. calls[c] \in CallRecord
  BY DEF IInv, TypeOK
<1>3. k \in CallRecord
  BY <1>1, <1>2 DEF CallRecord, Pc, Starting
<1>4. k.pc = next /\ k.room = calls[c].room /\ k.players = calls[c].players
  BY <1>1, <1>2 DEF CallRecord
<1>5. calls' = [calls EXCEPT ![c] = k]
  BY <1>1 DEF Goto
<1> QED BY <1>3, <1>4, <1>5 DEF IInv, TypeOK

\* Of the starts that overlap the first finds the room waiting, and no other
\* counts down then: it would not be waiting.
LEMMA MarkRoomStartingStep ==
    ASSUME IInv, NEW c \in Call, MarkRoomStarting(c)
    PROVE  IInv'
PROOF
<1> USE DEF IInv
<1>1. PICK r \in Room : r = calls[c].room
  BY DEF MarkRoomStarting, TypeOK, CallsOK, CallOK, WithRoom, Pc
<1>2. CASE rooms[r].status # "WAITING"
  BY <1>1, <1>2, EndStep DEF MarkRoomStarting
<1>3. CASE rooms[r].status = "WAITING"
  <2>1. /\ rooms' = [rooms EXCEPT ![r].status = "STARTING"]
        /\ Goto(c, "countdown") /\ UNCHANGED <<members, games, open>>
    BY <1>1, <1>3 DEF MarkRoomStarting
  <2>2. /\ calls' \in [Call -> CallRecord]
        /\ calls'[c].pc = "countdown" /\ calls'[c].room = r
        /\ calls'[c].players = calls[c].players
        /\ \A d \in Call \ {c} : calls'[d] = calls[d]
    BY <1>1, <2>1, StartGoesOn DEF MarkRoomStarting, Starting
  <2>3. /\ rooms' \in [Room -> RoomRecord] /\ rooms'[r].status = "STARTING"
        /\ rooms'[r].min = rooms[r].min /\ rooms'[r].max = rooms[r].max
        /\ \A q \in Room : q # r => rooms'[q] = rooms[q]
    BY <2>1 DEF TypeOK, RoomRecord, RoomStatus
  <2>4. \A q \in Room : Members(q)' = Members(q)
    BY <2>1 DEF Members
  <2>5. Lasts
    BY <1>3, <2>1, <2>3 DEF Lasts, RoomLasts
  <2>6. GamesOK'
    BY <1>3, <2>1, <2>3, <2>4 DEF GamesOK
  <2>7. Kept
    BY <1>3, <2>1, <2>3, <2>4, <2>5, <2>6 DEF Kept, TypeOK
  <2>8. CallOK(c)'
    <3>1. CallOK(c) /\ calls[c].pc = "claim"
      BY DEF CallsOK, MarkRoomStarting
    <3> QED BY <1>1, <2>2, <2>3, <2>4, <3>1
            DEF CallOK, WithRoom, WithMember, Starting, Pc
  <2>9. games[r].latest = "LOBBY"
    BY <1>3 DEF GamesOK
  <2>10. \A d \in Call : calls[d].pc \in {"countdown", "started"}
                             => calls[d].room # r
    BY <1>3 DEF CallsOK, CallOK
  <2>11. OneStarter'
    BY <2>1, <2>2, <2>9, <2>10 DEF OneStarter
  <2>12. open' \subseteq Socket
    BY <2>1 DEF TypeOK
  <2> QED BY <2>2, <2>7, <2>8, <2>11, <2>12, KeptStep
<1> QED BY <1>2, <1>3

\* The only call that counts down in the room stores its players.
LEMMA PersistGameStartStep ==
    ASSUME IInv, NEW c \in Call, PersistGameStart(c)
    PROVE  IInv'
PROOF
<1> USE DEF IInv
<1>1. PICK r \in Room : r = calls[c].room
  BY DEF PersistGameStart, TypeOK, CallsOK, CallOK, WithRoom, Pc
<1>2. PICK players \in SUBSET Player :
          /\ players = calls[c].players
          /\ players \subseteq Members(r)
          /\ Cardinality(players) >= rooms[r].min
  BY <1>1 DEF PersistGameStart, TypeOK, CallRecord, CallsOK, CallOK, Starting
<1>3. /\ rooms[r].status \notin {"NONE", "WAITING"}
      /\ games[r].latest = "LOBBY"
      /\ \A d \in Call \ {c} : calls[d].pc \in {"countdown", "started"}
                                   => calls[d].room # r
  BY <1>1 DEF PersistGameStart, CallsOK, CallOK, WithRoom, Pc, OneStarter
<1>4. /\ rooms' = [rooms EXCEPT ![r].status = "IN_PROGRESS"]
      /\ members' = [members EXCEPT ![r] = [p \in Player |->
             IF p \in players THEN [members[r][p] EXCEPT !.status = "PLAYING"]
             ELSE members[r][p]]]
      /\ Goto(c, "started") /\ UNCHANGED open
  BY <1>1, <1>2 DEF PersistGameStart
<1>5. games' = [games EXCEPT ![r] =
                    [hot |-> games[r].hot, latest |-> "ACTIVE",
                     players |-> players, alive |-> players]]
  BY <1>1, <1>2 DEF PersistGameStart
<1>6. /\ calls' \in [Call -> CallRecord]
      /\ calls'[c].pc = "started" /\ calls'[c].room = r
      /\ calls'[c].players = players
      /\ \A d \in Call \ {c} : calls'[d] = calls[d]
  BY <1>1, <1>2, <1>4, StartGoesOn DEF PersistGameStart, Starting
<1>7. /\ rooms' \in [Room -> RoomRecord] /\ rooms'[r].status = "IN_PROGRESS"
      /\ rooms'[r].min = rooms[r].min /\ rooms'[r].max = rooms[r].max
      /\ \A q \in Room : q # r => rooms'[q] = rooms[q]
  BY <1>4 DEF TypeOK, RoomRecord, RoomStatus
<1>8. \A q \in Room : \A p \in Player :
          /\ members'[q][p] \in Row
          /\ members'[q][p].seat = members[q][p].seat
          /\ members'[q][p].status = "NONE" <=> members[q][p].status = "NONE"
  <2>1. SUFFICES ASSUME NEW q \in Room, NEW p \in Player
                 PROVE  /\ members'[q][p] \in Row
                        /\ members'[q][p].seat = members[q][p].seat
                        /\ members'[q][p].status = "NONE"
                               <=> members[q][p].status = "NONE"
    OBVIOUS
  <2>2. members[q][p] \in Row
    BY DEF TypeOK
  <2>3. CASE q = r /\ p \in players
    <3>1. members'[q][p] = [members[q][p] EXCEPT !.status = "PLAYING"]
      BY <1>4, <2>3 DEF TypeOK
    <3> QED BY <1>2, <2>2, <2>3, <3>1
            DEF Row, RowStatus, ActiveStatus, Members
  <2>4. CASE ~(q = r /\ p \in players)
    <3>1. members'[q][p] = members[q][p]
      BY <1>4, <2>4 DEF TypeOK
    <3> QED BY <2>2, <3>1
  <2> QED BY <2>3, <2>4
<1>9. members' \in [Room -> [Player -> Row]]
  BY <1>4, <1>8 DEF TypeOK
<1>10. \A q \in Room : Members(q)' = Members(q)
  BY <1>8 DEF Members
<1>11. /\ games' \in [Room -> GameRecord]
       /\ games'[r].hot = games[r].hot /\ games'[r].latest = "ACTIVE"
       /\ games'[r].players = players /\ games'[r].alive = players
       /\ \A q \in Room : q # r => games'[q] = games[q]
  BY <1>5 DEF TypeOK, GameRecord, GamePhase
<1>12. Lasts
  BY <1>3, <1>7, <1>8, <1>11 DEF Lasts, RoomLasts
<1>13. GamesOK'
  BY <1>2, <1>7, <1>10, <1>11 DEF GamesOK
<1>14. Kept
  BY <1>3, <1>7, <1>9, <1>10, <1>11, <1>12, <1>13 DEF Kept, TypeOK
<1>15. CallOK(c)'
  BY <1>2, <1>6, <1>7, <1>10, <1>11
     DEF CallOK, WithRoom, WithMember, Starting, Pc
<1>16. OneStarter'
  BY <1>3, <1>6, <1>11 DEF OneStarter, CallsOK, CallOK, WithRoom, Pc
<1>17. open' \subseteq Socket
  BY <1>4 DEF TypeOK
<1> QED BY <1>6, <1>14, <1>15, <1>16, <1>17, KeptStep

LEMMA StartRoomStep ==
    ASSUME IInv, NEW c \in Call, StartRoom(c)
    PROVE  IInv'
PROOF
<1> USE DEF IInv
<1>1. PICK r \in Room : r = calls[c].room
  BY DEF StartRoom, TypeOK, CallsOK, CallOK, WithRoom, Pc
<1>2. /\ calls[c].players \in SUBSET Player
      /\ games[r].players = calls[c].players /\ games[r].latest # "LOBBY"
  BY <1>1 DEF StartRoom, TypeOK, CallRecord, CallsOK, CallOK, Starting
<1>3. games' = [games EXCEPT ![r].hot = "ACTIVE",
                             ![r].alive = calls[c].players]
  BY <1>1 DEF StartRoom
<1>4. /\ games' \in [Room -> GameRecord]
      /\ games'[r].latest = games[r].latest /\ games'[r].hot = "ACTIVE"
      /\ games'[r].players = games[r].players
      /\ games'[r].alive = games[r].players
      /\ \A q \in Room : q # r => games'[q] = games[q]
  BY <1>2, <1>3 DEF TypeOK, GameRecord, GamePhase
<1>5. UNCHANGED <<rooms, members, open>> /\ End(c)
  BY DEF StartRoom
<1>6. \A q \in Room : Members(q)' = Members(q)
  BY <1>5 DEF Members
<1>7. GamesOK'
  BY <1>2, <1>4, <1>5, <1>6 DEF GamesOK
<1>8. Lasts
  BY <1>2, <1>4, <1>5 DEF Lasts, RoomLasts
<1>9. RowsKept
  BY <1>2, <1>4, <1>5, <1>6, <1>7, <1>8
     DEF RowsKept, Kept, NoGameStarts, TypeOK
<1>10. /\ calls' \in [Call -> CallRecord]
       /\ \A d \in Call : calls'[d] = calls[d] \/ calls'[d] = Idle
  BY <1>5, IdleIsOK DEF End, TypeOK
<1>11. Idle.pc \notin {"countdown", "started"}
  BY DEF Idle
<1> QED BY <1>5, <1>9, <1>10, <1>11, IdleIsOKNext, RowsStep DEF TypeOK

LEMMA CountRemainingStep ==
    ASSUME IInv, NEW c \in Call, CountRemaining(c)
    PROVE  IInv'
PROOF
<1> USE DEF IInv
<1>1. PICK st \in {"CANCELLED", "NONE"} :
          calls' = [calls EXCEPT ![c].pc = "leaving", ![c].status = st]
  BY DEF CountRemaining
<1>2. PICK k : k = [calls[c] EXCEPT !.pc = "leaving", !.status = st]
  OBVIOUS
<1>3. calls[c] \in CallRecord
  BY DEF TypeOK
<1>4. k \in CallRecord
  BY <1>2, <1>3 DEF CallRecord, Pc, RoomStatus
<1>5. k.pc = "leaving" /\ k.room = calls[c].room
      /\ k.playerId = calls[c].playerId
  BY <1>2, <1>3 DEF CallRecord
<1>6. calls' = [calls EXCEPT ![c] = k] /\ calls'[c] = k
  BY <1>1, <1>2 DEF TypeOK
<1>7. /\ UNCHANGED <<rooms, members, games>> /\ open' \subseteq Socket
  BY DEF CountRemaining, TypeOK
<1>8. PICK r \in Room : r = calls[c].room
  BY DEF CountRemaining, CallsOK, CallOK, WithRoom, Pc
<1>9. Members(r)' = Members(r)
  BY <1>7 DEF Members
<1>10. CallOK(c)'
  BY <1>5, <1>6, <1>7, <1>8, <1>9
     DEF CountRemaining, CallsOK, CallOK, WithRoom, WithMember, Starting, Pc
<1> QED BY <1>4, <1>5, <1>6, <1>7, <1>10, OnlyACall

\* The end of a call that may have stored a state.
LEMMA RowsKeptEnd ==
    ASSUME IInv, RowsKept, NEW c \in Call, End(c), UNCHANGED open
    PROVE  IInv'
PROOF
<1>1. /\ calls' \in [Call -> CallRecord]
      /\ \A d \in Call : calls'[d] = calls[d] \/ calls'[d] = Idle
  BY IdleIsOK DEF End, IInv, TypeOK
<1>2. Idle.pc \notin {"countdown", "started"} /\ open' \subseteq Socket
  BY DEF Idle, IInv, TypeOK
<1> QED BY <1>1, <1>2, IdleIsOKNext, RowsStep

LEMMA HandleStep ==
    ASSUME IInv, NEW c \in Call, NEW pc \in WithMember, NEW alive,
           alive \subseteq games[calls[c].room].alive, Handle(c, pc, alive)
    PROVE  IInv'
PROOF
<1>1. PICK r \in Room : r = calls[c].room /\ rooms[r].status # "NONE"
  BY DEF Handle, IInv, CallsOK, CallOK, WithRoom, WithMember, Pc
<1>2. games[r].alive \subseteq games[r].players
  BY DEF IInv, TypeOK
<1>3. End(c) /\ UNCHANGED open
  BY DEF Handle
<1>4. CASE UNCHANGED <<rooms, members, games>>
  BY <1>3, <1>4, Unchanged, RowsKeptEnd
<1>5. CASE games[r].hot \in {"LOBBY", "ACTIVE"}
  <2>1. PICK phase \in {"LOBBY", "ACTIVE"} : phase = games[r].hot
    BY <1>5
  <2>2. PICK left : left = IF phase = "ACTIVE" THEN alive ELSE games[r].alive
    OBVIOUS
  <2>3. Save(r, phase, left)
    BY <1>1, <1>5, <2>1, <2>2 DEF Handle
  <2>4. left \subseteq games[r].players
    BY <1>1, <1>2, <2>2
  <2>5. phase = "ACTIVE" => games[r].latest # "LOBBY"
    BY <2>1 DEF IInv, GamesOK
  <2>6. RowsKept
    BY <1>1, <2>3, <2>4, <2>5, Saved
  <2> QED BY <1>3, <2>6, RowsKeptEnd
<1> QED BY <1>1, <1>4, <1>5 DEF Handle

LEMMA HandleLeaveStep ==
    ASSUME IInv, NEW c \in Call, HandleLeave(c)
    PROVE  IInv'
PROOF
<1>1. "handleLeave" \in WithMember
  BY DEF WithMember
<1> QED BY <1>1, HandleStep DEF HandleLeave

LEMMA HandleDisconnectStep ==
    ASSUME IInv, NEW c \in Call, HandleDisconnect(c)
    PROVE  IInv'
PROOF
<1>1. "handleDisconnect" \in WithMember
  BY DEF WithMember
<1> QED BY <1>1, HandleStep DEF HandleDisconnect

LEMMA HandleReconnectStep ==
    ASSUME IInv, NEW c \in Call, HandleReconnect(c)
    PROVE  IInv'
PROOF
<1>1. PICK r \in Room : r = calls[c].room /\ rooms[r].status # "NONE"
  BY DEF HandleReconnect, IInv, CallsOK, CallOK, WithRoom, WithMember, Pc
<1>2. End(c) /\ UNCHANGED open
  BY DEF HandleReconnect
<1>3. CASE Load(r)
  BY <1>2, <1>3, Loaded, RowsKeptEnd
<1>4. CASE Phase(r) # "FINISHED" /\ Save(r, Phase(r), games[r].alive)
  <2>1. PICK phase \in {"LOBBY", "ACTIVE"} : phase = Phase(r)
    BY <1>4 DEF Phase, IInv, TypeOK, GameRecord, GamePhase
  <2>2. phase = "ACTIVE" => games[r].latest # "LOBBY"
    BY <2>1 DEF Phase, IInv, GamesOK
  <2>3. games[r].alive \subseteq games[r].players
    BY DEF IInv, TypeOK
  <2>4. RowsKept
    BY <1>1, <1>4, <2>1, <2>2, <2>3, Saved
  <2> QED BY <1>2, <2>4, RowsKeptEnd
<1> QED BY <1>1, <1>3, <1>4 DEF HandleReconnect

\* A call of the coordinator that is over at once.
LEMMA RowsKeptOnly ==
    ASSUME IInv, RowsKept, UNCHANGED <<open, calls>>
    PROVE  IInv'
PROOF
<1>1. calls' \in [Call -> CallRecord] /\ open' \subseteq Socket
  BY DEF IInv, TypeOK
<1> QED BY <1>1, RowsStep

LEMMA SyncStateStep ==
    ASSUME IInv, NEW r \in Room, SyncState(r)
    PROVE  IInv'
PROOF BY Loaded, RowsKeptOnly DEF SyncState

LEMMA GameGoesOnStep ==
    ASSUME IInv, NEW r \in Room, GameGoesOn(r)
    PROVE  IInv'
PROOF
<1>1. PICK out \in {{}} \cup {{p} : p \in games[r].alive} :
          Save(r, "ACTIVE", games[r].alive \ out)
  BY DEF GameGoesOn
<1>2. games[r].latest # "LOBBY"
  BY DEF GameGoesOn, Phase, IInv, GamesOK
<1>3. rooms[r].status # "NONE"
  BY <1>2 DEF IInv, GamesOK
<1>4. games[r].alive \ out \subseteq games[r].players
  BY DEF IInv, TypeOK
<1>5. RowsKept
  BY <1>1, <1>2, <1>3, <1>4, Saved
<1> QED BY <1>5, RowsKeptOnly DEF GameGoesOn

LEMMA JoinMatchStep ==
    ASSUME IInv, NEW c \in Call, JoinMatch(c)
    PROVE  IInv'
PROOF
<1>1. /\ calls[c].playerId \in Player /\ calls[c].room \in Room
      /\ calls[c].socket \in Socket \cup {NoSocket}
  BY DEF JoinMatch, IInv, TypeOK, CallRecord, CallsOK, CallOK, WithRoom, Pc
<1> QED BY <1>1, ReadForJoinStep DEF JoinMatch

LEMMA FailStep ==
    ASSUME IInv, NEW c \in Call, Fail(c)
    PROVE  IInv'
PROOF BY EndStep DEF Fail

-------------------------------------------------------------------------------
\* Where a request comes from is a socket or HTTP.
LEMMA OriginIsSocket ==
    ASSUME IInv, NEW p \in Player
    PROVE  Origin(p) \subseteq Socket \cup {NoSocket}
PROOF BY DEF Origin, IInv, TypeOK

LEMMA Initially == Init => IInv
PROOF
<1> SUFFICES ASSUME Init PROVE IInv
  OBVIOUS
<1>1. TypeOK
  BY IdleIsOK DEF Init, TypeOK, NoRoom, RoomRecord, RoomStatus, NoRow, Row,
     RowStatus, NoGame, GameRecord, GamePhase
<1>2. \A r \in Room : Members(r) = {}
  BY DEF Init, Members, NoRow
<1>3. RoomsOK /\ SeatsAreDistinct
  BY <1>2 DEF Init, RoomsOK, SeatsAreDistinct, NoRoom
<1>4. GamesOK
  BY DEF Init, GamesOK, NoGame
<1>5. CallsOK /\ OneStarter
  BY IdleIsOK DEF Init, CallsOK, OneStarter, Idle
<1> QED BY <1>1, <1>3, <1>4, <1>5 DEF IInv

LEMMA Inductive == IInv /\ [Next]_vars => IInv'
PROOF
<1> SUFFICES ASSUME IInv, [Next]_vars PROVE IInv'
  OBVIOUS
<1>1. ASSUME NEW p \in Player, NEW s \in Origin(p), NEW lo \in Sizes,
             NEW hi \in Sizes, NEW visibility \in Visibility,
             CreateRoom(p, s, lo, hi, visibility)
      PROVE  IInv'
  BY <1>1, OriginIsSocket, CreateRoomStep
<1>2. ASSUME NEW c \in Call, NEW p \in Player, NEW r \in Room, Arrive(c, p, r)
      PROVE  IInv'
  <2>1. ASSUME NEW s \in Origin(p), JoinRoom(c, p, r, s) PROVE IInv'
    BY <2>1, OriginIsSocket, ReadForJoinStep DEF JoinRoom
  <2>2. ASSUME NEW s \in Origin(p), ReadForReconnect(c, p, r, s) PROVE IInv'
    BY <2>2, OriginIsSocket, ReadForReconnectStep
  <2> QED BY <1>2, <2>1, <2>2, ReadForReadyStep, ReadForStartStep,
             ReadForLeaveStep DEF Arrive
<1>3. ASSUME NEW c \in Call, NEW p \in Player, NEW s \in Origin(p),
             NEW hi \in Sizes, FindMatch(c, p, s, hi)
      PROVE  IInv'
  BY <1>3, OriginIsSocket, FindMatchStep
<1>4. ASSUME NEW c \in Call, NEW s \in Socket, CloseSocket(c, s) PROVE IInv'
  BY <1>4, CloseSocketStep
<1>5. ASSUME NEW c \in Call, Step(c) PROVE IInv'
  BY <1>5, JoinStep, JoinMatchStep, CreateMatchStep, SetReadyStep,
     MarkRoomStartingStep, PersistGameStartStep, StartRoomStep,
     CountRemainingStep, LeaveRoomStep, HandleLeaveStep,
     MarkSocketDisconnectedStep, HandleDisconnectStep, ReconnectPlayerStep,
     HandleReconnectStep, FailStep DEF Step
<1>6. ASSUME NEW r \in Room, SyncState(r) \/ GameGoesOn(r) PROVE IInv'
  BY <1>6, SyncStateStep, GameGoesOnStep
<1>7. CASE UNCHANGED vars
  <2>1. RowsKept
    BY <1>7, Unchanged DEF vars
  <2> QED BY <1>7, <2>1, RowsKeptOnly DEF vars
<1> QED BY <1>1, <1>2, <1>3, <1>4, <1>5, <1>6, <1>7 DEF Next

\* IInv holds in every state: the lemmas above, one for each action.
THEOREM Invariance == Spec => []IInv
PROOF BY Initially, Inductive, PTL DEF Spec

\* Every variable keeps its type.
THEOREM TypeCorrect == Spec => []TypeOK
PROOF
<1>1. IInv => TypeOK
  BY DEF IInv
<1> QED BY <1>1, Invariance, PTL

\* No two members of a room ever share a seat, nor is one beyond maxPlayers,
\* however joinRoom, findMatch, leaveRoom and reconnectPlayer overlap.
THEOREM DistinctSeats == Spec => []SeatsAreDistinct
PROOF
<1>1. IInv => SeatsAreDistinct
  BY DEF IInv
<1> QED BY <1>1, Invariance, PTL

\* Of the calls of startGame that overlap in a room one gets past
\* markRoomStarting, and none after its game has started.
THEOREM AtMostOneStart == Spec => []OneStarter
PROOF
<1>1. IInv => OneStarter
  BY DEF IInv
<1> QED BY <1>1, Invariance, PTL

\* What startGame counts down with is a game: enough players for the room,
\* all of them members, each with a seat of its own.
THEOREM StartsWithAGame == Spec => []RosterIsAGame
PROOF
<1>1. ASSUME IInv, NEW c \in Call, calls[c].pc \in Starting
      PROVE  /\ calls[c].players \subseteq Members(calls[c].room)
             /\ \A p, q \in calls[c].players :
                   members[calls[c].room][p].seat
                       = members[calls[c].room][q].seat => p = q
             /\ Cardinality(calls[c].players) >= rooms[calls[c].room].min
             /\ rooms[calls[c].room].min >= 2
  <2>1. PICK r \in Room : r = calls[c].room /\ rooms[r].status # "NONE"
    BY <1>1 DEF IInv, CallsOK, CallOK, WithRoom, Starting, Pc
  <2>2. rooms[r].min \in Nat
    BY <1>1 DEF IInv, TypeOK, RoomRecord
  <2>3. /\ calls[c].players \subseteq Members(r)
        /\ Cardinality(calls[c].players) >= rooms[r].min
    BY <1>1, <2>1 DEF IInv, CallsOK, CallOK
  <2>4. rooms[r].min >= 2
    BY <1>1, <2>1, <2>2 DEF IInv, RoomsOK
  <2> QED BY <1>1, <2>1, <2>3, <2>4 DEF IInv, SeatsAreDistinct
<1>2. IInv => RosterIsAGame
  BY <1>1 DEF RosterIsAGame, Starting
<1> QED BY <1>2, Invariance, PTL

\* A room never has more members than maxPlayers, those who left it included,
\* as every one of them can come back to its seat: the seats are distinct numbers
\* up to maxPlayers.
THEOREM Capacity ==
    ASSUME NEW r \in Room
    PROVE  Spec => [](Cardinality(Members(r)) <= rooms[r].max)
PROOF
<1>1. ASSUME IInv
      PROVE  Cardinality(Members(r)) <= rooms[r].max
  <2> DEFINE seat == [p \in Members(r) |-> members[r][p].seat]
  <2>1. rooms[r].max \in Nat
    BY <1>1 DEF IInv, TypeOK, RoomRecord
  <2>2. seat \in Injection(Members(r), 1..rooms[r].max)
    <3>1. \A p, q \in Members(r) :
              /\ members[r][p].seat \in 1..rooms[r].max
              /\ members[r][p].seat = members[r][q].seat => p = q
      BY <1>1 DEF IInv, SeatsAreDistinct
    <3> QED BY <3>1 DEF Injection, IsInjective
  <2>3. /\ IsFiniteSet(1..rooms[r].max)
        /\ Cardinality(1..rooms[r].max) = rooms[r].max
    <3>1. rooms[r].max \in Int /\ 1 \in Int /\ rooms[r].max >= 0
      BY <2>1
    <3>2. /\ IsFiniteSet(1..rooms[r].max)
          /\ Cardinality(1..rooms[r].max) =
                 IF 1 > rooms[r].max THEN 0 ELSE rooms[r].max - 1 + 1
      BY <3>1, FS_Interval
    <3> QED BY <3>1, <3>2
  <2> HIDE DEF seat
  <2> QED BY <2>2, <2>3, FS_Injection
<1> QED BY <1>1, Invariance, PTL
================================================================================
