------------------------------- MODULE RoomLobby -------------------------------
(***************************************************************************)
(* The rooms before and around their games: the lobby side of              *)
(* src/rooms/roomRepository.ts and the calls of src/rooms/roomManager.ts   *)
(* that reach it.                                                          *)
(*                                                                         *)
(* A call is cut where it waits for the database.  Its arrival and its     *)
(* first query are one step, for nobody can see the time between.  A       *)
(* transaction is one step, but for two whose reads may be outdated when   *)
(* they commit: that of joinRoom (serializable: it reads a snapshot) and   *)
(* that of leaveRoom (read committed: it counts the members before it      *)
(* commits).  The row locks they hold make others wait.                    *)
(*                                                                         *)
(* Abstracted: names, codes and tokens (a client reconnects with its own   *)
(* token), the players table (no decision reads it), and the game: games   *)
(* holds who plays and who is alive, GameCoordinator has the rest.         *)
(***************************************************************************)
EXTENDS Integers, FiniteSets

CONSTANTS
    Player, NoPlayer,
    Socket, NoSocket,
    UserOf,            \* whose client holds each socket
    Room,              \* bound: the rooms, in the order of their creation
    Call,              \* bound: the calls in flight at one time
    Kinds,             \* the calls that arrive
    Sizes,             \* the room sizes clients ask for
    Visibility,
    MIN_ROOM_PLAYERS, MAX_ROOM_PLAYERS,
    MATCH_LIMIT        \* 20 in the code

Kind == {"create", "join", "match", "ready", "start", "leave", "disconnect",
         "reconnect", "sync", "play"}

ASSUME LobbyAssumption ==
    /\ NoPlayer \notin Player /\ NoSocket \notin Socket
    /\ UserOf \in [Socket -> Player]
    /\ Room \subseteq Nat \ {0}
    /\ Kinds \subseteq Kind
    /\ Sizes \subseteq Nat
    /\ Visibility \subseteq {"PUBLIC", "PRIVATE"}
    /\ MIN_ROOM_PLAYERS \in Nat /\ MIN_ROOM_PLAYERS >= 2
    /\ MAX_ROOM_PLAYERS \in Nat /\ MATCH_LIMIT \in Nat

VARIABLES
    rooms,    \* the rooms rows
    members,  \* the room_players rows of each room, by player
    games,    \* of each room: what the coordinator and game_states hold
    open,     \* the sockets that are open
    calls     \* the calls in flight

vars == <<rooms, members, games, open, calls>>

NoRoom == [status |-> "NONE", owner |-> NoPlayer, min |-> 0, max |-> 0,
           visibility |-> "PRIVATE"]

NoRow == [status |-> "NONE", ready |-> FALSE, seat |-> 0, socket |-> NoSocket]

\* hot is the phase of the state in memory, latest that of the newest snapshot.
NoGame == [hot |-> "NONE", latest |-> "LOBBY", players |-> {}, alive |-> {}]

Idle == [pc |-> "idle", playerId |-> NoPlayer, room |-> 0,
         socket |-> NoSocket, status |-> "NONE", row |-> NoRow,
         players |-> {}]

ActiveStatus == {"JOINED", "READY", "PLAYING", "DISCONNECTED", "ELIMINATED"}

Least(S) == CHOOSE m \in S : \A n \in S : m <= n

Members(r) == {p \in Player : members[r][p].status # "NONE"}

Active(r) == {p \in Player : members[r][p].status \in ActiveStatus}

-------------------------------------------------------------------------------
Init ==
    /\ rooms = [r \in Room |-> NoRoom]
    /\ members = [r \in Room |-> [p \in Player |-> NoRow]]
    /\ games = [r \in Room |-> NoGame]
    /\ open = Socket
    /\ calls = [c \in Call |-> Idle]

-------------------------------------------------------------------------------
Begin(c, k) == calls[c] = Idle /\ calls' = [calls EXCEPT ![c] = k]

Goto(c, pc) == calls' = [calls EXCEPT ![c].pc = pc]

End(c) == calls' = [calls EXCEPT ![c] = Idle]

\* joinRoom and leaveRoom hold the lock of the player's row until they commit.
Locked(p) ==
    \E c \in Call : calls[c].pc \in {"join", "leaving"} /\ calls[c].playerId = p

\* leaveRoom also that of the membership.
RowLocked(r, p) ==
    \E c \in Call :
        calls[c].pc = "leaving" /\ calls[c].room = r /\ calls[c].playerId = p

\* Where a request of p may come from: a socket of its client, or HTTP.
Origin(p) == {s \in open : UserOf[s] = p} \cup {NoSocket}

\* An update with an undefined connectionId leaves the column alone.
Bound(row, s) == IF s = NoSocket THEN row ELSE [row EXCEPT !.socket = s]

Lobbied(ready) == IF ready THEN "READY" ELSE "JOINED"

-------------------------------------------------------------------------------
(***************************************************************************)
(* createRoom, also at the end of findMatch.                               *)
(***************************************************************************)
NewRoom(p, lo, hi, visibility) ==
    [status |-> "WAITING", owner |-> p, visibility |-> visibility,
     min |-> IF lo > MIN_ROOM_PLAYERS THEN lo ELSE MIN_ROOM_PLAYERS,
     max |-> IF hi < MAX_ROOM_PLAYERS THEN hi ELSE MAX_ROOM_PLAYERS]

\* Its transaction; it fails if the size the server allows is impossible.
Insert(p, s, room) ==
    /\ ~Locked(p)
    /\ room.min <= room.max
    /\ \E r \in Room :
          /\ \A q \in Room : rooms[q].status = "NONE" <=> q >= r
          /\ rooms' = [rooms EXCEPT ![r] = room]
          /\ members' = [members EXCEPT ![r][p] =
                 Bound([NoRow EXCEPT !.status = "JOINED", !.seat = 1], s)]
    /\ UNCHANGED <<games, open>>

CreateRoom(p, s, lo, hi, visibility) ==
    /\ "create" \in Kinds
    /\ lo <= hi
    /\ Insert(p, s, NewRoom(p, lo, hi, visibility))
    /\ UNCHANGED calls

-------------------------------------------------------------------------------
(***************************************************************************)
(* joinRoom: what its transaction decides on the snapshot it reads, and    *)
(* its commit.                                                             *)
(***************************************************************************)
FreeSeats(r) ==
    1..rooms[r].max \ {members[r][p].seat : p \in Active(r)}

\* A rejected join leaves nothing.  row is the membership it found, or where
\* it will put a new one.
ReadForJoin(c, p, r, s) ==
    LET mine == members[r][p]
        isMember == p \in Active(r)
    IN  /\ ~Locked(p)
        /\ IF /\ rooms[r].status \in {"WAITING", "STARTING"}
              /\ isMember \/ /\ Cardinality(Active(r)) < rooms[r].max
                             /\ FreeSeats(r) # {}
           THEN calls' = [calls EXCEPT ![c] =
                    [Idle EXCEPT !.pc = "join", !.playerId = p, !.room = r,
                                 !.socket = s,
                                 !.row = IF isMember THEN mine
                                         ELSE [NoRow EXCEPT
                                                  !.seat = Least(FreeSeats(r))]]]
           ELSE End(c)
        /\ UNCHANGED <<rooms, members, games, open>>

JoinRoom(c, p, r, s) ==
    /\ "join" \in Kinds
    /\ calls[c] = Idle
    /\ ReadForJoin(c, p, r, s)

\* Mutant: no unique constraint on the seat.
UniqueMember(r, p, seat) == p \notin Members(r)

\* The unique constraints on (room, player) and (room, seat), which the rows
\* of those who left still occupy.
Unique(r, p, seat) ==
    /\ p \notin Members(r)
    /\ \A q \in Members(r) : members[r][q].seat # seat

\* The commit fails if the row it found has changed, and makes the other joins
\* fail that have read the same room.
Join(c) ==
    LET k == calls[c]
        commits == IF k.row.status = "NONE"
                   THEN Unique(k.room, k.playerId, k.row.seat)
                   ELSE members[k.room][k.playerId] = k.row
        overtaken(d) == calls[d].pc = "join" /\ calls[d].room = k.room
    IN  /\ k.pc = "join"
        /\ IF commits
           THEN /\ members' = [members EXCEPT ![k.room][k.playerId] =
                       Bound([k.row EXCEPT !.status = Lobbied(k.row.ready)],
                             k.socket)]
                /\ calls' = [d \in Call |-> IF overtaken(d) THEN Idle
                                            ELSE calls[d]]
           ELSE End(c) /\ UNCHANGED members
        /\ UNCHANGED <<rooms, games, open>>

-------------------------------------------------------------------------------
(***************************************************************************)
(* findMatch: the list of rooms, then joinRoom or createRoom.              *)
(***************************************************************************)
\* The oldest waiting rooms, full ones among them.
Page(hi) ==
    LET listed == {r \in Room : /\ rooms[r].status = "WAITING"
                                /\ rooms[r].visibility = "PUBLIC"
                                /\ rooms[r].max <= hi}
    IN  {r \in listed : Cardinality({q \in listed : q < r}) < MATCH_LIMIT}

FindMatch(c, p, s, hi) ==
    LET vacant == {r \in Page(hi) : Cardinality(Active(r)) < rooms[r].max}
        k == [Idle EXCEPT !.playerId = p, !.socket = s]
    IN  /\ "match" \in Kinds
        /\ Begin(c, IF vacant = {} THEN [k EXCEPT !.pc = "create", !.row.seat = hi]
                    ELSE [k EXCEPT !.pc = "matched", !.room = Least(vacant)])
        /\ UNCHANGED <<rooms, members, games, open>>

JoinMatch(c) ==
    /\ calls[c].pc = "matched"
    /\ ReadForJoin(c, calls[c].playerId, calls[c].room, calls[c].socket)

CreateMatch(c) ==
    LET k == calls[c]
    IN  /\ k.pc = "create"
        /\ Insert(k.playerId, k.socket,
                  NewRoom(k.playerId, MIN_ROOM_PLAYERS, k.row.seat, "PUBLIC"))
        /\ End(c)

-------------------------------------------------------------------------------
(***************************************************************************)
(* setReady: the check and the update are two requests.                    *)
(***************************************************************************)
ReadForReady(c, p, r, isReady) ==
    /\ "ready" \in Kinds
    /\ p \in Members(r) /\ rooms[r].status = "WAITING"
    /\ Begin(c, [Idle EXCEPT !.pc = "ready", !.playerId = p, !.room = r,
                             !.row.ready = isReady])
    /\ UNCHANGED <<rooms, members, games, open>>

SetReady(c) ==
    LET k == calls[c]
    IN  /\ k.pc = "ready" /\ ~RowLocked(k.room, k.playerId)
        /\ members' = [members EXCEPT ![k.room][k.playerId] =
               [@ EXCEPT !.ready = k.row.ready,
                         !.status = Lobbied(k.row.ready)]]
        /\ End(c)
        /\ UNCHANGED <<rooms, games, open>>

-------------------------------------------------------------------------------
(***************************************************************************)
(* startGame: read the participants, claim the room, count down, store the *)
(* first state, hand it to the coordinator.                                *)
(***************************************************************************)
Participants(r) == {p \in Members(r) : members[r][p].status # "LEFT"}

\* Mutant: those who left count as players.
CanStartWithAll(p, r) ==
    /\ rooms[r].status = "WAITING" /\ rooms[r].owner = p
    /\ Cardinality(Members(r)) >= rooms[r].min
    /\ \A q \in Participants(r) : members[r][q].ready

\* getStartParticipants
CanStart(p, r) ==
    /\ rooms[r].status = "WAITING" /\ rooms[r].owner = p
    /\ Cardinality(Participants(r)) >= rooms[r].min
    /\ \A q \in Participants(r) : members[r][q].ready

ReadForStart(c, p, r) ==
    /\ "start" \in Kinds
    /\ CanStart(p, r)
    /\ Begin(c, [Idle EXCEPT !.pc = "claim", !.playerId = p, !.room = r,
                             !.players = Participants(r)])
    /\ UNCHANGED <<rooms, members, games, open>>

\* Mutant: the update does not ask for a waiting room.
MarkRoomStartingAgain(c) ==
    /\ calls[c].pc = "claim"
    /\ rooms' = [rooms EXCEPT ![calls[c].room].status = "STARTING"]
    /\ Goto(c, "countdown")
    /\ UNCHANGED <<members, games, open>>

MarkRoomStarting(c) ==
    LET r == calls[c].room
    IN  /\ calls[c].pc = "claim"
        /\ IF rooms[r].status = "WAITING"
           THEN /\ rooms' = [rooms EXCEPT ![r].status = "STARTING"]
                /\ Goto(c, "countdown")
           ELSE End(c) /\ UNCHANGED rooms
        /\ UNCHANGED <<members, games, open>>

\* Mutant: the players of the game are not stored.
PersistGameStartBare(c) ==
    LET r == calls[c].room
    IN  /\ calls[c].pc = "countdown"
        /\ rooms' = [rooms EXCEPT ![r].status = "IN_PROGRESS"]
        /\ games' = [games EXCEPT ![r].latest = "ACTIVE",
                                  ![r].alive = calls[c].players]
        /\ Goto(c, "started")
        /\ UNCHANGED <<members, open>>

PersistGameStart(c) ==
    LET r == calls[c].room
        players == calls[c].players
    IN  /\ calls[c].pc = "countdown"
        /\ \A p \in players : ~Locked(p)
        /\ rooms' = [rooms EXCEPT ![r].status = "IN_PROGRESS"]
        /\ members' = [members EXCEPT ![r] = [p \in Player |->
               IF p \in players THEN [@[p] EXCEPT !.status = "PLAYING"]
               ELSE @[p]]]
        /\ games' = [games EXCEPT ![r] =
               [hot |-> @.hot, latest |-> "ACTIVE",
                players |-> players, alive |-> players]]
        /\ Goto(c, "started")
        /\ UNCHANGED open

StartRoom(c) ==
    LET r == calls[c].room
    IN  /\ calls[c].pc = "started"
        /\ games' = [games EXCEPT ![r].hot = "ACTIVE",
                                ![r].alive = calls[c].players]
        /\ End(c)
        /\ UNCHANGED <<rooms, members, open>>

-------------------------------------------------------------------------------
(***************************************************************************)
(* What the coordinator does to the rooms: persistGameState for a state in *)
(* a phase, with these players alive.  The lobby's state has no players.   *)
(***************************************************************************)
Save(r, phase, alive) ==
    LET over == phase = "ACTIVE" /\ Cardinality(alive) < 2
        plays(p) == phase = "ACTIVE" /\ p \in games[r].players
    IN  /\ \A p \in Player : plays(p) => ~RowLocked(r, p)
        /\ rooms' = [rooms EXCEPT ![r].status =
               IF over THEN "FINISHED" ELSE "IN_PROGRESS"]
        /\ members' = [members EXCEPT ![r] = [p \in Player |->
               IF plays(p)
               THEN [@[p] EXCEPT !.status = IF p \in alive THEN "PLAYING"
                                            ELSE "ELIMINATED"]
               ELSE @[p]]]
        /\ games' = [games EXCEPT ![r] =
               [hot |-> IF over THEN "NONE" ELSE phase,
                latest |-> IF over THEN "FINISHED" ELSE @.latest,
                players |-> @.players, alive |-> alive]]

\* getState: the hot state or else the newest snapshot, which gets hot.
Phase(r) == IF games[r].hot = "NONE" THEN games[r].latest ELSE games[r].hot

Load(r) ==
    /\ games' = [games EXCEPT ![r].hot = Phase(r)]
    /\ UNCHANGED <<rooms, members>>

SyncState(r) ==
    /\ "sync" \in Kinds
    /\ rooms[r].status # "NONE"
    /\ Load(r)
    /\ UNCHANGED <<open, calls>>

\* A move or a tick: at most one player goes out.
GameGoesOn(r) ==
    /\ "play" \in Kinds
    /\ Phase(r) = "ACTIVE"
    /\ \E out \in {{}} \cup {{p} : p \in games[r].alive} :
           Save(r, "ACTIVE", games[r].alive \ out)
    /\ UNCHANGED <<open, calls>>

-------------------------------------------------------------------------------
(***************************************************************************)
(* leaveRoom, and handleLeave after it.                                    *)
(***************************************************************************)
ReadForLeave(c, p, r) ==
    /\ "leave" \in Kinds
    /\ p \in Members(r)
    /\ Begin(c, [Idle EXCEPT !.pc = "leave", !.playerId = p, !.room = r,
                             !.status = rooms[r].status])
    /\ UNCHANGED <<rooms, members, games, open>>

\* The transaction has updated its row and counts the committed rows of the
\* others: is the room to be cancelled?
CountRemaining(c) ==
    LET k == calls[c]
        remaining == {p \in Active(k.room) \ {k.playerId} :
                          members[k.room][p].status # "ELIMINATED"}
        empty == remaining = {} /\ k.status = "WAITING"
    IN  /\ k.pc = "leave" /\ ~Locked(k.playerId)
        /\ calls' = [calls EXCEPT
               ![c].pc = "leaving",
               ![c].status = IF empty THEN "CANCELLED" ELSE "NONE"]
        /\ UNCHANGED <<rooms, members, games, open>>

LeaveRoom(c) ==
    LET k == calls[c]
    IN  /\ k.pc = "leaving"
        /\ members' = [members EXCEPT ![k.room][k.playerId] =
               [@ EXCEPT !.status = "LEFT", !.ready = FALSE,
                         !.socket = NoSocket]]
        /\ rooms' = IF k.status = "CANCELLED"
                    THEN [rooms EXCEPT ![k.room].status = "CANCELLED"]
                    ELSE rooms
        /\ Goto(c, "handleLeave")
        /\ UNCHANGED <<games, open>>

\* handleLeave and handleDisconnect do nothing without a hot, unfinished state.
Handle(c, pc, alive) ==
    LET r == calls[c].room
    IN  /\ calls[c].pc = pc
        /\ IF games[r].hot \in {"LOBBY", "ACTIVE"}
           THEN Save(r, games[r].hot, IF games[r].hot = "ACTIVE" THEN alive
                                     ELSE games[r].alive)
           ELSE UNCHANGED <<rooms, members, games>>
        /\ End(c)
        /\ UNCHANGED open

HandleLeave(c) ==
    Handle(c, "handleLeave",
           games[calls[c].room].alive \ {calls[c].playerId})

-------------------------------------------------------------------------------
(***************************************************************************)
(* A socket closes: markSocketDisconnected finds a member by the socket    *)
(* and then updates it; handleDisconnect.                                  *)
(***************************************************************************)
Seated(s) ==
    {m \in Room \X Player :
        /\ members[m[1]][m[2]].socket = s
        /\ members[m[1]][m[2]].status \in {"JOINED", "READY", "PLAYING"}}

CloseSocket(c, s) ==
    /\ "disconnect" \in Kinds
    /\ s \in open /\ calls[c] = Idle
    /\ open' = open \ {s}
    /\ IF Seated(s) = {}
       THEN UNCHANGED calls
       ELSE \E m \in Seated(s) :
                Begin(c, [Idle EXCEPT !.pc = "disconnect", !.room = m[1],
                                      !.playerId = m[2], !.socket = s])
    /\ UNCHANGED <<rooms, members, games>>

MarkSocketDisconnected(c) ==
    LET k == calls[c]
    IN  /\ k.pc = "disconnect" /\ ~Locked(k.playerId)
        /\ members' = [members EXCEPT ![k.room][k.playerId] =
               [@ EXCEPT !.status = "DISCONNECTED", !.socket = NoSocket]]
        /\ Goto(c, "handleDisconnect")
        /\ UNCHANGED <<rooms, games, open>>

HandleDisconnect(c) ==
    Handle(c, "handleDisconnect", games[calls[c].room].alive)

-------------------------------------------------------------------------------
(***************************************************************************)
(* reconnectPlayer over a new socket, and handleReconnect.                 *)
(***************************************************************************)
ReadForReconnect(c, p, r, s) ==
    LET row == members[r][p]
    IN  /\ "reconnect" \in Kinds
        /\ s # NoSocket
        /\ p \in Members(r)
        /\ rooms[r].status \notin {"FINISHED", "CANCELLED"}
        /\ Begin(c, [Idle EXCEPT
               !.pc = "reconnect", !.playerId = p, !.room = r, !.socket = s,
               !.status = IF rooms[r].status = "IN_PROGRESS" THEN "PLAYING"
                          ELSE Lobbied(row.ready)])
        /\ UNCHANGED <<rooms, members, games, open>>

ReconnectPlayer(c) ==
    LET k == calls[c]
    IN  /\ k.pc = "reconnect" /\ ~Locked(k.playerId)
        /\ members' = [members EXCEPT ![k.room][k.playerId] =
               [@ EXCEPT !.status = k.status, !.socket = k.socket]]
        /\ Goto(c, "handleReconnect")
        /\ UNCHANGED <<rooms, games, open>>

\* It loads the lobby's state, too, and stores it as that of a game.
HandleReconnect(c) ==
    LET r == calls[c].room
    IN  /\ calls[c].pc = "handleReconnect"
        /\ IF Phase(r) = "FINISHED" THEN Load(r)
           ELSE Save(r, Phase(r), games[r].alive)
        /\ End(c)
        /\ UNCHANGED open

-------------------------------------------------------------------------------
\* A request to the database fails, or its reply is lost: the call throws.
Fail(c) ==
    /\ calls[c] # Idle
    /\ End(c)
    /\ UNCHANGED <<rooms, members, games, open>>

Arrive(c, p, r) ==
    \/ \E s \in Origin(p) : \/ JoinRoom(c, p, r, s)
                            \/ ReadForReconnect(c, p, r, s)
    \/ \E isReady \in BOOLEAN : ReadForReady(c, p, r, isReady)
    \/ ReadForStart(c, p, r)
    \/ ReadForLeave(c, p, r)

Step(c) ==
    \/ Join(c) \/ JoinMatch(c) \/ CreateMatch(c) \/ SetReady(c)
    \/ MarkRoomStarting(c) \/ PersistGameStart(c) \/ StartRoom(c)
    \/ CountRemaining(c) \/ LeaveRoom(c) \/ HandleLeave(c)
    \/ MarkSocketDisconnected(c) \/ HandleDisconnect(c)
    \/ ReconnectPlayer(c) \/ HandleReconnect(c)
    \/ Fail(c)

Next ==
    \/ \E p \in Player : \E s \in Origin(p), lo, hi \in Sizes,
                            visibility \in Visibility :
           CreateRoom(p, s, lo, hi, visibility)
    \/ \E c \in Call :
          \/ \E p \in Player, r \in Room : Arrive(c, p, r)
          \/ \E p \in Player : \E s \in Origin(p), hi \in Sizes :
                 FindMatch(c, p, s, hi)
          \/ \E s \in Socket : CloseSocket(c, s)
          \/ Step(c)
    \/ \E r \in Room : SyncState(r) \/ GameGoesOn(r)

Spec == Init /\ [][Next]_vars

-------------------------------------------------------------------------------
RowStatus == ActiveStatus \cup {"NONE", "LEFT"}

RoomStatus ==
    {"NONE", "WAITING", "STARTING", "IN_PROGRESS", "FINISHED", "CANCELLED"}

GamePhase == {"LOBBY", "ACTIVE", "FINISHED"}

Pc == {"idle", "create", "matched", "join", "ready", "claim", "countdown",
       "started", "leave", "leaving", "handleLeave", "disconnect",
       "handleDisconnect", "reconnect", "handleReconnect"}

RoomRecord ==
    [status : RoomStatus, owner : Player \cup {NoPlayer}, min : Nat, max : Nat,
     visibility : {"PUBLIC", "PRIVATE"}]

Row == [status : RowStatus, ready : BOOLEAN, seat : Nat,
        socket : Socket \cup {NoSocket}]

GameRecord ==
    [hot : GamePhase \cup {"NONE"}, latest : GamePhase,
     players : SUBSET Player, alive : SUBSET Player]

CallRecord ==
    [pc : Pc, playerId : Player \cup {NoPlayer}, room : Room \cup {0},
     socket : Socket \cup {NoSocket}, status : RoomStatus \cup RowStatus,
     row : Row, players : SUBSET Player]

TypeOK ==
    /\ rooms \in [Room -> RoomRecord]
    /\ members \in [Room -> [Player -> Row]]
    /\ games \in [Room -> GameRecord]
    /\ \A r \in Room : games[r].alive \subseteq games[r].players
    /\ open \subseteq Socket
    /\ calls \in [Call -> CallRecord]

\* Everybody who ever joined a room has a seat of its own in it, up to
\* maxPlayers: joins that overlap, joins after somebody left and members that
\* come back (by getting ready or reconnecting) never share a seat or overfill
\* the room.
SeatsAreDistinct ==
    \A r \in Room : \A p, q \in Members(r) :
        /\ members[r][p].seat \in 1..rooms[r].max
        /\ members[r][p].seat = members[r][q].seat => p = q

\* What a room is started with is a game: at least minPlayers, never fewer
\* than two, each with a seat of its own, whatever happens to the members
\* between the check and the start.  (BattleGame begins from such players.)
RosterIsAGame ==
    \A c \in Call :
        LET k == calls[c]
            seat(p) == members[k.room][p].seat
        IN  k.pc \in {"claim", "countdown", "started"} =>
                /\ k.players \subseteq Members(k.room)
                /\ \A p, q \in k.players : seat(p) = seat(q) => p = q
                /\ Cardinality(k.players) >= rooms[k.room].min
                /\ rooms[k.room].min >= 2

\* One start per room: of the starts that overlap one gets past markRoomStarting,
\* and none does once the room has had its game.
OneStarter ==
    \A c \in Call :
        calls[c].pc = "countdown" =>
            /\ games[calls[c].room].latest = "LOBBY"
            /\ \A d \in Call \ {c} :
                  calls[d].pc \in {"countdown", "started"}
                      => calls[d].room # calls[c].room

\* "Late joiners are rejected after room status leaves WAITING or STARTING":
\* nobody becomes a member of a room that is in progress or closed.
JoinsInTime ==
    \A r \in Room, p \in Player :
        members[r][p].status = "NONE" /\ members'[r][p].status # "NONE" =>
            rooms[r].status \in {"NONE", "WAITING", "STARTING"}

NoLateJoins == [][JoinsInTime]_vars
================================================================================
