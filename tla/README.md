# The battle game server in TLA+

This directory models the room-based battle game backend of this repository
(`src/`): a Node.js process that keeps running games in memory, plays them by a
pure engine, caches them in Redis and stores every state in PostgreSQL. The modules
say what the code does, TLC checks it on small rooms, and TLAPS proves the rules
of the game, of the lobby and of handing a room from process to process for
instances of any size.

Paths below are relative to the repository's `src/` directory.

## The system

| Component | State it keeps | Operations |
| --- | --- | --- |
| `GameEngine` (`game/gameEngine.ts`) | none: states in, states out | createInitialState, applyAction, processTick, markConnection, markLeft |
| `GameCoordinator` (`game/gameCoordinator.ts`) | one interval timer per running room | applyPlayerMove, getState, handleDisconnect, handleReconnect, handleLeave, startRoom, recoverActiveRooms, tickRoom |
| `GameStateStore` (`state/gameStateStore.ts`) | the hot states, a map in memory with an optional copy in Redis | get, set, delete |
| `RoomRepository` (`rooms/roomRepository.ts`) | the tables of `prisma/schema.prisma`: players, rooms, room_players, game_states, game_actions | createRoom, joinRoom, findMatch, setReady, getStartParticipants, markRoomStarting, persistGameStart, reserveAction, updateActionStatus, persistGameState, getLatestGameState, leaveRoom, markSocketDisconnected, reconnectPlayer, listRecoverableRooms |
| `RoomManager` (`rooms/roomManager.ts`) | none | sequences of repository and coordinator calls; startGame waits for the countdown between two of them |
| Socket.IO server, gateway, Express API | sockets and their rooms | parse a command, call the manager or the coordinator, answer or broadcast |
| `RedisService` | connections | cache and health check |
| `server.ts`, `bootstrap/` | the process | recover, then listen; shut down |

How they interact: a socket command or a REST request calls `RoomManager` or
`GameCoordinator`; these call the repository (awaiting PostgreSQL), hand a
state to the engine, put the result into the state store and then persist it.
The interval timer of a room calls `tickRoom` at 10 Hz whether or not the last
call has ended. Nothing holds a lock: two handlers of one room overlap whenever
one of them waits for the database.

What is hard here:

- **Interleaving.** A handler computes the next state from the hot state,
  stores it there and persists it. Others read and persist in the meantime, and
  their transactions may commit in any order.
- **Partial failure.** The hot state, the snapshot and the status of the action
  are written one after the other; each later one may fail.
- **Crash and recovery.** Memory, timers and calls go; the newest snapshot and
  the action rows stay. Recovery may fail, and the process listens all the same.
- **Retries.** Clients resend actions; `game_actions` and the engine's own
  history must recognise them.
- **Turns.** Death, departure, timeouts and connection changes meet in any
  order at the holder of the turn, with a clock that moves and an order of
  seats that has gaps.
- **The lobby.** Memberships are written by a dozen operations that each read
  first and write later, two of them in transactions whose reads may be outdated
  when they commit.
- **Copies.** The state of a running game is in the memory of a process, in
  Redis (until it expires, or the connection is lost) and in PostgreSQL; another
  process may take over from any of them.

What makes each component correct:

- the engine: the turn is always with a living player who has an opponent; it
  goes round by seat; a move counts once; the dead stay dead; the game ends
  exactly with the last survivor; a version names one state; every survivor's
  turn comes;
- the coordinator with the store and the game tables: the snapshots of a room
  are one history; memory is never behind them; what a client was told is true
  and final; a game in progress is ticked; a finished game stays finished and is
  scored once; a room starts once;
- the lobby: nobody shares a seat, a room is started once and with a roster that
  is a game, nobody joins a room that is in progress;
- the copies of the state: the process that runs the loop has the newest one, and
  what was stored is never undone.

## Modules

| Module | Models |
| --- | --- |
| `GameEngine` | the engine's methods as operators on a state, no variables |
| `BattleGame` | one game: the engine's methods as actions, with a clock for the deadline |
| `LastStanding` | what a game promises, abstractly: seats, who stands, whose turn it is, who won |
| `ActionLedger` | what the action log promises to a client, abstractly |
| `GameCoordinator` | the game of one room on one server with its database, every handler cut at its database requests |
| `RoomLobby` | rooms and memberships, every call of RoomManager cut at its database requests |
| `HotState` | the copies of one running game: the memories of several processes, Redis, game_states |
| `MCBattleGame`, `MCGameCoordinator`, `MCRoomLobby`, `MCHotState` | their instances for TLC |
| `GameEngineProofs` | lemmas about the engine's operators, used by the proofs of both models that run it |
| `BattleGameProofs`, `LastStandingProofs`, `ActionLedgerProofs`, `RoomLobbyProofs`, `HotStateProofs` | theorems about these models, for all constants |
| `GameCoordinatorProofs`, `GameHistoryProofs` | the same for the coordinator: answers, types, start and tick loop; history, effects and end of a game |

`GameEngine` is extended by both `BattleGame` and `GameCoordinator`, so the
rules that are proved in the first are the rules that are interleaved in the
second. `GameCoordinator` instantiates `ActionLedger` with the rows of
`game_actions` as its status and the ids in the newest snapshot as the
effective actions; `LedgerSpec` says that it implements it. `BattleGame`
instantiates `LastStanding` in the same way (`StandingSpec`).

The three models of a room share their seams. `RoomLobby` ends where the game
begins: it hands over a roster (`RosterIsAGame` says that it is one `BattleGame`
begins from) and keeps of the game only who plays, who is alive and in which
phase the hot state and the newest snapshot are. `GameCoordinator` has the game
and its transactions on one process. `HotState` abstracts a state to its version
and the updates that made it, and in exchange has several processes and Redis.

### GameEngine and BattleGame

A state is a record with the fields of `GameRuntimeState` that a rule reads.
Left out are names, events, the tick counter, tick rate and timestamps.
`turnOrder` is the players sorted by seat when the game is created and never
changes, so the model reads the order from the seats (`First`, `After`).
`currentTurnPlayerId` and `winnerPlayerId` are `current` and `winner`, with
`NoPlayer` for undefined.

`Legal` is the conjunction of applyAction's early returns and `ApplyAction` its
result; `ProcessTick`, `MarkConnection` and `MarkLeft` are the methods of those
names. The deadline enters as an argument. `BattleGame` keeps a `clock` that is
before, at or after the deadline: `applyAction` refuses a move only *after* it
and `processTick` ends the turn already *at* it, so at the deadline itself both
are possible and the model lets them race.

The actions are `Move` (an accepted move; a refused one changes nothing),
`TimePasses`, `Tick`, `Connection` and `Leave`, the latter two with the
coordinator's test for a finished game.

### GameCoordinator

JavaScript runs a handler from one await of the database to the next without
interruption, so that is one action; `calls` holds the calls in flight with
the place (`pc`) they wait at.

| Action | Code |
| --- | --- |
| `Submit`, `PlayerCall`, `Tick`, `Start` | a move, a disconnect, reconnect, leave or sync, the interval, START_GAME arrive |
| `Reserve`, `Lookup` | reserveAction: insert the row, or find the one in its way |
| `LoadHot`, `LoadNothing` | stateStore.get with and without a hot state, and what the handler does then, up to its next database request |
| `AskDatabase`, `QueryLatest`, `LoadCold` | getState without a hot state: the query, its result, its late arrival |
| `ReadRoom`, `Commit`, `Persisted` | persistGameState: the read of the room's status, the writes and the commit, the reply with the clean-up of a finished game |
| `Mark`, `Refuse` | updateActionStatus and the answer |
| `MarkStarting`, `PersistStart`, `StartRoom` | startGame: claim the room, countdown and first snapshot, hot state and timer |
| `Crash`, `Recover`, `RecoverNothing` | the process dies; it comes up through recoverActiveRooms; it comes up although the query of recoverActiveRooms has failed, which server.ts catches |
| `Fail` | a database request is refused or its reply is lost |

`neglect` is a history variable: it says which request failed in the running
process that should have started the loop of a room in progress, the one of
recoverActiveRooms or the last one of startGame, if any. No guard reads it;
`InProgressTicks` and the conditions of some theorems do.

Assumptions of this model:

- Redis is not configured (`REDIS_URL` is optional); the store is the map in
  memory. `HotState` has the other case.
- A transaction of persistGameState reads the status before it locks the row by
  updating it (PostgreSQL's default isolation), so it is a read step and a
  commit step. The other transactions write nothing that depends on what they
  read, so each is one step.
- The handlers of one room do not run between two microtasks of each other.
- A request that has not committed when the process dies is rolled back.
- Whether the deadline has passed is a free choice at each move and tick: the
  coordinator must be right for every timing.
- The rows of room_players that these transactions also write are in
  `RoomLobby`; `scored` counts how often wins and losses are written.

### RoomLobby

`rooms` and `members` are the rows, `games` what the coordinator and game_states
hold of each room, `open` the open sockets, `calls` the calls in flight. A call
arrives together with its first query (nothing can be observed between) and is
cut at each later request.

| Action | Code |
| --- | --- |
| `CreateRoom` | createRoom: sizes, room, the owner on seat 1 |
| `JoinRoom`, `ReadForJoin`, `Join` | joinRoom: what its serializable transaction decides on its snapshot; its commit |
| `FindMatch`, `JoinMatch`, `CreateMatch` | findMatch: the page of rooms, then joinRoom or createRoom |
| `ReadForReady`, `SetReady` | setReady: the check, the update |
| `ReadForStart`, `MarkRoomStarting`, `PersistGameStart`, `StartRoom` | startGame |
| `ReadForLeave`, `CountRemaining`, `LeaveRoom`, `HandleLeave` | leaveRoom: the membership, the count inside the transaction, the commit, the coordinator |
| `CloseSocket`, `MarkSocketDisconnected`, `HandleDisconnect` | the disconnect of a socket |
| `ReadForReconnect`, `ReconnectPlayer`, `HandleReconnect` | reconnectPlayer |
| `SyncState`, `GameGoesOn` | SYNC_STATE; a move or tick, of which at most one player dies |
| `Fail` | a request fails or its reply is lost |

Transactions are modelled by what PostgreSQL guarantees. joinRoom is
serializable: it decides on a snapshot, and its commit fails if the row it wants
to update has changed, if a unique key is taken or if another join of the room
has committed since; the other operations are not serializable, so nothing
protects it from them. leaveRoom is read committed: it counts committed rows.
Both hold the lock of the player's row (`Locked`) from their first write on,
leaveRoom that of the membership, too (`RowLocked`); others wait. All other
transactions write values fixed before they began, so each is one step.

A request comes over one of the client's sockets or over REST (`Origin`): then
it has no connection id and leaves that column alone.

### HotState

A state is its version, the set of updates in it and whether the game is over.
Every process has `memory`, a `timer` and a Redis client that is `linked` or not
(`reconnectStrategy: false`: once lost it stays lost). A call looks for the hot
state in memory (`Begin`), in Redis (`Get`, `Got`) and in the database (`Query`,
`Loaded`, `Cached`), goes on with it (`Continue`), and stores what it made
(`Update`, `Persist`, `Persisted`). `Start` and `Recovered` are server.ts with
recoverActiveRooms; `Expire` is the time limit of the Redis key, `Disconnect`,
`Fail` and `CacheFails` the failures (the last one a write to Redis in the
recovery that is rejected, with the state in memory and no loop), `Crash` the end
of a process.

A process sends its commands to Redis over one connection, so they take effect
in the order they are sent and a call goes on only after its own: a write is done
when it is sent, only the reply to a read can be late. `Together` says whether a
process may start while another one runs; the code does not prevent it (see the
findings), the deployment may (one instance that is restarted).

## Runs

All bounds are constants named in the modules. `CHECK_DEADLOCK FALSE` is set
throughout, because a game ends and a bounded model comes to a stop.

| Run | Instance | Checks |
| --- | --- | --- |
| `battle` | 2 players on seats 1, 3 with 9 moves and version 2 for connection changes, 3 players on seats 1, 2, 4 with 4 moves and version 3 for them; health 18, energy to 40; history of 1 id; fairness, no symmetry | `TypeOK`, `TurnHolderAlive`, `GameOverSound`, `AliveIffHealthy`, `TurnsFollowSeats`, `MovesUseUpTurns`, `EliminationIsFinal`, `VersionsGrow`, `StandingSpec`, `EveryoneGetsATurn` |
| `coord_hot` | a running game that one blow may win, and its end; 2 calls in flight (moves, ticks, disconnects, reconnects, leaves) under the constraint `Calm`, 2 actions under one sequence number with retries, 1 crash, 1 database error, versions to 3 and what ends the game beyond | `TypeOK`, `OneHistory`, `MemoryNotBehind`, `AnswersHold`, `VerdictsHold`, `FinishedIsForgotten`, `ScoredOnce`, `LedgerSpec`, `GameOverIsFinal` |
| `coord_start` | from the lobby; 2 calls in flight (starts, moves, ticks, syncs), 1 crash, 1 database error; fairness | `InProgressTicks`, `InProgressHasGame`, `StartsOnce`, `EveryActionSettles` |
| `lobby_rooms` | 1 room with 2 seats, 3 players, 1 socket, 2 calls in flight, all calls, any number of failures | `TypeOK`, `SeatsAreDistinct`, `RosterIsAGame`, `OneStarter` |
| `hot_state` | 2 processes that replace each other, 2 calls in flight, 4 updates, 2 crashes, 2 failures | `TypeOK`, `LoopIsLatest`, `RedisIsHot`, `LoopExtends` |
| `end_race` | 2 calls at the end of a game | `GameOverIsFinal`, violated |
| `lobby_reconnect` | a reconnect in the lobby | `InProgressHasGame`, violated |
| `stuck_start` | a crash in the countdown | `StartingIsTicked`, violated |
| `stale_load` | a sync around the start | `BroadcastIsLatest`, violated |
| `late_join` | a join beside a start | `NoLateJoins`, violated |
| `two_owners` | 2 processes at one time | `LoopIsLatest`, violated |
| `failed_recovery` | a query that fails as the process starts again | `AcceptedIsApplied`, violated |

Why the bounds are enough: seats 1, 2, 4 give every relation of holder, dead
player and wrap; a history of one id is evicted by the second move; health 18
is used up exactly by one attack and by two shielded ones. In nine moves of a
duel energy, which begins at 0, comes to 36 and then to its cap of 40, so a wounded
player heals (20) and a special attack (40) is paid for, also one on a shield,
which halves the odd 35. Two calls are what any race of the coordinator needs, and
with versions to 3 each of them can be overtaken by one more state and a crash.
`MaxVersion` holds back only calls that arrive: a state that is over may have any
version, and those in flight go on. In the lobby, two seats and three players make
a room full, make a member leave and another one come for the seat, and two calls
are a read that is outdated when the write comes; the theorems have no bounds. In
`hot_state` one process stores, another recovers and a third state is in Redis or
on its way; again the theorems have no bounds.

Overlapping calls do break properties when the room has no hot state and when its
game is over, and a reconnect or a cold load does so in the lobby (see the
findings). So `coord_hot` explores only the states of `Calm`, in which calls overlap
while the room has a hot state that is not over; otherwise one call at a time is in
flight. This is the condition of the theorems about these properties (`Spec /\
[]Calm`). What it leaves out: overlap after the state that ends the game has come
into memory (`end_race`), cold loads that overlap with anything, as they do in the
lobby (`stale_load`) and after a recovery that failed (`failed_recovery`). What
follows a failed recovery with one call at a time is in `coord_hot`. `coord_start`
has no reconnects and `hot_state` no processes that run together. What these
runs show holds under the restrictions, and the violated runs show that the
restrictions are needed.

Fairness: `BattleGame`'s `FairSpec` assumes that time goes on and that the
interval timer fires (it is set for every game in progress unless recovery or the
start failed, which `InProgressTicks` checks at the coordinator); nothing is assumed
of players.
`GameCoordinator`'s assumes that the event loop and the database get every call
on; nothing is assumed of arrivals, and `EveryActionSettles` excuses whatever
happens after a crash or a database error.

## Findings

1. **A finished game is reopened** (`end_race`). A disconnect computes version
   2, a move on top of it wins with version 4 (the move and the end raise it by
   one each). If the transaction of version 4 commits first, that of version 2 then sets the room back to IN_PROGRESS with
   version 2, after GAME_OVER was broadcast "with winner and final state"
   (`docs/message-contracts.md:139`).
2. **A reconnect starts the game** (`lobby_reconnect`). handleReconnect loads
   the LOBBY snapshot, markConnection returns it as it is, and persistGameState
   makes the room IN_PROGRESS. It can be neither joined nor started any more
   ("Game can only start from waiting state", `src/rooms/roomRepository.ts:486`).
3. **A crash in the countdown strands the room** (`stuck_start`). Recovery puts
   the LOBBY state into memory and starts no loop for a STARTING room, against
   `docs/architecture.md:74`.
4. **A late read replaces the running game** (`stale_load`). A sync that queried
   the LOBBY snapshot before the start and gets its reply after it puts that
   state over the first state of the game. Ticks then do nothing and moves are
   refused, while the room is IN_PROGRESS
   (`docs/message-contracts.md:133`: "latest authoritative state").
5. **A late joiner gets in** (`late_join`). joinRoom reads a waiting room, the
   room is started, and the join commits: nothing it read has been written by
   another serializable transaction. The player is a member of a room in
   progress and has no part in the game (`docs/message-contracts.md:146`: "Late
   joiners are rejected after room status leaves `WAITING` or `STARTING`").
6. **Two processes own a room** (`two_owners`). A second process recovers every
   room in progress, also those a first one runs, against
   `docs/architecture.md:54` ("owned by one process at a time in memory"); each
   goes on with its own copy.
7. **A failed recovery loses an accepted move** (`failed_recovery`).
   `src/server.ts:13` catches an error of recoverActiveRooms and goes on to listen,
   with no hot state and no loop. A move and a reconnect then load the same
   snapshot, both make version 2 of it, and the upsert of the later one replaces
   the other: the move was acknowledged ("broadcast when a move is applied",
   `docs/message-contracts.md:137`) and is in no state. Turns do not time out
   either ("resumes active loops", `docs/message-contracts.md:149`).

## Proofs

`BattleGameProofs` proves for every set of players, ids, seats and powers, every
limit of health, energy and history allowed by `EngineAssumption` and
`BattleAssumption`, and every bound:

- `Invariance`: the inductive invariant `IInv` (`TypeOK`, `SeatsDistinct`,
  `TurnHolderAlive`, `GameOverSound`, `AliveIffHealthy`);
- `TypeCorrect`, `TurnHolderIsAlive`, `GameOverIsSound`, `LifeIsHealth`: its
  parts that runs check;
- `TurnsGoRound`, `OneMoveATurn`, `NobodyComesBack`, `VersionsNameStates`: the
  action properties;
- `GameStands`: it implements `LastStanding`.

The argument. `SeatsDistinct` is what the strengthening adds: without it "the
lowest seat" does not name one player, and the turn could go from a player to
itself. `First` exists because a non-empty set of naturals has a least element
(`LeastExists`). A step of the game has two halves: a change of the players
that leaves turn, round and holder alone (`Progress`), and the end of the turn
(`TurnEnds`), which leaves the players alone. Each method is shown to be the
first, the second, or one after the other; two lemmas (`ProgressSafe`,
`TurnEndsSafe`) then conclude the invariant and all action properties at once,
and `StepSafe` combines them, one case per action. Health reaches zero exactly
with `alive` because `Struck` is the only effect that lowers it. A step of the
game is a turn that passes, a fall or the last fall in `LastStanding`, or leaves
the four mapped values alone. `LastStandingProofs` shows what the contract gives
(`OneWins`: the turn is always somebody's who stands, until one is left).

What these proofs need of the engine's operators (a method returns a state of
the same game, raises the version by what it changed, never brings anybody back,
forgets an id only when the history is full) is stated once in
`GameEngineProofs`, of any state of `GameState(P)`, and cited by the proofs of
`BattleGame` and of the coordinator.

`ActionLedgerProofs` proves that the ledger tells the truth
(`LedgerTellsTruth`) and that its effects and answers are final
(`LedgerIsFinal`). With `LedgerSpec`, which TLC checks and `LogIsKept` proves, this is what a client of
the coordinator may rely on.

`RoomLobbyProofs` proves `TypeOK`, `SeatsAreDistinct`, `RosterIsAGame` and
`OneStarter` (`TypeCorrect`, `DistinctSeats`, `StartsWithAGame`,
`AtMostOneStart`) for any players, rooms, sizes, sockets and calls in flight, and
that a room never has more members than `maxPlayers`, those who left included
(`Capacity`). The argument: what a
call carries between its read and its write must still be good enough when it
writes. A join carries a seat within the room's size, and the unique keys refuse
it if that is taken; a start carries members of the room, whose seats never
change (rows are never deleted and seats never updated); room sizes never change;
and only the one call that turned WAITING into STARTING is past that point,
because the room is never WAITING again. The inductive invariant is the
conjunction of these facts.

`HotStateProofs` proves `TypeOK`, `LoopIsLatest`, `RedisIsHot` and `LoopExtends`
for any number of processes and calls, assuming `~Together`. The states of one
owner are a chain: the copies in memory, in calls of the owner and in game_states
each include those of lower versions, and the hot state includes all of them, so
no late reply and no late transaction can take anything back. A process that is
down has no calls, so what remains for its successor is game_states, which it
reads, and Redis, which it overwrites before it runs the loop. With `Together`
the chain forks (finding 6).

`GameCoordinatorProofs` and `GameHistoryProofs` prove every safety property that
the runs check of the coordinator, and that it implements the action log, for
any roster, actions, requests, bounds and number of calls, crashes and failures.
Each inductive invariant below is one layer on those before it; all of them were
checked as invariants of the runs first.

| Invariant | What it adds | Theorems | Condition |
| --- | --- | --- | --- |
| `VInv` | a call owns the row of its action from the insert until it has put the final status there | `VerdictsStand` (`VerdictsHold`) | none |
| `NInv` | what failed in this process that should have started the loop: where something did, there is no timer and no call on its way to set it; at most one call is | used with `KInv` | `NoLobbyCalls` |
| `TInv` | what is in memory, stored or held by a call is the lobby or a state of a game of this roster; a snapshot is filed under its version | `TypeCorrect` (`TypeOK`) | none |
| `BInv` | a room has started if and only if it has more than the lobby's snapshot; one call counts down | `GameInProgress` (`InProgressHasGame`), `OneStart` (`StartsOnce`) | `NoLobbyCalls` |
| `KInv` | the loop runs, or the call that stored the first state is on its way to start it, or something that should have started it failed (`neglect`) | `LoopRuns` (`InProgressTicks`) | `NoLobbyCalls`, `NobodyHasWon` |
| `HInv` | what is stored and what calls will store is one line of states; the hot state is the last of them | `OneGame` (`OneHistory`), `HotIsNewest` (`MemoryNotBehind`) | `Calm` |
| `AInv` | the effect of an action is nowhere before its row is received, never after it is rejected, and goes with the owner of the row into the newest snapshot | `AnswersAreTrue` (`AnswersHold`), `LogIsKept` (`LedgerSpec`) | `Calm`; the log also `HistoryHasRoom` |
| `EInv` | room, newest snapshot, hot state, timer, calls and counted wins agree on whether the game is over | `CountedOnce` (`ScoredOnce`), `NothingGoesOn` (`FinishedIsForgotten`), `OverIsOver` (`GameOverIsFinal`) | `Calm` |

The conditions, and why they are there:

- `Calm` is the weakest condition found under which a game has one history: calls
  overlap only while the room has a hot state that is not over. Without a hot
  state two calls may load the same snapshot and play it differently, and the
  hot state of a finished game is dropped while calls still hold it; `stale_load`,
  `failed_recovery` and `end_race` are what happens then. `OneAtATime` proves that
  it holds where calls follow one another.
- `NothingNeglected`: every restart has recovered the room. With this and
  `NobodyHasWon`, `RunningIsCalm` proves that `Calm` holds by itself in a game that
  runs from the beginning (`~FromLobby`), and `RunningGame` draws the conclusions
  with no condition on how calls overlap. A recovery that failed takes all of this
  away (finding 7): other failures and crashes do not.
- `NoLobbyCalls`: nobody disconnects, reconnects or leaves while the room is in
  the lobby; `lobby_reconnect` shows why (finding 2). It says nothing of a game
  that is already running.
- `NobodyHasWon`: `LoopRuns` is about games that go on. A reply that is
  lost after the last transaction stops no timer, and an overlapping call may
  reopen the room without one (finding 1).
- `HistoryHasRoom`: the newest snapshot has not begun to drop ids from
  `processedActionIds`. The log's effects are the ids in it, so with a full
  history the abstraction, not the code, would lose an effect. `AnswersHold` and
  `OneHistory` need no such condition: where an id may have been dropped they go by
  the sequence number of its player, as the code does (`Applied`).
- `HotIsNewest` is about games that run from the beginning (`~FromLobby`): if the
  reply to the transaction that stores the first state is lost, a LOBBY state that
  a sync has put into memory stays there.
- `NoStateIsNone`: `undefined` is not a state.

The argument for `VInv`. The unique constraints let no second call own a row, so
a final status is never overwritten; and a call answered from another row has
seen that row applied, which it stays. An answer `DUPLICATE` is not final: a retry
that finds the row RECEIVED is told that it is rejected as a duplicate, and the
original may be applied a moment later. The documentation promises no more
(`docs/message-contracts.md:145`), so `VerdictsHold` says nothing of it; a
duplicate of another action's sequence number has no effect (`AnswersHold`).

For `NInv` and `KInv`. The loop is started in two places only: in recovery, and by
the one call that claimed the start. Where recovery has failed for a room in
progress, that room is past its start, so no call is on its way to `StartRoom` any
more; where the start has failed it was the only one. So a neglected room stays
without a loop, and one that is not neglected has it.

For `HInv`. A handler replaces the hot state in the same step in which it takes
the state to store from it, so every state a call holds was the hot state once.
`Before` is the order of a game: equal, or a lower version that is not over and
that the engine may follow by the other (`Succeeds`). The engine's methods go up in
it (`MethodsGrow`), and it is transitive as long as nothing follows an end
(`BeforeNext`), so a new hot state comes after everything in play. Transactions
may then commit in any order: the upsert of an older version, which the code does
not prevent, puts it where it belongs in the line. Recovery and cold loads
need a room in which no call holds a newer state; that is where `Calm` is used.

For `AInv`. The call that owns a row is the only one to play its action; before,
the id is in no state (`Unseen`), and once it is played the state the call holds
has it, and what comes after in the line keeps it (`AppliedStays`). When the
transaction has committed, the newest snapshot is that state or a later one, so an
acknowledged action is durable. A step of the coordinator then receives an action,
makes one or several effective with one snapshot, acknowledges, refuses, or leaves
the log alone (`LedgerStep`).

For `EInv`. A finished state is the last of its line, so a call that stores it
stores the hot state, nobody else holds an older one (`AloneIfCalm`), and what it
read of the room's status is still so, which is why the wins are counted once. Where
a reply was lost the room and the hot state are finished, which all methods leave
alone.

Left to TLC: liveness (`EveryoneGetsATurn`, `EveryActionSettles`), which needs
fairness and `ENABLED` and is out of the prover's reach. `coord_start` meets
`NobodyHasWon` because no player loses all health within its bounds, and
`NoLobbyCalls` by its `Kinds`; `coord_hot` has `Calm` as its constraint, and meets
`HistoryHasRoom` because its history is longer than its games. The runs do not
assume the conditions otherwise.
No module declares a RECURSIVE operator, so all of them can be proved about.

## Mutants

Every property of a passing run has a mutant: an operator marked `Mutant:` that
stands before the definition it would replace and has a plausible mistake (a
guard dropped, a status not written, a turn not passed on). With it in place
TLC finds the property violated in the same run. No specification uses them.

## Not modelled

- The players table (upsertPlayer, `currentRoomId`, online status) and the
  health, energy and sequence number copied into room_players: no decision of the
  code reads them back once a game has started.
- Several rooms at once in one run: `RoomLobby` has them and the theorems hold for
  them, but the run has one, so the page of 20 rooms of findMatch is never full.
- An action id that a second player uses, too: the table's keys allow it
  (`[roomId, playerId, actionId]`), the engine's history would refuse it, but
  `Request` gives each id one player.
- Reconnect tokens: a client is taken to reconnect with its own; room codes and
  their collisions.
- REST and socket parsing, broadcasting and the Socket.IO Redis adapter, logging,
  health checks; graceful shutdown, which to the rooms is a crash.
- The reconnect grace time (no code acts on it) and starting a full room
  automatically (the top-level README names it, no code does it).
- The combination of the engine's rules with several processes: `HotState` takes
  an update as one operation of the engine on the state it was given.

## Plan

1. Two rooms in one lobby run, for matchmaking, and a property of the
   statuses a member may have in each status of its room.
2. `GameCoordinator` as an implementation of `HotState` for one process.
3. Who may be a member of a room that is in progress, as a theorem of `RoomLobby`
   with the condition that `late_join` shows to be needed.
