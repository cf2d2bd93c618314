---------------------------- MODULE GameCoordinator ----------------------------
(***************************************************************************)
(* The life of one room's game on one server process and its database:     *)
(* src/game/gameCoordinator.ts with the parts of RoomManager,              *)
(* RoomRepository and GameStateStore its methods call, without Redis (it   *)
(* is optional: REDIS_URL may be unset).                                   *)
(*                                                                         *)
(* The server is single-threaded: what a call does between two database    *)
(* requests is one step, and other calls run while it waits.  calls holds  *)
(* the calls in flight, each at its pc.  A transaction of                  *)
(* persistGameState is two steps, as it reads the room before it locks it  *)
(* by updating it.                                                         *)
(***************************************************************************)
EXTENDS GameEngine, FiniteSets

CONSTANTS
    Call,        \* bound: the calls in flight at one time
    Kinds,       \* the calls that arrive
    Request,     \* what each action id asks for, by its client
    Rows,        \* the room_players rows the game starts from
    FromLobby,   \* whether the room begins in the lobby or in a running game
    NoState,     \* undefined state
    NoAction,
    MaxVersion,  \* bound: no call arrives at this version of a game that
                 \* is not over
    MaxCrashes,  \* bound: crashes of the server
    MaxFailures  \* bound: database errors

Kind == {"move", "disconnect", "reconnect", "leave", "tick", "sync", "start"}

RequestType ==
    [playerId : Player, seq : Nat, type : ActionType,
     target : Player \cup {NoPlayer}, power : Nat]

ASSUME CoordinatorAssumption ==
    /\ Kinds \subseteq Kind
    /\ Request \in [ActionId -> RequestType]
    /\ DOMAIN Rows \subseteq Player /\ Several(DOMAIN Rows)
    /\ \A p \in DOMAIN Rows : Rows[p] \in PlayerRow
    /\ FromLobby \in BOOLEAN
    /\ NoAction \notin ActionId
    /\ MaxVersion \in Nat /\ MaxCrashes \in Nat /\ MaxFailures \in Nat

VARIABLES
    up,         \* the process runs
    memory,     \* its GameStateStore.memory for the room
    timer,      \* the room has an interval timer
    neglect,    \* history: what failed in this process that should have
                \* started the loop of a room in progress, if anything
    room,       \* the rooms row: status and version
    snapshots,  \* the game_states rows, by version
    actions,    \* status of each game_actions row, NONE if there is none
    scored,     \* how often a transaction counted wins and losses
    calls,      \* the calls in flight
    answers,    \* what clients were told of their actions
    crashes, failures

server == <<up, memory, timer, neglect>>
database == <<room, snapshots, actions, scored>>
vars == <<server, database, calls, answers, crashes, failures>>

Idle == [kind |-> "none", pc |-> "idle", playerId |-> NoPlayer,
         action |-> NoAction, round |-> 0, turn |-> 0, state |-> NoState,
         seen |-> "NONE"]

\* What createRoom stores as version 0.
LobbyState ==
    [phase |-> "LOBBY", round |-> 0, turn |-> 0, version |-> 0,
     current |-> NoPlayer, winner |-> NoPlayer, processed |-> <<>>,
     players |-> <<>>]

FirstState == InitialState(Rows)

\* getLatestGameState: the snapshot of the highest version.
LatestVersion ==
    CHOOSE v \in DOMAIN snapshots : \A w \in DOMAIN snapshots : w <= v

Latest == snapshots[LatestVersion]

-------------------------------------------------------------------------------
Init ==
    /\ up = TRUE
    /\ memory = IF FromLobby THEN NoState ELSE FirstState
    /\ timer = ~FromLobby
    /\ neglect = "none"
    /\ room = IF FromLobby THEN [status |-> "WAITING", version |-> 0]
              ELSE [status |-> "IN_PROGRESS", version |-> 1]
    /\ snapshots = IF FromLobby THEN [v \in {0} |-> LobbyState]
                   ELSE [v \in {0, 1} |-> IF v = 0 THEN LobbyState
                                          ELSE FirstState]
    /\ actions = [id \in ActionId |-> "NONE"]
    /\ scored = 0
    /\ calls = [c \in Call |-> Idle]
    /\ answers = {}
    /\ crashes = 0 /\ failures = 0

-------------------------------------------------------------------------------
(***************************************************************************)
(* A call arrives.                                                         *)
(***************************************************************************)
WithinBound(s) == s.phase = "FINISHED" \/ s.version < MaxVersion

Arrive(c, call) ==
    /\ up /\ calls[c] = Idle
    /\ call.kind \in Kinds
    /\ WithinBound(Latest)
    /\ memory # NoState => WithinBound(memory)
    /\ calls' = [calls EXCEPT ![c] = call]
    /\ UNCHANGED <<server, database, answers, crashes, failures>>

\* PLAYER_MOVE: the client puts in the turn it has seen.  Sending the same
\* action again is a retry.
Submit(c, id) ==
    \E s \in {memory, Latest} \ {NoState} :
        Arrive(c, [Idle EXCEPT !.kind = "move", !.pc = "reserve",
                               !.playerId = Request[id].playerId,
                               !.action = id, !.round = s.round,
                               !.turn = s.turn])

\* A socket drops, comes back with its token (refused once the room is
\* closed), or leaves; SYNC_STATE.
PlayerCall(c, kind, p) ==
    /\ kind \in {"disconnect", "reconnect", "leave", "sync"}
    /\ kind = "reconnect" => room.status # "FINISHED"
    /\ Arrive(c, [Idle EXCEPT !.kind = kind, !.pc = "load", !.playerId = p])

\* The interval fires whether or not its last call has ended.
Tick(c) ==
    /\ timer
    /\ Arrive(c, [Idle EXCEPT !.kind = "tick", !.pc = "load"])

\* START_GAME by the owner, the players being ready.
Start(c) ==
    /\ room.status = "WAITING"
    /\ Arrive(c, [Idle EXCEPT !.kind = "start", !.pc = "cas"])

-------------------------------------------------------------------------------
(***************************************************************************)
(* reserveAction: insert the row, or on a unique constraint look up a row  *)
(* of the player with the same id or the same sequence number.             *)
(***************************************************************************)
Rivals(id) ==
    {other \in ActionId :
        /\ actions[other] # "NONE"
        /\ Request[other].playerId = Request[id].playerId
        /\ other = id \/ Request[other].seq = Request[id].seq}

Goto(c, pc) == calls' = [calls EXCEPT ![c].pc = pc]

\* Mutant: the insert has no unique constraint to fail on.
ReserveAgain(c) ==
    /\ calls[c].pc = "reserve"
    /\ actions' = [actions EXCEPT ![calls[c].action] = "RECEIVED"]
    /\ Goto(c, "load")
    /\ UNCHANGED <<server, room, snapshots, scored, answers, crashes, failures>>

Reserve(c) ==
    LET id == calls[c].action
    IN  /\ calls[c].pc = "reserve"
        /\ IF Rivals(id) = {}
           THEN /\ actions' = [actions EXCEPT ![id] = "RECEIVED"]
                /\ Goto(c, "load")
           ELSE Goto(c, "lookup") /\ UNCHANGED actions
        /\ UNCHANGED <<server, room, snapshots, scored, answers, crashes,
                       failures>>

Lookup(c) ==
    /\ calls[c].pc = "lookup"
    /\ \E other \in Rivals(calls[c].action) :
           calls' = [calls EXCEPT ![c].pc = "load",
                                  ![c].seen = actions[other]]
    /\ UNCHANGED <<server, database, answers, crashes, failures>>

-------------------------------------------------------------------------------
(***************************************************************************)
(* What a call does once it holds the state: everything up to the next     *)
(* database request, so in one step with the load.                         *)
(***************************************************************************)
Action(k) ==
    [actionId |-> k.action, playerId |-> k.playerId,
     seq |-> Request[k.action].seq, roundNumber |-> k.round,
     turnNumber |-> k.turn, type |-> Request[k.action].type,
     target |-> Request[k.action].target, power |-> Request[k.action].power]

\* persistAndBroadcast begins: the state becomes the hot state.
Save(c, s) ==
    /\ memory' = s
    /\ calls' = [calls EXCEPT ![c].pc = "read", ![c].state = s]
    /\ UNCHANGED <<timer, answers>>

\* The call ends; a state it had to load stays in memory.
Return(c, s) ==
    /\ memory' = s
    /\ calls' = [calls EXCEPT ![c] = Idle]

Tell(c, answer) == answers' = answers \cup {<<calls[c].action, answer>>}

\* A duplicate is answered from the row that was found.
Replay(c, s) ==
    /\ Return(c, s)
    /\ Tell(c, IF calls[c].seen = "APPLIED" THEN "REPLAYED" ELSE "DUPLICATE")
    /\ UNCHANGED timer

\* Mutant: the client is told before the state is stored.
PlayToldFirst(c, s) ==
    \E expired \in BOOLEAN :
        IF Legal(s, Action(calls[c]), expired)
        THEN /\ memory' = ApplyAction(s, Action(calls[c]))
             /\ calls' = [calls EXCEPT ![c].pc = "read",
                                       ![c].state = memory']
             /\ Tell(c, "ACCEPTED") /\ UNCHANGED timer
        ELSE memory' = s /\ Goto(c, "refuse") /\ UNCHANGED <<timer, answers>>

Play(c, s) ==
    \E expired \in BOOLEAN :
        IF Legal(s, Action(calls[c]), expired)
        THEN Save(c, ApplyAction(s, Action(calls[c])))
        ELSE /\ memory' = s
             /\ Goto(c, "refuse")
             /\ UNCHANGED <<timer, answers>>

\* Mutant: they go on with a finished game.
UpdateAlways(c, s, next) == Save(c, next)

\* handleDisconnect, handleReconnect and handleLeave skip a finished game.
Update(c, s, next) ==
    IF s.phase = "FINISHED"
    THEN Return(c, s) /\ UNCHANGED <<timer, answers>>
    ELSE Save(c, next)

\* tickRoom: a finished game is forgotten; otherwise the deadline is checked.
RunTick(c, s) ==
    IF s.phase = "FINISHED"
    THEN Return(c, NoState) /\ timer' = FALSE /\ UNCHANGED answers
    ELSE \E reached \in BOOLEAN :
             IF TickDue(s, reached) THEN Save(c, ProcessTick(s, reached))
             ELSE Return(c, s) /\ UNCHANGED <<timer, answers>>

Continue(c, s) ==
    LET k == calls[c]
    IN  CASE k.kind = "move" /\ k.seen # "NONE" -> Replay(c, s)
          [] k.kind = "move" /\ k.seen = "NONE" -> Play(c, s)
          [] k.kind = "disconnect" ->
               Update(c, s, MarkConnection(s, k.playerId, FALSE))
          [] k.kind = "reconnect" ->
               Update(c, s, MarkConnection(s, k.playerId, TRUE))
          [] k.kind = "leave" -> Update(c, s, MarkLeft(s, k.playerId))
          [] k.kind = "tick" -> RunTick(c, s)
          [] k.kind = "sync" -> Return(c, s) /\ UNCHANGED <<timer, answers>>

-------------------------------------------------------------------------------
(***************************************************************************)
(* stateStore.get and getState.  disconnect, leave and tick use only the   *)
(* hot state; move, reconnect and sync go to the database for it, and what *)
(* comes back replaces whatever is in memory by then.                      *)
(***************************************************************************)
LoadHot(c) ==
    /\ calls[c].pc = "load"
    /\ memory # NoState
    /\ Continue(c, memory)
    /\ UNCHANGED <<up, neglect, database, crashes, failures>>

LoadNothing(c) ==
    /\ calls[c].pc = "load"
    /\ memory = NoState
    /\ calls[c].kind \in {"disconnect", "leave", "tick"}
    /\ Return(c, NoState)
    /\ timer' = (timer /\ calls[c].kind # "tick")
    /\ UNCHANGED <<up, neglect, database, answers, crashes, failures>>

AskDatabase(c) ==
    /\ calls[c].pc = "load"
    /\ memory = NoState
    /\ calls[c].kind \in {"move", "reconnect", "sync"}
    /\ Goto(c, "query")
    /\ UNCHANGED <<server, database, answers, crashes, failures>>

QueryLatest(c) ==
    /\ calls[c].pc = "query"
    /\ calls' = [calls EXCEPT ![c].pc = "loaded", ![c].state = Latest]
    /\ UNCHANGED <<server, database, answers, crashes, failures>>

LoadCold(c) ==
    /\ calls[c].pc = "loaded"
    /\ Continue(c, calls[c].state)
    /\ UNCHANGED <<up, neglect, database, crashes, failures>>

-------------------------------------------------------------------------------
(***************************************************************************)
(* persistGameState, and what persistAndBroadcast does after it.           *)
(***************************************************************************)
ReadRoom(c) ==
    /\ calls[c].pc = "read"
    /\ calls' = [calls EXCEPT ![c].pc = "commit", ![c].seen = room.status]
    /\ UNCHANGED <<server, database, answers, crashes, failures>>

\* Mutant: snapshots are kept by turn.
StoreByTurn(s) ==
    snapshots' = [v \in DOMAIN snapshots \cup {s.turn} |->
                      IF v = s.turn THEN s ELSE snapshots[v]]

\* The upsert on (room, version).
Store(s) ==
    snapshots' = [v \in DOMAIN snapshots \cup {s.version} |->
                      IF v = s.version THEN s ELSE snapshots[v]]

\* Mutant: wins and losses are counted while the game goes on.
CommitScoring(c) ==
    LET s == calls[c].state
    IN  /\ calls[c].pc = "commit"
        /\ room' = [status |-> IF s.phase = "FINISHED" THEN "FINISHED"
                               ELSE "IN_PROGRESS",
                    version |-> s.version]
        /\ scored' = IF calls[c].seen # "FINISHED" THEN scored + 1 ELSE scored
        /\ Store(s)
        /\ Goto(c, "persisted")
        /\ UNCHANGED <<server, actions, answers, crashes, failures>>

Commit(c) ==
    LET s == calls[c].state
        over == s.phase = "FINISHED"
    IN  /\ calls[c].pc = "commit"
        /\ room' = [status |-> IF over THEN "FINISHED" ELSE "IN_PROGRESS",
                    version |-> s.version]
        /\ scored' = IF over /\ calls[c].seen # "FINISHED"
                     THEN scored + 1 ELSE scored
        /\ Store(s)
        /\ Goto(c, "persisted")
        /\ UNCHANGED <<server, actions, answers, crashes, failures>>

\* After the reply a move goes on to its status and a reconnect to the state
\* it returns.
AfterPersist(k) ==
    CASE k.kind = "move" -> [k EXCEPT !.pc = "mark"]
      [] k.kind = "reconnect" ->
           [Idle EXCEPT !.kind = "sync", !.pc = "load", !.playerId = k.playerId]
      [] OTHER -> Idle

\* Mutant: the state that was stored becomes the hot state once more.
PersistedRefresh(c) ==
    /\ calls[c].pc = "persisted"
    /\ memory' = calls[c].state
    /\ calls' = [calls EXCEPT ![c] = AfterPersist(@)]
    /\ UNCHANGED <<up, timer, neglect, database, answers, crashes, failures>>

\* Mutant: the interval of a finished game is not cleared, nor is its state.
PersistedTicking(c) ==
    /\ calls[c].pc = "persisted"
    /\ calls' = [calls EXCEPT ![c] = AfterPersist(@)]
    /\ UNCHANGED <<server, database, answers, crashes, failures>>

\* Mutant: a move ends without its status.
PersistedUnmarked(c) ==
    /\ calls[c].pc = "persisted"
    /\ calls' = [calls EXCEPT ![c] = Idle]
    /\ UNCHANGED <<server, database, answers, crashes, failures>>

\* The transaction's reply: a finished game is cleaned up.
Persisted(c) ==
    LET k == calls[c]
        over == k.state.phase = "FINISHED"
    IN  /\ k.pc = "persisted"
        /\ memory' = IF over THEN NoState ELSE memory
        /\ timer' = (timer /\ ~over)
        /\ calls' = [calls EXCEPT ![c] = AfterPersist(k)]
        /\ UNCHANGED <<up, neglect, database, answers, crashes, failures>>

\* updateActionStatus and the answer to the client.
Settle(c, pc, status, answer) ==
    /\ calls[c].pc = pc
    /\ actions' = [actions EXCEPT ![calls[c].action] = status]
    /\ Tell(c, answer)
    /\ calls' = [calls EXCEPT ![c] = Idle]
    /\ UNCHANGED <<server, room, snapshots, scored, crashes, failures>>

Mark(c) == Settle(c, "mark", "APPLIED", "ACCEPTED")
Refuse(c) == Settle(c, "refuse", "REJECTED", "REJECTED")

-------------------------------------------------------------------------------
(***************************************************************************)
(* startGame: claim the room, count down, store the first state, start.    *)
(***************************************************************************)
\* Mutant: the update does not ask for a waiting room.
MarkStartingAgain(c) ==
    /\ calls[c].pc = "cas"
    /\ room' = [room EXCEPT !.status = "STARTING"]
    /\ Goto(c, "countdown")
    /\ UNCHANGED <<server, snapshots, actions, scored, answers, crashes,
                   failures>>

MarkStarting(c) ==
    /\ calls[c].pc = "cas"
    /\ IF room.status = "WAITING"
       THEN /\ room' = [room EXCEPT !.status = "STARTING"]
            /\ Goto(c, "countdown")
       ELSE /\ calls' = [calls EXCEPT ![c] = Idle]
            /\ UNCHANGED room
    /\ UNCHANGED <<server, snapshots, actions, scored, answers, crashes,
                   failures>>

\* Mutant: the first state is left to the first move to store.
PersistStartStateless(c) ==
    /\ calls[c].pc = "countdown"
    /\ room' = [status |-> "IN_PROGRESS", version |-> FirstState.version]
    /\ Goto(c, "started")
    /\ UNCHANGED <<server, snapshots, actions, scored, answers, crashes,
                   failures>>

PersistStart(c) ==
    /\ calls[c].pc = "countdown"
    /\ room' = [status |-> "IN_PROGRESS", version |-> FirstState.version]
    /\ Store(FirstState)
    /\ Goto(c, "started")
    /\ UNCHANGED <<server, actions, scored, answers, crashes, failures>>

StartRoom(c) ==
    /\ calls[c].pc = "started"
    /\ Return(c, FirstState)
    /\ timer' = TRUE
    /\ UNCHANGED <<up, neglect, database, answers, crashes, failures>>

-------------------------------------------------------------------------------
(***************************************************************************)
(* The process dies with its memory, its timers and its calls; a request   *)
(* not yet committed is rolled back.  On the way up it recovers the room   *)
(* before it listens.                                                      *)
(***************************************************************************)
Crash ==
    /\ up /\ crashes < MaxCrashes
    /\ up' = FALSE /\ memory' = NoState /\ timer' = FALSE
    /\ neglect' = "none"
    /\ calls' = [c \in Call |-> Idle]
    /\ crashes' = crashes + 1
    /\ UNCHANGED <<database, answers, failures>>

\* listRecoverableRooms: every room has a snapshot from createRoom on.
Recoverable == room.status \in {"STARTING", "IN_PROGRESS"}

\* Mutant: the states are loaded, the loops are not started.
RecoverSilent ==
    /\ ~up /\ up' = TRUE
    /\ memory' = IF Recoverable THEN Latest ELSE NoState
    /\ UNCHANGED <<timer, neglect, database, calls, answers, crashes, failures>>

\* Mutant: the game is set up again from its rows.
RecoverRestarted ==
    /\ ~up /\ up' = TRUE
    /\ memory' = IF Recoverable THEN FirstState ELSE NoState
    /\ timer' = (room.status = "IN_PROGRESS")
    /\ UNCHANGED <<neglect, database, calls, answers, crashes, failures>>

Recover ==
    /\ ~up /\ up' = TRUE
    /\ memory' = IF Recoverable THEN Latest ELSE NoState
    /\ timer' = (room.status = "IN_PROGRESS")
    /\ UNCHANGED <<neglect, database, calls, answers, crashes, failures>>

\* The query fails: server.ts goes on to listen without the rooms.
RecoverNothing ==
    /\ failures < MaxFailures
    /\ ~up /\ up' = TRUE
    /\ neglect' = IF room.status = "IN_PROGRESS" THEN "recovery" ELSE "none"
    /\ failures' = failures + 1
    /\ UNCHANGED <<memory, timer, database, calls, answers, crashes>>

\* A database request fails, or its reply is lost after it took effect: the
\* call throws.
Fail(c) ==
    /\ failures < MaxFailures
    /\ calls[c].pc \notin {"idle", "load", "loaded"}
    /\ calls' = [calls EXCEPT ![c] = Idle]
    /\ neglect' = IF calls[c].pc = "started" THEN "start" ELSE neglect
    /\ failures' = failures + 1
    /\ UNCHANGED <<up, memory, timer, database, answers, crashes>>

Step(c) ==
    \/ Reserve(c) \/ Lookup(c)
    \/ LoadHot(c) \/ LoadNothing(c) \/ AskDatabase(c) \/ QueryLatest(c)
    \/ LoadCold(c)
    \/ ReadRoom(c) \/ Commit(c) \/ Persisted(c) \/ Mark(c) \/ Refuse(c)
    \/ MarkStarting(c) \/ PersistStart(c) \/ StartRoom(c)

Next ==
    \/ \E c \in Call :
          \/ \E id \in ActionId : Submit(c, id)
          \/ \E kind \in Kinds, p \in DOMAIN Rows : PlayerCall(c, kind, p)
          \/ Tick(c)
          \/ Start(c)
          \/ Step(c)
          \/ Fail(c)
    \/ Crash
    \/ Recover \/ RecoverNothing

Spec == Init /\ [][Next]_vars

\* The event loop and the database get every call on.
FairSpec == Spec /\ \A c \in Call : WF_vars(Step(c))

-------------------------------------------------------------------------------
IsState(s) ==
    /\ DOMAIN s.players \in {{}, DOMAIN Rows}
    /\ s \in GameState(DOMAIN s.players)

RoomStatus == {"WAITING", "STARTING", "IN_PROGRESS", "FINISHED"}

Pc == {"idle", "reserve", "lookup", "load", "query", "loaded", "read",
       "commit", "persisted", "mark", "refuse", "cas", "countdown", "started"}

TypeOK ==
    /\ up \in BOOLEAN /\ timer \in BOOLEAN
    /\ neglect \in {"none", "start", "recovery"}
    /\ memory # NoState => IsState(memory)
    /\ room.status \in RoomStatus /\ room.version \in Nat
    /\ \A v \in DOMAIN snapshots :
          IsState(snapshots[v]) /\ snapshots[v].version = v
    /\ actions \in [ActionId -> {"NONE", "RECEIVED", "APPLIED", "REJECTED"}]
    /\ scored \in Nat
    /\ \A c \in Call :
          /\ calls[c].pc \in Pc
          /\ calls[c].pc \in {"read", "commit", "persisted", "mark", "loaded"}
                => IsState(calls[c].state)

Quiet == up /\ \A c \in Call : calls[c] = Idle

\* Calls overlap only while the room has a hot state that is not over.  Where they
\* overlap otherwise, two of them may load and play one snapshot, or hold on to
\* states of a finished game: the violated runs show what comes of it.
Calm ==
    (memory = NoState \/ memory.phase = "FINISHED") =>
        \A c, d \in Call : calls[c] # Idle /\ calls[d] # Idle => c = d

\* The action has had its effect: it is in the history, or may have left it when
\* it was full, and its player's sequence number tells.
Applied(s, id) ==
    LET p == Request[id].playerId
    IN  \/ id \in Ids(s)
        \/ /\ Full(s) /\ p \in DOMAIN s.players
           /\ s.players[p].lastProcessedSeq >= Request[id].seq

\* t can come after s in one game: time goes forward, nobody comes back to
\* life, and what was done stays done.
Precedes(s, t) ==
    /\ s.turn <= t.turn /\ s.round <= t.round
    /\ \A id \in Ids(s) : Applied(t, id)
    /\ \A p \in DOMAIN s.players :
          /\ p \in DOMAIN t.players
          /\ p \in Alive(t) => p \in Alive(s)
          /\ s.players[p].lastProcessedSeq <= t.players[p].lastProcessedSeq

\* The game_states rows, in the order of their versions, are one game, although
\* their transactions overlap, fail and commit out of order and the process
\* crashes between them.
OneHistory ==
    \A v, w \in DOMAIN snapshots :
        v < w => Precedes(snapshots[v], snapshots[w])

\* The hot state is never behind the database: recovery, cold loads and late
\* replies never take the running game back.
MemoryNotBehind ==
    (room.status = "IN_PROGRESS" /\ memory # NoState) =>
        memory.version >= LatestVersion /\ Precedes(Latest, memory)

\* "GAME_STATE_UPDATE: broadcast with latest authoritative state": when
\* nothing is in flight the state that is broadcast and played on is no older
\* than the database's.
BroadcastIsLatest == Quiet => MemoryNotBehind

\* No state has the effect of the action.
NoEffect(id) ==
    /\ \A v \in DOMAIN snapshots : id \notin Ids(snapshots[v])
    /\ memory # NoState => id \notin Ids(memory)

\* "ACTION_ACCEPTED: broadcast when a move is applied": its effect is in the
\* newest snapshot, and stays in those that follow.
AcceptedIsApplied ==
    \A a \in answers : a[2] = "ACCEPTED" => Applied(Latest, a[1])

\* What a client was told of its action is so, and stays so: accepted means the
\* effect is in the newest snapshot, replayed that this or the one that used up
\* its sequence number is, rejected that it is in no snapshot and not in memory.
\* A duplicate of another action's sequence number never has an effect of its
\* own, whatever becomes of that other action.
AnswersHold ==
    /\ AcceptedIsApplied
    /\ \A a \in answers :
          /\ a[2] = "REPLAYED" =>
                \E other \in Rivals(a[1]) : Applied(Latest, other)
          /\ a[2] = "REJECTED" => NoEffect(a[1])
          /\ a[2] \in {"REPLAYED", "DUPLICATE"} /\ a[1] \notin Rivals(a[1]) =>
                NoEffect(a[1])

\* Final answers are final: what a client was told is the status of the action's
\* row from then on, whatever is retried, fails or crashes; a replay stands for
\* the row that has the id or the sequence number.  The answer to a duplicate
\* of a row that was not applied when it was read (DUPLICATE_REJECTED_ACTION)
\* is no verdict: it says that such a row exists, which may yet be applied.
VerdictsHold ==
    \A a \in answers :
        /\ a[2] = "ACCEPTED" => actions[a[1]] = "APPLIED"
        /\ a[2] = "REJECTED" => actions[a[1]] = "REJECTED"
        /\ a[2] = "REPLAYED" =>
              \E other \in Rivals(a[1]) : actions[other] = "APPLIED"
        /\ a[2] = "DUPLICATE" => Rivals(a[1]) # {}

\* A running room is ticked: once the process is up and has nothing in flight,
\* the game in progress is in memory and has its timer, so that turns time out.
\* If the request failed that should have started the loop, recoverActiveRooms'
\* query or the last one of startGame, nobody makes up for it in this process.
InProgressTicks ==
    (Quiet /\ room.status = "IN_PROGRESS") =>
        IF neglect = "none" THEN timer /\ memory # NoState ELSE ~timer

\* When nothing is in flight the process has let go of a finished game: no
\* running copy of it in memory, and no timer, or, if the reply to its last
\* transaction was lost, one that meets the finished state and stops.
FinishedIsForgotten ==
    (Quiet /\ room.status = "FINISHED") =>
        /\ timer => failures > 0 /\ memory # NoState
        /\ memory # NoState => memory.phase = "FINISHED"

\* Wins and losses are counted once, when the room becomes finished.
ScoredOnce == scored = (IF room.status = "FINISHED" THEN 1 ELSE 0)

\* The end of a game is the end: its room is not reopened and the snapshot that
\* names the winner stays the newest.
GameOverStays ==
    room.status = "FINISHED" => room'.status = "FINISHED" /\ Latest' = Latest

GameOverIsFinal == [][GameOverStays]_vars

\* A room starts once: it leaves the lobby by way of starting, never comes
\* back, and the first state is stored by nobody but the call that claimed it.
StartsInOrder ==
    /\ room.status = "WAITING" => room'.status \in {"WAITING", "STARTING"}
    /\ room'.status = "WAITING" => room.status = "WAITING"
    /\ room'.status = "STARTING" => room.status \in {"WAITING", "STARTING"}
    /\ 1 \in DOMAIN snapshots => snapshots'[1] = snapshots[1]

StartsOnce == [][StartsInOrder]_vars

\* A room in progress has a game, not the lobby, as its newest snapshot: the
\* repository's "Game can only start from waiting state".
InProgressHasGame == room.status = "IN_PROGRESS" => Latest.phase # "LOBBY"

\* "loads rooms in STARTING or IN_PROGRESS ... and restarts the tick loop":
\* no room is left in the middle of its start with nobody working on it.
StartingIsTicked == (Quiet /\ room.status = "STARTING") => timer

\* Every action the server has received gets its final status, if the process
\* lives and the database answers, also around the start of the game.
EveryActionSettles ==
    \A id \in ActionId :
        actions[id] = "RECEIVED" ~> \/ actions[id] \in {"APPLIED", "REJECTED"}
                                   \/ crashes + failures > 0

\* The coordinator keeps the promises of the action log.
Ledger == INSTANCE ActionLedger WITH status <- actions,
                                     effective <- Ids(Latest)
LedgerSpec == Ledger!Spec
===============================================================================
