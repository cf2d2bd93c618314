-------------------------------- MODULE HotState --------------------------------
(***************************************************************************)
(* The copies of one running game: the memory of every server process,     *)
(* Redis, and game_states.  It models src/state/gameStateStore.ts and      *)
(* src/state/redisService.ts with the calls of the coordinator that read   *)
(* and write through them, and processes that take a room over from one    *)
(* another.                                                                *)
(*                                                                         *)
(* A state is known by the updates that made it; GameCoordinator has what  *)
(* they do, and the two halves of a transaction.  A call is cut at its     *)
(* awaits.  A process sends its commands over one connection, in order,    *)
(* and each call waits for its own: a write to Redis is done when it is    *)
(* sent, the reply to a read may be late.                                  *)
(***************************************************************************)
EXTENDS Integers

CONSTANTS
    Server, NoServer,
    Call,         \* bound: the calls in flight at one time
    NoState,      \* undefined state
    Together,     \* whether a process starts while another one runs
    MaxUpdates,   \* bound: the updates of the game
    MaxCrashes,   \* bound: crashes of a process
    MaxFailures   \* bound: failing requests and lost connections

Kind == {"move", "leave", "tick", "sync"}

State == [version : Nat, log : SUBSET Nat, over : BOOLEAN]

ASSUME HotStateAssumption ==
    /\ NoServer \notin Server /\ NoState \notin [version : Nat, log : SUBSET Nat, over : BOOLEAN]
    /\ Together \in BOOLEAN
    /\ MaxUpdates \in Nat /\ MaxCrashes \in Nat /\ MaxFailures \in Nat

VARIABLES
    up,         \* of each process: down, booting or up
    linked,     \* its Redis client is ready
    memory,     \* its copy in GameStateStore.memory
    timer,      \* it has an interval timer for the room
    redis,      \* the value under room:{roomId}:state
    snapshots,  \* the game_states rows, by version
    status,     \* the room's status
    calls,      \* the calls in flight
    updates,    \* how many updates were made
    crashes, failures

copies == <<memory, redis, timer>>
database == <<snapshots, status>>
bounds == <<crashes, failures>>
vars == <<up, linked, copies, database, calls, updates, bounds>>

First == [version |-> 1, log |-> {}, over |-> FALSE]

Idle == [server |-> NoServer, kind |-> "none", pc |-> "idle",
         state |-> NoState]

\* getLatestGameState: the snapshot of the highest version.
LatestVersion ==
    CHOOSE v \in DOMAIN snapshots : \A w \in DOMAIN snapshots : w <= v

Latest == snapshots[LatestVersion]

-------------------------------------------------------------------------------
\* One process has started the game.
Init ==
    \E s \in Server, l \in BOOLEAN :
        /\ up = [t \in Server |-> IF t = s THEN "up" ELSE "down"]
        /\ linked = [t \in Server |-> t = s /\ l]
        /\ memory = [t \in Server |-> IF t = s THEN First ELSE NoState]
        /\ timer = [t \in Server |-> t = s]
        /\ redis = IF l THEN First ELSE NoState
        /\ snapshots = [v \in {1} |-> First]
        /\ status = "IN_PROGRESS"
        /\ calls = [c \in Call |-> Idle]
        /\ updates = 0
        /\ crashes = 0 /\ failures = 0

-------------------------------------------------------------------------------
Goto(c, k, pc, state) ==
    calls' = [calls EXCEPT ![c] = [k EXCEPT !.pc = pc, !.state = state]]

End(c) == calls' = [calls EXCEPT ![c] = Idle]

\* stateStore.set, and with NoState stateStore.delete.  mem is memory as the
\* call has left it so far.
Set(s, mem, state) ==
    /\ memory' = [mem EXCEPT ![s] = state]
    /\ redis' = IF linked[s] THEN state ELSE redis

Stop(s) == timer' = [timer EXCEPT ![s] = FALSE]

\* An operation of the engine makes the next state.
Update(c, k, mem, state) ==
    \E over \in BOOLEAN :
        LET next == [version |-> state.version + 1,
                     log |-> state.log \cup {updates}, over |-> over]
        IN  /\ Set(k.server, mem, next)
            /\ Goto(c, k, "persist", next)
            /\ updates' = updates + 1
            /\ UNCHANGED timer

\* The call ends with nothing more than what it loaded.
Rest(c, mem) ==
    /\ memory' = mem
    /\ End(c)
    /\ UNCHANGED <<redis, timer, updates>>

\* The rest of a call once it has the state, up to its next await.  A move may
\* be rejected, a tick may come before the deadline.
Continue(c, k, mem, state) ==
    \/ /\ state.over /\ k.kind = "tick"
       /\ Stop(k.server) /\ Set(k.server, mem, NoState)
       /\ End(c) /\ UNCHANGED updates
    \/ state.over /\ k.kind # "tick" /\ Rest(c, mem)
    \/ ~state.over /\ k.kind \in {"sync", "move"} /\ Rest(c, mem)
    \/ /\ ~state.over /\ k.kind = "tick"
       /\ Set(k.server, mem, state)
       /\ End(c) /\ UNCHANGED <<timer, updates>>
    \/ ~state.over /\ k.kind # "sync" /\ Update(c, k, mem, state)

\* There is no hot state: a tick stops the loop, a leave or disconnect ends,
\* the others go on to the database.
Miss(c, k) ==
    /\ IF k.kind \in {"move", "sync"} THEN Goto(c, k, "query", NoState)
       ELSE End(c)
    /\ IF k.kind = "tick" THEN Stop(k.server) ELSE UNCHANGED timer
    /\ UNCHANGED <<memory, redis, updates>>

\* A call arrives and looks for the hot state.  (A reconnect is like a move, a
\* disconnect like a leave.)
Begin(c, s, kind) ==
    LET k == [Idle EXCEPT !.server = s, !.kind = kind]
    IN  /\ up[s] = "up" /\ calls[c] = Idle
        /\ updates < MaxUpdates
        /\ kind = "tick" => timer[s]
        /\ IF memory[s] # NoState THEN Continue(c, k, memory, memory[s])
           ELSE IF linked[s]
           THEN Goto(c, k, "get", NoState) /\ UNCHANGED <<copies, updates>>
           ELSE Miss(c, k)
        /\ UNCHANGED <<up, linked, database, bounds>>

Get(c) ==
    /\ calls[c].pc = "get"
    /\ Goto(c, calls[c], "got", redis)
    /\ UNCHANGED <<up, linked, copies, database, updates, bounds>>

\* What Redis had replaces whatever is in memory by now.
Got(c) ==
    LET k == calls[c]
    IN  /\ k.pc = "got"
        /\ IF k.state = NoState THEN Miss(c, k)
           ELSE Continue(c, k, [memory EXCEPT ![k.server] = k.state], k.state)
        /\ UNCHANGED <<up, linked, database, bounds>>

\* Mutant: the room's state is looked for in Redis again.
QueryRedis(c) ==
    /\ calls[c].pc = "query"
    /\ Goto(c, calls[c], "loaded", redis)
    /\ UNCHANGED <<up, linked, copies, database, updates, bounds>>

Query(c) ==
    /\ calls[c].pc = "query"
    /\ Goto(c, calls[c], "loaded", Latest)
    /\ UNCHANGED <<up, linked, copies, database, updates, bounds>>

Loaded(c) ==
    LET k == calls[c]
    IN  /\ k.pc = "loaded"
        /\ Set(k.server, memory, k.state)
        /\ Goto(c, k, "cached", k.state)
        /\ UNCHANGED <<up, linked, timer, database, updates, bounds>>

Cached(c) ==
    /\ calls[c].pc = "cached"
    /\ Continue(c, calls[c], memory, calls[c].state)
    /\ UNCHANGED <<up, linked, database, bounds>>

-------------------------------------------------------------------------------
\* The transaction of persistGameState.
Persist(c) ==
    LET k == calls[c]
        version == k.state.version
    IN  /\ k.pc = "persist"
        /\ snapshots' = [v \in DOMAIN snapshots \cup {version} |->
                             IF v = version THEN k.state ELSE snapshots[v]]
        /\ status' = IF k.state.over THEN "FINISHED" ELSE "IN_PROGRESS"
        /\ Goto(c, k, "persisted", k.state)
        /\ UNCHANGED <<up, linked, copies, updates, bounds>>

\* Mutant: the state that was stored becomes the hot state once more.
PersistedRefresh(c) ==
    LET k == calls[c]
    IN  /\ k.pc = "persisted"
        /\ IF k.state.over
           THEN Stop(k.server) /\ Set(k.server, memory, NoState)
           ELSE Set(k.server, memory, k.state) /\ UNCHANGED timer
        /\ End(c)
        /\ UNCHANGED <<up, linked, database, updates, bounds>>

\* The rest of persistAndBroadcast.
Persisted(c) ==
    LET k == calls[c]
    IN  /\ k.pc = "persisted"
        /\ IF k.state.over
           THEN Stop(k.server) /\ Set(k.server, memory, NoState)
           ELSE UNCHANGED copies
        /\ End(c)
        /\ UNCHANGED <<up, linked, database, updates, bounds>>

-------------------------------------------------------------------------------
(***************************************************************************)
(* A process connects to Redis if it can, and recovers the room before it  *)
(* listens.                                                                *)
(***************************************************************************)
\* Mutant: the state Redis has is recovered.
StartFromRedis(c, s) ==
    /\ up[s] = "down" /\ calls[c] = Idle
    /\ ~Together => \A t \in Server : up[t] = "down"
    /\ \E l \in BOOLEAN : linked' = [linked EXCEPT ![s] = l]
    /\ IF status = "IN_PROGRESS"
       THEN /\ up' = [up EXCEPT ![s] = "booting"]
            /\ Goto(c, [Idle EXCEPT !.server = s, !.kind = "recover"],
                    "recovered", IF redis # NoState THEN redis ELSE Latest)
       ELSE up' = [up EXCEPT ![s] = "up"] /\ UNCHANGED calls
    /\ UNCHANGED <<copies, database, updates, bounds>>

Start(c, s) ==
    /\ up[s] = "down" /\ calls[c] = Idle
    /\ ~Together => \A t \in Server : up[t] = "down"
    /\ \E l \in BOOLEAN : linked' = [linked EXCEPT ![s] = l]
    /\ IF status = "IN_PROGRESS"
       THEN /\ up' = [up EXCEPT ![s] = "booting"]
            /\ Goto(c, [Idle EXCEPT !.server = s, !.kind = "recover"],
                    "recovered", Latest)
       ELSE up' = [up EXCEPT ![s] = "up"] /\ UNCHANGED calls
    /\ UNCHANGED <<copies, database, updates, bounds>>

\* Mutant: the recovered state is not put into Redis.
RecoveredLocally(c) ==
    LET k == calls[c]
    IN  /\ k.pc = "recovered"
        /\ memory' = [memory EXCEPT ![k.server] = k.state]
        /\ timer' = [timer EXCEPT ![k.server] = TRUE]
        /\ up' = [up EXCEPT ![k.server] = "up"]
        /\ End(c)
        /\ UNCHANGED <<linked, redis, database, updates, bounds>>

Recovered(c) ==
    LET k == calls[c]
    IN  /\ k.pc = "recovered"
        /\ Set(k.server, memory, k.state)
        /\ timer' = [timer EXCEPT ![k.server] = TRUE]
        /\ up' = [up EXCEPT ![k.server] = "up"]
        /\ End(c)
        /\ UNCHANGED <<linked, database, updates, bounds>>

\* A request fails or its reply is lost: the call throws, and a process that
\* could not recover its rooms goes on without them.
Fail(c) ==
    LET k == calls[c]
    IN  /\ k # Idle /\ failures < MaxFailures
        /\ End(c)
        /\ up' = IF k.kind = "recover" THEN [up EXCEPT ![k.server] = "up"]
                 ELSE up
        /\ failures' = failures + 1
        /\ UNCHANGED <<linked, copies, database, updates, crashes>>

\* The write of a recovered state to Redis is rejected, done or not done: it is
\* in memory, but the loop is not started.
CacheFails(c) ==
    LET k == calls[c]
        s == k.server
    IN  /\ k.pc = "recovered" /\ linked[s] /\ failures < MaxFailures
        /\ memory' = [memory EXCEPT ![s] = k.state]
        /\ redis' \in {redis, k.state}
        /\ linked' \in {linked, [linked EXCEPT ![s] = FALSE]}
        /\ up' = [up EXCEPT ![s] = "up"]
        /\ End(c)
        /\ failures' = failures + 1
        /\ UNCHANGED <<timer, database, updates, crashes>>

\* The client does not reconnect (reconnectStrategy: false); what waits for a
\* value fails with it.
Disconnect(s) ==
    LET waits(c) == calls[c].server = s /\ calls[c].pc \in {"get", "got"}
    IN  /\ linked[s] /\ failures < MaxFailures
        /\ linked' = [linked EXCEPT ![s] = FALSE]
        /\ calls' = [c \in Call |-> IF waits(c) THEN Idle ELSE calls[c]]
        /\ failures' = failures + 1
        /\ UNCHANGED <<up, copies, database, updates, crashes>>

\* ROOM_STATE_TTL_MS after the last write.
Expire ==
    /\ redis # NoState /\ redis' = NoState
    /\ UNCHANGED <<up, linked, memory, timer, database, calls, updates, bounds>>

Crash(s) ==
    /\ up[s] # "down" /\ crashes < MaxCrashes
    /\ up' = [up EXCEPT ![s] = "down"]
    /\ linked' = [linked EXCEPT ![s] = FALSE]
    /\ memory' = [memory EXCEPT ![s] = NoState]
    /\ Stop(s)
    /\ calls' = [c \in Call |-> IF calls[c].server = s THEN Idle ELSE calls[c]]
    /\ crashes' = crashes + 1
    /\ UNCHANGED <<redis, database, updates, failures>>

Next ==
    \/ \E c \in Call :
          \/ \E s \in Server :
                Start(c, s) \/ \E kind \in Kind : Begin(c, s, kind)
          \/ Get(c) \/ Got(c) \/ Query(c) \/ Loaded(c) \/ Cached(c)
          \/ Persist(c) \/ Persisted(c) \/ Recovered(c)
          \/ CacheFails(c) \/ Fail(c)
    \/ \E s \in Server : Disconnect(s) \/ Crash(s)
    \/ Expire

Spec == Init /\ [][Next]_vars

-------------------------------------------------------------------------------
Pc == {"idle", "get", "got", "query", "loaded", "cached", "persist",
       "persisted", "recovered"}

MaybeState == State \cup {NoState}

CallRecord ==
    [server : Server \cup {NoServer}, kind : Kind \cup {"none", "recover"},
     pc : Pc, state : MaybeState]

Carries == {"loaded", "cached", "persist", "persisted", "recovered"}

TypeOK ==
    /\ up \in [Server -> {"down", "booting", "up"}]
    /\ linked \in [Server -> BOOLEAN]
    /\ memory \in [Server -> MaybeState]
    /\ timer \in [Server -> BOOLEAN]
    /\ redis \in MaybeState
    /\ 1 \in DOMAIN snapshots
    /\ \A v \in DOMAIN snapshots :
          v \in Nat /\ snapshots[v] \in State /\ snapshots[v].version = v
    /\ status \in {"IN_PROGRESS", "FINISHED"}
    /\ calls \in [Call -> CallRecord]
    /\ \A c \in Call :
          /\ calls[c].pc # "idle" => calls[c].server \in Server
          /\ calls[c].pc \in Carries => calls[c].state \in State
    /\ updates \in Nat

\* "Each active room is owned by one process at a time in memory": the process
\* that runs the loop of the room has the newest state, whatever has become of
\* Redis, and however the room was handed over.
LoopIsLatest ==
    \A s \in Server :
        timer[s] => memory[s] # NoState /\ Latest.log \subseteq memory[s].log

\* Nothing that was stored is undone while a process runs the loop: overlapping
\* calls, late transactions and the caches of other processes only add to it.
Extends ==
    (\E s \in Server : timer[s]) => Latest.log \subseteq Latest'.log

LoopExtends == [][Extends]_vars

\* As long as the owner reaches Redis the value there is its own hot state, or
\* has expired: another process cannot be served anything else.
RedisIsHot ==
    \A s \in Server :
        timer[s] /\ linked[s] => redis \in {NoState, memory[s]}
================================================================================
