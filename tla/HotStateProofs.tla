----------------------------- MODULE HotStateProofs -----------------------------
(***************************************************************************)
(* The promises of HotState for any number of processes, calls, updates,   *)
(* crashes and failures, if processes replace one another (~Together).     *)
(***************************************************************************)
EXTENDS HotState, TLAPS

(***************************************************************************)
(* The inductive invariant.  At most one process is not down, and all calls *)
(* are its own; while it boots there is only the call that recovers.       *)
(***************************************************************************)
Alone ==
    /\ \A s, t \in Server : up[s] # "down" /\ up[t] # "down" => s = t
    /\ \A s \in Server : timer[s] => up[s] = "up"
    /\ \A c \in Call :
          /\ calls[c].pc # "idle" => up[calls[c].server] # "down"
          /\ calls[c].kind = "recover" <=> calls[c].pc = "recovered"
          /\ calls[c].pc = "recovered" =>
                /\ up[calls[c].server] = "booting"
                /\ \A d \in Call \ {c} : calls[d].pc = "idle"

HasLatest ==
    \E v \in DOMAIN snapshots : \A w \in DOMAIN snapshots : w <= v

\* A state that has all of the newest snapshot in it.
Includes(state) ==
    /\ state \in State
    /\ LatestVersion <= state.version
    /\ Latest.log \subseteq state.log

Storing == {"persist", "persisted"}

\* What is recovered is the newest snapshot.  While a loop runs nothing is
\* loaded, for the hot state is there; and the states on their way to the
\* database are one line that leads from the newest snapshot to the hot state.
Line ==
    /\ \A c \in Call :
          calls[c].pc = "recovered" => Includes(calls[c].state)
    /\ \A s \in Server :
          timer[s] =>
              /\ Includes(memory[s])
              /\ linked[s] => redis \in {NoState, memory[s]}
              /\ \A c \in Call :
                    /\ calls[c].pc \in Storing \cup {"idle"}
                    /\ calls[c].pc \in Storing =>
                          /\ calls[c].state.version <= memory[s].version
                          /\ calls[c].state.log \subseteq memory[s].log
                          /\ LatestVersion <= calls[c].state.version =>
                                Latest.log \subseteq calls[c].state.log
                    /\ \A d \in Call :
                          /\ calls[c].pc \in Storing
                          /\ calls[d].pc \in Storing
                          /\ calls[c].state.version <= calls[d].state.version
                          => calls[c].state.log \subseteq calls[d].state.log

HInv == TypeOK /\ Alone /\ HasLatest /\ Line

-------------------------------------------------------------------------------
LEMMA IdleType ==
    /\ Idle \in CallRecord
    /\ Idle.pc = "idle" /\ Idle.kind = "none"
PROOF BY DEF Idle, CallRecord, Pc, MaybeState

\* A call that moves on keeps its process and its kind.
LEMMA GotoType ==
    ASSUME NEW c \in Call, NEW k \in CallRecord, NEW pc \in Pc,
           NEW state \in MaybeState, Goto(c, k, pc, state)
    PROVE  \E n \in CallRecord :
               /\ calls' = [calls EXCEPT ![c] = n]
               /\ n.server = k.server /\ n.kind = k.kind
               /\ n.pc = pc /\ n.state = state
PROOF
<1>1. PICK n : n = [k EXCEPT !.pc = pc, !.state = state]
  OBVIOUS
<1>2. n \in CallRecord
  BY <1>1 DEF CallRecord
<1>3. n.server = k.server /\ n.kind = k.kind /\ n.pc = pc /\ n.state = state
  BY <1>1 DEF CallRecord
<1> QED BY <1>1, <1>2, <1>3 DEF Goto

\* The newest snapshot is one of them.
LEMMA LatestIsStored ==
    ASSUME TypeOK, HasLatest
    PROVE  /\ LatestVersion \in DOMAIN snapshots
           /\ \A w \in DOMAIN snapshots : w <= LatestVersion
           /\ LatestVersion \in Nat
           /\ Latest \in State /\ Latest.version = LatestVersion
PROOF
<1>1. /\ LatestVersion \in DOMAIN snapshots
      /\ \A w \in DOMAIN snapshots : w <= LatestVersion
  BY DEF HasLatest, LatestVersion
<1> QED BY <1>1 DEF TypeOK, Latest

\* What a call can do once it has the state.
Rests(c, mem) ==
    /\ memory' = mem /\ calls' = [calls EXCEPT ![c] = Idle]
    /\ UNCHANGED <<redis, timer, updates>>

Stops(c, s, mem) ==
    /\ memory' = [mem EXCEPT ![s] = NoState]
    /\ redis' = (IF linked[s] THEN NoState ELSE redis)
    /\ timer' = [timer EXCEPT ![s] = FALSE]
    /\ calls' = [calls EXCEPT ![c] = Idle] /\ UNCHANGED updates

Refreshes(c, s, mem, state) ==
    /\ memory' = [mem EXCEPT ![s] = state]
    /\ redis' = (IF linked[s] THEN state ELSE redis)
    /\ calls' = [calls EXCEPT ![c] = Idle]
    /\ UNCHANGED <<timer, updates>>

Advances(c, k, mem, state) ==
    \E n \in CallRecord :
        /\ calls' = [calls EXCEPT ![c] = n]
        /\ n.pc = "persist" /\ n.server = k.server /\ n.kind = k.kind
        /\ n.state \in State /\ n.state.version = state.version + 1
        /\ state.log \subseteq n.state.log
        /\ memory' = [mem EXCEPT ![k.server] = n.state]
        /\ redis' = (IF linked[k.server] THEN n.state ELSE redis)
        /\ UNCHANGED timer /\ updates' \in Nat

LEMMA ContinueCases ==
    ASSUME TypeOK, NEW c \in Call, NEW k \in CallRecord, NEW mem,
           NEW state \in State, Continue(c, k, mem, state)
    PROVE  \/ Rests(c, mem)
           \/ Stops(c, k.server, mem)
           \/ Refreshes(c, k.server, mem, state)
           \/ Advances(c, k, mem, state)
PROOF
<1>1. CASE Rest(c, mem)
  BY <1>1 DEF Rest, End, Rests
<1>2. CASE /\ Stop(k.server) /\ Set(k.server, mem, NoState)
           /\ End(c) /\ UNCHANGED updates
  BY <1>2 DEF Stop, Set, End, Stops
<1>3. CASE /\ Set(k.server, mem, state)
           /\ End(c) /\ UNCHANGED <<timer, updates>>
  BY <1>3 DEF Set, End, Refreshes
<1>4. CASE Update(c, k, mem, state)
  <2>1. PICK next :
            /\ \E over \in BOOLEAN :
                  next = [version |-> state.version + 1,
                          log |-> state.log \cup {updates}, over |-> over]
            /\ Set(k.server, mem, next) /\ Goto(c, k, "persist", next)
            /\ updates' = updates + 1 /\ UNCHANGED timer
    BY <1>4 DEF Update
  <2>2. /\ next \in State /\ next.version = state.version + 1
        /\ state.log \subseteq next.log /\ updates' \in Nat
    BY <2>1 DEF State, TypeOK
  <2>3. "persist" \in Pc /\ next \in MaybeState
    BY <2>2 DEF Pc, MaybeState
  <2>4. PICK n \in CallRecord :
            /\ calls' = [calls EXCEPT ![c] = n]
            /\ n.server = k.server /\ n.kind = k.kind
            /\ n.pc = "persist" /\ n.state = next
    BY <2>1, <2>3, GotoType
  <2> QED BY <2>1, <2>2, <2>4 DEF Set, Advances
<1> QED BY <1>1, <1>2, <1>3, <1>4 DEF Continue

-------------------------------------------------------------------------------
\* One call moves, no process starts or stops, and none recovers.
LEMMA AloneKept ==
    ASSUME TypeOK, Alone, NEW c \in Call, NEW n \in CallRecord,
           calls' = [calls EXCEPT ![c] = n], UNCHANGED up,
           \A s \in Server : timer'[s] => timer[s],
           n.pc # "idle" => up[n.server] # "down",
           n.kind # "recover", n.pc # "recovered",
           \A d \in Call : calls[d].pc # "recovered"
    PROVE  Alone'
PROOF BY DEF TypeOK, Alone

\* A step while no loop runs leaves nothing to show of the loops.
LEMMA NoLoops ==
    ASSUME \A s \in Server : ~timer'[s],
           \A d \in Call : calls'[d].pc # "recovered"
    PROVE  Line'
PROOF BY DEF Line

\* Nothing is loaded and nobody recovers while a loop runs.
LEMMA LoadingAlone ==
    ASSUME HInv, NEW c \in Call,
           calls[c].pc \in {"get", "got", "query", "loaded", "cached"}
    PROVE  /\ \A s \in Server : ~timer[s]
           /\ \A d \in Call : calls[d].pc # "recovered"
           /\ calls[c].server \in Server /\ up[calls[c].server] # "down"
           /\ calls[c].kind # "recover"
PROOF BY DEF HInv, Line, Alone, TypeOK, Storing

\* A loading call moves.
LEMMA LoadingStep ==
    ASSUME HInv, NEW c \in Call,
           calls[c].pc \in {"get", "got", "query", "loaded", "cached"},
           NEW n \in CallRecord, calls' = [calls EXCEPT ![c] = n],
           \/ n = Idle
           \/ /\ n.server = calls[c].server /\ n.kind = calls[c].kind
              /\ n.pc \notin {"idle", "recovered"}
              /\ n.pc \in Carries => n.state \in State,
           UNCHANGED <<up, linked, database>>,
           memory' \in [Server -> MaybeState], redis' \in MaybeState,
           timer' \in [Server -> BOOLEAN],
           \A s \in Server : timer'[s] => timer[s],
           updates' \in Nat
    PROVE  HInv'
PROOF
<1> USE DEF HInv
<1>1. /\ \A s \in Server : ~timer[s]
      /\ \A d \in Call : calls[d].pc # "recovered"
      /\ calls[c].server \in Server /\ up[calls[c].server] # "down"
      /\ calls[c].kind # "recover"
  BY LoadingAlone
<1>2. /\ n.kind # "recover" /\ n.pc # "recovered"
      /\ n.pc # "idle" => n.server \in Server /\ up[n.server] # "down"
      /\ n.pc \in Carries => n.state \in State
  BY <1>1, IdleType DEF Carries
<1>3. Alone'
  BY <1>1, <1>2, AloneKept
<1>4. Line'
  BY <1>1, <1>2, NoLoops DEF TypeOK
<1>5. TypeOK'
  BY <1>2 DEF TypeOK, database
<1>6. HasLatest'
  BY DEF HasLatest, database
<1> QED BY <1>3, <1>4, <1>5, <1>6

\* The end of a loading call.
LEMMA LoadingContinues ==
    ASSUME HInv, NEW c \in Call, calls[c].pc \in {"got", "cached"},
           NEW mem \in [Server -> MaybeState], NEW state \in State,
           Continue(c, calls[c], mem, state),
           UNCHANGED <<up, linked, database>>
    PROVE  HInv'
PROOF
<1> USE DEF HInv
<1> DEFINE k == calls[c]
<1>1. k \in CallRecord /\ k.server \in Server
  BY LoadingAlone DEF TypeOK
<1>2. /\ NoState \in MaybeState /\ state \in MaybeState
      /\ redis \in MaybeState /\ updates \in Nat
      /\ timer \in [Server -> BOOLEAN]
  BY DEF MaybeState, TypeOK
<1>3. CASE Rests(c, mem)
  BY <1>2, <1>3, LoadingStep, IdleType DEF Rests
<1>4. CASE Stops(c, k.server, mem)
  BY <1>1, <1>2, <1>4, LoadingStep, IdleType DEF Stops
<1>5. CASE Refreshes(c, k.server, mem, state)
  BY <1>1, <1>2, <1>5, LoadingStep, IdleType DEF Refreshes
<1>6. CASE Advances(c, k, mem, state)
  <2>1. PICK n \in CallRecord :
            /\ calls' = [calls EXCEPT ![c] = n]
            /\ n.pc = "persist" /\ n.server = k.server /\ n.kind = k.kind
            /\ n.state \in State
            /\ memory' = [mem EXCEPT ![k.server] = n.state]
            /\ redis' = (IF linked[k.server] THEN n.state ELSE redis)
            /\ UNCHANGED timer /\ updates' \in Nat
    BY <1>6 DEF Advances
  <2>2. n.state \in MaybeState
    BY <2>1 DEF MaybeState
  <2> QED BY <1>1, <1>2, <2>1, <2>2, LoadingStep
<1> QED BY <1>1, <1>3, <1>4, <1>5, <1>6, ContinueCases

\* A call that finds no hot state.
LEMMA MissCases ==
    ASSUME TypeOK, NEW c \in Call, NEW k \in CallRecord, Miss(c, k)
    PROVE  \E n \in CallRecord :
               /\ calls' = [calls EXCEPT ![c] = n]
               /\ n = Idle \/ /\ n.server = k.server /\ n.kind = k.kind
                              /\ n.pc = "query"
               /\ timer' \in [Server -> BOOLEAN]
               /\ \A s \in Server : timer'[s] => timer[s]
               /\ UNCHANGED <<memory, redis, updates>>
PROOF
<1>1. /\ timer' \in [Server -> BOOLEAN]
      /\ \A s \in Server : timer'[s] => timer[s]
      /\ UNCHANGED <<memory, redis, updates>>
  BY DEF Miss, Stop, TypeOK
<1>2. CASE End(c)
  BY <1>1, <1>2, IdleType DEF End
<1>3. CASE Goto(c, k, "query", NoState)
  <2>1. "query" \in Pc /\ NoState \in MaybeState
    BY DEF Pc, MaybeState
  <2> QED BY <1>1, <1>3, <2>1, GotoType
<1> QED BY <1>2, <1>3 DEF Miss

LEMMA GetStep ==
    ASSUME HInv, NEW c \in Call, Get(c)
    PROVE  HInv'
PROOF
<1> USE DEF HInv
<1>1. calls[c] \in CallRecord /\ "got" \in Pc /\ redis \in MaybeState
  BY DEF TypeOK, Pc
<1>2. PICK n \in CallRecord :
          /\ calls' = [calls EXCEPT ![c] = n]
          /\ n.server = calls[c].server /\ n.kind = calls[c].kind
          /\ n.pc = "got"
  BY <1>1, GotoType DEF Get
<1>3. /\ UNCHANGED <<up, linked, database>>
      /\ memory' \in [Server -> MaybeState] /\ redis' \in MaybeState
      /\ timer' \in [Server -> BOOLEAN] /\ updates' \in Nat
      /\ \A s \in Server : timer'[s] => timer[s]
  BY DEF Get, copies, TypeOK
<1> QED BY <1>2, <1>3, LoadingStep DEF Get, Carries

LEMMA GotStep ==
    ASSUME HInv, NEW c \in Call, Got(c)
    PROVE  HInv'
PROOF
<1> USE DEF HInv
<1> DEFINE k == calls[c]
<1>1. k \in CallRecord /\ k.pc = "got" /\ k.state \in MaybeState
      /\ memory \in [Server -> MaybeState]
      /\ UNCHANGED <<up, linked, database>>
  BY DEF Got, TypeOK, CallRecord
<1>2. CASE Miss(c, k)
  <2>1. PICK n \in CallRecord :
            /\ calls' = [calls EXCEPT ![c] = n]
            /\ n = Idle \/ /\ n.server = k.server /\ n.kind = k.kind
                           /\ n.pc = "query"
            /\ timer' \in [Server -> BOOLEAN]
            /\ \A s \in Server : timer'[s] => timer[s]
            /\ UNCHANGED <<memory, redis, updates>>
    BY <1>1, <1>2, MissCases
  <2> QED BY <1>1, <2>1, LoadingStep DEF TypeOK, Carries
<1>3. CASE /\ k.state # NoState
           /\ Continue(c, k, [memory EXCEPT ![k.server] = k.state], k.state)
  <2>1. k.state \in State
    BY <1>1, <1>3 DEF MaybeState
  <2>2. [memory EXCEPT ![k.server] = k.state] \in [Server -> MaybeState]
    BY <1>1
  <2> QED BY <1>1, <1>3, <2>1, <2>2, LoadingContinues
<1> QED BY <1>2, <1>3 DEF Got

LEMMA QueryStep ==
    ASSUME HInv, NEW c \in Call, Query(c)
    PROVE  HInv'
PROOF
<1> USE DEF HInv
<1>1. calls[c] \in CallRecord /\ "loaded" \in Pc
      /\ Latest \in State /\ Latest \in MaybeState
  BY LatestIsStored DEF TypeOK, Pc, MaybeState
<1>2. PICK n \in CallRecord :
          /\ calls' = [calls EXCEPT ![c] = n]
          /\ n.server = calls[c].server /\ n.kind = calls[c].kind
          /\ n.pc = "loaded" /\ n.state = Latest
  BY <1>1, GotoType DEF Query
<1>3. /\ UNCHANGED <<up, linked, database>>
      /\ memory' \in [Server -> MaybeState] /\ redis' \in MaybeState
      /\ timer' \in [Server -> BOOLEAN] /\ updates' \in Nat
      /\ \A s \in Server : timer'[s] => timer[s]
  BY DEF Query, copies, TypeOK
<1> QED BY <1>1, <1>2, <1>3, LoadingStep DEF Query

LEMMA LoadedStep ==
    ASSUME HInv, NEW c \in Call, Loaded(c)
    PROVE  HInv'
PROOF
<1> USE DEF HInv
<1>1. calls[c] \in CallRecord /\ "cached" \in Pc
      /\ calls[c].state \in State /\ calls[c].state \in MaybeState
  BY DEF Loaded, TypeOK, Pc, MaybeState, Carries
<1>2. PICK n \in CallRecord :
          /\ calls' = [calls EXCEPT ![c] = n]
          /\ n.server = calls[c].server /\ n.kind = calls[c].kind
          /\ n.pc = "cached" /\ n.state = calls[c].state
  BY <1>1, GotoType DEF Loaded
<1>3. /\ UNCHANGED <<up, linked, database>>
      /\ memory' \in [Server -> MaybeState] /\ redis' \in MaybeState
      /\ timer' \in [Server -> BOOLEAN] /\ updates' \in Nat
      /\ \A s \in Server : timer'[s] => timer[s]
  BY <1>1 DEF Loaded, Set, TypeOK
<1> QED BY <1>1, <1>2, <1>3, LoadingStep DEF Loaded

LEMMA CachedStep ==
    ASSUME HInv, NEW c \in Call, Cached(c)
    PROVE  HInv'
PROOF
<1>1. calls[c].state \in State /\ memory \in [Server -> MaybeState]
  BY DEF HInv, Cached, TypeOK, Carries
<1> QED BY <1>1, LoadingContinues DEF Cached

-------------------------------------------------------------------------------
\* A call that finds the hot state.
LEMMA HotStep ==
    ASSUME HInv, NEW c \in Call, calls[c] = Idle,
           NEW k \in CallRecord, NEW s \in Server, k.server = s, up[s] = "up",
           k.kind # "recover", memory[s] # NoState,
           Continue(c, k, memory, memory[s]),
           UNCHANGED <<up, linked, database>>
    PROVE  HInv'
PROOF
<1> USE DEF HInv
<1>1. /\ memory[s] \in State /\ memory \in [Server -> MaybeState]
      /\ redis \in MaybeState /\ updates \in Nat
      /\ timer \in [Server -> BOOLEAN] /\ NoState \in MaybeState
  BY DEF TypeOK, MaybeState
<1>2. \A d \in Call : calls[d].pc # "recovered"
  BY DEF Alone, TypeOK
<1>3. \A t \in Server : t # s => ~timer[t]
  BY DEF Alone
<1>4. HasLatest' /\ LatestVersion' = LatestVersion /\ Latest' = Latest
  BY DEF HasLatest, LatestVersion, Latest, database
<1>5. CASE Rests(c, memory)
  <2>1. calls' = calls
    BY <1>5 DEF Rests, TypeOK
  <2>2. UNCHANGED <<memory, redis, timer, updates>>
    BY <1>5 DEF Rests
  <2>3. TypeOK'
    BY <2>1, <2>2 DEF TypeOK, database
  <2>4. Alone'
    BY <2>1, <2>2 DEF Alone
  <2>5. Line'
    BY <1>4, <2>1, <2>2 DEF Line, Includes
  <2> QED BY <1>4, <2>3, <2>4, <2>5
<1>6. CASE Stops(c, s, memory)
  <2>1. calls' = calls
    BY <1>6 DEF Stops, TypeOK
  <2>2. TypeOK'
    BY <1>1, <1>6, <2>1 DEF Stops, TypeOK, database
  <2>3. \A t \in Server : ~timer'[t]
    BY <1>1, <1>3, <1>6 DEF Stops
  <2>4. Alone'
    BY <2>1, <2>3 DEF Alone
  <2>5. Line'
    BY <1>2, <2>1, <2>3, NoLoops
  <2> QED BY <1>4, <2>2, <2>4, <2>5
<1>7. CASE Refreshes(c, s, memory, memory[s])
  <2>1. calls' = calls /\ memory' = memory
    BY <1>1, <1>7 DEF Refreshes, TypeOK
  <2>2. UNCHANGED <<timer, updates>>
        /\ redis' = (IF linked[s] THEN memory[s] ELSE redis)
    BY <1>7 DEF Refreshes
  <2>3. TypeOK'
    BY <1>1, <2>1, <2>2 DEF TypeOK, database
  <2>4. Alone'
    BY <2>1, <2>2 DEF Alone
  <2>5. Line'
    BY <1>3, <1>4, <2>1, <2>2 DEF Line, Includes
  <2> QED BY <1>4, <2>3, <2>4, <2>5
<1>8. CASE Advances(c, k, memory, memory[s])
  <2>1. PICK n \in CallRecord :
            /\ calls' = [calls EXCEPT ![c] = n]
            /\ n.pc = "persist" /\ n.server = s /\ n.kind = k.kind
            /\ n.state \in State
            /\ n.state.version = memory[s].version + 1
            /\ memory[s].log \subseteq n.state.log
            /\ memory' = [memory EXCEPT ![s] = n.state]
            /\ redis' = (IF linked[s] THEN n.state ELSE redis)
            /\ UNCHANGED timer /\ updates' \in Nat
    BY <1>8 DEF Advances
  <2>2. /\ calls' \in [Call -> CallRecord] /\ calls'[c] = n
        /\ \A d \in Call \ {c} : calls'[d] = calls[d]
    BY <2>1 DEF TypeOK
  <2>3. memory'[s] = n.state /\ memory' \in [Server -> MaybeState]
        /\ redis' \in MaybeState
    BY <1>1, <2>1 DEF MaybeState
  <2>4. TypeOK'
    BY <2>1, <2>2, <2>3 DEF TypeOK, database
  <2>5. Alone'
    BY <1>2, <2>1, AloneKept
  <2>6. Line'
    <3>1. \A d \in Call : calls'[d].pc # "recovered"
      BY <1>2, <2>1, <2>2
    <3>2. ASSUME timer[s]
          PROVE  /\ Includes(memory[s])'
                 /\ linked'[s] => redis' \in {NoState, memory'[s]}
                 /\ \A d \in Call :
                       /\ calls'[d].pc \in Storing \cup {"idle"}
                       /\ calls'[d].pc \in Storing =>
                             /\ calls'[d].state.version <= memory'[s].version
                             /\ calls'[d].state.log \subseteq memory'[s].log
                             /\ LatestVersion' <= calls'[d].state.version =>
                                   Latest'.log \subseteq calls'[d].state.log
                       /\ \A e \in Call :
                             /\ calls'[d].pc \in Storing
                             /\ calls'[e].pc \in Storing
                             /\ calls'[d].state.version
                                    <= calls'[e].state.version
                             => calls'[d].state.log \subseteq calls'[e].state.log
      <4>1. /\ LatestVersion <= memory[s].version
            /\ Latest.log \subseteq memory[s].log
            /\ LatestVersion \in Nat /\ memory[s].version \in Nat
        BY <1>1, <3>2, LatestIsStored DEF Line, Includes, State
      <4>2. Includes(memory[s])'
        BY <1>4, <2>1, <2>3, <4>1 DEF Includes
      <4>3. linked'[s] => redis' \in {NoState, memory'[s]}
        BY <2>1, <2>3
      <4>4. \A d \in Call \ {c} :
                /\ calls[d].pc \in Storing \cup {"idle"}
                /\ calls[d].pc \in Storing =>
                      /\ calls[d].state \in State
                      /\ calls[d].state.version \in Nat
                      /\ calls[d].state.version <= memory[s].version
                      /\ calls[d].state.log \subseteq memory[s].log
                      /\ LatestVersion <= calls[d].state.version =>
                            Latest.log \subseteq calls[d].state.log
        BY <3>2 DEF Line, TypeOK, Storing, Carries, State
      <4>5. \A d, e \in Call \ {c} :
                /\ calls[d].pc \in Storing /\ calls[e].pc \in Storing
                /\ calls[d].state.version <= calls[e].state.version
                => calls[d].state.log \subseteq calls[e].state.log
        BY <3>2 DEF Line
      <4>6. \A d \in Call \ {c} :
                calls[d].pc \in Storing =>
                    /\ calls[d].state.log \subseteq n.state.log
                    /\ calls[d].state.version < n.state.version
        BY <2>1, <4>1, <4>4
      <4>7. \A d \in Call :
                /\ calls'[d].pc \in Storing \cup {"idle"}
                /\ calls'[d].pc \in Storing =>
                      /\ calls'[d].state.version <= memory'[s].version
                      /\ calls'[d].state.log \subseteq memory'[s].log
                      /\ LatestVersion' <= calls'[d].state.version =>
                            Latest'.log \subseteq calls'[d].state.log
        <5>1. SUFFICES ASSUME NEW d \in Call
                       PROVE  /\ calls'[d].pc \in Storing \cup {"idle"}
                              /\ calls'[d].pc \in Storing =>
                                   /\ calls'[d].state.version
                                          <= memory'[s].version
                                   /\ calls'[d].state.log
                                          \subseteq memory'[s].log
                                   /\ LatestVersion' <= calls'[d].state.version
                                       => Latest'.log
                                              \subseteq calls'[d].state.log
          OBVIOUS
        <5>2. CASE d = c
          BY <1>4, <2>1, <2>2, <2>3, <4>1, <5>2 DEF Storing, State
        <5>3. CASE d # c
          BY <1>4, <2>1, <2>2, <2>3, <4>1, <4>4, <4>6, <5>3
        <5> QED BY <5>2, <5>3
      <4>8. \A d, e \in Call :
                /\ calls'[d].pc \in Storing /\ calls'[e].pc \in Storing
                /\ calls'[d].state.version <= calls'[e].state.version
                => calls'[d].state.log \subseteq calls'[e].state.log
        <5>1. SUFFICES ASSUME NEW d \in Call, NEW e \in Call,
                              calls'[d].pc \in Storing,
                              calls'[e].pc \in Storing,
                              calls'[d].state.version
                                  <= calls'[e].state.version
                       PROVE  calls'[d].state.log \subseteq calls'[e].state.log
          OBVIOUS
        <5>2. CASE d = c /\ e # c
          <6>1. n.state.version \in Nat /\ calls[e].state.version \in Nat
            BY <2>1, <2>2, <4>4, <5>1, <5>2 DEF State
          <6> QED BY <2>2, <4>6, <5>1, <5>2, <6>1
        <5>3. CASE d # c /\ e = c
          BY <2>2, <4>6, <5>1, <5>3
        <5>4. CASE d # c /\ e # c
          BY <2>2, <4>5, <5>1, <5>4
        <5> QED BY <5>2, <5>3, <5>4
      <4> QED BY <4>2, <4>3, <4>7, <4>8
    <3>3. \A t \in Server : timer'[t] => t = s /\ timer[s]
      BY <1>3, <2>1
    <3> QED BY <3>1, <3>2, <3>3 DEF Line
  <2> QED BY <1>4, <2>4, <2>5, <2>6
<1> QED BY <1>1, <1>5, <1>6, <1>7, <1>8, ContinueCases

LEMMA BeginStep ==
    ASSUME HInv, NEW c \in Call, NEW s \in Server, NEW kind \in Kind,
           Begin(c, s, kind)
    PROVE  HInv'
PROOF
<1> USE DEF HInv
<1>1. PICK k : k = [Idle EXCEPT !.server = s, !.kind = kind]
  OBVIOUS
<1>2. Idle \in CallRecord /\ kind # "recover"
  BY IdleType DEF Kind
<1>3. k \in CallRecord /\ k.server = s /\ k.kind = kind
  BY <1>1, <1>2 DEF CallRecord
<1>4. /\ up[s] = "up" /\ calls[c] = Idle
      /\ UNCHANGED <<up, linked, database>>
  BY DEF Begin, bounds
<1>5. CASE memory[s] # NoState
  <2>1. Continue(c, k, memory, memory[s])
    BY <1>1, <1>5 DEF Begin
  <2> QED BY <1>2, <1>3, <1>4, <1>5, <2>1, HotStep
<1>6. CASE memory[s] = NoState
  <2>1. ~timer[s]
    BY <1>6, HotStateAssumption DEF Line, Includes, State
  <2>2. \A t \in Server : ~timer[t]
    BY <1>4, <2>1 DEF Alone
  <2>3. \A d \in Call : calls[d].pc # "recovered"
    BY <1>4 DEF Alone, TypeOK
  <2>4. PICK n \in CallRecord :
            /\ calls' = [calls EXCEPT ![c] = n]
            /\ n = Idle \/ /\ n.server = s /\ n.kind = kind
                           /\ n.pc \in {"get", "query"}
            /\ timer' \in [Server -> BOOLEAN]
            /\ \A t \in Server : timer'[t] => timer[t]
            /\ UNCHANGED <<memory, redis, updates>>
    <3>1. CASE Goto(c, k, "get", NoState) /\ UNCHANGED <<copies, updates>>
      <4>1. "get" \in Pc /\ NoState \in MaybeState
        BY DEF Pc, MaybeState
      <4>2. PICK n \in CallRecord :
                /\ calls' = [calls EXCEPT ![c] = n]
                /\ n.server = s /\ n.kind = kind /\ n.pc = "get"
        BY <1>3, <3>1, <4>1, GotoType
      <4> QED BY <3>1, <4>2 DEF copies, TypeOK
    <3>2. CASE Miss(c, k)
      BY <1>3, <3>2, MissCases
    <3>3. \/ Goto(c, k, "get", NoState) /\ UNCHANGED <<copies, updates>>
          \/ Miss(c, k)
      BY <1>1, <1>6 DEF Begin
    <3> QED BY <3>1, <3>2, <3>3
  <2>5. /\ n.kind # "recover" /\ n.pc # "recovered"
        /\ n.pc # "idle" => n.server \in Server /\ up[n.server] # "down"
        /\ n.pc \in Carries => n.state \in State
    BY <1>2, <1>4, <2>4, IdleType DEF Carries
  <2>6. TypeOK'
    BY <1>4, <2>4, <2>5 DEF TypeOK, database
  <2>7. Alone'
    BY <1>4, <2>3, <2>4, <2>5, AloneKept
  <2>8. Line'
    BY <2>2, <2>3, <2>4, <2>5, NoLoops DEF TypeOK
  <2>9. HasLatest'
    BY <1>4 DEF HasLatest, database
  <2> QED BY <2>6, <2>7, <2>8, <2>9
<1> QED BY <1>5, <1>6

-------------------------------------------------------------------------------
\* A state is stored.  A late one does not become the newest; the newest one
\* has all of those before it.
LEMMA PersistLatest ==
    ASSUME HInv, NEW c \in Call, Persist(c)
    PROVE  /\ HasLatest'
           /\ LatestVersion' =
                 (IF LatestVersion <= calls[c].state.version
                  THEN calls[c].state.version ELSE LatestVersion)
           /\ Latest' = (IF LatestVersion <= calls[c].state.version
                         THEN calls[c].state ELSE Latest)
PROOF
<1> USE DEF HInv
<1>1. PICK state, version :
          state = calls[c].state /\ version = calls[c].state.version
  OBVIOUS
<1>2. state \in State /\ version \in Nat /\ state.version = version
  BY <1>1 DEF Persist, TypeOK, Carries, State
<1>3. /\ DOMAIN snapshots' = DOMAIN snapshots \cup {version}
      /\ \A v \in DOMAIN snapshots' :
            snapshots'[v] = IF v = version THEN state ELSE snapshots[v]
  BY <1>1 DEF Persist
<1>4. /\ LatestVersion \in DOMAIN snapshots /\ LatestVersion \in Nat
      /\ \A w \in DOMAIN snapshots : w <= LatestVersion /\ w \in Nat
  BY LatestIsStored DEF TypeOK
<1>5. PICK top : top = IF LatestVersion <= version THEN version ELSE LatestVersion
  OBVIOUS
<1>6. /\ top \in DOMAIN snapshots' /\ top \in Nat
      /\ \A w \in DOMAIN snapshots' : w <= top /\ w \in Nat
  BY <1>2, <1>3, <1>4, <1>5
<1>7. \A v \in DOMAIN snapshots' :
          (\A w \in DOMAIN snapshots' : w <= v) => v = top
  BY <1>6
<1>8. HasLatest'
  BY <1>6 DEF HasLatest
<1>9. LatestVersion' = top
  BY <1>6, <1>7 DEF LatestVersion
<1>10. Latest' = snapshots'[top]
  BY <1>9 DEF Latest
<1>11. snapshots'[top] = IF LatestVersion <= version THEN state ELSE Latest
  BY <1>3, <1>4, <1>5, <1>6 DEF Latest
<1> QED BY <1>1, <1>5, <1>8, <1>9, <1>10, <1>11

LEMMA PersistStep ==
    ASSUME HInv, NEW c \in Call, Persist(c)
    PROVE  HInv' /\ Extends
PROOF
<1> USE DEF HInv
<1>1. calls[c] \in CallRecord /\ calls[c].pc = "persist"
      /\ calls[c].state \in State /\ calls[c].state.version \in Nat
      /\ calls[c].state \in MaybeState /\ "persisted" \in Pc
  BY DEF Persist, TypeOK, Carries, State, MaybeState, Pc
<1>2. PICK n \in CallRecord :
          /\ calls' = [calls EXCEPT ![c] = n]
          /\ n.server = calls[c].server /\ n.kind = calls[c].kind
          /\ n.pc = "persisted" /\ n.state = calls[c].state
  BY <1>1, GotoType DEF Persist
<1>3. /\ calls' \in [Call -> CallRecord] /\ calls'[c] = n
      /\ \A d \in Call \ {c} : calls'[d] = calls[d]
  BY <1>2 DEF TypeOK
<1>4. UNCHANGED <<up, linked, memory, timer, redis, updates>>
  BY DEF Persist, copies
<1>5. /\ \A d \in Call : calls[d].pc # "recovered"
      /\ calls[c].kind # "recover" /\ up[calls[c].server] # "down"
      /\ calls[c].server \in Server
  BY <1>1 DEF Alone, TypeOK
<1>6. TypeOK'
  <2>1. /\ 1 \in DOMAIN snapshots'
        /\ \A v \in DOMAIN snapshots' :
              v \in Nat /\ snapshots'[v] \in State /\ snapshots'[v].version = v
    BY <1>1 DEF Persist, TypeOK
  <2>2. status' \in {"IN_PROGRESS", "FINISHED"}
    BY DEF Persist
  <2>3. \A d \in Call :
            /\ calls'[d].pc # "idle" => calls'[d].server \in Server
            /\ calls'[d].pc \in Carries => calls'[d].state \in State
    BY <1>1, <1>2, <1>3, <1>5 DEF TypeOK
  <2> QED BY <1>3, <1>4, <2>1, <2>2, <2>3 DEF TypeOK
<1>7. Alone'
  BY <1>2, <1>4, <1>5, AloneKept
<1>8. /\ LatestVersion' = (IF LatestVersion <= calls[c].state.version
                           THEN calls[c].state.version ELSE LatestVersion)
      /\ Latest' = (IF LatestVersion <= calls[c].state.version
                    THEN calls[c].state ELSE Latest)
      /\ HasLatest' /\ LatestVersion \in Nat
  BY PersistLatest, LatestIsStored
<1>9. ASSUME NEW s \in Server, timer[s]
      PROVE  /\ Latest.log \subseteq Latest'.log
             /\ Includes(memory[s])'
             /\ \A d \in Call :
                   calls'[d].pc \in Storing =>
                       (LatestVersion' <= calls'[d].state.version =>
                           Latest'.log \subseteq calls'[d].state.log)
  <2>1. /\ memory[s] \in State /\ LatestVersion <= memory[s].version
        /\ Latest.log \subseteq memory[s].log
        /\ calls[c].state.version <= memory[s].version
        /\ calls[c].state.log \subseteq memory[s].log
        /\ LatestVersion <= calls[c].state.version =>
              Latest.log \subseteq calls[c].state.log
    BY <1>1, <1>9 DEF Line, Includes, Storing
  <2>2. Latest.log \subseteq Latest'.log
    BY <1>8, <2>1
  <2>3. LatestVersion' <= memory[s].version /\ Latest'.log \subseteq memory[s].log
    BY <1>8, <2>1
  <2>4. Includes(memory[s])'
    BY <1>4, <2>1, <2>3 DEF Includes
  <2>5. \A d \in Call :
            calls'[d].pc \in Storing =>
                (LatestVersion' <= calls'[d].state.version =>
                    Latest'.log \subseteq calls'[d].state.log)
    <3>1. SUFFICES ASSUME NEW d \in Call, calls'[d].pc \in Storing,
                          LatestVersion' <= calls'[d].state.version
                   PROVE  Latest'.log \subseteq calls'[d].state.log
      OBVIOUS
    <3>2. /\ calls'[d].state = calls[d].state /\ calls[d].pc \in Storing
          /\ calls[d].state.version \in Nat
      BY <1>1, <1>2, <1>3, <3>1 DEF Storing, TypeOK, Carries, State
    <3>3. calls[c].state.version <= calls[d].state.version =>
              calls[c].state.log \subseteq calls[d].state.log
      BY <1>1, <1>9, <3>2 DEF Line, Storing
    <3>4. LatestVersion <= calls[d].state.version =>
              Latest.log \subseteq calls[d].state.log
      BY <1>9, <3>2 DEF Line
    <3> QED BY <1>8, <3>1, <3>2, <3>3, <3>4
  <2> QED BY <2>2, <2>4, <2>5
<1>10. Line'
  <2>1. \A d \in Call : calls'[d].pc # "recovered"
    BY <1>2, <1>3, <1>5
  <2>2. ASSUME NEW s \in Server, timer[s]
        PROVE  /\ linked'[s] => redis' \in {NoState, memory'[s]}
               /\ \A d \in Call :
                     /\ calls'[d].pc \in Storing \cup {"idle"}
                     /\ calls'[d].pc \in Storing =>
                           /\ calls'[d].state.version <= memory'[s].version
                           /\ calls'[d].state.log \subseteq memory'[s].log
                     /\ \A e \in Call :
                           /\ calls'[d].pc \in Storing
                           /\ calls'[e].pc \in Storing
                           /\ calls'[d].state.version
                                  <= calls'[e].state.version
                           => calls'[d].state.log \subseteq calls'[e].state.log
    <3>1. \A d \in Call :
              /\ calls'[d].state = calls[d].state
              /\ calls'[d].pc \in Storing <=> calls[d].pc \in Storing
              /\ calls'[d].pc = "idle" <=> calls[d].pc = "idle"
      BY <1>1, <1>2, <1>3 DEF Storing
    <3> QED BY <1>4, <2>2, <3>1 DEF Line
  <2> QED BY <1>4, <1>9, <2>1, <2>2 DEF Line
<1>11. Extends
  BY <1>9 DEF Extends
<1> QED BY <1>6, <1>7, <1>8, <1>10, <1>11

\* What was stored is announced: the end of the game takes the hot state and
\* the loop away.
LEMMA PersistedStep ==
    ASSUME HInv, NEW c \in Call, Persisted(c)
    PROVE  HInv'
PROOF
<1> USE DEF HInv
<1>1. /\ calls[c].pc = "persisted" /\ calls[c].server \in Server
      /\ calls' = [calls EXCEPT ![c] = Idle]
      /\ UNCHANGED <<up, linked, database, updates>>
  BY DEF Persisted, End, TypeOK
<1>2. PICK s : s = calls[c].server
  OBVIOUS
<1>3. \A d \in Call : calls[d].pc # "recovered"
  BY <1>1 DEF Alone
<1>4. /\ memory' \in [Server -> MaybeState] /\ redis' \in MaybeState
      /\ timer' \in [Server -> BOOLEAN]
      /\ \A t \in Server : timer'[t] => timer[t]
      /\ \A t \in Server :
            timer'[t] => memory' = memory /\ redis' = redis
  <2>1. CASE UNCHANGED copies
    BY <2>1 DEF copies, TypeOK
  <2>2. CASE Stop(s) /\ Set(s, memory, NoState)
    <3>1. NoState \in MaybeState
      BY DEF MaybeState
    <3>2. /\ memory' = [memory EXCEPT ![s] = NoState]
          /\ redis' \in {NoState, redis}
          /\ timer' = [timer EXCEPT ![s] = FALSE]
      BY <2>2 DEF Stop, Set
    <3>3. up[s] # "down"
      BY <1>1, <1>2 DEF Alone
    <3>4. \A t \in Server : ~timer'[t]
      BY <1>1, <1>2, <3>2, <3>3 DEF Alone, TypeOK
    <3> QED BY <3>1, <3>2, <3>4 DEF TypeOK
  <2> QED BY <1>2, <2>1, <2>2 DEF Persisted
<1>5. /\ calls' \in [Call -> CallRecord]
      /\ \A d \in Call : calls'[d] = calls[d] \/ calls'[d].pc = "idle"
  BY <1>1, IdleType DEF TypeOK
<1>6. TypeOK'
  BY <1>1, <1>4, <1>5 DEF TypeOK, database, Carries
<1>7. Alone'
  BY <1>1, <1>3, <1>4, IdleType, AloneKept
<1>8. HasLatest' /\ LatestVersion' = LatestVersion /\ Latest' = Latest
  BY <1>1 DEF HasLatest, LatestVersion, Latest, database
<1>9. Line'
  BY <1>1, <1>3, <1>4, <1>5, <1>8 DEF Line, Includes, Storing
<1> QED BY <1>6, <1>7, <1>8, <1>9

-------------------------------------------------------------------------------
\* Calls end, the client loses its connection, or the value in Redis expires.
LEMMA FewerCalls ==
    ASSUME HInv,
           calls' \in [Call -> CallRecord],
           \A d \in Call : calls'[d] = calls[d] \/ calls'[d] = Idle,
           UNCHANGED <<up, memory, timer, database, updates>>,
           redis' = redis \/ redis' = NoState,
           linked' \in [Server -> BOOLEAN],
           \A s \in Server : linked'[s] => linked[s]
    PROVE  HInv'
PROOF
<1> USE DEF HInv
<1>1. \A d \in Call : calls'[d] = calls[d]
                      \/ (calls'[d].pc = "idle" /\ calls'[d].kind = "none")
  BY IdleType
<1>2. TypeOK'
  BY <1>1 DEF TypeOK, database, Carries, MaybeState
<1>3. Alone'
  BY <1>1 DEF Alone
<1>4. HasLatest' /\ LatestVersion' = LatestVersion /\ Latest' = Latest
  BY DEF HasLatest, LatestVersion, Latest, database
<1>5. Line'
  <2>1. ASSUME NEW d \in Call, calls'[d].pc = "recovered"
        PROVE  Includes(calls[d].state)'
    BY <1>1, <1>4, <2>1 DEF Line, Includes
  <2>2. ASSUME NEW s \in Server, timer'[s]
        PROVE  /\ Includes(memory[s])'
               /\ linked'[s] => redis' \in {NoState, memory'[s]}
    BY <1>4, <2>2 DEF Line, Includes
  <2>3. ASSUME NEW s \in Server, timer'[s], NEW d \in Call
        PROVE  /\ calls'[d].pc \in Storing \cup {"idle"}
               /\ calls'[d].pc \in Storing =>
                     /\ calls'[d].state.version <= memory'[s].version
                     /\ calls'[d].state.log \subseteq memory'[s].log
                     /\ LatestVersion' <= calls'[d].state.version =>
                           Latest'.log \subseteq calls'[d].state.log
               /\ \A e \in Call :
                     /\ calls'[d].pc \in Storing
                     /\ calls'[e].pc \in Storing
                     /\ calls'[d].state.version <= calls'[e].state.version
                     => calls'[d].state.log \subseteq calls'[e].state.log
    <3>1. /\ calls[d].pc \in Storing \cup {"idle"}
          /\ calls[d].pc \in Storing =>
                /\ calls[d].state.version <= memory[s].version
                /\ calls[d].state.log \subseteq memory[s].log
                /\ LatestVersion <= calls[d].state.version =>
                      Latest.log \subseteq calls[d].state.log
      BY <2>3 DEF Line
    <3>2. \A e \in Call :
              /\ calls[d].pc \in Storing /\ calls[e].pc \in Storing
              /\ calls[d].state.version <= calls[e].state.version
              => calls[d].state.log \subseteq calls[e].state.log
      BY <2>3 DEF Line
    <3>3. \A e \in Call :
              calls'[e].pc \in Storing => calls'[e] = calls[e]
      BY <1>1 DEF Storing
    <3>4. calls'[d].pc \in Storing \cup {"idle"}
      BY <1>1, <3>1 DEF Storing
    <3> QED BY <1>4, <3>1, <3>2, <3>3, <3>4
  <2> QED BY <2>1, <2>2, <2>3 DEF Line
<1> QED BY <1>2, <1>3, <1>4, <1>5

LEMMA DisconnectStep ==
    ASSUME HInv, NEW s \in Server, Disconnect(s)
    PROVE  HInv'
PROOF
<1>1. /\ calls' \in [Call -> CallRecord]
      /\ \A d \in Call : calls'[d] = calls[d] \/ calls'[d] = Idle
  BY IdleType DEF HInv, Disconnect, TypeOK
<1>2. /\ linked' \in [Server -> BOOLEAN]
      /\ \A t \in Server : linked'[t] => linked[t]
      /\ UNCHANGED <<up, copies, database, updates>>
  BY DEF HInv, Disconnect, TypeOK
<1> QED BY <1>1, <1>2, FewerCalls DEF copies

LEMMA ExpireStep ==
    ASSUME HInv, Expire
    PROVE  HInv'
PROOF BY FewerCalls DEF HInv, TypeOK, Expire

LEMMA StutterStep ==
    ASSUME HInv, UNCHANGED vars
    PROVE  HInv'
PROOF BY FewerCalls DEF HInv, TypeOK, vars, copies

LEMMA FailStep ==
    ASSUME HInv, NEW c \in Call, Fail(c)
    PROVE  HInv'
PROOF
<1> USE DEF HInv
<1>1. /\ calls' \in [Call -> CallRecord]
      /\ \A d \in Call : calls'[d] = (IF d = c THEN Idle ELSE calls[d])
      /\ UNCHANGED <<linked, copies, database, updates>>
  BY IdleType DEF Fail, End, TypeOK
<1>2. CASE calls[c].kind # "recover"
  BY <1>1, <1>2, FewerCalls DEF Fail, copies, TypeOK
<1>3. CASE calls[c].kind = "recover"
  <2>1. PICK s : s = calls[c].server
    OBVIOUS
  <2>2. /\ calls[c].pc = "recovered" /\ s \in Server /\ up[s] = "booting"
        /\ up' = [up EXCEPT ![s] = "up"]
    BY <1>3, <2>1 DEF Fail, Alone, TypeOK
  <2>3. \A d \in Call : calls'[d].pc = "idle" /\ calls'[d].kind # "recover"
    BY <1>1, <2>2, IdleType DEF Alone, TypeOK
  <2>4. \A t \in Server : ~timer'[t]
    BY <1>1, <2>2 DEF Alone, copies, TypeOK
  <2>5. TypeOK'
    BY <1>1, <2>2, <2>3 DEF TypeOK, copies, database, Carries
  <2>6. Alone'
    BY <2>2, <2>3, <2>4 DEF Alone, TypeOK
  <2>7. Line'
    BY <2>3, <2>4, NoLoops
  <2>8. HasLatest'
    BY <1>1 DEF HasLatest, database
  <2> QED BY <2>5, <2>6, <2>7, <2>8
<1> QED BY <1>2, <1>3

\* A process that has recovered the state but not the loop runs none.
LEMMA CacheFailsStep ==
    ASSUME HInv, NEW c \in Call, CacheFails(c)
    PROVE  HInv'
PROOF
<1> USE DEF HInv
<1>1. PICK s, state : s = calls[c].server /\ state = calls[c].state
  OBVIOUS
<1>2. /\ calls[c].pc = "recovered" /\ s \in Server /\ up[s] = "booting"
      /\ state \in State
  BY <1>1 DEF CacheFails, TypeOK, Alone, Carries
<1>3. /\ memory' = [memory EXCEPT ![s] = state]
      /\ redis' \in {redis, state}
      /\ linked' \in {linked, [linked EXCEPT ![s] = FALSE]}
      /\ up' = [up EXCEPT ![s] = "up"]
      /\ calls' = [calls EXCEPT ![c] = Idle]
      /\ UNCHANGED <<timer, database, updates>>
  BY <1>1 DEF CacheFails, End
<1>4. /\ calls' \in [Call -> CallRecord]
      /\ \A d \in Call : calls'[d].pc = "idle" /\ calls'[d].kind # "recover"
  BY <1>2, <1>3, IdleType DEF Alone, TypeOK
<1>5. \A t \in Server : ~timer'[t]
  BY <1>2, <1>3 DEF Alone, TypeOK
<1>6. TypeOK'
  BY <1>2, <1>3, <1>4 DEF TypeOK, database, Carries, MaybeState
<1>7. Alone'
  BY <1>2, <1>3, <1>4, <1>5 DEF Alone, TypeOK
<1>8. Line'
  BY <1>4, <1>5, NoLoops
<1>9. HasLatest'
  BY <1>3 DEF HasLatest, database
<1> QED BY <1>6, <1>7, <1>8, <1>9

\* A process that crashes takes all that goes on with it.
LEMMA CrashStep ==
    ASSUME HInv, NEW s \in Server, Crash(s)
    PROVE  HInv'
PROOF
<1> USE DEF HInv
<1>1. /\ up[s] # "down" /\ up' = [up EXCEPT ![s] = "down"]
      /\ calls' = [d \in Call |-> IF calls[d].server = s THEN Idle ELSE calls[d]]
      /\ memory' = [memory EXCEPT ![s] = NoState]
      /\ linked' = [linked EXCEPT ![s] = FALSE]
      /\ timer' = [timer EXCEPT ![s] = FALSE]
      /\ UNCHANGED <<redis, database, updates>>
  BY DEF Crash, Stop
<1>2. /\ calls' \in [Call -> CallRecord]
      /\ \A d \in Call : calls'[d].pc = "idle" /\ calls'[d].kind # "recover"
  BY <1>1, IdleType DEF Alone, TypeOK
<1>3. \A t \in Server : ~timer'[t]
  BY <1>1 DEF Alone, TypeOK
<1>4. TypeOK'
  BY <1>1, <1>2 DEF TypeOK, database, Carries, MaybeState
<1>5. Alone'
  BY <1>1, <1>2, <1>3 DEF Alone, TypeOK
<1>6. Line'
  BY <1>2, <1>3, NoLoops
<1>7. HasLatest'
  BY <1>1 DEF HasLatest, database
<1> QED BY <1>4, <1>5, <1>6, <1>7

-------------------------------------------------------------------------------
\* A process starts when no other one runs: it reads the newest snapshot.
LEMMA StartStep ==
    ASSUME HInv, ~Together, NEW c \in Call, NEW s \in Server, Start(c, s)
    PROVE  HInv'
PROOF
<1> USE DEF HInv
<1>1. /\ \A t \in Server : up[t] = "down"
      /\ linked' \in [Server -> BOOLEAN]
      /\ UNCHANGED <<copies, database, updates>>
  BY DEF Start, TypeOK
<1>2. \A t \in Server : ~timer'[t]
  BY <1>1 DEF Alone, copies
<1>3. \A d \in Call : calls[d].pc = "idle" /\ calls[d].kind # "recover"
  BY <1>1 DEF Alone, TypeOK
<1>4. HasLatest' /\ LatestVersion' = LatestVersion /\ Latest' = Latest
  BY <1>1 DEF HasLatest, LatestVersion, Latest, database
<1>5. CASE up' = [up EXCEPT ![s] = "up"] /\ UNCHANGED calls
  <2>1. TypeOK'
    BY <1>1, <1>5 DEF TypeOK, copies, database
  <2>2. Alone'
    BY <1>1, <1>2, <1>3, <1>5 DEF Alone, TypeOK
  <2>3. Line'
    BY <1>2, <1>3, <1>5, NoLoops
  <2> QED BY <1>4, <2>1, <2>2, <2>3
<1>6. CASE /\ up' = [up EXCEPT ![s] = "booting"]
           /\ Goto(c, [Idle EXCEPT !.server = s, !.kind = "recover"],
                   "recovered", Latest)
  <2>1. PICK k : k = [Idle EXCEPT !.server = s, !.kind = "recover"]
    OBVIOUS
  <2>2. k \in CallRecord /\ k.server = s /\ k.kind = "recover"
    BY <2>1, IdleType DEF CallRecord
  <2>3. "recovered" \in Pc /\ Latest \in MaybeState /\ Latest \in State
        /\ Latest.version = LatestVersion /\ LatestVersion \in Nat
    BY LatestIsStored DEF Pc, MaybeState
  <2>4. Goto(c, k, "recovered", Latest)
    BY <1>6, <2>1
  <2>5. PICK n \in CallRecord :
            /\ calls' = [calls EXCEPT ![c] = n]
            /\ n.server = s /\ n.kind = "recover"
            /\ n.pc = "recovered" /\ n.state = Latest
    BY <2>2, <2>3, <2>4, GotoType
  <2>6. /\ calls' \in [Call -> CallRecord] /\ calls'[c] = n
        /\ \A d \in Call \ {c} : calls'[d] = calls[d]
    BY <2>5 DEF TypeOK
  <2>7. TypeOK'
    BY <1>1, <1>6, <2>3, <2>5, <2>6 DEF TypeOK, copies, database
  <2>8. Alone'
    BY <1>1, <1>2, <1>3, <1>6, <2>5, <2>6 DEF Alone, TypeOK
  <2>9. \A d \in Call : calls'[d].pc = "recovered" => Includes(calls[d].state)'
    BY <1>3, <1>4, <2>3, <2>5, <2>6 DEF Includes
  <2>10. Line'
    BY <1>2, <2>9 DEF Line
  <2> QED BY <1>4, <2>7, <2>8, <2>10
<1> QED BY <1>5, <1>6 DEF Start

\* The recovered state becomes the hot state, and the loop starts with it.
LEMMA RecoveredStep ==
    ASSUME HInv, NEW c \in Call, Recovered(c)
    PROVE  HInv'
PROOF
<1> USE DEF HInv
<1>1. PICK s, state : s = calls[c].server /\ state = calls[c].state
  OBVIOUS
<1>2. /\ calls[c].pc = "recovered" /\ s \in Server /\ up[s] = "booting"
      /\ state \in State /\ Includes(state)
  BY <1>1 DEF Recovered, TypeOK, Alone, Line, Carries
<1>3. /\ memory' = [memory EXCEPT ![s] = state]
      /\ redis' = (IF linked[s] THEN state ELSE redis)
      /\ timer' = [timer EXCEPT ![s] = TRUE]
      /\ up' = [up EXCEPT ![s] = "up"]
      /\ calls' = [calls EXCEPT ![c] = Idle]
      /\ UNCHANGED <<linked, database, updates>>
  BY <1>1 DEF Recovered, Set, End
<1>4. /\ calls' \in [Call -> CallRecord]
      /\ \A d \in Call : calls'[d].pc = "idle" /\ calls'[d].kind # "recover"
  BY <1>2, <1>3, IdleType DEF Alone, TypeOK
<1>5. \A t \in Server : timer'[t] => t = s
  BY <1>2, <1>3 DEF Alone, TypeOK
<1>6. TypeOK'
  BY <1>2, <1>3, <1>4 DEF TypeOK, database, Carries, MaybeState
<1>7. Alone'
  BY <1>2, <1>3, <1>4, <1>5 DEF Alone, TypeOK
<1>8. HasLatest' /\ LatestVersion' = LatestVersion /\ Latest' = Latest
  BY <1>3 DEF HasLatest, LatestVersion, Latest, database
<1>9. memory'[s] = state /\ (linked'[s] => redis' = state)
  BY <1>2, <1>3 DEF TypeOK
<1>10. Includes(memory[s])'
  BY <1>2, <1>8, <1>9 DEF Includes
<1>11. Line'
  BY <1>4, <1>5, <1>9, <1>10 DEF Line, Storing
<1> QED BY <1>6, <1>7, <1>8, <1>11

LEMMA InitHolds ==
    ASSUME Init
    PROVE  HInv
PROOF
<1>1. PICK s \in Server, l \in BOOLEAN :
          /\ up = [t \in Server |-> IF t = s THEN "up" ELSE "down"]
          /\ linked = [t \in Server |-> t = s /\ l]
          /\ memory = [t \in Server |-> IF t = s THEN First ELSE NoState]
          /\ timer = [t \in Server |-> t = s]
          /\ redis = IF l THEN First ELSE NoState
          /\ snapshots = [v \in {1} |-> First]
          /\ status = "IN_PROGRESS"
          /\ calls = [c \in Call |-> Idle]
          /\ updates = 0
  BY DEF Init
<1>2. First \in State /\ First.version = 1 /\ First.log = {}
  BY DEF First, State
<1>3. TypeOK
  BY <1>1, <1>2, IdleType DEF TypeOK, MaybeState, Carries
<1>4. Alone
  BY <1>1, IdleType DEF Alone
<1>5. HasLatest
  BY <1>1 DEF HasLatest
<1>6. LatestVersion = 1 /\ Latest = First
  BY <1>1 DEF LatestVersion, Latest
<1>7. Line
  <2>1. \A c \in Call : calls[c].pc = "idle"
    BY <1>1, IdleType
  <2>2. ASSUME NEW t \in Server, timer[t]
        PROVE  Includes(memory[t]) /\ (linked[t] => redis \in {NoState, memory[t]})
    <3>1. t = s
      BY <1>1, <2>2
    <3>2. memory[t] = First /\ (linked[t] => redis = First)
      BY <1>1, <3>1
    <3> QED BY <1>2, <1>6, <3>2 DEF Includes
  <2> QED BY <2>1, <2>2 DEF Line, Storing
<1> QED BY <1>3, <1>4, <1>5, <1>7 DEF HInv

LEMMA NextHolds ==
    ASSUME HInv, ~Together, [Next]_vars
    PROVE  HInv'
PROOF BY StartStep, BeginStep, GetStep, GotStep, QueryStep, LoadedStep,
         CachedStep, PersistStep, PersistedStep, RecoveredStep, FailStep,
         CacheFailsStep,
         DisconnectStep, CrashStep, ExpireStep, StutterStep DEF Next

\* Only the transaction of an update writes snapshots.
LEMMA OnlyAdds ==
    ASSUME HInv, [Next]_vars
    PROVE  Extends
PROOF
<1>1. CASE \E c \in Call : Persist(c)
  BY <1>1, PersistStep
<1>2. CASE UNCHANGED snapshots
  <2>1. Latest' = Latest
    BY <1>2 DEF Latest, LatestVersion
  <2> QED BY <2>1 DEF Extends
<1>3. (\E c \in Call : Persist(c)) \/ UNCHANGED snapshots
  BY DEF Next, vars, database, Start, Begin, Get, Got, Query, Loaded, Cached,
         Persisted, Recovered, CacheFails, Fail, Disconnect, Crash, Expire
<1> QED BY <1>1, <1>2, <1>3

-------------------------------------------------------------------------------
(***************************************************************************)
(* Processes that replace one another keep the copies in order, with       *)
(* overlapping calls, late transactions, failures of Redis and of the      *)
(* database, and crashes between any two steps.                            *)
(***************************************************************************)
\* The inductive invariant: one process at a time has the room, and its calls
\* store one line of states that ends at its hot state.
THEOREM Invariance == ASSUME ~Together PROVE Spec => []HInv
PROOF
<1>1. Init => HInv
  BY InitHolds
<1>2. HInv /\ [Next]_vars => HInv'
  BY NextHolds
<1> QED BY <1>1, <1>2, PTL DEF Spec

\* Every copy is a state of the game, and a snapshot is filed under its version.
THEOREM TypeCorrect == ASSUME ~Together PROVE Spec => []TypeOK
PROOF
<1>1. HInv => TypeOK
  BY DEF HInv
<1> QED BY <1>1, Invariance, PTL

\* A process that runs the loop of a room has everything that was stored of it.
THEOREM OwnerIsLatest == ASSUME ~Together PROVE Spec => []LoopIsLatest
PROOF
<1>1. HInv => LoopIsLatest
  BY HotStateAssumption DEF HInv, Line, Includes, LoopIsLatest, State
<1> QED BY <1>1, Invariance, PTL

\* What Redis has is the hot state of the process that runs the loop.
THEOREM RedisFollows == ASSUME ~Together PROVE Spec => []RedisIsHot
PROOF
<1>1. HInv => RedisIsHot
  BY DEF HInv, Line, RedisIsHot
<1> QED BY <1>1, Invariance, PTL

\* No step undoes an update that was stored while a loop runs.
THEOREM NothingIsUndone == ASSUME ~Together PROVE Spec => LoopExtends
PROOF
<1>1. HInv /\ [Next]_vars => [Extends]_vars
  BY OnlyAdds
<1> QED BY <1>1, Invariance, PTL DEF Spec, LoopExtends

================================================================================
