--------------------------- MODULE GameHistoryProofs ---------------------------
(***************************************************************************)
(* What the coordinator, the tick loop and the two stores make of a game   *)
(* together: one history, hot state that is not behind it, answers that    *)
(* are true of it, and an end that happens once.                           *)
(***************************************************************************)
EXTENDS GameCoordinatorProofs

-------------------------------------------------------------------------------
(***************************************************************************)
(* One history, for as many calls as there are while the game is in memory *)
(* and not over (Calm).  Without a hot state two calls may load and play   *)
(* the same snapshot, and a finished state is let go of while a call holds *)
(* it: the runs stale_load, failed_recovery and end_race.                  *)
(***************************************************************************)
\* A call that holds a state which it stores, or has just stored.
Holding == {"read", "commit", "persisted"}

InPlay(s) ==
    \/ \E v \in DOMAIN snapshots : s = snapshots[v]
    \/ \E c \in Call : calls[c].pc \in Holding /\ s = calls[c].state

\* t is s or comes after it in the game; nothing comes after its end.
Before(s, t) ==
    \/ s = t
    \/ /\ s.version < t.version
       /\ s = LobbyState \/ (s.phase # "FINISHED" /\ Succeeds(s, t))

(***************************************************************************)
(* The inductive invariant: what is stored and what calls will store is    *)
(* one line of states, and the hot state is the last of them.              *)
(***************************************************************************)
InLobby == memory \in {NoState, LobbyState}

Fresh ==
    /\ DOMAIN snapshots = {0} /\ InLobby
    /\ \A s : InPlay(s) => s = LobbyState

Starter(k) == k.pc \in {"countdown", "started"}

CallCalm(k) ==
    /\ k.pc \in Holding => memory # NoState
    /\ k.pc \in Holding /\ memory = LobbyState => k.state = LobbyState
    /\ k.pc \in {"query", "loaded"} => memory = NoState
    /\ k.pc = "loaded" => k.state = Latest
    /\ k.pc = "countdown" => Fresh
    /\ k.pc = "started" => /\ InLobby /\ 1 \in DOMAIN snapshots
                           /\ \A s : InPlay(s) => s \in {LobbyState, FirstState}
    /\ Starter(k) => room.status # "WAITING"
    /\ ~up => k = Idle

Ordered == \A s, t : InPlay(s) /\ InPlay(t) => Before(s, t) \/ Before(t, s)

Newest == ~InLobby => \A s : InPlay(s) => Before(s, memory)

HInv ==
    /\ 0 \in DOMAIN snapshots
    /\ Ordered
    /\ Newest
    /\ room.status \in {"WAITING", "STARTING"} => Fresh
    /\ ~FromLobby => 1 \in DOMAIN snapshots /\ memory # LobbyState
    /\ \A c \in Call : CallCalm(calls[c])
    /\ \A c, d \in Call : Starter(calls[c]) /\ Starter(calls[d]) => c = d

LEMMA InPlayKnown ==
    ASSUME TInv, NEW s, InPlay(s)
    PROVE  Known(s)
PROOF
  BY DEF TInv, CallTyped, InPlay, Holding

\* What is in play and comes before s comes before what follows s.
LEMMA BeforeNext ==
    ASSUME NEW r, NEW s, NEW t, Known(r), Known(s), Known(t), Before(r, s),
           s.phase # "FINISHED", Succeeds(s, t)
    PROVE  Before(r, t)
PROOF
<1>1. r.version \in Nat /\ s.version \in Nat /\ t.version \in Nat
  BY KnownFacts
<1>2. CASE r = s
  BY <1>2 DEF Before, Succeeds
<1>3. CASE r = LobbyState /\ r # s
  BY <1>1, <1>3 DEF Before, Succeeds
<1>4. CASE r # s /\ r # LobbyState
  <2>1. Succeeds(r, s) /\ r.phase # "FINISHED"
    BY <1>4 DEF Before
  <2>2. /\ Begun(DOMAIN Rows, r) /\ Begun(DOMAIN Rows, t)
        /\ s # LobbyState => Begun(DOMAIN Rows, s)
    <3>1. t # LobbyState
      BY <1>1, LobbyFacts DEF Succeeds
    <3> QED BY <1>4, <3>1 DEF Known
  <2>3. s # LobbyState
    BY <1>1, <2>1, LobbyFacts DEF Succeeds
  <2>4. \A u \in {r, s, t} :
           /\ u.turn \in Nat /\ u.round \in Nat
           /\ DOMAIN u.players = DOMAIN Rows
           /\ \A p \in DOMAIN Rows : u.players[p].lastProcessedSeq \in Nat
    BY <2>2, <2>3 DEF Begun, GameState, PlayerState
  <2>5. Succeeds(r, t)
    BY <1>1, <2>1, <2>4 DEF Succeeds
  <2> QED BY <2>1, <2>5 DEF Before, Succeeds
<1> QED BY <1>2, <1>3, <1>4

\* Of two states in play the one with the lower version comes first.
LEMMA LowerIsBefore ==
    ASSUME TInv, HInv, NEW s, NEW t, InPlay(s), InPlay(t),
           s.version <= t.version
    PROVE  Before(s, t)
PROOF
<1>1. s.version \in Nat /\ t.version \in Nat
  BY InPlayKnown, KnownFacts
<1>2. Before(s, t) \/ Before(t, s)
  BY DEF HInv, Ordered
<1> QED BY <1>1, <1>2 DEF Before

LEMMA BeforeLatest ==
    ASSUME TInv, HInv
    PROVE  /\ InPlay(Latest)
           /\ \A v \in DOMAIN snapshots : Before(snapshots[v], Latest)
PROOF
<1>1. LatestVersion \in DOMAIN snapshots /\ Latest.version = LatestVersion
      /\ \A w \in DOMAIN snapshots : w <= LatestVersion
  BY LatestFacts
<1>2. InPlay(Latest)
  BY <1>1 DEF InPlay, Latest
<1>3. ASSUME NEW v \in DOMAIN snapshots
      PROVE  Before(snapshots[v], Latest)
  <2>1. InPlay(snapshots[v]) /\ snapshots[v].version = v
    BY DEF InPlay, TInv
  <2> QED BY <1>1, <1>2, <2>1, LowerIsBefore
<1> QED BY <1>2, <1>3

\* The lobby's state comes before all others.
LEMMA LobbyFirst ==
    ASSUME NEW s, Known(s)
    PROVE  Before(LobbyState, s)
PROOF
  BY KnownFacts, LobbyFacts DEF Before

\* The newest snapshot is the lobby's as long as there is no other.
LEMMA LatestInLobby ==
    ASSUME TInv, HInv
    PROVE  /\ snapshots[0] = LobbyState /\ InPlay(LobbyState)
           /\ Fresh => Latest = LobbyState
           /\ ~FromLobby => Latest # LobbyState
PROOF
<1>1. snapshots[0] = LobbyState
  BY KnownFacts DEF TInv, HInv
<1>2. InPlay(LobbyState)
  BY <1>1 DEF InPlay, HInv
<1>3. Fresh => Latest = LobbyState
  BY BeforeLatest DEF Fresh
<1>4. ~FromLobby => Latest # LobbyState
  <2>1. ~FromLobby => LatestVersion >= 1 /\ LatestVersion \in Nat
    BY LatestFacts DEF HInv
  <2> QED BY <2>1, LatestFacts, LobbyFacts
<1> QED BY <1>1, <1>2, <1>3, <1>4

-------------------------------------------------------------------------------
\* What is in play after a step of one call that stores nothing.
LEMMA InPlayStep ==
    ASSUME VInv, NEW c \in Call, NEW n, calls' = [calls EXCEPT ![c] = n],
           snapshots' = snapshots, NEW s, InPlay(s)'
    PROVE  InPlay(s) \/ (n.pc \in Holding /\ s = n.state)
PROOF
<1>1. \A d \in Call : calls'[d] = IF d = c THEN n ELSE calls[d]
  BY DEF VInv
<1> QED BY <1>1 DEF InPlay

\* One call moves on and takes nothing new in; the rest stays.
LEMMA KeptHistory ==
    ASSUME VInv, TInv, HInv, NEW c \in Call, NEW n,
           calls' = [calls EXCEPT ![c] = n],
           UNCHANGED <<memory, room, snapshots>>, up' <=> up,
           n.pc \in Holding =>
               calls[c].pc \in Holding /\ n.state = calls[c].state,
           n.pc \in {"query", "loaded"} => memory = NoState,
           n.pc = "loaded" => n.state = Latest,
           ~Starter(n),
           ~up => n = Idle
    PROVE  HInv'
PROOF
<1>1. \A d \in Call : calls'[d] = IF d = c THEN n ELSE calls[d]
  BY DEF VInv
<1>2. Latest' = Latest
  BY DEF Latest, LatestVersion
<1>3. \A s : InPlay(s)' => InPlay(s)
  <2> SUFFICES ASSUME NEW s, InPlay(s)' PROVE InPlay(s)
    OBVIOUS
  <2>1. InPlay(s) \/ (n.pc \in Holding /\ s = n.state)
    BY InPlayStep
  <2> QED BY <2>1 DEF InPlay
<1>4. Ordered' /\ Newest'
  BY <1>3 DEF HInv, Ordered, Newest, InLobby, Before
<1>5. Fresh => Fresh'
  BY <1>3 DEF Fresh, InLobby
<1>6. ASSUME NEW d \in Call, CallCalm(calls[d])
      PROVE  CallCalm(calls[d])'
  <2>1. CASE d # c
    BY <1>1, <1>2, <1>3, <1>5, <1>6, <2>1 DEF CallCalm, InLobby, Starter
  <2>2. CASE d = c
    <3>1. calls'[d] = n
      BY <1>1, <2>2
    <3>2. calls[c].pc \in Holding =>
              /\ memory # NoState
              /\ memory = LobbyState => calls[c].state = LobbyState
      BY <1>6, <2>2 DEF CallCalm
    <3> QED BY <1>2, <3>1, <3>2 DEF CallCalm, Starter
  <2> QED BY <2>1, <2>2
<1>7. \A d, e \in Call : Starter(calls'[d]) /\ Starter(calls'[e]) => d = e
  BY <1>1 DEF HInv
<1>8. \A d \in Call : CallCalm(calls[d])'
  BY <1>6 DEF HInv
<1> QED BY <1>4, <1>5, <1>7, <1>8 DEF HInv, Starter

LEMMA LightHistory ==
    ASSUME VInv, TInv, HInv, NEW c \in Call, NEW n, Light(c, n)
    PROVE  HInv'
PROOF
<1>1. /\ calls' = [calls EXCEPT ![c] = n]
      /\ n.pc \in {"idle", "reserve", "lookup", "load", "query", "cas"}
      /\ n.pc = "query" => memory = NoState
      /\ n # Idle /\ calls[c] = Idle => up
      /\ UNCHANGED <<memory, room, snapshots>>
  BY DEF Light
<1>2. up' <=> up
  BY DEF Light
<1>3. ~up => n = Idle
  BY <1>1 DEF HInv, CallCalm
<1> QED BY <1>1, <1>2, <1>3, KeptHistory DEF Holding, Starter

\* At most one call is left and it holds nothing; the hot state is what is
\* stored, or none.
LEMMA AloneHistory ==
    ASSUME TInv, HInv, NoStateIsNone, UNCHANGED <<room, snapshots>>,
           memory' \in {NoState, Latest},
           \A d \in Call :
               \/ calls'[d] = Idle
               \/ up' /\ calls'[d].pc \in {"load", "mark", "refuse"}
    PROVE  HInv'
PROOF
<1>1. \A d \in Call : calls'[d].pc \in {"idle", "load", "mark", "refuse"}
  BY IdleTyped
<1>2. \A s : InPlay(s)' => \E v \in DOMAIN snapshots : s = snapshots[v]
  BY <1>1 DEF InPlay, Holding
<1>3. \A s : InPlay(s)' => InPlay(s) /\ Before(s, Latest)
  BY <1>2, BeforeLatest DEF InPlay
<1>4. Ordered'
  BY <1>3 DEF HInv, Ordered, Before
<1>5. Newest'
  BY <1>3 DEF Newest, InLobby, Before
<1>6. Fresh => Fresh'
  BY <1>3, LatestInLobby DEF Fresh, InLobby
<1>7. ~FromLobby => memory' # LobbyState
  BY LatestInLobby, KnownIsState DEF Known
<1>8. \A d \in Call : CallCalm(calls[d])' /\ ~Starter(calls'[d])
  BY <1>1 DEF CallCalm, Holding, Starter
<1> QED BY <1>4, <1>5, <1>6, <1>7, <1>8 DEF HInv, Starter

\* A call has its state and goes on to the next one.
LEMMA NextHistory ==
    ASSUME VInv, TInv, HInv, NoStateIsNone, NEW c \in Call, NEW n, NEW s, NEW t,
           calls[c].pc \in Loading, Known(s), NextOf(calls[c], s, t),
           \/ s = memory /\ memory # NoState
           \/ s = Latest /\ \A d \in Call \ {c} : calls[d] = Idle,
           calls' = [calls EXCEPT ![c] = n], n.pc = "read", n.state = t,
           memory' = t, UNCHANGED <<room, snapshots>>, up' <=> up
    PROVE  HInv'
PROOF
<1>1. \A d \in Call : calls'[d] = IF d = c THEN n ELSE calls[d]
  BY DEF VInv
<1>2. /\ Known(t) /\ Succeeds(s, t) /\ s.phase # "FINISHED"
      /\ s # LobbyState /\ t # LobbyState /\ t # NoState
  BY KnownIsState DEF NextOf
<1>3. ASSUME NEW r, InPlay(r)
      PROVE  Before(r, s)
  <2>1. CASE s = memory /\ memory # NoState
    BY <1>2, <1>3, <2>1 DEF HInv, Newest, InLobby
  <2>2. CASE s = Latest /\ \A d \in Call \ {c} : calls[d] = Idle
    <3>1. \E v \in DOMAIN snapshots : r = snapshots[v]
      BY <1>3, <2>2, IdleTyped DEF InPlay, Holding, Loading
    <3> QED BY <2>2, <3>1, BeforeLatest
  <2> QED BY <2>1, <2>2
<1>4. \A r : InPlay(r) => Before(r, t)
  BY <1>2, <1>3, BeforeNext, InPlayKnown
<1>5. \A r : InPlay(r)' => InPlay(r) \/ r = t
  BY InPlayStep
<1>6. Ordered'
  BY <1>4, <1>5 DEF HInv, Ordered, Before
<1>7. Newest'
  BY <1>4, <1>5 DEF Newest, Before
<1>8. ~Fresh
  BY <1>2, LatestInLobby DEF Fresh, InLobby
<1>9. ASSUME NEW d \in Call
      PROVE  CallCalm(calls[d])' /\ ~Starter(calls'[d])
  <2>1. CASE d = c
    <3>1. calls'[d] = n /\ up
      BY <1>1, <2>1, IdleTyped DEF HInv, CallCalm, Loading
    <3> QED BY <1>2, <3>1 DEF CallCalm, Holding, Starter
  <2>2. CASE d # c /\ calls[d] = Idle
    BY <1>1, <2>2, IdleTyped DEF CallCalm, Holding, Starter
  <2>3. CASE d # c /\ calls[d] # Idle
    <3>1. calls'[d] = calls[d] /\ s = memory /\ ~InLobby
      BY <1>1, <1>2, <2>3 DEF InLobby
    <3>2. CallCalm(calls[d])
      BY DEF HInv
    <3>3. calls[d].pc \notin {"query", "loaded", "countdown", "started"}
      BY <1>8, <3>1, <3>2 DEF CallCalm, InLobby
    <3> QED BY <1>2, <3>1, <3>2, <3>3 DEF CallCalm, Starter
  <2> QED BY <2>1, <2>2, <2>3
<1> QED BY <1>2, <1>6, <1>7, <1>8, <1>9 DEF HInv

\* Disconnecting, reconnecting and leaving store the lobby's state once more.
LEMMA LobbyHistory ==
    ASSUME VInv, TInv, HInv, NoStateIsNone, NEW c \in Call, NEW n,
           calls[c].pc \in Loading,
           \/ memory = LobbyState
           \/ Latest = LobbyState /\ \A d \in Call \ {c} : calls[d] = Idle,
           calls' = [calls EXCEPT ![c] = n], n.pc = "read",
           n.state = LobbyState, memory' = LobbyState,
           UNCHANGED <<room, snapshots>>, up' <=> up
    PROVE  HInv'
PROOF
<1>1. \A d \in Call : calls'[d] = IF d = c THEN n ELSE calls[d]
  BY DEF VInv
<1>2. LobbyState # NoState
  BY KnownIsState DEF Known
<1>3. \A r : InPlay(r)' => InPlay(r)
  BY InPlayStep, LatestInLobby
<1>4. Ordered' /\ Newest'
  BY <1>3 DEF HInv, Ordered, Before, Newest, InLobby
<1>5. Fresh => Fresh'
  BY <1>3 DEF Fresh, InLobby
<1>6. FromLobby
  BY LatestInLobby DEF HInv
<1>7. ASSUME NEW d \in Call
      PROVE  CallCalm(calls[d])'
  <2>1. CASE d = c
    <3>1. calls'[d] = n /\ up
      BY <1>1, <2>1, IdleTyped DEF HInv, CallCalm, Loading
    <3> QED BY <1>2, <3>1 DEF CallCalm, Holding, Starter
  <2>2. CASE d # c /\ calls[d] = Idle
    BY <1>1, <2>2, IdleTyped DEF CallCalm, Holding, Starter
  <2>3. CASE d # c /\ calls[d] # Idle
    <3>1. calls'[d] = calls[d] /\ memory = LobbyState
      BY <1>1, <2>3
    <3>2. CallCalm(calls[d])
      BY DEF HInv
    <3> QED BY <1>2, <1>3, <1>5, <3>1, <3>2 DEF CallCalm, Starter, InLobby
  <2> QED BY <2>1, <2>2, <2>3
<1>8. \A d \in Call : Starter(calls'[d]) => Starter(calls[d])
  BY <1>1 DEF Starter
<1> QED BY <1>4, <1>5, <1>6, <1>7, <1>8 DEF HInv

LEMMA CallEndsCalm ==
    ASSUME NEW n, n = Idle \/ n.pc \in {"idle", "load", "mark", "refuse"}
    PROVE  n.pc \notin Holding \cup {"query", "loaded"} /\ ~Starter(n)
PROOF
  BY IdleTyped DEF Holding, Starter

LEMMA ContinueHistory ==
    ASSUME VInv, TInv, HInv, NoStateIsNone, NEW c \in Call, NEW s,
           calls[c].pc \in Loading, Known(s), Continue(c, s),
           \/ s = memory /\ memory # NoState
           \/ s = Latest /\ \A d \in Call \ {c} : calls[d] = Idle,
           s.phase = "FINISHED" => \A d \in Call \ {c} : calls[d] = Idle,
           UNCHANGED <<up, database, failures>>
    PROVE  HInv'
PROOF
<1> DEFINE k == calls[c]
<1>1. CallTyped(k)
  BY DEF TInv
<1>2. UNCHANGED <<room, snapshots>>
  BY DEF database
<1>3. up' <=> up
  OBVIOUS
<1>4. up
  BY IdleTyped DEF HInv, CallCalm, Loading
<1>5. ASSUME NEW n, calls' = [calls EXCEPT ![c] = n], memory' = s,
             n = Idle \/ n.pc = "refuse"
      PROVE  HInv'
  <2>1. CASE s = memory
    BY <1>2, <1>3, <1>4, <1>5, <2>1, CallEndsCalm, KeptHistory
  <2>2. CASE s = Latest /\ \A d \in Call \ {c} : calls[d] = Idle
    <3>1. \A d \in Call :
              \/ calls'[d] = Idle
              \/ up' /\ calls'[d].pc \in {"load", "mark", "refuse"}
      BY <1>3, <1>4, <1>5, <2>2 DEF VInv
    <3> QED BY <1>2, <1>5, <2>2, <3>1, AloneHistory
  <2> QED BY <2>1, <2>2
<1>6. CASE Ends(c, s)
  BY <1>5, <1>6 DEF Ends
<1>7. CASE Refuses(c, s)
  <2>1. PICK n : Moves(c, n) /\ n.pc = "refuse"
    BY <1>7 DEF Refuses
  <2> QED BY <1>5, <1>7, <2>1 DEF Refuses, Moves
<1>8. CASE Forgets(c, s)
  <2>1. \A d \in Call : calls'[d] = Idle
    BY <1>8 DEF Forgets, VInv
  <2> QED BY <1>2, <1>8, <2>1, AloneHistory DEF Forgets
<1>9. ASSUME NEW t, Saves(c, s, t)
      PROVE  HInv'
  <2>1. PICK n : Moves(c, n) /\ n.pc = "read" /\ n.state = t
    BY <1>9 DEF Saves
  <2>2. calls' = [calls EXCEPT ![c] = n] /\ memory' = t
    BY <1>9, <2>1 DEF Saves, Moves
  <2>3. CASE NextOf(k, s, t)
    BY <1>2, <1>3, <2>1, <2>2, <2>3, NextHistory
  <2>4. CASE SameLobby(k, s, t)
    <3>1. s = LobbyState /\ t = LobbyState
      BY <2>4 DEF SameLobby
    <3> QED BY <1>2, <1>3, <2>1, <2>2, <3>1, LobbyHistory
  <2> QED BY <1>9, <2>3, <2>4 DEF Saves
<1> QED BY <1>1, <1>6, <1>7, <1>8, <1>9, ContinueCases

\* Calm leaves nobody beside a call that found no hot state or a finished one.
LEMMA AloneIfCalm ==
    ASSUME Calm, NEW c \in Call, calls[c].pc # "idle",
           memory = NoState \/ memory.phase = "FINISHED"
    PROVE  \A d \in Call \ {c} : calls[d] = Idle
PROOF
  BY IdleTyped DEF Calm

LEMMA LoadHistory ==
    ASSUME VInv, TInv, HInv, Calm, NoStateIsNone, NEW c \in Call,
           \/ LoadHot(c) \/ LoadNothing(c) \/ QueryLatest(c) \/ LoadCold(c)
    PROVE  HInv'
PROOF
<1> DEFINE k == calls[c]
<1>1. CallTyped(k) /\ CallCalm(k)
  BY DEF TInv, HInv
<1>2. up
  BY <1>1, IdleTyped
     DEF CallCalm, LoadHot, LoadNothing, QueryLatest, LoadCold
<1>3. CASE LoadHot(c)
  <2>1. /\ k.pc \in Loading /\ Known(memory) /\ Continue(c, memory)
        /\ memory # NoState /\ k.pc # "idle"
        /\ UNCHANGED <<up, database, failures>>
    BY <1>3 DEF LoadHot, Loading, TInv
  <2> QED BY <2>1, AloneIfCalm, ContinueHistory
<1>4. CASE LoadCold(c)
  <2>1. /\ k.pc \in Loading /\ Known(k.state) /\ Continue(c, k.state)
        /\ k.state = Latest /\ memory = NoState /\ k.pc # "idle"
        /\ UNCHANGED <<up, database, failures>>
    BY <1>1, <1>4 DEF LoadCold, Loading, CallTyped, CallCalm
  <2> QED BY <2>1, AloneIfCalm, ContinueHistory
<1>5. CASE LoadNothing(c)
  <2>1. /\ memory' = memory /\ calls' = [calls EXCEPT ![c] = Idle]
        /\ UNCHANGED <<room, snapshots>>
    BY <1>5 DEF LoadNothing, Return, database
  <2>2. up' <=> up
    BY <1>5 DEF LoadNothing
  <2> QED BY <2>1, <2>2, CallEndsCalm, KeptHistory
<1>6. CASE QueryLatest(c)
  <2>1. PICK n : Moves(c, n) /\ n.pc = "loaded" /\ n.state = Latest
    BY <1>6, QueryFacts
  <2>2. UNCHANGED <<memory, room, snapshots>>
    BY <1>6 DEF QueryLatest, server, database
  <2>3. up' <=> up
    BY <1>6 DEF QueryLatest, server
  <2>4. memory = NoState
    BY <1>1, <1>6 DEF QueryLatest, CallCalm
  <2> QED BY <1>2, <2>1, <2>2, <2>3, <2>4, KeptHistory
          DEF Moves, Holding, Starter
<1> QED BY <1>3, <1>4, <1>5, <1>6

\* The reply to the last transaction of a game finds its state in memory.
LEMMA ReplyHistory ==
    ASSUME VInv, TInv, HInv, Calm, NoStateIsNone, NEW c \in Call,
           ReadRoom(c) \/ Persisted(c)
    PROVE  HInv'
PROOF
<1> DEFINE k == calls[c]
<1>1. CallTyped(k) /\ CallCalm(k)
  BY DEF TInv, HInv
<1>2. up
  BY <1>1, IdleTyped DEF CallCalm, ReadRoom, Persisted
<1>3. up' <=> up
  BY DEF ReadRoom, Persisted, server
<1>4. UNCHANGED <<room, snapshots>>
  BY DEF ReadRoom, Persisted, database
<1>5. CASE ReadRoom(c)
  <2>1. PICK n : Moves(c, n) /\ n.pc = "commit" /\ n.state = k.state
    BY <1>5, ReadFacts
  <2>2. memory' = memory /\ k.pc = "read"
    BY <1>5 DEF ReadRoom, server
  <2> QED BY <1>2, <1>3, <1>4, <2>1, <2>2, KeptHistory
          DEF Moves, Holding, Starter
<1>6. CASE Persisted(c)
  <2>1. PICK n : /\ calls' = [calls EXCEPT ![c] = n]
                 /\ n.pc \in {"idle", "load", "mark"}
    BY <1>1, <1>6, PersistedFacts DEF Persisted
  <2>2. k.pc = "persisted" /\ Known(k.state) /\ InPlay(k.state)
    BY <1>1, <1>6 DEF Persisted, CallTyped, InPlay, Holding
  <2>3. CASE k.state.phase # "FINISHED"
    <3>1. memory' = memory
      BY <1>6, <2>3 DEF Persisted
    <3> QED BY <1>2, <1>3, <1>4, <2>1, <3>1, CallEndsCalm, KeptHistory
  <2>4. CASE k.state.phase = "FINISHED"
    <3>1. memory' = NoState
      BY <1>6, <2>4 DEF Persisted
    <3>2. memory # NoState /\ memory # LobbyState
      BY <1>1, <2>2, <2>4, LobbyFacts DEF CallCalm, Holding
    <3>3. memory.phase = "FINISHED"
      <4>1. Before(k.state, memory)
        BY <2>2, <3>2 DEF HInv, Newest, InLobby
      <4> QED BY <2>4, <4>1, LobbyFacts DEF Before
    <3>4. \A d \in Call \ {c} : calls[d] = Idle
      BY <2>2, <3>3, AloneIfCalm
    <3>5. n = Idle \/ n.pc \in {"load", "mark"}
      <4>1. n = AfterPersist(k)
        BY <1>6, <2>1 DEF Persisted, VInv
      <4>2. CASE k.kind \in {"move", "reconnect"}
        <5>1. n.pc # "idle"
          BY <4>1, <4>2, PcChanges DEF AfterPersist, Idle, VInv, CallOK
        <5> QED BY <2>1, <5>1
      <4>3. CASE k.kind \notin {"move", "reconnect"}
        BY <4>1, <4>3 DEF AfterPersist
      <4> QED BY <4>2, <4>3
    <3>6. \A d \in Call : \/ calls'[d] = Idle
                          \/ up' /\ calls'[d].pc \in {"load", "mark", "refuse"}
      BY <1>2, <1>3, <2>1, <3>4, <3>5 DEF VInv
    <3> QED BY <1>4, <3>1, <3>6, AloneHistory
  <2> QED BY <2>3, <2>4
<1> QED BY <1>5, <1>6

\* A transaction stores what was in play.
LEMMA CommitInPlay ==
    ASSUME VInv, TInv, NEW c \in Call, Commit(c), NEW s, InPlay(s)'
    PROVE  InPlay(s)
PROOF
<1> DEFINE k == calls[c]
<1>1. k.pc = "commit" /\ Known(k.state) /\ Store(k.state) /\ InPlay(k.state)
  BY DEF TInv, CallTyped, Commit, InPlay, Holding
<1>2. PICK n : Moves(c, n) /\ n.pc = "persisted" /\ n.state = k.state
  BY GotoFacts DEF Commit
<1>3. \A d \in Call : calls'[d] = IF d = c THEN n ELSE calls[d]
  BY <1>2 DEF VInv, Moves
<1>4. CASE \E v \in DOMAIN snapshots' : s = snapshots'[v]
  BY <1>1, <1>4, StoreKeeps DEF InPlay
<1>5. CASE \E d \in Call : calls'[d].pc \in Holding /\ s = calls'[d].state
  BY <1>1, <1>2, <1>3, <1>5 DEF InPlay, Holding
<1> QED BY <1>4, <1>5 DEF InPlay

LEMMA CommitHistory ==
    ASSUME VInv, TInv, HInv, NEW c \in Call, Commit(c)
    PROVE  HInv'
PROOF
<1> DEFINE k == calls[c]
<1>1. /\ CallTyped(k) /\ CallCalm(k) /\ k.pc = "commit" /\ Known(k.state)
      /\ Store(k.state) /\ InPlay(k.state)
  BY DEF TInv, HInv, CallTyped, Commit, InPlay, Holding
<1>2. up /\ memory # NoState
  BY <1>1, IdleTyped DEF CallCalm, Holding
<1>3. up' <=> up
  BY DEF Commit, server
<1>4. memory' = memory /\ room'.status \in {"IN_PROGRESS", "FINISHED"}
  BY DEF Commit, server
<1>5. PICK n : Moves(c, n) /\ n.pc = "persisted" /\ n.state = k.state
  BY GotoFacts DEF Commit
<1>6. \A d \in Call : calls'[d] = IF d = c THEN n ELSE calls[d]
  BY <1>5 DEF VInv, Moves
<1>7. DOMAIN snapshots \subseteq DOMAIN snapshots'
  BY <1>1, StoreFacts
<1>8. \A s : InPlay(s)' => InPlay(s)
  BY CommitInPlay
<1>9. Ordered' /\ Newest'
  BY <1>4, <1>8 DEF HInv, Ordered, Newest, InLobby, Before
<1>10. Fresh => Fresh'
  <2> SUFFICES ASSUME Fresh PROVE Fresh'
    OBVIOUS
  <2>1. k.state = LobbyState
    BY <1>1 DEF Fresh
  <2>2. DOMAIN snapshots' = {0}
    BY <1>1, <2>1, StoreFacts, LobbyFacts DEF Fresh
  <2> QED BY <1>4, <1>8, <2>2 DEF Fresh, InLobby
<1>11. ASSUME NEW d \in Call
       PROVE  CallCalm(calls[d])'
  <2>1. CallCalm(calls[d])
    BY DEF HInv
  <2>2. calls[d].pc # "loaded"
    BY <1>2, <2>1 DEF CallCalm
  <2>3. CASE d # c
    BY <1>3, <1>4, <1>6, <1>7, <1>8, <1>10, <2>1, <2>2, <2>3
       DEF CallCalm, Starter, InLobby
  <2>4. CASE d = c
    <3>1. calls'[d] = n
      BY <1>6, <2>4
    <3> QED BY <1>1, <1>2, <1>3, <1>4, <1>5, <3>1
            DEF CallCalm, Starter, Holding
  <2> QED BY <2>3, <2>4
<1>12. \A d, e \in Call : Starter(calls'[d]) /\ Starter(calls'[e]) => d = e
  BY <1>5, <1>6 DEF HInv, Starter
<1> QED BY <1>4, <1>7, <1>9, <1>11, <1>12 DEF HInv

LEMMA ClaimHistory ==
    ASSUME VInv, TInv, HInv, NEW c \in Call, MarkStarting(c)
    PROVE  HInv'
PROOF
<1>1. CASE Light(c, Idle)
  BY <1>1, LightHistory
<1>2. CASE ~Light(c, Idle)
  <2>1. PICK n : Moves(c, n) /\ n.pc = "countdown"
    BY <1>2, ClaimFacts
  <2>2. /\ room.status = "WAITING" /\ room'.status = "STARTING"
        /\ memory' = memory /\ snapshots' = snapshots
    BY <1>2, ClaimFacts
  <2>3. up /\ (up' <=> up)
    BY IdleTyped DEF MarkStarting, HInv, CallCalm, server
  <2>4. \A d \in Call : calls'[d] = IF d = c THEN n ELSE calls[d]
    BY <2>1 DEF VInv, Moves
  <2>5. \A s : InPlay(s)' => InPlay(s)
    BY <2>1, <2>2, InPlayStep DEF Moves, Holding
  <2>6. Ordered' /\ Newest'
    BY <2>2, <2>5 DEF HInv, Ordered, Newest, InLobby, Before
  <2>7. Fresh /\ Fresh'
    BY <2>2, <2>5 DEF HInv, Fresh, InLobby
  <2>8. Latest' = Latest
    BY <2>2 DEF Latest, LatestVersion
  <2>9. ASSUME NEW d \in Call
        PROVE  CallCalm(calls[d])' /\ (d # c => ~Starter(calls'[d]))
    <3>1. CallCalm(calls[d])
      BY DEF HInv
    <3>2. ~Starter(calls[d])
      BY <2>2, <3>1 DEF CallCalm
    <3>3. CASE d # c
      BY <2>2, <2>3, <2>4, <2>8, <3>1, <3>2, <3>3
         DEF CallCalm, Starter, InLobby
    <3>4. CASE d = c
      <4>1. calls'[d] = n
        BY <2>4, <3>4
      <4> QED BY <2>1, <2>2, <2>3, <2>7, <3>4, <4>1
              DEF CallCalm, Starter, Holding
    <3> QED BY <3>3, <3>4
  <2> QED BY <2>2, <2>6, <2>7, <2>9 DEF HInv
<1> QED BY <1>1, <1>2

\* The first state is stored beside the lobby's alone.
LEMMA PersistStartHistory ==
    ASSUME VInv, TInv, HInv, Calm, NEW c \in Call, PersistStart(c)
    PROVE  HInv'
PROOF
<1>1. /\ CallCalm(calls[c]) /\ calls[c].pc = "countdown"
      /\ Store(FirstState) /\ Known(FirstState)
  BY FirstFacts DEF HInv, PersistStart
<1>2. Fresh /\ up
  BY <1>1, IdleTyped DEF CallCalm
<1>3. up' <=> up
  BY DEF PersistStart, server
<1>4. memory' = memory /\ room'.status = "IN_PROGRESS"
  BY DEF PersistStart, server
<1>5. PICK n : Moves(c, n) /\ n.pc = "started"
  BY GotoFacts DEF PersistStart
<1>6. \A d \in Call : calls'[d] = IF d = c THEN n ELSE calls[d]
  BY <1>5 DEF VInv, Moves
<1>7. DOMAIN snapshots' = {0, 1}
  <2>1. DOMAIN snapshots' = DOMAIN snapshots \cup {FirstState.version}
    BY <1>1, StoreFacts
  <2>2. FirstState.version = 1 /\ DOMAIN snapshots = {0}
    BY <1>2, FirstFacts DEF Fresh
  <2> QED BY <2>1, <2>2
<1>8. \A s : InPlay(s)' => s \in {LobbyState, FirstState}
  <2> SUFFICES ASSUME NEW s, InPlay(s)' PROVE s \in {LobbyState, FirstState}
    OBVIOUS
  <2>1. CASE \E v \in DOMAIN snapshots' : s = snapshots'[v]
    BY <1>1, <1>2, <2>1, StoreKeeps DEF InPlay, Fresh
  <2>2. CASE \E d \in Call : calls'[d].pc \in Holding /\ s = calls'[d].state
    BY <1>2, <1>5, <1>6, <2>2 DEF InPlay, Holding, Fresh
  <2> QED BY <2>1, <2>2 DEF InPlay
<1>9. InLobby'
  BY <1>2, <1>4 DEF Fresh, InLobby
<1>10. Ordered'
  <2>1. Before(LobbyState, FirstState)
    BY LobbyFirst, FirstFacts
  <2> QED BY <1>8, <2>1 DEF Ordered, Before
<1>11. ASSUME NEW d \in Call
       PROVE  CallCalm(calls[d])' /\ (d # c => ~Starter(calls'[d]))
  <2>1. CallCalm(calls[d])
    BY DEF HInv
  <2>2. CASE d # c
    <3>1. calls'[d] = calls[d] /\ ~Starter(calls[d])
      BY <1>1, <1>6, <2>2 DEF HInv, Starter
    <3>2. calls[d].pc # "loaded"
      <4>1. calls[d].pc = "loaded" => memory = NoState /\ calls[d] # Idle
        BY <2>1, IdleTyped DEF CallCalm
      <4>2. calls[c] # Idle
        BY <1>1, IdleTyped
      <4> QED BY <2>2, <4>1, <4>2 DEF Calm
    <3> QED BY <1>3, <1>4, <2>1, <3>1, <3>2 DEF CallCalm, Starter
  <2>3. CASE d = c
    <3>1. calls'[d] = n
      BY <1>6, <2>3
    <3> QED BY <1>2, <1>3, <1>4, <1>5, <1>7, <1>8, <1>9, <2>3, <3>1
            DEF CallCalm, Starter, Holding
  <2> QED BY <2>2, <2>3
<1>12. ~FromLobby => memory' # LobbyState
  BY <1>4 DEF HInv
<1> QED BY <1>4, <1>7, <1>9, <1>10, <1>11, <1>12 DEF HInv, Newest

LEMMA StartRoomHistory ==
    ASSUME VInv, TInv, HInv, Calm, NoStateIsNone, NEW c \in Call, StartRoom(c)
    PROVE  HInv'
PROOF
<1>1. CallCalm(calls[c]) /\ calls[c].pc = "started"
  BY DEF HInv, StartRoom
<1>2. /\ up /\ InLobby /\ 1 \in DOMAIN snapshots
      /\ \A s : InPlay(s) => s \in {LobbyState, FirstState}
      /\ room.status \notin {"WAITING", "STARTING"}
  <2>1. ~Fresh \/ 1 \notin DOMAIN snapshots
    BY DEF Fresh
  <2> QED BY <1>1, <2>1, IdleTyped DEF CallCalm, Starter, HInv
<1>3. UNCHANGED <<room, snapshots>>
  BY DEF StartRoom, database
<1>4. up' <=> up
  BY DEF StartRoom
<1>5. memory' = FirstState /\ calls' = [calls EXCEPT ![c] = Idle]
  BY DEF StartRoom, Return
<1>6. \A d \in Call : calls'[d] = IF d = c THEN Idle ELSE calls[d]
  BY <1>5 DEF VInv
<1>7. \A s : InPlay(s)' => InPlay(s)
  BY <1>3, <1>5, InPlayStep, IdleTyped DEF Holding
<1>8. FirstState \notin {LobbyState, NoState}
  BY FirstFacts, LobbyFacts, KnownIsState
<1>9. Newest'
  <2>1. Before(LobbyState, FirstState)
    BY LobbyFirst, FirstFacts
  <2> QED BY <1>2, <1>5, <1>7, <2>1 DEF Newest, Before
<1>10. Ordered'
  BY <1>7 DEF HInv, Ordered, Before
<1>11. ASSUME NEW d \in Call
       PROVE  CallCalm(calls[d])' /\ ~Starter(calls'[d])
  <2>1. CASE calls'[d] = Idle
    BY <2>1, IdleTyped DEF CallCalm, Starter, Holding
  <2>2. CASE calls'[d] # Idle
    <3>1. CallCalm(calls[d]) /\ calls'[d] = calls[d] /\ d # c
      BY <1>6, <2>2 DEF HInv
    <3>2. calls[d].pc \notin {"query", "loaded"} /\ ~Starter(calls[d])
      <4>1. calls[c] # Idle
        BY <1>1, IdleTyped
      <4>2. memory # NoState
        BY <2>2, <3>1, <4>1 DEF Calm
      <4>3. ~Starter(calls[d])
        BY <1>1, <3>1 DEF HInv, Starter
      <4> QED BY <3>1, <4>2, <4>3 DEF CallCalm
    <3> QED BY <1>4, <1>5, <1>8, <3>1, <3>2 DEF CallCalm, Starter
  <2> QED BY <2>1, <2>2
<1> QED BY <1>2, <1>3, <1>5, <1>8, <1>9, <1>10, <1>11 DEF HInv

LEMMA ProcessHistory ==
    ASSUME TInv, HInv, NoStateIsNone,
           Crash \/ Recover \/ RecoverNothing \/ UNCHANGED vars
    PROVE  HInv'
PROOF
<1>1. CASE Crash
  BY <1>1, AloneHistory DEF Crash, database
<1>2. CASE Recover
  <2>1. \A d \in Call : calls'[d] = Idle
    BY <1>2 DEF Recover, HInv, CallCalm
  <2>2. memory' \in {NoState, Latest} /\ UNCHANGED <<room, snapshots>>
    BY <1>2 DEF Recover, database
  <2> QED BY <2>1, <2>2, AloneHistory
<1>3. CASE RecoverNothing \/ UNCHANGED vars
  <2>1. UNCHANGED <<memory, room, snapshots, calls>>
    BY <1>3 DEF RecoverNothing, vars, server, database
  <2>2. up => up'
    BY <1>3 DEF RecoverNothing, vars, server
  <2>3. Latest' = Latest
    BY <2>1 DEF Latest, LatestVersion
  <2>4. \A s : InPlay(s)' = InPlay(s)
    BY <2>1 DEF InPlay
  <2>5. Ordered' /\ Newest'
    BY <2>1, <2>4 DEF HInv, Ordered, Newest, InLobby, Before
  <2>6. Fresh => Fresh'
    BY <2>1, <2>4 DEF Fresh, InLobby
  <2>7. ASSUME NEW d \in Call
        PROVE  CallCalm(calls[d])'
    <3>1. CallCalm(calls[d])
      BY DEF HInv
    <3> QED BY <2>1, <2>2, <2>3, <2>4, <2>6, <3>1
            DEF CallCalm, InLobby, Starter
  <2> QED BY <2>1, <2>5, <2>6, <2>7 DEF HInv, Starter
<1> QED BY <1>1, <1>2, <1>3

LEMMA InitHistory == ASSUME Init, NoStateIsNone PROVE HInv
PROOF
<1>1. \A c \in Call : calls[c] = Idle
  BY DEF Init
<1>2. /\ 0 \in DOMAIN snapshots /\ snapshots[0] = LobbyState
      /\ DOMAIN snapshots = IF FromLobby THEN {0} ELSE {0, 1}
      /\ ~FromLobby => snapshots[1] = FirstState
  BY DEF Init
<1>3. \A s : InPlay(s) => s = LobbyState \/ (~FromLobby /\ s = FirstState)
  BY <1>1, <1>2, IdleTyped DEF InPlay, Holding
<1>4. memory = IF FromLobby THEN NoState ELSE FirstState
  BY DEF Init
<1>5. /\ room.status \in {"WAITING", "STARTING"} => FromLobby
      /\ FirstState # LobbyState
  BY FirstFacts, LobbyFacts DEF Init
<1>6. Before(LobbyState, FirstState)
  BY LobbyFirst, FirstFacts
<1>7. Ordered /\ Newest
  BY <1>3, <1>4, <1>6 DEF Ordered, Newest, InLobby, Before
<1>8. FromLobby => Fresh
  BY <1>2, <1>3, <1>4 DEF Fresh, InLobby
<1>9. \A c \in Call : CallCalm(calls[c]) /\ ~Starter(calls[c])
  BY <1>1, IdleTyped DEF CallCalm, Starter, Holding
<1> QED BY <1>2, <1>4, <1>5, <1>7, <1>8, <1>9 DEF HInv

LEMMA NextHistoryKept ==
    ASSUME VInv, TInv, HInv, Calm, NoStateIsNone, [Next]_vars
    PROVE  HInv'
PROOF
<1>1. ASSUME NEW c \in Call,
             \/ \E id \in ActionId : Submit(c, id)
             \/ \E kind \in Kinds, p \in DOMAIN Rows : PlayerCall(c, kind, p)
             \/ Tick(c) \/ Start(c)
      PROVE  HInv'
  BY <1>1, ArrivalsAreLight, LightHistory
<1>2. ASSUME NEW c \in Call,
             \/ Reserve(c) \/ Lookup(c) \/ AskDatabase(c)
             \/ Mark(c) \/ Refuse(c) \/ Fail(c)
      PROVE  HInv'
  BY <1>2, StepsAreLight, LightHistory
<1>3. ASSUME NEW c \in Call, Step(c) \/ Fail(c)
      PROVE  HInv'
  BY <1>2, <1>3, LoadHistory, ReplyHistory, CommitHistory, ClaimHistory,
     PersistStartHistory, StartRoomHistory DEF Step
<1> QED BY <1>1, <1>3, ProcessHistory DEF Next

\* What is stored and what calls are about to store is one line of states, and
\* a running game's hot state is the last of them.
THEOREM History ==
    ASSUME NoStateIsNone
    PROVE  Spec /\ []Calm => [](VInv /\ TInv /\ HInv)
PROOF
<1>1. Init => VInv /\ TInv /\ HInv
  BY InitVerdicts, InitTyped, InitHistory
<1>2. VInv /\ TInv /\ HInv /\ Calm /\ [Next]_vars => (VInv /\ TInv /\ HInv)'
  BY NextVerdicts, NextTyped, NextHistoryKept
<1> QED BY <1>1, <1>2, PTL DEF Spec

-------------------------------------------------------------------------------
\* What has taken effect in a state has in those that come after it.
LEMMA AppliedStays ==
    ASSUME NEW s, NEW t, Known(s), Known(t), Before(s, t),
           NEW id \in ActionId, Applied(s, id)
    PROVE  Applied(t, id)
PROOF
<1>1. CASE s = t
  BY <1>1
<1>2. CASE s = LobbyState
  BY <1>2, LobbyFacts DEF Applied
<1>3. CASE s # t /\ s # LobbyState
  <2>1. /\ Succeeds(s, t) /\ Begun(DOMAIN Rows, s) /\ Credited(s)
        /\ t # LobbyState
    <3>1. s.version \in Nat /\ s.version < t.version
      BY <1>3, KnownFacts DEF Before
    <3> QED BY <1>3, <3>1, LobbyFacts DEF Before, Known
  <2>2. Begun(DOMAIN Rows, t)
    BY <2>1 DEF Known
  <2>3. DOMAIN s.players = DOMAIN t.players
        /\ \A p \in DOMAIN s.players :
              /\ s.players[p].lastProcessedSeq \in Nat
              /\ t.players[p].lastProcessedSeq \in Nat
              /\ s.players[p].lastProcessedSeq <= t.players[p].lastProcessedSeq
    BY <2>1, <2>2 DEF Succeeds, Begun, GameState, PlayerState
  <2>4. Request[id].seq \in Nat
    BY CoordinatorAssumption DEF RequestType
  <2> DEFINE p == Request[id].playerId
  <2>5. p \in DOMAIN s.players /\ s.players[p].lastProcessedSeq >= Request[id].seq
    BY <2>1 DEF Applied, Credited
  <2>6. p \in DOMAIN t.players /\ t.players[p].lastProcessedSeq >= Request[id].seq
    BY <2>3, <2>4, <2>5
  <2>7. id \in Ids(t) \/ Full(t)
    BY <2>1 DEF Applied, Succeeds
  <2> QED BY <2>6, <2>7 DEF Applied
<1> QED BY <1>1, <1>2, <1>3

LEMMA BeforePrecedes ==
    ASSUME NEW s, NEW t, Known(s), Known(t), Before(s, t)
    PROVE  Precedes(s, t)
PROOF
<1>1. ASSUME NEW id \in Ids(s)
      PROVE  Applied(t, id)
  <2>1. id \in ActionId
    BY LobbyFacts DEF Known, Begun, GameState, Ids
  <2>2. Applied(s, id)
    BY DEF Applied
  <2> QED BY <2>1, <2>2, AppliedStays
<1>2. /\ s.turn \in Nat /\ s.round \in Nat /\ t.turn \in Nat /\ t.round \in Nat
      /\ \A p \in DOMAIN s.players : s.players[p].lastProcessedSeq \in Nat
  BY LobbyFacts DEF Known, Begun, GameState, PlayerState
<1>3. /\ s.turn <= t.turn /\ s.round <= t.round
      /\ \A p \in DOMAIN s.players :
            /\ p \in DOMAIN t.players
            /\ p \in Alive(t) => p \in Alive(s)
            /\ s.players[p].lastProcessedSeq <= t.players[p].lastProcessedSeq
  <2>1. CASE s = t
    BY <1>2, <2>1
  <2>2. CASE s = LobbyState
    BY <1>2, <2>2, LobbyFacts
  <2>3. CASE s # t /\ s # LobbyState
    BY <2>3 DEF Before, Succeeds
  <2> QED BY <2>1, <2>2, <2>3
<1> QED BY <1>1, <1>3 DEF Precedes

\* The snapshots are one game, in the order of their versions, whatever number
\* of calls overlap, fail or crash while the game is in memory and not over:
\* persistGameState stores what the engine made of the hot state, in any order.
THEOREM OneGame ==
    ASSUME NoStateIsNone
    PROVE  Spec /\ []Calm => []OneHistory
PROOF
<1>1. VInv /\ TInv /\ HInv => OneHistory
  <2> SUFFICES ASSUME TInv, HInv,
                      NEW v \in DOMAIN snapshots, NEW w \in DOMAIN snapshots,
                      v < w
               PROVE  Precedes(snapshots[v], snapshots[w])
    BY DEF OneHistory
  <2>1. /\ Known(snapshots[v]) /\ snapshots[v].version = v /\ v \in Nat
        /\ Known(snapshots[w]) /\ snapshots[w].version = w /\ w \in Nat
        /\ InPlay(snapshots[v]) /\ InPlay(snapshots[w])
    BY DEF TInv, InPlay
  <2>2. Before(snapshots[v], snapshots[w])
    BY <2>1, LowerIsBefore
  <2> QED BY <2>1, <2>2, BeforePrecedes
<1> QED BY <1>1, History, PTL

\* The hot state of a running game is never behind the database, under the same
\* condition: recoverAndStartLoops, getState and late replies never take the
\* game back.
THEOREM HotIsNewest ==
    ASSUME NoStateIsNone, ~FromLobby
    PROVE  Spec /\ []Calm => []MemoryNotBehind
PROOF
<1>1. VInv /\ TInv /\ HInv => MemoryNotBehind
  <2> SUFFICES ASSUME TInv, HInv, memory # NoState
               PROVE  memory.version >= LatestVersion /\ Precedes(Latest, memory)
    BY DEF MemoryNotBehind
  <2>1. InPlay(Latest) /\ Known(Latest) /\ Known(memory)
        /\ Latest.version = LatestVersion
    BY BeforeLatest, LatestFacts DEF TInv
  <2>2. Before(Latest, memory)
    BY <2>1 DEF HInv, Newest, InLobby
  <2>3. memory.version \in Nat /\ Latest.version \in Nat
    BY <2>1, KnownFacts
  <2> QED BY <2>1, <2>2, <2>3, BeforePrecedes DEF Before
<1> QED BY <1>1, History, PTL

\* The loop of the room runs if it should: in a game that runs from the beginning,
\* that the query of recoverActiveRooms has not failed in this process.
NothingNeglected == neglect = "none"

\* In a running game that nobody has won, whose recoveries succeed, there is always
\* a hot state, so that the condition of these theorems holds by itself.  After a
\* failed one there is none until a call brings it in, and calls that overlap
\* before that load one snapshot (the run failed_recovery).
THEOREM RunningIsCalm ==
    ASSUME NoStateIsNone, ~FromLobby
    PROVE  Spec /\ []NobodyHasWon /\ []NothingNeglected => []Calm
PROOF
<1> DEFINE Inv == VInv /\ TInv /\ BInv /\ NInv /\ KInv /\ HInv
<1>1. Inv /\ NobodyHasWon /\ NothingNeglected => Calm
  <2> SUFFICES ASSUME BInv, KInv, HInv, NobodyHasWon, NothingNeglected,
                      memory = NoState, NEW c \in Call
               PROVE  calls[c] = Idle
    BY DEF Calm, NobodyHasWon
  <2>1. room.status = "IN_PROGRESS"
    BY DEF BInv, KInv, Started
  <2>2. ~timer /\ neglect = "none" /\ \A d \in Call : ~Waits(calls[d])
    BY DEF KInv, BInv, CallBegins, Waits, NothingNeglected
  <2>3. ~up
    BY <2>1, <2>2 DEF KInv, Ticking
  <2> QED BY <2>3 DEF HInv, CallCalm
<1>2. Init => Inv
  BY InitVerdicts, InitTyped, InitBegun, InitLoop, InitTicks, InitHistory
<1>3. Inv /\ NobodyHasWon /\ NobodyHasWon' /\ NothingNeglected /\ [Next]_vars
      => Inv'
  <2>1. NoLobbyCalls
    BY DEF NoLobbyCalls
  <2> QED BY <1>1, <2>1, NextVerdicts, NextTyped, NextBegun, NextLoop, NextTicks,
             NextHistoryKept
<1> QED BY <1>1, <1>2, <1>3, PTL DEF Spec

-------------------------------------------------------------------------------
(***************************************************************************)
(* What the answers say of the game.  The inductive invariant: the effect  *)
(* of an action is nowhere before its row is received and never after it   *)
(* is rejected, and follows the call that owns the row on its way into the *)
(* newest snapshot.                                                        *)
(***************************************************************************)
Unseen(id) ==
    /\ \A s : InPlay(s) => id \notin Ids(s)
    /\ memory # NoState => id \notin Ids(memory)

Stored(s) == \E v \in DOMAIN snapshots : s = snapshots[v]

CallActs(k) ==
    /\ k.pc = "persisted" => Stored(k.state)
    /\ Owns(k) =>
          /\ k.pc \in Loading \cup {"refuse"} => Unseen(k.action)
          /\ k.pc \in Holding => Applied(k.state, k.action)
          /\ k.pc = "mark" => Applied(Latest, k.action)

AInv ==
    /\ \A id \in ActionId :
          /\ actions[id] \in {"NONE", "REJECTED"} => Unseen(id)
          /\ actions[id] = "APPLIED" => Applied(Latest, id)
    /\ \A c \in Call : CallActs(calls[c])

\* The call may bring the effect of the action it owns, and give the verdict.
LEMMA ActsStep ==
    ASSUME VInv, AInv, NEW c \in Call, NEW n, calls' = [calls EXCEPT ![c] = n],
           \A id \in ActionId : Applied(Latest, id) => Applied(Latest, id)',
           \A s : Stored(s) => Stored(s)',
           \A id \in ActionId :
               Unseen(id) /\ ~(Owns(calls[c]) /\ id = calls[c].action)
                   => Unseen(id)',
           \A id \in ActionId :
               \/ actions'[id] \in {actions[id], "RECEIVED"}
               \/ actions'[id] = "APPLIED" /\ Applied(Latest, id)'
               \/ actions'[id] = "REJECTED" /\ Unseen(id)',
           CallActs(n)'
    PROVE  AInv'
PROOF
<1>1. \A d \in Call : calls'[d] = IF d = c THEN n ELSE calls[d]
  BY DEF VInv
<1>2. ASSUME NEW id \in ActionId
      PROVE  /\ actions'[id] \in {"NONE", "REJECTED"} => Unseen(id)'
             /\ actions'[id] = "APPLIED" => Applied(Latest, id)'
  <2>1. Owns(calls[c]) /\ id = calls[c].action => actions[id] = "RECEIVED"
    BY DEF VInv, CallOK
  <2> QED BY <2>1 DEF AInv
<1>3. ASSUME NEW d \in Call
      PROVE  CallActs(calls[d])'
  <2>1. CASE d = c
    BY <1>1, <2>1
  <2>2. CASE d # c
    <3>1. calls'[d] = calls[d] /\ CallActs(calls[d])
      BY <1>1, <2>2 DEF AInv
    <3>2. Owns(calls[d]) =>
              /\ calls[d].action \in ActionId
              /\ ~(Owns(calls[c]) /\ calls[d].action = calls[c].action)
      BY <2>2 DEF VInv, CallOK, OneOwner, Owns
    <3>3. Owns(calls[d])' <=> Owns(calls[d])
      BY <3>1 DEF Owns
    <3> QED BY <3>1, <3>2, <3>3 DEF CallActs
  <2> QED BY <2>1, <2>2
<1> QED BY <1>2, <1>3 DEF AInv

\* A call that takes nothing new in and gives no verdict.
LEMMA KeptActs ==
    ASSUME VInv, AInv, NEW c \in Call, NEW n,
           calls' = [calls EXCEPT ![c] = n],
           UNCHANGED <<memory, snapshots, actions>>,
           n.pc \in Holding =>
               calls[c].pc \in Holding /\ n.state = calls[c].state,
           CallActs(n)
    PROVE  AInv'
PROOF
<1>1. \A s : InPlay(s)' => InPlay(s)
  <2> SUFFICES ASSUME NEW s, InPlay(s)' PROVE InPlay(s)
    OBVIOUS
  <2>1. InPlay(s) \/ (n.pc \in Holding /\ s = n.state)
    BY InPlayStep
  <2> QED BY <2>1 DEF InPlay
<1>2. \A id : Unseen(id) => Unseen(id)'
  BY <1>1 DEF Unseen
<1>3. Latest' = Latest
  BY DEF Latest, LatestVersion
<1>4. \A s : Stored(s)' = Stored(s)
  BY DEF Stored
<1>5. \A id : Applied(Latest, id)' = Applied(Latest, id)
  BY <1>3 DEF Applied
<1>6. CallActs(n)'
  BY <1>2, <1>4, <1>5 DEF CallActs, Owns
<1> QED BY <1>2, <1>4, <1>5, <1>6, ActsStep

LEMMA IdleActs == ASSUME NEW n, n.pc \notin Holding, ~Owns(n) PROVE CallActs(n)
PROOF
  BY DEF CallActs, Holding

LEMMA ArrivalsAct ==
    ASSUME VInv, AInv, NEW c \in Call,
           \/ \E id \in ActionId : Submit(c, id)
           \/ \E kind \in Kinds, p \in DOMAIN Rows : PlayerCall(c, kind, p)
           \/ Tick(c) \/ Start(c)
    PROVE  AInv'
PROOF
<1>1. UNCHANGED <<memory, snapshots, actions>>
  BY DEF Submit, PlayerCall, Tick, Start, Arrive, server, database
<1>2. \E n : /\ calls' = [calls EXCEPT ![c] = n]
             /\ n.pc \notin Holding /\ ~Owns(n)
  <2>1. ASSUME NEW id \in ActionId, Submit(c, id)
        PROVE  \E n : /\ calls' = [calls EXCEPT ![c] = n]
                      /\ n.pc = "reserve"
    <3>1. PICK s, n : /\ n = [Idle EXCEPT !.kind = "move", !.pc = "reserve",
                               !.playerId = Request[id].playerId,
                               !.action = id, !.round = s.round,
                               !.turn = s.turn]
                      /\ calls' = [calls EXCEPT ![c] = n]
      BY <2>1 DEF Submit, Arrive
    <3>2. n.pc = "reserve"
      BY <3>1 DEF Idle
    <3> QED BY <3>1, <3>2
  <2>2. ASSUME NEW kind \in Kinds, NEW p \in DOMAIN Rows, PlayerCall(c, kind, p)
        PROVE  \E n : /\ calls' = [calls EXCEPT ![c] = n]
                      /\ n.pc = "load" /\ n.kind # "move"
    <3>1. PICK n : /\ n = [Idle EXCEPT !.kind = kind, !.pc = "load",
                                       !.playerId = p]
                   /\ calls' = [calls EXCEPT ![c] = n] /\ kind # "move"
      BY <2>2 DEF PlayerCall, Arrive
    <3>2. n.pc = "load" /\ n.kind = kind
      BY <3>1 DEF Idle
    <3> QED BY <3>1, <3>2
  <2>3. ASSUME Tick(c)
        PROVE  \E n : /\ calls' = [calls EXCEPT ![c] = n]
                      /\ n.pc = "load" /\ n.kind # "move"
    <3>1. PICK n : /\ n = [Idle EXCEPT !.kind = "tick", !.pc = "load"]
                   /\ calls' = [calls EXCEPT ![c] = n]
      BY <2>3 DEF Tick, Arrive
    <3>2. n.pc = "load" /\ n.kind = "tick"
      BY <3>1 DEF Idle
    <3> QED BY <3>1, <3>2
  <2>4. ASSUME Start(c)
        PROVE  \E n : /\ calls' = [calls EXCEPT ![c] = n]
                      /\ n.pc = "cas"
    <3>1. PICK n : /\ n = [Idle EXCEPT !.kind = "start", !.pc = "cas"]
                   /\ calls' = [calls EXCEPT ![c] = n]
      BY <2>4 DEF Start, Arrive
    <3>2. n.pc = "cas"
      BY <3>1 DEF Idle
    <3> QED BY <3>1, <3>2
  <2> QED BY <2>1, <2>2, <2>3, <2>4 DEF Owns, Owning, Loading, Holding
<1> QED BY <1>1, <1>2, IdleActs, KeptActs

LEMMA LookupActs ==
    ASSUME VInv, AInv, NEW c \in Call, Lookup(c) \/ AskDatabase(c)
    PROVE  AInv'
PROOF
<1>1. UNCHANGED <<memory, snapshots, actions>>
  BY DEF Lookup, AskDatabase, server, database
<1>2. CASE Lookup(c)
  <2>1. PICK other \in Rivals(calls[c].action) : \E n :
            Moves(c, n) /\ n.pc = "load" /\ n.seen = actions[other]
    BY <1>2, LookupFacts
  <2>2. PICK n : Moves(c, n) /\ n.pc = "load" /\ n.seen = actions[other]
    BY <2>1
  <2>3. ~Owns(n)
    BY <2>1, <2>2 DEF Owns, Owning, Rivals
  <2> QED BY <1>1, <2>2, <2>3, IdleActs, KeptActs DEF Moves, Holding
<1>3. CASE AskDatabase(c)
  <2>1. PICK n : Moves(c, n) /\ n.pc = "query" /\ n.seen = calls[c].seen
    BY <1>3, GotoFacts DEF AskDatabase
  <2>2. calls[c].pc = "load" /\ CallActs(calls[c])
    BY <1>3 DEF AskDatabase, AInv
  <2>3. CallActs(n)
    BY <2>1, <2>2 DEF CallActs, Moves, Owns, Owning, Loading, Holding
  <2> QED BY <1>1, <2>1, <2>3, KeptActs DEF Moves, Holding
<1> QED BY <1>2, <1>3

LEMMA FailActs ==
    ASSUME VInv, AInv, NEW c \in Call, Fail(c)
    PROVE  AInv'
PROOF
<1>1. UNCHANGED <<memory, snapshots, actions>>
      /\ calls' = [calls EXCEPT ![c] = Idle]
  BY DEF Fail, server, database
<1>2. Idle.pc \notin Holding /\ ~Owns(Idle)
  BY IdleOK, IdleTyped DEF Holding
<1> QED BY <1>1, <1>2, IdleActs, KeptActs

\* A row is received: nobody has seen the action.
LEMMA ReserveActs ==
    ASSUME VInv, AInv, NEW c \in Call, Reserve(c)
    PROVE  AInv'
PROOF
<1> DEFINE k == calls[c]
           id == calls[c].action
<1>1. UNCHANGED <<memory, snapshots>>
  BY DEF Reserve, server
<1>2. id \in ActionId /\ k.kind = "move"
  BY DEF VInv, CallOK, Reserve
<1>3. CASE Rivals(id) # {}
  <2>1. actions' = actions /\ Goto(c, "lookup")
    BY <1>3 DEF Reserve
  <2>2. PICK n : Moves(c, n) /\ n.pc = "lookup"
    BY <2>1, GotoFacts
  <2>3. ~Owns(n) /\ n.pc \notin Holding
    BY <2>2 DEF Owns, Owning, Loading, Holding
  <2> QED BY <1>1, <2>1, <2>2, <2>3, IdleActs, KeptActs DEF Moves
<1>4. CASE Rivals(id) = {}
  <2>1. actions' = [actions EXCEPT ![id] = "RECEIVED"] /\ Goto(c, "load")
    BY <1>4 DEF Reserve
  <2>2. PICK n : Moves(c, n) /\ n.pc = "load"
    BY <2>1, GotoFacts
  <2>3. actions[id] = "NONE"
    BY <1>2, <1>4 DEF Rivals
  <2>4. Unseen(id)
    BY <1>2, <2>3 DEF AInv
  <2>5. \A s : InPlay(s)' => InPlay(s)
    BY <1>1, <2>2, InPlayStep DEF Moves, Holding
  <2>6. \A i : Unseen(i) => Unseen(i)'
    BY <1>1, <2>5 DEF Unseen
  <2>7. Latest' = Latest /\ \A s : Stored(s)' = Stored(s)
    BY <1>1 DEF Latest, LatestVersion, Stored
  <2>8. CallActs(n)'
    BY <2>2, <2>4, <2>6 DEF CallActs, Moves, Holding
  <2>9. \A i \in ActionId : actions'[i] \in {actions[i], "RECEIVED"}
    BY <2>1 DEF VInv
  <2>10. \A i : Applied(Latest, i)' = Applied(Latest, i)
    BY <2>7 DEF Applied
  <2> QED BY <2>2, <2>6, <2>7, <2>8, <2>9, <2>10, ActsStep DEF Moves
<1> QED BY <1>3, <1>4

\* The owner of a row gives the verdict.
LEMMA SettleActs ==
    ASSUME VInv, AInv, NEW c \in Call, Mark(c) \/ Refuse(c)
    PROVE  AInv'
PROOF
<1> DEFINE k == calls[c]
           id == calls[c].action
<1>1. UNCHANGED <<memory, snapshots>> /\ calls' = [calls EXCEPT ![c] = Idle]
  BY DEF Mark, Refuse, Settle, server
<1>2. id \in ActionId /\ k.kind = "move" /\ CallActs(k)
  BY DEF VInv, CallOK, Mark, Refuse, Settle, AInv
<1>3. Idle.pc \notin Holding /\ ~Owns(Idle)
  BY IdleOK, IdleTyped DEF Holding
<1>4. \A s : InPlay(s)' => InPlay(s)
  BY <1>1, <1>3, InPlayStep
<1>5. \A i : Unseen(i) => Unseen(i)'
  BY <1>1, <1>4 DEF Unseen
<1>6. Latest' = Latest /\ \A s : Stored(s)' = Stored(s)
  BY <1>1 DEF Latest, LatestVersion, Stored
<1>7. \A i : Applied(Latest, i)' = Applied(Latest, i)
  BY <1>6 DEF Applied
<1>8. \A i \in ActionId :
          \/ actions'[i] = actions[i]
          \/ actions'[i] = "APPLIED" /\ Applied(Latest, i)
          \/ actions'[i] = "REJECTED" /\ Unseen(i)
  <2>1. CASE Mark(c)
    <3>1. Applied(Latest, id) /\ actions' = [actions EXCEPT ![id] = "APPLIED"]
      BY <1>2, <2>1 DEF Mark, Settle, CallActs, Owns, Owning
    <3> QED BY <3>1 DEF VInv
  <2>2. CASE Refuse(c)
    <3>1. Unseen(id) /\ actions' = [actions EXCEPT ![id] = "REJECTED"]
      BY <1>2, <2>2 DEF Refuse, Settle, CallActs, Owns, Owning
    <3> QED BY <3>1 DEF VInv
  <2> QED BY <2>1, <2>2
<1>9. CallActs(Idle)'
  BY <1>3 DEF CallActs, Owns, Holding, Owning, Loading, Idle
<1> QED BY <1>1, <1>5, <1>6, <1>7, <1>8, <1>9, ActsStep

\* The effect that a call brings is that of the action it owns.
LEMMA ContinueActs ==
    ASSUME VInv, TInv, AInv, NEW c \in Call, NEW s,
           calls[c].pc \in Loading, Known(s), Continue(c, s),
           \/ s = memory /\ memory # NoState
           \/ InPlay(s),
           UNCHANGED <<up, database, failures>>
    PROVE  AInv'
PROOF
<1> DEFINE k == calls[c]
<1>1. CallTyped(k) /\ CallActs(k)
  BY DEF TInv, AInv
<1>2. UNCHANGED <<snapshots, actions>>
  BY DEF database
<1>3. Latest' = Latest /\ \A r : Stored(r)' = Stored(r)
  BY <1>2 DEF Latest, LatestVersion, Stored
<1>4. \A i : Applied(Latest, i)' = Applied(Latest, i)
  BY <1>3 DEF Applied
<1>5. \A i : Unseen(i) => i \notin Ids(s)
  BY DEF Unseen
<1>6. ASSUME NEW n, calls' = [calls EXCEPT ![c] = n], memory' \in {s, NoState},
             \/ n = Idle
             \/ n.pc = "refuse" /\ (Owns(n) => Owns(k) /\ n.action = k.action)
      PROVE  AInv'
  <2>1. n.pc \notin Holding /\ (n = Idle => ~Owns(n))
    BY <1>6, IdleTyped, IdleOK DEF Holding
  <2>2. \A r : InPlay(r)' => InPlay(r)
    BY <1>2, <1>6, <2>1, InPlayStep
  <2>3. \A i : Unseen(i) => Unseen(i)'
    BY <1>5, <1>6, <2>2 DEF Unseen
  <2>4. CallActs(n)'
    <3>1. Owns(n) => Unseen(n.action) /\ n.pc = "refuse"
      BY <1>1, <1>6, <2>1 DEF CallActs, Owns
    <3> QED BY <2>1, <2>3, <3>1 DEF CallActs, Owns, Holding
  <2> QED BY <1>2, <1>3, <1>4, <1>6, <2>3, <2>4, ActsStep
<1>7. CASE Ends(c, s)
  BY <1>6, <1>7 DEF Ends
<1>8. CASE Refuses(c, s)
  <2>1. PICK n : Moves(c, n) /\ n.pc = "refuse"
    BY <1>8 DEF Refuses
  <2>2. Owns(n) => Owns(k) /\ n.action = k.action
    BY <1>8, <2>1 DEF Refuses, Moves, Owns
  <2> QED BY <1>6, <1>8, <2>1, <2>2 DEF Refuses, Moves
<1>9. CASE Forgets(c, s)
  BY <1>6, <1>9 DEF Forgets
<1>10. ASSUME NEW t, Saves(c, s, t)
       PROVE  AInv'
  <2>1. PICK n : Moves(c, n) /\ n.pc = "read" /\ n.state = t
    BY <1>10 DEF Saves
  <2>2. memory' = t /\ calls' = [calls EXCEPT ![c] = n]
    BY <1>10, <2>1 DEF Saves, Moves
  <2>3. \A r : InPlay(r)' => InPlay(r) \/ r = t
    BY <1>2, <2>1, <2>2, InPlayStep
  <2>4. \A i : i \in Ids(t) => i \in Ids(s) \/ (Owns(k) /\ i = k.action)
    BY <1>10, LobbyFacts DEF Saves, NextOf, SameLobby, Owns
  <2>5. \A i : Unseen(i) /\ ~(Owns(k) /\ i = k.action) => Unseen(i)'
    BY <1>5, <2>2, <2>3, <2>4 DEF Unseen
  <2>6. k.kind = "move" => k.action \in Ids(t)
    BY <1>10 DEF Saves, NextOf, SameLobby
  <2>7. CallActs(n)'
    BY <2>1, <2>6 DEF CallActs, Owns, Moves, Holding, Loading, Applied
  <2> QED BY <1>2, <1>3, <1>4, <2>2, <2>5, <2>7, ActsStep
<1> QED BY <1>1, <1>7, <1>8, <1>9, <1>10, ContinueCases

LEMMA LoadActs ==
    ASSUME VInv, TInv, HInv, AInv, NEW c \in Call,
           \/ LoadHot(c) \/ LoadNothing(c) \/ QueryLatest(c) \/ LoadCold(c)
    PROVE  AInv'
PROOF
<1> DEFINE k == calls[c]
<1>1. CallTyped(k) /\ CallCalm(k) /\ CallActs(k)
  BY DEF TInv, HInv, AInv
<1>2. CASE LoadHot(c)
  <2>1. /\ k.pc \in Loading /\ Known(memory) /\ Continue(c, memory)
        /\ memory # NoState /\ UNCHANGED <<up, database, failures>>
    BY <1>2 DEF LoadHot, Loading, TInv
  <2> QED BY <2>1, ContinueActs
<1>3. CASE LoadCold(c)
  <2>1. /\ k.pc \in Loading /\ Known(k.state) /\ Continue(c, k.state)
        /\ k.state = Latest /\ UNCHANGED <<up, database, failures>>
    BY <1>1, <1>3 DEF LoadCold, Loading, CallTyped, CallCalm
  <2> QED BY <2>1, BeforeLatest, ContinueActs
<1>4. CASE LoadNothing(c)
  <2>1. /\ memory' = memory /\ calls' = [calls EXCEPT ![c] = Idle]
        /\ UNCHANGED <<snapshots, actions>>
    BY <1>4 DEF LoadNothing, Return, database
  <2>2. Idle.pc \notin Holding /\ ~Owns(Idle)
    BY IdleOK, IdleTyped DEF Holding
  <2> QED BY <2>1, <2>2, IdleActs, KeptActs
<1>5. CASE QueryLatest(c)
  <2>1. PICK n : Moves(c, n) /\ n.pc = "loaded" /\ n.seen = k.seen
    BY <1>5, QueryFacts
  <2>2. UNCHANGED <<memory, snapshots, actions>> /\ k.pc = "query"
    BY <1>5 DEF QueryLatest, server, database
  <2>3. CallActs(n)
    BY <1>1, <2>1, <2>2 DEF CallActs, Moves, Owns, Owning, Loading, Holding
  <2> QED BY <2>1, <2>2, <2>3, KeptActs DEF Moves, Holding
<1> QED BY <1>2, <1>3, <1>4, <1>5

\* A state that was stored stays so, under the same transaction's version too.
LEMMA CommitStored ==
    ASSUME VInv, TInv, HInv, NEW c \in Call, Commit(c)
    PROVE  /\ \A s : Stored(s) => Stored(s)'
           /\ \A s : s = calls[c].state => Stored(s)'
           /\ \A id \in ActionId : Applied(Latest, id) => Applied(Latest, id)'
PROOF
<1> PICK t : t = calls[c].state
  OBVIOUS
<1>1. Known(t) /\ Store(t) /\ InPlay(t)
  BY DEF TInv, CallTyped, Commit, InPlay, Holding
<1>2. /\ DOMAIN snapshots' = DOMAIN snapshots \cup {t.version}
      /\ snapshots'[t.version] = t
      /\ \A w \in DOMAIN snapshots :
            w # t.version => snapshots'[w] = snapshots[w]
      /\ Latest' = IF t.version >= LatestVersion THEN t ELSE Latest
  BY <1>1, StoreFacts
<1>3. ASSUME NEW v \in DOMAIN snapshots
      PROVE  snapshots'[v] = snapshots[v]
  <2>1. CASE v # t.version
    BY <1>2, <2>1
  <2>2. CASE v = t.version
    <3>1. InPlay(snapshots[v]) /\ snapshots[v].version = v /\ v \in Nat
      BY DEF InPlay, TInv
    <3>2. Before(snapshots[v], t)
      BY <1>1, <2>2, <3>1, LowerIsBefore
    <3>3. snapshots[v] = t
      BY <2>2, <3>1, <3>2 DEF Before
    <3> QED BY <1>2, <2>2, <3>3
  <2> QED BY <2>1, <2>2
<1>4. \A s : Stored(s) => Stored(s)'
  BY <1>2, <1>3 DEF Stored
<1>5. Stored(t)'
  BY <1>2 DEF Stored
<1>6. ASSUME NEW id \in ActionId, Applied(Latest, id)
      PROVE  Applied(Latest, id)'
  <2>1. CASE t.version >= LatestVersion
    <3>1. /\ Known(Latest) /\ Latest.version = LatestVersion
          /\ LatestVersion \in Nat /\ t.version \in Nat /\ InPlay(Latest)
      BY <1>1, LatestFacts, BeforeLatest, KnownFacts
    <3>2. Before(Latest, t)
      BY <1>1, <2>1, <3>1, LowerIsBefore
    <3>3. Applied(t, id)
      BY <1>1, <1>6, <3>1, <3>2, AppliedStays
    <3>4. Latest' = t
      BY <1>2, <2>1
    <3> QED BY <3>3, <3>4 DEF Applied
  <2>2. CASE ~(t.version >= LatestVersion)
    <3>1. Latest' = Latest
      BY <1>2, <2>2
    <3> QED BY <1>6, <3>1 DEF Applied
  <2> QED BY <2>1, <2>2
<1> QED BY <1>4, <1>5, <1>6

LEMMA CommitActs ==
    ASSUME VInv, TInv, HInv, AInv, NEW c \in Call, Commit(c)
    PROVE  AInv'
PROOF
<1> DEFINE k == calls[c]
<1>1. /\ CallActs(k) /\ k.pc = "commit" /\ memory' = memory
      /\ actions' = actions
  BY DEF AInv, Commit, server
<1>2. PICK n : Moves(c, n) /\ n.pc = "persisted" /\ n.state = k.state
  BY GotoFacts DEF Commit
<1>3. \A i : Unseen(i) => Unseen(i)'
  BY <1>1, CommitInPlay DEF Unseen
<1>4. CallActs(n)'
  BY <1>1, <1>2, CommitStored DEF CallActs, Owns, Owning, Moves, Holding, Loading
<1> QED BY <1>1, <1>2, <1>3, <1>4, CommitStored, ActsStep DEF Moves

\* The reply: what the move has stored is in the newest snapshot.
LEMMA ReplyActs ==
    ASSUME VInv, TInv, HInv, AInv, NEW c \in Call, ReadRoom(c) \/ Persisted(c)
    PROVE  AInv'
PROOF
<1> DEFINE k == calls[c]
<1>1. CallTyped(k) /\ CallActs(k) /\ CallOK(k)
  BY DEF TInv, AInv, VInv
<1>2. UNCHANGED <<snapshots, actions>>
  BY DEF ReadRoom, Persisted, database
<1>3. CASE ReadRoom(c)
  <2>1. PICK n : Moves(c, n) /\ n.pc = "commit" /\ n.state = k.state
    BY <1>3, ReadFacts
  <2>2. memory' = memory /\ k.pc = "read"
    BY <1>3 DEF ReadRoom, server
  <2>3. CallActs(n)
    BY <1>1, <2>1, <2>2 DEF CallActs, Moves, Owns, Owning, Loading, Holding
  <2> QED BY <1>2, <2>1, <2>2, <2>3, KeptActs DEF Moves, Holding
<1>4. CASE Persisted(c)
  <2>1. k.pc = "persisted" /\ Known(k.state) /\ Stored(k.state)
    BY <1>1, <1>4 DEF Persisted, CallTyped, CallActs
  <2>2. PICK n : /\ calls' = [calls EXCEPT ![c] = n]
                 /\ \/ n.pc \in {"idle", "load"} /\ ~Owns(n)
                    \/ /\ Moves(c, n) /\ n.pc = "mark"
                       /\ n.kind = "move" /\ n.state = k.state
    BY <1>1, <1>4, <2>1, PersistedFacts
  <2>3. memory' \in {memory, NoState}
    BY <1>4 DEF Persisted
  <2>4. \A r : InPlay(r)' => InPlay(r)
    BY <1>2, <2>2, InPlayStep DEF Holding
  <2>5. \A i : Unseen(i) => Unseen(i)'
    BY <2>3, <2>4 DEF Unseen
  <2>6. Latest' = Latest /\ \A r : Stored(r)' = Stored(r)
    BY <1>2 DEF Latest, LatestVersion, Stored
  <2>7. \A i : Applied(Latest, i)' = Applied(Latest, i)
    BY <2>6 DEF Applied
  <2>8. CallActs(n)'
    <3>1. CASE n.pc \in {"idle", "load"} /\ ~Owns(n)
      BY <3>1 DEF CallActs, Owns
    <3>2. CASE Moves(c, n) /\ n.pc = "mark" /\ n.kind = "move"
      <4>1. k.kind = "move" /\ n.action = k.action /\ k.action \in ActionId
        BY <1>1, <3>2 DEF Moves, CallOK
      <4>2. Applied(k.state, k.action)
        BY <1>1, <2>1, <4>1 DEF CallActs, Owns, Owning, Holding
      <4>3. Before(k.state, Latest) /\ Known(Latest)
        BY <2>1, BeforeLatest, LatestFacts DEF Stored
      <4>4. Applied(Latest, k.action)
        BY <2>1, <4>1, <4>2, <4>3, AppliedStays
      <4> QED BY <2>7, <3>2, <4>1, <4>4 DEF CallActs, Loading, Holding
    <3> QED BY <2>2, <3>1, <3>2
  <2> QED BY <1>2, <2>2, <2>5, <2>6, <2>7, <2>8, ActsStep
<1> QED BY <1>3, <1>4

\* The start brings no action.
LEMMA StartActs ==
    ASSUME VInv, TInv, HInv, HInv', AInv, NEW c \in Call,
           MarkStarting(c) \/ PersistStart(c) \/ StartRoom(c)
    PROVE  AInv'
PROOF
<1> DEFINE k == calls[c]
<1>1. CallCalm(k) /\ actions' = actions
  BY DEF HInv, MarkStarting, PersistStart, StartRoom, database
<1>2. Ids(FirstState) = {} /\ Ids(LobbyState) = {} /\ ~Full(LobbyState)
  BY FirstFacts, LobbyFacts
<1>3. CASE MarkStarting(c)
  <2>1. UNCHANGED <<memory, snapshots>>
    BY <1>3 DEF MarkStarting, server
  <2>2. \E n : /\ calls' = [calls EXCEPT ![c] = n]
               /\ n.pc \notin Holding /\ ~Owns(n)
    <3>1. CASE Light(c, Idle)
      BY <3>1, IdleTyped, IdleOK DEF Light, Holding
    <3>2. CASE ~Light(c, Idle)
      BY <1>3, <3>2, ClaimFacts DEF Moves, Holding, Owns, Owning, Loading
    <3> QED BY <3>1, <3>2
  <2> QED BY <1>1, <2>1, <2>2, IdleActs, KeptActs
<1>4. CASE PersistStart(c)
  <2>1. /\ Fresh /\ Store(FirstState) /\ memory' = memory
        /\ Latest = LobbyState /\ snapshots[0] = LobbyState
    BY <1>1, <1>4, LatestInLobby DEF PersistStart, CallCalm, server
  <2>2. PICK n : Moves(c, n) /\ n.pc = "started"
    BY <1>4, GotoFacts DEF PersistStart
  <2>3. \A s : InPlay(s)' => s \in {LobbyState, FirstState}
    <3>1. calls'[c] = n
      BY <2>2 DEF VInv, Moves
    <3> QED BY <2>2, <3>1 DEF HInv, CallCalm
  <2>4. \A i : Unseen(i) => Unseen(i)'
    BY <1>2, <2>1, <2>3 DEF Unseen
  <2>5. \A s : Stored(s) => Stored(s)'
    <3>1. /\ DOMAIN snapshots' = DOMAIN snapshots \cup {FirstState.version}
          /\ \A w \in DOMAIN snapshots :
                w # FirstState.version => snapshots'[w] = snapshots[w]
      BY <2>1, FirstFacts, StoreFacts
    <3>2. FirstState.version # 0 /\ DOMAIN snapshots = {0}
      BY <2>1, FirstFacts DEF Fresh
    <3> QED BY <3>1, <3>2 DEF Stored
  <2>6. \A i : ~Applied(Latest, i)
    BY <1>2, <2>1 DEF Applied
  <2>7. CallActs(n)'
    BY <2>2 DEF CallActs, Owns, Owning, Loading, Holding
  <2> QED BY <1>1, <2>2, <2>4, <2>5, <2>6, <2>7, ActsStep DEF Moves
<1>5. CASE StartRoom(c)
  <2>1. /\ memory' = FirstState /\ calls' = [calls EXCEPT ![c] = Idle]
        /\ snapshots' = snapshots
    BY <1>5 DEF StartRoom, Return, database
  <2>2. Idle.pc \notin Holding /\ ~Owns(Idle)
    BY IdleOK, IdleTyped DEF Holding
  <2>3. \A s : InPlay(s)' => InPlay(s)
    BY <2>1, <2>2, InPlayStep
  <2>4. \A i : Unseen(i) => Unseen(i)'
    BY <1>2, <2>1, <2>3 DEF Unseen
  <2>5. Latest' = Latest /\ \A s : Stored(s)' = Stored(s)
    BY <2>1 DEF Latest, LatestVersion, Stored
  <2>6. \A i : Applied(Latest, i)' = Applied(Latest, i)
    BY <2>5 DEF Applied
  <2>7. CallActs(Idle)'
    BY <2>2 DEF CallActs, Owns, Holding, Owning, Loading, Idle
  <2> QED BY <1>1, <2>1, <2>4, <2>5, <2>6, <2>7, ActsStep
<1> QED BY <1>3, <1>4, <1>5

LEMMA ProcessActs ==
    ASSUME TInv, HInv, AInv,
           Crash \/ Recover \/ RecoverNothing \/ UNCHANGED vars
    PROVE  AInv'
PROOF
<1>1. UNCHANGED <<snapshots, actions>>
  BY DEF Crash, Recover, RecoverNothing, vars, database
<1>2. \A d \in Call : calls'[d] \in {calls[d], Idle}
  BY DEF Crash, Recover, RecoverNothing, vars
<1>3. Latest' = Latest /\ \A s : Stored(s)' = Stored(s)
  BY <1>1 DEF Latest, LatestVersion, Stored
<1>4. \A i : Applied(Latest, i)' = Applied(Latest, i)
  BY <1>3 DEF Applied
<1>5. \A s : InPlay(s)' => InPlay(s)
  BY <1>1, <1>2, IdleTyped DEF InPlay, Holding
<1>6. memory' \in {memory, NoState, Latest}
  BY DEF Crash, Recover, RecoverNothing, vars, server
<1>7. \A i : Unseen(i) => Unseen(i)'
  BY <1>5, <1>6, BeforeLatest DEF Unseen
<1>8. ASSUME NEW d \in Call
      PROVE  CallActs(calls[d])'
  <2>1. CASE calls'[d] = Idle
    BY <2>1, IdleTyped, IdleOK DEF CallActs, Owns, Holding, Owning, Loading
  <2>2. CASE calls'[d] = calls[d]
    <3>1. CallActs(calls[d])
      BY DEF AInv
    <3>2. Owns(calls[d])' <=> Owns(calls[d])
      BY <2>2 DEF Owns
    <3> QED BY <1>3, <1>4, <1>7, <2>2, <3>1, <3>2 DEF CallActs
  <2> QED BY <1>2, <2>1, <2>2
<1> QED BY <1>1, <1>4, <1>7, <1>8 DEF AInv

LEMMA InitActs == ASSUME Init, NoStateIsNone PROVE AInv
PROOF
<1>1. /\ \A c \in Call : calls[c] = Idle
      /\ \A id \in ActionId : actions[id] = "NONE"
  BY DEF Init
<1>2. memory = IF FromLobby THEN NoState ELSE FirstState
  BY DEF Init
<1>3. \A s : InPlay(s) => s \in {LobbyState, FirstState}
  BY <1>1, IdleTyped DEF InPlay, Holding, Init
<1>4. \A id : Unseen(id)
  BY <1>2, <1>3, FirstFacts, LobbyFacts DEF Unseen
<1>5. \A c \in Call : CallActs(calls[c])
  BY <1>1, <1>4, IdleTyped, IdleOK DEF CallActs
<1> QED BY <1>1, <1>4, <1>5 DEF AInv

LEMMA NextActs ==
    ASSUME VInv, TInv, HInv, HInv', AInv, [Next]_vars
    PROVE  AInv'
PROOF
<1>1. ASSUME NEW c \in Call,
             \/ \E id \in ActionId : Submit(c, id)
             \/ \E kind \in Kinds, p \in DOMAIN Rows : PlayerCall(c, kind, p)
             \/ Tick(c) \/ Start(c)
      PROVE  AInv'
  BY <1>1, ArrivalsAct
<1>2. ASSUME NEW c \in Call, Step(c) \/ Fail(c)
      PROVE  AInv'
  BY <1>2, ReserveActs, LookupActs, SettleActs, FailActs, LoadActs, ReplyActs,
     CommitActs, StartActs DEF Step
<1> QED BY <1>1, <1>2, ProcessActs DEF Next

\* The row of an action tells where its effect is.
THEOREM Effects ==
    ASSUME NoStateIsNone
    PROVE  Spec /\ []Calm => [](VInv /\ TInv /\ HInv /\ AInv)
PROOF
<1>1. Init => VInv /\ TInv /\ HInv /\ AInv
  BY InitVerdicts, InitTyped, InitHistory, InitActs
<1>2. VInv /\ TInv /\ HInv /\ AInv /\ Calm /\ [Next]_vars
      => (VInv /\ TInv /\ HInv /\ AInv)'
  BY NextVerdicts, NextTyped, NextHistoryKept, NextActs
<1> QED BY <1>1, <1>2, PTL DEF Spec

\* What clients are told of their actions is true of the game: an accepted one
\* has its effect in the newest snapshot, a rejected one has none anywhere, nor
\* has a duplicate of another action's sequence number, however calls overlap,
\* fail, retry or crash while the game is in memory and not over.
THEOREM AnswersAreTrue ==
    ASSUME NoStateIsNone
    PROVE  Spec /\ []Calm => []AnswersHold
PROOF
<1>1. VInv /\ TInv /\ HInv /\ AInv => AnswersHold
  <2> SUFFICES ASSUME VInv, AInv, NEW a \in answers
               PROVE  /\ a[2] = "ACCEPTED" => Applied(Latest, a[1])
                      /\ a[2] = "REPLAYED" =>
                            \E other \in Rivals(a[1]) : Applied(Latest, other)
                      /\ a[2] = "REJECTED" => Unseen(a[1])
                      /\ a[1] \notin Rivals(a[1]) => Unseen(a[1])
    BY DEF AnswersHold, AcceptedIsApplied, NoEffect, Unseen, InPlay
  <2>1. a[1] \in ActionId /\ \A other \in Rivals(a[1]) : other \in ActionId
    BY DEF VInv, Rivals
  <2>2. /\ a[2] = "ACCEPTED" => actions[a[1]] = "APPLIED"
        /\ a[2] = "REJECTED" => actions[a[1]] = "REJECTED"
        /\ a[2] = "REPLAYED" =>
              \E other \in Rivals(a[1]) : actions[other] = "APPLIED"
    BY DEF VInv, VerdictsHold
  <2>3. a[1] \notin Rivals(a[1]) => actions[a[1]] = "NONE"
    BY <2>1 DEF Rivals
  <2> QED BY <2>1, <2>2, <2>3 DEF AInv
<1> QED BY <1>1, Effects, PTL

\* A running game that nobody has won needs no condition on its calls: any
\* moves, ticks, timeouts, disconnects, reconnects, leaves and
\* synchronisations, retries, failures and restarts leave one history, a hot
\* state that is not behind it and answers that are true, provided that each
\* restart recovers the room: one whose recoverActiveRooms fails (server.ts goes
\* on without it) is outside the theorem, and the run failed_recovery shows why.
THEOREM RunningGame ==
    ASSUME NoStateIsNone, ~FromLobby
    PROVE  Spec /\ []NobodyHasWon /\ []NothingNeglected
           => [](OneHistory /\ MemoryNotBehind /\ AnswersHold)
PROOF
  BY RunningIsCalm, OneGame, HotIsNewest, AnswersAreTrue, PTL

-------------------------------------------------------------------------------
(***************************************************************************)
(* The coordinator implements the action log, as long as the history of    *)
(* the newest snapshot has not begun to drop actions.                      *)
(***************************************************************************)
HistoryHasRoom == ~Full(Latest)

\* The steps that change the rows or the snapshots.
LEMMA LogChanges ==
    ASSUME [Next]_vars
    PROVE  \/ UNCHANGED <<snapshots, actions>>
           \/ \E c \in Call : \/ Reserve(c) \/ Mark(c) \/ Refuse(c)
                              \/ Commit(c) \/ PersistStart(c)
PROOF
<1>1. ASSUME NEW c \in Call,
             \/ \E id \in ActionId : Submit(c, id)
             \/ \E kind \in Kinds, p \in DOMAIN Rows : PlayerCall(c, kind, p)
             \/ Tick(c) \/ Start(c)
      PROVE  UNCHANGED <<snapshots, actions>>
  BY <1>1 DEF Submit, PlayerCall, Tick, Start, Arrive, database
<1>2. ASSUME NEW c \in Call, Step(c) \/ Fail(c),
             ~(Reserve(c) \/ Mark(c) \/ Refuse(c) \/ Commit(c) \/ PersistStart(c))
      PROVE  UNCHANGED <<snapshots, actions>>
  BY <1>2 DEF Step, Fail, Lookup, LoadHot, LoadNothing, AskDatabase,
     QueryLatest, LoadCold, ReadRoom, Persisted, MarkStarting, StartRoom,
     database
<1>3. ASSUME Crash \/ Recover \/ RecoverNothing \/ UNCHANGED vars
      PROVE  UNCHANGED <<snapshots, actions>>
  BY <1>3 DEF Crash, Recover, RecoverNothing, vars, database
<1> QED BY <1>1, <1>2, <1>3 DEF Next

LEMMA RowsTell ==
    ASSUME VInv, TInv, HInv, AInv, HistoryHasRoom, NEW id \in ActionId
    PROVE  /\ Applied(Latest, id) <=> id \in Ids(Latest)
           /\ Unseen(id) => id \notin Ids(Latest)
PROOF
  BY BeforeLatest DEF Applied, HistoryHasRoom, Unseen

LEMMA CommitIsTake ==
    ASSUME VInv, TInv, HInv, AInv, HistoryHasRoom, HistoryHasRoom',
           NEW c \in Call, Commit(c)
    PROVE  Ledger!Next
PROOF
<1> DEFINE ids == Ids(Latest') \ Ids(Latest)
<1>1. Known(Latest') /\ Known(Latest) /\ InPlay(Latest')
  <2> PICK t : t = calls[c].state
    OBVIOUS
  <2>1. Known(t) /\ Store(t) /\ InPlay(t)
    BY DEF TInv, CallTyped, Commit, InPlay, Holding
  <2>2. Latest' \in {t, Latest}
    BY <2>1, StoreFacts
  <2> QED BY <2>1, <2>2, LatestFacts, BeforeLatest
<1>2. Ids(Latest') \subseteq ActionId /\ Ids(Latest) \subseteq ActionId
  BY <1>1, LobbyFacts DEF Known, Begun, GameState, Ids
<1>3. Ids(Latest) \subseteq Ids(Latest')
  <2> SUFFICES ASSUME NEW id \in Ids(Latest) PROVE id \in Ids(Latest')
    OBVIOUS
  <2>1. Applied(Latest, id)
    BY DEF Applied
  <2>2. Applied(Latest, id)'
    BY <1>2, <2>1, CommitStored
  <2> QED BY <2>2 DEF Applied, HistoryHasRoom
<1>4. ASSUME NEW id \in ids
      PROVE  actions[id] = "RECEIVED"
  <2>1. ~Unseen(id)
    BY <1>1 DEF Unseen
  <2>2. actions[id] # "APPLIED"
    BY <1>2, RowsTell DEF AInv
  <2>3. actions[id] \in RowStatus
    BY <1>2 DEF TInv
  <2> QED BY <1>2, <2>1, <2>2, <2>3 DEF AInv, RowStatus
<1>5. Ids(Latest)' = Ids(Latest) \cup ids /\ actions' = actions
  BY <1>3 DEF Commit
<1>6. Ledger!TakeEffect(ids)
  BY <1>4, <1>5 DEF Ledger!TakeEffect
<1> QED BY <1>2, <1>6 DEF Ledger!Next

LEMMA LedgerStep ==
    ASSUME VInv, TInv, HInv, AInv, HistoryHasRoom, HistoryHasRoom',
           [Next]_vars
    PROVE  [Ledger!Next]_Ledger!vars
PROOF
<1>1. ASSUME snapshots' = snapshots
      PROVE  Ids(Latest)' = Ids(Latest)
  BY <1>1 DEF Latest, LatestVersion, Ids
<1>2. CASE UNCHANGED <<snapshots, actions>>
  BY <1>1, <1>2 DEF Ledger!vars
<1>3. ASSUME NEW c \in Call, Reserve(c)
      PROVE  [Ledger!Next]_Ledger!vars
  <2> DEFINE id == calls[c].action
  <2>1. snapshots' = snapshots /\ id \in ActionId
    BY <1>3 DEF Reserve, VInv, CallOK
  <2>2. CASE Rivals(id) = {}
    <3>1. actions[id] = "NONE" /\ actions' = [actions EXCEPT ![id] = "RECEIVED"]
      BY <1>3, <2>1, <2>2 DEF Reserve, Rivals
    <3> HIDE DEF id
    <3>2. Ledger!Receive(id)
      BY <1>1, <2>1, <3>1 DEF Ledger!Receive
    <3> QED BY <2>1, <3>2 DEF Ledger!Next
  <2>3. CASE Rivals(id) # {}
    BY <1>2, <1>3, <2>1, <2>3 DEF Reserve
  <2> QED BY <2>2, <2>3
<1>4. ASSUME NEW c \in Call, Mark(c) \/ Refuse(c)
      PROVE  [Ledger!Next]_Ledger!vars
  <2> DEFINE k == calls[c]
  <2>1. PICK id : id = k.action
    OBVIOUS
  <2>2. /\ snapshots' = snapshots /\ id \in ActionId /\ k.kind = "move"
        /\ CallActs(k) /\ CallOK(k)
    BY <1>4, <2>1 DEF Mark, Refuse, Settle, VInv, CallOK, AInv
  <2>3. Owns(k) /\ actions[id] = "RECEIVED"
    BY <1>4, <2>1, <2>2 DEF Mark, Refuse, Settle, Owns, Owning, CallOK
  <2>4. CASE Mark(c)
    <3>1. id \in Ids(Latest) /\ actions' = [actions EXCEPT ![id] = "APPLIED"]
      BY <2>1, <2>2, <2>3, <2>4, RowsTell DEF Mark, Settle, CallActs
    <3>2. Ledger!Acknowledge(id)
      BY <1>1, <2>2, <2>3, <3>1 DEF Ledger!Acknowledge
    <3> QED BY <2>2, <3>2 DEF Ledger!Next
  <2>5. CASE Refuse(c)
    <3>1. id \notin Ids(Latest) /\ actions' = [actions EXCEPT ![id] = "REJECTED"]
      BY <2>1, <2>2, <2>3, <2>5, RowsTell DEF Refuse, Settle, CallActs
    <3>2. Ledger!Refuse(id)
      BY <1>1, <2>2, <2>3, <3>1 DEF Ledger!Refuse
    <3> QED BY <2>2, <3>2 DEF Ledger!Next
  <2> QED BY <1>4, <2>4, <2>5
<1>5. ASSUME NEW c \in Call, PersistStart(c)
      PROVE  [Ledger!Next]_Ledger!vars
  <2>1. Fresh /\ Store(FirstState) /\ actions' = actions
    BY <1>5 DEF HInv, CallCalm, PersistStart
  <2>2. Latest = LobbyState /\ LatestVersion = 0
    <3>1. Latest = LobbyState
      BY <2>1, LatestInLobby
    <3> QED BY <3>1, LatestFacts, LobbyFacts
  <2>3. Latest' = FirstState
    <3>1. Latest' = IF FirstState.version >= LatestVersion THEN FirstState
                    ELSE Latest
      BY <2>1, FirstFacts, StoreFacts
    <3> QED BY <2>2, <3>1, FirstFacts
  <2> QED BY <2>1, <2>2, <2>3, FirstFacts, LobbyFacts DEF Ledger!vars
<1> QED BY <1>2, <1>3, <1>4, <1>5, CommitIsTake, LogChanges

LEMMA LedgerInit ==
    ASSUME Init, TInv
    PROVE  Ledger!Init
PROOF
<1>1. LatestVersion \in DOMAIN snapshots
  BY LatestFacts
<1>2. Latest \in {LobbyState, FirstState}
  BY <1>1 DEF Init, Latest
<1>3. Ids(Latest) = {}
  BY <1>2, FirstFacts, LobbyFacts
<1> QED BY <1>3 DEF Ledger!Init, Init

\* The coordinator keeps the promises of the action log: an action is received
\* once, takes effect for good, is acknowledged only when its effect is durable
\* and refused only if it never has one; under the same condition, for games
\* whose history has dropped no action yet.
THEOREM LogIsKept ==
    ASSUME NoStateIsNone
    PROVE  Spec /\ []Calm /\ []HistoryHasRoom => LedgerSpec
PROOF
<1>1. Init /\ TInv => Ledger!Init
  BY LedgerInit
<1>2. /\ VInv /\ TInv /\ HInv /\ AInv
      /\ HistoryHasRoom /\ HistoryHasRoom' /\ [Next]_vars
      => [Ledger!Next]_Ledger!vars
  BY LedgerStep
<1> QED BY <1>1, <1>2, Effects, PTL DEF Spec, LedgerSpec, Ledger!Spec

-------------------------------------------------------------------------------
(***************************************************************************)
(* The end of the game, under the same condition.  The inductive           *)
(* invariant: in a finished room the newest snapshot is the finished       *)
(* state, the hot state is that or none, and a timer that is left has the  *)
(* reply of the last transaction still to come, or the reply was lost.     *)
(***************************************************************************)
CallOver(k) ==
    /\ k.pc \in Holding /\ memory.phase = "FINISHED" => k.state = memory
    /\ k.pc = "commit" /\ k.state.phase = "FINISHED" =>
          (k.seen = "FINISHED" <=> room.status = "FINISHED")

ReplyPending ==
    \E c \in Call : /\ calls[c].pc = "persisted"
                    /\ calls[c].state.phase = "FINISHED"

EInv ==
    /\ scored = IF room.status = "FINISHED" THEN 1 ELSE 0
    /\ room.status = "FINISHED" =>
          Latest.phase = "FINISHED" /\ memory \in {NoState, Latest}
    /\ timer => memory # NoState
    /\ timer /\ room.status = "FINISHED" => failures > 0 \/ ReplyPending
    /\ \A c \in Call : CallOver(calls[c])

\* A call that has just stored or is to store a state of a finished room holds
\* the finished state.
LEMMA HeldIsOver ==
    ASSUME TInv, HInv, EInv, NEW c \in Call, calls[c].pc \in Holding,
           room.status = "FINISHED"
    PROVE  calls[c].state = Latest /\ memory = Latest
PROOF
<1>1. memory = Latest /\ Latest.phase = "FINISHED"
  BY DEF EInv, HInv, CallCalm
<1> QED BY <1>1 DEF EInv, CallOver

\* Nobody plays on a finished room's state.
LEMMA OverIsStored ==
    ASSUME TInv, HInv, EInv, room.status = "FINISHED"
    PROVE  /\ Latest.phase = "FINISHED" /\ Latest # LobbyState
           /\ ~Fresh
           /\ \A c \in Call : ~Starter(calls[c])
PROOF
<1>1. Latest.phase = "FINISHED" /\ memory \in {NoState, Latest}
  BY DEF EInv
<1>2. Latest # LobbyState /\ Latest # FirstState /\ InPlay(Latest)
  BY <1>1, LobbyFacts, FirstFacts, BeforeLatest
<1>3. ~Fresh
  BY <1>2 DEF Fresh
<1>4. ASSUME NEW c \in Call
      PROVE  ~Starter(calls[c])
  BY <1>2, <1>3 DEF HInv, CallCalm, Starter
<1> QED BY <1>1, <1>2, <1>3, <1>4

\* One call moves on, the room and its snapshots stay.
LEMMA OverStep ==
    ASSUME VInv, EInv, NEW c \in Call, NEW n, calls' = [calls EXCEPT ![c] = n],
           UNCHANGED <<room, snapshots, scored>>,
           failures' = failures \/ failures' > 0,
           calls[c].pc # "persisted" \/ failures' > 0
               \/ calls[c].state.phase # "FINISHED" \/ ~timer',
           room.status = "FINISHED" => memory' \in {NoState, Latest},
           timer' => timer /\ memory' # NoState,
           \A d \in Call \ {c} : calls[d].pc \in Holding
               /\ memory'.phase = "FINISHED" => calls[d].state = memory',
           CallOver(n)'
    PROVE  EInv'
PROOF
<1>1. \A d \in Call : calls'[d] = IF d = c THEN n ELSE calls[d]
  BY DEF VInv
<1>2. Latest' = Latest
  BY DEF Latest, LatestVersion
<1>3. /\ scored' = IF room'.status = "FINISHED" THEN 1 ELSE 0
      /\ room'.status = "FINISHED" =>
            Latest'.phase = "FINISHED" /\ memory' \in {NoState, Latest'}
  BY <1>2 DEF EInv
<1>4. timer' /\ room'.status = "FINISHED" => failures' > 0 \/ ReplyPending'
  <2> SUFFICES ASSUME timer', room.status = "FINISHED", ~(failures' > 0)
               PROVE  ReplyPending'
    OBVIOUS
  <2>1. PICK d \in Call : /\ calls[d].pc = "persisted"
                          /\ calls[d].state.phase = "FINISHED"
    BY DEF EInv, ReplyPending
  <2> QED BY <1>1, <2>1 DEF ReplyPending
<1>5. ASSUME NEW d \in Call
      PROVE  CallOver(calls[d])'
  <2>1. CASE d = c
    BY <1>1, <2>1
  <2>2. CASE d # c
    BY <1>1, <2>2 DEF EInv, CallOver
  <2> QED BY <2>1, <2>2
<1> QED BY <1>3, <1>4, <1>5 DEF EInv

LEMMA LightOver ==
    ASSUME VInv, TInv, EInv, NEW c \in Call, NEW n, Light(c, n)
    PROVE  EInv'
PROOF
<1>1. /\ calls' = [calls EXCEPT ![c] = n]
      /\ UNCHANGED <<memory, room, snapshots, scored>>
      /\ failures' \in Nat /\ failures' >= failures /\ failures \in Nat
      /\ calls[c].pc = "persisted" => failures' > 0
  BY DEF Light, TInv
<1>2. timer' <=> timer
  BY DEF Light
<1>3. CallOver(n)'
  BY DEF Light, CallOver, Holding
<1>4. failures' = failures \/ failures' > 0
  BY <1>1
<1> QED BY <1>1, <1>2, <1>3, <1>4, OverStep DEF EInv, CallOver

LEMMA ContinueOver ==
    ASSUME VInv, TInv, HInv, EInv, NoStateIsNone, Calm', NEW c \in Call, NEW s,
           calls[c].pc \in Loading, Known(s), Continue(c, s),
           \/ s = memory /\ memory # NoState
           \/ s = Latest /\ \A d \in Call \ {c} : calls[d] = Idle,
           s.phase = "FINISHED" => \A d \in Call \ {c} : calls[d] = Idle,
           UNCHANGED <<up, database, failures>>
    PROVE  EInv'
PROOF
<1> DEFINE k == calls[c]
<1>1. CallTyped(k) /\ k.pc # "persisted" /\ s # NoState
  BY KnownIsState DEF TInv, Loading
<1>2. UNCHANGED <<room, snapshots, scored>> /\ failures' = failures
  BY DEF database
<1>3. \A d \in Call \ {c} : calls'[d] = calls[d]
  BY <1>1, ContinueCases DEF VInv, Ends, Refuses, Forgets, Saves, Moves
<1>4. room.status = "FINISHED" => s = Latest /\ s.phase = "FINISHED"
  BY DEF EInv
<1>5. ASSUME NEW n, calls' = [calls EXCEPT ![c] = n], memory' = s,
             timer' <=> timer, n.pc \notin Holding
      PROVE  EInv'
  <2>1. \A d \in Call \ {c} : calls[d].pc \in Holding
               /\ memory'.phase = "FINISHED" => calls[d].state = memory'
    BY <1>5, IdleTyped DEF EInv, CallOver, Holding
  <2>2. CallOver(n)'
    BY <1>5 DEF CallOver, Holding
  <2> QED BY <1>1, <1>2, <1>4, <1>5, <2>1, <2>2, OverStep
<1>6. CASE Ends(c, s)
  <2>1. timer' <=> timer
    BY <1>6 DEF Ends
  <2> QED BY <1>5, <1>6, <2>1, IdleTyped DEF Ends, Holding
<1>7. CASE Refuses(c, s)
  <2>1. timer' <=> timer
    BY <1>7 DEF Refuses
  <2> QED BY <1>5, <1>7, <2>1 DEF Refuses, Moves, Holding
<1>8. CASE Forgets(c, s)
  <2>1. /\ ~timer' /\ memory' = NoState /\ calls' = [calls EXCEPT ![c] = Idle]
        /\ \A d \in Call \ {c} : calls[d].pc \notin Holding
    BY <1>8, IdleTyped DEF Forgets, Holding
  <2>2. CallOver(Idle)'
    BY IdleTyped DEF CallOver, Holding
  <2> QED BY <1>1, <1>2, <2>1, <2>2, OverStep
<1>9. ASSUME NEW t, Saves(c, s, t)
      PROVE  EInv'
  <2>1. PICK n : Moves(c, n) /\ n.pc = "read" /\ n.state = t
    BY <1>9 DEF Saves
  <2>2. calls' = [calls EXCEPT ![c] = n] /\ memory' = t /\ t # NoState
    BY <1>9, <2>1, KnownIsState DEF Saves, Moves, NextOf, SameLobby, Known
  <2>3. timer' <=> timer
    BY <1>9 DEF Saves
  <2>4. s.phase # "FINISHED"
    BY <1>9, LobbyFacts DEF Saves, NextOf, SameLobby
  <2>5. t.phase = "FINISHED" => \A d \in Call \ {c} : calls[d] = Idle
    <3>1. calls'[c] = n /\ n # Idle
      BY <2>1, <2>2, IdleTyped DEF VInv
    <3> QED BY <1>3, <2>2, <3>1 DEF Calm
  <2>6. \A d \in Call \ {c} : calls[d].pc \in Holding
               /\ memory'.phase = "FINISHED" => calls[d].state = memory'
    BY <2>2, <2>5, IdleTyped DEF Holding
  <2>7. CallOver(n)'
    BY <2>1, <2>2 DEF CallOver
  <2> QED BY <1>1, <1>2, <1>4, <2>2, <2>3, <2>4, <2>6, <2>7, OverStep
<1> QED BY <1>1, <1>6, <1>7, <1>8, <1>9, ContinueCases

LEMMA LoadOver ==
    ASSUME VInv, TInv, HInv, EInv, Calm, Calm', NoStateIsNone, NEW c \in Call,
           \/ LoadHot(c) \/ LoadNothing(c) \/ QueryLatest(c) \/ LoadCold(c)
    PROVE  EInv'
PROOF
<1> DEFINE k == calls[c]
<1>1. CallTyped(k) /\ CallCalm(k)
  BY DEF TInv, HInv
<1>2. CASE LoadHot(c)
  <2>1. /\ k.pc \in Loading /\ Known(memory) /\ Continue(c, memory)
        /\ memory # NoState /\ k.pc # "idle"
        /\ UNCHANGED <<up, database, failures>>
    BY <1>2 DEF LoadHot, Loading, TInv
  <2> QED BY <2>1, AloneIfCalm, ContinueOver
<1>3. CASE LoadCold(c)
  <2>1. /\ k.pc \in Loading /\ Known(k.state) /\ Continue(c, k.state)
        /\ k.state = Latest /\ memory = NoState /\ k.pc # "idle"
        /\ UNCHANGED <<up, database, failures>>
    BY <1>1, <1>3 DEF LoadCold, Loading, CallTyped, CallCalm
  <2> QED BY <2>1, AloneIfCalm, ContinueOver
<1>4. UNCHANGED <<room, snapshots, scored>> /\ failures' = failures
  BY DEF LoadHot, LoadNothing, QueryLatest, LoadCold, database
<1>5. CASE LoadNothing(c)
  <2>1. /\ memory' = memory /\ calls' = [calls EXCEPT ![c] = Idle]
        /\ k.pc = "load"
    BY <1>5 DEF LoadNothing, Return
  <2>2. timer' => timer
    BY <1>5 DEF LoadNothing
  <2>3. CallOver(Idle)'
    BY IdleTyped DEF CallOver, Holding
  <2> QED BY <1>4, <2>1, <2>2, <2>3, OverStep DEF EInv, CallOver
<1>6. CASE QueryLatest(c)
  <2>1. PICK n : Moves(c, n) /\ n.pc = "loaded"
    BY <1>6, QueryFacts
  <2>2. memory' = memory /\ k.pc = "query"
    BY <1>6 DEF QueryLatest, server
  <2>3. timer' <=> timer
    BY <1>6 DEF QueryLatest, server
  <2>4. CallOver(n)'
    BY <2>1 DEF CallOver, Holding
  <2> QED BY <1>4, <2>1, <2>2, <2>3, <2>4, OverStep DEF EInv, CallOver, Moves
<1> QED BY <1>2, <1>3, <1>5, <1>6

\* The reply to the last transaction stops the timer.
LEMMA ReplyOver ==
    ASSUME VInv, TInv, HInv, EInv, Calm, NEW c \in Call,
           ReadRoom(c) \/ Persisted(c)
    PROVE  EInv'
PROOF
<1> DEFINE k == calls[c]
<1>1. CallTyped(k) /\ CallCalm(k) /\ CallOver(k)
  BY DEF TInv, HInv, EInv
<1>2. UNCHANGED <<room, snapshots, scored>> /\ failures' = failures
  BY DEF ReadRoom, Persisted, database
<1>3. CASE ReadRoom(c)
  <2>1. PICK n : /\ Moves(c, n) /\ n.pc = "commit" /\ n.state = k.state
                 /\ n.seen = room.status
    BY <1>3, ReadFacts
  <2>2. memory' = memory /\ k.pc = "read"
    BY <1>3 DEF ReadRoom, server
  <2>3. timer' <=> timer
    BY <1>3 DEF ReadRoom, server
  <2>4. CallOver(n)'
    BY <1>1, <1>2, <2>1, <2>2 DEF CallOver, Holding
  <2> QED BY <1>2, <2>1, <2>2, <2>3, <2>4, OverStep DEF EInv, CallOver, Moves
<1>4. CASE Persisted(c)
  <2>1. k.pc = "persisted" /\ Known(k.state) /\ InPlay(k.state)
    BY <1>1, <1>4 DEF Persisted, CallTyped, InPlay, Holding
  <2>2. PICK n : /\ calls' = [calls EXCEPT ![c] = n]
                 /\ n.pc \in {"idle", "load", "mark"}
    BY <1>1, <1>4, <2>1, PersistedFacts
  <2>3. CallOver(n)'
    BY <2>2 DEF CallOver, Holding
  <2>4. CASE k.state.phase # "FINISHED"
    <3>1. memory' = memory
      BY <1>4, <2>4 DEF Persisted
    <3>2. timer' <=> timer
      BY <1>4, <2>4 DEF Persisted
    <3> QED BY <1>2, <2>2, <2>3, <2>4, <3>1, <3>2, OverStep DEF EInv, CallOver
  <2>5. CASE k.state.phase = "FINISHED"
    <3>1. memory' = NoState
      BY <1>4, <2>5 DEF Persisted
    <3>2. ~timer'
      BY <1>4, <2>5 DEF Persisted
    <3>3. memory # NoState /\ memory.phase = "FINISHED"
      <4>1. memory # NoState /\ memory # LobbyState
        BY <1>1, <2>1, <2>5, LobbyFacts DEF CallCalm, Holding
      <4>2. Before(k.state, memory)
        BY <2>1, <4>1 DEF HInv, Newest, InLobby
      <4> QED BY <2>5, <4>1, <4>2, LobbyFacts DEF Before
    <3>4. \A d \in Call \ {c} : calls[d] = Idle
      BY <2>1, <3>3, AloneIfCalm
    <3>5. \A d \in Call \ {c} : calls[d].pc \notin Holding
      BY <3>4, IdleTyped DEF Holding
    <3> QED BY <1>2, <2>2, <2>3, <3>1, <3>2, <3>5, OverStep
  <2> QED BY <2>4, <2>5
<1> QED BY <1>3, <1>4

\* The last transaction stores the hot state, counts once and closes the room;
\* an earlier one finds it open.
LEMMA CommitOver ==
    ASSUME VInv, TInv, HInv, EInv, Calm, NEW c \in Call, Commit(c)
    PROVE  EInv'
PROOF
<1> DEFINE k == calls[c]
<1>1. /\ CallTyped(k) /\ CallCalm(k) /\ CallOver(k) /\ k.pc = "commit"
      /\ Known(k.state) /\ Store(k.state) /\ InPlay(k.state)
  BY DEF TInv, HInv, EInv, CallTyped, Commit, InPlay, Holding
<1>2. memory' = memory /\ failures' = failures /\ memory # NoState
  BY <1>1 DEF Commit, server, CallCalm, Holding
<1>3. timer' <=> timer
  BY DEF Commit, server
<1>4. PICK n : Moves(c, n) /\ n.pc = "persisted" /\ n.state = k.state
  BY GotoFacts DEF Commit
<1>5. \A d \in Call : calls'[d] = IF d = c THEN n ELSE calls[d]
  BY <1>4 DEF VInv, Moves
<1>6. CallOver(n)'
  BY <1>1, <1>2, <1>4 DEF CallOver, Holding
<1>7. CASE k.state.phase # "FINISHED"
  <2>1. room.status # "FINISHED"
    BY <1>1, <1>7, HeldIsOver, OverIsStored DEF Holding
  <2>2. room'.status = "IN_PROGRESS" /\ scored' = scored
    BY <1>7 DEF Commit
  <2>3. \A d \in Call : CallOver(calls[d])'
    BY <1>2, <1>5, <1>6, <2>1, <2>2 DEF EInv, CallOver
  <2> QED BY <1>2, <1>3, <2>1, <2>2, <2>3 DEF EInv
<1>8. CASE k.state.phase = "FINISHED"
  <2>1. memory = k.state
    <3>1. memory # LobbyState
      BY <1>1, <1>8, LobbyFacts DEF CallCalm, Holding
    <3>2. Before(k.state, memory)
      BY <1>1, <1>2, <3>1 DEF HInv, Newest, InLobby
    <3> QED BY <1>8, <3>2, LobbyFacts DEF Before
  <2>2. \A d \in Call \ {c} : calls[d] = Idle
    BY <1>1, <1>8, <2>1, AloneIfCalm
  <2>3. Latest' = k.state
    <3>1. /\ InPlay(Latest) /\ Latest.version = LatestVersion
          /\ LatestVersion \in Nat /\ k.state.version \in Nat
      BY <1>1, LatestFacts, BeforeLatest, KnownFacts
    <3>2. k.state # LobbyState
      BY <1>8, LobbyFacts
    <3>3. Before(Latest, k.state)
      BY <1>2, <2>1, <3>1, <3>2 DEF HInv, Newest, InLobby
    <3>4. k.state.version >= LatestVersion
      BY <3>1, <3>3 DEF Before
    <3> QED BY <1>1, <3>4, StoreFacts
  <2>4. room'.status = "FINISHED"
        /\ scored' = IF k.seen # "FINISHED" THEN scored + 1 ELSE scored
    BY <1>8 DEF Commit
  <2>5. k.seen = "FINISHED" <=> room.status = "FINISHED"
    BY <1>1, <1>8 DEF CallOver
  <2>6. scored' = 1
    BY <2>4, <2>5 DEF EInv
  <2>7. ReplyPending'
    BY <1>4, <1>5, <1>8 DEF ReplyPending
  <2>8. ASSUME NEW d \in Call
        PROVE  CallOver(calls[d])'
    <3>1. CASE d = c
      BY <1>5, <1>6, <3>1
    <3>2. CASE d # c
      <4>1. calls'[d] = Idle
        BY <1>5, <2>2, <3>2
      <4> QED BY <4>1, IdleTyped DEF CallOver, Holding
    <3> QED BY <3>1, <3>2
  <2> QED BY <1>2, <1>3, <1>8, <2>1, <2>3, <2>4, <2>6, <2>7, <2>8 DEF EInv
<1> QED BY <1>7, <1>8

\* A start finds the room open and leaves it so.
LEMMA StartOver ==
    ASSUME VInv, TInv, HInv, EInv, NoStateIsNone, NEW c \in Call,
           MarkStarting(c) \/ PersistStart(c) \/ StartRoom(c)
    PROVE  EInv'
PROOF
<1> DEFINE k == calls[c]
<1>2. CASE MarkStarting(c) /\ Light(c, Idle)
  BY <1>2, LightOver
<1>3. CASE MarkStarting(c) /\ ~Light(c, Idle)
  <2>1. PICK n : Moves(c, n) /\ n.pc = "countdown"
    BY <1>3, ClaimFacts
  <2>2. /\ room.status = "WAITING" /\ room'.status = "STARTING"
        /\ memory' = memory /\ scored' = scored
    BY <1>3, ClaimFacts
  <2>3. timer' <=> timer
    BY <1>3, ClaimFacts
  <2>4. \A d \in Call : calls'[d] = IF d = c THEN n ELSE calls[d]
    BY <2>1 DEF VInv, Moves
  <2>5. \A d \in Call : CallOver(calls[d])'
    BY <2>1, <2>2, <2>4 DEF EInv, CallOver, Holding
  <2> QED BY <2>2, <2>3, <2>5 DEF EInv
<1>4. CASE PersistStart(c)
  <2>1. room.status # "FINISHED"
    BY <1>4, OverIsStored DEF PersistStart, Starter
  <2>2. /\ room'.status = "IN_PROGRESS" /\ memory' = memory
        /\ scored' = scored
    BY <1>4 DEF PersistStart, server
  <2>3. timer' <=> timer
    BY <1>4 DEF PersistStart, server
  <2>4. PICK n : Moves(c, n) /\ n.pc = "started"
    BY <1>4, GotoFacts DEF PersistStart
  <2>5. \A d \in Call : calls'[d] = IF d = c THEN n ELSE calls[d]
    BY <2>4 DEF VInv, Moves
  <2>6. \A d \in Call : CallOver(calls[d])'
    BY <2>1, <2>2, <2>4, <2>5 DEF EInv, CallOver, Holding
  <2> QED BY <2>1, <2>2, <2>3, <2>6 DEF EInv
<1>5. CASE StartRoom(c)
  <2>1. room.status # "FINISHED"
    BY <1>5, OverIsStored DEF StartRoom, Starter
  <2>2. /\ memory' = FirstState /\ calls' = [calls EXCEPT ![c] = Idle]
        /\ room' = room /\ scored' = scored
    BY <1>5 DEF StartRoom, Return, database
  <2>3. FirstState # NoState /\ FirstState.phase # "FINISHED"
    BY FirstFacts, KnownIsState
  <2>4. \A d \in Call : calls'[d] = IF d = c THEN Idle ELSE calls[d]
    BY <2>2 DEF VInv
  <2>5. \A d \in Call : CallOver(calls[d])'
    BY <2>1, <2>2, <2>3, <2>4, IdleTyped DEF EInv, CallOver, Holding
  <2> QED BY <2>1, <2>2, <2>3, <2>5 DEF EInv
<1> QED BY <1>2, <1>3, <1>4, <1>5

LEMMA ProcessOver ==
    ASSUME VInv, TInv, HInv, EInv, NoStateIsNone,
           Crash \/ Recover \/ RecoverNothing \/ UNCHANGED vars
    PROVE  EInv'
PROOF
<1>1. /\ UNCHANGED <<room, snapshots, scored>>
      /\ failures > 0 => failures' > 0
  BY DEF Crash, Recover, RecoverNothing, vars, database, TInv
<1>2. Latest' = Latest
  BY <1>1 DEF Latest, LatestVersion
<1>3. ASSUME \A d \in Call : calls'[d] = Idle
      PROVE  \A d \in Call : CallOver(calls[d])'
  BY <1>3, IdleTyped DEF CallOver, Holding
<1>4. CASE Crash
  <2>1. \A d \in Call : calls'[d] = Idle
    BY <1>4 DEF Crash
  <2>2. memory' = NoState
    BY <1>4 DEF Crash
  <2>3. ~timer'
    BY <1>4 DEF Crash
  <2> QED BY <1>1, <1>2, <1>3, <2>1, <2>2, <2>3 DEF EInv
<1>5. CASE Recover
  <2>1. \A d \in Call : calls'[d] = Idle
    BY <1>5 DEF Recover, HInv, CallCalm
  <2>2. memory' = IF Recoverable THEN Latest ELSE NoState
    BY <1>5 DEF Recover
  <2>3. timer' <=> room.status = "IN_PROGRESS"
    BY <1>5 DEF Recover
  <2>4. Latest # NoState
    BY LatestFacts, KnownIsState
  <2> QED BY <1>1, <1>2, <1>3, <2>1, <2>2, <2>3, <2>4 DEF EInv, Recoverable
<1>6. CASE RecoverNothing \/ UNCHANGED vars
  <2>1. UNCHANGED <<memory, calls>>
    BY <1>6 DEF RecoverNothing, vars, server
  <2>2. timer' <=> timer
    BY <1>6 DEF RecoverNothing, vars, server
  <2> QED BY <1>1, <1>2, <2>1, <2>2 DEF EInv, CallOver, ReplyPending
<1> QED BY <1>4, <1>5, <1>6

LEMMA InitOver == ASSUME Init, NoStateIsNone PROVE EInv
PROOF
<1>1. \A c \in Call : calls[c] = Idle
  BY DEF Init
<1>2. \A c \in Call : CallOver(calls[c])
  BY <1>1, IdleTyped DEF CallOver, Holding
<1>3. scored = 0 /\ room.status # "FINISHED"
  BY DEF Init
<1>4. timer => memory = FirstState
  BY DEF Init
<1>5. FirstState # NoState
  BY FirstFacts, KnownIsState
<1> QED BY <1>2, <1>3, <1>4, <1>5 DEF EInv

LEMMA NextOver ==
    ASSUME VInv, TInv, HInv, EInv, Calm, Calm', NoStateIsNone, [Next]_vars
    PROVE  EInv'
PROOF
<1>1. ASSUME NEW c \in Call,
             \/ \E id \in ActionId : Submit(c, id)
             \/ \E kind \in Kinds, p \in DOMAIN Rows : PlayerCall(c, kind, p)
             \/ Tick(c) \/ Start(c)
      PROVE  EInv'
  BY <1>1, ArrivalsAreLight, LightOver
<1>2. ASSUME NEW c \in Call,
             \/ Reserve(c) \/ Lookup(c) \/ AskDatabase(c)
             \/ Mark(c) \/ Refuse(c) \/ Fail(c)
      PROVE  EInv'
  BY <1>2, StepsAreLight, LightOver
<1>3. ASSUME NEW c \in Call, Step(c) \/ Fail(c)
      PROVE  EInv'
  BY <1>2, <1>3, LoadOver, ReplyOver, CommitOver, StartOver DEF Step
<1> QED BY <1>1, <1>3, ProcessOver DEF Next

\* The inductive invariant of the end of a game: the room, the hot state, the
\* calls and the counted wins agree on whether it is over.
THEOREM Endings ==
    ASSUME NoStateIsNone
    PROVE  Spec /\ []Calm => [](VInv /\ TInv /\ HInv /\ EInv)
PROOF
<1>1. Init => VInv /\ TInv /\ HInv /\ EInv
  BY InitVerdicts, InitTyped, InitHistory, InitOver
<1>2. VInv /\ TInv /\ HInv /\ EInv /\ Calm /\ Calm' /\ [Next]_vars
      => (VInv /\ TInv /\ HInv /\ EInv)'
  BY NextVerdicts, NextTyped, NextHistoryKept, NextOver
<1> QED BY <1>1, <1>2, PTL DEF Spec

\* Wins and losses are counted once: persistGameState with failures, lost
\* replies and restarts anywhere, and calls that overlap until the game is over.
THEOREM CountedOnce ==
    ASSUME NoStateIsNone
    PROVE  Spec /\ []Calm => []ScoredOnce
PROOF
<1>1. EInv => ScoredOnce
  BY DEF EInv, ScoredOnce
<1> QED BY <1>1, Endings, PTL

\* Nothing of a finished game goes on once the calls have ended: no running copy
\* in memory, and a timer only where a reply was lost.
THEOREM NothingGoesOn ==
    ASSUME NoStateIsNone
    PROVE  Spec /\ []Calm => []FinishedIsForgotten
PROOF
<1>1. EInv => FinishedIsForgotten
  <2> SUFFICES ASSUME EInv, Quiet, room.status = "FINISHED"
               PROVE  /\ timer => failures > 0 /\ memory # NoState
                      /\ memory # NoState => memory.phase = "FINISHED"
    BY DEF FinishedIsForgotten
  <2>1. ~ReplyPending
    BY IdleTyped DEF Quiet, ReplyPending, Holding
  <2> QED BY <2>1 DEF EInv
<1> QED BY <1>1, Endings, PTL

\* A room that is finished is not stored anew.
LEMMA OverStays ==
    ASSUME VInv, TInv, HInv, EInv, NoStateIsNone, [Next]_vars
    PROVE  GameOverStays
PROOF
<1> SUFFICES ASSUME room.status = "FINISHED"
             PROVE  room'.status = "FINISHED" /\ Latest' = Latest
  BY DEF GameOverStays
<1>1. CASE UNCHANGED <<room, snapshots>>
  BY <1>1 DEF Latest, LatestVersion
<1>2. ASSUME NEW c \in Call, Commit(c) \/ PersistStart(c) \/ MarkStarting(c)
      PROVE  room'.status = "FINISHED" /\ Latest' = Latest
  <2>1. CASE Commit(c)
    <3>1. Known(calls[c].state) /\ Store(calls[c].state)
          /\ calls[c].pc \in Holding
      BY <2>1 DEF TInv, CallTyped, Commit, Holding
    <3>2. calls[c].state = Latest /\ Latest.phase = "FINISHED"
      BY <3>1, HeldIsOver, OverIsStored
    <3>3. room'.status = "FINISHED"
      BY <2>1, <3>2 DEF Commit
    <3>4. Latest.version = LatestVersion /\ LatestVersion \in Nat
      BY LatestFacts
    <3>5. Latest' = Latest
      BY <3>1, <3>2, <3>4, StoreFacts
    <3> QED BY <3>3, <3>5
  <2>2. CASE PersistStart(c)
    BY <2>2, OverIsStored DEF PersistStart, Starter
  <2>3. CASE MarkStarting(c)
    <3>1. Light(c, Idle)
      BY <2>3, ClaimFacts
    <3>2. UNCHANGED <<room, snapshots>>
      BY <3>1 DEF Light, database
    <3> QED BY <1>1, <3>2
  <2> QED BY <1>2, <2>1, <2>2, <2>3
<1> QED BY <1>1, <1>2, RoomChanges

\* The room of a finished game is not reopened, and the snapshot that names the
\* winner stays the newest.
THEOREM OverIsOver ==
    ASSUME NoStateIsNone
    PROVE  Spec /\ []Calm => GameOverIsFinal
PROOF
<1>1. VInv /\ TInv /\ HInv /\ EInv /\ [Next]_vars => [GameOverStays]_vars
  BY OverStays
<1> QED BY <1>1, Endings, PTL DEF Spec, GameOverIsFinal

\* Where the calls of a room follow one another the condition holds by itself,
\* with failures, retries, lost replies and restarts anywhere.
THEOREM OneAtATime ==
    ASSUME \A c, d \in Call : c = d
    PROVE  Spec => []Calm
PROOF
<1>1. Calm
  BY DEF Calm
<1> QED BY <1>1, PTL

===============================================================================
