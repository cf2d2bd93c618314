------------------------- MODULE GameCoordinatorProofs -------------------------
(***************************************************************************)
(* What a client may believe of the answer to its action, what the state   *)
(* of the coordinator looks like, how a game starts and what keeps it      *)
(* ticking, for any number of calls in flight, actions, crashes and        *)
(* failures.                                                               *)
(***************************************************************************)
EXTENDS GameCoordinator, GameEngineProofs

(***************************************************************************)
(* The inductive invariant.  A call owns the row of its action from the    *)
(* insert until it has put the final status there; nobody else touches the *)
(* row, and a call that is answered from another row has seen a final      *)
(* status there or none.                                                   *)
(***************************************************************************)
Fields == {"kind", "pc", "playerId", "action", "round", "turn", "state", "seen"}

Loading == {"load", "query", "loaded"}

Loader == {"move", "disconnect", "reconnect", "leave", "tick", "sync"}

Owning == {"read", "commit", "persisted", "mark", "refuse"}

Owns(k) ==
    /\ k.kind = "move"
    /\ k.pc \in Owning \/ (k.pc \in Loading /\ k.seen = "NONE")

Witnessed(id) == \E other \in Rivals(id) : actions[other] = "APPLIED"

Rivalled(id) == Rivals(id) # {}

CallOK(k) ==
    /\ DOMAIN k = Fields
    /\ k.kind = "move" => k.action \in ActionId
    /\ k.pc \in Loading => k.kind \in Loader
    /\ k.pc \in {"reserve", "lookup", "mark", "refuse"} => k.kind = "move"
    /\ k.pc \in {"reserve", "lookup"} => k.seen = "NONE"
    /\ Owns(k) => actions[k.action] = "RECEIVED"
    /\ k.kind = "move" /\ k.pc \in Loading /\ k.seen = "APPLIED" =>
          Witnessed(k.action)
    /\ k.kind = "move" /\ k.pc \in Loading /\ k.seen # "NONE" =>
          Rivalled(k.action)

OneOwner ==
    \A c, d \in Call :
        Owns(calls[c]) /\ Owns(calls[d]) /\ calls[c].action = calls[d].action
            => c = d

VInv ==
    /\ DOMAIN calls = Call
    /\ DOMAIN actions = ActionId
    /\ answers \subseteq ActionId \X {"ACCEPTED", "REJECTED", "REPLAYED", "DUPLICATE"}
    /\ \A c \in Call : CallOK(calls[c])
    /\ OneOwner
    /\ VerdictsHold

-------------------------------------------------------------------------------
LEMMA IdleOK == CallOK(Idle) /\ ~Owns(Idle) /\ DOMAIN Idle = Fields
PROOF BY DEF CallOK, Idle, Owns, Fields, Owning, Loading, Loader

\* One call moves on, the rows and the answers stay.
LEMMA CallMoves ==
    ASSUME VInv, NEW c \in Call, NEW n,
           calls' = [calls EXCEPT ![c] = n], UNCHANGED <<actions, answers>>,
           CallOK(n),
           Owns(n) => Owns(calls[c]) /\ n.action = calls[c].action
    PROVE  VInv'
PROOF
<1>1. \A d \in Call : calls'[d] = IF d = c THEN n ELSE calls[d]
  BY DEF VInv
<1>2. \A d \in Call : CallOK(calls[d])'
  BY <1>1 DEF CallOK, Witnessed, Rivalled, Rivals, VInv
<1>3. OneOwner'
  BY <1>1 DEF OneOwner, VInv, Owns
<1>4. VerdictsHold'
  BY DEF VerdictsHold, Rivals, VInv
<1> QED BY <1>1, <1>2, <1>3, <1>4 DEF VInv

\* A call that goes on to another place, without any other change.
LEMMA GotoMoves ==
    ASSUME VInv, NEW c \in Call, NEW pc, Goto(c, pc),
           UNCHANGED <<actions, answers>>,
           LET n == [calls[c] EXCEPT !.pc = pc]
           IN  CallOK(n) /\ (Owns(n) => Owns(calls[c]))
    PROVE  VInv'
PROOF
<1>1. PICK n : n = [calls[c] EXCEPT !.pc = pc]
  OBVIOUS
<1>2. calls' = [calls EXCEPT ![c] = n]
  BY <1>1 DEF Goto
<1>3. n.action = calls[c].action
  BY <1>1 DEF VInv, CallOK, Fields
<1> QED BY <1>1, <1>2, <1>3, CallMoves

\* A call that ends, or was none of a move's.
LEMMA CallEnds ==
    ASSUME VInv, NEW c \in Call, UNCHANGED <<actions, answers>>,
           calls' = [calls EXCEPT ![c] = Idle]
    PROVE  VInv'
PROOF BY IdleOK, CallMoves

\* What a change of pc leaves of a call.
LEMMA PcChanges ==
    ASSUME NEW k, DOMAIN k = Fields, NEW pc
    PROVE  LET n == [k EXCEPT !.pc = pc]
           IN  /\ DOMAIN n = Fields /\ n.pc = pc
               /\ n.kind = k.kind /\ n.action = k.action /\ n.seen = k.seen
PROOF BY DEF Fields

-------------------------------------------------------------------------------
LEMMA ArriveStep ==
    ASSUME VInv, NEW c \in Call, NEW call, Arrive(c, call),
           CallOK(call), ~Owns(call)
    PROVE  VInv'
PROOF BY CallMoves DEF Arrive, database

LEMMA SubmitStep ==
    ASSUME VInv, NEW c \in Call, NEW id \in ActionId, Submit(c, id)
    PROVE  VInv'
PROOF
<1>1. PICK s : Arrive(c, [Idle EXCEPT !.kind = "move", !.pc = "reserve",
                                      !.playerId = Request[id].playerId,
                                      !.action = id, !.round = s.round,
                                      !.turn = s.turn])
  BY DEF Submit
<1>2. PICK n : n = [Idle EXCEPT !.kind = "move", !.pc = "reserve",
                                !.playerId = Request[id].playerId,
                                !.action = id, !.round = s.round,
                                !.turn = s.turn]
  OBVIOUS
<1>3. /\ DOMAIN n = Fields /\ n.kind = "move" /\ n.pc = "reserve"
      /\ n.action = id /\ n.seen = "NONE"
  BY <1>2 DEF Idle, Fields
<1>4. CallOK(n) /\ ~Owns(n)
  BY <1>3 DEF CallOK, Owns, Owning, Loading, Loader
<1> QED BY <1>1, <1>2, <1>4, ArriveStep

\* The calls that are no moves.
LEMMA OtherOK ==
    ASSUME NEW kind, NEW pc, NEW p, kind # "move",
           pc \in Loading => kind \in Loader,
           pc \notin {"reserve", "lookup", "mark", "refuse"}
    PROVE  LET n == [Idle EXCEPT !.kind = kind, !.pc = pc, !.playerId = p]
               m == [Idle EXCEPT !.kind = kind, !.pc = pc]
           IN  CallOK(n) /\ ~Owns(n) /\ CallOK(m) /\ ~Owns(m)
PROOF
<1>1. PICK n : n = [Idle EXCEPT !.kind = kind, !.pc = pc, !.playerId = p]
  OBVIOUS
<1>2. PICK m : m = [Idle EXCEPT !.kind = kind, !.pc = pc]
  OBVIOUS
<1>3. /\ DOMAIN n = Fields /\ n.kind = kind /\ n.pc = pc
      /\ DOMAIN m = Fields /\ m.kind = kind /\ m.pc = pc
  BY <1>1, <1>2 DEF Idle, Fields
<1>4. CallOK(n) /\ ~Owns(n) /\ CallOK(m) /\ ~Owns(m)
  BY <1>3 DEF CallOK, Owns
<1> QED BY <1>1, <1>2, <1>4

LEMMA OthersArrive ==
    ASSUME VInv, NEW c \in Call,
           \/ \E kind \in Kinds, p \in DOMAIN Rows : PlayerCall(c, kind, p)
           \/ Tick(c)
           \/ Start(c)
    PROVE  VInv'
PROOF
<1>1. ASSUME NEW kind, NEW p, PlayerCall(c, kind, p)
      PROVE  VInv'
  BY <1>1, OtherOK, ArriveStep DEF PlayerCall, Loader
<1>2. CASE Tick(c)
  BY <1>2, OtherOK, ArriveStep DEF Tick, Loader
<1>3. CASE Start(c)
  BY <1>3, OtherOK, ArriveStep DEF Start, Loading
<1> QED BY <1>1, <1>2, <1>3

-------------------------------------------------------------------------------
\* The insert finds no row of this action or sequence number, so nobody owns it
\* and nobody was given a verdict on it.
LEMMA ReserveStep ==
    ASSUME VInv, NEW c \in Call, Reserve(c)
    PROVE  VInv'
PROOF
<1> DEFINE k == calls[c]
           id == calls[c].action
<1>1. /\ CallOK(k) /\ k.pc = "reserve" /\ k.kind = "move"
      /\ k.seen = "NONE" /\ id \in ActionId /\ DOMAIN k = Fields
  BY DEF VInv, CallOK, Reserve
<1>2. CASE Rivals(id) # {}
  <2>1. Goto(c, "lookup") /\ UNCHANGED <<actions, answers>>
    BY <1>2 DEF Reserve
  <2>2. PICK n : n = [k EXCEPT !.pc = "lookup"]
    OBVIOUS
  <2>3. CallOK(n) /\ ~Owns(n)
    BY <1>1, <2>2, PcChanges DEF CallOK, Owns, Owning, Loading, Loader
  <2> QED BY <2>1, <2>2, <2>3, GotoMoves
<1>3. CASE Rivals(id) = {}
  <2>1. /\ actions' = [actions EXCEPT ![id] = "RECEIVED"]
        /\ Goto(c, "load") /\ answers' = answers
    BY <1>3 DEF Reserve
  <2>2. PICK n : n = [k EXCEPT !.pc = "load"]
    OBVIOUS
  <2>3. /\ DOMAIN n = Fields /\ n.pc = "load" /\ n.kind = "move"
        /\ n.seen = "NONE" /\ n.action = id
    BY <1>1, <2>2, PcChanges
  <2>4. calls' = [calls EXCEPT ![c] = n]
    BY <2>1, <2>2 DEF Goto
  <2>5. \A d \in Call : calls'[d] = IF d = c THEN n ELSE calls[d]
    BY <2>4 DEF VInv
  <2>6. actions[id] = "NONE"
    BY <1>1, <1>3 DEF Rivals
  <2>7. \A other \in ActionId :
            actions'[other] = IF other = id THEN "RECEIVED" ELSE actions[other]
    BY <2>1 DEF VInv
  <2>8. \A other \in ActionId :
            /\ Witnessed(other) => Witnessed(other)'
            /\ Rivalled(other) => Rivalled(other)'
    BY <2>6, <2>7 DEF Witnessed, Rivalled, Rivals
  <2>9. ASSUME NEW d \in Call, d # c
        PROVE  CallOK(calls[d])' /\ (Owns(calls[d]) => calls[d].action # id)
    <3>1. CallOK(calls[d]) /\ calls'[d] = calls[d]
      BY <2>5, <2>9 DEF VInv
    <3>2. Owns(calls[d]) => calls[d].action \in ActionId
      BY <3>1 DEF CallOK, Owns
    <3>3. Owns(calls[d]) => calls[d].action # id
      BY <3>1, <2>6 DEF CallOK
    <3> QED BY <3>1, <3>2, <3>3, <2>7, <2>8 DEF CallOK
  <2>10. CallOK(calls[c])'
    BY <2>3, <2>5, <2>7, <1>1 DEF CallOK, Loader
  <2>11. OneOwner'
    BY <2>3, <2>5, <2>9 DEF OneOwner, VInv, Owns
  <2>12. VerdictsHold'
    <3>1. ASSUME NEW a \in answers PROVE a[1] \in ActionId
      BY <3>1 DEF VInv
    <3> QED BY <2>1, <2>6, <2>7, <2>8, <3>1
            DEF VerdictsHold, VInv, Witnessed, Rivalled
  <2> QED BY <2>1, <2>4, <2>9, <2>10, <2>11, <2>12 DEF VInv
<1> QED BY <1>2, <1>3

\* The row that stands in the way has been inserted: the call owns nothing.
LEMMA LookupStep ==
    ASSUME VInv, NEW c \in Call, Lookup(c)
    PROVE  VInv'
PROOF
<1> DEFINE k == calls[c]
<1>1. /\ CallOK(k) /\ k.pc = "lookup" /\ k.kind = "move"
      /\ k.action \in ActionId /\ DOMAIN k = Fields
  BY DEF VInv, CallOK, Lookup
<1>2. PICK other \in Rivals(k.action) :
          calls' = [calls EXCEPT ![c].pc = "load", ![c].seen = actions[other]]
  BY DEF Lookup
<1>3. PICK n : n = [k EXCEPT !.pc = "load", !.seen = actions[other]]
  OBVIOUS
<1>4. /\ DOMAIN n = Fields /\ n.pc = "load" /\ n.kind = "move"
      /\ n.seen = actions[other] /\ n.action = k.action
  BY <1>1, <1>3 DEF Fields
<1>5. calls' = [calls EXCEPT ![c] = n]
  BY <1>2, <1>3 DEF VInv
<1>6. /\ n.seen # "NONE" /\ Rivalled(n.action)
      /\ n.seen = "APPLIED" => Witnessed(n.action)
  BY <1>2, <1>4 DEF Rivals, Rivalled, Witnessed
<1>7. CallOK(n) /\ ~Owns(n)
  BY <1>1, <1>4, <1>6 DEF CallOK, Owns, Owning, Loading, Loader
<1>8. UNCHANGED <<actions, answers>>
  BY DEF Lookup, database
<1> QED BY <1>5, <1>7, <1>8, CallMoves

-------------------------------------------------------------------------------
\* A call becomes one that stores a state.
LEMMA SaveStep ==
    ASSUME VInv, NEW c \in Call, NEW s, Save(c, s), actions' = actions,
           calls[c].pc \in Loading,
           calls[c].kind = "move" => calls[c].seen = "NONE"
    PROVE  VInv'
PROOF
<1> DEFINE k == calls[c]
<1>1. CallOK(k) /\ DOMAIN k = Fields
  BY DEF VInv, CallOK
<1>2. PICK n : n = [k EXCEPT !.pc = "read", !.state = s]
  OBVIOUS
<1>3. /\ DOMAIN n = Fields /\ n.pc = "read" /\ n.kind = k.kind
      /\ n.seen = k.seen /\ n.action = k.action
  BY <1>1, <1>2 DEF Fields
<1>4. calls' = [calls EXCEPT ![c] = n] /\ answers' = answers
  BY <1>2 DEF VInv, Save
<1>5. CallOK(n) /\ (Owns(n) => Owns(k))
  BY <1>1, <1>3 DEF CallOK, Owns, Owning, Loading, Loader
<1> QED BY <1>3, <1>4, <1>5, CallMoves

\* A duplicate is answered from the row that was found.
LEMMA ReplayStep ==
    ASSUME VInv, NEW c \in Call, NEW s, Replay(c, s), actions' = actions,
           calls[c].pc \in Loading, calls[c].kind = "move",
           calls[c].seen # "NONE"
    PROVE  VInv'
PROOF
<1> DEFINE k == calls[c]
<1>1. PICK answer \in {"REPLAYED", "DUPLICATE"} :
          /\ answers' = answers \cup {<<k.action, answer>>}
          /\ answer = "REPLAYED" => k.seen = "APPLIED"
  BY DEF Replay, Tell
<1>2. calls' = [calls EXCEPT ![c] = Idle]
  BY DEF Replay, Return
<1>3. /\ k.action \in ActionId /\ Rivalled(k.action)
      /\ answer = "REPLAYED" => Witnessed(k.action)
  BY <1>1 DEF VInv, CallOK
<1>4. \A d \in Call : calls'[d] = IF d = c THEN Idle ELSE calls[d]
  BY <1>2 DEF VInv
<1>5. \A d \in Call : CallOK(calls[d])'
  BY <1>4, IdleOK DEF CallOK, Witnessed, Rivalled, Rivals, VInv
<1>6. OneOwner'
  BY <1>4, IdleOK DEF OneOwner, VInv, Owns
<1>7. VerdictsHold'
  BY <1>1, <1>3 DEF VerdictsHold, Rivals, VInv, Witnessed, Rivalled
<1>8. answers' \subseteq ActionId \X {"ACCEPTED", "REJECTED", "REPLAYED", "DUPLICATE"}
  BY <1>1, <1>3 DEF VInv
<1> QED BY <1>2, <1>5, <1>6, <1>7, <1>8 DEF VInv

LEMMA ContinueStep ==
    ASSUME VInv, NEW c \in Call, NEW s, Continue(c, s), actions' = actions,
           calls[c].pc \in Loading
    PROVE  VInv'
PROOF
<1> DEFINE k == calls[c]
<1>1. CallOK(k) /\ DOMAIN k = Fields
  BY DEF VInv, CallOK
<1>2. CASE k.kind = "move" /\ k.seen # "NONE"
  BY <1>2, ReplayStep DEF Continue
<1>3. CASE k.kind = "move" /\ k.seen = "NONE"
  <2>1. Play(c, s)
    BY <1>3 DEF Continue
  <2>2. ASSUME NEW t, Save(c, t)
        PROVE  VInv'
    BY <1>3, <2>2, SaveStep
  <2>3. CASE Goto(c, "refuse") /\ answers' = answers
    <3>1. PICK n : n = [k EXCEPT !.pc = "refuse"]
      OBVIOUS
    <3>2. CallOK(n) /\ (Owns(n) => Owns(k))
      BY <1>1, <1>3, <3>1, PcChanges DEF CallOK, Owns, Owning, Loading, Loader
    <3> QED BY <2>3, <3>1, <3>2, GotoMoves
  <2> QED BY <2>1, <2>2, <2>3 DEF Play
<1>4. CASE k.kind # "move"
  <2>1. ASSUME NEW t, Save(c, t)
        PROVE  VInv'
    BY <1>4, <2>1, SaveStep
  <2>2. ASSUME NEW t, Return(c, t), answers' = answers
        PROVE  VInv'
    BY <2>2, CallEnds DEF Return
  <2>3. ASSUME NEW t, Update(c, s, t)
        PROVE  VInv'
    BY <2>1, <2>2, <2>3 DEF Update
  <2>4. CASE RunTick(c, s)
    BY <2>1, <2>2, <2>4 DEF RunTick
  <2>5. k.kind \in {"disconnect", "reconnect", "leave", "tick", "sync"} => VInv'
    BY <1>4, <2>2, <2>3, <2>4 DEF Continue
  <2> QED BY <1>1, <1>4, <2>5 DEF CallOK, Loader
<1> QED BY <1>2, <1>3, <1>4


LEMMA LoadSteps ==
    ASSUME VInv, NEW c \in Call,
           \/ LoadHot(c) \/ LoadNothing(c) \/ AskDatabase(c) \/ QueryLatest(c)
           \/ LoadCold(c)
    PROVE  VInv'
PROOF
<1> DEFINE k == calls[c]
<1>1. CallOK(k) /\ DOMAIN k = Fields
  BY DEF VInv, CallOK
<1>2. CASE LoadHot(c)
  BY <1>2, ContinueStep DEF LoadHot, database, Loading
<1>3. CASE LoadNothing(c)
  BY <1>3, CallEnds DEF LoadNothing, Return, database
<1>4. CASE AskDatabase(c)
  <2>1. PICK n : n = [k EXCEPT !.pc = "query"]
    OBVIOUS
  <2>2. CallOK(n) /\ (Owns(n) => Owns(k))
    BY <1>1, <1>4, <2>1, PcChanges
       DEF AskDatabase, CallOK, Owns, Owning, Loading, Loader
  <2> QED BY <1>4, <2>1, <2>2, GotoMoves DEF AskDatabase, database
<1>5. CASE QueryLatest(c)
  <2>1. PICK n : n = [k EXCEPT !.pc = "loaded", !.state = Latest]
    OBVIOUS
  <2>2. /\ DOMAIN n = Fields /\ n.pc = "loaded" /\ n.kind = k.kind
        /\ n.seen = k.seen /\ n.action = k.action
    BY <1>1, <2>1 DEF Fields
  <2>3. calls' = [calls EXCEPT ![c] = n] /\ UNCHANGED <<actions, answers>>
    BY <1>5, <2>1 DEF VInv, QueryLatest, database
  <2>4. CallOK(n) /\ (Owns(n) => Owns(k))
    BY <1>1, <1>5, <2>2
       DEF QueryLatest, CallOK, Owns, Owning, Loading, Loader
  <2> QED BY <2>2, <2>3, <2>4, CallMoves
<1>6. CASE LoadCold(c)
  BY <1>6, ContinueStep DEF LoadCold, database, Loading
<1> QED BY <1>2, <1>3, <1>4, <1>5, <1>6

\* persistGameState leaves the row to the call that owns it.
LEMMA PersistSteps ==
    ASSUME VInv, NEW c \in Call, ReadRoom(c) \/ Commit(c) \/ Persisted(c)
    PROVE  VInv'
PROOF
<1> DEFINE k == calls[c]
<1>1. CallOK(k) /\ DOMAIN k = Fields
  BY DEF VInv, CallOK
<1>2. CASE ReadRoom(c)
  <2>1. PICK n : n = [k EXCEPT !.pc = "commit", !.seen = room.status]
    OBVIOUS
  <2>2. /\ DOMAIN n = Fields /\ n.pc = "commit" /\ n.kind = k.kind
        /\ n.action = k.action
    BY <1>1, <2>1 DEF Fields
  <2>3. calls' = [calls EXCEPT ![c] = n] /\ UNCHANGED <<actions, answers>>
    BY <1>2, <2>1 DEF VInv, ReadRoom, database
  <2>4. CallOK(n) /\ (Owns(n) => Owns(k))
    BY <1>1, <1>2, <2>2 DEF ReadRoom, CallOK, Owns, Owning, Loading, Loader
  <2> QED BY <2>2, <2>3, <2>4, CallMoves
<1>3. CASE Commit(c)
  <2>1. PICK n : n = [k EXCEPT !.pc = "persisted"]
    OBVIOUS
  <2>2. CallOK(n) /\ (Owns(n) => Owns(k))
    BY <1>1, <1>3, <2>1, PcChanges
       DEF Commit, CallOK, Owns, Owning, Loading, Loader
  <2> QED BY <1>3, <2>1, <2>2, GotoMoves DEF Commit
<1>4. CASE Persisted(c)
  <2>1. /\ k.pc = "persisted" /\ UNCHANGED <<actions, answers>>
        /\ calls' = [calls EXCEPT ![c] = AfterPersist(k)]
    BY <1>4 DEF Persisted, database
  <2>2. CASE k.kind = "move"
    <3>1. PICK n : n = [k EXCEPT !.pc = "mark"]
      OBVIOUS
    <3>2. CallOK(n) /\ (Owns(n) => Owns(k)) /\ n.action = k.action
      BY <1>1, <2>1, <2>2, <3>1, PcChanges
         DEF CallOK, Owns, Owning, Loading, Loader
    <3> QED BY <2>1, <2>2, <3>1, <3>2, CallMoves DEF AfterPersist
  <2>3. CASE k.kind = "reconnect"
    <3>1. PICK n : n = [Idle EXCEPT !.kind = "sync", !.pc = "load",
                                    !.playerId = k.playerId]
      OBVIOUS
    <3>2. CallOK(n) /\ ~Owns(n)
      BY <3>1, OtherOK DEF Loader
    <3> QED BY <2>1, <2>3, <3>1, <3>2, CallMoves DEF AfterPersist
  <2>4. CASE k.kind \notin {"move", "reconnect"}
    BY <2>1, <2>4, CallEnds DEF AfterPersist
  <2> QED BY <2>2, <2>3, <2>4
<1> QED BY <1>2, <1>3, <1>4

\* The owner of the row gives the verdict.
LEMMA SettleStep ==
    ASSUME VInv, NEW c \in Call, Mark(c) \/ Refuse(c)
    PROVE  VInv'
PROOF
<1> DEFINE id == calls[c].action
<1>1. PICK pc, status, answer :
          /\ pc \in {"mark", "refuse"}
          /\ Settle(c, pc, status, answer)
          /\ \/ status = "APPLIED" /\ answer = "ACCEPTED"
             \/ status = "REJECTED" /\ answer = "REJECTED"
  BY DEF Mark, Refuse
<1>2. /\ actions' = [actions EXCEPT ![id] = status]
      /\ answers' = answers \cup {<<id, answer>>}
      /\ calls' = [calls EXCEPT ![c] = Idle]
      /\ calls[c].pc = pc
  BY <1>1 DEF Settle, Tell
<1>3. Owns(calls[c]) /\ id \in ActionId /\ actions[id] = "RECEIVED"
  BY <1>1, <1>2 DEF VInv, CallOK, Owns, Owning
<1>4. \A d \in Call : calls'[d] = IF d = c THEN Idle ELSE calls[d]
  BY <1>2 DEF VInv
<1>5. \A other \in ActionId :
          actions'[other] = IF other = id THEN status ELSE actions[other]
  BY <1>2 DEF VInv
<1>6. \A other \in ActionId :
          /\ Witnessed(other) => Witnessed(other)'
          /\ Rivalled(other) => Rivalled(other)'
  BY <1>1, <1>3, <1>5 DEF Witnessed, Rivalled, Rivals
<1>7. ASSUME NEW d \in Call, d # c
      PROVE  CallOK(calls[d])'
  <2>1. CallOK(calls[d]) /\ calls'[d] = calls[d]
    BY <1>4, <1>7 DEF VInv
  <2>2. Owns(calls[d]) => calls[d].action # id /\ calls[d].action \in ActionId
    BY <1>3, <1>7, <2>1 DEF VInv, OneOwner, CallOK, Owns
  <2> QED BY <2>1, <2>2, <1>5, <1>6 DEF CallOK
<1>8. CallOK(calls[c])'
  BY <1>4, IdleOK DEF CallOK, Idle, Owns, Owning, Loading
<1>9. OneOwner'
  BY <1>4, IdleOK DEF OneOwner, VInv, Owns
<1>10. VerdictsHold'
  <2>1. ASSUME NEW a \in answers PROVE a[1] \in ActionId
    BY <2>1 DEF VInv
  <2> QED BY <1>1, <1>2, <1>3, <1>5, <1>6, <2>1
          DEF VerdictsHold, VInv, Witnessed, Rivalled
<1>11. answers' \subseteq ActionId \X {"ACCEPTED", "REJECTED", "REPLAYED", "DUPLICATE"}
  BY <1>1, <1>2, <1>3 DEF VInv
<1> QED BY <1>2, <1>7, <1>8, <1>9, <1>10, <1>11 DEF VInv

LEMMA StartSteps ==
    ASSUME VInv, NEW c \in Call,
           MarkStarting(c) \/ PersistStart(c) \/ StartRoom(c)
    PROVE  VInv'
PROOF
<1> DEFINE k == calls[c]
<1>1. CallOK(k) /\ DOMAIN k = Fields
  BY DEF VInv, CallOK
<1>2. ASSUME NEW pc \in {"countdown", "started"}
      PROVE  LET n == [k EXCEPT !.pc = pc] IN CallOK(n) /\ ~Owns(n)
  <2>1. PICK n : n = [k EXCEPT !.pc = pc]
    OBVIOUS
  <2>2. CallOK(n) /\ ~Owns(n)
    BY <1>1, <2>1, PcChanges DEF CallOK, Owns, Owning, Loading
  <2> QED BY <2>1, <2>2
<1>3. CASE MarkStarting(c)
  BY <1>2, <1>3, GotoMoves, CallEnds DEF MarkStarting
<1>4. CASE PersistStart(c)
  BY <1>2, <1>4, GotoMoves DEF PersistStart
<1>5. CASE StartRoom(c)
  BY <1>5, CallEnds DEF StartRoom, Return, database
<1> QED BY <1>3, <1>4, <1>5

LEMMA CrashStep == ASSUME VInv, Crash PROVE VInv'
PROOF
<1>1. calls' = [c \in Call |-> Idle] /\ UNCHANGED <<actions, answers>>
  BY DEF Crash, database
<1>2. \A c \in Call : CallOK(calls[c])'
  BY <1>1, IdleOK DEF CallOK, Witnessed, Rivalled, Rivals
<1>3. OneOwner'
  BY <1>1, IdleOK DEF OneOwner, Owns
<1>4. VerdictsHold'
  BY <1>1 DEF VerdictsHold, Rivals, VInv
<1> QED BY <1>1, <1>2, <1>3, <1>4 DEF VInv

LEMMA Unmoved == ASSUME VInv, UNCHANGED <<calls, actions, answers>> PROVE VInv'
PROOF
<1>1. \A c \in Call : CallOK(calls[c])'
  BY DEF CallOK, Witnessed, Rivalled, Rivals, VInv
<1>2. OneOwner' /\ VerdictsHold'
  BY DEF OneOwner, VerdictsHold, Rivals, VInv, Owns
<1> QED BY <1>1, <1>2 DEF VInv

-------------------------------------------------------------------------------
LEMMA InitVerdicts == ASSUME Init PROVE VInv
PROOF
<1>1. \A c \in Call : CallOK(calls[c]) /\ ~Owns(calls[c])
  BY IdleOK DEF Init
<1>2. VerdictsHold
  BY DEF Init, VerdictsHold
<1> QED BY <1>1, <1>2 DEF Init, VInv, OneOwner

LEMMA NextVerdicts == ASSUME VInv, [Next]_vars PROVE VInv'
PROOF
<1>1. ASSUME NEW c \in Call, NEW id \in ActionId, Submit(c, id)
      PROVE  VInv'
  BY <1>1, SubmitStep
<1>2. ASSUME NEW c \in Call, Step(c)
      PROVE  VInv'
  BY <1>2, ReserveStep, LookupStep, LoadSteps, PersistSteps, SettleStep,
     StartSteps DEF Step
<1>3. ASSUME NEW c \in Call, Fail(c)
      PROVE  VInv'
  BY <1>3, CallEnds DEF Fail, database
<1>4. CASE Recover \/ RecoverNothing
  BY <1>4, Unmoved DEF Recover, RecoverNothing, database
<1>5. CASE UNCHANGED vars
  BY <1>5, Unmoved DEF vars, database
<1> QED BY <1>1, <1>2, <1>3, <1>4, <1>5, OthersArrive, CrashStep DEF Next

\* A final answer (accepted, rejected, replayed) is the status of the action's row
\* from then on, so no client is given two that differ, whatever number of calls
\* of whatever kind overlap, fail or crash: the invariant of reserveAction and
\* updateActionStatus as applyPlayerMove uses them.  A client that was told of a
\* duplicate was told of a row that exists, and may yet be told anything.
THEOREM VerdictsStand == Spec => []VerdictsHold
PROOF
<1>1. Init => VInv
  BY InitVerdicts
<1>2. VInv /\ [Next]_vars => VInv'
  BY NextVerdicts
<1>3. VInv => VerdictsHold
  BY DEF VInv
<1> QED BY <1>1, <1>2, <1>3, PTL DEF Spec


-------------------------------------------------------------------------------
(***************************************************************************)
(* The states that are stored, kept in memory and held by calls are those  *)
(* of one game, whatever calls overlap, fail or crash.                     *)
(***************************************************************************)
\* The player of every action in the history has got as far as the action.
Credited(s) ==
    \A id \in Ids(s) :
        LET p == Request[id].playerId
        IN  /\ p \in DOMAIN s.players
            /\ s.players[p].lastProcessedSeq >= Request[id].seq

Known(s) ==
    \/ s = LobbyState
    \/ Begun(DOMAIN Rows, s) /\ s.version > 0 /\ Credited(s)

CallTyped(k) ==
    /\ k.pc \in Pc
    /\ k.kind \in Kinds \cup {"none", "sync"}
    /\ k.kind = "move" => k.playerId = Request[k.action].playerId
    /\ k.kind \in {"disconnect", "reconnect", "leave", "sync"} =>
          k.playerId \in DOMAIN Rows
    /\ k.pc \in {"read", "commit", "persisted", "mark", "loaded"} =>
          Known(k.state)

RowStatus == {"NONE", "RECEIVED", "APPLIED", "REJECTED"}

TInv ==
    /\ up \in BOOLEAN /\ timer \in BOOLEAN
    /\ memory # NoState => Known(memory)
    /\ room \in [status : RoomStatus, version : Nat]
    /\ DOMAIN snapshots \subseteq Nat
    /\ \E v \in DOMAIN snapshots : \A w \in DOMAIN snapshots : w <= v
    /\ \A v \in DOMAIN snapshots :
          Known(snapshots[v]) /\ snapshots[v].version = v
    /\ actions \in [ActionId -> RowStatus]
    /\ scored \in Nat /\ failures \in Nat
    /\ \A c \in Call : CallTyped(calls[c])

\* The lobby's state is nobody's game: the engine leaves it alone.
LEMMA LobbyFacts ==
    /\ LobbyState.version = 0 /\ LobbyState.phase = "LOBBY"
    /\ LobbyState.turn = 0 /\ LobbyState.round = 0
    /\ DOMAIN LobbyState.players = {} /\ Ids(LobbyState) = {}
    /\ ~Full(LobbyState)
    /\ LobbyState \in GameState({})
    /\ \A p, on : MarkConnection(LobbyState, p, on) = LobbyState
    /\ \A p : MarkLeft(LobbyState, p) = LobbyState
PROOF
<1>1. /\ LobbyState.players = <<>> /\ LobbyState.processed = <<>>
      /\ LobbyState.version = 0 /\ LobbyState.phase = "LOBBY"
      /\ LobbyState.turn = 0 /\ LobbyState.round = 0
  BY DEF LobbyState
<1>2. DOMAIN LobbyState.players = {} /\ DOMAIN LobbyState.processed = {}
      /\ Len(LobbyState.processed) = 0
  BY <1>1
<1>3. Ids(LobbyState) = {} /\ ~Full(LobbyState)
  BY <1>2, EngineAssumption DEF Ids, Full
<1>4. LobbyState \in GameState({})
  <2>1. LobbyState.players \in [{} -> PlayerState]
    BY <1>1
  <2>2. LobbyState.processed \in Seq(ActionId)
    BY <1>1
  <2> QED BY <2>1, <2>2 DEF LobbyState, GameState, Phase
<1> QED BY <1>1, <1>2, <1>3, <1>4 DEF MarkConnection, MarkLeft

LEMMA FirstFacts ==
    /\ Begun(DOMAIN Rows, FirstState) /\ Known(FirstState)
    /\ FirstState.version = 1 /\ FirstState.phase = "ACTIVE"
    /\ Ids(FirstState) = {}
PROOF
<1>1. /\ DOMAIN Rows \in SUBSET Player /\ DOMAIN Rows # {}
      /\ Several(DOMAIN Rows)
      /\ \A p \in DOMAIN Rows : Rows[p] \in PlayerRow
  BY CoordinatorAssumption DEF Several
<1>2. FirstState = InitialState(Rows)
  BY DEF FirstState
<1>3. /\ FirstState \in GameState(DOMAIN Rows)
      /\ FirstState.phase = "ACTIVE" /\ FirstState.version = 1
      /\ FirstState.processed = <<>>
      /\ FirstState.current \in DOMAIN Rows
      /\ Alive(FirstState) = DOMAIN Rows
  BY <1>1, <1>2, InitialIsReady
<1>4. DOMAIN FirstState.processed = {} /\ Len(FirstState.processed) = 0
  BY <1>3
<1>5. Ids(FirstState) = {}
  BY <1>4 DEF Ids
<1> QED BY <1>1, <1>3, <1>4, <1>5, EngineAssumption
        DEF Begun, Known, Credited

\* A state of the game is told from the lobby's by its phase and its version.
LEMMA KnownFacts ==
    ASSUME NEW s, Known(s)
    PROVE  /\ s.version \in Nat
           /\ s.phase \in Phase
           /\ s.phase = "LOBBY" <=> s = LobbyState
           /\ s.version = 0 <=> s = LobbyState
           /\ IsState(s)
PROOF
<1>1. CASE s = LobbyState
  BY <1>1, LobbyFacts DEF IsState, Phase
<1>2. CASE Begun(DOMAIN Rows, s) /\ s.version > 0
  <2>1. s \in GameState(DOMAIN Rows) /\ s.phase # "LOBBY"
    BY <1>2 DEF Begun
  <2>2. s.version \in Nat /\ s.phase \in Phase /\ DOMAIN s.players = DOMAIN Rows
    BY <2>1 DEF GameState
  <2>3. s # LobbyState
    BY <2>1, LobbyFacts
  <2> QED BY <1>2, <2>1, <2>2, <2>3 DEF IsState
<1> QED BY <1>1, <1>2 DEF Known

LEMMA LatestFacts ==
    ASSUME TInv
    PROVE  /\ LatestVersion \in DOMAIN snapshots /\ LatestVersion \in Nat
           /\ \A w \in DOMAIN snapshots : w <= LatestVersion
           /\ Known(Latest) /\ Latest.version = LatestVersion
PROOF BY DEF TInv, LatestVersion, Latest

\* The upsert of a snapshot.
LEMMA StoreFacts ==
    ASSUME TInv, NEW s, Known(s), Store(s)
    PROVE  /\ DOMAIN snapshots' = DOMAIN snapshots \cup {s.version}
           /\ DOMAIN snapshots' \subseteq Nat
           /\ snapshots'[s.version] = s
           /\ \A w \in DOMAIN snapshots :
                 w # s.version => snapshots'[w] = snapshots[w]
           /\ \A w \in DOMAIN snapshots' :
                 Known(snapshots'[w]) /\ snapshots'[w].version = w
           /\ LatestVersion' = IF s.version >= LatestVersion THEN s.version
                               ELSE LatestVersion
           /\ Latest' = IF s.version >= LatestVersion THEN s ELSE Latest
           /\ LatestVersion' \in DOMAIN snapshots'
           /\ \A w \in DOMAIN snapshots' : w <= LatestVersion'
PROOF
<1>1. s.version \in Nat
  BY KnownFacts
<1>2. /\ LatestVersion \in DOMAIN snapshots /\ LatestVersion \in Nat
      /\ \A w \in DOMAIN snapshots : w <= LatestVersion
  BY LatestFacts
<1>3. /\ DOMAIN snapshots' = DOMAIN snapshots \cup {s.version}
      /\ \A w \in DOMAIN snapshots' :
            snapshots'[w] = IF w = s.version THEN s ELSE snapshots[w]
  BY DEF Store
<1>4. PICK m : m = IF s.version >= LatestVersion THEN s.version
                   ELSE LatestVersion
  OBVIOUS
<1>5. m \in DOMAIN snapshots' /\ \A w \in DOMAIN snapshots' : w <= m
  BY <1>1, <1>2, <1>3, <1>4 DEF TInv
<1>6. \A v \in DOMAIN snapshots' :
          (\A w \in DOMAIN snapshots' : w <= v) => v = m
  <2>1. \A v \in DOMAIN snapshots' : v \in Nat
    BY <1>1, <1>3 DEF TInv
  <2> QED BY <1>5, <2>1
<1>7. LatestVersion' = m
  BY <1>5, <1>6 DEF LatestVersion
<1>8. Latest' = IF s.version >= LatestVersion THEN s ELSE Latest
  <2>1. Latest' = snapshots'[m]
    BY <1>7 DEF Latest
  <2>2. CASE s.version >= LatestVersion
    BY <1>3, <1>4, <1>5, <2>1, <2>2
  <2>3. CASE ~(s.version >= LatestVersion)
    <3>1. m = LatestVersion /\ m # s.version
      BY <1>1, <1>2, <1>4, <2>3
    <3> QED BY <1>3, <1>5, <2>1, <2>3, <3>1 DEF Latest
  <2> QED BY <2>2, <2>3
<1>9. \A w \in DOMAIN snapshots' :
          Known(snapshots'[w]) /\ snapshots'[w].version = w
  BY <1>3 DEF TInv
<1>10. DOMAIN snapshots' \subseteq Nat
  BY <1>1, <1>3 DEF TInv
<1> QED BY <1>3, <1>4, <1>5, <1>7, <1>8, <1>9, <1>10

-------------------------------------------------------------------------------
(***************************************************************************)
(* What one step makes of a call: first the steps after which the call     *)
(* holds no state, and nothing else has changed but the rows.              *)
(***************************************************************************)
Light(c, n) ==
    /\ calls' = [calls EXCEPT ![c] = n]
    /\ n.pc \in {"idle", "reserve", "lookup", "load", "query", "cas"}
    /\ CallTyped(n)
    /\ n.pc = "query" => memory = NoState
    /\ n # Idle /\ calls[c] = Idle => up
    /\ UNCHANGED <<up, memory, timer, room, snapshots, scored>>
    /\ neglect' = IF calls[c].pc = "started" THEN "start" ELSE neglect
    /\ failures' \in Nat /\ failures' >= failures
    /\ calls[c].pc \in {"started", "persisted"} => failures' > 0

LEMMA IdleTyped == CallTyped(Idle) /\ Idle.pc = "idle"
PROOF BY DEF CallTyped, Idle, Pc

LEMMA ArrivalIsLight ==
    ASSUME TInv, NEW c \in Call, NEW call, Arrive(c, call), CallTyped(call),
           call.pc \in {"reserve", "load", "cas"}
    PROVE  Light(c, call)
PROOF
<1>1. calls' = [calls EXCEPT ![c] = call] /\ up /\ calls[c] = Idle
  BY DEF Arrive
<1>2. UNCHANGED <<up, memory, timer, room, snapshots, scored>>
  BY DEF Arrive, server, database
<1>3. failures' \in Nat /\ failures' >= failures
  BY DEF Arrive, TInv
<1>4. calls[c].pc \notin {"started", "persisted"}
  BY <1>1, IdleTyped
<1>5. neglect' = neglect
  BY DEF Arrive, server
<1> QED BY <1>1, <1>2, <1>3, <1>4, <1>5 DEF Light

LEMMA ArrivalsAreLight ==
    ASSUME TInv, NEW c \in Call,
           \/ \E id \in ActionId : Submit(c, id)
           \/ \E kind \in Kinds, p \in DOMAIN Rows : PlayerCall(c, kind, p)
           \/ Tick(c) \/ Start(c)
    PROVE  /\ \E n : Light(c, n)
           /\ actions' = actions
PROOF
<1>1. ASSUME NEW id \in ActionId, Submit(c, id)
      PROVE  \E n : Light(c, n)
  <2>1. PICK s : Arrive(c, [Idle EXCEPT !.kind = "move", !.pc = "reserve",
                                        !.playerId = Request[id].playerId,
                                        !.action = id, !.round = s.round,
                                        !.turn = s.turn])
    BY <1>1 DEF Submit
  <2>2. PICK n : n = [Idle EXCEPT !.kind = "move", !.pc = "reserve",
                                  !.playerId = Request[id].playerId,
                                  !.action = id, !.round = s.round,
                                  !.turn = s.turn]
    OBVIOUS
  <2>3. /\ n.kind = "move" /\ n.pc = "reserve" /\ n.action = id
        /\ n.playerId = Request[id].playerId
    BY <2>2 DEF Idle
  <2>4. n.kind \in Kinds
    BY <2>1, <2>2 DEF Arrive
  <2>5. CallTyped(n)
    BY <2>3, <2>4 DEF CallTyped, Pc
  <2> QED BY <2>1, <2>2, <2>3, <2>5, ArrivalIsLight
<1>2. ASSUME NEW kind \in Kinds, NEW p \in DOMAIN Rows, PlayerCall(c, kind, p)
      PROVE  \E n : Light(c, n)
  <2>1. PICK n : n = [Idle EXCEPT !.kind = kind, !.pc = "load", !.playerId = p]
    OBVIOUS
  <2>2. n.kind = kind /\ n.pc = "load" /\ n.playerId = p
    BY <2>1 DEF Idle
  <2>3. kind # "move" /\ Arrive(c, n)
    BY <1>2, <2>1 DEF PlayerCall
  <2>4. CallTyped(n)
    BY <2>2, <2>3 DEF CallTyped, Pc
  <2> QED BY <2>2, <2>3, <2>4, ArrivalIsLight
<1>3. ASSUME NEW n, Arrive(c, n), n.kind \in {"tick", "start"},
             n.pc \in {"load", "cas"}
      PROVE  Light(c, n)
  <2>1. n.kind \in Kinds
    BY <1>3 DEF Arrive
  <2>2. CallTyped(n)
    BY <1>3, <2>1 DEF CallTyped, Pc
  <2> QED BY <1>3, <2>2, ArrivalIsLight
<1>4. actions' = actions
  BY DEF Submit, PlayerCall, Tick, Start, Arrive, database
<1>5. CASE Tick(c)
  <2>1. PICK n : n = [Idle EXCEPT !.kind = "tick", !.pc = "load"]
    OBVIOUS
  <2>2. n.kind = "tick" /\ n.pc = "load"
    BY <2>1 DEF Idle
  <2> QED BY <1>3, <1>4, <1>5, <2>1, <2>2 DEF Tick
<1>6. CASE Start(c)
  <2>1. PICK n : n = [Idle EXCEPT !.kind = "start", !.pc = "cas"]
    OBVIOUS
  <2>2. n.kind = "start" /\ n.pc = "cas"
    BY <2>1 DEF Idle
  <2> QED BY <1>3, <1>4, <1>6, <2>1, <2>2 DEF Start
<1> QED BY <1>1, <1>2, <1>4, <1>5, <1>6

\* The call keeps what it is about and goes on to another place.
Moves(c, n) ==
    /\ calls' = [calls EXCEPT ![c] = n]
    /\ DOMAIN n = Fields
    /\ n.kind = calls[c].kind /\ n.action = calls[c].action
    /\ n.playerId = calls[c].playerId

LEMMA GotoFacts ==
    ASSUME VInv, NEW c \in Call, NEW pc, Goto(c, pc)
    PROVE  \E n : /\ Moves(c, n) /\ n.pc = pc
                  /\ n.seen = calls[c].seen /\ n.state = calls[c].state
PROOF
<1>1. DOMAIN calls[c] = Fields
  BY DEF VInv, CallOK
<1>2. PICK n : n = [calls[c] EXCEPT !.pc = pc]
  OBVIOUS
<1>3. /\ n.kind = calls[c].kind /\ n.action = calls[c].action
      /\ n.playerId = calls[c].playerId /\ DOMAIN n = Fields
      /\ n.pc = pc /\ n.seen = calls[c].seen /\ n.state = calls[c].state
  BY <1>1, <1>2 DEF Fields
<1>4. calls' = [calls EXCEPT ![c] = n]
  BY <1>2 DEF Goto, VInv
<1> QED BY <1>3, <1>4 DEF Moves

LEMMA LookupFacts ==
    ASSUME VInv, NEW c \in Call, Lookup(c)
    PROVE  \E other \in Rivals(calls[c].action) : \E n :
               Moves(c, n) /\ n.pc = "load" /\ n.seen = actions[other]
PROOF
<1>1. DOMAIN calls[c] = Fields
  BY DEF VInv, CallOK
<1>2. PICK other \in Rivals(calls[c].action) :
          calls' = [calls EXCEPT ![c].pc = "load", ![c].seen = actions[other]]
  BY DEF Lookup
<1>3. PICK n : n = [calls[c] EXCEPT !.pc = "load", !.seen = actions[other]]
  OBVIOUS
<1>4. /\ n.kind = calls[c].kind /\ n.action = calls[c].action
      /\ n.playerId = calls[c].playerId /\ DOMAIN n = Fields
      /\ n.pc = "load" /\ n.seen = actions[other]
  BY <1>1, <1>3 DEF Fields
<1>5. calls' = [calls EXCEPT ![c] = n]
  BY <1>2, <1>3 DEF VInv
<1> QED BY <1>4, <1>5 DEF Moves

LEMMA MovesTyped ==
    ASSUME NEW k, NEW n, CallTyped(k), n.kind = k.kind, n.action = k.action,
           n.playerId = k.playerId, n.pc \in Pc,
           n.pc \in {"read", "commit", "persisted", "mark", "loaded"} =>
               Known(n.state)
    PROVE  CallTyped(n)
PROOF BY DEF CallTyped

\* The rows keep their statuses.
LEMMA RowsTyped ==
    ASSUME TInv, NEW id, NEW status \in RowStatus,
           actions' = [actions EXCEPT ![id] = status]
    PROVE  actions' \in [ActionId -> RowStatus]
PROOF BY DEF TInv

LEMMA StepsAreLight ==
    ASSUME VInv, TInv, NEW c \in Call,
           \/ Reserve(c) \/ Lookup(c) \/ AskDatabase(c)
           \/ Mark(c) \/ Refuse(c) \/ Fail(c)
    PROVE  /\ \E n : Light(c, n)
           /\ actions' \in [ActionId -> RowStatus]
PROOF
<1> DEFINE k == calls[c]
<1>1. CallTyped(k) /\ failures \in Nat /\ actions \in [ActionId -> RowStatus]
  BY DEF TInv
<1>2. UNCHANGED <<up, memory, timer, room, snapshots, scored>>
  BY DEF Reserve, Lookup, AskDatabase, Mark, Refuse, Settle, Fail, server, database
<1>3. k.pc # "idle" /\ k # Idle
  BY IdleTyped DEF Reserve, Lookup, AskDatabase, Mark, Refuse, Settle, Fail
<1>11. neglect' = IF k.pc = "started" THEN "start" ELSE neglect
  BY DEF Reserve, Lookup, AskDatabase, Mark, Refuse, Settle, Fail, server
<1>4. ASSUME NEW n, Moves(c, n), n.pc \in {"lookup", "load", "query"},
             n.pc = "query" => memory = NoState,
             k.pc \notin {"started", "persisted"}, failures' = failures
      PROVE  Light(c, n)
  <2>1. CallTyped(n)
    BY <1>1, <1>4, MovesTyped DEF Moves, Pc
  <2> QED BY <1>1, <1>2, <1>3, <1>4, <1>11, <2>1 DEF Light, Moves
<1>5. ASSUME calls' = [calls EXCEPT ![c] = Idle],
             failures' \in Nat, failures' >= failures,
             k.pc \in {"started", "persisted"} => failures' > 0
      PROVE  Light(c, Idle)
  BY <1>2, <1>5, <1>11, IdleTyped DEF Light
<1>6. CASE Reserve(c)
  <2>1. k.pc = "reserve" /\ failures' = failures
    BY <1>6 DEF Reserve
  <2>2. PICK pc \in {"load", "lookup"} : Goto(c, pc)
    BY <1>6 DEF Reserve
  <2>3. PICK n : Moves(c, n) /\ n.pc = pc
    BY <2>2, GotoFacts
  <2>4. actions' \in [ActionId -> RowStatus]
    BY <1>1, <1>6, RowsTyped DEF Reserve, RowStatus
  <2> QED BY <1>4, <2>1, <2>3, <2>4
<1>7. CASE Lookup(c)
  <2>1. k.pc = "lookup" /\ failures' = failures /\ actions' = actions
    BY <1>7 DEF Lookup, database
  <2>2. PICK n : Moves(c, n) /\ n.pc = "load"
    BY <1>7, LookupFacts
  <2> QED BY <1>1, <1>4, <2>1, <2>2
<1>8. CASE AskDatabase(c)
  <2>1. /\ k.pc = "load" /\ failures' = failures /\ actions' = actions
        /\ memory = NoState /\ Goto(c, "query")
    BY <1>8 DEF AskDatabase, database
  <2>2. PICK n : Moves(c, n) /\ n.pc = "query"
    BY <2>1, GotoFacts
  <2> QED BY <1>1, <1>4, <2>1, <2>2
<1>9. CASE Mark(c) \/ Refuse(c)
  <2>1. /\ k.pc \notin {"started", "persisted"} /\ failures' = failures
        /\ calls' = [calls EXCEPT ![c] = Idle]
    BY <1>9 DEF Mark, Refuse, Settle
  <2>2. actions' \in [ActionId -> RowStatus]
    BY <1>9, RowsTyped DEF Mark, Refuse, Settle, RowStatus
  <2> QED BY <1>1, <1>5, <2>1, <2>2
<1>10. CASE Fail(c)
  <2>1. /\ failures' = failures + 1 /\ actions' = actions
        /\ calls' = [calls EXCEPT ![c] = Idle]
    BY <1>10 DEF Fail, database
  <2>2. failures' \in Nat /\ failures' >= failures /\ failures' > 0
    BY <1>1, <2>1
  <2> QED BY <1>1, <1>5, <2>1, <2>2
<1> QED BY <1>6, <1>7, <1>8, <1>9, <1>10

-------------------------------------------------------------------------------
(***************************************************************************)
(* Then the steps of a call that has its state: it ends, it refuses its    *)
(* action, it forgets a finished game, or it goes on with a new state.     *)
(***************************************************************************)
Ends(c, s) ==
    /\ calls' = [calls EXCEPT ![c] = Idle]
    /\ memory' = s /\ timer' = timer

Refuses(c, s) ==
    /\ calls[c].kind = "move" /\ calls[c].seen = "NONE"
    /\ \E n : Moves(c, n) /\ n.pc = "refuse"
    /\ memory' = s /\ timer' = timer

Forgets(c, s) ==
    /\ s.phase = "FINISHED"
    /\ calls' = [calls EXCEPT ![c] = Idle]
    /\ memory' = NoState /\ timer' = FALSE

\* The state that follows s; only a move enters its action in the history.
NextOf(k, s, t) ==
    /\ Known(t) /\ t.version > 1 /\ Succeeds(s, t)
    /\ s.phase = "ACTIVE" /\ s # LobbyState /\ t # LobbyState
    /\ IF k.kind = "move"
       THEN k.seen = "NONE" /\ k.action \in Ids(t)
            /\ Ids(t) \subseteq Ids(s) \cup {k.action}
       ELSE Ids(t) = Ids(s)

\* Disconnecting, reconnecting and leaving store the lobby's state once more.
SameLobby(k, s, t) ==
    /\ k.kind \in {"disconnect", "reconnect", "leave"}
    /\ s = LobbyState /\ t = LobbyState

Saves(c, s, t) ==
    /\ NextOf(calls[c], s, t) \/ SameLobby(calls[c], s, t)
    /\ \E n : Moves(c, n) /\ n.pc = "read" /\ n.state = t
    /\ memory' = t /\ timer' = timer

LEMMA SaveFacts ==
    ASSUME VInv, NEW c \in Call, NEW t, Save(c, t)
    PROVE  /\ \E n : Moves(c, n) /\ n.pc = "read" /\ n.state = t
           /\ memory' = t /\ timer' = timer
PROOF
<1>1. DOMAIN calls[c] = Fields
  BY DEF VInv, CallOK
<1>2. PICK n : n = [calls[c] EXCEPT !.pc = "read", !.state = t]
  OBVIOUS
<1>3. /\ n.kind = calls[c].kind /\ n.action = calls[c].action
      /\ n.playerId = calls[c].playerId /\ DOMAIN n = Fields
      /\ n.pc = "read" /\ n.state = t
  BY <1>1, <1>2 DEF Fields
<1>4. calls' = [calls EXCEPT ![c] = n]
  BY <1>2 DEF Save, VInv
<1> QED BY <1>3, <1>4 DEF Moves, Save

\* The history of a state that follows is credited as well.
LEMMA NextIsKnown ==
    ASSUME NEW s, Known(s), s.phase = "ACTIVE",
           NEW t, Begun(DOMAIN Rows, t), Succeeds(s, t),
           \A id \in Ids(t) :
               \/ id \in Ids(s)
               \/ /\ Request[id].playerId \in DOMAIN Rows
                  /\ t.players[Request[id].playerId].lastProcessedSeq
                         >= Request[id].seq
    PROVE  Known(t) /\ t.version > 1 /\ s # LobbyState /\ t # LobbyState
PROOF
<1>1. s # LobbyState
  BY LobbyFacts
<1>2. Begun(DOMAIN Rows, s) /\ s.version > 0 /\ Credited(s)
  BY <1>1 DEF Known
<1>3. /\ s \in GameState(DOMAIN Rows) /\ t \in GameState(DOMAIN Rows)
      /\ t.phase # "LOBBY"
  BY <1>2 DEF Begun
<1>4. /\ s.version \in Nat /\ t.version \in Nat
      /\ DOMAIN s.players = DOMAIN Rows /\ DOMAIN t.players = DOMAIN Rows
      /\ \A p \in DOMAIN Rows : /\ s.players[p].lastProcessedSeq \in Nat
                                /\ t.players[p].lastProcessedSeq \in Nat
      /\ Ids(t) \subseteq ActionId
  BY <1>3 DEF GameState, PlayerState, Ids
<1>5. t.version > 1
  BY <1>2, <1>4 DEF Succeeds
<1>6. ASSUME NEW id \in Ids(t)
      PROVE  /\ Request[id].playerId \in DOMAIN t.players
             /\ t.players[Request[id].playerId].lastProcessedSeq
                    >= Request[id].seq
  <2>1. Request[id].seq \in Nat
    BY <1>4, CoordinatorAssumption DEF RequestType
  <2>2. CASE id \in Ids(s)
    <3>1. /\ Request[id].playerId \in DOMAIN Rows
          /\ s.players[Request[id].playerId].lastProcessedSeq
                 >= Request[id].seq
      BY <1>2, <1>4, <2>2 DEF Credited
    <3>2. s.players[Request[id].playerId].lastProcessedSeq
              <= t.players[Request[id].playerId].lastProcessedSeq
      BY <1>4, <3>1 DEF Succeeds
    <3> QED BY <1>4, <2>1, <3>1, <3>2
  <2>3. CASE id \notin Ids(s)
    BY <1>4, <2>3
  <2> QED BY <2>2, <2>3
<1>7. Credited(t)
  BY <1>6 DEF Credited
<1>8. t # LobbyState
  BY <1>3, LobbyFacts
<1> QED BY <1>1, <1>4, <1>5, <1>7, <1>8 DEF Known

\* A move that is legal.
LEMMA PlayFacts ==
    ASSUME NEW k, CallTyped(k), k.kind = "move", k.seen = "NONE",
           k.action \in ActionId, NEW s, Known(s),
           NEW expired, Legal(s, Action(k), expired),
           NEW t, t = ApplyAction(s, Action(k))
    PROVE  NextOf(k, s, t)
PROOF
<1>1. PICK a : a = Action(k)
  OBVIOUS
<1>2. /\ a.actionId = k.action /\ a.playerId = k.playerId
      /\ a.seq = Request[k.action].seq /\ a.type = Request[k.action].type
      /\ a.power = Request[k.action].power
  BY <1>1 DEF Action
<1>3. Request[k.action] \in RequestType
  BY CoordinatorAssumption
<1>4. WellFormed(a)
  BY <1>2, <1>3 DEF WellFormed, RequestType
<1>5. s.phase = "ACTIVE" /\ s # LobbyState
  BY LobbyFacts DEF Legal
<1>6. Begun(DOMAIN Rows, s) /\ DOMAIN Rows \in SUBSET Player
  BY <1>5, CoordinatorAssumption DEF Known
<1>7. /\ Begun(DOMAIN Rows, t) /\ Succeeds(s, t)
      /\ a.actionId \in Ids(t) /\ Ids(t) \subseteq Ids(s) \cup {a.actionId}
      /\ a.playerId \in DOMAIN Rows
      /\ t.players[a.playerId].lastProcessedSeq = a.seq
  BY <1>1, <1>4, <1>6, ActionSucceeds
<1>8. k.playerId = Request[k.action].playerId /\ Request[k.action].seq \in Nat
  BY <1>3 DEF CallTyped, RequestType
<1>9. Known(t) /\ t.version > 1 /\ t # LobbyState
  <2>1. ASSUME NEW id \in Ids(t), id \notin Ids(s)
        PROVE  /\ Request[id].playerId \in DOMAIN Rows
               /\ t.players[Request[id].playerId].lastProcessedSeq
                      >= Request[id].seq
    <3>1. id = k.action
      BY <1>2, <1>7, <2>1
    <3> QED BY <1>2, <1>7, <1>8, <3>1
  <2>2. \A id \in Ids(t) :
            \/ id \in Ids(s)
            \/ /\ Request[id].playerId \in DOMAIN Rows
               /\ t.players[Request[id].playerId].lastProcessedSeq
                      >= Request[id].seq
    BY <2>1
  <2>3. Begun(DOMAIN Rows, t) /\ Succeeds(s, t) /\ s.phase = "ACTIVE"
    BY <1>5, <1>7
  <2> QED BY <2>2, <2>3, NextIsKnown
<1> QED BY <1>2, <1>5, <1>7, <1>9 DEF NextOf

\* The other calls leave the history alone.
LEMMA OthersFacts ==
    ASSUME NEW k, CallTyped(k), k.kind # "move", NEW s, Known(s), NEW t,
           s.phase # "FINISHED",
           \/ /\ k.kind \in {"disconnect", "reconnect"}
              /\ \E on \in BOOLEAN : t = MarkConnection(s, k.playerId, on)
           \/ k.kind = "leave" /\ t = MarkLeft(s, k.playerId)
           \/ /\ k.kind = "tick"
              /\ \E r \in BOOLEAN : TickDue(s, r) /\ t = ProcessTick(s, r)
    PROVE  NextOf(k, s, t) \/ SameLobby(k, s, t)
PROOF
<1>1. DOMAIN Rows \in SUBSET Player
  BY CoordinatorAssumption
<1>2. CASE s = LobbyState
  BY <1>2, LobbyFacts DEF SameLobby, TickDue
<1>3. CASE s # LobbyState
  <2>1. Begun(DOMAIN Rows, s) /\ s.phase = "ACTIVE"
    BY <1>3, KnownFacts DEF Known, Phase
  <2>2. Begun(DOMAIN Rows, t) /\ Succeeds(s, t) /\ Ids(t) = Ids(s)
    <3>1. CASE k.kind \in {"disconnect", "reconnect", "leave"}
      <4>1. k.playerId \in DOMAIN Rows
        BY <3>1 DEF CallTyped
      <4> QED BY <1>1, <2>1, <3>1, <4>1, ConnectionSucceeds, LeaveSucceeds
    <3>2. CASE k.kind = "tick"
      BY <1>1, <2>1, <3>2, TickSucceeds
    <3> QED BY <3>1, <3>2
  <2>3. Known(t) /\ t.version > 1 /\ s # LobbyState /\ t # LobbyState
    BY <2>1, <2>2, NextIsKnown
  <2> QED BY <2>1, <2>2, <2>3 DEF NextOf
<1> QED BY <1>2, <1>3

LEMMA ContinueCases ==
    ASSUME VInv, NEW c \in Call, CallTyped(calls[c]),
           calls[c].pc \in Loading, NEW s, Known(s), Continue(c, s)
    PROVE  Ends(c, s) \/ Refuses(c, s) \/ Forgets(c, s) \/ \E t : Saves(c, s, t)
PROOF
<1> DEFINE k == calls[c]
<1>1. k.kind \in Loader /\ (k.kind = "move" => k.action \in ActionId)
  BY DEF VInv, CallOK
<1>2. ASSUME Return(c, s), UNCHANGED timer
      PROVE  Ends(c, s)
  BY <1>2 DEF Return, Ends
<1>3. ASSUME NEW t, Save(c, t), NextOf(k, s, t) \/ SameLobby(k, s, t)
      PROVE  Saves(c, s, t)
  BY <1>3, SaveFacts DEF Saves
<1>4. CASE k.kind = "move" /\ k.seen # "NONE"
  <2>1. Replay(c, s)
    BY <1>4 DEF Continue
  <2> QED BY <1>2, <2>1 DEF Replay
<1>5. CASE k.kind = "move" /\ k.seen = "NONE"
  <2>1. PICK expired \in BOOLEAN :
            IF Legal(s, Action(k), expired)
            THEN Save(c, ApplyAction(s, Action(k)))
            ELSE memory' = s /\ Goto(c, "refuse") /\ UNCHANGED timer
    BY <1>5 DEF Continue, Play
  <2>2. CASE Legal(s, Action(k), expired)
    <3>1. NextOf(k, s, ApplyAction(s, Action(k)))
      BY <1>1, <1>5, <2>2, PlayFacts
    <3> QED BY <1>3, <2>1, <2>2, <3>1
  <2>3. CASE ~Legal(s, Action(k), expired)
    <3>1. memory' = s /\ Goto(c, "refuse") /\ timer' = timer
      BY <2>1, <2>3
    <3>2. \E n : Moves(c, n) /\ n.pc = "refuse"
      BY <3>1, GotoFacts
    <3> QED BY <1>5, <3>1, <3>2 DEF Refuses
  <2> QED BY <2>2, <2>3
<1>6. ASSUME NEW t, Update(c, s, t), k.kind # "move",
             \/ /\ k.kind \in {"disconnect", "reconnect"}
                /\ \E on \in BOOLEAN : t = MarkConnection(s, k.playerId, on)
             \/ k.kind = "leave" /\ t = MarkLeft(s, k.playerId)
      PROVE  Ends(c, s) \/ Saves(c, s, t)
  <2>1. CASE s.phase = "FINISHED"
    BY <1>2, <1>6, <2>1 DEF Update
  <2>2. CASE s.phase # "FINISHED"
    <3>1. Save(c, t)
      BY <1>6, <2>2 DEF Update
    <3>2. NextOf(k, s, t) \/ SameLobby(k, s, t)
      BY <1>6, <2>2, OthersFacts
    <3> QED BY <1>3, <3>1, <3>2
  <2> QED BY <2>1, <2>2
<1>7. CASE k.kind = "disconnect" \/ k.kind = "reconnect"
  <2>1. PICK on \in BOOLEAN : Update(c, s, MarkConnection(s, k.playerId, on))
    BY <1>7 DEF Continue
  <2> QED BY <1>6, <1>7, <2>1
<1>8. CASE k.kind = "leave"
  <2>1. Update(c, s, MarkLeft(s, k.playerId))
    BY <1>8 DEF Continue
  <2> QED BY <1>6, <1>8, <2>1
<1>9. CASE k.kind = "tick"
  <2>1. RunTick(c, s)
    BY <1>9 DEF Continue
  <2>2. CASE s.phase = "FINISHED"
    BY <2>1, <2>2 DEF RunTick, Return, Forgets
  <2>3. CASE s.phase # "FINISHED"
    <3>1. PICK reached \in BOOLEAN :
              IF TickDue(s, reached) THEN Save(c, ProcessTick(s, reached))
              ELSE Return(c, s) /\ UNCHANGED <<timer, answers>>
      BY <2>1, <2>3 DEF RunTick
    <3>2. CASE TickDue(s, reached)
      <4>1. NextOf(k, s, ProcessTick(s, reached))
            \/ SameLobby(k, s, ProcessTick(s, reached))
        BY <1>9, <2>3, <3>2, OthersFacts
      <4> QED BY <1>3, <3>1, <3>2, <4>1
    <3>3. CASE ~TickDue(s, reached)
      BY <1>2, <3>1, <3>3
    <3> QED BY <3>2, <3>3
  <2> QED BY <2>2, <2>3
<1>10. CASE k.kind = "sync"
  BY <1>2, <1>10 DEF Continue
<1> QED BY <1>1, <1>4, <1>5, <1>7, <1>8, <1>9, <1>10 DEF Loader

-------------------------------------------------------------------------------
(***************************************************************************)
(* And the steps around a transaction.                                     *)
(***************************************************************************)
LEMMA QueryFacts ==
    ASSUME VInv, NEW c \in Call, QueryLatest(c)
    PROVE  \E n : /\ Moves(c, n) /\ n.pc = "loaded" /\ n.state = Latest
                  /\ n.seen = calls[c].seen
PROOF
<1>1. DOMAIN calls[c] = Fields
  BY DEF VInv, CallOK
<1>2. PICK n : n = [calls[c] EXCEPT !.pc = "loaded", !.state = Latest]
  OBVIOUS
<1>3. /\ n.kind = calls[c].kind /\ n.action = calls[c].action
      /\ n.playerId = calls[c].playerId /\ DOMAIN n = Fields
      /\ n.pc = "loaded" /\ n.state = Latest /\ n.seen = calls[c].seen
  BY <1>1, <1>2 DEF Fields
<1>4. calls' = [calls EXCEPT ![c] = n]
  BY <1>2 DEF QueryLatest, VInv
<1> QED BY <1>3, <1>4 DEF Moves

LEMMA ReadFacts ==
    ASSUME VInv, NEW c \in Call, ReadRoom(c)
    PROVE  \E n : /\ Moves(c, n) /\ n.pc = "commit"
                  /\ n.state = calls[c].state /\ n.seen = room.status
PROOF
<1>1. DOMAIN calls[c] = Fields
  BY DEF VInv, CallOK
<1>2. PICK n : n = [calls[c] EXCEPT !.pc = "commit", !.seen = room.status]
  OBVIOUS
<1>3. /\ n.kind = calls[c].kind /\ n.action = calls[c].action
      /\ n.playerId = calls[c].playerId /\ DOMAIN n = Fields
      /\ n.pc = "commit" /\ n.state = calls[c].state /\ n.seen = room.status
  BY <1>1, <1>2 DEF Fields
<1>4. calls' = [calls EXCEPT ![c] = n]
  BY <1>2 DEF ReadRoom, VInv
<1> QED BY <1>3, <1>4 DEF Moves

\* A move goes on to its status, a reconnect to a synchronisation, the others
\* end.
LEMMA PersistedFacts ==
    ASSUME VInv, NEW c \in Call, CallTyped(calls[c]), Persisted(c),
           calls[c].pc = "persisted"
    PROVE  \E n : /\ calls' = [calls EXCEPT ![c] = n] /\ CallTyped(n)
                  /\ \/ n.pc \in {"idle", "load"} /\ ~Owns(n)
                     \/ /\ Moves(c, n) /\ n.pc = "mark"
                        /\ n.kind = "move" /\ n.state = calls[c].state
PROOF
<1> DEFINE k == calls[c]
<1>1. calls' = [calls EXCEPT ![c] = AfterPersist(k)]
  BY DEF Persisted
<1>2. CASE k.kind = "move"
  <2>1. PICK n : n = [k EXCEPT !.pc = "mark"]
    OBVIOUS
  <2>2. DOMAIN k = Fields
    BY DEF VInv, CallOK
  <2>3. /\ n.kind = k.kind /\ n.action = k.action /\ n.playerId = k.playerId
        /\ DOMAIN n = Fields /\ n.pc = "mark" /\ n.state = k.state
    BY <2>1, <2>2 DEF Fields
  <2>4. calls' = [calls EXCEPT ![c] = n]
    BY <1>1, <1>2, <2>1 DEF AfterPersist
  <2>5. Known(k.state)
    BY DEF CallTyped
  <2>6. CallTyped(n)
    BY <2>3, <2>5, MovesTyped DEF Pc
  <2> QED BY <1>2, <2>3, <2>4, <2>6 DEF Moves
<1>3. CASE k.kind = "reconnect"
  <2>1. PICK n : n = [Idle EXCEPT !.kind = "sync", !.pc = "load",
                                  !.playerId = k.playerId]
    OBVIOUS
  <2>2. n.kind = "sync" /\ n.pc = "load" /\ n.playerId = k.playerId
    BY <2>1 DEF Idle
  <2>3. calls' = [calls EXCEPT ![c] = n]
    BY <1>1, <1>3, <2>1 DEF AfterPersist
  <2>4. CallTyped(n) /\ ~Owns(n)
    BY <1>3, <2>2 DEF CallTyped, Pc, Owns
  <2> QED BY <2>2, <2>3, <2>4
<1>4. CASE k.kind \notin {"move", "reconnect"}
  BY <1>1, <1>4, IdleTyped, IdleOK DEF AfterPersist
<1> QED BY <1>2, <1>3, <1>4

-------------------------------------------------------------------------------
\* One call moves on, and what it leaves in memory is a state of the game.
LEMMA TypedStep ==
    ASSUME VInv, TInv, NEW c \in Call, NEW n,
           calls' = [calls EXCEPT ![c] = n], CallTyped(n),
           up' \in BOOLEAN, timer' \in BOOLEAN,
           memory' # NoState => Known(memory'),
           UNCHANGED <<room, snapshots, scored>>, failures' \in Nat,
           actions' \in [ActionId -> RowStatus]
    PROVE  TInv'
PROOF
<1>1. \A d \in Call : calls'[d] = IF d = c THEN n ELSE calls[d]
  BY DEF VInv
<1>2. \A d \in Call : CallTyped(calls'[d])
  BY <1>1 DEF TInv
<1>3. UNCHANGED room /\ UNCHANGED snapshots /\ UNCHANGED scored
  OBVIOUS
<1>4. /\ room' \in [status : RoomStatus, version : Nat]
      /\ DOMAIN snapshots' \subseteq Nat
      /\ \E v \in DOMAIN snapshots' : \A w \in DOMAIN snapshots' : w <= v
      /\ \A v \in DOMAIN snapshots' :
            Known(snapshots'[v]) /\ snapshots'[v].version = v
      /\ scored' \in Nat
  BY <1>3 DEF TInv
<1> QED BY <1>2, <1>4 DEF TInv

LEMMA LightTyped ==
    ASSUME VInv, TInv, NEW c \in Call, NEW n, Light(c, n),
           actions' \in [ActionId -> RowStatus]
    PROVE  TInv'
PROOF
<1>1. /\ calls' = [calls EXCEPT ![c] = n] /\ CallTyped(n)
      /\ UNCHANGED <<room, snapshots, scored>> /\ failures' \in Nat
  BY DEF Light
<1>2. up' \in BOOLEAN /\ timer' \in BOOLEAN
  BY DEF Light, TInv
<1>3. memory' # NoState => Known(memory')
  BY DEF Light, TInv
<1> QED BY <1>1, <1>2, <1>3, TypedStep

LEMMA ContinueTyped ==
    ASSUME VInv, TInv, NEW c \in Call, calls[c].pc \in Loading,
           NEW s, Known(s), Continue(c, s),
           UNCHANGED <<up, database, failures>>
    PROVE  TInv'
PROOF
<1> DEFINE k == calls[c]
<1>1. CallTyped(k)
  BY DEF TInv
<1>2. UNCHANGED <<room, snapshots, scored>> /\ failures' \in Nat
  BY DEF TInv, database
<1>3. up' \in BOOLEAN
  BY DEF TInv
<1>4. actions' \in [ActionId -> RowStatus]
  BY DEF TInv, database
<1>5. CASE Ends(c, s)
  <2>1. timer' \in BOOLEAN
    BY <1>5 DEF TInv, Ends
  <2>2. memory' = s /\ calls' = [calls EXCEPT ![c] = Idle]
    BY <1>5 DEF Ends
  <2> QED BY <1>2, <1>3, <1>4, <2>1, <2>2, IdleTyped, TypedStep
<1>6. CASE Refuses(c, s)
  <2>1. timer' \in BOOLEAN
    BY <1>6 DEF TInv, Refuses
  <2>2. PICK n : Moves(c, n) /\ n.pc = "refuse"
    BY <1>6 DEF Refuses
  <2>3. CallTyped(n)
    BY <1>1, <2>2, MovesTyped DEF Moves, Pc
  <2>4. memory' = s /\ calls' = [calls EXCEPT ![c] = n]
    BY <1>6, <2>2 DEF Refuses, Moves
  <2> QED BY <1>2, <1>3, <1>4, <2>1, <2>3, <2>4, TypedStep
<1>7. CASE Forgets(c, s)
  <2>1. timer' \in BOOLEAN
    BY <1>7 DEF Forgets
  <2>2. memory' = NoState /\ calls' = [calls EXCEPT ![c] = Idle]
    BY <1>7 DEF Forgets
  <2> QED BY <1>2, <1>3, <1>4, <2>1, <2>2, IdleTyped, TypedStep
<1>8. ASSUME NEW t, Saves(c, s, t)
      PROVE  TInv'
  <2>1. timer' \in BOOLEAN
    BY <1>8 DEF TInv, Saves
  <2>2. PICK n : Moves(c, n) /\ n.pc = "read" /\ n.state = t
    BY <1>8 DEF Saves
  <2>3. Known(t)
    BY <1>8 DEF Saves, NextOf, SameLobby, Known
  <2>4. CallTyped(n)
    BY <1>1, <2>2, <2>3, MovesTyped DEF Moves, Pc
  <2>5. memory' = t /\ calls' = [calls EXCEPT ![c] = n]
    BY <1>8, <2>2 DEF Saves, Moves
  <2> QED BY <1>2, <1>3, <1>4, <2>1, <2>3, <2>4, <2>5, TypedStep
<1> QED BY <1>1, <1>5, <1>6, <1>7, <1>8, ContinueCases


LEMMA LoadTyped ==
    ASSUME VInv, TInv, NEW c \in Call,
           \/ LoadHot(c) \/ LoadNothing(c) \/ QueryLatest(c) \/ LoadCold(c)
    PROVE  TInv'
PROOF
<1> DEFINE k == calls[c]
<1>1. CallTyped(k)
  BY DEF TInv
<1>2. CASE LoadHot(c)
  <2>1. /\ k.pc \in Loading /\ Known(memory) /\ Continue(c, memory)
        /\ UNCHANGED <<up, database, failures>>
    BY <1>2 DEF LoadHot, Loading, TInv
  <2> QED BY <2>1, ContinueTyped
<1>3. CASE LoadCold(c)
  <2>1. /\ k.pc \in Loading /\ Known(k.state) /\ Continue(c, k.state)
        /\ UNCHANGED <<up, database, failures>>
    BY <1>1, <1>3 DEF LoadCold, Loading, CallTyped
  <2> QED BY <2>1, ContinueTyped
<1>4. UNCHANGED <<room, snapshots, scored>> /\ failures' \in Nat
      /\ actions' \in [ActionId -> RowStatus]
  BY DEF LoadHot, LoadNothing, QueryLatest, LoadCold, database, TInv
<1>5. up' \in BOOLEAN
  BY DEF LoadHot, LoadNothing, QueryLatest, LoadCold, server, TInv
<1>6. CASE LoadNothing(c)
  <2>1. memory' = NoState /\ calls' = [calls EXCEPT ![c] = Idle]
    BY <1>6 DEF LoadNothing, Return
  <2>2. timer' \in BOOLEAN
    BY <1>6 DEF LoadNothing, TInv
  <2> QED BY <1>4, <1>5, <2>1, <2>2, IdleTyped, TypedStep
<1>7. CASE QueryLatest(c)
  <2>1. PICK n : Moves(c, n) /\ n.pc = "loaded" /\ n.state = Latest
    BY <1>7, QueryFacts
  <2>2. CallTyped(n) /\ calls' = [calls EXCEPT ![c] = n]
    BY <1>1, <2>1, LatestFacts, MovesTyped DEF Moves, Pc
  <2>3. memory' # NoState => Known(memory')
    BY <1>7 DEF QueryLatest, server, TInv
  <2>4. timer' \in BOOLEAN
    BY <1>7 DEF QueryLatest, server, TInv
  <2> QED BY <1>4, <1>5, <2>2, <2>3, <2>4, TypedStep
<1> QED BY <1>2, <1>3, <1>6, <1>7

LEMMA ReplyTyped ==
    ASSUME VInv, TInv, NEW c \in Call,
           ReadRoom(c) \/ Persisted(c) \/ StartRoom(c)
    PROVE  TInv'
PROOF
<1> DEFINE k == calls[c]
<1>1. CallTyped(k)
  BY DEF TInv
<1>2. UNCHANGED <<room, snapshots, scored>> /\ failures' \in Nat
      /\ actions' \in [ActionId -> RowStatus]
  BY DEF ReadRoom, Persisted, StartRoom, database, TInv
<1>3. up' \in BOOLEAN
  BY DEF ReadRoom, Persisted, StartRoom, server, TInv
<1>4. timer' \in BOOLEAN
  BY DEF ReadRoom, Persisted, StartRoom, server, TInv
<1>5. CASE ReadRoom(c)
  <2>1. PICK n : Moves(c, n) /\ n.pc = "commit" /\ n.state = k.state
    BY <1>5, ReadFacts
  <2>2. Known(k.state)
    BY <1>1, <1>5 DEF CallTyped, ReadRoom
  <2>3. CallTyped(n) /\ calls' = [calls EXCEPT ![c] = n]
    BY <1>1, <2>1, <2>2, MovesTyped DEF Moves, Pc
  <2>4. memory' # NoState => Known(memory')
    BY <1>5 DEF ReadRoom, server, TInv
  <2> QED BY <1>2, <1>3, <1>4, <2>3, <2>4, TypedStep
<1>6. CASE Persisted(c)
  <2>1. PICK n : calls' = [calls EXCEPT ![c] = n] /\ CallTyped(n)
    BY <1>1, <1>6, PersistedFacts DEF Persisted
  <2>2. memory' # NoState => Known(memory')
    BY <1>6 DEF Persisted, TInv
  <2> QED BY <1>2, <1>3, <1>4, <2>1, <2>2, TypedStep
<1>7. CASE StartRoom(c)
  <2>1. memory' = FirstState /\ calls' = [calls EXCEPT ![c] = Idle]
    BY <1>7 DEF StartRoom, Return
  <2> QED BY <1>2, <1>3, <1>4, <2>1, FirstFacts, IdleTyped, TypedStep
<1> QED BY <1>5, <1>6, <1>7

LEMMA TransactionTyped ==
    ASSUME VInv, TInv, NEW c \in Call,
           Commit(c) \/ PersistStart(c)
    PROVE  TInv'
PROOF
<1> DEFINE k == calls[c]
<1>1. CallTyped(k) /\ scored \in Nat
  BY DEF TInv
<1>2. PICK s : /\ Known(s) /\ Store(s)
               /\ room'.version = s.version /\ room'.status \in RoomStatus
               /\ DOMAIN room' = {"status", "version"}
               /\ room' = [status |-> room'.status, version |-> room'.version]
  <2>1. CASE Commit(c)
    <3>1. Known(k.state)
      BY <1>1, <2>1 DEF CallTyped, Commit
    <3> QED BY <2>1, <3>1 DEF Commit, RoomStatus
  <2>2. CASE PersistStart(c)
    BY <2>2, FirstFacts DEF PersistStart, RoomStatus
  <2> QED BY <2>1, <2>2
<1>3. room' \in [status : RoomStatus, version : Nat]
  BY <1>2, KnownFacts
<1>4. /\ DOMAIN snapshots' \subseteq Nat
      /\ \E v \in DOMAIN snapshots' : \A w \in DOMAIN snapshots' : w <= v
      /\ \A v \in DOMAIN snapshots' :
            Known(snapshots'[v]) /\ snapshots'[v].version = v
  BY <1>2, StoreFacts
<1>5. PICK n : calls' = [calls EXCEPT ![c] = n] /\ CallTyped(n)
  <2>1. PICK n, pc : /\ Moves(c, n) /\ n.pc = pc /\ n.state = k.state
                     /\ \/ pc = "persisted" /\ k.pc = "commit"
                        \/ pc = "started"
    BY GotoFacts DEF Commit, PersistStart
  <2>2. n.pc = "persisted" => Known(n.state)
    BY <1>1, <2>1 DEF CallTyped
  <2> QED BY <1>1, <2>1, <2>2, MovesTyped DEF Moves, Pc
<1>6. \A d \in Call : CallTyped(calls'[d])
  BY <1>5 DEF VInv, TInv
<1>7. scored' \in Nat /\ failures' \in Nat
      /\ actions' \in [ActionId -> RowStatus]
  BY <1>1 DEF Commit, PersistStart, TInv
<1>8. up' \in BOOLEAN
  BY DEF Commit, PersistStart, server, TInv
<1>9. timer' \in BOOLEAN
  BY DEF Commit, PersistStart, server, TInv
<1>10. memory' # NoState => Known(memory')
  BY DEF Commit, PersistStart, server, TInv
<1> QED BY <1>3, <1>4, <1>6, <1>7, <1>8, <1>9, <1>10 DEF TInv

LEMMA ClaimFacts ==
    ASSUME VInv, TInv, NEW c \in Call, MarkStarting(c)
    PROVE  \/ Light(c, Idle) /\ actions' = actions
           \/ /\ room.status = "WAITING"
              /\ room' = [status |-> "STARTING", version |-> room.version]
              /\ UNCHANGED <<up, memory, timer, neglect, snapshots, actions,
                             scored, failures>>
              /\ \E n : Moves(c, n) /\ n.pc = "countdown"
PROOF
<1>1. calls[c].pc = "cas" /\ calls[c] # Idle
  BY IdleTyped DEF MarkStarting
<1>2. UNCHANGED <<up, memory, timer, neglect, snapshots, actions, scored,
                  failures>>
  BY DEF MarkStarting, server
<1>3. CASE room.status = "WAITING"
  <2>1. room' = [room EXCEPT !.status = "STARTING"] /\ Goto(c, "countdown")
    BY <1>3 DEF MarkStarting
  <2>2. room' = [status |-> "STARTING", version |-> room.version]
    BY <2>1 DEF TInv
  <2> QED BY <1>2, <1>3, <2>1, <2>2, GotoFacts
<1>4. CASE room.status # "WAITING"
  <2>1. calls' = [calls EXCEPT ![c] = Idle] /\ room' = room
    BY <1>4 DEF MarkStarting
  <2>2. failures' \in Nat /\ failures' >= failures
    BY <1>2 DEF TInv
  <2>3. UNCHANGED <<up, memory, timer, neglect, room, snapshots, scored>>
    BY <1>2, <2>1
  <2>4. Light(c, Idle)
    BY <1>1, <2>1, <2>2, <2>3, IdleTyped DEF Light
  <2> QED BY <1>2, <2>4
<1> QED BY <1>3, <1>4

LEMMA ClaimTyped ==
    ASSUME VInv, TInv, NEW c \in Call, MarkStarting(c)
    PROVE  TInv'
PROOF
<1>1. CASE Light(c, Idle) /\ actions' = actions
  <2>1. actions' \in [ActionId -> RowStatus]
    BY <1>1 DEF TInv
  <2> QED BY <1>1, <2>1, LightTyped
<1>2. ASSUME room' = [status |-> "STARTING", version |-> room.version],
             UNCHANGED <<up, memory, timer, snapshots, actions, scored, failures>>,
             NEW n, Moves(c, n), n.pc = "countdown"
      PROVE  TInv'
  <2>1. CallTyped(n)
    BY <1>2, MovesTyped DEF Moves, Pc, TInv
  <2>2. \A d \in Call : CallTyped(calls'[d])
    BY <1>2, <2>1 DEF Moves, VInv, TInv
  <2>3. room' \in [status : RoomStatus, version : Nat]
    BY <1>2 DEF TInv, RoomStatus
  <2>4. UNCHANGED <<memory, snapshots, actions, scored, failures>>
    BY <1>2
  <2>5. /\ DOMAIN snapshots' \subseteq Nat
        /\ \E v \in DOMAIN snapshots' : \A w \in DOMAIN snapshots' : w <= v
        /\ \A v \in DOMAIN snapshots' :
              Known(snapshots'[v]) /\ snapshots'[v].version = v
    BY <2>4 DEF TInv
  <2>6. scored' \in Nat /\ failures' \in Nat
        /\ actions' \in [ActionId -> RowStatus]
        /\ (memory' # NoState => Known(memory'))
    BY <2>4 DEF TInv
  <2>7. up' \in BOOLEAN /\ timer' \in BOOLEAN
    BY <1>2 DEF TInv
  <2> QED BY <2>2, <2>3, <2>5, <2>6, <2>7 DEF TInv
<1> QED BY <1>1, <1>2, ClaimFacts

LEMMA ProcessTyped ==
    ASSUME VInv, TInv, Crash \/ Recover \/ RecoverNothing \/ UNCHANGED vars
    PROVE  TInv'
PROOF
<1>1. /\ UNCHANGED <<room, snapshots, scored, actions>>
      /\ failures' \in {failures, failures + 1}
  BY DEF Crash, Recover, RecoverNothing, vars, database
<1>2. /\ room' \in [status : RoomStatus, version : Nat]
      /\ DOMAIN snapshots' \subseteq Nat
      /\ \E v \in DOMAIN snapshots' : \A w \in DOMAIN snapshots' : w <= v
      /\ \A v \in DOMAIN snapshots' :
            Known(snapshots'[v]) /\ snapshots'[v].version = v
      /\ scored' \in Nat /\ failures' \in Nat
      /\ actions' \in [ActionId -> RowStatus]
  BY <1>1 DEF TInv
<1>3. up' \in BOOLEAN
  BY DEF Crash, Recover, RecoverNothing, vars, server, TInv
<1>4. timer' \in BOOLEAN
  BY DEF Crash, Recover, RecoverNothing, vars, server, TInv
<1>5. memory' # NoState => Known(memory')
  BY LatestFacts DEF Crash, Recover, RecoverNothing, vars, server, TInv
<1>6. \A d \in Call : CallTyped(calls'[d])
  BY IdleTyped DEF Crash, Recover, RecoverNothing, vars, TInv
<1> QED BY <1>2, <1>3, <1>4, <1>5, <1>6 DEF TInv

LEMMA InitTyped == ASSUME Init PROVE TInv
PROOF
<1>1. /\ scored = 0 /\ failures = 0 /\ up = TRUE /\ timer = ~FromLobby
      /\ actions = [id \in ActionId |-> "NONE"]
      /\ \A c \in Call : calls[c] = Idle
  BY DEF Init
<1>2. \A c \in Call : CallTyped(calls[c])
  BY <1>1, IdleTyped
<1>3. room \in [status : RoomStatus, version : Nat]
  BY DEF Init, RoomStatus
<1>4. memory # NoState => Known(memory)
  BY FirstFacts DEF Init
<1>5. timer \in BOOLEAN /\ up \in BOOLEAN
  BY <1>1
<1>6. actions \in [ActionId -> RowStatus]
  BY <1>1 DEF RowStatus
<1>7. /\ DOMAIN snapshots \subseteq Nat
      /\ \E v \in DOMAIN snapshots : \A w \in DOMAIN snapshots : w <= v
      /\ \A v \in DOMAIN snapshots :
            Known(snapshots[v]) /\ snapshots[v].version = v
  <2>1. Known(LobbyState) /\ LobbyState.version = 0
        /\ Known(FirstState) /\ FirstState.version = 1
    BY LobbyFacts, FirstFacts DEF Known
  <2>2. CASE FromLobby
    BY <2>1, <2>2 DEF Init
  <2>3. CASE ~FromLobby
    BY <2>1, <2>3 DEF Init
  <2> QED BY <2>2, <2>3
<1> QED BY <1>1, <1>2, <1>3, <1>4, <1>5, <1>6, <1>7 DEF TInv

LEMMA NextTyped == ASSUME VInv, TInv, [Next]_vars PROVE TInv'
PROOF
<1>1. ASSUME NEW c \in Call,
             \/ \E id \in ActionId : Submit(c, id)
             \/ \E kind \in Kinds, p \in DOMAIN Rows : PlayerCall(c, kind, p)
             \/ Tick(c) \/ Start(c)
      PROVE  TInv'
  <2>1. PICK n : Light(c, n)
    BY <1>1, ArrivalsAreLight
  <2>2. actions' \in [ActionId -> RowStatus]
    BY <1>1, ArrivalsAreLight DEF TInv
  <2> QED BY <2>1, <2>2, LightTyped
<1>2. ASSUME NEW c \in Call,
             \/ Reserve(c) \/ Lookup(c) \/ AskDatabase(c)
             \/ Mark(c) \/ Refuse(c) \/ Fail(c)
      PROVE  TInv'
  BY <1>2, StepsAreLight, LightTyped
<1>3. ASSUME NEW c \in Call, Step(c) \/ Fail(c)
      PROVE  TInv'
  BY <1>2, <1>3, LoadTyped, ReplyTyped, TransactionTyped, ClaimTyped DEF Step
<1> QED BY <1>1, <1>3, ProcessTyped DEF Next

Neglects == {"none", "start", "recovery"}

LEMMA NeglectTyped ==
    ASSUME neglect \in Neglects, [Next]_vars
    PROVE  neglect' \in Neglects
PROOF
<1>1. ASSUME NEW c \in Call, NEW call, Arrive(c, call)
      PROVE  neglect' = neglect
  BY <1>1 DEF Arrive, server
<1>2. ASSUME NEW c \in Call, Step(c)
      PROVE  neglect' = neglect
  BY <1>2 DEF Step, server, Reserve, Lookup, LoadHot, LoadNothing, AskDatabase,
              QueryLatest, LoadCold, ReadRoom, Commit, Persisted, Mark, Refuse,
              Settle, MarkStarting, PersistStart, StartRoom
<1>3. ASSUME NEW c \in Call, Fail(c)
      PROVE  neglect' \in Neglects
  BY <1>3 DEF Fail, Neglects
<1>4. CASE Crash \/ Recover \/ RecoverNothing \/ UNCHANGED vars
  BY <1>4 DEF Crash, Recover, RecoverNothing, vars, server, Neglects
<1> QED BY <1>1, <1>2, <1>3, <1>4 DEF Next, Submit, PlayerCall, Tick, Start

\* Whatever overlaps, fails or crashes, the hot state, every snapshot and the
\* state of every call are states of the room's game (or its lobby), each
\* snapshot under its own version.
THEOREM TypeCorrect == Spec => []TypeOK
PROOF
<1>1. Init => VInv /\ TInv /\ neglect \in Neglects
  BY InitVerdicts, InitTyped DEF Init, Neglects
<1>2. VInv /\ TInv /\ neglect \in Neglects /\ [Next]_vars
          => (VInv /\ TInv /\ neglect \in Neglects)'
  BY NextVerdicts, NextTyped, NeglectTyped
<1>3. VInv /\ TInv /\ neglect \in Neglects => TypeOK
  <2> SUFFICES ASSUME VInv, TInv, neglect \in Neglects
               PROVE  TypeOK
    OBVIOUS
  <2>1. /\ memory # NoState => IsState(memory)
        /\ \A v \in DOMAIN snapshots :
              IsState(snapshots[v]) /\ snapshots[v].version = v
    BY KnownFacts DEF TInv
  <2>2. \A c \in Call :
            /\ calls[c].pc \in Pc
            /\ calls[c].pc \in {"read", "commit", "persisted", "mark", "loaded"}
                  => IsState(calls[c].state)
    BY KnownFacts DEF TInv, CallTyped
  <2>3. up \in BOOLEAN /\ timer \in BOOLEAN
    BY DEF TInv
  <2>4. room.status \in RoomStatus /\ room.version \in Nat /\ scored \in Nat
        /\ actions \in [ActionId -> {"NONE", "RECEIVED", "APPLIED", "REJECTED"}]
    BY DEF TInv, RowStatus
  <2> QED BY <2>1, <2>2, <2>3, <2>4 DEF TypeOK, Neglects
<1> QED BY <1>1, <1>2, <1>3, PTL DEF Spec

-------------------------------------------------------------------------------
(***************************************************************************)
(* The start of the game, if nobody disconnects, reconnects or leaves      *)
(* while the room is in the lobby: persistGameState, which these calls     *)
(* reach with the lobby's state, would put the room in progress (the run   *)
(* lobby_reconnect).                                                       *)
(***************************************************************************)
NoLobbyCalls ==
    FromLobby => Kinds \cap {"disconnect", "reconnect", "leave"} = {}

(***************************************************************************)
(* The inductive invariant: a room has started if and only if it has more  *)
(* than the lobby's snapshot; what calls hold and store is of a game that  *)
(* has started, and one call at most counts down.                          *)
(***************************************************************************)
Started == room.status \in {"IN_PROGRESS", "FINISHED"}

CallBegins(k) ==
    /\ k.pc \in {"read", "commit", "persisted"} =>
          k.state # LobbyState /\ k.state.version > 1 /\ Started
    /\ k.pc = "loaded" =>
          IF k.state = LobbyState THEN FromLobby ELSE Started
    /\ k.pc = "countdown" => room.status = "STARTING"
    /\ k.pc = "started" => Started /\ FromLobby

BInv ==
    /\ 0 \in DOMAIN snapshots
    /\ 1 \in DOMAIN snapshots => snapshots[1] = FirstState
    /\ Started <=> \E v \in DOMAIN snapshots : v > 0
    /\ memory \notin {NoState, LobbyState} => Started
    /\ memory = LobbyState /\ memory # NoState => FromLobby
    /\ ~Started => FromLobby
    /\ \A c \in Call : CallBegins(calls[c])
    /\ \A c, d \in Call :
          calls[c].pc = "countdown" /\ calls[d].pc = "countdown" => c = d

\* A state is fit to be played on: the lobby's only in the lobby.
Fit(s) == IF s = LobbyState THEN FromLobby ELSE Started

LEMMA BeginStep ==
    ASSUME VInv, BInv, NEW c \in Call, NEW n,
           calls' = [calls EXCEPT ![c] = n], UNCHANGED <<room, snapshots>>,
           n.pc # "countdown", CallBegins(n),
           memory' # NoState => Fit(memory')
    PROVE  BInv'
PROOF
<1>1. \A d \in Call : calls'[d] = IF d = c THEN n ELSE calls[d]
  BY DEF VInv
<1>2. room' = room /\ snapshots' = snapshots
  OBVIOUS
<1>3. \A d \in Call : CallBegins(calls[d])'
  BY <1>1, <1>2 DEF BInv, CallBegins, Started
<1>4. \A d, e \in Call :
          calls'[d].pc = "countdown" /\ calls'[e].pc = "countdown" => d = e
  BY <1>1 DEF BInv
<1>5. Started' <=> Started
  BY <1>2 DEF Started
<1>6. /\ memory' \notin {NoState, LobbyState} => Started'
      /\ memory' = LobbyState /\ memory' # NoState => FromLobby
  BY <1>5 DEF Fit
<1> QED BY <1>2, <1>3, <1>4, <1>5, <1>6 DEF BInv

\* A call holds nothing there.
LEMMA LightBegins ==
    ASSUME NEW n,
           n.pc \in {"idle", "reserve", "lookup", "load", "query", "cas",
                     "mark", "refuse"}
    PROVE  CallBegins(n)
PROOF BY DEF CallBegins

LEMMA MemoryFit == ASSUME BInv, memory # NoState PROVE Fit(memory)
PROOF BY DEF BInv, Fit

LEMMA LatestFit == ASSUME TInv, BInv PROVE Fit(Latest)
PROOF
<1>1. /\ LatestVersion \in DOMAIN snapshots /\ LatestVersion \in Nat
      /\ \A w \in DOMAIN snapshots : w <= LatestVersion
      /\ Known(Latest) /\ Latest.version = LatestVersion
  BY LatestFacts
<1>2. CASE Latest = LobbyState
  <2>1. LatestVersion = 0 /\ DOMAIN snapshots \subseteq Nat
    BY <1>1, <1>2, LobbyFacts DEF TInv
  <2>2. ~ \E v \in DOMAIN snapshots : v > 0
    BY <1>1, <2>1
  <2> QED BY <1>2, <2>2 DEF BInv, Fit
<1>3. CASE Latest # LobbyState
  <2>1. LatestVersion > 0
    BY <1>1, <1>3, KnownFacts
  <2> QED BY <1>1, <1>3, <2>1 DEF BInv, Fit
<1> QED BY <1>2, <1>3

LEMMA LightBegun ==
    ASSUME VInv, BInv, NEW c \in Call, NEW n, Light(c, n)
    PROVE  BInv'
PROOF
<1>1. CallBegins(n) /\ n.pc # "countdown"
  BY LightBegins DEF Light
<1>2. /\ calls' = [calls EXCEPT ![c] = n]
      /\ UNCHANGED <<room, snapshots>> /\ memory' = memory
  BY DEF Light
<1> QED BY <1>1, <1>2, MemoryFit, BeginStep

LEMMA ContinueBegun ==
    ASSUME VInv, TInv, BInv, NoLobbyCalls, NEW c \in Call,
           calls[c].pc \in Loading, NEW s, Known(s), Fit(s), Continue(c, s),
           UNCHANGED <<up, database, failures>>
    PROVE  BInv'
PROOF
<1> DEFINE k == calls[c]
<1>1. CallTyped(k)
  BY DEF TInv
<1>2. UNCHANGED <<room, snapshots>>
  BY DEF database
<1>3. CallBegins(Idle) /\ Idle.pc # "countdown"
  BY LightBegins, IdleTyped
<1>4. CASE Ends(c, s)
  BY <1>2, <1>3, <1>4, BeginStep DEF Ends
<1>5. CASE Forgets(c, s)
  BY <1>2, <1>3, <1>5, BeginStep DEF Forgets
<1>6. CASE Refuses(c, s)
  <2>1. PICK n : Moves(c, n) /\ n.pc = "refuse"
    BY <1>6 DEF Refuses
  <2>2. CallBegins(n) /\ memory' = s
    BY <1>6, <2>1, LightBegins DEF Refuses
  <2> QED BY <1>2, <2>1, <2>2, BeginStep DEF Moves
<1>7. ASSUME NEW t, Saves(c, s, t)
      PROVE  BInv'
  <2>1. PICK n : Moves(c, n) /\ n.pc = "read" /\ n.state = t
    BY <1>7 DEF Saves
  <2>2. memory' = t
    BY <1>7 DEF Saves
  <2>3. ~SameLobby(k, s, t)
    <3>1. s = LobbyState => FromLobby
      BY DEF Fit
    <3>2. k.kind \in {"disconnect", "reconnect", "leave"} => k.kind \in Kinds
      BY <1>1 DEF CallTyped
    <3> QED BY <3>1, <3>2 DEF SameLobby, NoLobbyCalls
  <2>4. t.version > 1 /\ t # LobbyState /\ s # LobbyState
    BY <1>7, <2>3 DEF Saves, NextOf
  <2>5. Started /\ Fit(t)
    BY <2>4 DEF Fit
  <2>6. CallBegins(n)
    BY <2>1, <2>4, <2>5 DEF CallBegins
  <2> QED BY <1>2, <2>1, <2>2, <2>5, <2>6, BeginStep DEF Moves
<1> QED BY <1>1, <1>4, <1>5, <1>6, <1>7, ContinueCases

LEMMA LoadBegun ==
    ASSUME VInv, TInv, BInv, NoLobbyCalls, NEW c \in Call,
           \/ LoadHot(c) \/ LoadNothing(c) \/ QueryLatest(c) \/ LoadCold(c)
    PROVE  BInv'
PROOF
<1> DEFINE k == calls[c]
<1>1. CallTyped(k) /\ CallBegins(k)
  BY DEF TInv, BInv
<1>2. CASE LoadHot(c)
  <2>1. /\ k.pc \in Loading /\ Known(memory) /\ Continue(c, memory)
        /\ UNCHANGED <<up, database, failures>>
    BY <1>2 DEF LoadHot, Loading, TInv
  <2>2. Fit(memory)
    BY <1>2, MemoryFit DEF LoadHot
  <2> QED BY <2>1, <2>2, ContinueBegun
<1>3. CASE LoadCold(c)
  <2>1. /\ k.pc \in Loading /\ Known(k.state) /\ Continue(c, k.state)
        /\ UNCHANGED <<up, database, failures>>
    BY <1>1, <1>3 DEF LoadCold, Loading, CallTyped
  <2>2. Fit(k.state)
    BY <1>1, <1>3 DEF LoadCold, CallBegins, Fit
  <2> QED BY <2>1, <2>2, ContinueBegun
<1>4. CASE LoadNothing(c)
  <2>1. /\ memory' = NoState /\ calls' = [calls EXCEPT ![c] = Idle]
        /\ UNCHANGED <<room, snapshots>>
    BY <1>4 DEF LoadNothing, Return, database
  <2>2. CallBegins(Idle) /\ Idle.pc # "countdown"
    BY LightBegins, IdleTyped
  <2> QED BY <2>1, <2>2, BeginStep
<1>5. CASE QueryLatest(c)
  <2>1. PICK n : Moves(c, n) /\ n.pc = "loaded" /\ n.state = Latest
    BY <1>5, QueryFacts
  <2>2. CallBegins(n)
    BY <2>1, LatestFit DEF CallBegins, Fit
  <2>3. UNCHANGED <<room, snapshots, memory>>
    BY <1>5 DEF QueryLatest, server, database
  <2> QED BY <2>1, <2>2, <2>3, MemoryFit, BeginStep DEF Moves
<1> QED BY <1>2, <1>3, <1>4, <1>5

LEMMA ReplyBegun ==
    ASSUME VInv, TInv, BInv, NEW c \in Call,
           ReadRoom(c) \/ Persisted(c) \/ StartRoom(c)
    PROVE  BInv'
PROOF
<1> DEFINE k == calls[c]
<1>1. CallTyped(k) /\ CallBegins(k)
  BY DEF TInv, BInv
<1>2. UNCHANGED <<room, snapshots>>
  BY DEF ReadRoom, Persisted, StartRoom, database
<1>3. CASE ReadRoom(c)
  <2>1. PICK n : Moves(c, n) /\ n.pc = "commit" /\ n.state = k.state
    BY <1>3, ReadFacts
  <2>2. CallBegins(n)
    BY <1>1, <1>3, <2>1 DEF ReadRoom, CallBegins
  <2>3. memory' = memory
    BY <1>3 DEF ReadRoom, server
  <2> QED BY <1>2, <2>1, <2>2, <2>3, MemoryFit, BeginStep DEF Moves
<1>4. CASE Persisted(c)
  <2>1. PICK n : /\ calls' = [calls EXCEPT ![c] = n]
                 /\ n.pc \in {"idle", "load", "mark"}
    BY <1>1, <1>4, PersistedFacts DEF Persisted
  <2>2. CallBegins(n)
    BY <2>1, LightBegins
  <2>3. memory' \in {memory, NoState}
    BY <1>4 DEF Persisted
  <2> QED BY <1>2, <2>1, <2>2, <2>3, MemoryFit, BeginStep
<1>5. CASE StartRoom(c)
  <2>1. memory' = FirstState /\ calls' = [calls EXCEPT ![c] = Idle]
    BY <1>5 DEF StartRoom, Return
  <2>2. Fit(FirstState)
    BY <1>1, <1>5, FirstFacts, LobbyFacts DEF StartRoom, CallBegins, Fit
  <2>3. CallBegins(Idle) /\ Idle.pc # "countdown"
    BY LightBegins, IdleTyped
  <2> QED BY <1>2, <2>1, <2>2, <2>3, BeginStep
<1> QED BY <1>3, <1>4, <1>5

\* A transaction of persistGameState finds the game started.
LEMMA CommitBegun ==
    ASSUME VInv, TInv, BInv, NEW c \in Call, Commit(c)
    PROVE  BInv'
PROOF
<1> DEFINE k == calls[c]
           s == calls[c].state
<1>1. /\ k.pc = "commit" /\ Known(s) /\ s.version > 1 /\ s # LobbyState
      /\ Started /\ s.version \in Nat
  BY KnownFacts DEF TInv, BInv, CallTyped, CallBegins, Commit
<1>2. Started' /\ Store(s) /\ memory' = memory
  BY DEF Commit, Started, server
<1>3. /\ DOMAIN snapshots' = DOMAIN snapshots \cup {s.version}
      /\ \A w \in DOMAIN snapshots :
            w # s.version => snapshots'[w] = snapshots[w]
  BY <1>1, <1>2, StoreFacts
<1>4. /\ 0 \in DOMAIN snapshots'
      /\ 1 \in DOMAIN snapshots' => snapshots'[1] = FirstState
      /\ \E v \in DOMAIN snapshots' : v > 0
  <2>1. s.version # 1 /\ s.version > 0
    BY <1>1
  <2> QED BY <1>3, <2>1 DEF BInv
<1>5. PICK n : Moves(c, n) /\ n.pc = "persisted" /\ n.state = s
  BY GotoFacts DEF Commit
<1>6. \A d \in Call : calls'[d] = IF d = c THEN n ELSE calls[d]
  BY <1>5 DEF VInv, Moves
<1>7. \A d \in Call : calls'[d].pc # "countdown"
  BY <1>1, <1>5, <1>6 DEF BInv, CallBegins, Started
<1>8. \A d \in Call : CallBegins(calls[d])'
  <2> SUFFICES ASSUME NEW d \in Call PROVE CallBegins(calls[d])'
    OBVIOUS
  <2>1. CASE d = c
    BY <1>1, <1>2, <1>5, <1>6, <2>1 DEF CallBegins
  <2>2. CASE d # c
    BY <1>1, <1>2, <1>6, <1>7, <2>2 DEF BInv, CallBegins
  <2> QED BY <2>1, <2>2
<1>9. /\ memory' \notin {NoState, LobbyState} => Started'
      /\ memory' = LobbyState /\ memory' # NoState => FromLobby
      /\ ~Started' => FromLobby
  BY <1>2 DEF BInv
<1> QED BY <1>2, <1>4, <1>7, <1>8, <1>9 DEF BInv

LEMMA ClaimBegun ==
    ASSUME VInv, TInv, BInv, NEW c \in Call, MarkStarting(c)
    PROVE  BInv'
PROOF
<1>1. CASE Light(c, Idle)
  BY <1>1, LightBegun
<1>2. ASSUME room.status = "WAITING",
             room' = [status |-> "STARTING", version |-> room.version],
             UNCHANGED <<memory, snapshots>>,
             NEW n, Moves(c, n), n.pc = "countdown"
      PROVE  BInv'
  <2>1. \A d \in Call : calls'[d] = IF d = c THEN n ELSE calls[d]
    BY <1>2 DEF VInv, Moves
  <2>2. ~Started /\ ~Started' /\ room'.status = "STARTING"
    BY <1>2 DEF Started
  <2>3. \A d \in Call : calls[d].pc # "countdown"
    BY <1>2 DEF BInv, CallBegins
  <2>4. \A d \in Call : CallBegins(calls[d])'
    BY <1>2, <2>1, <2>2 DEF BInv, CallBegins
  <2>5. \A d, e \in Call :
            calls'[d].pc = "countdown" /\ calls'[e].pc = "countdown" => d = e
    BY <2>1, <2>3
  <2>6. memory' = memory /\ snapshots' = snapshots
    BY <1>2
  <2> QED BY <2>2, <2>4, <2>5, <2>6 DEF BInv
<1> QED BY <1>1, <1>2, ClaimFacts

\* The first state is stored where there was no state of a game.
LEMMA StartBegun ==
    ASSUME VInv, TInv, BInv, NEW c \in Call, PersistStart(c)
    PROVE  BInv'
PROOF
<1> DEFINE k == calls[c]
<1>1. /\ k.pc = "countdown" /\ room.status = "STARTING" /\ ~Started
      /\ FromLobby
  BY DEF BInv, CallBegins, PersistStart, Started
<1>2. Started' /\ Store(FirstState) /\ memory' = memory
  BY DEF PersistStart, Started, server
<1>3. Known(FirstState) /\ FirstState.version = 1
  BY FirstFacts
<1>4. /\ DOMAIN snapshots' = DOMAIN snapshots \cup {1}
      /\ snapshots'[1] = FirstState
  BY <1>2, <1>3, StoreFacts
<1>5. /\ 0 \in DOMAIN snapshots'
      /\ 1 \in DOMAIN snapshots' => snapshots'[1] = FirstState
      /\ \E v \in DOMAIN snapshots' : v > 0
  BY <1>4 DEF BInv
<1>6. PICK n : Moves(c, n) /\ n.pc = "started"
  BY GotoFacts DEF PersistStart
<1>7. \A d \in Call : calls'[d] = IF d = c THEN n ELSE calls[d]
  BY <1>6 DEF VInv, Moves
<1>8. \A d \in Call : calls'[d].pc # "countdown"
  BY <1>1, <1>6, <1>7 DEF BInv
<1>9. \A d \in Call : CallBegins(calls[d])'
  BY <1>1, <1>2, <1>6, <1>7, <1>8 DEF BInv, CallBegins
<1>10. /\ memory' \notin {NoState, LobbyState} => Started'
       /\ memory' = LobbyState /\ memory' # NoState => FromLobby
       /\ ~Started' => FromLobby
  BY <1>1, <1>2
<1> QED BY <1>2, <1>5, <1>8, <1>9, <1>10 DEF BInv

LEMMA ProcessBegun ==
    ASSUME TInv, BInv, Crash \/ Recover \/ RecoverNothing \/ UNCHANGED vars
    PROVE  BInv'
PROOF
<1>1. room' = room /\ snapshots' = snapshots
  BY DEF Crash, Recover, RecoverNothing, vars, database
<1>2. \A d \in Call : calls'[d] \in {calls[d], Idle}
  BY DEF Crash, Recover, RecoverNothing, vars
<1>3. CallBegins(Idle) /\ Idle.pc # "countdown"
  BY LightBegins, IdleTyped
<1>4. \A d \in Call : CallBegins(calls[d])'
  BY <1>1, <1>2, <1>3 DEF BInv, CallBegins, Started
<1>5. memory' # NoState => Fit(memory')
  BY MemoryFit, LatestFit DEF Crash, Recover, RecoverNothing, vars, server
<1>6. Started' <=> Started
  BY <1>1 DEF Started
<1>7. /\ memory' \notin {NoState, LobbyState} => Started'
      /\ memory' = LobbyState /\ memory' # NoState => FromLobby
  BY <1>5, <1>6 DEF Fit
<1>8. \A c, d \in Call :
          calls'[c].pc = "countdown" /\ calls'[d].pc = "countdown" => c = d
  BY <1>2, <1>3 DEF BInv
<1> QED BY <1>1, <1>4, <1>6, <1>7, <1>8 DEF BInv

LEMMA InitBegun == ASSUME Init PROVE BInv
PROOF
<1>1. \A c \in Call : calls[c].pc = "idle" /\ CallBegins(calls[c])
  BY IdleTyped, LightBegins DEF Init
<1>2. CASE FromLobby
  <2>1. room.status = "WAITING" /\ DOMAIN snapshots = {0} /\ memory = NoState
    BY <1>2 DEF Init
  <2> QED BY <1>1, <1>2, <2>1 DEF BInv, Started
<1>3. CASE ~FromLobby
  <2>1. /\ room.status = "IN_PROGRESS" /\ DOMAIN snapshots = {0, 1}
        /\ snapshots[1] = FirstState /\ memory = FirstState
    BY <1>3 DEF Init
  <2>2. FirstState # LobbyState
    BY FirstFacts, LobbyFacts
  <2> QED BY <1>1, <2>1, <2>2 DEF BInv, Started
<1> QED BY <1>2, <1>3

LEMMA NextBegun ==
    ASSUME VInv, TInv, BInv, NoLobbyCalls, [Next]_vars
    PROVE  BInv'
PROOF
<1>1. ASSUME NEW c \in Call,
             \/ \E id \in ActionId : Submit(c, id)
             \/ \E kind \in Kinds, p \in DOMAIN Rows : PlayerCall(c, kind, p)
             \/ Tick(c) \/ Start(c)
      PROVE  BInv'
  BY <1>1, ArrivalsAreLight, LightBegun
<1>2. ASSUME NEW c \in Call,
             \/ Reserve(c) \/ Lookup(c) \/ AskDatabase(c)
             \/ Mark(c) \/ Refuse(c) \/ Fail(c)
      PROVE  BInv'
  BY <1>2, StepsAreLight, LightBegun
<1>3. ASSUME NEW c \in Call, Step(c) \/ Fail(c)
      PROVE  BInv'
  BY <1>2, <1>3, LoadBegun, ReplyBegun, CommitBegun, ClaimBegun, StartBegun
     DEF Step
<1> QED BY <1>1, <1>3, ProcessBegun DEF Next

\* The steps that change the room or its snapshots.
LEMMA RoomChanges ==
    ASSUME [Next]_vars
    PROVE  \/ UNCHANGED <<room, snapshots>>
           \/ \E c \in Call : Commit(c) \/ PersistStart(c) \/ MarkStarting(c)
PROOF
<1>1. CASE UNCHANGED vars
  BY <1>1 DEF vars, database
<1>2. CASE Crash \/ Recover \/ RecoverNothing
  BY <1>2 DEF Crash, Recover, RecoverNothing, database
<1>3. ASSUME NEW c \in Call, NEW call, Arrive(c, call)
      PROVE  UNCHANGED <<room, snapshots>>
  BY <1>3 DEF Arrive, database
<1>4. ASSUME NEW c \in Call, Step(c) \/ Fail(c),
             ~(Commit(c) \/ PersistStart(c) \/ MarkStarting(c))
      PROVE  UNCHANGED <<room, snapshots>>
  BY <1>4 DEF Step, Fail, database, Reserve, Lookup, LoadHot, LoadNothing,
              AskDatabase, QueryLatest, LoadCold, ReadRoom, Persisted,
              Mark, Refuse, Settle, StartRoom
<1> QED BY <1>1, <1>2, <1>3, <1>4 DEF Next, Submit, PlayerCall, Tick, Start

LEMMA OrderStays ==
    ASSUME VInv, TInv, BInv, [Next]_vars
    PROVE  StartsInOrder
PROOF
<1>1. CASE UNCHANGED <<room, snapshots>>
  BY <1>1 DEF StartsInOrder, TInv
<1>2. ASSUME NEW c \in Call, Commit(c)
      PROVE  StartsInOrder
  <2>1. /\ Known(calls[c].state) /\ Started
        /\ calls[c].state.version > 1 /\ Store(calls[c].state)
    BY <1>2 DEF TInv, BInv, CallTyped, CallBegins, Commit
  <2>2. 1 \in DOMAIN snapshots => snapshots'[1] = snapshots[1]
    <3>1. calls[c].state.version # 1
      BY <2>1
    <3> QED BY <2>1, <3>1, StoreFacts
  <2>3. room'.status \in {"IN_PROGRESS", "FINISHED"}
    BY <1>2 DEF Commit
  <2> QED BY <2>1, <2>2, <2>3 DEF StartsInOrder, Started
<1>3. ASSUME NEW c \in Call, PersistStart(c)
      PROVE  StartsInOrder
  <2>1. room.status = "STARTING" /\ 1 \notin DOMAIN snapshots
    BY <1>3 DEF BInv, CallBegins, PersistStart, Started
  <2>2. room'.status = "IN_PROGRESS"
    BY <1>3 DEF PersistStart
  <2> QED BY <2>1, <2>2 DEF StartsInOrder
<1>4. ASSUME NEW c \in Call, MarkStarting(c)
      PROVE  StartsInOrder
  <2>1. snapshots' = snapshots
    BY <1>4 DEF MarkStarting
  <2>2. \/ room' = room
        \/ room.status = "WAITING" /\ room'.status = "STARTING"
    BY <1>4, ClaimFacts DEF Light
  <2> QED BY <2>1, <2>2 DEF StartsInOrder
<1> QED BY <1>1, <1>2, <1>3, <1>4, RoomChanges

\* Until it is claimed a room has stored its lobby and no more; afterwards the
\* call that claimed it is alone with the first state until that is stored.
THEOREM Beginning ==
    ASSUME NoLobbyCalls
    PROVE  Spec => [](VInv /\ TInv /\ BInv)
PROOF
<1>1. Init => VInv /\ TInv /\ BInv
  BY InitVerdicts, InitTyped, InitBegun
<1>2. VInv /\ TInv /\ BInv /\ [Next]_vars => (VInv /\ TInv /\ BInv)'
  BY NextVerdicts, NextTyped, NextBegun
<1> QED BY <1>1, <1>2, PTL DEF Spec

\* A room in progress has a game as its newest snapshot, whatever number of
\* starts, moves, ticks and synchronisations overlap, fail or crash: startGame
\* stores the first state in the transaction that puts the room in progress.
THEOREM GameInProgress ==
    ASSUME NoLobbyCalls
    PROVE  Spec => []InProgressHasGame
PROOF
<1>1. VInv /\ TInv /\ BInv => InProgressHasGame
  <2> SUFFICES ASSUME VInv, TInv, BInv, room.status = "IN_PROGRESS"
               PROVE  Latest.phase # "LOBBY"
    BY DEF InProgressHasGame
  <2>1. PICK v \in DOMAIN snapshots : v > 0
    BY DEF BInv, Started
  <2>2. LatestVersion > 0 /\ Latest.version = LatestVersion /\ Known(Latest)
    BY <2>1, LatestFacts DEF TInv
  <2> QED BY <2>2, KnownFacts
<1> QED BY <1>1, Beginning, PTL

\* A room starts once, by way of the claim, and its first state is stored by
\* nobody but the call that claimed it.
THEOREM OneStart ==
    ASSUME NoLobbyCalls
    PROVE  Spec => StartsOnce
PROOF
<1>1. VInv /\ TInv /\ BInv /\ [Next]_vars => [StartsInOrder]_vars
  BY OrderStays
<1> QED BY <1>1, Beginning, PTL DEF Spec, StartsOnce

-------------------------------------------------------------------------------
(***************************************************************************)
(* Who may start the loop: recovery, once per process, or the call that    *)
(* stored the first state, which is alone.  If its request failed there is *)
(* no loop, and nobody is left who would start one.                        *)
(***************************************************************************)
Waits(k) == k.pc = "started"

NInv ==
    /\ ~up => ~timer /\ neglect = "none" /\ \A c \in Call : calls[c].pc = "idle"
    /\ timer => Started
    /\ neglect # "none" => Started /\ ~timer
    /\ \A c \in Call : Waits(calls[c]) => ~timer /\ neglect = "none"
    /\ \A c, d \in Call : Waits(calls[c]) /\ Waits(calls[d]) => c = d

\* One call of the running process moves on and the loop is not started.
LEMMA LoopStep ==
    ASSUME VInv, NInv, NEW c \in Call, NEW n,
           calls' = [calls EXCEPT ![c] = n], ~Waits(n), up, up',
           timer' => timer, neglect' = neglect, Started => Started'
    PROVE  NInv'
PROOF
<1>1. \A d \in Call : calls'[d] = IF d = c THEN n ELSE calls[d]
  BY DEF VInv
<1>2. \A d \in Call : Waits(calls'[d]) => d # c /\ Waits(calls[d])
  BY <1>1
<1>3. \A d \in Call : Waits(calls'[d]) => ~timer' /\ neglect' = "none"
  BY <1>2 DEF NInv
<1>4. \A d, e \in Call : Waits(calls'[d]) /\ Waits(calls'[e]) => d = e
  BY <1>2 DEF NInv
<1> QED BY <1>3, <1>4 DEF NInv, Waits

\* A call in flight keeps the process up.
LEMMA BusyIsUp ==
    ASSUME NInv, NEW c \in Call, calls[c].pc # "idle"
    PROVE  up
PROOF BY DEF NInv

LEMMA LightLoop ==
    ASSUME VInv, TInv, BInv, NInv, NEW c \in Call, NEW n, Light(c, n), up
    PROVE  NInv'
PROOF
<1>1. /\ calls' = [calls EXCEPT ![c] = n] /\ ~Waits(n) /\ up'
      /\ (timer' <=> timer) /\ (Started' <=> Started)
  BY DEF Light, Waits, Started
<1>2. CASE ~Waits(calls[c])
  BY <1>1, <1>2, LoopStep DEF Light, Waits
<1>3. CASE Waits(calls[c])
  <2>1. neglect' = "start" /\ ~timer' /\ Started'
    BY <1>1, <1>3 DEF Light, Waits, NInv, BInv, CallBegins
  <2>2. \A d \in Call : calls'[d] = IF d = c THEN n ELSE calls[d]
    BY <1>1 DEF VInv
  <2>3. \A d \in Call : ~Waits(calls'[d])
    BY <1>1, <1>3, <2>2 DEF NInv
  <2> QED BY <1>1, <2>1, <2>3 DEF NInv, Waits
<1> QED BY <1>2, <1>3

\* A call that has its state may stop the loop and starts none.
LEMMA ContinueLoop ==
    ASSUME VInv, TInv, NInv, NEW c \in Call, calls[c].pc \in Loading,
           NEW s, Known(s), Continue(c, s), up, up', neglect' = neglect,
           room' = room
    PROVE  NInv'
PROOF
<1>1. CallTyped(calls[c])
  BY DEF TInv
<1>2. PICK n : /\ calls' = [calls EXCEPT ![c] = n] /\ ~Waits(n)
               /\ timer' => timer
  <2>1. ~Waits(Idle)
    BY IdleTyped DEF Waits
  <2>2. CASE Ends(c, s)
    <3>1. calls' = [calls EXCEPT ![c] = Idle] /\ (timer' => timer)
      BY <2>2 DEF Ends
    <3> QED BY <2>1, <3>1
  <2>3. CASE Forgets(c, s)
    <3>1. calls' = [calls EXCEPT ![c] = Idle] /\ (timer' => timer)
      BY <2>3 DEF Forgets
    <3> QED BY <2>1, <3>1
  <2>4. CASE Refuses(c, s)
    <3>1. PICK n : Moves(c, n) /\ n.pc = "refuse"
      BY <2>4 DEF Refuses
    <3>2. calls' = [calls EXCEPT ![c] = n] /\ ~Waits(n) /\ (timer' => timer)
      BY <2>4, <3>1 DEF Refuses, Moves, Waits
    <3> QED BY <3>2
  <2>5. ASSUME NEW t, Saves(c, s, t)
        PROVE  \E n : /\ calls' = [calls EXCEPT ![c] = n] /\ ~Waits(n)
                      /\ timer' => timer
    <3>1. PICK n : Moves(c, n) /\ n.pc = "read"
      BY <2>5 DEF Saves
    <3>2. calls' = [calls EXCEPT ![c] = n] /\ ~Waits(n) /\ (timer' => timer)
      BY <2>5, <3>1 DEF Saves, Moves, Waits
    <3> QED BY <3>2
  <2> QED BY <1>1, <2>2, <2>3, <2>4, <2>5, ContinueCases
<1>3. Started => Started'
  BY DEF Started
<1> QED BY <1>2, <1>3, LoopStep

LEMMA LoadLoop ==
    ASSUME VInv, TInv, NInv, NEW c \in Call,
           \/ LoadHot(c) \/ LoadNothing(c) \/ QueryLatest(c) \/ LoadCold(c)
    PROVE  NInv'
PROOF
<1>1. up /\ up' /\ neglect' = neglect /\ room' = room
  BY BusyIsUp DEF LoadHot, LoadNothing, QueryLatest, LoadCold, server, database
<1>2. CASE LoadHot(c)
  <2>1. calls[c].pc \in Loading /\ Known(memory) /\ Continue(c, memory)
    BY <1>2 DEF LoadHot, Loading, TInv
  <2> QED BY <1>1, <2>1, ContinueLoop
<1>3. CASE LoadCold(c)
  <2>1. /\ calls[c].pc \in Loading /\ Known(calls[c].state)
        /\ Continue(c, calls[c].state)
    BY <1>3 DEF LoadCold, Loading, CallTyped, TInv
  <2> QED BY <1>1, <2>1, ContinueLoop
<1>4. ASSUME NEW n, calls' = [calls EXCEPT ![c] = n], ~Waits(n),
             timer' => timer
      PROVE  NInv'
  BY <1>1, <1>4, LoopStep DEF Started
<1>5. CASE LoadNothing(c)
  <2>1. calls' = [calls EXCEPT ![c] = Idle] /\ ~Waits(Idle)
    BY <1>5, IdleTyped DEF LoadNothing, Return, Waits
  <2>2. timer' => timer
    BY <1>5 DEF LoadNothing
  <2> QED BY <1>4, <2>1, <2>2
<1>6. CASE QueryLatest(c)
  <2>1. PICK n : Moves(c, n) /\ n.pc = "loaded"
    BY <1>6, QueryFacts
  <2>2. timer' => timer
    BY <1>6 DEF QueryLatest, server
  <2> QED BY <1>4, <2>1, <2>2 DEF Moves, Waits
<1> QED BY <1>2, <1>3, <1>5, <1>6

LEMMA ReplyLoop ==
    ASSUME VInv, TInv, BInv, NInv, NEW c \in Call,
           ReadRoom(c) \/ Persisted(c) \/ Commit(c) \/ MarkStarting(c)
    PROVE  NInv'
PROOF
<1>1. up /\ up' /\ neglect' = neglect
  BY BusyIsUp DEF ReadRoom, Persisted, Commit, MarkStarting, server
<1>2. timer' => timer
  BY DEF ReadRoom, Persisted, Commit, MarkStarting, server
<1>3. Started => Started'
  BY DEF ReadRoom, Persisted, Commit, MarkStarting, database, Started
<1>4. PICK n : calls' = [calls EXCEPT ![c] = n] /\ ~Waits(n)
  <2>1. CASE ReadRoom(c)
    BY <2>1, ReadFacts DEF Moves, Waits
  <2>2. CASE Persisted(c)
    <3>1. calls[c].pc = "persisted" /\ CallTyped(calls[c])
      BY <2>2 DEF Persisted, TInv
    <3> QED BY <2>2, <3>1, PersistedFacts DEF Waits
  <2>3. CASE Commit(c)
    <3>1. PICK n : Moves(c, n) /\ n.pc = "persisted"
      BY <2>3, GotoFacts DEF Commit
    <3> QED BY <3>1 DEF Moves, Waits
  <2>4. CASE MarkStarting(c)
    BY <2>4, ClaimFacts, IdleTyped DEF Light, Moves, Waits
  <2> QED BY <2>1, <2>2, <2>3, <2>4
<1> QED BY <1>1, <1>2, <1>3, <1>4, LoopStep

\* The call that stores the first state is the only one to wait for its reply,
\* and starts the loop when it comes.
LEMMA StartLoop ==
    ASSUME VInv, TInv, BInv, NInv, NEW c \in Call,
           PersistStart(c) \/ StartRoom(c)
    PROVE  NInv'
PROOF
<1>1. up /\ up' /\ neglect' = neglect
  BY BusyIsUp DEF PersistStart, StartRoom, server
<1>2. CASE PersistStart(c)
  <2>1. ~Started
    BY <1>2 DEF PersistStart, BInv, CallBegins, Started
  <2>2. ~timer /\ neglect = "none" /\ \A d \in Call : ~Waits(calls[d])
    BY <2>1 DEF NInv, BInv, CallBegins, Waits
  <2>3. PICK n : Moves(c, n)
    BY <1>2, GotoFacts DEF PersistStart
  <2>4. \A d \in Call : d # c => calls'[d] = calls[d]
    BY <2>3 DEF VInv, Moves
  <2>5. ~timer'
    BY <1>2, <2>2 DEF PersistStart, server
  <2> QED BY <1>1, <2>2, <2>4, <2>5 DEF NInv
<1>3. CASE StartRoom(c)
  <2>1. Waits(calls[c]) /\ calls' = [calls EXCEPT ![c] = Idle]
    BY <1>3 DEF StartRoom, Return, Waits
  <2>2. neglect = "none" /\ Started /\ room' = room
    BY <1>3, <2>1 DEF NInv, BInv, CallBegins, Waits, StartRoom, database
  <2>3. \A d \in Call : calls'[d] = IF d = c THEN Idle ELSE calls[d]
    BY <2>1 DEF VInv
  <2>4. ~Waits(Idle)
    BY IdleTyped DEF Waits
  <2>5. \A d \in Call : ~Waits(calls'[d])
    BY <2>1, <2>3, <2>4 DEF NInv
  <2> QED BY <1>1, <2>2, <2>5 DEF NInv, Started, Waits
<1> QED BY <1>2, <1>3

\* A recovery that fails leaves the process as the crash left it.
LEMMA ProcessLoop ==
    ASSUME TInv, NInv, Crash \/ Recover \/ RecoverNothing \/ UNCHANGED vars
    PROVE  NInv'
PROOF
<1>1. CASE Crash
  <2>1. /\ ~up' /\ ~timer' /\ neglect' = "none"
        /\ \A c \in Call : calls'[c].pc = "idle"
    BY <1>1, IdleTyped DEF Crash
  <2> QED BY <2>1 DEF NInv, Waits
<1>2. CASE Recover \/ RecoverNothing
  <2>1. /\ \A c \in Call : calls'[c].pc = "idle"
        /\ ~timer /\ neglect = "none" /\ up' /\ room' = room
    BY <1>2 DEF Recover, RecoverNothing, NInv, database
  <2>2. CASE Recover
    <3>1. neglect' = "none" /\ (timer' => room'.status = "IN_PROGRESS")
      BY <2>1, <2>2 DEF Recover
    <3> QED BY <2>1, <3>1 DEF NInv, Waits, Started
  <2>3. CASE RecoverNothing
    <3>1. ~timer' /\ (neglect' # "none" => room'.status = "IN_PROGRESS")
      BY <2>1, <2>3 DEF RecoverNothing
    <3> QED BY <2>1, <3>1 DEF NInv, Waits, Started
  <2> QED BY <1>2, <2>2, <2>3
<1>3. CASE UNCHANGED vars
  <2>1. /\ (up' <=> up) /\ (timer' <=> timer)
        /\ neglect' = neglect /\ room' = room /\ calls' = calls
    BY <1>3 DEF vars, server, database
  <2> QED BY <2>1 DEF NInv, Waits, Started
<1> QED BY <1>1, <1>2, <1>3

LEMMA InitLoop == ASSUME Init PROVE NInv
PROOF
<1>1. \A c \in Call : ~Waits(calls[c])
  BY IdleTyped DEF Init, Waits
<1>2. up /\ neglect = "none" /\ (timer => Started)
  BY DEF Init, Started
<1> QED BY <1>1, <1>2 DEF NInv

LEMMA NextLoop ==
    ASSUME VInv, TInv, BInv, NInv, [Next]_vars
    PROVE  NInv'
PROOF
<1>1. ASSUME NEW c \in Call,
             \/ \E id \in ActionId : Submit(c, id)
             \/ \E kind \in Kinds, p \in DOMAIN Rows : PlayerCall(c, kind, p)
             \/ Tick(c) \/ Start(c)
      PROVE  NInv'
  <2>1. up
    BY <1>1 DEF Submit, PlayerCall, Tick, Start, Arrive
  <2> QED BY <1>1, <2>1, ArrivalsAreLight, LightLoop
<1>2. ASSUME NEW c \in Call,
             \/ Reserve(c) \/ Lookup(c) \/ AskDatabase(c)
             \/ Mark(c) \/ Refuse(c) \/ Fail(c)
      PROVE  NInv'
  <2>1. up
    BY <1>2, BusyIsUp
       DEF Reserve, Lookup, AskDatabase, Mark, Refuse, Settle, Fail
  <2> QED BY <1>2, <2>1, StepsAreLight, LightLoop
<1>3. ASSUME NEW c \in Call, Step(c) \/ Fail(c)
      PROVE  NInv'
  BY <1>2, <1>3, LoadLoop, ReplyLoop, StartLoop DEF Step
<1> QED BY <1>1, <1>3, ProcessLoop DEF Next

-------------------------------------------------------------------------------
(***************************************************************************)
(* The tick loop of a game in progress, until somebody has won: a reply    *)
(* that is lost after the last transaction, or a late one of an earlier    *)
(* transaction, leaves a finished game to others (GameHistoryProofs).      *)
(***************************************************************************)
StateFields == {"phase", "round", "turn", "version", "current", "winner",
                "processed", "players"}

NoStateIsNone == DOMAIN NoState # StateFields

NobodyHasWon == memory # NoState => memory.phase # "FINISHED"

(***************************************************************************)
(* The inductive invariant: the loop runs, or the call that stored the     *)
(* first state is on its way to start it, or the request failed that       *)
(* should have.                                                            *)
(***************************************************************************)
Ticking == timer \/ neglect # "none" \/ \E c \in Call : Waits(calls[c])

CallPlays(k) ==
    k.pc \in {"loaded", "read", "commit", "persisted"} =>
        k.state.phase # "FINISHED"

KInv ==
    /\ timer => memory # NoState
    /\ room.status # "FINISHED"
    /\ \A v \in DOMAIN snapshots : snapshots[v].phase # "FINISHED"
    /\ room.status = "IN_PROGRESS" /\ up => Ticking
    /\ \A c \in Call : CallPlays(calls[c])

LEMMA KnownIsState ==
    ASSUME NoStateIsNone, NEW s, Known(s)
    PROVE  s # NoState
PROOF
<1>1. \A P : LobbyState \in GameState(P) => DOMAIN LobbyState = StateFields
  BY DEF GameState, StateFields
<1>2. \A P : s \in GameState(P) => DOMAIN s = StateFields
  BY DEF GameState, StateFields
<1> QED BY <1>2, LobbyFacts DEF Known, Begun, NoStateIsNone

\* One call moves on while the timer is kept.
LEMMA TickingStep ==
    ASSUME VInv, KInv, NEW c \in Call, NEW n,
           calls' = [calls EXCEPT ![c] = n],
           UNCHANGED <<up, room, snapshots>>, neglect' = neglect,
           calls[c].pc # "started", CallPlays(n),
           timer' <=> timer, timer' => memory' # NoState
    PROVE  KInv'
PROOF
<1>1. \A d \in Call : calls'[d] = IF d = c THEN n ELSE calls[d]
  BY DEF VInv
<1>2. room' = room /\ snapshots' = snapshots /\ (up' <=> up)
  OBVIOUS
<1>3. \A d \in Call : CallPlays(calls'[d])
  BY <1>1 DEF KInv
<1>4. (\E d \in Call : Waits(calls[d])) => \E d \in Call : Waits(calls'[d])
  BY <1>1 DEF Waits
<1>6. Ticking => Ticking'
  BY <1>4 DEF Ticking
<1> QED BY <1>2, <1>3, <1>6 DEF KInv

LEMMA LightTicks ==
    ASSUME VInv, KInv, NEW c \in Call, NEW n, Light(c, n)
    PROVE  KInv'
PROOF
<1>1. /\ calls' = [calls EXCEPT ![c] = n]
      /\ memory' = memory /\ room' = room /\ snapshots' = snapshots
      /\ (up' <=> up) /\ (timer' <=> timer)
  BY DEF Light
<1>2. \A d \in Call : calls'[d] = IF d = c THEN n ELSE calls[d]
  BY <1>1 DEF VInv
<1>3. CallPlays(n)
  BY DEF Light, CallPlays
<1>4. \A d \in Call : CallPlays(calls'[d])
  BY <1>2, <1>3 DEF KInv
<1>5. neglect' = IF Waits(calls[c]) THEN "start" ELSE neglect
  BY DEF Light, Waits
<1>6. neglect # "none" \/ Waits(calls[c]) => neglect' # "none"
  BY <1>5
<1>7. (\E d \in Call : Waits(calls[d])) =>
          neglect' # "none" \/ \E d \in Call : Waits(calls'[d])
  BY <1>2, <1>6
<1>8. Ticking => Ticking'
  BY <1>1, <1>6, <1>7 DEF Ticking
<1> QED BY <1>1, <1>4, <1>8 DEF KInv

LEMMA ContinueTicks ==
    ASSUME VInv, TInv, KInv, NoStateIsNone, NobodyHasWon', NEW c \in Call,
           calls[c].pc \in Loading, NEW s, Known(s), s.phase # "FINISHED",
           Continue(c, s), UNCHANGED <<up, neglect, database>>
    PROVE  KInv'
PROOF
<1> DEFINE k == calls[c]
<1>1. CallTyped(k) /\ k.pc # "started"
  BY DEF TInv, Loading
<1>2. UNCHANGED <<up, room, snapshots>> /\ neglect' = neglect
  BY DEF database
<1>3. s # NoState
  BY KnownIsState
<1>4. CASE Ends(c, s)
  <2>1. CallPlays(Idle)
    BY IdleTyped DEF CallPlays
  <2>2. /\ timer' <=> timer
        /\ memory' # NoState /\ calls' = [calls EXCEPT ![c] = Idle]
    BY <1>3, <1>4 DEF Ends
  <2> QED BY <1>1, <1>2, <2>1, <2>2, TickingStep
<1>5. CASE Refuses(c, s)
  <2>1. PICK n : Moves(c, n) /\ n.pc = "refuse"
    BY <1>5 DEF Refuses
  <2>2. CallPlays(n) /\ calls' = [calls EXCEPT ![c] = n]
    BY <2>1 DEF CallPlays, Moves
  <2>3. (timer' <=> timer) /\ memory' # NoState
    BY <1>3, <1>5 DEF Refuses
  <2> QED BY <1>1, <1>2, <2>2, <2>3, TickingStep
<1>6. ~Forgets(c, s)
  BY DEF Forgets
<1>7. ASSUME NEW t, Saves(c, s, t)
      PROVE  KInv'
  <2>1. PICK n : Moves(c, n) /\ n.pc = "read" /\ n.state = t
    BY <1>7 DEF Saves
  <2>2. Known(t) /\ t # NoState
    BY <1>7, KnownIsState DEF Saves, NextOf, SameLobby, Known
  <2>3. (timer' <=> timer) /\ memory' = t
    BY <1>7 DEF Saves
  <2>4. CallPlays(n) /\ calls' = [calls EXCEPT ![c] = n]
    BY <2>1, <2>2, <2>3 DEF CallPlays, Moves, NobodyHasWon
  <2> QED BY <1>1, <1>2, <2>2, <2>3, <2>4, TickingStep
<1> QED BY <1>1, <1>4, <1>5, <1>6, <1>7, ContinueCases

LEMMA LoadTicks ==
    ASSUME VInv, TInv, KInv, NoStateIsNone, NobodyHasWon, NobodyHasWon',
           NEW c \in Call,
           \/ LoadHot(c) \/ LoadNothing(c) \/ QueryLatest(c) \/ LoadCold(c)
    PROVE  KInv'
PROOF
<1> DEFINE k == calls[c]
<1>1. CallTyped(k) /\ CallPlays(k)
  BY DEF TInv, KInv
<1>2. CASE LoadHot(c)
  <2>1. /\ k.pc \in Loading /\ Known(memory) /\ Continue(c, memory)
        /\ memory.phase # "FINISHED" /\ UNCHANGED <<up, neglect, database>>
    BY <1>2 DEF LoadHot, Loading, TInv, NobodyHasWon
  <2> QED BY <2>1, ContinueTicks
<1>3. CASE LoadCold(c)
  <2>1. /\ k.pc \in Loading /\ Known(k.state) /\ Continue(c, k.state)
        /\ k.state.phase # "FINISHED" /\ UNCHANGED <<up, neglect, database>>
    BY <1>1, <1>3 DEF LoadCold, Loading, CallTyped, CallPlays
  <2> QED BY <2>1, ContinueTicks
<1>4. CASE LoadNothing(c)
  <2>1. /\ k.pc = "load" /\ calls' = [calls EXCEPT ![c] = Idle]
        /\ UNCHANGED <<up, room, snapshots>> /\ neglect' = neglect
    BY <1>4 DEF LoadNothing, Return, database
  <2>2. ~timer
    BY <1>4 DEF KInv, LoadNothing
  <2>3. ~timer'
    BY <1>4, <2>2 DEF LoadNothing
  <2>4. CallPlays(Idle)
    BY IdleTyped DEF CallPlays
  <2> QED BY <2>1, <2>2, <2>3, <2>4, TickingStep
<1>5. CASE QueryLatest(c)
  <2>1. PICK n : Moves(c, n) /\ n.pc = "loaded" /\ n.state = Latest
    BY <1>5, QueryFacts
  <2>2. Latest.phase # "FINISHED"
    BY LatestFacts DEF KInv, Latest
  <2>3. CallPlays(n) /\ calls' = [calls EXCEPT ![c] = n]
    BY <2>1, <2>2 DEF CallPlays, Moves
  <2>4. /\ k.pc # "started" /\ memory' = memory /\ (timer' <=> timer)
        /\ UNCHANGED <<up, room, snapshots>> /\ neglect' = neglect
    BY <1>5 DEF QueryLatest, server, database
  <2>5. timer' => memory' # NoState
    BY <2>4 DEF KInv
  <2> QED BY <2>3, <2>4, <2>5, TickingStep
<1> QED BY <1>2, <1>3, <1>4, <1>5

LEMMA ReplyTicks ==
    ASSUME VInv, TInv, BInv, KInv, NoStateIsNone, NEW c \in Call,
           ReadRoom(c) \/ Persisted(c) \/ StartRoom(c)
    PROVE  KInv'
PROOF
<1> DEFINE k == calls[c]
<1>1. CallTyped(k) /\ CallPlays(k)
  BY DEF TInv, KInv
<1>2. UNCHANGED <<up, room, snapshots>> /\ neglect' = neglect
  BY DEF ReadRoom, Persisted, StartRoom, server, database
<1>3. CASE ReadRoom(c)
  <2>1. PICK n : Moves(c, n) /\ n.pc = "commit" /\ n.state = k.state
    BY <1>3, ReadFacts
  <2>2. CallPlays(n) /\ k.pc # "started" /\ calls' = [calls EXCEPT ![c] = n]
    BY <1>1, <1>3, <2>1 DEF ReadRoom, CallPlays, Moves
  <2>3. memory' = memory /\ (timer' <=> timer)
    BY <1>3 DEF ReadRoom, server
  <2>4. timer' => memory' # NoState
    BY <2>3 DEF KInv
  <2> QED BY <1>2, <2>2, <2>3, <2>4, TickingStep
<1>4. CASE Persisted(c)
  <2>1. PICK n : /\ calls' = [calls EXCEPT ![c] = n]
                 /\ n.pc \in {"idle", "load", "mark"}
    BY <1>1, <1>4, PersistedFacts DEF Persisted
  <2>2. CallPlays(n) /\ k.pc # "started" /\ k.state.phase # "FINISHED"
    BY <1>1, <1>4, <2>1 DEF CallPlays, Persisted
  <2>3. memory' = memory /\ (timer' <=> timer)
    BY <1>4, <2>2 DEF Persisted
  <2>4. timer' => memory' # NoState
    BY <2>3 DEF KInv
  <2> QED BY <1>2, <2>1, <2>2, <2>3, <2>4, TickingStep
<1>5. CASE StartRoom(c)
  <2>1. memory' = FirstState /\ timer' /\ calls' = [calls EXCEPT ![c] = Idle]
    BY <1>5 DEF StartRoom, Return
  <2>2. memory' # NoState
    BY <2>1, FirstFacts, KnownIsState
  <2>3. CallPlays(Idle)
    BY IdleTyped DEF CallPlays
  <2>4. \A d \in Call : CallPlays(calls'[d])
    BY <2>1, <2>3 DEF VInv, KInv
  <2>5. Ticking'
    BY <2>1 DEF Ticking
  <2>6. room' = room /\ snapshots' = snapshots
    BY <1>2
  <2> QED BY <2>2, <2>4, <2>5, <2>6 DEF KInv
<1> QED BY <1>3, <1>4, <1>5

LEMMA StoreKeeps ==
    ASSUME TInv, NEW s, Known(s), Store(s), NEW v \in DOMAIN snapshots'
    PROVE  \/ v = s.version /\ snapshots'[v] = s
           \/ /\ v # s.version
              /\ v \in DOMAIN snapshots
              /\ snapshots'[v] = snapshots[v]
PROOF
<1>0. /\ DOMAIN snapshots' = DOMAIN snapshots \cup {s.version}
      /\ snapshots'[s.version] = s
      /\ \A w \in DOMAIN snapshots :
            w # s.version => snapshots'[w] = snapshots[w]
  BY StoreFacts
<1>1. CASE v = s.version
  BY <1>1, <1>0
<1>2. CASE v # s.version
  <2>1. v \in DOMAIN snapshots
    BY <1>2, <1>0
  <2> QED BY <1>2, <1>0, <2>1
<1> QED BY <1>1, <1>2

LEMMA TransactionTicks ==
    ASSUME VInv, TInv, BInv, KInv, NEW c \in Call,
           Commit(c) \/ PersistStart(c) \/ MarkStarting(c)
    PROVE  KInv'
PROOF
<1> DEFINE k == calls[c]
<1>1. CASE Commit(c)
  <2>1. /\ Known(k.state) /\ k.state.phase # "FINISHED" /\ Store(k.state)
        /\ Started
    BY <1>1 DEF TInv, BInv, KInv, CallTyped, CallBegins, CallPlays, Commit
  <2>2. PICK n : Moves(c, n) /\ n.pc = "persisted" /\ n.state = k.state
    BY <1>1, GotoFacts DEF Commit
  <2>3. \A d \in Call : calls'[d] = IF d = c THEN n ELSE calls[d]
    BY <2>2 DEF VInv, Moves
  <2>4. \A d \in Call : CallPlays(calls'[d])
    BY <2>1, <2>2, <2>3 DEF KInv, CallPlays
  <2>5. \A v \in DOMAIN snapshots' : snapshots'[v].phase # "FINISHED"
    BY <2>1, StoreKeeps DEF KInv
  <2>6. /\ room'.status = "IN_PROGRESS" /\ room.status = "IN_PROGRESS"
        /\ neglect' = neglect /\ memory' = memory
        /\ (up' <=> up) /\ (timer' <=> timer)
    BY <1>1, <2>1 DEF Commit, Started, KInv, server
  <2>7. (\E d \in Call : Waits(calls[d])) =>
            \E d \in Call : Waits(calls'[d])
    BY <1>1, <2>3 DEF Commit, Waits
  <2>9. Ticking => Ticking'
    BY <2>6, <2>7 DEF Ticking
  <2> QED BY <2>4, <2>5, <2>6, <2>9 DEF KInv
<1>2. CASE PersistStart(c)
  <2>1. PICK n : Moves(c, n) /\ n.pc = "started"
    BY <1>2, GotoFacts DEF PersistStart
  <2>2. \A d \in Call : calls'[d] = IF d = c THEN n ELSE calls[d]
    BY <2>1 DEF VInv, Moves
  <2>3. Ticking'
    BY <2>1, <2>2 DEF Ticking, Waits
  <2>4. \A d \in Call : CallPlays(calls'[d])
    BY <2>1, <2>2 DEF KInv, CallPlays
  <2>5. \A v \in DOMAIN snapshots' : snapshots'[v].phase # "FINISHED"
    <3>1. Store(FirstState) /\ Known(FirstState)
          /\ FirstState.phase # "FINISHED"
      BY <1>2, FirstFacts DEF PersistStart
    <3> QED BY <3>1, StoreKeeps DEF KInv
  <2>6. /\ room'.status = "IN_PROGRESS" /\ memory' = memory
        /\ (timer' <=> timer)
    BY <1>2 DEF PersistStart, server
  <2> QED BY <2>3, <2>4, <2>5, <2>6 DEF KInv
<1>3. CASE MarkStarting(c) /\ Light(c, Idle)
  BY <1>3, LightTicks
<1>4. CASE MarkStarting(c) /\ ~Light(c, Idle)
  <2>1. PICK n : Moves(c, n) /\ n.pc = "countdown"
    BY <1>4, ClaimFacts
  <2>2. /\ room'.status = "STARTING" /\ memory' = memory
        /\ (timer' <=> timer) /\ snapshots' = snapshots
    BY <1>4, ClaimFacts
  <2>3. \A d \in Call : CallPlays(calls'[d])
    BY <2>1 DEF VInv, Moves, KInv, CallPlays
  <2> QED BY <2>2, <2>3 DEF KInv
<1> QED BY <1>1, <1>2, <1>3, <1>4

LEMMA ProcessTicks ==
    ASSUME TInv, NInv, KInv, NoStateIsNone,
           Crash \/ Recover \/ RecoverNothing \/ UNCHANGED vars
    PROVE  KInv'
PROOF
<1>1. room' = room /\ snapshots' = snapshots
  BY DEF Crash, Recover, RecoverNothing, vars, database
<1>2. \A d \in Call : calls'[d] \in {calls[d], Idle}
  BY DEF Crash, Recover, RecoverNothing, vars
<1>3. \A d \in Call : CallPlays(calls'[d])
  BY <1>2, IdleTyped DEF KInv, CallPlays
<1>4. timer' => memory' # NoState
  <2>1. CASE Recover
    BY <2>1, LatestFacts, KnownIsState DEF Recover, Recoverable
  <2>2. CASE Crash
    BY <2>2 DEF Crash
  <2>3. CASE RecoverNothing \/ UNCHANGED vars
    <3>1. (timer' <=> timer) /\ memory' = memory
      BY <2>3 DEF RecoverNothing, vars, server
    <3> QED BY <3>1 DEF KInv
  <2> QED BY <2>1, <2>2, <2>3
<1>5. room'.status = "IN_PROGRESS" /\ up' => Ticking'
  <2>1. CASE Crash
    BY <2>1 DEF Crash
  <2>2. CASE Recover
    BY <1>1, <2>2 DEF Recover, Ticking
  <2>3. CASE RecoverNothing
    <3>1. room'.status = "IN_PROGRESS" => neglect' = "recovery"
      BY <1>1, <2>3 DEF RecoverNothing
    <3> QED BY <3>1 DEF Ticking
  <2>4. CASE UNCHANGED vars
    <3>1. /\ calls' = calls /\ (timer' <=> timer) /\ (up' <=> up)
          /\ neglect' = neglect
      BY <2>4 DEF vars, server
    <3> QED BY <1>1, <3>1 DEF KInv, Ticking
  <2> QED BY <2>1, <2>2, <2>3, <2>4
<1> QED BY <1>1, <1>3, <1>4, <1>5 DEF KInv

LEMMA InitTicks == ASSUME Init, NoStateIsNone PROVE KInv
PROOF
<1>1. \A c \in Call : CallPlays(calls[c])
  BY IdleTyped DEF Init, CallPlays
<1>2. room.status \in {"WAITING", "IN_PROGRESS"}
      /\ (room.status = "IN_PROGRESS" => ~FromLobby)
  BY DEF Init
<1>3. ~FromLobby => timer
  BY DEF Init
<1>4. timer => memory # NoState
  BY FirstFacts, KnownIsState DEF Init
<1>5. \A v \in DOMAIN snapshots : snapshots[v].phase # "FINISHED"
  BY LobbyFacts, FirstFacts DEF Init
<1> QED BY <1>1, <1>2, <1>3, <1>4, <1>5 DEF KInv, Ticking

LEMMA NextTicks ==
    ASSUME VInv, TInv, BInv, NInv, KInv, NoStateIsNone,
           NobodyHasWon, NobodyHasWon', [Next]_vars
    PROVE  KInv'
PROOF
<1>1. ASSUME NEW c \in Call,
             \/ \E id \in ActionId : Submit(c, id)
             \/ \E kind \in Kinds, p \in DOMAIN Rows : PlayerCall(c, kind, p)
             \/ Tick(c) \/ Start(c)
      PROVE  KInv'
  BY <1>1, ArrivalsAreLight, LightTicks
<1>2. ASSUME NEW c \in Call,
             \/ Reserve(c) \/ Lookup(c) \/ AskDatabase(c)
             \/ Mark(c) \/ Refuse(c) \/ Fail(c)
      PROVE  KInv'
  BY <1>2, StepsAreLight, LightTicks
<1>3. ASSUME NEW c \in Call, Step(c) \/ Fail(c)
      PROVE  KInv'
  BY <1>2, <1>3, LoadTicks, ReplyTicks, TransactionTicks DEF Step
<1> QED BY <1>1, <1>3, ProcessTicks DEF Next

\* A game in progress has its tick loop once nothing is in flight, if the process
\* recovered its rooms and the game's start did not fail in it; if one of them
\* failed (neglect) it has none, and no call starts one.  This is so with any
\* number of calls, crashes and failures, for as long as nobody has won:
\* recoverActiveRooms and its catch in server.ts, startRoom, and the paths of the
\* calls that stop a timer.
THEOREM LoopRuns ==
    ASSUME NoLobbyCalls, NoStateIsNone
    PROVE  Spec /\ []NobodyHasWon => []InProgressTicks
PROOF
<1>1. Init => VInv /\ TInv /\ BInv /\ NInv /\ KInv
  BY InitVerdicts, InitTyped, InitBegun, InitLoop, InitTicks
<1>2. /\ VInv /\ TInv /\ BInv /\ NInv /\ KInv /\ [Next]_vars
      /\ NobodyHasWon /\ NobodyHasWon'
      => (VInv /\ TInv /\ BInv /\ NInv /\ KInv)'
  BY NextVerdicts, NextTyped, NextBegun, NextLoop, NextTicks
<1>3. NInv /\ KInv => InProgressTicks
  <2> SUFFICES ASSUME NInv, KInv, Quiet, room.status = "IN_PROGRESS"
               PROVE  IF neglect = "none" THEN timer /\ memory # NoState
                      ELSE ~timer
    BY DEF InProgressTicks
  <2>1. ~ \E c \in Call : Waits(calls[c])
    BY IdleTyped DEF Quiet, Waits
  <2>2. Ticking /\ (timer => memory # NoState)
    BY DEF KInv, Quiet
  <2>3. neglect # "none" => ~timer
    BY DEF NInv
  <2> QED BY <2>1, <2>2, <2>3 DEF Ticking
<1> QED BY <1>1, <1>2, <1>3, PTL DEF Spec

===============================================================================
