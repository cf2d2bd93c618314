--------------------------- MODULE ActionLedgerProofs ---------------------------
(* The promises of ActionLedger hold for every set of actions.               *)
EXTENDS ActionLedger, TLAPS

IInv == TypeOK /\ Truthful

LEMMA LedgerInit == Init => IInv
PROOF BY DEF Init, IInv, TypeOK, Truthful, Status

\* Each action of the ledger keeps the invariant.
LEMMA LedgerStep ==
    ASSUME IInv, [Next]_vars
    PROVE  IInv'
PROOF
<1> USE DEF IInv, TypeOK, Truthful, Status
<1>1. ASSUME NEW id \in ActionId, Receive(id) PROVE IInv'
  BY <1>1 DEF Receive
<1>2. ASSUME NEW ids \in SUBSET ActionId, TakeEffect(ids) PROVE IInv'
  BY <1>2 DEF TakeEffect
<1>3. ASSUME NEW id \in ActionId, Acknowledge(id) PROVE IInv'
  BY <1>3 DEF Acknowledge
<1>4. ASSUME NEW id \in ActionId, Refuse(id) PROVE IInv'
  BY <1>4 DEF Refuse
<1>5. CASE UNCHANGED vars
  BY <1>5 DEF vars
<1> QED BY <1>1, <1>2, <1>3, <1>4, <1>5 DEF Next

\* No action takes back an effect or an answer.
LEMMA LedgerSettles ==
    ASSUME IInv, [Next]_vars
    PROVE  [Settled]_vars
PROOF
<1> USE DEF Settled
<1>1. ASSUME NEW id \in ActionId, Receive(id) PROVE Settled
  BY <1>1 DEF Receive, IInv, TypeOK
<1>2. ASSUME NEW ids \in SUBSET ActionId, TakeEffect(ids) PROVE Settled
  BY <1>2 DEF TakeEffect
<1>3. ASSUME NEW id \in ActionId, Acknowledge(id) PROVE Settled
  BY <1>3 DEF Acknowledge, IInv, TypeOK
<1>4. ASSUME NEW id \in ActionId, Refuse(id) PROVE Settled
  BY <1>4 DEF Refuse, IInv, TypeOK
<1> QED BY <1>1, <1>2, <1>3, <1>4 DEF Next

LEMMA LedgerInvariant == Spec => []IInv
PROOF BY LedgerInit, LedgerStep, PTL DEF Spec

\* The ledger never says what is not so: APPLIED only of an action whose
\* effect is durable, REJECTED only of one without.
THEOREM LedgerTellsTruth == Spec => []Truthful
PROOF
<1>1. IInv => Truthful
  BY DEF IInv
<1> QED BY <1>1, LedgerInvariant, PTL

\* An effect that is durable and an answer that was given stay.
THEOREM LedgerIsFinal == Spec => SettledForGood
PROOF BY LedgerInvariant, LedgerSettles, PTL DEF SettledForGood, Spec
================================================================================
