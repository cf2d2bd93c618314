------------------------------ MODULE ActionLedger ------------------------------
(***************************************************************************)
(* What the action log promises to a client that sends an action: it is    *)
(* received once; it takes effect at most once, and for good; it is        *)
(* acknowledged only after its effect is durable and refused only if it    *)
(* never has one; and the answer does not change.  Between the effect and  *)
(* the acknowledgement the ledger may stay behind for ever (a crash), but  *)
(* it never says what is not so.                                           *)
(***************************************************************************)
CONSTANT ActionId

VARIABLES
    status,    \* NONE, RECEIVED, APPLIED or REJECTED, for each action
    effective  \* the actions whose effect is in the durable game

vars == <<status, effective>>

Status == {"NONE", "RECEIVED", "APPLIED", "REJECTED"}

TypeOK ==
    /\ status \in [ActionId -> Status]
    /\ effective \subseteq ActionId

Init ==
    /\ status = [id \in ActionId |-> "NONE"]
    /\ effective = {}

Receive(id) ==
    /\ status[id] = "NONE"
    /\ status' = [status EXCEPT ![id] = "RECEIVED"]
    /\ UNCHANGED effective

\* One snapshot may make the effects of several actions durable.
TakeEffect(ids) ==
    /\ \A id \in ids : status[id] = "RECEIVED"
    /\ effective' = effective \cup ids
    /\ UNCHANGED status

Acknowledge(id) ==
    /\ status[id] = "RECEIVED" /\ id \in effective
    /\ status' = [status EXCEPT ![id] = "APPLIED"]
    /\ UNCHANGED effective

Refuse(id) ==
    /\ status[id] = "RECEIVED" /\ id \notin effective
    /\ status' = [status EXCEPT ![id] = "REJECTED"]
    /\ UNCHANGED effective

Next ==
    \/ \E id \in ActionId : Receive(id) \/ Acknowledge(id) \/ Refuse(id)
    \/ \E ids \in SUBSET ActionId : TakeEffect(ids)

Spec == Init /\ [][Next]_vars

\* The ledger tells the truth: what it calls applied is in the durable game,
\* what it calls rejected is not, and nothing acts before it is received.
Truthful ==
    \A id \in ActionId :
        /\ status[id] = "APPLIED" => id \in effective
        /\ status[id] \in {"NONE", "REJECTED"} => id \notin effective

\* An effect and an answer are for good.
Settled ==
    /\ effective \subseteq effective'
    /\ \A id \in ActionId :
          status[id] \in {"APPLIED", "REJECTED"} => status'[id] = status[id]

SettledForGood == [][Settled]_vars
================================================================================
