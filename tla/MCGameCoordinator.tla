-------------------------- MODULE MCGameCoordinator --------------------------
(* GameCoordinator for a duel: what the clients send and the rows they have. *)
EXTENDS GameCoordinator, TLC

CONSTANTS p1, p2, a1, a2, b1

Ask(p, seq, type, target) ==
    [playerId |-> p, seq |-> seq, type |-> type, target |-> target,
     power |-> 1]

\* p1 attacks or passes, with one sequence number for both; p2 defends.  At 18
\* health the attack kills, at 100 nobody dies.
MCRequest ==
    [id \in ActionId |->
        CASE id = a1 -> Ask(p1, 1, "ATTACK", p2)
          [] id = a2 -> Ask(p1, 1, "PASS", NoPlayer)
          [] id = b1 -> Ask(p2, 1, "DEFEND", NoPlayer)]

MCRow(seat) == [seatNumber |-> seat, health |-> MAX_HEALTH, energy |-> 0,
                connected |-> TRUE, lastProcessedSeq |-> 0]

MCRows == (p1 :> MCRow(1)) @@ (p2 :> MCRow(2))

CallSymmetry == Permutations(Call)
==============================================================================
