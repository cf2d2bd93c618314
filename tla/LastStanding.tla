----------------------------- MODULE LastStanding -----------------------------
(***************************************************************************)
(* What a battle promises, whatever its moves do: players fall one at a    *)
(* time until one is left, and the turn goes round the seats of those who  *)
(* stand.  BattleGame is shown to implement it.                            *)
(***************************************************************************)
EXTENDS Naturals

CONSTANTS Player, NoPlayer

VARIABLES
    seat,    \* the seats of the players of the game
    alive,   \* those who still stand
    holder,  \* whose turn it is, while the game goes on
    winner   \* afterwards

vars == <<seat, alive, holder, winner>>

Several(S) == \E p, q \in S : p # q

Lowest(p, S) == p \in S /\ \A q \in S : seat[p] <= seat[q]

\* p is the next of S round the seats from the holder.
IsNext(p, S) ==
    LET rest == {q \in S : seat[q] > seat[holder]}
    IN  Lowest(p, IF rest = {} THEN S ELSE rest)

Init ==
    /\ DOMAIN seat \subseteq Player /\ Several(DOMAIN seat)
    /\ seat \in [DOMAIN seat -> Nat]
    /\ \A p, q \in DOMAIN seat : seat[p] = seat[q] => p = q
    /\ alive = DOMAIN seat
    /\ Lowest(holder, alive)
    /\ winner = NoPlayer

\* A turn ends and nobody falls.
Pass ==
    /\ holder # NoPlayer
    /\ IsNext(holder', alive)
    /\ UNCHANGED <<seat, alive, winner>>

\* p falls: struck by the holder, whose turn ends with it, or by leaving.
Fall(p) ==
    /\ holder # NoPlayer
    /\ alive' = alive \ {p}
    /\ Several(alive')
    /\ \/ p # holder /\ holder' = holder
       \/ IsNext(holder', alive')
    /\ UNCHANGED <<seat, winner>>

\* p falls and leaves one.
LastFall(p) ==
    /\ holder # NoPlayer
    /\ alive' = alive \ {p}
    /\ alive' = {winner'}
    /\ holder' = NoPlayer
    /\ UNCHANGED seat

Next == Pass \/ \E p \in alive : Fall(p) \/ LastFall(p)

Spec == Init /\ [][Next]_vars

-------------------------------------------------------------------------------
\* Somebody who stands has the turn until there is a winner, the only one left
\* standing: there is no draw, and no turn that belongs to nobody.
OneIsLeft ==
    IF holder = NoPlayer THEN alive = {winner}
    ELSE holder \in alive /\ Several(alive)
===============================================================================
