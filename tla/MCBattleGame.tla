----------------------------- MODULE MCBattleGame -----------------------------
(* BattleGame on small rooms: duels long enough to pay for every action, and *)
(* games of three with connections and departures.                         *)
EXTENDS BattleGame, TLC

CONSTANTS p1, p2, p3

\* Players are interchangeable, so one seating of each size stands for all that
\* order them.  Seats may have gaps: players left the lobby before the start.
MCSeatings == {(p1 :> 1) @@ (p2 :> 3), (p1 :> 1) @@ (p2 :> 2) @@ (p3 :> 4)}

MCMaxTurn == (2 :> 10) @@ (3 :> 5)

MCMaxVersion == (2 :> 2) @@ (3 :> 3)
===============================================================================
