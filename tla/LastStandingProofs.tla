-------------------------- MODULE LastStandingProofs --------------------------
(* The contract of a battle has a winner, and only one.                      *)
EXTENDS LastStanding, TLAPS

Inv == OneIsLeft /\ alive \subseteq Player /\ holder \in Player \cup {NoPlayer}

\* In every game that follows the contract one player is left when it ends, and
\* is the winner; until then one who stands has the turn.
THEOREM OneWins == ASSUME NoPlayer \notin Player PROVE Spec => []OneIsLeft
PROOF
<1>1. Init => Inv
  BY DEF Init, Inv, OneIsLeft, Lowest
<1>2. ASSUME Inv, [Next]_vars
      PROVE  Inv'
  <2>1. CASE Pass
    <3>1. holder' \in alive
      BY <2>1 DEF Pass, IsNext, Lowest
    <3> QED BY <1>2, <2>1, <3>1 DEF Pass, Inv, OneIsLeft
  <2>2. ASSUME NEW p \in alive, Fall(p)
        PROVE  Inv'
    <3>1. holder' \in alive'
      BY <1>2, <2>2 DEF Fall, IsNext, Lowest, Inv, OneIsLeft
    <3> QED BY <1>2, <2>2, <3>1 DEF Fall, Inv, OneIsLeft
  <2>3. ASSUME NEW p \in alive, LastFall(p)
        PROVE  Inv'
    BY <1>2, <2>3 DEF LastFall, Inv, OneIsLeft
  <2>4. CASE UNCHANGED vars
    BY <1>2, <2>4 DEF vars, Inv, OneIsLeft
  <2> QED BY <1>2, <2>1, <2>2, <2>3, <2>4 DEF Next
<1>3. Inv => OneIsLeft
  BY DEF Inv
<1> QED BY <1>1, <1>2, <1>3, PTL DEF Spec
===============================================================================
