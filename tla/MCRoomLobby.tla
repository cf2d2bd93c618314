------------------------------ MODULE MCRoomLobby ------------------------------
(* RoomLobby; the sockets are those of one player.                             *)
EXTENDS RoomLobby, TLC

CONSTANTS p1

MCUserOf == [s \in Socket |-> p1]

MCSymmetry == Permutations(Call) \cup Permutations(Player \ {p1})
================================================================================
