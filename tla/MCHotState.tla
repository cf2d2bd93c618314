------------------------------- MODULE MCHotState -------------------------------
(* HotState with interchangeable processes and calls.                          *)
EXTENDS HotState, TLC

MCSymmetry == Permutations(Server) \cup Permutations(Call)
================================================================================
