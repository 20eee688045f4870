------------------------------ MODULE MCPlayers ------------------------------
(* Constants for model-checking Players.                                   *)
EXTENDS Players

CONSTANTS p1, p2

MCPlayer == {p1, p2}
MCSpotify == {p2}
=============================================================================
