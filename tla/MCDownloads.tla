---------------------------- MODULE MCDownloads -----------------------------
(* Three downloads that compete for one name: names do not interact. *)
EXTENDS Downloads, TLC

CONSTANTS d1, d2, d3, a

MCDownloads == {d1, d2, d3}
MCNames == {a}
MCSymmetry == Permutations(MCDownloads)
=============================================================================
