---------------------------- MODULE MCSftpServer ----------------------------
(* Constants for model-checking SftpServer.                                *)
EXTENDS SftpServer, TLC

CONSTANTS c1, c2, p1, p2, a1, a2, a3

MCChannel == {c1, c2}
MCPath == {p1, p2}
MCAddr == {a1, a2, a3}
MCSlot == {0, 1}
MCOpenFlags == {{"READ"}, {"WRITE", "CREAT", "TRUNC"}, {"READ", "WRITE"}}
MCSymmetry == Permutations(MCChannel) \cup Permutations(MCPath) \cup Permutations(MCAddr)
=============================================================================
