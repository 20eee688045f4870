----------------------------- MODULE MCMigration ----------------------------
(* Two starts, and an old installation with one directory of a device, and *)
(* with a hidden file and a hidden directory that has a file, too.         *)
EXTENDS Migration

CONSTANTS p1, p2, config, cert, key, dotfile, inside

MCProcesses == {p1, p2}
MCFiles == {config, cert, key, dotfile, inside}
MCHiddenFiles == {dotfile}
MCHiddenDirs == {3}
MCDirs == {1, 2, 3}
MCDir == [f \in MCFiles |-> CASE f = config -> 1 [] f = inside -> 3 [] OTHER -> 2]
MCRank == [f \in MCFiles |-> IF f = key THEN 2 ELSE 1]
MCFaults == {"crash", "io", "parallel"}
=============================================================================
