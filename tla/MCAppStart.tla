------------------------------ MODULE MCAppStart -----------------------------
(* Two starts at a time, each again and again; two systemctl or more. *)
EXTENDS AppStart

CONSTANTS p1, p2

MCProcesses == {p1, p2}
MCNone == {}
MCFaults == {"reorder", "kill"}
=============================================================================
