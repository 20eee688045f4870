----------------------------- MODULE MCTelephony -----------------------------
(* One call path that is used again; how much may be posted is for the     *)
(* configurations to say.                                                  *)
EXTENDS Telephony

CONSTANT path1

MCPaths == {path1}
MCOutrun == {"outrun"}
MCRefusal == {"refusal"}
=============================================================================
