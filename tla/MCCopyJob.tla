----------------------------- MODULE MCCopyJob ------------------------------
(* CopyJob on every pair of device kinds, with streams of up to three units *)
(* through a buffer of two and a write-ahead limit of two.                  *)
EXTENDS CopyJob

MCSourceKinds == {"file", "socket", "reply"}
MCDestKinds == {"file", "ssl"}
MCEofReads == {-1, 0}
=============================================================================
