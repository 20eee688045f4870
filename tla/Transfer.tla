------------------------------ MODULE Transfer ------------------------------
(***************************************************************************)
(* What a CopyJob promises to those who hold it, whatever its devices are: *)
(* it counts the bytes it has put into its destination, it reports one     *)
(* outcome, the outcome is final, and "succeeded" means that exactly the   *)
(* announced number of bytes was moved.  CopyJob.tla implements it.        *)
(***************************************************************************)
EXTENDS Integers

CONSTANT MaxBytes   \* the largest number of bytes a stream carries

VARIABLES
  status,   \* what the job has told its observers
  size,     \* the announced number of bytes, -1 while it is unknown
  moved     \* the bytes handed to the destination

transferVars == <<status, size, moved>>

Statuses == {"pending", "running", "succeeded", "failed", "abandoned"}

Over == status \in {"succeeded", "failed", "abandoned"}

TransferTypeOK ==
  /\ status \in Statuses
  /\ size \in -1..MaxBytes
  /\ moved \in 0..MaxBytes

TransferInit ==
  /\ status = "pending"
  /\ size \in -1..MaxBytes
  /\ moved = 0

-----------------------------------------------------------------------------

(* The job looks at its devices: an unknown size may become known, and     *)
(* what can be copied at once is copied.                                   *)
Begin ==
  /\ status = "pending"
  /\ status' = "running"
  /\ IF size = -1 THEN size' \in -1..MaxBytes ELSE size' = size
  /\ moved' \in 0..MaxBytes

(* Bytes move.  A job that has failed may still move some until it is      *)
(* deleted; one that has succeeded may not.                                *)
Move ==
  /\ status \in {"running", "failed", "abandoned"}
  /\ moved' \in moved..MaxBytes
  /\ UNCHANGED <<status, size>>

(* Success: the last bytes may move in the same step.                      *)
Succeed ==
  /\ status \in {"pending", "running"}
  /\ status' = "succeeded"
  /\ moved' \in moved..MaxBytes
  /\ IF status = "pending" /\ size = -1
     THEN size' \in -1..MaxBytes ELSE size' = size
  /\ size' = -1 \/ moved' = size'

Fail ==
  /\ status \in {"pending", "running"}
  /\ status' = "failed"
  /\ moved' \in moved..MaxBytes
  /\ IF status = "pending" /\ size = -1
     THEN size' \in -1..MaxBytes ELSE size' = size

(* The owner of the job goes away, or takes it back, before it is done.    *)
Abandon ==
  /\ status \in {"pending", "running"}
  /\ status' = "abandoned"
  /\ moved' \in moved..MaxBytes
  /\ UNCHANGED size

TransferNext == Begin \/ Move \/ Succeed \/ Fail \/ Abandon

TransferSpec == TransferInit /\ [][TransferNext]_transferVars

=============================================================================
