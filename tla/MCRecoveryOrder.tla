---------------------------- MODULE MCRecoveryOrder ----------------------------
(* One B+ home, two invocations of `ueg recover` beside everything else. *)
EXTENDS RecoveryOrder
=============================================================================
