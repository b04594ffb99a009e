--------------------------- MODULE MCInitialization ---------------------------
(* Three interruptions when one command runs at a time, so that the         *)
(* recovery of a recovery is interrupted too; one when commands overlap.    *)
EXTENDS Initialization

MCMaxKills == [both \in BOOLEAN |-> IF both THEN 1 ELSE 3]
=============================================================================
