------------------------ MODULE MCLifecycleTransaction ------------------------
(* Three mutations after genesis, a spare key for each that is rolled back, *)
(* and three interruptions: of mutation, recovery and next attempt.         *)
EXTENDS LifecycleTransaction
=============================================================================
