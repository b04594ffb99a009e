---------------------------- MODULE MCEvidenceHome ----------------------------
(* Two invocations on one home; receipts before and after a mutation, two   *)
(* mutations after genesis, interruptions of both kinds of transaction.     *)
(* The invocations are interchangeable and only safety is checked, so their *)
(* symmetry is sound.                                                       *)
EXTENDS EvidenceHome, TLC

Invocations == Permutations(Proc)
=============================================================================
