---------------------------- MODULE MCEvidenceTrust ----------------------------
(* A ledger of two receipts and a lifecycle of three records on each side   *)
(* of a copy: enough for a fork on either side of a boundary, a suspension  *)
(* that is resumed, and a revocation that is recovered from.                *)
EXTENDS EvidenceTrust

CONSTANT MaxMoments  \* bound on what the two homes have ever been at

BoundedNext == TrustNext /\ Cardinality(past') <= MaxMoments

BoundedSpec == TrustInit /\ [][BoundedNext]_trustVars
=============================================================================
