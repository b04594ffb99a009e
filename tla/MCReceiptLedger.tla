--------------------------- MODULE MCReceiptLedger ---------------------------
(* Two invocations on one home, three receipts, two interruptions: enough   *)
(* for a recovery that is itself interrupted and a write after recovery.    *)
EXTENDS ReceiptLedger
=============================================================================
