----------------------------- MODULE EvidenceLog -----------------------------
(***************************************************************************)
(* What the evidence ledger promises its users: a log that only ever grows *)
(* by one linked receipt at a time.  There are no files, no processes, no  *)
(* crashes and no recovery here; ReceiptLedger shows that journal, append, *)
(* crash and recovery together implement this log.                         *)
(***************************************************************************)
EXTENDS Lifecycle

CONSTANTS Requests,     \* what a receipt can record
          Keys,         \* operational keys
          Ids           \* receipt ids

VARIABLE log            \* the committed receipts, oldest first

NextReceipt(l, id, key, request) ==
  [seq     |-> HeadBoundary(l).seq + 1,
   prev    |-> HeadBoundary(l).id,
   id      |-> id,
   key     |-> key,
   request |-> request]

(* A receipt id is a hash of the receipt, so it is never used again. *)
Unused(l, id) == \A i \in DOMAIN l : l[i].id # id

Record(id, key, request) ==
  /\ Unused(log, id)
  /\ log' = Append(log, NextReceipt(log, id, key, request))

Init == log = <<>>

Next == \E id \in Ids, key \in Keys, request \in Requests : Record(id, key, request)

Spec == Init /\ [][Next]_log
=============================================================================
