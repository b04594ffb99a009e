------------------------------ MODULE Lifecycle ------------------------------
(***************************************************************************)
(* The lifecycle algebra of a B+ identity (internal/identity/lifecycle.go):*)
(* what a lifecycle record may say, and the signing authority that a chain *)
(* of records derives.  No variables: ReceiptLedger, EvidenceHome,         *)
(* SigningAuthority and LifecycleTransaction all compute with it.          *)
(*                                                                         *)
(* Abstractions.  An operational key is named by a number, fresh for every *)
(* keys.Generate.  Digests and signatures are collision free and           *)
(* unforgeable, so a record is its own digest and the recovery root's      *)
(* signature on a lawful record is implicit.  Epoch number n of the code   *)
(* is epochs[n + 1].                                                       *)
(***************************************************************************)
EXTENDS Integers, Sequences

CONSTANT None       \* Go's nil: no key, no receipt id, no end of a window

ASSUME NoneIsNoNumber == None \notin Int

Statuses == {"ACTIVE", "RETIRED", "SUSPENDED", "REVOKED"}
Actions  == {"ROTATE", "RECOVER", "SUSPEND", "RESUME", "REVOKE"}

(* Actions that generate an operational key, and actions that make the     *)
(* previous epoch's private key unusable for ever.                         *)
GeneratesKey(action) == action \in {"ROTATE", "RECOVER"}
RetiresKey(action)   == action \in {"ROTATE", "RECOVER", "REVOKE"}

----------------------------------------------------------------------------
(* Boundaries and windows *)

Boundary(seq, id) == [seq |-> seq, id |-> id]
EmptyBoundary     == Boundary(-1, None)

(* The exact head of a loaded receipt chain (Ledger.Boundary). *)
HeadBoundary(receipts) ==
  IF receipts = <<>> THEN EmptyBoundary
  ELSE LET last == receipts[Len(receipts)] IN Boundary(last.seq, last.id)

OpenWindow(boundary) == [start |-> boundary.seq, end |-> None]

(* Mutant: a window includes the boundary it starts after. *)
CoversFromBoundary(window, seq) ==
  /\ window.start <= seq
  /\ window.end # None => seq <= window.end

Covers(window, seq) ==
  /\ window.start < seq
  /\ window.end # None => seq <= window.end

SequenceAuthorized(epoch, seq) ==
  \E i \in DOMAIN epoch.windows : Covers(epoch.windows[i], seq)

----------------------------------------------------------------------------
(* Epochs *)

NewEpoch(key, boundary) ==
  [key |-> key, status |-> "ACTIVE", windows |-> <<OpenWindow(boundary)>>,
   anchor |-> None]

(* The last window ends at the boundary unless it has ended already; status *)
(* and known-good anchor are overwritten whatever they were.                *)
CloseEpoch(epoch, status, boundary, anchor) ==
  LET last == Len(epoch.windows) IN
  [epoch EXCEPT
     !.windows[last].end = IF @ = None THEN boundary.seq ELSE @,
     !.status = status,
     !.anchor = anchor]

(* The authority state: the records accepted so far, the epochs they       *)
(* derive, and the index of the active epoch (0 when there is none).       *)
Genesis(key) ==
  [records |-> <<[seq |-> 0, action |-> "GENESIS", epoch |-> 1, key |-> key,
                  boundary |-> EmptyBoundary, anchor |-> None]>>,
   epochs  |-> <<NewEpoch(key, EmptyBoundary)>>,
   active  |-> 1]

LatestEpoch(a) == Len(a.epochs)
Latest(a)      == a.epochs[LatestEpoch(a)]
LastRecord(a)  == a.records[Len(a.records)]
ActiveKey(a)   == IF a.active = 0 THEN None ELSE a.epochs[a.active].key
TrustedKeys(a) == {a.epochs[i].key : i \in DOMAIN a.epochs}

----------------------------------------------------------------------------
(* Proposing a record (NewLifecycleRecord): what the holder of the recovery *)
(* root may request, given the operational private keys it can load.        *)

MayPropose(a, action, held) ==
  \/ action \in {"ROTATE", "SUSPEND"} /\ a.active # 0 /\ ActiveKey(a) \in held
  \/ action = "RECOVER"
  \/ /\ action = "RESUME"
     /\ a.active = 0
     /\ Latest(a).status = "SUSPENDED"
     /\ Latest(a).key \in held
  \/ action = "REVOKE" /\ Latest(a).status \notin {"RETIRED", "REVOKED"}

NewRecord(a, action, newKey, boundary, anchor) ==
  [seq      |-> Len(a.records),
   action   |-> action,
   epoch    |-> IF GeneratesKey(action) THEN LatestEpoch(a) + 1 ELSE LatestEpoch(a),
   key      |-> IF GeneratesKey(action) THEN newKey ELSE Latest(a).key,
   boundary |-> boundary,
   anchor   |-> anchor]

----------------------------------------------------------------------------
(* Deriving authority from a record (DeriveState, applyLifecycleRecord):   *)
(* what every reader of the lifecycle accepts, and what it concludes.      *)

NotBefore(boundary, prior) ==
  \/ boundary.seq > prior.seq
  \/ boundary = prior

Accepts(a, r) ==
  /\ r.seq = Len(a.records)
  /\ NotBefore(r.boundary, LastRecord(a).boundary)
  /\ \/ /\ GeneratesKey(r.action)
        /\ r.epoch = LatestEpoch(a) + 1
        /\ r.key \notin TrustedKeys(a)
        /\ \/ r.action = "ROTATE" /\ a.active = LatestEpoch(a)
           \/ r.action = "RECOVER" /\ a.active \in {0, LatestEpoch(a)}
     \/ /\ r.action = "SUSPEND"
        /\ a.active # 0
        /\ r.epoch = a.active
        /\ r.key = ActiveKey(a)
     \/ /\ r.action = "RESUME"
        /\ a.active = 0
        /\ r.epoch = LatestEpoch(a)
        /\ r.key = Latest(a).key
        /\ Latest(a).status = "SUSPENDED"
     \/ /\ r.action = "REVOKE"
        /\ r.epoch = LatestEpoch(a)
        /\ r.key = Latest(a).key
        /\ Latest(a).status \notin {"RETIRED", "REVOKED"}

(* Mutant: lost-key recovery only suspends the epoch it replaces. *)
ClosedStatusLenient(action) ==
  CASE action = "ROTATE" -> "RETIRED"
    [] action = "REVOKE" -> "REVOKED"
    [] OTHER             -> "SUSPENDED"

ClosedStatus(action) ==
  CASE action = "ROTATE"  -> "RETIRED"
    [] action = "SUSPEND" -> "SUSPENDED"
    [] OTHER              -> "REVOKED"

(* The epochs after r, a record that a accepts.  A resumed epoch gets one   *)
(* more window.  Revoking an epoch that is not active closes no window, but *)
(* CloseEpoch says the same: its last window ended when it was suspended.   *)
EpochsAfter(a, r) ==
  LET n      == LatestEpoch(a)
      closed == [a.epochs EXCEPT ![n] =
                   CloseEpoch(@, ClosedStatus(r.action), r.boundary, r.anchor)]
  IN IF r.action = "RESUME"
     THEN [a.epochs EXCEPT ![n].status = "ACTIVE",
                           ![n].windows = Append(@, OpenWindow(r.boundary))]
     ELSE IF GeneratesKey(r.action)
     THEN Append(closed, NewEpoch(r.key, r.boundary))
     ELSE closed

Apply(a, r) ==
  [records |-> Append(a.records, r),
   epochs  |-> EpochsAfter(a, r),
   active  |-> IF r.action \in {"SUSPEND", "REVOKE"} THEN 0 ELSE r.epoch]

----------------------------------------------------------------------------
(* Verifying receipts against the authority *)

(* Every record's boundary names a receipt that is really in the chain     *)
(* (verifyLifecycleBoundaries).                                            *)
BoundariesExact(receipts, a) ==
  \A i \in DOMAIN a.records :
    LET b == a.records[i].boundary IN
    \/ b = EmptyBoundary
    \/ b.seq + 1 \in DOMAIN receipts /\ receipts[b.seq + 1].id = b.id

(* The receipt chain (Verify): sequence numbers without a gap, every id    *)
(* once, every receipt linked to its predecessor, every signer trusted.    *)
VerifyChain(receipts, trust) ==
  \A i \in DOMAIN receipts :
    /\ receipts[i].seq = i - 1
    /\ receipts[i].prev = (IF i = 1 THEN None ELSE receipts[i - 1].id)
    /\ receipts[i].key \in trust
    /\ \A j \in DOMAIN receipts : receipts[j].id = receipts[i].id => j = i

(* Every receipt was signed inside its epoch's window (VerifyBPlus).  Two   *)
(* epochs never share a key, so "the epoch of the key" is "some epoch".     *)
InsideWindows(receipts, a) ==
  \A i \in DOMAIN receipts :
    \E e \in DOMAIN a.epochs :
      /\ a.epochs[e].key = receipts[i].key
      /\ SequenceAuthorized(a.epochs[e], receipts[i].seq)

VerifyBPlus(receipts, a) ==
  /\ VerifyChain(receipts, TrustedKeys(a))
  /\ BoundariesExact(receipts, a)
  /\ InsideWindows(receipts, a)

(* Every stored request belongs to one receipt and every receipt has one   *)
(* (VerifyPetitions).                                                      *)
VerifyPetitions(receipts, petitions) ==
  /\ Len(receipts) = Len(petitions)
  /\ \A i \in DOMAIN petitions :
       /\ \E k \in DOMAIN receipts :
            /\ receipts[k].id = petitions[i].receipt
            /\ receipts[k].request = petitions[i].request
       /\ \A j \in DOMAIN petitions :
            petitions[j].receipt = petitions[i].receipt => j = i
=============================================================================
