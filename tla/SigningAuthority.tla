-------------------------- MODULE SigningAuthority --------------------------
(***************************************************************************)
(* What a B+ identity promises about who may sign: a receipt log and a     *)
(* lifecycle that change one atomic step at a time.  Lifecycle mutations   *)
(* (NewLifecycleRecord, DeriveState) bind the exact head of the log, and   *)
(* receipts are signed by the one active operational key.  EvidenceHome,   *)
(* with its files, journals and crashes, implements this specification.    *)
(***************************************************************************)
EXTENDS Lifecycle

CONSTANTS Requests,     \* what a receipt can record
          Ids,          \* receipt ids
          Keys,         \* operational keys that may be generated
          GenesisKey,   \* the key of epoch zero
          MaxLog,       \* bound on receipts
          MaxRecords    \* bound on lifecycle records

ASSUME NumberedIdsAndKeys == Ids \subseteq Nat /\ Keys \subseteq Nat /\ GenesisKey \in Keys
ASSUME BoundsAreNatural   == MaxLog \in Nat /\ MaxRecords \in Nat

VARIABLES log, authority

vars == <<log, authority>>

SignedBy(key, id, request) ==
  [seq  |-> HeadBoundary(log).seq + 1,
   prev |-> HeadBoundary(log).id,
   id   |-> id, key |-> key, request |-> request]

(* A receipt id hashes its receipt: it never comes up twice. *)
Unused(id) == \A i \in DOMAIN log : log[i].id # id

(* Whether the epoch that signs covers the next sequence number is Append's *)
(* own check; here it follows, and EveryReceiptAuthorized shows it.         *)
Sign(id, request) ==
  /\ Len(log) < MaxLog
  /\ authority.active # 0
  /\ Unused(id)
  /\ log' = Append(log, SignedBy(ActiveKey(authority), id, request))
  /\ UNCHANGED authority

(* The holder of the recovery root mutates the lifecycle at the head of    *)
(* the log.  `held` are the operational private keys it has; only the       *)
(* latest epoch's key is ever asked for.                                   *)
(* Mutant: a mutation binds a head it saw long ago. *)
StaleBoundary == EmptyBoundary

MutationBoundary == HeadBoundary(log)

Mutate(action, newKey, held) ==
  /\ Len(authority.records) < MaxRecords
  /\ MayPropose(authority, action, held)
  /\ LET record == NewRecord(authority, action, newKey, MutationBoundary, None) IN
       /\ Accepts(authority, record)
       /\ authority' = Apply(authority, record)
  /\ UNCHANGED log

Init ==
  /\ log = <<>>
  /\ authority = Genesis(GenesisKey)

Next ==
  \/ \E id \in Ids, request \in Requests : Sign(id, request)
  \/ \E action \in Actions, newKey \in Keys, held \in SUBSET {Latest(authority).key} :
       Mutate(action, newKey, held)

Spec == Init /\ [][Next]_vars

----------------------------------------------------------------------------
(* Properties *)

EpochOK(e) ==
  /\ e.status \in Statuses
  /\ e.key \in Nat
  /\ e.windows \in Seq([start : Int, end : Int \cup {None}])
  /\ e.windows # <<>>

TypeOK ==
  /\ log \in Seq([seq : Int, prev : Nat \cup {None}, id : Nat, key : Nat, request : Requests])
  /\ \A e \in DOMAIN authority.epochs : EpochOK(authority.epochs[e])
  /\ authority.active \in 0 .. Len(authority.epochs)

(* At every moment every receipt of the log passes B+ verification: the    *)
(* chain links, every lifecycle record names a receipt that is really      *)
(* there, and no receipt was signed outside the window of its epoch -      *)
(* whatever sequence of rotations, suspensions, recoveries and revocations *)
(* came after it.                                                          *)
EveryReceiptAuthorized == VerifyBPlus(log, authority)

(* There is never a second operational key that may sign a sequence        *)
(* number: windows of different epochs do not overlap, and the next        *)
(* receipt has a signer exactly when an epoch is active                    *)
(* (CHANGELOG.md: "exactly one active operational key").                   *)
OneSigner ==
  /\ \A e, f \in DOMAIN authority.epochs : \A seq \in 0 .. MaxLog :
       /\ SequenceAuthorized(authority.epochs[e], seq)
       /\ SequenceAuthorized(authority.epochs[f], seq)
       => e = f
  /\ \A e \in DOMAIN authority.epochs :
       /\ SequenceAuthorized(authority.epochs[e], Len(log)) <=> e = authority.active
       /\ authority.epochs[e].status = "ACTIVE" <=> e = authority.active

(* A retired or revoked epoch never signs again: its status is final and   *)
(* what its windows cover beyond the present head stays empty.             *)
ClosedForEver ==
  [][\A e \in DOMAIN authority.epochs :
       authority.epochs[e].status \in {"RETIRED", "REVOKED"} =>
         /\ authority'.epochs[e].status \in {"RETIRED", "REVOKED"}
         /\ authority'.epochs[e].windows = authority.epochs[e].windows]_vars
=============================================================================
