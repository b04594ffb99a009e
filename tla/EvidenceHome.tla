----------------------------- MODULE EvidenceHome -----------------------------
(***************************************************************************)
(* A whole B+ evidence home: the receipt ledger (ReceiptLedger) together   *)
(* with the lifecycle mutations of its identity (identityMutate,           *)
(* ApplyMutation, RecoverPendingMutation), on one home lock, with          *)
(* processes killed between any two steps.  LifecycleTransaction shows the *)
(* mutation file by file; here a generated key pair is staged or is not.   *)
(***************************************************************************)
EXTENDS ReceiptLedger

CONSTANT MaxRecords     \* bound on lifecycle records

ASSUME MaxRecordsIsNatural == MaxRecords \in Nat

VARIABLES
  generated,     \* operational keys generated so far; the next is generated + 1
  custody        \* operational private keys in their final place

homeVars == <<vars, generated, custody>>

evidenceVars == <<disk, issued, report, exported>>

(* The mutation journal: the record signed in advance, the epoch it closes  *)
(* and whether the generated pair is staged.                                *)
Transitions ==
  [record  : [seq : Nat, action : Actions, epoch : Nat, key : Nat,
              boundary : [seq : Int, id : Nat \cup {None}], anchor : {None}],
   retires : Nat,
   staged  : BOOLEAN]

ASSUME NoneIsNoTransition == None \notin Transitions

Transition(record) == [record |-> record, retires |-> LatestEpoch(authority), staged |-> FALSE]

(* alreadyApplied: the lifecycle ends with the journaled record. *)
Applied == LastRecord(authority) = transition.record

----------------------------------------------------------------------------
(* The exact head of the loaded chain. *)
MutationBoundary == HeadBoundary(Loaded.receipts)

(* ueg identity rotate | recover | suspend | resume | revoke: lock, verify  *)
(* the evidence, sign the record at the exact head of the chain, journal    *)
(* it.  Whether a receipt write is pending is not asked.                    *)
BeginMutation(p, action) ==
  /\ pc[p] = "idle"
  /\ OpensReadOnly
  /\ VerifyPetitions(Loaded.receipts, Loaded.petitions)
  /\ transition = None
  /\ Len(authority.records) < MaxRecords
  /\ MayPropose(authority, action, custody)
  /\ LET record == NewRecord(authority, action, generated + 1, MutationBoundary, None) IN
       /\ Accepts(authority, record)
       /\ transition' = Transition(record)
  /\ generated' = IF GeneratesKey(action) THEN generated + 1 ELSE generated
  /\ Enter(p, "mutating", EmptyView)
  /\ UNCHANGED <<evidenceVars, crashes, authority, custody>>

NeedsKey == GeneratesKey(transition.record.action)

(* writePendingPair *)
StageKey(p) ==
  /\ pc[p] = "mutating"
  /\ ~Applied
  /\ NeedsKey
  /\ ~transition.staged
  /\ transition' = [transition EXCEPT !.staged = TRUE]
  /\ UNCHANGED <<lock, pc, view, evidenceVars, crashes, authority, generated, custody>>

(* publishPendingPair, then the atomic replacement of the lifecycle file. *)
PublishLifecycle(p) ==
  /\ pc[p] = "mutating"
  /\ ~Applied
  /\ NeedsKey => transition.staged
  /\ authority' = Apply(authority, transition.record)
  /\ custody' = IF NeedsKey THEN custody \cup {transition.record.key} ELSE custody
  /\ UNCHANGED <<lock, pc, view, evidenceVars, crashes, transition, generated>>

(* The retired private key is removed before the journal is. *)
RetireKey(p) ==
  /\ Move(p, "mutating", "retired")
  /\ Applied
  /\ custody' = IF RetiresKey(transition.record.action)
                THEN custody \ {authority.epochs[transition.retires].key} ELSE custody
  /\ UNCHANGED <<lock, view, evidenceVars, crashes, identityVars, generated>>

FinishMutation(p) ==
  /\ pc[p] = "retired"
  /\ transition' = None
  /\ Leave(p)
  /\ UNCHANGED <<evidenceVars, crashes, authority, generated, custody>>

(* Mutant: a mutation whose lifecycle is published counts as finished. *)
ResumeMutationFinished(p) ==
  /\ pc[p] = "idle"
  /\ transition # None
  /\ Applied \/ (NeedsKey => transition.staged)
  /\ Enter(p, IF Applied THEN "retired" ELSE "mutating", EmptyView)
  /\ UNCHANGED <<evidenceVars, crashes, identityVars, generated, custody>>

(* RecoverPendingMutation, run by `ueg recover` and by `ueg identity        *)
(* transaction-recover`: go on from the journal ...                         *)
ResumeMutation(p) ==
  /\ pc[p] = "idle"
  /\ transition # None
  /\ Applied \/ (NeedsKey => transition.staged)
  /\ Enter(p, "mutating", EmptyView)
  /\ UNCHANGED <<evidenceVars, crashes, identityVars, generated, custody>>

(* ... or give the mutation up, when the new pair was not staged. *)
RollBackMutation(p) ==
  /\ pc[p] = "idle"
  /\ lock = None
  /\ transition # None
  /\ ~Applied /\ NeedsKey /\ ~transition.staged
  /\ transition' = None
  /\ UNCHANGED <<lock, pc, view, evidenceVars, crashes, authority, generated, custody>>

----------------------------------------------------------------------------
HomeInit ==
  /\ Init
  /\ generated = 1
  /\ custody = {1}

MutationStep(p) ==
  StageKey(p) \/ PublishLifecycle(p) \/ RetireKey(p) \/ FinishMutation(p)

EvidenceStep(p) ==
  \/ OpenWrite(p)
  \/ \E request \in Requests : BeginPending(p, request)
  \/ Holder(p)
  \/ \E whole \in BOOLEAN : TearReceipt(p, whole) \/ TearPetition(p, whole)
  \/ Crash(p)
  \/ Inspect(p) \/ GiveUp(p)
  \/ PlanRecovery(p) \/ CheckOnly(p)
  \/ Export(p)

HomeNext ==
  \E p \in Proc :
    \/ EvidenceStep(p) /\ UNCHANGED <<generated, custody>>
    \/ \E action \in Actions : BeginMutation(p, action)
    \/ MutationStep(p)
    \/ ResumeMutation(p) \/ RollBackMutation(p)

HomeSpec == HomeInit /\ [][HomeNext]_homeVars

----------------------------------------------------------------------------
(* Properties *)

HomeTypeOK ==
  /\ pc \in [Proc -> {"idle", "mutating", "retired"} \cup Waiting \cup Holding]
  /\ generated \in Nat
  /\ custody \subseteq 1 .. generated
  /\ transition \in Transitions \cup {None}
  /\ transition # None => transition.retires \in DOMAIN authority.epochs

(* The private keys on disk follow the lifecycle, whatever steps mutations  *)
(* are killed at.  Between mutations they are exactly the keys of active    *)
(* and suspended epochs: the key of a retired or revoked epoch is gone.  At *)
(* every moment the active key can be loaded: a new key is in custody       *)
(* before the lifecycle names it.                                           *)
CustodyFollowsLifecycle ==
  /\ transition = None =>
       custody = {authority.epochs[e].key : e \in
                    {e \in DOMAIN authority.epochs : authority.epochs[e].status \in {"ACTIVE", "SUSPENDED"}}}
  /\ authority.active # 0 => ActiveKey(authority) \in custody

(* A line that a reader of the receipt file parses, tail included. *)
Readable == IF Parses(receiptTail) THEN Lines(receipts, receiptTail) ELSE receipts

(* Whatever is interleaved or interrupted, receipts and lifecycle change   *)
(* like the abstract authority: one receipt by the active key or one       *)
(* record bound to the exact head at a time.                               *)
Authority ==
  INSTANCE SigningAuthority WITH
    log <- Readable, Ids <- 1 .. MaxReceipts, Keys <- 1 .. MaxRecords + MaxCrashes, GenesisKey <- 1,
    MaxLog <- MaxReceipts
ImplementsAuthority == Authority!Spec

(* LIMITS.md:152: `ueg recover` "completes the exact signed pair".  It can  *)
(* while the active key signed it and every receipt before it, whatever     *)
(* suspensions, resumptions and interrupted mutations came in between.      *)
(* Not so once another key is active, or when the chain has an older        *)
(* signer: the recovery plan trusts the active key alone (ledger/           *)
(* transaction.go:116 and 138).                                             *)
OwnPairIsRecoverable ==
  /\ journal # None /\ SigningAvailable
  /\ journal.receipt.key = ActiveKey(authority)
  /\ \A i \in DOMAIN receipts : receipts[i].key = ActiveKey(authority)
  => RecoveryPlanHolds
=============================================================================
