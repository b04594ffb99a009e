----------------------------- MODULE RecoveryOrder -----------------------------
(***************************************************************************)
(* The order in which `ueg recover` and `ueg identity transaction-recover` *)
(* work through the journals of one B+ home (cmd/ueg/main.go:901,          *)
(* cmd/ueg/identity.go:582): that of its creation, left behind when an     *)
(* initialization or migration was killed after publishing the home and    *)
(* before its clean-up, then that of a lifecycle mutation, then that of a  *)
(* receipt write.  What each recovery does inside is in Initialization,    *)
(* Migration, LifecycleTransaction and ReceiptLedger; here each is one     *)
(* step under the home lock, or without it where the code takes none, and  *)
(* what a kill can leave of a mutation is one of three forms.              *)
(***************************************************************************)
EXTENDS Naturals

CONSTANTS Recoveries,       \* invocations of `ueg recover`
          Nothing,          \* no journal
          MaxEpochs,        \* bound on epochs
          MaxInterruptions  \* bound on killed mutations, writes and recoveries

ASSUME NothingIsApart == Nothing \notin Nat \cup {"initialization", "migration"}
ASSUME OrderBounds    == MaxEpochs \in Nat /\ MaxInterruptions \in Nat

VARIABLES step,      \* where an invocation of `ueg recover` is
          opening,   \* the mode it opens the ledger in: "recover" or "readOnly"
          creation,  \* the creation journal in the way
          mutation,  \* the journaled mutation: Nothing, or where it leads to and its form
          pair,      \* the journaled receipt: Nothing, or the epoch that signed it
          status,    \* of the latest epoch
          epoch,     \* the latest epoch
          killed     \* interruptions so far

journals  == <<creation, mutation, pair>>
lifecycle == <<status, epoch>>
orderVars == <<step, opening, journals, lifecycle, killed>>

(* identity.LoadSigning *)
LoadsSigning == mutation = Nothing /\ status = "ACTIVE"

Move(p, from, to) == step[p] = from /\ step' = [step EXCEPT ![p] = to]

----------------------------------------------------------------------------
(* cmdRecover; an error ends it where it is. *)

LookForCreation(p) ==
  /\ Move(p, "idle", IF creation = Nothing THEN "lookForMutation" ELSE "recoverCreation")
  /\ UNCHANGED <<opening, journals, lifecycle, killed>>

(* The published home is loaded for signing before its journal is cleaned.  *)
(* Another invocation may have cleaned it: the journal cannot be read.      *)
RecoverCreation(p) ==
  /\ IF creation # Nothing /\ LoadsSigning
     THEN Move(p, "recoverCreation", "lookForMutation") /\ creation' = Nothing
     ELSE Move(p, "recoverCreation", "failed") /\ UNCHANGED creation
  /\ UNCHANGED <<opening, mutation, pair, lifecycle, killed>>


LookForMutation(p) ==
  /\ Move(p, "lookForMutation", IF mutation = Nothing THEN "lookForPair" ELSE "recoverMutation")
  /\ UNCHANGED <<opening, journals, lifecycle, killed>>

(* What a kill leaves of a mutation: with all that it needs in place,       *)
(* whether or not its lifecycle is published; without the whole of the new  *)
(* key pair; or with a torn journal or a torn staged public key.            *)
Forms == {"whole", "incomplete", "unreadable"}

Readable == mutation # Nothing => mutation.form # "unreadable"

Apply(outcome) == status' = outcome.status /\ epoch' = outcome.epoch

(* identity.RecoverPendingMutation of a journal it can read; there may be   *)
(* none any more.                                                          *)
RollBack == mutation.form = "incomplete" /\ mutation' = Nothing /\ UNCHANGED lifecycle

Complete == mutation.form = "whole" /\ mutation' = Nothing /\ Apply(mutation.to)

RecoverPendingMutation ==
  IF mutation = Nothing THEN UNCHANGED <<mutation, lifecycle>> ELSE RollBack \/ Complete

RecoverMutation(p) ==
  /\ IF Readable
     THEN Move(p, "recoverMutation", "lookForPair") /\ RecoverPendingMutation
     ELSE Move(p, "recoverMutation", "failed") /\ UNCHANGED <<mutation, lifecycle>>
  /\ UNCHANGED <<opening, creation, pair, killed>>

LookForPair(p) ==
  /\ Move(p, "lookForPair", "open")
  /\ opening' = [opening EXCEPT ![p] = IF pair = Nothing THEN "readOnly" ELSE "recover"]
  /\ UNCHANGED <<journals, lifecycle, killed>>

(* openLedger for recovery: only the key that is active now can complete    *)
(* what it signed.                                                         *)
OpenRecovering(p) ==
  /\ opening[p] = "recover"
  /\ IF LoadsSigning /\ pair \in {Nothing, epoch}
     THEN Move(p, "open", "succeeded") /\ pair' = Nothing
     ELSE Move(p, "open", "failed") /\ UNCHANGED pair
  /\ UNCHANGED <<opening, creation, mutation, lifecycle, killed>>

(* Mutant: a read-only open does not see an interrupted mutation. *)
OpenReadOnlyBlind(p) ==
  /\ opening[p] = "readOnly"
  /\ Move(p, "open", IF pair = Nothing THEN "succeeded" ELSE "failed")
  /\ UNCHANGED <<opening, journals, lifecycle, killed>>

OpenReadOnly(p) ==
  /\ opening[p] = "readOnly"
  /\ Move(p, "open", IF pair = Nothing /\ mutation = Nothing THEN "succeeded" ELSE "failed")
  /\ UNCHANGED <<opening, journals, lifecycle, killed>>

End(p) ==
  /\ Move(p, "succeeded", "idle") \/ Move(p, "failed", "idle")
  /\ UNCHANGED <<opening, journals, lifecycle, killed>>

----------------------------------------------------------------------------
(* identityRecoverTransaction: one journal, and it ends. *)

TransactCreation ==
  /\ creation # Nothing /\ LoadsSigning
  /\ creation' = Nothing
  /\ UNCHANGED <<step, opening, mutation, pair, lifecycle, killed>>

TransactMutation ==
  /\ creation = Nothing /\ mutation # Nothing /\ Readable
  /\ RecoverPendingMutation
  /\ UNCHANGED <<step, opening, creation, pair, killed>>

----------------------------------------------------------------------------
(* The commands that leave journals behind.  Neither looks at the creation  *)
(* journal; a mutation does not look at the receipt journal either.         *)

Statuses == {"ACTIVE", "SUSPENDED", "REVOKED"}
Outcomes == [status : Statuses, epoch : 0 .. MaxEpochs]

(* A recovery of a lost key or a rotation opens the next epoch; the others  *)
(* stay in theirs.                                                          *)
LeadsTo(outcome) ==
  \/ outcome = [status |-> "ACTIVE", epoch |-> epoch + 1]
  \/ /\ outcome.epoch = epoch
     /\ <<status, outcome.status>> \in {<<"ACTIVE", "SUSPENDED">>, <<"SUSPENDED", "ACTIVE">>,
                                       <<"ACTIVE", "REVOKED">>, <<"SUSPENDED", "REVOKED">>}

Mutate(outcome) ==
  /\ mutation = Nothing
  /\ LeadsTo(outcome)
  /\ Apply(outcome)
  /\ UNCHANGED <<step, opening, journals, killed>>

(* Only a mutation that opens an epoch has a key pair to stage. *)
MutateInterrupted(outcome, form) ==
  /\ mutation = Nothing
  /\ LeadsTo(outcome)
  /\ form = "incomplete" => outcome.epoch = epoch + 1
  /\ killed < MaxInterruptions
  /\ killed' = killed + 1
  /\ mutation' = [to |-> outcome, form |-> form]
  /\ UNCHANGED lifecycle \/ (form = "whole" /\ Apply(outcome))
  /\ UNCHANGED <<step, opening, creation, pair>>

WriteInterrupted ==
  /\ LoadsSigning /\ pair = Nothing
  /\ killed < MaxInterruptions
  /\ killed' = killed + 1
  /\ pair' = epoch
  /\ UNCHANGED <<step, opening, creation, mutation, lifecycle>>

(* A recovery is killed, finds the home busy or fails to write: what it     *)
(* worked on is left, and of a mutation the lifecycle may be published.     *)
RecoverInterrupted(p) ==
  /\ step[p] \notin {"idle", "succeeded", "failed"}
  /\ killed < MaxInterruptions
  /\ killed' = killed + 1
  /\ step' = [step EXCEPT ![p] = "idle"]
  /\ \/ UNCHANGED lifecycle
     \/ /\ step[p] = "recoverMutation" /\ mutation # Nothing
        /\ mutation.form = "whole" /\ Apply(mutation.to)
  /\ UNCHANGED <<opening, journals>>

----------------------------------------------------------------------------
OrderInit ==
  /\ step = [p \in Recoveries |-> "idle"]
  /\ opening = [p \in Recoveries |-> "readOnly"]
  /\ creation \in {Nothing, "initialization", "migration"}
  /\ mutation = Nothing /\ pair = Nothing
  /\ status = "ACTIVE" /\ epoch = 0
  /\ killed = 0

Recover(p) ==
  \/ LookForCreation(p) \/ RecoverCreation(p)
  \/ LookForMutation(p) \/ RecoverMutation(p)
  \/ LookForPair(p) \/ OpenRecovering(p) \/ OpenReadOnly(p) \/ End(p)

Transact == TransactCreation \/ TransactMutation

OrderNext ==
  \/ \E p \in Recoveries : Recover(p)
  \/ Transact
  \/ \E p \in Recoveries : RecoverInterrupted(p)
  \/ \E outcome \in Outcomes : Mutate(outcome)
  \/ \E outcome \in Outcomes, form \in Forms : MutateInterrupted(outcome, form)
  \/ WriteInterrupted

OrderSpec == OrderInit /\ [][OrderNext]_orderVars

(* The operator keeps running `ueg recover`, or both recovery commands. *)
FairRecover == OrderSpec /\ \A p \in Recoveries : WF_orderVars(Recover(p))
FairOrder   == FairRecover /\ WF_orderVars(Transact)

----------------------------------------------------------------------------
(* Properties *)

OrderTypeOK ==
  /\ step \in [Recoveries -> {"idle", "recoverCreation", "lookForMutation", "recoverMutation",
                              "lookForPair", "open", "succeeded", "failed"}]
  /\ opening \in [Recoveries -> {"readOnly", "recover"}]
  /\ creation \in {Nothing, "initialization", "migration"}
  /\ mutation \in [to : Outcomes, form : Forms] \cup {Nothing}
  /\ pair \in (0 .. MaxEpochs) \cup {Nothing}
  /\ status \in Statuses
  /\ epoch \in 0 .. MaxEpochs
  /\ killed \in 0 .. MaxInterruptions

(* `ueg recover` says that recovery completed, or that none was needed, only *)
(* when nothing is left to recover, whatever was interrupted between the     *)
(* looks at the four journals and the locks it took one after the other.     *)
Succeeds(p) == step[p] # "succeeded" /\ step'[p] = "succeeded"

SuccessLeavesNothing ==
  [][\A p \in Recoveries :
       Succeeds(p) => creation' = Nothing /\ mutation' = Nothing /\ pair' = Nothing]_orderVars

(* `ueg recover`, run again and again, keeps succeeding once nothing it     *)
(* cannot get over is in its way: it completes or rolls back the mutation   *)
(* before it recovers the write the mutation would not let it sign for, and *)
(* it does so from any form an interruption leaves, of its own too.  In the *)
(* way are a mutation it refuses to read, a creation journal that waits for *)
(* a key that does not load, and a write whose key the mutation retires.    *)
Destined ==
  IF mutation # Nothing /\ mutation.form = "whole" THEN mutation.to
  ELSE [status |-> status, epoch |-> epoch]

Recoverable ==
  /\ Readable
  /\ creation # Nothing => LoadsSigning
  /\ pair # Nothing => Destined = [status |-> "ACTIVE", epoch |-> pair]


(* INSTALL.md:204-207: transaction recovery "completes or safely rolls back *)
(* initialization, migration, or lifecycle mutation", whichever of them are *)
(* interrupted, here if its journal and staged keys are not torn.           *)
EveryMutationIsRecovered == mutation # Nothing /\ Readable ~> mutation = Nothing
=============================================================================
