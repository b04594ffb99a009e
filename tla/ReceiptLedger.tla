---------------------------- MODULE ReceiptLedger ----------------------------
(***************************************************************************)
(* The signed evidence ledger of one B+ home (internal/ledger), at the     *)
(* grain of its file operations.  A receipt and its request go to two      *)
(* files; a write-ahead journal makes the pair one unit.  Processes are    *)
(* `ueg` invocations that serialise on the home lock and can be killed, or *)
(* fail to write, between any two file operations.                         *)
(*                                                                         *)
(* A file is the sequence of its newline-terminated lines plus a tail: the *)
(* bytes after the last newline, which a torn append leaves behind.  A     *)
(* tail is "whole" when only the newline is missing, which a reader parses *)
(* like any other line.                                                    *)
(***************************************************************************)
EXTENDS Lifecycle, FiniteSets

CONSTANTS
  Proc,         \* ueg invocations that may run at the same time
  Requests,     \* petitions, up to what the properties tell apart
  MaxReceipts,  \* bound on receipts ever signed
  MaxCrashes    \* bound on interrupted writes and killed processes

ASSUME NoneIsNoProc      == None \notin Proc
ASSUME BoundsAreNumbers  == MaxReceipts \in Nat /\ MaxCrashes \in Nat

(* What the two files hold.  Ids name digests.                             *)
Receipt  == [seq : Nat, prev : Nat \cup {None}, id : Nat, key : Nat \cup {None}, request : Requests]
Petition == [receipt : Nat, request : Requests]

ASSUME NoneIsNoPair == None \notin [receipt : Receipt, petition : Petition]

VARIABLES
  lock,          \* holder of the home lock, or None
  pc,            \* where each invocation is
  view,          \* what each invocation has in memory: its loaded ledger, or
                 \* while recovering the contents it plans for the two files
  receipts,      \* receipts.ndjson, complete lines
  receiptTail,   \* what follows its last newline
  petitions,     \* petitions.ndjson
  petitionTail,
  journal,       \* the pending receipt/petition pair, or None
  issued,        \* receipt ids handed out so far
  crashes,
  report,        \* verdict of the last `ueg recover`
  exported,      \* receipts in the last exported bundle
  authority,     \* the identity's lifecycle (module Lifecycle)
  transition     \* its pending mutation, or None

disk         == <<receipts, receiptTail, petitions, petitionTail, journal>>
identityVars == <<authority, transition>>
vars         == <<lock, pc, view, disk, issued, crashes, report, exported, identityVars>>

EmptyView == [receipts |-> <<>>, petitions |-> <<>>]

Waiting == {"wantRecover", "wantCheck"}
Holding == {"writing", "journaled", "receipted", "petitioned",
            "recovering", "receiptsReplaced", "petitionsReplaced"}

----------------------------------------------------------------------------
(* Reading the files *)

Torn(line, whole) == [line |-> line, whole |-> whole]
Parses(tail)      == tail # None => tail.whole
Lines(file, tail) == IF tail = None THEN file ELSE Append(file, tail.line)

(* Ledger.load: a line that does not parse fails the whole open. *)
Loadable == Parses(receiptTail) /\ Parses(petitionTail)
Loaded   == [receipts  |-> Lines(receipts, receiptTail),
             petitions |-> Lines(petitions, petitionTail)]

(* OpenReadOnly: public lifecycle, complete lines, authorised receipts. *)
OpensReadOnly == Loadable /\ VerifyBPlus(Loaded.receipts, authority)

(* Mutant: an interrupted mutation does not keep the active key from signing. *)
SigningDuringMutation == authority.active # 0

(* LoadSigning: no interrupted mutation and an active epoch. *)
SigningAvailable == transition = None /\ authority.active # 0

(* openBPlusSigning without recovery. *)
OpensForSigning == SigningAvailable /\ OpensReadOnly

----------------------------------------------------------------------------
(* Invocations *)

Enter(p, at, memory) ==
  /\ lock = None
  /\ lock' = p
  /\ pc' = [pc EXCEPT ![p] = at]
  /\ view' = [view EXCEPT ![p] = memory]

Move(p, from, to) ==
  /\ pc[p] = from
  /\ pc' = [pc EXCEPT ![p] = to]

(* An invocation ends: returns, fails or is killed.  The operating system  *)
(* releases the lock of a process that exits.                              *)
Leave(p) ==
  /\ lock' = IF lock = p THEN None ELSE lock
  /\ pc' = [pc EXCEPT ![p] = "idle"]
  /\ view' = [view EXCEPT ![p] = EmptyView]

Killed == crashes < MaxCrashes /\ crashes' = crashes + 1

(* ueg run / ueg replay: openLedger with OpenExisting, which refuses a home *)
(* with a journal.                                                          *)
OpenWrite(p) ==
  /\ pc[p] = "idle"
  /\ journal = None
  /\ OpensForSigning
  /\ Enter(p, "writing", Loaded)
  /\ UNCHANGED <<disk, issued, crashes, report, exported, identityVars>>

Close(p) ==
  /\ pc[p] = "writing"
  /\ Leave(p)
  /\ UNCHANGED <<disk, issued, crashes, report, exported, identityVars>>

NewReceipt(ledger, id, key, request) ==
  LET head == HeadBoundary(ledger.receipts) IN
  [seq |-> head.seq + 1, prev |-> head.id, id |-> id, key |-> key, request |-> request]

(* Ledger.Append up to the durable journal: re-verify what is in memory,   *)
(* check that the active epoch may sign the next sequence number, refuse   *)
(* over an existing journal.                                               *)
BeginPending(p, request) ==
  /\ issued < MaxReceipts
  /\ VerifyBPlus(view[p].receipts, authority)
  /\ VerifyPetitions(view[p].receipts, view[p].petitions)
  /\ authority.active # 0
  /\ LET receipt == NewReceipt(view[p], issued + 1, ActiveKey(authority), request) IN
       /\ SequenceAuthorized(authority.epochs[authority.active], receipt.seq)
       /\ journal' = [receipt  |-> receipt,
                      petition |-> [receipt |-> receipt.id, request |-> request]]
  /\ journal = None
  /\ issued' = issued + 1
  /\ Move(p, "writing", "journaled")
  /\ UNCHANGED <<lock, view, receipts, receiptTail, petitions, petitionTail,
                 crashes, report, exported, identityVars>>

(* The line that Append writes is the one it has just journaled. *)
AppendReceipt(p) ==
  /\ Move(p, "journaled", "receipted")
  /\ receipts' = Append(receipts, journal.receipt)
  /\ UNCHANGED <<lock, view, receiptTail, petitions, petitionTail, journal,
                 issued, crashes, report, exported, identityVars>>

AppendPetition(p) ==
  /\ Move(p, "receipted", "petitioned")
  /\ petitions' = Append(petitions, journal.petition)
  /\ UNCHANGED <<lock, view, receipts, receiptTail, petitionTail, journal,
                 issued, crashes, report, exported, identityVars>>

(* Mutant: the ledger in memory stays behind the files. *)
ClearPendingStale(p) ==
  /\ Move(p, "petitioned", "writing")
  /\ journal' = None
  /\ UNCHANGED <<lock, view, receipts, receiptTail, petitions, petitionTail,
                 issued, crashes, report, exported, identityVars>>

(* The journal goes, and only then does the ledger in memory advance. *)
ClearPending(p) ==
  /\ Move(p, "petitioned", "writing")
  /\ journal' = None
  /\ view' = [view EXCEPT ![p] =
                [receipts  |-> Append(@.receipts, journal.receipt),
                 petitions |-> Append(@.petitions, journal.petition)]]
  /\ UNCHANGED <<lock, receipts, receiptTail, petitions, petitionTail,
                 issued, crashes, report, exported, identityVars>>

(* An append that writes part of its line: the process is killed in the    *)
(* write, or the write fails and the invocation returns the error.         *)
TearReceipt(p, whole) ==
  /\ pc[p] = "journaled"
  /\ Killed
  /\ receiptTail' = Torn(journal.receipt, whole)
  /\ Leave(p)
  /\ UNCHANGED <<receipts, petitions, petitionTail, journal,
                 issued, report, exported, identityVars>>

(* Mutant: the error path of a failed append cleans the journal up. *)
TearPetitionCleansUp(p, whole) ==
  /\ pc[p] = "receipted"
  /\ Killed
  /\ petitionTail' = Torn(journal.petition, whole)
  /\ journal' = None
  /\ Leave(p)
  /\ UNCHANGED <<receipts, receiptTail, petitions, issued, report, exported, identityVars>>

TearPetition(p, whole) ==
  /\ pc[p] = "receipted"
  /\ Killed
  /\ petitionTail' = Torn(journal.petition, whole)
  /\ Leave(p)
  /\ UNCHANGED <<receipts, receiptTail, petitions, journal,
                 issued, report, exported, identityVars>>

Crash(p) ==
  /\ pc[p] # "idle"
  /\ Killed
  /\ Leave(p)
  /\ UNCHANGED <<disk, issued, report, exported, identityVars>>

----------------------------------------------------------------------------
(* ueg recover *)

(* cmdRecover looks for a journal before it takes the lock, and decides    *)
(* then whether it will recover or only check.                             *)
Inspect(p) ==
  /\ pc[p] = "idle"
  /\ pc' = [pc EXCEPT ![p] = IF journal = None THEN "wantCheck" ELSE "wantRecover"]
  /\ UNCHANGED <<lock, view, disk, issued, crashes, report, exported, identityVars>>

(* The home stayed busy for the whole lock wait. *)
GiveUp(p) ==
  /\ pc[p] \in Waiting
  /\ lock # None
  /\ pc' = [pc EXCEPT ![p] = "idle"]
  /\ UNCHANGED <<lock, view, disk, issued, crashes, report, exported, identityVars>>

(* Mutant: any unterminated tail is refused. *)
TailIsAbsent(tail, line) == tail = None

(* A tail may be cut off only if it begins the journaled line. *)
TailIsOf(tail, line) == tail # None => tail.line = line

HasReceipt(file, id)  == \E i \in DOMAIN file : file[i].id = id
HasPetition(file, id) == \E i \in DOMAIN file : file[i].receipt = id

(* Mutant: a receipt that reached its file already is refused. *)
ReceiptIsAbsent(file, r) == \A i \in DOMAIN file : file[i].id # r.id

(* A line of the file with the pending id must be the pending line. *)
SameReceipt(file, r)  == \A i \in DOMAIN file : file[i].id = r.id => file[i] = r
SamePetition(file, q) == \A i \in DOMAIN file : file[i].receipt = q.receipt => file[i] = q

Continues(file, r) ==
  r.seq = HeadBoundary(file).seq + 1 /\ r.prev = HeadBoundary(file).id

PlannedReceipts ==
  IF HasReceipt(receipts, journal.receipt.id) THEN receipts
  ELSE Append(receipts, journal.receipt)

PlannedPetitions ==
  IF HasPetition(petitions, journal.petition.receipt) THEN petitions
  ELSE Append(petitions, journal.petition)

(* recoverPendingFiles up to the first write.  The journaled receipt must  *)
(* be signed by the active key, and that key is the only one the planned   *)
(* chain is verified with.                                                 *)
RecoveryPlanHolds ==
  /\ journal.receipt.key = ActiveKey(authority)
  /\ journal.petition.receipt = journal.receipt.id
  /\ VerifyPetitions(<<journal.receipt>>, <<journal.petition>>)
  /\ TailIsOf(receiptTail, journal.receipt)
  /\ TailIsOf(petitionTail, journal.petition)
  /\ SameReceipt(receipts, journal.receipt)
  /\ SamePetition(petitions, journal.petition)
  /\ HasReceipt(receipts, journal.receipt.id) \/ Continues(receipts, journal.receipt)
  /\ VerifyChain(PlannedReceipts, {ActiveKey(authority)})
  /\ VerifyPetitions(PlannedReceipts, PlannedPetitions)

StartRecovery(p) ==
  /\ RecoveryPlanHolds
  /\ Enter(p, "recovering", [receipts |-> PlannedReceipts, petitions |-> PlannedPetitions])
  /\ UNCHANGED <<disk, issued, crashes, report, exported, identityVars>>

(* The plan is refused; nothing is written. *)
RefuseRecovery(p) ==
  /\ ~RecoveryPlanHolds
  /\ report' = "refused"
  /\ Leave(p)
  /\ UNCHANGED <<disk, issued, crashes, exported, identityVars>>

(* RecoverExisting under the lock, with the active key loaded. *)
PlanRecovery(p) ==
  /\ pc[p] = "wantRecover"
  /\ lock = None
  /\ journal # None
  /\ SigningAvailable
  /\ StartRecovery(p) \/ RefuseRecovery(p)

(* Mutants: the rewritten receipt file has the pending line only, or has   *)
(* only lost its tail; the petition file gets the receipts.                *)
ReplaceReceiptsByPending(p) ==
  /\ Move(p, "recovering", "receiptsReplaced")
  /\ receipts' = <<journal.receipt>>
  /\ receiptTail' = None
  /\ UNCHANGED <<lock, view, petitions, petitionTail, journal,
                 issued, crashes, report, exported, identityVars>>

ReplaceReceiptsByTrimmed(p) ==
  /\ Move(p, "recovering", "receiptsReplaced")
  /\ receiptTail' = None
  /\ UNCHANGED <<lock, view, receipts, petitions, petitionTail, journal,
                 issued, crashes, report, exported, identityVars>>

(* applyRecoveryPlan: one atomic rename per file.  Cutting the tail and    *)
(* adding the line are the same rename.                                    *)
ReplaceReceipts(p) ==
  /\ Move(p, "recovering", "receiptsReplaced")
  /\ receipts' = view[p].receipts
  /\ receiptTail' = None
  /\ UNCHANGED <<lock, view, petitions, petitionTail, journal,
                 issued, crashes, report, exported, identityVars>>

ReplacePetitions(p) ==
  /\ Move(p, "receiptsReplaced", "petitionsReplaced")
  /\ petitions' = view[p].petitions
  /\ petitionTail' = None
  /\ UNCHANGED <<lock, view, receipts, receiptTail, journal,
                 issued, crashes, report, exported, identityVars>>

(* Mutant: the verdict forgets that a transaction is pending. *)
VerdictOfChain(pending) ==
  IF VerifyBPlus(Loaded.receipts, authority) /\ VerifyPetitions(Loaded.receipts, Loaded.petitions)
  THEN "ok" ELSE "failed"

(* What cmdRecover concludes from a ledger it opened with `pending` known. *)
Verdict(pending) ==
  IF /\ VerifyBPlus(Loaded.receipts, authority)
     /\ VerifyPetitions(Loaded.receipts, Loaded.petitions)
     /\ ~pending
  THEN "ok" ELSE "failed"

(* The journal is removed, the ledger reloaded and verified, the lock      *)
(* released.                                                               *)
FinishRecovery(p) ==
  /\ pc[p] = "petitionsReplaced"
  /\ journal' = None
  /\ report' = Verdict(FALSE)
  /\ Leave(p)
  /\ UNCHANGED <<receipts, receiptTail, petitions, petitionTail,
                 issued, crashes, exported, identityVars>>

(* The rest of cmdRecover when there was no journal to complete: either    *)
(* none was seen before the lock (read-only open) or somebody else         *)
(* completed it meanwhile (signing open).                                  *)
CheckOnly(p) ==
  /\ lock = None
  /\ \/ /\ pc[p] = "wantCheck"
        /\ report' = IF OpensReadOnly THEN Verdict(journal # None \/ transition # None)
                     ELSE "failed"
     \/ /\ pc[p] = "wantRecover"
        /\ journal = None \/ ~SigningAvailable
        /\ report' = IF OpensForSigning THEN Verdict(FALSE) ELSE "failed"
  /\ Leave(p)
  /\ UNCHANGED <<disk, issued, crashes, exported, identityVars>>

(* ueg export: signing open without recovery, refused over a journal; the  *)
(* bundle holds the chain that was loaded.                                 *)
Export(p) ==
  /\ pc[p] = "idle"
  /\ lock = None
  /\ OpensForSigning
  /\ journal = None
  /\ VerifyPetitions(Loaded.receipts, Loaded.petitions)
  /\ exported' = Loaded.receipts
  /\ UNCHANGED <<lock, pc, view, disk, issued, crashes, report, identityVars>>

----------------------------------------------------------------------------
Init ==
  /\ lock = None
  /\ pc = [p \in Proc |-> "idle"]
  /\ view = [p \in Proc |-> EmptyView]
  /\ receipts = <<>> /\ receiptTail = None
  /\ petitions = <<>> /\ petitionTail = None
  /\ journal = None
  /\ issued = 0
  /\ crashes = 0
  /\ report = "none"
  /\ exported = <<>>
  /\ authority = Genesis(1)
  /\ transition = None

Holder(p) ==
  \/ AppendReceipt(p) \/ AppendPetition(p) \/ ClearPending(p) \/ Close(p)
  \/ ReplaceReceipts(p) \/ ReplacePetitions(p) \/ FinishRecovery(p)

Next ==
  \E p \in Proc :
    \/ OpenWrite(p)
    \/ \E request \in Requests : BeginPending(p, request)
    \/ Holder(p)
    \/ \E whole \in BOOLEAN : TearReceipt(p, whole) \/ TearPetition(p, whole)
    \/ Crash(p)
    \/ Inspect(p) \/ GiveUp(p)
    \/ PlanRecovery(p) \/ CheckOnly(p)
    \/ Export(p)

Spec == Init /\ [][Next]_vars

(* A process that holds the lock keeps running (unless it is killed), and  *)
(* the operator runs `ueg recover` again until it gets the lock.           *)
Fairness ==
  \A p \in Proc :
    /\ WF_vars(Holder(p))
    /\ WF_vars(Inspect(p))
    /\ SF_vars(PlanRecovery(p))
    /\ SF_vars(CheckOnly(p))

FairSpec == Spec /\ Fairness

----------------------------------------------------------------------------
(* Properties *)

Views    == [receipts : Seq(Receipt), petitions : Seq(Petition)]

TypeOK ==
  /\ lock \in Proc \cup {None}
  /\ pc \in [Proc -> {"idle"} \cup Waiting \cup Holding]
  /\ view \in [Proc -> Views]
  /\ receipts \in Seq(Receipt)
  /\ receiptTail \in [line : Receipt, whole : BOOLEAN] \cup {None}
  /\ petitions \in Seq(Petition)
  /\ petitionTail \in [line : Petition, whole : BOOLEAN] \cup {None}
  /\ journal \in [receipt : Receipt, petition : Petition] \cup {None}
  /\ issued \in Nat
  /\ crashes \in Nat
  /\ report \in {"none", "ok", "failed", "refused"}
  /\ exported \in Seq(Receipt)

(* The receipts on disk verify at every instant: in the middle of an       *)
(* append, after a kill and in the middle of a recovery.  A torn tail may  *)
(* make the file unreadable for a while, but no complete line is ever      *)
(* missing, doubled, unlinked or signed outside its window.                *)
ChainHolds == VerifyBPlus(receipts, authority)

(* Without a journal there is nothing half written: no torn line in either *)
(* file and exactly one request per receipt.  So a home that refuses       *)
(* nothing has nothing to recover.                                         *)
QuietHomeIsComplete ==
  journal = None =>
    /\ receiptTail = None /\ petitionTail = None
    /\ VerifyPetitions(receipts, petitions)

(* The ledger a writer holds in memory, which it links the next receipt    *)
(* to, is the ledger on disk, whatever other invocations and crashes came  *)
(* between its appends.                                                    *)
WriterSeesDisk == \A p \in Proc : pc[p] = "writing" => view[p] = Loaded

(* Whatever point a write was interrupted at, the recovery plan is never   *)
(* refused (LIMITS.md: `ueg recover` completes the exact signed pair).     *)
NeverRefused == report # "refused"

(* The committed log: a receipt counts from the moment its journal is      *)
(* durable, because recovery will complete it.                             *)
Committed ==
  IF journal = None THEN receipts ELSE PlannedReceipts

(* Journal, appends, crashes and recovery implement the append-only log:   *)
(* an interrupted write is never lost, doubled or reordered.               *)
Log == INSTANCE EvidenceLog WITH log <- Committed, Keys <- {1}, Ids <- 1 .. MaxReceipts
ImplementsLog == Log!Spec

(* An exported bundle stays a prefix of the ledger for ever: nothing that  *)
(* left the home is contradicted by a later crash or recovery.             *)
ExportStands == Len(exported) <= Len(receipts) /\ SubSeq(receipts, 1, Len(exported)) = exported

(* `ueg recover` reports success only of a home without a journal whose    *)
(* requests are complete, although it looked for the journal before it     *)
(* took the lock.                                                          *)
RecoverIsHonest ==
  [][report' = "ok" /\ report # "ok" =>
       journal' = None /\ transition = None /\ VerifyPetitions(receipts', petitions')]_vars

(* An interrupted write is completed eventually, if the operator keeps     *)
(* running `ueg recover` and crashes stop.                                 *)
InterruptedWriteCompletes == journal # None ~> journal = None
=============================================================================
