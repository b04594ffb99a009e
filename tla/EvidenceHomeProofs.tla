-------------------------- MODULE EvidenceHomeProofs --------------------------
(***************************************************************************)
(* Proofs about an evidence home, for every set of invocations, every set  *)
(* of requests and every bound.  Part one is the receipt ledger under the  *)
(* authority it was opened with (ReceiptLedger): the chain, its petitions  *)
(* and the recovery of a journaled pair.  Part two is the whole home       *)
(* (EvidenceHome), with its lifecycle: the private keys follow it, a pair  *)
(* of one's own stays recoverable, and receipts and lifecycle change like  *)
(* the abstract signing authority.                                         *)
(***************************************************************************)
EXTENDS EvidenceHome, LifecycleProofs

----------------------------------------------------------------------------
(* PART ONE: the receipt ledger                                            *)

----------------------------------------------------------------------------
(* The inductive invariant *)

(* Petition number i belongs to receipt number i, as far as there are       *)
(* petitions; Complete when no receipt is without one.                      *)
Paired(rs, qs) ==
  /\ Len(qs) <= Len(rs)
  /\ \A i \in 1 .. Len(qs) : qs[i].receipt = rs[i].id /\ qs[i].request = rs[i].request

Complete(rs, qs) == Paired(rs, qs) /\ Len(qs) = Len(rs)

(* How far a journaled pair has got into the two files. *)
NotWritten(rs, qs, j) ==
  /\ Complete(rs, qs)
  /\ Continues(rs, j.receipt)
  /\ \A i \in 1 .. Len(rs) : rs[i].id # j.receipt.id

HalfWritten(rs, qs, j) ==
  /\ Paired(rs, qs)
  /\ Len(rs) = Len(qs) + 1
  /\ rs[Len(rs)] = j.receipt

Written(rs, qs, j) ==
  /\ Complete(rs, qs)
  /\ Len(rs) > 0
  /\ rs[Len(rs)] = j.receipt
  /\ qs[Len(qs)] = j.petition

FixedAuthority == authority = Genesis(1) /\ transition = None

LockInv == \A p \in Proc : pc[p] \in Holding <=> lock = p

ChainInv ==
  /\ VerifyChain(receipts, {1})
  /\ \A i \in 1 .. Len(receipts) : receipts[i].id <= issued

QuietInv ==
  journal = None =>
    receiptTail = None /\ petitionTail = None /\ Complete(receipts, petitions)

(* A journaled pair fits what is in the files, whatever was interrupted. *)
PairFits ==
  /\ journal.receipt.id <= issued
  /\ journal.petition.receipt = journal.receipt.id
  /\ journal.petition.request = journal.receipt.request
  /\ \/ /\ NotWritten(receipts, petitions, journal)
        /\ TailIsOf(receiptTail, journal.receipt) /\ petitionTail = None
     \/ /\ HalfWritten(receipts, petitions, journal)
        /\ receiptTail = None /\ TailIsOf(petitionTail, journal.petition)
     \/ /\ Written(receipts, petitions, journal)
        /\ receiptTail = None /\ petitionTail = None

JournalInv == journal # None => journal.receipt.key = 1 /\ PairFits

(* The same of files that the keys of `trust` sign, for the proofs about    *)
(* EvidenceHome as well.                                                    *)
PendingOver(trust) ==
  /\ receipts \in Seq(Receipt) /\ petitions \in Seq(Petition)
  /\ VerifyChain(receipts, trust)
  /\ \A i \in 1 .. Len(receipts) : receipts[i].id <= issued
  /\ journal \in [receipt : Receipt, petition : Petition]
  /\ journal.receipt.key \in trust
  /\ PairFits

NoTails == receiptTail = None /\ petitionTail = None
OnDisk  == [receipts |-> receipts, petitions |-> petitions]

(* What the process that holds the lock knows of the files. *)
HolderInv(p) ==
  /\ pc[p] = "writing" => journal = None /\ view[p] = OnDisk
  /\ pc[p] = "journaled" =>
       /\ journal # None /\ NoTails /\ NotWritten(receipts, petitions, journal)
       /\ view[p] = OnDisk
  /\ pc[p] = "receipted" =>
       /\ journal # None /\ NoTails /\ HalfWritten(receipts, petitions, journal)
       /\ receipts = Append(view[p].receipts, journal.receipt)
       /\ petitions = view[p].petitions
  /\ pc[p] = "petitioned" =>
       /\ journal # None /\ NoTails /\ Written(receipts, petitions, journal)
       /\ receipts = Append(view[p].receipts, journal.receipt)
       /\ petitions = Append(view[p].petitions, journal.petition)
  /\ pc[p] = "recovering" =>
       /\ journal # None
       /\ view[p].receipts = PlannedReceipts
       /\ view[p].petitions = PlannedPetitions
  /\ pc[p] = "receiptsReplaced" =>
       /\ journal # None
       /\ ~NotWritten(receipts, petitions, journal)
       /\ view[p].petitions = PlannedPetitions
  /\ pc[p] = "petitionsReplaced" =>
       /\ journal # None /\ NoTails /\ Written(receipts, petitions, journal)

IInv ==
  /\ TypeOK
  /\ FixedAuthority
  /\ LockInv
  /\ ChainInv
  /\ QuietInv
  /\ JournalInv
  /\ \A p \in Proc : HolderInv(p)
  /\ report # "refused"

----------------------------------------------------------------------------
(* Lemmas about the operators of Lifecycle *)

(* Under the genesis authority one key signs, and it signs every number.    *)
LEMMA GenesisFacts ==
  /\ Genesis(1).active = 1
  /\ ActiveKey(Genesis(1)) = 1
  /\ TrustedKeys(Genesis(1)) = {1}
  /\ \A seq \in Nat : SequenceAuthorized(Genesis(1).epochs[1], seq)
<1> DEFINE window == [start |-> -1, end |-> None]
           epoch  == [key |-> 1, status |-> "ACTIVE", windows |-> <<window>>, anchor |-> None]
<1>1. Genesis(1).epochs = <<epoch>> /\ Genesis(1).active = 1
  BY DEF Genesis, NewEpoch, OpenWindow, EmptyBoundary, Boundary
<1>2. epoch.key = 1 /\ epoch.windows = <<window>> /\ DOMAIN <<epoch>> = {1} /\ <<epoch>>[1] = epoch
  OBVIOUS
<1>3. \A seq \in Nat : Covers(window, seq)
  BY DEF Covers
<1>4. \A seq \in Nat : SequenceAuthorized(epoch, seq)
  <2>1. 1 \in DOMAIN epoch.windows /\ epoch.windows[1] = window
    BY <1>2
  <2> QED BY <2>1, <1>3 DEF SequenceAuthorized
<1> HIDE DEF epoch, window
<1>5. Genesis(1).epochs[1] = epoch
  BY <1>1, <1>2
<1> QED
  BY <1>1, <1>2, <1>4, <1>5 DEF ActiveKey, TrustedKeys

(* So full B+ verification of a chain is verification with that key.        *)
LEMMA BPlusIsChain ==
  ASSUME NEW rs \in Seq(Receipt)
  PROVE  VerifyBPlus(rs, Genesis(1)) <=> VerifyChain(rs, {1})
<1>1. BoundariesExact(rs, Genesis(1))
  BY DEF BoundariesExact, Genesis
<1>2. ASSUME VerifyChain(rs, {1})
      PROVE  InsideWindows(rs, Genesis(1))
  <2> SUFFICES ASSUME NEW i \in DOMAIN rs
               PROVE  /\ 1 \in DOMAIN Genesis(1).epochs
                      /\ Genesis(1).epochs[1].key = rs[i].key
                      /\ SequenceAuthorized(Genesis(1).epochs[1], rs[i].seq)
    BY DEF InsideWindows
  <2>1. rs[i].key = 1 /\ rs[i].seq \in Nat
    BY <1>2 DEF VerifyChain, Receipt
  <2>2. 1 \in DOMAIN Genesis(1).epochs /\ Genesis(1).epochs[1].key = 1
    BY DEF Genesis, NewEpoch
  <2> QED
    BY <2>1, <2>2, GenesisFacts
<1> QED
  BY <1>1, <1>2, GenesisFacts DEF VerifyBPlus

(* A verified chain is still one after the receipt that continues it.       *)
LEMMA ChainGrows ==
  ASSUME NEW rs \in Seq(Receipt), NEW r \in Receipt, NEW trust,
         VerifyChain(rs, trust), Continues(rs, r), r.key \in trust,
         \A i \in 1 .. Len(rs) : rs[i].id # r.id
  PROVE  VerifyChain(Append(rs, r), trust)
<1> DEFINE n == Len(rs)
           s == Append(rs, r)
<1>1. /\ n \in Nat /\ Len(s) = n + 1 /\ DOMAIN s = 1 .. n + 1 /\ DOMAIN rs = 1 .. n
      /\ s[n + 1] = r
      /\ \A i \in 1 .. n : s[i] = rs[i]
  OBVIOUS
<1>2. r.seq = n /\ r.prev = (IF n = 0 THEN None ELSE rs[n].id)
  <2>1. CASE n = 0
    <3>1. rs = <<>> BY <2>1
    <3> QED BY <3>1, <2>1 DEF Continues, HeadBoundary, EmptyBoundary, Boundary
  <2>2. CASE n # 0
    <3>1. rs # <<>> /\ rs[n].seq = n - 1
      BY <2>2, <1>1 DEF VerifyChain
    <3> QED BY <3>1, <2>2, <1>1 DEF Continues, HeadBoundary, Boundary
  <2> QED BY <2>1, <2>2
<1> SUFFICES ASSUME NEW i \in 1 .. n + 1
             PROVE  /\ s[i].seq = i - 1
                    /\ s[i].prev = (IF i = 1 THEN None ELSE s[i - 1].id)
                    /\ s[i].key \in trust
                    /\ \A j \in 1 .. n + 1 : s[j].id = s[i].id => j = i
  BY <1>1 DEF VerifyChain
<1>3. CASE i = n + 1
  <2>1. s[i] = r /\ r.seq = i - 1 /\ s[i].key \in trust
    BY <1>1, <1>2, <1>3
  <2>2. s[i].prev = (IF i = 1 THEN None ELSE s[i - 1].id)
    <3>1. CASE n = 0
      BY <3>1, <2>1, <1>2, <1>3
    <3>2. CASE n # 0
      <4>1. n \in 1 .. n /\ i - 1 = n /\ i # 1
        BY <3>2, <1>1, <1>3
      <4>2. s[i - 1] = rs[n]
        BY <4>1, <1>1
      <4> QED BY <4>1, <4>2, <3>2, <2>1, <1>2
    <3> QED BY <3>1, <3>2
  <2>3. ASSUME NEW j \in 1 .. n + 1, s[j].id = s[i].id
        PROVE  j = i
    <3>1. CASE j \in 1 .. n
      BY <3>1, <2>1, <2>3, <1>1
    <3>2. CASE j = n + 1
      BY <3>2, <1>3
    <3> QED BY <3>1, <3>2, <1>1
  <2> HIDE DEF s
  <2> QED BY <2>1, <2>2, <2>3
<1>4. CASE i \in 1 .. n
  <2>1. /\ rs[i].seq = i - 1
        /\ rs[i].prev = (IF i = 1 THEN None ELSE rs[i - 1].id)
        /\ rs[i].key \in trust
        /\ \A j \in 1 .. n : rs[j].id = rs[i].id => j = i
    BY <1>1, <1>4 DEF VerifyChain
  <2> QED BY <2>1, <1>1, <1>4
<1> QED BY <1>3, <1>4

(* Complete files bind: every petition to one receipt and back.             *)
LEMMA CompleteBinds ==
  ASSUME NEW rs \in Seq(Receipt), NEW qs \in Seq(Petition), NEW trust,
         VerifyChain(rs, trust), Complete(rs, qs)
  PROVE  VerifyPetitions(rs, qs)
<1>1. DOMAIN rs = 1 .. Len(rs) /\ DOMAIN qs = 1 .. Len(rs) /\ Len(qs) = Len(rs)
  BY DEF Complete
<1>2. \A i \in 1 .. Len(rs) : qs[i].receipt = rs[i].id /\ qs[i].request = rs[i].request
  BY DEF Complete, Paired
<1>3. \A i, j \in 1 .. Len(rs) : rs[j].id = rs[i].id => j = i
  BY <1>1 DEF VerifyChain
<1> QED
  BY <1>1, <1>2, <1>3 DEF VerifyPetitions
(* A receipt, and then its petition, extend paired files.                   *)
LEMMA PairsGrow ==
  ASSUME NEW rs \in Seq(Receipt), NEW qs \in Seq(Petition),
         NEW r \in Receipt, NEW q \in Petition,
         q.receipt = r.id, q.request = r.request
  PROVE  /\ Complete(rs, qs) =>
              /\ Paired(Append(rs, r), qs)
              /\ Len(Append(rs, r)) = Len(qs) + 1
              /\ Append(rs, r)[Len(Append(rs, r))] = r
         /\ Paired(rs, qs) /\ Len(rs) = Len(qs) + 1 /\ rs[Len(rs)] = r =>
              /\ Complete(rs, Append(qs, q))
              /\ Append(qs, q)[Len(Append(qs, q))] = q
<1>1. /\ Len(rs) \in Nat /\ Len(qs) \in Nat
      /\ Len(Append(rs, r)) = Len(rs) + 1 /\ Append(rs, r)[Len(rs) + 1] = r
      /\ \A i \in 1 .. Len(rs) : Append(rs, r)[i] = rs[i]
      /\ Len(Append(qs, q)) = Len(qs) + 1 /\ Append(qs, q)[Len(qs) + 1] = q
      /\ \A i \in 1 .. Len(qs) : Append(qs, q)[i] = qs[i]
  OBVIOUS
<1>2. ASSUME Complete(rs, qs)
      PROVE  Paired(Append(rs, r), qs)
  BY <1>1, <1>2 DEF Complete, Paired
<1>3. ASSUME Paired(rs, qs), Len(rs) = Len(qs) + 1, rs[Len(rs)] = r
      PROVE  Complete(rs, Append(qs, q))
  <2>1. \A i \in 1 .. Len(qs) + 1 :
          /\ Append(qs, q)[i].receipt = rs[i].id
          /\ Append(qs, q)[i].request = rs[i].request
    <3> SUFFICES ASSUME NEW i \in 1 .. Len(qs) + 1
                 PROVE  /\ Append(qs, q)[i].receipt = rs[i].id
                        /\ Append(qs, q)[i].request = rs[i].request
      OBVIOUS
    <3>1. CASE i \in 1 .. Len(qs)
      <4>1. qs[i].receipt = rs[i].id /\ qs[i].request = rs[i].request
        BY <1>3, <3>1 DEF Paired
      <4> QED BY <4>1, <3>1, <1>1
    <3>2. CASE i = Len(qs) + 1
      BY <3>2, <1>3, <1>1
    <3> QED BY <3>1, <3>2, <1>1
  <2> QED BY <2>1, <1>1, <1>3 DEF Complete, Paired
<1> QED BY <1>1, <1>2, <1>3 DEF Complete

----------------------------------------------------------------------------
(* The recovery plan *)

(* What recovery plans for a journaled pair, by how far it got.             *)
LEMMA PlanCases ==
  ASSUME NEW trust, PendingOver(trust)
  PROVE  /\ NotWritten(receipts, petitions, journal) =>
              /\ PlannedReceipts = Append(receipts, journal.receipt)
              /\ PlannedPetitions = Append(petitions, journal.petition)
         /\ HalfWritten(receipts, petitions, journal) =>
              /\ PlannedReceipts = receipts
              /\ PlannedPetitions = Append(petitions, journal.petition)
         /\ Written(receipts, petitions, journal) =>
              /\ PlannedReceipts = receipts
              /\ PlannedPetitions = petitions
<1>1. /\ receipts \in Seq(Receipt) /\ petitions \in Seq(Petition)
      /\ DOMAIN receipts = 1 .. Len(receipts) /\ DOMAIN petitions = 1 .. Len(petitions)
      /\ Len(receipts) \in Nat /\ Len(petitions) \in Nat
      /\ journal.petition.receipt = journal.receipt.id
      /\ VerifyChain(receipts, trust)
  BY DEF PendingOver, PairFits
<1>2. ASSUME NotWritten(receipts, petitions, journal)
      PROVE  /\ ~HasReceipt(receipts, journal.receipt.id)
             /\ ~HasPetition(petitions, journal.petition.receipt)
  BY <1>1, <1>2 DEF NotWritten, Complete, Paired, HasReceipt, HasPetition
<1>3. ASSUME HalfWritten(receipts, petitions, journal)
      PROVE  /\ HasReceipt(receipts, journal.receipt.id)
             /\ ~HasPetition(petitions, journal.petition.receipt)
  <2>1. Len(receipts) \in DOMAIN receipts
    BY <1>1, <1>3 DEF HalfWritten
  <2>2. \A i \in 1 .. Len(petitions) : receipts[i].id # journal.receipt.id
    BY <1>1, <1>3, <2>1 DEF HalfWritten, VerifyChain
  <2> QED
    BY <1>1, <1>3, <2>1, <2>2 DEF HalfWritten, Paired, HasReceipt, HasPetition
<1>4. ASSUME Written(receipts, petitions, journal)
      PROVE  /\ HasReceipt(receipts, journal.receipt.id)
             /\ HasPetition(petitions, journal.petition.receipt)
  BY <1>1, <1>4 DEF Written, Complete, HasReceipt, HasPetition
<1> QED
  BY <1>2, <1>3, <1>4 DEF PlannedReceipts, PlannedPetitions

(* Whatever was interrupted, the planned files hold the journaled pair, and *)
(* everything the plan is checked for holds.                                *)
LEMMA PlanCompletes ==
  ASSUME NEW trust, PendingOver(trust)
  PROVE  /\ PlannedReceipts \in Seq(Receipt)
         /\ PlannedPetitions \in Seq(Petition)
         /\ VerifyChain(PlannedReceipts, trust)
         /\ Written(PlannedReceipts, PlannedPetitions, journal)
         /\ \A i \in 1 .. Len(PlannedReceipts) : PlannedReceipts[i].id <= issued
<1>1. /\ receipts \in Seq(Receipt) /\ petitions \in Seq(Petition)
      /\ journal.receipt \in Receipt /\ journal.petition \in Petition
      /\ Len(receipts) \in Nat /\ Len(petitions) \in Nat
  BY DEF PendingOver
<1>2. /\ journal.receipt.key \in trust /\ journal.receipt.id <= issued
      /\ journal.petition.receipt = journal.receipt.id
      /\ journal.petition.request = journal.receipt.request
  BY DEF PendingOver, PairFits
<1>3. /\ VerifyChain(receipts, trust)
      /\ \A i \in 1 .. Len(receipts) : receipts[i].id <= issued
  BY DEF PendingOver
<1>4. CASE NotWritten(receipts, petitions, journal)
  <2> DEFINE s == Append(receipts, journal.receipt)
  <2>1. PlannedReceipts = s /\ PlannedPetitions = Append(petitions, journal.petition)
    BY <1>4, PlanCases
  <2>2. VerifyChain(s, trust)
    BY <1>1, <1>2, <1>3, <1>4, ChainGrows DEF NotWritten
  <2>3. s \in Seq(Receipt) /\ Len(s) = Len(receipts) + 1
    BY <1>1
  <2>4. Paired(s, petitions) /\ Len(s) = Len(petitions) + 1 /\ s[Len(s)] = journal.receipt
    BY <1>1, <1>2, <1>4, PairsGrow DEF NotWritten
  <2>5. \A i \in 1 .. Len(s) : s[i].id <= issued
    BY <1>1, <1>2, <1>3
  <2> HIDE DEF s
  <2>6. /\ Complete(s, Append(petitions, journal.petition))
        /\ Append(petitions, journal.petition)[Len(Append(petitions, journal.petition))] = journal.petition
    BY <1>1, <1>2, <2>3, <2>4, PairsGrow
  <2> QED BY <1>1, <2>1, <2>2, <2>3, <2>4, <2>5, <2>6 DEF Written
<1>5. CASE HalfWritten(receipts, petitions, journal)
  <2>1. PlannedReceipts = receipts /\ PlannedPetitions = Append(petitions, journal.petition)
    BY <1>5, PlanCases
  <2>2. /\ Complete(receipts, Append(petitions, journal.petition))
        /\ Append(petitions, journal.petition)[Len(Append(petitions, journal.petition))] = journal.petition
    BY <1>1, <1>2, <1>5, PairsGrow DEF HalfWritten
  <2> QED BY <1>1, <1>3, <1>5, <2>1, <2>2 DEF Written, HalfWritten
<1>6. CASE Written(receipts, petitions, journal)
  <2>1. PlannedReceipts = receipts /\ PlannedPetitions = petitions
    BY <1>6, PlanCases
  <2> QED BY <1>1, <1>3, <1>6, <2>1
<1> QED BY <1>4, <1>5, <1>6 DEF PendingOver, PairFits

LEMMA PlanPasses ==
  ASSUME PendingOver({ActiveKey(authority)})
  PROVE  RecoveryPlanHolds
<1>1. /\ receipts \in Seq(Receipt) /\ petitions \in Seq(Petition)
      /\ DOMAIN receipts = 1 .. Len(receipts) /\ DOMAIN petitions = 1 .. Len(petitions)
      /\ Len(receipts) \in Nat /\ Len(petitions) \in Nat
      /\ journal.receipt \in Receipt /\ journal.petition \in Petition
  BY DEF PendingOver
<1>2. journal.receipt.key = ActiveKey(authority) /\ VerifyChain(receipts, {ActiveKey(authority)})
  BY DEF PendingOver
<1>3. VerifyChain(PlannedReceipts, {ActiveKey(authority)}) /\ VerifyPetitions(PlannedReceipts, PlannedPetitions)
  <2> DEFINE trust == {ActiveKey(authority)}
  <2>1. PendingOver(trust)
    OBVIOUS
  <2> HIDE DEF trust
  <2>2. /\ PlannedReceipts \in Seq(Receipt) /\ PlannedPetitions \in Seq(Petition)
        /\ VerifyChain(PlannedReceipts, trust) /\ Complete(PlannedReceipts, PlannedPetitions)
    BY <2>1, PlanCompletes DEF Written
  <2>3. VerifyPetitions(PlannedReceipts, PlannedPetitions)
    BY <2>2, CompleteBinds
  <2> QED BY <2>2, <2>3 DEF trust
<1>4. VerifyPetitions(<<journal.receipt>>, <<journal.petition>>)
  BY <1>1 DEF VerifyPetitions, PendingOver, PairFits
<1>5. TailIsOf(receiptTail, journal.receipt) /\ TailIsOf(petitionTail, journal.petition)
  BY DEF PendingOver, PairFits, TailIsOf
<1> DEFINE ReceiptWritten == Len(receipts) > 0 /\ receipts[Len(receipts)] = journal.receipt
<1>5a. NotWritten(receipts, petitions, journal) \/ ReceiptWritten
  <2>1. ASSUME HalfWritten(receipts, petitions, journal) PROVE ReceiptWritten
    BY <1>1, <2>1 DEF HalfWritten
  <2>2. ASSUME Written(receipts, petitions, journal) PROVE ReceiptWritten
    BY <2>2 DEF Written
  <2> HIDE DEF ReceiptWritten
  <2> QED BY <2>1, <2>2 DEF PendingOver, PairFits
<1>6. SameReceipt(receipts, journal.receipt)
  <2>1. CASE NotWritten(receipts, petitions, journal)
    BY <1>1, <2>1 DEF NotWritten, SameReceipt
  <2>2. CASE ReceiptWritten
    BY <1>1, <1>2, <2>2 DEF SameReceipt, VerifyChain
  <2> QED BY <1>5a, <2>1, <2>2
<1>7. SamePetition(petitions, journal.petition)
  <2>1. \A i \in 1 .. Len(receipts), k \in 1 .. Len(receipts) :
          receipts[i].id = receipts[k].id => i = k
    BY <1>1, <1>2 DEF VerifyChain
  <2>2. CASE NotWritten(receipts, petitions, journal)
    BY <1>1, <2>2 DEF NotWritten, Complete, Paired, SamePetition, PendingOver, PairFits
  <2>3. CASE HalfWritten(receipts, petitions, journal)
    BY <1>1, <2>1, <2>3 DEF HalfWritten, Paired, SamePetition, PendingOver, PairFits
  <2>4. CASE Written(receipts, petitions, journal)
    BY <1>1, <2>1, <2>4 DEF Written, Complete, Paired, SamePetition, PendingOver, PairFits
  <2> QED BY <2>2, <2>3, <2>4 DEF PendingOver, PairFits
<1>8. HasReceipt(receipts, journal.receipt.id) \/ Continues(receipts, journal.receipt)
  <2>1. CASE NotWritten(receipts, petitions, journal)
    BY <2>1 DEF NotWritten
  <2>2. CASE ReceiptWritten
    BY <1>1, <2>2 DEF HasReceipt
  <2> QED BY <1>5a, <2>1, <2>2
<1> QED
  BY <1>2, <1>3, <1>4, <1>5, <1>6, <1>7, <1>8 DEF RecoveryPlanHolds, PendingOver, PairFits

(* Under the genesis authority. *)
LEMMA PendingOverOne ==
  ASSUME TypeOK, ChainInv, JournalInv, journal # None
  PROVE  PendingOver({1})
BY DEF TypeOK, ChainInv, JournalInv, PendingOver

LEMMA PlanOf ==
  ASSUME TypeOK, ChainInv, JournalInv, journal # None
  PROVE  /\ NotWritten(receipts, petitions, journal) =>
              /\ PlannedReceipts = Append(receipts, journal.receipt)
              /\ PlannedPetitions = Append(petitions, journal.petition)
         /\ HalfWritten(receipts, petitions, journal) =>
              /\ PlannedReceipts = receipts
              /\ PlannedPetitions = Append(petitions, journal.petition)
         /\ Written(receipts, petitions, journal) =>
              /\ PlannedReceipts = receipts
              /\ PlannedPetitions = petitions
BY PendingOverOne, PlanCases

LEMMA PlanIsWritten ==
  ASSUME TypeOK, ChainInv, JournalInv, journal # None
  PROVE  /\ PlannedReceipts \in Seq(Receipt)
         /\ PlannedPetitions \in Seq(Petition)
         /\ VerifyChain(PlannedReceipts, {1})
         /\ Written(PlannedReceipts, PlannedPetitions, journal)
         /\ \A i \in 1 .. Len(PlannedReceipts) : PlannedReceipts[i].id <= issued
BY PendingOverOne, PlanCompletes

LEMMA PlanHolds ==
  ASSUME TypeOK, FixedAuthority, ChainInv, JournalInv, journal # None
  PROVE  RecoveryPlanHolds
<1>1. ActiveKey(authority) = 1
  BY GenesisFacts DEF FixedAuthority
<1> QED BY <1>1, PendingOverOne, PlanPasses

----------------------------------------------------------------------------
(* Frames: what the parts of a step that move processes preserve *)

Places == {"idle"} \cup Waiting \cup Holding

(* Nothing is claimed of a process that does not hold the lock.             *)
LEMMA NotHolder ==
  \A q \in Proc : /\ pc[q] \notin Holding => HolderInv(q)
                  /\ pc'[q] \notin Holding => HolderInv(q)'
  BY DEF HolderInv, Holding

LEMMA DiskFrame ==
  ASSUME IInv, UNCHANGED <<disk, issued, identityVars>>
  PROVE  FixedAuthority' /\ ChainInv' /\ QuietInv' /\ JournalInv'
<1> USE DEF IInv, disk, identityVars
<1>1. FixedAuthority'
  BY DEF FixedAuthority
<1>2. ChainInv'
  BY DEF ChainInv
<1>3. QuietInv'
  BY DEF QuietInv
<1>4. JournalInv'
  BY DEF JournalInv, PairFits
<1> QED BY <1>1, <1>2, <1>3, <1>4

(* A free lock is taken: the process that takes it is the only holder.      *)
LEMMA EnterFrame ==
  ASSUME IInv, NEW p \in Proc, NEW at \in Holding, NEW memory \in Views,
         Enter(p, at, memory)
  PROVE  /\ lock' \in Proc \cup {None} /\ pc' \in [Proc -> Places] /\ view' \in [Proc -> Views]
         /\ LockInv'
         /\ pc'[p] = at /\ view'[p] = memory
         /\ \A q \in Proc : q # p => HolderInv(q)'
<1>1. /\ lock = None /\ lock' = p
      /\ pc \in [Proc -> Places] /\ pc' = [pc EXCEPT ![p] = at]
      /\ view \in [Proc -> Views] /\ view' = [view EXCEPT ![p] = memory]
  BY DEF IInv, TypeOK, Enter, Places
<1>2. \A q \in Proc : pc[q] \notin Holding
  BY <1>1, NoneIsNoProc DEF IInv, LockInv
<1>3. \A q \in Proc : q # p => pc'[q] \notin Holding
  BY <1>1, <1>2
<1>4. LockInv'
  BY <1>1, <1>3 DEF LockInv
<1> QED BY <1>1, <1>3, <1>4, NotHolder DEF Places

(* The holder goes on: it stays the only holder.                            *)
LEMMA MoveFrame ==
  ASSUME IInv, NEW p \in Proc, NEW from \in Holding, NEW to \in Holding,
         Move(p, from, to), lock' = lock
  PROVE  /\ lock' \in Proc \cup {None} /\ pc' \in [Proc -> Places]
         /\ LockInv'
         /\ pc[p] = from /\ pc'[p] = to
         /\ \A q \in Proc : q # p => HolderInv(q)'
<1>1. /\ pc[p] = from /\ lock \in Proc \cup {None}
      /\ pc \in [Proc -> Places] /\ pc' = [pc EXCEPT ![p] = to]
  BY DEF IInv, TypeOK, Move, Places
<1>2. lock = p
  BY <1>1 DEF IInv, LockInv
<1>3. \A q \in Proc : q # p => pc[q] \notin Holding
  BY <1>2 DEF IInv, LockInv
<1>4. \A q \in Proc : q # p => pc'[q] \notin Holding
  BY <1>1, <1>3
<1>5. LockInv'
  BY <1>1, <1>2, <1>4 DEF LockInv
<1> QED BY <1>1, <1>4, <1>5, NotHolder DEF Places

LEMMA EmptyViewType == EmptyView \in Views
  BY DEF EmptyView, Views

(* A process leaves.  Whoever else holds the lock keeps it.                 *)
LEMMA LeaveFrame ==
  ASSUME IInv, NEW p \in Proc, Leave(p)
  PROVE  /\ lock' \in Proc \cup {None} /\ pc' \in [Proc -> Places] /\ view' \in [Proc -> Views]
         /\ LockInv'
         /\ HolderInv(p)'
         /\ \A q \in Proc : q # p => pc'[q] = pc[q] /\ view'[q] = view[q]
         /\ pc[p] \in Holding => \A q \in Proc : HolderInv(q)'
<1>1. /\ lock \in Proc \cup {None} /\ lock' = (IF lock = p THEN None ELSE lock)
      /\ pc \in [Proc -> Places] /\ pc' = [pc EXCEPT ![p] = "idle"]
      /\ view \in [Proc -> Views] /\ view' = [view EXCEPT ![p] = EmptyView]
  BY DEF IInv, TypeOK, Leave, Places
<1>2. /\ pc' \in [Proc -> Places] /\ view' \in [Proc -> Views] /\ lock' \in Proc \cup {None}
      /\ pc'[p] = "idle"
      /\ \A q \in Proc : q # p => pc'[q] = pc[q] /\ view'[q] = view[q]
  BY <1>1, EmptyViewType DEF Places
<1>3. "idle" \notin Holding
  BY DEF Holding
<1>4. LockInv'
  <2> SUFFICES ASSUME NEW q \in Proc
               PROVE  pc'[q] \in Holding <=> lock' = q
    BY DEF LockInv
  <2>1. CASE q = p
    BY <2>1, <1>1, <1>2, <1>3, NoneIsNoProc
  <2>2. CASE q # p
    BY <2>2, <1>1, <1>2, NoneIsNoProc DEF IInv, LockInv
  <2> QED BY <2>1, <2>2
<1>5. HolderInv(p)'
  BY <1>2, <1>3, NotHolder
<1>6. ASSUME pc[p] \in Holding, NEW q \in Proc
      PROVE  HolderInv(q)'
  <2>1. CASE q = p
    BY <2>1, <1>5
  <2>2. CASE q # p
    <3>1. lock = p
      BY <1>6 DEF IInv, LockInv
    <3>2. pc[q] \notin Holding
      BY <3>1, <2>2 DEF IInv, LockInv
    <3> QED BY <3>2, <2>2, <1>2, NotHolder
  <2> QED BY <2>1, <2>2
<1> QED BY <1>2, <1>4, <1>5, <1>6

(* A process that keeps its place and memory over unchanged files.          *)
LEMMA HolderFrame ==
  ASSUME NEW q \in Proc, HolderInv(q), UNCHANGED disk,
         pc'[q] = pc[q], view'[q] = view[q]
  PROVE  HolderInv(q)'
  BY DEF HolderInv, disk, NoTails, OnDisk, PlannedReceipts, PlannedPetitions
----------------------------------------------------------------------------
(* Every step preserves the invariant *)

LEMMA HoldingPlaces ==
  {"writing", "journaled", "receipted", "petitioned",
   "recovering", "receiptsReplaced", "petitionsReplaced"} = Holding
  BY DEF Holding

(* Without a journal the readable files are the files.                      *)
LEMMA LoadedQuiet ==
  ASSUME IInv, journal = None
  PROVE  Loaded = OnDisk /\ OnDisk \in Views
  BY DEF IInv, QuietInv, Loaded, Lines, OnDisk, Views, TypeOK

LEMMA OpenWriteStep ==
  ASSUME IInv, NEW p \in Proc, OpenWrite(p)
  PROVE  IInv'
<1>1. /\ journal = None /\ Enter(p, "writing", Loaded)
      /\ UNCHANGED <<disk, issued, crashes, report, exported, identityVars>>
  BY DEF OpenWrite
<1>2. Loaded = OnDisk /\ OnDisk \in Views
  BY <1>1, LoadedQuiet
<1>3. /\ lock' \in Proc \cup {None} /\ pc' \in [Proc -> Places] /\ view' \in [Proc -> Views]
      /\ LockInv' /\ pc'[p] = "writing" /\ view'[p] = OnDisk
      /\ \A q \in Proc : q # p => HolderInv(q)'
  BY <1>1, <1>2, EnterFrame, HoldingPlaces
<1>4. TypeOK'
  BY <1>1, <1>3 DEF IInv, TypeOK, Places, disk
<1>5. HolderInv(p)'
  BY <1>1, <1>3 DEF HolderInv, OnDisk, disk
<1>6. FixedAuthority' /\ ChainInv' /\ QuietInv' /\ JournalInv'
  BY <1>1, DiskFrame
<1> QED BY <1>1, <1>3, <1>4, <1>5, <1>6 DEF IInv

LEMMA StartRecoveryStep ==
  ASSUME IInv, NEW p \in Proc, journal # None, StartRecovery(p)
  PROVE  IInv'
<1> DEFINE plan == [receipts |-> PlannedReceipts, petitions |-> PlannedPetitions]
<1>1. /\ journal # None /\ Enter(p, "recovering", plan)
      /\ UNCHANGED <<disk, issued, crashes, report, exported, identityVars>>
  BY DEF StartRecovery
<1>2. plan \in Views
  BY <1>1, PlanIsWritten DEF IInv, Views
<1>3. /\ lock' \in Proc \cup {None} /\ pc' \in [Proc -> Places] /\ view' \in [Proc -> Views]
      /\ LockInv' /\ pc'[p] = "recovering" /\ view'[p] = plan
      /\ \A q \in Proc : q # p => HolderInv(q)'
  BY <1>1, <1>2, EnterFrame, HoldingPlaces
<1>4. TypeOK'
  BY <1>1, <1>3 DEF IInv, TypeOK, Places, disk
<1>5. HolderInv(p)'
  BY <1>1, <1>3 DEF HolderInv, disk, PlannedReceipts, PlannedPetitions
<1>6. FixedAuthority' /\ ChainInv' /\ QuietInv' /\ JournalInv'
  BY <1>1, DiskFrame
<1> QED BY <1>1, <1>3, <1>4, <1>5, <1>6 DEF IInv

(* A process leaves, or moves while it does not hold the lock, and writes   *)
(* nothing but the verdict or the bundle.                                   *)
LEMMA LeaveStep ==
  ASSUME IInv, NEW p \in Proc, Leave(p), UNCHANGED <<disk, issued, identityVars>>,
         crashes' \in Nat, report' \in {"none", "ok", "failed"}, exported' \in Seq(Receipt)
  PROVE  IInv'
<1>1. /\ lock' \in Proc \cup {None} /\ pc' \in [Proc -> Places] /\ view' \in [Proc -> Views]
      /\ LockInv' /\ HolderInv(p)'
      /\ \A q \in Proc : q # p => pc'[q] = pc[q] /\ view'[q] = view[q]
  BY LeaveFrame
<1>2. \A q \in Proc : HolderInv(q)'
  <2> SUFFICES ASSUME NEW q \in Proc, q # p PROVE HolderInv(q)'
    BY <1>1
  <2> QED BY <1>1, HolderFrame DEF IInv
<1>3. TypeOK'
  BY <1>1 DEF IInv, TypeOK, Places, disk
<1>4. FixedAuthority' /\ ChainInv' /\ QuietInv' /\ JournalInv'
  BY DiskFrame
<1> QED BY <1>1, <1>2, <1>3, <1>4 DEF IInv

LEMMA WaitStep ==
  ASSUME IInv, NEW p \in Proc, NEW at \in {"idle"} \cup Waiting,
         pc[p] \notin Holding, pc' = [pc EXCEPT ![p] = at],
         UNCHANGED <<lock, view, disk, issued, crashes, report, exported, identityVars>>
  PROVE  IInv'
<1>1. /\ pc \in [Proc -> Places] /\ pc' \in [Proc -> Places] /\ pc'[p] = at
      /\ \A q \in Proc : q # p => pc'[q] = pc[q]
      /\ at \notin Holding
  BY DEF IInv, TypeOK, Places, Waiting, Holding
<1>2. LockInv'
  BY <1>1 DEF IInv, LockInv
<1>3. \A q \in Proc : HolderInv(q)'
  <2> SUFFICES ASSUME NEW q \in Proc PROVE HolderInv(q)'
    OBVIOUS
  <2>1. CASE q = p
    BY <2>1, <1>1, NotHolder
  <2>2. CASE q # p
    BY <2>2, <1>1, HolderFrame DEF IInv
  <2> QED BY <2>1, <2>2
<1>4. TypeOK'
  BY <1>1 DEF IInv, TypeOK, Places, disk
<1>5. FixedAuthority' /\ ChainInv' /\ QuietInv' /\ JournalInv'
  BY DiskFrame
<1> QED BY <1>2, <1>3, <1>4, <1>5 DEF IInv

LEMMA BeginPendingStep ==
  ASSUME IInv, NEW p \in Proc, NEW request \in Requests, BeginPending(p, request)
  PROVE  IInv'
<1> DEFINE receipt == NewReceipt(view[p], issued + 1, ActiveKey(authority), request)
<1>1. /\ Move(p, "writing", "journaled") /\ lock' = lock
      /\ journal' = [receipt  |-> receipt,
                     petition |-> [receipt |-> receipt.id, request |-> request]]
      /\ journal = None
      /\ issued' = issued + 1
      /\ UNCHANGED <<view, receipts, receiptTail, petitions, petitionTail,
                     crashes, report, exported, identityVars>>
  BY DEF BeginPending
<1>2. /\ lock' \in Proc \cup {None} /\ pc' \in [Proc -> Places] /\ LockInv'
      /\ pc[p] = "writing" /\ pc'[p] = "journaled"
      /\ \A q \in Proc : q # p => HolderInv(q)'
  BY <1>1, MoveFrame, HoldingPlaces
<1>3. view[p] = OnDisk /\ NoTails /\ Complete(receipts, petitions)
  BY <1>1, <1>2 DEF IInv, HolderInv, QuietInv, NoTails
<1>4. ActiveKey(authority) = 1
  BY GenesisFacts DEF IInv, FixedAuthority
<1>5. /\ receipts \in Seq(Receipt) /\ petitions \in Seq(Petition) /\ issued \in Nat
      /\ Len(receipts) \in Nat
  BY DEF IInv, TypeOK
<1>6. /\ HeadBoundary(receipts).seq + 1 \in Nat
      /\ HeadBoundary(receipts).id \in Nat \cup {None}
  <2>1. CASE receipts = <<>>
    BY <2>1 DEF HeadBoundary, EmptyBoundary, Boundary
  <2>2. CASE receipts # <<>>
    <3>1. receipts[Len(receipts)] \in Receipt
      BY <2>2, <1>5
    <3> QED BY <2>2, <3>1 DEF HeadBoundary, Boundary, Receipt
  <2> QED BY <2>1, <2>2
<1>7. /\ receipt \in Receipt /\ receipt.key = 1 /\ receipt.id = issued + 1
      /\ receipt.request = request /\ Continues(receipts, receipt)
  BY <1>3, <1>4, <1>5, <1>6 DEF NewReceipt, Receipt, Continues, OnDisk
<1> HIDE DEF receipt
<1>8. /\ journal'.receipt = receipt
      /\ journal'.petition = [receipt |-> receipt.id, request |-> request]
      /\ journal' \in [receipt : Receipt, petition : Petition]
      /\ journal' # None
  <2>1. /\ journal'.receipt = receipt
        /\ journal'.petition = [receipt |-> receipt.id, request |-> request]
        /\ journal' \in [receipt : Receipt, petition : Petition]
    BY <1>1, <1>7, <1>5 DEF Petition
  <2>2. journal' # None
    BY <2>1, NoneIsNoPair
  <2> QED BY <2>1, <2>2
<1>9. TypeOK'
  BY <1>1, <1>2, <1>5, <1>8 DEF IInv, TypeOK, Places
<1>10. ChainInv'
  <2>1. \A i \in 1 .. Len(receipts) : receipts[i].id \in Nat /\ receipts[i].id <= issued
    <3> SUFFICES ASSUME NEW i \in 1 .. Len(receipts)
                 PROVE  receipts[i].id \in Nat /\ receipts[i].id <= issued
      OBVIOUS
    <3>1. receipts[i] \in Receipt
      BY <1>5
    <3>2. receipts[i].id <= issued
      BY DEF IInv, ChainInv
    <3> QED BY <3>1, <3>2 DEF Receipt
  <2>2. \A i \in 1 .. Len(receipts) : receipts[i].id <= issued + 1
    <3> SUFFICES ASSUME NEW i \in 1 .. Len(receipts)
                 PROVE  receipts[i].id <= issued + 1
      OBVIOUS
    <3> QED BY <1>5, <2>1
  <2>3. receipts' = receipts /\ issued' = issued + 1
    BY <1>1
  <2>4. VerifyChain(receipts, {1})'
    BY <2>3 DEF IInv, ChainInv, VerifyChain
  <2> QED BY <2>2, <2>3, <2>4 DEF ChainInv
<1>11. NotWritten(receipts, petitions, journal)'
  <2>1. \A i \in 1 .. Len(receipts) : receipts[i].id # receipt.id
    <3> SUFFICES ASSUME NEW i \in 1 .. Len(receipts)
                 PROVE  receipts[i].id # receipt.id
      OBVIOUS
    <3>1. receipts[i] \in Receipt /\ receipts[i].id <= issued
      BY <1>5 DEF IInv, ChainInv
    <3> QED BY <1>5, <1>7, <3>1 DEF Receipt
  <2>2. UNCHANGED <<receipts, petitions>>
    BY <1>1
  <2>3. /\ NotWritten(receipts, petitions, journal)'
          <=> NotWritten(receipts, petitions, journal')
    BY <2>2 DEF NotWritten, Complete, Paired, Continues
  <2> QED BY <1>3, <1>7, <1>8, <2>1, <2>3 DEF NotWritten
<1>12. JournalInv'
  <2>1. NoTails' /\ NotWritten(receipts, petitions, journal)'
    BY <1>1, <1>3, <1>11 DEF NoTails
  <2>2. TailIsOf(receiptTail, journal.receipt)' /\ petitionTail' = None
    BY <2>1 DEF NoTails, TailIsOf
  <2>3. journal'.receipt.key = 1 /\ journal'.receipt.id <= issued'
    BY <1>1, <1>5, <1>7, <1>8
  <2>4. /\ journal'.petition.receipt = journal'.receipt.id
        /\ journal'.petition.request = journal'.receipt.request
    BY <1>7, <1>8
  <2> QED BY <2>1, <2>2, <2>3, <2>4 DEF JournalInv, PairFits
<1>13. HolderInv(p)'
  BY <1>1, <1>2, <1>3, <1>8, <1>11 DEF HolderInv, NoTails, OnDisk
<1>14. FixedAuthority' /\ QuietInv'
  BY <1>1, <1>8 DEF IInv, FixedAuthority, QuietInv, identityVars
<1> QED BY <1>1, <1>2, <1>9, <1>10, <1>12, <1>13, <1>14 DEF IInv
(* Every other place of the holder has its journal.                         *)
LEMMA HolderTypes ==
  ASSUME IInv, journal # None
  PROVE  /\ receipts \in Seq(Receipt) /\ petitions \in Seq(Petition)
         /\ Len(receipts) \in Nat /\ Len(petitions) \in Nat
         /\ journal.receipt \in Receipt /\ journal.petition \in Petition
         /\ journal.petition.receipt = journal.receipt.id
         /\ journal.petition.request = journal.receipt.request
         /\ journal.receipt.key = 1 /\ journal.receipt.id <= issued
  BY DEF IInv, TypeOK, JournalInv, PairFits

LEMMA AppendReceiptStep ==
  ASSUME IInv, NEW p \in Proc, AppendReceipt(p)
  PROVE  IInv'
<1>1. /\ Move(p, "journaled", "receipted") /\ lock' = lock
      /\ receipts' = Append(receipts, journal.receipt)
      /\ UNCHANGED <<view, receiptTail, petitions, petitionTail, journal,
                     issued, crashes, report, exported, identityVars>>
  BY DEF AppendReceipt
<1>2. /\ lock' \in Proc \cup {None} /\ pc' \in [Proc -> Places] /\ LockInv'
      /\ pc[p] = "journaled" /\ pc'[p] = "receipted"
      /\ \A q \in Proc : q # p => HolderInv(q)'
  BY <1>1, MoveFrame, HoldingPlaces
<1>3. /\ journal # None /\ NoTails /\ NotWritten(receipts, petitions, journal)
      /\ view[p] = OnDisk
  BY <1>2 DEF IInv, HolderInv
<1>4. /\ PlannedReceipts = receipts'
      /\ VerifyChain(PlannedReceipts, {1})
      /\ \A i \in 1 .. Len(PlannedReceipts) : PlannedReceipts[i].id <= issued
      /\ PlannedReceipts \in Seq(Receipt)
  BY <1>1, <1>3, PlanOf, PlanIsWritten DEF IInv
<1>5. HalfWritten(receipts, petitions, journal)'
  BY <1>1, <1>3, HolderTypes, PairsGrow DEF NotWritten, HalfWritten
<1>6. TypeOK'
  BY <1>1, <1>2, <1>4 DEF IInv, TypeOK, Places
<1>7. ChainInv'
  BY <1>1, <1>4 DEF ChainInv
<1>8. JournalInv'
  BY <1>1, <1>3, <1>5, HolderTypes DEF JournalInv, PairFits, NoTails, TailIsOf
<1>9. HolderInv(p)'
  BY <1>1, <1>2, <1>3, <1>5 DEF HolderInv, NoTails, OnDisk
<1>10. FixedAuthority' /\ QuietInv'
  BY <1>1, <1>3 DEF IInv, FixedAuthority, QuietInv, identityVars
<1> QED BY <1>1, <1>2, <1>6, <1>7, <1>8, <1>9, <1>10 DEF IInv

LEMMA AppendPetitionStep ==
  ASSUME IInv, NEW p \in Proc, AppendPetition(p)
  PROVE  IInv'
<1>1. /\ Move(p, "receipted", "petitioned") /\ lock' = lock
      /\ petitions' = Append(petitions, journal.petition)
      /\ UNCHANGED <<view, receipts, receiptTail, petitionTail, journal,
                     issued, crashes, report, exported, identityVars>>
  BY DEF AppendPetition
<1>2. /\ lock' \in Proc \cup {None} /\ pc' \in [Proc -> Places] /\ LockInv'
      /\ pc[p] = "receipted" /\ pc'[p] = "petitioned"
      /\ \A q \in Proc : q # p => HolderInv(q)'
  BY <1>1, MoveFrame, HoldingPlaces
<1>3. /\ journal # None /\ NoTails /\ HalfWritten(receipts, petitions, journal)
      /\ receipts = Append(view[p].receipts, journal.receipt)
      /\ petitions = view[p].petitions
  BY <1>2 DEF IInv, HolderInv
<1>4. /\ PlannedReceipts = receipts' /\ PlannedPetitions = petitions'
      /\ PlannedPetitions \in Seq(Petition)
      /\ Written(PlannedReceipts, PlannedPetitions, journal)
  BY <1>1, <1>3, PlanOf, PlanIsWritten DEF IInv
<1>5. Written(receipts, petitions, journal)'
  BY <1>1, <1>4
<1>6. TypeOK'
  BY <1>1, <1>2, <1>4 DEF IInv, TypeOK, Places
<1>7. ChainInv'
  BY <1>1 DEF IInv, ChainInv
<1>8. JournalInv'
  BY <1>1, <1>3, <1>5, HolderTypes DEF JournalInv, PairFits, NoTails
<1>9. HolderInv(p)'
  BY <1>1, <1>2, <1>3, <1>5 DEF HolderInv, NoTails
<1>10. FixedAuthority' /\ QuietInv'
  BY <1>1, <1>3 DEF IInv, FixedAuthority, QuietInv, identityVars
<1> QED BY <1>1, <1>2, <1>6, <1>7, <1>8, <1>9, <1>10 DEF IInv

LEMMA ClearPendingStep ==
  ASSUME IInv, NEW p \in Proc, ClearPending(p)
  PROVE  IInv'
<1> DEFINE next == [receipts  |-> Append(view[p].receipts, journal.receipt),
                    petitions |-> Append(view[p].petitions, journal.petition)]
<1>1. /\ Move(p, "petitioned", "writing") /\ lock' = lock
      /\ journal' = None
      /\ view' = [view EXCEPT ![p] = next]
      /\ UNCHANGED <<receipts, receiptTail, petitions, petitionTail,
                     issued, crashes, report, exported, identityVars>>
  BY DEF ClearPending
<1>2. /\ lock' \in Proc \cup {None} /\ pc' \in [Proc -> Places] /\ LockInv'
      /\ pc[p] = "petitioned" /\ pc'[p] = "writing"
      /\ \A q \in Proc : q # p => HolderInv(q)'
  BY <1>1, MoveFrame, HoldingPlaces
<1>3. /\ journal # None /\ NoTails /\ Written(receipts, petitions, journal)
      /\ next = OnDisk
  BY <1>2 DEF IInv, HolderInv, OnDisk
<1>4. OnDisk \in Views /\ view \in [Proc -> Views]
  BY DEF IInv, TypeOK, OnDisk, Views
<1>5. view' \in [Proc -> Views] /\ view'[p] = OnDisk
  BY <1>1, <1>3, <1>4
<1>6. TypeOK'
  BY <1>1, <1>2, <1>5 DEF IInv, TypeOK, Places
<1>7. ChainInv' /\ JournalInv'
  BY <1>1 DEF IInv, ChainInv, JournalInv, PairFits
<1>8. HolderInv(p)'
  BY <1>1, <1>2, <1>5 DEF HolderInv, OnDisk
<1>9. FixedAuthority' /\ QuietInv'
  BY <1>1, <1>3 DEF IInv, FixedAuthority, QuietInv, identityVars, NoTails, Written
<1> QED BY <1>1, <1>2, <1>6, <1>7, <1>8, <1>9 DEF IInv

LEMMA TearReceiptStep ==
  ASSUME IInv, NEW p \in Proc, NEW whole \in BOOLEAN, TearReceipt(p, whole)
  PROVE  IInv'
<1>1. /\ pc[p] = "journaled" /\ Leave(p) /\ crashes' = crashes + 1
      /\ receiptTail' = [line |-> journal.receipt, whole |-> whole]
      /\ UNCHANGED <<receipts, petitions, petitionTail, journal,
                     issued, report, exported, identityVars>>
  BY DEF TearReceipt, Killed, Torn
<1>2. /\ lock' \in Proc \cup {None} /\ pc' \in [Proc -> Places] /\ view' \in [Proc -> Views]
      /\ LockInv' /\ \A q \in Proc : HolderInv(q)'
  BY <1>1, LeaveFrame, HoldingPlaces
<1>3. journal # None /\ NoTails /\ NotWritten(receipts, petitions, journal)
  BY <1>1 DEF IInv, HolderInv
<1>4. TypeOK'
  BY <1>1, <1>2, <1>3, HolderTypes DEF IInv, TypeOK, Places
<1>5. ChainInv'
  BY <1>1 DEF IInv, ChainInv
<1>6. JournalInv'
  BY <1>1, <1>3, HolderTypes DEF JournalInv, PairFits, NoTails, TailIsOf
<1>7. FixedAuthority' /\ QuietInv'
  BY <1>1, <1>3 DEF IInv, FixedAuthority, QuietInv, identityVars
<1> QED BY <1>1, <1>2, <1>4, <1>5, <1>6, <1>7 DEF IInv

LEMMA TearPetitionStep ==
  ASSUME IInv, NEW p \in Proc, NEW whole \in BOOLEAN, TearPetition(p, whole)
  PROVE  IInv'
<1>1. /\ pc[p] = "receipted" /\ Leave(p) /\ crashes' = crashes + 1
      /\ petitionTail' = [line |-> journal.petition, whole |-> whole]
      /\ UNCHANGED <<receipts, receiptTail, petitions, journal,
                     issued, report, exported, identityVars>>
  BY DEF TearPetition, Killed, Torn
<1>2. /\ lock' \in Proc \cup {None} /\ pc' \in [Proc -> Places] /\ view' \in [Proc -> Views]
      /\ LockInv' /\ \A q \in Proc : HolderInv(q)'
  BY <1>1, LeaveFrame, HoldingPlaces
<1>3. journal # None /\ NoTails /\ HalfWritten(receipts, petitions, journal)
  BY <1>1 DEF IInv, HolderInv
<1>4. TypeOK'
  BY <1>1, <1>2, <1>3, HolderTypes DEF IInv, TypeOK, Places
<1>5. ChainInv'
  BY <1>1 DEF IInv, ChainInv
<1>6. JournalInv'
  BY <1>1, <1>3, HolderTypes DEF JournalInv, PairFits, NoTails, TailIsOf
<1>7. FixedAuthority' /\ QuietInv'
  BY <1>1, <1>3 DEF IInv, FixedAuthority, QuietInv, identityVars
<1> QED BY <1>1, <1>2, <1>4, <1>5, <1>6, <1>7 DEF IInv

LEMMA ReplaceReceiptsStep ==
  ASSUME IInv, NEW p \in Proc, ReplaceReceipts(p)
  PROVE  IInv'
<1>1. /\ Move(p, "recovering", "receiptsReplaced") /\ lock' = lock
      /\ receipts' = view[p].receipts /\ receiptTail' = None
      /\ UNCHANGED <<view, petitions, petitionTail, journal,
                     issued, crashes, report, exported, identityVars>>
  BY DEF ReplaceReceipts
<1>2. /\ lock' \in Proc \cup {None} /\ pc' \in [Proc -> Places] /\ LockInv'
      /\ pc[p] = "recovering" /\ pc'[p] = "receiptsReplaced"
      /\ \A q \in Proc : q # p => HolderInv(q)'
  BY <1>1, MoveFrame, HoldingPlaces
<1>3. /\ journal # None
      /\ receipts' = PlannedReceipts /\ view[p].petitions = PlannedPetitions
  BY <1>1, <1>2 DEF IInv, HolderInv
<1>4. /\ receipts' \in Seq(Receipt) /\ VerifyChain(receipts', {1})
      /\ Len(receipts') > 0 /\ receipts'[Len(receipts')] = journal.receipt
      /\ \A i \in 1 .. Len(receipts') : receipts'[i].id <= issued
  BY <1>3, PlanIsWritten DEF IInv, Written
<1>5. ~NotWritten(receipts', petitions, journal)
  BY <1>4 DEF NotWritten
<1>6. \/ HalfWritten(receipts', petitions, journal)
         /\ TailIsOf(petitionTail, journal.petition)
      \/ Written(receipts', petitions, journal) /\ petitionTail = None
  <2>1. CASE /\ NotWritten(receipts, petitions, journal) /\ petitionTail = None
    <3>1. receipts' = Append(receipts, journal.receipt)
      BY <1>3, <2>1, PlanOf DEF IInv
    <3> QED BY <1>3, <2>1, <3>1, HolderTypes, PairsGrow DEF NotWritten, HalfWritten, TailIsOf
  <2>2. CASE /\ HalfWritten(receipts, petitions, journal)
             /\ TailIsOf(petitionTail, journal.petition)
    <3>1. receipts' = receipts
      BY <1>3, <2>2, PlanOf DEF IInv
    <3> QED BY <2>2, <3>1
  <2>3. CASE Written(receipts, petitions, journal) /\ petitionTail = None
    <3>1. receipts' = receipts
      BY <1>3, <2>3, PlanOf DEF IInv
    <3> QED BY <2>3, <3>1
  <2> QED BY <1>3, <2>1, <2>2, <2>3 DEF IInv, JournalInv, PairFits
<1>7. TypeOK'
  BY <1>1, <1>2, <1>4 DEF IInv, TypeOK, Places
<1>8. ChainInv'
  BY <1>1, <1>4 DEF ChainInv
<1>9. JournalInv'
  BY <1>1, <1>3, <1>6, HolderTypes DEF JournalInv, PairFits
<1>10. HolderInv(p)'
  BY <1>1, <1>2, <1>3, <1>5 DEF HolderInv, PlannedPetitions
<1>11. FixedAuthority' /\ QuietInv'
  BY <1>1, <1>3 DEF IInv, FixedAuthority, QuietInv, identityVars
<1> QED BY <1>1, <1>2, <1>7, <1>8, <1>9, <1>10, <1>11 DEF IInv

LEMMA ReplacePetitionsStep ==
  ASSUME IInv, NEW p \in Proc, ReplacePetitions(p)
  PROVE  IInv'
<1>1. /\ Move(p, "receiptsReplaced", "petitionsReplaced") /\ lock' = lock
      /\ petitions' = view[p].petitions /\ petitionTail' = None
      /\ UNCHANGED <<view, receipts, receiptTail, journal,
                     issued, crashes, report, exported, identityVars>>
  BY DEF ReplacePetitions
<1>2. /\ lock' \in Proc \cup {None} /\ pc' \in [Proc -> Places] /\ LockInv'
      /\ pc[p] = "receiptsReplaced" /\ pc'[p] = "petitionsReplaced"
      /\ \A q \in Proc : q # p => HolderInv(q)'
  BY <1>1, MoveFrame, HoldingPlaces
<1>3. /\ journal # None /\ ~NotWritten(receipts, petitions, journal)
      /\ petitions' = PlannedPetitions
  BY <1>1, <1>2 DEF IInv, HolderInv
<1>4. PlannedReceipts = receipts /\ receiptTail = None
  BY <1>3, PlanOf DEF IInv, JournalInv, PairFits
<1>5. petitions' \in Seq(Petition) /\ Written(receipts, petitions', journal)
  BY <1>3, <1>4, PlanIsWritten DEF IInv
<1>6. TypeOK'
  BY <1>1, <1>2, <1>5 DEF IInv, TypeOK, Places
<1>7. ChainInv'
  BY <1>1 DEF IInv, ChainInv
<1>8. JournalInv'
  BY <1>1, <1>4, <1>5, <1>3, HolderTypes DEF JournalInv, PairFits
<1>9. HolderInv(p)'
  BY <1>1, <1>2, <1>3, <1>4, <1>5 DEF HolderInv, NoTails
<1>10. FixedAuthority' /\ QuietInv'
  BY <1>1, <1>3 DEF IInv, FixedAuthority, QuietInv, identityVars
<1> QED BY <1>1, <1>2, <1>6, <1>7, <1>8, <1>9, <1>10 DEF IInv

LEMMA FinishRecoveryStep ==
  ASSUME IInv, NEW p \in Proc, FinishRecovery(p)
  PROVE  IInv'
<1>1. /\ pc[p] = "petitionsReplaced" /\ Leave(p) /\ journal' = None
      /\ report' \in {"ok", "failed"}
      /\ UNCHANGED <<receipts, receiptTail, petitions, petitionTail,
                     issued, crashes, exported, identityVars>>
  BY DEF FinishRecovery, Move, Verdict
<1>2. /\ lock' \in Proc \cup {None} /\ pc' \in [Proc -> Places] /\ view' \in [Proc -> Views]
      /\ LockInv' /\ \A q \in Proc : HolderInv(q)'
  BY <1>1, LeaveFrame, HoldingPlaces
<1>3. NoTails /\ Written(receipts, petitions, journal)
  BY <1>1 DEF IInv, HolderInv
<1>4. TypeOK'
  BY <1>1, <1>2 DEF IInv, TypeOK, Places
<1>5. ChainInv' /\ JournalInv'
  BY <1>1 DEF IInv, ChainInv, JournalInv, PairFits
<1>6. FixedAuthority' /\ QuietInv'
  BY <1>1, <1>3 DEF IInv, FixedAuthority, QuietInv, identityVars, NoTails, Written
<1> QED BY <1>1, <1>2, <1>4, <1>5, <1>6 DEF IInv
(* A verdict is never a refusal, and no plan is ever refused.               *)
LEMMA VerdictType == \A pending \in BOOLEAN : Verdict(pending) \in {"ok", "failed"}
  BY DEF Verdict

LEMMA InitHolds ==
  ASSUME Init
  PROVE  IInv
<1>1. TypeOK
  BY EmptyViewType DEF Init, TypeOK
<1>2. FixedAuthority /\ report # "refused"
  BY DEF Init, FixedAuthority
<1>3. LockInv /\ \A p \in Proc : HolderInv(p)
  BY NoneIsNoProc, NotHolder DEF Init, LockInv, Holding
<1>4. ChainInv /\ QuietInv /\ JournalInv
  BY DEF Init, ChainInv, QuietInv, JournalInv, PairFits, VerifyChain, Complete, Paired
<1> QED BY <1>1, <1>2, <1>3, <1>4 DEF IInv

LEMMA StepHolds ==
  ASSUME IInv, [Next]_vars
  PROVE  IInv'
<1>1. CASE UNCHANGED vars
  <2>1. UNCHANGED <<disk, issued, identityVars, pc, view, lock, crashes, report, exported>>
    BY <1>1 DEF vars
  <2>2. FixedAuthority' /\ ChainInv' /\ QuietInv' /\ JournalInv'
    BY <2>1, DiskFrame
  <2>3. \A q \in Proc : HolderInv(q)'
    BY <2>1, HolderFrame DEF IInv
  <2>4. TypeOK' /\ LockInv'
    BY <2>1 DEF IInv, TypeOK, LockInv, disk
  <2> QED BY <2>1, <2>2, <2>3, <2>4 DEF IInv
<1>2. ASSUME NEW p \in Proc, OpenWrite(p) PROVE IInv'
  BY <1>2, OpenWriteStep
<1>3. ASSUME NEW p \in Proc, NEW request \in Requests, BeginPending(p, request) PROVE IInv'
  BY <1>3, BeginPendingStep
<1>4. ASSUME NEW p \in Proc, Holder(p) PROVE IInv'
  <2>1. ASSUME Close(p) PROVE IInv'
    <3>1. /\ Leave(p) /\ UNCHANGED <<disk, issued, crashes, report, exported, identityVars>>
      BY <2>1 DEF Close
    <3>2. crashes' \in Nat /\ report' \in {"none", "ok", "failed"} /\ exported' \in Seq(Receipt)
      BY <3>1 DEF IInv, TypeOK
    <3> QED BY <3>1, <3>2, LeaveStep
  <2> QED
    BY <1>4, <2>1, AppendReceiptStep, AppendPetitionStep, ClearPendingStep,
       ReplaceReceiptsStep, ReplacePetitionsStep, FinishRecoveryStep DEF Holder
<1>5. ASSUME NEW p \in Proc, NEW whole \in BOOLEAN, TearReceipt(p, whole) \/ TearPetition(p, whole)
      PROVE  IInv'
  BY <1>5, TearReceiptStep, TearPetitionStep
<1>6. ASSUME NEW p \in Proc, Crash(p) PROVE IInv'
  <2>1. /\ Leave(p) /\ crashes' = crashes + 1
        /\ UNCHANGED <<disk, issued, report, exported, identityVars>>
    BY <1>6 DEF Crash, Killed
  <2>2. crashes' \in Nat /\ report' \in {"none", "ok", "failed"} /\ exported' \in Seq(Receipt)
    BY <2>1 DEF IInv, TypeOK
  <2> QED BY <2>1, <2>2, LeaveStep
<1>7. ASSUME NEW p \in Proc, Inspect(p) \/ GiveUp(p) PROVE IInv'
  <2>1. /\ pc[p] \notin Holding
        /\ \E at \in {"idle"} \cup Waiting : pc' = [pc EXCEPT ![p] = at]
        /\ UNCHANGED <<lock, view, disk, issued, crashes, report, exported, identityVars>>
    BY <1>7 DEF Inspect, GiveUp, Waiting, Holding
  <2> QED BY <2>1, WaitStep
<1>8. ASSUME NEW p \in Proc, PlanRecovery(p) PROVE IInv'
  <2>1. journal # None /\ (StartRecovery(p) \/ RefuseRecovery(p))
    BY <1>8 DEF PlanRecovery
  <2>2. ~RefuseRecovery(p)
    BY <2>1, PlanHolds DEF RefuseRecovery, IInv
  <2> QED BY <2>1, <2>2, StartRecoveryStep
<1>9. ASSUME NEW p \in Proc, CheckOnly(p) PROVE IInv'
  <2>1. /\ Leave(p) /\ report' \in {"ok", "failed"}
        /\ UNCHANGED <<disk, issued, crashes, exported, identityVars>>
    BY <1>9, VerdictType DEF CheckOnly
  <2>2. crashes' \in Nat /\ exported' \in Seq(Receipt)
    BY <2>1 DEF IInv, TypeOK
  <2> QED BY <2>1, <2>2, LeaveStep
<1>10. ASSUME NEW p \in Proc, Export(p) PROVE IInv'
  <2>1. /\ journal = None /\ exported' = Loaded.receipts
        /\ UNCHANGED <<lock, pc, view, disk, issued, crashes, report, identityVars>>
    BY <1>10 DEF Export
  <2>2. exported' \in Seq(Receipt)
    BY <2>1, LoadedQuiet DEF Views, OnDisk
  <2>3. FixedAuthority' /\ ChainInv' /\ QuietInv' /\ JournalInv'
    BY <2>1, DiskFrame
  <2>4. \A q \in Proc : HolderInv(q)'
    BY <2>1, HolderFrame DEF IInv
  <2>5. TypeOK' /\ LockInv'
    BY <2>1, <2>2 DEF IInv, TypeOK, LockInv, disk
  <2> QED BY <2>1, <2>3, <2>4, <2>5 DEF IInv
<1> QED
  BY <1>1, <1>2, <1>3, <1>4, <1>5, <1>6, <1>7, <1>8, <1>9, <1>10 DEF Next

(* The invariant is inductive: it holds in every reachable state.           *)
THEOREM Invariance == Spec => []IInv
  BY InitHolds, StepHolds, PTL DEF Spec

----------------------------------------------------------------------------
(* What follows *)

(* Every variable keeps its type, whatever the files, processes and bounds. *)
THEOREM TypeCorrect == Spec => []TypeOK
<1>1. IInv => TypeOK
  BY DEF IInv
<1> QED BY <1>1, Invariance, PTL

(* The complete lines of receipts.ndjson pass Ledger.Verify and VerifyBPlus *)
(* in every state: during an append, after a kill, during a recovery.       *)
THEOREM ChainAlwaysHolds == Spec => []ChainHolds
<1>1. IInv => ChainHolds
  BY BPlusIsChain DEF IInv, TypeOK, FixedAuthority, ChainInv, ChainHolds
<1> QED BY <1>1, Invariance, PTL

(* A home without a journal has one request per receipt and no torn line:   *)
(* OpenExisting is right to look at the journal alone.                      *)
THEOREM QuietHomesAreComplete == Spec => []QuietHomeIsComplete
<1>1. IInv => QuietHomeIsComplete
  BY CompleteBinds DEF IInv, TypeOK, ChainInv, QuietInv, QuietHomeIsComplete
<1> QED BY <1>1, Invariance, PTL

(* A writer's ledger in memory is the ledger on disk between its appends.   *)
THEOREM WritersSeeTheDisk == Spec => []WriterSeesDisk
<1>1. IInv => WriterSeesDisk
  BY LoadedQuiet DEF IInv, HolderInv, WriterSeesDisk
<1> QED BY <1>1, Invariance, PTL

(* recoverPendingFiles accepts whatever an interrupted Append or an         *)
(* interrupted recovery left behind, as long as the lifecycle has not       *)
(* changed since the genesis.                                               *)
THEOREM RecoveryIsNeverRefused == Spec => []NeverRefused
<1>1. IInv => NeverRefused
  BY DEF IInv, NeverRefused
<1> QED BY <1>1, Invariance, PTL

----------------------------------------------------------------------------
(* The log grows *)

StepOf(p) ==
  \/ OpenWrite(p)
  \/ \E request \in Requests : BeginPending(p, request)
  \/ Holder(p)
  \/ \E whole \in BOOLEAN : TearReceipt(p, whole) \/ TearPetition(p, whole)
  \/ Crash(p)
  \/ Inspect(p) \/ GiveUp(p)
  \/ PlanRecovery(p) \/ CheckOnly(p)
  \/ Export(p)

(* The only way the receipt file changes, by an append or by a recovery.    *)
LEMMA ReceiptsGrow ==
  ASSUME NEW p \in Proc, HolderInv(p), StepOf(p)
  PROVE  \/ receipts' = receipts
         \/ journal # None /\ receipts' = Append(receipts, journal.receipt)
<1>1. CASE AppendReceipt(p)
  BY <1>1 DEF AppendReceipt, Move, HolderInv
<1>2. CASE ReplaceReceipts(p)
  <2>1. journal # None /\ receipts' = PlannedReceipts
    BY <1>2 DEF ReplaceReceipts, Move, HolderInv
  <2> QED BY <2>1 DEF PlannedReceipts
<1>3. CASE \/ OpenWrite(p) \/ Close(p) \/ ClearPending(p) \/ AppendPetition(p)
           \/ ReplacePetitions(p) \/ FinishRecovery(p)
           \/ \E request \in Requests : BeginPending(p, request)
           \/ \E whole \in BOOLEAN : TearReceipt(p, whole) \/ TearPetition(p, whole)
           \/ Crash(p) \/ Inspect(p) \/ GiveUp(p) \/ PlanRecovery(p) \/ CheckOnly(p) \/ Export(p)
  BY <1>3 DEF OpenWrite, Close, ClearPending, AppendPetition, ReplacePetitions, FinishRecovery,
              BeginPending, TearReceipt, TearPetition, Crash, Inspect, GiveUp, PlanRecovery,
              StartRecovery, RefuseRecovery, CheckOnly, Export, disk
<1> QED BY <1>1, <1>2, <1>3 DEF StepOf, Holder

(* The bundle changes by an export, and then it is the whole chain.         *)
LEMMA ExportedIsTheChain ==
  ASSUME NEW p \in Proc, QuietInv, StepOf(p)
  PROVE  exported' = exported \/ (exported' = receipts /\ receipts' = receipts)
<1>1. CASE Export(p)
  <2>1. Loaded.receipts = receipts
    BY <1>1 DEF Export, QuietInv, Loaded, Lines
  <2> QED BY <1>1, <2>1 DEF Export, disk
<1>2. CASE \/ OpenWrite(p) \/ Holder(p)
           \/ \E request \in Requests : BeginPending(p, request)
           \/ \E whole \in BOOLEAN : TearReceipt(p, whole) \/ TearPetition(p, whole)
           \/ Crash(p) \/ Inspect(p) \/ GiveUp(p) \/ PlanRecovery(p) \/ CheckOnly(p)
  BY <1>2 DEF OpenWrite, Holder, Close, AppendReceipt, ClearPending, AppendPetition, ReplaceReceipts,
              ReplacePetitions, FinishRecovery, BeginPending, TearReceipt, TearPetition, Crash,
              Inspect, GiveUp, PlanRecovery, StartRecovery, RefuseRecovery, CheckOnly
<1> QED BY <1>1, <1>2 DEF StepOf

LEMMA BundleStands ==
  ASSUME receipts \in Seq(Receipt), exported \in Seq(Receipt), ExportStands,
         \/ receipts' = receipts
         \/ journal.receipt \in Receipt /\ receipts' = Append(receipts, journal.receipt),
         exported' = exported \/ (exported' = receipts /\ receipts' = receipts)
  PROVE  ExportStands'
<1>1. CASE exported' = receipts /\ receipts' = receipts
  <2>1. SubSeq(receipts, 1, Len(receipts)) = receipts
    OBVIOUS
  <2> QED BY <1>1, <2>1 DEF ExportStands
<1>2. CASE exported' = exported /\ receipts' = receipts
  BY <1>2 DEF ExportStands
<1>3. CASE /\ exported' = exported
           /\ journal.receipt \in Receipt /\ receipts' = Append(receipts, journal.receipt)
  <2> DEFINE n == Len(exported)
             longer == Append(receipts, journal.receipt)
  <2>1. n \in Nat /\ n <= Len(receipts) /\ SubSeq(receipts, 1, n) = exported
    BY DEF ExportStands
  <2>2. Len(longer) = Len(receipts) + 1 /\ \A i \in 1 .. n : longer[i] = receipts[i]
    BY <1>3, <2>1
  <2>3. SubSeq(longer, 1, n) = SubSeq(receipts, 1, n)
    BY <1>3, <2>1, <2>2
  <2>4. n <= Len(longer)
    BY <2>1, <2>2
  <2> QED BY <1>3, <2>1, <2>3, <2>4 DEF ExportStands
<1> QED BY <1>1, <1>2, <1>3

LEMMA ExportStandsStep ==
  ASSUME IInv, ExportStands, [Next]_vars
  PROVE  ExportStands'
<1>1. receipts \in Seq(Receipt) /\ exported \in Seq(Receipt) /\ (journal # None => journal.receipt \in Receipt)
  BY DEF IInv, TypeOK
<1>2. ASSUME NEW p \in Proc, StepOf(p)
      PROVE  ExportStands'
  <2>1. HolderInv(p) /\ QuietInv
    BY DEF IInv
  <2> QED BY <1>1, <1>2, <2>1, ReceiptsGrow, ExportedIsTheChain, BundleStands
<1>3. ASSUME UNCHANGED vars
      PROVE  ExportStands'
  BY <1>3 DEF ExportStands, vars, disk
<1> QED BY <1>2, <1>3 DEF Next, StepOf

(* No crash and no recovery contradicts a bundle that left the home: what   *)
(* `ueg export` wrote stays a prefix of receipts.ndjson.                    *)
THEOREM ExportsAlwaysStand == Spec => []ExportStands
<1>1. Init => ExportStands
  BY DEF Init, ExportStands
<1>2. IInv /\ ExportStands /\ [Next]_vars => ExportStands'
  BY ExportStandsStep
<1> QED BY <1>1, <1>2, Invariance, PTL DEF Spec

----------------------------------------------------------------------------
(* What `ueg recover` says *)

(* A verdict of success in a state where the tails are gone is about the    *)
(* very files.                                                              *)
LEMMA HonestVerdict ==
  ASSUME NoTails, NEW pending \in BOOLEAN, Verdict(pending) = "ok"
  PROVE  ~pending /\ VerifyPetitions(receipts, petitions)
<1>1. Loaded.receipts = receipts /\ Loaded.petitions = petitions
  BY DEF NoTails, Loaded, Lines
<1> QED BY <1>1 DEF Verdict

LEMMA HonestStep ==
  ASSUME NEW p \in Proc, HolderInv(p), QuietInv,
         pc[p] = "petitionsReplaced" => transition = None,
         StepOf(p), report' = "ok", report # "ok"
  PROVE  journal' = None /\ transition = None /\ VerifyPetitions(receipts', petitions')
<1>1. CASE FinishRecovery(p)
  <2>1. NoTails /\ Verdict(FALSE) = "ok" /\ transition = None
    BY <1>1 DEF FinishRecovery, HolderInv
  <2> QED BY <1>1, <2>1, HonestVerdict DEF FinishRecovery
<1>2. CASE CheckOnly(p)
  <2>1. UNCHANGED disk
    BY <1>2 DEF CheckOnly
  <2>2. journal = None /\ transition = None /\ \E pending \in BOOLEAN : Verdict(pending) = "ok"
    <3>1. CASE /\ pc[p] = "wantCheck"
               /\ report' = IF OpensReadOnly THEN Verdict(journal # None \/ transition # None)
                            ELSE "failed"
      <4>1. Verdict(journal # None \/ transition # None) = "ok"
        BY <3>1
      <4>2. ~(journal # None \/ transition # None)
        BY <4>1 DEF Verdict
      <4> QED BY <4>1, <4>2
    <3>2. CASE /\ journal = None \/ ~SigningAvailable
               /\ report' = IF OpensForSigning THEN Verdict(FALSE) ELSE "failed"
      <4>1. OpensForSigning /\ Verdict(FALSE) = "ok"
        BY <3>2
      <4> QED BY <3>2, <4>1 DEF OpensForSigning, SigningAvailable
    <3> QED BY <1>2, <3>1, <3>2 DEF CheckOnly
  <2>3. NoTails
    BY <2>2 DEF QuietInv, NoTails
  <2> QED BY <2>1, <2>2, <2>3, HonestVerdict DEF disk
<1>3. CASE PlanRecovery(p)
  BY <1>3 DEF PlanRecovery, StartRecovery, RefuseRecovery
<1>4. CASE \/ OpenWrite(p) \/ Close(p) \/ AppendReceipt(p) \/ ClearPending(p) \/ AppendPetition(p)
           \/ ReplaceReceipts(p) \/ ReplacePetitions(p)
           \/ \E request \in Requests : BeginPending(p, request)
           \/ \E whole \in BOOLEAN : TearReceipt(p, whole) \/ TearPetition(p, whole)
           \/ Crash(p) \/ Inspect(p) \/ GiveUp(p) \/ Export(p)
  BY <1>4 DEF OpenWrite, Close, AppendReceipt, ClearPending, AppendPetition, ReplaceReceipts,
              ReplacePetitions, BeginPending, TearReceipt, TearPetition, Crash,
              Inspect, GiveUp, Export
<1> QED BY <1>1, <1>2, <1>3, <1>4 DEF StepOf, Holder

(* `ueg recover` (cmdRecover) reports success only of a home that has no    *)
(* journal and one request per receipt, although it looked before it locked *)
(* the home.                                                                *)
THEOREM RecoverReportsHonestly == Spec => RecoverIsHonest
<1>1. IInv /\ [Next]_vars =>
        [report' = "ok" /\ report # "ok" =>
           journal' = None /\ transition = None /\ VerifyPetitions(receipts', petitions')]_vars
  <2> SUFFICES ASSUME IInv, Next, report' = "ok", report # "ok"
               PROVE  journal' = None /\ transition = None /\ VerifyPetitions(receipts', petitions')
    OBVIOUS
  <2>1. PICK p \in Proc : StepOf(p)
    BY DEF Next, StepOf
  <2>2. HolderInv(p) /\ QuietInv /\ transition = None
    BY DEF IInv, FixedAuthority
  <2> QED BY <2>1, <2>2, HonestStep
<1> QED BY <1>1, Invariance, PTL DEF Spec, RecoverIsHonest

----------------------------------------------------------------------------
(* The files implement the append-only log *)

(* A durable journal commits one receipt, linked to the head, by the key.   *)
LEMMA JournalCommits ==
  ASSUME IInv, NEW p \in Proc, NEW request \in Requests, BeginPending(p, request)
  PROVE  Log!Next
<1> DEFINE r == NewReceipt(view[p], issued + 1, 1, request)
<1>1. IInv' /\ issued \in Nat /\ issued + 1 \in 1 .. MaxReceipts
  BY BeginPendingStep, BoundsAreNumbers DEF BeginPending, IInv, TypeOK
<1>2. /\ journal = None /\ receipts' = receipts
      /\ journal' = [receipt |-> r, petition |-> [receipt |-> r.id, request |-> request]]
      /\ pc[p] = "writing" /\ pc'[p] = "journaled"
  BY GenesisFacts DEF BeginPending, Move, IInv, FixedAuthority, TypeOK
<1>3. view[p] = OnDisk
  BY <1>2 DEF IInv, HolderInv
<1>4. NotWritten(receipts', petitions', journal') /\ journal' # None
  BY <1>1, <1>2 DEF IInv, HolderInv
<1>5. r = Log!NextReceipt(receipts, issued + 1, 1, request) /\ r.id = issued + 1
  BY <1>3 DEF NewReceipt, OnDisk, Log!NextReceipt, HeadBoundary, EmptyBoundary, Boundary,
              Log!HeadBoundary, Log!EmptyBoundary, Log!Boundary
<1>6. Committed = receipts
  BY <1>2 DEF Committed
<1>7. Committed' = Append(receipts, r)
  <2>1. (TypeOK /\ ChainInv /\ JournalInv /\ journal # None)'
    BY <1>1, <1>4 DEF IInv
  <2>2. NotWritten(receipts', petitions', journal') => PlannedReceipts' = Append(receipts', journal'.receipt)
    <3>1. ASSUME TypeOK', ChainInv', JournalInv', journal' # None, NotWritten(receipts', petitions', journal')
          PROVE  ~ \E i \in DOMAIN receipts' : receipts'[i].id = journal'.receipt.id
      BY <3>1 DEF NotWritten, TypeOK
    <3> QED BY <2>1, <3>1 DEF PlannedReceipts, HasReceipt
  <2> QED BY <1>2, <1>4, <2>2 DEF Committed
<1>8. Log!Unused(receipts, issued + 1)
  <2> SUFFICES ASSUME NEW i \in DOMAIN receipts PROVE receipts[i].id # issued + 1
    BY DEF Log!Unused
  <2>1. receipts \in Seq(Receipt)
    BY DEF IInv, TypeOK
  <2>2. receipts[i] \in Receipt /\ receipts[i].id <= issued
    BY <2>1 DEF IInv, ChainInv
  <2> QED BY <1>1, <2>2 DEF Receipt
<1>9. Log!Record(issued + 1, 1, request)
  BY <1>5, <1>6, <1>7, <1>8 DEF Log!Record
<1> QED BY <1>1, <1>9 DEF Log!Next

(* Every other step leaves the committed log as it is: the receipt file     *)
(* catches up with it, and the journal goes when it has.                    *)
LEMMA OtherStepsKeepTheLog ==
  ASSUME IInv, IInv', [Next]_vars,
         ~ \E p \in Proc, request \in Requests : BeginPending(p, request)
  PROVE  Committed' = Committed
<1>1. ASSUME NEW p \in Proc, AppendReceipt(p)
      PROVE  Committed' = Committed
  <2>1. /\ journal # None /\ NotWritten(receipts, petitions, journal)
        /\ receipts' = Append(receipts, journal.receipt) /\ journal' = journal
    BY <1>1 DEF AppendReceipt, Move, IInv, HolderInv
  <2>2. Committed = receipts'
    BY <2>1, PlanOf DEF Committed, IInv
  <2>3. receipts \in Seq(Receipt)
    BY DEF IInv, TypeOK
  <2>4. HasReceipt(receipts', journal'.receipt.id)
    <3>1. /\ Len(receipts) + 1 \in DOMAIN receipts'
          /\ receipts'[Len(receipts) + 1] = journal.receipt
      BY <2>1, <2>3
    <3> QED BY <2>1, <3>1 DEF HasReceipt
  <2>5. Committed' = receipts'
    BY <2>1, <2>4 DEF Committed, PlannedReceipts, HasReceipt
  <2> QED BY <2>2, <2>5
<1>2. ASSUME NEW p \in Proc, ReplaceReceipts(p)
      PROVE  Committed' = Committed
  <2>1. journal # None /\ receipts' = PlannedReceipts /\ journal' = journal
    BY <1>2 DEF ReplaceReceipts, Move, IInv, HolderInv
  <2>2. Written(PlannedReceipts, PlannedPetitions, journal) /\ PlannedReceipts \in Seq(Receipt)
    BY <2>1, PlanIsWritten DEF IInv
  <2>3. HasReceipt(receipts', journal'.receipt.id)
    <3>1. Len(receipts') \in DOMAIN receipts' /\ receipts'[Len(receipts')] = journal.receipt
      BY <2>1, <2>2 DEF Written
    <3> QED BY <2>1, <3>1 DEF HasReceipt
  <2> QED BY <2>1, <2>3 DEF Committed, PlannedReceipts, HasReceipt
<1>3. ASSUME NEW p \in Proc, ClearPending(p) \/ FinishRecovery(p)
      PROVE  Committed' = Committed
  <2>1. /\ journal # None /\ Written(receipts, petitions, journal)
        /\ receipts' = receipts /\ journal' = None
    BY <1>3 DEF ClearPending, FinishRecovery, Move, IInv, HolderInv
  <2>2. PlannedReceipts = receipts
    BY <2>1, PlanOf DEF IInv
  <2> QED BY <2>1, <2>2 DEF Committed
<1>4. ASSUME UNCHANGED vars PROVE Committed' = Committed
  BY <1>4 DEF vars, disk, Committed, PlannedReceipts
<1>5. ASSUME NEW p \in Proc,
             \/ OpenWrite(p) \/ Close(p) \/ AppendPetition(p) \/ ReplacePetitions(p)
             \/ \E whole \in BOOLEAN : TearReceipt(p, whole) \/ TearPetition(p, whole)
             \/ Crash(p) \/ Inspect(p) \/ GiveUp(p) \/ PlanRecovery(p) \/ CheckOnly(p) \/ Export(p)
      PROVE  Committed' = Committed
  <2>1. receipts' = receipts /\ journal' = journal
    BY <1>5 DEF OpenWrite, Close, AppendPetition, ReplacePetitions,
                TearReceipt, TearPetition, Crash, Inspect, GiveUp, PlanRecovery,
                StartRecovery, RefuseRecovery, CheckOnly, Export, disk
  <2> QED BY <2>1 DEF Committed, PlannedReceipts
<1> QED BY <1>1, <1>2, <1>3, <1>4, <1>5 DEF Next, Holder

(* Journal, appends, kills and recovery implement EvidenceLog: a receipt is *)
(* committed when its journal is durable, once, at the head, for ever.      *)
THEOREM LedgerImplementsLog == Spec => ImplementsLog
<1>1. Init => Log!Init
  BY DEF Init, Log!Init, Committed
<1>2. IInv /\ [Next]_vars => [Log!Next]_Committed
  <2> SUFFICES ASSUME IInv, [Next]_vars PROVE [Log!Next]_Committed
    OBVIOUS
  <2>1. IInv'
    BY StepHolds
  <2> QED BY <2>1, JournalCommits, OtherStepsKeepTheLog
<1> QED BY <1>1, <1>2, Invariance, PTL DEF Spec, ImplementsLog, Log!Spec

----------------------------------------------------------------------------
(* PART TWO: the whole home                                                *)


Busy       == Holding \cup {"mutating", "retired"}
HomePlaces == {"idle"} \cup Waiting \cup Busy

----------------------------------------------------------------------------
(* The inductive invariant *)

HomeLock ==
  /\ lock \in Proc \cup {None}
  /\ pc \in [Proc -> HomePlaces]
  /\ DOMAIN view = Proc
  /\ \A p \in Proc : pc[p] \in Busy <=> lock = p

(* The two files and the journaled pair; no receipt without an id of its    *)
(* own, so the bound on ids bounds the chain.                               *)
FilesInv ==
  /\ receipts \in Seq(Receipt) /\ petitions \in Seq(Petition)
  /\ receiptTail \in [line : Receipt, whole : BOOLEAN] \cup {None}
  /\ journal \in [receipt : Receipt, petition : Petition] \cup {None}
  /\ issued \in 0 .. MaxReceipts
  /\ VerifyChain(receipts, Nat)
  /\ \A i \in 1 .. Len(receipts) : receipts[i].id <= issued
  /\ Len(receipts) <= issued
  /\ QuietInv
  /\ journal # None =>
       /\ PairFits
       /\ journal.receipt.key \in Nat
       /\ journal.receipt.id \in 1 .. issued
       /\ NotWritten(receipts, petitions, journal) => Len(receipts) < issued

LiveKeys ==
  {authority.epochs[e].key : e \in
     {e \in DOMAIN authority.epochs : authority.epochs[e].status \in {"ACTIVE", "SUSPENDED"}}}

(* What the holder of the lock knows at each place.  While a mutation is    *)
(* pending nobody writes receipts, and the other way round.                 *)
PlaceOK(at, memory) ==
  /\ at \in Holding <=> transition = None
  /\ at = "writing" => journal = None /\ memory = OnDisk
  /\ at \in Holding \ {"writing"} => journal # None
  /\ at = "journaled" => NoTails /\ NotWritten(receipts, petitions, journal) /\ memory = OnDisk
  /\ at = "receipted" =>
       /\ NoTails /\ HalfWritten(receipts, petitions, journal)
       /\ receipts = Append(memory.receipts, journal.receipt)
       /\ petitions = memory.petitions
  /\ at = "petitioned" =>
       /\ NoTails /\ Written(receipts, petitions, journal)
       /\ receipts = Append(memory.receipts, journal.receipt)
       /\ petitions = Append(memory.petitions, journal.petition)
  /\ at = "recovering" => memory.receipts = PlannedReceipts
  /\ at = "receiptsReplaced" => ~NotWritten(receipts, petitions, journal)
  /\ at \in {"recovering", "receiptsReplaced"} => memory.petitions = PlannedPetitions
  /\ at = "petitionsReplaced" => NoTails /\ Written(receipts, petitions, journal)
  /\ at \in {"journaled", "recovering"} =>
       authority.active # 0 /\ journal.receipt.key = ActiveKey(authority)
  /\ at = "retired" => Applied /\ custody = LiveKeys

HomeHolder == lock # None => PlaceOK(pc[lock], view[lock])

AuthorityInv ==
  /\ Lawful(authority, Len(Readable), NoAnchors)
  /\ LastRecord(authority).seq = Len(authority.records) - 1
  /\ \A e \in DOMAIN authority.epochs : authority.epochs[e].key \in 1 .. generated

(* A key is generated for a record of the lifecycle, for a mutation that    *)
(* was interrupted, or for the one that is running.                         *)
Running == IF transition # None /\ ~Applied /\ lock # None THEN 1 ELSE 0

CountInv ==
  /\ generated \in Nat /\ crashes \in 0 .. MaxCrashes
  /\ generated <= Len(authority.records) + crashes + Running

(* The pending record as it was signed for the authority and the head of    *)
(* the log that are still there.                                            *)
Fits ==
  /\ transition.record = NewRecord(authority, transition.record.action, transition.record.key,
                                   HeadBoundary(Readable), None)
  /\ transition.record.key \in 1 .. generated
  /\ Len(authority.records) < MaxRecords
  /\ MayPropose(authority, transition.record.action, {Latest(authority).key})
  /\ Accepts(authority, transition.record)
  /\ transition.retires = Len(authority.epochs)

TransitionInv ==
  transition # None =>
    /\ transition \in Transitions
    /\ transition.retires \in DOMAIN authority.epochs
    /\ ~Applied => Fits
    /\ Applied /\ RetiresKey(transition.record.action) =>
         authority.epochs[transition.retires].status \in {"RETIRED", "REVOKED"}

Retiring ==
  IF Applied /\ RetiresKey(transition.record.action)
  THEN {authority.epochs[transition.retires].key} ELSE {}

CustodyInv ==
  /\ LiveKeys \subseteq custody
  /\ custody \subseteq IF transition = None THEN LiveKeys ELSE LiveKeys \cup Retiring

IdentityInv == AuthorityInv /\ CountInv /\ TransitionInv /\ CustodyInv

HomeInv == HomeLock /\ HomeHolder /\ FilesInv /\ IdentityInv

----------------------------------------------------------------------------
(* The log that readers see *)

LEMMA HeadOfChain ==
  ASSUME NEW rs \in Seq(Receipt), NEW trust, VerifyChain(rs, trust)
  PROVE  /\ HeadBoundary(rs).seq = Len(rs) - 1
         /\ HeadBoundary(rs) \in [seq : Int, id : Nat \cup {None}]
<1>1. CASE rs = <<>>
  BY <1>1 DEF HeadBoundary, EmptyBoundary, Boundary
<1>2. CASE rs # <<>>
  <2>1. Len(rs) \in DOMAIN rs /\ Len(rs) \in Nat /\ rs[Len(rs)] \in Receipt
    BY <1>2
  <2>2. rs[Len(rs)].seq = Len(rs) - 1
    BY <2>1 DEF VerifyChain
  <2> QED BY <1>2, <2>1, <2>2 DEF HeadBoundary, Boundary, Receipt
<1> QED BY <1>1, <1>2

LEMMA PendingOverNat ==
  ASSUME FilesInv, journal # None
  PROVE  PendingOver(Nat)
BY DEF FilesInv, PendingOver

(* They see the journaled receipt in the file, or in a tail that parses, or *)
(* not yet.                                                                 *)
LEMMA ReadableShape ==
  ASSUME FilesInv
  PROVE  /\ Readable \in Seq(Receipt) /\ VerifyChain(Readable, Nat)
         /\ Len(Readable) \in Nat
         /\ \/ Readable = receipts
            \/ /\ journal # None /\ receiptTail # None
               /\ NotWritten(receipts, petitions, journal)
               /\ Readable = Append(receipts, journal.receipt)
         /\ receiptTail = None => Readable = receipts
         /\ ~Parses(receiptTail) => Readable = receipts
<1>1. receipts \in Seq(Receipt) /\ VerifyChain(receipts, Nat)
  BY DEF FilesInv
<1>2. CASE receiptTail = None \/ ~Parses(receiptTail)
  BY <1>1, <1>2 DEF Readable, Lines
<1>3. CASE receiptTail # None /\ Parses(receiptTail)
  <2>1. journal # None
    BY <1>3 DEF FilesInv, QuietInv
  <2>2. NotWritten(receipts, petitions, journal) /\ receiptTail.line = journal.receipt
    BY <1>3, <2>1 DEF FilesInv, PairFits, TailIsOf
  <2>3. Readable = Append(receipts, journal.receipt)
    BY <1>3, <2>2 DEF Readable, Lines
  <2>4. /\ journal.receipt \in Receipt /\ journal.receipt.key \in Nat
        /\ Continues(receipts, journal.receipt)
        /\ \A i \in 1 .. Len(receipts) : receipts[i].id # journal.receipt.id
    BY <2>1, <2>2 DEF FilesInv, NotWritten
  <2>5. VerifyChain(Readable, Nat) /\ Readable \in Seq(Receipt)
    BY <1>1, <2>3, <2>4, ChainGrows
  <2> QED BY <1>3, <2>1, <2>2, <2>3, <2>5
<1> QED BY <1>2, <1>3

----------------------------------------------------------------------------
(* Steps that share a shape *)

LEMMA Entering ==
  ASSUME HomeLock, NEW p \in Proc, NEW at \in Busy, NEW memory, Enter(p, at, memory)
  PROVE  /\ HomeLock'
         /\ lock = None /\ lock' = p /\ lock' # None /\ pc'[p] = at /\ view'[p] = memory
<1>1. /\ lock = None /\ lock' = p /\ p # None
      /\ pc' = [pc EXCEPT ![p] = at] /\ view' = [view EXCEPT ![p] = memory]
  BY NoneIsNoProc DEF Enter
<1>2. pc'[p] = at /\ view'[p] = memory
  BY <1>1 DEF HomeLock
<1>3. \A q \in Proc : q # p => pc'[q] = pc[q] /\ pc[q] \notin Busy
  BY <1>1, NoneIsNoProc DEF HomeLock
<1>4. pc' \in [Proc -> HomePlaces] /\ DOMAIN view' = Proc
  BY <1>1 DEF HomeLock, HomePlaces
<1> QED BY <1>1, <1>2, <1>3, <1>4 DEF HomeLock

LEMMA Moving ==
  ASSUME HomeLock, HomeHolder, NEW p \in Proc, NEW from \in Busy, NEW to \in Busy,
         Move(p, from, to), lock' = lock, DOMAIN view' = Proc
  PROVE  /\ HomeLock'
         /\ lock = p /\ lock' = p /\ lock # None /\ pc[p] = from /\ pc'[p] = to
         /\ PlaceOK(from, view[p])
<1>1. pc[p] = from /\ pc' = [pc EXCEPT ![p] = to] /\ lock = p /\ p # None
  BY NoneIsNoProc DEF Move, HomeLock
<1>2. pc'[p] = to /\ \A q \in Proc : q # p => pc'[q] = pc[q]
  BY <1>1 DEF HomeLock
<1>3. pc' \in [Proc -> HomePlaces]
  BY <1>1 DEF HomeLock, HomePlaces
<1> QED BY <1>1, <1>2, <1>3 DEF HomeLock, HomeHolder

LEMMA Leaving ==
  ASSUME HomeLock, NEW p \in Proc, Leave(p)
  PROVE  /\ HomeLock'
         /\ lock' # None => lock' = lock /\ pc'[lock] = pc[lock] /\ view'[lock] = view[lock]
         /\ pc[p] \in Busy => lock = p /\ lock' = None /\ lock # None
         /\ lock = None => lock' = None
<1>1. /\ lock' = (IF lock = p THEN None ELSE lock) /\ p # None
      /\ pc' = [pc EXCEPT ![p] = "idle"] /\ view' = [view EXCEPT ![p] = EmptyView]
      /\ "idle" \in HomePlaces /\ "idle" \notin Busy
  BY NoneIsNoProc DEF Leave, HomePlaces, Busy, Holding
<1>2. pc'[p] = "idle" /\ \A q \in Proc : q # p => pc'[q] = pc[q] /\ view'[q] = view[q]
  BY <1>1 DEF HomeLock
<1>3. pc' \in [Proc -> HomePlaces] /\ DOMAIN view' = Proc
  BY <1>1 DEF HomeLock
<1>4. \A q \in Proc : pc'[q] \in Busy <=> lock' = q
  <2> SUFFICES ASSUME NEW q \in Proc PROVE pc'[q] \in Busy <=> lock' = q
    OBVIOUS
  <2>1. CASE q = p
    BY <1>1, <1>2, <2>1
  <2>2. CASE q # p
    <3>1. q # None
      BY NoneIsNoProc
    <3> QED BY <1>1, <1>2, <2>2, <3>1 DEF HomeLock
  <2> QED BY <2>1, <2>2
<1>5. pc[p] \in Busy => lock = p
  BY DEF HomeLock
<1>6. lock' # None => lock' = lock /\ lock # p /\ lock \in Proc
  BY <1>1 DEF HomeLock
<1>7. lock' \in Proc \cup {None}
  BY <1>1 DEF HomeLock
<1> QED BY <1>1, <1>2, <1>3, <1>4, <1>5, <1>6, <1>7 DEF HomeLock

(* The holder stays where it is while others come and go.                   *)
LEMMA HolderStays ==
  ASSUME HomeHolder, disk' = disk, authority' = authority, transition' = transition,
         custody' = custody,
         lock' # None => lock' = lock /\ pc'[lock] = pc[lock] /\ view'[lock] = view[lock]
  PROVE  HomeHolder'
<1> SUFFICES ASSUME lock' # None PROVE PlaceOK(pc[lock], view[lock])'
  BY DEF HomeHolder
<1>1. /\ receipts' = receipts /\ receiptTail' = receiptTail /\ petitions' = petitions
      /\ petitionTail' = petitionTail /\ journal' = journal
  BY DEF disk
<1>2. PlaceOK(pc[lock], view[lock]) /\ pc'[lock'] = pc[lock] /\ view'[lock'] = view[lock]
  BY DEF HomeHolder
<1> QED BY <1>1, <1>2 DEF PlaceOK, OnDisk, NoTails, PlannedReceipts, PlannedPetitions, Applied, LiveKeys

LEMMA FilesStay ==
  ASSUME FilesInv, disk' = disk, issued' = issued
  PROVE  FilesInv' /\ Readable' = Readable
<1>1. /\ receipts' = receipts /\ receiptTail' = receiptTail /\ petitions' = petitions
      /\ petitionTail' = petitionTail /\ journal' = journal
  BY DEF disk
<1>2. Readable' = Readable
  BY <1>1 DEF Readable
<1> QED BY <1>1, <1>2 DEF FilesInv, QuietInv, PairFits

(* What invocations that do not mutate the lifecycle do to the identity:    *)
(* the log may grow under it, a kill may be counted.                        *)
LEMMA IdentityStays ==
  ASSUME IdentityInv,
         authority' = authority, transition' = transition, generated' = generated,
         custody' = custody, Lawful(authority, Len(Readable'), NoAnchors),
         transition = None \/ Readable' = Readable,
         crashes' \in 0 .. MaxCrashes,
         \/ crashes' = crashes + 1
         \/ crashes' = crashes /\ (transition = None \/ lock = None \/ lock' # None)
  PROVE  IdentityInv'
<1>1. AuthorityInv'
  BY DEF IdentityInv, AuthorityInv
<1>2. CountInv'
  <2>1. Applied' <=> Applied
    BY DEF Applied
  <2>2. Len(authority.records) \in Nat
    BY DEF IdentityInv, AuthorityInv, Lawful, AuthorityType
  <2>3. Running \in {0, 1} /\ Running' \in {0, 1} /\ (crashes' = crashes => Running <= Running')
    BY <2>1 DEF Running
  <2>4. crashes \in Int /\ generated \in Nat
    BY DEF IdentityInv, CountInv
  <2> QED BY <2>2, <2>3, <2>4 DEF IdentityInv, CountInv
<1>3. TransitionInv'
  <2>1. CASE transition = None
    BY <2>1 DEF TransitionInv
  <2>2. CASE Readable' = Readable
    BY <2>2 DEF IdentityInv, TransitionInv, Applied, Fits
  <2> QED BY <2>1, <2>2
<1>4. CustodyInv'
  BY DEF IdentityInv, CustodyInv, LiveKeys, Retiring, Applied
<1> QED BY <1>1, <1>2, <1>3, <1>4 DEF IdentityInv

(* The log and the authority stay, or one journaled receipt of the active   *)
(* key reaches the readers.                                                 *)
LogStays == Readable' = Readable /\ authority' = authority

LogGrows ==
  /\ authority' = authority
  /\ authority.active # 0
  /\ journal # None /\ journal.receipt.key = ActiveKey(authority)
  /\ NotWritten(receipts, petitions, journal)
  /\ Readable = receipts
  /\ Readable' = Append(receipts, journal.receipt)

IdentityFrame ==
  authority' = authority /\ transition' = transition /\ generated' = generated /\ custody' = custody

(* Steps that leave the files and the identity alone. *)
LEMMA QuietStep ==
  ASSUME HomeInv, HomeLock', HomeHolder', disk' = disk, issued' = issued, IdentityFrame,
         crashes' \in 0 .. MaxCrashes,
         \/ crashes' = crashes + 1
         \/ crashes' = crashes /\ (transition = None \/ lock = None \/ lock' # None)
  PROVE  HomeInv' /\ LogStays
<1>1. FilesInv' /\ Readable' = Readable
  BY FilesStay DEF HomeInv
<1>2. Lawful(authority, Len(Readable'), NoAnchors)
  BY <1>1 DEF HomeInv, IdentityInv, AuthorityInv
<1>3. IdentityInv'
  BY <1>1, <1>2, IdentityStays DEF HomeInv, IdentityFrame
<1> QED BY <1>1, <1>3 DEF HomeInv, LogStays, IdentityFrame

LEMMA CrashCount ==
  ASSUME HomeInv, crashes' = crashes \/ Killed
  PROVE  crashes' \in 0 .. MaxCrashes
BY BoundsAreNumbers DEF HomeInv, IdentityInv, CountInv, Killed

----------------------------------------------------------------------------
(* Invocations that come and go *)

LEMMA HomeOpenWrite ==
  ASSUME HomeInv, NEW p \in Proc, OpenWrite(p), UNCHANGED <<generated, custody>>
  PROVE  HomeInv' /\ LogStays
<1>1. /\ journal = None /\ transition = None /\ Enter(p, "writing", Loaded)
      /\ disk' = disk /\ issued' = issued /\ crashes' = crashes /\ IdentityFrame
  BY DEF OpenWrite, OpensForSigning, SigningAvailable, identityVars, IdentityFrame
<1>2. "writing" \in Busy
  BY DEF Busy, Holding
<1>3. HomeLock' /\ lock = None /\ lock' = p /\ pc'[p] = "writing" /\ view'[p] = Loaded
  BY <1>1, <1>2, Entering DEF HomeInv
<1>4. Loaded = OnDisk
  BY <1>1 DEF HomeInv, FilesInv, QuietInv, Loaded, OnDisk, Lines
<1>5. HomeHolder'
  <2>1. /\ receipts' = receipts /\ petitions' = petitions /\ journal' = journal
        /\ transition' = transition
    BY <1>1 DEF disk, IdentityFrame
  <2>2. PlaceOK(pc[lock], view[lock])'
    BY <1>1, <1>3, <1>4, <2>1 DEF PlaceOK, OnDisk, Holding
  <2> QED BY <2>2 DEF HomeHolder
<1> QED BY <1>1, <1>3, <1>5, QuietStep, CrashCount

LEMMA HomeStartRecovery ==
  ASSUME HomeInv, NEW p \in Proc, journal # None, SigningAvailable, StartRecovery(p),
         UNCHANGED <<generated, custody>>
  PROVE  HomeInv' /\ LogStays
<1> DEFINE plan == [receipts |-> PlannedReceipts, petitions |-> PlannedPetitions]
<1>1. /\ journal # None /\ transition = None /\ Enter(p, "recovering", plan)
      /\ disk' = disk /\ issued' = issued /\ crashes' = crashes /\ IdentityFrame
      /\ authority.active # 0 /\ journal.receipt.key = ActiveKey(authority)
  BY DEF StartRecovery, RecoveryPlanHolds, SigningAvailable, identityVars, IdentityFrame
<1>2. "recovering" \in Busy
  BY DEF Busy, Holding
<1>3. HomeLock' /\ lock = None /\ lock' = p /\ pc'[p] = "recovering" /\ view'[p] = plan
  BY <1>1, <1>2, Entering DEF HomeInv
<1>5. HomeHolder'
  <2>1. /\ receipts' = receipts /\ petitions' = petitions /\ journal' = journal
        /\ transition' = transition /\ authority' = authority
    BY <1>1 DEF disk, IdentityFrame
  <2>2. PlannedReceipts' = PlannedReceipts /\ PlannedPetitions' = PlannedPetitions
    BY <2>1 DEF PlannedReceipts, PlannedPetitions
  <2>3. PlaceOK(pc[lock], view[lock])'
    BY <1>1, <1>3, <2>1, <2>2 DEF PlaceOK, Holding
  <2> QED BY <2>3 DEF HomeHolder
<1> QED BY <1>1, <1>3, <1>5, QuietStep, CrashCount

LEMMA HomeResumeMutation ==
  ASSUME HomeInv, NEW p \in Proc, ResumeMutation(p)
  PROVE  HomeInv' /\ LogStays
<1>1. /\ transition # None /\ Enter(p, "mutating", EmptyView)
      /\ disk' = disk /\ issued' = issued /\ crashes' = crashes /\ IdentityFrame
  BY DEF ResumeMutation, evidenceVars, identityVars, IdentityFrame
<1>2. "mutating" \in Busy
  BY DEF Busy
<1>3. HomeLock' /\ lock = None /\ lock' = p /\ lock' # None /\ pc'[p] = "mutating"
  BY <1>1, <1>2, Entering DEF HomeInv
<1>5. HomeHolder'
  <2>1. PlaceOK(pc[lock], view[lock])'
    BY <1>1, <1>3 DEF PlaceOK, Holding, IdentityFrame
  <2> QED BY <2>1 DEF HomeHolder
<1> QED BY <1>1, <1>3, <1>5, QuietStep, CrashCount

(* An invocation ends without having written anything: it returns, is       *)
(* refused or is killed.                                                    *)
LEMMA HomeLeave ==
  ASSUME HomeInv, NEW p \in Proc, Leave(p), disk' = disk, issued' = issued, IdentityFrame,
         Killed \/ (crashes' = crashes /\ (lock = None \/ transition = None))
  PROVE  HomeInv' /\ LogStays
<1>1. /\ HomeLock'
      /\ lock' # None => lock' = lock /\ pc'[lock] = pc[lock] /\ view'[lock] = view[lock]
  BY Leaving DEF HomeInv
<1>2. HomeHolder'
  BY <1>1, HolderStays DEF HomeInv, IdentityFrame
<1>3. \/ crashes' = crashes + 1
      \/ crashes' = crashes /\ (transition = None \/ lock = None \/ lock' # None)
  BY DEF Killed
<1>4. crashes' \in 0 .. MaxCrashes
  BY CrashCount
<1> QED BY <1>1, <1>2, <1>3, <1>4, QuietStep

LEMMA HomeClose ==
  ASSUME HomeInv, NEW p \in Proc, Close(p), UNCHANGED <<generated, custody>>
  PROVE  HomeInv' /\ LogStays
<1>1. /\ Leave(p) /\ disk' = disk /\ issued' = issued /\ IdentityFrame /\ crashes' = crashes
      /\ pc[p] = "writing"
  BY DEF Close, identityVars, IdentityFrame
<1>2. lock = p /\ lock # None /\ "writing" \in Holding
  BY <1>1, NoneIsNoProc DEF HomeInv, HomeLock, Busy, Holding
<1>3. transition = None
  BY <1>1, <1>2 DEF HomeInv, HomeHolder, PlaceOK
<1> QED BY <1>1, <1>3, HomeLeave

LEMMA HomeWait ==
  ASSUME HomeInv, NEW p \in Proc, NEW at \in {"idle"} \cup Waiting, pc[p] \in {"idle"} \cup Waiting,
         pc' = [pc EXCEPT ![p] = at],
         UNCHANGED <<lock, view, disk, issued, crashes, identityVars, generated, custody>>
  PROVE  HomeInv' /\ LogStays
<1>1. lock' = lock /\ view' = view /\ disk' = disk /\ issued' = issued /\ crashes' = crashes /\ IdentityFrame
  BY DEF identityVars, IdentityFrame
<1>2. at \notin Busy /\ pc[p] \notin Busy /\ at \in HomePlaces
  BY DEF Busy, Holding, Waiting, HomePlaces
<1>3. pc'[p] = at /\ \A q \in Proc : q # p => pc'[q] = pc[q]
  BY DEF HomeInv, HomeLock
<1>4. lock # p
  BY <1>2 DEF HomeInv, HomeLock
<1>5. HomeLock'
  <2>1. pc' \in [Proc -> HomePlaces]
    BY <1>2 DEF HomeInv, HomeLock
  <2>2. \A q \in Proc : pc'[q] \in Busy <=> lock' = q
    BY <1>1, <1>2, <1>3 DEF HomeInv, HomeLock
  <2> QED BY <1>1, <2>1, <2>2 DEF HomeInv, HomeLock
<1>6. lock' # None => lock' = lock /\ pc'[lock] = pc[lock] /\ view'[lock] = view[lock]
  BY <1>1, <1>3, <1>4 DEF HomeInv, HomeLock
<1>7. HomeHolder'
  BY <1>1, <1>6, HolderStays DEF HomeInv, IdentityFrame
<1>8. crashes' \in 0 .. MaxCrashes
  BY <1>1, CrashCount
<1> QED BY <1>1, <1>5, <1>7, <1>8, QuietStep

----------------------------------------------------------------------------
(* Writing a pair *)

(* While no mutation is pending the log may grow under the lifecycle. *)
LEMMA WritingStep ==
  ASSUME HomeInv, HomeLock', HomeHolder', FilesInv', IdentityFrame, transition = None,
         crashes' = crashes \/ Killed,
         LogStays \/ LogGrows
  PROVE  HomeInv'
<1>1. Lawful(authority, Len(Readable), NoAnchors) /\ Len(Readable) \in Nat /\ Readable \in Seq(Receipt)
  BY ReadableShape DEF HomeInv, IdentityInv, AuthorityInv
<1>2. Len(Readable') = Len(Readable) \/ Len(Readable') = Len(Readable) + 1
  BY <1>1 DEF LogStays, LogGrows
<1>3. Lawful(authority, Len(Readable) + 1, NoAnchors)
  BY <1>1, LongerLogLawful
<1>4. Lawful(authority, Len(Readable'), NoAnchors)
  BY <1>1, <1>2, <1>3
<1>5. crashes' \in 0 .. MaxCrashes /\ (crashes' = crashes + 1 \/ crashes' = crashes)
  BY CrashCount DEF Killed
<1>6. IdentityInv'
  BY <1>4, <1>5, IdentityStays DEF HomeInv, IdentityFrame
<1> QED BY <1>6 DEF HomeInv

(* Who is at a place knows what the place says. *)
LEMMA AtPlace ==
  ASSUME HomeInv, NEW p \in Proc, pc[p] \in Busy
  PROVE  lock = p /\ lock # None /\ PlaceOK(pc[p], view[p])
BY NoneIsNoProc DEF HomeInv, HomeLock, HomeHolder

LEMMA PairTypes ==
  ASSUME FilesInv, journal # None
  PROVE  /\ receipts \in Seq(Receipt) /\ petitions \in Seq(Petition)
         /\ Len(receipts) \in Nat /\ Len(petitions) \in Nat
         /\ journal.receipt \in Receipt /\ journal.petition \in Petition
         /\ journal.petition.receipt = journal.receipt.id
         /\ journal.petition.request = journal.receipt.request
         /\ journal.receipt.key \in Nat
         /\ journal.receipt.id \in 1 .. issued
         /\ issued \in Nat
         /\ VerifyChain(receipts, Nat)
         /\ \A i \in 1 .. Len(receipts) : receipts[i].id <= issued
BY DEF FilesInv, PairFits

LEMMA HomeBeginPending ==
  ASSUME HomeInv, NEW p \in Proc, NEW request \in Requests, BeginPending(p, request),
         UNCHANGED <<generated, custody>>
  PROVE  HomeInv' /\ LogStays
<1>1. /\ Move(p, "writing", "journaled") /\ lock' = lock /\ view' = view /\ IdentityFrame
      /\ receipts' = receipts /\ receiptTail' = receiptTail /\ petitions' = petitions
      /\ petitionTail' = petitionTail /\ crashes' = crashes /\ issued' = issued + 1
      /\ issued < MaxReceipts /\ authority.active # 0
      /\ journal = None
  BY DEF BeginPending, identityVars, IdentityFrame
<1>2. "writing" \in Busy /\ "journaled" \in Busy /\ "writing" \in Holding /\ "journaled" \in Holding
  BY DEF Busy, Holding
<1>3. HomeLock' /\ lock = p /\ lock' = p /\ lock # None /\ pc[p] = "writing" /\ pc'[p] = "journaled"
      /\ PlaceOK("writing", view[p])
  BY <1>1, <1>2, Moving DEF HomeInv, HomeLock
<1>4. transition = None /\ view[p] = OnDisk
  BY <1>2, <1>3 DEF PlaceOK
<1> DEFINE receipt == NewReceipt(OnDisk, issued + 1, ActiveKey(authority), request)
<1>5. journal' = [receipt |-> receipt, petition |-> [receipt |-> receipt.id, request |-> request]]
  BY <1>4 DEF BeginPending
<1>6. /\ receipts \in Seq(Receipt) /\ Len(receipts) \in Nat /\ issued \in 0 .. MaxReceipts /\ issued \in Nat
      /\ VerifyChain(receipts, Nat) /\ \A i \in 1 .. Len(receipts) : receipts[i].id <= issued
      /\ \A i \in 1 .. Len(receipts) : receipts[i].id \in Nat
      /\ Len(receipts) <= issued
      /\ receiptTail = None /\ petitionTail = None /\ Complete(receipts, petitions)
  <2>1. FilesInv
    BY DEF HomeInv
  <2>2. receipts \in Seq(Receipt) /\ \A i \in 1 .. Len(receipts) : receipts[i] \in Receipt
    BY <2>1 DEF FilesInv
  <2>3. \A i \in 1 .. Len(receipts) : receipts[i].id \in Nat
    BY <2>2 DEF Receipt
  <2>4. issued \in 0 .. MaxReceipts /\ issued \in Nat
    BY <2>1 DEF FilesInv
  <2>5. receiptTail = None /\ petitionTail = None /\ Complete(receipts, petitions)
    BY <1>1, <2>1 DEF FilesInv, QuietInv
  <2> QED BY <2>1, <2>2, <2>3, <2>4, <2>5 DEF FilesInv
<1>7. HeadBoundary(receipts).seq = Len(receipts) - 1 /\ HeadBoundary(receipts).id \in Nat \cup {None}
  BY <1>6, HeadOfChain
<1>8. ActiveKey(authority) \in Nat
  <2>1. AuthorityType(authority, NoAnchors)
    BY DEF HomeInv, IdentityInv, AuthorityInv, Lawful
  <2>2. authority.active \in DOMAIN authority.epochs /\ authority.epochs \in Seq(EpochRecords(NoAnchors))
    BY <1>1, <2>1 DEF AuthorityType
  <2>3. authority.epochs[authority.active] \in EpochRecords(NoAnchors)
    BY <2>2
  <2> QED BY <1>1, <2>3 DEF ActiveKey, EpochRecords
<1>9. /\ receipt.seq = HeadBoundary(receipts).seq + 1 /\ receipt.prev = HeadBoundary(receipts).id
      /\ receipt.id = issued + 1 /\ receipt.key = ActiveKey(authority) /\ receipt.request = request
      /\ receipt \in Receipt
  BY <1>6, <1>7, <1>8 DEF NewReceipt, OnDisk, Receipt
<1> HIDE DEF receipt
<1>10. /\ journal'.receipt = receipt /\ journal' \in [receipt : Receipt, petition : Petition]
       /\ journal'.petition.receipt = receipt.id /\ journal'.petition.request = request
       /\ journal' # None
  <2>1. receipt.id \in Nat
    BY <1>6, <1>9
  <2> QED BY <1>5, <1>9, <2>1, NoneIsNoPair DEF Petition
<1>11. NotWritten(receipts, petitions, journal)'
  BY <1>1, <1>6, <1>9, <1>10 DEF NotWritten, Complete, Paired, Continues
<1>12. FilesInv'
  <2>1. PairFits'
    BY <1>1, <1>6, <1>9, <1>10, <1>11 DEF PairFits, TailIsOf
  <2>2. issued' \in 0 .. MaxReceipts /\ \A i \in 1 .. Len(receipts) : receipts[i].id <= issued + 1
    BY <1>1, <1>6, BoundsAreNumbers
  <2> QED BY <1>1, <1>6, <1>8, <1>9, <1>10, <2>1, <2>2 DEF HomeInv, FilesInv, QuietInv
<1>13. HomeHolder'
  <2>1. PlaceOK(pc[lock], view[lock])'
    BY <1>1, <1>2, <1>3, <1>4, <1>6, <1>9, <1>10, <1>11 DEF PlaceOK, NoTails, OnDisk, IdentityFrame
  <2> QED BY <2>1 DEF HomeHolder
<1>14. LogStays
  BY <1>1 DEF LogStays, Readable, IdentityFrame
<1> QED BY <1>1, <1>3, <1>4, <1>12, <1>13, <1>14, WritingStep

LEMMA HomeAppendReceipt ==
  ASSUME HomeInv, NEW p \in Proc, AppendReceipt(p), UNCHANGED <<generated, custody>>
  PROVE  HomeInv' /\ LogGrows
<1>1. /\ Move(p, "journaled", "receipted") /\ lock' = lock /\ view' = view /\ IdentityFrame
      /\ receipts' = Append(receipts, journal.receipt) /\ receiptTail' = receiptTail
      /\ petitions' = petitions /\ petitionTail' = petitionTail /\ journal' = journal
      /\ crashes' = crashes /\ issued' = issued
  BY DEF AppendReceipt, identityVars, IdentityFrame
<1>2. "journaled" \in Busy /\ "receipted" \in Busy /\ "journaled" \in Holding /\ "receipted" \in Holding
  BY DEF Busy, Holding
<1>3. HomeLock' /\ lock = p /\ lock' = p /\ lock # None /\ pc[p] = "journaled" /\ pc'[p] = "receipted"
      /\ PlaceOK("journaled", view[p])
  BY <1>1, <1>2, Moving DEF HomeInv, HomeLock
<1>4. /\ transition = None /\ view[p] = OnDisk /\ journal # None /\ NoTails
      /\ NotWritten(receipts, petitions, journal)
      /\ authority.active # 0 /\ journal.receipt.key = ActiveKey(authority)
  BY <1>2, <1>3 DEF PlaceOK
<1>5. FilesInv
  BY DEF HomeInv
<1>6. Len(receipts) < issued
  BY <1>4, <1>5 DEF FilesInv
<1>7. HalfWritten(receipts, petitions, journal)' /\ ~NotWritten(receipts, petitions, journal)'
  <2>1. Complete(receipts, petitions)
    BY <1>4 DEF NotWritten
  <2>2. /\ Paired(receipts', petitions) /\ Len(receipts') = Len(petitions) + 1
        /\ receipts'[Len(receipts')] = journal.receipt
    BY <1>1, <1>4, <1>5, <2>1, PairTypes, PairsGrow
  <2>3. Len(petitions) \in Nat
    BY <1>4, <1>5, PairTypes
  <2> QED BY <1>1, <2>2, <2>3 DEF HalfWritten, NotWritten, Complete
<1>8. FilesInv'
  <2>1. receipts' \in Seq(Receipt) /\ Len(receipts') = Len(receipts) + 1
        /\ \A i \in 1 .. Len(receipts') : receipts'[i].id <= issued
    BY <1>1, <1>4, <1>5, PairTypes
  <2>2. VerifyChain(receipts', Nat)
    BY <1>1, <1>4, <1>5, PairTypes, ChainGrows DEF NotWritten
  <2>3. Len(receipts') <= issued
    BY <2>1, <1>4, <1>5, <1>6, PairTypes
  <2>4. PairFits'
    BY <1>1, <1>4, <1>5, <1>7 DEF FilesInv, PairFits, NoTails, TailIsOf
  <2> QED BY <1>1, <1>4, <1>5, <1>7, <2>1, <2>2, <2>3, <2>4 DEF FilesInv, QuietInv
<1>9. HomeHolder'
  <2>1. PlaceOK(pc[lock], view[lock])'
    BY <1>1, <1>2, <1>3, <1>4, <1>7 DEF PlaceOK, NoTails, OnDisk, IdentityFrame
  <2> QED BY <2>1 DEF HomeHolder
<1>10. LogGrows
  BY <1>1, <1>4 DEF LogGrows, Readable, Parses, Lines, NoTails, IdentityFrame
<1> QED BY <1>1, <1>3, <1>4, <1>8, <1>9, <1>10, WritingStep

LEMMA HomeAppendPetition ==
  ASSUME HomeInv, NEW p \in Proc, AppendPetition(p), UNCHANGED <<generated, custody>>
  PROVE  HomeInv' /\ LogStays
<1>1. /\ Move(p, "receipted", "petitioned") /\ lock' = lock /\ view' = view /\ IdentityFrame
      /\ petitions' = Append(petitions, journal.petition) /\ receiptTail' = receiptTail
      /\ receipts' = receipts /\ petitionTail' = petitionTail /\ journal' = journal
      /\ crashes' = crashes /\ issued' = issued
  BY DEF AppendPetition, identityVars, IdentityFrame
<1>2. "receipted" \in Busy /\ "petitioned" \in Busy /\ "receipted" \in Holding /\ "petitioned" \in Holding
  BY DEF Busy, Holding
<1>3. HomeLock' /\ lock = p /\ lock' = p /\ lock # None /\ pc[p] = "receipted" /\ pc'[p] = "petitioned"
      /\ PlaceOK("receipted", view[p])
  BY <1>1, <1>2, Moving DEF HomeInv, HomeLock
<1>4. /\ transition = None /\ journal # None /\ NoTails /\ HalfWritten(receipts, petitions, journal)
      /\ receipts = Append(view[p].receipts, journal.receipt) /\ petitions = view[p].petitions
  BY <1>2, <1>3 DEF PlaceOK
<1>5. FilesInv
  BY DEF HomeInv
<1>7. Written(receipts, petitions, journal)' /\ ~NotWritten(receipts, petitions, journal)'
  <2>0. /\ receipts \in Seq(Receipt) /\ petitions \in Seq(Petition)
        /\ journal.receipt \in Receipt /\ journal.petition \in Petition
        /\ journal.petition.receipt = journal.receipt.id
        /\ journal.petition.request = journal.receipt.request
    BY <1>4, <1>5, PairTypes
  <2>a. Paired(receipts, petitions) /\ Len(receipts) = Len(petitions) + 1 /\ receipts[Len(receipts)] = journal.receipt
    BY <1>4 DEF HalfWritten
  <2>b. /\ Complete(receipts, Append(petitions, journal.petition))
        /\ Append(petitions, journal.petition)[Len(Append(petitions, journal.petition))] = journal.petition
    BY <2>0, <2>a, PairsGrow
  <2>1. Complete(receipts, petitions') /\ petitions'[Len(petitions')] = journal.petition
    BY <1>1, <2>b
  <2>2. Len(receipts) > 0 /\ receipts[Len(receipts)] = journal.receipt /\ Len(receipts) \in 1 .. Len(receipts)
    BY <1>4, <1>5, PairTypes DEF HalfWritten
  <2> QED BY <1>1, <2>1, <2>2 DEF Written, NotWritten
<1>8. FilesInv'
  <2>1. petitions' \in Seq(Petition)
    BY <1>1, <1>4, <1>5, PairTypes
  <2>4. PairFits'
    BY <1>1, <1>4, <1>5, <1>7 DEF FilesInv, PairFits, NoTails
  <2> QED BY <1>1, <1>4, <1>5, <1>7, <2>1, <2>4 DEF FilesInv, QuietInv
<1>9. HomeHolder'
  <2>1. PlaceOK(pc[lock], view[lock])'
    BY <1>1, <1>2, <1>3, <1>4, <1>7 DEF PlaceOK, NoTails, IdentityFrame
  <2> QED BY <2>1 DEF HomeHolder
<1>10. LogStays
  BY <1>1 DEF LogStays, Readable, IdentityFrame
<1> QED BY <1>1, <1>3, <1>4, <1>8, <1>9, <1>10, WritingStep

LEMMA HomeClearPending ==
  ASSUME HomeInv, NEW p \in Proc, ClearPending(p), UNCHANGED <<generated, custody>>
  PROVE  HomeInv' /\ LogStays
<1> DEFINE memory == [receipts  |-> Append(view[p].receipts, journal.receipt),
                      petitions |-> Append(view[p].petitions, journal.petition)]
<1>1. /\ Move(p, "petitioned", "writing") /\ lock' = lock /\ IdentityFrame
      /\ petitions' = petitions /\ receiptTail' = receiptTail
      /\ receipts' = receipts /\ petitionTail' = petitionTail /\ journal' = None
      /\ crashes' = crashes /\ issued' = issued
      /\ DOMAIN view' = DOMAIN view
  BY DEF ClearPending, identityVars, IdentityFrame
<1>2. "petitioned" \in Busy /\ "writing" \in Busy /\ "petitioned" \in Holding /\ "writing" \in Holding
  BY DEF Busy, Holding
<1>3. HomeLock' /\ lock = p /\ lock' = p /\ lock # None /\ pc[p] = "petitioned" /\ pc'[p] = "writing"
      /\ PlaceOK("petitioned", view[p])
  BY <1>1, <1>2, Moving DEF HomeInv, HomeLock
<1>4. /\ transition = None /\ journal # None /\ NoTails /\ Written(receipts, petitions, journal)
      /\ memory = OnDisk
  BY <1>2, <1>3 DEF PlaceOK, OnDisk
<1>5. view'[p] = OnDisk
  <2>1. view'[p] = memory
    BY DEF ClearPending, HomeInv, HomeLock
  <2> QED BY <2>1, <1>4
<1>6. FilesInv'
  <2>1. Complete(receipts, petitions)
    BY <1>4 DEF Written
  <2> QED BY <1>1, <1>4, <2>1 DEF HomeInv, FilesInv, QuietInv, NoTails
<1>7. HomeHolder'
  <2>1. PlaceOK(pc[lock], view[lock])'
    BY <1>1, <1>2, <1>3, <1>4, <1>5 DEF PlaceOK, OnDisk, IdentityFrame
  <2> QED BY <2>1 DEF HomeHolder
<1>8. LogStays
  BY <1>1 DEF LogStays, Readable, IdentityFrame
<1> QED BY <1>1, <1>3, <1>4, <1>6, <1>7, <1>8, WritingStep

----------------------------------------------------------------------------
(* Interrupted writes and their recovery *)

LEMMA HomeTearReceipt ==
  ASSUME HomeInv, NEW p \in Proc, NEW whole \in BOOLEAN, TearReceipt(p, whole),
         UNCHANGED <<generated, custody>>
  PROVE  HomeInv' /\ (LogStays \/ LogGrows)
<1>1. /\ pc[p] = "journaled" /\ Leave(p) /\ Killed /\ IdentityFrame
      /\ receiptTail' = Torn(journal.receipt, whole) /\ receipts' = receipts
      /\ petitions' = petitions /\ petitionTail' = petitionTail /\ journal' = journal
      /\ issued' = issued
  BY DEF TearReceipt, identityVars, IdentityFrame
<1>2. pc[p] \in Busy /\ "journaled" \in Holding
  BY <1>1 DEF Busy, Holding
<1>3. lock = p /\ lock # None /\ PlaceOK("journaled", view[p]) /\ HomeLock' /\ lock' = None
  BY <1>1, <1>2, AtPlace, Leaving DEF HomeInv
<1>4. /\ transition = None /\ journal # None /\ NoTails
      /\ NotWritten(receipts, petitions, journal)
      /\ authority.active # 0 /\ journal.receipt.key = ActiveKey(authority)
  BY <1>2, <1>3 DEF PlaceOK
<1>5. FilesInv /\ journal.receipt \in Receipt
  BY <1>4, PairTypes DEF HomeInv
<1>6. /\ receiptTail' \in [line : Receipt, whole : BOOLEAN]
      /\ receiptTail'.line = journal.receipt /\ receiptTail'.whole = whole
  BY <1>1, <1>5 DEF Torn
<1>7. FilesInv'
  <2>1. PairFits'
    BY <1>1, <1>4, <1>5, <1>6 DEF FilesInv, PairFits, NoTails, TailIsOf
  <2> QED BY <1>1, <1>4, <1>5, <1>6, <2>1 DEF FilesInv, QuietInv
<1>8. HomeHolder'
  BY <1>3 DEF HomeHolder
<1>9. LogStays \/ LogGrows
  <2>1. Readable = receipts
    BY <1>4, <1>5, ReadableShape DEF NoTails
  <2>2. CASE receiptTail' # None /\ whole
    <3>1. Readable' = Append(receipts, journal.receipt)
      BY <1>1, <1>6, <2>2 DEF Readable, Parses, Lines
    <3> QED BY <1>1, <1>4, <2>1, <3>1 DEF LogGrows, IdentityFrame
  <2>3. CASE ~(receiptTail' # None /\ whole)
    <3>1. Readable' = receipts
      BY <1>1, <1>6, <2>3 DEF Readable, Parses, Lines
    <3> QED BY <1>1, <2>1, <3>1 DEF LogStays, IdentityFrame
  <2> QED BY <2>2, <2>3
<1> QED BY <1>1, <1>3, <1>4, <1>7, <1>8, <1>9, WritingStep

LEMMA HomeTearPetition ==
  ASSUME HomeInv, NEW p \in Proc, NEW whole \in BOOLEAN, TearPetition(p, whole),
         UNCHANGED <<generated, custody>>
  PROVE  HomeInv' /\ LogStays
<1>1. /\ pc[p] = "receipted" /\ Leave(p) /\ Killed /\ IdentityFrame
      /\ petitionTail' = Torn(journal.petition, whole) /\ receipts' = receipts
      /\ petitions' = petitions /\ receiptTail' = receiptTail /\ journal' = journal
      /\ issued' = issued
  BY DEF TearPetition, identityVars, IdentityFrame
<1>2. pc[p] \in Busy /\ "receipted" \in Holding
  BY <1>1 DEF Busy, Holding
<1>3. lock = p /\ lock # None /\ PlaceOK("receipted", view[p]) /\ HomeLock' /\ lock' = None
  BY <1>1, <1>2, AtPlace, Leaving DEF HomeInv
<1>4. /\ transition = None /\ journal # None /\ NoTails /\ HalfWritten(receipts, petitions, journal)
  BY <1>2, <1>3 DEF PlaceOK
<1>5. FilesInv
  BY DEF HomeInv
<1>6. ~NotWritten(receipts, petitions, journal)
  BY <1>4, <1>5, PairTypes DEF HalfWritten, NotWritten, Complete
<1>7. FilesInv'
  <2>1. PairFits'
    BY <1>1, <1>4, <1>5, <1>6 DEF FilesInv, PairFits, NoTails, TailIsOf, Torn
  <2> QED BY <1>1, <1>4, <1>5, <1>6, <2>1 DEF FilesInv, QuietInv
<1>8. HomeHolder'
  BY <1>3 DEF HomeHolder
<1>9. LogStays
  BY <1>1 DEF LogStays, Readable, IdentityFrame
<1> QED BY <1>1, <1>3, <1>4, <1>7, <1>8, <1>9, WritingStep

(* The three ways a pair can be pending exclude each other. *)
LEMMA StagesExclude ==
  ASSUME FilesInv, journal # None
  PROVE  /\ HalfWritten(receipts, petitions, journal) =>
              ~NotWritten(receipts, petitions, journal)
         /\ Written(receipts, petitions, journal) =>
              ~NotWritten(receipts, petitions, journal)
<1>1. Len(receipts) \in Nat /\ Len(petitions) \in Nat
  BY PairTypes
<1>2. ASSUME HalfWritten(receipts, petitions, journal)
      PROVE  ~NotWritten(receipts, petitions, journal)
  BY <1>1, <1>2 DEF HalfWritten, NotWritten, Complete
<1>3. ASSUME Written(receipts, petitions, journal)
      PROVE  ~NotWritten(receipts, petitions, journal)
  <2>1. Len(receipts) \in 1 .. Len(receipts) /\ receipts[Len(receipts)].id = journal.receipt.id
    BY <1>1, <1>3 DEF Written
  <2> QED BY <2>1 DEF NotWritten
<1> QED BY <1>2, <1>3

LEMMA HomeReplaceReceipts ==
  ASSUME HomeInv, NEW p \in Proc, ReplaceReceipts(p), UNCHANGED <<generated, custody>>
  PROVE  HomeInv' /\ (LogStays \/ LogGrows)
<1>1. /\ Move(p, "recovering", "receiptsReplaced") /\ lock' = lock /\ view' = view /\ IdentityFrame
      /\ receipts' = view[p].receipts /\ receiptTail' = None
      /\ petitions' = petitions /\ petitionTail' = petitionTail /\ journal' = journal
      /\ crashes' = crashes /\ issued' = issued
  BY DEF ReplaceReceipts, identityVars, IdentityFrame
<1>2. /\ "recovering" \in Busy /\ "receiptsReplaced" \in Busy
      /\ "recovering" \in Holding /\ "receiptsReplaced" \in Holding
  BY DEF Busy, Holding
<1>3. HomeLock' /\ lock = p /\ lock' = p /\ lock # None /\ pc[p] = "recovering"
      /\ pc'[p] = "receiptsReplaced" /\ PlaceOK("recovering", view[p])
  BY <1>1, <1>2, Moving DEF HomeInv, HomeLock
<1>4. /\ transition = None /\ journal # None
      /\ view[p].receipts = PlannedReceipts /\ view[p].petitions = PlannedPetitions
      /\ authority.active # 0 /\ journal.receipt.key = ActiveKey(authority)
  BY <1>2, <1>3 DEF PlaceOK
<1>5. FilesInv /\ PairFits /\ PendingOver(Nat)
  BY <1>4, PendingOverNat DEF HomeInv, PendingOver
<1>6. /\ receipts \in Seq(Receipt) /\ petitions \in Seq(Petition) /\ Len(receipts) \in Nat
      /\ Len(petitions) \in Nat /\ journal.receipt \in Receipt /\ journal.petition \in Petition
      /\ issued \in Nat
  BY <1>4, <1>5, PairTypes
<1>7. /\ receipts' \in Seq(Receipt) /\ VerifyChain(receipts', Nat)
      /\ \A i \in 1 .. Len(receipts') : receipts'[i].id <= issued
  BY <1>1, <1>4, <1>5, PlanCompletes
<1>8. PlannedPetitions' = PlannedPetitions
  BY <1>1 DEF PlannedPetitions
<1>9. ASSUME HalfWritten(receipts, petitions, journal)', ~NotWritten(receipts, petitions, journal)',
             TailIsOf(petitionTail, journal.petition), Len(receipts') <= issued,
             LogStays \/ LogGrows
      PROVE  HomeInv' /\ (LogStays \/ LogGrows)
  <2>1. PairFits'
    BY <1>1, <1>5, <1>9 DEF PairFits
  <2>2. FilesInv'
    BY <1>1, <1>4, <1>5, <1>7, <1>9, <2>1 DEF FilesInv, QuietInv
  <2>3. PlaceOK(pc[lock], view[lock])'
    BY <1>1, <1>2, <1>3, <1>4, <1>8, <1>9 DEF PlaceOK, IdentityFrame
  <2>4. HomeHolder'
    BY <2>3 DEF HomeHolder
  <2> QED BY <1>1, <1>3, <1>4, <1>9, <2>2, <2>4, WritingStep
<1>10. CASE /\ NotWritten(receipts, petitions, journal)
            /\ TailIsOf(receiptTail, journal.receipt) /\ petitionTail = None
  <2>1. receipts' = Append(receipts, journal.receipt)
    BY <1>1, <1>4, <1>5, <1>10, PlanCases
  <2>2. Complete(receipts, petitions)
    BY <1>10 DEF NotWritten
  <2>3. /\ Paired(receipts', petitions) /\ Len(receipts') = Len(petitions) + 1
        /\ receipts'[Len(receipts')] = journal.receipt
    <3>1. journal.petition.receipt = journal.receipt.id /\ journal.petition.request = journal.receipt.request
      BY <1>5 DEF PairFits
    <3> QED BY <1>6, <2>1, <2>2, <3>1, PairsGrow
  <2>4. HalfWritten(receipts, petitions, journal)' /\ ~NotWritten(receipts, petitions, journal)'
    BY <1>1, <1>6, <2>3 DEF HalfWritten, NotWritten, Complete
  <2>5. Len(receipts') <= issued
    BY <1>4, <1>5, <1>6, <1>10, <2>1 DEF FilesInv
  <2>6. Readable' = receipts'
    BY <1>1 DEF Readable, Parses, Lines
  <2>7. LogStays \/ LogGrows
    <3>1. CASE receiptTail # None /\ receiptTail.whole
      BY <1>1, <1>10, <2>1, <2>6, <3>1 DEF LogStays, Readable, Parses, Lines, TailIsOf, IdentityFrame
    <3>2. CASE receiptTail = None \/ ~receiptTail.whole
      <4>1. Readable = receipts
        BY <3>2 DEF Readable, Parses, Lines
      <4> QED BY <1>1, <1>4, <1>10, <2>1, <2>6, <4>1 DEF LogGrows, IdentityFrame
    <3> QED BY <3>1, <3>2
  <2>8. TailIsOf(petitionTail, journal.petition)
    BY <1>10 DEF TailIsOf
  <2> QED BY <1>9, <2>4, <2>5, <2>7, <2>8
<1>11. CASE /\ HalfWritten(receipts, petitions, journal)
            /\ receiptTail = None /\ TailIsOf(petitionTail, journal.petition)
  <2>1. receipts' = receipts
    BY <1>1, <1>4, <1>5, <1>11, PlanCases
  <2>2. HalfWritten(receipts, petitions, journal)' /\ ~NotWritten(receipts, petitions, journal)'
    BY <1>1, <1>4, <1>5, <1>11, <2>1, StagesExclude
  <2>3. Len(receipts') <= issued
    BY <1>5, <2>1 DEF FilesInv
  <2>4. LogStays
    BY <1>1, <1>11, <2>1 DEF LogStays, Readable, IdentityFrame
  <2> QED BY <1>9, <1>11, <2>2, <2>3, <2>4
<1>12. CASE /\ Written(receipts, petitions, journal)
            /\ receiptTail = None /\ petitionTail = None
  <2>1. receipts' = receipts
    BY <1>1, <1>4, <1>5, <1>12, PlanCases
  <2>2. Written(receipts, petitions, journal)' /\ ~NotWritten(receipts, petitions, journal)'
    BY <1>1, <1>4, <1>5, <1>12, <2>1, StagesExclude
  <2>3. PairFits'
    BY <1>1, <1>5, <1>12, <2>1, <2>2 DEF PairFits
  <2>4. FilesInv'
    BY <1>1, <1>4, <1>5, <1>7, <2>1, <2>2, <2>3 DEF FilesInv, QuietInv
  <2>5. PlaceOK(pc[lock], view[lock])'
    BY <1>1, <1>2, <1>3, <1>4, <1>8, <2>2 DEF PlaceOK, IdentityFrame
  <2>6. HomeHolder'
    BY <2>5 DEF HomeHolder
  <2>7. LogStays
    BY <1>1, <1>12, <2>1 DEF LogStays, Readable, IdentityFrame
  <2> QED BY <1>1, <1>3, <1>4, <2>4, <2>6, <2>7, WritingStep
<1> QED BY <1>5, <1>10, <1>11, <1>12 DEF PairFits

LEMMA HomeReplacePetitions ==
  ASSUME HomeInv, NEW p \in Proc, ReplacePetitions(p), UNCHANGED <<generated, custody>>
  PROVE  HomeInv' /\ LogStays
<1>1. /\ Move(p, "receiptsReplaced", "petitionsReplaced") /\ lock' = lock /\ view' = view
      /\ IdentityFrame /\ petitions' = view[p].petitions /\ petitionTail' = None
      /\ receipts' = receipts /\ receiptTail' = receiptTail /\ journal' = journal
      /\ crashes' = crashes /\ issued' = issued
  BY DEF ReplacePetitions, identityVars, IdentityFrame
<1>2. /\ "receiptsReplaced" \in Busy /\ "petitionsReplaced" \in Busy
      /\ "receiptsReplaced" \in Holding /\ "petitionsReplaced" \in Holding
  BY DEF Busy, Holding
<1>3. HomeLock' /\ lock = p /\ lock' = p /\ lock # None /\ pc[p] = "receiptsReplaced"
      /\ pc'[p] = "petitionsReplaced" /\ PlaceOK("receiptsReplaced", view[p])
  BY <1>1, <1>2, Moving DEF HomeInv, HomeLock
<1>4. /\ transition = None /\ journal # None /\ view[p].petitions = PlannedPetitions
      /\ ~NotWritten(receipts, petitions, journal)
  BY <1>2, <1>3 DEF PlaceOK
<1>5. FilesInv /\ PairFits /\ PendingOver(Nat)
  BY <1>4, PendingOverNat DEF HomeInv, PendingOver
<1>6. petitions' \in Seq(Petition) /\ Written(PlannedReceipts, PlannedPetitions, journal)
  BY <1>1, <1>4, <1>5, PlanCompletes
<1>7. PlannedReceipts = receipts /\ receiptTail = None
  <2>1. \/ HalfWritten(receipts, petitions, journal) /\ receiptTail = None
        \/ Written(receipts, petitions, journal) /\ receiptTail = None
    BY <1>4, <1>5 DEF PairFits
  <2> QED BY <1>5, <2>1, PlanCases
<1>8. Written(receipts, petitions, journal)'
  BY <1>1, <1>4, <1>6, <1>7
<1>9. ~NotWritten(receipts, petitions, journal)'
  <2>1. Len(receipts) \in 1 .. Len(receipts) /\ receipts[Len(receipts)].id = journal.receipt.id
    BY <1>1, <1>4, <1>5, <1>8, PairTypes DEF Written
  <2> QED BY <1>1, <2>1 DEF NotWritten
<1>10. FilesInv'
  <2>1. PairFits'
    BY <1>1, <1>5, <1>7, <1>8 DEF PairFits
  <2> QED BY <1>1, <1>4, <1>5, <1>6, <1>9, <2>1 DEF FilesInv, QuietInv
<1>11. HomeHolder'
  <2>1. PlaceOK(pc[lock], view[lock])'
    BY <1>1, <1>2, <1>3, <1>4, <1>7, <1>8 DEF PlaceOK, NoTails, IdentityFrame
  <2> QED BY <2>1 DEF HomeHolder
<1>12. LogStays
  BY <1>1 DEF LogStays, Readable, IdentityFrame
<1> QED BY <1>1, <1>3, <1>4, <1>10, <1>11, <1>12, WritingStep

LEMMA HomeFinishRecovery ==
  ASSUME HomeInv, NEW p \in Proc, FinishRecovery(p), UNCHANGED <<generated, custody>>
  PROVE  HomeInv' /\ LogStays
<1>1. /\ pc[p] = "petitionsReplaced" /\ Leave(p) /\ IdentityFrame
      /\ journal' = None /\ receipts' = receipts /\ receiptTail' = receiptTail
      /\ petitions' = petitions /\ petitionTail' = petitionTail
      /\ crashes' = crashes /\ issued' = issued
  BY DEF FinishRecovery, identityVars, IdentityFrame
<1>2. pc[p] \in Busy /\ "petitionsReplaced" \in Holding
  BY <1>1 DEF Busy, Holding
<1>3. lock = p /\ lock # None /\ PlaceOK("petitionsReplaced", view[p]) /\ HomeLock' /\ lock' = None
  BY <1>1, <1>2, AtPlace, Leaving DEF HomeInv
<1>4. transition = None /\ NoTails /\ Written(receipts, petitions, journal)
  BY <1>2, <1>3 DEF PlaceOK
<1>5. FilesInv'
  <2>1. Complete(receipts, petitions)
    BY <1>4 DEF Written
  <2> QED BY <1>1, <1>4, <2>1 DEF HomeInv, FilesInv, QuietInv, NoTails
<1>6. HomeHolder'
  BY <1>3 DEF HomeHolder
<1>7. LogStays
  BY <1>1 DEF LogStays, Readable, IdentityFrame
<1> QED BY <1>1, <1>3, <1>4, <1>5, <1>6, <1>7, WritingStep

----------------------------------------------------------------------------
(* Mutations of the lifecycle *)

LEMMA TransitionTypes ==
  ASSUME HomeInv, transition # None
  PROVE  /\ transition \in Transitions
         /\ transition.record \in LifecycleRecords(NoAnchors) /\ transition.record.action \in Actions
         /\ transition.retires \in DOMAIN authority.epochs
BY DEF HomeInv, IdentityInv, TransitionInv, Transitions, LifecycleRecords, NoAnchors

LEMMA AuthorityTypes ==
  ASSUME HomeInv
  PROVE  /\ AuthorityType(authority, NoAnchors)
         /\ Lawful(authority, Len(Readable), NoAnchors) /\ Len(Readable) \in Nat
         /\ Len(authority.records) \in Nat /\ Len(authority.epochs) \in Nat
         /\ Len(authority.epochs) \in DOMAIN authority.epochs
         /\ DOMAIN authority.epochs = 1 .. Len(authority.epochs)
         /\ \A e \in DOMAIN authority.epochs :
              authority.epochs[e] \in EpochRecords(NoAnchors) /\ authority.epochs[e].key \in 1 .. generated
<1>1. Lawful(authority, Len(Readable), NoAnchors) /\ AuthorityType(authority, NoAnchors) /\ Len(Readable) \in Nat
  BY ReadableShape DEF HomeInv, IdentityInv, AuthorityInv, Lawful
<1>2. authority.records \in Seq(LifecycleRecords(NoAnchors)) /\ authority.epochs \in Seq(EpochRecords(NoAnchors))
      /\ authority.epochs # <<>>
  BY <1>1 DEF AuthorityType
<1>3. /\ DOMAIN authority.epochs = 1 .. Len(authority.epochs)
      /\ \A e \in DOMAIN authority.epochs : authority.epochs[e] \in EpochRecords(NoAnchors)
  BY <1>2
<1> QED BY <1>1, <1>2, <1>3 DEF HomeInv, IdentityInv, AuthorityInv

(* The evidence files while the lifecycle changes. *)
LEMMA EvidenceStays ==
  ASSUME HomeInv, UNCHANGED evidenceVars
  PROVE  FilesInv' /\ Readable' = Readable
BY FilesStay DEF HomeInv, evidenceVars

(* What is loaded is what readers see, so a record names the exact head. *)
LEMMA LoadedIsReadable ==
  ASSUME Loadable
  PROVE  Loaded.receipts = Readable
BY DEF Loadable, Loaded, Readable

(* Only the latest epoch's key is ever asked for. *)
LEMMA ProposesWithLatest ==
  ASSUME NEW a, AuthorityType(a, NoAnchors), NEW action, NEW held, MayPropose(a, action, held)
  PROVE  MayPropose(a, action, {Latest(a).key})
<1>1. a.active # 0 => ActiveKey(a) = Latest(a).key
  BY DEF AuthorityType, ActiveKey, Latest, LatestEpoch
<1> QED BY <1>1 DEF MayPropose

LEMMA HomeBeginMutation ==
  ASSUME HomeInv, NEW p \in Proc, NEW action \in Actions, BeginMutation(p, action)
  PROVE  HomeInv' /\ LogStays
<1> DEFINE record == NewRecord(authority, action, generated + 1, HeadBoundary(Readable), None)
<1>1. /\ Loadable /\ transition = None /\ Len(authority.records) < MaxRecords
      /\ MayPropose(authority, action, custody)
      /\ generated' = (IF GeneratesKey(action) THEN generated + 1 ELSE generated)
      /\ Enter(p, "mutating", EmptyView)
      /\ UNCHANGED evidenceVars /\ crashes' = crashes /\ authority' = authority
      /\ custody' = custody
  BY DEF BeginMutation, OpensReadOnly
<1>2. Accepts(authority, record) /\ transition' = Transition(record)
  BY <1>1, LoadedIsReadable DEF BeginMutation, MutationBoundary
<1>3. "mutating" \in Busy
  BY DEF Busy
<1>4. HomeLock' /\ lock = None /\ lock' = p /\ lock' # None /\ pc'[p] = "mutating"
  BY <1>1, <1>3, Entering DEF HomeInv
<1>5. FilesInv' /\ Readable' = Readable
  BY <1>1, EvidenceStays
<1>6. /\ HeadBoundary(Readable) \in [seq : Int, id : Nat \cup {None}]
      /\ generated \in Nat /\ crashes \in 0 .. MaxCrashes
  BY ReadableShape, HeadOfChain DEF HomeInv, IdentityInv, CountInv
<1>7. Latest(authority).key \in 1 .. generated
  BY AuthorityTypes DEF Latest, LatestEpoch
<1>8. /\ record.seq = Len(authority.records) /\ record.action = action
      /\ record.key = (IF GeneratesKey(action) THEN generated + 1 ELSE Latest(authority).key)
      /\ record.key \in 1 .. generated'
      /\ record \in [seq : Nat, action : Actions, epoch : Nat, key : Nat,
                     boundary : [seq : Int, id : Nat \cup {None}], anchor : {None}]
  BY <1>1, <1>6, <1>7, AuthorityTypes DEF NewRecord, LatestEpoch
<1>9. record = NewRecord(authority, record.action, record.key, HeadBoundary(Readable), None)
  BY <1>8 DEF NewRecord
<1> HIDE DEF record
<1>10. /\ transition' \in Transitions /\ transition' # None
       /\ transition'.record = record /\ transition'.retires = Len(authority.epochs)
  <2>1. transition' = [record |-> record, retires |-> Len(authority.epochs), staged |-> FALSE]
    BY <1>2 DEF Transition, LatestEpoch
  <2>2. Len(authority.epochs) \in Nat
    BY AuthorityTypes
  <2>3. transition' \in Transitions
    BY <1>8, <2>1, <2>2 DEF Transitions
  <2> QED BY <2>1, <2>3, NoneIsNoTransition
<1>11. ~Applied'
  BY <1>1, <1>8, <1>10, AuthorityTypes DEF Applied, HomeInv, IdentityInv, AuthorityInv
<1>12. AuthorityInv'
  <2>1. \A e \in DOMAIN authority.epochs : authority.epochs[e].key \in 1 .. generated'
    BY <1>1, <1>6, AuthorityTypes
  <2> QED BY <1>1, <1>5, <2>1 DEF HomeInv, IdentityInv, AuthorityInv
<1>13. CountInv'
  <2>1. Running = 0 /\ Running' = 1
    BY <1>1, <1>4, <1>10, <1>11 DEF Running
  <2> QED BY <1>1, <1>6, <2>1, AuthorityTypes DEF HomeInv, IdentityInv, CountInv
<1>14. TransitionInv'
  <2>1. MayPropose(authority, action, {Latest(authority).key})
    BY <1>1, AuthorityTypes, ProposesWithLatest
  <2>2. Fits'
    BY <1>1, <1>2, <1>5, <1>8, <1>9, <1>10, <2>1 DEF Fits
  <2> QED BY <1>1, <1>10, <1>11, <2>2, AuthorityTypes DEF TransitionInv
<1>15. CustodyInv'
  BY <1>1, <1>10 DEF HomeInv, IdentityInv, CustodyInv, LiveKeys
<1>16. HomeHolder'
  <2>1. PlaceOK(pc[lock], view[lock])'
    BY <1>4, <1>10 DEF PlaceOK, Holding
  <2> QED BY <2>1 DEF HomeHolder
<1> QED BY <1>1, <1>4, <1>5, <1>12, <1>13, <1>14, <1>15, <1>16 DEF HomeInv, IdentityInv, LogStays

LEMMA HomeStageKey ==
  ASSUME HomeInv, NEW p \in Proc, StageKey(p)
  PROVE  HomeInv' /\ LogStays
<1>1. /\ pc[p] = "mutating" /\ ~Applied
      /\ transition' = [transition EXCEPT !.staged = TRUE]
      /\ lock' = lock /\ pc' = pc /\ view' = view /\ UNCHANGED evidenceVars /\ crashes' = crashes
      /\ authority' = authority /\ generated' = generated /\ custody' = custody
  BY DEF StageKey
<1>2. pc[p] \in Busy /\ "mutating" \notin Holding
  BY <1>1 DEF Busy, Holding
<1>3. lock = p /\ lock # None /\ transition # None
  BY <1>1, <1>2, AtPlace DEF PlaceOK
<1>4. FilesInv' /\ Readable' = Readable
  BY <1>1, EvidenceStays
<1>5. /\ transition' \in Transitions /\ transition' # None
      /\ transition'.record = transition.record /\ transition'.retires = transition.retires
  BY <1>1, <1>3, TransitionTypes, NoneIsNoTransition DEF Transitions
<1>6. Applied' = Applied /\ RetiresKey(transition'.record.action) = RetiresKey(transition.record.action)
  BY <1>1, <1>5 DEF Applied
<1>7. IdentityInv'
  <2>1. AuthorityInv'
    BY <1>1, <1>4 DEF HomeInv, IdentityInv, AuthorityInv
  <2>2. CountInv'
    BY <1>1, <1>3, <1>5, <1>6 DEF HomeInv, IdentityInv, CountInv, Running
  <2>3. TransitionInv'
    BY <1>1, <1>3, <1>4, <1>5, <1>6 DEF HomeInv, IdentityInv, TransitionInv, Fits
  <2>4. CustodyInv'
    BY <1>1, <1>3, <1>5, <1>6 DEF HomeInv, IdentityInv, CustodyInv, LiveKeys, Retiring
  <2> QED BY <2>1, <2>2, <2>3, <2>4 DEF IdentityInv
<1>8. HomeLock' /\ HomeHolder'
  <2>1. PlaceOK(pc[lock], view[lock])'
    BY <1>1, <1>2, <1>3, <1>5 DEF PlaceOK
  <2> QED BY <1>1, <2>1 DEF HomeInv, HomeLock, HomeHolder
<1> QED BY <1>1, <1>4, <1>7, <1>8 DEF HomeInv, LogStays

LEMMA HomePublishLifecycle ==
  ASSUME HomeInv, NEW p \in Proc, PublishLifecycle(p)
  PROVE  HomeInv' /\ Readable' = Readable /\ Fits
<1> DEFINE r == transition.record
           n == Len(Readable)
           N == Len(authority.epochs)
<1>1. /\ pc[p] = "mutating" /\ ~Applied
      /\ authority' = Apply(authority, r)
      /\ custody' = (IF GeneratesKey(r.action) THEN custody \cup {r.key} ELSE custody)
      /\ lock' = lock /\ pc' = pc /\ view' = view /\ UNCHANGED evidenceVars /\ crashes' = crashes
      /\ transition' = transition /\ generated' = generated
  BY DEF PublishLifecycle, NeedsKey
<1>2. pc[p] \in Busy /\ "mutating" \notin Holding
  BY <1>1 DEF Busy, Holding
<1>3. lock = p /\ lock # None /\ transition # None
  BY <1>1, <1>2, AtPlace DEF PlaceOK
<1>4. FilesInv' /\ Readable' = Readable
  BY <1>1, EvidenceStays
<1>5. Fits /\ transition.retires = N
  BY <1>1, <1>3 DEF HomeInv, IdentityInv, TransitionInv, Fits
<1>6. r \in LifecycleRecords(NoAnchors) /\ r.action \in Actions /\ r.key \in 1 .. generated /\ Accepts(authority, r)
  BY <1>3, <1>5, TransitionTypes DEF Fits
<1>7. r.boundary.seq = n - 1 /\ r.seq = Len(authority.records)
  <2>1. HeadBoundary(Readable).seq = n - 1
    BY ReadableShape, HeadOfChain DEF HomeInv
  <2>2. r.boundary = HeadBoundary(Readable)
    BY <1>5 DEF Fits, NewRecord
  <2> QED BY <1>6, <2>1, <2>2 DEF Accepts
<1>8. Lawful(authority, n, NoAnchors) /\ n \in Nat
  BY AuthorityTypes
<1> HIDE DEF r, n
<1>9. Lawful(authority', n, NoAnchors)
  BY <1>1, <1>6, <1>7, <1>8, ApplyLawful
<1>10. /\ authority'.records = Append(authority.records, r)
       /\ Len(authority'.epochs) = (IF GeneratesKey(r.action) THEN N + 1 ELSE N)
       /\ GeneratesKey(r.action) =>
            authority'.epochs[N + 1].key = r.key /\ authority'.epochs[N + 1].status = "ACTIVE"
       /\ RetiresKey(r.action) => authority'.epochs[N].status \in {"RETIRED", "REVOKED"}
       /\ \A e \in DOMAIN authority.epochs : authority'.epochs[e].status \in {"ACTIVE", "SUSPENDED"} =>
            authority.epochs[e].status \in {"ACTIVE", "SUSPENDED"}
       /\ \A e \in DOMAIN authority.epochs : authority.epochs[e].status \in {"ACTIVE", "SUSPENDED"} =>
            \/ authority'.epochs[e].status \in {"ACTIVE", "SUSPENDED"}
            \/ e = N /\ RetiresKey(r.action)
  BY <1>1, <1>6, <1>7, <1>8, ApplyMovesEpochs
<1>11. \A e \in DOMAIN authority.epochs :
          e \in DOMAIN authority'.epochs /\ authority'.epochs[e].key = authority.epochs[e].key
  BY <1>1, <1>6, <1>7, <1>8, ApplyKeepsEpochs
<1>12. /\ N \in Nat /\ DOMAIN authority.epochs = 1 .. N /\ N \in DOMAIN authority.epochs
       /\ DOMAIN authority'.epochs = 1 .. Len(authority'.epochs)
       /\ authority.records \in Seq(LifecycleRecords(NoAnchors)) /\ Len(authority.records) \in Nat
  <2>1. authority'.epochs \in Seq(EpochRecords(NoAnchors))
    BY <1>9 DEF Lawful, AuthorityType
  <2> QED BY <2>1, AuthorityTypes DEF AuthorityType
<1>13. \A e \in DOMAIN authority'.epochs : e \in DOMAIN authority.epochs \/ (GeneratesKey(r.action) /\ e = N + 1)
  BY <1>10, <1>12
<1>14. LastRecord(authority') = r /\ Len(authority'.records) = Len(authority.records) + 1
  BY <1>6, <1>10, <1>12 DEF LastRecord
<1> HIDE DEF N
<1>15. AuthorityInv'
  <2>1. \A e \in DOMAIN authority'.epochs : authority'.epochs[e].key \in 1 .. generated
    BY <1>6, <1>10, <1>11, <1>13, AuthorityTypes
  <2>2. LastRecord(authority').seq = Len(authority'.records) - 1
    BY <1>7, <1>12, <1>14
  <2> QED BY <1>1, <1>4, <1>9, <2>1, <2>2 DEF AuthorityInv, n
<1>16. Applied'
  BY <1>1, <1>14 DEF Applied, r
<1>17. CountInv'
  <2>1. Running = 1 /\ Running' = 0
    BY <1>1, <1>3, <1>16 DEF Running
  <2> QED BY <1>1, <1>12, <1>14, <2>1 DEF HomeInv, IdentityInv, CountInv
<1>18. TransitionInv'
  BY <1>1, <1>3, <1>5, <1>10, <1>11, <1>12, <1>16, TransitionTypes DEF TransitionInv, r
<1>19. CustodyInv'
  <2>1. custody = LiveKeys \/ (LiveKeys \subseteq custody /\ custody \subseteq LiveKeys)
    BY <1>1, <1>3 DEF HomeInv, IdentityInv, CustodyInv, Retiring
  <2>2. ASSUME NEW e \in DOMAIN authority'.epochs, authority'.epochs[e].status \in {"ACTIVE", "SUSPENDED"}
        PROVE  authority'.epochs[e].key \in custody'
    <3>1. CASE e \in DOMAIN authority.epochs
      <4>1. authority.epochs[e].key \in LiveKeys
        BY <1>10, <2>2, <3>1 DEF LiveKeys
      <4> QED BY <1>1, <1>11, <2>1, <3>1, <4>1
    <3>2. CASE GeneratesKey(r.action) /\ e = N + 1
      BY <1>1, <1>10, <3>2 DEF r
    <3> QED BY <1>13, <3>1, <3>2
  <2>3. LiveKeys' \subseteq custody'
    BY <2>2 DEF LiveKeys
  <2>4. RetiresKey(r.action) => Retiring' = {authority'.epochs[N].key}
    BY <1>1, <1>5, <1>16 DEF Retiring, r
  <2>5. ASSUME NEW e \in DOMAIN authority.epochs, authority.epochs[e].status \in {"ACTIVE", "SUSPENDED"}
        PROVE  authority.epochs[e].key \in LiveKeys' \cup Retiring'
    <3>1. CASE authority'.epochs[e].status \in {"ACTIVE", "SUSPENDED"}
      BY <1>11, <3>1 DEF LiveKeys
    <3>2. CASE e = N /\ RetiresKey(r.action)
      BY <1>11, <2>4, <3>2
    <3> QED BY <1>10, <2>5, <3>1, <3>2
  <2>6. LiveKeys \subseteq LiveKeys' \cup Retiring'
    BY <2>5 DEF LiveKeys
  <2>7. GeneratesKey(r.action) => r.key \in LiveKeys'
    <3>1. GeneratesKey(r.action) => N + 1 \in DOMAIN authority'.epochs
      BY <1>10, <1>12
    <3> QED BY <1>10, <3>1 DEF LiveKeys
  <2>8. custody' \subseteq LiveKeys' \cup Retiring'
    BY <1>1, <2>1, <2>6, <2>7 DEF r
  <2> QED BY <1>1, <1>3, <2>3, <2>8 DEF CustodyInv
<1>20. HomeLock' /\ HomeHolder'
  <2>1. PlaceOK(pc[lock], view[lock])'
    BY <1>1, <1>2, <1>3 DEF PlaceOK
  <2> QED BY <1>1, <2>1 DEF HomeInv, HomeLock, HomeHolder
<1> QED BY <1>4, <1>5, <1>15, <1>17, <1>18, <1>19, <1>20 DEF HomeInv, IdentityInv

LEMMA HomeRetireKey ==
  ASSUME HomeInv, NEW p \in Proc, RetireKey(p)
  PROVE  HomeInv' /\ LogStays
<1> DEFINE retired == authority.epochs[transition.retires].key
<1>1. /\ Move(p, "mutating", "retired") /\ Applied /\ lock' = lock /\ view' = view
      /\ custody' = (IF RetiresKey(transition.record.action) THEN custody \ {retired} ELSE custody)
      /\ UNCHANGED evidenceVars /\ crashes' = crashes
      /\ authority' = authority /\ transition' = transition /\ generated' = generated
  BY DEF RetireKey, identityVars
<1>2. "mutating" \in Busy /\ "retired" \in Busy /\ "mutating" \notin Holding /\ "retired" \notin Holding
  BY DEF Busy, Holding
<1>3. HomeLock' /\ lock = p /\ lock' = p /\ lock # None /\ pc'[p] = "retired" /\ PlaceOK("mutating", view[p])
  BY <1>1, <1>2, Moving DEF HomeInv, HomeLock
<1>4. transition # None
  BY <1>2, <1>3 DEF PlaceOK
<1>5. FilesInv' /\ Readable' = Readable
  BY <1>1, EvidenceStays
<1>6. /\ LiveKeys \subseteq custody /\ custody \subseteq LiveKeys \cup Retiring
      /\ transition.retires \in DOMAIN authority.epochs
      /\ RetiresKey(transition.record.action) =>
           authority.epochs[transition.retires].status \in {"RETIRED", "REVOKED"}
  BY <1>1, <1>4 DEF HomeInv, IdentityInv, CustodyInv, TransitionInv
<1>7. RetiresKey(transition.record.action) => retired \notin LiveKeys
  <2> SUFFICES ASSUME RetiresKey(transition.record.action),
                      NEW e \in DOMAIN authority.epochs,
                      authority.epochs[e].status \in {"ACTIVE", "SUSPENDED"},
                      authority.epochs[e].key = retired
               PROVE  FALSE
    BY DEF LiveKeys
  <2>1. KeyLaw(authority)
    BY AuthorityTypes DEF Lawful
  <2>2. e = transition.retires
    BY <1>6, <2>1 DEF KeyLaw
  <2> QED BY <1>6, <2>2
<1>8. Retiring = IF RetiresKey(transition.record.action) THEN {retired} ELSE {}
  BY <1>1 DEF Retiring
<1> HIDE DEF retired
<1>9. custody' = LiveKeys
  BY <1>1, <1>6, <1>7, <1>8
<1>10. Applied' /\ LiveKeys' = LiveKeys /\ Retiring' = Retiring
  BY <1>1 DEF Applied, LiveKeys, Retiring
<1>11. IdentityInv'
  <2>1. AuthorityInv'
    BY <1>1, <1>5 DEF HomeInv, IdentityInv, AuthorityInv
  <2>2. CountInv'
    BY <1>1, <1>10 DEF HomeInv, IdentityInv, CountInv, Running
  <2>3. TransitionInv'
    BY <1>1, <1>5, <1>10 DEF HomeInv, IdentityInv, TransitionInv, Fits
  <2>4. CustodyInv'
    BY <1>9, <1>10 DEF CustodyInv
  <2> QED BY <2>1, <2>2, <2>3, <2>4 DEF IdentityInv
<1>12. HomeHolder'
  <2>1. PlaceOK(pc[lock], view[lock])'
    BY <1>1, <1>2, <1>3, <1>4, <1>9, <1>10 DEF PlaceOK
  <2> QED BY <2>1 DEF HomeHolder
<1> QED BY <1>1, <1>3, <1>5, <1>11, <1>12 DEF HomeInv, LogStays

(* The journal of a mutation goes: nothing of it is left to be done. *)
LEMMA TransitionEnds ==
  ASSUME HomeInv, transition' = None, custody = LiveKeys, Running = 0, lock' = None,
         UNCHANGED <<evidenceVars, crashes, authority, generated, custody>>, HomeLock'
  PROVE  HomeInv' /\ LogStays
<1>1. /\ UNCHANGED evidenceVars /\ crashes' = crashes /\ authority' = authority
      /\ generated' = generated /\ custody' = custody
  OBVIOUS
<1>2. FilesInv' /\ Readable' = Readable
  BY <1>1, EvidenceStays
<1>3. IdentityInv'
  <2>1. AuthorityInv'
    BY <1>1, <1>2 DEF HomeInv, IdentityInv, AuthorityInv
  <2>2. CountInv'
    BY <1>1 DEF HomeInv, IdentityInv, CountInv, Running
  <2>3. TransitionInv'
    BY DEF TransitionInv
  <2>4. CustodyInv'
    BY <1>1 DEF CustodyInv, LiveKeys
  <2> QED BY <2>1, <2>2, <2>3, <2>4 DEF IdentityInv
<1>4. HomeHolder'
  BY DEF HomeHolder
<1> QED BY <1>1, <1>2, <1>3, <1>4 DEF HomeInv, LogStays

LEMMA HomeFinishMutation ==
  ASSUME HomeInv, NEW p \in Proc, FinishMutation(p)
  PROVE  HomeInv' /\ LogStays
<1>1. /\ pc[p] = "retired" /\ transition' = None /\ Leave(p)
      /\ UNCHANGED <<evidenceVars, crashes, authority, generated, custody>>
  BY DEF FinishMutation
<1>2. pc[p] \in Busy
  BY <1>1 DEF Busy
<1>3. lock # None /\ PlaceOK("retired", view[p]) /\ HomeLock' /\ lock' = None
  BY <1>1, <1>2, AtPlace, Leaving DEF HomeInv
<1>4. Applied /\ custody = LiveKeys
  BY <1>3 DEF PlaceOK
<1>5. Running = 0
  BY <1>4 DEF Running
<1> QED BY <1>1, <1>3, <1>4, <1>5, TransitionEnds

LEMMA HomeRollBackMutation ==
  ASSUME HomeInv, NEW p \in Proc, RollBackMutation(p)
  PROVE  HomeInv' /\ LogStays
<1>1. /\ lock = None /\ transition # None /\ ~Applied /\ transition' = None
      /\ lock' = lock /\ pc' = pc /\ view' = view
      /\ UNCHANGED <<evidenceVars, crashes, authority, generated, custody>>
  BY DEF RollBackMutation
<1>2. Running = 0 /\ Retiring = {}
  BY <1>1 DEF Running, Retiring
<1>3. custody = LiveKeys
  BY <1>1, <1>2 DEF HomeInv, IdentityInv, CustodyInv
<1>4. HomeLock' /\ lock' = None
  BY <1>1 DEF HomeInv, HomeLock
<1> QED BY <1>1, <1>2, <1>3, <1>4, TransitionEnds

----------------------------------------------------------------------------
(* The invariant *)

LEMMA HomeInitHolds ==
  ASSUME HomeInit
  PROVE  HomeInv
<1>1. /\ lock = None /\ pc = [p \in Proc |-> "idle"] /\ view = [p \in Proc |-> EmptyView]
      /\ receipts = <<>> /\ receiptTail = None /\ petitions = <<>> /\ petitionTail = None
      /\ journal = None /\ issued = 0 /\ crashes = 0
      /\ authority = Genesis(1) /\ transition = None /\ generated = 1 /\ custody = {1}
  BY DEF HomeInit, Init
<1>2. HomeLock
  BY <1>1, NoneIsNoProc DEF HomeLock, HomePlaces, Busy, Holding
<1>3. HomeHolder
  BY <1>1 DEF HomeHolder
<1>4. FilesInv
  <2>1. QuietInv
    BY <1>1 DEF QuietInv, Complete, Paired
  <2>2. VerifyChain(receipts, Nat)
    BY <1>1 DEF VerifyChain
  <2>3. 0 \in 0 .. MaxReceipts
    BY BoundsAreNumbers
  <2> QED BY <1>1, <2>1, <2>2, <2>3 DEF FilesInv
<1>5. Len(Readable) = 0
  BY <1>1 DEF Readable, Parses, Lines
<1>6. /\ authority.epochs = <<NewEpoch(1, EmptyBoundary)>> /\ Len(authority.records) = 1
      /\ LastRecord(authority).seq = 0
  BY <1>1 DEF Genesis, LastRecord
<1>7. DOMAIN authority.epochs = {1} /\ authority.epochs[1].key = 1 /\ authority.epochs[1].status = "ACTIVE"
  BY <1>6 DEF NewEpoch
<1>8. AuthorityInv
  <2>1. Lawful(authority, 0, NoAnchors)
    BY <1>1, GenesisLawful DEF NoAnchors
  <2>2. Lawful(authority, Len(Readable), NoAnchors)
    BY <1>5, <2>1
  <2>3. LastRecord(authority).seq = Len(authority.records) - 1
    BY <1>6
  <2>4. \A e \in DOMAIN authority.epochs : authority.epochs[e].key \in 1 .. generated
    BY <1>1, <1>7
  <2> QED BY <2>2, <2>3, <2>4 DEF AuthorityInv
<1>9. CountInv
  BY <1>1, <1>6, BoundsAreNumbers DEF CountInv, Running
<1>10. TransitionInv
  BY <1>1 DEF TransitionInv
<1>11. CustodyInv
  <2>1. LiveKeys = {1}
    BY <1>7 DEF LiveKeys
  <2> QED BY <1>1, <2>1 DEF CustodyInv
<1> QED BY <1>2, <1>3, <1>4, <1>8, <1>9, <1>10, <1>11 DEF HomeInv, IdentityInv

(* Every step keeps the invariant; readers see at most one receipt or one   *)
(* record more.                                                             *)
LEMMA HomeEvidenceStep ==
  ASSUME HomeInv, NEW p \in Proc, EvidenceStep(p), UNCHANGED <<generated, custody>>
  PROVE  HomeInv' /\ (LogStays \/ LogGrows)
<1>1. CASE OpenWrite(p)
  BY <1>1, HomeOpenWrite
<1>2. ASSUME NEW request \in Requests, BeginPending(p, request)
      PROVE  HomeInv' /\ LogStays
  BY <1>2, HomeBeginPending
<1>3. CASE Holder(p)
  <2>1. CASE AppendReceipt(p)
    BY <2>1, HomeAppendReceipt
  <2>2. CASE AppendPetition(p)
    BY <2>2, HomeAppendPetition
  <2>3. CASE ClearPending(p)
    BY <2>3, HomeClearPending
  <2>4. CASE Close(p)
    BY <2>4, HomeClose
  <2>5. CASE ReplaceReceipts(p)
    BY <2>5, HomeReplaceReceipts
  <2>6. CASE ReplacePetitions(p)
    BY <2>6, HomeReplacePetitions
  <2>7. CASE FinishRecovery(p)
    BY <2>7, HomeFinishRecovery
  <2> QED BY <1>3, <2>1, <2>2, <2>3, <2>4, <2>5, <2>6, <2>7 DEF Holder
<1>4. ASSUME NEW whole \in BOOLEAN, TearReceipt(p, whole) \/ TearPetition(p, whole)
      PROVE  HomeInv' /\ (LogStays \/ LogGrows)
  BY <1>4, HomeTearReceipt, HomeTearPetition
<1>5. CASE Crash(p)
  BY <1>5, HomeLeave DEF Crash, identityVars, IdentityFrame
<1>6. CASE Inspect(p)
  <2> DEFINE at == IF journal = None THEN "wantCheck" ELSE "wantRecover"
  <2>1. at \in {"idle"} \cup Waiting
    BY DEF Waiting
  <2>2. /\ pc[p] \in {"idle"} \cup Waiting /\ pc' = [pc EXCEPT ![p] = at]
        /\ UNCHANGED <<lock, view, disk, issued, crashes, identityVars, generated, custody>>
    BY <1>6 DEF Inspect
  <2> HIDE DEF at
  <2> QED BY <2>1, <2>2, HomeWait
<1>7. CASE GiveUp(p)
  BY <1>7, HomeWait DEF GiveUp
<1>8. CASE PlanRecovery(p)
  <2>1. journal # None /\ SigningAvailable /\ lock = None /\ (StartRecovery(p) \/ RefuseRecovery(p))
    BY <1>8 DEF PlanRecovery
  <2>2. CASE StartRecovery(p)
    BY <2>1, <2>2, HomeStartRecovery
  <2>3. CASE RefuseRecovery(p)
    BY <2>1, <2>3, HomeLeave DEF RefuseRecovery, identityVars, IdentityFrame
  <2> QED BY <2>1, <2>2, <2>3
<1>9. CASE CheckOnly(p)
  BY <1>9, HomeLeave DEF CheckOnly, identityVars, IdentityFrame
<1>10. CASE Export(p)
  <2>1. /\ pc[p] = "idle" /\ lock' = lock /\ pc' = pc /\ view' = view
        /\ UNCHANGED <<lock, view, disk, issued, crashes, identityVars, generated, custody>>
    BY <1>10 DEF Export
  <2>2. pc' = [pc EXCEPT ![p] = "idle"]
    BY <2>1 DEF HomeInv, HomeLock
  <2> QED BY <2>1, <2>2, HomeWait
<1> QED BY <1>1, <1>2, <1>3, <1>4, <1>5, <1>6, <1>7, <1>8, <1>9, <1>10 DEF EvidenceStep

LEMMA HomeStep ==
  ASSUME HomeInv, [HomeNext]_homeVars
  PROVE  /\ HomeInv'
         /\ \/ LogStays
            \/ LogGrows
            \/ \E p \in Proc : PublishLifecycle(p)
<1>1. CASE UNCHANGED homeVars
  <2>1. /\ lock' = lock /\ pc' = pc /\ view' = view /\ disk' = disk /\ issued' = issued
        /\ crashes' = crashes /\ IdentityFrame
    BY <1>1 DEF homeVars, vars, identityVars, IdentityFrame
  <2>2. HomeLock'
    BY <2>1 DEF HomeInv, HomeLock
  <2>3. HomeHolder'
    BY <2>1, HolderStays DEF HomeInv, IdentityFrame
  <2>4. crashes' \in 0 .. MaxCrashes
    BY <2>1, CrashCount
  <2> QED BY <2>1, <2>2, <2>3, <2>4, QuietStep
<1>2. ASSUME NEW p \in Proc, EvidenceStep(p), UNCHANGED <<generated, custody>>
      PROVE  HomeInv' /\ (LogStays \/ LogGrows)
  BY <1>2, HomeEvidenceStep
<1>3. ASSUME NEW p \in Proc, NEW action \in Actions, BeginMutation(p, action)
      PROVE  HomeInv' /\ LogStays
  BY <1>3, HomeBeginMutation
<1>4. ASSUME NEW p \in Proc, MutationStep(p)
      PROVE  HomeInv' /\ (LogStays \/ PublishLifecycle(p))
  BY <1>4, HomeStageKey, HomePublishLifecycle, HomeRetireKey, HomeFinishMutation DEF MutationStep
<1>5. ASSUME NEW p \in Proc, ResumeMutation(p) \/ RollBackMutation(p)
      PROVE  HomeInv' /\ LogStays
  BY <1>5, HomeResumeMutation, HomeRollBackMutation
<1> QED BY <1>1, <1>2, <1>3, <1>4, <1>5 DEF HomeNext

THEOREM HomeInvariance == HomeSpec => []HomeInv
<1>1. HomeInit => HomeInv
  BY HomeInitHolds
<1>2. HomeInv /\ [HomeNext]_homeVars => HomeInv'
  BY HomeStep
<1> QED BY <1>1, <1>2, PTL DEF HomeSpec

(* Every variable of the home keeps its type; no key is in custody that was *)
(* never generated, and a pending mutation names an epoch that is there.    *)
THEOREM HomeTypeCorrect == HomeSpec => []HomeTypeOK
<1>1. HomeInv => HomeTypeOK
  <2> SUFFICES ASSUME HomeInv PROVE HomeTypeOK
    OBVIOUS
  <2>1. pc \in [Proc -> {"idle", "mutating", "retired"} \cup Waiting \cup Holding]
    <3>1. HomePlaces = {"idle", "mutating", "retired"} \cup Waiting \cup Holding
      BY DEF HomePlaces, Busy
    <3> QED BY <3>1 DEF HomeInv, HomeLock
  <2>2. generated \in Nat /\ LiveKeys \subseteq 1 .. generated
    BY AuthorityTypes DEF HomeInv, IdentityInv, CountInv, LiveKeys
  <2>3. transition # None => transition \in Transitions /\ Retiring \subseteq 1 .. generated
          /\ transition.retires \in DOMAIN authority.epochs
    BY TransitionTypes, AuthorityTypes DEF Retiring
  <2>4. custody \subseteq 1 .. generated
    BY <2>2, <2>3 DEF HomeInv, IdentityInv, CustodyInv
  <2> QED BY <2>1, <2>2, <2>3, <2>4 DEF HomeTypeOK
<1> QED BY <1>1, HomeInvariance, PTL

(* Between mutations the private keys on disk are exactly those of active   *)
(* and suspended epochs; at every moment the active key can be loaded.      *)
THEOREM CustodyAlwaysFollows == HomeSpec => []CustodyFollowsLifecycle
<1>1. HomeInv => CustodyFollowsLifecycle
  <2> SUFFICES ASSUME HomeInv PROVE CustodyFollowsLifecycle
    OBVIOUS
  <2>1. transition = None => custody = LiveKeys
    BY DEF HomeInv, IdentityInv, CustodyInv
  <2>2. ASSUME authority.active # 0
        PROVE  ActiveKey(authority) \in custody
    <3>1. authority.active \in DOMAIN authority.epochs
      BY <2>2, AuthorityTypes DEF AuthorityType
    <3>2. authority.epochs[authority.active].status = "ACTIVE"
      BY <3>1, AuthorityTypes DEF Lawful, StatusLaw
    <3>3. ActiveKey(authority) \in LiveKeys
      BY <2>2, <3>1, <3>2 DEF ActiveKey, LiveKeys
    <3> QED BY <3>3 DEF HomeInv, IdentityInv, CustodyInv
  <2> QED BY <2>1, <2>2 DEF CustodyFollowsLifecycle, LiveKeys
<1> QED BY <1>1, HomeInvariance, PTL

(* Whatever mutations came in between, `ueg recover` completes a pair that  *)
(* the active key signed, like every receipt before it.                     *)
THEOREM OwnPairsAreRecoverable == HomeSpec => []OwnPairIsRecoverable
<1>1. HomeInv => OwnPairIsRecoverable
  <2> SUFFICES ASSUME HomeInv, journal # None, SigningAvailable,
                      journal.receipt.key = ActiveKey(authority),
                      \A i \in DOMAIN receipts : receipts[i].key = ActiveKey(authority)
               PROVE  RecoveryPlanHolds
    BY DEF OwnPairIsRecoverable
  <2>1. PendingOver(Nat)
    BY PendingOverNat DEF HomeInv
  <2>2. VerifyChain(receipts, {ActiveKey(authority)})
    BY <2>1 DEF PendingOver, VerifyChain
  <2>3. PendingOver({ActiveKey(authority)})
    BY <2>1, <2>2 DEF PendingOver
  <2> QED BY <2>3, PlanPasses
<1> QED BY <1>1, HomeInvariance, PTL

----------------------------------------------------------------------------
(* Receipts and lifecycle implement the abstract authority *)

(* The abstract authority computes with the same algebra. *)
LEMMA SameAlgebra ==
  ASSUME NEW a, NEW r, NEW action, NEW key, NEW held, NEW b, NEW rs
  PROVE  /\ Authority!Latest(a) = Latest(a)
         /\ Authority!ActiveKey(a) = ActiveKey(a)
         /\ Authority!HeadBoundary(rs) = HeadBoundary(rs)
         /\ Authority!NewRecord(a, action, key, b, None) = NewRecord(a, action, key, b, None)
         /\ Authority!MayPropose(a, action, held) <=> MayPropose(a, action, held)
         /\ Authority!Accepts(a, r) <=> Accepts(a, r)
         /\ Authority!Apply(a, r) = Apply(a, r)
         /\ Authority!Genesis(key) = Genesis(key)
<1>1. Authority!Latest(a) = Latest(a) /\ Authority!ActiveKey(a) = ActiveKey(a)
  BY DEF Latest, LatestEpoch, ActiveKey, Authority!Latest, Authority!LatestEpoch, Authority!ActiveKey
<1>2. Authority!HeadBoundary(rs) = HeadBoundary(rs)
  BY DEF Authority!HeadBoundary, Authority!EmptyBoundary, Authority!Boundary,
         HeadBoundary, EmptyBoundary, Boundary
<1>3. Authority!NewRecord(a, action, key, b, None) = NewRecord(a, action, key, b, None)
  BY <1>1 DEF NewRecord, LatestEpoch, GeneratesKey,
              Authority!NewRecord, Authority!LatestEpoch, Authority!GeneratesKey
<1>4. Authority!MayPropose(a, action, held) <=> MayPropose(a, action, held)
  BY <1>1 DEF MayPropose, Authority!MayPropose
<1>5. Authority!Accepts(a, r) <=> Accepts(a, r)
  BY <1>1 DEF Accepts, NotBefore, LastRecord, LatestEpoch, GeneratesKey, TrustedKeys,
              Authority!Accepts, Authority!NotBefore, Authority!LastRecord, Authority!LatestEpoch,
              Authority!GeneratesKey, Authority!TrustedKeys
<1>6. \A epoch, status, boundary, anchor :
        Authority!CloseEpoch(epoch, status, boundary, anchor) =
          CloseEpoch(epoch, status, boundary, anchor)
  BY DEF CloseEpoch, Authority!CloseEpoch
<1>7. Authority!NewEpoch(r.key, r.boundary) = NewEpoch(r.key, r.boundary)
  BY DEF NewEpoch, OpenWindow, Authority!NewEpoch, Authority!OpenWindow
<1>8. Authority!EpochsAfter(a, r) = EpochsAfter(a, r)
  BY <1>6, <1>7 DEF EpochsAfter, LatestEpoch, GeneratesKey, OpenWindow, ClosedStatus,
              Authority!EpochsAfter, Authority!LatestEpoch, Authority!GeneratesKey,
              Authority!OpenWindow, Authority!ClosedStatus
<1>9. Authority!Apply(a, r) = Apply(a, r)
  BY <1>8 DEF Apply, Authority!Apply
<1>10. Authority!Genesis(key) = Genesis(key)
  BY DEF Genesis, NewEpoch, OpenWindow, EmptyBoundary, Boundary,
         Authority!Genesis, Authority!NewEpoch, Authority!OpenWindow,
         Authority!EmptyBoundary, Authority!Boundary
<1> QED BY <1>1, <1>2, <1>3, <1>4, <1>5, <1>9, <1>10

(* A receipt reaches the readers: the abstract authority signs it. *)
LEMMA GrowingSigns ==
  ASSUME HomeInv, LogGrows
  PROVE  Authority!Next
<1> DEFINE r == journal.receipt
<1>1. /\ authority' = authority /\ authority.active # 0 /\ journal # None
      /\ r.key = ActiveKey(authority) /\ NotWritten(receipts, petitions, journal)
      /\ Readable = receipts /\ Readable' = Append(receipts, r)
  BY DEF LogGrows
<1>2. r \in Receipt /\ r.id \in 1 .. issued /\ Len(receipts) < issued /\ issued \in 0 .. MaxReceipts
      /\ Len(receipts) \in Nat
  BY <1>1, PairTypes DEF HomeInv, FilesInv
<1>3. r.id \in 1 .. MaxReceipts /\ Len(receipts) < MaxReceipts /\ r.request \in Requests
  BY <1>2, BoundsAreNumbers DEF Receipt
<1>4. /\ r.seq = HeadBoundary(receipts).seq + 1 /\ r.prev = HeadBoundary(receipts).id
      /\ \A i \in DOMAIN receipts : receipts[i].id # r.id
  <2>1. DOMAIN receipts = 1 .. Len(receipts)
    BY DEF HomeInv, FilesInv
  <2> QED BY <1>1, <2>1 DEF NotWritten, Continues
<1>5. r = [seq |-> r.seq, prev |-> r.prev, id |-> r.id, key |-> r.key, request |-> r.request]
  BY <1>2 DEF Receipt
<1> HIDE DEF r
<1>6. Authority!SignedBy(ActiveKey(authority), r.id, r.request) = r
  <2>1. Authority!HeadBoundary(Readable) = HeadBoundary(receipts)
    BY <1>1, SameAlgebra
  <2> QED BY <1>1, <1>4, <1>5, <2>1 DEF Authority!SignedBy
<1>7. Authority!Sign(r.id, r.request)
  <2>1. Authority!ActiveKey(authority) = ActiveKey(authority)
    BY SameAlgebra
  <2>2. Authority!Unused(r.id)
    BY <1>1, <1>4 DEF Authority!Unused
  <2> QED BY <1>1, <1>3, <1>6, <2>1, <2>2 DEF Authority!Sign
<1> QED BY <1>3, <1>7 DEF Authority!Next

(* The lifecycle file is replaced: the abstract authority mutates, at the   *)
(* head of the log that is there at that moment.                            *)
LEMMA PublishingMutates ==
  ASSUME HomeInv, NEW p \in Proc, PublishLifecycle(p), Readable' = Readable, Fits
  PROVE  Authority!Next
<1> DEFINE r == transition.record
           held == {Latest(authority).key}
<1>1. pc[p] = "mutating" /\ ~Applied /\ authority' = Apply(authority, r)
  BY DEF PublishLifecycle
<1>2. transition # None
  <2>1. pc[p] \in Busy /\ "mutating" \notin Holding
    BY <1>1 DEF Busy, Holding
  <2> QED BY <1>1, <2>1, AtPlace DEF PlaceOK
<1>3. r \in LifecycleRecords(NoAnchors) /\ r.action \in Actions
  BY <1>2, TransitionTypes
<1>4. /\ r = NewRecord(authority, r.action, r.key, HeadBoundary(Readable), None)
      /\ r.key \in 1 .. generated /\ Len(authority.records) < MaxRecords
      /\ MayPropose(authority, r.action, held) /\ Accepts(authority, r)
  BY DEF Fits
<1> HIDE DEF r
<1>5. r.key \in 1 .. MaxRecords + MaxCrashes
  <2>1. /\ generated <= Len(authority.records) + crashes + Running /\ generated \in Nat
        /\ crashes \in 0 .. MaxCrashes /\ Running \in {0, 1}
    BY DEF HomeInv, IdentityInv, CountInv, Running
  <2> QED BY <1>4, <2>1, AuthorityTypes, BoundsAreNumbers, MaxRecordsIsNatural
<1>6. Authority!Mutate(r.action, r.key, held)
  <2>1. Authority!MutationBoundary = HeadBoundary(Readable)
    BY SameAlgebra DEF Authority!MutationBoundary
  <2>2. Authority!NewRecord(authority, r.action, r.key, Authority!MutationBoundary, None) = r
    <3>1. Authority!NewRecord(authority, r.action, r.key, HeadBoundary(Readable), None) =
            NewRecord(authority, r.action, r.key, HeadBoundary(Readable), None)
      BY SameAlgebra
    <3> QED BY <1>4, <2>1, <3>1
  <2>3. /\ Authority!MayPropose(authority, r.action, held)
        /\ Authority!Accepts(authority, r) /\ authority' = Authority!Apply(authority, r)
    BY <1>1, <1>4, SameAlgebra DEF r
  <2> QED BY <1>4, <2>2, <2>3 DEF Authority!Mutate
<1>7. held \in SUBSET {Authority!Latest(authority).key} /\ r.action \in Authority!Actions
  BY <1>3, SameAlgebra DEF Actions, Authority!Actions
<1> QED BY <1>5, <1>6, <1>7 DEF Authority!Next

(* Whatever is interleaved or interrupted, receipts and lifecycle change    *)
(* like the abstract authority: one receipt by the active key, or one       *)
(* record bound to the exact head, at a time.                               *)
THEOREM HomeImplementsAuthority == HomeSpec => ImplementsAuthority
<1>1. HomeInit => Authority!Init
  <2> SUFFICES ASSUME HomeInit PROVE Readable = <<>> /\ authority = Genesis(1)
    BY SameAlgebra DEF Authority!Init
  <2> QED BY DEF HomeInit, Init, Readable, Parses, Lines
<1>2. HomeInv /\ [HomeNext]_homeVars => [Authority!Next]_(Authority!vars)
  <2> SUFFICES ASSUME HomeInv, [HomeNext]_homeVars
               PROVE  Authority!Next \/ LogStays
    BY DEF Authority!vars, LogStays
  <2>1. CASE LogGrows
    BY <2>1, GrowingSigns
  <2>2. ASSUME NEW p \in Proc, PublishLifecycle(p)
        PROVE  Authority!Next
    BY <2>2, HomePublishLifecycle, PublishingMutates
  <2> QED BY <2>1, <2>2, HomeStep
<1> QED BY <1>1, <1>2, HomeInvariance, PTL DEF HomeSpec, ImplementsAuthority, Authority!Spec

----------------------------------------------------------------------------
(* The evidence under a lifecycle that moves *)

(* At every instant - in the middle of a mutation, after a kill, over a     *)
(* torn tail - the receipts a reader parses pass B+ verification against    *)
(* the lifecycle that is there (OpenReadOnly, VerifyBPlus).                 *)
THEOREM ReadableAlwaysVerifies == HomeSpec => []VerifyBPlus(Readable, authority)
<1>1. HomeInit => VerifyBPlus(Readable, authority)
  <2> SUFFICES ASSUME HomeInit PROVE VerifyBPlus(Readable, authority)
    OBVIOUS
  <2>1. DOMAIN Readable = {}
    BY DEF HomeInit, Init, Readable, Parses, Lines
  <2>2. \A i \in DOMAIN authority.records : authority.records[i].boundary = EmptyBoundary
    BY DEF HomeInit, Init, Genesis
  <2> QED BY <2>1, <2>2 DEF VerifyBPlus, VerifyChain, BoundariesExact, InsideWindows
<1>2. HomeInv /\ VerifyBPlus(Readable, authority) /\ [HomeNext]_homeVars
        => VerifyBPlus(Readable, authority)'
  <2> SUFFICES ASSUME HomeInv, VerifyBPlus(Readable, authority), [HomeNext]_homeVars
               PROVE  VerifyBPlus(Readable', authority')
    OBVIOUS
  <2>1. Readable \in Seq(Receipt) /\ Lawful(authority, Len(Readable), NoAnchors)
    BY AuthorityTypes, ReadableShape DEF HomeInv
  <2>2. CASE LogStays
    BY <2>2 DEF LogStays
  <2>3. CASE LogGrows
    <3>1. /\ journal.receipt \in Receipt /\ authority.active # 0
          /\ journal.receipt.key = ActiveKey(authority)
          /\ Readable = receipts /\ Readable' = Append(receipts, journal.receipt)
          /\ authority' = authority
      BY <2>3, PairTypes DEF LogGrows, HomeInv
    <3>2. /\ journal.receipt.seq = HeadBoundary(receipts).seq + 1
          /\ journal.receipt.prev = HeadBoundary(receipts).id
          /\ \A i \in DOMAIN receipts : receipts[i].id # journal.receipt.id
      <4>1. DOMAIN receipts = 1 .. Len(receipts)
        BY DEF HomeInv, FilesInv
      <4> QED BY <2>3, <4>1 DEF LogGrows, NotWritten, Continues
    <3> QED BY <2>1, <3>1, <3>2, EvidenceGrows
  <2>4. ASSUME NEW p \in Proc, PublishLifecycle(p)
        PROVE  VerifyBPlus(Readable', authority')
    <3>1. Readable' = Readable /\ Fits
      BY <2>4, HomePublishLifecycle
    <3>2. authority' = Apply(authority, transition.record) /\ transition # None
      <4>1. pc[p] = "mutating" /\ authority' = Apply(authority, transition.record)
        BY <2>4 DEF PublishLifecycle
      <4>2. pc[p] \in Busy /\ "mutating" \notin Holding
        BY <4>1 DEF Busy, Holding
      <4> QED BY <4>1, <4>2, AtPlace DEF PlaceOK
    <3>3. transition.record \in LifecycleRecords(NoAnchors) /\ transition.record.action \in Actions
      BY <3>2, TransitionTypes
    <3>4. Accepts(authority, transition.record) /\ transition.record.boundary = HeadBoundary(Readable)
      BY <3>1 DEF Fits, NewRecord
    <3> QED BY <2>1, <3>1, <3>2, <3>3, <3>4, EvidenceSurvives
  <2> QED BY <2>2, <2>3, <2>4, HomeStep
<1> QED BY <1>1, <1>2, HomeInvariance, PTL DEF HomeSpec

(* An invocation knows of the receipt files what it knew when no mutation   *)
(* was possible.                                                            *)
LEMMA HolderKnows ==
  ASSUME HomeInv, NEW p \in Proc
  PROVE  HolderInv(p) /\ QuietInv /\ (pc[p] = "petitionsReplaced" => transition = None)
<1>1. QuietInv
  BY DEF HomeInv, FilesInv
<1>2. CASE pc[p] \in Busy
  <2>1. PlaceOK(pc[p], view[p])
    BY <1>2, AtPlace
  <2> QED BY <1>1, <2>1 DEF PlaceOK, HolderInv, Holding
<1>3. CASE pc[p] \notin Busy
  BY <1>1, <1>3 DEF Busy, Holding, HolderInv
<1> QED BY <1>2, <1>3

LEMMA HomeEvidence ==
  ASSUME [HomeNext]_homeVars
  PROVE  \/ \E p \in Proc : StepOf(p)
         \/ UNCHANGED <<receipts, exported, report>>
<1>1. ASSUME UNCHANGED evidenceVars
      PROVE  UNCHANGED <<receipts, exported, report>>
  BY <1>1 DEF evidenceVars, disk
<1>2. ASSUME NEW p \in Proc,
             \/ \E action \in Actions : BeginMutation(p, action)
             \/ MutationStep(p) \/ ResumeMutation(p) \/ RollBackMutation(p)
      PROVE  UNCHANGED evidenceVars
  BY <1>2 DEF BeginMutation, MutationStep, StageKey, PublishLifecycle, RetireKey, FinishMutation,
              ResumeMutation, RollBackMutation
<1>3. ASSUME NEW p \in Proc, EvidenceStep(p)
      PROVE  StepOf(p)
  BY <1>3 DEF EvidenceStep, StepOf
<1>4. ASSUME UNCHANGED homeVars
      PROVE  UNCHANGED evidenceVars
  BY <1>4 DEF homeVars, vars, evidenceVars
<1> QED BY <1>1, <1>2, <1>3, <1>4 DEF HomeNext

(* A home without a pair in its journal is complete, and whoever writes     *)
(* sees the files as they are, also between mutations.                      *)
THEOREM QuietHomesStayComplete == HomeSpec => [](QuietHomeIsComplete /\ WriterSeesDisk)
<1>1. HomeInv => QuietHomeIsComplete /\ WriterSeesDisk
  <2> SUFFICES ASSUME HomeInv PROVE QuietHomeIsComplete /\ WriterSeesDisk
    OBVIOUS
  <2>1. QuietHomeIsComplete
    <3> SUFFICES ASSUME journal = None
                 PROVE  NoTails /\ VerifyPetitions(receipts, petitions)
      BY DEF QuietHomeIsComplete, NoTails
    <3>1. /\ NoTails /\ Complete(receipts, petitions) /\ VerifyChain(receipts, Nat)
          /\ receipts \in Seq(Receipt) /\ petitions \in Seq(Petition)
      BY DEF HomeInv, FilesInv, QuietInv, NoTails
    <3> QED BY <3>1, CompleteBinds
  <2>2. ASSUME NEW p \in Proc, pc[p] = "writing"
        PROVE  view[p] = Loaded
    <3>1. journal = None /\ view[p] = OnDisk
      BY <2>2, HolderKnows DEF HolderInv
    <3>2. Loaded = OnDisk
      BY <3>1, HolderKnows, <2>2 DEF QuietInv, Loaded, OnDisk, Lines
    <3> QED BY <3>1, <3>2
  <2> QED BY <2>1, <2>2 DEF WriterSeesDisk
<1> QED BY <1>1, HomeInvariance, PTL

(* What `ueg export` wrote stays a prefix of receipts.ndjson through every  *)
(* mutation, kill and recovery that follows.                                *)
THEOREM BundlesAlwaysStand == HomeSpec => []ExportStands
<1> DEFINE Stands == exported \in Seq(Receipt) /\ ExportStands
<1>1. HomeInit => Stands
  BY DEF HomeInit, Init, ExportStands
<1>2. HomeInv /\ Stands /\ [HomeNext]_homeVars => Stands'
  <2> SUFFICES ASSUME HomeInv, Stands, [HomeNext]_homeVars PROVE Stands'
    OBVIOUS
  <2>1. receipts \in Seq(Receipt) /\ (journal # None => journal.receipt \in Receipt)
    BY PairTypes DEF HomeInv, FilesInv
  <2>2. ASSUME NEW p \in Proc, StepOf(p)
        PROVE  Stands'
    <3>1. HolderInv(p) /\ QuietInv
      BY HolderKnows
    <3>2. \/ receipts' = receipts
          \/ journal.receipt \in Receipt /\ receipts' = Append(receipts, journal.receipt)
      BY <2>1, <2>2, <3>1, ReceiptsGrow
    <3>3. exported' = exported \/ (exported' = receipts /\ receipts' = receipts)
      BY <2>2, <3>1, ExportedIsTheChain
    <3>4. ExportStands'
      BY <2>1, <3>2, <3>3, BundleStands
    <3> QED BY <2>1, <3>3, <3>4
  <2>3. CASE UNCHANGED <<receipts, exported, report>>
    BY <2>3 DEF ExportStands
  <2> QED BY <2>2, <2>3, HomeEvidence
<1> QED BY <1>1, <1>2, HomeInvariance, PTL DEF HomeSpec

(* `ueg recover` reports success only of a home with neither a pair nor a   *)
(* mutation pending, although it looked before it locked the home.          *)
THEOREM RecoverStaysHonest == HomeSpec => RecoverIsHonest
<1>1. HomeInv /\ [HomeNext]_homeVars =>
        [report' = "ok" /\ report # "ok" =>
           journal' = None /\ transition = None /\ VerifyPetitions(receipts', petitions')]_vars
  <2> SUFFICES ASSUME HomeInv, [HomeNext]_homeVars, report' = "ok", report # "ok"
               PROVE  journal' = None /\ transition = None /\ VerifyPetitions(receipts', petitions')
    OBVIOUS
  <2>1. PICK p \in Proc : StepOf(p)
    BY HomeEvidence
  <2>2. HolderInv(p) /\ QuietInv /\ (pc[p] = "petitionsReplaced" => transition = None)
    BY HolderKnows
  <2> QED BY <2>1, <2>2, HonestStep
<1> QED BY <1>1, HomeInvariance, PTL DEF HomeSpec, RecoverIsHonest

=============================================================================
