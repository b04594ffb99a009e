---------------------- MODULE LifecycleTransactionProofs ----------------------
(***************************************************************************)
(* A lifecycle mutation, file by file, for any number of mutations, keys   *)
(* and interruptions: no live epoch is ever without its key pair, a home   *)
(* without a journal keeps no secret it should not have, and what changes  *)
(* the lifecycle is a step of the abstract signing authority.              *)
(***************************************************************************)
EXTENDS LifecycleTransaction, LifecycleProofs

Places == {"idle", "signed", "journaled", "directoryMade", "privateStaged", "recovering",
           "rolledBack", "privatePublished", "publicPublished", "published", "applied",
           "retired", "failed", "journalDropped"}

Pending == tx \notin {None, Torn}
NewKeyOf(t) == GeneratesKey(t.record.action)

(* A transaction the lifecycle is still to take, as it was signed ... *)
Fits(t) ==
  /\ t.record = NewRecord(authority, t.record.action, t.record.key, EmptyBoundary, None)
  /\ t.record.key \in 1 .. generated
  /\ Len(authority.records) < MaxRecords
  /\ MayPropose(authority, t.record.action, {Latest(authority).key})
  /\ Accepts(authority, t.record)
  /\ t.retires = Len(authority.epochs)

(* ... or has taken. *)
Done(t) ==
  /\ LastRecord(authority) = t.record
  /\ NewKeyOf(t) =>
       /\ t.record.epoch = Len(authority.epochs)
       /\ t.retires # t.record.epoch
       /\ dir[t.record.epoch] = PublishedPair(t.record.key)
  /\ RetiresKey(t.record.action) =>
       /\ t.retires \in DOMAIN authority.epochs
       /\ ~Live(t.retires)

HistoryInv ==
  /\ Lawful(authority, 0, NoAnchors)
  /\ LastRecord(authority).seq = Len(authority.records) - 1
  /\ Len(authority.epochs) <= Len(authority.records)
  /\ Len(authority.records) <= MaxRecords
  /\ \A e \in DOMAIN authority.epochs : authority.epochs[e].key \in 1 .. generated

NoPending(directory) == directory.pendingPrivate = None /\ directory.pendingPublic = None

NoSecret(e) == dir[e] # Absent => NoPending(dir[e]) /\ dir[e].private = None

Clean(e) ==
  dir[e] # Absent =>
    /\ NoPending(dir[e])
    /\ dir[e].private # None => e \in DOMAIN authority.epochs /\ Live(e)

(* Every epoch of the lifecycle has its directory, a live one its pair.     *)
KeysInv ==
  \A e \in DOMAIN authority.epochs :
    /\ dir[e] # Absent
    /\ Live(e) => LoadsPair(dir[e], authority.epochs[e].key)

(* What is not clean yet is the business of the journal: the directory of   *)
(* an epoch to come, the private key of an epoch just closed.               *)
CleanInv ==
  \A e \in Epochs :
    \/ Clean(e)
    \/ /\ Pending /\ Fits(tx) /\ NewKeyOf(tx) /\ e = tx.record.epoch
    \/ /\ Pending /\ Done(tx) /\ RetiresKey(tx.record.action) /\ e = tx.retires
       /\ NoPending(dir[e])

TxInv == Pending => Fits(tx) \/ Done(tx)

PlaceInv ==
  /\ pc \in Places
  /\ pc \in {"signed", "journalDropped"} => tx = None /\ proposal # None /\ Fits(proposal)
  /\ pc = "journalDropped" => NewKeyOf(proposal)
  /\ pc \in {"journaled", "directoryMade", "privateStaged", "failed"} =>
       Pending /\ tx = proposal /\ Fits(tx) /\ NewKeyOf(tx)
  /\ pc \in {"journaled", "failed"} => NoSecret(tx.record.epoch)
  /\ pc = "directoryMade" => dir[tx.record.epoch] = EmptyDirectory
  /\ pc = "privateStaged" => dir[tx.record.epoch] # Absent
  /\ pc \in {"recovering", "rolledBack", "privatePublished", "publicPublished",
             "published", "applied", "retired"} => Pending
  /\ pc = "rolledBack" => Fits(tx) /\ NewKeyOf(tx) /\ dir[tx.record.epoch] = Absent
  /\ pc \in {"privatePublished", "publicPublished"} => NewKeyOf(tx) /\ dir[tx.record.epoch] # Absent
  /\ pc = "published" /\ NewKeyOf(tx) => dir[tx.record.epoch] = PublishedPair(tx.record.key)
  /\ pc \in {"applied", "retired"} => Done(tx)
  /\ pc = "retired" /\ RetiresKey(tx.record.action) => dir[tx.retires].private = None

IInv == TypeOK /\ HistoryInv /\ TxInv /\ PlaceInv /\ KeysInv /\ CleanInv

----------------------------------------------------------------------------
(* What the sets and the operators give *)

LEMMA DirectoryShapes ==
  /\ EmptyDirectory \in Directories
  /\ \A key \in 1 .. MaxKeys : PublishedPair(key) \in Directories
  /\ \A d \in Directories : d # Absent
  /\ \A d \in Directories : PrivatePublished(d) \in Directories /\ PublicPublished(d) \in Directories
  /\ \A d \in Directories, c \in Contents :
       /\ [d EXCEPT !.pendingPrivate = c] \in Directories
       /\ [d EXCEPT !.pendingPublic = c] \in Directories
       /\ [d EXCEPT !.private = c] \in Directories
<1>1. None \in Contents /\ 1 .. MaxKeys \subseteq Contents
  BY DEF Contents
<1>2. EmptyDirectory \in Directories
  BY <1>1 DEF EmptyDirectory, Directories
<1>3. \A key \in 1 .. MaxKeys : PublishedPair(key) \in Directories
  BY <1>1 DEF EmptyDirectory, PublishedPair, Directories
<1>4. \A d \in Directories : d # Absent
  BY MarksAreNoData DEF Absent
<1>5. \A d \in Directories : PrivatePublished(d) \in Directories /\ PublicPublished(d) \in Directories
  BY <1>1 DEF PrivatePublished, PublicPublished, Directories
<1>6. \A d \in Directories, c \in Contents :
        /\ [d EXCEPT !.pendingPrivate = c] \in Directories
        /\ [d EXCEPT !.pendingPublic = c] \in Directories
        /\ [d EXCEPT !.private = c] \in Directories
  BY DEF Directories
<1> QED BY <1>2, <1>3, <1>4, <1>5, <1>6

LEMMA PairShape ==
  ASSUME NEW key
  PROVE  /\ PublishedPair(key).private = key /\ PublishedPair(key).public = key
         /\ NoPending(PublishedPair(key))
         /\ NoPending(EmptyDirectory) /\ EmptyDirectory.private = None
BY DEF PublishedPair, EmptyDirectory, NoPending

LEMMA TransactionShape ==
  ASSUME NEW t \in Transactions
  PROVE  /\ t.record \in LifecycleRecords(NoAnchors)
         /\ t.record.action \in Actions
         /\ t.record.boundary = EmptyBoundary /\ t.record.boundary.seq = 0 - 1
         /\ t.record.anchor = None
         /\ t.record.key \in 1 .. MaxKeys
         /\ t.record.epoch \in Epochs
         /\ t.retires \in Epochs
         /\ t # None /\ t # Torn
<1>1. t # None /\ t # Torn
  BY MarksAreNoData
<1>2. EmptyBoundary \in [seq : Int, id : Nat \cup {None}] /\ EmptyBoundary.seq = 0 - 1
  BY DEF EmptyBoundary, Boundary
<1>3. 1 .. MaxKeys \subseteq Nat /\ Epochs \subseteq Nat
  BY NaturalBounds DEF Epochs
<1> HIDE DEF EmptyBoundary, Epochs
<1> QED BY <1>1, <1>2, <1>3 DEF Transactions, LifecycleRecords, NoAnchors

(* A transaction that fits comes next: it is not applied yet, and the epoch *)
(* it creates is none of the lifecycle's.                                   *)
LEMMA FittingTransaction ==
  ASSUME HistoryInv, NEW t \in Transactions, Fits(t)
  PROVE  /\ Accepts(authority, t.record)
         /\ LastRecord(authority) # t.record
         /\ ~Done(t)
         /\ NewKeyOf(t) => /\ t.record.epoch = Len(authority.epochs) + 1
                           /\ t.record.epoch \notin DOMAIN authority.epochs
         /\ t.retires = Len(authority.epochs) /\ t.retires \in DOMAIN authority.epochs
<1>1. /\ authority.epochs \in Seq(EpochRecords(NoAnchors)) /\ authority.epochs # <<>>
      /\ authority.records \in Seq(LifecycleRecords(NoAnchors))
  BY DEF HistoryInv, Lawful, AuthorityType
<1>2. t.record.seq = Len(authority.records)
  BY DEF Fits, NewRecord
<1>3. LastRecord(authority) # t.record
  BY <1>1, <1>2 DEF HistoryInv
<1>4. NewKeyOf(t) => t.record.epoch = Len(authority.epochs) + 1
  BY DEF Fits, NewRecord, NewKeyOf, LatestEpoch
<1> QED BY <1>1, <1>3, <1>4 DEF Fits, Done

(* An epoch has its directory among the bounded ones. *)
LEMMA EpochsInReach ==
  ASSUME HistoryInv
  PROVE  DOMAIN authority.epochs = 1 .. Len(authority.epochs) /\ DOMAIN authority.epochs \subseteq Epochs
         /\ Len(authority.epochs) \in Epochs
<1>1. authority.epochs \in Seq(EpochRecords(NoAnchors)) /\ authority.epochs # <<>>
      /\ authority.records \in Seq(LifecycleRecords(NoAnchors))
  BY DEF HistoryInv, Lawful, AuthorityType
<1> QED BY <1>1, NaturalBounds DEF HistoryInv, Epochs

(* The journal always holds a transaction that fits or one that is done;    *)
(* Applied tells which.                                                     *)
LEMMA AppliedIsDone ==
  ASSUME TypeOK, HistoryInv, TxInv, Pending
  PROVE  /\ tx \in Transactions
         /\ Applied => Done(tx)
         /\ ~Applied => Fits(tx)
<1>1. tx \in Transactions
  BY DEF TypeOK, Pending
<1>2. Fits(tx) => ~Applied
  BY <1>1, FittingTransaction DEF Applied
<1>3. Done(tx) => Applied
  BY DEF Done, Applied
<1> QED BY <1>1, <1>2, <1>3 DEF TxInv

----------------------------------------------------------------------------
(* Steps that share a shape *)

(* The lifecycle, the journal and the directories stay.                     *)
LEMMA NothingMoves ==
  ASSUME TypeOK, HistoryInv, TxInv, KeysInv, CleanInv,
         authority' = authority, tx' = tx, dir' = dir, generated' = generated
  PROVE  HistoryInv' /\ TxInv' /\ KeysInv' /\ CleanInv'
<1>1. HistoryInv'
  BY DEF HistoryInv
<1>2. TxInv'
  BY DEF TxInv, Pending, Fits, Done, Live, NewKeyOf
<1>3. KeysInv'
  BY DEF KeysInv, Live
<1>4. CleanInv'
  BY DEF CleanInv, Pending, Fits, Done, Live, NewKeyOf, Clean
<1> QED BY <1>1, <1>2, <1>3, <1>4

(* Whatever happens in the directory of an epoch to come, it is the         *)
(* journal's business.                                                      *)
LEMMA NewDirectoryMoves ==
  ASSUME TypeOK, HistoryInv, TxInv, KeysInv, CleanInv, Pending, Fits(tx), NewKeyOf(tx),
         NEW d \in Directories \cup {Absent},
         authority' = authority, tx' = tx, generated' = generated,
         dir' = [dir EXCEPT ![tx.record.epoch] = d]
  PROVE  /\ dir' \in [Epochs -> Directories \cup {Absent}]
         /\ dir'[tx.record.epoch] = d
         /\ Fits(tx)'
         /\ HistoryInv' /\ TxInv' /\ KeysInv' /\ CleanInv'
<1> DEFINE n == tx.record.epoch
<1>1. tx \in Transactions
  BY DEF TypeOK, Pending
<1>2. n \in Epochs /\ n \notin DOMAIN authority.epochs
  BY <1>1, TransactionShape, FittingTransaction
<1>3. /\ dir \in [Epochs -> Directories \cup {Absent}]
      /\ dir' \in [Epochs -> Directories \cup {Absent}]
      /\ dir'[n] = d
      /\ \A e \in Epochs : e # n => dir'[e] = dir[e]
  BY <1>2 DEF TypeOK
<1>4. Fits(tx)'
  BY DEF Fits
<1>5. HistoryInv'
  BY DEF HistoryInv
<1>6. TxInv'
  BY <1>4 DEF TxInv
<1>7. \A e \in DOMAIN authority.epochs : e \in Epochs /\ dir'[e] = dir[e]
  BY <1>2, <1>3, EpochsInReach
<1>8. KeysInv'
  BY <1>7 DEF KeysInv, Live
<1>9. CleanInv'
  <2>1. Pending' /\ NewKeyOf(tx)'
    BY DEF Pending, NewKeyOf
  <2> SUFFICES ASSUME NEW e \in Epochs, e # n
               PROVE  Clean(e)'
    BY <1>4, <2>1 DEF CleanInv
  <2>2. ~Done(tx)
    BY <1>1, FittingTransaction
  <2>3. Clean(e)
    BY <2>2 DEF CleanInv
  <2>4. dir'[e] = dir[e]
    BY <1>3
  <2> QED BY <2>3, <2>4 DEF Clean, Live
<1> QED BY <1>3, <1>4, <1>5, <1>6, <1>8, <1>9

(* Without a journal the directories have to be clean already.              *)
LEMMA JournalGoes ==
  ASSUME HistoryInv, KeysInv, \A e \in Epochs : Clean(e), tx' \in {None, Torn},
         authority' = authority, dir' = dir, generated' = generated
  PROVE  HistoryInv' /\ TxInv' /\ KeysInv' /\ CleanInv'
<1>1. ~Pending'
  BY DEF Pending
<1>2. HistoryInv'
  BY DEF HistoryInv
<1>3. KeysInv'
  BY DEF KeysInv, Live
<1>4. CleanInv'
  BY DEF CleanInv, Clean, Live
<1> QED BY <1>1, <1>2, <1>3, <1>4 DEF TxInv

----------------------------------------------------------------------------
(* The inductive invariant *)

LEMMA InitInv == Init => IInv
<1> SUFFICES ASSUME Init PROVE IInv
  OBVIOUS
<1>0. 1 \in Epochs /\ 1 \in 1 .. MaxKeys /\ 1 \in Nat
  BY NaturalBounds DEF Epochs
<1>1. Lawful(authority, 0, NoAnchors)
  BY GenesisLawful DEF Init, NoAnchors
<1>2. /\ authority.records =
           <<[seq |-> 0, action |-> "GENESIS", epoch |-> 1, key |-> 1,
              boundary |-> EmptyBoundary, anchor |-> None]>>
      /\ authority.epochs = <<NewEpoch(1, EmptyBoundary)>>
  BY DEF Init, Genesis
<1>3. /\ Len(authority.records) = 1 /\ LastRecord(authority).seq = 0
      /\ Len(authority.epochs) = 1 /\ DOMAIN authority.epochs = {1}
      /\ authority.epochs[1].key = 1 /\ authority.epochs[1].status = "ACTIVE"
  BY <1>2 DEF LastRecord, NewEpoch
<1>4. /\ dir \in [Epochs -> Directories \cup {Absent}]
      /\ dir[1] = PublishedPair(1) /\ dir[1] # Absent
      /\ \A e \in Epochs : e # 1 => dir[e] = Absent
  BY <1>0, DirectoryShapes DEF Init
<1> DEFINE home == tx = None /\ proposal = None /\ generated = 1 /\ interruptions = 0
<1>5. home
  BY DEF Init
<1>6. TypeOK
  BY <1>0, <1>3, <1>4, <1>5, NaturalBounds DEF TypeOK
<1>11. HistoryInv
  BY <1>1, <1>3, <1>5, NaturalBounds DEF HistoryInv
<1>7. ~Pending /\ tx = None
  BY DEF Init, Pending
<1>8. KeysInv
  BY <1>3, <1>4, PairShape DEF KeysInv, LoadsPair
<1>9. CleanInv
  BY <1>3, <1>4, PairShape DEF CleanInv, Clean, Live
<1>10. PlaceInv
  BY DEF PlaceInv, Init, Places
<1> QED BY <1>6, <1>7, <1>8, <1>9, <1>10, <1>11 DEF IInv, TxInv

(* The transaction that is signed fits the authority it was derived from.   *)
LEMMA BeginKeeps ==
  ASSUME IInv, NEW action \in Actions, Begin(action)
  PROVE  IInv'
<1> DEFINE N == Len(authority.epochs)
           generates == GeneratesKey(action)
           r == NewRecord(authority, action, generated + 1, EmptyBoundary, None)
<1>1. /\ TypeOK /\ HistoryInv /\ TxInv /\ KeysInv /\ CleanInv
      /\ pc' = "signed" /\ tx = None /\ tx' = None
      /\ Len(authority.records) < MaxRecords
      /\ MayPropose(authority, action, LoadableKeys)
      /\ generates => generated < MaxKeys
      /\ Accepts(authority, r)
      /\ proposal' = [record |-> r, retires |-> N]
      /\ generated' = IF generates THEN generated + 1 ELSE generated
      /\ authority' = authority /\ dir' = dir /\ interruptions' = interruptions
  BY DEF IInv, Begin, Go, LatestEpoch
<1>2. /\ authority.epochs \in Seq(EpochRecords(NoAnchors)) /\ N \in DOMAIN authority.epochs
      /\ authority.epochs[N] = Latest(authority) /\ authority.active \in {0, N} /\ N \in Nat
      /\ Len(authority.records) \in Nat /\ N <= Len(authority.records)
  BY <1>1 DEF HistoryInv, Lawful, AuthorityType, Latest, LatestEpoch
<1>3. Latest(authority).key \in 1 .. generated /\ generated \in 1 .. MaxKeys
  BY <1>1, <1>2 DEF HistoryInv, TypeOK
<1>4. generated' \in 1 .. MaxKeys /\ \A k \in 1 .. generated : k \in 1 .. generated'
  BY <1>1, <1>3, NaturalBounds
<1>5. /\ r.seq = Len(authority.records) /\ r.action = action
      /\ r.epoch = IF generates THEN N + 1 ELSE N
      /\ r.key = IF generates THEN generated + 1 ELSE Latest(authority).key
      /\ r.boundary = EmptyBoundary /\ r.anchor = None
      /\ r = [seq |-> r.seq, action |-> r.action, epoch |-> r.epoch, key |-> r.key,
              boundary |-> r.boundary, anchor |-> r.anchor]
  BY DEF NewRecord, LatestEpoch
<1>6. r = NewRecord(authority, r.action, r.key, EmptyBoundary, None)
  BY <1>5 DEF NewRecord, LatestEpoch
<1> HIDE DEF r, generates
<1>7. r.key \in 1 .. generated' /\ r.key \in 1 .. MaxKeys
  <2>1. CASE generates
    BY <1>1, <1>3, <1>4, <1>5, <2>1
  <2>2. CASE ~generates
    <3>1. r.key = Latest(authority).key
      BY <1>5, <2>2
    <3>2. generated \in Int /\ generated <= MaxKeys /\ MaxKeys \in Int
      BY <1>3, NaturalBounds
    <3> QED BY <1>3, <1>4, <3>1, <3>2
  <2> QED BY <2>1, <2>2
<1>8. r.epoch \in Epochs /\ N \in Epochs
  BY <1>1, <1>2, <1>5, NaturalBounds DEF Epochs
<1>9. proposal' \in Transactions
  <2>1. r \in [seq : Nat, action : Actions, epoch : Epochs, key : 1 .. MaxKeys,
               boundary : {EmptyBoundary}, anchor : {None}]
    BY <1>2, <1>5, <1>7, <1>8
  <2> QED BY <1>1, <1>8, <2>1 DEF Transactions
<1>10. proposal'.record = r /\ proposal'.retires = N
  BY <1>1
<1>11. MayPropose(authority, action, {Latest(authority).key})
  BY <1>1, <1>2 DEF MayPropose, ActiveKey
<1>12. Fits(proposal)'
  BY <1>1, <1>5, <1>6, <1>7, <1>10, <1>11 DEF Fits
<1>13. HistoryInv'
  BY <1>1, <1>4 DEF HistoryInv
<1>14. TypeOK'
  BY <1>1, <1>4, <1>9 DEF TypeOK
<1>15. ~Pending' /\ TxInv'
  BY <1>1 DEF Pending, TxInv
<1>16. KeysInv' /\ CleanInv'
  <2>1. ~Pending
    BY <1>1 DEF Pending
  <2> QED BY <1>1, <1>15, <2>1 DEF KeysInv, CleanInv, Clean, Live
<1>17. PlaceInv'
  <2>1. proposal' # None
    BY <1>9, TransactionShape
  <2> QED BY <1>1, <1>12, <2>1 DEF PlaceInv, Places
<1> QED BY <1>13, <1>14, <1>15, <1>16, <1>17 DEF IInv

LEMMA JournalKeeps ==
  ASSUME IInv, WriteJournal \/ TearJournal
  PROVE  IInv'
<1>1. /\ TypeOK /\ HistoryInv /\ TxInv /\ KeysInv /\ CleanInv
      /\ pc = "signed" /\ tx = None /\ proposal # None /\ Fits(proposal) /\ proposal \in Transactions
      /\ authority' = authority /\ dir' = dir /\ generated' = generated /\ proposal' = proposal
  BY DEF IInv, PlaceInv, WriteJournal, TearJournal, Go, TypeOK
<1>2. \A e \in Epochs : Clean(e)
  BY <1>1 DEF CleanInv, Pending
<1>3. CASE WriteJournal
  <2>1. /\ tx' = proposal /\ interruptions' = interruptions
        /\ pc' = IF NewKeyOf(proposal) THEN "journaled" ELSE "recovering"
    BY <1>3 DEF WriteJournal, Go, NewKeyOf
  <2>2. Fits(tx)' /\ Pending'
    BY <1>1, <2>1, TransactionShape DEF Fits, Pending
  <2>3. TypeOK'
    BY <1>1, <2>1 DEF TypeOK
  <2>4. HistoryInv' /\ TxInv'
    BY <1>1, <2>2 DEF HistoryInv, TxInv
  <2>5. KeysInv' /\ CleanInv'
    BY <1>1, <1>2 DEF KeysInv, CleanInv, Clean, Live
  <2>6. PlaceInv'
    <3>1. CASE NewKeyOf(proposal)
      <4>1. proposal.record.epoch \in Epochs /\ proposal.record.epoch \notin DOMAIN authority.epochs
        BY <1>1, <3>1, TransactionShape, FittingTransaction
      <4>2. NoSecret(proposal.record.epoch)
        BY <1>2, <4>1 DEF Clean, NoSecret
      <4>3. NoSecret(tx.record.epoch)'
        BY <1>1, <2>1, <4>2 DEF NoSecret
      <4>4. NewKeyOf(tx)'
        BY <2>1, <3>1 DEF NewKeyOf
      <4> QED BY <1>1, <2>1, <2>2, <3>1, <4>3, <4>4 DEF PlaceInv, Places
    <3>2. CASE ~NewKeyOf(proposal)
      BY <2>1, <2>2, <3>2 DEF PlaceInv, Places
    <3> QED BY <3>1, <3>2
  <2> QED BY <2>3, <2>4, <2>5, <2>6 DEF IInv
<1>4. CASE TearJournal
  <2>1. tx' = Torn /\ pc' = "idle" /\ interruptions' = interruptions + 1 /\ interruptions < MaxInterruptions
    BY <1>4 DEF TearJournal, Go, Interrupted
  <2>2. TypeOK'
    BY <1>1, <2>1, NaturalBounds DEF TypeOK
  <2>3. HistoryInv' /\ TxInv' /\ KeysInv' /\ CleanInv'
    BY <1>1, <1>2, <2>1, JournalGoes
  <2>4. PlaceInv'
    BY <2>1 DEF PlaceInv, Places
  <2> QED BY <2>2, <2>3, <2>4 DEF IInv
<1> QED BY <1>3, <1>4

(* Staging happens in the directory of the epoch to come, under a journal   *)
(* that fits.                                                               *)
LEMMA StagingKeeps ==
  ASSUME IInv,
         MakeDirectory \/ StagePrivate \/ StagePublic \/ FindDirectory
           \/ TearPrivate \/ TearPublic \/ FailStaging
  PROVE  IInv'
<1> DEFINE n == tx.record.epoch
<1>1. /\ TypeOK /\ HistoryInv /\ TxInv /\ KeysInv /\ CleanInv
      /\ pc \in {"journaled", "directoryMade", "privateStaged"}
      /\ Pending /\ tx = proposal /\ Fits(tx) /\ NewKeyOf(tx) /\ tx \in Transactions
      /\ authority' = authority /\ tx' = tx /\ proposal' = proposal /\ generated' = generated
  BY DEF IInv, PlaceInv, MakeDirectory, StagePrivate, StagePublic, FindDirectory, TearPrivate,
         TearPublic, FailStaging, Go, TypeOK, Pending
<1>2. /\ n \in Epochs /\ NewEpochOf = n /\ dir \in [Epochs -> Directories \cup {Absent}]
      /\ tx.record.key \in Contents /\ Torn \in Contents
  BY <1>1, TransactionShape DEF NewEpochOf, TypeOK, Contents
<1>3. interruptions' \in 0 .. MaxInterruptions
  BY <1>1, NaturalBounds DEF TypeOK, MakeDirectory, StagePrivate, StagePublic, FindDirectory,
                             TearPrivate, TearPublic, FailStaging, Interrupted
<1>4. Pending' /\ NewKeyOf(tx)' /\ tx' = proposal'
  BY <1>1 DEF Pending, NewKeyOf
<1>5. ASSUME NEW d \in Directories \cup {Absent}, dir' = [dir EXCEPT ![n] = d]
      PROVE  TypeOK' /\ HistoryInv' /\ TxInv' /\ KeysInv' /\ CleanInv' /\ Fits(tx)' /\ dir'[n] = d
  <2>1. /\ dir' \in [Epochs -> Directories \cup {Absent}] /\ dir'[n] = d
        /\ Fits(tx)' /\ HistoryInv' /\ TxInv' /\ KeysInv' /\ CleanInv'
    BY <1>1, <1>5, NewDirectoryMoves
  <2> QED BY <1>1, <1>3, <2>1 DEF TypeOK
<1>6. ASSUME dir' = dir
      PROVE  TypeOK' /\ HistoryInv' /\ TxInv' /\ KeysInv' /\ CleanInv' /\ Fits(tx)'
  <2>1. HistoryInv' /\ TxInv' /\ KeysInv' /\ CleanInv'
    BY <1>1, <1>6, NothingMoves
  <2>2. TypeOK'
    BY <1>1, <1>3, <1>6 DEF TypeOK
  <2>3. Fits(tx)'
    BY <1>1 DEF Fits
  <2> QED BY <1>6, <2>1, <2>2, <2>3
<1>7. CASE MakeDirectory
  <2>1. pc' = "directoryMade" /\ dir' = [dir EXCEPT ![n] = EmptyDirectory]
    BY <1>2, <1>7 DEF MakeDirectory, Go
  <2>2. /\ TypeOK' /\ HistoryInv' /\ TxInv' /\ KeysInv' /\ CleanInv' /\ Fits(tx)'
        /\ dir'[n] = EmptyDirectory
    BY <1>5, <2>1, DirectoryShapes
  <2>3. PlaceInv'
    BY <1>1, <1>4, <2>1, <2>2 DEF PlaceInv, Places
  <2> QED BY <2>2, <2>3 DEF IInv
<1>8. CASE StagePrivate \/ TearPrivate \/ StagePublic \/ TearPublic
  <2>1. dir[n] \in Directories
    BY <1>1, <1>2, <1>8, DirectoryShapes
       DEF IInv, PlaceInv, StagePrivate, TearPrivate, StagePublic, TearPublic, Go
  <2>2. \E c \in Contents :
          \/ dir' = [dir EXCEPT ![n].pendingPrivate = c]
          \/ dir' = [dir EXCEPT ![n].pendingPublic = c]
    BY <1>2, <1>8 DEF StagePrivate, TearPrivate, StagePublic, TearPublic
  <2>3. PICK c \in Contents :
          \/ dir' = [dir EXCEPT ![n] = [dir[n] EXCEPT !.pendingPrivate = c]]
          \/ dir' = [dir EXCEPT ![n] = [dir[n] EXCEPT !.pendingPublic = c]]
    BY <2>2
  <2>4. PICK d \in Directories : dir' = [dir EXCEPT ![n] = d]
    BY <2>1, <2>3, DirectoryShapes
  <2>5. TypeOK' /\ HistoryInv' /\ TxInv' /\ KeysInv' /\ CleanInv' /\ Fits(tx)' /\ dir'[n] # Absent
    BY <1>5, <2>4, DirectoryShapes
  <2>6. pc' \in {"privateStaged", "recovering", "idle"}
    BY <1>8 DEF StagePrivate, TearPrivate, StagePublic, TearPublic, Go
  <2>7. PlaceInv'
    BY <1>1, <1>4, <2>5, <2>6 DEF PlaceInv, Places
  <2> QED BY <2>5, <2>7 DEF IInv
<1>9. CASE FindDirectory \/ FailStaging
  <2>1. pc' = "failed"
    BY <1>9 DEF FindDirectory, FailStaging, Go
  <2>2. \/ dir' = dir /\ pc \in {"journaled", "directoryMade"}
        \/ dir' = [dir EXCEPT ![n] = Absent]
    BY <1>2, <1>9 DEF FindDirectory, FailStaging, Go
  <2>3. TypeOK' /\ HistoryInv' /\ TxInv' /\ KeysInv' /\ CleanInv' /\ Fits(tx)'
    BY <1>5, <1>6, <2>2
  <2>4. NoSecret(tx.record.epoch)'
    <3>1. CASE dir' = dir /\ pc \in {"journaled", "directoryMade"}
      <4>1. NoSecret(n)
        BY <3>1, PairShape DEF IInv, PlaceInv, NoSecret
      <4> QED BY <1>1, <3>1, <4>1 DEF NoSecret
    <3>2. CASE dir' = [dir EXCEPT ![n] = Absent]
      BY <1>1, <1>5, <3>2 DEF NoSecret
    <3> QED BY <2>2, <3>1, <3>2
  <2>5. PlaceInv'
    BY <1>1, <1>4, <2>1, <2>3, <2>4 DEF PlaceInv, Places
  <2> QED BY <2>3, <2>5 DEF IInv
<1> QED BY <1>7, <1>8, <1>9

(* A mutation that is given up leaves clean directories, with the journal   *)
(* gone first or last.                                                      *)
LEMMA AbandoningKeeps ==
  ASSUME IInv, DropJournal \/ DropDirectory \/ RollBackDirectory \/ RollBackJournal
  PROVE  IInv'
<1>1. /\ TypeOK /\ HistoryInv /\ TxInv /\ PlaceInv /\ KeysInv /\ CleanInv
      /\ authority' = authority /\ proposal' = proposal /\ generated' = generated
      /\ interruptions' = interruptions
  BY DEF IInv, DropJournal, DropDirectory, RollBackDirectory, RollBackJournal
<1>2. CASE DropJournal \/ RollBackJournal
  <2>1. /\ pc \in {"failed", "rolledBack"} /\ tx' = None /\ dir' = dir
        /\ pc' = IF pc = "failed" THEN "journalDropped" ELSE "idle"
        /\ Pending /\ Fits(tx) /\ NewKeyOf(tx) /\ tx \in Transactions
        /\ NoSecret(tx.record.epoch)
        /\ pc = "failed" => tx = proposal
    BY <1>1, <1>2 DEF DropJournal, RollBackJournal, Go, PlaceInv, TypeOK, Pending, NoSecret
  <2>2. \A e \in Epochs : Clean(e)
    <3>1. ~Done(tx)
      BY <1>1, <2>1, FittingTransaction
    <3> QED BY <1>1, <2>1, <3>1 DEF CleanInv, NoSecret, Clean
  <2>3. HistoryInv' /\ TxInv' /\ KeysInv' /\ CleanInv'
    BY <1>1, <2>1, <2>2, JournalGoes
  <2>4. TypeOK'
    BY <1>1, <2>1 DEF TypeOK
  <2>5. PlaceInv'
    <3>1. CASE pc = "failed"
      <4>1. proposal' # None /\ Fits(proposal)' /\ NewKeyOf(proposal)'
        BY <1>1, <2>1, <3>1, TransactionShape DEF Fits, NewKeyOf
      <4> QED BY <2>1, <3>1, <4>1 DEF PlaceInv, Places
    <3>2. CASE pc = "rolledBack"
      BY <2>1, <3>2 DEF PlaceInv, Places
    <3> QED BY <2>1, <3>1, <3>2
  <2> QED BY <2>3, <2>4, <2>5 DEF IInv
<1>3. CASE DropDirectory
  <2> DEFINE n == proposal.record.epoch
  <2>1. /\ pc' = "idle" /\ tx = None /\ tx' = None /\ dir' = [dir EXCEPT ![n] = Absent]
        /\ proposal \in Transactions /\ Fits(proposal) /\ NewKeyOf(proposal)
    BY <1>1, <1>3 DEF DropDirectory, Go, PlaceInv, TypeOK
  <2>2. n \in Epochs /\ n \notin DOMAIN authority.epochs
    BY <1>1, <2>1, TransactionShape, FittingTransaction
  <2>3. /\ dir' \in [Epochs -> Directories \cup {Absent}] /\ dir'[n] = Absent
        /\ \A e \in Epochs : e # n => dir'[e] = dir[e]
    BY <1>1, <2>1, <2>2 DEF TypeOK
  <2>4. \A e \in DOMAIN authority.epochs : dir'[e] = dir[e]
    BY <1>1, <2>2, <2>3, EpochsInReach
  <2>5. KeysInv'
    BY <1>1, <2>4 DEF KeysInv, Live
  <2>6. CleanInv'
    <3>1. \A e \in Epochs : Clean(e)
      BY <1>1, <2>1 DEF CleanInv, Pending
    <3> QED BY <1>1, <2>3, <3>1 DEF CleanInv, Clean, Live
  <2>7. TypeOK' /\ HistoryInv' /\ TxInv' /\ PlaceInv'
    BY <1>1, <2>1, <2>3 DEF TypeOK, HistoryInv, TxInv, Pending, PlaceInv, Places
  <2> QED BY <2>5, <2>6, <2>7 DEF IInv
<1>4. CASE RollBackDirectory
  <2>1. /\ pc' = "rolledBack" /\ tx' = tx /\ Pending /\ NewKeyOf(tx) /\ ~Applied
        /\ dir' = [dir EXCEPT ![tx.record.epoch] = Absent]
    BY <1>1, <1>4 DEF RollBackDirectory, Go, PlaceInv, MustRollBack, HasNewKey, NewKeyOf, NewEpochOf
  <2>2. Fits(tx)
    BY <1>1, <2>1, AppliedIsDone
  <2>3. /\ dir' \in [Epochs -> Directories \cup {Absent}] /\ dir'[tx.record.epoch] = Absent
        /\ Fits(tx)' /\ HistoryInv' /\ TxInv' /\ KeysInv' /\ CleanInv'
    BY <1>1, <2>1, <2>2, NewDirectoryMoves
  <2>4. TypeOK' /\ Pending' /\ NewKeyOf(tx)'
    BY <1>1, <2>1, <2>3 DEF TypeOK, Pending, NewKeyOf
  <2>5. PlaceInv'
    BY <2>1, <2>3, <2>4 DEF PlaceInv, Places
  <2> QED BY <2>3, <2>4, <2>5 DEF IInv
<1> QED BY <1>2, <1>3, <1>4

(* Reading the journal, and stopping, move nothing but the place.           *)
LEMMA PausingKeeps ==
  ASSUME IInv, Recover \/ SkipPublication \/ RejectPair \/ Kill
  PROVE  IInv'
<1>1. /\ TypeOK /\ HistoryInv /\ TxInv /\ PlaceInv /\ KeysInv /\ CleanInv
      /\ authority' = authority /\ tx' = tx /\ dir' = dir /\ proposal' = proposal
      /\ generated' = generated
  BY DEF IInv, Recover, SkipPublication, RejectPair, Kill
<1>2. HistoryInv' /\ TxInv' /\ KeysInv' /\ CleanInv'
  BY <1>1, NothingMoves
<1>3. TypeOK'
  <2>1. interruptions' \in 0 .. MaxInterruptions
    BY <1>1, NaturalBounds DEF TypeOK, Recover, SkipPublication, RejectPair, Kill, Interrupted
  <2> QED BY <1>1, <2>1 DEF TypeOK
<1>4. PlaceInv'
  <2>1. \/ pc' = "idle"
        \/ pc' = "recovering" /\ Pending
        \/ pc' = "published" /\ Pending /\ ~NewKeyOf(tx)
    BY <1>1 DEF Recover, SkipPublication, RejectPair, Kill, Go, PlaceInv, Pending, HasNewKey, NewKeyOf
  <2> QED BY <1>1, <2>1 DEF PlaceInv, Places, Pending, NewKeyOf
<1> QED BY <1>2, <1>3, <1>4 DEF IInv

(* Publication works on what is there: on the directory of an epoch to come *)
(* it may do anything, on one already published it does nothing.            *)
LEMMA PublicationKeeps ==
  ASSUME IInv, PublishPrivate \/ PublishPublic \/ CheckPair
  PROVE  IInv'
<1> DEFINE n == tx.record.epoch
           key == tx.record.key
<1>1. /\ TypeOK /\ HistoryInv /\ TxInv /\ PlaceInv /\ KeysInv /\ CleanInv
      /\ Pending /\ NewKeyOf(tx) /\ tx \in Transactions
      /\ authority' = authority /\ tx' = tx /\ proposal' = proposal /\ generated' = generated
      /\ interruptions' = interruptions
  BY DEF IInv, PlaceInv, PublishPrivate, PublishPublic, CheckPair, Go, TypeOK, Pending,
         HasNewKey, NewKeyOf
<1>2. /\ n \in Epochs /\ NewEpochOf = n /\ dir \in [Epochs -> Directories \cup {Absent}]
      /\ key \in 1 .. MaxKeys
  BY <1>1, TransactionShape DEF NewEpochOf, TypeOK
<1>3. /\ Applied => Done(tx) /\ dir[n] = PublishedPair(key)
      /\ ~Applied => Fits(tx)
  BY <1>1, AppliedIsDone DEF Done
<1>4. key # None
  BY <1>2, NoneIsNoNumber
<1>5. dir[n] \in Directories
  <2>1. dir[n] # Absent
    <3>1. CASE PublishPrivate
      BY <1>2, <1>3, <3>1, DirectoryShapes
         DEF PublishPrivate, MustRollBack, HasNewKey, PairExists
    <3>2. CASE PublishPublic \/ CheckPair
      BY <1>1, <3>2 DEF PublishPublic, CheckPair, Go, PlaceInv
    <3> QED BY <3>1, <3>2
  <2> QED BY <1>2, <2>1
<1>6. PICK d \in Directories :
        /\ dir' = [dir EXCEPT ![n] = d]
        /\ pc' = "published" => d = PublishedPair(key)
        /\ dir[n] = PublishedPair(key) => d = dir[n]
  <2>1. CASE PublishPrivate
    <3>1. dir[n] = PublishedPair(key) => PrivatePublished(dir[n]) = dir[n]
      BY <1>4, PairShape DEF PrivatePublished
    <3> QED BY <1>2, <1>5, <2>1, <3>1, DirectoryShapes DEF PublishPrivate, Go
  <2>2. CASE PublishPublic
    <3>1. dir[n] = PublishedPair(key) => PublicPublished(dir[n]) = dir[n]
      BY <1>4, PairShape DEF PublicPublished
    <3> QED BY <1>2, <1>5, <2>2, <3>1, DirectoryShapes DEF PublishPublic, Go
  <2>3. CASE CheckPair
    BY <1>2, <2>3, DirectoryShapes DEF CheckPair, Go
  <2> QED BY <2>1, <2>2, <2>3
<1>7. /\ dir' \in [Epochs -> Directories \cup {Absent}] /\ dir'[n] = d
      /\ HistoryInv' /\ TxInv' /\ KeysInv' /\ CleanInv'
  <2>1. CASE Applied
    <3>1. dir' = dir
      BY <1>2, <1>3, <1>6, <2>1
    <3>2. HistoryInv' /\ TxInv' /\ KeysInv' /\ CleanInv'
      BY <1>1, <3>1, NothingMoves
    <3> QED BY <1>2, <1>6, <3>1, <3>2
  <2>2. CASE ~Applied
    BY <1>1, <1>3, <1>6, <2>2, NewDirectoryMoves
  <2> QED BY <2>1, <2>2
<1>8. TypeOK'
  BY <1>1, <1>7 DEF TypeOK
<1>9. PlaceInv'
  <2>1. pc' \in {"privatePublished", "publicPublished", "published"}
    BY DEF PublishPrivate, PublishPublic, CheckPair, Go
  <2>2. Pending' /\ NewKeyOf(tx)' /\ dir'[n] # Absent
    BY <1>1, <1>7, DirectoryShapes DEF Pending, NewKeyOf
  <2>3. pc' = "published" => (dir[tx.record.epoch] = PublishedPair(tx.record.key))'
    BY <1>1, <1>6, <1>7 DEF PublishedPair, EmptyDirectory
  <2> QED BY <1>1, <2>1, <2>2, <2>3 DEF PlaceInv, Places
<1> QED BY <1>7, <1>8, <1>9 DEF IInv

(* The lifecycle takes the record once: what it creates is published, what  *)
(* it closes is the journal's business until the key is gone.               *)
LEMMA ReplacingKeeps ==
  ASSUME IInv, ReplaceLifecycle
  PROVE  IInv'
<1> DEFINE a == authority
           b == Apply(authority, tx.record)
           r == tx.record
           N == Len(authority.epochs)
<1>1. /\ TypeOK /\ HistoryInv /\ TxInv /\ PlaceInv /\ KeysInv /\ CleanInv
      /\ pc = "published" /\ pc' = "applied" /\ Pending /\ tx \in Transactions
      /\ NewKeyOf(tx) => dir[r.epoch] = PublishedPair(r.key)
      /\ authority' = IF Applied THEN a ELSE b
      /\ dir' = dir /\ tx' = tx /\ proposal' = proposal /\ generated' = generated
      /\ interruptions' = interruptions
  BY DEF IInv, PlaceInv, ReplaceLifecycle, Go, TypeOK, Pending
<1>2. Pending'
  BY <1>1 DEF Pending
<1>3. CASE Applied
  <2>1. authority' = authority /\ Done(tx)
    BY <1>1, <1>3, AppliedIsDone
  <2>2. HistoryInv' /\ TxInv' /\ KeysInv' /\ CleanInv'
    BY <1>1, <2>1, NothingMoves
  <2>3. Done(tx)'
    BY <1>1, <2>1 DEF Done, Live, NewKeyOf
  <2>4. TypeOK'
    BY <1>1, <2>1 DEF TypeOK
  <2>5. PlaceInv'
    BY <1>1, <1>2, <2>3 DEF PlaceInv, Places
  <2> QED BY <2>2, <2>4, <2>5 DEF IInv
<1>4. CASE ~Applied
  <2>1. /\ authority' = b /\ Fits(tx) /\ Accepts(a, r) /\ ~Done(tx)
        /\ NewKeyOf(tx) => r.epoch = N + 1 /\ r.epoch \notin DOMAIN a.epochs
        /\ tx.retires = N /\ N \in DOMAIN a.epochs
    BY <1>1, <1>4, AppliedIsDone, FittingTransaction
  <2>2. /\ Lawful(a, 0, NoAnchors) /\ r \in LifecycleRecords(NoAnchors) /\ r.action \in Actions
        /\ r.boundary.seq = 0 - 1 /\ r.seq = Len(a.records) /\ Len(a.records) < MaxRecords
        /\ r.key \in 1 .. generated /\ r.epoch \in Epochs
    <3>1. Lawful(a, 0, NoAnchors)
      BY <1>1 DEF HistoryInv
    <3> QED BY <1>1, <2>1, <3>1, TransactionShape DEF Fits, NewRecord
  <2>3. Lawful(b, 0, NoAnchors)
    BY <2>1, <2>2, ApplyLawful
  <2>4. /\ b.records = Append(a.records, r)
        /\ Len(b.epochs) = IF NewKeyOf(tx) THEN N + 1 ELSE N
        /\ NewKeyOf(tx) => b.epochs[N + 1].key = r.key /\ b.epochs[N + 1].status = "ACTIVE"
        /\ RetiresKey(r.action) => b.epochs[N].status \in {"RETIRED", "REVOKED"}
        /\ \A e \in DOMAIN a.epochs :
             b.epochs[e].status \in {"ACTIVE", "SUSPENDED"} =>
               a.epochs[e].status \in {"ACTIVE", "SUSPENDED"}
        /\ \A e \in DOMAIN a.epochs :
             a.epochs[e].status \in {"ACTIVE", "SUSPENDED"} =>
               \/ b.epochs[e].status \in {"ACTIVE", "SUSPENDED"}
               \/ e = N /\ RetiresKey(r.action)
    <3> HIDE DEF a, b, r, N
    <3> QED BY <2>1, <2>2, ApplyMovesEpochs DEF NewKeyOf, a, b, r, N
  <2>5. \A e \in DOMAIN a.epochs : e \in DOMAIN b.epochs /\ b.epochs[e].key = a.epochs[e].key
    BY <2>1, <2>2, ApplyKeepsEpochs
  <2> HIDE DEF b
  <2>6. /\ a.epochs \in Seq(EpochRecords(NoAnchors)) /\ DOMAIN a.epochs = 1 .. N /\ N \in Nat
        /\ b.epochs \in Seq(EpochRecords(NoAnchors))
        /\ a.records \in Seq(LifecycleRecords(NoAnchors)) /\ a.records # <<>>
    BY <2>2, <2>3 DEF Lawful, AuthorityType
  <2>7. /\ DOMAIN b.epochs = 1 .. Len(b.epochs)
        /\ \A e \in DOMAIN b.epochs :
             e \in DOMAIN a.epochs \/ (NewKeyOf(tx) /\ e = N + 1 /\ e = r.epoch)
    BY <2>1, <2>4, <2>6
  <2>8. /\ LastRecord(b) = r /\ Len(b.records) = Len(a.records) + 1
        /\ Len(b.epochs) <= Len(b.records) /\ Len(b.records) <= MaxRecords
        /\ Len(b.epochs) \in Epochs
    <3>1. LastRecord(b) = r /\ Len(b.records) = Len(a.records) + 1 /\ Len(a.records) \in Nat
      BY <2>4, <2>6 DEF LastRecord
    <3>2. N <= Len(a.records) /\ N \in Epochs
      BY <1>1, EpochsInReach DEF HistoryInv
    <3>3. Len(b.epochs) \in {N, N + 1}
      BY <2>4
    <3> QED BY <2>2, <2>6, <3>1, <3>2, <3>3, NaturalBounds DEF Epochs
  <2>9. HistoryInv'
    <3>1. \A e \in DOMAIN b.epochs : b.epochs[e].key \in 1 .. generated
      BY <1>1, <2>2, <2>4, <2>5, <2>7 DEF HistoryInv
    <3>2. LastRecord(b).seq = Len(b.records) - 1
      BY <2>2, <2>6, <2>8
    <3> QED BY <1>1, <2>1, <2>3, <2>8, <3>1, <3>2 DEF HistoryInv
  <2>10. Done(tx)'
    <3>1. NewKeyOf(tx) => /\ r.epoch = Len(b.epochs) /\ tx.retires # r.epoch
      BY <2>1, <2>4, <2>6
    <3>2. RetiresKey(r.action) => /\ tx.retires \in DOMAIN b.epochs
                                  /\ b.epochs[tx.retires].status \notin {"ACTIVE", "SUSPENDED"}
      BY <2>1, <2>4, <2>5
    <3> QED BY <1>1, <2>1, <2>8, <3>1, <3>2 DEF Done, Live, NewKeyOf
  <2>11. KeysInv'
    <3> SUFFICES ASSUME NEW e \in DOMAIN b.epochs
                 PROVE  /\ dir[e] # Absent
                        /\ b.epochs[e].status \in {"ACTIVE", "SUSPENDED"} =>
                             LoadsPair(dir[e], b.epochs[e].key)
      BY <1>1, <2>1 DEF KeysInv, Live, LoadsPair
    <3>1. CASE e \in DOMAIN a.epochs
      BY <1>1, <2>4, <2>5, <3>1 DEF KeysInv, Live
    <3>2. CASE NewKeyOf(tx) /\ e = N + 1 /\ e = r.epoch
      <4>1. r.key \in 1 .. MaxKeys
        BY <1>1, TransactionShape
      <4> QED BY <1>1, <2>4, <3>2, <4>1, DirectoryShapes, PairShape DEF LoadsPair
    <3> QED BY <2>7, <3>1, <3>2
  <2>12. CleanInv'
    <3> SUFFICES ASSUME NEW e \in Epochs
                 PROVE  \/ Clean(e)'
                        \/ RetiresKey(r.action) /\ e = tx.retires /\ NoPending(dir[e])
      BY <1>1, <1>2, <2>10 DEF CleanInv, NoPending
    <3>1. CASE Clean(e)
      <4>1. CASE dir[e] = Absent \/ dir[e].private = None
        BY <1>1, <3>1, <4>1 DEF Clean, NoPending
      <4>2. CASE dir[e] # Absent /\ dir[e].private # None
        <5>1. e \in DOMAIN a.epochs /\ a.epochs[e].status \in {"ACTIVE", "SUSPENDED"}
              /\ NoPending(dir[e])
          BY <3>1, <4>2 DEF Clean, Live
        <5>2. CASE b.epochs[e].status \in {"ACTIVE", "SUSPENDED"}
          BY <1>1, <2>1, <2>5, <5>1, <5>2 DEF Clean, Live, NoPending
        <5>3. CASE e = N /\ RetiresKey(r.action)
          BY <2>1, <5>1, <5>3
        <5> QED BY <2>4, <5>1, <5>2, <5>3
      <4> QED BY <4>1, <4>2
    <3>2. CASE NewKeyOf(tx) /\ e = r.epoch
      <4>1. /\ dir[e] = PublishedPair(r.key) /\ NoPending(dir[e])
            /\ e \in DOMAIN b.epochs /\ b.epochs[e].status = "ACTIVE"
        BY <1>1, <2>1, <2>4, <2>6, <2>7, <3>2, PairShape
      <4> QED BY <1>1, <2>1, <4>1 DEF Clean, Live, NoPending
    <3> QED BY <1>1, <2>1, <3>1, <3>2 DEF CleanInv
  <2>13. TypeOK'
    BY <1>1, <2>1, <2>8 DEF TypeOK
  <2>14. PlaceInv'
    BY <1>1, <1>2, <2>10 DEF PlaceInv, Places
  <2> QED BY <2>9, <2>10, <2>11, <2>12, <2>13, <2>14 DEF IInv, TxInv
<1> QED BY <1>3, <1>4

LEMMA FinishingKeeps ==
  ASSUME IInv, RemoveRetired \/ ClearJournal
  PROVE  IInv'
<1> DEFINE n == tx.retires
<1>1. /\ TypeOK /\ HistoryInv /\ TxInv /\ PlaceInv /\ KeysInv /\ CleanInv
      /\ Pending /\ Done(tx) /\ tx \in Transactions
      /\ authority' = authority /\ proposal' = proposal /\ generated' = generated
      /\ interruptions' = interruptions
  BY DEF IInv, PlaceInv, RemoveRetired, ClearJournal, Go, TypeOK, Pending
<1>2. ~Fits(tx)
  BY <1>1, FittingTransaction
<1>3. CASE RemoveRetired /\ ~RetiresKey(tx.record.action)
  <2>1. pc' = "retired" /\ tx' = tx /\ dir' = dir
    BY <1>3 DEF RemoveRetired, Go
  <2>2. HistoryInv' /\ TxInv' /\ KeysInv' /\ CleanInv'
    BY <1>1, <2>1, NothingMoves
  <2>3. Done(tx)' /\ Pending' /\ ~RetiresKey(tx'.record.action)
    BY <1>1, <1>3, <2>1 DEF Done, Live, NewKeyOf, Pending
  <2>4. TypeOK' /\ PlaceInv'
    BY <1>1, <2>1, <2>3 DEF TypeOK, PlaceInv, Places
  <2> QED BY <2>2, <2>4 DEF IInv
<1>4. CASE RemoveRetired /\ RetiresKey(tx.record.action)
  <2>1. pc' = "retired" /\ tx' = tx /\ dir' = [dir EXCEPT ![n].private = None]
    BY <1>4 DEF RemoveRetired, Go
  <2>2. n \in DOMAIN authority.epochs /\ n \in Epochs /\ ~Live(n)
    BY <1>1, <1>4, EpochsInReach DEF Done
  <2>3. dir[n] \in Directories /\ dir \in [Epochs -> Directories \cup {Absent}]
    BY <1>1, <2>2 DEF KeysInv, TypeOK
  <2>4. NoPending(dir[n])
    BY <1>1, <1>2, <2>2, <2>3, DirectoryShapes DEF CleanInv, Clean
  <2>5. PICK d \in Directories :
          /\ dir' = [dir EXCEPT ![n] = d]
          /\ d.private = None /\ NoPending(d)
    <3>1. [dir[n] EXCEPT !.private = None] \in Directories
      BY <2>3, DirectoryShapes DEF Contents
    <3>2. /\ [dir[n] EXCEPT !.private = None].private = None
          /\ NoPending([dir[n] EXCEPT !.private = None])
      BY <2>3, <2>4 DEF Directories, NoPending
    <3>3. dir' = [dir EXCEPT ![n] = [dir[n] EXCEPT !.private = None]]
      BY <2>1
    <3> QED BY <3>1, <3>2, <3>3
  <2>6. /\ dir' \in [Epochs -> Directories \cup {Absent}] /\ dir'[n] = d
        /\ \A e \in Epochs : e # n => dir'[e] = dir[e]
    BY <2>2, <2>3, <2>5
  <2>7. KeysInv'
    <3>1. \A e \in DOMAIN authority.epochs : e \in Epochs
      BY <1>1, EpochsInReach
    <3> QED BY <1>1, <2>2, <2>6, <3>1, DirectoryShapes DEF KeysInv, Live
  <2>8. Done(tx)'
    <3>1. NewKeyOf(tx) => tx.record.epoch \in Epochs /\ tx.record.epoch # n
      BY <1>1, TransactionShape DEF Done
    <3> QED BY <1>1, <2>1, <2>6, <3>1 DEF Done, Live, NewKeyOf, PublishedPair, EmptyDirectory
  <2>9. CleanInv'
    <3>1. ASSUME NEW e \in Epochs
          PROVE  Clean(e)'
      <4>1. CASE e = n
        BY <2>5, <2>6, <4>1 DEF Clean, NoPending
      <4>2. CASE e # n
        <5>1. Clean(e) /\ dir'[e] = dir[e]
          BY <1>1, <1>2, <2>6, <4>2 DEF CleanInv
        <5> QED BY <1>1, <5>1 DEF Clean, Live, NoPending
      <4> QED BY <4>1, <4>2
    <3> QED BY <3>1 DEF CleanInv
  <2>10. Pending' /\ TypeOK' /\ HistoryInv' /\ TxInv'
    BY <1>1, <2>1, <2>6, <2>8 DEF Pending, TypeOK, HistoryInv, TxInv
  <2>11. (dir[tx.retires].private = None)'
    BY <2>1, <2>5, <2>6
  <2>12. PlaceInv'
    BY <2>1, <2>8, <2>10, <2>11 DEF PlaceInv, Places
  <2> QED BY <2>7, <2>9, <2>10, <2>12 DEF IInv
<1>5. CASE ClearJournal
  <2>1. /\ pc' = "idle" /\ tx' = None /\ dir' = dir
        /\ RetiresKey(tx.record.action) => dir[n].private = None
    BY <1>1, <1>5 DEF ClearJournal, Go, PlaceInv
  <2>2. \A e \in Epochs : Clean(e)
    BY <1>1, <1>2, <2>1 DEF CleanInv, Clean
  <2>3. HistoryInv' /\ TxInv' /\ KeysInv' /\ CleanInv'
    BY <1>1, <2>1, <2>2, JournalGoes
  <2>4. TypeOK' /\ PlaceInv'
    BY <1>1, <2>1 DEF TypeOK, PlaceInv, Places
  <2> QED BY <2>3, <2>4 DEF IInv
<1> QED BY <1>3, <1>4, <1>5

LEMMA StepInv == IInv /\ [Next]_vars => IInv'
<1> SUFFICES ASSUME IInv, [Next]_vars PROVE IInv'
  OBVIOUS
<1>1. CASE \E action \in Actions : Begin(action)
  BY <1>1, BeginKeeps
<1>2. CASE WriteJournal \/ TearJournal
  BY <1>2, JournalKeeps
<1>3. CASE MakeDirectory \/ StagePrivate \/ StagePublic \/ FindDirectory
             \/ TearPrivate \/ TearPublic \/ FailStaging
  BY <1>3, StagingKeeps
<1>4. CASE DropJournal \/ DropDirectory \/ RollBackDirectory \/ RollBackJournal
  BY <1>4, AbandoningKeeps
<1>5. CASE Recover \/ SkipPublication \/ RejectPair \/ Kill
  BY <1>5, PausingKeeps
<1>6. CASE PublishPrivate \/ PublishPublic \/ CheckPair
  BY <1>6, PublicationKeeps
<1>7. CASE ReplaceLifecycle
  BY <1>7, ReplacingKeeps
<1>8. CASE RemoveRetired \/ ClearJournal
  BY <1>8, FinishingKeeps
<1>9. CASE UNCHANGED vars
  <2>1. /\ authority' = authority /\ tx' = tx /\ dir' = dir /\ generated' = generated
        /\ pc' = pc /\ proposal' = proposal /\ interruptions' = interruptions
    BY <1>9 DEF vars
  <2>2. HistoryInv' /\ TxInv' /\ KeysInv' /\ CleanInv'
    BY <2>1, NothingMoves DEF IInv
  <2>3. TypeOK'
    BY <2>1 DEF IInv, TypeOK
  <2>4. PlaceInv'
    BY <2>1 DEF IInv, PlaceInv, Pending, NewKeyOf, Fits, Done, Live, NoSecret
  <2> QED BY <2>2, <2>3, <2>4 DEF IInv
<1> QED BY <1>1, <1>2, <1>3, <1>4, <1>5, <1>6, <1>7, <1>8, <1>9 DEF Next, Step

----------------------------------------------------------------------------
(* Theorems *)

THEOREM Invariance == Spec => []IInv
BY InitInv, StepInv, PTL DEF Spec

(* The journal, the epoch directories and the lifecycle keep their shape.   *)
THEOREM TypeCorrect == Spec => []TypeOK
<1>1. IInv => TypeOK
  BY DEF IInv
<1> QED BY <1>1, Invariance, PTL

(* Whatever is interrupted, and however often, an epoch that signs or may   *)
(* be resumed has its key pair in place (publishPendingPair before          *)
(* replaceLifecycle before the removal of the retired key).                 *)
THEOREM LiveKeysAlwaysLoad == Spec => []LiveKeysLoad
<1>1. IInv => LiveKeysLoad
  BY DEF IInv, KeysInv, LiveKeysLoad
<1> QED BY <1>1, Invariance, PTL

(* The journal goes last: without one, no directory holds a key of a closed *)
(* epoch or of a mutation that was given up.                                *)
THEOREM SettledHomesAreClean == Spec => []SettledHomeIsClean
<1>1. IInv => SettledHomeIsClean
  BY DEF IInv, CleanInv, Clean, NoPending, Pending, SettledHomeIsClean
<1> QED BY <1>1, Invariance, PTL

(* The operators of Lifecycle, as the instance names them.                  *)
LEMMA SameAlgebra ==
  ASSUME NEW a, NEW r, NEW action, NEW key, NEW held
  PROVE  /\ Authority!Latest(a) = Latest(a)
         /\ Authority!MutationBoundary = EmptyBoundary
         /\ Authority!NewRecord(a, action, key, EmptyBoundary, None) =
              NewRecord(a, action, key, EmptyBoundary, None)
         /\ Authority!MayPropose(a, action, held) <=> MayPropose(a, action, held)
         /\ Authority!Accepts(a, r) <=> Accepts(a, r)
         /\ Authority!Apply(a, r) = Apply(a, r)
         /\ Authority!Genesis(key) = Genesis(key)
<1>1. Authority!Latest(a) = Latest(a)
  BY DEF Latest, LatestEpoch, Authority!Latest, Authority!LatestEpoch
<1>2. Authority!MutationBoundary = EmptyBoundary
  BY DEF Authority!MutationBoundary, Authority!HeadBoundary, Authority!EmptyBoundary,
         Authority!Boundary, EmptyBoundary, Boundary
<1>3. Authority!NewRecord(a, action, key, EmptyBoundary, None) =
        NewRecord(a, action, key, EmptyBoundary, None)
  BY <1>1 DEF NewRecord, LatestEpoch, GeneratesKey,
              Authority!NewRecord, Authority!LatestEpoch, Authority!GeneratesKey
<1>4. Authority!MayPropose(a, action, held) <=> MayPropose(a, action, held)
  BY <1>1 DEF MayPropose, ActiveKey, Authority!MayPropose, Authority!ActiveKey
<1>5. Authority!Accepts(a, r) <=> Accepts(a, r)
  BY <1>1 DEF Accepts, NotBefore, LastRecord, LatestEpoch, GeneratesKey, TrustedKeys, ActiveKey,
              Authority!Accepts, Authority!NotBefore, Authority!LastRecord, Authority!LatestEpoch,
              Authority!GeneratesKey, Authority!TrustedKeys, Authority!ActiveKey
<1>6. \A epoch, status, boundary, anchor :
        Authority!CloseEpoch(epoch, status, boundary, anchor) =
          CloseEpoch(epoch, status, boundary, anchor)
  BY DEF CloseEpoch, Authority!CloseEpoch
<1>7. Authority!NewEpoch(r.key, r.boundary) = NewEpoch(r.key, r.boundary)
  BY DEF NewEpoch, OpenWindow, Authority!NewEpoch, Authority!OpenWindow
<1>8. Authority!EpochsAfter(a, r) = EpochsAfter(a, r)
  BY <1>6, <1>7 DEF EpochsAfter, LatestEpoch, GeneratesKey, OpenWindow, ClosedStatus,
              Authority!EpochsAfter, Authority!LatestEpoch, Authority!GeneratesKey,
              Authority!OpenWindow, Authority!ClosedStatus
<1>9. Authority!Apply(a, r) = Apply(a, r)
  BY <1>8 DEF Apply, Authority!Apply
<1>10. Authority!Genesis(key) = Genesis(key)
  BY DEF Genesis, NewEpoch, OpenWindow, EmptyBoundary, Boundary,
         Authority!Genesis, Authority!NewEpoch, Authority!OpenWindow,
         Authority!EmptyBoundary, Authority!Boundary
<1> QED BY <1>1, <1>2, <1>3, <1>4, <1>5, <1>9, <1>10

(* Only the replacement of the lifecycle file moves the authority, and then *)
(* by the record the recovery root signed for it.                           *)
LEMMA ReplacingMutates ==
  ASSUME IInv, ReplaceLifecycle
  PROVE  Authority!Next \/ authority' = authority
<1> DEFINE action == tx.record.action
           key == tx.record.key
           held == {Latest(authority).key}
<1>1. CASE Applied
  BY <1>1 DEF ReplaceLifecycle
<1>2. CASE ~Applied
  <2>1. tx \in Transactions /\ Fits(tx)
    BY <1>2, AppliedIsDone DEF IInv, PlaceInv, ReplaceLifecycle, Go
  <2>2. action \in Actions /\ key \in 1 .. MaxKeys
    BY <2>1, TransactionShape
  <2>3. /\ tx.record = NewRecord(authority, action, key, EmptyBoundary, None)
        /\ Len(authority.records) < MaxRecords
        /\ MayPropose(authority, action, held)
        /\ Accepts(authority, tx.record)
        /\ authority' = Apply(authority, tx.record)
    BY <1>2, <2>1 DEF Fits, ReplaceLifecycle
  <2>4. Authority!Mutate(action, key, held)
    BY <2>3, SameAlgebra DEF Authority!Mutate
  <2>5. held \in SUBSET {Authority!Latest(authority).key} /\ action \in Authority!Actions
    BY <2>2, SameAlgebra DEF Actions, Authority!Actions
  <2> QED BY <2>2, <2>4, <2>5 DEF Authority!Next
<1> QED BY <1>1, <1>2

(* A mutation interrupted anywhere happens whole or not at all, and never   *)
(* twice: the lifecycle file implements the abstract signing authority.     *)
THEOREM TransactionImplementsAuthority == Spec => ImplementsAuthority
<1>1. Init => Authority!Init
  BY SameAlgebra DEF Init, Authority!Init
<1>2. IInv /\ [Next]_vars => [Authority!Next]_(Authority!vars)
  <2> SUFFICES ASSUME IInv, [Next]_vars
               PROVE  Authority!Next \/ authority' = authority
    BY DEF Authority!vars
  <2>1. CASE ReplaceLifecycle
    BY <2>1, ReplacingMutates
  <2>2. CASE ~ReplaceLifecycle
    BY <2>2 DEF Next, Step, vars, Begin, WriteJournal, TearJournal,
       MakeDirectory, StagePrivate, StagePublic, FindDirectory, TearPrivate, TearPublic,
       FailStaging, DropJournal, DropDirectory, RollBackDirectory, RollBackJournal,
       Recover, SkipPublication, RejectPair, Kill, PublishPrivate, PublishPublic, CheckPair,
       RemoveRetired, ClearJournal
  <2> QED BY <2>1, <2>2
<1> QED BY <1>1, <1>2, Invariance, PTL DEF Spec, ImplementsAuthority, Authority!Spec

=============================================================================
