------------------------- MODULE LifecycleTransaction -------------------------
(***************************************************************************)
(* One lifecycle mutation at the grain of its file operations              *)
(* (internal/identity/transaction.go): journal, staging of a generated key *)
(* pair, publication, replacement of the lifecycle file, removal of the    *)
(* retired private key - and its recovery after a kill or a failed write   *)
(* at any of these points.  Mutations serialise on the home lock           *)
(* (EvidenceHome), so one invocation at a time is enough here.             *)
(*                                                                         *)
(* A file that is written in place can be left torn: the journal           *)
(* (writeNewFile) and the staged keys (writeNewProtectedFile, writePEM)    *)
(* are created under their final name and filled afterwards.  The          *)
(* lifecycle is replaced by a rename and never is.                         *)
(***************************************************************************)
EXTENDS Lifecycle

CONSTANTS
  Torn,               \* contents of a file whose write was cut short
  MaxRecords,         \* bound on lifecycle records
  MaxKeys,            \* bound on operational keys ever generated
  MaxInterruptions    \* bound on kills and failed writes

ASSUME TornIsNoKey    == Torn # None /\ Torn \notin Int
ASSUME NaturalBounds  == /\ MaxRecords \in Nat \ {0}
                         /\ MaxKeys \in Nat \ {0}
                         /\ MaxInterruptions \in Nat

VARIABLES
  authority,          \* the lifecycle file, as the authority it derives
  tx,                 \* transaction journal: None, Torn or a record
  dir,                \* epoch directories: None or the contents of four files
  pc,                 \* where the running mutation or recovery is
  proposal,           \* the transaction it holds in memory
  generated,          \* operational keys generated so far
  interruptions

vars == <<authority, tx, dir, pc, proposal, generated, interruptions>>

Epochs   == 1 .. MaxRecords
Contents == 1 .. MaxKeys \cup {None, Torn}

(* What a journal and an epoch directory can hold. *)
Transactions ==
  [record : [seq : Nat, action : Actions, epoch : Epochs, key : 1 .. MaxKeys,
             boundary : {EmptyBoundary}, anchor : {None}],
   retires : Epochs]
Directories ==
  [private : Contents, public : Contents, pendingPrivate : Contents, pendingPublic : Contents]

ASSUME MarksAreNoData == None \notin Transactions \cup Directories /\ Torn \notin Transactions

Absent         == None
EmptyDirectory == [private |-> None, public |-> None,
                   pendingPrivate |-> None, pendingPublic |-> None]
PublishedPair(key) == [EmptyDirectory EXCEPT !.private = key, !.public = key]

(* keys.LoadExisting and ValidateKeyID: both halves parse and match. *)
LoadsPair(directory, key) ==
  directory # Absent /\ directory.private = key /\ directory.public = key

LoadableKeys ==
  {key \in 1 .. generated : \E e \in DOMAIN authority.epochs :
     authority.epochs[e].key = key /\ LoadsPair(dir[e], key)}

HasNewKey  == GeneratesKey(tx.record.action)
NewEpochOf == tx.record.epoch
Applied    == LastRecord(authority) = tx.record

Go(from, to) == pc = from /\ pc' = to

----------------------------------------------------------------------------
(* ApplyMutation up to the durable journal *)

(* No interrupted mutation, the keys the action needs are loaded, the       *)
(* record is signed and the transition derived once before it is journaled. *)
Begin(action) ==
  /\ Go("idle", "signed")
  /\ tx = None
  /\ Len(authority.records) < MaxRecords
  /\ MayPropose(authority, action, LoadableKeys)
  /\ GeneratesKey(action) => generated < MaxKeys
  /\ LET record == NewRecord(authority, action, generated + 1, EmptyBoundary, None) IN
       /\ Accepts(authority, record)
       /\ proposal' = [record |-> record, retires |-> LatestEpoch(authority)]
  /\ generated' = IF GeneratesKey(action) THEN generated + 1 ELSE generated
  /\ UNCHANGED <<authority, tx, dir, interruptions>>

WriteJournal ==
  /\ Go("signed", IF GeneratesKey(proposal.record.action) THEN "journaled" ELSE "recovering")
  /\ tx' = proposal
  /\ UNCHANGED <<authority, dir, proposal, generated, interruptions>>

----------------------------------------------------------------------------
(* writePendingPair *)

MakeDirectory ==
  /\ Go("journaled", "directoryMade")
  /\ dir[NewEpochOf] = Absent
  /\ dir' = [dir EXCEPT ![NewEpochOf] = EmptyDirectory]
  /\ UNCHANGED <<authority, tx, proposal, generated, interruptions>>

StagePrivate ==
  /\ Go("directoryMade", "privateStaged")
  /\ dir' = [dir EXCEPT ![NewEpochOf].pendingPrivate = tx.record.key]
  /\ UNCHANGED <<authority, tx, proposal, generated, interruptions>>

StagePublic ==
  /\ Go("privateStaged", "recovering")
  /\ dir' = [dir EXCEPT ![NewEpochOf].pendingPublic = tx.record.key]
  /\ UNCHANGED <<authority, tx, proposal, generated, interruptions>>

(* The directory is left over from an earlier attempt: the mutation fails.  *)
FindDirectory ==
  /\ Go("journaled", "failed")
  /\ dir[NewEpochOf] # Absent
  /\ UNCHANGED <<authority, tx, dir, proposal, generated, interruptions>>

----------------------------------------------------------------------------
(* RecoverPendingMutation: the second half of every mutation, and the       *)
(* recovery commands.  An unreadable journal is an error that changes       *)
(* nothing.                                                                 *)

Recover ==
  /\ Go("idle", "recovering")
  /\ tx \notin {None, Torn}
  /\ UNCHANGED <<authority, tx, dir, proposal, generated, interruptions>>

(* completePendingOrFinalPair looks at existence only. *)
PairExists(directory) ==
  /\ directory # Absent
  /\ directory.pendingPrivate # None \/ directory.private # None
  /\ directory.pendingPublic # None \/ directory.public # None

MustRollBack == HasNewKey /\ ~Applied /\ ~PairExists(dir[NewEpochOf])

(* Mutant: a roll-back leaves the staged private key behind. *)
RollBackNothing ==
  /\ Go("recovering", "rolledBack")
  /\ MustRollBack
  /\ UNCHANGED <<authority, tx, dir, proposal, generated, interruptions>>

RollBackDirectory ==
  /\ Go("recovering", "rolledBack")
  /\ MustRollBack
  /\ dir' = [dir EXCEPT ![NewEpochOf] = Absent]
  /\ UNCHANGED <<authority, tx, proposal, generated, interruptions>>

RollBackJournal ==
  /\ Go("rolledBack", "idle")
  /\ tx' = None
  /\ UNCHANGED <<authority, dir, proposal, generated, interruptions>>

SkipPublication ==
  /\ Go("recovering", "published")
  /\ ~HasNewKey
  /\ UNCHANGED <<authority, tx, dir, proposal, generated, interruptions>>

(* publishPendingPair: a staged file is renamed unless the final one is     *)
(* already there; a final file is never overwritten.                        *)
PrivatePublished(directory) ==
  IF directory.private # None THEN directory
  ELSE [directory EXCEPT !.private = directory.pendingPrivate, !.pendingPrivate = None]

PublicPublished(directory) ==
  IF directory.public # None THEN directory
  ELSE [directory EXCEPT !.public = directory.pendingPublic, !.pendingPublic = None]

(* Mutant: publication cannot be repeated over a published private key. *)
PublishPrivateOnce ==
  /\ Go("recovering", "privatePublished")
  /\ HasNewKey
  /\ ~MustRollBack
  /\ dir[NewEpochOf].private = None
  /\ dir' = [dir EXCEPT ![NewEpochOf] = PrivatePublished(@)]
  /\ UNCHANGED <<authority, tx, proposal, generated, interruptions>>

PublishPrivate ==
  /\ Go("recovering", "privatePublished")
  /\ HasNewKey
  /\ ~MustRollBack
  /\ dir' = [dir EXCEPT ![NewEpochOf] = PrivatePublished(@)]
  /\ UNCHANGED <<authority, tx, proposal, generated, interruptions>>

PublishPublic ==
  /\ Go("privatePublished", "publicPublished")
  /\ dir' = [dir EXCEPT ![NewEpochOf] = PublicPublished(@)]
  /\ UNCHANGED <<authority, tx, proposal, generated, interruptions>>

(* Mutant: the published pair is not loaded back. *)
CheckPairUnread ==
  /\ Go("publicPublished", "published")
  /\ dir' = [dir EXCEPT ![NewEpochOf].pendingPrivate = None, ![NewEpochOf].pendingPublic = None]
  /\ UNCHANGED <<authority, tx, proposal, generated, interruptions>>

(* The published pair is loaded before the lifecycle may name it; only then *)
(* are the staged names removed.                                            *)
CheckPair ==
  /\ Go("publicPublished", "published")
  /\ LoadsPair(dir[NewEpochOf], tx.record.key)
  /\ dir' = [dir EXCEPT ![NewEpochOf] = PublishedPair(tx.record.key)]
  /\ UNCHANGED <<authority, tx, proposal, generated, interruptions>>

RejectPair ==
  /\ Go("publicPublished", "idle")
  /\ ~LoadsPair(dir[NewEpochOf], tx.record.key)
  /\ UNCHANGED <<authority, tx, dir, proposal, generated, interruptions>>

(* Mutant: recovery does not see that the record was applied already. *)
ReplaceLifecycleAgain ==
  /\ Go("published", "applied")
  /\ authority' = Apply(authority, tx.record)
  /\ UNCHANGED <<tx, dir, proposal, generated, interruptions>>

ReplaceLifecycle ==
  /\ Go("published", "applied")
  /\ authority' = IF Applied THEN authority ELSE Apply(authority, tx.record)
  /\ UNCHANGED <<tx, dir, proposal, generated, interruptions>>

RemoveRetired ==
  /\ Go("applied", "retired")
  /\ dir' = IF RetiresKey(tx.record.action)
            THEN [dir EXCEPT ![tx.retires].private = None] ELSE dir
  /\ UNCHANGED <<authority, tx, proposal, generated, interruptions>>

ClearJournal ==
  /\ Go("retired", "idle")
  /\ tx' = None
  /\ UNCHANGED <<authority, dir, proposal, generated, interruptions>>

----------------------------------------------------------------------------
(* Interruptions *)

Interrupted == interruptions < MaxInterruptions /\ interruptions' = interruptions + 1

(* The process is killed between two file operations. *)
Kill ==
  /\ Interrupted
  /\ pc # "idle"
  /\ pc' = "idle"
  /\ UNCHANGED <<authority, tx, dir, proposal, generated>>

(* The process is lost inside a write of a file created in place. *)
TearJournal ==
  /\ Interrupted
  /\ Go("signed", "idle")
  /\ tx' = Torn
  /\ UNCHANGED <<authority, dir, proposal, generated>>

TearPrivate ==
  /\ Interrupted
  /\ Go("directoryMade", "idle")
  /\ dir' = [dir EXCEPT ![NewEpochOf].pendingPrivate = Torn]
  /\ UNCHANGED <<authority, tx, proposal, generated>>

TearPublic ==
  /\ Interrupted
  /\ Go("privateStaged", "idle")
  /\ dir' = [dir EXCEPT ![NewEpochOf].pendingPublic = Torn]
  /\ UNCHANGED <<authority, tx, proposal, generated>>

(* A file operation of writePendingPair fails.  A failed write takes the    *)
(* directory with it, a directory that cannot be protected stays behind.    *)
FailStaging ==
  /\ Interrupted
  /\ \/ Go("directoryMade", "failed") /\ UNCHANGED dir
     \/ /\ Go("directoryMade", "failed") \/ Go("privateStaged", "failed")
        /\ dir' = [dir EXCEPT ![NewEpochOf] = Absent]
  /\ UNCHANGED <<authority, tx, proposal, generated>>

(* ApplyMutation after a failed staging: first the journal goes, then the   *)
(* directory of the epoch that will not be.                                 *)
DropJournal ==
  /\ Go("failed", "journalDropped")
  /\ tx' = None
  /\ UNCHANGED <<authority, dir, proposal, generated, interruptions>>

DropDirectory ==
  /\ Go("journalDropped", "idle")
  /\ dir' = [dir EXCEPT ![proposal.record.epoch] = Absent]
  /\ UNCHANGED <<authority, tx, proposal, generated, interruptions>>

----------------------------------------------------------------------------
Init ==
  /\ authority = Genesis(1)
  /\ tx = None
  /\ dir = [e \in Epochs |-> IF e = 1 THEN PublishedPair(1) ELSE Absent]
  /\ pc = "idle"
  /\ proposal = None
  /\ generated = 1
  /\ interruptions = 0

(* What a running invocation does by itself. *)
Step ==
  \/ WriteJournal \/ MakeDirectory \/ StagePrivate \/ StagePublic
  \/ FindDirectory \/ DropJournal \/ DropDirectory
  \/ RollBackDirectory \/ RollBackJournal
  \/ SkipPublication \/ PublishPrivate \/ PublishPublic \/ CheckPair \/ RejectPair
  \/ ReplaceLifecycle \/ RemoveRetired \/ ClearJournal

Next ==
  \/ \E action \in Actions : Begin(action)
  \/ Step
  \/ Recover
  \/ Kill \/ TearJournal \/ TearPrivate \/ TearPublic \/ FailStaging

Spec == Init /\ [][Next]_vars

(* A running invocation goes on unless it is interrupted, and the operator  *)
(* runs the recovery command the error names.                               *)
FairSpec == Spec /\ WF_vars(Step) /\ WF_vars(Recover)

----------------------------------------------------------------------------
(* Properties *)

TypeOK ==
  /\ tx \in Transactions \cup {None, Torn}
  /\ proposal \in Transactions \cup {None}
  /\ dir \in [Epochs -> Directories \cup {Absent}]
  /\ generated \in 1 .. MaxKeys
  /\ interruptions \in 0 .. MaxInterruptions
  /\ Len(authority.epochs) \in Epochs

Live(e) == authority.epochs[e].status \in {"ACTIVE", "SUSPENDED"}

(* No interruption ever costs the home a key it still needs: an epoch that *)
(* may sign, or may be resumed, has its pair in place and intact before    *)
(* the lifecycle names it and until the lifecycle closes it.               *)
LiveKeysLoad ==
  \A e \in DOMAIN authority.epochs :
    Live(e) => LoadsPair(dir[e], authority.epochs[e].key)

(* A home without a journal has no secret it should not have: the private  *)
(* keys of closed epochs are gone and no key of an abandoned mutation is   *)
(* left in any directory.                                                  *)
SettledHomeIsClean ==
  tx = None =>
    \A e \in Epochs : dir[e] # Absent =>
      /\ dir[e].pendingPrivate = None /\ dir[e].pendingPublic = None
      /\ dir[e].private # None => e \in DOMAIN authority.epochs /\ Live(e)

(* The signed record is published whole or not at all, and never twice,    *)
(* however often it is interrupted and recovered.                          *)
Authority ==
  INSTANCE SigningAuthority WITH
    log <- <<>>, Requests <- {}, Ids <- {}, Keys <- 1 .. MaxKeys, GenesisKey <- 1, MaxLog <- 0
ImplementsAuthority == Authority!Spec

(* A mutation whose journal and staged public key were not torn is         *)
(* completed or rolled back by recovery.                                   *)
NotTorn(e) == dir[e] # Absent => Torn \notin {dir[e].pendingPublic, dir[e].public}

DurableMutationSettles ==
  /\ pc = "idle"
  /\ tx \notin {None, Torn}
  /\ \A e \in Epochs : NotTorn(e)
  ~> tx = None
=============================================================================
