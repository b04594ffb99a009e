------------------------------ MODULE ExportProofs -----------------------------
(***************************************************************************)
(* Bundles, from the export on.  What an export publishes is whole,        *)
(* nothing is replaced, and what it has told its user stays true: for any  *)
(* number of exports to one destination, killed anywhere, and any number   *)
(* of power losses (ExportPublish).  And whatever is done to a published   *)
(* archive afterwards, its verdict is earned (BundleArchive).              *)
(***************************************************************************)
EXTENDS ExportPublish, BundleArchive, TLAPS

----------------------------------------------------------------------------
(* Publication *)

(* From its link on, until the machine stops, the destination is the        *)
(* export's own; from its sync on it is that on disk as well.  Only an      *)
(* export that got that far is ever published, and its contents were on     *)
(* disk before it linked.                                                  *)
Linked == {"sync", "remove", "resync"}

ContentInv ==
  /\ \A p \in Procs : pc[p] \in {"verify", "link"} \cup Linked => p \in flushed
  /\ dest \in Procs => dest \in flushed
  /\ destOnDisk \in Procs => destOnDisk \in flushed

PlaceInv ==
  /\ destOnDisk \in {None, dest}
  /\ \A p \in Procs :
       /\ pc[p] \in Linked => dest = p
       /\ pc[p] \in {"remove", "resync"} => destOnDisk = p
       /\ pc[p] = "resync" => p \notin temp
       /\ dest = p => pc[p] \in Linked \cup {"ended"} /\ told[p] \in {None, "reached", "written"}

IInv == TypeOK /\ ContentInv /\ PlaceInv /\ ReportStands

LEMMA InitInv == Init => IInv
BY NamesApart DEF Init, IInv, TypeOK, ContentInv, PlaceInv, ReportStands, Linked, Verdicts

(* Whoever syncs the directory makes durable what it names now. *)
LEMMA ExportStep ==
  ASSUME IInv, NEW p \in Procs, Export(p)
  PROVE  IInv'
<1> USE NamesApart DEF IInv, At, Go, Tell, Leave, Linked, Verdicts
<1>1. CASE CheckDestination(p)
  <2>1. TypeOK'
    BY <1>1 DEF CheckDestination, TypeOK
  <2>2. ContentInv' /\ PlaceInv'
    BY <1>1 DEF CheckDestination, TypeOK, ContentInv, PlaceInv
  <2>3. ReportStands'
    BY <1>1 DEF CheckDestination, TypeOK, PlaceInv, ReportStands
  <2> QED BY <2>1, <2>2, <2>3
<1>2. CASE CreateTemp(p)
  <2>1. TypeOK'
    BY <1>2 DEF CreateTemp, TypeOK
  <2>2. ContentInv' /\ PlaceInv'
    BY <1>2 DEF CreateTemp, TypeOK, ContentInv, PlaceInv
  <2>3. ReportStands'
    BY <1>2 DEF CreateTemp, TypeOK, PlaceInv, ReportStands
  <2> QED BY <2>1, <2>2, <2>3
<1>3. CASE Write(p)
  <2>1. TypeOK'
    BY <1>3 DEF Write, TypeOK
  <2>2. ContentInv' /\ PlaceInv'
    BY <1>3 DEF Write, TypeOK, ContentInv, PlaceInv
  <2>3. ReportStands'
    BY <1>3 DEF Write, TypeOK, PlaceInv, ReportStands
  <2> QED BY <2>1, <2>2, <2>3
<1>4. CASE VerifyTemp(p)
  <2>1. TypeOK'
    BY <1>4 DEF VerifyTemp, TypeOK
  <2>2. ContentInv' /\ PlaceInv'
    BY <1>4 DEF VerifyTemp, TypeOK, ContentInv, PlaceInv
  <2>3. ReportStands'
    BY <1>4 DEF VerifyTemp, TypeOK, PlaceInv, ReportStands
  <2> QED BY <2>1, <2>2, <2>3
<1>5. CASE Link(p)
  <2>1. TypeOK'
    BY <1>5 DEF Link, TypeOK
  <2>2. ContentInv'
    BY <1>5 DEF Link, TypeOK, ContentInv
  <2>3. PlaceInv'
    <3>1. CASE dest = None
      BY <1>5, <3>1 DEF Link, TypeOK, PlaceInv
    <3>2. CASE dest # None
      BY <1>5, <3>2 DEF Link, TypeOK, PlaceInv
    <3> QED BY <3>1, <3>2
  <2>4. ReportStands'
    BY <1>5 DEF Link, TypeOK, PlaceInv, ReportStands
  <2> QED BY <2>1, <2>2, <2>3, <2>4
<1>6. CASE Sync(p)
  <2>1. TypeOK'
    BY <1>6 DEF Sync, SyncDirectory, TypeOK
  <2>2. ContentInv' /\ PlaceInv'
    BY <1>6 DEF Sync, SyncDirectory, TypeOK, ContentInv, PlaceInv
  <2>3. ReportStands'
    BY <1>6 DEF Sync, SyncDirectory, TypeOK, PlaceInv, ReportStands
  <2> QED BY <2>1, <2>2, <2>3
<1>7. CASE RemoveTemp(p)
  <2>1. TypeOK'
    BY <1>7 DEF RemoveTemp, TypeOK
  <2>2. ContentInv' /\ PlaceInv'
    BY <1>7 DEF RemoveTemp, TypeOK, ContentInv, PlaceInv
  <2>3. ReportStands'
    BY <1>7 DEF RemoveTemp, TypeOK, PlaceInv, ReportStands
  <2> QED BY <2>1, <2>2, <2>3
<1>8. CASE Resync(p)
  <2>1. TypeOK'
    BY <1>8 DEF Resync, SyncDirectory, TypeOK
  <2>2. ContentInv' /\ PlaceInv'
    BY <1>8 DEF Resync, SyncDirectory, TypeOK, ContentInv, PlaceInv
  <2>3. ReportStands'
    BY <1>8 DEF Resync, SyncDirectory, TypeOK, PlaceInv, ReportStands
  <2> QED BY <2>1, <2>2, <2>3
<1> QED BY <1>1, <1>2, <1>3, <1>4, <1>5, <1>6, <1>7, <1>8 DEF Export

LEMMA SurroundingsStep ==
  ASSUME IInv, UserCreates \/ \E p \in Procs : Kill(p)
  PROVE  IInv'
<1> USE NamesApart DEF IInv, Go, Linked, Verdicts
<1>1. CASE UserCreates
  BY <1>1 DEF UserCreates, TypeOK, ContentInv, PlaceInv, ReportStands
<1>2. CASE \E p \in Procs : Kill(p)
  <2> PICK p \in Procs : Kill(p)
    BY <1>2
  <2>1. TypeOK'
    BY DEF Kill, TypeOK
  <2>2. ContentInv' /\ PlaceInv' /\ ReportStands'
    BY DEF Kill, TypeOK, ContentInv, PlaceInv, ReportStands
  <2> QED BY <2>1, <2>2
<1> QED BY <1>1, <1>2

(* A power loss loses what was not synced, and only that. *)
LEMMA PowerLossStep ==
  ASSUME IInv, PowerLoss
  PROVE  IInv'
<1> USE NamesApart DEF IInv, Linked, Verdicts
<1>1. TypeOK'
  BY DEF PowerLoss, TypeOK, PlaceInv
<1>2. ContentInv'
  BY DEF PowerLoss, TypeOK, ContentInv, PlaceInv
<1>3. PlaceInv'
  BY DEF PowerLoss, TypeOK, PlaceInv
<1>4. ReportStands'
  BY DEF PowerLoss, TypeOK, PlaceInv, ReportStands
<1> QED BY <1>1, <1>2, <1>3, <1>4

LEMMA StepInv == IInv /\ [Next]_vars => IInv'
<1> SUFFICES ASSUME IInv, [Next]_vars PROVE IInv'
  OBVIOUS
<1>1. CASE UNCHANGED vars
  BY <1>1 DEF vars, IInv, TypeOK, ContentInv, PlaceInv, ReportStands
<1>2. CASE Next
  BY <1>2, ExportStep, SurroundingsStep, PowerLossStep DEF Next
<1> QED BY <1>1, <1>2

(* What IInv says holds in every reachable state. *)
THEOREM Invariance == Spec => []IInv
<1> QED BY InitInv, StepInv, PTL DEF Spec

(* Every reachable state is well typed; only an export that has ended has   *)
(* told its user anything.                                                  *)
THEOREM TypeCorrect == Spec => []TypeOK
<1>1. IInv => TypeOK
  BY DEF IInv
<1> QED BY <1>1, Invariance, PTL

(* What the destination names is a whole bundle, and on disk a bundle whose *)
(* contents are on disk, also after a power loss (writeTarGzAtomic).        *)
THEOREM PublishedIsWhole == Spec => []DestinationIsWhole
<1>1. IInv => DestinationIsWhole
  BY DEF IInv, TypeOK, ContentInv, DestinationIsWhole
<1> QED BY <1>1, Invariance, PTL

(* What an export has told its user stays true (publishNoReplace).          *)
THEOREM ReportsStand == Spec => []ReportStands
<1>1. IInv => ReportStands
  BY DEF IInv
<1> QED BY <1>1, Invariance, PTL

(* An existing destination is never replaced; a power loss alone takes a    *)
(* name away, one that no sync had reached.                                 *)
THEOREM ExistingIsNeverReplaced == Spec => NeverReplaced
<1>1. IInv /\ [Next]_vars => [dest # None /\ dest' # dest => dest # destOnDisk /\ dest' = destOnDisk]_vars
  BY DEF Next, Export, CheckDestination, CreateTemp, Write, VerifyTemp, Link, Sync, RemoveTemp,
         Resync, SyncDirectory, UserCreates, Kill, PowerLoss
<1> QED BY <1>1, Invariance, PTL DEF Spec, NeverReplaced

----------------------------------------------------------------------------
(* Bundles after their export *)

(* Receipts and receipt seal are always some export's; the bundle seal is,  *)
(* until somebody seals again.                                              *)
FromExport(a, m) == m \in DOMAIN a => \E e \in Exports : a[m] = e[m]

(* Archives are functions of their members and of nothing else. *)
IsArchive(a) == a = [m \in DOMAIN a |-> a[m]]

ArchiveInv ==
  /\ IsArchive(archive)
  /\ FromExport(archive, "receipts.ndjson")
  /\ FromExport(archive, "seals.json")
  /\ ~resealed => FromExport(archive, "BUNDLE_SEAL.json")

LEMMA ExportShape ==
  ASSUME NEW e \in Exports
  PROVE  \E key \in Keys, n \in 1 .. MaxReceipts : \E policies \in [1 .. n -> Policies], old \in 0 .. n :
           e = Build(key, Ledger(key, policies, old))
<1>1. PICK key \in Keys, policies \in UNION {[1 .. n -> Policies] : n \in 1 .. MaxReceipts} :
        \E old \in 0 .. Len(policies) : e = Build(key, Ledger(key, policies, old))
  BY DEF Exports
<1>2. PICK n \in 1 .. MaxReceipts : policies \in [1 .. n -> Policies]
  OBVIOUS
<1>3. Len(policies) = n
  <2>1. n \in Nat
    BY BoundsAreNatural
  <2> QED BY <1>2, <2>1
<1> QED BY <1>1, <1>2, <1>3

LEMMA IsExport ==
  ASSUME NEW key \in Keys, NEW n \in 1 .. MaxReceipts, NEW policies \in [1 .. n -> Policies],
         NEW old \in 0 .. n
  PROVE  Build(key, Ledger(key, policies, old)) \in Exports
<1> DEFINE lists == UNION {[1 .. k -> Policies] : k \in 1 .. MaxReceipts}
<1>1. n \in Nat /\ Len(policies) = n
  BY BoundsAreNatural
<1>2. policies \in lists /\ old \in 0 .. Len(policies)
  BY <1>1
<1> DEFINE of(k, ps) == {Build(k, Ledger(k, ps, o)) : o \in 0 .. Len(ps)}
<1>3. Exports = UNION {of(k, ps) : k \in Keys, ps \in lists}
  BY DEF Exports
<1>4. Build(key, Ledger(key, policies, old)) \in of(key, policies)
  BY <1>2
<1> HIDE DEF lists, of
<1>5. of(key, policies) \in {of(k, ps) : k \in Keys, ps \in lists}
  BY <1>2
<1> QED BY <1>3, <1>4, <1>5

(* The members of an export, and the seal over all the others. *)
SealedBy(e, key, receipts) ==
  /\ e["receipts.ndjson"] = receipts
  /\ e["seals.json"] = <<ReceiptSeal(key, receipts)>>
  /\ "BUNDLE_SEAL.json" \in DOMAIN e
  /\ e["BUNDLE_SEAL.json"].by = key /\ e["BUNDLE_SEAL.json"].claim = Full(key)
  /\ e["BUNDLE_SEAL.json"].root = Restrict(e, DOMAIN e \ {"BUNDLE_SEAL.json"})
  /\ IsArchive(e)

LEMMA BuildShape ==
  ASSUME NEW key, NEW receipts
  PROVE  SealedBy(Build(key, receipts), key, receipts)
<1> DEFINE members == Contents(key, receipts)
           listed  == With(members, "MANIFEST.json", Manifest(Version(receipts), members))
           e       == Build(key, receipts)
<1>1. /\ DOMAIN members = {"receipts.ndjson", "petitions.ndjson", "revocations.json",
                           "trust_roots.json", "seals.json"}
      /\ members["receipts.ndjson"] = receipts
      /\ members["seals.json"] = <<ReceiptSeal(key, receipts)>>
  BY DEF Contents
<1> HIDE DEF members
<1>2. /\ DOMAIN listed = DOMAIN members \cup {"MANIFEST.json"}
      /\ listed["receipts.ndjson"] = receipts
      /\ listed["seals.json"] = <<ReceiptSeal(key, receipts)>>
      /\ listed = [m \in DOMAIN listed |-> listed[m]]
  BY <1>1 DEF With
<1>3. e = With(listed, "BUNDLE_SEAL.json", BundleSeal(key, listed))
  BY DEF Build, members
<1> HIDE DEF listed, e
<1>4. /\ DOMAIN e = DOMAIN listed \cup {"BUNDLE_SEAL.json"}
      /\ e["BUNDLE_SEAL.json"] = BundleSeal(key, listed)
      /\ \A m \in DOMAIN listed : m # "BUNDLE_SEAL.json" => e[m] = listed[m]
      /\ e = [m \in DOMAIN e |-> e[m]]
  BY <1>3 DEF With
<1>5. "BUNDLE_SEAL.json" \notin DOMAIN listed
  BY <1>1, <1>2
<1>6. listed = Restrict(e, DOMAIN e \ {"BUNDLE_SEAL.json"})
  <2>1. DOMAIN e \ {"BUNDLE_SEAL.json"} = DOMAIN listed
    BY <1>4, <1>5
  <2>2. \A m \in DOMAIN listed : e[m] = listed[m]
    BY <1>4, <1>5
  <2>3. Restrict(e, DOMAIN listed) = [m \in DOMAIN listed |-> listed[m]]
    BY <2>2 DEF Restrict
  <2> QED BY <1>2, <2>1, <2>3
<1>7. e["receipts.ndjson"] = receipts /\ e["seals.json"] = <<ReceiptSeal(key, receipts)>>
  BY <1>1, <1>2, <1>4
<1> QED BY <1>4, <1>6, <1>7 DEF BundleSeal, SealedBy, IsArchive, e

LEMMA ExportSealed ==
  ASSUME NEW e \in Exports
  PROVE  \E key \in Keys, n \in 1 .. MaxReceipts :
           \E policies \in [1 .. n -> Policies], old \in 0 .. n :
             SealedBy(e, key, Ledger(key, policies, old))
BY ExportShape, BuildShape

(* What a verifier can find in the members of an export. *)
LEMMA ExportMembers ==
  ASSUME NEW e \in Exports
  PROVE  \E key \in Keys, n \in 1 .. MaxReceipts :
           \E policies \in [1 .. n -> Policies], old \in 0 .. n :
             /\ e["receipts.ndjson"] = Ledger(key, policies, old)
             /\ e["seals.json"] = <<ReceiptSeal(key, Ledger(key, policies, old))>>
<1>1. PICK key \in Keys, n \in 1 .. MaxReceipts :
        \E policies \in [1 .. n -> Policies], old \in 0 .. n :
          SealedBy(e, key, Ledger(key, policies, old))
  BY ExportSealed
<1> QED BY <1>1 DEF SealedBy

(* A ledger is told by its receipt ids: they name its key, its policies and *)
(* how many of its receipts are old.                                        *)
LEMMA LedgerByIds ==
  ASSUME NEW key \in Keys, NEW n \in 1 .. MaxReceipts, NEW m \in 1 .. MaxReceipts,
         NEW p \in [1 .. n -> Policies], NEW q \in [1 .. m -> Policies],
         NEW i \in 0 .. n, NEW j \in 0 .. m,
         Ids(Ledger(key, p, i)) = Ids(Ledger(key, q, j))
  PROVE  Ledger(key, p, i) = Ledger(key, q, j)
<1>1. n \in Nat /\ m \in Nat /\ n > 0 /\ m > 0 /\ i \in Nat /\ j \in Nat
  BY BoundsAreNatural
<1>2. /\ DOMAIN Ids(Ledger(key, p, i)) = 1 .. n /\ DOMAIN Ids(Ledger(key, q, j)) = 1 .. m
      /\ Ids(Ledger(key, p, i))[n] = Id(key, p, i, n)
      /\ n = m => Ids(Ledger(key, q, j))[n] = Id(key, q, j, n)
  BY <1>1 DEF Ids, Ledger
<1>3. n = m
  BY <1>1, <1>2
<1>4. Id(key, p, i, n) = Id(key, q, j, n)
  BY <1>2, <1>3
<1>5. p = q
  <2>1. SubSeq(p, 1, n) = SubSeq(q, 1, n)
    BY <1>4 DEF Id
  <2>2. p \in Seq(Policies) /\ q \in Seq(Policies) /\ Len(p) = n /\ Len(q) = n
    BY <1>1, <1>3
  <2>3. SubSeq(p, 1, n) = p /\ SubSeq(q, 1, n) = q
    BY <2>2
  <2> QED BY <2>1, <2>3
<1>6. i = j
  <2>1. {k \in 1 .. n : k <= i} = {k \in 1 .. n : k <= j}
    BY <1>4 DEF Id
  <2>2. i \in 0 .. n /\ j \in 0 .. n
    BY <1>3
  <2>3. CASE i < j
    <3>1. j \in {k \in 1 .. n : k <= j}
      BY <1>1, <2>2, <2>3
    <3>2. j \in {k \in 1 .. n : k <= i}
      BY <2>1, <3>1
    <3> QED BY <1>1, <2>3, <3>2
  <2>4. CASE j < i
    <3>1. i \in {k \in 1 .. n : k <= i}
      BY <1>1, <2>2, <2>4
    <3>2. i \in {k \in 1 .. n : k <= j}
      BY <2>1, <3>1
    <3> QED BY <1>1, <2>4, <3>2
  <2> QED BY <1>1, <2>3, <2>4
<1> QED BY <1>5, <1>6

----------------------------------------------------------------------------
(* Edits *)

LEMMA WithKeeps ==
  ASSUME NEW a, NEW m, FromExport(a, m), NEW name, NEW content,
         name = m => \E e \in Exports : content = e[m]
  PROVE  FromExport(With(a, name, content), m)
BY DEF FromExport, With

LEMMA RestrictKeeps ==
  ASSUME NEW a, NEW m, FromExport(a, m), NEW S, S \subseteq DOMAIN a
  PROVE  FromExport(Restrict(a, S), m)
BY DEF FromExport, Restrict

(* An edited archive is an archive. *)
LEMMA AnArchive ==
  ASSUME NEW a, NEW name, NEW content, NEW S
  PROVE  IsArchive(With(a, name, content)) /\ IsArchive(Restrict(a, S))
BY DEF IsArchive, With, Restrict

LEMMA HandOverInv == HandOver => ArchiveInv
<1> SUFFICES ASSUME HandOver PROVE ArchiveInv
  OBVIOUS
<1>1. archive \in Exports
  BY DEF HandOver
<1>2. IsArchive(archive)
  <2>1. PICK key, receipts : SealedBy(archive, key, receipts)
    BY <1>1, ExportSealed
  <2> QED BY <2>1 DEF SealedBy
<1> QED BY <1>1, <1>2 DEF ArchiveInv, FromExport

(* Sealing again leaves receipts and receipt seal as they are. *)
LEMMA ResealStep ==
  ASSUME ArchiveInv, NEW key, NEW version, NEW revoked, Reseal(key, version, revoked)
  PROVE  ArchiveInv'
<1> DEFINE revoking == With(archive, "revocations.json", revoked)
           left     == (DOMAIN archive \cup {"revocations.json"})
                         \ {"MANIFEST.json", "BUNDLE_SEAL.json"}
           members  == Restrict(revoking, left)
           listed   == With(members, "MANIFEST.json", Manifest(version, members))
<1>1. archive' = With(listed, "BUNDLE_SEAL.json", BundleSeal(key, listed)) /\ resealed' = TRUE
  BY DEF Reseal, Edited
<1>2. ASSUME NEW m \in {"receipts.ndjson", "seals.json"}
      PROVE  FromExport(archive', m)
  <2>1. FromExport(archive, m) /\ m \notin {"revocations.json", "MANIFEST.json", "BUNDLE_SEAL.json"}
    BY <1>2 DEF ArchiveInv
  <2>2. FromExport(revoking, m) /\ left \subseteq DOMAIN revoking
    <3>1. left \subseteq DOMAIN revoking
      BY DEF With
    <3> QED BY <2>1, <3>1, WithKeeps
  <2> HIDE DEF revoking, left
  <2>3. FromExport(members, m)
    BY <2>2, RestrictKeeps
  <2> HIDE DEF members
  <2>4. FromExport(listed, m)
    BY <2>1, <2>3, WithKeeps
  <2> HIDE DEF listed
  <2> QED BY <1>1, <2>1, <2>4, WithKeeps
<1> HIDE DEF listed
<1>3. IsArchive(archive')
  BY <1>1, AnArchive
<1> QED BY <1>1, <1>2, <1>3 DEF ArchiveInv, FromExport

LEMMA EditStep == ArchiveInv /\ [Edit]_bundle => ArchiveInv'
<1> SUFFICES ASSUME ArchiveInv, [Edit]_bundle PROVE ArchiveInv'
  OBVIOUS
<1>1. ASSUME NEW a, archive' = a, resealed' = resealed, IsArchive(a),
             \A m \in {"receipts.ndjson", "seals.json", "BUNDLE_SEAL.json"} :
               FromExport(archive, m) => FromExport(a, m)
      PROVE  ArchiveInv'
  BY <1>1 DEF ArchiveInv, FromExport
<1>2. ASSUME NEW name \in Names, NEW other \in Exports, Exchange(name, other)
      PROVE  ArchiveInv'
  <2>1. archive' = With(archive, name, other[name]) /\ resealed' = resealed
    BY <1>2 DEF Exchange, Edited
  <2>2. ASSUME NEW m, FromExport(archive, m)
        PROVE  FromExport(With(archive, name, other[name]), m)
    <3>1. name = m => \E e \in Exports : other[name] = e[m]
      OBVIOUS
    <3> QED BY ONLY <2>2, <3>1, WithKeeps
  <2> QED BY <2>1, <2>2, <1>1, AnArchive
<1>3. ASSUME NEW name \in Names, Drop(name)
      PROVE  ArchiveInv'
  BY <1>1, <1>3, RestrictKeeps, AnArchive DEF Drop, Edited
<1>4. CASE AddFile
  BY <1>1, <1>4, WithKeeps, AnArchive DEF AddFile, Edited
<1>5. ASSUME NEW key \in Keys, AddRoot(key)
      PROVE  ArchiveInv'
  BY <1>1, <1>5, WithKeeps, AnArchive DEF AddRoot, Edited
<1>6. CASE UNCHANGED bundle
  BY <1>6 DEF bundle, ArchiveInv, FromExport, IsArchive
<1> QED BY <1>2, <1>3, <1>4, <1>5, <1>6, ResealStep DEF Edit

----------------------------------------------------------------------------
(* What verifies *)

(* The seal of an export is over the rest of that export. *)
LEMMA UnsealedIsExport ==
  ASSUME ArchiveInv, ~resealed, Verifies(archive)
  PROVE  archive \in Exports
<1> DEFINE s == "BUNDLE_SEAL.json"
<1>1. /\ Member(archive, s) # Absent
      /\ archive[s].root = Restrict(archive, DOMAIN archive \ {s})
  BY DEF Verifies, SealHolds
<1>2. s \in DOMAIN archive
  BY <1>1 DEF Member
<1>3. PICK e \in Exports : archive[s] = e[s]
  BY <1>2 DEF ArchiveInv, FromExport
<1>4. /\ s \in DOMAIN e /\ e = [m \in DOMAIN e |-> e[m]]
      /\ e[s].root = Restrict(e, DOMAIN e \ {s})
  <2>1. PICK key, receipts : SealedBy(e, key, receipts)
    BY ExportSealed
  <2> QED BY <2>1 DEF SealedBy, IsArchive
<1>5. Restrict(archive, DOMAIN archive \ {s}) = Restrict(e, DOMAIN e \ {s})
  BY <1>1, <1>3, <1>4
<1>6. DOMAIN archive \ {s} = DOMAIN e \ {s}
  BY <1>5 DEF Restrict
<1>7. \A m \in DOMAIN archive \ {s} : archive[m] = e[m]
  BY <1>5, <1>6 DEF Restrict
<1>8. DOMAIN archive = DOMAIN e /\ \A m \in DOMAIN e : archive[m] = e[m]
  BY <1>2, <1>3, <1>4, <1>6, <1>7
<1> HIDE DEF s
<1>9. archive = e
  BY <1>4, <1>8 DEF ArchiveInv, IsArchive
<1> QED BY <1>9

(* The trust of a bundle that verifies gives every id the key of its name,  *)
(* and no id of a key that was revoked under any of its names.              *)
LEMMA TrustSays ==
  ASSUME NEW a, TrustLoads(a), NEW c \in DOMAIN Trust(a)
  PROVE  /\ Trust(a)[c] = c.key
         /\ \A id \in a["revocations.json"] : id.key # c.key
<1> DEFINE roots == a["trust_roots.json"]
           left  == DOMAIN roots \ Revoked(roots, a["revocations.json"])
<1>1. /\ \A id \in DOMAIN roots : id.key = roots[id]
      /\ a["revocations.json"] \subseteq DOMAIN roots
  BY DEF TrustLoads, NamesKey
<1>2. Trust(a) = Restrict(roots, left)
  BY DEF Trust
<1>3. c \in left /\ Trust(a)[c] = roots[c]
  BY <1>2 DEF Restrict
<1>4. ASSUME NEW id \in a["revocations.json"], id.key = c.key
      PROVE  FALSE
  BY <1>1, <1>3, <1>4 DEF Revoked
<1> QED BY <1>1, <1>3, <1>4

(* Every claim of a signer is in the trust, for the key that did sign. *)
LEMMA SignersSay ==
  ASSUME NEW a, Verifies(a), NEW key, Signers(a) = {Full(key)},
         NEW d, SignedUnder(Trust(a), d), d.claim \in SignerClaims(a)
  PROVE  d.by = key /\ d.claim \in DOMAIN Trust(a) /\ d.claim.key = key
<1>1. TrustLoads(a)
  BY DEF Verifies
<1>2. d.claim \in DOMAIN Trust(a) /\ Trust(a)[d.claim] = d.by
  BY DEF SignedUnder
<1>3. Full(Trust(a)[d.claim]) = Full(key)
  BY DEF Signers
<1>4. Trust(a)[d.claim] = key
  BY <1>3 DEF Full
<1> QED BY <1>1, <1>2, <1>4, TrustSays

LEMMA TrustedIsEarned ==
  ASSUME ArchiveInv, NEW key \in Keys,
         Verdict(archive, Full(key)) = "IDENTITY_TRUSTED"
  PROVE  /\ archive["BUNDLE_SEAL.json"].by = key
         /\ \E e \in Exports :
              /\ e["BUNDLE_SEAL.json"].by = key
              /\ e["receipts.ndjson"] = archive["receipts.ndjson"]
              /\ e["seals.json"] = archive["seals.json"]
         /\ \A id \in archive["revocations.json"] : id.key # key
<1> DEFINE seal     == archive["BUNDLE_SEAL.json"]
           receipts == archive["receipts.ndjson"]
           rseal    == archive["seals.json"][1]
<1>1. Verifies(archive) /\ Signers(archive) = {Full(key)}
  BY DEF Verdict
<1>2. seal.by = key /\ seal.claim \in DOMAIN Trust(archive) /\ seal.claim.key = key
  <2>1. SignedUnder(Trust(archive), seal)
    BY <1>1 DEF Verifies, SealHolds
  <2>2. seal.claim \in SignerClaims(archive)
    BY DEF SignerClaims
  <2> HIDE DEF seal
  <2> QED BY <1>1, <2>1, <2>2, SignersSay
<1>3. \A id \in archive["revocations.json"] : id.key # key
  <2>1. TrustLoads(archive)
    BY <1>1 DEF Verifies
  <2> QED BY <1>2, <2>1, TrustSays
<1>4. rseal.by = key /\ rseal.root = Ids(receipts)
  <2>1. SignedUnder(Trust(archive), rseal) /\ rseal.root = Ids(receipts)
    BY <1>1 DEF Verifies, ReceiptSealHolds
  <2>2. rseal.claim \in SignerClaims(archive)
    BY DEF SignerClaims
  <2> HIDE DEF rseal
  <2> QED BY <1>1, <2>1, <2>2, SignersSay
<1>5. {"receipts.ndjson", "seals.json"} \subseteq DOMAIN archive
  BY <1>1 DEF Verifies, ManifestMatches, Required
<1>6. PICK k1 \in Keys, n \in 1 .. MaxReceipts :
        \E p \in [1 .. n -> Policies], i \in 0 .. n : receipts = Ledger(k1, p, i)
  <2>1. PICK e \in Exports : receipts = e["receipts.ndjson"]
    BY <1>5 DEF ArchiveInv, FromExport
  <2> HIDE DEF receipts
  <2> QED BY <2>1, ExportMembers
<1>7. PICK p \in [1 .. n -> Policies], i \in 0 .. n : receipts = Ledger(k1, p, i)
  BY <1>6
<1>8. PICK k2 \in Keys, m \in 1 .. MaxReceipts :
        \E q \in [1 .. m -> Policies], j \in 0 .. m :
          archive["seals.json"] = <<ReceiptSeal(k2, Ledger(k2, q, j))>>
  <2>1. PICK e \in Exports : archive["seals.json"] = e["seals.json"]
    BY <1>5 DEF ArchiveInv, FromExport
  <2> QED BY <2>1, ExportMembers
<1>9. PICK q \in [1 .. m -> Policies], j \in 0 .. m :
        archive["seals.json"] = <<ReceiptSeal(k2, Ledger(k2, q, j))>>
  BY <1>8
<1>10. k1 = key
  <2>1. 1 \in DOMAIN receipts /\ receipts[1].by = k1 /\ receipts[1].claim = receipts[1].claim
    BY <1>7, BoundsAreNatural DEF Ledger
  <2>2. SignedUnder(Trust(archive), receipts[1])
    BY <1>1, <2>1 DEF Verifies, ChainHolds
  <2>3. receipts[1].claim \in SignerClaims(archive)
    BY <2>1 DEF SignerClaims
  <2> HIDE DEF receipts
  <2>4. receipts[1].by = key
    BY <1>1, <2>2, <2>3, SignersSay
  <2> QED BY <2>1, <2>4
<1>11. k2 = key /\ Ids(receipts) = Ids(Ledger(k2, q, j))
  <2>1. rseal = ReceiptSeal(k2, Ledger(k2, q, j))
    BY <1>9
  <2>2. ReceiptSeal(k2, Ledger(k2, q, j)).by = k2
        /\ ReceiptSeal(k2, Ledger(k2, q, j)).root = Ids(Ledger(k2, q, j))
    BY DEF ReceiptSeal
  <2> HIDE DEF rseal
  <2> QED BY <1>4, <2>1, <2>2
<1>12. receipts = Ledger(key, q, j)
  BY <1>7, <1>10, <1>11, LedgerByIds
<1> DEFINE ledger == Ledger(key, q, j)
           e      == Build(key, ledger)
<1>13. e \in Exports
  BY IsExport
<1> HIDE DEF e
<1>14. /\ e["BUNDLE_SEAL.json"].by = key
       /\ e["receipts.ndjson"] = ledger
       /\ e["seals.json"] = <<ReceiptSeal(key, ledger)>>
  BY BuildShape DEF SealedBy, e
<1>15. e["receipts.ndjson"] = receipts /\ e["seals.json"] = archive["seals.json"]
  BY <1>9, <1>11, <1>12, <1>14
<1> QED BY <1>2, <1>3, <1>13, <1>14, <1>15

(* The inductive invariant of an edited bundle: its receipts and its seals  *)
(* are some export's, possibly of different ones.                           *)
THEOREM BundleInvariance == BundleSpec => []ArchiveInv
<1>1. HandOver => ArchiveInv
  BY HandOverInv
<1>2. ArchiveInv /\ [Edit]_bundle => ArchiveInv'
  BY EditStep
<1> QED BY <1>1, <1>2, PTL DEF BundleSpec

(* Whatever members are exchanged, dropped and added, and whoever seals the *)
(* archive again, for any number of homes, receipts and edits: what         *)
(* verifies without being sealed again is one export unchanged, and what is *)
(* trusted for a key is a ledger of that key's home under its two seals,    *)
(* with no id of the key revoked (VerdictIsEarned).                         *)
THEOREM VerdictsAreEarned == BundleSpec => []VerdictIsEarned
<1>1. ArchiveInv => VerdictIsEarned
  <2> SUFFICES ASSUME ArchiveInv PROVE VerdictIsEarned
    OBVIOUS
  <2>1. ~resealed /\ Verdict(archive, Absent) # "NOT_VERIFIED" => archive \in Exports
    <3>1. Verdict(archive, Absent) # "NOT_VERIFIED" => Verifies(archive)
      BY DEF Verdict
    <3> QED BY <3>1, UnsealedIsExport
  <2> QED BY <2>1, TrustedIsEarned DEF VerdictIsEarned
<1> QED BY <1>1, BundleInvariance, PTL

===============================================================================
