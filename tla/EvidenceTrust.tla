----------------------------- MODULE EvidenceTrust -----------------------------
(***************************************************************************)
(* The trust verdict on an exported B+ bundle (internal/bundle/bplus.go    *)
(* and verify_bplus.go), against the artifacts its verifier retains: a     *)
(* lifecycle checkpoint and an evidence anchor (internal/identity/         *)
(* artifacts.go).  They may come from the home that made the bundle, from  *)
(* a copy of it that has gone its own way, and from any time.              *)
(*                                                                         *)
(* Abstractions.  One identity; the seal and manifest of a bundle make its *)
(* members one value (BundleArchive says how); petitions are left out.     *)
(* Digests are what they cover: a lifecycle's digest is its sequence of    *)
(* records, an anchor is its own.  A receipt id is a number that says      *)
(* which home signed at which position, an operational key one that says   *)
(* which home generated which epoch.                                       *)
(***************************************************************************)
EXTENDS Lifecycle, SequencesExt

CONSTANTS Original, Copied,     \* a home, and a copy made of it some day
          MaxReceipts,          \* bound on a home's ledger
          MaxLifecycle          \* bound on a lifecycle

ASSUME TrustBounds == MaxReceipts \in Nat /\ MaxLifecycle \in Nat \ {0}

VARIABLES
  line,       \* home, when there is one -> [log, authority]
  past        \* every [log, authority] a home has ever been at

trustVars == <<line, past>>

BothHomes    == {Original, Copied}
Log(h)       == line[h].log
Authority(h) == line[h].authority
Live(h)      == h \in DOMAIN line

----------------------------------------------------------------------------
(* Anchors *)

(* NewEvidenceAnchor: the ledger head, signed by the active epoch. *)
NewAnchor(authority, log) ==
  [lifecycle |-> authority.records,
   epoch     |-> authority.active,
   key       |-> ActiveKey(authority),
   boundary  |-> HeadBoundary(log)]

ValidAnchor(anchor, authority) ==
  /\ IsPrefix(anchor.lifecycle, authority.records)
  /\ anchor.epoch \in DOMAIN authority.epochs
  /\ authority.epochs[anchor.epoch].key = anchor.key

ExactInside(boundary, receipts) ==
  /\ boundary.seq + 1 \in DOMAIN receipts
  /\ receipts[boundary.seq + 1].id = boundary.id

Names(anchor, authority, receipts) ==
  ValidAnchor(anchor, authority) /\ ExactInside(anchor.boundary, receipts)

----------------------------------------------------------------------------
(* Bundles *)

Exportable(authority, log) == authority.active # 0 /\ log # <<>>

Build(authority, log) ==
  [receipts  |-> log,
   authority |-> authority,
   sealer    |-> ActiveKey(authority),
   anchor    |-> NewAnchor(authority, log)]

(* What the bundle says of itself (down to res.EvidenceAnchor =             *)
(* "EMBEDDED_ONLY"); every failure is INVALID.                             *)
Authentic(b) ==
  /\ ValidAnchor(b.anchor, b.authority)
  /\ b.sealer \in TrustedKeys(b.authority)
  /\ b.receipts # <<>>
  /\ VerifyBPlus(b.receipts, b.authority)
  /\ b.authority.active # 0 /\ b.sealer = ActiveKey(b.authority)
  /\ b.anchor.boundary = HeadBoundary(b.receipts)

----------------------------------------------------------------------------
(* The verdict, for a verifier that pins the identity, on bundle b with the *)
(* checkpoint c and the anchor it retains (None when it has none).  The     *)
(* other options only withhold trust: no pin or --require-current-status    *)
(* leaves the verdict indeterminate, an unmet minimum is NOT_TRUSTED.       *)

(* Mutant: boundaries outside the bundle count as mismatches too. *)
BoundariesAllInside(receipts, authority) == BoundariesExact(receipts, authority)

(* Mutant: the ids at the boundaries are not compared. *)
BoundariesUnchecked(receipts, authority) == TRUE

(* verifyCheckpointReceiptBoundaries: a boundary beyond the bundle's head   *)
(* says nothing about the bundle.                                          *)
BoundariesBind(receipts, authority) ==
  \A i \in DOMAIN authority.records :
    LET b == authority.records[i].boundary IN
    b.seq + 1 \in DOMAIN receipts => ExactInside(b, receipts)

(* selectCheckpoint: rollback and fork; then the receipts and the anchor.   *)
Distrusted(b, c, anchor) ==
  \/ ~IsPrefix(b.authority.records, c.records)
  \/ ~BoundariesBind(b.receipts, c)
  \/ ~InsideWindows(b.receipts, c)
  \/ anchor # None /\ ~Names(anchor, c, b.receipts)

SignedUnder(receipts, epoch) == {i \in DOMAIN receipts : receipts[i].key = epoch.key}

(* Mutant: a root-bound anchor covers its epoch however far it goes. *)
CoversEpochWhole(anchor, authority, e, receipts) ==
  /\ anchor # None
  /\ authority.epochs[e].anchor = anchor
  /\ anchor.epoch = e

CoversEpoch(anchor, authority, e, receipts) ==
  /\ anchor # None
  /\ authority.epochs[e].anchor = anchor
  /\ anchor.epoch = e
  /\ \A i \in SignedUnder(receipts, authority.epochs[e]) : receipts[i].seq <= anchor.boundary.seq

(* signingStatusForEvidence *)
Unsettled(receipts, authority, anchor) ==
  \E e \in DOMAIN authority.epochs :
    /\ SignedUnder(receipts, authority.epochs[e]) # {}
    /\ authority.epochs[e].status \in {"SUSPENDED", "REVOKED"}
    /\ ~CoversEpoch(anchor, authority, e, receipts)

(* Without a checkpoint from outside, the bundle's own takes its place and  *)
(* the answer stays open.                                                   *)
Verdict(b, checkpoint, anchor) ==
  LET c == IF checkpoint = None THEN b.authority ELSE checkpoint IN
  IF ~Authentic(b) THEN "INVALID"
  ELSE IF Distrusted(b, c, anchor) THEN "NOT_TRUSTED"
  ELSE IF checkpoint = None \/ Unsettled(b.receipts, c, anchor)
  THEN "TRUST_INDETERMINATE"
  ELSE "VERIFIED"

----------------------------------------------------------------------------
(* The homes *)

(* The name of the n-th receipt, or of the key of the n-th epoch, that home *)
(* h makes: the two homes never make the same.                             *)
Named(h, n) == 2 * n + (IF h = Original THEN 0 ELSE 1)

Receipt(h) ==
  [seq  |-> Len(Log(h)),
   id   |-> Named(h, Len(Log(h))),
   prev |-> HeadBoundary(Log(h)).id,
   key  |-> ActiveKey(Authority(h))]

Become(h, state) ==
  /\ line' = [g \in DOMAIN line \cup {h} |-> IF g = h THEN state ELSE line[g]]
  /\ past' = past \cup {state}

SignAt(h) ==
  /\ Live(h)
  /\ Authority(h).active # 0
  /\ Len(Log(h)) < MaxReceipts
  /\ Become(h, [log |-> Append(Log(h), Receipt(h)), authority |-> Authority(h)])

(* The anchors a mutation may be given: none, or one exported at some time  *)
(* that names an exact receipt of the home (loadKnownGoodAnchor).           *)
Known(h) ==
  {None} \cup
  {a \in {NewAnchor(x.authority, x.log) : x \in {y \in past : y.authority.active # 0}} :
     Names(a, Authority(h), Log(h))}

MutateAt(h, action) ==
  /\ Live(h)
  /\ Len(Authority(h).records) < MaxLifecycle
  /\ MayPropose(Authority(h), action, {Latest(Authority(h)).key})
  /\ \E anchor \in Known(h) :
     LET r == NewRecord(Authority(h), action, Named(h, LatestEpoch(Authority(h)) + 1),
                        HeadBoundary(Log(h)), anchor)
     IN /\ Accepts(Authority(h), r)
        /\ Become(h, [log |-> Log(h), authority |-> Apply(Authority(h), r)])

(* A file copy; both homes then hold the key. *)
CopyHome ==
  /\ ~Live(Copied)
  /\ Become(Copied, line[Original])

TrustInit ==
  LET first == [log |-> <<>>, authority |-> Genesis(Named(Original, 1))]
  IN /\ line = [h \in {Original} |-> first]
     /\ past = {first}

TrustNext ==
  \/ CopyHome
  \/ \E h \in BothHomes :
       SignAt(h) \/ \E action \in Actions : MutateAt(h, action)

TrustSpec == TrustInit /\ [][TrustNext]_trustVars

----------------------------------------------------------------------------
(* What can have left the homes: bundle and anchor of any moment that had   *)
(* something to export.  The checkpoint is of the original's last moment: an*)
(* earlier one was the last of an earlier state, and after the copy either  *)
(* home may play the original.                                             *)

Exported == {x \in past : Exportable(x.authority, x.log)}

BundleOf(x) == Build(x.authority, x.log)
AnchorOf(x) == IF x = None THEN None ELSE NewAnchor(x.authority, x.log)

Checkpoint == Authority(Original)

----------------------------------------------------------------------------
(* Properties *)

Receipts == [seq : Nat, id : Nat, prev : Nat \cup {None}, key : Nat]

(* Besides the shapes: whatever was signed, copied and mutated, a home with *)
(* an active epoch exports a bundle that passes its own verification.       *)
TrustTypeOK ==
  \A h \in BothHomes : Live(h) =>
    /\ line[h] \in past
    /\ Log(h) \in Seq(Receipts) /\ Len(Log(h)) <= MaxReceipts
    /\ Len(Authority(h).records) \in 1 .. MaxLifecycle
    /\ Exportable(Authority(h), Log(h)) =>
         Verdict(Build(Authority(h), Log(h)), None, None) = "TRUST_INDETERMINATE"

(* A verifier who retains a later checkpoint of the very line the bundle    *)
(* was exported from, and perhaps an anchor made before the export, never   *)
(* calls the evidence distrusted or invalid: at worst indeterminate,        *)
(* whatever happened to the identity since.                                 *)
HonestEvidenceStands ==
  \A y \in Exported, x \in Exported \cup {None} :
    (/\ IsPrefix(y.authority.records, Checkpoint.records)
     /\ IsPrefix(y.log, Log(Original))
     /\ x # None => /\ IsPrefix(x.log, y.log)
                    /\ IsPrefix(x.authority.records, y.authority.records))
    => Verdict(BundleOf(y), Checkpoint, AnchorOf(x)) \in {"VERIFIED", "TRUST_INDETERMINATE"}

(* What VERIFIED promises: with a checkpoint from any line, every receipt   *)
(* of the bundle up to a boundary that the checkpoint places inside it is   *)
(* literally the receipt of the checkpoint's own ledger, and no receipt     *)
(* lies beyond the boundary that ended its epoch.                           *)
VerifiedIsOnTheLine ==
  \A y \in Exported :
    Verdict(BundleOf(y), Checkpoint, None) = "VERIFIED" =>
      /\ \A i \in DOMAIN Checkpoint.records :
           LET n == Checkpoint.records[i].boundary.seq + 1 IN
           n \in DOMAIN y.log => \A j \in 1 .. n : y.log[j] = Log(Original)[j]
      /\ \A e \in DOMAIN Checkpoint.epochs :
           LET last == Checkpoint.epochs[e].windows[Len(Checkpoint.epochs[e].windows)] IN
           last.end # None =>
             \A i \in SignedUnder(y.log, Checkpoint.epochs[e]) : i <= last.end + 1

(* LIMITS.md:101-104: of an epoch the checkpoint reports suspended or       *)
(* revoked, nothing is verified but what was in the ledger when the kept    *)
(* anchor was made.                                                         *)
CompromisedEvidenceIsAnchored ==
  \A e \in DOMAIN Checkpoint.epochs :
    Checkpoint.epochs[e].status \in {"SUSPENDED", "REVOKED"} =>
      \A y \in Exported, x \in Exported \cup {None} :
        (\E i \in SignedUnder(y.log, Checkpoint.epochs[e]) :
           x # None => (i \in DOMAIN x.log => x.log[i] # y.log[i]))
        => Verdict(BundleOf(y), Checkpoint, AnchorOf(x)) # "VERIFIED"

=============================================================================
