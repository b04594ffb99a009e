----------------------------- MODULE BundleArchive -----------------------------
(***************************************************************************)
(* What holds an exported bundle together (internal/bundle/bundle.go and   *)
(* verify.go): the members of the archive, the manifest over them, the two *)
(* seals, and the legacy trust verdict of `verify`.  After its export the  *)
(* archive is edited, as in bundle_test.go: members are exchanged for those*)
(* of other exports, dropped, or added; roots of another key are added; a  *)
(* key is revoked; and the holder of a key seals it again.  (A B+ bundle   *)
(* has more members under the same manifest and seals; EvidenceTrust has   *)
(* its verdict.)                                                           *)
(*                                                                         *)
(* Abstractions.  An archive is a function from the names of its members   *)
(* to their contents, and the digest of a member is its content.  A        *)
(* signature is the name of the key that made it (`by`), beside the id by  *)
(* which the document claims its key: a key has its full id and the short  *)
(* one of older releases.                                                  *)
(***************************************************************************)
EXTENDS Naturals, Sequences, Functions, FiniteSets

CONSTANTS Keys,         \* operational keys, one for each legacy home
          Policies,
          Absent,
          MaxReceipts,  \* bound on an exported ledger
          MaxEdits      \* bound on the edits after the export

ASSUME BoundsAreNatural == MaxReceipts \in Nat /\ MaxEdits \in Nat

VARIABLES archive,      \* member name -> content
          edits,        \* how often the archive was edited
          resealed      \* it was sealed again after an edit

bundle == <<archive, edits, resealed>>

Full(key)  == [key |-> key, form |-> "full"]
Short(key) == [key |-> key, form |-> "short"]

----------------------------------------------------------------------------
(* Export *)

(* A home's ledger.  The earliest `old` receipts were written by a release  *)
(* that named keys by their short id.  A receipt id is the address of all   *)
(* the content up to it.                                                   *)
Id(key, policies, old, i) ==
  [by |-> key, policies |-> SubSeq(policies, 1, i), old |-> {j \in 1 .. i : j <= old}]

Ledger(key, policies, old) ==
  [i \in DOMAIN policies |->
     [seq    |-> i - 1,
      id     |-> Id(key, policies, old, i),
      prev   |-> IF i = 1 THEN Absent ELSE Id(key, policies, old, i - 1),
      claim  |-> IF i <= old THEN Short(key) ELSE Full(key),
      by     |-> key,
      policy |-> policies[i]]]

Ids(receipts) == [i \in DOMAIN receipts |-> receipts[i].id]

PoliciesOf(receipts) == {receipts[i].policy : i \in DOMAIN receipts}

(* receiptSeal, always under the full id.  The Merkle root is over every    *)
(* receipt id.                                                             *)
ReceiptSeal(key, receipts) ==
  [first |-> receipts[1].id, last |-> receipts[Len(receipts)].id, root |-> Ids(receipts),
   policies |-> PoliciesOf(receipts), claim |-> Full(key), by |-> key]

Manifest(version, members) == [version |-> version, files |-> members]

(* bundleSealBytes: over the manifest and over every other member. *)
BundleSeal(key, members) ==
  [manifest |-> members["MANIFEST.json"], root |-> members,
   claim |-> Full(key), by |-> key]

(* Every id under which a receipt names the key. *)
Claims(key, receipts) ==
  {Full(key)} \cup {receipts[i].claim : i \in DOMAIN receipts}

Contents(key, receipts) ==
  LET trust == Claims(key, receipts) IN
  [m \in {"receipts.ndjson", "petitions.ndjson", "revocations.json",
          "trust_roots.json", "seals.json"} |->
     CASE m = "receipts.ndjson"  -> receipts
       [] m = "petitions.ndjson" -> Ids(receipts)
       [] m = "revocations.json" -> {}
       [] m = "trust_roots.json" -> [id \in trust |-> key]
       [] m = "seals.json"       -> <<ReceiptSeal(key, receipts)>>]

With(members, name, content) ==
  [m \in DOMAIN members \cup {name} |-> IF m = name THEN content ELSE members[m]]

Version(receipts) ==
  IF \E i \in DOMAIN receipts : receipts[i].claim.form = "short" THEN "v1" ELSE "v2"

Build(key, receipts) ==
  LET members == Contents(key, receipts)
      listed  == With(members, "MANIFEST.json", Manifest(Version(receipts), members))
  IN With(listed, "BUNDLE_SEAL.json", BundleSeal(key, listed))

Exports ==
  UNION {{Build(key, Ledger(key, policies, old)) : old \in 0 .. Len(policies)} :
           key \in Keys, policies \in UNION {[1 .. n -> Policies] : n \in 1 .. MaxReceipts}}

----------------------------------------------------------------------------
(* Verification.  Each operator is one check; a failed one is NOT_VERIFIED. *)

Member(a, name) == IF name \in DOMAIN a THEN a[name] ELSE Absent

Required == {"receipts.ndjson", "trust_roots.json", "revocations.json", "seals.json"}

(* verifyManifest: every listed member is there as listed, and none besides.*)
ManifestMatches(a) ==
  /\ Member(a, "MANIFEST.json") # Absent
  /\ LET files == a["MANIFEST.json"].files IN
     /\ Required \subseteq DOMAIN files
     /\ DOMAIN a \subseteq DOMAIN files \cup {"MANIFEST.json", "BUNDLE_SEAL.json"}
     /\ \A m \in DOMAIN files : m \in DOMAIN a /\ a[m] = files[m]

(* ValidateKeyID: short ids are for version v1 only. *)
NamesKey(id, key, version) ==
  id.key = key /\ (id.form = "short" => version = "v1")

(* Mutant: a revocation removes the id it names and leaves the other. *)
RevokedById(trust, revoked) == revoked

(* loadTrustRoots: revoking a key under one id revokes it under all. *)
Revoked(trust, revoked) == {id \in DOMAIN trust : \E r \in revoked : trust[id] = trust[r]}

Trust(a) ==
  Restrict(a["trust_roots.json"],
           DOMAIN a["trust_roots.json"] \ Revoked(a["trust_roots.json"], a["revocations.json"]))

TrustLoads(a) ==
  /\ \A id \in DOMAIN a["trust_roots.json"] :
       NamesKey(id, a["trust_roots.json"][id], a["MANIFEST.json"].version)
  /\ a["revocations.json"] \subseteq DOMAIN a["trust_roots.json"]
  /\ DOMAIN Trust(a) # {}

SignedUnder(trust, document) ==
  document.claim \in DOMAIN trust /\ trust[document.claim] = document.by

(* Mutant: the seal's signature is checked, not what it was made over. *)
SealSigned(a) ==
  Member(a, "BUNDLE_SEAL.json") # Absent /\ SignedUnder(Trust(a), a["BUNDLE_SEAL.json"])

(* verifyBundleSeal *)
SealHolds(a) ==
  /\ Member(a, "BUNDLE_SEAL.json") # Absent
  /\ LET seal == a["BUNDLE_SEAL.json"] IN
     /\ SignedUnder(Trust(a), seal)
     /\ seal.manifest = a["MANIFEST.json"]
     /\ seal.root = Restrict(a, DOMAIN a \ {"BUNDLE_SEAL.json"})

(* ledger.Verify *)
ChainHolds(a) ==
  LET receipts == a["receipts.ndjson"] IN
  /\ receipts # <<>>
  /\ \A i \in DOMAIN receipts :
       /\ receipts[i].seq = i - 1
       /\ SignedUnder(Trust(a), receipts[i])
       /\ receipts[i].prev = IF i = 1 THEN Absent ELSE receipts[i - 1].id

(* VerifyPetitions; a request is the id of its receipt.  Requests are      *)
(* compared only when the archive has any.                                 *)
PetitionsBind(a) ==
  "petitions.ndjson" \in DOMAIN a =>
    a["petitions.ndjson"] = Ids(a["receipts.ndjson"])

(* verifyReceiptSeal: exactly one seal, over exactly these receipts. *)
ReceiptSealHolds(a) ==
  LET receipts == a["receipts.ndjson"]
      seal     == a["seals.json"][1]
  IN /\ Len(a["seals.json"]) = 1
     /\ SignedUnder(Trust(a), seal)
     /\ seal.first = receipts[1].id /\ seal.last = receipts[Len(receipts)].id
     /\ seal.root = Ids(receipts)
     /\ seal.policies = PoliciesOf(receipts)

Verifies(a) ==
  /\ ManifestMatches(a)
  /\ TrustLoads(a)
  /\ SealHolds(a)
  /\ ChainHolds(a)
  /\ PetitionsBind(a)
  /\ ReceiptSealHolds(a)

SignerClaims(a) ==
  {a["BUNDLE_SEAL.json"].claim, a["seals.json"][1].claim}
  \cup {a["receipts.ndjson"][i].claim : i \in DOMAIN a["receipts.ndjson"]}

(* canonicalSignerIDs: the full id of every key a signer's claim names. *)
Signers(a) == {Full(Trust(a)[id]) : id \in SignerClaims(a)}

(* VerifyWithOptions; expected is a full id, or Absent. *)
Verdict(a, expected) ==
  IF ~Verifies(a) THEN "NOT_VERIFIED"
  ELSE IF expected = Absent THEN "INTERNALLY_CONSISTENT"
  ELSE IF Signers(a) = {expected} THEN "IDENTITY_TRUSTED"
  ELSE "IDENTITY_MISMATCH"

----------------------------------------------------------------------------
(* Edits *)

Names == {"receipts.ndjson", "petitions.ndjson", "trust_roots.json", "seals.json",
          "MANIFEST.json", "BUNDLE_SEAL.json"}

Edited(a) ==
  /\ edits < MaxEdits
  /\ a # archive
  /\ archive' = a
  /\ edits' = edits + 1

Exchange(name, other) ==
  Edited(With(archive, name, other[name])) /\ UNCHANGED resealed

Drop(name) ==
  Edited(Restrict(archive, DOMAIN archive \ {name})) /\ UNCHANGED resealed

AddFile ==
  Edited(With(archive, "notes.txt", "text")) /\ UNCHANGED resealed

AddRoot(key) ==
  /\ "trust_roots.json" \in DOMAIN archive
  /\ LET roots == archive["trust_roots.json"] IN
     Edited(With(archive, "trust_roots.json",
                 [id \in DOMAIN roots \cup {Full(key)} |-> id.key]))
  /\ UNCHANGED resealed

(* The holder of a key fits a manifest and a bundle seal to the members,    *)
(* revoking some of the roots.                                             *)
Reseal(key, version, revoked) ==
  LET members == Restrict(With(archive, "revocations.json", revoked),
                          (DOMAIN archive \cup {"revocations.json"})
                            \ {"MANIFEST.json", "BUNDLE_SEAL.json"})
      listed  == With(members, "MANIFEST.json", Manifest(version, members))
  IN /\ Edited(With(listed, "BUNDLE_SEAL.json", BundleSeal(key, listed)))
     /\ resealed' = TRUE

HandOver ==
  /\ archive \in Exports
  /\ edits = 0
  /\ resealed = FALSE

Edit ==
  \/ \E name \in Names, other \in Exports : Exchange(name, other)
  \/ \E name \in Names : Drop(name)
  \/ AddFile
  \/ \E key \in Keys : AddRoot(key)
  \/ \E key \in Keys, version \in {"v1", "v2"},
        revoked \in SUBSET {Full(k) : k \in Keys} \cup {{Short(k)} : k \in Keys} :
       Reseal(key, version, revoked)

(* Whatever is done to an archive after its export. *)
BundleSpec == HandOver /\ [][Edit]_bundle

----------------------------------------------------------------------------
(* Properties *)

(* Besides the shapes: an export has a root for every id its receipts use.  *)
ArchiveTypeOK ==
  /\ DOMAIN archive \subseteq Names \cup {"revocations.json", "notes.txt"}
  /\ edits \in 0 .. MaxEdits
  /\ resealed \in BOOLEAN
  /\ edits = 0 =>
       {archive["receipts.ndjson"][i].claim : i \in DOMAIN archive["receipts.ndjson"]}
         \subseteq DOMAIN archive["trust_roots.json"]

(* Short of being sealed again, no mixture of the members of several        *)
(* exports verifies, be they exports of the same home at different times:   *)
(* what verifies is one export, whole and unchanged.  And whatever was      *)
(* edited and whoever sealed it again: all the receipts and both seals of a *)
(* trusted bundle are of the pinned key (verify.go:169), the receipts are a *)
(* whole ledger of its home, and no id of the key is revoked.               *)
VerdictIsEarned ==
  /\ ~resealed /\ Verdict(archive, Absent) # "NOT_VERIFIED" => archive \in Exports
  /\ \A key \in Keys :
       Verdict(archive, Full(key)) = "IDENTITY_TRUSTED" =>
         /\ archive["BUNDLE_SEAL.json"].by = key
         /\ \E e \in Exports :
              /\ e["BUNDLE_SEAL.json"].by = key
              /\ e["receipts.ndjson"] = archive["receipts.ndjson"]
              /\ e["seals.json"] = archive["seals.json"]
         /\ \A id \in archive["revocations.json"] : id.key # key
=============================================================================
