---------------------------- MODULE MigrationProofs ----------------------------
(***************************************************************************)
(* The migration of a legacy home for any number of invocations, attempts, *)
(* destinations and kills: where the legacy key is, what is left of an     *)
(* attempt, and which receipt a genesis names.                             *)
(*                                                                         *)
(* The argument: whoever holds the lock works on the attempt the journal   *)
(* names, and nobody else's attempt has anything staged; the legacy key    *)
(* leaves its place before anything is published, so a roll-back, which    *)
(* needs it there, never meets anything published.                         *)
(***************************************************************************)
EXTENDS Migration, TLAPS

----------------------------------------------------------------------------
(* The inductive invariant *)

Places == {"idle", "prompting", "checking", "journaled", "packaged", "reading", "assessing",
           "removing", "rollTemp", "rollJournal", "completing", "publishing", "authorizing",
           "marking", "confirming", "cleanQuarantine", "cleanTemp", "cleanJournal",
           "cleanStage"}
Held   == Places \ {"idle", "prompting"}

(* Everybody but the holder of the lock is outside, or in front of it. *)
Outside(p) == pc[p] \in {"idle", "prompting"}

LockInv == \A p \in Proc : ~ Outside(p) <=> lock = p

Whole == IdentityParts \cup {"marker"}

(* No private key of an attempt, staged or in a partial package. *)
Bare(a) == "keys" \notin stage[a] /\ temp[a] = None

(* The legacy key is set aside before anything is published, and discarded  *)
(* after everything is.                                                    *)
KeyInv ==
  /\ home \in {{}, IdentityParts, Whole}
  /\ ~ (legacy /\ quarantine)
  /\ legacy => home = {} /\ \A x \in Paths : dest[x] = None
  /\ ~ legacy /\ ~ quarantine => home = Whole
  /\ home # {} => \A a \in Attempts : "keys" \notin stage[a]

(* Only the attempt that the journal names has anything staged. *)
JournalInv ==
  /\ journal \in (1 .. made) \cup {None, Torn}
  /\ journal \in {None, Torn} => Untouched \/ Migrated
  /\ \A a \in Attempts : a # journal => Bare(a)

RollingBack == {"removing", "rollTemp", "rollJournal"}
Completing  == {"completing", "publishing", "authorizing", "marking", "confirming"}
CleaningUp  == {"cleanQuarantine", "cleanTemp", "cleanJournal"}
OnJournal   == {"journaled", "packaged", "assessing"}
                 \cup RollingBack \cup Completing \cup CleaningUp

(* What an invocation relies on at the place where it is. *)
PlaceOK(p, at) ==
  /\ at \in {"prompting", "checking"} => want[p] # None
  /\ at = "checking" => journal = None
  /\ at = "reading" => journal # None
  /\ at \in OnJournal => att[p] \in 1 .. made /\ journal = att[p]
  /\ at \in {"journaled", "packaged"} \cup RollingBack => legacy
  /\ at \in {"rollTemp", "rollJournal"} => stage[att[p]] = {}
  /\ at \in {"rollJournal", "cleanJournal"} => temp[att[p]] = None
  /\ at \in Completing \ {"completing"} => quarantine
  /\ at \in {"marking", "confirming"} => home # {}
  /\ at = "cleanQuarantine" => home = Whole
  /\ at \in {"cleanTemp", "cleanJournal", "cleanStage"} => Migrated
  /\ at = "cleanStage" => journal = None /\ att[p] \in 1 .. made

PlaceInv == \A p \in Proc : PlaceOK(p, pc[p])

(* At most one receipt is still to come, and nobody has read it ahead. *)
HeadInv ==
  /\ head \in {1, 2} /\ (pair # "none" => head = 1)
  /\ \A p \in Proc : want[p] # None => seen[p] \in 1 .. head
  /\ \A a \in 1 .. made : boundary[a] \in 1 .. head

IInv == TypeOK /\ LockInv /\ KeyInv /\ JournalInv /\ PlaceInv /\ HeadInv

USE DEF OnJournal, RollingBack, Completing, CleaningUp

----------------------------------------------------------------------------
(* What a step leaves alone *)

(* Nobody else is behind the lock, and nobody else moves. *)
Alone(p) == \A q \in Proc \ {p} : Outside(q) /\ pc'[q] = pc[q] /\ want'[q] = want[q]

LEMMA MoveFrame ==
  ASSUME IInv, NEW p \in Proc, NEW from \in Held, NEW to \in Held, Move(p, from, to),
         UNCHANGED want
  PROVE  /\ pc[p] = from /\ pc'[p] = to
         /\ pc' \in [Proc -> Places] /\ LockInv' /\ Alone(p)
BY DEF IInv, TypeOK, LockInv, Outside, Move, At, Alone, Held, Places

LEMMA EndFrame ==
  ASSUME IInv, NEW p \in Proc, End(p), UNCHANGED want
  PROVE  /\ pc'[p] = "idle"
         /\ pc' \in [Proc -> Places] /\ lock' \in Proc \cup {None} /\ LockInv'
         /\ \A q \in Proc \ {p} : pc'[q] = pc[q] /\ want'[q] = want[q]
         /\ ~ Outside(p) => Alone(p)
BY NamesApart DEF IInv, TypeOK, LockInv, Outside, End, Alone, Places

LEMMA PlaceFrame ==
  ASSUME IInv, NEW p \in Proc, Alone(p), PlaceOK(p, pc[p])'
  PROVE  PlaceInv'
BY DEF IInv, PlaceInv, PlaceOK, Alone, Outside

LEMMA FilesFrame ==
  ASSUME IInv, UNCHANGED <<files, made>>
  PROVE  KeyInv' /\ JournalInv'
BY DEF IInv, KeyInv, JournalInv, files, Bare, Untouched, Migrated

LEMMA HeadFrame ==
  ASSUME IInv, UNCHANGED <<want, seen, boundary, made, head, pair>>
  PROVE  HeadInv'
BY DEF IInv, HeadInv

LEMMA MadeInRange ==
  ASSUME IInv
  PROVE  1 .. made \subseteq Attempts /\ Attempts \cap {None, Torn} = {}
BY BoundsAreNat, NamesApart DEF IInv, TypeOK, Attempts

(* The part of TypeOK that speaks of files. *)
FileTypes ==
  /\ journal \in Attempts \cup {None, Torn}
  /\ temp \in [Attempts -> {None, Torn, "whole"}] /\ stage \in [Attempts -> SUBSET Parts]
  /\ dest \in [Paths -> Attempts \cup {None}]
  /\ {legacy, quarantine} \subseteq BOOLEAN
  /\ home \subseteq Parts /\ owner \in Attempts \cup {None}

(* A step of the holder that only changes files. *)
LEMMA MoveStep ==
  ASSUME IInv, NEW p \in Proc, NEW from \in Held, NEW to \in Held, Move(p, from, to),
         UNCHANGED <<plan, evidence>>,
         FileTypes', KeyInv', JournalInv', PlaceOK(p, to)'
  PROVE  IInv'
<1>1. /\ pc'[p] = to /\ pc' \in [Proc -> Places] /\ LockInv' /\ Alone(p)
      /\ UNCHANGED <<lock, kills>>
  BY MoveFrame DEF plan, Move
<1>2. TypeOK'
  BY <1>1 DEF IInv, TypeOK, FileTypes, Places, plan, evidence
<1>3. PlaceInv'
  BY <1>1, PlaceFrame
<1>4. HeadInv'
  BY HeadFrame DEF plan, evidence
<1> QED BY <1>1, <1>2, <1>3, <1>4 DEF IInv

(* On a journal, the holder works on the attempt the journal names. *)
LEMMA HolderFacts ==
  ASSUME IInv, NEW p \in Proc, pc[p] \in OnJournal
  PROVE  /\ PlaceOK(p, pc[p])
         /\ att[p] \in Attempts /\ journal = att[p] /\ journal \notin {None, Torn}
         /\ FileTypes
BY MadeInRange DEF IInv, TypeOK, PlaceInv, PlaceOK, FileTypes

----------------------------------------------------------------------------
(* Staging *)

LEMMA StagePackageStep ==
  ASSUME IInv, NEW p \in Proc, StagePackage(p)
  PROVE  IInv'
<1>1. Move(p, "journaled", "packaged") /\ UNCHANGED <<plan, evidence>>
  BY DEF StagePackage
<1>2. /\ PlaceOK(p, "journaled") /\ FileTypes
      /\ att[p] \in Attempts /\ journal = att[p] /\ journal \notin {None, Torn}
  BY <1>1, HolderFacts DEF Move, At
<1>3. FileTypes'
  BY <1>2 DEF StagePackage, FileTypes
<1>4. KeyInv'
  BY <1>2 DEF IInv, KeyInv, StagePackage
<1>5. JournalInv'
  BY <1>1, <1>2 DEF IInv, JournalInv, StagePackage, plan, Bare, FileTypes
<1>6. PlaceOK(p, "packaged")'
  BY <1>1, <1>2 DEF PlaceOK, StagePackage, plan, FileTypes
<1> QED BY <1>1, <1>3, <1>4, <1>5, <1>6, MoveStep DEF Held, Places

LEMMA StageAuthorityStep ==
  ASSUME IInv, NEW p \in Proc, StageAuthority(p)
  PROVE  IInv'
<1>1. Move(p, "packaged", "completing") /\ UNCHANGED <<plan, evidence>>
  BY DEF StageAuthority
<1>2. /\ PlaceOK(p, "packaged") /\ FileTypes
      /\ att[p] \in Attempts /\ journal = att[p] /\ journal \notin {None, Torn}
  BY <1>1, HolderFacts DEF Move, At
<1>3. FileTypes'
  BY <1>2 DEF StageAuthority, FileTypes, Parts
<1>4. KeyInv'
  BY <1>2 DEF IInv, KeyInv, StageAuthority, PlaceOK
<1>5. JournalInv'
  BY <1>1, <1>2 DEF IInv, JournalInv, StageAuthority, plan, Bare, FileTypes
<1>6. PlaceOK(p, "completing")'
  BY <1>1, <1>2 DEF PlaceOK, StageAuthority, plan, FileTypes
<1> QED BY <1>1, <1>3, <1>4, <1>5, <1>6, MoveStep DEF Held, Places

----------------------------------------------------------------------------
(* Roll-back: only while the legacy key is the authority *)

LEMMA RollStageStep ==
  ASSUME IInv, NEW p \in Proc, RollStage(p)
  PROVE  IInv'
<1>1. Move(p, "removing", "rollTemp") /\ UNCHANGED <<plan, evidence>>
  BY DEF RollStage
<1>2. /\ PlaceOK(p, "removing") /\ FileTypes
      /\ att[p] \in Attempts /\ journal = att[p] /\ journal \notin {None, Torn}
  BY <1>1, HolderFacts DEF Move, At
<1>3. FileTypes'
  BY <1>2 DEF RollStage, FileTypes
<1>4. KeyInv'
  BY <1>2 DEF IInv, KeyInv, RollStage, FileTypes
<1>5. JournalInv'
  BY <1>1, <1>2 DEF IInv, JournalInv, RollStage, plan, Bare, FileTypes
<1>6. PlaceOK(p, "rollTemp")'
  BY <1>1, <1>2 DEF PlaceOK, RollStage, plan, FileTypes
<1> QED BY <1>1, <1>3, <1>4, <1>5, <1>6, MoveStep DEF Held, Places

LEMMA RollTempStep ==
  ASSUME IInv, NEW p \in Proc, RollTemp(p)
  PROVE  IInv'
<1>1. Move(p, "rollTemp", "rollJournal") /\ UNCHANGED <<plan, evidence>>
  BY DEF RollTemp
<1>2. /\ PlaceOK(p, "rollTemp") /\ FileTypes
      /\ att[p] \in Attempts /\ journal = att[p] /\ journal \notin {None, Torn}
  BY <1>1, HolderFacts DEF Move, At
<1>3. FileTypes'
  BY <1>2 DEF RollTemp, FileTypes
<1>4. KeyInv'
  BY <1>2 DEF IInv, KeyInv, RollTemp
<1>5. JournalInv'
  BY <1>1, <1>2 DEF IInv, JournalInv, RollTemp, plan, Bare, FileTypes
<1>6. PlaceOK(p, "rollJournal")'
  BY <1>1, <1>2 DEF PlaceOK, RollTemp, plan, FileTypes
<1> QED BY <1>1, <1>3, <1>4, <1>5, <1>6, MoveStep DEF Held, Places

----------------------------------------------------------------------------
(* Publication *)

LEMMA SetLegacyKeyAsideStep ==
  ASSUME IInv, NEW p \in Proc, SetLegacyKeyAside(p)
  PROVE  IInv'
<1>1. Move(p, "completing", "publishing") /\ UNCHANGED <<plan, evidence>>
  BY DEF SetLegacyKeyAside
<1>2. /\ PlaceOK(p, "completing") /\ FileTypes
      /\ att[p] \in Attempts /\ journal = att[p] /\ journal \notin {None, Torn}
  BY <1>1, HolderFacts DEF Move, At
<1>3. FileTypes'
  BY <1>2 DEF SetLegacyKeyAside, FileTypes
<1>4. KeyInv'
  BY <1>2 DEF IInv, KeyInv, SetLegacyKeyAside, FileTypes
<1>5. JournalInv'
  BY <1>1, <1>2 DEF IInv, JournalInv, SetLegacyKeyAside, plan, Bare, FileTypes
<1>6. PlaceOK(p, "publishing")'
  BY <1>1, <1>2 DEF PlaceOK, SetLegacyKeyAside, plan, FileTypes
<1> QED BY <1>1, <1>3, <1>4, <1>5, <1>6, MoveStep DEF Held, Places

LEMMA PublishPackageStep ==
  ASSUME IInv, NEW p \in Proc, PublishPackage(p)
  PROVE  IInv'
<1>1. Move(p, "publishing", "authorizing") /\ UNCHANGED <<plan, evidence>>
  BY DEF PublishPackage
<1>2. /\ PlaceOK(p, "publishing") /\ FileTypes
      /\ att[p] \in Attempts /\ journal = att[p] /\ journal \notin {None, Torn}
  BY <1>1, HolderFacts DEF Move, At
<1>3. FileTypes'
  BY <1>2 DEF PublishPackage, FileTypes, Published
<1>4. KeyInv'
  BY <1>2 DEF IInv, KeyInv, PublishPackage, PlaceOK
<1>5. JournalInv'
  BY <1>1, <1>2 DEF IInv, JournalInv, PublishPackage, plan, Bare, FileTypes, Published
<1>6. PlaceOK(p, "authorizing")'
  BY <1>1, <1>2 DEF PlaceOK, PublishPackage, plan, FileTypes
<1> QED BY <1>1, <1>3, <1>4, <1>5, <1>6, MoveStep DEF Held, Places

LEMMA PublishAuthorityStep ==
  ASSUME IInv, NEW p \in Proc, PublishAuthority(p)
  PROVE  IInv'
<1>1. Move(p, "authorizing", "marking") /\ UNCHANGED <<plan, evidence>>
  BY DEF PublishAuthority
<1>2. /\ PlaceOK(p, "authorizing") /\ FileTypes
      /\ att[p] \in Attempts /\ journal = att[p] /\ journal \notin {None, Torn}
  BY <1>1, HolderFacts DEF Move, At
<1>3. FileTypes'
  <2>1. home' \in SUBSET Parts /\ owner' \in Attempts \cup {None}
    BY <1>2 DEF PublishAuthority, FileTypes, IdentityParts, Parts
  <2>2. stage' \in [Attempts -> SUBSET Parts]
    <3>1. stage[att[p]] \ IdentityParts \in SUBSET Parts
      BY <1>2 DEF FileTypes
    <3>2. UNCHANGED stage \/ stage' = [stage EXCEPT ![att[p]] = stage[att[p]] \ IdentityParts]
      BY <1>2 DEF PublishAuthority, FileTypes
    <3> QED BY <1>2, <3>1, <3>2 DEF FileTypes
  <2> QED BY <1>2, <2>1, <2>2 DEF PublishAuthority, FileTypes
<1>4. KeyInv'
  <2>1. ~ legacy /\ quarantine
    BY <1>2 DEF PlaceOK, IInv, KeyInv
  <2>2. CASE home # {}
    BY <2>1, <2>2 DEF IInv, KeyInv, PublishAuthority
  <2>3. CASE home = {}
    <3>1. home' = IdentityParts /\ stage' = [stage EXCEPT ![att[p]] = @ \ IdentityParts]
      BY <2>3 DEF PublishAuthority
    <3>2. \A a \in Attempts : "keys" \notin stage'[a]
      BY <1>2, <3>1 DEF IInv, JournalInv, Bare, FileTypes, IdentityParts
    <3> QED BY <2>1, <3>1, <3>2 DEF KeyInv, PublishAuthority
  <2> QED BY <2>2, <2>3
<1>5. JournalInv'
  BY <1>1, <1>2 DEF IInv, JournalInv, PublishAuthority, plan, Bare, FileTypes, IdentityParts, Parts
<1>6. PlaceOK(p, "marking")'
  BY <1>1, <1>2 DEF PlaceOK, PublishAuthority, plan, FileTypes, IdentityParts
<1> QED BY <1>1, <1>3, <1>4, <1>5, <1>6, MoveStep DEF Held, Places

LEMMA PublishMarkerStep ==
  ASSUME IInv, NEW p \in Proc, PublishMarker(p)
  PROVE  IInv'
<1>1. Move(p, "marking", "confirming") /\ UNCHANGED <<plan, evidence>>
  BY DEF PublishMarker
<1>2. /\ PlaceOK(p, "marking") /\ FileTypes
      /\ att[p] \in Attempts /\ journal = att[p] /\ journal \notin {None, Torn}
  BY <1>1, HolderFacts DEF Move, At
<1>3. FileTypes'
  BY <1>2 DEF PublishMarker, FileTypes, IsBPlus
<1>4. KeyInv'
  BY <1>2 DEF IInv, KeyInv, PublishMarker, FileTypes, PlaceOK, IdentityParts, Whole, IsBPlus
<1>5. JournalInv'
  BY <1>1, <1>2 DEF IInv, JournalInv, PublishMarker, plan, Bare, FileTypes
<1>6. PlaceOK(p, "confirming")'
  BY <1>1, <1>2 DEF PlaceOK, PublishMarker, plan, FileTypes
<1> QED BY <1>1, <1>3, <1>4, <1>5, <1>6, MoveStep DEF Held, Places

LEMMA ConfirmStep ==
  ASSUME IInv, NEW p \in Proc, Confirm(p)
  PROVE  IInv'
<1>1. /\ Move(p, "confirming", "cleanQuarantine") /\ UNCHANGED <<files, plan, evidence>>
      /\ home = Whole
  BY DEF Confirm, Whole
<1>2. PlaceOK(p, "confirming") /\ FileTypes /\ att[p] \in Attempts /\ journal = att[p]
  BY <1>1, HolderFacts DEF Move, At
<1>3. FileTypes'
  BY <1>1, <1>2 DEF FileTypes, files
<1>4. KeyInv' /\ JournalInv'
  BY <1>1, FilesFrame DEF plan
<1>5. PlaceOK(p, "cleanQuarantine")'
  BY <1>1, <1>2 DEF PlaceOK, files, plan, Whole
<1> QED BY <1>1, <1>3, <1>4, <1>5, MoveStep DEF Held, Places

----------------------------------------------------------------------------
(* Cleaning up *)

LEMMA CleanQuarantineStep ==
  ASSUME IInv, NEW p \in Proc, CleanQuarantine(p)
  PROVE  IInv'
<1>1. Move(p, "cleanQuarantine", "cleanTemp") /\ UNCHANGED <<plan, evidence>>
  BY DEF CleanQuarantine
<1>2. /\ PlaceOK(p, "cleanQuarantine") /\ FileTypes
      /\ att[p] \in Attempts /\ journal = att[p] /\ journal \notin {None, Torn}
  BY <1>1, HolderFacts DEF Move, At
<1>3. FileTypes'
  BY <1>2 DEF CleanQuarantine, FileTypes
<1>4. KeyInv'
  BY <1>2 DEF IInv, KeyInv, CleanQuarantine, PlaceOK
<1>5. JournalInv'
  BY <1>1, <1>2 DEF IInv, JournalInv, CleanQuarantine, plan, Bare, FileTypes
<1>6. PlaceOK(p, "cleanTemp")'
  BY <1>1, <1>2 DEF PlaceOK, CleanQuarantine, plan, FileTypes, Migrated, Whole, KeyInv, IInv,
                    IdentityParts
<1> QED BY <1>1, <1>3, <1>4, <1>5, <1>6, MoveStep DEF Held, Places

LEMMA CleanTempStep ==
  ASSUME IInv, NEW p \in Proc, CleanTemp(p)
  PROVE  IInv'
<1>1. Move(p, "cleanTemp", "cleanJournal") /\ UNCHANGED <<plan, evidence>>
  BY DEF CleanTemp
<1>2. /\ PlaceOK(p, "cleanTemp") /\ FileTypes
      /\ att[p] \in Attempts /\ journal = att[p] /\ journal \notin {None, Torn}
  BY <1>1, HolderFacts DEF Move, At
<1>3. FileTypes'
  BY <1>2 DEF CleanTemp, FileTypes
<1>4. KeyInv'
  BY <1>2 DEF IInv, KeyInv, CleanTemp
<1>5. JournalInv'
  BY <1>1, <1>2 DEF IInv, JournalInv, CleanTemp, plan, Bare, FileTypes
<1>6. PlaceOK(p, "cleanJournal")'
  BY <1>1, <1>2 DEF PlaceOK, CleanTemp, plan, FileTypes, Migrated
<1> QED BY <1>1, <1>3, <1>4, <1>5, <1>6, MoveStep DEF Held, Places

LEMMA CleanJournalStep ==
  ASSUME IInv, NEW p \in Proc, CleanJournal(p)
  PROVE  IInv'
<1>1. Move(p, "cleanJournal", "cleanStage") /\ UNCHANGED <<plan, evidence>>
  BY DEF CleanJournal
<1>2. /\ PlaceOK(p, "cleanJournal") /\ FileTypes
      /\ att[p] \in Attempts /\ journal = att[p] /\ journal \notin {None, Torn}
  BY <1>1, HolderFacts DEF Move, At
<1>3. FileTypes'
  BY <1>2 DEF CleanJournal, FileTypes
<1>4. KeyInv'
  BY <1>2 DEF IInv, KeyInv, CleanJournal
<1>5. JournalInv'
  BY <1>1, <1>2 DEF IInv, JournalInv, CleanJournal, plan, Bare, FileTypes, PlaceOK, Migrated,
                    KeyInv, IdentityParts
<1>6. PlaceOK(p, "cleanStage")'
  BY <1>1, <1>2 DEF PlaceOK, CleanJournal, plan, FileTypes, Migrated
<1> QED BY <1>1, <1>3, <1>4, <1>5, <1>6, MoveStep DEF Held, Places

----------------------------------------------------------------------------
(* In front of the lock *)

LEMMA ReadLedgerStep ==
  ASSUME IInv, NEW p \in Proc, NEW path \in Paths, ReadLedger(p, path)
  PROVE  IInv'
<1>1. pc[p] = "idle" /\ pc' = [pc EXCEPT ![p] = "prompting"] /\ UNCHANGED <<lock, kills>>
  BY DEF ReadLedger, Move, At
<1>2. path # None /\ head \in Nat
  BY NamesApart DEF IInv, TypeOK
<1>3. TypeOK'
  BY <1>1, <1>2 DEF IInv, TypeOK, ReadLedger, files, evidence
<1>4. LockInv'
  BY <1>1 DEF IInv, TypeOK, LockInv, Outside
<1>5. KeyInv' /\ JournalInv'
  BY FilesFrame DEF ReadLedger
<1>6. PlaceInv'
  BY <1>1, <1>2 DEF IInv, TypeOK, PlaceInv, PlaceOK, ReadLedger, files, Untouched, Migrated
<1>7. HeadInv'
  BY <1>2 DEF IInv, TypeOK, HeadInv, ReadLedger, evidence
<1> QED BY <1>3, <1>4, <1>5, <1>6, <1>7 DEF IInv

LEMMA TakeLockStep ==
  ASSUME IInv, NEW p \in Proc, TakeLock(p)
  PROVE  IInv'
<1>1. /\ pc[p] = "prompting" /\ lock = None /\ lock' = p
      /\ pc' = [pc EXCEPT ![p] = IF journal = None THEN "checking" ELSE "reading"]
      /\ UNCHANGED <<files, plan, evidence, kills>>
  BY DEF TakeLock, At
<1>2. Alone(p)
  BY <1>1, NamesApart DEF IInv, LockInv, TypeOK, Alone, Outside, plan
<1>3. TypeOK'
  BY <1>1 DEF IInv, TypeOK, files, plan, evidence
<1>4. LockInv'
  BY <1>1, <1>2 DEF IInv, TypeOK, LockInv, Outside, Alone
<1>5. KeyInv' /\ JournalInv'
  BY <1>1, FilesFrame DEF plan
<1>6. PlaceInv'
  <2>1. PlaceOK(p, pc[p])'
    BY <1>1 DEF IInv, TypeOK, PlaceInv, PlaceOK, files, plan
  <2> QED BY <1>2, <2>1, PlaceFrame
<1>7. HeadInv'
  BY <1>1, HeadFrame DEF plan, evidence
<1> QED BY <1>3, <1>4, <1>5, <1>6, <1>7 DEF IInv

LEMMA StartRecoverStep ==
  ASSUME IInv, NEW p \in Proc, StartRecover(p)
  PROVE  IInv'
<1>1. /\ pc[p] = "idle" /\ lock = None /\ lock' = p /\ journal # None
      /\ pc' = [pc EXCEPT ![p] = "reading"]
      /\ want' = [want EXCEPT ![p] = None]
      /\ UNCHANGED <<files, seen, att, target, boundary, made, evidence, kills>>
  BY DEF StartRecover, At
<1>2. Alone(p)
  BY <1>1, NamesApart DEF IInv, LockInv, TypeOK, Alone, Outside
<1>3. TypeOK'
  BY <1>1 DEF IInv, TypeOK, files, evidence
<1>4. LockInv'
  BY <1>1, <1>2 DEF IInv, TypeOK, LockInv, Outside, Alone
<1>5. KeyInv' /\ JournalInv'
  BY <1>1, FilesFrame
<1>6. PlaceInv'
  <2>1. PlaceOK(p, pc[p])'
    BY <1>1 DEF IInv, TypeOK, PlaceOK, files
  <2> QED BY <1>2, <2>1, PlaceFrame
<1>7. HeadInv'
  BY <1>1 DEF IInv, TypeOK, HeadInv, evidence
<1> QED BY <1>3, <1>4, <1>5, <1>6, <1>7 DEF IInv

(* A command that gives up, is refused or is lost changes no file. *)
LEMMA EndStep ==
  ASSUME IInv, NEW p \in Proc, End(p), UNCHANGED <<files, plan, evidence>>,
         kills' \in 0 .. MaxKills
  PROVE  IInv'
<1>1. /\ pc'[p] = "idle" /\ pc' \in [Proc -> Places] /\ lock' \in Proc \cup {None} /\ LockInv'
      /\ \A q \in Proc \ {p} : pc'[q] = pc[q]
  BY EndFrame DEF plan
<1>2. TypeOK'
  BY <1>1 DEF IInv, TypeOK, Places, files, plan, evidence
<1>3. KeyInv' /\ JournalInv'
  BY FilesFrame DEF plan
<1>4. PlaceInv'
  <2> SUFFICES ASSUME NEW q \in Proc PROVE PlaceOK(q, pc[q])'
    BY DEF PlaceInv
  <2>1. CASE q = p
    BY <1>1, <2>1 DEF PlaceOK
  <2>2. CASE q # p
    BY <1>1, <2>2 DEF IInv, PlaceInv, PlaceOK, files, plan, Migrated
  <2> QED BY <2>1, <2>2
<1>5. HeadInv'
  BY HeadFrame DEF plan, evidence
<1> QED BY <1>1, <1>2, <1>3, <1>4, <1>5 DEF IInv

LEMMA LostKills ==
  ASSUME IInv, NEW p \in Proc, Lost(p)
  PROVE  End(p) /\ kills' \in 0 .. MaxKills
BY BoundsAreNat DEF IInv, TypeOK, Lost

LEMMA KillStep ==
  ASSUME IInv, NEW p \in Proc, Kill(p)
  PROVE  IInv'
BY LostKills, EndStep DEF Kill

LEMMA RefusalStep ==
  ASSUME IInv, NEW p \in Proc, RefuseMigration(p) \/ UnreadableJournal(p)
  PROVE  IInv'
BY EndStep DEF RefuseMigration, UnreadableJournal, IInv, TypeOK

----------------------------------------------------------------------------
(* The journal *)

(* Written whole or torn, it is the first trace of an attempt. *)
LEMMA BeginJournalFacts ==
  ASSUME IInv, NEW p \in Proc, pc[p] = "checking", NEW content \in {made + 1, Torn},
         BeginJournal(p, content),
         pc' \in [Proc -> Places], lock' \in Proc \cup {None}, kills' \in 0 .. MaxKills
  PROVE  /\ TypeOK' /\ KeyInv' /\ JournalInv' /\ HeadInv'
         /\ made' \in Attempts /\ att'[p] = made' /\ journal' = content
         /\ legacy' /\ UNCHANGED want
<1>1. PlaceOK(p, "checking") /\ journal = None /\ want[p] \in Paths
  BY DEF IInv, PlaceInv, PlaceOK, TypeOK
<1>2. made + 1 \in Attempts /\ made' = made + 1 /\ made + 1 \in Nat /\ made \in Nat
  BY BoundsAreNat DEF BeginJournal, MayMigrate, IInv, TypeOK, Attempts
<1>3. /\ legacy /\ legacy' /\ home = {}
      /\ UNCHANGED <<temp, stage, dest, legacy, quarantine, home, owner, want>>
  BY DEF BeginJournal, MayMigrate
<1>4. TypeOK'
  <2>1. journal' \in Attempts \cup {None, Torn} /\ made' \in 0 .. MaxAttempts
    BY <1>2, BoundsAreNat DEF BeginJournal, Attempts
  <2>2. /\ att' \in [Proc -> Attempts \cup {None}]
        /\ target' \in [Attempts -> Paths \cup {None}] /\ boundary' \in [Attempts -> Nat]
    BY <1>1, <1>2 DEF IInv, TypeOK, BeginJournal
  <2> QED BY <1>3, <2>1, <2>2 DEF IInv, TypeOK, BeginJournal, Places, evidence
<1>5. KeyInv'
  BY <1>3 DEF IInv, KeyInv
<1>6. JournalInv'
  <2>1. \A a \in Attempts : Bare(a)'
    BY <1>1, <1>3, MadeInRange DEF IInv, JournalInv, Bare
  <2>2. Untouched'
    BY <1>3 DEF IInv, KeyInv, Untouched
  <2>3. journal' \in (1 .. made') \cup {None, Torn}
    BY <1>2 DEF BeginJournal
  <2> QED BY <2>1, <2>2, <2>3 DEF JournalInv
<1>7. HeadInv'
  <2>1. seen[p] \in 1 .. head
    BY <1>1, NamesApart DEF IInv, HeadInv
  <2>2. \A a \in 1 .. made' : boundary'[a] \in 1 .. head
    BY <1>2, <2>1 DEF IInv, TypeOK, HeadInv, BeginJournal, Attempts
  <2> QED BY <2>2 DEF IInv, HeadInv, BeginJournal, evidence
<1> QED BY <1>2, <1>3, <1>4, <1>5, <1>6, <1>7 DEF BeginJournal, IInv, TypeOK

LEMMA WriteJournalStep ==
  ASSUME IInv, NEW p \in Proc, WriteJournal(p)
  PROVE  IInv'
<1>1. Move(p, "checking", "journaled") /\ BeginJournal(p, made + 1) /\ UNCHANGED want
  BY DEF WriteJournal, BeginJournal
<1>2. /\ pc[p] = "checking" /\ pc'[p] = "journaled"
      /\ pc' \in [Proc -> Places] /\ LockInv' /\ Alone(p)
      /\ lock' \in Proc \cup {None} /\ kills' \in 0 .. MaxKills
  BY <1>1, MoveFrame DEF Held, Places, Move, IInv, TypeOK
<1>3. /\ TypeOK' /\ KeyInv' /\ JournalInv' /\ HeadInv'
      /\ made' \in Attempts /\ att'[p] = made' /\ journal' = made + 1 /\ legacy'
      /\ made' = made + 1
  BY <1>1, <1>2, BeginJournalFacts DEF BeginJournal
<1>4. PlaceOK(p, pc[p])'
  BY <1>2, <1>3 DEF PlaceOK, Attempts
<1> QED BY <1>2, <1>3, <1>4, PlaceFrame DEF IInv

LEMMA TearJournalStep ==
  ASSUME IInv, NEW p \in Proc, TearJournal(p)
  PROVE  IInv'
<1>1. /\ pc[p] = "checking" /\ BeginJournal(p, Torn) /\ UNCHANGED want
      /\ End(p) /\ kills' \in 0 .. MaxKills
  BY LostKills DEF TearJournal, At, BeginJournal
<1>2. /\ pc'[p] = "idle" /\ pc' \in [Proc -> Places] /\ lock' \in Proc \cup {None} /\ LockInv'
      /\ Alone(p)
  BY <1>1, EndFrame DEF Outside
<1>3. TypeOK' /\ KeyInv' /\ JournalInv' /\ HeadInv'
  BY <1>1, <1>2, BeginJournalFacts
<1>4. PlaceOK(p, pc[p])'
  BY <1>2 DEF PlaceOK
<1> QED BY <1>2, <1>3, <1>4, PlaceFrame DEF IInv

LEMMA ReadJournalStep ==
  ASSUME IInv, NEW p \in Proc, ReadJournal(p)
  PROVE  IInv'
<1>1. /\ pc[p] = "reading" /\ pc'[p] = "assessing"
      /\ pc' \in [Proc -> Places] /\ LockInv' /\ Alone(p)
      /\ UNCHANGED <<lock, kills>>
  BY MoveFrame DEF ReadJournal, Held, Places, Move
<1>2. journal \in 1 .. made /\ journal \in Attempts
  BY <1>1, MadeInRange DEF IInv, PlaceInv, PlaceOK, JournalInv, ReadJournal
<1>3. TypeOK'
  BY <1>1, <1>2 DEF IInv, TypeOK, ReadJournal, Places, files, evidence
<1>4. KeyInv' /\ JournalInv'
  BY FilesFrame DEF ReadJournal
<1>5. PlaceInv'
  <2>1. PlaceOK(p, pc[p])'
    BY <1>1, <1>2 DEF IInv, TypeOK, ReadJournal, files, PlaceOK
  <2> QED BY <1>1, <2>1, PlaceFrame
<1>6. HeadInv'
  BY HeadFrame DEF ReadJournal, evidence
<1> QED BY <1>1, <1>3, <1>4, <1>5, <1>6 DEF IInv

(* The decision changes no file; the authority that is there decides. *)
LEMMA AssessStep ==
  ASSUME IInv, NEW p \in Proc, Assess(p) \/ AssessRollBack(p)
  PROVE  IInv'
<1>1. /\ pc[p] = "assessing" /\ UNCHANGED <<files, plan, evidence>>
      /\ \/ Move(p, "assessing", "cleanQuarantine") /\ IsBPlus
         \/ Move(p, "assessing", "completing") /\ ~ IsBPlus
         \/ Move(p, "assessing", "removing") /\ legacy
         \/ End(p) /\ UNCHANGED kills
  BY DEF Assess, AssessRollBack, At
<1>2. CASE End(p) /\ UNCHANGED kills
  BY <1>1, <1>2, EndStep DEF IInv, TypeOK
<1>3. ASSUME NEW to \in {"cleanQuarantine", "completing", "removing"},
             Move(p, "assessing", to),
             to = "cleanQuarantine" => IsBPlus,
             to = "removing" => legacy
      PROVE  IInv'
  <2>1. /\ pc'[p] = to
        /\ pc' \in [Proc -> Places] /\ LockInv' /\ Alone(p)
        /\ UNCHANGED <<lock, kills>>
    BY <1>1, <1>3, MoveFrame DEF Held, Places, Move, plan
  <2>2. TypeOK'
    BY <1>1, <2>1 DEF IInv, TypeOK, Places, files, plan, evidence
  <2>3. KeyInv' /\ JournalInv'
    BY <1>1, FilesFrame DEF plan
  <2>4. PlaceOK(p, "assessing") /\ att[p] \in 1 .. made /\ journal = att[p]
    BY <1>1 DEF IInv, PlaceInv, PlaceOK
  <2>5. IsBPlus => home = Whole
    BY DEF IInv, KeyInv, IsBPlus, Whole, IdentityParts
  <2>6. PlaceOK(p, pc[p])'
    BY <1>1, <1>3, <2>1, <2>4, <2>5 DEF files, plan, PlaceOK
  <2>7. HeadInv'
    BY <1>1, HeadFrame DEF plan, evidence
  <2> QED BY <2>1, <2>2, <2>3, <2>6, <2>7, PlaceFrame DEF IInv
<1> QED BY <1>1, <1>2, <1>3

(* With the journal of a rolled-back attempt goes the last trace of it. *)
LEMMA RollJournalStep ==
  ASSUME IInv, NEW p \in Proc, RollJournal(p)
  PROVE  IInv'
<1>1. /\ pc[p] = "rollJournal" /\ journal' = None
      /\ UNCHANGED <<temp, stage, dest, legacy, quarantine, home, owner, plan, evidence, kills>>
  BY DEF RollJournal, At
<1>2. /\ legacy /\ stage[att[p]] = {} /\ temp[att[p]] = None
      /\ att[p] \in Attempts /\ journal = att[p]
  BY <1>1, MadeInRange DEF IInv, PlaceInv, PlaceOK
<1>3. /\ pc'[p] \in {"idle", "checking"} /\ (pc'[p] = "checking" => want[p] # None)
      /\ pc' \in [Proc -> Places] /\ lock' \in Proc \cup {None} /\ LockInv' /\ Alone(p)
  <2>1. CASE want[p] = None
    BY <1>1, <2>1, EndFrame DEF RollJournal, Outside, plan
  <2>2. CASE want[p] # None
    <3>1. Move(p, "rollJournal", "checking")
      BY <1>1, <2>2 DEF RollJournal, Move, At
    <3> QED BY <1>1, <2>2, <3>1, MoveFrame DEF Held, Places, Move, plan, IInv, TypeOK
  <2> QED BY <2>1, <2>2
<1>4. TypeOK'
  BY <1>1, <1>3 DEF IInv, TypeOK, Places, plan, evidence
<1>5. KeyInv'
  BY <1>1 DEF IInv, KeyInv
<1>6. JournalInv'
  <2>1. \A a \in Attempts : Bare(a)'
    BY <1>1, <1>2 DEF IInv, JournalInv, Bare
  <2>2. Untouched'
    BY <1>1, <1>2 DEF IInv, KeyInv, Untouched
  <2> QED BY <1>1, <2>1, <2>2 DEF JournalInv
<1>7. PlaceInv'
  <2>1. PlaceOK(p, pc[p])'
    BY <1>1, <1>3 DEF plan, PlaceOK
  <2> QED BY <1>3, <2>1, PlaceFrame
<1>8. HeadInv'
  BY <1>1, HeadFrame DEF plan, evidence
<1> QED BY <1>3, <1>4, <1>5, <1>6, <1>7, <1>8 DEF IInv

----------------------------------------------------------------------------
(* Invocations lost inside a step *)

(* What they leave belongs to the attempt of the journal, which still is    *)
(* the legacy home's; the last is lost after the journal is gone.           *)
LEMMA LostInsideStep ==
  ASSUME IInv, NEW p \in Proc,
         TearPackage(p) \/ KillStaging(p) \/ KillRemoving(p) \/ CleanStage(p)
  PROVE  IInv'
<1>1. /\ End(p) /\ kills' \in 0 .. MaxKills
      /\ UNCHANGED <<journal, dest, legacy, quarantine, home, owner, plan, evidence>>
  BY LostKills DEF TearPackage, KillStaging, KillRemoving, CleanStage, IInv, TypeOK
<1>2. pc[p] \in {"journaled", "packaged", "removing", "cleanStage"}
  BY DEF TearPackage, KillStaging, KillRemoving, CleanStage, At
<1>3. /\ pc'[p] = "idle" /\ pc' \in [Proc -> Places] /\ lock' \in Proc \cup {None} /\ LockInv'
      /\ Alone(p)
  BY <1>1, <1>2, EndFrame DEF Outside, plan
<1>4. att[p] \in Attempts
  BY <1>2, MadeInRange DEF IInv, PlaceInv, PlaceOK
<1>5. \/ UNCHANGED stage /\ temp' = [temp EXCEPT ![att[p]] = Torn] /\ pc[p] = "journaled"
      \/ UNCHANGED temp /\ \E left \in SUBSET Parts :
           /\ stage' = [stage EXCEPT ![att[p]] = left]
           /\ pc[p] = "packaged" \/ left \subseteq stage[att[p]]
  <2>1. CASE TearPackage(p)
    BY <2>1 DEF TearPackage, At
  <2>2. CASE KillStaging(p)
    BY <2>2 DEF KillStaging, At, Parts
  <2>3. CASE KillRemoving(p)
    BY <1>4, <2>3 DEF KillRemoving, IInv, TypeOK
  <2>4. CASE CleanStage(p)
    <3>1. UNCHANGED temp /\ stage' = [stage EXCEPT ![att[p]] = {}]
      BY <2>4 DEF CleanStage
    <3>2. {} \in SUBSET Parts /\ {} \subseteq stage[att[p]]
      OBVIOUS
    <3> QED BY <3>1, <3>2
  <2> QED BY <2>1, <2>2, <2>3, <2>4
<1>6. TypeOK'
  <2>1. temp' \in [Attempts -> {None, Torn, "whole"}] /\ stage' \in [Attempts -> SUBSET Parts]
    BY <1>4, <1>5 DEF IInv, TypeOK
  <2> QED BY <1>1, <1>3, <2>1 DEF IInv, TypeOK, Places, plan, evidence
<1>7. /\ pc[p] # "cleanStage" => journal = att[p] /\ home = {}
      /\ pc[p] = "cleanStage" => journal = None
  BY <1>2 DEF IInv, PlaceInv, PlaceOK, KeyInv
<1>8. KeyInv'
  <2>1. home # {} => \A a \in Attempts : "keys" \notin stage'[a]
    BY <1>2, <1>4, <1>5, <1>7 DEF IInv, TypeOK, KeyInv
  <2> QED BY <1>1, <2>1 DEF IInv, KeyInv
<1>9. JournalInv'
  <2>1. \A a \in Attempts : a # journal => Bare(a)'
    BY <1>2, <1>4, <1>5, <1>7 DEF IInv, TypeOK, JournalInv, Bare
  <2> QED BY <1>1, <2>1 DEF IInv, JournalInv, Untouched, Migrated, plan
<1>10. PlaceInv'
  <2>1. PlaceOK(p, pc[p])'
    BY <1>3 DEF PlaceOK
  <2> QED BY <1>3, <2>1, PlaceFrame
<1>11. HeadInv'
  BY <1>1, HeadFrame DEF plan, evidence
<1> QED BY <1>3, <1>6, <1>8, <1>9, <1>10, <1>11 DEF IInv

----------------------------------------------------------------------------
(* The receipt recovery *)

LEMMA RecoverPairStep ==
  ASSUME IInv, RecoverPair
  PROVE  IInv'
<1>1. /\ pair # "none" /\ lock = None /\ head' = head + 1 /\ pair' = "none"
      /\ UNCHANGED <<pc, lock, files, plan, kills>>
  BY DEF RecoverPair
<1>2. TypeOK'
  BY <1>1 DEF IInv, TypeOK, files, plan
<1>3. LockInv'
  BY <1>1 DEF IInv, LockInv, Outside
<1>4. KeyInv' /\ JournalInv'
  BY <1>1, FilesFrame DEF plan
<1>5. PlaceInv'
  BY <1>1 DEF IInv, PlaceInv, PlaceOK, files, plan, Migrated
<1>6. HeadInv'
  <2>1. head = 1 /\ head' = 2
    BY <1>1 DEF IInv, HeadInv
  <2> QED BY <1>1, <2>1 DEF IInv, HeadInv, plan
<1> QED BY <1>2, <1>3, <1>4, <1>5, <1>6 DEF IInv

----------------------------------------------------------------------------
(* The theorems *)

LEMMA InitHolds == Init => IInv
<1> SUFFICES ASSUME Init PROVE IInv
  OBVIOUS
<1>1. TypeOK
  <2>1. kills \in 0 .. MaxKills /\ made \in 0 .. MaxAttempts
    BY BoundsAreNat DEF Init
  <2> QED BY <2>1 DEF Init, TypeOK
<1>2. LockInv
  BY NamesApart DEF Init, LockInv, Outside
<1>3. KeyInv /\ JournalInv
  BY NamesApart DEF Init, KeyInv, JournalInv, Bare, Untouched
<1>4. PlaceInv
  BY DEF Init, PlaceInv, PlaceOK
<1>5. HeadInv
  BY DEF Init, HeadInv
<1> QED BY <1>1, <1>2, <1>3, <1>4, <1>5 DEF IInv

LEMMA StepHolds == IInv /\ [Next]_vars => IInv'
<1> SUFFICES ASSUME IInv, [Next]_vars PROVE IInv'
  OBVIOUS
<1>1. CASE UNCHANGED vars
  <2>1. UNCHANGED <<pc, lock, files, plan, evidence, kills>>
    BY <1>1 DEF vars
  <2>2. TypeOK' /\ LockInv' /\ PlaceInv' /\ HeadInv'
    BY <2>1 DEF IInv, TypeOK, LockInv, Outside, PlaceInv, PlaceOK, Migrated, HeadInv, files, plan,
                evidence
  <2> QED BY <2>1, <2>2, FilesFrame DEF IInv, plan
<1>2. ASSUME NEW p \in Proc, Work(p) PROVE IInv'
  <2>1. CASE TakeLock(p) \/ WriteJournal(p) \/ RefuseMigration(p) \/ StagePackage(p)
             \/ StageAuthority(p)
    BY <2>1, TakeLockStep, WriteJournalStep, RefusalStep, StagePackageStep, StageAuthorityStep
  <2>2. CASE ReadJournal(p) \/ UnreadableJournal(p) \/ Assess(p) \/ AssessRollBack(p)
    BY <2>2, ReadJournalStep, RefusalStep, AssessStep
  <2>3. CASE RollStage(p) \/ RollTemp(p) \/ RollJournal(p)
    BY <2>3, RollStageStep, RollTempStep, RollJournalStep
  <2>4. CASE SetLegacyKeyAside(p) \/ PublishPackage(p) \/ PublishAuthority(p) \/ PublishMarker(p)
             \/ Confirm(p)
    BY <2>4, SetLegacyKeyAsideStep, PublishPackageStep, PublishAuthorityStep, PublishMarkerStep,
       ConfirmStep
  <2>5. CASE CleanQuarantine(p) \/ CleanTemp(p) \/ CleanJournal(p) \/ CleanStage(p)
    BY <2>5, CleanQuarantineStep, CleanTempStep, CleanJournalStep, LostInsideStep
  <2> QED BY <1>2, <2>1, <2>2, <2>3, <2>4, <2>5 DEF Work
<1>3. ASSUME NEW p \in Proc,
             \/ \E path \in Paths : ReadLedger(p, path)
             \/ StartRecover(p) \/ Kill(p) \/ TearJournal(p) \/ TearPackage(p) \/ KillStaging(p)
             \/ KillRemoving(p)
      PROVE  IInv'
  BY <1>3, ReadLedgerStep, StartRecoverStep, KillStep, TearJournalStep, LostInsideStep
<1> QED BY <1>1, <1>2, <1>3, RecoverPairStep DEF Next

(* Whatever the interleaving of migrations, recoveries and interruptions,   *)
(* the home is in one of the cases the recovery tells apart.                *)
THEOREM Invariance == Spec => []IInv
<1> QED BY InitHolds, StepHolds, PTL DEF Spec

(* The legacy key is at its place, set aside or published, and at its place *)
(* only while nothing is published (migration.go).                          *)
THEOREM LegacyKeysAreSafe == Spec => []LegacyKeyIsSafe
<1>1. IInv => LegacyKeyIsSafe
  BY DEF IInv, KeyInv, LegacyKeyIsSafe, Whole, IdentityParts
<1> QED BY <1>1, Invariance, PTL

(* A home without a journal is the legacy home or a whole B+ home, and no   *)
(* private key is left outside it.                                         *)
THEOREM HomesAreAllOrNothing == Spec => []AllOrNothing
<1>1. IInv => AllOrNothing
  BY MadeInRange DEF IInv, JournalInv, AllOrNothing, Quiet, Bare
<1> QED BY <1>1, Invariance, PTL

(* A genesis names a receipt that was in the ledger when the lock was not   *)
(* held yet, and misses at most the one that was being recovered.           *)
THEOREM GenesesNameReceipts == Spec => []GenesisNamesAReceipt
<1>1. IInv => GenesisNamesAReceipt
  BY DEF IInv, HeadInv, GenesisNamesAReceipt
<1> QED BY <1>1, Invariance, PTL
=============================================================================
