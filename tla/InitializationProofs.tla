-------------------------- MODULE InitializationProofs --------------------------
(***************************************************************************)
(* The creation of a home for any number of invocations, attempts,         *)
(* destinations and kills: a home has its package also when commands       *)
(* overlap, and is whole or absent when they wait for each other.          *)
(*                                                                         *)
(* The argument of the first: a package is published by a rename that      *)
(* replaces nothing and is never taken back, so what an invocation saw     *)
(* published at its check still is when it renames the home.  Of the       *)
(* second: only the attempt of the journal has anything staged, and what   *)
(* the roll-back may remove follows from where the invocation stands.      *)
(*                                                                         *)
(* Then the order in which the journals of a home are recovered, for any   *)
(* number of `ueg recover` beside any number of interruptions.             *)
(***************************************************************************)
EXTENDS Initialization, RecoveryOrder, TLAPS

----------------------------------------------------------------------------
(* PART ONE, the creation of a home: the inductive invariant *)

Places == {"idle", "checking", "planned", "journaled", "packaged", "keyed", "marking", "reading",
           "assessing", "removing", "removingRest", "rollTemp", "rollJournal", "completing",
           "validating", "renaming", "confirming", "cleanTemp", "cleanJournal", "cleanStage",
           "reported"}

Staging     == {"journaled", "packaged", "keyed", "marking"}
RollingBack == {"removing", "removingRest", "rollTemp", "rollJournal"}
Publishing  == {"completing", "validating", "renaming"}
CleaningUp  == {"confirming", "cleanTemp", "cleanJournal"}
OnJournal   == Staging \cup {"assessing"} \cup RollingBack \cup Publishing \cup CleaningUp

(* Attempts, their journals and their packages, whoever runs beside whom.   *)
(* A package that is published stays, so what an invocation saw published   *)
(* still is when it publishes the home.                                    *)
AttemptInv ==
  /\ journal \in (1 .. made) \cup {None, Torn}
  /\ \A p \in Proc :
       /\ pc[p] \in OnJournal \cup {"cleanStage"} => att[p] \in 1 .. made
       /\ pc[p] \in {"checking", "planned"} => want[p] # None
       /\ pc[p] # "idle" /\ mode[p] = "init" => want[p] # None
  /\ \A a \in 1 .. made : target[a] \in Paths

PackageInv ==
  /\ \A x \in Paths : dest[x] # None => dest[x] \in 1 .. made /\ target[dest[x]] = x
  /\ \A p \in Proc : pc[p] \in {"validating", "renaming"} => Published(att[p])
  /\ home # None => home.id \in 1 .. made /\ Published(home.id)

(* The rest holds of commands that wait for each other: at most one of them *)
(* is at work, only the attempt of the journal has anything staged, and     *)
(* nothing is staged beside a home.                                        *)
OneAtATime == \A p, q \in Proc : p # q => pc[p] = "idle" \/ pc[q] = "idle"

Bare(a) == stage[a] = None /\ temp[a] = None

SoloFiles ==
  /\ \A a \in Attempts : a # journal => Bare(a)
  /\ home = None => \A x \in Paths : dest[x] \in {None, journal}
  /\ home # None =>
       /\ home.state = "whole"
       /\ \A a \in Attempts : stage[a] = None
       /\ \A x \in Paths : dest[x] \in {None, home.id}

SoloPlace(p, at) ==
  /\ at \in {"checking", "planned", "cleanStage"} => journal = None
  /\ at \in OnJournal => journal = att[p]
  /\ at \in {"planned"} \cup Staging \cup RollingBack \cup Publishing => home = None
  /\ at \in Staging \cup RollingBack => dest[target[att[p]]] = None
  /\ at \in {"journaled", "packaged", "rollTemp", "rollJournal"} => stage[att[p]] = None
  /\ at = "keyed" => stage[att[p]] = "keys"
  /\ at = "marking" => stage[att[p]] = "marked"
  /\ at \in Publishing => stage[att[p]] = "whole"
  /\ at \in {"rollJournal", "cleanJournal"} => temp[att[p]] = None
  /\ at \in {"cleanTemp", "cleanJournal"} => home = [id |-> att[p], state |-> "whole"]
  /\ at = "cleanStage" => home # None

SoloInv == ~ overlap => OneAtATime /\ SoloFiles /\ \A p \in Proc : SoloPlace(p, pc[p])

IInv == TypeOK /\ AttemptInv /\ PackageInv /\ SoloInv

USE DEF Staging, RollingBack, Publishing, CleaningUp, OnJournal

----------------------------------------------------------------------------
(* What a step leaves alone *)

LEMMA GotoFrame ==
  ASSUME IInv, NEW p \in Proc, NEW to \in Places, Goto(p, to)
  PROVE  /\ pc'[p] = to /\ pc' \in [Proc -> Places]
         /\ \A q \in Proc \ {p} : pc'[q] = pc[q]
BY DEF IInv, TypeOK, Goto, Places

LEMMA MadeInRange ==
  ASSUME IInv
  PROVE  1 .. made \subseteq Attempts /\ Attempts \cap {None, Torn} = {} /\ None # Torn
BY BoundsAreNat, NamesApart DEF IInv, TypeOK, Attempts

(* The part of TypeOK that speaks of files. *)
FileTypes ==
  /\ journal \in Attempts \cup {None, Torn}
  /\ temp \in [Attempts -> {None, Torn, "whole"}]
  /\ stage \in [Attempts -> Contents \cup {None}]
  /\ dest \in [Paths -> Attempts \cup {None}]
  /\ home \in [id : Attempts, state : Contents] \cup {None}

(* Only one is at work when commands wait for each other. *)
LEMMA SoloFrame ==
  ASSUME IInv, NEW p \in Proc, pc[p] # "idle" \/ MayStart(p), UNCHANGED overlap,
         \A q \in Proc \ {p} : pc'[q] = pc[q],
         ~ overlap => SoloFiles' /\ SoloPlace(p, pc[p])'
  PROVE  SoloInv'
<1> SUFFICES ASSUME ~ overlap PROVE OneAtATime' /\ \A q \in Proc : SoloPlace(q, pc[q])'
  BY DEF SoloInv
<1>1. \A q \in Proc \ {p} : pc'[q] = "idle"
  BY DEF IInv, SoloInv, OneAtATime, MayStart
<1>2. OneAtATime'
  BY <1>1 DEF OneAtATime
<1>3. \A q \in Proc \ {p} : SoloPlace(q, pc[q])'
  BY <1>1 DEF SoloPlace
<1> QED BY <1>2, <1>3

(* A published package stays, whatever else an invocation does. *)
LEMMA PackageFrame ==
  ASSUME IInv, NEW p \in Proc, NEW to \in Places, Goto(p, to), UNCHANGED <<plan, dest>>,
         to \in {"validating", "renaming"} => Published(att[p]),
         home' # None => home # None /\ home'.id = home.id
  PROVE  PackageInv'
BY GotoFrame DEF IInv, PackageInv, Published, plan

(* A step on a journal that does not start an attempt. *)
LEMMA FileStep ==
  ASSUME IInv, NEW p \in Proc, NEW to \in Places \ {"planned"}, Goto(p, to), UNCHANGED <<plan>>,
         kills' \in 0 .. MaxKills[overlap],
         FileTypes', journal' \in {journal, None},
         pc[p] # "idle",
         to \in OnJournal \cup {"cleanStage"} => pc[p] \in OnJournal,
         to = "checking" => mode[p] = "init",
         PackageInv',
         ~ overlap => SoloFiles' /\ SoloPlace(p, to)'
  PROVE  IInv'
<1>1. /\ pc'[p] = to /\ pc' \in [Proc -> Places]
      /\ \A q \in Proc \ {p} : pc'[q] = pc[q]
  BY GotoFrame
<1>2. TypeOK'
  BY <1>1 DEF IInv, TypeOK, FileTypes, Places, plan
<1>3. AttemptInv'
  BY <1>1 DEF IInv, AttemptInv, plan
<1>4. SoloInv'
  BY <1>1, SoloFrame DEF plan
<1> QED BY <1>2, <1>3, <1>4 DEF IInv

(* A command that ends, in whatever way, changes no file. *)
LEMMA EndStep ==
  ASSUME IInv, NEW p \in Proc, pc[p] # "idle", Goto(p, "idle"), UNCHANGED <<files, plan>>,
         kills' \in 0 .. MaxKills[overlap]
  PROVE  IInv'
<1>1. FileTypes'
  BY DEF IInv, TypeOK, FileTypes, files
<1>2. PackageInv'
  BY PackageFrame DEF Places, files
<1>3. ~ overlap => SoloFiles' /\ SoloPlace(p, "idle")'
  BY DEF IInv, SoloInv, SoloFiles, SoloPlace, Bare, files
<1> QED BY <1>1, <1>2, <1>3, FileStep DEF Places, files

LEMMA KillsKept ==
  ASSUME IInv
  PROVE  kills \in 0 .. MaxKills[overlap]
BY DEF IInv, TypeOK

LEMMA LostKills ==
  ASSUME IInv, NEW p \in Proc, Lost(p)
  PROVE  Goto(p, "idle") /\ kills' \in 0 .. MaxKills[overlap]
BY BoundsAreNat DEF IInv, TypeOK, Lost

LEMMA EndSteps ==
  ASSUME IInv, NEW p \in Proc, JournalTaken(p) \/ Report(p) \/ Kill(p)
  PROVE  IInv'
BY EndStep, LostKills, KillsKept DEF JournalTaken, Report, Kill, Fail, At

(* What the invocation at work knows. *)
LEMMA HolderFacts ==
  ASSUME IInv, NEW p \in Proc, pc[p] \in OnJournal \cup {"cleanStage"}
  PROVE  /\ FileTypes /\ att[p] \in Attempts /\ att[p] \in 1 .. made
         /\ kills \in 0 .. MaxKills[overlap]
         /\ target[att[p]] \in Paths
         /\ ~ overlap => SoloFiles /\ SoloPlace(p, pc[p])
         /\ ~ overlap /\ pc[p] # "cleanStage" => journal = att[p]
BY MadeInRange DEF IInv, TypeOK, FileTypes, AttemptInv, SoloInv, SoloPlace

----------------------------------------------------------------------------
(* Staging *)

LEMMA StagePackageStep ==
  ASSUME IInv, NEW p \in Proc, StagePackage(p)
  PROVE  IInv'
<1>1. pc[p] = "journaled" /\ UNCHANGED <<plan, kills>>
  BY DEF StagePackage, At, Fail
<1>2. /\ FileTypes /\ att[p] \in Attempts /\ att[p] \in 1 .. made
      /\ kills \in 0 .. MaxKills[overlap] /\ target[att[p]] \in Paths
      /\ ~ overlap => SoloFiles /\ SoloPlace(p, pc[p]) /\ journal = att[p]
  BY <1>1, HolderFacts
<1>3. CASE Goto(p, "packaged")
  <2>1. FileTypes' /\ journal' \in {journal, None}
    BY <1>1, <1>2, <1>3 DEF StagePackage, FileTypes
  <2>2. PackageInv'
    BY <1>1, <1>3, PackageFrame DEF StagePackage, Places
  <2>3. ASSUME ~ overlap PROVE SoloFiles' /\ SoloPlace(p, "packaged")'
    BY <1>1, <1>2, <1>3, <2>3, MadeInRange DEF StagePackage, plan, FileTypes, SoloFiles,
                        SoloPlace, Bare
  <2> QED BY <1>1, <1>2, <1>3, <2>1, <2>2, <2>3, FileStep DEF Places, StagePackage
<1> QED BY <1>3 DEF StagePackage

LEMMA StageKeysStep ==
  ASSUME IInv, NEW p \in Proc, StageKeys(p)
  PROVE  IInv'
<1>1. pc[p] = "packaged" /\ UNCHANGED <<plan, kills>>
  BY DEF StageKeys, At, Fail
<1>2. /\ FileTypes /\ att[p] \in Attempts /\ att[p] \in 1 .. made
      /\ kills \in 0 .. MaxKills[overlap] /\ target[att[p]] \in Paths
      /\ ~ overlap => SoloFiles /\ SoloPlace(p, pc[p]) /\ journal = att[p]
  BY <1>1, HolderFacts
<1>3. CASE Goto(p, "keyed")
  <2>1. FileTypes' /\ journal' \in {journal, None}
    BY <1>1, <1>2, <1>3 DEF StageKeys, FileTypes, Contents, Built
  <2>2. PackageInv'
    BY <1>1, <1>3, PackageFrame DEF StageKeys, Places
  <2>3. ASSUME ~ overlap PROVE SoloFiles' /\ SoloPlace(p, "keyed")'
    BY <1>1, <1>2, <1>3, <2>3, MadeInRange DEF StageKeys, plan, FileTypes, SoloFiles, SoloPlace,
                        Bare
  <2> QED BY <1>1, <1>2, <1>3, <2>1, <2>2, <2>3, FileStep DEF Places, StageKeys
<1> QED BY <1>3 DEF StageKeys

LEMMA StageMarkerStep ==
  ASSUME IInv, NEW p \in Proc, StageMarker(p)
  PROVE  IInv'
<1>1. pc[p] = "keyed" /\ UNCHANGED <<plan, kills>>
  BY DEF StageMarker, At, Fail
<1>2. /\ FileTypes /\ att[p] \in Attempts /\ att[p] \in 1 .. made
      /\ kills \in 0 .. MaxKills[overlap] /\ target[att[p]] \in Paths
      /\ ~ overlap => SoloFiles /\ SoloPlace(p, pc[p]) /\ journal = att[p]
  BY <1>1, HolderFacts
<1>3. CASE Goto(p, "marking")
  <2>1. FileTypes' /\ journal' \in {journal, None}
    BY <1>1, <1>2, <1>3 DEF StageMarker, FileTypes, Contents, Built, Damaged
  <2>2. PackageInv'
    BY <1>1, <1>3, PackageFrame DEF StageMarker, Places
  <2>3. ASSUME ~ overlap PROVE SoloFiles' /\ SoloPlace(p, "marking")'
    BY <1>1, <1>2, <1>3, <2>3, MadeInRange DEF StageMarker, plan, FileTypes, SoloFiles,
                        SoloPlace, Bare
  <2> QED BY <1>1, <1>2, <1>3, <2>1, <2>2, <2>3, FileStep DEF Places, StageMarker
<1> QED BY <1>3 DEF StageMarker

LEMMA StageLifecycleStep ==
  ASSUME IInv, NEW p \in Proc, StageLifecycle(p)
  PROVE  IInv'
<1>1. pc[p] = "marking" /\ UNCHANGED <<plan, kills>>
  BY DEF StageLifecycle, At, Fail
<1>2. /\ FileTypes /\ att[p] \in Attempts /\ att[p] \in 1 .. made
      /\ kills \in 0 .. MaxKills[overlap] /\ target[att[p]] \in Paths
      /\ ~ overlap => SoloFiles /\ SoloPlace(p, pc[p]) /\ journal = att[p]
  BY <1>1, HolderFacts
<1>3. CASE Goto(p, "completing")
  <2>1. FileTypes' /\ journal' \in {journal, None}
    BY <1>1, <1>2, <1>3 DEF StageLifecycle, FileTypes, Contents, Built, Damaged
  <2>2. PackageInv'
    BY <1>1, <1>3, PackageFrame DEF StageLifecycle, Places
  <2>3. ASSUME ~ overlap PROVE SoloFiles' /\ SoloPlace(p, "completing")'
    BY <1>1, <1>2, <1>3, <2>3, MadeInRange DEF StageLifecycle, plan, FileTypes, SoloFiles,
                        SoloPlace, Bare
  <2> QED BY <1>1, <1>2, <1>3, <2>1, <2>2, <2>3, FileStep DEF Places, StageLifecycle
<1>4. CASE Goto(p, "idle")
  <2>1. FileTypes' /\ journal' \in {journal, None}
    BY <1>1, <1>2, <1>4 DEF StageLifecycle, FileTypes, Contents, Built, Damaged
  <2>2. PackageInv'
    BY <1>1, <1>4, PackageFrame DEF StageLifecycle, Places
  <2>3. ASSUME ~ overlap PROVE SoloFiles' /\ SoloPlace(p, "idle")'
    BY <1>1, <1>2, <1>4, <2>3, MadeInRange DEF StageLifecycle, plan, FileTypes, SoloFiles,
                        SoloPlace, Bare
  <2> QED BY <1>1, <1>2, <1>4, <2>1, <2>2, <2>3, FileStep DEF Places, StageLifecycle
<1> QED BY <1>3, <1>4 DEF StageLifecycle

----------------------------------------------------------------------------
(* Roll-back *)

LEMMA RemoveNothingStep ==
  ASSUME IInv, NEW p \in Proc, RemoveNothing(p)
  PROVE  IInv'
<1>1. pc[p] = "removing" /\ UNCHANGED <<plan, kills>>
  BY DEF RemoveNothing, At, Fail
<1>2. /\ FileTypes /\ att[p] \in Attempts /\ att[p] \in 1 .. made
      /\ kills \in 0 .. MaxKills[overlap] /\ target[att[p]] \in Paths
      /\ ~ overlap => SoloFiles /\ SoloPlace(p, pc[p]) /\ journal = att[p]
  BY <1>1, HolderFacts
<1>3. CASE Goto(p, "rollTemp")
  <2>1. FileTypes' /\ journal' \in {journal, None}
    BY <1>1, <1>2, <1>3 DEF RemoveNothing, FileTypes, files
  <2>2. PackageInv'
    BY <1>1, <1>3, PackageFrame DEF RemoveNothing, Places, files
  <2>3. ASSUME ~ overlap PROVE SoloFiles' /\ SoloPlace(p, "rollTemp")'
    BY <1>1, <1>2, <1>3, <2>3, MadeInRange DEF RemoveNothing, plan, FileTypes, SoloFiles,
                        SoloPlace, Bare, files
  <2> QED BY <1>1, <1>2, <1>3, <2>1, <2>2, <2>3, FileStep DEF Places, RemoveNothing
<1> QED BY <1>3 DEF RemoveNothing

LEMMA RemovePartStep ==
  ASSUME IInv, NEW p \in Proc, RemovePart(p)
  PROVE  IInv'
<1>1. pc[p] = "removing" /\ UNCHANGED <<plan, kills>>
  BY DEF RemovePart, At, Fail, RemovePartOf
<1>2. /\ FileTypes /\ att[p] \in Attempts /\ att[p] \in 1 .. made
      /\ kills \in 0 .. MaxKills[overlap] /\ target[att[p]] \in Paths
      /\ ~ overlap => SoloFiles /\ SoloPlace(p, pc[p]) /\ journal = att[p]
  BY <1>1, HolderFacts
<1>3. CASE Goto(p, "removingRest")
  <2>1. FileTypes' /\ journal' \in {journal, None}
    BY <1>1, <1>2, <1>3 DEF RemovePart, FileTypes, RemovePartOf, Contents, Damaged
  <2>2. PackageInv'
    BY <1>1, <1>3, PackageFrame DEF RemovePart, Places, RemovePartOf
  <2>3. ASSUME ~ overlap PROVE SoloFiles' /\ SoloPlace(p, "removingRest")'
    BY <1>1, <1>2, <1>3, <2>3, MadeInRange DEF RemovePart, plan, FileTypes, SoloFiles,
                        SoloPlace, Bare, RemovePartOf
  <2> QED BY <1>1, <1>2, <1>3, <2>1, <2>2, <2>3, FileStep DEF Places, RemovePart
<1> QED BY <1>3 DEF RemovePart, RemovePartOf

LEMMA RemoveRestStep ==
  ASSUME IInv, NEW p \in Proc, RemoveRest(p)
  PROVE  IInv'
<1>1. pc[p] = "removingRest" /\ UNCHANGED <<plan, kills>>
  BY DEF RemoveRest, At, Fail
<1>2. /\ FileTypes /\ att[p] \in Attempts /\ att[p] \in 1 .. made
      /\ kills \in 0 .. MaxKills[overlap] /\ target[att[p]] \in Paths
      /\ ~ overlap => SoloFiles /\ SoloPlace(p, pc[p]) /\ journal = att[p]
  BY <1>1, HolderFacts
<1>3. CASE Goto(p, "rollTemp")
  <2>1. FileTypes' /\ journal' \in {journal, None}
    BY <1>1, <1>2, <1>3 DEF RemoveRest, FileTypes, Contents, Damaged
  <2>2. PackageInv'
    BY <1>1, <1>3, PackageFrame DEF RemoveRest, Places
  <2>3. ASSUME ~ overlap PROVE SoloFiles' /\ SoloPlace(p, "rollTemp")'
    BY <1>1, <1>2, <1>3, <2>3, MadeInRange DEF RemoveRest, plan, FileTypes, SoloFiles,
                        SoloPlace, Bare
  <2> QED BY <1>1, <1>2, <1>3, <2>1, <2>2, <2>3, FileStep DEF Places, RemoveRest
<1> QED BY <1>3 DEF RemoveRest

LEMMA RollTempStep ==
  ASSUME IInv, NEW p \in Proc, RollTemp(p)
  PROVE  IInv'
<1>1. pc[p] = "rollTemp" /\ UNCHANGED <<plan, kills>>
  BY DEF RollTemp, At, Fail
<1>2. /\ FileTypes /\ att[p] \in Attempts /\ att[p] \in 1 .. made
      /\ kills \in 0 .. MaxKills[overlap] /\ target[att[p]] \in Paths
      /\ ~ overlap => SoloFiles /\ SoloPlace(p, pc[p]) /\ journal = att[p]
  BY <1>1, HolderFacts
<1>3. CASE Goto(p, "rollJournal")
  <2>1. FileTypes' /\ journal' \in {journal, None}
    BY <1>1, <1>2, <1>3 DEF RollTemp, FileTypes
  <2>2. PackageInv'
    BY <1>1, <1>3, PackageFrame DEF RollTemp, Places
  <2>3. ASSUME ~ overlap PROVE SoloFiles' /\ SoloPlace(p, "rollJournal")'
    BY <1>1, <1>2, <1>3, <2>3, MadeInRange DEF RollTemp, plan, FileTypes, SoloFiles, SoloPlace,
                        Bare
  <2> QED BY <1>1, <1>2, <1>3, <2>1, <2>2, <2>3, FileStep DEF Places, RollTemp
<1> QED BY <1>3 DEF RollTemp

LEMMA RollJournalStep ==
  ASSUME IInv, NEW p \in Proc, RollJournal(p)
  PROVE  IInv'
<1>1. pc[p] = "rollJournal" /\ UNCHANGED <<plan, kills>>
  BY DEF RollJournal, At, Fail
<1>2. /\ FileTypes /\ att[p] \in Attempts /\ att[p] \in 1 .. made
      /\ kills \in 0 .. MaxKills[overlap] /\ target[att[p]] \in Paths
      /\ ~ overlap => SoloFiles /\ SoloPlace(p, pc[p]) /\ journal = att[p]
  BY <1>1, HolderFacts
<1>3. ASSUME mode[p] = "init", Goto(p, "checking") PROVE IInv'
  <2>1. FileTypes' /\ journal' \in {journal, None}
    BY <1>1, <1>2, <1>3 DEF RollJournal, FileTypes
  <2>2. PackageInv'
    BY <1>1, <1>3, PackageFrame DEF RollJournal, Places
  <2>3. ASSUME ~ overlap PROVE SoloFiles' /\ SoloPlace(p, "checking")'
    BY <1>1, <1>2, <1>3, <2>3, MadeInRange DEF RollJournal, plan, FileTypes, SoloFiles,
                        SoloPlace, Bare, IInv, PackageInv
  <2> QED BY <1>1, <1>2, <1>3, <2>1, <2>2, <2>3, FileStep DEF Places, RollJournal
<1>4. ASSUME mode[p] # "init", Goto(p, "idle") PROVE IInv'
  <2>1. FileTypes' /\ journal' \in {journal, None}
    BY <1>1, <1>2, <1>4 DEF RollJournal, FileTypes
  <2>2. PackageInv'
    BY <1>1, <1>4, PackageFrame DEF RollJournal, Places
  <2>3. ASSUME ~ overlap PROVE SoloFiles' /\ SoloPlace(p, "idle")'
    BY <1>1, <1>2, <1>4, <2>3, MadeInRange DEF RollJournal, plan, FileTypes, SoloFiles,
                        SoloPlace, Bare, IInv, PackageInv
  <2> QED BY <1>1, <1>2, <1>4, <2>1, <2>2, <2>3, FileStep DEF Places, RollJournal
<1> QED BY <1>3, <1>4 DEF RollJournal

----------------------------------------------------------------------------
(* Publication *)

LEMMA ValidateStageStep ==
  ASSUME IInv, NEW p \in Proc, ValidateStage(p)
  PROVE  IInv'
<1>1. pc[p] = "validating" /\ UNCHANGED <<plan, kills>>
  BY DEF ValidateStage, At, Fail
<1>2. /\ FileTypes /\ att[p] \in Attempts /\ att[p] \in 1 .. made
      /\ kills \in 0 .. MaxKills[overlap] /\ target[att[p]] \in Paths
      /\ ~ overlap => SoloFiles /\ SoloPlace(p, pc[p]) /\ journal = att[p]
  BY <1>1, HolderFacts
<1>3. CASE Goto(p, "confirming")
  <2>1. FileTypes' /\ journal' \in {journal, None}
    BY <1>1, <1>2, <1>3 DEF ValidateStage, FileTypes, files
  <2>2. PackageInv'
    BY <1>1, <1>3, PackageFrame DEF ValidateStage, Places, files, IInv, PackageInv
  <2>3. ASSUME ~ overlap PROVE SoloFiles' /\ SoloPlace(p, "confirming")'
    BY <1>1, <1>2, <1>3, <2>3, MadeInRange DEF ValidateStage, plan, FileTypes, SoloFiles,
                        SoloPlace, Bare, files, ValidStage
  <2> QED BY <1>1, <1>2, <1>3, <2>1, <2>2, <2>3, FileStep DEF Places, ValidateStage
<1>4. CASE Goto(p, "renaming")
  <2>1. FileTypes' /\ journal' \in {journal, None}
    BY <1>1, <1>2, <1>4 DEF ValidateStage, FileTypes, files
  <2>2. PackageInv'
    BY <1>1, <1>4, PackageFrame DEF ValidateStage, Places, files, IInv, PackageInv
  <2>3. ASSUME ~ overlap PROVE SoloFiles' /\ SoloPlace(p, "renaming")'
    BY <1>1, <1>2, <1>4, <2>3, MadeInRange DEF ValidateStage, plan, FileTypes, SoloFiles,
                        SoloPlace, Bare, files, ValidStage
  <2> QED BY <1>1, <1>2, <1>4, <2>1, <2>2, <2>3, FileStep DEF Places, ValidateStage
<1>5. CASE Goto(p, "idle")
  <2>1. FileTypes' /\ journal' \in {journal, None}
    BY <1>1, <1>2, <1>5 DEF ValidateStage, FileTypes, files
  <2>2. PackageInv'
    BY <1>1, <1>5, PackageFrame DEF ValidateStage, Places, files, IInv, PackageInv
  <2>3. ASSUME ~ overlap PROVE SoloFiles' /\ SoloPlace(p, "idle")'
    BY <1>1, <1>2, <1>5, <2>3, MadeInRange DEF ValidateStage, plan, FileTypes, SoloFiles,
                        SoloPlace, Bare, files, ValidStage
  <2> QED BY <1>1, <1>2, <1>5, <2>1, <2>2, <2>3, FileStep DEF Places, ValidateStage
<1> QED BY <1>3, <1>4, <1>5 DEF ValidateStage

LEMMA ConfirmStep ==
  ASSUME IInv, NEW p \in Proc, Confirm(p)
  PROVE  IInv'
<1>1. pc[p] = "confirming" /\ UNCHANGED <<plan, kills>>
  BY DEF Confirm, At, Fail
<1>2. /\ FileTypes /\ att[p] \in Attempts /\ att[p] \in 1 .. made
      /\ kills \in 0 .. MaxKills[overlap] /\ target[att[p]] \in Paths
      /\ ~ overlap => SoloFiles /\ SoloPlace(p, pc[p]) /\ journal = att[p]
  BY <1>1, HolderFacts
<1>3. ASSUME home = [id |-> att[p], state |-> "whole"], Goto(p, "cleanTemp") PROVE IInv'
  <2>1. FileTypes' /\ journal' \in {journal, None}
    BY <1>1, <1>2, <1>3 DEF Confirm, FileTypes, files
  <2>2. PackageInv'
    BY <1>1, <1>3, PackageFrame DEF Confirm, Places, files
  <2>3. ASSUME ~ overlap PROVE SoloFiles' /\ SoloPlace(p, "cleanTemp")'
    BY <1>1, <1>2, <1>3, <2>3, MadeInRange DEF Confirm, plan, FileTypes, SoloFiles, SoloPlace,
                        Bare, files
  <2> QED BY <1>1, <1>2, <1>3, <2>1, <2>2, <2>3, FileStep DEF Places, Confirm
<1>4. CASE Goto(p, "idle")
  <2>1. FileTypes' /\ journal' \in {journal, None}
    BY <1>1, <1>2, <1>4 DEF Confirm, FileTypes, files
  <2>2. PackageInv'
    BY <1>1, <1>4, PackageFrame DEF Confirm, Places, files
  <2>3. ASSUME ~ overlap PROVE SoloFiles' /\ SoloPlace(p, "idle")'
    BY <1>1, <1>2, <1>4, <2>3, MadeInRange DEF Confirm, plan, FileTypes, SoloFiles, SoloPlace,
                        Bare, files
  <2> QED BY <1>1, <1>2, <1>4, <2>1, <2>2, <2>3, FileStep DEF Places, Confirm
<1> QED BY <1>3, <1>4 DEF Confirm

----------------------------------------------------------------------------
(* Cleaning up *)

LEMMA CleanTempStep ==
  ASSUME IInv, NEW p \in Proc, CleanTemp(p)
  PROVE  IInv'
<1>1. pc[p] = "cleanTemp" /\ UNCHANGED <<plan, kills>>
  BY DEF CleanTemp, At, Fail
<1>2. /\ FileTypes /\ att[p] \in Attempts /\ att[p] \in 1 .. made
      /\ kills \in 0 .. MaxKills[overlap] /\ target[att[p]] \in Paths
      /\ ~ overlap => SoloFiles /\ SoloPlace(p, pc[p]) /\ journal = att[p]
  BY <1>1, HolderFacts
<1>3. CASE Goto(p, "cleanJournal")
  <2>1. FileTypes' /\ journal' \in {journal, None}
    BY <1>1, <1>2, <1>3 DEF CleanTemp, FileTypes
  <2>2. PackageInv'
    BY <1>1, <1>3, PackageFrame DEF CleanTemp, Places
  <2>3. ASSUME ~ overlap PROVE SoloFiles' /\ SoloPlace(p, "cleanJournal")'
    BY <1>1, <1>2, <1>3, <2>3, MadeInRange DEF CleanTemp, plan, FileTypes, SoloFiles, SoloPlace,
                        Bare
  <2> QED BY <1>1, <1>2, <1>3, <2>1, <2>2, <2>3, FileStep DEF Places, CleanTemp
<1> QED BY <1>3 DEF CleanTemp

LEMMA CleanJournalStep ==
  ASSUME IInv, NEW p \in Proc, CleanJournal(p)
  PROVE  IInv'
<1>1. pc[p] = "cleanJournal" /\ UNCHANGED <<plan, kills>>
  BY DEF CleanJournal, At, Fail
<1>2. /\ FileTypes /\ att[p] \in Attempts /\ att[p] \in 1 .. made
      /\ kills \in 0 .. MaxKills[overlap] /\ target[att[p]] \in Paths
      /\ ~ overlap => SoloFiles /\ SoloPlace(p, pc[p]) /\ journal = att[p]
  BY <1>1, HolderFacts
<1>3. CASE Goto(p, "cleanStage")
  <2>1. FileTypes' /\ journal' \in {journal, None}
    BY <1>1, <1>2, <1>3 DEF CleanJournal, FileTypes
  <2>2. PackageInv'
    BY <1>1, <1>3, PackageFrame DEF CleanJournal, Places
  <2>3. ASSUME ~ overlap PROVE SoloFiles' /\ SoloPlace(p, "cleanStage")'
    BY <1>1, <1>2, <1>3, <2>3, MadeInRange, NamesApart DEF CleanJournal, plan, FileTypes,
                        SoloFiles, SoloPlace, Bare, Contents, Built
  <2> QED BY <1>1, <1>2, <1>3, <2>1, <2>2, <2>3, FileStep DEF Places, CleanJournal
<1> QED BY <1>3 DEF CleanJournal

LEMMA CleanStageStep ==
  ASSUME IInv, NEW p \in Proc, CleanStage(p)
  PROVE  IInv'
<1>1. pc[p] = "cleanStage" /\ UNCHANGED <<plan, kills>>
  BY DEF CleanStage, At, Fail
<1>2. /\ FileTypes /\ att[p] \in Attempts /\ att[p] \in 1 .. made
      /\ kills \in 0 .. MaxKills[overlap] /\ target[att[p]] \in Paths
      /\ ~ overlap => SoloFiles /\ SoloPlace(p, pc[p])
  BY <1>1, HolderFacts
<1>3. CASE Goto(p, "reported")
  <2>1. FileTypes' /\ journal' \in {journal, None}
    BY <1>1, <1>2, <1>3 DEF CleanStage, FileTypes
  <2>2. PackageInv'
    BY <1>1, <1>3, PackageFrame DEF CleanStage, Places
  <2>3. ASSUME ~ overlap PROVE SoloFiles' /\ SoloPlace(p, "reported")'
    BY <1>1, <1>2, <1>3, <2>3, MadeInRange DEF CleanStage, plan, FileTypes, SoloFiles,
                        SoloPlace, Bare
  <2> QED BY <1>1, <1>2, <1>3, <2>1, <2>2, <2>3, FileStep DEF Places, CleanStage
<1> QED BY <1>3 DEF CleanStage

----------------------------------------------------------------------------
(* The beginning of an attempt *)

LEMMA StartFrame ==
  ASSUME IInv, NEW p \in Proc, MayStart(p), NEW to \in {"checking", "reading"}, Goto(p, to),
         NEW m \in {"init", "recover"}, mode' = [mode EXCEPT ![p] = m],
         \/ m = "init" /\ \E path \in Paths : want' = [want EXCEPT ![p] = path]
         \/ m = "recover" /\ UNCHANGED want,
         to = "checking" => m = "init" /\ journal = None,
         UNCHANGED <<files, att, target, made, overlap, kills>>
  PROVE  IInv'
<1>1. /\ pc'[p] = to /\ pc' \in [Proc -> Places]
      /\ \A q \in Proc \ {p} : pc'[q] = pc[q]
  BY GotoFrame DEF Places
<1>2. /\ want' \in [Proc -> Paths \cup {None}] /\ mode' \in [Proc -> {"init", "recover"}]
      /\ mode'[p] = m /\ (m = "init" => want'[p] # None)
      /\ \A q \in Proc \ {p} : want'[q] = want[q] /\ mode'[q] = mode[q]
  BY NamesApart DEF IInv, TypeOK
<1>3. TypeOK'
  BY <1>1, <1>2 DEF IInv, TypeOK, Places, files
<1>4. AttemptInv'
  BY <1>1, <1>2 DEF IInv, AttemptInv, files
<1>5. PackageInv'
  BY <1>1 DEF IInv, PackageInv, Published, files
<1>6. ASSUME ~ overlap PROVE SoloFiles' /\ SoloPlace(p, pc[p])'
  BY <1>1, <1>6 DEF IInv, SoloInv, SoloFiles, SoloPlace, Bare, files
<1>7. SoloInv'
  BY <1>1, <1>6, SoloFrame
<1> QED BY <1>3, <1>4, <1>5, <1>7 DEF IInv

LEMMA StartInitStep ==
  ASSUME IInv, NEW p \in Proc, NEW path \in Paths, StartInit(p, path)
  PROVE  IInv'
<1>1. CASE journal = None
  <2>1. Goto(p, "checking")
    BY <1>1 DEF StartInit
  <2> QED BY <1>1, <2>1, StartFrame DEF StartInit
<1>2. CASE journal # None
  <2>1. Goto(p, "reading")
    BY <1>2 DEF StartInit
  <2> QED BY <1>2, <2>1, StartFrame DEF StartInit
<1> QED BY <1>1, <1>2

LEMMA StartRecoverStep ==
  ASSUME IInv, NEW p \in Proc, StartRecover(p)
  PROVE  IInv'
BY StartFrame DEF StartRecover

LEMMA CheckAbsentStep ==
  ASSUME IInv, NEW p \in Proc, CheckAbsent(p)
  PROVE  IInv'
<1>1. pc[p] = "checking" /\ UNCHANGED <<files, plan, kills>>
  BY DEF CheckAbsent, At, Fail
<1>2. CASE Goto(p, "idle")
  BY <1>1, <1>2, EndStep, KillsKept
<1>3. ASSUME home = None, Goto(p, "planned") PROVE IInv'
  <2>1. /\ pc'[p] = "planned" /\ pc' \in [Proc -> Places]
        /\ \A q \in Proc \ {p} : pc'[q] = pc[q]
    BY <1>3, GotoFrame DEF Places
  <2>2. TypeOK'
    BY <1>1, <2>1 DEF IInv, TypeOK, Places, files, plan
  <2>3. AttemptInv'
    BY <1>1, <2>1 DEF IInv, AttemptInv, files, plan
  <2>4. PackageInv'
    BY <1>1, <1>3, PackageFrame DEF Places, files
  <2>5. ASSUME ~ overlap PROVE SoloFiles' /\ SoloPlace(p, pc[p])'
    BY <1>1, <1>3, <2>1, <2>5 DEF IInv, SoloInv, SoloFiles, SoloPlace, Bare, files
  <2>6. SoloInv'
    BY <1>1, <2>1, <2>5, SoloFrame DEF plan
  <2> QED BY <2>2, <2>3, <2>4, <2>6 DEF IInv
<1> QED BY <1>2, <1>3 DEF CheckAbsent, Fail

(* Written whole or torn, the journal is the first trace of an attempt. *)
LEMMA BeginJournalStep ==
  ASSUME IInv, NEW p \in Proc, NEW content \in {made + 1, Torn}, BeginJournal(p, content),
         NEW to \in {"journaled", "idle"}, Goto(p, to), to = "journaled" => content = made + 1,
         kills' \in 0 .. MaxKills[overlap]
  PROVE  IInv'
<1>1. /\ pc'[p] = to /\ pc' \in [Proc -> Places]
      /\ \A q \in Proc \ {p} : pc'[q] = pc[q]
  BY GotoFrame DEF Places
<1>2. pc[p] = "planned" /\ journal = None /\ want[p] \in Paths
  BY DEF BeginJournal, At, IInv, AttemptInv, TypeOK
<1>3. made \in Nat /\ made' = made + 1 /\ made' \in Attempts /\ made' \in 0 .. MaxAttempts
  BY BoundsAreNat DEF BeginJournal, IInv, TypeOK, Attempts
<1>4. TypeOK'
  <2>1. /\ journal' \in Attempts \cup {None, Torn}
        /\ att' \in [Proc -> Attempts \cup {None}]
        /\ target' \in [Attempts -> Paths \cup {None}]
    BY <1>2, <1>3 DEF IInv, TypeOK, BeginJournal
  <2> QED BY <1>1, <1>3, <2>1 DEF IInv, TypeOK, BeginJournal, Places
<1>5. /\ att'[p] = made' /\ \A q \in Proc \ {p} : att'[q] = att[q]
      /\ target'[made'] = want[p]
      /\ \A a \in 1 .. made : target'[a] = target[a]
  BY <1>3, MadeInRange DEF IInv, TypeOK, BeginJournal
<1>6. AttemptInv'
  <2>1. \A a \in 1 .. made' : target'[a] \in Paths
    BY <1>2, <1>3, <1>5 DEF IInv, AttemptInv
  <2> QED BY <1>1, <1>2, <1>3, <1>5, <2>1 DEF IInv, AttemptInv, BeginJournal
<1>7. PackageInv'
  <2>1. 1 .. made \subseteq 1 .. made'
    BY <1>3
  <2>2. \A a \in 1 .. made : Published(a) => Published(a)'
    BY <1>5 DEF Published, BeginJournal
  <2>3. \A q \in Proc : pc'[q] \in {"validating", "renaming"} =>
          q # p /\ att[q] \in 1 .. made /\ Published(att[q])
    BY <1>1 DEF IInv, PackageInv, AttemptInv
  <2>4. \A q \in Proc : pc'[q] \in {"validating", "renaming"} => Published(att[q])'
    BY <1>5, <2>2, <2>3 DEF Published
  <2>5. home' # None => home'.id \in 1 .. made' /\ Published(home.id)'
    BY <2>1, <2>2 DEF IInv, PackageInv, BeginJournal
  <2>6. \A x \in Paths : dest'[x] # None => dest'[x] \in 1 .. made' /\ target'[dest'[x]] = x
    BY <1>5, <2>1 DEF IInv, PackageInv, BeginJournal
  <2> QED BY <2>4, <2>5, <2>6 DEF PackageInv
<1>8. ASSUME ~ overlap PROVE SoloFiles' /\ SoloPlace(p, to)'
  <2>1. SoloFiles /\ SoloPlace(p, "planned")
    BY <1>2, <1>8 DEF IInv, SoloInv
  <2>2. UNCHANGED <<temp, stage, dest, home>> /\ home = None
    BY <1>2, <2>1 DEF BeginJournal, SoloPlace
  <2>3. \A a \in Attempts : Bare(a)'
    BY <1>2, <2>1, <2>2, MadeInRange DEF SoloFiles, Bare
  <2>4. \A x \in Paths : dest[x] = None
    BY <1>2, <2>1, <2>2 DEF SoloFiles
  <2>5. SoloFiles'
    BY <2>2, <2>3, <2>4 DEF SoloFiles
  <2>6. SoloPlace(p, to)'
    BY <1>2, <1>3, <1>5, <2>2, <2>3, <2>4 DEF SoloPlace, Bare, BeginJournal
  <2> QED BY <2>5, <2>6
<1>9. SoloInv'
  BY <1>1, <1>2, <1>8, SoloFrame DEF BeginJournal
<1> QED BY <1>4, <1>6, <1>7, <1>9 DEF IInv

LEMMA JournalSteps ==
  ASSUME IInv, NEW p \in Proc, WriteJournal(p) \/ TearJournal(p)
  PROVE  IInv'
<1>1. CASE WriteJournal(p)
  <2>1. kills' \in 0 .. MaxKills[overlap]
    BY <1>1, KillsKept DEF WriteJournal
  <2> QED BY <1>1, <2>1, BeginJournalStep DEF WriteJournal
<1>2. CASE TearJournal(p)
  BY <1>2, LostKills, BeginJournalStep DEF TearJournal
<1> QED BY <1>1, <1>2

LEMMA TearPackageStep ==
  ASSUME IInv, NEW p \in Proc, TearPackage(p)
  PROVE  IInv'
<1>1. /\ pc[p] = "journaled" /\ Goto(p, "idle") /\ kills' \in 0 .. MaxKills[overlap]
      /\ temp' = [temp EXCEPT ![att[p]] = Torn]
      /\ UNCHANGED <<journal, stage, dest, home, plan>>
  BY LostKills DEF TearPackage, At
<1>2. /\ FileTypes /\ att[p] \in Attempts
      /\ ~ overlap => SoloFiles /\ SoloPlace(p, pc[p]) /\ journal = att[p]
  BY <1>1, HolderFacts
<1>3. FileTypes'
  BY <1>1, <1>2 DEF FileTypes
<1>4. PackageInv'
  BY <1>1, PackageFrame DEF Places
<1>5. ASSUME ~ overlap PROVE SoloFiles' /\ SoloPlace(p, "idle")'
  BY <1>1, <1>2, <1>5 DEF FileTypes, SoloFiles, SoloPlace, Bare
<1> QED BY <1>1, <1>3, <1>4, <1>5, FileStep DEF Places

----------------------------------------------------------------------------
(* The recovery *)

LEMMA ReadJournalStep ==
  ASSUME IInv, NEW p \in Proc, ReadJournal(p)
  PROVE  IInv'
<1>1. pc[p] = "reading"
  BY DEF ReadJournal, At
<1>2. CASE journal \in {None, Torn}
  BY <1>1, <1>2, EndStep, KillsKept DEF ReadJournal, Fail
<1>3. CASE journal \notin {None, Torn}
  <2>1. /\ Goto(p, "assessing") /\ att' = [att EXCEPT ![p] = journal]
        /\ UNCHANGED <<files, mode, want, target, made, overlap, kills>>
    BY <1>3 DEF ReadJournal
  <2>2. /\ pc'[p] = "assessing" /\ pc' \in [Proc -> Places]
        /\ \A q \in Proc \ {p} : pc'[q] = pc[q]
    BY <2>1, GotoFrame DEF Places
  <2>3. journal \in 1 .. made /\ journal \in Attempts
    BY <1>3, MadeInRange DEF IInv, AttemptInv
  <2>4. att'[p] = journal /\ \A q \in Proc \ {p} : att'[q] = att[q]
    BY <2>1 DEF IInv, TypeOK
  <2>5. TypeOK'
    BY <2>1, <2>2, <2>3 DEF IInv, TypeOK, Places, files
  <2>6. AttemptInv'
    BY <1>1, <2>1, <2>2, <2>3, <2>4 DEF IInv, AttemptInv, files
  <2>7. PackageInv'
    BY <2>1, <2>2, <2>4 DEF IInv, PackageInv, Published, files
  <2>8. ASSUME ~ overlap PROVE SoloFiles' /\ SoloPlace(p, pc[p])'
    BY <2>1, <2>2, <2>4, <2>8 DEF IInv, SoloInv, SoloFiles, SoloPlace, Bare, files
  <2>9. SoloInv'
    BY <1>1, <2>1, <2>2, <2>8, SoloFrame
  <2> QED BY <2>5, <2>6, <2>7, <2>9 DEF IInv
<1> QED BY <1>2, <1>3

(* The decision changes no file. *)
LEMMA AssessStep ==
  ASSUME IInv, NEW p \in Proc, Assess(p)
  PROVE  IInv'
<1>1. pc[p] = "assessing" /\ UNCHANGED <<files, plan, kills>>
  BY DEF Assess, At
<1>2. /\ FileTypes /\ kills \in 0 .. MaxKills[overlap]
      /\ ~ overlap => SoloFiles /\ SoloPlace(p, pc[p]) /\ journal = att[p]
  BY <1>1, HolderFacts
<1>3. CASE Goto(p, "idle")
  BY <1>1, <1>2, <1>3, EndStep
<1>4. ASSUME NEW to \in {"cleanTemp", "completing", "removing"}, Goto(p, to),
             to = "cleanTemp" => home # None /\ home = [id |-> att[p], state |-> "whole"],
             to # "cleanTemp" => ~ IsBPlus,
             to = "completing" => stage[att[p]] = "whole",
             to = "removing" => dest[target[att[p]]] = None
      PROVE  IInv'
  <2>1. FileTypes'
    BY <1>1, <1>2 DEF FileTypes, files
  <2>2. PackageInv'
    BY <1>1, <1>4, PackageFrame DEF Places, files
  <2>3. ASSUME ~ overlap PROVE SoloFiles' /\ SoloPlace(p, to)'
    <3>1. to # "cleanTemp" => home = None
      BY <1>2, <1>4, <2>3 DEF SoloFiles, IsBPlus
    <3>2. SoloFiles'
      BY <1>1, <1>2, <2>3 DEF SoloFiles, Bare, files
    <3>3. SoloPlace(p, to)'
      BY <1>1, <1>2, <1>4, <2>3, <3>1 DEF SoloPlace, files, plan
    <3> QED BY <3>2, <3>3
  <2> QED BY <1>1, <1>2, <1>4, <2>1, <2>2, <2>3, FileStep DEF Places, files
<1> QED BY <1>3, <1>4 DEF Assess, IsBPlus, ValidStage

----------------------------------------------------------------------------
(* The two renames *)

LEMMA PublishPackageStep ==
  ASSUME IInv, NEW p \in Proc, PublishPackage(p)
  PROVE  IInv'
<1>1. pc[p] = "completing" /\ UNCHANGED <<journal, stage, home, plan, kills>>
  BY DEF PublishPackage, At, Fail, files
<1>2. /\ FileTypes /\ att[p] \in Attempts /\ att[p] \in 1 .. made
      /\ kills \in 0 .. MaxKills[overlap] /\ target[att[p]] \in Paths
      /\ ~ overlap => SoloFiles /\ SoloPlace(p, pc[p]) /\ journal = att[p]
  BY <1>1, HolderFacts
<1>3. CASE Goto(p, "idle") /\ UNCHANGED files
  BY <1>1, <1>2, <1>3, EndStep
<1>4. CASE Published(att[p]) /\ Goto(p, "validating") /\ UNCHANGED files
  <2>1. FileTypes'
    BY <1>2, <1>4 DEF FileTypes, files
  <2>2. PackageInv'
    BY <1>1, <1>4, PackageFrame DEF Places, files
  <2>3. ASSUME ~ overlap PROVE SoloFiles' /\ SoloPlace(p, "validating")'
    BY <1>1, <1>2, <1>4, <2>3 DEF SoloFiles, SoloPlace, Bare, files, plan
  <2> QED BY <1>1, <1>2, <1>4, <2>1, <2>2, <2>3, FileStep DEF Places
<1>5. ASSUME Goto(p, "validating"), dest[target[att[p]]] = None,
             dest' = [dest EXCEPT ![target[att[p]]] = att[p]],
             temp' = [temp EXCEPT ![att[p]] = None]
      PROVE  IInv'
  <2>1. /\ pc'[p] = "validating" /\ \A q \in Proc \ {p} : pc'[q] = pc[q]
    BY <1>5, GotoFrame DEF Places
  <2>2. FileTypes'
    BY <1>1, <1>2, <1>5 DEF FileTypes
  <2>3. /\ dest'[target[att[p]]] = att[p]
        /\ \A x \in Paths : dest'[x] = dest[x] \/ x = target[att[p]]
    BY <1>2, <1>5 DEF FileTypes
  <2>4. \A a \in 1 .. made : Published(a) => Published(a)'
    <3> SUFFICES ASSUME NEW a \in 1 .. made, Published(a) PROVE Published(a)'
      OBVIOUS
    <3>1. a # None /\ target[a] \in Paths
      BY MadeInRange DEF IInv, AttemptInv
    <3>2. target[a] # target[att[p]]
      BY <1>5, <3>1 DEF Published
    <3> QED BY <1>1, <2>3, <3>1, <3>2 DEF Published, plan
  <2>5. PackageInv'
    <3>1. \A x \in Paths : dest'[x] # None => dest'[x] \in 1 .. made /\ target[dest'[x]] = x
      BY <1>2, <2>3 DEF IInv, PackageInv
    <3>2. \A q \in Proc : pc'[q] \in {"validating", "renaming"} => Published(att[q])'
      <4>1. Published(att[p])'
        BY <1>1, <2>3 DEF Published, plan
      <4>2. \A q \in Proc \ {p} : pc[q] \in {"validating", "renaming"} => Published(att[q])'
        BY <1>1, <2>4 DEF IInv, PackageInv, AttemptInv, Published, plan
      <4> QED BY <1>1, <2>1, <4>1, <4>2 DEF Published, plan
    <3>3. home' # None => home'.id \in 1 .. made /\ Published(home.id)'
      BY <1>1, <2>4 DEF IInv, PackageInv
    <3> QED BY <1>1, <3>1, <3>2, <3>3 DEF PackageInv, plan
  <2>6. ASSUME ~ overlap PROVE SoloFiles' /\ SoloPlace(p, "validating")'
    <3>1. SoloFiles /\ SoloPlace(p, "completing") /\ journal = att[p]
      BY <1>1, <1>2, <2>6
    <3>2. home = None /\ stage[att[p]] = "whole"
      BY <3>1 DEF SoloPlace
    <3>3. SoloFiles'
      BY <1>1, <1>2, <1>5, <2>3, <3>1, <3>2 DEF SoloFiles, Bare, FileTypes
    <3>4. SoloPlace(p, "validating")'
      BY <1>1, <3>1, <3>2 DEF SoloPlace, plan
    <3> QED BY <3>3, <3>4
  <2> QED BY <1>1, <1>2, <1>5, <2>2, <2>5, <2>6, FileStep DEF Places
<1> QED BY <1>1, <1>3, <1>4, <1>5 DEF PublishPackage, Fail

LEMMA PublishHomeStep ==
  ASSUME IInv, NEW p \in Proc, PublishHome(p)
  PROVE  IInv'
<1>1. pc[p] = "renaming" /\ UNCHANGED <<journal, temp, dest, plan, kills>>
  BY DEF PublishHome, At, Fail, files
<1>2. /\ FileTypes /\ att[p] \in Attempts /\ att[p] \in 1 .. made
      /\ kills \in 0 .. MaxKills[overlap] /\ target[att[p]] \in Paths
      /\ ~ overlap => SoloFiles /\ SoloPlace(p, pc[p]) /\ journal = att[p]
  BY <1>1, HolderFacts
<1>3. CASE Goto(p, "idle") /\ UNCHANGED files
  BY <1>1, <1>2, <1>3, EndStep
<1>4. ASSUME Goto(p, "confirming"), home = None, stage[att[p]] # None,
             home' = [id |-> att[p], state |-> stage[att[p]]],
             stage' = [stage EXCEPT ![att[p]] = None]
      PROVE  IInv'
  <2>1. /\ pc'[p] = "confirming" /\ \A q \in Proc \ {p} : pc'[q] = pc[q]
    BY <1>4, GotoFrame DEF Places
  <2>2. stage[att[p]] \in Contents
    BY <1>2, <1>4 DEF FileTypes
  <2>3. FileTypes'
    BY <1>1, <1>2, <1>4, <2>2 DEF FileTypes
  <2>4. Published(att[p])
    BY <1>1 DEF IInv, PackageInv
  <2>5. PackageInv'
    BY <1>1, <1>2, <1>4, <2>1, <2>4 DEF IInv, PackageInv, Published, plan
  <2>6. ASSUME ~ overlap PROVE SoloFiles' /\ SoloPlace(p, "confirming")'
    <3>1. SoloFiles /\ SoloPlace(p, "renaming") /\ journal = att[p] /\ stage[att[p]] = "whole"
      BY <1>1, <1>2, <2>6 DEF SoloPlace
    <3>2. \A a \in Attempts : stage'[a] = None
      BY <1>2, <1>4, <3>1 DEF SoloFiles, Bare, FileTypes
    <3>3. home' # None
      BY <1>2, <1>4, <2>2, NamesApart DEF Attempts
    <3>4. SoloFiles'
      BY <1>1, <1>4, <3>1, <3>2, <3>3 DEF SoloFiles, Bare
    <3>5. SoloPlace(p, "confirming")'
      BY <1>1, <3>1 DEF SoloPlace, plan
    <3> QED BY <3>4, <3>5
  <2> QED BY <1>1, <1>2, <1>4, <2>3, <2>5, <2>6, FileStep DEF Places
<1> QED BY <1>1, <1>3, <1>4 DEF PublishHome, Fail

----------------------------------------------------------------------------
(* The theorems *)

LEMMA InitHolds == Init => IInv
<1> SUFFICES ASSUME Init PROVE IInv
  OBVIOUS
<1>1. TypeOK
  <2>1. kills \in 0 .. MaxKills[overlap] /\ made \in 0 .. MaxAttempts
    BY BoundsAreNat DEF Init
  <2> QED BY <2>1 DEF Init, TypeOK
<1>2. AttemptInv
  BY DEF Init, AttemptInv
<1>3. PackageInv
  BY DEF Init, PackageInv
<1>4. SoloInv
  BY DEF Init, SoloInv, OneAtATime, SoloFiles, SoloPlace, Bare
<1> QED BY <1>1, <1>2, <1>3, <1>4 DEF IInv

LEMMA StepHolds == IInv /\ [Next]_vars => IInv'
<1> SUFFICES ASSUME IInv, [Next]_vars PROVE IInv'
  OBVIOUS
<1>1. CASE UNCHANGED vars
  BY <1>1 DEF vars, files, plan, IInv, TypeOK, AttemptInv, PackageInv, Published, SoloInv,
              OneAtATime, SoloFiles, SoloPlace, Bare
<1>2. ASSUME NEW p \in Proc, Work(p) PROVE IInv'
  <2>1. CASE CheckAbsent(p) \/ WriteJournal(p) \/ JournalTaken(p) \/ ReadJournal(p) \/ Assess(p)
    BY <2>1, CheckAbsentStep, JournalSteps, EndSteps, ReadJournalStep, AssessStep
  <2>2. CASE StagePackage(p) \/ StageKeys(p) \/ StageMarker(p) \/ StageLifecycle(p)
    BY <2>2, StagePackageStep, StageKeysStep, StageMarkerStep, StageLifecycleStep
  <2>3. CASE RemoveNothing(p) \/ RemovePart(p) \/ RemoveRest(p) \/ RollTemp(p) \/ RollJournal(p)
    BY <2>3, RemoveNothingStep, RemovePartStep, RemoveRestStep, RollTempStep, RollJournalStep
  <2>4. CASE PublishPackage(p) \/ ValidateStage(p) \/ PublishHome(p) \/ Confirm(p)
    BY <2>4, PublishPackageStep, ValidateStageStep, PublishHomeStep, ConfirmStep
  <2>5. CASE CleanTemp(p) \/ CleanJournal(p) \/ CleanStage(p) \/ Report(p)
    BY <2>5, CleanTempStep, CleanJournalStep, CleanStageStep, EndSteps
  <2> QED BY <1>2, <2>1, <2>2, <2>3, <2>4, <2>5 DEF Work
<1>3. ASSUME NEW p \in Proc,
             \/ \E path \in Paths : StartInit(p, path)
             \/ StartRecover(p) \/ Kill(p) \/ TearJournal(p) \/ TearPackage(p)
      PROVE  IInv'
  BY <1>3, StartInitStep, StartRecoverStep, EndSteps, JournalSteps, TearPackageStep
<1> QED BY <1>1, <1>2, <1>3 DEF Next

(* Whatever initializations and recoveries run beside each other and are    *)
(* lost, and however often.                                                *)
THEOREM Invariance == Spec => []IInv
<1> QED BY InitHolds, StepHolds, PTL DEF Spec

(* A package is published before its home is, and stays: overlapping        *)
(* commands, roll-backs and kills included (storage.go:55).                 *)
THEOREM HomesHaveTheirPackage == Spec => []HomeHasItsPackage
<1>1. IInv => HomeHasItsPackage
  BY DEF IInv, PackageInv, HomeHasItsPackage, Published
<1> QED BY <1>1, Invariance, PTL

(* Commands that wait for each other create one whole home or leave no      *)
(* trace, whatever is lost (initialization.go).                             *)
THEOREM HomesAreAllOrNothing == Spec => []AllOrNothing
<1>1. IInv => AllOrNothing
  BY MadeInRange DEF IInv, TypeOK, SoloInv, SoloFiles, AllOrNothing, Quiet, NothingStaged, Bare
<1> QED BY <1>1, Invariance, PTL
----------------------------------------------------------------------------
(* PART TWO, the order of recoveries *)

(* Past its look at the creation journal a recovery has none in its way:    *)
(* nothing brings one back to a home that is there.                         *)
PastCreation == {"lookForMutation", "recoverMutation", "lookForPair", "open"}

OrderInv ==
  /\ OrderTypeOK
  /\ \A p \in Recoveries : step[p] \in PastCreation => creation = Nothing

LEMMA OrderInitHolds == OrderInit => OrderInv
<1> SUFFICES ASSUME OrderInit PROVE OrderInv
  OBVIOUS
<1>1. epoch \in 0 .. MaxEpochs /\ killed \in 0 .. MaxInterruptions
  BY OrderBounds DEF OrderInit
<1>2. OrderTypeOK
  BY <1>1 DEF OrderInit, OrderTypeOK, Statuses
<1> QED BY <1>2 DEF OrderInit, OrderInv, PastCreation

(* What a mutation leads to is what its journal says, or nowhere if it is   *)
(* rolled back; either way its journal is gone.                             *)
LEMMA CompletionTyped ==
  ASSUME OrderTypeOK, RecoverPendingMutation
  PROVE  mutation' = Nothing /\ status' \in Statuses /\ epoch' \in 0 .. MaxEpochs
<1>1. CASE mutation = Nothing
  BY <1>1 DEF OrderTypeOK, RecoverPendingMutation, lifecycle
<1>2. CASE mutation # Nothing
  <2>1. mutation \in [to : Outcomes, form : Forms]
    BY <1>2 DEF OrderTypeOK
  <2>2. CASE RollBack
    BY <2>2 DEF RollBack, OrderTypeOK, lifecycle
  <2>3. CASE Complete
    BY <2>1, <2>3 DEF Complete, Apply, Outcomes
  <2> QED BY <1>2, <2>2, <2>3 DEF RecoverPendingMutation
<1> QED BY <1>1, <1>2

(* The first two looks, and the recovery between them. *)
LEMMA CreationSteps ==
  ASSUME OrderInv, NEW p \in Recoveries, LookForCreation(p) \/ RecoverCreation(p) \/ LookForMutation(p)
  PROVE  OrderInv'
<1>1. CASE LookForCreation(p)
  BY <1>1 DEF LookForCreation, Move, OrderInv, OrderTypeOK, PastCreation, Outcomes, Statuses,
              journals, lifecycle
<1>2. CASE RecoverCreation(p)
  BY <1>2 DEF RecoverCreation, Move, OrderInv, OrderTypeOK, PastCreation, Outcomes, Statuses,
              lifecycle
<1>3. CASE LookForMutation(p)
  BY <1>3 DEF LookForMutation, Move, OrderInv, OrderTypeOK, PastCreation, Outcomes, Statuses,
              journals, lifecycle
<1> QED BY <1>1, <1>2, <1>3

LEMMA RecoverMutationStep ==
  ASSUME OrderInv, NEW p \in Recoveries, RecoverMutation(p)
  PROVE  OrderInv'
<1>1. CASE Readable
  <2>1. mutation' = Nothing /\ status' \in Statuses /\ epoch' \in 0 .. MaxEpochs
    BY <1>1, CompletionTyped DEF OrderInv, RecoverMutation
  <2> QED BY <1>1, <2>1 DEF RecoverMutation, Move, OrderInv, OrderTypeOK, PastCreation
<1>2. CASE ~ Readable
  BY <1>2 DEF RecoverMutation, Move, OrderInv, OrderTypeOK, PastCreation, lifecycle
<1> QED BY <1>1, <1>2

(* The open under the lock and the look before it. *)
LEMMA OpenSteps ==
  ASSUME OrderInv, NEW p \in Recoveries,
         LookForPair(p) \/ OpenRecovering(p) \/ OpenReadOnly(p) \/ End(p)
  PROVE  OrderInv'
<1>1. CASE LookForPair(p)
  BY <1>1 DEF LookForPair, Move, OrderInv, OrderTypeOK, PastCreation, Outcomes, journals, lifecycle
<1>2. CASE OpenRecovering(p)
  BY <1>2 DEF OpenRecovering, Move, OrderInv, OrderTypeOK, PastCreation, Outcomes, lifecycle
<1>3. CASE OpenReadOnly(p)
  BY <1>3 DEF OpenReadOnly, Move, OrderInv, OrderTypeOK, PastCreation, Outcomes, journals, lifecycle
<1>4. CASE End(p)
  BY <1>4 DEF End, Move, OrderInv, OrderTypeOK, PastCreation, Outcomes, journals, lifecycle
<1> QED BY <1>1, <1>2, <1>3, <1>4

LEMMA TransactSteps ==
  ASSUME OrderInv, Transact
  PROVE  OrderInv'
<1>1. CASE TransactCreation
  BY <1>1 DEF TransactCreation, OrderInv, OrderTypeOK, Outcomes, lifecycle
<1>2. CASE TransactMutation
  <2>1. mutation' = Nothing /\ status' \in Statuses /\ epoch' \in 0 .. MaxEpochs
    BY <1>2, CompletionTyped DEF OrderInv, TransactMutation
  <2> QED BY <1>2, <2>1 DEF TransactMutation, OrderInv, OrderTypeOK
<1> QED BY <1>1, <1>2 DEF Transact

(* Mutations, writes and recoveries, interrupted or not, leave the creation *)
(* journal alone, and no recovery is further than it was.                   *)
LEMMA InterruptionSteps ==
  ASSUME OrderInv,
         \/ \E p \in Recoveries : RecoverInterrupted(p)
         \/ \E outcome \in Outcomes : Mutate(outcome)
         \/ \E outcome \in Outcomes, form \in Forms : MutateInterrupted(outcome, form)
         \/ WriteInterrupted
  PROVE  OrderInv'
<1>1. ASSUME NEW outcome \in Outcomes
      PROVE  outcome.status \in Statuses /\ outcome.epoch \in 0 .. MaxEpochs
  BY DEF Outcomes
<1>2. killed < MaxInterruptions /\ killed' = killed + 1 => killed' \in 0 .. MaxInterruptions
  BY OrderBounds DEF OrderInv, OrderTypeOK
<1>3. ASSUME NEW outcome \in Outcomes, Mutate(outcome) PROVE OrderInv'
  BY <1>1, <1>3 DEF Mutate, Apply, OrderInv, OrderTypeOK, journals
<1>4. ASSUME NEW outcome \in Outcomes, NEW form \in Forms, MutateInterrupted(outcome, form)
      PROVE  OrderInv'
  <2>1. mutation' \in [to : Outcomes, form : Forms]
    BY <1>4 DEF MutateInterrupted
  <2>2. status' \in Statuses /\ epoch' \in 0 .. MaxEpochs
    BY <1>1, <1>4 DEF MutateInterrupted, Apply, OrderInv, OrderTypeOK, lifecycle
  <2> QED BY <1>2, <1>4, <2>1, <2>2 DEF MutateInterrupted, OrderInv, OrderTypeOK
<1>5. CASE WriteInterrupted
  BY <1>2, <1>5 DEF WriteInterrupted, OrderInv, OrderTypeOK, lifecycle
<1>6. ASSUME NEW p \in Recoveries, RecoverInterrupted(p) PROVE OrderInv'
  <2>1. status' \in Statuses /\ epoch' \in 0 .. MaxEpochs
    <3>1. CASE UNCHANGED lifecycle
      BY <3>1 DEF OrderInv, OrderTypeOK, lifecycle
    <3>2. CASE mutation # Nothing /\ Apply(mutation.to)
      <4>1. mutation.to \in Outcomes
        BY <3>2 DEF OrderInv, OrderTypeOK
      <4> QED BY <1>1, <3>2, <4>1 DEF Apply
    <3> QED BY <1>6, <3>1, <3>2 DEF RecoverInterrupted
  <2> QED BY <1>2, <1>6, <2>1
         DEF RecoverInterrupted, OrderInv, OrderTypeOK, PastCreation, journals
<1> QED BY <1>3, <1>4, <1>5, <1>6

LEMMA OrderStepHolds == OrderInv /\ [OrderNext]_orderVars => OrderInv'
<1> SUFFICES ASSUME OrderInv, [OrderNext]_orderVars PROVE OrderInv'
  OBVIOUS
<1>1. CASE UNCHANGED orderVars
  BY <1>1 DEF orderVars, journals, lifecycle, OrderInv, OrderTypeOK
<1>2. CASE OrderNext
  BY <1>2, CreationSteps, RecoverMutationStep, OpenSteps, TransactSteps, InterruptionSteps
     DEF OrderNext, Recover
<1> QED BY <1>1, <1>2

(* `ueg recover` has passed the creation journal for good when it opens the *)
(* ledger (cmdRecover), whatever is interrupted meanwhile.                  *)
THEOREM OrderInvariance == OrderSpec => []OrderInv
<1> QED BY OrderInitHolds, OrderStepHolds, PTL DEF OrderSpec

(* For any number of recoveries, epochs and interruptions, `ueg recover`    *)
(* reports success only of a home without a journal of any kind: the one    *)
(* way there is the open under the lock, which looks at the two journals    *)
(* that can have come back since (main.go:955-970).                         *)
THEOREM SuccessMeansNothingLeft == OrderSpec => SuccessLeavesNothing
<1> DEFINE Safe == \A p \in Recoveries :
             Succeeds(p) => creation' = Nothing /\ mutation' = Nothing /\ pair' = Nothing
<1>1. OrderInv /\ [OrderNext]_orderVars => [Safe]_orderVars
  <2> SUFFICES ASSUME OrderInv, OrderNext, NEW p \in Recoveries, Succeeds(p)
      PROVE  creation' = Nothing /\ mutation' = Nothing /\ pair' = Nothing
    OBVIOUS
  <2>1. step[p] = "open" => creation = Nothing
    BY DEF OrderInv, PastCreation
  <2>2. DOMAIN step = Recoveries
    BY DEF OrderInv, OrderTypeOK
  <2>3. PICK q \in Recoveries : Recover(q)
    <3>1. ASSUME NEW q \in Recoveries PROVE ~ RecoverInterrupted(q)
      BY <2>2 DEF RecoverInterrupted, Succeeds
    <3> QED BY <3>1 DEF OrderNext, Succeeds, Transact, TransactCreation, TransactMutation, Mutate,
                        MutateInterrupted, WriteInterrupted
  <2>4. OpenRecovering(p) \/ OpenReadOnly(p)
    BY <2>2, <2>3 DEF Succeeds, Recover, LookForCreation, RecoverCreation, LookForMutation,
                      RecoverMutation, LookForPair, OpenRecovering, OpenReadOnly, End, Move
  <2>5. CASE OpenRecovering(p)
    BY <2>1, <2>2, <2>5 DEF OpenRecovering, LoadsSigning, Succeeds, Move
  <2>6. CASE OpenReadOnly(p)
    BY <2>1, <2>2, <2>6 DEF OpenReadOnly, Succeeds, Move, journals
  <2> QED BY <2>4, <2>5, <2>6
<1> QED BY <1>1, OrderInvariance, PTL DEF OrderSpec, SuccessLeavesNothing
=============================================================================
