---------------------------- MODULE Initialization ----------------------------
(***************************************************************************)
(* `ueg identity init` and its recovery (internal/identity/storage.go,     *)
(* initialization.go): a journal beside the home, a staged home and a      *)
(* staged recovery package, published by two renames that replace nothing. *)
(* Neither takes a lock, so an operator that does not wait for one command *)
(* to end before the next has an initialization run while another, or a    *)
(* recovery, reads the same journal.                                       *)
(*                                                                         *)
(* An attempt is one identity: its random suffix names its stage and its   *)
(* partial package, and its journal names both and the destination.        *)
(***************************************************************************)
EXTENDS Naturals, FiniteSets

CONSTANTS Proc,          \* invocations
          Paths,         \* recovery-package destinations an operator names
          None,          \* no file, no attempt
          Torn,          \* a file whose writer was lost inside the write
          MaxAttempts,   \* bound on initializations that write a journal
          MaxKills       \* bound on processes lost, for each value of overlap

ASSUME BoundsAreNat   == MaxAttempts \in Nat /\ MaxKills \in [BOOLEAN -> Nat]

Attempts == 1 .. MaxAttempts

(* A directory with an evidence home in it: written up to the keys, up to   *)
(* the marker, or whole (LoadSigning succeeds); or with something removed   *)
(* from it, the marker or not.                                             *)
Damaged   == {"brokenMarked", "brokenBare"}
Built     == {"keys", "marked", "whole"}
Contents  == Built \cup Damaged

ASSUME NamesApart == /\ None # Torn /\ {None, Torn} \cap (Nat \cup Paths) = {}
                     /\ None \notin [id : Nat, state : Contents]

VARIABLES pc,        \* where an invocation is
          mode,      \* "init" or "recover"
          want,      \* the destination an initialization was given
          att,       \* the attempt an invocation works on
          journal,   \* None, Torn or the attempt it names
          temp,      \* an attempt's partial recovery package
          stage,     \* an attempt's staged home
          dest,      \* the package published at a destination
          home,      \* None or the published home
          target,    \* the destination an attempt's journal names
          made,      \* attempts so far
          overlap,   \* whether two invocations may run at the same time
          kills      \* processes lost so far

files == <<journal, temp, stage, dest, home>>
plan  == <<mode, want, att, target, made, overlap>>
vars  == <<pc, files, plan, kills>>

IsBPlus == home # None /\ home.state \in {"marked", "whole", "brokenMarked"}

Goto(p, place) == pc' = [pc EXCEPT ![p] = place]
At(p, place)   == pc[p] = place

(* A returned error changes nothing: what was written so far stays. *)
Fail(p) == Goto(p, "idle") /\ UNCHANGED <<files, plan, kills>>

----------------------------------------------------------------------------
(* Initialize *)

MayStart(p) == At(p, "idle") /\ (overlap \/ \A q \in Proc : pc[q] = "idle")

StartInit(p, path) ==
  /\ MayStart(p)
  /\ made < MaxAttempts
  /\ mode' = [mode EXCEPT ![p] = "init"]
  /\ want' = [want EXCEPT ![p] = path]
  /\ Goto(p, IF journal # None THEN "reading" ELSE "checking")
  /\ UNCHANGED <<files, att, target, made, overlap, kills>>

(* ensureInitializationDestinationsAbsent *)
CheckAbsent(p) ==
  /\ At(p, "checking")
  /\ IF home = None /\ dest[want[p]] = None
     THEN Goto(p, "planned") /\ UNCHANGED <<files, plan, kills>>
     ELSE Fail(p)

(* The journal is created under its own name and must not exist. *)
BeginJournal(p, content) ==
  /\ At(p, "planned")
  /\ made < MaxAttempts
  /\ journal = None
  /\ journal' = content
  /\ made' = made + 1
  /\ att' = [att EXCEPT ![p] = made + 1]
  /\ target' = [target EXCEPT ![made + 1] = want[p]]
  /\ UNCHANGED <<temp, stage, dest, home, mode, want, overlap>>

WriteJournal(p) ==
  /\ BeginJournal(p, made + 1)
  /\ Goto(p, "journaled")
  /\ UNCHANGED kills

JournalTaken(p) == At(p, "planned") /\ (journal # None \/ made = MaxAttempts) /\ Fail(p)

(* The partial package is written and passes its restore and signing test. *)
StagePackage(p) ==
  /\ At(p, "journaled")
  /\ temp' = [temp EXCEPT ![att[p]] = "whole"]
  /\ Goto(p, "packaged")
  /\ UNCHANGED <<journal, stage, dest, home, plan, kills>>

(* writeStagedHome makes its directories as it goes, also after somebody    *)
(* removed them; its last step loads what it wrote.                        *)
StageKeys(p) ==
  /\ At(p, "packaged")
  /\ stage' = [stage EXCEPT ![att[p]] = "keys"]
  /\ Goto(p, "keyed")
  /\ UNCHANGED <<journal, temp, dest, home, plan, kills>>

StageMarker(p) ==
  /\ At(p, "keyed")
  /\ stage' = [stage EXCEPT ![att[p]] = IF @ = "keys" THEN "marked" ELSE "brokenMarked"]
  /\ Goto(p, "marking")
  /\ UNCHANGED <<journal, temp, dest, home, plan, kills>>

StageLifecycle(p) ==
  /\ At(p, "marking")
  /\ stage' = [stage EXCEPT ![att[p]] =
                 IF @ = "marked" THEN "whole"
                 ELSE IF @ = None THEN "brokenBare" ELSE @]
  /\ Goto(p, IF stage[att[p]] = "marked" THEN "completing" ELSE "idle")
  /\ UNCHANGED <<journal, temp, dest, home, plan, kills>>

----------------------------------------------------------------------------
(* RecoverPendingInitialization *)

(* InitializationPending of a recovery command; without a journal the       *)
(* command goes on to other recoveries.                                    *)
StartRecover(p) ==
  /\ MayStart(p)
  /\ journal # None
  /\ mode' = [mode EXCEPT ![p] = "recover"]
  /\ Goto(p, "reading")
  /\ UNCHANGED <<files, want, att, target, made, overlap, kills>>

ReadJournal(p) ==
  /\ At(p, "reading")
  /\ IF journal \in {None, Torn} THEN Fail(p)
     ELSE /\ att' = [att EXCEPT ![p] = journal]
          /\ Goto(p, "assessing")
          /\ UNCHANGED <<files, mode, want, target, made, overlap, kills>>

ValidStage(a)  == stage[a] = "whole"
Published(a)   == dest[target[a]] = a
PackageReady(a) == temp[a] = "whole" \/ Published(a)

Assess(p) ==
  /\ At(p, "assessing")
  /\ LET a == att[p] IN
     IF IsBPlus
     THEN Goto(p, IF home = [id |-> a, state |-> "whole"] THEN "cleanTemp" ELSE "idle")
     ELSE IF PackageReady(a) /\ ValidStage(a) THEN Goto(p, "completing")
     ELSE Goto(p, IF dest[target[a]] = None THEN "removing" ELSE "idle")
  /\ UNCHANGED <<files, plan, kills>>

(* os.RemoveAll of nothing returns at once; otherwise it opens the          *)
(* directory and removes entry by entry: it can stop between any two, and   *)
(* it goes on in a directory that was renamed under it.                     *)
RemoveNothing(p) ==
  /\ At(p, "removing")
  /\ stage[att[p]] = None
  /\ Goto(p, "rollTemp")
  /\ UNCHANGED <<files, plan, kills>>

RemovePartOf(p) ==
  /\ At(p, "removing")
  /\ stage[att[p]] # None
  /\ \E left \in {stage[att[p]]} \cup Damaged : stage' = [stage EXCEPT ![att[p]] = left]
  /\ Goto(p, "removingRest")
  /\ UNCHANGED <<temp, dest, home, plan, kills>>

(* Mutant: the journal is removed before what it names. *)
RemovePartForgotten(p) == RemovePartOf(p) /\ journal' = None

RemovePart(p) == RemovePartOf(p) /\ UNCHANGED journal

RemoveRest(p) ==
  /\ At(p, "removingRest")
  /\ stage' = [stage EXCEPT ![att[p]] = None]
  /\ home' = IF home # None /\ home.id = att[p]
             THEN [home EXCEPT !.state = "brokenBare"] ELSE home
  /\ Goto(p, "rollTemp")
  /\ UNCHANGED <<journal, temp, dest, plan, kills>>

RollTemp(p) ==
  /\ At(p, "rollTemp")
  /\ temp' = [temp EXCEPT ![att[p]] = None]
  /\ Goto(p, "rollJournal")
  /\ UNCHANGED <<journal, stage, dest, home, plan, kills>>

(* Rolled back: a recovery ends, an initialization starts over. *)
RollJournal(p) ==
  /\ At(p, "rollJournal")
  /\ journal' = None
  /\ Goto(p, IF mode[p] = "init" THEN "checking" ELSE "idle")
  /\ UNCHANGED <<temp, stage, dest, home, plan, kills>>

----------------------------------------------------------------------------
(* completeInitialization *)

(* Mutant: the home is published before the package. *)
PublishPackageLate(p) ==
  /\ At(p, "completing")
  /\ Goto(p, "renaming")
  /\ UNCHANGED <<files, plan, kills>>

(* A rename that replaces nothing; skipped when the destination has it. *)
PublishPackage(p) ==
  /\ At(p, "completing")
  /\ LET a == att[p] IN
     IF Published(a) THEN Goto(p, "validating") /\ UNCHANGED <<files, plan, kills>>
     ELSE IF temp[a] = "whole" /\ dest[target[a]] = None
     THEN /\ dest' = [dest EXCEPT ![target[a]] = a]
          /\ temp' = [temp EXCEPT ![a] = None]
          /\ Goto(p, "validating")
          /\ UNCHANGED <<journal, stage, home, plan, kills>>
     ELSE Fail(p)

ValidateStage(p) ==
  /\ At(p, "validating")
  /\ IF IsBPlus THEN Goto(p, "confirming")
     ELSE Goto(p, IF ValidStage(att[p]) THEN "renaming" ELSE "idle")
  /\ UNCHANGED <<files, plan, kills>>

PublishHome(p) ==
  /\ At(p, "renaming")
  /\ LET a == att[p] IN
     IF home = None /\ stage[a] # None
     THEN /\ home' = [id |-> a, state |-> stage[a]]
          /\ stage' = [stage EXCEPT ![a] = None]
          /\ Goto(p, "confirming")
          /\ UNCHANGED <<journal, temp, dest, plan, kills>>
     ELSE Fail(p)

(* The published home is loaded and must be this attempt's. *)
Confirm(p) ==
  /\ At(p, "confirming")
  /\ Goto(p, IF home = [id |-> att[p], state |-> "whole"] THEN "cleanTemp" ELSE "idle")
  /\ UNCHANGED <<files, plan, kills>>

----------------------------------------------------------------------------
(* cleanupCompletedInitialization *)

CleanTemp(p) ==
  /\ At(p, "cleanTemp")
  /\ temp' = [temp EXCEPT ![att[p]] = None]
  /\ Goto(p, "cleanJournal")
  /\ UNCHANGED <<journal, stage, dest, home, plan, kills>>

(* Mutant: a completed transaction leaves its journal behind. *)
CleanJournalKept(p) ==
  /\ At(p, "cleanJournal")
  /\ Goto(p, "cleanStage")
  /\ UNCHANGED <<files, plan, kills>>

CleanJournal(p) ==
  /\ At(p, "cleanJournal")
  /\ journal' = None
  /\ Goto(p, "cleanStage")
  /\ UNCHANGED <<temp, stage, dest, home, plan, kills>>

CleanStage(p) ==
  /\ At(p, "cleanStage")
  /\ stage' = [stage EXCEPT ![att[p]] = None]
  /\ Goto(p, "reported")
  /\ UNCHANGED <<journal, temp, dest, home, plan, kills>>

(* The command prints its result and ends. *)
Report(p) == At(p, "reported") /\ Goto(p, "idle") /\ UNCHANGED <<files, plan, kills>>

----------------------------------------------------------------------------
(* A process is lost between two steps, or inside a write that creates a   *)
(* file under its final name.                                              *)

Lost(p) == kills < MaxKills[overlap] /\ kills' = kills + 1 /\ Goto(p, "idle")

Kill(p) == ~ At(p, "idle") /\ Lost(p) /\ UNCHANGED <<files, plan>>

TearJournal(p) == BeginJournal(p, Torn) /\ Lost(p)

TearPackage(p) ==
  /\ At(p, "journaled")
  /\ temp' = [temp EXCEPT ![att[p]] = Torn]
  /\ Lost(p)
  /\ UNCHANGED <<journal, stage, dest, home, plan>>

----------------------------------------------------------------------------

Init ==
  /\ pc = [p \in Proc |-> "idle"]
  /\ mode = [p \in Proc |-> "init"]
  /\ want = [p \in Proc |-> None]
  /\ att = [p \in Proc |-> None]
  /\ journal = None
  /\ temp = [a \in Attempts |-> None]
  /\ stage = [a \in Attempts |-> None]
  /\ dest = [x \in Paths |-> None]
  /\ home = None
  /\ target = [a \in Attempts |-> None]
  /\ made = 0
  /\ overlap \in BOOLEAN
  /\ kills = 0

Work(p) ==
  \/ CheckAbsent(p) \/ WriteJournal(p) \/ JournalTaken(p)
  \/ StagePackage(p) \/ StageKeys(p) \/ StageMarker(p) \/ StageLifecycle(p)
  \/ ReadJournal(p) \/ Assess(p)
  \/ RemoveNothing(p) \/ RemovePart(p) \/ RemoveRest(p) \/ RollTemp(p) \/ RollJournal(p)
  \/ PublishPackage(p) \/ ValidateStage(p) \/ PublishHome(p) \/ Confirm(p)
  \/ CleanTemp(p) \/ CleanJournal(p) \/ CleanStage(p) \/ Report(p)

Next ==
  \E p \in Proc :
    \/ \E path \in Paths : StartInit(p, path)
    \/ StartRecover(p)
    \/ Work(p)
    \/ Kill(p) \/ TearJournal(p) \/ TearPackage(p)

Spec == Init /\ [][Next]_vars

(* A running command goes on, and the operator runs the recovery command    *)
(* when there is something to recover.                                     *)
Fairness == \A p \in Proc : WF_vars(Work(p)) /\ WF_vars(StartRecover(p))

FairSpec == Spec /\ Fairness

----------------------------------------------------------------------------
(* Properties *)

TypeOK ==
  /\ pc \in [Proc -> {"idle", "checking", "planned", "journaled", "packaged", "keyed",
                      "marking", "reading", "assessing", "removing", "removingRest",
                      "rollTemp", "rollJournal", "completing", "validating", "renaming",
                      "confirming", "cleanTemp", "cleanJournal", "cleanStage", "reported"}]
  /\ mode \in [Proc -> {"init", "recover"}]
  /\ want \in [Proc -> Paths \cup {None}]
  /\ att \in [Proc -> Attempts \cup {None}]
  /\ journal \in Attempts \cup {None, Torn}
  /\ temp \in [Attempts -> {None, Torn, "whole"}]
  /\ stage \in [Attempts -> Contents \cup {None}]
  /\ dest \in [Paths -> Attempts \cup {None}]
  /\ home \in [id : Attempts, state : Contents] \cup {None}
  /\ target \in [Attempts -> Paths \cup {None}]
  /\ made \in 0 .. MaxAttempts
  /\ overlap \in BOOLEAN
  /\ kills \in 0 .. MaxKills[overlap]

(* Whoever publishes, in whatever order initializations and recoveries      *)
(* interleave: an evidence home never exists without the recovery package   *)
(* that controls it at the destination its operator named (storage.go:55).  *)
HomeHasItsPackage == home # None => dest[target[home.id]] = home.id

(* Nobody is at work and no journal waits: the identity was created whole,  *)
(* with its package and nothing left of its staging, or no trace of an      *)
(* attempt remains - no secret in a stage, no orphan package that blocks    *)
(* the destination.  Not when invocations overlap: one that rolls back      *)
(* removes what another is publishing (initialization.go:104).              *)
Quiet == journal = None /\ \A p \in Proc : pc[p] = "idle"

NothingStaged == \A a \in Attempts : stage[a] = None /\ temp[a] = None

AllOrNothing ==
  ~ overlap /\ Quiet =>
    /\ NothingStaged
    /\ \/ home = None /\ \A x \in Paths : dest[x] = None
       \/ /\ home # None
          /\ home.state = "whole"
          /\ \A x \in Paths : dest[x] \in {None, home.id}

(* An interrupted initialization is completed or rolled back once its       *)
(* journal is durable; a journal torn by process loss is neither.          *)
DurableInitializationSettles ==
  (journal # None /\ ~ overlap) ~> (journal \in {None, Torn})

=============================================================================
