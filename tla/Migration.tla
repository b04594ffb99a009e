------------------------------- MODULE Migration -------------------------------
(***************************************************************************)
(* `ueg identity migrate` and its recovery (cmd/ueg/identity.go:656,       *)
(* internal/identity/migration.go): one verified legacy key becomes epoch  *)
(* zero of a B+ identity.  A journal in the home, a staged recovery        *)
(* package, a staged authority; then the legacy private key is set aside,  *)
(* the package, the authority and last the marker are published, each by a *)
(* rename that replaces nothing.                                           *)
(*                                                                         *)
(* The home lock is held from the journal on, but the command reads the    *)
(* ledger, and asks for a passphrase, before it takes it.                  *)
(***************************************************************************)
EXTENDS Naturals, FiniteSets

CONSTANTS Proc,          \* invocations
          Paths,         \* recovery-package destinations an operator names
          None,          \* no file, nobody, nothing
          Torn,          \* a file whose writer was lost inside the write
          MaxAttempts,   \* bound on migrations that write a journal
          MaxKills       \* bound on processes lost

ASSUME NamesApart    == None # Torn /\ {None, Torn} \cap (Nat \cup Paths \cup Proc) = {}
ASSUME BoundsAreNat  == MaxAttempts \in Nat /\ MaxKills \in Nat

Attempts == 1 .. MaxAttempts

(* What writeStagedHome writes: epoch zero's key pair, the public key old   *)
(* binaries look for, the marker, genesis with lifecycle.  The identity     *)
(* directory is the first and the last of these.                           *)
Parts         == {"keys", "public", "marker", "lifecycle"}
IdentityParts == {"keys", "lifecycle"}

VARIABLES pc,          \* where an invocation is
          lock,        \* who holds the home lock
          want,        \* the destination a migration was given
          seen,        \* the ledger head it read
          att,         \* the attempt an invocation works on
          journal,     \* None, Torn or the attempt it names
          temp,        \* an attempt's partial recovery package
          stage,       \* parts of an attempt's staged home
          dest,        \* the package published at a destination
          legacy,      \* the legacy private key is at its place
          quarantine,  \* ... is set aside
          home,        \* parts of a B+ identity published in the home
          owner,       \* the attempt whose they are
          target,      \* the destination an attempt's journal names
          boundary,    \* the head an attempt's genesis names
          made,        \* attempts so far
          head,        \* legacy receipts in the ledger
          pair,        \* an interrupted receipt write: none, its journal only, half in the files
          kills        \* processes lost so far

files    == <<journal, temp, stage, dest, legacy, quarantine, home, owner>>
plan     == <<want, seen, att, target, boundary, made>>
evidence == <<head, pair>>
vars     == <<pc, lock, files, plan, evidence, kills>>

IsBPlus == "marker" \in home

At(p, place) == pc[p] = place
Move(p, from, to) == At(p, from) /\ pc' = [pc EXCEPT ![p] = to] /\ UNCHANGED <<lock, kills>>

(* An invocation ends, whatever its result, and gives up the lock. *)
End(p) ==
  /\ pc' = [pc EXCEPT ![p] = "idle"]
  /\ lock' = IF lock = p THEN None ELSE lock

----------------------------------------------------------------------------
(* identityMigrate before the lock *)

(* Mutant: a pair in the journal counts as written. *)
ReadLedgerAhead(p, path) ==
  /\ ~ IsBPlus /\ legacy /\ pair # "half"
  /\ made < MaxAttempts
  /\ Move(p, "idle", "prompting")
  /\ want' = [want EXCEPT ![p] = path]
  /\ seen' = [seen EXCEPT ![p] = IF pair = "journaled" THEN head + 1 ELSE head]
  /\ UNCHANGED <<files, att, target, boundary, made, evidence>>

(* The private key loads and the ledger verifies; a write that was          *)
(* interrupted half way into the files does not, one that reached only its  *)
(* journal goes unnoticed.                                                 *)
ReadLedger(p, path) ==
  /\ ~ IsBPlus /\ legacy /\ pair # "half"
  /\ made < MaxAttempts
  /\ Move(p, "idle", "prompting")
  /\ want' = [want EXCEPT ![p] = path]
  /\ seen' = [seen EXCEPT ![p] = head]
  /\ UNCHANGED <<files, att, target, boundary, made, evidence>>

TakeLock(p) ==
  /\ lock = None
  /\ At(p, "prompting")
  /\ lock' = p
  /\ pc' = [pc EXCEPT ![p] = IF journal = None THEN "checking" ELSE "reading"]
  /\ UNCHANGED <<files, plan, evidence, kills>>

(* MigrateLegacy starts: nothing may be in the way. *)
MayMigrate(p) ==
  /\ home = {}
  /\ legacy
  /\ dest[want[p]] = None
  /\ made < MaxAttempts

BeginJournal(p, content) ==
  /\ MayMigrate(p)
  /\ journal' = content
  /\ made' = made + 1
  /\ att' = [att EXCEPT ![p] = made + 1]
  /\ target' = [target EXCEPT ![made + 1] = want[p]]
  /\ boundary' = [boundary EXCEPT ![made + 1] = seen[p]]
  /\ UNCHANGED <<temp, stage, dest, legacy, quarantine, home, owner, want, seen, evidence>>

WriteJournal(p) == Move(p, "checking", "journaled") /\ BeginJournal(p, made + 1)

RefuseMigration(p) ==
  /\ At(p, "checking")
  /\ ~ MayMigrate(p)
  /\ End(p)
  /\ UNCHANGED <<files, plan, evidence, kills>>

StagePackage(p) ==
  /\ Move(p, "journaled", "packaged")
  /\ temp' = [temp EXCEPT ![att[p]] = "whole"]
  /\ UNCHANGED <<journal, stage, dest, legacy, quarantine, home, owner, plan, evidence>>

(* writeStagedHome; killed inside, it leaves some of the parts. *)
StageAuthority(p) ==
  /\ Move(p, "packaged", "completing")
  /\ stage' = [stage EXCEPT ![att[p]] = Parts]
  /\ UNCHANGED <<journal, temp, dest, legacy, quarantine, home, owner, plan, evidence>>

----------------------------------------------------------------------------
(* recoverPendingMigrationLocked *)

(* The recovery commands look for the journal, then take the lock. *)
StartRecover(p) ==
  /\ journal # None
  /\ lock = None
  /\ At(p, "idle")
  /\ lock' = p
  /\ pc' = [pc EXCEPT ![p] = "reading"]
  /\ want' = [want EXCEPT ![p] = None]
  /\ UNCHANGED <<files, seen, att, target, boundary, made, evidence, kills>>

ReadJournal(p) ==
  /\ journal # Torn
  /\ Move(p, "reading", "assessing")
  /\ att' = [att EXCEPT ![p] = journal]
  /\ UNCHANGED <<files, want, seen, target, boundary, made, evidence>>

UnreadableJournal(p) ==
  /\ At(p, "reading")
  /\ journal = Torn
  /\ End(p)
  /\ UNCHANGED <<files, plan, evidence, kills>>

Published(a)     == dest[target[a]] = a
PackageReady(a)  == temp[a] = "whole" \/ Published(a)
StageReady(a)    == stage[a] = Parts
IdentityReady(a) == "lifecycle" \in home /\ owner = a
Completable(a)   == PackageReady(a) /\ (StageReady(a) \/ IdentityReady(a))

Assess(p) ==
  /\ At(p, "assessing")
  /\ IsBPlus \/ Completable(att[p])
  /\ Move(p, "assessing", IF IsBPlus THEN "cleanQuarantine" ELSE "completing")
  /\ UNCHANGED <<files, plan, evidence>>

(* Roll-back only while the legacy key is the authority; otherwise nothing  *)
(* is touched.                                                             *)
AssessRollBack(p) ==
  /\ At(p, "assessing")
  /\ ~ IsBPlus /\ ~ Completable(att[p])
  /\ IF legacy /\ ~ quarantine
     THEN Move(p, "assessing", "removing")
     ELSE End(p) /\ UNCHANGED kills
  /\ UNCHANGED <<files, plan, evidence>>

(* Mutant: the journal is removed before what it names. *)
RollStageForgotten(p) ==
  /\ Move(p, "removing", "rollTemp")
  /\ stage' = [stage EXCEPT ![att[p]] = {}]
  /\ journal' = None
  /\ UNCHANGED <<temp, dest, legacy, quarantine, home, owner, plan, evidence>>

RollStage(p) ==
  /\ Move(p, "removing", "rollTemp")
  /\ stage' = [stage EXCEPT ![att[p]] = {}]
  /\ UNCHANGED <<journal, temp, dest, legacy, quarantine, home, owner, plan, evidence>>

RollTemp(p) ==
  /\ Move(p, "rollTemp", "rollJournal")
  /\ temp' = [temp EXCEPT ![att[p]] = None]
  /\ UNCHANGED <<journal, stage, dest, legacy, quarantine, home, owner, plan, evidence>>

(* Mutant: the journal is kept after a roll-back. *)
RollJournalKept(p) ==
  /\ At(p, "rollJournal")
  /\ End(p)
  /\ UNCHANGED <<files, plan, evidence, kills>>

(* A migration starts over, a recovery is done. *)
RollJournal(p) ==
  /\ At(p, "rollJournal")
  /\ journal' = None
  /\ IF want[p] = None THEN End(p)
     ELSE pc' = [pc EXCEPT ![p] = "checking"] /\ UNCHANGED lock
  /\ UNCHANGED <<temp, stage, dest, legacy, quarantine, home, owner, plan, evidence, kills>>

----------------------------------------------------------------------------
(* completeMigration: each step is skipped when an earlier attempt did it.  *)

(* Mutant: a key that is already there stays at its place. *)
SetLegacyKeyAsideLate(p) ==
  /\ Move(p, "completing", "publishing")
  /\ quarantine' = TRUE
  /\ UNCHANGED <<journal, temp, stage, dest, legacy, home, owner, plan, evidence>>

SetLegacyKeyAside(p) ==
  /\ Move(p, "completing", "publishing")
  /\ quarantine \/ legacy
  /\ quarantine' = TRUE
  /\ legacy' = IF quarantine THEN legacy ELSE FALSE
  /\ UNCHANGED <<journal, temp, stage, dest, home, owner, plan, evidence>>

PublishPackage(p) ==
  /\ Move(p, "publishing", "authorizing")
  /\ LET a == att[p] IN
     IF Published(a) THEN UNCHANGED <<dest, temp>>
     ELSE /\ temp[a] = "whole" /\ dest[target[a]] = None
          /\ dest' = [dest EXCEPT ![target[a]] = a]
          /\ temp' = [temp EXCEPT ![a] = None]
  /\ UNCHANGED <<journal, stage, legacy, quarantine, home, owner, plan, evidence>>

(* The whole identity directory moves with one rename. *)
PublishAuthority(p) ==
  /\ Move(p, "authorizing", "marking")
  /\ LET a == att[p] IN
     IF home # {} THEN UNCHANGED <<home, owner, stage>>
     ELSE /\ StageReady(a)
          /\ home' = IdentityParts
          /\ owner' = a
          /\ stage' = [stage EXCEPT ![a] = @ \ IdentityParts]
  /\ UNCHANGED <<journal, temp, dest, legacy, quarantine, plan, evidence>>

PublishMarker(p) ==
  /\ Move(p, "marking", "confirming")
  /\ IF IsBPlus THEN UNCHANGED <<home, stage>>
     ELSE /\ "marker" \in stage[att[p]]
          /\ home' = home \cup {"marker"}
          /\ stage' = [stage EXCEPT ![att[p]] = @ \ {"marker"}]
  /\ UNCHANGED <<journal, temp, dest, legacy, quarantine, owner, plan, evidence>>

Confirm(p) ==
  /\ Move(p, "confirming", "cleanQuarantine")
  /\ home = IdentityParts \cup {"marker"} /\ owner = att[p]
  /\ UNCHANGED <<files, plan, evidence>>

----------------------------------------------------------------------------
(* cleanupCompletedMigration *)

CleanQuarantine(p) ==
  /\ Move(p, "cleanQuarantine", "cleanTemp")
  /\ quarantine' = FALSE
  /\ UNCHANGED <<journal, temp, stage, dest, legacy, home, owner, plan, evidence>>

CleanTemp(p) ==
  /\ Move(p, "cleanTemp", "cleanJournal")
  /\ temp' = [temp EXCEPT ![att[p]] = None]
  /\ UNCHANGED <<journal, stage, dest, legacy, quarantine, home, owner, plan, evidence>>

CleanJournal(p) ==
  /\ Move(p, "cleanJournal", "cleanStage")
  /\ journal' = None
  /\ UNCHANGED <<temp, stage, dest, legacy, quarantine, home, owner, plan, evidence>>

CleanStage(p) ==
  /\ At(p, "cleanStage")
  /\ stage' = [stage EXCEPT ![att[p]] = {}]
  /\ End(p)
  /\ UNCHANGED <<journal, temp, dest, legacy, quarantine, home, owner, plan, evidence, kills>>

----------------------------------------------------------------------------
(* The receipt recovery of a `ueg recover` of its own: the interrupted pair *)
(* is completed by the key that is in place, legacy or B+.  The command      *)
(* looked for a migration journal before it took the lock.                  *)
RecoverPair ==
  /\ pair # "none"
  /\ lock = None
  /\ legacy \/ IsBPlus
  /\ head' = head + 1
  /\ pair' = "none"
  /\ UNCHANGED <<pc, lock, files, plan, kills>>

(* A process is lost between two steps, inside writeStagedHome or           *)
(* os.RemoveAll, or inside a write under a final name.                     *)
Lost(p) == kills < MaxKills /\ kills' = kills + 1 /\ End(p)

Kill(p) == ~ At(p, "idle") /\ Lost(p) /\ UNCHANGED <<files, plan, evidence>>

TearJournal(p) == At(p, "checking") /\ BeginJournal(p, Torn) /\ Lost(p)

TearPackage(p) ==
  /\ At(p, "journaled")
  /\ temp' = [temp EXCEPT ![att[p]] = Torn]
  /\ Lost(p)
  /\ UNCHANGED <<journal, stage, dest, legacy, quarantine, home, owner, plan, evidence>>

KillStaging(p) ==
  /\ At(p, "packaged")
  /\ \E part \in {{}, {"keys"}, {"keys", "public"}, {"keys", "public", "marker"}} :
       stage' = [stage EXCEPT ![att[p]] = part]
  /\ Lost(p)
  /\ UNCHANGED <<journal, temp, dest, legacy, quarantine, home, owner, plan, evidence>>

KillRemoving(p) ==
  /\ At(p, "removing") \/ At(p, "cleanStage")
  /\ \E left \in SUBSET stage[att[p]] : stage' = [stage EXCEPT ![att[p]] = left]
  /\ Lost(p)
  /\ UNCHANGED <<journal, temp, dest, legacy, quarantine, home, owner, plan, evidence>>

----------------------------------------------------------------------------
Init ==
  /\ pc = [p \in Proc |-> "idle"]
  /\ lock = None
  /\ want = [p \in Proc |-> None] /\ seen = [p \in Proc |-> 0]
  /\ att = [p \in Proc |-> None]
  /\ journal = None
  /\ temp = [a \in Attempts |-> None] /\ stage = [a \in Attempts |-> {}]
  /\ dest = [x \in Paths |-> None]
  /\ legacy = TRUE /\ quarantine = FALSE
  /\ home = {} /\ owner = None
  /\ target = [a \in Attempts |-> None] /\ boundary = [a \in Attempts |-> 0]
  /\ made = 0 /\ kills = 0
  /\ head = 1
  /\ pair \in {"none", "journaled", "half"}

Work(p) ==
  \/ TakeLock(p) \/ WriteJournal(p) \/ RefuseMigration(p)
  \/ StagePackage(p) \/ StageAuthority(p)
  \/ ReadJournal(p) \/ UnreadableJournal(p)
  \/ Assess(p) \/ AssessRollBack(p)
  \/ RollStage(p) \/ RollTemp(p) \/ RollJournal(p)
  \/ SetLegacyKeyAside(p) \/ PublishPackage(p) \/ PublishAuthority(p)
  \/ PublishMarker(p) \/ Confirm(p)
  \/ CleanQuarantine(p) \/ CleanTemp(p) \/ CleanJournal(p) \/ CleanStage(p)

Next ==
  \/ \E p \in Proc :
       \/ \E path \in Paths : ReadLedger(p, path)
       \/ StartRecover(p)
       \/ Work(p)
       \/ Kill(p) \/ TearJournal(p) \/ TearPackage(p) \/ KillStaging(p) \/ KillRemoving(p)
  \/ RecoverPair

Spec == Init /\ [][Next]_vars

(* A running command goes on, and the operator runs the recovery command.   *)
FairSpec == Spec /\ \A p \in Proc : WF_vars(Work(p)) /\ SF_vars(StartRecover(p))

----------------------------------------------------------------------------
(* Properties *)

TypeOK ==
  /\ pc \in [Proc -> {"idle", "prompting", "checking", "journaled", "packaged", "reading",
                      "assessing", "removing", "rollTemp", "rollJournal", "completing",
                      "publishing", "authorizing", "marking", "confirming",
                      "cleanQuarantine", "cleanTemp", "cleanJournal", "cleanStage"}]
  /\ lock \in Proc \cup {None}
  /\ want \in [Proc -> Paths \cup {None}] /\ seen \in [Proc -> Nat]
  /\ att \in [Proc -> Attempts \cup {None}]
  /\ journal \in Attempts \cup {None, Torn}
  /\ temp \in [Attempts -> {None, Torn, "whole"}] /\ stage \in [Attempts -> SUBSET Parts]
  /\ dest \in [Paths -> Attempts \cup {None}]
  /\ {legacy, quarantine} \subseteq BOOLEAN
  /\ home \subseteq Parts /\ owner \in Attempts \cup {None}
  /\ target \in [Attempts -> Paths \cup {None}] /\ boundary \in [Attempts -> Nat]
  /\ made \in 0 .. MaxAttempts /\ kills \in 0 .. MaxKills
  /\ head \in Nat /\ pair \in {"none", "journaled", "half"}

(* The only key that ever signed this home's evidence is neither lost nor   *)
(* usable twice, whatever the migration or its roll-back is interrupted at: *)
(* it is at its old place, set aside, or published as epoch zero's, and     *)
(* never at its old place, where an old binary would sign with it           *)
(* (INSTALL.md:189), beside any part of the new authority.                  *)
LegacyKeyIsSafe ==
  /\ legacy \/ quarantine \/ "keys" \in home
  /\ home # {} => ~ legacy

(* With no journal and nobody at work, the home is the legacy home it was   *)
(* or a whole B+ home, and no copy of the private key is left beside it.    *)
Quiet == journal = None /\ lock = None

Untouched == legacy /\ ~ quarantine /\ home = {} /\ \A x \in Paths : dest[x] = None
Migrated  == ~ legacy /\ ~ quarantine /\ home = IdentityParts \cup {"marker"}

AllOrNothing ==
  Quiet =>
    /\ Untouched \/ Migrated
    /\ \A a \in Attempts : "keys" \notin stage[a] /\ temp[a] = None

(* An interrupted migration whose journal is whole is completed or rolled   *)
(* back.                                                                    *)
DurableMigrationSettles == journal \notin {None, Torn} ~> journal = None

(* A genesis never names a receipt that the ledger does not hold, which     *)
(* every later verification would refuse (ledger.go:808).  It may miss the  *)
(* one pair that was completed after the command read the ledger, for the   *)
(* command takes the lock later (identity.go:663-685).                      *)
GenesisNamesAReceipt == \A a \in 1 .. made : boundary[a] \in {head - 1, head}
=============================================================================
