------------------------------- MODULE Freshness -------------------------------
(***************************************************************************)
(* What tells a copied home from the one that lives on: lifecycle          *)
(* checkpoints exported from homes, the trust store they are imported into *)
(* (ImportCheckpoint, internal/identity/artifacts.go), and the gate that   *)
(* `run`, `replay` and the lifecycle mutations pass when they are given    *)
(* that store (requireCurrentLifecycleForSigning in cmd/ueg/main.go,       *)
(* requireCurrentLifecycleForMutation in cmd/ueg/identity.go).             *)
(*                                                                         *)
(* Abstractions.  A lifecycle is the sequence of its records' contents and *)
(* the digest of a record is the sequence up to it (each digest covers the *)
(* one before); genesis is left out.  One identity, hence one file in the  *)
(* store.  A checkpoint a user keeps is what an importer holds; giving it  *)
(* to a command directly passes the same gate.                             *)
(***************************************************************************)
EXTENDS Integers, SequencesExt

CONSTANTS Homes,        \* copies of one evidence home
          Procs,
          Contents,     \* what a lifecycle record can say
          Absent,
          MaxLength     \* bound on a lifecycle's length

Lifecycles == BoundedSeq(Contents, MaxLength)

ASSUME LengthIsNatural == MaxLength \in Nat
ASSUME AbsentIsApart == Absent \notin Homes \cup Procs \cup Lifecycles

VARIABLES
  local,       \* home -> its lifecycle
  homeLock,    \* home -> process that holds its lock, or Absent
  stored,      \* the checkpoint in the trust store, or Absent
  storeLock,   \* process that holds the lock beside that file, or Absent
  pc, at,      \* what each process does, and at which home
  held,        \* importer -> the checkpoint it has, or Absent
  seen         \* process -> the checkpoint its command was given, or Absent

storeVars == <<local, homeLock, stored, storeLock, pc, at, held, seen>>

At(p, label) == pc[p] = label
Go(p, label) == pc' = [pc EXCEPT ![p] = label]
Forget(f, p) == [f EXCEPT ![p] = Absent]

Free(lock, p) == IF lock = p THEN Absent ELSE lock
FreeHomes(p)  == [h \in Homes |-> Free(homeLock[h], p)]

----------------------------------------------------------------------------
(* Checkpoints *)

(* identity checkpoint export, under the home lock. *)
Export(p, h) ==
  /\ At(p, "idle")
  /\ homeLock[h] = Absent
  /\ held' = [held EXCEPT ![p] = local[h]]
  /\ UNCHANGED <<local, homeLock, stored, storeLock, pc, at, seen>>

LockStore(p) ==
  /\ At(p, "idle")
  /\ held[p] # Absent
  /\ storeLock = Absent
  /\ storeLock' = p
  /\ Go(p, "locked")
  /\ UNCHANGED <<local, homeLock, stored, at, held, seen>>

(* Mutant: a newer checkpoint need not descend from the stored one. *)
Newer(checkpoint, existing) ==
  existing = Absent \/ Len(checkpoint) > Len(existing)

(* An absent file is replaced by whatever comes first; otherwise only a     *)
(* longer lifecycle that contains the stored one is.                        *)
Replaces(checkpoint, existing) ==
  \/ existing = Absent
  \/ Len(checkpoint) > Len(existing) /\ IsPrefix(existing, checkpoint)

(* Rollback, conflict and fork end the import; so does the same checkpoint, *)
(* which is there already.                                                  *)
ReadStored(p) ==
  /\ At(p, "locked")
  /\ Go(p, IF Replaces(held[p], stored) THEN "replace" ELSE "unlock")
  /\ UNCHANGED <<local, homeLock, stored, storeLock, at, held, seen>>

(* The temporary file takes the place of the stored one in one step. *)
Replace(p) ==
  /\ At(p, "replace")
  /\ stored' = held[p]
  /\ Go(p, "unlock")
  /\ UNCHANGED <<local, homeLock, storeLock, at, held, seen>>

UnlockStore(p) ==
  /\ At(p, "unlock")
  /\ storeLock' = Free(storeLock, p)
  /\ Go(p, "idle")
  /\ UNCHANGED <<local, homeLock, stored, at, held, seen>>

----------------------------------------------------------------------------
(* Signing and mutating *)

(* Mutant: only the lengths are compared. *)
NotBehind(mine, external) == Len(mine) >= Len(external)

(* CompareLifecycleStates: neither a fork nor LOCAL_STALE. *)
Current(mine, external) == IsPrefix(external, mine)

Start(p, h) ==
  /\ At(p, "idle")
  /\ homeLock[h] = Absent
  /\ homeLock' = [homeLock EXCEPT ![h] = p]
  /\ at' = [at EXCEPT ![p] = h]
  /\ Go(p, "gate")
  /\ UNCHANGED <<local, stored, storeLock, held, seen>>

(* A store with no checkpoint in it is an error. *)
Gate(p) ==
  /\ At(p, "gate")
  /\ seen' = [seen EXCEPT ![p] = stored]
  /\ Go(p, IF stored # Absent /\ Current(local[at[p]], stored) THEN "act" ELSE "release")
  /\ UNCHANGED <<local, homeLock, stored, storeLock, at, held>>

(* Without --checkpoint and --trust-store nothing is compared: local-only   *)
(* freshness.                                                               *)
Unproven(p) ==
  /\ At(p, "gate")
  /\ Go(p, "act")
  /\ UNCHANGED <<local, homeLock, stored, storeLock, at, held, seen>>

SignHere(p) ==
  /\ At(p, "act")
  /\ Go(p, "release")
  /\ UNCHANGED <<local, homeLock, stored, storeLock, at, held, seen>>

MutateHere(p, content) ==
  /\ At(p, "act")
  /\ Len(local[at[p]]) < MaxLength
  /\ local' = [local EXCEPT ![at[p]] = Append(@, content)]
  /\ Go(p, "release")
  /\ UNCHANGED <<homeLock, stored, storeLock, at, held, seen>>

Release(p) ==
  /\ At(p, "release")
  /\ homeLock' = FreeHomes(p)
  /\ at' = Forget(at, p) /\ seen' = Forget(seen, p)
  /\ Go(p, "idle")
  /\ UNCHANGED <<local, stored, storeLock, held>>

----------------------------------------------------------------------------
(* The surroundings *)

(* "Copy the complete evidence home while no UEG process is using it": a    *)
(* backup, a transfer, a restore.                                           *)
Copy(h, g) ==
  /\ h # g
  /\ homeLock[h] = Absent /\ homeLock[g] = Absent
  /\ local' = [local EXCEPT ![g] = local[h]]
  /\ UNCHANGED <<homeLock, stored, storeLock, pc, at, held, seen>>

(* The kernel releases a dead process's locks; checkpoints are files. *)
Kill(p) ==
  /\ ~At(p, "idle")
  /\ homeLock' = FreeHomes(p)
  /\ storeLock' = Free(storeLock, p)
  /\ at' = Forget(at, p) /\ seen' = Forget(seen, p)
  /\ Go(p, "idle")
  /\ UNCHANGED <<local, stored, held>>

StoreInit ==
  /\ local = [h \in Homes |-> <<>>]
  /\ homeLock = [h \in Homes |-> Absent]
  /\ stored = Absent
  /\ storeLock = Absent
  /\ pc = [p \in Procs |-> "idle"]
  /\ at = [p \in Procs |-> Absent]
  /\ held = [p \in Procs |-> Absent]
  /\ seen = [p \in Procs |-> Absent]

Importer(p) ==
  \/ \E h \in Homes : Export(p, h)
  \/ LockStore(p) \/ ReadStored(p) \/ Replace(p) \/ UnlockStore(p)

Operator(p) ==
  \/ \E h \in Homes : Start(p, h)
  \/ Gate(p) \/ Unproven(p) \/ SignHere(p) \/ Release(p)
  \/ \E content \in Contents : MutateHere(p, content)

StoreNext ==
  \/ \E p \in Procs : Importer(p) \/ Operator(p) \/ Kill(p)
  \/ \E h, g \in Homes : Copy(h, g)

StoreSpec == StoreInit /\ [][StoreNext]_storeVars

----------------------------------------------------------------------------
(* Properties *)

Labels == {"idle", "locked", "replace", "unlock", "gate", "act", "release"}

(* Besides the types: the trust store's lock is held exactly while an       *)
(* import is under way, a home's exactly while a command runs there.        *)
StoreTypeOK ==
  /\ local \in [Homes -> Lifecycles]
  /\ stored \in Lifecycles \cup {Absent}
  /\ homeLock \in [Homes -> Procs \cup {Absent}]
  /\ storeLock \in Procs \cup {Absent}
  /\ pc \in [Procs -> Labels]
  /\ at \in [Procs -> Homes \cup {Absent}]
  /\ held \in [Procs -> Lifecycles \cup {Absent}]
  /\ seen \in [Procs -> Lifecycles \cup {Absent}]
  /\ \A p \in Procs :
       /\ (storeLock = p) <=> (pc[p] \in {"locked", "replace", "unlock"})
       /\ \A h \in Homes :
            (homeLock[h] = p) <=>
              (at[p] = h /\ pc[p] \in {"gate", "act", "release"})

(* artifacts.go:223: ImportCheckpoint "persists monotonic verifier state".  *)
(* Whatever is imported in whatever order, by several processes at once and *)
(* killed anywhere, what the store said once stays part of what it says.    *)
StoreOnlyAdvances ==
  [][stored # Absent => stored' # Absent /\ IsPrefix(stored, stored')]_storeVars

(* INSTALL.md:156: given the trust store "UEG then blocks a stale clone     *)
(* before it can sign or mutate state".  When it signs or mutates, the      *)
(* lifecycle of the home contains all of the checkpoint that was read,      *)
(* whatever was restored, mutated or imported since the command started.    *)
GatedActsAreCurrent ==
  [][\A p \in Procs :
       pc[p] = "act" /\ pc'[p] = "release" /\ seen[p] # Absent =>
         IsPrefix(seen[p], local[at[p]])]_storeVars
=============================================================================
