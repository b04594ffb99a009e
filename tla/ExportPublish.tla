----------------------------- MODULE ExportPublish -----------------------------
(***************************************************************************)
(* How an export reaches its destination (writeTarGzAtomic in internal/    *)
(* bundle/bundle.go, publishNoReplace in publish_unix.go): several exports *)
(* to one new filename, a user who creates a file there, failing calls,    *)
(* killed processes and power losses.                                      *)
(*                                                                         *)
(* Abstractions.  One export per process, whose file is named by the       *)
(* process; the contents are whole or not.  A directory operation is on    *)
(* disk once the directory was synced after it, the contents once the file *)
(* was; before, a power loss keeps or loses each on its own.  The calls    *)
(* before the temporary file (building the members) change nothing here;   *)
(* BundleArchive has them.                                                 *)
(***************************************************************************)
CONSTANTS Procs, User, None

Verdicts == {"exists", "failed", "invalid", "unchanged", "reached", "written"}

ASSUME NamesApart == User \notin Procs /\ None \notin Procs \cup Verdicts \cup {User}

VARIABLES
  pc,
  told,         \* process -> what its user was told, or None
  temp,         \* processes whose temporary name is in the directory
  tempOnDisk,   \* the same, on disk
  dest,         \* whose file the destination names: a process', User's, None
  destOnDisk,   \* the same, on disk
  whole,        \* processes whose file has all of its contents
  flushed       \* processes whose contents are on disk

vars == <<pc, told, temp, tempOnDisk, dest, destOnDisk, whole, flushed>>

At(p, label)   == pc[p] = label
Go(p, label)   == pc' = [pc EXCEPT ![p] = label]
Tell(p, label) == told' = [told EXCEPT ![p] = label]

(* The deferred removal of the temporary file, whose failure is ignored.    *)
Leave(p, label) ==
  /\ Go(p, "ended")
  /\ Tell(p, label)
  /\ temp' \in {temp, temp \ {p}}

(* availableDestination *)
CheckDestination(p) ==
  /\ At(p, "idle")
  /\ \/ dest = None /\ Go(p, "create") /\ UNCHANGED told
     \/ dest # None /\ Go(p, "ended") /\ Tell(p, "exists")
  /\ UNCHANGED <<temp, tempOnDisk, dest, destOnDisk, whole, flushed>>

CreateTemp(p) ==
  /\ At(p, "create")
  /\ \/ Go(p, "write") /\ temp' = temp \cup {p} /\ UNCHANGED told
     \/ Go(p, "ended") /\ Tell(p, "failed") /\ UNCHANGED temp
  /\ UNCHANGED <<tempOnDisk, dest, destOnDisk, whole, flushed>>

(* Mutant: the file is not synced. *)
WriteUnsynced(p) ==
  /\ At(p, "write")
  /\ whole' = whole \cup {p}
  /\ Go(p, "verify")
  /\ UNCHANGED <<told, temp, tempOnDisk, dest, destOnDisk, flushed>>

(* writeTarGzFile *)
Write(p) ==
  /\ At(p, "write")
  /\ \/ /\ whole' = whole \cup {p}
        /\ flushed' = flushed \cup {p}
        /\ Go(p, "verify")
        /\ UNCHANGED <<told, temp>>
     \/ Leave(p, "failed") /\ UNCHANGED <<whole, flushed>>
  /\ UNCHANGED <<tempOnDisk, dest, destOnDisk>>

(* Verify reads the finished file back. *)
VerifyTemp(p) ==
  /\ At(p, "verify")
  /\ \/ p \in whole /\ Go(p, "link") /\ UNCHANGED <<told, temp>>
     \/ Leave(p, "invalid")
  /\ UNCHANGED <<tempOnDisk, dest, destOnDisk, whole, flushed>>

(* Mutant: the file is renamed over whatever is there. *)
RenameOver(p) ==
  /\ At(p, "link")
  /\ dest' = p
  /\ Go(p, "sync")
  /\ UNCHANGED <<told, temp, tempOnDisk, destOnDisk, whole, flushed>>

Link(p) ==
  /\ At(p, "link")
  /\ \/ dest = None /\ dest' = p /\ Go(p, "sync") /\ UNCHANGED <<told, temp>>
     \/ dest # None /\ Leave(p, "exists") /\ UNCHANGED dest
     \/ Leave(p, "unchanged") /\ UNCHANGED dest
  /\ UNCHANGED <<tempOnDisk, destOnDisk, whole, flushed>>

SyncDirectory == destOnDisk' = dest /\ tempOnDisk' = temp

Sync(p) ==
  /\ At(p, "sync")
  /\ \/ SyncDirectory /\ Go(p, "remove") /\ UNCHANGED <<told, temp>>
     \/ Leave(p, "reached") /\ UNCHANGED <<destOnDisk, tempOnDisk>>
  /\ UNCHANGED <<dest, whole, flushed>>

RemoveTemp(p) ==
  /\ At(p, "remove")
  /\ \/ temp' = temp \ {p} /\ Go(p, "resync") /\ UNCHANGED told
     \/ Leave(p, "reached")
  /\ UNCHANGED <<tempOnDisk, dest, destOnDisk, whole, flushed>>

(* Mutant: the directory is not synced again. *)
ResyncNothing(p) ==
  /\ At(p, "resync")
  /\ Go(p, "ended") /\ Tell(p, "written")
  /\ UNCHANGED <<temp, tempOnDisk, dest, destOnDisk, whole, flushed>>

Resync(p) ==
  /\ At(p, "resync")
  /\ Go(p, "ended")
  /\ \/ SyncDirectory /\ Tell(p, "written")
     \/ Tell(p, "reached") /\ UNCHANGED <<destOnDisk, tempOnDisk>>
  /\ UNCHANGED <<temp, dest, whole, flushed>>

----------------------------------------------------------------------------
(* The surroundings *)

UserCreates ==
  /\ dest = None
  /\ dest' = User
  /\ UNCHANGED <<pc, told, temp, tempOnDisk, destOnDisk, whole, flushed>>

Kill(p) ==
  /\ pc[p] \notin {"idle", "ended"}
  /\ Go(p, "ended")
  /\ UNCHANGED <<told, temp, tempOnDisk, dest, destOnDisk, whole, flushed>>

PowerLoss ==
  /\ pc' = [p \in Procs |-> IF pc[p] = "idle" THEN "idle" ELSE "ended"]
  /\ \E d \in {dest, destOnDisk},
        names \in SUBSET (temp \cup tempOnDisk),
        files \in SUBSET whole :
       /\ temp \cap tempOnDisk \subseteq names
       /\ flushed \subseteq files
       /\ dest' = d /\ destOnDisk' = d
       /\ temp' = names /\ tempOnDisk' = names
       /\ whole' = files /\ flushed' = files
  /\ UNCHANGED told

Init ==
  /\ pc = [p \in Procs |-> "idle"]
  /\ told = [p \in Procs |-> None]
  /\ temp = {} /\ tempOnDisk = {}
  /\ dest = None /\ destOnDisk = None
  /\ whole = {} /\ flushed = {}

Export(p) ==
  \/ CheckDestination(p) \/ CreateTemp(p) \/ Write(p) \/ VerifyTemp(p)
  \/ Link(p) \/ Sync(p) \/ RemoveTemp(p) \/ Resync(p)

Next ==
  \/ \E p \in Procs : Export(p) \/ Kill(p)
  \/ UserCreates
  \/ PowerLoss

Spec == Init /\ [][Next]_vars

----------------------------------------------------------------------------
(* Properties *)

(* Besides the types: only an export that has ended has told its user       *)
(* anything, and one still at work has its temporary file.                  *)
TypeOK ==
  /\ pc \in [Procs -> {"idle", "create", "write", "verify", "link", "sync",
                       "remove", "resync", "ended"}]
  /\ told \in [Procs -> Verdicts \cup {None}]
  /\ {temp, tempOnDisk, whole, flushed} \subseteq SUBSET Procs
  /\ {dest, destOnDisk} \subseteq Procs \cup {User, None}
  /\ flushed \subseteq whole
  /\ \A p \in Procs :
       /\ told[p] # None => pc[p] = "ended"
       /\ pc[p] \notin {"idle", "create", "resync", "ended"} => p \in temp

(* README.md:138: export "verifies the completed temporary bundle, and      *)
(* atomically publishes the final new filename".  What the destination      *)
(* names is a whole bundle, on disk too, also after a power loss.           *)
DestinationIsWhole ==
  /\ dest \in Procs => dest \in whole
  /\ destOnDisk \in Procs => destOnDisk \in flushed

(* README.md:139: "It does not replace an existing destination".  Only a    *)
(* power loss before the first sync takes a published name away again.      *)
NeverReplaced ==
  [][dest # None /\ dest' # dest => dest # destOnDisk /\ dest' = destOnDisk]_vars

(* What an export has told its user stays true, whatever others do and      *)
(* however the machine stops: after a success its bundle is at the          *)
(* destination and its temporary file gone, both for good; after an error   *)
(* that says the destination was not changed, it was not.                   *)
ReportStands ==
  \A p \in Procs :
    /\ told[p] = "written" =>
         dest = p /\ destOnDisk = p /\ p \notin temp \cup tempOnDisk
    /\ told[p] \in Verdicts \ {"written", "reached"} => dest # p /\ destOnDisk # p
=============================================================================
