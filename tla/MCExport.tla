------------------------------- MODULE MCExport -------------------------------
(* Three exports race for one filename, with a user who may take it first   *)
(* and any number of power losses.  Bundles of two homes, with ledgers of   *)
(* one or two receipts, are edited twice: their members, or their roots,    *)
(* and a new seal.  A bundle is edited after it has left the machine that   *)
(* published it, so the two are examined side by side.                      *)
EXTENDS ExportPublish, BundleArchive, TLC

(* One is published of the shortest exports, which differ in names only. *)
Shortest == {Build(key, Ledger(key, <<policy>>, 0)) : key \in Keys, policy \in Policies}

NothingPublished ==
  dest = None /\ destOnDisk = None /\ \A p \in Procs : At(p, "idle")

ExportInit == Init /\ HandOver

ExportNext ==
  \/ Next /\ archive \in Shortest /\ edits = 0 /\ UNCHANGED bundle
  \/ Edit /\ NothingPublished /\ UNCHANGED vars

ExportSpec == ExportInit /\ [][ExportNext]_<<vars, bundle>>

Symmetry == Permutations(Procs) \cup Permutations(Keys) \cup Permutations(Policies)
=============================================================================
