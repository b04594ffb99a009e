---------------------------- MODULE AuthorityProofs ----------------------------
(***************************************************************************)
(* Whose signature counts, for any number of receipts, records, keys,      *)
(* homes and processes: the authority a lifecycle derives (part one), the  *)
(* trust store that tells a copy from the home that lives on (part two),   *)
(* and the verdict on what either of them exported (part three).           *)
(***************************************************************************)
EXTENDS SigningAuthority, Freshness, EvidenceTrust, LifecycleProofs

----------------------------------------------------------------------------
(* Sequences *)

(* The library's definition, which SMT reads better under a name of ours. *)
LEMMA BoundedSeqs ==
  ASSUME NEW S, NEW n \in Nat, NEW s
  PROVE  s \in BoundedSeq(S, n) <=> s \in Seq(S) /\ Len(s) <= n
<1>1. BoundedSeq(S, n) = UNION {[1 .. m -> S] : m \in 0 .. n}
  BY DEF BoundedSeq, SeqOf
<1>2. ASSUME s \in BoundedSeq(S, n) PROVE s \in Seq(S) /\ Len(s) <= n
  <2>1. PICK m \in 0 .. n : s \in [1 .. m -> S]
    BY <1>1, <1>2
  <2> QED BY <2>1
<1>3. ASSUME s \in Seq(S), Len(s) <= n PROVE s \in BoundedSeq(S, n)
  <2>1. s \in [1 .. Len(s) -> S] /\ Len(s) \in 0 .. n
    BY <1>3
  <2> QED BY <1>1, <2>1
<1> QED BY <1>2, <1>3

LEMMA PrefixElementwise ==
  ASSUME NEW S, NEW s \in Seq(S), NEW t \in Seq(S)
  PROVE  IsPrefix(s, t) <=> Len(s) <= Len(t) /\ \A i \in 1 .. Len(s) : s[i] = t[i]
<1>1. SubSeq(s, 1, Len(s)) = s
  OBVIOUS
<1>2. ASSUME Len(s) <= Len(t), \A i \in 1 .. Len(s) : s[i] = t[i]
      PROVE  s = SubSeq(t, 1, Len(s))
  BY <1>2
<1>3. ASSUME Len(s) <= Len(t), s = SubSeq(t, 1, Len(s))
      PROVE  \A i \in 1 .. Len(s) : s[i] = t[i]
  BY <1>3
<1> QED BY <1>1, <1>2, <1>3 DEF IsPrefix

LEMMA PrefixOfItself ==
  ASSUME NEW S, NEW s \in Seq(S)
  PROVE  IsPrefix(s, s)
BY PrefixElementwise

(***************************************************************************)
(* PART ONE: SigningAuthority.  Every receipt stays authorized, there is   *)
(* one signer at a time and a closed epoch is closed for ever.             *)
(***************************************************************************)

LoggedReceipts == [seq : Int, prev : Nat \cup {None}, id : Nat, key : Nat, request : Requests]

(* The authority obeys its laws over a log of exactly this length, and the  *)
(* log verifies against it.                                                 *)
IInv ==
  /\ log \in Seq(LoggedReceipts)
  /\ Lawful(authority, Len(log), NoAnchors)
  /\ EveryReceiptAuthorized

----------------------------------------------------------------------------
LEMMA HeadOfLog ==
  ASSUME IInv
  PROVE  /\ HeadBoundary(log) \in [seq : Int, id : Nat \cup {None}]
         /\ HeadBoundary(log).seq = Len(log) - 1
<1>1. log \in Seq(LoggedReceipts) /\ VerifyChain(log, TrustedKeys(authority)) /\ Len(log) \in Nat
  BY DEF IInv, EveryReceiptAuthorized, VerifyBPlus
<1>2. ASSUME Len(log) # 0
      PROVE  log[Len(log)].id \in Nat
  <2>1. log[Len(log)] \in LoggedReceipts
    BY <1>1, <1>2
  <2> QED BY <2>1 DEF LoggedReceipts
<1> QED BY <1>1, <1>2, HeadOfVerified DEF Boundary

LEMMA InitInv == Init => IInv
<1> SUFFICES ASSUME Init PROVE IInv
  OBVIOUS
<1>1. Lawful(authority, Len(log), NoAnchors)
  <2>1. GenesisKey \in Nat
    BY NumberedIdsAndKeys
  <2>2. authority = Genesis(GenesisKey) /\ Len(log) = 0
    BY DEF Init
  <2> QED BY <2>1, <2>2, GenesisLawful DEF NoAnchors
<1>2. \A i \in DOMAIN authority.records : authority.records[i].boundary = EmptyBoundary
  BY DEF Init, Genesis
<1>3. log \in Seq(LoggedReceipts) /\ DOMAIN log = {}
  BY DEF Init
<1>4. EveryReceiptAuthorized
  BY <1>2, <1>3 DEF EveryReceiptAuthorized, VerifyBPlus, VerifyChain, BoundariesExact, InsideWindows
<1> QED BY <1>1, <1>3, <1>4 DEF IInv

LEMMA SignStep ==
  ASSUME IInv, NEW id \in Ids, NEW request \in Requests, Sign(id, request)
  PROVE  IInv'
<1> DEFINE key == ActiveKey(authority)
           r   == SignedBy(key, id, request)
<1>1. log \in Seq(LoggedReceipts) /\ Lawful(authority, Len(log), NoAnchors) /\ Len(log) \in Nat
      /\ VerifyBPlus(log, authority)
  BY DEF IInv, EveryReceiptAuthorized
<1>2. /\ authority.active # 0 /\ Unused(id)
      /\ log' = Append(log, r) /\ authority' = authority
  BY DEF Sign
<1>3. key \in Nat
  <2>1. authority.epochs \in Seq(EpochRecords(NoAnchors)) /\ authority.active \in DOMAIN authority.epochs
    BY <1>1, <1>2 DEF Lawful, AuthorityType
  <2>2. authority.epochs[authority.active] \in EpochRecords(NoAnchors)
    BY <2>1
  <2> QED BY <1>2, <2>2 DEF ActiveKey, EpochRecords
<1>4. /\ r.seq = HeadBoundary(log).seq + 1 /\ r.prev = HeadBoundary(log).id /\ r.key = key
      /\ r.id = id /\ r \in LoggedReceipts
  BY <1>1, <1>3, HeadOfLog, NumberedIdsAndKeys DEF SignedBy, LoggedReceipts
<1> HIDE DEF r
<1>5. log' \in Seq(LoggedReceipts) /\ Len(log') = Len(log) + 1
  BY <1>1, <1>2, <1>4
<1>6. VerifyBPlus(log', authority')
  BY <1>1, <1>2, <1>4, EvidenceGrows DEF Unused
<1>7. Lawful(authority', Len(log'), NoAnchors)
  BY <1>1, <1>2, <1>5, LongerLogLawful
<1> QED BY <1>5, <1>6, <1>7 DEF IInv, EveryReceiptAuthorized

(* The record a mutation publishes is one an authority can be derived from. *)
LEMMA MutationRecord ==
  ASSUME IInv, NEW action \in Actions, NEW newKey \in Keys
  PROVE  LET r == NewRecord(authority, action, newKey, MutationBoundary, None) IN
         /\ r \in LifecycleRecords(NoAnchors) /\ r.action = action
         /\ r.boundary = HeadBoundary(log) /\ r.boundary.seq = Len(log) - 1
<1>1. /\ Len(authority.records) \in Nat /\ Len(authority.epochs) \in Nat
      /\ Latest(authority) \in EpochRecords(NoAnchors)
  <2>1. Lawful(authority, Len(log), NoAnchors) /\ Len(log) \in Nat
    BY DEF IInv
  <2>2. Latest(authority) \in EpochRecords(NoAnchors)
    BY <2>1, LatestIsLawful
  <2> QED BY <2>1, <2>2 DEF Lawful, AuthorityType
<1>2. newKey \in Nat /\ Latest(authority).key \in Nat
  BY <1>1, NumberedIdsAndKeys DEF EpochRecords
<1> QED BY <1>1, <1>2, HeadOfLog DEF NewRecord, LatestEpoch, MutationBoundary, LifecycleRecords,
                                      GeneratesKey, NoAnchors

LEMMA MutateStep ==
  ASSUME IInv, NEW action \in Actions, NEW newKey \in Keys,
         NEW keys \in SUBSET {Latest(authority).key}, Mutate(action, newKey, keys)
  PROVE  IInv'
<1> DEFINE r == NewRecord(authority, action, newKey, MutationBoundary, None)
<1>1. /\ log \in Seq(LoggedReceipts) /\ Lawful(authority, Len(log), NoAnchors) /\ Len(log) \in Nat
      /\ VerifyBPlus(log, authority)
  BY DEF IInv, EveryReceiptAuthorized
<1>2. /\ r \in LifecycleRecords(NoAnchors) /\ r.action \in Actions
      /\ r.boundary = HeadBoundary(log) /\ r.boundary.seq = Len(log) - 1
  BY MutationRecord
<1>3. Accepts(authority, r) /\ authority' = Apply(authority, r) /\ log' = log
  BY DEF Mutate
<1> HIDE DEF r
<1>4. Lawful(authority', Len(log'), NoAnchors)
  BY <1>1, <1>2, <1>3, ApplyLawful
<1>5. VerifyBPlus(log', authority')
  BY <1>1, <1>2, <1>3, EvidenceSurvives
<1> QED BY <1>1, <1>3, <1>4, <1>5 DEF IInv, EveryReceiptAuthorized

LEMMA StepInv == IInv /\ [Next]_vars => IInv'
<1> SUFFICES ASSUME IInv, [Next]_vars PROVE IInv'
  OBVIOUS
<1>1. CASE UNCHANGED vars
  BY <1>1 DEF vars, IInv, EveryReceiptAuthorized
<1> QED BY <1>1, SignStep, MutateStep DEF Next

----------------------------------------------------------------------------
(* The inductive invariant holds in every reachable state. *)
THEOREM Invariance == Spec => []IInv
BY InitInv, StepInv, PTL DEF Spec

(* The log is a sequence of receipts, every epoch has a status, a key and   *)
(* at least one window, and the active epoch is one of them or none         *)
(* (State and Epoch of lifecycle.go).                                       *)
THEOREM TypeCorrect == Spec => []TypeOK
<1>1. IInv => TypeOK
  <2> SUFFICES ASSUME IInv PROVE TypeOK
    OBVIOUS
  <2>1. /\ authority.epochs \in Seq(EpochRecords(NoAnchors))
        /\ authority.active \in 0 .. Len(authority.epochs)
    BY DEF IInv, Lawful, AuthorityType
  <2>2. \A e \in DOMAIN authority.epochs : EpochOK(authority.epochs[e])
    <3> TAKE e \in DOMAIN authority.epochs
    <3>1. authority.epochs[e] \in EpochRecords(NoAnchors) /\ Len(authority.epochs[e].windows) > 0
      BY <2>1 DEF IInv, Lawful, WindowLaw
    <3> QED BY <3>1 DEF EpochOK, EpochRecords, Windows
  <2> QED BY <2>1, <2>2 DEF TypeOK, IInv, LoggedReceipts
<1> QED BY <1>1, Invariance, PTL

(* Whatever sequence of rotations, recoveries, suspensions, resumptions and *)
(* revocations a home goes through, every receipt it ever signed passes B+  *)
(* verification (VerifyBPlus: links, boundaries, windows).                  *)
THEOREM ReceiptsStayAuthorized == Spec => []EveryReceiptAuthorized
BY Invariance, PTL DEF IInv

(* No two epochs may sign the same sequence number, and the next one has a  *)
(* signer exactly when an epoch is active (SequenceAuthorized).             *)
THEOREM OnlyOneSigner == Spec => []OneSigner
<1>1. IInv => OneSigner
  <2> SUFFICES ASSUME IInv PROVE OneSigner
    OBVIOUS
  <2>1. Lawful(authority, Len(log), NoAnchors) /\ Len(log) \in Nat
    BY DEF IInv
  <2>2. \A e \in DOMAIN authority.epochs :
          /\ SequenceAuthorized(authority.epochs[e], Len(log)) <=> e = authority.active
          /\ authority.epochs[e].status = "ACTIVE" <=> e = authority.active
    BY <2>1, ActiveSignsNext DEF Lawful, StatusLaw
  <2>3. \A seq \in 0 .. MaxLog : seq \in Nat
    BY BoundsAreNatural
  <2> QED BY <2>1, <2>2, <2>3 DEF OneSigner, Lawful, SignerLaw
<1> QED BY <1>1, Invariance, PTL

(* A retired or revoked epoch keeps its windows and never becomes active or *)
(* suspended again (applyLifecycleRecord).                                  *)
THEOREM ClosedEpochsStayClosed == Spec => ClosedForEver
<1>1. IInv /\ [Next]_vars =>
        [\A e \in DOMAIN authority.epochs :
           authority.epochs[e].status \in {"RETIRED", "REVOKED"} =>
             /\ authority'.epochs[e].status \in {"RETIRED", "REVOKED"}
             /\ authority'.epochs[e].windows = authority.epochs[e].windows]_vars
  <2> SUFFICES ASSUME IInv, Next,
                      NEW e \in DOMAIN authority.epochs,
                      authority.epochs[e].status \in {"RETIRED", "REVOKED"}
               PROVE  /\ authority'.epochs[e].status \in {"RETIRED", "REVOKED"}
                      /\ authority'.epochs[e].windows = authority.epochs[e].windows
    OBVIOUS
  <2>1. CASE \E id \in Ids, request \in Requests : Sign(id, request)
    BY <2>1 DEF Sign
  <2>2. CASE \E action \in Actions, newKey \in Keys, keys \in SUBSET {Latest(authority).key} :
               Mutate(action, newKey, keys)
    <3> PICK action \in Actions, newKey \in Keys, keys \in SUBSET {Latest(authority).key} :
               Mutate(action, newKey, keys)
      BY <2>2
    <3> DEFINE r == NewRecord(authority, action, newKey, MutationBoundary, None)
    <3>1. r \in LifecycleRecords(NoAnchors) /\ r.action \in Actions /\ r.boundary.seq = Len(log) - 1
      BY MutationRecord
    <3>2. Accepts(authority, r) /\ authority' = Apply(authority, r)
      BY DEF Mutate
    <3>3. Lawful(authority, Len(log), NoAnchors) /\ Len(log) \in Nat
      BY DEF IInv
    <3> HIDE DEF r
    <3> QED BY <3>1, <3>2, <3>3, ApplyKeepsEpochs
  <2> QED BY <2>1, <2>2 DEF Next
<1> QED BY <1>1, Invariance, PTL DEF Spec, ClosedForEver

(***************************************************************************)
(* PART TWO: Freshness.  The trust store never goes back, and nothing      *)
(* gated by it is behind it.                                               *)
(***************************************************************************)

----------------------------------------------------------------------------
(* The inductive invariant *)

(* An importer that read the store holds its lock, so what it found it may  *)
(* replace it may still replace; a command that passed the gate holds the   *)
(* lock of its home, so what it was current with it is still current with.  *)
ImportInv ==
  \A p \in Procs :
    /\ pc[p] \in {"locked", "replace"} => held[p] # Absent
    /\ pc[p] = "replace" => Replaces(held[p], stored)

GateInv ==
  \A p \in Procs :
    /\ pc[p] \in {"gate", "act", "release"} => at[p] # Absent
    /\ pc[p] \notin {"act", "release"} => seen[p] = Absent
    /\ pc[p] = "act" /\ seen[p] # Absent => IsPrefix(seen[p], local[at[p]])

StoreInv == StoreTypeOK /\ ImportInv /\ GateInv

LEMMA StoreInitInv == StoreInit => StoreInv
<1> SUFFICES ASSUME StoreInit PROVE StoreInv
  OBVIOUS
<1>1. <<>> \in Lifecycles
  <2>1. <<>> \in Seq(Contents) /\ Len(<<>>) <= MaxLength
    BY LengthIsNatural
  <2> QED BY <2>1, BoundedSeqs, LengthIsNatural DEF Lifecycles
<1>2. StoreTypeOK
  BY <1>1, AbsentIsApart DEF StoreInit, StoreTypeOK, Labels
<1>3. ImportInv
  BY DEF StoreInit, ImportInv
<1>4. GateInv
  BY DEF StoreInit, GateInv
<1> QED BY <1>2, <1>3, <1>4 DEF StoreInv

(* The import: LockStore, ReadStored, Replace and UnlockStore. *)
LEMMA ImporterStep ==
  ASSUME StoreInv, NEW p \in Procs, Importer(p)
  PROVE  StoreInv'
<1> USE AbsentIsApart DEF StoreInv, At, Go
<1>1. CASE \E h \in Homes : Export(p, h)
  <2>1. StoreTypeOK'
    BY <1>1 DEF Export, StoreTypeOK, Labels
  <2>2. ImportInv'
    BY <1>1 DEF Export, ImportInv, StoreTypeOK, Labels
  <2>3. GateInv'
    BY <1>1 DEF Export, GateInv
  <2> QED BY <2>1, <2>2, <2>3
<1>2. CASE LockStore(p)
  <2>1. StoreTypeOK'
    BY <1>2 DEF LockStore, StoreTypeOK, Labels
  <2>2. ImportInv'
    BY <1>2 DEF LockStore, ImportInv, StoreTypeOK, Labels
  <2>3. GateInv'
    BY <1>2 DEF LockStore, GateInv, StoreTypeOK
  <2> QED BY <2>1, <2>2, <2>3
<1>3. CASE ReadStored(p)
  <2>1. StoreTypeOK'
    BY <1>3 DEF ReadStored, StoreTypeOK, Labels
  <2>2. ImportInv'
    BY <1>3 DEF ReadStored, ImportInv, StoreTypeOK, Labels
  <2>3. GateInv'
    BY <1>3 DEF ReadStored, GateInv, StoreTypeOK
  <2> QED BY <2>1, <2>2, <2>3
<1>4. CASE Replace(p)
  <2>1. StoreTypeOK'
    BY <1>4 DEF Replace, StoreTypeOK, ImportInv, Labels
  <2>2. \A q \in Procs : q # p => pc[q] # "replace"
    BY <1>4 DEF Replace, StoreTypeOK
  <2>3. ImportInv'
    BY <1>4, <2>2 DEF Replace, ImportInv, StoreTypeOK, Labels
  <2>4. GateInv'
    BY <1>4 DEF Replace, GateInv, StoreTypeOK
  <2> QED BY <2>1, <2>3, <2>4
<1>5. CASE UnlockStore(p)
  <2>1. StoreTypeOK'
    BY <1>5 DEF UnlockStore, StoreTypeOK, Labels, Free
  <2>2. ImportInv'
    BY <1>5 DEF UnlockStore, ImportInv, StoreTypeOK, Labels
  <2>3. GateInv'
    BY <1>5 DEF UnlockStore, GateInv, StoreTypeOK
  <2> QED BY <2>1, <2>2, <2>3
<1> QED BY <1>1, <1>2, <1>3, <1>4, <1>5 DEF Importer

(* Commands that pass the gate, or do without it, and act. *)
LEMMA OperatorStep ==
  ASSUME StoreInv, NEW p \in Procs, Operator(p)
  PROVE  StoreInv'
<1> USE AbsentIsApart DEF StoreInv, At, Go
<1>1. CASE \E h \in Homes : Start(p, h)
  <2> PICK h \in Homes : Start(p, h)
    BY <1>1
  <2>1. StoreTypeOK'
    BY DEF Start, StoreTypeOK, Labels
  <2>2. ImportInv'
    BY DEF Start, ImportInv, StoreTypeOK
  <2>3. GateInv'
    BY DEF Start, GateInv, StoreTypeOK
  <2> QED BY <2>1, <2>2, <2>3
<1>2. CASE Gate(p)
  <2>1. StoreTypeOK'
    BY <1>2 DEF Gate, StoreTypeOK, Labels
  <2>2. ImportInv'
    BY <1>2 DEF Gate, ImportInv, StoreTypeOK
  <2>3. GateInv'
    BY <1>2 DEF Gate, GateInv, StoreTypeOK, Current
  <2> QED BY <2>1, <2>2, <2>3
<1>3. CASE Unproven(p)
  <2>1. StoreTypeOK'
    BY <1>3 DEF Unproven, StoreTypeOK, Labels
  <2>2. ImportInv'
    BY <1>3 DEF Unproven, ImportInv, StoreTypeOK
  <2>3. GateInv'
    BY <1>3 DEF Unproven, GateInv, StoreTypeOK
  <2> QED BY <2>1, <2>2, <2>3
<1>4. CASE SignHere(p)
  <2>1. StoreTypeOK'
    BY <1>4 DEF SignHere, StoreTypeOK, Labels
  <2>2. ImportInv'
    BY <1>4 DEF SignHere, ImportInv, StoreTypeOK
  <2>3. GateInv'
    BY <1>4 DEF SignHere, GateInv, StoreTypeOK
  <2> QED BY <2>1, <2>2, <2>3
<1>5. CASE \E content \in Contents : MutateHere(p, content)
  <2> PICK content \in Contents : MutateHere(p, content)
    BY <1>5
  <2> DEFINE h == at[p]
  <2>1. h \in Homes /\ homeLock[h] = p
    BY DEF MutateHere, GateInv, StoreTypeOK
  <2>2. Append(local[h], content) \in Lifecycles
    <3>1. local[h] \in Seq(Contents) /\ Len(local[h]) < MaxLength
      BY <2>1, BoundedSeqs, LengthIsNatural DEF MutateHere, StoreTypeOK, Lifecycles
    <3>2. Append(local[h], content) \in Seq(Contents) /\ Len(Append(local[h], content)) <= MaxLength
      BY <3>1, LengthIsNatural
    <3> QED BY <3>2, BoundedSeqs, LengthIsNatural DEF Lifecycles
  <2>3. local' = [local EXCEPT ![h] = Append(local[h], content)]
    BY DEF MutateHere
  <2>4. StoreTypeOK'
    BY <2>1, <2>2, <2>3 DEF MutateHere, StoreTypeOK, Labels
  <2>5. ImportInv'
    BY DEF MutateHere, ImportInv, StoreTypeOK
  <2>6. \A q \in Procs : q # p /\ pc[q] = "act" => local'[at[q]] = local[at[q]]
    BY <2>1, <2>3 DEF StoreTypeOK, GateInv
  <2>7. GateInv'
    BY <2>6 DEF MutateHere, GateInv, StoreTypeOK
  <2> QED BY <2>4, <2>5, <2>7
<1>6. CASE Release(p)
  <2>1. StoreTypeOK'
    BY <1>6 DEF Release, StoreTypeOK, Labels, Free, FreeHomes, Forget
  <2>2. ImportInv'
    BY <1>6 DEF Release, ImportInv, StoreTypeOK
  <2>3. GateInv'
    BY <1>6 DEF Release, GateInv, StoreTypeOK, Forget
  <2> QED BY <2>1, <2>2, <2>3
<1> QED BY <1>1, <1>2, <1>3, <1>4, <1>5, <1>6 DEF Operator

(* Copies of idle homes, killed processes, and steps that change nothing. *)
LEMMA CopyStep ==
  ASSUME StoreInv, NEW h \in Homes, NEW g \in Homes, Copy(h, g)
  PROVE  StoreInv'
<1> USE AbsentIsApart DEF StoreInv
<1>1. StoreTypeOK'
  BY DEF Copy, StoreTypeOK
<1>2. ImportInv'
  BY DEF Copy, ImportInv
<1>3. \A q \in Procs : pc[q] = "act" => local'[at[q]] = local[at[q]]
  BY DEF Copy, StoreTypeOK, GateInv
<1>4. GateInv'
  BY <1>3 DEF Copy, GateInv
<1> QED BY <1>1, <1>2, <1>4

LEMMA KillStep ==
  ASSUME StoreInv, NEW p \in Procs, Kill(p)
  PROVE  StoreInv'
<1> USE AbsentIsApart DEF StoreInv, At, Go
<1>1. StoreTypeOK'
  BY DEF Kill, StoreTypeOK, Labels, Free, FreeHomes, Forget
<1>2. ImportInv'
  BY DEF Kill, ImportInv, StoreTypeOK
<1>3. GateInv'
  BY DEF Kill, GateInv, StoreTypeOK, Forget
<1> QED BY <1>1, <1>2, <1>3

LEMMA StoreStepInv == StoreInv /\ [StoreNext]_storeVars => StoreInv'
<1> SUFFICES ASSUME StoreInv, [StoreNext]_storeVars PROVE StoreInv'
  OBVIOUS
<1>1. CASE UNCHANGED storeVars
  BY <1>1 DEF storeVars, StoreInv, StoreTypeOK, ImportInv, GateInv
<1>2. CASE StoreNext
  BY <1>2, ImporterStep, OperatorStep, CopyStep, KillStep DEF StoreNext
<1> QED BY <1>1, <1>2

(* What StoreInv says holds in every reachable state. *)
THEOREM StoreInvariance == StoreSpec => []StoreInv
<1> QED BY StoreInitInv, StoreStepInv, PTL DEF StoreSpec

(* Every reachable state is well typed, and locks are held exactly while    *)
(* imports and commands are under way.                                      *)
THEOREM StoreTypeCorrect == StoreSpec => []StoreTypeOK
<1>1. StoreInv => StoreTypeOK
  BY DEF StoreInv
<1> QED BY <1>1, StoreInvariance, PTL

----------------------------------------------------------------------------
(* The action properties *)

LEMMA OnlyReplaceStores ==
  ASSUME StoreNext, stored' # stored
  PROVE  \E p \in Procs : Replace(p)
BY DEF StoreNext, Importer, Operator, Kill, Copy, Export, LockStore, ReadStored, UnlockStore,
       Start, Gate, Unproven, SignHere, MutateHere, Release

LEMMA StoreStep ==
  ASSUME StoreInv, [StoreNext]_storeVars, stored # Absent
  PROVE  stored' # Absent /\ IsPrefix(stored, stored')
<1>1. CASE stored' = stored
  BY <1>1, PrefixOfItself, BoundedSeqs, LengthIsNatural DEF StoreInv, StoreTypeOK, Lifecycles
<1>2. CASE stored' # stored
  <2>1. PICK p \in Procs : Replace(p)
    BY <1>2, OnlyReplaceStores DEF storeVars
  <2>2. held[p] # Absent /\ Replaces(held[p], stored)
    BY <2>1 DEF Replace, At, StoreInv, ImportInv
  <2> QED BY <2>1, <2>2 DEF Replace, Replaces
<1> QED BY <1>1, <1>2

(* Whatever is imported by whom and killed where, what the trust store said *)
(* once stays part of what it says (ImportCheckpoint).                      *)
THEOREM StoreAdvances == StoreSpec => StoreOnlyAdvances
<1>1. StoreInv /\ [StoreNext]_storeVars => [stored # Absent => stored' # Absent /\ IsPrefix(stored, stored')]_storeVars
  BY StoreStep
<1> QED BY <1>1, StoreInvariance, PTL DEF StoreSpec, StoreOnlyAdvances

(* A gated command signs or mutates only while the lifecycle of its home    *)
(* contains the checkpoint it was compared with                             *)
(* (requireCurrentLifecycleForSigning, requireCurrentLifecycleForMutation). *)
THEOREM GatedCommandsAreCurrent == StoreSpec => GatedActsAreCurrent
<1>1. StoreInv => \A p \in Procs :
                pc[p] = "act" /\ pc'[p] = "release" /\ seen[p] # Absent =>
                  IsPrefix(seen[p], local[at[p]])
  BY DEF StoreInv, GateInv
<1> QED BY <1>1, StoreInvariance, PTL DEF StoreSpec, GatedActsAreCurrent
(***************************************************************************)
(* PART THREE: EvidenceTrust.  Evidence of the original's line is never    *)
(* called distrusted, what is verified lies on that line, and of a         *)
(* compromised epoch nothing is verified that the anchor does not cover.   *)
(***************************************************************************)

(* What every state a home was ever at obeys by itself, whatever anchors    *)
(* its records carry.                                                       *)
Sound(x) ==
  /\ x.log \in Seq(Receipts) /\ Len(x.log) <= MaxReceipts
  /\ Len(x.authority.records) \in 1 .. MaxLifecycle
  /\ \E anchors : Lawful(x.authority, Len(x.log), anchors)
  /\ EndsLaw(x.authority) /\ NamesLaw(x.authority)
  /\ VerifyBPlus(x.log, x.authority)

(* The same id at the same place: the same receipts up to it. *)
Chained ==
  \A x, y \in past : \A i \in DOMAIN x.log \cap DOMAIN y.log :
    x.log[i].id = y.log[i].id => \A j \in 1 .. i : x.log[j] = y.log[j]

(* Every receipt was signed by a home that has not gone back since. *)
Signed ==
  \A x \in past : \A i \in DOMAIN x.log :
    \E h \in DOMAIN line : x.log[i].id = Named(h, i - 1) /\ i <= Len(Log(h))

TrustInv ==
  /\ Original \in DOMAIN line /\ DOMAIN line \subseteq BothHomes
  /\ \A h \in DOMAIN line : line[h] \in past
  /\ \A x \in past : Sound(x)
  /\ Chained /\ Signed

----------------------------------------------------------------------------
LEMMA NamedApart ==
  ASSUME NEW g \in BothHomes, NEW h \in BothHomes, NEW m \in Int, NEW n \in Int,
         Named(g, m) = Named(h, n)
  PROVE  g = h /\ m = n
BY DEF Named, BothHomes

LEMMA NamedIsNatural ==
  ASSUME NEW h, NEW n \in Nat
  PROVE  Named(h, n) \in Nat
BY DEF Named

LEMMA HeadOfSound ==
  ASSUME NEW x, Sound(x)
  PROVE  /\ Len(x.log) \in Nat /\ DOMAIN x.log = 1 .. Len(x.log)
         /\ \A i \in DOMAIN x.log : x.log[i] \in Receipts /\ x.log[i].seq = i - 1
         /\ HeadBoundary(x.log) \in [seq : Int, id : Nat \cup {None}]
         /\ HeadBoundary(x.log).seq = Len(x.log) - 1
         /\ x.log # <<>> => HeadBoundary(x.log).id = x.log[Len(x.log)].id
<1>1. /\ x.log \in Seq(Receipts) /\ Len(x.log) \in Nat /\ DOMAIN x.log = 1 .. Len(x.log)
      /\ VerifyChain(x.log, TrustedKeys(x.authority))
  BY DEF Sound, VerifyBPlus
<1>2. \A i \in DOMAIN x.log : x.log[i] \in Receipts /\ x.log[i].seq = i - 1
  BY <1>1 DEF VerifyChain
<1>3. HeadBoundary(x.log) =
        Boundary(Len(x.log) - 1, IF Len(x.log) = 0 THEN None ELSE x.log[Len(x.log)].id)
  BY <1>1, HeadOfVerified
<1>4. Len(x.log) # 0 => x.log[Len(x.log)].id \in Nat
  <2> SUFFICES ASSUME Len(x.log) # 0 PROVE x.log[Len(x.log)].id \in Nat
    OBVIOUS
  <2>1. x.log[Len(x.log)] \in Receipts
    BY <1>1, <1>2
  <2> QED BY <2>1 DEF Receipts
<1>5. x.log # <<>> => Len(x.log) # 0
  BY <1>1
<1> QED BY <1>1, <1>2, <1>3, <1>4, <1>5 DEF Boundary

(* A home moves to a sound state whose log is one that was there before. *)
LEMMA LogKept ==
  ASSUME TrustInv, NEW h \in BothHomes, NEW z \in past, NEW s, Become(h, s),
         Sound(s), s.log = z.log,
         h \in DOMAIN line => z = line[h]
  PROVE  TrustInv'
<1>1. /\ past' = past \cup {s} /\ DOMAIN line' = DOMAIN line \cup {h}
      /\ line'[h] = s /\ \A g \in DOMAIN line : g # h => line'[g] = line[g]
  BY DEF Become
<1>2. \A g \in DOMAIN line : Log(g)' = Log(g)
  BY <1>1 DEF Log
<1>3. Chained'
  BY <1>1 DEF TrustInv, Chained
<1>4. Signed'
  BY <1>1, <1>2 DEF TrustInv, Signed, Log
<1>5. (Original \in DOMAIN line /\ DOMAIN line \subseteq BothHomes
       /\ \A g \in DOMAIN line : line[g] \in past)'
  BY <1>1 DEF TrustInv
<1>6. (\A x \in past : Sound(x))'
  BY <1>1 DEF TrustInv, Sound
<1> QED BY <1>3, <1>4, <1>5, <1>6 DEF TrustInv
LEMMA TrustInitHolds == TrustInit => TrustInv
<1> SUFFICES ASSUME TrustInit PROVE TrustInv
  OBVIOUS
<1> DEFINE key == Named(Original, 1)
           a == Genesis(key)
           s == [log |-> <<>>, authority |-> a]
<1>1. past = {s} /\ DOMAIN line = {Original} /\ line[Original] = s
  BY DEF TrustInit
<1>2. key \in Nat
  BY NamedIsNatural
<1> HIDE DEF key
<1>3. Lawful(a, 0, {None})
  BY <1>2, GenesisLawful
<1>4. /\ Len(a.records) = 1 /\ DOMAIN a.records = {1} /\ DOMAIN a.epochs = {1}
      /\ a.records[1].epoch = 1 /\ a.records[1].key = key /\ a.epochs[1].key = key
      /\ a.records[1].boundary = EmptyBoundary
      /\ a.epochs[1].windows = <<OpenWindow(EmptyBoundary)>>
  BY DEF Genesis, NewEpoch
<1> HIDE DEF a
<1>5. NamesLaw(a)
  BY <1>4 DEF NamesLaw
<1>6. EndsLaw(a)
  <2>1. DOMAIN <<OpenWindow(EmptyBoundary)>> = {1} /\ <<OpenWindow(EmptyBoundary)>>[1].end = None
    BY DEF OpenWindow
  <2> QED BY <1>4, <2>1 DEF EndsLaw, EndsInOrder
<1>7. s.log \in Seq(Receipts) /\ Len(s.log) = 0 /\ DOMAIN s.log = {} /\ s.authority = a
  OBVIOUS
<1> HIDE DEF s
<1>8. VerifyBPlus(s.log, a)
  BY <1>4, <1>7 DEF VerifyBPlus, VerifyChain, BoundariesExact, InsideWindows
<1>9. Sound(s)
  <2>1. Lawful(s.authority, Len(s.log), {None})
    BY <1>3, <1>7
  <2>2. \E anchors : Lawful(s.authority, Len(s.log), anchors)
    BY <2>1
  <2>3. Len(s.log) <= MaxReceipts /\ Len(s.authority.records) \in 1 .. MaxLifecycle
    <3>1. s.authority.records = a.records
      BY <1>7
    <3>2. Len(s.authority.records) = 1
      BY <1>4, <3>1
    <3>3. 1 \in 1 .. MaxLifecycle /\ 0 <= MaxReceipts
      BY TrustBounds
    <3> QED BY <1>7, <3>2, <3>3
  <2>4. EndsLaw(s.authority) /\ NamesLaw(s.authority) /\ VerifyBPlus(s.log, s.authority)
    BY <1>5, <1>6, <1>7, <1>8
  <2> QED BY <1>7, <2>2, <2>3, <2>4 DEF Sound
<1> QED BY <1>1, <1>7, <1>9 DEF TrustInv, Chained, Signed, BothHomes

LEMMA CopyKeeps ==
  ASSUME TrustInv, CopyHome
  PROVE  TrustInv'
<1>1. line[Original] \in past /\ Sound(line[Original]) /\ Copied \notin DOMAIN line
  BY DEF TrustInv, CopyHome, Live
<1>2. Become(Copied, line[Original]) /\ Copied \in BothHomes
  BY DEF CopyHome, BothHomes
<1> QED BY <1>1, <1>2, LogKept

(* A receipt that verifies after the head, with an id of the home's own. *)
LEMMA ReceiptAdded ==
  ASSUME TrustInv, NEW h \in DOMAIN line, Authority(h).active # 0, Len(Log(h)) < MaxReceipts
  PROVE  Sound([log |-> Append(Log(h), Receipt(h)), authority |-> Authority(h)])
<1> DEFINE a == Authority(h)
           n == Len(Log(h))
           r == Receipt(h)
           s == [log |-> Append(Log(h), r), authority |-> a]
<1>1. /\ line[h] \in past /\ Sound(line[h]) /\ h \in BothHomes
      /\ line[h].log = Log(h) /\ line[h].authority = a
  BY DEF TrustInv, Log, Authority
<1>2. /\ Log(h) \in Seq(Receipts) /\ n \in Nat /\ DOMAIN Log(h) = 1 .. n
      /\ HeadBoundary(Log(h)) \in [seq : Int, id : Nat \cup {None}]
      /\ HeadBoundary(Log(h)).seq = n - 1
      /\ Len(a.records) \in 1 .. MaxLifecycle
      /\ EndsLaw(a) /\ NamesLaw(a) /\ VerifyBPlus(Log(h), a)
  BY <1>1, HeadOfSound DEF Sound
<1>3. PICK anchors : Lawful(a, n, anchors)
  BY <1>1 DEF Sound
<1>4. ActiveKey(a) \in Nat
  <2>1. a.epochs \in Seq(EpochRecords(anchors)) /\ a.active \in DOMAIN a.epochs
    BY <1>3 DEF Lawful, AuthorityType
  <2>2. a.epochs[a.active] \in EpochRecords(anchors)
    BY <2>1
  <2> QED BY <2>2 DEF ActiveKey, EpochRecords
<1>5. Named(h, n) \in Nat
  BY <1>2, NamedIsNatural
<1>6. /\ r \in Receipts /\ r.seq = HeadBoundary(Log(h)).seq + 1
      /\ r.prev = HeadBoundary(Log(h)).id /\ r.key = ActiveKey(a) /\ r.id = Named(h, n)
  BY <1>2, <1>4, <1>5 DEF Receipt, Receipts
<1> HIDE DEF r, a, n
<1>7. \A i \in DOMAIN Log(h) : Log(h)[i].id # r.id
  <2> SUFFICES ASSUME NEW i \in DOMAIN Log(h), Log(h)[i].id = r.id PROVE FALSE
    OBVIOUS
  <2>1. PICK g \in DOMAIN line : Log(h)[i].id = Named(g, i - 1)
    BY <1>1 DEF TrustInv, Signed
  <2>2. g \in BothHomes /\ i - 1 \in Int /\ n \in Int /\ Named(g, i - 1) = Named(h, n)
    BY <1>2, <1>6, <2>1 DEF TrustInv
  <2>3. i - 1 = n
    BY <1>1, <2>2, NamedApart
  <2> QED BY <1>2, <2>3
<1>8. VerifyBPlus(Append(Log(h), r), a)
  <2>1. Lawful(a, Len(Log(h)), anchors) /\ a.active # 0
    BY <1>3 DEF n, a
  <2> QED BY <1>2, <1>6, <1>7, <2>1, EvidenceGrows
<1>9. Lawful(a, n + 1, anchors)
  BY <1>2, <1>3, LongerLogLawful
<1>10. /\ Append(Log(h), r) \in Seq(Receipts)
       /\ Len(Append(Log(h), r)) = n + 1 /\ n + 1 <= MaxReceipts
  BY <1>2, <1>6, TrustBounds DEF n
<1>11. s.log = Append(Log(h), r) /\ s.authority = a
  OBVIOUS
<1> HIDE DEF s
<1>12. Sound(s)
  BY <1>2, <1>8, <1>9, <1>10, <1>11 DEF Sound
<1> QED BY <1>12 DEF s, r, a

LEMMA SignKeeps ==
  ASSUME TrustInv, NEW h \in BothHomes, SignAt(h)
  PROVE  TrustInv'
<1> DEFINE n == Len(Log(h))
           r == Receipt(h)
           s == [log |-> Append(Log(h), r), authority |-> Authority(h)]
<1>1. /\ h \in DOMAIN line /\ line[h] \in past /\ Sound(line[h]) /\ line[h].log = Log(h)
      /\ past' = past \cup {s} /\ DOMAIN line' = DOMAIN line
      /\ line'[h] = s /\ \A g \in DOMAIN line : g # h => line'[g] = line[g]
      /\ Authority(h).active # 0 /\ Len(Log(h)) < MaxReceipts
  BY DEF SignAt, Live, Become, TrustInv, Log
<1>2. Sound(s)
  BY <1>1, ReceiptAdded
<1>3. /\ n \in Nat /\ Log(h) \in Seq(Receipts) /\ r.id = Named(h, n)
  BY <1>1, HeadOfSound DEF Receipt, Sound
<1> HIDE DEF r
<1>4. /\ DOMAIN Log(h) = 1 .. n /\ DOMAIN s.log = 1 .. n + 1 /\ Len(s.log) = n + 1
      /\ \A i \in 1 .. n : s.log[i] = Log(h)[i]
      /\ s.log[n + 1] = r
  <2>1. s.log = Append(Log(h), r)
    OBVIOUS
  <2> HIDE DEF s
  <2> QED BY <1>3, <2>1
<1> HIDE DEF s, n
<1>5. \A i \in 1 .. n + 1 : i \in 1 .. n \/ i = n + 1
  BY <1>3
(* Nobody else ever had a receipt of this name. *)
<1>6. ASSUME NEW y \in past, NEW i \in DOMAIN y.log
      PROVE  ~(i = n + 1 /\ y.log[i].id = r.id)
  <2> SUFFICES ASSUME i = n + 1, y.log[i].id = r.id PROVE FALSE
    OBVIOUS
  <2>1. PICK g \in DOMAIN line : y.log[i].id = Named(g, i - 1) /\ i <= Len(Log(g))
    BY DEF TrustInv, Signed
  <2>2. g \in BothHomes /\ i - 1 = n /\ n \in Int
    BY <1>3 DEF TrustInv
  <2>3. Named(g, n) = Named(h, n)
    BY <1>3, <1>6, <2>1, <2>2
  <2>4. g = h
    BY <2>2, <2>3, NamedApart
  <2> QED BY <1>3, <2>1, <2>2, <2>4 DEF n
<1>7. ASSUME NEW y \in past, NEW i \in DOMAIN y.log \cap DOMAIN s.log, y.log[i].id = s.log[i].id
      PROVE  \A j \in 1 .. i : y.log[j] = s.log[j]
  <2>1. i \in 1 .. n
    BY <1>4, <1>5, <1>6, <1>7
  <2>2. \A j \in 1 .. i : y.log[j] = Log(h)[j] /\ j \in 1 .. n
    <3>1. line[h].log[i].id = y.log[i].id /\ i \in DOMAIN line[h].log
      BY <1>1, <1>4, <1>7, <2>1
    <3>2. \A j \in 1 .. i : y.log[j] = line[h].log[j]
      BY <1>1, <3>1 DEF TrustInv, Chained
    <3> QED BY <1>1, <1>3, <2>1, <3>2
  <2> QED BY <1>4, <2>2
<1>8. Chained'
  <2> SUFFICES ASSUME NEW x \in past \cup {s}, NEW y \in past \cup {s},
                      NEW i \in DOMAIN x.log \cap DOMAIN y.log, x.log[i].id = y.log[i].id
               PROVE  \A j \in 1 .. i : x.log[j] = y.log[j]
    BY <1>1 DEF Chained
  <2>1. CASE x \in past /\ y \in past
    BY <2>1 DEF TrustInv, Chained
  <2>2. CASE x = s /\ y = s
    BY <2>2
  <2>3. CASE x \in past /\ y = s
    BY <1>7, <2>3
  <2>4. CASE x = s /\ y \in past
    BY <1>7, <2>4
  <2> QED BY <2>1, <2>2, <2>3, <2>4
<1>9. Log(h)' = s.log /\ \A g \in DOMAIN line : g # h => Log(g)' = Log(g)
  BY <1>1 DEF Log
<1>10. \A g \in DOMAIN line : \A i \in Int : i <= Len(Log(g)) => i <= Len(Log(g)')
  <2> TAKE g \in DOMAIN line
  <2>1. CASE g = h
    BY <1>3, <1>4, <1>9, <2>1 DEF n
  <2> QED BY <1>9, <2>1
<1>11. Signed'
  <2> SUFFICES ASSUME NEW x \in past \cup {s}, NEW i \in DOMAIN x.log
               PROVE  \E g \in DOMAIN line : x.log[i].id = Named(g, i - 1) /\ i <= Len(Log(g)')
    BY <1>1 DEF Signed, Named
  <2>1. ASSUME NEW z \in past, i \in DOMAIN z.log, z.log[i] = x.log[i]
        PROVE  \E g \in DOMAIN line : x.log[i].id = Named(g, i - 1) /\ i <= Len(Log(g)')
    <3>1. PICK g \in DOMAIN line : z.log[i].id = Named(g, i - 1) /\ i <= Len(Log(g))
      BY <2>1 DEF TrustInv, Signed
    <3>2. i \in Int
      BY <2>1, HeadOfSound DEF TrustInv
    <3> QED BY <1>10, <2>1, <3>1, <3>2
  <2>2. CASE x \in past
    BY <2>1, <2>2
  <2>3. CASE x = s /\ i \in 1 .. n
    BY <1>1, <1>4, <2>1, <2>3
  <2>4. CASE x = s /\ i = n + 1
    <3>1. x.log[i].id = Named(h, n) /\ i - 1 = n
      BY <1>3, <1>4, <2>4
    <3>2. i <= Len(Log(h)')
      BY <1>3, <1>4, <1>9, <2>4
    <3> QED BY <1>1, <3>1, <3>2
  <2> QED BY <1>4, <1>5, <2>2, <2>3, <2>4
<1>12. (/\ Original \in DOMAIN line /\ DOMAIN line \subseteq BothHomes
        /\ \A g \in DOMAIN line : line[g] \in past)'
  BY <1>1 DEF TrustInv
<1>13. (\A x \in past : Sound(x))'
  BY <1>1, <1>2 DEF TrustInv, Sound
<1> QED BY <1>8, <1>11, <1>12, <1>13 DEF TrustInv

(* The record a mutation publishes, with whatever anchor it was given. *)
LEMMA RecordApplied ==
  ASSUME NEW x, Sound(x), NEW action \in Actions, NEW newKey \in Nat, NEW anchor,
         Len(x.authority.records) < MaxLifecycle,
         Accepts(x.authority,
                 NewRecord(x.authority, action, newKey, HeadBoundary(x.log), anchor)),
         NEW s,
         s = [log |-> x.log,
              authority |-> Apply(x.authority,
                NewRecord(x.authority, action, newKey, HeadBoundary(x.log), anchor))]
  PROVE  Sound(s)
<1> DEFINE a == x.authority
           n == Len(x.log)
           r == NewRecord(a, action, newKey, HeadBoundary(x.log), anchor)
           b == Apply(a, r)
<1>1. PICK some : Lawful(a, n, some)
  BY DEF Sound
<1> DEFINE anchors == some \cup {anchor}
<1>2. Lawful(a, n, anchors)
  BY <1>1, MoreAnchors
<1>3. /\ n \in Nat /\ x.log \in Seq(Receipts) /\ n <= MaxReceipts
      /\ HeadBoundary(x.log) \in [seq : Int, id : Nat \cup {None}]
      /\ HeadBoundary(x.log).seq = n - 1
      /\ EndsLaw(a) /\ NamesLaw(a) /\ VerifyBPlus(x.log, a)
  BY HeadOfSound DEF Sound
<1>4. anchor \in anchors
  OBVIOUS
<1> HIDE DEF a, n, anchors
<1>5. /\ a.records \in Seq(LifecycleRecords(anchors)) /\ Len(a.records) \in Nat
      /\ Len(a.epochs) \in Nat
  BY <1>2 DEF Lawful, AuthorityType
<1>6. Latest(a).key \in Nat
  <2>1. Latest(a) \in EpochRecords(anchors)
    BY <1>2, <1>3, LatestIsLawful
  <2> QED BY <2>1 DEF EpochRecords
<1>7. /\ r \in LifecycleRecords(anchors) /\ r.action = action /\ r.boundary = HeadBoundary(x.log)
      /\ ~GeneratesKey(action) => r.epoch = Len(a.epochs) /\ r.key = Latest(a).key
  BY <1>3, <1>4, <1>5, <1>6 DEF NewRecord, LatestEpoch, LifecycleRecords
<1>8. Accepts(a, r) /\ s = [log |-> x.log, authority |-> b] /\ Len(a.records) < MaxLifecycle
  BY DEF a
<1> HIDE DEF r
<1>9. r.action \in Actions /\ r.boundary.seq = n - 1
  BY <1>3, <1>7
<1>10. Lawful(b, n, anchors)
  BY <1>2, <1>3, <1>7, <1>8, <1>9, ApplyLawful
<1>11. EndsLaw(b)
  BY <1>2, <1>3, <1>7, <1>8, <1>9, ApplyKeepsOrder
<1>12. NamesLaw(b)
  BY <1>2, <1>3, <1>7, <1>8, <1>9, ApplyKeepsNames
<1>13. VerifyBPlus(x.log, b)
  BY <1>2, <1>3, <1>7, <1>8, <1>9, EvidenceSurvives DEF n
<1>14. Len(b.records) \in 1 .. MaxLifecycle
  <2>1. b.records = Append(a.records, r)
    BY DEF Apply
  <2>2. Len(b.records) = Len(a.records) + 1
    BY <1>5, <2>1
  <2> QED BY <1>5, <1>8, <2>2, TrustBounds
<1> HIDE DEF b
<1>15. s.log = x.log /\ s.authority = b
  BY <1>8
<1> QED BY <1>3, <1>10, <1>11, <1>12, <1>13, <1>14, <1>15 DEF Sound, n

LEMMA MutateKeeps ==
  ASSUME TrustInv, NEW h \in BothHomes, NEW action \in Actions, MutateAt(h, action)
  PROVE  TrustInv'
<1>1. /\ h \in DOMAIN line /\ line[h] \in past /\ Sound(line[h])
      /\ line[h].log = Log(h) /\ line[h].authority = Authority(h)
      /\ Len(Authority(h).records) < MaxLifecycle
  BY DEF MutateAt, Live, TrustInv, Log, Authority
<1> DEFINE key == Named(h, LatestEpoch(Authority(h)) + 1)
<1>2. key \in Nat
  <2>1. PICK anchors : Lawful(Authority(h), Len(Log(h)), anchors)
    BY <1>1 DEF Sound
  <2>2. LatestEpoch(Authority(h)) \in Nat
    BY <2>1 DEF Lawful, AuthorityType, LatestEpoch
  <2> QED BY <2>2, NamedIsNatural
<1>3. PICK anchor :
        LET r == NewRecord(Authority(h), action, key, HeadBoundary(Log(h)), anchor)
        IN /\ Accepts(Authority(h), r)
           /\ Become(h, [log |-> Log(h), authority |-> Apply(Authority(h), r)])
  BY DEF MutateAt
<1> DEFINE r == NewRecord(Authority(h), action, key, HeadBoundary(Log(h)), anchor)
           s == [log |-> Log(h), authority |-> Apply(Authority(h), r)]
<1>4. Accepts(Authority(h), r) /\ Become(h, s)
  BY <1>3
<1> HIDE DEF key
<1>5. Sound(s)
  BY <1>1, <1>2, <1>4, RecordApplied
<1>6. s.log = line[h].log
  BY <1>1
<1> HIDE DEF s
<1> QED BY <1>1, <1>4, <1>5, <1>6, LogKept

LEMMA TrustStep == TrustInv /\ [TrustNext]_trustVars => TrustInv'
<1> SUFFICES ASSUME TrustInv, [TrustNext]_trustVars PROVE TrustInv'
  OBVIOUS
<1>1. CASE UNCHANGED trustVars
  BY <1>1 DEF trustVars, TrustInv, Sound, Chained, Signed, Log
<1> QED BY <1>1, CopyKeeps, SignKeeps, MutateKeeps DEF TrustNext

(* Every home stands where some past state stood, every past state is       *)
(* sound, ids at the same place name the same past, and no home has gone    *)
(* back behind a receipt it signed.                                         *)
THEOREM TrustInvariance == TrustSpec => []TrustInv
BY TrustInitHolds, TrustStep, PTL DEF TrustSpec
----------------------------------------------------------------------------
(* What a verdict says of its bundle *)

LEMMA Verdicts ==
  ASSUME NEW b, NEW checkpoint, NEW anchor
  PROVE  /\ Verdict(b, checkpoint, anchor) = "VERIFIED" =>
              /\ ~Distrusted(b, checkpoint, anchor)
              /\ ~Unsettled(b.receipts, checkpoint, anchor)
         /\ (Authentic(b) /\ ~Distrusted(b, b.authority, anchor)
             /\ ~Distrusted(b, checkpoint, anchor)) =>
              Verdict(b, checkpoint, anchor) \in {"VERIFIED", "TRUST_INDETERMINATE"}
         /\ (Authentic(b) /\ ~Distrusted(b, b.authority, anchor)) =>
              Verdict(b, None, anchor) = "TRUST_INDETERMINATE"
BY DEF Verdict

LEMMA ExportedFields ==
  ASSUME TrustInv, NEW y \in Exported
  PROVE  /\ y \in past /\ Sound(y) /\ y.authority.active # 0 /\ y.log # <<>>
         /\ BundleOf(y).receipts = y.log /\ BundleOf(y).authority = y.authority
         /\ BundleOf(y).sealer = ActiveKey(y.authority)
         /\ BundleOf(y).anchor = NewAnchor(y.authority, y.log)
         /\ NewAnchor(y.authority, y.log).lifecycle = y.authority.records
         /\ NewAnchor(y.authority, y.log).epoch = y.authority.active
         /\ NewAnchor(y.authority, y.log).key = ActiveKey(y.authority)
         /\ NewAnchor(y.authority, y.log).boundary = HeadBoundary(y.log)
BY DEF Exported, Exportable, BundleOf, Build, NewAnchor, TrustInv

LEMMA OriginalIsSound ==
  ASSUME TrustInv
  PROVE  /\ line[Original] \in past /\ Sound(line[Original])
         /\ line[Original].log = Log(Original) /\ line[Original].authority = Checkpoint
BY DEF TrustInv, Log, Authority, Checkpoint

(* LIMITS.md:101-104: of an epoch the checkpoint reports suspended or       *)
(* revoked nothing is verified but what the kept anchor found in the ledger *)
(* (signingStatusForEvidence).                                              *)
THEOREM CompromiseNeedsAnchor == TrustSpec => []CompromisedEvidenceIsAnchored
<1>1. TrustInv => CompromisedEvidenceIsAnchored
  <2> SUFFICES ASSUME TrustInv,
                      NEW e \in DOMAIN Checkpoint.epochs,
                      Checkpoint.epochs[e].status \in {"SUSPENDED", "REVOKED"},
                      NEW y \in Exported, NEW x \in Exported \cup {None},
                      NEW i \in SignedUnder(y.log, Checkpoint.epochs[e]),
                      x # None => (i \in DOMAIN x.log => x.log[i] # y.log[i]),
                      Verdict(BundleOf(y), Checkpoint, AnchorOf(x)) = "VERIFIED"
               PROVE  FALSE
    BY DEF CompromisedEvidenceIsAnchored
  <2> DEFINE anchor == AnchorOf(x)
  <2>1. /\ y \in past /\ Sound(y) /\ BundleOf(y).receipts = y.log
        /\ i \in DOMAIN y.log
    BY ExportedFields DEF SignedUnder
  <2>2. ~Distrusted(BundleOf(y), Checkpoint, anchor) /\ ~Unsettled(y.log, Checkpoint, anchor)
    BY <2>1, Verdicts
  <2>3. CoversEpoch(anchor, Checkpoint, e, y.log)
    BY <2>2 DEF Unsettled
  <2>4. anchor # None /\ y.log[i].seq <= anchor.boundary.seq
    BY <2>3 DEF CoversEpoch
  <2>5. x # None /\ x \in Exported /\ anchor = NewAnchor(x.authority, x.log)
    BY <2>4 DEF AnchorOf
  <2>6. x \in past /\ Sound(x) /\ x.log # <<>> /\ anchor.boundary = HeadBoundary(x.log)
    BY <2>5, ExportedFields
  <2>7. ExactInside(anchor.boundary, y.log)
    BY <2>1, <2>2, <2>4 DEF Distrusted, Names
  <2> HIDE DEF anchor
  <2> DEFINE n == Len(x.log)
  <2>8. /\ n \in Nat /\ DOMAIN x.log = 1 .. n /\ n # 0
        /\ anchor.boundary.seq = n - 1 /\ anchor.boundary.id = x.log[n].id
    BY <2>6, HeadOfSound DEF Sound
  <2>9. n \in DOMAIN y.log /\ y.log[n].id = x.log[n].id
    BY <2>7, <2>8 DEF ExactInside
  <2>10. n \in DOMAIN x.log \cap DOMAIN y.log
    BY <2>8, <2>9
  <2>11. \A j \in 1 .. n : x.log[j] = y.log[j]
    BY <2>1, <2>6, <2>9, <2>10 DEF TrustInv, Chained
  <2>12. i \in 1 .. n
    <3>1. y.log[i].seq = i - 1 /\ DOMAIN y.log = 1 .. Len(y.log) /\ Len(y.log) \in Nat
      BY <2>1, HeadOfSound
    <3> QED BY <2>1, <2>4, <2>8, <3>1
  <2> QED BY <2>5, <2>8, <2>11, <2>12
<1> QED BY <1>1, TrustInvariance, PTL

(* Whatever is verified against a checkpoint is, up to the boundaries that  *)
(* lie inside it, the checkpoint's own ledger, and nothing of it lies       *)
(* beyond the end of its epoch (selectCheckpoint, VerifyBPlus).             *)
THEOREM VerifiedLiesOnTheLine == TrustSpec => []VerifiedIsOnTheLine
<1>1. TrustInv => VerifiedIsOnTheLine
  <2> SUFFICES ASSUME TrustInv, NEW y \in Exported,
                      Verdict(BundleOf(y), Checkpoint, None) = "VERIFIED"
               PROVE  /\ \A i \in DOMAIN Checkpoint.records :
                           LET n == Checkpoint.records[i].boundary.seq + 1 IN
                           n \in DOMAIN y.log => \A j \in 1 .. n : y.log[j] = Log(Original)[j]
                      /\ \A e \in DOMAIN Checkpoint.epochs :
                           LET windows == Checkpoint.epochs[e].windows
                               last    == windows[Len(windows)] IN
                           last.end # None =>
                             \A i \in SignedUnder(y.log, Checkpoint.epochs[e]) : i <= last.end + 1
    BY DEF VerifiedIsOnTheLine
  <2> DEFINE o == line[Original]
  <2>1. y \in past /\ Sound(y) /\ BundleOf(y).receipts = y.log
    BY ExportedFields
  <2>2. o \in past /\ Sound(o) /\ o.log = Log(Original) /\ o.authority = Checkpoint
    BY OriginalIsSound
  <2>3. ~Distrusted(BundleOf(y), Checkpoint, None)
    BY Verdicts
  <2>4. BoundariesBind(y.log, Checkpoint) /\ InsideWindows(y.log, Checkpoint)
    BY <2>1, <2>3 DEF Distrusted
  <2>5. /\ DOMAIN y.log = 1 .. Len(y.log) /\ Len(y.log) \in Nat
        /\ \A i \in DOMAIN y.log : y.log[i].seq = i - 1
    BY <2>1, HeadOfSound
  <2> HIDE DEF o
  <2>6. ASSUME NEW i \in DOMAIN Checkpoint.records,
               Checkpoint.records[i].boundary.seq + 1 \in DOMAIN y.log
        PROVE  \A j \in 1 .. Checkpoint.records[i].boundary.seq + 1 : y.log[j] = Log(Original)[j]
    <3> DEFINE b == Checkpoint.records[i].boundary
               n == b.seq + 1
    <3>1. n \in DOMAIN y.log /\ y.log[n].id = b.id
      BY <2>4, <2>6 DEF BoundariesBind, ExactInside
    <3>2. b # EmptyBoundary
      BY <2>5, <3>1 DEF EmptyBoundary, Boundary
    <3>3. n \in DOMAIN o.log /\ o.log[n].id = b.id
      BY <2>2, <3>2 DEF Sound, VerifyBPlus, BoundariesExact
    <3> HIDE DEF n, b
    <3>4. n \in DOMAIN y.log \cap DOMAIN o.log /\ y.log[n].id = o.log[n].id
      BY <3>1, <3>3
    <3>5. \A j \in 1 .. n : y.log[j] = o.log[j]
      BY <2>1, <2>2, <3>4 DEF TrustInv, Chained
    <3> QED BY <2>2, <3>5 DEF n, b
  <2>7. ASSUME NEW e \in DOMAIN Checkpoint.epochs,
               NEW i \in SignedUnder(y.log, Checkpoint.epochs[e]),
               Checkpoint.epochs[e].windows[Len(Checkpoint.epochs[e].windows)].end # None
        PROVE  i <= Checkpoint.epochs[e].windows[Len(Checkpoint.epochs[e].windows)].end + 1
    <3> DEFINE ws   == Checkpoint.epochs[e].windows
               last == Len(ws)
    <3>1. i \in DOMAIN y.log /\ y.log[i].key = Checkpoint.epochs[e].key
      BY <2>7 DEF SignedUnder
    <3>2. PICK f \in DOMAIN Checkpoint.epochs :
            /\ Checkpoint.epochs[f].key = y.log[i].key
            /\ SequenceAuthorized(Checkpoint.epochs[f], y.log[i].seq)
      BY <2>4, <3>1 DEF InsideWindows
    <3>3. PICK anchors : Lawful(Checkpoint, Len(o.log), anchors)
      BY <2>2 DEF Sound
    <3>4. f = e
      BY <3>1, <3>2, <3>3 DEF Lawful, KeyLaw
    <3>5. ws \in Seq(Windows) /\ EndsInOrder(ws) /\ ws # <<>>
      <4>1. Checkpoint.epochs \in Seq(EpochRecords(anchors))
        BY <3>3 DEF Lawful, AuthorityType
      <4>2. Checkpoint.epochs[e] \in EpochRecords(anchors) /\ Len(ws) > 0
        BY <3>3, <4>1 DEF Lawful, WindowLaw
      <4>3. ws \in Seq(Windows)
        BY <4>2 DEF EpochRecords
      <4>4. EndsInOrder(ws)
        BY <2>2 DEF Sound, EndsLaw
      <4> QED BY <4>2, <4>3, <4>4
    <3>6. PICK k \in DOMAIN ws : Covers(ws[k], y.log[i].seq)
      BY <3>2, <3>4 DEF SequenceAuthorized
    <3> HIDE DEF ws
    <3>7. last \in DOMAIN ws /\ k <= last /\ ws[k] \in Windows /\ ws[last] \in Windows
      BY <3>5, <3>6
    <3>8. ws[last].end # None
      BY <2>7 DEF ws
    <3>9. ws[k].end # None /\ ws[k].end <= ws[last].end
      BY <3>5, <3>7, <3>8 DEF EndsInOrder
    <3>10. i - 1 <= ws[k].end /\ ws[k].end \in Int /\ ws[last].end \in Int /\ i \in Int
      BY <2>5, <3>1, <3>6, <3>7, <3>8, <3>9 DEF Covers, Windows
    <3>11. i <= ws[last].end + 1
      BY <3>9, <3>10
    <3> QED BY <3>11 DEF ws
  <2> QED BY <2>6, <2>7
<1> QED BY <1>1, TrustInvariance, PTL
(* A bundle of a home's past is authentic, and a later state of its line    *)
(* finds no fault with it nor with an anchor made before it.                *)
LEMMA PastIsAuthentic ==
  ASSUME TrustInv, NEW y \in Exported
  PROVE  Authentic(BundleOf(y))
<1> DEFINE a == y.authority
           k == ActiveKey(a)
<1>1. /\ Sound(y) /\ a.active # 0 /\ y.log # <<>>
      /\ BundleOf(y).receipts = y.log /\ BundleOf(y).authority = a /\ BundleOf(y).sealer = k
      /\ BundleOf(y).anchor = NewAnchor(a, y.log)
      /\ NewAnchor(a, y.log).lifecycle = a.records
      /\ NewAnchor(a, y.log).epoch = a.active
      /\ NewAnchor(a, y.log).key = k
      /\ NewAnchor(a, y.log).boundary = HeadBoundary(y.log)
  BY ExportedFields
<1>2. PICK anchors : Lawful(a, Len(y.log), anchors)
  BY <1>1 DEF Sound
<1>3. a.active \in DOMAIN a.epochs /\ k = a.epochs[a.active].key
  BY <1>1, <1>2 DEF Lawful, AuthorityType, ActiveKey
<1>4. IsPrefix(a.records, a.records)
  <2>1. a.records \in Seq(LifecycleRecords(anchors))
    BY <1>2 DEF Lawful, AuthorityType
  <2> QED BY <2>1, PrefixOfItself
<1>5. k \in TrustedKeys(a) /\ VerifyBPlus(y.log, a)
  BY <1>1, <1>3 DEF TrustedKeys, Sound
<1> HIDE DEF a, k
<1>6. ValidAnchor(NewAnchor(a, y.log), a)
  BY <1>1, <1>3, <1>4 DEF ValidAnchor
<1> QED BY <1>1, <1>5, <1>6 DEF Authentic, k

(* Epochs named by a lifecycle have the same key in every continuation. *)
LEMMA KeysGoOn ==
  ASSUME NEW a, NEW b, NEW m \in Nat, NEW n \in Nat,
         NEW A, NEW B, Lawful(a, m, A), Lawful(b, n, B), NamesLaw(a), NamesLaw(b),
         IsPrefix(a.records, b.records), NEW e \in DOMAIN a.epochs
  PROVE  e \in DOMAIN b.epochs /\ b.epochs[e].key = a.epochs[e].key
<1>1. /\ a.records \in Seq(LifecycleRecords(A \cup B))
      /\ b.records \in Seq(LifecycleRecords(A \cup B))
  <2>1. Lawful(a, m, A \cup B) /\ Lawful(b, n, A \cup B)
    BY MoreAnchors
  <2> QED BY <2>1 DEF Lawful, AuthorityType
<1>2. \A i \in DOMAIN a.records : i \in DOMAIN b.records /\ b.records[i] = a.records[i]
  BY <1>1, PrefixElementwise
<1>3. PICK i \in DOMAIN a.records : a.records[i].epoch = e
  BY DEF NamesLaw
<1>4. a.epochs[e].key = a.records[i].key
  BY <1>3 DEF NamesLaw
<1>5. /\ b.records[i].epoch \in DOMAIN b.epochs
      /\ b.epochs[b.records[i].epoch].key = b.records[i].key
  BY <1>2 DEF NamesLaw
<1> QED BY <1>2, <1>3, <1>4, <1>5

LEMMA LogsOfPast ==
  ASSUME NEW x, NEW y, Sound(x), Sound(y), IsPrefix(x.log, y.log)
  PROVE  \A i \in DOMAIN x.log : i \in DOMAIN y.log /\ y.log[i] = x.log[i]
<1>1. x.log \in Seq(Receipts) /\ y.log \in Seq(Receipts)
  BY DEF Sound
<1> QED BY <1>1, PrefixElementwise

(* z, a later state than y, and an anchor of x, an earlier one. *)
LEMMA LaterFindsNoFault ==
  ASSUME TrustInv, NEW y \in Exported, NEW z, Sound(z),
         IsPrefix(y.authority.records, z.authority.records), IsPrefix(y.log, z.log),
         NEW x \in Exported \cup {None},
         x # None => IsPrefix(x.log, y.log) /\ IsPrefix(x.authority.records, z.authority.records)
  PROVE  ~Distrusted(BundleOf(y), z.authority, AnchorOf(x))
<1> DEFINE c == z.authority
<1>1. /\ Sound(y) /\ BundleOf(y).receipts = y.log /\ BundleOf(y).authority = y.authority
  BY ExportedFields
<1>2. \A i \in DOMAIN y.log : i \in DOMAIN z.log /\ z.log[i] = y.log[i]
  BY <1>1, LogsOfPast
<1>3. /\ DOMAIN y.log = 1 .. Len(y.log) /\ Len(y.log) \in Nat
      /\ BoundariesExact(z.log, c) /\ InsideWindows(z.log, c)
  BY <1>1, HeadOfSound DEF Sound, VerifyBPlus
<1>4. InsideWindows(y.log, c)
  BY <1>2, <1>3 DEF InsideWindows
<1>5. BoundariesBind(y.log, c)
  <2> SUFFICES ASSUME NEW i \in DOMAIN c.records,
                      c.records[i].boundary.seq + 1 \in DOMAIN y.log
               PROVE  ExactInside(c.records[i].boundary, y.log)
    BY DEF BoundariesBind
  <2> DEFINE b == c.records[i].boundary
  <2>1. b # EmptyBoundary
    BY <1>3 DEF EmptyBoundary, Boundary
  <2>2. z.log[b.seq + 1].id = b.id
    BY <1>3, <2>1 DEF BoundariesExact
  <2> QED BY <1>2, <2>2 DEF ExactInside
<1>6. ASSUME x # None PROVE Names(AnchorOf(x), c, y.log)
  <2> DEFINE anchor == NewAnchor(x.authority, x.log)
  <2>1. x \in Exported /\ AnchorOf(x) = anchor
    BY <1>6 DEF AnchorOf
  <2>2. /\ Sound(x) /\ x.authority.active # 0 /\ x.log # <<>>
        /\ anchor.lifecycle = x.authority.records
        /\ anchor.epoch = x.authority.active
        /\ anchor.key = ActiveKey(x.authority)
        /\ anchor.boundary = HeadBoundary(x.log)
    BY <2>1, ExportedFields
  <2> HIDE DEF anchor
  <2>3. PICK A : Lawful(x.authority, Len(x.log), A)
    BY <2>2 DEF Sound
  <2>4. PICK B : Lawful(c, Len(z.log), B)
    BY DEF Sound
  <2>5. /\ x.authority.active \in DOMAIN x.authority.epochs
        /\ ActiveKey(x.authority) = x.authority.epochs[x.authority.active].key
    BY <2>2, <2>3 DEF Lawful, AuthorityType, ActiveKey
  <2>6. /\ Len(x.log) \in Nat /\ Len(z.log) \in Nat /\ NamesLaw(x.authority) /\ NamesLaw(c)
    BY <2>2, HeadOfSound DEF Sound
  <2>7. /\ x.authority.active \in DOMAIN c.epochs
        /\ c.epochs[x.authority.active].key = ActiveKey(x.authority)
    <3>1. IsPrefix(x.authority.records, c.records)
      BY <1>6
    <3> HIDE DEF c
    <3> QED BY <2>3, <2>4, <2>5, <2>6, <3>1, KeysGoOn
  <2>8. ValidAnchor(anchor, c)
    BY <1>6, <2>2, <2>7 DEF ValidAnchor
  <2>9. /\ anchor.boundary.seq + 1 = Len(x.log) /\ Len(x.log) \in DOMAIN x.log
        /\ anchor.boundary.id = x.log[Len(x.log)].id
    <3>1. Len(x.log) # 0
      BY <2>2 DEF Sound
    <3> QED BY <2>2, <3>1, HeadOfSound
  <2>10. \A i \in DOMAIN x.log : i \in DOMAIN y.log /\ y.log[i] = x.log[i]
    BY <1>1, <1>6, <2>2, LogsOfPast
  <2>11. ExactInside(anchor.boundary, y.log)
    BY <2>9, <2>10 DEF ExactInside
  <2> QED BY <2>1, <2>8, <2>11 DEF Names
<1>7. AnchorOf(x) # None => x # None
  BY DEF AnchorOf
<1> HIDE DEF c
<1> QED BY <1>1, <1>4, <1>5, <1>6, <1>7 DEF Distrusted, c

LEMMA PrefixOfPrefix ==
  ASSUME NEW S, NEW r \in Seq(S), NEW s \in Seq(S), NEW t \in Seq(S),
         IsPrefix(r, s), IsPrefix(s, t)
  PROVE  IsPrefix(r, t)
<1>1. Len(r) <= Len(s) /\ Len(s) <= Len(t) /\ Len(r) \in Nat /\ Len(s) \in Nat /\ Len(t) \in Nat
  BY PrefixElementwise
<1>2. \A i \in 1 .. Len(r) : i \in 1 .. Len(s) /\ r[i] = s[i]
  BY <1>1, PrefixElementwise
<1>3. \A i \in 1 .. Len(s) : s[i] = t[i]
  BY PrefixElementwise
<1>4. \A i \in 1 .. Len(r) : r[i] = t[i]
  BY <1>2, <1>3
<1> QED BY <1>1, <1>4, PrefixElementwise

LEMMA EvidenceStands == TrustInv => HonestEvidenceStands
<1> SUFFICES ASSUME TrustInv, NEW y \in Exported, NEW x \in Exported \cup {None},
                    IsPrefix(y.authority.records, Checkpoint.records),
                    IsPrefix(y.log, Log(Original)),
                    x # None => /\ IsPrefix(x.log, y.log)
                                /\ IsPrefix(x.authority.records, y.authority.records)
             PROVE  Verdict(BundleOf(y), Checkpoint, AnchorOf(x))
                      \in {"VERIFIED", "TRUST_INDETERMINATE"}
  BY DEF HonestEvidenceStands
<1> DEFINE o == line[Original]
<1>1. Sound(o) /\ o.log = Log(Original) /\ o.authority = Checkpoint
  BY OriginalIsSound
<1>2. Sound(y) /\ BundleOf(y).authority = y.authority
  BY ExportedFields
<1> HIDE DEF o
<1>3. PICK A : Lawful(y.authority, Len(y.log), A)
  BY <1>2 DEF Sound
<1>4. PICK B : Lawful(Checkpoint, Len(o.log), B)
  BY <1>1 DEF Sound
<1>5. x # None => IsPrefix(x.authority.records, Checkpoint.records)
  <2> SUFFICES ASSUME x # None PROVE IsPrefix(x.authority.records, Checkpoint.records)
    OBVIOUS
  <2>1. x \in Exported /\ Sound(x)
    BY ExportedFields
  <2>2. PICK C : Lawful(x.authority, Len(x.log), C)
    BY <2>1 DEF Sound
  <2> DEFINE D == A \cup B \cup C
  <2>3. Lawful(y.authority, Len(y.log), D)
    BY <1>3, MoreAnchors
  <2>4. Lawful(Checkpoint, Len(o.log), D)
    BY <1>4, MoreAnchors
  <2>5. Lawful(x.authority, Len(x.log), D)
    BY <2>2, MoreAnchors
  <2> HIDE DEF D
  <2>6. /\ x.authority.records \in Seq(LifecycleRecords(D))
        /\ y.authority.records \in Seq(LifecycleRecords(D))
        /\ Checkpoint.records \in Seq(LifecycleRecords(D))
    BY <2>3, <2>4, <2>5 DEF Lawful, AuthorityType
  <2> QED BY <2>6, PrefixOfPrefix
<1>6. /\ IsPrefix(y.authority.records, y.authority.records) /\ IsPrefix(y.log, y.log)
  <2>1. y.authority.records \in Seq(LifecycleRecords(A)) /\ y.log \in Seq(Receipts)
    BY <1>2, <1>3 DEF Lawful, AuthorityType, Sound
  <2> QED BY <2>1, PrefixOfItself
<1>7. Authentic(BundleOf(y))
  BY PastIsAuthentic
<1>8. ~Distrusted(BundleOf(y), y.authority, AnchorOf(x))
  BY <1>2, <1>6, LaterFindsNoFault
<1>9. ~Distrusted(BundleOf(y), Checkpoint, AnchorOf(x))
  BY <1>1, <1>5, LaterFindsNoFault
<1> QED BY <1>2, <1>7, <1>8, <1>9, Verdicts

(* A bundle of a home's line is never distrusted by a later checkpoint of   *)
(* that line, whatever became of the identity, nor by an anchor made before *)
(* the export (verifyBPlusBundle, selectCheckpoint).                        *)
THEOREM HonestEvidenceAlwaysStands == TrustSpec => []HonestEvidenceStands
BY EvidenceStands, TrustInvariance, PTL

(* Homes are where a past state was, within the bounds, and what one with   *)
(* an active epoch exports passes its own verification (buildBPlus).        *)
THEOREM TrustTypeCorrect == TrustSpec => []TrustTypeOK
<1>1. TrustInv => TrustTypeOK
  <2> SUFFICES ASSUME TrustInv, NEW h \in BothHomes, Live(h)
               PROVE  /\ line[h] \in past
                      /\ Log(h) \in Seq(Receipts) /\ Len(Log(h)) <= MaxReceipts
                      /\ Len(Authority(h).records) \in 1 .. MaxLifecycle
                      /\ Exportable(Authority(h), Log(h)) =>
                           Verdict(Build(Authority(h), Log(h)), None, None)
                             = "TRUST_INDETERMINATE"
    BY DEF TrustTypeOK
  <2> DEFINE y == line[h]
  <2>1. y \in past /\ Sound(y) /\ y.log = Log(h) /\ y.authority = Authority(h)
    BY DEF TrustInv, Live, Log, Authority
  <2>2. ASSUME Exportable(Authority(h), Log(h))
        PROVE  Verdict(Build(Authority(h), Log(h)), None, None) = "TRUST_INDETERMINATE"
    <3>1. y \in Exported /\ BundleOf(y) = Build(Authority(h), Log(h))
      BY <2>1, <2>2 DEF Exported, BundleOf
    <3>2. BundleOf(y).authority = y.authority
      BY <3>1, ExportedFields
    <3>3. PICK A : Lawful(y.authority, Len(y.log), A)
      BY <2>1 DEF Sound
    <3>4. IsPrefix(y.authority.records, y.authority.records) /\ IsPrefix(y.log, y.log)
      <4>1. y.authority.records \in Seq(LifecycleRecords(A)) /\ y.log \in Seq(Receipts)
        BY <2>1, <3>3 DEF Lawful, AuthorityType, Sound
      <4> QED BY <4>1, PrefixOfItself
    <3>5. AnchorOf(None) = None
      BY DEF AnchorOf
    <3>6. ~Distrusted(BundleOf(y), y.authority, None)
      <4>1. ~Distrusted(BundleOf(y), y.authority, AnchorOf(None))
        BY <2>1, <3>1, <3>4, LaterFindsNoFault
      <4> QED BY <3>5, <4>1
    <3> QED BY <3>1, <3>2, <3>6, PastIsAuthentic, Verdicts
  <2> QED BY <2>1, <2>2 DEF Sound
<1> QED BY <1>1, TrustInvariance, PTL
===============================================================================
