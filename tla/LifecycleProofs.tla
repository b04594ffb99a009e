---------------------------- MODULE LifecycleProofs ----------------------------
(***************************************************************************)
(* What every chain of accepted lifecycle records derives: lemmas about    *)
(* the operators of Lifecycle, for the proofs of the modules that compute  *)
(* with them.                                                              *)
(***************************************************************************)
EXTENDS Lifecycle, TLAPS

(* The anchors that records and epochs may carry; elsewhere than in         *)
(* EvidenceTrust there are none.                                            *)
NoAnchors == {None}

Windows == [start : Int, end : Int \cup {None}]
EpochRecords(A) == [key : Nat, status : Statuses, windows : Seq(Windows), anchor : A]
LifecycleRecords(A) == [seq : Nat, action : Actions \cup {"GENESIS"}, epoch : Nat, key : Nat,
                        boundary : [seq : Int, id : Nat \cup {None}], anchor : A]

(* An authority over a log of n receipts. *)
AuthorityType(a, A) ==
  /\ a \in [records : Seq(LifecycleRecords(A)), epochs : Seq(EpochRecords(A)), active : Nat]
  /\ None \in A
  /\ a.records # <<>> /\ a.epochs # <<>>
  /\ a.active \in {0, Len(a.epochs)}

(* The active epoch has the status, every epoch but the latest is closed,   *)
(* and no two share a key.                                                  *)
StatusLaw(a) ==
  /\ \A e \in DOMAIN a.epochs : a.epochs[e].status = "ACTIVE" <=> e = a.active
  /\ \A e \in DOMAIN a.epochs : e # Len(a.epochs) => a.epochs[e].status \in {"RETIRED", "REVOKED"}

KeyLaw(a) ==
  \A e, f \in DOMAIN a.epochs : a.epochs[e].key = a.epochs[f].key => e = f

(* No window starts or has ended beyond the log; the one that is open is    *)
(* the last one of the active epoch.                                        *)
WindowLaw(a, n) ==
  \A e \in DOMAIN a.epochs :
    /\ Len(a.epochs[e].windows) > 0
    /\ \A i \in DOMAIN a.epochs[e].windows :
         LET w == a.epochs[e].windows[i] IN
         /\ w.start < n
         /\ w.end # None => w.end < n
         /\ w.end = None <=> (e = a.active /\ i = Len(a.epochs[e].windows))

SignerLaw(a) ==
  \A e, f \in DOMAIN a.epochs : \A seq \in Nat :
    /\ SequenceAuthorized(a.epochs[e], seq)
    /\ SequenceAuthorized(a.epochs[f], seq)
    => e = f

Lawful(a, n, A) ==
  AuthorityType(a, A) /\ StatusLaw(a) /\ KeyLaw(a) /\ WindowLaw(a, n) /\ SignerLaw(a)

----------------------------------------------------------------------------
(* Genesis, and receipts appended under an authority that stays *)

LEMMA GenesisLawful ==
  ASSUME NEW A, None \in A, NEW key \in Nat
  PROVE  Lawful(Genesis(key), 0, A)
<1> DEFINE a == Genesis(key)
           w == [start |-> -1, end |-> None]
           e == [key |-> key, status |-> "ACTIVE", windows |-> <<w>>, anchor |-> None]
           r == [seq |-> 0, action |-> "GENESIS", epoch |-> 1, key |-> key,
                 boundary |-> EmptyBoundary, anchor |-> None]
<1>1. a = [records |-> <<r>>, epochs |-> <<e>>, active |-> 1]
  BY DEF Genesis, NewEpoch, OpenWindow, EmptyBoundary, Boundary
<1>2. e \in EpochRecords(A) /\ r \in LifecycleRecords(A)
  BY DEF EpochRecords, LifecycleRecords, Windows, Statuses, EmptyBoundary, Boundary
<1> HIDE DEF a, r
<1>3. a.records = <<r>> /\ a.epochs = <<e>> /\ a.active = 1
  BY <1>1
<1>4. AuthorityType(a, A)
  BY <1>1, <1>2 DEF AuthorityType
<1>5. StatusLaw(a) /\ KeyLaw(a) /\ SignerLaw(a)
  BY <1>3 DEF StatusLaw, KeyLaw, SignerLaw
<1>6. WindowLaw(a, 0)
  <2> SUFFICES ASSUME NEW d \in DOMAIN a.epochs
               PROVE  /\ Len(a.epochs[d].windows) > 0
                      /\ \A i \in DOMAIN a.epochs[d].windows :
                           /\ a.epochs[d].windows[i] = w
                           /\ i = Len(a.epochs[d].windows)
                           /\ d = a.active
    BY DEF WindowLaw
  <2>1. d = 1 /\ a.epochs[d].windows = <<w>>
    BY <1>3
  <2>2. d = a.active
    BY <1>3, <2>1
  <2> HIDE DEF w
  <2>3. Len(<<w>>) = 1 /\ <<w>>[1] = w /\ DOMAIN <<w>> = {1}
    OBVIOUS
  <2> QED BY <2>1, <2>2, <2>3
<1> QED BY <1>4, <1>5, <1>6 DEF Lawful, a

LEMMA LongerLogLawful ==
  ASSUME NEW A, NEW a, NEW n \in Nat, Lawful(a, n, A)
  PROVE  Lawful(a, n + 1, A)
<1>1. WindowLaw(a, n + 1)
  <2> SUFFICES ASSUME NEW e \in DOMAIN a.epochs, NEW i \in DOMAIN a.epochs[e].windows
               PROVE  /\ a.epochs[e].windows[i].start < n + 1
                      /\ a.epochs[e].windows[i].end # None => a.epochs[e].windows[i].end < n + 1
    BY DEF Lawful, WindowLaw
  <2>1. a.epochs[e] \in EpochRecords(A)
    BY DEF Lawful, AuthorityType
  <2>2. a.epochs[e].windows[i] \in Windows
    BY <2>1 DEF EpochRecords
  <2> QED BY <2>2 DEF Lawful, WindowLaw, Windows
<1> QED BY <1>1 DEF Lawful

----------------------------------------------------------------------------
(* Closing an epoch *)

LEMMA CloseEpochShape ==
  ASSUME NEW A, NEW epoch \in EpochRecords(A), Len(epoch.windows) > 0,
         NEW status \in Statuses, NEW anchor \in A, NEW boundary, boundary.seq \in Int
  PROVE  LET c == CloseEpoch(epoch, status, boundary, anchor)
             last == Len(epoch.windows) IN
         /\ c \in EpochRecords(A)
         /\ c.key = epoch.key /\ c.status = status
         /\ Len(c.windows) = last /\ DOMAIN c.windows = DOMAIN epoch.windows
         /\ \A i \in DOMAIN epoch.windows : c.windows[i].start = epoch.windows[i].start
         /\ \A i \in DOMAIN epoch.windows : i # last => c.windows[i] = epoch.windows[i]
         /\ c.windows[last].end = IF epoch.windows[last].end = None THEN boundary.seq
                                  ELSE epoch.windows[last].end
<1> DEFINE c == CloseEpoch(epoch, status, boundary, anchor)
           last == Len(epoch.windows)
           end == IF epoch.windows[last].end = None THEN boundary.seq ELSE epoch.windows[last].end
           ended == [epoch.windows EXCEPT ![last] = [@ EXCEPT !.end = end]]
<1>1. c = [epoch EXCEPT !.windows = ended, !.status = status, !.anchor = anchor]
  BY DEF CloseEpoch
<1>2. epoch.windows \in Seq(Windows) /\ last \in DOMAIN epoch.windows
  BY DEF EpochRecords
<1>3. epoch.windows[last] \in Windows /\ end \in Int \cup {None}
  <2>1. epoch.windows[last] \in Windows
    BY <1>2
  <2> QED BY <2>1 DEF Windows
<1>4. [epoch.windows[last] EXCEPT !.end = end] \in Windows
  BY <1>3 DEF Windows
<1>5. ended \in Seq(Windows) /\ Len(ended) = last /\ DOMAIN ended = DOMAIN epoch.windows
  BY <1>2, <1>4
<1>6. \A i \in DOMAIN epoch.windows : i # last => ended[i] = epoch.windows[i]
  BY <1>2
<1>7. ended[last] = [epoch.windows[last] EXCEPT !.end = end]
  BY <1>2
<1>8. ended[last].end = end /\ ended[last].start = epoch.windows[last].start
  BY <1>7, <1>3 DEF Windows
<1> HIDE DEF ended, end
<1>9. c = [key |-> epoch.key, status |-> status, windows |-> ended, anchor |-> anchor]
  BY <1>1 DEF EpochRecords
<1>10. c \in EpochRecords(A)
  BY <1>9, <1>5 DEF EpochRecords
<1> QED BY <1>2, <1>5, <1>6, <1>8, <1>9, <1>10 DEF end

----------------------------------------------------------------------------
(* What an accepted record does to the epochs, one case for each way. *)

ClosedBy(a, r) == CloseEpoch(Latest(a), ClosedStatus(r.action), r.boundary, r.anchor)

ResumedBy(a, r) ==
  [key |-> Latest(a).key, status |-> "ACTIVE",
   windows |-> Append(Latest(a).windows, OpenWindow(r.boundary)), anchor |-> Latest(a).anchor]

LEMMA ClosingClosed ==
  ASSUME NEW action \in Actions
  PROVE  ClosedStatus(action) \in {"RETIRED", "SUSPENDED", "REVOKED"}
BY DEF ClosedStatus, Actions

LEMMA WindowsReplaced ==
  ASSUME NEW A, NEW epoch \in EpochRecords(A), NEW windows
  PROVE  [epoch EXCEPT !.windows = windows] =
           [key |-> epoch.key, status |-> epoch.status, windows |-> windows, anchor |-> epoch.anchor]
BY DEF EpochRecords

LEMMA EpochsAfterShape ==
  ASSUME NEW A, NEW a, AuthorityType(a, A),
         NEW r \in LifecycleRecords(A), r.action \in Actions
  PROVE  /\ r.action = "RESUME" =>
              EpochsAfter(a, r) = [a.epochs EXCEPT ![Len(a.epochs)] = ResumedBy(a, r)]
         /\ r.action \in {"SUSPEND", "REVOKE"} =>
              EpochsAfter(a, r) = [a.epochs EXCEPT ![Len(a.epochs)] = ClosedBy(a, r)]
         /\ GeneratesKey(r.action) =>
              EpochsAfter(a, r) =
                Append([a.epochs EXCEPT ![Len(a.epochs)] = ClosedBy(a, r)],
                       NewEpoch(r.key, r.boundary))
<1>2. CASE r.action = "RESUME"
  <2> DEFINE n == Len(a.epochs)
             w == OpenWindow(r.boundary)
  <2>1. a.epochs \in Seq(EpochRecords(A)) /\ n \in DOMAIN a.epochs
    BY DEF AuthorityType
  <2>2. a.epochs[n] \in EpochRecords(A)
    BY <2>1
  <2> DEFINE active == [a.epochs EXCEPT ![n].status = "ACTIVE"]
             resumed == [active EXCEPT ![n].windows = Append(active[n].windows, w)]
  <2>3. EpochsAfter(a, r) = [a.epochs EXCEPT ![n].status = "ACTIVE", ![n].windows = Append(@, w)]
    BY <1>2 DEF EpochsAfter, LatestEpoch
  <2>4. EpochsAfter(a, r) = resumed
    BY <2>3
  <2>5. a.epochs[n] = [key |-> Latest(a).key, status |-> a.epochs[n].status,
                       windows |-> Latest(a).windows, anchor |-> Latest(a).anchor]
    BY <2>2 DEF EpochRecords, Latest, LatestEpoch
  <2>6. active = [a.epochs EXCEPT ![n] =
                    [key |-> Latest(a).key, status |-> "ACTIVE",
                     windows |-> Latest(a).windows, anchor |-> Latest(a).anchor]]
    BY <2>1, <2>5
  <2>7. active[n] = [key |-> Latest(a).key, status |-> "ACTIVE",
                     windows |-> Latest(a).windows, anchor |-> Latest(a).anchor]
    BY <2>1, <2>6
  <2>8. resumed = [a.epochs EXCEPT ![n] = ResumedBy(a, r)]
    <3>0. /\ active[n] \in EpochRecords(A)
          /\ active[n].key = Latest(a).key /\ active[n].status = "ACTIVE"
          /\ active[n].windows = Latest(a).windows /\ active[n].anchor = Latest(a).anchor
      BY <2>2, <2>7 DEF EpochRecords, Latest, LatestEpoch, Statuses
    <3> HIDE DEF active
    <3>1. [active[n] EXCEPT !.windows = Append(active[n].windows, w)] = ResumedBy(a, r)
      <4>1. [active[n] EXCEPT !.windows = Append(active[n].windows, w)] =
              [key |-> active[n].key, status |-> active[n].status,
               windows |-> Append(active[n].windows, w), anchor |-> active[n].anchor]
        BY <3>0, WindowsReplaced
      <4> QED BY <3>0, <4>1 DEF ResumedBy
    <3>2. resumed = [active EXCEPT ![n] = ResumedBy(a, r)]
      BY <3>1
    <3> HIDE DEF resumed
    <3> QED BY <3>2, <2>1, <2>6
  <2> HIDE DEF active, resumed
  <2>9. EpochsAfter(a, r) = [a.epochs EXCEPT ![n] = ResumedBy(a, r)]
    BY <2>4, <2>8
  <2> QED BY <1>2, <2>9 DEF GeneratesKey
<1>3. CASE r.action \in {"SUSPEND", "REVOKE"}
  BY <1>3 DEF EpochsAfter, LatestEpoch, Latest, GeneratesKey, ClosedBy
<1>4. CASE GeneratesKey(r.action)
  BY <1>4 DEF EpochsAfter, LatestEpoch, Latest, GeneratesKey, ClosedBy
<1> QED BY <1>2, <1>3, <1>4 DEF Actions, GeneratesKey

----------------------------------------------------------------------------
(* The latest epoch of a lawful authority *)

LEMMA LatestIsLawful ==
  ASSUME NEW A, NEW a, NEW n \in Nat, Lawful(a, n, A)
  PROVE  LET e == Latest(a)
             last == Len(e.windows) IN
         /\ Len(a.epochs) \in DOMAIN a.epochs
         /\ Latest(a) = a.epochs[Len(a.epochs)]
         /\ e \in EpochRecords(A)
         /\ last \in DOMAIN e.windows /\ DOMAIN e.windows = 1 .. last
         /\ \A i \in DOMAIN e.windows :
              /\ e.windows[i] \in Windows
              /\ e.windows[i].start < n
              /\ e.windows[i].end # None => e.windows[i].end < n
              /\ e.windows[i].end = None <=> (a.active = Len(a.epochs) /\ i = last)
<1>1. a.epochs \in Seq(EpochRecords(A)) /\ a.epochs # <<>>
  BY DEF Lawful, AuthorityType
<1>2. Len(a.epochs) \in DOMAIN a.epochs /\ Latest(a) = a.epochs[Len(a.epochs)]
  BY <1>1 DEF Latest, LatestEpoch
<1>3. Latest(a) \in EpochRecords(A)
  BY <1>1, <1>2
<1>4. Latest(a).windows \in Seq(Windows)
  BY <1>3 DEF EpochRecords
<1>5. Len(Latest(a).windows) > 0
  BY <1>2 DEF Lawful, WindowLaw
<1>6. \A i \in DOMAIN Latest(a).windows :
        LET w == Latest(a).windows[i] IN
        /\ w.start < n
        /\ w.end # None => w.end < n
        /\ w.end = None <=> (a.active = Len(a.epochs) /\ i = Len(Latest(a).windows))
  BY <1>2 DEF Lawful, WindowLaw
<1> QED BY <1>2, <1>3, <1>4, <1>5, <1>6

(* Closing it at the head ends every window before the head and leaves the  *)
(* coverage of what is in the log as it was.                                *)
LEMMA ClosedByShape ==
  ASSUME NEW A, NEW a, NEW n \in Nat, Lawful(a, n, A),
         NEW r \in LifecycleRecords(A), r.action \in Actions, r.boundary.seq = n - 1
  PROVE  LET c == ClosedBy(a, r) IN
         /\ c \in EpochRecords(A)
         /\ c.key = Latest(a).key
         /\ c.status \in {"RETIRED", "SUSPENDED", "REVOKED"}
         /\ c.status = ClosedStatus(r.action)
         /\ Len(c.windows) > 0
         /\ \A i \in DOMAIN c.windows :
              c.windows[i].start < n /\ c.windows[i].end # None /\ c.windows[i].end < n
         /\ \A seq \in Nat :
              SequenceAuthorized(c, seq) <=> seq < n /\ SequenceAuthorized(Latest(a), seq)
         /\ a.active # Len(a.epochs) => c.windows = Latest(a).windows
<1> DEFINE e == Latest(a)
           last == Len(e.windows)
           c == ClosedBy(a, r)
<1>1. /\ e \in EpochRecords(A)
      /\ last \in DOMAIN e.windows /\ DOMAIN e.windows = 1 .. last
      /\ \A i \in DOMAIN e.windows :
           /\ e.windows[i] \in Windows
           /\ e.windows[i].start < n
           /\ e.windows[i].end # None => e.windows[i].end < n
           /\ e.windows[i].end = None <=> (a.active = Len(a.epochs) /\ i = last)
  BY LatestIsLawful
<1>2. ClosedStatus(r.action) \in {"RETIRED", "SUSPENDED", "REVOKED"}
  BY ClosingClosed
<1>3. /\ r.boundary.seq \in Int /\ last > 0 /\ ClosedStatus(r.action) \in Statuses
      /\ r.anchor \in A
  BY <1>1, <1>2 DEF Statuses, LifecycleRecords
<1>4. /\ c \in EpochRecords(A)
      /\ c.key = e.key /\ c.status = ClosedStatus(r.action)
      /\ Len(c.windows) = last /\ DOMAIN c.windows = DOMAIN e.windows
      /\ \A i \in DOMAIN e.windows : c.windows[i].start = e.windows[i].start
      /\ \A i \in DOMAIN e.windows : i # last => c.windows[i] = e.windows[i]
      /\ c.windows[last].end = IF e.windows[last].end = None THEN r.boundary.seq
                               ELSE e.windows[last].end
  BY <1>1, <1>3, CloseEpochShape DEF ClosedBy
<1> HIDE DEF e, last, c
<1>5. c.windows \in Seq(Windows) /\ e.windows \in Seq(Windows)
  BY <1>1, <1>4 DEF EpochRecords
<1>6. \A i \in DOMAIN c.windows : c.windows[i] \in Windows
  BY <1>5
<1>7. \A i \in DOMAIN c.windows :
        c.windows[i].start < n /\ c.windows[i].end # None /\ c.windows[i].end < n
  <2> SUFFICES ASSUME NEW i \in DOMAIN c.windows
               PROVE  c.windows[i].start < n /\ c.windows[i].end # None /\ c.windows[i].end < n
    OBVIOUS
  <2>1. c.windows[i].start < n
    BY <1>1, <1>4
  <2>2. CASE i # last
    <3>1. c.windows[i] = e.windows[i] /\ e.windows[i].end # None
      BY <1>1, <1>4, <2>2
    <3> QED BY <1>1, <1>4, <2>1, <3>1
  <2>3. CASE i = last /\ e.windows[last].end = None
    <3>1. c.windows[i].end = n - 1
      BY <1>4, <2>3
    <3>2. n - 1 # None
      BY NoneIsNoNumber
    <3> QED BY <2>1, <3>1, <3>2
  <2>4. CASE i = last /\ e.windows[last].end # None
    <3>1. c.windows[i].end = e.windows[i].end
      BY <1>4, <2>4
    <3> QED BY <1>1, <1>4, <2>1, <2>4, <3>1
  <2> QED BY <2>2, <2>3, <2>4
<1>8. ASSUME NEW seq \in Nat, NEW i \in DOMAIN c.windows
      PROVE  Covers(c.windows[i], seq) <=> seq < n /\ Covers(e.windows[i], seq)
  <2>1. c.windows[i].start = e.windows[i].start
    BY <1>4
  <2>2. CASE e.windows[i].end = None
    <3>1. i = last /\ c.windows[i].end = n - 1
      BY <1>1, <1>4, <2>2
    <3>2. seq <= n - 1 <=> seq < n
      OBVIOUS
    <3> QED BY <1>7, <2>1, <2>2, <3>1, <3>2 DEF Covers
  <2>3. CASE e.windows[i].end # None
    <3>1. c.windows[i].end = e.windows[i].end
      BY <1>4, <2>3
    <3>2. e.windows[i].end \in Int /\ e.windows[i].end < n
      BY <1>1, <1>4, <2>3 DEF Windows
    <3>3. seq <= e.windows[i].end => seq < n
      BY <3>2
    <3> QED BY <2>1, <2>3, <3>1, <3>3 DEF Covers
  <2> QED BY <2>2, <2>3
<1>9. \A seq \in Nat : SequenceAuthorized(c, seq) <=> seq < n /\ SequenceAuthorized(e, seq)
  BY <1>4, <1>8 DEF SequenceAuthorized
<1>10. ASSUME a.active # Len(a.epochs) PROVE c.windows = e.windows
  <2>1. ASSUME NEW i \in DOMAIN e.windows PROVE c.windows[i] = e.windows[i]
    <3>1. c.windows[i].end = e.windows[i].end /\ c.windows[i].start = e.windows[i].start
      BY <1>1, <1>4, <1>10
    <3>2. c.windows[i] \in Windows /\ e.windows[i] \in Windows
      BY <1>1, <1>4, <1>6
    <3> QED BY <3>1, <3>2 DEF Windows
  <2> QED BY <1>4, <1>5, <2>1
<1> QED BY <1>1, <1>2, <1>4, <1>7, <1>9, <1>10 DEF e, c, last

(* Resuming it at the head opens one more window, after the log. *)
LEMMA ResumedByShape ==
  ASSUME NEW A, NEW a, NEW n \in Nat, Lawful(a, n, A), a.active # Len(a.epochs),
         NEW r \in LifecycleRecords(A), r.boundary.seq = n - 1
  PROVE  LET c == ResumedBy(a, r) IN
         /\ c \in EpochRecords(A)
         /\ c.key = Latest(a).key
         /\ c.status = "ACTIVE"
         /\ Len(c.windows) > 0
         /\ \A i \in DOMAIN c.windows :
              /\ c.windows[i].start < n
              /\ c.windows[i].end # None => c.windows[i].end < n
              /\ c.windows[i].end = None <=> i = Len(c.windows)
         /\ \A seq \in Nat :
              seq < n => (SequenceAuthorized(c, seq) <=> SequenceAuthorized(Latest(a), seq))
<1> DEFINE e == Latest(a)
           last == Len(e.windows)
           c == ResumedBy(a, r)
           w == [start |-> n - 1, end |-> None]
<1>1. /\ e \in EpochRecords(A)
      /\ last \in DOMAIN e.windows /\ DOMAIN e.windows = 1 .. last
      /\ \A i \in DOMAIN e.windows :
           /\ e.windows[i] \in Windows
           /\ e.windows[i].start < n
           /\ e.windows[i].end # None => e.windows[i].end < n
           /\ e.windows[i].end # None
  BY LatestIsLawful
<1>2. e.windows \in Seq(Windows) /\ e.key \in Nat /\ e.anchor \in A
  BY <1>1 DEF EpochRecords
<1>3. w \in Windows
  BY DEF Windows
<1>4. c = [key |-> e.key, status |-> "ACTIVE", windows |-> Append(e.windows, w), anchor |-> e.anchor]
  BY DEF ResumedBy, OpenWindow
<1>5. w.start < n /\ w.end = None /\ \A seq \in Nat : seq < n => ~ Covers(w, seq)
  BY DEF Covers
<1> HIDE DEF e, c, w, last
<1>6. /\ Append(e.windows, w) \in Seq(Windows)
      /\ Len(Append(e.windows, w)) = last + 1
      /\ DOMAIN Append(e.windows, w) = 1 .. last + 1
      /\ \A i \in 1 .. last : Append(e.windows, w)[i] = e.windows[i]
      /\ Append(e.windows, w)[last + 1] = w
  BY <1>2, <1>3 DEF last
<1>7. /\ c.windows \in Seq(Windows) /\ Len(c.windows) = last + 1
      /\ DOMAIN c.windows = 1 .. last + 1
      /\ \A i \in 1 .. last : c.windows[i] = e.windows[i]
      /\ c.windows[last + 1] = w
  BY <1>4, <1>6
<1>8. last \in Nat /\ last > 0
  BY <1>1, <1>2 DEF last
<1>9. c \in EpochRecords(A) /\ c.key = e.key /\ c.status = "ACTIVE"
  BY <1>2, <1>4, <1>6 DEF EpochRecords, Statuses
<1>10. \A i \in DOMAIN c.windows :
         /\ c.windows[i].start < n
         /\ c.windows[i].end # None => c.windows[i].end < n
         /\ c.windows[i].end = None <=> i = Len(c.windows)
  <2> SUFFICES ASSUME NEW i \in 1 .. last + 1
               PROVE  /\ c.windows[i].start < n
                      /\ c.windows[i].end # None => c.windows[i].end < n
                      /\ c.windows[i].end = None <=> i = last + 1
    BY <1>7
  <2>1. CASE i = last + 1
    BY <1>5, <1>7, <2>1
  <2>2. CASE i \in 1 .. last
    <3>1. c.windows[i] = e.windows[i] /\ i # last + 1 /\ i \in DOMAIN e.windows
      BY <1>1, <1>7, <1>8, <2>2
    <3> QED BY <1>1, <3>1
  <2> QED BY <1>8, <2>1, <2>2
<1>11. ASSUME NEW seq \in Nat, seq < n
       PROVE  SequenceAuthorized(c, seq) <=> SequenceAuthorized(e, seq)
  <2>1. ~ Covers(c.windows[last + 1], seq)
    BY <1>5, <1>7, <1>11
  <2>2. \A i \in 1 .. last : Covers(c.windows[i], seq) <=> Covers(e.windows[i], seq)
    BY <1>7
  <2>3. \A i \in 1 .. last + 1 : i = last + 1 \/ i \in 1 .. last
    BY <1>8
  <2>4. \A i \in 1 .. last : i \in 1 .. last + 1
    BY <1>8
  <2> QED BY <1>1, <1>7, <2>1, <2>2, <2>3, <2>4 DEF SequenceAuthorized
<1> QED BY <1>7, <1>8, <1>9, <1>10, <1>11 DEF e, c

(* The window of a new epoch opens after the log. *)
LEMMA NewEpochShape ==
  ASSUME NEW A, None \in A, NEW key \in Nat, NEW n \in Nat, NEW boundary, boundary.seq = n - 1
  PROVE  LET e == NewEpoch(key, boundary) IN
         /\ e \in EpochRecords(A)
         /\ e.key = key
         /\ e.status = "ACTIVE"
         /\ Len(e.windows) = 1
         /\ e.windows[1].start < n
         /\ e.windows[1].end = None
         /\ \A seq \in Nat : seq < n => ~ SequenceAuthorized(e, seq)
<1> DEFINE w == [start |-> n - 1, end |-> None]
           e == NewEpoch(key, boundary)
<1>1. e = [key |-> key, status |-> "ACTIVE", windows |-> <<w>>, anchor |-> None]
  BY DEF NewEpoch, OpenWindow
<1>2. w \in Windows /\ w.start < n /\ w.end = None /\ \A seq \in Nat : seq < n => ~ Covers(w, seq)
  BY DEF Windows, Covers
<1> HIDE DEF w, e
<1>3. <<w>> \in Seq(Windows) /\ Len(<<w>>) = 1 /\ DOMAIN <<w>> = {1} /\ <<w>>[1] = w
  BY <1>2
<1>4. e \in EpochRecords(A) /\ e.key = key /\ e.status = "ACTIVE" /\ e.windows = <<w>>
  BY <1>1, <1>3 DEF EpochRecords, Statuses
<1>5. \A seq \in Nat : seq < n => ~ SequenceAuthorized(e, seq)
  BY <1>2, <1>3, <1>4 DEF SequenceAuthorized
<1> QED BY <1>2, <1>3, <1>4, <1>5 DEF e

----------------------------------------------------------------------------
(* An accepted record leads from a lawful authority to a lawful authority *)

(* After the log, only the active epoch may sign. *)
LEMMA ActiveSignsNext ==
  ASSUME NEW A, NEW a, NEW n \in Nat, AuthorityType(a, A), WindowLaw(a, n),
         NEW e \in DOMAIN a.epochs, NEW seq \in Nat, seq >= n
  PROVE  SequenceAuthorized(a.epochs[e], seq) <=> e = a.active
<1>1. a.epochs[e] \in EpochRecords(A)
  BY DEF AuthorityType
<1>2. a.epochs[e].windows \in Seq(Windows)
  BY <1>1 DEF EpochRecords
<1> DEFINE ws == a.epochs[e].windows
<1>3. \A i \in DOMAIN ws : ws[i] \in Windows
  BY <1>2
<1>4. Len(ws) \in DOMAIN ws
  BY <1>2 DEF WindowLaw
<1>5. \A i \in DOMAIN ws :
        /\ ws[i].start < n
        /\ ws[i].end # None => ws[i].end < n
        /\ ws[i].end = None <=> (e = a.active /\ i = Len(ws))
  BY DEF WindowLaw
<1> HIDE DEF ws
<1>6. ASSUME NEW i \in DOMAIN ws PROVE Covers(ws[i], seq) <=> ws[i].end = None
  <2>1. ws[i].start < seq
    BY <1>3, <1>5 DEF Windows
  <2>2. ws[i].end # None => ~ seq <= ws[i].end
    BY <1>3, <1>5 DEF Windows
  <2> QED BY <2>1, <2>2 DEF Covers
<1> QED BY <1>4, <1>5, <1>6 DEF SequenceAuthorized, ws

LEMMA LatestReplaced ==
  ASSUME NEW A, NEW a, NEW n \in Nat, Lawful(a, n, A),
         NEW records \in Seq(LifecycleRecords(A)), records # <<>>,
         NEW active \in {0, Len(a.epochs)},
         NEW c \in EpochRecords(A), c.key = Latest(a).key,
         c.status = "ACTIVE" <=> active = Len(a.epochs),
         Len(c.windows) > 0,
         \A i \in DOMAIN c.windows :
           /\ c.windows[i].start < n
           /\ c.windows[i].end # None => c.windows[i].end < n
           /\ c.windows[i].end = None <=> (active = Len(a.epochs) /\ i = Len(c.windows)),
         \A seq \in Nat :
           seq < n => (SequenceAuthorized(c, seq) <=> SequenceAuthorized(Latest(a), seq))
  PROVE  Lawful([records |-> records,
                 epochs |-> [a.epochs EXCEPT ![Len(a.epochs)] = c],
                 active |-> active], n, A)
<1> DEFINE N == Len(a.epochs)
           x == [records |-> records, epochs |-> [a.epochs EXCEPT ![N] = c], active |-> active]
<1>1. /\ a.epochs \in Seq(EpochRecords(A)) /\ N \in DOMAIN a.epochs /\ DOMAIN a.epochs = 1 .. N
      /\ a.epochs[N] = Latest(a) /\ a.active \in {0, N} /\ N \in Nat /\ N > 0 /\ None \in A
  BY DEF Lawful, AuthorityType, Latest, LatestEpoch
<1>2. /\ [a.epochs EXCEPT ![N] = c] \in Seq(EpochRecords(A))
      /\ Len([a.epochs EXCEPT ![N] = c]) = N
      /\ DOMAIN [a.epochs EXCEPT ![N] = c] = 1 .. N
      /\ [a.epochs EXCEPT ![N] = c] # <<>>
      /\ [a.epochs EXCEPT ![N] = c][N] = c
      /\ \A e \in 1 .. N : e # N => [a.epochs EXCEPT ![N] = c][e] = a.epochs[e]
  BY <1>1
<1>3. /\ x.records = records /\ x.active = active
      /\ x.epochs \in Seq(EpochRecords(A)) /\ Len(x.epochs) = N /\ DOMAIN x.epochs = 1 .. N
      /\ x.epochs # <<>> /\ x.epochs[N] = c
      /\ \A e \in 1 .. N : e # N => x.epochs[e] = a.epochs[e]
      /\ x = [records |-> records, epochs |-> x.epochs, active |-> active]
  BY <1>2
<1> HIDE DEF x, N
<1>4. active \in {0, N}
  BY DEF N
<1>5. AuthorityType(x, A)
  BY <1>1, <1>3, <1>4 DEF AuthorityType
<1>6. \A e \in 1 .. N : e # N => e # a.active /\ e # active
  BY <1>1, <1>4
<1>7. StatusLaw(x)
  <2>1. \A e \in 1 .. N : e # N => a.epochs[e].status \in {"RETIRED", "REVOKED"}
    BY <1>1 DEF Lawful, StatusLaw, N
  <2>2. c.status = "ACTIVE" <=> N = active
    BY DEF N
  <2> QED BY <1>3, <1>6, <2>1, <2>2 DEF StatusLaw
<1>8. KeyLaw(x)
  <2>1. \A e \in 1 .. N : x.epochs[e].key = a.epochs[e].key
    BY <1>1, <1>3
  <2> QED BY <1>1, <1>3, <2>1 DEF Lawful, KeyLaw
<1>9. WindowLaw(x, n)
  <2> SUFFICES ASSUME NEW e \in 1 .. N
               PROVE  /\ Len(x.epochs[e].windows) > 0
                      /\ \A i \in DOMAIN x.epochs[e].windows :
                           /\ x.epochs[e].windows[i].start < n
                           /\ x.epochs[e].windows[i].end # None => x.epochs[e].windows[i].end < n
                           /\ x.epochs[e].windows[i].end = None <=>
                                (e = active /\ i = Len(x.epochs[e].windows))
    BY <1>3 DEF WindowLaw
  <2>1. CASE e = N
    BY <1>3, <2>1 DEF N
  <2>2. CASE e # N
    BY <1>1, <1>3, <1>6, <2>2 DEF Lawful, WindowLaw
  <2> QED BY <2>1, <2>2
<1>10. SignerLaw(x)
  <2> SUFFICES ASSUME NEW e \in 1 .. N, NEW f \in 1 .. N, NEW seq \in Nat,
                      SequenceAuthorized(x.epochs[e], seq), SequenceAuthorized(x.epochs[f], seq)
               PROVE  e = f
    BY <1>3 DEF SignerLaw
  <2>1. CASE seq < n
    <3>1. \A d \in 1 .. N : SequenceAuthorized(x.epochs[d], seq) <=> SequenceAuthorized(a.epochs[d], seq)
      BY <1>1, <1>3, <2>1
    <3> QED BY <1>1, <3>1 DEF Lawful, SignerLaw
  <2>2. CASE seq >= n
    BY <1>3, <1>5, <1>9, <2>2, ActiveSignsNext
  <2> QED BY <2>1, <2>2
<1> QED BY <1>5, <1>7, <1>8, <1>9, <1>10 DEF Lawful, x, N

LEMMA EpochAdded ==
  ASSUME NEW A, NEW a, NEW n \in Nat, Lawful(a, n, A), a.active = 0,
         Latest(a).status \in {"RETIRED", "REVOKED"},
         NEW c \in EpochRecords(A), c.key \notin TrustedKeys(a),
         c.status = "ACTIVE",
         Len(c.windows) = 1, c.windows[1].start < n, c.windows[1].end = None,
         \A seq \in Nat : seq < n => ~ SequenceAuthorized(c, seq)
  PROVE  Lawful([records |-> a.records,
                 epochs |-> Append(a.epochs, c),
                 active |-> Len(a.epochs) + 1], n, A)
<1> DEFINE N == Len(a.epochs)
           x == [records |-> a.records, epochs |-> Append(a.epochs, c), active |-> N + 1]
<1>1. /\ a.epochs \in Seq(EpochRecords(A)) /\ N \in DOMAIN a.epochs /\ DOMAIN a.epochs = 1 .. N
      /\ a.epochs[N] = Latest(a) /\ N \in Nat /\ N > 0
      /\ a.records \in Seq(LifecycleRecords(A)) /\ a.records # <<>> /\ None \in A
  BY DEF Lawful, AuthorityType, Latest, LatestEpoch
<1>2. /\ x.records = a.records /\ x.active = N + 1
      /\ x.epochs \in Seq(EpochRecords(A)) /\ Len(x.epochs) = N + 1 /\ DOMAIN x.epochs = 1 .. N + 1
      /\ x.epochs # <<>> /\ x.epochs[N + 1] = c
      /\ \A e \in 1 .. N : x.epochs[e] = a.epochs[e]
      /\ x = [records |-> a.records, epochs |-> x.epochs, active |-> N + 1]
  BY <1>1
<1> HIDE DEF x, N
<1>3. \A e \in 1 .. N + 1 : e # N + 1 => e \in 1 .. N
  BY <1>1
<1>4. AuthorityType(x, A)
  BY <1>1, <1>2 DEF AuthorityType
<1>5. StatusLaw(x)
  <2>1. \A e \in 1 .. N : a.epochs[e].status \in {"RETIRED", "REVOKED"}
    BY <1>1 DEF Lawful, StatusLaw, N
  <2> QED BY <1>2, <1>3, <2>1 DEF StatusLaw
<1>6. KeyLaw(x)
  <2>1. \A e \in 1 .. N : a.epochs[e].key # c.key
    BY <1>1 DEF TrustedKeys
  <2>2. \A e, f \in 1 .. N : a.epochs[e].key = a.epochs[f].key => e = f
    BY <1>1 DEF Lawful, KeyLaw
  <2> SUFFICES ASSUME NEW e \in 1 .. N + 1, NEW f \in 1 .. N + 1, x.epochs[e].key = x.epochs[f].key
               PROVE  e = f
    BY <1>2 DEF KeyLaw
  <2>3. CASE e \in 1 .. N /\ f \in 1 .. N
    BY <1>2, <2>2, <2>3
  <2>4. CASE e = N + 1 /\ f \in 1 .. N
    BY <1>2, <2>1, <2>4
  <2>5. CASE e \in 1 .. N /\ f = N + 1
    BY <1>2, <2>1, <2>5
  <2> QED BY <1>3, <2>3, <2>4, <2>5
<1>7. WindowLaw(x, n)
  <2> SUFFICES ASSUME NEW e \in 1 .. N + 1
               PROVE  /\ Len(x.epochs[e].windows) > 0
                      /\ \A i \in DOMAIN x.epochs[e].windows :
                           /\ x.epochs[e].windows[i].start < n
                           /\ x.epochs[e].windows[i].end # None => x.epochs[e].windows[i].end < n
                           /\ x.epochs[e].windows[i].end = None <=>
                                (e = N + 1 /\ i = Len(x.epochs[e].windows))
    BY <1>2 DEF WindowLaw
  <2>1. CASE e = N + 1
    <3>1. c.windows \in Seq(Windows)
      BY DEF EpochRecords
    <3>2. \A i \in DOMAIN c.windows : i = 1
      BY <3>1
    <3>3. x.epochs[e] = c
      BY <1>2, <2>1
    <3>4. /\ Len(c.windows) > 0
          /\ \A i \in DOMAIN c.windows :
               /\ c.windows[i].start < n
               /\ c.windows[i].end # None => c.windows[i].end < n
               /\ c.windows[i].end = None <=> i = Len(c.windows)
      BY <3>2
    <3> QED BY <2>1, <3>3, <3>4
  <2>2. CASE e # N + 1
    <3>1. e \in 1 .. N /\ e # a.active /\ e \in DOMAIN a.epochs
      BY <1>1, <1>3, <2>2
    <3>2. x.epochs[e] = a.epochs[e]
      BY <1>2, <3>1
    <3>3. /\ Len(a.epochs[e].windows) > 0
          /\ \A i \in DOMAIN a.epochs[e].windows :
               /\ a.epochs[e].windows[i].start < n
               /\ a.epochs[e].windows[i].end # None
               /\ a.epochs[e].windows[i].end < n
      BY <3>1 DEF Lawful, WindowLaw
    <3> QED BY <2>2, <3>2, <3>3
  <2> QED BY <2>1, <2>2
<1>8. SignerLaw(x)
  <2> SUFFICES ASSUME NEW e \in 1 .. N + 1, NEW f \in 1 .. N + 1, NEW seq \in Nat,
                      SequenceAuthorized(x.epochs[e], seq), SequenceAuthorized(x.epochs[f], seq)
               PROVE  e = f
    BY <1>2 DEF SignerLaw
  <2>1. CASE seq < n
    <3>1. e \in 1 .. N /\ f \in 1 .. N
      BY <1>2, <1>3, <2>1
    <3> QED BY <1>1, <1>2, <3>1 DEF Lawful, SignerLaw
  <2>2. CASE seq >= n
    BY <1>2, <1>4, <1>7, <2>2, ActiveSignsNext
  <2> QED BY <2>1, <2>2
<1> QED BY <1>4, <1>5, <1>6, <1>7, <1>8 DEF Lawful, x, N

(* The ways a record is accepted, and the authority each leads to. *)
LEMMA AcceptedRecord ==
  ASSUME NEW A, NEW a, NEW n \in Nat, Lawful(a, n, A),
         NEW r \in LifecycleRecords(A), r.action \in Actions, Accepts(a, r)
  PROVE  \/ /\ GeneratesKey(r.action)
            /\ r.key \notin TrustedKeys(a)
            /\ ClosedStatus(r.action) \in {"RETIRED", "REVOKED"}
            /\ Apply(a, r) =
                 [records |-> Append(a.records, r),
                  epochs  |-> Append([a.epochs EXCEPT ![Len(a.epochs)] = ClosedBy(a, r)],
                                     NewEpoch(r.key, r.boundary)),
                  active  |-> Len(a.epochs) + 1]
         \/ /\ r.action \in {"SUSPEND", "REVOKE"}
            /\ Latest(a).status \notin {"RETIRED", "REVOKED"}
            /\ Apply(a, r) =
                 [records |-> Append(a.records, r),
                  epochs  |-> [a.epochs EXCEPT ![Len(a.epochs)] = ClosedBy(a, r)],
                  active  |-> 0]
         \/ /\ r.action = "RESUME"
            /\ a.active # Len(a.epochs)
            /\ Latest(a).status = "SUSPENDED"
            /\ Apply(a, r) =
                 [records |-> Append(a.records, r),
                  epochs  |-> [a.epochs EXCEPT ![Len(a.epochs)] = ResumedBy(a, r)],
                  active  |-> Len(a.epochs)]
<1>1. /\ a.active \in {0, Len(a.epochs)} /\ Len(a.epochs) # 0
      /\ Latest(a) = a.epochs[Len(a.epochs)] /\ Len(a.epochs) \in DOMAIN a.epochs
  BY DEF Lawful, AuthorityType, Latest, LatestEpoch
<1>2. AuthorityType(a, A)
  BY DEF Lawful
<1>3. CASE GeneratesKey(r.action)
  <2>1. r.key \notin TrustedKeys(a) /\ r.epoch = Len(a.epochs) + 1
    BY <1>3 DEF Accepts, GeneratesKey, LatestEpoch
  <2>2. ClosedStatus(r.action) \in {"RETIRED", "REVOKED"}
    BY <1>3 DEF ClosedStatus, GeneratesKey
  <2>3. EpochsAfter(a, r) = Append([a.epochs EXCEPT ![Len(a.epochs)] = ClosedBy(a, r)],
                                   NewEpoch(r.key, r.boundary))
    BY <1>2, <1>3, EpochsAfterShape
  <2>4. r.action \notin {"SUSPEND", "REVOKE"}
    BY <1>3 DEF GeneratesKey
  <2> QED BY <1>3, <2>1, <2>2, <2>3, <2>4 DEF Apply
<1>4. CASE r.action \in {"SUSPEND", "REVOKE"}
  <2>1. Latest(a).status \notin {"RETIRED", "REVOKED"}
    <3>1. CASE r.action = "REVOKE"
      BY <3>1 DEF Accepts, GeneratesKey
    <3>2. CASE r.action = "SUSPEND"
      <4>1. a.active = Len(a.epochs)
        BY <1>1, <3>2 DEF Accepts, GeneratesKey
      <4> QED BY <1>1, <4>1 DEF Lawful, StatusLaw
    <3> QED BY <1>4, <3>1, <3>2
  <2>2. EpochsAfter(a, r) = [a.epochs EXCEPT ![Len(a.epochs)] = ClosedBy(a, r)]
    BY <1>2, <1>4, EpochsAfterShape
  <2> QED BY <1>4, <2>1, <2>2 DEF Apply
<1>5. CASE r.action = "RESUME"
  <2>1. a.active = 0 /\ r.epoch = Len(a.epochs) /\ Latest(a).status = "SUSPENDED"
    BY <1>5 DEF Accepts, GeneratesKey, LatestEpoch
  <2>2. EpochsAfter(a, r) = [a.epochs EXCEPT ![Len(a.epochs)] = ResumedBy(a, r)]
    BY <1>2, <1>5, EpochsAfterShape
  <2> QED BY <1>1, <1>5, <2>1, <2>2 DEF Apply
<1> QED BY <1>3, <1>4, <1>5 DEF Actions, GeneratesKey

LEMMA ApplyLawful ==
  ASSUME NEW A, NEW a, NEW n \in Nat, Lawful(a, n, A),
         NEW r \in LifecycleRecords(A), r.action \in Actions, r.boundary.seq = n - 1,
         Accepts(a, r)
  PROVE  Lawful(Apply(a, r), n, A)
<1> DEFINE N == Len(a.epochs)
           c == ClosedBy(a, r)
           records == Append(a.records, r)
           closed == [records |-> records, epochs |-> [a.epochs EXCEPT ![N] = c], active |-> 0]
<1>1. /\ a.epochs \in Seq(EpochRecords(A)) /\ N \in DOMAIN a.epochs /\ N \in Nat /\ N # 0
      /\ records \in Seq(LifecycleRecords(A)) /\ records # <<>>
  BY DEF Lawful, AuthorityType
<1>2. /\ c \in EpochRecords(A)
      /\ c.key = Latest(a).key
      /\ c.status \in {"RETIRED", "SUSPENDED", "REVOKED"}
      /\ c.status = ClosedStatus(r.action)
      /\ Len(c.windows) > 0
      /\ \A i \in DOMAIN c.windows :
           c.windows[i].start < n /\ c.windows[i].end # None /\ c.windows[i].end < n
      /\ \A seq \in Nat :
           SequenceAuthorized(c, seq) <=> seq < n /\ SequenceAuthorized(Latest(a), seq)
  BY ClosedByShape
<1> HIDE DEF c, records
<1>3. Lawful(closed, n, A)
  <2>1. 0 \in {0, N} /\ (c.status = "ACTIVE" <=> 0 = N)
    BY <1>1, <1>2
  <2>2. \A i \in DOMAIN c.windows :
          /\ c.windows[i].start < n
          /\ c.windows[i].end # None => c.windows[i].end < n
          /\ c.windows[i].end = None <=> (0 = N /\ i = Len(c.windows))
    BY <1>1, <1>2
  <2>3. \A seq \in Nat :
          seq < n => (SequenceAuthorized(c, seq) <=> SequenceAuthorized(Latest(a), seq))
    BY <1>2
  <2> QED BY <1>1, <1>2, <2>1, <2>2, <2>3, LatestReplaced
<1>4. CASE /\ r.action \in {"SUSPEND", "REVOKE"}
           /\ Apply(a, r) = closed
  BY <1>3, <1>4
<1>5. CASE /\ r.action = "RESUME"
           /\ a.active # N
           /\ Apply(a, r) = [records |-> records,
                             epochs  |-> [a.epochs EXCEPT ![N] = ResumedBy(a, r)],
                             active  |-> N]
  <2> DEFINE d == ResumedBy(a, r)
  <2>1. /\ d \in EpochRecords(A)
        /\ d.key = Latest(a).key
        /\ d.status = "ACTIVE"
        /\ Len(d.windows) > 0
        /\ \A i \in DOMAIN d.windows :
             /\ d.windows[i].start < n
             /\ d.windows[i].end # None => d.windows[i].end < n
             /\ d.windows[i].end = None <=> i = Len(d.windows)
        /\ \A seq \in Nat :
             seq < n => (SequenceAuthorized(d, seq) <=> SequenceAuthorized(Latest(a), seq))
    BY <1>5, ResumedByShape
  <2> HIDE DEF d
  <2>2. N \in {0, N} /\ (d.status = "ACTIVE" <=> N = N)
    BY <2>1
  <2>3. \A i \in DOMAIN d.windows :
          /\ d.windows[i].start < n
          /\ d.windows[i].end # None => d.windows[i].end < n
          /\ d.windows[i].end = None <=> (N = N /\ i = Len(d.windows))
    BY <2>1
  <2>4. Lawful([records |-> records, epochs |-> [a.epochs EXCEPT ![N] = d], active |-> N], n, A)
    BY <1>1, <2>1, <2>2, <2>3, LatestReplaced
  <2> QED BY <1>5, <2>4 DEF d
<1>6. CASE /\ GeneratesKey(r.action)
           /\ r.key \notin TrustedKeys(a)
           /\ ClosedStatus(r.action) \in {"RETIRED", "REVOKED"}
           /\ Apply(a, r) = [records |-> records,
                             epochs  |-> Append([a.epochs EXCEPT ![N] = c],
                                                NewEpoch(r.key, r.boundary)),
                             active  |-> N + 1]
  <2> DEFINE d == NewEpoch(r.key, r.boundary)
  <2>1. r.key \in Nat /\ None \in A
    BY DEF LifecycleRecords, Lawful, AuthorityType
  <2>2. /\ d \in EpochRecords(A)
        /\ d.key = r.key
        /\ d.status = "ACTIVE"
        /\ Len(d.windows) = 1
        /\ d.windows[1].start < n
        /\ d.windows[1].end = None
        /\ \A seq \in Nat : seq < n => ~ SequenceAuthorized(d, seq)
    BY <2>1, NewEpochShape
  <2> HIDE DEF d
  <2>3. /\ closed.records = records /\ closed.active = 0
        /\ closed.epochs = [a.epochs EXCEPT ![N] = c]
        /\ Len(closed.epochs) = N /\ DOMAIN closed.epochs = DOMAIN a.epochs
        /\ closed.epochs[N] = c
        /\ \A e \in DOMAIN a.epochs : e # N => closed.epochs[e] = a.epochs[e]
    BY <1>1, <1>2
  <2> HIDE DEF closed
  <2>4. Latest(closed) = c
    BY <2>3 DEF Latest, LatestEpoch
  <2>5. \A e \in DOMAIN a.epochs : closed.epochs[e].key = a.epochs[e].key
    BY <1>2, <2>3 DEF Latest, LatestEpoch
  <2>6. TrustedKeys(closed) = TrustedKeys(a)
    BY <2>3, <2>5 DEF TrustedKeys
  <2>7. Latest(closed).status \in {"RETIRED", "REVOKED"} /\ d.key \notin TrustedKeys(closed)
    BY <1>2, <1>6, <2>2, <2>4, <2>6
  <2>8. Lawful([records |-> closed.records, epochs |-> Append(closed.epochs, d),
                active |-> Len(closed.epochs) + 1], n, A)
    BY <1>3, <2>2, <2>3, <2>7, EpochAdded
  <2> QED BY <1>6, <2>3, <2>8 DEF d
<1> QED BY <1>4, <1>5, <1>6, AcceptedRecord DEF c, records

(* What the log relied on stays: keys, the coverage of what is in the log,  *)
(* and everything about a closed epoch.                                     *)
LEMMA ApplyKeepsEpochs ==
  ASSUME NEW A, NEW a, NEW n \in Nat, Lawful(a, n, A),
         NEW r \in LifecycleRecords(A), r.action \in Actions, r.boundary.seq = n - 1,
         Accepts(a, r),
         NEW e \in DOMAIN a.epochs
  PROVE  LET b == Apply(a, r) IN
         /\ e \in DOMAIN b.epochs
         /\ b.epochs[e].key = a.epochs[e].key
         /\ \A seq \in Nat :
              seq < n => (SequenceAuthorized(b.epochs[e], seq) <=> SequenceAuthorized(a.epochs[e], seq))
         /\ a.epochs[e].status \in {"RETIRED", "REVOKED"} =>
              /\ b.epochs[e].status \in {"RETIRED", "REVOKED"}
              /\ b.epochs[e].windows = a.epochs[e].windows
<1> DEFINE N == Len(a.epochs)
           b == Apply(a, r)
           c == ClosedBy(a, r)
<1>1. /\ a.epochs \in Seq(EpochRecords(A)) /\ N \in DOMAIN a.epochs /\ N \in Nat
      /\ DOMAIN a.epochs = 1 .. N /\ a.epochs[N] = Latest(a) /\ a.active \in {0, N}
  BY DEF Lawful, AuthorityType, Latest, LatestEpoch
<1>2. /\ c.key = Latest(a).key
      /\ c.status = ClosedStatus(r.action)
      /\ \A seq \in Nat :
           seq < n => (SequenceAuthorized(c, seq) <=> SequenceAuthorized(Latest(a), seq))
      /\ a.active # N => c.windows = Latest(a).windows
  BY ClosedByShape
<1>3. Latest(a).status \in {"RETIRED", "REVOKED"} => a.active # N
  BY <1>1 DEF Lawful, StatusLaw
<1> SUFFICES
      /\ e \in DOMAIN b.epochs
      /\ b.epochs[e].key = a.epochs[e].key
      /\ \A seq \in Nat :
           seq < n => (SequenceAuthorized(b.epochs[e], seq) <=> SequenceAuthorized(a.epochs[e], seq))
      /\ a.epochs[e].status \in {"RETIRED", "REVOKED"} =>
           /\ b.epochs[e].status \in {"RETIRED", "REVOKED"}
           /\ b.epochs[e].windows = a.epochs[e].windows
  OBVIOUS
<1> HIDE DEF b, c
<1>4. CASE /\ GeneratesKey(r.action)
           /\ ClosedStatus(r.action) \in {"RETIRED", "REVOKED"}
           /\ b.epochs = Append([a.epochs EXCEPT ![N] = c], NewEpoch(r.key, r.boundary))
  <2>1. e \in DOMAIN b.epochs /\ (e # N => b.epochs[e] = a.epochs[e]) /\ b.epochs[N] = c
    BY <1>1, <1>4
  <2> QED BY <1>1, <1>2, <1>3, <1>4, <2>1
<1>5. CASE /\ Latest(a).status \notin {"RETIRED", "REVOKED"}
           /\ b.epochs = [a.epochs EXCEPT ![N] = c]
  <2>1. e \in DOMAIN b.epochs /\ (e # N => b.epochs[e] = a.epochs[e]) /\ b.epochs[N] = c
    BY <1>1, <1>5
  <2> QED BY <1>1, <1>2, <1>5, <2>1
<1>6. CASE /\ a.active # N
           /\ Latest(a).status = "SUSPENDED"
           /\ b.epochs = [a.epochs EXCEPT ![N] = ResumedBy(a, r)]
  <2>1. /\ e \in DOMAIN b.epochs /\ (e # N => b.epochs[e] = a.epochs[e])
        /\ b.epochs[N] = ResumedBy(a, r)
    BY <1>1, <1>6
  <2>2. /\ ResumedBy(a, r).key = Latest(a).key
        /\ \A seq \in Nat :
             seq < n => (SequenceAuthorized(ResumedBy(a, r), seq) <=> SequenceAuthorized(Latest(a), seq))
    BY <1>6, ResumedByShape
  <2> QED BY <1>1, <1>6, <2>1, <2>2
<1> QED BY <1>4, <1>5, <1>6, AcceptedRecord DEF b, c

(* What becomes of the epochs: the lifecycle grows by at most one, only the *)
(* latest changes, and it is closed for good exactly when its key retires.  *)
LEMMA ApplyMovesEpochs ==
  ASSUME NEW A, NEW a, NEW n \in Nat, Lawful(a, n, A),
         NEW r \in LifecycleRecords(A), r.action \in Actions, r.boundary.seq = n - 1,
         Accepts(a, r)
  PROVE  LET b == Apply(a, r)
             N == Len(a.epochs) IN
         /\ b.records = Append(a.records, r)
         /\ Len(b.epochs) = IF GeneratesKey(r.action) THEN N + 1 ELSE N
         /\ GeneratesKey(r.action) =>
              b.epochs[N + 1].key = r.key /\ b.epochs[N + 1].status = "ACTIVE"
         /\ RetiresKey(r.action) => b.epochs[N].status \in {"RETIRED", "REVOKED"}
         /\ \A e \in DOMAIN a.epochs : b.epochs[e].status \in {"ACTIVE", "SUSPENDED"} =>
              a.epochs[e].status \in {"ACTIVE", "SUSPENDED"}
         /\ \A e \in DOMAIN a.epochs : a.epochs[e].status \in {"ACTIVE", "SUSPENDED"} =>
              \/ b.epochs[e].status \in {"ACTIVE", "SUSPENDED"}
              \/ e = N /\ RetiresKey(r.action)
<1> DEFINE N == Len(a.epochs)
           b == Apply(a, r)
           c == ClosedBy(a, r)
           d == NewEpoch(r.key, r.boundary)
           live == {"ACTIVE", "SUSPENDED"}
<1>1. /\ a.epochs \in Seq(EpochRecords(A)) /\ N \in DOMAIN a.epochs /\ N \in Nat
      /\ DOMAIN a.epochs = 1 .. N /\ a.epochs[N] = Latest(a) /\ N > 0
  BY DEF Lawful, AuthorityType, Latest, LatestEpoch
<1>2. Latest(a).status \in Statuses
  <2>1. Latest(a) \in EpochRecords(A)
    BY <1>1
  <2> QED BY <2>1 DEF EpochRecords
<1>3. c.status = ClosedStatus(r.action)
  BY ClosedByShape
<1>4. d.key = r.key /\ d.status = "ACTIVE"
  BY DEF NewEpoch
<1>5. b.records = Append(a.records, r)
  BY DEF Apply
<1> SUFFICES
      /\ Len(b.epochs) = IF GeneratesKey(r.action) THEN N + 1 ELSE N
      /\ GeneratesKey(r.action) => b.epochs[N + 1].key = r.key /\ b.epochs[N + 1].status = "ACTIVE"
      /\ RetiresKey(r.action) => b.epochs[N].status \in {"RETIRED", "REVOKED"}
      /\ \A e \in DOMAIN a.epochs : b.epochs[e].status \in live => a.epochs[e].status \in live
      /\ \A e \in DOMAIN a.epochs : a.epochs[e].status \in live =>
           b.epochs[e].status \in live \/ (e = N /\ RetiresKey(r.action))
  BY <1>5
<1> HIDE DEF b, c, d, N
<1>6. CASE /\ GeneratesKey(r.action)
           /\ ClosedStatus(r.action) \in {"RETIRED", "REVOKED"}
           /\ b.epochs = Append([a.epochs EXCEPT ![N] = c], d)
  <2>1. /\ Len(b.epochs) = N + 1 /\ b.epochs[N + 1] = d /\ b.epochs[N] = c
        /\ \A e \in DOMAIN a.epochs : e # N => b.epochs[e] = a.epochs[e]
    BY <1>1, <1>6
  <2>2. RetiresKey(r.action)
    BY <1>6 DEF GeneratesKey, RetiresKey
  <2> QED BY <1>3, <1>4, <1>6, <2>1, <2>2
<1>7. CASE /\ r.action \in {"SUSPEND", "REVOKE"}
           /\ Latest(a).status \notin {"RETIRED", "REVOKED"}
           /\ b.epochs = [a.epochs EXCEPT ![N] = c]
  <2>1. /\ Len(b.epochs) = N /\ b.epochs[N] = c
        /\ \A e \in DOMAIN a.epochs : e # N => b.epochs[e] = a.epochs[e]
    BY <1>1, <1>7
  <2>2. a.epochs[N].status \in live
    BY <1>1, <1>2, <1>7 DEF Statuses
  <2>3. ~GeneratesKey(r.action)
    BY <1>7 DEF GeneratesKey
  <2>4. /\ RetiresKey(r.action) => c.status = "REVOKED"
        /\ ~RetiresKey(r.action) => c.status = "SUSPENDED"
    BY <1>3, <1>7 DEF RetiresKey, ClosedStatus
  <2> QED BY <2>1, <2>2, <2>3, <2>4
<1>8. CASE /\ r.action = "RESUME"
           /\ Latest(a).status = "SUSPENDED"
           /\ b.epochs = [a.epochs EXCEPT ![N] = ResumedBy(a, r)]
  <2>1. /\ Len(b.epochs) = N /\ b.epochs[N] = ResumedBy(a, r)
        /\ \A e \in DOMAIN a.epochs : e # N => b.epochs[e] = a.epochs[e]
    BY <1>1, <1>8
  <2>2. ResumedBy(a, r).status = "ACTIVE"
    BY DEF ResumedBy
  <2>3. ~GeneratesKey(r.action) /\ ~RetiresKey(r.action)
    BY <1>8 DEF GeneratesKey, RetiresKey
  <2> QED BY <1>1, <1>8, <2>1, <2>2, <2>3
<1> QED BY <1>6, <1>7, <1>8, AcceptedRecord DEF b, c, d, N
----------------------------------------------------------------------------
(* Two more laws, about what a lifecycle says of its own past *)

(* More anchors may be carried than are. *)
LEMMA MoreAnchors ==
  ASSUME NEW A, NEW B, A \subseteq B, NEW a, NEW n, Lawful(a, n, A)
  PROVE  Lawful(a, n, B)
<1>1. LifecycleRecords(A) \subseteq LifecycleRecords(B) /\ EpochRecords(A) \subseteq EpochRecords(B)
  BY DEF LifecycleRecords, EpochRecords
<1>2. /\ Seq(LifecycleRecords(A)) \subseteq Seq(LifecycleRecords(B))
      /\ Seq(EpochRecords(A)) \subseteq Seq(EpochRecords(B))
  BY <1>1
<1>3. AuthorityType(a, B)
  <2>1. /\ a \in [records : Seq(LifecycleRecords(A)), epochs : Seq(EpochRecords(A)), active : Nat]
        /\ None \in B /\ a.records # <<>> /\ a.epochs # <<>> /\ a.active \in {0, Len(a.epochs)}
    BY DEF Lawful, AuthorityType
  <2>2. a \in [records : Seq(LifecycleRecords(B)), epochs : Seq(EpochRecords(B)), active : Nat]
    BY <1>2, <2>1
  <2> QED BY <2>1, <2>2 DEF AuthorityType
<1> QED BY <1>3 DEF Lawful

(* Windows end in their order, and only the last can be open. *)
EndsInOrder(windows) ==
  \A i, j \in DOMAIN windows :
    i <= j /\ windows[j].end # None =>
      windows[i].end # None /\ windows[i].end <= windows[j].end

EndsLaw(a) == \A e \in DOMAIN a.epochs : EndsInOrder(a.epochs[e].windows)

(* Every epoch is named, with its key, by a record. *)
NamesLaw(a) ==
  /\ \A i \in DOMAIN a.records :
       /\ a.records[i].epoch \in DOMAIN a.epochs
       /\ a.epochs[a.records[i].epoch].key = a.records[i].key
  /\ \A e \in DOMAIN a.epochs : \E i \in DOMAIN a.records : a.records[i].epoch = e

LEMMA ClosedEndsInOrder ==
  ASSUME NEW A, NEW a, NEW n \in Nat, Lawful(a, n, A), EndsLaw(a),
         NEW r \in LifecycleRecords(A), r.action \in Actions, r.boundary.seq = n - 1
  PROVE  EndsInOrder(ClosedBy(a, r).windows)
<1> DEFINE e == Latest(a)
           last == Len(e.windows)
           c == ClosedBy(a, r)
<1>1. /\ e \in EpochRecords(A)
      /\ last \in DOMAIN e.windows /\ DOMAIN e.windows = 1 .. last
      /\ \A i \in DOMAIN e.windows :
           /\ e.windows[i] \in Windows
           /\ e.windows[i].end # None => e.windows[i].end < n
           /\ e.windows[i].end = None <=> (a.active = Len(a.epochs) /\ i = last)
      /\ EndsInOrder(e.windows)
  BY LatestIsLawful DEF EndsLaw
<1>2. /\ r.boundary.seq \in Int /\ last > 0 /\ ClosedStatus(r.action) \in Statuses
      /\ r.anchor \in A
  BY <1>1, ClosingClosed DEF Statuses, LifecycleRecords
<1>3. /\ DOMAIN c.windows = DOMAIN e.windows
      /\ \A i \in DOMAIN e.windows : i # last => c.windows[i] = e.windows[i]
      /\ c.windows[last].end = IF e.windows[last].end = None THEN r.boundary.seq
                               ELSE e.windows[last].end
  BY <1>1, <1>2, CloseEpochShape DEF ClosedBy
<1> HIDE DEF e, last, c
<1>4. CASE e.windows[last].end # None
  <2>1. \A i \in DOMAIN e.windows : c.windows[i].end = e.windows[i].end
    BY <1>3, <1>4
  <2> QED BY <1>1, <1>3, <2>1 DEF EndsInOrder, c
<1>5. CASE e.windows[last].end = None
  <2>1. c.windows[last].end = n - 1 /\ n - 1 # None
    BY <1>3, <1>5, NoneIsNoNumber
  <2> SUFFICES ASSUME NEW i \in 1 .. last, NEW j \in 1 .. last, i <= j, c.windows[j].end # None
               PROVE  c.windows[i].end # None /\ c.windows[i].end <= c.windows[j].end
    BY <1>1, <1>3 DEF EndsInOrder, c
  <2>2. CASE i = last
    <3>1. j = last
      BY <1>2, <2>2
    <3> QED BY <2>1, <2>2, <3>1
  <2>3. CASE i # last /\ j = last
    <3>1. c.windows[i].end = e.windows[i].end /\ e.windows[i].end # None
      BY <1>1, <1>3, <2>3
    <3>2. e.windows[i].end \in Int /\ e.windows[i].end < n
      BY <1>1, <3>1 DEF Windows
    <3> QED BY <2>1, <2>3, <3>1, <3>2
  <2>4. CASE i # last /\ j # last
    BY <1>1, <1>3, <2>4 DEF EndsInOrder
  <2> QED BY <2>2, <2>3, <2>4
<1> QED BY <1>4, <1>5

LEMMA ApplyKeepsOrder ==
  ASSUME NEW A, NEW a, NEW n \in Nat, Lawful(a, n, A), EndsLaw(a),
         NEW r \in LifecycleRecords(A), r.action \in Actions, r.boundary.seq = n - 1,
         Accepts(a, r)
  PROVE  EndsLaw(Apply(a, r))
<1> DEFINE N == Len(a.epochs)
           b == Apply(a, r)
           c == ClosedBy(a, r)
           d == NewEpoch(r.key, r.boundary)
           f == ResumedBy(a, r)
<1>1. /\ a.epochs \in Seq(EpochRecords(A)) /\ N \in DOMAIN a.epochs /\ N \in Nat
      /\ DOMAIN a.epochs = 1 .. N /\ a.epochs[N] = Latest(a)
  BY DEF Lawful, AuthorityType, Latest, LatestEpoch
<1>2. EndsInOrder(c.windows)
  BY ClosedEndsInOrder
<1>3. EndsInOrder(d.windows)
  <2>1. d.windows = <<[start |-> r.boundary.seq, end |-> None]>>
    BY DEF NewEpoch, OpenWindow
  <2> QED BY <2>1 DEF EndsInOrder
<1>4. EndsInOrder(f.windows)
  <2> DEFINE w == Latest(a).windows
             o == OpenWindow(r.boundary)
  <2>1. w \in Seq(Windows) /\ EndsInOrder(w)
    <3>1. Latest(a) \in EpochRecords(A)
      BY <1>1
    <3> QED BY <1>1, <3>1 DEF EpochRecords, EndsLaw
  <2>2. f.windows = Append(w, o) /\ o.end = None
    BY DEF ResumedBy, OpenWindow
  <2> HIDE DEF w, o, f
  <2>3. /\ DOMAIN f.windows = 1 .. Len(w) + 1 /\ Len(w) \in Nat /\ DOMAIN w = 1 .. Len(w)
        /\ \A i \in 1 .. Len(w) : f.windows[i] = w[i]
        /\ f.windows[Len(w) + 1] = o
    BY <2>1, <2>2
  <2> SUFFICES ASSUME NEW i \in 1 .. Len(w) + 1, NEW j \in 1 .. Len(w) + 1,
                      i <= j, f.windows[j].end # None
               PROVE  f.windows[i].end # None /\ f.windows[i].end <= f.windows[j].end
    BY <2>3 DEF EndsInOrder, f
  <2>4. i \in 1 .. Len(w) /\ j \in 1 .. Len(w)
    BY <2>2, <2>3
  <2> QED BY <2>1, <2>3, <2>4 DEF EndsInOrder
<1> HIDE DEF b, c, d, f
<1>5. CASE b.epochs = Append([a.epochs EXCEPT ![N] = c], d)
  <2>1. /\ DOMAIN b.epochs = 1 .. N + 1 /\ b.epochs[N + 1] = d /\ b.epochs[N] = c
        /\ \A e \in DOMAIN a.epochs : e # N => b.epochs[e] = a.epochs[e]
    BY <1>1, <1>5
  <2> QED BY <1>1, <1>2, <1>3, <2>1 DEF EndsLaw, b
<1>6. CASE b.epochs = [a.epochs EXCEPT ![N] = c]
  <2>1. /\ DOMAIN b.epochs = 1 .. N /\ b.epochs[N] = c
        /\ \A e \in DOMAIN a.epochs : e # N => b.epochs[e] = a.epochs[e]
    BY <1>1, <1>6
  <2> QED BY <1>1, <1>2, <2>1 DEF EndsLaw, b
<1>7. CASE b.epochs = [a.epochs EXCEPT ![N] = f]
  <2>1. /\ DOMAIN b.epochs = 1 .. N /\ b.epochs[N] = f
        /\ \A e \in DOMAIN a.epochs : e # N => b.epochs[e] = a.epochs[e]
    BY <1>1, <1>7
  <2> QED BY <1>1, <1>4, <2>1 DEF EndsLaw, b
<1> QED BY <1>5, <1>6, <1>7, AcceptedRecord DEF b, c, d, f

LEMMA ApplyKeepsNames ==
  ASSUME NEW A, NEW a, NEW n \in Nat, Lawful(a, n, A), NamesLaw(a),
         NEW r \in LifecycleRecords(A), r.action \in Actions, r.boundary.seq = n - 1,
         Accepts(a, r),
         ~GeneratesKey(r.action) => r.epoch = Len(a.epochs) /\ r.key = Latest(a).key
  PROVE  NamesLaw(Apply(a, r))
<1> DEFINE N == Len(a.epochs)
           M == Len(a.records)
           b == Apply(a, r)
<1>1. /\ a.epochs \in Seq(EpochRecords(A)) /\ N \in DOMAIN a.epochs /\ N \in Nat
      /\ DOMAIN a.epochs = 1 .. N /\ a.epochs[N] = Latest(a)
      /\ a.records \in Seq(LifecycleRecords(A)) /\ M \in Nat /\ DOMAIN a.records = 1 .. M
  BY DEF Lawful, AuthorityType, Latest, LatestEpoch
<1>2. /\ b.records = Append(a.records, r)
      /\ Len(b.epochs) = IF GeneratesKey(r.action) THEN N + 1 ELSE N
      /\ GeneratesKey(r.action) => b.epochs[N + 1].key = r.key
  BY ApplyMovesEpochs
<1>3. \A e \in 1 .. N : e \in DOMAIN b.epochs /\ b.epochs[e].key = a.epochs[e].key
  BY <1>1, ApplyKeepsEpochs
<1>4. b.epochs \in Seq(EpochRecords(A))
  <2>1. Lawful(b, n, A)
    BY ApplyLawful
  <2> QED BY <2>1 DEF Lawful, AuthorityType
<1> HIDE DEF b, N, M
<1>5. DOMAIN b.epochs = 1 .. (IF GeneratesKey(r.action) THEN N + 1 ELSE N)
  BY <1>2, <1>4
<1>6. /\ DOMAIN b.records = 1 .. M + 1 /\ b.records[M + 1] = r
      /\ \A i \in 1 .. M : b.records[i] = a.records[i]
  BY <1>1, <1>2 DEF M
<1>7. r.epoch \in DOMAIN b.epochs /\ b.epochs[r.epoch].key = r.key
  <2>1. CASE GeneratesKey(r.action)
    <3>1. r.epoch = N + 1
      BY <2>1 DEF Accepts, GeneratesKey, LatestEpoch, N
    <3> QED BY <1>1, <1>2, <1>5, <2>1, <3>1
  <2>2. CASE ~GeneratesKey(r.action)
    BY <1>1, <1>3, <2>2 DEF N
  <2> QED BY <2>1, <2>2
<1>8. /\ \A i \in 1 .. M : a.records[i].epoch \in 1 .. N
      /\ \A i \in 1 .. M : a.epochs[a.records[i].epoch].key = a.records[i].key
      /\ \A e \in 1 .. N : \E i \in 1 .. M : a.records[i].epoch = e
  BY <1>1 DEF NamesLaw
<1>9. \A i \in DOMAIN b.records :
        b.records[i].epoch \in DOMAIN b.epochs /\ b.epochs[b.records[i].epoch].key = b.records[i].key
  <2> TAKE i \in DOMAIN b.records
  <2>1. CASE i \in 1 .. M
    BY <1>3, <1>6, <1>8, <2>1
  <2>2. CASE i = M + 1
    BY <1>6, <1>7, <2>2
  <2> QED BY <1>1, <1>6, <2>1, <2>2
<1>10. \A e \in DOMAIN b.epochs : \E i \in DOMAIN b.records : b.records[i].epoch = e
  <2> TAKE e \in DOMAIN b.epochs
  <2>1. CASE e \in 1 .. N
    <3>1. PICK i \in 1 .. M : a.records[i].epoch = e
      BY <1>8, <2>1
    <3>2. i \in DOMAIN b.records /\ b.records[i] = a.records[i]
      BY <1>1, <1>6
    <3> QED BY <3>1, <3>2
  <2>2. CASE e = N + 1 /\ GeneratesKey(r.action)
    <3>1. r.epoch = N + 1
      BY <2>2 DEF Accepts, GeneratesKey, LatestEpoch, N
    <3>2. M + 1 \in DOMAIN b.records
      BY <1>1, <1>6
    <3> QED BY <1>6, <2>2, <3>1, <3>2
  <2> QED BY <1>1, <1>5, <2>1, <2>2
<1> QED BY <1>9, <1>10 DEF NamesLaw, b

----------------------------------------------------------------------------
(* Evidence under a lifecycle: verification survives a receipt by the       *)
(* active key, and a record at the head of the log.                         *)

LEMMA HeadOfVerified ==
  ASSUME NEW S, NEW rs \in Seq(S), NEW trust, VerifyChain(rs, trust)
  PROVE  HeadBoundary(rs) =
           Boundary(Len(rs) - 1, IF Len(rs) = 0 THEN None ELSE rs[Len(rs)].id)
<1>1. CASE rs = <<>>
  BY <1>1 DEF HeadBoundary, EmptyBoundary, Boundary
<1>2. CASE rs # <<>>
  <2>1. Len(rs) \in DOMAIN rs /\ Len(rs) > 0
    BY <1>2
  <2>2. rs[Len(rs)].seq = Len(rs) - 1
    BY <2>1 DEF VerifyChain
  <2> QED BY <1>2, <2>1, <2>2 DEF HeadBoundary, Boundary
<1> QED BY <1>1, <1>2

LEMMA EvidenceGrows ==
  ASSUME NEW A, NEW a, NEW S, NEW rs \in Seq(S), Lawful(a, Len(rs), A), VerifyBPlus(rs, a),
         a.active # 0,
         NEW r \in S, r.seq = HeadBoundary(rs).seq + 1, r.prev = HeadBoundary(rs).id,
         r.key = ActiveKey(a), \A i \in DOMAIN rs : rs[i].id # r.id
  PROVE  VerifyBPlus(Append(rs, r), a)
<1> DEFINE n    == Len(rs)
           more == Append(rs, r)
<1>1. /\ n \in Nat /\ VerifyChain(rs, TrustedKeys(a)) /\ BoundariesExact(rs, a) /\ InsideWindows(rs, a)
  BY DEF VerifyBPlus
<1>2. /\ a.epochs \in Seq(EpochRecords(A)) /\ a.active \in DOMAIN a.epochs
      /\ r.key = a.epochs[a.active].key
  BY DEF Lawful, AuthorityType, ActiveKey
<1>3. r.key \in TrustedKeys(a)
  BY <1>2 DEF TrustedKeys
<1>4. SequenceAuthorized(a.epochs[a.active], n)
  BY <1>1, <1>2, ActiveSignsNext DEF Lawful
<1>5. r.seq = n /\ r.prev = IF n = 0 THEN None ELSE rs[n].id
  BY <1>1, HeadOfVerified DEF Boundary
<1>6. /\ Len(more) = n + 1 /\ DOMAIN rs = 1 .. n /\ DOMAIN more = 1 .. n + 1
      /\ \A i \in 1 .. n : more[i] = rs[i]
      /\ more[n + 1] = r
  BY <1>1
<1> HIDE DEF n, more
<1>7. \A i \in 1 .. n + 1 : i = n + 1 \/ i \in 1 .. n
  BY <1>1
<1>8. VerifyChain(more, TrustedKeys(a))
  <2> SUFFICES ASSUME NEW i \in 1 .. n + 1
               PROVE  /\ more[i].seq = i - 1
                      /\ more[i].prev = (IF i = 1 THEN None ELSE more[i - 1].id)
                      /\ more[i].key \in TrustedKeys(a)
                      /\ \A j \in 1 .. n + 1 : more[j].id = more[i].id => j = i
    BY <1>6 DEF VerifyChain
  <2>1. CASE i \in 1 .. n
    <3>1. /\ rs[i].seq = i - 1
          /\ rs[i].prev = (IF i = 1 THEN None ELSE rs[i - 1].id)
          /\ rs[i].key \in TrustedKeys(a)
          /\ \A j \in 1 .. n : rs[j].id = rs[i].id => j = i
      BY <1>1, <1>6, <2>1 DEF VerifyChain
    <3>2. rs[i].id # r.id
      BY <1>6, <2>1
    <3>3. more[i] = rs[i] /\ (i # 1 => more[i - 1] = rs[i - 1])
      BY <1>1, <1>6, <2>1
    <3> QED BY <1>6, <1>7, <3>1, <3>2, <3>3
  <2>2. CASE i = n + 1
    <3>1. more[i] = r
      BY <1>6, <2>2
    <3>2. r.prev = (IF i = 1 THEN None ELSE more[i - 1].id) /\ r.seq = i - 1
      BY <1>1, <1>5, <1>6, <2>2
    <3>3. \A j \in 1 .. n : more[j].id # r.id
      BY <1>6
    <3> QED BY <1>3, <1>7, <2>2, <3>1, <3>2, <3>3
  <2> QED BY <1>7, <2>1, <2>2
<1>9. BoundariesExact(more, a)
  <2> SUFFICES ASSUME NEW i \in DOMAIN a.records, a.records[i].boundary # EmptyBoundary
               PROVE  LET b == a.records[i].boundary IN
                      b.seq + 1 \in DOMAIN more /\ more[b.seq + 1].id = b.id
    BY DEF BoundariesExact
  <2> DEFINE b == a.records[i].boundary
  <2>1. b.seq + 1 \in DOMAIN rs /\ rs[b.seq + 1].id = b.id
    BY <1>1 DEF BoundariesExact
  <2> QED BY <1>1, <1>6, <2>1
<1>10. InsideWindows(more, a)
  <2> SUFFICES ASSUME NEW i \in 1 .. n + 1
               PROVE  \E e \in DOMAIN a.epochs :
                        /\ a.epochs[e].key = more[i].key
                        /\ SequenceAuthorized(a.epochs[e], more[i].seq)
    BY <1>6 DEF InsideWindows
  <2>1. CASE i \in 1 .. n
    BY <1>1, <1>6, <2>1 DEF InsideWindows
  <2>2. CASE i = n + 1
    BY <1>2, <1>4, <1>5, <1>6, <2>2
  <2> QED BY <1>7, <2>1, <2>2
<1> QED BY <1>8, <1>9, <1>10 DEF VerifyBPlus, more

LEMMA EvidenceSurvives ==
  ASSUME NEW A, NEW a, NEW S, NEW rs \in Seq(S), Lawful(a, Len(rs), A), VerifyBPlus(rs, a),
         NEW r \in LifecycleRecords(A), r.action \in Actions, r.boundary = HeadBoundary(rs),
         Accepts(a, r)
  PROVE  VerifyBPlus(rs, Apply(a, r))
<1> DEFINE n == Len(rs)
           b == Apply(a, r)
<1>1. /\ n \in Nat /\ VerifyChain(rs, TrustedKeys(a)) /\ BoundariesExact(rs, a) /\ InsideWindows(rs, a)
  BY DEF VerifyBPlus
<1>2. /\ r.boundary = Boundary(n - 1, IF n = 0 THEN None ELSE rs[n].id) /\ r.boundary.seq = n - 1
  BY <1>1, HeadOfVerified DEF Boundary
<1>3. \A e \in DOMAIN a.epochs :
        /\ e \in DOMAIN b.epochs
        /\ b.epochs[e].key = a.epochs[e].key
        /\ \A seq \in Nat :
             seq < n => (SequenceAuthorized(b.epochs[e], seq) <=> SequenceAuthorized(a.epochs[e], seq))
  BY <1>1, <1>2, ApplyKeepsEpochs
<1>4. b.records = Append(a.records, r) /\ a.records \in Seq(LifecycleRecords(A))
  BY DEF Apply, Lawful, AuthorityType
<1> HIDE DEF b
<1>5. VerifyChain(rs, TrustedKeys(b))
  <2>1. TrustedKeys(a) \subseteq TrustedKeys(b)
    BY <1>3 DEF TrustedKeys
  <2> QED BY <1>1, <2>1 DEF VerifyChain
<1>6. BoundariesExact(rs, b)
  <2>1. \A i \in DOMAIN b.records :
          \/ i \in DOMAIN a.records /\ b.records[i] = a.records[i]
          \/ b.records[i] = r
    BY <1>4
  <2>2. \/ r.boundary = EmptyBoundary
        \/ r.boundary.seq + 1 \in DOMAIN rs /\ rs[r.boundary.seq + 1].id = r.boundary.id
    <3>1. CASE n = 0
      BY <1>2, <3>1 DEF EmptyBoundary
    <3>2. CASE n # 0
      BY <1>1, <1>2, <3>2 DEF Boundary
    <3> QED BY <3>1, <3>2
  <2> QED BY <1>1, <2>1, <2>2 DEF BoundariesExact
<1>7. InsideWindows(rs, b)
  <2> SUFFICES ASSUME NEW i \in DOMAIN rs
               PROVE  \E e \in DOMAIN b.epochs :
                        /\ b.epochs[e].key = rs[i].key
                        /\ SequenceAuthorized(b.epochs[e], rs[i].seq)
    BY DEF InsideWindows
  <2>1. PICK e \in DOMAIN a.epochs :
          a.epochs[e].key = rs[i].key /\ SequenceAuthorized(a.epochs[e], rs[i].seq)
    BY <1>1 DEF InsideWindows
  <2>2. rs[i].seq \in Nat /\ rs[i].seq < n
    BY <1>1 DEF VerifyChain
  <2> QED BY <1>3, <2>1, <2>2
<1> QED BY <1>5, <1>6, <1>7 DEF VerifyBPlus, b

=============================================================================
