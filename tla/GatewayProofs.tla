------------------------------ MODULE GatewayProofs ------------------------------
(***************************************************************************)
(* PART ONE.  Runs and replays, for any number of processes, lines, rule   *)
(* tables, requests, kills and failing appends: the log accounts for every *)
(* command that ever started, and a replay starts only what it may.  What  *)
(* a rule table makes of a line (Classify) is left open: nothing in this   *)
(* part depends on it.                                                     *)
(*                                                                         *)
(* PART TWO.  What a rule table makes of a line, for lines, wrappers and   *)
(* rules of any number: a refusal cannot be talked round by wrapping, and  *)
(* another name of the executable makes no difference.                     *)
(***************************************************************************)
EXTENDS Gateway, PolicySpelling, TLAPS, WellFoundedInduction

(* What Run is asked to do, as far as an admission depends on it, and what  *)
(* it can record.                                                           *)
Asked == [line : Lines, posture : Postures, approvals : Approvals,
          dryRun : BOOLEAN, version : Versions]

AdmissionRequests == {Admission(c) : c \in Asked}
OutcomeRequests   == {OutcomeOf(a, result) : a \in Nat, result \in Results}
Requests          == AdmissionRequests \cup OutcomeRequests

Calls == [kind : {"run", "replay"}, line : Lines \cup {None}, posture : Postures,
          approvals : Approvals, given : Approvals, dryRun : BOOLEAN,
          selected : Nat \cup {None}, admission : Nat \cup {None},
          result : Results \cup {None}, version : Versions]

(* Everything but an idle process holds the lock of the home. *)
LockInv ==
  /\ lock \in Procs \cup {None}
  /\ pc \in [Procs -> Labels]
  /\ \A p \in Procs : ~At(p, "idle") <=> lock = p
  /\ DOMAIN call = Procs /\ DOMAIN answer = Procs
  /\ \A p \in Procs : At(p, "idle") => call[p] = None /\ answer[p] = None

(* What is recorded was asked for; what was started was admitted; what ended *)
(* was started right before.                                                *)
LogInv ==
  /\ log \in Seq(Requests) /\ Len(log) <= MaxLog
  /\ started \subseteq {i \in Admissions : log[i].executed}
  /\ \A i \in DOMAIN log : log[i].action = "record-outcome" =>
       log[i].admission = i - 1 /\ i - 1 \in started

(* A run was admitted by the rules before the home was opened. *)
RunFits(c) ==
  /\ c.line \in Lines /\ ~c.dryRun
  /\ Decide(ClassOf[c.version][c.line], c.posture, c.approvals).outcome = "ADMITTED"

(* A completed run is repeated as the caller may; anything else is decided   *)
(* again as it was recorded, dry.                                           *)
ReplayFits(c) ==
  /\ c.selected \in Admissions
  /\ c.line = log[c.selected].line
  /\ IF log[c.selected].executed
     THEN ~c.dryRun /\ c.posture = "enforce" /\ c.approvals = c.given /\ HasOutcome(c.selected)
     ELSE c.dryRun /\ c.posture = log[c.selected].posture
          /\ c.approvals = RecordedApprovals(c.selected)

(* What the one working process knows at each place. *)
CallInv(p) ==
  /\ ~At(p, "idle") => call[p] \in Calls
  /\ At(p, "select") => call[p].kind = "replay"
  /\ \A label \in {"admit", "launch", "running"} :
       At(p, label) => IF call[p].kind = "run" THEN RunFits(call[p]) ELSE ReplayFits(call[p])
  /\ \A label \in {"launch", "running"} :
       At(p, label) =>
         /\ call[p].admission = Len(log) /\ Len(log) # 0
         /\ log[Len(log)] = Admission(call[p]) /\ Admission(call[p]).executed
  /\ At(p, "running") => call[p].admission \in started

(* A report names what it is about. *)
AnswerInv(p) ==
  answer[p] # None =>
    /\ answer[p].verdict \in Verdicts
    /\ answer[p].verdict = "DIVERGED" =>
         /\ answer[p].of \in Admissions
         /\ ~log[answer[p].of].executed =>
              ClassOf[answer[p].version][log[answer[p].of].line] # log[answer[p].of].class

IInv == LockInv /\ LogInv /\ intact \in BOOLEAN /\ \A p \in Procs : CallInv(p) /\ AnswerInv(p)

----------------------------------------------------------------------------
(* What the operators give *)

(* The approvals a record names decide its class as the given ones did. *)
LEMMA DecisionRepeats ==
  ASSUME NEW class, NEW posture, NEW approvals,
         NEW d, d = Decide(class, posture, approvals)
  PROVE  Decide(class, posture, [irrevocable  |-> d.approval = "operator",
                                 unclassified |-> d.approval = "operator-unclassified"]).outcome
           = d.outcome
BY DEF Decide, Admitted, Refused

LEMMA AdmittedIsAllowed ==
  ASSUME NEW class, NEW posture, NEW approvals,
         Decide(class, posture, approvals).outcome = "ADMITTED"
  PROVE  class # "PROHIBITED"
BY DEF Decide, Refused

(* A request that records an execution says what was asked and decided. *)
LEMMA RequestFacts ==
  ASSUME NEW r \in Requests
  PROVE  /\ r.action = "execute" =>
              /\ r.line \in Lines /\ r.posture \in Postures
              /\ \E approvals \in Approvals :
                   /\ r.decision = Decide(r.class, r.posture, approvals).outcome
                   /\ r.approval = Decide(r.class, r.posture, approvals).approval
              /\ r.executed => r.class # "PROHIBITED"
         /\ r \in AdmissionRequests <=> r.action = "execute"
         /\ r \in OutcomeRequests <=> r.action = "record-outcome"
<1>1. CASE r \in AdmissionRequests
  <2>1. PICK c \in Asked : r = Admission(c)
    BY <1>1 DEF AdmissionRequests
  <2> DEFINE class == ClassOf[c.version][c.line]
             d     == Decide(class, c.posture, c.approvals)
  <2>2. /\ r.action = "execute" /\ r.line = c.line /\ r.posture = c.posture
        /\ r.class = class /\ r.decision = d.outcome /\ r.approval = d.approval
        /\ r.executed = (d.outcome = "ADMITTED" /\ ~c.dryRun)
    BY <2>1 DEF Admission
  <2>3. c.line \in Lines /\ c.posture \in Postures /\ c.approvals \in Approvals
    BY DEF Asked
  <2>4. r \notin OutcomeRequests
    BY <2>2 DEF OutcomeRequests, OutcomeOf
  <2>5. r.executed => r.class # "PROHIBITED"
    BY <2>2, AdmittedIsAllowed
  <2> HIDE DEF class, d
  <2>6. \E approvals \in Approvals :
           /\ r.decision = Decide(r.class, r.posture, approvals).outcome
           /\ r.approval = Decide(r.class, r.posture, approvals).approval
    BY <2>2, <2>3 DEF d
  <2> QED BY <1>1, <2>2, <2>3, <2>4, <2>5, <2>6
<1>2. CASE r \in OutcomeRequests
  <2>1. r.action = "record-outcome"
    BY <1>2 DEF OutcomeRequests, OutcomeOf
  <2>2. r \notin AdmissionRequests
    BY <2>1 DEF AdmissionRequests, Admission
  <2> QED BY <1>2, <2>1, <2>2
<1> QED BY <1>1, <1>2 DEF Requests

(* What Run records of a call. *)
LEMMA AdmissionOfCall ==
  ASSUME NEW c \in Calls, c.line \in Lines
  PROVE  /\ Admission(c) \in AdmissionRequests
         /\ Admission(c).action = "execute"
         /\ Admission(c).line = c.line /\ Admission(c).posture = c.posture
         /\ Admission(c).class = ClassOf[c.version][c.line]
         /\ Admission(c).decision
              = Decide(ClassOf[c.version][c.line], c.posture, c.approvals).outcome
         /\ Admission(c).dryRun = c.dryRun
         /\ Admission(c).executed
              <=> (~c.dryRun
                   /\ Decide(ClassOf[c.version][c.line], c.posture, c.approvals).outcome = "ADMITTED")
<1> DEFINE asked == [line |-> c.line, posture |-> c.posture, approvals |-> c.approvals,
                     dryRun |-> c.dryRun, version |-> c.version]
<1>1. asked \in Asked
  BY DEF Asked, Calls
<1>2. Admission(c) = Admission(asked)
  BY DEF Admission
<1>3. Admission(c) \in AdmissionRequests
  BY <1>1, <1>2 DEF AdmissionRequests
<1> QED BY <1>3 DEF Admission

(* An admission depends only on what was asked: the bookkeeping fields of a *)
(* call are not recorded.                                                   *)
LEMMA SameAdmission ==
  ASSUME NEW c, NEW d,
         d.line = c.line, d.posture = c.posture, d.approvals = c.approvals,
         d.dryRun = c.dryRun, d.version = c.version
  PROVE  Admission(d) = Admission(c)
BY DEF Admission

(* The log only grows at its end. *)
LEMMA LogGrows ==
  ASSUME LogInv, Len(log) < MaxLog, NEW r \in Requests, log' = Append(log, r),
         started' = started,
         r.action = "record-outcome" => r.admission = Len(log) /\ Len(log) \in started
  PROVE  /\ LogInv'
         /\ Len(log') = Len(log) + 1 /\ log'[Len(log) + 1] = r
         /\ \A i \in DOMAIN log : i \in DOMAIN log' /\ log'[i] = log[i]
         /\ \A i \in Admissions : i \in Admissions' /\ log'[i] = log[i]
                                    /\ (HasOutcome(i) => HasOutcome(i)')
<1>1. log \in Seq(Requests) /\ Len(log) \in Nat /\ MaxLog \in Nat /\ DOMAIN log = 1 .. Len(log)
  BY BoundIsPositive DEF LogInv
<1>2. /\ log' \in Seq(Requests) /\ Len(log') = Len(log) + 1 /\ log'[Len(log) + 1] = r
      /\ DOMAIN log' = 1 .. Len(log) + 1
      /\ \A i \in DOMAIN log : i \in DOMAIN log' /\ log'[i] = log[i]
  BY <1>1
<1>3. \A i \in Admissions : i \in Admissions' /\ log'[i] = log[i]
  BY <1>2 DEF Admissions
<1>4. ASSUME NEW i \in Admissions, HasOutcome(i)
      PROVE  HasOutcome(i)'
  BY <1>2, <1>4 DEF HasOutcome
<1>5. started' \subseteq {i \in Admissions' : log'[i].executed}
  BY <1>3 DEF LogInv
<1>6. ASSUME NEW i \in DOMAIN log', log'[i].action = "record-outcome"
      PROVE  log'[i].admission = i - 1 /\ i - 1 \in started'
  <2>1. CASE i \in DOMAIN log
    BY <1>2, <1>6, <2>1 DEF LogInv
  <2>2. CASE i = Len(log) + 1
    BY <1>1, <1>2, <1>6, <2>2
  <2> QED BY <1>1, <1>2, <2>1, <2>2
<1>7. Len(log') <= MaxLog
  BY <1>1, <1>2
<1>8. LogInv'
  BY <1>2, <1>5, <1>6, <1>7 DEF LogInv
<1> QED BY <1>2, <1>3, <1>4, <1>8

----------------------------------------------------------------------------
(* One process works at a time *)

LEMMA OneWorks ==
  ASSUME LockInv', LogInv', intact' \in BOOLEAN, NEW p \in Procs, lock' \in {p, None},
         CallInv(p)', AnswerInv(p)'
  PROVE  IInv'
<1>1. ASSUME NEW q \in Procs, q # p
      PROVE  CallInv(q)' /\ AnswerInv(q)'
  <2>1. pc'[q] = "idle" /\ answer'[q] = None
    BY <1>1, NoneIsNobody DEF LockInv, At
  <2> QED BY <2>1 DEF CallInv, AnswerInv, At
<1> QED BY <1>1 DEF IInv

LEMMA LockKept ==
  ASSUME LockInv, NEW p \in Procs, lock \in {p, None}, lock' = p,
         NEW label \in Labels, label # "idle", pc' = [pc EXCEPT ![p] = label],
         DOMAIN call' = Procs, DOMAIN answer' = Procs,
         \A q \in Procs : q # p => call'[q] = call[q] /\ answer'[q] = answer[q]
  PROVE  LockInv'
BY NoneIsNobody DEF LockInv, At

LEMMA LockHeld ==
  ASSUME LockInv, NEW p \in Procs, ~At(p, "idle")
  PROVE  lock = p
BY DEF LockInv

----------------------------------------------------------------------------
(* Steps that leave log and executions alone *)

LEMMA InitInv == Init => IInv
<1> SUFFICES ASSUME Init PROVE IInv
  OBVIOUS
<1>1. LockInv
  BY NoneIsNobody DEF Init, LockInv, At, Labels
<1>2. ASSUME NEW r \in Legacy
      PROVE  r \in Requests /\ r.action = "execute"
  <2>1. PICK line \in Lines, posture \in Postures, approvals \in Given, dry \in BOOLEAN,
             v \in Versions :
          r = Admission([RunCall(line, posture, approvals, v) EXCEPT !.dryRun = dry])
    BY <1>2 DEF Legacy
  <2> DEFINE c == [RunCall(line, posture, approvals, v) EXCEPT !.dryRun = dry]
             asked == [line |-> line, posture |-> posture, approvals |-> approvals,
                       dryRun |-> dry, version |-> v]
  <2>2. asked \in Asked
    BY GivenAreApprovals DEF Asked
  <2>3. /\ c.line = line /\ c.posture = posture /\ c.approvals = approvals
        /\ c.dryRun = dry /\ c.version = v
    BY DEF RunCall
  <2> HIDE DEF c
  <2>4. Admission(c) = Admission(asked)
    BY <2>3, SameAdmission
  <2>5. r = Admission(asked)
    BY <2>1, <2>4 DEF c
  <2> HIDE DEF asked
  <2> QED BY <2>2, <2>5 DEF Requests, AdmissionRequests, Admission
<1>3. LogInv
  <2>1. started = {} /\ (log = <<>> \/ \E r \in Legacy : log = <<r>>)
    BY DEF Init
  <2>2. CASE log = <<>>
    BY <2>1, <2>2, BoundIsPositive DEF LogInv
  <2>3. CASE \E r \in Legacy : log = <<r>>
    <3>1. PICK r \in Legacy : log = <<r>>
      BY <2>3
    <3>2. log \in Seq(Requests) /\ Len(log) = 1 /\ log[1].action = "execute" /\ DOMAIN log = {1}
      BY <3>1, <1>2
    <3> QED BY <2>1, <3>2, BoundIsPositive DEF LogInv
  <2> QED BY <2>1, <2>2, <2>3
<1>4. ASSUME NEW p \in Procs
      PROVE  CallInv(p) /\ AnswerInv(p)
  BY <1>4 DEF Init, CallInv, AnswerInv, At
<1>5. intact \in BOOLEAN
  BY DEF Init
<1> QED BY <1>1, <1>3, <1>4, <1>5 DEF IInv

LEMMA LogStays ==
  ASSUME LogInv, UNCHANGED <<log, started>>
  PROVE  LogInv' /\ \A i \in Admissions : i \in Admissions' /\ log'[i] = log[i]
BY DEF LogInv, Admissions

LEMMA AnswerStays ==
  ASSUME NEW p \in Procs, AnswerInv(p), answer'[p] = answer[p],
         \A i \in Admissions : i \in Admissions' /\ log'[i] = log[i]
  PROVE  AnswerInv(p)'
BY DEF AnswerInv

(* A call that is done is only to be answered. *)
LEMMA DoneCall ==
  ASSUME NEW p \in Procs, pc'[p] = "done", call'[p] \in Calls
  PROVE  CallInv(p)'
BY DEF CallInv, At

LEMMA ReadyCall ==
  ASSUME NEW p \in Procs, pc'[p] = "admit", call'[p] \in Calls,
         IF call'[p].kind = "run" THEN RunFits(call[p])' ELSE ReplayFits(call[p])'
  PROVE  CallInv(p)'
BY DEF CallInv, At

LEMMA StartRunStep ==
  ASSUME IInv, NEW p \in Procs, NEW line \in Lines, NEW posture \in Postures,
         NEW approvals \in Given, NEW version \in Versions,
         StartRun(p, line, posture, approvals, version)
  PROVE  IInv'
<1> DEFINE c == RunCall(line, posture, approvals, version)
<1>1. /\ At(p, "idle") /\ lock = None /\ lock' = p
      /\ Decide(ClassOf[version][line], posture, approvals).outcome = "ADMITTED"
      /\ call' = [call EXCEPT ![p] = c] /\ pc' = [pc EXCEPT ![p] = "admit"]
      /\ UNCHANGED <<log, intact, started, answer>>
  BY DEF StartRun, Go
<1>2. /\ LockInv /\ LogInv /\ intact \in BOOLEAN /\ AnswerInv(p)
      /\ DOMAIN call = Procs /\ DOMAIN pc = Procs /\ DOMAIN answer = Procs
  BY DEF IInv, LockInv
<1>3. c \in Calls
  BY GivenAreApprovals DEF RunCall, Calls
<1>4. RunFits(c) /\ c.kind = "run"
  BY <1>1 DEF RunFits, RunCall
<1> HIDE DEF c
<1>5. call'[p] = c /\ pc'[p] = "admit"
  BY <1>1, <1>2
<1>6. LockInv'
  BY <1>1, <1>2, LockKept DEF Labels
<1>7. CallInv(p)'
  <2>1. RunFits(call[p])'
    BY <1>4, <1>5 DEF RunFits
  <2> QED BY <1>3, <1>4, <1>5, <2>1, ReadyCall
<1>8. LogInv' /\ AnswerInv(p)'
  BY <1>1, <1>2, LogStays, AnswerStays
<1> QED BY <1>1, <1>2, <1>6, <1>7, <1>8, OneWorks

LEMMA StartReplayStep ==
  ASSUME IInv, NEW p \in Procs, NEW posture \in Postures,
         NEW approvals \in Given, NEW version \in Versions,
         StartReplay(p, posture, approvals, version)
  PROVE  IInv'
<1> DEFINE c == ReplayCall(posture, approvals, version)
<1>1. /\ At(p, "idle") /\ lock = None /\ lock' = p
      /\ call' = [call EXCEPT ![p] = c] /\ pc' = [pc EXCEPT ![p] = "select"]
      /\ UNCHANGED <<log, intact, started, answer>>
  BY DEF StartReplay, Go
<1>2. /\ LockInv /\ LogInv /\ intact \in BOOLEAN /\ AnswerInv(p)
      /\ DOMAIN call = Procs /\ DOMAIN pc = Procs /\ DOMAIN answer = Procs
  BY DEF IInv, LockInv
<1>3. c \in Calls /\ c.kind = "replay"
  BY GivenAreApprovals DEF ReplayCall, RunCall, Calls
<1> HIDE DEF c
<1>5. call'[p] = c /\ pc'[p] = "select"
  BY <1>1, <1>2
<1>6. LockInv'
  BY <1>1, <1>2, LockKept DEF Labels
<1>7. CallInv(p)'
  BY <1>3, <1>5 DEF CallInv, At
<1>8. LogInv' /\ AnswerInv(p)'
  BY <1>1, <1>2, LogStays, AnswerStays
<1> QED BY <1>1, <1>2, <1>6, <1>7, <1>8, OneWorks

(* Every way in which a replay ends without running anything.               *)
LEMMA InertEnd ==
  ASSUME IInv, NEW p \in Procs, ~At(p, "idle"), pc' = [pc EXCEPT ![p] = "done"],
         UNCHANGED <<log, intact, lock, call, started>>, DOMAIN answer' = Procs,
         \A q \in Procs : q # p => answer'[q] = answer[q],
         \/ answer'[p] = answer[p]
         \/ answer'[p].verdict \in Verdicts /\ answer'[p].verdict # "DIVERGED"
  PROVE  IInv'
<1>1. /\ LockInv /\ LogInv /\ intact \in BOOLEAN /\ AnswerInv(p) /\ CallInv(p)
      /\ DOMAIN call = Procs /\ DOMAIN pc = Procs /\ DOMAIN answer = Procs
  BY DEF IInv, LockInv
<1>2. lock = p
  BY <1>1, LockHeld
<1>3. LockInv'
  BY <1>1, <1>2, LockKept DEF Labels
<1>4. LogInv'
  BY <1>1, LogStays
<1>5. CallInv(p)'
  BY <1>1, DoneCall DEF CallInv
<1>6. AnswerInv(p)'
  <2>1. CASE answer'[p] = answer[p]
    BY <1>1, <2>1, LogStays, AnswerStays
  <2>2. CASE answer'[p].verdict \in Verdicts /\ answer'[p].verdict # "DIVERGED"
    BY <2>2 DEF AnswerInv
  <2> QED BY <2>1, <2>2
<1> QED BY <1>1, <1>2, <1>3, <1>4, <1>5, <1>6, OneWorks

LEMMA ReplayEnds ==
  ASSUME IInv, NEW p \in Procs,
         ReplayTampered(p) \/ ReplayNothing(p) \/ \E i \in DOMAIN log : ReplayIncomplete(p, i)
  PROVE  IInv'
<1>1. LockInv /\ DOMAIN answer = Procs
  BY DEF IInv, LockInv
<1>2. CASE ReplayNothing(p)
  BY <1>1, <1>2, InertEnd DEF ReplayNothing, At, Go
<1>3. ASSUME NEW i, NEW verdict \in {"TAMPERED", "INCOMPLETE_OR_TRUNCATED"},
             At(p, "select"), Finished(p, i, verdict)
      PROVE  IInv'
  <2>1. answer'[p] = [verdict |-> verdict, of |-> i, version |-> call[p].version]
    BY <1>1, <1>3 DEF Finished
  <2>2. answer'[p].verdict \in Verdicts /\ answer'[p].verdict # "DIVERGED"
    BY <2>1 DEF Verdicts
  <2>3. DOMAIN answer' = Procs /\ \A q \in Procs : q # p => answer'[q] = answer[q]
    BY <1>1, <1>3 DEF Finished
  <2>4. ~At(p, "idle") /\ pc' = [pc EXCEPT ![p] = "done"]
        /\ UNCHANGED <<log, intact, lock, call, started>>
    BY <1>3 DEF Finished, At, Go
  <2> QED BY <2>2, <2>3, <2>4, InertEnd
<1> QED BY <1>2, <1>3 DEF ReplayTampered, ReplayIncomplete, Selected

LEMMA ReplayRunsStep ==
  ASSUME IInv, NEW p \in Procs, NEW i \in DOMAIN log,
         ReplayUnexecuted(p, i) \/ ReplayExecuted(p, i)
  PROVE  IInv'
<1>1. /\ LockInv /\ LogInv /\ intact \in BOOLEAN /\ AnswerInv(p) /\ CallInv(p)
      /\ DOMAIN call = Procs /\ DOMAIN pc = Procs /\ DOMAIN answer = Procs
  BY DEF IInv, LockInv
<1>2. At(p, "select") /\ i \in Admissions /\ i \in Nat
  <2>1. At(p, "select") /\ i \in Admissions
    BY DEF ReplayUnexecuted, ReplayExecuted, Selected
  <2> QED BY <1>1, <2>1 DEF LogInv
<1>3. call[p] \in Calls /\ call[p].kind = "replay" /\ lock = p
  BY <1>1, <1>2, LockHeld DEF CallInv, At
<1>4. log[i].line \in Lines /\ log[i].posture \in Postures
  <2>1. log[i] \in Requests /\ log[i].action = "execute"
    BY <1>1, <1>2 DEF LogInv, Admissions
  <2> QED BY <2>1, RequestFacts
<1>5. RecordedApprovals(i) \in Approvals
  BY DEF RecordedApprovals, Approvals
<1>6. PICK posture \in Postures, approvals \in Approvals, dry \in BOOLEAN :
        /\ RunAgain(p, i, posture, approvals, dry)
        /\ IF log[i].executed
           THEN ~dry /\ posture = "enforce" /\ approvals = call[p].given /\ HasOutcome(i)
           ELSE dry /\ posture = log[i].posture /\ approvals = RecordedApprovals(i)
  <2>1. CASE ReplayUnexecuted(p, i)
    BY <1>4, <1>5, <2>1 DEF ReplayUnexecuted
  <2>2. CASE ReplayExecuted(p, i)
    <3>1. call[p].given \in Approvals /\ "enforce" \in Postures
      BY <1>3 DEF Calls, Postures
    <3> QED BY <2>2, <3>1 DEF ReplayExecuted
  <2> QED BY <2>1, <2>2
<1>7. /\ pc' = [pc EXCEPT ![p] = "admit"] /\ lock' = p
      /\ UNCHANGED <<log, intact, started, answer>>
      /\ DOMAIN call' = Procs /\ \A q \in Procs : q # p => call'[q] = call[q]
      /\ call'[p] = [call[p] EXCEPT !.line = log[i].line, !.posture = posture,
                                    !.approvals = approvals, !.dryRun = dry, !.selected = i]
  BY <1>1, <1>3, <1>6 DEF RunAgain, Go
<1>8. /\ call'[p] \in Calls /\ call'[p].kind = "replay" /\ call'[p].given = call[p].given
      /\ call'[p].line = log[i].line /\ call'[p].posture = posture
      /\ call'[p].approvals = approvals /\ call'[p].dryRun = dry /\ call'[p].selected = i
  BY <1>2, <1>3, <1>4, <1>7 DEF Calls
<1>9. ReplayFits(call[p])'
  <2>1. i \in Admissions' /\ log' = log
    BY <1>1, <1>2, <1>7, LogStays
  <2>2. HasOutcome(i)' = HasOutcome(i) /\ RecordedApprovals(i)' = RecordedApprovals(i)
    BY <1>7 DEF HasOutcome, RecordedApprovals
  <2>3. CASE log[i].executed
    BY <1>6, <1>8, <2>1, <2>2, <2>3 DEF ReplayFits
  <2>4. CASE ~log[i].executed
    BY <1>6, <1>8, <2>1, <2>2, <2>4 DEF ReplayFits
  <2> QED BY <2>3, <2>4
<1>10. CallInv(p)'
  BY <1>1, <1>7, <1>8, <1>9, ReadyCall
<1>11. LockInv'
  BY <1>1, <1>3, <1>7, LockKept DEF Labels
<1>12. LogInv' /\ AnswerInv(p)'
  BY <1>1, <1>7, LogStays, AnswerStays
<1> QED BY <1>1, <1>7, <1>10, <1>11, <1>12, OneWorks

----------------------------------------------------------------------------
(* Steps that record and execute *)

(* A call that is about to be recorded has a line. *)
LEMMA CallHasLine ==
  ASSUME IInv, NEW p \in Procs,
         At(p, "admit") \/ At(p, "launch") \/ At(p, "running")
  PROVE  /\ call[p] \in Calls /\ call[p].line \in Lines /\ lock = p
         /\ IF call[p].kind = "run" THEN RunFits(call[p]) ELSE ReplayFits(call[p])
<1>1. LockInv /\ CallInv(p) /\ LogInv
  BY DEF IInv
<1>2. /\ call[p] \in Calls /\ lock = p
      /\ IF call[p].kind = "run" THEN RunFits(call[p]) ELSE ReplayFits(call[p])
  BY <1>1, LockHeld DEF CallInv, At
<1>3. ASSUME ReplayFits(call[p])
      PROVE  call[p].line \in Lines
  <2>1. call[p].line = log[call[p].selected].line /\ call[p].selected \in Admissions
    BY <1>3 DEF ReplayFits
  <2>2. log[call[p].selected] \in Requests /\ log[call[p].selected].action = "execute"
    BY <1>1, <2>1 DEF LogInv, Admissions
  <2> QED BY <2>1, <2>2, RequestFacts
<1> QED BY <1>2, <1>3 DEF RunFits

(* A replay that is admitted to nothing diverges only over the class. *)
LEMMA InertVerdictFits ==
  ASSUME IInv, NEW p \in Procs, At(p, "admit"), ~Admission(call[p]).executed
  PROVE  LET old     == log[call[p].selected]
             verdict == InertVerdict(old, Admission(call[p])) IN
         /\ call[p].selected \in Admissions /\ verdict \in Verdicts
         /\ verdict = "DIVERGED" /\ ~old.executed =>
              ClassOf[call[p].version][old.line] # old.class
<1> DEFINE c   == call[p]
           old == log[c.selected]
           new == Admission(c)
<1>1. /\ c \in Calls /\ c.line \in Lines
      /\ IF c.kind = "run" THEN RunFits(c) ELSE ReplayFits(c)
  BY CallHasLine
<1>2. /\ new.class = ClassOf[c.version][c.line]
      /\ new.decision = Decide(ClassOf[c.version][c.line], c.posture, c.approvals).outcome
      /\ new.executed <=> (~c.dryRun /\ new.decision = "ADMITTED")
  BY <1>1, AdmissionOfCall
<1>3. ReplayFits(c)
  <2>1. ASSUME RunFits(c)
        PROVE  new.executed
    BY <1>2, <2>1 DEF RunFits
  <2> QED BY <1>1, <2>1
<1>4. c.selected \in Admissions /\ c.line = old.line
  BY <1>3 DEF ReplayFits
<1>5. old \in Requests /\ old.action = "execute"
  BY <1>4 DEF IInv, LogInv, Admissions
<1>6. InertVerdict(old, new) \in Verdicts
  BY DEF InertVerdict, Verdicts
<1>7. ASSUME ~old.executed, InertVerdict(old, new) = "DIVERGED", new.class = old.class
      PROVE  FALSE
  <2>1. c.posture = old.posture /\ c.approvals = RecordedApprovals(c.selected)
    BY <1>3, <1>7 DEF ReplayFits
  <2>2. PICK a \in Approvals : /\ old.decision = Decide(old.class, old.posture, a).outcome
                               /\ old.approval = Decide(old.class, old.posture, a).approval
    BY <1>5, RequestFacts
  <2>3. Decide(old.class, old.posture, RecordedApprovals(c.selected)).outcome
          = Decide(old.class, old.posture, a).outcome
    BY <2>2, DecisionRepeats DEF RecordedApprovals
  <2>4. new.decision = old.decision
    BY <1>2, <1>7, <2>1, <2>2, <2>3
  <2> QED BY <1>7, <2>4 DEF InertVerdict
<1> QED BY <1>2, <1>4, <1>6, <1>7

(* Run records an admission: when its append succeeds, or lands all the same. *)
LEMMA AdmissionRecorded ==
  ASSUME IInv, NEW p \in Procs, At(p, "admit"), Len(log) < MaxLog,
         log' = Append(log, Admission(call[p])), UNCHANGED started
  PROVE  /\ LogInv'
         /\ Len(log') = Len(log) + 1 /\ log'[Len(log) + 1] = Admission(call[p])
         /\ \A i \in Admissions : i \in Admissions' /\ log'[i] = log[i]
                                    /\ (HasOutcome(i) => HasOutcome(i)')
<1>1. call[p] \in Calls /\ call[p].line \in Lines /\ LogInv
  BY CallHasLine DEF IInv
<1>2. Admission(call[p]) \in Requests /\ Admission(call[p]).action = "execute"
  BY <1>1, AdmissionOfCall DEF Requests
<1> QED BY <1>1, <1>2, LogGrows

(* What a call fits it still fits when the log has grown. *)
LEMMA FitsStays ==
  ASSUME NEW p \in Procs, ReplayFits(call[p]),
         call'[p].selected = call[p].selected, call'[p].line = call[p].line,
         call'[p].dryRun = call[p].dryRun, call'[p].posture = call[p].posture,
         call'[p].approvals = call[p].approvals, call'[p].given = call[p].given,
         \A i \in Admissions : i \in Admissions' /\ log'[i] = log[i]
                                  /\ (HasOutcome(i) => HasOutcome(i)')
  PROVE  ReplayFits(call[p])'
<1>1. call[p].selected \in Admissions
  BY DEF ReplayFits
<1>2. /\ call'[p].selected \in Admissions'
      /\ log'[call'[p].selected] = log[call[p].selected]
  BY <1>1
<1>3. RecordedApprovals(call[p].selected)' = RecordedApprovals(call[p].selected)
  BY <1>2 DEF RecordedApprovals
<1>4. HasOutcome(call[p].selected) => HasOutcome(call[p].selected)'
  <2>1. HasOutcome(call[p].selected) =>
          \E j \in DOMAIN log' : log'[j].action = "record-outcome"
                                 /\ log'[j].admission = call[p].selected
    BY <1>1 DEF HasOutcome
  <2> QED BY <2>1 DEF HasOutcome
<1> QED BY <1>2, <1>3, <1>4 DEF ReplayFits

LEMMA AdmitStep ==
  ASSUME IInv, NEW p \in Procs, Admit(p)
  PROVE  IInv'
<1> DEFINE new == Admission(call[p])
<1>1. /\ LockInv /\ LogInv /\ intact \in BOOLEAN /\ AnswerInv(p)
      /\ DOMAIN call = Procs /\ DOMAIN pc = Procs /\ DOMAIN answer = Procs
      /\ Len(log) \in Nat
  BY DEF IInv, LockInv, LogInv
<1>2. /\ At(p, "admit") /\ Len(log) < MaxLog /\ log' = Append(log, new)
      /\ call' = [call EXCEPT ![p].admission = Len(log) + 1]
      /\ UNCHANGED <<intact, lock, started>>
  BY DEF Admit
<1>3. /\ call[p] \in Calls /\ call[p].line \in Lines /\ lock = p
      /\ IF call[p].kind = "run" THEN RunFits(call[p]) ELSE ReplayFits(call[p])
  BY <1>2, CallHasLine
<1>4. /\ LogInv' /\ Len(log') = Len(log) + 1 /\ log'[Len(log) + 1] = new
      /\ \A i \in Admissions : i \in Admissions' /\ log'[i] = log[i]
  BY <1>2, AdmissionRecorded
<1>6. /\ DOMAIN call' = Procs /\ \A q \in Procs : q # p => call'[q] = call[q]
      /\ call'[p] = [call[p] EXCEPT !.admission = Len(log) + 1]
  BY <1>1, <1>2
<1>7. /\ call'[p] \in Calls /\ call'[p].admission = Len(log) + 1
      /\ call'[p].kind = call[p].kind /\ call'[p].line = call[p].line
      /\ call'[p].posture = call[p].posture /\ call'[p].approvals = call[p].approvals
      /\ call'[p].given = call[p].given /\ call'[p].dryRun = call[p].dryRun
      /\ call'[p].selected = call[p].selected /\ call'[p].version = call[p].version
  BY <1>1, <1>3, <1>6 DEF Calls
<1>8. CASE new.executed
  <2>1. pc' = [pc EXCEPT ![p] = "launch"] /\ answer' = answer
    BY <1>8 DEF Admit, Go
  <2>2. LockInv'
    BY <1>1, <1>2, <1>3, <1>6, <2>1, LockKept DEF Labels
  <2>3. Admission(call[p])' = new
    BY <1>7, SameAdmission DEF Admission
  <2>4. IF call'[p].kind = "run" THEN RunFits(call[p])' ELSE ReplayFits(call[p])'
    <3>1. RunFits(call[p]) => RunFits(call[p])'
      BY <1>7 DEF RunFits
    <3>2. ReplayFits(call[p]) => ReplayFits(call[p])'
      BY <1>2, <1>7, AdmissionRecorded, FitsStays
    <3> QED BY <1>3, <1>7, <3>1, <3>2
  <2>5. pc'[p] = "launch"
    BY <1>1, <2>1
  <2> HIDE DEF new
  <2>6. CallInv(p)'
    BY <1>1, <1>4, <1>7, <1>8, <2>3, <2>4, <2>5 DEF CallInv, At
  <2>7. AnswerInv(p)'
    BY <1>1, <1>4, <2>1, AnswerStays
  <2> QED BY <1>1, <1>2, <1>3, <1>4, <2>2, <2>6, <2>7, OneWorks
<1>9. CASE ~new.executed
  <2> DEFINE old == log[call[p].selected]
             verdict == InertVerdict(old, new)
  <2>1. /\ pc' = [pc EXCEPT ![p] = "done"]
        /\ answer' = [answer EXCEPT ![p] = [verdict |-> verdict, of |-> call[p].selected,
                                            version |-> call[p].version]]
    BY <1>9 DEF Admit, Go, Say
  <2>2. /\ call[p].selected \in Admissions /\ verdict \in Verdicts
        /\ verdict = "DIVERGED" /\ ~old.executed =>
             ClassOf[call[p].version][old.line] # old.class
    BY <1>2, <1>9, InertVerdictFits
  <2> HIDE DEF verdict
  <2>3. /\ answer'[p].verdict = verdict /\ answer'[p].of = call[p].selected
        /\ answer'[p].version = call[p].version
        /\ DOMAIN answer' = Procs /\ \A q \in Procs : q # p => answer'[q] = answer[q]
    BY <1>1, <2>1
  <2>4. LockInv'
    BY <1>1, <1>2, <1>3, <1>6, <2>1, <2>3, LockKept DEF Labels
  <2>5. CallInv(p)'
    BY <1>1, <1>7, <2>1, DoneCall
  <2>6. call[p].selected \in Admissions' /\ log'[call[p].selected] = old
    BY <1>4, <2>2
  <2> HIDE DEF old
  <2>7. AnswerInv(p)'
    BY <2>2, <2>3, <2>6 DEF AnswerInv
  <2> QED BY <1>1, <1>2, <1>3, <1>4, <2>4, <2>5, <2>7, OneWorks
<1> QED BY <1>8, <1>9

(* Run cannot record its admission, or is told so. *)
LEMMA AdmitFailsStep ==
  ASSUME IInv, NEW p \in Procs, AdmitFails(p)
  PROVE  IInv'
<1>1. /\ LockInv /\ LogInv /\ intact \in BOOLEAN /\ AnswerInv(p)
      /\ DOMAIN call = Procs /\ DOMAIN pc = Procs /\ DOMAIN answer = Procs
  BY DEF IInv, LockInv
<1>2. /\ At(p, "admit") /\ Len(log) < MaxLog /\ pc' = [pc EXCEPT ![p] = "done"]
      /\ log' = log \/ log' = Append(log, Admission(call[p]))
      /\ UNCHANGED <<intact, lock, call, started, answer>>
  BY DEF AdmitFails, Go
<1>3. call[p] \in Calls /\ lock = p
  BY <1>2, CallHasLine
<1>4. LogInv' /\ \A i \in Admissions : i \in Admissions' /\ log'[i] = log[i]
  BY <1>1, <1>2, LogStays, AdmissionRecorded
<1>5. LockInv'
  BY <1>1, <1>2, <1>3, LockKept DEF Labels
<1>6. CallInv(p)' /\ AnswerInv(p)'
  BY <1>1, <1>2, <1>3, <1>4, DoneCall, AnswerStays
<1> QED BY <1>1, <1>2, <1>3, <1>4, <1>5, <1>6, OneWorks

(* The one working process starts its command. *)
LEMMA LaunchStep ==
  ASSUME IInv, NEW p \in Procs, Launch(p)
  PROVE  IInv'
<1>1. /\ LockInv /\ LogInv /\ intact \in BOOLEAN /\ AnswerInv(p) /\ CallInv(p)
      /\ DOMAIN call = Procs /\ DOMAIN pc = Procs /\ DOMAIN answer = Procs
  BY DEF IInv, LockInv
<1>2. /\ At(p, "launch") /\ started' = started \cup {call[p].admission}
      /\ pc' = [pc EXCEPT ![p] = "running"] /\ UNCHANGED <<log, intact, lock, call, answer>>
  BY DEF Launch, Go
<1>3. /\ call[p] \in Calls /\ call[p].line \in Lines /\ lock = p
      /\ IF call[p].kind = "run" THEN RunFits(call[p]) ELSE ReplayFits(call[p])
  BY <1>2, CallHasLine
<1>4. /\ call[p].admission = Len(log) /\ Len(log) # 0
      /\ log[Len(log)] = Admission(call[p]) /\ Admission(call[p]).executed
  BY <1>1, <1>2 DEF CallInv, At
<1>5. call[p].admission \in {i \in Admissions : log[i].executed}
  <2>1. Len(log) \in DOMAIN log
    BY <1>1, <1>4 DEF LogInv
  <2>2. Admission(call[p]).action = "execute"
    BY DEF Admission
  <2> QED BY <1>4, <2>1, <2>2 DEF Admissions
<1>6. LogInv'
  BY <1>1, <1>2, <1>5 DEF LogInv, Admissions
<1>7. LockInv'
  BY <1>1, <1>2, <1>3, LockKept DEF Labels
<1>8. CallInv(p)'
  <2>1. pc'[p] = "running" /\ call'[p].admission \in started'
    BY <1>1, <1>2
  <2>2. Admission(call[p])' = Admission(call[p])
    BY <1>2 DEF Admission
  <2>3. ReplayFits(call[p])' = ReplayFits(call[p]) /\ RunFits(call[p])' = RunFits(call[p])
    BY <1>2 DEF ReplayFits, RunFits, Admissions, HasOutcome, RecordedApprovals
  <2> QED BY <1>2, <1>3, <1>4, <2>1, <2>2, <2>3 DEF CallInv, At
<1>9. AnswerInv(p)'
  BY <1>1, <1>2, AnswerStays DEF Admissions
<1> QED BY <1>1, <1>2, <1>3, <1>6, <1>7, <1>8, <1>9, OneWorks

LEMMA CommandEndsStep ==
  ASSUME IInv, NEW p \in Procs, NEW result \in Results, CommandEnds(p, result)
  PROVE  IInv'
<1>1. /\ LockInv /\ LogInv /\ intact \in BOOLEAN /\ AnswerInv(p) /\ CallInv(p)
      /\ DOMAIN call = Procs /\ DOMAIN pc = Procs /\ DOMAIN answer = Procs
  BY DEF IInv, LockInv
<1>2. /\ At(p, "running") /\ call' = [call EXCEPT ![p].result = result]
      /\ UNCHANGED <<log, intact, lock, pc, started, answer>>
  BY DEF CommandEnds
<1>3. /\ call[p] \in Calls /\ lock = p
      /\ IF call[p].kind = "run" THEN RunFits(call[p]) ELSE ReplayFits(call[p])
  BY <1>2, CallHasLine
<1>4. /\ DOMAIN call' = Procs /\ \A q \in Procs : q # p => call'[q] = call[q]
      /\ call'[p] = [call[p] EXCEPT !.result = result]
  BY <1>1, <1>2
<1>5. /\ call'[p] \in Calls /\ call'[p].admission = call[p].admission
      /\ call'[p].kind = call[p].kind /\ call'[p].line = call[p].line
      /\ call'[p].posture = call[p].posture /\ call'[p].approvals = call[p].approvals
      /\ call'[p].given = call[p].given /\ call'[p].dryRun = call[p].dryRun
      /\ call'[p].selected = call[p].selected /\ call'[p].version = call[p].version
  BY <1>3, <1>4 DEF Calls
<1>6. LockInv'
  <2>1. pc' = [pc EXCEPT ![p] = "running"]
    BY <1>1, <1>2 DEF At, LockInv
  <2> QED BY <1>1, <1>2, <1>3, <1>4, <2>1, LockKept DEF Labels
<1>7. CallInv(p)'
  <2>1. Admission(call[p])' = Admission(call[p])
    BY <1>5, SameAdmission DEF Admission
  <2>2. RunFits(call[p]) => RunFits(call[p])'
    BY <1>5 DEF RunFits
  <2>3. ReplayFits(call[p]) => ReplayFits(call[p])'
    BY <1>2, <1>5, FitsStays DEF Admissions, HasOutcome
  <2>4. /\ call[p].admission = Len(log) /\ Len(log) # 0 /\ call[p].admission \in started
        /\ log[Len(log)] = Admission(call[p]) /\ Admission(call[p]).executed
    BY <1>1, <1>2 DEF CallInv, At
  <2>5. pc'[p] = "running"
    BY <1>2 DEF At
  <2> QED BY <1>2, <1>3, <1>5, <2>1, <2>2, <2>3, <2>4, <2>5 DEF CallInv, At
<1>8. LogInv' /\ AnswerInv(p)'
  BY <1>1, <1>2, LogStays, AnswerStays
<1> QED BY <1>1, <1>2, <1>3, <1>6, <1>7, <1>8, OneWorks

(* The outcome of the command that ran goes right behind its admission. *)
LEMMA OutcomeRecorded ==
  ASSUME IInv, NEW p \in Procs, At(p, "running"), call[p].result # None, Len(log) < MaxLog,
         log' = Append(log, OutcomeOf(call[p].admission, call[p].result)), UNCHANGED started
  PROVE  LogInv' /\ \A i \in Admissions : i \in Admissions' /\ log'[i] = log[i]
<1> DEFINE r == OutcomeOf(call[p].admission, call[p].result)
<1>1. LogInv /\ call[p] \in Calls /\ call[p].admission = Len(log) /\ call[p].admission \in started
  BY DEF IInv, CallInv, At
<1>2. call[p].result \in Results /\ Len(log) \in Nat
  BY <1>1 DEF Calls, LogInv
<1>3. r \in Requests /\ r.action = "record-outcome" /\ r.admission = Len(log)
  BY <1>1, <1>2 DEF OutcomeOf, OutcomeRequests, Requests
<1> QED BY <1>1, <1>3, LogGrows

(* A replay whose command ran is one of a completed run. *)
LEMMA RunningReplay ==
  ASSUME IInv, NEW p \in Procs, At(p, "running"), call[p].kind # "run"
  PROVE  call[p].selected \in Admissions /\ log[call[p].selected].executed
<1>1. ReplayFits(call[p])
  BY CallHasLine
<1>2. Admission(call[p]).executed
  BY DEF IInv, CallInv, At
<1>3. ~call[p].dryRun
  BY <1>2, CallHasLine, AdmissionOfCall
<1> QED BY <1>1, <1>3 DEF ReplayFits

LEMMA OutcomeStep ==
  ASSUME IInv, NEW p \in Procs, RecordOutcome(p) \/ OutcomeFails(p)
  PROVE  IInv'
<1>1. /\ LockInv /\ LogInv /\ intact \in BOOLEAN /\ AnswerInv(p)
      /\ DOMAIN call = Procs /\ DOMAIN pc = Procs /\ DOMAIN answer = Procs
  BY DEF IInv, LockInv
<1>2. /\ At(p, "running") /\ call[p].result # None /\ Len(log) < MaxLog
      /\ pc' = [pc EXCEPT ![p] = "done"]
      /\ log' = log \/ log' = Append(log, OutcomeOf(call[p].admission, call[p].result))
      /\ UNCHANGED <<intact, lock, call, started>>
  BY DEF RecordOutcome, OutcomeFails, Go
<1>3. call[p] \in Calls /\ lock = p
  BY <1>2, CallHasLine
<1>4. LogInv' /\ \A i \in Admissions : i \in Admissions' /\ log'[i] = log[i]
  BY <1>1, <1>2, LogStays, OutcomeRecorded
<1>5. /\ DOMAIN answer' = Procs /\ \A q \in Procs : q # p => answer'[q] = answer[q]
      /\ \/ answer' = answer
         \/ /\ call[p].kind # "run"
            /\ answer'[p].verdict \in {"MATCH", "DIVERGED"}
            /\ answer'[p].of = call[p].selected
  BY <1>1 DEF RecordOutcome, OutcomeFails, Say
<1>6. LockInv'
  BY <1>1, <1>2, <1>3, <1>5, LockKept DEF Labels
<1>7. CallInv(p)'
  BY <1>1, <1>2, <1>3, DoneCall
<1>8. AnswerInv(p)'
  <2>1. CASE answer' = answer
    BY <1>1, <1>4, <2>1, AnswerStays
  <2>2. ASSUME call[p].kind # "run", answer'[p].verdict \in {"MATCH", "DIVERGED"},
               answer'[p].of = call[p].selected
        PROVE  AnswerInv(p)'
    <3>1. answer'[p].of \in Admissions' /\ log'[answer'[p].of].executed
      BY <1>2, <1>4, <2>2, RunningReplay
    <3> QED BY <2>2, <3>1 DEF AnswerInv, Verdicts
  <2> QED BY <1>5, <2>1, <2>2
<1> QED BY <1>1, <1>2, <1>3, <1>4, <1>6, <1>7, <1>8, OneWorks

(* A process goes, of itself or killed, and the kernel releases its lock. *)
LEMMA LeaveStep ==
  ASSUME IInv, NEW p \in Procs, Finish(p) \/ Kill(p)
  PROVE  IInv'
<1>1. /\ LockInv /\ LogInv /\ intact \in BOOLEAN
      /\ DOMAIN call = Procs /\ DOMAIN pc = Procs /\ DOMAIN answer = Procs
  BY DEF IInv, LockInv
<1>2. /\ ~At(p, "idle") /\ lock' = (IF lock = p THEN None ELSE lock)
      /\ pc' = [pc EXCEPT ![p] = "idle"] /\ call' = [call EXCEPT ![p] = None]
      /\ answer' = [answer EXCEPT ![p] = None] /\ UNCHANGED <<log, intact, started>>
  BY DEF Finish, Kill, Forget, Go, At
<1>3. lock = p /\ lock' = None
  BY <1>1, <1>2, LockHeld
<1>4. pc'[p] = "idle" /\ answer'[p] = None
  BY <1>1, <1>2
<1>5. LockInv'
  BY <1>1, <1>2, <1>3, NoneIsNobody DEF LockInv, At, Labels
<1>6. CallInv(p)' /\ AnswerInv(p)'
  BY <1>4 DEF CallInv, AnswerInv, At
<1>7. LogInv'
  BY <1>1, <1>2, LogStays
<1> QED BY <1>1, <1>2, <1>3, <1>5, <1>6, <1>7, OneWorks

(* Nothing of this is about whether the stored requests are intact. *)
LEMMA StutterStep ==
  ASSUME IInv, UNCHANGED <<log, lock, pc, call, started, answer>>, intact' \in BOOLEAN
  PROVE  IInv'
<1>1. LockInv' /\ LogInv'
  BY LogStays DEF IInv, LockInv, At
<1>2. ASSUME NEW p \in Procs
      PROVE  CallInv(p)' /\ AnswerInv(p)'
  <2>1. CallInv(p) /\ AnswerInv(p)
    BY <1>2 DEF IInv
  <2>2. ReplayFits(call[p])' = ReplayFits(call[p]) /\ RunFits(call[p])' = RunFits(call[p])
    BY DEF ReplayFits, RunFits, Admissions, HasOutcome, RecordedApprovals
  <2>3. Admission(call[p])' = Admission(call[p])
    BY DEF Admission
  <2>4. CallInv(p)'
    BY <2>1, <2>2, <2>3 DEF CallInv, At
  <2> QED BY <2>1, <2>4, LogStays, AnswerStays DEF IInv
<1> QED BY <1>1, <1>2 DEF IInv

LEMMA StepInv == IInv /\ [Next]_vars => IInv'
<1> SUFFICES ASSUME IInv, [Next]_vars PROVE IInv'
  OBVIOUS
<1>1. ASSUME NEW p \in Procs, Start(p)
      PROVE  IInv'
  BY <1>1, StartRunStep, StartReplayStep DEF Start
<1>2. ASSUME NEW p \in Procs, Replay(p)
      PROVE  IInv'
  BY <1>2, ReplayEnds, ReplayRunsStep DEF Replay
<1>3. ASSUME NEW p \in Procs, Execution(p)
      PROVE  IInv'
  BY <1>3, AdmitStep, AdmitFailsStep, LaunchStep, CommandEndsStep, OutcomeStep, LeaveStep
  DEF Execution
<1>4. ASSUME NEW p \in Procs, Kill(p)
      PROVE  IInv'
  BY <1>4, LeaveStep
<1>5. CASE Alter
  BY <1>5, StutterStep DEF Alter
<1>6. CASE UNCHANGED vars
  <2>1. UNCHANGED <<log, lock, pc, call, started, answer>> /\ intact' = intact
    BY <1>6 DEF vars
  <2> QED BY <2>1, StutterStep DEF IInv
<1> QED BY <1>1, <1>2, <1>3, <1>4, <1>5, <1>6 DEF Next

----------------------------------------------------------------------------
(* Theorems *)

(* Whatever fails and whoever is killed, the process that works knows what  *)
(* the log says of its call, and the log what was started.                  *)
THEOREM Invariance == Spec => []IInv
BY InitInv, StepInv, PTL DEF Spec

(* The state of gateway and replay is what the code can make of it. *)
THEOREM TypeCorrect == Spec => []TypeOK
<1>1. IInv => TypeOK
  <2> SUFFICES ASSUME IInv PROVE TypeOK
    OBVIOUS
  <2>1. Len(log) \in 0 .. MaxLog /\ DOMAIN log \subseteq 1 .. MaxLog
    BY BoundIsPositive DEF IInv, LogInv
  <2>2. started \subseteq 1 .. MaxLog
    BY <2>1 DEF IInv, LogInv, Admissions
  <2>3. /\ lock \in Procs \cup {None} /\ pc \in [Procs -> Labels]
        /\ \A p \in Procs : lock = p => pc[p] # "idle"
    BY DEF IInv, LockInv, At
  <2>4. \A p \in Procs : answer[p] # None => answer[p].verdict \in Verdicts
    BY DEF IInv, AnswerInv
  <2> QED BY <2>1, <2>2, <2>3, <2>4 DEF IInv, TypeOK
<1> QED BY <1>1, Invariance, PTL

(* No command ever starts that is not admitted in the log already, and none *)
(* that is prohibited; an outcome stands right behind the admission whose   *)
(* command was started (Run in gateway.go, under the one home lock).        *)
THEOREM LogAlwaysAccounts == Spec => []LogAccountsForRuns
<1>1. IInv => LogAccountsForRuns
  <2> SUFFICES ASSUME IInv PROVE LogAccountsForRuns
    OBVIOUS
  <2>1. ASSUME NEW a \in started
        PROVE  /\ a \in DOMAIN log /\ log[a].action = "execute" /\ log[a].executed
               /\ log[a].class # "PROHIBITED"
    <3>1. a \in DOMAIN log /\ log[a].action = "execute" /\ log[a].executed
      BY <2>1 DEF IInv, LogInv, Admissions
    <3>2. log[a] \in Requests
      BY <3>1 DEF IInv, LogInv
    <3> QED BY <3>1, <3>2, RequestFacts
  <2> QED BY <2>1 DEF LogAccountsForRuns, IInv, LogInv
<1> QED BY <1>1, Invariance, PTL

(* What a replay of a check or of a refusal calls a divergence is a change  *)
(* of the rules: reconstructed posture and approvals (RecordedApprovals)    *)
(* decide what the original ones decided.                                   *)
THEOREM DivergencesAreRuleChanges == Spec => []DivergenceIsARuleChange
<1>1. IInv => DivergenceIsARuleChange
  BY DEF IInv, AnswerInv, DivergenceIsARuleChange
<1> QED BY <1>1, Invariance, PTL

(* Only Launch starts anything, and only the holder of the lock is there. *)
LEMMA OnlyLaunchStarts ==
  ASSUME IInv, [Next]_vars, NEW p \in Procs, Starts(p)
  PROVE  Launch(p) /\ At(p, "launch")
<1>1. PICK a \in started' \ started : call[p] # None /\ call[p].admission = a
  BY DEF Starts
<1>2. PICK q \in Procs : Launch(q)
  <2>1. ASSUME NEW q \in Procs, Start(q) \/ Replay(q)
        PROVE  started' = started
    BY <2>1 DEF Start, StartRun, StartReplay, Replay, ReplayTampered, ReplayNothing,
                ReplayIncomplete, ReplayUnexecuted, ReplayExecuted, Finished, RunAgain
  <2>2. ASSUME NEW q \in Procs, Execution(q) \/ Kill(q), ~Launch(q)
        PROVE  started' = started
    BY <2>2 DEF Execution, Admit, AdmitFails, CommandEnds, RecordOutcome, OutcomeFails, Finish, Kill
  <2>3. Alter \/ UNCHANGED vars => started' = started
    BY DEF Alter, vars
  <2>4. started' # started
    BY <1>1
  <2> QED BY <2>1, <2>2, <2>3, <2>4 DEF Next
<1>3. lock = q /\ lock = p
  BY <1>1, <1>2 DEF IInv, LockInv, Launch, At
<1> QED BY <1>2, <1>3 DEF Launch

(* Whatever posture and approvals let a run through before, a replay starts *)
(* it only under the enforce posture, with the approvals of this call, and  *)
(* only when it ran to its end before.                                      *)
THEOREM ReplaysRunWhatTheyMay == Spec => ReplayRunsWhatItMay
<1>1. IInv /\ [Next]_vars =>
        [\A p \in Procs : Starts(p) /\ call[p].kind = "replay" =>
           /\ Decide(ClassOf[call[p].version][call[p].line], "enforce", call[p].given).outcome
                = "ADMITTED"
           /\ \E j \in DOMAIN log :
                log[j].action = "record-outcome" /\ log[j].admission = call[p].selected]_vars
  <2> SUFFICES ASSUME IInv, [Next]_vars, NEW p \in Procs, Starts(p), call[p].kind = "replay"
               PROVE  /\ Decide(ClassOf[call[p].version][call[p].line], "enforce",
                                call[p].given).outcome = "ADMITTED"
                      /\ \E j \in DOMAIN log :
                           log[j].action = "record-outcome" /\ log[j].admission = call[p].selected
    OBVIOUS
  <2>1. At(p, "launch")
    BY OnlyLaunchStarts
  <2>2. call[p] \in Calls /\ call[p].line \in Lines /\ ReplayFits(call[p])
    BY <2>1, CallHasLine
  <2>3. Admission(call[p]).executed
    BY <2>1 DEF IInv, CallInv
  <2>4. /\ ~call[p].dryRun
        /\ Decide(ClassOf[call[p].version][call[p].line], call[p].posture, call[p].approvals).outcome
             = "ADMITTED"
    BY <2>2, <2>3, AdmissionOfCall
  <2>5. call[p].posture = "enforce" /\ call[p].approvals = call[p].given /\ HasOutcome(call[p].selected)
    BY <2>2, <2>4 DEF ReplayFits
  <2> QED BY <2>4, <2>5 DEF HasOutcome
<1> QED BY <1>1, Invariance, PTL DEF Spec, ReplayRunsWhatItMay

-----------------------------------------------------------------------------
(***************************************************************************)
(* PART TWO.  What wrappers and names of the executable cannot change.     *)
(* Steps is a recursive function: that it exists, and what it computes from *)
(* each position, follows from the first position at which it would not.   *)
(***************************************************************************)

(* A least element of a set of numbers, which Min picks. *)
LEMMA LeastNumber ==
  ASSUME NEW S, S \subseteq Nat, S # {}
  PROVE  Min(S) \in S /\ \A n \in S : Min(S) <= n
<1> DEFINE less == {pair \in Nat \X Nat : pair[1] < pair[2]}
<1>1. IsWellFoundedOn(less, Nat)
  BY NatLessThanWellFounded DEF OpToRel
<1>2. \A m, n \in Nat : m < n => <<m, n>> \in less
  OBVIOUS
<1> HIDE DEF less
<1>3. PICK m \in S : \A n \in S : <<n, m>> \notin less
  BY <1>1, WFMin
<1>4. \A n \in S : m <= n
  <2> TAKE n \in S
  <2>1. m \in Nat /\ n \in Nat
    OBVIOUS
  <2>2. ~ (n < m)
    BY <1>2, <1>3, <2>1
  <2> QED BY <2>1, <2>2
<1> QED BY <1>4 DEF Min

(* Where the wrapper stops owning tokens, and that it is the only place. *)
LEMMA AfterOwnedIs ==
  ASSUME NEW T, NEW line \in Seq(T), NEW i \in 1 .. Len(line) + 1, NEW w
  PROVE  /\ AfterOwned(line, i, w) \in i .. Len(line) + 1
         /\ \A j \in i .. Len(line) : j < AfterOwned(line, i, w) => OwnedBy(w, line[j])
         /\ AfterOwned(line, i, w) <= Len(line) => ~ OwnedBy(w, line[AfterOwned(line, i, w)])
<1> DEFINE ends == {j \in i .. Len(line) + 1 : j <= Len(line) => ~ OwnedBy(w, line[j])}
<1>1. Len(line) \in Nat /\ ends \subseteq Nat /\ Len(line) + 1 \in ends
  OBVIOUS
<1>2. AfterOwned(line, i, w) = Min(ends)
  BY DEF AfterOwned
<1>3. Min(ends) \in ends /\ \A j \in ends : Min(ends) <= j
  BY <1>1, LeastNumber
<1>4. ASSUME NEW j \in i .. Len(line), j < Min(ends) PROVE OwnedBy(w, line[j])
  <2>1. j \notin ends
    BY <1>1, <1>3, <1>4
  <2> QED BY <2>1
<1> QED BY <1>2, <1>3, <1>4

LEMMA AfterOwnedAt ==
  ASSUME NEW T, NEW line \in Seq(T), NEW i \in 1 .. Len(line) + 1, NEW w,
         NEW k \in i .. Len(line) + 1, \A j \in i .. k - 1 : OwnedBy(w, line[j]),
         k <= Len(line) => ~ OwnedBy(w, line[k])
  PROVE  AfterOwned(line, i, w) = k
<1> DEFINE a == AfterOwned(line, i, w)
<1>1. /\ a \in i .. Len(line) + 1 /\ Len(line) \in Nat
      /\ \A j \in i .. Len(line) : j < a => OwnedBy(w, line[j])
      /\ a <= Len(line) => ~ OwnedBy(w, line[a])
  BY AfterOwnedIs
<1> HIDE DEF a
<1>2. ~ (a < k)
  <2> SUFFICES ASSUME a < k PROVE FALSE
    OBVIOUS
  <2>1. a \in i .. k - 1 /\ a <= Len(line)
    BY <1>1
  <2> QED BY <1>1, <2>1
<1>3. ~ (k < a)
  <2> SUFFICES ASSUME k < a PROVE FALSE
    OBVIOUS
  <2>1. k \in i .. Len(line)
    BY <1>1
  <2> QED BY <1>1, <2>1
<1>4. a = k
  BY <1>1, <1>2, <1>3
<1> QED BY <1>4 DEF a

----------------------------------------------------------------------------
(* What unwrap finds from each position on. *)

Stops(line, i) == i > Len(line) \/ Base(line[i]) \notin Wrappers
After(line, i) == AfterOwned(line, i + 1, Base(line[i]))

StepAt(line, g, i) ==
  IF Stops(line, i) THEN [at |-> i, elevated |-> FALSE]
  ELSE [at       |-> g[After(line, i)].at,
        elevated |-> g[After(line, i)].elevated \/ Base(line[i]) \in Elevating]

LEMMA AfterIsLater ==
  ASSUME NEW T, NEW line \in Seq(T), NEW i \in 1 .. Len(line) + 1, ~ Stops(line, i)
  PROVE  After(line, i) \in i + 1 .. Len(line) + 1 /\ i \in 1 .. Len(line)
<1>1. Len(line) \in Nat /\ i \in 1 .. Len(line) /\ i + 1 \in 1 .. Len(line) + 1
  BY DEF Stops
<1> QED BY <1>1, AfterOwnedIs DEF After

(* The recursion has a solution: from the end of the line backwards. *)
LEMMA StepsExist ==
  ASSUME NEW T, NEW line \in Seq(T)
  PROVE  \E g : g = [i \in 1 .. Len(line) + 1 |-> StepAt(line, g, i)]
<1> DEFINE n    == Len(line) + 1
           From(m) == n - m .. n
           Solves(g, m) == \A i \in From(m) : g[i] = StepAt(line, g, i)
           bad  == {m \in 0 .. n - 1 : ~ \E g : Solves(g, m)}
<1>1. n \in Nat /\ n >= 1 /\ n > Len(line)
  OBVIOUS
<1>2. \E g : Solves(g, 0)
  <2> DEFINE g == [i \in {n} |-> [at |-> n, elevated |-> FALSE]]
  <2>1. From(0) = {n} /\ g[n] = [at |-> n, elevated |-> FALSE]
    BY <1>1
  <2>2. Stops(line, n)
    BY <1>1 DEF Stops
  <2>3. Solves(g, 0)
    BY <2>1, <2>2 DEF StepAt
  <2> QED BY <2>3
<1>3. ASSUME NEW m \in 1 .. n - 1, NEW g, Solves(g, m - 1)
      PROVE  \E h : Solves(h, m)
  <2> DEFINE k == n - m
             h == [i \in From(m) |-> IF i = k THEN StepAt(line, g, k) ELSE g[i]]
  <2>1. k \in 1 .. n - 1 /\ From(m) = {k} \cup From(m - 1) /\ From(m - 1) = k + 1 .. n
    BY <1>1
  <2>2. \A i \in From(m - 1) : h[i] = g[i] /\ i \in 1 .. n
    BY <1>1, <2>1
  <2>3. h[k] = StepAt(line, g, k)
    BY <2>1
  <2> HIDE DEF h
  <2>4. ASSUME NEW i \in From(m) PROVE StepAt(line, h, i) = StepAt(line, g, i)
    <3>1. i \in 1 .. Len(line) + 1 /\ i >= k
      BY <1>1, <2>1
    <3>2. CASE Stops(line, i)
      BY <3>2 DEF StepAt
    <3>3. CASE ~ Stops(line, i)
      <4>1. After(line, i) \in i + 1 .. n
        BY <3>1, <3>3, AfterIsLater
      <4>2. After(line, i) \in From(m - 1)
        BY <1>1, <2>1, <3>1, <4>1
      <4> QED BY <2>2, <4>2 DEF StepAt
    <3> QED BY <3>2, <3>3
  <2>5. \A i \in From(m) : h[i] = StepAt(line, g, i)
    BY <2>1, <2>2, <2>3, <1>3
  <2>6. Solves(h, m)
    BY <2>4, <2>5
  <2> QED BY <2>6
<1>4. bad = {}
  <2> SUFFICES ASSUME bad # {} PROVE FALSE
    OBVIOUS
  <2>1. bad \subseteq Nat
    BY <1>1
  <2>2. Min(bad) \in bad /\ \A m \in bad : Min(bad) <= m
    BY <2>1, LeastNumber
  <2> DEFINE b == Min(bad)
  <2> HIDE DEF b
  <2>3. b \in bad /\ \A m \in bad : b <= m
    BY <2>2 DEF b
  <2>4. b \in 0 .. n - 1 /\ ~ \E g : Solves(g, b)
    BY <2>3
  <2>5. b # 0
    BY <1>2, <2>4
  <2>6. b \in 1 .. n - 1 /\ b - 1 \in 0 .. n - 1 /\ ~ (b <= b - 1)
    BY <1>1, <2>4, <2>5
  <2>7. b - 1 \notin bad
    BY <2>3, <2>6
  <2>8. PICK g : Solves(g, b - 1)
    BY <2>6, <2>7
  <2> QED BY <1>3, <2>4, <2>6, <2>8
<1>5. PICK g : Solves(g, n - 1)
  <2>1. n - 1 \in 0 .. n - 1
    BY <1>1
  <2> QED BY <1>4, <2>1
<1> DEFINE h == [i \in 1 .. n |-> g[i]]
<1>6. From(n - 1) = 1 .. n
  BY <1>1
<1>7. \A i \in 1 .. n : g[i] = StepAt(line, g, i)
  BY <1>5, <1>6
<1>8. \A i \in 1 .. n : h[i] = g[i]
  OBVIOUS
<1> HIDE DEF h
<1>9. ASSUME NEW i \in 1 .. n PROVE StepAt(line, h, i) = StepAt(line, g, i)
  <2>1. CASE Stops(line, i)
    BY <2>1 DEF StepAt
  <2>2. CASE ~ Stops(line, i)
    <3>1. After(line, i) \in 1 .. n
      <4>1. After(line, i) \in i + 1 .. n
        BY <2>2, AfterIsLater
      <4> QED BY <1>1, <4>1
    <3> QED BY <1>8, <3>1 DEF StepAt
  <2> QED BY <2>1, <2>2
<1>10. h = [i \in 1 .. n |-> StepAt(line, h, i)]
  <2>1. \A i \in 1 .. n : g[i] = StepAt(line, h, i)
    BY <1>7, <1>9
  <2> QED BY <2>1 DEF h
<1> QED BY <1>10

EndFrom(line, i)  == Steps(line)[i].at
Elevates(line, i) == Steps(line)[i].elevated = TRUE

LEMMA StepsUnfold ==
  ASSUME NEW T, NEW line \in Seq(T), NEW i \in 1 .. Len(line) + 1
  PROVE  /\ Stops(line, i) => EndFrom(line, i) = i /\ ~ Elevates(line, i)
         /\ ~ Stops(line, i) =>
              /\ EndFrom(line, i) = EndFrom(line, After(line, i))
              /\ Elevates(line, i) <=> \/ Elevates(line, After(line, i))
                                      \/ Base(line[i]) \in Elevating
<1>1. Steps(line) = CHOOSE f : f = [j \in 1 .. Len(line) + 1 |-> StepAt(line, f, j)]
  BY DEF Steps, StepAt, Stops, After
<1>2. Steps(line) = [j \in 1 .. Len(line) + 1 |-> StepAt(line, Steps(line), j)]
  BY <1>1, StepsExist
<1>3. Steps(line)[i] = StepAt(line, Steps(line), i)
  BY <1>2
<1> DEFINE g == Steps(line)
           s == g[i]
           e == g[After(line, i)].elevated \/ Base(line[i]) \in Elevating
<1>4. s = StepAt(line, g, i)
  BY <1>3
<1> HIDE DEF s, g
<1>5. Stops(line, i) => s = [at |-> i, elevated |-> FALSE]
  BY <1>4 DEF StepAt
<1>6. ~ Stops(line, i) => s = [at |-> g[After(line, i)].at, elevated |-> e]
  BY <1>4 DEF StepAt
<1>7. e = TRUE <=> (g[After(line, i)].elevated = TRUE \/ Base(line[i]) \in Elevating)
  OBVIOUS
<1> HIDE DEF e
<1>8. /\ Stops(line, i) => s.at = i /\ s.elevated = FALSE
      /\ ~ Stops(line, i) => s.at = g[After(line, i)].at /\ s.elevated = e
  BY <1>5, <1>6
<1>9. EndFrom(line, i) = s.at /\ (Elevates(line, i) <=> s.elevated = TRUE)
  BY DEF EndFrom, Elevates, s, g
<1>10. /\ EndFrom(line, After(line, i)) = g[After(line, i)].at
       /\ Elevates(line, After(line, i)) <=> g[After(line, i)].elevated = TRUE
  BY DEF EndFrom, Elevates, g
<1> QED BY <1>7, <1>8, <1>9, <1>10

(* A backward induction along the line: what holds where a wrapper chain    *)
(* stops, and at a wrapper when it holds after what the wrapper owns, holds *)
(* everywhere.                                                             *)
LEMMA AlongTheLine ==
  ASSUME NEW T, NEW line \in Seq(T), NEW good,
         \A i \in 1 .. Len(line) + 1 : Stops(line, i) => i \in good,
         \A i \in 1 .. Len(line) + 1 : ~ Stops(line, i) /\ After(line, i) \in good => i \in good
  PROVE  1 .. Len(line) + 1 \subseteq good
<1> DEFINE n    == Len(line) + 1
           left == {m \in 0 .. n - 1 : n - m \notin good}
<1>1. n \in Nat /\ n >= 1 /\ left \subseteq Nat
  OBVIOUS
<1>2. left = {}
  <2> SUFFICES ASSUME left # {} PROVE FALSE
    OBVIOUS
  <2> DEFINE b == Min(left)
  <2>1. b \in left /\ \A m \in left : b <= m
    BY <1>1, LeastNumber
  <2> HIDE DEF b
  <2>2. b \in 0 .. n - 1 /\ n - b \notin good /\ n - b \in 1 .. n
    BY <1>1, <2>1
  <2>3. ~ Stops(line, n - b)
    BY <2>2
  <2>4. After(line, n - b) \in n - b + 1 .. n
    BY <2>2, <2>3, AfterIsLater
  <2> DEFINE c == n - After(line, n - b)
  <2>5. c \in 0 .. n - 1 /\ ~ (b <= c) /\ n - c = After(line, n - b)
    BY <1>1, <2>2, <2>4
  <2>6. After(line, n - b) \in good
    BY <2>1, <2>5
  <2> QED BY <2>2, <2>3, <2>6
<1>3. ASSUME NEW i \in 1 .. n PROVE i \in good
  <2>1. n - i \in 0 .. n - 1 /\ n - (n - i) = i
    BY <1>1
  <2> QED BY <1>2, <2>1
<1> QED BY <1>3

(* The wrappers end at a place of the line where no wrapper stands. *)
LEMMA StepsEnd ==
  ASSUME NEW T, NEW line \in Seq(T)
  PROVE  \A i \in 1 .. Len(line) + 1 :
           /\ EndFrom(line, i) \in i .. Len(line) + 1
           /\ Stops(line, EndFrom(line, i))
<1> DEFINE n    == Len(line) + 1
           Ends(i) == EndFrom(line, i) \in i .. n /\ Stops(line, EndFrom(line, i))
           good == {i \in 1 .. n : Ends(i)}
<1>2. ASSUME NEW i \in 1 .. n, Stops(line, i) PROVE i \in good
  <2>1. EndFrom(line, i) = i
    BY <1>2, StepsUnfold
  <2> QED BY <1>2, <2>1
<1>3. ASSUME NEW i \in 1 .. n, ~ Stops(line, i), After(line, i) \in good PROVE i \in good
  <2>1. EndFrom(line, i) = EndFrom(line, After(line, i))
    BY <1>3, StepsUnfold
  <2>2. After(line, i) \in i + 1 .. n
    BY <1>3, AfterIsLater
  <2>3. EndFrom(line, After(line, i)) \in After(line, i) .. n
    BY <1>3
  <2>4. EndFrom(line, i) \in i .. n
    BY <2>1, <2>2, <2>3
  <2>5. Stops(line, EndFrom(line, i))
    BY <1>3, <2>1
  <2> QED BY <2>4, <2>5
<1> HIDE DEF good
<1>4. 1 .. n \subseteq good
  BY <1>2, <1>3, AlongTheLine
<1> QED BY <1>4 DEF good

(* Tokens in front of a line move what unwrap finds in it, and change       *)
(* nothing else.                                                           *)
LEMMA StepsShift ==
  ASSUME NEW T, NEW line \in Seq(T), NEW own \in Seq(T)
  PROVE  \A i \in 1 .. Len(line) + 1 :
           /\ EndFrom(own \o line, Len(own) + i) = Len(own) + EndFrom(line, i)
           /\ (Elevates(own \o line, Len(own) + i) <=> Elevates(line, i))
<1> DEFINE n    == Len(line) + 1
           k    == Len(own)
           longer == own \o line
           Shifted(i) == /\ EndFrom(longer, k + i) = k + EndFrom(line, i)
                         /\ (Elevates(longer, k + i) <=> Elevates(line, i))
           good == {i \in 1 .. n : Shifted(i)}
<1>1. /\ longer \in Seq(T) /\ Len(longer) = k + Len(line) /\ k \in Nat /\ Len(line) \in Nat
      /\ \A i \in 1 .. Len(line) : longer[k + i] = line[i]
  OBVIOUS
<1> HIDE DEF longer
<1>2. \A i \in 1 .. n : k + i \in 1 .. Len(longer) + 1
  BY <1>1
<1>4. ASSUME NEW i \in 1 .. n PROVE Stops(longer, k + i) <=> Stops(line, i)
  BY <1>1 DEF Stops
<1>5. ASSUME NEW i \in 1 .. n, Stops(line, i) PROVE i \in good
  <2>1. EndFrom(line, i) = i /\ ~ Elevates(line, i)
    BY <1>5, StepsUnfold
  <2>2. Stops(longer, k + i) /\ k + i \in 1 .. Len(longer) + 1
    BY <1>2, <1>4, <1>5
  <2>3. EndFrom(longer, k + i) = k + i /\ ~ Elevates(longer, k + i)
    BY <1>1, <2>2, StepsUnfold
  <2> QED BY <2>1, <2>3
<1>6. ASSUME NEW i \in 1 .. n, ~ Stops(line, i) PROVE After(longer, k + i) = k + After(line, i)
  <2> DEFINE w == Base(line[i])
             a == After(line, i)
  <2>1. i \in 1 .. Len(line) /\ i + 1 \in 1 .. n /\ a \in i + 1 .. n
    BY <1>1, <1>6, AfterIsLater
  <2>2. a = AfterOwned(line, i + 1, w) /\ Base(longer[k + i]) = w
    BY <1>1, <2>1 DEF After
  <2>3. /\ \A j \in i + 1 .. Len(line) : j < a => OwnedBy(w, line[j])
        /\ a <= Len(line) => ~ OwnedBy(w, line[a])
    BY <2>1, <2>2, AfterOwnedIs
  <2> DEFINE to == k + a
             from == k + i + 1
  <2> HIDE DEF a, w
  <2>4. \A j \in from .. to - 1 : OwnedBy(w, longer[j])
    <3> TAKE j \in from .. to - 1
    <3>1. j - k \in i + 1 .. Len(line) /\ j - k < a /\ k + (j - k) = j
      BY <1>1, <2>1
    <3>2. longer[j] = line[j - k]
      BY <1>1, <2>1, <3>1
    <3> QED BY <2>3, <3>1, <3>2
  <2>5. to <= Len(longer) => ~ OwnedBy(w, longer[to])
    BY <1>1, <2>1, <2>3
  <2>6. from \in 1 .. Len(longer) + 1 /\ to \in from .. Len(longer) + 1
    BY <1>1, <2>1
  <2> HIDE DEF to, from
  <2>6a. AfterOwned(longer, from, w) = to
    BY <1>1, <2>4, <2>5, <2>6, AfterOwnedAt
  <2>7. AfterOwned(longer, k + i + 1, w) = k + a
    BY <2>6a DEF to, from
  <2> QED BY <2>2, <2>7 DEF After, a
<1>7. ASSUME NEW i \in 1 .. n, ~ Stops(line, i), After(line, i) \in good PROVE i \in good
  <2>1. /\ EndFrom(line, i) = EndFrom(line, After(line, i))
        /\ Elevates(line, i) <=> (Elevates(line, After(line, i)) \/ Base(line[i]) \in Elevating)
    BY <1>7, StepsUnfold
  <2>2. k + i \in 1 .. Len(longer) + 1 /\ i \in 1 .. Len(line)
    BY <1>2, <1>7, AfterIsLater
  <2>3. ~ Stops(longer, k + i)
    BY <1>4, <1>7
  <2>3a. After(longer, k + i) = k + After(line, i)
    BY <1>6, <1>7
  <2>4. /\ EndFrom(longer, k + i) = EndFrom(longer, After(longer, k + i))
        /\ Elevates(longer, k + i) <=> \/ Elevates(longer, After(longer, k + i))
                                       \/ Base(longer[k + i]) \in Elevating
    BY <1>1, <2>2, <2>3, StepsUnfold
  <2>5. Base(longer[k + i]) = Base(line[i])
    BY <1>1, <2>2
  <2>6. Shifted(After(line, i))
    BY <1>7
  <2> QED BY <2>1, <2>3a, <2>4, <2>5, <2>6
<1> HIDE DEF good
<1>8. 1 .. n \subseteq good
  BY <1>5, <1>7, AlongTheLine
<1> QED BY <1>8 DEF good, longer

----------------------------------------------------------------------------
(* A wrapper in front of a line *)

TypedToken ==
  Commands \cup Arguments \cup Assignments \cup Values \cup UNION {Takes[w] : w \in Wrappers}

LEMMA BoundedTyped ==
  ASSUME NEW T, NEW m \in Int, NEW s \in BoundedSeq(T, m)
  PROVE  s \in Seq(T)
<1>1. BoundedSeq(T, m) = UNION {[1 .. l -> T] : l \in 0 .. m}
  BY DEF BoundedSeq, SeqOf
<1>2. PICK l \in 0 .. m : s \in [1 .. l -> T]
  BY <1>1
<1>3. l \in Nat
  OBVIOUS
<1> QED BY <1>2, <1>3

LEMMA LinesTyped ==
  ASSUME NEW line \in CommandLines
  PROVE  line \in Seq(TypedToken) /\ Len(line) >= 1 /\ line[1] \in Commands
<1>1. PICK name \in Commands : \E rest \in BoundedSeq(Arguments, MaxTokens - 1) :
        line = <<name>> \o rest
  BY Zenon DEF CommandLines
<1>1a. PICK rest \in BoundedSeq(Arguments, MaxTokens - 1) : line = <<name>> \o rest
  BY <1>1
<1>3. rest \in Seq(Arguments)
  BY <1>1a, TokensAreCounted, BoundedTyped
<1>4. rest \in Seq(TypedToken) /\ <<name>> \in Seq(TypedToken)
  BY <1>3 DEF TypedToken
<1> QED BY <1>1a, <1>4

LEMMA OwnTyped ==
  ASSUME NEW w \in Commands, Base(w) \in Wrappers, NEW own \in OwnTokens(w)
  PROVE  own \in Seq(TypedToken) /\ Len(own) \in Nat /\ Len(own) >= 1 /\ own[1] = w
<1> DEFINE tokens == Takes[Base(w)] \cup Assignments \cup Values
<1>1. PICK rest \in BoundedSeq(tokens, MaxOwn) : own = <<w>> \o rest
  BY DEF OwnTokens
<1>2. rest \in Seq(tokens)
  BY TokensAreCounted, BoundedTyped
<1>3. tokens \subseteq TypedToken /\ w \in TypedToken
  BY DEF TypedToken
<1> HIDE DEF tokens
<1>4. rest \in Seq(TypedToken) /\ <<w>> \in Seq(TypedToken)
  BY <1>2, <1>3
<1> QED BY <1>1, <1>4

(* A wrapper's chain ends among its own tokens or where that of the line    *)
(* ends: a command is not the wrapper's.  It ends in the line if the gate   *)
(* knows all of these tokens.                                               *)
LEMMA EnclosedSteps ==
  ASSUME NEW line \in CommandLines, NEW w \in Commands, Base(w) \in Wrappers,
         NEW own \in OwnTokens(w)
  PROVE  \/ /\ EndFrom(own \o line, 1) = Len(own) + EndFrom(line, 1)
            /\ Elevates(line, 1) => Elevates(own \o line, 1)
         \/ EndFrom(own \o line, 1) \in 2 .. Len(own) /\ ~ KnowsAll(own)
<1> DEFINE longer == own \o line
           k == Len(own)
           n == Len(longer) + 1
<1>1. line \in Seq(TypedToken) /\ Len(line) >= 1 /\ line[1] \in Commands
  BY LinesTyped
<1>2. own \in Seq(TypedToken) /\ k \in Nat /\ k >= 1 /\ own[1] = w
  BY OwnTyped
<1>3. /\ longer \in Seq(TypedToken) /\ Len(longer) = k + Len(line) /\ longer[1] = w
      /\ longer[k + 1] = line[1] /\ \A i \in 1 .. k : longer[i] = own[i]
  BY <1>1, <1>2
<1>4. \A i \in 1 .. Len(line) + 1 :
        /\ EndFrom(longer, k + i) = k + EndFrom(line, i)
        /\ Elevates(longer, k + i) <=> Elevates(line, i)
  BY <1>1, <1>2, StepsShift
<1> HIDE DEF longer, k
<1>5. /\ n \in Nat /\ 1 \in 1 .. n /\ 2 \in 1 .. n /\ k + 1 \in 2 .. n /\ k + 1 <= Len(longer)
      /\ 1 \in 1 .. Len(line) + 1
  BY <1>1, <1>2, <1>3
<1>6. \A wrapper : ~ OwnedBy(wrapper, longer[k + 1])
  BY <1>1, <1>3, CommandsAreNames DEF OwnedBy
<1> DEFINE here == k + 1
           Fine(i) == \/ EndFrom(longer, i) <= k
                      \/ /\ EndFrom(longer, i) = EndFrom(longer, here)
                         /\ Elevates(longer, here) => Elevates(longer, i)
           good == {i \in 1 .. n : i <= k => Fine(i)}
<1>7. ASSUME NEW i \in 1 .. n, Stops(longer, i) PROVE i \in good
  <2>1. EndFrom(longer, i) = i
    BY <1>3, <1>7, StepsUnfold
  <2> QED BY <2>1
<1>8. ASSUME NEW i \in 1 .. n, ~ Stops(longer, i), After(longer, i) \in good PROVE i \in good
  <2> SUFFICES ASSUME i <= k PROVE Fine(i)
    OBVIOUS
  <2> DEFINE a == After(longer, i)
  <2>1. a \in i + 1 .. n /\ i \in 1 .. Len(longer)
    BY <1>3, <1>8, AfterIsLater
  <2>2. ~ (here < a)
    <3> DEFINE from == i + 1
    <3>1. from \in 1 .. n /\ a = AfterOwned(longer, from, Base(longer[i]))
      BY <2>1 DEF After
    <3>2. here \in from .. Len(longer)
      BY <1>2, <1>5
    <3> HIDE DEF from, a
    <3>3. \A j \in from .. Len(longer) : j < a => OwnedBy(Base(longer[i]), longer[j])
      BY <1>3, <3>1, AfterOwnedIs
    <3> QED BY <1>6, <3>2, <3>3
  <2>3. /\ EndFrom(longer, i) = EndFrom(longer, a)
        /\ Elevates(longer, a) => Elevates(longer, i)
    BY <1>3, <1>8, StepsUnfold
  <2>4. a <= k \/ a = here
    BY <1>2, <2>1, <2>2
  <2> HIDE DEF a, here
  <2>5. CASE a = here
    BY <2>3, <2>5
  <2>6. CASE a <= k
    <3>1. Fine(a)
      BY <1>8, <2>6 DEF a
    <3> QED BY <2>3, <3>1
  <2> QED BY <2>4, <2>5, <2>6
<1> HIDE DEF good
<1>9. 1 .. n \subseteq good
  BY <1>3, <1>7, <1>8, AlongTheLine
<1>10. Fine(1)
  BY <1>2, <1>5, <1>9 DEF good
<1>11. ~ Stops(longer, 1)
  BY <1>3, <1>5 DEF Stops
<1>12. /\ EndFrom(longer, 1) = EndFrom(longer, After(longer, 1))
       /\ Elevates(longer, After(longer, 1)) => Elevates(longer, 1)
       /\ After(longer, 1) \in 2 .. n
  BY <1>3, <1>5, <1>11, StepsUnfold, AfterIsLater
<1>13. EndFrom(longer, After(longer, 1)) \in After(longer, 1) .. n
  <2> DEFINE a == After(longer, 1)
  <2>1. a \in 1 .. n
    BY <1>12
  <2> HIDE DEF a
  <2> QED BY <1>3, <2>1, StepsEnd DEF a
<1>14. EndFrom(longer, 1) \in 2 .. n
  BY <1>5, <1>12, <1>13
<1>15. /\ EndFrom(longer, here) = k + EndFrom(line, 1)
       /\ Elevates(longer, here) <=> Elevates(line, 1)
  BY <1>4, <1>5
<1>16. ASSUME KnowsAll(own) PROVE After(longer, 1) = here
  <2>1. \A j \in 2 .. here - 1 : OwnedBy(Base(w), longer[j])
    <3> TAKE j \in 2 .. here - 1
    <3>1. j \in 2 .. k /\ j \in 1 .. k
      BY <1>2
    <3>2. OwnedBy(Base(w), own[j])
      BY <1>2, <1>16, <3>1 DEF KnowsAll, k
    <3> QED BY <1>3, <3>1, <3>2
  <2>2. ~ OwnedBy(Base(w), longer[here]) /\ here \in 2 .. Len(longer) + 1
    BY <1>5, <1>6
  <2>2a. longer \in Seq(TypedToken) /\ 2 \in 1 .. Len(longer) + 1
    BY <1>3, <1>5
  <2> DEFINE wrapper == Base(w)
  <2>2b. /\ \A j \in 2 .. here - 1 : OwnedBy(wrapper, longer[j])
         /\ here <= Len(longer) => ~ OwnedBy(wrapper, longer[here])
    BY <2>1, <2>2
  <2> HIDE DEF here, wrapper
  <2>2c. AfterOwned(longer, 2, wrapper) = here
    BY <2>2, <2>2a, <2>2b, AfterOwnedAt
  <2>3. AfterOwned(longer, 2, Base(w)) = here
    BY <2>2c DEF wrapper
  <2> QED BY <1>3, <2>3 DEF After
<1> HIDE DEF here
<1>17. \/ /\ EndFrom(longer, 1) = k + EndFrom(line, 1)
          /\ Elevates(line, 1) => Elevates(longer, 1)
       \/ EndFrom(longer, 1) \in 2 .. k /\ ~ KnowsAll(own)
  <2>1. CASE KnowsAll(own)
    BY <1>12, <1>15, <1>16, <2>1
  <2>2. CASE ~ KnowsAll(own)
    <3>1. EndFrom(longer, 1) <= k => EndFrom(longer, 1) \in 2 .. k
      BY <1>2, <1>14
    <3> QED BY <1>10, <1>15, <2>2, <3>1
  <2> QED BY <2>1, <2>2
<1> QED BY <1>17 DEF longer, k

LEMMA Unwrapped ==
  ASSUME NEW line
  PROVE  /\ Unwrap(line).effective =
              IF EndFrom(line, 1) > Len(line) THEN line
              ELSE SubSeq(line, EndFrom(line, 1), Len(line))
         /\ Unwrap(line).elevated = Steps(line)[1].elevated
BY DEF Unwrap, EndFrom

(* Of a line that no rule is about, such as a wrapper's, only a pattern can *)
(* say anything, and patterns prohibit.                                     *)
LEMMA NamelessClass ==
  ASSUME NEW line, \A r \in DOMAIN Table : Base(Head(line)) \notin Table[r].cmd
  PROVE  RuleClass(Table, line) =
           IF \E i \in DOMAIN Table : /\ Table[i].cmd = {} /\ Table[i].pattern # {}
                                      /\ Table[i].pattern \subseteq Mentioned(line)
           THEN "PROHIBITED" ELSE "UNCLASSIFIED"
<1> DEFINE matching == {i \in DOMAIN Table : Matches(Table[i], line)}
           Speaks(i) == /\ Table[i].cmd = {} /\ Table[i].pattern # {}
                        /\ Table[i].pattern \subseteq Mentioned(line)
<1>1. ASSUME NEW i \in DOMAIN Table PROVE Matches(Table[i], line) <=> Speaks(i)
  <2>2. Matches(Table[i], line) => Table[i].cmd = {}
    BY DEF Matches
  <2>3. CASE Table[i].cmd = {}
    <3>1. /\ Table[i].sub = {} /\ Table[i].anyFlag = {} /\ Table[i].allFlags = {}
          /\ ~ Table[i].root
      BY <2>3, RulesNameNoWrapper
    <3> QED BY <2>3, <3>1 DEF Matches
  <2> QED BY <2>2, <2>3
<1>2. RuleClass(Table, line) = IF matching = {} THEN "UNCLASSIFIED" ELSE Table[Min(matching)].class
  BY DEF RuleClass
<1>3. matching = {} <=> ~ \E i \in DOMAIN Table : Speaks(i)
  BY <1>1
<1>4. matching # {} => Table[Min(matching)].class = "PROHIBITED"
  <2> SUFFICES ASSUME matching # {} PROVE Table[Min(matching)].class = "PROHIBITED"
    OBVIOUS
  <2>1. matching \subseteq Nat
    BY RulesNameNoWrapper
  <2>2. Min(matching) \in matching
    BY <2>1, LeastNumber
  <2>3. Min(matching) \in DOMAIN Table /\ Speaks(Min(matching))
    BY <1>1, <2>2
  <2> QED BY <2>3, RulesNameNoWrapper
<1> HIDE DEF matching
<1> QED BY <1>2, <1>3, <1>4

(* Elevation never makes a refusal an admission. *)
LEMMA ElevationRefuses ==
  ASSUME NEW class, NEW e, NEW f, e = TRUE => f = TRUE, NEW posture, NEW approvals,
         IsRefused(Raised(class, e), posture, approvals)
  PROVE  IsRefused(Raised(class, f), posture, approvals)
<1>1. CASE class \in {"REVERSIBLE", "COMPENSABLE"}
  <2>1. e = TRUE
    BY <1>1 DEF IsRefused, Raised, Decide, Admitted, Refused
  <2> QED BY <1>1, <2>1 DEF Raised
<1>2. CASE class \notin {"REVERSIBLE", "COMPENSABLE"}
  BY <1>2 DEF Raised
<1> QED BY <1>1, <1>2

(* For lines, wrappers and rules of any number, and any rule table that is   *)
(* like rules.json in naming no wrapper: what the gate refuses it refuses    *)
(* behind a wrapper it knows all the tokens of (unwrap, policy.go:118); and  *)
(* behind one with a token it does not know, such as a flag's value, if      *)
(* nothing overrules a refusal and that token names no command.              *)
THEOREM WrappersAreSeenThrough == argv \in CommandLines => RefusedBehindWrappers
<1> SUFFICES ASSUME argv \in CommandLines,
                    NEW w \in Commands, Base(w) \in Wrappers, NEW own \in OwnTokens(w),
                    NEW posture \in Postures, NEW approvals \in Approvals,
                    IsRefused(Classify(Table, argv), posture, approvals),
                    \/ KnowsAll(own)
                    \/ posture # "observe" /\ ~ approvals.unclassified /\ ~ NamesCommand(own)
             PROVE  IsRefused(Classify(Table, own \o argv), posture, approvals)
  <2> SUFFICES ASSUME argv \in CommandLines, NEW own \in Wrappings, NEW c \in Postures \X Approvals,
                      IsRefused(Classify(Table, argv), c[1], c[2]),
                      \/ KnowsAll(own)
                      \/ c[1] # "observe" /\ ~ c[2].unclassified /\ ~ NamesCommand(own)
               PROVE  IsRefused(Classify(Table, own \o argv), c[1], c[2])
    BY DEF RefusedBehindWrappers
  <2>1. PICK w \in Commands : Base(w) \in Wrappers /\ own \in OwnTokens(w)
    BY DEF Wrappings
  <2>2. c[1] \in Postures /\ c[2] \in Approvals
    OBVIOUS
  <2> QED BY <2>1, <2>2
<1> DEFINE longer == own \o argv
           n == Len(argv)
           k == Len(own)
           end == EndFrom(argv, 1)
           last == EndFrom(longer, 1)
           e == Unwrap(argv).elevated
           f == Unwrap(longer).elevated
<1>1. argv \in Seq(TypedToken) /\ n \in Nat /\ n >= 1
  BY LinesTyped
<1>2. own \in Seq(TypedToken) /\ k \in Nat /\ k >= 1 /\ own[1] = w
  BY OwnTyped
<1>2a. \/ last = k + end /\ (Elevates(argv, 1) => Elevates(longer, 1))
       \/ last \in 2 .. k /\ ~ KnowsAll(own)
  BY EnclosedSteps
<1>3. end \in 1 .. n + 1 /\ Stops(argv, end)
  BY <1>1, StepsEnd
<1>4. /\ Unwrap(argv).effective = IF end > n THEN argv ELSE SubSeq(argv, end, n)
      /\ Unwrap(longer).effective =
           IF last > Len(longer) THEN longer ELSE SubSeq(longer, last, Len(longer))
  BY Unwrapped
<1>5. (Elevates(argv, 1) => Elevates(longer, 1)) => (e = TRUE => f = TRUE)
  BY Unwrapped DEF Elevates
<1>6. /\ Classify(Table, argv) = Raised(RuleClass(Table, Unwrap(argv).effective), e)
      /\ Classify(Table, longer) = Raised(RuleClass(Table, Unwrap(longer).effective), f)
  BY DEF Classify
<1>7. /\ longer \in Seq(TypedToken) /\ Len(longer) = k + n
      /\ \A i \in 1 .. n : longer[k + i] = argv[i]
      /\ \A i \in 1 .. k : longer[i] = own[i]
  BY <1>1, <1>2
<1>7a. CASE last \in 2 .. k /\ ~ KnowsAll(own)
  <2> DEFINE eff == SubSeq(longer, last, k + n)
             d == RuleClass(Table, eff)
  <2>1. Unwrap(longer).effective = eff
    <3>1. ~ last > k + n
      BY <1>1, <1>2, <1>7a
    <3> HIDE DEF longer, n, k, last
    <3> QED BY <1>4, <1>7, <3>1
  <2>2. Head(eff) = own[last]
    <3> DEFINE m == (k + n) - last + 1
    <3>1. last \in 1 .. k /\ last \in Nat /\ k + n \in Nat /\ m \in Nat /\ m >= 1
      BY <1>1, <1>2, <1>7a
    <3> HIDE DEF longer, n, k, last
    <3>2. eff = [i \in 1 .. m |-> longer[last + i - 1]]
      BY <1>7, <3>1
    <3>3. 1 \in 1 .. m /\ last + 1 - 1 = last
      BY <3>1
    <3> HIDE DEF m, eff
    <3>4. eff[1] = longer[last]
      BY <3>2, <3>3
    <3> QED BY <1>7, <3>1, <3>4
  <2>3. \A r \in DOMAIN Table : Base(Head(eff)) \notin Table[r].cmd
    BY <1>7a, <2>2 DEF NamesCommand
  <2> HIDE DEF eff
  <2>4. d \in {"PROHIBITED", "UNCLASSIFIED"}
    BY <2>3, NamelessClass
  <2>5. Classify(Table, longer) = d
    BY <1>6, <2>1, <2>4 DEF Raised
  <2> HIDE DEF d
  <2> QED BY <1>7a, <2>4, <2>5 DEF IsRefused, Decide, Refused, Admitted
<1> SUFFICES ASSUME last = k + end, Elevates(argv, 1) => Elevates(longer, 1)
             PROVE  IsRefused(Classify(Table, longer), posture, approvals)
  BY <1>2a, <1>7a
<1>8. CASE end <= n
  <2> DEFINE m == n - end + 1
             from == k + end
  <2>1. m \in Nat /\ from \in Nat /\ from >= 1 /\ k + n \in Nat /\ from <= k + n
        /\ (k + n) - from + 1 = m /\ Len(longer) = k + n /\ ~ end > n
    BY <1>1, <1>2, <1>3, <1>7, <1>8
  <2>2. SubSeq(argv, end, n) = [i \in 1 .. m |-> argv[end + i - 1]]
    BY <1>1, <1>3, <1>8
  <2>3. SubSeq(longer, from, k + n) = [i \in 1 .. m |-> longer[from + i - 1]]
    <3> HIDE DEF from, m, longer
    <3> QED BY <1>7, <2>1
  <2>4. ASSUME NEW i \in 1 .. m PROVE longer[from + i - 1] = argv[end + i - 1]
    <3> DEFINE at == end + i - 1
    <3>1. at \in 1 .. n
      BY <1>1, <1>3, <1>8
    <3>2. from + i - 1 = k + at
      BY <1>1, <1>2, <1>3
    <3> HIDE DEF at, longer, from
    <3>3. longer[k + at] = argv[at]
      BY <1>7, <3>1
    <3>4. longer[from + i - 1] = longer[k + at]
      BY <3>2
    <3> QED BY <3>3, <3>4 DEF at
  <2>5. SubSeq(longer, from, k + n) = SubSeq(argv, end, n)
    <3> HIDE DEF m, from, longer, n, end
    <3> QED BY <2>2, <2>3, <2>4
  <2>6. last = from
    OBVIOUS
  <2>7. Unwrap(longer).effective = Unwrap(argv).effective
    <3>1. ~ from > k + n
      BY <2>1
    <3> HIDE DEF m, from, longer, n, end, k, last
    <3> QED BY <1>4, <2>1, <2>5, <2>6, <3>1
  <2> QED BY <1>5, <1>6, <2>7, ElevationRefuses
<1>9. CASE end > n
  <2>1. Unwrap(argv).effective = argv /\ Unwrap(longer).effective = longer
    BY <1>1, <1>2, <1>3, <1>4, <1>7, <1>9
  <2>2. Base(Head(argv)) \in Wrappers /\ Base(Head(longer)) \in Wrappers
    <3>1. end # 1
      BY <1>1, <1>9
    <3>2. ~ Stops(argv, 1)
      BY <1>1, <3>1, StepsUnfold
    <3>3. Head(argv) = argv[1] /\ Head(longer) = own[1] /\ own[1] = w
      BY <1>1, <1>2
    <3> QED BY <1>1, <3>2, <3>3 DEF Stops
  <2>3. Mentioned(argv) \subseteq Mentioned(longer)
    <3> SUFFICES ASSUME NEW i \in DOMAIN argv
                 PROVE  \E j \in DOMAIN longer : longer[j] = argv[i]
      BY DEF Mentioned
    <3>1. i \in 1 .. n
      BY <1>1
    <3>2. longer[k + i] = argv[i]
      BY <1>7, <3>1
    <3>3. DOMAIN longer = 1 .. k + n
      <4> HIDE DEF longer
      <4> QED BY <1>7
    <3>4. k + i \in 1 .. k + n
      BY <1>1, <1>2, <3>1
    <3> QED BY <3>2, <3>3, <3>4
  <2> DEFINE c == RuleClass(Table, argv)
             d == RuleClass(Table, longer)
  <2>4. c \in {"PROHIBITED", "UNCLASSIFIED"} /\ (c = "PROHIBITED" => d = "PROHIBITED")
        /\ d \in {"PROHIBITED", "UNCLASSIFIED"}
    <3>1. \A r \in DOMAIN Table : /\ Base(Head(argv)) \notin Table[r].cmd
                                   /\ Base(Head(longer)) \notin Table[r].cmd
      BY <2>2, RulesNameNoWrapper
    <3> HIDE DEF longer
    <3> QED BY <2>3, <3>1, NamelessClass
  <2>5. Classify(Table, argv) = c /\ Classify(Table, longer) = d
    BY <1>6, <2>1, <2>4 DEF Raised
  <2> HIDE DEF c, d
  <2> QED BY <2>4, <2>5 DEF IsRefused, Decide, Refused, Admitted
<1> QED BY <1>1, <1>3, <1>8, <1>9

----------------------------------------------------------------------------
(* Another name of the executable *)

(* A name that is no flag and no assignment, put where an effective command *)
(* begins or where the line does, stops what the token it replaces stops.   *)
LEMMA RespeltSteps ==
  ASSUME NEW T, NEW line \in Seq(T), NEW at \in 1 .. Len(line), NEW name \in T,
         name \notin Flags \cup Assignments, Base(name) = Base(line[at]),
         at = 1 \/ EndFrom(line, 1) = at
  PROVE  /\ EndFrom([line EXCEPT ![at] = name], 1) = EndFrom(line, 1)
         /\ Elevates([line EXCEPT ![at] = name], 1) <=> Elevates(line, 1)
<1> DEFINE other == [line EXCEPT ![at] = name]
           n == Len(line) + 1
           Reached(i) == i >= at \/ EndFrom(line, i) = at
           Same(i) == /\ EndFrom(other, i) = EndFrom(line, i)
                      /\ Elevates(other, i) <=> Elevates(line, i)
           good == {i \in 1 .. n : Reached(i) => Same(i)}
<1>1. /\ other \in Seq(T) /\ Len(other) = Len(line) /\ Len(line) \in Nat /\ at \in 1 .. Len(line)
      /\ other[at] = name /\ \A i \in 1 .. Len(line) : i # at => other[i] = line[i]
  OBVIOUS
<1> HIDE DEF other
<1>2. ASSUME NEW i \in 1 .. Len(line) PROVE Base(other[i]) = Base(line[i])
  BY <1>1
<1>3. ASSUME NEW i \in 1 .. n PROVE Stops(other, i) <=> Stops(line, i)
  BY <1>1, <1>2 DEF Stops
<1>4. ASSUME NEW i \in 1 .. n, Stops(line, i) PROVE i \in good
  <2>1. EndFrom(line, i) = i /\ ~ Elevates(line, i)
    BY <1>4, StepsUnfold
  <2>2. Stops(other, i) /\ i \in 1 .. Len(other) + 1
    BY <1>1, <1>3, <1>4
  <2>3. EndFrom(other, i) = i /\ ~ Elevates(other, i)
    BY <1>1, <2>2, StepsUnfold
  <2> QED BY <2>1, <2>3
<1>5. ASSUME NEW i \in 1 .. n, ~ Stops(line, i), Reached(i)
      PROVE  After(other, i) = After(line, i) /\ Reached(After(line, i))
  <2> DEFINE w == Base(line[i])
             a == After(line, i)
             from == i + 1
  <2>1. i \in 1 .. Len(line) /\ from \in 1 .. n /\ a \in from .. n
    BY <1>1, <1>5, AfterIsLater
  <2>2. a = AfterOwned(line, from, w) /\ After(other, i) = AfterOwned(other, from, w)
    BY <1>2, <2>1 DEF After
  <2>3. EndFrom(line, i) = EndFrom(line, a) /\ EndFrom(line, a) \in a .. n
    <3>1. EndFrom(line, i) = EndFrom(line, a)
      BY <1>5, StepsUnfold
    <3>2. a \in 1 .. n
      BY <2>1
    <3> HIDE DEF a
    <3> QED BY <3>1, <3>2, StepsEnd
  <2> HIDE DEF a, w
  <2>4. i >= at \/ a <= at
    BY <1>1, <1>5, <2>1, <2>3
  <2>5. /\ \A j \in from .. Len(line) : j < a => OwnedBy(w, line[j])
        /\ a <= Len(line) => ~ OwnedBy(w, line[a])
    <3> HIDE DEF from
    <3> QED BY <2>1, <2>2, AfterOwnedIs
  <2>6. \A j \in from .. a - 1 : OwnedBy(w, other[j])
    <3> TAKE j \in from .. a - 1
    <3>1. j \in 1 .. Len(line) /\ j # at /\ j < a /\ j \in from .. Len(line)
      BY <1>1, <2>1, <2>4
    <3> QED BY <1>1, <2>5, <3>1
  <2>7. a <= Len(other) => ~ OwnedBy(w, other[a])
    <3> SUFFICES ASSUME a <= Len(line) PROVE ~ OwnedBy(w, other[a])
      BY <1>1
    <3>1. CASE a = at
      BY <1>1, <3>1 DEF OwnedBy
    <3>2. CASE a # at
      <4>1. a \in 1 .. Len(line)
        BY <1>1, <2>1
      <4> QED BY <1>1, <2>5, <3>2, <4>1
    <3> QED BY <3>1, <3>2
  <2>8. AfterOwned(other, from, w) = a
    <3> HIDE DEF from
    <3> QED BY <1>1, <2>1, <2>6, <2>7, AfterOwnedAt
  <2>9. a >= at \/ EndFrom(line, a) = at
    BY <1>1, <1>5, <2>1, <2>3
  <2> QED BY <2>2, <2>8, <2>9 DEF a
<1>6. ASSUME NEW i \in 1 .. n, ~ Stops(line, i), After(line, i) \in good PROVE i \in good
  <2> SUFFICES ASSUME Reached(i) PROVE Same(i)
    OBVIOUS
  <2>1. After(other, i) = After(line, i) /\ Same(After(line, i))
    BY <1>5, <1>6
  <2>2. /\ EndFrom(line, i) = EndFrom(line, After(line, i))
        /\ Elevates(line, i) <=> (Elevates(line, After(line, i)) \/ Base(line[i]) \in Elevating)
    BY <1>6, StepsUnfold
  <2>3. i \in 1 .. Len(other) + 1 /\ ~ Stops(other, i) /\ i \in 1 .. Len(line)
    BY <1>1, <1>3, <1>6, AfterIsLater
  <2>4. /\ EndFrom(other, i) = EndFrom(other, After(other, i))
        /\ Elevates(other, i) <=> (Elevates(other, After(other, i)) \/ Base(other[i]) \in Elevating)
    BY <1>1, <2>3, StepsUnfold
  <2>5. Base(other[i]) = Base(line[i])
    BY <1>2, <2>3
  <2> QED BY <2>1, <2>2, <2>4, <2>5
<1> HIDE DEF good
<1>7. 1 .. n \subseteq good
  BY <1>4, <1>6, AlongTheLine
<1>8. 1 \in 1 .. n /\ Reached(1)
  BY <1>1
<1> QED BY <1>7, <1>8 DEF good, other

(* The command in effect is the rest of the line from where it begins. *)
LEMMA EffectiveFrom ==
  ASSUME NEW T, NEW line \in Seq(T), Len(line) >= 1
  PROVE  /\ EffectiveAt(line) =
              IF EndFrom(line, 1) > Len(line) THEN 1 ELSE EndFrom(line, 1)
         /\ EffectiveAt(line) \in 1 .. Len(line)
         /\ Unwrap(line).effective = SubSeq(line, EffectiveAt(line), Len(line))
<1> DEFINE n == Len(line)
           end == EndFrom(line, 1)
           eff == Unwrap(line).effective
<1>1. n \in Nat /\ n >= 1 /\ 1 \in 1 .. n + 1
  OBVIOUS
<1>2. end \in 1 .. n + 1
  BY <1>1, StepsEnd
<1>3. eff = IF end > n THEN line ELSE SubSeq(line, end, n)
  BY Unwrapped
<1>4. EffectiveAt(line) = n - Len(eff) + 1
  BY DEF EffectiveAt
<1> HIDE DEF eff, end
<1>5. CASE end > n
  <2>1. eff = line /\ Len(eff) = n
    BY <1>3, <1>5
  <2>2. EffectiveAt(line) = 1
    BY <1>1, <1>4, <2>1
  <2>3. SubSeq(line, 1, n) = line
    OBVIOUS
  <2> QED BY <1>1, <1>5, <2>1, <2>2, <2>3 DEF eff, end
<1>6. CASE ~ end > n
  <2>1. eff = SubSeq(line, end, n)
    BY <1>3, <1>6
  <2>2. Len(eff) = n - end + 1
    BY <1>1, <1>2, <1>6, <2>1
  <2>3. EffectiveAt(line) = end
    BY <1>1, <1>2, <1>4, <2>2
  <2> QED BY <1>1, <1>2, <1>6, <2>1, <2>3 DEF eff, end
<1> QED BY <1>5, <1>6

(* The rules look at the executable's base and at what follows it; only a   *)
(* pattern looks at the name itself.                                        *)
LEMMA NameIsItsBase ==
  ASSUME NEW T, NEW a \in Seq(T), NEW b \in Seq(T), Len(a) >= 1, Len(b) = Len(a),
         Base(a[1]) = Base(b[1]), \A i \in 2 .. Len(a) : a[i] = b[i],
         \A i \in DOMAIN Table : a[1] \notin Table[i].pattern /\ b[1] \notin Table[i].pattern
  PROVE  RuleClass(Table, a) = RuleClass(Table, b)
<1>1. Head(a) = a[1] /\ Head(b) = b[1]
  OBVIOUS
<1>2. Tail(a) = Tail(b)
  <2>1. a # <<>> /\ b # <<>>
    OBVIOUS
  <2>2. /\ Tail(a) \in Seq(T) /\ Len(Tail(a)) = Len(a) - 1
        /\ \A i \in 1 .. Len(a) - 1 : Tail(a)[i] = a[i + 1]
    BY <2>1
  <2>2a. /\ Tail(b) \in Seq(T) /\ Len(Tail(b)) = Len(a) - 1
         /\ \A i \in 1 .. Len(a) - 1 : Tail(b)[i] = b[i + 1]
    BY <2>1
  <2>3. \A i \in 1 .. Len(a) - 1 : a[i + 1] = b[i + 1]
    <3> TAKE i \in 1 .. Len(a) - 1
    <3> DEFINE j == i + 1
    <3>1. j \in 2 .. Len(a)
      OBVIOUS
    <3> HIDE DEF j
    <3>2. a[j] = b[j]
      BY <3>1
    <3> QED BY <3>2 DEF j
  <2>4. \A i \in 1 .. Len(Tail(a)) : Tail(a)[i] = Tail(b)[i]
    BY <2>2, <2>2a, <2>3
  <2> QED BY <2>2, <2>2a, <2>4
<1>3. ASSUME NEW pattern, a[1] \notin pattern, b[1] \notin pattern
      PROVE  pattern \subseteq Mentioned(a) <=> pattern \subseteq Mentioned(b)
  <2>1. DOMAIN a = 1 .. Len(a) /\ DOMAIN b = 1 .. Len(a) /\ Len(a) \in Nat
    OBVIOUS
  <2>2. ASSUME NEW x \in pattern PROVE x \in Mentioned(a) <=> x \in Mentioned(b)
    <3>1. \A i \in 1 .. Len(a) : i # 1 => a[i] = b[i]
      <4> TAKE i \in 1 .. Len(a)
      <4>1. i # 1 => i \in 2 .. Len(a)
        BY <2>1
      <4> QED BY <4>1
    <3>2. x # a[1] /\ x # b[1]
      BY <1>3
    <3> QED BY <2>1, <3>1, <3>2 DEF Mentioned
  <2> QED BY <2>2
<1>4. ASSUME NEW i \in DOMAIN Table PROVE Matches(Table[i], a) <=> Matches(Table[i], b)
  <2>1. Table[i].pattern \subseteq Mentioned(a) <=> Table[i].pattern \subseteq Mentioned(b)
    BY <1>3
  <2> QED BY <1>1, <1>2, <2>1 DEF Matches
<1>5. {i \in DOMAIN Table : Matches(Table[i], a)} = {i \in DOMAIN Table : Matches(Table[i], b)}
  BY <1>4
<1> QED BY <1>5 DEF RuleClass

(* An executable under another of its names, which no pattern spells out,   *)
(* is the same executable to the gate, behind wrappers too, for every rule  *)
(* table (executableBase, policy.go:151).                                   *)
THEOREM NamesAreTheirBase == argv \in CommandLines => NamesKeepClass
<1> SUFFICES ASSUME argv \in CommandLines, NEW other \in Respelt(argv),
                    ~ SpeltOut(argv), ~ SpeltOut(other)
             PROVE  Classify(Table, other) = Classify(Table, argv)
  BY DEF NamesKeepClass
<1> DEFINE at == EffectiveAt(argv)
           n  == Len(argv)
           a  == Unwrap(argv).effective
           b  == Unwrap(other).effective
<1>1. argv \in Seq(TypedToken) /\ n \in Nat /\ n >= 1
  BY LinesTyped
<1>2. /\ at = IF EndFrom(argv, 1) > n THEN 1 ELSE EndFrom(argv, 1)
      /\ at \in 1 .. n /\ a = SubSeq(argv, at, n)
  BY <1>1, EffectiveFrom
<1>3. PICK name \in Commands : Base(name) = Base(argv[at]) /\ other = [argv EXCEPT ![at] = name]
  BY DEF Respelt
<1> HIDE DEF at
<1>4. /\ other \in Seq(TypedToken) /\ Len(other) = n /\ other[at] = name
      /\ \A i \in 1 .. n : i # at => other[i] = argv[i]
  <2>1. name \in TypedToken
    BY DEF TypedToken
  <2> QED BY <1>1, <1>2, <1>3, <2>1
<1>5. EndFrom(other, 1) = EndFrom(argv, 1) /\ (Elevates(other, 1) <=> Elevates(argv, 1))
  <2>1. name \in TypedToken /\ name \notin Flags \cup Assignments
    BY CommandsAreNames DEF TypedToken
  <2>2. at = 1 \/ EndFrom(argv, 1) = at
    BY <1>2
  <2>3. /\ EndFrom([argv EXCEPT ![at] = name], 1) = EndFrom(argv, 1)
        /\ Elevates([argv EXCEPT ![at] = name], 1) <=> Elevates(argv, 1)
    <3>1. argv \in Seq(TypedToken) /\ at \in 1 .. Len(argv) /\ Base(name) = Base(argv[at])
      BY <1>1, <1>2, <1>3
    <3> QED BY <2>1, <2>2, <3>1, RespeltSteps
  <2> QED BY <1>3, <2>3
<1>6. EffectiveAt(other) = at /\ b = SubSeq(other, at, n)
  <2> HIDE DEF b, n
  <2>1. Len(other) >= 1
    BY <1>1, <1>4
  <2> QED BY <1>1, <1>2, <1>4, <1>5, <2>1, EffectiveFrom DEF b
<1>7. ASSUME NEW s \in Seq(TypedToken), Len(s) = n, NEW eff, eff = SubSeq(s, at, n)
      PROVE  /\ eff \in Seq(TypedToken) /\ Len(eff) = n - at + 1 /\ eff[1] = s[at]
             /\ \A i \in 1 .. n - at + 1 : eff[i] = s[at + i - 1]
  BY <1>1, <1>2, <1>7
<1>8. /\ a \in Seq(TypedToken) /\ Len(a) = n - at + 1 /\ a[1] = argv[at]
      /\ \A i \in 1 .. n - at + 1 : a[i] = argv[at + i - 1]
  <2> HIDE DEF a
  <2> QED BY <1>1, <1>2, <1>7 DEF n
<1>9. /\ b \in Seq(TypedToken) /\ Len(b) = n - at + 1 /\ b[1] = name
      /\ \A i \in 1 .. n - at + 1 : b[i] = other[at + i - 1]
  <2> HIDE DEF b
  <2> QED BY <1>4, <1>6, <1>7
<1> HIDE DEF a, b
<1>10. \A i \in 2 .. Len(a) : a[i] = b[i]
  <2> TAKE i \in 2 .. Len(a)
  <2> DEFINE j == at + i - 1
  <2>1. i \in 1 .. n - at + 1 /\ j \in 1 .. n /\ j # at
    <3>1. i \in 2 .. n - at + 1
      BY <1>8
    <3> QED BY <1>1, <1>2, <3>1
  <2>2. a[i] = argv[j] /\ b[i] = other[j]
    BY <1>8, <1>9, <2>1
  <2> HIDE DEF j
  <2> QED BY <1>4, <2>1, <2>2
<1>11. \A i \in DOMAIN Table : a[1] \notin Table[i].pattern /\ b[1] \notin Table[i].pattern
  <2>1. other[EffectiveAt(other)] = b[1] /\ argv[EffectiveAt(argv)] = a[1]
    BY <1>4, <1>6, <1>8, <1>9 DEF at
  <2> QED BY <2>1 DEF SpeltOut
<1>12. RuleClass(Table, a) = RuleClass(Table, b)
  <2>1. Base(a[1]) = Base(b[1]) /\ Len(a) >= 1 /\ Len(b) = Len(a)
    BY <1>1, <1>2, <1>3, <1>8, <1>9
  <2> QED BY <1>8, <1>9, <1>10, <1>11, <2>1, NameIsItsBase
<1>13. Unwrap(argv).elevated = TRUE <=> Unwrap(other).elevated = TRUE
  BY <1>5, Unwrapped DEF Elevates
<1> QED BY <1>12, <1>13 DEF Classify, Raised, a, b
===============================================================================
