-------------------------------- MODULE Gateway --------------------------------
(***************************************************************************)
(* The execution path of `ueg run` and `ueg replay`                        *)
(* (internal/gateway/gateway.go, replay.go, cmdRun and cmdReplay of        *)
(* cmd/ueg/main.go): decide, record the admission, start the command,      *)
(* record its outcome; look a recorded run up, and run it again or not.    *)
(* Any number of processes, killed anywhere; each call may be made by      *)
(* another binary, with its own rules; stored requests may be altered.     *)
(*                                                                         *)
(* Abstractions.  The log holds the requests in receipt order and a        *)
(* receipt id is a position.  One append is one step that happens, fails,  *)
(* or fails and lands all the same: what journal, crash and recovery make  *)
(* of it is ReceiptLedger's subject.  Exit code and output digests are one *)
(* result.  A signing identity is active throughout (EvidenceHome).        *)
(***************************************************************************)
EXTENDS Policy, Integers, TLC

CONSTANTS Procs,
          Lines,      \* command lines
          Versions,   \* rule tables, by the binary they are embedded in
          Tables,     \* version -> rule table
          Results,    \* exit code and output of a command
          Given,      \* approvals an operator may give
          None,
          MaxLog      \* bound on requests in the log

ASSUME TablesPerVersion == DOMAIN Tables = Versions
ASSUME GivenAreApprovals == Given \subseteq Approvals
ASSUME BoundIsPositive == MaxLog \in Nat \ {0}
ASSUME NoneIsNobody == None \notin Procs

VARIABLES
  log,        \* requests recorded so far
  intact,     \* FALSE once a stored request was altered
  lock,       \* process that holds the home lock, or None
  pc, call,   \* what each process does
  started,    \* admissions whose command was started
  answer      \* what each process's replay is about to report

vars == <<log, intact, lock, pc, call, started, answer>>

Verdicts == {"TAMPERED", "MATCH", "DIVERGED", "REFUSED", "REFUSAL_CONFIRMED",
             "CHECK_CONFIRMED", "INCOMPLETE_OR_TRUNCATED"}

ClassOf == [v \in Versions |-> [line \in Lines |-> Classify(Tables[v], line)]]

----------------------------------------------------------------------------
(* Requests *)

(* What Run records before anything happens. *)
Admission(c) ==
  LET class == ClassOf[c.version][c.line]
      d     == Decide(class, c.posture, c.approvals)
  IN [action |-> "execute", line |-> c.line, posture |-> c.posture, class |-> class,
      decision |-> d.outcome, approval |-> d.approval, dryRun |-> c.dryRun,
      executed |-> d.outcome = "ADMITTED" /\ ~c.dryRun]

OutcomeOf(admission, result) ==
  [action |-> "record-outcome", admission |-> admission, result |-> result]

Admissions == {i \in DOMAIN log : log[i].action = "execute"}

HasOutcome(i) ==
  \E j \in DOMAIN log : log[j].action = "record-outcome" /\ log[j].admission = i

RecordedResult(i) ==
  log[Min({j \in DOMAIN log : log[j].action = "record-outcome" /\ log[j].admission = i})].result

----------------------------------------------------------------------------
(* Calls *)

At(p, label) == pc[p] = label
Go(p, label) == pc' = [pc EXCEPT ![p] = label]
Say(p, verdict) ==
  answer' = [answer EXCEPT ![p] = [verdict |-> verdict, of |-> call[p].selected,
                                   version |-> call[p].version]]

Forget(p) ==
  /\ Go(p, "idle")
  /\ call' = [call EXCEPT ![p] = None]
  /\ answer' = [answer EXCEPT ![p] = None]

RunCall(line, posture, approvals, version) ==
  [kind |-> "run", line |-> line, posture |-> posture, approvals |-> approvals,
   given |-> approvals, dryRun |-> FALSE, selected |-> None, admission |-> None, result |-> None,
   version |-> version]

ReplayCall(posture, approvals, version) ==
  [RunCall(None, posture, approvals, version) EXCEPT !.kind = "replay"]

(* A check or a refused command ends here, inert: cmdRun decides before it  *)
(* opens the home.  A call waits thirty seconds for the home lock; giving   *)
(* up, like waiting, changes nothing.                                       *)
StartRun(p, line, posture, approvals, version) ==
  /\ At(p, "idle")
  /\ Decide(ClassOf[version][line], posture, approvals).outcome = "ADMITTED"
  /\ lock = None
  /\ lock' = p
  /\ call' = [call EXCEPT ![p] = RunCall(line, posture, approvals, version)]
  /\ Go(p, "admit")
  /\ UNCHANGED <<log, intact, started, answer>>

StartReplay(p, posture, approvals, version) ==
  /\ At(p, "idle")
  /\ lock = None
  /\ lock' = p
  /\ call' = [call EXCEPT ![p] = ReplayCall(posture, approvals, version)]
  /\ Go(p, "select")
  /\ UNCHANGED <<log, intact, started, answer>>

----------------------------------------------------------------------------
(* Replay: which recorded run, and what becomes of it *)

Selected(p, i) ==
  /\ At(p, "select")
  /\ intact
  /\ i \in Admissions

Finished(p, i, verdict) ==
  /\ Go(p, "done")
  /\ answer' = [answer EXCEPT ![p] = [verdict |-> verdict, of |-> i,
                                      version |-> call[p].version]]
  /\ UNCHANGED <<log, intact, lock, call, started>>

RunAgain(p, i, posture, approvals, dryRun) ==
  /\ call' = [call EXCEPT ![p].line = log[i].line, ![p].posture = posture,
                          ![p].approvals = approvals, ![p].dryRun = dryRun,
                          ![p].selected = i]
  /\ Go(p, "admit")
  /\ UNCHANGED <<log, intact, lock, started, answer>>

ReplayTampered(p) ==
  /\ At(p, "select")
  /\ ~intact
  /\ Finished(p, None, "TAMPERED")

ReplayNothing(p) ==
  /\ At(p, "select")
  /\ intact
  /\ Admissions = {}
  /\ Go(p, "done")
  /\ UNCHANGED <<log, intact, lock, call, started, answer>>

(* Admitted and never completed: killed, or its outcome was never recorded. *)
Incomplete(i) ==
  IF log[i].executed THEN ~HasOutcome(i)
  ELSE ~log[i].dryRun /\ log[i].decision # "REFUSED"

ReplayIncomplete(p, i) ==
  /\ Selected(p, i)
  /\ Incomplete(i)
  /\ Finished(p, i, "INCOMPLETE_OR_TRUNCATED")

RecordedApprovals(i) ==
  [irrevocable  |-> log[i].approval = "operator",
   unclassified |-> log[i].approval = "operator-unclassified"]

(* Mutant: a recorded refusal is confirmed under the posture of the caller. *)
ReplayUnexecutedAsAsked(p, i) ==
  /\ Selected(p, i)
  /\ ~log[i].executed
  /\ ~Incomplete(i)
  /\ RunAgain(p, i, call[p].posture, RecordedApprovals(i), TRUE)

(* A check or a refusal is decided again and never started. *)
ReplayUnexecuted(p, i) ==
  /\ Selected(p, i)
  /\ ~log[i].executed
  /\ ~Incomplete(i)
  /\ RunAgain(p, i, log[i].posture, RecordedApprovals(i), TRUE)

(* Mutant: a run is repeated under the posture that once let it through. *)
ReplayExecutedAsRecorded(p, i) ==
  /\ Selected(p, i)
  /\ log[i].executed
  /\ HasOutcome(i)
  /\ RunAgain(p, i, log[i].posture, call[p].given, FALSE)

(* A completed run is run again under the enforce posture. *)
ReplayExecuted(p, i) ==
  /\ Selected(p, i)
  /\ log[i].executed
  /\ HasOutcome(i)
  /\ RunAgain(p, i, "enforce", call[p].given, FALSE)

----------------------------------------------------------------------------
(* Run: admission, execution, outcome *)

(* The verdict of a replay whose new admission starts nothing. *)
InertVerdict(old, new) ==
  IF old.executed THEN "REFUSED"
  ELSE IF new.decision # old.decision \/ new.class # old.class THEN "DIVERGED"
  ELSE IF old.dryRun THEN "CHECK_CONFIRMED"
  ELSE "REFUSAL_CONFIRMED"

Admit(p) ==
  /\ At(p, "admit")
  /\ intact
  /\ Len(log) < MaxLog
  /\ LET new == Admission(call[p]) IN
       /\ log' = Append(log, new)
       /\ call' = [call EXCEPT ![p].admission = Len(log) + 1]
       /\ IF new.executed
          THEN Go(p, "launch") /\ UNCHANGED answer
          ELSE Go(p, "done") /\ Say(p, InertVerdict(log[call[p].selected], new))
  /\ UNCHANGED <<intact, lock, started>>

(* Append refuses altered requests; any other failure may land or not. *)
AdmitFails(p) ==
  /\ At(p, "admit")
  /\ Len(log) < MaxLog
  /\ log' \in {log} \cup (IF intact THEN {Append(log, Admission(call[p]))} ELSE {})
  /\ Go(p, "done")
  /\ UNCHANGED <<intact, lock, call, started, answer>>

(* Mutant: the home is unlocked for as long as the command runs. *)
LaunchUnlocked(p) ==
  /\ At(p, "launch")
  /\ started' = started \cup {call[p].admission}
  /\ lock' = None
  /\ Go(p, "running")
  /\ UNCHANGED <<log, intact, call, answer>>

Launch(p) ==
  /\ At(p, "launch")
  /\ started' = started \cup {call[p].admission}
  /\ Go(p, "running")
  /\ UNCHANGED <<log, intact, lock, call, answer>>

(* The command ends.  One whose process was killed runs on unobserved.      *)
CommandEnds(p, result) ==
  /\ At(p, "running")
  /\ call[p].result = None
  /\ call' = [call EXCEPT ![p].result = result]
  /\ UNCHANGED <<log, intact, lock, pc, started, answer>>

RecordOutcome(p) ==
  /\ At(p, "running")
  /\ call[p].result # None
  /\ intact
  /\ Len(log) < MaxLog
  /\ log' = Append(log, OutcomeOf(call[p].admission, call[p].result))
  /\ Go(p, "done")
  /\ IF call[p].kind = "run" THEN UNCHANGED answer
     ELSE Say(p, IF RecordedResult(call[p].selected) = call[p].result THEN "MATCH" ELSE "DIVERGED")
  /\ UNCHANGED <<intact, lock, call, started>>

OutcomeFails(p) ==
  /\ At(p, "running")
  /\ call[p].result # None
  /\ Len(log) < MaxLog
  /\ log' \in {log} \cup
       (IF intact THEN {Append(log, OutcomeOf(call[p].admission, call[p].result))} ELSE {})
  /\ Go(p, "done")
  /\ UNCHANGED <<intact, lock, call, started, answer>>

Finish(p) ==
  /\ At(p, "done")
  /\ lock' = IF lock = p THEN None ELSE lock
  /\ Forget(p)
  /\ UNCHANGED <<log, intact, started>>

----------------------------------------------------------------------------
(* The surroundings *)

(* The kernel releases a dead process's lock; its command runs on. *)
Kill(p) ==
  /\ ~At(p, "idle")
  /\ lock' = IF lock = p THEN None ELSE lock
  /\ Forget(p)
  /\ UNCHANGED <<log, intact, started>>

(* Somebody alters a stored request. *)
Alter ==
  /\ intact
  /\ log # <<>>
  /\ intact' = FALSE
  /\ UNCHANGED <<log, lock, pc, call, started, answer>>

(* What a home migrated from an earlier release may hold: a recorded check  *)
(* or refusal of any call.                                                  *)
Legacy ==
  {r \in {Admission([RunCall(line, posture, approvals, v) EXCEPT !.dryRun = dry]) :
            line \in Lines, posture \in Postures, approvals \in Given,
            dry \in BOOLEAN, v \in Versions} : ~r.executed}

Init ==
  /\ log \in {<<>>} \cup {<<r>> : r \in Legacy}
  /\ intact = TRUE
  /\ lock = None
  /\ pc = [p \in Procs |-> "idle"]
  /\ call = [p \in Procs |-> None]
  /\ started = {}
  /\ answer = [p \in Procs |-> None]

Execution(p) ==
  \/ Admit(p) \/ AdmitFails(p) \/ Launch(p) \/ RecordOutcome(p) \/ OutcomeFails(p) \/ Finish(p)
  \/ \E result \in Results : CommandEnds(p, result)

Replay(p) ==
  \/ ReplayTampered(p)
  \/ ReplayNothing(p)
  \/ \E i \in DOMAIN log : ReplayIncomplete(p, i) \/ ReplayUnexecuted(p, i) \/ ReplayExecuted(p, i)

Start(p) ==
  \E posture \in Postures, approvals \in Given, v \in Versions :
    \/ StartReplay(p, posture, approvals, v)
    \/ \E line \in Lines : StartRun(p, line, posture, approvals, v)

Next ==
  \/ \E p \in Procs : Start(p) \/ Replay(p) \/ Execution(p) \/ Kill(p)
  \/ Alter

Spec == Init /\ [][Next]_vars

----------------------------------------------------------------------------
(* Properties *)

Labels == {"idle", "select", "admit", "launch", "running", "done"}

TypeOK ==
  /\ Len(log) \in 0 .. MaxLog
  /\ intact \in BOOLEAN
  /\ lock \in Procs \cup {None}
  /\ pc \in [Procs -> Labels] /\ \A p \in Procs : lock = p => pc[p] # "idle"
  /\ started \subseteq 1 .. MaxLog
  /\ \A p \in Procs : answer[p] # None => answer[p].verdict \in Verdicts

(* Runs and log tell the same story, whatever fails and whoever is killed.  *)
(* No command ever starts, by `run` or by a replay, that is not admitted in *)
(* the log already (gateway.go: "EXECUTABLE: and only here"), and no        *)
(* prohibited one at all.  An outcome tells of the admission right before   *)
(* it, whose command was started: no other call's request is between them.  *)
LogAccountsForRuns ==
  /\ \A a \in started :
       /\ a \in DOMAIN log
       /\ log[a].action = "execute" /\ log[a].executed
       /\ log[a].class # "PROHIBITED"
  /\ \A i \in DOMAIN log :
       log[i].action = "record-outcome" =>
         /\ log[i].admission = i - 1
         /\ i - 1 \in started

(* The process whose command starts in this step. *)
Starts(p) == \E a \in started' \ started : call[p] # None /\ call[p].admission = a

(* README.md:131: a replay "applies current enforce policy".  What a replay *)
(* starts, the rules of its binary admit under the enforce posture with the *)
(* approvals of this very call, whatever posture and approval let it        *)
(* through before; and it ran to its end before: it is never a refusal, a   *)
(* check, or a run that a kill or a failure cut short.                      *)
ReplayRunsWhatItMay ==
  [][\A p \in Procs : Starts(p) /\ call[p].kind = "replay" =>
       /\ Decide(ClassOf[call[p].version][call[p].line], "enforce", call[p].given).outcome
            = "ADMITTED"
       /\ \E j \in DOMAIN log :
            log[j].action = "record-outcome" /\ log[j].admission = call[p].selected]_vars

(* A recorded check or refusal diverges only when the rules class its       *)
(* command differently now: the reconstructed posture and approvals say     *)
(* what the recorded ones said.                                             *)
DivergenceIsARuleChange ==
  \A p \in Procs :
    answer[p] # None /\ answer[p].verdict = "DIVERGED" =>
      LET old == log[answer[p].of] IN
      ~old.executed => ClassOf[answer[p].version][old.line] # old.class
=============================================================================
