---------------------------- MODULE PolicySpelling ----------------------------
(***************************************************************************)
(* One command line, typed in every way that means the same: wrappers in   *)
(* front, another spelling of the executable, a cluster of short flags     *)
(* written out.  The gate of Policy must not be talked round by spelling.  *)
(* The gate is a function of the line: argv is any line of up to MaxTokens *)
(* tokens, and the properties compare it with what else can be typed.      *)
(***************************************************************************)
EXTENDS Policy, SequencesExt

CONSTANTS Table,        \* the rule table
          Commands,     \* executables, as a shell would name them
          Arguments,    \* tokens that may follow
          Takes,        \* wrapper -> the flags it takes, whether or not the gate knows them
          Values,       \* what may follow such a flag as its value
          MaxTokens,    \* bound on the length of the line
          MaxOwn        \* bound on a wrapper's own tokens

ASSUME CommandsAreNames == Commands \cap (Flags \cup Assignments) = {}
ASSUME TokensAreCounted == MaxTokens \in Nat /\ MaxOwn \in Nat
ASSUME WrappersTakeFlags ==
  DOMAIN Takes = Wrappers /\ \A w \in Wrappers : OwnFlags[w] \subseteq Takes[w] /\ Takes[w] \subseteq Flags

(* As in rules.json: no rule is about a wrapper, and one that is about no   *)
(* command has a pattern and nothing else, and prohibits.                   *)
ASSUME RulesNameNoWrapper ==
  /\ DOMAIN Table \subseteq Nat
  /\ \A i \in DOMAIN Table :
       /\ Table[i].cmd \cap Wrappers = {}
       /\ Table[i].cmd = {} =>
            /\ Table[i].class = "PROHIBITED"
            /\ Table[i].sub = {} /\ Table[i].anyFlag = {} /\ Table[i].allFlags = {}
            /\ ~ Table[i].root

VARIABLE argv  \* the line the operator typed

CommandLines ==
  UNION {{<<name>> \o rest : rest \in BoundedSeq(Arguments, MaxTokens - 1)} : name \in Commands}

(* Where the command in effect begins. *)
EffectiveAt(line) == Len(line) - Len(Unwrap(line).effective) + 1

(* The command in effect under another of its names: the same base. *)
Respelt(line) ==
  LET at == EffectiveAt(line) IN
  {[line EXCEPT ![at] = name] : name \in {n \in Commands : Base(n) = Base(line[at])}}

(* A short cluster written as separate flags, in place. *)
WriteOut(line, i, flags) == SubSeq(line, 1, i - 1) \o flags \o SubSeq(line, i + 1, Len(line))

WrittenOut(line) ==
  LET clusters == {i \in EffectiveAt(line) + 1 .. Len(line) :
                     line[i] \in DOMAIN Cluster /\ EndOfFlags \notin ToSet(SubSeq(line, 1, i))}
  IN UNION {{WriteOut(line, i, flags) : flags \in SetToSeqs(Cluster[line[i]])} : i \in clusters}

(* A wrapper with tokens of its own: flags it takes, a value after some of  *)
(* them, assignments.                                                      *)
OwnTokens(wrapper) ==
  LET takes == Takes[Base(wrapper)] IN
  {<<wrapper>> \o own : own \in
     {tokens \in BoundedSeq(takes \cup Assignments \cup Values, MaxOwn) :
        \A i \in DOMAIN tokens :
          tokens[i] \in Values => i > 1 /\ tokens[i - 1] \in takes}}

(* All that can be put in front of a line. *)
Wrappings == UNION {OwnTokens(w) : w \in {c \in Commands : Base(c) \in Wrappers}}

----------------------------------------------------------------------------
(* Properties *)

IsRefused(class, posture, approvals) == Decide(class, posture, approvals).outcome = "REFUSED"

(* The gate can tell that every token is the wrapper's own.  It knows some  *)
(* of the wrappers' flags, and of none that it has a value (isWrapperFlag,  *)
(* policy.go:166); a token it cannot tell it takes for the command.         *)
KnowsAll(own) == \A i \in 2 .. Len(own) : OwnedBy(Base(own[1]), own[i])

NamesCommand(own) == \E i \in 2 .. Len(own), r \in DOMAIN Table : Base(own[i]) \in Table[r].cmd

(* What the gate refuses it refuses behind sudo, env and their like too, as *)
(* many of them as there are (policy.go:118: "`sudo rm -rf /` is classified *)
(* as `rm -rf /` rather than as an unknown call to sudo"; policy_test.go:247 *)
(* "sudo must not hide the command"), if it knows all of the wrapper's      *)
(* tokens.  With one it does not know, a refusal that nothing overrules     *)
(* stands: not what is only observed, not with unclassified commands        *)
(* approved, and not if the token is the name of a command in the table.    *)
RefusedBehindWrappers ==
  LET class   == Classify(Table, argv)
      refused == {c \in Postures \X Approvals : IsRefused(class, c[1], c[2])}
      Overruled(posture, approvals) == posture = "observe" \/ approvals.unclassified
  IN \A own \in Wrappings :
       LET enclosed == Classify(Table, own \o argv) IN
       \A c \in refused :
         \/ IsRefused(enclosed, c[1], c[2])
         \/ ~ KnowsAll(own) /\ (Overruled(c[1], c[2]) \/ NamesCommand(own))

(* An executable that a rule's pattern spells out is spelt for a purpose: a *)
(* pattern is matched against the line as it was typed (policy.go:324).     *)
SpeltOut(line) == \E i \in DOMAIN Table : line[EffectiveAt(line)] \in Table[i].pattern

(* "Windows path separators, case, and PATHEXT aliases must not change a    *)
(* known command's policy class" (policy.go:149).                           *)
NamesKeepClass ==
  \A other \in Respelt(argv) :
    \/ Classify(Table, other) = Classify(Table, argv)
    \/ SpeltOut(argv) \/ SpeltOut(other)

(* Nor does writing out a cluster: "-rf satisfies a rule that asks for -f"  *)
(* (policy.go:178).                                                         *)
ClustersKeepClass ==
  \A other \in WrittenOut(argv) :
    \/ Classify(Table, other) = Classify(Table, argv)
    \/ SpeltOut(argv) \/ SpeltOut(other)

(* However the line is spelt, it is the same line to the gate.              *)
SpellingKeepsClass == NamesKeepClass /\ ClustersKeepClass

=============================================================================
