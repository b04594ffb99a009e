-------------------------------- MODULE Policy --------------------------------
(***************************************************************************)
(* The gate of internal/policy/policy.go: the class a rule table gives a   *)
(* command line, and the decision a posture and the operator's approvals   *)
(* make of that class.  No variables: PolicySpelling and Gateway compute   *)
(* with it.                                                                *)
(*                                                                         *)
(* Abstractions.  A command line is a sequence of tokens; which tokens     *)
(* begin with "-", hold an assignment, stand for the same executable, name *)
(* a filesystem root, or what a cluster such as -rf spells, are constants. *)
(* A rule's regular expression is the set of tokens the line must mention. *)
(***************************************************************************)
EXTENDS Sequences, FiniteSetsExt

CONSTANTS Flags,        \* tokens that begin with "-"
          Assignments,  \* other tokens VAR=value
          Roots,        \* operands that name a filesystem or home root
          Alias,        \* executable spelling -> the name it is known by
          Cluster,      \* short flag cluster -> the flags it spells
          Wrappers,     \* sudo, env, ...
          Elevating,    \* the wrappers that run as another user
          OwnFlags      \* wrapper -> the flags that belong to it

EndOfFlags == "--"

ASSUME TokensAreTold ==
  /\ EndOfFlags \in Flags
  /\ Flags \cap Assignments = {}
  /\ Elevating \subseteq Wrappers
  /\ DOMAIN OwnFlags = Wrappers /\ \A w \in Wrappers : OwnFlags[w] \subseteq Flags
  /\ DOMAIN Cluster \subseteq Flags

Classes  == {"REVERSIBLE", "COMPENSABLE", "IRREVOCABLE", "PROHIBITED", "UNCLASSIFIED"}
Postures == {"enforce", "observe"}

Approvals == [irrevocable : BOOLEAN, unclassified : BOOLEAN]

----------------------------------------------------------------------------
(* Removing the wrappers in front of a command *)

Base(token) == IF token \in DOMAIN Alias THEN Alias[token] ELSE token

OwnedBy(wrapper, token) ==
  IF token \in Flags THEN token \in OwnFlags[wrapper] ELSE token \in Assignments

(* Where the wrapper at i - 1 stops owning tokens. *)
AfterOwned(argv, i, wrapper) ==
  Min({j \in i .. Len(argv) + 1 :
         j <= Len(argv) => ~OwnedBy(wrapper, argv[j])})

(* Mutant: only the outermost wrapper is removed. *)
UnwrapOnce(argv) ==
  LET i == AfterOwned(argv, 2, Base(argv[1])) IN
  IF Base(argv[1]) \notin Wrappers \/ i > Len(argv)
  THEN [effective |-> argv, elevated |-> Base(argv[1]) \in Elevating]
  ELSE [effective |-> SubSeq(argv, i, Len(argv)), elevated |-> Base(argv[1]) \in Elevating]

(* From each position on: where the wrappers end, and whether one of them   *)
(* elevates.                                                               *)
Steps(argv) ==
  LET step[i \in 1 .. Len(argv) + 1] ==
        IF i > Len(argv) \/ Base(argv[i]) \notin Wrappers
        THEN [at |-> i, elevated |-> FALSE]
        ELSE LET rest == step[AfterOwned(argv, i + 1, Base(argv[i]))] IN
             [at       |-> rest.at,
              elevated |-> rest.elevated \/ Base(argv[i]) \in Elevating]
  IN step

(* A line of nothing but wrappers stays whole. *)
Unwrap(argv) ==
  LET end == Steps(argv)[1].at IN
  [effective |-> IF end > Len(argv) THEN argv ELSE SubSeq(argv, end, Len(argv)),
   elevated  |-> Steps(argv)[1].elevated]

----------------------------------------------------------------------------
(* Flags and operands *)

(* Everything after the first "--" is an operand, and "--" is neither. *)
FlagsEnd(args) ==
  Min({i \in 1 .. Len(args) + 1 : i <= Len(args) => args[i] = EndOfFlags})

(* Mutant: a cluster is one flag. *)
FlagsUnsplit(args) ==
  {args[i] : i \in {j \in 1 .. FlagsEnd(args) - 1 : args[j] \in Flags}}

FlagsOf(args) ==
  LET given == {args[i] : i \in {j \in 1 .. FlagsEnd(args) - 1 : args[j] \in Flags}} IN
  given \cup UNION {Cluster[f] : f \in given \cap DOMAIN Cluster}

OperandsOf(args) ==
  LET IsOperand(token) == token \notin Flags
      end == FlagsEnd(args)
  IN SelectSeq(SubSeq(args, 1, end - 1), IsOperand) \o SubSeq(args, end + 1, Len(args))

----------------------------------------------------------------------------
(* The rule table *)

Mentioned(argv) == {argv[i] : i \in DOMAIN argv}

(* An empty set in a rule asks for nothing. *)
Matches(rule, effective) ==
  LET args     == Tail(effective)
      flags    == FlagsOf(args)
      operands == OperandsOf(args)
  IN /\ rule.cmd # {} => Base(Head(effective)) \in rule.cmd
     /\ rule.cmd # {} \/ rule.pattern # {} \/ rule.anyFlag # {}
     /\ rule.sub # {} => operands # <<>> /\ Head(operands) \in rule.sub
     /\ rule.anyFlag # {} => rule.anyFlag \cap flags # {}
     /\ rule.allFlags \subseteq flags
     /\ rule.pattern \subseteq Mentioned(effective)
     /\ rule.root => \E i \in DOMAIN operands : operands[i] \in Roots

(* The first rule that matches names the class. *)
RuleClass(table, effective) ==
  LET matching == {i \in DOMAIN table : Matches(table[i], effective)} IN
  IF matching = {} THEN "UNCLASSIFIED" ELSE table[Min(matching)].class

(* What this account could undo it may not be able to undo as another user. *)
Raised(class, elevated) ==
  IF elevated /\ class \in {"REVERSIBLE", "COMPENSABLE"} THEN "IRREVOCABLE" ELSE class

Classify(table, argv) ==
  LET un == Unwrap(argv) IN
  Raised(RuleClass(table, un.effective), un.elevated)

----------------------------------------------------------------------------
(* The decision *)

Admitted(approval) == [outcome |-> "ADMITTED", approval |-> approval]
Refused            == [outcome |-> "REFUSED",  approval |-> "none"]

Decide(class, posture, approvals) ==
  IF class = "PROHIBITED" THEN Refused
  ELSE IF posture = "observe" \/ class \in {"REVERSIBLE", "COMPENSABLE"} THEN Admitted("none")
  ELSE IF class = "IRREVOCABLE" /\ approvals.irrevocable THEN Admitted("operator")
  ELSE IF class = "UNCLASSIFIED" /\ approvals.unclassified THEN Admitted("operator-unclassified")
  ELSE Refused
=============================================================================
