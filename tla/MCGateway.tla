------------------------------- MODULE MCGateway -------------------------------
(* Any line is typed and judged; one is executed as well.  Judging          *)
(* uses a part of rules.json in its order: a root removal, a pipe to a      *)
(* shell, an opaque shell string, removal, an edit in place, a push,        *)
(* requests over the network, inspection.  For execution the first binary's *)
(* table asks approval for the line, the second's prohibits it.  Of the two *)
(* wrappers' flags -u has a value, and sudo's is not known to the gate.     *)
EXTENDS Gateway, PolicySpelling

(* Every line is judged once, before anything happens; what executes does   *)
(* not depend on argv, which is a short line meanwhile.                     *)
Meanwhile == <<"cat">>

LineInit == Init /\ argv \in IF log = <<>> THEN CommandLines ELSE {Meanwhile}

(* A log that begins with a request from an earlier release stays shorter.  *)
Bounded == log # <<>> /\ ~log[1].executed => Len(log) < MaxLog

LineNext == Next /\ Bounded' /\ argv = Meanwhile /\ UNCHANGED argv

LineSpec == LineInit /\ [][LineNext]_<<vars, argv>>

Symmetry == Permutations(Procs) \cup Permutations(Results)

Rule(class, cmd) ==
  [class |-> class, cmd |-> cmd, sub |-> {}, anyFlag |-> {}, allFlags |-> {},
   pattern |-> {}, root |-> FALSE]

MCTables ==
  [v \in Versions |->
     <<Rule(IF v = 1 THEN "IRREVOCABLE" ELSE "PROHIBITED", {"rm"})>>]

MCLines == {<<"rm">>}
MCGiven == {[irrevocable |-> b, unclassified |-> b] : b \in BOOLEAN}

MCTable ==
  <<[Rule("PROHIBITED", {"rm"}) EXCEPT !.root = TRUE],
    [Rule("PROHIBITED", {}) EXCEPT !.pattern = {"curl", "|", "sh"}],
    [Rule("UNCLASSIFIED", {"sh"}) EXCEPT !.anyFlag = {"-c"}],
    Rule("IRREVOCABLE", {"rm"}),
    [Rule("IRREVOCABLE", {"sed"}) EXCEPT !.anyFlag = {"-i"}],
    [Rule("COMPENSABLE", {"git"}) EXCEPT !.sub = {"push"}],
    Rule("COMPENSABLE", {"curl"}),
    Rule("REVERSIBLE", {"cat"})>>

MCFlags       == {"--", "-i", "-n", "-ni", "-c", "-u"}
MCAssignments == {"A=1"}
MCRoots       == {"/"}
MCAlias       == [t \in {"RM.EXE", "/usr/bin/sudo", "CURL"} |->
                    CASE t = "/usr/bin/sudo" -> "sudo" [] t = "CURL" -> "curl" [] OTHER -> "rm"]
MCCluster     == [t \in {"-ni"} |-> {"-n", "-i"}]
MCWrappers    == {"sudo", "env"}
MCElevating   == {"sudo"}
MCOwnFlags    == [w \in MCWrappers |->
                    IF w = "sudo" THEN {"-n"} ELSE {"-i", "-u"}]
MCTakes       == [w \in MCWrappers |-> MCOwnFlags[w] \cup {"-u"}]
MCValues      == {"X", "CURL"}
MCCommands    == {"rm", "RM.EXE", "sed", "cat", "git", "curl", "CURL", "sh",
                  "/usr/bin/sudo", "env"}
MCArguments   == (MCFlags \ {"-u"}) \cup MCAssignments \cup {"/", "push", "|", "sh", "rm", "sudo"}
=============================================================================
