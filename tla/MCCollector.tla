----------------------------- MODULE MCCollector -----------------------------
(* Instances of Collector for TLC: objects, their kinds and their keys.     *)
EXTENDS Collector, TLC

CONSTANTS db, tab, idx, qry, nested, a1, a2

(* One object of each kind named in the run; the nested entry of a         *)
(* statement shares the key of its top-level one.                          *)
MCKind ==
  [o \in Objects |->
     CASE o = db -> "database" [] o = tab -> "table" [] o = idx -> "index"
       [] OTHER -> "query"]

DistinctKeys == [o \in Objects |-> o]

SharedKeys == [o \in Objects |-> IF o = nested THEN qry ELSE o]

FastCycles == {[slow |-> FALSE, sizes |-> FALSE]}

SlowCycles == {[slow |-> TRUE, sizes |-> FALSE], [slow |-> FALSE, sizes |-> TRUE]}

AgentSymmetry == Permutations(Agents)

=============================================================================
