------------------------------ MODULE MCReport ------------------------------
(* An instance of Report for TLC: cycles of each class, with and without    *)
(* events.                                                                 *)
EXTENDS Report, TLC

MCAlerts == [type : {"deadlock", "high_temp_io"}, obj : {"db"}]

Reporting(types) == {x \in MCAlerts : x.type \in types}

MCOutcomes ==
  {[alerts |-> Reporting({"deadlock", "high_temp_io"}), slow |-> FALSE, sizes |-> FALSE],
   [alerts |-> Reporting({"deadlock"}), slow |-> TRUE, sizes |-> TRUE],
   [alerts |-> Reporting({"high_temp_io"}), slow |-> TRUE, sizes |-> FALSE]}

AgentSymmetry == Permutations(Agents)

=============================================================================
