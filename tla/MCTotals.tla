------------------------------ MODULE MCTotals ------------------------------
(* Instances of Totals for TLC, on cycles that take turns: the runs of the  *)
(* serial properties have the constraint CyclesDoNotOverlap.                *)
EXTENDS Totals, MCCollector

=============================================================================
