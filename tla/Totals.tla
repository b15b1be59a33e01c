------------------------------- MODULE Totals -------------------------------
(***************************************************************************)
(* The sums that "pgintel report" shows under WORKLOAD and TOP QUERIES:    *)
(* the deltas of an object's rows in a window of collected_at.  They are   *)
(* kept here as running sums beside Collector.tla, which they do not       *)
(* influence; the sum over a window is a difference of two of them.        *)
(***************************************************************************)
EXTENDS Collector

VARIABLES
  total,  \* total[o]: the sum of the deltas of all rows of o
  upTo    \* upTo[r]: that sum when r had just been stored

totals == <<vars, total, upTo>>

(* The first row of an object has nothing to be compared with.             *)
TotalsInit == Init /\ total = [o \in Objects |-> 0] /\ upTo = [r \in {} |-> 0]

(* A cycle stores one row of an object at most (Ledger.tla).               *)
Added(o, rows) ==
  IF \E r \in rows : r.obj = o THEN (CHOOSE r \in rows : r.obj = o).delta ELSE 0

Sum ==
  /\ total' = [o \in Objects |-> total[o] + Added(o, samples' \ samples)]
  /\ upTo' = [r \in samples' |-> IF r \in samples THEN upTo[r] ELSE total'[r.obj]]

TotalsNext == Next /\ Sum

TotalsSpec == TotalsInit /\ [][TotalsNext]_totals

-----------------------------------------------------------------------------
(* Properties.                                                             *)

(* What a report shows for the rows after p up to r, whatever happened in  *)
(* between: the activity between the two readings if the counter was not   *)
(* reset, never more than that, and for a database, whose resets are       *)
(* known, no less than what came after the last one.                       *)
SumIsActivity(p, r) ==
  LET sum == upTo[r] - upTo[p]
  IN  /\ 0 <= sum /\ sum <= r.grown - p.grown
      /\ r.reset = p.reset => sum = r.grown - p.grown
      /\ r.reset # p.reset /\ Kind[r.obj] = "database" => r.raw <= sum

WindowsAddUp ==
  \A p, r \in samples : p.obj = r.obj /\ p.at < r.at => SumIsActivity(p, r)

(* Why that holds: the newest row of an object has all of its sum.         *)
TotalsInv ==
  /\ \A r \in samples :
       (\A q \in samples : q.obj = r.obj => q.at <= r.at) => upTo[r] = total[r.obj]
  /\ WindowsAddUp

=============================================================================
