------------------------------- MODULE Report -------------------------------
(***************************************************************************)
(* pgintel/report.py: "pgintel report" and "pgintel health" read the       *)
(* repository while agents commit their cycles (Commits.tla).  The         *)
(* statements of one report are one transaction at READ COMMITTED: now()   *)
(* stays what it was at the first of them, but each sees what was          *)
(* committed before it began.                                              *)
(***************************************************************************)
EXTENDS Commits, FiniteSets

CONSTANTS
  Window,    \* --hours
  ListLimit  \* LIMIT of RECENT EVENTS

ASSUME ReportAssumption == Window \in Nat /\ ListLimit \in Nat \ {0}

VARIABLE
  report   \* the running report: its statement, its now() and what it has read

vars == <<commits, report>>

Classes == {"FAST", "SLOW", "SIZE"}

TypeOK ==
  /\ clock \in Nat
  /\ cycles \subseteq Cycle
  /\ events \subseteq Event
  /\ pc \in [Agents -> {"idle", "begun", "opened"}]
  /\ job \in [Agents -> [at : Int, now : Nat]]
  /\ report \in [step : {"none", "workload", "top", "events", "totals", "classes",
                         "printReport", "printHealth"},
                 now : Nat, workload : SUBSET Cycle, top : SUBSET Cycle,
                 listed : SUBSET Event, totals : SUBSET Cycle,
                 classes : [Classes -> SUBSET Cycle]]

NoReport ==
  [step |-> "none", now |-> 0, workload |-> {}, top |-> {}, listed |-> {},
   totals |-> {}, classes |-> [k \in Classes |-> {}]]

Init == CommitsInit /\ report = NoReport

-----------------------------------------------------------------------------
(* Reports.                                                                *)

Start == report.now - Window

(* collected_at >= now() - hours                                           *)
InWindow == {c \in cycles : c.at >= Start}

(* created_at >= now() - hours                                             *)
RecentEvents == {e \in events : e.created >= Start}

(* ORDER BY created_at DESC LIMIT: the lists of that many events none of   *)
(* which is older than one left out.                                       *)
Full(l) == Cardinality(l) = ListLimit

NewestMutant(es) ==
  {l \in SUBSET es :
     /\ l = es \/ Full(l)
     /\ Cardinality(l) <= ListLimit
     /\ \A e \in l, f \in es \ l : e.created <= f.created}

Newest(es) ==
  {l \in SUBSET es :
     /\ l = es \/ Full(l)
     /\ Cardinality(l) <= ListLimit
     /\ \A e \in l, f \in es \ l : e.created >= f.created}

(* The SELECT from pgintel.instances.  An instance without a cycle has no  *)
(* row there, and no report.                                               *)
Identify ==
  /\ report.step = "none" /\ cycles # {}
  /\ \E first \in {"workload", "totals"} :
       report' = [NoReport EXCEPT !.step = first, !.now = clock]
  /\ UNCHANGED commits

ReadWorkload ==
  /\ report.step = "workload"
  /\ report' = [report EXCEPT !.step = "top", !.workload = InWindow]
  /\ UNCHANGED commits

ReadTop ==
  /\ report.step = "top"
  /\ report' = [report EXCEPT !.step = "events", !.top = InWindow]
  /\ UNCHANGED commits

ReadEvents ==
  /\ report.step = "events"
  /\ \E l \in Newest(RecentEvents) :
       report' = [report EXCEPT !.step = "printReport", !.listed = l]
  /\ UNCHANGED commits

(* The sums over all cycles of the window ...                              *)
ReadTotals ==
  /\ report.step = "totals"
  /\ report' = [report EXCEPT !.step = "classes", !.totals = InWindow]
  /\ UNCHANGED commits

ClassOfMutant(o) ==
  IF o.slow THEN "SLOW" ELSE IF o.sizes THEN "SIZE" ELSE "FAST"

ClassOf(o) ==
  IF o.sizes THEN "SIZE" ELSE IF o.slow THEN "SLOW" ELSE "FAST"

(* ... and then class by class.                                            *)
ReadClasses ==
  /\ report.step = "classes"
  /\ report' = [report EXCEPT
       !.step = "printHealth",
       !.classes = [k \in Classes |-> {c \in InWindow : ClassOf(c.outcome) = k}]]
  /\ UNCHANGED commits

(* The report is printed, or its connection is lost.                       *)
End ==
  /\ report.step # "none"
  /\ report' = NoReport
  /\ UNCHANGED commits

-----------------------------------------------------------------------------

Next ==
  \/ CommitsNext /\ UNCHANGED report
  \/ Identify
  \/ ReadWorkload \/ ReadTop \/ ReadEvents
  \/ ReadTotals \/ ReadClasses
  \/ End

Spec == Init /\ [][Next]_vars

-----------------------------------------------------------------------------
(* Properties.  A count in a report is kept as the set of cycles counted.  *)

Deadlocks(c) == {x \in c.outcome.alerts : x.type = "deadlock"}

(* Whoever sees deadlocks under WORKLOAD finds their events further down,  *)
(* though the two come from different statements, tables, clocks and       *)
(* windows: an event is missing only if the list is full of others that    *)
(* are as recent, or within the skew of the clocks at the window's edge.   *)
DeadlocksAreListed ==
  report.step = "printReport" =>
    /\ report.workload \subseteq report.top
    /\ \A c \in report.workload : c.at >= Start + MaxSkew =>
         \A x \in Deadlocks(c) :
           \/ EventOf(c, x) \in report.listed
           \/ Full(report.listed) /\ \A e \in report.listed : e.created >= c.now

(* The classes of a health report account for every cycle of its totals:   *)
(* its cycles, its slow and its size cycles are in a class that says so,   *)
(* and if a class counts more, that was committed in between.              *)
HealthAddsUp ==
  report.step = "printHealth" =>
    /\ report.totals \subseteq UNION {report.classes[k] : k \in Classes}
    /\ \A c \in report.totals :
         /\ c.outcome.sizes => c \in report.classes["SIZE"]
         /\ c.outcome.slow => c \in report.classes["SLOW"] \cup report.classes["SIZE"]
         /\ ~c.outcome.slow => c \in report.classes["FAST"]
    /\ \A k, l \in Classes : k # l => report.classes[k] \cap report.classes[l] = {}

(* Why these hold: nothing that was read is ever removed, a cycle's events *)
(* are there with it, and its transaction starts after it.                 *)
ReportInv ==
  /\ TypeOK
  /\ report.workload \subseteq cycles /\ report.totals \subseteq cycles
  /\ \A c \in report.workload \cup report.totals : c.at >= Start
  /\ report.step = "events" => report.workload \subseteq report.top
  /\ \A c \in cycles :
       /\ c.at <= c.now + MaxSkew
       /\ \A x \in c.outcome.alerts : EventOf(c, x) \in events
  /\ \A a \in Agents :
       /\ pc[a] # "idle" => job[a].at <= clock + MaxSkew
       /\ pc[a] = "opened" => job[a].at <= job[a].now + MaxSkew
  /\ DeadlocksAreListed /\ HealthAddsUp

=============================================================================
