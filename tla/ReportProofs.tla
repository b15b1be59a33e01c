---------------------------- MODULE ReportProofs ----------------------------
(***************************************************************************)
(* Proofs about Report.tla, for any agents, window, limit and skew: what   *)
(* the sections of one report say about each other.                        *)
(***************************************************************************)
EXTENDS Report, TLAPS

USE CommitsAssumption, ReportAssumption

Reports ==
  [step : {"none", "workload", "top", "events", "totals", "classes", "printReport", "printHealth"},
   now : Nat, workload : SUBSET Cycle, top : SUBSET Cycle, listed : SUBSET Event,
   totals : SUBSET Cycle, classes : [Classes -> SUBSET Cycle]]

Jobs == [at : Int, now : Nat]

(* The invariant in two parts: what the agents keep and what a report keeps.*)
CyclesInv ==
  /\ clock \in Nat /\ cycles \subseteq Cycle /\ events \subseteq Event
  /\ pc \in [Agents -> {"idle", "begun", "opened"}] /\ job \in [Agents -> Jobs]
  /\ \A c \in cycles :
       /\ c.at <= c.now + MaxSkew
       /\ \A x \in c.outcome.alerts : EventOf(c, x) \in events
  /\ \A a \in Agents :
       /\ pc[a] # "idle" => job[a].at <= clock + MaxSkew
       /\ pc[a] = "opened" => job[a].at <= job[a].now + MaxSkew

ReadInv ==
  /\ report \in Reports
  /\ report.workload \subseteq cycles /\ report.totals \subseteq cycles
  /\ \A c \in report.workload \cup report.totals : c.at >= Start
  /\ report.step = "events" => report.workload \subseteq report.top
  /\ DeadlocksAreListed /\ HealthAddsUp

LEMMA TwoParts == ReportInv <=> CyclesInv /\ ReadInv
BY DEF ReportInv, TypeOK, CyclesInv, ReadInv, Reports, Jobs

LEMMA CyclesStep ==
  ASSUME CyclesInv, [Next]_vars PROVE CyclesInv' /\ cycles \subseteq cycles'
<1> USE DEF CyclesInv, Jobs
<1>1. CASE UNCHANGED commits
  BY <1>1 DEF commits
<1>2. ASSUME NEW a \in Agents, Begin(a) PROVE CyclesInv' /\ cycles \subseteq cycles'
  <2>1. PICK d \in -MaxSkew..MaxSkew :
          job' = [job EXCEPT ![a] = [at |-> clock + 1 + d, now |-> 0]]
    BY <1>2 DEF Begin, NoJob
  <2>2. /\ clock' = clock + 1 /\ cycles' = cycles /\ events' = events
        /\ pc' = [pc EXCEPT ![a] = "begun"] /\ pc[a] = "idle"
    BY <1>2 DEF Begin
  <2>3. job' \in [Agents -> Jobs]
    BY <2>1
  <2>4. ASSUME NEW b \in Agents
        PROVE  /\ pc'[b] # "idle" => job'[b].at <= clock' + MaxSkew
               /\ pc'[b] = "opened" => job'[b].at <= job'[b].now + MaxSkew
    <3>1. CASE b = a
      BY <2>1, <2>2, <3>1
    <3>2. CASE b # a
      BY <2>1, <2>2, <3>2
    <3> QED
      BY <3>1, <3>2
  <2>5. clock' \in Nat /\ pc' \in [Agents -> {"idle", "begun", "opened"}]
    BY <2>2
  <2> QED
    BY <2>2, <2>3, <2>4, <2>5
<1>3. ASSUME NEW a \in Agents, OpenTransaction(a) PROVE CyclesInv' /\ cycles \subseteq cycles'
  <2>1. /\ clock' = clock + 1 /\ cycles' = cycles /\ events' = events
        /\ job' = [job EXCEPT ![a].now = clock + 1]
        /\ pc' = [pc EXCEPT ![a] = "opened"] /\ pc[a] = "begun"
    BY <1>3 DEF OpenTransaction
  <2>2. ASSUME NEW b \in Agents
        PROVE  /\ pc'[b] # "idle" => job'[b].at <= clock' + MaxSkew
               /\ pc'[b] = "opened" => job'[b].at <= job'[b].now + MaxSkew
    <3>1. CASE b = a
      BY <2>1, <3>1
    <3>2. CASE b # a
      BY <2>1, <3>2
    <3> QED
      BY <3>1, <3>2
  <2> QED
    BY <2>1, <2>2
<1>4. ASSUME NEW a \in Agents, Commit(a) PROVE CyclesInv' /\ cycles \subseteq cycles'
  <2>1. PICK o, c :
          /\ o \in Outcomes
          /\ c = [at |-> job[a].at, now |-> job[a].now, outcome |-> o]
          /\ cycles' = cycles \cup {c}
          /\ events' = events \cup {EventOf(c, x) : x \in o.alerts}
    BY <1>4 DEF Commit
  <2>2. /\ pc[a] = "opened" /\ pc' = [pc EXCEPT ![a] = "idle"]
        /\ job' = [job EXCEPT ![a] = NoJob] /\ clock' = clock
    BY <1>4 DEF Commit
  <2>3. c \in Cycle /\ c.at <= c.now + MaxSkew /\ c.outcome = o
    BY <2>1, <2>2 DEF Cycle
  <2>4. events' \subseteq Event
    BY <2>1, <2>3 DEF Cycle, Outcome, EventOf, Event
  <2>5. \A x \in c.outcome.alerts : EventOf(c, x) \in events'
    BY <2>1, <2>3
  <2> QED
    BY <2>1, <2>2, <2>3, <2>4, <2>5 DEF NoJob
<1>5. ASSUME NEW a \in Agents, Abort(a) PROVE CyclesInv' /\ cycles \subseteq cycles'
  BY <1>5 DEF Abort, NoJob
<1> QED
  BY <1>1, <1>2, <1>3, <1>4, <1>5
  DEF Next, CommitsNext, vars, Identify, ReadWorkload, ReadTop, ReadEvents, ReadTotals, ReadClasses, End

(* A recent deadlock: its event is listed, or cut off.                     *)
LEMMA ListedOrCut ==
  ASSUME CyclesInv, report \in Reports, NEW l \in Newest(RecentEvents),
         NEW c \in cycles, NEW x \in Deadlocks(c), c.at >= Start + MaxSkew
  PROVE  EventOf(c, x) \in l \/ (Full(l) /\ \A e \in l : e.created >= c.now)
<1>1. c \in Cycle /\ c.at <= c.now + MaxSkew /\ EventOf(c, x) \in events
  BY DEF CyclesInv, Deadlocks
<1>2. c.now >= Start
  BY <1>1 DEF Start, Reports, Cycle
<1>3. EventOf(c, x) \in RecentEvents /\ EventOf(c, x).created = c.now
  BY <1>1, <1>2 DEF RecentEvents, EventOf
<1> QED
  BY <1>3 DEF Newest

LEMMA EventsTyped == CyclesInv => RecentEvents \subseteq Event
BY DEF CyclesInv, RecentEvents

LEMMA ReadStep ==
  ASSUME CyclesInv, ReadInv, [Next]_vars PROVE ReadInv'
<1>0. cycles \subseteq cycles'
  BY CyclesStep
<1>1. CASE UNCHANGED report
  BY <1>0, <1>1 DEF ReadInv, DeadlocksAreListed, HealthAddsUp, Start
<1>2. InWindow \subseteq cycles /\ (\A c \in InWindow : c.at >= Start) /\ InWindow \subseteq Cycle
  BY DEF InWindow, CyclesInv
<1>3. CASE Identify \/ End
  <2>1. PICK first \in {"none", "workload", "totals"}, n \in Nat :
          report' = [step |-> first, now |-> n, workload |-> {}, top |-> {}, listed |-> {},
                     totals |-> {}, classes |-> [k \in Classes |-> {}]]
    <3>1. CASE Identify
      BY <3>1 DEF Identify, NoReport, CyclesInv
    <3>2. CASE End
      BY <3>2 DEF End, NoReport
    <3> QED
      BY <1>3, <3>1, <3>2
  <2> QED
    BY <2>1 DEF ReadInv, Reports, DeadlocksAreListed, HealthAddsUp, Start
<1>4. CASE ReadWorkload
  <2>1. /\ report' = [report EXCEPT !.step = "top", !.workload = InWindow]
        /\ UNCHANGED cycles
    BY <1>4 DEF ReadWorkload, commits
  <2>2. report' \in Reports
    BY <1>2, <2>1 DEF ReadInv, Reports
  <2>3. /\ report'.step = "top" /\ report'.workload = InWindow
        /\ report'.now = report.now /\ report'.totals = report.totals
    BY <2>1 DEF ReadInv, Reports
  <2> QED
    BY <1>2, <2>1, <2>2, <2>3 DEF ReadInv, DeadlocksAreListed, HealthAddsUp, Start
<1>5. CASE ReadTop
  <2>1. /\ report' = [report EXCEPT !.step = "events", !.top = InWindow]
        /\ UNCHANGED cycles
    BY <1>5 DEF ReadTop, commits
  <2>2. report' \in Reports
    BY <1>2, <2>1 DEF ReadInv, Reports
  <2>3. /\ report'.step = "events" /\ report'.top = InWindow
        /\ report'.workload = report.workload
        /\ report'.now = report.now /\ report'.totals = report.totals
    BY <2>1 DEF ReadInv, Reports
  <2>4. report.workload \subseteq InWindow
    BY DEF ReadInv, InWindow
  <2> QED
    BY <2>1, <2>2, <2>3, <2>4 DEF ReadInv, DeadlocksAreListed, HealthAddsUp, Start
<1>6. CASE ReadEvents
  <2>1. PICK l \in Newest(RecentEvents) :
          report' = [report EXCEPT !.step = "printReport", !.listed = l]
    BY <1>6 DEF ReadEvents, commits
  <2>2. report' \in Reports
    <3>1. l \subseteq Event
      BY EventsTyped DEF Newest
    <3> QED
      BY <2>1, <3>1 DEF ReadInv, Reports
  <2>3. /\ report'.step = "printReport" /\ report'.listed = l /\ report'.top = report.top
        /\ report'.workload = report.workload
        /\ report'.now = report.now /\ report'.totals = report.totals
    BY <2>1 DEF ReadInv, Reports
  <2>4. UNCHANGED cycles /\ report.step = "events"
    BY <1>6 DEF ReadEvents, commits
  <2>5. DeadlocksAreListed'
    <3>1. \A c \in report.workload :
            c.at >= Start + MaxSkew =>
              \A x \in Deadlocks(c) :
                EventOf(c, x) \in l \/ (Full(l) /\ \A e \in l : e.created >= c.now)
      BY ListedOrCut DEF ReadInv
    <3> QED
      BY <2>3, <2>4, <3>1 DEF ReadInv, DeadlocksAreListed, Start, Full, Deadlocks, EventOf
  <2> QED
    BY <2>2, <2>3, <2>4, <2>5 DEF ReadInv, HealthAddsUp, Start
<1>7. CASE ReadTotals
  <2>1. /\ report' = [report EXCEPT !.step = "classes", !.totals = InWindow]
        /\ UNCHANGED cycles
    BY <1>7 DEF ReadTotals, commits
  <2>2. report' \in Reports
    BY <1>2, <2>1 DEF ReadInv, Reports
  <2>3. /\ report'.step = "classes" /\ report'.totals = InWindow
        /\ report'.workload = report.workload /\ report'.now = report.now
    BY <2>1 DEF ReadInv, Reports
  <2> QED
    BY <1>2, <2>1, <2>2, <2>3 DEF ReadInv, DeadlocksAreListed, HealthAddsUp, Start
<1>8. CASE ReadClasses
  <2> DEFINE classes == [k \in Classes |-> {c \in InWindow : ClassOf(c.outcome) = k}]
  <2>1. /\ report' = [report EXCEPT !.step = "printHealth", !.classes = classes]
        /\ UNCHANGED cycles
    BY <1>8 DEF ReadClasses, commits
  <2>2. classes \in [Classes -> SUBSET Cycle]
    BY <1>2
  <2>3. report' \in Reports
    BY <2>1, <2>2 DEF ReadInv, Reports
  <2>4. /\ report'.step = "printHealth" /\ report'.classes = classes
        /\ report'.workload = report.workload /\ report'.totals = report.totals
        /\ report'.now = report.now
    BY <2>1 DEF ReadInv, Reports
  <2>5. report.totals \subseteq InWindow
    BY DEF ReadInv, InWindow
  <2>6. \A c \in InWindow :
          /\ c.outcome.sizes => c \in classes["SIZE"]
          /\ c.outcome.slow => c \in classes["SLOW"] \cup classes["SIZE"]
          /\ ~c.outcome.slow => c \in classes["FAST"]
          /\ \E k \in Classes : c \in classes[k]
    <3> SUFFICES ASSUME NEW c \in InWindow
                 PROVE  /\ c.outcome.sizes => c \in classes["SIZE"]
                        /\ c.outcome.slow => c \in classes["SLOW"] \cup classes["SIZE"]
                        /\ ~c.outcome.slow => c \in classes["FAST"]
                        /\ \E k \in Classes : c \in classes[k]
      OBVIOUS
    <3>1. ~c.outcome.slow => ~c.outcome.sizes
      BY <1>2 DEF Cycle, Outcome
    <3>2. /\ c.outcome.sizes => ClassOf(c.outcome) = "SIZE"
          /\ c.outcome.slow => ClassOf(c.outcome) \in {"SLOW", "SIZE"}
          /\ ~c.outcome.slow => ClassOf(c.outcome) = "FAST"
      BY <3>1 DEF ClassOf
    <3>3. \A k \in Classes : ClassOf(c.outcome) = k => c \in classes[k]
      OBVIOUS
    <3> QED
      BY <3>2, <3>3 DEF Classes
  <2>7. \A k, j \in Classes : k # j => classes[k] \cap classes[j] = {}
    OBVIOUS
  <2>8. HealthAddsUp'
    BY <2>4, <2>5, <2>6, <2>7 DEF HealthAddsUp
  <2> QED
    BY <2>1, <2>3, <2>4, <2>8 DEF ReadInv, DeadlocksAreListed, Start
<1>9. CASE UNCHANGED vars
  BY <1>1, <1>9 DEF vars
<1>10. CASE CommitsNext /\ UNCHANGED report
  BY <1>1, <1>10
<1> QED
  BY <1>3, <1>4, <1>5, <1>6, <1>7, <1>8, <1>9, <1>10 DEF Next

LEMMA AlwaysReportInv == Spec => []ReportInv
<1>1. Init => ReportInv
  BY DEF Init, CommitsInit, ReportInv, TypeOK, NoReport, NoJob, DeadlocksAreListed, HealthAddsUp, Classes, Start
<1>2. ReportInv /\ [Next]_vars => ReportInv'
  <2>1. ASSUME CyclesInv, ReadInv, [Next]_vars PROVE CyclesInv' /\ ReadInv'
    BY <2>1, CyclesStep, ReadStep
  <2>2. (CyclesInv /\ ReadInv)' => ReportInv'
    BY DEF ReportInv, TypeOK, CyclesInv, ReadInv, Reports, Jobs
  <2> QED
    BY <2>1, <2>2, TwoParts
<1> QED
  BY <1>1, <1>2, PTL DEF Spec

(* Every deadlock that text_report counts under WORKLOAD, away from the    *)
(* edge of the window by the skew of the clocks, has its event in RECENT   *)
(* EVENTS or was cut off by newer ones.                                    *)
THEOREM ReportsListDeadlocks == Spec => []DeadlocksAreListed
<1>1. ReportInv => DeadlocksAreListed
  BY DEF ReportInv
<1> QED
  BY <1>1, AlwaysReportInv, PTL

(* The classes health_report prints account for all cycles it counted.     *)
THEOREM HealthClassesAddUp == Spec => []HealthAddsUp
<1>1. ReportInv => HealthAddsUp
  BY DEF ReportInv
<1> QED
  BY <1>1, AlwaysReportInv, PTL

=============================================================================
