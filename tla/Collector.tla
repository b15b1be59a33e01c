------------------------------ MODULE Collector ------------------------------
(***************************************************************************)
(* pgintel/agent.py, collect_once: one collection cycle, run by several    *)
(* agents (the daemon and `pgintel collect`, or two daemons) that monitor  *)
(* the same source under the same instance name and share one repository.  *)
(*                                                                         *)
(* A cycle reads the source counters, takes the instance's row lock in the *)
(* repository, derives and stages its rows and its events in one           *)
(* transaction and publishes all of them with a single commit.  Nothing    *)
(* keeps a second agent from reading the source meanwhile: the lock is     *)
(* taken only after the reads.                                             *)
(***************************************************************************)
EXTENDS Samples

CONSTANTS
  Agents,      \* processes that run collect_once for this instance
  Nobody,      \* nobody holds the instance's row
  Mode,        \* query_text_mode: "none", "events" or "all"
  Cooldown,    \* event_cooldown_seconds; 0 turns the cooldown off
  MinHistory,  \* history rows a regression needs (5 in the code)
  Large,       \* large_unused_index_bytes
  AlertTypes,  \* event types the thresholds of this configuration can reach
  MayOverrun,  \* whether source reads may exceed max_source_cycle_seconds
  Requests,    \* the (slow, sizes) combinations cycles are started with
  MaxClock,    \* bound: no cycle starts after this time
  MaxActivity, \* bound on the activity of one object
  MaxResets,   \* bound on the resets of one object's counters
  MaxAttr      \* bound on the size of one object

AllAlertTypes == {"deadlock", "high_temp_io", "low_cache_hit",
                  "high_dead_tuple_ratio", "large_never_scanned_index",
                  "query_regression"}

ASSUME CollectorAssumption ==
  /\ Nobody \notin Agents
  /\ Mode \in {"none", "events", "all"}
  /\ Cooldown \in Nat
  /\ MinHistory \in Nat \ {0}
  /\ Large \in Nat /\ MayOverrun \in BOOLEAN
  /\ AlertTypes \subseteq AllAlertTypes
  /\ Requests \subseteq [slow : BOOLEAN, sizes : BOOLEAN]
  /\ MaxClock \in Nat /\ MaxActivity \in Nat /\ MaxResets \in Nat /\ MaxAttr \in Nat

VARIABLES
  source,   \* the source's statistics views
  clock,    \* wall clock; every reading of it is distinct
  samples,  \* committed rows of the four sample tables
  events,   \* committed rows of pgintel.events
  cycles,   \* committed rows of pgintel.collection_cycles
  holder,   \* whose transaction holds the row of pgintel.instances
  pc,       \* where each agent is in collect_once
  job       \* the local variables of each agent's collect_once, its
            \* uncommitted rows and events included

vars == <<source, clock, samples, events, cycles, holder, pc, job>>

-----------------------------------------------------------------------------
(* Types.                                                                  *)

Alert == [type : AllAlertTypes, obj : Objects]
ReachableAlert == [type : AlertTypes, obj : Objects]
Event == [type : AllAlertTypes, obj : Objects, created : Nat]

Cycle == [at : Nat, now : Nat, slow : BOOLEAN, sizes : BOOLEAN,
          slowCollected : BOOLEAN, sizesCollected : BOOLEAN, over : BOOLEAN,
          stored : SUBSET Objects, created : SUBSET Alert, suppressed : SUBSET Alert]

Job == [at : Nat, now : Nat, slow : BOOLEAN, sizes : BOOLEAN, over : BOOLEAN,
        slowCollected : BOOLEAN, seen : [Objects -> Reading \cup {NoRow}],
        rows : SUBSET Row, raised : SUBSET Alert, created : SUBSET Alert]

Labels == {"idle", "connect", "database", "statements", "tables", "indexes",
           "instance", "write", "analyse", "persist", "commit"}

(* The steps at which an agent's transaction holds the instance's row.     *)
Locked == {"write", "analyse", "persist", "commit"}

TypeOK ==
  /\ source \in [Objects -> [raw : Nat, reset : Nat, grown : Nat, attr : Nat]]
  /\ clock \in Nat
  /\ samples \subseteq Row
  /\ events \subseteq Event
  /\ cycles \subseteq Cycle
  /\ holder \in Agents \cup {Nobody}
  /\ pc \in [Agents -> Labels]
  /\ job \in [Agents -> Job]

NoJob == [at |-> 0, now |-> 0, slow |-> FALSE, sizes |-> FALSE, over |-> FALSE,
          slowCollected |-> FALSE, seen |-> [o \in Objects |-> NoRow],
          rows |-> {}, raised |-> {}, created |-> {}]

Init ==
  /\ source = [o \in Objects |-> [raw |-> 0, reset |-> 0, grown |-> 0, attr |-> 0]]
  /\ clock = 0
  /\ samples = {} /\ events = {} /\ cycles = {}
  /\ holder = Nobody
  /\ pc = [a \in Agents |-> "idle"]
  /\ job = [a \in Agents |-> NoJob]

-----------------------------------------------------------------------------
(* Helpers.                                                                *)

Goto(a, from, to) == pc[a] = from /\ pc' = [pc EXCEPT ![a] = to]

Repository == <<samples, events, cycles>>

OfKind(kinds) == {o \in Objects : Kind[o] \in kinds}

(* SELECT of the counters of the objects in os as they are now; the        *)
(* attribute is NULL unless it is asked for.                               *)
Read(seen, os, withAttr) ==
  [o \in Objects |->
     IF o \in os
     THEN [source[o] EXCEPT !.attr = IF withAttr THEN source[o].attr ELSE Unknown]
     ELSE seen[o]]

(* pg_stat_statements has no entry for a statement that was not executed   *)
(* since the last reset.                                                   *)
Statements == {o \in OfKind({"query"}) : source[o].raw > 0}

(* The source time spent so far only grows: once over budget, always over. *)
Spend(over) == {over, over \/ MayOverrun}

Seen(a) == {o \in Objects : job[a].seen[o] # NoRow}

(* The cooldown applies to four of the event types, and only when it is on.*)
CooldownTypes == {"low_cache_hit", "high_dead_tuple_ratio",
                  "large_never_scanned_index", "query_regression"}

Limited(type) == Cooldown > 0 /\ type \in CooldownTypes

EventKey(e) == <<e.type, KeyOf[e.obj]>>

-----------------------------------------------------------------------------
(* One collection cycle.                                                   *)

(* collected_at is taken before anything else happens.                     *)
Begin(a) ==
  /\ clock <= MaxClock
  /\ Goto(a, "idle", "connect")
  /\ clock' = clock + 1
  /\ \E q \in Requests :
       job' = [job EXCEPT ![a] = [NoJob EXCEPT !.at = clock + 1,
                                               !.slow = q.slow, !.sizes = q.sizes]]
  /\ UNCHANGED <<source, Repository, holder>>

(* Both connections are open and the schema is the expected one: the first *)
(* repository statement fixes now() for the whole transaction.  A wrong    *)
(* schema or server version raises (Abort).                                *)
OpenTransaction(a) ==
  /\ Goto(a, "connect", "database")
  /\ clock' = clock + 1
  /\ job' = [job EXCEPT ![a].now = clock + 1]
  /\ UNCHANGED <<source, Repository, holder>>

ReadDatabase(a) ==
  /\ Goto(a, "database", "statements")
  /\ job' = [job EXCEPT ![a].seen = Read(@, OfKind({"database"}), job[a].sizes)]
  /\ UNCHANGED <<source, clock, Repository, holder>>

(* The budget is consulted after the fast collectors only: they are never  *)
(* skipped themselves.                                                     *)
ObjectsWantedAnywayMutant(j, over) == j.slow \/ j.sizes

ObjectsWanted(j, over) == (j.slow \/ j.sizes) /\ ~over

ReadStatements(a) ==
  \E over \in Spend(job[a].over) :
    /\ Goto(a, "statements", IF ObjectsWanted(job[a], over) THEN "tables" ELSE "instance")
    /\ job' = [job EXCEPT ![a].seen = Read(@, Statements, Mode = "all"),
                          ![a].over = over]
    /\ UNCHANGED <<source, clock, Repository, holder>>

ReadTables(a) ==
  \E over \in Spend(job[a].over) :
    /\ Goto(a, "tables", IF over THEN "instance" ELSE "indexes")
    /\ job' = [job EXCEPT ![a].seen = Read(@, OfKind({"table"}), job[a].sizes),
                          ![a].over = over]
    /\ UNCHANGED <<source, clock, Repository, holder>>

ReadIndexes(a) ==
  \E over \in Spend(job[a].over) :
    /\ Goto(a, "indexes", "instance")
    /\ job' = [job EXCEPT ![a].seen = Read(@, OfKind({"index"}), job[a].sizes),
                          ![a].over = over, ![a].slowCollected = TRUE]
    /\ UNCHANGED <<source, clock, Repository, holder>>

(* INSERT ... ON CONFLICT DO UPDATE of the instance's row: waits while     *)
(* another transaction holds that row.                                     *)
InstanceFreeMutant == TRUE

InstanceFree == holder = Nobody

EnsureInstance(a) ==
  /\ InstanceFree
  /\ Goto(a, "instance", "write")
  /\ holder' = a
  /\ UNCHANGED <<source, clock, Repository, job>>

(* The answers _latest_rows may give: one row, or none, for every key.  An *)
(* agent finds committed rows only, its own kinds being looked up before   *)
(* they are inserted.                                                      *)
Found(k) == IF Latest(samples, k) = {} THEN {NoRow} ELSE Latest(samples, k)

Lookups ==
  {f \in [Keys -> UNION {Found(k) : k \in Keys}] : \A k \in Keys : f[k] \in Found(k)}

Derived(a, prev) ==
  LET j == job[a]
      changed == {o \in Seen(a) : IsChanged(o, j.seen[o], prev[KeyOf[o]])}
  IN  {RowOf(o, j.at, j.seen[o], prev[KeyOf[o]], Mode = "all") : o \in changed}

WriteSamples(a) ==
  /\ Goto(a, "write", "analyse")
  /\ \E prev \in Lookups : job' = [job EXCEPT ![a].rows = Derived(a, prev)]
  /\ UNCHANGED <<source, clock, Repository, holder>>

(* The rows analyze_query_regressions finds for the row's key, the newest  *)
(* (taken to be the current one) still among them.                         *)
History(a, r) ==
  {q \in samples \cup job[a].rows : KeyOf[q.obj] = KeyOf[r.obj] /\ q.delta > 0}

(* What a stored row must show for an event of the type to be possible;    *)
(* whether it is raised then depends on thresholds left out here.          *)
Justifies(a, r, type) ==
  \/ type \in {"deadlock", "low_cache_hit"} /\ Kind[r.obj] = "database" /\ r.delta > 0
  \/ type = "high_temp_io" /\ Kind[r.obj] = "database"
  \/ type = "high_dead_tuple_ratio" /\ Kind[r.obj] = "table"
  \/ /\ type = "large_never_scanned_index" /\ Kind[r.obj] = "index"
     /\ job[a].sizes /\ r.raw = 0 /\ r.attr # Unknown /\ r.attr >= Large
  \/ /\ type = "query_regression" /\ Kind[r.obj] = "query" /\ r.delta > 0
     /\ Cardinality(History(a, r)) > MinHistory

Possible(a) ==
  {x \in ReachableAlert :
     \E r \in job[a].rows : r.obj = x.obj /\ Justifies(a, r, x.type)}

RegressionKeys(raised) ==
  {KeyOf[x.obj] : x \in {y \in raised : y.type = "query_regression"}}

(* fetch_query_texts and update_query_texts: the text of the statements    *)
(* that still have an entry goes into every row this cycle staged for      *)
(* their key.                                                              *)
WithTexts(rows, keys) ==
  LET fetched == {k \in keys : \E o \in Statements : KeyOf[o] = k}
  IN  {IF Kind[r.obj] = "query" /\ KeyOf[r.obj] \in fetched
       THEN [r EXCEPT !.text = TRUE, !.attr = source[r.obj].attr]
       ELSE r : r \in rows}

Analyse(a) ==
  /\ Goto(a, "analyse", "persist")
  /\ \E raised \in SUBSET Possible(a) :
       LET fetch == /\ Mode = "events" /\ ~job[a].over
                    /\ RegressionKeys(raised) # {}
       IN  \E over \in IF fetch THEN Spend(job[a].over) ELSE {job[a].over} :
             job' = [job EXCEPT
                ![a].raised = raised,
                ![a].rows = IF fetch THEN WithTexts(@, RegressionKeys(raised)) ELSE @,
                ![a].over = over]
  /\ UNCHANGED <<source, clock, Repository, holder>>

(* What persist_events finds within the cooldown: created_at >= now() -    *)
(* cooldown, now() being the start of this agent's transaction.            *)
RecentMutant(now) ==
  {EventKey(e) : e \in {f \in events : f.type \in CooldownTypes /\ f.created > now - Cooldown}}

RecentForeverMutant(now) ==
  {EventKey(e) : e \in {f \in events : f.type \in CooldownTypes}}

Recent(now) ==
  {EventKey(e) : e \in {f \in events : f.type \in CooldownTypes /\ f.created >= now - Cooldown}}

(* The alerts that become events: all that are not limited, and of the     *)
(* limited ones the first of each key that has no recent event.            *)
Admitted(raised, recent) ==
  {c \in SUBSET raised :
     \A x \in raised :
       IF ~Limited(x.type) THEN x \in c
       ELSE IF EventKey(x) \in recent THEN x \notin c
       ELSE /\ \E y \in c : EventKey(y) = EventKey(x)
            /\ \A y, z \in c : EventKey(y) = EventKey(x) /\ EventKey(z) = EventKey(x) => y = z}

PersistEvents(a) ==
  /\ Goto(a, "persist", "commit")
  /\ \E created \in Admitted(job[a].raised, Recent(job[a].now)) :
       job' = [job EXCEPT ![a].created = created]
  /\ UNCHANGED <<source, clock, Repository, holder>>

(* The row insert_collection_cycle writes.  A count of rows or events is   *)
(* kept as the set it counts.                                              *)
CycleOfMutant(j) ==
  [at |-> j.at, now |-> j.now, slow |-> j.slow, sizes |-> j.sizes,
   slowCollected |-> j.slowCollected, sizesCollected |-> j.slowCollected /\ j.sizes,
   over |-> j.over, stored |-> {r.obj : r \in j.rows},
   created |-> j.created, suppressed |-> j.raised]

CycleOfCutMutant(j) ==
  [at |-> j.at, now |-> j.now, slow |-> j.slow, sizes |-> j.sizes,
   slowCollected |-> j.slowCollected, sizesCollected |-> j.sizes,
   over |-> j.over, stored |-> {r.obj : r \in j.rows},
   created |-> j.created, suppressed |-> j.raised \ j.created]

CycleOf(j) ==
  [at |-> j.at, now |-> j.now, slow |-> j.slow, sizes |-> j.sizes,
   slowCollected |-> j.slowCollected, sizesCollected |-> j.slowCollected /\ j.sizes,
   over |-> j.over, stored |-> {r.obj : r \in j.rows},
   created |-> j.created, suppressed |-> j.raised \ j.created]

EventsOfMutant(j) ==
  {[type |-> x.type, obj |-> x.obj, created |-> j.at] : x \in j.created}

EventsOf(j) == {[type |-> x.type, obj |-> x.obj, created |-> j.now] : x \in j.created}

Commit(a) ==
  /\ Goto(a, "commit", "idle")
  /\ samples' = samples \cup job[a].rows
  /\ events' = events \cup EventsOf(job[a])
  /\ cycles' = cycles \cup {CycleOf(job[a])}
  /\ holder' = Nobody
  /\ job' = [job EXCEPT ![a] = NoJob]
  /\ UNCHANGED <<source, clock>>

ReleasedMutant(a) == holder

Released(a) == IF holder = a THEN Nobody ELSE holder

(* An exception or a crash at any step: the connections close without a    *)
(* commit, the server rolls the transaction back and the row is free.      *)
Abort(a) ==
  /\ pc[a] # "idle"
  /\ pc' = [pc EXCEPT ![a] = "idle"]
  /\ holder' = Released(a)
  /\ job' = [job EXCEPT ![a] = NoJob]
  /\ UNCHANGED <<source, clock, Repository>>

-----------------------------------------------------------------------------
(* The monitored source, which works on while a cycle reads it.            *)

Activity(o) ==
  /\ source[o].grown < MaxActivity
  /\ source' = [source EXCEPT ![o].raw = @ + 1, ![o].grown = @ + 1]
  /\ UNCHANGED <<clock, Repository, holder, pc, job>>

(* The counters of the objects in os go back to zero.  That of a database  *)
(* moves its stats_reset with them, as pg_stat_reset does.                 *)
Reset(os) ==
  /\ os # {}
  /\ \A o \in os : source[o].reset < MaxResets
  /\ source' = [o \in Objects |->
                  IF o \in os THEN [source[o] EXCEPT !.raw = 0, !.reset = @ + 1]
                  ELSE source[o]]
  /\ UNCHANGED <<clock, Repository, holder, pc, job>>

(* pg_stat_reset, or the recovery of the source from a crash.              *)
ResetDatabase == Reset(OfKind({"database", "table", "index"}))

(* The reset of one table or index; the reset or the eviction of one       *)
(* pg_stat_statements entry.                                               *)
ResetObject(o) == Kind[o] # "database" /\ Reset({o})

Resize(o) ==
  /\ Kind[o] # "query"
  /\ \E n \in 0..MaxAttr \ {source[o].attr} :
       source' = [source EXCEPT ![o].attr = n]
  /\ UNCHANGED <<clock, Repository, holder, pc, job>>

-----------------------------------------------------------------------------

Step(a) ==
  \/ OpenTransaction(a) \/ ReadDatabase(a) \/ ReadStatements(a)
  \/ ReadTables(a) \/ ReadIndexes(a) \/ EnsureInstance(a)
  \/ WriteSamples(a) \/ Analyse(a) \/ PersistEvents(a) \/ Commit(a)

Environment ==
  \/ ResetDatabase
  \/ \E o \in Objects : Activity(o) \/ ResetObject(o) \/ Resize(o)

Next ==
  \/ \E a \in Agents : Begin(a) \/ Step(a) \/ Abort(a)
  \/ Environment

Spec == Init /\ [][Next]_vars

(* A cycle that has begun goes on (collect_once is one call, every SQL     *)
(* statement of which returns or raises), and PostgreSQL grants a row lock *)
(* to its waiters in turn.  Nothing obliges an agent to begin or to fail.  *)
Fairness ==
  \A a \in Agents : WF_vars(Step(a)) /\ SF_vars(EnsureInstance(a))

FairSpec == Spec /\ Fairness

-----------------------------------------------------------------------------
(* Properties.  Activity, resets and readings are related through the      *)
(* fields reset and grown, which the program does not have.                *)

(* What a delta should say about the interval from p to r, both about the  *)
(* same object: all of its activity if its counter was not reset, what     *)
(* came after the last reset if that is known (databases), and never more  *)
(* than there was.                                                         *)
HonestDelta(r, p) ==
  /\ r.delta <= r.grown - p.grown
  /\ r.reset = p.reset => r.delta = r.grown - p.grown
  /\ r.reset # p.reset /\ Kind[r.obj] = "database" => r.delta = r.raw

(* Rows p and r of one object with none of its rows between them.          *)
Adjacent(p, r) ==
  /\ p.obj = r.obj /\ p.at < r.at
  /\ \A q \in samples : q.obj = r.obj => q.at <= p.at \/ r.at <= q.at

(* Deltas of consecutive rows add up to the activity between any two rows  *)
(* (report.py sums them over a window): no interval is counted twice, no   *)
(* interval is lost when unchanged rows are skipped, across resets too, as *)
(* long as every reset of a database moves stats_reset.                    *)
DeltasAddUp ==
  \A p, r \in samples : Adjacent(p, r) => HonestDelta(r, p)

(* However cycles overlap, a delta is honest about the row it was computed *)
(* from whenever that row was read earlier (repository.py compares with    *)
(* whatever row is the newest by collected_at).                            *)
HonestIfInOrder(r) ==
  (r.prev # NoRow /\ r.prev.obj = r.obj /\ r.prev.grown <= r.grown /\ r.prev.reset <= r.reset)
    => HonestDelta(r, r.prev)

InOrderDeltaIsHonest == \A r \in samples : HonestIfInOrder(r)

(* Why that holds.  Two readings of one object can be told apart by age,   *)
(* and the younger one has the older one's counter plus what happened      *)
(* since, or less than that after a reset.                                 *)
Counters(x) == [raw |-> x.raw, reset |-> x.reset, grown |-> x.grown]

ReadBefore(s, t) ==
  /\ s.grown <= t.grown /\ s.reset <= t.reset
  /\ s.reset = t.reset => t.raw - s.raw = t.grown - s.grown
  /\ s.reset < t.reset => t.raw <= t.grown - s.grown

(* All the rows there are, staged ones included, and all readings of o.    *)
AllRows == samples \cup UNION {job[a].rows : a \in Agents}

Readings(o) ==
  {Counters(r) : r \in {q \in AllRows : q.obj = o}} \cup
  {Counters(job[a].seen[o]) : a \in {b \in Agents : job[b].seen[o] # NoRow}}

ReadingsInv ==
  \A o \in Objects : \A s \in Readings(o) :
    /\ ReadBefore(s, Counters(source[o]))
    /\ \A t \in Readings(o) : ReadBefore(s, t) \/ ReadBefore(t, s)

(* The whole counter is booked as the interval's delta (util.delta: "if the *)
(* counter was reset, treat current as the interval value") only after a   *)
(* reset, or when the counter was zero before.                             *)
NoPhantomReset ==
  \A r \in samples :
    r.prev # NoRow /\ r.delta = r.raw /\ r.raw > 0
      => r.reset > r.prev.reset \/ r.prev.raw = 0

(* Skipping unchanged rows loses nothing: when a cycle is about to commit, *)
(* the newest row of everything it read shows the counter it read and the  *)
(* size it read, whether that row is its own or an old one.                *)
ElisionIsLossless ==
  \A a \in Agents : pc[a] = "commit" =>
    \A o \in Seen(a) :
      LET s == job[a].seen[o]
          newest == Latest(samples \cup job[a].rows, KeyOf[o])
      IN  /\ newest # {}
          /\ \A r \in newest : r.raw = s.raw /\ (s.attr # Unknown => r.attr = s.attr)

(* Once a table, index or statement has a row, another one is stored only  *)
(* if its counters (or the size of a table or index) moved in between.     *)
NoRedundantRows ==
  \A p, r \in samples :
    Adjacent(p, r) /\ Kind[r.obj] # "database" =>
      p.raw # r.raw \/ (Kind[r.obj] # "query" /\ p.attr # r.attr)

(* A size (or a statement's hash) that was stored once is in every later   *)
(* row of the object, though most cycles do not ask for it.                *)
AttrIsNeverForgotten ==
  \A p, r \in samples :
    p.obj = r.obj /\ p.at < r.at /\ p.attr # Unknown => r.attr # Unknown

(* The cycle records tell which slow passes were complete: a requested one *)
(* is missed only over budget, index rows come from complete passes only,  *)
(* and after a size pass every table and index has a known size.           *)
SlowPassIsComplete ==
  \A c \in cycles :
    /\ (c.slow \/ c.sizes) /\ ~c.over => c.slowCollected
    /\ c.stored \cap OfKind({"index"}) # {} => c.slowCollected
    /\ c.sizesCollected =>
         \A o \in OfKind({"table", "index"}) :
           \E r \in samples : r.obj = o /\ r.at <= c.at /\ r.attr # Unknown

(* The same for cycles that overlap: a row may then be stored by the other *)
(* agent, with a later stamp.                                              *)
PassesAreRecorded ==
  \A c \in cycles :
    /\ (c.slow \/ c.sizes) /\ ~c.over => c.slowCollected
    /\ c.stored \cap OfKind({"index"}) # {} => c.slowCollected
    /\ c.sizesCollected =>
         \A o \in OfKind({"table", "index"}) :
           \E r \in samples : r.obj = o /\ r.attr # Unknown

(* However cycles overlap and copy sizes from each other's rows, a size in *)
(* a row was measured, by a cycle that asked for sizes and stored it.      *)
IsMeasured(o, size) ==
  \E c \in cycles, q \in samples : c.sizes /\ q.at = c.at /\ q.obj = o /\ q.attr = size

SizesAreMeasured ==
  \A r \in samples :
    Kind[r.obj] # "query" /\ r.attr # Unknown => IsMeasured(r.obj, r.attr)

(* Two events of a limited type about the same object are further apart    *)
(* than the cooldown, whichever agents report them.                        *)
Spaced(es) ==
  \A e, f \in es :
    (e # f /\ Limited(e.type) /\ EventKey(e) = EventKey(f)) =>
      e.created - f.created > Cooldown \/ f.created - e.created > Cooldown

CooldownSpacing == Spaced(events)

(* The transaction that holds the row of the instance is the one of the    *)
(* agent between ensure_instance and its commit.                           *)
HolderIsTheWriter == \A a \in Agents : pc[a] \in Locked <=> holder = a

(* Already the staged events keep the distance to the committed ones.      *)
StagedSpacing ==
  \A a \in Agents : pc[a] = "commit" => Spaced(events \cup EventsOf(job[a]))

(* CooldownSpacing is not inductive: that a committing agent's events are  *)
(* still far enough from the others' rests on the row lock, which kept     *)
(* everybody else from committing since it looked (persist_events).        *)
SpacingInv == HolderIsTheWriter /\ StagedSpacing /\ CooldownSpacing

(* The cooldown suppresses repetitions only: whatever an analysis raised   *)
(* has an event of its own or one no older than the cooldown.              *)
AlertsAreAnswered ==
  \A a \in Agents : pc[a] = "commit" =>
    \A x \in job[a].raised :
      IF Limited(x.type)
      THEN \E e \in events \cup EventsOf(job[a]) :
             EventKey(e) = EventKey(x) /\ e.created >= job[a].now - Cooldown
      ELSE x \in job[a].created

(* query_text_mode = none stores no statement text; with "events" a text   *)
(* is stored for statements with a recent regression event only.           *)
TextsAreExplained ==
  \A r \in samples : r.text =>
    \/ Mode = "all"
    \/ /\ Mode = "events"
       /\ \E c \in cycles, e \in events :
            /\ c.at = r.at /\ e.type = "query_regression"
            /\ KeyOf[e.obj] = KeyOf[r.obj] /\ e.created >= c.now - Cooldown

(* The repository is a ledger of whole cycles (Ledger.tla).                *)
LedgerOfCycles == INSTANCE Ledger WITH
  samples <- samples, events <- events, cycles <- cycles

PublishesWholeCycles == LedgerOfCycles!Spec

(* Why it is: every cycle has stamps of its own, what is published belongs *)
(* to a published cycle, and what is staged to the cycle that staged it.   *)
Begun(a) == pc[a] # "idle"
Opened(a) == pc[a] \notin {"idle", "connect"}

StampsAreUnique ==
  /\ \A c \in cycles : c.at <= clock /\ c.now <= clock
  /\ \A a \in Agents :
       /\ Begun(a) => job[a].at <= clock /\ \A c \in cycles : c.at # job[a].at
       /\ Opened(a) => job[a].now <= clock /\ \A c \in cycles : c.now # job[a].now
  /\ \A a, b \in Agents : a # b =>
       /\ Begun(a) /\ Begun(b) => job[a].at # job[b].at
       /\ Opened(a) /\ Opened(b) => job[a].now # job[b].now

PublishedHasCycle ==
  /\ \A r \in samples : \E c \in cycles : c.at = r.at
  /\ \A e \in events : \E c \in cycles : c.now = e.created

StagedIsOneCycle ==
  \A a \in Agents :
    /\ \A r \in job[a].rows : r.at = job[a].at
    /\ \A r, q \in job[a].rows : r.obj = q.obj => r = q

LedgerInv == StampsAreUnique /\ PublishedHasCycle /\ StagedIsOneCycle

(* What keeps cycles from comparing themselves with rows that were read    *)
(* after theirs: the daemon runs one after the other, and nobody runs       *)
(* "pgintel collect" meanwhile.  The code does not see to it.              *)
CyclesDoNotOverlap == \A a, b \in Agents : Begun(a) /\ Begun(b) => a = b

(* What a report takes for granted about the cycles that agents commit     *)
(* while it reads (Commits.tla): a cycle and its events become visible at  *)
(* once, the events stamped by its transaction, which starts after the     *)
(* cycle does; and sizes come with a complete slow pass.                   *)
OutcomesOfCycles ==
  {o \in [alerts : SUBSET ReachableAlert, slow : BOOLEAN, sizes : BOOLEAN] : o.sizes => o.slow}

Outline(c) ==
  [at |-> c.at, now |-> c.now,
   outcome |-> [alerts |-> c.created, slow |-> c.slowCollected, sizes |-> c.sizesCollected]]

Outlines == {Outline(c) : c \in cycles}

Note(e) == [created |-> e.created, alert |-> [type |-> e.type, obj |-> e.obj]]

Notes == {Note(e) : e \in events}

Phases ==
  [a \in Agents |-> IF ~Begun(a) THEN "idle" ELSE IF ~Opened(a) THEN "begun" ELSE "opened"]

Stamps == [a \in Agents |-> [at |-> job[a].at, now |-> job[a].now]]

CommitsOfCycles == INSTANCE Commits WITH
  Alerts <- ReachableAlert, Outcomes <- OutcomesOfCycles, MaxSkew <- 0,
  cycles <- Outlines, events <- Notes, pc <- Phases, job <- Stamps

CommitsAsReported == CommitsOfCycles!CommitsSpec

(* A cycle as Scheduler.tla and Upgrade.tla see it, too (CollectOnce.tla). *)
StageOf(label) ==
  CASE label = "idle" -> "idle"
    [] label \in {"connect", "database", "statements"} -> "fast"
    [] label \in {"tables", "indexes"} -> "objects"
    [] label = "instance" -> "ready"
    [] label \in Locked -> "writing"

Stages == [a \in Agents |-> StageOf(pc[a])]
Wanted == [a \in Agents |-> job[a].slow \/ job[a].sizes]
Over == [a \in Agents |-> job[a].over]
Collected == [a \in Agents |-> job[a].slowCollected]

OnceOfCycles == INSTANCE CollectOnce WITH
  phase <- Stages, wanted <- Wanted, over <- Over, complete <- Collected

CollectsOnce == OnceOfCycles!OnceSpec

(* Every cycle that begins ends: no agent waits for ever for the row of    *)
(* the instance, not even after another one died while holding it.         *)
CycleEnds == \A a \in Agents : pc[a] # "idle" ~> pc[a] = "idle"

=============================================================================
