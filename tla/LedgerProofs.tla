----------------------------- MODULE LedgerProofs -----------------------------
(***************************************************************************)
(* Proof that Collector implements Ledger: whatever agents overlap, crash  *)
(* or fail, the repository only ever grows by whole cycles.                *)
(***************************************************************************)
EXTENDS CollectorProofs

(* An agent that goes on with its cycle, publishing nothing.               *)
Continues(a) ==
  \/ ReadDatabase(a) \/ ReadStatements(a) \/ ReadTables(a) \/ ReadIndexes(a)
  \/ EnsureInstance(a) \/ WriteSamples(a) \/ Analyse(a) \/ PersistEvents(a)

LEMMA ContinuesKeepsStamps ==
  ASSUME TypeOK, NEW a \in Agents, Continues(a)
  PROVE  /\ UNCHANGED <<clock, samples, events, cycles>>
         /\ \A b \in Agents \ {a} : job'[b] = job[b]
         /\ job'[a].at = job[a].at /\ job'[a].now = job[a].now
         /\ \A b \in Agents : Begun(b)' = Begun(b) /\ Opened(b)' = Opened(b)
<1>1. job[a] \in Job /\ a \in DOMAIN job /\ a \in DOMAIN pc
  BY DEF TypeOK
<1>2. ASSUME NEW b \in Agents \ {a} PROVE job'[b] = job[b] /\ pc'[b] = pc[b]
  BY DEF Continues, ReadDatabase, ReadStatements, ReadTables, ReadIndexes, EnsureInstance,
         WriteSamples, Analyse, PersistEvents, Goto, TypeOK
<1>3. UNCHANGED <<clock, samples, events, cycles>>
  BY DEF Continues, ReadDatabase, ReadStatements, ReadTables, ReadIndexes, EnsureInstance,
         WriteSamples, Analyse, PersistEvents, Repository
<1>4. pc[a] \notin {"idle", "connect"} /\ pc'[a] \notin {"idle", "connect"}
  BY <1>1 DEF Continues, ReadDatabase, ReadStatements, ReadTables, ReadIndexes, EnsureInstance,
         WriteSamples, Analyse, PersistEvents, Goto
<1>5. job'[a].at = job[a].at /\ job'[a].now = job[a].now
  <2>1. CASE ReadDatabase(a)
    BY <1>1, <2>1 DEF ReadDatabase, Job
  <2>2. CASE ReadStatements(a)
    BY <1>1, <2>2 DEF ReadStatements, Job
  <2>3. CASE ReadTables(a)
    BY <1>1, <2>3 DEF ReadTables, Job
  <2>4. CASE ReadIndexes(a)
    BY <1>1, <2>4 DEF ReadIndexes, Job
  <2>5. CASE EnsureInstance(a)
    BY <2>5 DEF EnsureInstance
  <2>6. CASE WriteSamples(a)
    BY <1>1, <2>6 DEF WriteSamples, Job
  <2>7. CASE Analyse(a)
    BY <2>7, AnalyseKeeps
  <2>8. CASE PersistEvents(a)
    BY <1>1, <2>8 DEF PersistEvents, Job
  <2>9. QED
    BY <2>1, <2>2, <2>3, <2>4, <2>5, <2>6, <2>7, <2>8 DEF Continues
<1>6. QED
  BY <1>2, <1>3, <1>4, <1>5 DEF Begun, Opened

-----------------------------------------------------------------------------

LEMMA StampsStep ==
  ASSUME TypeOK, StampsAreUnique, [Next]_vars
  PROVE  StampsAreUnique'
<1> USE DEF Begun, Opened
<1>1. clock \in Nat /\ \A a \in Agents : job[a].at \in Nat /\ job[a].now \in Nat
  BY DEF TypeOK, Job
<1>2. \A c \in cycles : c.at \in Nat /\ c.now \in Nat
  BY DEF TypeOK, Cycle
<1>3. ASSUME NEW a \in Agents, Begin(a) PROVE StampsAreUnique'
  <2>1. job'[a].at = clock + 1 /\ pc'[a] = "connect" /\ clock' = clock + 1 /\ cycles' = cycles
    BY <1>3 DEF Begin, Goto, Repository, NoJob, TypeOK
  <2>2. \A b \in Agents \ {a} : job'[b] = job[b] /\ pc'[b] = pc[b]
    BY <1>3 DEF Begin, Goto, TypeOK
  <2>3. \A c \in cycles : c.at < clock' /\ c.now < clock'
    BY <1>1, <1>2, <2>1 DEF StampsAreUnique
  <2>4. \A b \in Agents \ {a} : /\ Begun(b) => job[b].at < clock'
                                /\ Opened(b) => job[b].now < clock'
    BY <1>1, <2>1 DEF StampsAreUnique
  <2>5. clock' \in Nat
    BY <1>1, <2>1
  <2>6. QED
    BY <1>1, <1>2, <2>1, <2>2, <2>3, <2>4, <2>5 DEF StampsAreUnique
<1>4. ASSUME NEW a \in Agents, OpenTransaction(a) PROVE StampsAreUnique'
  <2>1. /\ job'[a].now = clock + 1 /\ job'[a].at = job[a].at /\ clock' = clock + 1
        /\ pc[a] = "connect" /\ pc'[a] = "database" /\ cycles' = cycles
    BY <1>4 DEF OpenTransaction, Goto, Repository, TypeOK, Job
  <2>2. \A b \in Agents \ {a} : job'[b] = job[b] /\ pc'[b] = pc[b]
    BY <1>4 DEF OpenTransaction, Goto, TypeOK
  <2>3. \A c \in cycles : c.at < clock' /\ c.now < clock'
    BY <1>1, <1>2, <2>1 DEF StampsAreUnique
  <2>4. \A b \in Agents : /\ Begun(b) => job[b].at < clock'
                          /\ Opened(b) => job[b].now < clock'
    BY <1>1, <2>1 DEF StampsAreUnique
  <2>5. clock' \in Nat
    BY <1>1, <2>1
  <2>6. QED
    BY <1>1, <1>2, <2>1, <2>2, <2>3, <2>4, <2>5 DEF StampsAreUnique
<1>5. ASSUME NEW a \in Agents, Continues(a) PROVE StampsAreUnique'
  <2>1. \A b \in Agents : job'[b].at = job[b].at /\ job'[b].now = job[b].now
    BY <1>5, ContinuesKeepsStamps
  <2>2. UNCHANGED <<clock, cycles>> /\ \A b \in Agents : Begun(b)' = Begun(b) /\ Opened(b)' = Opened(b)
    BY <1>5, ContinuesKeepsStamps
  <2>3. QED
    BY <2>1, <2>2 DEF StampsAreUnique
<1>6. ASSUME NEW a \in Agents, Commit(a) PROVE StampsAreUnique'
  <2>1. /\ clock' = clock /\ cycles' = cycles \cup {CycleOf(job[a])}
        /\ pc[a] = "commit" /\ pc'[a] = "idle"
        /\ \A b \in Agents \ {a} : job'[b] = job[b] /\ pc'[b] = pc[b]
    BY <1>6 DEF Commit, Goto, TypeOK
  <2>2. CycleOf(job[a]).at = job[a].at /\ CycleOf(job[a]).now = job[a].now
    BY DEF CycleOf
  <2>3. QED
    BY <2>1, <2>2 DEF StampsAreUnique
<1>7. ASSUME NEW a \in Agents, Abort(a) PROVE StampsAreUnique'
  <2>1. /\ clock' = clock /\ cycles' = cycles /\ pc'[a] = "idle"
        /\ \A b \in Agents \ {a} : job'[b] = job[b] /\ pc'[b] = pc[b]
    BY <1>7 DEF Abort, Repository, TypeOK
  <2>2. QED
    BY <2>1 DEF StampsAreUnique
<1>8. ASSUME UNCHANGED <<clock, cycles, pc, job>> PROVE StampsAreUnique'
  BY <1>8 DEF StampsAreUnique
<1>9. QED
  BY <1>3, <1>4, <1>5, <1>6, <1>7, <1>8
  DEF Next, Step, Continues, Environment, Activity, Reset, ResetDatabase, ResetObject, Resize,
      Repository, vars

(* The rows derived for a cycle carry its stamp, one for every object.     *)
LEMMA DerivedIsOneCycle ==
  ASSUME NEW a, NEW prev
  PROVE  /\ \A r \in Derived(a, prev) : r.at = job[a].at
         /\ \A r, q \in Derived(a, prev) : r.obj = q.obj => r = q
  BY DEF Derived, RowOf

LEMMA WithTextsIsOneCycle ==
  ASSUME NEW rows \in SUBSET Row, NEW keys, NEW at,
         \A r \in rows : r.at = at,
         \A r, q \in rows : r.obj = q.obj => r = q
  PROVE  /\ \A r \in WithTexts(rows, keys) : r.at = at
         /\ \A r, q \in WithTexts(rows, keys) : r.obj = q.obj => r = q
<1> DEFINE Updated(r) == [r EXCEPT !.text = TRUE, !.attr = source[r.obj].attr]
           fetched == {k \in keys : \E o \in Statements : KeyOf[o] = k}
           Image(r) == IF Kind[r.obj] = "query" /\ KeyOf[r.obj] \in fetched
                       THEN Updated(r) ELSE r
<1>1. WithTexts(rows, keys) = {Image(r) : r \in rows}
  BY DEF WithTexts
<1>2. \A r \in rows : Image(r).obj = r.obj /\ Image(r).at = r.at
  BY DEF Row
<1>3. ASSUME NEW r \in WithTexts(rows, keys) PROVE r.at = at
  BY <1>1, <1>2
<1>4. ASSUME NEW r \in WithTexts(rows, keys), NEW q \in WithTexts(rows, keys), r.obj = q.obj
      PROVE  r = q
  <2>1. PICK x \in rows : r = Image(x)
    BY <1>1
  <2>2. PICK y \in rows : q = Image(y)
    BY <1>1
  <2>3. x = y
    BY <1>2, <1>4, <2>1, <2>2
  <2>4. QED
    BY <2>1, <2>2, <2>3
<1>5. QED
  BY <1>3, <1>4

LEMMA StagedStep ==
  ASSUME TypeOK, StagedIsOneCycle, [Next]_vars
  PROVE  StagedIsOneCycle'
<1>1. \A a \in Agents : job[a] \in Job
  BY DEF TypeOK
<1>2. ASSUME NEW a \in Agents, \A b \in Agents \ {a} : job'[b] = job[b],
             \A r \in job'[a].rows : r.at = job'[a].at,
             \A r, q \in job'[a].rows : r.obj = q.obj => r = q
      PROVE  StagedIsOneCycle'
  BY <1>2 DEF StagedIsOneCycle
<1>3. ASSUME NEW a \in Agents, Begin(a) \/ Commit(a) \/ Abort(a) PROVE StagedIsOneCycle'
  <2>1. \A b \in Agents \ {a} : job'[b] = job[b]
    BY <1>3 DEF Begin, Commit, Abort, TypeOK
  <2>2. CASE Begin(a)
    BY <1>2, <2>1, <2>2 DEF Begin, NoJob, TypeOK
  <2>3. CASE Commit(a) \/ Abort(a)
    BY <1>2, <2>1, <2>3 DEF Commit, Abort, NoJob, TypeOK
  <2>4. QED
    BY <1>3, <2>2, <2>3
<1>4. ASSUME NEW a \in Agents, OpenTransaction(a) PROVE StagedIsOneCycle'
  BY <1>1, <1>4 DEF OpenTransaction, StagedIsOneCycle, TypeOK, Job
<1>5. ASSUME NEW a \in Agents, Continues(a), job'[a].rows = job[a].rows PROVE StagedIsOneCycle'
  BY <1>2, <1>5, ContinuesKeepsStamps DEF StagedIsOneCycle
<1>6. ASSUME NEW a \in Agents,
             \/ ReadDatabase(a) \/ ReadStatements(a) \/ ReadTables(a) \/ ReadIndexes(a)
             \/ EnsureInstance(a) \/ PersistEvents(a)
      PROVE  job'[a].rows = job[a].rows
  <2>1. a \in DOMAIN job
    BY DEF TypeOK
  <2>2. CASE ReadDatabase(a)
    BY <1>1, <2>1, <2>2 DEF ReadDatabase, Job
  <2>3. CASE ReadStatements(a)
    BY <1>1, <2>1, <2>3 DEF ReadStatements, Job
  <2>4. CASE ReadTables(a)
    BY <1>1, <2>1, <2>4 DEF ReadTables, Job
  <2>5. CASE ReadIndexes(a)
    BY <1>1, <2>1, <2>5 DEF ReadIndexes, Job
  <2>6. CASE EnsureInstance(a)
    BY <2>6 DEF EnsureInstance
  <2>7. CASE PersistEvents(a)
    BY <1>1, <2>1, <2>7 DEF PersistEvents, Job
  <2>8. QED
    BY <1>6, <2>2, <2>3, <2>4, <2>5, <2>6, <2>7
<1>7. ASSUME NEW a \in Agents, WriteSamples(a) PROVE StagedIsOneCycle'
  <2>1. PICK prev \in Lookups : job' = [job EXCEPT ![a].rows = Derived(a, prev)]
    BY <1>7 DEF WriteSamples
  <2>2. job'[a].rows = Derived(a, prev) /\ job'[a].at = job[a].at
    BY <1>1, <2>1 DEF TypeOK, Job
  <2>3. \A b \in Agents \ {a} : job'[b] = job[b]
    BY <2>1 DEF TypeOK
  <2>4. QED
    BY <1>2, <2>2, <2>3, DerivedIsOneCycle
<1>8. ASSUME NEW a \in Agents, Analyse(a) PROVE StagedIsOneCycle'
  <2>1. /\ \A b \in Agents \ {a} : job'[b] = job[b]
        /\ job'[a].at = job[a].at
    BY <1>8, AnalyseKeeps
  <2>2. /\ job[a].rows \in SUBSET Row
        /\ \A r \in job[a].rows : r.at = job[a].at
        /\ \A r, q \in job[a].rows : r.obj = q.obj => r = q
    BY <1>1 DEF StagedIsOneCycle, Job
  <2>3. CASE job'[a].rows = job[a].rows
    BY <1>2, <2>1, <2>2, <2>3
  <2>4. CASE \E keys : job'[a].rows = WithTexts(job[a].rows, keys)
    <3>1. PICK keys : job'[a].rows = WithTexts(job[a].rows, keys)
      BY <2>4
    <3>2. /\ \A r \in WithTexts(job[a].rows, keys) : r.at = job[a].at
          /\ \A r, q \in WithTexts(job[a].rows, keys) : r.obj = q.obj => r = q
      BY <2>2, WithTextsIsOneCycle
    <3>3. QED
      BY <1>2, <2>1, <3>1, <3>2
  <2>5. QED
    BY <1>8, <2>3, <2>4, AnalyseKeeps
<1>9. ASSUME UNCHANGED job PROVE StagedIsOneCycle'
  BY <1>9 DEF StagedIsOneCycle
<1>10. QED
  BY <1>3, <1>4, <1>5, <1>6, <1>7, <1>8, <1>9
  DEF Next, Step, Continues, Environment, Activity, Reset, ResetDatabase, ResetObject, Resize,
      Repository, vars

-----------------------------------------------------------------------------

(* Publishing: the rows and the events are new, and the cycle accounts for *)
(* exactly those.                                                          *)
LEMMA CommitPublishes ==
  ASSUME TypeOK, LedgerInv, NEW a \in Agents, Commit(a)
  PROVE  /\ CycleOf(job[a]) \in cycles' \ cycles
         /\ LedgerOfCycles!Publish(CycleOf(job[a]), samples' \ samples, events' \ events)
<1> DEFINE j == job[a]
           c == CycleOf(j)
<1>1. /\ pc[a] = "commit"
      /\ samples' = samples \cup j.rows
      /\ events' = events \cup EventsOf(j)
      /\ cycles' = cycles \cup {c}
  BY DEF Commit, Goto
<1>2. /\ c.at = j.at /\ c.now = j.now /\ c.stored = {r.obj : r \in j.rows}
      /\ c.created = j.created /\ c.suppressed = j.raised \ j.created
  BY DEF CycleOf
<1>3. \A d \in cycles : c.at # d.at /\ c.now # d.now
  BY <1>1, <1>2 DEF LedgerInv, StampsAreUnique, Begun, Opened
<1>4. samples' \ samples = j.rows
  <2>1. \A r \in j.rows : r.at = j.at
    BY DEF LedgerInv, StagedIsOneCycle
  <2>2. \A r \in j.rows : r \notin samples
    BY <1>2, <1>3, <2>1 DEF LedgerInv, PublishedHasCycle
  <2>3. QED
    BY <1>1, <2>2
<1>5. events' \ events = EventsOf(j)
  <2>1. \A e \in EventsOf(j) : e.created = j.now
    BY DEF EventsOf
  <2>2. \A e \in EventsOf(j) : e \notin events
    BY <1>2, <1>3, <2>1 DEF LedgerInv, PublishedHasCycle
  <2>3. QED
    BY <1>1, <2>2
<1>6. c \notin cycles
  BY <1>3
<1>7. c.created = {[type |-> e.type, obj |-> e.obj] : e \in EventsOf(j)}
  <2> DEFINE Tag(x) == [type |-> x.type, obj |-> x.obj]
             Stamped(x) == [type |-> x.type, obj |-> x.obj, created |-> j.now]
  <2>1. j.created \subseteq Alert
    BY DEF TypeOK, Job
  <2>2. ASSUME NEW x \in j.created PROVE x = Tag(Stamped(x))
    <3>1. x = Tag(x)
      BY <2>1 DEF Alert
    <3>2. Stamped(x).type = x.type /\ Stamped(x).obj = x.obj
      OBVIOUS
    <3>3. QED
      BY <3>1, <3>2
  <2>3. EventsOf(j) = {Stamped(x) : x \in j.created}
    BY DEF EventsOf
  <2> HIDE DEF Tag, Stamped
  <2>4. {Tag(e) : e \in EventsOf(j)} = j.created
    BY <2>2, <2>3
  <2>5. QED
    BY <1>2, <2>4 DEF Tag
<1>8. /\ \A r, q \in j.rows : r.obj = q.obj => r = q
      /\ \A r \in j.rows : r.at = c.at
      /\ \A e \in EventsOf(j) : e.created = c.now
      /\ c.created \cap c.suppressed = {}
  BY <1>2 DEF LedgerInv, StagedIsOneCycle, EventsOf
<1>9. QED
  BY <1>1, <1>2, <1>3, <1>4, <1>5, <1>6, <1>7, <1>8 DEF LedgerOfCycles!Publish

(* Every other step leaves the repository's published rows alone.          *)
LEMMA OthersDoNotPublish ==
  ASSUME TypeOK, [Next]_vars, \A a \in Agents : ~Commit(a)
  PROVE  UNCHANGED <<samples, events, cycles>>
<1>1. ASSUME NEW a \in Agents, Continues(a) PROVE UNCHANGED <<samples, events, cycles>>
  BY <1>1, ContinuesKeepsStamps
<1>2. ASSUME NEW a \in Agents, Begin(a) \/ OpenTransaction(a) \/ Abort(a)
      PROVE  UNCHANGED <<samples, events, cycles>>
  BY <1>2 DEF Begin, OpenTransaction, Abort, Repository
<1>3. QED
  BY <1>1, <1>2
  DEF Next, Step, Continues, Environment, Activity, Reset, ResetDatabase, ResetObject, Resize,
      Repository, vars

LEMMA LedgerStep == TypeOK /\ LedgerInv /\ [Next]_vars => LedgerInv'
<1> SUFFICES ASSUME TypeOK, LedgerInv, [Next]_vars PROVE LedgerInv'
  OBVIOUS
<1>1. StampsAreUnique' /\ StagedIsOneCycle'
  BY StampsStep, StagedStep DEF LedgerInv
<1>2. ASSUME NEW a \in Agents, Commit(a) PROVE PublishedHasCycle'
  <2>1. /\ samples' = samples \cup job[a].rows
        /\ events' = events \cup EventsOf(job[a])
        /\ cycles' = cycles \cup {CycleOf(job[a])}
    BY <1>2 DEF Commit
  <2>2. CycleOf(job[a]).at = job[a].at /\ CycleOf(job[a]).now = job[a].now
    BY DEF CycleOf
  <2>3. \A r \in job[a].rows : r.at = job[a].at
    BY DEF LedgerInv, StagedIsOneCycle
  <2>4. \A e \in EventsOf(job[a]) : e.created = job[a].now
    BY DEF EventsOf
  <2>5. QED
    BY <2>1, <2>2, <2>3, <2>4 DEF LedgerInv, PublishedHasCycle
<1>3. ASSUME \A a \in Agents : ~Commit(a) PROVE PublishedHasCycle'
  BY <1>3, OthersDoNotPublish DEF LedgerInv, PublishedHasCycle
<1>4. QED
  BY <1>1, <1>2, <1>3 DEF LedgerInv

(* The repository is a ledger of whole cycles: with any number of agents   *)
(* that overlap, fail or crash anywhere in collect_once, every change of   *)
(* the published tables is the addition of one cycle with its record, all  *)
(* of its rows and all of its events.                                      *)
THEOREM CollectorImplementsLedger == Spec => PublishesWholeCycles
<1>1. Init => LedgerInv
  BY DEF Init, NoJob, LedgerInv, StampsAreUnique, PublishedHasCycle, StagedIsOneCycle,
         Begun, Opened
<1>2. Init => LedgerOfCycles!Init
  BY DEF Init, LedgerOfCycles!Init
<1>3. TypeOK /\ LedgerInv /\ [Next]_vars => [LedgerOfCycles!Next]_(LedgerOfCycles!ledger)
  <2> SUFFICES ASSUME TypeOK, LedgerInv, [Next]_vars
               PROVE  [LedgerOfCycles!Next]_(LedgerOfCycles!ledger)
    OBVIOUS
  <2>1. ASSUME NEW a \in Agents, Commit(a) PROVE LedgerOfCycles!Next
    BY <2>1, CommitPublishes DEF LedgerOfCycles!Next
  <2>2. ASSUME \A a \in Agents : ~Commit(a) PROVE UNCHANGED LedgerOfCycles!ledger
    BY <2>2, OthersDoNotPublish DEF LedgerOfCycles!ledger
  <2>3. QED
    BY <2>1, <2>2
<1>4. QED
  BY <1>1, <1>2, <1>3, LedgerStep, TypeCorrect, PTL
  DEF Spec, PublishesWholeCycles, LedgerOfCycles!Spec

-----------------------------------------------------------------------------
(* The same cycles as a report takes them to be committed (Commits.tla).   *)

(* Nothing is raised that this configuration cannot reach.                 *)
RaisedInv == \A a \in Agents : job[a].raised \cup job[a].created \subseteq ReachableAlert

LEMMA RaisedStep == TypeOK /\ RaisedInv /\ [Next]_vars => RaisedInv'
<1> SUFFICES ASSUME TypeOK, RaisedInv, [Next]_vars PROVE RaisedInv'
  OBVIOUS
<1>1. ASSUME NEW a \in Agents, \A b \in Agents \ {a} : job'[b] = job[b],
             job'[a].raised \subseteq ReachableAlert, job'[a].created \subseteq ReachableAlert
      PROVE  RaisedInv'
  <2> SUFFICES ASSUME NEW b \in Agents
               PROVE  job'[b].raised \cup job'[b].created \subseteq ReachableAlert'
    BY DEF RaisedInv
  <2>1. ReachableAlert' = ReachableAlert
    BY DEF ReachableAlert
  <2> QED
    BY <1>1, <2>1 DEF RaisedInv
<1>2. ASSUME NEW a \in Agents PROVE job[a] \in Job /\ a \in DOMAIN job
  BY DEF TypeOK
<1>3. ASSUME NEW a \in Agents, Begin(a) \/ Commit(a) \/ Abort(a) PROVE RaisedInv'
  <2>1. /\ \A b \in Agents \ {a} : job'[b] = job[b]
        /\ job'[a].raised = {} /\ job'[a].created = {}
    <3>1. CASE Begin(a)
      BY <1>2, <3>1 DEF Begin, NoJob, TypeOK
    <3>2. CASE Commit(a) \/ Abort(a)
      BY <1>2, <3>2 DEF Commit, Abort, NoJob, TypeOK
    <3> QED
      BY <1>3, <3>1, <3>2
  <2> QED
    BY <1>1, <2>1
<1>4. ASSUME NEW a \in Agents,
             \/ OpenTransaction(a) \/ ReadDatabase(a) \/ ReadStatements(a) \/ ReadTables(a)
             \/ ReadIndexes(a) \/ EnsureInstance(a) \/ WriteSamples(a)
      PROVE  RaisedInv'
  <2>1. \A b \in Agents \ {a} : job'[b] = job[b]
    BY <1>4 DEF OpenTransaction, ReadDatabase, ReadStatements, ReadTables, ReadIndexes,
                EnsureInstance, WriteSamples, TypeOK
  <2>2. job'[a].raised = job[a].raised /\ job'[a].created = job[a].created
    <3>1. CASE OpenTransaction(a)
      BY <1>2, <3>1 DEF OpenTransaction, Job
    <3>2. CASE ReadDatabase(a)
      BY <1>2, <3>2 DEF ReadDatabase, Job
    <3>3. CASE ReadStatements(a)
      BY <1>2, <3>3 DEF ReadStatements, Job
    <3>4. CASE ReadTables(a)
      BY <1>2, <3>4 DEF ReadTables, Job
    <3>5. CASE ReadIndexes(a)
      BY <1>2, <3>5 DEF ReadIndexes, Job
    <3>6. CASE EnsureInstance(a)
      BY <3>6 DEF EnsureInstance
    <3>7. CASE WriteSamples(a)
      BY <1>2, <3>7 DEF WriteSamples, Job
    <3> QED
      BY <1>4, <3>1, <3>2, <3>3, <3>4, <3>5, <3>6, <3>7
  <2>3. job'[a].raised \subseteq ReachableAlert /\ job'[a].created \subseteq ReachableAlert
    BY <2>2 DEF RaisedInv
  <2> QED
    BY <1>1, <2>1, <2>3
<1>5. ASSUME NEW a \in Agents, Analyse(a) PROVE RaisedInv'
  <2>1. PICK raised \in SUBSET Possible(a), fetch \in BOOLEAN, over \in BOOLEAN :
          job' = [job EXCEPT
             ![a].raised = raised,
             ![a].rows = IF fetch THEN WithTexts(@, RegressionKeys(raised)) ELSE @,
             ![a].over = over]
    BY <1>5, AnalyseJob
  <2>2. /\ \A b \in Agents \ {a} : job'[b] = job[b]
        /\ job'[a].raised = raised /\ job'[a].created = job[a].created
    BY <1>2, <2>1 DEF TypeOK, Job
  <2>3. raised \subseteq ReachableAlert
    BY DEF Possible
  <2>4. job[a].created \subseteq ReachableAlert
    BY DEF RaisedInv
  <2> QED
    BY <1>1, <2>2, <2>3, <2>4
<1>6. ASSUME NEW a \in Agents, PersistEvents(a) PROVE RaisedInv'
  <2>1. PICK created \in SUBSET job[a].raised : job' = [job EXCEPT ![a].created = created]
    BY <1>6 DEF PersistEvents, Admitted
  <2>2. /\ \A b \in Agents \ {a} : job'[b] = job[b]
        /\ job'[a].raised = job[a].raised /\ job'[a].created = created
    BY <1>2, <2>1 DEF TypeOK, Job
  <2>3. job[a].raised \subseteq ReachableAlert
    BY DEF RaisedInv
  <2> QED
    BY <1>1, <2>2, <2>3
<1>7. ASSUME UNCHANGED job PROVE RaisedInv'
  BY <1>7 DEF RaisedInv, ReachableAlert
<1> QED
  BY <1>3, <1>4, <1>5, <1>6, <1>7
  DEF Next, Step, Environment, Activity, Reset, ResetDatabase, ResetObject, Resize, vars

(* The committed cycle and its events are those of the abstract commit.    *)
LEMMA CommitOutlined ==
  ASSUME TypeOK, RaisedInv, NEW a \in Agents, Commit(a)
  PROVE  CommitsOfCycles!Commit(a)
<1> DEFINE j == job[a]
           o == [alerts |-> j.created, slow |-> j.slowCollected,
                 sizes |-> j.slowCollected /\ j.sizes]
           c == [at |-> j.at, now |-> j.now, outcome |-> o]
<1>1. /\ pc[a] = "commit" /\ pc' = [pc EXCEPT ![a] = "idle"]
      /\ events' = events \cup EventsOf(j)
      /\ cycles' = cycles \cup {CycleOf(j)}
      /\ job' = [job EXCEPT ![a] = NoJob]
      /\ clock' = clock
  BY DEF Commit, Goto
<1>2. j \in Job /\ job \in [Agents -> Job] /\ pc \in [Agents -> Labels]
  BY DEF TypeOK
<1>3. o \in OutcomesOfCycles
  <2>1. j.created \in SUBSET ReachableAlert
    BY DEF RaisedInv
  <2>2. j.slowCollected \in BOOLEAN /\ j.sizes \in BOOLEAN
    BY <1>2 DEF Job
  <2>3. (j.slowCollected /\ j.sizes) \in BOOLEAN
    BY <2>2
  <2>4. o \in [alerts : SUBSET ReachableAlert, slow : BOOLEAN, sizes : BOOLEAN]
    BY <2>1, <2>2, <2>3
  <2>5. o.sizes => o.slow
    OBVIOUS
  <2> QED
    BY <2>4, <2>5 DEF OutcomesOfCycles
<1>4. Outline(CycleOf(j)) = c
  BY DEF Outline, CycleOf
<1>5. Outlines' = Outlines \cup {c}
  BY <1>1, <1>4 DEF Outlines
<1>6. {Note(e) : e \in EventsOf(j)} = {CommitsOfCycles!EventOf(c, x) : x \in j.created}
  <2> DEFINE Stamped(x) == [type |-> x.type, obj |-> x.obj, created |-> j.now]
             Reported(x) == CommitsOfCycles!EventOf(c, x)
  <2>1. j.created \subseteq ReachableAlert
    BY DEF RaisedInv
  <2>2. ASSUME NEW x \in j.created PROVE Note(Stamped(x)) = Reported(x)
    <3>1. x = [type |-> x.type, obj |-> x.obj]
      BY <2>1 DEF ReachableAlert
    <3> QED
      BY <3>1 DEF Note, CommitsOfCycles!EventOf
  <2>3. EventsOf(j) = {Stamped(x) : x \in j.created}
    BY DEF EventsOf
  <2> HIDE DEF Stamped, Reported
  <2>4. {Note(e) : e \in EventsOf(j)} = {Reported(x) : x \in j.created}
    BY <2>2, <2>3
  <2> QED
    BY <2>4 DEF Reported
<1>7. Notes' = Notes \cup {CommitsOfCycles!EventOf(c, x) : x \in o.alerts}
  <2>1. Notes' = Notes \cup {Note(e) : e \in EventsOf(j)}
    BY <1>1 DEF Notes
  <2> QED
    BY <1>6, <2>1
<1>8. Phases[a] = "opened" /\ Phases' = [Phases EXCEPT ![a] = "idle"]
  BY <1>1, <1>2 DEF Phases, Begun, Opened
<1>9. Stamps' = [Stamps EXCEPT ![a] = CommitsOfCycles!NoJob]
  BY <1>1, <1>2 DEF Stamps, NoJob, CommitsOfCycles!NoJob
<1>10. c = [at |-> Stamps[a].at, now |-> Stamps[a].now, outcome |-> o]
  BY DEF Stamps
<1> HIDE DEF c, o
<1>11. /\ Outlines' = Outlines \cup {[at |-> Stamps[a].at, now |-> Stamps[a].now, outcome |-> o]}
       /\ Notes' = Notes \cup {CommitsOfCycles!EventOf(
              [at |-> Stamps[a].at, now |-> Stamps[a].now, outcome |-> o], x) : x \in o.alerts}
  BY <1>5, <1>7, <1>10
<1> QED
  BY <1>1, <1>3, <1>8, <1>9, <1>11 DEF CommitsOfCycles!Commit

LEMMA CommitsStep ==
  ASSUME TypeOK, RaisedInv, [Next]_vars
  PROVE  [CommitsOfCycles!CommitsNext]_(CommitsOfCycles!commits)
<1>1. job \in [Agents -> Job] /\ pc \in [Agents -> Labels]
  BY DEF TypeOK
<1>2. ASSUME UNCHANGED <<cycles, events>> PROVE UNCHANGED <<Outlines, Notes>>
  BY <1>2 DEF Outlines, Notes, Outline, Note
<1>3. ASSUME NEW a \in Agents, Begin(a) PROVE CommitsOfCycles!Begin(a)
  <2>1. PICK q \in Requests :
          job' = [job EXCEPT ![a] = [NoJob EXCEPT !.at = clock + 1,
                                                  !.slow = q.slow, !.sizes = q.sizes]]
    BY <1>3 DEF Begin
  <2>2. /\ pc[a] = "idle" /\ pc' = [pc EXCEPT ![a] = "connect"] /\ clock <= MaxClock
        /\ clock' = clock + 1 /\ UNCHANGED <<cycles, events>>
    BY <1>3 DEF Begin, Goto, Repository
  <2>3. job'[a].at = clock + 1 /\ job'[a].now = 0
    BY <1>1, <2>1 DEF NoJob
  <2>4. Stamps' = [Stamps EXCEPT ![a] = [at |-> clock + 1, now |-> 0]]
    BY <1>1, <2>1, <2>3 DEF Stamps
  <2>5. \E d \in -0..0 :
          Stamps' = [Stamps EXCEPT ![a] = [CommitsOfCycles!NoJob EXCEPT !.at = clock + 1 + d]]
    <3>1. 0 \in -0..0 /\ clock + 1 = clock + 1 + 0
      BY DEF TypeOK
    <3>2. [CommitsOfCycles!NoJob EXCEPT !.at = clock + 1 + 0] = [at |-> clock + 1, now |-> 0]
      BY <3>1 DEF CommitsOfCycles!NoJob
    <3> QED
      BY <2>4, <3>1, <3>2
  <2>6. Phases[a] = "idle" /\ Phases' = [Phases EXCEPT ![a] = "begun"]
    BY <1>1, <2>2 DEF Phases, Begun, Opened
  <2> QED
    BY <1>2, <2>2, <2>5, <2>6 DEF CommitsOfCycles!Begin
<1>4. ASSUME NEW a \in Agents, OpenTransaction(a) PROVE CommitsOfCycles!OpenTransaction(a)
  <2>1. /\ pc[a] = "connect" /\ pc' = [pc EXCEPT ![a] = "database"]
        /\ clock' = clock + 1 /\ UNCHANGED <<cycles, events>>
        /\ job' = [job EXCEPT ![a].now = clock + 1]
    BY <1>4 DEF OpenTransaction, Goto, Repository
  <2>2. job'[a].at = job[a].at /\ job'[a].now = clock + 1
    BY <1>1, <2>1 DEF Job
  <2>3. Stamps' = [Stamps EXCEPT ![a].now = clock + 1]
    BY <1>1, <2>1, <2>2 DEF Stamps
  <2>4. Phases[a] = "begun" /\ Phases' = [Phases EXCEPT ![a] = "opened"]
    BY <1>1, <2>1 DEF Phases, Begun, Opened
  <2> QED
    BY <1>2, <2>1, <2>3, <2>4 DEF CommitsOfCycles!OpenTransaction
<1>5. ASSUME NEW a \in Agents, Abort(a) PROVE CommitsOfCycles!Abort(a)
  <2>1. /\ pc[a] # "idle" /\ pc' = [pc EXCEPT ![a] = "idle"]
        /\ UNCHANGED <<clock, cycles, events>> /\ job' = [job EXCEPT ![a] = NoJob]
    BY <1>5 DEF Abort, Repository
  <2>2. Stamps' = [Stamps EXCEPT ![a] = CommitsOfCycles!NoJob]
    BY <1>1, <2>1 DEF Stamps, NoJob, CommitsOfCycles!NoJob
  <2>3. Phases[a] # "idle" /\ Phases' = [Phases EXCEPT ![a] = "idle"]
    BY <1>1, <2>1 DEF Phases, Begun, Opened
  <2> QED
    BY <1>2, <2>1, <2>2, <2>3 DEF CommitsOfCycles!Abort
<1>6. ASSUME NEW a \in Agents, Continues(a) PROVE UNCHANGED CommitsOfCycles!commits
  <2>1. UNCHANGED <<clock, cycles, events>>
    BY <1>6, ContinuesKeepsStamps
  <2>2. \A b \in Agents : /\ job'[b].at = job[b].at /\ job'[b].now = job[b].now
                          /\ Begun(b)' = Begun(b) /\ Opened(b)' = Opened(b)
    BY <1>6, ContinuesKeepsStamps
  <2>3. UNCHANGED <<Phases, Stamps>>
    BY <2>2 DEF Phases, Stamps
  <2> QED
    BY <1>2, <2>1, <2>3 DEF CommitsOfCycles!commits
<1>7. ASSUME UNCHANGED <<clock, cycles, events, pc, job>> PROVE UNCHANGED CommitsOfCycles!commits
  <2>1. UNCHANGED <<Phases, Stamps>>
    BY <1>7 DEF Phases, Stamps, Begun, Opened
  <2> QED
    BY <1>2, <1>7, <2>1 DEF CommitsOfCycles!commits
<1>8. ASSUME NEW a \in Agents, Commit(a) PROVE CommitsOfCycles!Commit(a)
  BY <1>8, CommitOutlined
<1> QED
  BY <1>3, <1>4, <1>5, <1>6, <1>7, <1>8
  DEF CommitsOfCycles!CommitsNext, Next, Step, Continues, Environment, Activity, Reset,
      ResetDatabase, ResetObject, Resize, Repository, vars

(* What Report.tla assumes about the cycles committed while it reads is    *)
(* what any number of overlapping, failing and crashing agents do: its     *)
(* theorems are about reports that collect_once runs beside.               *)
THEOREM CollectorImplementsCommits == Spec => CommitsAsReported
<1>1. Init => RaisedInv
  BY DEF Init, NoJob, RaisedInv
<1>2. Init => CommitsOfCycles!CommitsInit
  BY DEF Init, NoJob, CommitsOfCycles!CommitsInit, CommitsOfCycles!NoJob,
         Outlines, Notes, Phases, Stamps, Begun
<1>3. TypeOK /\ RaisedInv /\ [Next]_vars
        => [CommitsOfCycles!CommitsNext]_(CommitsOfCycles!commits)
  BY CommitsStep
<1> QED
  BY <1>1, <1>2, <1>3, RaisedStep, TypeCorrect, PTL
  DEF Spec, CommitsAsReported, CommitsOfCycles!CommitsSpec

=============================================================================
