---------------------------- MODULE SampleProofs ----------------------------
(***************************************************************************)
(* Proofs about the rows Collector stores: in any execution, that          *)
(* statement texts are explained by events; in those where cycles do not   *)
(* overlap and keys tell all objects apart, that the rows of an object     *)
(* tell its whole history, rows that are skipped included.  Where cycles   *)
(* overlap, or two entries have one key, the latter is false.              *)
(***************************************************************************)
EXTENDS LedgerProofs

(* A statement whose text is staged has a regression in the same cycle,    *)
(* once the analysis is done; before it only mode "all" has texts.         *)
StagedTexts ==
  \A a \in Agents : \A r \in job[a].rows : r.text =>
    \/ Mode = "all"
    \/ /\ Mode = "events" /\ pc[a] \in {"persist", "commit"}
       /\ \E x \in job[a].raised :
            x.type = "query_regression" /\ KeyOf[x.obj] = KeyOf[r.obj]

LEMMA DerivedTexts ==
  ASSUME TypeOK, NEW a \in Agents, NEW prev, NEW r \in Derived(a, prev), r.text
  PROVE  Mode = "all"
<1>1. PICK o \in Seen(a) :
        r = RowOf(o, job[a].at, job[a].seen[o], prev[KeyOf[o]], Mode = "all")
  BY DEF Derived
<1>2. r.text = (Mode = "all" /\ Kind[o] = "query")
  BY <1>1, Zenon DEF RowOf
<1>3. QED
  BY <1>2

(* What Analyse writes: a text only for a regression it raised.            *)
LEMMA AnalyseRows ==
  ASSUME TypeOK, NEW a \in Agents, Analyse(a)
  PROVE  \/ job'[a].rows = job[a].rows
         \/ /\ Mode = "events"
            /\ job'[a].rows = WithTexts(job[a].rows, RegressionKeys(job'[a].raised))
<1>1. PICK raised \in SUBSET Possible(a), over \in BOOLEAN :
        job' = [job EXCEPT
           ![a].raised = raised,
           ![a].rows = IF /\ Mode = "events" /\ ~job[a].over
                          /\ RegressionKeys(raised) # {}
                       THEN WithTexts(@, RegressionKeys(raised)) ELSE @,
           ![a].over = over]
  BY SpendTyped DEF Analyse, TypeOK, Job
<1>2. /\ job'[a].raised = raised
      /\ job'[a].rows = IF Mode = "events" /\ ~job[a].over /\ RegressionKeys(raised) # {}
                        THEN WithTexts(job[a].rows, RegressionKeys(raised))
                        ELSE job[a].rows
  BY <1>1 DEF TypeOK, Job
<1>3. QED
  BY <1>2

LEMMA WithTextsMember ==
  ASSUME NEW rows \in SUBSET Row, NEW keys, NEW r \in WithTexts(rows, keys)
  PROVE  \E q \in rows :
           \/ r = q
           \/ /\ Kind[q.obj] = "query" /\ KeyOf[q.obj] \in keys
              /\ r = [q EXCEPT !.text = TRUE, !.attr = source[q.obj].attr]
  BY DEF WithTexts

ReadsSource(a) == ReadDatabase(a) \/ ReadStatements(a) \/ ReadTables(a) \/ ReadIndexes(a)

(* What the readers of the source leave alone.                             *)
LEMMA ReadersKeep ==
  ASSUME TypeOK, NEW a \in Agents, ReadsSource(a)
  PROVE  /\ job'[a].at = job[a].at /\ job'[a].rows = job[a].rows
         /\ job'[a].raised = job[a].raised
         /\ job'[a].slow = job[a].slow /\ job'[a].sizes = job[a].sizes
         /\ \A b \in Agents \ {a} : job'[b] = job[b] /\ pc'[b] = pc[b]
         /\ pc[a] \notin Locked /\ pc'[a] \notin Locked
         /\ UNCHANGED <<source, clock, samples, events, cycles>>
<1>1. a \in DOMAIN job /\ a \in DOMAIN pc /\ job[a] \in Job
  BY DEF TypeOK
<1>2. \A b \in Agents \ {a} : job'[b] = job[b] /\ pc'[b] = pc[b]
  BY DEF ReadsSource, ReadDatabase, ReadStatements, ReadTables, ReadIndexes, Goto, TypeOK
<1>3. UNCHANGED <<source, clock, samples, events, cycles>>
  BY DEF ReadsSource, ReadDatabase, ReadStatements, ReadTables, ReadIndexes, Repository
<1>4. pc[a] \notin Locked /\ pc'[a] \notin Locked
  BY <1>1 DEF ReadsSource, ReadDatabase, ReadStatements, ReadTables, ReadIndexes, Goto, Locked
<1> DEFINE Kept == /\ job'[a].at = job[a].at /\ job'[a].rows = job[a].rows
                   /\ job'[a].raised = job[a].raised
                   /\ job'[a].slow = job[a].slow /\ job'[a].sizes = job[a].sizes
<1>5. Kept
  <2>1. CASE ReadDatabase(a)
    <3>1. job'[a] = [job[a] EXCEPT !.seen = Read(@, OfKind({"database"}), job[a].sizes)]
      BY <1>1, <2>1 DEF ReadDatabase
    <3>2. QED
      BY <1>1, <3>1 DEF Job
  <2>2. CASE ReadStatements(a)
    <3>1. PICK over : job'[a] = [job[a] EXCEPT !.seen = Read(@, Statements, Mode = "all"),
                                          !.over = over]
      BY <1>1, <2>2 DEF ReadStatements
    <3>2. QED
      BY <1>1, <3>1 DEF Job
  <2>3. CASE ReadTables(a)
    <3>1. PICK over : job'[a] = [job[a] EXCEPT !.seen = Read(@, OfKind({"table"}), job[a].sizes),
                                          !.over = over]
      BY <1>1, <2>3 DEF ReadTables
    <3>2. QED
      BY <1>1, <3>1 DEF Job
  <2>4. CASE ReadIndexes(a)
    <3>1. PICK over : job'[a] = [job[a] EXCEPT !.seen = Read(@, OfKind({"index"}), job[a].sizes),
                                          !.over = over,
                                          !.slowCollected = TRUE]
      BY <1>1, <2>4 DEF ReadIndexes
    <3>2. QED
      BY <1>1, <3>1 DEF Job
  <2>5. QED
    BY <2>1, <2>2, <2>3, <2>4 DEF ReadsSource
<1>6. QED
  BY <1>2, <1>3, <1>4, <1>5

(* Steps that neither read the source nor touch the rows.                  *)
LEMMA BookkeepingKeeps ==
  ASSUME TypeOK, NEW a \in Agents, OpenTransaction(a) \/ EnsureInstance(a) \/ PersistEvents(a)
  PROVE  /\ job'[a].at = job[a].at /\ job'[a].rows = job[a].rows
         /\ job'[a].raised = job[a].raised /\ job'[a].seen = job[a].seen
         /\ job'[a].slow = job[a].slow /\ job'[a].sizes = job[a].sizes
         /\ job'[a].over = job[a].over /\ job'[a].slowCollected = job[a].slowCollected
         /\ \A b \in Agents \ {a} : job'[b] = job[b] /\ pc'[b] = pc[b]
         /\ UNCHANGED <<source, samples, events, cycles>>
         /\ \/ pc[a] = "connect" /\ pc'[a] = "database"
            \/ pc[a] = "instance" /\ pc'[a] = "write"
            \/ pc[a] = "persist" /\ pc'[a] = "commit"
<1>1. a \in DOMAIN job /\ a \in DOMAIN pc /\ job[a] \in Job
  BY DEF TypeOK
<1>2. /\ \A b \in Agents \ {a} : job'[b] = job[b] /\ pc'[b] = pc[b]
      /\ UNCHANGED <<source, samples, events, cycles>>
  BY DEF OpenTransaction, EnsureInstance, PersistEvents, Goto, Repository, TypeOK
<1>3. \/ pc[a] = "connect" /\ pc'[a] = "database"
      \/ pc[a] = "instance" /\ pc'[a] = "write"
      \/ pc[a] = "persist" /\ pc'[a] = "commit"
  BY <1>1 DEF OpenTransaction, EnsureInstance, PersistEvents, Goto
<1>4. \/ job'[a] = job[a]
      \/ job'[a] = [job[a] EXCEPT !.now = clock + 1]
      \/ \E created : job'[a] = [job[a] EXCEPT !.created = created]
  BY <1>1 DEF OpenTransaction, EnsureInstance, PersistEvents
<1>5. QED
  BY <1>1, <1>2, <1>3, <1>4 DEF Job

LEMMA StartsOver ==
  ASSUME TypeOK, NEW a \in Agents, Begin(a) \/ Commit(a) \/ Abort(a)
  PROVE  /\ \A b \in Agents \ {a} : job'[b] = job[b] /\ pc'[b] = pc[b]
         /\ job'[a].rows = {} /\ job'[a].raised = {} /\ job'[a].slowCollected = FALSE
         /\ \A o \in Objects : job'[a].seen[o] = NoRow
         /\ pc'[a] \in {"idle", "connect"}
         /\ UNCHANGED source
<1>1. \A b \in Agents \ {a} : job'[b] = job[b] /\ pc'[b] = pc[b]
  BY DEF Begin, Commit, Abort, Goto, TypeOK
<1>2. UNCHANGED source /\ pc'[a] \in {"idle", "connect"}
  BY DEF Begin, Commit, Abort, Goto, TypeOK
<1>3. \/ job'[a] = NoJob
      \/ \E q \in Requests :
           job'[a] = [NoJob EXCEPT !.at = clock + 1, !.slow = q.slow, !.sizes = q.sizes]
  BY DEF Begin, Commit, Abort, TypeOK
<1>4. CASE job'[a] = NoJob
  BY <1>1, <1>2, <1>4 DEF NoJob
<1>5. CASE \E q \in Requests :
             job'[a] = [NoJob EXCEPT !.at = clock + 1, !.slow = q.slow, !.sizes = q.sizes]
  <2>1. PICK q \in Requests :
          job'[a] = [NoJob EXCEPT !.at = clock + 1, !.slow = q.slow, !.sizes = q.sizes]
    BY <1>5
  <2>2. /\ job'[a].rows = NoJob.rows /\ job'[a].raised = NoJob.raised
        /\ job'[a].slowCollected = NoJob.slowCollected /\ job'[a].seen = NoJob.seen
    BY <2>1, NoJobTyped DEF Job
  <2>3. QED
    BY <1>1, <1>2, <2>2 DEF NoJob
<1>6. QED
  BY <1>3, <1>4, <1>5

LEMMA StagedTextsStep == TypeOK /\ StagedTexts /\ [Next]_vars => StagedTexts'
<1> SUFFICES ASSUME TypeOK, StagedTexts, [Next]_vars PROVE StagedTexts'
  OBVIOUS
<1>1. ASSUME NEW a \in Agents, Begin(a) \/ Commit(a) \/ Abort(a) PROVE StagedTexts'
  <2>1. /\ job'[a].rows = {}
        /\ \A b \in Agents \ {a} : job'[b] = job[b] /\ pc'[b] = pc[b]
    BY <1>1, StartsOver
  <2>2. QED
    BY <2>1 DEF StagedTexts
<1>2. ASSUME NEW a \in Agents,
             \/ ReadsSource(a)
             \/ OpenTransaction(a) \/ EnsureInstance(a) \/ PersistEvents(a)
      PROVE  StagedTexts'
  <2>1. /\ job'[a].rows = job[a].rows /\ job'[a].raised = job[a].raised
        /\ \A b \in Agents \ {a} : job'[b] = job[b] /\ pc'[b] = pc[b]
        /\ pc[a] \in {"persist", "commit"} => pc'[a] \in {"persist", "commit"}
    BY <1>2, ReadersKeep, BookkeepingKeeps DEF Locked
  <2>2. QED
    BY <2>1 DEF StagedTexts
<1>3. ASSUME NEW a \in Agents, WriteSamples(a) PROVE StagedTexts'
  <2>1. PICK prev \in Lookups : job' = [job EXCEPT ![a].rows = Derived(a, prev)]
    BY <1>3 DEF WriteSamples
  <2>2. /\ job'[a].rows = Derived(a, prev)
        /\ \A b \in Agents \ {a} : job'[b] = job[b]
    BY <2>1 DEF TypeOK, Job
  <2>3. \A b \in Agents \ {a} : pc'[b] = pc[b]
    BY <1>3 DEF WriteSamples, Goto, TypeOK
  <2>4. QED
    BY <2>2, <2>3, DerivedTexts DEF StagedTexts
<1>4. ASSUME NEW a \in Agents, Analyse(a) PROVE StagedTexts'
  <2>1. /\ \A b \in Agents \ {a} : job'[b] = job[b] /\ pc'[b] = pc[b]
        /\ pc[a] = "analyse" /\ pc'[a] = "persist"
    BY <1>4, AnalyseKeeps DEF Analyse, Goto, TypeOK
  <2>2. ASSUME NEW r \in job[a].rows, r.text PROVE Mode = "all"
    BY <2>1, <2>2 DEF StagedTexts
  <2>3. ASSUME NEW r \in job'[a].rows, r.text
        PROVE  \/ Mode = "all"
               \/ /\ Mode = "events"
                  /\ \E x \in job'[a].raised :
                       x.type = "query_regression" /\ KeyOf[x.obj] = KeyOf[r.obj]
    <3>1. CASE r \in job[a].rows
      BY <2>2, <2>3, <3>1
    <3>2. CASE /\ Mode = "events"
               /\ r \in WithTexts(job[a].rows, RegressionKeys(job'[a].raised))
      <4>1. job[a].rows \in SUBSET Row
        BY DEF TypeOK, Job
      <4>2. PICK q \in job[a].rows :
              \/ r = q
              \/ /\ Kind[q.obj] = "query"
                 /\ KeyOf[q.obj] \in RegressionKeys(job'[a].raised)
                 /\ r = [q EXCEPT !.text = TRUE, !.attr = source[q.obj].attr]
        BY <3>2 DEF WithTexts
      <4>3. CASE r = q
        BY <2>2, <2>3, <4>3
      <4>4. CASE /\ KeyOf[q.obj] \in RegressionKeys(job'[a].raised)
                 /\ r = [q EXCEPT !.text = TRUE, !.attr = source[q.obj].attr]
        <5>1. r.obj = q.obj
          BY <4>1, <4>4 DEF Row
        <5>2. QED
          BY <3>2, <4>4, <5>1 DEF RegressionKeys
      <4>5. QED
        BY <4>2, <4>3, <4>4
    <3>3. QED
      BY <1>4, <2>3, <3>1, <3>2, AnalyseRows
  <2>4. QED
    BY <2>1, <2>3 DEF StagedTexts
<1>5. ASSUME UNCHANGED <<job, pc>> PROVE StagedTexts'
  BY <1>5 DEF StagedTexts
<1>6. QED
  BY <1>1, <1>2, <1>3, <1>4, <1>5
  DEF Next, Step, ReadsSource, Environment, Activity, Reset, ResetDatabase, ResetObject, Resize,
      Repository, vars

(* One statement's published text is explained.                            *)
Explained(r) ==
  \/ Mode = "all"
  \/ /\ Mode = "events"
     /\ \E c \in cycles, e \in events :
          /\ c.at = r.at /\ e.type = "query_regression"
          /\ KeyOf[e.obj] = KeyOf[r.obj] /\ e.created >= c.now - Cooldown

LEMMA CommitExplains ==
  ASSUME TypeOK, StagedTexts, StagedIsOneCycle, AlertsAreAnswered,
         NEW a \in Agents, Commit(a), NEW r \in job[a].rows, r.text
  PROVE  Explained(r)'
<1> DEFINE j == job[a]
           c == CycleOf(j)
<1>1. /\ events' = events \cup EventsOf(j) /\ c \in cycles' /\ pc[a] = "commit"
      /\ c.at = r.at /\ c.now = j.now
  BY DEF Commit, Goto, CycleOf, StagedIsOneCycle
<1>2. CASE Mode = "all"
  BY <1>2 DEF Explained
<1>3. CASE Mode # "all"
  <2>1. PICK x \in j.raised : x.type = "query_regression" /\ KeyOf[x.obj] = KeyOf[r.obj]
    BY <1>3 DEF StagedTexts
  <2>2. Mode = "events"
    BY <1>3 DEF StagedTexts
  <2>3. PICK e \in events' : EventKey(e) = EventKey(x) /\ e.created >= j.now - Cooldown
    <3>1. CASE Limited(x.type)
      BY <1>1, <3>1 DEF AlertsAreAnswered
    <3>2. CASE ~Limited(x.type)
      <4>1. x \in j.created
        BY <1>1, <3>2 DEF AlertsAreAnswered
      <4> DEFINE e == [type |-> x.type, obj |-> x.obj, created |-> j.now]
      <4>2. e \in events'
        BY <1>1, <4>1 DEF EventsOf
      <4>3. EventKey(e) = EventKey(x)
        BY DEF EventKey
      <4>4. e.created >= j.now - Cooldown
        BY CollectorAssumption DEF TypeOK, Job
      <4>5. QED
        BY <4>2, <4>3, <4>4
    <3>3. QED
      BY <3>1, <3>2
  <2>4. e.type = x.type /\ KeyOf[e.obj] = KeyOf[x.obj]
    BY <2>3 DEF EventKey
  <2>5. QED
    BY <1>1, <2>1, <2>2, <2>3, <2>4 DEF Explained
<1>4. QED
  BY <1>2, <1>3

LEMMA TextsStep ==
  TypeOK /\ StagedTexts /\ StagedIsOneCycle /\ AlertsAreAnswered /\ TextsAreExplained
    /\ [Next]_vars => TextsAreExplained'
<1> SUFFICES ASSUME TypeOK, StagedTexts, StagedIsOneCycle, AlertsAreAnswered,
                    TextsAreExplained, [Next]_vars
             PROVE  TextsAreExplained'
  OBVIOUS
<1>1. ASSUME NEW a \in Agents, Commit(a) PROVE TextsAreExplained'
  <2>1. /\ samples' = samples \cup job[a].rows
        /\ events \subseteq events' /\ cycles \subseteq cycles'
    BY <1>1 DEF Commit
  <2>2. ASSUME NEW r \in samples, r.text PROVE Explained(r)'
    <3>1. Explained(r)
      BY <2>2 DEF TextsAreExplained, Explained
    <3>2. QED
      BY <2>1, <3>1 DEF Explained
  <2>3. ASSUME NEW r \in job[a].rows, r.text PROVE Explained(r)'
    BY <1>1, <2>3, CommitExplains
  <2>4. QED
    BY <2>1, <2>2, <2>3 DEF TextsAreExplained, Explained
<1>2. ASSUME \A a \in Agents : ~Commit(a) PROVE TextsAreExplained'
  <2>1. UNCHANGED <<samples, events, cycles>>
    BY <1>2, OthersDoNotPublish
  <2>2. QED
    BY <2>1 DEF TextsAreExplained
<1>3. QED
  BY <1>1, <1>2

(* query_text_mode = none stores no statement text, and with "events" the  *)
(* texts collect_once stores are those of statements with a regression     *)
(* event no older than the cooldown, whichever agents report and commit in *)
(* whatever order.                                                         *)
THEOREM TextsHaveAReason == Spec => []TextsAreExplained
<1>1. Init => StagedTexts /\ TextsAreExplained
  BY DEF Init, NoJob, StagedTexts, TextsAreExplained
<1>2. Init => LedgerInv
  BY DEF Init, NoJob, LedgerInv, StampsAreUnique, PublishedHasCycle, StagedIsOneCycle,
         Begun, Opened
<1>3. LedgerInv => StagedIsOneCycle
  BY DEF LedgerInv
<1>4. QED
  BY <1>1, <1>2, <1>3, StagedTextsStep, TextsStep, LedgerStep, TypeCorrect,
     EveryAlertIsAnswered, PTL DEF Spec

-----------------------------------------------------------------------------
(* Cycles that do not overlap, whichever agents run them, and keys that    *)
(* tell all objects apart.                                                 *)

OneEntryPerKey == \A o, p \in Objects : KeyOf[o] = KeyOf[p] => o = p

(* collect_once keeps nothing from one call to the next.                   *)
RestInv == \A a \in Agents : ~Begun(a) => job[a] = NoJob

LEMMA RestStep ==
  ASSUME TypeOK, RestInv, [Next]_vars PROVE RestInv'
<1>1. ASSUME NEW a \in Agents, Begin(a) \/ Commit(a) \/ Abort(a) PROVE RestInv'
  <2>1. /\ \A b \in Agents \ {a} : job'[b] = job[b] /\ pc'[b] = pc[b]
        /\ pc'[a] = "connect" \/ (pc'[a] = "idle" /\ job'[a] = NoJob)
    BY <1>1 DEF Begin, Commit, Abort, Goto, TypeOK
  <2>2. QED
    BY <2>1 DEF RestInv, Begun
<1>2. ASSUME NEW a \in Agents, Step(a), ~Commit(a) PROVE RestInv'
  <2>1. /\ \A b \in Agents \ {a} : job'[b] = job[b] /\ pc'[b] = pc[b]
        /\ pc'[a] # "idle"
    BY <1>2 DEF Step, OpenTransaction, ReadDatabase, ReadStatements, ReadTables, ReadIndexes,
                EnsureInstance, WriteSamples, Analyse, PersistEvents, Goto, TypeOK
  <2>2. QED
    BY <2>1 DEF RestInv, Begun
<1>3. ASSUME UNCHANGED <<pc, job>> PROVE RestInv'
  BY <1>3 DEF RestInv, Begun
<1>4. QED
  BY <1>1, <1>2, <1>3
  DEF Next, Step, Environment, Activity, Reset, ResetDatabase, ResetObject, Resize, vars

Moves(a) == Begin(a) \/ Step(a) \/ Abort(a)

LEMMA OthersStay ==
  ASSUME TypeOK, NEW a \in Agents, Moves(a), NEW b \in Agents \ {a}
  PROVE  job'[b] = job[b] /\ pc'[b] = pc[b]
<1>1. pc'[b] = pc[b]
  BY DEF Moves, Begin, Abort, Step, OpenTransaction, ReadDatabase, ReadStatements, ReadTables,
         ReadIndexes, EnsureInstance, WriteSamples, Analyse, PersistEvents, Commit, Goto, TypeOK
<1>2. job'[b] = job[b]
  <2>1. CASE Begin(a) \/ Commit(a) \/ Abort(a)
    BY <2>1, StartsOver
  <2>2. CASE ReadsSource(a)
    BY <2>2, ReadersKeep
  <2>3. CASE OpenTransaction(a) \/ EnsureInstance(a) \/ PersistEvents(a)
    BY <2>3, BookkeepingKeeps
  <2>4. CASE WriteSamples(a)
    BY <2>4 DEF WriteSamples, TypeOK
  <2>5. CASE Analyse(a)
    BY <2>5, AnalyseKeeps
  <2>6. QED
    BY <2>1, <2>2, <2>3, <2>4, <2>5 DEF Moves, Step, ReadsSource
<1>3. QED
  BY <1>1, <1>2

(* While one agent moves all the others rest.                              *)
Rests(b) ==
  /\ pc[b] = "idle" /\ job[b].rows = {}
  /\ \A o \in Objects : job[b].seen[o] = NoRow

Alone == \A a \in Agents : Moves(a) => \A b \in Agents \ {a} : Rests(b)' /\ ~Begun(b)'

LEMMA OthersRest ==
  ASSUME TypeOK, RestInv', CyclesDoNotOverlap, CyclesDoNotOverlap'
  PROVE  Alone
<1> SUFFICES ASSUME NEW a \in Agents, Moves(a), NEW b \in Agents \ {a}
             PROVE  Rests(b)' /\ ~Begun(b)'
  BY DEF Alone
<1>1. pc'[b] = pc[b]
  BY OthersStay
<1>2. Begun(a) \/ Begun(a)'
  BY DEF Moves, Begin, Abort, Step, OpenTransaction, ReadDatabase, ReadStatements, ReadTables,
         ReadIndexes, EnsureInstance, WriteSamples, Analyse, PersistEvents, Commit, Goto, Begun,
         TypeOK
<1>3. pc'[b] = "idle"
  BY <1>1, <1>2 DEF CyclesDoNotOverlap, Begun
<1>4. job'[b] = NoJob
  BY <1>3 DEF RestInv, Begun
<1>5. QED
  BY <1>3, <1>4 DEF Rests, NoJob, Begun

(* No row of the same object is newer.                                     *)
IsNewest(p) == \A q \in samples : q.obj = p.obj => q.at <= p.at

(* Rows are stored in the order of their stamps, one of an object at a     *)
(* time, and there is a newest one.                                        *)
OrderInv ==
  /\ \A r \in samples : r.at <= clock
  /\ \A a \in Agents : Begun(a) => job[a].at <= clock /\ \A r \in samples : r.at < job[a].at
  /\ \A p, q \in samples : p.obj = q.obj /\ p.at = q.at => p = q
  /\ \A p \in samples : \E n \in samples : n.obj = p.obj /\ IsNewest(n)

LEMMA OrderStep ==
  ASSUME Alone, TypeOK, StagedIsOneCycle, OrderInv, [Next]_vars
  PROVE  OrderInv'
<1>1. /\ clock \in Nat /\ \A r \in samples : r.at \in Nat
      /\ \A a \in Agents : job[a].at \in Nat /\ \A r \in job[a].rows : r.at \in Nat
  BY DEF TypeOK, Job, Row
<1>2. ASSUME NEW a \in Agents, Begin(a) PROVE OrderInv'
  <2>1. job'[a].at = clock + 1 /\ clock' = clock + 1 /\ samples' = samples
    BY <1>2 DEF Begin, Repository, NoJob, TypeOK
  <2>2. \A b \in Agents \ {a} : Rests(b)' /\ ~Begun(b)'
    BY <1>2 DEF Alone, Moves, Step
  <2>3. \A r \in samples : r.at < clock + 1
    BY <1>1 DEF OrderInv
  <2>4. QED
    BY <1>1, <2>1, <2>2, <2>3 DEF OrderInv, IsNewest
<1>3. ASSUME NEW a \in Agents, OpenTransaction(a) PROVE OrderInv'
  <2>1. job'[a].at = job[a].at /\ clock' = clock + 1 /\ samples' = samples /\ Begun(a)
    BY <1>3 DEF OpenTransaction, Goto, Begun, Repository, TypeOK, Job
  <2>2. \A b \in Agents \ {a} : Rests(b)' /\ ~Begun(b)'
    BY <1>3 DEF Alone, Moves, Step
  <2>3. job[a].at <= clock + 1 /\ \A r \in samples : r.at < job[a].at /\ r.at <= clock + 1
    BY <1>1, <2>1 DEF OrderInv
  <2>4. QED
    BY <1>1, <2>1, <2>2, <2>3 DEF OrderInv, IsNewest
<1>4. ASSUME NEW a \in Agents, Continues(a) PROVE OrderInv'
  <2>1. /\ UNCHANGED <<clock, samples>>
        /\ \A b \in Agents : job'[b].at = job[b].at /\ Begun(b)' = Begun(b)
    BY <1>4, ContinuesKeepsStamps
  <2>2. QED
    BY <2>1 DEF OrderInv, IsNewest
<1>5. ASSUME NEW a \in Agents, Commit(a) PROVE OrderInv'
  <2>1. /\ samples' = samples \cup job[a].rows /\ clock' = clock
        /\ pc'[a] = "idle" /\ Begun(a)
    BY <1>5 DEF Commit, Goto, Begun, TypeOK
  <2>2. \A b \in Agents : ~Begun(b)'
    BY <1>5, <2>1 DEF Alone, Moves, Step, Begun
  <2>3. /\ \A r \in job[a].rows : r.at = job[a].at /\ r.at <= clock
        /\ \A p \in samples, r \in job[a].rows : p.at < r.at
        /\ \A r, q \in job[a].rows : r.obj = q.obj => r = q
    BY <2>1 DEF OrderInv, StagedIsOneCycle
  <2>4. \A p, q \in samples' : p.obj = q.obj /\ p.at = q.at => p = q
    BY <1>1, <2>1, <2>3 DEF OrderInv
  <2>5. ASSUME NEW r \in job[a].rows PROVE IsNewest(r)'
    <3>1. \A q \in samples' : q.at <= r.at
      BY <1>1, <2>1, <2>3
    <3>2. QED
      BY <3>1 DEF IsNewest
  <2>6. ASSUME NEW p \in samples' PROVE \E n \in samples' : n.obj = p.obj /\ IsNewest(n)'
    <3>1. CASE \E r \in job[a].rows : r.obj = p.obj
      BY <2>1, <2>5, <3>1
    <3>2. CASE \A r \in job[a].rows : r.obj # p.obj
      <4>1. p \in samples
        BY <2>1, <3>2
      <4>2. PICK n \in samples : n.obj = p.obj /\ IsNewest(n)
        BY <4>1 DEF OrderInv
      <4>3. IsNewest(n)'
        BY <2>1, <3>2, <4>2 DEF IsNewest
      <4>4. QED
        BY <2>1, <4>2, <4>3
    <3>3. QED
      BY <3>1, <3>2
  <2>7. \A r \in samples' : r.at <= clock'
    BY <2>1, <2>3 DEF OrderInv
  <2>8. QED
    BY <2>2, <2>4, <2>6, <2>7 DEF OrderInv
<1>6. ASSUME NEW a \in Agents, Abort(a) PROVE OrderInv'
  <2>1. UNCHANGED <<clock, samples>> /\ \A b \in Agents : ~Begun(b)'
    BY <1>6 DEF Abort, Repository, Alone, Moves, Begun, TypeOK
  <2>2. QED
    BY <2>1 DEF OrderInv, IsNewest
<1>7. ASSUME UNCHANGED <<clock, samples, pc, job>> PROVE OrderInv'
  BY <1>7 DEF OrderInv, IsNewest, Begun
<1>8. QED
  BY <1>2, <1>3, <1>4, <1>5, <1>6, <1>7
  DEF Next, Step, Continues, Environment, Activity, Reset, ResetDatabase, ResetObject, Resize,
      Repository, vars

-----------------------------------------------------------------------------
(* What a cycle has read so far.                                           *)

(* A reading is younger than every stored row.  Texts do not change, and   *)
(* only mode "all" reads them with the counters.                           *)
SeenInv ==
  \A a \in Agents : \A o \in Seen(a) :
    /\ \A p \in samples : p.obj = o => ReadBefore(p, job[a].seen[o])
    /\ Kind[o] = "query" =>
         /\ job[a].seen[o].raw > 0
         /\ job[a].seen[o].attr = IF Mode = "all" THEN 0 ELSE Unknown
    /\ Kind[o] = "index" => job[a].slowCollected

TextInv ==
  /\ \A o \in Objects : Kind[o] = "query" => source[o].attr = 0
  /\ Mode = "all" => \A r \in AllRows : Kind[r.obj] = "query" => r.attr = 0

(* The four readers, as what they do to the reading.                       *)
LEMMA ReadersSee ==
  ASSUME TypeOK, NEW a \in Agents, ReadsSource(a)
  PROVE  \/ /\ pc[a] = "database" /\ pc'[a] = "statements"
            /\ job'[a].seen = Read(job[a].seen, OfKind({"database"}), job[a].sizes)
            /\ job'[a].over = job[a].over /\ job'[a].slowCollected = job[a].slowCollected
         \/ /\ pc[a] = "statements"
            /\ pc'[a] = IF ObjectsWanted(job[a], job'[a].over) THEN "tables" ELSE "instance"
            /\ job'[a].seen = Read(job[a].seen, Statements, Mode = "all")
            /\ job'[a].slowCollected = job[a].slowCollected
         \/ /\ pc[a] = "tables" /\ pc'[a] = IF job'[a].over THEN "instance" ELSE "indexes"
            /\ job'[a].seen = Read(job[a].seen, OfKind({"table"}), job[a].sizes)
            /\ job'[a].slowCollected = job[a].slowCollected
         \/ /\ pc[a] = "indexes" /\ pc'[a] = "instance"
            /\ job'[a].seen = Read(job[a].seen, OfKind({"index"}), job[a].sizes)
            /\ job'[a].slowCollected = TRUE
<1>1. a \in DOMAIN job /\ a \in DOMAIN pc /\ job[a] \in Job
  BY DEF TypeOK
<1>2. CASE ReadDatabase(a)
  <2>1. job'[a] = [job[a] EXCEPT !.seen = Read(@, OfKind({"database"}), job[a].sizes)]
    BY <1>1, <1>2 DEF ReadDatabase
  <2>2. pc[a] = "database" /\ pc'[a] = "statements"
    BY <1>1, <1>2 DEF ReadDatabase, Goto
  <2>3. QED
    BY <1>1, <2>1, <2>2 DEF Job
<1>3. CASE ReadStatements(a)
  <2>1. PICK over \in Spend(job[a].over) :
          /\ Goto(a, "statements", IF ObjectsWanted(job[a], over) THEN "tables" ELSE "instance")
          /\ job' = [job EXCEPT ![a].seen = Read(@, Statements, Mode = "all"), ![a].over = over]
    BY <1>3 DEF ReadStatements
  <2>2. job'[a] = [job[a] EXCEPT !.seen = Read(@, Statements, Mode = "all"), !.over = over]
    BY <1>1, <2>1
  <2>3. /\ job'[a].seen = Read(job[a].seen, Statements, Mode = "all")
        /\ job'[a].over = over /\ job'[a].slowCollected = job[a].slowCollected
    BY <1>1, <2>2 DEF Job
  <2>4. /\ pc[a] = "statements"
        /\ pc'[a] = IF ObjectsWanted(job[a], over) THEN "tables" ELSE "instance"
    BY <1>1, <2>1 DEF Goto
  <2>5. QED
    BY <2>3, <2>4
<1>4. CASE ReadTables(a)
  <2>1. PICK over \in BOOLEAN :
          /\ job'[a] = [job[a] EXCEPT !.seen = Read(@, OfKind({"table"}), job[a].sizes),
                                      !.over = over]
          /\ pc[a] = "tables" /\ pc'[a] = IF over THEN "instance" ELSE "indexes"
    BY <1>1, <1>4, SpendTyped DEF ReadTables, Goto, Job
  <2>2. QED
    BY <1>1, <2>1 DEF Job
<1>5. CASE ReadIndexes(a)
  <2>1. PICK over \in BOOLEAN :
          /\ job'[a] = [job[a] EXCEPT !.seen = Read(@, OfKind({"index"}), job[a].sizes),
                                      !.over = over, !.slowCollected = TRUE]
          /\ pc[a] = "indexes" /\ pc'[a] = "instance"
    BY <1>1, <1>5, SpendTyped DEF ReadIndexes, Goto, Job
  <2>2. QED
    BY <1>1, <2>1 DEF Job
<1>6. QED
  BY <1>2, <1>3, <1>4, <1>5 DEF ReadsSource

LEMMA ReadAt ==
  ASSUME TypeOK, NEW seen, NEW os, NEW withAttr, NEW o \in Objects
  PROVE  LET s == Read(seen, os, withAttr)[o]
         IN  /\ o \notin os => s = seen[o]
             /\ o \in os =>
                  /\ s \in Reading /\ Counters(s) = Counters(source[o])
                  /\ s.attr = IF withAttr THEN source[o].attr ELSE Unknown
  BY DEF Read, Counters, TypeOK, Reading, Attr

(* A reading of the source is younger than every row.                      *)
LEMMA SourceIsYounger ==
  ASSUME ReadingsInv, NEW p \in samples, NEW o \in Objects, p.obj = o,
         NEW s, Counters(s) = Counters(source[o])
  PROVE  ReadBefore(p, s)
<1>1. Counters(p) \in Readings(o)
  BY RowIsReading DEF AllRows
<1>2. ReadBefore(Counters(p), Counters(s))
  BY <1>1 DEF ReadingsInv
<1>3. QED
  BY <1>2 DEF ReadBefore, Counters

LEMMA TextStep ==
  ASSUME TypeOK, TextInv, SeenInv, [Next]_vars
  PROVE  TextInv'
<1>1. \A a \in Agents : job[a] \in Job
  BY DEF TypeOK
<1>2. ASSUME UNCHANGED source, AllRows' \subseteq AllRows PROVE TextInv'
  BY <1>2 DEF TextInv
<1>3. ASSUME NEW a \in Agents, Begin(a) \/ Commit(a) \/ Abort(a) PROVE TextInv'
  <2>1. /\ \A b \in Agents \ {a} : job'[b] = job[b]
        /\ job'[a].rows = {} /\ UNCHANGED source
    BY <1>3, StartsOver
  <2>2. samples' \subseteq AllRows
    BY <1>3 DEF Begin, Commit, Abort, Repository, AllRows
  <2>3. QED
    BY <1>2, <2>1, <2>2 DEF AllRows
<1>4. ASSUME NEW a \in Agents,
             \/ ReadsSource(a) \/ OpenTransaction(a) \/ EnsureInstance(a) \/ PersistEvents(a)
      PROVE  TextInv'
  <2>1. /\ \A b \in Agents \ {a} : job'[b] = job[b]
        /\ job'[a].rows = job[a].rows /\ UNCHANGED <<source, samples>>
    BY <1>4, ReadersKeep, BookkeepingKeeps
  <2>2. QED
    BY <1>2, <2>1 DEF AllRows
<1>5. ASSUME NEW a \in Agents, UNCHANGED <<source, samples>>,
             \A b \in Agents \ {a} : job'[b] = job[b],
             Mode = "all" => \A r \in job'[a].rows : Kind[r.obj] = "query" => r.attr = 0
      PROVE  TextInv'
  <2>1. ASSUME NEW r \in AllRows' PROVE r \in AllRows \/ r \in job'[a].rows
    BY <1>5, <2>1 DEF AllRows
  <2>2. QED
    BY <1>5, <2>1 DEF TextInv
<1>6. ASSUME NEW a \in Agents, WriteSamples(a) PROVE TextInv'
  <2>1. PICK prev \in Lookups : job' = [job EXCEPT ![a].rows = Derived(a, prev)]
    BY <1>6 DEF WriteSamples
  <2>2. /\ job'[a].rows = Derived(a, prev)
        /\ \A b \in Agents \ {a} : job'[b] = job[b]
        /\ UNCHANGED <<source, samples>>
    BY <1>1, <1>6, <2>1 DEF WriteSamples, Repository, TypeOK, Job
  <2>3. ASSUME Mode = "all", NEW r \in Derived(a, prev), Kind[r.obj] = "query"
        PROVE  r.attr = 0
    <3>1. PICK o \in Seen(a) :
            r = RowOf(o, job[a].at, job[a].seen[o], prev[KeyOf[o]], Mode = "all")
      BY DEF Derived
    <3>2. r.obj = o /\ r.attr = CarriedAttr(job[a].seen[o], prev[KeyOf[o]])
      BY <3>1 DEF RowOf
    <3>3. job[a].seen[o].attr = 0
      BY <2>3, <3>2 DEF SeenInv
    <3>4. QED
      BY <3>2, <3>3, SentinelAssumption DEF CarriedAttr
  <2>4. QED
    BY <1>5, <2>2, <2>3
<1>7. ASSUME NEW a \in Agents, Analyse(a) PROVE TextInv'
  <2>1. /\ \A b \in Agents \ {a} : job'[b] = job[b]
        /\ UNCHANGED <<source, samples>>
    BY <1>7, AnalyseKeeps DEF Analyse, Repository
  <2>2. Mode = "all" => job'[a].rows = job[a].rows
    BY <1>7, AnalyseRows
  <2>3. QED
    BY <1>5, <2>1, <2>2 DEF TextInv, AllRows
<1>8. ASSUME UNCHANGED <<samples, job>>,
             \A o \in Objects : Kind[o] = "query" => source'[o].attr = source[o].attr
      PROVE  TextInv'
  BY <1>8 DEF TextInv, AllRows
<1>9. ASSUME NEW o \in Objects, Activity(o) PROVE TextInv'
  BY <1>8, <1>9 DEF Activity, Repository, TypeOK
<1>10. ASSUME NEW os, Reset(os) PROVE TextInv'
  BY <1>8, <1>10 DEF Reset, Repository, TypeOK
<1>11. ASSUME NEW o \in Objects, Resize(o) PROVE TextInv'
  BY <1>8, <1>11 DEF Resize, Repository, TypeOK
<1>12. CASE UNCHANGED vars
  BY <1>8, <1>12 DEF vars
<1>13. QED
  BY <1>3, <1>4, <1>6, <1>7, <1>9, <1>10, <1>11, <1>12
  DEF Next, Step, ReadsSource, Environment, ResetDatabase, ResetObject

(* A budget once exceeded stays exceeded.                                  *)
LEMMA SpendGrows ==
  ASSUME NEW over \in BOOLEAN, NEW next \in Spend(over) \cup {over}
  PROVE  over => next
  BY CollectorAssumption DEF Spend

(* Deriving rows and analysing them.                                       *)
LEMMA WorkKeeps ==
  ASSUME TypeOK, NEW a \in Agents, WriteSamples(a) \/ Analyse(a)
  PROVE  /\ job'[a].at = job[a].at /\ job'[a].seen = job[a].seen
         /\ job'[a].slow = job[a].slow /\ job'[a].sizes = job[a].sizes
         /\ job'[a].slowCollected = job[a].slowCollected
         /\ job[a].over => job'[a].over
         /\ UNCHANGED <<source, samples, cycles>>
         /\ \/ pc[a] = "write" /\ pc'[a] = "analyse"
            \/ pc[a] = "analyse" /\ pc'[a] = "persist"
<1>1. a \in DOMAIN job /\ a \in DOMAIN pc /\ job[a] \in Job
  BY DEF TypeOK
<1>2. /\ UNCHANGED <<source, samples, cycles>>
      /\ \/ pc[a] = "write" /\ pc'[a] = "analyse"
         \/ pc[a] = "analyse" /\ pc'[a] = "persist"
  BY <1>1 DEF WriteSamples, Analyse, Goto, Repository
<1>3. CASE WriteSamples(a)
  <2>1. PICK prev \in Lookups : job'[a] = [job[a] EXCEPT !.rows = Derived(a, prev)]
    BY <1>1, <1>3 DEF WriteSamples
  <2>2. QED
    BY <1>1, <1>2, <2>1 DEF Job
<1>4. CASE Analyse(a)
  <2>1. PICK raised \in SUBSET Possible(a), over \in Spend(job[a].over) \cup {job[a].over} :
          job' = [job EXCEPT
             ![a].raised = raised,
             ![a].rows = IF /\ Mode = "events" /\ ~job[a].over
                            /\ RegressionKeys(raised) # {}
                         THEN WithTexts(@, RegressionKeys(raised)) ELSE @,
             ![a].over = over]
    BY <1>4 DEF Analyse
  <2>2. job[a].over => over
    BY <1>1, <2>1, SpendGrows, Zenon DEF Job
  <2>3. /\ job'[a].over = over /\ job'[a].at = job[a].at /\ job'[a].seen = job[a].seen
        /\ job'[a].slow = job[a].slow /\ job'[a].sizes = job[a].sizes
        /\ job'[a].slowCollected = job[a].slowCollected
    BY <1>1, <2>1 DEF Job
  <2>4. QED
    BY <1>2, <2>2, <2>3
<1>5. QED
  BY <1>3, <1>4

(* A reader leaves everything it does not read as it was, and what it      *)
(* reads satisfies the invariant.                                          *)
LEMMA ReaderSeen ==
  ASSUME TypeOK, ReadingsInv, TextInv, SeenInv, NEW a \in Agents, ReadsSource(a),
         NEW o \in Objects, job'[a].seen[o] # NoRow
  PROVE  /\ \A p \in samples : p.obj = o => ReadBefore(p, job'[a].seen[o])
         /\ Kind[o] = "query" =>
              /\ job'[a].seen[o].raw > 0
              /\ job'[a].seen[o].attr = IF Mode = "all" THEN 0 ELSE Unknown
         /\ Kind[o] = "index" => job'[a].slowCollected
<1>1. PICK os, withAttr :
        /\ job'[a].seen = Read(job[a].seen, os, withAttr)
        /\ o \in os /\ Kind[o] = "query" => source[o].raw > 0 /\ withAttr = (Mode = "all")
        /\ o \in os /\ Kind[o] = "index" => job'[a].slowCollected
        /\ job[a].slowCollected => job'[a].slowCollected
  <2>1. CASE /\ job'[a].seen = Read(job[a].seen, OfKind({"database"}), job[a].sizes)
             /\ job'[a].slowCollected = job[a].slowCollected
    BY <2>1 DEF OfKind
  <2>2. CASE /\ job'[a].seen = Read(job[a].seen, Statements, Mode = "all")
             /\ job'[a].slowCollected = job[a].slowCollected
    BY <2>2 DEF OfKind, Statements
  <2>3. CASE /\ job'[a].seen = Read(job[a].seen, OfKind({"table"}), job[a].sizes)
             /\ job'[a].slowCollected = job[a].slowCollected
    BY <2>3 DEF OfKind
  <2>4. CASE /\ job'[a].seen = Read(job[a].seen, OfKind({"index"}), job[a].sizes)
             /\ job'[a].slowCollected = TRUE
    BY <2>4 DEF OfKind
  <2>5. QED
    BY <2>1, <2>2, <2>3, <2>4, ReadersSee
<1> DEFINE s == job'[a].seen[o]
<1>2. CASE o \notin os
  <2>1. s = job[a].seen[o]
    BY <1>1, <1>2, ReadAt
  <2>2. o \in Seen(a)
    BY <2>1 DEF Seen
  <2>3. QED
    BY <1>1, <2>1, <2>2 DEF SeenInv
<1>3. CASE o \in os
  <2>1. /\ Counters(s) = Counters(source[o])
        /\ s.attr = IF withAttr THEN source[o].attr ELSE Unknown
    BY <1>1, <1>3, ReadAt
  <2>2. \A p \in samples : p.obj = o => ReadBefore(p, s)
    BY <2>1, SourceIsYounger
  <2>3. s.raw = source[o].raw
    BY <2>1 DEF Counters
  <2>4. QED
    BY <1>1, <1>3, <2>1, <2>2, <2>3 DEF TextInv
<1>4. QED
  BY <1>2, <1>3

LEMMA SeenStep ==
  ASSUME Alone, TypeOK, ReadingsInv, TextInv, SeenInv, [Next]_vars
  PROVE  SeenInv'
<1>2. ASSUME NEW a \in Agents, Begin(a) \/ Commit(a) \/ Abort(a) PROVE SeenInv'
  <2>1. \A b \in Agents : \A o \in Objects : job'[b].seen[o] = NoRow
    <3>1. \A o \in Objects : job'[a].seen[o] = NoRow
      BY <1>2, StartsOver
    <3>2. \A b \in Agents \ {a} : Rests(b)'
      BY <1>2 DEF Alone, Moves, Step
    <3>3. QED
      BY <3>1, <3>2 DEF Rests
  <2>2. QED
    BY <2>1 DEF SeenInv, Seen
<1>3. ASSUME NEW a \in Agents, Moves(a), samples' = samples, job'[a].seen = job[a].seen,
             job'[a].slowCollected = job[a].slowCollected
      PROVE  SeenInv'
  BY <1>3 DEF SeenInv, Seen, ReadBefore, Alone, Rests
<1>4. ASSUME NEW a \in Agents,
             \/ OpenTransaction(a) \/ EnsureInstance(a) \/ PersistEvents(a)
             \/ WriteSamples(a) \/ Analyse(a)
      PROVE  SeenInv'
  BY <1>3, <1>4, BookkeepingKeeps, WorkKeeps DEF Moves, Step
<1>5. ASSUME NEW a \in Agents, ReadsSource(a) PROVE SeenInv'
  <2>1. samples' = samples
    BY <1>5, ReadersKeep
  <2>2. \A b \in Agents \ {a} : Rests(b)'
    BY <1>5 DEF Alone, Moves, Step, ReadsSource
  <2>3. ASSUME NEW o \in Objects, job'[a].seen[o] # NoRow
        PROVE  /\ \A p \in samples : p.obj = o => ReadBefore(p, job'[a].seen[o])
               /\ Kind[o] = "query" =>
                    /\ job'[a].seen[o].raw > 0
                    /\ job'[a].seen[o].attr = IF Mode = "all" THEN 0 ELSE Unknown
               /\ Kind[o] = "index" => job'[a].slowCollected
    BY <1>5, <2>3, ReaderSeen
  <2>4. QED
    BY <2>1, <2>2, <2>3 DEF SeenInv, Seen, ReadBefore, Rests
<1>6. ASSUME UNCHANGED <<samples, job>> PROVE SeenInv'
  BY <1>6 DEF SeenInv, Seen, ReadBefore
<1>7. QED
  BY <1>2, <1>4, <1>5, <1>6
  DEF Next, Step, ReadsSource, Environment, Activity, Reset, ResetDatabase, ResetObject, Resize,
      Repository, vars

-----------------------------------------------------------------------------
(* How far a slow pass has come.                                           *)

Measured(a, kind) ==
  \A o \in Objects : Kind[o] = kind =>
    job[a].seen[o] # NoRow /\ job[a].seen[o].attr # Unknown

(* A requested pass is missed over budget only; tables are measured before *)
(* indexes.                                                                *)
PassInv ==
  \A a \in Agents :
    /\ pc[a] \in Locked \cup {"instance"} /\ (job[a].slow \/ job[a].sizes)
         => job[a].over \/ job[a].slowCollected
    /\ job[a].sizes /\ (pc[a] = "indexes" \/ job[a].slowCollected) => Measured(a, "table")
    /\ job[a].sizes /\ job[a].slowCollected => Measured(a, "index")
    /\ pc[a] \in {"idle", "connect", "database", "statements", "tables", "indexes"}
         => ~job[a].slowCollected

LEMMA ReadMeasures ==
  ASSUME TypeOK, NEW a \in Agents, NEW kind, job'[a].seen = Read(job[a].seen, OfKind({kind}), TRUE)
  PROVE  Measured(a, kind)'
<1>1. ASSUME NEW o \in Objects, Kind[o] = kind
      PROVE  job'[a].seen[o] # NoRow /\ job'[a].seen[o].attr # Unknown
  <2>1. o \in OfKind({kind})
    BY <1>1 DEF OfKind
  <2>2. job'[a].seen[o] = [source[o] EXCEPT !.attr = source[o].attr]
    BY <2>1 DEF Read
  <2>3. source[o].attr \in Nat
    BY DEF TypeOK
  <2>4. job'[a].seen[o] \in Reading /\ job'[a].seen[o].attr = source[o].attr
    BY <2>2 DEF TypeOK, Reading, Attr
  <2>5. QED
    BY <2>3, <2>4, SentinelAssumption
<1>2. QED
  BY <1>1 DEF Measured

LEMMA ReadKeepsMeasured ==
  ASSUME TypeOK, NEW a \in Agents, NEW kind, NEW other, NEW withAttr, other # kind,
         job'[a].seen = Read(job[a].seen, OfKind({other}), withAttr), Measured(a, kind)
  PROVE  Measured(a, kind)'
<1>1. ASSUME NEW o \in Objects, Kind[o] = kind
      PROVE  job'[a].seen[o] = job[a].seen[o]
  <2>1. o \notin OfKind({other})
    BY <1>1 DEF OfKind
  <2>2. QED
    BY <2>1, ReadAt
<1>2. QED
  BY <1>1 DEF Measured

LEMMA PassStep ==
  ASSUME TypeOK, PassInv, [Next]_vars
  PROVE  PassInv'
<1> DEFINE Pass(b) ==
      /\ pc[b] \in Locked \cup {"instance"} /\ (job[b].slow \/ job[b].sizes)
           => job[b].over \/ job[b].slowCollected
      /\ job[b].sizes /\ (pc[b] = "indexes" \/ job[b].slowCollected) => Measured(b, "table")
      /\ job[b].sizes /\ job[b].slowCollected => Measured(b, "index")
      /\ pc[b] \in {"idle", "connect", "database", "statements", "tables", "indexes"}
           => ~job[b].slowCollected
<1>1. ASSUME NEW b \in Agents, job'[b] = job[b], pc'[b] = pc[b] PROVE Pass(b)'
  <2>1. \A kind : Measured(b, kind)' = Measured(b, kind)
    BY <1>1 DEF Measured
  <2>2. QED
    BY <1>1, <2>1 DEF PassInv
<1>2. ASSUME NEW a \in Agents, Begin(a) \/ Commit(a) \/ Abort(a) PROVE Pass(a)'
  <2>1. pc'[a] \in {"idle", "connect"} /\ ~job'[a].slowCollected
    BY <1>2, StartsOver
  <2>2. QED
    BY <2>1 DEF Locked
<1>3. ASSUME NEW a \in Agents,
             \/ OpenTransaction(a) \/ EnsureInstance(a) \/ PersistEvents(a)
             \/ WriteSamples(a) \/ Analyse(a)
      PROVE  Pass(a)'
  <2>1. /\ job'[a].seen = job[a].seen
        /\ job'[a].slow = job[a].slow /\ job'[a].sizes = job[a].sizes
        /\ job'[a].slowCollected = job[a].slowCollected
        /\ job[a].over => job'[a].over
        /\ \/ pc[a] = "connect" /\ pc'[a] = "database"
           \/ /\ pc[a] \in {"instance", "write", "analyse", "persist"}
              /\ pc'[a] \in {"write", "analyse", "persist", "commit"}
    BY <1>3, BookkeepingKeeps, WorkKeeps
  <2>2. \A kind : Measured(a, kind)' = Measured(a, kind)
    BY <2>1 DEF Measured
  <2>3. QED
    BY <2>1, <2>2 DEF PassInv, Locked
<1>4. ASSUME NEW a \in Agents, ReadsSource(a) PROVE Pass(a)'
  <2>1. job'[a].slow = job[a].slow /\ job'[a].sizes = job[a].sizes
    BY <1>4, ReadersKeep
  <2>2. job[a].slow \in BOOLEAN /\ job[a].sizes \in BOOLEAN
    BY DEF TypeOK, Job
  <2>3. CASE /\ pc[a] = "database" /\ pc'[a] = "statements"
             /\ job'[a].slowCollected = job[a].slowCollected
    BY <2>1, <2>3 DEF PassInv, Locked
  <2>4. CASE /\ pc[a] = "statements"
             /\ pc'[a] = IF ObjectsWanted(job[a], job'[a].over) THEN "tables" ELSE "instance"
             /\ job'[a].slowCollected = job[a].slowCollected
    BY <2>1, <2>4 DEF PassInv, Locked, ObjectsWanted
  <2>5. CASE /\ pc[a] = "tables" /\ pc'[a] = IF job'[a].over THEN "instance" ELSE "indexes"
             /\ job'[a].seen = Read(job[a].seen, OfKind({"table"}), job[a].sizes)
             /\ job'[a].slowCollected = job[a].slowCollected
    <3>1. job[a].sizes => Measured(a, "table")'
      BY <2>2, <2>5, ReadMeasures
    <3>2. QED
      BY <2>1, <2>5, <3>1 DEF PassInv, Locked
  <2>6. CASE /\ pc[a] = "indexes" /\ pc'[a] = "instance"
             /\ job'[a].seen = Read(job[a].seen, OfKind({"index"}), job[a].sizes)
             /\ job'[a].slowCollected = TRUE
    <3>1. job[a].sizes => Measured(a, "index")'
      BY <2>2, <2>6, ReadMeasures
    <3>2. job[a].sizes => Measured(a, "table")'
      BY <2>6, ReadKeepsMeasured DEF PassInv
    <3>3. QED
      BY <2>1, <2>6, <3>1, <3>2 DEF PassInv, Locked
  <2>7. QED
    BY <1>4, <2>3, <2>4, <2>5, <2>6, ReadersSee
<1>5. CASE UNCHANGED <<pc, job>>
  BY <1>1, <1>5 DEF PassInv
<1>6. CASE \E a \in Agents : Moves(a)
  <2>1. PICK a \in Agents : Moves(a)
    BY <1>6
  <2>2. Pass(a)'
    BY <1>2, <1>3, <1>4, <2>1 DEF Moves, Step, ReadsSource
  <2>3. \A b \in Agents \ {a} : Pass(b)'
    BY <1>1, <2>1, OthersStay
  <2>4. \A b \in Agents : Pass(b)'
    BY <2>2, <2>3
  <2>5. QED
    BY <2>4 DEF PassInv
<1>7. QED
  BY <1>5, <1>6
  DEF Next, Moves, Environment, Activity, Reset, ResetDatabase, ResetObject, Resize,
      Repository, vars

-----------------------------------------------------------------------------
(* The rows that are derived.                                              *)

Derives == {"analyse", "persist", "commit"}

(* A row was compared with an older one of the same object, if any.        *)
Chained(r) == r.prev # NoRow => r.prev.obj = r.obj /\ ReadBefore(r.prev, r)

(* What row r owes row p, the one stored before it.                        *)
Follows(p, r) ==
  /\ HonestDelta(r, p)
  /\ Kind[r.obj] # "database" => p.raw # r.raw \/ (Kind[r.obj] # "query" /\ p.attr # r.attr)

StagedInv ==
  \A a \in Agents :
    /\ pc[a] \notin Derives => job[a].rows = {}
    /\ \A r \in job[a].rows :
         /\ r.obj \in Seen(a) /\ Chained(r)
         /\ \A p \in samples : p.obj = r.obj =>
              /\ ReadBefore(p, r)
              /\ IsNewest(p) => Follows(p, r)
              /\ p.attr # Unknown => r.attr # Unknown

StoredInv ==
  /\ \A r \in samples : Chained(r)
  /\ \A p, r \in samples : p.obj = r.obj /\ p.at < r.at => ReadBefore(p, r)
  /\ \A p, r \in samples : Adjacent(p, r) => Follows(p, r)
  /\ AttrIsNeverForgotten

(* Once the rows are derived, everything that was read is shown by one of  *)
(* them or by the newest stored row.                                       *)
Shows(r, s) == r.raw = s.raw /\ (s.attr # Unknown => r.attr = s.attr)

ElisionInv ==
  \A a \in Agents : pc[a] \in Derives =>
    \A o \in Seen(a) :
      \/ \E r \in job[a].rows : r.obj = o /\ Shows(r, job[a].seen[o])
      \/ /\ \A r \in job[a].rows : r.obj # o
         /\ \E p \in samples : p.obj = o /\ IsNewest(p) /\ Shows(p, job[a].seen[o])

(* _latest_rows finds the newest row of the object, if it has one.         *)
LEMMA LookupIsNewest ==
  ASSUME OneEntryPerKey, TypeOK, OrderInv, NEW prev \in Lookups, NEW o \in Objects
  PROVE  LET p == prev[KeyOf[o]]
         IN  /\ p = NoRow => \A q \in samples : q.obj # o
             /\ p # NoRow => p \in samples /\ p.obj = o /\ IsNewest(p)
<1> DEFINE k == KeyOf[o]
           mine == {r \in samples : KeyOf[r.obj] = k}
<1>1. k \in Keys /\ prev[k] \in Found(k)
  BY DEF Keys, Lookups
<1>2. \A r \in samples : r.obj \in Objects /\ r # NoRow
  BY SentinelAssumption DEF TypeOK, Row
<1>3. \A r \in samples : KeyOf[r.obj] = k <=> r.obj = o
  BY <1>2 DEF OneEntryPerKey
<1>4. Latest(samples, k) = {r \in mine : \A q \in mine : q.at <= r.at}
  BY DEF Latest
<1>5. ASSUME NEW q \in samples, q.obj = o PROVE Latest(samples, k) # {}
  <2>1. PICK n \in samples : n.obj = o /\ IsNewest(n)
    BY <1>5 DEF OrderInv
  <2>2. n \in Latest(samples, k)
    BY <1>3, <1>4, <2>1 DEF IsNewest
  <2>3. QED
    BY <2>2
<1>6. prev[k] = NoRow => Latest(samples, k) = {}
  BY <1>1, <1>2, <1>4 DEF Found
<1>7. prev[k] # NoRow => prev[k] \in Latest(samples, k)
  BY <1>1 DEF Found
<1>8. \A p \in Latest(samples, k) : p \in samples /\ p.obj = o /\ IsNewest(p)
  BY <1>3, <1>4 DEF IsNewest
<1>9. QED
  BY <1>5, <1>6, <1>7, <1>8

(* Without a reset of its own columns a counter that differs by nothing    *)
(* did not move, unless it is zero.                                        *)
LEMMA DeltaTellsChange ==
  ASSUME NEW o \in Objects, Kind[o] # "database", NEW s \in Reading, NEW p \in Row
  PROVE  /\ IntervalDelta(o, s, p) # 0 => p.raw # s.raw
         /\ IntervalDelta(o, s, p) = 0 /\ s.raw > 0 => p.raw = s.raw
<1>1. p # NoRow /\ s.raw \in Nat /\ p.raw \in Nat
  BY SentinelAssumption DEF Reading, Row
<1>2. IntervalDelta(o, s, p) = Delta(s.raw, p.raw)
  BY <1>1 DEF IntervalDelta, ResetDetected
<1>3. QED
  BY <1>1, <1>2 DEF Delta

LEMMA DerivedFollows ==
  ASSUME OneEntryPerKey, TypeOK, OrderInv, SeenInv, StoredInv,
         NEW a \in Agents, NEW prev \in Lookups, NEW r \in Derived(a, prev)
  PROVE  /\ r.obj \in Seen(a) /\ Chained(r)
         /\ \A p \in samples : p.obj = r.obj =>
              /\ ReadBefore(p, r)
              /\ IsNewest(p) => Follows(p, r)
              /\ p.attr # Unknown => r.attr # Unknown
<1>1. PICK o \in Seen(a) :
        /\ IsChanged(o, job[a].seen[o], prev[KeyOf[o]])
        /\ r = RowOf(o, job[a].at, job[a].seen[o], prev[KeyOf[o]], Mode = "all")
  BY DEF Derived
<1> DEFINE s == job[a].seen[o]
           n == prev[KeyOf[o]]
<1>2. o \in Objects /\ s \in Reading
  BY DEF Seen, TypeOK, Job
<1>3. /\ r.obj = o /\ r.raw = s.raw /\ r.reset = s.reset /\ r.grown = s.grown
      /\ r.attr = CarriedAttr(s, n) /\ r.delta = IntervalDelta(o, s, n)
      /\ r.prev = IF n = NoRow THEN NoRow
                  ELSE [obj |-> n.obj, raw |-> n.raw, reset |-> n.reset, grown |-> n.grown]
  BY <1>1 DEF RowOf
<1>4. ASSUME NEW p \in samples, p.obj = o
      PROVE  n \in samples /\ n \in Row /\ n # NoRow /\ n.obj = o /\ IsNewest(n)
  BY <1>2, <1>4, LookupIsNewest DEF TypeOK
<1>5. ASSUME NEW p \in samples, p.obj = o, IsNewest(p) PROVE Follows(p, r)
  <2>1. p = n
    <3>1. p.at <= n.at /\ n.at <= p.at /\ p.at \in Nat /\ n.at \in Nat
      BY <1>4, <1>5 DEF IsNewest, TypeOK, Row
    <3>2. QED
      BY <1>4, <1>5, <3>1 DEF OrderInv
  <2>2. p \in Row /\ p # NoRow /\ ReadBefore(p, s)
    BY <1>4, <1>5, <2>1 DEF SeenInv
  <2>3. HonestDelta(r, p)
    BY <1>2, <1>3, <1>5, <2>1, <2>2, OrderedDelta DEF HonestDelta
  <2>4. CASE Kind[o] = "query"
    <3>1. IntervalDelta(o, s, p) # 0
      BY <1>1, <2>1, <2>2, <2>4 DEF IsChanged
    <3>2. QED
      BY <1>2, <1>3, <2>2, <2>3, <2>4, <3>1, DeltaTellsChange DEF Follows
  <2>5. CASE Kind[o] \in {"table", "index"}
    <3>1. s.raw # p.raw \/ CarriedAttr(s, p) # p.attr
      BY <1>1, <2>1, <2>2, <2>5 DEF IsChanged
    <3>2. QED
      BY <1>3, <2>1, <2>3, <2>5, <3>1 DEF Follows
  <2>6. CASE Kind[o] = "database"
    BY <1>3, <2>3, <2>6 DEF Follows
  <2>7. QED
    BY <1>2, <2>4, <2>5, <2>6, SamplesAssumption DEF Kinds
<1>6. ASSUME NEW p \in samples, p.obj = o, p.attr # Unknown PROVE r.attr # Unknown
  <2>1. n \in samples /\ n # NoRow /\ n.obj = o /\ IsNewest(n)
    BY <1>4, <1>6
  <2>2. p.at <= n.at /\ p.at \in Nat /\ n.at \in Nat
    BY <1>6, <2>1 DEF IsNewest, TypeOK, Row
  <2>3. n.attr # Unknown
    <3>1. CASE p.at = n.at
      BY <1>6, <2>1, <3>1 DEF OrderInv
    <3>2. CASE p.at < n.at
      BY <1>6, <2>1, <3>2 DEF StoredInv, AttrIsNeverForgotten
    <3>3. QED
      BY <2>2, <3>1, <3>2
  <2>4. QED
    BY <1>3, <2>1, <2>3 DEF CarriedAttr
<1>7. ASSUME NEW p \in samples, p.obj = o PROVE ReadBefore(p, r)
  BY <1>3, <1>7 DEF SeenInv, ReadBefore
<1>8. Chained(r)
  <2>1. CASE n = NoRow
    BY <1>3, <2>1 DEF Chained
  <2>2. CASE n # NoRow
    <3>1. n \in samples /\ n.obj = o
      BY <1>2, <2>2, LookupIsNewest
    <3>2. ReadBefore(n, r)
      BY <1>7, <3>1
    <3>3. /\ r.prev.obj = n.obj /\ r.prev.raw = n.raw
          /\ r.prev.reset = n.reset /\ r.prev.grown = n.grown
      BY <1>3, <2>2
    <3>4. QED
      BY <1>3, <3>1, <3>2, <3>3 DEF Chained, ReadBefore
  <2>3. QED
    BY <2>1, <2>2
<1>9. QED
  BY <1>3, <1>5, <1>6, <1>7, <1>8

(* insert_*_samples shows everything that was read: by a new row, or by    *)
(* leaving alone a newest row that says the same.                          *)
LEMMA DerivedShows ==
  ASSUME OneEntryPerKey, TypeOK, OrderInv, SeenInv, TextInv,
         NEW a \in Agents, NEW prev \in Lookups, NEW o \in Seen(a)
  PROVE  \/ \E r \in Derived(a, prev) : r.obj = o /\ Shows(r, job[a].seen[o])
         \/ /\ \A r \in Derived(a, prev) : r.obj # o
            /\ \E p \in samples : p.obj = o /\ IsNewest(p) /\ Shows(p, job[a].seen[o])
<1> DEFINE s == job[a].seen[o]
           n == prev[KeyOf[o]]
           new == RowOf(o, job[a].at, s, n, Mode = "all")
<1>1. o \in Objects /\ s \in Reading
  BY DEF Seen, TypeOK, Job
<1>2. CASE IsChanged(o, s, n)
  <2>1. new \in Derived(a, prev)
    BY <1>2 DEF Derived
  <2>2. new.obj = o /\ new.raw = s.raw /\ new.attr = CarriedAttr(s, n)
    BY DEF RowOf
  <2>3. Shows(new, s)
    BY <2>2 DEF Shows, CarriedAttr
  <2>4. QED
    BY <2>1, <2>2, <2>3
<1>3. CASE ~IsChanged(o, s, n)
  <2>1. Kind[o] # "database" /\ n # NoRow
    BY <1>3 DEF IsChanged
  <2>2. n \in samples /\ n.obj = o /\ IsNewest(n) /\ n \in Row
    BY <1>1, <2>1, LookupIsNewest DEF TypeOK
  <2>3. ASSUME NEW r \in Derived(a, prev) PROVE r.obj # o
    <3>1. PICK u \in Seen(a) :
            /\ IsChanged(u, job[a].seen[u], prev[KeyOf[u]])
            /\ r = RowOf(u, job[a].at, job[a].seen[u], prev[KeyOf[u]], Mode = "all")
      BY DEF Derived
    <3>2. r.obj = u
      BY <3>1 DEF RowOf
    <3>3. QED
      BY <1>3, <3>1, <3>2
  <2>4. CASE Kind[o] = "query"
    <3>1. IntervalDelta(o, s, n) = 0 /\ s.raw > 0
      BY <1>3, <2>4 DEF IsChanged, SeenInv
    <3>2. n.raw = s.raw
      BY <1>1, <2>1, <2>2, <3>1, DeltaTellsChange
    <3>3. s.attr # Unknown => n.attr = s.attr
      BY <2>2, <2>4 DEF SeenInv, TextInv, AllRows
    <3>4. QED
      BY <2>2, <2>3, <3>2, <3>3 DEF Shows
  <2>5. CASE Kind[o] \in {"table", "index"}
    <3>1. s.raw = n.raw /\ CarriedAttr(s, n) = n.attr
      BY <1>3, <2>1, <2>5 DEF IsChanged
    <3>2. Shows(n, s)
      BY <3>1 DEF Shows, CarriedAttr
    <3>3. QED
      BY <2>2, <2>3, <3>2
  <2>6. QED
    BY <1>1, <2>1, <2>4, <2>5, SamplesAssumption DEF Kinds
<1>4. QED
  BY <1>2, <1>3

(* update_query_texts replaces a row by one that differs in text and hash  *)
(* only, both ways.                                                        *)
Retold(q, r) ==
  /\ r.obj = q.obj /\ r.raw = q.raw /\ r.reset = q.reset /\ r.grown = q.grown
  /\ r.delta = q.delta /\ r.prev = q.prev
  /\ r.attr = q.attr \/ (Kind[q.obj] = "query" /\ r.attr # Unknown)

LEMMA ToldItself == \A q : Retold(q, q)
  BY DEF Retold

LEMMA TextsRetell ==
  ASSUME TypeOK, NEW rows \in SUBSET Row, NEW keys
  PROVE  /\ \A r \in WithTexts(rows, keys) : \E q \in rows : Retold(q, r)
         /\ \A q \in rows : \E r \in WithTexts(rows, keys) : Retold(q, r)
<1> DEFINE fetched == {k \in keys : \E o \in Statements : KeyOf[o] = k}
           Image(r) == IF Kind[r.obj] = "query" /\ KeyOf[r.obj] \in fetched
                       THEN [r EXCEPT !.text = TRUE, !.attr = source[r.obj].attr] ELSE r
<1>1. WithTexts(rows, keys) = {Image(r) : r \in rows}
  BY DEF WithTexts
<1>2. ASSUME NEW q \in rows PROVE Retold(q, Image(q))
  <2>1. CASE Image(q) = q
    BY <2>1, ToldItself
  <2>2. CASE /\ Kind[q.obj] = "query"
             /\ Image(q) = [q EXCEPT !.text = TRUE, !.attr = source[q.obj].attr]
    <3>1. source[q.obj].attr \in Nat
      BY DEF TypeOK, Row
    <3>2. QED
      BY <2>2, <3>1, SentinelAssumption DEF Retold, Row
  <2>3. QED
    BY <2>1, <2>2
<1> HIDE DEF Image
<1>3. QED
  BY <1>1, <1>2

LEMMA AnalyseRetells ==
  ASSUME TypeOK, NEW a \in Agents, Analyse(a)
  PROVE  /\ \A r \in job'[a].rows : \E q \in job[a].rows : Retold(q, r)
         /\ \A q \in job[a].rows : \E r \in job'[a].rows : Retold(q, r)
         /\ Mode = "all" => job'[a].rows = job[a].rows
<1>1. job[a].rows \in SUBSET Row
  BY DEF TypeOK, Job
<1>2. CASE job'[a].rows = job[a].rows
  BY <1>2, ToldItself
<1>3. CASE Mode = "events" /\ \E keys : job'[a].rows = WithTexts(job[a].rows, keys)
  BY <1>1, <1>3, TextsRetell
<1>4. QED
  BY <1>2, <1>3, AnalyseRows

LEMMA RetoldFollows ==
  ASSUME NEW q, NEW r, NEW p, Retold(q, r), p.obj = r.obj
  PROVE  /\ Follows(p, q) => Follows(p, r)
         /\ ReadBefore(p, q) => ReadBefore(p, r)
         /\ q.attr # Unknown => r.attr # Unknown
  BY DEF Retold, Follows, HonestDelta, ReadBefore

LEMMA RetoldChained ==
  ASSUME NEW q, NEW r, Retold(q, r), Chained(q) PROVE Chained(r)
  BY DEF Retold, Chained, ReadBefore

LEMMA StagedInvStep ==
  ASSUME OneEntryPerKey, Alone, TypeOK, OrderInv, SeenInv, StoredInv, StagedInv, [Next]_vars
  PROVE  StagedInv'
<1>1. ASSUME NEW a \in Agents, Moves(a)
      PROVE  \A b \in Agents \ {a} : job'[b].rows = {} /\ pc'[b] = "idle"
  BY <1>1 DEF Alone, Rests
<1>2. ASSUME NEW a \in Agents, Begin(a) \/ Commit(a) \/ Abort(a) PROVE StagedInv'
  <2>1. job'[a].rows = {}
    BY <1>2, StartsOver
  <2>2. QED
    BY <1>1, <1>2, <2>1 DEF StagedInv, Moves, Step, ReadsSource
<1>3. ASSUME NEW a \in Agents, OpenTransaction(a) \/ EnsureInstance(a) \/ PersistEvents(a)
      PROVE  StagedInv'
  <2>1. /\ job'[a].rows = job[a].rows /\ job'[a].seen = job[a].seen /\ samples' = samples
        /\ pc'[a] \notin Derives => pc[a] \notin Derives
    BY <1>3, BookkeepingKeeps DEF Derives
  <2>2. \A r, p : /\ Follows(p, r)' = Follows(p, r) /\ ReadBefore(p, r)' = ReadBefore(p, r)
                    /\ Chained(r)' = Chained(r)
    BY DEF Follows, HonestDelta, ReadBefore, Chained
  <2>3. QED
    BY <1>1, <1>3, <2>1, <2>2 DEF StagedInv, Seen, IsNewest, Moves, Step, ReadsSource
<1>4. ASSUME NEW a \in Agents, ReadsSource(a) PROVE StagedInv'
  <2>1. job'[a].rows = {}
    <3>1. pc[a] \notin Derives
      BY <1>4, ReadersSee DEF Derives
    <3>2. QED
      BY <1>4, <3>1, ReadersKeep DEF StagedInv
  <2>2. QED
    BY <1>1, <1>4, <2>1 DEF StagedInv, Moves, Step, ReadsSource
<1>5. ASSUME NEW a \in Agents, WriteSamples(a) PROVE StagedInv'
  <2>1. PICK prev \in Lookups : job' = [job EXCEPT ![a].rows = Derived(a, prev)]
    BY <1>5 DEF WriteSamples
  <2>2. job'[a].rows = Derived(a, prev) /\ job'[a].seen = job[a].seen
    BY <2>1 DEF TypeOK, Job
  <2>3. samples' = samples /\ pc'[a] \in Derives
    BY <1>5, WorkKeeps DEF Derives
  <2>4. \A r, p : /\ Follows(p, r)' = Follows(p, r) /\ ReadBefore(p, r)' = ReadBefore(p, r)
                    /\ Chained(r)' = Chained(r)
    BY DEF Follows, HonestDelta, ReadBefore, Chained
  <2>5. ASSUME NEW r \in Derived(a, prev)
        PROVE  /\ r.obj \in Seen(a) /\ Chained(r)
               /\ \A p \in samples : p.obj = r.obj =>
                    /\ ReadBefore(p, r)
                    /\ IsNewest(p) => Follows(p, r)
                    /\ p.attr # Unknown => r.attr # Unknown
    BY DerivedFollows
  <2>6. QED
    BY <1>1, <1>5, <2>2, <2>3, <2>4, <2>5 DEF StagedInv, Seen, IsNewest, Moves, Step, ReadsSource
<1>6. ASSUME NEW a \in Agents, Analyse(a) PROVE StagedInv'
  <2>1. job'[a].seen = job[a].seen /\ samples' = samples /\ pc'[a] \in Derives
    BY <1>6, WorkKeeps DEF Derives, Analyse, Goto, TypeOK
  <2>2. \A r, p : /\ Follows(p, r)' = Follows(p, r) /\ ReadBefore(p, r)' = ReadBefore(p, r)
                    /\ Chained(r)' = Chained(r)
    BY DEF Follows, HonestDelta, ReadBefore, Chained
  <2>3. ASSUME NEW r \in job'[a].rows
        PROVE  /\ r.obj \in Seen(a) /\ Chained(r)
               /\ \A p \in samples : p.obj = r.obj =>
                    /\ ReadBefore(p, r)
                    /\ IsNewest(p) => Follows(p, r)
                    /\ p.attr # Unknown => r.attr # Unknown
    <3>1. PICK q \in job[a].rows : Retold(q, r)
      BY <1>6, AnalyseRetells
    <3>2. r.obj = q.obj
      BY <3>1 DEF Retold
    <3>3. q.obj \in Seen(a) /\ Chained(r)
      BY <3>1, RetoldChained DEF StagedInv
    <3>4. ASSUME NEW p \in samples, p.obj = r.obj
          PROVE  /\ ReadBefore(p, r)
                 /\ IsNewest(p) => Follows(p, r)
                 /\ p.attr # Unknown => r.attr # Unknown
      <4>1. /\ ReadBefore(p, q)
            /\ IsNewest(p) => Follows(p, q)
            /\ p.attr # Unknown => q.attr # Unknown
        BY <3>2, <3>4 DEF StagedInv
      <4>2. QED
        BY <3>1, <3>4, <4>1, RetoldFollows
    <3>5. QED
      BY <3>2, <3>3, <3>4
  <2>4. QED
    BY <1>1, <1>6, <2>1, <2>2, <2>3 DEF StagedInv, Seen, IsNewest, Moves, Step, ReadsSource
<1>7. ASSUME UNCHANGED <<samples, pc, job>> PROVE StagedInv'
  BY <1>7 DEF StagedInv, Seen, IsNewest, Follows, HonestDelta, ReadBefore, Chained
<1>8. QED
  BY <1>2, <1>3, <1>4, <1>5, <1>6, <1>7
  DEF Next, Step, ReadsSource, Environment, Activity, Reset, ResetDatabase, ResetObject, Resize,
      Repository, vars

LEMMA StoredStep ==
  ASSUME TypeOK, StagedIsOneCycle, OrderInv, StagedInv, StoredInv, [Next]_vars
  PROVE  StoredInv'
<1>1. \A r, p : /\ Follows(p, r)' = Follows(p, r) /\ ReadBefore(p, r)' = ReadBefore(p, r)
                  /\ Chained(r)' = Chained(r)
  BY DEF Follows, HonestDelta, ReadBefore, Chained
<1>2. ASSUME NEW a \in Agents, Commit(a) PROVE StoredInv'
  <2>1. samples' = samples \cup job[a].rows /\ Begun(a)
    BY <1>2 DEF Commit, Goto, Begun
  <2>2. /\ \A p \in samples, r \in job[a].rows : p.at < r.at
        /\ \A r \in job[a].rows : r.at = job[a].at
    BY <2>1 DEF OrderInv, StagedIsOneCycle
  <2>3. /\ \A p \in samples' : p.at \in Nat
        /\ samples \subseteq samples'
    BY <2>1 DEF TypeOK, Row, Job
  <2>4. ASSUME NEW p \in samples', NEW r \in samples', p.at < r.at
        PROVE  p \in samples /\ (r \in samples \/ r \in job[a].rows)
    BY <2>1, <2>2, <2>3, <2>4
  <2>5. ASSUME NEW p \in samples', NEW r \in samples', Adjacent(p, r)' PROVE Follows(p, r)
    <3>1. /\ p.obj = r.obj /\ p.at < r.at
          /\ \A q \in samples' : q.obj = r.obj => q.at <= p.at \/ r.at <= q.at
      BY <2>5 DEF Adjacent
    <3>2. CASE r \in samples
      <4>1. Adjacent(p, r)
        BY <2>3, <3>1 DEF Adjacent
      <4>2. QED
        BY <2>4, <3>1, <3>2, <4>1 DEF StoredInv
    <3>3. CASE r \in job[a].rows
      <4>1. ASSUME NEW q \in samples, q.obj = p.obj PROVE q.at <= p.at
        <5>1. q.at < r.at /\ q.at \in Nat /\ r.at \in Nat
          BY <2>2, <2>3, <3>3
        <5>2. QED
          BY <2>3, <3>1, <4>1, <5>1
      <4>2. p \in samples /\ IsNewest(p)
        BY <2>4, <3>1, <4>1 DEF IsNewest
      <4>3. QED
        BY <3>1, <3>3, <4>2 DEF StagedInv
    <3>4. QED
      BY <2>4, <3>1, <3>2, <3>3
  <2>6. ASSUME NEW p \in samples', NEW r \in samples',
               p.obj = r.obj, p.at < r.at, p.attr # Unknown
        PROVE  r.attr # Unknown
    BY <2>4, <2>6 DEF StoredInv, StagedInv, AttrIsNeverForgotten
  <2>7. ASSUME NEW p \in samples', NEW r \in samples', p.obj = r.obj, p.at < r.at
        PROVE  ReadBefore(p, r)
    BY <2>4, <2>7 DEF StoredInv, StagedInv
  <2>8. \A r \in samples' : Chained(r)
    BY <2>1 DEF StoredInv, StagedInv
  <2>9. QED
    BY <1>1, <2>5, <2>6, <2>7, <2>8 DEF StoredInv, AttrIsNeverForgotten
<1>3. ASSUME \A a \in Agents : ~Commit(a) PROVE StoredInv'
  <2>1. samples' = samples
    BY <1>3, OthersDoNotPublish
  <2>2. QED
    BY <1>1, <2>1 DEF StoredInv, AttrIsNeverForgotten, Adjacent
<1>4. QED
  BY <1>2, <1>3

LEMMA ElisionStep ==
  ASSUME OneEntryPerKey, Alone, TypeOK, OrderInv, SeenInv, TextInv, ElisionInv, [Next]_vars
  PROVE  ElisionInv'
<1>1. ASSUME NEW a \in Agents, Moves(a)
      PROVE  \A b \in Agents \ {a} : pc'[b] \notin Derives
  BY <1>1 DEF Alone, Rests, Derives
<1>2. \A r, s : Shows(r, s)' = Shows(r, s)
  BY DEF Shows
<1>3. ASSUME NEW a \in Agents, Moves(a), pc'[a] \notin Derives PROVE ElisionInv'
  BY <1>1, <1>3 DEF ElisionInv, Derives
<1>4. ASSUME NEW a \in Agents,
             Begin(a) \/ Commit(a) \/ Abort(a) \/ ReadsSource(a) \/ OpenTransaction(a)
               \/ EnsureInstance(a)
      PROVE  ElisionInv'
  <2>1. CASE Begin(a) \/ Commit(a) \/ Abort(a)
    BY <1>3, <2>1, StartsOver DEF Derives, Moves, Step
  <2>2. CASE ReadsSource(a)
    <3>1. pc'[a] \notin Derives
      BY <2>2, ReadersKeep DEF Derives, Locked
    <3>2. QED
      BY <1>3, <2>2, <3>1 DEF Moves, Step, ReadsSource
  <2>3. CASE OpenTransaction(a) \/ EnsureInstance(a)
    <3>1. pc'[a] \notin Derives
      BY <2>3 DEF OpenTransaction, EnsureInstance, Goto, Derives, TypeOK
    <3>2. QED
      BY <1>3, <2>3, <3>1 DEF Moves, Step
  <2>4. QED
    BY <1>4, <2>1, <2>2, <2>3
<1>5. ASSUME NEW a \in Agents, PersistEvents(a) PROVE ElisionInv'
  <2>1. /\ job'[a].rows = job[a].rows /\ job'[a].seen = job[a].seen /\ samples' = samples
        /\ pc[a] \in Derives
    BY <1>5, BookkeepingKeeps DEF Derives, PersistEvents, Goto
  <2>2. QED
    BY <1>1, <1>2, <1>5, <2>1 DEF ElisionInv, Seen, IsNewest, Moves, Step
<1>6. ASSUME NEW a \in Agents, WriteSamples(a) PROVE ElisionInv'
  <2>1. PICK prev \in Lookups : job' = [job EXCEPT ![a].rows = Derived(a, prev)]
    BY <1>6 DEF WriteSamples
  <2>2. job'[a].rows = Derived(a, prev) /\ job'[a].seen = job[a].seen /\ samples' = samples
    BY <1>6, <2>1, WorkKeeps DEF TypeOK, Job
  <2>3. ASSUME NEW o \in Seen(a)
        PROVE  \/ \E r \in Derived(a, prev) : r.obj = o /\ Shows(r, job[a].seen[o])
               \/ /\ \A r \in Derived(a, prev) : r.obj # o
                  /\ \E p \in samples : p.obj = o /\ IsNewest(p) /\ Shows(p, job[a].seen[o])
    BY DerivedShows
  <2>4. QED
    BY <1>1, <1>2, <1>6, <2>2, <2>3 DEF ElisionInv, Seen, IsNewest, Moves, Step
<1>7. ASSUME NEW a \in Agents, Analyse(a) PROVE ElisionInv'
  <2>1. job'[a].seen = job[a].seen /\ samples' = samples /\ pc[a] \in Derives
    BY <1>7, WorkKeeps DEF Derives, Analyse, Goto
  <2>2. ASSUME NEW o \in Seen(a)
        PROVE  \/ \E r \in job'[a].rows : r.obj = o /\ Shows(r, job[a].seen[o])
               \/ /\ \A r \in job'[a].rows : r.obj # o
                  /\ \E p \in samples : p.obj = o /\ IsNewest(p) /\ Shows(p, job[a].seen[o])
    <3>1. CASE \E q \in job[a].rows : q.obj = o /\ Shows(q, job[a].seen[o])
      <4>1. PICK q \in job[a].rows : q.obj = o /\ Shows(q, job[a].seen[o])
        BY <3>1
      <4>2. CASE Mode = "all"
        BY <1>7, <3>1, <4>2, AnalyseRetells
      <4>3. CASE Mode # "all"
        <5>1. PICK r \in job'[a].rows : Retold(q, r)
          BY <1>7, AnalyseRetells
        <5>2. Kind[o] = "query" => job[a].seen[o].attr = Unknown
          BY <4>3 DEF SeenInv
        <5>3. r.obj = o /\ Shows(r, job[a].seen[o])
          BY <4>1, <5>1, <5>2 DEF Retold, Shows
        <5>4. QED
          BY <5>3
      <4>4. QED
        BY <4>2, <4>3
    <3>2. CASE /\ \A q \in job[a].rows : q.obj # o
               /\ \E p \in samples : p.obj = o /\ IsNewest(p) /\ Shows(p, job[a].seen[o])
      <4>1. \A r \in job'[a].rows : r.obj # o
        BY <1>7, <3>2, AnalyseRetells DEF Retold
      <4>2. QED
        BY <3>2, <4>1
    <3>3. QED
      BY <2>1, <3>1, <3>2 DEF ElisionInv
  <2>3. QED
    BY <1>1, <1>2, <1>7, <2>1, <2>2 DEF ElisionInv, Seen, IsNewest, Moves, Step
<1>8. ASSUME UNCHANGED <<samples, pc, job>> PROVE ElisionInv'
  BY <1>2, <1>8 DEF ElisionInv, Seen, IsNewest
<1>9. QED
  BY <1>4, <1>5, <1>6, <1>7, <1>8
  DEF Next, Step, ReadsSource, Environment, Activity, Reset, ResetDatabase, ResetObject, Resize,
      Repository, vars

LEMMA CompleteStep ==
  ASSUME TypeOK, StagedIsOneCycle, OrderInv, SeenInv, PassInv, StagedInv, ElisionInv,
         SlowPassIsComplete, [Next]_vars
  PROVE  SlowPassIsComplete'
<1>1. ASSUME NEW a \in Agents, Commit(a) PROVE SlowPassIsComplete'
  <2> DEFINE j == job[a]
             c == CycleOf(j)
  <2>1. /\ samples' = samples \cup j.rows /\ cycles' = cycles \cup {c} /\ pc[a] = "commit"
    BY <1>1 DEF Commit, Goto
  <2>2. /\ c.at = j.at /\ c.slow = j.slow /\ c.sizes = j.sizes /\ c.over = j.over
        /\ c.slowCollected = j.slowCollected /\ c.stored = {r.obj : r \in j.rows}
        /\ c.sizesCollected => j.slowCollected /\ j.sizes
    BY DEF CycleOf
  <2>3. (j.slow \/ j.sizes) /\ ~j.over => j.slowCollected
    BY <2>1 DEF PassInv, Locked
  <2>4. c.stored \cap OfKind({"index"}) # {} => j.slowCollected
    BY <2>2 DEF StagedInv, SeenInv, OfKind
  <2>5. ASSUME j.slowCollected, j.sizes, NEW o \in OfKind({"table", "index"})
        PROVE  \E r \in samples' : r.obj = o /\ r.at <= j.at /\ r.attr # Unknown
    <3>1. o \in Objects /\ (Kind[o] = "table" \/ Kind[o] = "index")
      BY <2>5 DEF OfKind
    <3>2. o \in Seen(a) /\ j.seen[o].attr # Unknown
      BY <2>5, <3>1 DEF PassInv, Measured, Seen
    <3>3. CASE \E r \in j.rows : r.obj = o /\ Shows(r, j.seen[o])
      <4>1. PICK r \in j.rows : r.obj = o /\ Shows(r, j.seen[o])
        BY <3>3
      <4>2. r.at = j.at /\ j.at \in Nat /\ r.attr # Unknown
        BY <3>2, <4>1 DEF StagedIsOneCycle, TypeOK, Job, Shows
      <4>3. QED
        BY <2>1, <4>1, <4>2
    <3>4. CASE \E p \in samples : p.obj = o /\ Shows(p, j.seen[o])
      <4>1. PICK p \in samples : p.obj = o /\ Shows(p, j.seen[o])
        BY <3>4
      <4>2. p.at < j.at /\ p.at \in Nat /\ j.at \in Nat
        BY <2>1 DEF OrderInv, Begun, TypeOK, Row, Job
      <4>3. p.at <= j.at /\ p.attr # Unknown
        BY <3>2, <4>1, <4>2 DEF Shows
      <4>4. QED
        BY <2>1, <4>1, <4>3
    <3>5. QED
      BY <2>1, <3>2, <3>3, <3>4 DEF ElisionInv, Derives
  <2>6. ASSUME NEW d \in cycles, d.sizesCollected, NEW o \in OfKind({"table", "index"})
        PROVE  \E r \in samples' : r.obj = o /\ r.at <= d.at /\ r.attr # Unknown
    BY <2>1, <2>6 DEF SlowPassIsComplete
  <2>7. ASSUME NEW d \in cycles
        PROVE  /\ (d.slow \/ d.sizes) /\ ~d.over => d.slowCollected
               /\ d.stored \cap OfKind({"index"}) # {} => d.slowCollected
    BY DEF SlowPassIsComplete
  <2>8. ASSUME NEW d \in cycles'
        PROVE  /\ (d.slow \/ d.sizes) /\ ~d.over => d.slowCollected
               /\ d.stored \cap OfKind({"index"}) # {} => d.slowCollected
               /\ d.sizesCollected =>
                    \A o \in OfKind({"table", "index"}) :
                      \E r \in samples' : r.obj = o /\ r.at <= d.at /\ r.attr # Unknown
    <3>1. CASE d \in cycles
      BY <2>6, <2>7, <3>1
    <3>2. CASE d = c
      BY <2>2, <2>3, <2>4, <2>5, <3>2
    <3>3. QED
      BY <2>1, <3>1, <3>2
  <2>9. QED
    BY <2>8 DEF SlowPassIsComplete, OfKind
<1>2. ASSUME \A a \in Agents : ~Commit(a) PROVE SlowPassIsComplete'
  <2>1. samples' = samples /\ cycles' = cycles
    BY <1>2, OthersDoNotPublish
  <2>2. QED
    BY <2>1 DEF SlowPassIsComplete, OfKind
<1>3. QED
  BY <1>1, <1>2

-----------------------------------------------------------------------------

SerialInv ==
  /\ OrderInv /\ SeenInv /\ TextInv
  /\ StagedInv /\ StoredInv /\ ElisionInv /\ SlowPassIsComplete

(* The invariants that hold however cycles overlap.                        *)
Whole == TypeOK /\ ReadingsInv /\ StagedIsOneCycle /\ RestInv /\ PassInv

LEMMA SerialStep ==
  ASSUME OneEntryPerKey
  PROVE  Whole /\ Whole' /\ SerialInv /\ CyclesDoNotOverlap /\ CyclesDoNotOverlap' /\ [Next]_vars
           => SerialInv'
<1> SUFFICES ASSUME Whole, Whole', SerialInv, CyclesDoNotOverlap, CyclesDoNotOverlap', [Next]_vars
             PROVE  SerialInv'
  OBVIOUS
<1> USE DEF Whole, SerialInv
<1>0. Alone
  BY OthersRest
<1>1. OrderInv'
  BY <1>0, OrderStep
<1>2. SeenInv'
  BY <1>0, SeenStep
<1>3. TextInv'
  BY TextStep
<1>4. StagedInv'
  BY <1>0, StagedInvStep
<1>5. StoredInv'
  BY StoredStep
<1>6. ElisionInv'
  BY <1>0, ElisionStep
<1>7. SlowPassIsComplete'
  BY CompleteStep
<1>8. QED
  BY <1>1, <1>2, <1>3, <1>4, <1>5, <1>6, <1>7

LEMMA WholeHolds == Spec => []Whole
<1>1. Init => DeltaInv /\ LedgerInv /\ RestInv /\ PassInv
  BY DEF Init, NoJob, DeltaInv, ReadingsInv, Readings, AllRows, RestInv, PassInv, Locked,
         LedgerInv, StampsAreUnique, PublishedHasCycle, StagedIsOneCycle, Begun, Opened
<1>2. TypeOK /\ DeltaInv /\ LedgerInv /\ RestInv /\ PassInv => Whole
  BY DEF Whole, DeltaInv, LedgerInv
<1>3. TypeOK /\ RestInv /\ PassInv /\ [Next]_vars => RestInv' /\ PassInv'
  BY RestStep, PassStep
<1>4. QED
  BY <1>1, <1>2, <1>3, DeltaStep, LedgerStep, TypeCorrect, PTL DEF Spec

(* The inductive invariant of cycles that do not overlap: rows are stored  *)
(* in order, every staged row continues the newest stored one, and what    *)
(* was read is shown.                                                      *)
THEOREM SerialInvHolds ==
  ASSUME OneEntryPerKey
  PROVE  Spec /\ []CyclesDoNotOverlap => []SerialInv
<1>1. Init => SerialInv
  BY DEF Init, NoJob, SerialInv, OrderInv, SeenInv, Seen, TextInv, AllRows,
         StagedInv, StoredInv, AttrIsNeverForgotten, ElisionInv, Derives, SlowPassIsComplete,
         Begun, IsNewest
<1>2. Whole /\ Whole' /\ SerialInv /\ CyclesDoNotOverlap /\ CyclesDoNotOverlap' /\ [Next]_vars
        => SerialInv'
  BY SerialStep
<1>3. QED
  BY <1>1, <1>2, WholeHolds, PTL DEF Spec

(* The deltas repository.py stores for an object add up to its activity:   *)
(* each one is the activity since the row before it, whatever is reset and *)
(* however many unchanged rows were skipped or cycles failed in between.   *)
THEOREM DeltasTelescope ==
  ASSUME OneEntryPerKey
  PROVE  Spec /\ []CyclesDoNotOverlap => []DeltasAddUp
<1>1. SerialInv => DeltasAddUp
  BY DEF SerialInv, StoredInv, Follows, DeltasAddUp
<1>2. QED
  BY <1>1, SerialInvHolds, PTL

(* Where cycles do not overlap util.delta takes nothing for a reset that   *)
(* was none, so that the docstring of util.delta is true of them.          *)
THEOREM ResetsAreReal ==
  ASSUME OneEntryPerKey
  PROVE  Spec /\ []CyclesDoNotOverlap => []NoPhantomReset
<1>1. ASSUME TypeOK, SerialInv, InOrderDeltaIsHonest, NEW r \in samples,
             r.prev # NoRow, r.delta = r.raw, r.raw > 0
      PROVE  r.reset > r.prev.reset \/ r.prev.raw = 0
  <2>1. /\ r.raw \in Nat /\ r.reset \in Nat /\ r.grown \in Nat
        /\ r.prev.raw \in Nat /\ r.prev.reset \in Nat /\ r.prev.grown \in Nat
    BY <1>1 DEF TypeOK, Row, Origin
  <2>2. r.prev.obj = r.obj /\ ReadBefore(r.prev, r)
    BY <1>1 DEF SerialInv, StoredInv, Chained
  <2>3. CASE r.reset = r.prev.reset
    <3>1. r.delta = r.grown - r.prev.grown
      BY <1>1, <2>1, <2>2, <2>3 DEF InOrderDeltaIsHonest, HonestIfInOrder, HonestDelta, ReadBefore
    <3>2. QED
      BY <1>1, <2>1, <2>2, <2>3, <3>1 DEF ReadBefore
  <2>4. QED
    BY <2>1, <2>2, <2>3 DEF ReadBefore
<1>2. TypeOK /\ SerialInv /\ InOrderDeltaIsHonest => NoPhantomReset
  BY <1>1 DEF NoPhantomReset
<1>3. QED
  BY <1>2, TypeCorrect, SerialInvHolds, InOrderDeltasAreHonest, PTL

(* _is_changed stores no row of a table, an index or a statement twice.    *)
THEOREM RowsMeanChange ==
  ASSUME OneEntryPerKey
  PROVE  Spec /\ []CyclesDoNotOverlap => []NoRedundantRows
<1>1. SerialInv => NoRedundantRows
  BY DEF SerialInv, StoredInv, Follows, NoRedundantRows, Adjacent
<1>2. QED
  BY <1>1, SerialInvHolds, PTL

(* A size or a text's hash, once stored, is in every later row of the      *)
(* object, though most cycles do not read it.                              *)
THEOREM SizesAreRemembered ==
  ASSUME OneEntryPerKey
  PROVE  Spec /\ []CyclesDoNotOverlap => []AttrIsNeverForgotten
<1>1. SerialInv => AttrIsNeverForgotten
  BY DEF SerialInv, StoredInv
<1>2. QED
  BY <1>1, SerialInvHolds, PTL

(* collected_slow and collected_sizes in the cycle's record mean what they *)
(* say: a requested pass is missed only over budget, and after a pass with *)
(* sizes every table and index has a stored size.                          *)
THEOREM PassesAreComplete ==
  ASSUME OneEntryPerKey
  PROVE  Spec /\ []CyclesDoNotOverlap => []SlowPassIsComplete
<1>1. SerialInv => SlowPassIsComplete
  BY DEF SerialInv
<1>2. QED
  BY <1>1, SerialInvHolds, PTL

(* The rows insert_*_samples skips are those whose newest stored row       *)
(* already shows what the cycle read.                                      *)
LEMMA ShownAtCommit ==
  ASSUME OneEntryPerKey, TypeOK, StagedIsOneCycle, OrderInv, StagedInv, ElisionInv
  PROVE  ElisionIsLossless
<1> SUFFICES ASSUME NEW a \in Agents, pc[a] = "commit", NEW o \in Seen(a)
             PROVE  LET s == job[a].seen[o]
                        newest == Latest(samples \cup job[a].rows, KeyOf[o])
                    IN  /\ newest # {}
                        /\ \A r \in newest : r.raw = s.raw /\ (s.attr # Unknown => r.attr = s.attr)
  BY DEF ElisionIsLossless
<1> DEFINE rows == job[a].rows
           all == samples \cup rows
           s == job[a].seen[o]
           mine == {r \in all : KeyOf[r.obj] = KeyOf[o]}
<1>1. all \subseteq Row /\ o \in Objects
  BY DEF TypeOK, Job, Seen
<1>2. \A r \in all : r.at \in Nat /\ (KeyOf[r.obj] = KeyOf[o] <=> r.obj = o)
  BY <1>1 DEF Row, OneEntryPerKey
<1>3. Latest(all, KeyOf[o]) = {r \in mine : \A q \in mine : q.at <= r.at}
  BY DEF Latest
<1>4. \A p \in samples, r \in rows : p.at < r.at
  BY DEF OrderInv, Begun, StagedIsOneCycle
<1>5. ASSUME NEW n \in all, n.obj = o, Shows(n, s),
             \A q \in all : q.obj = o => q = n \/ q.at < n.at
      PROVE  /\ Latest(all, KeyOf[o]) # {}
             /\ \A r \in Latest(all, KeyOf[o]) :
                  r.raw = s.raw /\ (s.attr # Unknown => r.attr = s.attr)
  <2>1. n \in mine /\ \A q \in mine : q.obj = o
    BY <1>2, <1>5
  <2>2. \A q \in mine : q = n \/ q.at < n.at
    BY <1>5, <2>1
  <2>3. \A q \in mine : q.at \in Nat
    BY <1>2
  <2> HIDE DEF mine
  <2>4. \A r \in mine : (\A q \in mine : q.at <= r.at) <=> r = n
    BY <2>1, <2>2, <2>3
  <2>5. n \in Latest(all, KeyOf[o]) /\ \A r \in Latest(all, KeyOf[o]) : r = n
    BY <1>3, <2>1, <2>4
  <2>6. QED
    BY <1>5, <2>5 DEF Shows
<1>6. CASE \E r \in rows : r.obj = o /\ Shows(r, s)
  <2>1. PICK r \in rows : r.obj = o /\ Shows(r, s)
    BY <1>6
  <2>2. \A q \in all : q.obj = o => q = r \/ q.at < r.at
    BY <1>4, <2>1 DEF StagedIsOneCycle
  <2>3. QED
    BY <1>5, <2>1, <2>2
<1>7. CASE /\ \A r \in rows : r.obj # o
           /\ \E p \in samples : p.obj = o /\ IsNewest(p) /\ Shows(p, s)
  <2>1. PICK p \in samples : p.obj = o /\ IsNewest(p) /\ Shows(p, s)
    BY <1>7
  <2>2. ASSUME NEW q \in all, q.obj = o PROVE q = p \/ q.at < p.at
    <3>1. q \in samples /\ q.at <= p.at /\ q.at \in Nat /\ p.at \in Nat
      BY <1>2, <1>7, <2>1, <2>2 DEF IsNewest
    <3>2. q.at = p.at => q = p
      BY <2>1, <2>2, <3>1 DEF OrderInv
    <3>3. QED
      BY <3>1, <3>2
  <2>3. QED
    BY <1>5, <2>1, <2>2
<1>8. QED
  BY <1>6, <1>7 DEF ElisionInv, Derives

(* Skipping unchanged rows loses nothing: when a cycle is about to commit, *)
(* the newest row of everything it read shows the counter and the size it  *)
(* read.                                                                   *)
THEOREM NothingReadIsLost ==
  ASSUME OneEntryPerKey
  PROVE  Spec /\ []CyclesDoNotOverlap => []ElisionIsLossless
<1>1. Whole /\ SerialInv => ElisionIsLossless
  BY ShownAtCommit DEF Whole, SerialInv
<1>2. QED
  BY <1>1, WholeHolds, SerialInvHolds, PTL

-----------------------------------------------------------------------------
(* Passes and sizes, in any execution: cycles may overlap.                 *)

(* Only passes that reach the indexes have rows of them, only cycles with  *)
(* sizes measure, other sizes are copies of measured ones, and once rows   *)
(* are derived a complete pass with sizes leaves nothing unknown.          *)
Sound(a) ==
  /\ \A o \in Seen(a) :
       /\ Kind[o] = "index" => job[a].slowCollected
       /\ Kind[o] # "query" /\ job[a].seen[o].attr # Unknown => job[a].sizes
  /\ pc[a] \notin Derives => job[a].rows = {}
  /\ \A r \in job[a].rows :
       /\ r.obj \in Seen(a)
       /\ Kind[r.obj] # "query" /\ r.attr # Unknown =>
            job[a].sizes \/ IsMeasured(r.obj, r.attr)
  /\ pc[a] \in Derives /\ job[a].sizes /\ job[a].slowCollected =>
       \A o \in OfKind({"table", "index"}) :
         \E r \in samples \cup job[a].rows : r.obj = o /\ r.attr # Unknown

SoundInv ==
  /\ \A a \in Agents : Sound(a)
  /\ PassesAreRecorded /\ SizesAreMeasured

(* The row found for a database, a table or an index is its own.           *)
LEMMA LookupIsOwn ==
  ASSUME TypeOK, NEW prev \in Lookups, NEW o \in Objects, Kind[o] # "query",
         prev[KeyOf[o]] # NoRow
  PROVE  prev[KeyOf[o]] \in samples /\ prev[KeyOf[o]].obj = o
<1> DEFINE k == KeyOf[o]
<1>1. k \in Keys /\ prev[k] \in Latest(samples, k)
  BY DEF Keys, Lookups, Found
<1>2. prev[k] \in samples /\ KeyOf[prev[k].obj] = k
  BY <1>1 DEF Latest
<1>3. prev[k].obj \in Objects
  BY <1>2 DEF TypeOK, Row
<1>4. QED
  BY <1>2, <1>3, SamplesAssumption

LEMMA MeasuredForEver ==
  ASSUME cycles \subseteq cycles', samples \subseteq samples'
  PROVE  \A o, size : IsMeasured(o, size) => IsMeasured(o, size)'
  BY DEF IsMeasured

LEMMA SoundStays ==
  ASSUME NEW a \in Agents, Sound(a), job'[a] = job[a], pc'[a] = pc[a],
         cycles \subseteq cycles', samples \subseteq samples'
  PROVE  Sound(a)'
<1>1. Seen(a)' = Seen(a)
  BY DEF Seen
<1>2. \A o, size : IsMeasured(o, size) => IsMeasured(o, size)'
  BY MeasuredForEver
<1>3. OfKind({"table", "index"})' = OfKind({"table", "index"})
  BY DEF OfKind
<1>4. QED
  BY <1>1, <1>2, <1>3 DEF Sound

LEMMA SoundReaders ==
  ASSUME TypeOK, NEW a \in Agents, Sound(a), ReadsSource(a)
  PROVE  Sound(a)'
<1>1. /\ job'[a].rows = {} /\ pc'[a] \notin Derives /\ job'[a].sizes = job[a].sizes
  BY ReadersKeep DEF Sound, Derives, Locked
<1>2. PICK os, withAttr :
        /\ job'[a].seen = Read(job[a].seen, os, withAttr)
        /\ \A o \in os : Kind[o] # "query" /\ withAttr => job[a].sizes
        /\ \A o \in os : Kind[o] = "index" => job'[a].slowCollected
        /\ job[a].slowCollected => job'[a].slowCollected
  <2>1. CASE /\ job'[a].seen = Read(job[a].seen, OfKind({"database"}), job[a].sizes)
             /\ job'[a].slowCollected = job[a].slowCollected
    BY <2>1 DEF OfKind
  <2>2. CASE /\ job'[a].seen = Read(job[a].seen, Statements, Mode = "all")
             /\ job'[a].slowCollected = job[a].slowCollected
    BY <2>2 DEF OfKind, Statements
  <2>3. CASE /\ job'[a].seen = Read(job[a].seen, OfKind({"table"}), job[a].sizes)
             /\ job'[a].slowCollected = job[a].slowCollected
    BY <2>3 DEF OfKind
  <2>4. CASE /\ job'[a].seen = Read(job[a].seen, OfKind({"index"}), job[a].sizes)
             /\ job'[a].slowCollected = TRUE
    BY <2>4 DEF OfKind
  <2>5. QED
    BY <2>1, <2>2, <2>3, <2>4, ReadersSee
<1>3. ASSUME NEW o \in Objects, job'[a].seen[o] # NoRow
      PROVE  /\ Kind[o] = "index" => job'[a].slowCollected
             /\ Kind[o] # "query" /\ job'[a].seen[o].attr # Unknown => job'[a].sizes
  <2>1. CASE o \notin os
    <3>1. job'[a].seen[o] = job[a].seen[o]
      BY <1>2, <2>1, ReadAt
    <3>2. o \in Seen(a)
      BY <1>3, <3>1 DEF Seen
    <3>3. QED
      BY <1>1, <1>2, <3>1, <3>2 DEF Sound
  <2>2. CASE o \in os
    <3>1. job'[a].seen[o].attr = IF withAttr THEN source[o].attr ELSE Unknown
      BY <1>2, <2>2, ReadAt
    <3>2. QED
      BY <1>1, <1>2, <2>2, <3>1
  <2>3. QED
    BY <2>1, <2>2
<1>4. QED
  BY <1>1, <1>3 DEF Sound, Seen

LEMMA SoundWrites ==
  ASSUME TypeOK, PassInv, SizesAreMeasured, NEW a \in Agents, Sound(a), WriteSamples(a)
  PROVE  Sound(a)'
<1>1. PICK prev \in Lookups : job' = [job EXCEPT ![a].rows = Derived(a, prev)]
  BY DEF WriteSamples
<1>2. /\ job'[a].rows = Derived(a, prev) /\ job'[a].seen = job[a].seen
      /\ job'[a].sizes = job[a].sizes /\ job'[a].slowCollected = job[a].slowCollected
      /\ pc'[a] \in Derives /\ UNCHANGED <<samples, cycles>>
  <2>1. job'[a].rows = Derived(a, prev)
    BY <1>1 DEF TypeOK, Job
  <2>2. pc'[a] = "analyse"
    BY DEF WriteSamples, Goto, TypeOK
  <2>3. QED
    BY <2>1, <2>2, WorkKeeps DEF Derives
<1>3. Seen(a)' = Seen(a) /\ \A o, size : IsMeasured(o, size)' = IsMeasured(o, size)
  BY <1>2 DEF Seen, IsMeasured
<1>4. ASSUME NEW r \in Derived(a, prev)
      PROVE  /\ r.obj \in Seen(a)
             /\ Kind[r.obj] # "query" /\ r.attr # Unknown =>
                  job[a].sizes \/ IsMeasured(r.obj, r.attr)
  <2>1. PICK o \in Seen(a) :
          r = RowOf(o, job[a].at, job[a].seen[o], prev[KeyOf[o]], Mode = "all")
    BY DEF Derived
  <2>2. o \in Objects /\ r.obj = o /\ r.attr = CarriedAttr(job[a].seen[o], prev[KeyOf[o]])
    BY <2>1 DEF RowOf, Seen
  <2>3. ASSUME Kind[o] # "query", r.attr # Unknown, ~job[a].sizes
        PROVE  IsMeasured(o, r.attr)
    <3>1. job[a].seen[o].attr = Unknown
      BY <2>1, <2>3 DEF Sound
    <3>2. prev[KeyOf[o]] # NoRow /\ r.attr = prev[KeyOf[o]].attr
      BY <2>2, <2>3, <3>1 DEF CarriedAttr
    <3>3. prev[KeyOf[o]] \in samples /\ prev[KeyOf[o]].obj = o
      BY <2>2, <2>3, <3>2, LookupIsOwn
    <3>4. QED
      BY <2>3, <3>2, <3>3 DEF SizesAreMeasured
  <2>4. QED
    BY <2>2, <2>3
<1>5. ASSUME job[a].sizes, job[a].slowCollected, NEW o \in OfKind({"table", "index"})
      PROVE  \E r \in samples \cup Derived(a, prev) : r.obj = o /\ r.attr # Unknown
  <2> DEFINE s == job[a].seen[o]
             n == prev[KeyOf[o]]
             new == RowOf(o, job[a].at, s, n, Mode = "all")
  <2>1. o \in Objects /\ (Kind[o] = "table" \/ Kind[o] = "index")
    BY <1>5 DEF OfKind
  <2>2. o \in Seen(a) /\ s.attr # Unknown
    BY <1>5, <2>1 DEF PassInv, Measured, Seen
  <2>3. CarriedAttr(s, n) = s.attr
    BY <2>2 DEF CarriedAttr
  <2>4. CASE IsChanged(o, s, n)
    <3>1. new \in Derived(a, prev)
      BY <2>2, <2>4 DEF Derived
    <3>2. new.obj = o /\ new.attr = s.attr
      BY <2>3 DEF RowOf
    <3>3. QED
      BY <2>2, <3>1, <3>2
  <2>5. CASE ~IsChanged(o, s, n)
    <3>1. n # NoRow /\ n.attr = s.attr
      BY <2>1, <2>3, <2>5 DEF IsChanged
    <3>2. n \in samples /\ n.obj = o
      BY <2>1, <3>1, LookupIsOwn
    <3>3. QED
      BY <2>2, <3>1, <3>2
  <2>6. QED
    BY <2>4, <2>5
<1>6. OfKind({"table", "index"})' = OfKind({"table", "index"})
  BY DEF OfKind
<1>7. QED
  BY <1>2, <1>3, <1>4, <1>5, <1>6 DEF Sound

LEMMA SoundAnalyses ==
  ASSUME TypeOK, NEW a \in Agents, Sound(a), Analyse(a)
  PROVE  Sound(a)'
<1>1. /\ job'[a].seen = job[a].seen /\ job'[a].sizes = job[a].sizes
      /\ job'[a].slowCollected = job[a].slowCollected
      /\ pc[a] \in Derives /\ pc'[a] \in Derives /\ UNCHANGED <<samples, cycles>>
  BY WorkKeeps DEF Derives, Analyse, Goto, TypeOK
<1>2. Seen(a)' = Seen(a) /\ \A o, size : IsMeasured(o, size)' = IsMeasured(o, size)
  BY <1>1 DEF Seen, IsMeasured
<1>3. /\ \A r \in job'[a].rows : \E q \in job[a].rows : Retold(q, r)
      /\ \A q \in job[a].rows : \E r \in job'[a].rows : Retold(q, r)
  BY AnalyseRetells
<1>4. ASSUME NEW r \in job'[a].rows
      PROVE  /\ r.obj \in Seen(a)
             /\ Kind[r.obj] # "query" /\ r.attr # Unknown =>
                  job[a].sizes \/ IsMeasured(r.obj, r.attr)
  <2>1. PICK q \in job[a].rows : Retold(q, r)
    BY <1>3
  <2>2. r.obj = q.obj /\ (Kind[q.obj] # "query" => r.attr = q.attr)
    BY <2>1 DEF Retold
  <2>3. QED
    BY <2>2 DEF Sound
<1>5. ASSUME job[a].sizes, job[a].slowCollected, NEW o \in OfKind({"table", "index"})
      PROVE  \E r \in samples \cup job'[a].rows : r.obj = o /\ r.attr # Unknown
  <2>1. PICK q \in samples \cup job[a].rows : q.obj = o /\ q.attr # Unknown
    BY <1>1, <1>5 DEF Sound
  <2>2. CASE q \in job[a].rows
    <3>1. PICK r \in job'[a].rows : Retold(q, r)
      BY <1>3, <2>2
    <3>2. r.obj = o /\ r.attr # Unknown
      BY <2>1, <3>1 DEF Retold
    <3>3. QED
      BY <3>1, <3>2
  <2>3. QED
    BY <2>1, <2>2
<1>6. OfKind({"table", "index"})' = OfKind({"table", "index"})
  BY DEF OfKind
<1>7. QED
  BY <1>1, <1>2, <1>4, <1>5, <1>6 DEF Sound

LEMMA SoundCommits ==
  ASSUME TypeOK, PassInv, StagedIsOneCycle, SoundInv, NEW a \in Agents, Commit(a)
  PROVE  /\ PassesAreRecorded' /\ SizesAreMeasured'
         /\ cycles \subseteq cycles' /\ samples \subseteq samples'
<1> DEFINE j == job[a]
           c == CycleOf(j)
<1>1. /\ samples' = samples \cup j.rows /\ cycles' = cycles \cup {c} /\ pc[a] = "commit"
  BY DEF Commit, Goto
<1>2. /\ c.at = j.at /\ c.slow = j.slow /\ c.sizes = j.sizes /\ c.over = j.over
      /\ c.slowCollected = j.slowCollected /\ c.stored = {r.obj : r \in j.rows}
      /\ c.sizesCollected => j.slowCollected /\ j.sizes
  BY DEF CycleOf
<1>3. Sound(a)
  BY DEF SoundInv
<1>4. (j.slow \/ j.sizes) /\ ~j.over => j.slowCollected
  BY <1>1 DEF PassInv, Locked
<1>5. c.stored \cap OfKind({"index"}) # {} => j.slowCollected
  BY <1>2, <1>3 DEF Sound, OfKind
<1>6. ASSUME j.slowCollected, j.sizes, NEW o \in OfKind({"table", "index"})
      PROVE  \E r \in samples' : r.obj = o /\ r.attr # Unknown
  BY <1>1, <1>3, <1>6 DEF Sound, Derives
<1>7. ASSUME NEW d \in cycles'
      PROVE  /\ (d.slow \/ d.sizes) /\ ~d.over => d.slowCollected
             /\ d.stored \cap OfKind({"index"}) # {} => d.slowCollected
             /\ d.sizesCollected =>
                  \A o \in OfKind({"table", "index"}) :
                    \E r \in samples' : r.obj = o /\ r.attr # Unknown
  <2>1. CASE d \in cycles
    BY <1>1, <2>1 DEF SoundInv, PassesAreRecorded
  <2>2. CASE d = c
    BY <1>2, <1>4, <1>5, <1>6, <2>2
  <2>3. QED
    BY <1>1, <2>1, <2>2
<1>8. PassesAreRecorded'
  BY <1>7 DEF PassesAreRecorded, OfKind
<1>9. ASSUME NEW r \in samples', Kind[r.obj] # "query", r.attr # Unknown
      PROVE  IsMeasured(r.obj, r.attr)'
  <2>1. CASE IsMeasured(r.obj, r.attr)
    BY <1>1, <2>1 DEF IsMeasured
  <2>2. CASE r \in j.rows /\ j.sizes
    <3>1. r.at = c.at /\ c.sizes /\ c \in cycles' /\ r \in samples'
      BY <1>1, <1>2, <2>2 DEF StagedIsOneCycle
    <3> HIDE DEF c
    <3>2. QED
      BY <3>1 DEF IsMeasured
  <2>3. QED
    BY <1>1, <1>3, <1>9, <2>1, <2>2 DEF Sound, SoundInv, SizesAreMeasured
<1>10. SizesAreMeasured'
  BY <1>9 DEF SizesAreMeasured
<1>11. QED
  BY <1>1, <1>8, <1>10

LEMMA SoundStep ==
  ASSUME Whole, SoundInv, [Next]_vars
  PROVE  SoundInv'
<1> USE DEF Whole
<1>1. PassesAreRecorded' /\ SizesAreMeasured' /\ cycles \subseteq cycles' /\ samples \subseteq samples'
  <2>1. CASE \E a \in Agents : Commit(a)
    BY <2>1, SoundCommits
  <2>2. CASE \A a \in Agents : ~Commit(a)
    <3>1. samples' = samples /\ cycles' = cycles
      BY <2>2, OthersDoNotPublish
    <3>2. QED
      BY <3>1 DEF SoundInv, PassesAreRecorded, SizesAreMeasured, IsMeasured, OfKind
  <2>3. QED
    BY <2>1, <2>2
<1>2. ASSUME NEW a \in Agents, Moves(a) PROVE Sound(a)'
  <2>1. Sound(a) /\ SizesAreMeasured
    BY DEF SoundInv
  <2>2. CASE Begin(a) \/ Commit(a) \/ Abort(a)
    <3>1. /\ job'[a].rows = {} /\ \A o \in Objects : job'[a].seen[o] = NoRow
          /\ pc'[a] \notin Derives
      BY <2>2, StartsOver DEF Derives
    <3>2. QED
      BY <3>1 DEF Sound, Seen
  <2>3. CASE ReadsSource(a)
    BY <2>1, <2>3, SoundReaders
  <2>4. CASE OpenTransaction(a) \/ EnsureInstance(a) \/ PersistEvents(a)
    <3>1. /\ job'[a].rows = job[a].rows /\ job'[a].seen = job[a].seen
          /\ job'[a].sizes = job[a].sizes /\ job'[a].slowCollected = job[a].slowCollected
          /\ UNCHANGED <<samples, cycles>>
          /\ pc'[a] \in Derives <=> pc[a] \in Derives
      BY <2>4, BookkeepingKeeps DEF Derives
    <3>2. /\ Seen(a)' = Seen(a) /\ \A o, size : IsMeasured(o, size)' = IsMeasured(o, size)
          /\ OfKind({"table", "index"})' = OfKind({"table", "index"})
      BY <3>1 DEF Seen, IsMeasured, OfKind
    <3>3. QED
      BY <2>1, <3>1, <3>2 DEF Sound
  <2>5. CASE WriteSamples(a)
    BY <2>1, <2>5, SoundWrites
  <2>6. CASE Analyse(a)
    BY <2>1, <2>6, SoundAnalyses
  <2>7. QED
    BY <1>2, <2>2, <2>3, <2>4, <2>5, <2>6 DEF Moves, Step, ReadsSource
<1>3. CASE \E a \in Agents : Moves(a)
  <2>1. PICK a \in Agents : Moves(a)
    BY <1>3
  <2>2. ASSUME NEW b \in Agents \ {a} PROVE Sound(b)'
    BY <1>1, <2>1, OthersStay, SoundStays DEF SoundInv
  <2>3. \A b \in Agents : Sound(b)'
    BY <1>2, <2>1, <2>2
  <2>4. QED
    BY <1>1, <2>3 DEF SoundInv
<1>4. CASE UNCHANGED <<pc, job>>
  <2>1. \A b \in Agents : Sound(b)'
    BY <1>1, <1>4, SoundStays DEF SoundInv
  <2>2. QED
    BY <1>1, <2>1 DEF SoundInv
<1>5. QED
  BY <1>3, <1>4
  DEF Next, Moves, Environment, Activity, Reset, ResetDatabase, ResetObject, Resize,
      Repository, vars

LEMMA SoundInvHolds == Spec => []SoundInv
<1>1. Init => SoundInv
  BY DEF Init, NoJob, SoundInv, Sound, Seen, Derives, PassesAreRecorded, SizesAreMeasured
<1>2. Whole /\ SoundInv /\ [Next]_vars => SoundInv'
  BY SoundStep
<1>3. QED
  BY <1>1, <1>2, WholeHolds, PTL DEF Spec

(* Whatever agents overlap, collected_slow and collected_sizes mean what   *)
(* they say: no requested pass is missed within the budget, index rows     *)
(* come from complete passes, and after a pass with sizes every table and  *)
(* index has a row with its size.                                          *)
THEOREM PassesMeanWhatTheySay == Spec => []PassesAreRecorded
<1>1. SoundInv => PassesAreRecorded
  BY DEF SoundInv
<1>2. QED
  BY <1>1, SoundInvHolds, PTL

(* Whatever agents overlap, every size insert_*_samples copies from        *)
(* row to row was once measured and stored by a cycle with sizes.          *)
THEOREM SizesHaveASource == Spec => []SizesAreMeasured
<1>1. SoundInv => SizesAreMeasured
  BY DEF SoundInv
<1>2. QED
  BY <1>1, SoundInvHolds, PTL

-----------------------------------------------------------------------------
(* Collector's cycles are those of CollectOnce.tla.                        *)

(* Objects are being read because that was wanted, within the budget.      *)
WithinBudget ==
  \A a \in Agents :
    pc[a] \in {"tables", "indexes"} => (job[a].slow \/ job[a].sizes) /\ ~job[a].over

LEMMA AgentsMove ==
  ASSUME [Next]_vars
  PROVE  (\E a \in Agents : Moves(a)) \/ UNCHANGED <<pc, job>>
<1>1. CASE Environment
  BY <1>1, Zenon DEF Environment, Activity, Reset, ResetDatabase, ResetObject, Resize
<1>2. CASE UNCHANGED vars
  BY <1>2 DEF vars, Repository
<1> QED
  BY <1>1, <1>2, Zenon DEF Next, Moves

LEMMA BudgetStep == ASSUME TypeOK, WithinBudget, [Next]_vars PROVE WithinBudget'
<1> DEFINE Within(b) ==
      pc[b] \in {"tables", "indexes"} => (job[b].slow \/ job[b].sizes) /\ ~job[b].over
<1>1. ASSUME NEW b \in Agents, job'[b] = job[b], pc'[b] = pc[b] PROVE Within(b)'
  BY <1>1 DEF WithinBudget
<1>2. ASSUME NEW a \in Agents, Begin(a) \/ Commit(a) \/ Abort(a) PROVE Within(a)'
  BY <1>2, StartsOver
<1>3. ASSUME NEW a \in Agents, OpenTransaction(a) \/ EnsureInstance(a) \/ PersistEvents(a)
      PROVE  Within(a)'
  BY <1>3, BookkeepingKeeps
<1>4. ASSUME NEW a \in Agents, WriteSamples(a) \/ Analyse(a) PROVE Within(a)'
  BY <1>4, WorkKeeps
<1>5. ASSUME NEW a \in Agents, ReadsSource(a) PROVE Within(a)'
  <2>1. job'[a].slow = job[a].slow /\ job'[a].sizes = job[a].sizes
    BY <1>5, ReadersKeep
  <2>2. CASE pc'[a] \in {"statements", "instance"}
    BY <2>2
  <2>3. CASE pc'[a] = IF ObjectsWanted(job[a], job'[a].over) THEN "tables" ELSE "instance"
    BY <2>1, <2>3 DEF ObjectsWanted
  <2>4. CASE pc[a] = "tables" /\ pc'[a] = IF job'[a].over THEN "instance" ELSE "indexes"
    BY <2>1, <2>4 DEF WithinBudget
  <2> QED
    BY <1>5, <2>2, <2>3, <2>4, ReadersSee
<1>6. CASE UNCHANGED <<pc, job>>
  BY <1>1, <1>6 DEF WithinBudget
<1>7. CASE \E a \in Agents : Moves(a)
  <2>1. PICK a \in Agents : Moves(a)
    BY <1>7
  <2>2. Within(a)'
    BY <1>2, <1>3, <1>4, <1>5, <2>1 DEF Moves, Step, ReadsSource
  <2>3. \A b \in Agents : Within(b)'
    BY <1>1, <2>1, <2>2, OthersStay
  <2> QED
    BY <2>3 DEF WithinBudget
<1> QED
  BY <1>6, <1>7, AgentsMove

(* The readers move on, and a budget once exceeded stays exceeded.         *)
LEMMA ReadersSpend ==
  ASSUME TypeOK, NEW a \in Agents, ReadsSource(a)
  PROVE  /\ job[a].over => job'[a].over
         /\ pc[a] \notin Locked \cup {"idle"} /\ pc'[a] \notin Locked \cup {"idle"}
         /\ \/ job'[a].slowCollected = job[a].slowCollected
            \/ pc[a] = "indexes" /\ job'[a].slowCollected = TRUE
<1>1. a \in DOMAIN job /\ job[a] \in Job
  BY DEF TypeOK
<1>2. job[a].over \in BOOLEAN
  BY <1>1 DEF Job
<1>3. job[a].over => job'[a].over
  <2>1. CASE ReadDatabase(a)
    <3>1. job'[a].over = job[a].over
      BY <1>1, <2>1 DEF ReadDatabase, Job
    <3> QED
      BY <3>1
  <2>2. CASE ReadStatements(a)
    <3>1. PICK over, seen :
            /\ over \in Spend(job[a].over)
            /\ job' = [job EXCEPT ![a].seen = seen, ![a].over = over]
      BY <2>2, Zenon DEF ReadStatements
    <3>2. over \in BOOLEAN /\ (job[a].over => over)
      <4>1. over \in Spend(job[a].over) \cup {job[a].over}
        BY <3>1
      <4> QED
        BY <1>2, <4>1, SpendTyped, SpendGrows, Zenon
    <3>3. job'[a].over = over
      BY <1>1, <3>1, <3>2 DEF Job
    <3> QED
      BY <3>2, <3>3
  <2>3. CASE ReadTables(a)
    <3>1. PICK over, seen :
            /\ over \in Spend(job[a].over)
            /\ job' = [job EXCEPT ![a].seen = seen, ![a].over = over]
      BY <2>3, Zenon DEF ReadTables
    <3>2. over \in BOOLEAN /\ (job[a].over => over)
      <4>1. over \in Spend(job[a].over) \cup {job[a].over}
        BY <3>1
      <4> QED
        BY <1>2, <4>1, SpendTyped, SpendGrows, Zenon
    <3>3. job'[a].over = over
      BY <1>1, <3>1, <3>2 DEF Job
    <3> QED
      BY <3>2, <3>3
  <2>4. CASE ReadIndexes(a)
    <3>1. PICK over, seen :
            /\ over \in Spend(job[a].over)
            /\ job' = [job EXCEPT ![a].seen = seen, ![a].over = over, ![a].slowCollected = TRUE]
      BY <2>4, Zenon DEF ReadIndexes
    <3>2. over \in BOOLEAN /\ (job[a].over => over)
      <4>1. over \in Spend(job[a].over) \cup {job[a].over}
        BY <3>1
      <4> QED
        BY <1>2, <4>1, SpendTyped, SpendGrows, Zenon
    <3>3. job'[a].over = over
      BY <1>1, <3>1, <3>2 DEF Job
    <3> QED
      BY <3>2, <3>3
  <2> QED
    BY <2>1, <2>2, <2>3, <2>4 DEF ReadsSource
<1>4. pc[a] \notin Locked \cup {"idle"} /\ pc'[a] \notin Locked \cup {"idle"}
  BY ReadersSee DEF Locked
<1>5. \/ job'[a].slowCollected = job[a].slowCollected
      \/ pc[a] = "indexes" /\ job'[a].slowCollected = TRUE
  BY ReadersSee
<1> QED
  BY <1>3, <1>4, <1>5

(* The stage each step is in.                                              *)
LEMMA StageIs ==
  /\ StageOf("idle") = "idle"
  /\ \A label \in {"connect", "database", "statements"} : StageOf(label) = "fast"
  /\ \A label \in {"tables", "indexes"} : StageOf(label) = "objects"
  /\ StageOf("instance") = "ready"
  /\ \A label \in Locked : StageOf(label) = "writing"
  /\ \A label \in Labels : StageOf(label) = "idle" <=> label = "idle"
  /\ \A label \in Labels : StageOf(label) = "writing" <=> label \in Locked
  BY DEF StageOf, Locked, Labels

(* What one agent's step does to the mapped variables.                     *)
LEMMA OnceOfMover ==
  ASSUME TypeOK, NEW a \in Agents, Moves(a)
  PROVE  /\ Stages' = [Stages EXCEPT ![a] = StageOf(pc'[a])]
         /\ Wanted' = [Wanted EXCEPT ![a] = (job[a].slow \/ job[a].sizes)']
         /\ Over' = [Over EXCEPT ![a] = job'[a].over]
         /\ Collected' = [Collected EXCEPT ![a] = job'[a].slowCollected]
<1>1. \A b \in Agents \ {a} : job'[b] = job[b] /\ pc'[b] = pc[b]
  BY OthersStay
<1>2. Stages' = [Stages EXCEPT ![a] = StageOf(pc'[a])]
  BY <1>1 DEF Stages
<1>3. Wanted' = [Wanted EXCEPT ![a] = (job[a].slow \/ job[a].sizes)']
  BY <1>1, Zenon DEF Wanted
<1>4. Over' = [Over EXCEPT ![a] = job'[a].over]
  BY <1>1 DEF Over
<1>5. Collected' = [Collected EXCEPT ![a] = job'[a].slowCollected]
  BY <1>1 DEF Collected
<1> QED
  BY <1>2, <1>3, <1>4, <1>5

(* Whatever leaves a job's flags alone and stays in its stage.             *)
LEMMA OnceStutters ==
  ASSUME TypeOK, NEW a \in Agents, Moves(a), StageOf(pc'[a]) = StageOf(pc[a]),
         job'[a].slow = job[a].slow, job'[a].sizes = job[a].sizes,
         job'[a].over = job[a].over, job'[a].slowCollected = job[a].slowCollected
  PROVE  UNCHANGED OnceOfCycles!once
<1>1. UNCHANGED Stages
  BY OnceOfMover DEF Stages
<1>2. UNCHANGED Wanted
  <2>1. \A b \in Agents : job'[b].slow = job[b].slow /\ job'[b].sizes = job[b].sizes
    BY OthersStay
  <2> QED
    BY <2>1 DEF Wanted
<1>3. UNCHANGED Over
  BY OnceOfMover DEF Over
<1>4. UNCHANGED Collected
  BY OnceOfMover DEF Collected
<1> QED
  BY <1>1, <1>2, <1>3, <1>4 DEF OnceOfCycles!once

LEMMA OnceWanted ==
  ASSUME TypeOK, NEW a \in Agents, Moves(a),
         job'[a].slow = job[a].slow, job'[a].sizes = job[a].sizes
  PROVE  UNCHANGED Wanted
<1>1. \A b \in Agents : job'[b].slow = job[b].slow /\ job'[b].sizes = job[b].sizes
  BY OthersStay
<1> QED
  BY <1>1 DEF Wanted

LEMMA OnceBegins ==
  ASSUME TypeOK, RestInv, NEW a \in Agents, Begin(a)
  PROVE  OnceOfCycles!Begin(a)
<1>1. Moves(a)
  BY DEF Moves
<1>2. PICK q \in Requests :
        job' = [job EXCEPT ![a] = [NoJob EXCEPT !.at = clock + 1,
                                                !.slow = q.slow, !.sizes = q.sizes]]
  BY Zenon DEF Begin
<1>3. pc[a] = "idle" /\ pc'[a] = "connect"
  BY DEF Begin, Goto, TypeOK
<1>4. job[a] = NoJob
  BY <1>3 DEF RestInv, Begun
<1>5. job'[a].over = job[a].over /\ job'[a].slowCollected = job[a].slowCollected
  BY <1>2, <1>4 DEF NoJob, TypeOK
<1>6. Stages[a] = "idle" /\ Stages' = [Stages EXCEPT ![a] = "fast"]
  BY <1>1, <1>3, OnceOfMover, StageIs DEF Stages, Locked
<1>7. \E w \in BOOLEAN : Wanted' = [Wanted EXCEPT ![a] = w]
  <2>1. (job[a].slow \/ job[a].sizes)' \in BOOLEAN
    OBVIOUS
  <2> QED
    BY <1>1, <2>1, OnceOfMover, Zenon
<1>8. Over' = Over /\ Collected' = Collected
  BY <1>1, <1>5, OnceOfMover DEF Over, Collected
<1> QED
  BY <1>6, <1>7, <1>8 DEF OnceOfCycles!Begin

LEMMA OnceReads ==
  ASSUME TypeOK, WithinBudget, PassInv, NEW a \in Agents, ReadsSource(a)
  PROVE  OnceOfCycles!ReadFast(a) \/ OnceOfCycles!ReadObjects(a)
<1>1. Moves(a)
  BY DEF Moves, Step, ReadsSource
<1>2. Stages[a] = StageOf(pc[a]) /\ Stages' = [Stages EXCEPT ![a] = StageOf(pc'[a])]
  BY <1>1, OnceOfMover DEF Stages
<1>3. Wanted' = Wanted
  BY <1>1, ReadersKeep, OnceWanted
<1>4. Over[a] = job[a].over /\ job[a].over \in BOOLEAN /\ job'[a].over \in BOOLEAN
  <2>1. [Next]_vars
    BY <1>1, Zenon DEF Moves, Next
  <2>2. TypeOK'
    BY <2>1, TypeStep
  <2> QED
    BY <2>2 DEF Over, TypeOK, Job
<1>5. Over' = [Over EXCEPT ![a] = job'[a].over]
  BY <1>1, OnceOfMover
<1>6. ASSUME pc[a] \in {"database", "statements"}, job'[a].slowCollected = job[a].slowCollected,
             NEW p \in {"fast", IF Wanted[a] /\ ~job'[a].over THEN "objects" ELSE "ready"},
             StageOf(pc'[a]) = p
      PROVE  OnceOfCycles!ReadFast(a)
  <2>1. Stages[a] = "fast"
    BY <1>2, <1>6, StageIs
  <2>2. Collected' = Collected
    BY <1>1, <1>6, OnceOfMover DEF Collected
  <2>3. job'[a].over \in {Over[a], TRUE}
    BY <1>4, ReadersSpend
  <2> QED
    BY <1>2, <1>3, <1>5, <1>6, <2>1, <2>2, <2>3, Zenon DEF OnceOfCycles!ReadFast
<1>7. ASSUME pc[a] \in {"tables", "indexes"}, NEW all \in BOOLEAN, job'[a].slowCollected = all,
             StageOf(pc'[a]) = IF job'[a].over \/ all THEN "ready" ELSE "objects"
      PROVE  OnceOfCycles!ReadObjects(a)
  <2>1. Stages[a] = "objects"
    BY <1>2, <1>7, StageIs
  <2>2. Wanted[a] /\ ~Over[a]
    BY <1>7, Zenon DEF WithinBudget, Wanted, Over
  <2>3. Collected' = [Collected EXCEPT ![a] = all]
    BY <1>1, <1>7, OnceOfMover
  <2>4. Stages' = [Stages EXCEPT ![a] = IF job'[a].over \/ all THEN "ready" ELSE "objects"]
    BY <1>2, <1>7
  <2> QED
    BY <1>3, <1>4, <1>5, <2>1, <2>2, <2>3, <2>4, Zenon DEF OnceOfCycles!ReadObjects
<1>8. CASE pc[a] = "database"
  <2>1. pc'[a] = "statements" /\ job'[a].slowCollected = job[a].slowCollected
    BY <1>8, ReadersSee
  <2>2. StageOf(pc'[a]) = "fast"
    BY <2>1, StageIs
  <2> QED
    BY <1>6, <1>8, <2>1, <2>2
<1>9. CASE pc[a] = "statements"
  <2>1. /\ pc'[a] = IF ObjectsWanted(job[a], job'[a].over) THEN "tables" ELSE "instance"
        /\ job'[a].slowCollected = job[a].slowCollected
    BY <1>9, ReadersSee
  <2>2. Wanted[a] /\ ~job'[a].over <=> ObjectsWanted(job[a], job'[a].over)
    BY Zenon DEF Wanted, ObjectsWanted
  <2>3. StageOf(pc'[a]) = IF Wanted[a] /\ ~job'[a].over THEN "objects" ELSE "ready"
    BY <2>1, <2>2, StageIs
  <2> QED
    BY <1>6, <1>9, <2>1, <2>3
<1>10. CASE pc[a] = "tables"
  <2>1. /\ pc'[a] = IF job'[a].over THEN "instance" ELSE "indexes"
        /\ job'[a].slowCollected = job[a].slowCollected
    BY <1>10, ReadersSee
  <2>2. job'[a].slowCollected = FALSE
    BY <1>10, <2>1 DEF PassInv, TypeOK, Job
  <2>3. StageOf(pc'[a]) = IF job'[a].over \/ FALSE THEN "ready" ELSE "objects"
    BY <2>1, StageIs
  <2> QED
    BY <1>7, <1>10, <2>2, <2>3
<1>11. CASE pc[a] = "indexes"
  <2>1. pc'[a] = "instance" /\ job'[a].slowCollected = TRUE
    BY <1>11, ReadersSee
  <2>2. StageOf(pc'[a]) = IF job'[a].over \/ TRUE THEN "ready" ELSE "objects"
    BY <2>1, StageIs
  <2> QED
    BY <1>7, <1>11, <2>1, <2>2
<1> QED
  BY <1>8, <1>9, <1>10, <1>11, ReadersSee

LEMMA OnceWrites ==
  ASSUME TypeOK, HolderIsTheWriter, NEW a \in Agents, EnsureInstance(a)
  PROVE  OnceOfCycles!Write(a)
<1>1. Moves(a)
  BY DEF Moves, Step
<1>2. pc[a] = "instance" /\ pc'[a] = "write" /\ holder = Nobody
  BY DEF EnsureInstance, InstanceFree, Goto, TypeOK
<1>3. Stages[a] = "ready" /\ Stages' = [Stages EXCEPT ![a] = "writing"]
  BY <1>1, <1>2, OnceOfMover, StageIs DEF Stages, Locked
<1>4. ASSUME NEW b \in Agents PROVE Stages[b] # "writing"
  <2>1. pc[b] \notin Locked
    BY <1>2, CollectorAssumption DEF HolderIsTheWriter
  <2> QED
    BY <2>1, StageIs DEF Stages, TypeOK
<1>5. Wanted' = Wanted
  BY <1>1, BookkeepingKeeps, OnceWanted
<1>6. Over' = Over /\ Collected' = Collected
  BY <1>1, BookkeepingKeeps, OnceOfMover DEF Over, Collected
<1> QED
  BY <1>3, <1>4, <1>5, <1>6 DEF OnceOfCycles!Write

LEMMA OnceFetches ==
  ASSUME TypeOK, NEW a \in Agents, Analyse(a)
  PROVE  OnceOfCycles!FetchTexts(a) \/ UNCHANGED OnceOfCycles!once
<1>1. Moves(a)
  BY DEF Moves, Step
<1>2. pc[a] = "analyse" /\ pc'[a] = "persist"
  <2>1. pc[a] = "analyse"
    BY Zenon DEF Analyse, Goto
  <2> QED
    BY <2>1, WorkKeeps
<1>3. Stages[a] = "writing" /\ StageOf(pc'[a]) = StageOf(pc[a])
  BY <1>2, StageIs DEF Stages, Locked
<1>4. Over[a] = job[a].over /\ job[a].over \in BOOLEAN /\ job'[a].over \in BOOLEAN
  <2>1. [Next]_vars
    BY <1>1, Zenon DEF Moves, Next
  <2>2. TypeOK'
    BY <2>1, TypeStep
  <2> QED
    BY <2>2 DEF Over, TypeOK, Job
<1>5. CASE job'[a].over = job[a].over
  BY <1>1, <1>3, <1>5, WorkKeeps, OnceStutters
<1>6. CASE ~job[a].over /\ job'[a].over
  <2>1. Stages' = Stages
    BY <1>1, <1>3, OnceOfMover DEF Stages
  <2>2. Wanted' = Wanted
    BY <1>1, WorkKeeps, OnceWanted
  <2>3. Collected' = Collected
    <3>1. job'[a].slowCollected = job[a].slowCollected
      BY WorkKeeps
    <3> QED
      BY <1>1, <3>1, OnceOfMover DEF Collected
  <2>4. ~Over[a] /\ Over' = [Over EXCEPT ![a] = TRUE]
    BY <1>1, <1>4, <1>6, OnceOfMover
  <2> QED
    BY <1>3, <2>1, <2>2, <2>3, <2>4 DEF OnceOfCycles!FetchTexts
<1> QED
  BY <1>4, <1>5, <1>6, WorkKeeps

LEMMA OnceEnds ==
  ASSUME TypeOK, NEW a \in Agents, Commit(a) \/ Abort(a)
  PROVE  OnceOfCycles!End(a)
<1>1. Moves(a)
  BY DEF Moves, Step
<1>2. pc[a] # "idle" /\ pc'[a] = "idle" /\ job'[a] = NoJob
  BY DEF Commit, Abort, Goto, TypeOK
<1>3. Stages[a] # "idle" /\ Stages' = [Stages EXCEPT ![a] = "idle"]
  BY <1>1, <1>2, OnceOfMover, StageIs DEF Stages, TypeOK
<1>4. /\ Wanted' = [Wanted EXCEPT ![a] = FALSE]
      /\ Over' = [Over EXCEPT ![a] = FALSE]
      /\ Collected' = [Collected EXCEPT ![a] = FALSE]
  <2>1. (job[a].slow \/ job[a].sizes)' = FALSE /\ job'[a].over = FALSE
        /\ job'[a].slowCollected = FALSE
    BY <1>2 DEF NoJob
  <2> QED
    BY <1>1, <2>1, OnceOfMover
<1> QED
  BY <1>3, <1>4 DEF OnceOfCycles!End

(* Every step is one of collect_once's, or leaves what it tells alone.     *)
LEMMA OnceStep ==
  ASSUME TypeOK, RestInv, PassInv, WithinBudget, HolderIsTheWriter, [Next]_vars
  PROVE  [OnceOfCycles!OnceNext]_(OnceOfCycles!once)
<1>1. CASE UNCHANGED <<pc, job>>
  <2>1. \A b \in Agents : StageOf(pc'[b]) = StageOf(pc[b])
    BY <1>1, StageIs
  <2>2. UNCHANGED <<Stages, Wanted, Over, Collected>>
    BY <1>1, <2>1 DEF Stages, Wanted, Over, Collected
  <2> QED
    BY <2>2 DEF OnceOfCycles!once
<1>2. ASSUME NEW a \in Agents, OpenTransaction(a) \/ WriteSamples(a) \/ PersistEvents(a)
      PROVE  UNCHANGED OnceOfCycles!once
  <2>1. StageOf(pc'[a]) = StageOf(pc[a])
    <3>1. \/ pc[a] = "connect" /\ pc'[a] = "database"
          \/ pc[a] = "write" /\ pc'[a] = "analyse"
          \/ pc[a] = "persist" /\ pc'[a] = "commit"
      BY <1>2, Zenon DEF OpenTransaction, WriteSamples, PersistEvents, Goto, TypeOK
    <3> QED
      BY <3>1, StageIs DEF Locked
  <2>2. /\ job'[a].slow = job[a].slow /\ job'[a].sizes = job[a].sizes
        /\ job'[a].over = job[a].over /\ job'[a].slowCollected = job[a].slowCollected
    <3>1. CASE WriteSamples(a)
      <4>1. PICK rows : job' = [job EXCEPT ![a].rows = rows]
        BY <3>1 DEF WriteSamples
      <4> QED
        BY <4>1 DEF TypeOK, Job
    <3> QED
      BY <1>2, <3>1, BookkeepingKeeps
  <2> QED
    BY <1>2, <2>1, <2>2, OnceStutters DEF Moves, Step
<1>3. ASSUME NEW a \in Agents, Moves(a) PROVE [OnceOfCycles!OnceNext]_(OnceOfCycles!once)
  <2>1. \/ OnceOfCycles!Begin(a) \/ OnceOfCycles!ReadFast(a) \/ OnceOfCycles!ReadObjects(a)
        \/ OnceOfCycles!Write(a) \/ OnceOfCycles!FetchTexts(a) \/ OnceOfCycles!End(a)
        \/ UNCHANGED OnceOfCycles!once
    BY <1>2, <1>3, OnceBegins, OnceReads, OnceWrites, OnceFetches, OnceEnds, Zenon
    DEF Moves, Step, ReadsSource
  <2> QED
    BY <2>1, Zenon DEF OnceOfCycles!OnceNext
<1> QED
  BY <1>1, <1>3, AgentsMove

(* Whatever agents overlap, reset or fail, each cycle is one of            *)
(* collect_once's: objects are read if that is wanted and only within the  *)
(* budget, are given up only beyond it, and one cycle writes at a time.    *)
THEOREM CyclesCollectOnce == Spec => CollectsOnce
<1>1. Init => OnceOfCycles!OnceInit /\ WithinBudget
  <2> SUFFICES ASSUME Init PROVE OnceOfCycles!OnceInit /\ WithinBudget
    OBVIOUS
  <2>1. \A a \in Agents : StageOf(pc[a]) = "idle" /\ pc[a] = "idle"
    BY StageIs DEF Init
  <2>2. \A a \in Agents : /\ (job[a].slow \/ job[a].sizes) = FALSE
                          /\ job[a].over = FALSE /\ job[a].slowCollected = FALSE
    BY DEF Init, NoJob
  <2> QED
    BY <2>1, <2>2 DEF OnceOfCycles!OnceInit, WithinBudget, Stages, Wanted, Over, Collected
<1>2. TypeOK /\ WithinBudget /\ [Next]_vars => WithinBudget'
  BY BudgetStep
<1>3. Whole => TypeOK /\ RestInv /\ PassInv
  BY DEF Whole
<1>4. SpacingInv => HolderIsTheWriter
  BY DEF SpacingInv
<1>5. TypeOK /\ RestInv /\ PassInv /\ WithinBudget /\ HolderIsTheWriter /\ [Next]_vars
        => [OnceOfCycles!OnceNext]_(OnceOfCycles!once)
  BY OnceStep
<1> QED
  BY <1>1, <1>2, <1>3, <1>4, <1>5, WholeHolds, SpacingInvHolds, PTL
  DEF Spec, CollectsOnce, OnceOfCycles!OnceSpec

=============================================================================
