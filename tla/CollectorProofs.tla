--------------------------- MODULE CollectorProofs ---------------------------
(***************************************************************************)
(* Proofs about Collector: its types, the exclusion the row lock gives,    *)
(* the spacing of events and the honesty of deltas, for any number of      *)
(* agents, any objects, any cooldown and any history.                      *)
(***************************************************************************)
EXTENDS Collector, TLAPS

(* The fallback of util.delta keeps a delta of two counters a counter.     *)
LEMMA DeltaIsNat ==
  ASSUME NEW c \in Nat, NEW p \in Nat
  PROVE  Delta(c, p) \in Nat
  BY DEF Delta

(* Whatever row the lookup finds, the derived row is a well-formed one.    *)
LEMMA RowOfTyped ==
  ASSUME NEW o \in Objects, NEW at \in Nat, NEW s \in Reading,
         NEW p \in Row \cup {NoRow}, NEW full \in BOOLEAN
  PROVE  RowOf(o, at, s, p, full) \in Row
<1>1. CarriedAttr(s, p) \in Attr
  BY SentinelAssumption DEF CarriedAttr, Reading, Row, Attr
<1>2. IntervalDelta(o, s, p) \in Nat
  <2>1. CASE p = NoRow
    BY <2>1 DEF IntervalDelta
  <2>2. CASE p # NoRow
    <3>1. s.raw \in Nat /\ p.raw \in Nat
      BY <2>2 DEF Reading, Row
    <3>2. Delta(s.raw, p.raw) \in Nat
      BY <3>1, DeltaIsNat
    <3>3. QED
      BY <2>2, <3>1, <3>2 DEF IntervalDelta
  <2>3. QED
    BY <2>1, <2>2
<1>3. (IF p = NoRow THEN NoRow
       ELSE [obj |-> p.obj, raw |-> p.raw, reset |-> p.reset, grown |-> p.grown])
        \in Origin \cup {NoRow}
  BY DEF Row, Origin
<1>4. (full /\ Kind[o] = "query") \in BOOLEAN
  OBVIOUS
<1>5. s.raw \in Nat /\ s.reset \in Nat /\ s.grown \in Nat
  BY DEF Reading
<1>6. QED
  BY <1>1, <1>2, <1>3, <1>4, <1>5 DEF RowOf, Row

(* _latest_rows answers with committed rows only, or with none.            *)
LEMMA LookupsAreRows ==
  ASSUME NEW prev \in Lookups, NEW k \in Keys
  PROVE  prev[k] \in samples \cup {NoRow}
<1>1. prev[k] \in Found(k)
  BY DEF Lookups
<1>2. Found(k) \subseteq samples \cup {NoRow}
  BY DEF Found, Latest
<1>3. QED
  BY <1>1, <1>2

-----------------------------------------------------------------------------

LEMMA NoJobTyped == NoJob \in Job
  BY DEF NoJob, Job

(* A read replaces the readings of some objects by well-formed ones.       *)
LEMMA ReadTyped ==
  ASSUME TypeOK, NEW seen \in [Objects -> Reading \cup {NoRow}],
         NEW os, NEW withAttr
  PROVE  Read(seen, os, withAttr) \in [Objects -> Reading \cup {NoRow}]
<1>1. ASSUME NEW o \in Objects
      PROVE  [source[o] EXCEPT !.attr = IF withAttr THEN source[o].attr ELSE Unknown]
               \in Reading
  BY <1>1 DEF TypeOK, Reading, Attr
<1>2. QED
  BY <1>1 DEF Read

LEMMA SpendTyped ==
  ASSUME NEW over \in BOOLEAN
  PROVE  Spend(over) \subseteq BOOLEAN
  BY CollectorAssumption DEF Spend

(* The rows a cycle derives are well-formed.                               *)
LEMMA DerivedTyped ==
  ASSUME TypeOK, NEW a \in Agents, NEW prev \in Lookups
  PROVE  Derived(a, prev) \subseteq Row
<1>1. ASSUME NEW o \in Seen(a)
      PROVE  RowOf(o, job[a].at, job[a].seen[o], prev[KeyOf[o]], Mode = "all") \in Row
  <2>1. o \in Objects /\ job[a].at \in Nat /\ job[a].seen[o] \in Reading
    BY DEF Seen, TypeOK, Job
  <2>2. KeyOf[o] \in Keys
    BY <2>1 DEF Keys
  <2>3. prev[KeyOf[o]] \in Row \cup {NoRow}
    BY <2>2, LookupsAreRows DEF TypeOK
  <2>4. QED
    BY <2>1, <2>3, RowOfTyped
<1>2. QED
  BY <1>1 DEF Derived

LEMMA WithTextsTyped ==
  ASSUME TypeOK, NEW rows \in SUBSET Row, NEW keys
  PROVE  WithTexts(rows, keys) \subseteq Row
<1>1. ASSUME NEW r \in rows
      PROVE  [r EXCEPT !.text = TRUE, !.attr = source[r.obj].attr] \in Row
  BY DEF TypeOK, Row, Attr
<1>2. QED
  BY <1>1 DEF WithTexts

LEMMA PossibleTyped ==
  ASSUME NEW a PROVE Possible(a) \subseteq Alert
  BY CollectorAssumption DEF Possible, ReachableAlert, Alert

(* What Analyse does to the agent's job.                                   *)
LEMMA AnalyseJob ==
  ASSUME TypeOK, NEW a \in Agents, Analyse(a)
  PROVE  \E raised \in SUBSET Possible(a), fetch \in BOOLEAN, over \in BOOLEAN :
           job' = [job EXCEPT
              ![a].raised = raised,
              ![a].rows = IF fetch THEN WithTexts(@, RegressionKeys(raised)) ELSE @,
              ![a].over = over]
  BY SpendTyped DEF Analyse, TypeOK, Job

LEMMA AnalyseKeeps ==
  ASSUME TypeOK, NEW a \in Agents, Analyse(a)
  PROVE  /\ \A b \in Agents \ {a} : job'[b] = job[b]
         /\ job'[a].at = job[a].at /\ job'[a].now = job[a].now /\ job'[a].seen = job[a].seen
         /\ \/ job'[a].rows = job[a].rows
            \/ \E keys : job'[a].rows = WithTexts(job[a].rows, keys)
<1>1. PICK raised \in SUBSET Possible(a), fetch \in BOOLEAN, over \in BOOLEAN :
        job' = [job EXCEPT
           ![a].raised = raised,
           ![a].rows = IF fetch THEN WithTexts(@, RegressionKeys(raised)) ELSE @,
           ![a].over = over]
  BY AnalyseJob
<1>2. \A b \in Agents \ {a} : job'[b] = job[b]
  BY <1>1 DEF TypeOK
<1>3. /\ job'[a].at = job[a].at /\ job'[a].now = job[a].now /\ job'[a].seen = job[a].seen
      /\ job'[a].rows = IF fetch THEN WithTexts(job[a].rows, RegressionKeys(raised))
                        ELSE job[a].rows
  BY <1>1 DEF TypeOK, Job
<1>4. QED
  BY <1>2, <1>3

LEMMA TypeStep == TypeOK /\ [Next]_vars => TypeOK'
<1> SUFFICES ASSUME TypeOK, [Next]_vars PROVE TypeOK'
  OBVIOUS
<1>1. ASSUME NEW a \in Agents, Begin(a) PROVE TypeOK'
  <2>1. PICK q \in Requests :
          job' = [job EXCEPT ![a] = [NoJob EXCEPT !.at = clock + 1,
                                          !.slow = q.slow, !.sizes = q.sizes]]
    BY <1>1 DEF Begin
  <2>2. clock + 1 \in Nat
    BY DEF TypeOK
  <2>3. q.slow \in BOOLEAN /\ q.sizes \in BOOLEAN
    BY CollectorAssumption
  <2>4. [NoJob EXCEPT !.at = clock + 1, !.slow = q.slow, !.sizes = q.sizes] \in Job
    BY <2>2, <2>3, NoJobTyped DEF Job
  <2>5. QED
    BY <1>1, <2>1, <2>2, <2>4 DEF Begin, Goto, Repository, TypeOK, Labels
<1>2. ASSUME NEW a \in Agents, OpenTransaction(a) PROVE TypeOK'
  <2>1. clock + 1 \in Nat
    BY DEF TypeOK
  <2>2. [job[a] EXCEPT !.now = clock + 1] \in Job
    BY <2>1 DEF TypeOK, Job
  <2>3. QED
    BY <1>2, <2>1, <2>2 DEF OpenTransaction, Goto, Repository, TypeOK, Labels
<1>3. ASSUME NEW a \in Agents, ReadDatabase(a) PROVE TypeOK'
  <2>1. job[a] \in Job
    BY DEF TypeOK
  <2>2. Read(job[a].seen, OfKind({"database"}), job[a].sizes) \in [Objects -> Reading \cup {NoRow}]
    BY <2>1, ReadTyped DEF Job
  <2>3. [job[a] EXCEPT !.seen = Read(@, OfKind({"database"}), job[a].sizes)] \in Job
    BY <2>1, <2>2 DEF Job
  <2>4. QED
    BY <1>3, <2>3 DEF ReadDatabase, Goto, Repository, TypeOK, Labels
<1>4. ASSUME NEW a \in Agents, ReadStatements(a) PROVE TypeOK'
  <2>1. PICK over \in Spend(job[a].over) :
          /\ Goto(a, "statements", IF ObjectsWanted(job[a], over) THEN "tables" ELSE "instance")
          /\ job' = [job EXCEPT ![a].seen = Read(@, Statements, Mode = "all"), ![a].over = over]
          /\ UNCHANGED <<source, clock, Repository, holder>>
    BY <1>4 DEF ReadStatements
  <2>2. job[a] \in Job /\ over \in BOOLEAN
    BY SpendTyped DEF TypeOK, Job
  <2>3. Read(job[a].seen, Statements, Mode = "all") \in [Objects -> Reading \cup {NoRow}]
    BY <2>2, ReadTyped DEF Job
  <2>4. [job[a] EXCEPT !.seen = Read(@, Statements, Mode = "all"), !.over = over] \in Job
    BY <2>2, <2>3 DEF Job
  <2>5. QED
    BY <2>1, <2>4 DEF Goto, Repository, TypeOK, Labels
<1>5. ASSUME NEW a \in Agents, ReadTables(a) PROVE TypeOK'
  <2>1. PICK over \in Spend(job[a].over) :
          /\ Goto(a, "tables", IF over THEN "instance" ELSE "indexes")
          /\ job' = [job EXCEPT ![a].seen = Read(@, OfKind({"table"}), job[a].sizes),
                                ![a].over = over]
          /\ UNCHANGED <<source, clock, Repository, holder>>
    BY <1>5 DEF ReadTables
  <2>2. job[a] \in Job /\ over \in BOOLEAN
    BY SpendTyped DEF TypeOK, Job
  <2>3. Read(job[a].seen, OfKind({"table"}), job[a].sizes) \in [Objects -> Reading \cup {NoRow}]
    BY <2>2, ReadTyped DEF Job
  <2>4. [job[a] EXCEPT !.seen = Read(@, OfKind({"table"}), job[a].sizes), !.over = over] \in Job
    BY <2>2, <2>3 DEF Job
  <2>5. QED
    BY <2>1, <2>4 DEF Goto, Repository, TypeOK, Labels
<1>6. ASSUME NEW a \in Agents, ReadIndexes(a) PROVE TypeOK'
  <2>1. PICK over \in Spend(job[a].over) :
          /\ Goto(a, "indexes", "instance")
          /\ job' = [job EXCEPT ![a].seen = Read(@, OfKind({"index"}), job[a].sizes),
                                ![a].over = over, ![a].slowCollected = TRUE]
          /\ UNCHANGED <<source, clock, Repository, holder>>
    BY <1>6 DEF ReadIndexes
  <2>2. job[a] \in Job /\ over \in BOOLEAN
    BY SpendTyped DEF TypeOK, Job
  <2>3. Read(job[a].seen, OfKind({"index"}), job[a].sizes) \in [Objects -> Reading \cup {NoRow}]
    BY <2>2, ReadTyped DEF Job
  <2>4. [job[a] EXCEPT !.seen = Read(@, OfKind({"index"}), job[a].sizes), !.over = over,
                       !.slowCollected = TRUE] \in Job
    BY <2>2, <2>3 DEF Job
  <2>5. QED
    BY <2>1, <2>4 DEF Goto, Repository, TypeOK, Labels
<1>7. ASSUME NEW a \in Agents, EnsureInstance(a) PROVE TypeOK'
  BY <1>7 DEF EnsureInstance, Goto, Repository, TypeOK, Labels
<1>8. ASSUME NEW a \in Agents, WriteSamples(a) PROVE TypeOK'
  <2>1. PICK prev \in Lookups : job' = [job EXCEPT ![a].rows = Derived(a, prev)]
    BY <1>8 DEF WriteSamples
  <2>2. [job[a] EXCEPT !.rows = Derived(a, prev)] \in Job
    BY DerivedTyped DEF TypeOK, Job
  <2>3. QED
    BY <1>8, <2>1, <2>2 DEF WriteSamples, Goto, Repository, TypeOK, Labels
<1>9. ASSUME NEW a \in Agents, Analyse(a) PROVE TypeOK'
  <2>1. PICK raised \in SUBSET Possible(a), fetch \in BOOLEAN, over \in BOOLEAN :
          job' = [job EXCEPT
             ![a].raised = raised,
             ![a].rows = IF fetch THEN WithTexts(@, RegressionKeys(raised)) ELSE @,
             ![a].over = over]
    BY <1>9, AnalyseJob
  <2>2. job[a] \in Job
    BY DEF TypeOK
  <2>3. WithTexts(job[a].rows, RegressionKeys(raised)) \subseteq Row
    BY <2>2, WithTextsTyped DEF Job
  <2>4. raised \subseteq Alert
    BY PossibleTyped
  <2>5. [job[a] EXCEPT !.raised = raised,
                       !.rows = IF fetch THEN WithTexts(@, RegressionKeys(raised)) ELSE @,
                       !.over = over] \in Job
    BY <2>2, <2>3, <2>4 DEF Job
  <2>6. QED
    BY <1>9, <2>1, <2>5 DEF Analyse, Goto, Repository, TypeOK, Labels
<1>10. ASSUME NEW a \in Agents, PersistEvents(a) PROVE TypeOK'
  <2>1. PICK created \in SUBSET job[a].raised : job' = [job EXCEPT ![a].created = created]
    BY <1>10 DEF PersistEvents, Admitted
  <2>2. [job[a] EXCEPT !.created = created] \in Job
    BY DEF TypeOK, Job
  <2>3. QED
    BY <1>10, <2>1, <2>2 DEF PersistEvents, Goto, Repository, TypeOK, Labels
<1>11. ASSUME NEW a \in Agents, Commit(a) PROVE TypeOK'
  <2>1. job[a] \in Job
    BY DEF TypeOK
  <2>2. job[a].rows \subseteq Row
    BY <2>1 DEF Job
  <2>3. EventsOf(job[a]) \subseteq Event
    BY <2>1 DEF EventsOf, Job, Alert, Event
  <2>4. CycleOf(job[a]) \in Cycle
    BY <2>1 DEF CycleOf, Job, Cycle, Row
  <2>5. QED
    BY <1>11, <2>2, <2>3, <2>4, NoJobTyped DEF Commit, Goto, TypeOK, Labels
<1>12. ASSUME NEW a \in Agents, Abort(a) PROVE TypeOK'
  BY <1>12, NoJobTyped DEF Abort, Released, Repository, TypeOK, Labels
<1>13. ASSUME NEW o \in Objects, Activity(o) PROVE TypeOK'
  BY <1>13 DEF Activity, Repository, TypeOK
<1>14. ASSUME NEW os, Reset(os) PROVE TypeOK'
  <2>1. ASSUME NEW o \in Objects
        PROVE  [source[o] EXCEPT !.raw = 0, !.reset = @ + 1]
                 \in [raw : Nat, reset : Nat, grown : Nat, attr : Nat]
    <3>1. source[o].reset + 1 \in Nat
      BY DEF TypeOK
    <3>2. QED
      BY <3>1 DEF TypeOK
  <2>2. QED
    BY <1>14, <2>1 DEF Reset, Repository, TypeOK
<1>15. ASSUME NEW o \in Objects, Resize(o) PROVE TypeOK'
  BY <1>15, CollectorAssumption DEF Resize, Repository, TypeOK
<1>16. CASE UNCHANGED vars
  BY <1>16 DEF vars, TypeOK
<1>17. QED
  BY <1>1, <1>2, <1>3, <1>4, <1>5, <1>6, <1>7, <1>8, <1>9, <1>10, <1>11, <1>12,
     <1>13, <1>14, <1>15, <1>16
  DEF Next, Step, Environment, ResetDatabase, ResetObject

(* Every state of a collection is well-formed, whatever the overlap, the   *)
(* resets and the failures: collect_once never stages or publishes a       *)
(* negative delta or an event about something it did not read.             *)
THEOREM TypeCorrect == Spec => []TypeOK
<1>1. Init => TypeOK
  BY NoJobTyped DEF Init, TypeOK, Labels
<1>2. QED
  BY <1>1, TypeStep, PTL DEF Spec

-----------------------------------------------------------------------------

(* Taking, keeping and giving back the instance's row.                     *)
LEMMA HolderStep == TypeOK /\ HolderIsTheWriter /\ [Next]_vars => HolderIsTheWriter'
<1> SUFFICES ASSUME TypeOK, HolderIsTheWriter, [Next]_vars PROVE HolderIsTheWriter'
  OBVIOUS
<1> USE DEF HolderIsTheWriter, Locked
<1>1. ASSUME NEW a \in Agents, Begin(a) PROVE HolderIsTheWriter'
  BY <1>1 DEF Begin, Goto, TypeOK
<1>2. ASSUME NEW a \in Agents, OpenTransaction(a) PROVE HolderIsTheWriter'
  BY <1>2 DEF OpenTransaction, Goto, TypeOK
<1>3. ASSUME NEW a \in Agents, ReadDatabase(a) PROVE HolderIsTheWriter'
  BY <1>3 DEF ReadDatabase, Goto, TypeOK
<1>4. ASSUME NEW a \in Agents, ReadStatements(a) PROVE HolderIsTheWriter'
  BY <1>4 DEF ReadStatements, Goto, TypeOK
<1>5. ASSUME NEW a \in Agents, ReadTables(a) PROVE HolderIsTheWriter'
  BY <1>5 DEF ReadTables, Goto, TypeOK
<1>6. ASSUME NEW a \in Agents, ReadIndexes(a) PROVE HolderIsTheWriter'
  BY <1>6 DEF ReadIndexes, Goto, TypeOK
<1>7. ASSUME NEW a \in Agents, EnsureInstance(a) PROVE HolderIsTheWriter'
  <2>1. \A b \in Agents : pc[b] \notin Locked
    BY <1>7, CollectorAssumption DEF EnsureInstance, InstanceFree
  <2>2. QED
    BY <1>7, <2>1 DEF EnsureInstance, Goto, TypeOK
<1>8. ASSUME NEW a \in Agents, WriteSamples(a) PROVE HolderIsTheWriter'
  BY <1>8 DEF WriteSamples, Goto, TypeOK
<1>9. ASSUME NEW a \in Agents, Analyse(a) PROVE HolderIsTheWriter'
  BY <1>9 DEF Analyse, Goto, TypeOK
<1>10. ASSUME NEW a \in Agents, PersistEvents(a) PROVE HolderIsTheWriter'
  BY <1>10 DEF PersistEvents, Goto, TypeOK
<1>11. ASSUME NEW a \in Agents, Commit(a) PROVE HolderIsTheWriter'
  BY <1>11, CollectorAssumption DEF Commit, Goto, TypeOK
<1>12. ASSUME NEW a \in Agents, Abort(a) PROVE HolderIsTheWriter'
  BY <1>12, CollectorAssumption DEF Abort, Released, TypeOK
<1>13. ASSUME UNCHANGED <<holder, pc>> PROVE HolderIsTheWriter'
  BY <1>13
<1>14. QED
  BY <1>1, <1>2, <1>3, <1>4, <1>5, <1>6, <1>7, <1>8, <1>9, <1>10, <1>11, <1>12, <1>13
  DEF Next, Step, Environment, Activity, Reset, ResetDatabase, ResetObject, Resize, vars

(* persist_events keeps its new events away from each other and from all   *)
(* the committed ones.                                                     *)
LEMMA PersistKeepsDistance ==
  ASSUME TypeOK, NEW a \in Agents, PersistEvents(a)
  PROVE  Spaced(events) => Spaced(events \cup EventsOf(job'[a]))
<1>1. PICK created \in Admitted(job[a].raised, Recent(job[a].now)) :
        job' = [job EXCEPT ![a].created = created]
  BY DEF PersistEvents
<1> DEFINE now == job[a].now
<1>2. job[a] \in Job /\ now \in Nat /\ Cooldown \in Nat
  BY CollectorAssumption DEF TypeOK, Job
<1>3. job'[a].created = created /\ job'[a].now = now
  BY <1>1, <1>2 DEF Job, TypeOK
<1>4. created \subseteq job[a].raised
  BY <1>1 DEF Admitted
<1>5. ASSUME NEW e \in EventsOf(job'[a]), NEW f \in events,
             Limited(e.type), EventKey(e) = EventKey(f)
      PROVE  e.created - f.created > Cooldown
  <2>1. PICK x \in created : e = [type |-> x.type, obj |-> x.obj, created |-> now]
    BY <1>3 DEF EventsOf
  <2>2. EventKey(x) = EventKey(f) /\ x.type = f.type /\ Limited(x.type)
    BY <1>5, <2>1 DEF EventKey
  <2>3. EventKey(x) \notin Recent(now)
    BY <1>1, <1>4, <2>2 DEF Admitted
  <2>4. f.type \in CooldownTypes
    BY <2>2 DEF Limited
  <2>5. ~(f.created >= now - Cooldown)
    BY <2>2, <2>3, <2>4 DEF Recent
  <2>6. f.created \in Nat /\ e.created = now
    BY <2>1 DEF TypeOK, Event
  <2>7. QED
    BY <1>2, <2>5, <2>6
<1>6. ASSUME NEW e \in EventsOf(job'[a]), NEW f \in EventsOf(job'[a]),
             Limited(e.type), EventKey(e) = EventKey(f)
      PROVE  e = f
  <2>1. PICK x \in created : e = [type |-> x.type, obj |-> x.obj, created |-> now]
    BY <1>3 DEF EventsOf
  <2>2. PICK y \in created : f = [type |-> y.type, obj |-> y.obj, created |-> now]
    BY <1>3 DEF EventsOf
  <2>3. EventKey(x) = EventKey(y) /\ Limited(x.type)
    BY <1>6, <2>1, <2>2 DEF EventKey
  <2>4. x = y
    BY <1>1, <1>4, <2>3 DEF Admitted
  <2>5. QED
    BY <2>1, <2>2, <2>4
<1>7. SUFFICES ASSUME Spaced(events),
                      NEW e \in events \cup EventsOf(job'[a]),
                      NEW f \in events \cup EventsOf(job'[a]),
                      e # f, Limited(e.type), EventKey(e) = EventKey(f)
               PROVE  e.created - f.created > Cooldown \/ f.created - e.created > Cooldown
  BY DEF Spaced
<1>8. e.type = f.type
  BY <1>7 DEF EventKey
<1>9. CASE e \in events /\ f \in events
  BY <1>7, <1>9 DEF Spaced
<1>10. CASE e \in EventsOf(job'[a]) /\ f \in events
  BY <1>5, <1>7, <1>10
<1>11. CASE e \in events /\ f \in EventsOf(job'[a])
  BY <1>5, <1>7, <1>8, <1>11
<1>12. CASE e \in EventsOf(job'[a]) /\ f \in EventsOf(job'[a])
  BY <1>6, <1>7, <1>12
<1>13. QED
  BY <1>7, <1>9, <1>10, <1>11, <1>12

LEMMA SpacingStep == TypeOK /\ SpacingInv /\ [Next]_vars => SpacingInv'
<1> SUFFICES ASSUME TypeOK, SpacingInv, [Next]_vars PROVE SpacingInv'
  OBVIOUS
<1>1. HolderIsTheWriter'
  BY HolderStep DEF SpacingInv
<1>2. ASSUME events' = events,
             \A b \in Agents : pc'[b] = "commit" => pc[b] = "commit" /\ job'[b] = job[b]
      PROVE  StagedSpacing' /\ CooldownSpacing'
  BY <1>2 DEF SpacingInv, StagedSpacing, CooldownSpacing, Spaced, EventsOf
<1>3. ASSUME NEW a \in Agents, PersistEvents(a)
      PROVE  StagedSpacing' /\ CooldownSpacing'
  <2>1. events' = events /\ CooldownSpacing'
    BY <1>3 DEF PersistEvents, Repository, SpacingInv, CooldownSpacing, Spaced
  <2>2. Spaced(events \cup EventsOf(job'[a]))
    BY <1>3, PersistKeepsDistance DEF SpacingInv, CooldownSpacing
  <2>3. ASSUME NEW b \in Agents, b # a, pc'[b] = "commit"
        PROVE  pc[b] = "commit" /\ job'[b] = job[b]
    BY <1>3, <2>3 DEF PersistEvents, Goto, TypeOK
  <2>4. ASSUME NEW b \in Agents, pc'[b] = "commit"
        PROVE  Spaced(events' \cup EventsOf(job'[b]))
    <3>1. CASE b = a
      BY <2>1, <2>2, <3>1
    <3>2. CASE b # a
      BY <2>1, <2>3, <2>4, <3>2 DEF SpacingInv, StagedSpacing
    <3>3. QED
      BY <3>1, <3>2
  <2>5. QED
    BY <2>1, <2>4 DEF StagedSpacing, Spaced, EventsOf
<1>4. ASSUME NEW a \in Agents, Commit(a)
      PROVE  StagedSpacing' /\ CooldownSpacing'
  <2>1. pc[a] = "commit" /\ events' = events \cup EventsOf(job[a])
    BY <1>4 DEF Commit, Goto
  <2>2. CooldownSpacing'
    BY <2>1 DEF SpacingInv, StagedSpacing, CooldownSpacing, Spaced
  <2>3. \A b \in Agents : pc[b] = "commit" => b = a
    BY <2>1 DEF SpacingInv, HolderIsTheWriter, Locked
  <2>4. \A b \in Agents : pc'[b] # "commit"
    BY <1>4, <2>3 DEF Commit, Goto, TypeOK
  <2>5. QED
    BY <2>2, <2>4 DEF StagedSpacing
<1>5. ASSUME NEW a \in Agents,
             \/ Begin(a) \/ OpenTransaction(a) \/ ReadDatabase(a) \/ ReadStatements(a)
             \/ ReadTables(a) \/ ReadIndexes(a) \/ EnsureInstance(a) \/ WriteSamples(a)
             \/ Analyse(a) \/ Abort(a)
      PROVE  StagedSpacing' /\ CooldownSpacing'
  <2>1. events' = events
    BY <1>5 DEF Begin, OpenTransaction, ReadDatabase, ReadStatements, ReadTables,
                ReadIndexes, EnsureInstance, WriteSamples, Analyse, Abort, Repository
  <2>2. pc'[a] # "commit"
    BY <1>5 DEF Begin, OpenTransaction, ReadDatabase, ReadStatements, ReadTables,
                ReadIndexes, EnsureInstance, WriteSamples, Analyse, Abort, Goto, TypeOK
  <2>3. \A b \in Agents \ {a} : pc'[b] = pc[b] /\ job'[b] = job[b]
    BY <1>5 DEF Begin, OpenTransaction, ReadDatabase, ReadStatements, ReadTables,
                ReadIndexes, EnsureInstance, WriteSamples, Analyse, Abort, Goto, TypeOK
  <2>4. QED
    BY <1>2, <2>1, <2>2, <2>3
<1>6. ASSUME UNCHANGED <<events, pc, job>>
      PROVE  StagedSpacing' /\ CooldownSpacing'
  BY <1>2, <1>6
<1>7. QED
  BY <1>1, <1>3, <1>4, <1>5, <1>6
  DEF SpacingInv, Next, Step, Environment, Activity, Reset, ResetDatabase, ResetObject,
      Resize, Repository, vars

THEOREM SpacingInvHolds == Spec => []SpacingInv
<1>1. Init => SpacingInv
  BY CollectorAssumption
  DEF Init, SpacingInv, HolderIsTheWriter, Locked, StagedSpacing, CooldownSpacing, Spaced
<1>2. QED
  BY <1>1, SpacingStep, TypeCorrect, PTL DEF Spec

(* persist_events never lets two limited events about the same object come *)
(* closer than the cooldown, for any number of agents that overlap in any  *)
(* way, fail at any step and start at any times.                           *)
THEOREM CooldownIsKept == Spec => []CooldownSpacing
<1>1. SpacingInv => CooldownSpacing
  BY DEF SpacingInv
<1>2. QED
  BY <1>1, SpacingInvHolds, PTL

-----------------------------------------------------------------------------

(* What persist_events did not turn into an event has one already.         *)
LEMMA PersistAnswers ==
  ASSUME TypeOK, NEW a \in Agents, PersistEvents(a), NEW x \in job'[a].raised
  PROVE  IF Limited(x.type)
         THEN \E e \in events \cup EventsOf(job'[a]) :
                EventKey(e) = EventKey(x) /\ e.created >= job'[a].now - Cooldown
         ELSE x \in job'[a].created
<1>1. PICK created \in Admitted(job[a].raised, Recent(job[a].now)) :
        job' = [job EXCEPT ![a].created = created]
  BY DEF PersistEvents
<1> DEFINE now == job[a].now
<1>2. job[a] \in Job /\ now \in Nat /\ Cooldown \in Nat
  BY CollectorAssumption DEF TypeOK, Job
<1>3. job'[a].created = created /\ job'[a].now = now /\ job'[a].raised = job[a].raised
  BY <1>1, <1>2 DEF Job, TypeOK
<1>4. CASE ~Limited(x.type)
  BY <1>1, <1>3, <1>4 DEF Admitted
<1>5. CASE Limited(x.type) /\ EventKey(x) \in Recent(now)
  BY <1>3, <1>5 DEF Recent
<1>6. CASE Limited(x.type) /\ EventKey(x) \notin Recent(now)
  <2>1. PICK y \in created : EventKey(y) = EventKey(x)
    BY <1>1, <1>3, <1>6 DEF Admitted
  <2>2. [type |-> y.type, obj |-> y.obj, created |-> now] \in EventsOf(job'[a])
    BY <1>3 DEF EventsOf
  <2>3. EventKey([type |-> y.type, obj |-> y.obj, created |-> now]) = EventKey(x)
    BY <2>1 DEF EventKey
  <2>4. now >= now - Cooldown
    BY <1>2
  <2>5. QED
    BY <1>3, <1>6, <2>2, <2>3, <2>4
<1>7. QED
  BY <1>4, <1>5, <1>6

(* The cooldown hides repetitions only: whatever collect_once raised is in *)
(* the events it publishes or has an event no older than the cooldown.     *)
THEOREM EveryAlertIsAnswered == Spec => []AlertsAreAnswered
<1>1. Init => AlertsAreAnswered
  BY DEF Init, AlertsAreAnswered
<1>2. TypeOK /\ AlertsAreAnswered /\ [Next]_vars => AlertsAreAnswered'
  <2> SUFFICES ASSUME TypeOK, AlertsAreAnswered, [Next]_vars PROVE AlertsAreAnswered'
    OBVIOUS
  <2>1. ASSUME events \subseteq events',
               \A b \in Agents : pc'[b] = "commit" => pc[b] = "commit" /\ job'[b] = job[b]
        PROVE  AlertsAreAnswered'
    BY <2>1 DEF AlertsAreAnswered, EventsOf, EventKey
  <2>2. ASSUME NEW a \in Agents, PersistEvents(a) PROVE AlertsAreAnswered'
    <3>1. events' = events
      BY <2>2 DEF PersistEvents, Repository
    <3>2. ASSUME NEW b \in Agents, b # a, pc'[b] = "commit"
          PROVE  pc[b] = "commit" /\ job'[b] = job[b]
      BY <2>2, <3>2 DEF PersistEvents, Goto, TypeOK
    <3>3. ASSUME NEW b \in Agents, pc'[b] = "commit", NEW x \in job'[b].raised
          PROVE  IF Limited(x.type)
                 THEN \E e \in events \cup EventsOf(job'[b]) :
                        EventKey(e) = EventKey(x) /\ e.created >= job'[b].now - Cooldown
                 ELSE x \in job'[b].created
      <4>1. CASE b = a
        BY <2>2, <3>3, <4>1, PersistAnswers
      <4>2. CASE b # a
        BY <3>2, <3>3, <4>2 DEF AlertsAreAnswered
      <4>3. QED
        BY <4>1, <4>2
    <3>4. QED
      BY <3>1, <3>3 DEF AlertsAreAnswered, EventsOf, EventKey
  <2>3. ASSUME NEW a \in Agents,
               \/ Begin(a) \/ OpenTransaction(a) \/ ReadDatabase(a) \/ ReadStatements(a)
               \/ ReadTables(a) \/ ReadIndexes(a) \/ EnsureInstance(a) \/ WriteSamples(a)
               \/ Analyse(a) \/ Commit(a) \/ Abort(a)
        PROVE  AlertsAreAnswered'
    <3>1. events \subseteq events'
      BY <2>3 DEF Begin, OpenTransaction, ReadDatabase, ReadStatements, ReadTables,
                  ReadIndexes, EnsureInstance, WriteSamples, Analyse, Commit, Abort, Repository
    <3>2. pc'[a] # "commit"
      BY <2>3 DEF Begin, OpenTransaction, ReadDatabase, ReadStatements, ReadTables,
                  ReadIndexes, EnsureInstance, WriteSamples, Analyse, Commit, Abort, Goto, TypeOK
    <3>3. \A b \in Agents \ {a} : pc'[b] = pc[b] /\ job'[b] = job[b]
      BY <2>3 DEF Begin, OpenTransaction, ReadDatabase, ReadStatements, ReadTables,
                  ReadIndexes, EnsureInstance, WriteSamples, Analyse, Commit, Abort, Goto, TypeOK
    <3>4. QED
      BY <2>1, <3>1, <3>2, <3>3
  <2>4. ASSUME UNCHANGED <<events, pc, job>> PROVE AlertsAreAnswered'
    BY <2>1, <2>4
  <2>5. QED
    BY <2>2, <2>3, <2>4
    DEF Next, Step, Environment, Activity, Reset, ResetDatabase, ResetObject, Resize,
        Repository, vars
<1>3. QED
  BY <1>1, <1>2, TypeCorrect, PTL DEF Spec

-----------------------------------------------------------------------------
(* The deltas are honest about the rows they were computed from, for any   *)
(* agents, objects, keys, resets and overlaps, as long as those rows were  *)
(* read earlier.                                                           *)

Reader == [raw : Nat, reset : Nat, grown : Nat]

(* Arithmetic of IntervalDelta: two readings in the order they were made.  *)
LEMMA OrderedDelta ==
  ASSUME NEW o \in Objects, NEW s \in Reading, NEW p \in Row,
         p.obj = o, ReadBefore(p, s)
  PROVE  /\ IntervalDelta(o, s, p) <= s.grown - p.grown
         /\ s.reset = p.reset => IntervalDelta(o, s, p) = s.grown - p.grown
         /\ s.reset # p.reset /\ Kind[o] = "database" => IntervalDelta(o, s, p) = s.raw
<1>1. p # NoRow
  BY SentinelAssumption
<1>2. /\ s.raw \in Nat /\ s.reset \in Nat /\ s.grown \in Nat
      /\ p.raw \in Nat /\ p.reset \in Nat /\ p.grown \in Nat
  BY DEF Reading, Row
<1>3. CASE s.reset = p.reset
  <2>1. IntervalDelta(o, s, p) = Delta(s.raw, p.raw)
    BY <1>1, <1>3 DEF IntervalDelta, ResetDetected
  <2>2. s.raw - p.raw = s.grown - p.grown /\ p.grown <= s.grown
    BY <1>3 DEF ReadBefore
  <2>3. s.raw >= p.raw
    BY <1>2, <2>2
  <2>4. IntervalDelta(o, s, p) = s.grown - p.grown
    BY <2>1, <2>2, <2>3 DEF Delta
  <2>5. QED
    BY <1>2, <1>3, <2>4
<1>4. CASE s.reset # p.reset
  <2>1. s.raw <= s.grown - p.grown
    BY <1>2, <1>4 DEF ReadBefore
  <2>2. IntervalDelta(o, s, p) = s.raw \/ IntervalDelta(o, s, p) = s.raw - p.raw
    BY <1>1 DEF IntervalDelta, Delta
  <2>3. Kind[o] = "database" => IntervalDelta(o, s, p) = s.raw
    BY <1>1, <1>4 DEF IntervalDelta, ResetDetected
  <2>4. IntervalDelta(o, s, p) <= s.grown - p.grown
    <3>1. CASE IntervalDelta(o, s, p) = s.raw
      BY <2>1, <3>1
    <3>2. CASE IntervalDelta(o, s, p) = s.raw - p.raw
      BY <1>2, <2>1, <3>2
    <3>3. QED
      BY <2>2, <3>1, <3>2
  <2>5. QED
    BY <1>4, <2>3, <2>4
<1>5. QED
  BY <1>3, <1>4

-----------------------------------------------------------------------------
(* The readings that are kept, as facts about their members.               *)

LEMMA RowIsReading ==
  ASSUME NEW r \in AllRows
  PROVE  Counters(r) \in Readings(r.obj)
  BY DEF Readings

LEMMA SeenIsReading ==
  ASSUME NEW a \in Agents, NEW o \in Objects, job[a].seen[o] # NoRow
  PROVE  Counters(job[a].seen[o]) \in Readings(o)
  BY DEF Readings

LEMMA RowsTyped ==
  ASSUME TypeOK PROVE AllRows \subseteq Row
  BY DEF TypeOK, Job, AllRows

LEMMA ReadingsTyped ==
  ASSUME TypeOK, NEW o \in Objects
  PROVE  /\ Readings(o) \subseteq Reader
         /\ Counters(source[o]) \in Reader
<1>1. ASSUME NEW r \in AllRows PROVE Counters(r) \in Reader
  BY RowsTyped DEF Row, Counters, Reader
<1>2. ASSUME NEW a \in Agents, job[a].seen[o] # NoRow
      PROVE  Counters(job[a].seen[o]) \in Reader
  <2>1. job[a].seen[o] \in Reading
    BY <1>2 DEF TypeOK, Job
  <2>2. QED
    BY <2>1 DEF Reading, Counters, Reader
<1>3. Counters(source[o]) \in Reader
  BY DEF TypeOK, Counters, Reader
<1>4. QED
  BY <1>1, <1>2, <1>3 DEF Readings

LEMMA SourceIsItself ==
  ASSUME NEW c \in Reader PROVE ReadBefore(c, c)
  BY DEF Reader, ReadBefore

(* An agent's step keeps every kept reading or takes the source's present  *)
(* one.                                                                    *)
LEMMA ReadingsKept ==
  ASSUME TypeOK, ReadingsInv, source' = source,
         \A o \in Objects : Readings(o)' \subseteq Readings(o) \cup {Counters(source[o])}
  PROVE  ReadingsInv'
<1>1. SUFFICES ASSUME NEW o \in Objects, NEW s \in Readings(o)'
               PROVE  /\ ReadBefore(s, Counters(source[o]))
                      /\ \A t \in Readings(o)' : ReadBefore(s, t) \/ ReadBefore(t, s)
  BY DEF ReadingsInv, Counters, ReadBefore
<1>2. ReadBefore(Counters(source[o]), Counters(source[o]))
  BY ReadingsTyped, SourceIsItself
<1>3. \A c \in Readings(o) : ReadBefore(c, Counters(source[o]))
  BY DEF ReadingsInv
<1>4. \A c, d \in Readings(o) : ReadBefore(c, d) \/ ReadBefore(d, c)
  BY DEF ReadingsInv
<1>5. QED
  BY <1>1, <1>2, <1>3, <1>4

(* The source moves on; what was read stays.                               *)
LEMMA SourceMoves ==
  ASSUME TypeOK, ReadingsInv, UNCHANGED <<samples, job>>,
         \A o \in Objects : \A c \in Reader :
           ReadBefore(c, Counters(source[o])) => ReadBefore(c, Counters(source'[o]))
  PROVE  ReadingsInv'
<1>1. \A o \in Objects : Readings(o)' = Readings(o)
  BY DEF Readings, AllRows
<1>2. \A o \in Objects : Readings(o) \subseteq Reader
  BY ReadingsTyped
<1>3. SUFFICES ASSUME NEW o \in Objects, NEW s \in Readings(o)
               PROVE  /\ ReadBefore(s, Counters(source'[o]))
                      /\ \A t \in Readings(o) : ReadBefore(s, t) \/ ReadBefore(t, s)
  BY <1>1 DEF ReadingsInv, Counters, ReadBefore
<1>4. QED
  BY <1>2 DEF ReadingsInv

LEMMA ActivityMoves ==
  ASSUME TypeOK, NEW o \in Objects, Activity(o), NEW u \in Objects, NEW c \in Reader,
         ReadBefore(c, Counters(source[u]))
  PROVE  ReadBefore(c, Counters(source'[u]))
<1>1. source[u].raw \in Nat /\ source[u].reset \in Nat /\ source[u].grown \in Nat
  BY DEF TypeOK
<1>2. c.raw \in Nat /\ c.reset \in Nat /\ c.grown \in Nat
  BY DEF Reader
<1>3. CASE u # o
  BY <1>3 DEF Activity, Counters, TypeOK
<1>4. CASE u = o
  <2>1. Counters(source'[u]) =
          [raw |-> source[u].raw + 1, reset |-> source[u].reset, grown |-> source[u].grown + 1]
    BY <1>4 DEF Activity, Counters, TypeOK
  <2>2. QED
    BY <1>1, <1>2, <2>1 DEF ReadBefore, Counters
<1>5. QED
  BY <1>3, <1>4

LEMMA ResetMoves ==
  ASSUME TypeOK, NEW os, Reset(os), NEW u \in Objects, NEW c \in Reader,
         ReadBefore(c, Counters(source[u]))
  PROVE  ReadBefore(c, Counters(source'[u]))
<1>1. source[u].raw \in Nat /\ source[u].reset \in Nat /\ source[u].grown \in Nat
  BY DEF TypeOK
<1>2. c.raw \in Nat /\ c.reset \in Nat /\ c.grown \in Nat
  BY DEF Reader
<1>3. CASE u \notin os
  BY <1>3 DEF Reset, Counters
<1>4. CASE u \in os
  <2>1. Counters(source'[u]) =
          [raw |-> 0, reset |-> source[u].reset + 1, grown |-> source[u].grown]
    BY <1>4 DEF Reset, Counters, TypeOK
  <2>2. QED
    BY <1>1, <1>2, <2>1 DEF ReadBefore, Counters
<1>5. QED
  BY <1>3, <1>4

LEMMA ResizeMoves ==
  ASSUME TypeOK, NEW o \in Objects, Resize(o), NEW u \in Objects
  PROVE  Counters(source'[u]) = Counters(source[u])
  BY DEF TypeOK, Resize, Counters

-----------------------------------------------------------------------------

DeltaInv == ReadingsInv /\ \A r \in AllRows : HonestIfInOrder(r)

(* What every step of an agent has to guarantee.                           *)
LEMMA AgentStep ==
  ASSUME TypeOK, DeltaInv, NEW a \in Agents, source' = source,
         \A b \in Agents \ {a} : job'[b] = job[b],
         \A o \in Objects : \/ job'[a].seen[o] = NoRow
                           \/ job'[a].seen[o] = job[a].seen[o]
                           \/ Counters(job'[a].seen[o]) = Counters(source[o]),
         samples' \subseteq AllRows,
         \A r \in job'[a].rows : Counters(r) \in Readings(r.obj) /\ HonestIfInOrder(r)
  PROVE  DeltaInv'
<1>1. ASSUME NEW r \in AllRows' PROVE Counters(r) \in Readings(r.obj) /\ HonestIfInOrder(r)
  <2>1. CASE r \in AllRows
    BY <2>1, RowIsReading DEF DeltaInv
  <2>2. CASE r \in job'[a].rows
    BY <2>2
  <2>3. r \in AllRows \/ r \in job'[a].rows
    BY <1>1 DEF AllRows
  <2>4. QED
    BY <2>1, <2>2, <2>3
<1>2. ASSUME NEW b \in Agents, NEW o \in Objects, job'[b].seen[o] # NoRow
      PROVE  Counters(job'[b].seen[o]) \in Readings(o) \cup {Counters(source[o])}
  <2>1. \/ job'[b].seen[o] = job[b].seen[o]
        \/ Counters(job'[b].seen[o]) = Counters(source[o])
    BY <1>2
  <2>2. QED
    BY <1>2, <2>1, SeenIsReading
<1>3. ASSUME NEW o \in Objects
      PROVE  Readings(o)' \subseteq Readings(o) \cup {Counters(source[o])}
  <2>1. Readings(o)' =
          {Counters(r) : r \in {q \in AllRows' : q.obj = o}} \cup
          {Counters(job'[b].seen[o]) : b \in {b \in Agents : job'[b].seen[o] # NoRow}}
    BY DEF Readings, Counters
  <2>2. QED
    BY <1>1, <1>2, <2>1
<1>4. ReadingsInv'
  BY <1>3, ReadingsKept DEF DeltaInv
<1>5. \A r \in AllRows' : HonestIfInOrder(r)
  BY <1>1
<1>6. QED
  BY <1>4, <1>5 DEF DeltaInv, HonestIfInOrder, HonestDelta

(* A SELECT of some counters, whichever.                                   *)
LEMMA ReadIsOfSource ==
  ASSUME NEW seen, NEW os, NEW withAttr, NEW o \in Objects
  PROVE  \/ Read(seen, os, withAttr)[o] = seen[o]
         \/ TypeOK => Counters(Read(seen, os, withAttr)[o]) = Counters(source[o])
<1>1. CASE o \in os
  BY <1>1 DEF Read, Counters, TypeOK
<1>2. CASE o \notin os
  BY <1>2 DEF Read
<1>3. QED
  BY <1>1, <1>2

(* The rows insert_*_samples derives.                                      *)
LEMMA DerivedIsHonest ==
  ASSUME TypeOK, DeltaInv, NEW a \in Agents, NEW prev \in Lookups,
         NEW r \in Derived(a, prev)
  PROVE  Counters(r) \in Readings(r.obj) /\ HonestIfInOrder(r)
<1>1. PICK o \in Seen(a) :
        r = RowOf(o, job[a].at, job[a].seen[o], prev[KeyOf[o]], Mode = "all")
  BY DEF Derived
<1> DEFINE s == job[a].seen[o]
           p == prev[KeyOf[o]]
<1>2. o \in Objects /\ s \in Reading /\ s # NoRow
  BY DEF Seen, TypeOK, Job
<1>3. p \in samples \cup {NoRow}
  BY <1>2, LookupsAreRows DEF Keys
<1>4. /\ r.obj = o /\ r.raw = s.raw /\ r.reset = s.reset /\ r.grown = s.grown
      /\ r.delta = IntervalDelta(o, s, p)
      /\ p = NoRow => r.prev = NoRow
      /\ p # NoRow => r.prev = [obj |-> p.obj, raw |-> p.raw, reset |-> p.reset, grown |-> p.grown]
  BY <1>1 DEF RowOf
<1>5. Counters(r) \in Readings(r.obj)
  <2>1. Counters(r) = Counters(s)
    BY <1>4 DEF Counters
  <2>2. QED
    BY <1>2, <1>4, <2>1, SeenIsReading
<1>6. ASSUME r.prev # NoRow, r.prev.obj = r.obj, r.prev.grown <= r.grown, r.prev.reset <= r.reset
      PROVE  HonestDelta(r, r.prev)
  <2>1. p \in samples /\ p \in Row
    BY <1>3, <1>4, <1>6 DEF TypeOK
  <2>2. p.obj = o /\ p.grown <= s.grown /\ p.reset <= s.reset
    BY <1>4, <1>6, <2>1, SentinelAssumption
  <2>3. Counters(p) \in Readings(o) /\ Counters(s) \in Readings(o)
    BY <1>2, <2>1, <2>2, RowIsReading, SeenIsReading DEF AllRows
  <2>4. ReadBefore(Counters(p), Counters(s)) \/ ReadBefore(Counters(s), Counters(p))
    BY <1>2, <2>3 DEF DeltaInv, ReadingsInv
  <2>5. /\ s.raw \in Nat /\ s.reset \in Nat /\ s.grown \in Nat
        /\ p.raw \in Nat /\ p.reset \in Nat /\ p.grown \in Nat
    BY <1>2, <2>1 DEF Reading, Row
  <2>6. ReadBefore(p, s)
    <3>1. CASE ReadBefore(Counters(p), Counters(s))
      BY <3>1 DEF ReadBefore, Counters
    <3>2. CASE ReadBefore(Counters(s), Counters(p))
      <4>1. s.grown = p.grown /\ s.reset = p.reset /\ p.raw - s.raw = p.grown - s.grown
        BY <2>2, <2>5, <3>2 DEF ReadBefore, Counters
      <4>2. QED
        BY <2>5, <4>1 DEF ReadBefore
    <3>3. QED
      BY <2>4, <3>1, <3>2
  <2>7. /\ IntervalDelta(o, s, p) <= s.grown - p.grown
        /\ s.reset = p.reset => IntervalDelta(o, s, p) = s.grown - p.grown
        /\ s.reset # p.reset /\ Kind[o] = "database" => IntervalDelta(o, s, p) = s.raw
    BY <1>2, <2>1, <2>2, <2>6, OrderedDelta
  <2>8. p # NoRow
    BY <2>1, SentinelAssumption
  <2>9. QED
    BY <1>4, <2>7, <2>8 DEF HonestDelta
<1>7. QED
  BY <1>5, <1>6 DEF HonestIfInOrder

(* update_query_texts changes neither counters nor deltas.                 *)
LEMMA TextsKeepDeltas ==
  ASSUME TypeOK, DeltaInv, NEW a \in Agents, NEW keys,
         NEW r \in WithTexts(job[a].rows, keys)
  PROVE  Counters(r) \in Readings(r.obj) /\ HonestIfInOrder(r)
<1>1. PICK q \in job[a].rows :
        r = q \/ r = [q EXCEPT !.text = TRUE, !.attr = source[q.obj].attr]
  BY DEF WithTexts
<1>2. q \in AllRows /\ q \in Row
  BY RowsTyped DEF AllRows
<1>3. /\ r.obj = q.obj /\ r.raw = q.raw /\ r.reset = q.reset /\ r.grown = q.grown
      /\ r.delta = q.delta /\ r.prev = q.prev
  BY <1>1, <1>2 DEF Row
<1>4. Counters(r) = Counters(q)
  BY <1>3 DEF Counters
<1>5. HonestIfInOrder(q)
  BY <1>2 DEF DeltaInv
<1>6. HonestIfInOrder(r)
  BY <1>3, <1>5 DEF HonestIfInOrder, HonestDelta
<1>7. QED
  BY <1>2, <1>3, <1>4, <1>6, RowIsReading

LEMMA DeltaStep == TypeOK /\ DeltaInv /\ [Next]_vars => DeltaInv'
<1> SUFFICES ASSUME TypeOK, DeltaInv, [Next]_vars PROVE DeltaInv'
  OBVIOUS
<1>1. ASSUME NEW a \in Agents, NEW r \in job[a].rows
      PROVE  Counters(r) \in Readings(r.obj) /\ HonestIfInOrder(r)
  BY RowIsReading DEF AllRows, DeltaInv
<1>2. ASSUME NEW a \in Agents, Begin(a) \/ Commit(a) \/ Abort(a) PROVE DeltaInv'
  <2>1. source' = source /\ samples' \subseteq AllRows
    BY <1>2 DEF Begin, Commit, Abort, Repository, AllRows
  <2>2. \A b \in Agents \ {a} : job'[b] = job[b]
    BY <1>2 DEF Begin, Commit, Abort, TypeOK
  <2>3. job'[a].rows = {} /\ \A o \in Objects : job'[a].seen[o] = NoRow
    <3>1. CASE Begin(a)
      BY <3>1 DEF Begin, NoJob, TypeOK
    <3>2. CASE Commit(a) \/ Abort(a)
      BY <3>2 DEF Commit, Abort, NoJob, TypeOK
    <3>3. QED
      BY <1>2, <3>1, <3>2
  <2>4. QED
    BY <2>1, <2>2, <2>3, AgentStep
<1>3. ASSUME NEW a \in Agents, OpenTransaction(a) \/ EnsureInstance(a) \/ PersistEvents(a)
      PROVE  DeltaInv'
  <2>1. source' = source /\ samples' \subseteq AllRows
    BY <1>3 DEF OpenTransaction, EnsureInstance, PersistEvents, Repository, AllRows
  <2>2. \A b \in Agents \ {a} : job'[b] = job[b]
    BY <1>3 DEF OpenTransaction, EnsureInstance, PersistEvents, TypeOK
  <2>3. job'[a].rows = job[a].rows /\ job'[a].seen = job[a].seen
    BY <1>3 DEF OpenTransaction, EnsureInstance, PersistEvents, TypeOK, Job
  <2>4. QED
    BY <1>1, <2>1, <2>2, <2>3, AgentStep
<1>4. ASSUME NEW a \in Agents,
             ReadDatabase(a) \/ ReadStatements(a) \/ ReadTables(a) \/ ReadIndexes(a)
      PROVE  DeltaInv'
  <2>1. source' = source /\ samples' \subseteq AllRows
    BY <1>4 DEF ReadDatabase, ReadStatements, ReadTables, ReadIndexes, Repository, AllRows
  <2>2. \A b \in Agents \ {a} : job'[b] = job[b]
    BY <1>4 DEF ReadDatabase, ReadStatements, ReadTables, ReadIndexes, TypeOK
  <2>3. job[a] \in Job /\ a \in DOMAIN job
    BY DEF TypeOK
  <2>4. /\ job'[a].rows = job[a].rows
        /\ \/ job'[a].seen = Read(job[a].seen, OfKind({"database"}), job[a].sizes)
           \/ job'[a].seen = Read(job[a].seen, Statements, Mode = "all")
           \/ job'[a].seen = Read(job[a].seen, OfKind({"table"}), job[a].sizes)
           \/ job'[a].seen = Read(job[a].seen, OfKind({"index"}), job[a].sizes)
    <3>1. CASE ReadDatabase(a)
      BY <2>3, <3>1 DEF ReadDatabase, Job
    <3>2. CASE ReadStatements(a)
      BY <2>3, <3>2 DEF ReadStatements, Job
    <3>3. CASE ReadTables(a)
      BY <2>3, <3>3 DEF ReadTables, Job
    <3>4. CASE ReadIndexes(a)
      BY <2>3, <3>4 DEF ReadIndexes, Job
    <3>5. QED
      BY <1>4, <3>1, <3>2, <3>3, <3>4
  <2>5. ASSUME NEW o \in Objects
        PROVE  \/ job'[a].seen[o] = job[a].seen[o]
               \/ Counters(job'[a].seen[o]) = Counters(source[o])
    BY <2>4, ReadIsOfSource
  <2>6. QED
    BY <1>1, <2>1, <2>2, <2>4, <2>5, AgentStep
<1>5. ASSUME NEW a \in Agents, WriteSamples(a) PROVE DeltaInv'
  <2>1. PICK prev \in Lookups : job' = [job EXCEPT ![a].rows = Derived(a, prev)]
    BY <1>5 DEF WriteSamples
  <2>2. source' = source /\ samples' \subseteq AllRows
    BY <1>5 DEF WriteSamples, Repository, AllRows
  <2>3. \A b \in Agents \ {a} : job'[b] = job[b]
    BY <2>1 DEF TypeOK
  <2>4. job'[a].rows = Derived(a, prev) /\ job'[a].seen = job[a].seen
    BY <2>1 DEF TypeOK, Job
  <2>5. QED
    BY <2>2, <2>3, <2>4, DerivedIsHonest, AgentStep
<1>6. ASSUME NEW a \in Agents, Analyse(a) PROVE DeltaInv'
  <2>1. source' = source /\ samples' \subseteq AllRows
    BY <1>6 DEF Analyse, Repository, AllRows
  <2>2. /\ \A b \in Agents \ {a} : job'[b] = job[b]
        /\ job'[a].seen = job[a].seen
    BY <1>6, AnalyseKeeps
  <2>3. \A r \in job'[a].rows : Counters(r) \in Readings(r.obj) /\ HonestIfInOrder(r)
    <3>1. CASE job'[a].rows = job[a].rows
      BY <1>1, <3>1
    <3>2. CASE \E keys : job'[a].rows = WithTexts(job[a].rows, keys)
      BY <3>2, TextsKeepDeltas
    <3>3. QED
      BY <1>6, <3>1, <3>2, AnalyseKeeps
  <2>4. QED
    BY <2>1, <2>2, <2>3, AgentStep
<1>7. ASSUME UNCHANGED <<samples, job>>, ReadingsInv' PROVE DeltaInv'
  BY <1>7 DEF DeltaInv, AllRows, HonestIfInOrder, HonestDelta
<1>8. ASSUME NEW o \in Objects, Activity(o) PROVE DeltaInv'
  <2>1. UNCHANGED <<samples, job>>
    BY <1>8 DEF Activity, Repository
  <2>2. ReadingsInv'
    BY <1>8, <2>1, ActivityMoves, SourceMoves DEF DeltaInv
  <2>3. QED
    BY <1>7, <2>1, <2>2
<1>9. ASSUME NEW os, Reset(os) PROVE DeltaInv'
  <2>1. UNCHANGED <<samples, job>>
    BY <1>9 DEF Reset, Repository
  <2>2. ReadingsInv'
    BY <1>9, <2>1, ResetMoves, SourceMoves DEF DeltaInv
  <2>3. QED
    BY <1>7, <2>1, <2>2
<1>10. ASSUME NEW o \in Objects, Resize(o) PROVE DeltaInv'
  <2>1. UNCHANGED <<samples, job>>
    BY <1>10 DEF Resize, Repository
  <2>2. ReadingsInv'
    BY <1>10, <2>1, ResizeMoves, SourceMoves DEF DeltaInv
  <2>3. QED
    BY <1>7, <2>1, <2>2
<1>11. CASE UNCHANGED vars
  BY <1>11
  DEF vars, DeltaInv, ReadingsInv, Readings, AllRows, Counters, ReadBefore,
      HonestIfInOrder, HonestDelta
<1>12. QED
  BY <1>2, <1>3, <1>4, <1>5, <1>6, <1>8, <1>9, <1>10, <1>11
  DEF Next, Step, Environment, ResetDatabase, ResetObject

(* Delta arithmetic is right whatever cycles overlap and however often the *)
(* source is reset: the only way to a wrong delta is a row that was read   *)
(* after the one being stored (or belongs to another object).              *)
THEOREM InOrderDeltasAreHonest == Spec => []InOrderDeltaIsHonest
<1>1. Init => DeltaInv
  BY DEF Init, NoJob, DeltaInv, ReadingsInv, Readings, AllRows
<1>2. DeltaInv => InOrderDeltaIsHonest
  BY DEF DeltaInv, InOrderDeltaIsHonest, AllRows
<1>3. QED
  BY <1>1, <1>2, DeltaStep, TypeCorrect, PTL DEF Spec

=============================================================================
