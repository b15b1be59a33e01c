---------------------------- MODULE BootstrapProofs ----------------------------
(***************************************************************************)
(* Proofs about Bootstrap, for any number of operators and crashes.        *)
(***************************************************************************)
EXTENDS Bootstrap, TLAPS

(* LastSetting stops the configuration at the last setting.  Together with *)
(* TypeOK this is inductive: a run that configures has settings to make.   *)
ConfigureInv == \A p \in Operators : pc[p] = "configure" =>
                  /\ monitor.byUs /\ monitor.settings < Guardrails
                  /\ \A q \in Operators : pc[q] = "configure" => p = q

LEMMA NewRoleTyped == NewRole \in Role /\ NoRole \in Role /\ AdminRoles \subseteq Role
<1>1. NoRole \in Role
  BY DEF NoRole, Role, Guardrails
<1>2. NewRole \in Role
  BY <1>1 DEF NewRole, Role
<1>3. {0, Guardrails} \subseteq 0..Guardrails
  BY DEF Guardrails
<1>4. AdminRoles \subseteq Role
  BY <1>3 DEF AdminRoles, Role
<1>5. QED
  BY <1>1, <1>2, <1>4

LEMMA NewRoleIs ==
  /\ NewRole.exists /\ NewRole.login /\ ~NewRole.elevated /\ NewRole.byUs
  /\ NewRole.settings = 0
  BY DEF NewRole, NoRole

LEMMA TypeStep == TypeOK /\ ConfigureInv /\ [Next]_vars => TypeOK'
<1> SUFFICES ASSUME TypeOK, ConfigureInv, [Next]_vars PROVE TypeOK'
  OBVIOUS
<1> USE DEF Labels
<1>1. NoJob \in Job
  BY DEF NoJob, Job
<1>2. ASSUME NEW p \in Operators, Start(p) PROVE TypeOK'
  BY <1>2 DEF TypeOK, Start, Goto, Clusters, NoJob, Job
<1>3. ASSUME NEW p \in Operators, FindMonitor(p) \/ FindWriter(p) \/ FindDatabase(p) PROVE TypeOK'
  BY <1>1, <1>3 DEF TypeOK, FindMonitor, FindWriter, FindDatabase, Goto, Refuse, Clusters
<1>4. ASSUME NEW p \in Operators, CreateMonitor(p) \/ CreateWriter(p) \/ CreateDatabase(p) PROVE TypeOK'
  BY <1>1, <1>4, NewRoleTyped DEF TypeOK, CreateMonitor, CreateWriter, CreateDatabase, Goto, Refuse
<1>5. ASSUME NEW p \in Operators, Configure(p) PROVE TypeOK'
  <2>1. monitor.settings + 1 \in 0..Guardrails
    BY <1>5 DEF TypeOK, Configure, Goto, ConfigureInv, Role, Guardrails
  <2>2. monitor' \in Role
    BY <1>5, <2>1 DEF TypeOK, Configure, Role
  <2>3. QED
    BY <1>5, <2>2 DEF TypeOK, Configure, Goto
<1>6. ASSUME NEW p \in Operators, GrantMonitor(p) \/ GrantConnect(p) PROVE TypeOK'
  <2>1. monitor' \in Role
    BY <1>6 DEF TypeOK, GrantMonitor, GrantConnect, Role
  <2>2. QED
    BY <1>6, <2>1 DEF TypeOK, GrantMonitor, GrantConnect, Goto
<1>7. ASSUME NEW p \in Operators, ReadSchema(p) \/ ApplySchema(p) PROVE TypeOK'
  <2>1. job' \in [Operators -> Job]
    <3>1. (schema = 0) \in BOOLEAN
      OBVIOUS
    <3>2. \A b \in BOOLEAN : [job EXCEPT ![p].initialize = b] \in [Operators -> Job]
      BY DEF TypeOK, Job
    <3>3. QED
      BY <1>7, <3>1, <3>2 DEF TypeOK, ReadSchema, ApplySchema
  <2>2. QED
    BY <1>7, <2>1 DEF TypeOK, ReadSchema, ApplySchema, Goto, Clusters
<1>8. ASSUME NEW p \in Operators, Migrate(p) \/ Report(p) PROVE TypeOK'
  <2>1. CASE Migrate(p)
    BY <2>1 DEF TypeOK, Migrate, Migrated, Current, Goto
  <2>2. CASE Report(p)
    BY <1>1, <2>2 DEF TypeOK, Report, Goto, Clusters
  <2>3. QED
    BY <1>8, <2>1, <2>2
<1>9. ASSUME NEW p \in Operators, Abort(p) PROVE TypeOK'
  BY <1>1, <1>9 DEF TypeOK, Abort, Clusters
<1>10. ASSUME UNCHANGED vars PROVE TypeOK'
  BY <1>10 DEF TypeOK, vars
<1>11. QED
  BY <1>2, <1>3, <1>4, <1>5, <1>6, <1>7, <1>8, <1>9, <1>10 DEF Next, Step

(* Only one run ever configures the role, and it still has settings to     *)
(* make; a role is created only while there is none.                       *)
Exclusive ==
  /\ ConfigureInv
  /\ ~monitor.exists => \A p \in Operators : pc[p] # "configure"

LEMMA ExclusiveStep == TypeOK /\ Exclusive /\ [Next]_vars => Exclusive'
<1> SUFFICES ASSUME TypeOK, Exclusive, [Next]_vars PROVE Exclusive'
  OBVIOUS
<1> USE DEF Exclusive, ConfigureInv
<1>1. ASSUME NEW p \in Operators, CreateMonitor(p) PROVE Exclusive'
  <2>1. CASE ~monitor.exists /\ monitor' = NewRole /\ Goto(p, "createMonitor", "configure")
    BY <2>1, NewRoleIs DEF TypeOK, Goto, Guardrails
  <2>2. CASE monitor.exists /\ monitor' = monitor /\ Refuse(p, "createMonitor")
    BY <2>2 DEF TypeOK, Refuse, Goto
  <2>3. QED
    BY <1>1, <2>1, <2>2 DEF CreateMonitor
<1>2. ASSUME NEW p \in Operators, Configure(p) PROVE Exclusive'
  <2>1. pc[p] = "configure" /\ monitor.byUs /\ monitor.settings < Guardrails /\ monitor.exists
    BY <1>2 DEF Configure, Goto
  <2>2. /\ monitor'.byUs /\ monitor'.exists /\ monitor'.settings = monitor.settings + 1
        /\ monitor.settings \in Nat
    BY <1>2, <2>1 DEF Configure, TypeOK, Role
  <2>3. pc'[p] = "configure" => monitor'.settings < Guardrails
    BY <1>2, <2>1, <2>2 DEF Configure, Goto, TypeOK, LastSetting, Guardrails
  <2>4. \A q \in Operators \ {p} : pc'[q] = pc[q] /\ pc[q] # "configure"
    BY <1>2, <2>1 DEF Configure, Goto, TypeOK
  <2>5. QED
    BY <2>2, <2>3, <2>4
<1>3. ASSUME NEW p \in Operators, GrantMonitor(p) \/ GrantConnect(p) PROVE Exclusive'
  <2>1. /\ monitor'.byUs = monitor.byUs /\ monitor'.settings = monitor.settings
        /\ monitor'.exists = monitor.exists
    BY <1>3 DEF GrantMonitor, GrantConnect, TypeOK, Role
  <2>2. \A q \in Operators : pc'[q] = "configure" => pc[q] = "configure"
    BY <1>3 DEF GrantMonitor, GrantConnect, Goto, TypeOK
  <2>3. QED
    BY <2>1, <2>2
<1>4. ASSUME monitor' = monitor, \A q \in Operators : pc'[q] = "configure" => pc[q] = "configure"
      PROVE  Exclusive'
  BY <1>4
<1>5. ASSUME NEW p \in Operators,
             \/ Start(p) \/ FindMonitor(p) \/ FindWriter(p) \/ CreateWriter(p) \/ FindDatabase(p)
             \/ CreateDatabase(p) \/ ReadSchema(p) \/ ApplySchema(p) \/ Migrate(p) \/ Report(p)
             \/ Abort(p)
      PROVE  monitor' = monitor /\ \A q \in Operators : pc'[q] = "configure" => pc[q] = "configure"
  BY <1>5 DEF Start, FindMonitor, FindWriter, CreateWriter, FindDatabase, CreateDatabase,
              ReadSchema, ApplySchema, Migrate, Report, Abort, Goto, Refuse, Clusters, TypeOK
<1>6. CASE UNCHANGED vars
  BY <1>4, <1>6 DEF vars
<1>7. QED
  BY <1>1, <1>2, <1>3, <1>4, <1>5, <1>6 DEF Next, Step

(* Every reachable state of bootstrap_postgres is well typed, and no run   *)
(* makes a setting twice or one too many (bootstrap.py:118-121).           *)
THEOREM BootstrapTyped == Spec => []TypeOK
<1>1. Init => TypeOK /\ Exclusive
  <2> SUFFICES ASSUME Init PROVE TypeOK /\ Exclusive
    OBVIOUS
  <2>1. monitor \in Role /\ writer \in Role
    BY NewRoleTyped DEF Init
  <2>2. NoJob \in Job /\ "idle" \in Labels
    BY DEF NoJob, Job, Labels
  <2>3. schema \in 0..Current /\ database \in {"none", "writer", "other"}
    BY DEF Init, Current
  <2>4. pc \in [Operators -> Labels] /\ job \in [Operators -> Job]
    BY <2>2 DEF Init
  <2>5. TypeOK
    BY <2>1, <2>3, <2>4 DEF Init, TypeOK
  <2>6. \A p \in Operators : pc[p] # "configure"
    BY DEF Init
  <2>7. QED
    BY <2>5, <2>6 DEF Exclusive, ConfigureInv
<1>2. TypeOK /\ Exclusive /\ [Next]_vars => TypeOK' /\ Exclusive'
  BY TypeStep, ExclusiveStep DEF Exclusive
<1>3. QED
  BY <1>1, <1>2, PTL DEF Spec

-----------------------------------------------------------------------------

(* What is in place stays in place.                                        *)
Grows(r, s) ==
  r.exists =>
    /\ s.exists /\ s.login = r.login /\ s.elevated = r.elevated /\ s.byUs = r.byUs
    /\ r.member => s.member
    /\ r.connect => s.connect

LEMMA NothingIsUndone ==
  ASSUME TypeOK, [Next]_vars
  PROVE  /\ Grows(monitor, monitor') /\ Grows(writer, writer')
         /\ database = "writer" => database' = "writer"
         /\ schema > 0 => schema' > 0
         /\ schema = Current => schema' = Current
<1> USE DEF Grows
<1>1. monitor \in Role /\ writer \in Role /\ schema \in 0..Current
  BY DEF TypeOK
<1>2. ASSUME NEW p \in Operators, CreateMonitor(p) \/ CreateWriter(p) \/ CreateDatabase(p)
      PROVE  /\ Grows(monitor, monitor') /\ Grows(writer, writer')
             /\ database = "writer" => database' = "writer"
             /\ schema' = schema
  BY <1>2 DEF CreateMonitor, CreateWriter, CreateDatabase
<1>3. ASSUME NEW p \in Operators, Configure(p) \/ GrantMonitor(p) \/ GrantConnect(p)
      PROVE  /\ Grows(monitor, monitor') /\ Grows(writer, writer')
             /\ database' = database /\ schema' = schema
  BY <1>1, <1>3 DEF Configure, GrantMonitor, GrantConnect, Role
<1>4. ASSUME NEW p \in Operators, Migrate(p)
      PROVE  /\ UNCHANGED <<monitor, writer, database>>
             /\ schema > 0 => schema' > 0
             /\ schema = Current => schema' = Current
  BY <1>1, <1>4 DEF Migrate, Migrated, Current
<1>5. ASSUME NEW p \in Operators,
             \/ Start(p) \/ FindMonitor(p) \/ FindWriter(p) \/ FindDatabase(p)
             \/ ReadSchema(p) \/ ApplySchema(p) \/ Report(p) \/ Abort(p)
      PROVE  UNCHANGED Clusters
  BY <1>5 DEF Start, FindMonitor, FindWriter, FindDatabase, ReadSchema, ApplySchema, Report, Abort
<1>6. QED
  BY <1>2, <1>3, <1>4, <1>5 DEF Next, Step, Clusters, vars

(* The obligations of one run, and all of them.                            *)
Progress(p) ==
  /\ Reached(p, {"configure", "grantMonitor", "grantConnect"} \cup AfterConnect) =>
       monitor.exists /\ Usable(monitor)
  /\ Reached(p, {"grantConnect"} \cup AfterConnect) => monitor.member
  /\ Reached(p, AfterConnect) => monitor.connect
  /\ Reached(p, AfterWriter) => writer.exists /\ Usable(writer)
  /\ Reached(p, AfterDatabase) => database = "writer"
  /\ Reached(p, {"applySchema", "migrate"}) => job[p].initialize \/ schema > 0
  /\ Reached(p, {"report"}) => schema = Current

LEMMA OthersKeepProgress ==
  ASSUME TypeOK, [Next]_vars, NEW p \in Operators, Progress(p), pc'[p] = pc[p], job'[p] = job[p]
  PROVE  Progress(p)'
<1>1. /\ Grows(monitor, monitor') /\ Grows(writer, writer')
      /\ database = "writer" => database' = "writer"
      /\ schema > 0 => schema' > 0
      /\ schema = Current => schema' = Current
  BY NothingIsUndone
<1>2. \A l : Reached(p, l)' <=> Reached(p, l)
  BY DEF Reached
<1>3. (\E x \in {monitor} : x.exists /\ Usable(x)) => monitor'.exists /\ Usable(monitor')
  BY <1>1 DEF Grows, Usable
<1>4. QED
  BY <1>1, <1>2, <1>3 DEF Progress, Grows, Usable, Reached, AfterConnect, AfterWriter, AfterDatabase

(* A step of one run keeps what the others have reached.                   *)
LEMMA StepIsLocal ==
  ASSUME TypeOK, NEW p \in Operators, Start(p) \/ Step(p) \/ Abort(p)
  PROVE  \A q \in Operators \ {p} : pc'[q] = pc[q] /\ job'[q] = job[q]
<1>1. CASE Start(p) \/ FindMonitor(p) \/ FindWriter(p) \/ FindDatabase(p)
  BY <1>1 DEF Start, FindMonitor, FindWriter, FindDatabase, Goto, Refuse, TypeOK
<1>2. CASE CreateMonitor(p) \/ CreateWriter(p) \/ CreateDatabase(p)
  BY <1>2 DEF CreateMonitor, CreateWriter, CreateDatabase, Goto, Refuse, TypeOK
<1>3. CASE Configure(p) \/ GrantMonitor(p) \/ GrantConnect(p)
  BY <1>3 DEF Configure, GrantMonitor, GrantConnect, Goto, TypeOK
<1>4. CASE ReadSchema(p) \/ ApplySchema(p) \/ Migrate(p) \/ Report(p) \/ Abort(p)
  BY <1>4 DEF ReadSchema, ApplySchema, Migrate, Report, Abort, Goto, TypeOK
<1>5. QED
  BY <1>1, <1>2, <1>3, <1>4 DEF Step

(* A run that is over, or has just begun, owes nothing.                    *)
LEMMA IdleOwesNothing ==
  ASSUME NEW p \in Operators,
         pc[p] \in {"idle", "findMonitor", "createMonitor"}
  PROVE  Progress(p)
BY DEF Progress, Reached, AfterConnect, AfterWriter, AfterDatabase

(* The run that moves has in place what its next place in the code needs.  *)
LEMMA OwnProgress ==
  ASSUME TypeOK, Exclusive, NEW p \in Operators, Progress(p), Start(p) \/ Step(p) \/ Abort(p)
  PROVE  Progress(p)'
<1> USE DEF Goto, Reached, AfterConnect, AfterWriter, AfterDatabase
<1>1. pc \in [Operators -> Labels] /\ job \in [Operators -> Job]
  BY DEF TypeOK
<1>2. pc'[p] \in {"idle", "findMonitor", "createMonitor"} => Progress(p)'
  BY IdleOwesNothing DEF Progress
<1>3. CASE Start(p)
  BY <1>1, <1>2, <1>3 DEF Start
<1>4. CASE Abort(p)
  BY <1>1, <1>2, <1>4 DEF Abort
<1>5. CASE FindMonitor(p)
  BY <1>1, <1>2, <1>5 DEF FindMonitor, Refuse, Clusters, Progress
<1>6. CASE CreateMonitor(p)
  <2>1. CASE monitor' = NewRole /\ Goto(p, "createMonitor", "configure")
    BY <1>1, <2>1, NewRoleIs DEF Progress, Usable
  <2>2. CASE Refuse(p, "createMonitor")
    BY <1>1, <1>2, <2>2 DEF Refuse
  <2>3. QED
    BY <1>6, <2>1, <2>2 DEF CreateMonitor
<1>7. CASE Configure(p)
  <2>1. Usable(monitor) /\ monitor.exists
    BY <1>7 DEF Configure, Progress
  <2>2. Usable(monitor') /\ monitor'.exists
    BY <1>7, <2>1 DEF Configure, TypeOK, Role, Usable
  <2>3. pc'[p] \in {"configure", "grantMonitor"}
    BY <1>1, <1>7 DEF Configure
  <2>4. QED
    BY <2>2, <2>3 DEF Progress
<1>8. CASE GrantMonitor(p)
  <2>1. Usable(monitor') /\ monitor'.exists /\ monitor'.member
    BY <1>8 DEF GrantMonitor, TypeOK, Role, Usable, Progress
  <2>2. pc'[p] = "grantConnect"
    BY <1>1, <1>8 DEF GrantMonitor
  <2>3. QED
    BY <2>1, <2>2 DEF Progress
<1>9. CASE GrantConnect(p)
  <2>1. Usable(monitor') /\ monitor'.exists /\ monitor'.member /\ monitor'.connect
    BY <1>9 DEF GrantConnect, TypeOK, Role, Usable, Progress
  <2>2. pc'[p] = "findWriter"
    BY <1>1, <1>9 DEF GrantConnect
  <2>3. QED
    BY <2>1, <2>2 DEF Progress
<1>10. CASE FindWriter(p)
  BY <1>1, <1>2, <1>10 DEF FindWriter, Refuse, Clusters, Progress
<1>11. CASE CreateWriter(p)
  <2>1. CASE writer' = NewRole /\ Goto(p, "createWriter", "findDatabase")
    BY <1>1, <1>11, <2>1, NewRoleIs DEF CreateWriter, Progress, Usable
  <2>2. CASE Refuse(p, "createWriter")
    BY <1>1, <1>2, <2>2 DEF Refuse
  <2>3. QED
    BY <1>11, <2>1, <2>2 DEF CreateWriter
<1>12. CASE FindDatabase(p)
  BY <1>1, <1>2, <1>12 DEF FindDatabase, Fits, Refuse, Clusters, Progress
<1>13. CASE CreateDatabase(p)
  <2>1. CASE database' = "writer" /\ Goto(p, "createDatabase", "readSchema")
    BY <1>1, <1>13, <2>1 DEF CreateDatabase, Progress
  <2>2. CASE Refuse(p, "createDatabase")
    BY <1>1, <1>2, <2>2 DEF Refuse
  <2>3. QED
    BY <1>13, <2>1, <2>2 DEF CreateDatabase
<1>14. CASE ReadSchema(p)
  <2>1. job'[p].initialize = (schema = 0)
    BY <1>1, <1>14 DEF ReadSchema, Job
  <2>2. job'[p].initialize \/ schema' > 0
    <3>1. schema = 0 => job'[p].initialize
      BY <2>1
    <3>2. schema # 0 => schema' > 0
      BY <1>14 DEF ReadSchema, Clusters, TypeOK, Current
    <3>3. QED
      BY <3>1, <3>2
  <2>3. pc'[p] = "applySchema" /\ pc[p] = "readSchema"
    BY <1>1, <1>14 DEF ReadSchema
  <2>4. QED
    BY <1>14, <2>2, <2>3 DEF ReadSchema, Clusters, Progress
<1>15. CASE ApplySchema(p)
  BY <1>1, <1>15 DEF ApplySchema, Clusters, Progress
<1>16. CASE Migrate(p)
  <2>1. pc[p] = "migrate" /\ pc'[p] = "report"
    BY <1>1, <1>16 DEF Migrate
  <2>2. schema' = Current
    BY <1>16, <2>1 DEF Migrate, Migrated, Progress
  <2>3. QED
    BY <1>16, <2>1, <2>2 DEF Migrate, Progress
<1>17. CASE Report(p)
  BY <1>1, <1>2, <1>17 DEF Report
<1>18. QED
  BY <1>3, <1>4, <1>5, <1>6, <1>7, <1>8, <1>9, <1>10, <1>11, <1>12, <1>13, <1>14,
     <1>15, <1>16, <1>17 DEF Step

LEMMA CompleteStep ==
  ASSUME TypeOK, ProgressInv, [Next]_vars
  PROVE  SuccessIsComplete'
<1> USE DEF Grows
<1>1. /\ Grows(monitor, monitor') /\ Grows(writer, writer')
      /\ database = "writer" => database' = "writer"
      /\ schema = Current => schema' = Current
  BY NothingIsUndone
<1>2. Complete => Complete'
  BY <1>1 DEF Complete, Usable
<1>3. ASSUME NEW p \in Operators, Report(p) PROVE Complete
  <2>1. Progress(p) /\ pc[p] = "report"
    BY <1>3 DEF ProgressInv, Progress, Report, Goto
  <2>2. QED
    BY <2>1 DEF Progress, Reached, AfterConnect, AfterWriter, AfterDatabase, Complete
<1>4. completed' = completed \/ \E p \in Operators : Report(p)
  BY DEF Next, Step, vars, Start, FindMonitor, CreateMonitor, Configure, GrantMonitor,
         GrantConnect, FindWriter, CreateWriter, FindDatabase, CreateDatabase, ReadSchema,
         ApplySchema, Migrate, Abort
<1>5. QED
  BY <1>2, <1>3, <1>4 DEF ProgressInv, SuccessIsComplete

LEMMA ProgressStep == TypeOK /\ Exclusive /\ ProgressInv /\ [Next]_vars => ProgressInv'
<1> SUFFICES ASSUME TypeOK, Exclusive, ProgressInv, [Next]_vars PROVE ProgressInv'
  OBVIOUS
<1>1. \A p \in Operators : Progress(p)
  BY DEF ProgressInv, Progress
<1>2. ASSUME NEW q \in Operators PROVE Progress(q)'
  <2>1. CASE UNCHANGED vars
    BY <1>1, <2>1, OthersKeepProgress DEF vars
  <2>2. ASSUME NEW p \in Operators, Start(p) \/ Step(p) \/ Abort(p) PROVE Progress(q)'
    <3>1. CASE p = q
      BY <1>1, <2>2, <3>1, OwnProgress
    <3>2. CASE p # q
      BY <1>1, <2>2, <3>2, StepIsLocal, OthersKeepProgress
    <3>3. QED
      BY <3>1, <3>2
  <2>3. QED
    BY <2>1, <2>2 DEF Next
<1>3. QED
  BY <1>2, CompleteStep DEF ProgressInv, Progress

LEMMA BootstrapInvariant == Spec => [](TypeOK /\ Exclusive /\ ProgressInv)
<1>1. Init => Exclusive /\ ProgressInv
  <2> SUFFICES ASSUME Init PROVE Exclusive /\ ProgressInv
    OBVIOUS
  <2>1. \A p \in Operators : pc[p] = "idle"
    BY DEF Init
  <2>2. \A p \in Operators : Progress(p)
    BY <2>1, IdleOwesNothing
  <2>3. QED
    BY <2>1, <2>2 DEF Init, Exclusive, ConfigureInv, ProgressInv, Progress, SuccessIsComplete
<1>2. TypeOK /\ Exclusive /\ ProgressInv /\ [Next]_vars => Exclusive' /\ ProgressInv'
  BY ExclusiveStep, ProgressStep
<1>3. QED
  BY <1>1, <1>2, BootstrapTyped, PTL DEF Spec

(* Wherever a run is in bootstrap_postgres, everything it has passed is in *)
(* place, whatever other runs do.                                          *)
THEOREM ProgressIsKept == Spec => []ProgressInv
BY BootstrapInvariant, PTL

(* bootstrap_postgres returns only with both roles usable, the grants, the *)
(* database and the current schema in place; whatever earlier runs left    *)
(* behind and whatever other runs do at the same time (bootstrap.py:208).  *)
THEOREM BootstrapIsComplete == Spec => []SuccessIsComplete
<1>1. ProgressInv => SuccessIsComplete
  BY DEF ProgressInv
<1>2. QED
  BY <1>1, BootstrapInvariant, PTL

(* "Existing role attributes/passwords/settings are otherwise left         *)
(* untouched" (bootstrap.py:125): no run ever changes what an              *)
(* administrator made, but for the two grants, nor grants anything to a    *)
(* role that is elevated or cannot log in.                                 *)
THEOREM ForeignRolesAreKept == Spec => ForeignIsKept
<1> DEFINE Keeps ==
      /\ Kept(monitor, monitor') /\ Kept(writer, writer')
      /\ database # "none" => database' = database
      /\ database = "other" => schema' = schema
<1>1. ASSUME TypeOK, Exclusive, ProgressInv, [Next]_vars PROVE Keeps
  <2>1. monitor \in Role /\ writer \in Role
    BY <1>1 DEF TypeOK
  <2>2. \A r \in Role : Kept(r, r)
    BY DEF Kept, Role
  <2>3. ASSUME NEW p \in Operators,
               \/ Start(p) \/ FindMonitor(p) \/ FindWriter(p) \/ FindDatabase(p)
               \/ ReadSchema(p) \/ ApplySchema(p) \/ Report(p) \/ Abort(p)
        PROVE  Keeps
    BY <2>1, <2>2, <2>3 DEF Start, FindMonitor, FindWriter, FindDatabase, ReadSchema,
                            ApplySchema, Report, Abort, Clusters
  <2>4. ASSUME NEW p \in Operators, CreateMonitor(p) \/ CreateWriter(p) \/ CreateDatabase(p)
        PROVE  Keeps
    BY <2>1, <2>2, <2>4 DEF CreateMonitor, CreateWriter, CreateDatabase, Kept
  <2>5. ASSUME NEW p \in Operators, Configure(p) PROVE Keeps
    <3>1. monitor.byUs
      BY <1>1, <2>5 DEF Exclusive, ConfigureInv, Configure, Goto
    <3>2. QED
      BY <2>1, <2>2, <2>5, <3>1 DEF Configure, Kept
  <2>6. ASSUME NEW p \in Operators, GrantMonitor(p) \/ GrantConnect(p) PROVE Keeps
    <3>1. Usable(monitor)
      BY <1>1, <2>6 DEF ProgressInv, Reached, GrantMonitor, GrantConnect, Goto
    <3>2. Kept(monitor, monitor')
      BY <2>1, <2>6, <3>1 DEF GrantMonitor, GrantConnect, Kept, Usable, Role
    <3>3. QED
      BY <2>1, <2>2, <2>6, <3>2 DEF GrantMonitor, GrantConnect
  <2>7. ASSUME NEW p \in Operators, Migrate(p) PROVE Keeps
    <3>1. database = "writer"
      BY <1>1, <2>7 DEF ProgressInv, Reached, AfterDatabase, Migrate, Goto
    <3>2. QED
      BY <2>1, <2>2, <2>7, <3>1 DEF Migrate
  <2>8. CASE UNCHANGED vars
    BY <2>1, <2>2, <2>8 DEF vars
  <2>9. QED
    BY <1>1, <2>3, <2>4, <2>5, <2>6, <2>7, <2>8 DEF Next, Step
<1>2. QED
  BY <1>1, BootstrapInvariant, PTL DEF Spec, ForeignIsKept

(* A role created by a bootstrap lacks settings only while its creator is  *)
(* making them or after its creator was stopped in the middle: no order of *)
(* successful statements of any number of runs leads there                 *)
(* (bootstrap.py:118-121).                                                 *)
THEOREM RoleIsGuarded == Spec => []GuardedUnlessInterrupted
<1>1. Init => GuardedUnlessInterrupted
  <2>1. ~NoRole.byUs /\ \A r \in AdminRoles : ~r.byUs
    BY DEF NoRole, AdminRoles
  <2>2. QED
    BY <2>1 DEF Init, GuardedUnlessInterrupted
<1>2. ASSUME TypeOK, Exclusive, [Next]_vars, GuardedUnlessInterrupted
      PROVE  GuardedUnlessInterrupted'
  <2>1. monitor \in Role /\ pc \in [Operators -> Labels]
    BY <1>2 DEF TypeOK
  <2>2. ASSUME NEW p \in Operators, CreateMonitor(p) PROVE GuardedUnlessInterrupted'
    <3>1. CASE Goto(p, "createMonitor", "configure")
      <4>1. pc'[p] = "configure"
        BY <2>1, <3>1 DEF Goto
      <4>2. QED
        BY <4>1 DEF GuardedUnlessInterrupted
    <3>2. CASE monitor' = monitor /\ Refuse(p, "createMonitor")
      <4>1. unfinished' = unfinished
        BY <2>2 DEF CreateMonitor
      <4>2. \A q \in Operators : pc[q] = "configure" => pc'[q] = "configure"
        BY <2>1, <3>2 DEF Refuse, Goto
      <4>3. QED
        BY <1>2, <3>2, <4>1, <4>2 DEF GuardedUnlessInterrupted
    <3>3. QED
      BY <2>2, <3>1, <3>2 DEF CreateMonitor
  <2>3. ASSUME NEW p \in Operators, Configure(p) PROVE GuardedUnlessInterrupted'
    <3>1. monitor'.settings = monitor.settings + 1
      BY <2>1, <2>3 DEF Configure, Role
    <3>2. CASE LastSetting(monitor.settings)
      BY <3>1, <3>2 DEF LastSetting, GuardedUnlessInterrupted
    <3>3. CASE ~LastSetting(monitor.settings)
      <4>1. pc'[p] = "configure"
        BY <2>1, <2>3, <3>3 DEF Configure, Goto
      <4>2. QED
        BY <4>1 DEF GuardedUnlessInterrupted
    <3>4. QED
      BY <3>2, <3>3
  <2>4. ASSUME NEW p \in Operators, GrantMonitor(p) \/ GrantConnect(p)
        PROVE  GuardedUnlessInterrupted'
    <3>1. /\ monitor'.byUs = monitor.byUs /\ monitor'.settings = monitor.settings
          /\ unfinished' = unfinished
      BY <2>1, <2>4 DEF GrantMonitor, GrantConnect, Role
    <3>2. \A q \in Operators : pc[q] = "configure" => pc'[q] = "configure"
      BY <2>1, <2>4 DEF GrantMonitor, GrantConnect, Goto
    <3>3. QED
      BY <1>2, <3>1, <3>2 DEF GuardedUnlessInterrupted
  <2>5. ASSUME NEW p \in Operators, Abort(p) PROVE GuardedUnlessInterrupted'
    <3>1. monitor' = monitor /\ unfinished' = (unfinished \/ pc[p] = "configure")
      BY <2>5 DEF Abort, Clusters
    <3>2. \A q \in Operators \ {p} : pc'[q] = pc[q]
      BY <2>1, <2>5 DEF Abort
    <3>3. QED
      BY <1>2, <3>1, <3>2 DEF GuardedUnlessInterrupted
  <2>6. ASSUME NEW p \in Operators,
               \/ Start(p) \/ FindMonitor(p) \/ FindWriter(p) \/ CreateWriter(p)
               \/ FindDatabase(p) \/ CreateDatabase(p) \/ ReadSchema(p) \/ ApplySchema(p)
               \/ Migrate(p) \/ Report(p)
        PROVE  GuardedUnlessInterrupted'
    <3>1. monitor' = monitor /\ unfinished' = unfinished
      BY <2>6 DEF Start, FindMonitor, FindWriter, CreateWriter, FindDatabase, CreateDatabase,
                  ReadSchema, ApplySchema, Migrate, Report, Clusters
    <3>2. \A q \in Operators : pc[q] = "configure" => pc'[q] = "configure"
      BY <2>1, <2>6 DEF Start, FindMonitor, FindWriter, CreateWriter, FindDatabase,
                        CreateDatabase, ReadSchema, ApplySchema, Migrate, Report, Goto,
                        Refuse
    <3>3. QED
      BY <1>2, <3>1, <3>2 DEF GuardedUnlessInterrupted
  <2>7. CASE UNCHANGED vars
    BY <1>2, <2>7 DEF vars, GuardedUnlessInterrupted
  <2>8. QED
    BY <1>2, <2>2, <2>3, <2>4, <2>5, <2>6, <2>7 DEF Next, Step
<1>3. QED
  BY <1>1, <1>2, BootstrapInvariant, PTL DEF Spec

=============================================================================
