---------------------------- MODULE UpgradeProofs ----------------------------
(***************************************************************************)
(* Proofs about Upgrade.tla, for any collectors next to the service, any   *)
(* versions and any number of faults and changes: that the invariant of    *)
(* its locks, names and checks holds, and what follows from it.            *)
(***************************************************************************)
EXTENDS Upgrade, TLAPS

USE MigrationAssumption, UpgradeAssumption

(* Every lock is one of the locks there are, and no two statements take    *)
(* the same.                                                               *)
LEMMA NeededLocks ==
  /\ DOMAIN Needed = {"name", "reference", "index", "alter", "instance", "row", "record"}
  /\ \A l \in DOMAIN Needed : Needed[l] \in Lock
BY DEF Needed, Lock, Resources, Modes

(* The statements that change the repository, other than a commit.         *)
MigratorRuns(m) == BeginMigration(m) \/ MigrationStep(m)

CollectorRuns(c) ==
  \/ BeginCycle(c) \/ PassGate(c, Need(CodeOf(c)))
  \/ ReadSource(c) \/ EnsureInstance(c) \/ LockRow(c) \/ InsertCycle(c)

(* A transaction that ends without having changed anything.                *)
Ends(s) == pc[s] # "idle" /\ Rollback(s)

(* What a step of the system is to the repository.                         *)
LEMMA RepositoryStep ==
  ASSUME [Next]_vars
  PROVE  \/ UNCHANGED repository
         \/ \E m \in Migrators : MigratorRuns(m) \/ CommitMigration(m)
         \/ \E c \in Collectors : CollectorRuns(c) \/ CommitCycle(c)
         \/ \E s \in Sessions : Ends(s)
         \/ Rollback(Daemon)
<1>1. CASE UNCHANGED vars
  BY <1>1 DEF vars
<1>2. ASSUME NEW c \in Collectors, Cycle(c) PROVE CollectorRuns(c) \/ CommitCycle(c) \/ Ends(c)
  BY <1>2 DEF Cycle, CollectorRuns, RefuseCycle, Ends
<1>3. ASSUME NEW c \in Collectors, RefuseSource(c) \/ CycleFails(c) PROVE Ends(c)
  BY <1>3 DEF RefuseSource, CycleFails, Break, Ends
<1>4. ASSUME NEW m \in Migrators, Migrate(m) \/ MigrationSucceeds(m)
      PROVE  MigratorRuns(m) \/ CommitMigration(m)
  BY <1>4 DEF Migrate, MigrationSucceeds, MigratorRuns
<1>5. ASSUME NEW m \in Migrators, MigrationFails(m) \/ MigrationBreaks(m) PROVE Ends(m)
  BY <1>5 DEF MigrationFails, MigrationBreaks, RefuseMigration, FindDuplicate, Break, Ends
<1>6. ASSUME NEW s \in Sessions, DeadlockBroken(s) PROVE Ends(s)
  <2>1. Locking(s)
    BY <1>6 DEF DeadlockBroken, BreakDeadlock, Deadlocked, WaitsFor
  <2>2. pc[s] # "idle"
    BY <2>1, NeededLocks DEF Locking
  <2> QED
    BY <1>6, <2>2 DEF DeadlockBroken, BreakDeadlock, Ends
<1>7. CASE OperatorMigrates \/ InstallerMigrates
  BY <1>7 DEF OperatorMigrates, InstallerMigrates, MigratorRuns
<1>8. CASE Crash \/ Restart
  BY <1>8 DEF Crash, Restart, Kill
<1>9. CASE Respawn \/ StartInstall \/ StartPip \/ FinishPip \/ Validate \/ Enable
           \/ InstallerDies \/ Change
  BY <1>9 DEF Respawn, StartInstall, StartPip, FinishPip, Validate, Enable, InstallerDies, Change
<1> QED
  BY <1>1, <1>2, <1>3, <1>4, <1>5, <1>6, <1>7, <1>8, <1>9 DEF Next, Sessions

(* Only a migration that loses to another one counts as a clash.           *)
LEMMA ClashOnly ==
  ASSUME [Next]_vars
  PROVE  UNCHANGED clashed \/ \E s \in Sessions : FindDuplicate(s) \/ BreakDeadlock(s)
<1>1. CASE UNCHANGED vars
  BY <1>1 DEF vars, repository
<1>2. ASSUME NEW c \in Collectors, Cycle(c) \/ RefuseSource(c) \/ CycleFails(c) PROVE UNCHANGED clashed
  BY <1>2 DEF Cycle, BeginCycle, PassGate, RefuseCycle, ReadSource, EnsureInstance, LockRow,
     InsertCycle, CommitCycle, RefuseSource, CycleFails, Break
<1>3. ASSUME NEW m \in Migrators, Migrate(m) \/ MigrationSucceeds(m) \/ MigrationBreaks(m)
      PROVE  UNCHANGED clashed
  BY <1>3 DEF Migrate, MigrationStep, ReadSchema, CreateTable, EnterName, AddReference,
     CreateIndex, AlterTable, MigrationSucceeds, CommitMigration, MigrationBreaks, Break
<1>4. ASSUME NEW m \in Migrators, MigrationFails(m) PROVE UNCHANGED clashed \/ FindDuplicate(m)
  BY <1>4 DEF MigrationFails, RefuseMigration
<1>5. CASE Crash \/ Restart \/ OperatorMigrates \/ InstallerMigrates
  BY <1>5 DEF Crash, Restart, Kill, OperatorMigrates, InstallerMigrates, BeginMigration
<1>6. CASE Respawn \/ StartInstall \/ StartPip \/ FinishPip \/ Validate \/ Enable
           \/ InstallerDies \/ Change
  BY <1>6 DEF Respawn, StartInstall, StartPip, FinishPip, Validate, Enable, InstallerDies,
     Change, repository
<1> QED
  BY <1>1, <1>2, <1>3, <1>4, <1>5, <1>6 DEF Next, Sessions, DeadlockBroken

-----------------------------------------------------------------------------
(* Types.                                                                  *)

LEMMA RepositoryTypes ==
  ASSUME MigrationTypeOK, [Next]_vars PROVE MigrationTypeOK'
<1> USE DEF MigrationTypeOK
<1>1. CASE UNCHANGED repository
  BY <1>1 DEF repository
<1>2. ASSUME NEW s \in Sessions, Rollback(s), clashed' \in BOOLEAN PROVE MigrationTypeOK'
  BY <1>2 DEF Rollback, Finish, Released, Labels, Current
<1>3. ASSUME NEW m \in Migrators, MigratorRuns(m) PROVE MigrationTypeOK'
  <2>1. m \in Sessions
    BY DEF Sessions
  <2>2. CASE BeginMigration(m) \/ ReadSchema(m) \/ CreateTable(m)
    BY <2>1, <2>2 DEF BeginMigration, ReadSchema, CreateTable, Pass, Labels
  <2>3. CASE EnterName(m) \/ AddReference(m) \/ CreateIndex(m) \/ AlterTable(m)
    <3>1. PICK to \in Labels, from \in DOMAIN Needed : Execute(m, from, to)
      BY <2>3, NeededLocks DEF EnterName, AddReference, CreateIndex, AlterTable, Labels
    <3>2. pc' \in [Sessions -> Labels] /\ held' \in [Sessions -> SUBSET Lock]
      BY <2>1, <3>1, NeededLocks DEF Execute
    <3>3. level' \in [Sessions -> 0..Current] /\ schema' = schema /\ clashed' = clashed
      BY <2>1, <2>3 DEF EnterName, AddReference, CreateIndex, AlterTable, Altered, Current
    <3> QED
      BY <3>2, <3>3
  <2> QED
    BY <1>3, <2>2, <2>3 DEF MigratorRuns, MigrationStep
<1>4. ASSUME NEW c \in Collectors, CollectorRuns(c) PROVE MigrationTypeOK'
  <2>1. c \in Sessions
    BY DEF Sessions
  <2>2. CASE BeginCycle(c) \/ PassGate(c, Need(CodeOf(c))) \/ ReadSource(c)
    BY <2>1, <2>2 DEF BeginCycle, PassGate, GateLocks, ReadSource, Pass, Labels
  <2>3. CASE EnsureInstance(c) \/ LockRow(c) \/ InsertCycle(c)
    <3>1. PICK to \in Labels, from \in DOMAIN Needed : Execute(c, from, to)
      BY <2>3, NeededLocks DEF EnsureInstance, LockRow, InsertCycle, Labels
    <3>2. UNCHANGED <<schema, level, clashed>>
      BY <2>3 DEF EnsureInstance, LockRow, InsertCycle
    <3> QED
      BY <2>1, <3>1, <3>2, NeededLocks DEF Execute
  <2> QED
    BY <1>4, <2>2, <2>3 DEF CollectorRuns
<1>5. ASSUME NEW s \in Sessions, CommitMigration(s) \/ CommitCycle(s) PROVE MigrationTypeOK'
  BY <1>5 DEF CommitMigration, CommitCycle, Finish, Released, Labels, Current
<1>6. clashed' \in BOOLEAN
  <2>1. CASE UNCHANGED clashed
    BY <2>1
  <2>2. CASE ~UNCHANGED clashed
    <3>1. PICK s \in Sessions : FindDuplicate(s) \/ BreakDeadlock(s)
      BY <2>2, ClashOnly
    <3> QED
      BY <3>1 DEF FindDuplicate, BreakDeadlock
  <2> QED
    BY <2>1, <2>2
<1> QED
  BY <1>1, <1>2, <1>3, <1>4, <1>5, <1>6, RepositoryStep DEF Sessions, Ends

LEMMA FlagsStep ==
  ASSUME wasActive \in BOOLEAN, vetted \in BOOLEAN, [Next]_vars
  PROVE  wasActive' \in BOOLEAN /\ vetted' \in BOOLEAN
<1>1. CASE UNCHANGED installer
  BY <1>1 DEF installer
<1>2. ASSUME NEW s \in Sessions,
             MigrationSucceeds(s) \/ MigrationFails(s) \/ MigrationBreaks(s) \/ DeadlockBroken(s)
      PROVE  wasActive' \in BOOLEAN /\ vetted' \in BOOLEAN
  BY <1>2, Zenon DEF MigrationSucceeds, MigrationFails, MigrationBreaks, DeadlockBroken, Proceed, Goto
<1>3. CASE StartPip \/ FinishPip \/ InstallerMigrates
  BY <1>3, Zenon DEF StartPip, FinishPip, InstallerMigrates, Goto
<1>4. CASE Restart \/ InstallerDies
  BY <1>4, Zenon DEF Restart, InstallerDies, Goto
<1>5. CASE Validate
  BY <1>5, Zenon DEF Validate, Goto
<1>6. CASE Enable
  BY <1>6, Zenon DEF Enable, Goto
<1>7. CASE StartInstall
  <2>1. Active \in BOOLEAN
    BY DEF Active
  <2>2. wasActive' = Active /\ vetted' = FALSE
    BY <1>7, Zenon DEF StartInstall
  <2> QED
    BY <2>1, <2>2, Zenon
<1>8. CASE Change
  BY <1>8, Zenon DEF Change
<1>9. CASE \E c \in Collectors : Cycle(c) \/ RefuseSource(c) \/ CycleFails(c)
  BY <1>1, <1>9, Zenon DEF Cycle, RefuseSource, CycleFails
<1>10. CASE Crash \/ Respawn \/ OperatorMigrates \/ \E m \in Migrators : Migrate(m)
  BY <1>1, <1>10, Zenon DEF Crash, Respawn, OperatorMigrates, Migrate
<1> QED
  BY <1>1, <1>2, <1>3, <1>4, <1>5, <1>6, <1>7, <1>8, <1>9, <1>10, Zenon
  DEF Next, Sessions, vars, installer

OtherTypes ==
  /\ disk \in {"old", "partial", "new"}
  /\ service \in {"off", "failed", "old", "new"}
  /\ loaded \in Expectations
  /\ step \in {"idle", "python", "pip", "migrate", "migrating", "validate", "enable", "restart"}
  /\ options \subseteq {"migrate", "enable"}
  /\ major \in Majors /\ pgss \in Extension /\ expected \in Expectations
  /\ faults \in Nat

(* What a step is to the variables outside the repository.                 *)
LEMMA InstallerKept == UNCHANGED installer => UNCHANGED step /\ UNCHANGED options
BY Zenon DEF installer

LEMMA CodeKept == UNCHANGED code => UNCHANGED disk /\ UNCHANGED service /\ UNCHANGED loaded
BY DEF code

LEMMA SourceKept == UNCHANGED source => UNCHANGED major /\ UNCHANGED pgss /\ UNCHANGED expected
BY DEF source

LEMMA OtherTypesStep == ASSUME OtherTypes, [Next]_vars PROVE OtherTypes'
<1> USE DEF OtherTypes
<1> DEFINE Steps == {"idle", "python", "pip", "migrate", "migrating", "validate", "enable", "restart"}
<1> DEFINE Program == disk' \in {"old", "partial", "new"}
                      /\ service' \in {"off", "failed", "old", "new"} /\ loaded' \in Expectations
<1> DEFINE Script == step' \in Steps /\ options' \subseteq {"migrate", "enable"}
<1> DEFINE Server == major' \in Majors /\ pgss' \in Extension /\ expected' \in Expectations
<1>1. UNCHANGED code => Program
  BY CodeKept
<1>2. UNCHANGED installer => Script
  BY InstallerKept
<1>3. UNCHANGED source => Server
  BY SourceKept
<1>4. faults' = faults + 1 \/ UNCHANGED faults => faults' \in Nat
  OBVIOUS
<1>5. ASSUME NEW to \in Steps, Goto(to) PROVE Script
  <2>1. step' = to /\ options' = IF to = "idle" THEN {} ELSE options
    BY <1>5, Zenon DEF Goto
  <2> QED
    BY <2>1
<1>6. StartProcess => service' \in {"off", "failed", "old", "new"} /\ loaded' \in Expectations
  BY DEF StartProcess
<1>7. CASE UNCHANGED vars
  <2>1. UNCHANGED installer /\ UNCHANGED code /\ UNCHANGED source /\ UNCHANGED faults
    BY <1>7, Zenon DEF vars
  <2> QED
    BY <2>1, <1>1, <1>2, <1>3, <1>4
<1>8. ASSUME NEW c \in Collectors, Cycle(c) \/ RefuseSource(c) \/ CycleFails(c) PROVE OtherTypes'
  <2>1. UNCHANGED installer /\ UNCHANGED code /\ UNCHANGED source
    BY <1>8, Zenon DEF Cycle, RefuseSource, CycleFails
  <2>2. faults' = faults + 1 \/ UNCHANGED faults
    BY <1>8, Zenon DEF Cycle, RefuseSource, CycleFails
  <2> QED
    BY <2>1, <2>2, <1>1, <1>2, <1>3, <1>4
<1>9. ASSUME NEW m \in Migrators, Migrate(m) PROVE OtherTypes'
  <2>1. UNCHANGED installer /\ UNCHANGED code /\ UNCHANGED source /\ UNCHANGED faults
    BY <1>9, Zenon DEF Migrate
  <2> QED
    BY <2>1, <1>1, <1>2, <1>3, <1>4
<1>10. ASSUME NEW s \in Sessions,
              MigrationSucceeds(s) \/ MigrationFails(s) \/ MigrationBreaks(s) \/ DeadlockBroken(s)
       PROVE  OtherTypes'
  <2>1. PICK to \in {"validate", "idle"} : Proceed(s, to)
    BY <1>10, Zenon DEF MigrationSucceeds, MigrationFails, MigrationBreaks, DeadlockBroken
  <2>2. UNCHANGED code /\ UNCHANGED source
    BY <2>1, Zenon DEF Proceed
  <2>3. Goto(to) \/ (UNCHANGED step /\ UNCHANGED options)
    BY <2>1, Zenon DEF Proceed
  <2>4. Script
    BY <2>3, <1>5
  <2>5. faults' = faults + 1 \/ UNCHANGED faults
    BY <1>10, Zenon DEF MigrationSucceeds, MigrationFails, MigrationBreaks, DeadlockBroken
  <2> QED
    BY <2>2, <2>4, <2>5, <1>1, <1>3, <1>4
<1>11. CASE Crash \/ Respawn \/ OperatorMigrates
  <2>1. UNCHANGED installer /\ UNCHANGED source /\ UNCHANGED disk
    BY <1>11, CodeKept, Zenon DEF Crash, Respawn, OperatorMigrates
  <2>2. faults' = faults + 1 \/ UNCHANGED faults
    BY <1>11, Zenon DEF Crash, Respawn, OperatorMigrates
  <2>3. Program
    BY <1>11, <2>1, <1>1, <1>6 DEF Crash, Respawn, OperatorMigrates
  <2> QED
    BY <2>1, <2>2, <2>3, <1>2, <1>3, <1>4
<1>12. CASE StartInstall \/ StartPip \/ FinishPip \/ InstallerMigrates \/ InstallerDies
  <2>1. UNCHANGED source /\ (faults' = faults + 1 \/ UNCHANGED faults)
    BY <1>12, Zenon DEF StartInstall, StartPip, FinishPip, InstallerMigrates, InstallerDies
  <2>2. Program
    BY <1>12, <1>1 DEF StartInstall, StartPip, FinishPip, InstallerMigrates, InstallerDies
  <2>3. CASE StartInstall
    <3>1. step' = "python" /\ options' \in SUBSET {"migrate", "enable"}
      BY <2>3, Zenon DEF StartInstall
    <3> QED
      BY <3>1, <2>1, <2>2, <1>3, <1>4
  <2>4. CASE StartPip \/ FinishPip \/ InstallerMigrates \/ InstallerDies
    <3>1. PICK to \in {"pip", "migrate", "validate", "migrating", "idle"} : Goto(to)
      BY <2>4 DEF StartPip, FinishPip, InstallerMigrates, InstallerDies
    <3>2. Script
      BY <3>1, <1>5
    <3> QED
      BY <3>2, <2>1, <2>2, <1>3, <1>4
  <2> QED
    BY <1>12, <2>3, <2>4
<1>13. CASE Validate \/ Enable \/ Restart
  <2>1. UNCHANGED source /\ UNCHANGED faults
    BY <1>13, Zenon DEF Validate, Enable, Restart
  <2>2. Program
    BY <1>13, <1>1, <1>6 DEF Validate, Enable, Restart, Restarted
  <2>3. PICK to \in {"enable", "restart", "idle"} : Goto(to)
    BY <1>13 DEF Validate, Enable, Restart
  <2>4. Script
    BY <2>3, <1>5
  <2> QED
    BY <2>1, <2>2, <2>4, <1>3, <1>4
<1>14. CASE Change
  <2>1. UNCHANGED step /\ UNCHANGED options /\ UNCHANGED code /\ faults' = faults + 1
    BY <1>14, Zenon DEF Change
  <2>2. Server
    BY <1>14 DEF Change
  <2> QED
    BY <2>1, <2>2, <1>1, <1>4
<1> QED
  BY <1>7, <1>8, <1>9, <1>10, <1>11, <1>12, <1>13, <1>14, Zenon DEF Next, Sessions

LEMMA TypesStep == TypeOK /\ [Next]_vars => TypeOK'
BY RepositoryTypes, FlagsStep, OtherTypesStep, Zenon DEF TypeOK, OtherTypes

-----------------------------------------------------------------------------
(* What the transactions hold.                                             *)

LEMMA OneMoves ==
  ASSUME MigrationTypeOK, LockInv,
         NEW s \in Sessions, NEW to, NEW h \in Holds(to),
         pc' = [pc EXCEPT ![s] = to],
         held' = [held EXCEPT ![s] = h]
  PROVE  \A t \in Sessions : held'[t] \in Holds(pc'[t])
BY DEF MigrationTypeOK, LockInv

(* A statement that gets its lock adds it to what its transaction holds.   *)
LEMMA LocksAdded ==
  /\ \A h \in Holds("name") : h \cup {Needed["name"]} \in Holds("reference")
  /\ \A h \in Holds("reference") : h \cup {Needed["reference"]} \in Holds("index")
  /\ \A h \in Holds("index") : h \cup {Needed["index"]} \in Holds("alter")
  /\ \A h \in Holds("alter") : h \cup {Needed["alter"]} \in Holds("commitMigration")
  /\ \A h \in Holds("instance") : h \cup {Needed["instance"]} \in Holds("row")
  /\ \A h \in Holds("row") : h \cup {Needed["row"]} \in Holds("record")
  /\ \A h \in Holds("record") : h \cup {Needed["record"]} \in Holds("commitCycle")
<1> HIDE DEF Needed
<1>1. \A h \in Holds("name") : h \cup {Needed["name"]} \in Holds("reference")
  BY DEF Holds
<1>2. \A h \in Holds("reference") : h \cup {Needed["reference"]} \in Holds("index")
  BY DEF Holds, Creating
<1>3. \A h \in Holds("index") : h \cup {Needed["index"]} \in Holds("alter")
  BY DEF Holds
<1>4. \A h \in Holds("alter") : h \cup {Needed["alter"]} \in Holds("commitMigration")
  <2> SUFFICES ASSUME NEW h \in Holds("alter")
               PROVE  h \cup {Needed["alter"]} \in Holds("commitMigration")
    OBVIOUS
  <2>1. PICK k \in {{}, Creating} : h = k \cup {Needed["index"]}
    BY DEF Holds
  <2>2. h \cup {Needed["alter"]} = k \cup {Needed["index"], Needed["alter"]}
    BY <2>1
  <2> QED
    BY <2>2 DEF Holds
<1>5. \A h \in Holds("instance") : h \cup {Needed["instance"]} \in Holds("row")
  BY DEF Holds
<1>6. \A h \in Holds("row") : h \cup {Needed["row"]} \in Holds("record")
  BY DEF Holds
<1>7. \A h \in Holds("record") : h \cup {Needed["record"]} \in Holds("commitCycle")
  <2> SUFFICES ASSUME NEW h \in Holds("record")
               PROVE  h \cup {Needed["record"]} \in Holds("commitCycle")
    OBVIOUS
  <2>1. h = {Needed["instance"], Needed["row"]}
    BY DEF Holds
  <2> QED
    BY <2>1 DEF Holds
<1> QED
  BY <1>1, <1>2, <1>3, <1>4, <1>5, <1>6, <1>7

LEMMA HeldStep ==
  ASSUME MigrationTypeOK, LockInv, [Next]_vars
  PROVE  \A s \in Sessions : held'[s] \in Holds(pc'[s])
<1> HIDE DEF Needed
<1> DEFINE Goal == \A s \in Sessions : held'[s] \in Holds(pc'[s])
<1>1. \A s \in Sessions : held[s] \in Holds(pc[s])
  BY DEF LockInv
<1>2. {} \in Holds("idle") /\ {} \in Holds("info") /\ {} \in Holds("create") /\ {} \in Holds("name")
      /\ {} \in Holds("index") /\ {} \in Holds("gate") /\ {} \in Holds("source")
      /\ {} \in Holds("instance")
  BY DEF Holds
<1>3. \A s \in Sessions : pc[s] \in {"idle", "info", "create", "name", "gate", "source"} => held[s] = {}
  BY <1>1 DEF Holds
<1>4. ASSUME NEW s \in Sessions, Finish(s) PROVE Goal
  BY <1>2, <1>4, OneMoves DEF Finish, Released
<1>5. ASSUME NEW s \in Sessions, NEW from \in {"idle", "info", "create", "gate", "source"},
             NEW to \in {"info", "create", "name", "index", "gate", "source", "instance"},
             Pass(s, from, to)
      PROVE  Goal
  <2>1. held[s] = {}
    BY <1>3, <1>5 DEF Pass
  <2>2. held' = [held EXCEPT ![s] = {}]
    BY <1>5, <2>1 DEF Pass, MigrationTypeOK
  <2> QED
    BY <1>2, <1>5, <2>2, OneMoves DEF Pass
<1>6. ASSUME NEW s \in Sessions, NEW from, NEW to, Execute(s, from, to),
             \A h \in Holds(from) : h \cup {Needed[from]} \in Holds(to)
      PROVE  Goal
  <2>1. held[s] \cup {Needed[from]} \in Holds(to)
    BY <1>1, <1>6 DEF Execute
  <2>2. held' = [held EXCEPT ![s] = held[s] \cup {Needed[from]}]
    BY <1>6 DEF Execute
  <2> QED
    BY <1>6, <2>1, <2>2, OneMoves DEF Execute
<1>7. ASSUME NEW m \in Migrators, MigratorRuns(m) \/ CommitMigration(m) PROVE Goal
  <2>1. CASE BeginMigration(m) \/ ReadSchema(m) \/ CreateTable(m)
    BY <1>5, <2>1 DEF BeginMigration, ReadSchema, CreateTable, Sessions
  <2>2. CASE EnterName(m) \/ AddReference(m) \/ CreateIndex(m) \/ AlterTable(m)
    BY <1>6, <2>2, LocksAdded DEF EnterName, AddReference, CreateIndex, AlterTable, Sessions
  <2> QED
    BY <1>4, <1>7, <2>1, <2>2 DEF MigratorRuns, MigrationStep, CommitMigration, Sessions
<1>8. ASSUME NEW c \in Collectors, CollectorRuns(c) \/ CommitCycle(c) PROVE Goal
  <2>1. CASE BeginCycle(c) \/ ReadSource(c)
    BY <1>5, <2>1 DEF BeginCycle, ReadSource, Sessions
  <2>2. CASE PassGate(c, Need(CodeOf(c)))
    BY <1>2, <2>2, OneMoves DEF PassGate, GateLocks, Sessions
  <2>3. CASE EnsureInstance(c) \/ LockRow(c) \/ InsertCycle(c)
    BY <1>6, <2>3, LocksAdded DEF EnsureInstance, LockRow, InsertCycle, Sessions
  <2> QED
    BY <1>4, <1>8, <2>1, <2>2, <2>3 DEF CollectorRuns, CommitCycle, Sessions
<1>9. CASE UNCHANGED repository
  BY <1>1, <1>9 DEF repository
<1> QED
  BY <1>4, <1>7, <1>8, <1>9, RepositoryStep DEF Ends, Rollback, Sessions

(* No session does what is for others to do.                               *)
LEMMA LabelStep ==
  ASSUME MigrationTypeOK, LockInv, [Next]_vars
  PROVE  /\ \A m \in Migrators : pc'[m] \in MigratorLabels
         /\ \A c \in Collectors : pc'[c] \in CollectorLabels
<1> USE DEF MigrationTypeOK, LockInv, Sessions
<1>1. CASE UNCHANGED repository
  BY <1>1 DEF repository
<1>2. ASSUME NEW s \in Sessions, Finish(s)
      PROVE  /\ \A m \in Migrators : pc'[m] \in MigratorLabels
             /\ \A c \in Collectors : pc'[c] \in CollectorLabels
  BY <1>2 DEF Finish, MigratorLabels, CollectorLabels
<1>3. ASSUME NEW m \in Migrators, MigratorRuns(m)
      PROVE  /\ \A n \in Migrators : pc'[n] \in MigratorLabels
             /\ \A c \in Collectors : pc'[c] \in CollectorLabels
  <2>1. PICK to \in MigratorLabels : pc' = [pc EXCEPT ![m] = to]
    BY <1>3 DEF MigratorRuns, MigrationStep, BeginMigration, ReadSchema, CreateTable, EnterName,
       AddReference, CreateIndex, AlterTable, Pass, Execute, MigratorLabels
  <2> QED
    BY <2>1
<1>4. ASSUME NEW c \in Collectors, CollectorRuns(c)
      PROVE  /\ \A m \in Migrators : pc'[m] \in MigratorLabels
             /\ \A d \in Collectors : pc'[d] \in CollectorLabels
  <2>1. PICK to \in CollectorLabels : pc' = [pc EXCEPT ![c] = to]
    BY <1>4 DEF CollectorRuns, BeginCycle, PassGate, ReadSource, EnsureInstance, LockRow,
       InsertCycle, Pass, Execute, CollectorLabels
  <2> QED
    BY <2>1
<1> QED
  BY <1>1, <1>2, <1>3, <1>4, RepositoryStep DEF Ends, Rollback, CommitMigration, CommitCycle

(* The service changes only where its transaction is rolled back or where  *)
(* there is none.                                                          *)
LEMMA ServiceStep ==
  ASSUME [Next]_vars
  PROVE  \/ UNCHANGED <<service, loaded>>
         \/ Rollback(Daemon)
         \/ UNCHANGED repository /\ ~Active
<1>1. CASE UNCHANGED code
  BY <1>1 DEF code
<1>2. CASE Crash \/ Restart
  BY <1>2 DEF Crash, Restart, Kill
<1>3. CASE Respawn \/ Enable
  BY <1>3 DEF Respawn, Enable, Active
<1>4. CASE StartPip \/ FinishPip
  BY <1>4 DEF StartPip, FinishPip
<1>5. ASSUME NEW s \in Sessions,
             \/ Cycle(s) \/ RefuseSource(s) \/ CycleFails(s) \/ Migrate(s)
             \/ MigrationSucceeds(s) \/ MigrationFails(s) \/ MigrationBreaks(s) \/ DeadlockBroken(s)
      PROVE  UNCHANGED code
  BY <1>5, Zenon DEF Cycle, RefuseSource, CycleFails, Migrate, MigrationSucceeds, MigrationFails,
     MigrationBreaks, DeadlockBroken, Proceed
<1>6. CASE OperatorMigrates \/ StartInstall \/ InstallerMigrates \/ Validate \/ InstallerDies \/ Change
  BY <1>1, <1>6, Zenon DEF OperatorMigrates, StartInstall, InstallerMigrates, Validate,
     InstallerDies, Change
<1>7. CASE UNCHANGED vars
  BY <1>1, <1>7, Zenon DEF vars
<1> QED
  BY <1>1, <1>2, <1>3, <1>4, <1>5, <1>6, <1>7, Zenon DEF Next, Sessions

(* Only a service that runs begins a cycle.                                *)
LEMMA DaemonBegins ==
  ASSUME MigrationTypeOK, [Next]_vars, pc[Daemon] = "idle", pc'[Daemon] # "idle"
  PROVE  Active /\ UNCHANGED service
<1> USE DEF MigrationTypeOK
<1>1. CASE UNCHANGED vars
  BY <1>1, Zenon DEF vars, repository
<1>2. ASSUME NEW s \in Sessions \ {Daemon}, NEW to, pc' = [pc EXCEPT ![s] = to] PROVE FALSE
  BY <1>2 DEF Sessions
<1>3. ASSUME NEW s \in Sessions, Rollback(s) PROVE FALSE
  BY <1>3 DEF Rollback, Finish, Sessions
<1>4. ASSUME NEW m \in Migrators, MigratorRuns(m) \/ CommitMigration(m) PROVE FALSE
  <2>1. m \in Sessions \ {Daemon}
    BY DEF Sessions
  <2> QED
    BY <1>2, <1>4, <2>1 DEF MigratorRuns, MigrationStep, BeginMigration, ReadSchema, CreateTable,
       EnterName, AddReference, CreateIndex, AlterTable, Pass, Execute, CommitMigration, Finish
<1>5. ASSUME NEW c \in Collectors, Cycle(c) PROVE Active /\ UNCHANGED service
  <2>1. UNCHANGED service
    BY <1>5, CodeKept, Zenon DEF Cycle
  <2>2. CASE c = Daemon
    <3>1. CanRun(c)
      BY <1>3, <1>5, <2>2 DEF Cycle, PassGate, RefuseCycle, ReadSource, EnsureInstance, LockRow,
         InsertCycle, CommitCycle, Pass, Execute, Sessions
    <3> QED
      BY <2>1, <2>2, <3>1 DEF CanRun
  <2>3. CASE c # Daemon
    BY <1>2, <1>5, <2>3 DEF Cycle, BeginCycle, PassGate, RefuseCycle, ReadSource, EnsureInstance,
       LockRow, InsertCycle, CommitCycle, Pass, Execute, Rollback, Finish, Sessions
  <2> QED
    BY <2>2, <2>3
<1>6. CASE \E c \in Collectors : RefuseSource(c) \/ CycleFails(c)
  BY <1>3, <1>6 DEF RefuseSource, CycleFails, Break, Sessions
<1>7. CASE \E m \in Migrators : Migrate(m) \/ MigrationSucceeds(m) \/ MigrationFails(m) \/ MigrationBreaks(m)
  BY <1>3, <1>4, <1>7 DEF Migrate, MigratorRuns, MigrationSucceeds, MigrationFails, MigrationBreaks,
     RefuseMigration, FindDuplicate, Break, Sessions
<1>8. CASE \E s \in Sessions : DeadlockBroken(s)
  BY <1>3, <1>8 DEF DeadlockBroken, BreakDeadlock
<1>9. CASE Crash \/ Restart
  BY <1>3, <1>9 DEF Crash, Restart, Kill, Sessions
<1>10. CASE OperatorMigrates \/ InstallerMigrates
  BY <1>4, <1>10 DEF OperatorMigrates, InstallerMigrates, MigratorRuns
<1>11. CASE Respawn \/ StartInstall \/ StartPip \/ FinishPip \/ Validate \/ Enable
            \/ InstallerDies \/ Change
  <2>1. UNCHANGED repository
    BY <1>11, Zenon DEF Respawn, StartInstall, StartPip, FinishPip, Validate, Enable, InstallerDies,
       Change
  <2> QED
    BY <2>1 DEF repository
<1> QED
  BY <1>1, <1>5, <1>6, <1>7, <1>8, <1>9, <1>10, <1>11, Zenon DEF Next

LEMMA LockStep == TypeOK /\ LockInv /\ [Next]_vars => LockInv'
<1> SUFFICES ASSUME TypeOK, LockInv, [Next]_vars PROVE LockInv'
  OBVIOUS
<1>1. MigrationTypeOK
  BY Zenon DEF TypeOK
<1>2. (~Active => pc[Daemon] = "idle")'
  <2>1. Rollback(Daemon) => pc'[Daemon] = "idle"
    BY <1>1 DEF Rollback, Finish, MigrationTypeOK, Sessions
  <2>2. CASE UNCHANGED service
    BY <1>1, <2>2, DaemonBegins DEF LockInv, Active
  <2>3. CASE UNCHANGED repository /\ ~Active
    BY <2>3 DEF LockInv, repository
  <2> QED
    BY <2>1, <2>2, <2>3, ServiceStep
<1> QED
  BY <1>1, <1>2, HeldStep, LabelStep DEF LockInv

-----------------------------------------------------------------------------
(* The name of the table, and the schema.                                  *)

(* The name is locked by the statement that enters it and by no other.     *)
LEMMA NameIsApart ==
  /\ \A l \in DOMAIN Needed : Needed[l] = Needed["name"] => l = "name"
  /\ Needed["reference"] \in Creating /\ Needed["name"] \in Creating
  /\ \A t \in {"index", "alter"} : Needed[t] \notin Creating
  /\ Conflicts(Needed["name"].mode, Needed["name"].mode)
BY DEF Needed, Creating, Conflicts

(* NameInv says of one migration:                                          *)
NameOf(m) ==
  /\ Needed["name"] \in held[m] =>
       schema < Safety /\ \A n \in Migrators \ {m} : Needed["name"] \notin held[n]
  /\ pc[m] \in {"index", "alter", "commitMigration"} /\ held[m] \cap Creating = {} =>
       schema >= Safety
  /\ pc[m] = "name" => schema < Safety \/ schema = Current
  /\ pc[m] = "commitMigration" => level[m] = Current

(* A migration whose transaction ends does not touch the others.           *)
LEMMA NameAfterFinish ==
  ASSUME MigrationTypeOK, NameInv, NEW s \in Sessions, Finish(s),
         schema' = schema
  PROVE  NameInv'
<1> HIDE DEF Needed
<1> SUFFICES ASSUME NEW m \in Migrators PROVE NameOf(m)'
  BY DEF NameInv, NameOf
<1>1. NameOf(m) /\ m \in Sessions
  BY DEF NameInv, NameOf, Sessions
<1>2. CASE m = s
  BY <1>1, <1>2 DEF NameOf, Finish, Released, MigrationTypeOK
<1>3. CASE m # s
  BY <1>1, <1>3 DEF NameOf, Finish, Released, MigrationTypeOK, Sessions
<1> QED
  BY <1>2, <1>3

(* Nor does one that takes a lock other than the name's.                   *)
LEMMA NameAfterRun ==
  ASSUME MigrationTypeOK, NameInv, NEW m \in Migrators, MigratorRuns(m)
  PROVE  NameInv'
<1> HIDE DEF Needed
<1> SUFFICES ASSUME NEW n \in Migrators PROVE NameOf(n)'
  BY DEF NameInv, NameOf
<1> USE DEF MigrationTypeOK
<1>1. m \in Sessions /\ n \in Sessions /\ Migrators \subseteq Sessions
  BY DEF Sessions
<1>2. \A k \in Migrators : NameOf(k)
  BY DEF NameInv, NameOf
<1>3. CASE BeginMigration(m) \/ ReadSchema(m)
  BY <1>1, <1>2, <1>3 DEF NameOf, BeginMigration, ReadSchema, Pass
<1>4. CASE CreateTable(m)
  <2>1. held' = held /\ schema' = schema /\ level' = level
    BY <1>4 DEF CreateTable, Pass
  <2>2. pc' = [pc EXCEPT ![m] = IF schema >= Safety THEN "index" ELSE "name"]
    BY <1>4 DEF CreateTable, Pass
  <2> QED
    BY <1>1, <1>2, <2>1, <2>2 DEF NameOf, Safety, Current
<1>5. CASE EnterName(m)
  <2>1. \A t \in Migrators : Needed["name"] \notin held[t] \/ t = m
    BY <1>1, <1>5, NeededLocks, NameIsApart DEF EnterName, Execute, Free, WaitsFor, Locking
  <2>2. /\ pc' = [pc EXCEPT ![m] = "reference"]
        /\ held' = [held EXCEPT ![m] = @ \cup {Needed["name"]}]
        /\ schema < Safety /\ schema' = schema /\ level' = level
    BY <1>5 DEF EnterName, Execute
  <2>3. \A t \in Migrators \ {m} : held'[t] = held[t] /\ pc'[t] = pc[t]
    BY <1>1, <2>2
  <2>4. CASE n = m
    BY <1>1, <2>1, <2>2, <2>3, <2>4 DEF NameOf
  <2>5. CASE n # m
    BY <1>1, <1>2, <2>1, <2>2, <2>3, <2>5 DEF NameOf
  <2> QED
    BY <2>4, <2>5
<1>6. ASSUME NEW from \in {"reference", "index", "alter"}, NEW to \in {"index", "alter", "commitMigration"},
             Execute(m, from, to), schema' = schema,
             from = "reference" \/ pc[m] \in {"index", "alter"},
             from = "reference" => to # "commitMigration",
             level' = level \/ level' = [level EXCEPT ![m] = Current],
             to = "commitMigration" => level' = [level EXCEPT ![m] = Current]
      PROVE  NameOf(n)'
  <2>1. /\ pc' = [pc EXCEPT ![m] = to] /\ pc[m] = from
        /\ held' = [held EXCEPT ![m] = @ \cup {Needed[from]}]
    BY <1>6 DEF Execute
  <2>2. Needed[from] # Needed["name"]
    BY NameIsApart, NeededLocks
  <2>3. \A t \in Migrators : Needed["name"] \in held'[t] <=> Needed["name"] \in held[t]
    BY <1>1, <2>1, <2>2
  <2>4. \A t \in Migrators \ {m} : held'[t] = held[t] /\ pc'[t] = pc[t] /\ level'[t] = level[t]
    BY <1>1, <1>6, <2>1
  <2>5. CASE n = m
    <3>1. pc'[m] = to /\ held'[m] = held[m] \cup {Needed[from]}
      BY <1>1, <2>1
    <3>2. held'[m] \cap Creating = {} => held[m] \cap Creating = {} /\ from # "reference"
      BY <3>1, NameIsApart
    <3>3. to = "commitMigration" => level'[m] = Current
      BY <1>1, <1>6
    <3> QED
      BY <1>2, <1>6, <2>1, <2>3, <2>5, <3>1, <3>2, <3>3 DEF NameOf
  <2>6. CASE n # m
    BY <1>2, <1>6, <2>3, <2>4, <2>6 DEF NameOf
  <2> QED
    BY <2>5, <2>6
<1>7. CASE AddReference(m)
  BY <1>6, <1>7 DEF AddReference, Execute
<1>8. CASE CreateIndex(m)
  BY <1>6, <1>8 DEF CreateIndex, Execute
<1>9. CASE AlterTable(m)
  BY <1>6, <1>9 DEF AlterTable, Altered, Execute
<1> QED
  BY <1>3, <1>4, <1>5, <1>7, <1>8, <1>9 DEF MigratorRuns, MigrationStep

(* A migration that commits is the only one that may have made the table.  *)
LEMMA NameAfterCommit ==
  ASSUME MigrationTypeOK, LockInv, NameInv, NEW m \in Migrators, CommitMigration(m)
  PROVE  NameInv' /\ schema' = Current
<1> HIDE DEF Needed
<1> USE DEF MigrationTypeOK
<1>1. m \in Sessions /\ Migrators \subseteq Sessions
  BY DEF Sessions
<1>2. \A k \in Migrators : NameOf(k)
  BY DEF NameInv, NameOf
<1>3. /\ pc[m] = "commitMigration" /\ pc' = [pc EXCEPT ![m] = "idle"]
      /\ held' = [held EXCEPT ![m] = {}] /\ level' = [level EXCEPT ![m] = 0]
      /\ schema' = Current
  BY <1>2 DEF CommitMigration, Finish, Released, NameOf
<1>4. \A n \in Migrators \ {m} : Needed["name"] \notin held[n]
  <2> SUFFICES ASSUME NEW n \in Migrators \ {m}, Needed["name"] \in held[n] PROVE FALSE
    OBVIOUS
  <2>1. schema < Safety /\ Needed["name"] \notin held[m]
    BY <1>2 DEF NameOf
  <2>2. held[m] \in Holds("commitMigration")
    BY <1>1, <1>3 DEF LockInv
  <2>3. PICK h \in {{}, Creating} : held[m] = h \cup {Needed["index"], Needed["alter"]}
    BY <2>2 DEF Holds
  <2>4. h = {}
    BY <2>1, <2>3, NameIsApart
  <2>5. held[m] \cap Creating = {}
    BY <2>3, <2>4, NameIsApart
  <2> QED
    BY <1>2, <1>3, <2>1, <2>5 DEF NameOf, Safety
<1>5. \A n \in Migrators : Needed["name"] \notin held'[n]
  BY <1>1, <1>3, <1>4
<1>6. ASSUME NEW n \in Migrators PROVE NameOf(n)'
  <2>1. schema' >= Safety
    BY <1>3 DEF Safety, Current
  <2>2. CASE n = m
    BY <1>1, <1>3, <1>5, <2>1, <2>2 DEF NameOf
  <2>3. CASE n # m
    BY <1>1, <1>2, <1>3, <1>5, <2>1, <2>3 DEF NameOf
  <2> QED
    BY <2>2, <2>3
<1> QED
  BY <1>3, <1>6 DEF NameInv, NameOf

LEMMA NameStep ==
  ASSUME MigrationTypeOK, LockInv, NameInv, [Next]_vars
  PROVE  NameInv' /\ schema' >= schema
<1> HIDE DEF Needed
<1> USE DEF MigrationTypeOK
<1>1. CASE UNCHANGED repository
  BY <1>1 DEF repository, NameInv
<1>2. ASSUME NEW s \in Sessions, Rollback(s) PROVE NameInv' /\ schema' >= schema
  BY <1>2, NameAfterFinish DEF Rollback, Current
<1>3. ASSUME NEW m \in Migrators, MigratorRuns(m) PROVE NameInv' /\ schema' >= schema
  <2>1. schema' = schema
    BY <1>3 DEF MigratorRuns, MigrationStep, BeginMigration, ReadSchema, CreateTable, EnterName,
       AddReference, CreateIndex, AlterTable
  <2> QED
    BY <1>3, <2>1, NameAfterRun DEF Current
<1>4. ASSUME NEW m \in Migrators, CommitMigration(m) PROVE NameInv' /\ schema' >= schema
  BY <1>4, NameAfterCommit DEF Current
<1>5. ASSUME NEW c \in Collectors, CollectorRuns(c) PROVE NameInv' /\ schema' >= schema
  <2>1. c \in Sessions \ Migrators
    BY DEF Sessions
  <2>2. schema' = schema /\ level' = level /\ \E to : pc' = [pc EXCEPT ![c] = to]
    BY <1>5 DEF CollectorRuns, BeginCycle, PassGate, ReadSource, EnsureInstance, LockRow,
       InsertCycle, Pass, Execute
  <2>3. \A m \in Migrators : held'[m] = held[m]
    BY <1>5, <2>1 DEF CollectorRuns, BeginCycle, PassGate, ReadSource, EnsureInstance, LockRow,
       InsertCycle, Pass, Execute, Sessions
  <2>4. \A m \in Migrators : pc'[m] = pc[m]
    BY <2>1, <2>2 DEF Sessions
  <2> QED
    BY <2>2, <2>3, <2>4 DEF NameInv, Current
<1>6. ASSUME NEW c \in Collectors, CommitCycle(c) PROVE NameInv' /\ schema' >= schema
  BY <1>6, NameAfterFinish DEF CommitCycle, Sessions, Current
<1> QED
  BY <1>1, <1>2, <1>3, <1>4, <1>5, <1>6, RepositoryStep DEF Ends, Sessions

(* Past the gate, that is.                                                 *)
Inside == {"source", "instance", "row", "record", "commitCycle"}

LEMMA SurpriseStep ==
  ASSUME MigrationTypeOK, LockInv, NameInv, NoSchemaSurprise, [Next]_vars
  PROVE  NoSchemaSurprise'
<1> HIDE DEF Needed
<1> USE DEF MigrationTypeOK
<1>1. schema' >= schema /\ schema' \in 0..Current
  BY NameStep, RepositoryTypes
<1>2. \A k : Need(k) \in {Safety, Current}
  BY DEF Need
<1> SUFFICES ASSUME NEW c \in Collectors, pc'[c] \in Inside
             PROVE  schema' >= Need(CodeOf(c)')
  BY DEF NoSchemaSurprise, Inside
<1>3. c \in Sessions /\ Daemon \in Sessions
  BY DEF Sessions
<1>4. Rollback(Daemon) => c # Daemon
  BY <1>3 DEF Rollback, Finish, Inside
<1>5. CodeOf(c)' = CodeOf(c)
  <2>1. CASE c # Daemon
    BY <2>1 DEF CodeOf
  <2>2. CASE c = Daemon /\ UNCHANGED repository /\ ~Active
    BY <2>2 DEF LockInv, Inside, repository
  <2>3. CASE UNCHANGED service
    BY <2>3 DEF CodeOf
  <2> QED
    BY <1>4, <2>1, <2>2, <2>3, ServiceStep
<1>6. CASE pc[c] \in Inside
  BY <1>1, <1>2, <1>5, <1>6 DEF NoSchemaSurprise, Inside, Safety, Current
<1>7. CASE pc[c] \notin Inside
  <2>1. ASSUME NEW s \in Sessions, Finish(s) PROVE FALSE
    BY <1>3, <1>7, <2>1 DEF Finish, Inside
  <2>2. ASSUME NEW m \in Migrators, MigratorRuns(m) PROVE FALSE
    <3>1. PICK to : pc' = [pc EXCEPT ![m] = to]
      BY <2>2 DEF MigratorRuns, MigrationStep, BeginMigration, ReadSchema, CreateTable, EnterName,
         AddReference, CreateIndex, AlterTable, Pass, Execute
    <3>2. m # c
      OBVIOUS
    <3> QED
      BY <1>3, <1>7, <3>1, <3>2
  <2>3. ASSUME NEW d \in Collectors, CollectorRuns(d) PROVE PassGate(c, Need(CodeOf(c)))
    <3>1. d = c
      BY <1>3, <1>7, <2>3 DEF CollectorRuns, BeginCycle, PassGate, ReadSource, EnsureInstance,
         LockRow, InsertCycle, Pass, Execute, Sessions
    <3> QED
      BY <1>3, <1>7, <2>3, <3>1 DEF CollectorRuns, BeginCycle, ReadSource, EnsureInstance,
         LockRow, InsertCycle, Pass, Execute, Inside
  <2>4. ~UNCHANGED repository
    BY <1>7 DEF repository
  <2>5. PassGate(c, Need(CodeOf(c)))
    BY <2>1, <2>2, <2>3, <2>4, RepositoryStep DEF Ends, Rollback, CommitMigration, CommitCycle, Sessions
  <2> QED
    BY <1>1, <1>2, <1>5, <2>5 DEF PassGate, Admits, Safety, Current
<1> QED
  BY <1>6, <1>7

-----------------------------------------------------------------------------
(* Deadlocks.                                                              *)

(* Which statements wait for which locks.                                  *)
LEMMA WaitingFor ==
  ASSUME NEW y \in DOMAIN Needed, NEW x \in DOMAIN Needed,
         Needed[x].on = Needed[y].on, Conflicts(Needed[x].mode, Needed[y].mode)
  PROVE  \/ x = "name" /\ y = "name"
         \/ x \in {"reference", "instance"} /\ y = "reference"
         \/ x = "reference" /\ y = "instance"
         \/ x = "row" /\ y = "row"
         \/ x = "index" /\ y \in {"alter", "record"}
         \/ x = "alter" /\ y \in {"index", "alter", "record"}
         \/ x = "record" /\ y \in {"index", "alter"}
<1>1. /\ Needed["name"] = [on |-> "name", mode |-> "AccessExclusive"]
      /\ Needed["reference"] = [on |-> "instances", mode |-> "ShareRowExclusive"]
      /\ Needed["index"] = [on |-> "cycles", mode |-> "Share"]
      /\ Needed["alter"] = [on |-> "cycles", mode |-> "AccessExclusive"]
      /\ Needed["instance"] = [on |-> "instances", mode |-> "RowExclusive"]
      /\ Needed["row"] = [on |-> "row", mode |-> "AccessExclusive"]
      /\ Needed["record"] = [on |-> "cycles", mode |-> "RowExclusive"]
  BY DEF Needed
<1>2. DOMAIN Needed = {"name", "reference", "index", "alter", "instance", "row", "record"}
  BY NeededLocks
<1> HIDE DEF Needed
<1>3. CASE x \in {"name", "row"}
  BY <1>1, <1>2, <1>3
<1>4. CASE x \in {"reference", "instance"}
  <2>1. y \in {"reference", "instance"}
    BY <1>1, <1>2, <1>4
  <2>2. ~Conflicts("RowExclusive", "RowExclusive")
    BY DEF Conflicts, Conflicting
  <2> QED
    BY <1>1, <1>4, <2>1, <2>2
<1>5. CASE x \in {"index", "alter", "record"}
  <2>1. y \in {"index", "alter", "record"}
    BY <1>1, <1>2, <1>5
  <2>2. ~Conflicts("RowExclusive", "RowExclusive") /\ ~Conflicts("Share", "Share")
    BY DEF Conflicts, Conflicting
  <2> QED
    BY <1>1, <1>5, <2>1, <2>2
<1> QED
  BY <1>2, <1>3, <1>4, <1>5

(* What a session that waits can hold.                                     *)
LEMMA WaitersHold ==
  ASSUME MigrationTypeOK, LockInv, NEW s \in Sessions, Locking(s)
  PROVE  /\ pc[s] \in {"name", "instance"} => held[s] = {}
         /\ pc[s] = "reference" => held[s] = {Needed["name"]}
         /\ pc[s] = "index" => held[s] \subseteq Creating
         /\ pc[s] = "alter" => held[s] \subseteq Creating \cup {Needed["index"]}
         /\ pc[s] = "row" => held[s] = {Needed["instance"]}
         /\ pc[s] = "record" => held[s] = {Needed["instance"], Needed["row"]}
         /\ s \in Migrators <=> pc[s] \in {"name", "reference", "index", "alter"}
         /\ s \in Collectors <=> pc[s] \in {"instance", "row", "record"}
<1> HIDE DEF Needed
<1>1. held[s] \in Holds(pc[s])
  BY DEF LockInv
<1>2. pc[s] \in {"name", "reference", "index", "alter", "instance", "row", "record"}
  BY NeededLocks DEF Locking
<1>3. /\ s \in Migrators <=> pc[s] \in {"name", "reference", "index", "alter"}
      /\ s \in Collectors <=> pc[s] \in {"instance", "row", "record"}
  BY <1>2 DEF LockInv, MigratorLabels, CollectorLabels, Sessions
<1>4. pc[s] \in {"name", "instance"} => held[s] = {}
  BY <1>1 DEF Holds
<1>5. pc[s] = "reference" => held[s] = {Needed["name"]}
  BY <1>1 DEF Holds
<1>6. pc[s] = "index" => held[s] \subseteq Creating
  BY <1>1 DEF Holds
<1>7. pc[s] = "alter" => held[s] \subseteq Creating \cup {Needed["index"]}
  BY <1>1 DEF Holds
<1>8. pc[s] = "row" => held[s] = {Needed["instance"]}
  BY <1>1 DEF Holds
<1>9. pc[s] = "record" => held[s] = {Needed["instance"], Needed["row"]}
  BY <1>1 DEF Holds
<1> QED
  BY <1>3, <1>4, <1>5, <1>6, <1>7, <1>8, <1>9

(* The statements at which one waiting session can wait for another.       *)
LEMMA WaitPairs ==
  ASSUME MigrationTypeOK, LockInv, NEW x \in Sessions, NEW y \in Sessions,
         WaitsFor(x, y), Locking(y)
  PROVE  \/ pc[x] = "name" /\ pc[y] \in {"reference", "index", "alter"} /\ Needed["name"] \in held[y]
         \/ /\ pc[x] = "reference"
            /\ \/ pc[y] \in {"index", "alter"} /\ Needed["reference"] \in held[y]
               \/ pc[y] \in {"row", "record"}
         \/ pc[x] = "instance" /\ pc[y] \in {"index", "alter"} /\ Needed["reference"] \in held[y]
         \/ pc[x] = "row" /\ pc[y] = "record"
         \/ pc[x] = "alter" /\ pc[y] = "alter"
         \/ pc[x] = "record" /\ pc[y] = "alter"
<1> HIDE DEF Needed
<1>1. Locking(x) /\ pc[x] \in DOMAIN Needed /\ pc[y] \in DOMAIN Needed
  BY DEF WaitsFor, Locking
<1>2. PICK l \in held[y] : l.on = Needed[pc[x]].on /\ Conflicts(l.mode, Needed[pc[x]].mode)
  BY DEF WaitsFor
<1>3. \A m, n : Conflicts(m, n) <=> Conflicts(n, m)
  BY DEF Conflicts, Conflicting
<1>4. l \in {Needed["name"], Needed["reference"], Needed["index"], Needed["instance"], Needed["row"]}
  BY <1>1, WaitersHold, NeededLocks DEF Creating, Locking
<1>5. ASSUME NEW t \in DOMAIN Needed, l = Needed[t]
      PROVE  \/ pc[x] = "name" /\ t = "name"
             \/ pc[x] \in {"reference", "instance"} /\ t = "reference"
             \/ pc[x] = "reference" /\ t = "instance"
             \/ pc[x] = "row" /\ t = "row"
             \/ pc[x] = "index" /\ t \in {"alter", "record"}
             \/ pc[x] = "alter" /\ t \in {"index", "alter", "record"}
             \/ pc[x] = "record" /\ t \in {"index", "alter"}
  BY <1>1, <1>2, <1>3, <1>5, WaitingFor
<1>6. \A t \in DOMAIN Needed, u \in DOMAIN Needed : Needed[t] = Needed[u] => t = u
  BY DEF Needed
<1>7. DOMAIN Needed = {"name", "reference", "index", "alter", "instance", "row", "record"}
  BY NeededLocks
<1>8. CASE l = Needed["name"]
  <2>1. pc[y] \in {"reference", "index", "alter"}
    BY <1>1, <1>2, <1>6, <1>7, <1>8, WaitersHold DEF Creating
  <2> QED
    BY <1>2, <1>5, <1>7, <1>8, <2>1
<1>9. CASE l = Needed["reference"]
  <2>1. pc[y] \in {"index", "alter"}
    BY <1>1, <1>2, <1>6, <1>7, <1>9, WaitersHold DEF Creating
  <2> QED
    BY <1>2, <1>5, <1>7, <1>9, <2>1
<1>10. CASE l = Needed["index"]
  <2>1. pc[y] = "alter"
    BY <1>1, <1>2, <1>6, <1>7, <1>10, WaitersHold DEF Creating
  <2> QED
    BY <1>5, <1>7, <1>10, <2>1
<1>11. CASE l = Needed["instance"]
  <2>1. pc[y] \in {"row", "record"}
    BY <1>1, <1>2, <1>6, <1>7, <1>11, WaitersHold DEF Creating
  <2> QED
    BY <1>5, <1>7, <1>11, <2>1
<1>12. CASE l = Needed["row"]
  <2>1. pc[y] = "record"
    BY <1>1, <1>2, <1>6, <1>7, <1>12, WaitersHold DEF Creating
  <2> QED
    BY <1>5, <1>7, <1>12, <2>1
<1> QED
  BY <1>4, <1>8, <1>9, <1>10, <1>11, <1>12

(* Only two migrations that alter the table are ever in a deadlock.        *)
LEMMA DeadlocksAlter ==
  ASSUME MigrationTypeOK, LockInv, NameInv, NoSchemaSurprise,
         NEW D \in SUBSET Sessions,
         \A x \in D : (\E y \in D : WaitsFor(x, y)) /\ (\E y \in D : WaitsFor(y, x))
  PROVE  \A x \in D : pc[x] = "alter"
<1> HIDE DEF Needed
<1>1. \A x \in D : Locking(x)
  BY DEF WaitsFor
<1>2. \A x \in D : pc[x] \notin {"name", "instance"}
  <2> SUFFICES ASSUME NEW x \in D, pc[x] \in {"name", "instance"} PROVE FALSE
    OBVIOUS
  <2>1. PICK y \in D : WaitsFor(y, x)
    OBVIOUS
  <2> QED
    BY <1>1, <2>1, WaitersHold DEF WaitsFor
<1>3. \A x, y \in D : WaitsFor(x, y) => pc[x] # "reference"
  <2> SUFFICES ASSUME NEW x \in D, NEW y \in D, WaitsFor(x, y), pc[x] = "reference" PROVE FALSE
    OBVIOUS
  <2>1. x \in Migrators /\ Needed["name"] \in held[x]
    BY <1>1, WaitersHold
  <2>2. schema < Safety /\ \A n \in Migrators \ {x} : Needed["name"] \notin held[n]
    BY <2>1 DEF NameInv
  <2>3. CASE pc[y] \in {"row", "record"}
    <3>1. y \in Collectors
      BY <1>1, <2>3, WaitersHold
    <3> QED
      BY <2>2, <2>3, <3>1 DEF NoSchemaSurprise, Need, Safety, Current, MigrationTypeOK
  <2>4. CASE pc[y] \in {"index", "alter"} /\ Needed["reference"] \in held[y]
    <3>1. y \in Migrators /\ y # x
      BY <1>1, <2>4, WaitersHold
    <3>2. held[y] \in Holds(pc[y])
      BY DEF LockInv
    <3>3. Needed["reference"] # Needed["index"]
      BY NameIsApart
    <3>4. Needed["name"] \in held[y]
      BY <2>4, <3>2, <3>3 DEF Holds, Creating
    <3> QED
      BY <2>2, <3>1, <3>4
  <2> QED
    BY <1>1, <2>3, <2>4, WaitPairs
<1>4. \A x \in D : pc[x] # "row"
  <2> SUFFICES ASSUME NEW x \in D, pc[x] = "row" PROVE FALSE
    OBVIOUS
  <2>1. PICK y \in D : WaitsFor(y, x)
    OBVIOUS
  <2> QED
    BY <1>1, <1>3, <2>1, WaitPairs
<1>5. \A x \in D : pc[x] # "record"
  <2> SUFFICES ASSUME NEW x \in D, pc[x] = "record" PROVE FALSE
    OBVIOUS
  <2>1. PICK y \in D : WaitsFor(y, x)
    OBVIOUS
  <2> QED
    BY <1>1, <1>3, <1>4, <2>1, WaitPairs
<1>6. \A x \in D : pc[x] # "index"
  <2> SUFFICES ASSUME NEW x \in D, pc[x] = "index" PROVE FALSE
    OBVIOUS
  <2>1. PICK y \in D : WaitsFor(x, y)
    OBVIOUS
  <2> QED
    BY <1>1, <2>1, WaitPairs
<1> QED
  BY <1>1, <1>2, <1>3, <1>4, <1>5, <1>6, NeededLocks DEF Locking

LEMMA CyclesAreSafe ==
  ASSUME MigrationTypeOK, LockInv, NameInv, NoSchemaSurprise
  PROVE  CyclesSurviveMigrations
<1> HIDE DEF Needed
<1> SUFFICES ASSUME NEW c \in Collectors, Deadlocked(c) PROVE FALSE
  BY DEF CyclesSurviveMigrations
<1>1. PICK D \in SUBSET Sessions :
        /\ c \in D
        /\ \A x \in D : (\E y \in D : WaitsFor(x, y)) /\ (\E y \in D : WaitsFor(y, x))
  BY Zenon DEF Deadlocked
<1>2. pc[c] = "alter"
  BY <1>1, DeadlocksAlter
<1> QED
  BY <1>2 DEF LockInv, CollectorLabels

-----------------------------------------------------------------------------
(* Migrations that clash.                                                  *)

(* A migration that is at its last statement or has only to commit.        *)
Altering(m) == m \in Migrators /\ pc[m] \in {"alter", "commitMigration"}

(* It stays there or commits, unless something fails or it is the victim   *)
(* of a deadlock.                                                          *)
LEMMA AlteringStep ==
  ASSUME MigrationTypeOK, LockInv, NameInv, faults \in Nat, [Next]_vars,
         NEW m, Altering(m), ~BreakDeadlock(m), faults' = 0
  PROVE  Altering(m)' \/ schema' = Current
<1> HIDE DEF Needed
<1> USE DEF MigrationTypeOK
<1>1. m \in Migrators /\ m \in Sessions /\ m # Daemon /\ m \notin Collectors
  BY DEF Altering, Sessions
<1>2. ASSUME NEW s \in Sessions \ {m}, Finish(s) \/ \E to : pc' = [pc EXCEPT ![s] = to]
      PROVE  Altering(m)'
  BY <1>1, <1>2 DEF Altering, Finish
<1>3. CASE UNCHANGED repository
  BY <1>3 DEF repository, Altering
<1>4. CASE UNCHANGED vars
  BY <1>3, <1>4, Zenon DEF vars
<1>5. ASSUME NEW c \in Collectors, Cycle(c) \/ RefuseSource(c) \/ CycleFails(c) PROVE Altering(m)'
  BY <1>1, <1>2, <1>5 DEF Cycle, BeginCycle, PassGate, RefuseCycle, ReadSource, EnsureInstance,
     LockRow, InsertCycle, CommitCycle, Pass, Execute, Rollback, RefuseSource, CycleFails, Break,
     Sessions
<1>6. ASSUME NEW n \in Migrators, MigratorRuns(n) PROVE Altering(m)'
  <2>1. n \in Sessions /\ \E to : pc' = [pc EXCEPT ![n] = to]
    BY <1>6 DEF MigratorRuns, MigrationStep, BeginMigration, ReadSchema, CreateTable, EnterName,
       AddReference, CreateIndex, AlterTable, Pass, Execute, Sessions
  <2>2. CASE n = m
    BY <1>1, <1>6, <2>2 DEF Altering, MigratorRuns, MigrationStep, BeginMigration, ReadSchema,
       CreateTable, EnterName, AddReference, CreateIndex, AlterTable, Pass, Execute
  <2> QED
    BY <1>2, <2>1, <2>2
<1>7. ASSUME NEW n \in Migrators, CommitMigration(n) PROVE schema' = Current
  BY <1>7 DEF CommitMigration, NameInv
<1>8. ASSUME NEW n \in Migrators, RefuseMigration(n) \/ FindDuplicate(n) PROVE Altering(m)'
  <2>1. n # m
    BY <1>8 DEF RefuseMigration, FindDuplicate, Altering
  <2> QED
    BY <1>2, <1>8, <2>1 DEF RefuseMigration, FindDuplicate, Rollback, Sessions
<1>9. ASSUME NEW s \in Sessions, BreakDeadlock(s) PROVE Altering(m)'
  <2>1. s # m
    BY <1>9
  <2> QED
    BY <1>2, <1>9, <2>1 DEF BreakDeadlock, Rollback
<1>10. ASSUME faults' = faults + 1 PROVE FALSE
  BY <1>10
<1>11. ASSUME Rollback(Daemon) PROVE Altering(m)'
  BY <1>1, <1>2, <1>11 DEF Rollback, Sessions
<1>12. CASE \E n \in Migrators : Migrate(n) \/ MigrationSucceeds(n) \/ MigrationFails(n) \/ MigrationBreaks(n)
  <2>1. PICK n \in Migrators : Migrate(n) \/ MigrationSucceeds(n) \/ MigrationFails(n)
    BY <1>10, <1>12, Zenon DEF MigrationBreaks
  <2> QED
    BY <1>6, <1>7, <1>8, <2>1, Zenon DEF Migrate, MigratorRuns, MigrationSucceeds, MigrationFails
<1>13. CASE OperatorMigrates \/ InstallerMigrates
  BY <1>6, <1>13, Zenon DEF OperatorMigrates, InstallerMigrates, MigratorRuns
<1>14. CASE Crash \/ Restart
  BY <1>11, <1>14, Zenon DEF Crash, Restart, Kill
<1>15. CASE Respawn \/ StartInstall \/ StartPip \/ FinishPip \/ Validate \/ Enable
            \/ InstallerDies \/ Change
  <2>1. UNCHANGED repository
    BY <1>15, Zenon DEF Respawn, StartInstall, StartPip, FinishPip, Validate, Enable, InstallerDies,
       Change
  <2> QED
    BY <1>3, <2>1
<1> QED
  BY <1>4, <1>5, <1>9, <1>12, <1>13, <1>14, <1>15, Zenon DEF Next, DeadlockBroken

(* The victim of a deadlock leaves another migration at its last statement.*)
LEMMA VictimLeavesAnother ==
  ASSUME MigrationTypeOK, LockInv, NameInv, NoSchemaSurprise, NEW s \in Sessions, Deadlocked(s)
  PROVE  \E m \in Migrators \ {s} : pc[m] = "alter" /\ m \in Sessions
<1>1. PICK D \in SUBSET Sessions :
        /\ s \in D
        /\ \A x \in D : (\E y \in D : WaitsFor(x, y)) /\ (\E y \in D : WaitsFor(y, x))
  BY Zenon DEF Deadlocked
<1>2. \A x \in D : pc[x] = "alter"
  BY <1>1, DeadlocksAlter
<1>3. PICK y \in D : WaitsFor(s, y)
  BY <1>1
<1>4. y # s
  BY <1>3 DEF WaitsFor
<1>5. y \in Migrators
  BY <1>2, <1>3 DEF LockInv, CollectorLabels, Sessions
<1> QED
  BY <1>2, <1>3, <1>4, <1>5

LEMMA ClashStep ==
  ASSUME MigrationTypeOK, LockInv, NameInv, NoSchemaSurprise, faults \in Nat, ClashInv, [Next]_vars
  PROVE  ClashInv'
<1> HIDE DEF Needed
<1> USE DEF MigrationTypeOK
<1> SUFFICES ASSUME clashed', faults' = 0
             PROVE  schema' = Current \/ \E m : Altering(m)'
  BY DEF ClashInv, Altering
<1>1. schema' >= schema /\ schema' \in 0..Current
  BY NameStep, RepositoryTypes
<1>2. schema = Current => schema' = Current
  BY <1>1 DEF Current
<1>3. ASSUME NEW s \in Sessions, BreakDeadlock(s) PROVE \E m : Altering(m)'
  <2>1. PICK m \in Migrators \ {s} : pc[m] = "alter" /\ m \in Sessions
    BY <1>3, VictimLeavesAnother DEF BreakDeadlock
  <2>2. pc'[m] = "alter"
    BY <1>3, <2>1 DEF BreakDeadlock, Rollback, Finish
  <2> QED
    BY <2>1, <2>2 DEF Altering
<1>4. ASSUME NEW s \in Sessions, FindDuplicate(s) PROVE schema' = Current
  <2>1. s \in Migrators /\ schema >= Safety /\ pc[s] = "name" /\ schema' = schema
    BY <1>4 DEF FindDuplicate, Rollback, LockInv, CollectorLabels, Sessions
  <2> QED
    BY <2>1 DEF NameInv, Safety, Current
<1>5. CASE UNCHANGED clashed /\ \A s \in Sessions : ~BreakDeadlock(s)
  <2>1. clashed
    BY <1>5, Zenon
  <2>2. faults = 0
    <3>1. faults' = faults \/ faults' = faults + 1
      BY Zenon DEF Next, vars, Cycle, RefuseSource, CycleFails, Migrate, MigrationSucceeds,
         MigrationFails, MigrationBreaks, DeadlockBroken, Crash, Respawn, OperatorMigrates,
         StartInstall, StartPip, FinishPip, InstallerMigrates, Validate, Enable, Restart,
         InstallerDies, Change
    <3> QED
      BY <3>1
  <2>3. schema = Current \/ \E m \in Migrators : pc[m] \in {"alter", "commitMigration"}
    BY <2>1, <2>2, Zenon DEF ClashInv
  <2>4. CASE schema = Current
    BY <1>2, <2>4
  <2>5. ASSUME NEW m \in Migrators, pc[m] \in {"alter", "commitMigration"}
        PROVE  Altering(m)' \/ schema' = Current
    BY <1>5, <2>5, AlteringStep DEF Altering, Sessions
  <2> QED
    BY <2>3, <2>4, <2>5
<1> QED
  BY <1>3, <1>4, <1>5, ClashOnly, Zenon

-----------------------------------------------------------------------------
(* The installer and the service.                                          *)

(* A step of the installer's script, of the service or of an administrator,*)
(* or one that leaves all of them alone but perhaps the end of a migration.*)
LEMMA ScriptStep ==
  ASSUME [Next]_vars
  PROVE  \/ UNCHANGED <<installer, code, source>>
         \/ Crash \/ Respawn \/ StartInstall \/ StartPip \/ FinishPip \/ InstallerMigrates
         \/ Validate \/ Enable \/ Restart \/ InstallerDies \/ Change
         \/ /\ step' \in {"idle", "validate"} /\ pc[Installer] # "idle"
            /\ UNCHANGED <<vetted, code, source>>
<1>1. CASE UNCHANGED vars
  BY <1>1, Zenon DEF vars
<1>2. CASE \E c \in Collectors : Cycle(c) \/ RefuseSource(c) \/ CycleFails(c)
  BY <1>2, Zenon DEF Cycle, RefuseSource, CycleFails
<1>3. CASE OperatorMigrates \/ \E m \in Migrators : Migrate(m)
  BY <1>3, Zenon DEF OperatorMigrates, Migrate
<1>4. ASSUME NEW s \in Sessions,
             MigrationSucceeds(s) \/ MigrationFails(s) \/ MigrationBreaks(s) \/ DeadlockBroken(s)
      PROVE  \/ UNCHANGED <<installer, code, source>>
             \/ /\ step' \in {"idle", "validate"} /\ pc[Installer] # "idle"
                /\ UNCHANGED <<vetted, code, source>>
  <2>1. PICK to \in {"idle", "validate"} : Proceed(s, to)
    BY <1>4, Zenon DEF MigrationSucceeds, MigrationFails, MigrationBreaks, DeadlockBroken
  <2>2. pc[s] # "idle"
    <3>1. DeadlockBroken(s) => Locking(s)
      BY DEF DeadlockBroken, BreakDeadlock, Deadlocked, WaitsFor
    <3> QED
      BY <1>4, <3>1, NeededLocks DEF MigrationSucceeds, MigrationFails, MigrationBreaks,
         CommitMigration, RefuseMigration, FindDuplicate, Break, Locking
  <2>3. CASE s = Installer
    BY <2>1, <2>2, <2>3, Zenon DEF Proceed, Goto
  <2>4. CASE s # Installer
    BY <2>1, <2>4, Zenon DEF Proceed, installer
  <2> QED
    BY <2>3, <2>4
<1> QED
  BY <1>1, <1>2, <1>3, <1>4, Zenon DEF Next, Sessions

(* The invariant of the installer's own migration.                         *)
InstallerInv == pc[Installer] # "idle" => step = "migrating"

LEMMA InstallerStep ==
  ASSUME MigrationTypeOK, InstallerInv, [Next]_vars PROVE InstallerInv'
<1> USE DEF MigrationTypeOK
<1>0. Installer \in Sessions /\ Installer \notin Collectors /\ Installer # Daemon
  BY DEF Sessions
<1>1. ASSUME NEW s \in Sessions \ {Installer}, Finish(s) \/ \E to : pc' = [pc EXCEPT ![s] = to]
      PROVE  UNCHANGED pc[Installer]
  BY <1>0, <1>1 DEF Finish
<1>2. ASSUME NEW s \in Sessions, Finish(s) PROVE s = Installer => pc'[Installer] = "idle"
  BY <1>0, <1>2 DEF Finish
<1>3. CASE UNCHANGED repository /\ (step = "migrating" => UNCHANGED step)
  BY <1>3 DEF repository, InstallerInv
<1>4. CASE UNCHANGED vars
  <2>1. UNCHANGED repository /\ UNCHANGED installer
    BY <1>4, Zenon DEF vars
  <2> QED
    BY <1>3, <2>1, InstallerKept
<1>5. ASSUME NEW c \in Collectors, Cycle(c) \/ RefuseSource(c) \/ CycleFails(c) PROVE InstallerInv'
  <2>1. UNCHANGED step
    BY <1>5, InstallerKept, Zenon DEF Cycle, RefuseSource, CycleFails
  <2>2. UNCHANGED pc[Installer]
    BY <1>0, <1>1, <1>5 DEF Cycle, BeginCycle, PassGate, RefuseCycle, ReadSource, EnsureInstance,
       LockRow, InsertCycle, CommitCycle, Pass, Execute, Rollback, RefuseSource, CycleFails, Break,
       Sessions
  <2> QED
    BY <2>1, <2>2 DEF InstallerInv
<1>6. ASSUME NEW m \in Migrators, Migrate(m) \/ (OperatorMigrates /\ m = Operator) PROVE InstallerInv'
  <2>1. UNCHANGED step
    BY <1>6, InstallerKept, Zenon DEF Migrate, OperatorMigrates
  <2>2. pc[m] # "idle" \/ m = Operator
    BY <1>6 DEF Migrate, MigrationStep, ReadSchema, CreateTable, EnterName, AddReference,
       CreateIndex, AlterTable, Pass, Execute
  <2>3. m # Installer => UNCHANGED pc[Installer]
    BY <1>1, <1>6 DEF Migrate, MigrationStep, ReadSchema, CreateTable, EnterName, AddReference,
       CreateIndex, AlterTable, OperatorMigrates, BeginMigration, Pass, Execute, Sessions
  <2> QED
    BY <2>1, <2>2, <2>3 DEF InstallerInv
<1>7. ASSUME NEW s \in Sessions,
             MigrationSucceeds(s) \/ MigrationFails(s) \/ MigrationBreaks(s) \/ DeadlockBroken(s)
      PROVE  InstallerInv'
  <2>1. Finish(s)
    BY <1>7, Zenon DEF MigrationSucceeds, MigrationFails, MigrationBreaks, DeadlockBroken,
       CommitMigration, RefuseMigration, FindDuplicate, Break, BreakDeadlock, Rollback
  <2>2. CASE s = Installer
    BY <1>2, <2>1, <2>2 DEF InstallerInv
  <2>3. CASE s # Installer
    <3>1. UNCHANGED step
      BY <1>7, <2>3, Zenon DEF MigrationSucceeds, MigrationFails, MigrationBreaks, DeadlockBroken, Proceed
    <3> QED
      BY <1>1, <2>1, <2>3, <3>1 DEF InstallerInv
  <2> QED
    BY <2>2, <2>3
<1>8. CASE Crash \/ Restart
  <2>1. Finish(Daemon)
    BY <1>8, Zenon DEF Crash, Restart, Kill, Rollback
  <2>2. UNCHANGED pc[Installer]
    BY <1>0, <1>1, <2>1 DEF Sessions
  <2>3. step = "migrating" => UNCHANGED step
    BY <1>8, InstallerKept DEF Crash, Restart
  <2> QED
    BY <2>2, <2>3 DEF InstallerInv
<1>9. CASE InstallerMigrates
  <2>1. step' = "migrating"
    BY <1>9, Zenon DEF InstallerMigrates, Goto
  <2> QED
    BY <2>1 DEF InstallerInv
<1>10. CASE Respawn \/ StartInstall \/ StartPip \/ FinishPip \/ Validate \/ Enable
            \/ InstallerDies \/ Change
  <2>1. UNCHANGED repository
    BY <1>10, Zenon DEF Respawn, StartInstall, StartPip, FinishPip, Validate, Enable, InstallerDies,
       Change
  <2>2. step = "migrating" => UNCHANGED step
    BY <1>10, InstallerKept DEF Respawn, StartInstall, StartPip, FinishPip, Validate, Enable,
       InstallerDies, Change
  <2> QED
    BY <1>3, <2>1, <2>2
<1>11. CASE OperatorMigrates
  <2>1. Operator \in Migrators
    OBVIOUS
  <2> QED
    BY <1>6, <1>11, <2>1
<1>12. Migrators \subseteq Sessions
  BY DEF Sessions
<1> QED
  BY <1>4, <1>5, <1>6, <1>7, <1>8, <1>9, <1>10, <1>11, <1>12, Zenon DEF Next

(* VettedInv in two parts.                                                 *)
Upgraded == step \in {"migrate", "migrating", "validate", "enable", "restart"} => disk = "new"

Vetted ==
  /\ step \in {"idle", "enable", "restart"} /\ disk = "new"
  /\ schema = Current /\ MajorIsValid(expected) /\ Compatible
  /\ step = "idle" => service = "failed" \/ (service = "new" /\ loaded = expected)

LEMMA UpgradedStep ==
  ASSUME InstallerInv, Upgraded, [Next]_vars PROVE Upgraded'
<1> USE DEF Upgraded
<1>1. CASE UNCHANGED <<installer, code, source>>
  <2>1. UNCHANGED step /\ UNCHANGED disk
    BY <1>1, InstallerKept, CodeKept, Zenon
  <2> QED
    BY <2>1
<1>2. CASE Crash \/ Respawn
  <2>1. UNCHANGED step /\ UNCHANGED disk
    BY <1>2, InstallerKept, Zenon DEF Crash, Respawn
  <2> QED
    BY <2>1
<1>3. CASE StartInstall \/ StartPip \/ FinishPip
  <2>1. step' \in {"python", "pip"} \/ disk' = "new"
    BY <1>3, Zenon DEF StartInstall, StartPip, FinishPip, Goto
  <2> QED
    BY <2>1
<1>4. CASE InstallerMigrates \/ Validate \/ Enable \/ Restart
  <2>1. UNCHANGED disk /\ step \in {"migrate", "validate", "enable", "restart"}
    BY <1>4, CodeKept, Zenon DEF InstallerMigrates, Validate, Enable, Restart
  <2> QED
    BY <2>1
<1>5. CASE InstallerDies
  <2>1. step' = "idle"
    BY <1>5, Zenon DEF InstallerDies, Goto
  <2> QED
    BY <2>1
<1>6. CASE Change
  <2>1. UNCHANGED step /\ UNCHANGED disk
    BY <1>6, CodeKept, Zenon DEF Change
  <2> QED
    BY <2>1
<1>7. CASE pc[Installer] # "idle" /\ UNCHANGED <<vetted, code, source>>
  <2>1. step = "migrating" /\ UNCHANGED disk
    BY <1>7, CodeKept, Zenon DEF InstallerInv
  <2> QED
    BY <2>1
<1> QED
  BY <1>1, <1>2, <1>3, <1>4, <1>5, <1>6, <1>7, ScriptStep, Zenon

LEMMA VettedStep ==
  ASSUME MigrationTypeOK, LockInv, NameInv, InstallerInv, Upgraded, vetted \in BOOLEAN,
         vetted => Vetted, [Next]_vars
  PROVE  vetted' => Vetted'
<1> SUFFICES ASSUME vetted' PROVE Vetted'
  OBVIOUS
<1>1. schema = Current => schema' = Current
  <2>1. schema' >= schema /\ schema' \in 0..Current
    BY NameStep, RepositoryTypes DEF MigrationTypeOK
  <2> QED
    BY <2>1 DEF Current
<1>2. ASSUME UNCHANGED source, MajorIsValid(expected) /\ Compatible
      PROVE  (MajorIsValid(expected) /\ Compatible)'
  BY <1>2, SourceKept DEF MajorIsValid, Level, Match, Compatible
<1>3. CASE UNCHANGED <<installer, code, source>>
  <2>1. UNCHANGED vetted /\ UNCHANGED step /\ UNCHANGED code /\ UNCHANGED source
    BY <1>3, Zenon DEF installer
  <2>2. Vetted
    BY <2>1, Zenon
  <2> QED
    BY <1>1, <1>2, <2>1, <2>2, CodeKept, SourceKept DEF Vetted
<1>4. CASE Crash \/ Respawn
  <2>1. UNCHANGED vetted /\ UNCHANGED step /\ UNCHANGED disk /\ UNCHANGED source
    BY <1>4, Zenon DEF Crash, Respawn, installer
  <2>2. Vetted
    BY <2>1, Zenon
  <2>3. service' = "failed" \/ (service' = "new" /\ loaded' = expected)
    BY <1>4, <2>2 DEF Crash, Respawn, StartProcess, Vetted
  <2> QED
    BY <1>1, <1>2, <2>1, <2>2, <2>3, SourceKept DEF Vetted
<1>5. CASE StartInstall \/ InstallerDies \/ Change
  <2>1. ~vetted'
    BY <1>5, Zenon DEF StartInstall, InstallerDies, Change
  <2> QED
    BY <2>1, Zenon
<1>6. CASE StartPip \/ FinishPip \/ InstallerMigrates
  <2>1. UNCHANGED vetted /\ step \in {"python", "pip", "migrate"}
    BY <1>6, Zenon DEF StartPip, FinishPip, InstallerMigrates
  <2>2. Vetted
    BY <2>1, Zenon
  <2> QED
    BY <2>1, <2>2 DEF Vetted
<1>7. CASE Validate
  <2>1. step' # "idle" /\ UNCHANGED source /\ UNCHANGED code /\ UNCHANGED repository /\ step = "validate"
    BY <1>7, Zenon DEF Validate
  <2>2. step' \in {"enable", "restart"} /\ Approves
    BY <1>7, <2>1 DEF Validate, Goto
  <2>3. disk = "new" /\ schema >= Current /\ MajorIsValid(expected) /\ Compatible
    BY <2>1, <2>2 DEF Approves, Upgraded
  <2>4. schema = Current
    BY <2>3 DEF MigrationTypeOK, Current
  <2> QED
    BY <1>1, <1>2, <2>1, <2>2, <2>3, <2>4, CodeKept DEF Vetted
<1>8. CASE Enable
  <2>1. UNCHANGED source /\ UNCHANGED disk /\ UNCHANGED repository /\ step' = "idle" /\ step = "enable"
    BY <1>8, Zenon DEF Enable, Goto
  <2>2. ~Active /\ StartProcess /\ UNCHANGED vetted
    BY <1>8, Zenon DEF Enable
  <2>3. Vetted
    BY <2>2, Zenon
  <2> QED
    BY <1>1, <1>2, <2>1, <2>2, <2>3, SourceKept DEF Vetted, StartProcess
<1>9. CASE Restart
  <2>1. UNCHANGED source /\ UNCHANGED disk /\ step' = "idle" /\ UNCHANGED vetted /\ StartProcess
    BY <1>9, Zenon DEF Restart, Goto, Restarted
  <2>2. Vetted
    BY <2>1, Zenon
  <2> QED
    BY <1>1, <1>2, <2>1, <2>2, SourceKept DEF Vetted, StartProcess
<1>10. CASE pc[Installer] # "idle" /\ UNCHANGED <<vetted, code, source>>
  <2>1. step = "migrating" /\ UNCHANGED vetted
    BY <1>10, Zenon DEF InstallerInv
  <2>2. Vetted
    BY <2>1, Zenon
  <2> QED
    BY <2>1, <2>2 DEF Vetted
<1> QED
  BY <1>3, <1>4, <1>5, <1>6, <1>7, <1>8, <1>9, <1>10, ScriptStep, Zenon

-----------------------------------------------------------------------------
(* The theorems.                                                           *)

(* The invariant that is inductive: that of the runs, the installer's      *)
(* place, and that no cycle is surprised.                                  *)
Inv == UpgradeInv /\ InstallerInv /\ NoSchemaSurprise

LEMMA InitInv == Init => Inv
<1> SUFFICES ASSUME Init PROVE Inv
  OBVIOUS
<1> HIDE DEF Needed
<1>1. MigrationTypeOK
  <2>1. clashed \in BOOLEAN
    BY Zenon DEF Init, MigrationInit
  <2>2. /\ schema \in 0..Current /\ pc \in [Sessions -> Labels]
        /\ held \in [Sessions -> SUBSET Lock] /\ level \in [Sessions -> 0..Current]
    <3>1. /\ schema \in 0..Current /\ pc = [s \in Sessions |-> "idle"]
          /\ held = [s \in Sessions |-> {}] /\ level = [s \in Sessions |-> 0]
      BY Zenon DEF Init, MigrationInit
    <3> QED
      BY <3>1 DEF Labels, Current
  <2> QED
    BY <2>1, <2>2, Zenon DEF MigrationTypeOK
<1>2. wasActive = FALSE /\ vetted = FALSE /\ clashed = FALSE
  BY Zenon DEF Init, MigrationInit
<1>3. OtherTypes
  BY DEF Init, OtherTypes
<1>4. TypeOK
  BY <1>1, <1>2, <1>3, Zenon DEF TypeOK, OtherTypes
<1>5. \A s \in Sessions : pc[s] = "idle" /\ held[s] = {}
  BY DEF Init, MigrationInit
<1>6. LockInv /\ NameInv /\ InstallerInv /\ NoSchemaSurprise
  BY <1>5 DEF LockInv, Holds, MigratorLabels, CollectorLabels, NameInv, InstallerInv,
     NoSchemaSurprise, Sessions
<1>7. ClashInv
  BY <1>2, Zenon DEF ClashInv
<1>8. step = "idle"
  BY Zenon DEF Init
<1>9. VettedInv
  <2>1. step \notin {"migrate", "migrating", "validate", "enable", "restart"}
    BY <1>8
  <2> QED
    BY <1>2, <2>1, Zenon DEF VettedInv
<1> QED
  BY <1>4, <1>6, <1>7, <1>9, Zenon DEF Inv, UpgradeInv

LEMMA NextInv == Inv /\ [Next]_vars => Inv'
<1> SUFFICES ASSUME Inv, [Next]_vars PROVE Inv'
  OBVIOUS
<1>1. TypeOK /\ LockInv /\ NameInv /\ ClashInv /\ VettedInv /\ InstallerInv /\ NoSchemaSurprise
  BY Zenon DEF Inv, UpgradeInv
<1>2. MigrationTypeOK /\ vetted \in BOOLEAN /\ faults \in Nat
  BY <1>1, Zenon DEF TypeOK
<1>3. TypeOK'
  BY <1>1, TypesStep, Zenon
<1>4. LockInv'
  BY <1>1, LockStep, Zenon
<1>5. NameInv'
  BY <1>1, <1>2, NameStep, Zenon
<1>6. NoSchemaSurprise'
  BY <1>1, <1>2, SurpriseStep, Zenon
<1>7. ClashInv'
  BY <1>1, <1>2, ClashStep, Zenon
<1>8. InstallerInv'
  BY <1>1, <1>2, InstallerStep, Zenon
<1>9. Upgraded /\ (vetted => Vetted)
  BY <1>1, Zenon DEF VettedInv, Upgraded, Vetted
<1>10. Upgraded' /\ (vetted' => Vetted')
  BY <1>1, <1>2, <1>9, UpgradedStep, VettedStep, Zenon
<1>11. VettedInv'
  BY <1>10, Zenon DEF VettedInv, Upgraded, Vetted
<1> QED
  BY <1>3, <1>4, <1>5, <1>6, <1>7, <1>8, <1>11, Zenon DEF Inv, UpgradeInv

LEMMA AlwaysInv == Spec => []Inv
BY InitInv, NextInv, PTL DEF Spec

(* At each statement a transaction holds the locks of those before it, one *)
(* migration at most is making collection_cycles, one that clashed leaves  *)
(* another that finishes, and what the installer checked is still so when  *)
(* it starts the service: UpgradeInv, of migrate_repository, collect_once  *)
(* and install-rocky.sh together.                                          *)
THEOREM UpgradesAreOrderly == Spec => []UpgradeInv
<1>1. Inv => UpgradeInv
  BY Zenon DEF Inv
<1> QED
  BY <1>1, AlwaysInv, PTL

(* A cycle that passed the gate of collect_once finds the schema it needs  *)
(* until it ends: however many sessions collect, migrate or are replaced.  *)
THEOREM CyclesFindTheirSchema == Spec => []NoSchemaSurprise
<1>1. Inv => NoSchemaSurprise
  BY Zenon DEF Inv
<1> QED
  BY <1>1, AlwaysInv, PTL

(* No cycle is ever part of a deadlock, so that migrate_repository never   *)
(* costs one, with any number of collectors.                               *)
THEOREM CyclesAreNeverVictims == Spec => []CyclesSurviveMigrations
<1>1. Inv => CyclesSurviveMigrations
  BY CyclesAreSafe, Zenon DEF Inv, UpgradeInv, TypeOK
<1> QED
  BY <1>1, AlwaysInv, PTL

(* Of migrations that lose to each other, by a deadlock or by a name that  *)
(* exists already, one has made the schema current by the time all ended.  *)
THEOREM ClashesLeaveACurrentSchema == Spec => []OneMigrationGetsThrough
<1>1. Inv => OneMigrationGetsThrough
  <2> SUFFICES ASSUME ClashInv, clashed, faults = 0, \A m \in Migrators : pc[m] = "idle"
               PROVE  schema = Current
    BY Zenon DEF Inv, UpgradeInv, OneMigrationGetsThrough
  <2>1. schema = Current \/ \E m \in Migrators : pc[m] \in {"alter", "commitMigration"}
    BY Zenon DEF ClashInv
  <2> QED
    BY <2>1
<1> QED
  BY <1>1, AlwaysInv, PTL

(* A service started by install-rocky.sh on a check that passed runs the   *)
(* new code and collects, an extension without its library aside.          *)
THEOREM CheckedServiceCollects == Spec => []VettedServiceCollects
<1>1. Inv => VettedServiceCollects
  <2> SUFFICES ASSUME VettedInv, pgss \in Extension, vetted, step = "idle"
               PROVE  (Collecting /\ service = "new") \/ service = "failed" \/ pgss = "unloaded"
    BY Zenon DEF Inv, UpgradeInv, TypeOK, VettedServiceCollects
  <2>1. Vetted
    BY Zenon DEF VettedInv, Vetted
  <2> QED
    BY <2>1 DEF Vetted, Collecting, Active, SourceAccepted, Need, Current
<1> QED
  BY <1>1, AlwaysInv, PTL

(* No migration and no step of install-rocky.sh stops a service that       *)
(* collects, a change after the check aside.                               *)
THEOREM InstallationsKeepCollecting == Spec => KeepsCollecting
<1>1. ASSUME Inv, [Next]_vars, Collecting, ~Collecting'
      PROVE  service' = "failed" \/ source' # source \/ (step = "restart" /\ ~vetted)
  <2>1. TypeOK /\ LockInv /\ NameInv /\ VettedInv
    BY <1>1, Zenon DEF Inv, UpgradeInv
  <2>2. schema' >= schema /\ schema \in 0..Current /\ schema' \in 0..Current
    <3>1. MigrationTypeOK
      BY <2>1, Zenon DEF TypeOK
    <3> QED
      BY <1>1, <2>1, <3>1, NameStep, RepositoryTypes DEF MigrationTypeOK
  <2>3. Active /\ schema >= Need(service) /\ SourceAccepted(loaded)
    BY <1>1 DEF Collecting
  <2> SUFFICES ASSUME UNCHANGED source, service' # "failed", ~(step = "restart" /\ ~vetted)
               PROVE  FALSE
    BY Zenon
  <2>4. \A e : SourceAccepted(e) => SourceAccepted(e)'
    BY SourceKept DEF SourceAccepted, MajorIsValid, Level, Match, Compatible
  <2>5. CASE UNCHANGED service /\ UNCHANGED loaded
    <3>1. Collecting'
      BY <2>2, <2>3, <2>4, <2>5 DEF Collecting, Active, Need, Safety, Current, SourceAccepted,
         MajorIsValid, Level, Match, Compatible
    <3> QED
      BY <1>1, <3>1, Zenon
  <2>6. CASE Restart
    <3>1. vetted /\ step = "restart" /\ StartProcess
      BY <2>6, Zenon DEF Restart, Restarted
    <3>2. Vetted
      BY <2>1, <3>1, Zenon DEF VettedInv, Vetted
    <3>3. service' = "new" /\ loaded' = expected
      BY <3>1, <3>2 DEF StartProcess, Vetted
    <3>4. SourceAccepted(expected)
      BY <2>3, <3>2 DEF SourceAccepted, Vetted
    <3>5. Collecting'
      BY <2>2, <2>4, <3>2, <3>3, <3>4, SourceKept DEF Collecting, Active, Need, Current, Vetted,
         SourceAccepted, MajorIsValid, Level, Match, Compatible
    <3> QED
      BY <1>1, <3>5, Zenon
  <2>7. UNCHANGED <<service, loaded>> \/ Restart
    <3>1. CASE UNCHANGED code
      BY <3>1 DEF code
    <3>2. ~Crash
      BY DEF Crash
    <3>3. ~Respawn
      BY <2>3 DEF Respawn, Active
    <3>4. Enable => UNCHANGED <<service, loaded>>
      BY <2>3 DEF Enable
    <3>5. StartPip \/ FinishPip => UNCHANGED <<service, loaded>>
      BY DEF StartPip, FinishPip
    <3>6. StartInstall \/ InstallerMigrates \/ Validate \/ InstallerDies \/ Change => UNCHANGED code
      BY Zenon DEF StartInstall, InstallerMigrates, Validate, InstallerDies, Change
    <3> QED
      BY <1>1, <3>1, <3>2, <3>3, <3>4, <3>5, <3>6, ScriptStep, Zenon
  <2> QED
    BY <2>5, <2>6, <2>7
<1>2. ASSUME Inv, [Next]_vars
      PROVE  [Collecting /\ ~Collecting' =>
                \/ service' = "failed" \/ source' # source
                \/ step = "restart" /\ ~vetted]_vars
  BY <1>1, <1>2, Zenon
<1> QED
  BY <1>2, AlwaysInv, PTL DEF Spec, KeepsCollecting

-----------------------------------------------------------------------------
(* The collectors' cycles are those of CollectOnce.tla.                    *)

LEMMA StageIs ==
  /\ StageOf("idle") = "idle"
  /\ \A label \in {"gate", "source"} : StageOf(label) = "fast"
  /\ \A label \in {"instance", "row"} : StageOf(label) = "ready"
  /\ \A label \in {"record", "commitCycle"} : StageOf(label) = "writing"
  /\ \A label \in Labels :
       StageOf(label) = "writing" => label \in {"record", "commitCycle"}
  BY DEF StageOf, Labels

(* A writing collector holds the row, and nobody gets it beside him.       *)
LEMMA RowIsExclusive ==
  ASSUME MigrationTypeOK, LockInv, NEW c \in Collectors, NEW d \in Collectors,
         pc[c] = "row", Free(c)
  PROVE  Stages[d] # "writing"
<1>1. Conflicts(Needed["row"].mode, Needed["row"].mode)
  BY DEF Needed, Conflicts
<1> HIDE DEF Needed
<1>2. Stages[d] = "writing" => pc[d] \in {"record", "commitCycle"}
  BY StageIs DEF Stages, MigrationTypeOK, Sessions
<1>3. Stages[d] = "writing" => Needed["row"] \in held[d]
  BY <1>2 DEF LockInv, Holds, Sessions
<1>4. Needed["row"] \in held[d] => d = c
  BY <1>1, NeededLocks DEF Free, WaitsFor, Locking, Sessions
<1> QED
  BY <1>2, <1>3, <1>4

(* The session that moves is alone in doing so.                            *)
LEMMA StagesOfMover ==
  ASSUME MigrationTypeOK, NEW s \in Sessions, NEW to, pc' = [pc EXCEPT ![s] = to]
  PROVE  /\ s \in Collectors => /\ Stages[s] = StageOf(pc[s])
                                /\ Stages' = [Stages EXCEPT ![s] = StageOf(to)]
         /\ s \notin Collectors => Stages' = Stages
  BY DEF MigrationTypeOK, Stages, Sessions

LEMMA OnceStep ==
  ASSUME MigrationTypeOK, LockInv, [Next]_vars
  PROVE  [OnceOfSessions!OnceNext]_(OnceOfSessions!once)
<1> DEFINE Once(c) == \/ OnceOfSessions!Begin(c) \/ OnceOfSessions!ReadFast(c)
                      \/ OnceOfSessions!Write(c) \/ OnceOfSessions!End(c)
<1>1. Never' = Never /\ \A c \in Collectors : Never = [Never EXCEPT ![c] = FALSE]
  BY DEF Never
<1>2. Stages' = Stages => UNCHANGED OnceOfSessions!once
  BY <1>1 DEF OnceOfSessions!once
<1>3. ASSUME NEW s \in Sessions, Finish(s)
      PROVE  UNCHANGED OnceOfSessions!once \/ (s \in Collectors /\ Once(s))
  <2>1. pc' = [pc EXCEPT ![s] = "idle"]
    BY <1>3 DEF Finish
  <2>2. CASE s \in Collectors
    <3>1. Stages' = [Stages EXCEPT ![s] = "idle"]
      <4>1. Stages' = [Stages EXCEPT ![s] = StageOf("idle")]
        BY <2>1, <2>2, StagesOfMover
      <4> QED
        BY <4>1, StageIs
    <3>2. CASE Stages[s] = "idle"
      <4>1. Stages' = Stages
        BY <3>1, <3>2 DEF Stages
      <4> QED
        BY <1>2, <4>1
    <3>3. CASE Stages[s] # "idle"
      BY <1>1, <2>2, <3>1, <3>3 DEF OnceOfSessions!End
    <3> QED
      BY <2>2, <3>2, <3>3
  <2> QED
    BY <1>2, <2>1, <2>2, StagesOfMover
<1>4. ASSUME NEW m \in Migrators, MigratorRuns(m) PROVE UNCHANGED OnceOfSessions!once
  <2>1. PICK to : pc' = [pc EXCEPT ![m] = to]
    BY <1>4 DEF MigratorRuns, MigrationStep, BeginMigration, ReadSchema, CreateTable, EnterName,
       AddReference, CreateIndex, AlterTable, Pass, Execute
  <2>2. m \in Sessions /\ m \notin Collectors
    BY DEF Sessions
  <2> QED
    BY <1>2, <2>1, <2>2, StagesOfMover
<1>5. ASSUME NEW c \in Collectors, CollectorRuns(c)
      PROVE  UNCHANGED OnceOfSessions!once \/ Once(c)
  <2>1. c \in Sessions
    BY DEF Sessions
  <2>2. CASE BeginCycle(c)
    <3>1. pc[c] = "idle" /\ pc' = [pc EXCEPT ![c] = "gate"]
      BY <2>2 DEF BeginCycle, Pass
    <3>2. Stages[c] = "idle" /\ Stages' = [Stages EXCEPT ![c] = "fast"]
      <4>1. Stages[c] = StageOf("idle") /\ Stages' = [Stages EXCEPT ![c] = StageOf("gate")]
        BY <2>1, <3>1, StagesOfMover
      <4> QED
        BY <4>1, StageIs
    <3>3. \E w \in BOOLEAN : Never' = [Never EXCEPT ![c] = w]
      BY <1>1
    <3> QED
      BY <1>1, <3>2, <3>3, Zenon DEF OnceOfSessions!Begin
  <2>3. CASE ReadSource(c)
    <3>1. pc[c] = "source" /\ pc' = [pc EXCEPT ![c] = "instance"]
      BY <2>3 DEF ReadSource, Pass
    <3>2. Stages[c] = "fast" /\ Stages' = [Stages EXCEPT ![c] = "ready"]
      <4>1. Stages[c] = StageOf("source") /\ Stages' = [Stages EXCEPT ![c] = StageOf("instance")]
        BY <2>1, <3>1, StagesOfMover
      <4> QED
        BY <4>1, StageIs
    <3>3. Never[c] = FALSE /\ Never' = [Never EXCEPT ![c] = Never[c]]
      BY <1>1 DEF Never
    <3> QED
      BY <1>1, <3>2, <3>3 DEF OnceOfSessions!ReadFast
  <2>4. CASE LockRow(c)
    <3>1. pc[c] = "row" /\ Free(c) /\ pc' = [pc EXCEPT ![c] = "record"]
      BY <2>4 DEF LockRow, Execute
    <3>2. Stages[c] = "ready" /\ Stages' = [Stages EXCEPT ![c] = "writing"]
      <4>1. Stages[c] = StageOf("row") /\ Stages' = [Stages EXCEPT ![c] = StageOf("record")]
        BY <2>1, <3>1, StagesOfMover
      <4> QED
        BY <4>1, StageIs
    <3>3. \A d \in Collectors : Stages[d] # "writing"
      BY <3>1, RowIsExclusive
    <3> QED
      BY <1>1, <3>2, <3>3 DEF OnceOfSessions!Write
  <2>5. CASE PassGate(c, Need(CodeOf(c))) \/ EnsureInstance(c) \/ InsertCycle(c)
    <3>1. PICK to : pc' = [pc EXCEPT ![c] = to] /\ StageOf(to) = StageOf(pc[c])
      BY <2>5, StageIs DEF PassGate, EnsureInstance, InsertCycle, Execute
    <3>2. Stages[c] = StageOf(pc[c]) /\ Stages' = [Stages EXCEPT ![c] = StageOf(pc[c])]
      BY <2>1, <3>1, StagesOfMover
    <3>3. Stages' = Stages
      BY <3>2 DEF Stages
    <3> QED
      BY <1>2, <3>3
  <2> QED
    BY <1>5, <2>2, <2>3, <2>4, <2>5 DEF CollectorRuns
<1>6. ASSUME UNCHANGED repository PROVE UNCHANGED OnceOfSessions!once
  BY <1>2, <1>6 DEF repository, Stages
<1>7. UNCHANGED OnceOfSessions!once \/ \E c \in Collectors : Once(c)
  <2> HIDE DEF Once
  <2>1. CASE \E s \in Sessions : Finish(s)
    BY <1>3, <2>1
  <2>2. CASE \E m \in Migrators : MigratorRuns(m)
    BY <1>4, <2>2
  <2>3. CASE \E c \in Collectors : CollectorRuns(c)
    BY <1>5, <2>3
  <2>4. \/ UNCHANGED repository \/ \E s \in Sessions : Finish(s)
        \/ \E m \in Migrators : MigratorRuns(m)
        \/ \E c \in Collectors : CollectorRuns(c)
    BY RepositoryStep, Zenon DEF Ends, Rollback, CommitMigration, CommitCycle, Sessions
  <2> QED
    BY <1>6, <2>1, <2>2, <2>3, <2>4
<1> QED
  BY <1>7, Zenon DEF OnceOfSessions!OnceNext

(* With PostgreSQL's locks in the model, too, cycles are collect_once's:   *)
(* however many collect, migrate, fail or are restarted, the row that      *)
(* ensure_instance updates lets one of them write at a time.               *)
THEOREM CollectorsTakeTurns == Spec => CollectsOnce
<1>1. Init => OnceOfSessions!OnceInit
  BY StageIs DEF Init, MigrationInit, OnceOfSessions!OnceInit, Stages, Never, Sessions
<1>2. Inv => MigrationTypeOK /\ LockInv
  BY Zenon DEF Inv, UpgradeInv, TypeOK
<1>3. MigrationTypeOK /\ LockInv /\ [Next]_vars
        => [OnceOfSessions!OnceNext]_(OnceOfSessions!once)
  BY OnceStep
<1> QED
  BY <1>1, <1>2, <1>3, AlwaysInv, PTL DEF Spec, CollectsOnce, OnceOfSessions!OnceSpec

=============================================================================
