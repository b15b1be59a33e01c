------------------------------- MODULE Upgrade -------------------------------
(***************************************************************************)
(* An upgrade: install-rocky.sh replaces the code, migrates the            *)
(* repository, validates and restarts, while the service goes on with the  *)
(* code and the configuration it was started with, systemd may start it    *)
(* again at any moment, an operator may migrate by hand, and the monitored *)
(* server changes.                                                         *)
(*                                                                         *)
(* The gates are here as well: what "pgintel check" asks before it lets    *)
(* the installer go on, and what collect_once asks in every cycle.         *)
(***************************************************************************)
EXTENDS Migration

CONSTANTS
  Installer, Operator,  \* the migrators
  Daemon,               \* the collector that is the service
  Majors,               \* major versions the source may have
  Expectations,         \* values of expected_major in pgintel.ini
  MinSupported,         \* MIN_SUPPORTED_MAJOR
  Any,                  \* expected_major is not set
  MaxFaults             \* bound on failures and on changes of the source

ASSUME UpgradeAssumption ==
  /\ Installer # Operator /\ Migrators = {Installer, Operator}
  /\ Daemon \in Collectors
  /\ Majors \subseteq Nat /\ Majors # {} /\ MinSupported \in Nat /\ Any \notin Nat
  /\ Expectations \subseteq Nat \cup {Any} /\ Expectations # {}
  /\ MaxFaults \in Nat

VARIABLES
  disk,      \* the code under PREFIX
  service,   \* the code the service runs, or why it runs none
  loaded,    \* expected_major as the service read it when it started
  step,      \* where the installer is
  options,   \* whether it was asked to migrate and to enable the service
  wasActive, \* WAS_ACTIVE
  major,     \* of the source
  pgss,      \* the extension pg_stat_statements in the source
  expected,  \* expected_major in pgintel.ini
  faults,    \* failures and changes so far
  vetted     \* the service was started, or is about to be, on a check that
             \* passed, and nothing was changed since (history)

installer == <<step, options, wasActive, vetted>>
code == <<disk, service, loaded>>
source == <<major, pgss, expected>>

vars == <<repository, installer, code, source, faults>>

(* Absent or as it should be, too old or not on the search path, created   *)
(* without its library being preloaded.                                    *)
Extension == {"fine", "unfit", "unloaded"}

TypeOK ==
  /\ MigrationTypeOK
  /\ disk \in {"old", "partial", "new"}
  /\ service \in {"off", "failed", "old", "new"}
  /\ loaded \in Expectations
  /\ step \in {"idle", "python", "pip", "migrate", "migrating", "validate", "enable", "restart"}
  /\ options \subseteq {"migrate", "enable"}
  /\ wasActive \in BOOLEAN
  /\ major \in Majors /\ pgss \in Extension /\ expected \in Expectations
  /\ faults \in Nat
  /\ vetted \in BOOLEAN

Init ==
  /\ MigrationInit
  /\ disk = "old" /\ service \in {"off", "old"}
  /\ expected \in Expectations /\ loaded = expected
  /\ step = "idle" /\ options = {} /\ wasActive = FALSE
  /\ major \in Majors /\ pgss \in Extension
  /\ faults = 0 /\ vetted = FALSE

Active == service \in {"old", "new"}

-----------------------------------------------------------------------------
(* Gates.                                                                  *)

(* support_info: newer majors than the validated ones are let through.     *)
Level(m) == IF m < MinSupported THEN "unsupported" ELSE "supported"

Match(e) == e = Any \/ e = major

(* validate_major                                                          *)
MajorIsValid(e) == Level(major) # "unsupported" /\ Match(e)

(* The level the code insists on: the code before the upgrade knew only    *)
(* collection_cycles.                                                      *)
Need(c) == IF c = "old" THEN Safety ELSE Current

(* compatibility_info of statements looks at the columns only, and those   *)
(* are there whether the library is loaded or not.                         *)
Compatible == pgss # "unfit"

ApprovesMutant ==
  /\ schema >= Safety
  /\ MajorIsValid(expected)
  /\ Compatible

(* Exit status of pgintel check, a process of its own.                     *)
Approves ==
  /\ schema >= Current
  /\ MajorIsValid(expected)
  /\ Compatible

(* collect_once after its schema gate: pg_stat_statements must have its    *)
(* columns, and reading it must succeed.                                   *)
SourceAccepted(e) ==
  /\ MajorIsValid(e)
  /\ Compatible /\ pgss # "unloaded"

(* The cycles of the service are not refused.                              *)
Collecting == Active /\ schema >= Need(service) /\ SourceAccepted(loaded)

-----------------------------------------------------------------------------
(* The service.                                                            *)

(* Other collectors are "pgintel collect", run by hand after the upgrade.  *)
CodeOf(c) == IF c = Daemon THEN service ELSE "new"

ConfigOf(c) == IF c = Daemon THEN loaded ELSE expected

CanRun(c) == IF c = Daemon THEN Active ELSE disk = "new"

(* The transactions of the running process are gone with it.               *)
Kill == Rollback(Daemon) /\ UNCHANGED clashed

(* A new process reads its code and its configuration.                     *)
StartProcess ==
  IF disk = "partial"
    THEN service' = "failed" /\ UNCHANGED loaded
    ELSE service' = disk /\ loaded' = expected

Crash ==
  /\ Active /\ faults < MaxFaults
  /\ service' = "failed" /\ faults' = faults + 1
  /\ Kill
  /\ UNCHANGED <<installer, disk, loaded, source>>

(* Restart=on-failure                                                      *)
Respawn ==
  /\ service = "failed" /\ disk # "partial"
  /\ StartProcess
  /\ UNCHANGED <<repository, installer, disk, source, faults>>

Cycle(c) ==
  /\ \/ CanRun(c) /\ BeginCycle(c)
     \/ PassGate(c, Need(CodeOf(c))) \/ RefuseCycle(c, Need(CodeOf(c)))
     \/ SourceAccepted(ConfigOf(c)) /\ ReadSource(c)
     \/ EnsureInstance(c) \/ LockRow(c) \/ InsertCycle(c) \/ CommitCycle(c)
  /\ UNCHANGED <<installer, code, source, faults>>

RefuseSource(c) ==
  /\ pc[c] = "source" /\ ~SourceAccepted(ConfigOf(c))
  /\ Rollback(c)
  /\ UNCHANGED <<clashed, installer, code, source, faults>>

CycleFails(c) ==
  /\ faults < MaxFaults /\ faults' = faults + 1
  /\ Break(c)
  /\ UNCHANGED <<installer, code, source>>

-----------------------------------------------------------------------------
(* Migrations.                                                             *)

MigrationStep(m) ==
  \/ ReadSchema(m) \/ CreateTable(m) \/ EnterName(m) \/ AddReference(m)
  \/ CreateIndex(m) \/ AlterTable(m)

Migrate(m) == MigrationStep(m) /\ UNCHANGED <<installer, code, source, faults>>

(* Leaving the script its variables are forgotten.                         *)
Goto(to) ==
  /\ step' = to
  /\ options' = IF to = "idle" THEN {} ELSE options
  /\ wasActive' = IF to = "idle" THEN FALSE ELSE wasActive

(* The end of the installer's migration is a step of the installer, which  *)
(* goes on after a success and dies of anything else.                      *)
Proceed(s, to) ==
  /\ IF s = Installer THEN Goto(to) ELSE UNCHANGED <<step, options, wasActive>>
  /\ UNCHANGED <<vetted, code, source>>

MigrationSucceeds(m) ==
  /\ CommitMigration(m)
  /\ Proceed(m, "validate")
  /\ UNCHANGED faults

MigrationFails(m) ==
  /\ RefuseMigration(m) \/ FindDuplicate(m)
  /\ Proceed(m, "idle")
  /\ UNCHANGED faults

MigrationBreaks(m) ==
  /\ faults < MaxFaults /\ faults' = faults + 1
  /\ Break(m)
  /\ Proceed(m, "idle")

DeadlockBroken(s) ==
  /\ BreakDeadlock(s)
  /\ Proceed(s, "idle")
  /\ UNCHANGED faults

(* By hand, once the new command is there.                                 *)
OperatorMigrates ==
  /\ disk = "new"
  /\ BeginMigration(Operator)
  /\ UNCHANGED <<installer, code, source, faults>>

-----------------------------------------------------------------------------
(* The installer.                                                          *)

StartInstall ==
  /\ step = "idle"
  /\ step' = "python"
  /\ options' \in SUBSET {"migrate", "enable"}
  /\ wasActive' = Active
  /\ vetted' = FALSE
  /\ UNCHANGED <<repository, code, source, faults>>

(* While pip is at it a new process finds no code that runs.               *)
StartPip ==
  /\ step = "python"
  /\ Goto("pip") /\ disk' = "partial"
  /\ UNCHANGED <<repository, vetted, service, loaded, source, faults>>

FinishPip ==
  /\ step = "pip"
  /\ Goto(IF "migrate" \in options THEN "migrate" ELSE "validate")
  /\ disk' = "new"
  /\ UNCHANGED <<repository, vetted, service, loaded, source, faults>>

InstallerMigrates ==
  /\ step = "migrate"
  /\ Goto("migrating")
  /\ BeginMigration(Installer)
  /\ UNCHANGED <<vetted, code, source, faults>>

(* pgintel check decides whether the service is enabled or restarted; the  *)
(* latter only if it was active in the beginning.                          *)
Validate ==
  /\ step = "validate"
  /\ Goto(IF Approves /\ "enable" \in options THEN "enable"
          ELSE IF Approves /\ wasActive THEN "restart"
          ELSE "idle")
  /\ vetted' = (step' # "idle")
  /\ UNCHANGED <<repository, code, source, faults>>

(* systemctl enable --now: if the service is active it goes on, with the   *)
(* code and the configuration it has.                                      *)
Enable ==
  /\ step = "enable"
  /\ Goto("idle")
  /\ IF Active THEN vetted' = FALSE /\ UNCHANGED <<service, loaded>>
     ELSE StartProcess /\ UNCHANGED vetted
  /\ UNCHANGED <<repository, disk, source, faults>>

RestartedMutant == IF Active THEN UNCHANGED <<service, loaded>> ELSE StartProcess

(* systemctl restart: a new process in any case.                           *)
Restarted == StartProcess

Restart ==
  /\ step = "restart"
  /\ Goto("idle")
  /\ Restarted
  /\ Kill
  /\ UNCHANGED <<vetted, disk, source, faults>>

(* set -e, or the administrator interrupts it.                             *)
InstallerDies ==
  /\ step \notin {"idle", "migrating"}
  /\ faults < MaxFaults /\ faults' = faults + 1
  /\ Goto("idle") /\ vetted' = FALSE
  /\ UNCHANGED <<repository, code, source>>

(* An administrator upgrades the source, sees to the extension or edits    *)
(* pgintel.ini.                                                            *)
Change ==
  /\ faults < MaxFaults /\ faults' = faults + 1
  /\ \/ major' \in Majors /\ major' > major /\ UNCHANGED <<pgss, expected>>
     \/ pgss' \in Extension \ {pgss} /\ UNCHANGED <<major, expected>>
     \/ expected' \in Expectations \ {expected} /\ UNCHANGED <<major, pgss>>
  /\ vetted' = FALSE
  /\ UNCHANGED <<repository, step, options, wasActive, code>>

-----------------------------------------------------------------------------

Next ==
  \/ \E c \in Collectors : Cycle(c) \/ RefuseSource(c) \/ CycleFails(c)
  \/ \E m \in Migrators :
       Migrate(m) \/ MigrationSucceeds(m) \/ MigrationFails(m) \/ MigrationBreaks(m)
  \/ \E s \in Sessions : DeadlockBroken(s)
  \/ Crash \/ Respawn \/ OperatorMigrates
  \/ StartInstall \/ StartPip \/ FinishPip \/ InstallerMigrates
  \/ Validate \/ Enable \/ Restart \/ InstallerDies
  \/ Change

Spec == Init /\ [][Next]_vars

(* Cycles and migrations go on; PostgreSQL grants locks in turn and breaks *)
(* deadlocks.  Nobody has to run the installer or to migrate.              *)
Fairness ==
  /\ \A c \in Collectors : SF_vars(Cycle(c) \/ RefuseSource(c))
  /\ \A m \in Migrators : SF_vars(Migrate(m) \/ MigrationSucceeds(m) \/ MigrationFails(m))
  /\ WF_vars(\E s \in Sessions : DeadlockBroken(s))

FairSpec == Spec /\ Fairness

-----------------------------------------------------------------------------
(* Properties.                                                             *)

(* What a transaction holds at each of its statements.  A migration that   *)
(* made the table holds two locks more than one that found it.             *)
Creating == {Needed["name"], Needed["reference"]}

Holds(label) ==
  CASE label = "reference" -> {{Needed["name"]}}
    [] label = "index" -> {{}, Creating}
    [] label = "alter" -> {h \cup {Needed["index"]} : h \in {{}, Creating}}
    [] label = "commitMigration" ->
         {h \cup {Needed["index"], Needed["alter"]} : h \in {{}, Creating}}
    [] label = "row" -> {{Needed["instance"]}}
    [] label = "record" -> {{Needed["instance"], Needed["row"]}}
    [] label = "commitCycle" -> {{Needed["instance"], Needed["row"], Needed["record"]}}
    [] OTHER -> {{}}

MigratorLabels ==
  {"idle", "info", "create", "name", "reference", "index", "alter", "commitMigration"}

CollectorLabels == {"idle", "gate", "source", "instance", "row", "record", "commitCycle"}

LockInv ==
  /\ \A s \in Sessions : held[s] \in Holds(pc[s])
  /\ \A m \in Migrators : pc[m] \in MigratorLabels
  /\ \A c \in Collectors : pc[c] \in CollectorLabels
  /\ ~Active => pc[Daemon] = "idle"

(* The name of the table is entered by one migration at a time, and until  *)
(* that commits there is no table; what is committed is always current.    *)
NameInv ==
  \A m \in Migrators :
    /\ Needed["name"] \in held[m] =>
         schema < Safety /\ \A n \in Migrators \ {m} : Needed["name"] \notin held[n]
    /\ pc[m] \in {"index", "alter", "commitMigration"} /\ held[m] \cap Creating = {} =>
         schema >= Safety
    /\ pc[m] = "name" => schema < Safety \/ schema = Current
    /\ pc[m] = "commitMigration" => level[m] = Current

(* The row of the instance, locked once the table is, keeps the writing    *)
(* phases of the collectors apart, as collect_once promises                *)
(* (CollectOnce.tla; there is no slow work in this model).                 *)
StageOf(label) ==
  CASE label \in {"gate", "source"} -> "fast"
    [] label \in {"instance", "row"} -> "ready"
    [] label \in {"record", "commitCycle"} -> "writing"
    [] OTHER -> "idle"

Stages == [c \in Collectors |-> StageOf(pc[c])]
Never == [c \in Collectors |-> FALSE]

OnceOfSessions == INSTANCE CollectOnce WITH
  Agents <- Collectors,
  phase <- Stages, wanted <- Never, over <- Never, complete <- Never

CollectsOnce == OnceOfSessions!OnceSpec

(* A cycle that was let through the gate finds the columns it writes,      *)
(* whatever is migrated, restarted or rolled back while it runs            *)
(* (collect_once asks once, minutes may pass before it inserts).           *)
NoSchemaSurprise ==
  \A c \in Collectors :
    pc[c] \in {"source", "instance", "row", "record", "commitCycle"}
      => schema >= Need(CodeOf(c))

(* Migrations may deadlock with each other, never with a cycle: PostgreSQL *)
(* does not pick a cycle as its victim.                                    *)
CyclesSurviveMigrations == \A c \in Collectors : ~Deadlocked(c)

(* When migrations get in each other's way, one of them gets through.      *)
OneMigrationGetsThrough ==
  clashed /\ faults = 0 /\ (\A m \in Migrators : pc[m] = "idle") => schema = Current

(* After a clash the schema is current or a migration is about to make it  *)
(* so, unless something else has failed.                                   *)
ClashInv ==
  clashed /\ faults = 0 =>
    schema = Current \/ \E m \in Migrators : pc[m] \in {"alter", "commitMigration"}

(* What was checked holds until it is used and as long as nothing changes. *)
VettedInv ==
  /\ step \in {"migrate", "migrating", "validate", "enable", "restart"} => disk = "new"
  /\ vetted =>
       /\ step \in {"idle", "enable", "restart"} /\ disk = "new"
       /\ schema = Current /\ MajorIsValid(expected) /\ Compatible
       /\ step = "idle" => service = "failed" \/ (service = "new" /\ loaded = expected)

UpgradeInv == TypeOK /\ LockInv /\ NameInv /\ ClashInv /\ VettedInv

(* No step of the installer, of a migration or of systemd stops a service  *)
(* that collects from collecting, unless it crashes (and may be started    *)
(* again on code the schema is not ready for), or the source was changed   *)
(* after it was checked.                                                   *)
KeepsCollecting ==
  [][Collecting /\ ~Collecting' =>
       \/ service' = "failed" \/ source' # source
       \/ step = "restart" /\ ~vetted]_vars

(* A service that was started or restarted on a check that passed does     *)
(* collect, on the new code, unless the library of the extension is not    *)
(* loaded, which check does not notice.                                    *)
VettedServiceCollects ==
  vetted /\ step = "idle" =>
    \/ Collecting /\ service = "new"
    \/ service = "failed" \/ pgss = "unloaded"

(* The gate is asked anew in every cycle, and migrations that wait for     *)
(* each other do not keep the lock for ever: as soon as the schema and the *)
(* source are as they should be the service stores cycles again, without a *)
(* restart (and without being restarted by one installation after another).*)
CollectionResumes ==
  <>[](Collecting /\ step = "idle") => []<><<CommitCycle(Daemon)>>_vars

=============================================================================
