# TLA+ models and proofs for PG Intelligence

This directory verifies the collection agent of PG Intelligence (`pgintel/`), its
scheduler and reports, and the bootstrap, migration and upgrade of an
installation. PG Intelligence is a monitor that reads the
statistics views of one PostgreSQL database and keeps interval deltas, sizes and
alerts in a repository database. The modules are written from the source; every
definition that models code is tied to its lines in `PROJECT.json` ("map").

## Inventory

| Part | State | Operations | What makes it correct |
|---|---|---|---|
| Collection cycle, `agent.collect_once` | local variables of the call; one open transaction in each database | read source, take the instance's row, store, analyse, persist events, commit | all or nothing; every cycle ends; the cycle record tells what was collected |
| Sample derivation, `repository.insert_*_samples`, `util.delta` | the four sample tables | delta against the newest row of the key, reset detection, skipping unchanged rows, carrying sizes over | deltas add up to the activity; skipping loses nothing; a known size stays known |
| Analysis and cooldown, `analyzer.py` | `pgintel.events` | thresholds, regression against the history, suppression | no repetition within the cooldown, nothing suppressed without an answer |
| Statement texts, `query_text_mode` | `query_samples.query_text` | never / for regressions / always | no text without its reason |
| Scheduler, `agent.run_forever` | `last_slow`, `last_size` | due times, sleep | no pass too early, none starved, no retry of a skipped one |
| Bootstrap, `bootstrap.py` | roles, grants, database and schema of two clusters | a series of autocommit statements, then one transaction | rerun after a crash completes; foreign roles are left alone |
| Migration, `repository.migrate_repository`, `sql/` | the schema's level | DDL in one transaction | gate of `collect_once`; no deadlock with a running collector |
| Gates, `agent.check`, `capabilities.py` | none | compare versions, columns, schema | what `check` approves `collect_once` accepts |
| Reports, `report.py` | none (reads) | sums over a window | sections that agree |
| Source collectors, `collectors/` | none (reads) | one SELECT each | required columns, attribute asked for |
| Configuration, command line, installer | files, systemd unit | parsing; install, migrate, check, restart | constraints on intervals; order of an upgrade |

How they interact: the scheduler, `pgintel collect` and a second daemon all call
`collect_once`. Nothing in the program knows of another agent; what they share is
the source, which changes all the time, and the repository, where the upsert of
the row of `pgintel.instances` happens to lock them out of each other's write
phase, but not of each other's read phase. Reports read the repository with no
lock at all. Bootstrap and migration are run by hand or by the installer, maybe
while an agent runs.

What is hard here is listed under "hazards" in `PROJECT.json`: cycles that
overlap and rows that are then stored in another order than they were read;
failures between any two statements of a cycle; counters that are reset at any
time; rows that are not stored and the chain of deltas across them; the window of
the cooldown against a transaction's start time; passes that fail, are skipped or
are cut off by a restart; the crash in the middle of a bootstrap; a schema
migrated and a service restarted under a running cycle; reports whose statements
see different states of the repository.

## Modules

* `Samples` - the arithmetic of one sample, as pure operators: `Delta`,
  `ResetDetected`, `IntervalDelta`, `CarriedAttr`, `IsChanged`, `RowOf`,
  `Latest`. An object (database, table, index, statement entry) has one counter
  `raw` in place of a dozen, and one slow attribute `attr`: the size of a
  database, table or index, the text (hash) of a statement; `Unknown` is SQL's
  NULL. `KeyOf` is the key the repository looks an object up by.
* `Collector` - `collect_once`, run by several agents. One action for each step
  that reads the source or touches the repository:

  | Action | Code |
  |---|---|
  | `Begin` | `collected_at = now(utc)`; cycles are requested fast, slow or with sizes |
  | `OpenTransaction` | connections, schema gate, version gate; fixes SQL `now()` |
  | `ReadDatabase`, `ReadStatements`, `ReadTables`, `ReadIndexes` | the collectors, and the source budget between them |
  | `EnsureInstance` | the upsert of the instance's row, which waits for other transactions |
  | `WriteSamples` | the four `insert_*_samples` |
  | `Analyse` | the four analyzers, `fetch_query_texts`, `update_query_texts` |
  | `PersistEvents` | the cooldown |
  | `Commit` | `insert_collection_cycle` and `repo.commit()` |
  | `Abort` | any exception or crash at any step: both connections close, nothing is kept |
  | `Activity`, `Reset...`, `Resize` | the source works on between any two steps |

  Rows and events of a running cycle are in the agent's `job` and reach
  `samples`, `events` and `cycles` with `Commit` only, as READ COMMITTED
  transactions do. A cycle has two stamps, as in the code: `at` (the agent's
  clock, in every row) and `now` (the start of its repository transaction, in
  its events).
* `Ledger` - what a reader of the repository may rely on: it grows by whole
  cycles, whose record accounts for exactly the rows and events that came with
  it. That a cycle is published as a whole is PostgreSQL's commit, a single action of
  `Collector`; what the refinement adds is that the record is right about what is
  published and that no row or event is written twice or under another's stamp. `Collector!PublishesWholeCycles` is this specification under the identity
  mapping of the three published tables.
* `CollectOnce` - what one call of `collect_once` promises whatever it reads,
  stores or waits for: objects are read only when wanted and within the budget,
  one agent writes at a time, and only texts are read from the source while it
  does. Three models implement it under refinement mappings (`CollectsOnce` in
  each): `Collector`, where `over` is a field and the row lock is `holder`;
  `Scheduler`, where it is computed from the time spent; and `Upgrade`, where the
  turn-taking comes from PostgreSQL's row lock. So the reduced cycles of the
  latter two are tied to the full one of the first.
* `Totals` - beside `Collector`, the running sums of deltas whose differences
  are the numbers `report` shows for a window (`WindowsAddUp`).
* `Bootstrap` - `bootstrap_postgres`, run by several administrators and again
  after failures. One action for each statement that changes a cluster, and one
  for each lookup the code decides by:

  | Action | Code |
  |---|---|
  | `FindMonitor`, `CreateMonitor`, `Configure`, `GrantMonitor` | `_ensure_source_role`: lookup and checks, `CREATE ROLE`, each `ALTER ROLE ... SET`, `GRANT pg_monitor` |
  | `GrantConnect` | `GRANT CONNECT`, and the reads for the manual steps |
  | `FindWriter`, `CreateWriter`, `FindDatabase`, `CreateDatabase` | `_ensure_repository_role`, `_ensure_database` |
  | `ReadSchema`, `ApplySchema`, `Migrate`, `Report` | the one transaction: `repository_schema_info`, `001_repository.sql`, `migrate_repository` with its commit, the result |
  | `Abort` | an exception or crash: autocommitted statements stay, the open transaction is rolled back |

  `Init` ranges over fresh clusters, roles made by hand (`sql/002` or otherwise,
  fit or not), a database of somebody else, and every level of an earlier schema.
  A role's `byUs`, `unfinished` and `completed` are history for the properties.
* `Scheduler` - `run_forever`, its restarts by systemd, and of `collect_once`
  the phases, what they cost and where the budget is consulted. It keeps ages
  (`now - last_slow`, `now - last_size`) instead of a clock, so that the daemon
  runs for ever in finitely many states.

  | Action | Code |
  |---|---|
  | `Wake` | `slow_due`, `size_due`, the start of the cycle |
  | `Connect`, `ReadServer`, `ReadDatabase`, `ReadStatements`, `ReadTables`, `ReadIndexes`, `Write`, `FetchTexts`, `Commit` | the phases of `collect_once`; each takes some time |
  | `Fail` | an exception in any phase, logged |
  | `Settle` | `finally`, and the sleep |
  | `Stop`, `Start` | the process ends at any moment; a new one forgets when the last passes were |

* `Cadence` - what `docs/PRODUCTION_SAFETY.md` promises of one class of optional
  work, in two variables and a switch. `Scheduler` implements it twice, for SLOW
  and SIZE (`INSTANCE Cadence WITH wait <- ..., since <- ...`).
* `Migration` - the transactions that meet in the repository while its schema
  changes: `migrate_repository` with one action for each DDL statement, and a
  cycle reduced to its gate and its locks. Lock modes, their conflicts and the
  deadlock detector are PostgreSQL's.
* `Upgrade` - extends `Migration` with the service, the installer and the gates:

  | Action | Code |
  |---|---|
  | `StartInstall`, `StartPip`, `FinishPip` | `WAS_ACTIVE`, `install_files`, `install_python` |
  | `InstallerMigrates`, `MigrationSucceeds`, `MigrationFails`, `MigrationBreaks` | `migrate_repository_schema` |
  | `Validate`, `Enable`, `Restart` | `pgintel check` and what follows it, with `--enable` and without |
  | `Cycle`, `RefuseSource`, `CycleFails` | cycles of the service, on the code and configuration it was started with |
  | `Crash`, `Respawn` | `Restart=on-failure` |
  | `OperatorMigrates` | `pgintel migrate-repository` by hand |
  | `InstallerDies`, `Change` | `set -e` and interrupts; an administrator changes the source, its extension or `pgintel.ini` |

  `Approves` is `pgintel check`; `SourceAccepted` and `Admits` are what
  `collect_once` insists on. That they differ is what the properties are about.
* `Commits` - the agents as a report meets them. A cycle is one record and its
  events, as `Ledger` allows. Its samples are stamped by the clock of the agent's
  host, its events by the repository's; `MaxSkew` is how far the two differ or
  step. `Collector!CommitsAsReported` is this specification, without skew, under
  a mapping of the records; so what `Report` assumes of agents is what they do.
* `Report` - extends `Commits` with `report` and `health`, one action for each
  SELECT. A count in a report is kept as the set of cycles counted, so the
  properties can say which ones are missing.
* `MCCollector`, `MCTotals`, `MCBootstrap`, `MCReport` - instances that TLC checks;
  `Scheduler` and `Upgrade` need none, their `.cfg` gives plain values.
* `CollectorProofs` (types, cooldown, deltas), `LedgerProofs` (`Ledger`, `Commits`),
  `SampleProofs` (the history of rows, `CollectOnce`), `TotalsProofs`,
  `BootstrapProofs`, `SchedulerProofs`, `UpgradeProofs`, `ReportProofs` - the theorems.

Operators whose name ends in `Mutant` are deliberately wrong variants of the
operator after them; no specification uses them. They document, for each
property, a bug in the code that would break it (`PROJECT.json`, "mutants").

The fields `grown` (all activity of an object so far), `reset` (how often its
counter was reset; for a database this is the `stats_reset` column) and `prev`
(the row a row was compared with) do not exist in the program, except that one
column. They only let the properties say what a delta should have been.

## Runs

| Run | Shows |
|---|---|
| `SerialFast` | Two agents whose cycles take turns; a database and a statement. `DeltasAddUp`: whatever is reset whenever, the deltas of consecutive rows are the activity between them if nothing was reset and never more. `WindowsAddUp`: so is the sum over any window, which is what a report shows. `ElisionIsLossless`, `NoRedundantRows`: unchanged rows are skipped, changed ones never. |
| `SerialObjects` | The same for an index whose size is measured in some cycles; `AttrIsNeverForgotten`: a known size is carried on for ever, `SizesAreMeasured`: and was measured by a cycle on record; `ElisionIsLossless`: changes of the size alone are stored too. The budget may be exceeded at any point: `SlowPassIsComplete`, and `CollectsOnce`, the refinement of `CollectOnce`, of which this run tests what is read when. `CommitsAsReported`: the refinement of `Commits`, with slow and size passes and alerts about the index. |
| `Overlap` | Two agents overlapping in every way, failing and crashing at every step, and a database whose counters are reset. `InOrderDeltaIsHonest`, the refinement `PublishesWholeCycles`, and `CycleEnds`: nobody waits for ever for the row lock, even if its holder dies. |
| `OverlapEvents` | Two agents in mode `events`, up to four cycles. `CooldownSpacing` and the invariant `SpacingInv` it rests on; `AlertsAreAnswered`: only repetitions are suppressed. `TextsAreExplained`: a text that is stored while its own event is suppressed, because the other agent just reported the statement, has that event to explain it. `CollectsOnce`, of which this run tests that one agent writes at a time. |
| `OverlapDeltas` | Expected violation of `NoPhantomReset`, see Findings. |
| `NestedStatements` | Expected violation of `NoRedundantRows`, see Findings. |
| `BootstrapReruns` | Two administrators, one failing run. `SuccessIsComplete` and `ProgressInv` under it: the code never looks back, and need not. `ForeignIsKept`: what an administrator made keeps its attributes. `GuardedUnlessInterrupted`: only a run stopped in the middle leaves a role without settings. `Converges`: reruns finish what a failed run left. |
| `BootstrapSettings` | Expected violation of `CreatedRoleIsGuarded`, see Findings. |
| `Cadences` | The daemon with two restarts. `KeepsSlowCadence`, `KeepsSizeCadence`: it implements `Cadence`, whatever fails, is skipped or takes long, and across restarts. `SourceTimeBounded`: how far the soft budget can be exceeded. `CollectsOnce`: what a cycle reads is decided as `CollectOnce` says. `MissedPassesAreMadeUp`: a pass that failed or was skipped is not retried, but once the source answers in time both classes are completed again and again. `SchedulerInv` is the invariant they rest on. |
| `BudgetBlame` | Expected violation of `SkippedForFastWork`, see Findings. |
| `Upgrades` | An installation, a migration by hand and the service, from every schema level, code and source, with one fault anywhere. `NoSchemaSurprise`: the gate of a cycle stays true until its commit. `CyclesSurviveMigrations`, `OneMigrationGetsThrough`: deadlocks hit migrations only, and one of two succeeds. `KeepsCollecting`: no step of an upgrade stops a service that collects. `VettedServiceCollects`: what `check` approved does collect. `CollectionResumes`: collection needs no restart to resume. `UpgradeInv` is the invariant they rest on. |
| `Reports` | Two agents with skewed clocks commit between the statements. `DeadlocksAreListed`: deadlocks under WORKLOAD have their events under RECENT EVENTS. `HealthAddsUp`: the classes account for all cycles of the totals. |

Bounds: `MaxClock` ends the starting of cycles (each takes two ticks, so 3 to 6
allow two to four cycles, and three rows of an object are what it takes for a
delta, a reset and a delta, or a size, a fast cycle and a carried size);
`MaxActivity` 3 lets a counter climb back past its old value after a reset, which
is what hides a reset from `util.delta`; one reset is enough for every relation
between two rows. In the serial runs the constraint `CyclesDoNotOverlap` keeps
TLC from going on once two cycles run at a time; whose cycle is next is left open, and in
`SerialObjects` `MaxClock` 5 gives three of them. A regression takes three
rows of a statement, so `OverlapEvents` has a fourth cycle (`MaxClock` 6), that of the other
agent, and a window (`Cooldown` 1) whose edge falls between the distances 1 and 2 that two
events can have. `Overlap` checks liveness and affords no more than `MaxClock` 3, which is
still three cycles if two of them overlap. `SerialObjects` has an index but no
table: that a table's rows are stored in a pass that was cut before the indexes shows there in the flags of
the record only. Two agents are enough for every pairwise property; the
theorems hold for any number, and for any objects. `MinHistory` 1 stands for the
5 history rows of a regression. `Mode`, `Requests` and `AlertTypes` select in
each run the part of the cycle it is about, because the full product is out of
TLC's reach. `MaxCrashes` 1 lets a run fail at any statement, beside any state of the
other run, and be repeated; the theorems hold for any number of failures and
runs. `SYMMETRY` is used only where no liveness is checked. A run may end
because the bounds forbid new cycles, so deadlock is not checked, except in
`Scheduler` and `Upgrade`: their programs do not stop.

In `Cadences` the intervals 4, 7 and 10 divide nowhere, so both classes become due in
every order and together; a cycle of long reads (up to 15) outlasts both
intervals, one read (2) crosses the budget (6) from either side, and a sleep may
be late. Two restarts come close enough to each other to keep a pass from
starting. In `Upgrades` version 12 is too old, 18 is not, `expected_major` is set
or not, one fault is a crash, a lost connection, an interrupt of the installer or
a change by an administrator; the number of installations and cycles is not
bounded. The safety properties, `CollectsOnce` among them, were also explored with a second collector
(`pgintel collect` by hand), and the others with two faults; the liveness
property of the run is out of TLC's reach with either. In `Reports` the list of events holds two
and the window is as long as a tick, so full and partly filled lists and cycles at either
side of the window's edge all occur. The theorems hold for all of these bounds.

Fairness (`FairSpec`): a cycle that has begun takes its next step (`WF`):
`collect_once` is one call, each of whose statements returns or raises.
`EnsureInstance` gets strong fairness, because PostgreSQL queues the waiters for
a row lock. No agent has to begin a cycle, and none has to fail. `Abort` itself
needs no fairness: after a crash the server ends the session. In `Bootstrap` a
run goes on (`WF`), the lock of the schema's tables is granted in turn (`SF` of
`ApplySchema`), and `RunsWithPasswords` is an assumption about the operator, not
the code: whoever sees a failed bootstrap runs it again, with the passwords that
the installer asks for each time. `Converges` says no more than that this is
enough. Failures are bounded by `MaxCrashes`.
In `Scheduler` the loop goes on and systemd starts a process that is down
(`WF` of `Step`), but no cycle has to succeed: `MissedPassesAreMadeUp` has the
source's health as its premise. In `Upgrade` each cycle and each migration has
strong fairness, since PostgreSQL queues those who wait for a table lock, and
deadlocks are broken (`WF`, `deadlock_timeout`). Nobody has to install, migrate
or respawn anything; `CollectionResumes` supposes that the installer is not started over
and over, since each restart may cut a cycle short.

## Findings

* `OverlapDeltas`: the previous row is the newest by `collected_at` at the time
  of writing, but the counters were read before the row lock was taken. Agent 1
  begins and reads, agent 2 begins, reads more, stores and commits, agent 1
  stores: its counter is smaller than that row's, `util.delta` takes that for a
  reset, and the whole cumulative counter is booked as activity of one interval.
  The docstring (`pgintel/util.py:8`) promises that for a reset counter only.
  `InOrderDeltaIsHonest` shows, and a theorem proves, that rows read in order
  are right no matter how the cycles overlap, and `ResetsAreReal` that without
  overlap the property holds: the overlap alone is to blame. Sizes and records
  do not suffer from it (`SizesHaveASource`, `PassesMeanWhatTheySay`).
* `NestedStatements`: `toplevel` is stored but not part of the lookup key of
  `query_samples`, so the two entries of a statement executed both ways are
  compared with each other's rows, and idle statements get new rows with
  meaningless deltas. `docs/PRODUCTION_SAFETY.md:62` says unchanged statements
  are not stored again.

* `BootstrapSettings`: the role of the source is created and given its settings
  by separate autocommit statements. If a run stops between them, the rerun finds
  a role, takes it for a pre-existing one and returns success; the settings
  promised in `docs/SEMI_PRODUCTION_HOWTO.md:62` are never made.
* `BudgetBlame`: `config.example.ini:12` (and `docs/PRODUCTION_SAFETY.md:32`) say
  that slow and size collectors are skipped when FAST work consumes the budget.
  In a size pass `pg_database_size` is part of the database collector, before the budget
  is consulted for the first time. On a large database it alone uses the budget
  up, and the size pass is skipped because of itself, each time it is due.

## Proofs

TLAPS proves for any agents, objects, keys, kinds and bounds that satisfy the
named assumptions (`SamplesAssumption`, `SentinelAssumption`,
`CollectorAssumption`; TLC evaluates them on each run):

* `TypeCorrect`: `TypeOK`. The interesting part is that `Delta` of natural
  numbers is one (`DeltaIsNat`), so no negative delta is ever stored.
* `SpacingInvHolds`, `CooldownIsKept`: `CooldownSpacing` is not inductive. What
  keeps a second agent from reporting the same thing between this agent's look
  at the events and its commit is the row lock taken several steps earlier, so
  `SpacingInv` adds that the lock is held exactly from `ensure_instance` to the
  commit (`HolderIsTheWriter`) and that already the staged events keep their
  distance from the committed ones (`StagedSpacing`).
* `EveryAlertIsAnswered`: by the definition of `Admitted` a suppressed alert has
  a recent event or a twin of this cycle, and it keeps it, since events are never
  removed.
* `InOrderDeltasAreHonest`: rests on `ReadingsInv`. All readings of an object
  there are, in stored rows, staged rows and agents' variables, are totally
  ordered by age and each is earlier than the source is now; the younger of two
  shows the older counter plus the activity since, or no more than that activity
  after a reset. From two readings so related `IntervalDelta` computes an honest
  delta.
* `CollectorImplementsLedger`: every commit is a step of `Ledger` and every other
  step a stutter. It needs `LedgerInv`: stamps are unique among cycles and
  running agents, what is published belongs to a published cycle (so a new
  cycle's rows are new), and staged rows have the stamp of their cycle and one
  row per object.
* `TextsHaveAReason`: `TextsAreExplained` for any agents. A staged text belongs
  to a regression raised in the same cycle (`StagedTexts`); that alert is answered
  by an event of the cycle or a recent one (`EveryAlertIsAnswered`), and both are
  published together.
* `CollectorImplementsCommits`: sizes are recorded only with a slow pass,
  and `RaisedInv` keeps what a cycle raises within what the configuration can
  reach; so each commit is one of `Commits`, with an outcome that `Report` allows
  for, and its events are those of the alerts. All other steps stutter.
* `DeltasTelescope`, `RowsMeanChange`, `SizesAreRemembered`, `NothingReadIsLost`,
  `PassesAreComplete`, `ResetsAreReal`: `DeltasAddUp`, `NoRedundantRows`,
  `AttrIsNeverForgotten`, `ElisionIsLossless`, `SlowPassIsComplete` and
  `NoPhantomReset`, for any number of agents, objects, modes, resets, failures
  and histories in which cycles do not overlap (`Spec /\ []CyclesDoNotOverlap`),
  if keys tell all objects apart (`OneEntryPerKey`). Neither hypothesis can be
  dropped: on the instances of `OverlapDeltas` (overlap) and `NestedStatements`
  (two entries with one key) TLC also finds `DeltasAddUp` and `ElisionIsLossless`
  violated. All follow from
  `SerialInv` (`SerialInvHolds`): rows are stored in the order of their stamps, so
  the newest is the one `_latest_rows` finds (`OrderInv`); everything read is
  younger than everything stored (`SeenInv`, from
  `ReadingsInv`); every staged row continues the newest stored one (`StagedInv`),
  which at the commit makes it the successor of that row (`StoredInv`); what was
  read is shown by a staged row or by the newest stored one (`ElisionInv`), which
  for a statement needs that its counter is positive and its text never changes
  (`TextInv`); and a pass that counts as done has measured every table and index
  (`PassInv`).
* `WindowsTelescope`: induction over the rows of an object is out of the
  prover's reach, so `Totals` carries the sums along as history variables, and
  `TotalsInv` says that the newest row of an object has all of its sum. A new row
  adds its honest delta to that (`SerialInv`), and what `SumIsActivity` says of
  the newest row and an older one goes over to the new row: a reset in between
  only ever lowers the sum.
* `PassesMeanWhatTheySay`, `SizesHaveASource`: `PassesAreRecorded` and
  `SizesAreMeasured` need no such hypothesis, they hold for cycles that overlap
  in any way. `SoundInv` traces each size of a staged row to a measurement of
  the same cycle or to a stored row, which has its own.
* `CyclesCollectOnce`, `DaemonCollectsOnce`, `CollectorsTakeTurns`: the three
  models implement `CollectOnce`, step by step. In `Collector` an agent that
  reads objects has wanted them and been within the budget (`WithinBudget`); in
  `Scheduler` the same is `PassesInv`, about times; in `Upgrade` a collector that
  writes holds the lock of the row (`LockInv`), and nobody gets it beside him
  (`RowIsExclusive`).

* `BootstrapIsComplete`, `ProgressIsKept`: `SuccessIsComplete` is not inductive;
  `ProgressInv` adds what holds at each place of each run. It is inductive since
  nothing that is in place is ever undone (`NothingIsUndone`), so a run's step
  keeps what the others have passed (`OthersKeepProgress`).
* `BootstrapTyped`, `RoleIsGuarded`: need that only the one run that created the
  role configures it (`Exclusive`); `Configure` counts the settings.
* `ForeignRolesAreKept`: the action property follows from both invariants.
  `Exclusive` keeps `Configure` away from foreign roles, `ProgressInv` the grants
  away from unfit ones and the schema away from a foreign database.

* `SchedulerStaysInBounds`, `BudgetIsKept`, `SlowPassesKeepCadence`,
  `SizePassesKeepCadence`: from `SchedulerAssumption`, the constraints of
  `load_config`. `SchedulerInv` bounds what each phase has cost so far
  (`PhaseBound`), so a class that was not due when its cycle began is not older
  than its interval plus one round when the next one begins; `since`, which
  survives restarts, is never less than the age the program believes in.
* `UpgradesAreOrderly` and the five theorems after it: any set of collectors,
  any versions. A session's locks are determined by its statement (`LockInv`);
  of all pairs of statements only two migrations can wait for each other, both
  at their `ALTER TABLE` (lemmas `WaitPairs`, `DeadlocksAlter`), and the one that
  survives commits the current schema (`VictimLeavesAnother`). The committed
  schema never goes back, which makes `NoSchemaSurprise` inductive once the
  installer's variables are tied to the service's code.
* `ReportsListDeadlocks`, `HealthClassesAddUp`: for any agents, outcomes and skew
  (`Commits` is all they know of agents). `ReportInv` adds that nothing
  read so far is removed and that a cycle's transaction begins after the cycle,
  give or take the skew; a list that leaves an event out is full of events that
  are as recent.

Only model-checked: `CycleEnds`, `Converges`, `MissedPassesAreMadeUp` and
`CollectionResumes`, since liveness is out of the prover's reach. Every other
property of the passing runs is proved. `Upgrade`'s `CollectsOnce` is the reverse
case: it is proved for any number of collectors, and no run states it, since with the one
collector of `Upgrades` there are no turns to take; with two TLC finds it to hold
(832520 states), but not beside the liveness property of that run. What the four runs that expect a
violation check is false on their instances.

## Not modelled

* The value of a baseline and of any threshold: `Analyse` raises any subset of
  what stored rows can justify (`Possible`).
* Real time in `Collector`: budgets, timeouts and durations are choices; `Spend`
  may exceed the budget at any collector, and a timeout anywhere is an `Abort`.
  Durations are in `Scheduler`, where no data is; requests of `Collector`
  are any that the scheduler or `pgintel collect` could make.
* `server_samples` and `instances.last_seen_at`, which nothing reads back except
  one report line; the raw columns that are stored without a delta.
* Clocks that step backwards or differ between hosts, in `Collector`: `clock` is
  one increasing clock, every reading of it is distinct, so `CommitsAsReported` is about
  `Commits` without skew. `Report` has it.
* A reset of a database that leaves `stats_reset` as it was. `pg_stat_reset` moves
  that column, but on newer PostgreSQL it may stay NULL when the statistics are lost
  in a crash of the source. `DeltasAddUp` and `WindowsAddUp` take for granted that
  every reset moves it; without that a database's counters are like those of a table,
  whose reset shows only as a decrease.
* Tables and indexes that are created or dropped: a size pass gets the size of
  all it reads, never NULL for one that was dropped a moment ago. Where the code raises on
  such a NULL (`analyze_indexes`), the model has `Abort`.
* Several instances in one repository: they share no rows and no lock.
* Names: events are keyed by the object's names and samples by its oid; the
  model has one key for both, so renames are left out.
* In the bootstrap: the comparison of the two DSNs before anything is done,
  comments on roles, passwords other than being there or not, a schema owned by
  somebody else than the database. Source and repository role are two roles, which
  the code checks when both are in one cluster.
* In an upgrade: parsing of the configuration, prompts, files, accounts and
  packages; PostgreSQL's lock queue, which is a matter of fairness here (a waiting
  `ALTER TABLE` also blocks those who come after it, for a time); the columns of
  `pg_stat_database`, which all supported versions have. The catalogue of
  features and end-of-life dates of `capabilities.py` decides nothing.
* In reports: sums of deltas (they are in `Totals`), averages, percentiles and layout;
  `inspect-query`, one SELECT on the source.
  `health` reports a reduction of 100 % for cycles recorded before the 0.1.6
  migration, since the added columns default to 0: a matter of data that the
  model does not carry.

Exceptions that properties name, and the runs would find without them: `check`
approves a `pg_stat_statements` whose library is not preloaded, and `--enable`
does not restart a service that is active (`VettedServiceCollects`); a service
that crashes after new code was installed and before the schema is migrated comes
back on code that refuses every cycle (`KeepsCollecting`).

Hazards that no property covers have a note in `PROJECT.json`: rows ordered by
another time than that of their reading (baselines), idle objects whose
condition is not reported again, the NULL size of a dropped index, and the two cases
that `VettedServiceCollects` excepts.

## Plan

1. *(done)* `Samples`, `Collector`, `Ledger`, their runs and first theorems.
2. *(done)* `Bootstrap`, its runs and theorems.
3. *(done)* `Scheduler` and `Cadence`, `Migration` and `Upgrade`, `Report`, with
   their theorems.
4. *(done)* The history of rows: `SampleProofs`.
5. *(done)* `Totals`, `Commits`, `CollectOnce`: what reports sum up, what they
   assume of agents, and one abstract cycle for the three models of it.
6. An abstract schema (levels only grow, a passed gate stays open) for `Upgrade`
   and `Bootstrap` to implement.
7. `Regression`: the history window (`OFFSET 1 LIMIT 12`) as a function of the
   stored rows, and rows ordered by a stepped clock.
