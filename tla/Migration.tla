------------------------------ MODULE Migration ------------------------------
(***************************************************************************)
(* The transactions that meet in the repository while its schema is being  *)
(* migrated: repository.migrate_repository, run by the installer, by a     *)
(* bootstrap or by hand, and the cycles of collect_once.  What they do to  *)
(* the rows is left to Collector.tla; here they are the locks they take,   *)
(* statement by statement, and the schema each of them needs or makes.     *)
(*                                                                         *)
(* Lock modes, their conflicts and the deadlock detector are PostgreSQL's. *)
(* The statements in Upgrade.tla give these transactions to the service    *)
(* and the installer.                                                      *)
(***************************************************************************)
EXTENDS Naturals

CONSTANTS
  Migrators,  \* sessions that migrate
  Collectors  \* sessions that collect

ASSUME MigrationAssumption == Migrators \cap Collectors = {}

Sessions == Migrators \cup Collectors

(* Schema levels, as in Bootstrap.tla: 0 none, 1 without collection_cycles *)
(* (0.1.3), 2 with it (production_safety), 3 with its three columns for    *)
(* stored rows and suppressed events (repository_efficiency).              *)
Safety == 2
Current == 3

VARIABLES
  schema,  \* committed level
  pc,      \* the statement each session is at
  held,    \* the locks of its transaction
  level,   \* the level the transaction of a migrator would commit
  clashed  \* a migration has failed because of another one (history)

repository == <<schema, pc, held, level, clashed>>

Labels == {"idle", "info", "create", "name", "reference", "index", "alter",
           "commitMigration", "gate", "source", "instance", "row", "record",
           "commitCycle"}

Modes == {"AccessShare", "RowExclusive", "Share", "ShareRowExclusive", "AccessExclusive"}

(* instances and collection_cycles, the catalog's entry for the name of    *)
(* the latter while it is being created, and the row of the instance.      *)
Resources == {"instances", "cycles", "name", "row"}

Lock == [on : Resources, mode : Modes]

MigrationTypeOK ==
  /\ schema \in 0..Current
  /\ pc \in [Sessions -> Labels]
  /\ held \in [Sessions -> SUBSET Lock]
  /\ level \in [Sessions -> 0..Current]
  /\ clashed \in BOOLEAN

MigrationInit ==
  /\ schema \in 0..Current
  /\ pc = [s \in Sessions |-> "idle"]
  /\ held = [s \in Sessions |-> {}]
  /\ level = [s \in Sessions |-> 0]
  /\ clashed = FALSE

-----------------------------------------------------------------------------
(* Locks.                                                                  *)

Conflicting ==
  {{"RowExclusive", "Share"}, {"RowExclusive", "ShareRowExclusive"},
   {"Share", "ShareRowExclusive"}, {"ShareRowExclusive"}}

Conflicts(m, n) == "AccessExclusive" \in {m, n} \/ {m, n} \in Conflicting

(* The lock a statement takes: CREATE TABLE its name and then, for the     *)
(* foreign key, instances; CREATE INDEX even when the index exists; an     *)
(* INSERT the table and, ON CONFLICT DO UPDATE, the row.                   *)
Needed ==
  [label \in {"name", "reference", "index", "alter", "instance", "row", "record"} |->
     CASE label = "name" -> [on |-> "name", mode |-> "AccessExclusive"]
       [] label = "reference" -> [on |-> "instances", mode |-> "ShareRowExclusive"]
       [] label = "index" -> [on |-> "cycles", mode |-> "Share"]
       [] label = "alter" -> [on |-> "cycles", mode |-> "AccessExclusive"]
       [] label = "instance" -> [on |-> "instances", mode |-> "RowExclusive"]
       [] label = "row" -> [on |-> "row", mode |-> "AccessExclusive"]
       [] label = "record" -> [on |-> "cycles", mode |-> "RowExclusive"]]

Locking(s) == pc[s] \in DOMAIN Needed

WaitsFor(s, t) ==
  /\ s # t /\ Locking(s)
  /\ \E l \in held[t] : l.on = Needed[pc[s]].on /\ Conflicts(l.mode, Needed[pc[s]].mode)

Free(s) == \A t \in Sessions : ~WaitsFor(s, t)

(* s waits for a session that waits, in the end, for s.                    *)
Deadlocked(s) ==
  \E D \in SUBSET Sessions :
    /\ s \in D
    /\ \A x \in D : (\E y \in D : WaitsFor(x, y)) /\ (\E y \in D : WaitsFor(y, x))

(* A statement that gets its lock.                                         *)
Execute(s, from, to) ==
  /\ pc[s] = from /\ Free(s)
  /\ pc' = [pc EXCEPT ![s] = to]
  /\ held' = [held EXCEPT ![s] = @ \cup {Needed[from]}]

(* One that needs none.                                                    *)
Pass(s, from, to) ==
  /\ pc[s] = from
  /\ pc' = [pc EXCEPT ![s] = to]
  /\ UNCHANGED held

ReleasedMutant(s) == held[s]

(* connect() closes the connection whatever happens inside the block.      *)
Released(s) == {}

Finish(s) ==
  /\ pc' = [pc EXCEPT ![s] = "idle"]
  /\ held' = [held EXCEPT ![s] = Released(s)]
  /\ level' = [level EXCEPT ![s] = 0]

Rollback(s) == Finish(s) /\ UNCHANGED schema

-----------------------------------------------------------------------------
(* A migration: one transaction.                                           *)

BeginMigration(m) ==
  /\ Pass(m, "idle", "info")
  /\ UNCHANGED <<schema, level, clashed>>

ReadSchema(m) ==
  /\ schema > 0
  /\ Pass(m, "info", "create")
  /\ UNCHANGED <<schema, level, clashed>>

(* Core repository schema is missing.                                      *)
RefuseMigration(m) ==
  /\ pc[m] = "info" /\ schema = 0
  /\ Rollback(m)
  /\ UNCHANGED clashed

(* CREATE TABLE IF NOT EXISTS finds the table or not ...                   *)
CreateTable(m) ==
  /\ Pass(m, "create", IF schema >= Safety THEN "index" ELSE "name")
  /\ UNCHANGED <<schema, level, clashed>>

(* ... and if not, enters its name, having waited for whoever is entering  *)
(* the same name.                                                          *)
EnterName(m) ==
  /\ schema < Safety
  /\ Execute(m, "name", "reference")
  /\ UNCHANGED <<schema, level, clashed>>

(* It exists by now: a duplicate key in pg_class.                          *)
FindDuplicate(m) ==
  /\ pc[m] = "name" /\ Free(m) /\ schema >= Safety
  /\ Rollback(m)
  /\ clashed' = TRUE

(* The table is made with all of its columns.                              *)
AddReference(m) ==
  /\ Execute(m, "reference", "index")
  /\ level' = [level EXCEPT ![m] = Current]
  /\ UNCHANGED <<schema, clashed>>

CreateIndex(m) ==
  /\ Execute(m, "index", "alter")
  /\ UNCHANGED <<schema, level, clashed>>

AlteredMutant(m) == IF level[m] > schema THEN level[m] ELSE schema

(* ADD COLUMN IF NOT EXISTS, all three.                                    *)
Altered(m) == Current

AlterTable(m) ==
  /\ Execute(m, "alter", "commitMigration")
  /\ level' = [level EXCEPT ![m] = Altered(m)]
  /\ UNCHANGED <<schema, clashed>>

CommitMigration(m) ==
  /\ pc[m] = "commitMigration"
  /\ Finish(m)
  /\ schema' = level[m]
  /\ UNCHANGED clashed

-----------------------------------------------------------------------------
(* A collection cycle; need is the level its code asks for.                *)

BeginCycle(c) ==
  /\ Pass(c, "idle", "gate")
  /\ UNCHANGED <<schema, level, clashed>>

AdmitsMutant(need) == schema >= Safety

Admits(need) == schema >= need

GateLocksMutant == {[on |-> "cycles", mode |-> "AccessShare"]}

(* The gate looks the table up in the catalogs and does not touch it.      *)
GateLocks == {}

PassGate(c, need) ==
  /\ pc[c] = "gate" /\ Admits(need)
  /\ pc' = [pc EXCEPT ![c] = "source"]
  /\ held' = [held EXCEPT ![c] = GateLocks]
  /\ UNCHANGED <<schema, level, clashed>>

(* Repository migration is missing: an exception, and the cycle is over.   *)
RefuseCycle(c, need) ==
  /\ pc[c] = "gate" /\ ~Admits(need)
  /\ Rollback(c)
  /\ UNCHANGED clashed

(* The source is read; no lock in the repository.                          *)
ReadSource(c) ==
  /\ Pass(c, "source", "instance")
  /\ UNCHANGED <<schema, level, clashed>>

EnsureInstance(c) ==
  /\ Execute(c, "instance", "row")
  /\ UNCHANGED <<schema, level, clashed>>

(* With the row come the samples, texts and events, whose tables nothing   *)
(* here locks against an INSERT.                                           *)
LockRow(c) ==
  /\ Execute(c, "row", "record")
  /\ UNCHANGED <<schema, level, clashed>>

InsertCycle(c) ==
  /\ Execute(c, "record", "commitCycle")
  /\ UNCHANGED <<schema, level, clashed>>

CommitCycle(c) ==
  /\ pc[c] = "commitCycle"
  /\ Finish(c)
  /\ UNCHANGED <<schema, clashed>>

-----------------------------------------------------------------------------
(* Any session.                                                            *)

(* deadlock_timeout: PostgreSQL ends one of those that wait for each other.*)
BreakDeadlock(s) ==
  /\ Deadlocked(s)
  /\ Rollback(s)
  /\ clashed' = (clashed \/ s \in Migrators)

(* An error, a lost connection or the end of the process.                  *)
Break(s) ==
  /\ pc[s] # "idle"
  /\ Rollback(s)
  /\ UNCHANGED clashed

=============================================================================
