------------------------------- MODULE Bootstrap -------------------------------
(***************************************************************************)
(* pgintel/bootstrap.py, bootstrap_postgres: what an administrator runs,   *)
(* and runs again, to prepare the source's cluster (the monitoring role)   *)
(* and the repository's (role, database, schema).                          *)
(*                                                                         *)
(* Roles and database are looked up and created statement by statement, on *)
(* autocommit connections: a crash may come between any two of them and    *)
(* what was done stays.  Only the schema is made in one transaction.       *)
(* Several administrators may be at it at once.                            *)
(***************************************************************************)
EXTENDS Naturals

CONSTANTS
  Operators,  \* runs of bootstrap_postgres that may be going on at once
  Nobody,     \* nobody's transaction is changing the schema
  MaxCrashes  \* bound on failing runs

ASSUME BootstrapAssumption == Nobody \notin Operators /\ MaxCrashes \in Nat

(* Settings of a monitoring role, in the order they are made: read only,   *)
(* statement, lock and idle-in-transaction timeout.                        *)
Guardrails == 4

(* Schema levels: none, 001 as of 0.1.3, with collection_cycles (0.1.4),   *)
(* with its counts of stored rows (0.1.6).                                 *)
Current == 3

VARIABLES
  monitor,    \* the role of the source DSN, in the source's cluster
  writer,     \* the role of the repository DSN, in the repository's cluster
  database,   \* owner of the repository database
  schema,     \* committed level of the repository schema
  ddl,        \* whose transaction is changing the schema
  pc,         \* where each run is
  job,        \* the arguments and local variables of each run
  crashes,    \* number of failed runs
  unfinished, \* whether a run failed while it configured the role it created
  completed   \* whether a run has returned its result

vars == <<monitor, writer, database, schema, ddl, pc, job, crashes, unfinished, completed>>

Clusters == <<monitor, writer, database, schema>>

-----------------------------------------------------------------------------

(* byUs tells the roles a bootstrap created from those it found.           *)
Role == [exists : BOOLEAN, login : BOOLEAN, elevated : BOOLEAN,
         settings : 0..Guardrails, member : BOOLEAN, connect : BOOLEAN, byUs : BOOLEAN]

NoRole == [exists |-> FALSE, login |-> FALSE, elevated |-> FALSE, settings |-> 0,
           member |-> FALSE, connect |-> FALSE, byUs |-> FALSE]

(* CREATE ROLE ... LOGIN NOSUPERUSER NOCREATEDB NOCREATEROLE ...           *)
NewRole == [NoRole EXCEPT !.exists = TRUE, !.login = TRUE, !.byUs = TRUE]

(* Roles an administrator may have made, with sql/002 or otherwise.        *)
AdminRoles == [exists : {TRUE}, login : BOOLEAN, elevated : BOOLEAN,
               settings : {0, Guardrails}, member : {FALSE}, connect : {FALSE},
               byUs : {FALSE}]

Job == [sourcePassword : BOOLEAN, repositoryPassword : BOOLEAN, initialize : BOOLEAN]

Labels == {"idle", "findMonitor", "createMonitor", "configure", "grantMonitor",
           "grantConnect", "findWriter", "createWriter", "findDatabase",
           "createDatabase", "readSchema", "applySchema", "migrate", "report"}

TypeOK ==
  /\ monitor \in Role /\ writer \in Role
  /\ database \in {"none", "writer", "other"}
  /\ schema \in 0..Current
  /\ ddl \in Operators \cup {Nobody}
  /\ pc \in [Operators -> Labels]
  /\ job \in [Operators -> Job]
  /\ crashes \in Nat
  /\ unfinished \in BOOLEAN /\ completed \in BOOLEAN

NoJob == [sourcePassword |-> FALSE, repositoryPassword |-> FALSE, initialize |-> FALSE]

(* Fresh clusters, earlier installations, foreign roles and databases.     *)
Init ==
  /\ monitor \in {NoRole} \cup AdminRoles
  /\ writer \in {NoRole} \cup {r \in AdminRoles : r.settings = 0}
  /\ \/ database \in {"none", "other"} /\ schema = 0
     \/ database = "writer" /\ writer.exists /\ schema \in 0..Current
  /\ ddl = Nobody
  /\ pc = [p \in Operators |-> "idle"]
  /\ job = [p \in Operators |-> NoJob]
  /\ crashes = 0 /\ unfinished = FALSE /\ completed = FALSE

-----------------------------------------------------------------------------

Goto(p, from, to) == pc[p] = from /\ pc' = [pc EXCEPT ![p] = to]

(* A statement raised, or the code did: the run is over.                   *)
Refuse(p, from) == Goto(p, from, "idle") /\ job' = [job EXCEPT ![p] = NoJob]

(* _validate_existing_role                                                 *)
UsableMutant(r) == r.login

Usable(r) == r.login /\ ~r.elevated

(* Passwords for roles that may have to be created are optional.           *)
Start(p) ==
  /\ Goto(p, "idle", "findMonitor")
  /\ \E s, r \in BOOLEAN :
       job' = [job EXCEPT ![p] = [NoJob EXCEPT !.sourcePassword = s, !.repositoryPassword = r]]
  /\ UNCHANGED <<Clusters, ddl, crashes, unfinished, completed>>

FindMonitor(p) ==
  /\ \/ monitor.exists /\ Usable(monitor) /\ Goto(p, "findMonitor", "grantMonitor") /\ job' = job
     \/ monitor.exists /\ ~Usable(monitor) /\ Refuse(p, "findMonitor")
     \/ ~monitor.exists /\ job[p].sourcePassword /\ Goto(p, "findMonitor", "createMonitor") /\ job' = job
     \/ ~monitor.exists /\ ~job[p].sourcePassword /\ Refuse(p, "findMonitor")
  /\ UNCHANGED <<Clusters, ddl, crashes, unfinished, completed>>

(* CREATE ROLE raises if another run has created the role meanwhile.       *)
CreateMonitor(p) ==
  /\ \/ ~monitor.exists /\ monitor' = NewRole /\ Goto(p, "createMonitor", "configure") /\ job' = job
     \/ monitor.exists /\ monitor' = monitor /\ Refuse(p, "createMonitor")
  /\ UNCHANGED <<writer, database, schema, ddl, crashes, unfinished, completed>>

(* Whether the next setting after n of them is the last.                   *)
LastSettingMutant(n) == n = Guardrails

LastSettingEarlyMutant(n) == n + 2 = Guardrails

LastSetting(n) == n + 1 = Guardrails

(* One ALTER ROLE ... SET; only the run that created the role gets here.   *)
Configure(p) ==
  /\ monitor' = [monitor EXCEPT !.settings = @ + 1]
  /\ Goto(p, "configure", IF LastSetting(monitor.settings) THEN "grantMonitor" ELSE "configure")
  /\ UNCHANGED <<writer, database, schema, ddl, job, crashes, unfinished, completed>>

GrantMonitor(p) ==
  /\ Goto(p, "grantMonitor", "grantConnect")
  /\ monitor' = [monitor EXCEPT !.member = TRUE]
  /\ UNCHANGED <<writer, database, schema, ddl, job, crashes, unfinished, completed>>

(* What follows on the source only reads, for the report of manual steps.  *)
GrantConnect(p) ==
  /\ Goto(p, "grantConnect", "findWriter")
  /\ monitor' = [monitor EXCEPT !.connect = TRUE]
  /\ UNCHANGED <<writer, database, schema, ddl, job, crashes, unfinished, completed>>

FindWriter(p) ==
  /\ \/ writer.exists /\ Usable(writer) /\ Goto(p, "findWriter", "findDatabase") /\ job' = job
     \/ writer.exists /\ ~Usable(writer) /\ Refuse(p, "findWriter")
     \/ ~writer.exists /\ job[p].repositoryPassword /\ Goto(p, "findWriter", "createWriter") /\ job' = job
     \/ ~writer.exists /\ ~job[p].repositoryPassword /\ Refuse(p, "findWriter")
  /\ UNCHANGED <<Clusters, ddl, crashes, unfinished, completed>>

CreateWriter(p) ==
  /\ \/ ~writer.exists /\ writer' = NewRole /\ Goto(p, "createWriter", "findDatabase") /\ job' = job
     \/ writer.exists /\ writer' = writer /\ Refuse(p, "createWriter")
  /\ UNCHANGED <<monitor, database, schema, ddl, crashes, unfinished, completed>>

(* A database that exists must belong to the repository role.              *)
FitsMutant(owner) == TRUE

FitsFreshMutant(owner) == FALSE

Fits(owner) == owner = "writer"

FindDatabase(p) ==
  /\ \/ database = "none" /\ Goto(p, "findDatabase", "createDatabase") /\ job' = job
     \/ database # "none" /\ Fits(database) /\ Goto(p, "findDatabase", "readSchema") /\ job' = job
     \/ database # "none" /\ ~Fits(database) /\ Refuse(p, "findDatabase")
  /\ UNCHANGED <<Clusters, ddl, crashes, unfinished, completed>>

CreateDatabase(p) ==
  /\ \/ database = "none" /\ database' = "writer" /\ Goto(p, "createDatabase", "readSchema") /\ job' = job
     \/ database # "none" /\ database' = database /\ Refuse(p, "createDatabase")
  /\ UNCHANGED <<monitor, writer, schema, ddl, crashes, unfinished, completed>>

(* repository_schema_info: 001 is run only if there is no schema at all.   *)
ReadSchema(p) ==
  /\ Goto(p, "readSchema", "applySchema")
  /\ job' = [job EXCEPT ![p].initialize = (schema = 0)]
  /\ UNCHANGED <<Clusters, ddl, crashes, unfinished, completed>>

(* The first DDL statement, of 001 or of the migration, waits for another  *)
(* transaction that creates or alters the same tables; having waited, it   *)
(* may also raise (a duplicate name), which is Abort.                      *)
ApplySchema(p) ==
  /\ ddl = Nobody
  /\ Goto(p, "applySchema", "migrate")
  /\ ddl' = p
  /\ UNCHANGED <<Clusters, job, crashes, unfinished, completed>>

(* The migration brings any existing schema, or the one this transaction   *)
(* has just created, to the current level, and commits both.               *)
MigratedMutant(initialize) == IF initialize THEN Current ELSE schema

Migrated(initialize) == IF initialize \/ schema > 0 THEN Current ELSE schema

Migrate(p) ==
  /\ Goto(p, "migrate", "report")
  /\ schema' = Migrated(job[p].initialize)
  /\ ddl' = Nobody
  /\ UNCHANGED <<monitor, writer, database, job, crashes, unfinished, completed>>

(* The schema is read once more for the result, and the result returned.   *)
Report(p) ==
  /\ Goto(p, "report", "idle")
  /\ job' = [job EXCEPT ![p] = NoJob]
  /\ completed' = TRUE
  /\ UNCHANGED <<Clusters, ddl, crashes, unfinished>>

(* A failing statement or a crash: what was committed stays.               *)
Abort(p) ==
  /\ pc[p] # "idle" /\ crashes < MaxCrashes
  /\ pc' = [pc EXCEPT ![p] = "idle"]
  /\ job' = [job EXCEPT ![p] = NoJob]
  /\ ddl' = IF ddl = p THEN Nobody ELSE ddl
  /\ crashes' = crashes + 1
  /\ unfinished' = (unfinished \/ pc[p] = "configure")
  /\ UNCHANGED <<Clusters, completed>>

Step(p) ==
  \/ FindMonitor(p) \/ CreateMonitor(p) \/ Configure(p) \/ GrantMonitor(p)
  \/ GrantConnect(p) \/ FindWriter(p) \/ CreateWriter(p) \/ FindDatabase(p)
  \/ CreateDatabase(p) \/ ReadSchema(p) \/ ApplySchema(p) \/ Migrate(p)
  \/ Report(p)

Next == \E p \in Operators : Start(p) \/ Step(p) \/ Abort(p)

Spec == Init /\ [][Next]_vars

(* A run goes on until it ends, transactions get their locks in turn, and  *)
(* an operator whose run has failed runs it again, with both passwords now *)
(* and then (the installer asks for them each time).                       *)
RunsWithPasswords(p) == Start(p) /\ job'[p].sourcePassword /\ job'[p].repositoryPassword

Fairness ==
  \A p \in Operators :
    WF_vars(Step(p)) /\ SF_vars(ApplySchema(p)) /\ SF_vars(RunsWithPasswords(p))

FairSpec == Spec /\ Fairness

-----------------------------------------------------------------------------
(* Properties.                                                             *)

(* A run that returns has everything in place, whatever the clusters held  *)
(* before, and wherever earlier runs failed or other runs are.             *)
Complete ==
  /\ monitor.exists /\ Usable(monitor) /\ monitor.member /\ monitor.connect
  /\ writer.exists /\ Usable(writer)
  /\ database = "writer" /\ schema = Current

SuccessIsComplete == completed => Complete

(* What a run has passed is in place: the invariant SuccessIsComplete      *)
(* rests on, since bootstrap_postgres never looks back.                    *)
Reached(p, labels) == pc[p] \in labels

AfterConnect == {"findWriter", "createWriter", "findDatabase", "createDatabase",
                 "readSchema", "applySchema", "migrate", "report"}
AfterWriter == {"findDatabase", "createDatabase", "readSchema", "applySchema", "migrate",
                "report"}
AfterDatabase == {"readSchema", "applySchema", "migrate", "report"}

ProgressInv ==
  /\ SuccessIsComplete
  /\ \A p \in Operators :
       /\ Reached(p, {"configure", "grantMonitor", "grantConnect"} \cup AfterConnect) =>
            monitor.exists /\ Usable(monitor)
       /\ Reached(p, {"grantConnect"} \cup AfterConnect) => monitor.member
       /\ Reached(p, AfterConnect) => monitor.connect
       /\ Reached(p, AfterWriter) => writer.exists /\ Usable(writer)
       /\ Reached(p, AfterDatabase) => database = "writer"
       /\ Reached(p, {"applySchema", "migrate"}) => job[p].initialize \/ schema > 0
       /\ Reached(p, {"report"}) => schema = Current

(* A role or database that was there before keeps its attributes, settings *)
(* and owner, and one that is not fit for the purpose gains nothing.       *)
Kept(r, s) ==
  r.exists /\ ~r.byUs =>
    /\ [s EXCEPT !.member = r.member, !.connect = r.connect] = r
    /\ r.elevated \/ ~r.login => s = r

ForeignIsKept ==
  [][/\ Kept(monitor, monitor') /\ Kept(writer, writer')
     /\ database # "none" => database' = database
     /\ database = "other" => schema' = schema]_vars

(* A role that a bootstrap created has all of its settings, unless its     *)
(* creator is still making them or was stopped in the middle.              *)
GuardedUnlessInterrupted ==
  monitor.byUs /\ monitor.settings # Guardrails =>
    unfinished \/ \E p \in Operators : pc[p] = "configure"

(* Once a bootstrap has succeeded, a role that bootstrap created has the   *)
(* conservative read-only and timeout settings.                            *)
CreatedRoleIsGuarded ==
  completed /\ monitor.byUs => monitor.settings = Guardrails

(* Nothing a failed run leaves behind keeps later runs from succeeding:    *)
(* clusters that could be bootstrapped in the beginning are in the end.    *)
Bootstrappable ==
  /\ monitor.exists => Usable(monitor)
  /\ writer.exists => Usable(writer)
  /\ database # "other"

Converges == Bootstrappable ~> completed

=============================================================================
