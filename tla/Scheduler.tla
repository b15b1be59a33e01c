------------------------------ MODULE Scheduler ------------------------------
(***************************************************************************)
(* pgintel/agent.py, run_forever: the daemon.  It sleeps, decides which    *)
(* optional work is due, runs one collect_once and sleeps again, for ever; *)
(* systemd starts it again after a crash.                                  *)
(*                                                                         *)
(* The module is about time.  Instead of a clock it keeps the ages that    *)
(* the program computes from it (now - last_slow, now - last_size), so     *)
(* that its states are finitely many though it runs for ever.  Of          *)
(* collect_once there remain the phases, what they cost and the budget;    *)
(* Collector.tla models what they do.                                      *)
(***************************************************************************)
EXTENDS Integers

CONSTANTS
  Interval,      \* interval_seconds
  SlowInterval,  \* slow_interval_seconds
  SizeInterval,  \* size_interval_seconds
  Budget,        \* max_source_cycle_seconds
  Pause,         \* the shortest sleep between two cycles (1 s)
  MaxRead,       \* bound on one source read (the role's statement_timeout)
  MaxOther,      \* bound on connecting, on writing and on committing
  MaxLate,       \* bound on how much longer than asked a sleep takes
  MaxDown,       \* bound on the time between two processes (RestartSec)
  MaxRestarts    \* bound on the number of restarts

(* What load_config insists on.                                            *)
ASSUME SchedulerAssumption ==
  /\ Interval \in Nat /\ SlowInterval \in Nat /\ SizeInterval \in Nat
  /\ Budget \in Nat /\ Pause \in Nat
  /\ MaxRead \in Nat /\ MaxOther \in Nat /\ MaxLate \in Nat
  /\ MaxDown \in Nat /\ MaxRestarts \in Nat
  /\ 0 < Pause /\ Pause <= Interval
  /\ Interval <= SlowInterval /\ SlowInterval <= SizeInterval
  /\ 0 < Budget

Classes == {"slow", "size"}

Period == [c \in Classes |-> IF c = "slow" THEN SlowInterval ELSE SizeInterval]

VARIABLES
  pc,        \* what the daemon is doing
  age,       \* now - last_slow and now - last_size
  due,       \* slow_due and size_due: the classes due in the running cycle
  elapsed,   \* time since the running cycle started
  spent,     \* time its source reads have taken so far
  sizeTime,  \* how much of it went into pg_database_size
  got,       \* how far its object collectors came
  failed,    \* it raised an exception
  since,     \* time since a due pass of each class was started by this or
             \* an earlier process, at most its interval (history)
  restarts   \* processes that have ended

vars == <<pc, age, due, elapsed, spent, sizeTime, got, failed, since, restarts>>

cycle == <<due, sizeTime, got, failed>>

Reads == {"server", "database", "statements", "tables", "indexes", "texts"}

Phases == Reads \cup {"connect", "write", "commit"}

Labels == Phases \cup {"asleep", "settle", "down"}

TypeOK ==
  /\ pc \in Labels
  /\ age \in [Classes -> Nat]
  /\ due \subseteq Classes
  /\ elapsed \in Nat /\ spent \in Nat /\ sizeTime \in Nat
  /\ got \in {"nothing", "tables", "indexes"}
  /\ failed \in BOOLEAN
  /\ since \in [Classes -> Nat]
  /\ restarts \in Nat

Init ==
  /\ pc = "asleep"
  /\ age = [c \in Classes |-> 0]
  /\ due = {}
  /\ elapsed = 0 /\ spent = 0 /\ sizeTime = 0
  /\ got = "nothing" /\ failed = FALSE
  /\ since = Period
  /\ restarts = 0

-----------------------------------------------------------------------------
(* Time.                                                                   *)

Limit(phase) == IF phase \in Reads THEN MaxRead ELSE MaxOther

Capped(c, t) == IF t > Period[c] THEN Period[c] ELSE t

Elapse(d) ==
  /\ age' = [c \in Classes |-> age[c] + d]
  /\ since' = [c \in Classes |-> Capped(c, since[c] + d)]

(* The phase the daemon is in takes d; only source reads count towards the *)
(* budget (_source_duration_ms).                                           *)
Take(d) ==
  /\ d \in 0..Limit(pc)
  /\ Elapse(d)
  /\ elapsed' = elapsed + d
  /\ spent' = IF pc \in Reads THEN spent + d ELSE spent

Exceeded(t) == t >= Budget

-----------------------------------------------------------------------------
(* One round of the loop.                                                  *)

IsDueLateMutant(c) == age[c] > Period[c]

IsDue(c) == age[c] >= Period[c]

Wake ==
  /\ pc = "asleep"
  /\ pc' = "connect"
  /\ due' = {c \in Classes : IsDue(c)}
  /\ since' = [c \in Classes |-> IF IsDue(c) THEN 0 ELSE since[c]]
  /\ elapsed' = 0 /\ spent' = 0 /\ sizeTime' = 0
  /\ got' = "nothing" /\ failed' = FALSE
  /\ UNCHANGED <<age, restarts>>

(* Both connections and the gates.                                         *)
Connect ==
  /\ pc = "connect"
  /\ \E d \in 0..MaxOther : Take(d)
  /\ pc' = "server"
  /\ UNCHANGED <<cycle, restarts>>

ReadServer ==
  /\ pc = "server"
  /\ \E d \in 0..MaxRead : Take(d)
  /\ pc' = "database"
  /\ UNCHANGED <<cycle, restarts>>

(* pg_database_size is part of the SELECT from pg_stat_database.           *)
ReadDatabase ==
  /\ pc = "database"
  /\ \E d \in 0..MaxRead :
       /\ Take(d)
       /\ sizeTime' \in IF "size" \in due THEN 0..d ELSE {0}
  /\ pc' = "statements"
  /\ UNCHANGED <<due, got, failed, restarts>>

ObjectsWanted(t) == due # {} /\ ~Exceeded(t)

(* The budget is consulted here for the first time.                        *)
ReadStatements ==
  /\ pc = "statements"
  /\ \E d \in 0..MaxRead : Take(d)
  /\ pc' = IF ObjectsWanted(spent') THEN "tables" ELSE "write"
  /\ UNCHANGED <<cycle, restarts>>

AfterTablesMutant(t) == "indexes"

AfterTables(t) == IF Exceeded(t) THEN "write" ELSE "indexes"

ReadTables ==
  /\ pc = "tables"
  /\ \E d \in 0..MaxRead : Take(d)
  /\ pc' = AfterTables(spent')
  /\ got' = "tables"
  /\ UNCHANGED <<due, sizeTime, failed, restarts>>

ReadIndexes ==
  /\ pc = "indexes"
  /\ \E d \in 0..MaxRead : Take(d)
  /\ pc' = "write"
  /\ got' = "indexes"
  /\ UNCHANGED <<due, sizeTime, failed, restarts>>

(* The rows are stored and analysed.                                       *)
Write ==
  /\ pc = "write"
  /\ \E d \in 0..MaxOther : Take(d)
  /\ pc' \in IF Exceeded(spent) THEN {"commit"} ELSE {"texts", "commit"}
  /\ UNCHANGED <<cycle, restarts>>

(* fetch_query_texts, when a regression asks for it.                       *)
FetchTexts ==
  /\ pc = "texts"
  /\ \E d \in 0..MaxRead : Take(d)
  /\ pc' = "commit"
  /\ UNCHANGED <<cycle, restarts>>

Commit ==
  /\ pc = "commit"
  /\ \E d \in 0..MaxOther : Take(d)
  /\ pc' = "settle"
  /\ UNCHANGED <<cycle, restarts>>

(* An exception in any phase: logged, and the loop goes on.                *)
Fail ==
  /\ pc \in Phases
  /\ \E d \in 0..Limit(pc) : Take(d)
  /\ pc' = "settle"
  /\ failed' = TRUE
  /\ UNCHANGED <<due, sizeTime, got, restarts>>

Rest == IF Interval - elapsed > Pause THEN Interval - elapsed ELSE Pause

SettledMutant(c) == IF c \in due /\ ~failed THEN elapsed ELSE age[c]

SettledSlowMutant(c) == IF "slow" \in due THEN elapsed ELSE age[c]

(* finally: a pass that was due counts as done from when its cycle         *)
(* started, whatever became of it.                                         *)
Settled(c) == IF c \in due THEN elapsed ELSE age[c]

Settle ==
  /\ pc = "settle"
  /\ pc' = "asleep"
  /\ \E late \in 0..MaxLate :
       /\ age' = [c \in Classes |-> Settled(c) + Rest + late]
       /\ since' = [c \in Classes |-> Capped(c, since[c] + Rest + late)]
  /\ due' = {}
  /\ elapsed' = 0 /\ spent' = 0 /\ sizeTime' = 0
  /\ UNCHANGED <<got, failed, restarts>>

(* The process ends at any moment: a signal, a crash, an upgrade.          *)
Stop ==
  /\ pc # "down" /\ restarts < MaxRestarts
  /\ pc' = "down"
  /\ restarts' = restarts + 1
  /\ age' = [c \in Classes |-> 0]
  /\ due' = {}
  /\ elapsed' = 0 /\ spent' = 0 /\ sizeTime' = 0
  /\ got' = "nothing" /\ failed' = FALSE
  /\ UNCHANGED since

FreshAgeMutant(c) == Period[c]

(* last_slow = last_size = now: the ages of a new process.                 *)
FreshAge(c) == 0

Start ==
  /\ pc = "down"
  /\ pc' = "asleep"
  /\ \E d \in 0..MaxDown :
       since' = [c \in Classes |-> Capped(c, since[c] + d)]
  /\ age' = [c \in Classes |-> FreshAge(c)]
  /\ UNCHANGED <<cycle, elapsed, spent, restarts>>

-----------------------------------------------------------------------------

Step ==
  \/ Wake \/ Connect
  \/ ReadServer \/ ReadDatabase \/ ReadStatements \/ ReadTables \/ ReadIndexes
  \/ Write \/ FetchTexts \/ Commit \/ Settle \/ Start

Next == Step \/ Fail \/ Stop

Spec == Init /\ [][Next]_vars

(* The loop is sequential code and systemd starts a failed service again.  *)
(* Nothing obliges a cycle to succeed.                                     *)
FairSpec == Spec /\ WF_vars(Step)

-----------------------------------------------------------------------------
(* Properties.                                                             *)

(* The longest a cycle and the sleep after it take.                        *)
MaxCycle == 6 * MaxRead + 3 * MaxOther

MaxGap == MaxLate + (IF Interval > MaxCycle + Pause THEN Interval ELSE MaxCycle + Pause)

(* How long the running process has not started a pass of class c.         *)
Waiting(c) == IF c \in due THEN elapsed ELSE age[c]

SlowCadence == INSTANCE Cadence WITH
  Period <- SlowInterval, Slack <- MaxGap - 1,
  on <- pc # "down", wait <- Waiting("slow"), since <- since["slow"]

SizeCadence == INSTANCE Cadence WITH
  Period <- SizeInterval, Slack <- MaxGap - 1,
  on <- pc # "down", wait <- Waiting("size"), since <- since["size"]

(* SLOW and SIZE passes keep the cadence of PRODUCTION_SAFETY.md: they     *)
(* start at their intervals, late by less than one round of the loop, are  *)
(* not repeated early after a failure, a skip or a restart, and do not     *)
(* follow a restart at once.                                               *)
KeepsSlowCadence == SlowCadence!Spec

KeepsSizeCadence == SizeCadence!Spec

(* What the daemon does in its cycles is what collect_once promises        *)
(* (CollectOnce.tla): the optional reads are made when they are due, left  *)
(* out only over the budget, and never begun over it.                      *)
Daemon == {"daemon"}

StageOf(label) ==
  CASE label \in {"connect", "server", "database", "statements"} -> "fast"
    [] label \in {"tables", "indexes"} -> "objects"
    [] label = "write" -> "ready"
    [] label \in {"texts", "commit"} -> "writing"
    [] label \in {"asleep", "settle", "down"} -> "idle"

Stage == StageOf(pc)

Stages == [a \in Daemon |-> Stage]
Wanted == [a \in Daemon |-> Stage # "idle" /\ due # {}]
Over == [a \in Daemon |-> Stage # "idle" /\ Exceeded(spent)]
Collected == [a \in Daemon |-> Stage # "idle" /\ got = "indexes"]

OnceOfDaemon == INSTANCE CollectOnce WITH
  Agents <- Daemon,
  phase <- Stages, wanted <- Wanted, over <- Over, complete <- Collected

CollectsOnce == OnceOfDaemon!OnceSpec

(* The budget is soft: it is consulted between reads, so a cycle exceeds   *)
(* it by less than one read, unless the three fast reads alone do.         *)
SourceTimeBounded ==
  \/ spent <= 3 * MaxRead
  \/ spent < Budget + MaxRead

(* Why these hold.  A cycle at some phase has taken no longer than the     *)
(* phases before it may.                                                   *)
PhaseBound(phase) ==
  CASE phase = "server" -> MaxOther
    [] phase = "database" -> MaxOther + MaxRead
    [] phase = "statements" -> MaxOther + 2 * MaxRead
    [] phase = "tables" -> MaxOther + 3 * MaxRead
    [] phase = "indexes" -> MaxOther + 4 * MaxRead
    [] phase = "write" -> MaxOther + 5 * MaxRead
    [] phase = "texts" -> 2 * MaxOther + 5 * MaxRead
    [] phase = "commit" -> 2 * MaxOther + 6 * MaxRead
    [] phase = "settle" -> MaxCycle
    [] OTHER -> 0

(* A class that is not due had not reached its interval when the cycle     *)
(* started, so it cannot be older than that plus one round of the loop;    *)
(* and no pass is more recent than the ages of the program say.            *)
TimeInv ==
  /\ elapsed <= PhaseBound(pc)
  /\ \A c \in Classes :
       /\ Capped(c, Waiting(c)) <= since[c] /\ since[c] <= Period[c]
       /\ pc = "asleep" => c \notin due /\ age[c] < Period[c] + MaxGap
       /\ pc = "down" => c \notin due /\ age[c] = 0
       /\ pc \in Phases \cup {"settle"} /\ c \notin due =>
            elapsed <= age[c] /\ age[c] < Period[c] + elapsed

BudgetInv ==
  /\ pc \in {"connect", "server"} => spent = 0
  /\ pc = "database" => spent <= MaxRead
  /\ pc = "statements" => spent <= 2 * MaxRead
  /\ pc \in {"tables", "indexes", "texts"} => spent < Budget
  /\ SourceTimeBounded

SchedulerInv == TypeOK /\ TimeInv /\ BudgetInv

(* The source, as the daemon finds it, answers within the budget.          *)
Healthy == ~failed /\ ~Exceeded(spent)

Complete(c) == pc = "settle" /\ c \in due /\ got = "indexes" /\ ~failed

(* A skipped or failed pass is not retried, but what it missed is made up: *)
(* once cycles stay within the budget and no longer fail, passes of either *)
(* class are completed again and again.                                    *)
MissedPassesAreMadeUp ==
  <>[]Healthy => []<>Complete("slow") /\ []<>Complete("size")

(* config.example.ini: "Slow/size collectors are skipped when FAST work    *)
(* consumes" the budget.  They are not skipped for what the SIZE class     *)
(* itself has cost.                                                        *)
SkippedForFastWork ==
  pc = "write" /\ due # {} /\ got = "nothing"
    => Exceeded(spent - sizeTime)

=============================================================================
