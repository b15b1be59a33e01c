--------------------------- MODULE SchedulerProofs ---------------------------
(* Theorems about the daemon's loop, for all intervals, budgets and bounds. *)
EXTENDS Scheduler, TLAPS

USE SchedulerAssumption

(* Both intervals are positive numbers, and a round of the loop takes time. *)
LEMMA Constants ==
  /\ Period \in [Classes -> Nat] /\ \A c \in Classes : Period[c] > 0
  /\ MaxCycle \in Nat /\ MaxGap \in Nat /\ MaxGap > 0
  /\ MaxCycle + Pause + MaxLate <= MaxGap /\ Interval + MaxLate <= MaxGap
  BY DEF Period, Classes, MaxCycle, MaxGap

(* Capping keeps a number a number, in order and below the interval.        *)
LEMMA CappedNat ==
  ASSUME NEW c \in Classes, NEW t \in Nat
  PROVE  Capped(c, t) \in Nat /\ Capped(c, t) <= Period[c] /\ Capped(c, t) <= t
  BY Constants DEF Capped

-----------------------------------------------------------------------------
(* Types.                                                                   *)

LEMMA TakeType ==
  ASSUME TypeOK, NEW d, Take(d)
  PROVE  /\ d \in Nat /\ d <= Limit(pc) /\ elapsed' = elapsed + d
         /\ age' \in [Classes -> Nat] /\ since' \in [Classes -> Nat]
         /\ elapsed' \in Nat /\ spent' \in Nat
         /\ \A c \in Classes : age'[c] = age[c] + d
         /\ \A c \in Classes : since'[c] = Capped(c, since[c] + d)
<1>1. d \in Nat /\ d <= Limit(pc)
  BY DEF Take, Limit
<1>2. \A c \in Classes : Capped(c, since[c] + d) \in Nat
  BY <1>1, CappedNat DEF TypeOK
<1> QED
  BY <1>1, <1>2 DEF TypeOK, Take, Elapse

LEMMA TypeStep ==
  ASSUME TypeOK, [Next]_vars
  PROVE  TypeOK'
<1>1. CASE Wake
  BY <1>1 DEF TypeOK, Wake, IsDue, Labels, Phases, Reads
<1>2. CASE Connect
  BY <1>2, TakeType DEF TypeOK, Connect, cycle, Labels, Phases, Reads
<1>3. CASE ReadServer
  BY <1>3, TakeType DEF TypeOK, ReadServer, cycle, Labels, Phases, Reads
<1>4. CASE ReadDatabase
  BY <1>4, TakeType DEF TypeOK, ReadDatabase, Labels, Phases, Reads
<1>5. CASE ReadStatements
  BY <1>5, TakeType DEF TypeOK, ReadStatements, cycle, Labels, Phases, Reads
<1>6. CASE ReadTables
  BY <1>6, TakeType DEF TypeOK, ReadTables, AfterTables, Labels, Phases, Reads
<1>7. CASE ReadIndexes
  BY <1>7, TakeType DEF TypeOK, ReadIndexes, Labels, Phases, Reads
<1>8. CASE Write
  BY <1>8, TakeType DEF TypeOK, Write, cycle, Labels, Phases, Reads
<1>9. CASE FetchTexts
  BY <1>9, TakeType DEF TypeOK, FetchTexts, cycle, Labels, Phases, Reads
<1>10. CASE Commit
  BY <1>10, TakeType DEF TypeOK, Commit, cycle, Labels, Phases, Reads
<1>11. CASE Fail
  BY <1>11, TakeType DEF TypeOK, Fail, Labels, Phases, Reads
<1>12. CASE Settle
  <2>1. PICK late \in 0..MaxLate :
          /\ age' = [c \in Classes |-> Settled(c) + Rest + late]
          /\ since' = [c \in Classes |-> Capped(c, since[c] + Rest + late)]
    BY <1>12 DEF Settle
  <2>2. late \in Nat /\ Rest \in Nat
    BY <2>1 DEF Rest, TypeOK
  <2>3. \A c \in Classes : Settled(c) \in Nat
    BY DEF Settled, TypeOK
  <2>4. \A c \in Classes : since[c] + Rest + late \in Nat
    BY <2>2 DEF TypeOK
  <2>5. age' \in [Classes -> Nat] /\ since' \in [Classes -> Nat]
    BY <2>1, <2>2, <2>3, <2>4, CappedNat
  <2> QED
    BY <1>12, <2>5 DEF TypeOK, Settle, Labels, Phases, Reads
<1>13. CASE Stop
  <2>1. age' \in [Classes -> Nat] /\ since' \in [Classes -> Nat]
    BY <1>13 DEF TypeOK, Stop
  <2>2. pc' \in Labels /\ failed' \in BOOLEAN
    BY <1>13 DEF Stop, Labels
  <2> QED
    BY <1>13, <2>1, <2>2 DEF TypeOK, Stop
<1>14. CASE Start
  <2>1. PICK d \in 0..MaxDown :
          since' = [c \in Classes |-> Capped(c, since[c] + d)]
    BY <1>14 DEF Start
  <2>2. since' \in [Classes -> Nat]
    BY <2>1, CappedNat DEF TypeOK
  <2> QED
    BY <1>14, <2>2 DEF TypeOK, Start, FreshAge, cycle, Labels
<1>15. CASE UNCHANGED vars
  BY <1>15 DEF TypeOK, vars
<1> QED
  BY <1>1, <1>2, <1>3, <1>4, <1>5, <1>6, <1>7, <1>8, <1>9, <1>10, <1>11, <1>12,
     <1>13, <1>14, <1>15 DEF Next, Step

-----------------------------------------------------------------------------
(* Time.                                                                    *)

(* In a phase that takes d the ages keep their distances.                   *)
LEMMA AgesKeepDistance ==
  ASSUME TypeOK, TimeInv, pc \in Phases, NEW d, Take(d), due' = due, NEW c \in Classes
  PROVE  /\ Capped(c, Waiting(c)') <= since'[c] /\ since'[c] <= Period[c]
         /\ c \notin due' => elapsed' <= age'[c] /\ age'[c] < Period[c] + elapsed'
<1>1. /\ d \in Nat /\ elapsed' = elapsed + d /\ age'[c] = age[c] + d
      /\ since'[c] = Capped(c, since[c] + d)
  BY TakeType
<1>2. /\ age[c] \in Nat /\ since[c] \in Nat /\ elapsed \in Nat /\ Period[c] \in Nat
      /\ Waiting(c) \in Nat
  BY Constants DEF TypeOK, Waiting
<1>3. Waiting(c)' = Waiting(c) + d
  BY <1>1, <1>2 DEF Waiting
<1>4. Capped(c, Waiting(c)) <= since[c] /\ since[c] <= Period[c]
  BY DEF TimeInv
<1>5. Capped(c, Waiting(c)') <= since'[c] /\ since'[c] <= Period[c]
  BY <1>1, <1>2, <1>3, <1>4 DEF Capped
<1>6. c \notin due => elapsed <= age[c] /\ age[c] < Period[c] + elapsed
  BY DEF TimeInv
<1> QED
  BY <1>1, <1>2, <1>5, <1>6

(* A phase that keeps to its limit leads to a phase within its bound.       *)
LEMMA PhaseStep ==
  ASSUME TypeOK, TimeInv, pc \in Phases, NEW d, Take(d), due' = due,
         pc' \in Phases \cup {"settle"},
         PhaseBound(pc) + Limit(pc) <= PhaseBound(pc')
  PROVE  TimeInv'
<1>1. d \in Nat /\ d <= Limit(pc) /\ elapsed' = elapsed + d
  BY TakeType
<1>2. elapsed <= PhaseBound(pc) /\ elapsed \in Nat
  BY DEF TimeInv, TypeOK
<1>3. Limit(pc) \in Nat /\ PhaseBound(pc) \in Nat /\ PhaseBound(pc') \in Nat
  BY DEF Limit, PhaseBound, MaxCycle, Phases, Reads
<1>4. elapsed' <= PhaseBound(pc')
  BY <1>1, <1>2, <1>3
<1>5. pc' # "asleep" /\ pc' # "down"
  BY DEF Phases, Reads
<1> QED
  BY <1>4, <1>5, AgesKeepDistance DEF TimeInv

LEMMA TimeStep ==
  ASSUME TypeOK, TimeInv, [Next]_vars
  PROVE  TimeInv'
<1> USE DEF Phases, Reads, PhaseBound, Limit, MaxCycle
<1>1. CASE Wake
  <2>1. pc' = "connect" /\ elapsed' = 0 /\ age' = age
    BY <1>1 DEF Wake
  <2>2. ASSUME NEW c \in Classes
        PROVE  /\ Capped(c, Waiting(c)') <= since'[c] /\ since'[c] <= Period[c]
               /\ c \notin due' => elapsed' <= age'[c] /\ age'[c] < Period[c] + elapsed'
    <3>1. age[c] \in Nat /\ since[c] \in Nat /\ Period[c] \in Nat
      BY Constants DEF TypeOK
    <3>2. Capped(c, Waiting(c)) <= since[c] /\ since[c] <= Period[c] /\ c \notin due
      BY <1>1 DEF TimeInv, Wake
    <3>3. /\ c \in due' <=> age[c] >= Period[c]
          /\ since'[c] = IF age[c] >= Period[c] THEN 0 ELSE since[c]
      BY <1>1 DEF Wake, IsDue
    <3> QED
      BY <2>1, <3>1, <3>2, <3>3 DEF Waiting, Capped
  <2> QED
    BY <2>1, <2>2 DEF TimeInv
<1>2. CASE Connect
  <2>1. PICK d \in 0..MaxOther : Take(d)
    BY <1>2 DEF Connect
  <2> QED
    BY <1>2, <2>1, PhaseStep DEF Connect, cycle
<1>3. CASE ReadServer
  <2>1. PICK d \in 0..MaxRead : Take(d)
    BY <1>3 DEF ReadServer
  <2> QED
    BY <1>3, <2>1, PhaseStep DEF ReadServer, cycle
<1>4. CASE ReadDatabase
  <2>1. PICK d \in 0..MaxRead : Take(d)
    BY <1>4 DEF ReadDatabase
  <2> QED
    BY <1>4, <2>1, PhaseStep DEF ReadDatabase
<1>5. CASE ReadStatements
  <2>1. PICK d \in 0..MaxRead : Take(d)
    BY <1>5 DEF ReadStatements
  <2>2. pc' \in {"tables", "write"} /\ due' = due
    BY <1>5 DEF ReadStatements, cycle
  <2> QED
    BY <1>5, <2>1, <2>2, PhaseStep DEF ReadStatements
<1>6. CASE ReadTables
  <2>1. PICK d \in 0..MaxRead : Take(d)
    BY <1>6 DEF ReadTables
  <2>2. pc' \in {"indexes", "write"} /\ due' = due
    BY <1>6 DEF ReadTables, AfterTables
  <2> QED
    BY <1>6, <2>1, <2>2, PhaseStep DEF ReadTables
<1>7. CASE ReadIndexes
  <2>1. PICK d \in 0..MaxRead : Take(d)
    BY <1>7 DEF ReadIndexes
  <2> QED
    BY <1>7, <2>1, PhaseStep DEF ReadIndexes
<1>8. CASE Write
  <2>1. PICK d \in 0..MaxOther : Take(d)
    BY <1>8 DEF Write
  <2>2. pc' \in {"texts", "commit"} /\ due' = due
    BY <1>8 DEF Write, cycle
  <2> QED
    BY <1>8, <2>1, <2>2, PhaseStep DEF Write
<1>9. CASE FetchTexts
  <2>1. PICK d \in 0..MaxRead : Take(d)
    BY <1>9 DEF FetchTexts
  <2> QED
    BY <1>9, <2>1, PhaseStep DEF FetchTexts, cycle
<1>10. CASE Commit
  <2>1. PICK d \in 0..MaxOther : Take(d)
    BY <1>10 DEF Commit
  <2> QED
    BY <1>10, <2>1, PhaseStep DEF Commit, cycle
<1>11. CASE Fail
  <2>1. PICK d \in 0..Limit(pc) : Take(d)
    BY <1>11 DEF Fail
  <2> QED
    BY <1>11, <2>1, PhaseStep DEF Fail
<1>12. CASE Settle
  <2>1. PICK late \in 0..MaxLate :
          /\ age' = [c \in Classes |-> Settled(c) + Rest + late]
          /\ since' = [c \in Classes |-> Capped(c, since[c] + Rest + late)]
    BY <1>12 DEF Settle
  <2>2. elapsed \in Nat /\ elapsed <= MaxCycle /\ Rest \in Nat /\ late \in Nat
    BY <1>12, <2>1 DEF TimeInv, TypeOK, Settle, Rest
  <2>3. elapsed + Rest + late <= MaxGap
    <3> HIDE DEF MaxCycle
    <3>1. CASE Rest = Pause
      BY <2>1, <2>2, <3>1, Constants
    <3>2. CASE Rest = Interval - elapsed
      BY <2>1, <2>2, <3>2, Constants
    <3> QED
      BY <3>1, <3>2 DEF Rest
  <2>4. ASSUME NEW c \in Classes
        PROVE  /\ Capped(c, Waiting(c)') <= since'[c] /\ since'[c] <= Period[c]
               /\ age'[c] < Period[c] + MaxGap
    <3>1. /\ age[c] \in Nat /\ since[c] \in Nat /\ Period[c] \in Nat /\ Period[c] > 0
          /\ MaxGap \in Nat
      BY Constants DEF TypeOK
    <3>2. /\ Capped(c, Waiting(c)) <= since[c]
          /\ c \notin due => age[c] < Period[c] + elapsed
      BY <1>12 DEF TimeInv, Settle
    <3>3. /\ Settled(c) = Waiting(c) /\ Waiting(c) \in Nat
          /\ Waiting(c) < Period[c] + elapsed
      BY <2>2, <3>1, <3>2 DEF Settled, Waiting
    <3>4. /\ age'[c] = Waiting(c) + Rest + late /\ Waiting(c)' = age'[c]
          /\ since'[c] = Capped(c, since[c] + Rest + late)
      BY <1>12, <2>1, <3>3 DEF Waiting, Settle
    <3>5. age'[c] < Period[c] + MaxGap
      <4> HIDE DEF MaxCycle
      <4> QED
        BY <2>2, <2>3, <3>1, <3>3, <3>4
    <3> QED
      BY <2>2, <3>1, <3>2, <3>3, <3>4, <3>5 DEF Capped
  <2>5. pc' = "asleep" /\ elapsed' = 0 /\ due' = {}
    BY <1>12 DEF Settle
  <2> QED
    BY <2>4, <2>5 DEF TimeInv
<1>13. CASE Stop
  <2>1. pc' = "down" /\ elapsed' = 0 /\ due' = {} /\ since' = since
    BY <1>13 DEF Stop
  <2>2. ASSUME NEW c \in Classes
        PROVE  Waiting(c)' = 0 /\ age'[c] = 0
    BY <1>13, <2>1 DEF Waiting, Stop
  <2>3. ASSUME NEW c \in Classes
        PROVE  Capped(c, Waiting(c)') <= since'[c] /\ since'[c] <= Period[c]
    BY <2>1, <2>2, Constants DEF Capped, TimeInv, TypeOK
  <2> QED
    BY <2>1, <2>2, <2>3 DEF TimeInv
<1>14. CASE Start
  <2>1. PICK d \in 0..MaxDown :
          since' = [c \in Classes |-> Capped(c, since[c] + d)]
    BY <1>14 DEF Start
  <2>2. pc = "down" /\ pc' = "asleep" /\ elapsed' = elapsed /\ due' = due
    BY <1>14 DEF Start, cycle
  <2>3. ASSUME NEW c \in Classes
        PROVE  /\ c \notin due' /\ age'[c] = 0 /\ Waiting(c)' = 0
               /\ since'[c] \in Nat /\ since'[c] <= Period[c]
    <3>1. c \notin due
      BY <2>2 DEF TimeInv
    <3>2. since[c] + d \in Nat
      BY <2>1 DEF TypeOK
    <3> QED
      BY <1>14, <2>1, <2>2, <3>1, <3>2, CappedNat DEF Start, FreshAge, Waiting
  <2>4. ASSUME NEW c \in Classes
        PROVE  /\ Capped(c, Waiting(c)') <= since'[c]
               /\ age'[c] < Period[c] + MaxGap
    <3> HIDE DEF MaxCycle
    <3> QED
      BY <2>3, Constants DEF Capped
  <2> QED
    BY <2>2, <2>3, <2>4 DEF TimeInv
<1>15. CASE UNCHANGED vars
  <2>1. \A c \in Classes : Waiting(c)' = Waiting(c)
    BY <1>15 DEF vars, Waiting
  <2> QED
    BY <1>15, <2>1 DEF TimeInv, vars, Capped
<1> QED
  BY <1>1, <1>2, <1>3, <1>4, <1>5, <1>6, <1>7, <1>8, <1>9, <1>10, <1>11, <1>12,
     <1>13, <1>14, <1>15 DEF Next, Step

-----------------------------------------------------------------------------
(* The budget.                                                              *)

LEMMA BudgetStep ==
  ASSUME TypeOK, TypeOK', BudgetInv, [Next]_vars
  PROVE  BudgetInv'
<1> USE DEF BudgetInv, SourceTimeBounded, Exceeded, Phases, Reads
<1>1. ASSUME NEW d, Take(d)
      PROVE  /\ pc \in Reads => spent' <= spent + MaxRead
             /\ pc \notin Reads => spent' = spent
  BY <1>1, TakeType DEF Take, Limit, TypeOK
<1>2. spent \in Nat /\ spent' \in Nat
  BY DEF TypeOK
<1>3. CASE Wake
  BY <1>3 DEF Wake
<1>4. CASE Connect
  BY <1>1, <1>2, <1>4 DEF Connect
<1>5. CASE ReadServer
  BY <1>1, <1>2, <1>5 DEF ReadServer
<1>6. CASE ReadDatabase
  BY <1>1, <1>2, <1>6 DEF ReadDatabase
<1>7. CASE ReadStatements
  BY <1>1, <1>2, <1>7 DEF ReadStatements, ObjectsWanted
<1>8. CASE ReadTables
  BY <1>1, <1>2, <1>8 DEF ReadTables, AfterTables
<1>9. CASE ReadIndexes
  BY <1>1, <1>2, <1>9 DEF ReadIndexes
<1>10. CASE Write
  BY <1>1, <1>2, <1>10 DEF Write
<1>11. CASE FetchTexts
  BY <1>1, <1>2, <1>11 DEF FetchTexts
<1>12. CASE Commit
  BY <1>1, <1>2, <1>12 DEF Commit
<1>13. CASE Fail
  BY <1>1, <1>2, <1>13 DEF Fail
<1>14. CASE Settle \/ Stop
  BY <1>14 DEF Settle, Stop
<1>15. CASE Start \/ UNCHANGED vars
  BY <1>15 DEF Start, vars
<1> QED
  BY <1>3, <1>4, <1>5, <1>6, <1>7, <1>8, <1>9, <1>10, <1>11, <1>12, <1>13, <1>14,
     <1>15 DEF Next, Step

LEMMA InitInv == Init => SchedulerInv
<1> SUFFICES ASSUME Init PROVE SchedulerInv
  OBVIOUS
<1>1. TypeOK
  BY Constants DEF Init, TypeOK, Labels, Phases, Reads
<1>2. TimeInv
  <2>1. PhaseBound(pc) = 0
    BY DEF Init, PhaseBound
  <2>2. ASSUME NEW c \in Classes
        PROVE  /\ Capped(c, Waiting(c)) <= since[c] /\ since[c] <= Period[c]
               /\ c \notin due /\ age[c] < Period[c] + MaxGap
    BY Constants DEF Init, Waiting, Capped
  <2> QED
    BY <2>1, <2>2 DEF TimeInv, Init, Phases, Reads
<1>3. BudgetInv
  BY DEF Init, BudgetInv, SourceTimeBounded
<1> QED
  BY <1>1, <1>2, <1>3 DEF SchedulerInv

(* The ages, the time a cycle has taken and the time it has spent on the    *)
(* source stay within their bounds, in every phase (agent.run_forever).     *)
THEOREM SchedulerStaysInBounds == Spec => []SchedulerInv
<1>1. SchedulerInv /\ [Next]_vars => SchedulerInv'
  BY TypeStep, TimeStep, BudgetStep DEF SchedulerInv
<1> QED
  BY <1>1, InitInv, PTL DEF Spec

(* A cycle exceeds its source budget by less than one read, unless the fast *)
(* reads alone do (agent._budget_exceeded is consulted between reads).      *)
THEOREM BudgetIsKept == Spec => []SourceTimeBounded
<1>1. SchedulerInv => SourceTimeBounded
  BY DEF SchedulerInv, BudgetInv
<1> QED
  BY <1>1, SchedulerStaysInBounds, PTL

-----------------------------------------------------------------------------
(* The cadences.                                                            *)

(* What a step does to one class, in the words of Cadence.                  *)
Passes(c) ==
  /\ pc # "down" /\ pc' # "down"
  /\ Waiting(c) >= Period[c] /\ since[c] >= Period[c]
  /\ Waiting(c)' = 0 /\ since'[c] = 0

Elapses(c) ==
  /\ pc # "down" /\ pc' # "down"
  /\ Waiting(c)' >= Waiting(c) /\ Waiting(c)' <= Period[c] + (MaxGap - 1)
  /\ since'[c] = Capped(c, since[c] + (Waiting(c)' - Waiting(c)))

Stops(c) == pc # "down" /\ pc' = "down" /\ since'[c] = since[c]

Starts(c) ==
  pc = "down" /\ pc' # "down" /\ Waiting(c)' = 0 /\ since'[c] >= since[c]

Stutters(c) ==
  /\ pc = "down" <=> pc' = "down"
  /\ Waiting(c)' = Waiting(c) /\ since'[c] = since[c]

Cadences(c) == Passes(c) \/ Elapses(c) \/ Stops(c) \/ Starts(c) \/ Stutters(c)

(* No class waits longer than its interval and one round of the loop.       *)
LEMMA WaitingNext ==
  ASSUME TypeOK', TimeInv', NEW c \in Classes
  PROVE  Waiting(c)' \in Nat /\ Waiting(c)' <= Period[c] + (MaxGap - 1)
<1>1. /\ age'[c] \in Nat /\ elapsed' \in Nat /\ Period[c] \in Nat /\ Period[c] > 0
      /\ MaxGap \in Nat /\ MaxCycle \in Nat /\ MaxCycle < MaxGap
  BY Constants DEF TypeOK
<1>2. elapsed' <= MaxCycle
  <2>1. PhaseBound(pc') <= MaxCycle /\ PhaseBound(pc') \in Nat
    BY DEF PhaseBound, MaxCycle
  <2> QED
    BY <1>1, <2>1 DEF TimeInv
<1>3. pc' \in {"asleep", "down"} \/ pc' \in Phases \cup {"settle"}
  BY DEF TypeOK, Labels
<1>4. CASE pc' = "asleep"
  BY <1>1, <1>4 DEF TimeInv, Waiting
<1>5. CASE pc' = "down"
  BY <1>1, <1>5 DEF TimeInv, Waiting
<1>6. CASE pc' \in Phases \cup {"settle"}
  BY <1>1, <1>2, <1>6 DEF TimeInv, Waiting
<1> QED
  BY <1>3, <1>4, <1>5, <1>6

(* In a phase that takes d, d is what elapses for every class.              *)
LEMMA PhaseElapses ==
  ASSUME TypeOK, TypeOK', TimeInv', pc \in Phases, pc' # "down",
         NEW d, Take(d), due' = due, NEW c \in Classes
  PROVE  Elapses(c)
<1>1. /\ d \in Nat /\ elapsed' = elapsed + d /\ age'[c] = age[c] + d
      /\ since'[c] = Capped(c, since[c] + d)
  BY TakeType
<1>2. Waiting(c) \in Nat /\ Waiting(c)' = Waiting(c) + d
  BY <1>1 DEF Waiting, TypeOK
<1>3. Waiting(c)' - Waiting(c) = d
  BY <1>1, <1>2
<1> QED
  BY <1>1, <1>2, <1>3, WaitingNext DEF Elapses, Phases, Reads

LEMMA CadenceStep ==
  ASSUME SchedulerInv, SchedulerInv', [Next]_vars, NEW c \in Classes
  PROVE  Cadences(c)
<1> USE DEF Cadences
<1>1. TypeOK /\ TypeOK' /\ TimeInv /\ TimeInv'
  BY DEF SchedulerInv
<1>2. CASE Wake
  <2>1. /\ age[c] \in Nat /\ since[c] \in Nat /\ Period[c] \in Nat
        /\ c \notin due /\ Capped(c, Waiting(c)) <= since[c] /\ Waiting(c) = age[c]
    BY <1>1, <1>2, Constants DEF TypeOK, TimeInv, Wake, Waiting
  <2>2. /\ c \in due' <=> age[c] >= Period[c]
        /\ since'[c] = IF age[c] >= Period[c] THEN 0 ELSE since[c]
        /\ elapsed' = 0 /\ age' = age /\ pc = "asleep" /\ pc' = "connect"
    BY <1>1, <1>2 DEF Wake, IsDue, TypeOK
  <2>3. CASE age[c] >= Period[c]
    BY <2>1, <2>2, <2>3 DEF Passes, Waiting, Capped
  <2>4. CASE ~(age[c] >= Period[c])
    BY <2>1, <2>2, <2>4 DEF Stutters, Waiting
  <2> QED
    BY <2>3, <2>4
<1>3. CASE pc \in Phases /\ pc' # "down" /\ due' = due /\ \E d : Take(d)
  BY <1>1, <1>3, PhaseElapses
<1>4. Connect \/ ReadServer \/ ReadDatabase \/ ReadStatements \/ ReadTables
        \/ ReadIndexes \/ Write \/ FetchTexts \/ Commit \/ Fail
      => pc \in Phases /\ pc' # "down" /\ due' = due /\ \E d : Take(d)
  BY DEF Connect, ReadServer, ReadDatabase, ReadStatements, ReadTables, ReadIndexes,
         Write, FetchTexts, Commit, Fail, cycle, Phases, Reads, AfterTables
<1>5. CASE Settle
  <2>1. PICK late \in 0..MaxLate :
          /\ age' = [x \in Classes |-> Settled(x) + Rest + late]
          /\ since' = [x \in Classes |-> Capped(x, since[x] + Rest + late)]
    BY <1>5 DEF Settle
  <2>2. late \in Nat /\ Rest \in Nat /\ since[c] \in Nat
    BY <1>1, <2>1 DEF Rest, TypeOK
  <2>3. Settled(c) = Waiting(c) /\ Waiting(c) \in Nat
    BY <1>1 DEF Settled, Waiting, TypeOK
  <2>4. /\ Waiting(c)' = Waiting(c) + (Rest + late)
        /\ since'[c] = Capped(c, since[c] + (Rest + late))
        /\ pc # "down" /\ pc' # "down"
    BY <1>5, <2>1, <2>2, <2>3 DEF Waiting, Settle
  <2>5. Waiting(c)' - Waiting(c) = Rest + late /\ Waiting(c)' >= Waiting(c)
    BY <2>2, <2>3, <2>4
  <2>6. since'[c] = Capped(c, since[c] + (Waiting(c)' - Waiting(c)))
    BY <2>4, <2>5
  <2> QED
    BY <1>1, <2>4, <2>5, <2>6, WaitingNext DEF Elapses
<1>6. CASE Stop
  BY <1>6 DEF Stop, Stops
<1>7. CASE Start
  <2>1. PICK d \in 0..MaxDown :
          since' = [x \in Classes |-> Capped(x, since[x] + d)]
    BY <1>7 DEF Start
  <2>2. since[c] \in Nat /\ since[c] <= Period[c] /\ c \notin due /\ due' = due
    BY <1>1, <1>7 DEF TypeOK, TimeInv, Start, cycle
  <2>3. Waiting(c)' = 0
    BY <1>7, <2>2 DEF Waiting, Start, FreshAge
  <2>4. since'[c] >= since[c]
    BY <2>1, <2>2, Constants DEF Capped
  <2> QED
    BY <1>7, <2>3, <2>4 DEF Start, Starts
<1>8. CASE UNCHANGED vars
  BY <1>8 DEF vars, Stutters, Waiting
<1> QED
  BY <1>2, <1>3, <1>4, <1>5, <1>6, <1>7, <1>8 DEF Next, Step

(* SLOW passes start at their interval, at most one round of the loop late, *)
(* and never closer than it, whatever fails, is skipped or is restarted.    *)
THEOREM SlowPassesKeepCadence == Spec => KeepsSlowCadence
<1>1. Init => SlowCadence!Init
  BY DEF Init, SlowCadence!Init, Waiting, Classes, Period
<1>2. SchedulerInv /\ SchedulerInv' /\ [Next]_vars
        => [SlowCadence!Next]_SlowCadence!cadence
  <2> SUFFICES ASSUME SchedulerInv, SchedulerInv', [Next]_vars
               PROVE  [SlowCadence!Next]_SlowCadence!cadence
    OBVIOUS
  <2>1. "slow" \in Classes /\ Period["slow"] = SlowInterval
    BY DEF Classes, Period
  <2>2. Cadences("slow")
    BY <2>1, CadenceStep
  <2> QED
    BY <2>1, <2>2 DEF Cadences, Passes, Elapses, Stops, Starts, Stutters, Capped,
         SlowCadence!Next, SlowCadence!Pass, SlowCadence!Elapse, SlowCadence!Stop,
         SlowCadence!Start, SlowCadence!cadence, SlowCadence!Capped
<1> QED
  BY <1>1, <1>2, SchedulerStaysInBounds, PTL DEF Spec, KeepsSlowCadence, SlowCadence!Spec

(* The same for SIZE passes, the sizes of tables, indexes and the database. *)
THEOREM SizePassesKeepCadence == Spec => KeepsSizeCadence
<1>1. Init => SizeCadence!Init
  BY DEF Init, SizeCadence!Init, Waiting, Classes, Period
<1>2. SchedulerInv /\ SchedulerInv' /\ [Next]_vars
        => [SizeCadence!Next]_SizeCadence!cadence
  <2> SUFFICES ASSUME SchedulerInv, SchedulerInv', [Next]_vars
               PROVE  [SizeCadence!Next]_SizeCadence!cadence
    OBVIOUS
  <2>1. "size" \in Classes /\ Period["size"] = SizeInterval
    BY DEF Classes, Period
  <2>2. Cadences("size")
    BY <2>1, CadenceStep
  <2> QED
    BY <2>1, <2>2 DEF Cadences, Passes, Elapses, Stops, Starts, Stutters, Capped,
         SizeCadence!Next, SizeCadence!Pass, SizeCadence!Elapse, SizeCadence!Stop,
         SizeCadence!Start, SizeCadence!cadence, SizeCadence!Capped
<1> QED
  BY <1>1, <1>2, SchedulerStaysInBounds, PTL DEF Spec, KeepsSizeCadence, SizeCadence!Spec

-----------------------------------------------------------------------------
(* The daemon's cycles are those of CollectOnce.tla.                        *)

(* The object collectors run because they are due and within the budget.     *)
PassesInv == pc \in {"tables", "indexes"} => due # {} /\ ~Exceeded(spent)

LEMMA PassesStep ==
  ASSUME PassesInv, [Next]_vars
  PROVE  PassesInv'
<1> USE DEF PassesInv
<1>1. CASE ReadStatements
  <2>1. /\ pc' = IF ObjectsWanted(spent') THEN "tables" ELSE "write"
        /\ due' = due
    BY <1>1 DEF ReadStatements, cycle
  <2>2. ObjectsWanted(spent') <=> due' # {} /\ ~Exceeded(spent)'
    BY <2>1 DEF ObjectsWanted, Exceeded
  <2> QED
    BY <2>1, <2>2
<1>2. CASE ReadTables
  <2>1. pc' = AfterTables(spent') /\ due' = due /\ pc = "tables"
    BY <1>2 DEF ReadTables
  <2>2. AfterTables(spent') = IF Exceeded(spent)' THEN "write" ELSE "indexes"
    BY DEF AfterTables, Exceeded
  <2> QED
    BY <2>1, <2>2
<1>3. CASE Wake \/ Connect \/ ReadServer \/ ReadDatabase \/ ReadIndexes \/ Write
           \/ FetchTexts \/ Commit \/ Fail \/ Settle \/ Stop \/ Start
  <2>1. pc' \notin {"tables", "indexes"}
    BY <1>3 DEF Wake, Connect, ReadServer, ReadDatabase, ReadIndexes, Write,
         FetchTexts, Commit, Fail, Settle, Stop, Start
  <2> QED
    BY <2>1
<1>4. CASE UNCHANGED vars
  BY <1>4 DEF vars, Exceeded
<1> QED
  BY <1>1, <1>2, <1>3, <1>4 DEF Next, Step

(* A phase never lowers what has been spent.                                *)
LEMMA SpentGrows ==
  ASSUME TypeOK, TypeOK', NEW d, Take(d)
  PROVE  /\ Exceeded(spent) => Exceeded(spent)'
         /\ pc \notin Reads => Exceeded(spent)' = Exceeded(spent)
  BY TakeType DEF Take, Exceeded, TypeOK

LEMMA StageIs ==
  /\ \A label \in {"connect", "server", "database", "statements"} : StageOf(label) = "fast"
  /\ \A label \in {"tables", "indexes"} : StageOf(label) = "objects"
  /\ StageOf("write") = "ready"
  /\ \A label \in {"texts", "commit"} : StageOf(label) = "writing"
  /\ \A label \in {"asleep", "settle", "down"} : StageOf(label) = "idle"
  /\ \A label \in Phases : StageOf(label) # "idle"
  BY DEF StageOf, Phases, Reads

LEMMA ReadsFast ==
  ASSUME Stage = "fast", due' = due, got' = got, Exceeded(spent) => Exceeded(spent)',
         NEW p \in {"fast", IF due # {} /\ ~Exceeded(spent)' THEN "objects" ELSE "ready"},
         Stage' = p
  PROVE  OnceOfDaemon!ReadFast("daemon")
<1>1. Stages["daemon"] = "fast" /\ Stages' = [Stages EXCEPT !["daemon"] = p]
  BY DEF Stages, Daemon
<1>2. p # "idle"
  OBVIOUS
<1>3. Wanted' = Wanted /\ (Wanted["daemon"] <=> due # {})
  BY <1>2 DEF Wanted, Daemon
<1>4. Collected' = Collected
  BY <1>2 DEF Collected
<1>5. PICK o \in {Over["daemon"], TRUE} :
        Over' = [Over EXCEPT !["daemon"] = o] /\ (o <=> Exceeded(spent)')
  <2>1. CASE Exceeded(spent)'
    <3>1. Over' = [Over EXCEPT !["daemon"] = TRUE]
      BY <1>2, <2>1 DEF Over, Daemon
    <3> QED
      BY <2>1, <3>1
  <2>2. CASE ~Exceeded(spent)'
    <3>1. Over' = [Over EXCEPT !["daemon"] = FALSE]
      BY <1>2, <2>2 DEF Over, Daemon
    <3>2. Over["daemon"] = FALSE
      BY <2>2 DEF Over, Daemon
    <3> QED
      BY <2>2, <3>1, <3>2
  <2> QED
    BY <2>1, <2>2
<1>6. p \in {"fast", IF Wanted["daemon"] /\ ~o THEN "objects" ELSE "ready"}
  <2>1. CASE o
    BY <1>3, <1>5, <2>1
  <2>2. CASE ~o
    BY <1>3, <1>5, <2>2
  <2> QED
    BY <2>1, <2>2
<1> QED
  BY <1>1, <1>3, <1>4, <1>5, <1>6 DEF OnceOfDaemon!ReadFast

LEMMA ReadsObjects ==
  ASSUME Stage = "objects", due # {}, ~Exceeded(spent), due' = due,
         NEW all \in BOOLEAN, got' = "indexes" <=> all,
         Stage' = IF Exceeded(spent)' \/ all THEN "ready" ELSE "objects"
  PROVE  OnceOfDaemon!ReadObjects("daemon")
<1>1. Stages["daemon"] = "objects" /\ Stage' # "idle"
  BY DEF Stages, Daemon
<1>2. Wanted["daemon"] /\ ~Over["daemon"] /\ Wanted' = Wanted
  BY <1>1 DEF Wanted, Over, Daemon
<1>3. Collected' = [Collected EXCEPT !["daemon"] = all]
  <2>1. CASE all
    BY <1>1, <2>1 DEF Collected, Daemon
  <2>2. CASE ~all
    BY <1>1, <2>2 DEF Collected, Daemon
  <2> QED
    BY <2>1, <2>2
<1>4. PICK o \in BOOLEAN : Over' = [Over EXCEPT !["daemon"] = o] /\ (o <=> Exceeded(spent)')
  <2>1. CASE Exceeded(spent)'
    <3>1. Over' = [Over EXCEPT !["daemon"] = TRUE]
      BY <1>1, <2>1 DEF Over, Daemon
    <3> QED
      BY <2>1, <3>1
  <2>2. CASE ~Exceeded(spent)'
    <3>1. Over' = [Over EXCEPT !["daemon"] = FALSE]
      BY <1>1, <2>2 DEF Over, Daemon
    <3> QED
      BY <2>2, <3>1
  <2> QED
    BY <2>1, <2>2
<1>5. Stages' = [Stages EXCEPT !["daemon"] = IF o \/ all THEN "ready" ELSE "objects"]
  BY <1>4 DEF Stages, Daemon
<1> QED
  BY <1>1, <1>2, <1>3, <1>4, <1>5 DEF OnceOfDaemon!ReadObjects

LEMMA EndsCycle ==
  ASSUME Stage # "idle", Stage' = "idle"
  PROVE  OnceOfDaemon!End("daemon")
<1>1. Stages["daemon"] # "idle" /\ Stages' = [Stages EXCEPT !["daemon"] = "idle"]
  BY DEF Stages, Daemon
<1>2. Wanted' = [Wanted EXCEPT !["daemon"] = FALSE]
  BY DEF Wanted, Daemon
<1>3. Over' = [Over EXCEPT !["daemon"] = FALSE]
  BY DEF Over, Daemon
<1>4. Collected' = [Collected EXCEPT !["daemon"] = FALSE]
  BY DEF Collected, Daemon
<1> QED
  BY <1>1, <1>2, <1>3, <1>4 DEF OnceOfDaemon!End

LEMMA StaysIdle ==
  ASSUME Stage = "idle", Stage' = "idle"
  PROVE  UNCHANGED OnceOfDaemon!once
  BY DEF OnceOfDaemon!once, Stages, Wanted, Over, Collected

LEMMA OnceStep ==
  ASSUME TypeOK, TypeOK', PassesInv, BudgetInv, [Next]_vars
  PROVE  [\E a \in Daemon : \/ OnceOfDaemon!Begin(a) \/ OnceOfDaemon!ReadFast(a)
                            \/ OnceOfDaemon!ReadObjects(a) \/ OnceOfDaemon!Write(a)
                            \/ OnceOfDaemon!FetchTexts(a) \/ OnceOfDaemon!End(a)]_
         (OnceOfDaemon!once)
<1> DEFINE Do == \/ OnceOfDaemon!Begin("daemon") \/ OnceOfDaemon!ReadFast("daemon")
                 \/ OnceOfDaemon!ReadObjects("daemon") \/ OnceOfDaemon!Write("daemon")
                 \/ OnceOfDaemon!FetchTexts("daemon") \/ OnceOfDaemon!End("daemon")
<1> SUFFICES Do \/ UNCHANGED OnceOfDaemon!once
  BY DEF Daemon
<1>1. CASE Wake
  <2>1. pc = "asleep" /\ pc' = "connect" /\ spent' = 0 /\ got' = "nothing"
    BY <1>1 DEF Wake
  <2>2. Stage = "idle" /\ Stage' = "fast" /\ ~Exceeded(spent)'
    BY <2>1, StageIs DEF Stage, Exceeded
  <2>3. Stages["daemon"] = "idle" /\ Stages' = [Stages EXCEPT !["daemon"] = "fast"]
    BY <2>2 DEF Stages, Daemon
  <2>4. \E w \in BOOLEAN : Wanted' = [Wanted EXCEPT !["daemon"] = w]
    <3>1. Wanted' = [Wanted EXCEPT !["daemon"] = due' # {}]
      BY <2>2 DEF Wanted, Daemon
    <3> QED
      BY <3>1
  <2>5. Over' = Over
    BY <2>2 DEF Over
  <2>6. Collected' = Collected
    BY <2>1, <2>2 DEF Collected
  <2> QED
    BY <2>3, <2>4, <2>5, <2>6 DEF OnceOfDaemon!Begin
<1>2. CASE Connect \/ ReadServer \/ ReadDatabase
  <2>1. PICK d : Take(d)
    BY <1>2 DEF Connect, ReadServer, ReadDatabase
  <2>2. /\ pc \in {"connect", "server", "database"} /\ due' = due /\ got' = got
        /\ pc' \in {"server", "database", "statements"}
    BY <1>2 DEF Connect, ReadServer, ReadDatabase, cycle
  <2>3. Stage = "fast" /\ Stage' = "fast"
    BY <2>2, StageIs DEF Stage
  <2> QED
    BY <2>1, <2>2, <2>3, SpentGrows, ReadsFast
<1>3. CASE ReadStatements
  <2>1. PICK d : Take(d)
    BY <1>3 DEF ReadStatements
  <2>2. /\ pc = "statements" /\ due' = due /\ got' = got
        /\ pc' = IF ObjectsWanted(spent') THEN "tables" ELSE "write"
    BY <1>3 DEF ReadStatements, cycle
  <2>3. /\ Stage = "fast"
        /\ Stage' = IF due # {} /\ ~Exceeded(spent)' THEN "objects" ELSE "ready"
    BY <2>2, StageIs DEF Stage, ObjectsWanted, Exceeded
  <2> QED
    BY <2>1, <2>2, <2>3, SpentGrows, ReadsFast
<1>4. CASE ReadTables
  <2>1. pc = "tables" /\ pc' = AfterTables(spent') /\ due' = due /\ got' = "tables"
    BY <1>4 DEF ReadTables
  <2>2. /\ Stage = "objects"
        /\ Stage' = IF Exceeded(spent)' \/ FALSE THEN "ready" ELSE "objects"
    BY <2>1, StageIs DEF Stage, AfterTables, Exceeded
  <2>3. due # {} /\ ~Exceeded(spent) /\ (got' = "indexes" <=> FALSE)
    BY <2>1 DEF PassesInv
  <2> QED
    BY <2>1, <2>2, <2>3, ReadsObjects
<1>5. CASE ReadIndexes
  <2>1. pc = "indexes" /\ pc' = "write" /\ due' = due /\ got' = "indexes"
    BY <1>5 DEF ReadIndexes
  <2>2. /\ Stage = "objects"
        /\ Stage' = IF Exceeded(spent)' \/ TRUE THEN "ready" ELSE "objects"
    BY <2>1, StageIs DEF Stage
  <2>3. due # {} /\ ~Exceeded(spent) /\ (got' = "indexes" <=> TRUE)
    BY <2>1 DEF PassesInv
  <2> QED
    BY <2>1, <2>2, <2>3, ReadsObjects
<1>6. CASE Write
  <2>1. PICK d : Take(d)
    BY <1>6 DEF Write
  <2>2. pc = "write" /\ pc' \in {"texts", "commit"} /\ due' = due /\ got' = got
    BY <1>6 DEF Write, cycle
  <2>3. Stage = "ready" /\ Stage' = "writing" /\ Exceeded(spent)' = Exceeded(spent)
    BY <2>1, <2>2, StageIs, SpentGrows DEF Stage, Reads
  <2>4. /\ Stages["daemon"] = "ready" /\ Stages' = [Stages EXCEPT !["daemon"] = "writing"]
        /\ \A b \in Daemon : Stages[b] # "writing"
    BY <2>3 DEF Stages, Daemon
  <2>5. Wanted' = Wanted /\ Over' = Over /\ Collected' = Collected
    BY <2>2, <2>3 DEF Wanted, Over, Collected
  <2> QED
    BY <2>4, <2>5 DEF OnceOfDaemon!Write
<1>7. CASE FetchTexts
  <2>1. pc = "texts" /\ Stage = "writing" /\ Stage' = "writing" /\ due' = due /\ got' = got
    BY <1>7, StageIs DEF FetchTexts, cycle, Stage
  <2>2. ~Exceeded(spent)
    BY <2>1 DEF BudgetInv, Exceeded, TypeOK
  <2>3. Stages["daemon"] = "writing" /\ Stages' = Stages
    BY <2>1 DEF Stages, Daemon
  <2>4. Wanted' = Wanted /\ Collected' = Collected
    BY <2>1 DEF Wanted, Collected
  <2>5. ~Over["daemon"] /\ (Over' = Over \/ Over' = [Over EXCEPT !["daemon"] = TRUE])
    BY <2>1, <2>2 DEF Over, Daemon
  <2> QED
    BY <2>3, <2>4, <2>5 DEF OnceOfDaemon!FetchTexts, OnceOfDaemon!once
<1>8. CASE Commit
  <2>1. Stage # "idle" /\ Stage' = "idle"
    BY <1>8, StageIs DEF Commit, Stage
  <2> QED
    BY <2>1, EndsCycle
<1>9. CASE Fail
  <2>1. Stage # "idle" /\ Stage' = "idle"
    BY <1>9, StageIs DEF Fail, Phases, Reads, Stage
  <2> QED
    BY <2>1, EndsCycle
<1>10. CASE Settle \/ Start
  <2>1. Stage = "idle" /\ Stage' = "idle"
    BY <1>10, StageIs DEF Settle, Start, Stage
  <2> QED
    BY <2>1, StaysIdle
<1>11. CASE Stop
  <2>1. Stage' = "idle"
    BY <1>11, StageIs DEF Stop, Stage
  <2> QED
    BY <2>1, EndsCycle, StaysIdle
<1>12. CASE UNCHANGED vars
  <2>1. Stage' = Stage /\ Exceeded(spent)' = Exceeded(spent) /\ due' = due /\ got' = got
    BY <1>12 DEF vars, Stage, Exceeded
  <2> QED
    BY <2>1 DEF OnceOfDaemon!once, Stages, Wanted, Over, Collected
<1> QED
  BY <1>1, <1>2, <1>3, <1>4, <1>5, <1>6, <1>7, <1>8, <1>9, <1>10, <1>11,
     <1>12 DEF Next, Step

(* In time and budget, too, the daemon's cycles are collect_once's: what is *)
(* due is read completely, unless the budget is exceeded before the indexes *)
(* (agent.collect_once, called by run_forever).                             *)
THEOREM DaemonCollectsOnce == Spec => CollectsOnce
<1>1. Init => OnceOfDaemon!OnceInit /\ PassesInv
  <2> SUFFICES ASSUME Init PROVE OnceOfDaemon!OnceInit /\ PassesInv
    OBVIOUS
  <2>1. Stage = "idle" /\ pc = "asleep"
    BY StageIs DEF Init, Stage
  <2> QED
    BY <2>1 DEF OnceOfDaemon!OnceInit, PassesInv, Stages, Wanted, Over, Collected
<1>2. SchedulerInv => TypeOK /\ BudgetInv
  BY DEF SchedulerInv
<1>3. PassesInv /\ [Next]_vars => PassesInv'
  BY PassesStep
<1>4. TypeOK /\ TypeOK' /\ PassesInv /\ BudgetInv /\ [Next]_vars
        => [OnceOfDaemon!OnceNext]_(OnceOfDaemon!once)
  BY OnceStep DEF OnceOfDaemon!OnceNext
<1> QED
  BY <1>1, <1>2, <1>3, <1>4, SchedulerStaysInBounds, PTL
  DEF Spec, CollectsOnce, OnceOfDaemon!OnceSpec

=============================================================================
