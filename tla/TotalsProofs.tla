---------------------------- MODULE TotalsProofs ----------------------------
(***************************************************************************)
(* Proof that the deltas of an object add up to its activity over any      *)
(* window, for any number of rows in it, where cycles do not overlap and   *)
(* keys tell all objects apart.                                            *)
(***************************************************************************)
EXTENDS SampleProofs, Totals

TotalsTyped ==
  /\ total \in [Objects -> Nat]
  /\ upTo \in [samples -> Nat]

(* Steps that store nothing add nothing.                                   *)
LEMMA NothingAdded ==
  ASSUME TotalsTyped, Sum, samples' = samples
  PROVE  total' = total /\ upTo' = upTo
<1>1. \A o \in Objects : Added(o, samples' \ samples) = 0
  BY DEF Added
<1>2. total' = total
  BY <1>1 DEF Sum, TotalsTyped
<1>3. upTo' = upTo
  BY DEF Sum, TotalsTyped
<1>4. QED
  BY <1>2, <1>3

(* The rows a commit adds, and what they add.                              *)
LEMMA CommitAdds ==
  ASSUME TypeOK, StagedIsOneCycle, OrderInv, NEW a \in Agents, Commit(a)
  PROVE  /\ samples' \ samples = job[a].rows
         /\ \A p \in samples, r \in job[a].rows : p.at < r.at
         /\ \A r \in job[a].rows : r \in Row /\ Added(r.obj, job[a].rows) = r.delta
         /\ \A o \in Objects : (\A r \in job[a].rows : r.obj # o) => Added(o, job[a].rows) = 0
<1>1. samples' = samples \cup job[a].rows /\ Begun(a)
  BY DEF Commit, Goto, Begun
<1>2. \A p \in samples, r \in job[a].rows : p.at < r.at
  BY <1>1 DEF OrderInv, StagedIsOneCycle
<1>3. samples' \ samples = job[a].rows
  <2>1. \A r \in job[a].rows : r.at \in Nat
    BY DEF TypeOK, Job, Row
  <2>2. QED
    BY <1>1, <1>2, <2>1
<1>4. ASSUME NEW r \in job[a].rows PROVE r \in Row /\ Added(r.obj, job[a].rows) = r.delta
  <2>1. \A q \in job[a].rows : q.obj = r.obj => q = r
    BY DEF StagedIsOneCycle
  <2>2. (CHOOSE q \in job[a].rows : q.obj = r.obj) = r
    BY <2>1
  <2>3. r \in Row
    BY DEF TypeOK, Job
  <2>4. QED
    BY <2>2, <2>3 DEF Added
<1>5. \A o \in Objects : (\A r \in job[a].rows : r.obj # o) => Added(o, job[a].rows) = 0
  BY DEF Added
<1>6. QED
  BY <1>2, <1>3, <1>4, <1>5

(* The sums after a commit.                                                *)
LEMMA CommitSums ==
  ASSUME TypeOK, StagedIsOneCycle, OrderInv, TotalsTyped, NEW a \in Agents, Commit(a), Sum
  PROVE  /\ samples' = samples \cup job[a].rows
         /\ \A r \in job[a].rows :
              /\ r \notin samples /\ r.obj \in Objects /\ r.delta \in Nat
              /\ total'[r.obj] = total[r.obj] + r.delta
              /\ upTo'[r] = total'[r.obj]
         /\ \A r \in samples : upTo'[r] = upTo[r]
         /\ \A o \in Objects : (\A r \in job[a].rows : r.obj # o) => total'[o] = total[o]
         /\ TotalsTyped'
<1> DEFINE new == samples' \ samples
<1>1. samples' = samples \cup job[a].rows /\ new = job[a].rows
  BY CommitAdds DEF Commit
<1>2. /\ \A r \in job[a].rows : r \in Row /\ Added(r.obj, new) = r.delta
      /\ \A o \in Objects : (\A r \in job[a].rows : r.obj # o) => Added(o, new) = 0
  BY <1>1, CommitAdds
<1>3. /\ total' = [o \in Objects |-> total[o] + Added(o, new)]
      /\ upTo' = [r \in samples' |-> IF r \in samples THEN upTo[r] ELSE total'[r.obj]]
  BY DEF Sum
<1> HIDE DEF new
<1>4. \A r \in job[a].rows : r.obj \in Objects /\ r.delta \in Nat
  BY <1>2 DEF Row
<1>5. \A o \in Objects : total[o] \in Nat /\ total'[o] = total[o] + Added(o, new)
  BY <1>3 DEF TotalsTyped
<1>6. \A r \in job[a].rows :
        /\ r \notin samples /\ r.obj \in Objects /\ r.delta \in Nat
        /\ total'[r.obj] = total[r.obj] + r.delta
        /\ upTo'[r] = total'[r.obj]
  BY <1>1, <1>2, <1>3, <1>4, <1>5 DEF new
<1>7. \A r \in samples : upTo'[r] = upTo[r]
  BY <1>1, <1>3
<1>8. \A o \in Objects : (\A r \in job[a].rows : r.obj # o) => total'[o] = total[o]
  BY <1>2, <1>5
<1>9. TotalsTyped'
  <2>1. \A o \in Objects : Added(o, new) \in Nat
    <3>1. ASSUME NEW o \in Objects, NEW r \in job[a].rows, r.obj = o PROVE Added(o, new) \in Nat
      BY <1>2, <1>4, <3>1
    <3>2. QED
      BY <1>2, <3>1
  <2>2. total' \in [Objects -> Nat]
    BY <1>3, <1>5, <2>1
  <2>3. \A r \in samples' : upTo'[r] \in Nat
    BY <1>1, <1>6, <1>7, <2>2 DEF TotalsTyped
  <2>4. QED
    BY <1>3, <2>2, <2>3 DEF TotalsTyped
<1>10. QED
  BY <1>1, <1>6, <1>7, <1>8, <1>9

(* One more row at the end of a window.  The three rows are of one object  *)
(* and were read in this order.                                            *)
LEMMA WindowGrows ==
  ASSUME NEW p \in Row, NEW n \in Row, NEW r \in Row, p.obj = n.obj, n.obj = r.obj,
         ReadBefore(p, n), ReadBefore(n, r), HonestDelta(r, n),
         NEW s \in Int, NEW t \in Int, NEW u \in Int, t - s \in Nat, u = t + r.delta,
         p = n => s = t,
         p # n =>
           /\ t - s <= n.grown - p.grown
           /\ n.reset = p.reset => t - s = n.grown - p.grown
           /\ n.reset # p.reset /\ Kind[n.obj] = "database" => n.raw <= t - s
  PROVE  /\ 0 <= u - s /\ u - s <= r.grown - p.grown
         /\ r.reset = p.reset => u - s = r.grown - p.grown
         /\ r.reset # p.reset /\ Kind[r.obj] = "database" => r.raw <= u - s
<1>1. /\ p.raw \in Nat /\ p.reset \in Nat /\ p.grown \in Nat
      /\ n.raw \in Nat /\ n.reset \in Nat /\ n.grown \in Nat
      /\ r.raw \in Nat /\ r.reset \in Nat /\ r.grown \in Nat /\ r.delta \in Nat
  BY DEF Row
<1>2. /\ p.reset <= n.reset /\ n.reset <= r.reset
      /\ n.reset = r.reset => r.raw - n.raw = r.grown - n.grown
  BY DEF ReadBefore
<1>3. /\ r.delta <= r.grown - n.grown
      /\ r.reset = n.reset => r.delta = r.grown - n.grown
      /\ r.reset # n.reset /\ Kind[r.obj] = "database" => r.delta = r.raw
  BY DEF HonestDelta
<1>4. /\ t - s <= n.grown - p.grown
      /\ n.reset = p.reset => t - s = n.grown - p.grown
  <2>1. CASE p = n
    BY <1>1, <2>1
  <2>2. CASE p # n
    BY <2>2
  <2>3. QED
    BY <2>1, <2>2
<1>5. 0 <= u - s /\ u - s <= r.grown - p.grown
  BY <1>1, <1>3, <1>4
<1>6. r.reset = p.reset => u - s = r.grown - p.grown
  BY <1>1, <1>2, <1>3, <1>4
<1>7. ASSUME r.reset # p.reset, Kind[r.obj] = "database" PROVE r.raw <= u - s
  <2>1. CASE r.reset # n.reset
    BY <1>1, <1>3, <1>7, <2>1
  <2>2. CASE r.reset = n.reset
    <3>1. n.raw <= t - s
      BY <1>7, <2>2
    <3>2. u = t + (r.raw - n.raw)
      BY <1>1, <1>2, <1>3, <2>2
    <3>3. QED
      BY <1>1, <3>1, <3>2
  <2>3. QED
    BY <2>1, <2>2
<1>8. QED
  BY <1>5, <1>6, <1>7

LEMMA CommitKeepsTotals ==
  ASSUME TypeOK, StagedIsOneCycle, OrderInv, StagedInv, StoredInv, TotalsTyped, TotalsInv,
         NEW a \in Agents, Commit(a), Sum
  PROVE  TotalsInv'
<1> DEFINE rows == job[a].rows
<1>1. /\ samples' = samples \cup rows
      /\ \A p \in samples, r \in rows : p.at < r.at
  BY CommitSums, CommitAdds
<1>2. /\ \A r \in rows : /\ r \notin samples /\ r.obj \in Objects /\ r.delta \in Nat
                         /\ total'[r.obj] = total[r.obj] + r.delta
                         /\ upTo'[r] = total'[r.obj]
      /\ \A r \in samples : upTo'[r] = upTo[r]
      /\ \A o \in Objects : (\A r \in rows : r.obj # o) => total'[o] = total[o]
  BY CommitSums
<1>3. /\ \A r \in samples' : r \in Row /\ r.at \in Nat /\ r.obj \in Objects
      /\ \A o \in Objects : total[o] \in Nat
      /\ \A r \in samples : upTo[r] \in Nat
  BY <1>1 DEF TypeOK, Job, Row, TotalsTyped
<1>4. ASSUME NEW r \in samples', \A q \in samples' : q.obj = r.obj => q.at <= r.at
      PROVE  upTo'[r] = total'[r.obj]
  <2>1. CASE r \in rows
    BY <1>2, <2>1
  <2>2. CASE r \in samples
    <3>1. \A q \in rows : q.obj # r.obj
      BY <1>1, <1>3, <1>4, <2>2
    <3>2. upTo[r] = total[r.obj]
      BY <1>1, <1>4, <2>2 DEF TotalsInv
    <3>3. QED
      BY <1>2, <1>3, <2>2, <3>1, <3>2
  <2>3. QED
    BY <1>1, <2>1, <2>2
<1>5. ASSUME NEW p \in samples', NEW r \in samples', p.obj = r.obj, p.at < r.at
      PROVE  SumIsActivity(p, r)'
  <2>1. p \in samples
    <3>1. CASE p \in rows /\ r \in samples
      BY <1>1, <1>3, <1>5, <3>1
    <3>2. CASE p \in rows /\ r \in rows
      <4>1. p.at = r.at
        BY <3>2 DEF StagedIsOneCycle
      <4>2. QED
        BY <1>3, <1>5, <4>1
    <3>3. QED
      BY <1>1, <3>1, <3>2
  <2>2. CASE r \in samples
    <3>1. SumIsActivity(p, r)
      BY <1>5, <2>1, <2>2 DEF TotalsInv, WindowsAddUp
    <3>2. upTo'[p] = upTo[p] /\ upTo'[r] = upTo[r]
      BY <1>2, <2>1, <2>2
    <3>3. QED
      BY <3>1, <3>2 DEF SumIsActivity
  <2>3. CASE r \in rows
    <3>1. PICK n \in samples : n.obj = p.obj /\ IsNewest(n)
      BY <2>1 DEF OrderInv
    <3>2. ReadBefore(n, r) /\ HonestDelta(r, n)
      BY <1>5, <2>3, <3>1 DEF StagedInv, Follows
    <3>3. upTo[n] = total[r.obj] /\ upTo'[r] = upTo[n] + r.delta
      <4>1. upTo[n] = total[n.obj]
        BY <3>1 DEF TotalsInv, IsNewest
      <4>2. QED
        BY <1>2, <1>5, <2>3, <3>1, <4>1
    <3>4. p = n \/ p.at < n.at
      <4>1. p.at <= n.at
        BY <2>1, <3>1 DEF IsNewest
      <4>2. p.at = n.at => p = n
        BY <2>1, <3>1 DEF OrderInv
      <4>3. QED
        BY <1>1, <1>3, <2>1, <3>1, <4>1, <4>2
    <3>5. /\ upTo[p] \in Nat /\ upTo[n] \in Nat /\ r.delta \in Nat
          /\ p \in Row /\ n \in Row /\ r \in Row
      BY <1>1, <1>2, <1>3, <2>1, <2>3, <3>1
    <3>6. ReadBefore(p, n)
      <4>1. CASE p = n
        BY <1>3, <2>1, <4>1 DEF ReadBefore, Row, TypeOK
      <4>2. CASE p # n
        BY <2>1, <3>1, <3>4, <4>2 DEF StoredInv
      <4>3. QED
        BY <4>1, <4>2
    <3>7. p # n => SumIsActivity(p, n)
      BY <2>1, <3>1, <3>4 DEF TotalsInv, WindowsAddUp
    <3>8. upTo[n] - upTo[p] \in Nat
      BY <3>5, <3>7 DEF SumIsActivity
    <3> DEFINE s == upTo[p]
               t == upTo[n]
               u == upTo'[r]
    <3>9. /\ 0 <= u - s /\ u - s <= r.grown - p.grown
          /\ r.reset = p.reset => u - s = r.grown - p.grown
          /\ r.reset # p.reset /\ Kind[r.obj] = "database" => r.raw <= u - s
      <4>1. /\ p.obj = n.obj /\ n.obj = r.obj
            /\ s \in Int /\ t \in Int /\ u \in Int /\ t - s \in Nat /\ u = t + r.delta
            /\ p = n => s = t
        BY <1>5, <3>1, <3>3, <3>5, <3>8
      <4>2. p # n =>
             /\ t - s <= n.grown - p.grown
             /\ n.reset = p.reset => t - s = n.grown - p.grown
             /\ n.reset # p.reset /\ Kind[n.obj] = "database" => n.raw <= t - s
        BY <3>7 DEF SumIsActivity
      <4> HIDE DEF s, t, u
      <4>3. QED
        BY <3>2, <3>5, <3>6, <4>1, <4>2, WindowGrows
    <3>10. QED
      BY <1>2, <2>1, <3>9 DEF SumIsActivity
  <2>4. QED
    BY <1>1, <2>2, <2>3
<1>6. QED
  BY <1>4, <1>5 DEF TotalsInv, WindowsAddUp

LEMMA TotalsStep ==
  ASSUME Whole, SerialInv, TotalsTyped, TotalsInv, [TotalsNext]_totals
  PROVE  TotalsTyped' /\ TotalsInv'
<1>1. ASSUME NEW a \in Agents, Commit(a), Sum PROVE TotalsTyped' /\ TotalsInv'
  BY <1>1, CommitSums, CommitKeepsTotals DEF Whole, SerialInv
<1>2. ASSUME UNCHANGED <<samples, total, upTo>> PROVE TotalsTyped' /\ TotalsInv'
  BY <1>2 DEF TotalsTyped, TotalsInv, WindowsAddUp, SumIsActivity
<1>3. CASE UNCHANGED totals
  BY <1>2, <1>3 DEF totals, vars
<1>4. CASE TotalsNext /\ \A a \in Agents : ~Commit(a)
  <2>1. [Next]_vars
    BY <1>4 DEF TotalsNext
  <2>2. samples' = samples
    BY <1>4, <2>1, OthersDoNotPublish DEF Whole
  <2>3. QED
    BY <1>2, <1>4, <2>2, NothingAdded DEF TotalsNext
<1>5. QED
  BY <1>1, <1>3, <1>4 DEF TotalsNext

(* What a report sums for an object over any window of its rows is its     *)
(* activity in that window: exactly where its counter was not reset, never *)
(* more than that, and for a database never less than what came after its  *)
(* last reset; however many rows the window has, whatever was skipped,     *)
(* failed or reset in it, and whichever agents wrote it one after another. *)
THEOREM WindowsTelescope ==
  ASSUME OneEntryPerKey
  PROVE  TotalsSpec /\ []CyclesDoNotOverlap => []WindowsAddUp
<1>1. TotalsInit => Init /\ TotalsTyped /\ TotalsInv
  BY DEF TotalsInit, Init, TotalsTyped, TotalsInv, WindowsAddUp
<1>2. [TotalsNext]_totals => [Next]_vars
  BY DEF TotalsNext, totals
<1>3. TotalsSpec => Spec
  BY <1>1, <1>2, PTL DEF TotalsSpec, Spec
<1>4. Whole /\ SerialInv /\ TotalsTyped /\ TotalsInv /\ [TotalsNext]_totals
        => TotalsTyped' /\ TotalsInv'
  BY TotalsStep
<1>5. TotalsInv => WindowsAddUp
  BY DEF TotalsInv
<1>6. QED
  BY <1>1, <1>3, <1>4, <1>5, WholeHolds, SerialInvHolds, PTL DEF TotalsSpec

=============================================================================
