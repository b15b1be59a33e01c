------------------------------- MODULE Samples -------------------------------
(***************************************************************************)
(* The arithmetic of one sample: what pgintel/repository.py derives from   *)
(* the cumulative counters it has just read and from the row it stored     *)
(* last.  There is no state here; Collector.tla runs these operators.      *)
(*                                                                         *)
(* An object is whatever has a row of counters in the source: the current  *)
(* database, a table, an index or a pg_stat_statements entry.  Its dozen   *)
(* counters are one, raw.  Its slowly changing attribute, attr, is the     *)
(* physical size of a database, table or index and the text (hash) of a    *)
(* query; it is Unknown when the read did not ask for it.                  *)
(*                                                                         *)
(* Two fields never reach the program and only serve the properties:       *)
(* grown, all the activity the object has had since the model started,     *)
(* and, except for a database (where it is the stats_reset column), reset, *)
(* the number of times the counter went back to zero.                      *)
(***************************************************************************)
EXTENDS Integers, FiniteSets

CONSTANTS
  Objects,  \* what has counters in the source
  Kind,     \* Kind[o]: "database", "table", "index" or "query"
  KeyOf,    \* KeyOf[o]: the columns by which the repository looks o up
  NoRow,    \* no row, nothing read
  Unknown   \* SQL NULL for an attribute

Kinds == {"database", "table", "index", "query"}

Keys == {KeyOf[o] : o \in Objects}

(* datid, relid and indexrelid identify their object.  (dbid, userid,      *)
(* queryid) need not: from PostgreSQL 14 pg_stat_statements has one entry  *)
(* for the top-level and one for the nested executions of a statement, and *)
(* toplevel is stored but is not part of the key.                          *)
ASSUME SamplesAssumption ==
  /\ Kind \in [Objects -> Kinds]
  /\ KeyOf \in [Objects -> Keys]
  /\ \A o, p \in Objects : KeyOf[o] = KeyOf[p] =>
        \/ o = p
        \/ Kind[o] = "query" /\ Kind[p] = "query"

Attr == Nat \cup {Unknown}

(* What one read of the source returns for an object.                      *)
Reading == [raw : Nat, reset : Nat, grown : Nat, attr : Attr]

(* What a stored row was derived from.                                     *)
Origin == [obj : Objects, raw : Nat, reset : Nat, grown : Nat]

(* A stored sample; prev is the row it was compared with.                  *)
Row == [obj : Objects, at : Nat, raw : Nat, reset : Nat, grown : Nat,
        attr : Attr, delta : Nat, text : BOOLEAN, prev : Origin \cup {NoRow}]

ASSUME SentinelAssumption ==
  /\ Unknown \notin Nat
  /\ NoRow \notin Reading
  /\ NoRow \notin Origin
  /\ NoRow \notin Row

-----------------------------------------------------------------------------

(* util.delta for two counters that exist.                                 *)
DeltaMutant(current, previous) == current - previous

Delta(current, previous) ==
  IF current >= previous THEN current - previous ELSE current

(* Only the database view carries its own reset time.                      *)
ResetDetectedMutant(o, s, p) == FALSE

ResetDetected(o, s, p) == Kind[o] = "database" /\ s.reset # p.reset

(* The activity the program attributes to the interval that ends with      *)
(* reading s, p being the row found for the object's key.                  *)
IntervalDelta(o, s, p) ==
  IF p = NoRow THEN 0
  ELSE IF ResetDetected(o, s, p) THEN s.raw
  ELSE Delta(s.raw, p.raw)

(* An attribute this read did not ask for is taken over from the last row. *)
CarriedAttrMutant(s, p) == s.attr

CarriedAttrZeroMutant(s, p) ==
  IF s.attr # Unknown THEN s.attr ELSE IF p # NoRow THEN p.attr ELSE 0

CarriedAttr(s, p) ==
  IF s.attr = Unknown /\ p # NoRow THEN p.attr ELSE s.attr

(* Which rows are worth storing.  A database row always is; a statement    *)
(* when its calls or plans moved; a table or index when any of the         *)
(* compared columns differs, its (carried) size included.                  *)
IsChangedCountersMutant(o, s, p) ==
  \/ Kind[o] = "database"
  \/ p = NoRow
  \/ IntervalDelta(o, s, p) # 0

IsChangedGrowthMutant(o, s, p) ==
  Kind[o] = "database" \/ p = NoRow \/ s.raw > p.raw

IsChangedAlwaysMutant(o, s, p) == TRUE

IsChanged(o, s, p) ==
  \/ Kind[o] = "database"
  \/ p = NoRow
  \/ Kind[o] = "query" /\ IntervalDelta(o, s, p) # 0
  \/ Kind[o] \in {"table", "index"} /\ (s.raw # p.raw \/ CarriedAttr(s, p) # p.attr)

(* The row for object o read as s in the cycle stamped at; full says that  *)
(* statement texts are stored as they are read.                            *)
RowOf(o, at, s, p, full) ==
  [obj |-> o, at |-> at, raw |-> s.raw, reset |-> s.reset, grown |-> s.grown,
   attr |-> CarriedAttr(s, p), delta |-> IntervalDelta(o, s, p),
   text |-> full /\ Kind[o] = "query",
   prev |-> IF p = NoRow THEN NoRow
            ELSE [obj |-> p.obj, raw |-> p.raw, reset |-> p.reset, grown |-> p.grown]]

(* SELECT DISTINCT ON (key) ... ORDER BY key, collected_at DESC: the rows  *)
(* the lookup may return for a key, more than one on a tie.                *)
Latest(rows, k) ==
  LET mine == {r \in rows : KeyOf[r.obj] = k}
  IN  {r \in mine : \A q \in mine : q.at <= r.at}

=============================================================================
