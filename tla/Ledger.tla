------------------------------- MODULE Ledger -------------------------------
(***************************************************************************)
(* What the repository promises to whoever reads it, whatever the agents   *)
(* do: it is a ledger to which whole cycles are added.  One step adds the  *)
(* record of one cycle together with all the rows and all the events of    *)
(* that cycle and nothing else; nothing is ever changed or removed.        *)
(* Collector.tla implements it with locks, staged rows and a commit        *)
(* (collect_once ends with one repo.commit()).                             *)
(***************************************************************************)
EXTENDS Samples

VARIABLES samples, events, cycles

ledger == <<samples, events, cycles>>

Init == samples = {} /\ events = {} /\ cycles = {}

(* Cycle c with its rows and events.  Its record accounts for them: no     *)
(* object has two rows, every row and event belongs to the cycle, and the  *)
(* record counts exactly those.                                            *)
Publish(c, rows, es) ==
  /\ \A d \in cycles : c.at # d.at /\ c.now # d.now
  /\ \A r, q \in rows : r.obj = q.obj => r = q
  /\ \A r \in rows : r.at = c.at
  /\ \A e \in es : e.created = c.now
  /\ c.stored = {r.obj : r \in rows}
  /\ c.created = {[type |-> e.type, obj |-> e.obj] : e \in es}
  /\ c.created \cap c.suppressed = {}
  /\ samples' = samples \cup rows
  /\ events' = events \cup es
  /\ cycles' = cycles \cup {c}

Next == \E c \in cycles' \ cycles : Publish(c, samples' \ samples, events' \ events)

Spec == Init /\ [][Next]_ledger

=============================================================================
