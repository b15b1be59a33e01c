------------------------------- MODULE Commits -------------------------------
(***************************************************************************)
(* What a reader of the repository, who reads it without a lock, meets     *)
(* there: cycles that several agents commit, and the clocks they are       *)
(* stamped by.  A cycle is committed as a whole, with its samples, events  *)
(* and record (Ledger.tla), so here it is one record and its events.  Its  *)
(* samples and its record carry collected_at, from the clock of the        *)
(* agent's host; its events carry created_at, the start of its transaction *)
(* by the repository's.  Collector.tla implements this.                    *)
(***************************************************************************)
EXTENDS Integers

CONSTANTS
  Agents,
  Alerts,    \* what an event may report: a type and an object
  Outcomes,  \* what the cycles of this run come to
  MaxSkew,   \* how far an agent's clock is off the repository's, or stepped
  MaxClock   \* bound: no cycle starts after this time

(* What a cycle of collect_once may come to.  Sizes are collected together *)
(* with everything else a slow pass collects.                              *)
Outcome ==
  {o \in [alerts : SUBSET Alerts, slow : BOOLEAN, sizes : BOOLEAN] : o.sizes => o.slow}

ASSUME CommitsAssumption ==
  /\ Outcomes \subseteq Outcome
  /\ MaxSkew \in Nat /\ MaxClock \in Nat

VARIABLES
  clock,   \* of the repository's server
  cycles,  \* committed cycles
  events,  \* committed events
  pc, job  \* the running cycles

commits == <<clock, cycles, events, pc, job>>

Cycle == [at : Int, now : Nat, outcome : Outcome]

Event == [created : Nat, alert : Alerts]

NoJob == [at |-> 0, now |-> 0]

CommitsInit ==
  /\ clock = 0 /\ cycles = {} /\ events = {}
  /\ pc = [a \in Agents |-> "idle"] /\ job = [a \in Agents |-> NoJob]

-----------------------------------------------------------------------------
(* Cycles: collected_at, the transaction's start, and the commit.          *)

Begin(a) ==
  /\ pc[a] = "idle" /\ clock <= MaxClock
  /\ pc' = [pc EXCEPT ![a] = "begun"]
  /\ clock' = clock + 1
  /\ \E d \in -MaxSkew..MaxSkew :
       job' = [job EXCEPT ![a] = [NoJob EXCEPT !.at = clock + 1 + d]]
  /\ UNCHANGED <<cycles, events>>

OpenTransaction(a) ==
  /\ pc[a] = "begun"
  /\ pc' = [pc EXCEPT ![a] = "opened"]
  /\ clock' = clock + 1
  /\ job' = [job EXCEPT ![a].now = clock + 1]
  /\ UNCHANGED <<cycles, events>>

(* The event of an alert of cycle c.                                       *)
EventOf(c, x) == [created |-> c.now, alert |-> x]

Commit(a) ==
  /\ pc[a] = "opened"
  /\ pc' = [pc EXCEPT ![a] = "idle"]
  /\ job' = [job EXCEPT ![a] = NoJob]
  /\ \E o \in Outcomes :
       LET c == [at |-> job[a].at, now |-> job[a].now, outcome |-> o]
       IN  /\ cycles' = cycles \cup {c}
           /\ events' = events \cup {EventOf(c, x) : x \in o.alerts}
  /\ UNCHANGED clock

Abort(a) ==
  /\ pc[a] # "idle"
  /\ pc' = [pc EXCEPT ![a] = "idle"]
  /\ job' = [job EXCEPT ![a] = NoJob]
  /\ UNCHANGED <<clock, cycles, events>>

CommitsNext == \E a \in Agents : Begin(a) \/ OpenTransaction(a) \/ Commit(a) \/ Abort(a)

CommitsSpec == CommitsInit /\ [][CommitsNext]_commits

=============================================================================
