------------------------------- MODULE Cadence -------------------------------
(***************************************************************************)
(* What docs/PRODUCTION_SAFETY.md promises of one class of optional work,  *)
(* SLOW or SIZE, whatever the cycles do: while the daemon runs a pass is   *)
(* started at its interval and not much later, no two passes are started   *)
(* closer than the interval, whether the first one failed, was skipped or  *)
(* belonged to an earlier process, and a new process does not start with   *)
(* one.  Scheduler.tla (agent.run_forever) implements it twice.            *)
(***************************************************************************)
EXTENDS Naturals

CONSTANTS
  Period,  \* the interval of the class
  Slack    \* how much later than its interval a pass may start

VARIABLES
  on,     \* the daemon runs
  wait,   \* time since its last pass started, or since it started itself
  since   \* time since any process started a pass, Period if that is longer

cadence == <<on, wait, since>>

Capped(t) == IF t > Period THEN Period ELSE t

Init == on = TRUE /\ wait = 0 /\ since = Period

Pass ==
  /\ on /\ wait >= Period /\ since >= Period
  /\ wait' = 0 /\ since' = 0
  /\ UNCHANGED on

Elapse ==
  /\ on /\ wait' >= wait /\ wait' <= Period + Slack
  /\ since' = Capped(since + (wait' - wait))
  /\ UNCHANGED on

Stop == on /\ on' = FALSE /\ UNCHANGED since

Start == ~on /\ on' = TRUE /\ wait' = 0 /\ since' >= since

Next == Pass \/ Elapse \/ Stop \/ Start

Spec == Init /\ [][Next]_cadence

=============================================================================
