----------------------------- MODULE CollectOnce -----------------------------
(***************************************************************************)
(* What collect_once (pgintel/agent.py) promises whatever it reads, stores *)
(* or waits for.  Cycles of several agents overlap while they read the     *)
(* source and take turns in writing.  Tables and indexes are read when     *)
(* that is wanted and the fast reads have left some of the source budget,  *)
(* and given up when they use up the rest; a cycle over budget stays over. *)
(*                                                                         *)
(* Three models implement it, each of which leaves out what the others are *)
(* about: Collector.tla (what is read and stored), Scheduler.tla (how long *)
(* it takes) and Upgrade.tla (the locks).                                  *)
(***************************************************************************)

CONSTANT Agents

VARIABLES
  phase,    \* "idle", reading ("fast", then "objects"), "ready" or "writing"
  wanted,   \* whether tables and indexes are to be read
  over,     \* whether the source has been read for longer than the budget
  complete  \* whether tables and indexes have been read

once == <<phase, wanted, over, complete>>

OnceInit ==
  /\ phase = [a \in Agents |-> "idle"]
  /\ wanted = [a \in Agents |-> FALSE]
  /\ over = [a \in Agents |-> FALSE]
  /\ complete = [a \in Agents |-> FALSE]

Begin(a) ==
  /\ phase[a] = "idle"
  /\ phase' = [phase EXCEPT ![a] = "fast"]
  /\ \E w \in BOOLEAN : wanted' = [wanted EXCEPT ![a] = w]
  /\ UNCHANGED <<over, complete>>

(* The budget is looked at after the last of the fast reads ...            *)
ReadFast(a) ==
  /\ phase[a] = "fast"
  /\ \E o \in {over[a], TRUE} :
       /\ over' = [over EXCEPT ![a] = o]
       /\ \E p \in {"fast", IF wanted[a] /\ ~o THEN "objects" ELSE "ready"} :
            phase' = [phase EXCEPT ![a] = p]
  /\ UNCHANGED <<wanted, complete>>

(* ... and after every read of objects.                                    *)
ReadObjects(a) ==
  /\ phase[a] = "objects" /\ wanted[a] /\ ~over[a]
  /\ \E o, all \in BOOLEAN :
       /\ over' = [over EXCEPT ![a] = o]
       /\ complete' = [complete EXCEPT ![a] = all]
       /\ phase' = [phase EXCEPT ![a] = IF o \/ all THEN "ready" ELSE "objects"]
  /\ UNCHANGED wanted

Write(a) ==
  /\ phase[a] = "ready"
  /\ \A b \in Agents : phase[b] # "writing"
  /\ phase' = [phase EXCEPT ![a] = "writing"]
  /\ UNCHANGED <<wanted, over, complete>>

(* Only the text of statements is read from the source by now.             *)
FetchTexts(a) ==
  /\ phase[a] = "writing" /\ ~over[a]
  /\ over' = [over EXCEPT ![a] = TRUE]
  /\ UNCHANGED <<phase, wanted, complete>>

End(a) ==
  /\ phase[a] # "idle"
  /\ phase' = [phase EXCEPT ![a] = "idle"]
  /\ wanted' = [wanted EXCEPT ![a] = FALSE]
  /\ over' = [over EXCEPT ![a] = FALSE]
  /\ complete' = [complete EXCEPT ![a] = FALSE]

OnceNext ==
  \E a \in Agents :
    Begin(a) \/ ReadFast(a) \/ ReadObjects(a) \/ Write(a) \/ FetchTexts(a) \/ End(a)

OnceSpec == OnceInit /\ [][OnceNext]_once

=============================================================================
