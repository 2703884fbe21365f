-------------------------------- MODULE Fleet --------------------------------
(***************************************************************************)
(* The fleet process: aegis-fleet runs all its vehicle agents as tasks of  *)
(* one event loop.  Every agent installs the loop's signal handlers for    *)
(* itself before it starts, and the loop keeps one handler per signal, so  *)
(* that the agents share what looks like their own.                        *)
(*                                                                         *)
(* What an agent does while it runs is VehicleAgent's matter; here it is   *)
(* started and stopped.  Signals are handled between two steps of the      *)
(* loop.  One that comes before the first task has run is not modelled.    *)
(***************************************************************************)
EXTENDS Naturals

CONSTANT Agents    (* how many agents the configurations ask for           *)

VARIABLES
  phase,     (* of run(): "new", "starting", "up", "down", "failed"         *)
  running,   (* self.running                                                *)
  handler,   (* the agent whose signal handler is installed, 0 for none     *)
  open,      (* the agents with a connection and a command listener         *)
  fleet,     (* of _run_fleet: "up", "failing", "ended"                     *)
  pressed    (* Ctrl+C was pressed with every agent up (history)            *)

vars == <<phase, running, handler, open, fleet, pressed>>

Agent == 1..Agents

-----------------------------------------------------------------------------

(* The beginning of run(), in the order in which the tasks were created: it *)
(* replaces the handlers, then begins to start.                             *)
Launch(a) ==
  /\ fleet = "up"
  /\ phase[a] = "new"
  /\ \A b \in 1..(a - 1) : phase[b] # "new"
  /\ phase' = [phase EXCEPT ![a] = "starting"]
  /\ handler' = a
  /\ UNCHANGED <<running, open, fleet, pressed>>

(* The end of start(), after its awaits: running is set whatever a signal   *)
(* has meanwhile made of it.                                                *)
Started(a) ==
  /\ fleet = "up"
  /\ phase[a] = "starting"
  /\ phase' = [phase EXCEPT ![a] = "up"]
  /\ running' = [running EXCEPT ![a] = TRUE]
  /\ open' = open \cup {a}
  /\ UNCHANGED <<handler, fleet, pressed>>

(* The connection fails: run() raises, and with it the gathering of the     *)
(* tasks and _run_fleet.                                                    *)
StartFails(a) ==
  /\ fleet = "up"
  /\ phase[a] = "starting"
  /\ phase' = [phase EXCEPT ![a] = "failed"]
  /\ fleet' = "failing"
  /\ UNCHANGED <<running, handler, open, pressed>>

(* SIGINT or SIGTERM: the handler that is installed stops its agent.        *)
CtrlC ==
  /\ fleet = "up"
  /\ handler # 0
  /\ running' = [running EXCEPT ![handler] = FALSE]
  /\ pressed' = (pressed \/ \A a \in Agent : phase[a] = "up")
  /\ UNCHANGED <<phase, handler, open, fleet>>

(* The loop of run() ends.  The stop() in its finally clause returns at     *)
(* once, because running is FALSE already: the connection stays open and    *)
(* the listener subscribed.                                                 *)
RunEnds(a) ==
  /\ fleet = "up"
  /\ phase[a] = "up"
  /\ ~running[a]
  /\ phase' = [phase EXCEPT ![a] = "down"]
  /\ UNCHANGED <<running, handler, open, fleet, pressed>>

(* asyncio.run cancels the tasks that are left; one that runs stops for     *)
(* good, closing its connection.                                            *)
Cancelled(a) ==
  /\ fleet = "failing"
  /\ phase[a] \in {"new", "starting", "up"}
  /\ phase' = [phase EXCEPT ![a] = "down"]
  /\ running' = [running EXCEPT ![a] = FALSE]
  /\ open' = IF running[a] THEN open \ {a} ELSE open
  /\ UNCHANGED <<handler, fleet, pressed>>

(* The tasks are gathered when the last one is done.                        *)
End ==
  /\ fleet # "ended"
  /\ \A a \in Agent : phase[a] \in {"down", "failed"}
  /\ fleet' = "ended"
  /\ UNCHANGED <<phase, running, handler, open, pressed>>

-----------------------------------------------------------------------------

FleetInit ==
  /\ phase = [a \in Agent |-> "new"]
  /\ running = [a \in Agent |-> FALSE]
  /\ handler = 0
  /\ open = {}
  /\ fleet = "up"
  /\ pressed = FALSE

Step(a) == Launch(a) \/ Started(a) \/ StartFails(a) \/ RunEnds(a) \/ Cancelled(a)

FleetNext == CtrlC \/ End \/ \E a \in Agent : Step(a)

(* The event loop runs every task that is ready; starting comes to an end.  *)
FleetSpec ==
  /\ FleetInit
  /\ [][FleetNext]_vars
  /\ WF_vars(End)
  /\ \A a \in Agent : WF_vars(Step(a))

-----------------------------------------------------------------------------

(* start_fleet.py:257, "Use Ctrl+C for graceful shutdown of the entire      *)
(* fleet": with all agents up, the process comes to its end.  It does not:  *)
(* the handler that is installed is the last agent's, and the others run    *)
(* on for ever.                                                             *)
CtrlCStopsFleet == pressed ~> fleet = "ended"
=============================================================================
