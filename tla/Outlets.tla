------------------------------- MODULE Outlets --------------------------------
(***************************************************************************)
(* The outlets of the orchestrator joined where they meet: each record of  *)
(* telemetry becomes a task that enqueues it for the database and one that *)
(* broadcasts it to the dashboards, neither of which waits for the other,  *)
(* and the teardown ends them all.                                         *)
(***************************************************************************)
EXTENDS TelemetrySink, Dashboard

CONSTANT
  Deployment  (* what may surround the orchestrator: a database, the sockets *)
              (* that may be opened, the places the crime model knows, and a *)
              (* bound on the records received                               *)

ASSUME DeploymentAssumption ==
  Deployment \subseteq [database : BOOLEAN, clients : SUBSET Client,
                        places : SUBSET Neighborhood, records : 0..MaxRecords]

VARIABLE deployment

outletVars == <<sinkVars, dashVars, deployment>>

OutletsInit ==
  /\ SinkInit
  /\ DashInit
  /\ deployment \in Deployment
  /\ engine = deployment.database

(* The last lines of _handle_telemetry.                                     *)
HandleTelemetry ==
  /\ received < deployment.records
  /\ Receive
  /\ Spawn(<<[kind |-> "telemetry"]>>)
  /\ UNCHANGED <<linkVars, casts, predictionVars>>

(* Nothing runs once the event loop has ended.                              *)
Outward ==
  /\ stage # "ended"
  /\ CastStep \/ \E c \in deployment.clients : LinkStep(c)
  /\ UNCHANGED sinkVars

(* The generator's task is cancelled when the teardown begins.              *)
Predict ==
  /\ running
  /\ \E risky \in SUBSET deployment.places : Round(risky)
  /\ UNCHANGED sinkVars

OutletsNext ==
  /\ \/ HandleTelemetry
     \/ SinkStep /\ UNCHANGED dashVars
     \/ Outward
     \/ Predict
  /\ UNCHANGED deployment

OutletsSpec == OutletsInit /\ [][OutletsNext]_outletVars /\ SinkFairness
=============================================================================
