-------------------------- MODULE OrchestratorSafety --------------------------
(***************************************************************************)
(* The types of the orchestrator, its inductive invariant and what follows *)
(* from it.                                                                *)
(***************************************************************************)
EXTENDS Orchestrator, FiniteSetTheorems, TLAPS

(* Facts of the constants that nearly every step uses.                      *)
LEMMA TaskNames ==
  /\ "loop" \in Task /\ "sweeper" \in Task /\ "injector" \in Task
  /\ ApiTask \subseteq Task
  /\ None \notin Emergency
BY OrchestratorAssumption DEF Task, OrchestratorAssumption

(* A dispatch takes known vehicles only and leaves the variables it writes  *)
(* well-typed.                                                              *)
LEMMA ProcessTypes ==
  ASSUME TypeOK, NEW t \in Task, NEW e \in Emergency,
         NEW st \in [Vehicle -> OperationalStatus], NEW al, Process(t, e, st, al)
  PROVE  /\ status' \in [Vehicle -> OperationalStatus]
         /\ cur' \in [Vehicle -> Emergency \cup {None}]
         /\ phase' \in [Emergency -> {"UNREPORTED"} \cup Active \cup Closed]
         /\ units' \in [Emergency -> SUBSET Vehicle]
         /\ acked' \in [Emergency -> SUBSET Vehicle]
         /\ arrived' \in [Emergency -> SUBSET Vehicle]
         /\ op' \in [Task -> Await]
<1>1. PICK S \in Selection(e, AvailableIn(st, al)) :
        /\ status' = [v \in Vehicle |-> IF v \in S THEN "EN_ROUTE" ELSE st[v]]
        /\ cur' = [v \in Vehicle |-> IF v \in S THEN e ELSE cur[v]]
        /\ phase' = [phase EXCEPT ![e] = IF S = {} THEN "DISPATCHING" ELSE "DISPATCHED"]
        /\ units' = [units EXCEPT ![e] = S]
        /\ acked' = [acked EXCEPT ![e] = {}]
        /\ arrived' = [arrived EXCEPT ![e] = {}]
        /\ Suspend(t, "dispatched", e, S)
  BY DEF Process
<1>2. S \subseteq Vehicle
  BY DEF Selection, AvailableIn, TypeOK
<1>3. [at |-> "dispatched", e |-> e, vs |-> S] \in Await
  BY <1>2 DEF Await
<1> QED
  BY <1>1, <1>2, <1>3 DEF TypeOK, OperationalStatus, Active, Suspend

(* So does a closure.                                                       *)
LEMMA CloseTypes ==
  ASSUME TypeOK, NEW t \in Task, NEW e \in Emergency,
         NEW outcome \in {"RESOLVED", "DISMISSED"},
         NEW ph \in [Emergency -> {"UNREPORTED"} \cup Active \cup Closed],
         NEW st \in [Vehicle -> OperationalStatus],
         Close(t, e, outcome, ph, st)
  PROVE  /\ status' \in [Vehicle -> OperationalStatus]
         /\ cur' \in [Vehicle -> Emergency \cup {None}]
         /\ phase' \in [Emergency -> {"UNREPORTED"} \cup Active \cup Closed]
         /\ op' \in [Task -> Await]
<1>1. [at |-> outcome, e |-> e, vs |-> Crew(e)] \in Await
  BY DEF Await, Crew
<1> QED
  BY <1>1 DEF Close, TypeOK, OperationalStatus, Closed, Suspend

(* A task that returns to idle leaves the awaits well-typed.                *)
LEMMA ReturnTypes ==
  ASSUME TypeOK, NEW t \in Task, Return(t)
  PROVE  op' \in [Task -> Await]
BY DEF TypeOK, Return, Idle, Await

-----------------------------------------------------------------------------

(* The initial state is well-typed.                                         *)
LEMMA InitTypes == Init => TypeOK
BY OrchestratorAssumption
   DEF Init, TypeOK, OrchestratorAssumption, OperationalStatus, Idle, Await

(* Every message handler of the loop keeps the state well-typed.            *)
LEMMA MessageTypes ==
  ASSUME TypeOK, HandleMessage
  PROVE  TypeOK'
<1> USE TaskNames, OrchestratorAssumption DEF OrchestratorAssumption
<1>1. ASSUME NEW v \in Vehicle, NEW st \in Reportable, HandleRegistration(v, st)
      PROVE  TypeOK'
  BY <1>1 DEF HandleRegistration, TypeOK, recordVars, listVars
<1>2. ASSUME NEW v \in Vehicle, NEW st \in Reportable, HandleTelemetry(v, st)
      PROVE  TypeOK'
  <2> DEFINE seen == [status EXCEPT ![v] = st]
  <2>1. seen \in [Vehicle -> OperationalStatus]
    BY DEF TypeOK
  <2>2. /\ known' \subseteq Vehicle
        /\ located' \subseteq known'
        /\ alert' \subseteq known'
        /\ UNCHANGED <<alert, units, acked, mode, listVars>>
    BY <1>2 DEF HandleTelemetry, TypeOK
  <2>3. ASSUME OnScene(v, cur[v], seen), cur[v] # None
        PROVE  /\ status' \in [Vehicle -> OperationalStatus]
               /\ cur' \in [Vehicle -> Emergency \cup {None}]
               /\ phase' \in [Emergency -> {"UNREPORTED"} \cup Active \cup Closed]
               /\ done' \in [Emergency -> 0..CoordinationTasks]
               /\ arrived' \in [Emergency -> SUBSET Vehicle]
               /\ op' \in [Task -> Await]
    <3> DEFINE e == cur[v]
    <3>1. e \in Emergency
      BY <2>3 DEF TypeOK
    <3>2. Started(e) \in [Emergency -> {"UNREPORTED"} \cup Active \cup Closed]
      BY <3>1 DEF Started, TypeOK, Active
    <3>3. arrived' \in [Emergency -> SUBSET Vehicle]
      BY <2>3, <3>1 DEF OnScene, RecordedArrival, TypeOK
    <3>4. CASE done[e] = CoordinationTasks
      <4>1. Close("loop", e, "RESOLVED", Started(e), seen) /\ UNCHANGED done
        BY <2>3, <3>4 DEF OnScene
      <4> QED
        BY <2>1, <3>1, <3>2, <3>3, <4>1, CloseTypes DEF TypeOK
    <3>5. CASE done[e] # CoordinationTasks
      <4>1. [at |-> "task_done", e |-> e, vs |-> {}] \in Await
        BY <3>1 DEF Await
      <4>2. done[e] \in 0..CoordinationTasks
        BY <3>1 DEF TypeOK
      <4>3. done[e] + 1 \in 0..CoordinationTasks
        BY <3>5, <4>2
      <4>4. /\ status' = seen
            /\ phase' = Started(e)
            /\ UNCHANGED cur
            /\ \/ /\ done' = [done EXCEPT ![e] = @ + 1]
                  /\ Suspend("loop", "task_done", e, {})
               \/ UNCHANGED <<done, op>>
        BY <2>3, <3>5 DEF OnScene
      <4>5. done' \in [Emergency -> 0..CoordinationTasks]
        BY <3>1, <4>3, <4>4 DEF TypeOK
      <4>6. op' \in [Task -> Await]
        BY <4>1, <4>4 DEF Suspend, TypeOK
      <4>7. status' = seen /\ phase' = Started(e) /\ cur' = cur
        BY <4>4
      <4>8. cur' \in [Vehicle -> Emergency \cup {None}]
        BY <4>7 DEF TypeOK
      <4> QED
        BY <2>1, <3>2, <3>3, <4>5, <4>6, <4>7, <4>8
    <3> QED
      BY <3>4, <3>5
  <2>4. CASE st = "ON_SCENE" /\ cur[v] # None
    BY <1>2, <2>2, <2>3, <2>4 DEF HandleTelemetry, TypeOK, listVars
  <2>5. CASE ~(st = "ON_SCENE" /\ cur[v] # None)
    BY <1>2, <2>1, <2>2, <2>5 DEF HandleTelemetry, TypeOK, listVars
  <2> QED
    BY <2>4, <2>5
<1>3. ASSUME NEW v \in Vehicle, HandleAlert(v)
      PROVE  TypeOK'
  BY <1>3 DEF HandleAlert, TypeOK, missionVars, recordVars, listVars
<1>4. ASSUME NEW v \in Vehicle, HandleAlertCleared(v)
      PROVE  TypeOK'
  <2>1. Cleared(v) \in [Vehicle -> OperationalStatus]
    BY DEF Cleared, TypeOK, OperationalStatus
  <2>2. CASE DispatchingEmergencies = {}
    BY <1>4, <2>1, <2>2 DEF HandleAlertCleared, RetryNext, TypeOK, recordVars
  <2>3. CASE DispatchingEmergencies # {}
    <3>1. PICK e \in DispatchingEmergencies :
            /\ Process("loop", e, Cleared(v), alert')
            /\ waiting' = DispatchingEmergencies \ {e}
      BY <1>4, <2>3 DEF HandleAlertCleared, RetryNext
    <3> QED
      BY <1>4, <2>1, <3>1, ProcessTypes
         DEF HandleAlertCleared, DispatchingEmergencies, TypeOK
  <2> QED
    BY <2>2, <2>3
<1>5. ASSUME NEW e \in Emergency, NEW v \in Vehicle, HandleDispatchAck(e, v)
      PROVE  TypeOK'
  BY <1>5 DEF HandleDispatchAck, TypeOK, fleetVars, missionVars, listVars
<1> QED
  BY <1>1, <1>2, <1>3, <1>4, <1>5 DEF HandleMessage

(* So does every other step of the loop and of the other tasks.             *)
LEMMA TaskTypes ==
  ASSUME TypeOK, NEW t \in Task, Resume(t)
  PROVE  TypeOK'
<1> USE TaskNames
<1>1. ASSUME DispatchPersisted(t) PROVE TypeOK'
  <2>1. [op EXCEPT ![t].at = "commanding"] \in [Task -> Await]
    <3>1. op[t].e \in Emergency /\ op[t].vs \in SUBSET Vehicle
      BY <1>1 DEF DispatchPersisted, TypeOK, Await, Idle
    <3>2. [op[t] EXCEPT !.at = "commanding"] \in Await
      BY <1>1, <3>1 DEF DispatchPersisted, TypeOK, Await, Idle
    <3> QED
      BY <3>2 DEF TypeOK
  <2>2. op' \in [Task -> Await]
    BY <1>1, <2>1, ReturnTypes DEF DispatchPersisted
  <2> QED
    BY <1>1, <2>2
       DEF DispatchPersisted, TypeOK, fleetVars, missionVars, recordVars, listVars
<1>2. ASSUME NEW v \in Vehicle, PublishCommand(t, v) PROVE TypeOK'
  <2>1. [op EXCEPT ![t].vs = @ \ {v}] \in [Task -> Await]
    <3>1. op[t].e \in Emergency /\ op[t].vs \in SUBSET Vehicle
      BY <1>2 DEF PublishCommand, TypeOK, Await, Idle
    <3>2. [op[t] EXCEPT !.vs = @ \ {v}] \in Await
      BY <1>2, <3>1 DEF PublishCommand, TypeOK, Await, Idle
    <3> QED
      BY <3>2 DEF TypeOK
  <2>2. op' \in [Task -> Await]
    BY <1>2, <2>1, ReturnTypes DEF PublishCommand
  <2> QED
    BY <1>2, <2>2
       DEF PublishCommand, TypeOK, fleetVars, missionVars, recordVars, listVars
<1>3. ASSUME PublishClosure(t) PROVE TypeOK'
  BY <1>3, ReturnTypes
     DEF PublishClosure, TypeOK, fleetVars, missionVars, recordVars, listVars
<1> QED
  BY <1>1, <1>2, <1>3 DEF Resume

(* The message loop resumes after its awaits: _progress_coordination_tasks  *)
(* and _retry_dispatching_emergencies.                                      *)
LEMMA LoopTypes ==
  ASSUME TypeOK, TaskPersisted \/ ContinueRetry
  PROVE  TypeOK'
<1> USE TaskNames
<1>1. ASSUME TaskPersisted PROVE TypeOK'
  <2> DEFINE e == op["loop"].e
  <2>1. CASE done[e] = CoordinationTasks
    <3>1. Close("loop", e, "RESOLVED", phase, status)
      BY <1>1, <2>1 DEF TaskPersisted
    <3>2. e \in Emergency
      BY <1>1 DEF TaskPersisted, TypeOK, Await, Idle
    <3> QED
      BY <1>1, <3>1, <3>2, CloseTypes
         DEF TaskPersisted, TypeOK, fleetVars, recordVars, listVars
  <2>2. CASE done[e] # CoordinationTasks
    BY <1>1, <2>2, ReturnTypes
       DEF TaskPersisted, TypeOK, fleetVars, missionVars, recordVars, listVars
  <2> QED
    BY <2>1, <2>2
<1>2. ASSUME ContinueRetry PROVE TypeOK'
  <2>1. PICK e \in waiting : /\ Process("loop", e, status, alert)
                            /\ waiting' = waiting \ {e}
    BY <1>2 DEF ContinueRetry, RetryNext
  <2>2. e \in Emergency
    BY DEF TypeOK
  <2> QED
    BY <1>2, <2>1, <2>2, ProcessTypes DEF ContinueRetry, TypeOK, fleetVars
<1> QED
  BY <1>1, <1>2

(* The HTTP handlers and the injector.                                      *)
LEMMA RequestTypes ==
  ASSUME TypeOK, NEW e \in Emergency,
         \/ \E t \in ApiTask : CreateEmergency(t, e) \/ ResolveRequest(t, e)
         \/ InjectCrime(e)
         \/ DismissStaleHistorical(e)
  PROVE  TypeOK'
<1> USE TaskNames
<1>1. ASSUME NEW t \in ApiTask, CreateEmergency(t, e) PROVE TypeOK'
  BY <1>1, ProcessTypes DEF CreateEmergency, TypeOK, fleetVars, listVars
<1>2. ASSUME NEW t \in ApiTask, ResolveRequest(t, e) PROVE TypeOK'
  BY <1>2, CloseTypes DEF ResolveRequest, TypeOK, fleetVars, recordVars, listVars
<1>3. ASSUME InjectCrime(e) PROVE TypeOK'
  BY <1>3, ProcessTypes DEF InjectCrime, TypeOK, fleetVars, listVars
<1>4. ASSUME DismissStaleHistorical(e) PROVE TypeOK'
  BY <1>4, CloseTypes DEF DismissStaleHistorical, TypeOK, fleetVars, recordVars, listVars
<1> QED
  BY <1>1, <1>2, <1>3, <1>4

(* The rounds of the sweeper: what SweepNext writes, from lists of          *)
(* emergencies.                                                             *)
LEMMA SweepTypes ==
  ASSUME TypeOK, NEW res \in SUBSET Emergency, NEW dis \in SUBSET Emergency,
         NEW ph \in [Emergency -> {"UNREPORTED"} \cup Active \cup Closed],
         SweepNext(res, dis, ph),
         UNCHANGED <<fleetVars, done, recordVars, mode, waiting>>
  PROVE  TypeOK'
<1>1. CASE res \cup dis = {}
  BY <1>1 DEF SweepNext, TypeOK, fleetVars, recordVars
<1>2. CASE res \cup dis # {}
  <2> DEFINE outcome == IF res # {} THEN "RESOLVED" ELSE "DISMISSED"
  <2>1. PICK e \in IF res # {} THEN res ELSE dis :
          /\ Close("sweeper", e, outcome, ph, status)
          /\ toResolve' = res \ {e}
          /\ toDismiss' = IF res # {} THEN dis ELSE dis \ {e}
    BY <1>2 DEF SweepNext
  <2>2. e \in Emergency /\ outcome \in {"RESOLVED", "DISMISSED"}
    OBVIOUS
  <2>3. status \in [Vehicle -> OperationalStatus]
    BY DEF TypeOK
  <2>4. /\ status' \in [Vehicle -> OperationalStatus]
        /\ cur' \in [Vehicle -> Emergency \cup {None}]
        /\ phase' \in [Emergency -> {"UNREPORTED"} \cup Active \cup Closed]
        /\ op' \in [Task -> Await]
    <3> HIDE DEF outcome
    <3> QED
      BY <2>1, <2>2, <2>3, TaskNames, CloseTypes
  <2> QED
    BY <2>1, <2>4 DEF TypeOK, fleetVars, recordVars
<1> QED
  BY <1>1, <1>2

(* A round of _emergency_sweeper and what follows each of its awaits.       *)
LEMMA SweeperTypes ==
  ASSUME TypeOK, ContinueSweep \/ \E e \in Emergency : SweepRound(e)
  PROVE  TypeOK'
<1>1. CASE ContinueSweep
  BY <1>1, SweepTypes DEF ContinueSweep, TypeOK
<1>2. CASE \E e \in Emergency : SweepRound(e)
  <2>1. PICK due \in SUBSET Sweepable :
          \E overMax \in SUBSET due : Sweep(due, overMax)
    BY <1>2 DEF SweepRound
  <2>2. PICK overMax \in SUBSET due : Sweep(due, overMax)
    BY <2>1
  <2> DEFINE started == {e \in due : phase[e] = "IN_PROGRESS"}
             stalled == {e \in due : phase[e] = "DISPATCHED"}
  <2>3. /\ SweepNext(started \ overMax, stalled \cup overMax, Timeouts(due))
        /\ UNCHANGED <<fleetVars, done, recordVars, mode, waiting>>
    BY <2>2 DEF Sweep
  <2>4. /\ started \ overMax \in SUBSET Emergency
        /\ stalled \cup overMax \in SUBSET Emergency
    BY DEF Sweepable
  <2>5. Timeouts(due) \in [Emergency -> {"UNREPORTED"} \cup Active \cup Closed]
    BY DEF Timeouts, TypeOK, Closed
  <2> QED
    BY <2>3, <2>4, <2>5, SweepTypes
<1> QED
  BY <1>1, <1>2

(* OrchestratorAgent.start and stop.                                        *)
LEMMA StartStopTypes ==
  ASSUME TypeOK, Start \/ Stop
  PROVE  TypeOK'
<1>1. CASE Start
  BY <1>1 DEF Start, TypeOK, fleetVars, missionVars, recordVars, listVars
<1>2. CASE Stop
  BY <1>2 DEF Stop, TypeOK, Await, fleetVars, missionVars, recordVars
<1> QED
  BY <1>1, <1>2

(* A step that changes nothing.                                             *)
LEMMA StutterTypes == ASSUME TypeOK, UNCHANGED vars PROVE TypeOK'
BY DEF TypeOK, vars

(* Every step of the orchestrator keeps the types.                          *)
LEMMA NextTypes == ASSUME TypeOK, [Next]_vars PROVE TypeOK'
BY MessageTypes, TaskTypes, LoopTypes, RequestTypes, SweeperTypes,
   StartStopTypes, StutterTypes
   DEF Next

(* Type correctness of the orchestrator, whatever messages the vehicles     *)
(* send and however its tasks interleave.                                   *)
THEOREM TypeCorrect == Spec => []TypeOK
BY NextTypes, InitTypes, PTL DEF Spec

-----------------------------------------------------------------------------
(* The records.                                                             *)

(* Whatever a task awaits or still has in its lists has been reported.      *)
TasksNameReported ==
  /\ \A t \in Task : op[t].at # "idle" => phase[op[t].e] # "UNREPORTED"
  /\ \A e \in toResolve \cup toDismiss : phase[e] # "UNREPORTED"

Records ==
  /\ HeldIsListed
  /\ ProgressIsEarned
  /\ CommandsMatchRecord
  /\ WaitingHasNoUnits
  /\ TasksNameReported

(* The properties are inductive together: a stale retry list is harmless    *)
(* because nothing in it has units, and a record is only replaced while it  *)
(* is empty, so commands, arrivals and held vehicles stay those of it.      *)
IInv == TypeOK /\ Records

(* Counting arrivals: a set of vehicles is finite and counts no more than a *)
(* larger one.                                                              *)
LEMMA Counting ==
  ASSUME NEW A, NEW B, B \subseteq Vehicle, A \subseteq B
  PROVE  Cardinality(A) \in Nat /\ Cardinality(B) \in Nat
           /\ Cardinality(A) <= Cardinality(B)
<1>1. IsFiniteSet(Vehicle)
  BY OrchestratorAssumption DEF OrchestratorAssumption
<1>2. IsFiniteSet(B)
  BY <1>1, FS_Subset
<1>3. IsFiniteSet(A) /\ Cardinality(A) <= Cardinality(B)
  BY <1>2, FS_Subset
<1> QED
  BY <1>2, <1>3, FS_CardinalityType

(* _progress_coordination_tasks waits for one arrival at least.             *)
LEMMA ThresholdPositive ==
  ASSUME TypeOK, NEW e \in Emergency
  PROVE  Threshold(e) \in Nat /\ Threshold(e) >= 1
<1>1. Cardinality(units[e]) \in Nat
  BY Counting DEF TypeOK
<1> QED
  BY <1>1, OrchestratorAssumption DEF Threshold, OrchestratorAssumption

-----------------------------------------------------------------------------
(* The two operations that every handler is made of.                        *)

(* What Process writes.                                                     *)
Dispatched(t, e, S) ==
  /\ cur' = [v \in Vehicle |-> IF v \in S THEN e ELSE cur[v]]
  /\ phase' = [phase EXCEPT ![e] = IF S = {} THEN "DISPATCHING" ELSE "DISPATCHED"]
  /\ units' = [units EXCEPT ![e] = S]
  /\ acked' = [acked EXCEPT ![e] = {}]
  /\ arrived' = [arrived EXCEPT ![e] = {}]
  /\ op' = [op EXCEPT ![t] = [at |-> "dispatched", e |-> e, vs |-> S]]

(* process_emergency records some set of vehicles as the units, and gives   *)
(* exactly them the emergency.                                              *)
LEMMA ProcessDispatches ==
  ASSUME TypeOK, NEW t, NEW e, NEW st, NEW al, Process(t, e, st, al)
  PROVE  \E S \in SUBSET Vehicle : Dispatched(t, e, S)
BY DEF Process, Dispatched, Selection, AvailableIn, TypeOK, Suspend

(* Dispatching an emergency that has no units yet.                          *)
LEMMA DispatchKeepsRecords ==
  ASSUME IInv, NEW t \in Task, NEW e \in Emergency, NEW S \in SUBSET Vehicle,
         Dispatched(t, e, S),
         phase[e] \notin {"DISPATCHED", "IN_PROGRESS"},
         Undispatched(e),
         UNCHANGED <<done, toResolve, toDismiss>>,
         waiting' \subseteq Emergency \ {e},
         \A x \in waiting' : phase[x] \in {"DISPATCHING"} \cup Closed /\ Undispatched(x)
  PROVE  Records'
<1> USE DEF IInv, Records, Dispatched
<1>1. \A x \in Emergency \ {e} :
        /\ phase'[x] = phase[x]
        /\ units'[x] = units[x]
        /\ acked'[x] = acked[x]
        /\ arrived'[x] = arrived[x]
        /\ done'[x] = done[x]
  BY DEF TypeOK
<1>2. /\ phase'[e] = IF S = {} THEN "DISPATCHING" ELSE "DISPATCHED"
      /\ units'[e] = S
      /\ acked'[e] = {}
      /\ arrived'[e] = {}
      /\ done'[e] = 0
  BY DEF TypeOK, Undispatched
<1>3. HeldIsListed'
  <2> SUFFICES ASSUME NEW v \in Vehicle, cur'[v] # None
               PROVE  /\ phase'[cur'[v]] \in {"DISPATCHED", "IN_PROGRESS"}
                      /\ v \in units'[cur'[v]]
    BY DEF HeldIsListed
  <2>1. CASE v \in S
    BY <1>2, <2>1
  <2>2. CASE v \notin S
    <3>1. cur'[v] = cur[v] /\ cur[v] \in Emergency
      BY <2>2 DEF TypeOK
    <3>2. cur[v] # e
      BY <3>1 DEF HeldIsListed
    <3> QED
      BY <1>1, <3>1, <3>2 DEF HeldIsListed
  <2> QED
    BY <2>1, <2>2
<1>4. ProgressIsEarned'
  <2> SUFFICES ASSUME NEW x \in Emergency
               PROVE  /\ phase'[x] = "IN_PROGRESS" => arrived'[x] # {}
                      /\ done'[x] > 0 => Cardinality(arrived'[x]) >= Threshold(x)'
    BY DEF ProgressIsEarned
  <2>1. CASE x = e
    BY <1>2, <2>1
  <2>2. CASE x # e
    <3>1. Threshold(x)' = Threshold(x)
      BY <1>1, <2>2 DEF Threshold
    <3> QED
      BY <1>1, <2>2, <3>1 DEF ProgressIsEarned
  <2> QED
    BY <2>1, <2>2
<1>5. CommandsMatchRecord'
  <2>1. \A x \in Task : op'[x].at \in {"dispatched", "commanding"} =>
                          op'[x].vs \subseteq units'[op'[x].e]
    <3> SUFFICES ASSUME NEW x \in Task, op'[x].at \in {"dispatched", "commanding"}
                 PROVE  op'[x].vs \subseteq units'[op'[x].e]
      OBVIOUS
    <3>1. CASE x = t
      BY <1>2, <3>1 DEF TypeOK
    <3>2. CASE x # t
      <4>1. op'[x] = op[x] /\ op[x].e \in Emergency
        BY <3>2 DEF TypeOK, Await, Idle
      <4>2. op[x].vs \subseteq units[op[x].e]
        BY <4>1 DEF CommandsMatchRecord
      <4> QED
        BY <1>1, <1>2, <4>1, <4>2 DEF Undispatched
    <3> QED
      BY <3>1, <3>2
  <2>2. \A x \in Emergency : acked'[x] \cup arrived'[x] \subseteq units'[x]
    BY <1>1, <1>2 DEF CommandsMatchRecord
  <2> QED
    BY <2>1, <2>2 DEF CommandsMatchRecord
<1>6. WaitingHasNoUnits'
  <2>1. \A x \in Emergency \ {e} : Undispatched(x)' <=> Undispatched(x)
    BY <1>1 DEF Undispatched
  <2>2. phase'[e] = "DISPATCHING" => Undispatched(e)'
    BY <1>2 DEF Undispatched
  <2> QED
    BY <1>1, <1>2, <2>1, <2>2 DEF WaitingHasNoUnits
<1>7. TasksNameReported'
  <2>1. \A x \in Emergency : phase[x] # "UNREPORTED" => phase'[x] # "UNREPORTED"
    BY <1>1, <1>2
  <2>2. ASSUME NEW x \in Task, op'[x].at # "idle"
        PROVE  phase'[op'[x].e] # "UNREPORTED"
    <3>1. CASE x = t
      BY <1>2, <3>1 DEF TypeOK
    <3>2. CASE x # t
      <4>1. op'[x] = op[x] /\ op[x].e \in Emergency
        BY <2>2, <3>2 DEF TypeOK, Await, Idle
      <4> QED
        BY <2>1, <2>2, <4>1 DEF TasksNameReported
    <3> QED
      BY <3>1, <3>2
  <2>3. \A x \in toResolve' \cup toDismiss' : phase'[x] # "UNREPORTED"
    BY <2>1 DEF TasksNameReported, TypeOK
  <2> QED
    BY <2>2, <2>3 DEF TasksNameReported
<1> QED
  BY <1>3, <1>4, <1>5, <1>6, <1>7

(* Closing a reported emergency, while arrivals may be added, other waiting *)
(* emergencies cancelled and lists shortened.                               *)
LEMMA CloseKeepsRecords ==
  ASSUME IInv, NEW t \in Task, NEW e \in Emergency,
         NEW outcome \in {"RESOLVED", "DISMISSED"}, NEW ph, NEW st,
         Close(t, e, outcome, ph, st),
         ph \in [Emergency -> {"UNREPORTED"} \cup Active \cup Closed],
         phase[e] # "UNREPORTED",
         \A x \in Emergency \ {e} :
           ph[x] = phase[x] \/ (phase[x] = "DISPATCHING" /\ ph[x] = "CANCELLED"),
         arrived' \in [Emergency -> SUBSET Vehicle],
         \A x \in Emergency : arrived[x] \subseteq arrived'[x]
                                /\ arrived'[x] \subseteq units[x],
         UNCHANGED <<done, units, acked>>,
         waiting' \subseteq waiting,
         \A x \in toResolve' \cup toDismiss' :
           x \in Emergency /\ phase[x] # "UNREPORTED"
  PROVE  Records'
<1> USE DEF IInv, Records
<1>1. /\ phase' = [ph EXCEPT ![e] = outcome]
      /\ cur' = [v \in Vehicle |-> IF v \in Crew(e) THEN None ELSE cur[v]]
      /\ op' = [op EXCEPT ![t] = [at |-> outcome, e |-> e, vs |-> Crew(e)]]
  BY DEF Close, Suspend
<1>2. /\ phase'[e] = outcome
      /\ \A x \in Emergency \ {e} :
           \/ phase'[x] = phase[x]
           \/ phase[x] = "DISPATCHING" /\ phase'[x] = "CANCELLED"
  BY <1>1
<1>3. HeldIsListed'
  <2> SUFFICES ASSUME NEW v \in Vehicle, cur'[v] # None
               PROVE  /\ phase'[cur'[v]] \in {"DISPATCHED", "IN_PROGRESS"}
                      /\ v \in units'[cur'[v]]
    BY DEF HeldIsListed
  <2>1. cur'[v] = cur[v] /\ cur[v] \in Emergency \ {e}
    BY <1>1 DEF Crew, TypeOK
  <2> QED
    BY <1>2, <2>1 DEF HeldIsListed
<1>4. ProgressIsEarned'
  <2> SUFFICES ASSUME NEW x \in Emergency
               PROVE  /\ phase'[x] = "IN_PROGRESS" => arrived'[x] # {}
                      /\ done'[x] > 0 => Cardinality(arrived'[x]) >= Threshold(x)'
    BY DEF ProgressIsEarned
  <2>1. Threshold(x)' = Threshold(x) /\ Threshold(x) \in Nat
    BY ThresholdPositive DEF Threshold
  <2>2. /\ Cardinality(arrived[x]) \in Nat
        /\ Cardinality(arrived'[x]) \in Nat
        /\ Cardinality(arrived[x]) <= Cardinality(arrived'[x])
    BY Counting
  <2>3. phase'[x] = "IN_PROGRESS" => phase[x] = "IN_PROGRESS"
    BY <1>2
  <2>4. done'[x] > 0 => Cardinality(arrived[x]) >= Threshold(x)
    BY DEF ProgressIsEarned
  <2> QED
    BY <2>1, <2>2, <2>3, <2>4 DEF ProgressIsEarned
<1>5. CommandsMatchRecord'
  <2>1. ASSUME NEW x \in Task, op'[x].at \in {"dispatched", "commanding"}
        PROVE  op'[x].vs \subseteq units'[op'[x].e]
    <3>1. x # t
      BY <1>1, <2>1 DEF TypeOK
    <3>2. op'[x] = op[x]
      BY <1>1, <3>1 DEF TypeOK
    <3> QED
      BY <2>1, <3>2 DEF CommandsMatchRecord
  <2>2. \A x \in Emergency : acked'[x] \cup arrived'[x] \subseteq units'[x]
    BY DEF CommandsMatchRecord
  <2> QED
    BY <2>1, <2>2 DEF CommandsMatchRecord
<1>6. WaitingHasNoUnits'
  <2>1. \A x \in Emergency : Undispatched(x) => Undispatched(x)'
    BY DEF Undispatched
  <2>2. \A x \in waiting : x \in Emergency
    BY DEF TypeOK
  <2>3. \A x \in Emergency : phase[x] \in {"DISPATCHING"} \cup Closed
                               => phase'[x] \in {"DISPATCHING"} \cup Closed
    BY <1>2 DEF Closed
  <2> QED
    BY <1>2, <2>1, <2>2, <2>3 DEF WaitingHasNoUnits
<1>7. TasksNameReported'
  <2>1. \A x \in Emergency : phase[x] # "UNREPORTED" => phase'[x] # "UNREPORTED"
    BY <1>2
  <2>2. ASSUME NEW x \in Task, op'[x].at # "idle"
        PROVE  phase'[op'[x].e] # "UNREPORTED"
    <3>1. CASE x = t
      BY <1>1, <1>2, <3>1 DEF TypeOK
    <3>2. CASE x # t
      <4>1. op'[x] = op[x] /\ op[x].e \in Emergency
        BY <1>1, <2>2, <3>2 DEF TypeOK, Await, Idle
      <4> QED
        BY <2>1, <2>2, <4>1 DEF TasksNameReported
    <3> QED
      BY <3>1, <3>2
  <2> QED
    BY <2>1, <2>2 DEF TasksNameReported
<1> QED
  BY <1>3, <1>4, <1>5, <1>6, <1>7

-----------------------------------------------------------------------------
(* The steps.                                                               *)

(* The records agree at the start: there are none.                          *)
LEMMA InitRecords == Init => Records
<1> SUFFICES ASSUME Init PROVE Records
  OBVIOUS
<1>1. HeldIsListed
  BY DEF Init, HeldIsListed
<1>2. ProgressIsEarned
  BY DEF Init, ProgressIsEarned
<1>3. CommandsMatchRecord
  BY DEF Init, CommandsMatchRecord, Idle
<1>4. WaitingHasNoUnits
  BY DEF Init, WaitingHasNoUnits, Undispatched
<1>5. TasksNameReported
  BY DEF Init, TasksNameReported, Idle
<1> QED
  BY <1>1, <1>2, <1>3, <1>4, <1>5 DEF Records

(* A step that touches no phase, record or list, and only the await of one  *)
(* task, which it shortens, ends or renames.                                *)
LEMMA AwaitKeepsRecords ==
  ASSUME IInv, NEW t \in Task,
         UNCHANGED <<cur, phase, done, recordVars, listVars>>,
         \A x \in Task \ {t} : op'[x] = op[x],
         \/ op'[t] = op[t]
         \/ op'[t].at = "idle"
         \/ /\ op'[t].at = "commanding"
            /\ op[t].at \in {"dispatched", "commanding"}
            /\ op'[t].e = op[t].e
            /\ op'[t].vs \subseteq op[t].vs
         \/ op'[t].at = "task_done" /\ phase[op'[t].e] # "UNREPORTED"
  PROVE  Records'
<1> USE DEF IInv, Records, recordVars, listVars
<1>1. HeldIsListed'
  BY DEF HeldIsListed
<1>2. ProgressIsEarned'
  BY DEF ProgressIsEarned, Threshold
<1>3. CommandsMatchRecord'
  <2>1. ASSUME NEW x \in Task, op'[x].at \in {"dispatched", "commanding"}
        PROVE  op'[x].vs \subseteq units'[op'[x].e]
    <3>1. CASE op'[x] = op[x]
      BY <2>1, <3>1 DEF CommandsMatchRecord
    <3>2. CASE op'[x] # op[x]
      <4>1. /\ x = t
            /\ op[t].at \in {"dispatched", "commanding"}
            /\ op'[t].e = op[t].e
            /\ op'[t].vs \subseteq op[t].vs
        BY <2>1, <3>2
      <4> QED
        BY <4>1 DEF CommandsMatchRecord
    <3> QED
      BY <3>1, <3>2
  <2> QED
    BY <2>1 DEF CommandsMatchRecord
<1>4. WaitingHasNoUnits'
  BY DEF WaitingHasNoUnits, Undispatched
<1>5. TasksNameReported'
  <2>1. ASSUME NEW x \in Task, op'[x].at # "idle"
        PROVE  phase'[op'[x].e] # "UNREPORTED"
    <3>1. CASE op'[x] = op[x]
      BY <2>1, <3>1 DEF TasksNameReported
    <3>2. CASE op'[x] # op[x]
      BY <2>1, <3>2 DEF TasksNameReported
    <3> QED
      BY <3>1, <3>2
  <2> QED
    BY <2>1 DEF TasksNameReported
<1> QED
  BY <1>1, <1>2, <1>3, <1>4, <1>5

(* A report of a unit that is on scene.                                     *)
LEMMA OnSceneKeepsRecords ==
  ASSUME IInv, NEW v \in Vehicle, cur[v] # None, NEW seen,
         OnScene(v, cur[v], seen),
         UNCHANGED <<units, acked, listVars>>, waiting = {},
         TypeOK'
  PROVE  Records'
<1> USE TaskNames DEF IInv, Records
<1> DEFINE e == cur[v]
<1>1. /\ e \in Emergency
      /\ phase[e] \in {"DISPATCHED", "IN_PROGRESS"}
      /\ v \in units[e]
  BY DEF TypeOK, HeldIsListed
<1>2. /\ arrived' = [arrived EXCEPT ![e] = @ \cup {v}]
      /\ arrived' \in [Emergency -> SUBSET Vehicle]
      /\ \A x \in Emergency : arrived[x] \subseteq arrived'[x]
                                /\ arrived'[x] \subseteq units[x]
  BY <1>1 DEF OnScene, RecordedArrival, TypeOK, CommandsMatchRecord
<1>3. /\ Started(e) \in [Emergency -> {"UNREPORTED"} \cup Active \cup Closed]
      /\ Started(e)[e] = "IN_PROGRESS"
      /\ \A x \in Emergency \ {e} : Started(e)[x] = phase[x]
  BY <1>1 DEF Started, TypeOK, Active
<1>4. CASE done[e] = CoordinationTasks
  <2>1. Close("loop", e, "RESOLVED", Started(e), seen) /\ UNCHANGED done
    BY <1>4 DEF OnScene
  <2>2. \A x \in toResolve' \cup toDismiss' : x \in Emergency /\ phase[x] # "UNREPORTED"
    BY DEF TypeOK, TasksNameReported, listVars
  <2> HIDE DEF e
  <2>3. phase[e] # "UNREPORTED"
    BY <1>1
  <2>4. waiting' \subseteq waiting
    BY DEF listVars
  <2>5. UNCHANGED <<done, units, acked>>
    BY <2>1
  <2>6. \A x \in Emergency : arrived[x] \subseteq arrived'[x]
                                /\ arrived'[x] \subseteq units[x]
    BY <1>2
  <2>7. arrived' \in [Emergency -> SUBSET Vehicle]
    BY <1>2
  <2>8. \A x \in Emergency \ {e} :
          Started(e)[x] = phase[x]
            \/ (phase[x] = "DISPATCHING" /\ Started(e)[x] = "CANCELLED")
    BY <1>3
  <2>9. Started(e) \in [Emergency -> {"UNREPORTED"} \cup Active \cup Closed]
    BY <1>3
  <2>10. e \in Emergency
    BY <1>1
  <2> QED
    BY <2>1, <2>2, <2>3, <2>4, <2>5, <2>6, <2>7, <2>8, <2>9, <2>10, CloseKeepsRecords
<1>5. CASE done[e] # CoordinationTasks
  <2>1. /\ phase' = Started(e)
        /\ UNCHANGED cur
        /\ \/ /\ Cardinality(arrived'[e]) >= Threshold(e)
              /\ done' = [done EXCEPT ![e] = @ + 1]
              /\ op' = [op EXCEPT !["loop"] = [at |-> "task_done", e |-> e, vs |-> {}]]
           \/ UNCHANGED <<done, op>>
    BY <1>5 DEF OnScene, Suspend
  <2>2. HeldIsListed'
    BY <1>1, <1>3, <2>1 DEF HeldIsListed, TypeOK
  <2>3. ProgressIsEarned'
    <3> SUFFICES ASSUME NEW x \in Emergency
                 PROVE  /\ phase'[x] = "IN_PROGRESS" => arrived'[x] # {}
                        /\ done'[x] > 0 => Cardinality(arrived'[x]) >= Threshold(x)'
      BY DEF ProgressIsEarned
    <3>1. Threshold(x)' = Threshold(x) /\ Threshold(x) \in Nat
      BY ThresholdPositive DEF Threshold
    <3>2. /\ Cardinality(arrived[x]) \in Nat
          /\ Cardinality(arrived'[x]) \in Nat
          /\ Cardinality(arrived[x]) <= Cardinality(arrived'[x])
      BY <1>2, Counting
    <3>3. CASE x = e
      <4>1. arrived'[x] # {}
        BY <1>1, <1>2, <3>3 DEF TypeOK
      <4>2. done[x] > 0 => Cardinality(arrived[x]) >= Threshold(x)
        BY DEF ProgressIsEarned
      <4>3. done'[x] > 0 => Cardinality(arrived'[x]) >= Threshold(x)
        <5>1. CASE UNCHANGED <<done, op>>
          BY <3>1, <3>2, <4>2, <5>1
        <5>2. CASE ~UNCHANGED <<done, op>>
          BY <2>1, <3>3, <5>2
        <5> QED
          BY <5>1, <5>2
      <4> QED
        BY <3>1, <4>1, <4>3
    <3>4. CASE x # e
      <4>1. phase'[x] = phase[x] /\ done'[x] = done[x] /\ arrived'[x] = arrived[x]
        BY <1>2, <1>3, <2>1, <3>4 DEF TypeOK
      <4> QED
        BY <3>1, <4>1 DEF ProgressIsEarned
    <3> QED
      BY <3>3, <3>4
  <2>4. CommandsMatchRecord'
    <3>1. ASSUME NEW x \in Task, op'[x].at \in {"dispatched", "commanding"}
          PROVE  op'[x].vs \subseteq units'[op'[x].e]
      <4>1. op'[x] = op[x]
        BY <2>1, <3>1 DEF TypeOK
      <4> QED
        BY <3>1, <4>1 DEF CommandsMatchRecord
    <3>2. \A x \in Emergency : acked'[x] \cup arrived'[x] \subseteq units'[x]
      BY <1>2 DEF CommandsMatchRecord
    <3> QED
      BY <3>1, <3>2 DEF CommandsMatchRecord
  <2>5. WaitingHasNoUnits'
    <3>1. \A x \in Emergency \ {e} : Undispatched(x) => Undispatched(x)'
      BY <1>2, <2>1 DEF Undispatched, TypeOK
    <3>2. phase'[e] = "IN_PROGRESS" /\ \A x \in Emergency \ {e} : phase'[x] = phase[x]
      BY <1>3, <2>1
    <3> QED
      BY <3>1, <3>2 DEF WaitingHasNoUnits, listVars
  <2>6. TasksNameReported'
    <3>1. \A x \in Emergency : phase[x] # "UNREPORTED" => phase'[x] # "UNREPORTED"
      BY <1>1, <1>3, <2>1
    <3>2. ASSUME NEW x \in Task, op'[x].at # "idle"
          PROVE  phase'[op'[x].e] # "UNREPORTED"
      <4>1. CASE op'[x] = op[x]
        <5>1. op[x].e \in Emergency
          BY <3>2, <4>1 DEF TypeOK, Await, Idle
        <5> QED
          BY <3>1, <3>2, <4>1, <5>1 DEF TasksNameReported
      <4>2. CASE op'[x] # op[x]
        <5>1. op'[x].e = e
          BY <2>1, <4>2 DEF TypeOK
        <5> QED
          BY <1>3, <2>1, <5>1
      <4> QED
        BY <4>1, <4>2
    <3>3. \A x \in toResolve' \cup toDismiss' : phase'[x] # "UNREPORTED"
      BY <3>1 DEF TypeOK, TasksNameReported, listVars
    <3> QED
      BY <3>2, <3>3 DEF TasksNameReported
  <2> QED
    BY <2>2, <2>3, <2>4, <2>5, <2>6
<1> QED
  BY <1>4, <1>5

(* The message loop.                                                        *)
LEMMA MessageKeepsRecords ==
  ASSUME IInv, HandleMessage, TypeOK'
  PROVE  Records'
<1> USE TaskNames
<1>1. ASSUME NEW v \in Vehicle, NEW st \in Reportable, HandleRegistration(v, st)
      PROVE  Records'
  BY <1>1, AwaitKeepsRecords DEF HandleRegistration, recordVars, listVars
<1>2. ASSUME NEW v \in Vehicle, NEW st \in Reportable, HandleTelemetry(v, st)
      PROVE  Records'
  <2>1. waiting = {} /\ UNCHANGED <<alert, units, acked, mode, listVars>>
    BY <1>2 DEF HandleTelemetry, LoopFree
  <2>2. CASE st = "ON_SCENE" /\ cur[v] # None
    BY <1>2, <2>1, <2>2, OnSceneKeepsRecords DEF HandleTelemetry
  <2>3. CASE ~(st = "ON_SCENE" /\ cur[v] # None)
    BY <1>2, <2>1, <2>3, AwaitKeepsRecords DEF HandleTelemetry, recordVars
  <2> QED
    BY <2>2, <2>3
<1>3. ASSUME NEW v \in Vehicle, HandleAlert(v)
      PROVE  Records'
  BY <1>3, AwaitKeepsRecords DEF HandleAlert, missionVars, recordVars, listVars
<1>4. ASSUME NEW v \in Vehicle, HandleAlertCleared(v)
      PROVE  Records'
  <2>1. CASE DispatchingEmergencies = {}
    <3>1. UNCHANGED <<cur, phase, done, recordVars, op, toResolve, toDismiss>>
      BY <1>4, <2>1 DEF HandleAlertCleared, RetryNext
    <3>2. waiting' = {} /\ waiting = {}
      BY <1>4, <2>1 DEF HandleAlertCleared, RetryNext, LoopFree
    <3> QED
      BY <3>1, <3>2, AwaitKeepsRecords DEF listVars
  <2>2. CASE DispatchingEmergencies # {}
    <3>1. PICK e \in DispatchingEmergencies :
            /\ Process("loop", e, Cleared(v), alert')
            /\ waiting' = DispatchingEmergencies \ {e}
      BY <1>4, <2>2 DEF HandleAlertCleared, RetryNext
    <3>2. PICK S \in SUBSET Vehicle : Dispatched("loop", e, S)
      BY <3>1, ProcessDispatches DEF IInv
    <3>3. \A x \in DispatchingEmergencies :
            x \in Emergency /\ phase[x] = "DISPATCHING" /\ Undispatched(x)
      BY DEF DispatchingEmergencies, IInv, Records, WaitingHasNoUnits
    <3>4. UNCHANGED <<done, toResolve, toDismiss>>
      BY <1>4 DEF HandleAlertCleared
    <3> QED
      BY <3>1, <3>2, <3>3, <3>4, DispatchKeepsRecords
  <2> QED
    BY <2>1, <2>2
<1>5. ASSUME NEW e \in Emergency, NEW v \in Vehicle, HandleDispatchAck(e, v)
      PROVE  Records'
  <2>1. /\ v \in units[e]
        /\ acked' = [acked EXCEPT ![e] = @ \cup {v}]
        /\ UNCHANGED <<cur, phase, done, units, arrived, op, listVars>>
    BY <1>5 DEF HandleDispatchAck, missionVars
  <2>2. HeldIsListed' /\ ProgressIsEarned' /\ TasksNameReported'
    BY <2>1 DEF IInv, Records, HeldIsListed, ProgressIsEarned, Threshold,
                TasksNameReported, listVars
  <2>3. CommandsMatchRecord'
    BY <2>1 DEF IInv, Records, CommandsMatchRecord, TypeOK
  <2>4. WaitingHasNoUnits'
    <3>1. ~Undispatched(e)
      BY <2>1 DEF Undispatched
    <3>2. \A x \in Emergency : Undispatched(x) => Undispatched(x)'
      BY <2>1, <3>1 DEF Undispatched, IInv, TypeOK
    <3>3. waiting \subseteq Emergency
      BY DEF IInv, TypeOK
    <3> QED
      BY <2>1, <3>2, <3>3 DEF IInv, Records, WaitingHasNoUnits, listVars
  <2> QED
    BY <2>2, <2>3, <2>4 DEF Records
<1> QED
  BY <1>1, <1>2, <1>3, <1>4, <1>5 DEF HandleMessage

(* The message loop resumes: a persisted task may close its emergency, and  *)
(* the retry dispatches an emergency that its list has kept undispatched.   *)
LEMMA LoopKeepsRecords ==
  ASSUME IInv, TaskPersisted \/ ContinueRetry
  PROVE  Records'
<1> USE TaskNames
<1>1. CASE TaskPersisted
  <2> DEFINE e == op["loop"].e
  <2>1. /\ e \in Emergency
        /\ phase[e] # "UNREPORTED"
    BY <1>1 DEF TaskPersisted, IInv, TypeOK, Await, Idle, Records, TasksNameReported
  <2>2. CASE done[e] = CoordinationTasks
    <3>1. /\ Close("loop", e, "RESOLVED", phase, status)
          /\ UNCHANGED <<done, units, acked, arrived, listVars>>
      BY <1>1, <2>2 DEF TaskPersisted, recordVars
    <3>2. \A x \in Emergency : arrived[x] \subseteq units[x]
      BY DEF IInv, Records, CommandsMatchRecord
    <3>3. \A x \in toResolve' \cup toDismiss' : x \in Emergency /\ phase[x] # "UNREPORTED"
      BY <3>1 DEF IInv, TypeOK, Records, TasksNameReported, listVars
    <3>4. waiting' \subseteq waiting
      BY <3>1 DEF listVars
    <3>5. /\ phase \in [Emergency -> {"UNREPORTED"} \cup Active \cup Closed]
          /\ arrived' \in [Emergency -> SUBSET Vehicle]
      BY <3>1 DEF IInv, TypeOK
    <3> HIDE DEF e
    <3> QED
      BY <2>1, <3>1, <3>2, <3>3, <3>4, <3>5, CloseKeepsRecords
  <2>3. CASE done[e] # CoordinationTasks
    <3>1. op' = [op EXCEPT !["loop"] = Idle]
      BY <1>1, <2>3 DEF TaskPersisted, Return
    <3>2. op'["loop"].at = "idle" /\ \A x \in Task \ {"loop"} : op'[x] = op[x]
      BY <3>1 DEF IInv, TypeOK, Idle
    <3> QED
      BY <1>1, <2>3, <3>2, AwaitKeepsRecords DEF TaskPersisted, missionVars
  <2> QED
    BY <2>2, <2>3
<1>2. CASE ContinueRetry
  <2>1. PICK e \in waiting : /\ Process("loop", e, status, alert)
                            /\ waiting' = waiting \ {e}
    BY <1>2 DEF ContinueRetry, RetryNext
  <2>2. PICK S \in SUBSET Vehicle : Dispatched("loop", e, S)
    BY <2>1, ProcessDispatches DEF IInv
  <2>3. \A x \in waiting : /\ x \in Emergency
                          /\ phase[x] \in {"DISPATCHING"} \cup Closed
                          /\ Undispatched(x)
    BY DEF IInv, TypeOK, Records, WaitingHasNoUnits
  <2>4. UNCHANGED <<done, toResolve, toDismiss>>
    BY <1>2 DEF ContinueRetry
  <2>5. phase[e] \notin {"DISPATCHED", "IN_PROGRESS"}
    BY <2>3 DEF Closed
  <2> QED
    BY <2>1, <2>2, <2>3, <2>4, <2>5, DispatchKeepsRecords
<1> QED
  BY <1>1, <1>2

(* What a task does after the awaits of process_emergency,                  *)
(* resolve_emergency and dismiss_emergency leaves the records alone.        *)
LEMMA ResumeKeepsRecords ==
  ASSUME IInv, NEW t \in Task, Resume(t)
  PROVE  Records'
<1>1. /\ UNCHANGED <<cur, phase, done, recordVars, listVars>>
      /\ \/ op' = [op EXCEPT ![t] = Idle]
         \/ op' = [op EXCEPT ![t].at = "commanding"] /\ op[t].at = "dispatched"
         \/ \E v \in Vehicle : op' = [op EXCEPT ![t].vs = @ \ {v}]
                                /\ op[t].at = "commanding"
  BY DEF Resume, DispatchPersisted, PublishCommand, PublishClosure, Return, missionVars
<1>2. \A x \in Task \ {t} : op'[x] = op[x]
  BY <1>1 DEF IInv, TypeOK
<1>3. \/ op'[t].at = "idle"
      \/ /\ op'[t].at = "commanding"
         /\ op[t].at \in {"dispatched", "commanding"}
         /\ op'[t].e = op[t].e
         /\ op'[t].vs \subseteq op[t].vs
  <2>1. CASE op' = [op EXCEPT ![t] = Idle]
    BY <2>1 DEF Idle, IInv, TypeOK
  <2>2. CASE op' = [op EXCEPT ![t].at = "commanding"] /\ op[t].at = "dispatched"
    <3>1. op[t] \in [at : {"dispatched", "commanding", "task_done", "RESOLVED", "DISMISSED"},
                     e : Emergency, vs : SUBSET Vehicle]
      BY <2>2 DEF IInv, TypeOK, Await, Idle
    <3>2. op'[t] = [op[t] EXCEPT !.at = "commanding"]
      BY <2>2 DEF IInv, TypeOK
    <3> QED
      BY <2>2, <3>1, <3>2
  <2>3. CASE \E v \in Vehicle : op' = [op EXCEPT ![t].vs = @ \ {v}]
                                /\ op[t].at = "commanding"
    <3>1. op[t] \in [at : {"dispatched", "commanding", "task_done", "RESOLVED", "DISMISSED"},
                     e : Emergency, vs : SUBSET Vehicle]
      BY <2>3 DEF IInv, TypeOK, Await, Idle
    <3>2. PICK v \in Vehicle : op' = [op EXCEPT ![t].vs = @ \ {v}]
      BY <2>3
    <3>3. op'[t] = [op[t] EXCEPT !.vs = @ \ {v}]
      BY <3>2 DEF IInv, TypeOK
    <3> QED
      BY <2>3, <3>1, <3>3
  <2> QED
    BY <1>1, <2>1, <2>2, <2>3
<1> QED
  BY <1>1, <1>2, <1>3, AwaitKeepsRecords

(* A request or the injector dispatches an emergency, or closes one.        *)
LEMMA FreshDispatchKeepsRecords ==
  ASSUME IInv, NEW t \in Task, NEW e \in Emergency, phase[e] = "UNREPORTED",
         Process(t, e, status, alert), UNCHANGED <<done, listVars>>
  PROVE  Records'
<1>1. PICK S \in SUBSET Vehicle : Dispatched(t, e, S)
  BY ProcessDispatches DEF IInv
<1>2. Undispatched(e)
  BY DEF IInv, Records, WaitingHasNoUnits
<1>3. \A x \in waiting : /\ x \in Emergency
                        /\ phase[x] \in {"DISPATCHING"} \cup Closed
                        /\ Undispatched(x)
  BY DEF IInv, TypeOK, Records, WaitingHasNoUnits
<1>4. e \notin waiting
  BY <1>3 DEF Closed
<1>5. UNCHANGED <<done, toResolve, toDismiss>> /\ waiting' = waiting
  BY DEF listVars
<1> QED
  BY <1>1, <1>2, <1>3, <1>4, <1>5, DispatchKeepsRecords

(* A resolution or dismissal by a request or by the injector.               *)
LEMMA ClosureKeepsRecords ==
  ASSUME IInv, NEW t \in Task, NEW e \in Emergency, phase[e] # "UNREPORTED",
         NEW outcome \in {"RESOLVED", "DISMISSED"},
         Close(t, e, outcome, phase, status), UNCHANGED <<done, recordVars, listVars>>
  PROVE  Records'
<1>1. /\ UNCHANGED <<done, units, acked, arrived>>
      /\ waiting' \subseteq waiting
      /\ toResolve' = toResolve /\ toDismiss' = toDismiss
  BY DEF recordVars, listVars
<1>2. \A x \in Emergency : arrived[x] \subseteq units[x]
  BY DEF IInv, Records, CommandsMatchRecord
<1>3. \A x \in toResolve \cup toDismiss : x \in Emergency /\ phase[x] # "UNREPORTED"
  BY DEF IInv, TypeOK, Records, TasksNameReported
<1>4. /\ phase \in [Emergency -> {"UNREPORTED"} \cup Active \cup Closed]
      /\ arrived \in [Emergency -> SUBSET Vehicle]
  BY DEF IInv, TypeOK
<1> QED
  BY <1>1, <1>2, <1>3, <1>4, CloseKeepsRecords

(* The HTTP handlers and the injector.                                      *)
LEMMA RequestKeepsRecords ==
  ASSUME IInv, NEW e \in Emergency,
         \/ \E t \in ApiTask : CreateEmergency(t, e) \/ ResolveRequest(t, e)
         \/ InjectCrime(e)
         \/ DismissStaleHistorical(e)
  PROVE  Records'
<1> USE TaskNames
<1>1. ASSUME NEW t \in ApiTask, CreateEmergency(t, e) PROVE Records'
  BY <1>1, FreshDispatchKeepsRecords DEF CreateEmergency
<1>2. ASSUME NEW t \in ApiTask, ResolveRequest(t, e) PROVE Records'
  BY <1>2, ClosureKeepsRecords DEF ResolveRequest
<1>3. ASSUME InjectCrime(e) PROVE Records'
  BY <1>3, FreshDispatchKeepsRecords DEF InjectCrime
<1>4. ASSUME DismissStaleHistorical(e) PROVE Records'
  BY <1>4, ClosureKeepsRecords DEF DismissStaleHistorical
<1> QED
  BY <1>1, <1>2, <1>3, <1>4

(* The sweeper cancels waiting emergencies and closes one.                  *)
LEMMA SweepKeepsRecords ==
  ASSUME IInv, NEW res \in SUBSET Emergency, NEW dis \in SUBSET Emergency, NEW ph,
         SweepNext(res, dis, ph),
         UNCHANGED <<fleetVars, done, recordVars, mode, waiting>>,
         ph \in [Emergency -> {"UNREPORTED"} \cup Active \cup Closed],
         \A x \in Emergency :
           ph[x] = phase[x] \/ (phase[x] = "DISPATCHING" /\ ph[x] = "CANCELLED"),
         \A x \in res \cup dis : phase[x] # "UNREPORTED",
         toResolve \cup toDismiss \subseteq res \cup dis
  PROVE  Records'
<1>1. UNCHANGED <<done, units, acked, arrived, waiting>>
  BY DEF recordVars
<1>2. CASE res \cup dis = {}
  <2>1. phase' = ph /\ UNCHANGED <<status, cur, op, toResolve, toDismiss>>
    BY <1>2 DEF SweepNext
  <2>2. \A x \in Emergency : phase[x] \in {"UNREPORTED", "DISPATCHED", "IN_PROGRESS"}
                               => phase'[x] = phase[x]
    BY <2>1
  <2>3. HeldIsListed'
    BY <1>1, <2>1, <2>2 DEF IInv, TypeOK, Records, HeldIsListed
  <2>4. ProgressIsEarned'
    <3>1. \A x \in Emergency : phase'[x] = "IN_PROGRESS" => phase[x] = "IN_PROGRESS"
      BY <2>1
    <3> QED
      BY <1>1, <3>1 DEF IInv, Records, ProgressIsEarned, Threshold
  <2>5. CommandsMatchRecord'
    BY <1>1, <2>1 DEF IInv, Records, CommandsMatchRecord
  <2>6. WaitingHasNoUnits'
    BY <1>1, <2>1
       DEF IInv, TypeOK, Records, WaitingHasNoUnits, Undispatched, Closed
  <2>7. TasksNameReported'
    <3>1. \A x \in Emergency : phase[x] # "UNREPORTED" => phase'[x] # "UNREPORTED"
      BY <2>1
    <3>2. \A x \in Task : op[x].at # "idle" => op[x].e \in Emergency
      BY DEF IInv, TypeOK, Await, Idle
    <3> QED
      BY <2>1, <3>1, <3>2 DEF IInv, TypeOK, Records, TasksNameReported
  <2> QED
    BY <2>3, <2>4, <2>5, <2>6, <2>7 DEF Records
<1>3. CASE res \cup dis # {}
  <2> DEFINE outcome == IF res # {} THEN "RESOLVED" ELSE "DISMISSED"
  <2>1. PICK e \in IF res # {} THEN res ELSE dis :
          /\ Close("sweeper", e, outcome, ph, status)
          /\ toResolve' = res \ {e}
          /\ toDismiss' = IF res # {} THEN dis ELSE dis \ {e}
    BY <1>3 DEF SweepNext
  <2>2. e \in Emergency /\ phase[e] # "UNREPORTED" /\ outcome \in {"RESOLVED", "DISMISSED"}
    OBVIOUS
  <2>3. \A x \in toResolve' \cup toDismiss' : x \in Emergency /\ phase[x] # "UNREPORTED"
    BY <2>1
  <2>4. \A x \in Emergency : arrived[x] \subseteq units[x]
    BY DEF IInv, Records, CommandsMatchRecord
  <2>5. arrived' \in [Emergency -> SUBSET Vehicle]
    BY <1>1 DEF IInv, TypeOK
  <2> HIDE DEF outcome
  <2> QED
    BY <1>1, <2>1, <2>2, <2>3, <2>4, <2>5, TaskNames, CloseKeepsRecords
<1> QED
  BY <1>2, <1>3

(* The sweeper: what it lists in one round and closes over several awaits.  *)
LEMMA SweeperKeepsRecords ==
  ASSUME IInv, ContinueSweep \/ \E e \in Emergency : SweepRound(e)
  PROVE  Records'
<1>1. CASE ContinueSweep
  <2>1. /\ toResolve \in SUBSET Emergency /\ toDismiss \in SUBSET Emergency
        /\ phase \in [Emergency -> {"UNREPORTED"} \cup Active \cup Closed]
        /\ \A x \in toResolve \cup toDismiss : phase[x] # "UNREPORTED"
    BY DEF IInv, TypeOK, Records, TasksNameReported
  <2> QED
    BY <1>1, <2>1, SweepKeepsRecords DEF ContinueSweep
<1>2. CASE \E e \in Emergency : SweepRound(e)
  <2>1. PICK due \in SUBSET Sweepable :
          \E overMax \in SUBSET due : Sweep(due, overMax)
    BY <1>2 DEF SweepRound
  <2>2. PICK overMax \in SUBSET due : Sweep(due, overMax)
    BY <2>1
  <2> DEFINE res == {e \in due : phase[e] = "IN_PROGRESS"} \ overMax
             dis == {e \in due : phase[e] = "DISPATCHED"} \cup overMax
  <2>3. /\ SweepNext(res, dis, Timeouts(due))
        /\ UNCHANGED <<fleetVars, done, recordVars, mode, waiting>>
        /\ toResolve \cup toDismiss = {}
    BY <2>2 DEF Sweep
  <2>4. \A e \in due : e \in Emergency /\ phase[e] # "UNREPORTED"
    BY DEF Sweepable, Active
  <2>5. /\ res \in SUBSET Emergency /\ dis \in SUBSET Emergency
        /\ \A e \in res \cup dis : phase[e] # "UNREPORTED"
    BY <2>4
  <2>6. /\ Timeouts(due) \in [Emergency -> {"UNREPORTED"} \cup Active \cup Closed]
        /\ \A x \in Emergency :
             \/ Timeouts(due)[x] = phase[x]
             \/ phase[x] = "DISPATCHING" /\ Timeouts(due)[x] = "CANCELLED"
    BY DEF Timeouts, IInv, TypeOK, Closed
  <2> HIDE DEF res, dis
  <2>7. toResolve \cup toDismiss \subseteq res \cup dis
    BY <2>3
  <2> QED
    BY <2>3, <2>5, <2>6, <2>7, SweepKeepsRecords
<1> QED
  BY <1>1, <1>2

(* OrchestratorAgent.start and stop; what was awaited at the stop is        *)
(* forgotten.                                                               *)
LEMMA StartStopKeepsRecords ==
  ASSUME IInv, Start \/ Stop
  PROVE  Records'
<1>1. CASE Start
  BY <1>1, TaskNames, AwaitKeepsRecords DEF Start, missionVars
<1>2. CASE Stop
  <2>1. /\ UNCHANGED <<cur, phase, done, units, acked, arrived>>
        /\ op' = [t \in Task |-> Idle]
        /\ waiting' = {} /\ toResolve' = {} /\ toDismiss' = {}
    BY <1>2 DEF Stop, missionVars, recordVars
  <2>2. \A t \in Task : op'[t].at = "idle"
    BY <2>1 DEF Idle
  <2>3. HeldIsListed' /\ ProgressIsEarned' /\ WaitingHasNoUnits'
    BY <2>1 DEF IInv, Records, HeldIsListed, ProgressIsEarned, Threshold,
                WaitingHasNoUnits, Undispatched
  <2>4. CommandsMatchRecord'
    BY <2>1, <2>2 DEF IInv, Records, CommandsMatchRecord
  <2>5. TasksNameReported'
    BY <2>1, <2>2 DEF TasksNameReported
  <2> QED
    BY <2>3, <2>4, <2>5 DEF Records
<1> QED
  BY <1>1, <1>2

(* A step that changes nothing.                                             *)
LEMMA StutterKeepsRecords == ASSUME IInv, UNCHANGED vars PROVE Records'
BY DEF IInv, vars, Records, HeldIsListed, ProgressIsEarned, Threshold,
       CommandsMatchRecord, WaitingHasNoUnits, Undispatched, TasksNameReported

(* Every step of the orchestrator keeps the records in agreement.           *)
LEMMA NextKeepsRecords == ASSUME IInv, [Next]_vars PROVE Records'
<1>1. TypeOK'
  BY NextTypes DEF IInv
<1>2. CASE HandleMessage
  BY <1>1, <1>2, MessageKeepsRecords
<1>3. CASE TaskPersisted \/ ContinueRetry
  BY <1>3, LoopKeepsRecords
<1>4. CASE ContinueSweep \/ \E e \in Emergency : SweepRound(e)
  BY <1>4, SweeperKeepsRecords
<1>5. CASE \E t \in Task : Resume(t)
  BY <1>5, ResumeKeepsRecords
<1>6. ASSUME NEW e \in Emergency,
             \/ \E t \in ApiTask : CreateEmergency(t, e) \/ ResolveRequest(t, e)
             \/ InjectCrime(e)
             \/ DismissStaleHistorical(e)
      PROVE  Records'
  BY <1>6, RequestKeepsRecords
<1>7. CASE Start \/ Stop
  BY <1>7, StartStopKeepsRecords
<1>8. CASE UNCHANGED vars
  BY <1>8, StutterKeepsRecords
<1> QED
  BY <1>2, <1>3, <1>4, <1>5, <1>6, <1>7, <1>8 DEF Next

-----------------------------------------------------------------------------
(* The theorems.                                                            *)

(* The inductive invariant holds in every state of the orchestrator, for    *)
(* any fleet, any emergencies and any number of concurrent requests.        *)
THEOREM Invariant == Spec => []IInv
<1>1. Init => IInv
  BY InitTypes, InitRecords DEF IInv
<1>2. IInv /\ [Next]_vars => IInv'
  BY NextTypes, NextKeepsRecords DEF IInv
<1> QED
  BY <1>1, <1>2, PTL DEF Spec

(* The snapshots and the dispatch records agree: resolve, dismiss, retry,   *)
(* sweep and late telemetry never leave a vehicle holding an emergency that *)
(* is closed or whose record does not list it.                              *)
THEOREM HeldIsListedAlways == Spec => []HeldIsListed
<1>1. IInv => HeldIsListed
  BY DEF IInv, Records
<1> QED
  BY <1>1, Invariant, PTL

(* An emergency is in progress, and a coordination task complete, only on   *)
(* recorded arrivals of the current dispatch.                               *)
THEOREM ProgressIsEarnedAlways == Spec => []ProgressIsEarned
<1>1. IInv => ProgressIsEarned
  BY DEF IInv, Records
<1> QED
  BY <1>1, Invariant, PTL

(* A command that a task publishes after its awaits goes to a unit that the *)
(* dispatch record of that moment lists.                                    *)
THEOREM CommandsMatchRecordAlways == Spec => []CommandsMatchRecord
<1>1. IInv => CommandsMatchRecord
  BY DEF IInv, Records
<1> QED
  BY <1>1, Invariant, PTL

(* Waiting emergencies, those of a stale retry list included, have no       *)
(* units, arrivals or tasks done.                                           *)
THEOREM WaitingHasNoUnitsAlways == Spec => []WaitingHasNoUnits
<1>1. IInv => WaitingHasNoUnits
  BY DEF IInv, Records
<1> QED
  BY <1>1, Invariant, PTL
===============================================================================
