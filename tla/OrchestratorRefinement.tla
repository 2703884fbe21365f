------------------------ MODULE OrchestratorRefinement ------------------------
(***************************************************************************)
(* The orchestrator implements the life cycle, and dispatches an emergency *)
(* at most once.  Both follow from what a step does to the phases, the     *)
(* crews and the dispatch records, whichever task takes it.                *)
(***************************************************************************)
EXTENDS OrchestratorSafety

(* S is dispatched to an emergency that has no units.                       *)
Given(e, S) ==
  /\ phase[e] \notin {"DISPATCHED", "IN_PROGRESS"}
  /\ units[e] = {}
  /\ cur' = [v \in Vehicle |-> IF v \in S THEN e ELSE cur[v]]
  /\ phase' = [phase EXCEPT ![e] = IF S = {} THEN "DISPATCHING" ELSE "DISPATCHED"]
  /\ units' = [units EXCEPT ![e] = S]

(* The first unit of e is on scene.                                         *)
Begun(e) ==
  /\ phase[e] = "DISPATCHED"
  /\ phase' = [phase EXCEPT ![e] = "IN_PROGRESS"]
  /\ UNCHANGED <<cur, units>>

(* The emergencies of C are closed.                                         *)
Ended(C) ==
  /\ phase' \in [Emergency -> {"UNREPORTED"} \cup Active \cup Closed]
  /\ \A e \in C : /\ phase[e] # "UNREPORTED"
                  /\ phase'[e] \in Closed
                  /\ phase'[e] = "CANCELLED" => phase[e] = "DISPATCHING"
  /\ \A e \in Emergency \ C : phase'[e] = phase[e]
  /\ cur' = [v \in Vehicle |-> IF cur[v] \in C THEN None ELSE cur[v]]
  /\ UNCHANGED units

StepKind ==
  \/ UNCHANGED <<phase, cur, units>>
  \/ \E e \in Emergency, S \in SUBSET Vehicle : Given(e, S)
  \/ \E e \in Emergency : Begun(e)
  \/ \E C \in SUBSET Emergency : Ended(C)

-----------------------------------------------------------------------------
(* What the two operations of the handlers do.                              *)

(* process_emergency on an undispatched emergency gives it a crew, or       *)
(* nothing.                                                                 *)
LEMMA ProcessGives ==
  ASSUME IInv, NEW t, NEW e \in Emergency, NEW st, NEW al, Process(t, e, st, al),
         phase[e] \notin {"DISPATCHED", "IN_PROGRESS"}, Undispatched(e)
  PROVE  StepKind
<1>1. PICK S \in SUBSET Vehicle : Dispatched(t, e, S)
  BY ProcessDispatches DEF IInv
<1>2. Given(e, S)
  BY <1>1 DEF Given, Dispatched, Undispatched
<1> QED
  BY <1>2 DEF StepKind

(* An emergency that waits for units holds no vehicle, so cancelling it     *)
(* along with a closure frees none.                                         *)
LEMMA CloseEnds ==
  ASSUME IInv, NEW t, NEW e \in Emergency, NEW outcome \in {"RESOLVED", "DISMISSED"},
         NEW ph \in [Emergency -> {"UNREPORTED"} \cup Active \cup Closed], NEW st,
         Close(t, e, outcome, ph, st), UNCHANGED units,
         phase[e] # "UNREPORTED",
         \A x \in Emergency \ {e} :
           ph[x] = phase[x] \/ (phase[x] = "DISPATCHING" /\ ph[x] = "CANCELLED")
  PROVE  StepKind
<1> DEFINE C == {e} \cup {x \in Emergency : phase[x] = "DISPATCHING" /\ ph[x] = "CANCELLED"}
<1>1. /\ phase' = [ph EXCEPT ![e] = outcome]
      /\ cur' = [v \in Vehicle |-> IF v \in Crew(e) THEN None ELSE cur[v]]
  BY DEF Close
<1>2. phase' \in [Emergency -> {"UNREPORTED"} \cup Active \cup Closed]
  BY <1>1 DEF Closed
<1>3. \A x \in C : /\ phase[x] # "UNREPORTED"
                   /\ phase'[x] \in Closed
                   /\ phase'[x] = "CANCELLED" => phase[x] = "DISPATCHING"
  BY <1>1 DEF Closed
<1>4. \A x \in Emergency \ C : phase'[x] = phase[x]
  BY <1>1
<1>5. \A v \in Vehicle : v \in Crew(e) <=> cur[v] \in C
  <2>1. \A v \in Vehicle : cur[v] \in Emergency => phase[cur[v]] # "DISPATCHING"
    BY OrchestratorAssumption DEF IInv, Records, HeldIsListed, OrchestratorAssumption
  <2> QED
    BY <2>1 DEF Crew
<1>6. cur' = [v \in Vehicle |-> IF cur[v] \in C THEN None ELSE cur[v]]
  BY <1>1, <1>5
<1>7. Ended(C) /\ C \in SUBSET Emergency
  BY <1>2, <1>3, <1>4, <1>6 DEF Ended
<1> HIDE DEF C
<1> QED
  BY <1>7 DEF StepKind

(* A resolution or dismissal ends the emergency of one crew.                *)
LEMMA ClosureEnds ==
  ASSUME IInv, NEW t, NEW e \in Emergency, NEW outcome \in {"RESOLVED", "DISMISSED"},
         Close(t, e, outcome, phase, status), UNCHANGED units, phase[e] # "UNREPORTED"
  PROVE  StepKind
<1>1. phase \in [Emergency -> {"UNREPORTED"} \cup Active \cup Closed]
  BY DEF IInv, TypeOK
<1> QED
  BY <1>1, CloseEnds

-----------------------------------------------------------------------------
(* The steps.                                                               *)

(* Nothing in a retry list, however old, is on mission or has units.        *)
LEMMA RetryKind ==
  ASSUME IInv, NEW S \in SUBSET Emergency, NEW st, NEW al, RetryNext(S, st, al),
         \A e \in S : phase[e] \in {"DISPATCHING"} \cup Closed /\ Undispatched(e)
  PROVE  StepKind
<1>1. CASE S = {}
  BY <1>1 DEF RetryNext, StepKind, recordVars
<1>2. CASE S # {}
  <2>1. PICK e \in S : Process("loop", e, st, al)
    BY <1>2 DEF RetryNext
  <2>2. /\ e \in Emergency
        /\ phase[e] \notin {"DISPATCHED", "IN_PROGRESS"}
        /\ Undispatched(e)
    BY DEF Closed
  <2> QED
    BY <2>1, <2>2, ProcessGives
<1> QED
  BY <1>1, <1>2

(* A report from the scene starts the emergency, or ends it when all its    *)
(* tasks are complete.                                                      *)
LEMMA OnSceneKind ==
  ASSUME IInv, NEW v \in Vehicle, cur[v] # None, NEW seen,
         OnScene(v, cur[v], seen), UNCHANGED units
  PROVE  StepKind
<1> DEFINE e == cur[v]
<1>1. e \in Emergency /\ phase[e] \in {"DISPATCHED", "IN_PROGRESS"}
  BY DEF IInv, TypeOK, Records, HeldIsListed
<1>2. CASE done[e] = CoordinationTasks
  <2>1. Close("loop", e, "RESOLVED", Started(e), seen)
    BY <1>2 DEF OnScene
  <2>2. /\ Started(e) \in [Emergency -> {"UNREPORTED"} \cup Active \cup Closed]
        /\ \A x \in Emergency \ {e} : Started(e)[x] = phase[x]
    BY <1>1 DEF Started, IInv, TypeOK, Active
  <2>3. phase[e] # "UNREPORTED"
    BY <1>1
  <2> HIDE DEF e
  <2> QED
    BY <1>1, <2>1, <2>2, <2>3, CloseEnds
<1>3. CASE done[e] # CoordinationTasks
  <2>1. phase' = Started(e) /\ UNCHANGED cur
    BY <1>3 DEF OnScene
  <2>2. CASE phase[e] = "DISPATCHED"
    <3>1. Begun(e)
      BY <2>1, <2>2 DEF Begun, Started
    <3> HIDE DEF e
    <3> QED
      BY <1>1, <3>1 DEF StepKind
  <2>3. CASE phase[e] # "DISPATCHED"
    BY <2>1, <2>3 DEF Started, StepKind
  <2> QED
    BY <2>2, <2>3
<1> QED
  BY <1>2, <1>3

(* What a bus message can do to phases and crews.                           *)
LEMMA MessageKind ==
  ASSUME IInv, HandleMessage
  PROVE  StepKind
<1>1. ASSUME NEW v \in Vehicle, NEW st \in Reportable, HandleRegistration(v, st)
      PROVE  StepKind
  BY <1>1 DEF HandleRegistration, recordVars, StepKind
<1>2. ASSUME NEW v \in Vehicle, NEW st \in Reportable, HandleTelemetry(v, st)
      PROVE  StepKind
  <2>1. CASE st = "ON_SCENE" /\ cur[v] # None
    BY <1>2, <2>1, OnSceneKind DEF HandleTelemetry
  <2>2. CASE ~ (st = "ON_SCENE" /\ cur[v] # None)
    BY <1>2, <2>2 DEF HandleTelemetry, StepKind
  <2> QED
    BY <2>1, <2>2
<1>3. ASSUME NEW v \in Vehicle, HandleAlert(v) PROVE StepKind
  BY <1>3 DEF HandleAlert, missionVars, recordVars, StepKind
<1>4. ASSUME NEW v \in Vehicle, HandleAlertCleared(v) PROVE StepKind
  <2>1. \A e \in DispatchingEmergencies :
          /\ e \in Emergency
          /\ phase[e] \in {"DISPATCHING"} \cup Closed
          /\ Undispatched(e)
    BY DEF DispatchingEmergencies, IInv, Records, WaitingHasNoUnits
  <2>2. RetryNext(DispatchingEmergencies, Cleared(v), alert')
    BY <1>4 DEF HandleAlertCleared
  <2> QED
    BY <2>1, <2>2, RetryKind
<1>5. ASSUME NEW v \in Vehicle, NEW e \in Emergency, HandleDispatchAck(e, v)
      PROVE  StepKind
  BY <1>5 DEF HandleDispatchAck, missionVars, StepKind
<1> QED
  BY <1>1, <1>2, <1>3, <1>4, <1>5 DEF HandleMessage

(* One closure out of the sweeper's lists, with the cancellations of the    *)
(* round.                                                                   *)
LEMMA SweepKind ==
  ASSUME IInv, NEW res \in SUBSET Emergency, NEW dis \in SUBSET Emergency,
         NEW ph \in [Emergency -> {"UNREPORTED"} \cup Active \cup Closed],
         SweepNext(res, dis, ph), UNCHANGED units,
         \A x \in Emergency :
           ph[x] = phase[x] \/ (phase[x] = "DISPATCHING" /\ ph[x] = "CANCELLED"),
         \A x \in res \cup dis : phase[x] # "UNREPORTED"
  PROVE  StepKind
<1>1. CASE res \cup dis = {}
  <2> DEFINE C == {x \in Emergency : phase[x] # ph[x]}
  <2>1. phase' = ph /\ UNCHANGED cur
    BY <1>1 DEF SweepNext
  <2>2. \A v \in Vehicle : cur[v] \notin C
    BY OrchestratorAssumption DEF IInv, Records, HeldIsListed, OrchestratorAssumption
  <2>3. cur = [v \in Vehicle |-> cur[v]]
    BY DEF IInv, TypeOK
  <2>4. cur' = [v \in Vehicle |-> IF cur[v] \in C THEN None ELSE cur[v]]
    BY <2>1, <2>2, <2>3
  <2>5. Ended(C) /\ C \in SUBSET Emergency
    BY <2>1, <2>4 DEF Ended, Closed
  <2> HIDE DEF C
  <2> QED
    BY <2>5 DEF StepKind
<1>2. CASE res \cup dis # {}
  <2> DEFINE outcome == IF res # {} THEN "RESOLVED" ELSE "DISMISSED"
  <2>1. PICK e \in IF res # {} THEN res ELSE dis :
          Close("sweeper", e, outcome, ph, status)
    BY <1>2 DEF SweepNext
  <2>2. e \in Emergency /\ phase[e] # "UNREPORTED" /\ outcome \in {"RESOLVED", "DISMISSED"}
    OBVIOUS
  <2> HIDE DEF outcome
  <2> QED
    BY <2>1, <2>2, CloseEnds
<1> QED
  BY <1>1, <1>2

(* What the sweeper can do to phases and crews.                             *)
LEMMA SweeperKind ==
  ASSUME IInv, ContinueSweep \/ \E e \in Emergency : SweepRound(e)
  PROVE  StepKind
<1>1. CASE ContinueSweep
  <2>1. /\ toResolve \in SUBSET Emergency /\ toDismiss \in SUBSET Emergency
        /\ phase \in [Emergency -> {"UNREPORTED"} \cup Active \cup Closed]
        /\ \A x \in toResolve \cup toDismiss : phase[x] # "UNREPORTED"
    BY DEF IInv, TypeOK, Records, TasksNameReported
  <2> QED
    BY <1>1, <2>1, SweepKind DEF ContinueSweep, recordVars
<1>2. CASE \E e \in Emergency : SweepRound(e)
  <2>1. PICK due \in SUBSET Sweepable : \E overMax \in SUBSET due : Sweep(due, overMax)
    BY <1>2 DEF SweepRound
  <2>2. PICK overMax \in SUBSET due : Sweep(due, overMax)
    BY <2>1
  <2> DEFINE res == {e \in due : phase[e] = "IN_PROGRESS"} \ overMax
             dis == {e \in due : phase[e] = "DISPATCHED"} \cup overMax
  <2>3. SweepNext(res, dis, Timeouts(due)) /\ UNCHANGED units
    BY <2>2 DEF Sweep, recordVars
  <2>4. \A e \in due : e \in Emergency /\ phase[e] # "UNREPORTED"
    BY DEF Sweepable, Active
  <2>5. /\ res \in SUBSET Emergency /\ dis \in SUBSET Emergency
        /\ \A e \in res \cup dis : phase[e] # "UNREPORTED"
    BY <2>4
  <2>6. /\ Timeouts(due) \in [Emergency -> {"UNREPORTED"} \cup Active \cup Closed]
        /\ \A x \in Emergency :
             \/ Timeouts(due)[x] = phase[x]
             \/ phase[x] = "DISPATCHING" /\ Timeouts(due)[x] = "CANCELLED"
    BY DEF Timeouts, IInv, TypeOK, Closed
  <2> HIDE DEF res, dis
  <2> QED
    BY <2>3, <2>5, <2>6, SweepKind
<1> QED
  BY <1>1, <1>2

(* What the message loop can do to them after an await.                     *)
LEMMA LoopKind ==
  ASSUME IInv, TaskPersisted \/ ContinueRetry
  PROVE  StepKind
<1>1. CASE TaskPersisted
  <2> DEFINE e == op["loop"].e
  <2>1. e \in Emergency /\ phase[e] # "UNREPORTED"
    BY <1>1, TaskNames
       DEF TaskPersisted, IInv, TypeOK, Await, Idle, Records, TasksNameReported
  <2>2. CASE done[e] = CoordinationTasks
    <3>1. Close("loop", e, "RESOLVED", phase, status) /\ UNCHANGED units
      BY <1>1, <2>2 DEF TaskPersisted, recordVars
    <3> HIDE DEF e
    <3> QED
      BY <2>1, <3>1, ClosureEnds
  <2>3. CASE done[e] # CoordinationTasks
    BY <1>1, <2>3 DEF TaskPersisted, missionVars, recordVars, StepKind
  <2> QED
    BY <2>2, <2>3
<1>2. CASE ContinueRetry
  <2>1. /\ waiting \in SUBSET Emergency
        /\ \A e \in waiting : phase[e] \in {"DISPATCHING"} \cup Closed /\ Undispatched(e)
    BY DEF IInv, TypeOK, Records, WaitingHasNoUnits
  <2> QED
    BY <1>2, <2>1, RetryKind DEF ContinueRetry
<1> QED
  BY <1>1, <1>2

(* What the HTTP handlers and the injector can do to them.                  *)
LEMMA RequestKind ==
  ASSUME IInv, NEW e \in Emergency,
         \/ \E t \in ApiTask : CreateEmergency(t, e) \/ ResolveRequest(t, e)
         \/ InjectCrime(e)
         \/ DismissStaleHistorical(e)
  PROVE  StepKind
<1>1. phase[e] = "UNREPORTED" => Undispatched(e)
  BY DEF IInv, Records, WaitingHasNoUnits
<1>2. ASSUME NEW t \in ApiTask, CreateEmergency(t, e) PROVE StepKind
  BY <1>1, <1>2, ProcessGives DEF CreateEmergency
<1>3. ASSUME NEW t \in ApiTask, ResolveRequest(t, e) PROVE StepKind
  BY <1>3, ClosureEnds DEF ResolveRequest, recordVars
<1>4. ASSUME InjectCrime(e) PROVE StepKind
  BY <1>1, <1>4, ProcessGives DEF InjectCrime
<1>5. ASSUME DismissStaleHistorical(e) PROVE StepKind
  BY <1>5, ClosureEnds DEF DismissStaleHistorical, recordVars
<1> QED
  BY <1>2, <1>3, <1>4, <1>5

(* Every step of the orchestrator is of one of the kinds.                   *)
LEMMA NextKind == ASSUME IInv, [Next]_vars PROVE StepKind
<1>1. CASE \E t \in Task : Resume(t)
  BY <1>1 DEF Resume, DispatchPersisted, PublishCommand, PublishClosure,
              missionVars, recordVars, StepKind
<1>2. CASE Start \/ Stop
  BY <1>2 DEF Start, Stop, missionVars, recordVars, StepKind
<1>3. CASE UNCHANGED vars
  BY <1>3 DEF vars, StepKind
<1> QED
  BY <1>1, <1>2, <1>3, MessageKind, SweeperKind, LoopKind, RequestKind DEF Next

-----------------------------------------------------------------------------
(* The theorems.                                                            *)

(* Whatever was awaited in between, no retry, request, sweep or message     *)
(* replaces a dispatch record that has units.                               *)
THEOREM DispatchedOnceAlways == Spec => DispatchedOnce
<1>1. IInv /\ [Next]_vars =>
        [\A e \in Emergency : units[e] # {} => units'[e] = units[e]]_vars
  <2> SUFFICES ASSUME IInv, [Next]_vars, NEW e \in Emergency, units[e] # {}
               PROVE  units'[e] = units[e]
    OBVIOUS
  <2>1. units \in [Emergency -> SUBSET Vehicle]
    BY DEF IInv, TypeOK
  <2> QED
    BY <2>1, NextKind DEF StepKind, Given, Begun, Ended
<1> QED
  BY <1>1, Invariant, PTL DEF Spec, DispatchedOnce

(* A dispatch is an assignment: the emergency had no crew, and its new crew *)
(* leaves whatever it held.                                                 *)
LEMMA GivenAssigns ==
  ASSUME IInv, NEW e \in Emergency, NEW S \in SUBSET Vehicle, Given(e, S)
  PROVE  Lifecycle!Assign(e, S)
<1>1. \A v \in Vehicle : cur[v] # e
  BY OrchestratorAssumption DEF Given, IInv, Records, HeldIsListed, OrchestratorAssumption
<1>2. [x \in Emergency |-> Crew(x)]'
        = [x \in Emergency |-> IF x = e THEN S ELSE [y \in Emergency |-> Crew(y)][x] \ S]
  <2>1. ASSUME NEW x \in Emergency
        PROVE  Crew(x)' = IF x = e THEN S ELSE Crew(x) \ S
    BY <1>1 DEF Given, Crew
  <2> QED
    BY <2>1
<1> QED
  BY <1>2 DEF Given, Lifecycle!Assign, Lifecycle!OnMission

(* A closure finishes its emergencies and frees their crews.                *)
LEMMA EndedFinishes ==
  ASSUME IInv, NEW C \in SUBSET Emergency, Ended(C)
  PROVE  Lifecycle!Finish(C)
<1>1. [x \in Emergency |-> Crew(x)]'
        = [x \in Emergency |-> IF x \in C THEN {} ELSE [y \in Emergency |-> Crew(y)][x]]
  <2>1. ASSUME NEW x \in Emergency
        PROVE  Crew(x)' = IF x \in C THEN {} ELSE Crew(x)
    BY OrchestratorAssumption DEF Ended, Crew, OrchestratorAssumption
  <2> QED
    BY <2>1
<1>2. phase' \in [Emergency -> Lifecycle!Phase]
  BY DEF Ended, Lifecycle!Phase, Lifecycle!OnMission, Lifecycle!Final, Active, Closed
<1> QED
  BY <1>1, <1>2 DEF Ended, Lifecycle!Finish, Lifecycle!Final, Closed

(* The orchestrator, with all its tasks, lists and late messages,           *)
(* implements the abstract life cycle of an emergency and its crew.         *)
THEOREM Refinement == Spec => RefinesLifecycle
<1>1. Init => Lifecycle!Init
  BY OrchestratorAssumption DEF Init, Lifecycle!Init, Crew, OrchestratorAssumption
<1>2. IInv /\ [Next]_vars => [Lifecycle!Next]_(Lifecycle!vars)
  <2> SUFFICES ASSUME IInv, [Next]_vars PROVE [Lifecycle!Next]_(Lifecycle!vars)
    OBVIOUS
  <2>1. CASE UNCHANGED <<phase, cur, units>>
    BY <2>1 DEF Lifecycle!vars, Crew
  <2>2. CASE \E e \in Emergency, S \in SUBSET Vehicle : Given(e, S)
    BY <2>2, GivenAssigns DEF Lifecycle!Next
  <2>3. ASSUME NEW e \in Emergency, Begun(e) PROVE Lifecycle!Begin(e)
    BY <2>3 DEF Begun, Lifecycle!Begin, Crew
  <2>4. CASE \E C \in SUBSET Emergency : Ended(C)
    BY <2>4, EndedFinishes DEF Lifecycle!Next
  <2> QED
    BY <2>1, <2>2, <2>3, <2>4, NextKind DEF StepKind, Lifecycle!Next
<1> QED
  BY <1>1, <1>2, Invariant, PTL DEF Spec, RefinesLifecycle, Lifecycle!Spec
===============================================================================
