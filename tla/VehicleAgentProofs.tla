-------------------------- MODULE VehicleAgentProofs --------------------------
(***************************************************************************)
(* The vehicle agents for every fleet, every bound on the bus and every    *)
(* command that may arrive: types, and the invariants that relate the tick *)
(* loop and the command listener.                                          *)
(***************************************************************************)
EXTENDS VehicleAgent, SequenceTheorems, TLAPS

(* What the listener awaits the acknowledgment of is the mission, until a   *)
(* tick ends the drive; after that the target is the mission's.             *)
DriveIsConsistent ==
  \A v \in Vehicle : vstatus[v] = "EN_ROUTE" =>
    IF taking[v] = None THEN target[v] = mission[v] ELSE mission[v] = taking[v]

VInv ==
  /\ VehicleTypeOK
  /\ MissionMatchesStatus
  /\ DriveIsConsistent
  /\ RepairIsTimed

-----------------------------------------------------------------------------
(* The bus.                                                                 *)

(* Publishing keeps the queue to the orchestrator well typed, whatever part *)
(* of the messages is lost.                                                 *)
LEMMA PublishTypes ==
  ASSUME up \in Seq(UpMessage), NEW msgs \in Seq(UpMessage), Publish(msgs)
  PROVE  up' \in Seq(UpMessage)
<1>1. PICK kept \in Kept(msgs) : up' = up \o kept
  BY DEF Publish
<1>2. kept \in Seq(UpMessage)
  <2>1. \A i \in 1..Len(msgs), j \in 0..Len(msgs) : SubSeq(msgs, i, j) \in Seq(UpMessage)
    <3> SUFFICES ASSUME NEW i \in 1..Len(msgs), NEW j \in 0..Len(msgs)
                 PROVE  SubSeq(msgs, i, j) \in Seq(UpMessage)
      OBVIOUS
    <3> i \in Int /\ j \in Int
      OBVIOUS
    <3>1. CASE j < i
      <4>1. SubSeq(msgs, i, j) = <<>>
        BY <3>1, SubSeqEmpty
      <4> QED
        BY <4>1, EmptySeq
    <3>2. CASE i <= j
      <4>1. \A k \in i..j : msgs[k] \in UpMessage
        BY <3>2, ElementOfSeq
      <4> QED
        BY <3>2, <4>1, SubSeqProperties
    <3> QED
      BY <3>1, <3>2
  <2>2. CASE Lossy
    <3>1. PICK i \in 1..Len(msgs), j \in 0..Len(msgs) : kept = SubSeq(msgs, i, j)
      BY <1>1, <2>2 DEF Kept
    <3> QED
      BY <2>1, <3>1
  <2>3. CASE ~Lossy
    BY <1>1, <2>3 DEF Kept
  <2> QED
    BY <2>2, <2>3
<1> QED
  BY <1>1, <1>2

(* What the agent publishes is a message of the bus.                        *)
LEMMA MessageKinds ==
  ASSUME NEW v \in Vehicle, NEW st \in VehicleStatus, NEW e \in Emergency
  PROVE  /\ Report("register", v, st) \in UpMessage
         /\ Report("telemetry", v, st) \in UpMessage
         /\ Notice("alert", v) \in UpMessage
         /\ Notice("cleared", v) \in UpMessage
         /\ Ack(v, e) \in UpMessage
BY DEF Report, Notice, Ack, UpMessage

-----------------------------------------------------------------------------
(* Types.                                                                   *)

(* The state VehicleAgent.__init__ builds is well-typed.                    *)
LEMMA VehicleInitTypes == VehicleInit => VehicleTypeOK
BY DEF VehicleInit, VehicleTypeOK, VehicleStatus

(* VehicleAgent.start, the subscription of the listener and the end of the  *)
(* process.                                                                 *)
LEMMA LifeTypes ==
  ASSUME VehicleTypeOK, NEW v \in Vehicle,
         StartVehicle(v) \/ Subscribe(v) \/ Crash(v)
  PROVE  VehicleTypeOK'
<1> USE DEF VehicleTypeOK, bodyVars
<1>1. CASE StartVehicle(v)
  <2>1. <<Report("register", v, "IDLE")>> \in Seq(UpMessage)
    BY MessageKinds DEF Report, UpMessage, VehicleStatus
  <2>2. up' \in Seq(UpMessage)
    BY <1>1, <2>1, PublishTypes DEF StartVehicle
  <2> QED
    BY <1>1, <2>2 DEF StartVehicle
<1>2. CASE Subscribe(v)
  BY <1>2 DEF Subscribe
<1>3. CASE Crash(v)
  BY <1>3 DEF Crash, VehicleStatus
<1> QED
  BY <1>1, <1>2, <1>3

(* The handlers of _handle_command.                                         *)
LEMMA ListenerTypes ==
  ASSUME VehicleTypeOK, NEW v \in Vehicle,
         HandleDispatch(v) \/ SetTarget(v) \/ HandleResolve(v)
  PROVE  VehicleTypeOK'
<1> USE DEF VehicleTypeOK
<1> DEFINE m == Head(commands[v])
<1>1. commands[v] # <<>> => m \in Command /\ Tail(commands[v]) \in Seq(Command)
  BY HeadTailProperties
<1>2. CASE HandleDispatch(v)
  <2>1. m \in Command /\ m.cmd = "dispatch" /\ commands' \in [Vehicle -> Seq(Command)]
    BY <1>1, <1>2 DEF HandleDispatch, Listening, Consume
  <2>2. m.e \in Emergency
    BY <2>1 DEF Command
  <2> HIDE DEF m
  <2>3. CASE vstatus[v] = "MAINTENANCE"
    BY <1>2, <2>1, <2>3 DEF HandleDispatch
  <2>4. CASE vstatus[v] # "MAINTENANCE"
    <3>1. /\ vstatus' = [vstatus EXCEPT ![v] = "EN_ROUTE"]
          /\ mission' = [mission EXCEPT ![v] = m.e]
          /\ taking' = [taking EXCEPT ![v] = m.e]
          /\ Publish(<<Ack(v, m.e)>>)
          /\ UNCHANGED <<link, target, at, failing, repair, repaired>>
      BY <1>2, <2>4 DEF HandleDispatch, m
    <3>2. <<Ack(v, m.e)>> \in Seq(UpMessage)
      BY <2>2 DEF Ack, UpMessage
    <3>3. up' \in Seq(UpMessage)
      BY <3>1, <3>2, PublishTypes
    <3> QED
      BY <2>1, <2>2, <3>1, <3>3 DEF VehicleStatus
  <2> QED
    BY <2>3, <2>4
<1>3. CASE SetTarget(v)
  BY <1>3 DEF SetTarget
<1>4. CASE HandleResolve(v)
  BY <1>1, <1>4 DEF HandleResolve, Listening, Consume, VehicleStatus
<1> QED
  BY <1>2, <1>3, <1>4

(* What a tick outside maintenance does to the vehicle: it breaks down or   *)
(* it reports, perhaps having arrived.                                      *)
LEMMA TickOutcome ==
  ASSUME NEW v, NEW breaks, NEW raised, Tick(v, breaks, raised)
  PROVE  \/ EnterMaintenance(v)
         \/ /\ vstatus' = [vstatus EXCEPT ![v] = AfterArrival(v)]
            /\ UNCHANGED <<mission, target, repair>>
BY DEF Tick

(* A tick of a vehicle that is not under repair.                            *)
LEMMA TickTypes ==
  ASSUME VehicleTypeOK, NEW v \in Vehicle, NEW breaks \in BOOLEAN,
         NEW raised \in Severity, Tick(v, breaks, raised)
  PROVE  VehicleTypeOK'
<1>1. /\ vstatus' \in [Vehicle -> VehicleStatus]
      /\ mission' \in [Vehicle -> Emergency \cup {None}]
      /\ target' \in [Vehicle -> Emergency \cup {None}]
      /\ repair' \subseteq Vehicle
  <2>1. CASE EnterMaintenance(v)
    BY <2>1 DEF EnterMaintenance, VehicleTypeOK, VehicleStatus
  <2>2. CASE /\ vstatus' = [vstatus EXCEPT ![v] = AfterArrival(v)]
             /\ UNCHANGED <<mission, target, repair>>
    BY <2>2 DEF AfterArrival, VehicleTypeOK, VehicleStatus
  <2> QED
    BY <2>1, <2>2, TickOutcome
<1>2. at' \in [Vehicle -> Emergency \cup {None}]
  <2>1. PICK p \in Position(v) : at' = [at EXCEPT ![v] = p]
    BY DEF Tick
  <2>2. p \in Emergency \cup {None}
    BY DEF Position, VehicleTypeOK
  <2> QED
    BY <2>1, <2>2 DEF VehicleTypeOK
<1>3. failing' \subseteq Vehicle
  BY DEF Tick, VehicleTypeOK
<1>4. up' \in Seq(UpMessage)
  <2> DEFINE told == <<Report("telemetry", v, vstatus'[v])>>
             warned == IF raised = "none" THEN <<>> ELSE <<Notice("alert", v)>>
  <2>1. vstatus'[v] \in VehicleStatus
    BY <1>1
  <2>2. told \in Seq(UpMessage)
    BY <2>1 DEF Report, UpMessage
  <2>3. warned \in Seq(UpMessage)
    <3>1. <<Notice("alert", v)>> \in Seq(UpMessage)
      BY DEF Notice, UpMessage
    <3> QED
      BY <3>1, EmptySeq
  <2>4. Publish(told \o warned)
    BY DEF Tick
  <2> HIDE DEF told, warned
  <2>5. told \o warned \in Seq(UpMessage)
    BY <2>2, <2>3, ConcatProperties
  <2> QED
    BY <2>4, <2>5, PublishTypes DEF VehicleTypeOK
<1>5. UNCHANGED <<link, taking, repaired, commands>>
  BY DEF Tick
<1> QED
  BY <1>1, <1>2, <1>3, <1>4, <1>5 DEF VehicleTypeOK

(* The ticks of a vehicle under repair, _check_repair_complete.             *)
LEMMA RepairTypes ==
  ASSUME VehicleTypeOK, NEW v \in Vehicle,
         TickUnderRepair(v) \/ FinishRepair(v) \/ ReportRepaired(v)
  PROVE  VehicleTypeOK'
<1> USE DEF VehicleTypeOK
<1>1. \A st \in VehicleStatus : <<Report("telemetry", v, st)>> \in Seq(UpMessage)
  BY DEF Report, UpMessage
<1>2. CASE TickUnderRepair(v)
  <2>1. "MAINTENANCE" \in VehicleStatus
    BY DEF VehicleStatus
  <2>2. up' \in Seq(UpMessage)
    BY <1>1, <1>2, <2>1, PublishTypes DEF TickUnderRepair
  <2> QED
    BY <1>2, <2>2 DEF TickUnderRepair, bodyVars
<1>3. CASE FinishRepair(v)
  <2>1. <<Notice("cleared", v)>> \in Seq(UpMessage)
    BY DEF Notice, UpMessage
  <2>2. up' \in Seq(UpMessage)
    BY <1>3, <2>1, PublishTypes DEF FinishRepair
  <2> QED
    BY <1>3, <2>2 DEF FinishRepair, VehicleStatus
<1>4. CASE ReportRepaired(v)
  <2>1. up' \in Seq(UpMessage)
    BY <1>1, <1>4, PublishTypes DEF ReportRepaired
  <2>2. at' \in [Vehicle -> Emergency \cup {None}]
    BY <1>4 DEF ReportRepaired, Position
  <2> QED
    BY <1>4, <2>1, <2>2 DEF ReportRepaired
<1> QED
  BY <1>2, <1>3, <1>4

(* Commands that arrive from the bus and messages that are read from it.    *)
LEMMA EnvironmentTypes ==
  ASSUME VehicleTypeOK, AnyCommand \/ AnyReader
  PROVE  VehicleTypeOK'
<1> USE DEF VehicleTypeOK, bodyVars
<1>1. CASE AnyCommand
  <2>1. PICK vs \in SUBSET Vehicle, m \in Command : Deliver(vs, m)
    BY <1>1 DEF AnyCommand
  <2>2. commands' \in [Vehicle -> Seq(Command)]
    BY <2>1 DEF Deliver
  <2> QED
    BY <1>1, <2>2 DEF AnyCommand
<1>2. CASE AnyReader
  <2>1. up' \in Seq(UpMessage)
    BY <1>2, HeadTailProperties DEF AnyReader
  <2> QED
    BY <1>2, <2>1 DEF AnyReader
<1> QED
  BY <1>1, <1>2

(* Every step of the agents and of their environment keeps the types.       *)
LEMMA VehicleNextTypes ==
  ASSUME VehicleTypeOK, [VehicleNext]_vehicleVars
  PROVE  VehicleTypeOK'
<1>1. CASE UNCHANGED vehicleVars
  BY <1>1 DEF vehicleVars, VehicleTypeOK
<1>2. ASSUME NEW v \in Vehicle, VehicleStep(v) PROVE VehicleTypeOK'
  BY <1>2, LifeTypes, ListenerTypes, TickTypes, RepairTypes DEF VehicleStep, AnyTick
<1> QED
  BY <1>1, <1>2, EnvironmentTypes DEF VehicleNext

(* Type correctness of the agents under any commands and any loss.          *)
THEOREM VehicleTypeCorrect == VehicleSpec => []VehicleTypeOK
BY VehicleInitTypes, VehicleNextTypes, PTL DEF VehicleSpec

-----------------------------------------------------------------------------
(* Safety.                                                                  *)

Safe == MissionMatchesStatus /\ DriveIsConsistent /\ RepairIsTimed

(* A step that leaves every vehicle but one alone need only be looked at    *)
(* where it acts.                                                           *)
SafeAt(v) ==
  /\ vstatus[v] \in {"EN_ROUTE", "ON_SCENE"} <=> mission[v] # None
  /\ vstatus[v] = "EN_ROUTE" =>
       IF taking[v] = None THEN target[v] = mission[v] ELSE mission[v] = taking[v]
  /\ vstatus[v] = "MAINTENANCE" => v \in repair

(* The invariants speak of one vehicle at a time.                           *)
LEMMA SafeIsLocal == Safe <=> \A v \in Vehicle : SafeAt(v)
BY DEF Safe, SafeAt, MissionMatchesStatus, DriveIsConsistent, RepairIsTimed

OthersAlone(v) ==
  \A u \in Vehicle \ {v} :
    /\ vstatus'[u] = vstatus[u]
    /\ mission'[u] = mission[u]
    /\ target'[u] = target[u]
    /\ taking'[u] = taking[u]
    /\ u \in repair => u \in repair'

(* A step of one vehicle need only be examined at that vehicle.             *)
LEMMA SafeLocally ==
  ASSUME Safe, NEW v \in Vehicle, OthersAlone(v), SafeAt(v)'
  PROVE  Safe'
<1>1. \A u \in Vehicle \ {v} : SafeAt(u)'
  BY SafeIsLocal DEF OthersAlone, SafeAt
<1>2. \A u \in Vehicle : SafeAt(u)'
  BY <1>1
<1> QED
  BY <1>2 DEF Safe, SafeAt, MissionMatchesStatus, DriveIsConsistent, RepairIsTimed

(* A tick may arrive, or break down while the listener awaits: then the     *)
(* mission and the target go, but what is being acknowledged stays.         *)
LEMMA TickSafe ==
  ASSUME VInv, NEW v \in Vehicle, NEW breaks, NEW raised, Tick(v, breaks, raised)
  PROVE  Safe'
<1> USE DEF VInv, VehicleTypeOK
<1>1. Safe /\ SafeAt(v)
  BY SafeIsLocal DEF Safe
<1>2. UNCHANGED taking
  BY DEF Tick
<1>3. CASE EnterMaintenance(v)
  BY <1>1, <1>2, <1>3, SafeLocally DEF EnterMaintenance, OthersAlone, SafeAt
<1>4. CASE /\ vstatus' = [vstatus EXCEPT ![v] = AfterArrival(v)]
           /\ UNCHANGED <<mission, target, repair>>
  BY <1>1, <1>2, <1>4, SafeLocally DEF AfterArrival, OthersAlone, SafeAt
<1> QED
  BY <1>3, <1>4, TickOutcome

(* The listener, whatever a tick did during its await.                      *)
LEMMA ListenerSafe ==
  ASSUME VInv, NEW v \in Vehicle, HandleDispatch(v) \/ SetTarget(v) \/ HandleResolve(v)
  PROVE  Safe'
<1> USE DEF VInv, VehicleTypeOK
<1> DEFINE m == Head(commands[v])
<1>1. Safe /\ SafeAt(v)
  BY SafeIsLocal DEF Safe
<1>2. CASE HandleDispatch(v)
  <2>1. m \in Command /\ m.cmd = "dispatch" /\ taking[v] = None
    BY <1>2, HeadTailProperties DEF HandleDispatch, Listening
  <2>2. m.e # None
    BY <2>1, VehicleAssumption DEF Command, VehicleAssumption
  <2>3. UNCHANGED <<target, repair>>
    BY <1>2 DEF HandleDispatch
  <2>4. CASE vstatus[v] = "MAINTENANCE"
    <3>1. UNCHANGED <<vstatus, mission, taking>>
      BY <1>2, <2>4 DEF HandleDispatch
    <3> QED
      BY <1>1, <2>3, <3>1, SafeLocally DEF OthersAlone, SafeAt
  <2>5. CASE vstatus[v] # "MAINTENANCE"
    <3>1. /\ vstatus' = [vstatus EXCEPT ![v] = "EN_ROUTE"]
          /\ mission' = [mission EXCEPT ![v] = m.e]
          /\ taking' = [taking EXCEPT ![v] = m.e]
      BY <1>2, <2>5 DEF HandleDispatch
    <3> HIDE DEF m
    <3> QED
      BY <1>1, <2>2, <2>3, <3>1, SafeLocally DEF OthersAlone, SafeAt
  <2> QED
    BY <2>4, <2>5
<1>3. CASE SetTarget(v)
  BY <1>1, <1>3, SafeLocally DEF SetTarget, OthersAlone, SafeAt
<1>4. CASE HandleResolve(v)
  BY <1>1, <1>4, SafeLocally DEF HandleResolve, Listening, OthersAlone, SafeAt
<1> QED
  BY <1>2, <1>3, <1>4

(* VehicleAgent.start, the subscription of the listener and the end of the  *)
(* process; a new process knows of no mission.                              *)
LEMMA LifeSafe ==
  ASSUME VInv, NEW v \in Vehicle, StartVehicle(v) \/ Subscribe(v) \/ Crash(v)
  PROVE  Safe'
<1> USE DEF VInv, VehicleTypeOK
<1>1. Safe /\ SafeAt(v)
  BY SafeIsLocal DEF Safe
<1>2. CASE StartVehicle(v) \/ Subscribe(v)
  BY <1>1, <1>2, SafeLocally DEF StartVehicle, Subscribe, bodyVars, OthersAlone, SafeAt
<1>3. CASE Crash(v)
  BY <1>1, <1>3, SafeLocally DEF Crash, OthersAlone, SafeAt
<1> QED
  BY <1>2, <1>3

(* The ticks of a vehicle under repair: the one that ends it clears the     *)
(* timer.                                                                   *)
LEMMA RepairSafe ==
  ASSUME VInv, NEW v \in Vehicle,
         TickUnderRepair(v) \/ FinishRepair(v) \/ ReportRepaired(v)
  PROVE  Safe'
<1> USE DEF VInv, VehicleTypeOK
<1>1. Safe /\ SafeAt(v)
  BY SafeIsLocal DEF Safe
<1>2. CASE TickUnderRepair(v) \/ ReportRepaired(v)
  BY <1>1, <1>2, SafeLocally
     DEF TickUnderRepair, ReportRepaired, bodyVars, OthersAlone, SafeAt
<1>3. CASE FinishRepair(v)
  BY <1>1, <1>3, SafeLocally DEF FinishRepair, OthersAlone, SafeAt
<1> QED
  BY <1>2, <1>3

(* Together with the types, the three properties are preserved.             *)
LEMMA VehicleInduction == ASSUME VInv, [VehicleNext]_vehicleVars PROVE VInv'
<1>1. VehicleTypeOK'
  BY VehicleNextTypes DEF VInv
<1>2. ASSUME NEW v \in Vehicle, VehicleStep(v) PROVE Safe'
  BY <1>2, LifeSafe, TickSafe, RepairSafe, ListenerSafe DEF VehicleStep, AnyTick
<1>3. ASSUME UNCHANGED bodyVars PROVE Safe'
  BY <1>3 DEF bodyVars, VInv, Safe, MissionMatchesStatus, DriveIsConsistent, RepairIsTimed
<1>4. Safe'
  <2>1. CASE AnyCommand \/ AnyReader
    BY <1>3, <2>1 DEF AnyCommand, AnyReader
  <2>2. CASE UNCHANGED vehicleVars
    BY <1>3, <2>2 DEF vehicleVars, bodyVars
  <2> QED
    BY <1>2, <2>1, <2>2 DEF VehicleNext
<1> QED
  BY <1>1, <1>4 DEF VInv, Safe

(* The agents' inductive invariant, for any commands, crashes and losses.   *)
THEOREM VehicleInvariant == VehicleSpec => []VInv
<1>1. VehicleInit => VInv
  BY VehicleInitTypes
     DEF VehicleInit, VInv, MissionMatchesStatus, DriveIsConsistent, RepairIsTimed
<1> QED
  BY <1>1, VehicleInduction, PTL DEF VehicleSpec

(* An agent is on a mission exactly while it knows the emergency of it.     *)
THEOREM MissionMatchesStatusAlways == VehicleSpec => []MissionMatchesStatus
<1>1. VInv => MissionMatchesStatus
  BY DEF VInv
<1> QED
  BY <1>1, VehicleInvariant, PTL

(* An agent en route that has set its target drives to its own mission,     *)
(* whatever tick came between the acknowledgment and the target.            *)
THEOREM DrivesToMissionAlways == VehicleSpec => []DrivesToMission
<1>1. VInv => DrivesToMission
  BY DEF VInv, DriveIsConsistent, DrivesToMission
<1> QED
  BY <1>1, VehicleInvariant, PTL

(* An agent in MAINTENANCE always has a repair timer.                       *)
THEOREM RepairIsTimedAlways == VehicleSpec => []RepairIsTimed
<1>1. VInv => RepairIsTimed
  BY DEF VInv
<1> QED
  BY <1>1, VehicleInvariant, PTL

-----------------------------------------------------------------------------
(* The agents do the duty of a vehicle.                                     *)

DutyVars == <<vstatus, mission, failing, repair, Recalled, Running>>
DutyStep == Duty!Next \/ UNCHANGED DutyVars

(* While the process and its messages are left alone, so are these two.     *)
LEMMA LinkStays == ASSUME UNCHANGED link PROVE UNCHANGED Running
BY DEF Running

LEMMA RecallsStay == ASSUME UNCHANGED commands PROVE UNCHANGED Recalled
BY DEF Recalled

(* What is delivered may recall some of those that listen.                  *)
LEMMA DeliveryRecalls ==
  ASSUME VInv, NEW m, NEW vs \in SUBSET Vehicle, Deliver(vs, m)
  PROVE  \E ws \in SUBSET Running : Recalled' = Recalled \cup ws
<1> DEFINE ears == {v \in vs : link[v] = "listening"}
           ws == {v \in ears : Recalls(m, v)}
<1>1. ws \in SUBSET Running
  BY DEF Running
<1>2. ASSUME NEW v \in Vehicle PROVE v \in Recalled' <=> v \in Recalled \cup ws
  <2> DEFINE c == commands[v]
  <2>1. c \in Seq(Command)
    BY DEF VInv, VehicleTypeOK
  <2>2. commands'[v] = IF v \in ears THEN Append(c, m) ELSE c
    BY DEF Deliver
  <2>3. v \in Recalled <=> \E i \in 1..Len(c) : Recalls(c[i], v)
    BY DEF Recalled
  <2>4. v \in Recalled' <=> \E i \in 1..Len(commands'[v]) : Recalls(commands'[v][i], v)
    BY DEF Recalled, Recalls
  <2>5. CASE v \notin ears
    BY <2>2, <2>3, <2>4, <2>5
  <2>6. CASE v \in ears
    <3>1. /\ Len(Append(c, m)) = Len(c) + 1
          /\ Append(c, m)[Len(c) + 1] = m
          /\ \A i \in 1..Len(c) : Append(c, m)[i] = c[i]
          /\ Len(c) \in Nat
      BY <2>1
    <3> HIDE DEF c, ws
    <3>2. v \in ws <=> Recalls(m, v)
      BY <2>6 DEF ws
    <3>3. (\E i \in 1..(Len(c) + 1) : Recalls(Append(c, m)[i], v))
            <=> (\E i \in 1..Len(c) : Recalls(c[i], v)) \/ Recalls(m, v)
      BY <3>1
    <3> QED  BY <2>2, <2>3, <2>4, <2>6, <3>1, <3>2, <3>3
  <2> QED  BY <2>5, <2>6
<1>3. Recalled \subseteq Vehicle /\ Recalled' \subseteq Vehicle /\ ws \subseteq Vehicle
  BY DEF Recalled
<1> QED  BY <1>1, <1>2, <1>3

(* A command that is read no longer recalls, and leaves the others be.      *)
LEMMA ReadingRecalls ==
  ASSUME VInv, NEW v \in Vehicle, Listening(v), Consume(v)
  PROVE  /\ Recalled' \in {Recalled, Recalled \ {v}}
         /\ Recalls(Head(commands[v]), v) => v \in Recalled
         /\ ~Recalls(Head(commands[v]), v) => Recalled' = Recalled
<1> DEFINE c == commands[v]
<1>1. c \in Seq(Command) /\ c # <<>> /\ commands \in [Vehicle -> Seq(Command)]
  BY DEF VInv, VehicleTypeOK, Listening
<1>2. /\ Head(c) = c[1] /\ Len(c) \in Nat \ {0} /\ Len(Tail(c)) = Len(c) - 1
      /\ \A i \in 1..(Len(c) - 1) : Tail(c)[i] = c[i + 1]
  BY <1>1
<1>3. /\ commands'[v] = Tail(c)
      /\ \A w \in Vehicle : w # v => commands'[w] = commands[w]
  BY <1>1 DEF Consume
<1>4. v \in Recalled <=> \E i \in 1..Len(c) : Recalls(c[i], v)
  BY DEF Recalled
<1>5. v \in Recalled' <=> \E i \in 1..Len(commands'[v]) : Recalls(commands'[v][i], v)
  BY DEF Recalled, Recalls
<1>6. ASSUME NEW w \in Vehicle, w # v PROVE w \in Recalled' <=> w \in Recalled
  BY <1>3, <1>6 DEF Recalled, Recalls
<1>7. Recalled \subseteq Vehicle /\ Recalled' \subseteq Vehicle
  BY DEF Recalled
<1> HIDE DEF c
<1>8. v \in Recalled' => v \in Recalled
  <2>1. \A i \in 1..(Len(c) - 1) : i + 1 \in 1..Len(c)
    BY <1>2
  <2> QED  BY <1>2, <1>3, <1>4, <1>5, <2>1
<1>9. Recalls(Head(c), v) => v \in Recalled
  <2>1. 1 \in 1..Len(c)
    BY <1>2
  <2> QED  BY <1>2, <1>4, <2>1
<1>10. ASSUME ~Recalls(Head(c), v), v \in Recalled PROVE v \in Recalled'
  <2>1. PICK i \in 1..Len(c) : Recalls(c[i], v)
    BY <1>4, <1>10
  <2>2. i # 1
    BY <1>2, <1>10, <2>1
  <2>3. i - 1 \in 1..(Len(c) - 1) /\ (i - 1) + 1 = i
    BY <1>2, <2>1, <2>2
  <2>4. Recalls(Tail(c)[i - 1], v)
    BY <1>2, <2>1, <2>3
  <2> QED  BY <1>2, <1>3, <1>5, <2>3, <2>4
<1>11. Recalled' \in {Recalled, Recalled \ {v}}
  BY <1>6, <1>7, <1>8
<1>12. ~Recalls(Head(c), v) => Recalled' = Recalled
  BY <1>6, <1>7, <1>8, <1>10
<1> QED  BY <1>9, <1>11, <1>12 DEF c

(* A tick: a failure may strike, and the vehicle arrives, goes on or is     *)
(* grounded.                                                                *)
LEMMA TickServes ==
  ASSUME VInv, NEW v \in Vehicle, NEW breaks \in BOOLEAN, NEW raised, Tick(v, breaks, raised)
  PROVE  Duty!Serve(v)
<1>1. /\ v \in Running
      /\ vstatus[v] # "MAINTENANCE"
      /\ failing' \in {failing, failing \cup {v}}
      /\ vstatus \in [Vehicle -> VehicleStatus]
  BY DEF Tick, Ticking, VInv, VehicleTypeOK, Running
<1>2. UNCHANGED <<Recalled, Running>>
  BY LinkStays, RecallsStay DEF Tick
<1>3. CASE raised = "critical" /\ v \in failing'
  BY <1>1, <1>2, <1>3 DEF Tick, EnterMaintenance, Duty!Serve, Duty!Leave
<1>4. CASE ~(raised = "critical" /\ v \in failing')
  <2>1. vstatus' = [vstatus EXCEPT ![v] = AfterArrival(v)] /\ UNCHANGED <<mission, target, repair>>
    BY <1>4 DEF Tick
  <2>2. CASE AfterArrival(v) = vstatus[v]
    <3>1. vstatus' = vstatus
      BY <1>1, <2>1, <2>2
    <3> QED  BY <1>1, <1>2, <2>1, <3>1 DEF Duty!Serve
  <2>3. CASE AfterArrival(v) # vstatus[v]
    <3>1. vstatus[v] = "EN_ROUTE" /\ AfterArrival(v) = "ON_SCENE"
      BY <2>3 DEF AfterArrival
    <3> QED  BY <1>1, <1>2, <2>1, <3>1 DEF Duty!Serve
  <2> QED  BY <2>2, <2>3
<1> QED  BY <1>3, <1>4

(* The start and the end of a process.                                      *)
LEMMA LifeDuty ==
  ASSUME VInv, NEW v \in Vehicle, StartVehicle(v) \/ Subscribe(v) \/ Crash(v)
  PROVE  DutyStep
<1> USE DEF DutyVars, DutyStep
<1>1. link \in [Vehicle -> {"off", "deaf", "listening"}] /\ commands \in [Vehicle -> Seq(Command)]
  BY DEF VInv, VehicleTypeOK
<1>2. CASE StartVehicle(v)
  <2>1. v \notin Running /\ Running' = Running \cup {v}
    BY <1>1, <1>2 DEF StartVehicle, Running
  <2>2. UNCHANGED Recalled
    BY <1>2, RecallsStay DEF StartVehicle
  <2>3. Duty!Start(v)
    BY <1>2, <2>1, <2>2 DEF StartVehicle, bodyVars, Duty!Start
  <2> QED  BY <2>3 DEF Duty!Next
<1>3. CASE Subscribe(v)
  <2>1. UNCHANGED Running
    BY <1>1, <1>3 DEF Subscribe, Running
  <2>2. UNCHANGED Recalled
    BY <1>3, RecallsStay DEF Subscribe
  <2> QED  BY <1>3, <2>1, <2>2 DEF Subscribe, bodyVars
<1>4. CASE Crash(v)
  <2>1. v \in Running /\ Running' = Running \ {v}
    BY <1>1, <1>4 DEF Crash, Running
  <2>2. Recalled' = Recalled \ {v}
    <3>1. /\ commands'[v] = <<>>
          /\ \A w \in Vehicle : w # v => commands'[w] = commands[w]
      BY <1>1, <1>4 DEF Crash
    <3>2. v \notin Recalled'
      BY <3>1 DEF Recalled
    <3>3. ASSUME NEW w \in Vehicle, w # v PROVE w \in Recalled' <=> w \in Recalled
      BY <3>1, <3>3 DEF Recalled, Recalls
    <3>4. Recalled \subseteq Vehicle /\ Recalled' \subseteq Vehicle
      BY DEF Recalled
    <3> QED  BY <3>2, <3>3, <3>4
  <2>3. Duty!End(v)
    BY <1>4, <2>1, <2>2 DEF Crash, Duty!End, Duty!Leave
  <2> QED  BY <2>3 DEF Duty!Next
<1> QED  BY <1>2, <1>3, <1>4

(* The commands.                                                            *)
LEMMA ListenerDuty ==
  ASSUME VInv, NEW v \in Vehicle, HandleDispatch(v) \/ HandleResolve(v)
  PROVE  DutyStep
<1> USE DEF DutyVars, DutyStep
<1> DEFINE m == Head(commands[v])
<1>1. Listening(v) /\ Consume(v) /\ v \in Running /\ UNCHANGED Running
  <2>1. UNCHANGED link
    BY DEF HandleDispatch, HandleResolve
  <2>2. Listening(v) /\ Consume(v)
    BY DEF HandleDispatch, HandleResolve
  <2> QED  BY <2>1, <2>2, LinkStays DEF Listening, Running
<1>2. /\ Recalled' \in {Recalled, Recalled \ {v}}
      /\ Recalls(m, v) => v \in Recalled
      /\ ~Recalls(m, v) => Recalled' = Recalled
  BY <1>1, ReadingRecalls
<1>3. CASE HandleDispatch(v)
  <2>1. m \in Command /\ m.cmd = "dispatch"
    BY <1>3, HeadTailProperties DEF HandleDispatch, Listening, VInv, VehicleTypeOK
  <2>2. m.e \in Emergency
    BY <2>1 DEF Command
  <2>3. Recalled' = Recalled
    BY <1>2, <2>1 DEF Recalls
  <2>4. CASE vstatus[v] = "MAINTENANCE"
    BY <1>1, <1>3, <2>3, <2>4 DEF HandleDispatch
  <2>5. CASE vstatus[v] # "MAINTENANCE"
    <3>1. Duty!Take(v, m.e)
      BY <1>1, <1>3, <2>3, <2>5 DEF HandleDispatch, Duty!Take
    <3> QED  BY <2>2, <3>1 DEF Duty!Next
  <2> QED  BY <2>4, <2>5
<1>4. CASE HandleResolve(v)
  <2>1. CASE v \in m.vs
    <3>1. v \in Recalled
      BY <1>2, <1>4, <2>1 DEF Recalls, HandleResolve
    <3>2. Duty!Release(v)
      BY <1>1, <1>2, <1>4, <2>1, <3>1 DEF HandleResolve, Duty!Release, Duty!Leave
    <3> QED  BY <3>2 DEF Duty!Next
  <2>2. CASE v \notin m.vs
    <3>1. Recalled' = Recalled
      BY <1>2, <2>2 DEF Recalls
    <3> QED  BY <1>1, <1>4, <2>2, <3>1 DEF HandleResolve
  <2> QED  BY <2>1, <2>2
<1> QED  BY <1>3, <1>4

(* Every step of an agent starts it, serves, takes, ends or repairs, or is  *)
(* no matter of its duty.                                                   *)
LEMMA AgentDuty == ASSUME VInv, NEW v \in Vehicle, VehicleStep(v) PROVE DutyStep
<1> USE DEF DutyVars, DutyStep
<1>1. CASE TickUnderRepair(v) \/ ReportRepaired(v) \/ SetTarget(v)
  <2>1. UNCHANGED <<link, commands>>
    BY <1>1 DEF TickUnderRepair, ReportRepaired, SetTarget
  <2>2. UNCHANGED <<Recalled, Running>>
    BY <2>1, LinkStays, RecallsStay
  <2> QED  BY <1>1, <2>2 DEF TickUnderRepair, ReportRepaired, SetTarget, bodyVars
<1>2. CASE StartVehicle(v) \/ Subscribe(v) \/ Crash(v)
  BY <1>2, LifeDuty
<1>3. ASSUME NEW breaks \in BOOLEAN, NEW raised \in Severity, Tick(v, breaks, raised)
      PROVE  DutyStep
  BY <1>3, TickServes DEF Duty!Next
<1>4. CASE FinishRepair(v)
  <2>1. mission = [mission EXCEPT ![v] = None]
    BY <1>4 DEF FinishRepair, VInv, VehicleTypeOK, MissionMatchesStatus
  <2>2. UNCHANGED <<Recalled, Running>> /\ v \in Running
    BY <1>4, LinkStays, RecallsStay DEF FinishRepair, Ticking, Running
  <2>3. Duty!Repair(v)
    BY <1>4, <2>1, <2>2 DEF FinishRepair, Duty!Repair, Duty!Leave
  <2> QED  BY <2>3 DEF Duty!Next
<1>5. CASE HandleDispatch(v) \/ HandleResolve(v)
  BY <1>5, ListenerDuty
<1> QED  BY <1>1, <1>2, <1>3, <1>4, <1>5 DEF VehicleStep, AnyTick

(* Whatever commands are delivered, and whoever reads what vehicles report. *)
LEMMA EnvironmentDuty ==
  ASSUME VInv, AnyCommand \/ AnyReader \/ UNCHANGED vehicleVars PROVE DutyStep
<1> USE DEF DutyVars, DutyStep
<1>1. UNCHANGED <<link, bodyVars>> /\ UNCHANGED Running
  BY LinkStays DEF AnyCommand, AnyReader, vehicleVars, bodyVars
<1>2. UNCHANGED <<vstatus, mission, failing, repair>>
  BY <1>1 DEF bodyVars
<1>3. CASE AnyReader \/ UNCHANGED vehicleVars
  <2>1. UNCHANGED Recalled
    BY <1>3, RecallsStay DEF AnyReader, vehicleVars
  <2> QED  BY <1>1, <1>2, <2>1
<1>4. CASE AnyCommand
  <2>1. PICK ws \in SUBSET Running : Recalled' = Recalled \cup ws
    BY <1>4, DeliveryRecalls DEF AnyCommand
  <2>2. ws \in SUBSET Vehicle
    BY <2>1 DEF Running
  <2>3. Duty!Recall(ws)
    BY <1>1, <1>2, <2>1 DEF Duty!Recall
  <2> QED  BY <2>2, <2>3 DEF Duty!Next
<1> QED  BY <1>3, <1>4

(* Whatever the two tasks of an agent, the bus and the process do, it does  *)
(* the duty of a vehicle: above all no step but the repair of a timer that  *)
(* ran, a resolution that names it and the end of its process takes it out  *)
(* of MAINTENANCE.                                                          *)
THEOREM AgentsDoTheirDuty == VehicleSpec => RefinesDuty
<1>1. VehicleInit => Duty!Init
  <2>1. VehicleInit => Recalled = {} /\ Running \subseteq Vehicle
    BY DEF VehicleInit, Recalled, Running
  <2> QED  BY <2>1 DEF VehicleInit, Duty!Init
<1>2. VInv /\ [VehicleNext]_vehicleVars => [Duty!Next]_(Duty!vars)
  <2> SUFFICES ASSUME VInv, [VehicleNext]_vehicleVars PROVE DutyStep
    BY DEF DutyStep, DutyVars, Duty!vars
  <2>1. CASE AnyCommand \/ AnyReader \/ UNCHANGED vehicleVars
    BY <2>1, EnvironmentDuty
  <2> QED  BY <2>1, AgentDuty DEF VehicleNext
<1> QED  BY <1>1, <1>2, VehicleInvariant, PTL DEF VehicleSpec, RefinesDuty, Duty!Spec
=============================================================================
