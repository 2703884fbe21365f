-------------------------- MODULE VehicleBodyProofs --------------------------
(***************************************************************************)
(* What holds of a vehicle's body for every service area, road graph, set  *)
(* of scenes, vehicle type, set of failures and length of the tick within  *)
(* the assumptions of Navigation and VehicleBody, and what the tables of   *)
(* the code say about ticks and warnings.                                  *)
(***************************************************************************)
EXTENDS VehicleBody, FiniteSetTheorems, SequenceTheorems, TLAPS

-----------------------------------------------------------------------------
(* The tables.                                                              *)

(* navigation.py: at up to 4 s per tick no vehicle covers, at any hour, the *)
(* diameter of the arrival radius, which is the proviso of Arrives.  The    *)
(* default is a tick per second, but the configuration allows up to 10 s;   *)
(* from 5 s on a police unit covers it at night.                            *)
THEOREM TickIsShort ==
  ASSUME NEW kind \in VehicleType, NEW hour \in 0..23, NEW seconds \in 1..4
  PROVE  StepLength(EnRouteSpeed[kind], hour, seconds) < 2 * ArrivalRadius
<1>1. EnRouteSpeed[kind] \in 52..78
  BY DEF VehicleType, EnRouteSpeed
<1>2. TrafficPercent(hour) \in {75, 90, 110}
  BY DEF TrafficPercent
<1>3. \A v \in 52..78 :
        v * 75 * seconds < 36000 /\ v * 90 * seconds < 36000 /\ v * 110 * seconds < 36000
  OBVIOUS
<1> QED  BY <1>1, <1>2, <1>3 DEF StepLength, ArrivalRadius

(* failure_injector.py and anomaly_detector.py: whatever the vehicle type   *)
(* and the failure, a reading stays in the warning band for 2 minutes; less *)
(* time never takes it from inconspicuous to critical.                      *)
THEOREM RulesWarnFirst ==
  ASSUME NEW kind \in VehicleType, NEW s \in Scenario, NEW a \in Nat, NEW d \in 0..119,
         Judge(kind, s, a + d) = "critical"
  PROVE  Judge(kind, s, a) # "none"
<1> USE DEF Judge, Reading, Beyond, Baseline, WarnAt, CriticalAt, Ceiling, Rising
<1>1. s \in Checked
  BY DEF Judge
<1>2. CASE s = "engine_overheat"
  <2>1. CASE kind = "ambulance"   BY <1>1, <1>2, <2>1 DEF Checked
  <2>2. CASE kind = "fire_truck"  BY <1>1, <1>2, <2>2 DEF Checked
  <2>3. CASE kind = "police"      BY <1>1, <1>2, <2>3 DEF Checked
  <2> QED  BY <2>1, <2>2, <2>3 DEF VehicleType
<1>3. CASE s = "battery_degradation"
  <2>1. CASE kind = "ambulance"   BY <1>1, <1>3, <2>1 DEF Checked
  <2>2. CASE kind = "fire_truck"  BY <1>1, <1>3, <2>2 DEF Checked
  <2>3. CASE kind = "police"      BY <1>1, <1>3, <2>3 DEF Checked
  <2> QED  BY <2>1, <2>2, <2>3 DEF VehicleType
<1>4. CASE s = "fuel_leak"
  <2>1. CASE kind = "ambulance"   BY <1>1, <1>4, <2>1 DEF Checked
  <2>2. CASE kind = "fire_truck"  BY <1>1, <1>4, <2>2 DEF Checked
  <2>3. CASE kind = "police"      BY <1>1, <1>4, <2>3 DEF Checked
  <2> QED  BY <2>1, <2>2, <2>3 DEF VehicleType
<1> QED  BY <1>1, <1>2, <1>3, <1>4 DEF Checked

(* A failure that has just been activated does not show.                    *)
LEMMA FreshIsQuiet ==
  ASSUME NEW kind \in VehicleType, NEW s \in Scenario
  PROVE  Judge(kind, s, 0) = "none"
<1> USE DEF Judge, Reading, Beyond, Baseline, WarnAt, CriticalAt, Ceiling, Rising, Checked
<1>1. CASE kind = "ambulance"   BY <1>1 DEF Scenario
<1>2. CASE kind = "fire_truck"  BY <1>2 DEF Scenario
<1>3. CASE kind = "police"      BY <1>3 DEF Scenario
<1> QED  BY <1>1, <1>2, <1>3 DEF VehicleType

(* The judgements are severities.                                           *)
LEMMA JudgeTypes ==
  ASSUME NEW kind, NEW s, NEW a PROVE Judge(kind, s, a) \in Severity
BY DEF Judge, Severity

-----------------------------------------------------------------------------
(* Movement.                                                                *)

(* The service area is never left.                                          *)
LEMMA ClampTypes == ASSUME NEW x PROVE Clamp(x) \in 0..Edge
BY NavigationAssumption DEF Clamp

(* The walk passes some of the points of the route.                         *)
LEMMA PassedTypes ==
  ASSUME NEW p, NEW r \in Seq(Int), NEW step
  PROVE  Passed(p, r, step) \in 0..Len(r)
<1>1. \A T \in SUBSET (1..Len(r)) : Cardinality(T) \in 0..Len(r)
  <2> SUFFICES ASSUME NEW T \in SUBSET (1..Len(r)) PROVE Cardinality(T) \in 0..Len(r)
    OBVIOUS
  <2>1. IsFiniteSet(1..Len(r)) /\ Cardinality(1..Len(r)) = Len(r)
    <3>1. 1 \in Int /\ Len(r) \in Nat
      OBVIOUS
    <3> QED  BY <3>1, FS_Interval
  <2>2. IsFiniteSet(T) /\ Cardinality(T) <= Cardinality(1..Len(r))
    BY <2>1, FS_Subset
  <2>3. Cardinality(T) \in Nat
    BY <2>2, FS_CardinalityType
  <2> QED  BY <2>1, <2>2, <2>3
<1>2. \E T \in SUBSET (1..Len(r)) : Passed(p, r, step) = Cardinality(T)
  BY DEF Passed
<1> QED  BY <1>1, <1>2

(* A step along a road keeps the vehicle in the area; the rest of the route *)
(* ends where the route did, and the vehicle halts at its end.              *)
LEMMA RoadStep ==
  ASSUME NEW p, NEW r \in Seq(Int), r # <<>>, NEW step
  PROVE  LET to == FollowRoad(p, r, step) IN
         /\ to.pos \in 0..Edge
         /\ to.route \in Seq(Int)
         /\ to.halted \in BOOLEAN
         /\ to.halted => to.pos = Clamp(r[Len(r)]) /\ to.route = <<>>
         /\ ~to.halted => to.route # <<>> /\ to.route[Len(to.route)] = r[Len(r)]
<1> DEFINE k == Passed(p, r, step)
           to == FollowRoad(p, r, step)
<1>1. k \in 0..Len(r)
  BY PassedTypes
<1>2. /\ \E x : to.pos = Clamp(x)
      /\ k = Len(r) => to.pos = Clamp(IF k = 0 THEN p ELSE r[k])
      /\ to.route = SubSeq(r, k + 1, Len(r))
      /\ to.halted = (k = Len(r))
  BY DEF FollowRoad
<1>9. to.halted <=> k = Len(r)
  BY <1>2, Zenon
<1> HIDE DEF k, to
<1>3. to.pos \in 0..Edge
  BY <1>2, ClampTypes
<1>4. to.route \in Seq(Int)
  BY <1>1, <1>2
<1>5. to.halted => to.pos = Clamp(r[Len(r)])
  <2>1. Len(r) # 0
    OBVIOUS
  <2>2. k = Len(r) => to.pos = Clamp(r[k])
    BY <1>2, <2>1
  <2> QED  BY <1>9, <2>2
<1>6. ASSUME ~to.halted PROVE to.route # <<>> /\ to.route[Len(to.route)] = r[Len(r)]
  <2>1. k < Len(r) /\ Len(SubSeq(r, k + 1, Len(r))) = Len(r) - k
    <3>1. k # Len(r)
      BY <1>6, <1>9
    <3> QED  BY <1>1, <3>1
  <2>2. SubSeq(r, k + 1, Len(r))[Len(r) - k] = r[Len(r)]
    BY <1>1, <2>1
  <2>3. to.route = SubSeq(r, k + 1, Len(r))
    BY <1>2
  <2>4. Len(to.route) = Len(r) - k /\ Len(r) - k # 0
    BY <1>1, <2>1, <2>3
  <2>5. to.route[Len(r) - k] = r[Len(r)]
    BY <2>2, <2>3
  <2>6. to.route # <<>>
    BY <2>4
  <2> QED  BY <2>4, <2>5, <2>6
<1>7. to.halted \in BOOLEAN
  BY <1>2
<1>8. to.halted => to.route = <<>>
  BY <1>1, <1>2, <1>9
<1> QED  BY <1>3, <1>4, <1>5, <1>6, <1>7, <1>8 DEF to

(* Where no route is left, the vehicle halts on the spot.                   *)
LEMMA RoadEnds ==
  ASSUME NEW p, NEW step
  PROVE  LET to == FollowRoad(p, <<>>, step) IN
         /\ to.pos \in 0..Edge
         /\ to.route = <<>>
         /\ to.halted \in BOOLEAN
         /\ to.halted
<1> DEFINE r == <<>>
           k == Passed(p, r, step)
           to == FollowRoad(p, r, step)
<1>1. r \in Seq(Int) /\ Len(r) = 0
  OBVIOUS
<1>2. k = 0
  <2>1. k \in 0..Len(r)
    BY <1>1, PassedTypes
  <2> QED  BY <1>1, <2>1
<1>3. /\ \E x : to.pos = Clamp(x)
      /\ to.route = SubSeq(r, k + 1, Len(r))
      /\ to.halted = (k = Len(r))
  BY DEF FollowRoad
<1> HIDE DEF k, to
<1>4. to.pos \in 0..Edge
  BY <1>3, ClampTypes
<1>5. to.halted \in BOOLEAN /\ to.halted
  BY <1>1, <1>2, <1>3, Zenon
<1>6. to.route = <<>>
  BY <1>1, <1>2, <1>3
<1> QED  BY <1>4, <1>5, <1>6 DEF to, r

(* A step on the straight way keeps the vehicle in the area, halts it near  *)
(* its target, and takes it nearer to one in the area otherwise, unless the *)
(* step is so long that it ends as far beyond it.                           *)
LEMMA StraightStep ==
  ASSUME NEW p \in 0..Edge, NEW target \in Int, NEW step \in Nat \ {0}
  PROVE  LET to == Drive(p, target, step) IN
         /\ to.pos \in 0..Edge
         /\ to.route = <<>>
         /\ to.halted \in BOOLEAN
         /\ to.halted => to.pos = p /\ Distance(p, target) < Radius
         /\ ~to.halted /\ target \in 0..Edge /\ step < 2 * Distance(p, target)
              => Distance(to.pos, target) < Distance(p, target)
<1>1. CASE Near(p, target)
  BY <1>1 DEF Drive, Near
<1>2. CASE ~Near(p, target)
  <2>1. /\ Drive(p, target, step).pos = Clamp(Towards(p, target, step))
        /\ Drive(p, target, step).route = <<>>
        /\ Drive(p, target, step).halted = FALSE
    BY <1>2 DEF Drive
  <2>2. ASSUME target \in 0..Edge, step < 2 * Distance(p, target)
        PROVE  Distance(Clamp(Towards(p, target, step)), target) < Distance(p, target)
    <3> QED  BY <2>2, NavigationAssumption DEF Distance, Clamp, Towards
  <2> QED  BY <2>1, <2>2, ClampTypes
<1> QED  BY <1>1, <1>2

-----------------------------------------------------------------------------
(* The invariant.                                                           *)

(* A vehicle on a mission has a scene to go to, where it has been assigned; *)
(* and a dispatch whose acknowledgment is awaited is for that scene.        *)
MissionKnown ==
  vstatus \in {"EN_ROUTE", "ON_SCENE"} =>
    mission \in Place \cap assigned /\ taking \in {mission, Nowhere}

(* Otherwise the vehicle on its way has that scene as its target, and a     *)
(* road that is left to follow, if it follows one.                          *)
OnTheWay ==
  vstatus = "EN_ROUTE" /\ taking = Nowhere =>
    dest = mission /\ (byRoad => route # <<>>)

(* What is left of a road leads to the target.                              *)
RoadLeadsThere ==
  byRoad => dest \in Place /\ (route # <<>> => route[Len(route)] = dest)

WayInv == MissionKnown /\ OnTheWay /\ RoadLeadsThere

(* What the rules can see of a failure, the orchestrator has been told.     *)
Told ==
  ~learned =>
    /\ vstatus = "MAINTENANCE" => alerted
    /\ \A s \in DOMAIN age : Judge(Kind, s, age[s]) # "none" => alerted

BodyInv == BodyTypeOK /\ WayInv /\ CriticalIsGrounded /\ Told

(* A vehicle starts idle, healthy and in the service area.                  *)
LEMMA BodyStarts == BodyInit => BodyInv
<1> SUFFICES ASSUME BodyInit PROVE BodyInv
  OBVIOUS
<1> USE DEF BodyInit
<1>1. DOMAIN age = {}
  OBVIOUS
<1>2. BodyTypeOK
  <2>1. sent \in [st : VehicleStatus, worst : Severity]
    BY DEF VehicleStatus, Severity
  <2>2. age \in [DOMAIN age -> Nat] /\ DOMAIN age \subseteq Failures
    BY <1>1
  <2>3. ticks \in 0..(WarmUp + Window) /\ breaks \in 0..MaxBreaks /\ timer \in Nat
    BY BodyAssumption
  <2>4. route \in Seq(Int)
    OBVIOUS
  <2> QED  BY <2>1, <2>2, <2>3, <2>4, Zenon DEF BodyTypeOK, VehicleStatus
<1> QED  BY <1>1, <1>2 DEF BodyInv, WayInv, MissionKnown, OnTheWay, RoadLeadsThere,
                          CriticalIsGrounded, Told

(* The pace of a vehicle is made of steps that take it somewhere.           *)
LEMMA PaceTypes == BodyTypeOK => pace \subseteq Nat \ {0}
BY BodyAssumption DEF BodyTypeOK

(* What a movement can do.                                                  *)
LEMMA MovementFacts ==
  ASSUME BodyInv, NEW m \in Movement
  PROVE  /\ m.pos \in 0..Edge /\ m.route \in Seq(Int)
         /\ vstatus = "EN_ROUTE" /\ m.halted /\ dest \in 0..Edge /\ (byRoad => route # <<>>)
              => Distance(m.pos, dest) < Radius
         /\ vstatus = "EN_ROUTE" /\ byRoad
              => /\ m.route # <<>> => m.route[Len(m.route)] = dest
                 /\ ~m.halted => m.route # <<>>
         /\ vstatus = "EN_ROUTE" /\ ~m.halted /\ ~byRoad /\ dest \in 0..Edge
            /\ (\A step \in pace : ~Overshoots(step))
              => Distance(m.pos, dest) < Distance(pos, dest)
         /\ vstatus # "EN_ROUTE" => m.route = route
<1> USE DEF BodyInv
<1>1. /\ pos \in 0..Edge /\ route \in Seq(Int) /\ vstatus \in VehicleStatus
      /\ byRoad \in BOOLEAN /\ dest \in Place \cup {Nowhere}
      /\ Place \subseteq Int /\ Nowhere \notin Int
  BY BodyAssumption DEF BodyTypeOK
<1>2. CASE vstatus = "IDLE"
  <2>1. PICK p \in UNION {Patrol(pos, step) : step \in pace} :
          m = [pos |-> p, route |-> route, halted |-> FALSE]
    BY <1>2 DEF Movement
  <2>2. p \in 0..Edge
    BY ClampTypes DEF Patrol
  <2>3. m.pos \in 0..Edge /\ m.route = route
    BY <2>1, <2>2
  <2>4. vstatus # "EN_ROUTE"
    BY <1>2
  <2> QED  BY <1>1, <2>3, <2>4
<1>3. CASE vstatus = "EN_ROUTE" /\ ~byRoad /\ dest # Nowhere
  <2>1. PICK step \in pace : m = Drive(pos, dest, step)
    BY <1>3 DEF Movement
  <2>2. dest \in Int /\ step \in Nat \ {0}
    BY <1>1, <1>3, PaceTypes
  <2>3. /\ m.pos \in 0..Edge
        /\ m.route = <<>>
        /\ m.halted => m.pos = pos /\ Distance(pos, dest) < Radius
        /\ ~m.halted /\ dest \in 0..Edge /\ step < 2 * Distance(pos, dest)
             => Distance(m.pos, dest) < Distance(pos, dest)
    BY <1>1, <2>1, <2>2, StraightStep
  <2>4. m.route \in Seq(Int)
    BY <2>3
  <2>5. dest \in 0..Edge /\ ~Overshoots(step) => step < 2 * Distance(pos, dest)
    BY <1>1, <2>2, NavigationAssumption DEF Overshoots, Distance
  <2>6. (\A s \in pace : ~Overshoots(s)) => ~Overshoots(step)
    BY <2>1
  <2>7. m.halted /\ dest \in 0..Edge => Distance(m.pos, dest) < Radius
    BY <2>3
  <2>8. ~m.halted /\ dest \in 0..Edge /\ (\A s \in pace : ~Overshoots(s))
          => Distance(m.pos, dest) < Distance(pos, dest)
    BY <2>3, <2>5, <2>6
  <2>9. m.pos \in 0..Edge
    BY <2>3
  <2> QED  BY <1>3, <2>4, <2>7, <2>8, <2>9
<1>4. CASE vstatus = "EN_ROUTE" /\ byRoad /\ route # <<>>
  <2>1. PICK step \in pace : m = FollowRoad(pos, route, step)
    BY <1>4 DEF Movement
  <2>2. route[Len(route)] = dest
    BY <1>4 DEF WayInv, RoadLeadsThere
  <2>3. /\ m.pos \in 0..Edge /\ m.route \in Seq(Int)
        /\ m.halted => m.pos = Clamp(dest) /\ m.route = <<>>
        /\ ~m.halted => m.route # <<>> /\ m.route[Len(m.route)] = dest
    BY <1>1, <1>4, <2>1, <2>2, RoadStep
  <2>4. dest \in 0..Edge => Distance(Clamp(dest), dest) < Radius
    BY NavigationAssumption DEF Clamp, Distance
  <2> QED  BY <1>4, <2>3, <2>4
<1>5. CASE vstatus = "EN_ROUTE" /\ byRoad /\ route = <<>>
  <2>1. PICK step \in pace : m = FollowRoad(pos, <<>>, step)
    BY <1>5 DEF Movement
  <2>2. m.pos \in 0..Edge /\ m.route = <<>> /\ m.halted
    BY <2>1, RoadEnds
  <2> QED  BY <1>5, <2>2
<1>6. CASE vstatus = "EN_ROUTE" /\ ~byRoad /\ dest = Nowhere
  <2>1. m = [pos |-> pos, route |-> route, halted |-> TRUE]
    BY <1>6 DEF Movement
  <2> QED  BY <1>1, <1>6, <2>1
<1>7. CASE vstatus \in {"ON_SCENE", "MAINTENANCE"}
  <2>1. m = [pos |-> pos, route |-> route, halted |-> TRUE]
    BY <1>7 DEF Movement
  <2> QED  BY <1>1, <1>7, <2>1
<1> QED  BY <1>1, <1>2, <1>3, <1>4, <1>5, <1>6, <1>7 DEF VehicleStatus

(* What a tick does to the failures: each is as old as it was, older by a   *)
(* tick, or new.                                                            *)
LEMMA AgeingFacts ==
  ASSUME BodyTypeOK, age' = Aged \/ \E f \in Failures : age' = Break(f)
  PROVE  /\ DOMAIN age' \subseteq Failures
         /\ age' \in [DOMAIN age' -> Nat]
         /\ \A s \in DOMAIN age' :
              \/ age'[s] = 0
              \/ s \in DOMAIN age /\ \E d \in 0..119 : age'[s] = age[s] + d
<1>1. DOMAIN age \subseteq Failures /\ \A s \in DOMAIN age : age[s] \in Nat
  BY DEF BodyTypeOK
<1>2. \A s \in DOMAIN age : Older(s, age[s]) \in Nat
                            /\ \E d \in 0..119 : Older(s, age[s]) = age[s] + d
  <2> SUFFICES ASSUME NEW s \in DOMAIN age
               PROVE  \E d \in 0..119 : Older(s, age[s]) = age[s] + d
    BY <1>1
  <2>1. Older(s, age[s]) \in {age[s] + TickSeconds, age[s] + 0}
    BY <1>1 DEF Older
  <2>2. TickSeconds \in 0..119 /\ 0 \in 0..119
    BY BodyAssumption
  <2> QED  BY <2>1, <2>2
<1>3. CASE age' = Aged
  BY <1>1, <1>2, <1>3 DEF Aged
<1>4. ASSUME NEW f \in Failures, age' = Break(f)
      PROVE  /\ DOMAIN age' \subseteq Failures
             /\ age' \in [DOMAIN age' -> Nat]
             /\ \A s \in DOMAIN age' :
                  \/ age'[s] = 0
                  \/ s \in DOMAIN age /\ \E d \in 0..119 : age'[s] = age[s] + d
  <2>1. /\ DOMAIN age' = DOMAIN age \cup {f}
        /\ age' = [s \in DOMAIN age' |-> age'[s]]
        /\ \A s \in DOMAIN age' : age'[s] = IF s = f THEN 0 ELSE Older(s, age[s])
    BY <1>4 DEF Break, Aged
  <2> QED  BY <1>1, <1>2, <2>1
<1> QED  BY <1>3, <1>4

-----------------------------------------------------------------------------
(* The commands.                                                            *)

(* A route that is planned leads to the scene.                              *)
LEMMA RoutesLeadThere ==
  ASSUME NEW place \in Place, NEW r \in Routes(place)
  PROVE  r \in Seq(Int) /\ (r # <<>> => r[Len(r)] = place)
<1>1. CASE r = <<>>
  BY <1>1
<1>2. CASE r # <<>>
  <2>1. PICK nodes \in NodePaths : r = Append(nodes, place)
    BY <1>2 DEF Routes
  <2>2. nodes \in Seq(Int) /\ place \in Int
    BY NavigationAssumption, BodyAssumption
  <2> QED  BY <2>1, <2>2
<1> QED  BY <1>1, <1>2

(* A dispatch sends the vehicle to its scene, or changes nothing.           *)
LEMMA DispatchKeeps ==
  ASSUME BodyInv, NEW place \in Place, Dispatch(place)
  PROVE  BodyInv'
<1> USE DEF BodyInv, WayInv
<1>1. /\ UNCHANGED <<provider, learned, pace, dest, byRoad, route, pos, age, timer,
                     ticks, sent, alerted, breaks>>
      /\ assigned' = assigned \cup {place}
  BY DEF Dispatch, config, driving, health
<1>2. CASE vstatus = "MAINTENANCE"
  <2>1. UNCHANGED <<vstatus, mission, taking>>
    BY <1>2 DEF Dispatch
  <2> QED  BY <1>1, <1>2, <2>1
           DEF BodyTypeOK, MissionKnown, OnTheWay, RoadLeadsThere, CriticalIsGrounded, Told
<1>3. CASE vstatus # "MAINTENANCE"
  <2>1. vstatus' = "EN_ROUTE" /\ mission' = place /\ taking' = place
    BY <1>3 DEF Dispatch
  <2>2. place # Nowhere
    BY BodyAssumption
  <2>3. BodyTypeOK'
    BY <1>1, <2>1 DEF BodyTypeOK, VehicleStatus
  <2>4. MissionKnown' /\ OnTheWay' /\ RoadLeadsThere'
    BY <1>1, <2>1, <2>2 DEF MissionKnown, OnTheWay, RoadLeadsThere
  <2>5. CriticalIsGrounded' /\ Told'
    BY <1>1, <2>1 DEF CriticalIsGrounded, Told
  <2> QED  BY <2>3, <2>4, <2>5
<1> QED  BY <1>2, <1>3

(* The target is that of the mission, unless a tick has ended the mission   *)
(* in between.                                                              *)
LEMMA SetTargetKeeps ==
  ASSUME BodyInv, SetTarget
  PROVE  BodyInv'
<1> USE DEF BodyInv, WayInv
<1>1. /\ UNCHANGED <<provider, learned, pace, vstatus, mission, assigned, pos, age,
                     timer, ticks, sent, alerted, breaks>>
      /\ taking # Nowhere /\ taking' = Nowhere /\ dest' = taking
      /\ route' \in Routes(taking)
      /\ byRoad' = (route' # <<>>)
  BY DEF SetTarget, config, health, Routes
<1>2. taking \in Place
  BY <1>1 DEF BodyTypeOK
<1>3. route' \in Seq(Int) /\ (route' # <<>> => route'[Len(route')] = taking)
  BY <1>1, <1>2, RoutesLeadThere
<1>4. byRoad' \in BOOLEAN /\ (byRoad' => route' # <<>>)
  BY <1>1, Zenon
<1>5. BodyTypeOK'
  BY <1>1, <1>2, <1>3, <1>4 DEF BodyTypeOK
<1>6. MissionKnown' /\ OnTheWay' /\ RoadLeadsThere'
  BY <1>1, <1>2, <1>3, <1>4 DEF MissionKnown, OnTheWay, RoadLeadsThere
<1>7. CriticalIsGrounded' /\ Told'
  BY <1>1 DEF CriticalIsGrounded, Told
<1> QED  BY <1>5, <1>6, <1>7

(* A resolution makes the vehicle idle.                                     *)
LEMMA ResolveKeeps ==
  ASSUME BodyInv, NEW place \in Place, Resolve(place)
  PROVE  BodyInv'
<1> USE DEF BodyInv, WayInv
<1>1. /\ UNCHANGED <<provider, learned, pace, taking, pos, age, timer, ticks, sent,
                     alerted, breaks>>
      /\ assigned' = assigned \ {place} /\ vstatus' = "IDLE" /\ mission' = Nowhere
      /\ dest' = Nowhere /\ byRoad' = FALSE /\ route' = <<>>
  BY DEF Resolve, ClearTarget, config, health
<1>2. BodyTypeOK'
  <2>1. route' \in Seq(Int)
    BY <1>1
  <2>2. byRoad' \in BOOLEAN
    BY <1>1, Zenon
  <2> QED  BY <1>1, <2>1, <2>2 DEF BodyTypeOK, VehicleStatus
<1>3. MissionKnown' /\ OnTheWay' /\ RoadLeadsThere' /\ CriticalIsGrounded' /\ Told'
  BY <1>1 DEF MissionKnown, OnTheWay, RoadLeadsThere, CriticalIsGrounded, Told
<1> QED  BY <1>2, <1>3

-----------------------------------------------------------------------------
(* The tick.                                                                *)

(* What the start of a tick leaves in order.                                *)
LEMMA BeginFacts ==
  ASSUME BodyInv, NEW m \in Movement, Begin(m)
  PROVE  /\ UNCHANGED <<provider, learned, pace, taking, assigned>>
         /\ vstatus # "MAINTENANCE"
         /\ pos' = m.pos
         /\ ticks' \in 0..(WarmUp + Window)
         /\ breaks' \in 0..MaxBreaks
         /\ age' = Aged \/ \E f \in Failures : age' = Break(f)
<1>1. BodyTypeOK
  BY DEF BodyInv
<1>2. ticks' \in 0..(WarmUp + Window)
  BY <1>1, BodyAssumption DEF Begin, BodyTypeOK
<1>3. breaks' \in 0..MaxBreaks /\ (age' = Aged \/ \E f \in Failures : age' = Break(f))
  BY <1>1, BodyAssumption DEF Begin, Scheduled, BodyTypeOK
<1> QED  BY <1>2, <1>3 DEF Begin, config

(* A vehicle that goes on after a movement keeps its mission, its target    *)
(* and what is left of its road.                                            *)
LEMMA CarryOnFacts ==
  ASSUME BodyInv, NEW m \in Movement, vstatus # "MAINTENANCE", pos' = m.pos,
         UNCHANGED <<assigned, taking>>, CarryOn(m)
  PROVE  /\ vstatus' \in VehicleStatus \ {"MAINTENANCE"}
         /\ mission' \in Place \cup {Nowhere}
         /\ dest' \in Place \cup {Nowhere} /\ byRoad' \in BOOLEAN
         /\ route' \in Seq(Int) /\ pos' \in 0..Edge /\ timer' \in Nat
         /\ WayInv'
<1> USE DEF BodyInv, WayInv
<1>1. /\ vstatus' = AfterArrival(m.halted) /\ route' = m.route /\ mission' = mission
      /\ dest' = dest /\ byRoad' = byRoad /\ timer' = timer
  BY DEF CarryOn
<1>2. vstatus' \in VehicleStatus \ {"MAINTENANCE"}
  BY <1>1 DEF AfterArrival, BodyTypeOK, VehicleStatus
<1>3. vstatus = "EN_ROUTE" => mission # Nowhere
  BY BodyAssumption DEF MissionKnown
<1>4. /\ vstatus' = "EN_ROUTE" => vstatus = "EN_ROUTE" /\ ~m.halted
      /\ vstatus' = "ON_SCENE" => vstatus \in {"EN_ROUTE", "ON_SCENE"}
  BY <1>1, <1>3 DEF AfterArrival
<1>5. /\ m.pos \in 0..Edge /\ m.route \in Seq(Int)
      /\ vstatus = "EN_ROUTE" /\ byRoad
           => /\ m.route # <<>> => m.route[Len(m.route)] = dest
              /\ ~m.halted => m.route # <<>>
      /\ vstatus # "EN_ROUTE" => m.route = route
  BY MovementFacts
<1>6. MissionKnown' /\ OnTheWay' /\ RoadLeadsThere'
  BY <1>1, <1>4, <1>5 DEF MissionKnown, OnTheWay, RoadLeadsThere
<1> QED  BY <1>1, <1>2, <1>5, <1>6 DEF BodyTypeOK

(* Repairs take some ticks.                                                 *)
LEMMA RepairTicksTypes == RepairTicks \subseteq Nat
<1>1. (135 + TickSeconds - 1) \div TickSeconds \in Nat
  BY BodyAssumption
<1> QED  BY <1>1 DEF RepairTicks

(* A grounded vehicle goes nowhere.                                         *)
LEMMA GroundingFacts ==
  ASSUME BodyInv, EnterMaintenance
  PROVE  /\ vstatus' = "MAINTENANCE"
         /\ mission' \in Place \cup {Nowhere}
         /\ dest' \in Place \cup {Nowhere} /\ byRoad' \in BOOLEAN
         /\ route' \in Seq(Int) /\ timer' \in Nat
         /\ WayInv'
<1>1. /\ vstatus' = "MAINTENANCE" /\ mission' = Nowhere
      /\ dest' = Nowhere /\ byRoad' = FALSE
      /\ route' = <<>> /\ timer' \in Nat
  BY RepairTicksTypes DEF EnterMaintenance, ClearTarget
<1>2. byRoad' \in BOOLEAN
  BY <1>1, Zenon
<1>3. route' \in Seq(Int)
  BY <1>1
<1>4. WayInv'
  BY <1>1 DEF WayInv, MissionKnown, OnTheWay, RoadLeadsThere
<1> QED  BY <1>1, <1>2, <1>3, <1>4

(* Without a learned model the findings are those of the rules.             *)
LEMMA RulesAlone ==
  ASSUME ~learned, NEW alerts \in Findings
  PROVE  alerts = ByRules
<1>1. ByModel = {{}}
  BY DEF ByModel, Modelled
<1> QED  BY <1>1 DEF Findings

(* A tick keeps the invariant: what the rules find of the failures is told, *)
(* and what is critical grounds the vehicle.                                *)
LEMMA TickKeeps ==
  ASSUME BodyInv, NEW m \in Movement, Tick(m)
  PROVE  BodyInv'
<1>1. /\ UNCHANGED <<provider, learned, pace, taking, assigned>>
      /\ vstatus # "MAINTENANCE"
      /\ pos' = m.pos /\ pos' \in 0..Edge
      /\ ticks' \in 0..(WarmUp + Window)
      /\ breaks' \in 0..MaxBreaks
      /\ DOMAIN age' \subseteq Failures
      /\ age' \in [DOMAIN age' -> Nat]
  BY BeginFacts, MovementFacts, AgeingFacts DEF Tick, BodyInv
<1>2. PICK alerts \in Findings :
        /\ IF "critical" \in alerts /\ DOMAIN age' # {}
           THEN EnterMaintenance
           ELSE CarryOn(m)
        /\ alerted' = (alerted \/ alerts # {})
  BY DEF Tick
<1>3. sent' = [st |-> vstatus', worst |-> Worst(ByRules)]
  BY DEF Tick
<1>4. alerted' \in BOOLEAN /\ (alerts # {} => alerted') /\ (alerted => alerted')
  BY <1>2, Zenon DEF BodyInv, BodyTypeOK
<1>5. /\ vstatus' \in VehicleStatus
      /\ mission' \in Place \cup {Nowhere}
      /\ dest' \in Place \cup {Nowhere} /\ byRoad' \in BOOLEAN
      /\ route' \in Seq(Int) /\ timer' \in Nat
      /\ WayInv'
  BY <1>1, <1>2, CarryOnFacts, GroundingFacts DEF VehicleStatus
<1>6. BodyTypeOK'
  <2>1. sent' \in [st : VehicleStatus, worst : Severity]
    BY <1>3, <1>5 DEF Worst, Severity
  <2> QED  BY <1>1, <1>4, <1>5, <2>1 DEF BodyInv, BodyTypeOK
<1>7. CriticalIsGrounded'
  <2> SUFFICES ASSUME ~learned', sent'.worst = "critical"
               PROVE  vstatus' = "MAINTENANCE"
    BY <1>3 DEF CriticalIsGrounded
  <2>1. alerts = ByRules
    BY <1>1, RulesAlone
  <2>2. "critical" \in ByRules
    BY <1>3 DEF Worst
  <2>3. DOMAIN age' # {}
    BY <2>2 DEF ByRules
  <2> QED  BY <1>2, <2>1, <2>2, <2>3 DEF EnterMaintenance
<1>8. Told'
  <2> SUFFICES ASSUME ~learned' PROVE Told'
    BY DEF Told
  <2>1. alerts = ByRules
    BY <1>1, RulesAlone
  <2>2. \A s \in DOMAIN age' : Judge(Kind, s, age'[s]) # "none" => alerted'
    <3>1. \A s \in DOMAIN age' :
            Judge(Kind, s, age'[s]) # "none" => Judge(Kind, s, age'[s]) \in ByRules
      BY DEF ByRules
    <3> QED  BY <1>4, <2>1, <3>1
  <2>3. vstatus' = "MAINTENANCE" => alerted'
    <3>1. vstatus' = "MAINTENANCE" => "critical" \in alerts
      BY <1>1, <1>2, CarryOnFacts
    <3> QED  BY <1>4, <3>1
  <2> QED  BY <2>2, <2>3 DEF Told
<1> QED  BY <1>5, <1>6, <1>7, <1>8 DEF BodyInv

(* So does one that an error of the learned model ends.                     *)
LEMMA TickFailsKeeps ==
  ASSUME BodyInv, NEW m \in Movement, TickFails(m)
  PROVE  BodyInv'
<1>1. /\ UNCHANGED <<provider, learned, pace, taking, assigned>>
      /\ vstatus # "MAINTENANCE"
      /\ pos' = m.pos
      /\ ticks' \in 0..(WarmUp + Window)
      /\ breaks' \in 0..MaxBreaks
      /\ DOMAIN age' \subseteq Failures
      /\ age' \in [DOMAIN age' -> Nat]
  BY BeginFacts, AgeingFacts DEF TickFails, BodyInv
<1>2. learned /\ CarryOn(m) /\ UNCHANGED <<sent, alerted>>
  BY DEF TickFails
<1>3. /\ vstatus' \in VehicleStatus
      /\ mission' \in Place \cup {Nowhere}
      /\ dest' \in Place \cup {Nowhere} /\ byRoad' \in BOOLEAN
      /\ route' \in Seq(Int) /\ pos' \in 0..Edge /\ timer' \in Nat
      /\ WayInv'
  BY <1>1, <1>2, CarryOnFacts
<1>4. BodyTypeOK'
  BY <1>1, <1>2, <1>3 DEF BodyInv, BodyTypeOK
<1>5. CriticalIsGrounded' /\ Told'
  BY <1>1, <1>2 DEF CriticalIsGrounded, Told
<1> QED  BY <1>3, <1>4, <1>5 DEF BodyInv

(* And so do the ticks in maintenance.                                      *)
LEMMA RepairKeeps ==
  ASSUME BodyInv, TickUnderRepair \/ FinishRepair
  PROVE  BodyInv'
<1> USE DEF BodyInv
<1>1. CASE TickUnderRepair
  <2>1. /\ UNCHANGED <<provider, learned, pace, dest, byRoad, route, pos, vstatus,
                       mission, taking, ticks, alerted, assigned, breaks>>
        /\ vstatus = "MAINTENANCE"
        /\ age' = Aged
        /\ timer' = IF timer = 0 THEN 0 ELSE timer - 1
        /\ sent' = [st |-> "MAINTENANCE", worst |-> "none"]
    BY <1>1 DEF TickUnderRepair, config, duty, driving
  <2>2. /\ DOMAIN age' \subseteq Failures
        /\ age' \in [DOMAIN age' -> Nat]
    BY <2>1, AgeingFacts
  <2>3. timer' \in Nat
    BY <2>1 DEF BodyTypeOK
  <2>4. sent' \in [st : VehicleStatus, worst : Severity]
    BY <2>1 DEF VehicleStatus, Severity
  <2>5. BodyTypeOK'
    BY <2>1, <2>2, <2>3, <2>4 DEF BodyTypeOK
  <2>6. WayInv' /\ CriticalIsGrounded' /\ Told'
    BY <2>1 DEF WayInv, MissionKnown, OnTheWay, RoadLeadsThere, CriticalIsGrounded, Told
  <2> QED  BY <2>5, <2>6
<1>2. CASE FinishRepair
  <2>1. /\ UNCHANGED <<provider, learned, pace, mission, taking, dest, byRoad, route,
                       ticks, assigned, breaks>>
        /\ vstatus' = "IDLE" /\ timer' = 0 /\ alerted' = FALSE
        /\ age' = [s \in {} |-> 0]
        /\ sent' = [st |-> "IDLE", worst |-> "none"]
    BY <1>2 DEF FinishRepair, config
  <2>2. pos' \in 0..Edge
    BY <1>2, ClampTypes DEF FinishRepair, Patrol
  <2>3. DOMAIN age' = {}
    BY <2>1
  <2>4. DOMAIN age' \subseteq Failures /\ age' \in [DOMAIN age' -> Nat]
    BY <2>1, <2>3
  <2>5. sent' \in [st : VehicleStatus, worst : Severity]
    BY <2>1 DEF VehicleStatus, Severity
  <2>6. BodyTypeOK'
    BY <2>1, <2>2, <2>4, <2>5 DEF BodyTypeOK, VehicleStatus
  <2>7. WayInv' /\ CriticalIsGrounded' /\ Told'
    BY <2>1, <2>3 DEF WayInv, MissionKnown, OnTheWay, RoadLeadsThere, CriticalIsGrounded, Told
  <2> QED  BY <2>6, <2>7
<1> QED  BY <1>1, <1>2

(* Every step keeps the invariant.                                          *)
LEMMA BodyStepKeeps == BodyInv /\ [BodyNext]_bodyVars => BodyInv'
<1>1. ASSUME BodyInv, UNCHANGED bodyVars PROVE BodyInv'
  BY <1>1 DEF bodyVars, config, duty, driving, health, BodyInv, BodyTypeOK, WayInv,
              MissionKnown, OnTheWay, RoadLeadsThere, CriticalIsGrounded, Told
<1>2. ASSUME BodyInv, BodyNext PROVE BodyInv'
  BY <1>2, DispatchKeeps, SetTargetKeeps, ResolveKeeps, TickKeeps, TickFailsKeeps, RepairKeeps
     DEF BodyNext, AnyTick
<1> QED  BY <1>1, <1>2

(* The invariant holds throughout.                                          *)
LEMMA BodyInvariant == BodySpec => []BodyInv
BY BodyStarts, BodyStepKeeps, PTL DEF BodySpec

-----------------------------------------------------------------------------
(* The properties.                                                          *)

(* The body's state keeps its type, and no navigator takes the vehicle out  *)
(* of the service area.                                                     *)
THEOREM BodyTypeCorrect == BodySpec => []BodyTypeOK
BY BodyInvariant, PTL DEF BodyInv

(* What turns a vehicle ON_SCENE is a tick of the vehicle on its way.       *)
LEMMA ArrivalIsATick ==
  ASSUME BodyInv, [BodyNext]_bodyVars, vstatus # "ON_SCENE", vstatus' = "ON_SCENE"
  PROVE  \E m \in Movement :
           pos' = m.pos /\ vstatus = "EN_ROUTE" /\ m.halted /\ UNCHANGED <<mission, dest>>
<1>1. BodyNext
  <2>1. vstatus' # vstatus
    OBVIOUS
  <2> QED  BY <2>1 DEF bodyVars, duty
<1>2. PICK m \in Movement : Tick(m) \/ TickFails(m)
  <2>1. \A place \in Place : ~Dispatch(place) /\ ~Resolve(place)
    BY DEF Dispatch, Resolve
  <2>2. ~SetTarget /\ ~TickUnderRepair /\ ~FinishRepair
    BY DEF SetTarget, TickUnderRepair, FinishRepair, duty
  <2> QED  BY <1>1, <2>1, <2>2 DEF BodyNext, AnyTick
<1>3. pos' = m.pos
  BY <1>2 DEF Tick, TickFails, Begin
<1>4. CarryOn(m)
  <2>1. ~EnterMaintenance
    BY DEF EnterMaintenance
  <2> QED  BY <1>2, <2>1 DEF Tick, TickFails
<1>5. vstatus = "EN_ROUTE" /\ m.halted
  BY <1>4 DEF CarryOn, AfterArrival
<1> QED  BY <1>3, <1>4, <1>5 DEF CarryOn

(* For every area, road graph, pace and history of dispatches, breakdowns   *)
(* and resolutions, a vehicle that has its target reports ON_SCENE only at  *)
(* the scene of its mission.                                                *)
THEOREM ArrivesWhereSent == BodySpec => ArrivesAtTarget
<1> DEFINE Turns == vstatus # "ON_SCENE" /\ vstatus' = "ON_SCENE" /\ taking = Nowhere
           There == /\ dest = mission
                    /\ mission \in 0..Edge => Distance(pos', mission) < Radius
<1>1. ASSUME BodyInv, [BodyNext]_bodyVars, Turns PROVE There
  <2>1. PICK m \in Movement :
          pos' = m.pos /\ vstatus = "EN_ROUTE" /\ m.halted /\ UNCHANGED <<mission, dest>>
    BY <1>1, ArrivalIsATick
  <2>2. dest = mission /\ (byRoad => route # <<>>)
    BY <1>1, <2>1 DEF BodyInv, WayInv, OnTheWay
  <2> QED  BY <1>1, <2>1, <2>2, MovementFacts
<1>2. BodyInv /\ [BodyNext]_bodyVars => [Turns => There]_bodyVars
  BY <1>1
<1> QED  BY <1>2, BodyInvariant, PTL DEF BodySpec, ArrivesAtTarget

(* The safety net of the rules: a critical reading is never sent by a       *)
(* vehicle in service, whatever failures overlap.                           *)
THEOREM CriticalGrounds == BodySpec => []CriticalIsGrounded
BY BodyInvariant, PTL DEF BodyInv

(* A step that grounds a vehicle without a learned model finds a failure    *)
(* the rules had warned of.                                                 *)
LEMMA GroundingIsForetold ==
  ASSUME BodyInv, [BodyNext]_bodyVars,
         vstatus # "MAINTENANCE", vstatus' = "MAINTENANCE", ~learned
  PROVE  alerted
<1> USE DEF BodyInv
<1>1. PICK m \in Movement : Tick(m)
  <2>1. vstatus' # vstatus
    OBVIOUS
  <2>2. BodyNext
    BY <2>1 DEF bodyVars, duty
  <2>3. \A place \in Place : ~Dispatch(place) /\ ~Resolve(place)
    BY DEF Dispatch, Resolve
  <2>4. ~SetTarget /\ \A n \in Movement : ~TickFails(n)
    <3>1. \A n \in Movement : ~CarryOn(n)
      BY DEF CarryOn, AfterArrival
    <3> QED  BY <3>1 DEF TickFails, SetTarget
  <2> QED  BY <2>2, <2>3, <2>4 DEF BodyNext, AnyTick, TickUnderRepair, FinishRepair
<1>2. PICK alerts \in Findings :
        IF "critical" \in alerts /\ DOMAIN age' # {} THEN EnterMaintenance ELSE CarryOn(m)
  BY <1>1 DEF Tick
<1>3. "critical" \in alerts
  <2>1. pos' = m.pos /\ UNCHANGED <<assigned, taking>>
    BY <1>1 DEF Tick, Begin
  <2> QED  BY <1>2, <2>1, CarryOnFacts
<1>4. PICK s \in DOMAIN age' : Judge(Kind, s, age'[s]) = "critical"
  BY <1>3, RulesAlone DEF ByRules
<1>5. /\ s \in Failures
      /\ \/ age'[s] = 0
         \/ s \in DOMAIN age /\ \E d \in 0..119 : age'[s] = age[s] + d
  BY <1>1, BeginFacts, AgeingFacts DEF Tick
<1>6. s \in Scenario /\ Kind \in VehicleType
  BY <1>5, BodyAssumption
<1>7. PICK d \in 0..119 : s \in DOMAIN age /\ age'[s] = age[s] + d
  BY <1>4, <1>5, <1>6, FreshIsQuiet
<1>8. Judge(Kind, s, age[s]) # "none"
  <2>1. age[s] \in Nat
    BY <1>7 DEF BodyTypeOK
  <2> QED  BY <1>4, <1>6, <1>7, <2>1, RulesWarnFirst
<1> QED  BY <1>7, <1>8 DEF Told

(* For every vehicle type, failure and tick of less than 2 minutes, no      *)
(* vehicle without a learned model is grounded out of the blue: the         *)
(* orchestrator has its alert, and does not select it, before.              *)
THEOREM GroundingIsAnnounced == BodySpec => GroundedWhileFlagged
<1>1. BodyInv /\ [BodyNext]_bodyVars =>
        [vstatus # "MAINTENANCE" /\ vstatus' = "MAINTENANCE" /\ ~learned => alerted]_bodyVars
  BY GroundingIsForetold
<1> QED  BY <1>1, BodyInvariant, PTL DEF BodySpec, GroundedWhileFlagged

(* For every area, radius and pace, each tick of a vehicle on the straight  *)
(* way gains ground until one may carry it beyond its target.               *)
THEOREM TicksGainGround == BodySpec => GetsCloser
<1> DEFINE OnStraight == /\ vstatus = "EN_ROUTE" /\ vstatus' = "EN_ROUTE" /\ ~byRoad
                         /\ UNCHANGED <<dest, taking>> /\ dest \in 0..Edge
                         /\ \A step \in pace : ~Overshoots(step)
           Closer == Distance(pos', dest) < Distance(pos, dest)
<1>1. ASSUME BodyInv, BodyNext, OnStraight PROVE Closer
  <2>1. mission \in Place /\ mission # Nowhere
    BY <1>1, BodyAssumption DEF BodyInv, WayInv, MissionKnown
  <2>2. \A place \in Place : ~Dispatch(place) /\ ~Resolve(place)
    BY <1>1, BodyAssumption DEF Dispatch, Resolve
  <2>3. ~SetTarget
    BY <1>1 DEF SetTarget
  <2>4. PICK m \in Movement : Tick(m) \/ TickFails(m)
    BY <1>1, <2>2, <2>3 DEF BodyNext, AnyTick, TickUnderRepair, FinishRepair
  <2>5. pos' = m.pos
    BY <2>4 DEF Tick, TickFails, Begin
  <2>6. CarryOn(m)
    <3>1. ~EnterMaintenance
      BY <1>1 DEF EnterMaintenance
    <3> QED  BY <2>4, <3>1 DEF Tick, TickFails
  <2>7. ~m.halted
    BY <1>1, <2>1, <2>6 DEF CarryOn, AfterArrival
  <2> QED  BY <1>1, <2>5, <2>7, MovementFacts
<1>2. BodyInv /\ [BodyNext]_bodyVars => [OnStraight => Closer]_bodyVars
  BY <1>1
<1> QED  BY <1>2, BodyInvariant, PTL DEF BodySpec, GetsCloser

-----------------------------------------------------------------------------
(* The body does the duty of a vehicle.                                     *)

(* A vehicle out of service has no mission.                                 *)
Grounded == vstatus = "MAINTENANCE" => mission = Nowhere
DutyInv == BodyInv /\ Grounded

LEMMA GroundedStays == DutyInv /\ [BodyNext]_bodyVars => Grounded'
<1> SUFFICES ASSUME DutyInv, [BodyNext]_bodyVars, vstatus' = "MAINTENANCE"
             PROVE  mission' = Nowhere
  BY DEF Grounded
<1> USE DEF DutyInv, Grounded
<1>1. CASE UNCHANGED bodyVars
  BY <1>1 DEF bodyVars, duty
<1>2. ASSUME NEW place \in Place, Dispatch(place) \/ Resolve(place) PROVE mission' = Nowhere
  BY <1>2 DEF Dispatch, Resolve
<1>3. ASSUME NEW m \in Movement, Tick(m) \/ TickFails(m) PROVE mission' = Nowhere
  <2>1. ~CarryOn(m)
    BY <1>3 DEF Tick, TickFails, Begin, CarryOn, AfterArrival
  <2> QED  BY <1>3, <2>1 DEF Tick, TickFails, EnterMaintenance
<1>4. CASE SetTarget \/ TickUnderRepair \/ FinishRepair
  BY <1>4 DEF SetTarget, TickUnderRepair, FinishRepair, duty
<1> QED  BY <1>1, <1>2, <1>3, <1>4 DEF BodyNext, AnyTick

LEMMA DutyInvariant == BodySpec => []DutyInv
<1>1. BodyInit => DutyInv
  BY BodyStarts DEF BodyInit, DutyInv, Grounded
<1>2. DutyInv /\ [BodyNext]_bodyVars => DutyInv'
  BY BodyStepKeeps, GroundedStays DEF DutyInv
<1> QED  BY <1>1, <1>2, PTL DEF BodySpec

(* However long a tick and with whatever variation, a repair takes a tick.  *)
LEMMA RepairTakesTime == ASSUME NEW n \in RepairTicks PROVE n \in Nat \ {0}
<1>1. TickSeconds \in 1..119
  BY BodyAssumption
<1>2. (135 + TickSeconds - 1) \div TickSeconds \in Nat \ {0}
  <2> DEFINE t == TickSeconds
             q == (135 + t - 1) \div t
  <2>1. q \in Int /\ 135 + t - 1 < t * q + t
    BY <1>1
  <2>2. q >= 1
    <3>1. ASSUME q <= 0 PROVE FALSE
      <4>1. t * q <= 0
        BY <1>1, <2>1, <3>1
      <4> QED  BY <1>1, <2>1, <4>1
    <3> QED  BY <2>1, <3>1
  <2> QED  BY <2>1, <2>2
<1> QED  BY <1>1, <1>2 DEF RepairTicks

(* The variables of the duty, as the body has them.                         *)
DutyStatus == [v \in {Kind} |-> vstatus]
DutyMission == [v \in {Kind} |-> mission]
DutyBroken == IF DOMAIN age = {} THEN {} ELSE {Kind}
DutyTimed == IF timer = 0 THEN {} ELSE {Kind}
DutyRecalled == IF assigned = {} THEN {} ELSE {Kind}
DutyStep == Duty!Next \/ UNCHANGED <<DutyStatus, DutyMission, DutyBroken, DutyTimed, DutyRecalled>>

(* A tick leaves the failures there are.                                    *)
LEMMA FailuresRemain ==
  ASSUME age' = Aged \/ \E f \in Failures : age' = Break(f)
  PROVE  DutyBroken' \in {DutyBroken, DutyBroken \cup {Kind}}
<1>1. DOMAIN age \subseteq DOMAIN age'
  BY DEF Aged, Break
<1> QED  BY <1>1 DEF DutyBroken

(* A tick of a vehicle in service serves.                                   *)
LEMMA BodyServes ==
  ASSUME DutyInv, NEW m \in Movement, Tick(m) \/ TickFails(m)
  PROVE  Duty!Serve(Kind)
<1> USE DEF DutyStatus, DutyMission, DutyBroken, DutyTimed, DutyRecalled
<1>1. /\ vstatus # "MAINTENANCE" /\ (age' = Aged \/ \E f \in Failures : age' = Break(f))
      /\ UNCHANGED DutyRecalled
  BY DEF Tick, TickFails, Begin, Scheduled
<1>2. DutyBroken' \in {DutyBroken, DutyBroken \cup {Kind}}
  BY <1>1, FailuresRemain
<1>3. CASE CarryOn(m)
  <2>1. UNCHANGED <<mission, timer>> /\ vstatus' = AfterArrival(m.halted)
    BY <1>3 DEF CarryOn
  <2>2. vstatus' = vstatus \/ (vstatus = "EN_ROUTE" /\ vstatus' = "ON_SCENE")
    BY <2>1, Zenon DEF AfterArrival
  <2>3. UNCHANGED <<DutyMission, DutyTimed>>
    BY <2>1
  <2>4. \/ UNCHANGED DutyStatus
        \/ /\ vstatus = "EN_ROUTE"
           /\ DutyStatus' = [DutyStatus EXCEPT ![Kind] = "ON_SCENE"]
    BY <2>2
  <2> QED  BY <1>1, <1>2, <2>3, <2>4 DEF Duty!Serve
<1>4. CASE EnterMaintenance /\ DOMAIN age' # {}
  <2>1. vstatus' = "MAINTENANCE" /\ mission' = Nowhere /\ timer' # 0
    BY <1>4, RepairTakesTime DEF EnterMaintenance
  <2>2. Kind \in DutyBroken' /\ DutyTimed' = DutyTimed \cup {Kind}
    BY <1>4, <2>1
  <2>3. Duty!Leave(Kind, "MAINTENANCE")
    BY <2>1 DEF Duty!Leave
  <2> QED  BY <1>1, <1>2, <2>2, <2>3 DEF Duty!Serve
<1> QED  BY <1>3, <1>4 DEF Tick, TickFails

(* Every other step takes, ends or repairs, or is no matter of the duty.    *)
LEMMA BodyDuty == DutyInv /\ [BodyNext]_bodyVars => DutyStep
<1> SUFFICES ASSUME DutyInv, [BodyNext]_bodyVars PROVE DutyStep
  OBVIOUS
<1> USE DEF DutyStep, DutyStatus, DutyMission, DutyBroken, DutyTimed, DutyRecalled
<1>1. CASE UNCHANGED bodyVars
  BY <1>1 DEF bodyVars, duty, health
<1>2. ASSUME NEW place \in Place, Dispatch(place) PROVE DutyStep
  <2>1. UNCHANGED <<age, timer>> /\ DutyRecalled' = {Kind}
    BY <1>2 DEF Dispatch, health
  <2>2. CASE vstatus = "MAINTENANCE"
    <3>1. UNCHANGED <<vstatus, mission>>
      BY <1>2, <2>2 DEF Dispatch
    <3>2. Duty!Recall({Kind})
      BY <2>1, <3>1 DEF Duty!Recall
    <3> QED  BY <3>2 DEF Duty!Next
  <2>3. CASE vstatus # "MAINTENANCE"
    <3>1. vstatus' = "EN_ROUTE" /\ mission' = place
      BY <1>2, <2>3 DEF Dispatch
    <3>2. DutyRecalled' \in {DutyRecalled, DutyRecalled \cup {Kind}}
      BY <2>1
    <3>3. Duty!Take(Kind, place)
      BY <2>1, <2>3, <3>1, <3>2 DEF Duty!Take
    <3> QED  BY <3>3 DEF Duty!Next
  <2> QED  BY <2>2, <2>3
<1>3. ASSUME NEW place \in Place, Resolve(place) PROVE DutyStep
  <2>1. UNCHANGED <<age, timer>> /\ vstatus' = "IDLE" /\ mission' = Nowhere
    BY <1>3 DEF Resolve, health
  <2>2. DutyRecalled = {Kind} /\ DutyRecalled' \in {DutyRecalled, DutyRecalled \ {Kind}}
    BY <1>3 DEF Resolve
  <2>3. Duty!Release(Kind)
    BY <2>1, <2>2 DEF Duty!Release, Duty!Leave
  <2> QED  BY <2>3 DEF Duty!Next
<1>4. ASSUME NEW m \in Movement, Tick(m) \/ TickFails(m) PROVE DutyStep
  BY <1>4, BodyServes DEF Duty!Next
<1>5. CASE TickUnderRepair
  <2>1. UNCHANGED <<vstatus, mission, assigned>> /\ DOMAIN age' = DOMAIN age
    BY <1>5 DEF TickUnderRepair, duty, Aged
  <2>2. timer' = 0 <=> timer = 0
    BY <1>5 DEF TickUnderRepair, DutyInv, BodyInv, BodyTypeOK
  <2> QED  BY <2>1, <2>2
<1>6. CASE FinishRepair
  <2>1. /\ vstatus = "MAINTENANCE" /\ timer = 1
        /\ vstatus' = "IDLE" /\ mission' = Nowhere /\ timer' = 0
        /\ age' = [s \in {} |-> 0] /\ UNCHANGED DutyRecalled
    BY <1>6 DEF FinishRepair, DutyInv, Grounded
  <2>2. DOMAIN age' = {}
    BY <2>1
  <2>3. Duty!Leave(Kind, "IDLE")
    BY <2>1 DEF Duty!Leave
  <2>4. DutyBroken' = DutyBroken \ {Kind}
    BY <2>2
  <2>5. Kind \in DutyTimed /\ DutyTimed' = DutyTimed \ {Kind}
    BY <2>1
  <2>6. Duty!Repair(Kind)
    BY <2>1, <2>3, <2>4, <2>5 DEF Duty!Repair
  <2> QED  BY <2>6 DEF Duty!Next
<1>7. CASE SetTarget
  BY <1>7 DEF SetTarget, health
<1> QED  BY <1>1, <1>2, <1>3, <1>4, <1>5, <1>6, <1>7 DEF BodyNext, AnyTick

(* For every tick length, set of failures and detector, a vehicle whose     *)
(* movement, failures and findings are computed does the duty of a vehicle: *)
(* only a failure it has takes it out of service, and only the end of its   *)
(* timer or the resolution of an emergency it is assigned to brings it back.*)
THEOREM BodyDoesItsDuty == BodySpec => RefinesDuty
<1>1. BodyInit => Duty!Init
  <2> SUFFICES ASSUME BodyInit PROVE Duty!Init
    OBVIOUS
  <2>1. DOMAIN age = {} /\ timer = 0 /\ vstatus = "IDLE" /\ mission = Nowhere
        /\ assigned = {}
    BY DEF BodyInit
  <2> QED  BY <2>1 DEF Duty!Init
<1>2. DutyInv /\ [BodyNext]_bodyVars => [Duty!Next]_(Duty!vars)
  BY BodyDuty
     DEF DutyStep, DutyStatus, DutyMission, DutyBroken, DutyTimed, DutyRecalled, Duty!vars
<1> QED  BY <1>1, <1>2, DutyInvariant, PTL DEF BodySpec, RefinesDuty, Duty!Spec
=============================================================================
