# AEGIS: specification, model checking and proofs

TLA+ models of the emergency-response system in `src/src/`: an orchestrator
that dispatches vehicles to emergencies, the vehicle agents, and the message
bus between them. TLC checks the models on small instances; TLAPS proves the
main safety properties for every value of the constants. `PROJECT.json` names
the source lines of every definition, the mutant of every property, the
hazards, and the disagreements between the code and its comments.

## 1. The system

| Component | State | Operations | Modelled in |
| --- | --- | --- | --- |
| Orchestrator agent (`orchestrator/agent.py`) | `running`, its asyncio tasks | the message loop and its handlers, `process_emergency`, `resolve_emergency`, `dismiss_emergency`, the retry, the sweeper | `Orchestrator` |
| Emergency service, dispatch engine (`emergency_service.py`, `dispatch_engine.py`) | `emergencies`, `dispatches` | select and release units, mark in progress, coordination tasks, time limits | `Orchestrator`, `EmergencyTiming` |
| Fleet service (`fleet_service.py`) | `fleet` (snapshots), alerts | register, telemetry, alert, clear alert | `Orchestrator` |
| HTTP application (`api.py`) | clients' requests, background tasks, clock driver | create, resolve, start-up, teardown | `Orchestrator`, `TelemetrySink`, `Outlets`, `EmergencyTiming` |
| Dashboards (`api.py`, the WebSocket part) | the connections, a task per event | connect, disconnect, broadcast | `Dashboard` |
| Crime predictions (`emergency_prediction_generator.py`, `agent.py`) | a dictionary of predictions in each of two objects | a round: expire, create | `Dashboard` |
| Telemetry persistence (`orchestrator/persistence.py`) | the buffer, the batches being inserted | enqueue, flush, close | `TelemetrySink` |
| Historical injector (`historical_injector.py`) | hour last processed | inject under a cap, dismiss stale | `Orchestrator` |
| Vehicle agent (`vehicle_agent/agent.py`) | status, mission, repair timer | start, stop, tick, maintenance, command listener | `VehicleAgent`, `VehicleBody` |
| Failures and their detection (`failure_injector.py`, `failure_scheduler.py`, `anomaly_detector.py`) | active scenarios and their ages, the learned model's window | activate, apply, judge | `Diagnosis`, `VehicleBody` |
| Navigation (`navigation.py`) | position, target, route | step, set and clear the target | `Navigation`, `VehicleBody` |
| Fleet process (`scripts/start_fleet.py`) | the agents' tasks, the signal handlers of their loop | start, signal, stop, failure | `Fleet` |
| Bus (`core/messaging.py`, `infrastructure/`) | subscriptions, messages under way | publish, subscribe | `VehicleAgent`, `Aegis` |
| Simulated clock (`core/time.py`) | now, sleepers | sleep, advance | `EmergencyTiming` |
| Training, other repositories, command lines, legacy Redis client | | | not modelled (section 8) |

**How they interact.** Vehicles publish registrations, telemetry, alerts,
cleared alerts and acknowledgments; the orchestrator publishes one dispatch
command per unit and broadcasts resolutions and dismissals. Inside the
orchestrator the message loop, the sweeper, the injector and the HTTP handlers
share the dictionaries of the services. They are asyncio tasks: one runs alone
until it awaits the database or the bus, and then any other may run. Inside a
vehicle the tick loop and the command listener share the agent's fields the
same way, and the agents of one fleet process share the event loop and its
signal handlers. Every record of telemetry leaves the orchestrator through two
tasks that nobody awaits, one to the database and one to the dashboards.

**What is hard.** Lists taken before an await and used after it (the retry, the
sweeper); telemetry that overwrites what the orchestrator has just decided;
commands published two awaits after the decision; a tick between the two halves
of a dispatch; a breakdown in the middle of a mission; restarts; messages to
somebody who has not subscribed; time limits under a clock that jumps half an
hour. The `hazards` of `PROJECT.json` list each at its line.

**What makes it correct.**
* Emergencies: the snapshots and the dispatch records agree; a crew is
  dispatched once; progress is earned by arrivals; only emergencies without units
  are cancelled; every emergency of a client is closed in the end.
* Vehicles: status, mission, target and repair timer agree.
* Together: a vehicle acts only for an emergency that lists it, and the
  orchestrator's view of a vehicle recovers.
* Limits: no overdue emergency stays open for long, under the clock that is really
  used, which goes on while the sweeper is busy.
* Outlets: no record is stored twice or vanishes unnoticed; each event reaches
  each client that stays, once; two dictionaries of predictions agree.
* A vehicle's body: it comes nearer and arrives, says so only there (but for one
  window, section 5), never leaves the service area, warns before it fails, and is repaired and cleared.

## 2. The modules

```
Orchestrator --+                         TelemetrySink --+
               +--> Aegis                                +--> Outlets
VehicleAgent --+                         Dashboard ------+
   (both extend Participants)
                                         Navigation --+
EmergencyTiming                                       +--> VehicleBody
Fleet                                    Diagnosis ---+

abstract                 what it is about              implemented by
EmergencyLifecycle       phases of an emergency, crew  Orchestrator, Aegis
VehicleDuty              a vehicle's service           VehicleAgent, VehicleBody, Aegis
TelemetryLedger          what becomes of a record      TelemetrySink, Outlets
```

An arrow is EXTENDS. `MCx.tla` with its `.cfg` files instantiates module `x` for
TLC; the modules with theorems are `OrchestratorSafety` (types, inductive
invariant), `OrchestratorRefinement`, `VehicleAgentProofs`, `AegisProofs`,
`EmergencyTimingProofs`, `TelemetrySinkProofs`, `OutletsProofs` and
`VehicleBodyProofs`.

**Participants.** The vehicles and emergencies, of which each component knows the
same.

**Orchestrator.** One action per stretch of code between two awaits. `op[t]` is
the await task `t` is suspended in, with the emergency and the vehicles its
locals hold: `"dispatched"` while `process_emergency` persists,
`"commanding"` while it publishes the commands one by one, `"task_done"` while
the loop persists a completed coordination task, `"RESOLVED"` and
`"DISMISSED"` while a closure is persisted and broadcast. `waiting`,
`toResolve` and `toDismiss` are what is left of the lists the retry and the
sweeper iterate over. A vehicle `v` has a snapshot iff `v \in known`; `status`,
`cur`, `located` and `alert` are its fields. `phase`, `done`, `units`, `acked`
and `arrived` are an emergency and its dispatch record. The distance behind the
choice of units is left out: any set with the right number of each type may be
the nearest. The vehicles are the environment: any message, in any order.

**VehicleAgent.** One action per stretch between two awaits of the tick loop and
of the command listener. `taking[v]` holds the dispatch between its
acknowledgment and the setting of the target; `repaired` the vehicles between
the notice of a finished repair and the telemetry of that tick. Geometry is
reduced to `at[v]`, the scene the vehicle is within 50 m of: a vehicle that moves
may come by any scene, and speed 0 means that it is at its target or has none.
Which failure strikes and which alert is raised is left open. `up` is what the
orchestrator has not read yet, `commands[v]` what `v` has not. Crashing vehicles
restart from nothing.

**Aegis.** The two joined: `Receive` hands the head of `up` to the handler of its
kind, `Dispatch` and `Broadcast` turn the two publications into commands,
`Drop` is a message nobody is subscribed to. Each step is a step of one of the
components (or, for the bus, of both).

**EmergencyTiming.** The planned duration, the hard limit and the timeouts, in
exact arithmetic; the clock that jumps by `Step`; the sweeper that a jump wakes.
A round of the sweeper is split at its awaits: `Sweep` cancels and lists,
`CloseListed` is the moment the round reaches the emergency, and `EndRound` sends
it back to sleep; between them the clock driver jumps on (`api.py:195-202`), and
the emergency may be passed over, be closed by somebody else, or be closed by a
verdict that is old. `verdict` is what the round has listed the emergency for. One emergency of a client, of any type, severity, number of units and
description, whose `created_at` is the real time and so may lie before or after
the simulated one; `sweeper` may be suspended over other emergencies when it is
born.

**TelemetrySink.** `DatabaseTelemetryPersister`, from the task that
`_handle_telemetry` creates for a record to the commit or the failure of its
batch. `spawned` are the tasks that have not run yet, `flights` the batches whose
insertion is awaited; the sections under the lock contain no await and are one
step. `Stop`, `Close` and `Disconnect` are the teardown.

**Dashboard.** `ConnectionManager` and the broadcast tasks. `log` are the events
for which a task was created, in that order; `casts` the tasks that have begun,
which are the first ones of them, each with the clients its copy of the list held
and with those that are left of it. `heard[c]` are the numbers of the events that client
`c` was sent. A list of clients is a set, with `ahead[c]` for the order: clients
are only ever appended, once. `Send` answers one send. `socket[c]` distinguishes
a connection that broke from one whose endpoint returned. An endpoint delists its
socket on `WebSocketDisconnect` only (`Disconnected`); one that ends in another way
leaves it listed (`EndpointFails`), until the send of a broadcast fails. A round of the prediction generator, in which nothing
awaits, is one action; the two dictionaries are `tracked` and `predictions`.

**Outlets.** The two joined at the record of telemetry that feeds both, with the
teardown that ends both. `deployment` says what surrounds the orchestrator.

**Navigation, Diagnosis.** The movements a tick can make, and what a failure does
to a reading and the detectors make of it: operators, without state. A movement
concerns the line to the target; the units of the readings are such that every
rate is 1 per second, so the arithmetic is exact.

**VehicleBody.** One vehicle over its ticks: failures are scheduled and age, the
vehicle moves, the detectors judge, maintenance begins or the tick goes on.
`VehicleAgent` has the same loop split at its awaits, with the bus, and leaves
position and detection open; here they are computed and a tick is atomic. A dispatch
is two actions: `Dispatch` up to the await of the acknowledgment, `SetTarget` after
it, and ticks come in between, with `taking` the scene the listener is about to set.
`pace` is the set of distances a tick may cover, which the configured frequency and
the hour determine; nothing bounds it by the arrival radius, since the
configuration (`config.py:95-97`) does not.
`learned` is whether the file of the learned model is there, `sent` the last
telemetry, `alerted` what the orchestrator makes of the alerts.

**Fleet.** The agents as tasks of one loop, whose signal handlers they replace one
after the other.

**EmergencyLifecycle.** What the orchestrator promises about phases and crews
once tasks, lists and messages are hidden. The refinement mapping is
`crew[e] = {v : cur[v] = e}`. It admits that a closed emergency is closed again
or given a crew again, which the code does (finding `retry`).

**VehicleDuty.** What a vehicle promises once tasks, messages, positions and
readings are hidden: it takes missions, also in place of others, while it is in
service; it reaches a scene only when it was under way; it is grounded only with
a failure, and loses its mission then; a repair ends only after its timer was set,
ends the failures with it and gives the vehicle back. Nothing else takes a vehicle
out of MAINTENANCE but a resolution that was sent to it (`Release`, which needs
`recalled`) and the end of its process (`End`). `VehicleAgent` maps `vstatus`,
`mission`, `failing`, the vehicles with a repair timer, those with a resolution
that names them among their unread commands (`Recalled`) and those that run.
`VehicleBody`, which is one vehicle, maps `vstatus`, `mission`, whether a scenario is
active, whether the timer runs and whether an emergency still lists the vehicle. The
two models of the agent are different abstractions of one loop; this is what they
agree on.

**TelemetryLedger.** What becomes of records: each is stored or given up, once and
for ever, in batches of consecutive records no longer than `BatchSize`, and the
end leaves none undecided. `TelemetrySink` maps `received` to `accepted` and the
end of the event loop to `over`.

**Mutants.** A definition marked `(* a mutant *)` is a bug the code could have. No
action uses it. `PROJECT.json` says which definition it replaces and which
property then fails: each property of a passing run has one.

## 3. The runs

| Run | Checks | States |
| --- | --- | --- |
| `orchestrator` | `TypeOK`, `HeldIsListed`, `ProgressIsEarned`, `CommandsMatchRecord`, `WaitingHasNoUnits`, `DispatchedOnce`, `RefinesLifecycle` | 554 000 |
| `orchestrator_live` | `HeldIsListed`, `WaitingHasNoUnits`, `EveryEmergencyCloses` | 93 000 |
| `vehicle` | `VehicleTypeOK`, `MissionMatchesStatus`, `DrivesToMission`, `RepairIsTimed`, `RefinesDuty` | 811 000 |
| `aegis` | `SystemTypeOK`, `MissionWasAssigned` | 262 000 |
| `aegis_live` | `ViewCatchesUp` | 47 000 |
| `timing` | `YoungWhileOpen`, `ClosesInTime`, `LimitsClose`, `JumpExplainsDismissal` | 802 000 |
| `outlets` | `SinkTypeOK`, `KeptOnce`, `Settles`, `RefinesLedger`, `DashTypeOK`, `HeardOnce`, `HeardInOrder`, `PredictionsAgree`, `PictureIsTrue` | 1 272 000 |
| `body` | `BodyTypeOK`, `ArrivesAtTarget`, `CriticalIsGrounded`, `GroundedWhileFlagged`, `GetsCloser`, `RefinesDuty`, `Arrives`, `AlertClears` | 159 000 |
| `retry`, `resolve`, `arrival`, `fleet_stop` | one expected violation each, section 5 | |

**Bounds, and why they are enough.**
* `orchestrator`: two vehicles, two emergencies of clients, one of which needs two
  units, one HTTP handler, two coordination tasks. Two vehicles
  are the least for a crew of several, for an arrival that is not enough, and for
  a second emergency that competes for a unit; two emergencies the least for a
  list with something left in it. The code has three coordination tasks for every
  type; two already have a first, a last and a threshold that grows. The reports
  are `IDLE` and `ON_SCENE`, the only ones a handler tests for; `EN_ROUTE` and
  `MAINTENANCE` differ from them only in that they make a vehicle unavailable.
  Acknowledgments are off, as under the HTTP application; `orchestrator_live` and
  `aegis_live` have them on. The vehicles are symmetric.
* `orchestrator_live`: one vehicle, one emergency of a client and a historical one;
  one vehicle, since the liveness is about the sweeper; no symmetry. Here, and in
  `aegis`, the injector runs.
* `vehicle`: one vehicle (agents share nothing but the bus), two missions, at
  most two unread commands, so that a resolution and a dispatch wait together in
  either order, and two unread messages, every loss, crash and
  breakdown. `MaxUp` and `MaxCommands` bound the queues: a publication waits
  until there is room.
* `aegis`: one vehicle that crashes and breaks down, two historical emergencies,
  so the injector, the retry and the loop compete; two unread commands, so a
  resolution and a dispatch can wait together. The HTTP handlers, a second
  vehicle and lost publications multiply the states by ten and more; they are
  covered in `orchestrator` and `vehicle`, where the other side may do anything.
* `aegis_live`: one emergency of a client with its HTTP handler.
* `timing`: `Step` 30 minutes, the only clock the application installs, all
  types and severities, the default numbers of units, none, and twelve; four
  descriptions; births up to 240 minutes late and 100 early. `MaxLate` lets
  the clock jump twice while rounds are suspended, so a round can sleep through the
  limits of a whole status; the real database can be slower, which the proofs cover.
  `Horizon` is never reached: `ClosesInTime` bounds the time below it. For these inputs the float
  arithmetic of the code and the exact arithmetic of the model give the same
  result of every comparison.

* `outlets`: three deployments: a database without dashboards, neither, and
  dashboards without a database. The two share nothing but the record that feeds both, and
  neither waits for the other; together they would only multiply. Records without
  a database are the ones that `flush` drops. Dashboards get no telemetry in this
  run: an event is an event, and the predictions bring two of each kind. Batches of two
  and five records: two batches under way and a record in the buffer, or whose
  task has not run. Two clients are the least for a
  client that waits behind another; a dashboard that reconnects is a new client. Two
  predictions and two places: one is created while the other is resolved.
* `body`: a police unit on a line with the area 0..4 and a radius of 2; one
  scene inside the area and one beyond it; a path by road that passes a point
  twice. Two paces: ticks that cover 2 or 3, short of the diameter of 4, and ticks
  that cover 4, which may shuttle over a scene for ever (`Arrives` excludes
  those, every other property includes them). Two failures, one of which the rules
  do not look at, or one twice (`MaxBreaks`); 119 s of ageing per tick, the longest
  for which a warning precedes the critical reading. One tick of warm-up and one of
  window show the rules alone, and then the model speaking, silent and failing.
  Movement and ageing are scaled separately: neither depends on the other's unit.
* `fleet_stop`: three agents.

A run with `CHECK_DEADLOCK FALSE` is one of a system that really ends: the
orchestrator stops at the teardown and is not restarted in the same process, a
closed emergency is the end of `EmergencyTiming`, and the teardown that of
`Outlets` and `Fleet`.

**What they show.** `HeldIsListed`, `WaitingHasNoUnits` and `DispatchedOnce`
say that the lists which outlive an await do no harm to units: the retry may
revive a closed emergency, but never one that has had a crew. `ProgressIsEarned`
and `CommandsMatchRecord` say that a dispatch record is never replaced under a
task that is still working with it. `MissionMatchesStatus` and
`DrivesToMission` say that the interleavings of tick and listener leave no
half-taken mission once the target is set. `MissionWasAssigned` says that however
late a command is read, it concerns a record that lists the vehicle.
`ClosesInTime` bounds the life of an emergency by its wait, its limits, two
jumps of the clock and the time in which rounds were suspended;
`JumpExplainsDismissal` says that one in service is dismissed, where the sweeper
would have resolved it, only when the clock passed over the whole span between its
planned and its maximum duration unseen. `KeptOnce` places every record in exactly one of five places,
so that a batch that fails or is cut off counts as lost and never as pending for
ever; `RefinesLedger` adds what only shows over several steps: no record is decided
twice, and concurrent flushes and the last one, of `close`, still write consecutive
records, although the buffer is replaced before it is inserted. `Settles` says that the
teardown leaves none pending. `HeardOnce` says that
no broadcast skips a client because another one removed a dead connection, and that a
socket whose endpoint left it listed does not outlast the next broadcast.
`PictureIsTrue` says that once nothing is on its way a client holds those
predictions active that are, among those it has heard of, and that a creation is
announced before the resolution. `HeardInOrder` says that events also arrive in the
order of their announcement, and names the one exception: a broadcast that waits for
a client who has left, and whom a later broadcast does not have, is overtaken by
it. `RefinesDuty` says of both
models of the agent that neither an interleaving nor a computed movement or
finding lets a vehicle arrive that was not under way, be grounded without a failure, or
leave MAINTENANCE before its timer has run, unless a resolution is on its way to it or its
process ends. `ArrivesAtTarget` says of a vehicle that turns ON_SCENE with its
target set that it is there; while the acknowledgment is awaited it is false of
the code (finding `arrival`), and a vehicle may come to its scene later although it
said so before. It and `Arrives` are about scenes in the service area, which the road graph lies in: a
scene outside is never reached. `GetsCloser` covers ticks of every length up to the one
that may overshoot; `Arrives` has the proviso that no tick covers the diameter of the
arrival radius. `CriticalIsGrounded`,
`GroundedWhileFlagged` and `AlertClears` hold without a learned model, and say
so: with one, any warning of it hides a critical reading from the rules, and a
false alarm flags a healthy vehicle for good.

## 4. Fairness

* Every await returns, so a suspended task goes on: weak fairness of `Resume`,
  `TaskPersisted`, `ContinueRetry`, `ContinueSweep`, and of the orchestrator's
  start. The database and the bus log their errors and return.
* The sweeper runs for ever and tests every emergency in each round; the clock
  driver advances the clock, so a limit is passed in the end. A round may find an
  emergency busy being closed by another task, or the sweeper suspended, hence
  strong fairness of `SweepRound(e)`. `EmergencyTiming` derives the same from the
  clock: there `Advance`, `Sweep`, `CloseListed` and `EndRound` are fair, the last two
  because every await of a round returns or raises, which the loop catches.
* A vehicle ticks, reads its commands and is repaired in the end. The bounds of
  the queues may disable these steps now and then, which the real queues do not:
  strong fairness.
* `SinkFairness`: the event loop runs the tasks that are ready, the database
  answers every insertion, and a teardown that has begun goes on. That one begins
  is not assumed.
* `BodySpec`: the tick loop sleeps for a bounded time, and the publication of an
  acknowledgment returns or fails, hence `SetTarget`. Which movement a tick makes,
  whether a failure strikes and what the model says is not constrained, so `Arrives` and
  `AlertClears` rest on what every tick does. `MaxBreaks` makes the activations
  finite; `AlertClears` rests on that, since a failure that is activated anew
  whenever it is about to show never becomes critical.
* `FleetSpec`: every task that is ready runs. Signals need not come.
* Nothing is assumed of the vehicles in `orchestrator_live` and `timing`, of
  clients and failures anywhere, nor of the message loop beyond reading.

Historical emergencies are exempt from the sweeper, and one whose unit never
arrives stays DISPATCHED; `EveryEmergencyCloses` is about the others.

## 5. Where code and comments disagree

* `retry`: the retry works through a list taken before its awaits;
  `process_emergency` tests no status, so an emergency the sweeper cancelled
  meanwhile is dispatched again.
* `resolve`: a resolution is published after two awaits; a released vehicle that
  was dispatched again meanwhile drops the new mission, since the listener does
  not compare the emergency with its own.
* `arrival`: a tick between the acknowledgment and the setting of the target
  takes standing still for arrival; the emergency goes IN_PROGRESS with nobody at
  its scene.
* `fleet_stop`: the text of the fleet script promises that Ctrl+C shuts the whole
  fleet down; the agents replace each other's signal handlers, so it stops the last
  one and the rest go on.

Met on the way, without a run:
* Dismissals are published on a channel no vehicle subscribes to, so the units
  stay on the dismissed emergency, although it should "release its units back to
  IDLE" (`emergency_service.py:164`); `ViewCatchesUp` shows that their
  telemetry keeps them from being selected meanwhile.
* A resolution sets a broken vehicle to IDLE with its failures active, where
  the docstring at `agent.py:328-329` has it stay for the repair. The next critical
  reading grounds it again (`CriticalIsGrounded`).
* The injector dismisses exactly the DISPATCHING historical emergencies, the ones
  its docstring excludes (`historical_injector.py:57`), and waits five hours where
  that says three; its cap can be exceeded by a retry that revives a dismissed one.
* The multipliers below 1.0 for "minor" and "small" incidents never apply, because
  the greatest of them and 1.0 is taken.
* The configuration allows ticks of ten seconds (`config.py:95-97`), and one of five
  at full speed covers more than twice the arrival radius: the vehicle can shuttle
  over a scene for ever, as TLC shows when the proviso of `Arrives` is taken away.
  `TickIsShort` proves that ticks of up to four seconds meet the proviso.
* The simulated clock goes on while the sweeper awaits the database or the bus, half an
  hour every three seconds: an emergency is then open beyond its limits for as
  long as the round lasts.
* An endpoint of a dashboard that ends by another exception than
  `WebSocketDisconnect` leaves its socket in the list of connections
  (`api.py:587-592`); only a failing send takes it out.
* A first client that leaves can let a later event overtake an earlier one at
  another client, because a broadcast awaits its clients one by one
  (`HeardInOrder` says when).

## 6. What is proved

All proofs hold for all values of the constants that satisfy the assumption of
their module: `OrchestratorAssumption`, `VehicleAssumption`, `SystemAssumption`
(the statuses of the two halves are the same), `TimingAssumption`,
`SinkAssumption`, `DashboardAssumption` (finitely many neighborhoods, which one
round iterates over), `DeploymentAssumption`, `NavigationAssumption` (the
road graph lies in the service area) and `BodyAssumption` (a tick ages a failure by less
than two minutes; how far it goes is any positive number). They bound no number of vehicles, emergencies, clients or records;
TLC evaluates them on every run. Every invariant and every action property of a
passing run is the subject of a theorem, and so is every refinement.

* **Orchestrator types** (`TypeCorrect`), one lemma per group of actions.
* **Orchestrator records** (`Invariant`). `HeldIsListed` is not inductive: the
  retry replaces a dispatch record, and this is harmless only because an
  emergency in its list has none, which in turn depends on what the sweeper and
  the requests may do to it meanwhile. `IInv` joins `TypeOK`, `HeldIsListed`,
  `ProgressIsEarned`, `CommandsMatchRecord`, `WaitingHasNoUnits` and
  `TasksNameReported` (awaits and lists name emergencies that were reported).
  Three lemmas carry the argument: dispatching an undispatched emergency, closing
  any emergency, and an await that returns keep `Records`; each action is one of
  these or touches nothing in it. The five invariants follow.
* **Refinement** (`Refinement`, `DispatchedOnceAlways`). From `IInv` every step is
  of one `StepKind`: it gives one undispatched emergency a crew, begins one, ends
  some, or changes neither phases nor crews. The abstract actions and the
  persistence of dispatch records are read off the kinds.
* **Vehicles** (`VehicleTypeCorrect`, `VehicleInvariant` and its three parts).
  `DrivesToMission` needs `DriveIsConsistent`, which also says what holds while
  the acknowledgment is awaited: whatever a tick does then, the mission is the one
  being taken, or the vehicle is no longer EN_ROUTE. The invariants are local to
  a vehicle (`SafeIsLocal`), so each action is examined at one vehicle.
* **Whole system** (`SystemTypeCorrect`, `SystemImplementsHalves`,
  `SystemRefinesLifecycle`, `MissionWasAssignedAlways`). Every step of `Aegis` is a step
  or a stutter of each half, so what is proved of a half holds in the whole: the
  environment that `Orchestrator` leaves open is one the vehicles fit into, and the
  other way round. `MissionWasAssigned` then needs
  that a record with units is never replaced (`AssignmentLasts`), that a command is
  published to a unit of its record (`CommandedIsAssigned`, from
  `CommandsMatchRecord`), and that vehicles acquire missions and commands in no
  other way (`VehiclesInventNothing`, `DeliveryConcerns`).
* **Limits** (`YoungWhileOpenAlways`, `ClosesInTimeAlways`,
  `JumpExplainsDismissalAlways`): for any `Step`, any numbers of units and mentions,
  and rounds of any duration. `slip`, the time since the sweeper last looked, is what
  the first and the last are about; they use the structure of the sweeper's tests,
  that only a round under way has something listed, and that an emergency which waits
  has no time on its mission (`Counted`). `ClosesInTime` adds `Bounded`: but for the
  jump that wakes the sweeper, `slip` consists of time in which a round was suspended
  (`late`); so what the clock adds to the wait or to the mission, the round that follows
  lists or closes, a dispatch in between keeps the one jump, and the term of service
  ends with the other.
* **Telemetry** (`SinkTypeCorrect`, `NothingSlipsAway`): for any batch size and any
  number of records. `KeptOnce` and the types are inductive together; every step
  moves the contents of whole places, or one record that is new. The ledger
  (`SinkKeepsLedger`) needs two invariants more: `Ordered`, that records wait in the
  order of their reception and each batch under way is a piece of it, and `Torn`,
  that a teardown has gone on only when nothing waits any more, without which its
  end would leave records undecided in the buffer.
* **Dashboards and predictions** (`DashTypeCorrect`, `EachHearsOnce`,
  `NewsComesInOrder`, `OneForAPlace`, `NewsIsTrue`), for any number of clients,
  predictions and broadcasts at once. `DashInv` is inductive. `DashTypeCorrect` claims little: that only accepted
  sockets are listed. That a closed one does not stay is part of `EachHearsOnce`. `Linked` is needed for a
  client not to be dropped: whom a broadcast gives up on is not there, and a socket
  that has left does not come back. `Delivered` is `HeardOnce` for every moment of
  a broadcast and not for its end only; its last part, that a client who is there is
  in the audience of every broadcast after one of which it was, is what makes the
  order hold. `HeardInOrder` rests on `InStep`: as long as nobody of a broadcast's audience up
  to a client has left, no later broadcast is past that client; it is the reason why the sends to one client
  need no queue in the code. `PredictionsAgree` must be inductive for `Announced`:
  a round resolves exactly what it stops tracking because there is one
  prediction for a place.
  `OutletsRunTheSink` is the composition: the outlets implement `SinkSpec`, so what
  is proved of the sink holds next to the dashboards (`OutletsKeepRecords`).
* **Duty** (`AgentsDoTheirDuty`, `SystemDoesItsDuty`, `BodyDoesItsDuty`). An
  agent's repair gives back a vehicle without a mission by `MissionMatchesStatus`, and
  a resolution it obeys is one that was read from its queue (`ReadingRecalls`,
  `DeliveryRecalls` follow `recalled` through the queue). The body's repair does so by
  `Grounded` (a vehicle in maintenance has no mission), and its
  grounding starts a timer because a repair takes at least a tick however
  long ticks are (`RepairTakesTime`). The system inherits the agents' refinement
  through `SystemImplementsHalves`.
* **Body** (`BodyTypeCorrect`, `ArrivesWhereSent`, `CriticalGrounds`,
  `GroundingIsAnnounced`, `TicksGainGround`), for any area, radius, pace, road graph,
  vehicle type and failures, and ticks that age a failure by up to 119 s.
  `BodyInv` joins `BodyTypeOK`, `CriticalIsGrounded`, `WayInv` (a vehicle on a mission
  is assigned to it, and the listener is about to set its scene or it is the target, to
  which what is left of a route leads) and `Told` (what the rules find in a vehicle in
  service, the orchestrator has been told of). `RulesWarnFirst` is
  the fact about the tables that `GroundedWhileFlagged` rests on: a critical reading
  was at least a warning 119 s before, for every type and scenario.

**Only model-checked.** The liveness properties `EveryEmergencyCloses`,
`ViewCatchesUp`, `LimitsClose`, `Settles`, `Arrives` and `AlertClears` (TLAPS 1.4.5
does not reason about fairness and ENABLED). No module uses a RECURSIVE operator and none needs induction over data.

## 7. Modelling choices

* A handler whose awaits change no state afterwards is one action; the
  acknowledgment handler and the telemetry handler without a completed task are
  such. Tasks that only persist (`asyncio.create_task(self._persist...)`) change
  none of this state.
* A cancellation by the sweeper takes effect in the round itself, without an
  await; resolutions and dismissals follow one by one.
* The orchestrator works before `start` and between `start` and the first message
  as the code does: requests are accepted, commands are published only while
  `running`.
* Stop cancels the background tasks in whatever await they are in; requests in
  progress are finished first, as the HTTP server does.
* A client does not report itself as `historical_playback`. Vehicles are
  configured with the initial status IDLE, the default.
* `TelemetrySink`: the teardown sets `running` and cancels the listener without an
  await in between, so no record comes after `Stop`; it awaits the cancelled sweeper
  before `close()`, which lets every task created before run. Batches that nobody
  awaits are cancelled when the loop ends, and rolled back.
* `Dashboard`: sends to one client are answered in the order of their requests, and
  tasks begin in the order of their creation, as the event loop runs them. The lists
  of connections are sets with an order, since no client is ever in one twice:
  each connection is a socket of its own. Once a client has left, `Turn` keeps no order
  at the clients behind it, although the code may have asked for their sends in one:
  it admits more than the code does. The broadcasts that two request handlers await
  themselves (`api.py:389,572`) are left out; they are loops like those of the tasks.
* `VehicleBody`: a vehicle starts inside the service area, and is dispatched only
  without an alert against it, which is how the orchestrator selects; publications
  arrive. What becomes of these otherwise is `VehicleAgent`'s and `Aegis`' matter.
* `Fleet`: a signal before the first task has run is left out; it would end the
  process in the interpreter's own way.
* A vehicle that is not found in the dispatch record, an unknown emergency or a
  message that fails to parse changes nothing and has no action.

## 8. Not modelled

* The other repositories and the analytics (`storage/`, the snapshots and timelines
  of `orchestrator/persistence.py`): nothing they write is read back; their awaits
  are the interleaving points of `Orchestrator`.
* Training, and the numeric insides of the learned models: which class the
  classifier finds and which places are at risk is left open. The noise of sensors,
  headings and geodesy.
* Read-only endpoints and analytics; the command lines (`src/main.py`, the parsing
  and printing of `scripts/`); the legacy Redis client, which nothing uses.
* Distances, ETAs and roles of the selected units; the acknowledgment watchdog,
  which only logs.
* The in-memory bus used by tests: closing a bus that agents share, and connecting
  it again.
* The injector's hours and sampling, and its five-hour limit.

## 9. Plan

Done, in this order: `EmergencyLifecycle` and `Orchestrator` with the runs on
safety, refinement and liveness; `VehicleAgent`; `Aegis`; the proofs about the
orchestrator and the vehicles; `EmergencyTiming`; `TelemetrySink`, `Dashboard` and
`Outlets`; `Navigation`, `Diagnosis` and `VehicleBody`; `Fleet`; the proofs about
these, the limits and the whole system; `TelemetryLedger` and `VehicleDuty` with
the proofs that the detailed models implement them; the proofs about the dashboards.

Left:
1. The historical injector's loop with its hours, five-hour limit and cap, as an
   extension of `EmergencyTiming` to several emergencies. It would cover the one
   resource bound among the hazards that no property covers.
2. The message bus with several subscribers: late subscription, closing and
   reconnecting while a listener sleeps.
3. The simulated clock with several sleepers; unit scaling by severity checked
   against its table.
4. An abstract specification of the dashboards (a log, and a position in it for each
   client) for as long as nobody leaves.
5. The split tick of `VehicleAgent` in `VehicleBody`, so that it implements that module
   itself and not only `VehicleDuty`.
6. `EmergencyTiming` with several emergencies, so that the time a round takes is that of
   its closures.
