---------------------------- MODULE TelemetrySink ----------------------------
(***************************************************************************)
(* The way of telemetry into the database: DatabaseTelemetryPersister,     *)
(* from the task the orchestrator creates for each record to the commit of *)
(* its batch, through the teardown of the HTTP application.                *)
(*                                                                         *)
(* The sections under the persister's lock contain no await, so appending  *)
(* a record, testing the threshold and taking the batch are one step of    *)
(* the event loop; the insertion of a batch is awaited, and several may be *)
(* under way, in tasks that nobody awaits.  Records are numbered as they   *)
(* are received.                                                           *)
(***************************************************************************)
EXTENDS Naturals, Sequences, Functions

CONSTANTS
  BatchSize,    (* batch_size                                              *)
  MaxRecords    (* bound on the records received                           *)

ASSUME SinkAssumption == BatchSize \in Nat \ {0} /\ MaxRecords \in Nat

VARIABLES
  running,    (* the listener takes messages                               *)
  engine,     (* db.engine is set                                          *)
  received,   (* the number of records received                            *)
  spawned,    (* records whose enqueue task has not run yet, oldest first   *)
  buffer,     (* _buffer                                                   *)
  flights,    (* the batches being inserted                                *)
  last,       (* the batch taken by close(), which stop() awaits           *)
  stage,      (* of the teardown: "up", "closing", "closed", "ended"       *)
  stored,     (* the records in the database                               *)
  lost        (* the records that were given up                            *)

sinkVars == <<running, engine, received, spawned, buffer, flights, last,
              stage, stored, lost>>

Record == 1..MaxRecords

-----------------------------------------------------------------------------

(* The end of _handle_telemetry: a task is created to enqueue the record.   *)
Receive ==
  /\ running
  /\ received < MaxRecords
  /\ received' = received + 1
  /\ spawned' = Append(spawned, received + 1)
  /\ UNCHANGED <<running, engine, buffer, flights, last, stage, stored, lost>>

TakeAndKeep(content) ==                                     (* a mutant *)
  /\ buffer' = content
  /\ flights' = flights \cup {content}
  /\ UNCHANGED lost

(* flush up to the insertion, with the buffer at content: without an engine *)
(* the records are dropped.                                                 *)
TakeBatch(content) ==
  /\ buffer' = <<>>
  /\ IF engine
     THEN flights' = flights \cup {content} /\ UNCHANGED lost
     ELSE lost' = lost \cup Range(content) /\ UNCHANGED flights

EnqueuePastFull ==                                          (* a mutant *)
  LET content == Append(buffer, Head(spawned)) IN
  /\ spawned # <<>>
  /\ spawned' = Tail(spawned)
  /\ IF Len(content) > BatchSize
     THEN TakeBatch(content)
     ELSE buffer' = content /\ UNCHANGED <<flights, lost>>
  /\ UNCHANGED <<running, engine, received, last, stage, stored>>

(* enqueue.  The event loop runs the tasks in the order of their creation.  *)
Enqueue ==
  LET content == Append(buffer, Head(spawned)) IN
  /\ spawned # <<>>
  /\ spawned' = Tail(spawned)
  /\ IF Len(content) >= BatchSize
     THEN TakeBatch(content)
     ELSE buffer' = content /\ UNCHANGED <<flights, lost>>
  /\ UNCHANGED <<running, engine, received, last, stage, stored>>

(* The task of a batch goes on after its transaction.  close() returns with *)
(* the batch it has taken.                                                  *)
Land(batch) ==
  /\ batch \in flights
  /\ flights' = flights \ {batch}
  /\ stage' = IF batch = last THEN "closed" ELSE stage
  /\ UNCHANGED <<running, engine, received, spawned, buffer, last>>

FailUnnoticed(batch) == Land(batch) /\ UNCHANGED <<stored, lost>> (* a mutant *)

Commit(batch) == Land(batch) /\ stored' = stored \cup Range(batch) /\ UNCHANGED lost

(* The transaction is rolled back; the error is logged, the batch is gone.  *)
Fail(batch) == Land(batch) /\ lost' = lost \cup Range(batch) /\ UNCHANGED stored

(* Teardown of the application up to the wait for the cancelled sweeper.    *)
Stop ==
  /\ running
  /\ running' = FALSE
  /\ UNCHANGED <<engine, received, spawned, buffer, flights, last, stage, stored, lost>>

CloseUnflushed ==                                           (* a mutant *)
  /\ ~running
  /\ stage = "up"
  /\ spawned = <<>>
  /\ stage' = "closed"
  /\ UNCHANGED <<running, engine, received, spawned, buffer, flights, last, stored, lost>>

(* close(), once the wait for the sweeper has let the tasks created before  *)
(* run.  With nothing to write it returns at once.                          *)
Close ==
  /\ ~running
  /\ stage = "up"
  /\ spawned = <<>>
  /\ IF buffer = <<>> THEN UNCHANGED <<buffer, flights, lost>> ELSE TakeBatch(buffer)
  /\ last' = buffer
  /\ stage' = IF buffer = <<>> \/ ~engine THEN "closed" ELSE "closing"
  /\ UNCHANGED <<running, engine, received, spawned, stored>>

(* disconnect(), and the end of the event loop: the tasks that are still    *)
(* inserting are cancelled, their transactions rolled back.                 *)
Disconnect ==
  /\ stage = "closed"
  /\ stage' = "ended"
  /\ engine' = FALSE
  /\ lost' = lost \cup UNION {Range(b) : b \in flights}
  /\ flights' = {}
  /\ UNCHANGED <<running, received, spawned, buffer, last, stored>>

(* The application connects before it starts; an orchestrator that runs     *)
(* without it has no engine.                                                *)
SinkInit ==
  /\ running = TRUE
  /\ engine \in BOOLEAN
  /\ received = 0
  /\ spawned = <<>>
  /\ buffer = <<>>
  /\ flights = {}
  /\ last = <<>>
  /\ stage = "up"
  /\ stored = {}
  /\ lost = {}

SinkStep ==
  \/ Enqueue
  \/ \E b \in flights : Commit(b) \/ Fail(b)
  \/ Stop
  \/ Close
  \/ Disconnect

SinkNext == Receive \/ SinkStep
SinkSpec == SinkInit /\ [][SinkNext]_sinkVars

(* The event loop runs every task that is ready, the database answers, and  *)
(* a teardown that has begun goes on.                                       *)
SinkFairness ==
  /\ WF_sinkVars(Enqueue)
  /\ WF_sinkVars(\E b \in flights : Commit(b) \/ Fail(b))
  /\ WF_sinkVars(Close)
  /\ WF_sinkVars(Disconnect)

-----------------------------------------------------------------------------
(* Properties.                                                              *)

(* Every component of the sink's state keeps its type, and a full buffer is *)
(* never left behind by a step of the event loop, whatever batches are      *)
(* under way: every record is on its way after at most BatchSize - 1 more.  *)
SinkTypeOK ==
  /\ running \in BOOLEAN
  /\ engine \in BOOLEAN
  /\ received \in 0..MaxRecords
  /\ spawned \in Seq(Record)
  /\ buffer \in Seq(Record)
  /\ Len(buffer) < BatchSize
  /\ flights \subseteq Seq(Record)
  /\ last \in Seq(Record)
  /\ stage \in {"up", "closing", "closed", "ended"}
  /\ stored \subseteq Record
  /\ lost \subseteq Record

InFlight == UNION {Range(b) : b \in flights}

(* Where a record can be.                                                   *)
Places == <<Range(spawned), Range(buffer), InFlight, stored, lost>>

(* Concurrent flushes, failing ones and a teardown in their midst neither   *)
(* duplicate a record nor drop it unnoticed: each one received is in        *)
(* exactly one place, and at most once there.                               *)
KeptOnce ==
  /\ UNION Range(Places) = 1..received
  /\ \A i, j \in DOMAIN Places : i # j => Places[i] \cap Places[j] = {}
  /\ \A b, c \in flights : b # c => Range(b) \cap Range(c) = {}
  /\ \A s \in {spawned, buffer} \cup flights : IsInjective(s)

(* The tasks, the buffer and the teardown implement the ledger of records:  *)
(* none is decided twice, batches are consecutive records in spite of the   *)
(* concurrent flushes, and the end leaves none undecided.                   *)
Ledger == INSTANCE TelemetryLedger WITH accepted <- received, over <- (stage = "ended")
RefinesLedger == Ledger!Spec

(* A teardown leaves nothing between the vehicle and the database: every    *)
(* record received before it is stored in the end, or given up by an        *)
(* insertion that failed or was cut short.                                  *)
Settles == ~running ~> (stored \cup lost = 1..received)
=============================================================================
