--------------------------- MODULE TelemetryLedger ---------------------------
(***************************************************************************)
(* What the persistence of telemetry promises about the records, without   *)
(* its tasks, its buffer and its teardown: a record is stored or given up, *)
(* once and for ever; what is stored together are consecutive records, no  *)
(* more than a batch; and the end decides every record that is undecided.  *)
(* TelemetrySink implements this specification.                            *)
(***************************************************************************)
EXTENDS Naturals

CONSTANT BatchSize

VARIABLES
  accepted,  (* the number of records accepted                              *)
  stored,    (* those in the database                                       *)
  lost,      (* those that were given up                                    *)
  over       (* the process has ended                                       *)

Undecided == (1..accepted) \ (stored \cup lost)

Init ==
  /\ accepted = 0
  /\ stored = {}
  /\ lost = {}
  /\ over = FALSE

Accept ==
  /\ ~over
  /\ accepted' = accepted + 1
  /\ UNCHANGED <<stored, lost, over>>

(* A batch is consecutive records; it is stored or given up as a whole.     *)
Batch(b) == \E first \in 1..accepted, size \in 1..BatchSize : b = first..(first + size - 1)

Store(b) ==
  /\ ~over
  /\ Batch(b)
  /\ stored' = stored \cup b
  /\ UNCHANGED <<accepted, lost, over>>

GiveUp(b) ==
  /\ ~over
  /\ Batch(b)
  /\ lost' = lost \cup b
  /\ UNCHANGED <<accepted, stored, over>>

End ==
  /\ ~over
  /\ over' = TRUE
  /\ lost' = lost \cup Undecided
  /\ UNCHANGED <<accepted, stored>>

Next ==
  \/ Accept
  \/ \E b \in SUBSET Undecided : Store(b) \/ GiveUp(b)
  \/ End

vars == <<accepted, stored, lost, over>>
Spec == Init /\ [][Next]_vars
=============================================================================
