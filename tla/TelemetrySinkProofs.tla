------------------------- MODULE TelemetrySinkProofs -------------------------
(***************************************************************************)
(* No record of telemetry is duplicated or dropped unnoticed, for every    *)
(* batch size and any number of records.  Each action is reduced to what   *)
(* it moves from one place to another; that the places stay disjoint and   *)
(* together hold what was received then follows from sets alone.           *)
(***************************************************************************)
EXTENDS TelemetrySink, SequenceTheorems, TLAPS

(* What appending a record to a list does to its members.                   *)
LEMMA AppendMembers ==
  ASSUME NEW S, NEW s \in Seq(S), NEW x \in S
  PROVE  /\ Append(s, x) \in Seq(S)
         /\ Append(s, x) # <<>>
         /\ Range(Append(s, x)) = Range(s) \cup {x}
         /\ IsInjective(s) /\ x \notin Range(s) => IsInjective(Append(s, x))
<1>1. /\ Append(s, x) \in Seq(S)
      /\ Append(s, x) # <<>>
      /\ Len(Append(s, x)) = Len(s) + 1
      /\ DOMAIN Append(s, x) = 1..(Len(s) + 1)
      /\ DOMAIN s = 1..Len(s)
      /\ Len(s) \in Nat
      /\ \A i \in 1..Len(s) : Append(s, x)[i] = s[i]
      /\ Append(s, x)[Len(s) + 1] = x
  OBVIOUS
<1>2. Range(Append(s, x)) = Range(s) \cup {x}
  BY <1>1 DEF Range
<1>3. IsInjective(s) /\ x \notin Range(s) => IsInjective(Append(s, x))
  BY <1>1 DEF IsInjective, Range
<1> QED  BY <1>1, <1>2, <1>3

(* What taking the head off a list does to its members.                     *)
LEMMA TailMembers ==
  ASSUME NEW S, NEW s \in Seq(S), s # <<>>
  PROVE  /\ Head(s) \in S
         /\ Tail(s) \in Seq(S)
         /\ Range(s) = Range(Tail(s)) \cup {Head(s)}
         /\ IsInjective(s) => IsInjective(Tail(s)) /\ Head(s) \notin Range(Tail(s))
<1>1. /\ Head(s) = s[1]
      /\ Head(s) \in S
      /\ Tail(s) \in Seq(S)
      /\ Len(s) \in Nat \ {0}
      /\ DOMAIN s = 1..Len(s)
      /\ DOMAIN Tail(s) = 1..(Len(s) - 1)
      /\ \A i \in 1..(Len(s) - 1) : Tail(s)[i] = s[i + 1]
  OBVIOUS
<1>2. Range(s) \subseteq Range(Tail(s)) \cup {Head(s)}
  <2> SUFFICES ASSUME NEW i \in 1..Len(s), i # 1 PROVE s[i] \in Range(Tail(s))
    BY <1>1 DEF Range
  <2>1. i - 1 \in 1..(Len(s) - 1) /\ s[i] = Tail(s)[i - 1]
    BY <1>1
  <2> QED  BY <2>1, <1>1 DEF Range
<1>3. Range(Tail(s)) \cup {Head(s)} \subseteq Range(s)
  BY <1>1 DEF Range
<1>4. ASSUME IsInjective(s) PROVE IsInjective(Tail(s)) /\ Head(s) \notin Range(Tail(s))
  BY <1>1, <1>4 DEF IsInjective, Range
<1> QED  BY <1>1, <1>2, <1>3, <1>4

(* An empty list has no members.                                            *)
LEMMA NoMembers == Range(<<>>) = {} /\ IsInjective(<<>>)
  BY DEF Range, IsInjective

-----------------------------------------------------------------------------
(* KeptOnce in terms of sets.                                               *)

S == Range(spawned)
B == Range(buffer)

Apart ==
  /\ S \cap B = {} /\ S \cap InFlight = {} /\ S \cap stored = {} /\ S \cap lost = {}
  /\ B \cap InFlight = {} /\ B \cap stored = {} /\ B \cap lost = {}
  /\ InFlight \cap stored = {} /\ InFlight \cap lost = {}
  /\ stored \cap lost = {}

Whole == S \cup B \cup InFlight \cup stored \cup lost = 1..received

FlightsApart == \A b, c \in flights : b # c => Range(b) \cap Range(c) = {}

NoRepetition ==
  IsInjective(spawned) /\ IsInjective(buffer) /\ \A b \in flights : IsInjective(b)

(* The invariant of the sink, spelled out.                                  *)
LEMMA KeptOnceSpelled == KeptOnce <=> Whole /\ Apart /\ FlightsApart /\ NoRepetition
<1>1. /\ DOMAIN Places = 1..5
      /\ Places[1] = S /\ Places[2] = B /\ Places[3] = InFlight
      /\ Places[4] = stored /\ Places[5] = lost
  BY DEF Places, S, B
<1>2. UNION Range(Places) = S \cup B \cup InFlight \cup stored \cup lost
  <2>1. Range(Places) = {S, B, InFlight, stored, lost}
    BY <1>1 DEF Range
  <2> QED  BY <2>1
<1>3. (\A i, j \in DOMAIN Places : i # j => Places[i] \cap Places[j] = {}) <=> Apart
  <2>1. ASSUME Apart, NEW i \in 1..5, NEW j \in 1..5, i # j
        PROVE  Places[i] \cap Places[j] = {}
    BY <2>1, <1>1 DEF Apart
  <2>2. ASSUME \A i, j \in 1..5 : i # j => Places[i] \cap Places[j] = {}
        PROVE  Apart
    BY <2>2, <1>1 DEF Apart
  <2> QED  BY <2>1, <2>2, <1>1
<1>4. (\A s \in {spawned, buffer} \cup flights : IsInjective(s)) <=> NoRepetition
  BY DEF NoRepetition
<1> QED  BY <1>2, <1>3, <1>4 DEF KeptOnce, Whole, FlightsApart

(* The same after a step.                                                   *)
LEMMA KeptOnceAfter == Whole' /\ Apart' /\ FlightsApart' /\ NoRepetition' => KeptOnce'
  BY KeptOnceSpelled, PTL

SinkInv == SinkTypeOK /\ KeptOnce

(* The sink starts empty.                                                   *)
LEMMA SinkStarts == SinkInit => SinkInv
<1> SUFFICES ASSUME SinkInit PROVE SinkInv
  OBVIOUS
<1>1. SinkTypeOK
  BY SinkAssumption DEF SinkInit, SinkTypeOK, Record
<1>2. InFlight = {} /\ S = {} /\ B = {}
  BY NoMembers DEF SinkInit, InFlight, S, B
<1>3. Whole /\ Apart /\ FlightsApart /\ NoRepetition
  BY <1>2, NoMembers DEF SinkInit, Whole, Apart, FlightsApart, NoRepetition
<1> QED  BY <1>1, <1>3, KeptOnceSpelled DEF SinkInv

(* A record that is received is new, and its task the only one for it.      *)
LEMMA ReceiveKeeps == SinkInv /\ Receive => SinkInv'
<1> SUFFICES ASSUME SinkInv, Receive PROVE SinkInv'
  OBVIOUS
<1> USE DEF SinkInv, Receive
<1>1. SinkTypeOK /\ Whole /\ Apart /\ FlightsApart /\ NoRepetition
  BY KeptOnceSpelled
<1>2. received + 1 \in Record /\ received \in Nat
  BY SinkAssumption DEF SinkTypeOK, Record
<1>3. received + 1 \notin S \cup B \cup InFlight \cup stored \cup lost
  BY <1>1, <1>2 DEF Whole
<1>4. /\ spawned' \in Seq(Record)
      /\ S' = S \cup {received + 1}
      /\ IsInjective(spawned')
  BY <1>1, <1>2, <1>3, AppendMembers DEF SinkTypeOK, S, NoRepetition
<1>5. SinkTypeOK'
  BY <1>1, <1>2, <1>4, SinkAssumption DEF SinkTypeOK
<1>6. B' = B /\ InFlight' = InFlight /\ (1..received)' = 1..received \cup {received + 1}
  BY <1>2 DEF B, InFlight
<1>7. Whole' /\ Apart'
  BY <1>1, <1>3, <1>4, <1>6 DEF Whole, Apart
<1>8. FlightsApart' /\ NoRepetition'
  BY <1>1, <1>4 DEF FlightsApart, NoRepetition
<1> QED  BY <1>5, <1>7, <1>8, KeptOnceAfter

(* A batch that is taken holds what the buffer held, and is either under    *)
(* way or given up.                                                         *)
LEMMA TakeBatchMoves ==
  ASSUME NEW content \in Seq(Record), TakeBatch(content), SinkTypeOK, FlightsApart,
         NoRepetition, IsInjective(content), Range(content) \cap InFlight = {}
  PROVE  /\ buffer' = <<>> /\ B' = {}
         /\ flights' \subseteq Seq(Record) /\ lost' \subseteq Record
         /\ FlightsApart'
         /\ \A b \in flights' : IsInjective(b)
         /\ \/ InFlight' = InFlight \cup Range(content) /\ lost' = lost
            \/ InFlight' = InFlight /\ lost' = lost \cup Range(content)
<1>1. buffer' = <<>> /\ B' = {}
  BY NoMembers DEF TakeBatch, B
<1>2. CASE engine
  <2>1. flights' = flights \cup {content} /\ lost' = lost
    BY <1>2 DEF TakeBatch
  <2>2. InFlight' = InFlight \cup Range(content)
    BY <2>1 DEF InFlight
  <2>3. \A b \in flights : Range(b) \subseteq InFlight
    BY DEF InFlight
  <2>4. FlightsApart'
    BY <2>1, <2>3 DEF FlightsApart
  <2> QED  BY <1>1, <2>1, <2>2, <2>4 DEF SinkTypeOK, NoRepetition
<1>3. CASE ~engine
  <2>1. flights' = flights /\ lost' = lost \cup Range(content)
    BY <1>3 DEF TakeBatch
  <2>2. Range(content) \subseteq Record
    BY DEF Range
  <2>3. InFlight' = InFlight /\ FlightsApart'
    BY <2>1 DEF InFlight, FlightsApart
  <2> QED  BY <1>1, <2>1, <2>2, <2>3 DEF SinkTypeOK, NoRepetition
<1> QED  BY <1>2, <1>3

(* An enqueue task moves its record to the buffer, or with the buffer into  *)
(* a batch.                                                                 *)
LEMMA EnqueueKeeps == SinkInv /\ Enqueue => SinkInv'
<1> SUFFICES ASSUME SinkInv, Enqueue PROVE SinkInv'
  OBVIOUS
<1> DEFINE h == Head(spawned)
           content == Append(buffer, h)
<1>1. SinkTypeOK /\ Whole /\ Apart /\ FlightsApart /\ NoRepetition
  BY KeptOnceSpelled DEF SinkInv
<1>2. /\ spawned # <<>> /\ spawned' = Tail(spawned)
      /\ UNCHANGED <<running, engine, received, last, stage, stored>>
  BY DEF Enqueue
<1>3. /\ h \in Record
      /\ spawned' \in Seq(Record)
      /\ S = S' \cup {h} /\ h \notin S'
      /\ IsInjective(spawned')
  BY <1>1, <1>2, TailMembers DEF SinkTypeOK, S, NoRepetition
<1>4. /\ content \in Seq(Record)
      /\ Range(content) = B \cup {h}
      /\ IsInjective(content)
  <2>1. h \notin B
    BY <1>1, <1>3 DEF Apart
  <2> QED  BY <1>1, <1>3, <2>1, AppendMembers DEF SinkTypeOK, B, NoRepetition
<1>5. Range(content) \cap InFlight = {}
  BY <1>1, <1>3, <1>4 DEF Apart
<1>6. CASE Len(content) >= BatchSize
  <2>1. TakeBatch(content)
    BY <1>6 DEF Enqueue
  <2>2. /\ buffer' = <<>> /\ B' = {}
        /\ flights' \subseteq Seq(Record) /\ lost' \subseteq Record
        /\ FlightsApart'
        /\ \A b \in flights' : IsInjective(b)
        /\ \/ InFlight' = InFlight \cup Range(content) /\ lost' = lost
           \/ InFlight' = InFlight /\ lost' = lost \cup Range(content)
    BY <2>1, <1>1, <1>4, <1>5, TakeBatchMoves
  <2>3. SinkTypeOK'
    BY <1>1, <1>2, <1>3, <2>2, SinkAssumption DEF SinkTypeOK
  <2>4. Whole' /\ Apart'
    BY <1>1, <1>2, <1>3, <1>4, <2>2 DEF Whole, Apart
  <2>5. NoRepetition'
    BY <1>3, <2>2, NoMembers DEF NoRepetition
  <2> QED  BY <2>2, <2>3, <2>4, <2>5, KeptOnceAfter DEF SinkInv
<1>7. CASE ~(Len(content) >= BatchSize)
  <2>1. buffer' = content /\ flights' = flights /\ lost' = lost
    BY <1>7 DEF Enqueue
  <2>2. SinkTypeOK'
    BY <1>1, <1>2, <1>3, <1>4, <1>7, <2>1, SinkAssumption DEF SinkTypeOK
  <2>3. B' = B \cup {h} /\ InFlight' = InFlight
    BY <1>4, <2>1 DEF B, InFlight
  <2>4. Whole' /\ Apart'
    BY <1>1, <1>2, <1>3, <2>1, <2>3 DEF Whole, Apart
  <2>5. FlightsApart' /\ NoRepetition'
    BY <1>1, <1>3, <1>4, <2>1 DEF FlightsApart, NoRepetition
  <2> QED  BY <2>2, <2>4, <2>5, KeptOnceAfter DEF SinkInv
<1> QED  BY <1>6, <1>7

(* A batch that lands leaves the flights, and only it.                      *)
LEMMA LandMoves ==
  ASSUME SinkTypeOK, FlightsApart, NEW batch, Land(batch)
  PROVE  /\ Range(batch) \subseteq InFlight
         /\ Range(batch) \subseteq Record
         /\ InFlight' = InFlight \ Range(batch)
         /\ FlightsApart'
         /\ flights' \subseteq flights
<1>1. batch \in flights /\ flights' = flights \ {batch}
  BY DEF Land
<1>2. Range(batch) \subseteq InFlight /\ Range(batch) \subseteq Record
  BY <1>1 DEF InFlight, SinkTypeOK, Range
<1>3. InFlight' = InFlight \ Range(batch)
  BY <1>1 DEF InFlight, FlightsApart
<1>4. FlightsApart'
  BY <1>1 DEF FlightsApart
<1> QED  BY <1>1, <1>2, <1>3, <1>4

(* A batch is stored as a whole or given up as a whole.                     *)
LEMMA LandKeeps ==
  ASSUME SinkInv, NEW batch \in flights, Commit(batch) \/ Fail(batch)
  PROVE  SinkInv'
<1>1. SinkTypeOK /\ Whole /\ Apart /\ FlightsApart /\ NoRepetition
  BY KeptOnceSpelled DEF SinkInv
<1>2. /\ Land(batch)
      /\ \/ stored' = stored \cup Range(batch) /\ lost' = lost
         \/ lost' = lost \cup Range(batch) /\ stored' = stored
  BY DEF Commit, Fail
<1>3. /\ UNCHANGED <<running, engine, received, spawned, buffer, last>>
      /\ stage' \in {"closed", stage}
  BY <1>2 DEF Land
<1>4. /\ Range(batch) \subseteq InFlight
      /\ Range(batch) \subseteq Record
      /\ InFlight' = InFlight \ Range(batch)
      /\ FlightsApart'
      /\ flights' \subseteq flights
  BY <1>1, <1>2, LandMoves
<1>5. SinkTypeOK'
  BY <1>1, <1>2, <1>3, <1>4, SinkAssumption DEF SinkTypeOK
<1>6. S' = S /\ B' = B
  BY <1>3 DEF S, B
<1>7. Whole' /\ Apart'
  BY <1>1, <1>2, <1>3, <1>4, <1>6 DEF Whole, Apart
<1>8. NoRepetition'
  BY <1>1, <1>3, <1>4 DEF NoRepetition
<1> QED  BY <1>4, <1>5, <1>7, <1>8, KeptOnceAfter DEF SinkInv

(* close() takes what the buffer holds; the end of the event loop gives up  *)
(* what is still under way.                                                 *)
LEMMA TeardownKeeps == SinkInv /\ (Stop \/ Close \/ Disconnect) => SinkInv'
<1> SUFFICES ASSUME SinkInv, Stop \/ Close \/ Disconnect PROVE SinkInv'
  OBVIOUS
<1>1. SinkTypeOK /\ Whole /\ Apart /\ FlightsApart /\ NoRepetition
  BY KeptOnceSpelled DEF SinkInv
<1>2. ASSUME UNCHANGED <<received, spawned, buffer, flights, stored, lost>>
      PROVE  KeptOnce'
  BY <1>1, <1>2, KeptOnceAfter
     DEF Whole, Apart, FlightsApart, NoRepetition, S, B, InFlight
<1>3. CASE Stop
  BY <1>1, <1>2, <1>3, SinkAssumption DEF Stop, SinkTypeOK, SinkInv
<1>4. CASE Close
  <2>1. /\ UNCHANGED <<running, engine, received, spawned, stored>>
        /\ last' = buffer /\ stage' \in {"closed", "closing"}
    BY <1>4 DEF Close
  <2>2. CASE buffer = <<>>
    BY <1>1, <1>2, <1>4, <2>1, <2>2, SinkAssumption DEF Close, SinkTypeOK, SinkInv
  <2>3. CASE buffer # <<>>
    <3>1. TakeBatch(buffer)
      BY <1>4, <2>3 DEF Close
    <3>2. B \cap InFlight = {} /\ IsInjective(buffer) /\ buffer \in Seq(Record)
      BY <1>1 DEF Apart, NoRepetition, SinkTypeOK
    <3>3. /\ buffer' = <<>> /\ B' = {}
          /\ flights' \subseteq Seq(Record) /\ lost' \subseteq Record
          /\ FlightsApart'
          /\ \A b \in flights' : IsInjective(b)
          /\ \/ InFlight' = InFlight \cup B /\ lost' = lost
             \/ InFlight' = InFlight /\ lost' = lost \cup B
      BY <1>1, <3>1, <3>2, TakeBatchMoves DEF B
    <3>4. SinkTypeOK'
      BY <1>1, <2>1, <3>3, SinkAssumption DEF SinkTypeOK
    <3>5. S' = S
      BY <2>1 DEF S
    <3>6. Whole' /\ Apart'
      BY <1>1, <2>1, <3>3, <3>5 DEF Whole, Apart
    <3>7. NoRepetition'
      BY <1>1, <2>1, <3>3, NoMembers DEF NoRepetition
    <3> QED  BY <3>3, <3>4, <3>6, <3>7, KeptOnceAfter DEF SinkInv
  <2> QED  BY <2>2, <2>3
<1>5. CASE Disconnect
  <2>1. /\ UNCHANGED <<running, received, spawned, buffer, last, stored>>
        /\ engine' = FALSE /\ stage' = "ended"
        /\ flights' = {} /\ lost' = lost \cup InFlight
    BY <1>5 DEF Disconnect, InFlight
  <2>2. InFlight' = {} /\ InFlight \subseteq Record
    <3>1. \A b \in flights : Range(b) \subseteq Record
      BY <1>1 DEF SinkTypeOK, Range
    <3> QED  BY <2>1, <3>1 DEF InFlight
  <2>3. SinkTypeOK'
    BY <1>1, <2>1, <2>2, SinkAssumption DEF SinkTypeOK
  <2>4. Whole' /\ Apart'
    BY <1>1, <2>1, <2>2 DEF Whole, Apart, S, B
  <2>5. FlightsApart' /\ NoRepetition'
    BY <1>1, <2>1 DEF FlightsApart, NoRepetition
  <2> QED  BY <2>3, <2>4, <2>5, KeptOnceAfter DEF SinkInv
<1> QED  BY <1>3, <1>4, <1>5

(* Every step of the sink keeps the invariant.                              *)
LEMMA SinkStepKeeps == SinkInv /\ [SinkNext]_sinkVars => SinkInv'
<1>1. ASSUME SinkInv, UNCHANGED sinkVars PROVE SinkInv'
  <2>1. SinkTypeOK'
    BY <1>1 DEF sinkVars, SinkInv, SinkTypeOK
  <2>2. Whole' /\ Apart' /\ FlightsApart' /\ NoRepetition'
    BY <1>1, KeptOnceSpelled
       DEF sinkVars, SinkInv, Whole, Apart, FlightsApart, NoRepetition, S, B, InFlight
  <2> QED  BY <2>1, <2>2, KeptOnceAfter DEF SinkInv
<1>2. ASSUME SinkInv, SinkNext PROVE SinkInv'
  BY <1>2, ReceiveKeeps, EnqueueKeeps, LandKeeps, TeardownKeeps DEF SinkNext, SinkStep
<1> QED  BY <1>1, <1>2

(* persistence.py keeps its bookkeeping in order for every batch size: a    *)
(* full buffer is never left behind.                                        *)
THEOREM SinkTypeCorrect == SinkSpec => []SinkTypeOK
<1>1. SinkSpec => []SinkInv
  BY SinkStarts, SinkStepKeeps, PTL DEF SinkSpec
<1> QED  BY <1>1, PTL DEF SinkInv

(* No interleaving of enqueues, flushes, failing insertions and a teardown  *)
(* duplicates a record or loses track of one.                               *)
THEOREM NothingSlipsAway == SinkSpec => []KeptOnce
<1>1. SinkSpec => []SinkInv
  BY SinkStarts, SinkStepKeeps, PTL DEF SinkSpec
<1> QED  BY <1>1, PTL DEF SinkInv

-----------------------------------------------------------------------------
(* The sink implements the ledger of records.                               *)

(* Records wait in the order of their reception, and each batch is a piece  *)
(* of it.                                                                   *)
InSequence(s, end) == \A i \in DOMAIN s : s[i] = end - Len(s) + i

Consecutive(b) == Len(b) \in 1..BatchSize /\ \A i \in DOMAIN b : b[i] = b[1] + i - 1

Ordered ==
  /\ InSequence(spawned, received)
  /\ InSequence(buffer, received - Len(spawned))
  /\ \A b \in flights : Consecutive(b)

(* The teardown goes on only once nothing waits any more, and at the end    *)
(* nothing is under way.                                                    *)
Torn ==
  /\ stage = "up" => last = <<>>
  /\ stage # "up" => ~running /\ spawned = <<>> /\ buffer = <<>>
  /\ stage = "ended" => flights = {}

LedgerInv == SinkInv /\ Ordered /\ Torn

(* What is undecided waits or is under way.                                 *)
LEMMA UndecidedAre == ASSUME SinkInv PROVE Ledger!Undecided = S \cup B \cup InFlight
  BY KeptOnceSpelled DEF SinkInv, Ledger!Undecided, Whole, Apart

(* A sequence of consecutive records is a batch of the ledger.              *)
LEMMA ConsecutiveIsBatch ==
  ASSUME NEW b \in Seq(Record), Consecutive(b), Range(b) \subseteq 1..received, received \in Nat
  PROVE  Ledger!Batch(Range(b))
<1>1. /\ DOMAIN b = 1..Len(b) /\ Len(b) \in 1..BatchSize /\ BatchSize \in Nat
      /\ \A i \in 1..Len(b) : b[i] = b[1] + i - 1
      /\ b[1] \in Range(b)
  BY SinkAssumption DEF Consecutive, Range
<1>2. b[1] \in 1..received
  BY <1>1
<1>3. Range(b) = b[1]..(b[1] + Len(b) - 1)
  <2>1. Range(b) \subseteq b[1]..(b[1] + Len(b) - 1)
    BY <1>1, <1>2 DEF Range
  <2>2. ASSUME NEW x \in b[1]..(b[1] + Len(b) - 1) PROVE x \in Range(b)
    <3>1. x - b[1] + 1 \in 1..Len(b) /\ b[x - b[1] + 1] = x
      BY <1>1, <1>2, <2>2
    <3> QED  BY <1>1, <3>1 DEF Range
  <2> QED  BY <2>1, <2>2
<1> QED  BY <1>1, <1>2, <1>3 DEF Ledger!Batch

(* A batch that is taken is under way, or given up at once.                 *)
LEMMA TakeBatchLedger ==
  ASSUME NEW content \in Seq(Record), TakeBatch(content), Ordered, Consecutive(content)
  PROVE  /\ \A b \in flights' : Consecutive(b)
         /\ buffer' = <<>>
         /\ lost' = lost \/ lost' = lost \cup Range(content)
  BY DEF TakeBatch, Ordered

(* The next record to be buffered follows those that are.                   *)
LEMMA EnqueueInSequence ==
  ASSUME SinkTypeOK, Ordered, Enqueue
  PROVE  LET content == Append(buffer, Head(spawned)) IN
         /\ content \in Seq(Record)
         /\ InSequence(spawned', received)
         /\ InSequence(content, received - Len(spawned'))
         /\ Consecutive(content)
<1> DEFINE h == Head(spawned)
           content == Append(buffer, h)
<1>1. /\ spawned # <<>> /\ spawned' = Tail(spawned)
      /\ spawned \in Seq(Record) /\ buffer \in Seq(Record)
      /\ Len(buffer) < BatchSize /\ BatchSize \in Nat /\ received \in Nat
  BY SinkAssumption DEF SinkTypeOK, Enqueue
<1>2. /\ h = spawned[1] /\ h \in Record
      /\ Len(spawned) \in Nat \ {0} /\ DOMAIN spawned = 1..Len(spawned)
      /\ Len(spawned') = Len(spawned) - 1 /\ DOMAIN spawned' = 1..(Len(spawned) - 1)
      /\ \A i \in 1..(Len(spawned) - 1) : spawned'[i] = spawned[i + 1]
  BY <1>1
<1>3. \A i \in 1..Len(spawned) : spawned[i] = received - Len(spawned) + i
  BY <1>2 DEF Ordered, InSequence
<1>4. InSequence(spawned', received)
  BY <1>1, <1>2, <1>3 DEF InSequence
<1>5. /\ content \in Seq(Record)
      /\ Len(content) = Len(buffer) + 1 /\ Len(buffer) \in Nat
      /\ DOMAIN content = 1..(Len(buffer) + 1) /\ DOMAIN buffer = 1..Len(buffer)
      /\ \A i \in 1..Len(buffer) : content[i] = buffer[i]
      /\ content[Len(buffer) + 1] = h
  BY <1>1, <1>2
<1>6. \A i \in 1..Len(buffer) : buffer[i] = received - Len(spawned) - Len(buffer) + i
  BY <1>5 DEF Ordered, InSequence
<1>7. \A i \in DOMAIN content : content[i] = received - Len(spawned) - Len(buffer) + i
  BY <1>1, <1>2, <1>3, <1>5, <1>6
<1> HIDE DEF content, h
<1>8. InSequence(content, received - Len(spawned'))
  BY <1>1, <1>2, <1>5, <1>7 DEF InSequence
<1>9. Consecutive(content)
  <2>1. content[1] = received - Len(spawned) - Len(buffer) + 1
    BY <1>5, <1>7
  <2> QED  BY <1>1, <1>2, <1>5, <1>7, <2>1 DEF Consecutive
<1> QED  BY <1>4, <1>5, <1>8, <1>9 DEF content, h

LedgerStep == [Ledger!Next]_(Ledger!vars)

(* Giving up a batch of undecided records is a step of the ledger.          *)
LEMMA GivesUp ==
  ASSUME SinkInv, NEW b \in Seq(Record), Consecutive(b), Range(b) \subseteq S \cup B \cup InFlight,
         lost' = lost \/ lost' = lost \cup Range(b), UNCHANGED <<received, stored>>,
         stage # "ended", stage' # "ended"
  PROVE  LedgerStep
<1>1. CASE lost' = lost
  BY <1>1 DEF LedgerStep, Ledger!vars
<1>2. CASE lost' = lost \cup Range(b)
  <2>1. Range(b) \in SUBSET Ledger!Undecided /\ Range(b) \subseteq 1..received /\ received \in Nat
    BY UndecidedAre, SinkAssumption DEF Ledger!Undecided, SinkInv, SinkTypeOK
  <2>2. Ledger!GiveUp(Range(b))
    BY <1>2, <2>1, ConsecutiveIsBatch DEF Ledger!GiveUp
  <2> QED  BY <2>1, <2>2 DEF LedgerStep, Ledger!Next
<1> QED  BY <1>1, <1>2

(* A record that is received is accepted.                                   *)
LEMMA ReceiveLedger == ASSUME LedgerInv, Receive PROVE Ordered' /\ Torn' /\ LedgerStep
<1>1. /\ running /\ received' = received + 1 /\ spawned' = Append(spawned, received + 1)
      /\ UNCHANGED <<running, buffer, flights, last, stage, stored, lost>>
  BY DEF Receive
<1>2. spawned \in Seq(Record) /\ received \in Nat /\ Len(buffer) \in Nat
  BY SinkAssumption DEF LedgerInv, SinkInv, SinkTypeOK
<1>3. /\ Len(spawned) \in Nat /\ Len(spawned') = Len(spawned) + 1
      /\ DOMAIN spawned' = 1..(Len(spawned) + 1)
      /\ \A i \in 1..Len(spawned) : spawned'[i] = spawned[i]
      /\ spawned'[Len(spawned) + 1] = received + 1
      /\ DOMAIN spawned = 1..Len(spawned)
  BY <1>1, <1>2
<1>4. InSequence(spawned', received')
  BY <1>1, <1>2, <1>3 DEF LedgerInv, Ordered, InSequence
<1>5. InSequence(buffer, received' - Len(spawned'))
  <2>1. received' - Len(spawned') = received - Len(spawned)
    BY <1>1, <1>2, <1>3
  <2> QED  BY <2>1 DEF LedgerInv, Ordered
<1>6. Ordered' /\ Torn'
  BY <1>1, <1>4, <1>5 DEF LedgerInv, Ordered, Torn
<1>7. Ledger!Accept
  BY <1>1 DEF LedgerInv, Torn, Ledger!Accept
<1> QED  BY <1>6, <1>7 DEF LedgerStep, Ledger!Next

(* An enqueue task decides nothing, unless there is no database.            *)
LEMMA EnqueueLedger == ASSUME LedgerInv, Enqueue PROVE Ordered' /\ Torn' /\ LedgerStep
<1> DEFINE content == Append(buffer, Head(spawned))
<1>1. /\ spawned # <<>> /\ spawned' = Tail(spawned)
      /\ UNCHANGED <<running, received, last, stage, stored>>
  BY DEF Enqueue
<1>2. /\ content \in Seq(Record)
      /\ InSequence(spawned', received)
      /\ InSequence(content, received - Len(spawned'))
      /\ Consecutive(content)
  BY EnqueueInSequence DEF LedgerInv, SinkInv
<1>3. Range(content) \subseteq S \cup B
  <2>1. Head(spawned) \in Record /\ Head(spawned) \in S
    BY <1>1, TailMembers DEF LedgerInv, SinkInv, SinkTypeOK, S
  <2> QED  BY <2>1, AppendMembers DEF LedgerInv, SinkInv, SinkTypeOK, B
<1>4. stage = "up"
  BY <1>1 DEF LedgerInv, Torn
<1>5. Torn'
  BY <1>1, <1>4 DEF LedgerInv, Torn
<1>6. CASE Len(content) >= BatchSize
  <2>1. TakeBatch(content)
    BY <1>6 DEF Enqueue
  <2>2. /\ \A b \in flights' : Consecutive(b)
        /\ buffer' = <<>>
        /\ lost' = lost \/ lost' = lost \cup Range(content)
    BY <1>2, <2>1, TakeBatchLedger DEF LedgerInv
  <2>3. Ordered'
    BY <1>1, <1>2, <2>2 DEF Ordered, InSequence
  <2>4. LedgerStep
    BY <1>1, <1>2, <1>3, <1>4, <2>2, GivesUp DEF LedgerInv
  <2> QED  BY <1>5, <2>3, <2>4
<1>7. CASE ~(Len(content) >= BatchSize)
  <2>1. buffer' = content /\ UNCHANGED <<flights, lost>>
    BY <1>7 DEF Enqueue
  <2>2. Ordered'
    BY <1>1, <1>2, <2>1 DEF LedgerInv, Ordered
  <2>3. LedgerStep
    BY <1>1, <2>1 DEF LedgerStep, Ledger!vars
  <2> QED  BY <1>5, <2>2, <2>3
<1> QED  BY <1>6, <1>7

(* A batch that lands is decided as a whole.                                *)
LEMMA LandLedger ==
  ASSUME LedgerInv, NEW batch \in flights, Commit(batch) \/ Fail(batch)
  PROVE  Ordered' /\ Torn' /\ LedgerStep
<1>1. /\ flights' = flights \ {batch}
      /\ stage' = IF batch = last THEN "closed" ELSE stage
      /\ UNCHANGED <<running, received, spawned, buffer, last>>
      /\ \/ stored' = stored \cup Range(batch) /\ lost' = lost
         \/ lost' = lost \cup Range(batch) /\ stored' = stored
  BY DEF Commit, Fail, Land
<1>2. batch \in Seq(Record) /\ Consecutive(batch) /\ batch # <<>>
  <2>1. batch \in Seq(Record) /\ Consecutive(batch)
    BY DEF LedgerInv, SinkInv, SinkTypeOK, Ordered
  <2>2. Len(<<>>) \notin 1..BatchSize
    BY SinkAssumption
  <2> QED  BY <2>1, <2>2 DEF Consecutive
<1>3. Range(batch) \subseteq InFlight
  BY DEF InFlight
<1>4. stage # "ended" /\ stage' # "ended"
  BY <1>1 DEF LedgerInv, Torn
<1>5. Ordered' /\ Torn'
  BY <1>1, <1>2, <1>4 DEF LedgerInv, Ordered, Torn
<1>6. CASE lost' = lost \cup Range(batch) /\ stored' = stored
  BY <1>1, <1>2, <1>3, <1>4, <1>5, <1>6, GivesUp DEF LedgerInv
<1>7. CASE stored' = stored \cup Range(batch) /\ lost' = lost
  <2>1. Range(batch) \in SUBSET Ledger!Undecided /\ Range(batch) \subseteq 1..received /\ received \in Nat
    BY <1>3, UndecidedAre DEF Ledger!Undecided, LedgerInv, SinkInv, SinkTypeOK
  <2>2. Ledger!Store(Range(batch))
    BY <1>1, <1>2, <1>4, <1>7, <2>1, ConsecutiveIsBatch DEF Ledger!Store
  <2> QED  BY <1>5, <2>1, <2>2 DEF LedgerStep, Ledger!Next
<1> QED  BY <1>1, <1>6, <1>7

(* close() takes what is left, which is less than a batch; the end gives up *)
(* what is under way, all that is undecided then.                           *)
LEMMA TeardownLedger ==
  ASSUME LedgerInv, Stop \/ Close \/ Disconnect
  PROVE  Ordered' /\ Torn' /\ LedgerStep
<1>1. CASE Stop
  BY <1>1 DEF Stop, LedgerInv, Ordered, Torn, LedgerStep, Ledger!vars
<1>2. CASE Close
  <2>1. /\ ~running /\ stage = "up" /\ spawned = <<>>
        /\ last' = buffer /\ stage' \in {"closed", "closing"}
        /\ UNCHANGED <<running, received, spawned, stored>>
    BY <1>2 DEF Close
  <2>2. CASE buffer = <<>>
    BY <1>2, <2>1, <2>2 DEF Close, LedgerInv, Ordered, Torn, LedgerStep, Ledger!vars
  <2>3. CASE buffer # <<>>
    <3>1. TakeBatch(buffer)
      BY <1>2, <2>3 DEF Close
    <3>2. buffer \in Seq(Record) /\ Len(buffer) < BatchSize /\ received \in Nat /\ BatchSize \in Nat
      BY SinkAssumption DEF LedgerInv, SinkInv, SinkTypeOK
    <3>3. Len(buffer) \in 1..BatchSize /\ DOMAIN buffer = 1..Len(buffer) /\ Len(spawned) = 0
      BY <2>1, <2>3, <3>2
    <3>4. \A i \in DOMAIN buffer : buffer[i] = received - Len(buffer) + i
      BY <3>2, <3>3 DEF LedgerInv, Ordered, InSequence
    <3>5. Consecutive(buffer)
      BY <3>2, <3>3, <3>4 DEF Consecutive
    <3>6. /\ \A b \in flights' : Consecutive(b)
          /\ buffer' = <<>>
          /\ lost' = lost \/ lost' = lost \cup Range(buffer)
      BY <3>1, <3>2, <3>5, TakeBatchLedger DEF LedgerInv
    <3>7. Ordered' /\ Torn'
      BY <2>1, <3>6 DEF LedgerInv, Ordered, Torn, InSequence
    <3>8. LedgerStep
      BY <2>1, <3>2, <3>5, <3>6, GivesUp DEF LedgerInv, B
    <3> QED  BY <3>7, <3>8
  <2> QED  BY <2>2, <2>3
<1>3. CASE Disconnect
  <2>1. /\ stage = "closed" /\ stage' = "ended"
        /\ UNCHANGED <<running, received, spawned, buffer, last, stored>>
        /\ flights' = {} /\ lost' = lost \cup InFlight
    BY <1>3 DEF Disconnect, InFlight
  <2>2. Ordered' /\ Torn'
    BY <2>1 DEF LedgerInv, Ordered, Torn
  <2>3. S = {} /\ B = {}
    BY <2>1, NoMembers DEF LedgerInv, Torn, S, B
  <2>4. Ledger!Undecided = InFlight
    BY <2>3, UndecidedAre DEF LedgerInv
  <2>5. Ledger!End
    BY <2>1, <2>4 DEF Ledger!End
  <2> QED  BY <2>2, <2>5 DEF LedgerStep, Ledger!Next
<1> QED  BY <1>1, <1>2, <1>3

(* DatabaseTelemetryPersister decides every record once and for ever, by    *)
(* batches of consecutive records, and at the end of the process leaves     *)
(* none undecided.                                                          *)
THEOREM SinkKeepsLedger == SinkSpec => RefinesLedger
<1>1. SinkInit => LedgerInv /\ Ledger!Init
  <2> SUFFICES ASSUME SinkInit PROVE Ordered /\ Torn /\ Ledger!Init
    BY SinkStarts DEF LedgerInv
  <2> QED  BY DEF SinkInit, Ordered, InSequence, Torn, Ledger!Init
<1>2. LedgerInv /\ [SinkNext]_sinkVars => LedgerInv' /\ [Ledger!Next]_(Ledger!vars)
  <2> SUFFICES ASSUME LedgerInv, [SinkNext]_sinkVars PROVE Ordered' /\ Torn' /\ LedgerStep
    BY SinkStepKeeps DEF LedgerInv, LedgerStep
  <2>1. CASE UNCHANGED sinkVars
    BY <2>1 DEF sinkVars, LedgerInv, Ordered, Torn, LedgerStep, Ledger!vars
  <2> QED
    BY <2>1, ReceiveLedger, EnqueueLedger, LandLedger, TeardownLedger DEF SinkNext, SinkStep
<1> QED  BY <1>1, <1>2, PTL DEF SinkSpec, RefinesLedger, Ledger!Spec
=============================================================================
