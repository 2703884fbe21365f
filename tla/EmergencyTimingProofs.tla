------------------------ MODULE EmergencyTimingProofs ------------------------
(* That the sweeper leaves no overdue emergency open, and none open for     *)
(* long, for any step of the clock and any numbers of units.                *)
EXTENDS EmergencyTiming, TLAPS

(* The greater of two integers.                                             *)
LEMMA MaxOfTwo ==
  ASSUME NEW a \in Int, NEW b \in Int
  PROVE  Max({a, b}) \in Int /\ Max({a, b}) >= a /\ Max({a, b}) >= b
<1>1. \E x \in {a, b} : \A y \in {a, b} : x >= y
  OBVIOUS
<1> QED BY <1>1 DEF Max

(* The emergency is one a client can report, and has a planned duration.    *)
Sized == em \in Emergency /\ Planned \in Int

(* The parts of an emergency.                                               *)
LEMMA Parts ==
  ASSUME em \in Emergency
  PROVE  /\ em.type \in EmergencyType
         /\ em.severity \in 1..5
         /\ em.mentions \in Mention
         /\ em.units \in Nat
<1>1. em.units \in Override \cup {UnitsDefault[k] : k \in EmergencyType}
  BY DEF Emergency
<1>2. \A k \in EmergencyType : UnitsDefault[k] \in Nat
  BY DEF EmergencyType, BaseDuration, UnitsDefault
<1>3. Override \subseteq Nat
  BY TimingAssumption
<1> QED BY <1>1, <1>2, <1>3 DEF Emergency

(* The multipliers of _duration_hint_multiplier have a greatest one.        *)
LEMMA HintIsNumber == em \in Emergency => HintMultiplier \in Int
<1> SUFFICES ASSUME em \in Emergency PROVE HintMultiplier \in Int
  OBVIOUS
<1> DEFINE S == {100} \cup em.mentions
<1>0. em.mentions \subseteq {80, 85, 125, 130, 135, 140, 145, 150}
  <2>1. em.mentions \in Mention
    BY Parts
  <2>2. Mention \subseteq SUBSET {80, 85, 125, 130, 135, 140, 145, 150}
    BY TimingAssumption
  <2> QED BY <2>1, <2>2
<1>1. S \subseteq {80, 85, 100, 125, 130, 135, 140, 145, 150} /\ 100 \in S
  BY <1>0
<1>2. \E x \in S : \A y \in S : x >= y
  BY <1>1
<1>3. Max(S) \in S
  BY <1>2 DEF Max
<1> QED BY <1>1, <1>3 DEF HintMultiplier

(* Every emergency has a planned duration (_planned_duration_minutes).      *)
LEMMA PlannedIsNumber == em \in Emergency => Planned \in Int
<1> SUFFICES ASSUME em \in Emergency PROVE Planned \in Int
  OBVIOUS
<1>1. BaseDuration[em.type] \in Int
  BY Parts DEF EmergencyType, BaseDuration
<1>2. SeverityMultiplier[em.severity] \in Int
  BY Parts DEF SeverityMultiplier
<1>3. em.units \in Int
  BY Parts
<1>4. Max({1, em.units}) \in Int
  <2>1. 1 \in Int
    OBVIOUS
  <2> QED BY <2>1, <1>3, MaxOfTwo, Zenon
<1>5. BaseDuration[em.type] * SeverityMultiplier[em.severity] \in Int
  BY <1>1, <1>2
<1>6. (9 + Max({1, em.units})) * HintMultiplier \in Int
  BY <1>4, HintIsNumber
<1>7. BaseDuration[em.type] * SeverityMultiplier[em.severity]
        * (9 + Max({1, em.units})) \in Int
  BY <1>5, <1>4
<1>8. BaseDuration[em.type] * SeverityMultiplier[em.severity]
        * (9 + Max({1, em.units})) * HintMultiplier \in Int
  BY <1>7, HintIsNumber
<1>9. 8 * Scale \in Int
  BY DEF Scale
<1> QED BY <1>8, <1>9, MaxOfTwo, Zenon DEF Planned

(* The counts are numbers, those of a mission start at its dispatch, and    *)
(* only a round under way has something listed: an emergency with units.    *)
Counted ==
  /\ age \in Int /\ open \in Nat /\ mission \in Nat /\ slip \in Nat /\ late \in Nat
  /\ phase \in {"UNREPORTED", "DISPATCHING"} => mission = 0
  /\ phase = "UNREPORTED" => open = 0
  /\ verdict # "none" =>
       /\ sweeper = "busy"
       /\ phase \notin {"UNREPORTED", "DISPATCHING"}
       /\ verdict \in {"RESOLVED", "DISMISSED"}

(* Together with YoungWhileOpen this is inductive.                          *)
TimingInv == Sized /\ Counted /\ YoungWhileOpen

(* The initial states satisfy the invariant.                                *)
LEMMA TimingInit == Init => TimingInv
  BY TimingAssumption, PlannedIsNumber DEF Init, TimingInv, Sized, Counted, YoungWhileOpen

(* What the limits demand: to leave the emergency as it is, or to end it.   *)
LEMMA StaleEnds ==
  /\ phase \in {"DISPATCHED", "IN_PROGRESS"} => Stale \in {phase, "RESOLVED", "DISMISSED"}
  /\ Stale \in Waiting => Stale = phase
<1>1. CASE phase = "DISPATCHING"
  BY <1>1 DEF Stale, Waiting
<1>2. CASE phase = "DISPATCHED"
  BY <1>2 DEF Stale, Waiting
<1>3. CASE phase = "IN_PROGRESS"
  BY <1>3 DEF Stale, Waiting
<1>4. CASE phase \notin Waiting
  BY <1>4 DEF Stale, Waiting
<1> QED BY <1>1, <1>2, <1>3, <1>4 DEF Waiting

(* A round of the sweeper cancels or lists what is overdue                  *)
(* (evaluate_stale_emergencies tests every limit of the status that an      *)
(* emergency has).                                                          *)
LEMMA SweepFindsOverdue ==
  ASSUME TimingInv, Sweep
  PROVE  TimingInv'
<1>1. /\ sweeper' = "busy" /\ slip' = 0
      /\ UNCHANGED <<em, age, open, mission, late>>
      /\ Planned' = Planned
  BY DEF Sweep, Planned, HintMultiplier
<1> USE DEF TimingInv, Sized, Counted, YoungWhileOpen, DispatchTimeout, StallTimeout
<1>2. CASE phase \in {"DISPATCHED", "IN_PROGRESS"} /\ Stale # phase
  BY <1>1, <1>2, StaleEnds DEF Sweep
<1>3. CASE ~(phase \in {"DISPATCHED", "IN_PROGRESS"} /\ Stale # phase)
  <2>1. verdict' = "none" /\ phase' = Stale
    BY <1>3 DEF Sweep
  <2>2. CASE phase = "DISPATCHING"
    BY <1>1, <2>1, <2>2 DEF Stale
  <2>3. CASE phase = "DISPATCHED"
    BY <1>1, <1>3, <2>1, <2>3 DEF Stale
  <2>4. CASE phase = "IN_PROGRESS"
    <3>1. ~IsMaxOver
      BY <1>3, <2>4 DEF Stale
    <3>2. ~IsPlannedOver
      BY <1>3, <2>4, <3>1 DEF Stale
    <3>3. phase' = phase
      BY <1>3, <2>1, <2>4
    <3>4. mission * Scale < Planned \/ ~(mission * Scale >= Planned)
      BY <3>2 DEF IsPlannedOver
    <3>5. (mission' - slip') * Scale < Planned'
      BY <1>1, <3>4 DEF Scale, Sized
    <3> QED BY <1>1, <2>1, <2>4, <3>3, <3>5
  <2>5. CASE phase \notin Waiting
    <3>1. phase' = phase
      BY <2>1, <2>5 DEF Stale, Waiting
    <3> QED BY <1>1, <2>1, <2>5, <3>1 DEF Waiting
  <2> QED BY <2>2, <2>3, <2>4, <2>5 DEF Waiting
<1> QED BY <1>2, <1>3

(* Every step keeps the invariant.                                          *)
LEMMA TimingNext == TimingInv /\ [Next]_timingVars => TimingInv'
<1> SUFFICES ASSUME TimingInv, [Next]_timingVars PROVE TimingInv'
  OBVIOUS
<1>0. em' = em => Planned' = Planned
  BY DEF Planned, HintMultiplier
<1> USE DEF TimingInv, Sized, Counted, YoungWhileOpen
<1>1. ASSUME NEW dispatched \in BOOLEAN, Process(dispatched) PROVE TimingInv'
  BY <1>0, <1>1 DEF Process, StallTimeout
<1>2. CASE Arrive
  BY <1>0, <1>2 DEF Arrive
<1>3. CASE Resolve
  BY <1>0, <1>3 DEF Resolve, Waiting
<1>4. CASE Advance
  BY <1>0, <1>4, TimingAssumption DEF Advance, Waiting
<1>5. CASE Sweep
  BY <1>5, SweepFindsOverdue
<1>6. CASE CloseListed
  BY <1>0, <1>6 DEF CloseListed
<1>7. CASE EndRound
  BY <1>0, <1>7 DEF EndRound
<1>8. CASE UNCHANGED timingVars
  BY <1>0, <1>8 DEF timingVars
<1> QED BY <1>1, <1>2, <1>3, <1>4, <1>5, <1>6, <1>7, <1>8 DEF Next

(* When the sweeper last looked, no limit that evaluate_stale_emergencies   *)
(* applies was over for an emergency that it did not list.                  *)
THEOREM YoungWhileOpenAlways == Spec => []YoungWhileOpen
<1>1. TimingInv => YoungWhileOpen
  BY DEF TimingInv
<1> QED BY TimingInit, TimingNext, <1>1, PTL DEF Spec
-----------------------------------------------------------------------------
(* How long that lets an emergency be open: the two terms of ClosesInTime.  *)
Wait == Max({0, DispatchTimeout - (age - open)})
Serve == Max({StallTimeout * Scale, Planned})

(* The minutes of slip in which a round was suspended: all but the jump     *)
(* that woke the sweeper.                                                   *)
SlipLate == slip - (IF sweeper = "awake" /\ open > 0 THEN Step ELSE 0)

(* What bounds the terms, in a form that every step keeps: the clock has    *)
(* slipped by what rounds took and one jump; an emergency that waits for    *)
(* units had waited less than its wait when the sweeper last looked; that   *)
(* slip lasts when it is dispatched; and what is listed was within bounds   *)
(* and only the suspended round adds to it.                                 *)
Bounded ==
  /\ 0 <= SlipLate /\ SlipLate <= late
  /\ phase = "DISPATCHING" => open - slip <= Wait
  /\ phase \in {"DISPATCHED", "IN_PROGRESS"} =>
       \/ open - mission <= Wait + Step + late - SlipLate
       \/ mission <= slip /\ open - slip <= Wait
  /\ phase \in {"DISPATCHED", "IN_PROGRESS"} /\ verdict # "none" =>
       (open - Wait - 2 * Step - late) * Scale < Serve

ClosingInv == TimingInv /\ Bounded

(* The wait and the term of service are numbers at least as great as what   *)
(* they are the maximum of.                                                 *)
LEMMA TermsAreNumbers ==
  ASSUME Sized, Counted
  PROVE  /\ Wait \in Int /\ Wait >= 0 /\ Wait >= DispatchTimeout - (age - open)
         /\ Serve \in Int /\ Serve >= StallTimeout * Scale /\ Serve >= Planned
<1>1. /\ 0 \in Int
      /\ DispatchTimeout - (age - open) \in Int
      /\ StallTimeout * Scale \in Int
      /\ Planned \in Int
  BY DEF Counted, DispatchTimeout, StallTimeout, Scale, Sized
<1> QED BY <1>1, MaxOfTwo, Zenon DEF Wait, Serve

(* A step that leaves the emergency and the start of its counts alone       *)
(* leaves the terms alone.                                                  *)
LEMMA TermsLast ==
  ASSUME em' = em, age' - open' = age - open
  PROVE  Wait' = Wait /\ Serve' = Serve /\ Planned' = Planned
  BY DEF Wait, Serve, Planned, HintMultiplier

(* The initial states are within bounds.                                    *)
LEMMA ClosingInit == Init => ClosingInv
<1> SUFFICES ASSUME Init PROVE ClosingInv
  OBVIOUS
<1>1. Sized
  BY PlannedIsNumber DEF Init, Sized
<1>2. Bounded
  BY DEF Init, Bounded, SlipLate
<1> QED BY <1>1, <1>2, TimingInit DEF ClosingInv

(* What a round lists was within bounds, and so is what it does not list.   *)
LEMMA SweepKeepsBounds ==
  ASSUME ClosingInv, Sweep, Wait' = Wait, Serve' = Serve, Planned' = Planned,
         TimingInv'
  PROVE  Bounded'
<1>1. /\ Wait \in Int /\ Wait >= 0
      /\ Serve \in Int /\ Serve >= StallTimeout * Scale /\ Serve >= Planned
      /\ Planned \in Int /\ Step \in Nat
  BY TermsAreNumbers, TimingAssumption DEF ClosingInv, TimingInv, Sized
<1>2. age \in Int /\ open \in Nat /\ mission \in Nat /\ slip \in Nat /\ late \in Nat
  BY DEF ClosingInv, TimingInv, Counted
<1>3. /\ sweeper = "awake" /\ sweeper' = "busy" /\ slip' = 0 /\ verdict = "none"
      /\ UNCHANGED <<em, age, open, mission, late>>
  BY DEF Sweep, ClosingInv, TimingInv, Counted
<1>4. phase' \in {"DISPATCHING", "DISPATCHED", "IN_PROGRESS"} => phase' = phase
  BY StaleEnds DEF Sweep, Waiting
<1>5. 0 <= SlipLate /\ SlipLate <= late /\ SlipLate' = 0 /\ slip <= SlipLate + Step
  BY <1>1, <1>2, <1>3 DEF ClosingInv, Bounded, SlipLate
<1>6. phase' = "DISPATCHING" => open <= Wait
  <2> SUFFICES ASSUME phase' = "DISPATCHING" PROVE open <= Wait
    OBVIOUS
  <2>1. verdict' = "none"
    BY <1>4 DEF Sweep
  <2>2. age < DispatchTimeout \/ open <= 0
    BY <1>2, <1>3, <2>1 DEF TimingInv, YoungWhileOpen
  <2>3. Wait >= DispatchTimeout - (age - open)
    BY TermsAreNumbers DEF ClosingInv, TimingInv
  <2> QED BY <1>1, <1>2, <2>2, <2>3 DEF DispatchTimeout
<1>7. phase \in {"DISPATCHED", "IN_PROGRESS"} => open - mission <= Wait + Step + late
  <2> SUFFICES ASSUME phase \in {"DISPATCHED", "IN_PROGRESS"}
               PROVE  open - mission <= Wait + Step + late
    OBVIOUS
  <2>1. \/ open - mission <= Wait + Step + late - SlipLate
        \/ mission <= slip /\ open - slip <= Wait
    BY DEF ClosingInv, Bounded
  <2>2. SlipLate \in Int
    BY <1>1, <1>2 DEF SlipLate
  <2> QED BY <1>1, <1>2, <1>5, <2>1, <2>2
<1>8. phase \in {"DISPATCHED", "IN_PROGRESS"} =>
        (open - Wait - 2 * Step - late) * Scale < Serve
  <2> SUFFICES ASSUME phase \in {"DISPATCHED", "IN_PROGRESS"}
               PROVE  (open - Wait - 2 * Step - late) * Scale < Serve
    OBVIOUS
  <2>1. (mission - slip) * Scale < Serve
    BY <1>1, <1>2, <1>3 DEF ClosingInv, TimingInv, YoungWhileOpen, StallTimeout, Scale
  <2>2. \/ open - mission <= Wait + Step + late - SlipLate
        \/ mission <= slip /\ open - slip <= Wait
    BY DEF ClosingInv, Bounded
  <2>3. SlipLate \in Int
    BY <1>1, <1>2 DEF SlipLate
  <2>4. CASE open - mission <= Wait + Step + late - SlipLate
    BY <1>1, <1>2, <1>5, <2>1, <2>3, <2>4 DEF Scale
  <2>5. CASE mission <= slip /\ open - slip <= Wait
    BY <1>1, <1>2, <1>5, <2>3, <2>5 DEF Scale, StallTimeout
  <2> QED BY <2>2, <2>4, <2>5
<1> QED BY <1>1, <1>2, <1>3, <1>4, <1>5, <1>6, <1>7, <1>8 DEF Bounded

(* Every step stays within bounds: what a jump of the clock adds, the next  *)
(* round takes away, or lists, or counts as its own delay.                  *)
LEMMA ClosingNext == ClosingInv /\ [Next]_timingVars => ClosingInv'
<1> SUFFICES ASSUME ClosingInv, [Next]_timingVars PROVE ClosingInv'
  OBVIOUS
<1>1. TimingInv'
  BY TimingNext DEF ClosingInv
<1>2. /\ em' = em
      /\ age' - open' = age - open
  BY TimingAssumption DEF ClosingInv, TimingInv, Counted, Next, Process, Arrive,
     Resolve, Advance, Sweep, CloseListed, EndRound, timingVars
<1>3. Wait' = Wait /\ Serve' = Serve /\ Planned' = Planned
  BY <1>2, TermsLast
<1>4. Sized'
  BY <1>1 DEF TimingInv
<1>5. /\ Wait \in Int /\ Wait >= 0
      /\ Serve \in Int /\ Serve >= StallTimeout * Scale /\ Serve >= Planned
      /\ Planned \in Int /\ Step \in Nat \ {0}
  BY TermsAreNumbers, TimingAssumption DEF ClosingInv, TimingInv, Sized
<1>6. /\ age \in Int /\ open \in Nat /\ mission \in Nat /\ slip \in Nat /\ late \in Nat
      /\ phase \in {"UNREPORTED", "DISPATCHING"} => mission = 0
      /\ phase = "UNREPORTED" => open = 0
      /\ verdict # "none" => sweeper = "busy"
  BY DEF ClosingInv, TimingInv, Counted
<1>7. Bounded'
  <2> USE <1>3, <1>5, <1>6 DEF ClosingInv, Bounded, SlipLate
  <2>1. ASSUME NEW dispatched \in BOOLEAN, Process(dispatched) PROVE Bounded'
    <3>1. verdict = "none"
      BY <2>1 DEF Process, TimingInv, Counted
    <3> QED BY <2>1, <3>1 DEF Process
  <2>2. CASE Arrive
    BY <2>2 DEF Arrive
  <2>3. CASE Resolve
    BY <2>3 DEF Resolve
  <2>4. CASE Advance
    <3>1. CASE sweeper = "asleep"
      BY <2>4, <3>1 DEF Advance, Waiting
    <3>2. CASE sweeper = "busy"
      BY <2>4, <3>2 DEF Advance, Waiting
    <3> QED BY <2>4, <3>1, <3>2 DEF Advance
  <2>5. CASE Sweep
    BY <1>1, <2>5, SweepKeepsBounds
  <2>6. CASE CloseListed
    BY <2>6 DEF CloseListed, TimingInv, Counted
  <2>7. CASE EndRound
    BY <2>7 DEF EndRound
  <2>8. CASE UNCHANGED timingVars
    BY <2>8 DEF timingVars
  <2> QED BY <2>1, <2>2, <2>3, <2>4, <2>5, <2>6, <2>7, <2>8 DEF Next
<1> QED BY <1>1, <1>4, <1>7 DEF ClosingInv

(* The bounds on the parts bound the whole.                                 *)
LEMMA BoundedCloses == ClosingInv => ClosesInTime
<1> SUFFICES ASSUME ClosingInv, phase \in Waiting
             PROVE  (open - Wait - 2 * Step - late) * Scale < Serve
  BY DEF ClosesInTime, Wait, Serve
<1>1. /\ Wait \in Int /\ Wait >= 0
      /\ Serve \in Int /\ Serve >= StallTimeout * Scale /\ Serve >= Planned
      /\ Planned \in Int /\ Step \in Nat /\ open \in Nat /\ mission \in Nat
      /\ slip \in Nat /\ late \in Nat
  BY TermsAreNumbers, TimingAssumption DEF ClosingInv, TimingInv, Counted, Sized
<1>2. SlipLate \in Int /\ 0 <= SlipLate /\ SlipLate <= late /\ slip <= SlipLate + Step
  BY <1>1 DEF ClosingInv, Bounded, SlipLate
<1>3. CASE phase = "DISPATCHING"
  BY <1>1, <1>2, <1>3 DEF ClosingInv, Bounded, Scale, StallTimeout
<1>4. CASE phase \in {"DISPATCHED", "IN_PROGRESS"} /\ verdict # "none"
  BY <1>4 DEF ClosingInv, Bounded
<1>5. CASE phase \in {"DISPATCHED", "IN_PROGRESS"} /\ verdict = "none"
  <2>1. (mission - slip) * Scale < Serve
    BY <1>1, <1>5 DEF ClosingInv, TimingInv, YoungWhileOpen, StallTimeout, Scale
  <2>2. CASE open - mission <= Wait + Step + late - SlipLate
    BY <1>1, <1>2, <2>1, <2>2 DEF Scale
  <2>3. CASE mission <= slip /\ open - slip <= Wait
    BY <1>1, <1>2, <2>3 DEF Scale, StallTimeout
  <2> QED BY <1>5, <2>2, <2>3 DEF ClosingInv, Bounded
<1> QED BY <1>3, <1>4, <1>5 DEF Waiting

(* However long units take to come, the sweeper closes an emergency within  *)
(* its wait, its term of service, two jumps of the clock and the time its   *)
(* rounds were suspended, for any jump and any numbers of units.            *)
THEOREM ClosesInTimeAlways == Spec => []ClosesInTime
BY ClosingInit, ClosingNext, BoundedCloses, PTL DEF Spec
-----------------------------------------------------------------------------

(* A round lists an emergency in progress for dismissal only if the clock   *)
(* slipped over two fifths of its planned duration, or the units came late. *)
LEMMA DismissalNext ==
  ClosingInv /\ [Next]_timingVars =>
    [phase = "IN_PROGRESS" /\ verdict = "none" /\ verdict' = "DISMISSED" =>
       5 * slip * Scale > 2 * Planned \/ Planned < StallTimeout * Scale]_timingVars
<1> SUFFICES ASSUME ClosingInv, [Next]_timingVars,
                    phase = "IN_PROGRESS", verdict = "none", verdict' = "DISMISSED"
             PROVE  5 * slip * Scale > 2 * Planned \/ Planned < StallTimeout * Scale
  OBVIOUS
<1>1. mission \in Nat /\ slip \in Nat /\ Planned \in Int
  BY DEF ClosingInv, TimingInv, Counted, Sized
<1>2. Sweep
  BY DEF Next, Process, Arrive, Resolve, Advance, CloseListed, EndRound, timingVars
<1>3. IsMaxOver
  BY <1>2 DEF Sweep, Stale
<1>4. (mission - slip) * Scale < Planned \/ mission - slip < StallTimeout
  BY DEF ClosingInv, TimingInv, YoungWhileOpen
<1>5. 5 * mission * Scale >= 7 * Planned
  BY <1>3 DEF IsMaxOver
<1> QED BY <1>1, <1>4, <1>5 DEF StallTimeout, Scale

(* A served emergency is dismissed for a jump of the clock only, whatever   *)
(* the jump, the durations and the delays of the rounds.                    *)
THEOREM JumpExplainsDismissalAlways == Spec => JumpExplainsDismissal
BY ClosingInit, ClosingNext, DismissalNext, PTL DEF Spec, JumpExplainsDismissal
=============================================================================
