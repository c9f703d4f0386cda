------------------------- MODULE MissionStateProofs -------------------------
(***************************************************************************)
(* Proofs about the flight sequence, for every value of the constants.     *)
(*                                                                         *)
(* The inductive invariant IInv speaks of the record m, of the checkpoint  *)
(* and of the clock.  A tick is followed stage by stage: each stage lemma  *)
(* says that the stage keeps the record Coherent and leaves its clock      *)
(* alone, and TickResult puts the stages together.  The same lemmas show   *)
(* that a brake once directed stays directed, and that each step is one of *)
(* FlightSequence or leaves it alone.                                      *)
(***************************************************************************)
EXTENDS MissionRefinement, TLAPS

(* What every snapshot the code can reach satisfies by itself.             *)
Coherent(s) ==
  /\ s \in Snapshots
  /\ s.state = DESC <=> s.deployment_started
  /\ s.power_cutoff_latched => s.deployment_started
  /\ s.liftoff_time_valid <=> s.state \in InFlight
  /\ s.state = CTRL =>
       /\ s.gate_evaluated /\ s.roll_reference_valid
       /\ ~s.fin_control_disabled /\ ~s.control_reentry_inhibited
       /\ ~s.reset_invalidated /\ FinReady(s)
  /\ s.state # CR /\ ~s.forced_start => s.ready_mask = ReadinessBits
  /\ ~s.liftoff_time_valid => s.elapsed = 0

(* A gate that is still to be evaluated is still ahead.                    *)
GateAhead(s) == s.state = EB /\ ~s.gate_evaluated => s.elapsed < ControlGate

FinsAreReady(s) == s.fin # "brake" => FinReady(s) /\ s.state # CR

SameClock(r, s) ==
  /\ r.liftoff_time_valid = s.liftoff_time_valid
  /\ r.liftoff_time = s.liftoff_time
  /\ r.elapsed = s.elapsed
  /\ r.elapsed_offset = s.elapsed_offset
  /\ r.flight_epoch = s.flight_epoch

SensorInput == [liftoff : BOOLEAN, apex : BOOLEAN, fin : BOOLEAN,
                ready : BOOLEAN, capturable : BOOLEAN]

USE TimingAssumption, BoundAssumption
    DEF CR, LD, EB, CTRL, DESC, States, InFlight

-----------------------------------------------------------------------------
LEMMA EpochType ==
  ASSUME NEW e \in 0..MaxEpoch
  PROVE  NextEpoch(e) \in 1..MaxEpoch
BY DEF NextEpoch

LEMMA DirectivesStage ==
  ASSUME NEW s, Coherent(s), NEW t \in Nat
  PROVE  /\ Coherent(UpdateDirectives(s, t))
         /\ FinsAreReady(UpdateDirectives(s, t))
         /\ SameClock(UpdateDirectives(s, t), s)
         /\ UpdateDirectives(s, t).state = s.state
         /\ UpdateDirectives(s, t).gate_evaluated = s.gate_evaluated
<1> DEFINE r == UpdateDirectives(s, t)
<1>1. ParaDirective(s) \in {"hold", "open", "powered_off"}
  BY DEF ParaDirective, Coherent, Snapshots
<1>2. FinDirective(s, t) \in {"brake", "zero_hold", "roll_control"}
  BY DEF FinDirective
<1>3. FinDirective(s, t) # "brake" => FinReady(s) /\ s.state # CR
  BY DEF FinDirective
<1>4. r = [s EXCEPT !.parachute = ParaDirective(s), !.fin = FinDirective(s, t)]
  BY DEF UpdateDirectives
<1> HIDE DEF r
<1>5. Coherent(r)
  BY <1>1, <1>2, <1>4 DEF Coherent, Snapshots, FinReady
<1>6. FinsAreReady(r)
  BY <1>1, <1>2, <1>3, <1>4 DEF FinsAreReady, Coherent, Snapshots, FinReady
<1>7. SameClock(r, s) /\ r.state = s.state /\ r.gate_evaluated = s.gate_evaluated
  BY <1>4 DEF SameClock, Coherent, Snapshots
<1> QED BY <1>5, <1>6, <1>7 DEF r

LEMMA DetectStage ==
  ASSUME NEW s, Coherent(s), GateAhead(s), NEW in \in SensorInput, NEW t \in Nat
  PROVE  /\ Coherent(DetectLiftoff(s, in, t))
         /\ GateAhead(DetectLiftoff(s, in, t))
         /\ DetectLiftoff(s, in, t).reset_invalidated = s.reset_invalidated
         /\ DetectLiftoff(s, in, t).flight_epoch = s.flight_epoch
         /\ DetectLiftoff(s, in, t).elapsed = s.elapsed
         /\ \/ DetectLiftoff(s, in, t).state = s.state
            \/ s.state = LD /\ DetectLiftoff(s, in, t).state = EB
<1>1. CASE ~(s.state = LD /\ in.liftoff)
  BY <1>1 DEF DetectLiftoff
<1>2. CASE s.state = LD /\ in.liftoff
  <2> DEFINE since == IF t >= Backdate THEN t - Backdate ELSE 0
             r == DetectLiftoff(s, in, t)
  <2>1. since \in Nat
    OBVIOUS
  <2>2. r = [s EXCEPT !.state = EB, !.liftoff_time_valid = TRUE,
                      !.liftoff_time = since,
                      !.gate_evaluated = FALSE, !.elapsed_offset = 0]
    BY <1>2 DEF DetectLiftoff
  <2>3. s \in Snapshots /\ s.elapsed = 0
    BY <1>2 DEF Coherent
  <2> HIDE DEF since, r
  <2>4. Coherent(r)
    BY <1>2, <2>1, <2>2 DEF Coherent, Snapshots, FinReady
  <2>5. GateAhead(r)
    BY <2>1, <2>2, <2>3 DEF GateAhead, Snapshots
  <2>6. /\ r.reset_invalidated = s.reset_invalidated
        /\ r.flight_epoch = s.flight_epoch /\ r.elapsed = s.elapsed
        /\ r.state = EB
    BY <2>2, <2>3 DEF Snapshots
  <2> QED BY <1>2, <2>4, <2>5, <2>6 DEF r
<1> QED BY <1>1, <1>2

LEMMA ClockStage ==
  ASSUME NEW s, Coherent(s), NEW in \in SensorInput, NEW t \in Nat,
         NEW r, r = AdvanceClock(s, in, t)
  PROVE  /\ Coherent(r)
         /\ r.state = s.state
         /\ r.gate_evaluated = s.gate_evaluated
         /\ r.reset_invalidated = s.reset_invalidated
         /\ r.liftoff_time_valid = s.liftoff_time_valid
         /\ r.liftoff_time = s.liftoff_time
         /\ r.elapsed_offset = s.elapsed_offset
         /\ r.flight_epoch = s.flight_epoch
         /\ s.liftoff_time_valid /\ s.liftoff_time <= t =>
              r.elapsed = s.elapsed_offset + (t - s.liftoff_time)
<1> DEFINE e == IF s.liftoff_time_valid /\ t >= s.liftoff_time
                THEN s.elapsed_offset + (t - s.liftoff_time)
                ELSE 0
<1>1. s \in Snapshots
  BY DEF Coherent
<1>2. /\ e \in Nat
      /\ ~s.liftoff_time_valid => e = 0
      /\ s.liftoff_time_valid /\ s.liftoff_time <= t =>
           e = s.elapsed_offset + (t - s.liftoff_time)
  BY <1>1 DEF Snapshots
<1>3. r = [s EXCEPT !.elapsed = e, !.fin_control_available = in.fin]
  BY DEF AdvanceClock
<1>4. in.fin \in BOOLEAN
  BY DEF SensorInput
<1> HIDE DEF e
<1>5. Coherent(r)
  BY <1>2, <1>3, <1>4 DEF Coherent, Snapshots, FinReady
<1> QED BY <1>1, <1>2, <1>3, <1>5 DEF Snapshots

LEMMA OvertravelStage ==
  ASSUME NEW s, Coherent(s), NEW latched,
         NEW r, r = StopOnOvertravel(s, latched)
  PROVE  /\ Coherent(r)
         /\ SameClock(r, s)
         /\ r.reset_invalidated = s.reset_invalidated
         /\ r.gate_evaluated = s.gate_evaluated
         /\ r.state = s.state \/ (s.state = CTRL /\ r.state = EB)
<1>1. CASE ~(s.state # CR /\ latched)
  BY <1>1 DEF StopOnOvertravel, SameClock
<1>2. CASE s.state # CR /\ latched
  <2> DEFINE next == IF s.state = CTRL THEN EB ELSE s.state
  <2>1. r = [s EXCEPT !.control_reentry_inhibited = TRUE,
                      !.fin_control_available = FALSE,
                      !.roll_reference_valid = FALSE,
                      !.state = next]
    BY <1>2 DEF StopOnOvertravel
  <2>2. /\ next \in States /\ next # CTRL /\ next # CR
        /\ next = s.state \/ (s.state = CTRL /\ next = EB)
        /\ next = DESC <=> s.state = DESC
        /\ next \in InFlight <=> s.state \in InFlight
    BY <1>2 DEF Coherent, Snapshots
  <2>3. s \in Snapshots
    BY DEF Coherent
  <2> HIDE DEF next
  <2>4. r \in Snapshots
    BY <2>1, <2>2, <2>3 DEF Snapshots
  <2>5. /\ r.state = next
        /\ r.deployment_started = s.deployment_started
        /\ r.power_cutoff_latched = s.power_cutoff_latched
        /\ r.forced_start = s.forced_start
        /\ r.ready_mask = s.ready_mask
        /\ r.reset_invalidated = s.reset_invalidated
        /\ r.gate_evaluated = s.gate_evaluated
        /\ SameClock(r, s)
    BY <2>1, <2>3 DEF Snapshots, SameClock
  <2>6. Coherent(r)
    BY <1>2, <2>2, <2>4, <2>5 DEF Coherent, SameClock
  <2> QED BY <2>2, <2>5, <2>6
<1> QED BY <1>1, <1>2

LEMMA DeployStage ==
  ASSUME NEW s, Coherent(s), NEW in \in SensorInput,
         NEW r, r = Deploy(s, in)
  PROVE  /\ Coherent(r)
         /\ SameClock(r, s)
         /\ r.reset_invalidated = s.reset_invalidated
         /\ r.gate_evaluated = s.gate_evaluated
         /\ \/ r.state = s.state
            \/ r.state = DESC /\ PressureGate <= r.elapsed
         /\ r.state \in {EB, CTRL} => r.elapsed < DeploymentDeadline
<1> DEFINE due == /\ s.state \in {EB, CTRL}
                  /\ s.liftoff_time_valid
                  /\ \/ in.apex /\ s.elapsed >= PressureGate
                     \/ s.elapsed >= DeploymentDeadline
<1>1. CASE ~due
  <2>1. r = s
    BY <1>1 DEF Deploy
  <2> QED BY <1>1, <2>1 DEF Coherent, Snapshots, SameClock
<1>2. CASE due
  <2>1. r = [s EXCEPT !.state = DESC, !.deployment_started = TRUE,
                      !.parachute = "open"]
    BY <1>2 DEF Deploy
  <2>2. Coherent(r)
    BY <1>2, <2>1 DEF Coherent, Snapshots, FinReady
  <2>3. s \in Snapshots
    BY DEF Coherent
  <2>4. /\ SameClock(r, s) /\ r.state = DESC
        /\ r.reset_invalidated = s.reset_invalidated
        /\ r.gate_evaluated = s.gate_evaluated
    BY <2>1, <2>3 DEF SameClock, Snapshots
  <2>5. PressureGate <= r.elapsed
    BY <1>2, <2>3, <2>4 DEF SameClock, Snapshots
  <2> QED BY <2>2, <2>4, <2>5
<1> QED BY <1>1, <1>2

LEMMA GateStage ==
  ASSUME NEW s, Coherent(s), NEW in \in SensorInput,
         in.ready => ~s.reset_invalidated,
         s.state \in {EB, CTRL} => s.elapsed < DeploymentDeadline,
         NEW r, r = EvaluateGate(s, in)
  PROVE  /\ Coherent(r)
         /\ GateAhead(r)
         /\ SameClock(r, s)
         /\ \/ r.state = s.state
            \/ /\ r.state = CTRL /\ s.state = EB
               /\ ~s.gate_evaluated /\ ControlGate <= s.elapsed
         /\ r.state \in {EB, CTRL} => r.elapsed < DeploymentDeadline
<1> DEFINE admitted == /\ ~s.fin_control_disabled
                       /\ ~s.control_reentry_inhibited
                       /\ FinReady(s)
                       /\ in.ready
                       /\ s.roll_reference_valid \/ in.capturable
           due == /\ s.state = EB /\ s.liftoff_time_valid
                  /\ s.elapsed >= ControlGate /\ ~s.gate_evaluated
<1>1. s \in Snapshots
  BY DEF Coherent
<1>2. CASE ~due
  <2>1. r = s
    BY <1>2 DEF EvaluateGate
  <2> QED BY <1>1, <1>2, <2>1 DEF Coherent, Snapshots, SameClock, GateAhead
<1>3. CASE due /\ admitted
  <2>1. r = [s EXCEPT !.gate_evaluated = TRUE, !.state = CTRL,
                      !.roll_reference_valid = TRUE]
    BY <1>3 DEF EvaluateGate
  <2>2. Coherent(r)
    BY <1>3, <2>1 DEF Coherent, Snapshots, FinReady
  <2> QED BY <1>1, <1>3, <2>1, <2>2 DEF Snapshots, SameClock, GateAhead
<1>4. CASE due /\ ~admitted
  <2>1. r = [s EXCEPT !.gate_evaluated = TRUE,
                      !.control_reentry_inhibited = TRUE]
    BY <1>4 DEF EvaluateGate
  <2>2. Coherent(r)
    BY <1>4, <2>1 DEF Coherent, Snapshots, FinReady
  <2> QED BY <1>1, <1>4, <2>1, <2>2 DEF Snapshots, SameClock, GateAhead
<1> QED BY <1>2, <1>3, <1>4

LEMMA StopStage ==
  ASSUME NEW s, Coherent(s), GateAhead(s), NEW in \in SensorInput,
         s.state \in {EB, CTRL} => s.elapsed < DeploymentDeadline,
         NEW r, r = StopControl(s, in)
  PROVE  /\ Coherent(r)
         /\ GateAhead(r)
         /\ SameClock(r, s)
         /\ r.state = s.state \/ (s.state = CTRL /\ r.state = EB)
         /\ r.state \in {EB, CTRL} => r.elapsed < DeploymentDeadline
<1>1. CASE ~(s.state = CTRL /\ ~in.ready)
  BY <1>1 DEF StopControl, SameClock
<1>2. CASE s.state = CTRL /\ ~in.ready
  <2>1. r = [s EXCEPT !.state = EB, !.control_reentry_inhibited = TRUE]
    BY <1>2 DEF StopControl
  <2>2. Coherent(r)
    BY <1>2, <2>1 DEF Coherent, Snapshots, FinReady
  <2> QED BY <1>2, <2>1, <2>2 DEF SameClock, GateAhead, Coherent, Snapshots
<1> QED BY <1>1, <1>2

LEMMA CutoffStage ==
  ASSUME NEW s, Coherent(s), GateAhead(s),
         s.state \in {EB, CTRL} => s.elapsed < DeploymentDeadline,
         NEW r, r = LatchCutoff(s)
  PROVE  /\ Coherent(r)
         /\ GateAhead(r)
         /\ SameClock(r, s)
         /\ r.state = s.state
         /\ r.state \in {EB, CTRL} => r.elapsed < DeploymentDeadline
<1> DEFINE cut == \/ s.power_cutoff_latched
                  \/ s.liftoff_time_valid /\ s.elapsed >= PowerCutoff
<1>1. s \in Snapshots
  BY DEF Coherent
<1>2. cut => s.deployment_started
  BY <1>1 DEF Coherent, Snapshots
<1>3. r = [s EXCEPT !.power_cutoff_latched = cut]
  BY DEF LatchCutoff
<1>4. cut \in BOOLEAN
  BY <1>1 DEF Snapshots
<1> HIDE DEF cut
<1>5. Coherent(r)
  BY <1>2, <1>3, <1>4 DEF Coherent, Snapshots, FinReady
<1> QED BY <1>1, <1>3, <1>5 DEF SameClock, GateAhead, Snapshots

-----------------------------------------------------------------------------
(* A whole tick.                                                           *)
LEMMA TickResult ==
  ASSUME NEW s, Coherent(s), GateAhead(s), NEW in \in SensorInput,
         NEW t \in Nat, NEW latched,
         in.ready => ~s.reset_invalidated,
         NEW d, d = DetectLiftoff(s, in, t),
         NEW r, r = Ticked(s, in, t, latched)
  PROVE  /\ Coherent(r) /\ GateAhead(r) /\ FinsAreReady(r)
         /\ r.liftoff_time_valid = d.liftoff_time_valid
         /\ r.liftoff_time = d.liftoff_time
         /\ r.elapsed_offset = d.elapsed_offset
         /\ d.liftoff_time_valid /\ d.liftoff_time <= t =>
              r.elapsed = d.elapsed_offset + (t - d.liftoff_time)
         /\ r.state \in {EB, CTRL} => r.elapsed < DeploymentDeadline
<1> DEFINE s2 == AdvanceClock(d, in, t)
           s3 == StopOnOvertravel(s2, latched)
           s4 == Deploy(s3, in)
           s5 == EvaluateGate(s4, in)
           s6 == StopControl(s5, in)
           s7 == LatchCutoff(s6)
<1>0. r = UpdateDirectives(s7, t)
  BY DEF Ticked
<1>1. Coherent(d) /\ d.reset_invalidated = s.reset_invalidated
  BY DetectStage
<1>2. /\ Coherent(s2) /\ s2.reset_invalidated = s.reset_invalidated
      /\ s2.liftoff_time_valid = d.liftoff_time_valid
      /\ s2.liftoff_time = d.liftoff_time
      /\ s2.elapsed_offset = d.elapsed_offset
      /\ d.liftoff_time_valid /\ d.liftoff_time <= t =>
           s2.elapsed = d.elapsed_offset + (t - d.liftoff_time)
  BY <1>1, ClockStage
<1> HIDE DEF s2
<1>3. /\ Coherent(s3) /\ SameClock(s3, s2)
      /\ s3.reset_invalidated = s.reset_invalidated
  BY <1>2, OvertravelStage
<1> HIDE DEF s3
<1>4. /\ Coherent(s4) /\ SameClock(s4, s3)
      /\ s4.reset_invalidated = s.reset_invalidated
      /\ s4.state \in {EB, CTRL} => s4.elapsed < DeploymentDeadline
  BY <1>3, DeployStage
<1> HIDE DEF s4
<1>5. /\ Coherent(s5) /\ GateAhead(s5) /\ SameClock(s5, s4)
      /\ s5.state \in {EB, CTRL} => s5.elapsed < DeploymentDeadline
  BY <1>4, GateStage
<1> HIDE DEF s5
<1>6. /\ Coherent(s6) /\ GateAhead(s6) /\ SameClock(s6, s5)
      /\ s6.state \in {EB, CTRL} => s6.elapsed < DeploymentDeadline
  BY <1>5, StopStage
<1> HIDE DEF s6
<1>7. /\ Coherent(s7) /\ GateAhead(s7) /\ SameClock(s7, s6)
      /\ s7.state \in {EB, CTRL} => s7.elapsed < DeploymentDeadline
  BY <1>6, CutoffStage
<1> HIDE DEF s7
<1>8. /\ Coherent(r) /\ FinsAreReady(r) /\ SameClock(r, s7)
      /\ r.state = s7.state /\ r.gate_evaluated = s7.gate_evaluated
  BY <1>0, <1>7, DirectivesStage
<1>9. GateAhead(r)
  BY <1>7, <1>8 DEF GateAhead, SameClock
<1> QED BY <1>2, <1>3, <1>4, <1>5, <1>6, <1>7, <1>8, <1>9 DEF SameClock

-----------------------------------------------------------------------------
(* The commands.                                                           *)
LEMMA InvalidateStage ==
  ASSUME NEW s, s \in Snapshots, s.state \in {CR, LD},
         ~s.deployment_started, ~s.power_cutoff_latched,
         s.state # CR /\ ~s.forced_start => s.ready_mask = ReadinessBits,
         NEW t \in Nat,
         NEW r, r = UpdateDirectives(InvalidateLiftoff(s), t)
  PROVE  /\ Coherent(r) /\ GateAhead(r) /\ FinsAreReady(r)
         /\ r.state = s.state /\ ~r.liftoff_time_valid
<1> DEFINE i == InvalidateLiftoff(s)
<1>1. i = [s EXCEPT !.liftoff_time_valid = FALSE, !.liftoff_time = 0,
                    !.elapsed = 0, !.elapsed_offset = 0]
  BY DEF InvalidateLiftoff
<1> HIDE DEF i
<1>2. i \in Snapshots /\ i.state = s.state /\ ~i.liftoff_time_valid
  BY <1>1 DEF Snapshots
<1>3. Coherent(i)
  BY <1>1, <1>2 DEF Coherent, Snapshots
<1>4. /\ Coherent(r) /\ FinsAreReady(r) /\ SameClock(r, i)
      /\ r.state = i.state
  BY <1>3, DirectivesStage DEF i
<1> QED BY <1>2, <1>4 DEF SameClock, GateAhead

LEMMA StartedResult ==
  ASSUME NEW s, Coherent(s), NEW forced \in BOOLEAN,
         NEW mask \in SUBSET ReadinessBits, forced \/ mask = ReadinessBits,
         NEW r, r = Started(s, forced, mask)
  PROVE  /\ Coherent(r) /\ GateAhead(r) /\ FinsAreReady(r)
         /\ r.state = LD /\ ~r.liftoff_time_valid
<1> DEFINE available == FinBits \subseteq mask
           e == NextEpoch(s.flight_epoch)
           b == [s EXCEPT !.flight_epoch = e, !.state = LD,
                !.fin_control_disabled = FALSE,
                !.control_reentry_inhibited = FALSE,
                !.reset_invalidated = FALSE, !.deployment_started = FALSE,
                !.power_cutoff_latched = FALSE, !.forced_start = forced,
                !.ready_mask = mask, !.roll_reference_valid = FALSE,
                !.gate_evaluated = FALSE,
                !.fin_control_available = available]
<1>1. s \in Snapshots /\ e \in 0..MaxEpoch
  BY EpochType DEF Coherent, Snapshots
<1>2. available \in BOOLEAN
  OBVIOUS
<1>4. r = UpdateDirectives(InvalidateLiftoff(b), 0)
  BY DEF Started
<1> HIDE DEF available, e
<1>3. /\ b \in Snapshots /\ b.state = LD
      /\ ~b.deployment_started /\ ~b.power_cutoff_latched
      /\ b.forced_start = forced /\ b.ready_mask = mask
  <2> DEFINE c == [s EXCEPT !.flight_epoch = e, !.state = LD,
                     !.fin_control_disabled = FALSE,
                     !.control_reentry_inhibited = FALSE,
                     !.reset_invalidated = FALSE,
                     !.deployment_started = FALSE]
  <2>1. b = [c EXCEPT !.power_cutoff_latched = FALSE, !.forced_start = forced,
                      !.ready_mask = mask, !.roll_reference_valid = FALSE,
                      !.gate_evaluated = FALSE,
                      !.fin_control_available = available]
    OBVIOUS
  <2>2. c \in Snapshots /\ c.state = LD /\ ~c.deployment_started
    BY <1>1 DEF Snapshots
  <2> HIDE DEF b, c
  <2> QED BY <1>2, <2>1, <2>2 DEF Snapshots
<1> HIDE DEF b
<1> QED BY <1>3, <1>4, InvalidateStage

LEMMA CancelledResult ==
  ASSUME NEW s, Coherent(s), s.state = LD, NEW r, r = Cancelled(s)
  PROVE  /\ Coherent(r) /\ GateAhead(r) /\ FinsAreReady(r)
         /\ r.state = CR /\ ~r.liftoff_time_valid
<1> DEFINE b == [s EXCEPT !.state = CR, !.fin_control_disabled = FALSE,
                !.control_reentry_inhibited = FALSE,
                !.deployment_started = FALSE, !.forced_start = FALSE,
                !.ready_mask = {}, !.roll_reference_valid = FALSE,
                !.gate_evaluated = FALSE,
                !.fin_control_available = FALSE]
<1>1. s \in Snapshots /\ ~s.power_cutoff_latched
  BY DEF Coherent
<1>2. /\ b \in Snapshots /\ b.state = CR
      /\ ~b.deployment_started /\ ~b.power_cutoff_latched
  BY <1>1 DEF Snapshots
<1>3. r = UpdateDirectives(InvalidateLiftoff(b), 0)
  BY DEF Cancelled
<1> HIDE DEF b
<1> QED BY <1>2, <1>3, InvalidateStage

LEMMA RolledBackResult ==
  ASSUME NEW s, Coherent(s), s.state = EB, NEW r, r = RolledBack(s)
  PROVE  /\ Coherent(r) /\ GateAhead(r) /\ FinsAreReady(r)
         /\ r.state = LD /\ ~r.liftoff_time_valid
<1> DEFINE b == [s EXCEPT !.flight_epoch = NextEpoch(s.flight_epoch),
                !.state = LD,
                !.control_reentry_inhibited = s.fin_control_disabled,
                !.deployment_started = FALSE,
                !.roll_reference_valid = FALSE,
                !.gate_evaluated = FALSE]
<1>1. /\ s \in Snapshots /\ ~s.power_cutoff_latched
      /\ NextEpoch(s.flight_epoch) \in 0..MaxEpoch
      /\ ~s.forced_start => s.ready_mask = ReadinessBits
  BY EpochType DEF Coherent, Snapshots
<1>2. /\ b \in Snapshots /\ b.state = LD
      /\ ~b.deployment_started /\ ~b.power_cutoff_latched
      /\ b.forced_start = s.forced_start /\ b.ready_mask = s.ready_mask
  BY <1>1 DEF Snapshots
<1>3. r = UpdateDirectives(InvalidateLiftoff(b), 0)
  BY DEF RolledBack
<1> HIDE DEF b
<1> QED BY <1>1, <1>2, <1>3, InvalidateStage

LEMMA FinControlDisabledResult ==
  ASSUME NEW s, Coherent(s), GateAhead(s), s.state \in {LD, EB, CTRL},
         NEW r, r = FinControlDisabled(s)
  PROVE  Coherent(r) /\ GateAhead(r) /\ FinsAreReady(r) /\ SameClock(r, s)
<1> DEFINE next == IF s.state = CTRL THEN EB ELSE s.state
           b == [s EXCEPT !.fin_control_disabled = TRUE,
                          !.control_reentry_inhibited = TRUE,
                          !.roll_reference_valid = FALSE,
                          !.state = next]
<1>1. s \in Snapshots
  BY DEF Coherent
<1>2. /\ next \in {LD, EB}
      /\ next \in InFlight <=> s.state \in InFlight
      /\ next = EB => s.state \in {EB, CTRL}
  OBVIOUS
<1>3. r = UpdateDirectives(b, 0)
  BY DEF FinControlDisabled
<1> HIDE DEF next
<1>4. /\ b \in Snapshots /\ SameClock(b, s) /\ b.state = next
      /\ b.deployment_started = s.deployment_started
      /\ b.power_cutoff_latched = s.power_cutoff_latched
      /\ b.forced_start = s.forced_start /\ b.ready_mask = s.ready_mask
      /\ b.gate_evaluated = s.gate_evaluated
  BY <1>1, <1>2 DEF Snapshots, SameClock
<1> HIDE DEF b
<1>5. Coherent(b)
  BY <1>2, <1>4 DEF Coherent, SameClock
<1>6. GateAhead(b)
  BY <1>2, <1>4 DEF GateAhead, SameClock, Coherent
<1>7. /\ Coherent(r) /\ FinsAreReady(r) /\ SameClock(r, b)
      /\ r.state = b.state /\ r.gate_evaluated = b.gate_evaluated
  BY <1>3, <1>5, DirectivesStage
<1>8. GateAhead(r)
  BY <1>6, <1>7 DEF GateAhead, SameClock
<1> QED BY <1>4, <1>7, <1>8 DEF SameClock

-----------------------------------------------------------------------------
(* The checkpoint.                                                         *)
CheckpointOK(cp, now) ==
  /\ cp \in Checkpoints \cup {NoCheckpoint}
  /\ cp.valid =>
       /\ cp.rtc_time <= now
       /\ cp.state = DESC <=> cp.deployment_started
       /\ cp.power_cutoff_latched => cp.deployment_started
       /\ ~cp.forced_start => cp.ready_mask = ReadinessBits

LEMMA SavedResult ==
  ASSUME NEW s, Coherent(s), NEW now \in Nat, NEW cp, cp = Saved(s, now)
  PROVE  /\ CheckpointOK(cp, now)
         /\ cp.valid => /\ s.state # CR /\ cp.state = s.state
                        /\ cp.rtc_time = now
                        /\ s.state # LD => cp.elapsed = s.elapsed
<1> DEFINE none == \/ s.flight_epoch = 0
                   \/ s.state = CR
                   \/ s.state # LD /\ ~s.liftoff_time_valid
           e == IF s.state = LD THEN 0 ELSE s.elapsed
<1>1. s \in Snapshots
  BY DEF Coherent
<1>2. CASE none
  <2>1. cp = NoCheckpoint
    BY <1>2 DEF Saved
  <2> QED BY <2>1 DEF CheckpointOK, NoCheckpoint
<1>3. CASE ~none
  <2>1. cp = [valid |-> TRUE, state |-> s.state,
              flight_epoch |-> s.flight_epoch, elapsed |-> e, rtc_time |-> now,
              deployment_started |-> s.deployment_started,
              power_cutoff_latched |-> s.power_cutoff_latched,
              forced_start |-> s.forced_start, ready_mask |-> s.ready_mask]
    BY <1>3 DEF Saved
  <2>2. /\ e \in Nat
        /\ s.state # LD => e = s.elapsed
        /\ s.state \in {LD} \cup InFlight /\ s.flight_epoch \in 1..MaxEpoch
    BY <1>1, <1>3 DEF Snapshots
  <2> HIDE DEF e
  <2>3. /\ s.deployment_started \in BOOLEAN
        /\ s.power_cutoff_latched \in BOOLEAN /\ s.forced_start \in BOOLEAN
        /\ s.ready_mask \in SUBSET ReadinessBits
    BY <1>1 DEF Snapshots
  <2>4. cp \in Checkpoints
    BY <2>1, <2>2, <2>3 DEF Checkpoints
  <2>5. /\ cp.state = s.state /\ cp.rtc_time = now /\ cp.elapsed = e
        /\ cp.deployment_started = s.deployment_started
        /\ cp.power_cutoff_latched = s.power_cutoff_latched
        /\ cp.forced_start = s.forced_start /\ cp.ready_mask = s.ready_mask
    BY <2>1
  <2>6. CheckpointOK(cp, now)
    BY <1>3, <2>4, <2>5 DEF CheckpointOK, Coherent
  <2> QED BY <1>3, <2>2, <2>5, <2>6
<1> QED BY <1>2, <1>3

LEMMA RestoredResult ==
  ASSUME NEW now \in Nat, NEW cp, cp.valid, CheckpointOK(cp, now),
         NEW r, r = Restored(cp, now, 0)
  PROVE  /\ Coherent(r) /\ GateAhead(r) /\ FinsAreReady(r)
         /\ r.liftoff_time_valid =>
              /\ cp.state # LD /\ r.liftoff_time = 0
              /\ r.elapsed_offset = cp.elapsed + (now - cp.rtc_time)
         /\ cp.deployment_started => r.state = DESC
         /\ r.state # CTRL
<1> DEFINE base == [InitialSnapshot EXCEPT
                      !.flight_epoch = cp.flight_epoch,
                      !.forced_start = cp.forced_start,
                      !.ready_mask = cp.ready_mask,
                      !.control_reentry_inhibited = TRUE,
                      !.reset_invalidated = TRUE]
           before == [base EXCEPT !.state = LD]
           after == [base EXCEPT
                       !.state = RestoredState(cp),
                       !.liftoff_time_valid = TRUE, !.liftoff_time = 0,
                       !.elapsed = LoadedElapsed(cp, now),
                       !.elapsed_offset = LoadedElapsed(cp, now),
                       !.deployment_started = cp.deployment_started,
                       !.power_cutoff_latched = cp.power_cutoff_latched,
                       !.gate_evaluated = TRUE]
           s == IF cp.state = LD THEN before ELSE after
<1>1. cp \in Checkpoints
  BY DEF CheckpointOK, NoCheckpoint
<1>2. r = UpdateDirectives(s, 0)
  BY DEF Restored
<1>3. /\ LoadedElapsed(cp, now) \in Nat
      /\ LoadedElapsed(cp, now) = cp.elapsed + (now - cp.rtc_time)
  BY <1>1 DEF LoadedElapsed, CheckpointOK, Checkpoints
<1>7. InitialSnapshot \in Snapshots
  BY DEF InitialSnapshot, Snapshots
<1>8. /\ cp.flight_epoch \in 0..MaxEpoch /\ cp.forced_start \in BOOLEAN
      /\ cp.ready_mask \in SUBSET ReadinessBits
  BY <1>1 DEF Checkpoints
<1>9. /\ InitialSnapshot.elapsed = 0 /\ ~InitialSnapshot.liftoff_time_valid
      /\ ~InitialSnapshot.deployment_started
      /\ ~InitialSnapshot.power_cutoff_latched
  BY DEF InitialSnapshot
<1>4. /\ base \in Snapshots /\ base.elapsed = 0 /\ ~base.liftoff_time_valid
      /\ ~base.deployment_started /\ ~base.power_cutoff_latched
      /\ base.forced_start = cp.forced_start
      /\ base.ready_mask = cp.ready_mask
  BY <1>7, <1>8, <1>9 DEF Snapshots
<1> HIDE DEF base
<1>5. CASE cp.state = LD
  <2>1. s = before
    BY <1>5
  <2>2. Coherent(before) /\ before.state = LD /\ ~before.liftoff_time_valid
    BY <1>4 DEF Coherent, Snapshots, CheckpointOK
  <2>3. ~cp.deployment_started
    BY <1>1, <1>5 DEF CheckpointOK, Checkpoints
  <2> HIDE DEF before, after, s
  <2>4. /\ Coherent(r) /\ FinsAreReady(r) /\ SameClock(r, before)
        /\ r.state = before.state
    BY <1>2, <2>1, <2>2, DirectivesStage
  <2> QED BY <2>2, <2>3, <2>4 DEF SameClock, GateAhead
<1>6. CASE cp.state # LD
  <2>1. s = after
    BY <1>6
  <2>2. /\ RestoredState(cp) \in {EB, DESC}
        /\ RestoredState(cp) = DESC <=> cp.deployment_started
    BY <1>1 DEF RestoredState, CheckpointOK, Checkpoints
  <2>3. /\ after \in Snapshots /\ after.state = RestoredState(cp)
        /\ after.liftoff_time_valid /\ after.liftoff_time = 0
        /\ after.elapsed_offset = LoadedElapsed(cp, now)
        /\ after.deployment_started = cp.deployment_started
        /\ after.power_cutoff_latched = cp.power_cutoff_latched
        /\ after.gate_evaluated
        /\ after.forced_start = cp.forced_start
        /\ after.ready_mask = cp.ready_mask
    BY <1>1, <1>3, <1>4, <2>2 DEF Snapshots, Checkpoints
  <2> HIDE DEF before, after, s
  <2>4. Coherent(after)
    BY <2>2, <2>3 DEF Coherent, CheckpointOK
  <2>5. /\ Coherent(r) /\ FinsAreReady(r) /\ SameClock(r, after)
        /\ r.state = after.state /\ r.gate_evaluated = after.gate_evaluated
    BY <1>2, <2>1, <2>4, DirectivesStage
  <2> QED BY <1>3, <1>6, <2>2, <2>3, <2>5 DEF SameClock, GateAhead
<1> QED BY <1>5, <1>6

-----------------------------------------------------------------------------
(* The inductive invariant.  None of the three safety invariants is        *)
(* inductive by itself: the deadline needs the clock, the clock needs the  *)
(* age of the checkpoint, and Control needs what tick keeps of the gate.   *)
MachineOK == Coherent(m) /\ GateAhead(m) /\ FinsAreReady(m)

TimeOK == boot_at <= rtc /\ ClockSurvivesReset /\ DeadlineIsHonoured

IInv ==
  /\ TypeOK
  /\ MachineOK
  /\ CheckpointOK(checkpoint, rtc)
  /\ TimeOK
  /\ ~running => m = InitialSnapshot

LEMMA InitIInv == Init => IInv
<1> SUFFICES ASSUME Init PROVE IInv
  OBVIOUS
<1>1. InitialSnapshot \in Snapshots
  BY DEF InitialSnapshot, Snapshots
<1>2. TypeOK
  BY <1>1 DEF Init, TypeOK, InitialGuard
<1>3. MachineOK
  BY <1>1 DEF Init, MachineOK, Coherent, GateAhead, FinsAreReady,
              InitialSnapshot
<1>4. CheckpointOK(checkpoint, rtc)
  BY DEF Init, CheckpointOK, NoCheckpoint
<1>5. TimeOK
  BY DEF Init, TimeOK, ClockSurvivesReset, DeadlineIsHonoured, NoCheckpoint,
         InitialSnapshot
<1> QED BY <1>2, <1>3, <1>4, <1>5 DEF IInv, Init

(* The commands that leave a machine waiting for liftoff, or on the pad.   *)
LEMMA GroundStep ==
  ASSUME IInv, running, Coherent(m'), GateAhead(m)', FinsAreReady(m)',
         ~m'.liftoff_time_valid,
         checkpoint' = checkpoint \/ (m'.state = LD /\ checkpoint' = Saved(m', rtc)),
         guard' \in [latched : BOOLEAN, valid : BOOLEAN, inside : BOOLEAN],
         UNCHANGED <<running, rtc, boot_at, resets, liftoff_at>>
  PROVE  IInv'
<1>1. /\ CheckpointOK(checkpoint', rtc)
      /\ checkpoint' = checkpoint \/ ~checkpoint'.valid \/ checkpoint'.state = LD
  BY SavedResult DEF IInv, TypeOK
<1>2. TypeOK'
  BY <1>1 DEF IInv, TypeOK, Coherent, CheckpointOK
<1>3. MachineOK'
  BY DEF MachineOK
<1>4. TimeOK'
  BY <1>1 DEF IInv, TimeOK, ClockSurvivesReset, DeadlineIsHonoured
<1> QED BY <1>1, <1>2, <1>3, <1>4 DEF IInv

(* Steps that touch neither the machine nor the checkpoint nor a clock.    *)
LEMMA QuietStep ==
  ASSUME IInv, TypeOK',
         UNCHANGED <<m, checkpoint, running, rtc, boot_at, liftoff_at>>
  PROVE  IInv'
<1>1. MachineOK' /\ CheckpointOK(checkpoint, rtc)'
  BY DEF IInv, MachineOK
<1>2. Mono' = Mono
  BY DEF Mono
<1>3. TimeOK'
  BY <1>2 DEF IInv, TimeOK, ClockSurvivesReset, DeadlineIsHonoured
<1> QED BY <1>1, <1>3 DEF IInv

LEMMA RecoveredType ==
  ASSUME TypeOK
  PROVE  Recovered(guard) \in [latched : BOOLEAN, valid : BOOLEAN, inside : BOOLEAN]
BY DEF TypeOK, Recovered

LEMMA CommandStep == IInv /\ Command => IInv'
<1> SUFFICES ASSUME IInv, Command PROVE IInv'
  OBVIOUS
<1>1. ASSUME NEW forced \in BOOLEAN, NEW mask \in ReadinessChoices,
             Start(forced, mask)
      PROVE  IInv'
  <2>1. guard' \in [latched : BOOLEAN, valid : BOOLEAN, inside : BOOLEAN]
    BY <1>1, RecoveredType DEF Start, IInv
  <2>2. CASE guard'.latched \/ (~forced /\ mask # ReadinessBits)
    <3>1. UNCHANGED <<m, checkpoint, running, rtc, boot_at, resets, liftoff_at>>
      BY <1>1, <2>2 DEF Start
    <3>2. TypeOK'
      BY <2>1, <3>1 DEF IInv, TypeOK
    <3> QED BY <3>1, <3>2, QuietStep
  <2>3. CASE ~(guard'.latched \/ (~forced /\ mask # ReadinessBits))
    <3>1. /\ Coherent(m) /\ running /\ m' = Started(m, forced, mask)
          /\ checkpoint' = Saved(m', rtc)
          /\ mask \in SUBSET ReadinessBits
      BY <1>1, <2>3, InputAssumption DEF Start, IInv, MachineOK
    <3>2. /\ Coherent(m') /\ GateAhead(m') /\ FinsAreReady(m')
          /\ m'.state = LD /\ ~m'.liftoff_time_valid
      BY <2>3, <3>1, StartedResult
    <3> QED BY <1>1, <2>1, <3>1, <3>2, GroundStep DEF Start
  <2> QED BY <2>2, <2>3
<1>2. CASE Cancel
  <2>1. /\ Coherent(m') /\ GateAhead(m') /\ FinsAreReady(m')
        /\ ~m'.liftoff_time_valid
    BY <1>2, CancelledResult DEF Cancel, IInv, MachineOK
  <2> QED BY <1>2, <2>1, GroundStep DEF Cancel, IInv, TypeOK
<1>3. CASE LiftoffDetectionEmergencyStop
  <2>1. /\ Coherent(m') /\ GateAhead(m') /\ FinsAreReady(m')
        /\ ~m'.liftoff_time_valid
    BY <1>3, RolledBackResult
       DEF LiftoffDetectionEmergencyStop, IInv, MachineOK
  <2> QED BY <1>3, <2>1, GroundStep
          DEF LiftoffDetectionEmergencyStop, IInv, TypeOK
<1>4. CASE DisableFinControl
  <2>1. /\ Coherent(m') /\ GateAhead(m') /\ FinsAreReady(m')
        /\ SameClock(m', m)
    BY <1>4, FinControlDisabledResult DEF DisableFinControl, IInv, MachineOK
  <2>2. TypeOK' /\ MachineOK'
    BY <1>4, <2>1 DEF DisableFinControl, IInv, TypeOK, MachineOK, Coherent
  <2>3. Mono' = Mono
    BY <1>4 DEF DisableFinControl, Mono
  <2>4. TimeOK'
    BY <1>4, <2>1, <2>3 DEF DisableFinControl, IInv, TimeOK,
       ClockSurvivesReset, DeadlineIsHonoured, SameClock
  <2> QED BY <1>4, <2>2, <2>4 DEF DisableFinControl, IInv
<1>5. CASE ZeroFin
  <2>1. TypeOK'
    BY <1>5 DEF ZeroFin, IInv, TypeOK
  <2> QED BY <1>5, <2>1, QuietStep DEF ZeroFin
<1> QED BY <1>1, <1>2, <1>3, <1>4, <1>5 DEF Command

(* What every tick does, in the terms of the two clocks.                   *)
LEMMA TickFacts ==
  ASSUME IInv, Tick
  PROVE  /\ Coherent(m') /\ GateAhead(m') /\ FinsAreReady(m')
         /\ liftoff_at' \in Nat
         /\ m'.liftoff_time_valid =>
              /\ m'.liftoff_time <= Mono
              /\ m'.elapsed_offset + (Mono - m'.liftoff_time) = rtc - liftoff_at'
              /\ m'.elapsed = rtc - liftoff_at'
         /\ m'.state \in {EB, CTRL} => m'.elapsed < DeploymentDeadline
<1>1. PICK in \in TickInputs :
        /\ m' = Ticked(m, in, Mono, guard.latched)
        /\ liftoff_at' = IF m.state = LD /\ in.liftoff
                         THEN rtc - (Mono - DetectLiftoff(m, in, Mono).liftoff_time)
                         ELSE liftoff_at
  BY DEF Tick
<1> DEFINE d == DetectLiftoff(m, in, Mono)
<1>2. /\ in \in SensorInput
      /\ in.ready => ~m.reset_invalidated
      /\ Mono \in Nat /\ guard.latched \in BOOLEAN
      /\ rtc \in Nat /\ boot_at \in Nat /\ liftoff_at \in Nat /\ boot_at <= rtc
  BY <1>1, InputAssumption
     DEF TickInputs, SensorInput, IInv, TypeOK, TimeOK, Mono
<1>3. /\ Coherent(m') /\ GateAhead(m') /\ FinsAreReady(m')
      /\ m'.liftoff_time_valid = d.liftoff_time_valid
      /\ m'.liftoff_time = d.liftoff_time
      /\ m'.elapsed_offset = d.elapsed_offset
      /\ d.liftoff_time_valid /\ d.liftoff_time <= Mono =>
           m'.elapsed = d.elapsed_offset + (Mono - d.liftoff_time)
      /\ m'.state \in {EB, CTRL} => m'.elapsed < DeploymentDeadline
  <2>1. Coherent(m) /\ GateAhead(m)
    BY DEF IInv, MachineOK
  <2>2. d = DetectLiftoff(m, in, Mono)
    OBVIOUS
  <2> HIDE DEF d
  <2> QED BY <1>1, <1>2, <2>1, <2>2, TickResult
<1>4. /\ liftoff_at' \in Nat
      /\ d.liftoff_time_valid =>
           /\ d.liftoff_time <= Mono
           /\ d.elapsed_offset + (Mono - d.liftoff_time) = rtc - liftoff_at'
  <2>1. CASE m.state = LD /\ in.liftoff
    <3> DEFINE since == IF Mono >= Backdate THEN Mono - Backdate ELSE 0
    <3>1. since \in Nat /\ since <= Mono
      BY <1>2
    <3>2. d = [m EXCEPT !.state = EB, !.liftoff_time_valid = TRUE,
                        !.liftoff_time = since,
                        !.gate_evaluated = FALSE, !.elapsed_offset = 0]
      BY <2>1 DEF DetectLiftoff
    <3>3. m \in Snapshots
      BY DEF IInv, TypeOK
    <3> HIDE DEF since, d
    <3>4. d.liftoff_time = since /\ d.elapsed_offset = 0
      BY <3>2, <3>3 DEF Snapshots
    <3>5. liftoff_at' = rtc - (Mono - since)
      BY <1>1, <2>1, <3>4 DEF d
    <3> QED BY <1>2, <3>1, <3>4, <3>5 DEF Mono
  <2>2. CASE ~(m.state = LD /\ in.liftoff)
    BY <1>1, <1>2, <2>2 DEF DetectLiftoff, IInv, TimeOK, ClockSurvivesReset
  <2> QED BY <2>1, <2>2
<1> QED BY <1>3, <1>4

LEMMA TickStep == IInv /\ Tick => IInv'
<1> SUFFICES ASSUME IInv, Tick PROVE IInv'
  OBVIOUS
<1>1. /\ checkpoint' = Saved(m', rtc) /\ rtc \in Nat
      /\ UNCHANGED <<running, rtc, boot_at, resets>> /\ running
  BY DEF Tick, IInv, TypeOK
<1>2. /\ CheckpointOK(checkpoint', rtc)
      /\ checkpoint'.valid => /\ m'.state # CR /\ checkpoint'.state = m'.state
                              /\ checkpoint'.rtc_time = rtc
                              /\ m'.state # LD => checkpoint'.elapsed = m'.elapsed
  BY <1>1, TickFacts, SavedResult
<1>3. guard' \in [latched : BOOLEAN, valid : BOOLEAN, inside : BOOLEAN]
  BY RecoveredType DEF Tick, IInv, TypeOK
<1>4. TypeOK'
  BY <1>1, <1>2, <1>3, TickFacts DEF IInv, TypeOK, Coherent, CheckpointOK
<1>5. MachineOK'
  BY TickFacts DEF MachineOK
<1>6. checkpoint'.valid /\ checkpoint'.state # LD =>
        m'.liftoff_time_valid /\ checkpoint'.elapsed = rtc - liftoff_at'
  BY <1>2, TickFacts DEF Coherent, Snapshots
<1>7. TimeOK'
  <2>1. ClockSurvivesReset'
    BY <1>1, <1>2, <1>4, <1>6, TickFacts DEF ClockSurvivesReset, Mono, TypeOK
  <2>2. DeadlineIsHonoured'
    BY <1>1, <1>2, <1>4, <1>6, TickFacts DEF DeadlineIsHonoured, TypeOK
  <2> QED BY <1>1, <2>1, <2>2 DEF IInv, TimeOK
<1> QED BY <1>1, <1>2, <1>4, <1>5, <1>7 DEF IInv

LEMMA ResetStep ==
  ASSUME IInv, NEW keeps \in BOOLEAN, Reset(keeps)
  PROVE  IInv'
<1>1. /\ m' = InitialSnapshot /\ ~running' /\ InitialSnapshot \in Snapshots
      /\ checkpoint' = checkpoint \/ checkpoint' = NoCheckpoint
      /\ UNCHANGED <<rtc, boot_at, liftoff_at>>
  BY DEF Reset, InitialSnapshot, Snapshots
<1>6. /\ guard' \in [latched : BOOLEAN, valid : BOOLEAN, inside : BOOLEAN]
      /\ resets' = resets + 1 /\ running' \in BOOLEAN
  BY DEF Reset, InitialGuard
<1>2. TypeOK'
  <2>1. checkpoint' \in Checkpoints \cup {NoCheckpoint}
    BY <1>1 DEF IInv, TypeOK
  <2> QED BY <1>1, <1>6, <2>1 DEF IInv, TypeOK
<1>3. MachineOK'
  BY <1>1 DEF MachineOK, Coherent, GateAhead, FinsAreReady, InitialSnapshot
<1>4. CheckpointOK(checkpoint, rtc)'
  BY <1>1 DEF IInv, CheckpointOK, NoCheckpoint
<1>5. TimeOK'
  BY <1>1 DEF IInv, TimeOK, ClockSurvivesReset, DeadlineIsHonoured,
              NoCheckpoint, InitialSnapshot
<1> QED BY <1>1, <1>2, <1>3, <1>4, <1>5 DEF IInv

LEMMA BootStep == IInv /\ Boot => IInv'
<1> SUFFICES ASSUME IInv, Boot PROVE IInv'
  OBVIOUS
<1>1. /\ running' = TRUE /\ boot_at' = rtc /\ rtc \in Nat
      /\ UNCHANGED <<guard, checkpoint, rtc, resets, liftoff_at>>
  BY DEF Boot, IInv, TypeOK
<1>2. /\ Coherent(m') /\ GateAhead(m') /\ FinsAreReady(m')
      /\ m'.liftoff_time_valid =>
           /\ checkpoint.valid /\ checkpoint.state # LD /\ m'.liftoff_time = 0
           /\ m'.elapsed_offset = checkpoint.elapsed + (rtc - checkpoint.rtc_time)
  <2>1. CASE checkpoint.valid
    BY <1>1, <2>1, RestoredResult DEF Boot, IInv
  <2>2. CASE ~checkpoint.valid
    BY <2>2 DEF Boot, IInv, MachineOK, InitialSnapshot
  <2> QED BY <2>1, <2>2
<1>3. TypeOK' /\ MachineOK'
  BY <1>1, <1>2 DEF IInv, TypeOK, MachineOK, Coherent
<1>4. checkpoint.valid => checkpoint \in Checkpoints
  BY DEF IInv, CheckpointOK, NoCheckpoint
<1>5. ClockSurvivesReset'
  <2>1. Mono' = 0
    BY <1>1 DEF Mono
  <2>2. checkpoint.valid /\ checkpoint.state # LD =>
          /\ liftoff_at + checkpoint.elapsed = checkpoint.rtc_time
          /\ checkpoint.elapsed \in Nat /\ checkpoint.rtc_time \in Nat
    BY <1>4 DEF IInv, TimeOK, ClockSurvivesReset, Checkpoints
  <2>3. liftoff_at \in Nat
    BY DEF IInv, TypeOK
  <2> QED BY <1>1, <1>2, <2>1, <2>2, <2>3 DEF ClockSurvivesReset
<1> QED BY <1>1, <1>3, <1>5 DEF IInv, TimeOK, DeadlineIsHonoured

LEMMA AdvanceStep == IInv /\ Advance => IInv'
<1> SUFFICES ASSUME IInv, Advance PROVE IInv'
  OBVIOUS
<1>1. TypeOK' /\ MachineOK'
  BY DEF Advance, IInv, TypeOK, MachineOK
<1>2. CheckpointOK(checkpoint, rtc)'
  <2>3. checkpoint.valid => checkpoint \in Checkpoints
    BY DEF IInv, CheckpointOK, NoCheckpoint
  <2>1. checkpoint.valid => checkpoint.rtc_time \in Nat
    BY <2>3 DEF Checkpoints
  <2>2. rtc \in Nat /\ rtc' = rtc + 1 /\ checkpoint' = checkpoint
    BY DEF Advance, IInv, TypeOK
  <2> QED BY <2>1, <2>2 DEF IInv, CheckpointOK
<1>3. ClockSurvivesReset'
  BY DEF Advance, IInv, TypeOK, TimeOK, ClockSurvivesReset, Mono, Snapshots
<1>4. TimeOK'
  BY <1>3 DEF Advance, IInv, TypeOK, TimeOK, DeadlineIsHonoured
<1> QED BY <1>1, <1>2, <1>4 DEF Advance, IInv

LEMMA NextIInv == IInv /\ [Next]_vars => IInv'
<1> SUFFICES ASSUME IInv, [Next]_vars PROVE IInv'
  OBVIOUS
<1>1. CASE Command
  BY <1>1, CommandStep
<1>2. CASE Tick
  BY <1>2, TickStep
<1>3. CASE ObserveFin
  <2>1. TypeOK'
    BY <1>3 DEF ObserveFin, Observed, IInv, TypeOK
  <2> QED BY <1>3, <2>1, QuietStep DEF ObserveFin
<1>4. CASE \E keeps \in BOOLEAN : Reset(keeps)
  BY <1>4, ResetStep
<1>5. CASE Boot
  BY <1>5, BootStep
<1>6. CASE Advance
  BY <1>6, AdvanceStep
<1>7. CASE UNCHANGED vars
  <2>1. TypeOK'
    BY <1>7 DEF vars, IInv, TypeOK
  <2> QED BY <1>7, <2>1, QuietStep DEF vars
<1> QED BY <1>1, <1>2, <1>3, <1>4, <1>5, <1>6, <1>7 DEF Next

LEMMA IInvHolds == Spec => []IInv
BY InitIInv, NextIInv, PTL DEF Spec

-----------------------------------------------------------------------------
(* Theorems.                                                               *)

(* The snapshot, the checkpoint and the clocks keep their types through    *)
(* every command, tick and reset of MissionStateMachine.                   *)
THEOREM TypeCorrect == Spec => []TypeOK
<1>1. IInv => TypeOK
  BY DEF IInv
<1> QED BY IInvHolds, <1>1, PTL

(* enterDescent is the only way into Descent and restoreAfterReset keeps   *)
(* what it did: deployment, Descent and the power cutoff stay together.    *)
THEOREM DescentTheorem == Spec => []DescentIsDeployment
<1>1. IInv => DescentIsDeployment
  BY DEF IInv, MachineOK, Coherent, CheckpointOK, DescentIsDeployment
<1> QED BY IInvHolds, <1>1, PTL

(* Control is reached only through the gate of tick, by an authorized      *)
(* flight.                                                                 *)
THEOREM ControlTheorem == Spec => []ControlIsAuthorized
<1>1. IInv => ControlIsAuthorized
  BY DEF IInv, MachineOK, Coherent, ControlIsAuthorized
<1> QED BY IInvHolds, <1>1, PTL

(* forced_start and preflight_ready_mask survive rollback and reset, so    *)
(* updateDirectives never drives a fin that was not ready at the Start.    *)
THEOREM BrakeTheorem == Spec => []UnreadyFinsStayBraked
<1>1. IInv => UnreadyFinsStayBraked
  BY DEF IInv, MachineOK, FinReady, Coherent, FinsAreReady, UnreadyFinsStayBraked
<1> QED BY IInvHolds, <1>1, PTL

(* elapsed_us measures the flight from its liftoff, resets included: what  *)
(* storeFlightCheckpoint and loadFlightCheckpoint add up to.               *)
THEOREM ClockTheorem == Spec => []ClockSurvivesReset
<1>1. IInv => ClockSurvivesReset
  BY DEF IInv, TimeOK
<1> QED BY IInvHolds, <1>1, PTL

(* tick saves no undeployed flight older than the deployment deadline.     *)
THEOREM DeadlineTheorem == Spec => []DeadlineIsHonoured
<1>1. IInv => DeadlineIsHonoured
  BY DEF IInv, TimeOK
<1> QED BY IInvHolds, <1>1, PTL

-----------------------------------------------------------------------------
(* How a tick changes the state.                                           *)
LEMMA TickTransitions ==
  ASSUME NEW s, Coherent(s), GateAhead(s), NEW in \in SensorInput,
         NEW t \in Nat, NEW latched,
         in.ready => ~s.reset_invalidated,
         NEW r, r = Ticked(s, in, t, latched)
  PROVE  /\ r.flight_epoch = s.flight_epoch
         /\ s.state # CTRL /\ r.state = CTRL =>
              s.elapsed < ControlGate /\ ControlGate <= r.elapsed
         /\ s.state # DESC /\ r.state = DESC => PressureGate <= r.elapsed
         /\ s.state = DESC => r.state = DESC
<1> DEFINE d == DetectLiftoff(s, in, t)
           s2 == AdvanceClock(d, in, t)
           s3 == StopOnOvertravel(s2, latched)
           s4 == Deploy(s3, in)
           s5 == EvaluateGate(s4, in)
           s6 == StopControl(s5, in)
           s7 == LatchCutoff(s6)
<1>0. r = UpdateDirectives(s7, t)
  BY DEF Ticked
<1>1. /\ Coherent(d) /\ GateAhead(d) /\ d.elapsed = s.elapsed
      /\ d.flight_epoch = s.flight_epoch
      /\ d.reset_invalidated = s.reset_invalidated
      /\ d.state = s.state \/ (s.state = LD /\ d.state = EB)
  BY DetectStage
<1> HIDE DEF d
<1>2. /\ Coherent(s2) /\ s2.flight_epoch = s.flight_epoch
      /\ s2.reset_invalidated = s.reset_invalidated
      /\ s2.state = d.state /\ s2.gate_evaluated = d.gate_evaluated
  BY <1>1, ClockStage
<1> HIDE DEF s2
<1>3. /\ Coherent(s3) /\ SameClock(s3, s2)
      /\ s3.reset_invalidated = s.reset_invalidated
      /\ s3.state = d.state \/ (d.state = CTRL /\ s3.state = EB)
      /\ s3.gate_evaluated = d.gate_evaluated
  BY <1>2, OvertravelStage
<1> HIDE DEF s3
<1>4. /\ Coherent(s4) /\ SameClock(s4, s3)
      /\ s4.reset_invalidated = s.reset_invalidated
      /\ s4.state \in {EB, CTRL} => s4.elapsed < DeploymentDeadline
      /\ s4.gate_evaluated = d.gate_evaluated
      /\ \/ s4.state = s3.state
         \/ s4.state = DESC /\ PressureGate <= s4.elapsed
  BY <1>3, DeployStage
<1> HIDE DEF s4
<1>5. /\ Coherent(s5) /\ GateAhead(s5) /\ SameClock(s5, s4)
      /\ s5.state \in {EB, CTRL} => s5.elapsed < DeploymentDeadline
      /\ \/ s5.state = s4.state
         \/ /\ s5.state = CTRL /\ s4.state = EB
            /\ ~s4.gate_evaluated /\ ControlGate <= s4.elapsed
  BY <1>4, GateStage
<1> HIDE DEF s5
<1>6. /\ Coherent(s6) /\ GateAhead(s6) /\ SameClock(s6, s5)
      /\ s6.state = s5.state \/ (s5.state = CTRL /\ s6.state = EB)
      /\ s6.state \in {EB, CTRL} => s6.elapsed < DeploymentDeadline
  BY <1>5, StopStage
<1> HIDE DEF s6
<1>7. /\ Coherent(s7) /\ SameClock(s7, s6) /\ s7.state = s6.state
  BY <1>6, CutoffStage
<1> HIDE DEF s7
<1>8. /\ SameClock(r, s7) /\ r.state = s7.state
  BY <1>0, <1>7, DirectivesStage
<1>13. /\ SameClock(s3, s2) /\ SameClock(s4, s2) /\ SameClock(s5, s2)
       /\ SameClock(r, s2)
  BY <1>3, <1>4, <1>5, <1>6, <1>7, <1>8 DEF SameClock
<1>9. r.flight_epoch = s.flight_epoch
  BY <1>2, <1>13 DEF SameClock
<1>10. s.state # CTRL /\ r.state = CTRL =>
         s.elapsed < ControlGate /\ ControlGate <= r.elapsed
  BY <1>1, <1>3, <1>4, <1>5, <1>6, <1>7, <1>8, <1>13 DEF GateAhead, SameClock
<1>11. s.state # DESC /\ r.state = DESC => PressureGate <= r.elapsed
  BY <1>1, <1>3, <1>4, <1>5, <1>6, <1>7, <1>8, <1>13 DEF SameClock
<1>12. s.state = DESC => r.state = DESC
  BY <1>1, <1>3, <1>4, <1>5, <1>6, <1>7, <1>8
<1> QED BY <1>9, <1>10, <1>11, <1>12

(* The three facts below, for every action: only a tick enters Control or  *)
(* Descent in flight, and only a boot enters Descent after a reset.        *)
GateStep ==
  m.state # CTRL /\ m'.state = CTRL =>
    /\ m.elapsed < ControlGate /\ ControlGate <= m'.elapsed
    /\ m.flight_epoch = m'.flight_epoch

DeploymentStep ==
  m.state \in {EB, CTRL} /\ m'.state = DESC =>
    PressureGate <= rtc - liftoff_at

FinalityStep ==
  /\ m.state = DESC /\ running' => m'.state = DESC
  /\ ~running /\ running' /\ checkpoint.valid /\ checkpoint.deployment_started
       => m'.state = DESC

LEMMA Transitions ==
  IInv /\ Next => GateStep /\ DeploymentStep /\ FinalityStep
<1> SUFFICES ASSUME IInv, Next PROVE GateStep /\ DeploymentStep /\ FinalityStep
  OBVIOUS
<1>1. CASE m' = m /\ UNCHANGED running
  BY <1>1 DEF GateStep, DeploymentStep, FinalityStep
<1>2. CASE m'.state \in {CR, LD} /\ m.state \in {CR, LD, EB} /\ running
  BY <1>2 DEF GateStep, DeploymentStep, FinalityStep
<1>3. CASE Command
  <2>1. ASSUME NEW forced \in BOOLEAN, NEW mask \in ReadinessChoices,
               Start(forced, mask)
        PROVE  GateStep /\ DeploymentStep /\ FinalityStep
    <3>1. CASE UNCHANGED m
      BY <1>1, <2>1, <3>1 DEF Start
    <3>2. CASE ~UNCHANGED m
      <4>1. /\ Coherent(m) /\ running /\ m.state = CR
            /\ m' = Started(m, forced, mask)
            /\ forced \/ mask = ReadinessBits
            /\ mask \in SUBSET ReadinessBits
        BY <2>1, <3>2, InputAssumption DEF Start, IInv, MachineOK
      <4>2. m'.state = LD
        BY <4>1, StartedResult
      <4> QED BY <1>2, <4>1, <4>2
    <3> QED BY <3>1, <3>2
  <2>2. CASE Cancel
    BY <1>2, <2>2, CancelledResult DEF Cancel, IInv, MachineOK
  <2>3. CASE DisableFinControl
    <3>1. m'.state \in {LD, EB} /\ running /\ m.state # DESC
      <4> DEFINE next == IF m.state = CTRL THEN EB ELSE m.state
                 b == [m EXCEPT !.fin_control_disabled = TRUE,
                                !.control_reentry_inhibited = TRUE,
                                !.roll_reference_valid = FALSE,
                                !.state = next]
      <4>1. m' = UpdateDirectives(b, 0)
        BY <2>3 DEF DisableFinControl, FinControlDisabled
      <4>2. next \in {LD, EB} /\ running /\ m.state # DESC /\ m \in Snapshots
        BY <2>3 DEF DisableFinControl, IInv, TypeOK
      <4> HIDE DEF next
      <4>3. b.state = next /\ b \in Snapshots
        BY <4>2 DEF Snapshots
      <4> HIDE DEF b
      <4>4. m'.state = b.state
        BY <4>1, <4>3 DEF UpdateDirectives, Snapshots
      <4> QED BY <4>2, <4>3, <4>4
    <3> QED BY <3>1 DEF GateStep, DeploymentStep, FinalityStep
  <2>4. CASE LiftoffDetectionEmergencyStop
    BY <1>2, <2>4, RolledBackResult
       DEF LiftoffDetectionEmergencyStop, IInv, MachineOK
  <2>5. CASE ZeroFin
    BY <1>1, <2>5 DEF ZeroFin
  <2> QED BY <1>3, <2>1, <2>2, <2>3, <2>4, <2>5 DEF Command
<1>4. CASE Tick
  <2>1. PICK in \in TickInputs :
          /\ m' = Ticked(m, in, Mono, guard.latched)
          /\ liftoff_at' = IF m.state = LD /\ in.liftoff
                           THEN rtc - (Mono - DetectLiftoff(m, in, Mono).liftoff_time)
                           ELSE liftoff_at
    BY <1>4 DEF Tick
  <2>2. /\ in \in SensorInput
        /\ in.ready => ~m.reset_invalidated
        /\ Mono \in Nat
    BY <2>1, InputAssumption
       DEF TickInputs, SensorInput, IInv, TypeOK, TimeOK, Mono
  <2>3. /\ m'.flight_epoch = m.flight_epoch
        /\ m.state # CTRL /\ m'.state = CTRL =>
             m.elapsed < ControlGate /\ ControlGate <= m'.elapsed
        /\ m.state # DESC /\ m'.state = DESC => PressureGate <= m'.elapsed
        /\ m.state = DESC => m'.state = DESC
    BY <2>1, <2>2, TickTransitions DEF IInv, MachineOK
  <2>4. m'.state = DESC => m'.elapsed = rtc - liftoff_at'
    BY <1>4, TickFacts DEF Coherent
  <2>5. m.state \in {EB, CTRL} => liftoff_at' = liftoff_at
    BY <2>1
  <2>6. running
    BY <1>4 DEF Tick
  <2> QED BY <2>3, <2>4, <2>5, <2>6 DEF GateStep, DeploymentStep, FinalityStep
<1>5. CASE ObserveFin
  BY <1>1, <1>5 DEF ObserveFin
<1>6. CASE \E keeps \in BOOLEAN : Reset(keeps)
  BY <1>6 DEF Reset, InitialSnapshot, GateStep, DeploymentStep, FinalityStep
<1>7. CASE Boot
  <2>1. m.state = CR
    BY <1>7 DEF Boot, IInv, InitialSnapshot
  <2>2. CASE checkpoint.valid
    <3>1. Coherent(m') /\ m'.state # CTRL
      <4>1. rtc \in Nat /\ CheckpointOK(checkpoint, rtc)
            /\ m' = Restored(checkpoint, rtc, 0)
        BY <1>7, <2>2 DEF Boot, IInv, TypeOK
      <4> QED BY <2>2, <4>1, RestoredResult
    <3>2. checkpoint.deployment_started => m'.state = DESC
      BY <1>7, <2>2, RestoredResult DEF Boot, IInv, TypeOK
    <3> QED BY <2>1, <3>1, <3>2
            DEF Coherent, GateStep, DeploymentStep, FinalityStep
  <2>3. CASE ~checkpoint.valid
    BY <1>7, <2>1, <2>3 DEF Boot, GateStep, DeploymentStep, FinalityStep
  <2> QED BY <2>2, <2>3
<1>8. CASE Advance
  BY <1>1, <1>8 DEF Advance
<1> QED BY <1>3, <1>4, <1>5, <1>6, <1>7, <1>8 DEF Next

(* tick evaluates the gate once per flight, when elapsed_us crosses        *)
(* kControlGateUs, and nothing else enters Control.                        *)
THEOREM GateTheorem == Spec => GateIsOneShot
<1>1. IInv /\ [Next]_vars => [GateStep]_vars
  BY Transitions
<1>2. Spec => [][GateStep]_vars
  BY <1>1, IInvHolds, PTL DEF Spec
<1> QED BY <1>2 DEF GateIsOneShot, GateStep

(* enterDescent never runs in the first ten seconds of the true flight.    *)
THEOREM DeploymentTheorem == Spec => NoEarlyDeployment
<1>1. IInv /\ [Next]_vars => [DeploymentStep]_vars
  BY Transitions
<1>2. Spec => [][DeploymentStep]_vars
  BY <1>1, IInvHolds, PTL DEF Spec
<1> QED BY <1>2 DEF NoEarlyDeployment, DeploymentStep

(* No command, tick or reset takes a deployment back.                      *)
THEOREM FinalityTheorem == Spec => DeploymentIsFinal
<1>1. IInv /\ [Next]_vars => [FinalityStep]_vars
  BY Transitions
<1>2. Spec => [][FinalityStep]_vars
  BY <1>1, IInvHolds, PTL DEF Spec
<1> QED BY <1>2 DEF DeploymentIsFinal, FinalityStep

-----------------------------------------------------------------------------
(* The parts of what the runs check, put together.                         *)

(* Whatever commands, ticks and resets do, the snapshot stays coherent.    *)
THEOREM StateTheorem == Spec => []StateIsSound
BY TypeCorrect, DescentTheorem, PTL DEF StateIsSound

(* The fins are commanded only by updateDirectives of an authorized flight. *)
THEOREM FinsTheorem == Spec => []FinsAreAuthorized
BY ControlTheorem, BrakeTheorem, PTL DEF FinsAreAuthorized

(* The clock of restoreAfterReset and tick, and the deadline kept by it.   *)
THEOREM TrueClockTheorem == Spec => []ClockIsTrue
BY ClockTheorem, DeadlineTheorem, PTL DEF ClockIsTrue

(* The gate, the pressure gate and the deployment, in their order.         *)
THEOREM ForwardTheorem == Spec => FlightGoesForward
BY GateTheorem, DeploymentTheorem, FinalityTheorem DEF FlightGoesForward
-----------------------------------------------------------------------------
(* The brake.  updateDirectives brakes a record with either flag set, and  *)
(* a step in flight keeps the flags.                                       *)
Barred(s) == s.fin_control_disabled \/ s.reset_invalidated

BarredIsBraked(s) == Barred(s) => s.fin = "brake"

(* updateDirectives is the last call of every method that writes the       *)
(* snapshot: it brakes what is barred and bars nothing itself.             *)
LEMMA DirectivesBrake ==
  ASSUME NEW s, s \in Snapshots, NEW t \in Nat,
         NEW r, r = UpdateDirectives(s, t)
  PROVE  BarredIsBraked(r) /\ (Barred(r) <=> Barred(s))
<1>1. /\ r.fin = FinDirective(s, t)
      /\ r.fin_control_disabled = s.fin_control_disabled
      /\ r.reset_invalidated = s.reset_invalidated
  BY DEF UpdateDirectives, Snapshots
<1>2. Barred(s) => FinDirective(s, t) = "brake"
  BY DEF FinDirective, Barred
<1> QED BY <1>1, <1>2 DEF BarredIsBraked, Barred

SameFlags(r, s) ==
  /\ r.fin_control_disabled = s.fin_control_disabled
  /\ r.reset_invalidated = s.reset_invalidated

(* No stage of tick sets or clears either flag.                            *)
LEMMA StageFlags ==
  ASSUME NEW s, s \in Snapshots, NEW in, NEW t, NEW latched
  PROVE  /\ SameFlags(DetectLiftoff(s, in, t), s)
         /\ SameFlags(AdvanceClock(s, in, t), s)
         /\ SameFlags(StopOnOvertravel(s, latched), s)
         /\ SameFlags(Deploy(s, in), s)
         /\ SameFlags(EvaluateGate(s, in), s)
         /\ SameFlags(StopControl(s, in), s)
         /\ SameFlags(LatchCutoff(s), s)
<1>1. SameFlags(DetectLiftoff(s, in, t), s) /\ SameFlags(AdvanceClock(s, in, t), s)
  BY DEF SameFlags, DetectLiftoff, AdvanceClock, Snapshots
<1>2. SameFlags(StopOnOvertravel(s, latched), s) /\ SameFlags(Deploy(s, in), s)
  BY DEF SameFlags, StopOnOvertravel, Deploy, Snapshots
<1>3. SameFlags(EvaluateGate(s, in), s)
  BY DEF SameFlags, EvaluateGate, Snapshots
<1>4. SameFlags(StopControl(s, in), s) /\ SameFlags(LatchCutoff(s), s)
  BY DEF SameFlags, StopControl, LatchCutoff, Snapshots
<1> QED BY <1>1, <1>2, <1>3, <1>4

(* A tick keeps both flags and brakes by them.                             *)
LEMMA TickBrake ==
  ASSUME NEW s, Coherent(s), GateAhead(s), NEW in \in SensorInput,
         NEW t \in Nat, NEW latched,
         in.ready => ~s.reset_invalidated,
         NEW r, r = Ticked(s, in, t, latched)
  PROVE  BarredIsBraked(r) /\ (Barred(r) <=> Barred(s))
<1> DEFINE s1 == DetectLiftoff(s, in, t)
           s2 == AdvanceClock(s1, in, t)
           s3 == StopOnOvertravel(s2, latched)
           s4 == Deploy(s3, in)
           s5 == EvaluateGate(s4, in)
           s6 == StopControl(s5, in)
           s7 == LatchCutoff(s6)
<1>0. r = UpdateDirectives(s7, t)
  BY DEF Ticked
<1>10. s \in Snapshots
  BY DEF Coherent
<1>11. SameFlags(s1, s)
  BY <1>10, StageFlags
<1>1. Coherent(s1) /\ s1.reset_invalidated = s.reset_invalidated
  BY DetectStage
<1> HIDE DEF s1
<1>12. SameFlags(s2, s1)
  BY <1>1, StageFlags DEF Coherent
<1>2. Coherent(s2) /\ s2.reset_invalidated = s.reset_invalidated
  BY <1>1, ClockStage
<1> HIDE DEF s2
<1>13. SameFlags(s3, s2)
  BY <1>2, StageFlags DEF Coherent
<1>3. Coherent(s3) /\ s3.reset_invalidated = s.reset_invalidated
  BY <1>2, OvertravelStage
<1> HIDE DEF s3
<1>14. SameFlags(s4, s3)
  BY <1>3, StageFlags DEF Coherent
<1>4. /\ Coherent(s4) /\ s4.reset_invalidated = s.reset_invalidated
      /\ s4.state \in {EB, CTRL} => s4.elapsed < DeploymentDeadline
  BY <1>3, DeployStage
<1> HIDE DEF s4
<1>15. SameFlags(s5, s4)
  BY <1>4, StageFlags DEF Coherent
<1>5. /\ Coherent(s5) /\ GateAhead(s5)
      /\ s5.state \in {EB, CTRL} => s5.elapsed < DeploymentDeadline
  BY <1>4, GateStage
<1> HIDE DEF s5
<1>16. SameFlags(s6, s5)
  BY <1>5, StageFlags DEF Coherent
<1>6. /\ Coherent(s6) /\ GateAhead(s6)
      /\ s6.state \in {EB, CTRL} => s6.elapsed < DeploymentDeadline
  BY <1>5, StopStage
<1> HIDE DEF s6
<1>17. SameFlags(s7, s6)
  BY <1>6, StageFlags DEF Coherent
<1>7. Coherent(s7)
  BY <1>6, CutoffStage
<1> HIDE DEF s7
<1>8. BarredIsBraked(r) /\ (Barred(r) <=> Barred(s7))
  BY <1>0, <1>7, DirectivesBrake DEF Coherent
<1> QED BY <1>8, <1>11, <1>12, <1>13, <1>14, <1>15, <1>16, <1>17
        DEF Barred, SameFlags

(* Every command ends in updateDirectives.                                 *)
LEMMA CommandBrake ==
  ASSUME NEW s, s \in Snapshots, NEW forced \in BOOLEAN,
         NEW mask \in SUBSET ReadinessBits
  PROVE  /\ BarredIsBraked(Started(s, forced, mask))
         /\ BarredIsBraked(Cancelled(s))
         /\ BarredIsBraked(FinControlDisabled(s))
         /\ BarredIsBraked(RolledBack(s))
BY DEF Started, Cancelled, FinControlDisabled, RolledBack, UpdateDirectives,
       FinDirective, InvalidateLiftoff, BarredIsBraked, Barred, Snapshots

(* restoreAfterReset too.                                                  *)
LEMMA RestoredBrake ==
  ASSUME NEW now \in Nat, NEW cp, cp.valid, CheckpointOK(cp, now)
  PROVE  BarredIsBraked(Restored(cp, now, 0))
<1> DEFINE base == [InitialSnapshot EXCEPT
                      !.flight_epoch = cp.flight_epoch,
                      !.forced_start = cp.forced_start,
                      !.ready_mask = cp.ready_mask,
                      !.control_reentry_inhibited = TRUE,
                      !.reset_invalidated = TRUE]
           s == IF cp.state = LD
                THEN [base EXCEPT !.state = LD]
                ELSE [base EXCEPT
                       !.state = RestoredState(cp),
                       !.liftoff_time_valid = TRUE, !.liftoff_time = 0,
                       !.elapsed = LoadedElapsed(cp, now),
                       !.elapsed_offset = LoadedElapsed(cp, now),
                       !.deployment_started = cp.deployment_started,
                       !.power_cutoff_latched = cp.power_cutoff_latched,
                       !.gate_evaluated = TRUE]
<1>1. Restored(cp, now, 0) = UpdateDirectives(s, 0)
  BY DEF Restored
<1>2. cp \in Checkpoints
  BY DEF CheckpointOK, NoCheckpoint
<1>3. LoadedElapsed(cp, now) \in Nat /\ RestoredState(cp) \in States
  BY <1>2 DEF LoadedElapsed, CheckpointOK, Checkpoints, RestoredState
<1>4. base \in Snapshots
  <2>1. InitialSnapshot \in Snapshots
    BY DEF InitialSnapshot, Snapshots
  <2>2. /\ cp.flight_epoch \in 0..MaxEpoch /\ cp.forced_start \in BOOLEAN
        /\ cp.ready_mask \in SUBSET ReadinessBits
    BY <1>2 DEF Checkpoints
  <2> QED BY <2>1, <2>2 DEF Snapshots
<1> HIDE DEF base
<1>5. s \in Snapshots
  BY <1>2, <1>3, <1>4 DEF Snapshots, Checkpoints
<1> HIDE DEF s
<1> QED BY <1>1, <1>5, DirectivesBrake

BrakeStep ==
  /\ running' /\ m.state # CR /\ m'.state # CR
  /\ m.fin_control_disabled \/ m.reset_invalidated
  => m'.fin = "brake"

LEMMA BrakeInit == Init => BarredIsBraked(m)
BY DEF Init, InitialSnapshot, BarredIsBraked, Barred

LEMMA BrakeNext ==
  ASSUME IInv, BarredIsBraked(m), [Next]_vars
  PROVE  BarredIsBraked(m)' /\ (BrakeStep \/ UNCHANGED vars)
<1>0. m \in Snapshots
  BY DEF IInv, TypeOK
<1>1. CASE UNCHANGED m
  BY <1>1 DEF BrakeStep, BarredIsBraked, Barred
<1>2. CASE m' = InitialSnapshot /\ ~running'
  BY <1>2 DEF BrakeStep, InitialSnapshot, BarredIsBraked, Barred
<1>3. ASSUME NEW forced \in BOOLEAN, NEW mask \in ReadinessChoices,
             Start(forced, mask)
      PROVE  BarredIsBraked(m)' /\ BrakeStep
  <2>1. m.state = CR /\ (UNCHANGED m \/ m' = Started(m, forced, mask))
    BY <1>3 DEF Start
  <2>2. BarredIsBraked(Started(m, forced, mask))
    BY <1>0, InputAssumption, CommandBrake
  <2> QED BY <1>1, <2>1, <2>2 DEF BrakeStep
<1>4. CASE Cancel
  <2>1. BarredIsBraked(m)'
    BY <1>0, <1>4, CommandBrake DEF Cancel
  <2>2. m'.state = CR
    BY <1>4, CancelledResult DEF Cancel, IInv, MachineOK
  <2> QED BY <2>1, <2>2 DEF BrakeStep
<1>5. CASE DisableFinControl
  <2>1. BarredIsBraked(m)'
    BY <1>0, <1>5, CommandBrake DEF DisableFinControl
  <2>2. Barred(m')
    BY <1>0, <1>5 DEF DisableFinControl, FinControlDisabled, UpdateDirectives,
                      Snapshots, Barred
  <2> QED BY <2>1, <2>2 DEF BrakeStep, BarredIsBraked
<1>6. CASE LiftoffDetectionEmergencyStop
  <2>1. BarredIsBraked(m)'
    BY <1>0, <1>6, CommandBrake DEF LiftoffDetectionEmergencyStop
  <2>2. Barred(m) => Barred(m')
    BY <1>0, <1>6 DEF LiftoffDetectionEmergencyStop, RolledBack,
                      InvalidateLiftoff, UpdateDirectives, Snapshots, Barred
  <2> QED BY <2>1, <2>2 DEF BrakeStep, BarredIsBraked, Barred
<1>7. CASE Tick
  <2>1. PICK in \in TickInputs : m' = Ticked(m, in, Mono, guard.latched)
    BY <1>7 DEF Tick
  <2>2. /\ in \in SensorInput
        /\ in.ready => ~m.reset_invalidated
        /\ Mono \in Nat
    BY <2>1, InputAssumption
       DEF TickInputs, SensorInput, IInv, TypeOK, TimeOK, Mono
  <2>3. BarredIsBraked(m') /\ (Barred(m') <=> Barred(m))
    BY <2>1, <2>2, TickBrake DEF IInv, MachineOK
  <2> QED BY <2>3 DEF BrakeStep, BarredIsBraked, Barred
<1>8. CASE Boot
  <2>1. m.state = CR
    BY <1>8 DEF Boot, IInv, InitialSnapshot
  <2>2. CASE checkpoint.valid
    <3>1. BarredIsBraked(Restored(checkpoint, rtc, 0))
      BY <2>2, RestoredBrake DEF IInv, TypeOK
    <3> QED BY <1>8, <2>1, <2>2, <3>1 DEF Boot, BrakeStep
  <2>3. CASE ~checkpoint.valid
    BY <1>1, <1>8, <2>3 DEF Boot
  <2> QED BY <2>2, <2>3
<1> QED BY <1>1, <1>2, <1>3, <1>4, <1>5, <1>6, <1>7, <1>8
        DEF Next, Command, ZeroFin, ObserveFin, Reset, Advance, vars

(* tick tests the overtravel latch before the gate and updateDirectives:   *)
(* it inhibits Control and takes the fins' availability away, and no later *)
(* stage gives either back.                                                *)
LEMMA TickOvertravel ==
  ASSUME NEW s, Coherent(s), GateAhead(s), NEW in \in SensorInput,
         NEW t \in Nat, in.ready => ~s.reset_invalidated
  PROVE  Ticked(s, in, t, TRUE).fin = "brake"
<1> DEFINE d == DetectLiftoff(s, in, t)
           s2 == AdvanceClock(d, in, t)
           s3 == StopOnOvertravel(s2, TRUE)
           s4 == Deploy(s3, in)
           s5 == EvaluateGate(s4, in)
           s6 == StopControl(s5, in)
           s7 == LatchCutoff(s6)
           Stopped(r) == /\ r.state # CTRL
                         /\ r.state # CR => /\ r.control_reentry_inhibited
                                            /\ ~r.fin_control_available
<1>0. Ticked(s, in, t, TRUE) = UpdateDirectives(s7, t)
  BY DEF Ticked
<1>1. Coherent(d) /\ d.reset_invalidated = s.reset_invalidated
  BY DetectStage
<1> HIDE DEF d
<1>2. Coherent(s2) /\ s2.reset_invalidated = s.reset_invalidated
  BY <1>1, ClockStage
<1> HIDE DEF s2
<1>3. Coherent(s3) /\ s3.reset_invalidated = s.reset_invalidated
  BY <1>2, OvertravelStage
<1>4. Stopped(s3)
  BY <1>2 DEF StopOnOvertravel, Coherent, Snapshots
<1> HIDE DEF s3
<1>5. /\ Coherent(s4) /\ s4.reset_invalidated = s.reset_invalidated
      /\ s4.state \in {EB, CTRL} => s4.elapsed < DeploymentDeadline
  BY <1>3, DeployStage
<1>6. Stopped(s4)
  BY <1>3, <1>4 DEF Deploy, Coherent, Snapshots
<1> HIDE DEF s4
<1>7. Coherent(s5)
  BY <1>5, GateStage
<1>8. Stopped(s5)
  BY <1>5, <1>6 DEF EvaluateGate, Coherent, Snapshots
<1> HIDE DEF s5
<1>9. s6 = s5
  BY <1>8 DEF StopControl
<1>10. Stopped(s7) /\ s7 \in Snapshots
  BY <1>7, <1>8, <1>9 DEF LatchCutoff, Coherent, Snapshots
<1> HIDE DEF s7
<1>11. FinDirective(s7, t) = "brake"
  BY <1>10 DEF FinDirective, Snapshots
<1> QED BY <1>0, <1>10, <1>11 DEF UpdateDirectives, Snapshots

OvertravelStep ==
  guard.latched =>
    /\ Tick => m'.fin = "brake"
    /\ running' /\ ~guard'.latched => m.state \in {CR, LD}

LEMMA OvertravelNext == IInv /\ Next => OvertravelStep
<1> SUFFICES ASSUME IInv, Next, guard.latched
             PROVE  /\ Tick => m'.fin = "brake"
                    /\ running' /\ ~guard'.latched => m.state \in {CR, LD}
  BY DEF OvertravelStep
<1>1. ASSUME Tick PROVE m'.fin = "brake"
  <2>1. PICK in \in TickInputs : m' = Ticked(m, in, Mono, guard.latched)
    BY <1>1 DEF Tick
  <2>2. /\ in \in SensorInput
        /\ in.ready => ~m.reset_invalidated
        /\ Mono \in Nat
    BY <2>1, InputAssumption
       DEF TickInputs, SensorInput, IInv, TypeOK, TimeOK, Mono
  <2>3. guard.latched = TRUE
    BY DEF IInv, TypeOK
  <2> QED BY <2>1, <2>2, <2>3, TickOvertravel DEF IInv, MachineOK
<1>2. ASSUME running', ~guard'.latched PROVE m.state \in {CR, LD}
  <2>1. CASE Command
    BY <1>2, <2>1
       DEF Command, Start, Cancel, DisableFinControl,
           LiftoffDetectionEmergencyStop, ZeroFin
  <2>2. CASE Tick
    BY <1>2, <2>2 DEF Tick
  <2>3. CASE ObserveFin
    <3>1. PICK valid, inside \in BOOLEAN : guard' = Observed(guard, valid, inside)
      BY <2>3 DEF ObserveFin
    <3>2. guard'.latched = (guard.latched \/ (valid /\ ~inside))
      BY <3>1 DEF Observed
    <3> QED BY <1>2, <3>2
  <2>4. CASE \E keeps \in BOOLEAN : Reset(keeps)
    BY <1>2, <2>4 DEF Reset
  <2>5. CASE Boot \/ Advance
    BY <1>2, <2>5 DEF Boot, Advance
  <2> QED BY <2>1, <2>2, <2>3, <2>4, <2>5 DEF Next
<1> QED BY <1>1, <1>2

(* disableFinControl and restoreAfterReset bar the fins of the flight, and *)
(* no tick or rollback drives them again: updateDirectives brakes until a  *)
(* Cancel or a Start.  A tick that finds the overtravel latch set brakes   *)
(* too, and only clearFinOvertravelFault and                               *)
(* clearFinOvertravelIfRecoverable, both on the ground, lift the latch.    *)
THEOREM BrakeLatchTheorem == Spec => BrakeIsLatched
<1>1. IInv /\ BarredIsBraked(m) /\ [Next]_vars => BarredIsBraked(m)'
  BY BrakeNext
<1>2. IInv /\ BarredIsBraked(m) /\ [Next]_vars => [BrakeStep]_vars
  BY BrakeNext
<1>3. Spec => [][BrakeStep]_vars
  BY <1>1, <1>2, BrakeInit, IInvHolds, PTL DEF Spec
<1>4. IInv /\ [Next]_vars => [OvertravelStep]_vars
  BY OvertravelNext
<1>5. Spec => [][OvertravelStep]_vars
  BY <1>4, IInvHolds, PTL DEF Spec
<1> QED BY <1>3, <1>5
        DEF BrakeIsLatched, BarredFinsStayBraked, OvertravelBrakesFins,
            BrakeStep, OvertravelStep

-----------------------------------------------------------------------------
(* The refinement.  FlightOf commutes with every operator of the state     *)
(* machine: each lemma is one square of that diagram.                      *)
LEMMA FlightUntouched ==
  ASSUME NEW s, s \in Snapshots, NEW in, NEW t, NEW latched
  PROVE  /\ FlightOf(UpdateDirectives(s, t)) = FlightOf(s)
         /\ FlightOf(StopOnOvertravel(s, latched)) = FlightOf(s)
         /\ FlightOf(EvaluateGate(s, in)) = FlightOf(s)
         /\ FlightOf(StopControl(s, in)) = FlightOf(s)
         /\ FlightOf(FinControlDisabled(s)) = FlightOf(s)
<1>1. FlightOf(UpdateDirectives(s, t)) = FlightOf(s)
  BY DEF UpdateDirectives, FlightOf, Snapshots
<1>2. FlightOf(StopOnOvertravel(s, latched)) = FlightOf(s)
  BY DEF StopOnOvertravel, FlightOf, PhaseOf, Snapshots
<1>3. FlightOf(EvaluateGate(s, in)) = FlightOf(s)
  BY DEF EvaluateGate, FlightOf, PhaseOf, Snapshots
<1>4. FlightOf(StopControl(s, in)) = FlightOf(s)
  BY DEF StopControl, FlightOf, PhaseOf, Snapshots
<1>5. FlightOf(FinControlDisabled(s)) = FlightOf(s)
  BY DEF FinControlDisabled, UpdateDirectives, FlightOf, PhaseOf, Snapshots
<1> QED BY <1>1, <1>2, <1>3, <1>4, <1>5

LEMMA FlightLiftoff ==
  ASSUME NEW s, s \in Snapshots, NEW in \in SensorInput, NEW t \in Nat
  PROVE  FlightOf(DetectLiftoff(s, in, t)) =
           Flight!LiftedOff(FlightOf(s), in.liftoff, t)
BY DEF DetectLiftoff, Flight!LiftedOff, FlightOf, PhaseOf, Snapshots, SensorInput

LEMMA FlightClock ==
  ASSUME NEW s, Coherent(s), NEW in, NEW t \in Nat
  PROVE  FlightOf(AdvanceClock(s, in, t)) = Flight!Clocked(FlightOf(s), t)
BY DEF AdvanceClock, Flight!Clocked, Flight!Airborne, FlightOf, PhaseOf,
       Coherent, Snapshots

LEMMA FlightDeployed ==
  ASSUME NEW s, Coherent(s), NEW in \in SensorInput
  PROVE  FlightOf(Deploy(s, in)) = Flight!Deployed(FlightOf(s), in.apex)
BY DEF Deploy, Flight!Deployed, FlightOf, PhaseOf, Coherent, Snapshots, SensorInput

LEMMA FlightCutoff ==
  ASSUME NEW s, Coherent(s)
  PROVE  FlightOf(LatchCutoff(s)) = Flight!CutOff(FlightOf(s))
BY DEF LatchCutoff, Flight!CutOff, Flight!Airborne, FlightOf, PhaseOf,
       Coherent, Snapshots

(* invalidateLiftoff and updateDirectives end three of the commands.       *)
LEMMA FlightInvalidated ==
  ASSUME NEW s, s \in Snapshots,
         NEW r, r = UpdateDirectives(InvalidateLiftoff(s), 0)
  PROVE  FlightOf(r) =
           [phase |-> PhaseOf(s.state), epoch |-> s.flight_epoch,
            liftoff |-> 0, elapsed |-> 0, offset |-> 0,
            invalidated |-> s.reset_invalidated,
            cutoff |-> s.power_cutoff_latched]
<1> DEFINE i == InvalidateLiftoff(s)
<1>1. /\ i \in Snapshots
      /\ i.state = s.state /\ i.flight_epoch = s.flight_epoch
      /\ i.liftoff_time = 0 /\ i.elapsed = 0 /\ i.elapsed_offset = 0
      /\ i.reset_invalidated = s.reset_invalidated
      /\ i.power_cutoff_latched = s.power_cutoff_latched
  BY DEF InvalidateLiftoff, Snapshots
<1> HIDE DEF i
<1>2. FlightOf(UpdateDirectives(i, 0)) = FlightOf(i)
  BY <1>1, FlightUntouched
<1> QED BY <1>1, <1>2 DEF FlightOf, i

FlightRecords ==
  [phase : Flight!Phases, epoch : Nat, liftoff : Nat, elapsed : Nat,
   offset : Nat, invalidated : BOOLEAN, cutoff : BOOLEAN]

LEMMA FlightType ==
  ASSUME NEW s, s \in Snapshots
  PROVE  FlightOf(s) \in FlightRecords
BY DEF FlightRecords, FlightOf, PhaseOf, Flight!Phases, Snapshots

(* The same of the abstract flight: it is grounded with another phase.     *)
LEMMA FlightGrounded ==
  ASSUME NEW s, s \in Snapshots, NEW phase \in Flight!Phases
  PROVE  Flight!Grounded(FlightOf(s), phase) =
           [phase |-> phase, epoch |-> s.flight_epoch,
            liftoff |-> 0, elapsed |-> 0, offset |-> 0,
            invalidated |-> s.reset_invalidated,
            cutoff |-> s.power_cutoff_latched]
<1> DEFINE g == FlightOf(s)
           h == Flight!Grounded(g, phase)
<1>1. g \in FlightRecords
  BY FlightType
<1>2. /\ g.epoch = s.flight_epoch
      /\ g.invalidated = s.reset_invalidated
      /\ g.cutoff = s.power_cutoff_latched
  BY DEF FlightOf
<1> HIDE DEF g
<1>3. /\ h \in FlightRecords
      /\ h.phase = phase /\ h.liftoff = 0 /\ h.elapsed = 0 /\ h.offset = 0
      /\ h.epoch = g.epoch /\ h.invalidated = g.invalidated
      /\ h.cutoff = g.cutoff
  BY <1>1 DEF FlightRecords, Flight!Grounded
<1> HIDE DEF h
<1>4. h = [phase |-> phase, epoch |-> s.flight_epoch,
           liftoff |-> 0, elapsed |-> 0, offset |-> 0,
           invalidated |-> s.reset_invalidated,
           cutoff |-> s.power_cutoff_latched]
  BY <1>2, <1>3 DEF FlightRecords
<1> QED BY <1>4 DEF g, h

LEMMA FlightStarted ==
  ASSUME NEW s, s \in Snapshots, NEW forced \in BOOLEAN,
         NEW mask \in SUBSET ReadinessBits
  PROVE  /\ FlightOf(Started(s, forced, mask)) = Flight!Started(FlightOf(s))
         /\ FlightOf(Started(s, forced, mask)).epoch > 0
<1> DEFINE available == FinBits \subseteq mask
           e == NextEpoch(s.flight_epoch)
           c == [s EXCEPT !.flight_epoch = e, !.state = LD,
                   !.fin_control_disabled = FALSE,
                   !.control_reentry_inhibited = FALSE,
                   !.reset_invalidated = FALSE, !.deployment_started = FALSE]
           d == [c EXCEPT !.power_cutoff_latched = FALSE,
                   !.forced_start = forced, !.ready_mask = mask]
           b == [d EXCEPT !.roll_reference_valid = FALSE,
                   !.gate_evaluated = FALSE,
                   !.fin_control_available = available]
<1>1. e \in 0..MaxEpoch /\ e > 0 /\ available \in BOOLEAN
  BY EpochType DEF Snapshots
<1>2. Started(s, forced, mask) = UpdateDirectives(InvalidateLiftoff(b), 0)
  BY DEF Started
<1> HIDE DEF e, available
<1>3. /\ c \in Snapshots /\ c.state = LD /\ c.flight_epoch = e
      /\ c.reset_invalidated = FALSE
  BY <1>1 DEF Snapshots
<1> HIDE DEF c
<1>12. /\ d \in Snapshots /\ d.state = LD /\ d.flight_epoch = e
       /\ d.reset_invalidated = FALSE /\ d.power_cutoff_latched = FALSE
  BY <1>3 DEF Snapshots
<1> HIDE DEF d
<1>4. /\ b \in Snapshots /\ b.state = LD /\ b.flight_epoch = e
      /\ b.reset_invalidated = FALSE /\ b.power_cutoff_latched = FALSE
  BY <1>1, <1>12 DEF Snapshots
<1> HIDE DEF b
<1>5. FlightOf(Started(s, forced, mask)) =
        [phase |-> PhaseOf(LD), epoch |-> e,
         liftoff |-> 0, elapsed |-> 0, offset |-> 0,
         invalidated |-> FALSE, cutoff |-> FALSE]
  BY <1>2, <1>4, FlightInvalidated
<1> DEFINE g == Flight!Grounded(FlightOf(s), "waiting")
           h == [g EXCEPT !.epoch = Flight!NextEpoch(@),
                          !.invalidated = FALSE, !.cutoff = FALSE]
<1>6. g = [phase |-> "waiting", epoch |-> s.flight_epoch,
           liftoff |-> 0, elapsed |-> 0, offset |-> 0,
           invalidated |-> s.reset_invalidated,
           cutoff |-> s.power_cutoff_latched]
  BY FlightGrounded DEF Flight!Phases
<1>7. Flight!Started(FlightOf(s)) = h
  BY DEF Flight!Started
<1>8. Flight!NextEpoch(s.flight_epoch) = e
  BY DEF NextEpoch, Flight!NextEpoch, e
<1> HIDE DEF g
<1>9. /\ g \in FlightRecords
      /\ g.phase = "waiting" /\ g.epoch = s.flight_epoch /\ g.liftoff = 0
      /\ g.elapsed = 0 /\ g.offset = 0
  BY <1>6 DEF FlightRecords, Flight!Phases, Snapshots
<1>13. h = [g EXCEPT !.epoch = e, !.invalidated = FALSE, !.cutoff = FALSE]
  BY <1>8, <1>9
<1>14. e \in Nat
  BY <1>1
<1> HIDE DEF h
<1>10. /\ h \in FlightRecords
       /\ h.phase = "waiting" /\ h.epoch = e /\ h.liftoff = 0
       /\ h.elapsed = 0 /\ h.offset = 0
       /\ h.invalidated = FALSE /\ h.cutoff = FALSE
  BY <1>9, <1>13, <1>14 DEF FlightRecords
<1>11. h = [phase |-> "waiting", epoch |-> e,
            liftoff |-> 0, elapsed |-> 0, offset |-> 0,
            invalidated |-> FALSE, cutoff |-> FALSE]
  BY <1>10 DEF FlightRecords
<1> QED BY <1>1, <1>5, <1>7, <1>11 DEF PhaseOf

LEMMA FlightCancelled ==
  ASSUME NEW s, s \in Snapshots
  PROVE  FlightOf(Cancelled(s)) = Flight!Cancelled(FlightOf(s))
<1> DEFINE b == [s EXCEPT !.state = CR, !.fin_control_disabled = FALSE,
                !.control_reentry_inhibited = FALSE,
                !.deployment_started = FALSE, !.forced_start = FALSE,
                !.ready_mask = {}, !.roll_reference_valid = FALSE,
                !.gate_evaluated = FALSE,
                !.fin_control_available = FALSE]
<1>1. /\ b \in Snapshots /\ b.state = CR
      /\ b.flight_epoch = s.flight_epoch
      /\ b.reset_invalidated = s.reset_invalidated
      /\ b.power_cutoff_latched = s.power_cutoff_latched
  BY DEF Snapshots
<1>2. Cancelled(s) = UpdateDirectives(InvalidateLiftoff(b), 0)
  BY DEF Cancelled
<1> HIDE DEF b
<1>3. FlightOf(Cancelled(s)) =
        [phase |-> PhaseOf(CR), epoch |-> s.flight_epoch,
         liftoff |-> 0, elapsed |-> 0, offset |-> 0,
         invalidated |-> s.reset_invalidated,
         cutoff |-> s.power_cutoff_latched]
  BY <1>1, <1>2, FlightInvalidated
<1> QED BY <1>3, FlightGrounded DEF PhaseOf, Flight!Phases, Flight!Cancelled

LEMMA FlightRolledBack ==
  ASSUME NEW s, s \in Snapshots
  PROVE  /\ FlightOf(RolledBack(s)) = Flight!RolledBack(FlightOf(s))
         /\ FlightOf(RolledBack(s)).epoch > 0
<1> DEFINE b == [s EXCEPT !.flight_epoch = NextEpoch(@), !.state = LD,
                !.control_reentry_inhibited = s.fin_control_disabled,
                !.deployment_started = FALSE,
                !.roll_reference_valid = FALSE,
                !.gate_evaluated = FALSE]
<1>1. NextEpoch(s.flight_epoch) \in 0..MaxEpoch /\ NextEpoch(s.flight_epoch) > 0
  BY EpochType DEF Snapshots
<1>2. /\ b \in Snapshots /\ b.state = LD
      /\ b.flight_epoch = NextEpoch(s.flight_epoch)
      /\ b.reset_invalidated = s.reset_invalidated
      /\ b.power_cutoff_latched = s.power_cutoff_latched
  BY <1>1 DEF Snapshots
<1>3. RolledBack(s) = UpdateDirectives(InvalidateLiftoff(b), 0)
  BY DEF RolledBack
<1> HIDE DEF b
<1>4. FlightOf(RolledBack(s)) =
        [phase |-> PhaseOf(LD), epoch |-> NextEpoch(s.flight_epoch),
         liftoff |-> 0, elapsed |-> 0, offset |-> 0,
         invalidated |-> s.reset_invalidated,
         cutoff |-> s.power_cutoff_latched]
  BY <1>2, <1>3, FlightInvalidated
<1>5. Flight!NextEpoch(s.flight_epoch) = NextEpoch(s.flight_epoch)
  BY DEF NextEpoch, Flight!NextEpoch
<1>6. Flight!RolledBack(FlightOf(s)) =
        [phase |-> "waiting", epoch |-> Flight!NextEpoch(s.flight_epoch),
         liftoff |-> 0, elapsed |-> 0, offset |-> 0,
         invalidated |-> s.reset_invalidated,
         cutoff |-> s.power_cutoff_latched]
  BY FlightGrounded DEF Flight!Phases, Flight!RolledBack
<1> QED BY <1>1, <1>4, <1>5, <1>6 DEF PhaseOf

(* tick is the four stages of the flight, whatever it does to the fins.    *)
LEMMA FlightTicked ==
  ASSUME NEW s, Coherent(s), GateAhead(s), NEW in \in SensorInput,
         NEW t \in Nat, NEW latched,
         in.ready => ~s.reset_invalidated,
         NEW r, r = Ticked(s, in, t, latched)
  PROVE  FlightOf(r) = Flight!Ticked(FlightOf(s), in.liftoff, in.apex, t)
<1> DEFINE s1 == DetectLiftoff(s, in, t)
           s2 == AdvanceClock(s1, in, t)
           s3 == StopOnOvertravel(s2, latched)
           s4 == Deploy(s3, in)
           s5 == EvaluateGate(s4, in)
           s6 == StopControl(s5, in)
           s7 == LatchCutoff(s6)
<1>0. r = UpdateDirectives(s7, t)
  BY DEF Ticked
<1>1. /\ Coherent(s1) /\ s1.reset_invalidated = s.reset_invalidated
      /\ FlightOf(s1) = Flight!LiftedOff(FlightOf(s), in.liftoff, t)
  BY DetectStage, FlightLiftoff DEF Coherent
<1> HIDE DEF s1
<1>2. /\ Coherent(s2) /\ s2.reset_invalidated = s.reset_invalidated
      /\ FlightOf(s2) = Flight!Clocked(FlightOf(s1), t)
  BY <1>1, ClockStage, FlightClock
<1> HIDE DEF s2
<1>3. /\ Coherent(s3) /\ s3.reset_invalidated = s.reset_invalidated
      /\ FlightOf(s3) = FlightOf(s2)
  BY <1>2, OvertravelStage, FlightUntouched DEF Coherent
<1> HIDE DEF s3
<1>4. /\ Coherent(s4) /\ s4.reset_invalidated = s.reset_invalidated
      /\ s4.state \in {EB, CTRL} => s4.elapsed < DeploymentDeadline
      /\ FlightOf(s4) = Flight!Deployed(FlightOf(s3), in.apex)
  BY <1>3, DeployStage, FlightDeployed
<1> HIDE DEF s4
<1>5. /\ Coherent(s5) /\ GateAhead(s5)
      /\ s5.state \in {EB, CTRL} => s5.elapsed < DeploymentDeadline
  BY <1>4, GateStage
<1>6. FlightOf(s5) = FlightOf(s4)
  BY <1>4, FlightUntouched DEF Coherent
<1> HIDE DEF s5
<1>7. /\ Coherent(s6) /\ GateAhead(s6)
      /\ s6.state \in {EB, CTRL} => s6.elapsed < DeploymentDeadline
  BY <1>5, StopStage
<1>8. FlightOf(s6) = FlightOf(s5)
  BY <1>5, FlightUntouched DEF Coherent
<1> HIDE DEF s6
<1>9. Coherent(s7) /\ FlightOf(s7) = Flight!CutOff(FlightOf(s6))
  BY <1>7, CutoffStage, FlightCutoff
<1> HIDE DEF s7
<1>10. FlightOf(r) = FlightOf(s7)
  BY <1>0, <1>9, FlightUntouched DEF Coherent
<1> QED BY <1>1, <1>2, <1>3, <1>4, <1>6, <1>8, <1>9, <1>10 DEF Flight!Ticked

(* A flight that has left the ground has an epoch; 0 is never one.         *)
Numbered(s) == s.state # CR => s.flight_epoch > 0

(* tick starts no flight by itself, and never renumbers one.               *)
LEMMA NumberedTick ==
  ASSUME NEW s, Coherent(s), GateAhead(s), Numbered(s),
         NEW in \in SensorInput, NEW t \in Nat, NEW latched,
         in.ready => ~s.reset_invalidated,
         NEW r, r = Ticked(s, in, t, latched)
  PROVE  Numbered(r)
<1>1. r.flight_epoch = s.flight_epoch
  BY TickTransitions
<1>2. FlightOf(r) = Flight!Ticked(FlightOf(s), in.liftoff, in.apex, t)
  BY FlightTicked
<1>3. Coherent(r)
  BY TickResult
<1>4. CASE s.state = CR
  <2> DEFINE g == FlightOf(s)
             g2 == Flight!Clocked(g, t)
  <2>1. g \in FlightRecords /\ g.phase = "ground"
    BY <1>4, FlightType DEF FlightOf, PhaseOf, Coherent
  <2> HIDE DEF g
  <2>2. Flight!LiftedOff(g, in.liftoff, t) = g
    BY <2>1 DEF Flight!LiftedOff
  <2>3. g2 \in FlightRecords /\ g2.phase = "ground"
    BY <2>1 DEF Flight!Clocked, Flight!Airborne, FlightRecords
  <2> HIDE DEF g2
  <2>4. Flight!Deployed(g2, in.apex) = g2
    BY <2>3 DEF Flight!Deployed
  <2>5. Flight!CutOff(g2).phase = "ground"
    BY <2>3 DEF Flight!CutOff, FlightRecords
  <2>6. FlightOf(r).phase = "ground"
    BY <1>2, <2>2, <2>4, <2>5 DEF Flight!Ticked, g, g2
  <2>7. r.state = CR
    BY <1>3, <2>6 DEF FlightOf, PhaseOf, Coherent, Snapshots
  <2> QED BY <2>7 DEF Numbered
<1>5. CASE s.state # CR
  BY <1>1, <1>5 DEF Numbered
<1> QED BY <1>4, <1>5

(* storeFlightCheckpoint keeps what the flight needs.                      *)
LEMMA FlightSaved ==
  ASSUME NEW s, Coherent(s), Numbered(s), NEW now \in Nat
  PROVE  SavedOf(Saved(s, now)) = Flight!Saved(FlightOf(s), now)
<1>1. s \in Snapshots
  BY DEF Coherent
<1>2. CASE s.state = CR
  <2>1. SavedOf(Saved(s, now)) = NoCheckpoint
    BY <1>2 DEF Saved, SavedOf, NoCheckpoint
  <2>2. Flight!Saved(FlightOf(s), now) = Flight!Nothing
    BY <1>2 DEF Flight!Saved, FlightOf, PhaseOf
  <2> QED BY <2>1, <2>2 DEF NoCheckpoint, Flight!Nothing
<1>3. CASE s.state # CR
  <2>1. s.flight_epoch # 0 /\ (s.state # LD => s.liftoff_time_valid)
    BY <1>1, <1>3 DEF Numbered, Coherent, Snapshots
  <2>2. PhaseOf(s.state) # "ground" /\ (PhaseOf(s.state) = "waiting" <=> s.state = LD)
    BY <1>1, <1>3 DEF PhaseOf, Snapshots
  <2>3. SavedOf(Saved(s, now)) =
          [valid |-> TRUE, phase |-> PhaseOf(s.state), epoch |-> s.flight_epoch,
           elapsed |-> IF s.state = LD THEN 0 ELSE s.elapsed, at |-> now,
           cutoff |-> s.power_cutoff_latched]
    BY <1>3, <2>1 DEF Saved, SavedOf
  <2>4. Flight!Saved(FlightOf(s), now) =
          [valid |-> TRUE, phase |-> PhaseOf(s.state), epoch |-> s.flight_epoch,
           elapsed |-> IF s.state = LD THEN 0 ELSE s.elapsed, at |-> now,
           cutoff |-> s.power_cutoff_latched]
    BY <2>2 DEF Flight!Saved, FlightOf
  <2> QED BY <2>3, <2>4
<1> QED BY <1>2, <1>3

(* loadFlightCheckpoint and restoreAfterReset find that flight again.      *)
LEMMA FlightRestored ==
  ASSUME NEW now \in Nat, NEW cp, cp.valid, CheckpointOK(cp, now)
  PROVE  /\ FlightOf(Restored(cp, now, 0)) = Flight!Restored(SavedOf(cp), now)
         /\ Numbered(Restored(cp, now, 0))
<1> DEFINE base == [InitialSnapshot EXCEPT
                      !.flight_epoch = cp.flight_epoch,
                      !.forced_start = cp.forced_start,
                      !.ready_mask = cp.ready_mask,
                      !.control_reentry_inhibited = TRUE,
                      !.reset_invalidated = TRUE]
           age == LoadedElapsed(cp, now)
           s == IF cp.state = LD
                THEN [base EXCEPT !.state = LD]
                ELSE [base EXCEPT
                       !.state = RestoredState(cp),
                       !.liftoff_time_valid = TRUE, !.liftoff_time = 0,
                       !.elapsed = age, !.elapsed_offset = age,
                       !.deployment_started = cp.deployment_started,
                       !.power_cutoff_latched = cp.power_cutoff_latched,
                       !.gate_evaluated = TRUE]
           r == Restored(cp, now, 0)
<1>1. r = UpdateDirectives(s, 0)
  BY DEF Restored
<1>2. cp \in Checkpoints
  BY DEF CheckpointOK, NoCheckpoint
<1>3. /\ age \in Nat /\ age = cp.elapsed + (now - cp.rtc_time)
      /\ RestoredState(cp) \in States
      /\ cp.state # LD => PhaseOf(RestoredState(cp)) = PhaseOf(cp.state)
      /\ PhaseOf(cp.state) = "waiting" <=> cp.state = LD
  BY <1>2 DEF LoadedElapsed, CheckpointOK, Checkpoints, RestoredState, PhaseOf
<1>4. /\ base \in Snapshots /\ base.flight_epoch = cp.flight_epoch
      /\ base.liftoff_time = 0 /\ base.elapsed = 0 /\ base.elapsed_offset = 0
      /\ base.reset_invalidated = TRUE /\ base.power_cutoff_latched = FALSE
  <2>1. /\ InitialSnapshot \in Snapshots
        /\ InitialSnapshot.liftoff_time = 0 /\ InitialSnapshot.elapsed = 0
        /\ InitialSnapshot.elapsed_offset = 0
        /\ InitialSnapshot.power_cutoff_latched = FALSE
    BY DEF InitialSnapshot, Snapshots
  <2>2. /\ cp.flight_epoch \in 0..MaxEpoch /\ cp.forced_start \in BOOLEAN
        /\ cp.ready_mask \in SUBSET ReadinessBits
    BY <1>2 DEF Checkpoints
  <2> QED BY <2>1, <2>2 DEF Snapshots
<1> HIDE DEF base, age
<1>5. /\ s \in Snapshots /\ s.flight_epoch = cp.flight_epoch
      /\ s.reset_invalidated = TRUE
      /\ s.liftoff_time = 0
      /\ s.elapsed = (IF cp.state = LD THEN 0 ELSE age)
      /\ s.elapsed_offset = (IF cp.state = LD THEN 0 ELSE age)
      /\ s.power_cutoff_latched =
            (IF cp.state = LD THEN FALSE ELSE cp.power_cutoff_latched)
      /\ s.state = (IF cp.state = LD THEN LD ELSE RestoredState(cp))
  BY <1>2, <1>3, <1>4 DEF Snapshots, Checkpoints
<1> HIDE DEF s, r
<1>6. FlightOf(r) = FlightOf(s)
  BY <1>1, <1>5, FlightUntouched
<1>16. r.flight_epoch = cp.flight_epoch
  BY <1>5, <1>6 DEF FlightOf
<1>7. FlightOf(s) =
        [phase |-> PhaseOf(cp.state), epoch |-> cp.flight_epoch, liftoff |-> 0,
         elapsed |-> IF cp.state = LD THEN 0 ELSE age,
         offset |-> IF cp.state = LD THEN 0 ELSE age,
         invalidated |-> TRUE,
         cutoff |-> IF cp.state = LD THEN FALSE ELSE cp.power_cutoff_latched]
  BY <1>3, <1>5 DEF FlightOf
<1> DEFINE saved == SavedOf(cp)
           ground == [Flight!OnGround EXCEPT !.phase = saved.phase,
                        !.epoch = saved.epoch, !.invalidated = TRUE]
<1>8. /\ saved.phase = PhaseOf(cp.state) /\ saved.epoch = cp.flight_epoch
      /\ saved.elapsed = cp.elapsed /\ saved.at = cp.rtc_time
      /\ saved.cutoff = cp.power_cutoff_latched
  BY DEF SavedOf
<1> HIDE DEF saved
<1>9. /\ ground \in FlightRecords
      /\ ground.phase = PhaseOf(cp.state) /\ ground.epoch = cp.flight_epoch
      /\ ground.liftoff = 0 /\ ground.elapsed = 0 /\ ground.offset = 0
      /\ ground.invalidated = TRUE /\ ground.cutoff = FALSE
  <2>1. /\ Flight!OnGround \in FlightRecords
        /\ Flight!OnGround.liftoff = 0 /\ Flight!OnGround.elapsed = 0
        /\ Flight!OnGround.offset = 0 /\ Flight!OnGround.cutoff = FALSE
    BY DEF Flight!OnGround, FlightRecords, Flight!Phases
  <2>2. PhaseOf(cp.state) \in Flight!Phases /\ cp.flight_epoch \in Nat
    BY <1>2 DEF Checkpoints, PhaseOf, Flight!Phases
  <2> QED BY <1>8, <2>1, <2>2 DEF FlightRecords
<1> DEFINE flown == [ground EXCEPT !.elapsed = age, !.offset = age,
                                   !.cutoff = cp.power_cutoff_latched]
<1>10. Flight!Restored(saved, now) = IF cp.state = LD THEN ground ELSE flown
  BY <1>3, <1>8 DEF Flight!Restored
<1> HIDE DEF ground
<1>11. cp.power_cutoff_latched \in BOOLEAN /\ cp.flight_epoch > 0
  BY <1>2 DEF Checkpoints
<1>12. /\ flown \in FlightRecords
       /\ flown.phase = PhaseOf(cp.state) /\ flown.epoch = cp.flight_epoch
       /\ flown.liftoff = 0 /\ flown.elapsed = age /\ flown.offset = age
       /\ flown.invalidated = TRUE /\ flown.cutoff = cp.power_cutoff_latched
  BY <1>3, <1>9, <1>11 DEF FlightRecords
<1> HIDE DEF flown
<1>13. ground = [phase |-> PhaseOf(cp.state), epoch |-> cp.flight_epoch,
                 liftoff |-> 0, elapsed |-> 0, offset |-> 0,
                 invalidated |-> TRUE, cutoff |-> FALSE]
  BY <1>9 DEF FlightRecords
<1>14. flown = [phase |-> PhaseOf(cp.state), epoch |-> cp.flight_epoch,
                liftoff |-> 0, elapsed |-> age, offset |-> age,
                invalidated |-> TRUE, cutoff |-> cp.power_cutoff_latched]
  BY <1>12 DEF FlightRecords
<1>15. FlightOf(r) = Flight!Restored(saved, now)
  BY <1>6, <1>7, <1>10, <1>13, <1>14
<1> QED BY <1>11, <1>15, <1>16 DEF Numbered, r, saved

LEMMA FlightInit == Init => Flight!Init /\ Numbered(m)
BY DEF Init, InitialSnapshot, NoCheckpoint, FlightOf, SavedOf, PhaseOf, Numbered,
       Flight!Init, Flight!OnGround, Flight!Nothing

(* Steps that the flight does not see.                                     *)
LEMMA FlightStutters ==
  ASSUME FlightOf(m') = FlightOf(m), Numbered(m') = Numbered(m),
         UNCHANGED <<checkpoint, running, rtc, boot_at, resets>>
  PROVE  UNCHANGED Flight!flightVars /\ Numbered(m)' = Numbered(m)
BY DEF Flight!flightVars

(* Every step of the state machine is one of the flight, or no step of it. *)
LEMMA FlightStep ==
  ASSUME IInv, Numbered(m), [Next]_vars
  PROVE  Numbered(m)' /\ [Flight!Next]_(Flight!flightVars)
<1>0. m \in Snapshots /\ Coherent(m) /\ GateAhead(m) /\ rtc \in Nat /\ rtc' \in Nat
  BY NextIInv DEF IInv, TypeOK, MachineOK
<1>1. CASE UNCHANGED <<m, checkpoint, running, rtc, boot_at, resets>>
  BY <1>1, FlightStutters
<1>2. ASSUME NEW forced \in BOOLEAN, NEW mask \in ReadinessChoices,
             Start(forced, mask)
      PROVE  Numbered(m)' /\ [Flight!Next]_(Flight!flightVars)
  <2>1. CASE UNCHANGED <<m, checkpoint>>
    BY <1>1, <1>2, <2>1 DEF Start
  <2>2. CASE ~UNCHANGED <<m, checkpoint>>
    <3>1. /\ m.state = CR /\ running /\ m' = Started(m, forced, mask)
          /\ checkpoint' = Saved(m', rtc)
          /\ forced \/ mask = ReadinessBits
          /\ mask \in SUBSET ReadinessBits
          /\ UNCHANGED <<running, rtc, boot_at, resets>>
      BY <1>2, <2>2, InputAssumption DEF Start
    <3>2. FlightOf(m') = Flight!Started(FlightOf(m)) /\ FlightOf(m').epoch > 0
      BY <1>0, <3>1, FlightStarted
    <3>3. Numbered(m') /\ Coherent(m')
      <4>1. Coherent(m')
        BY <1>0, <3>1, StartedResult
      <4> QED BY <3>2, <4>1 DEF Numbered, FlightOf
    <3>4. SavedOf(checkpoint') = Flight!Saved(FlightOf(m'), rtc)
      BY <1>0, <3>1, <3>3, FlightSaved
    <3>5. FlightOf(m).phase = "ground"
      BY <3>1 DEF FlightOf, PhaseOf
    <3>6. Flight!Start
      BY <3>1, <3>2, <3>4, <3>5 DEF Flight!Start
    <3> QED BY <3>3, <3>6 DEF Flight!Next
  <2> QED BY <2>1, <2>2
<1>3. CASE Cancel
  <2>1. FlightOf(m') = Flight!Cancelled(FlightOf(m)) /\ Numbered(m')
    BY <1>0, <1>3, FlightCancelled, CancelledResult DEF Cancel, Numbered
  <2>2. FlightOf(m).phase = "waiting"
    BY <1>3 DEF Cancel, FlightOf, PhaseOf
  <2>3. Flight!Cancel
    BY <1>3, <2>1, <2>2 DEF Cancel, Flight!Cancel
  <2> QED BY <2>1, <2>3 DEF Flight!Next
<1>4. CASE DisableFinControl
  <2>1. FlightOf(m') = FlightOf(m)
    BY <1>0, <1>4, FlightUntouched DEF DisableFinControl
  <2>2. Numbered(m')
    BY <1>0, <1>4, FinControlDisabledResult DEF DisableFinControl, Numbered, SameClock
  <2> QED BY <1>4, <2>1, <2>2 DEF DisableFinControl, Flight!flightVars
<1>5. CASE LiftoffDetectionEmergencyStop
  <2>1. FlightOf(m') = Flight!RolledBack(FlightOf(m)) /\ FlightOf(m').epoch > 0
    BY <1>0, <1>5, FlightRolledBack DEF LiftoffDetectionEmergencyStop
  <2>2. FlightOf(m).phase = "flight"
    BY <1>5 DEF LiftoffDetectionEmergencyStop, FlightOf, PhaseOf
  <2>4. Flight!RollBack
    BY <1>5, <2>1, <2>2 DEF LiftoffDetectionEmergencyStop, Flight!RollBack
  <2> QED BY <2>1, <2>4 DEF Flight!Next, Numbered, FlightOf
<1>6. CASE Tick
  <2>1. PICK in \in TickInputs : m' = Ticked(m, in, Mono, guard.latched)
    BY <1>6 DEF Tick
  <2>2. /\ in \in SensorInput
        /\ in.ready => ~m.reset_invalidated
        /\ Mono \in Nat
    BY <2>1, InputAssumption
       DEF TickInputs, SensorInput, IInv, TypeOK, TimeOK, Mono
  <2>3. FlightOf(m') = Flight!Ticked(FlightOf(m), in.liftoff, in.apex, Mono)
    BY <1>0, <2>1, <2>2, FlightTicked
  <2>4. Numbered(m') /\ Coherent(m')
    BY <1>0, <2>1, <2>2, NumberedTick, TickResult
  <2>5. SavedOf(checkpoint') = Flight!Saved(FlightOf(m'), rtc)
    BY <1>0, <1>6, <2>4, FlightSaved DEF Tick
  <2>6. Mono = Flight!Mono
    BY DEF Mono, Flight!Mono
  <2>7. Flight!Tick(in.liftoff, in.apex)
    BY <1>6, <2>3, <2>5, <2>6 DEF Tick, Flight!Tick
  <2>8. in.liftoff \in BOOLEAN /\ in.apex \in BOOLEAN
    BY <2>2 DEF SensorInput
  <2> QED BY <2>4, <2>7, <2>8 DEF Flight!Next
<1>7. ASSUME NEW keeps \in BOOLEAN, Reset(keeps)
      PROVE  Numbered(m)' /\ [Flight!Next]_(Flight!flightVars)
  <2>1. FlightOf(m') = Flight!OnGround /\ Numbered(m')
    BY <1>7 DEF Reset, InitialSnapshot, FlightOf, PhaseOf, Flight!OnGround, Numbered
  <2>2. SavedOf(checkpoint') = IF keeps THEN SavedOf(checkpoint) ELSE Flight!Nothing
    BY <1>7 DEF Reset, SavedOf, NoCheckpoint, Flight!Nothing
  <2>3. Flight!Reset(keeps)
    BY <1>7, <2>1, <2>2 DEF Reset, Flight!Reset
  <2> QED BY <2>1, <2>3 DEF Flight!Next
<1>8. CASE Boot
  <2>1. SavedOf(checkpoint).valid <=> checkpoint.valid
    BY DEF SavedOf, NoCheckpoint, IInv, TypeOK, Checkpoints
  <2>2. CASE checkpoint.valid
    <3>1. /\ FlightOf(m') = Flight!Restored(SavedOf(checkpoint), rtc)
          /\ Numbered(m')
      BY <1>0, <1>8, <2>2, FlightRestored DEF Boot, IInv
    <3>2. Flight!Boot
      BY <1>8, <2>1, <2>2, <3>1 DEF Boot, Flight!Boot
    <3> QED BY <3>1, <3>2 DEF Flight!Next
  <2>3. CASE ~checkpoint.valid
    <3>1. Flight!Boot
      BY <1>8, <2>1, <2>3 DEF Boot, Flight!Boot
    <3> QED BY <1>8, <2>3, <3>1 DEF Boot, Flight!Next
  <2> QED BY <2>2, <2>3
<1>9. CASE Advance
  BY <1>9 DEF Advance, Flight!Advance, Flight!Next
<1> QED BY <1>1, <1>2, <1>3, <1>4, <1>5, <1>6, <1>7, <1>8, <1>9
        DEF Next, Command, ZeroFin, ObserveFin, vars

(* MissionStateMachine with its RTC checkpoint implements the flight that  *)
(* the deployment tasks rely on: whatever it does with fins, gate,         *)
(* readiness and overtravel, commands, ticks, resets and boots move the    *)
(* phases, the clock and the cutoff as FlightSequence says.                *)
THEOREM FlightTheorem == Spec => ImplementsFlight
<1>1. IInv /\ Numbered(m) /\ [Next]_vars =>
        Numbered(m)' /\ [Flight!Next]_(Flight!flightVars)
  BY FlightStep
<1>2. QED
  BY <1>1, FlightInit, IInvHolds, PTL DEF Spec, ImplementsFlight, Flight!Spec
=============================================================================
