---------------------------- MODULE MissionState ----------------------------
(***************************************************************************)
(* mission::MissionStateMachine: the flight sequence of the Mission Board, *)
(* as missionRealtimeTask drives it, with the RTC checkpoint that carries  *)
(* the flight over a reset and the overtravel latch of the fins.           *)
(*                                                                         *)
(* The snapshot_ of the class, its private members included, is the one    *)
(* record m.  tick() is a chain of operators on that record, one for each  *)
(* of its successive if statements.  Time is counted in units of one       *)
(* second: rtc is the RTC timer, which a reset does not stop; esp_timer    *)
(* restarts at each boot and is Mono.                                      *)
(*                                                                         *)
(* missionRealtimeTask calls tick with the default SafetyRequest, whose    *)
(* epoch 0 is never the current one, so that argument has no counterpart.  *)
(***************************************************************************)
EXTENDS Naturals

CONSTANTS
  Backdate,            \* liftoff is dated this long before its detection
  ControlGate,         \* kControlGateUs
  PressureGate,        \* kPressureDeploymentGateUs
  DeploymentDeadline,  \* kDeploymentDeadlineUs
  PowerCutoff,         \* kPowerCutoffUs
  MaxEpoch,            \* largest value of the flight epoch counter
  ReadinessChoices,    \* the readiness masks a Start may find
  SensorInputs,        \* the verdicts a tick may read
  MaxTime,             \* bound of the model: the last instant of rtc
  MaxResets            \* bound of the model: the number of resets

(* The five bits of PreflightReadinessBit, and the two the fins need.      *)
ReadinessBits == {"fin_zero_configured", "motor_profile_valid",
                  "gyro_bias_valid", "gravity_reference_valid",
                  "ssc_zero_valid"}
FinBits == {"fin_zero_configured", "motor_profile_valid"}

ASSUME TimingAssumption ==
  /\ Backdate \in Nat /\ ControlGate \in Nat \ {0} /\ PressureGate \in Nat
  /\ DeploymentDeadline \in Nat /\ PowerCutoff \in Nat
  /\ PressureGate <= DeploymentDeadline /\ DeploymentDeadline <= PowerCutoff
ASSUME BoundAssumption ==
  MaxEpoch \in Nat \ {0} /\ MaxTime \in Nat /\ MaxResets \in Nat
ASSUME InputAssumption ==
  /\ ReadinessChoices \subseteq SUBSET ReadinessBits
  /\ SensorInputs \subseteq [liftoff : BOOLEAN, apex : BOOLEAN, fin : BOOLEAN,
                             ready : BOOLEAN, capturable : BOOLEAN]

CR == "command_receive"
LD == "liftoff_detection"
EB == "engine_burn"
CTRL == "control"
DESC == "descent"
States == {CR, LD, EB, CTRL, DESC}
InFlight == {EB, CTRL, DESC}

VARIABLES
  m,            \* snapshot_ and the private members of the class
  guard,        \* the three atomics of fin_overtravel_guard.cpp
  checkpoint,   \* the RTC memory record, or NoCheckpoint
  running,      \* FALSE between a reset and the end of start()
  rtc,          \* esp_rtc_get_time_us
  boot_at,      \* the instant esp_timer was last zeroed
  resets,       \* resets so far (bounded by MaxResets)
  liftoff_at    \* history: when the current liftoff happened, on rtc

vars == <<m, guard, checkpoint, running, rtc, boot_at, resets, liftoff_at>>

NoCheckpoint == [valid |-> FALSE]
Mono == rtc - boot_at

InitialSnapshot ==
  [state |-> CR, flight_epoch |-> 0, liftoff_time_valid |-> FALSE,
   liftoff_time |-> 0, elapsed |-> 0, elapsed_offset |-> 0,
   fin_control_disabled |-> FALSE, control_reentry_inhibited |-> FALSE,
   reset_invalidated |-> FALSE, deployment_started |-> FALSE,
   power_cutoff_latched |-> FALSE, forced_start |-> FALSE,
   ready_mask |-> {}, roll_reference_valid |-> FALSE,
   gate_evaluated |-> FALSE, fin_control_available |-> FALSE,
   fin |-> "brake", parachute |-> "hold"]

InitialGuard == [latched |-> FALSE, valid |-> FALSE, inside |-> FALSE]

-----------------------------------------------------------------------------
(* Helpers of the class.                                                   *)

MutNextEpoch(e) == e + 1

NextEpoch(e) == IF e = MaxEpoch THEN 1 ELSE e + 1

MutFinReady(s) == FinBits \cap s.ready_mask # {}

FinReady(s) == FinBits \subseteq s.ready_mask

FinDirective(s, t) ==
  LET past_cutoff == s.liftoff_time_valid /\ t >= s.liftoff_time + PowerCutoff
  IN CASE s.reset_invalidated \/ s.fin_control_disabled \/ ~FinReady(s)
            -> "brake"
       [] OTHER ->
            CASE s.state = CTRL -> "roll_control"
              [] /\ s.state \in {LD, EB, DESC}
                 /\ ~past_cutoff
                 /\ s.fin_control_available -> "zero_hold"
              [] OTHER -> "brake"

ParaDirective(s) ==
  CASE s.power_cutoff_latched -> "powered_off"
    [] ~s.power_cutoff_latched /\ s.deployment_started -> "open"
    [] OTHER -> "hold"

UpdateDirectives(s, t) ==
  [s EXCEPT !.parachute = ParaDirective(s), !.fin = FinDirective(s, t)]

InvalidateLiftoff(s) ==
  [s EXCEPT !.liftoff_time_valid = FALSE, !.liftoff_time = 0,
            !.elapsed = 0, !.elapsed_offset = 0]

-----------------------------------------------------------------------------
(* Commands.  Each operator is the state the method leaves behind.         *)

Started(s, forced, mask) ==
  UpdateDirectives(
    InvalidateLiftoff(
      [s EXCEPT !.flight_epoch = NextEpoch(@), !.state = LD,
                !.fin_control_disabled = FALSE,
                !.control_reentry_inhibited = FALSE,
                !.reset_invalidated = FALSE, !.deployment_started = FALSE,
                !.power_cutoff_latched = FALSE, !.forced_start = forced,
                !.ready_mask = mask, !.roll_reference_valid = FALSE,
                !.gate_evaluated = FALSE,
                !.fin_control_available = FinBits \subseteq mask]), 0)

Cancelled(s) ==
  UpdateDirectives(
    InvalidateLiftoff(
      [s EXCEPT !.state = CR, !.fin_control_disabled = FALSE,
                !.control_reentry_inhibited = FALSE,
                !.deployment_started = FALSE, !.forced_start = FALSE,
                !.ready_mask = {}, !.roll_reference_valid = FALSE,
                !.gate_evaluated = FALSE,
                !.fin_control_available = FALSE]), 0)

FinControlDisabled(s) ==
  UpdateDirectives(
    [s EXCEPT !.fin_control_disabled = TRUE,
              !.control_reentry_inhibited = TRUE,
              !.roll_reference_valid = FALSE,
              !.state = IF @ = CTRL THEN EB ELSE @], 0)

MutRolledBackEnables(s) ==
  UpdateDirectives(
    InvalidateLiftoff(
      [s EXCEPT !.flight_epoch = NextEpoch(@), !.state = LD,
                !.fin_control_disabled = FALSE,
                !.control_reentry_inhibited = FALSE,
                !.deployment_started = FALSE,
                !.roll_reference_valid = FALSE,
                !.gate_evaluated = FALSE]), 0)

MutRolledBackSameEpoch(s) ==
  UpdateDirectives(
    InvalidateLiftoff(
      [s EXCEPT !.state = LD,
                !.control_reentry_inhibited = s.fin_control_disabled,
                !.deployment_started = FALSE,
                !.roll_reference_valid = FALSE,
                !.gate_evaluated = FALSE]), 0)

RolledBack(s) ==
  UpdateDirectives(
    InvalidateLiftoff(
      [s EXCEPT !.flight_epoch = NextEpoch(@), !.state = LD,
                !.control_reentry_inhibited = s.fin_control_disabled,
                !.deployment_started = FALSE,
                !.roll_reference_valid = FALSE,
                !.gate_evaluated = FALSE]), 0)

-----------------------------------------------------------------------------
(* tick: the stages of MissionStateMachine::tick, in its order.            *)

DetectLiftoff(s, in, t) ==
  IF s.state = LD /\ in.liftoff
  THEN [s EXCEPT !.state = EB, !.liftoff_time_valid = TRUE,
                 !.liftoff_time = IF t >= Backdate THEN t - Backdate ELSE 0,
                 !.gate_evaluated = FALSE, !.elapsed_offset = 0]
  ELSE s

AdvanceClock(s, in, t) ==
  [s EXCEPT !.elapsed = IF s.liftoff_time_valid /\ t >= s.liftoff_time
                        THEN s.elapsed_offset + (t - s.liftoff_time)
                        ELSE 0,
            !.fin_control_available = in.fin]

MutStopOnOvertravelReenters(s, latched) ==
  IF s.state # CR /\ latched
  THEN [s EXCEPT !.fin_control_available = FALSE,
                 !.roll_reference_valid = FALSE,
                 !.state = IF @ = CTRL THEN EB ELSE @]
  ELSE s

StopOnOvertravel(s, latched) ==
  IF s.state # CR /\ latched
  THEN [s EXCEPT !.control_reentry_inhibited = TRUE,
                 !.fin_control_available = FALSE,
                 !.roll_reference_valid = FALSE,
                 !.state = IF @ = CTRL THEN EB ELSE @]
  ELSE s

Deploy(s, in) ==
  IF /\ s.state \in {EB, CTRL}
     /\ s.liftoff_time_valid
     /\ \/ in.apex /\ s.elapsed >= PressureGate
        \/ s.elapsed >= DeploymentDeadline
  THEN [s EXCEPT !.state = DESC, !.deployment_started = TRUE,
                 !.parachute = "open"]
  ELSE s

MutEvaluateGateAgain(s, in) ==
  IF /\ s.state = EB /\ s.elapsed >= ControlGate /\ ~s.gate_evaluated
     /\ ~s.fin_control_disabled /\ ~s.control_reentry_inhibited
     /\ FinReady(s) /\ in.ready /\ in.capturable
  THEN [s EXCEPT !.gate_evaluated = TRUE, !.state = CTRL,
                 !.roll_reference_valid = TRUE]
  ELSE s

(* The one-shot gate: control with the roll reference captured, or no      *)
(* control for the rest of this epoch.                                     *)
EvaluateGate(s, in) ==
  LET admitted == /\ ~s.fin_control_disabled
                  /\ ~s.control_reentry_inhibited
                  /\ FinReady(s)
                  /\ in.ready
                  /\ s.roll_reference_valid \/ in.capturable
  IN IF /\ s.state = EB /\ s.liftoff_time_valid
        /\ s.elapsed >= ControlGate /\ ~s.gate_evaluated
     THEN IF admitted
          THEN [s EXCEPT !.gate_evaluated = TRUE, !.state = CTRL,
                         !.roll_reference_valid = TRUE]
          ELSE [s EXCEPT !.gate_evaluated = TRUE,
                         !.control_reentry_inhibited = TRUE]
     ELSE s

StopControl(s, in) ==
  IF s.state = CTRL /\ ~in.ready
  THEN [s EXCEPT !.state = EB, !.control_reentry_inhibited = TRUE]
  ELSE s

LatchCutoff(s) ==
  [s EXCEPT !.power_cutoff_latched =
     @ \/ (s.liftoff_time_valid /\ s.elapsed >= PowerCutoff)]

Ticked(s, in, t, latched) ==
  LET s1 == DetectLiftoff(s, in, t)
      s2 == AdvanceClock(s1, in, t)
      s3 == StopOnOvertravel(s2, latched)
      s4 == Deploy(s3, in)
      s5 == EvaluateGate(s4, in)
      s6 == StopControl(s5, in)
      s7 == LatchCutoff(s6)
  IN UpdateDirectives(s7, t)

-----------------------------------------------------------------------------
(* Reset: the checkpoint in RTC memory and restoreAfterReset.              *)

(* storeFlightCheckpoint: what a reset would find.                         *)
Saved(s, now) ==
  IF \/ s.flight_epoch = 0
     \/ s.state = CR
     \/ s.state # LD /\ ~s.liftoff_time_valid
  THEN NoCheckpoint
  ELSE [valid |-> TRUE, state |-> s.state, flight_epoch |-> s.flight_epoch,
        elapsed |-> IF s.state = LD THEN 0 ELSE s.elapsed, rtc_time |-> now,
        deployment_started |-> s.deployment_started,
        power_cutoff_latched |-> s.power_cutoff_latched,
        forced_start |-> s.forced_start, ready_mask |-> s.ready_mask]

(* loadFlightCheckpoint: the time spent in the reset counts as flight.     *)
MutLoadedElapsed(cp, now) == cp.elapsed

LoadedElapsed(cp, now) == cp.elapsed + (now - cp.rtc_time)

RestoredState(cp) ==
  IF cp.deployment_started \/ cp.state = DESC THEN DESC ELSE EB

(* restoreAfterReset on a checkpoint that storeFlightCheckpoint wrote.     *)
Restored(cp, now, t) ==
  LET base == [InitialSnapshot EXCEPT
                 !.flight_epoch = cp.flight_epoch,
                 !.forced_start = cp.forced_start,
                 !.ready_mask = cp.ready_mask,
                 !.control_reentry_inhibited = TRUE,
                 !.reset_invalidated = TRUE]
      before_liftoff == [base EXCEPT !.state = LD]
      after_liftoff ==
        [base EXCEPT
           !.state = RestoredState(cp),
           !.liftoff_time_valid = TRUE, !.liftoff_time = t,
           !.elapsed = LoadedElapsed(cp, now),
           !.elapsed_offset = LoadedElapsed(cp, now),
           !.deployment_started = cp.deployment_started,
           !.power_cutoff_latched = cp.power_cutoff_latched,
           !.gate_evaluated = TRUE]
  IN UpdateDirectives(IF cp.state = LD THEN before_liftoff
                                       ELSE after_liftoff, t)

-----------------------------------------------------------------------------
(* The overtravel latch.                                                   *)

(* clearFinOvertravelIfRecoverable                                         *)
Recovered(g) == [g EXCEPT !.latched = @ /\ ~(g.valid /\ g.inside)]

(* observeFinOvertravel(angle, valid)                                      *)
Observed(g, valid, inside) ==
  [latched |-> g.latched \/ (valid /\ ~inside),
   valid |-> valid, inside |-> valid /\ inside]

-----------------------------------------------------------------------------
(* Actions.                                                                *)

(* What a tick reads: both detectors' verdicts, fin_control_available,     *)
(* ControlAvailability::ready, and whether the roll estimate is at most    *)
(* 3 ms old and not from the future.  missionRealtimeTask invalidates the  *)
(* attitude in every loop that sees reset_invalidated, so that such a      *)
(* snapshot never meets a ready input.                                     *)
TickInputs ==
  {in \in SensorInputs : in.ready => in.fin /\ ~m.reset_invalidated}

Start(forced, mask) ==
  /\ running /\ m.state = CR
  /\ guard' = Recovered(guard)
  /\ IF guard'.latched \/ (~forced /\ mask # ReadinessBits)
     THEN UNCHANGED <<m, checkpoint>>
     ELSE /\ m' = Started(m, forced, mask)
          /\ checkpoint' = Saved(m', rtc)
  /\ UNCHANGED <<running, rtc, boot_at, resets, liftoff_at>>

Cancel ==
  /\ running /\ m.state = LD
  /\ m' = Cancelled(m)
  /\ UNCHANGED <<guard, checkpoint, running, rtc, boot_at, resets, liftoff_at>>

DisableFinControl ==
  /\ running /\ m.state \in {LD, EB, CTRL}
  /\ m' = FinControlDisabled(m)
  /\ UNCHANGED <<guard, checkpoint, running, rtc, boot_at, resets, liftoff_at>>

LiftoffDetectionEmergencyStop ==
  /\ running /\ m.state = EB
  /\ m' = RolledBack(m)
  /\ UNCHANGED <<guard, checkpoint, running, rtc, boot_at, resets, liftoff_at>>

(* tick and storeFlightCheckpoint, under one hold of state_mutex.          *)
Tick ==
  /\ running
  /\ \E in \in TickInputs :
       /\ m' = Ticked(m, in, Mono, guard.latched)
       /\ liftoff_at' = IF m.state = LD /\ in.liftoff
                        THEN rtc - (Mono - DetectLiftoff(m, in, Mono).liftoff_time)
                        ELSE liftoff_at
  /\ guard' = IF m.state = CR THEN Recovered(guard) ELSE guard
  /\ checkpoint' = Saved(m', rtc)
  /\ UNCHANGED <<running, rtc, boot_at, resets>>

ObserveFin ==
  /\ running
  /\ \E valid, inside \in BOOLEAN : guard' = Observed(guard, valid, inside)
  /\ UNCHANGED <<m, checkpoint, running, rtc, boot_at, resets, liftoff_at>>

(* set_fin_zero completed: clearFinOvertravelFault.  The command is        *)
(* accepted in CommandReceive, but carried out by a later loop, in which a *)
(* Start that was being prepared may already have succeeded.               *)
ZeroFin ==
  /\ running /\ m.state \in {CR, LD}
  /\ guard' = [guard EXCEPT !.latched = FALSE]
  /\ UNCHANGED <<m, checkpoint, running, rtc, boot_at, resets, liftoff_at>>

(* RAM is lost.  So is the checkpoint after a power-on reset, or when the  *)
(* reset falls into the copy of the record and its checksum fails.         *)
Reset(keeps_rtc_memory) ==
  /\ running /\ resets < MaxResets
  /\ running' = FALSE /\ resets' = resets + 1
  /\ m' = InitialSnapshot /\ guard' = InitialGuard
  /\ checkpoint' = IF keeps_rtc_memory THEN checkpoint ELSE NoCheckpoint
  /\ UNCHANGED <<rtc, boot_at, liftoff_at>>

(* ProductionRuntime::start, before any task runs.                         *)
Boot ==
  /\ ~running
  /\ running' = TRUE /\ boot_at' = rtc
  /\ m' = IF checkpoint.valid THEN Restored(checkpoint, rtc, 0) ELSE m
  /\ UNCHANGED <<guard, checkpoint, rtc, resets, liftoff_at>>

Advance ==
  /\ rtc < MaxTime
  /\ rtc' = rtc + 1
  /\ UNCHANGED <<m, guard, checkpoint, running, boot_at, resets, liftoff_at>>

Init ==
  /\ m = InitialSnapshot /\ guard = InitialGuard
  /\ checkpoint = NoCheckpoint /\ running = TRUE
  /\ rtc = 0 /\ boot_at = 0 /\ resets = 0 /\ liftoff_at = 0

Command ==
  \/ \E forced \in BOOLEAN, mask \in ReadinessChoices : Start(forced, mask)
  \/ Cancel
  \/ DisableFinControl
  \/ LiftoffDetectionEmergencyStop
  \/ ZeroFin

Next ==
  \/ Command
  \/ Tick
  \/ ObserveFin
  \/ \E keeps_rtc_memory \in BOOLEAN : Reset(keeps_rtc_memory)
  \/ Boot
  \/ Advance

Spec == Init /\ [][Next]_vars

-----------------------------------------------------------------------------
(* Properties.                                                             *)

Snapshots ==
  [state : States, flight_epoch : 0..MaxEpoch, liftoff_time_valid : BOOLEAN,
   liftoff_time : Nat, elapsed : Nat, elapsed_offset : Nat,
   fin_control_disabled : BOOLEAN, control_reentry_inhibited : BOOLEAN,
   reset_invalidated : BOOLEAN, deployment_started : BOOLEAN,
   power_cutoff_latched : BOOLEAN, forced_start : BOOLEAN,
   ready_mask : SUBSET ReadinessBits, roll_reference_valid : BOOLEAN,
   gate_evaluated : BOOLEAN, fin_control_available : BOOLEAN,
   fin : {"brake", "zero_hold", "roll_control"},
   parachute : {"hold", "open", "powered_off"}]

Checkpoints ==
  [valid : {TRUE}, state : {LD} \cup InFlight, flight_epoch : 1..MaxEpoch,
   elapsed : Nat, rtc_time : Nat, deployment_started : BOOLEAN,
   power_cutoff_latched : BOOLEAN, forced_start : BOOLEAN,
   ready_mask : SUBSET ReadinessBits]

(* Every variable keeps its type.                                          *)
TypeOK ==
  /\ m \in Snapshots
  /\ guard \in [latched : BOOLEAN, valid : BOOLEAN, inside : BOOLEAN]
  /\ checkpoint \in Checkpoints \cup {NoCheckpoint}
  /\ running \in BOOLEAN
  /\ rtc \in Nat /\ boot_at \in Nat /\ resets \in Nat /\ liftoff_at \in Nat

(* Descent and an ordered deployment are the same thing, and the power of  *)
(* the parachute is cut in no other state: no sequence of commands, ticks  *)
(* and resets leaves a flight that has been cut off but never deployed, or *)
(* that has deployed but is waiting for liftoff again.                     *)
DescentIsDeployment ==
  /\ m.state = DESC <=> m.deployment_started
  /\ m.power_cutoff_latched => m.deployment_started
  /\ m.liftoff_time_valid <=> m.state \in InFlight
  /\ checkpoint.valid => /\ checkpoint.state = DESC <=> checkpoint.deployment_started
                         /\ checkpoint.power_cutoff_latched => checkpoint.deployment_started

(* The fins follow the roll controller only in an epoch whose gate let     *)
(* them, with the reference captured, no ground order against it and no    *)
(* reset since the Start (docs/02 sections 4, 6 and 12).                   *)
ControlIsAuthorized ==
  m.state = CTRL =>
    /\ m.gate_evaluated /\ m.roll_reference_valid
    /\ ~m.fin_control_disabled /\ ~m.control_reentry_inhibited
    /\ ~m.reset_invalidated /\ FinReady(m)

(* A forced start drives no fin that was not ready, through any rollback   *)
(* and reset of that attempt, and a flight not marked forced is one that   *)
(* started with all five readiness bits (docs/04c section 1).              *)
UnreadyFinsStayBraked ==
  /\ m.fin # "brake" => FinBits \subseteq m.ready_mask /\ m.state # CR
  /\ m.state # CR /\ ~m.forced_start => m.ready_mask = ReadinessBits

(* The mission clock is the true time since liftoff, whatever the number   *)
(* of resets: what the RTC checkpoint and restoreAfterReset are for.       *)
ClockSurvivesReset ==
  /\ m.liftoff_time_valid =>
       /\ m.liftoff_time <= Mono
       /\ m.elapsed_offset + (Mono - m.liftoff_time) = rtc - liftoff_at
  /\ checkpoint.valid /\ checkpoint.state # LD =>
       liftoff_at + checkpoint.elapsed = checkpoint.rtc_time

(* Control is entered only by the tick that takes the clock across the     *)
(* gate: recovered sensors, a recovered fin, a reset or a rollback never   *)
(* reopen it later in the flight (docs/02 section 4).                      *)
GateIsOneShot ==
  [][m.state # CTRL /\ m'.state = CTRL =>
       /\ m.elapsed < ControlGate /\ ControlGate <= m'.elapsed
       /\ m.flight_epoch = m'.flight_epoch]_vars

(* Once the ground has disabled the fins, or a reset has invalidated the   *)
(* flight, they stay braked until a Cancel or a Start, rollbacks included. *)
BarredFinsStayBraked ==
  [][/\ running' /\ m.state # CR /\ m'.state # CR
     /\ m.fin_control_disabled \/ m.reset_invalidated
     => m'.fin = "brake"]_vars

(* A fin seen past its fault limit is braked by the very next tick, in     *)
(* Control or held at zero, before a gate that comes due in that tick can  *)
(* be taken; and samples inside the limit, the end of the flight included, *)
(* do not lift the latch once the flight is on (docs/08c section 4).       *)
OvertravelBrakesFins ==
  [][guard.latched =>
       /\ Tick => m'.fin = "brake"
       /\ running' /\ ~guard'.latched => m.state \in {CR, LD}]_vars

(* No deployment in the first ten seconds of true flight time.             *)
NoEarlyDeployment ==
  [][m.state \in {EB, CTRL} /\ m'.state = DESC =>
       PressureGate <= rtc - liftoff_at]_vars

(* A deployment is never taken back: Descent ends only with the power, and *)
(* a boot that finds it in the checkpoint is in Descent again.             *)
DeploymentIsFinal ==
  [][/\ m.state = DESC /\ running' => m'.state = DESC
     /\ ~running /\ running' /\ checkpoint.valid /\ checkpoint.deployment_started
          => m'.state = DESC]_vars

(* No tick leaves a flight undeployed past its deadline: what the tick     *)
(* saves for a reset is never an undeployed flight that old, whatever the  *)
(* sensors and the commands did (docs/09 section 3).                       *)
DeadlineIsHonoured ==
  checkpoint.valid /\ checkpoint.state \in {EB, CTRL} =>
    checkpoint.rtc_time < liftoff_at + DeploymentDeadline

(* The snapshot and the checkpoint stay coherent: every variable keeps its *)
(* type, and Descent is deployment.                                        *)
StateIsSound == TypeOK /\ DescentIsDeployment

(* The fins are driven only by a flight whose gate, reference, readiness,  *)
(* ground and reset history all allow it.                                  *)
FinsAreAuthorized == ControlIsAuthorized /\ UnreadyFinsStayBraked

(* The clock of the mission is the true one, over resets, and the          *)
(* deployment comes by it.                                                 *)
ClockIsTrue == ClockSurvivesReset /\ DeadlineIsHonoured

(* The brake holds: what the ground, a reset or an overtravel has braked,  *)
(* no later step of the flight drives again on its own.                    *)
BrakeIsLatched == BarredFinsStayBraked /\ OvertravelBrakesFins

(* A flight only goes forward: its gate is taken once, its deployment not  *)
(* early, and neither is taken back by a command, a rollback or a reset.   *)
FlightGoesForward == GateIsOneShot /\ NoEarlyDeployment /\ DeploymentIsFinal
=============================================================================
