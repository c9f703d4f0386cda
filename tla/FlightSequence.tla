--------------------------- MODULE FlightSequence ---------------------------
(***************************************************************************)
(* What the flight sequence promises the tasks that deploy the parachute:  *)
(* the phases of a flight, its clock, and what a reset keeps of them.      *)
(* Fins, control gate, readiness and overtravel are left out; MissionState *)
(* has them and implements this specification.                             *)
(*                                                                         *)
(* The phases are those of MissionStateMachine with EngineBurn and Control *)
(* merged into Flight.  In Flight and Descent liftoff_time is valid, and   *)
(* Descent is the same as deployment_started: MissionState checks both.    *)
(***************************************************************************)
EXTENDS Naturals

CONSTANTS
  Backdate,            \* liftoff is dated this long before its detection
  PressureGate,        \* kPressureDeploymentGateUs
  DeploymentDeadline,  \* kDeploymentDeadlineUs
  PowerCutoff,         \* kPowerCutoffUs
  MaxEpoch,            \* largest value of the flight epoch counter
  MaxTime,             \* bound of the model: the last instant of rtc
  MaxResets            \* bound of the model: the number of resets

Phases == {"ground", "waiting", "flight", "descent"}
Airborne == {"flight", "descent"}

VARIABLES
  f,          \* the flight, as the snapshot of the state machine shows it
  saved,      \* what the RTC memory would restore, or Nothing
  running,    \* FALSE between a reset and the next boot
  rtc,        \* the timer that a reset does not stop
  boot_at,    \* the instant of the last boot, on rtc
  resets

flightVars == <<f, saved, running, rtc, boot_at, resets>>

Nothing == [valid |-> FALSE]
Mono == rtc - boot_at

OnGround ==
  [phase |-> "ground", epoch |-> 0, liftoff |-> 0, elapsed |-> 0,
   offset |-> 0, invalidated |-> FALSE, cutoff |-> FALSE]

NextEpoch(e) == IF e = MaxEpoch THEN 1 ELSE e + 1

-----------------------------------------------------------------------------
Grounded(s, phase) ==
  [s EXCEPT !.phase = phase, !.liftoff = 0, !.elapsed = 0, !.offset = 0]

Started(s) ==
  [Grounded(s, "waiting") EXCEPT !.epoch = NextEpoch(@),
                                 !.invalidated = FALSE, !.cutoff = FALSE]
Cancelled(s) == Grounded(s, "ground")
RolledBack(s) == [Grounded(s, "waiting") EXCEPT !.epoch = NextEpoch(@)]

LiftedOff(s, seen, t) ==
  IF s.phase = "waiting" /\ seen
  THEN [s EXCEPT !.phase = "flight", !.offset = 0,
                 !.liftoff = IF t >= Backdate THEN t - Backdate ELSE 0]
  ELSE s

Clocked(s, t) ==
  [s EXCEPT !.elapsed = IF s.phase \in Airborne /\ t >= s.liftoff
                        THEN s.offset + (t - s.liftoff) ELSE 0]

Deployed(s, apex) ==
  IF /\ s.phase = "flight"
     /\ \/ apex /\ s.elapsed >= PressureGate
        \/ s.elapsed >= DeploymentDeadline
  THEN [s EXCEPT !.phase = "descent"]
  ELSE s

CutOff(s) ==
  [s EXCEPT !.cutoff = @ \/ (s.phase \in Airborne /\ s.elapsed >= PowerCutoff)]

Ticked(s, seen, apex, t) ==
  CutOff(Deployed(Clocked(LiftedOff(s, seen, t), t), apex))

Saved(s, now) ==
  IF s.phase = "ground"
  THEN Nothing
  ELSE [valid |-> TRUE, phase |-> s.phase, epoch |-> s.epoch,
        elapsed |-> IF s.phase = "waiting" THEN 0 ELSE s.elapsed,
        at |-> now, cutoff |-> s.cutoff]

(* The flight that a boot at `now' finds: in the air it goes on, as old as *)
(* the saved clock and the reset together; waiting it waits again.         *)
Restored(cp, now) ==
  LET age == cp.elapsed + (now - cp.at)
      base == [OnGround EXCEPT !.phase = cp.phase, !.epoch = cp.epoch,
                               !.invalidated = TRUE]
  IN IF cp.phase = "waiting"
     THEN base
     ELSE [base EXCEPT !.elapsed = age, !.offset = age, !.cutoff = cp.cutoff]

-----------------------------------------------------------------------------
Start ==
  /\ running /\ f.phase = "ground"
  /\ f' = Started(f) /\ saved' = Saved(f', rtc)
  /\ UNCHANGED <<running, rtc, boot_at, resets>>

Cancel ==
  /\ running /\ f.phase = "waiting"
  /\ f' = Cancelled(f)
  /\ UNCHANGED <<saved, running, rtc, boot_at, resets>>

RollBack ==
  /\ running /\ f.phase = "flight"
  /\ f' = RolledBack(f)
  /\ UNCHANGED <<saved, running, rtc, boot_at, resets>>

Tick(seen, apex) ==
  /\ running
  /\ f' = Ticked(f, seen, apex, Mono) /\ saved' = Saved(f', rtc)
  /\ UNCHANGED <<running, rtc, boot_at, resets>>

Reset(keeps_rtc_memory) ==
  /\ running /\ resets < MaxResets
  /\ running' = FALSE /\ resets' = resets + 1
  /\ f' = OnGround
  /\ saved' = IF keeps_rtc_memory THEN saved ELSE Nothing
  /\ UNCHANGED <<rtc, boot_at>>

Boot ==
  /\ ~running
  /\ running' = TRUE /\ boot_at' = rtc
  /\ f' = IF saved.valid THEN Restored(saved, rtc) ELSE f
  /\ UNCHANGED <<saved, rtc, resets>>

Advance ==
  /\ rtc < MaxTime
  /\ rtc' = rtc + 1
  /\ UNCHANGED <<f, saved, running, boot_at, resets>>

Init ==
  /\ f = OnGround /\ saved = Nothing /\ running = TRUE
  /\ rtc = 0 /\ boot_at = 0 /\ resets = 0

Next ==
  \/ Start
  \/ Cancel
  \/ RollBack
  \/ \E seen, apex \in BOOLEAN : Tick(seen, apex)
  \/ \E keeps_rtc_memory \in BOOLEAN : Reset(keeps_rtc_memory)
  \/ Boot
  \/ Advance

Spec == Init /\ [][Next]_flightVars
=============================================================================
