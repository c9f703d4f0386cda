------------------------- MODULE MissionRefinement -------------------------
(* MissionState implements FlightSequence, the specification of it on      *)
(* which DeploymentChain is built.                                         *)
EXTENDS MissionState

PhaseOf(state) ==
  CASE state = CR -> "ground"
    [] state = LD -> "waiting"
    [] state \in {EB, CTRL} -> "flight"
    [] state = DESC -> "descent"

FlightOf(s) ==
  [phase |-> PhaseOf(s.state), epoch |-> s.flight_epoch,
   liftoff |-> s.liftoff_time, elapsed |-> s.elapsed,
   offset |-> s.elapsed_offset, invalidated |-> s.reset_invalidated,
   cutoff |-> s.power_cutoff_latched]

SavedOf(cp) ==
  IF cp.valid
  THEN [valid |-> TRUE, phase |-> PhaseOf(cp.state),
        epoch |-> cp.flight_epoch, elapsed |-> cp.elapsed, at |-> cp.rtc_time,
        cutoff |-> cp.power_cutoff_latched]
  ELSE NoCheckpoint

Flight == INSTANCE FlightSequence
            WITH f <- FlightOf(m), saved <- SavedOf(checkpoint)

(* Every command, tick, reset and boot of the state machine is a step of   *)
(* the flight sequence, or none of its business: fins, gate and overtravel *)
(* never disturb the phases, the clock or the cutoff of a flight.          *)
ImplementsFlight == Flight!Spec
=============================================================================
