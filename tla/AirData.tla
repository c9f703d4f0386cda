------------------------------ MODULE AirData ------------------------------
(***************************************************************************)
(* The pitot sensor of a flight and the preflight calibration: airDataTask *)
(* reads the sensor, restarts it when it answers with errors, and takes    *)
(* its zero; missionRealtimeTask runs the calibration, takes the gyro bias *)
(* and gravity, and decides by the air data whether the fins may control.  *)
(*                                                                         *)
(* The tasks run on two cores.  They share air_data_queue, which holds one *)
(* snapshot and is overwritten; the mission state, which airDataTask reads *)
(* only if it gets state_mutex without waiting; and atomics: whether a     *)
(* calibration is active, its generation, and whether the sensor is in     *)
(* service.  A failed try-lock is a choice.                                *)
(*                                                                         *)
(* A calibrated value is the number of the attempt that its oldest sample  *)
(* is of, 0 while it is not valid.  Time is counted in periods of the      *)
(* sensor: an age is the number of readings since.  The speed itself, and  *)
(* whether the static pressure is fresh, are choices.                      *)
(***************************************************************************)
EXTENDS Naturals

CONSTANTS
    MaxAttempts,   \* number of preflight calibrations (a bound)
    ZeroSamples,   \* flight_config::kAirData.zero_calibration_samples
    RestartFaults, \* board::kSscRestartConsecutiveFaults
    Fresh,         \* FreshnessThresholds::ssc_us, in periods of the sensor
    Upsets         \* how often the sensor stops answering well (a bound)

ASSUME AirDataAssumption ==
    {MaxAttempts, ZeroSamples, RestartFaults, Fresh} \subseteq Nat \ {0} /\ Upsets \in Nat

\* A row of faults is no shorter than a speed is fresh: 8 of 2.5 ms, and 20 ms.
ASSUME RestartAssumption == Fresh <= RestartFaults

VARIABLES
    mission,   \* the state of state_machine
    command,   \* a Start being prepared, a calibration not yet finished
    attempt,   \* preflight_calibration_generation
    active,    \* preflight_calibration_active
    inertial,  \* the gyro bias; the gravity reference is set and kept the same way
    air,       \* airDataTask: where it is, the state and generation it has seen
    zero,      \* DifferentialPressureConditioner
    sensor,    \* the pitot sensor (initialized, well), faults in a row, ssc_ready
    snapshot,  \* the AirDataSnapshot that airDataTask fills
    queue,     \* air_data_queue: the snapshot in it, if any
    rt         \* missionRealtimeTask: where it is, and latest_air_data

vars == <<mission, command, attempt, active, inertial, air, zero, sensor, snapshot,
          queue, rt>>

CR     == "command_receive"
LD     == "liftoff_detection"  \* or later: an emergency may bring it back to this
CutOff == "cut_off"            \* deployment_power_cutoff_latched

-----------------------------------------------------------------------------

NoZero == [n |-> 0, of |-> 0]
ZeroValid(z) == z.n = ZeroSamples

\* A snapshot whose age is over Fresh is out of date.  Of history: whether the
\* sensor has been restarted since it was read, and the generation of its loop.
NoData == [zero |-> 0, speed |-> FALSE, age |-> Fresh + 1, old |-> FALSE,
           generation |-> 0]

Init ==
    /\ mission = CR
    /\ command = [start |-> FALSE, calibration |-> FALSE, over |-> FALSE]
    /\ attempt = 0 /\ active = FALSE
    /\ inertial = 0
    /\ air = [at |-> "look", state |-> CR, generation |-> 0]
    /\ zero = NoZero
    /\ \E up \in BOOLEAN :
          sensor = [up |-> up, well |-> TRUE, ready |-> up, faults |-> 0, upsets |-> 0]
    /\ snapshot = NoData
    /\ queue = {}
    /\ rt = [at |-> "command", latest |-> NoData]

-----------------------------------------------------------------------------
\* missionRealtimeTask: the commands, any number in a loop.

\* A Start is accepted when no other command is pending.
StartAccepted == mission = CR /\ ~command.start /\ ~command.calibration

\* The readiness snapshot: what is calibrated when the Start is taken up.
Readiness == {inertial, rt.latest.zero}

RequestStart ==
    /\ rt.at = "command" /\ StartAccepted
    /\ command' = [command EXCEPT !.start = TRUE]
    /\ UNCHANGED <<mission, attempt, active, inertial, air, zero, sensor, snapshot,
                   queue, rt>>

\* The parachute has been prepared, or could not be, or the Start is refused.
StartAnswered(succeeds) ==
    /\ rt.at = "command" /\ command.start
    /\ command' = [command EXCEPT !.start = FALSE]
    /\ mission' = IF succeeds THEN LD ELSE mission
    /\ UNCHANGED <<attempt, active, inertial, air, zero, sensor, snapshot, queue, rt>>

\* A calibration is accepted beside a Start that is being prepared.  What the
\* attempt before has measured is no longer valid.
Forgotten == 0

Calibrate ==
    /\ rt.at = "command" /\ mission = CR /\ ~command.calibration
    /\ attempt < MaxAttempts
    /\ command' = [command EXCEPT !.calibration = TRUE, !.over = FALSE]
    /\ inertial' = Forgotten
    /\ rt' = [rt EXCEPT !.latest.zero = 0, !.latest.speed = FALSE]
    /\ attempt' = attempt + 1 /\ active' = TRUE
    /\ UNCHANGED <<mission, air, zero, sensor, snapshot, queue>>

\* After 3 s: what had enough samples is valid if it is plausible, else it keeps what
\* it had.  The calibration stays pending while executor_mutex is taken, and
\* is evaluated again.  3 s are over a thousand periods of airDataTask, so that a
\* snapshot of a loop that has seen the attempt has come (command.over).
EndCalibration(locked) ==
    /\ rt.at = "command" /\ command.calibration /\ command.over
    /\ active \/ locked
    /\ active' = FALSE
    /\ command' = [command EXCEPT !.calibration = ~locked]
    /\ inertial' \in {inertial, 0, attempt}
    /\ UNCHANGED <<mission, attempt, air, zero, sensor, snapshot, queue, rt>>

\* cancelSequence: the board is on the ground again.
CancelSequence ==
    /\ rt.at = "command" /\ mission = LD
    /\ mission' = CR
    /\ UNCHANGED <<command, attempt, active, inertial, air, zero, sensor, snapshot,
                   queue, rt>>

-----------------------------------------------------------------------------
\* missionRealtimeTask: the snapshot, then the tick.

Receive ==
    /\ rt.at = "command"
    /\ rt' = [at |-> "tick",
              latest |-> IF queue = {} THEN rt.latest ELSE CHOOSE s \in queue : TRUE]
    /\ queue' = {}
    /\ command' = [command EXCEPT
                     !.over = @ \/ \E s \in queue : s.generation = attempt]
    /\ UNCHANGED <<mission, attempt, active, inertial, air, zero, sensor, snapshot>>

AirspeedAvailable == sensor.ready /\ rt.latest.age <= Fresh /\ rt.latest.speed

\* The cut-off comes with a tick.
Tick ==
    /\ rt.at = "tick"
    /\ rt' = [rt EXCEPT !.at = "command"]
    /\ mission' \in {mission} \cup (IF mission = LD THEN {CutOff} ELSE {})
    /\ UNCHANGED <<command, attempt, active, inertial, air, zero, sensor, snapshot,
                   queue>>

-----------------------------------------------------------------------------
\* airDataTask.

\* The loop sees that a new attempt is active, and takes the zero again.
NewGeneration == active /\ attempt # air.generation

\* updateMissionSnapshot: back on the ground the zero is no longer valid.
BackOnGround(locked) == locked /\ mission = CR /\ air.state # CR

MutForgetsZero(locked) == BackOnGround(locked)
ForgetsZero(locked) == NewGeneration \/ BackOnGround(locked)

Seen(locked, at) ==
    [at |-> at, state |-> IF locked THEN mission ELSE air.state,
     generation |-> IF NewGeneration THEN attempt ELSE air.generation]

\* Time passes for every copy of the air data.
Older(s) == [s EXCEPT !.age = IF @ > Fresh THEN @ ELSE @ + 1]

\* attemptSscReconnect, when its interval is over and the power is not cut off: end,
\* then begin.  Until it has been read the sensor is not in service.
MayBegin(due, state) == due /\ state # CutOff

MutBegun(s, begins) ==
    [s EXCEPT !.up = begins, !.well = @ \/ begins, !.ready = begins,
              !.faults = IF begins THEN 0 ELSE @]
Begun(s, begins) ==
    [s EXCEPT !.up = begins, !.well = @ \/ begins, !.ready = FALSE,
              !.faults = IF begins THEN 0 ELSE @]

\* The sensor is due: a look at the calibration and the state, and a sensor that is
\* not initialized is begun again.
Look(locked, due, begins) ==
    /\ air.at = "look"
    /\ air' = Seen(locked, "read")
    /\ zero' = IF ForgetsZero(locked) THEN NoZero ELSE zero
    /\ snapshot' = IF ForgetsZero(locked)
                   THEN [Older(snapshot) EXCEPT !.zero = 0, !.speed = FALSE]
                   ELSE Older(snapshot)
    /\ sensor' = IF ~sensor.up /\ MayBegin(due, air'.state)
                 THEN Begun(sensor, begins) ELSE sensor
    /\ queue' = {Older(s) : s \in queue}
    /\ rt' = [rt EXCEPT !.latest = Older(@)]
    /\ UNCHANGED <<mission, command, attempt, active, inertial>>

\* What a reading may bring: a sensor that is well answers, or has no new data yet.
Readings == CASE ~sensor.up -> {"none"}
              [] sensor.up /\ sensor.well -> {"ok", "stale"}
              [] OTHER -> {"fault"}

\* Only a sample of the attempt that has been seen counts, until the zero is valid.
Captures == active /\ air.generation # 0 /\ attempt = air.generation
Zeroed ==
    IF Captures /\ ~ZeroValid(zero)
    THEN [n |-> zero.n + 1, of |-> IF zero.n = 0 THEN air.generation ELSE zero.of]
    ELSE zero

ReadOk(good) ==
    /\ air.at = "read" /\ "ok" \in Readings
    /\ zero' = Zeroed
    /\ sensor' = [sensor EXCEPT !.ready = TRUE, !.faults = 0]
    /\ snapshot' = [snapshot EXCEPT
                      !.zero = IF ZeroValid(zero') THEN zero'.of ELSE 0,
                      !.speed = ZeroValid(zero') /\ good, !.age = 0, !.old = FALSE]
    /\ air' = [air EXCEPT !.at = "publish"]
    /\ UNCHANGED <<mission, command, attempt, active, inertial, queue, rt>>

\* No new data is an answer: it ends a row of faults.
ReadStale ==
    /\ air.at = "read" /\ "stale" \in Readings
    /\ sensor' = [sensor EXCEPT !.faults = 0]
    /\ air' = [air EXCEPT !.at = "publish"]
    /\ UNCHANGED <<mission, command, attempt, active, inertial, zero, snapshot, queue,
                   rt>>

Faulted == [sensor EXCEPT !.faults = IF @ < RestartFaults THEN @ + 1 ELSE @]
RestartWanted == Faulted.faults = RestartFaults

MutRestarted(due, begins) == [Faulted EXCEPT !.ready = FALSE]
Restarted(due, begins) ==
    IF MayBegin(due, air.state) THEN Begun(Faulted, begins)
    ELSE [Faulted EXCEPT !.ready = FALSE]

\* Too many faults in a row: out of service, and restarted when it may be.  Every
\* copy of the air data is now from before the restart.
ReadFault(due, begins) ==
    /\ air.at = "read" /\ "fault" \in Readings
    /\ sensor' = IF RestartWanted THEN Restarted(due, begins) ELSE Faulted
    /\ LET restarts == RestartWanted /\ MayBegin(due, air.state)
           Marked(s) == [s EXCEPT !.old = @ \/ (restarts /\ s.speed)]
       IN /\ snapshot' = Marked(snapshot)
          /\ queue' = {Marked(s) : s \in queue}
          /\ rt' = [rt EXCEPT !.latest = Marked(@)]
    /\ air' = [air EXCEPT !.at = "publish"]
    /\ UNCHANGED <<mission, command, attempt, active, inertial, zero>>

ReadNothing ==
    /\ air.at = "read" /\ "none" \in Readings
    /\ sensor' = [sensor EXCEPT !.ready = FALSE]
    /\ air' = [air EXCEPT !.at = "publish"]
    /\ UNCHANGED <<mission, command, attempt, active, inertial, zero, snapshot, queue,
                   rt>>

\* xQueueOverwrite.  The pressure that is read in between publishes the same again.
Publish ==
    /\ air.at = "publish"
    /\ queue' = {[snapshot EXCEPT !.generation = air.generation]}
    /\ air' = [air EXCEPT !.at = "look"]
    /\ UNCHANGED <<mission, command, attempt, active, inertial, zero, sensor, snapshot,
                   rt>>

\* The world: the sensor answers with errors until it is begun again.
Upset ==
    /\ sensor.up /\ sensor.well /\ sensor.upsets < Upsets
    /\ sensor' = [sensor EXCEPT !.well = FALSE, !.upsets = @ + 1]
    /\ UNCHANGED <<mission, command, attempt, active, inertial, air, zero, snapshot,
                   queue, rt>>

-----------------------------------------------------------------------------

Realtime ==
    \/ RequestStart \/ Calibrate \/ CancelSequence \/ Receive \/ Tick
    \/ \E succeeds \in BOOLEAN : StartAnswered(succeeds)
    \/ \E locked \in BOOLEAN : EndCalibration(locked)

Read ==
    \/ \E good \in BOOLEAN : ReadOk(good)
    \/ ReadStale \/ ReadNothing
    \/ \E due, begins \in BOOLEAN : ReadFault(due, begins)

AirDataTask ==
    \/ \E locked, due, begins \in BOOLEAN : Look(locked, due, begins)
    \/ Read
    \/ Publish

Next == Realtime \/ AirDataTask \/ Upset

\* airDataTask is scheduled; the interval between two attempts to begin the sensor
\* ends (kSscReconnectIntervalMs), and one of many attempts succeeds, the bus having
\* begun; a sensor that is well has new data at times.
Fairness ==
    /\ WF_vars(AirDataTask)
    /\ SF_vars(\E locked \in BOOLEAN : ~sensor.up /\ Look(locked, TRUE, TRUE))
    /\ SF_vars(RestartWanted /\ ReadFault(TRUE, TRUE))
    /\ SF_vars(\E good \in BOOLEAN : ReadOk(good))

Spec == Init /\ [][Next]_vars /\ Fairness

-----------------------------------------------------------------------------

\* Every component has its type: the task's places, counters within their limits.
AirDataTypeOK ==
    /\ mission \in {CR, LD, CutOff}
    /\ attempt \in 0..MaxAttempts /\ active \in BOOLEAN
    /\ air.at \in {"look", "read", "publish"} /\ air.generation \in 0..attempt
    /\ zero.n \in 0..ZeroSamples /\ zero.of \in 0..attempt
    /\ sensor.faults \in 0..RestartFaults

\* The readiness a Start is taken up with is of the last calibration attempt: gyro
\* bias, gravity and pitot zero are each invalid or made of samples of that attempt
\* only, though the zero is counted by another task and comes through a queue that
\* may still hold a snapshot of the attempt before (missionRealtimeTask,
\* airDataTask, DifferentialPressureConditioner).
ReadinessIsOfLastAttempt ==
    [][command'.start /\ ~command.start => Readiness \subseteq {0, attempt}]_vars

\* After the sensor has been restarted no speed that was read before the restart
\* authorises the fins, in whichever copy it waits: the snapshot, the queue, or
\* latest_air_data (attemptSscReconnect: "do not reconnect an old airspeed to
\* Control").
AirspeedIsReadAgain ==
    AirDataTypeOK /\ (rt.at = "tick" /\ AirspeedAvailable => ~rt.latest.old)

\* A sensor that is out of service is in service again, unless the power is cut off:
\* neither the count of faults nor the interval between attempts leaves it out for
\* good (recordSscRead, attemptSscReconnect).
SensorComesBack == ~sensor.ready ~> sensor.ready \/ air.state = CutOff

\* What the documents say of the zero: once the board has left the ground it is not
\* taken again.  The code takes it in LiftoffDetection when a calibration was
\* accepted beside the Start.
ZeroIsFrozen == [][zero' # zero => mission = CR]_vars
=============================================================================
