--------------------------- MODULE AirDataProofs ---------------------------
(***************************************************************************)
(* Proofs about the air data, for every number of attempts and of samples, *)
(* and every row of faults that is no shorter than a speed is fresh.       *)
(*                                                                         *)
(* Two arguments, one for each property of the run.  A copy of the air     *)
(* data grows older with every fault of a row, so that it is out of date   *)
(* when the sensor that was restarted in the meantime is in service again: *)
(* CopiesGrowOld.  And what is published is of the generation it carries,  *)
(* so that once a snapshot of the attempt has come nothing of the attempt  *)
(* before is left on the way: AttemptsAreApart.                            *)
(***************************************************************************)
EXTENDS AirData, TLAPS

Snapshots ==
    [zero : Nat, speed : BOOLEAN, age : 0..Fresh + 1, old : BOOLEAN, generation : Nat]
Missions == {CR, LD, CutOff}
Commands == [start : BOOLEAN, calibration : BOOLEAN, over : BOOLEAN]
Looks    == [at : {"look", "read", "publish"}, state : Missions, generation : Nat]
Zeros    == [n : 0..ZeroSamples, of : Nat]
SensorsOf(flags, faults, upsets) ==
    [up : flags, well : flags, ready : flags, faults : faults, upsets : upsets]
Sensors  == SensorsOf(BOOLEAN, 0..RestartFaults, Nat)

TypesOK ==
    /\ mission \in Missions
    /\ command \in Commands
    /\ attempt \in 0..MaxAttempts /\ active \in BOOLEAN
    /\ air \in Looks
    /\ zero \in Zeros
    /\ sensor \in Sensors
    /\ snapshot \in Snapshots
    /\ queue \subseteq Snapshots /\ \A s, t \in queue : s = t
    /\ rt \in [at : {"command", "tick"}, latest : Snapshots]

\* A copy is as old as the faults in a row, and a copy from before a restart is
\* out of date as soon as the sensor may be read well again.
Aged(s) ==
    /\ s.age <= Fresh =>
         s.age >= sensor.faults + (IF air.at = "read" THEN 1 ELSE 0)
    /\ s.old => s.age >= Fresh
    /\ s.old /\ (sensor.ready \/ air.at = "read") => s.age > Fresh
CopiesGrowOld == Aged(snapshot) /\ Aged(rt.latest) /\ \A s \in queue : Aged(s)

\* Where the last attempt is the only one there is anything of.
Settled ==
    /\ air.generation = attempt
    /\ \A s \in queue : s.generation = attempt
    /\ rt.latest.zero \in {0, attempt}
AttemptsAreApart ==
    /\ inertial \in {0, attempt}
    /\ air.generation <= attempt
    /\ zero.of \in {0, air.generation}
    /\ snapshot.zero \in {0, air.generation}
    /\ \A s \in queue : s.zero \in {0, s.generation} /\ s.generation <= air.generation
    /\ (command.calibration => command.over) => Settled

IInv == TypesOK /\ CopiesGrowOld /\ AttemptsAreApart

USE DEF CR, LD, CutOff

LEMMA Bounds ==
    /\ MaxAttempts \in Nat /\ ZeroSamples \in Nat \ {0} /\ RestartFaults \in Nat
    /\ Fresh \in Nat /\ Upsets \in Nat /\ Fresh <= RestartFaults
BY AirDataAssumption, RestartAssumption

USE Bounds

\* What the helpers of airDataTask return.
LEMMA OlderType ==
    ASSUME NEW s \in Snapshots
    PROVE  Older(s) \in Snapshots
BY DEF Older, Snapshots

LEMMA FaultedType ==
    ASSUME sensor \in Sensors
    PROVE  Faulted \in Sensors
BY DEF Faulted, Sensors, SensorsOf

LEMMA SensorUpdate ==
    ASSUME NEW B, NEW F, NEW N, NEW s \in SensorsOf(B, F, N),
           NEW up \in B, NEW well \in B, NEW ready \in B, NEW faults \in F, NEW upsets \in N
    PROVE  /\ [s EXCEPT !.up = up, !.well = well, !.ready = ready, !.faults = faults]
                \in SensorsOf(B, F, N)
           /\ [s EXCEPT !.ready = ready, !.faults = faults] \in SensorsOf(B, F, N)
           /\ [s EXCEPT !.well = well, !.upsets = upsets] \in SensorsOf(B, F, N)
BY DEF SensorsOf

LEMMA BegunType ==
    ASSUME NEW s \in Sensors, NEW begins \in BOOLEAN
    PROVE  Begun(s, begins) \in Sensors
<1> DEFINE w == s.well \/ begins
           f == IF begins THEN 0 ELSE s.faults
<1>1. f \in 0..RestartFaults /\ s.upsets \in Nat /\ s.well \in BOOLEAN
  BY DEF Sensors, SensorsOf
<1>2. w \in BOOLEAN
  BY <1>1
<1>3. [s EXCEPT !.up = begins, !.well = w, !.ready = FALSE, !.faults = f] \in Sensors
  <2>1. FALSE \in BOOLEAN
    OBVIOUS
  <2> HIDE DEF w, f
  <2> QED BY <1>1, <1>2, <2>1, SensorUpdate DEF Sensors
<1>4. Begun(s, begins) = [s EXCEPT !.up = begins, !.well = w, !.ready = FALSE, !.faults = f]
  BY DEF Begun
<1> QED BY <1>3, <1>4

-----------------------------------------------------------------------------
\* Every action preserves the invariant.

LEMMA RequestStartStep ==
    ASSUME IInv, RequestStart
    PROVE  IInv'
<1> USE DEF IInv
<1>1. command' \in Commands
  BY DEF TypesOK, Commands, RequestStart
<1>2. TypesOK'
  BY <1>1 DEF TypesOK, RequestStart
<1>3. CopiesGrowOld'
  BY DEF TypesOK, Snapshots, Looks, Sensors, SensorsOf, CopiesGrowOld, Aged,
     RequestStart, StartAccepted
<1>4. AttemptsAreApart'
  BY DEF TypesOK, Snapshots, Looks, Zeros, Commands, AttemptsAreApart, Settled,
     RequestStart, StartAccepted
<1> QED BY <1>2, <1>3, <1>4

LEMMA StartAnsweredStep ==
    ASSUME IInv, NEW succeeds \in BOOLEAN, StartAnswered(succeeds)
    PROVE  IInv'
<1> USE DEF IInv
<1>1. command' \in Commands
  BY DEF TypesOK, Commands, StartAnswered
<1>2. mission' \in Missions
  BY DEF TypesOK, Missions, StartAnswered
<1>3. TypesOK'
  BY <1>1, <1>2 DEF TypesOK, StartAnswered
<1>4. CopiesGrowOld'
  BY DEF TypesOK, Snapshots, Looks, Sensors, SensorsOf, CopiesGrowOld, Aged,
     StartAnswered
<1>5. AttemptsAreApart'
  BY DEF TypesOK, Snapshots, Looks, Zeros, Commands, AttemptsAreApart, Settled,
     StartAnswered
<1> QED BY <1>3, <1>4, <1>5

LEMMA CalibrateStep ==
    ASSUME IInv, Calibrate
    PROVE  IInv'
<1> USE DEF IInv
<1>1. command' \in Commands
  BY DEF TypesOK, Commands, Calibrate
<1>2. rt' \in [at : {"command", "tick"}, latest : Snapshots]
  BY DEF TypesOK, Snapshots, Calibrate
<1>3. attempt' \in 0..MaxAttempts /\ active' \in BOOLEAN
  BY DEF TypesOK, Calibrate
<1>4. TypesOK'
  BY <1>1, <1>2, <1>3 DEF TypesOK, Calibrate
<1>5. CopiesGrowOld'
  BY DEF TypesOK, Snapshots, Looks, Sensors, SensorsOf, CopiesGrowOld, Aged,
     Calibrate, Forgotten
<1>6. AttemptsAreApart'
  BY DEF TypesOK, Snapshots, Looks, Zeros, Commands, AttemptsAreApart, Settled,
     Calibrate, Forgotten
<1> QED BY <1>4, <1>5, <1>6

LEMMA EndCalibrationStep ==
    ASSUME IInv, NEW locked \in BOOLEAN, EndCalibration(locked)
    PROVE  IInv'
<1> USE DEF IInv
<1>1. command' \in Commands
  BY DEF TypesOK, Commands, EndCalibration
<1>2. active' \in BOOLEAN
  BY DEF TypesOK, EndCalibration
<1>3. TypesOK'
  BY <1>1, <1>2 DEF TypesOK, EndCalibration
<1>4. CopiesGrowOld'
  BY DEF TypesOK, Snapshots, Looks, Sensors, SensorsOf, CopiesGrowOld, Aged,
     EndCalibration
<1>5. AttemptsAreApart'
  BY DEF TypesOK, Snapshots, Looks, Zeros, Commands, AttemptsAreApart, Settled,
     EndCalibration
<1> QED BY <1>3, <1>4, <1>5

LEMMA CancelSequenceStep ==
    ASSUME IInv, CancelSequence
    PROVE  IInv'
<1> USE DEF IInv
<1>1. mission' \in Missions
  BY DEF TypesOK, Missions, CancelSequence
<1>2. TypesOK'
  BY <1>1 DEF TypesOK, CancelSequence
<1>3. CopiesGrowOld'
  BY DEF TypesOK, Snapshots, Looks, Sensors, SensorsOf, CopiesGrowOld, Aged,
     CancelSequence
<1>4. AttemptsAreApart'
  BY DEF TypesOK, Snapshots, Looks, Zeros, Commands, AttemptsAreApart, Settled,
     CancelSequence
<1> QED BY <1>2, <1>3, <1>4

LEMMA ReceiveStep ==
    ASSUME IInv, Receive
    PROVE  IInv'
<1> USE DEF IInv
<1>1. command' \in Commands
  BY DEF TypesOK, Commands, Receive
<1>2. rt' \in [at : {"command", "tick"}, latest : Snapshots]
  BY DEF TypesOK, Receive
<1>3. queue' = {}
  BY DEF TypesOK, Receive
<1>4. TypesOK'
  BY <1>1, <1>2, <1>3 DEF TypesOK, Receive
<1>5. CopiesGrowOld'
  BY DEF TypesOK, Snapshots, Looks, Sensors, SensorsOf, CopiesGrowOld, Aged,
     Receive
<1>6. AttemptsAreApart'
  BY DEF TypesOK, Snapshots, Looks, Zeros, Commands, AttemptsAreApart, Settled,
     Receive
<1> QED BY <1>4, <1>5, <1>6

LEMMA TickStep ==
    ASSUME IInv, Tick
    PROVE  IInv'
<1> USE DEF IInv
<1>1. mission' \in Missions
  BY DEF TypesOK, Missions, Tick
<1>2. rt' \in [at : {"command", "tick"}, latest : Snapshots]
  BY DEF TypesOK, Tick
<1>3. TypesOK'
  BY <1>1, <1>2 DEF TypesOK, Tick
<1>4. CopiesGrowOld'
  BY DEF TypesOK, Snapshots, Looks, Sensors, SensorsOf, CopiesGrowOld, Aged,
     Tick
<1>5. AttemptsAreApart'
  BY DEF TypesOK, Snapshots, Looks, Zeros, Commands, AttemptsAreApart, Settled,
     Tick
<1> QED BY <1>3, <1>4, <1>5

LEMMA LookStep ==
    ASSUME IInv, NEW locked \in BOOLEAN, NEW due \in BOOLEAN, NEW begins \in BOOLEAN,
           Look(locked, due, begins)
    PROVE  IInv'
<1> USE DEF IInv
<1>1. air' \in Looks
  BY DEF TypesOK, Looks, Missions, Look, Seen
<1>2. zero' \in Zeros
  BY DEF TypesOK, Zeros, NoZero, Look
<1>3. snapshot' \in Snapshots
  <2>1. Older(snapshot) \in Snapshots
    BY OlderType DEF TypesOK
  <2>2. [Older(snapshot) EXCEPT !.zero = 0, !.speed = FALSE] \in Snapshots
    BY <2>1 DEF Snapshots
  <2> QED BY <2>1, <2>2 DEF Look
<1>4. sensor' \in Sensors
  BY BegunType DEF TypesOK, Look
<1>5. queue' \subseteq Snapshots /\ \A s, t \in queue' : s = t
  BY DEF TypesOK, Snapshots, Older, Look
<1>6. rt' \in [at : {"command", "tick"}, latest : Snapshots]
  BY DEF TypesOK, Snapshots, Older, Look
<1>7. TypesOK'
  BY <1>1, <1>2, <1>3, <1>4, <1>5, <1>6 DEF TypesOK, Look
<1>8. CopiesGrowOld'
  BY DEF TypesOK, Snapshots, Looks, Sensors, SensorsOf, CopiesGrowOld, Aged,
     Look, ForgetsZero, NewGeneration, BackOnGround, Seen, Older, MayBegin, Begun, NoZero
<1>9. AttemptsAreApart'
  BY DEF TypesOK, Snapshots, Looks, Zeros, Commands, AttemptsAreApart, Settled,
     Look, ForgetsZero, NewGeneration, BackOnGround, Seen, Older, MayBegin, Begun, NoZero
<1> QED BY <1>7, <1>8, <1>9

LEMMA ReadOkStep ==
    ASSUME IInv, NEW good \in BOOLEAN, ReadOk(good)
    PROVE  IInv'
<1> USE DEF IInv
<1>1. air' \in Looks
  BY DEF TypesOK, Looks, ReadOk
<1>2. zero' \in Zeros
  BY DEF TypesOK, Zeros, Looks, Zeroed, Captures, ZeroValid, ReadOk
<1>3. snapshot' \in Snapshots
  <2> DEFINE z == IF ZeroValid(zero') THEN zero'.of ELSE 0
             v == ZeroValid(zero') /\ good
             t == [snapshot EXCEPT !.zero = z, !.speed = v]
             u == [t EXCEPT !.age = 0]
  <2>1. z \in Nat
    BY <1>2 DEF Zeros
  <2>2. v \in BOOLEAN
    BY DEF ZeroValid
  <2>3. t \in Snapshots
    <3> HIDE DEF z, v
    <3> QED BY <2>1, <2>2 DEF TypesOK, Snapshots
  <2>4. u \in Snapshots
    <3> HIDE DEF t
    <3> QED BY <2>3 DEF Snapshots
  <2>5. [u EXCEPT !.old = FALSE] \in Snapshots
    <3> HIDE DEF u
    <3> QED BY <2>4 DEF Snapshots
  <2>6. snapshot' = [u EXCEPT !.old = FALSE]
    BY DEF ReadOk
  <2> QED BY <2>5, <2>6
<1>4. sensor' \in Sensors
  <2>1. TRUE \in BOOLEAN /\ 0 \in 0..RestartFaults /\ sensor \in Sensors
    BY DEF TypesOK
  <2>2. sensor.up \in BOOLEAN /\ sensor.upsets \in Nat
    BY <2>1 DEF Sensors, SensorsOf
  <2>3. sensor' = [sensor EXCEPT !.ready = TRUE, !.faults = 0]
    BY DEF ReadOk
  <2> QED BY <2>1, <2>2, <2>3, SensorUpdate DEF Sensors
<1>5. TypesOK'
  BY <1>1, <1>2, <1>3, <1>4 DEF TypesOK, ReadOk
<1>6. CopiesGrowOld'
  BY DEF TypesOK, Snapshots, Looks, Sensors, SensorsOf, CopiesGrowOld, Aged,
     ReadOk, Readings, Zeroed, Captures, ZeroValid
<1>7. AttemptsAreApart'
  BY DEF TypesOK, Snapshots, Looks, Zeros, Commands, AttemptsAreApart, Settled,
     ReadOk, Readings, Zeroed, Captures, ZeroValid
<1> QED BY <1>5, <1>6, <1>7

LEMMA ReadStaleStep ==
    ASSUME IInv, ReadStale
    PROVE  IInv'
<1> USE DEF IInv
<1>1. air' \in Looks
  BY DEF TypesOK, Looks, ReadStale
<1>2. sensor' \in Sensors
  BY DEF TypesOK, Sensors, SensorsOf, ReadStale
<1>3. TypesOK'
  BY <1>1, <1>2 DEF TypesOK, ReadStale
<1>4. CopiesGrowOld'
  BY DEF TypesOK, Snapshots, Looks, Sensors, SensorsOf, CopiesGrowOld, Aged,
     ReadStale, Readings
<1>5. AttemptsAreApart'
  BY DEF TypesOK, Snapshots, Looks, Zeros, Commands, AttemptsAreApart, Settled,
     ReadStale, Readings
<1> QED BY <1>3, <1>4, <1>5

LEMMA ReadFaultStep ==
    ASSUME IInv, NEW due \in BOOLEAN, NEW begins \in BOOLEAN, ReadFault(due, begins)
    PROVE  IInv'
<1> USE DEF IInv
<1>1. air' \in Looks
  BY DEF TypesOK, Looks, ReadFault
<1>2. sensor' \in Sensors
  <2>1. Faulted \in Sensors
    BY FaultedType DEF TypesOK
  <2>2. [Faulted EXCEPT !.ready = FALSE] \in Sensors
    BY <2>1 DEF Sensors, SensorsOf
  <2>3. Restarted(due, begins) \in Sensors
    BY <2>1, <2>2, BegunType DEF Restarted
  <2> QED BY <2>1, <2>3 DEF ReadFault
<1>3. snapshot' \in Snapshots
  BY DEF TypesOK, Snapshots, ReadFault
<1>4. queue' \subseteq Snapshots /\ \A s, t \in queue' : s = t
  BY DEF TypesOK, Snapshots, ReadFault
<1>5. rt' \in [at : {"command", "tick"}, latest : Snapshots]
  BY DEF TypesOK, Snapshots, ReadFault
<1>6. TypesOK'
  BY <1>1, <1>2, <1>3, <1>4, <1>5 DEF TypesOK, ReadFault
<1>7. CopiesGrowOld'
  BY DEF TypesOK, Snapshots, Looks, Sensors, SensorsOf, CopiesGrowOld, Aged,
     ReadFault, Readings, Faulted, RestartWanted, Restarted, MayBegin, Begun
<1>8. AttemptsAreApart'
  BY DEF TypesOK, Snapshots, Looks, Zeros, Commands, AttemptsAreApart, Settled,
     ReadFault, Readings, Faulted, RestartWanted, Restarted, MayBegin, Begun
<1> QED BY <1>6, <1>7, <1>8

LEMMA ReadNothingStep ==
    ASSUME IInv, ReadNothing
    PROVE  IInv'
<1> USE DEF IInv
<1>1. air' \in Looks
  BY DEF TypesOK, Looks, ReadNothing
<1>2. sensor' \in Sensors
  BY DEF TypesOK, Sensors, SensorsOf, ReadNothing
<1>3. TypesOK'
  BY <1>1, <1>2 DEF TypesOK, ReadNothing
<1>4. CopiesGrowOld'
  BY DEF TypesOK, Snapshots, Looks, Sensors, SensorsOf, CopiesGrowOld, Aged,
     ReadNothing, Readings
<1>5. AttemptsAreApart'
  BY DEF TypesOK, Snapshots, Looks, Zeros, Commands, AttemptsAreApart, Settled,
     ReadNothing, Readings
<1> QED BY <1>3, <1>4, <1>5

LEMMA PublishStep ==
    ASSUME IInv, Publish
    PROVE  IInv'
<1> USE DEF IInv
<1>1. air' \in Looks
  BY DEF TypesOK, Looks, Publish
<1>2. queue' \subseteq Snapshots /\ \A s, t \in queue' : s = t
  BY DEF TypesOK, Snapshots, Looks, Publish
<1>3. TypesOK'
  BY <1>1, <1>2 DEF TypesOK, Publish
<1>4. CopiesGrowOld'
  BY DEF TypesOK, Snapshots, Looks, Sensors, SensorsOf, CopiesGrowOld, Aged,
     Publish
<1>5. AttemptsAreApart'
  BY DEF TypesOK, Snapshots, Looks, Zeros, Commands, AttemptsAreApart, Settled,
     Publish
<1> QED BY <1>3, <1>4, <1>5

LEMMA UpsetStep ==
    ASSUME IInv, Upset
    PROVE  IInv'
<1> USE DEF IInv
<1>1. sensor' \in Sensors
  <2>1. sensor \in Sensors /\ FALSE \in BOOLEAN /\ 0 \in 0..RestartFaults
    BY DEF TypesOK
  <2>2. sensor.upsets + 1 \in Nat
    BY <2>1 DEF Sensors, SensorsOf
  <2>3. sensor' = [sensor EXCEPT !.well = FALSE, !.upsets = sensor.upsets + 1]
    BY DEF Upset
  <2> QED BY <2>1, <2>2, <2>3, SensorUpdate DEF Sensors
<1>2. TypesOK'
  BY <1>1 DEF TypesOK, Upset
<1>3. CopiesGrowOld'
  BY DEF TypesOK, Snapshots, Looks, Sensors, SensorsOf, CopiesGrowOld, Aged,
     Upset
<1>4. AttemptsAreApart'
  BY DEF TypesOK, Snapshots, Looks, Zeros, Commands, AttemptsAreApart, Settled,
     Upset
<1> QED BY <1>2, <1>3, <1>4

LEMMA InitIInv == Init => IInv
<1> SUFFICES ASSUME Init PROVE IInv
  OBVIOUS
<1>1. NoData \in Snapshots
  BY DEF NoData, Snapshots
<1>2. sensor \in Sensors
  BY DEF Init, Sensors, SensorsOf
<1>3. zero \in Zeros /\ air \in Looks /\ command \in Commands
  BY DEF Init, NoZero, Zeros, Looks, Missions, Commands
<1>4. TypesOK
  <2>1. rt \in [at : {"command", "tick"}, latest : Snapshots] /\ snapshot \in Snapshots
    BY <1>1 DEF Init
  <2>2. mission \in Missions /\ attempt \in 0..MaxAttempts
    BY DEF Init, Missions
  <2>3. queue = {} /\ active = FALSE
    BY DEF Init
  <2> QED BY <1>2, <1>3, <2>1, <2>2, <2>3 DEF TypesOK
<1>5. CopiesGrowOld
  BY <1>4 DEF Init, NoData, CopiesGrowOld, Aged, TypesOK, Sensors, SensorsOf
<1>6. AttemptsAreApart
  BY DEF Init, NoData, NoZero, AttemptsAreApart, Settled
<1> QED BY <1>4, <1>5, <1>6 DEF IInv

LEMMA NextIInv == IInv /\ [Next]_vars => IInv'
<1> SUFFICES ASSUME IInv, [Next]_vars
             PROVE  IInv'
  OBVIOUS
<1>1. CASE Realtime
  BY <1>1, RequestStartStep, CalibrateStep, CancelSequenceStep, ReceiveStep, TickStep,
     StartAnsweredStep, EndCalibrationStep DEF Realtime
<1>2. CASE AirDataTask
  <2>1. CASE Read
    BY <2>1, ReadOkStep, ReadStaleStep, ReadNothingStep, ReadFaultStep DEF Read
  <2> QED BY <1>2, <2>1, LookStep, PublishStep DEF AirDataTask
<1>3. CASE Upset
  BY <1>3, UpsetStep
<1>4. CASE UNCHANGED vars
  BY <1>4 DEF vars, IInv, TypesOK, CopiesGrowOld, Aged, AttemptsAreApart, Settled
<1> QED BY <1>1, <1>2, <1>3, <1>4 DEF Next

LEMMA IInvHolds == Spec => []IInv
BY InitIInv, NextIInv, PTL DEF Spec

-----------------------------------------------------------------------------
\* After attemptSscReconnect no speed from before the restart authorises the fins,
\* however many faults are a row: a copy grows older with each of them, and once
\* more before the sensor can be in service again.
THEOREM AirspeedTheorem == Spec => []AirspeedIsReadAgain
<1>1. IInv => AirspeedIsReadAgain
  <2> SUFFICES ASSUME IInv PROVE AirspeedIsReadAgain
    OBVIOUS
  <2>1. AirDataTypeOK
    BY DEF IInv, TypesOK, AttemptsAreApart, AirDataTypeOK, Missions, Looks, Zeros,
       Sensors, SensorsOf
  <2>2. AirspeedAvailable => ~rt.latest.old
    BY DEF IInv, TypesOK, CopiesGrowOld, Aged, AirspeedAvailable, Snapshots
  <2> QED BY <2>1, <2>2 DEF AirspeedIsReadAgain
<1> QED BY <1>1, IInvHolds, PTL

\* A Start is taken up with what the last calibration measured, or with what is not
\* valid: a calibration does not end before a snapshot of its own attempt has come
\* through air_data_queue, and airDataTask has then forgotten the attempt before.
THEOREM ReadinessTheorem == Spec => ReadinessIsOfLastAttempt
<1>1. IInv /\ [Next]_vars =>
        [command'.start /\ ~command.start => Readiness \subseteq {0, attempt}]_vars
  <2> SUFFICES ASSUME IInv, Next, command'.start, ~command.start
               PROVE  Readiness \subseteq {0, attempt}
    OBVIOUS
  <2>1. RequestStart
    BY DEF IInv, TypesOK, Commands, Next, Realtime, AirDataTask, Read, RequestStart,
       StartAnswered, Calibrate, EndCalibration, CancelSequence, Receive, Tick, Look,
       ReadOk, ReadStale, ReadFault, ReadNothing, Publish, Upset
  <2>2. ~command.calibration
    BY <2>1 DEF RequestStart, StartAccepted
  <2> QED BY <2>2 DEF IInv, AttemptsAreApart, Settled, Readiness
<1> QED BY <1>1, IInvHolds, PTL DEF Spec, ReadinessIsOfLastAttempt

=============================================================================
