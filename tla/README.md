# The C-99L Mission Board, specified

TLA+ specifications of the flight firmware in `src/` (an ESP32-S3 running
FreeRTOS tasks on two cores), the TLC runs that check them and the TLAPS proofs
about them. `PROJECT.json` maps every definition to the lines it models.

## 1. The system

The board flies a rocket: it waits for liftoff, controls the roll with fins,
opens the parachute and, 25 s after liftoff, cuts the power of the parachute
servo for good. Its production firmware is a set of tasks
(`src/src/runtime/task_architecture.hpp`), created unpinned, so that two of them
can run at the same instant:

| task (priority) | state it owns | what it does |
|---|---|---|
| safetyTask (22) | power of the parachute, its own copy of epoch, liftoff time, cutoff | serves power requests; asks for the deployment at 17 s, or at 10 s with the apex verdict; cuts the power at 25 s |
| parachuteTask (21) | the servo bus, the operation in progress, `opened_epoch` | takes open, hold and power-off requests, the manual moves and the start preparation |
| missionRealtimeTask (20) | `state_machine`, the fins, the pending Start, fin move and calibration | emergencies, start responses, transition commands, the tick, the checkpoint, dispatch of what the state asks for |
| airDataTask (18) | pressure and airspeed | feeds the detectors, publishes the apex verdict |
| canTask (16) | the CAN controller, sequence counters | telemetry, results, events; takes commands and emergencies |
| commandWorkerTask (14) | - | decides on each command with the executor and queues it for its owner |
| housekeepingTask (10) | ADC | voltages |
| internalFlashTask (8), sdLogTask (7) | flight log, NVS | storage, export, recovery entry |

They meet in `state_machine` and `command_executor` (each behind a mutex that
the real-time tasks take without waiting), in bounded queues, in atomics, and in
RTC memory, which alone survives a reset.

| component | state | operations | what makes it correct |
|---|---|---|---|
| mission state machine (`mission/mission_state.cpp`) | the snapshot: state, epoch, clock, deployment, cutoff, fins | start, cancel, disable fin control, liftoff emergency, tick, restore | deployment on time, never early, never undone; Control only when authorized; clock right across resets |
| flight checkpoint (`runtime/recovery_boot.cpp`) | one record in RTC memory | store, load, clear | the flight resumes as old as it is |
| fin overtravel guard (`control/fin_overtravel_guard.cpp`) | latch, last observation | observe, recover, clear | an overtravel ends Control |
| deployment chain (`runtime/production_runtime.cpp`) | queues, power, task locals | requests, moves, cutoff | one move per flight, carried out, power cut on time |
| command executor (`mission/command_executor.cpp`) | 16 cached transactions | begin, finish, emergency | each command once, one result each, no domain busy for ever |
| command pipeline (runtime) | command, transition, parachute-command, emergency, start-response queues | worker, transition, preparation, emergency stop | what is accepted ends; an emergency stop stops |
| recovery entry (`mission/recovery.cpp`, `runtime/recovery_*.cpp`) | NVS latch, RTC marker, readiness of the parts | request, prepare, sleep, wake, exit | no reset in flight ends it; the entry comes, and sleeps; every wake sleeps again |
| flight storage (`runtime/flight_storage.cpp`, `flight_log.cpp`) | queues, staging area in PSRAM, the file, loss counters | append, write, flush, read back | no silent loss, order kept, a flush that is whole |
| CAN task (`protocol/*`) | schedule, counters, queues | send, receive | results arrive in order |
| pitot sensor and preflight calibration (`sensors/airspeed_estimator.cpp`, airDataTask) | zero, window, faults in a row, the snapshot and its copies | read, restart, calibrate | nothing calibrated or read before authorises a flight or its fins |
| detectors (`sensors/*`) | histories, streak counters | update, reset per epoch | a verdict needs an unbroken streak of this epoch |
| estimators, control law, motor | filters | update | numeric; out of TLC's reach |
| bring-up shell (`bringup/*`) | bench commands | | bench only |
| motor campaign (`campaign_state_machine.cpp`, `characterization_main.cpp`) | assembly, runs accepted, session, handoff in NVS, cookie in RTC memory | the console's commands, resets | the motor is driven only as qualified, a stop stops it |
| profile run (`profile_runner.cpp`, `command_journal.cpp`, `encoder_sampler.cpp`, `fixed_epoch_assembler.cpp`) | ticks, samples per epoch, commands, the output | sample, release, apply, record, shut down | every record true, every error coasts, the run ends |
| run log (`log_writer_v5.cpp`, `log_format_v5.cpp`, `record_validation.cpp`) | ring, staging area, file | open, append, sync, finalize | an accepted run has a whole file |

What is hard here: the try-locks (a request or a tick is skipped when another
core holds the mutex for that instant), queues of four entries, a rollback that
starts a new flight while the tasks still hold copies of the old one, two tasks
asking for the same irreversible servo move, and a reset at any point, after
which RAM is gone and the flight is not. The bench firmware that characterizes
the motor (`characterization/*`, built instead of the flight firmware) has its
own: tasks of two priorities on one core that wait for each other, timers that
come late, a session that outlives power cycles. `PROJECT.json` lists each such hazard
at its line.

## 2. The modules

    MissionState         the state machine, its checkpoint, the overtravel guard
      MissionStateProofs   theorems about it
      MissionRefinement    it implements FlightSequence
      MCMissionState       the small instance TLC checks
    FlightSequence       what the deployment chain may rely on
      DeploymentChain      the three tasks around it, with liveness
        DeploymentChainProofs  theorems about it
    CommandExecutor      which commands are executed, and what repetitions get
      MCCommandExecutor      the small instance, and its history of repetitions
      CommandPipeline        the tasks that use it; it implements CommandExecutor
        CommandPipelineProofs  theorems about both
        MCCommandPipeline      the small instance
    Recovery             entry, latch and marker, Deep Sleep, wake, exit
      RecoveryProofs       theorem about it
      MCRecovery           the small instance
    FlightStorage        the flight log from the tick to the card and the ground
      FlightStorageProofs  theorems about it
    AirData              the pitot sensor and the preflight calibration
      AirDataProofs        theorems about it
    Campaign             the motor campaign: console, sessions, power cycles
    ProfileRun           one run of it, in time
      CampaignProofs       theorems about both
    LogWriter            the log of such a run
      LogWriterProofs      theorems about it

The last five components stand alone and are checked as they are: each has its constants set
in a `.cfg` of its own. What each takes from the others is named below.

**MissionState.** `m` is `MissionSnapshot`, field by field. An action is a method
call with what its caller does around it: `Start` and `Tick` also store the
checkpoint (`storeFlightCheckpoint`), `Cancel` and the liftoff emergency do not.
`Tick` is the composition of the blocks of `tick()` in their order
(`DetectLiftoff`, `AdvanceClock`, `StopOnOvertravel`, `Deploy`, `EvaluateGate`,
`StopControl`, `LatchCutoff`, `UpdateDirectives`). The sensors are inputs: every
combination of detector verdicts and fin state. `guard` is the overtravel guard.
`checkpoint` is the RTC record, stamped with `rtc`, a timer that resets do not
stop; `boot_at` is the instant of the last boot, so `Mono == rtc - boot_at` is
`esp_timer_get_time`. `Reset` clears everything but the checkpoint (and that too,
when the reset is a power-on or a Deep Sleep); `Boot` restores. `liftoff_at` is a
history variable, the true instant of liftoff. As `Cancel` leaves the checkpoint to
the next tick, a reset in between brings the cancelled flight back, in the model as
in the code; no property denies it, and all of them hold of such a flight too.

**FlightSequence** is the abstract flight: four phases, the clock, the cutoff,
the saved record. `MissionRefinement` maps MissionState to it (EngineBurn and
Control become one phase; fins, gate and readiness disappear) and
`ImplementsFlight` says that each step of the former is a step of the latter.

**DeploymentChain** puts the tasks around FlightSequence. Each task is its loop,
cut where the code gives another task a chance to come between two uses of shared
state: safetyTask observes, then decides; parachuteTask receives one request at a
time, then takes a command, then acts; missionRealtimeTask ticks, refreshes its
snapshot, dispatches. `locked` is the outcome of a try-lock. `tries` and `asks`
stand for the retry intervals, `done` for an operation that ends (completion,
failure or its 3 s timeout). A `Reset` loses every local, every queue and the
power.

**CommandExecutor** is the class of that name. `cache` is `entries_` in the order
of the ages, so that "the oldest" is a position: `Remember` is `allocate` with
`remember`, `Begin` the whole of `begin`, whose guards are the sequence
`Refusals` in their order, the first that holds giving the reason. `Finish` and
`Interruptions` are `finish` and `actuatorEmergency`; both put an entry last, as
the code gives it the next age. `guard` is the overtravel guard, which `begin`
may recover and a completed `set_fin_zero` clears. The contexts the runtime may
pass are a constant.

**CommandPipeline** puts three tasks around it. The worker receives a request and
reads the state (`Receive`), decides (`Decide`), and queues what was accepted
(`Enqueue`): two mutexes, one after the other, with other tasks in between. Each
action of missionRealtimeTask is one pass of one loop of its round, with both
mutexes; a try-lock that fails leaves the head of the queue in its place and the
round goes on, so that the actions come in any order. (The code takes the head
off and puts it back at the front; that a full queue of 16 emergencies could
refuse it in between is left out.) parachuteTask is its three phases: `Flush`
reports a completion and answers a Start, `Drain` empties para_queue, `Drive`
takes a command if idle and drives the servo. Steps that touch nothing but a
task's own variables are joined to the next. `state` stands for the flight.
`ImplementsExecutor` says that the cache and the guard change only as
CommandExecutor's actions change them, so that its theorems hold of the tasks.

**Recovery** begins where a flight ends. `nvs` and `marker` are what survives;
everything else is RAM, set by `Boot` as `main` and `ProductionRuntime::start` set
it. The entry goes round four tasks: safetyTask (`AutoEnter`) or a ground command
(`GroundEnter`) asks through recovery_queue, internalFlashTask judges the request
again (`HandleEnter`, where a taken mutex drops it), the others report their part
in `safe` (`SafePower`, `Coast`, `FlushSd`, `FlushFlash`), and internalFlashTask
latches it in NVS (`LatchEntry`) and then in RTC memory (`MarkEntry`); the beacon
(`SendMode`) has a second, and the board sleeps (`LatchSleep`, `Sleep`). `Wake` is
the boot of every 10 s. `Receive` to `SendComplete` are canTask with the wrapper
`MissionRuntimeCan`, which hides the exit in an ordinary wake request: `exit` is
the armed request, and `EraseLatch`, `ClearMarker` are the two writes of
`prepareExit`. Steps that write both NVS and RTC memory are two actions, so that a
reset, or another task, comes between. `flight` is the part of the mission state
that matters here. The transfer of the internal log is a counter of frames; that
of the microSD follows the same protocol in sdLogTask and is in FlightStorage.

**FlightStorage** follows a record, a number, from the tick (`MakeRecord`,
`SendRecord`) through sd_log_queue, the staging area and the file: sdLogTask
(`AppendRecord`), the writer task (`DrainOneBatch`, `PassEnds`) and the card, whose
calls fail as a choice. `task` and `writer` are the places of the two tasks in
their loops, so that the flush request of a recovery (`TakeSignal` to
`FlushAnswered`) meets records on the way. `durable` is what a sync has made safe;
a `Reset` keeps that much, `DeepSleep` ends the boot, and the boot after it opens
the file to read it: `dump`, `frames` and `sending` are the transfer to the ground,
frame by frame. What is reported `complete` is complete on this side of the bus:
frames still queued when the wake window closes are lost with the sleep, and a
window of 2 s ends a transfer that still goes on. The internal flash log is the
part of it that the runtime reaches: every append is refused.

**AirData** has two tasks and a sensor. airDataTask looks at the calibration and
the mission state (`Look`), reads (`ReadOk`, `ReadStale`, `ReadFault`,
`ReadNothing`), and publishes its snapshot to a queue of one (`Publish`);
missionRealtimeTask takes commands, then the snapshot (`Receive`), then ticks. A
calibrated value is the number of the attempt it was measured in, the gyro bias
standing for the gravity reference too; an airspeed is a flag with an age in
periods of the sensor. `Upset` makes the sensor answer with errors until it is
begun again. `mission` is the part of the state that matters here.

**Campaign** is `CampaignStateMachine` with the worker that calls it, the console
that waits for the worker, and what survives: the handoff in NVS and a cookie in
RTC memory, which only the absence of all power erases. `ResetKinds` are the
resets the code tells apart. A command is one action as far as it does not wait;
zero captures and runs wait (`Begin`, `ZeroEnds`, `RunEnds`), and `requestStop`
polls beside them. `past` is history.

**ProfileRun** is `ProfileRunner::run` with its two timers, the sampling task, the
assembler and the journal, in time: `now` counts half epochs, interrupts of core 0
may be held off, and a release that comes too late meets the deadlines of the
code. A sample is good or not, a command is to drive or to coast; the values of
both, and what the phases of a profile ask for, are left out: one `"Drive"` stands
for every duty and for the brake, so that the change from one to another is no write
of its own. The log is a list of records here, and its failure a choice
(`WriterFails`); that it can be drained is taken from LogWriter. `StartApply` tests
the deadline, `WriteMotor` writes to the motor at any time after it, and
`FinishApply` looks at the time again; the coast that this look may lead to is one
step with it. A coast may fail (`Coasts`): the output is then off or as it was,
`journal.failed` says that the driver does not know, and the journal goes on all the
same, as in the code. Such failures are not counted against `Faults`, and a run may
find the motor as one that could not coast left it. It is assumed that an LEDC call
that fails does not drive the motor anew.

**LogWriter** is what becomes of these records: ring, staging area, file, and the
request that ends a log and travels through both tasks. A record may be unfit: the
validation in the staging task is the only one in the firmware, and what it refuses
(`RefuseRecord`) stays at the head of the ring. `crc` is the sequence of
what the checksum has seen, and `ValidCapture` what the decoder asks of a file.
The atomics that `resetRunMetrics` clears one by one are three actions. Between
the stores of the two indices char_writer may look: it then sees more read than
written, which unsigned arithmetic makes a huge backlog, and copies a batch of old
slots (`Torn`). The first such batch is followed, the ones that may come after it
are not. The history variable `clean` is off in a run where that happened, and in
one that found records of the log before it.

## 3. The runs

| run | question | bounds |
|---|---|---|
| `mission_state` | do all promises of the state machine hold, and does it implement FlightSequence? | 2 epochs (the counter wraps), 6 instants, 1 reset, gates 2/2/3/4 after a backdating of 1 |
| `chain_flights` | do requests, clocks and copies of one flight disturb the next? | 2 flights, queues of 2, no reset |
| `chain_resets` | do the automatic move, the requests and the cutoff survive a reset and tasks held up at any point? | 1 flight, 1 reset, queues of 2, any task may stall |
| `chain_progress` | is the power cut, is safetyTask's request carried out? | queues of 1, so that every send may fail; all tasks but safetyTask may stall |
| `command_executor` | do transactions stay apart, do outcomes stay final, how far back is a repetition recognised? | a cache of 4, 5 ids, 2 commands of different domains |
| `command_pipeline` | do the tasks use the executor as specified, is no command carried out twice, does a flight begin with the parachute at rest? | 3 frames, 2 ids, 5 commands of all domains but storage and recovery, 2 emergencies, queues of 1 |
| `recovery` | does a reset in flight lead back to the flight, does the entry come and keep its marker, do entry and wake end in sleep? | 2 frames or commands of the ground, 2 resets or failures, queues of 1, a log of 2 frames |
| `flight_storage` | is the file the flight, is the flush whole, does it report, does a transfer deliver the file? | 4 records, a queue of 2, a staging area of 3 written 2 at a time, 1 failure, 1 reset, 2 transfers through a queue of 1 |
| `air_data` | does readiness mix attempts, does an old speed authorise fins, does the sensor come back? | 2 attempts of 2 samples, 2 faults to a restart, fresh for 2 periods, 1 upset |
| `campaign` | is the motor driven only as qualified, does the session last, does a stop hold? | 2 sessions, 3 resets, 1 failing NVS operation |
| `profile_run` | are records and verdict true, is the motor left alone or the run failed, does the run end? | 3 epochs, time until the end of the third, 1 fault or hold-off, any coast may fail |
| `log_writer` | are records kept in order, is an accepted file whole, does the drain end? | 2 runs of 4 records, a ring of 2, a staging area of 3 written 2 at a time, 2 failures or unfit records |

The properties that stand for several promises are conjunctions of named parts:
`StateIsSound`, `FinsAreAuthorized`, `BrakeIsLatched`, `ClockIsTrue` and
`FlightGoesForward` in MissionState, `AutomaticMove` and `FlightsAreApart` in
DeploymentChain,
`CacheIsSound` and `OutcomesAreKept` in CommandExecutor, `OwnershipIsSound` in
CommandPipeline, `EvidenceIsTrue` in Recovery, and their like in the others.

**Bounds.** `MaxTime` lets a flight reach its cutoff after a liftoff at the first
instants and, with a reset, on both sides of it; a flight has four thresholds and
their order matters, not their distance, so one unit apart is enough, and
coinciding ones are allowed (`chain_progress` uses it). One reset suffices for
each property to see a flight before and after; two epochs suffice for a rollback
or second start, and for the wrap. Queues of one or two entries are full sooner
than the real four. In DeploymentChain the clock moves only between the loops of a task (`Prompt`), as a loop takes milliseconds and a unit of the clock
seconds: without that, the claims about early and late would be about tasks that
sleep for seconds. `MayStall` names the tasks that may be held up that long all
the same: every task in `chain_resets`, all but safetyTask in `chain_progress`.

In the executor's runs the cache is smaller than the number of ids, so that it
evicts and forgets, and larger than the number of domains, as the real one is
(16 entries, 6 domains); `CacheAssumption` states what is needed. Neither of the
two commands of `command_executor` is a Start, whose conflict with a move of the
parachute is left to `ConflictTheorem` and to `command_pipeline`. `since` counts
the new transactions after the watched one. In the pipeline three frames are
enough for a command, one that meets it, and a repetition of either; with queues
of one entry and two emergencies every queue and the latch get full.

`SafetyRequestIsKept` is checked of one flight: with two, an open of safetyTask
for an older epoch that is still in the queue takes the place of the accepted one
(`para.automatic`), and moves nothing. `FlightsAreApart` is checked without
resets, as its part `CutoffIsNotEarly` does not survive one (see the findings).

In Recovery two faults are enough for a reset between the two writes of an entry
and another in what follows, or for a failing NVS and a reset; two requests for an
exit and a wake, or two exits, to meet. A failed transmission is no fault there:
the bus may be dead for ever. The run does not look for deadlocks: within the
bounds a board whose entry was lost has nothing left to do.

In FlightStorage four records fill queue and staging area and leave one in the
hand; in LogWriter they fill the ring and a batch, and two runs let a failed log
meet the next. In AirData two attempts are the least that can be mixed, and two
faults in a row and two periods keep the order of the real numbers (8 faults of
2.5 ms, an airspeed fresh for 20 ms): `AirspeedIsReadAgain` rests on a row of
faults being as long as the freshness, which is so in the code and which
`RestartAssumption` states. In ProfileRun
three epochs are the first, which may begin without a sample, one in the middle
and the last; time stops at `Horizon`, which cuts off only runs that were held up,
and `RunFinishes` exempts a runner that waits there for a tick. Within that time
neither the queue of ticks nor the assembler's buckets overflow; that they may is
covered by the theorems, which are for any capacity. In Campaign three
resets are one before, one at and one after the handoff. The runs of these five do
not look for deadlocks: a run, a campaign or a log that is done has nothing left
to do.

**Fairness.** In DeploymentChain `FairSpec` makes each task run again and
again: their priorities differ, none busy-waits, each loop ends in a delay or a
bus call with a timeout. A task that tries a mutex in each loop gets it now and
then (strong fairness of the locked step), as the mutex is held for a copy; the
servo answers now and then. Nothing is assumed of operator commands, of the
detectors, of the apex verdict, of resets or of the passing of time.
`HungMissionSpec` and `SafetyAloneSpec` drop the tasks the documents say must not
matter. In Recovery internalFlashTask, safetyTask, missionRealtimeTask and
sdLogTask run, a window of the code ends, and outputs obey in the end; nothing is
assumed of canTask, whose bus may be dead, or of the ground. A task that finds a
resource missing for ever is excluded by the bound on faults. MissionState,
the executor and the pipeline state none.

In FlightStorage the tick's sends, sdLogTask and the writer run, and calls on the
card return (that a card may never return is a finding). In AirData airDataTask
runs, one of many attempts to begin the sensor succeeds, its interval ends, and a
sensor that is well has new data at times; missionRealtimeTask, the ground and the
locks are free. In Campaign worker and console run. In ProfileRun time passes and
interrupts, the sampling task and the runner are served. In LogWriter the runner
and the staging task run, and the card task runs when core 1 is free: it has the
lower priority, so that it is fair only while the staging task waits
(`StageIsReady`), which is what `DrainEnds` has to survive.

**Where the code and its documents part.** `PROJECT.json` lists the findings, each
with the sentence it contradicts. None has a run of its own: most name a definition
that is kept in its module to state the documents' claim, outside the runs, and
that TLC finds violated when it is checked there.

| definition | what happens instead |
|---|---|
| `DescentOpens` (DeploymentChain, `FairSpec`) | parachuteTask's try-lock fails in the instant it checks the open request: the request is dropped, missionRealtimeTask believes it sent, safetyTask believes it served, and the parachute stays closed |
| `OneMovePerFlight`, `CutoffIsNotEarly` (DeploymentChain with a reset: one flight, thresholds 2, 3 and 4 after a backdating of 1, `MaxTime = 5`) | a reset repeats the relative move, and runs safetyTask's clock early |
| `RequestIsServed` (under `HungMissionSpec`), `PowerIsCut` (under `SafetyAloneSpec` with a reset) | safetyTask depends on the tasks it is to stand in for |
| `ReplayedWithinCache` (MCCommandExecutor) | with a command pending 15 instead of 16 results are remembered; `ReplayedWithinWindow` is the bound that does hold, the cache's size less one entry for each domain |
| `HoldsAfterEmergency`, `AcceptedGoesOn` (CommandPipeline) | an emergency fails a command that stays queued and moves the servo after the hold; the hold drops a command accepted after the emergency |
| `AutoEntryAlways`, `CompleteExits` (Recovery) | the request of the automatic entry is dropped on a failed lock; a beacon between two attempts to send the exit's answer sets the latch again |
| `DrainsBeforeFlush`, `FlightIsLogged` (FlightStorage) | the flush may overtake a record in the queue; a Start does not ask for a log |
| `ZeroIsFrozen` (AirData) | a calibration accepted beside a Start that is being prepared takes its zero in LiftoffDetection |
| `LostAlarmIsSeen` (ProfileRun) | an alarm that is lost is not noticed: the run goes on an epoch behind |
| `OverflowStops`, `RefusalStops`, `FilesAreTheirOwn` (LogWriter) | a full staging area, or a record that the staging task refuses, starves the card task for ever, and the drain is never answered; the reset of a log races the writer of the one before, whose records may come into the new file, and such a file may be accepted |

In CommandPipeline the gap between `Receive` and `Decide` lets a manual parachute
move past a Start that completes in it, which then begins in LiftoffDetection. In
Recovery a transfer does not keep the board awake; a wake without authority never
sleeps again (which is why `WindowSleeps` speaks of authorised ones); and an
unreadable NVS turns a reset in flight into Recovery. The partition of the internal
flash log is never located, so that it never takes a record.

## 4. The proofs

`MissionStateProofs` proves, for all values of the constants that satisfy the
assumptions of MissionState (the thresholds are ordered as in
`mission/mission_state.cpp:10-13`, the bounds are naturals, the inputs have their
types), type correctness and its promises, and from them all six of the run's
properties (`StateTheorem`, `FinsTheorem`, `TrueClockTheorem`, `ForwardTheorem`,
`BrakeLatchTheorem`, and `FlightTheorem`: the machine implements FlightSequence);
the theorems are listed in `PROJECT.json`. The argument is one inductive
invariant `IInv`:

- `TypeOK`;
- `MachineOK`: the snapshot is coherent (`Coherent`: state, deployment, liftoff
  and directives fit each other), the gate is still ahead of a flight that has not
  evaluated it (`GateAhead`), and the fins' readiness fits the start
  (`FinsAreReady`);
- `CheckpointOK`: the same of the record in RTC memory, because a boot makes it
  the snapshot;
- `TimeOK`: the mission clock, the checkpoint's clock and `liftoff_at` agree;
- a board that is not running has the initial snapshot.

The properties alone are not inductive: a reset moves the obligation from the
snapshot to the checkpoint and back, and the gate can only be shown to be passed
once if the clock is known to grow. `BrakeIsLatched` needs besides that a barred
snapshot is braked (`BarredIsBraked`), and of a tick with the overtravel latch set
that no block after `StopOnOvertravel` makes the fins available or lets the gate
be taken (`TickOvertravel`). A tick is proved block by block, one lemma
for each operator of the composition, so that each proof names only the fields
its block touches. Action properties follow from `IInv` and the same lemmas, and
so does the refinement: one lemma for each action names the action of
FlightSequence it is under the mapping, or says that it leaves the abstract flight
alone.

The first part of `CommandPipelineProofs` proves the properties of
`command_executor` (`CacheTheorem`, `ConflictTheorem`, `OutcomesTheorem`, and the
parts they are made of; `ReplayTheorem` comes last), for any cache, ids, commands
and contexts within `CacheAssumption` and
`RequestAssumption`. Its invariant `ExecIInv` says of the cache (`Well`): its
type and size, one entry for each id, one pending entry for each domain, and that
pending entries are compatible (calibration with no fin or parachute move, a
Start with no parachute move). The step that needs an argument is that an
accepted command finds room: pending entries have different domains, so that a
full cache with nothing settled would have as many domains as entries, and the new
command's domain besides, which is free: one more than there are (`RoomForOne`, a
pigeonhole over the domains). Everything else is done for `Settle` and `Remember`
once, and lifted to the actions.

The second part proves that the three tasks implement the executor, for
queues of any length and any number of frames and emergencies: one lemma for each
action says which of the executor's actions it is (`Decide` is `BeginCommand` in
the context the worker read, every report is a `FinishCommand`,
`HandleEmergency` an `ActuatorEmergency`), or that it leaves the executor alone.
It needs the type invariant (what tasks hold are ids and requests of the ground)
and that the constants admit the contexts and reasons the runtime uses
(`RuntimeAssumption`). From it `PipelineKeepsPromises` draws the executor's main
guarantees for the tasks.

The third part says who carries out which command
(`OwnershipTheorem`, `InterruptedTheorem`, `RestTheorem`). Its invariant `Owning`:

- `Single` and `Queued`: an id is in one place, and once in a queue;
- `WorkerCarries`, `QueuesCarry`, `MissionCarries`, `ParachuteCarries`: a command in
  hand has its entry in the cache, of the kind of command that belongs in that
  place, and the entry is `Alive`, that is pending or ended by an emergency. Only
  commands of the fin and the parachute are ended that way, so that a Start under
  way is pending.

As long as its entry is in the cache a repeated id is answered from there and put
into no second place, and a Start that is still pending when the flight begins has
kept every move of the parachute out of the cache, unless an emergency ended it.
Each action is shown to move ids one step on (`Arrived`), or to let go of them
together with the report.

What cannot be shown is that the entry stays. The executor never evicts a pending
one, but it does evict one that an emergency has ended while its command still
waits in a queue; with a cache of 2, four frames and three ids TLC finds the id
accepted again and the command in two places. So the three theorems suppose
`EntriesStay`, that no step evicts the entry of a command in hand. `EntriesTheorem`
shows this to be so while the ground has sent no more frames than the cache has
entries (16 in the code), and `WithinCacheTheorem` draws the conclusion without the
hypothesis where `MaxSends` is at most `CacheSize`, as in the run. In a longer
session it takes, after the emergency, almost as many new requests and outcomes as
the cache has entries while the interrupted command is still in hand, because an
outcome makes its entry the youngest.

The last part is about how far back a repetition is recognised (`ReplayTheorem`),
with the history variable `since` of MCCommandExecutor. An entry that gets its
outcome becomes the youngest, so that a transaction grows older without a new one
after it. But such an entry was pending when the transaction got its own place, or
came after it: the invariant (`AccountedFor`) sets aside the ids that were pending
then, one for each domain at most, and counts all others behind the transaction as
new since then. When it is evicted the cache is full, everything before it is
pending, and so all its other entries are accounted for.

`DeploymentChainProofs` is about the chain of three tasks, for any capacity of its
queues, any four instants in their order (`ChainAssumption`), any number of flights
and resets, and any tasks held up at any point; time and epochs are bounded by
constants that may be as large as one likes. Its invariant has three parts:

- `FlightIsTimed`: the clock of an airborne flight is not ahead of its age, and
  that of a Descent has reached the gate. This is also said of the record in RTC
  memory, as a boot restores from there.
- `TasksOK`: the types of what the tasks and the queues hold.
- `MovedOnce`: a servo that has moved by itself in this boot has moved once, in a
  Descent that is still on, and `opened_epoch` names its flight.

`MoveTheorem` follows, and `CutoffTheorem`, which needs the types only. The other
two properties are not true of every behaviour (see the findings and the bounds
above), so that their theorems have a hypothesis that says of which ones they are:

- `FlightsTheorem` supposes `InTime`: no reset, and neither safetyTask nor
  missionRealtimeTask misses a deadline; parachuteTask may hang. With a reset the
  finding on `CutoffIsNotEarly` applies. With either task late TLC finds the order
  for a cutoff left over: safetyTask asks for it in a flight that is still in
  Flight, the flight is cancelled, and the request in the queue cuts the power of
  the next one. The invariant
  `Apart` relates the three clocks of a flight: a flight still in Flight is no older
  than the deadline, a copy of the clock that safetyTask has kept over a rollback
  has not reached the cutoff either, and therefore an order to cut the power, in
  whichever queue or copy, stems from a Descent that is old enough. The run checks
  it for two flights, the theorem for any number.
- `RequestTheorem` supposes `OneFlight`: with a second flight the place of its
  request in `automatic_epoch` may be taken by a leftover. Resets and stalls are
  free, in any number. `Kept` says that a request which safetyTask counts as made is
  in the queue or in parachuteTask, and that every authorised open in the queue is
  of this flight, so that none can displace it.

`RecoveryProofs` proves `EvidenceTheorem` for queues of any length, any number of
faults, of commands from the ground and of transfers. What the two parts of
`EvidenceIsTrue` lack is: before Recovery is requested internalFlashTask has begun
nothing (`NotBegun`), canTask carries on with the exit for which it erased the latch
(`ExitGoesOn`), and in a flight no wake is answered with ready, also not by an
answer left in the queue (`NoneReady`).

`AirDataProofs` proves both safety properties of AirData for any number of
attempts, faults and samples. `CopiesGrowOld` is the argument of the airspeed: each
copy is at least as old as the sensor's faults in a row, and a copy from before a
restart is out of date as soon as the sensor can be read well again; it needs
`RestartAssumption`, that a restart takes as many faults as an airspeed is fresh for.
`AttemptsAreApart` is that of the readiness: nobody holds anything of an attempt
later than its own, and once the calibration may end there is only the last.

`CampaignProofs` proves the three safety properties of Campaign for any number of
sessions, resets and failures of NVS. Its invariant says how the request, the run
and the busy flag agree (`WorkAgrees`), what being armed entails
(`ArmedIsQualified`), that states and stages come in their order (`StagesInOrder`),
that campaign and NVS say the truth about the past (`PastIsTrue`), and that NVS
holds a handoff only while nothing else may begin (`NvsIsKept`). A reset forgets
everything but NVS, which is why it has to be true about the past by itself.

The second half of the module proves both safety properties of ProfileRun
(`RunEvidenceTheorem`, `MotorTheorem`), for any number of epochs, any capacities
and any deadlines within `ProfileRunAssumption`. A record is written after the fact, from
a journal of completed commands, so that the invariant `RunInv` has to place these
commands against the ends of the epochs:

- `Paced`: where the runner is says which epochs have ended, and how many records
  there are.
- `InForce` says which command was in force when the epoch ended, and
  `NextInForce` the same of the epoch after it. The runner gives the next command
  before it records the epoch; when it is late, that command is completed after
  the next epoch has ended, too, and the record after this one has to name the
  command before it.
- `OnTime`: until an error is noticed no command is further ahead than that.
- `Counted`: a record without its sample has been counted against the run.
- `Driven`: only a full profile drives, on a sample of the epoch, and an output
  that is driven while the runner waits belongs to an armed journal.

A coast that fails leaves its mark in the journal until the next write, and
`DisarmsSafely` shows what this amounts to: disarmed and coasted, or disarmed and
failed. The shutdown tries up to three times, and what is left after that is a motor
known to coast or an error of the run.

`FlightStorageProofs` proves `LogTheorem` and `FlushTheorem` for any sizes of
queues, staging area and batches and any number of records, failures, resets and
transfers. Two sequences carry the argument: what is on the card, in PSRAM, in the
queue and in the hand (`InOrder`; before the boot has truncated the file that is
left out, `OnCard`), and the frames from the ground to the queue. Moving on
changes neither of them, a drop takes one record out and counts it, and only a
sleep cuts frames off. `Dumping` says that one transfer goes on at most, the last,
exactly where its frames end, which makes the frames of each transfer a run of the
file by their place among them (`Sent`). `Flushing` follows a flush through the
writer's pass, in which sdLogTask, waiting for it, adds nothing: the property
alone speaks of one step and knows nothing of what the writer has done.

`LogWriterProofs` proves `LogTheorem` and `FileTheorem` for any number of runs,
records and failures and any sizes of ring, staging area and batch. `InPlace` says
where each record is by its number: in the file below the read index, in its slot
up to the write index, in the ring from there. That a slot is not overwritten is
`SlotsApart`: numbers less than the capacity apart have different remainders.
`Quiet` says that a request which was passed on has no record before it and that
nothing is being written between two runs, `Resetting` what a clean run begins
with, and `EndsWhole` carries the whole file from SdFinalize to Finish.

Every safety property of the runs is proved, those of the commands in hand and two
of the deployment chain under the hypotheses named above. Only model-checked is
everything that must eventually happen (`PowerIsCut`, `RequestIsServedIfFair`,
`EntrySleeps`, `AutoEntry`, `WindowSleeps`, `DrainEnds`, `StopEnds`, `RunFinishes`,
`FlushEnds`, `SensorComesBack`), because TLAPS does not reach liveness under
fairness.

## 5. What is not modelled, and the plan

Left out of the modelled parts: the auxiliary 5 V rail, the torque hold between
two moves, telemetry, log lines, the audit record of the Start; a checkpoint write
is atomic, and one torn by a reset is a checkpoint lost, which its checksum sees
to. Of the command paths: `export_flash_log`, which leaves these queues and is
always refused (as does `enter_recovery`, whose way is in Recovery), the queue of
results, the motor's outputs with their inhibition, and the detail word of a
result. Of storage: the export of the internal log (its partition is never
located, so that this code is not reached), the bytes of records and frames. Of
the sensors: the detectors, encoder, LPS and IMU health, the window of the moving
average. Of the campaign: the bytes of the log format, the values of a profile's
phases, the arithmetic of angles and of the zero approach, the power sampler,
diagnostics.

Not modelled at all: the CAN task's schedule with the result and event queues, the
power presence filter, the bring-up shell.

In this order:

1. The rest of the command paths: the result and event queues of canTask, the
   outputs of the motor with `actuator_output_inhibited` (an emergency between a
   Start and its completion), and liveness of accepted commands where no hold
   comes in between.
2. `Detectors`: the streak logic of liftoff and apex as functions of bounded
   sample sequences, against a definition of the streak.
3. Proofs: of the ownership of commands a hypothesis weaker than `EntriesStay`,
   about how many entries are renewed while an interrupted command waits.

Out of reach: the estimators, the control law and the quantization (floating
point), register-level drivers, console formatting.
