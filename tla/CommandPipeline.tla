-------------------------- MODULE CommandPipeline --------------------------
(***************************************************************************)
(* The way of a command through the tasks of production_runtime.cpp:       *)
(* commandWorkerTask decides with the executor and queues it for           *)
(* missionRealtimeTask or parachuteTask, which carry it out over several   *)
(* rounds, report its outcome, and are interrupted by emergencies.         *)
(*                                                                         *)
(* phase is the program counter of a task at the places where what other   *)
(* tasks do in between matters.  A step of missionRealtimeTask holds both mutexes;   *)
(* a mutex that is taken leaves the head of a queue where it was and lets  *)
(* the round go on, so that its steps come in any order and need no phase. *)
(* state is what is left here of MissionState: the flight, of which only   *)
(* the state matters to commands; its own emergency stop is among its      *)
(* steps, and an emergency here is the one of the actuators.  Frames wait in command_queue as they do *)
(* on the bus: the worker takes them one at a time, and a frame it never   *)
(* gets is one not sent.  Commands are those that go through these queues, *)
(* which "export_flash_log" and "enter_recovery" leave.                    *)
(***************************************************************************)
EXTENDS CommandExecutor

CONSTANTS
  TransitionQueue,   \* entries of transition_queue
  ParachuteQueue,    \* entries of parachute_command_queue
  HoldQueue,         \* entries of para_queue
  EmergencyQueue,    \* entries of emergency_queue
  MaxSends,          \* bound of the model: frames of the ground station
  MaxEmergencies     \* bound of the model: emergencies among them

ASSUME QueueAssumption ==
  /\ {TransitionQueue, ParachuteQueue, HoldQueue, EmergencyQueue}
       \subseteq Nat \ {0}
  /\ {MaxSends, MaxEmergencies} \subseteq Nat

None == [id |-> NoId]

VARIABLES
  state,         \* the state of the flight state machine
  frames,        \* how many requests the ground has sent
  worker,        \* commandWorkerTask: phase, envelope and the state it read
  transitions,   \* transition_queue
  preparations,  \* parachute_command_queue
  holds,         \* para_queue: how many holds wait in it
  emergencies,   \* emergency_queue: how many stops wait in it
  latch,         \* actuator_emergency_latch: one more, when it was full
  alarms,        \* stops so far
  mission,       \* missionRealtimeTask: what it has under way
  responses,     \* parachute_start_response_queue
  parachute      \* parachuteTask: phase and what it has under way

tasks == <<worker, mission, parachute>>
queues == <<transitions, preparations, holds, emergencies, latch,
            responses>>
ground == <<frames, alarms>>
vars == <<execVars, state, ground, tasks, queues>>

(* commandWorkerTask: what it passes besides the state never changes.      *)
RuntimeContext(s) ==
  [state |-> s, deployment_power_cutoff_done |-> s = "descent",
   resources_preallocated |-> TRUE, fin_available |-> TRUE,
   parachute_available |-> TRUE, motor_test_busy |-> FALSE,
   calibration_supported |-> TRUE, storage_export_supported |-> TRUE,
   fin_safe_commands_supported |-> TRUE]
RuntimeContexts == {RuntimeContext(s) : s \in MissionStates}

(* The executor is asked in these contexts, and told these reasons.        *)
ASSUME RuntimeAssumption ==
  /\ RuntimeContexts \subseteq Contexts
  /\ {"busy", "invalid_state", "device_unavailable", "not_configured",
      "timeout"} \subseteq Failures

(* The locals of a round of the worker are new in the next.                *)
Waiting == [phase |-> "receive", request |-> None, state |-> "unknown"]

PipelineInit ==
  /\ Init
  /\ state = "command_receive"
  /\ frames = 0 /\ alarms = 0
  /\ worker = Waiting
  /\ transitions = <<>> /\ preparations = <<>> /\ holds = 0
  /\ emergencies = 0 /\ latch = FALSE /\ responses = <<>>
  /\ mission = [start |-> NoId, fin |-> NoId, calibration |-> NoId]
  /\ parachute = [phase |-> "flush", operation |-> NoId, moving |-> FALSE,
                  completion |-> None, response |-> NoId]

(* The outcome of a command, reported with executor_mutex held.            *)
MutReport(id, phase, reason) ==
  /\ cache' = IF Find(cache, id) = {} THEN cache
              ELSE Settle(cache, CHOOSE k \in Find(cache, id) : TRUE,
                          phase, reason)
  /\ guard' = FinishedGuard(cache, guard, id, phase)
Report(id, phase, reason) ==
  /\ cache' = Finish(cache, id, phase, reason)
  /\ guard' = FinishedGuard(cache, guard, id, phase)

(* xQueueSendToFront(para_queue, hold): lost when the queue is full.       *)
Hold == holds' = IF holds < HoldQueue THEN holds + 1 ELSE holds

-----------------------------------------------------------------------------
(* canTask and commandWorkerTask.                                          *)
(***************************************************************************)
(* A frame of the ground: a new request, or an id it has used before.  The *)
(* state is read under state_mutex, which is given back before begin.      *)
Receive ==
  /\ worker.phase = "receive" /\ frames < MaxSends
  /\ frames' = frames + 1
  /\ \E r \in Requests, lock \in BOOLEAN :
       worker' = [phase |-> "begin", request |-> r,
                  state |-> IF lock THEN state ELSE "unknown"]
  /\ UNCHANGED <<execVars, state, alarms, mission, parachute, queues>>

(* begin, under executor_mutex; without it the request is refused as busy  *)
(* and not remembered.                                                     *)
Decide ==
  /\ worker.phase = "begin"
  /\ \/ LET decision ==
              Begin(cache, guard, worker.request, RuntimeContext(worker.state))
        IN /\ cache' = decision.cache /\ guard' = decision.guard
           /\ worker' = IF decision.execute
                         THEN [worker EXCEPT !.phase = "queue"] ELSE Waiting
     \/ /\ worker' = Waiting
        /\ UNCHANGED execVars
  /\ UNCHANGED <<state, ground, mission, parachute, queues>>

ForParachute(r) == DomainOf(r.command) = "parachute"

(* An accepted request goes to its queue; when that is full it fails, if   *)
(* executor_mutex is free within 2 ms.                                     *)
Enqueue ==
  LET r == worker.request
      fits == IF ForParachute(r) THEN Len(preparations) < ParachuteQueue
              ELSE Len(transitions) < TransitionQueue
  IN /\ worker.phase = "queue"
     /\ worker' = Waiting
     /\ \/ /\ fits /\ ForParachute(r)
           /\ preparations' = Append(preparations, r)
           /\ UNCHANGED <<execVars, transitions>>
        \/ /\ fits /\ ~ForParachute(r)
           /\ transitions' = Append(transitions, r)
           /\ UNCHANGED <<execVars, preparations>>
        \/ /\ ~fits
           /\ Report(r.id, "failed", "busy")
           /\ UNCHANGED <<transitions, preparations>>
        \/ /\ ~fits
           /\ UNCHANGED <<execVars, transitions, preparations>>
     /\ UNCHANGED <<state, ground, mission, parachute, holds, emergencies,
                    latch, responses>>

(* latchPhysicalEmergency, in canTask.  The transaction id of an emergency *)
(* is not 0 and only echoed.                                               *)
Emergency ==
  /\ alarms < MaxEmergencies
  /\ alarms' = alarms + 1
  /\ IF emergencies < EmergencyQueue
     THEN emergencies' = emergencies + 1 /\ UNCHANGED latch
     ELSE latch' = TRUE /\ UNCHANGED emergencies
  /\ UNCHANGED <<execVars, state, frames, tasks, transitions, preparations,
                 holds, responses>>

-----------------------------------------------------------------------------
(* missionRealtimeTask.                                                    *)
(***************************************************************************)
(* An emergency: the fin is free, the parachute holds, and the commands of *)
(* both have failed.  A Start under way is not among them.                 *)
HandleEmergency ==
  /\ emergencies > 0
  /\ emergencies' = emergencies - 1
  /\ IF \E id \in Ids : EmergencyAccepted(id, state)
     THEN /\ cache' \in Interruptions(cache)
          /\ mission' = [mission EXCEPT !.fin = NoId]
          /\ Hold
          /\ UNCHANGED guard
     ELSE UNCHANGED <<execVars, mission, holds>>
  /\ UNCHANGED <<state, ground, worker, parachute, transitions, preparations,
                 latch, responses>>

(* A latched emergency goes to the queue, or is latched again.             *)
TakeLatch ==
  /\ latch /\ emergencies < EmergencyQueue
  /\ emergencies' = emergencies + 1
  /\ latch' = FALSE
  /\ UNCHANGED <<execVars, state, ground, tasks, transitions, preparations,
                 holds, responses>>

(* The answer of parachuteTask to the Start under way: the flight begins,  *)
(* if the state machine and the readiness of a normal Start allow it.      *)
FinishStart ==
  /\ responses # <<>>
  /\ responses' = Tail(responses)
  /\ IF Head(responses) # mission.start \/ mission.start = NoId
     THEN UNCHANGED <<execVars, state, mission, holds>>
     ELSE /\ mission' = [mission EXCEPT !.start = NoId]
          /\ \/ /\ state = "command_receive"
                /\ state' = "liftoff_detection"
                /\ Report(mission.start, "completed", "none")
                /\ UNCHANGED holds
             \/ /\ Hold
                /\ Report(mission.start, "failed",
                          IF state = "command_receive" THEN "not_configured"
                          ELSE "invalid_state")
                /\ UNCHANGED state
  /\ UNCHANGED <<ground, worker, parachute, transitions, preparations,
                 emergencies, latch>>

(* The commands of the transition queue.  Those that end at once report    *)
(* their outcome here; device is FALSE for a fin that cannot be driven.    *)
Immediate(r, device) ==
  CASE r.command = "cancel_sequence" ->
         IF state = "liftoff_detection" THEN "none" ELSE "invalid_state"
    [] r.command = "disable_fin_control" ->
         IF state \in ValidStates(r.command) THEN "none" ELSE "invalid_state"
    [] r.command = "fin_free" -> "none"
    [] r.command \in {"set_fin_zero", "start_fin_zero_hold"} ->
         IF device THEN "none" ELSE "device_unavailable"
    [] r.command = "fin_move_relative" -> "device_unavailable"
    [] OTHER -> "busy"

(* Those that go on: a fin move, a Start for which parachuteTask prepares, *)
(* a calibration.                                                          *)
Starting(r) ==
  /\ r.command \in Starts
  /\ mission.start = NoId /\ Len(preparations) < ParachuteQueue
GoesOn(r, device) ==
  \/ r.command = "fin_move_relative" /\ device
  \/ Starting(r)
  \/ r.command = "run_preflight_calibration" /\ mission.calibration = NoId

Transition ==
  /\ transitions # <<>>
  /\ transitions' = Tail(transitions)
  /\ \E device \in BOOLEAN :
       LET r == Head(transitions)
           reason == Immediate(r, device)
       IN IF GoesOn(r, device)
          THEN /\ mission' = CASE r.command = "fin_move_relative" ->
                                    [mission EXCEPT !.fin = r.id]
                               [] r.command \in Starts ->
                                    [mission EXCEPT !.start = r.id]
                               [] OTHER -> [mission EXCEPT !.calibration = r.id]
               /\ preparations' = IF r.command \in Starts
                                  THEN Append(preparations, r)
                                  ELSE preparations
               /\ UNCHANGED <<execVars, state, holds>>
          ELSE /\ mission' = IF r.command \in FinCommands /\ reason = "none"
                             THEN [mission EXCEPT !.fin = NoId] ELSE mission
               /\ Report(r.id, IF reason = "none" THEN "completed" ELSE "failed",
                         reason)
               /\ IF r.command = "cancel_sequence" /\ reason = "none"
                  THEN state' = "command_receive" /\ Hold
                  ELSE UNCHANGED <<state, holds>>
               /\ UNCHANGED preparations
  /\ UNCHANGED <<ground, worker, parachute, emergencies, latch, responses>>

(* A calibration is over after 3 s, a fin move when it arrives or after    *)
(* 10 s: reported once executor_mutex is free.                             *)
EndCalibration ==
  /\ mission.calibration # NoId
  /\ Report(mission.calibration, "completed", "none")
  /\ mission' = [mission EXCEPT !.calibration = NoId]
  /\ UNCHANGED <<state, ground, worker, parachute, queues>>

EndFinMove ==
  /\ mission.fin # NoId
  /\ \E phase \in Outcomes :
       Report(mission.fin, phase,
              IF phase = "completed" THEN "none" ELSE "timeout")
  /\ mission' = [mission EXCEPT !.fin = NoId]
  /\ UNCHANGED <<state, ground, worker, parachute, queues>>

(* tick and the liftoff emergency: the flight goes on, or a step back. The *)
(* states after engine_burn accept no command that it refuses.             *)
Flies ==
  /\ \/ state = "liftoff_detection" /\ state' = "engine_burn"
     \/ state = "engine_burn" /\ state' = "liftoff_detection"
  /\ UNCHANGED <<execVars, ground, tasks, queues>>

-----------------------------------------------------------------------------
(* parachuteTask: a round reports a completion, answers a Start, drains    *)
(* para_queue, takes a command if it is idle, and drives the servo.        *)
(***************************************************************************)
MutFlush ==
  /\ parachute.phase = "flush"
  /\ LET c == parachute.completion
         answers == parachute.response # NoId /\ Len(responses) < 2
     IN \E lock \in BOOLEAN :
          /\ IF c # None /\ lock
             THEN Report(c.id, c.phase, c.reason) ELSE UNCHANGED execVars
          /\ responses' = IF answers THEN Append(responses, parachute.response)
                          ELSE responses
          /\ parachute' = [parachute EXCEPT
               !.phase = "drain",
               !.response = IF answers THEN NoId ELSE @]
  /\ UNCHANGED <<state, ground, worker, mission, transitions, preparations,
                 holds, emergencies, latch>>
Flush ==
  /\ parachute.phase = "flush"
  /\ LET c == parachute.completion
         answers == parachute.response # NoId /\ Len(responses) < 2
     IN \E lock \in BOOLEAN :
          /\ IF c # None /\ lock
             THEN Report(c.id, c.phase, c.reason) ELSE UNCHANGED execVars
          /\ responses' = IF answers THEN Append(responses, parachute.response)
                          ELSE responses
          /\ parachute' = [parachute EXCEPT
               !.phase = "drain",
               !.completion = IF lock THEN None ELSE c,
               !.response = IF answers THEN NoId ELSE @]
  /\ UNCHANGED <<state, ground, worker, mission, transitions, preparations,
                 holds, emergencies, latch>>

(* A hold of para_queue drops what is under way.                           *)
Drain ==
  /\ parachute.phase = "drain"
  /\ IF holds = 0
     THEN /\ parachute' = [parachute EXCEPT !.phase = "take"]
          /\ UNCHANGED holds
     ELSE /\ parachute' = [parachute EXCEPT !.operation = NoId,
                                            !.moving = FALSE,
                                            !.completion = None]
          /\ holds' = holds - 1
  /\ UNCHANGED <<execVars, state, ground, worker, mission, transitions,
                 preparations, emergencies, latch, responses>>

Idle ==
  /\ parachute.operation = NoId /\ parachute.completion = None
  /\ parachute.response = NoId
Taken(r) ==
  IF r.command \in Starts THEN [parachute EXCEPT !.response = r.id]
  ELSE [parachute EXCEPT !.operation = r.id]

(* What becomes of an operation p of the round: the servo is not ready or  *)
(* goes on, the move is issued, or it ends in a hold; a failure of the     *)
(* servo or a timeout of the move, not told apart, ends it as well.        *)
Driven(p) ==
  LET ended(phase, reason) ==
        [p EXCEPT !.operation = NoId, !.moving = FALSE,
           !.completion = [id |-> p.operation, phase |-> phase,
                           reason |-> reason]]
  IN {p} \cup (IF p.operation = NoId THEN {}
               ELSE {ended("failed", "device_unavailable"),
                     IF p.moving THEN ended("completed", "none")
                     ELSE [p EXCEPT !.moving = TRUE]})

Drive ==
  /\ parachute.phase = "take"
  /\ LET takes == Idle /\ preparations # <<>>
         p == IF takes THEN Taken(Head(preparations)) ELSE parachute
     IN /\ preparations' = IF takes THEN Tail(preparations) ELSE preparations
        /\ \E q \in Driven(p) : parachute' = [q EXCEPT !.phase = "flush"]
  /\ UNCHANGED <<execVars, state, ground, worker, mission, transitions,
                 holds, emergencies, latch, responses>>

-----------------------------------------------------------------------------
PipelineNext ==
  \/ Receive \/ Decide \/ Enqueue
  \/ Emergency \/ HandleEmergency \/ TakeLatch \/ FinishStart \/ Transition
  \/ EndCalibration \/ EndFinMove \/ Flies
  \/ Flush \/ Drain \/ Drive

PipelineSpec == PipelineInit /\ [][PipelineNext]_vars

-----------------------------------------------------------------------------
(* Where the command of an id is waiting or under way.  A Start that waits *)
(* for parachuteTask is one command, whichever way its preparation went.   *)
Owners(id) ==
  {place \in {"worker", "transitions", "preparations", "start", "fin",
              "calibration", "operation", "completion"} :
     CASE place = "worker" ->
            worker.phase = "queue" /\ worker.request.id = id
       [] place = "transitions" ->
            \E k \in DOMAIN transitions : transitions[k].id = id
       [] place = "preparations" ->
            \E k \in DOMAIN preparations :
              /\ preparations[k].id = id
              /\ ForParachute(preparations[k])
       [] place = "start" -> mission.start = id
       [] place = "fin" -> mission.fin = id
       [] place = "calibration" -> mission.calibration = id
       [] place = "operation" -> parachute.operation = id
       [] OTHER -> parachute.completion.id = id}

EntryOf(id) == cache[CHOOSE k \in Find(cache, id) : TRUE]
IsPending(id) == \E k \in Find(cache, id) : Pending(cache[k])

(* A completion that parachuteTask has yet to report.                      *)
Completions ==
  [id : Ids, phase : {"completed"}, reason : {"none"}]
    \cup [id : Ids, phase : {"failed"}, reason : Failures]

(* The tasks hold commands of the ground, and the queues keep their        *)
(* bounds.                                                                 *)
PipelineTypeOK ==
  /\ state \in MissionStates
  /\ frames \in 0..MaxSends /\ alarms \in 0..MaxEmergencies
  /\ worker \in [phase : {"receive", "begin", "queue"},
                 request : Requests \cup {None}, state : MissionStates]
  /\ transitions \in Seq(Requests) /\ Len(transitions) <= TransitionQueue
  /\ preparations \in Seq(Requests) /\ Len(preparations) <= ParachuteQueue
  /\ holds \in 0..HoldQueue
  /\ emergencies \in 0..EmergencyQueue /\ latch \in BOOLEAN
  /\ mission \in [start : Ids \cup {NoId}, fin : Ids \cup {NoId},
                  calibration : Ids \cup {NoId}]
  /\ responses \in Seq(Ids) /\ Len(responses) <= 2
  /\ parachute \in [phase : {"flush", "drain", "take"},
                    operation : Ids \cup {NoId}, moving : BOOLEAN,
                    completion : Completions \cup {None},
                    response : Ids \cup {NoId}]
  /\ worker.phase # "receive" => worker.request \in Requests
  /\ parachute.moving => parachute.operation # NoId

(* The tasks use the executor as its specification allows: whatever is     *)
(* proved of CommandExecutor holds of them.                                *)
ImplementsExecutor == Spec

(* A command is carried out by one task at a time: repetitions, failures   *)
(* to queue it and emergencies never put it into two places.               *)
OneOwner == \A id \in Ids : Cardinality(Owners(id)) <= 1

(* The tasks and queues hold what they may, and no command in two places.   *)
OwnershipIsSound == PipelineTypeOK /\ OneOwner

(* What a task still carries out is pending, or an emergency ended it: no  *)
(* command goes on after its task reported its outcome.                    *)
OnlyInterruptedGoOn ==
  \A id \in Ids : Owners(id) # {} =>
    /\ Find(cache, id) # {}
    /\ \/ IsPending(id)
       \/ EntryOf(id).reason = "interrupted_by_emergency"

(* When a flight begins nothing moves the parachute but what an emergency  *)
(* has ended: the Start and the moves exclude each other over the queues   *)
(* between three tasks.                                                    *)
FlightBeginsAtRest ==
  [][state = "command_receive" /\ state' = "liftoff_detection" =>
       \A id \in Ids :
         IsPending(id) => Owners(id) \cap {"preparations", "operation",
                                           "completion"} = {}]_vars

(* docs/01 7: after an emergency the parachute holds until a new command.  *)
(* Once the hold is taken a move begins only for a pending one.            *)
HoldsAfterEmergency ==
  [][~parachute.moving /\ parachute'.moving /\ holds = 0 =>
       IsPending(parachute'.operation)]_vars

(* docs/01 5: an accepted command gets an outcome later, so that some task *)
(* still carries it out while it has none.                                 *)
AcceptedGoesOn ==
  \A id \in Ids : IsPending(id) => Owners(id) # {}

=============================================================================
