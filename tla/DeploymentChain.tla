-------------------------- MODULE DeploymentChain --------------------------
(***************************************************************************)
(* The chain that opens the parachute and cuts its power: safetyTask,      *)
(* parachuteTask and the parts of missionRealtimeTask that drive them,     *)
(* around the flight sequence they share.                                  *)
(*                                                                         *)
(* The tasks run on two cores.  They meet in state_machine, which each of  *)
(* them reads only if it gets state_mutex without waiting, in para_queue   *)
(* and power_queue, which may be full, and in the power of the parachute.  *)
(* A failed try-lock is a choice: the holder may be on the other core.     *)
(*                                                                         *)
(* Left out, as nothing here depends on it: the auxiliary 5 V rail, the    *)
(* torque hold between two moves, telemetry, and the retry intervals,      *)
(* which become the choice of whether a request is made in this loop.      *)
(***************************************************************************)
EXTENDS FlightSequence, Sequences

CONSTANTS
  QueueCapacity,       \* of para_queue and of power_queue (4 in the code)
  MayStall             \* the tasks that may be held up for a unit of time

Tasks == {"safety", "parachute", "mission"}

ASSUME ChainAssumption ==
  /\ Backdate \in Nat /\ PressureGate \in Nat
  /\ DeploymentDeadline \in Nat /\ PowerCutoff \in Nat
  /\ Backdate < PressureGate /\ PressureGate <= DeploymentDeadline
  /\ DeploymentDeadline < PowerCutoff
  /\ MaxEpoch \in Nat \ {0} /\ MaxTime \in Nat /\ MaxResets \in Nat
  /\ QueueCapacity \in Nat \ {0}
  /\ MayStall \subseteq Tasks

VARIABLES
  safety,          \* the locals of safetyTask
  pressure_epoch,  \* pressure_deployment_epoch, set by airDataTask
  para_queue,      \* requests to parachuteTask
  power_queue,     \* requests to safetyTask, which owns the power
  power,           \* parachute_power_applied
  para,            \* the locals of parachuteTask
  commanded,       \* a manual move waits in parachute_command_queue
  cache,           \* mission_snapshot_cache, as much as is dispatched
  mission,         \* the locals of missionRealtimeTask
  moves            \* history: automatic moves, in this flight and this boot

chainVars == <<safety, pressure_epoch, para_queue, power_queue, power, para,
               commanded, cache, mission, moves>>
vars == <<flightVars, chainVars>>

-----------------------------------------------------------------------------
(* Requests and queues.                                                    *)

ParaRequests ==
  [kind : {"open"}, epoch : 0..MaxEpoch, authorized : BOOLEAN]
    \cup [kind : {"hold"}]
    \cup [kind : {"power_off"}, authorized : {TRUE}]
Open(e, authorized) == [kind |-> "open", epoch |-> e, authorized |-> authorized]
Hold == [kind |-> "hold"]
PowerOff == [kind |-> "power_off", authorized |-> TRUE]

PowerRequests == {[on |-> TRUE, cutoff |-> FALSE], [on |-> FALSE, cutoff |-> TRUE]}
TurnOn == [on |-> TRUE, cutoff |-> FALSE]
CutPower == [on |-> FALSE, cutoff |-> TRUE]

Full(q) == Len(q) >= QueueCapacity
(* xQueueSend and xQueueSendToFront without waiting.                       *)

Sent(q, r) == IF Full(q) THEN q ELSE Append(q, r)
SentFirst(q, r) == IF Full(q) THEN q ELSE <<r>> \o q

-----------------------------------------------------------------------------
InitialSafety ==
  [at |-> "observe", epoch |-> 0, liftoff_valid |-> FALSE, liftoff |-> 0,
   offset |-> 0, requested |-> FALSE, cutoff |-> FALSE]
InitialPara ==
  [at |-> "receive", off |-> FALSE, op |-> "none", automatic |-> 0,
   opened |-> 0]
InitialMission == [at |-> "tick", open_sent |-> FALSE, cutoff_sent |-> FALSE]
InitialCache == [epoch |-> 0, deployed |-> FALSE, cutoff |-> FALSE]

(* The true time since liftoff, by the clock of the flight sequence.       *)
Age == f.offset + (Mono - f.liftoff)

(* safetyTask's own clock, at the moment it decides.                       *)
MutSafetyClockReached ==
  f.phase = "descent" /\ Mono >= safety.liftoff

SafetyClockReached == safety.liftoff_valid /\ Mono >= safety.liftoff
SafetyElapsed ==
  IF SafetyClockReached THEN safety.offset + (Mono - safety.liftoff) ELSE 0

-----------------------------------------------------------------------------
(* safetyTask: first it serves the power requests and copies the snapshot. *)

Drained(s) ==
  [s EXCEPT !.cutoff =
     @ \/ \E i \in 1..Len(power_queue) : power_queue[i].cutoff]

MutCopied(s) ==
  CASE f.epoch # s.epoch ->
         [s EXCEPT !.epoch = f.epoch, !.cutoff = f.cutoff,
                   !.requested = f.phase = "descent"]
    [] f.epoch = s.epoch /\ f.phase \in Airborne /\ ~s.liftoff_valid ->
         [s EXCEPT !.liftoff_valid = TRUE, !.liftoff = f.liftoff]
    [] OTHER -> s

Copied(s) ==
  LET offset == IF f.invalidated THEN f.elapsed ELSE 0
      flying == f.phase \in Airborne
      deployed == f.phase = "descent"
  IN CASE f.epoch # s.epoch ->
            [s EXCEPT !.epoch = f.epoch, !.cutoff = f.cutoff,
                      !.liftoff_valid = flying, !.liftoff = f.liftoff,
                      !.offset = offset, !.requested = deployed]
       [] f.epoch = s.epoch /\ flying /\ ~s.liftoff_valid ->
            [s EXCEPT !.liftoff_valid = TRUE, !.liftoff = f.liftoff,
                      !.offset = offset, !.requested = @ \/ deployed]
       [] OTHER -> [s EXCEPT !.requested = @ \/ deployed]

(* Each request read turns the power off once a cutoff is latched; without *)
(* one the last request decides.                                           *)
MutPowerServed ==
  IF power_queue = <<>> THEN power ELSE power_queue[Len(power_queue)].on

PowerServed ==
  IF power_queue = <<>> THEN power
  ELSE ~Drained(safety).cutoff /\ power_queue[Len(power_queue)].on

SafetyObserve(locked) ==
  /\ running /\ safety.at = "observe"
  /\ power' = PowerServed /\ power_queue' = <<>>
  /\ safety' = [IF locked THEN Copied(Drained(safety)) ELSE Drained(safety)
                  EXCEPT !.at = "decide"]
  /\ UNCHANGED <<flightVars, pressure_epoch, para_queue, para, commanded,
                 cache, mission, moves>>

(* Then it asks for the deployment and cuts the power, each by its clock.  *)
MutDeploymentAsked(asks) == safety.requested \/ asks

DeploymentAsked(asks) == safety.requested \/ (asks /\ ~Full(para_queue))

SafetyDecide ==
  LET asks == /\ ~safety.requested
              /\ \/ /\ pressure_epoch = safety.epoch
                    /\ SafetyElapsed >= PressureGate
                 \/ SafetyElapsed >= DeploymentDeadline
      cuts == /\ ~safety.cutoff
              /\ SafetyClockReached /\ SafetyElapsed >= PowerCutoff
      asked == IF asks THEN SentFirst(para_queue, Open(safety.epoch, TRUE))
                       ELSE para_queue
  IN /\ running /\ safety.at = "decide"
     /\ para_queue' = IF cuts THEN Sent(asked, PowerOff) ELSE asked
     /\ power' = (power /\ ~cuts)
     /\ safety' = [safety EXCEPT !.at = "observe",
                                 !.requested = DeploymentAsked(asks),
                                 !.cutoff = @ \/ cuts]
     /\ UNCHANGED <<flightVars, pressure_epoch, power_queue, para, commanded,
                    cache, mission, moves>>

-----------------------------------------------------------------------------
(* parachuteTask: the requests first, one at a time.                       *)

MutAccepts(r, locked) ==
  /\ locked /\ r.epoch # 0 /\ r.epoch = f.epoch /\ f.phase = "descent"
  /\ r.epoch \notin {para.opened, para.automatic}

(* An open request of missionRealtimeTask is checked against the state,    *)
(* one of safetyTask is not; a second one for the same epoch is dropped.   *)
Accepts(r, locked) ==
  /\ \/ r.authorized
     \/ locked /\ r.epoch # 0 /\ r.epoch = f.epoch /\ f.phase = "descent"
  /\ r.epoch \notin {para.opened, para.automatic}

ReceiveOpen(r, locked, asks) ==
  /\ r.kind = "open"
  /\ IF Accepts(r, locked)
     THEN /\ para' = [para EXCEPT !.automatic = r.epoch, !.off = FALSE]
          /\ power_queue' = IF asks /\ ~power THEN Sent(power_queue, TurnOn)
                                              ELSE power_queue
     ELSE UNCHANGED <<para, power_queue>>
  /\ UNCHANGED power

ReceiveHold(r) ==
  /\ r.kind = "hold"
  /\ para' = [para EXCEPT !.op = "none", !.off = FALSE]
  /\ UNCHANGED <<power, power_queue>>

(* queuePower switches the power itself when power_queue is full.          *)
ReceivePowerOff(r) ==
  /\ r.kind = "power_off"
  /\ para' = [para EXCEPT !.op = "none", !.off = TRUE]
  /\ power_queue' = Sent(power_queue, CutPower)
  /\ power' = (power /\ ~Full(power_queue))

ParaReceive(locked, asks) ==
  /\ running /\ para.at = "receive" /\ para_queue # <<>>
  /\ \/ ReceiveOpen(Head(para_queue), locked, asks)
     \/ ReceiveHold(Head(para_queue))
     \/ ReceivePowerOff(Head(para_queue))
  /\ para_queue' = Tail(para_queue)
  /\ UNCHANGED <<flightVars, safety, pressure_epoch, commanded, cache,
                 mission, moves>>

(* With no request left, and no operation, a manual move may be taken.     *)
ParaCommand(takes) ==
  /\ running /\ para.at = "receive" /\ para_queue = <<>>
  /\ IF takes
     THEN /\ commanded /\ para.op = "none"
          /\ commanded' = FALSE
          /\ para' = [para EXCEPT !.at = "act", !.op = "pending", !.off = FALSE]
     ELSE /\ para' = [para EXCEPT !.at = "act"]
          /\ UNCHANGED commanded
  /\ UNCHANGED <<flightVars, safety, pressure_epoch, para_queue, power_queue,
                 power, cache, mission, moves>>

(* What an automatic open still needs when its turn has come.              *)

MayOpen(locked) ==
  locked /\ f.epoch = para.automatic /\ f.phase = "descent" /\ ~f.cutoff

AutomaticPending == para.automatic # 0 /\ para.opened # para.automatic

MutMoveConsumed(done) == IF done THEN para.opened ELSE para.automatic

(* opened_epoch is consumed before the move is issued, so that no failure  *)
(* of the move makes it issued again.                                      *)
MoveConsumed(done) == para.automatic

Counted == [n \in {"flight", "boot"} |->
              IF moves[n] = 2 THEN 2 ELSE moves[n] + 1]

(* The rest of the loop.  When its interval is over (tries) it asks for    *)
(* the power or, powered, finds the servo initialized; `done' is an        *)
(* operation over within this loop, by its end, its failure or its timeout.*)
ParaAct(tries, locked, done) ==
  /\ running /\ para.at = "act"
  /\ power_queue' = IF ~para.off /\ ~power /\ tries
                    THEN Sent(power_queue, TurnOn)
                    ELSE power_queue
  /\ LET opens == AutomaticPending /\ para.op = "none" /\ MayOpen(locked)
         working == ~para.off /\ power /\ tries
         op == CASE para.op = "pending" -> "manual"
                 [] opens -> "automatic"
                 [] OTHER -> para.op
     IN /\ para' = [para EXCEPT
                      !.at = "receive",
                      !.op = IF ~working THEN @ ELSE IF done THEN "none" ELSE op,
                      !.opened = IF working /\ opens THEN MoveConsumed(done)
                                                     ELSE @]
        /\ moves' = IF working /\ opens THEN Counted ELSE moves
  /\ UNCHANGED <<flightVars, safety, pressure_epoch, para_queue, power,
                 commanded, cache, mission>>

-----------------------------------------------------------------------------
(* missionRealtimeTask: commands, tick, snapshot, dispatch.                *)

MissionCommanding == running /\ mission.at = "tick"

(* A Start or a rollback opens a new flight.  Bound: epochs never wrap.    *)
NewFlight ==
  /\ MissionCommanding /\ f.epoch < MaxEpoch
  /\ Start \/ RollBack
  /\ moves' = [n \in {"flight", "boot"} |-> 0]
  /\ UNCHANGED <<safety, pressure_epoch, para_queue, power_queue, power, para,
                 commanded, cache, mission>>

(* A hold that finds no room becomes a loss of power.                      *)
CancelSequence ==
  /\ MissionCommanding
  /\ Cancel
  /\ para_queue' = SentFirst(para_queue, Hold)
  /\ power' = (power /\ ~Full(para_queue))
  /\ UNCHANGED <<safety, pressure_epoch, power_queue, para, commanded, cache,
                 mission, moves>>

(* An ActuatorEmergencyStop carried out in CommandReceive, and a Start that *)
(* is refused after its preparation: both order a hold.                    *)
GroundHold(emergency) ==
  /\ MissionCommanding /\ f.phase = "ground"
  /\ power_queue' = IF emergency THEN Sent(power_queue, TurnOn) ELSE power_queue
  /\ para_queue' = SentFirst(para_queue, Hold)
  /\ UNCHANGED <<flightVars, safety, pressure_epoch, power, para, commanded,
                 cache, mission, moves>>

MissionTick ==
  /\ MissionCommanding
  /\ \/ \E seen, apex \in BOOLEAN : Tick(seen, apex)
     \/ UNCHANGED flightVars                       \* state_mutex was taken
  /\ mission' = [mission EXCEPT !.at = "refresh"]
  /\ UNCHANGED <<safety, pressure_epoch, para_queue, power_queue, power, para,
                 commanded, cache, moves>>

MissionRefresh(locked) ==
  /\ running /\ mission.at = "refresh"
  /\ cache' = IF locked
              THEN [epoch |-> f.epoch, deployed |-> f.phase = "descent",
                    cutoff |-> f.cutoff]
              ELSE cache
  /\ mission' = [mission EXCEPT !.at = "dispatch"]
  /\ UNCHANGED <<flightVars, safety, pressure_epoch, para_queue, power_queue,
                 power, para, commanded, moves>>

MissionDispatch ==
  LET cuts == cache.cutoff /\ ~mission.cutoff_sent
      after_cut == IF cuts THEN Sent(para_queue, PowerOff) ELSE para_queue
      opens == cache.deployed /\ ~mission.open_sent
  IN /\ running /\ mission.at = "dispatch"
     /\ power_queue' = IF cuts THEN Sent(power_queue, CutPower) ELSE power_queue
     /\ para_queue' = IF opens THEN Sent(after_cut, Open(cache.epoch, FALSE))
                               ELSE after_cut
     /\ mission' = [at |-> "tick",
                    open_sent |-> cache.deployed
                                  /\ (mission.open_sent \/ ~Full(after_cut)),
                    cutoff_sent |-> cache.epoch # 0
                                    /\ (mission.cutoff_sent \/ cuts)]
     /\ UNCHANGED <<flightVars, safety, pressure_epoch, power, para, commanded,
                    cache, moves>>

-----------------------------------------------------------------------------
(* airDataTask: its apex verdict goes to safetyTask directly.  A verdict   *)
(* needs samples from EngineBurn or Control of that epoch.                 *)
PressureApex ==
  /\ running /\ f.phase = "flight"
  /\ pressure_epoch' = f.epoch
  /\ UNCHANGED <<flightVars, safety, para_queue, power_queue, power, para,
                 commanded, cache, mission, moves>>

(* A para_open or para_close of the ground is accepted in CommandReceive   *)
(* and waits in parachute_command_queue.  An emergency stop closes its     *)
(* transaction but leaves it queued: it may be taken after the Start.      *)
ManualMove ==
  /\ running /\ f.phase = "ground" /\ ~commanded
  /\ commanded' = TRUE
  /\ UNCHANGED <<flightVars, safety, pressure_epoch, para_queue, power_queue,
                 power, para, cache, mission, moves>>

(* A reset loses all of the tasks' state and leaves the power off.         *)
PowerCycle ==
  /\ \E keeps_rtc_memory \in BOOLEAN : Reset(keeps_rtc_memory)
  /\ safety' = InitialSafety /\ para' = InitialPara
  /\ mission' = InitialMission /\ cache' = InitialCache
  /\ para_queue' = <<>> /\ power_queue' = <<>> /\ power' = FALSE
  /\ pressure_epoch' = 0 /\ commanded' = FALSE
  /\ moves' = [moves EXCEPT !["boot"] = 0]

Reboot == Boot /\ UNCHANGED chainVars

(* A loop of a task takes milliseconds, a unit of the clock seconds.       *)
(* Unless a task may stall, the clock moves on only between its loops: its *)
(* queue drained, the tick done, and for safetyTask, which tries in each   *)
(* of its loops, the snapshot got.  A failed try-lock, a full queue and    *)
(* any order of the tasks' steps are possible within a unit all the same.  *)
Prompt ==
  [safety    |-> /\ safety.at = "observe" /\ power_queue = <<>>
                 /\ safety.epoch = f.epoch
                 /\ f.phase \in Airborne => safety.liftoff_valid,
   parachute |-> para.at = "receive" /\ para_queue = <<>>,
   mission   |-> /\ mission.at = "tick"
                 /\ f.phase \in Airborne => f.elapsed = Age]
(* Bound: on the ground nothing is timed.                                  *)
Pass ==
  /\ f.phase # "ground"
  /\ \A task \in Tasks \ MayStall : Prompt[task]
  /\ Advance
  /\ UNCHANGED chainVars

ChainInit ==
  /\ Init
  /\ safety = InitialSafety /\ para = InitialPara
  /\ mission = InitialMission /\ cache = InitialCache
  /\ para_queue = <<>> /\ power_queue = <<>> /\ power = FALSE
  /\ pressure_epoch = 0 /\ commanded = FALSE
  /\ moves = [n \in {"flight", "boot"} |-> 0]

SafetyTask == SafetyDecide \/ \E locked \in BOOLEAN : SafetyObserve(locked)
ParachuteTask ==
  \/ \E locked, asks \in BOOLEAN : ParaReceive(locked, asks)
  \/ \E takes \in BOOLEAN : ParaCommand(takes)
  \/ \E tries, locked, done \in BOOLEAN : ParaAct(tries, locked, done)
MissionRealtimeTask ==
  \/ MissionTick
  \/ \E locked \in BOOLEAN : MissionRefresh(locked)
  \/ MissionDispatch
MissionCommand ==
  \/ NewFlight
  \/ CancelSequence
  \/ \E emergency \in BOOLEAN : GroundHold(emergency)

ChainNext ==
  \/ SafetyTask
  \/ ParachuteTask
  \/ MissionRealtimeTask
  \/ MissionCommand
  \/ PressureApex
  \/ ManualMove
  \/ PowerCycle
  \/ Reboot
  \/ Pass

ChainSpec == ChainInit /\ [][ChainNext]_vars

-----------------------------------------------------------------------------
(* Properties.                                                             *)

Flights ==
  [phase : Phases, epoch : 0..MaxEpoch, liftoff : Nat, elapsed : Nat,
   offset : Nat, invalidated : BOOLEAN, cutoff : BOOLEAN]

(* Every variable keeps its type; the queues keep their capacity.          *)
ChainTypeOK ==
  /\ f \in Flights /\ running \in BOOLEAN
  /\ rtc \in Nat /\ boot_at \in 0..rtc /\ resets \in Nat
  /\ safety \in [at : {"observe", "decide"}, epoch : 0..MaxEpoch,
                  liftoff_valid : BOOLEAN, liftoff : Nat, offset : Nat,
                  requested : BOOLEAN, cutoff : BOOLEAN]
  /\ para \in [at : {"receive", "act"}, off : BOOLEAN,
                op : {"none", "pending", "manual", "automatic"},
                automatic : 0..MaxEpoch, opened : 0..MaxEpoch]
  /\ mission \in [at : {"tick", "refresh", "dispatch"}, open_sent : BOOLEAN,
                   cutoff_sent : BOOLEAN]
  /\ cache \in [epoch : 0..MaxEpoch, deployed : BOOLEAN, cutoff : BOOLEAN]
  /\ para_queue \in Seq(ParaRequests) /\ Len(para_queue) <= QueueCapacity
  /\ power_queue \in Seq(PowerRequests) /\ Len(power_queue) <= QueueCapacity
  /\ power \in BOOLEAN /\ commanded \in BOOLEAN
  /\ pressure_epoch \in 0..MaxEpoch
  /\ moves \in [{"flight", "boot"} -> 0..2]

(* Two tasks ask for the same move, over a queue and through a failing     *)
(* servo, and it is issued at most once in a boot (docs/02 section 9).     *)
OneMovePerBoot == moves["boot"] <= 1

(* Whatever safetyTask asks for, by a stale epoch or a wrong clock, the    *)
(* parachute has moved by itself only in the Descent of this flight, not   *)
(* before the pressure gate.                                               *)
MoveIsDeployment ==
  running /\ moves["boot"] > 0 => f.phase = "descent" /\ Age >= PressureGate

(* A deployment that safetyTask has asked for is in the queue or already   *)
(* accepted, even if the queue was full when it asked (docs/09 section 7). *)
SafetyRequestIsKept ==
  running /\ f.phase = "flight" /\ safety.epoch = f.epoch /\ safety.requested =>
    \/ \E i \in 1..Len(para_queue) : para_queue[i] = Open(f.epoch, TRUE)
    \/ f.epoch \in {para.automatic, para.opened}

(* Once safetyTask has latched the cutoff, no request of any task brings   *)
(* the power back.                                                         *)
CutoffHolds ==
  [][safety.cutoff /\ safety'.cutoff /\ power' => power]_vars

(* The power of a flight is not cut before 25 s (docs/02 section 11).      *)
CutoffIsNotEarly ==
  running /\ safety.cutoff /\ safety.epoch = f.epoch /\ f.phase \in Airborne =>
    Age >= PowerCutoff

(* The servo is moved by the Descent of this flight, once a boot.          *)
AutomaticMove == ChainTypeOK /\ OneMovePerBoot /\ MoveIsDeployment

(* Nothing of a flight that was cancelled or rolled back reaches the next  *)
(* one of the boot: no request, epoch or clock moves the servo again or    *)
(* too soon, or cuts the power early.                                      *)
FlightsAreApart == AutomaticMove /\ CutoffIsNotEarly

(* A flight is opened once, resets included (docs/08e section 3).          *)
OneMovePerFlight == moves["flight"] <= 1

-----------------------------------------------------------------------------
(* Liveness.                                                               *)

(* Every task runs again and again: each is alone at its priority, and     *)
(* waits only in vTaskDelay and in bus calls with a timeout.  state_mutex  *)
(* is held for a copy, so that a task that keeps trying gets it; a powered *)
(* servo answers sometimes; an operation ends by its timeout of 3 s.       *)
SafetyIsFair == WF_vars(SafetyTask) /\ SF_vars(SafetyObserve(TRUE))
ParachuteIsFair ==
  /\ WF_vars(ParachuteTask)
  /\ SF_vars(\E locked \in BOOLEAN : ParaReceive(locked, TRUE))
  /\ SF_vars(ParaAct(TRUE, TRUE, TRUE))
MissionIsFair ==
  /\ WF_vars(MissionRealtimeTask) /\ SF_vars(MissionRefresh(TRUE))
  /\ SF_vars(MissionTick /\ f'.elapsed = Age)

FairSpec == ChainSpec /\ SafetyIsFair /\ ParachuteIsFair /\ MissionIsFair
(* missionRealtimeTask hangs, at any point of its loop.                    *)
HungMissionSpec == ChainSpec /\ SafetyIsFair /\ ParachuteIsFair
(* Only safetyTask is left (docs/02 section 11).                           *)
SafetyAloneSpec == ChainSpec /\ SafetyIsFair

Opened == moves["flight"] > 0
Over == f.cutoff \/ safety.cutoff \/ f.phase \in {"ground", "waiting"}

(* A deployment asked for by safetyTask is carried out, unless the cutoff, *)
(* a rollback or a reset comes first (docs/09 section 7).                  *)
RequestIsServed ==
  (\E i \in 1..Len(para_queue) : para_queue[i] = Open(f.epoch, TRUE))
    ~> (Opened \/ Over)

(* As RequestIsServed, where parachuteTask and missionRealtimeTask run on. *)
RequestIsServedIfFair == ParachuteIsFair /\ MissionIsFair => RequestIsServed

(* Every Descent is carried out by parachuteTask (docs/02 section 8).      *)
DescentOpens == f.phase = "descent" ~> (Opened \/ Over)

(* A flight over 25 s old loses the parachute's power, even when no task   *)
(* but safetyTask runs (docs/02 section 11).                               *)
PowerIsCut ==
  (running /\ f.phase \in Airborne /\ Age >= PowerCutoff)
    ~> (~power \/ f.phase \notin Airborne)
=============================================================================
