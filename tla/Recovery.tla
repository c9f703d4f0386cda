------------------------------ MODULE Recovery ------------------------------
(***************************************************************************)
(* Recovery: after the flight the board makes itself safe, latches Recovery *)
(* in NVS and in RTC memory, and goes into Deep Sleep; it wakes every 10 s  *)
(* into a boot of its own, beacons for a window of 2 s and sleeps again,    *)
(* until the ground asks it to exit.  internalFlashTask owns the entry and  *)
(* the sleep, canTask the exit; safetyTask, missionRealtimeTask and         *)
(* sdLogTask report that their part is safe or flushed.                     *)
(*                                                                         *)
(* nvs and marker survive what RAM does not, and a reset comes between any  *)
(* two writes of them.  The marker is valid, with an entry time, or not.    *)
(* A timer of the code is a window that is open or over.  The transfer of   *)
(* the log of the microSD, the same as that of the internal flash, is left  *)
(* out.                                                                     *)
(***************************************************************************)
EXTENDS Naturals, Sequences

CONSTANTS
  Transfers,      \* transfer ids of the ground but 0
  RequestQueue,   \* entries of recovery_queue
  StatusQueue,    \* entries of recovery_status_queue
  LogLength,      \* frames of RecoveryLogData that the log takes
  MaxControls,    \* bound of the model: frames and commands of the ground
  MaxFaults       \* bound of the model: resets and failures of the board

ASSUME RecoveryAssumption ==
  /\ 0 \notin Transfers
  /\ {RequestQueue, StatusQueue, LogLength} \subseteq Nat \ {0}
  /\ {MaxControls, MaxFaults} \subseteq Nat

VARIABLES
  nvs,       \* active_v1 in NVS: "active" or "inactive"
  marker,    \* recovery_marker in RTC memory is valid
  board,     \* "flight" (normal boot), "recovery" (recovery only), "asleep"
  wake,      \* recovery_wake_valid
  flight,    \* "before" the cutoff in Descent, "cutoff", or "due" after 120 s
  auto,      \* safetyTask: recovery_entry_queued
  requested, \* recovery_requested
  safe,      \* recovery_power_safe, _motor_safe, _sd_flushed, and
             \* persistence_flushed
  signal,    \* persistence_queue holds flush_and_safe
  owner,     \* internalFlashTask: its RecoveryRuntime and what it waits for
  command,   \* recovery_mode_command: "none", "pending" or "sent"
  requests,  \* recovery_queue
  statuses,  \* recovery_status_queue
  can,       \* canTask: the status it has to send, and how far it is
  exit,      \* the request to exit: transaction, valid arguments, prepared
  controls,  \* frames and commands of the ground so far
  faults     \* resets and failures so far

latches == <<nvs, marker>>
entry == <<flight, auto, requested, safe, signal, command>>
wires == <<requests, statuses, can, exit>>
bounds == <<controls, faults>>
vars == <<latches, board, wake, entry, owner, wires, bounds>>

NoStatus == [opcode |-> "none", id |-> 0, status |-> "none"]
NoExit == [id |-> 0, valid |-> FALSE, prepared |-> FALSE]
NoDump == [id |-> 0, left |-> 0]

Enter == [kind |-> "enter"]
Controls == [kind : {"control"}, opcode : {"wake", "start", "stop"},
             id : Transfers]
Statuses == {"ready", "dumping", "complete", "aborted", "busy",
             "invalid_state", "invalid_argument", "io_error"}

Fault == faults < MaxFaults /\ faults' = faults + 1

(* A task that finds the queue full drops what it sends.                   *)
Offered(queue, capacity, x) ==
  IF Len(queue) < capacity THEN Append(queue, x) ELSE queue

(* RecoveryRuntime: requestEntry, markResourcesSafeAndFlushed, wake.        *)
Requested(o) ==
  IF o.runtime # "inactive" THEN o ELSE [o EXCEPT !.runtime = "flushing_and_safeing"]
SafeAndFlushed(o) ==
  IF o.runtime # "flushing_and_safeing" THEN o
  ELSE [o EXCEPT !.runtime = "ready_for_deep_sleep"]
Woken(valid) == IF valid THEN "wake_command_window" ELSE "inactive"

-----------------------------------------------------------------------------
(* Boot: main and ProductionRuntime::start.                                *)
(***************************************************************************)
(* RAM after a boot in the given mode; in recovery internalFlashTask       *)
(* starts as requested, and with the beacon to be sent.                    *)
Booted(mode, valid) ==
  /\ board' = mode
  /\ wake' = valid
  /\ requested' = (mode = "recovery")
  /\ safe' = [power |-> FALSE, motor |-> mode = "recovery", sd |-> FALSE,
              flash |-> FALSE]
  /\ owner' = [runtime |-> Woken(valid), waiting |-> FALSE, flushing |-> FALSE,
               over |-> FALSE, marking |-> FALSE, dump |-> NoDump]
  /\ command' = IF mode = "recovery" THEN "pending" ELSE "none"
  /\ statuses' = IF mode = "recovery"
                 THEN <<[opcode |-> "wake", id |-> 0,
                         status |-> IF valid THEN "ready" ELSE "internal"]>>
                 ELSE <<>>
  /\ auto' = FALSE /\ signal' = FALSE /\ requests' = <<>>
  /\ can' = [phase |-> "idle", status |-> NoStatus]
  /\ exit' = NoExit

(* The evidence of Recovery: the marker, the wake cause, and the latch,    *)
(* which counts as set when NVS cannot be read.                            *)
MutBoot(timer, read) ==
  LET recovery == marker' \/ timer
      valid == (marker' /\ timer) \/ read # "inactive"
  IN Booted(IF recovery THEN "recovery" ELSE "flight", recovery /\ valid)
Boot(timer, read) ==
  LET recovery == marker' \/ timer \/ read # "inactive"
      valid == (marker' /\ timer) \/ read # "inactive"
  IN Booted(IF recovery THEN "recovery" ELSE "flight", valid)

Init ==
  /\ nvs = "inactive" /\ marker = FALSE
  /\ board = "flight" /\ wake = FALSE
  /\ flight = "before" /\ auto = FALSE /\ requested = FALSE
  /\ safe = [power |-> FALSE, motor |-> FALSE, sd |-> FALSE, flash |-> FALSE]
  /\ signal = FALSE /\ command = "none"
  /\ owner = [runtime |-> "inactive", waiting |-> FALSE, flushing |-> FALSE,
              over |-> FALSE, marking |-> FALSE, dump |-> NoDump]
  /\ requests = <<>> /\ statuses = <<>>
  /\ can = [phase |-> "idle", status |-> NoStatus]
  /\ exit = NoExit
  /\ controls = 0 /\ faults = 0

(* A reset or a loss of power, at any time.  RTC memory may be lost, as it *)
(* is when the marker is half written; the flight is restored from its     *)
(* checkpoint or begins anew.                                              *)
Reset ==
  /\ Fault
  /\ marker' \in {FALSE, marker}
  /\ flight' \in {"before", flight}
  /\ \E read \in {nvs, "unreadable"} : Boot(FALSE, read)
  /\ UNCHANGED <<nvs, controls>>

(* The periodic wake from Deep Sleep.                                      *)
Wake ==
  /\ board = "asleep"
  /\ UNCHANGED <<latches, flight, controls>>
  /\ \/ Boot(TRUE, nvs) /\ UNCHANGED faults
     \/ Boot(TRUE, "unreadable") /\ Fault

Awake == board # "asleep"

-----------------------------------------------------------------------------
(* The flight, safetyTask, missionRealtimeTask and sdLogTask.              *)
(***************************************************************************)
Fly ==
  /\ board = "flight"
  /\ \/ flight = "before" /\ flight' = "cutoff"
     \/ flight = "cutoff" /\ flight' = "due"
  /\ UNCHANGED <<latches, board, wake, auto, requested, safe, signal, owner,
                 command, wires, bounds>>

(* safetyTask asks for the automatic entry until recovery_queue takes it.  *)
MutAutoEnter ==
  /\ board = "flight" /\ flight = "due" /\ ~auto
  /\ requests' = Offered(requests, RequestQueue, Enter)
  /\ auto' = TRUE
  /\ UNCHANGED <<latches, board, wake, flight, requested, safe, signal, owner,
                 command, statuses, can, exit, bounds>>
AutoEnter ==
  /\ board = "flight" /\ flight = "due" /\ ~auto
  /\ Len(requests) < RequestQueue
  /\ requests' = Append(requests, Enter)
  /\ auto' = TRUE
  /\ UNCHANGED <<latches, board, wake, flight, requested, safe, signal, owner,
                 command, statuses, can, exit, bounds>>

(* enter_recovery, in missionRealtimeTask; a full queue fails the command. *)
GroundEnter ==
  /\ board = "flight" /\ flight # "before" /\ ~requested
  /\ controls < MaxControls
  /\ controls' = controls + 1
  /\ requests' = Offered(requests, RequestQueue, Enter)
  /\ UNCHANGED <<latches, board, wake, entry, owner, statuses, can, exit,
                 faults>>

(* Power off and motor coasting, asked for in every round.                 *)
MakeSafe(part) ==
  /\ Awake /\ requested
  /\ \/ safe' = [safe EXCEPT ![part] = TRUE] /\ UNCHANGED faults
     \/ safe' = [safe EXCEPT ![part] = FALSE] /\ Fault
  /\ UNCHANGED <<latches, board, wake, flight, auto, requested, signal, owner,
                 command, wires, controls>>
SafePower == MakeSafe("power")
Coast == board = "flight" /\ MakeSafe("motor")

(* The flush of the microSD counts whether it succeeds or not.             *)
MutFlushSd ==
  /\ Awake /\ signal
  /\ signal' = FALSE
  /\ \/ safe' = [safe EXCEPT !.sd = TRUE] /\ UNCHANGED faults
     \/ Fault /\ UNCHANGED safe
  /\ UNCHANGED <<latches, board, wake, flight, auto, requested, owner,
                 command, wires, controls>>
FlushSd ==
  /\ Awake /\ signal
  /\ signal' = FALSE
  /\ safe' = [safe EXCEPT !.sd = TRUE]
  /\ UNCHANGED <<latches, board, wake, flight, auto, requested, owner,
                 command, wires, bounds>>

-----------------------------------------------------------------------------
(* internalFlashTask.                                                      *)
(***************************************************************************)
Owning == Awake /\ ~owner.marking

(* A request to enter: judged again, under state_mutex if it comes free in *)
(* 2 ms, and dropped otherwise.                                            *)
HandleEnter ==
  /\ Owning /\ requests # <<>> /\ Head(requests) = Enter
  /\ requests' = Tail(requests)
  /\ \/ /\ ~requested /\ flight # "before" /\ owner.runtime = "inactive"
        /\ requested' = TRUE
        /\ owner' = [Requested(owner) EXCEPT !.waiting = TRUE, !.flushing = TRUE]
        /\ safe' = [safe EXCEPT !.sd = FALSE, !.flash = FALSE]
        /\ signal' = TRUE
        /\ command' = "none"
        /\ UNCHANGED faults
     \/ /\ requested \/ flight = "before" \/ owner.runtime # "inactive"
        /\ UNCHANGED <<requested, owner, safe, signal, command, faults>>
     \/ /\ ~requested /\ Fault
        /\ UNCHANGED <<requested, owner, safe, signal, command>>
  /\ UNCHANGED <<latches, board, wake, flight, auto, statuses, can, exit,
                 controls>>

(* What a control of the ground is answered, with the dump it leaves:      *)
(* length is what the request leaves of the log, if its offset is in it.   *)
StartDump(id, length) ==
  CASE owner.dump.left > 0 -> [status |-> "busy", dump |-> owner.dump]
    [] owner.dump.left = 0 /\ length > LogLength ->
         [status |-> "invalid_argument", dump |-> owner.dump]
    [] owner.dump.left = 0 /\ length = 0 ->
         [status |-> "complete", dump |-> NoDump]
    [] OTHER -> [status |-> "dumping", dump |-> [id |-> id, left |-> length]]
StopDump(id) ==
  IF owner.dump.left > 0 /\ owner.dump.id = id
  THEN [status |-> "aborted", dump |-> NoDump]
  ELSE [status |-> "invalid_state", dump |-> owner.dump]

WakeStatus == IF board = "recovery" THEN "ready" ELSE "invalid_state"

AnswerTo(c, length) ==
  CASE c.opcode = "wake" -> [status |-> WakeStatus, dump |-> owner.dump]
    [] c.opcode # "wake" /\ board # "recovery" ->
         [status |-> "invalid_state", dump |-> owner.dump]
    [] c.opcode = "start" /\ board = "recovery" -> StartDump(c.id, length)
    [] OTHER -> StopDump(c.id)

HandleControl ==
  /\ Owning /\ requests # <<>> /\ Head(requests) # Enter
  /\ requests' = Tail(requests)
  /\ \E length \in 0..LogLength + 1 :
       LET c == Head(requests)
           answer == AnswerTo(c, length)
       IN /\ statuses' = Offered(statuses, StatusQueue,
                                 [opcode |-> c.opcode, id |-> c.id,
                                  status |-> answer.status])
          /\ owner' = [owner EXCEPT !.dump = answer.dump]
  /\ UNCHANGED <<latches, board, wake, entry, can, exit, bounds>>

(* One frame of the dump, or the end of it when the log cannot be read.    *)
Ended(status) ==
  Offered(statuses, StatusQueue,
          [opcode |-> "start", id |-> owner.dump.id, status |-> status])
Dump ==
  /\ Owning /\ owner.dump.left > 0
  /\ \/ /\ owner.dump.left > 1
        /\ owner' = [owner EXCEPT !.dump.left = @ - 1]
        /\ UNCHANGED <<statuses, faults>>
     \/ /\ owner.dump.left = 1
        /\ owner' = [owner EXCEPT !.dump = NoDump]
        /\ statuses' = Ended("complete") /\ UNCHANGED faults
     \/ /\ owner' = [owner EXCEPT !.dump = NoDump]
        /\ statuses' = Ended("io_error") /\ Fault
  /\ UNCHANGED <<latches, board, wake, entry, requests, can, exit, controls>>

(* flash_log_queue is empty.                                               *)
FlushFlash ==
  /\ Owning /\ owner.flushing
  /\ owner' = [owner EXCEPT !.flushing = FALSE]
  /\ safe' = [safe EXCEPT !.flash = TRUE]
  /\ UNCHANGED <<latches, board, wake, flight, auto, requested, signal,
                 command, wires, bounds>>

(* ensureActive, which may fail.                                           *)
EnsureActive ==
  \/ nvs' = "active" /\ UNCHANGED faults
  \/ nvs = "inactive" /\ UNCHANGED nvs /\ Fault

(* commitRecoveryEntryMarker: NVS first, then the marker.                  *)
AllSafe == safe.power /\ safe.motor /\ safe.sd /\ safe.flash
LatchEntry ==
  /\ Owning /\ owner.waiting /\ AllSafe
  /\ EnsureActive
  /\ owner' = [owner EXCEPT !.marking = TRUE]
  /\ UNCHANGED <<marker, board, wake, entry, wires, controls>>
MarkEntry ==
  /\ Awake /\ owner.marking /\ owner.waiting
  /\ marker' = TRUE
  /\ owner' = [SafeAndFlushed(owner) EXCEPT !.marking = FALSE, !.waiting = FALSE]
  /\ command' = "pending"
  /\ UNCHANGED <<nvs, board, wake, flight, auto, requested, safe, signal,
                 wires, bounds>>

(* The window of a wake, or the second a normal boot has for the beacon.   *)
WindowEnds ==
  /\ Awake /\ ~owner.over
  /\ board = "recovery" \/ owner.runtime = "ready_for_deep_sleep"
  /\ owner' = [owner EXCEPT !.over = TRUE]
  /\ UNCHANGED <<latches, board, wake, entry, wires, bounds>>

(* mayEnterDeepSleep; no transfer is ever begun with RecoveryRuntime.      *)
MutMayEnterDeepSleep ==
  /\ owner.runtime = "ready_for_deep_sleep"
  /\ owner.over \/ (board = "flight" /\ command = "sent")
MayEnterDeepSleep ==
  /\ owner.runtime \in {"ready_for_deep_sleep", "wake_command_window"}
  /\ owner.over \/ (board = "flight" /\ command = "sent")

(* enterPeriodicDeepSleep: prepareMarker renews a valid marker and the     *)
(* latch in NVS with it.                                                   *)
LatchSleep ==
  /\ Owning /\ MayEnterDeepSleep /\ marker
  /\ EnsureActive
  /\ owner' = [owner EXCEPT !.marking = TRUE]
  /\ UNCHANGED <<marker, board, wake, entry, wires, controls>>
Sleep ==
  /\ Awake /\ MayEnterDeepSleep
  /\ \/ owner.marking /\ marker' = TRUE
     \/ ~owner.marking /\ ~marker /\ UNCHANGED marker
  /\ board' = "asleep"
  /\ UNCHANGED <<nvs, wake, entry, owner, wires, bounds>>

-----------------------------------------------------------------------------
(* canTask, with MissionRuntimeCan::read and write.                        *)
(***************************************************************************)
CanIdle == Awake /\ can.phase = "idle"

Armed(id, valid) == [id |-> id, valid |-> valid, prepared |-> FALSE]

(* A control of the ground; a request to exit is armed and goes on as a    *)
(* wake.  Its arguments are valid or not.                                  *)
Receive ==
  /\ CanIdle /\ controls < MaxControls
  /\ controls' = controls + 1
  /\ \E c \in Controls, leaves, valid \in BOOLEAN :
       LET full == Len(requests) >= RequestQueue
       IN /\ leaves => c.opcode = "wake"
          /\ exit' = IF leaves THEN Armed(c.id, valid) ELSE exit
          /\ requests' = Offered(requests, RequestQueue, c)
          /\ statuses' = IF full
                         THEN Offered(statuses, StatusQueue,
                                      [opcode |-> c.opcode, id |-> c.id,
                                       status |-> "busy"])
                         ELSE statuses
  /\ UNCHANGED <<latches, board, wake, entry, owner, can, faults>>

TakeStatus ==
  /\ CanIdle /\ can.status = NoStatus /\ statuses # <<>>
  /\ statuses' = Tail(statuses)
  /\ can' = [can EXCEPT !.status = Head(statuses)]
  /\ UNCHANGED <<latches, board, wake, entry, owner, requests, exit, bounds>>

(* The pending status answers the request to exit.                         *)
AnswersExit ==
  /\ can.status.opcode = "wake" /\ can.status.id # 0
  /\ can.status.id = exit.id

(* prepareExit: NVS first, then the marker; unless it was done before.     *)
Cleared == IF AnswersExit THEN NoExit ELSE exit
Leaves == AnswersExit /\ can.status.status = "ready" /\ exit.valid
EraseLatch ==
  /\ CanIdle /\ Leaves /\ ~exit.prepared
  /\ nvs' = "inactive"
  /\ can' = [can EXCEPT !.phase = "erased"]
  /\ UNCHANGED <<marker, board, wake, entry, owner, requests, statuses, exit,
                 bounds>>
ClearMarker ==
  /\ Awake /\ can.phase = "erased"
  /\ marker' = FALSE
  /\ exit' = [exit EXCEPT !.prepared = TRUE]
  /\ can' = [can EXCEPT !.phase = "idle"]
  /\ UNCHANGED <<nvs, board, wake, entry, owner, requests, statuses, bounds>>

(* The status is sent; the answer to a request to exit ends it.  When NVS  *)
(* could not be erased the answer is an error.                             *)
SendStatus ==
  /\ CanIdle /\ can.status # NoStatus /\ ~(Leaves /\ exit.prepared)
  /\ can' = [can EXCEPT !.status = NoStatus]
  /\ exit' = Cleared
  /\ IF Leaves THEN Fault ELSE UNCHANGED faults
  /\ UNCHANGED <<latches, board, wake, entry, owner, requests, statuses,
                 controls>>

(* Complete is sent, and the board restarts.                               *)
SendComplete ==
  /\ CanIdle /\ Leaves /\ exit.prepared
  /\ marker' \in {FALSE, marker}
  /\ flight' \in {"before", flight}
  /\ Boot(FALSE, nvs)
  /\ UNCHANGED <<nvs, bounds>>

(* RecoveryModeCommand: NVS is latched before each attempt to send it.     *)
SendMode ==
  /\ CanIdle /\ command = "pending"
  /\ EnsureActive
  /\ command' \in {"pending", "sent"}
  /\ UNCHANGED <<marker, board, wake, flight, auto, requested, safe, signal,
                 owner, wires, controls>>

-----------------------------------------------------------------------------
Next ==
  \/ Reset \/ Wake
  \/ Fly \/ AutoEnter \/ GroundEnter \/ SafePower \/ Coast \/ FlushSd
  \/ HandleEnter \/ HandleControl \/ Dump \/ FlushFlash
  \/ LatchEntry \/ MarkEntry \/ WindowEnds \/ LatchSleep \/ Sleep
  \/ Receive \/ TakeStatus \/ EraseLatch \/ ClearMarker \/ SendStatus
  \/ SendComplete \/ SendMode

(* The tasks run, their outputs obey in the end, and deadlines pass.       *)
(* Nothing is assumed of canTask, whose bus may be dead, nor of the ground. *)
Fairness ==
  /\ WF_vars(AutoEnter)
  /\ WF_vars(SafePower /\ safe'.power) /\ WF_vars(Coast /\ safe'.motor)
  /\ WF_vars(FlushSd) /\ WF_vars(HandleEnter) /\ WF_vars(HandleControl)
  /\ WF_vars(FlushFlash) /\ WF_vars(LatchEntry) /\ WF_vars(MarkEntry)
  /\ WF_vars(WindowEnds) /\ WF_vars(LatchSleep) /\ WF_vars(Sleep)

Spec == Init /\ [][Next]_vars /\ Fairness

-----------------------------------------------------------------------------
RecoveryTypeOK ==
  /\ nvs \in {"active", "inactive"} /\ marker \in BOOLEAN
  /\ board \in {"flight", "recovery", "asleep"} /\ wake \in BOOLEAN
  /\ flight \in {"before", "cutoff", "due"}
  /\ {auto, requested, signal} \subseteq BOOLEAN
  /\ safe \in [power : BOOLEAN, motor : BOOLEAN, sd : BOOLEAN, flash : BOOLEAN]
  /\ owner \in [runtime : {"inactive", "flushing_and_safeing",
                           "ready_for_deep_sleep", "wake_command_window"},
                waiting : BOOLEAN, flushing : BOOLEAN, over : BOOLEAN,
                marking : BOOLEAN,
                dump : [id : Transfers \cup {0}, left : 0..LogLength]]
  /\ command \in {"none", "pending", "sent"}
  /\ requests \in Seq(Controls \cup {Enter}) /\ Len(requests) <= RequestQueue
  /\ statuses \in Seq([opcode : {"wake", "start", "stop"},
                       id : Transfers \cup {0},
                       status : Statuses \cup {"internal"}])
  /\ Len(statuses) <= StatusQueue
  /\ can.phase \in {"idle", "erased"}
  /\ exit \in [id : Transfers \cup {0}, valid : BOOLEAN, prepared : BOOLEAN]
  /\ controls \in 0..MaxControls /\ faults \in 0..MaxFaults
  /\ can.phase = "erased" => Leaves

(* main.cpp: the evidence of Recovery suppresses the tasks of the flight,  *)
(* parachuteTask among them.  Before Recovery is asked for, no latch is    *)
(* set, and a reset in flight leads back into the flight.                  *)
FlightBootsAgain ==
  board = "flight" /\ ~requested => nvs = "inactive" /\ ~marker

(* docs/02 13: once the entry is done the marker stays until the board     *)
(* sleeps: what the ground asks in the second of the beacon, an exit       *)
(* included, does not take it away.                                        *)
SleepsMarked ==
  board = "flight" /\ owner.runtime = "ready_for_deep_sleep" => marker

(* docs/02 13: the entry is not kept waiting, by the bus or anything else: *)
(* once it has begun the board falls asleep, if it is not reset.           *)
Entering == board = "flight" /\ requested
EntrySleeps == Entering ~> ~Entering

(* docs/02 13: 120 s after liftoff the board enters Recovery by itself,    *)
(* whatever the ground sends meanwhile.                                    *)
DueUnlessFailed == board = "flight" /\ flight = "due" /\ faults = 0
AutoEntry == DueUnlessFailed ~> ~DueUnlessFailed

(* docs/02 13: an authorised wake ends in sleep, an exit or a reset,        *)
(* whatever the ground sends and whether the bus works or not.             *)
Authorised == board = "recovery" /\ wake
WindowSleeps == Authorised ~> ~Authorised

(* docs/02 13: the automatic entry, without the exception for failures.    *)
AutoEntryAlways ==
  (board = "flight" /\ flight = "due") ~> (board # "flight" \/ flight # "due")

(* CANCREATE.h:133: the exit is reported complete, and the board restarts  *)
(* into the normal boot.                                                   *)
CompleteExits == [][SendComplete => board' = "flight"]_vars

(* The evidence that decides a boot, the latch in NVS and the marker in RTC *)
(* memory, says what the board was doing: a flight is not left for a reset, *)
(* and an entry that is done is not forgotten.                              *)
EvidenceIsTrue == RecoveryTypeOK /\ FlightBootsAgain /\ SleepsMarked
=============================================================================
