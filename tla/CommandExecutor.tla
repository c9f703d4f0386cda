-------------------------- MODULE CommandExecutor --------------------------
(***************************************************************************)
(* mission::CommandExecutor: which commands of the ground station are      *)
(* executed, which are refused, and which are answered from the cache of   *)
(* the latest transactions.                                                *)
(*                                                                         *)
(* entries_ is the sequence cache, from the entry of the smallest age to   *)
(* that of the largest: remember, finish and actuatorEmergency give an     *)
(* entry the next age, which puts it last, and allocate evicts the oldest  *)
(* that is not pending.  Which slot of the array an entry occupies is left *)
(* out, and age_, a uint32_t, does not wrap.  An entry is pending exactly  *)
(* while its phase is "accepted".                                          *)
(***************************************************************************)
EXTENDS SequencesExt

CONSTANTS
  CacheSize,   \* kResultCacheSize
  Ids,         \* the transaction ids in use, without the reserved 0
  Commands,    \* the commands the ground sends
  Payloads,    \* the arguments it sends with them
  Contexts,    \* what the runtime may pass as the CommandContext
  Failures     \* the reasons for which a command may fail

NoId == 0
AllZero == "zero"

(* domainFor: what a command needs for itself.                             *)
Domains == {"sequence", "fin", "parachute", "calibration", "storage",
            "recovery"}
Starts == {"start_sequence", "force_start_sequence"}
FinCommands == {"fin_free", "set_fin_zero", "start_fin_zero_hold",
                "fin_move_relative"}
Retired == {"para_free", "para_hold", "para_move_relative",
            "set_para_open", "set_para_close"}
Known == Starts \cup (FinCommands \ {"start_fin_zero_hold"}) \cup Retired
           \cup {"cancel_sequence", "disable_fin_control", "para_open",
                 "para_close", "run_preflight_calibration",
                 "export_flash_log", "enter_recovery"}
DomainOf(command) ==
  CASE command \in FinCommands -> "fin"
    [] command \in Retired \cup {"para_open", "para_close"} -> "parachute"
    [] command = "run_preflight_calibration" -> "calibration"
    [] command = "export_flash_log" -> "storage"
    [] command = "enter_recovery" -> "recovery"
    [] OTHER -> "sequence"

MissionStates == {"unknown", "command_receive", "liftoff_detection",
                  "engine_burn", "control", "descent"}

(* stateValid: the mission states that accept a command.                   *)
ValidStates(command) ==
  CASE command = "cancel_sequence" -> {"liftoff_detection"}
    [] command = "disable_fin_control" ->
         {"liftoff_detection", "engine_burn", "control"}
    [] command = "enter_recovery" -> {"descent"}
    [] OTHER -> {"command_receive"}

Phases == {"accepted", "rejected", "completed", "failed"}
Outcomes == {"completed", "failed"}
Reasons == {"none", "invalid_argument", "invalid_state", "not_supported",
            "safety_interlock", "busy", "internal_error",
            "device_unavailable", "not_configured", "timeout",
            "interrupted_by_emergency"}
Requests == [id : Ids, command : Commands, args : Payloads]
Entries == [request : Requests, phase : Phases, reason : Reasons]
AllContexts ==
  [state : MissionStates, deployment_power_cutoff_done : BOOLEAN,
   resources_preallocated : BOOLEAN, fin_available : BOOLEAN,
   parachute_available : BOOLEAN, motor_test_busy : BOOLEAN,
   calibration_supported : BOOLEAN, storage_export_supported : BOOLEAN,
   fin_safe_commands_supported : BOOLEAN]

(* There is room for a pending command of each domain.                     *)
ASSUME CacheAssumption ==
  /\ CacheSize \in Nat
  /\ CacheSize >= Cardinality({DomainOf(command) : command \in Commands})
ASSUME RequestAssumption ==
  /\ NoId \notin Ids /\ IsFiniteSet(Commands)
  /\ Failures \subseteq Reasons
  /\ Contexts \subseteq AllContexts

VARIABLES
  cache,   \* entries_, the oldest first
  guard    \* the overtravel latch, and whether the last sample was inside

execVars == <<cache, guard>>

-----------------------------------------------------------------------------
(* find, busy and the pending entries.                                     *)
Pending(e) == e.phase = "accepted"
MutFind(c, id) == {k \in DOMAIN c : c[k].request.id = id /\ Pending(c[k])}
Find(c, id) == {k \in DOMAIN c : c[k].request.id = id}
Busy(c, domain) ==
  \E k \in DOMAIN c :
    Pending(c[k]) /\ DomainOf(c[k].request.command) = domain
AnyPending(c) == \E k \in DOMAIN c : Pending(c[k])
Settled(c) == {k \in DOMAIN c : ~Pending(c[k])}

(* allocate and remember: a full cache gives up its oldest settled entry,  *)
(* and forgets the new one if it has none.                                 *)
MutRememberNewest(c, e) ==
  IF Len(c) < CacheSize THEN Append(c, e)
  ELSE IF Settled(c) = {} THEN c
  ELSE Append(RemoveAt(c, Max(Settled(c))), e)
Remember(c, e) ==
  IF Len(c) < CacheSize THEN Append(c, e)
  ELSE IF Settled(c) = {} THEN c
  ELSE Append(RemoveAt(c, Min(Settled(c))), e)

(* A pending entry gets its outcome, and the next age.                     *)
Settle(c, k, phase, reason) ==
  Append(RemoveAt(c, k), [c[k] EXCEPT !.phase = phase, !.reason = reason])

(* clearFinOvertravelIfRecoverable, which begin calls on the ground only.  *)
Recover(g, state) ==
  [g EXCEPT !.latched = @ /\ ~(state = "command_receive" /\ g.inside)]

(* A calibration needs the rocket at rest, and what moves has to wait.     *)
MutConflict(c, domain, motor) ==
  /\ domain = "calibration"
  /\ Busy(c, "fin") \/ Busy(c, "parachute") \/ motor
Conflict(c, domain, motor) ==
  \/ /\ domain = "calibration"
     /\ Busy(c, "fin") \/ Busy(c, "parachute") \/ motor
  \/ /\ domain \in {"fin", "parachute"}
     /\ Busy(c, "calibration")

(* The guards of begin, in their order; the first that holds refuses.      *)
Refusals(r, ctx, latched, c) ==
  LET domain == DomainOf(r.command)
      refuse(when, reason) == [when |-> when, reason |-> reason]
  IN <<refuse(r.command \notin Known, "not_supported"),
       refuse(r.command \in Retired, "not_supported"),
       refuse(r.args # AllZero, "invalid_argument"),
       refuse(ctx.state \notin ValidStates(r.command), "invalid_state"),
       refuse(latched /\ r.command \in Starts \cup
                {"start_fin_zero_hold", "fin_move_relative"},
              "safety_interlock"),
       refuse(r.command = "enter_recovery"
                /\ ~ctx.deployment_power_cutoff_done, "safety_interlock"),
       refuse(r.command \in Starts
                /\ \/ Busy(c, "parachute") \/ Busy(c, "fin")
                   \/ Busy(c, "calibration") \/ ctx.motor_test_busy, "busy"),
       refuse(r.command \in Starts /\ ~ctx.resources_preallocated,
              "internal_error"),
       refuse(domain = "parachute" /\ Busy(c, "sequence"), "busy"),
       refuse(\/ domain = "fin" /\ ~ctx.fin_available
              \/ domain = "parachute" /\ ~ctx.parachute_available,
              "device_unavailable"),
       refuse(\/ domain = "fin" /\ ~ctx.fin_safe_commands_supported
              \/ domain = "calibration" /\ ~ctx.calibration_supported
              \/ domain = "storage" /\ ~ctx.storage_export_supported,
              "not_supported"),
       refuse(Busy(c, domain), "busy"),
       refuse(r.command \in Starts /\ AnyPending(c), "busy"),
       refuse(Conflict(c, domain, ctx.motor_test_busy), "busy")>>

(* begin: an id of the cache is never executed again: the same request is  *)
(* answered with its result so far, another one is a protocol error.       *)
Begin(c, g, r, ctx) ==
  LET cached == Find(c, r.id)
      refusals == Refusals(r, ctx, Recover(g, ctx.state).latched, c)
      refused == {i \in DOMAIN refusals : refusals[i].when}
      entry(phase, reason) ==
        [request |-> r, phase |-> phase, reason |-> reason]
      answer(phase, reason) ==
        [phase |-> phase, reason |-> reason, execute |-> FALSE,
         cache |-> c, guard |-> g]
      decide(phase, reason) ==
        [phase |-> phase, reason |-> reason, execute |-> phase = "accepted",
         cache |-> Remember(c, entry(phase, reason)),
         guard |-> Recover(g, ctx.state)]
  IN CASE r.id = NoId -> answer("rejected", "invalid_argument")
       [] r.id # NoId /\ cached # {} ->
            LET e == c[CHOOSE k \in cached : TRUE]
            IN IF e.request = r THEN answer(e.phase, e.reason)
               ELSE answer("rejected", "protocol_error")
       [] r.id # NoId /\ cached = {} /\ refused = {} ->
            decide("accepted", "none")
       [] OTHER -> decide("rejected", refusals[Min(refused)].reason)

(* finish: the outcome of a pending command.  An entry that is gone or has *)
(* its outcome already stays as it is.                                     *)
MutUnfinished(c, id) == Find(c, id)
Unfinished(c, id) == {k \in Find(c, id) : Pending(c[k])}
Finish(c, id, phase, reason) ==
  IF Unfinished(c, id) = {} THEN c
  ELSE Settle(c, CHOOSE k \in Unfinished(c, id) : TRUE, phase, reason)
FinishedGuard(c, g, id, phase) ==
  [g EXCEPT !.latched =
     @ /\ ~(phase = "completed" /\ \E k \in Unfinished(c, id) :
              c[k].request.command = "set_fin_zero")]

(* actuatorEmergency: the pending fin and parachute commands fail.  The    *)
(* loop goes through the array, so that either may get the smaller age.    *)
EmergencyAccepted(id, state) == id # NoId /\ state = "command_receive"
Interrupt(c, domain) ==
  LET of == {k \in DOMAIN c : /\ Pending(c[k])
                              /\ DomainOf(c[k].request.command) = domain}
  IN IF of = {} THEN c
     ELSE Settle(c, CHOOSE k \in of : TRUE, "failed",
                 "interrupted_by_emergency")
MutInterruptions(c) ==
  {Interrupt(Interrupt(Interrupt(c, "sequence"), "fin"), "parachute")}
Interruptions(c) ==
  {Interrupt(Interrupt(c, "fin"), "parachute"),
   Interrupt(Interrupt(c, "parachute"), "fin")}

-----------------------------------------------------------------------------
Init ==
  /\ cache = <<>>
  /\ guard = [latched |-> FALSE, inside |-> FALSE]

(* A request of the ground, known to the protocol or not.                  *)
BeginCommand(r, ctx) ==
  LET decision == Begin(cache, guard, r, ctx)
  IN /\ cache' = decision.cache
     /\ guard' = decision.guard

(* A task reports the end of a command, in time or after an emergency.     *)
FinishCommand(id, phase, reason) ==
  /\ reason \in IF phase = "completed" THEN {"none"} ELSE Failures
  /\ cache' = Finish(cache, id, phase, reason)
  /\ guard' = FinishedGuard(cache, guard, id, phase)

ActuatorEmergency(id, state) ==
  /\ EmergencyAccepted(id, state)
  /\ cache' \in Interruptions(cache)
  /\ UNCHANGED guard

(* observeFinOvertravel: a sample outside latches, one that is not usable  *)
(* allows no recovery.                                                     *)
ObserveFin(usable, inside) ==
  /\ guard' = [latched |-> guard.latched \/ (usable /\ ~inside),
               inside |-> usable /\ inside]
  /\ UNCHANGED cache

Next ==
  \/ \E r \in [id : Ids \cup {NoId}, command : Commands, args : Payloads],
        ctx \in Contexts : BeginCommand(r, ctx)
  \/ \E id \in Ids, phase \in Outcomes, reason \in Reasons :
       FinishCommand(id, phase, reason)
  \/ \E id \in Ids, state \in MissionStates : ActuatorEmergency(id, state)
  \/ \E usable, inside \in BOOLEAN : ObserveFin(usable, inside)

Spec == Init /\ [][Next]_execVars

-----------------------------------------------------------------------------
(* The cache holds at most CacheSize entries of requests it may get.       *)
ExecutorTypeOK ==
  /\ cache \in Seq(Entries) /\ Len(cache) <= CacheSize
  /\ guard \in [latched : BOOLEAN, inside : BOOLEAN]

(* find answers with the first entry of an id: there is only one.          *)
OneEntryPerId ==
  \A j, k \in DOMAIN cache :
    cache[j].request.id = cache[k].request.id => j = k

(* A domain never has two commands in execution, however requests,         *)
(* outcomes, late outcomes and emergencies follow each other.              *)
OnePendingPerDomain ==
  \A j, k \in DOMAIN cache :
    /\ Pending(cache[j]) /\ Pending(cache[k])
    /\ DomainOf(cache[j].request.command) = DomainOf(cache[k].request.command)
    => j = k

(* No command that moves the fins or the parachute is in execution during  *)
(* a calibration, and no manual move of the parachute during a Start.      *)
ConflictsAreRefused ==
  \A j, k \in DOMAIN cache :
    Pending(cache[j]) /\ Pending(cache[k]) =>
      /\ cache[j].request.command = "run_preflight_calibration" =>
           DomainOf(cache[k].request.command) \notin {"fin", "parachute"}
      /\ cache[j].request.command \in Starts =>
           DomainOf(cache[k].request.command) # "parachute"

(* A command is accepted only when the cache has room for its entry: its   *)
(* outcome can be reported and its repetition recognised.                  *)
AcceptedIsRemembered ==
  \A r \in Requests, ctx \in Contexts :
    LET decision == Begin(cache, guard, r, ctx)
    IN decision.execute => Find(decision.cache, r.id) # {}

(* An accepted command stays in the cache until it has an outcome: neither *)
(* a full cache nor a replay loses it, so that its result can be reported. *)
AcceptedIsKept ==
  [][\A k \in DOMAIN cache :
       Pending(cache[k]) =>
         \E j \in DOMAIN cache' : cache'[j].request = cache[k].request]_execVars

(* An outcome the ground may have seen is the one every replay gives: a    *)
(* late finish does not overwrite the failure an emergency reported.       *)
OutcomeIsFinal ==
  [][\A k \in DOMAIN cache, j \in DOMAIN cache' :
       ~Pending(cache[k]) /\ cache'[j].request.id = cache[k].request.id
         => cache'[j] = cache[k]]_execVars

(* The cache speaks of each command once: an id has one entry, a domain    *)
(* one command in execution, and there is room for whatever is accepted.   *)
CacheIsSound ==
  ExecutorTypeOK /\ OneEntryPerId /\ OnePendingPerDomain /\ AcceptedIsRemembered

(* What was accepted is reported, and reported once: no step drops a       *)
(* command in execution or changes an outcome.                             *)
OutcomesAreKept == AcceptedIsKept /\ OutcomeIsFinal
=============================================================================
