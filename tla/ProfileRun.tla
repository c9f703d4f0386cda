----------------------------- MODULE ProfileRun -----------------------------
(***************************************************************************)
(* One run of the motor characterization: a rate check or a full profile   *)
(* (ProfileRunner::run with CommandJournal, EncoderSampler,                *)
(* FixedEpochAssembler and the two periodic timers).                       *)
(*                                                                         *)
(* Time is divided into epochs.  A timer interrupt in the middle of each   *)
(* epoch has char_encoder (core 1) read the angle; one at its end puts a   *)
(* tick into a queue, for which the runner (core 0) waits.  The runner     *)
(* assembles the samples of the epoch, judges the position, applies the    *)
(* command of the next epoch and logs a record that says which command was *)
(* in force.  All of it may be late; what is too late ends the run.        *)
(*                                                                         *)
(* now counts half epochs: a release is on time only in the half in which  *)
(* its epoch ended.  The journal numbers the commands: a record is what it *)
(* says about the number of the command and the samples of its epoch.      *)
(*                                                                         *)
(* A write to the motor may fail, the coast that answers an error too.  A  *)
(* drive that fails leaves the output as it was, or coasted.               *)
(***************************************************************************)
EXTENDS Integers, Sequences, SequencesExt, FiniteSets

CONSTANTS
    Epochs,      \* number of epochs of a run (a bound)
    Horizon,     \* when time stops, in half epochs (a bound)
    TickDepth,   \* kConsumerTickQueueDepth
    SampleDepth, \* capacity of the queue of samples
    Buckets,     \* kBucketCount
    Faults       \* number of failures, and of times interrupts are held off, coasts
                 \* that fail after one not counted (a bound)

ASSUME ProfileRunAssumption ==
    /\ {Epochs, Horizon, TickDepth, SampleDepth, Buckets} \subseteq Nat \ {0}
    /\ Faults \in Nat

VARIABLES
    now,      \* esp_timer_get_time
    irq,      \* core 0: interrupts held off, and the two alarms that wait for it
    tick,     \* the queue of ticks, its overflow, the number of the next tick
    sampler,  \* EncoderSampler and its task
    bins,     \* FixedEpochAssembler: samples per epoch and what it has counted
    journal,  \* CommandJournal: armed_, the output and whether the last write to it
              \* failed, and all commands so far
    loop,     \* the locals of run
    records   \* what has been handed to the log

runVars == <<now, irq, tick, sampler, bins, journal, loop, records>>

E      == 2
End(e) == E * (e + 1)

-----------------------------------------------------------------------------

\* The queue of ticks as startConsumerTimer and stopConsumerTimer leave it.
NoTicks == [queue |-> <<>>, overflow |-> FALSE, next |-> 0]

\* FixedEpochAssembler::reset.
NoBins == [count |-> [e \in 0..Horizon |-> 0], released |-> -1,
           late |-> FALSE, incomplete |-> FALSE]

RunInit ==
    /\ now     = 0
    /\ irq     = [masked |-> FALSE, tick |-> FALSE, since |-> 0, sample |-> FALSE,
                  lost |-> FALSE]
    /\ tick    = NoTicks
    /\ sampler = [on |-> FALSE, notes |-> 0, slot |-> -1, pc |-> "idle", missed |-> FALSE,
                  error |-> FALSE, queue |-> <<>>, waiting |-> FALSE, ack |-> FALSE]
    /\ bins    = NoBins
    /\ \E full, failed \in BOOLEAN, out \in {"Coast", "Drive"} :
         /\ out = "Drive" => failed      \* as a run left it that could not coast
         /\ journal = [armed |-> full, out |-> out, failed |-> failed, log |-> <<>>]
         /\ loop = [pc |-> "setup", full |-> full, epoch |-> 0,
                    error |-> FALSE, unqualified |-> FALSE, stop |-> FALSE,
                    angle |-> FALSE, valid |-> FALSE, next |-> "Coast", from |-> 0,
                    current |-> 1, faults |-> 0, writer |-> FALSE, outcome |-> "None"]
    /\ records = <<>>

MayFail == loop.faults < Faults
Looping == loop.pc \in {"wait", "release", "apply", "applying", "applied", "record"}

\* CommandJournal: generation g is log[g], with its request, the epoch in which it
\* was asked for, and its completion time.
Generation == Len(journal.log)
Ordered(cmd) == [cmd |-> cmd, of |-> loop.epoch, done |-> now]
Applied(j, cmd) == [j EXCEPT !.out = cmd, !.failed = FALSE, !.log = Append(@, Ordered(cmd))]
AlreadyApplied(cmd) ==
    Generation # 0 /\ Last(journal.log).cmd = cmd /\ journal.out = cmd /\ ~journal.failed

\* What a coast leads to: the driver does nothing when it knows that the motor
\* coasts; otherwise it may fail, before or after the output is off.
KnownCoast(j) == j.out = "Coast" /\ ~j.failed
Coasts(j) ==
    {[j EXCEPT !.out = "Coast", !.failed = FALSE]}
      \cup IF KnownCoast(j) THEN {}
           ELSE {[j EXCEPT !.out = out, !.failed = TRUE] : out \in {j.out, "Coast"}}

\* An error coasts and disarms, whatever was asked and whatever the coast does.
Disarmed(j) == {[c EXCEPT !.armed = FALSE] : c \in Coasts(j)}
Rejected(j, cmd) == {[d EXCEPT !.log = Append(@, Ordered(cmd))] : d \in Disarmed(j)}

\* stopForFatal and stopForQualification.
Fatal(l)       == [l EXCEPT !.error = TRUE]
Latched        == loop.writer \/ sampler.error
FailLatched(l) == IF loop.writer \/ loop.full THEN Fatal(l)
                                              ELSE [l EXCEPT !.unqualified = TRUE]

-----------------------------------------------------------------------------
\* Time and the interrupts of core 0, which other code may hold off.  A timer
\* reloads itself: an alarm that comes while the last one still waits is lost.

Late == irq.tick \/ irq.sample

TimePasses ==
    /\ Looping /\ now < Horizon /\ (Late => irq.masked)
    /\ now' = now + 1
    /\ LET ends == now' % E = 0 IN
       irq' = [irq EXCEPT !.tick   = @ \/ ends,
                          !.since  = IF ends THEN now' ELSE @,
                          !.lost   = @ \/ (ends /\ irq.tick),
                          !.sample = @ \/ now' % E = 1]
    /\ UNCHANGED <<tick, sampler, bins, journal, loop, records>>

MaskInterrupts ==
    /\ Looping /\ ~irq.masked /\ ~Late /\ MayFail
    /\ irq'  = [irq EXCEPT !.masked = TRUE]
    /\ loop' = [loop EXCEPT !.faults = @ + 1]
    /\ UNCHANGED <<now, tick, sampler, bins, journal, records>>

UnmaskInterrupts ==
    /\ irq.masked
    /\ irq' = [irq EXCEPT !.masked = FALSE]
    /\ UNCHANGED <<now, tick, sampler, bins, journal, loop, records>>

\* consumerTimerCallback.  A tick is numbered by the calls, not by the time; its
\* lateness is what the counter shows since the last reload.
TickInterrupt ==
    /\ irq.tick /\ ~irq.masked
    /\ irq'  = [irq EXCEPT !.tick = FALSE]
    /\ tick' = IF loop.pc \in {"stopping", "stopped", "done"} THEN tick
               ELSE IF Len(tick.queue) >= TickDepth
                 THEN [tick EXCEPT !.overflow = TRUE, !.next = @ + 1]
                 ELSE [tick EXCEPT !.next = @ + 1,
                         !.queue = Append(@, [epoch |-> tick.next, late |-> now - irq.since])]
    /\ UNCHANGED <<now, sampler, bins, journal, loop, records>>

\* EncoderSampler::timerCallback.  Two notifications are as good as more.
More(n) == IF n = 2 THEN 2 ELSE n + 1
SampleInterrupt ==
    /\ irq.sample /\ ~irq.masked
    /\ irq'     = [irq EXCEPT !.sample = FALSE]
    /\ sampler' = IF sampler.on THEN [sampler EXCEPT !.notes = More(@)] ELSE sampler
    /\ UNCHANGED <<now, tick, bins, journal, loop, records>>

-----------------------------------------------------------------------------
\* char_encoder.

MutAcknowledged(s) == [s EXCEPT !.notes = 0]
Acknowledged(s) ==
    IF s.waiting THEN [s EXCEPT !.waiting = FALSE, !.notes = 0, !.ack = TRUE] ELSE s

\* The task takes all notifications at once: what came in between is missed.
SamplerWakes ==
    /\ sampler.pc = "idle" /\ sampler.notes > 0
    /\ LET taken == [sampler EXCEPT !.notes = 0]
           ideal == (now - 1) \div E
       IN sampler' =
          IF ~sampler.on THEN Acknowledged(taken)
          ELSE IF now < 1 THEN taken
          ELSE IF ideal <= sampler.slot THEN [taken EXCEPT !.missed = TRUE]
          ELSE [taken EXCEPT !.pc = "reading", !.slot = ideal,
                  !.missed = @ \/ ideal > sampler.slot + 1 \/ sampler.notes > 1]
    /\ UNCHANGED <<now, irq, tick, bins, journal, loop, records>>

SampleRoom == Len(sampler.queue) < SampleDepth - 1

\* The sample belongs to the epoch in which it is captured.  A read that fails,
\* and a queue that is full, end the sampling.
SamplerReads ==
    /\ sampler.pc = "reading"
    /\ \E ok \in BOOLEAN :
         /\ ok \/ MayFail
         /\ loop' = IF ok THEN loop ELSE [loop EXCEPT !.faults = @ + 1]
         /\ LET room == SampleRoom
                read == [sampler EXCEPT !.pc = "idle",
                           !.on    = @ /\ ok /\ room,
                           !.error = @ \/ ~ok \/ ~room,
                           !.queue = IF room THEN Append(@, [epoch |-> now \div E, ok |-> ok])
                                             ELSE @]
            IN sampler' = IF read.on THEN read ELSE Acknowledged(read)
    /\ UNCHANGED <<now, irq, tick, bins, journal, records>>

-----------------------------------------------------------------------------
\* The runner.

OnCore0 == ~irq.masked /\ ~Late

\* EncoderSampler::begin forgets the samples and errors of the run before.
Begun(s) == [s EXCEPT !.on = TRUE, !.notes = 0, !.slot = -1, !.missed = FALSE,
                      !.error = FALSE, !.queue = <<>>]

\* prepare, open, begin and the first Coast succeed before the first epoch ...
SetUp ==
    /\ loop.pc = "setup"
    /\ journal' = Applied(journal, "Coast")
    /\ sampler' = Begun(sampler)
    /\ tick'    = NoTicks
    /\ bins'    = NoBins
    /\ loop'    = [loop EXCEPT !.pc = "wait"]
    /\ UNCHANGED <<now, irq, records>>

\* ... or the run ends before it began, and its log is aborted.
Aborted(l) == [Fatal(l) EXCEPT !.pc = "done", !.outcome = "Failed"]
SetUpFails ==
    /\ loop.pc = "setup" /\ MayFail
    /\ journal' \in Disarmed(journal)
    /\ loop'    = Aborted([loop EXCEPT !.faults = @ + 1])
    /\ UNCHANGED <<now, irq, tick, sampler, bins, records>>

\* What ends the wait for a tick.
WaitFails ==
    /\ loop.pc = "wait" /\ OnCore0
    /\ Latched \/ tick.overflow \/ (loop.stop /\ tick.queue = <<>>)
    /\ loop'    = [IF Latched THEN FailLatched(loop) ELSE Fatal(loop) EXCEPT !.pc = "shutdown"]
    /\ journal' \in Disarmed(journal)
    /\ UNCHANGED <<now, irq, tick, sampler, bins, records>>

\* A release up to two epochs late is caught up with; every other irregularity
\* of the ticks is fatal, and so is a stop.
TakeTick ==
    /\ loop.pc = "wait" /\ OnCore0
    /\ ~Latched /\ ~tick.overflow /\ tick.queue # <<>>
    /\ LET t        == Head(tick.queue)
           end      == End(loop.epoch)
           missed   == now > end
           regular  == t.epoch = loop.epoch /\ Len(tick.queue) <= 2 /\ t.late < E
           catchUp  == regular /\ now < end + 2 * E
           fatal    == loop.stop \/ (missed /\ ~catchUp) \/ (~missed /\ ~(regular /\ now >= end))
       IN /\ loop' = [loop EXCEPT !.error = @ \/ fatal,
                        !.pc = IF now < end THEN "shutdown" ELSE "release"]
          /\ journal' \in IF fatal THEN Disarmed(journal) ELSE {journal}
    /\ tick' = [tick EXCEPT !.queue = Tail(@)]
    /\ UNCHANGED <<now, irq, sampler, bins, records>>

\* The samples that have come so far go to their epochs; those of an epoch that
\* is released are late.  One that failed makes its epoch invalid, as two would:
\* it counts as three.  Then the epoch is released.
Samples(q, e) ==
    Cardinality({i \in DOMAIN q : q[i].epoch = e})
      + 2 * Cardinality({i \in DOMAIN q : q[i].epoch = e /\ ~q[i].ok})
Added(b, q) ==
    [b EXCEPT !.late  = @ \/ \E i \in DOMAIN q : q[i].epoch <= b.released,
              !.count = [e \in 0..Horizon |->
                           IF e > b.released THEN @[e] + Samples(q, e) ELSE @[e]]]
Collides(b, s) ==
    \E e \in 0..Horizon : e # s.epoch /\ b.count[e] # 0 /\ e % Buckets = s.epoch % Buckets

\* FixedEpochAssembler::release: an epoch is complete with its one sample, and a
\* valid one; only the first may begin without being held against the run.
Complete(b, e) == b.count[e] = 1
Sealed(b, e) == [b EXCEPT !.released = e, !.count[e] = 0,
                          !.incomplete = @ \/ (~Complete(b, e) /\ e # 0)]

\* resolveEpisode: a rate check has one episode, without a command; a profile has
\* those that ask for a command, and those that approach the zero position.
Episodes == IF loop.full THEN {"Commands", "ZeroApproach"} ELSE {"Baseline"}

\* What an episode asks of the motor, and what an approach, which pulses.
ProfileRequests(episode) == IF episode = "Baseline" THEN {"Coast"} ELSE {"Coast", "Drive"}
PositionRequests == {"Coast", "Drive"}
Requests(episode) == IF episode = "ZeroApproach" THEN PositionRequests
                                                 ELSE ProfileRequests(episode)

\* An approach is aborted when it overshoots, turns back or takes too long; a
\* motion that leaves the envelope is coasted, one that leaves the limits aborted.
ApproachVerdicts(episode) == IF episode = "ZeroApproach" THEN {"holds", "abort"} ELSE {"holds"}
GuardVerdicts(angle) == IF loop.full /\ angle THEN {"allow", "coast", "abort"} ELSE {"allow"}

\* The epoch is judged as a whole before the next command is: that one is not
\* looked at any more when there is none, and so a stop is not either.
Release ==
    /\ loop.pc = "release" /\ OnCore0
    /\ LET added     == Added(bins, sampler.queue)
           collision == \E i \in 1..Len(sampler.queue) : Collides(added, sampler.queue[i])
           valid     == Complete(added, loop.epoch)
           startup   == loop.epoch = 0 /\ added.count[0] = 0
           angle     == loop.angle \/ valid
           dropped   == collision \/ sampler.error
       IN \E episode, next \in Episodes :
          \E approach \in ApproachVerdicts(episode), cmd \in Requests(next),
             guard \in GuardVerdicts(angle) :
          LET spoilt == \/ loop.full /\ (dropped \/ (~valid /\ ~startup /\ ~loop.error))
                        \/ approach = "abort"
              asks   == /\ loop.epoch + 1 < Epochs /\ ~loop.error /\ ~spoilt
                        /\ ~loop.unqualified /\ (dropped => loop.full)
              bad    == spoilt \/ (asks /\ \/ loop.stop
                                           \/ ~angle /\ cmd = "Drive"
                                           \/ guard = "abort")
          IN
          /\ bins' = Sealed(added, loop.epoch)
          /\ loop' = [loop EXCEPT !.valid = valid, !.angle = angle,
                        !.next = IF guard = "coast" THEN "Coast" ELSE cmd,
                        !.error = @ \/ bad,
                        !.unqualified = @ \/ (dropped /\ ~loop.full),
                        !.pc = "apply"]
          /\ journal' \in IF bad \/ (dropped /\ ~loop.full) THEN Disarmed(journal)
                                                        ELSE {journal}
    /\ sampler' = [sampler EXCEPT !.queue = <<>>]
    /\ UNCHANGED <<now, irq, tick, records>>

\* No command follows the last epoch, or an error, and one that is already in
\* force is not applied again: the record of the next epoch repeats it.
NothingToApply ==
    /\ loop.pc = "apply" /\ OnCore0
    /\ \/ loop.epoch + 1 = Epochs \/ loop.error \/ loop.unqualified
       \/ AlreadyApplied(loop.next)
    /\ loop' = [loop EXCEPT !.pc = "record", !.from = Generation]
    /\ UNCHANGED <<now, irq, tick, sampler, bins, journal, records>>

\* A command that would begin a whole epoch too late is not applied any more.
MutHardDeadline == End(loop.epoch) + 3 * E
HardDeadline == End(loop.epoch) + 2 * E

StartApply ==
    /\ loop.pc = "apply" /\ OnCore0 /\ ~loop.error /\ ~loop.unqualified
    /\ loop.epoch + 1 < Epochs /\ ~AlreadyApplied(loop.next)
    /\ IF now >= HardDeadline
         THEN /\ loop'    = [Fatal(loop) EXCEPT !.pc = "record"]
              /\ journal' \in Rejected(journal, loop.next)
         ELSE /\ loop' = [loop EXCEPT !.pc = "applying"]
              /\ UNCHANGED journal
    /\ UNCHANGED <<now, irq, tick, sampler, bins, records>>

\* The write to the motor, any time after that test.  The journal does not drive
\* unless it is armed, and coasts what it could not do.
WriteMotor ==
    /\ loop.pc = "applying" /\ OnCore0
    /\ \E ok \in BOOLEAN :
         /\ ok \/ MayFail
         /\ IF ok /\ (loop.next = "Drive" => journal.armed)
              THEN /\ loop'    = [loop EXCEPT !.pc = "applied"]
                   /\ journal' = [journal EXCEPT !.out = loop.next, !.failed = FALSE]
              ELSE /\ loop' = [Fatal(loop) EXCEPT !.pc = "record",
                                 !.faults = IF ok THEN @ ELSE @ + 1]
                   /\ journal' \in Rejected(journal, loop.next)
    /\ UNCHANGED <<now, irq, tick, sampler, bins, records>>

Slipped == now >= End(loop.epoch + 1)

\* The command is in force.  When the next epoch has already ended, its record
\* keeps the command before; a whole epoch later the run ends, and it coasts.
FinishApply ==
    /\ loop.pc = "applied" /\ OnCore0
    /\ LET late  == now >= HardDeadline
           given == Applied(journal, loop.next)
       IN /\ journal' \in IF late THEN Disarmed(given) ELSE {given}
          /\ loop' = [loop EXCEPT !.pc = "record", !.error = @ \/ late,
                        !.from = IF Slipped THEN Generation ELSE Generation + 1]
    /\ UNCHANGED <<now, irq, tick, sampler, bins, records>>

RunStops(ok) == loop.error \/ loop.unqualified \/ ~ok

\* The record says which command was in force in its epoch.  A log that does not
\* take it ends the run.  (In the firmware validateRecord refuses nothing here.)
Enqueue ==
    /\ loop.pc = "record" /\ OnCore0
    /\ \E taken \in BOOLEAN :
         LET stops == RunStops(taken)
         IN
         /\ taken \/ MayFail
         /\ records' = IF taken THEN Append(records, [gen |-> loop.current, valid |-> loop.valid])
                             ELSE records
         /\ journal' \in IF ~taken \/ (stops /\ journal.armed) THEN Disarmed(journal)
                                                             ELSE {journal}
         /\ loop' = [loop EXCEPT
              !.error = @ \/ ~taken, !.faults = IF taken THEN @ ELSE @ + 1,
              !.epoch = @ + 1, !.current = loop.from,
              !.pc = IF stops \/ loop.epoch + 1 = Epochs THEN "shutdown" ELSE "wait"]
    /\ UNCHANGED <<now, irq, tick, sampler, bins>>

\* The shutdown: Coast, Disarm, then the timers and the sampling stop.  Coast is
\* tried again when it fails, and Disarm coasts once more: a failure of the first
\* or the last is an error of the run.
ShutDown ==
    /\ loop.pc = "shutdown" /\ OnCore0
    /\ \E noticed \in BOOLEAN :
         /\ journal' \in Disarmed(journal)
         /\ journal'.failed => noticed
         /\ noticed => ~KnownCoast(journal)
         /\ loop' = [loop EXCEPT !.pc = "stopping", !.error = @ \/ noticed]
    /\ sampler' = [sampler EXCEPT !.on = FALSE, !.waiting = TRUE, !.ack = FALSE]
    /\ tick'    = NoTicks
    /\ UNCHANGED <<now, irq, bins, records>>

NotifySampler ==
    /\ loop.pc = "stopping" /\ OnCore0
    /\ loop'    = [loop EXCEPT !.pc = "stopped"]
    /\ sampler' = [sampler EXCEPT !.notes = More(@)]
    /\ UNCHANGED <<now, irq, tick, bins, journal, records>>

MutUnsupported == sampler.missed \/ bins.late \/ sampler.error
Unsupported == sampler.missed \/ bins.late \/ bins.incomplete \/ sampler.error

\* The task has answered, and the encoder is asked once more for its health; that
\* it could not be read counts only against a rate check with nothing else to say.
\* unsupportedReason decides what the run is worth, then the log is drained and
\* closed; whatever fails there fails the run.
Finish ==
    /\ loop.pc = "stopped" /\ sampler.ack /\ OnCore0
    /\ \E health \in {"good", "faulted", "unread"}, closed \in BOOLEAN :
         LET well        == health = "good" /\ closed
             unsupported == Unsupported \/ health = "faulted"
             failed == \/ loop.error \/ loop.writer \/ ~closed
                       \/ loop.full /\ unsupported
                       \/ ~loop.full /\ ~unsupported /\ health = "unread"
                       \/ loop.unqualified /\ ~unsupported
         IN
         /\ well \/ MayFail
         /\ loop' = [loop EXCEPT !.pc = "done",
              !.faults  = IF well THEN @ ELSE @ + 1,
              !.outcome = IF failed THEN "Failed"
                          ELSE IF unsupported THEN "Unsupported" ELSE "Accepted"]
    /\ UNCHANGED <<now, irq, tick, sampler, bins, journal, records>>

-----------------------------------------------------------------------------
\* From the console, and from char_writer; they matter where the runner looks.

StopRequested ==
    /\ loop.pc \in {"wait", "release"} /\ ~loop.stop
    /\ loop' = [loop EXCEPT !.stop = TRUE]
    /\ UNCHANGED <<now, irq, tick, sampler, bins, journal, records>>

WriterFails ==
    /\ loop.pc = "wait" /\ MayFail /\ ~loop.writer
    /\ loop' = [loop EXCEPT !.writer = TRUE, !.faults = @ + 1]
    /\ UNCHANGED <<now, irq, tick, sampler, bins, journal, records>>

-----------------------------------------------------------------------------

Core0     == UnmaskInterrupts \/ TickInterrupt \/ SampleInterrupt
Encoder   == SamplerWakes \/ SamplerReads
Runner    == SetUp \/ SetUpFails \/ WaitFails \/ TakeTick \/ Release \/ NothingToApply
               \/ StartApply \/ WriteMotor \/ FinishApply \/ Enqueue \/ ShutDown \/ NotifySampler \/ Finish

RunNext == TimePasses \/ MaskInterrupts \/ Core0 \/ Encoder \/ Runner \/ StopRequested \/ WriterFails

RunFairness ==
    /\ WF_runVars(TimePasses) /\ WF_runVars(Core0) /\ WF_runVars(Encoder) /\ WF_runVars(Runner)

RunSpec == RunInit /\ [][RunNext]_runVars /\ RunFairness

-----------------------------------------------------------------------------
\* The members and locals have the values the code gives them.
ProfileRunTypeOK ==
    /\ now \in 0..Horizon /\ loop.epoch \in 0..Epochs
    /\ Len(tick.queue) <= TickDepth /\ Len(sampler.queue) < SampleDepth
    /\ loop.current \in 0..(Generation + 1)
    /\ bins.released \in -1..(Epochs - 1)
    /\ journal.out = "Drive" /\ ~journal.failed => loop.full

\* A record whose command was not applied before its epoch ended does not fit.
RecordFits == journal.log[loop.current].done < End(loop.epoch)

\* The record of an epoch names the command that was in force when its epoch
\* ended, however late the runner was with the epoch before, and lateness that
\* the run is to survive never makes a record that validateRecordStrict refuses.
RecordsAreTrue ==
    /\ loop.pc = "record" => RecordFits
    /\ \A i \in 1..Len(records) :
         /\ records[i].gen \in 1..Generation
         /\ journal.log[records[i].gen].done < End(i - 1)
         /\ \A g \in (records[i].gen + 1)..Generation : journal.log[g].done >= End(i - 1)

\* The motor begins to be driven only on an angle that was measured in the epoch
\* before the commanded one, by an armed journal, and with no error.
DriveBegins ==
    [][ journal.out # "Drive" /\ journal'.out = "Drive"
          => journal.armed /\ loop.valid /\ ~loop.error ]_runVars

\* The write may come any time after the deadline was tested: a drive that was not
\* completed in the two epochs after the angle's is coasted before anything else
\* is done with it, the record included.
DriveIsTimely ==
    journal.out = "Drive" /\ ~journal.failed /\ loop.pc # "applied" =>
      LET given == Last(journal.log) IN
      given.cmd = "Drive" /\ given.done < End(given.of) + 2 * E

\* A run that is accepted has a record of every epoch, each with the one sample
\* captured in its epoch (the first may begin without): whatever an interrupt, a
\* task or a queue held up, missed or dropped is noticed.
AcceptedIsComplete ==
    loop.outcome = "Accepted" =>
        /\ Len(records) = Epochs
        /\ \A i \in 2..Epochs : records[i].valid

\* Whatever ends a run, the motor coasts and is disarmed before the sampling stops
\* and the log is closed.  When the last coast failed too the motor may go on, but
\* then the run is a failed one: what is accepted, or written down as a rate that
\* is not supported, left the motor coasted.
ShutdownIsSafe ==
    /\ loop.pc \in {"stopping", "stopped", "done"} =>
         ~journal.armed /\ (KnownCoast(journal) \/ (journal.failed /\ loop.error))
    /\ loop.outcome \in {"Accepted", "Unsupported"} => KnownCoast(journal)

\* An error disarms and coasts, at once: the motor is driven after one only when
\* the coast was tried and failed.
ErrorCoasts ==
    loop.error \/ loop.unqualified
        => ~journal.armed /\ (journal.out = "Coast" \/ journal.failed)

\* Whatever goes wrong in a run, and in whichever task, the motor is left alone or
\* the run fails, and it is not kept driven on an old angle (ProfileRunner::run,
\* CommandJournal).
MotorIsSafe == [](ShutdownIsSafe /\ ErrorCoasts /\ DriveIsTimely) /\ DriveBegins

\* What the log says of a run can be taken at its word: each record, and the verdict
\* on the whole (ProfileRunner::run, unsupportedReason).
EvidenceIsWhole == ProfileRunTypeOK /\ RecordsAreTrue /\ AcceptedIsComplete

\* A run ends: the runner always gets its tick, or finds out that it does not,
\* and the task that samples answers the stop.  (Time stops at Horizon.)
RunFinishes ==
    loop.pc = "wait" ~> \/ loop.pc = "done"
                        \/ loop.pc = "wait" /\ now = Horizon /\ tick.queue = <<>>

\* include/characterization/absolute_periodic_timer.hpp:151 has a delay of the
\* interrupt by a period or more treated as a failure by the validation of the
\* schedule.  The lateness is measured since the last reload and the ticks are
\* numbered by the calls: the alarm that was lost is not seen, and the run goes
\* on one epoch behind.
LostAlarmIsSeen ==
    [][ irq.lost /\ loop.pc = "wait" /\ loop'.pc = "release" => loop'.error ]_runVars

=============================================================================
