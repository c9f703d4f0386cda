---------------------------- MODULE FlightStorage ----------------------------
(***************************************************************************)
(* The flight log of the production runtime on its way to storage.         *)
(* missionRealtimeTask makes a record per tick and sends it, without       *)
(* waiting, to sd_log_queue, and every kth one to flash_log_queue.         *)
(* sdLogTask moves the queue into PSRAM, the low-priority writer of        *)
(* SdFlightLog moves PSRAM to the card a batch at a time.                  *)
(* internalFlashTask drains the other queue into InternalFlashLog and      *)
(* decides on recovery: it stops the producer, asks sdLogTask for a flush, *)
(* and Deep Sleep follows when both logs report theirs done.  After a wake *)
(* sdLogTask reads the file back for the ground, a frame at a time, and    *)
(* canTask sends the frames until the wake window ends.                    *)
(*                                                                         *)
(* A record is the number of the tick that made it, and a frame of a dump  *)
(* holds one.  The partition of the internal flash is located by           *)
(* InternalFlashLog::openExisting and prepareForFlight, which nothing in   *)
(* the program calls, so the model keeps the flash log as the code leaves  *)
(* it: every append is refused.                                            *)
(***************************************************************************)
EXTENDS Naturals, Sequences, FiniteSets

CONSTANTS
    Records,      \* bound: records made in one boot
    SdQueue,      \* length of sd_log_queue
    FlashQueue,   \* length of flash_log_queue
    Decimation,   \* one record in Decimation goes to flash_log_queue
    Capacity,     \* psram_capacity_records_
    Batch,        \* kWriteBatchRecords
    FrameQueue,   \* length of recovery_log_data_queue
    Transfers,    \* bound: dumps the ground asks for
    Failures,     \* bound: calls on the card that fail
    Resets        \* bound: resets other than the one after Deep Sleep

ASSUME StorageAssumption ==
    /\ {Records, SdQueue, FlashQueue, Decimation, Capacity, Batch, FrameQueue}
         \subseteq Nat \ {0}
    /\ {Transfers, Failures, Resets} \subseteq Nat
    /\ Batch <= Capacity

VARIABLES
    boot,       \* "flight", or "recovery" after a wake from Deep Sleep
    mission,    \* "command" while the state is CommandReceive, else "flight"
    made,       \* records made in this boot
    hand,       \* the record between its making and its sends, or 0
    decimation, \* flash_decimation
    queue,      \* sd_log_queue
    drops,      \* sd_log_drop_count
    flash,      \* [queue |-> records in flash_log_queue, drops |-> flash_log_drop_count,
                \*  failed |-> flash_log_failed]
    stage,      \* the PSRAM records from psram_read_index_ to psram_write_index_
    file,       \* the records of avi_99l_latest.bin
    durable,    \* how many of them the card keeps over a reset
    error,      \* writer_error_ is not ESP_OK
    flush,      \* flush_requested_ and flush_ack_: "none", "asked", "acked"
    task,       \* sdLogTask: "boot", "drain", "signal", "flush", "control"
    writer,     \* SdWriterTask: "off", "wait", "drain", "sync"
    asked,      \* the writer's copy of flush_requested_ for this pass
    log,        \* [ready |-> SdFlightLog::ready(), failed |-> sd_log_failed]
    recovery,   \* [requested, signal, sd, pending, flash]: recovery_requested,
                \* persistence_queue, recovery_sd_flushed, flash_flush_pending,
                \* persistence_flushed
    dump,       \* sd_dump: the transfer, the records already read and those to read
    frames,     \* recovery_log_data_queue
    sending,    \* canTask's pending_recovery_log_data: one frame, or none
    ground,     \* the frames the CAN driver has taken (history)
    transfers,  \* the dumps asked for, and what was last said of them (history)
    failures,   \* card calls that failed so far
    resets      \* resets so far

producer == <<mission, made, hand, decimation>>
card     == <<stage, file, durable, error>>
sdTask   == <<task, log>>
sdWriter == <<writer, asked>>
history  == <<ground, transfers>>
link     == <<dump, frames, sending, history>>
counts   == <<failures, resets>>
vars     == <<boot, producer, queue, drops, flash, card, flush, sdTask, sdWriter,
              recovery, link, counts>>

NoRecovery == [requested |-> FALSE, signal |-> FALSE, sd |-> FALSE,
               pending |-> FALSE, flash |-> FALSE]
NoDump     == [id |-> 0, next |-> 0, left |-> 0]
NoFlash    == [queue |-> 0, drops |-> 0, failed |-> FALSE]

(* What a power-on leaves: RAM is clear, no task has run.                   *)
Init ==
    /\ boot = "flight" /\ mission = "command"
    /\ made = 0 /\ hand = 0 /\ decimation = 0
    /\ queue = <<>> /\ drops = 0 /\ flash = NoFlash
    /\ stage = <<>> /\ file = <<>> /\ durable = 0 /\ error = FALSE
    /\ flush = "none" /\ task = "boot" /\ writer = "off" /\ asked = FALSE
    /\ log = [ready |-> FALSE, failed |-> FALSE]
    /\ recovery = NoRecovery
    /\ dump = NoDump /\ frames = <<>> /\ sending = <<>> /\ ground = <<>> /\ transfers = <<>>
    /\ failures = 0 /\ resets = 0

---------------------------------------------------------------------------
(* missionRealtimeTask.                                                     *)

(* A Start is judged by the readiness snapshot, which has no bit for the    *)
(* card and none for old data in the flash partition.                       *)
StartSequence ==
    /\ boot = "flight" /\ mission = "command" /\ hand = 0
    /\ mission' = "flight"
    /\ UNCHANGED <<boot, made, hand, decimation, queue, drops, flash, card, flush,
                   sdTask, sdWriter, recovery, counts, link>>

(* The way back to CommandReceive clears the decimation.                    *)
BackToCommand ==
    /\ mission = "flight" /\ hand = 0 /\ ~recovery.requested
    /\ mission' = "command" /\ decimation' = 0
    /\ UNCHANGED <<boot, made, hand, queue, drops, flash, card, flush, sdTask, sdWriter,
                   recovery, counts, link>>

(* The tick looks at recovery_requested, and serializes the record.         *)
MakeRecord ==
    /\ mission = "flight" /\ ~recovery.requested
    /\ hand = 0 /\ made < Records
    /\ made' = made + 1 /\ hand' = made + 1
    /\ UNCHANGED <<boot, mission, decimation, queue, drops, flash, card, flush, sdTask,
                   sdWriter, recovery, counts, link>>

(* Both sends happen later in the same tick, with no second look.           *)
SendRecord ==
    /\ hand # 0
    /\ IF Len(queue) < SdQueue
         THEN queue' = Append(queue, hand) /\ UNCHANGED drops
         ELSE drops' = drops + 1 /\ UNCHANGED queue
    /\ decimation' = (decimation + 1) % Decimation
    /\ flash' = IF decimation' # 0 THEN flash
                ELSE IF flash.queue < FlashQueue
                       THEN [flash EXCEPT !.queue = @ + 1]
                       ELSE [flash EXCEPT !.drops = @ + 1]
    /\ hand' = 0
    /\ UNCHANGED <<boot, mission, made, card, flush, sdTask, sdWriter, recovery, counts, link>>

---------------------------------------------------------------------------
(* internalFlashTask.                                                       *)

(* append of a log whose partition was never located: INVALID_STATE, a      *)
(* drop, and one event.                                                     *)
FlashAppend ==
    /\ flash.queue > 0
    /\ flash' = [queue |-> flash.queue - 1, drops |-> flash.drops + 1, failed |-> TRUE]
    /\ UNCHANGED <<boot, producer, queue, drops, card, flush, sdTask, sdWriter,
                   recovery, counts, link>>

(* RequestRecovery: an eligible entry stops the producer and asks for both  *)
(* flushes.                                                                 *)
RequestRecovery ==
    /\ boot = "flight" /\ mission = "flight" /\ ~recovery.requested
    /\ recovery' = [requested |-> TRUE, signal |-> TRUE, sd |-> FALSE,
                    pending |-> TRUE, flash |-> FALSE]
    /\ UNCHANGED <<boot, producer, queue, drops, flash, card, flush, sdTask, sdWriter,
                   counts, link>>

FlashFlushed ==
    /\ recovery.pending /\ flash.queue = 0
    /\ recovery' = [recovery EXCEPT !.pending = FALSE, !.flash = TRUE]
    /\ UNCHANGED <<boot, producer, queue, drops, flash, card, flush, sdTask, sdWriter,
                   counts, link>>

---------------------------------------------------------------------------
(* sdLogTask.                                                               *)

(* prepareForFlight mounts, takes the staging memory, truncates the latest  *)
(* file and starts the writer.                                              *)
PrepareForFlight ==
    /\ task = "boot" /\ boot = "flight"
    /\ task' = "drain"
    /\ log' = [log EXCEPT !.ready = TRUE]
    /\ file' = <<>> /\ durable' = 0
    /\ writer' = "wait"
    /\ UNCHANGED <<boot, producer, queue, drops, flash, stage, error, flush, asked,
                   recovery, link, counts>>

(* A failure closes what was taken, and the log is never ready in this boot.*)
PrepareFails ==
    /\ task = "boot" /\ boot = "flight"
    /\ failures < Failures /\ failures' = failures + 1
    /\ task' = "drain"
    /\ log' = [ready |-> FALSE, failed |-> TRUE]
    /\ UNCHANGED <<boot, producer, queue, drops, flash, card, flush, sdWriter, recovery,
                   link, resets>>

(* A wake from Deep Sleep opens the file for reading and starts no writer.  *)
OpenExisting ==
    /\ task = "boot" /\ boot = "recovery"
    /\ task' = "drain"
    /\ log' = [log EXCEPT !.ready = TRUE]
    /\ UNCHANGED <<boot, producer, queue, drops, flash, card, flush, sdWriter, recovery,
                   counts, link>>

AppendFits == Len(stage) < Capacity

(* SdFlightLog::append: a record the log refuses is a drop.                 *)
AppendRecord ==
    /\ task = "drain" /\ queue # <<>>
    /\ queue' = Tail(queue)
    /\ IF log.ready /\ ~error /\ AppendFits
         THEN /\ stage' = Append(stage, Head(queue))
              /\ UNCHANGED <<drops, log>>
         ELSE /\ drops' = drops + 1
              /\ log' = [log EXCEPT !.failed = TRUE]
              /\ UNCHANGED stage
    /\ UNCHANGED <<boot, producer, flash, file, durable, error, flush, task, sdWriter,
                   recovery, counts, link>>

QueueDrained ==
    /\ task = "drain" /\ queue = <<>>
    /\ task' = "signal"
    /\ UNCHANGED <<boot, producer, queue, drops, flash, card, flush, log, sdWriter,
                   recovery, counts, link>>

(* The signal is taken without another look at the queue.                   *)
TakeSignal ==
    /\ task = "signal"
    /\ IF ~recovery.signal
         THEN /\ task' = IF boot = "recovery" THEN "control" ELSE "drain"
              /\ UNCHANGED <<flush, recovery, log>>
         ELSE IF log.ready
         THEN /\ task' = "flush" /\ flush' = "asked"
              /\ recovery' = [recovery EXCEPT !.signal = FALSE]
              /\ UNCHANGED log
         ELSE /\ task' = "drain"
              /\ recovery' = [recovery EXCEPT !.signal = FALSE, !.sd = TRUE]
              /\ log' = [log EXCEPT !.failed = TRUE]
              /\ UNCHANGED flush
    /\ UNCHANGED <<boot, producer, queue, drops, flash, card, sdWriter, counts, link>>

(* requestWriterFlush waits for the answer with no time limit; whatever the *)
(* answer, recovery_sd_flushed is set.                                      *)
FlushAnswered ==
    /\ task = "flush" /\ flush = "acked"
    /\ task' = "drain" /\ flush' = "none"
    /\ log' = IF error THEN [log EXCEPT !.failed = TRUE] ELSE log
    /\ recovery' = [recovery EXCEPT !.sd = TRUE]
    /\ UNCHANGED <<boot, producer, queue, drops, flash, card, sdWriter, counts, link>>

---------------------------------------------------------------------------
(* After a wake: the controls of the ground, then one frame of the dump.    *)
(* In flight every control is answered invalid_state.                       *)

StartDump ==
    /\ task = "control" /\ log.ready /\ dump = NoDump
    /\ Len(transfers) < Transfers
    /\ \E offset \in 0..Len(file) : \E length \in 0..Len(file) - offset :
          /\ dump' = IF length = 0 THEN NoDump
                     ELSE [id |-> Len(transfers) + 1, next |-> offset, left |-> length]
          /\ transfers' = Append(transfers,
                 [offset |-> offset, length |-> length, awake |-> TRUE,
                  status |-> IF length = 0 THEN "complete" ELSE "dumping"])
    /\ UNCHANGED <<boot, producer, queue, drops, flash, card, flush, sdTask, sdWriter,
                   recovery, frames, sending, ground, counts>>

StopDump ==
    /\ task = "control" /\ dump # NoDump
    /\ dump' = NoDump
    /\ transfers' = [transfers EXCEPT ![dump.id].status = "aborted"]
    /\ UNCHANGED <<boot, producer, queue, drops, flash, card, flush, sdTask, sdWriter,
                   recovery, frames, sending, ground, counts>>

Read(offset) == file[offset + 1]

\* A frame that finds no room is read again in the next pass.
DumpFrame ==
    /\ task = "control" /\ task' = "drain"
    /\ \/ /\ dump = NoDump \/ Len(frames) = FrameQueue
          /\ UNCHANGED <<dump, frames, transfers, counts>>
       \/ /\ dump # NoDump /\ Len(frames) < FrameQueue
          /\ frames' = Append(frames, [id |-> dump.id, record |-> Read(dump.next)])
          /\ dump' = IF dump.left = 1 THEN NoDump
                     ELSE [dump EXCEPT !.next = @ + 1, !.left = @ - 1]
          /\ transfers' = IF dump.left = 1
                          THEN [transfers EXCEPT ![dump.id].status = "complete"]
                          ELSE transfers
          /\ UNCHANGED counts
       \/ /\ dump # NoDump /\ failures < Failures /\ failures' = failures + 1
          /\ dump' = NoDump
          /\ transfers' = [transfers EXCEPT ![dump.id].status = "io_error"]
          /\ UNCHANGED <<frames, resets>>
    /\ UNCHANGED <<boot, producer, queue, drops, flash, card, flush, log, sdWriter,
                   recovery, sending, ground>>

(* canTask: a frame the driver does not take is kept, and tried again.      *)
TakeFrame ==
    /\ sending = <<>> /\ frames # <<>>
    /\ sending' = <<Head(frames)>> /\ frames' = Tail(frames)
    /\ UNCHANGED <<boot, producer, queue, drops, flash, card, flush, sdTask, sdWriter,
                   recovery, dump, history, counts>>

SendFrame ==
    /\ sending # <<>>
    /\ ground' = ground \o sending /\ sending' = <<>>
    /\ UNCHANGED <<boot, producer, queue, drops, flash, card, flush, sdTask, sdWriter,
                   recovery, dump, frames, transfers, counts>>

---------------------------------------------------------------------------
(* SdWriterTask.                                                            *)

(* Woken by a notification or after 10 ms.                                  *)
WriterWakes ==
    /\ writer = "wait"
    /\ asked' = (flush = "asked")
    /\ writer' = IF error THEN "sync" ELSE "drain"
    /\ UNCHANGED <<boot, producer, queue, drops, flash, card, flush, sdTask, recovery,
                   counts, link>>

MutBatchReady == Len(stage) >= Batch
BatchReady == Len(stage) >= Batch \/ (asked /\ stage # <<>>)

MutConsumed(n) == SubSeq(stage, n, Len(stage))
Consumed(n) == SubSeq(stage, n + 1, Len(stage))

(* A batch leaves PSRAM when all of it is on the card.  A partial write is  *)
(* cut off again and latches the error.                                     *)
DrainOneBatch ==
    /\ writer = "drain" /\ BatchReady
    /\ LET n == IF Len(stage) < Batch THEN Len(stage) ELSE Batch
       IN  \/ /\ file' = file \o SubSeq(stage, 1, n)
              /\ stage' = Consumed(n)
              /\ UNCHANGED <<error, writer, counts>>
           \/ /\ failures < Failures /\ failures' = failures + 1
              /\ error' = TRUE /\ writer' = "sync"
              /\ UNCHANGED <<file, stage, resets>>
    /\ UNCHANGED <<boot, producer, queue, drops, flash, durable, flush, sdTask, asked,
                   recovery, link>>

DrainEnds ==
    /\ writer = "drain" /\ ~BatchReady
    /\ writer' = "sync"
    /\ UNCHANGED <<boot, producer, queue, drops, flash, card, flush, sdTask, asked,
                   recovery, counts, link>>

MutAnswerFlush == flush' = IF error' THEN flush ELSE "acked"
AnswerFlush == flush' = "acked"

(* The end of a pass: a flush is fsynced, unless the log has failed, and    *)
(* answered in either case.                                                 *)
PassEnds ==
    /\ writer = "sync"
    /\ writer' = "wait" /\ asked' = FALSE
    /\ IF ~asked
         THEN UNCHANGED <<durable, error, flush, counts>>
         ELSE /\ \/ error /\ UNCHANGED <<durable, error, counts>>
                 \/ ~error /\ durable' = Len(file) /\ UNCHANGED <<error, counts>>
                 \/ /\ ~error /\ failures < Failures
                    /\ failures' = failures + 1 /\ error' = TRUE
                    /\ UNCHANGED <<durable, resets>>
              /\ AnswerFlush
    /\ UNCHANGED <<boot, producer, queue, drops, flash, stage, file, sdTask, recovery, link>>

---------------------------------------------------------------------------
(* Both ways out of a boot lose RAM.  The file keeps the length it had at   *)
(* the last fsync: FAT stores it in the directory entry then.               *)
RamLost ==
    /\ mission' = "command"
    /\ made' = 0 /\ hand' = 0 /\ decimation' = 0
    /\ queue' = <<>> /\ drops' = 0 /\ flash' = NoFlash
    /\ stage' = <<>> /\ error' = FALSE
    /\ file' = SubSeq(file, 1, durable)
    /\ flush' = "none" /\ task' = "boot" /\ writer' = "off" /\ asked' = FALSE
    /\ log' = [ready |-> FALSE, failed |-> FALSE]
    /\ recovery' = NoRecovery
    /\ dump' = NoDump /\ frames' = <<>> /\ sending' = <<>>
    /\ transfers' = [i \in DOMAIN transfers |-> [transfers[i] EXCEPT !.awake = FALSE]]
    /\ UNCHANGED <<durable, failures, ground>>

(* The entry to recovery, and the end of a wake window: a dump that is      *)
(* still going on is not waited for.                                        *)
DeepSleep ==
    /\ (recovery.sd /\ recovery.flash) \/ boot = "recovery"
    /\ boot' = "recovery"
    /\ RamLost /\ UNCHANGED resets

(* A reset in flight comes back as a flight boot, with the mission state    *)
(* restored from its checkpoint, or in CommandReceive.                      *)
Reset ==
    /\ boot = "flight" /\ resets < Resets /\ resets' = resets + 1
    /\ UNCHANGED boot
    /\ RamLost

Producer == StartSequence \/ BackToCommand \/ MakeRecord \/ SendRecord
FlashTask == FlashAppend \/ RequestRecovery \/ FlashFlushed
SdLogTask == \/ PrepareForFlight \/ PrepareFails \/ OpenExisting \/ AppendRecord \/ QueueDrained
             \/ TakeSignal \/ FlushAnswered \/ StartDump \/ StopDump \/ DumpFrame
CanTask == TakeFrame \/ SendFrame
SdWriter == WriterWakes \/ DrainOneBatch \/ DrainEnds \/ PassEnds

Next == Producer \/ FlashTask \/ SdLogTask \/ CanTask \/ SdWriter \/ DeepSleep \/ Reset

(* Tasks are scheduled and the card answers every call.  The producer is    *)
(* periodic; recovery and resets are up to the world.                       *)
Fairness == WF_vars(SendRecord) /\ WF_vars(SdLogTask) /\ WF_vars(SdWriter)

Spec == Init /\ [][Next]_vars /\ Fairness

---------------------------------------------------------------------------
Pipeline == file \o stage \o queue \o (IF hand = 0 THEN <<>> ELSE <<hand>>)

Ascending(s) == \A i \in 1 .. Len(s) - 1 : s[i] < s[i + 1]

FlightStorageTypeOK ==
    /\ boot \in {"flight", "recovery"} /\ mission \in {"command", "flight"}
    /\ made \in 0..Records /\ hand \in {0, made} /\ decimation \in 0..Decimation - 1
    /\ Len(queue) <= SdQueue /\ flash.queue \in 0..FlashQueue
    /\ Len(stage) <= Capacity /\ durable \in 0..Len(file)
    /\ task \in {"boot", "drain", "signal", "flush", "control"}
    /\ Len(frames) <= FrameQueue /\ dump.next + dump.left <= Len(file)
    /\ writer \in {"off", "wait", "drain", "sync"}
    /\ flush \in {"none", "asked", "acked"} /\ (flush # "none" <=> task = "flush")

(* On its way to the card no record is repeated, overtaken or lost          *)
(* unnoticed: what is on the file, in PSRAM, in the queue and in hand are   *)
(* the records of this flight in their order, and exactly the missing ones  *)
(* are in sd_log_drop_count.                                                *)
CardIsTheFlight ==
    boot = "flight" /\ log.ready => /\ Ascending(Pipeline)
                                   /\ Len(Pipeline) + drops = made

(* Of a transfer the ground gets a run of the file from the offset it asked *)
(* for, nothing left out or sent twice and no more than it asked for,       *)
(* whatever queue was full; and while the board is awake a transfer that    *)
(* was reported complete is all sent or on its way (sdLogTask, canTask).    *)
Frames == ground \o sending \o frames
Sent(id, n) == Cardinality({k \in 1..n : Frames[k].id = id})
DumpIsTheLog ==
    \A id \in DOMAIN transfers :
        LET t == transfers[id]
        IN /\ \A k \in DOMAIN Frames :
                Frames[k].id = id => Frames[k].record = file[t.offset + Sent(id, k)]
           /\ Sent(id, Len(Frames)) <= t.length
           /\ t.awake /\ t.status = "complete" => Sent(id, Len(Frames)) = t.length

(* The log is the flight, on the card and as the ground reads it back.      *)
LogIsTheFlight == FlightStorageTypeOK /\ CardIsTheFlight /\ DumpIsTheLog

(* A flush that is reported for recovery left nothing of what had reached   *)
(* the log in PSRAM and nothing of the file unsynced, unless the log is     *)
(* marked failed.                                                           *)
FlushIsWhole ==
    [][~recovery.sd /\ recovery'.sd =>
         \/ log'.failed
         \/ stage' = <<>> /\ durable' = Len(file')]_vars

(* Recovery is not kept from its flush: once it is requested the SD log     *)
(* reports, whatever failed on the card.                                    *)
FlushEnds == recovery.requested ~> (recovery.sd \/ ~recovery.requested)

(* docs/08a, MISSION-LOG-005: after a recovery request the queue is drained *)
(* and then the flush is complete.  sdLogTask takes the signal after its    *)
(* last look at the queue.                                                  *)
DrainsBeforeFlush ==
    [][~recovery.sd /\ recovery'.sd /\ ~log'.failed => queue' = <<>> /\ hand' = 0]_vars

(* docs/08a, MISSION-LOG-003: a Start is refused while the log on the card  *)
(* is not open.  No part of the readiness snapshot depends on it.           *)
FlightIsLogged == mission = "flight" => log.ready
=============================================================================
