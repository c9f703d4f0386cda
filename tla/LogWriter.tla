----------------------------- MODULE LogWriter -----------------------------
(***************************************************************************)
(* The log of one motor characterization run, from the task that produces  *)
(* it to the file on the microSD card (characterization/log_writer_v5).    *)
(*                                                                         *)
(* Three tasks work on it: the runner (core 0) puts one record per epoch   *)
(* into ring; char_log_stage (core 1, priority 12) moves it to the staging *)
(* area in PSRAM; char_writer (core 1, priority 10) copies batches of it   *)
(* to the file.  The runner ends a log with two requests, Sync and         *)
(* Finalize, which travel through both tasks and are answered.             *)
(*                                                                         *)
(* A record is [run, seq].  The bytes of the header, the records and the   *)
(* footer are not modelled, their order in the file and the checksum over  *)
(* them are: crc is the sequence of the records the checksum has seen.     *)
(***************************************************************************)
EXTENDS Integers, Sequences, SequencesExt, FiniteSets

CONSTANTS
    Runs,        \* number of runs between two boots (a bound)
    Records,     \* number of epochs, hence of records, of a run (a bound)
    RingDepth,   \* kQueueDepth
    StageDepth,  \* kPsramStagingCapacity
    Batch,       \* kBatchRecords
    Failures     \* number of writes and syncs that fail, and of unfit records (a bound)

ASSUME LogWriterAssumption ==
    /\ Runs \in Nat /\ Records \in Nat /\ Failures \in Nat
    /\ {RingDepth, StageDepth, Batch} \subseteq Nat \ {0}

VARIABLES
    runner,   \* the step of ProfileRunner::run that comes next, its errors, and
              \* which of its records char_log_stage will refuse
    log,      \* the members of LogWriterV5 that are no queue
    ring,     \* ingress_ring_ between its two indices
    stage,    \* psram_stage_ with its indices w and r
    request,  \* where the control request is, and of which kind
    sd,       \* the batch char_writer is writing, and the index it began at
    file      \* the open file, or the last one

vars == <<runner, log, ring, stage, request, sd, file>>

-----------------------------------------------------------------------------

Record(n) == [run |-> runner.run, seq |-> n]
Sent      == [i \in 1..runner.sent |-> Record(i - 1)]

\* Unsigned subtraction: more was read than written only while a reset has torn
\* the indices apart, and then the difference is larger than any capacity.
Huge      == StageDepth + Batch
Torn      == stage.w < stage.r
Occupancy == IF Torn THEN Huge ELSE stage.w - stage.r

RingFull == Len(ring) >= RingDepth

\* validateRecordStrict and encodeRecord: that a record is refused is in the record.
Fits(r) == r.seq \notin runner.unfit

MutStageFull == Occupancy > StageDepth
StageFull == Occupancy >= StageDepth
Staged(from, n) == [i \in 1..n |-> stage.slots[(from + i - 1) % StageDepth]]

NoFooter == [total |-> -1, normal |-> FALSE, crc |-> <<>>]
NoFile   == [recs |-> <<>>, torn |-> FALSE, footer |-> NoFooter]

\* rememberFirst: the first error of a log is kept.
Fail(l) == [l EXCEPT !.first_error = TRUE]

Init ==
    /\ runner  = [pc |-> "idle", run |-> 0, sent |-> 0, failed |-> FALSE,
                  accepted |-> FALSE, clean |-> TRUE, failures |-> 0, unfit |-> {}]
    /\ log     = [ready |-> FALSE, prepared |-> FALSE, fd |-> FALSE,
                  accepting |-> FALSE, synced |-> FALSE, first_error |-> FALSE,
                  sd_failed |-> FALSE, overflows |-> FALSE, written |-> 0,
                  crc |-> <<>>, result |-> FALSE]
    /\ ring    = <<>>
    /\ stage   = [w |-> 0, r |-> 0,
                  slots |-> [i \in 0..(StageDepth - 1) |-> [run |-> 0, seq |-> 0]]]
    /\ request = [at |-> "none", kind |-> "Sync", normal |-> FALSE]
    /\ sd      = [busy |-> FALSE, from |-> 0, batch |-> <<>>]
    /\ file    = NoFile

\* What closing leaves of the reserved file: what was written, cut off there.
Closed(footer) == [file EXCEPT !.footer = footer]

MayFail == runner.failures < Failures
Failed  == runner' = [runner EXCEPT !.failures = @ + 1]

-----------------------------------------------------------------------------
\* The runner, on core 0.

\* The card is mounted and has a directory of logs.
Mounted(l) == [l EXCEPT !.ready = TRUE]

\* The card is mounted once; a card that is missing then stays missing.
Initialize ==
    /\ runner.pc = "idle" /\ ~log.ready
    /\ log' = Mounted(log)
    /\ UNCHANGED <<runner, ring, stage, request, sd, file>>

\* A contiguous file is reserved; when it cannot be, nothing is left of it.
Prepare ==
    /\ runner.pc = "idle" /\ runner.run < Runs
    /\ log.ready /\ ~log.fd /\ ~log.prepared
    /\ runner' = [runner EXCEPT !.pc = "prepared", !.run = @ + 1, !.sent = 0,
                                !.failed = FALSE, !.accepted = FALSE, !.unfit = {}]
    /\ log'    = [log EXCEPT !.prepared = TRUE, !.fd = TRUE,
                             !.accepting = FALSE, !.synced = TRUE]
    /\ file'   = NoFile
    /\ UNCHANGED <<ring, stage, request, sd>>

\* The header cannot be written: cleanupPreparedFile removes the file.
OpenFails ==
    /\ runner.pc = "prepared" /\ MayFail
    /\ runner' = [runner EXCEPT !.pc = "idle", !.failed = TRUE, !.failures = @ + 1]
    /\ log'    = [log EXCEPT !.accepting = FALSE, !.synced = FALSE,
                             !.fd = FALSE, !.prepared = FALSE]
    /\ ring'   = <<>>
    /\ stage'  = [stage EXCEPT !.w = 0, !.r = 0]
    /\ UNCHANGED <<request, sd, file>>

\* The header is written and resetRunMetrics begins.  It resets one atomic
\* after the other while char_writer keeps running: sd_write_failed_ first ...
Open ==
    /\ runner.pc = "prepared"
    /\ runner'  = [runner EXCEPT !.pc = "reset_write",
                                 !.clean = stage.w = stage.r /\ ~sd.busy]
    /\ request' = [request EXCEPT !.at = "none"]
    /\ log'     = [log EXCEPT !.first_error = FALSE, !.sd_failed = FALSE,
                              !.written = 0, !.overflows = FALSE]
    /\ ring'    = <<>>
    /\ UNCHANGED <<stage, sd, file>>

\* ... then psram_write_index_ ...
ResetWriteIndex ==
    /\ runner.pc = "reset_write"
    /\ runner' = [runner EXCEPT !.pc = "reset_read"]
    /\ stage'  = [stage EXCEPT !.w = 0]
    /\ UNCHANGED <<log, ring, request, sd, file>>

\* ... and psram_read_index_; now the log accepts records.
ResetReadIndex ==
    /\ runner.pc = "reset_read"
    /\ runner' = [runner EXCEPT !.pc = "running"]
    /\ stage'  = [stage EXCEPT !.r = 0]
    /\ log'    = [log EXCEPT !.crc = <<>>, !.synced = FALSE, !.accepting = TRUE]
    /\ UNCHANGED <<ring, request, sd, file>>

\* One record per epoch, which nothing looks into on this core (validateRecord is
\* empty in the firmware).  A full ring is an error of the log.
Enqueue ==
    /\ runner.pc = "running" /\ runner.sent < Records
    /\ log.accepting /\ log.fd /\ ~log.first_error
    /\ IF RingFull
         THEN /\ log'    = [Fail(log) EXCEPT !.overflows = TRUE]
              /\ runner' = [runner EXCEPT !.failed = TRUE]
              /\ ring'   = ring
         ELSE /\ ring' = Append(ring, Record(runner.sent))
              /\ \/ runner' = [runner EXCEPT !.sent = @ + 1]
                 \/ MayFail /\ runner' = [runner EXCEPT !.sent = @ + 1, !.failures = @ + 1,
                                             !.unfit = @ \union {runner.sent}]
              /\ log' = log
    /\ UNCHANGED <<stage, request, sd, file>>

\* The loop ends: all epochs are done, or it stops for an error of the log or
\* of its own.  drainAndSync follows.
DrainAndSync ==
    /\ runner.pc = "running"
    /\ \E failed \in BOOLEAN :
         /\ runner.sent = Records \/ failed
         /\ runner' = [runner EXCEPT !.pc = "syncing",
                         !.failed = @ \/ failed \/ log.first_error]
    /\ log'     = [log EXCEPT !.accepting = FALSE]
    /\ request' = [at |-> "stage_queue", kind |-> "Sync", normal |-> FALSE]
    /\ UNCHANGED <<ring, stage, sd, file>>

\* The request is answered; the footer that follows states the completion.
Close ==
    /\ runner.pc = "syncing" /\ request.at = "done"
    /\ LET failed == runner.failed \/ log.result IN
       /\ runner'  = [runner EXCEPT !.pc = "closing", !.failed = failed]
       /\ request' = [at |-> "stage_queue", kind |-> "Finalize", normal |-> ~failed]
    /\ UNCHANGED <<log, ring, stage, sd, file>>

\* finishRun: the run is accepted if no step of it failed.
Finish ==
    /\ runner.pc = "closing" /\ request.at = "done"
    /\ runner'  = [runner EXCEPT !.pc = "idle", !.failed = @ \/ log.result,
                                 !.accepted = ~(runner.failed \/ log.result)]
    /\ request' = [request EXCEPT !.at = "none"]
    /\ UNCHANGED <<log, ring, stage, sd, file>>

-----------------------------------------------------------------------------
\* char_log_stage, on core 1.

\* The oldest record of the ring is validated, encoded and staged.
StageRecord ==
    /\ ring # <<>> /\ Fits(Head(ring)) /\ ~StageFull
    /\ stage' = [stage EXCEPT !.slots[stage.w % StageDepth] = Head(ring), !.w = @ + 1]
    /\ ring'  = Tail(ring)
    /\ UNCHANGED <<runner, log, request, sd, file>>

\* A record that is refused is an error of the log and stays in the ring; the
\* task's loop, which never leaves a ring that is not empty, comes back to it at
\* once, and finds it as it was ...
Refused == ring # <<>> /\ ~Fits(Head(ring))
RefuseRecord ==
    /\ Refused
    /\ log' = Fail(log)
    /\ UNCHANGED <<runner, ring, stage, request, sd, file>>

\* ... and so is one for which there is no room.
StageOverflows ==
    /\ ring # <<>> /\ Fits(Head(ring)) /\ StageFull
    /\ log' = [Fail(log) EXCEPT !.overflows = TRUE]
    /\ UNCHANGED <<runner, ring, stage, request, sd, file>>

\* Only when the ring is empty is a request passed on; the task waits for
\* the answer.
ForwardControl ==
    /\ ring = <<>> /\ request.at = "stage_queue"
    /\ request' = [request EXCEPT !.at = "sd_queue"]
    /\ UNCHANGED <<runner, log, ring, stage, sd, file>>

AnswerControl ==
    /\ request.at = "answered"
    /\ request' = [request EXCEPT !.at = "done"]
    /\ UNCHANGED <<runner, log, ring, stage, sd, file>>

Stage == StageRecord \/ RefuseRecord \/ StageOverflows \/ ForwardControl \/ AnswerControl

\* What keeps char_writer, of a lower priority and on the same core, waiting.
StageIsReady == ring # <<>> \/ request.at \in {"stage_queue", "answered"}

-----------------------------------------------------------------------------
\* char_writer, on core 1.

CanDrain == ~log.sd_failed /\ log.fd /\ stage.w # stage.r

\* drainStagedBatch takes the indices and copies a batch ...  Between the two
\* stores of a reset it copies whatever the slots hold, and may do so for ever;
\* the first such batch is followed (a bound).
LoadBatch ==
    /\ ~sd.busy /\ CanDrain /\ (Torn => runner.clean)
    /\ LET n == IF Occupancy < Batch THEN Occupancy ELSE Batch IN
       sd' = [busy |-> TRUE, from |-> stage.r, batch |-> Staged(stage.r, n)]
    /\ runner' = [runner EXCEPT !.clean = @ /\ ~Torn]
    /\ UNCHANGED <<log, ring, stage, request, file>>

\* ... writes it, which may take seconds, and publishes the new read index.
WriteBatch ==
    /\ sd.busy /\ log.fd
    /\ sd'    = [sd EXCEPT !.busy = FALSE, !.batch = <<>>]
    /\ file'  = [file EXCEPT !.recs = @ \o sd.batch]
    /\ log'   = [log EXCEPT !.crc = @ \o sd.batch, !.written = @ + Len(sd.batch)]
    /\ stage' = [stage EXCEPT !.r = sd.from + Len(sd.batch)]
    /\ UNCHANGED <<runner, ring, request>>

\* A write that fails leaves part of the batch in the file and the whole of
\* it in the staging area.
WriteFails ==
    /\ sd.busy /\ MayFail /\ Failed
    /\ sd'   = [sd EXCEPT !.busy = FALSE, !.batch = <<>>]
    /\ file' = [file EXCEPT !.torn = TRUE]
    /\ log'  = [Fail(log) EXCEPT !.sd_failed = TRUE]
    /\ UNCHANGED <<ring, stage, request>>

\* Requests come when there is nothing left to drain.
MutAtControlAtOnce(kind) ==
    /\ request.at = "sd_queue" /\ request.kind = kind
    /\ ~sd.busy
MutAtControlWhenEmpty(kind) ==
    /\ request.at = "sd_queue" /\ request.kind = kind
    /\ ~sd.busy /\ stage.w = stage.r
AtControl(kind) ==
    /\ request.at = "sd_queue" /\ request.kind = kind
    /\ ~sd.busy /\ ~CanDrain

SdSync ==
    /\ AtControl("Sync")
    /\ \E ok \in BOOLEAN :
         /\ IF ok THEN UNCHANGED runner ELSE MayFail /\ Failed
         /\ request' = [request EXCEPT !.at = "answered"]
         /\ log' = [log EXCEPT !.synced = ok, !.result = log.first_error \/ ~ok,
                               !.first_error = @ \/ ~ok]
    /\ UNCHANGED <<ring, stage, sd, file>>

\* The first and the last sequence number of a footer span its records.
SequenceValid ==
    log.written = 0 \/ log.written = Last(file.recs).seq - Head(file.recs).seq + 1

\* A normal completion has records, and none of the queues overflowed.
NormalIsClean == request.normal => log.written # 0 /\ ~log.overflows

\* encodeFooter refuses any other footer.
FooterFits == SequenceValid /\ NormalIsClean

\* The file is closed whatever fails; only a whole footer is written.
SdFinalize ==
    /\ AtControl("Finalize")
    /\ \E ok \in BOOLEAN :
         LET result == log.first_error \/ ~log.synced \/ ~FooterFits \/ ~ok IN
         /\ IF ok THEN UNCHANGED runner ELSE MayFail /\ Failed
         /\ file' = Closed(IF FooterFits /\ ok
                             THEN [total |-> log.written, normal |-> request.normal,
                                   crc |-> log.crc]
                             ELSE NoFooter)
         /\ request' = [request EXCEPT !.at = "answered"]
         /\ log' = [log EXCEPT !.prepared = FALSE, !.synced = FALSE, !.fd = FALSE,
                               !.accepting = FALSE, !.result = result,
                               !.first_error = @ \/ result]
    /\ UNCHANGED <<ring, stage, sd>>

Sd == LoadBatch \/ WriteBatch \/ WriteFails \/ SdSync \/ SdFinalize

-----------------------------------------------------------------------------

Runner ==
    \/ Initialize \/ Prepare \/ OpenFails \/ Open \/ ResetWriteIndex
    \/ ResetReadIndex \/ Enqueue \/ DrainAndSync \/ Close \/ Finish

Next == Runner \/ Stage \/ Sd

\* Core 1 gives char_writer time only while char_log_stage waits.
Fairness ==
    /\ WF_vars(Runner /\ runner.pc # "idle")
    /\ WF_vars(Stage)
    /\ WF_vars(Sd /\ ~StageIsReady)

Spec == Init /\ [][Next]_vars /\ Fairness

-----------------------------------------------------------------------------
\* The members have the values the code gives them.
LogWriterTypeOK ==
    /\ runner.pc \in {"idle", "prepared", "reset_write", "reset_read", "running",
                      "syncing", "closing"}
    /\ runner.run \in 0..Runs /\ runner.sent \in 0..Records
    /\ Len(ring) <= RingDepth
    /\ request.at \in {"none", "stage_queue", "sd_queue", "answered", "done"}
    /\ (log.prepared => log.fd) /\ (log.accepting => log.prepared)
    /\ sd.busy => Len(sd.batch) \in 1..Batch

\* A footer is where the decoder looks for it: after whole records.
FooterDecodes(f) == f.footer # NoFooter /\ ~f.torn

\* The numbers of the records have no gap.
RecordsFollow(f) == \A i \in 1..(Len(f.recs) - 1) : f.recs[i + 1].seq = f.recs[i].seq + 1

\* The footer counts the records, a normal one at least one, and its checksum is
\* that of the bytes before it.
FooterCounts(f)   == f.footer.total = Len(f.recs)
NormalHasData(f)  == f.footer.normal => f.recs # <<>>
ChecksumHolds(f)  == f.footer.crc = f.recs

\* What the decoder (validateCapture) asks of a file.
ValidCapture(f) ==
    /\ RecordsFollow(f) /\ FooterDecodes(f)
    /\ FooterCounts(f) /\ NormalHasData(f) /\ ChecksumHolds(f)

\* From Enqueue to WriteBatch no record is lost, doubled, overtaken or
\* overwritten: the file, the staging area and the ring, in this order, hold
\* exactly the records of this run, whatever the three tasks do in between and
\* whichever write fails.  (clean: no log before this one left records behind, and
\* char_writer took no batch between the two stores of the reset.)
RecordsAreKept ==
    runner.clean /\ runner.pc \in {"running", "syncing", "closing"} =>
        /\ stage.r <= stage.w /\ stage.w - stage.r <= StageDepth
        /\ file.recs \o Staged(stage.r, stage.w - stage.r) \o ring = Sent

\* A run, its two rings and its file stay coherent, and keep the records.
LogIsSound == LogWriterTypeOK /\ RecordsAreKept

\* A run is accepted only if its file is whole: all of its records, and a
\* footer the decoder takes.
AcceptedFileIsWhole ==
    runner.clean /\ runner.pc = "idle" /\ runner.accepted =>
        file.recs = Sent /\ file.footer.normal /\ ValidCapture(file)

\* The end of a run ends: the two requests are answered, also when writes and syncs
\* fail, and the runner can report the run, unless the staging area was full or
\* char_log_stage is stuck at a record it refuses (the two findings below).
DrainEnds ==
    runner.pc \in {"syncing", "closing"} ~>
        runner.pc = "idle" \/ log.overflows \/ Refused \/ ~runner.clean

\* docs/characterization_campaign.md:249 has the run stop safely when the staging
\* area is full.  It does not stop: processRecordBatch leaves the record where
\* it is, taskLoop tries again for ever, and char_writer, which could make room,
\* waits for the core.
OverflowStops ==
    runner.pc \in {"syncing", "closing"} ~> runner.pc = "idle"

\* record_validation.cpp:222 has a record that fails the validation stop the run
\* through the notification of the failure.  The runner does stop for it, but its
\* drainAndSync is never answered: processRecordBatch leaves the refused record in
\* the ring, and taskLoop does not look at requests before the ring is empty.
RefusalStops == Refused ~> runner.pc = "idle"

\* include/characterization/spsc_ring.hpp:59 has a reset carry nothing of one run
\* to the next.  resetRunMetrics resets the indices of the staging area while
\* char_writer runs: what an earlier run could not write goes to the next file.
FilesAreTheirOwn ==
    \A i \in 1..Len(file.recs) : file.recs[i].run = runner.run

=============================================================================
