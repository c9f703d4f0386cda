-------------------------- MODULE LogWriterProofs --------------------------
(***************************************************************************)
(* Proofs about the log of a run, for any number of runs, records and      *)
(* failures and any sizes of the ring, the staging area and the batches.   *)
(*                                                                         *)
(* A record is where its number says: the file has those below the read    *)
(* index, the staging area those up to the write index, and the ring the   *)
(* rest (InPlace).  That resetRunMetrics may put both indices to zero one  *)
(* after the other while char_writer runs rests on there being nothing to  *)
(* write between two runs (Quiet), which the two requests see to: they are *)
(* passed on behind the last record only.                                  *)
(***************************************************************************)
EXTENDS LogWriter, SequenceTheorems, TLAPS

Recs == [run : 0..Runs, seq : Nat]
Steps ==
    {"idle", "prepared", "reset_write", "reset_read", "running", "syncing", "closing"}
RunsOf  == 0..Runs
Counts  == 0..Records
Numbers == Nat
Unfits  == SUBSET Counts
Logged  == Seq(Recs)
Slots   == [0..(StageDepth - 1) -> Recs]
Places  == {"none", "stage_queue", "sd_queue", "answered", "done"}

RunnersOf(steps, runs, counts, flags, numbers, unfits) ==
    [pc : steps, run : runs, sent : counts, failed : flags, accepted : flags,
     clean : flags, failures : numbers, unfit : unfits]
LogsOf(flags, numbers, logged) ==
    [ready : flags, prepared : flags, fd : flags, accepting : flags, synced : flags,
     first_error : flags, sd_failed : flags, overflows : flags, written : numbers,
     crc : logged, result : flags]
StagesOf(numbers, slots)       == [w : numbers, r : numbers, slots : slots]
RequestsOf(places, kinds, flags) == [at : places, kind : kinds, normal : flags]
WritesOf(flags, numbers, logged) == [busy : flags, from : numbers, batch : logged]
FilesOf(logged, flags, footers)  == [recs : logged, torn : flags, footer : footers]

Runners  == RunnersOf(Steps, RunsOf, Counts, BOOLEAN, Numbers, Unfits)
Logs     == LogsOf(BOOLEAN, Numbers, Logged)
Stages   == StagesOf(Numbers, Slots)
Requests == RequestsOf(Places, {"Sync", "Finalize"}, BOOLEAN)
Writes   == WritesOf(BOOLEAN, Numbers, Logged)
Footers  == [total : Int, normal : BOOLEAN, crc : Logged]
Files    == FilesOf(Logged, BOOLEAN, Footers)

TypesOK ==
    /\ runner \in Runners /\ log \in Logs
    /\ ring \in Logged /\ Len(ring) <= RingDepth
    /\ stage \in Stages /\ request \in Requests
    /\ sd \in Writes /\ (sd.busy => Len(sd.batch) \in 1..Batch)
    /\ file \in Files

\* The file is open from Prepare until it is finalized; a request is on its way in
\* the last two steps of the runner, and is the one of the step.
Finalized == runner.pc = "closing" /\ request.at \in {"answered", "done"}
StepsAgree ==
    /\ log.prepared = log.fd
    /\ log.fd <=> ~(runner.pc = "idle" \/ Finalized)
    /\ log.accepting => runner.pc = "running"
    /\ (request.at = "none") <=> (runner.pc \notin {"syncing", "closing"})
    /\ (runner.pc = "syncing") => (request.kind = "Sync")
    /\ runner.pc = "closing" =>
         request.kind = "Finalize" /\ (request.normal = ~runner.failed)
    /\ runner.accepted => runner.pc = "idle"
    /\ log.sd_failed => log.first_error
    /\ file.torn => log.sd_failed

\* Behind a request that was passed on there is no record, and between two runs
\* nothing is written.
Quiet ==
    /\ runner.pc = "closing" \/ (runner.pc = "syncing" /\ request.at # "stage_queue") =>
         ring = <<>>
    /\ runner.pc \in {"idle", "prepared"} \/ Finalized =>
         ring = <<>> /\ ~sd.busy /\ (log.sd_failed \/ stage.w = stage.r)
    /\ runner.pc = "prepared" => file = NoFile
    /\ runner.pc \in {"prepared", "reset_write", "reset_read"} => runner.sent = 0

\* A clean run begins with its two indices equal and an empty file ...
Resetting ==
    runner.clean /\ runner.pc \in {"reset_write", "reset_read"} =>
        /\ file = NoFile /\ log.written = 0 /\ ring = <<>> /\ ~sd.busy
        /\ runner.pc = "reset_write" => stage.w = stage.r
        /\ runner.pc = "reset_read" => stage.w = 0

\* ... and has its records in their places from then on.
InPlace ==
    runner.clean /\ runner.pc \in {"running", "syncing", "closing"} =>
        /\ stage.r <= stage.w /\ stage.w - stage.r <= StageDepth
        /\ Len(file.recs) = stage.r /\ stage.w + Len(ring) = runner.sent
        /\ \A i \in 1..stage.r : file.recs[i] = Record(i - 1)
        /\ \A k \in stage.r..(stage.w - 1) : stage.slots[k % StageDepth] = Record(k)
        /\ \A i \in 1..Len(ring) : ring[i] = Record(stage.w + i - 1)
        /\ sd.busy =>
             /\ sd.from = stage.r /\ Len(sd.batch) <= stage.w - stage.r
             /\ \A i \in 1..Len(sd.batch) : sd.batch[i] = Record(stage.r + i - 1)
        /\ log.written = stage.r /\ log.crc = file.recs

\* A run that is finalized without an error has a whole file.
WholeFile == file.recs = Sent /\ file.footer.normal /\ ValidCapture(file)
Accepting ==
    \/ Finalized /\ ~log.result /\ ~runner.failed
    \/ runner.pc = "idle" /\ runner.accepted
EndsWhole == runner.clean /\ Accepting => WholeFile

IInv == TypesOK /\ StepsAgree /\ Quiet /\ Resetting /\ InPlace /\ EndsWhole

USE LogWriterAssumption

-----------------------------------------------------------------------------
\* What the actions make of a record is again one, whatever its members are.

LEMMA RunnerUpdates ==
    ASSUME NEW P, NEW R, NEW C, NEW F, NEW N, NEW U,
           NEW x \in RunnersOf(P, R, C, F, N, U)
    PROVE  LET X == RunnersOf(P, R, C, F, N, U) IN
           /\ \A p \in P, r \in R, c \in C, f \in F, g \in F, u \in U :
                [x EXCEPT !.pc = p, !.run = r, !.sent = c, !.failed = f,
                          !.accepted = g, !.unfit = u] \in X
           /\ \A c \in C, n \in N, u \in U :
                [x EXCEPT !.sent = c, !.failures = n, !.unfit = u] \in X
           /\ \A p \in P, f \in F, n \in N :
                [x EXCEPT !.pc = p, !.failed = f, !.failures = n] \in X
           /\ \A p \in P, f \in F : [x EXCEPT !.pc = p, !.clean = f] \in X
           /\ \A p \in P : [x EXCEPT !.pc = p] \in X
           /\ \A f \in F : [x EXCEPT !.failed = f] \in X
           /\ \A f \in F : [x EXCEPT !.clean = f] \in X
           /\ \A c \in C : [x EXCEPT !.sent = c] \in X
           /\ \A n \in N : [x EXCEPT !.failures = n] \in X
           /\ \A p \in P, f \in F : [x EXCEPT !.pc = p, !.failed = f] \in X
           /\ \A p \in P, f \in F, g \in F :
                [x EXCEPT !.pc = p, !.failed = f, !.accepted = g] \in X
BY DEF RunnersOf

LEMMA LogUpdates ==
    ASSUME NEW F, NEW N, NEW L, NEW x \in LogsOf(F, N, L)
    PROVE  LET X == LogsOf(F, N, L) IN
           /\ \A f \in F : [x EXCEPT !.ready = f] \in X
           /\ \A f \in F, g \in F, h \in F, k \in F :
                [x EXCEPT !.prepared = f, !.fd = g, !.accepting = h, !.synced = k] \in X
           /\ \A f \in F, g \in F, h \in F, k \in F :
                [x EXCEPT !.accepting = f, !.synced = g, !.fd = h, !.prepared = k] \in X
           /\ \A f \in F, g \in F, n \in N, h \in F :
                [x EXCEPT !.first_error = f, !.sd_failed = g, !.written = n,
                          !.overflows = h] \in X
           /\ \A l \in L, f \in F, g \in F :
                [x EXCEPT !.crc = l, !.synced = f, !.accepting = g] \in X
           /\ \A f \in F : [x EXCEPT !.first_error = f] \in X
           /\ \A f \in F, g \in F :
                [[x EXCEPT !.first_error = f] EXCEPT !.overflows = g] \in X
           /\ \A f \in F, g \in F :
                [[x EXCEPT !.first_error = f] EXCEPT !.sd_failed = g] \in X
           /\ \A f \in F : [x EXCEPT !.accepting = f] \in X
           /\ \A l \in L, n \in N : [x EXCEPT !.crc = l, !.written = n] \in X
           /\ \A f \in F, g \in F, h \in F :
                [x EXCEPT !.synced = f, !.result = g, !.first_error = h] \in X
           /\ \A f \in F, g \in F, h \in F, k \in F, m \in F, n \in F :
                [x EXCEPT !.prepared = f, !.synced = g, !.fd = h, !.accepting = k,
                          !.result = m, !.first_error = n] \in X
BY DEF LogsOf

LEMMA StageUpdates ==
    ASSUME NEW N, NEW S, NEW x \in StagesOf(N, S)
    PROVE  LET X == StagesOf(N, S) IN
           /\ \A w \in N : [x EXCEPT !.w = w] \in X
           /\ \A r \in N : [x EXCEPT !.r = r] \in X
           /\ \A w \in N, r \in N : [x EXCEPT !.w = w, !.r = r] \in X
           /\ \A w \in N, s \in S : [x EXCEPT !.slots = s, !.w = w] \in X
BY DEF StagesOf

LEMMA StageRecordIs ==
    ASSUME NEW N, NEW S, NEW x \in StagesOf(N, S), NEW i, NEW v, NEW w
    PROVE  [x EXCEPT !.slots[i] = v, !.w = w]
             = [x EXCEPT !.slots = [x.slots EXCEPT ![i] = v], !.w = w]
BY DEF StagesOf

LEMMA OtherUpdates ==
    ASSUME NEW A, NEW K, NEW F, NEW N, NEW L, NEW T
    PROVE  /\ \A x \in RequestsOf(A, K, F), a \in A :
                [x EXCEPT !.at = a] \in RequestsOf(A, K, F)
           /\ \A x \in WritesOf(F, N, L), f \in F, l \in L :
                [x EXCEPT !.busy = f, !.batch = l] \in WritesOf(F, N, L)
           /\ \A x \in FilesOf(L, F, T) :
                /\ \A l \in L : [x EXCEPT !.recs = l] \in FilesOf(L, F, T)
                /\ \A f \in F : [x EXCEPT !.torn = f] \in FilesOf(L, F, T)
                /\ \A t \in T : [x EXCEPT !.footer = t] \in FilesOf(L, F, T)
BY DEF RequestsOf, WritesOf, FilesOf

-----------------------------------------------------------------------------
\* Type correctness, action by action.

\* The values the actions write.
LEMMA Values ==
    /\ {"idle", "prepared", "reset_write", "reset_read", "running", "syncing",
        "closing"} = Steps
    /\ {"none", "stage_queue", "sd_queue", "answered", "done"} = Places
    /\ TRUE \in BOOLEAN /\ FALSE \in BOOLEAN
    /\ 0 \in Numbers /\ 0 \in Counts /\ <<>> \in Logged /\ {} \in Unfits
    /\ NoFooter \in Footers /\ NoFile \in Files
<1>1. 0 \in Numbers /\ 0 \in Counts /\ <<>> \in Logged /\ {} \in Unfits
  BY EmptySeq DEF Numbers, Counts, Logged, Unfits
<1>2. NoFooter \in Footers
  BY <1>1 DEF NoFooter, Footers
<1> QED BY <1>1, <1>2 DEF Steps, Places, NoFile, Files, FilesOf

\* The members of the records, one by one.
LEMMA Fields ==
    ASSUME TypesOK
    PROVE  /\ runner.pc \in Steps /\ runner.run \in RunsOf /\ runner.sent \in Counts
           /\ runner.failed \in BOOLEAN /\ runner.accepted \in BOOLEAN
           /\ runner.clean \in BOOLEAN /\ runner.failures \in Numbers
           /\ runner.unfit \in Unfits
           /\ log.ready \in BOOLEAN /\ log.prepared \in BOOLEAN /\ log.fd \in BOOLEAN
           /\ log.accepting \in BOOLEAN /\ log.synced \in BOOLEAN
           /\ log.first_error \in BOOLEAN /\ log.sd_failed \in BOOLEAN
           /\ log.overflows \in BOOLEAN /\ log.written \in Numbers
           /\ log.crc \in Logged /\ log.result \in BOOLEAN
           /\ stage.w \in Numbers /\ stage.r \in Numbers /\ stage.slots \in Slots
           /\ request.at \in Places /\ request.kind \in {"Sync", "Finalize"}
           /\ request.normal \in BOOLEAN
           /\ sd.busy \in BOOLEAN /\ sd.from \in Numbers /\ sd.batch \in Logged
           /\ file.recs \in Logged /\ file.torn \in BOOLEAN /\ file.footer \in Footers
<1>1. /\ runner.pc \in Steps /\ runner.run \in RunsOf /\ runner.sent \in Counts
      /\ runner.failed \in BOOLEAN /\ runner.accepted \in BOOLEAN
      /\ runner.clean \in BOOLEAN /\ runner.failures \in Numbers
      /\ runner.unfit \in Unfits
  BY DEF TypesOK, Runners, RunnersOf
<1>2. /\ log.ready \in BOOLEAN /\ log.prepared \in BOOLEAN /\ log.fd \in BOOLEAN
      /\ log.accepting \in BOOLEAN /\ log.synced \in BOOLEAN
      /\ log.first_error \in BOOLEAN /\ log.sd_failed \in BOOLEAN
      /\ log.overflows \in BOOLEAN /\ log.written \in Numbers
      /\ log.crc \in Logged /\ log.result \in BOOLEAN
  BY DEF TypesOK, Logs, LogsOf
<1>3. stage.w \in Numbers /\ stage.r \in Numbers /\ stage.slots \in Slots
  BY DEF TypesOK, Stages, StagesOf
<1>4. /\ request.at \in Places /\ request.kind \in {"Sync", "Finalize"}
      /\ request.normal \in BOOLEAN
  BY DEF TypesOK, Requests, RequestsOf
<1>5. sd.busy \in BOOLEAN /\ sd.from \in Numbers /\ sd.batch \in Logged
  BY DEF TypesOK, Writes, WritesOf
<1>6. file.recs \in Logged /\ file.torn \in BOOLEAN /\ file.footer \in Footers
  BY DEF TypesOK, Files, FilesOf
<1> QED BY <1>1, <1>2, <1>3, <1>4, <1>5, <1>6

LEMMA PrepareTypes == TypesOK /\ Prepare => TypesOK'
<1> SUFFICES ASSUME TypesOK, Prepare PROVE TypesOK'
  OBVIOUS
<1>0. runner.run + 1 \in RunsOf
  BY Fields DEF Prepare, RunsOf
<1>1. runner' \in Runners
  BY <1>0, Values, RunnerUpdates DEF TypesOK, Prepare, Runners
<1>2. log' \in Logs
  BY Values, LogUpdates DEF TypesOK, Prepare, Logs
<1> QED BY <1>1, <1>2, Values DEF TypesOK, Prepare

LEMMA OpenFailsTypes == TypesOK /\ OpenFails => TypesOK'
<1> SUFFICES ASSUME TypesOK, OpenFails PROVE TypesOK'
  OBVIOUS
<1>0. runner.failures + 1 \in Numbers
  BY Fields DEF Numbers
<1>1. runner' \in Runners
  BY <1>0, Values, RunnerUpdates DEF TypesOK, OpenFails, Runners
<1>2. log' \in Logs
  BY Values, LogUpdates DEF TypesOK, OpenFails, Logs
<1>3. stage' \in Stages
  BY Values, StageUpdates DEF TypesOK, OpenFails, Stages
<1> QED BY <1>1, <1>2, <1>3, Values DEF TypesOK, OpenFails

LEMMA OpenTypes == TypesOK /\ Open => TypesOK'
<1> SUFFICES ASSUME TypesOK, Open PROVE TypesOK'
  OBVIOUS
<1>0. (stage.w = stage.r /\ ~sd.busy) \in BOOLEAN
  OBVIOUS
<1>1. runner' \in Runners
  BY <1>0, Values, RunnerUpdates DEF TypesOK, Open, Runners
<1>2. log' \in Logs
  BY Values, LogUpdates DEF TypesOK, Open, Logs
<1>3. request' \in Requests
  BY Values, OtherUpdates DEF TypesOK, Open, Requests
<1> QED BY <1>1, <1>2, <1>3, Values DEF TypesOK, Open

LEMMA ResetWriteIndexTypes == TypesOK /\ ResetWriteIndex => TypesOK'
<1> SUFFICES ASSUME TypesOK, ResetWriteIndex PROVE TypesOK'
  OBVIOUS
<1>1. runner' \in Runners
  BY Values, RunnerUpdates DEF TypesOK, ResetWriteIndex, Runners
<1>2. stage' \in Stages
  BY Values, StageUpdates DEF TypesOK, ResetWriteIndex, Stages
<1> QED BY <1>1, <1>2 DEF TypesOK, ResetWriteIndex

LEMMA ResetReadIndexTypes == TypesOK /\ ResetReadIndex => TypesOK'
<1> SUFFICES ASSUME TypesOK, ResetReadIndex PROVE TypesOK'
  OBVIOUS
<1>1. runner' \in Runners
  BY Values, RunnerUpdates DEF TypesOK, ResetReadIndex, Runners
<1>2. stage' \in Stages
  BY Values, StageUpdates DEF TypesOK, ResetReadIndex, Stages
<1>3. log' \in Logs
  BY Values, LogUpdates DEF TypesOK, ResetReadIndex, Logs
<1> QED BY <1>1, <1>2, <1>3 DEF TypesOK, ResetReadIndex

LEMMA EnqueueTypes == TypesOK /\ Enqueue => TypesOK'
<1> SUFFICES ASSUME TypesOK, Enqueue PROVE TypesOK'
  OBVIOUS
<1>1. CASE RingFull
  <2>0. /\ runner' = [runner EXCEPT !.failed = TRUE]
        /\ log' = [[log EXCEPT !.first_error = TRUE] EXCEPT !.overflows = TRUE]
    BY <1>1 DEF Enqueue, Fail
  <2>1. runner' \in Runners
    BY <2>0, Values, RunnerUpdates DEF TypesOK, Runners
  <2>2. log' \in Logs
    BY <2>0, Values, LogUpdates DEF TypesOK, Logs
  <2> QED BY <1>1, <2>1, <2>2 DEF TypesOK, Enqueue
<1>2. CASE ~RingFull
  <2>1. runner.sent + 1 \in Counts
    BY Fields DEF Enqueue, Counts
  <2>2. runner' \in Runners
    <3> DEFINE unfit == runner.unfit \union {runner.sent}
               fails == runner.failures + 1
    <3>1. unfit \in Unfits /\ fails \in Numbers
      BY Fields DEF Unfits, Numbers
    <3>2. \/ runner' = [runner EXCEPT !.sent = runner.sent + 1]
          \/ runner' = [runner EXCEPT !.sent = runner.sent + 1, !.failures = fails,
                                      !.unfit = unfit]
      BY <1>2 DEF Enqueue
    <3> HIDE DEF unfit, fails
    <3>3. runner \in RunnersOf(Steps, RunsOf, Counts, BOOLEAN, Numbers, Unfits)
      BY DEF TypesOK, Runners
    <3>4. CASE runner' = [runner EXCEPT !.sent = runner.sent + 1]
      BY <3>3, <3>4, <2>1, RunnerUpdates DEF Runners
    <3>5. CASE runner' = [runner EXCEPT !.sent = runner.sent + 1, !.failures = fails,
                                       !.unfit = unfit]
      BY <3>1, <3>3, <3>5, <2>1, RunnerUpdates DEF Runners
    <3> QED BY <3>2, <3>4, <3>5
  <2>3. Record(runner.sent) \in Recs
    BY Fields DEF Record, Recs, RunsOf, Counts
  <2>4. ring' \in Logged /\ Len(ring') = Len(ring) + 1
    BY <1>2, <2>3, AppendProperties DEF TypesOK, Enqueue, Logged
  <2>5. Len(ring) \in Nat
    BY LenProperties DEF TypesOK, Logged
  <2> QED BY <1>2, <2>2, <2>4, <2>5 DEF TypesOK, Enqueue, RingFull
<1> QED BY <1>1, <1>2

LEMMA DrainAndSyncTypes == TypesOK /\ DrainAndSync => TypesOK'
<1> SUFFICES ASSUME TypesOK, DrainAndSync PROVE TypesOK'
  OBVIOUS
<1>0. PICK failed \in BOOLEAN :
        runner' = [runner EXCEPT !.pc = "syncing",
                     !.failed = @ \/ failed \/ log.first_error]
  BY DEF DrainAndSync
<1>1. (runner.failed \/ failed \/ log.first_error) \in BOOLEAN
  OBVIOUS
<1>2. runner' \in Runners
  BY <1>0, <1>1, Values, RunnerUpdates DEF TypesOK, Runners
<1>3. log' \in Logs
  BY Values, LogUpdates DEF TypesOK, DrainAndSync, Logs
<1>4. request' \in Requests
  BY Values DEF DrainAndSync, Requests, RequestsOf
<1> QED BY <1>2, <1>3, <1>4 DEF TypesOK, DrainAndSync

LEMMA CloseTypes == TypesOK /\ Close => TypesOK'
<1> SUFFICES ASSUME TypesOK, Close PROVE TypesOK'
  OBVIOUS
<1> DEFINE failed == runner.failed \/ log.result
<1>1. failed \in BOOLEAN /\ (~failed) \in BOOLEAN
  OBVIOUS
<1>2. /\ runner' = [runner EXCEPT !.pc = "closing", !.failed = failed]
      /\ request' = [at |-> "stage_queue", kind |-> "Finalize", normal |-> ~failed]
  BY DEF Close
<1> HIDE DEF failed
<1>3. runner' \in Runners
  BY <1>1, <1>2, Values, RunnerUpdates DEF TypesOK, Runners
<1>4. request' \in Requests
  BY <1>1, <1>2, Values DEF Requests, RequestsOf
<1> QED BY <1>3, <1>4 DEF TypesOK, Close

LEMMA FinishTypes == TypesOK /\ Finish => TypesOK'
<1> SUFFICES ASSUME TypesOK, Finish PROVE TypesOK'
  OBVIOUS
<1>1. /\ (runner.failed \/ log.result) \in BOOLEAN
      /\ (~(runner.failed \/ log.result)) \in BOOLEAN
  OBVIOUS
<1>2. runner' \in Runners
  BY <1>1, Values, RunnerUpdates DEF TypesOK, Finish, Runners
<1>3. request' \in Requests
  BY Values, OtherUpdates DEF TypesOK, Finish, Requests
<1> QED BY <1>2, <1>3 DEF TypesOK, Finish


LEMMA StageRecordTypes == TypesOK /\ StageRecord => TypesOK'
<1> SUFFICES ASSUME TypesOK, StageRecord PROVE TypesOK'
  OBVIOUS
<1>1. Head(ring) \in Recs /\ Tail(ring) \in Logged /\ Len(Tail(ring)) <= RingDepth
  BY HeadTailProperties, EmptySeq, LenProperties DEF TypesOK, StageRecord, Logged
<1> DEFINE slots == [stage.slots EXCEPT ![stage.w % StageDepth] = Head(ring)]
<1>2. slots \in Slots
  BY <1>1, Fields DEF Slots
<1>3. stage.w + 1 \in Numbers
  BY Fields DEF Numbers
<1>4. stage' = [stage EXCEPT !.slots = slots, !.w = stage.w + 1]
  BY StageRecordIs DEF TypesOK, Stages, StageRecord
<1> HIDE DEF slots
<1>5. stage' \in Stages
  BY <1>2, <1>3, <1>4, StageUpdates DEF TypesOK, Stages
<1> QED BY <1>1, <1>5 DEF TypesOK, StageRecord

LEMMA RefuseRecordTypes == TypesOK /\ RefuseRecord => TypesOK'
<1> SUFFICES ASSUME TypesOK, RefuseRecord PROVE TypesOK'
  OBVIOUS
<1>1. log' \in Logs
  BY Values, LogUpdates DEF TypesOK, RefuseRecord, Fail, Logs
<1> QED BY <1>1 DEF TypesOK, RefuseRecord

LEMMA StageOverflowsTypes == TypesOK /\ StageOverflows => TypesOK'
<1> SUFFICES ASSUME TypesOK, StageOverflows PROVE TypesOK'
  OBVIOUS
<1>1. log' = [[log EXCEPT !.first_error = TRUE] EXCEPT !.overflows = TRUE]
  BY DEF StageOverflows, Fail
<1>2. log' \in Logs
  BY <1>1, Values, LogUpdates DEF TypesOK, Logs
<1> QED BY <1>2 DEF TypesOK, StageOverflows

LEMMA ForwardControlTypes == TypesOK /\ ForwardControl => TypesOK'
<1> SUFFICES ASSUME TypesOK, ForwardControl PROVE TypesOK'
  OBVIOUS
<1>1. request' \in Requests
  BY Values, OtherUpdates DEF TypesOK, ForwardControl, Requests
<1> QED BY <1>1 DEF TypesOK, ForwardControl

LEMMA AnswerControlTypes == TypesOK /\ AnswerControl => TypesOK'
<1> SUFFICES ASSUME TypesOK, AnswerControl PROVE TypesOK'
  OBVIOUS
<1>1. request' \in Requests
  BY Values, OtherUpdates DEF TypesOK, AnswerControl, Requests
<1> QED BY <1>1 DEF TypesOK, AnswerControl

\* What is copied from the staging area.
LEMMA StagedType ==
    ASSUME TypesOK, NEW from \in Nat, NEW n \in Nat
    PROVE  /\ Staged(from, n) \in Logged /\ Len(Staged(from, n)) = n
           /\ \A i \in 1..n : Staged(from, n)[i] = stage.slots[(from + i - 1) % StageDepth]
<1>1. \A i \in 1..n : (from + i - 1) % StageDepth \in 0..(StageDepth - 1)
  OBVIOUS
<1>2. \A i \in 1..n : stage.slots[(from + i - 1) % StageDepth] \in Recs
  BY <1>1, Fields DEF Slots
<1>3. Staged(from, n) \in [1..n -> Recs]
  BY <1>2 DEF Staged
<1>4. Staged(from, n) \in Logged /\ Len(Staged(from, n)) = n
  BY <1>3, LenProperties, IsASeq DEF Logged
<1>5. \A i \in 1..n : Staged(from, n)[i] = stage.slots[(from + i - 1) % StageDepth]
  BY DEF Staged
<1> QED BY <1>4, <1>5

\* The length of a batch.
LEMMA BatchSize ==
    ASSUME TypesOK, stage.w # stage.r
    PROVE  LET n == IF Occupancy < Batch THEN Occupancy ELSE Batch IN
           /\ n \in 1..Batch
           /\ ~Torn => n <= stage.w - stage.r
<1>1. stage.w \in Nat /\ stage.r \in Nat
  BY Fields DEF Numbers
<1>2. Occupancy \in Nat \ {0} /\ (~Torn => Occupancy = stage.w - stage.r)
  BY <1>1 DEF Occupancy, Torn, Huge
<1> QED BY <1>1, <1>2

LEMMA LoadBatchTypes == TypesOK /\ LoadBatch => TypesOK'
<1> SUFFICES ASSUME TypesOK, LoadBatch PROVE TypesOK'
  OBVIOUS
<1> DEFINE n == IF Occupancy < Batch THEN Occupancy ELSE Batch
<1>1. n \in 1..Batch
  BY BatchSize DEF LoadBatch, CanDrain
<1>2. sd' = [busy |-> TRUE, from |-> stage.r, batch |-> Staged(stage.r, n)]
  BY DEF LoadBatch
<1> HIDE DEF n
<1>3. n \in Nat /\ stage.r \in Nat /\ stage.r \in Numbers
  BY <1>1, Fields DEF Numbers
<1>4. Staged(stage.r, n) \in Logged /\ Len(Staged(stage.r, n)) = n
  BY <1>3, StagedType
<1>5. sd' \in Writes /\ sd'.batch = Staged(stage.r, n)
  BY <1>2, <1>3, <1>4 DEF Writes, WritesOf
<1>6. (runner.clean /\ ~Torn) \in BOOLEAN
  OBVIOUS
<1>7. runner' \in Runners
  BY <1>6, RunnerUpdates DEF TypesOK, LoadBatch, Runners
<1> QED BY <1>1, <1>4, <1>5, <1>7 DEF TypesOK, LoadBatch

\* Where the elements of two sequences are once they are joined.
LEMMA Concat ==
    ASSUME NEW a \in Logged, NEW b \in Logged
    PROVE  /\ a \o b \in Logged /\ Len(a) \in Nat /\ Len(b) \in Nat
           /\ Len(a \o b) = Len(a) + Len(b)
           /\ \A i \in 1..Len(a) : (a \o b)[i] = a[i]
           /\ \A i \in 1..Len(b) : (a \o b)[Len(a) + i] = b[i]
BY ConcatProperties, LenProperties DEF Logged

LEMMA WriteBatchTypes == TypesOK /\ WriteBatch => TypesOK'
<1> SUFFICES ASSUME TypesOK, WriteBatch PROVE TypesOK'
  OBVIOUS
<1>1. /\ file.recs \o sd.batch \in Logged /\ log.crc \o sd.batch \in Logged
      /\ Len(sd.batch) \in Nat
  BY Fields, Concat
<1>2. log.written + Len(sd.batch) \in Numbers /\ sd.from + Len(sd.batch) \in Numbers
  BY <1>1, Fields DEF Numbers
<1>3. sd' \in Writes /\ sd'.busy = FALSE
  <2>1. sd' \in Writes
    BY Values, OtherUpdates DEF TypesOK, WriteBatch, Writes
  <2>2. sd'.busy = FALSE
    BY DEF TypesOK, WriteBatch, Writes, WritesOf
  <2> QED BY <2>1, <2>2
<1>4. file' \in Files
  BY <1>1, OtherUpdates DEF TypesOK, WriteBatch, Files
<1>5. log' \in Logs
  BY <1>1, <1>2, LogUpdates DEF TypesOK, WriteBatch, Logs
<1>6. stage' \in Stages
  BY <1>2, StageUpdates DEF TypesOK, WriteBatch, Stages
<1> QED BY <1>3, <1>4, <1>5, <1>6 DEF TypesOK, WriteBatch

\* Failures are counted.
LEMMA FailedTypes == TypesOK /\ Failed => runner' \in Runners
<1> SUFFICES ASSUME TypesOK, Failed PROVE runner' \in Runners
  OBVIOUS
<1>1. runner.failures + 1 \in Numbers
  BY Fields DEF Numbers
<1> QED BY <1>1, RunnerUpdates DEF TypesOK, Failed, Runners

LEMMA WriteFailsTypes == TypesOK /\ WriteFails => TypesOK'
<1> SUFFICES ASSUME TypesOK, WriteFails PROVE TypesOK'
  OBVIOUS
<1>1. runner' \in Runners
  BY FailedTypes DEF WriteFails
<1>2. sd' \in Writes
  BY Values, OtherUpdates DEF TypesOK, WriteFails, Writes
<1>3. sd'.busy = FALSE
  BY DEF TypesOK, WriteFails, Writes, WritesOf
<1>4. file' \in Files
  BY Values, OtherUpdates DEF TypesOK, WriteFails, Files
<1>5. log' = [[log EXCEPT !.first_error = TRUE] EXCEPT !.sd_failed = TRUE]
  BY DEF WriteFails, Fail
<1>6. log' \in Logs
  BY <1>5, Values, LogUpdates DEF TypesOK, Logs
<1> QED BY <1>1, <1>2, <1>3, <1>4, <1>6 DEF TypesOK, WriteFails

LEMMA SdSyncTypes == TypesOK /\ SdSync => TypesOK'
<1> SUFFICES ASSUME TypesOK, SdSync PROVE TypesOK'
  OBVIOUS
<1>1. PICK ok \in BOOLEAN :
        /\ IF ok THEN UNCHANGED runner ELSE MayFail /\ Failed
        /\ request' = [request EXCEPT !.at = "answered"]
        /\ log' = [log EXCEPT !.synced = ok, !.result = log.first_error \/ ~ok,
                              !.first_error = log.first_error \/ ~ok]
  BY DEF SdSync
<1>2. runner' \in Runners
  BY <1>1, FailedTypes DEF TypesOK
<1>3. request' \in Requests
  BY <1>1, Values, OtherUpdates DEF TypesOK, Requests
<1>4. (log.first_error \/ ~ok) \in BOOLEAN
  OBVIOUS
<1>5. log' \in Logs
  BY <1>1, <1>4, LogUpdates DEF TypesOK, Logs
<1> QED BY <1>2, <1>3, <1>5 DEF TypesOK, SdSync

LEMMA SdFinalizeTypes == TypesOK /\ SdFinalize => TypesOK'
<1> SUFFICES ASSUME TypesOK, SdFinalize PROVE TypesOK'
  OBVIOUS
<1>1. PICK ok \in BOOLEAN :
        /\ IF ok THEN UNCHANGED runner ELSE MayFail /\ Failed
        /\ file' = Closed(IF FooterFits /\ ok
                            THEN [total |-> log.written, normal |-> request.normal,
                                  crc |-> log.crc]
                            ELSE NoFooter)
        /\ request' = [request EXCEPT !.at = "answered"]
        /\ log' = [log EXCEPT !.prepared = FALSE, !.synced = FALSE, !.fd = FALSE,
                      !.accepting = FALSE,
                      !.result = log.first_error \/ ~log.synced \/ ~FooterFits \/ ~ok,
                      !.first_error = log.first_error
                         \/ (log.first_error \/ ~log.synced \/ ~FooterFits \/ ~ok)]
  BY DEF SdFinalize
<1>2. runner' \in Runners
  BY <1>1, FailedTypes DEF TypesOK
<1>3. request' \in Requests
  BY <1>1, Values, OtherUpdates DEF TypesOK, Requests
<1>4. log' \in Logs
  <2> DEFINE result == log.first_error \/ ~log.synced \/ ~FooterFits \/ ~ok
             error  == log.first_error \/ result
  <2>1. result \in BOOLEAN /\ error \in BOOLEAN
    OBVIOUS
  <2>2. log' = [log EXCEPT !.prepared = FALSE, !.synced = FALSE, !.fd = FALSE,
                  !.accepting = FALSE, !.result = result, !.first_error = error]
    BY <1>1
  <2> HIDE DEF result, error
  <2> QED BY <2>1, <2>2, Values, LogUpdates DEF TypesOK, Logs
<1>5. file' \in Files
  <2>1. [total |-> log.written, normal |-> request.normal, crc |-> log.crc] \in Footers
    BY Fields DEF Footers, Numbers
  <2> DEFINE footer == IF FooterFits /\ ok
                         THEN [total |-> log.written, normal |-> request.normal,
                               crc |-> log.crc]
                         ELSE NoFooter
  <2>2. footer \in Footers
    BY <2>1, Values
  <2>3. file' = [file EXCEPT !.footer = footer]
    BY <1>1 DEF Closed
  <2> HIDE DEF footer
  <2> QED BY <2>2, <2>3, OtherUpdates DEF TypesOK, Files
<1> QED BY <1>2, <1>3, <1>4, <1>5 DEF TypesOK, SdFinalize

LEMMA NextTypes == TypesOK /\ [Next]_vars => TypesOK'
<1> SUFFICES ASSUME TypesOK, [Next]_vars PROVE TypesOK'
  OBVIOUS
<1>1. CASE Initialize
  <2>1. log' \in Logs
    BY <1>1, Values, LogUpdates DEF TypesOK, Initialize, Mounted, Logs
  <2> QED BY <1>1, <2>1 DEF TypesOK, Initialize
<1>2. CASE Prepare \/ OpenFails \/ Open \/ ResetWriteIndex \/ ResetReadIndex
  BY <1>2, PrepareTypes, OpenFailsTypes, OpenTypes, ResetWriteIndexTypes,
     ResetReadIndexTypes
<1>3. CASE Enqueue \/ DrainAndSync \/ Close \/ Finish
  BY <1>3, EnqueueTypes, DrainAndSyncTypes, CloseTypes, FinishTypes
<1>4. CASE Stage
  BY <1>4, StageRecordTypes, RefuseRecordTypes, StageOverflowsTypes,
     ForwardControlTypes, AnswerControlTypes DEF Stage
<1>5. CASE Sd
  BY <1>5, LoadBatchTypes, WriteBatchTypes, WriteFailsTypes, SdSyncTypes,
     SdFinalizeTypes DEF Sd
<1>6. CASE UNCHANGED vars
  BY <1>6 DEF vars, TypesOK
<1> QED BY <1>1, <1>2, <1>3, <1>4, <1>5, <1>6 DEF Next, Runner


-----------------------------------------------------------------------------
\* Steps that leave the records where they are.

Inside == {"running", "syncing", "closing"}

LEMMA InPlaceFrame ==
    ASSUME InPlace, UNCHANGED <<ring, stage, sd>>, file'.recs = file.recs,
           runner'.run = runner.run, runner'.sent = runner.sent,
           runner'.clean = runner.clean,
           runner'.pc \in Inside => runner.pc \in Inside,
           log'.written = log.written, log'.crc = log.crc
    PROVE  InPlace'
BY DEF InPlace, Record, Inside

LEMMA EndsFrame ==
    ASSUME EndsWhole, file' = file, runner'.run = runner.run, runner'.sent = runner.sent,
           runner'.clean => runner.clean, Accepting' => Accepting
    PROVE  EndsWhole'
<1>1. Sent' = Sent
  BY DEF Sent, Record
<1>2. WholeFile => WholeFile'
  BY <1>1 DEF WholeFile, ValidCapture, RecordsFollow, FooterDecodes, FooterCounts,
     NormalHasData, ChecksumHolds
<1> QED BY <1>2 DEF EndsWhole

\* The conjuncts of the invariant besides the types.
Rest == StepsAgree /\ Quiet /\ Resetting /\ InPlace /\ EndsWhole

LEMMA InitializeStep == TypesOK /\ Rest /\ Initialize => Rest'
<1> SUFFICES ASSUME TypesOK, Rest, Initialize PROVE Rest'
  OBVIOUS
<1>1. /\ log'.prepared = log.prepared /\ log'.fd = log.fd /\ log'.accepting = log.accepting
      /\ log'.sd_failed = log.sd_failed /\ log'.first_error = log.first_error
      /\ log'.written = log.written /\ log'.crc = log.crc /\ log'.result = log.result
  BY DEF TypesOK, Logs, LogsOf, Initialize, Mounted
<1>2. InPlace'
  BY <1>1, InPlaceFrame DEF Rest, Initialize
<1>3. EndsWhole'
  BY <1>1, EndsFrame DEF Rest, Initialize, Accepting, Finalized
<1> QED BY <1>1, <1>2, <1>3 DEF Rest, Initialize, StepsAgree, Quiet, Resetting, Finalized

LEMMA PrepareStep == TypesOK /\ Rest /\ Prepare => Rest'
<1> SUFFICES ASSUME TypesOK, Rest, Prepare PROVE Rest'
  OBVIOUS
<1>1. /\ runner.pc = "idle" /\ runner'.pc = "prepared" /\ runner'.sent = 0
      /\ runner'.accepted = FALSE
  BY DEF TypesOK, Runners, RunnersOf, Prepare
<1>2. /\ log'.prepared = TRUE /\ log'.fd = TRUE /\ log'.accepting = FALSE
      /\ log'.sd_failed = log.sd_failed /\ log'.first_error = log.first_error
  BY DEF TypesOK, Logs, LogsOf, Prepare
<1>3. StepsAgree'
  BY <1>1, <1>2 DEF Rest, StepsAgree, Finalized, Prepare, NoFile
<1>4. Quiet'
  BY <1>1, <1>2 DEF Rest, Quiet, Finalized, Prepare
<1> QED BY <1>1, <1>3, <1>4 DEF Rest, Resetting, InPlace, EndsWhole, Accepting, Finalized

LEMMA OpenFailsStep == TypesOK /\ Rest /\ OpenFails => Rest'
<1> SUFFICES ASSUME TypesOK, Rest, OpenFails PROVE Rest'
  OBVIOUS
<1>1. /\ runner.pc = "prepared" /\ runner'.pc = "idle"
      /\ runner'.accepted = runner.accepted
  BY DEF TypesOK, Runners, RunnersOf, OpenFails
<1>2. /\ log'.prepared = FALSE /\ log'.fd = FALSE /\ log'.accepting = FALSE
      /\ log'.sd_failed = log.sd_failed /\ log'.first_error = log.first_error
  BY DEF TypesOK, Logs, LogsOf, OpenFails
<1>3. stage'.w = 0 /\ stage'.r = 0
  BY DEF TypesOK, Stages, StagesOf, OpenFails
<1>4. StepsAgree'
  BY <1>1, <1>2 DEF Rest, StepsAgree, Finalized, OpenFails
<1>5. Quiet'
  BY <1>1, <1>2, <1>3 DEF Rest, Quiet, Finalized, OpenFails
<1>6. ~runner.accepted
  BY <1>1 DEF Rest, StepsAgree
<1> QED BY <1>1, <1>4, <1>5, <1>6
        DEF Rest, Resetting, InPlace, EndsWhole, Accepting, Finalized

LEMMA OpenStep == TypesOK /\ Rest /\ Open => Rest'
<1> SUFFICES ASSUME TypesOK, Rest, Open PROVE Rest'
  OBVIOUS
<1>1. /\ runner.pc = "prepared" /\ runner'.pc = "reset_write"
      /\ runner'.accepted = runner.accepted /\ runner'.sent = runner.sent
      /\ runner'.clean = (stage.w = stage.r /\ ~sd.busy)
  BY DEF TypesOK, Runners, RunnersOf, Open
<1>2. /\ log'.prepared = log.prepared /\ log'.fd = log.fd
      /\ log'.accepting = log.accepting
      /\ log'.sd_failed = FALSE /\ log'.first_error = FALSE /\ log'.written = 0
  BY DEF TypesOK, Logs, LogsOf, Open
<1>3. request'.at = "none"
  BY DEF TypesOK, Requests, RequestsOf, Open
<1>4. file = NoFile /\ runner.sent = 0
  BY <1>1 DEF Rest, Quiet
<1>5. StepsAgree'
  BY <1>1, <1>2, <1>3, <1>4 DEF Rest, StepsAgree, Finalized, Open, NoFile
<1>6. Quiet'
  BY <1>1, <1>4 DEF Rest, Quiet, Finalized, Open
<1>7. Resetting'
  BY <1>1, <1>2, <1>4 DEF Resetting, Open
<1> QED BY <1>1, <1>5, <1>6, <1>7 DEF Rest, InPlace, EndsWhole, Accepting, Finalized

LEMMA ResetWriteIndexStep == TypesOK /\ Rest /\ ResetWriteIndex => Rest'
<1> SUFFICES ASSUME TypesOK, Rest, ResetWriteIndex PROVE Rest'
  OBVIOUS
<1>1. /\ runner.pc = "reset_write" /\ runner'.pc = "reset_read"
      /\ runner'.accepted = runner.accepted /\ runner'.sent = runner.sent
      /\ runner'.clean = runner.clean
  BY DEF TypesOK, Runners, RunnersOf, ResetWriteIndex
<1>2. stage'.w = 0
  BY DEF TypesOK, Stages, StagesOf, ResetWriteIndex
<1>3. StepsAgree'
  BY <1>1 DEF Rest, StepsAgree, Finalized, ResetWriteIndex
<1>4. Quiet'
  BY <1>1 DEF Rest, Quiet, Finalized, ResetWriteIndex
<1>5. Resetting'
  BY <1>1, <1>2 DEF Rest, Resetting, ResetWriteIndex
<1> QED BY <1>1, <1>3, <1>4, <1>5 DEF Rest, InPlace, EndsWhole, Accepting, Finalized

LEMMA ResetReadIndexStep == TypesOK /\ Rest /\ ResetReadIndex => Rest'
<1> SUFFICES ASSUME TypesOK, Rest, ResetReadIndex PROVE Rest'
  OBVIOUS
<1>1. /\ runner.pc = "reset_read" /\ runner'.pc = "running"
      /\ runner'.accepted = runner.accepted /\ runner'.sent = runner.sent
      /\ runner'.clean = runner.clean /\ runner'.run = runner.run
  BY DEF TypesOK, Runners, RunnersOf, ResetReadIndex
<1>2. stage'.w = stage.w /\ stage'.r = 0
  BY DEF TypesOK, Stages, StagesOf, ResetReadIndex
<1>3. /\ log'.prepared = log.prepared /\ log'.fd = log.fd
      /\ log'.sd_failed = log.sd_failed /\ log'.first_error = log.first_error
      /\ log'.written = log.written /\ log'.crc = <<>>
  BY DEF TypesOK, Logs, LogsOf, ResetReadIndex
<1>4. StepsAgree'
  BY <1>1, <1>3 DEF Rest, StepsAgree, Finalized, ResetReadIndex
<1>5. Quiet'
  BY <1>1 DEF Rest, Quiet, Finalized, ResetReadIndex
<1>6. InPlace'
  <2> SUFFICES ASSUME runner.clean PROVE InPlace'
    BY <1>1 DEF InPlace
  <2>1. /\ file = NoFile /\ log.written = 0 /\ ring = <<>> /\ ~sd.busy /\ stage.w = 0
        /\ runner.sent = 0
    BY <1>1 DEF Rest, Resetting, Quiet
  <2>2. file.recs = <<>> /\ Len(file.recs) = 0 /\ Len(ring) = 0
    BY <2>1, EmptySeq DEF NoFile
  <2>3. /\ stage'.w = 0 /\ stage'.r = 0 /\ UNCHANGED <<ring, sd, file>>
    BY <1>2, <2>1 DEF ResetReadIndex
  <2> QED BY <1>1, <1>3, <2>1, <2>2, <2>3 DEF InPlace
<1> QED BY <1>1, <1>4, <1>5, <1>6 DEF Rest, Resetting, EndsWhole, Accepting, Finalized


LEMMA EnqueueStep == TypesOK /\ Rest /\ Enqueue => Rest'
<1> SUFFICES ASSUME TypesOK, Rest, Enqueue PROVE Rest'
  OBVIOUS
<1>1. /\ runner.pc = "running" /\ runner'.pc = runner.pc
      /\ runner'.accepted = runner.accepted /\ runner'.clean = runner.clean
      /\ runner'.run = runner.run
  BY DEF TypesOK, Runners, RunnersOf, Enqueue
<1>2. UNCHANGED <<stage, request, sd, file>>
  BY DEF Enqueue
<1>3. /\ log'.prepared = log.prepared /\ log'.fd = log.fd
      /\ log'.accepting = log.accepting /\ log'.sd_failed = log.sd_failed
      /\ log'.first_error = log.first_error \/ log'.first_error = TRUE
      /\ log'.written = log.written /\ log'.crc = log.crc
  <2>1. CASE RingFull
    BY <2>1 DEF TypesOK, Logs, LogsOf, Enqueue, Fail
  <2>2. CASE ~RingFull
    BY <2>2 DEF Enqueue
  <2> QED BY <2>1, <2>2
<1>4. StepsAgree'
  BY <1>1, <1>2, <1>3 DEF Rest, StepsAgree, Finalized
<1>5. Quiet'
  BY <1>1, <1>2 DEF Rest, Quiet, Finalized
<1>6. InPlace'
  <2>1. CASE RingFull
    <3>1. ring' = ring /\ runner'.sent = runner.sent
      BY <2>1 DEF TypesOK, Runners, RunnersOf, Enqueue
    <3> QED BY <1>1, <1>2, <1>3, <3>1, InPlaceFrame DEF Rest
  <2>2. CASE ~RingFull
    <3> SUFFICES ASSUME runner.clean PROVE InPlace'
      BY <1>1 DEF InPlace
    <3>1. ring' = Append(ring, Record(runner.sent)) /\ runner'.sent = runner.sent + 1
      BY <2>2 DEF TypesOK, Runners, RunnersOf, Enqueue
    <3>2. \A n : Record(n)' = Record(n)
      BY <1>1 DEF Record
    <3>3. Record(runner.sent) \in Recs
      BY Fields DEF Record, Recs, RunsOf, Counts
    <3>4. /\ Len(ring) \in Nat /\ Len(ring') = Len(ring) + 1
          /\ \A i \in 1..Len(ring) : ring'[i] = ring[i]
          /\ ring'[Len(ring) + 1] = Record(runner.sent)
      BY <3>1, <3>3, AppendProperties, LenProperties DEF TypesOK, Logged
    <3>5. /\ stage.w \in Nat /\ stage.w + Len(ring) = runner.sent
          /\ \A i \in 1..Len(ring) : ring[i] = Record(stage.w + i - 1)
      BY <1>1, Fields DEF Rest, InPlace, Numbers
    <3>6. \A i \in 1..Len(ring') : ring'[i] = Record(stage.w + i - 1)
      <4> SUFFICES ASSUME NEW i \in 1..Len(ring') PROVE ring'[i] = Record(stage.w + i - 1)
        OBVIOUS
      <4>1. CASE i \in 1..Len(ring)
        BY <4>1, <3>4, <3>5
      <4>2. CASE i = Len(ring) + 1
        <5>1. stage.w + i - 1 = runner.sent
          BY <4>2, <3>4, <3>5
        <5> QED BY <5>1, <4>2, <3>4
      <4> QED BY <4>1, <4>2, <3>4
    <3>7. stage.w + Len(ring') = runner'.sent
      <4>1. stage.w \in Nat /\ Len(ring) \in Nat
        BY <3>4, <3>5
      <4>2. stage.w + (Len(ring) + 1) = (stage.w + Len(ring)) + 1
        BY <4>1
      <4> QED BY <4>2, <3>1, <3>4, <3>5
    <3> QED BY <1>1, <1>2, <1>3, <3>2, <3>6, <3>7 DEF Rest, InPlace
  <2> QED BY <2>1, <2>2
<1> QED BY <1>1, <1>4, <1>5, <1>6 DEF Rest, Resetting, EndsWhole, Accepting, Finalized

LEMMA DrainAndSyncStep == TypesOK /\ Rest /\ DrainAndSync => Rest'
<1> SUFFICES ASSUME TypesOK, Rest, DrainAndSync PROVE Rest'
  OBVIOUS
<1>1. /\ runner.pc = "running" /\ runner'.pc = "syncing"
      /\ runner'.accepted = runner.accepted /\ runner'.clean = runner.clean
      /\ runner'.run = runner.run /\ runner'.sent = runner.sent
  BY DEF TypesOK, Runners, RunnersOf, DrainAndSync
<1>2. /\ log'.prepared = log.prepared /\ log'.fd = log.fd
      /\ log'.accepting = FALSE /\ log'.sd_failed = log.sd_failed
      /\ log'.first_error = log.first_error
      /\ log'.written = log.written /\ log'.crc = log.crc
  BY DEF TypesOK, Logs, LogsOf, DrainAndSync
<1>3. /\ UNCHANGED <<ring, stage, sd, file>>
      /\ request'.at = "stage_queue" /\ request'.kind = "Sync"
  BY DEF DrainAndSync
<1>4. StepsAgree'
  BY <1>1, <1>2, <1>3 DEF Rest, StepsAgree, Finalized
<1>5. Quiet'
  BY <1>1, <1>3 DEF Rest, Quiet, Finalized
<1>6. InPlace'
  BY <1>1, <1>2, <1>3, InPlaceFrame DEF Rest, Inside
<1> QED BY <1>1, <1>4, <1>5, <1>6 DEF Rest, Resetting, EndsWhole, Accepting, Finalized

LEMMA CloseStep == TypesOK /\ Rest /\ Close => Rest'
<1> SUFFICES ASSUME TypesOK, Rest, Close PROVE Rest'
  OBVIOUS
<1> DEFINE failed == runner.failed \/ log.result
<1>0. /\ runner.pc = "syncing" /\ request.at = "done"
      /\ runner' = [runner EXCEPT !.pc = "closing", !.failed = failed]
      /\ request' = [at |-> "stage_queue", kind |-> "Finalize", normal |-> ~failed]
      /\ UNCHANGED <<log, ring, stage, sd, file>>
  BY DEF Close
<1> HIDE DEF failed
<1>1. /\ runner'.pc = "closing" /\ runner'.failed = failed
      /\ runner'.accepted = runner.accepted /\ runner'.clean = runner.clean
      /\ runner'.run = runner.run /\ runner'.sent = runner.sent
  BY <1>0 DEF TypesOK, Runners, RunnersOf
<1>2. /\ request'.at = "stage_queue" /\ request'.kind = "Finalize"
      /\ request'.normal = ~runner'.failed
  BY <1>0, <1>1
<1>4. StepsAgree'
  BY <1>0, <1>1, <1>2 DEF Rest, StepsAgree, Finalized
<1>5. Quiet'
  BY <1>0, <1>1, <1>2 DEF Rest, Quiet, Finalized
<1>6. InPlace'
  BY <1>0, <1>1, InPlaceFrame DEF Rest, Inside
<1> QED BY <1>1, <1>2, <1>4, <1>5, <1>6 DEF Rest, Resetting, EndsWhole, Accepting, Finalized

LEMMA FinishStep == TypesOK /\ Rest /\ Finish => Rest'
<1> SUFFICES ASSUME TypesOK, Rest, Finish PROVE Rest'
  OBVIOUS
<1> DEFINE failed == runner.failed \/ log.result
<1>0. /\ runner.pc = "closing" /\ request.at = "done"
      /\ runner' = [runner EXCEPT !.pc = "idle", !.failed = failed, !.accepted = ~failed]
      /\ UNCHANGED <<log, ring, stage, sd, file>>
  BY DEF Finish
<1> HIDE DEF failed
<1>1. /\ runner'.pc = "idle" /\ runner'.accepted = ~failed
      /\ runner'.clean = runner.clean /\ runner'.run = runner.run
      /\ runner'.sent = runner.sent
  BY <1>0 DEF TypesOK, Runners, RunnersOf
<1>2. request'.at = "none"
  BY DEF TypesOK, Requests, RequestsOf, Finish
<1>3. Finalized
  BY <1>0 DEF Finalized
<1>4. StepsAgree'
  BY <1>0, <1>1, <1>2, <1>3 DEF Rest, StepsAgree, Finalized
<1>5. Quiet'
  BY <1>0, <1>1, <1>3 DEF Rest, Quiet, Finalized
<1>6. Accepting' => Accepting
  BY <1>1, <1>3 DEF failed, Accepting, Finalized
<1>7. EndsWhole'
  BY <1>0, <1>1, <1>6, EndsFrame DEF Rest
<1> QED BY <1>1, <1>4, <1>5, <1>7 DEF Rest, Resetting, InPlace

-----------------------------------------------------------------------------
\* Steps of the staging task.

\* Two numbers less than StageDepth apart have different slots.
LEMMA Remainder ==
    ASSUME NEW D \in Nat \ {0}, NEW a \in Nat
    PROVE  /\ a \div D \in Nat /\ a % D \in 0..(D - 1)
           /\ a = D * (a \div D) + (a % D)
OBVIOUS

LEMMA NextMultiple ==
    ASSUME NEW D \in Nat \ {0}, NEW p \in Nat, NEW q \in Nat, q > p
    PROVE  D * q >= D * p + D
<1>1. PICK k \in Nat : q = p + 1 + k
  <2>1. q - p - 1 \in Nat /\ q = p + 1 + (q - p - 1)
    OBVIOUS
  <2> QED BY <2>1
<1>2. D * q = D * p + D + D * k
  BY <1>1
<1>3. D * k >= 0
  OBVIOUS
<1>4. D * q \in Nat /\ D * p \in Nat /\ D * k \in Nat
  OBVIOUS
<1> QED BY <1>2, <1>3, <1>4

LEMMA SlotsApart ==
    ASSUME NEW D \in Nat \ {0}, NEW a \in Nat, NEW b \in Nat, a < b, b < a + D
    PROVE  a % D # b % D
<1> DEFINE p == a \div D
           q == b \div D
           m == a % D
           n == b % D
<1>1. p \in Nat /\ q \in Nat /\ m \in 0..(D - 1) /\ n \in 0..(D - 1)
  BY Remainder
<1>2. a = D * p + m /\ b = D * q + n
  BY Remainder
<1> SUFFICES ASSUME m = n PROVE FALSE
  OBVIOUS
<1> HIDE DEF p, q, m, n
<1>3. q > p => D * q >= D * p + D
  BY <1>1, NextMultiple
<1>4. q < p => D * p >= D * q + D
  BY <1>1, NextMultiple
<1>5. D * p \in Nat /\ D * q \in Nat
  BY <1>1
<1>6. D * q > D * p /\ D * q < D * p + D
  BY <1>1, <1>2, <1>5
<1>7. q # p
  BY <1>6, <1>5
<1> QED BY <1>1, <1>3, <1>4, <1>5, <1>6, <1>7

LEMMA StageRecordStep == TypesOK /\ Rest /\ StageRecord => Rest'
<1> SUFFICES ASSUME TypesOK, Rest, StageRecord PROVE Rest'
  OBVIOUS
<1>1. /\ ring # <<>> /\ ring' = Tail(ring)
      /\ UNCHANGED <<runner, log, request, sd, file>>
  BY DEF StageRecord
<1>2. /\ runner.pc \notin {"idle", "prepared", "closing"} /\ ~Finalized
      /\ ~(runner.pc = "syncing" /\ request.at # "stage_queue")
  BY <1>1 DEF Rest, Quiet, Finalized
<1>3. StepsAgree'
  BY <1>1 DEF Rest, StepsAgree, Finalized
<1>4. Quiet'
  BY <1>1, <1>2 DEF Rest, Quiet, Finalized
<1>5. Resetting'
  BY <1>1 DEF Rest, Resetting
<1>6. InPlace'
  <2> SUFFICES ASSUME runner.clean, runner.pc \in {"running", "syncing", "closing"}
               PROVE  InPlace'
    BY <1>1 DEF InPlace
  <2> DEFINE D == StageDepth
             w == stage.w
             r == stage.r
  <2>1. w \in Nat /\ r \in Nat /\ D \in Nat \ {0} /\ stage.slots \in Slots
    BY Fields DEF Numbers
  <2>2. /\ r <= w /\ w - r <= D /\ w + Len(ring) = runner.sent
        /\ \A k \in r..(w - 1) : stage.slots[k % D] = Record(k)
        /\ \A i \in 1..Len(ring) : ring[i] = Record(w + i - 1)
    BY DEF Rest, InPlace
  <2>3. w - r < D
    BY <2>1, <2>2 DEF StageRecord, StageFull, Occupancy, Torn
  <2>4. /\ Len(ring) \in Nat \ {0} /\ Head(ring) = ring[1]
        /\ Len(Tail(ring)) = Len(ring) - 1
        /\ \A i \in 1..Len(Tail(ring)) : Tail(ring)[i] = ring[i + 1]
    BY <1>1, HeadTailProperties, EmptySeq, LenProperties DEF TypesOK, Logged
  <2>5. Head(ring) = Record(w)
    <3>1. ring[1] = Record(w + 1 - 1) /\ w + 1 - 1 = w
      BY <2>1, <2>2, <2>4
    <3> QED BY <3>1, <2>4
  <2>6. \A k \in 0..(D - 1) :
          stage'.slots[k] = IF k = w % D THEN Head(ring) ELSE stage.slots[k]
    <3>1. stage' = [stage EXCEPT !.slots = [stage.slots EXCEPT ![w % D] = Head(ring)],
                                 !.w = w + 1]
      BY StageRecordIs DEF TypesOK, Stages, StageRecord
    <3>2. stage'.slots = [stage.slots EXCEPT ![w % D] = Head(ring)]
      BY <3>1 DEF TypesOK, Stages, StagesOf
    <3> QED BY <3>2, <2>1 DEF Slots
  <2>7. stage'.w = w + 1 /\ stage'.r = r
    BY DEF TypesOK, Stages, StagesOf, StageRecord
  <2>8. \A k : Record(k)' = Record(k)
    BY <1>1 DEF Record
  <2> HIDE DEF D, w, r
  <2>9. \A k \in r..((w + 1) - 1) : stage'.slots[k % D] = Record(k)
    <3> SUFFICES ASSUME NEW k \in r..((w + 1) - 1) PROVE stage'.slots[k % D] = Record(k)
      OBVIOUS
    <3>1. k \in Nat /\ k % D \in 0..(D - 1) /\ w % D \in 0..(D - 1)
      BY <2>1, Remainder
    <3>2. CASE k = w
      BY <3>1, <3>2, <2>5, <2>6
    <3>3. CASE k # w
      <4>1. k \in r..(w - 1) /\ k < w /\ w < k + D
        BY <3>3, <2>1, <2>2, <2>3
      <4>2. k % D # w % D
        BY <4>1, <3>1, <2>1, SlotsApart
      <4> QED BY <3>1, <4>1, <4>2, <2>2, <2>6
    <3> QED BY <3>2, <3>3
  <2>10. \A i \in 1..Len(ring') : ring'[i] = Record((w + 1) + i - 1)
    <3> SUFFICES ASSUME NEW i \in 1..Len(ring') PROVE ring'[i] = Record((w + 1) + i - 1)
      OBVIOUS
    <3>1. i + 1 \in 1..Len(ring) /\ ring'[i] = ring[i + 1]
      BY <1>1, <2>4
    <3>2. w + (i + 1) - 1 = (w + 1) + i - 1
      BY <2>1
    <3>3. ring[i + 1] = Record(w + (i + 1) - 1)
      BY <3>1, <2>2
    <3> QED BY <3>1, <3>2, <3>3
  <2>11. /\ r <= w + 1 /\ (w + 1) - r <= D /\ (w + 1) + Len(ring') = runner.sent
    BY <1>1, <2>1, <2>2, <2>3, <2>4
  <2>12. sd.busy => Len(sd.batch) <= (w + 1) - r
    <3>1. sd.busy => Len(sd.batch) <= w - r /\ Len(sd.batch) \in Nat
      BY LenProperties, Fields DEF Rest, InPlace, w, r, Logged
    <3> QED BY <3>1, <2>1
  <2>13. /\ Len(file.recs) = r
         /\ \A i \in 1..r : file.recs[i] = Record(i - 1)
         /\ sd.busy => /\ sd.from = r
                       /\ \A i \in 1..Len(sd.batch) : sd.batch[i] = Record(r + i - 1)
         /\ log.written = r /\ log.crc = file.recs
    BY DEF Rest, InPlace, r
  <2> QED BY <1>1, <2>7, <2>8, <2>9, <2>10, <2>11, <2>12, <2>13 DEF InPlace, D
<1>7. EndsWhole'
  BY <1>1, <1>2 DEF EndsWhole, Accepting, Finalized
<1> QED BY <1>3, <1>4, <1>5, <1>6, <1>7 DEF Rest


\* A record that stays in the ring makes an error of the log, and nothing else.
LEMMA RecordStays ==
    ASSUME TypesOK, Rest, RefuseRecord \/ StageOverflows
    PROVE  Rest'
<1>1. ring # <<>> /\ UNCHANGED <<runner, ring, stage, request, sd, file>>
  BY DEF RefuseRecord, Refused, StageOverflows
<1>2. /\ log'.prepared = log.prepared /\ log'.fd = log.fd
      /\ log'.accepting = log.accepting /\ log'.sd_failed = log.sd_failed
      /\ log'.first_error = TRUE /\ log'.result = log.result
      /\ log'.written = log.written /\ log'.crc = log.crc
  BY DEF TypesOK, Logs, LogsOf, RefuseRecord, StageOverflows, Fail
<1>3. StepsAgree'
  BY <1>1, <1>2 DEF Rest, StepsAgree, Finalized
<1>4. Quiet'
  BY <1>1, <1>2 DEF Rest, Quiet, Finalized
<1>5. Resetting'
  BY <1>1, <1>2 DEF Rest, Resetting
<1>6. InPlace'
  BY <1>1, <1>2, InPlaceFrame DEF Rest
<1>7. EndsWhole'
  BY <1>1, <1>2, EndsFrame DEF Rest, Accepting, Finalized
<1> QED BY <1>3, <1>4, <1>5, <1>6, <1>7 DEF Rest

\* The request goes on or is answered on its way back.
LEMMA ControlMoves ==
    ASSUME TypesOK, Rest, UNCHANGED <<runner, log, ring, stage, sd, file>>,
           ForwardControl \/ AnswerControl
    PROVE  Rest'
<1>1. /\ request.at # "none" /\ request'.at # "none"
      /\ request'.kind = request.kind /\ request'.normal = request.normal
      /\ (request.at \in {"answered", "done"}) = (request'.at \in {"answered", "done"})
      /\ request'.at # "stage_queue"
      /\ request.at = "stage_queue" => ring = <<>>
  BY DEF TypesOK, Requests, RequestsOf, ForwardControl, AnswerControl
<1>2. Finalized' = Finalized
  BY <1>1 DEF Finalized
<1>3. StepsAgree'
  BY <1>1, <1>2 DEF Rest, StepsAgree
<1>4. Quiet'
  BY <1>1, <1>2 DEF Rest, Quiet
<1>5. Resetting'
  BY DEF Rest, Resetting
<1>6. InPlace'
  BY InPlaceFrame DEF Rest
<1>7. EndsWhole'
  BY <1>2, EndsFrame DEF Rest, Accepting
<1> QED BY <1>3, <1>4, <1>5, <1>6, <1>7 DEF Rest

LEMMA ForwardControlStep == TypesOK /\ Rest /\ ForwardControl => Rest'
BY ControlMoves DEF ForwardControl

LEMMA AnswerControlStep == TypesOK /\ Rest /\ AnswerControl => Rest'
BY ControlMoves DEF AnswerControl

-----------------------------------------------------------------------------
\* Steps of the card task.

LEMMA LoadBatchStep == TypesOK /\ Rest /\ LoadBatch => Rest'
<1> SUFFICES ASSUME TypesOK, Rest, LoadBatch PROVE Rest'
  OBVIOUS
<1> DEFINE n == IF Occupancy < Batch THEN Occupancy ELSE Batch
<1>1. /\ ~sd.busy /\ ~log.sd_failed /\ log.fd /\ stage.w # stage.r
      /\ sd' = [busy |-> TRUE, from |-> stage.r, batch |-> Staged(stage.r, n)]
      /\ UNCHANGED <<log, ring, stage, request, file>>
  BY DEF LoadBatch, CanDrain
<1>2. n \in 1..Batch /\ (~Torn => n <= stage.w - stage.r)
  BY <1>1, BatchSize
<1> HIDE DEF n
<1>3. /\ runner'.pc = runner.pc /\ runner'.run = runner.run /\ runner'.sent = runner.sent
      /\ runner'.accepted = runner.accepted /\ runner'.failed = runner.failed
      /\ runner'.clean = (runner.clean /\ ~Torn)
  BY DEF TypesOK, Runners, RunnersOf, LoadBatch
<1>4. /\ runner.pc \notin {"idle", "prepared"} /\ ~Finalized
  BY <1>1 DEF Rest, StepsAgree, Quiet, Finalized
<1>5. StepsAgree'
  BY <1>1, <1>3 DEF Rest, StepsAgree, Finalized
<1>6. Quiet'
  BY <1>1, <1>3, <1>4 DEF Rest, Quiet, Finalized
<1>7. stage.w \in Nat /\ stage.r \in Nat
  BY Fields DEF Numbers
<1>8. Resetting'
  <2>1. runner.clean /\ runner.pc = "reset_write" => stage.w = stage.r
    BY DEF Rest, Resetting
  <2>2. runner.clean /\ runner.pc = "reset_read" => Torn
    BY <1>1, <1>7 DEF Rest, Resetting, Torn
  <2> QED BY <1>1, <1>3, <2>1, <2>2 DEF Resetting
<1>9. InPlace'
  <2> SUFFICES ASSUME runner.clean, ~Torn, runner.pc \in {"running", "syncing", "closing"}
               PROVE  InPlace'
    BY <1>3 DEF InPlace
  <2>1. /\ Len(Staged(stage.r, n)) = n
        /\ \A i \in 1..n :
             Staged(stage.r, n)[i] = stage.slots[(stage.r + i - 1) % StageDepth]
    <3>1. n \in Nat
      BY <1>2
    <3> QED BY <3>1, <1>7, StagedType
  <2>2. \A k \in stage.r..(stage.w - 1) : stage.slots[k % StageDepth] = Record(k)
    BY DEF Rest, InPlace
  <2>3. \A i \in 1..n : Staged(stage.r, n)[i] = Record(stage.r + i - 1)
    <3> SUFFICES ASSUME NEW i \in 1..n
                 PROVE  Staged(stage.r, n)[i] = Record(stage.r + i - 1)
      OBVIOUS
    <3>1. stage.r + i - 1 \in stage.r..(stage.w - 1)
      BY <1>2, <1>7
    <3> QED BY <2>1, <2>2, <3>1
  <2>4. \A k : Record(k)' = Record(k)
    BY <1>3 DEF Record
  <2>5. sd'.from = stage.r /\ sd'.batch = Staged(stage.r, n)
    BY <1>1
  <2>6. Len(sd'.batch) <= stage.w - stage.r
    BY <1>2, <2>1, <2>5
  <2>7. \A i \in 1..Len(sd'.batch) : sd'.batch[i] = Record(stage.r + i - 1)
    BY <2>1, <2>3, <2>5
  <2> QED BY <1>1, <1>3, <2>4, <2>5, <2>6, <2>7 DEF Rest, InPlace
<1>10. EndsWhole'
  BY <1>1, <1>3, <1>4, EndsFrame DEF Rest, Accepting, Finalized
<1> QED BY <1>5, <1>6, <1>8, <1>9, <1>10 DEF Rest

LEMMA WriteBatchStep == TypesOK /\ Rest /\ WriteBatch => Rest'
<1> SUFFICES ASSUME TypesOK, Rest, WriteBatch PROVE Rest'
  OBVIOUS
<1>1. sd.busy /\ log.fd /\ UNCHANGED <<runner, ring, request>>
  BY DEF WriteBatch
<1>2. sd'.busy = FALSE
  BY DEF TypesOK, WriteBatch, Writes, WritesOf
<1>3. file'.recs = file.recs \o sd.batch /\ file'.torn = file.torn
  BY DEF TypesOK, WriteBatch, Files, FilesOf
<1>4. /\ log'.prepared = log.prepared /\ log'.fd = log.fd
      /\ log'.accepting = log.accepting /\ log'.sd_failed = log.sd_failed
      /\ log'.first_error = log.first_error
      /\ log'.written = log.written + Len(sd.batch) /\ log'.crc = log.crc \o sd.batch
  BY DEF TypesOK, WriteBatch, Logs, LogsOf
<1>5. /\ stage'.w = stage.w /\ stage'.r = sd.from + Len(sd.batch)
      /\ stage'.slots = stage.slots
  BY DEF TypesOK, WriteBatch, Stages, StagesOf
<1>6. /\ runner.pc \notin {"idle", "prepared"} /\ ~Finalized
  BY <1>1 DEF Rest, StepsAgree, Quiet, Finalized
<1>7. StepsAgree'
  BY <1>1, <1>3, <1>4 DEF Rest, StepsAgree, Finalized
<1>8. Quiet'
  BY <1>1, <1>6 DEF Rest, Quiet, Finalized
<1>9. Resetting'
  BY <1>1 DEF Rest, Resetting
<1>10. InPlace'
  <2> SUFFICES ASSUME runner.clean, runner.pc \in {"running", "syncing", "closing"}
               PROVE  InPlace'
    BY <1>1 DEF InPlace
  <2> DEFINE b == Len(sd.batch)
             r == stage.r
             w == stage.w
  <2>1. /\ r \in Nat /\ w \in Nat /\ b \in Nat /\ r <= w /\ w - r <= StageDepth
        /\ Len(file.recs) = r /\ b <= w - r /\ sd.from = r
        /\ log.written = r /\ log.crc = file.recs
    BY <1>1, Fields, LenProperties DEF Rest, InPlace, Numbers, Logged
  <2>2. /\ Len(file'.recs) = r + b
        /\ \A i \in 1..r : file'.recs[i] = file.recs[i]
        /\ \A i \in 1..b : file'.recs[r + i] = sd.batch[i]
    <3>1. file.recs \in Logged /\ sd.batch \in Logged
      BY Fields
    <3>2. /\ Len(file'.recs) = Len(file.recs) + b
          /\ \A i \in 1..Len(file.recs) : file'.recs[i] = file.recs[i]
          /\ \A i \in 1..b : file'.recs[Len(file.recs) + i] = sd.batch[i]
      <4>1. /\ Len(file.recs \o sd.batch) = Len(file.recs) + Len(sd.batch)
            /\ \A i \in 1..Len(file.recs) : (file.recs \o sd.batch)[i] = file.recs[i]
            /\ \A i \in 1..Len(sd.batch) :
                 (file.recs \o sd.batch)[Len(file.recs) + i] = sd.batch[i]
        BY <3>1, Concat
      <4> QED BY <1>3, <4>1, Zenon
    <3>3. Len(file.recs) = r
      BY <2>1
    <3> HIDE DEF b, r
    <3> QED BY <3>2, <3>3
  <2>3. /\ \A i \in 1..r : file.recs[i] = Record(i - 1)
        /\ \A i \in 1..b : sd.batch[i] = Record(r + i - 1)
        /\ \A k \in r..(w - 1) : stage.slots[k % StageDepth] = Record(k)
        /\ \A i \in 1..Len(ring) : ring[i] = Record(w + i - 1)
        /\ w + Len(ring) = runner.sent
    BY <1>1 DEF Rest, InPlace
  <2>4. stage'.r = r + b /\ log'.written = r + b /\ log'.crc = file'.recs
    BY <1>3, <1>4, <1>5, <2>1
  <2> HIDE DEF b, r, w
  <2>5. \A i \in 1..(r + b) : file'.recs[i] = Record(i - 1)
    <3> SUFFICES ASSUME NEW i \in 1..(r + b) PROVE file'.recs[i] = Record(i - 1)
      OBVIOUS
    <3>1. CASE i <= r
      BY <3>1, <2>1, <2>2, <2>3
    <3>2. CASE i > r
      <4>1. i - r \in 1..b /\ r + (i - r) = i /\ r + (i - r) - 1 = i - 1
        BY <3>2, <2>1
      <4> QED BY <4>1, <2>2, <2>3
    <3> QED BY <3>1, <3>2, <2>1
  <2>6. \A k \in (r + b)..(w - 1) : stage.slots[k % StageDepth] = Record(k)
    BY <2>1, <2>3
  <2>7. r + b <= w /\ w - (r + b) <= StageDepth
    BY <2>1
  <2>8. \A k : Record(k)' = Record(k)
    BY <1>1 DEF Record
  <2>9. stage'.w = w
    BY <1>5 DEF w
  <2> QED BY <1>1, <1>2, <1>5, <2>2, <2>3, <2>4, <2>5, <2>6, <2>7, <2>8, <2>9 DEF InPlace
<1>11. EndsWhole'
  BY <1>1, <1>6 DEF EndsWhole, Accepting, Finalized
<1> QED BY <1>7, <1>8, <1>9, <1>10, <1>11 DEF Rest

\* Nothing else of the runner changes then.
LEMMA FailedFields ==
    ASSUME TypesOK, Failed \/ UNCHANGED runner
    PROVE  /\ runner'.pc = runner.pc /\ runner'.run = runner.run
           /\ runner'.sent = runner.sent /\ runner'.accepted = runner.accepted
           /\ runner'.failed = runner.failed /\ runner'.clean = runner.clean
BY DEF TypesOK, Runners, RunnersOf, Failed

LEMMA WriteFailsStep == TypesOK /\ Rest /\ WriteFails => Rest'
<1> SUFFICES ASSUME TypesOK, Rest, WriteFails PROVE Rest'
  OBVIOUS
<1>1. sd.busy /\ UNCHANGED <<ring, stage, request>>
  BY DEF WriteFails
<1>2. sd'.busy = FALSE
  BY DEF TypesOK, WriteFails, Writes, WritesOf
<1>3. file'.recs = file.recs /\ file'.torn = TRUE
  BY DEF TypesOK, WriteFails, Files, FilesOf
<1>4. /\ log'.prepared = log.prepared /\ log'.fd = log.fd
      /\ log'.accepting = log.accepting /\ log'.sd_failed = TRUE
      /\ log'.first_error = TRUE
      /\ log'.written = log.written /\ log'.crc = log.crc
  BY DEF TypesOK, WriteFails, Fail, Logs, LogsOf
<1>5. /\ runner'.pc = runner.pc /\ runner'.run = runner.run
      /\ runner'.sent = runner.sent /\ runner'.accepted = runner.accepted
      /\ runner'.failed = runner.failed /\ runner'.clean = runner.clean
  BY FailedFields DEF WriteFails
<1>6. /\ runner.pc \notin {"idle", "prepared"} /\ ~Finalized
  BY <1>1 DEF Rest, StepsAgree, Quiet, Finalized
<1>7. StepsAgree'
  BY <1>1, <1>3, <1>4, <1>5 DEF Rest, StepsAgree, Finalized
<1>8. Quiet'
  BY <1>1, <1>5, <1>6 DEF Rest, Quiet, Finalized
<1>9. Resetting'
  BY <1>1, <1>5 DEF Rest, Resetting
<1>10. InPlace'
  <2>1. \A k : Record(k)' = Record(k)
    BY <1>5 DEF Record
  <2> QED BY <1>1, <1>2, <1>3, <1>4, <1>5, <2>1 DEF Rest, InPlace
<1>11. EndsWhole'
  BY <1>1, <1>5, <1>6 DEF EndsWhole, Accepting, Finalized
<1> QED BY <1>7, <1>8, <1>9, <1>10, <1>11 DEF Rest

LEMMA SdSyncStep == TypesOK /\ Rest /\ SdSync => Rest'
<1> SUFFICES ASSUME TypesOK, Rest, SdSync PROVE Rest'
  OBVIOUS
<1>1. /\ request.at = "sd_queue" /\ request.kind = "Sync"
      /\ UNCHANGED <<ring, stage, sd, file>>
  BY DEF SdSync, AtControl
<1>2. /\ runner'.pc = runner.pc /\ runner'.run = runner.run
      /\ runner'.sent = runner.sent /\ runner'.accepted = runner.accepted
      /\ runner'.failed = runner.failed /\ runner'.clean = runner.clean
  BY FailedFields DEF SdSync
<1>3. /\ request'.at = "answered" /\ request'.kind = request.kind
      /\ request'.normal = request.normal
  BY DEF TypesOK, Requests, RequestsOf, SdSync
<1>4. PICK ok \in BOOLEAN :
        log' = [log EXCEPT !.synced = ok, !.result = log.first_error \/ ~ok,
                           !.first_error = log.first_error \/ ~ok]
  BY DEF SdSync
<1>5. /\ log'.prepared = log.prepared /\ log'.fd = log.fd
      /\ log'.accepting = log.accepting /\ log'.sd_failed = log.sd_failed
      /\ log.first_error => log'.first_error
      /\ log'.written = log.written /\ log'.crc = log.crc
  BY <1>4 DEF TypesOK, Logs, LogsOf
<1>6. runner.pc = "syncing"
  BY <1>1, Fields DEF Rest, StepsAgree
<1>7. StepsAgree'
  BY <1>1, <1>2, <1>3, <1>5, <1>6 DEF Rest, StepsAgree, Finalized
<1>8. Quiet'
  BY <1>1, <1>2, <1>3, <1>6 DEF Rest, Quiet, Finalized
<1>9. InPlace'
  BY <1>1, <1>2, <1>5, InPlaceFrame DEF Rest
<1> QED BY <1>2, <1>6, <1>7, <1>8, <1>9 DEF Rest, Resetting, EndsWhole, Accepting, Finalized

\* A request for the footer finds every record in the file: the log that has no
\* error is whole.
LEMMA AllWritten ==
    ASSUME TypesOK, Rest, AtControl("Finalize"), ~log.sd_failed, runner.clean
    PROVE  /\ file.recs = Sent /\ log.written = Len(file.recs) /\ log.crc = file.recs
           /\ RecordsFollow(file)
<1>1. runner.pc = "closing" /\ request.at = "sd_queue"
  BY DEF Rest, StepsAgree, AtControl
<1>2. log.fd /\ ring = <<>> /\ stage.w = stage.r
  BY <1>1 DEF Rest, StepsAgree, Quiet, Finalized, AtControl, CanDrain
<1>3. /\ Len(file.recs) = stage.r /\ stage.w + Len(ring) = runner.sent
      /\ \A i \in 1..stage.r : file.recs[i] = Record(i - 1)
      /\ log.written = stage.r /\ log.crc = file.recs
  BY <1>1 DEF Rest, InPlace
<1>4. stage.r = runner.sent /\ stage.r \in Nat
  BY <1>2, <1>3, Fields, EmptySeq DEF Numbers
<1>5. file.recs \in [1..runner.sent -> Recs]
  BY <1>3, <1>4, Fields, LenProperties DEF Logged
<1>6. file.recs = Sent
  BY <1>3, <1>4, <1>5 DEF Sent
<1>7. \A i \in 1..(Len(file.recs) - 1) : file.recs[i + 1].seq = file.recs[i].seq + 1
  <2> SUFFICES ASSUME NEW i \in 1..(Len(file.recs) - 1)
               PROVE  file.recs[i + 1].seq = file.recs[i].seq + 1
    OBVIOUS
  <2>1. i \in 1..stage.r /\ i + 1 \in 1..stage.r
    BY <1>3, <1>4
  <2>2. file.recs[i] = Record(i - 1) /\ file.recs[i + 1] = Record((i + 1) - 1)
    BY <1>3, <2>1
  <2>3. (i + 1) - 1 = (i - 1) + 1
    BY <2>1, <1>4
  <2> QED BY <2>2, <2>3 DEF Record
<1> QED BY <1>3, <1>6, <1>7 DEF RecordsFollow

LEMMA SdFinalizeStep == TypesOK /\ Rest /\ SdFinalize => Rest'
<1> SUFFICES ASSUME TypesOK, Rest, SdFinalize PROVE Rest'
  OBVIOUS
<1>1. PICK ok \in BOOLEAN :
        /\ IF ok THEN UNCHANGED runner ELSE MayFail /\ Failed
        /\ file' = Closed(IF FooterFits /\ ok
                            THEN [total |-> log.written, normal |-> request.normal,
                                  crc |-> log.crc]
                            ELSE NoFooter)
        /\ request' = [request EXCEPT !.at = "answered"]
        /\ log' = [log EXCEPT !.prepared = FALSE, !.synced = FALSE, !.fd = FALSE,
                      !.accepting = FALSE,
                      !.result = log.first_error \/ ~log.synced \/ ~FooterFits \/ ~ok,
                      !.first_error = log.first_error
                         \/ (log.first_error \/ ~log.synced \/ ~FooterFits \/ ~ok)]
  BY DEF SdFinalize
<1>2. /\ request.at = "sd_queue" /\ request.kind = "Finalize" /\ ~sd.busy /\ ~CanDrain
      /\ UNCHANGED <<ring, stage, sd>> /\ AtControl("Finalize")
  BY DEF SdFinalize, AtControl
<1>3. /\ runner'.pc = runner.pc /\ runner'.run = runner.run
      /\ runner'.sent = runner.sent /\ runner'.accepted = runner.accepted
      /\ runner'.failed = runner.failed /\ runner'.clean = runner.clean
  BY <1>1, FailedFields
<1>4. /\ request'.at = "answered" /\ request'.kind = request.kind
      /\ request'.normal = request.normal
  BY <1>1 DEF TypesOK, Requests, RequestsOf
<1>5. /\ log'.prepared = FALSE /\ log'.fd = FALSE /\ log'.accepting = FALSE
      /\ log'.sd_failed = log.sd_failed
      /\ log.first_error => log'.first_error
      /\ log'.written = log.written /\ log'.crc = log.crc
      /\ ~log'.result => ~log.first_error /\ FooterFits /\ ok
  <2> DEFINE result == log.first_error \/ ~log.synced \/ ~FooterFits \/ ~ok
             error  == log.first_error \/ result
  <2>1. log' = [log EXCEPT !.prepared = FALSE, !.synced = FALSE, !.fd = FALSE,
                  !.accepting = FALSE, !.result = result, !.first_error = error]
    BY <1>1
  <2>2. /\ log.first_error => error
        /\ ~result => ~log.first_error /\ FooterFits /\ ok
    OBVIOUS
  <2> HIDE DEF result, error
  <2>3. /\ log'.prepared = FALSE /\ log'.fd = FALSE /\ log'.accepting = FALSE
        /\ log'.sd_failed = log.sd_failed /\ log'.first_error = error
        /\ log'.written = log.written /\ log'.crc = log.crc /\ log'.result = result
    BY <2>1 DEF TypesOK, Logs, LogsOf
  <2> QED BY <2>2, <2>3
<1>6. file'.recs = file.recs /\ file'.torn = file.torn
  BY <1>1 DEF Closed, TypesOK, Files, FilesOf
<1>7. runner.pc = "closing" /\ ~Finalized
  BY <1>2 DEF Rest, StepsAgree, Finalized
<1>8. Finalized'
  BY <1>3, <1>4, <1>7 DEF Finalized
<1>9. StepsAgree'
  <2>1. /\ log'.sd_failed => log'.first_error
        /\ file'.torn => log'.sd_failed
    BY <1>5, <1>6 DEF Rest, StepsAgree
  <2>2. /\ log'.prepared = log'.fd /\ ~log'.fd /\ ~log'.accepting
    BY <1>5
  <2>3. /\ runner'.accepted => runner'.pc = "idle"
        /\ runner'.pc = "closing"
        /\ request'.at = "answered" /\ request'.kind = "Finalize"
        /\ request'.normal = ~runner'.failed
    BY <1>2, <1>3, <1>4, <1>7 DEF Rest, StepsAgree
  <2> QED BY <1>8, <2>1, <2>2, <2>3 DEF StepsAgree
<1>10. Quiet'
  <2>1. log.fd /\ ring = <<>>
    BY <1>7 DEF Rest, StepsAgree, Quiet
  <2>2. log.sd_failed \/ stage.w = stage.r
    BY <1>2, <2>1 DEF CanDrain
  <2>3. ring' = <<>> /\ ~sd'.busy /\ (log'.sd_failed \/ stage'.w = stage'.r)
    BY <1>2, <1>5, <2>1, <2>2
  <2> QED BY <1>3, <1>7, <2>3 DEF Quiet
<1>11. InPlace'
  BY <1>2, <1>3, <1>5, <1>6, InPlaceFrame DEF Rest
<1>12. EndsWhole'
  <2> SUFFICES ASSUME runner.clean, ~log'.result, ~runner.failed PROVE WholeFile'
    BY <1>3, <1>7, <1>8 DEF EndsWhole, Accepting
  <2>1. ~log.first_error /\ FooterFits /\ ok /\ ~log.sd_failed /\ ~file.torn
    BY <1>5 DEF Rest, StepsAgree
  <2>2. /\ file.recs = Sent /\ log.written = Len(file.recs) /\ log.crc = file.recs
        /\ RecordsFollow(file)
    BY <1>2, <2>1, AllWritten
  <2>3. request.normal = TRUE
    BY <1>7, Fields DEF Rest, StepsAgree
  <2> DEFINE footer == [total |-> log.written, normal |-> request.normal, crc |-> log.crc]
  <2>4. file' = [file EXCEPT !.footer = footer]
    BY <1>1, <2>1 DEF Closed
  <2>5. footer.total = Len(file.recs) /\ footer.normal = TRUE /\ footer.crc = file.recs
    BY <2>2, <2>3
  <2>6. file.recs # <<>>
    BY <2>1, <2>2, <2>3, EmptySeq DEF FooterFits, NormalIsClean
  <2>7. footer # NoFooter
    BY <2>3 DEF NoFooter
  <2> HIDE DEF footer
  <2>8. file'.footer = footer
    BY <2>4 DEF TypesOK, Files, FilesOf
  <2>9. Sent' = Sent
    BY <1>3 DEF Sent, Record
  <2>10. RecordsFollow(file)'
    BY <1>6, <2>2 DEF RecordsFollow
  <2> QED BY <1>6, <2>1, <2>2, <2>5, <2>6, <2>7, <2>8, <2>9, <2>10
          DEF WholeFile, ValidCapture, FooterDecodes, FooterCounts, NormalHasData,
              ChecksumHolds
<1> QED BY <1>3, <1>7, <1>9, <1>10, <1>11, <1>12 DEF Rest, Resetting

-----------------------------------------------------------------------------
\* The invariant.

LEMMA InitIInv == Init => IInv
<1> SUFFICES ASSUME Init PROVE IInv
  OBVIOUS
<1>1. TypesOK
  <2>1. runner \in Runners
    BY DEF Init, Runners, RunnersOf, Steps, RunsOf, Counts, Numbers, Unfits
  <2>2. log \in Logs
    BY Values DEF Init, Logs, LogsOf, Numbers
  <2>3. ring \in Logged /\ Len(ring) <= RingDepth
    BY EmptySeq DEF Init, Logged
  <2>4. [run |-> 0, seq |-> 0] \in Recs
    BY DEF Recs
  <2>5. stage \in Stages
    BY <2>4 DEF Init, Stages, StagesOf, Slots, Numbers
  <2>6. request \in Requests
    BY DEF Init, Requests, RequestsOf, Places
  <2>7. sd \in Writes /\ sd.busy = FALSE
    BY Values DEF Init, Writes, WritesOf, Numbers
  <2> QED BY <2>1, <2>2, <2>3, <2>5, <2>6, <2>7, Values DEF TypesOK, Init
<1>2. /\ runner.pc = "idle" /\ runner.accepted = FALSE
      /\ log.prepared = FALSE /\ log.fd = FALSE /\ log.accepting = FALSE
      /\ log.sd_failed = FALSE /\ log.first_error = FALSE
      /\ ring = <<>> /\ stage.w = 0 /\ stage.r = 0
      /\ request.at = "none" /\ sd.busy = FALSE /\ file.torn = FALSE
  BY DEF Init, NoFile
<1>3. StepsAgree
  BY <1>2 DEF StepsAgree, Finalized
<1>4. Quiet
  BY <1>2 DEF Quiet, Finalized
<1> QED BY <1>1, <1>2, <1>3, <1>4
        DEF IInv, Resetting, InPlace, EndsWhole, Accepting, Finalized

LEMMA NextIInv == IInv /\ [Next]_vars => IInv'
<1> SUFFICES ASSUME TypesOK, Rest, [Next]_vars PROVE Rest'
  BY NextTypes DEF IInv, Rest
<1>1. CASE Initialize \/ Prepare \/ OpenFails \/ Open \/ ResetWriteIndex \/ ResetReadIndex
  BY <1>1, InitializeStep, PrepareStep, OpenFailsStep, OpenStep, ResetWriteIndexStep,
     ResetReadIndexStep
<1>2. CASE Enqueue \/ DrainAndSync \/ Close \/ Finish
  BY <1>2, EnqueueStep, DrainAndSyncStep, CloseStep, FinishStep
<1>3. CASE Stage
  BY <1>3, StageRecordStep, RecordStays, ForwardControlStep, AnswerControlStep
     DEF Stage
<1>4. CASE Sd
  BY <1>4, LoadBatchStep, WriteBatchStep, WriteFailsStep, SdSyncStep, SdFinalizeStep
     DEF Sd
<1>5. CASE UNCHANGED vars
  <2>1. UNCHANGED <<runner, log, ring, stage, request, sd, file>>
    BY <1>5 DEF vars
  <2>2. StepsAgree' /\ Quiet' /\ Resetting'
    BY <2>1 DEF Rest, StepsAgree, Quiet, Resetting, Finalized
  <2>3. InPlace'
    BY <2>1, InPlaceFrame DEF Rest
  <2>4. EndsWhole'
    BY <2>1, EndsFrame DEF Rest, Accepting, Finalized
  <2> QED BY <2>2, <2>3, <2>4 DEF Rest
<1> QED BY <1>1, <1>2, <1>3, <1>4, <1>5 DEF Next, Runner

LEMMA IInvHolds == Spec => []IInv
<1>1. Spec => Init /\ [][Next]_vars
  BY DEF Spec
<1> QED BY <1>1, InitIInv, NextIInv, PTL

\* With every record in its place the file, the staging area and the ring hold
\* what was sent.
LEMMA Together == IInv => LogIsSound
<1> SUFFICES ASSUME IInv PROVE LogIsSound
  OBVIOUS
<1>0. TypesOK /\ StepsAgree /\ InPlace
  BY DEF IInv
<1>1. LogWriterTypeOK
  <2>1. /\ runner.pc \in Steps /\ runner.run \in RunsOf /\ runner.sent \in Counts
        /\ request.at \in Places
    BY <1>0, Fields
  <2>2. (log.prepared => log.fd) /\ (log.accepting => log.prepared)
    BY <1>0 DEF StepsAgree, Finalized
  <2>3. Len(ring) <= RingDepth /\ (sd.busy => Len(sd.batch) \in 1..Batch)
    BY <1>0 DEF TypesOK
  <2> QED BY <2>1, <2>2, <2>3
          DEF LogWriterTypeOK, Steps, RunsOf, Counts, Places
<1>2. RecordsAreKept
  <2> SUFFICES ASSUME runner.clean, runner.pc \in {"running", "syncing", "closing"}
               PROVE  /\ stage.r <= stage.w /\ stage.w - stage.r <= StageDepth
                      /\ file.recs \o Staged(stage.r, stage.w - stage.r) \o ring = Sent
    BY DEF RecordsAreKept
  <2> DEFINE n == stage.w - stage.r
             s == Staged(stage.r, n)
             a == file.recs \o s
  <2>1. /\ stage.r <= stage.w /\ n <= StageDepth
        /\ Len(file.recs) = stage.r /\ stage.w + Len(ring) = runner.sent
        /\ \A i \in 1..stage.r : file.recs[i] = Record(i - 1)
        /\ \A k \in stage.r..(stage.w - 1) : stage.slots[k % StageDepth] = Record(k)
        /\ \A i \in 1..Len(ring) : ring[i] = Record(stage.w + i - 1)
    BY <1>0 DEF InPlace
  <2>2. stage.w \in Nat /\ stage.r \in Nat /\ n \in Nat
    BY <1>0, <2>1, Fields DEF Numbers
  <2>3. /\ s \in Logged /\ Len(s) = n
        /\ \A i \in 1..n : s[i] = stage.slots[(stage.r + i - 1) % StageDepth]
    BY <1>0, <2>2, StagedType
  <2>4. stage.r + n = stage.w
    BY <2>2
  <2> HIDE DEF n, s
  <2>5. \A i \in 1..n : s[i] = Record(stage.r + i - 1)
    <3> SUFFICES ASSUME NEW i \in 1..n PROVE s[i] = Record(stage.r + i - 1)
      OBVIOUS
    <3>1. stage.r + i - 1 \in stage.r..(stage.w - 1)
      BY <2>2, <2>4
    <3> QED BY <2>1, <2>3, <3>1
  <2>6. file.recs \in Logged /\ ring \in Logged
    BY <1>0, Fields DEF TypesOK
  <2>7. /\ a \in Logged /\ Len(a) = stage.w
        /\ \A i \in 1..stage.r : a[i] = file.recs[i]
        /\ \A i \in 1..n : a[stage.r + i] = s[i]
    <3>1. /\ a \in Logged /\ Len(a) = Len(file.recs) + Len(s)
          /\ \A i \in 1..Len(file.recs) : a[i] = file.recs[i]
          /\ \A i \in 1..Len(s) : a[Len(file.recs) + i] = s[i]
      BY <2>3, <2>6, Concat
    <3>2. Len(file.recs) = stage.r /\ Len(s) = n
      BY <2>1, <2>3
    <3> HIDE DEF a
    <3> QED BY <3>1, <3>2, <2>4
  <2> HIDE DEF a
  <2>8. \A i \in 1..stage.w : a[i] = Record(i - 1)
    <3> SUFFICES ASSUME NEW i \in 1..stage.w PROVE a[i] = Record(i - 1)
      OBVIOUS
    <3>1. CASE i <= stage.r
      BY <3>1, <2>1, <2>2, <2>7
    <3>2. CASE i > stage.r
      <4>1. i - stage.r \in 1..n /\ stage.r + (i - stage.r) = i
            /\ stage.r + (i - stage.r) - 1 = i - 1
        BY <3>2, <2>2, <2>4
      <4> QED BY <4>1, <2>5, <2>7
    <3> QED BY <3>1, <3>2, <2>2
  <2>9. /\ a \o ring \in Logged /\ Len(a \o ring) = runner.sent
        /\ \A i \in 1..stage.w : (a \o ring)[i] = a[i]
        /\ \A i \in 1..Len(ring) : (a \o ring)[stage.w + i] = ring[i]
    <3>1. /\ a \o ring \in Logged /\ Len(a \o ring) = Len(a) + Len(ring)
          /\ \A i \in 1..Len(a) : (a \o ring)[i] = a[i]
          /\ \A i \in 1..Len(ring) : (a \o ring)[Len(a) + i] = ring[i]
      BY <2>6, <2>7, Concat
    <3>2. Len(a) = stage.w /\ stage.w + Len(ring) = runner.sent
      BY <2>1, <2>7
    <3> QED BY <3>1, <3>2
  <2>10. Len(ring) \in Nat
    BY <2>6, LenProperties DEF Logged
  <2>11. \A i \in 1..runner.sent : (a \o ring)[i] = Record(i - 1)
    <3> SUFFICES ASSUME NEW i \in 1..runner.sent PROVE (a \o ring)[i] = Record(i - 1)
      OBVIOUS
    <3>1. CASE i <= stage.w
      BY <3>1, <2>2, <2>8, <2>9
    <3>2. CASE i > stage.w
      <4>1. stage.w + Len(ring) = runner.sent
        BY <2>1
      <4>2. i - stage.w \in 1..Len(ring) /\ stage.w + (i - stage.w) = i
            /\ stage.w + (i - stage.w) - 1 = i - 1
        BY <4>1, <3>2, <2>2, <2>10
      <4>3. (a \o ring)[stage.w + (i - stage.w)] = ring[i - stage.w]
        BY <4>2, <2>9
      <4>4. ring[i - stage.w] = Record(stage.w + (i - stage.w) - 1)
        BY <4>2, <2>1
      <4> QED BY <4>2, <4>3, <4>4
    <3>3. i <= stage.w \/ i > stage.w
      BY <2>2
    <3> QED BY <3>1, <3>2, <3>3
  <2>12. a \o ring \in [1..runner.sent -> Recs]
    BY <2>9, LenProperties DEF Logged
  <2>13. a \o ring = Sent
    BY <2>11, <2>12 DEF Sent
  <2> QED BY <2>1, <2>13 DEF n, s, a
<1> QED BY <1>1, <1>2 DEF LogIsSound

\* The logger (log_writer_v5.cpp) neither loses, doubles nor reorders a record on
\* its way through the ring and the staging area, whatever the three tasks do in
\* between and whichever write fails, in a run that begins with the staging area
\* empty and its reset undisturbed.
THEOREM LogTheorem == Spec => []LogIsSound
BY IInvHolds, Together, PTL

\* A run that ProfileRunner::run accepts has a file with all its records, and with
\* the footer the decoder asks for (record_validation.cpp).
THEOREM FileTheorem == Spec => []AcceptedFileIsWhole
<1>1. IInv => AcceptedFileIsWhole
  BY DEF IInv, EndsWhole, Accepting, WholeFile, AcceptedFileIsWhole
<1> QED BY <1>1, IInvHolds, PTL

=============================================================================
