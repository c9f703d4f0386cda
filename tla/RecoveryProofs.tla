--------------------------- MODULE RecoveryProofs ---------------------------
(***************************************************************************)
(* Proofs about the entry into Recovery and Deep Sleep, for every capacity *)
(* of the queues, every set of transfer ids and every number of resets and *)
(* failures.                                                               *)
(*                                                                         *)
(* What NVS and RTC memory hold is written by three tasks, so that the     *)
(* evidence is true only because of what each of them may find in RAM:     *)
(* before Recovery is requested nothing of the entry has begun (NotBegun), *)
(* and in a flight no status that canTask has to send lets it erase the    *)
(* latch (NoneReady).                                                      *)
(***************************************************************************)
EXTENDS Recovery, TLAPS

Ids       == Transfers \cup {0}
Answers   == [opcode : {"wake", "start", "stop"}, id : Ids,
              status : Statuses \cup {"internal"}]
Dumps     == [id : Ids, left : 0..LogLength]
Runtimes  == {"inactive", "flushing_and_safeing", "ready_for_deep_sleep",
              "wake_command_window"}
OwnersOf(runtimes, flags, dumps) ==
  [runtime : runtimes, waiting : flags, flushing : flags, over : flags,
   marking : flags, dump : dumps]
Owners    == OwnersOf(Runtimes, BOOLEAN, Dumps)
Safes     == [power : BOOLEAN, motor : BOOLEAN, sd : BOOLEAN, flash : BOOLEAN]
CanStates == [phase : {"idle", "erased"}, status : Answers \cup {NoStatus}]
Exits     == [id : Ids, valid : BOOLEAN, prepared : BOOLEAN]
Requests  == Controls \cup {Enter}

TypesOK ==
  /\ nvs \in {"active", "inactive"} /\ marker \in BOOLEAN
  /\ board \in {"flight", "recovery", "asleep"} /\ wake \in BOOLEAN
  /\ flight \in {"before", "cutoff", "due"}
  /\ auto \in BOOLEAN /\ requested \in BOOLEAN /\ signal \in BOOLEAN
  /\ safe \in Safes
  /\ owner \in Owners
  /\ command \in {"none", "pending", "sent"}
  /\ requests \in Seq(Requests) /\ Len(requests) <= RequestQueue
  /\ statuses \in Seq(Answers) /\ Len(statuses) <= StatusQueue
  /\ can \in CanStates
  /\ exit \in Exits
  /\ controls \in 0..MaxControls /\ faults \in 0..MaxFaults

\* canTask goes on with the exit that it erased the latch for.
ExitGoesOn == can.phase = "erased" => Leaves

\* Before Recovery is requested internalFlashTask has nothing of the entry.
NotBegun ==
  board = "flight" /\ ~requested =>
    /\ owner.runtime = "inactive" /\ ~owner.waiting /\ ~owner.marking
    /\ command = "none"

\* In a flight a wake is never answered with ready.
NoneReady ==
  board = "flight" =>
    /\ can.status.status # "ready"
    /\ \A i \in 1..Len(statuses) : statuses[i].status # "ready"

IInv == TypesOK /\ ExitGoesOn /\ NotBegun /\ NoneReady /\ FlightBootsAgain /\ SleepsMarked

USE RecoveryAssumption

-----------------------------------------------------------------------------
\* What the helpers of the model return.

LEMMA OfferedType ==
  ASSUME NEW S, NEW queue \in Seq(S), NEW capacity \in Nat, Len(queue) <= capacity,
         NEW x \in S
  PROVE  /\ Offered(queue, capacity, x) \in Seq(S)
         /\ Len(Offered(queue, capacity, x)) <= capacity
BY DEF Offered

LEMMA EnterRequest == Enter \in Requests
BY DEF Requests

LEMMA NoDumpType == NoDump \in Dumps
BY DEF NoDump, Dumps, Ids

\* In a flight no control is answered with ready, whatever it asks.
LEMMA AnswerType ==
  ASSUME owner \in Owners, NEW c \in Controls, NEW length \in 0..LogLength + 1
  PROVE  /\ AnswerTo(c, length).status \in Statuses
         /\ AnswerTo(c, length).dump \in Dumps
         /\ board = "flight" => AnswerTo(c, length).status # "ready"
<1>1. owner.dump \in Dumps /\ c.id \in Ids
  BY DEF Owners, OwnersOf, Controls, Ids
<1>2. /\ WakeStatus \in Statuses
      /\ board = "flight" => WakeStatus # "ready"
  BY DEF WakeStatus, Statuses
<1>3. /\ StartDump(c.id, length).status \in Statuses
      /\ StartDump(c.id, length).dump \in Dumps
  <2>1. length <= LogLength => [id |-> c.id, left |-> length] \in Dumps
    BY <1>1 DEF Dumps
  <2> QED BY <1>1, <2>1, NoDumpType DEF StartDump, Statuses, Dumps
<1>4. /\ StopDump(c.id).status \in Statuses /\ StopDump(c.id).status # "ready"
      /\ StopDump(c.id).dump \in Dumps
  BY <1>1, NoDumpType DEF StopDump, Statuses
<1>5. CASE c.opcode = "wake"
  BY <1>1, <1>2, <1>5 DEF AnswerTo
<1>6. CASE c.opcode # "wake" /\ board # "recovery"
  BY <1>1, <1>6 DEF AnswerTo, Statuses
<1>7. CASE c.opcode = "start" /\ board = "recovery"
  BY <1>3, <1>7 DEF AnswerTo
<1>8. CASE c.opcode = "stop" /\ board = "recovery"
  BY <1>4, <1>8 DEF AnswerTo
<1> QED BY <1>5, <1>6, <1>7, <1>8 DEF Controls

\* RAM after a boot.
LEMMA BootedTypes ==
  ASSUME NEW mode \in {"flight", "recovery"}, NEW valid \in BOOLEAN, Booted(mode, valid)
  PROVE  /\ board' \in {"flight", "recovery", "asleep"} /\ wake' \in BOOLEAN
         /\ auto' \in BOOLEAN /\ requested' \in BOOLEAN /\ signal' \in BOOLEAN
         /\ safe' \in Safes /\ owner' \in Owners
         /\ command' \in {"none", "pending", "sent"}
         /\ requests' \in Seq(Requests) /\ Len(requests') <= RequestQueue
         /\ statuses' \in Seq(Answers) /\ Len(statuses') <= StatusQueue
         /\ can' \in CanStates /\ exit' \in Exits
<1>1. board' \in {"flight", "recovery", "asleep"} /\ wake' \in BOOLEAN
  BY DEF Booted
<1>2. auto' \in BOOLEAN /\ requested' \in BOOLEAN /\ signal' \in BOOLEAN
  BY DEF Booted
<1>3. safe' \in Safes
  BY DEF Booted, Safes
<1>4. owner' \in Owners
  <2>1. Woken(valid) \in Runtimes
    BY DEF Woken, Runtimes
  <2> QED BY <2>1, NoDumpType DEF Booted, Owners, OwnersOf
<1>5. command' \in {"none", "pending", "sent"}
  BY DEF Booted
<1>6. requests' \in Seq(Requests) /\ Len(requests') <= RequestQueue
  BY DEF Booted
<1>7. statuses' \in Seq(Answers) /\ Len(statuses') <= StatusQueue
  <2>1. ASSUME NEW s \in {"ready", "internal"}
        PROVE  [opcode |-> "wake", id |-> 0, status |-> s] \in Answers
    BY DEF Answers, Ids, Statuses
  <2>2. CASE mode = "recovery"
    <3> DEFINE a == [opcode |-> "wake", id |-> 0,
                     status |-> IF valid THEN "ready" ELSE "internal"]
    <3>1. a \in Answers /\ statuses' = <<a>>
      BY <2>1, <2>2 DEF Booted
    <3> HIDE DEF a
    <3> QED BY <3>1
  <2>3. CASE mode # "recovery"
    BY <2>3 DEF Booted
  <2> QED BY <2>2, <2>3
<1>8. can' \in CanStates
  BY DEF Booted, CanStates
<1>9. exit' \in Exits
  BY DEF Booted, Exits, NoExit, Ids
<1> QED BY <1>1, <1>2, <1>3, <1>4, <1>5, <1>6, <1>7, <1>8, <1>9

-----------------------------------------------------------------------------
\* Every action preserves the invariant.

LEMMA ResetStep ==
  ASSUME IInv, Reset
  PROVE  IInv'
<1> USE DEF IInv
<1>1. PICK read \in {"active", "inactive", "unreadable"} : Boot(FALSE, read)
  BY DEF TypesOK, Reset
<1>2. marker' \in BOOLEAN
  BY DEF TypesOK, latches, Reset
<1>3. PICK mode \in {"flight", "recovery"}, valid \in BOOLEAN : Booted(mode, valid)
  BY <1>1, <1>2 DEF Boot
<1>4. flight' \in {"before", "cutoff", "due"}
  BY DEF TypesOK, Reset
<1>5. faults' \in 0..MaxFaults
  BY DEF TypesOK, Reset, Fault
<1>6. TypesOK'
  BY <1>2, <1>3, <1>4, <1>5, BootedTypes DEF TypesOK, latches, bounds, Reset
<1>7. ExitGoesOn'
  BY DEF ExitGoesOn, Reset, Boot, Booted
<1>8. NotBegun'
  BY DEF NotBegun, Reset, Boot, Booted, Woken
<1>9. NoneReady'
  BY DEF NoneReady, Reset, Boot, Booted, NoStatus
<1>10. FlightBootsAgain'
  BY DEF FlightBootsAgain, Reset, Boot, Booted
<1>11. SleepsMarked'
  BY DEF SleepsMarked, Reset, Boot, Booted, Woken
<1> QED BY <1>6, <1>7, <1>8, <1>9, <1>10, <1>11

LEMMA WakeStep ==
  ASSUME IInv, Wake
  PROVE  IInv'
<1> USE DEF IInv
<1>1. PICK read \in {"active", "inactive", "unreadable"} : Boot(TRUE, read)
  BY DEF TypesOK, Wake
<1>2. marker' \in BOOLEAN
  BY DEF TypesOK, latches, Wake
<1>3. PICK mode \in {"flight", "recovery"}, valid \in BOOLEAN : Booted(mode, valid)
  BY <1>1, <1>2 DEF Boot
<1>4. faults' \in 0..MaxFaults
  BY DEF TypesOK, Wake, Boot, Fault
<1>5. TypesOK'
  BY <1>2, <1>3, <1>4, BootedTypes DEF TypesOK, latches, bounds, Wake
<1>6. ExitGoesOn'
  BY DEF ExitGoesOn, Wake, Boot, Booted
<1>7. NotBegun'
  BY DEF NotBegun, Wake, Boot, Booted
<1>8. NoneReady'
  BY DEF NoneReady, Wake, Boot, Booted
<1>9. FlightBootsAgain'
  BY DEF FlightBootsAgain, Wake, Boot, Booted
<1>10. SleepsMarked'
  BY DEF SleepsMarked, Wake, Boot, Booted
<1> QED BY <1>5, <1>6, <1>7, <1>8, <1>9, <1>10

LEMMA FlyStep ==
  ASSUME IInv, Fly
  PROVE  IInv'
<1> USE DEF IInv
<1>1. flight' \in {"before", "cutoff", "due"}
  BY DEF TypesOK, Fly
<1>2. TypesOK'
  BY <1>1 DEF TypesOK, latches, wires, bounds, Fly
<1>3. (ExitGoesOn /\ NotBegun /\ NoneReady /\ FlightBootsAgain /\ SleepsMarked)'
  BY DEF ExitGoesOn, NotBegun, NoneReady, FlightBootsAgain, SleepsMarked, Leaves, Fly,
     latches, wires
<1> QED BY <1>2, <1>3

LEMMA AutoEnterStep ==
  ASSUME IInv, AutoEnter
  PROVE  IInv'
<1> USE DEF IInv
<1>1. requests' \in Seq(Requests) /\ Len(requests') <= RequestQueue
  BY EnterRequest DEF TypesOK, AutoEnter
<1>2. auto' \in BOOLEAN
  BY DEF TypesOK, AutoEnter
<1>3. TypesOK'
  BY <1>1, <1>2 DEF TypesOK, latches, bounds, AutoEnter
<1>4. (ExitGoesOn /\ NotBegun /\ NoneReady /\ FlightBootsAgain /\ SleepsMarked)'
  BY DEF ExitGoesOn, NotBegun, NoneReady, FlightBootsAgain, SleepsMarked, Leaves,
     AutoEnter, latches
<1> QED BY <1>3, <1>4

LEMMA GroundEnterStep ==
  ASSUME IInv, GroundEnter
  PROVE  IInv'
<1> USE DEF IInv
<1>1. controls' \in 0..MaxControls
  BY DEF TypesOK, GroundEnter
<1>2. requests' \in Seq(Requests) /\ Len(requests') <= RequestQueue
  BY EnterRequest, OfferedType DEF TypesOK, GroundEnter
<1>3. TypesOK'
  BY <1>1, <1>2 DEF TypesOK, latches, entry, GroundEnter
<1>4. (ExitGoesOn /\ NotBegun /\ NoneReady /\ FlightBootsAgain /\ SleepsMarked)'
  BY DEF ExitGoesOn, NotBegun, NoneReady, FlightBootsAgain, SleepsMarked, Leaves,
     GroundEnter, latches, entry
<1> QED BY <1>3, <1>4

LEMMA MakeSafeStep ==
  ASSUME IInv, NEW part \in {"power", "motor"}, MakeSafe(part)
  PROVE  IInv'
<1> USE DEF IInv
<1>1. safe' \in Safes
  BY DEF TypesOK, MakeSafe, Safes
<1>2. faults' \in 0..MaxFaults
  BY DEF TypesOK, MakeSafe, Fault
<1>3. TypesOK'
  BY <1>1, <1>2 DEF TypesOK, latches, wires, MakeSafe
<1>4. (ExitGoesOn /\ NotBegun /\ NoneReady /\ FlightBootsAgain /\ SleepsMarked)'
  BY DEF ExitGoesOn, NotBegun, NoneReady, FlightBootsAgain, SleepsMarked, Leaves,
     AnswersExit, MakeSafe, latches, wires
<1> QED BY <1>3, <1>4

LEMMA FlushSdStep ==
  ASSUME IInv, FlushSd
  PROVE  IInv'
<1> USE DEF IInv
<1>1. signal' \in BOOLEAN
  BY DEF TypesOK, FlushSd
<1>2. safe' \in Safes
  BY DEF TypesOK, FlushSd, Safes
<1>3. TypesOK'
  BY <1>1, <1>2 DEF TypesOK, latches, wires, bounds, FlushSd
<1>4. (ExitGoesOn /\ NotBegun /\ NoneReady /\ FlightBootsAgain /\ SleepsMarked)'
  BY DEF ExitGoesOn, NotBegun, NoneReady, FlightBootsAgain, SleepsMarked, Leaves,
     AnswersExit, FlushSd, latches, wires
<1> QED BY <1>3, <1>4

LEMMA HandleEnterStep ==
  ASSUME IInv, HandleEnter
  PROVE  IInv'
<1> USE DEF IInv
<1>1. requests' \in Seq(Requests) /\ Len(requests') <= RequestQueue
  BY DEF TypesOK, HandleEnter
<1>2. requested' \in BOOLEAN
  BY DEF TypesOK, HandleEnter
<1>3. owner' \in Owners
  BY DEF TypesOK, HandleEnter, Requested, Fault, Owners, OwnersOf, Runtimes
<1>4. safe' \in Safes
  BY DEF TypesOK, HandleEnter, Safes
<1>5. signal' \in BOOLEAN
  BY DEF TypesOK, HandleEnter
<1>6. command' \in {"none", "pending", "sent"}
  BY DEF TypesOK, HandleEnter
<1>7. faults' \in 0..MaxFaults
  BY DEF TypesOK, HandleEnter, Requested, Fault
<1>8. TypesOK'
  BY <1>1, <1>2, <1>3, <1>4, <1>5, <1>6, <1>7 DEF TypesOK, latches, HandleEnter
<1>9. NotBegun'
  BY DEF NotBegun, HandleEnter
<1>10. FlightBootsAgain'
  BY DEF FlightBootsAgain, HandleEnter, latches
<1>11. SleepsMarked'
  BY DEF SleepsMarked, NotBegun, NoneReady, ExitGoesOn, Leaves, AnswersExit, Owners,
     OwnersOf, HandleEnter, Requested, Owning, Awake, Fault, TypesOK, latches, entry,
     wires, bounds
<1>12. (ExitGoesOn /\ NoneReady)'
  BY DEF ExitGoesOn, NoneReady, Leaves, AnswersExit, HandleEnter
<1> QED BY <1>8, <1>9, <1>10, <1>11, <1>12

LEMMA HandleControlStep ==
  ASSUME IInv, HandleControl
  PROVE  IInv'
<1> USE DEF IInv
<1>1. requests' \in Seq(Requests) /\ Len(requests') <= RequestQueue
  BY DEF TypesOK, HandleControl
<1>2. statuses' \in Seq(Answers) /\ Len(statuses') <= StatusQueue
  <2>1. PICK length \in 0..LogLength + 1 :
          statuses' = Offered(statuses, StatusQueue,
                        [opcode |-> Head(requests).opcode, id |-> Head(requests).id,
                         status |-> AnswerTo(Head(requests), length).status])
    BY DEF HandleControl
  <2>2. Head(requests) \in Controls
    BY DEF TypesOK, HandleControl, Requests
  <2>3. AnswerTo(Head(requests), length).status \in Statuses
    BY <2>2, AnswerType DEF TypesOK
  <2>4. [opcode |-> Head(requests).opcode, id |-> Head(requests).id,
         status |-> AnswerTo(Head(requests), length).status] \in Answers
    BY <2>2, <2>3 DEF Controls, Answers, Ids
  <2> QED BY <2>1, <2>4, OfferedType DEF TypesOK
<1>3. owner' \in Owners
  <2>1. Head(requests) \in Controls
    BY DEF TypesOK, HandleControl, Requests
  <2>2. PICK length \in 0..LogLength + 1 :
          owner' = [owner EXCEPT !.dump = AnswerTo(Head(requests), length).dump]
    BY DEF HandleControl
  <2>3. AnswerTo(Head(requests), length).dump \in Dumps
    BY <2>1, AnswerType DEF TypesOK
  <2> QED BY <2>2, <2>3 DEF TypesOK, Owners, OwnersOf
<1>4. TypesOK'
  BY <1>1, <1>2, <1>3 DEF TypesOK, latches, entry, bounds, HandleControl
<1>5. NotBegun'
  BY DEF NotBegun, HandleControl, entry
<1>6. NoneReady'
  <2> SUFFICES ASSUME board = "flight"
               PROVE  \A i \in 1..Len(statuses') : statuses'[i].status # "ready"
    BY DEF NoneReady, HandleControl
  <2>1. PICK length \in 0..LogLength + 1 :
          statuses' = Offered(statuses, StatusQueue,
                        [opcode |-> Head(requests).opcode, id |-> Head(requests).id,
                         status |-> AnswerTo(Head(requests), length).status])
    BY DEF HandleControl
  <2>2. Head(requests) \in Controls
    BY DEF TypesOK, HandleControl, Requests
  <2>3. AnswerTo(Head(requests), length).status # "ready"
    BY <2>2, AnswerType DEF TypesOK
  <2> QED BY <2>1, <2>3 DEF TypesOK, NoneReady, Offered
<1>7. SleepsMarked'
  BY DEF SleepsMarked, HandleControl, latches
<1>8. (ExitGoesOn /\ FlightBootsAgain)'
  BY DEF ExitGoesOn, FlightBootsAgain, Leaves, AnswersExit, HandleControl, latches,
     entry
<1> QED BY <1>4, <1>5, <1>6, <1>7, <1>8

LEMMA DumpStep ==
  ASSUME IInv, Dump
  PROVE  IInv'
<1> USE DEF IInv
<1>1. owner' \in Owners
  <2>1. NoDump \in Dumps /\ owner.dump \in Dumps
    BY DEF TypesOK, Owners, OwnersOf, NoDump, Dumps, Ids
  <2>2. owner.dump.left > 1 => [owner.dump EXCEPT !.left = @ - 1] \in Dumps
    BY <2>1 DEF Dumps
  <2>3. \A d \in Dumps : [owner EXCEPT !.dump = d] \in Owners
    BY DEF TypesOK, Owners, OwnersOf
  <2> QED BY <2>1, <2>2, <2>3 DEF Dump
<1>2. statuses' \in Seq(Answers) /\ Len(statuses') <= StatusQueue
  <2>1. owner.dump.id \in Ids
    BY DEF TypesOK, Owners, OwnersOf, Dumps
  <2>2. \A s \in {"complete", "io_error"} :
          [opcode |-> "start", id |-> owner.dump.id, status |-> s] \in Answers
    BY <2>1 DEF Answers, Statuses
  <2>3. \A s \in {"complete", "io_error"} :
          Ended(s) \in Seq(Answers) /\ Len(Ended(s)) <= StatusQueue
    BY <2>2, OfferedType DEF TypesOK, Ended
  <2> QED BY <2>3 DEF TypesOK, Dump
<1>3. faults' \in 0..MaxFaults
  BY DEF TypesOK, Dump, Fault
<1>4. TypesOK'
  BY <1>1, <1>2, <1>3 DEF TypesOK, latches, entry, Dump
<1>5. NotBegun'
  BY DEF NotBegun, Owners, OwnersOf, Dump, NoDump, TypesOK, latches, entry
<1>6. NoneReady'
  <2>1. CASE statuses' = statuses
    BY <2>1 DEF NoneReady, Dump
  <2>2. CASE statuses' = Ended("complete")
    BY <2>2 DEF NoneReady, Dump, Ended, Offered
  <2>3. CASE statuses' = Ended("io_error")
    BY <2>3 DEF NoneReady, Dump, Ended, Offered
  <2> QED BY <2>1, <2>2, <2>3 DEF Dump
<1>7. SleepsMarked'
  BY DEF SleepsMarked, Owners, OwnersOf, Dump, TypesOK, latches
<1>8. (ExitGoesOn /\ FlightBootsAgain)'
  BY DEF ExitGoesOn, FlightBootsAgain, Leaves, AnswersExit, Dump, latches, entry
<1> QED BY <1>4, <1>5, <1>6, <1>7, <1>8

LEMMA FlushFlashStep ==
  ASSUME IInv, FlushFlash
  PROVE  IInv'
<1> USE DEF IInv
<1>1. owner' \in Owners
  BY DEF TypesOK, FlushFlash, Owners, OwnersOf, Runtimes
<1>2. safe' \in Safes
  BY DEF TypesOK, FlushFlash, Safes
<1>3. TypesOK'
  BY <1>1, <1>2 DEF TypesOK, latches, wires, bounds, FlushFlash
<1>4. NotBegun'
  BY DEF NotBegun, FlushFlash
<1>5. SleepsMarked'
  BY DEF SleepsMarked, FlushFlash, latches
<1>6. (ExitGoesOn /\ NoneReady /\ FlightBootsAgain)'
  BY DEF ExitGoesOn, NoneReady, FlightBootsAgain, Leaves, AnswersExit, FlushFlash,
     latches, wires
<1> QED BY <1>3, <1>4, <1>5, <1>6

LEMMA LatchEntryStep ==
  ASSUME IInv, LatchEntry
  PROVE  IInv'
<1> USE DEF IInv
<1>1. nvs' \in {"active", "inactive"}
  BY DEF TypesOK, LatchEntry, EnsureActive, Fault
<1>2. owner' \in Owners
  BY DEF TypesOK, LatchEntry, EnsureActive, Fault, Owners, OwnersOf, Runtimes
<1>3. faults' \in 0..MaxFaults
  BY DEF TypesOK, LatchEntry, EnsureActive, Fault
<1>4. TypesOK'
  BY <1>1, <1>2, <1>3 DEF TypesOK, entry, wires, LatchEntry
<1>5. NotBegun'
  BY DEF NotBegun, LatchEntry, entry
<1>6. FlightBootsAgain'
  BY DEF FlightBootsAgain, NotBegun, LatchEntry, entry
<1>7. SleepsMarked'
  BY DEF SleepsMarked, LatchEntry
<1>8. (ExitGoesOn /\ NoneReady)'
  BY DEF ExitGoesOn, NoneReady, Leaves, AnswersExit, LatchEntry, wires
<1> QED BY <1>4, <1>5, <1>6, <1>7, <1>8

LEMMA MarkEntryStep ==
  ASSUME IInv, MarkEntry
  PROVE  IInv'
<1> USE DEF IInv
<1>1. marker' \in BOOLEAN
  BY DEF TypesOK, MarkEntry
<1>2. owner' \in Owners
  BY DEF TypesOK, MarkEntry, SafeAndFlushed, Owners, OwnersOf, Runtimes
<1>3. command' \in {"none", "pending", "sent"}
  BY DEF TypesOK, MarkEntry
<1>4. TypesOK'
  BY <1>1, <1>2, <1>3 DEF TypesOK, wires, bounds, MarkEntry
<1>5. NotBegun'
  BY DEF NotBegun, MarkEntry
<1>6. FlightBootsAgain'
  BY DEF FlightBootsAgain, NotBegun, MarkEntry
<1>7. SleepsMarked'
  BY DEF SleepsMarked, MarkEntry
<1>8. (ExitGoesOn /\ NoneReady)'
  BY DEF ExitGoesOn, NoneReady, Leaves, AnswersExit, MarkEntry, wires
<1> QED BY <1>4, <1>5, <1>6, <1>7, <1>8

LEMMA WindowEndsStep ==
  ASSUME IInv, WindowEnds
  PROVE  IInv'
<1> USE DEF IInv
<1>1. owner' \in Owners
  BY DEF TypesOK, WindowEnds, Owners, OwnersOf, Runtimes
<1>2. TypesOK'
  BY <1>1 DEF TypesOK, latches, entry, wires, bounds, WindowEnds
<1>3. NotBegun'
  BY DEF NotBegun, WindowEnds, entry
<1>4. SleepsMarked'
  BY DEF SleepsMarked, WindowEnds, latches
<1>5. (ExitGoesOn /\ NoneReady /\ FlightBootsAgain)'
  BY DEF ExitGoesOn, NoneReady, FlightBootsAgain, Leaves, AnswersExit, WindowEnds,
     latches, entry, wires
<1> QED BY <1>2, <1>3, <1>4, <1>5

LEMMA LatchSleepStep ==
  ASSUME IInv, LatchSleep
  PROVE  IInv'
<1> USE DEF IInv
<1>1. nvs' \in {"active", "inactive"}
  BY DEF LatchSleep, EnsureActive
<1>2. owner' \in Owners
  BY DEF TypesOK, LatchSleep, EnsureActive, MayEnterDeepSleep, Fault, Owners, OwnersOf,
     Runtimes
<1>3. faults' \in 0..MaxFaults
  BY DEF TypesOK, LatchSleep, EnsureActive, Fault
<1>4. TypesOK'
  BY <1>1, <1>2, <1>3 DEF TypesOK, entry, wires, LatchSleep
<1>5. NotBegun'
  BY DEF NotBegun, LatchSleep, MayEnterDeepSleep, entry
<1>6. FlightBootsAgain'
  BY DEF FlightBootsAgain, LatchSleep, entry
<1>7. SleepsMarked'
  BY DEF SleepsMarked, LatchSleep
<1>8. (ExitGoesOn /\ NoneReady)'
  BY DEF ExitGoesOn, NoneReady, Leaves, AnswersExit, LatchSleep, wires
<1> QED BY <1>4, <1>5, <1>6, <1>7, <1>8

LEMMA SleepStep ==
  ASSUME IInv, Sleep
  PROVE  IInv'
<1> USE DEF IInv
<1>1. marker' \in BOOLEAN
  BY DEF TypesOK, Sleep
<1>2. board' \in {"flight", "recovery", "asleep"}
  BY DEF TypesOK, Sleep
<1>3. TypesOK'
  BY <1>1, <1>2 DEF TypesOK, entry, wires, bounds, Sleep
<1>4. NotBegun'
  BY DEF NotBegun, Sleep
<1>5. NoneReady'
  BY DEF NoneReady, Sleep
<1>6. FlightBootsAgain'
  BY DEF FlightBootsAgain, Sleep
<1>7. SleepsMarked'
  BY DEF SleepsMarked, Sleep
<1>8. ExitGoesOn'
  BY DEF ExitGoesOn, Leaves, AnswersExit, Sleep, wires
<1> QED BY <1>3, <1>4, <1>5, <1>6, <1>7, <1>8

LEMMA ReceiveStep ==
  ASSUME IInv, Receive
  PROVE  IInv'
<1> USE DEF IInv
<1>1. controls' \in 0..MaxControls
  BY DEF TypesOK, Receive
<1>2. exit' \in Exits
  <2>1. PICK c \in Controls, leaves \in BOOLEAN, valid \in BOOLEAN :
          exit' = IF leaves THEN Armed(c.id, valid) ELSE exit
    BY DEF Receive
  <2>2. Armed(c.id, valid) \in Exits
    BY DEF Armed, Controls, Exits, Ids
  <2> QED BY <2>1, <2>2 DEF TypesOK
<1>3. requests' \in Seq(Requests) /\ Len(requests') <= RequestQueue
  <2>1. PICK c \in Controls : requests' = Offered(requests, RequestQueue, c)
    BY DEF Receive
  <2> QED BY <2>1, OfferedType DEF TypesOK, Requests
<1>4. statuses' \in Seq(Answers) /\ Len(statuses') <= StatusQueue
  <2>1. PICK c \in Controls :
          \/ UNCHANGED statuses
          \/ statuses' = Offered(statuses, StatusQueue,
                          [opcode |-> c.opcode, id |-> c.id, status |-> "busy"])
    BY DEF Receive
  <2>2. [opcode |-> c.opcode, id |-> c.id, status |-> "busy"] \in Answers
    BY DEF Controls, Answers, Ids, Statuses
  <2> QED BY <2>1, <2>2, OfferedType DEF TypesOK
<1>5. TypesOK'
  BY <1>1, <1>2, <1>3, <1>4 DEF TypesOK, latches, entry, Receive
<1>6. ExitGoesOn'
  BY DEF ExitGoesOn, Receive, CanIdle
<1>7. NoneReady'
  BY DEF NoneReady, Receive, Offered
<1>8. (NotBegun /\ FlightBootsAgain /\ SleepsMarked)'
  BY DEF NotBegun, FlightBootsAgain, SleepsMarked, Receive, latches, entry
<1> QED BY <1>5, <1>6, <1>7, <1>8

LEMMA TakeStatusStep ==
  ASSUME IInv, TakeStatus
  PROVE  IInv'
<1> USE DEF IInv
<1>1. statuses' \in Seq(Answers) /\ Len(statuses') <= StatusQueue
  BY DEF TypesOK, TakeStatus, Offered
<1>2. can' \in CanStates
  <2>1. Head(statuses) \in Answers
    BY DEF TypesOK, TakeStatus
  <2> QED BY <2>1 DEF TypesOK, TakeStatus, CanStates
<1>3. TypesOK'
  BY <1>1, <1>2 DEF TypesOK, latches, entry, bounds, TakeStatus
<1>4. ExitGoesOn'
  BY DEF ExitGoesOn, TakeStatus, CanIdle
<1>5. NoneReady'
  <2>1. can'.status = Head(statuses) /\ statuses' = Tail(statuses) /\ statuses # <<>>
    BY DEF TypesOK, TakeStatus, CanStates
  <2>2. board = "flight" => \A i \in 1..Len(statuses') : statuses'[i].status # "ready"
    BY <2>1 DEF TypesOK, NoneReady
  <2>3. board = "flight" => Head(statuses).status # "ready"
    BY <2>1 DEF TypesOK, NoneReady
  <2> QED BY <2>1, <2>2, <2>3 DEF NoneReady, TakeStatus
<1>6. (NotBegun /\ FlightBootsAgain /\ SleepsMarked)'
  BY DEF NotBegun, FlightBootsAgain, SleepsMarked, TakeStatus, latches, entry
<1> QED BY <1>3, <1>4, <1>5, <1>6

LEMMA EraseLatchStep ==
  ASSUME IInv, EraseLatch
  PROVE  IInv'
<1> USE DEF IInv
<1>1. nvs' \in {"active", "inactive"}
  BY DEF TypesOK, EraseLatch
<1>2. can' \in CanStates
  BY DEF TypesOK, EraseLatch, CanStates
<1>3. TypesOK'
  BY <1>1, <1>2 DEF TypesOK, entry, bounds, EraseLatch
<1>4. ExitGoesOn'
  BY DEF ExitGoesOn, Leaves, AnswersExit, EraseLatch
<1>5. NoneReady'
  BY DEF NoneReady, EraseLatch
<1>6. FlightBootsAgain'
  BY DEF FlightBootsAgain, EraseLatch, entry
<1>7. (NotBegun /\ SleepsMarked)'
  BY DEF NotBegun, SleepsMarked, EraseLatch, entry
<1> QED BY <1>3, <1>4, <1>5, <1>6, <1>7

LEMMA ClearMarkerStep ==
  ASSUME IInv, ClearMarker
  PROVE  IInv'
<1> USE DEF IInv
<1>1. marker' \in BOOLEAN
  BY DEF TypesOK, ClearMarker
<1>2. exit' \in Exits
  BY DEF TypesOK, ClearMarker, Exits
<1>3. can' \in CanStates
  BY DEF TypesOK, ClearMarker, CanStates
<1>4. TypesOK'
  BY <1>1, <1>2, <1>3 DEF TypesOK, entry, bounds, ClearMarker
<1>5. ExitGoesOn'
  BY DEF ExitGoesOn, ClearMarker
<1>6. NoneReady'
  BY DEF NoneReady, ClearMarker
<1>7. FlightBootsAgain'
  BY DEF FlightBootsAgain, ClearMarker, entry
<1>8. SleepsMarked'
  BY DEF SleepsMarked, NoneReady, ExitGoesOn, Leaves, ClearMarker
<1>9. NotBegun'
  BY DEF NotBegun, ClearMarker, entry
<1> QED BY <1>4, <1>5, <1>6, <1>7, <1>8, <1>9

LEMMA SendStatusStep ==
  ASSUME IInv, SendStatus
  PROVE  IInv'
<1> USE DEF IInv
<1>1. can' \in CanStates
  BY DEF TypesOK, SendStatus, CanStates
<1>2. exit' \in Exits
  <2>1. NoExit \in Exits
    BY DEF NoExit, Exits, Ids
  <2> QED BY <2>1 DEF TypesOK, SendStatus, Cleared
<1>3. faults' \in 0..MaxFaults
  BY DEF TypesOK, SendStatus, Fault
<1>4. TypesOK'
  BY <1>1, <1>2, <1>3 DEF TypesOK, latches, entry, SendStatus
<1>5. ExitGoesOn'
  BY DEF ExitGoesOn, SendStatus, CanIdle
<1>6. NoneReady'
  BY DEF NoneReady, SendStatus, NoStatus
<1>7. (NotBegun /\ FlightBootsAgain /\ SleepsMarked)'
  BY DEF NotBegun, FlightBootsAgain, SleepsMarked, SendStatus, latches, entry
<1> QED BY <1>4, <1>5, <1>6, <1>7

LEMMA SendCompleteStep ==
  ASSUME IInv, SendComplete
  PROVE  IInv'
<1> USE DEF IInv
<1>1. PICK read \in {"active", "inactive", "unreadable"} : Boot(FALSE, read)
  BY DEF TypesOK, SendComplete
<1>2. marker' \in BOOLEAN
  BY DEF TypesOK, latches, SendComplete
<1>3. PICK mode \in {"flight", "recovery"}, valid \in BOOLEAN : Booted(mode, valid)
  BY <1>1, <1>2 DEF Boot
<1>4. flight' \in {"before", "cutoff", "due"}
  BY DEF TypesOK, SendComplete
<1>5. TypesOK'
  BY <1>2, <1>3, <1>4, BootedTypes DEF TypesOK, latches, bounds, SendComplete
<1>6. ExitGoesOn'
  BY DEF ExitGoesOn, SendComplete, Boot, Booted
<1>7. NotBegun'
  BY DEF NotBegun, SendComplete, Boot, Booted, Woken
<1>8. NoneReady'
  BY DEF NoneReady, SendComplete, Boot, Booted, NoStatus
<1>9. FlightBootsAgain'
  BY DEF FlightBootsAgain, SendComplete, Boot, Booted
<1>10. SleepsMarked'
  BY DEF SleepsMarked, SendComplete, Boot, Booted, Woken
<1> QED BY <1>5, <1>6, <1>7, <1>8, <1>9, <1>10

LEMMA SendModeStep ==
  ASSUME IInv, SendMode
  PROVE  IInv'
<1> USE DEF IInv
<1>1. nvs' \in {"active", "inactive"}
  BY DEF TypesOK, SendMode, EnsureActive, Fault
<1>2. command' \in {"none", "pending", "sent"}
  BY DEF TypesOK, SendMode
<1>3. faults' \in 0..MaxFaults
  BY DEF TypesOK, SendMode, EnsureActive, Fault
<1>4. TypesOK'
  BY <1>1, <1>2, <1>3 DEF TypesOK, wires, SendMode
<1>5. NotBegun'
  BY DEF NotBegun, SendMode
<1>6. FlightBootsAgain'
  BY DEF FlightBootsAgain, NotBegun, SendMode
<1>7. (ExitGoesOn /\ NoneReady /\ SleepsMarked)'
  BY DEF ExitGoesOn, NoneReady, SleepsMarked, Leaves, AnswersExit, SendMode, wires
<1> QED BY <1>4, <1>5, <1>6, <1>7

LEMMA InitIInv == Init => IInv
<1> SUFFICES ASSUME Init PROVE IInv
  OBVIOUS
<1>1. owner \in Owners /\ safe \in Safes /\ can \in CanStates
  BY NoDumpType DEF Init, Owners, OwnersOf, Runtimes, Safes, CanStates
<1>2. exit \in Exits
  BY DEF Init, Exits, NoExit, Ids
<1>3. requests = <<>> /\ statuses = <<>>
  BY DEF Init
<1>4. TypesOK
  <2>1. /\ requests \in Seq(Requests) /\ Len(requests) <= RequestQueue
        /\ statuses \in Seq(Answers) /\ Len(statuses) <= StatusQueue
    BY <1>3
  <2>2. controls \in 0..MaxControls /\ faults \in 0..MaxFaults
    BY DEF Init
  <2>3. /\ marker \in BOOLEAN /\ wake \in BOOLEAN /\ auto \in BOOLEAN
        /\ requested \in BOOLEAN /\ signal \in BOOLEAN
    BY DEF Init
  <2>4. /\ nvs \in {"active", "inactive"} /\ board \in {"flight", "recovery", "asleep"}
        /\ flight \in {"before", "cutoff", "due"}
        /\ command \in {"none", "pending", "sent"}
    BY DEF Init
  <2> QED BY <1>1, <1>2, <2>1, <2>2, <2>3, <2>4, Zenon DEF TypesOK
<1>5. ExitGoesOn /\ NotBegun /\ NoneReady /\ FlightBootsAgain /\ SleepsMarked
  BY <1>3 DEF Init, NoStatus, ExitGoesOn, NotBegun, NoneReady, FlightBootsAgain,
     SleepsMarked
<1> QED BY <1>4, <1>5 DEF IInv

LEMMA NextIInv == IInv /\ [Next]_vars => IInv'
<1> SUFFICES ASSUME IInv, [Next]_vars
             PROVE  IInv'
  OBVIOUS
<1>1. CASE Reset \/ Wake \/ SendComplete
  BY <1>1, ResetStep, WakeStep, SendCompleteStep
<1>2. CASE Fly \/ AutoEnter \/ GroundEnter \/ SafePower \/ Coast \/ FlushSd
  BY <1>2, FlyStep, AutoEnterStep, GroundEnterStep, MakeSafeStep, FlushSdStep
     DEF SafePower, Coast
<1>3. CASE HandleEnter \/ HandleControl \/ Dump \/ FlushFlash
  BY <1>3, HandleEnterStep, HandleControlStep, DumpStep, FlushFlashStep
<1>4. CASE LatchEntry \/ MarkEntry \/ WindowEnds \/ LatchSleep \/ Sleep
  BY <1>4, LatchEntryStep, MarkEntryStep, WindowEndsStep, LatchSleepStep, SleepStep
<1>5. CASE Receive \/ TakeStatus \/ EraseLatch \/ ClearMarker \/ SendStatus \/ SendMode
  BY <1>5, ReceiveStep, TakeStatusStep, EraseLatchStep, ClearMarkerStep, SendStatusStep,
     SendModeStep
<1>6. CASE UNCHANGED vars
  BY <1>6 DEF vars, latches, entry, wires, bounds, IInv, TypesOK, ExitGoesOn, NotBegun,
     NoneReady, FlightBootsAgain, SleepsMarked, Leaves, AnswersExit
<1> QED BY <1>1, <1>2, <1>3, <1>4, <1>5, <1>6 DEF Next

LEMMA IInvHolds == Spec => []IInv
BY InitIInv, NextIInv, PTL DEF Spec

-----------------------------------------------------------------------------
\* The latch in NVS and the marker in RTC memory are what the board was doing at
\* every instant, also between the two writes of internalFlashTask or of canTask: a
\* flight whose Recovery was not requested boots into the flight again (app_main),
\* and one whose entry is done sleeps with its marker (enterPeriodicDeepSleep).
THEOREM EvidenceTheorem == Spec => []EvidenceIsTrue
<1>1. IInv => EvidenceIsTrue
  BY DEF IInv, TypesOK, ExitGoesOn, RecoveryTypeOK, CanStates, Owners, OwnersOf,
     Runtimes, Dumps, Ids, Safes, Exits, Requests, Answers, EvidenceIsTrue
<1> QED BY <1>1, IInvHolds, PTL

=============================================================================
