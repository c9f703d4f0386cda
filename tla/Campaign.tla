------------------------------ MODULE Campaign ------------------------------
(***************************************************************************)
(* The motor characterization campaign: what an operator at the serial     *)
(* console may ask for, in which order, and across which power cycles      *)
(* (characterization/campaign_state_machine, profile_runner's guards and   *)
(* characterization_main).                                                 *)
(*                                                                         *)
(* The campaign visits four assemblies of the fin.  In each of them a rate *)
(* check must be accepted before the full profile may drive the motor.     *)
(* Before the last one, M0, the fin comes off: the three others must be    *)
(* done, a handoff is kept in NVS, and the board must have been without    *)
(* any power in between, which a cookie in RTC memory disproves.           *)
(*                                                                         *)
(* char_console and char_runtime share core 0; char_runtime has the higher *)
(* priority, so a command is one step as far as it does not wait.  Zero    *)
(* captures and runs wait, and a stop may come at any time.                *)
(***************************************************************************)
EXTENDS Integers

CONSTANTS
    Sessions,   \* number of sessions an operator begins (a bound)
    Resets,     \* number of resets (a bound)
    Failures    \* number of NVS operations that fail (a bound)

ASSUME CampaignAssumption ==
    /\ Sessions \in Nat /\ Resets \in Nat /\ Failures \in Nat

\* AssemblyStage: 0 is None, 1 to 3 are FV, FHPositive and FHNegative.
NoStage == 0
M0      == 4

VARIABLES
    campaign,   \* CampaignStateMachine; its state, stage, runs and session
    runner,     \* ProfileRunner: busy_, stop_requested_, armed_, the zeros; the motor
    work,       \* the request the worker has, and how far it is
    console,    \* what the console is doing: idle, waiting, or in requestStop
    handoff,    \* handoff_present_ and handoff_result_ = ESP_OK
    nvs,        \* the handoff in NVS: a session and its mask
    past        \* what happened (history)

vars == <<campaign, runner, work, console, handoff, nvs, past>>

Rates     == {1000, 5000}  \* 2000 is refused like 5000
NoHandoff == [session |-> 0, mask |-> {}]
NoWork    == [kind |-> "None", pc |-> "none", rate |-> 0, ref |-> 0]

-----------------------------------------------------------------------------
\* CampaignStateMachine: each method leaves the campaign as it is when it
\* refuses.  The slots of the two rates of old logs are always Unsupported.

Fresh == [state |-> "Idle", stage |-> NoStage, session |-> 0, mask |-> {},
          rate |-> "Pending", full |-> FALSE, run |-> NoWork]

MutResetStageRuns(c) == [c EXCEPT !.full = FALSE, !.run = NoWork]
ResetStageRuns(c) == [c EXCEPT !.rate = "Pending", !.full = FALSE, !.run = NoWork]

StartNewSession(c, s) ==
    IF c.state # "Idle" THEN c
    ELSE ResetStageRuns([c EXCEPT !.session = s, !.mask = {}, !.stage = 1,
                                  !.state = "AwaitingStageConfirmation"])

ConfirmStage(c, stage) ==
    IF c.state # "AwaitingStageConfirmation" \/ stage # c.stage \/ stage = M0 THEN c
    ELSE [c EXCEPT !.state = "Ready"]

\* A run of an old rate may begin, as a rate check only: the sampler refuses it.
BeginsRun(c, rate, kind) ==
    /\ c.state = "Ready"
    /\ IF rate = 1000 THEN c.rate = (IF kind = "Full" THEN "Accepted" ELSE "Pending")
                      ELSE kind = "RateCheck"
BeginRun(c, w) == [c EXCEPT !.state = "Running", !.run = w]

FinishRun(c, outcome) ==
    LET accepted == outcome = "Accepted" /\ c.run.rate = 1000 IN
    [c EXCEPT !.state = "Ready", !.run = NoWork,
              !.rate = IF accepted /\ c.run.kind = "RateCheck" THEN "Accepted" ELSE @,
              !.full = @ \/ (accepted /\ c.run.kind = "Full")]

StageIsDone(c) == c.state = "Ready" /\ c.rate # "Pending" /\ c.full

CompleteStage(c) ==
    LET marked == [c EXCEPT !.mask = @ \union {c.stage}] IN
    IF ~StageIsDone(c) THEN c
    ELSE CASE c.stage \in {1, 2} ->
                ResetStageRuns([marked EXCEPT !.stage = @ + 1,
                                              !.state = "AwaitingStageConfirmation"])
           [] c.stage = 3  -> [marked EXCEPT !.state = "AwaitingM0Handoff"]
           [] c.stage = M0 -> [marked EXCEPT !.state = "Completed"]

PreparesM0(c) == c.state = "AwaitingM0Handoff" /\ c.stage = 3

ValidateHandoff(h) == h.session # 0 /\ {1, 2, 3} \subseteq h.mask

\* At boot: only a reset that is a power-on, and that the cookie did not
\* survive, goes on with the session of the handoff.
MutResumeAtBoot(c, h, powerOn, cookie) ==
    IF c.state # "Idle" \/ ~ValidateHandoff(h) \/ ~powerOn THEN c
    ELSE ResetStageRuns([c EXCEPT !.session = h.session, !.mask = h.mask,
                                  !.stage = M0, !.state = "AwaitingM0Confirmation"])
ResumeAtBoot(c, h, powerOn, cookie) ==
    IF c.state # "Idle" \/ ~ValidateHandoff(h) \/ ~powerOn \/ cookie THEN c
    ELSE ResetStageRuns([c EXCEPT !.session = h.session, !.mask = h.mask,
                                  !.stage = M0, !.state = "AwaitingM0Confirmation"])

ResumeM0(c, s, finRemoved) ==
    IF c.state # "AwaitingM0Confirmation" \/ s # c.session \/ ~finRemoved THEN c
    ELSE [c EXCEPT !.state = "Ready"]

CanArmMotor(c) == c.state = "Ready" /\ c.stage # NoStage

-----------------------------------------------------------------------------

Off == [busy |-> FALSE, stop |-> FALSE, armed |-> FALSE, zeros |-> {}, drives |-> FALSE]

Init ==
    /\ campaign = Fresh
    /\ runner   = Off
    /\ work     = NoWork
    /\ console  = "idle"
    /\ handoff  = [present |-> FALSE, ok |-> TRUE]
    /\ nvs      = NoHandoff
    /\ past     = [begun |-> 0, resets |-> 0, failures |-> 0,
                   done |-> {}, off |-> {}, checked |-> {}, stopped |-> FALSE]

Idle    == console = "idle" /\ work.pc = "none"
Ids     == 0..past.begun
Zero(c) == IF c.stage = M0 THEN "M0" ELSE "Common"
MutDisarm(r) == [r EXCEPT !.drives = FALSE]
Disarm(r) == [r EXCEPT !.armed = FALSE, !.drives = FALSE]

NvsFails == past.failures < Failures /\ past' = [past EXCEPT !.failures = @ + 1]

-----------------------------------------------------------------------------
\* Commands the console waits for: submit, execute and the answer.

MayBegin == ~handoff.present /\ handoff.ok /\ campaign.state = "Idle"

NewSession ==
    /\ Idle /\ past.begun < Sessions /\ MayBegin
    /\ campaign' = StartNewSession(campaign, past.begun + 1)
    /\ past'     = [past EXCEPT !.begun = @ + 1]
    /\ UNCHANGED <<runner, work, console, handoff, nvs>>

DoConfirmStage ==
    /\ Idle
    /\ \E stage \in 1..3 : campaign' = ConfirmStage(campaign, stage)
    /\ UNCHANGED <<runner, work, console, handoff, nvs, past>>

\* arm: of this session, for the zero reference of this assembly.
Arm ==
    /\ Idle
    /\ \E s \in Ids : s = campaign.session
    /\ ~runner.busy /\ CanArmMotor(campaign)
    /\ Zero(campaign) \in runner.zeros /\ ~runner.armed
    /\ runner' = [runner EXCEPT !.armed = TRUE]
    /\ past'   = [past EXCEPT !.stopped = FALSE]
    /\ UNCHANGED <<campaign, work, console, handoff, nvs>>

\* complete-stage disarms, whether it then completes the stage or not.  For M0
\* the handoff is erased first; an erase that fails completes nothing, though it
\* may have reached the flash.
ErasesFirst == campaign.stage = M0 /\ StageIsDone(campaign) /\ handoff.present

DoCompleteStage ==
    /\ Idle /\ ~ErasesFirst
    /\ runner'   = Disarm(runner)
    /\ campaign' = CompleteStage(campaign)
    /\ past' = [past EXCEPT !.done = IF StageIsDone(campaign)
                                       THEN @ \union {<<campaign.session, campaign.stage>>}
                                       ELSE @]
    /\ UNCHANGED <<work, console, handoff, nvs>>

EraseHandoff ==
    /\ Idle /\ ErasesFirst
    /\ runner'  = Disarm(runner)
    /\ nvs'     = NoHandoff
    /\ handoff' = [present |-> FALSE, ok |-> TRUE]
    /\ work'    = [NoWork EXCEPT !.kind = "CompleteStage", !.pc = "erased"]
    /\ console' = "waiting"
    /\ UNCHANGED <<campaign, past>>

EraseFails ==
    /\ Idle /\ ErasesFirst /\ NvsFails
    /\ runner'  = Disarm(runner)
    /\ handoff' = [handoff EXCEPT !.ok = FALSE]
    /\ \E erased \in BOOLEAN : nvs' = IF erased THEN NoHandoff ELSE nvs
    /\ UNCHANGED <<campaign, work, console>>

CompleteM0 ==
    /\ work.pc = "erased"
    /\ campaign' = CompleteStage(campaign)
    /\ past'     = [past EXCEPT !.done = @ \union {<<campaign.session, M0>>}]
    /\ work'     = NoWork
    /\ console'  = "idle"
    /\ UNCHANGED <<runner, handoff, nvs>>

\* prepare-m0: the state moves before the handoff is persisted; when that
\* fails the campaign is faulted, and the flash may hold the handoff or not.
PrepareM0 ==
    /\ Idle /\ PreparesM0(campaign)
    /\ runner' = Disarm(runner)
    /\ LET h == [session |-> campaign.session, mask |-> campaign.mask] IN
       \/ /\ nvs'      = h
          /\ handoff'  = [present |-> TRUE, ok |-> TRUE]
          /\ campaign' = [campaign EXCEPT !.state = "PowerCycleRequired"]
          /\ UNCHANGED past
       \/ /\ NvsFails
          /\ nvs' \in {nvs, h}
          /\ handoff'  = [handoff EXCEPT !.ok = FALSE]
          /\ campaign' = [campaign EXCEPT !.state = "Faulted"]
    /\ UNCHANGED <<work, console>>

DoResumeM0 ==
    /\ Idle
    /\ \E s \in Ids, finRemoved \in BOOLEAN :
         campaign' = ResumeM0(campaign, s, finRemoved)
    /\ UNCHANGED <<runner, work, console, handoff, nvs, past>>

-----------------------------------------------------------------------------
\* Commands the console does not wait for.

Submit(kind, rate, ref) ==
    /\ Idle
    /\ work' = [kind |-> kind, pc |-> "queued", rate |-> rate, ref |-> ref]
    /\ UNCHANGED <<campaign, runner, console, handoff, nvs, past>>

SubmitZero == \E ref \in {"Common", "M0"} : Submit("Zero", 1000, ref)
SubmitRun  == \E kind \in {"RateCheck", "Full"}, rate \in Rates :
                  Submit(kind, rate, 0)

\* What captureZero, runRateCheck and runFullProfile ask before and after they
\* take busy_; a stop that is already requested is used up by the refusal.
EntryAllows ==
    CASE work.kind = "Zero"      -> ~runner.armed /\ CanArmMotor(campaign)
      [] work.kind = "RateCheck" -> ~runner.armed
      [] work.kind = "Full"      -> runner.armed
      [] OTHER                   -> FALSE
BusyAllows ==
    IF work.kind = "Zero"
      THEN work.ref = Zero(campaign) /\ work.ref \notin runner.zeros
      ELSE BeginsRun(campaign, work.rate, work.kind)

Begin ==
    /\ work.pc = "queued" /\ EntryAllows /\ ~runner.stop /\ BusyAllows
    /\ runner'   = [runner EXCEPT !.busy = TRUE]
    /\ work'     = [work EXCEPT !.pc = "running"]
    /\ campaign' = IF work.kind = "Zero" THEN campaign
                   ELSE BeginRun(campaign, [work EXCEPT !.pc = "running"])
    /\ UNCHANGED <<console, handoff, nvs, past>>

MutRefuse ==
    /\ work.pc = "queued" /\ ~(EntryAllows /\ ~runner.stop /\ BusyAllows)
    /\ work' = [work EXCEPT !.pc = "refused"]
    /\ UNCHANGED <<campaign, runner, console, handoff, nvs, past>>
Refuse ==
    /\ work.pc = "queued" /\ ~(EntryAllows /\ ~runner.stop /\ BusyAllows)
    /\ runner' = IF EntryAllows /\ runner.stop
                   THEN [Disarm(runner) EXCEPT !.stop = FALSE]
                   ELSE runner
    /\ work'   = NoWork
    /\ UNCHANGED <<campaign, console, handoff, nvs, past>>

\* captureZero waits for one valid sample; a stop wins over it.
ZeroEnds ==
    /\ work.kind = "Zero" /\ work.pc = "running"
    /\ \E captured \in BOOLEAN :
         runner' = [runner EXCEPT !.busy = FALSE, !.stop = FALSE,
                       !.zeros = IF captured /\ ~runner.stop THEN @ \union {work.ref}
                                                             ELSE @]
    /\ work' = NoWork
    /\ UNCHANGED <<campaign, console, handoff, nvs, past>>

\* One epoch of a run: the journal drives the motor only while it is armed.
Drive ==
    /\ work.kind = "Full" /\ work.pc = "running" /\ ~runner.stop /\ runner.armed
    /\ runner' = [runner EXCEPT !.drives = TRUE]
    /\ UNCHANGED <<campaign, work, console, handoff, nvs, past>>

\* A stop or an error ends the loop of epochs; the journal is disarmed there.
RunAborts ==
    /\ work.kind \in {"RateCheck", "Full"} /\ work.pc = "running"
    /\ runner' = Disarm(runner)
    /\ work'   = [work EXCEPT !.pc = "aborted"]
    /\ UNCHANGED <<campaign, console, handoff, nvs, past>>

\* The shutdown of a run, and its outcome.  A stop that came too late for the
\* loop stays requested.
RunEnds ==
    /\ work.kind \in {"RateCheck", "Full"} /\ work.pc \in {"running", "aborted"}
    /\ \E outcome \in {"Accepted", "Unsupported", "Failed"} :
         /\ work.pc = "aborted" \/ work.rate # 1000 => outcome = "Failed"
         /\ work.kind = "Full" => outcome # "Unsupported"
         /\ campaign' = FinishRun(campaign, outcome)
         /\ past' = [past EXCEPT !.checked =
                       IF outcome = "Accepted" /\ work.kind = "RateCheck"
                         THEN @ \union {<<campaign.session, campaign.stage>>} ELSE @]
    /\ runner' = [Disarm(runner) EXCEPT !.busy = FALSE]
    /\ work'   = NoWork
    /\ UNCHANGED <<console, handoff, nvs>>

-----------------------------------------------------------------------------
\* stop: it polls until a run is busy, or nothing is active any more.

RequestStop ==
    /\ console = "idle" /\ console' = "stopping"
    /\ UNCHANGED <<campaign, runner, work, handoff, nvs, past>>

SeeBusy ==
    /\ console = "stopping" /\ work.pc # "none" /\ runner.busy
    /\ console' = "seen"
    /\ UNCHANGED <<campaign, runner, work, handoff, nvs, past>>

\* The run may have ended since it was seen busy.
StopRun ==
    /\ console = "seen"
    /\ runner'  = [runner EXCEPT !.stop = TRUE]
    /\ past'    = [past EXCEPT !.stopped = TRUE]
    /\ console' = "idle"
    /\ UNCHANGED <<campaign, work, handoff, nvs>>

StopIdle ==
    /\ console = "stopping" /\ work.pc = "none"
    /\ runner'  = Disarm(runner)
    /\ past'    = [past EXCEPT !.stopped = TRUE]
    /\ console' = "idle"
    /\ UNCHANGED <<campaign, work, handoff, nvs>>

-----------------------------------------------------------------------------
\* A reset.  The cookie is lost only when all power was off; the button and a
\* short loss of power are power-ons that it survives.
ResetKinds == {"PowerOn", "Software", "Panic", "Watchdog", "DeepSleep", "Brownout"}

Loaded(ok) == [present |-> ok /\ nvs # NoHandoff, ok |-> ok]

ConfigureBoot(h, kind, cookie) ==
    IF h.ok /\ h.present THEN ResumeAtBoot(Fresh, nvs, kind = "PowerOn", cookie) ELSE Fresh

\* initialize: nothing is queued or running when the console is let in.
Initialize ==
    /\ runner'  = Off
    /\ work'    = NoWork
    /\ console' = "idle"

Reset ==
    /\ past.resets < Resets
    /\ \E kind \in ResetKinds, cookie, loaded \in BOOLEAN :
         /\ ~cookie => kind = "PowerOn"
         /\ loaded \/ past.failures < Failures
         /\ handoff'  = Loaded(loaded)
         /\ campaign' = ConfigureBoot(Loaded(loaded), kind, cookie)
         /\ past' = [past EXCEPT !.resets = @ + 1, !.checked = {}, !.stopped = FALSE,
                       !.failures = IF loaded THEN @ ELSE @ + 1,
                       !.off = IF cookie \/ nvs = NoHandoff THEN @
                                                            ELSE @ \union {nvs.session}]
    /\ Initialize
    /\ UNCHANGED nvs

-----------------------------------------------------------------------------

Command ==
    \/ NewSession \/ DoConfirmStage \/ Arm \/ DoCompleteStage \/ EraseHandoff
    \/ EraseFails \/ PrepareM0 \/ DoResumeM0 \/ SubmitZero \/ SubmitRun \/ RequestStop

Worker  == CompleteM0 \/ Begin \/ Refuse \/ ZeroEnds \/ Drive \/ RunAborts \/ RunEnds
Console == SeeBusy \/ StopRun \/ StopIdle

Next == Command \/ Worker \/ Console \/ Reset

\* The two tasks go on by themselves; commands and resets come or do not.
Fairness ==
    /\ WF_vars(Begin \/ Refuse \/ ZeroEnds \/ RunEnds \/ CompleteM0)
    /\ WF_vars(Console)

Spec == Init /\ [][Next]_vars /\ Fairness

-----------------------------------------------------------------------------
\* The variables have the values the code gives them; a request and the two
\* flags that stand for it agree.
CampaignTypeOK ==
    /\ campaign.state \in {"Idle", "AwaitingStageConfirmation", "Ready", "Running",
         "AwaitingM0Handoff", "PowerCycleRequired", "AwaitingM0Confirmation",
         "Completed", "Faulted"}
    /\ campaign.stage \in 0..4 /\ campaign.session \in 0..Sessions
    /\ campaign.state = "Running" => work.pc \in {"running", "aborted"}
    /\ runner.busy <=> work.pc \in {"running", "aborted"}
    /\ console \in {"idle", "waiting", "stopping", "seen"}

\* The motor is driven only by a full profile, armed, with the zero reference of
\* the assembly that is mounted, whose rate check was accepted in this assembly,
\* of this session, since the last reset.
DriveIsQualified ==
    runner.drives =>
        /\ runner.armed /\ campaign.state = "Running" /\ campaign.run.kind = "Full"
        /\ Zero(campaign) \in runner.zeros
        /\ <<campaign.session, campaign.stage>> \in past.checked

\* In M0, without the fin, the motor is armed only for a session whose three
\* other assemblies were all completed, and after the board had been without any
\* power since the handoff was kept, whatever fails and resets in between.
M0IsProven ==
    campaign.stage = M0 /\ campaign.state \in {"Ready", "Running", "Completed"} =>
        /\ \A stage \in 1..3 : <<campaign.session, stage>> \in past.done
        /\ campaign.session \in past.off

\* The M0 profile of a session is not driven again once it was completed: the
\* handoff is erased first, so that no reset brings the session back.
CompletedIsFinal ==
    campaign.stage = M0 /\ campaign.state \in {"AwaitingM0Confirmation", "Ready", "Running"} =>
        <<campaign.session, M0>> \notin past.done

\* A campaign that waits for its power cycle does not lose the session: NVS holds
\* it until M0 is completed, and no other session can begin over it.
HandoffIsKept ==
    /\ campaign.state = "PowerCycleRequired" => nvs.session = campaign.session
    /\ nvs # NoHandoff =>
         /\ ValidateHandoff(nvs)
         /\ campaign.state \in {"Idle", "AwaitingM0Confirmation", "Ready", "Running",
                                "PowerCycleRequired", "Faulted"}
         /\ campaign.state \in {"Ready", "Running"} => campaign.session = nvs.session

\* A session goes on over resets and failures as far as it has come and no farther:
\* the handoff in NVS is that of the campaign, and the bare motor is driven last,
\* on the strength of the three other assemblies and of a power cycle, and never
\* again after it was completed (CampaignStateMachine, CharacterizationRuntime).
SessionIsKept == CampaignTypeOK /\ HandoffIsKept /\ M0IsProven /\ CompletedIsFinal

\* After a stop that was answered with CHAR_OK nothing is armed once the request
\* it hit is over, also when the run had just ended by itself: only another arm
\* lets the motor be driven.
StopHolds == past.stopped /\ work.pc \in {"none", "queued"} => ~runner.armed

\* A stop is answered: the console, which waits for a run that is not busy yet,
\* always gets out of its loop.
StopEnds == console \in {"stopping", "seen"} ~> console = "idle"

=============================================================================
