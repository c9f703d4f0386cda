--------------------------- MODULE CampaignProofs ---------------------------
(***************************************************************************)
(* Proofs about the characterization campaign, for every number of         *)
(* sessions, resets and NVS failures, and, in the second half, about one   *)
(* run of it, for every number of epochs, faults and every size of queue.  *)
(*                                                                         *)
(* None of the three invariants of the campaign is inductive.  The motor,  *)
(* the request and the campaign have to agree at every step of the worker, *)
(* the stages have to be entered in their order, and what NVS holds has to *)
(* be the truth about the past, or a reset would go on with a session that *)
(* never was.  IInv says so, one conjunct for each.                        *)
(***************************************************************************)
EXTENDS Campaign, ProfileRun, SequenceTheorems, FiniteSetTheorems, TLAPS

CampaignStates ==
    {"Idle", "AwaitingStageConfirmation", "Ready", "Running",
     "AwaitingM0Handoff", "PowerCycleRequired", "AwaitingM0Confirmation",
     "Completed", "Faulted"}

Kinds == {"None", "CompleteStage", "Zero", "RateCheck", "Full"}
Steps == {"none", "queued", "running", "aborted", "erased"}

\* A zero capture names its reference; the other requests have none.
WorkOf(kinds, refs) ==
    [kind : kinds, pc : Steps, rate : {0, 1000, 5000}, ref : refs]
IsWork(w) ==
    w \in IF w.kind = "Zero" THEN WorkOf({"Zero"}, {"Common", "M0"})
                             ELSE WorkOf(Kinds \ {"Zero"}, {0})
RunWorks == WorkOf({"None", "RateCheck", "Full"}, {0})

Campaigns ==
    [state : CampaignStates, stage : 0..4, session : Nat, mask : SUBSET (1..4),
     rate : {"Pending", "Accepted"}, full : BOOLEAN,
     run : RunWorks]
Runners ==
    [busy : BOOLEAN, stop : BOOLEAN, armed : BOOLEAN,
     zeros : SUBSET {"Common", "M0"}, drives : BOOLEAN]
Pasts ==
    [begun : Nat, resets : Nat, failures : Nat, done : SUBSET (Nat \X (1..4)),
     off : SUBSET Nat, checked : SUBSET (Nat \X (0..4)), stopped : BOOLEAN]

TypesOK ==
    /\ campaign \in Campaigns
    /\ runner \in Runners
    /\ IsWork(work)
    /\ console \in {"idle", "waiting", "stopping", "seen"}
    /\ handoff \in [present : BOOLEAN, ok : BOOLEAN]
    /\ nvs \in [session : Nat, mask : SUBSET (1..4)]
    /\ past \in Pasts /\ past.begun <= Sessions

\* The request of the worker, the run of the campaign and the busy flag agree.
Runs == {"RateCheck", "Full"}
WorkAgrees ==
    /\ runner.busy <=> work.pc \in {"running", "aborted"}
    /\ campaign.state = "Running" <=>
         work.pc \in {"running", "aborted"} /\ work.kind \in Runs
    /\ campaign.state = "Running" =>
         /\ campaign.run.kind = work.kind /\ campaign.run.rate = work.rate
         /\ work.kind = "Full" => campaign.rate = "Accepted"
    /\ work.pc = "none" => work = NoWork
    /\ work.pc \in {"queued", "running"} => work.kind \in {"Zero", "RateCheck", "Full"}
    /\ work.pc = "aborted" => work.kind \in Runs
    /\ console = "waiting" <=> work.pc = "erased"
    /\ work.pc = "erased" =>
         campaign.stage = M0 /\ StageIsDone(campaign) /\ nvs = NoHandoff

\* Armed means: in an assembly whose zero reference is there, with no other
\* request than a full profile.
ArmedIsQualified ==
    /\ runner.drives => runner.armed /\ work.kind = "Full" /\ work.pc = "running"
    /\ runner.armed =>
         /\ campaign.state \in {"Ready", "Running"}
         /\ Zero(campaign) \in runner.zeros
         /\ work.pc \in {"none", "queued", "running"}
         /\ work.pc = "running" => work.kind = "Full"
    /\ runner.armed /\ console = "seen" => work.pc = "running"

\* The states of the campaign and its stages go together, in their order.
StagesInOrder ==
    /\ campaign.state = "Idle" <=> campaign.stage = NoStage
    /\ campaign.state = "AwaitingStageConfirmation" => campaign.stage \in 1..3
    /\ campaign.state \in {"AwaitingM0Handoff", "PowerCycleRequired", "Faulted"} =>
         campaign.stage = 3 /\ 3 \in campaign.mask
    /\ campaign.state \in {"AwaitingM0Confirmation", "Completed"} => campaign.stage = M0
    /\ \A k \in 1..3 : k < campaign.stage => k \in campaign.mask
    /\ campaign.stage # NoStage => campaign.session \in 1..past.begun
    /\ campaign.stage = NoStage => campaign.session = 0

\* What happened is what the campaign and NVS say of it.
PastIsTrue ==
    /\ campaign.rate = "Accepted" => <<campaign.session, campaign.stage>> \in past.checked
    /\ \A k \in 1..3 : k \in campaign.mask => <<campaign.session, k>> \in past.done
    /\ campaign.stage = M0 => campaign.session \in past.off
    /\ campaign.state \notin {"Idle", "Completed"} =>
         <<campaign.session, M0>> \notin past.done
    /\ \A d \in past.done : d[1] \in 1..past.begun
    /\ nvs # NoHandoff =>
         /\ nvs.session \in 1..past.begun
         /\ \A k \in 1..3 : <<nvs.session, k>> \in past.done
         /\ <<nvs.session, M0>> \notin past.done

\* NVS holds a handoff only while nothing else may begin.
NvsIsKept ==
    /\ handoff.ok => (handoff.present <=> nvs # NoHandoff)
    /\ nvs # NoHandoff =>
         /\ {1, 2, 3} \subseteq nvs.mask
         /\ campaign.state \in {"Idle", "AwaitingM0Confirmation", "Ready", "Running",
                                "PowerCycleRequired", "Faulted"}
         /\ campaign.state \in {"AwaitingM0Confirmation", "Ready", "Running"} =>
              campaign.stage = M0 /\ campaign.session = nvs.session /\ handoff.present
    /\ campaign.state = "PowerCycleRequired" => nvs.session = campaign.session

IInv ==
    /\ TypesOK
    /\ WorkAgrees
    /\ ArmedIsQualified
    /\ StagesInOrder
    /\ PastIsTrue
    /\ NvsIsKept
    /\ StopHolds

Rest ==
    WorkAgrees /\ ArmedIsQualified /\ StagesInOrder /\ PastIsTrue /\ NvsIsKept /\ StopHolds

USE CampaignAssumption DEF NoStage, M0, Runs

-----------------------------------------------------------------------------
\* What the methods of CampaignStateMachine and ProfileRunner return.

LEMMA NoWorkType == NoWork \in RunWorks /\ IsWork(NoWork)
BY DEF NoWork, RunWorks, IsWork, WorkOf, Steps, Kinds

\* A request keeps what was asked while it moves on.
LEMMA MovedWork ==
    ASSUME NEW w, IsWork(w), NEW p \in Steps
    PROVE  /\ IsWork([w EXCEPT !.pc = p])
           /\ [w EXCEPT !.pc = p].kind = w.kind
           /\ [w EXCEPT !.pc = p].rate = w.rate
           /\ [w EXCEPT !.pc = p].pc = p
           /\ w.kind \in Runs => [w EXCEPT !.pc = p] \in RunWorks
<1>1. CASE w.kind = "Zero"
  BY <1>1 DEF IsWork, WorkOf
<1>2. CASE w.kind # "Zero"
  BY <1>2 DEF IsWork, WorkOf, RunWorks, Kinds
<1> QED BY <1>1, <1>2

LEMMA ResetType ==
    ASSUME NEW c \in Campaigns
    PROVE  ResetStageRuns(c) \in Campaigns
BY NoWorkType DEF ResetStageRuns, Campaigns

\* A campaign that goes to another stage or state, one field after the other.
LEMMA StageUpdate ==
    ASSUME NEW c \in Campaigns, NEW k \in 0..4
    PROVE  [c EXCEPT !.stage = k] \in Campaigns
BY DEF Campaigns

LEMMA StateUpdate ==
    ASSUME NEW c \in Campaigns, NEW s \in CampaignStates
    PROVE  [c EXCEPT !.state = s] \in Campaigns
BY DEF Campaigns

LEMMA MovedCampaign ==
    ASSUME NEW c \in Campaigns, NEW k \in 0..4, NEW s \in CampaignStates
    PROVE  [c EXCEPT !.stage = k, !.state = s] \in Campaigns
<1> DEFINE d == [c EXCEPT !.stage = k]
<1>1. d \in Campaigns
  BY StageUpdate
<1>2. [d EXCEPT !.state = s] \in Campaigns
  <2> HIDE DEF d
  <2> QED BY <1>1, StateUpdate
<1> QED BY <1>2 DEF d

LEMMA SessionType ==
    ASSUME NEW c \in Campaigns, NEW s \in Nat, NEW m \in SUBSET (1..4), NEW k \in 0..4,
           NEW st \in CampaignStates
    PROVE  [c EXCEPT !.session = s, !.mask = m, !.stage = k, !.state = st] \in Campaigns
<1> DEFINE d == [c EXCEPT !.session = s, !.mask = m]
<1>1. d \in Campaigns
  BY DEF Campaigns
<1>2. [d EXCEPT !.stage = k, !.state = st] \in Campaigns
  <2> HIDE DEF d
  <2> QED BY <1>1, MovedCampaign
<1> QED BY <1>2 DEF d

LEMMA StageType ==
    ASSUME NEW c \in Campaigns, StageIsDone(c) => c.stage # NoStage
    PROVE  CompleteStage(c) \in Campaigns
<1> DEFINE marked == [c EXCEPT !.mask = @ \union {c.stage}]
<1>1. CASE ~StageIsDone(c)
  BY <1>1 DEF CompleteStage
<1>2. CASE StageIsDone(c)
  <2>1. c.stage \in 1..4
    BY <1>2 DEF Campaigns
  <2>2. marked \in Campaigns /\ marked.stage = c.stage
    BY <2>1 DEF Campaigns
  <2> HIDE DEF marked
  <2>3. c.stage \in {1, 2} =>
          [marked EXCEPT !.stage = marked.stage + 1,
                         !.state = "AwaitingStageConfirmation"] \in Campaigns
    <3> SUFFICES ASSUME c.stage \in {1, 2}
                 PROVE  [marked EXCEPT !.stage = marked.stage + 1,
                                       !.state = "AwaitingStageConfirmation"] \in Campaigns
      OBVIOUS
    <3>1. marked.stage + 1 \in 0..4 /\ "AwaitingStageConfirmation" \in CampaignStates
      BY <2>2 DEF CampaignStates
    <3> QED BY <2>2, <3>1, MovedCampaign
  <2>4. /\ [marked EXCEPT !.state = "AwaitingM0Handoff"] \in Campaigns
        /\ [marked EXCEPT !.state = "Completed"] \in Campaigns
    BY <2>2, StateUpdate DEF CampaignStates
  <2>5. CASE c.stage \in {1, 2}
    BY <1>2, <2>3, <2>5, ResetType DEF CompleteStage, marked
  <2>6. CASE c.stage = 3
    BY <1>2, <2>4, <2>6 DEF CompleteStage, marked
  <2>7. CASE c.stage = M0
    BY <1>2, <2>4, <2>7 DEF CompleteStage, marked
  <2> QED BY <2>1, <2>5, <2>6, <2>7
<1> QED BY <1>1, <1>2

\* The outcome of a run, of whatever kind it was.
LEMMA OutcomeType ==
    ASSUME NEW c \in Campaigns, NEW o
    PROVE  FinishRun(c, o) \in Campaigns
<1> DEFINE accepted == o = "Accepted" /\ c.run.rate = 1000
           d == [c EXCEPT !.state = "Ready", !.run = NoWork]
           r == IF accepted /\ c.run.kind = "RateCheck" THEN "Accepted" ELSE c.rate
           f == c.full \/ (accepted /\ c.run.kind = "Full")
<1>1. d \in Campaigns /\ d.rate = c.rate /\ d.full = c.full
  BY NoWorkType DEF Campaigns, CampaignStates
<1>2. r \in {"Pending", "Accepted"} /\ f \in BOOLEAN
  BY DEF Campaigns
<1>3. [d EXCEPT !.rate = r, !.full = f] \in Campaigns
  <2> HIDE DEF d, r, f
  <2> QED BY <1>1, <1>2 DEF Campaigns
<1>4. FinishRun(c, o) = [d EXCEPT !.rate = r, !.full = f]
  BY DEF FinishRun
<1> QED BY <1>3, <1>4

LEMMA DisarmType ==
    ASSUME NEW r \in Runners
    PROVE  /\ Disarm(r) \in Runners
           /\ Disarm(r) = [r EXCEPT !.armed = FALSE, !.drives = FALSE]
BY DEF Disarm, Runners

\* The variables that an action leaves alone keep their type.
LEMMA CampaignTyped ==
    ASSUME TypesOK, campaign' \in Campaigns,
           UNCHANGED <<runner, work, console, handoff, nvs, past>>
    PROVE  TypesOK'
BY DEF TypesOK, IsWork

LEMMA RunnerTyped ==
    ASSUME TypesOK, runner' \in Runners,
           console' \in {"idle", "waiting", "stopping", "seen"},
           past' \in Pasts, past'.begun = past.begun,
           UNCHANGED <<campaign, work, handoff, nvs>>
    PROVE  TypesOK'
BY DEF TypesOK, IsWork

-----------------------------------------------------------------------------
\* Every action preserves the invariant.
LEMMA NewSessionStep ==
    ASSUME IInv, NewSession
    PROVE  IInv'
<1>1. StartNewSession(campaign, past.begun + 1) \in Campaigns
  <2>1. past.begun + 1 \in Nat /\ "AwaitingStageConfirmation" \in CampaignStates
    BY DEF IInv, TypesOK, Pasts, CampaignStates
  <2>2. [campaign EXCEPT !.session = past.begun + 1, !.mask = {}, !.stage = 1,
                         !.state = "AwaitingStageConfirmation"] \in Campaigns
    <3>1. campaign \in Campaigns /\ {} \in SUBSET (1..4) /\ 1 \in 0..4
      BY DEF IInv, TypesOK
    <3> QED BY <2>1, <3>1, SessionType
  <2> QED BY <2>2, ResetType DEF IInv, TypesOK, StartNewSession
<1>2. past' \in Pasts /\ past'.begun <= Sessions
  BY DEF IInv, TypesOK, NewSession, Pasts
<1>3. TypesOK'
  BY <1>1, <1>2 DEF IInv, TypesOK, IsWork, NewSession
<1>4. Rest'
  BY SMTT(20) DEF IInv, TypesOK, Rest, WorkAgrees, ArmedIsQualified,
     StagesInOrder, PastIsTrue, NvsIsKept, StopHolds, Pasts, NewSession,
     StartNewSession, ResetStageRuns, MayBegin
<1> QED BY <1>3, <1>4 DEF IInv, Rest

LEMMA DoConfirmStageStep ==
    ASSUME IInv, DoConfirmStage
    PROVE  IInv'
<1>1. campaign' \in Campaigns
  BY StateUpdate DEF IInv, TypesOK, DoConfirmStage, ConfirmStage, CampaignStates
<1>2. TypesOK'
  BY <1>1, CampaignTyped DEF IInv, DoConfirmStage
<1>3. Rest'
  BY SMTT(20) DEF IInv, Rest, WorkAgrees, ArmedIsQualified, StagesInOrder,
     PastIsTrue, NvsIsKept, StopHolds, DoConfirmStage, ConfirmStage
<1> QED BY <1>2, <1>3 DEF IInv, Rest

LEMMA ArmStep ==
    ASSUME IInv, Arm
    PROVE  IInv'
<1>1. runner' \in Runners /\ past' \in Pasts /\ past'.begun = past.begun
  BY DEF IInv, TypesOK, Arm, Runners, Pasts
<1>2. TypesOK'
  BY <1>1, RunnerTyped DEF IInv, TypesOK, Arm
<1>3. Rest'
  BY SMTT(20) DEF IInv, Rest, WorkAgrees, ArmedIsQualified, StagesInOrder,
     PastIsTrue, NvsIsKept, StopHolds, Idle, Arm, CanArmMotor
<1> QED BY <1>2, <1>3 DEF IInv, Rest

LEMMA DoCompleteStageStep ==
    ASSUME IInv, DoCompleteStage
    PROVE  IInv'
<1>1. runner' \in Runners
  BY DisarmType DEF IInv, TypesOK, DoCompleteStage
<1>2. StageIsDone(campaign) => campaign.stage # NoStage
  BY DEF IInv, StagesInOrder, StageIsDone
<1>3. campaign' \in Campaigns
  BY <1>2, StageType DEF IInv, TypesOK, DoCompleteStage
<1>4. StageIsDone(campaign) => <<campaign.session, campaign.stage>> \in Nat \X (1..4)
  BY <1>2 DEF IInv, TypesOK, Campaigns
<1>5. past' \in Pasts /\ past'.begun = past.begun
  BY <1>4 DEF IInv, TypesOK, DoCompleteStage, Pasts
<1>6. TypesOK'
  BY <1>1, <1>3, <1>5 DEF IInv, TypesOK, IsWork, DoCompleteStage
<1>7. Rest'
  BY SMTT(20) DEF IInv, TypesOK, Rest, WorkAgrees, ArmedIsQualified,
     StagesInOrder, PastIsTrue, NvsIsKept, StopHolds, Campaigns, StageIsDone,
     Idle, DoCompleteStage, CompleteStage, ResetStageRuns, ErasesFirst, Disarm
<1> QED BY <1>6, <1>7 DEF IInv, Rest

LEMMA EraseHandoffStep ==
    ASSUME IInv, EraseHandoff
    PROVE  IInv'
<1>1. runner' \in Runners
  BY DisarmType DEF IInv, TypesOK, EraseHandoff
<1>2. IsWork(work')
  <2>1. work' = [kind |-> "CompleteStage", pc |-> "erased", rate |-> 0, ref |-> 0]
    BY DEF EraseHandoff, NoWork
  <2> QED BY <2>1 DEF IsWork, WorkOf, Kinds, Steps
<1>3. nvs' \in [session : Nat, mask : SUBSET (1..4)]
  BY DEF EraseHandoff, NoHandoff
<1>4. TypesOK'
  BY <1>1, <1>2, <1>3 DEF IInv, TypesOK, EraseHandoff
<1>5. Rest'
  BY SMTT(20) DEF IInv, Rest, WorkAgrees, ArmedIsQualified, StagesInOrder,
     PastIsTrue, NvsIsKept, StopHolds, Idle, EraseHandoff, ErasesFirst, Disarm
<1> QED BY <1>4, <1>5 DEF IInv, Rest

LEMMA EraseFailsStep ==
    ASSUME IInv, EraseFails
    PROVE  IInv'
<1>1. runner' \in Runners
  BY DisarmType DEF IInv, TypesOK, EraseFails
<1>2. handoff' \in [present : BOOLEAN, ok : BOOLEAN]
  BY DEF IInv, TypesOK, EraseFails
<1>3. nvs' \in [session : Nat, mask : SUBSET (1..4)]
  BY DEF IInv, TypesOK, EraseFails, NoHandoff
<1>4. past' \in Pasts /\ past'.begun = past.begun
  BY DEF IInv, TypesOK, EraseFails, NvsFails, Pasts
<1>5. TypesOK'
  BY <1>1, <1>2, <1>3, <1>4 DEF IInv, TypesOK, IsWork, EraseFails
<1>6. campaign.state = "Ready" /\ campaign.stage = M0 /\ work.pc = "none"
  BY DEF EraseFails, ErasesFirst, StageIsDone, Idle
<1>7. (WorkAgrees /\ ArmedIsQualified /\ StagesInOrder /\ StopHolds)'
  BY <1>6 DEF IInv, TypesOK, EraseFails, NvsFails, Disarm, WorkAgrees, ArmedIsQualified,
     StagesInOrder, StopHolds, Zero, StageIsDone, Runners, Pasts
<1>8. (PastIsTrue /\ NvsIsKept)'
  <2>1. past'.done = past.done /\ past'.off = past.off /\ past'.begun = past.begun
        /\ past'.checked = past.checked
        /\ ~handoff'.ok /\ handoff'.present = handoff.present
    BY DEF IInv, TypesOK, EraseFails, NvsFails, Pasts
  <2>2. CASE nvs' = nvs
    BY <1>6, <2>1, <2>2 DEF IInv, PastIsTrue, NvsIsKept, EraseFails
  <2>3. CASE nvs' = NoHandoff
    BY <1>6, <2>1, <2>3 DEF IInv, PastIsTrue, NvsIsKept, EraseFails
  <2> QED BY <2>2, <2>3 DEF EraseFails
<1> QED BY <1>7, <1>8, <1>5 DEF IInv

LEMMA PrepareM0Step ==
    ASSUME IInv, PrepareM0
    PROVE  IInv'
<1> DEFINE h == [session |-> campaign.session, mask |-> campaign.mask]
<1>1. runner' \in Runners
  BY DisarmType DEF IInv, TypesOK, PrepareM0
<1>2. h \in [session : Nat, mask : SUBSET (1..4)]
  BY DEF IInv, TypesOK, Campaigns
<1>3. nvs' \in [session : Nat, mask : SUBSET (1..4)]
  BY <1>2 DEF IInv, TypesOK, PrepareM0
<1>4. handoff' \in [present : BOOLEAN, ok : BOOLEAN]
  <2>1. [present |-> TRUE, ok |-> TRUE] \in [present : BOOLEAN, ok : BOOLEAN]
    OBVIOUS
  <2>2. [handoff EXCEPT !.ok = FALSE] \in [present : BOOLEAN, ok : BOOLEAN]
    BY DEF IInv, TypesOK
  <2> QED BY <2>1, <2>2 DEF PrepareM0
<1>5. campaign' \in Campaigns
  BY StateUpdate DEF IInv, TypesOK, PrepareM0, CampaignStates
<1>6. past' \in Pasts /\ past'.begun = past.begun
  BY DEF IInv, TypesOK, PrepareM0, NvsFails, Pasts
<1>7. TypesOK'
  BY <1>1, <1>3, <1>4, <1>5, <1>6 DEF IInv, TypesOK, IsWork, PrepareM0
<1>8. Rest'
  BY SMTT(20) DEF IInv, TypesOK, Rest, WorkAgrees, ArmedIsQualified,
     StagesInOrder, PastIsTrue, NvsIsKept, StopHolds, Campaigns, Pasts,
     NoHandoff, PrepareM0, PreparesM0, NvsFails, Disarm
<1> QED BY <1>7, <1>8 DEF IInv, Rest

LEMMA DoResumeM0Step ==
    ASSUME IInv, DoResumeM0
    PROVE  IInv'
<1>1. campaign' \in Campaigns
  BY StateUpdate DEF IInv, TypesOK, DoResumeM0, ResumeM0, CampaignStates
<1>2. TypesOK'
  BY <1>1, CampaignTyped DEF IInv, DoResumeM0
<1>3. Rest'
  BY SMTT(20) DEF IInv, Rest, WorkAgrees, ArmedIsQualified, StagesInOrder,
     PastIsTrue, NvsIsKept, StopHolds, Idle, DoResumeM0, ResumeM0
<1> QED BY <1>2, <1>3 DEF IInv, Rest

LEMMA SubmitZeroStep ==
    ASSUME IInv, SubmitZero
    PROVE  IInv'
<1>1. IsWork(work')
  BY DEF IInv, TypesOK, SubmitZero, Submit, IsWork, WorkOf, Kinds, Steps, Rates
<1>2. TypesOK'
  BY <1>1 DEF IInv, TypesOK, SubmitZero, Submit
<1>3. Rest'
  BY SMTT(20) DEF IInv, Rest, WorkAgrees, ArmedIsQualified, StagesInOrder,
     PastIsTrue, NvsIsKept, StopHolds, Idle, SubmitZero, Submit
<1> QED BY <1>2, <1>3 DEF IInv, Rest

LEMMA SubmitRunStep ==
    ASSUME IInv, SubmitRun
    PROVE  IInv'
<1>1. PICK kind \in {"RateCheck", "Full"}, rate \in Rates :
        work' = [kind |-> kind, pc |-> "queued", rate |-> rate, ref |-> 0]
  BY DEF SubmitRun, Submit
<1>2. IsWork(work')
  <2>1. work'.kind = kind /\ kind # "Zero"
    BY <1>1
  <2>2. work' \in WorkOf(Kinds \ {"Zero"}, {0})
    <3>1. kind \in Kinds \ {"Zero"} /\ "queued" \in Steps /\ rate \in {0, 1000, 5000}
      BY DEF Kinds, Steps, Rates
    <3> QED BY <1>1, <3>1 DEF WorkOf
  <2> QED BY <2>1, <2>2 DEF IsWork
<1>3. TypesOK'
  BY <1>2 DEF IInv, TypesOK, SubmitRun, Submit
<1>4. Rest'
  BY SMTT(20) DEF IInv, Rest, WorkAgrees, ArmedIsQualified, StagesInOrder,
     PastIsTrue, NvsIsKept, StopHolds, Idle, SubmitRun, Submit
<1> QED BY <1>3, <1>4 DEF IInv, Rest

LEMMA RequestStopStep ==
    ASSUME IInv, RequestStop
    PROVE  IInv'
<1>1. TypesOK'
  BY DEF IInv, TypesOK, IsWork, RequestStop
<1>2. Rest'
  BY SMTT(20) DEF IInv, Rest, WorkAgrees, ArmedIsQualified, StagesInOrder,
     PastIsTrue, NvsIsKept, StopHolds, RequestStop
<1> QED BY <1>1, <1>2 DEF IInv, Rest

LEMMA CompleteM0Step ==
    ASSUME IInv, CompleteM0
    PROVE  IInv'
<1>1. StageIsDone(campaign) /\ campaign.stage = M0
  BY DEF IInv, WorkAgrees, CompleteM0
<1>2. campaign' \in Campaigns
  BY <1>1, StageType DEF IInv, TypesOK, CompleteM0
<1>3. <<campaign.session, M0>> \in Nat \X (1..4)
  BY DEF IInv, TypesOK, Campaigns
<1>4. past' \in Pasts /\ past'.begun = past.begun
  BY <1>3 DEF IInv, TypesOK, CompleteM0, Pasts
<1>5. TypesOK'
  BY <1>2, <1>4, NoWorkType DEF IInv, TypesOK, CompleteM0
<1>6. Rest'
  BY SMTT(20) DEF IInv, Rest, WorkAgrees, ArmedIsQualified, StagesInOrder,
     PastIsTrue, NvsIsKept, StopHolds, NoWork, CompleteM0, CompleteStage
<1> QED BY <1>5, <1>6 DEF IInv, Rest

LEMMA BeginStep ==
    ASSUME IInv, Begin
    PROVE  IInv'
<1>1. runner' \in Runners
  BY DEF IInv, TypesOK, Begin, Runners
<1>2. "running" \in Steps /\ "Running" \in CampaignStates
  BY DEF Steps, CampaignStates
<1>3. IsWork(work')
  BY <1>2, MovedWork DEF IInv, TypesOK, Begin
<1>4. work.kind # "Zero" => [work EXCEPT !.pc = "running"] \in RunWorks
  BY <1>2, MovedWork DEF IInv, TypesOK, WorkAgrees, Begin
<1>5. ASSUME NEW w \in RunWorks
      PROVE  [campaign EXCEPT !.state = "Running", !.run = w] \in Campaigns
  BY <1>2 DEF IInv, TypesOK, Campaigns
<1>6. campaign' \in Campaigns
  BY <1>4, <1>5 DEF IInv, TypesOK, Begin, BeginRun
<1>7. TypesOK'
  BY <1>1, <1>3, <1>6 DEF IInv, TypesOK, Begin
<1>8. Rest'
  BY SMTT(20) DEF IInv, Rest, WorkAgrees, ArmedIsQualified, StagesInOrder,
     PastIsTrue, NvsIsKept, StopHolds, Zero, Begin, EntryAllows, BusyAllows,
     BeginsRun, BeginRun
<1> QED BY <1>7, <1>8 DEF IInv, Rest

LEMMA RefuseStep ==
    ASSUME IInv, Refuse
    PROVE  IInv'
<1>1. [Disarm(runner) EXCEPT !.stop = FALSE] \in Runners
  BY DisarmType DEF IInv, TypesOK, Runners
<1>2. TypesOK'
  BY <1>1, NoWorkType DEF IInv, TypesOK, Refuse
<1>3. Rest'
  BY SMTT(20) DEF IInv, Rest, WorkAgrees, ArmedIsQualified, StagesInOrder,
     PastIsTrue, NvsIsKept, StopHolds, NoWork, Refuse, Disarm
<1> QED BY <1>2, <1>3 DEF IInv, Rest

LEMMA ZeroEndsStep ==
    ASSUME IInv, ZeroEnds
    PROVE  IInv'
<1>1. work.ref \in {"Common", "M0"}
  BY DEF IInv, TypesOK, IsWork, WorkOf, ZeroEnds
<1>2. PICK captured \in BOOLEAN :
        runner' = [runner EXCEPT !.busy = FALSE, !.stop = FALSE,
                     !.zeros = IF captured /\ ~runner.stop THEN @ \union {work.ref}
                                                           ELSE @]
  BY DEF ZeroEnds
<1>3. runner' \in Runners
  <2> DEFINE z == IF captured /\ ~runner.stop THEN runner.zeros \union {work.ref}
                                              ELSE runner.zeros
  <2>1. z \in SUBSET {"Common", "M0"}
    BY <1>1 DEF IInv, TypesOK, Runners
  <2>2. runner' = [runner EXCEPT !.busy = FALSE, !.stop = FALSE, !.zeros = z]
    BY <1>2
  <2> HIDE DEF z
  <2> QED BY <2>1, <2>2 DEF IInv, TypesOK, Runners
<1>4. TypesOK'
  BY <1>3, NoWorkType DEF IInv, TypesOK, ZeroEnds
<1>5. Rest'
  BY SMTT(20) DEF IInv, Rest, WorkAgrees, ArmedIsQualified, StagesInOrder,
     PastIsTrue, NvsIsKept, StopHolds, NoWork, ZeroEnds
<1> QED BY <1>4, <1>5 DEF IInv, Rest

LEMMA DriveStep ==
    ASSUME IInv, Drive
    PROVE  IInv'
<1>1. runner' \in Runners
  BY DEF IInv, TypesOK, Drive, Runners
<1>2. TypesOK'
  BY <1>1 DEF IInv, TypesOK, IsWork, Drive
<1>3. Rest'
  BY SMTT(20) DEF IInv, Rest, WorkAgrees, ArmedIsQualified, StagesInOrder,
     PastIsTrue, NvsIsKept, StopHolds, Drive
<1> QED BY <1>2, <1>3 DEF IInv, Rest

LEMMA RunAbortsStep ==
    ASSUME IInv, RunAborts
    PROVE  IInv'
<1>1. runner' \in Runners
  BY DisarmType DEF IInv, TypesOK, RunAborts
<1>2. IsWork(work')
  BY MovedWork DEF IInv, TypesOK, RunAborts, Steps
<1>3. TypesOK'
  BY <1>1, <1>2 DEF IInv, TypesOK, RunAborts
<1>4. Rest'
  BY SMTT(20) DEF IInv, Rest, WorkAgrees, ArmedIsQualified, StagesInOrder,
     PastIsTrue, NvsIsKept, StopHolds, RunAborts, Disarm
<1> QED BY <1>3, <1>4 DEF IInv, Rest

LEMMA RunEndsStep ==
    ASSUME IInv, RunEnds
    PROVE  IInv'
<1>1. [Disarm(runner) EXCEPT !.busy = FALSE] \in Runners
  BY DisarmType DEF IInv, TypesOK, Runners
<1>2. campaign' \in Campaigns
  BY OutcomeType DEF IInv, TypesOK, RunEnds
<1>3. <<campaign.session, campaign.stage>> \in Nat \X (0..4)
  BY DEF IInv, TypesOK, Campaigns
<1>4. past' \in Pasts /\ past'.begun = past.begun
  BY <1>3 DEF IInv, TypesOK, RunEnds, Pasts
<1>5. TypesOK'
  BY <1>1, <1>2, <1>4, NoWorkType DEF IInv, TypesOK, RunEnds
<1>6. Rest'
  BY SMTT(20) DEF IInv, Rest, WorkAgrees, ArmedIsQualified, StagesInOrder,
     PastIsTrue, NvsIsKept, StopHolds, NoWork, RunEnds, FinishRun, Disarm
<1> QED BY <1>5, <1>6 DEF IInv, Rest

LEMMA SeeBusyStep ==
    ASSUME IInv, SeeBusy
    PROVE  IInv'
<1>1. TypesOK'
  BY DEF IInv, TypesOK, IsWork, SeeBusy
<1>2. Rest'
  BY SMTT(20) DEF IInv, Rest, WorkAgrees, ArmedIsQualified, StagesInOrder,
     PastIsTrue, NvsIsKept, StopHolds, SeeBusy
<1> QED BY <1>1, <1>2 DEF IInv, Rest

LEMMA StopRunStep ==
    ASSUME IInv, StopRun
    PROVE  IInv'
<1>1. runner' \in Runners /\ past' \in Pasts /\ past'.begun = past.begun
  BY DisarmType DEF IInv, TypesOK, StopRun, Runners, Pasts
<1>2. TypesOK'
  BY <1>1, RunnerTyped DEF IInv, TypesOK, StopRun
<1>3. Rest'
  BY SMTT(20) DEF IInv, Rest, WorkAgrees, ArmedIsQualified, StagesInOrder,
     PastIsTrue, NvsIsKept, StopHolds, StopRun
<1> QED BY <1>2, <1>3 DEF IInv, Rest

LEMMA StopIdleStep ==
    ASSUME IInv, StopIdle
    PROVE  IInv'
<1>1. runner' \in Runners /\ past' \in Pasts /\ past'.begun = past.begun
  BY DisarmType DEF IInv, TypesOK, StopIdle, Runners, Pasts
<1>2. TypesOK'
  BY <1>1, RunnerTyped DEF IInv, TypesOK, StopIdle
<1>3. Rest'
  BY SMTT(20) DEF IInv, Rest, WorkAgrees, ArmedIsQualified, StagesInOrder,
     PastIsTrue, NvsIsKept, StopHolds, StopIdle, Disarm
<1> QED BY <1>2, <1>3 DEF IInv, Rest

LEMMA ResetStep ==
    ASSUME IInv, Reset
    PROVE  IInv'
<1>1. Fresh \in Campaigns /\ Off \in Runners
  BY NoWorkType DEF Fresh, Off, Campaigns, CampaignStates, Runners
<1>2. ASSUME NEW p, NEW c
      PROVE  ResumeAtBoot(Fresh, nvs, p, c) \in Campaigns
  <2>1. nvs.session \in Nat /\ nvs.mask \in SUBSET (1..4)
    BY DEF IInv, TypesOK
  <2>2. "AwaitingM0Confirmation" \in CampaignStates
    BY DEF CampaignStates
  <2>3. [Fresh EXCEPT !.session = nvs.session, !.mask = nvs.mask, !.stage = M0,
                      !.state = "AwaitingM0Confirmation"] \in Campaigns
    <3>1. M0 \in 0..4
      OBVIOUS
    <3> QED BY <1>1, <2>1, <2>2, <3>1, SessionType
  <2> QED BY <1>1, <2>3, ResetType DEF ResumeAtBoot
<1>3. campaign' \in Campaigns
  BY <1>1, <1>2 DEF Reset, ConfigureBoot
<1>4. handoff' \in [present : BOOLEAN, ok : BOOLEAN]
  BY DEF Reset, Loaded
<1>5. past' \in Pasts /\ past'.begun = past.begun
  <2>1. PICK cookie \in BOOLEAN, loaded \in BOOLEAN :
          past' = [past EXCEPT !.resets = @ + 1, !.checked = {}, !.stopped = FALSE,
                     !.failures = IF loaded THEN @ ELSE @ + 1,
                     !.off = IF cookie \/ nvs = NoHandoff THEN @
                                                          ELSE @ \union {nvs.session}]
    BY DEF Reset
  <2> DEFINE f == IF loaded THEN past.failures ELSE past.failures + 1
             o == IF cookie \/ nvs = NoHandoff THEN past.off
                                               ELSE past.off \union {nvs.session}
             p == [past EXCEPT !.resets = @ + 1, !.checked = {}, !.stopped = FALSE]
  <2>2. f \in Nat /\ o \in SUBSET Nat
    BY DEF IInv, TypesOK, Pasts
  <2>3. p \in Pasts /\ p.begun = past.begun
    <3>1. past.resets + 1 \in Nat /\ {} \in SUBSET (Nat \X (0..4))
      BY DEF IInv, TypesOK, Pasts
    <3>2. past \in Pasts
      BY DEF IInv, TypesOK
    <3> QED BY <3>1, <3>2 DEF Pasts
  <2>4. past' = [p EXCEPT !.failures = f, !.off = o]
    BY <2>1
  <2> HIDE DEF f, o, p
  <2> QED BY <2>2, <2>3, <2>4 DEF Pasts
<1>6. TypesOK'
  BY <1>1, <1>3, <1>4, <1>5, NoWorkType DEF IInv, TypesOK, Reset, Initialize
<1>7. Rest'
  BY SMTT(20) DEF IInv, TypesOK, Rest, WorkAgrees, ArmedIsQualified,
     StagesInOrder, PastIsTrue, NvsIsKept, StopHolds, NoWork, Reset,
     ConfigureBoot, Loaded, ResumeAtBoot, ResetStageRuns, Fresh, Off,
     Initialize
<1> QED BY <1>6, <1>7 DEF IInv, Rest

LEMMA InitIInv == Init => IInv
<1> SUFFICES ASSUME Init PROVE IInv
  OBVIOUS
<1>1. campaign \in Campaigns /\ runner \in Runners
  BY NoWorkType DEF Init, Fresh, Off, Campaigns, CampaignStates, Runners
<1>2. past \in Pasts /\ past.begun <= Sessions
  BY DEF Init, Pasts
<1>3. nvs \in [session : Nat, mask : SUBSET (1..4)]
  BY DEF Init, NoHandoff
<1>4. handoff \in [present : BOOLEAN, ok : BOOLEAN]
  BY DEF Init
<1>5. TypesOK
  BY <1>1, <1>2, <1>3, <1>4, NoWorkType DEF Init, TypesOK
<1>6. Rest
  BY DEF Init, Fresh, Off, NoWork, NoHandoff, Rest, WorkAgrees, ArmedIsQualified,
     StagesInOrder, PastIsTrue, NvsIsKept, StopHolds
<1> QED BY <1>5, <1>6 DEF IInv, Rest

LEMMA NextIInv == IInv /\ [Next]_vars => IInv'
<1> SUFFICES ASSUME IInv, [Next]_vars
             PROVE  IInv'
  OBVIOUS
<1>1. CASE Command
  BY <1>1, NewSessionStep, DoConfirmStageStep, ArmStep, DoCompleteStageStep,
     EraseHandoffStep, EraseFailsStep, PrepareM0Step, DoResumeM0Step, SubmitZeroStep,
     SubmitRunStep, RequestStopStep DEF Command
<1>2. CASE Worker
  BY <1>2, CompleteM0Step, BeginStep, RefuseStep, ZeroEndsStep, DriveStep, RunAbortsStep,
     RunEndsStep DEF Worker
<1>3. CASE Console
  BY <1>3, SeeBusyStep, StopRunStep, StopIdleStep DEF Console
<1>4. CASE Reset
  BY <1>4, ResetStep
<1>5. CASE UNCHANGED vars
  BY <1>5 DEF vars, IInv, TypesOK, IsWork, WorkAgrees, ArmedIsQualified, StagesInOrder,
     PastIsTrue, NvsIsKept, StopHolds, Zero, StageIsDone
<1> QED BY <1>1, <1>2, <1>3, <1>4, <1>5 DEF Next

LEMMA IInvHolds == Spec => []IInv
BY InitIInv, NextIInv, PTL DEF Spec

-----------------------------------------------------------------------------
\* The journal of a full profile drives the motor only while it is armed, for the
\* zero reference of the assembly that is mounted and after the rate check of this
\* assembly: what arm and beginRun ask is still so at every epoch, whatever the
\* console and the resets do in between.
THEOREM DriveTheorem == Spec => []DriveIsQualified
<1>1. IInv => DriveIsQualified
  BY DEF IInv, WorkAgrees, ArmedIsQualified, PastIsTrue, DriveIsQualified
<1> QED BY <1>1, IInvHolds, PTL

\* A session is what NVS and its past say of it: the bare motor is armed only after
\* the three other assemblies and a power cycle, the handoff of a session is there
\* until its last stage is done, and none brings a completed session back.
THEOREM SessionTheorem == Spec => []SessionIsKept
<1>1. IInv => SessionIsKept
  <2> SUFFICES ASSUME IInv PROVE SessionIsKept
    OBVIOUS
  <2>1. CampaignTypeOK
    <3>1. campaign.session \in 0..Sessions
      BY DEF IInv, TypesOK, StagesInOrder, Campaigns, Pasts
    <3> QED BY <3>1 DEF IInv, TypesOK, WorkAgrees, Campaigns, CampaignStates,
                    CampaignTypeOK
  <2>2. HandoffIsKept
    BY DEF IInv, TypesOK, NvsIsKept, PastIsTrue, HandoffIsKept, ValidateHandoff, NoHandoff
  <2>3. M0IsProven /\ CompletedIsFinal
    BY DEF IInv, TypesOK, StagesInOrder, PastIsTrue, Campaigns, M0IsProven, CompletedIsFinal
  <2> QED BY <2>1, <2>2, <2>3 DEF SessionIsKept
<1> QED BY <1>1, IInvHolds, PTL

\* A stop that requestStop answered leaves nothing armed once the request it hit is
\* over: the run either saw stop_requested_ or ended by itself and disarmed.
THEOREM StopTheorem == Spec => []StopHolds
<1>1. IInv => StopHolds
  BY DEF IInv
<1> QED BY <1>1, IInvHolds, PTL

-----------------------------------------------------------------------------
(***************************************************************************)
(* The run.  RunInv follows it through time: where the runner is says      *)
(* which epoch has ended, and how the completed commands lie about the     *)
(* ends of epochs is what the records will say.  It takes a statement      *)
(* about the next epoch too, because the command of an epoch is given,     *)
(* late perhaps, while the record of the one before is still to be made.   *)
(***************************************************************************)

HIDE CampaignAssumption DEF NoStage, M0, Runs

Requested == {"Coast", "Drive"}

\* The fields of the records, and the types of those that the proofs need.
RunDomains ==
    /\ DOMAIN irq = {"masked", "tick", "since", "sample", "lost"}
    /\ DOMAIN tick = {"queue", "overflow", "next"}
    /\ DOMAIN sampler = {"on", "notes", "slot", "pc", "missed", "error",
                         "queue", "waiting", "ack"}
    /\ DOMAIN bins = {"count", "released", "late", "incomplete"}
    /\ DOMAIN journal = {"armed", "out", "failed", "log"}
    /\ DOMAIN loop = {"pc", "full", "epoch", "error", "unqualified", "stop",
                      "angle", "valid", "next", "from", "current", "faults",
                      "writer", "outcome"}

Commands == [cmd : Requested, of : Nat, done : Nat]
RunTypes ==
    /\ RunDomains
    /\ now \in Nat /\ irq.since \in Nat /\ tick.next \in Nat
    /\ loop.epoch \in Nat /\ loop.from \in Nat /\ loop.current \in Nat
    /\ loop.next \in Requested /\ loop.valid \in BOOLEAN
    /\ bins.released \in Int
    /\ tick.queue \in Seq([epoch : Nat, late : Int])
    /\ sampler.queue \in Seq([epoch : Nat, ok : BOOLEAN])
    /\ journal.out \in Requested /\ journal.failed \in BOOLEAN
    /\ journal.log \in Seq(Commands)
    /\ records \in Seq([gen : Nat, valid : BOOLEAN])

\* Where the runner is says what time it is, and how many records there are.
Paced ==
    /\ Looping => loop.epoch < Epochs /\ Len(records) = loop.epoch
    /\ loop.pc = "setup" =>
         /\ now = 0 /\ records = <<>> /\ journal.log = <<>>
         /\ loop.epoch = 0 /\ loop.current = 1 /\ loop.outcome = "None"
         /\ ~loop.error /\ ~loop.unqualified
    /\ loop.pc \in {"release", "apply", "applying", "applied", "record"} =>
         now >= End(loop.epoch)
    /\ loop.pc \in {"setup", "wait", "release"} /\ loop.epoch = 0 => ~loop.angle
    /\ loop.from \in 0..Generation

\* The command of an epoch is the last that was completed before the epoch ended,
\* and by the time the record is made the same is known of the next epoch, unless
\* the run is about to end.  Commands come in time: until an error is noticed all of
\* them were completed before the end of the epoch after this one, or, with the one
\* that was just given, of the one after that.
Ended(g) == journal.log[g].done

InForce ==
    Looping =>
      /\ loop.current \in 1..Generation
      /\ Ended(loop.current) < End(loop.epoch)
      /\ \A g \in 1..Generation : g > loop.current => Ended(g) >= End(loop.epoch)

NextInForce ==
    loop.pc = "record" /\ ~loop.error /\ ~loop.unqualified =>
      /\ loop.from \in 1..Generation
      /\ Ended(loop.from) < End(loop.epoch + 1)
      /\ \A g \in 1..Generation : g > loop.from => Ended(g) >= End(loop.epoch + 1)

AllBefore(e) == \A g \in 1..Generation : Ended(g) < End(e)
OnTime ==
    /\ loop.pc \in {"wait", "release", "apply", "applying", "applied"} /\ ~loop.error
         => AllBefore(loop.epoch + 1)
    /\ loop.pc = "record" /\ ~loop.error => AllBefore(loop.epoch + 2)

\* A record without its sample has been counted against the run, and a run that
\* ends without an error has all its records.
Counted ==
    /\ ~bins.incomplete => \A i \in 2..Len(records) : records[i].valid
    /\ loop.pc \in {"apply", "applying", "applied", "record"} /\ ~bins.incomplete
         /\ loop.epoch # 0 => loop.valid
    /\ loop.pc \in {"shutdown", "stopping", "stopped"} /\ ~loop.error
         /\ ~loop.unqualified => Len(records) = Epochs
    /\ loop.outcome # "None" => loop.pc = "done"

\* Only a full profile drives, on an angle of the epoch; what is being applied was
\* asked for without an error, and is the output once it has been written.
Driven ==
    /\ journal.armed \/ loop.next = "Drive" => loop.full
    /\ loop.pc = "apply" /\ loop.next = "Drive" /\ ~loop.error /\ ~loop.unqualified
         /\ loop.epoch + 1 < Epochs => loop.valid
    /\ loop.pc \in {"applying", "applied"} =>
         /\ ~loop.error /\ ~loop.unqualified
         /\ loop.next = "Drive" => loop.valid
    /\ loop.pc = "applied" => journal.out = loop.next /\ ~journal.failed

RunInv ==
    /\ RunTypes /\ ProfileRunTypeOK
    /\ Paced /\ InForce /\ NextInForce /\ OnTime
    /\ RecordsAreTrue /\ Counted /\ AcceptedIsComplete
    /\ Driven /\ ShutdownIsSafe /\ ErrorCoasts /\ DriveIsTimely

\* What is left of the journal when it coasts and disarms: the log, and an output
\* that is coasted, or a write that failed.
LEMMA DisarmedIs ==
    ASSUME NEW j, DOMAIN j = {"armed", "out", "failed", "log"},
           j.out \in Requested, NEW d \in Disarmed(j)
    PROVE  /\ DOMAIN d = DOMAIN j /\ d.log = j.log /\ d.armed = FALSE
           /\ d.out \in Requested /\ d.failed \in BOOLEAN
           /\ d.out = "Drive" => j.out = "Drive"
           /\ KnownCoast(d) \/ d.failed
<1>1. PICK c \in Coasts(j) : d = [c EXCEPT !.armed = FALSE]
  BY DEF Disarmed
<1>2. PICK out \in {j.out, "Coast"}, failed \in BOOLEAN :
        /\ c = [j EXCEPT !.out = out, !.failed = failed]
        /\ failed \/ out = "Coast"
  BY <1>1 DEF Coasts
<1>3. d = [[j EXCEPT !.out = out, !.failed = failed] EXCEPT !.armed = FALSE]
  BY <1>1, <1>2
<1>4. /\ DOMAIN d = DOMAIN j /\ d.log = j.log /\ d.armed = FALSE
      /\ d.out = out /\ d.failed = failed
  BY <1>3
<1>5. QED BY <1>2, <1>4 DEF KnownCoast, Requested

LEMMA RejectedIs ==
    ASSUME NEW j, DOMAIN j = {"armed", "out", "failed", "log"},
           j.out \in Requested, NEW cmd, NEW r \in Rejected(j, cmd)
    PROVE  /\ DOMAIN r = DOMAIN j /\ r.log = Append(j.log, Ordered(cmd))
           /\ r.armed = FALSE
           /\ r.out \in Requested /\ r.failed \in BOOLEAN
           /\ r.out = "Drive" => j.out = "Drive"
           /\ KnownCoast(r) \/ r.failed
<1>1. PICK d \in Disarmed(j) : r = [d EXCEPT !.log = Append(@, Ordered(cmd))]
  BY DEF Rejected
<1>2. /\ DOMAIN d = DOMAIN j /\ d.log = j.log /\ d.armed = FALSE
      /\ d.out \in Requested /\ d.failed \in BOOLEAN
      /\ d.out = "Drive" => j.out = "Drive"
      /\ KnownCoast(d) \/ d.failed
  BY DisarmedIs
<1>3. /\ DOMAIN r = DOMAIN d /\ r.log = Append(d.log, Ordered(cmd))
      /\ r.armed = d.armed /\ r.out = d.out /\ r.failed = d.failed
  BY <1>1, <1>2
<1>4. QED BY <1>2, <1>3 DEF KnownCoast

LEMMA JournalRejects ==
    ASSUME DOMAIN journal = {"armed", "out", "failed", "log"},
           journal.out \in Requested, NEW cmd, journal' \in Rejected(journal, cmd)
    PROVE  /\ DOMAIN journal' = DOMAIN journal
           /\ journal'.log = Append(journal.log, Ordered(cmd))
           /\ journal'.armed = FALSE
           /\ journal'.out \in Requested /\ journal'.failed \in BOOLEAN
           /\ journal'.out = "Drive" => journal.out = "Drive"
           /\ KnownCoast(journal') \/ journal'.failed
  BY RejectedIs

LEMMA BesideTypes ==
    ASSUME RunTypes,
           TimePasses \/ MaskInterrupts \/ UnmaskInterrupts \/ TickInterrupt
             \/ SampleInterrupt \/ SamplerWakes \/ SamplerReads
             \/ StopRequested \/ WriterFails
    PROVE  RunTypes'
<1> USE DEF RunTypes, RunDomains
<1>1. CASE TimePasses
  BY <1>1 DEF TimePasses
<1>2. CASE MaskInterrupts
  BY <1>2 DEF MaskInterrupts
<1>3. CASE UnmaskInterrupts
  BY <1>3 DEF UnmaskInterrupts
<1>4. CASE TickInterrupt
  <2> DEFINE t == [epoch |-> tick.next, late |-> now - irq.since]
  <2>1. t \in [epoch : Nat, late : Int]
    OBVIOUS
  <2>2. Append(tick.queue, t) \in Seq([epoch : Nat, late : Int])
    BY <2>1
  <2>7. /\ irq' = [irq EXCEPT !.tick = FALSE]
        /\ UNCHANGED <<now, sampler, bins, journal, loop, records>>
    BY <1>4 DEF TickInterrupt
  <2> HIDE DEF t
  <2>3. CASE tick' = tick
    BY <2>3, <2>7
  <2>4. CASE tick' = [tick EXCEPT !.overflow = TRUE, !.next = tick.next + 1]
    BY <2>4, <2>7
  <2>5. CASE tick' = [tick EXCEPT !.next = tick.next + 1,
                        !.queue = Append(tick.queue, t)]
    BY <2>2, <2>5, <2>7
  <2>6. QED BY <1>4, <2>3, <2>4, <2>5 DEF TickInterrupt, t
<1>5. CASE SampleInterrupt
  BY <1>5 DEF SampleInterrupt, More
<1>6. CASE SamplerWakes
  BY <1>6 DEF SamplerWakes, E, Acknowledged
<1>7. CASE SamplerReads
  <2>1. PICK ok \in BOOLEAN : SamplerReads!2!(ok)
    BY <1>7 DEF SamplerReads
  <2> DEFINE s == [epoch |-> now \div E, ok |-> ok]
             room == SampleRoom
             read == [sampler EXCEPT !.pc = "idle",
                        !.on    = sampler.on /\ ok /\ room,
                        !.error = sampler.error \/ ~ok \/ ~room,
                        !.queue = IF room THEN Append(sampler.queue, s)
                                          ELSE sampler.queue]
  <2>2. Append(sampler.queue, s) \in Seq([epoch : Nat, ok : BOOLEAN])
    <3>1. s \in [epoch : Nat, ok : BOOLEAN]
      BY DEF E
    <3>2. QED BY <3>1
  <2>3. sampler' = IF read.on THEN read ELSE Acknowledged(read)
    BY <2>1
  <2>4. loop' = IF ok THEN loop ELSE [loop EXCEPT !.faults = @ + 1]
    BY <2>1
  <2> HIDE DEF s, room
  <2>5. /\ DOMAIN read = DOMAIN sampler
        /\ read.queue \in Seq([epoch : Nat, ok : BOOLEAN])
    BY <2>2
  <2> HIDE DEF read
  <2>6. DOMAIN sampler' = DOMAIN sampler /\ sampler'.queue = read.queue
    BY <2>3, <2>5 DEF Acknowledged
  <2>7. QED BY <1>7, <2>4, <2>5, <2>6 DEF SamplerReads
<1>8. CASE StopRequested
  BY <1>8 DEF StopRequested
<1>9. CASE WriterFails
  BY <1>9 DEF WriterFails
<1>10. QED BY <1>1, <1>2, <1>3, <1>4, <1>5, <1>6, <1>7, <1>8, <1>9

\* What a release comes to: the cases of episode, verdicts and samples are over, and
\* a command to drive is left only with a sample of this epoch.
LEMMA ReleaseDoes ==
    ASSUME RunTypes, Paced, Driven, Release
    PROVE  /\ loop.pc = "release" /\ loop'.pc = "apply"
           /\ UNCHANGED <<now, irq, tick, records>>
           /\ sampler' = [sampler EXCEPT !.queue = <<>>]
           /\ journal' = journal \/ journal' \in Disarmed(journal)
           /\ loop'.error \/ loop'.unqualified =>
                loop.error \/ loop.unqualified \/ journal' \in Disarmed(journal)
           /\ DOMAIN loop' = DOMAIN loop /\ DOMAIN bins' = DOMAIN bins
           /\ loop'.full = loop.full /\ loop'.epoch = loop.epoch
           /\ loop'.from = loop.from /\ loop'.current = loop.current
           /\ loop'.outcome = loop.outcome
           /\ bins'.released = loop.epoch
           /\ loop.error => loop'.error
           /\ loop.unqualified => loop'.unqualified
           /\ bins.incomplete => bins'.incomplete
           /\ ~bins'.incomplete /\ loop.epoch # 0 => loop'.valid
           /\ loop'.valid \in BOOLEAN /\ loop'.next \in Requested
           /\ loop'.next = "Drive" => loop.full
           /\ loop'.next = "Drive" /\ ~loop'.error /\ ~loop'.unqualified
                /\ loop.epoch + 1 < Epochs => loop'.valid
<1> USE DEF RunTypes, RunDomains
<1> DEFINE
      added     == Added(bins, sampler.queue)
      collision == \E i \in 1..Len(sampler.queue) : Collides(added, sampler.queue[i])
      valid     == Complete(added, loop.epoch)
      startup   == loop.epoch = 0 /\ added.count[0] = 0
      angle     == loop.angle \/ valid
      dropped   == collision \/ sampler.error
      spoilt(approach) == \/ loop.full /\ (dropped \/ (~valid /\ ~startup /\ ~loop.error))
                          \/ approach = "abort"
      asks(approach) == /\ loop.epoch + 1 < Epochs /\ ~loop.error /\ ~spoilt(approach)
                        /\ ~loop.unqualified /\ (dropped => loop.full)
      bad(approach, cmd, guard) ==
          spoilt(approach) \/ (asks(approach) /\ \/ loop.stop
                                                 \/ ~angle /\ cmd = "Drive"
                                                 \/ guard = "abort")
      does(approach, cmd, guard) ==
        /\ bins' = Sealed(added, loop.epoch)
        /\ loop' = [loop EXCEPT !.valid = valid, !.angle = angle,
                      !.next = IF guard = "coast" THEN "Coast" ELSE cmd,
                      !.error = @ \/ bad(approach, cmd, guard),
                      !.unqualified = @ \/ (dropped /\ ~loop.full),
                      !.pc = "apply"]
        /\ journal' \in IF bad(approach, cmd, guard) \/ (dropped /\ ~loop.full)
                         THEN Disarmed(journal) ELSE {journal}
<1>0. PICK episode \in Episodes, next \in Episodes :
        \E approach \in ApproachVerdicts(episode), cmd \in Requests(next),
           guard \in GuardVerdicts(angle) : does(approach, cmd, guard)
  BY Zenon DEF Release
<1>1. PICK approach \in ApproachVerdicts(episode), cmd \in Requests(next),
           guard \in GuardVerdicts(angle) : does(approach, cmd, guard)
  BY <1>0
<1> DEFINE b == bad(approach, cmd, guard)
<1>2. /\ loop.pc = "release"
      /\ UNCHANGED <<now, irq, tick, records>>
      /\ sampler' = [sampler EXCEPT !.queue = <<>>]
  BY DEF Release
<1>3. cmd \in Requested /\ (cmd = "Drive" => loop.full)
  BY DEF Requests, PositionRequests, ProfileRequests, Episodes, Requested
<1>4. valid \in BOOLEAN
  BY DEF Complete
<1>5. DOMAIN added = DOMAIN bins /\ added.incomplete = bins.incomplete
  BY DEF Added
<1>6. (loop.epoch = 0 => ~loop.angle) /\ (startup => ~valid)
  BY <1>2 DEF Paced, Complete
<1> HIDE DEF added, collision
<1>7. /\ DOMAIN bins' = DOMAIN bins /\ bins'.released = loop.epoch
      /\ bins'.incomplete = (bins.incomplete \/ (~valid /\ loop.epoch # 0))
  BY <1>1, <1>5 DEF Sealed
<1> HIDE DEF valid
<1>8. /\ journal' = journal \/ journal' \in Disarmed(journal)
      /\ b \/ (dropped /\ ~loop.full) => journal' \in Disarmed(journal)
  <2>1. journal' \in IF b \/ (dropped /\ ~loop.full) THEN Disarmed(journal)
                                                   ELSE {journal}
    BY <1>1
  <2> HIDE DEF b, dropped
  <2>2. QED BY <2>1
<1>9. cmd = "Drive" /\ ~loop.error /\ ~b /\ ~loop.unqualified /\ ~(dropped /\ ~loop.full)
        /\ loop.epoch + 1 < Epochs => valid
  BY <1>3, <1>6
<1>10. /\ DOMAIN loop' = DOMAIN loop /\ loop'.pc = "apply"
       /\ loop'.full = loop.full /\ loop'.epoch = loop.epoch
       /\ loop'.from = loop.from /\ loop'.current = loop.current
       /\ loop'.outcome = loop.outcome
       /\ loop'.valid = valid /\ loop'.next = IF guard = "coast" THEN "Coast" ELSE cmd
  BY <1>1
<1>11. /\ loop'.error = (loop.error \/ b)
       /\ loop'.unqualified = (loop.unqualified \/ (dropped /\ ~loop.full))
  <2> DEFINE d == dropped /\ ~loop.full
             n == IF guard = "coast" THEN "Coast" ELSE cmd
  <2> HIDE DEF b, d, n
  <2>1. loop' = [loop EXCEPT !.valid = valid, !.angle = angle, !.next = n,
                   !.error = @ \/ b, !.unqualified = @ \/ d, !.pc = "apply"]
    BY <1>1 DEF b, d, n
  <2> HIDE DEF angle
  <2>2. QED BY <2>1 DEF d
<1> HIDE DEF b, dropped
<1>12. QED
  BY <1>2, <1>3, <1>4, <1>7, <1>8, <1>9, <1>10, <1>11 DEF Requested

LEMMA RunnerTypes ==
    ASSUME RunTypes, Paced, Driven, Runner
    PROVE  RunTypes'
<1> USE DEF RunTypes, RunDomains
<1>0. ASSUME NEW cmd \in Requested
      PROVE  /\ Ordered(cmd) \in Commands
             /\ Append(journal.log, Ordered(cmd)) \in Seq(Commands)
  BY DEF Ordered, Commands
<1>a. ASSUME journal' = journal \/ journal' \in Disarmed(journal)
      PROVE  /\ DOMAIN journal' = DOMAIN journal /\ journal'.out \in Requested
             /\ journal'.failed \in BOOLEAN /\ journal'.log = journal.log
  <2>1. CASE journal' = journal
    BY <2>1
  <2>2. CASE journal' \in Disarmed(journal)
    BY <2>2, DisarmedIs
  <2>3. QED BY <1>a, <2>1, <2>2
<1>b. ASSUME NEW cmd \in Requested, journal' \in Rejected(journal, cmd)
      PROVE  /\ DOMAIN journal' = DOMAIN journal /\ journal'.out \in Requested
             /\ journal'.failed \in BOOLEAN /\ journal'.log \in Seq(Commands)
  <2>1. /\ DOMAIN journal' = DOMAIN journal /\ journal'.out \in Requested
        /\ journal'.failed \in BOOLEAN
        /\ journal'.log = Append(journal.log, Ordered(cmd))
    BY <1>b, JournalRejects
  <2>2. QED BY <1>0, <2>1
<1>1. CASE SetUp
  BY <1>0, <1>1 DEF SetUp, Applied, Begun, NoTicks, NoBins, Requested
<1>2. CASE SetUpFails
  BY <1>a, <1>2 DEF SetUpFails, Aborted, Fatal
<1>3. CASE WaitFails
  BY <1>a, <1>3 DEF WaitFails, FailLatched, Fatal
<1>4. CASE TakeTick
  <2>1. journal' = journal \/ journal' \in Disarmed(journal)
    BY <1>4 DEF TakeTick
  <2>2. QED BY <1>4, <1>a, <2>1 DEF TakeTick
<1>5. CASE Release
  <2>1. journal' = journal \/ journal' \in Disarmed(journal)
    BY <1>5, ReleaseDoes
  <2>2. UNCHANGED <<now, irq, tick, records>>
    BY <1>5, ReleaseDoes
  <2>3. sampler' = [sampler EXCEPT !.queue = <<>>]
    BY <1>5, ReleaseDoes
  <2>4. /\ DOMAIN loop' = DOMAIN loop /\ DOMAIN bins' = DOMAIN bins
        /\ loop'.epoch = loop.epoch /\ loop'.from = loop.from
        /\ loop'.current = loop.current /\ bins'.released = loop.epoch
        /\ loop'.valid \in BOOLEAN /\ loop'.next \in Requested
    BY <1>5, ReleaseDoes
  <2>5. /\ DOMAIN sampler' = DOMAIN sampler
        /\ sampler'.queue \in Seq([epoch : Nat, ok : BOOLEAN])
    BY <2>3
  <2>7. QED BY <1>a, <2>1, <2>2, <2>4, <2>5
<1>6. CASE NothingToApply
  BY <1>0, <1>6 DEF NothingToApply, Generation, Requested
<1>7. CASE StartApply
  <2>1. UNCHANGED <<now, irq, tick, sampler, bins, records>>
    BY <1>7 DEF StartApply
  <2>2. CASE now >= HardDeadline
    <3>1. /\ loop' = [Fatal(loop) EXCEPT !.pc = "record"]
          /\ journal' \in Rejected(journal, loop.next)
      BY <1>7, <2>2 DEF StartApply
    <3>2. QED BY <1>b, <2>1, <3>1 DEF Fatal
  <2>3. CASE ~(now >= HardDeadline)
    BY <1>7, <2>3 DEF StartApply
  <2>4. QED BY <2>2, <2>3
<1>8. CASE WriteMotor
  <2>1. UNCHANGED <<now, irq, tick, sampler, bins, records>>
    BY <1>8 DEF WriteMotor
  <2>2. PICK ok \in BOOLEAN : WriteMotor!2!(ok)
    BY <1>8 DEF WriteMotor
  <2>3. CASE ok /\ (loop.next = "Drive" => journal.armed)
    <3>1. /\ loop' = [loop EXCEPT !.pc = "applied"]
          /\ journal' = [journal EXCEPT !.out = loop.next, !.failed = FALSE]
      BY <2>2, <2>3
    <3>2. QED BY <2>1, <3>1
  <2>4. CASE ~(ok /\ (loop.next = "Drive" => journal.armed))
    <3>1. /\ loop' = [Fatal(loop) EXCEPT !.pc = "record",
                        !.faults = IF ok THEN @ ELSE @ + 1]
          /\ journal' \in Rejected(journal, loop.next)
      BY <2>2, <2>4
    <3>2. QED BY <1>b, <2>1, <3>1 DEF Fatal
  <2>5. QED BY <2>3, <2>4
<1>9. CASE FinishApply
  <2> DEFINE late  == now >= HardDeadline
             given == Applied(journal, loop.next)
  <2>1. /\ UNCHANGED <<now, irq, tick, sampler, bins, records>>
        /\ given = journal' \/ journal' \in Disarmed(given)
        /\ loop' = [loop EXCEPT !.pc = "record", !.error = @ \/ late,
                      !.from = IF Slipped THEN Generation ELSE Generation + 1]
    BY <1>9 DEF FinishApply
  <2>2. /\ DOMAIN given = {"armed", "out", "failed", "log"}
        /\ given.out = loop.next /\ given.failed = FALSE
        /\ given.log = Append(journal.log, Ordered(loop.next))
    BY DEF Applied
  <2>3. given.out \in Requested /\ given.log \in Seq(Commands)
    BY <1>0, <2>2
  <2> HIDE DEF given, late
  <2>4. /\ DOMAIN journal' = DOMAIN given /\ journal'.out \in Requested
        /\ journal'.failed \in BOOLEAN /\ journal'.log = given.log
    <3>1. CASE journal' = given
      BY <2>2, <2>3, <3>1
    <3>2. CASE journal' \in Disarmed(given)
      BY <2>2, <2>3, <3>2, DisarmedIs
    <3>3. QED BY <2>1, <3>1, <3>2
  <2>5. /\ DOMAIN loop' = DOMAIN loop /\ loop'.epoch = loop.epoch
        /\ loop'.from \in Nat /\ loop'.current = loop.current
        /\ loop'.next = loop.next /\ loop'.valid = loop.valid
    BY <2>1 DEF Generation
  <2>6. QED BY <2>1, <2>2, <2>3, <2>4, <2>5
<1>10. CASE Enqueue
  <2>1. UNCHANGED <<now, irq, tick, sampler, bins>>
    BY <1>10 DEF Enqueue
  <2>2. PICK taken \in BOOLEAN : Enqueue!2!(taken)
    BY <1>10 DEF Enqueue
  <2> DEFINE r == [gen |-> loop.current, valid |-> loop.valid]
  <2>3. Append(records, r) \in Seq([gen : Nat, valid : BOOLEAN])
    OBVIOUS
  <2>4. records' = records \/ records' = Append(records, r)
    BY <2>2
  <2>5. journal' = journal \/ journal' \in Disarmed(journal)
    BY <2>2
  <2>6. /\ DOMAIN loop' = DOMAIN loop /\ loop'.epoch = loop.epoch + 1
        /\ loop'.from = loop.from /\ loop'.current = loop.from
        /\ loop'.next = loop.next /\ loop'.valid = loop.valid
    BY <2>2
  <2> HIDE DEF r
  <2>7. records' \in Seq([gen : Nat, valid : BOOLEAN])
    BY <2>3, <2>4
  <2>8. QED BY <1>a, <2>1, <2>5, <2>6, <2>7
<1>11. CASE ShutDown
  <2>1. journal' \in Disarmed(journal)
    BY <1>11 DEF ShutDown
  <2>2. QED BY <1>a, <1>11, <2>1 DEF ShutDown, NoTicks
<1>12. CASE NotifySampler
  BY <1>12 DEF NotifySampler, More
<1>13. CASE Finish
  BY <1>13 DEF Finish
<1>14. QED
  BY <1>1, <1>2, <1>3, <1>4, <1>5, <1>6, <1>7, <1>8, <1>9, <1>10, <1>11, <1>12, <1>13
  DEF Runner

LEMMA Bounds == {Epochs, Horizon, TickDepth, SampleDepth} \subseteq Nat \ {0}
  BY ProfileRunAssumption

\* What interrupts, char_encoder, the console and char_writer leave alone.
Beside ==
    /\ now' >= now
    /\ UNCHANGED <<bins, journal, records>>
    /\ loop'.pc = loop.pc /\ loop'.full = loop.full /\ loop'.epoch = loop.epoch
    /\ loop'.error = loop.error /\ loop'.unqualified = loop.unqualified
    /\ loop'.angle = loop.angle /\ loop'.valid = loop.valid
    /\ loop'.next = loop.next /\ loop'.from = loop.from
    /\ loop'.current = loop.current /\ loop'.outcome = loop.outcome
    /\ loop.pc = "setup" => now' = now

LEMMA OthersAreBeside ==
    ASSUME RunTypes, ProfileRunTypeOK,
           TimePasses \/ MaskInterrupts \/ UnmaskInterrupts \/ TickInterrupt
             \/ SampleInterrupt \/ SamplerWakes \/ SamplerReads
             \/ StopRequested \/ WriterFails
    PROVE  /\ Beside /\ now' <= Horizon
           /\ Len(tick'.queue) <= TickDepth /\ Len(sampler'.queue) < SampleDepth
<1> USE Bounds DEF RunTypes, RunDomains, ProfileRunTypeOK
<1>0. RunTypes'
  BY BesideTypes
<1>1. CASE TimePasses
  <2>1. /\ Looping /\ now < Horizon /\ now' = now + 1
        /\ UNCHANGED <<tick, sampler, bins, journal, loop, records>>
    BY <1>1 DEF TimePasses
  <2>2. now < Horizon /\ now \in Int /\ Horizon \in Int
    BY <2>1
  <2>3. now' >= now /\ now' <= Horizon
    BY <2>1, <2>2
  <2>4. loop.pc # "setup"
    BY <2>1 DEF Looping
  <2>5. QED BY <2>1, <2>3, <2>4 DEF Beside
<1>2. CASE MaskInterrupts
  BY <1>2 DEF MaskInterrupts, Beside
<1>3. CASE UnmaskInterrupts
  BY <1>3 DEF UnmaskInterrupts, Beside
<1>4. CASE TickInterrupt
  <2>1. UNCHANGED <<now, sampler, bins, journal, loop, records>>
    BY <1>4 DEF TickInterrupt
  <2> DEFINE t == [epoch |-> tick.next, late |-> now - irq.since]
  <2>2. Len(Append(tick.queue, t)) = Len(tick.queue) + 1
    OBVIOUS
  <2>3. \/ tick'.queue = tick.queue
        \/ Len(tick.queue) < TickDepth /\ tick'.queue = Append(tick.queue, t)
    <3>0. Len(tick.queue) \in Nat
      OBVIOUS
    <3> HIDE DEF t
    <3>1. CASE tick' = tick
      BY <3>1
    <3>2. CASE tick' = [tick EXCEPT !.overflow = TRUE, !.next = tick.next + 1]
      BY <3>2
    <3>3. CASE /\ ~(Len(tick.queue) >= TickDepth)
               /\ tick' = [tick EXCEPT !.next = tick.next + 1,
                             !.queue = Append(tick.queue, t)]
      <4>1. tick'.queue = Append(tick.queue, t)
        BY <3>3
      <4>2. Len(tick.queue) < TickDepth
        BY <3>0, <3>3, Bounds
      <4>3. QED BY <4>1, <4>2
    <3>4. QED BY <1>4, <3>1, <3>2, <3>3 DEF TickInterrupt, t
  <2>4. Len(tick'.queue) <= TickDepth
    <3>1. Len(tick.queue) \in Nat /\ Len(tick.queue) <= TickDepth
      OBVIOUS
    <3> HIDE DEF t
    <3>2. TickDepth \in Int
      BY Bounds
    <3>3. CASE tick'.queue = tick.queue
      BY <3>1, <3>3
    <3>4. CASE Len(tick.queue) < TickDepth /\ tick'.queue = Append(tick.queue, t)
      <4>1. Len(tick'.queue) = Len(tick.queue) + 1
        BY <2>2, <3>4
      <4>2. QED BY <3>1, <3>2, <3>4, <4>1
    <3>5. QED BY <2>3, <3>3, <3>4
  <2>5. QED BY <2>1, <2>4 DEF Beside
<1>5. CASE SampleInterrupt
  BY <1>5 DEF SampleInterrupt, Beside
<1>6. CASE SamplerWakes
  BY <1>6 DEF SamplerWakes, Beside, Acknowledged
<1>7. CASE SamplerReads
  <2>1. PICK ok \in BOOLEAN : SamplerReads!2!(ok)
    BY <1>7 DEF SamplerReads
  <2> DEFINE s == [epoch |-> now \div E, ok |-> ok]
             room == SampleRoom
             q == IF room THEN Append(sampler.queue, s) ELSE sampler.queue
             read == [sampler EXCEPT !.pc = "idle",
                        !.on    = sampler.on /\ ok /\ room,
                        !.error = sampler.error \/ ~ok \/ ~room,
                        !.queue = q]
  <2>2. sampler' = IF read.on THEN read ELSE Acknowledged(read)
    BY <2>1
  <2>3. loop' = IF ok THEN loop ELSE [loop EXCEPT !.faults = @ + 1]
    BY <2>1
  <2>4. s \in [epoch : Nat, ok : BOOLEAN]
    BY DEF E
  <2> HIDE DEF s
  <2>5. Len(q) < SampleDepth
    <3>1. /\ Len(sampler.queue) \in Nat /\ Len(sampler.queue) < SampleDepth
          /\ Len(Append(sampler.queue, s)) = Len(sampler.queue) + 1
      BY <2>4
    <3>2. room <=> Len(sampler.queue) < SampleDepth - 1
      BY DEF SampleRoom
    <3> HIDE DEF room
    <3>3. CASE room
      BY <3>1, <3>2, <3>3, Bounds
    <3>4. CASE ~room
      BY <3>1, <3>4
    <3>5. QED BY <3>3, <3>4
  <2> HIDE DEF q, room
  <2>6. read.queue = q /\ DOMAIN read = DOMAIN sampler
    OBVIOUS
  <2> HIDE DEF read
  <2>7. sampler'.queue = q
    BY <2>2, <2>6 DEF Acknowledged
  <2>8. UNCHANGED <<now, irq, tick, bins, journal, records>>
    BY <1>7 DEF SamplerReads
  <2>9. QED BY <2>3, <2>5, <2>7, <2>8 DEF Beside
<1>8. CASE StopRequested
  BY <1>8 DEF StopRequested, Beside
<1>9. CASE WriterFails
  BY <1>9 DEF WriterFails, Beside
<1>10. QED BY <1>1, <1>2, <1>3, <1>4, <1>5, <1>6, <1>7, <1>8, <1>9

LEMMA BesideKeeps ==
    ASSUME RunInv, Beside, RunTypes', now' <= Horizon,
           Len(tick'.queue) <= TickDepth, Len(sampler'.queue) < SampleDepth
    PROVE  RunInv'
<1> USE DEF Beside
<1>1. ProfileRunTypeOK'
  BY DEF RunInv, RunTypes, ProfileRunTypeOK, Generation
<1>2. Paced'
  BY DEF RunInv, RunTypes, Paced, Looping, Generation, End, E
<1>3. InForce'
  BY DEF RunInv, InForce, Looping, Generation, Ended
<1>4. NextInForce'
  BY DEF RunInv, NextInForce, Generation, Ended
<1>5. OnTime'
  BY DEF RunInv, OnTime, AllBefore, Generation, Ended
<1>6. RecordsAreTrue'
  BY DEF RunInv, RecordsAreTrue, RecordFits, Generation
<1>7. Counted'
  BY DEF RunInv, Counted
<1>8. AcceptedIsComplete'
  BY DEF RunInv, AcceptedIsComplete
<1>9. Driven'
  BY DEF RunInv, Driven
<1>10. ShutdownIsSafe' /\ ErrorCoasts' /\ DriveIsTimely'
  BY DEF RunInv, ShutdownIsSafe, ErrorCoasts, DriveIsTimely, KnownCoast, End, E
<1>11. QED
  BY <1>1, <1>2, <1>3, <1>4, <1>5, <1>6, <1>7, <1>8, <1>9, <1>10 DEF RunInv

-----------------------------------------------------------------------------
\* One lemma for each action of the runner.

LEMMA EndIsNat ==
    ASSUME NEW e \in Nat
    PROVE  /\ End(e) \in Nat /\ End(e + 1) = End(e) + 2
           /\ End(e + 2) = End(e) + 4
  BY DEF End, E

LEMMA LogGrows ==
    ASSUME RunTypes, NEW cmd \in Requested,
           journal'.log = Append(journal.log, Ordered(cmd))
    PROVE  /\ Generation \in Nat /\ Generation' = Generation + 1
           /\ \A g \in 1..Generation : journal'.log[g] = journal.log[g]
           /\ journal'.log[Generation + 1].done = now
           /\ Last(journal'.log) = Ordered(cmd)
<1>1. Ordered(cmd) \in Commands /\ Ordered(cmd).done = now
  BY DEF Ordered, Commands, RunTypes
<1> DEFINE c == Ordered(cmd)
<1> HIDE DEF c
<1>2. c \in Commands /\ c.done = now /\ journal'.log = Append(journal.log, c)
  BY <1>1 DEF c
<1>3. journal.log \in Seq(Commands)
  BY DEF RunTypes
<1>4. Last(journal'.log) = c
  BY <1>2, <1>3 DEF Last
<1>5. QED BY <1>2, <1>3, <1>4 DEF Generation, c

\* After a step that coasts and disarms the motor is safe, whatever else it did,
\* unless the run is over: then a coast that failed must be an error of the run.
LEMMA DisarmsSafely ==
    ASSUME ~journal'.armed, journal'.out \in Requested,
           KnownCoast(journal') \/ journal'.failed
    PROVE  /\ ErrorCoasts' /\ DriveIsTimely'
           /\ loop'.pc \notin {"stopping", "stopped", "done"}
                /\ loop'.outcome = "None" => ShutdownIsSafe'
           /\ (journal'.out = "Drive" /\ ~journal'.failed => loop'.full)
<1>1. journal'.out = "Drive" => journal'.failed
  BY DEF KnownCoast
<1>2. journal'.out = "Coast" \/ journal'.failed
  BY DEF KnownCoast
<1>3. ErrorCoasts'
  BY <1>2 DEF ErrorCoasts
<1>4. DriveIsTimely'
  BY <1>1 DEF DriveIsTimely
<1>5. loop'.pc \notin {"stopping", "stopped", "done"} /\ loop'.outcome = "None"
        => ShutdownIsSafe'
  BY DEF ShutdownIsSafe
<1>6. QED BY <1>1, <1>3, <1>4, <1>5

\* Nothing has been decided while the loop runs.
LEMMA NoOutcomeYet ==
    ASSUME RunInv, loop.pc # "done"
    PROVE  loop.outcome = "None"
  BY DEF RunInv, Counted

LEMMA SetUpKeeps ==
    ASSUME RunInv, SetUp, RunTypes'
    PROVE  RunInv'
<1> USE DEF RunTypes, RunDomains
<1>1. /\ loop.pc = "setup" /\ now = 0 /\ records = <<>> /\ journal.log = <<>>
      /\ loop.epoch = 0 /\ loop.current = 1 /\ loop.outcome = "None"
      /\ ~loop.error /\ ~loop.unqualified /\ ~loop.angle
      /\ loop.from \in 0..Generation
  BY DEF SetUp, RunInv, Paced
<1>2. /\ UNCHANGED <<now, irq, records>>
      /\ journal' = Applied(journal, "Coast") /\ sampler' = Begun(sampler)
      /\ tick' = NoTicks /\ bins' = NoBins
      /\ loop' = [loop EXCEPT !.pc = "wait"]
  BY DEF SetUp
<1>3. /\ loop'.pc = "wait" /\ loop'.epoch = 0 /\ loop'.current = 1
      /\ loop'.outcome = "None" /\ ~loop'.error /\ ~loop'.unqualified
      /\ ~loop'.angle /\ loop'.from = loop.from /\ loop'.full = loop.full
      /\ loop'.next = loop.next
  BY <1>1, <1>2
<1>4. /\ journal'.armed = journal.armed /\ journal'.out = "Coast"
      /\ journal'.log = Append(journal.log, Ordered("Coast"))
  BY <1>2 DEF Applied
<1>5. /\ Generation = 0 /\ Generation' = 1 /\ journal'.log[1].done = 0
  <2>1. Generation = 0
    BY <1>1 DEF Generation
  <2>2. /\ Generation' = Generation + 1 /\ journal'.log[Generation + 1].done = now
    BY <1>4, LogGrows DEF RunInv, Requested
  <2>3. QED BY <1>1, <2>1, <2>2
<1>6. ProfileRunTypeOK'
  BY <1>1, <1>2, <1>3, <1>4, <1>5, Bounds
  DEF RunInv, ProfileRunTypeOK, Begun, NoTicks, NoBins
<1>7. Paced'
  BY <1>1, <1>2, <1>3, <1>5, Bounds DEF Paced, Looping
<1>8. InForce' /\ NextInForce'
  BY <1>3, <1>5 DEF InForce, NextInForce, Ended, End, E
<1>9. OnTime'
  BY <1>3, <1>5 DEF OnTime, AllBefore, Ended, End, E
<1>10. RecordsAreTrue' /\ AcceptedIsComplete'
  BY <1>1, <1>2, <1>3 DEF RecordsAreTrue, AcceptedIsComplete
<1>11. Counted'
  BY <1>1, <1>2, <1>3 DEF Counted
<1>12. Driven'
  BY <1>3, <1>4 DEF RunInv, Driven
<1>13. ShutdownIsSafe' /\ ErrorCoasts' /\ DriveIsTimely'
  BY <1>3, <1>4 DEF ShutdownIsSafe, ErrorCoasts, DriveIsTimely
<1>14. QED
  BY <1>6, <1>7, <1>8, <1>9, <1>10, <1>11, <1>12, <1>13 DEF RunInv

\* What ends the run before it begins, or while it waits for a tick.
LEMMA SetUpFailsKeeps ==
    ASSUME RunInv, SetUpFails, RunTypes'
    PROVE  RunInv'
<1> USE DEF RunTypes, RunDomains
<1>1. /\ loop.pc = "setup" /\ UNCHANGED <<now, irq, tick, sampler, bins, records>>
      /\ journal' \in Disarmed(journal)
      /\ loop' = Aborted([loop EXCEPT !.faults = @ + 1])
  BY DEF SetUpFails
<1>2. /\ loop'.pc = "done" /\ loop'.outcome = "Failed" /\ loop'.error
      /\ loop'.epoch = loop.epoch /\ loop'.current = loop.current
      /\ loop'.from = loop.from /\ loop'.full = loop.full /\ loop'.next = loop.next
  BY <1>1 DEF Aborted, Fatal
<1>3. /\ journal'.armed = FALSE /\ journal'.log = journal.log
      /\ journal'.out \in Requested /\ (KnownCoast(journal') \/ journal'.failed)
  BY <1>1, DisarmedIs DEF RunInv
<1>4. Generation' = Generation
  BY <1>3 DEF Generation
<1>5. ProfileRunTypeOK'
  BY <1>1, <1>2, <1>3, <1>4, DisarmsSafely DEF RunInv, ProfileRunTypeOK
<1>6. Paced' /\ InForce' /\ NextInForce' /\ OnTime'
  BY <1>1, <1>2, <1>4 DEF RunInv, Paced, InForce, NextInForce, OnTime, Looping
<1>7. RecordsAreTrue' /\ AcceptedIsComplete'
  BY <1>1, <1>2, <1>3, <1>4 DEF RunInv, RecordsAreTrue, AcceptedIsComplete
<1>8. Counted'
  BY <1>1, <1>2 DEF RunInv, Counted
<1>9. Driven' /\ ErrorCoasts' /\ DriveIsTimely'
  BY <1>2, <1>3, DisarmsSafely DEF RunInv, Driven
<1>10. ShutdownIsSafe'
  BY <1>2, <1>3 DEF ShutdownIsSafe
<1>11. QED
  BY <1>5, <1>6, <1>7, <1>8, <1>9, <1>10 DEF RunInv

LEMMA WaitFailsKeeps ==
    ASSUME RunInv, WaitFails, RunTypes'
    PROVE  RunInv'
<1> USE DEF RunTypes, RunDomains
<1>1. /\ loop.pc = "wait" /\ UNCHANGED <<now, irq, tick, sampler, bins, records>>
      /\ journal' \in Disarmed(journal)
      /\ loop' = [IF Latched THEN FailLatched(loop) ELSE Fatal(loop)
                    EXCEPT !.pc = "shutdown"]
  BY DEF WaitFails
<1>2. /\ loop'.pc = "shutdown" /\ loop'.outcome = loop.outcome
      /\ loop'.epoch = loop.epoch /\ loop'.current = loop.current
      /\ loop'.from = loop.from /\ loop'.full = loop.full /\ loop'.next = loop.next
      /\ loop'.error \/ loop'.unqualified
  BY <1>1 DEF FailLatched, Fatal
<1>3. /\ journal'.armed = FALSE /\ journal'.log = journal.log
      /\ journal'.out \in Requested /\ (KnownCoast(journal') \/ journal'.failed)
  BY <1>1, DisarmedIs DEF RunInv
<1>4. Generation' = Generation
  BY <1>3 DEF Generation
<1>5. ProfileRunTypeOK'
  BY <1>1, <1>2, <1>3, <1>4, DisarmsSafely DEF RunInv, ProfileRunTypeOK
<1>6. Paced' /\ InForce' /\ NextInForce' /\ OnTime'
  BY <1>1, <1>2, <1>4 DEF RunInv, Paced, InForce, NextInForce, OnTime, Looping
<1>7. RecordsAreTrue' /\ AcceptedIsComplete'
  BY <1>1, <1>2, <1>3, <1>4 DEF RunInv, RecordsAreTrue, AcceptedIsComplete
<1>8. Counted'
  BY <1>1, <1>2 DEF RunInv, Counted
<1>9. Driven' /\ ShutdownIsSafe' /\ ErrorCoasts' /\ DriveIsTimely'
  BY <1>1, <1>2, <1>3, DisarmsSafely, NoOutcomeYet DEF RunInv, Driven
<1>10. QED
  BY <1>5, <1>6, <1>7, <1>8, <1>9 DEF RunInv

\* A tick that comes before the end of its epoch ends the run.
LEMMA TakeTickKeeps ==
    ASSUME RunInv, TakeTick, RunTypes'
    PROVE  RunInv'
<1> USE DEF RunTypes, RunDomains
<1> DEFINE
      t       == Head(tick.queue)
      end     == End(loop.epoch)
      missed  == now > end
      regular == t.epoch = loop.epoch /\ Len(tick.queue) <= 2 /\ t.late < E
      catchUp == regular /\ now < end + 2 * E
      fatal   == \/ loop.stop \/ (missed /\ ~catchUp)
                 \/ (~missed /\ ~(regular /\ now >= end))
<1>1. /\ loop.pc = "wait" /\ tick.queue # <<>>
      /\ UNCHANGED <<now, irq, sampler, bins, records>>
      /\ tick' = [tick EXCEPT !.queue = Tail(@)]
  BY DEF TakeTick
<1>2. /\ loop' = [loop EXCEPT !.error = @ \/ fatal,
                    !.pc = IF now < end THEN "shutdown" ELSE "release"]
      /\ journal' \in IF fatal THEN Disarmed(journal) ELSE {journal}
  BY DEF TakeTick
<1>3. end \in Nat /\ now \in Nat
  <2>1. loop.epoch \in Nat /\ now \in Nat
    BY DEF RunInv
  <2>2. QED BY <2>1, EndIsNat
<1>4. now < end => fatal
  BY <1>3
<1> HIDE DEF fatal, end
<1>5. /\ loop'.pc = IF now < end THEN "shutdown" ELSE "release"
      /\ loop'.outcome = loop.outcome /\ loop'.epoch = loop.epoch
      /\ loop'.current = loop.current /\ loop'.from = loop.from
      /\ loop'.full = loop.full /\ loop'.next = loop.next
      /\ loop'.angle = loop.angle /\ loop'.unqualified = loop.unqualified
      /\ (loop'.error <=> loop.error \/ fatal)
  BY <1>2
<1>6. /\ journal'.log = journal.log
      /\ journal'.armed => journal.armed
      /\ fatal => /\ journal'.armed = FALSE /\ journal'.out \in Requested
                  /\ KnownCoast(journal') \/ journal'.failed
      /\ ~fatal => journal' = journal
  <2>1. CASE fatal
    BY <1>2, <2>1, DisarmedIs DEF RunInv
  <2>2. CASE ~fatal
    BY <1>2, <2>2
  <2>3. QED BY <2>1, <2>2
<1>7. Generation' = Generation
  BY <1>6 DEF Generation
<1>8. ProfileRunTypeOK'
  <2>1. Len(tick'.queue) <= TickDepth
    <3>1. tick'.queue = Tail(tick.queue) /\ Len(Tail(tick.queue)) = Len(tick.queue) - 1
      BY <1>1
    <3>2. Len(tick.queue) \in Nat /\ TickDepth \in Nat /\ Len(tick.queue) <= TickDepth
      BY Bounds DEF RunInv, ProfileRunTypeOK
    <3>3. QED BY <3>1, <3>2
  <2>2. journal'.out = "Drive" /\ ~journal'.failed => loop'.full
    BY <1>5, <1>6, DisarmsSafely DEF RunInv, ProfileRunTypeOK
  <2>3. QED
    BY <1>1, <1>5, <1>6, <1>7, <2>1, <2>2 DEF RunInv, ProfileRunTypeOK
<1>9. Paced'
  BY <1>1, <1>3, <1>5, <1>7 DEF RunInv, Paced, Looping, end
<1>10. InForce'
  BY <1>1, <1>5, <1>6, <1>7 DEF RunInv, InForce, Looping, Ended
<1>11. NextInForce'
  BY <1>5 DEF NextInForce
<1>12. OnTime'
  BY <1>1, <1>5, <1>6, <1>7 DEF RunInv, OnTime, AllBefore, Ended
<1>13. RecordsAreTrue' /\ AcceptedIsComplete'
  BY <1>1, <1>5, <1>6, <1>7 DEF RunInv, RecordsAreTrue, AcceptedIsComplete
<1>14. Counted'
  BY <1>1, <1>4, <1>5 DEF RunInv, Counted
<1>15. Driven'
  BY <1>5, <1>6 DEF RunInv, Driven
<1>16. ShutdownIsSafe' /\ ErrorCoasts' /\ DriveIsTimely'
  <2>1. loop'.pc \in {"shutdown", "release"} /\ loop'.outcome = "None"
    BY <1>1, <1>5, NoOutcomeYet
  <2>2. CASE fatal
    BY <1>6, <2>1, <2>2, DisarmsSafely
  <2>3. CASE ~fatal
    BY <1>1, <1>5, <1>6, <2>1, <2>3
    DEF RunInv, ShutdownIsSafe, ErrorCoasts, DriveIsTimely
  <2>4. QED BY <2>2, <2>3
<1>17. QED
  BY <1>8, <1>9, <1>10, <1>11, <1>12, <1>13, <1>14, <1>15, <1>16 DEF RunInv

\* A release leaves the log of commands alone.
LEMMA ReleaseKeeps ==
    ASSUME RunInv, Release, RunTypes'
    PROVE  RunInv'
<1> USE DEF RunTypes, RunDomains
<1>0. RunTypes /\ Paced /\ Driven
  BY DEF RunInv
<1>1. /\ journal' = journal \/ journal' \in Disarmed(journal)
      /\ loop'.error \/ loop'.unqualified =>
           loop.error \/ loop.unqualified \/ journal' \in Disarmed(journal)
  BY <1>0, ReleaseDoes
<1>2. UNCHANGED <<now, irq, tick, records>> /\ sampler'.queue = <<>>
  BY <1>0, ReleaseDoes
<1>3. /\ loop.pc = "release" /\ loop'.pc = "apply"
      /\ loop'.full = loop.full /\ loop'.epoch = loop.epoch
      /\ loop'.from = loop.from /\ loop'.current = loop.current
      /\ loop'.outcome = loop.outcome /\ bins'.released = loop.epoch
      /\ loop.error => loop'.error
      /\ loop.unqualified => loop'.unqualified
  BY <1>0, ReleaseDoes
<1>4. /\ bins.incomplete => bins'.incomplete
      /\ ~bins'.incomplete /\ loop.epoch # 0 => loop'.valid
      /\ loop'.next = "Drive" => loop.full
      /\ loop'.next = "Drive" /\ ~loop'.error /\ ~loop'.unqualified
           /\ loop.epoch + 1 < Epochs => loop'.valid
  BY <1>0, ReleaseDoes
<1>a. journal' \in Disarmed(journal) =>
        /\ journal'.log = journal.log
        /\ journal'.armed = FALSE /\ journal'.out \in Requested
        /\ KnownCoast(journal') \/ journal'.failed
  BY DisarmedIs DEF RunInv
<1>5. /\ journal'.log = journal.log
      /\ journal'.armed => journal.armed
  BY <1>1, <1>a
<1>6. Generation' = Generation
  BY <1>5 DEF Generation
<1>7. ProfileRunTypeOK'
  <2>1. journal'.out = "Drive" /\ ~journal'.failed => loop'.full
    <3>1. CASE journal' = journal
      BY <1>3, <3>1 DEF RunInv, ProfileRunTypeOK
    <3>2. CASE journal' \in Disarmed(journal)
      BY <1>a, <3>2, DisarmsSafely
    <3>3. QED BY <1>1, <3>1, <3>2
  <2>2. QED
    BY <1>2, <1>3, <1>5, <1>6, <2>1, Bounds DEF RunInv, ProfileRunTypeOK, Paced, Looping
<1>8. Paced'
  BY <1>2, <1>3, <1>6 DEF RunInv, Paced, Looping
<1>9. InForce' /\ NextInForce'
  BY <1>3, <1>5, <1>6 DEF RunInv, InForce, NextInForce, Looping, Ended
<1>10. OnTime'
  BY <1>3, <1>5, <1>6 DEF RunInv, OnTime, AllBefore, Ended
<1>11. RecordsAreTrue' /\ AcceptedIsComplete'
  BY <1>2, <1>3, <1>5, <1>6 DEF RunInv, RecordsAreTrue, AcceptedIsComplete
<1>12. Counted'
  BY <1>2, <1>3, <1>4 DEF RunInv, Counted
<1>13. Driven'
  BY <1>3, <1>4, <1>5 DEF RunInv, Driven
<1>14. ShutdownIsSafe' /\ ErrorCoasts' /\ DriveIsTimely'
  <2>1. loop'.outcome = "None"
    BY <1>3, NoOutcomeYet
  <2>2. CASE journal' \in Disarmed(journal)
    BY <1>3, <1>a, <2>1, <2>2, DisarmsSafely
  <2>3. CASE journal' = journal /\ ~(journal' \in Disarmed(journal))
    BY <1>1, <1>3, <2>1, <2>3
    DEF RunInv, ShutdownIsSafe, ErrorCoasts, DriveIsTimely
  <2>4. QED BY <1>1, <2>2, <2>3
<1>15. QED
  BY <1>7, <1>8, <1>9, <1>10, <1>11, <1>12, <1>13, <1>14 DEF RunInv

\* The last command stays in force, and it came in time.
LEMMA NothingToApplyKeeps ==
    ASSUME RunInv, NothingToApply, RunTypes'
    PROVE  RunInv'
<1> USE DEF RunTypes, RunDomains
<1>1. /\ loop.pc = "apply"
      /\ UNCHANGED <<now, irq, tick, sampler, bins, journal, records>>
      /\ loop' = [loop EXCEPT !.pc = "record", !.from = Generation]
  BY DEF NothingToApply
<1>2. /\ loop'.pc = "record" /\ loop'.from = Generation
      /\ loop'.full = loop.full /\ loop'.epoch = loop.epoch
      /\ loop'.current = loop.current /\ loop'.outcome = loop.outcome
      /\ loop'.error = loop.error /\ loop'.unqualified = loop.unqualified
      /\ loop'.valid = loop.valid /\ loop'.next = loop.next
  BY <1>1
<1>3. Generation' = Generation /\ Generation \in Nat
  BY <1>1 DEF Generation
<1>4. ProfileRunTypeOK'
  BY <1>1, <1>2, <1>3 DEF RunInv, ProfileRunTypeOK
<1>5. Paced'
  BY <1>1, <1>2, <1>3 DEF RunInv, Paced, Looping
<1>6. InForce'
  BY <1>1, <1>2, <1>3 DEF RunInv, InForce, Looping, Ended
<1>7. NextInForce'
  <2>1. SUFFICES ASSUME ~loop.error
                 PROVE  NextInForce'
    BY <1>2 DEF NextInForce
  <2>2. Generation \in 1..Generation
    BY <1>1, <1>3 DEF RunInv, InForce, Looping
  <2>3. AllBefore(loop.epoch + 1)
    BY <1>1, <2>1 DEF RunInv, OnTime
  <2>4. QED BY <1>1, <1>2, <1>3, <2>2, <2>3 DEF NextInForce, AllBefore, Ended
<1>8. OnTime'
  <2>1. SUFFICES ASSUME ~loop.error, NEW g \in 1..Generation
                 PROVE  Ended(g) < End(loop.epoch + 2)
    BY <1>1, <1>2, <1>3 DEF OnTime, AllBefore, Ended
  <2>2. Ended(g) < End(loop.epoch + 1)
    BY <1>1, <2>1 DEF RunInv, OnTime, AllBefore
  <2>3. Ended(g) \in Nat
    <3>1. journal.log \in Seq(Commands)
      BY DEF RunInv
    <3>2. journal.log[g] \in Commands
      BY <2>1, <3>1 DEF Generation
    <3>3. QED BY <3>2 DEF Ended, Commands
  <2>4. loop.epoch \in Nat
    BY DEF RunInv
  <2>5. /\ End(loop.epoch) \in Nat
        /\ End(loop.epoch + 1) = End(loop.epoch) + 2
        /\ End(loop.epoch + 2) = End(loop.epoch) + 4
    BY <2>4, EndIsNat
  <2>6. QED BY <2>2, <2>3, <2>5
<1>9. RecordsAreTrue' /\ AcceptedIsComplete'
  BY <1>1, <1>2, <1>3
  DEF RunInv, RecordsAreTrue, RecordFits, InForce, Looping, Ended, AcceptedIsComplete
<1>10. Counted'
  BY <1>1, <1>2 DEF RunInv, Counted
<1>11. Driven' /\ ShutdownIsSafe' /\ ErrorCoasts' /\ DriveIsTimely'
  BY <1>1, <1>2
  DEF RunInv, Driven, ShutdownIsSafe, ErrorCoasts, DriveIsTimely, KnownCoast, End, E
<1>12. QED
  BY <1>4, <1>5, <1>6, <1>7, <1>8, <1>9, <1>10, <1>11 DEF RunInv

\* A command that is given after the end of the epoch changes nothing of what was
\* in force in it, or in an epoch before.
LEMMA GrowsInForce ==
    ASSUME RunInv, Looping, now >= End(loop.epoch),
           loop'.epoch = loop.epoch, loop'.current = loop.current,
           Generation \in Nat, Generation' = Generation + 1,
           \A g \in 1..Generation : journal'.log[g] = journal.log[g],
           journal'.log[Generation + 1].done = now
    PROVE  InForce'
<1> DEFINE new == Generation + 1
           cur == loop.current
           end == End(loop.epoch)
<1>1. /\ cur \in 1..Generation /\ Ended(cur) < end
      /\ \A g \in 1..Generation : g > cur => Ended(g) >= end
  BY DEF RunInv, InForce
<1>2. end' = end
  BY DEF End
<1>3. journal'.log[cur] = journal.log[cur]
  BY <1>1
<1>4. ASSUME NEW g \in 1..new, g > cur
      PROVE  journal'.log[g].done >= end
  <2>1. CASE g = new
    BY <2>1
  <2>2. CASE g \in 1..Generation
    BY <1>1, <1>4, <2>2 DEF Ended
  <2>3. QED BY <1>4, <2>1, <2>2
<1> HIDE DEF end
<1>5. QED
  BY <1>1, <1>2, <1>3, <1>4 DEF InForce, Ended, end

LEMMA GrowsRecords ==
    ASSUME RunInv, Looping, now >= End(loop.epoch), UNCHANGED records,
           loop'.epoch = loop.epoch, loop'.pc = "record", InForce',
           Generation \in Nat, Generation' = Generation + 1,
           \A g \in 1..Generation : journal'.log[g] = journal.log[g],
           journal'.log[Generation + 1].done = now
    PROVE  RecordsAreTrue'
<1> DEFINE new == Generation + 1
<1>1. loop'.pc = "record" => RecordFits'
  BY DEF InForce, Looping, RecordFits, Ended
<1>2. ASSUME NEW i \in 1..Len(records)
      PROVE  /\ records[i].gen \in 1..Generation
             /\ journal'.log[records[i].gen].done < End(i - 1)
             /\ \A g \in (records[i].gen + 1)..new : journal'.log[g].done >= End(i - 1)
  <2> DEFINE r == records[i].gen
             end == End(i - 1)
  <2>1. /\ r \in 1..Generation /\ journal.log[r].done < end
        /\ \A g \in (r + 1)..Generation : journal.log[g].done >= end
    BY DEF RunInv, RecordsAreTrue
  <2>2. /\ Len(records) = loop.epoch /\ loop.epoch \in Nat /\ now \in Nat
    BY DEF RunInv, RunTypes, Paced
  <2>3. end <= now /\ end \in Int
    <3>1. i \in 1..loop.epoch
      BY <2>2
    <3>2. QED BY <2>2, <3>1 DEF End, E
  <2>4. ASSUME NEW g \in (r + 1)..new
        PROVE  journal'.log[g].done >= end
    <3>1. CASE g = new
      BY <2>2, <2>3, <3>1
    <3>2. CASE g \in (r + 1)..Generation
      <4>1. g \in 1..Generation
        BY <2>1, <3>2
      <4>2. QED BY <2>1, <3>2, <4>1
    <3> HIDE DEF end, r
    <3>3. QED BY <2>1, <2>4, <3>1, <3>2
  <2>5. QED BY <2>1, <2>4
<1>3. QED
  <2>1. ASSUME NEW i \in 1..Len(records')
        PROVE  /\ records'[i].gen \in 1..Generation'
               /\ journal'.log[records'[i].gen].done < End(i - 1)
               /\ \A g \in (records'[i].gen + 1)..Generation' :
                    journal'.log[g].done >= End(i - 1)
    <3>1. i \in 1..Len(records)
      OBVIOUS
    <3>2. QED BY <1>2, <3>1
  <2>2. QED BY <1>1, <2>1 DEF RecordsAreTrue, End, E

\* A command that is rejected now is later than the end of the epoch, and the
\* record of the epoch is the last.
LEMMA RejectKeeps ==
    ASSUME RunInv, RunTypes', loop.pc \in {"apply", "applying"},
           journal' \in Rejected(journal, loop.next),
           UNCHANGED <<now, irq, tick, sampler, bins, records>>,
           loop'.pc = "record", loop'.error,
           loop'.full = loop.full, loop'.epoch = loop.epoch,
           loop'.from = loop.from, loop'.current = loop.current,
           loop'.outcome = loop.outcome, loop'.valid = loop.valid,
           loop'.next = loop.next
    PROVE  RunInv'
<1> USE DEF RunTypes, RunDomains
<1>1. /\ now \in Nat /\ loop.epoch \in Nat /\ now >= End(loop.epoch)
      /\ loop.next \in Requested /\ Looping /\ loop.outcome = "None"
  BY NoOutcomeYet DEF RunInv, Paced, Looping
<1>2. /\ journal'.armed = FALSE /\ journal'.out \in Requested
      /\ journal'.log = Append(journal.log, Ordered(loop.next))
      /\ KnownCoast(journal') \/ journal'.failed
  BY JournalRejects DEF RunInv
<1>3. /\ Generation \in Nat /\ Generation' = Generation + 1
      /\ \A g \in 1..Generation : journal'.log[g] = journal.log[g]
      /\ journal'.log[Generation + 1].done = now
  BY <1>1, <1>2, LogGrows DEF RunInv
<1>4. ProfileRunTypeOK'
  <2>1. loop.current \in 0..(Generation + 1)
    BY DEF RunInv, ProfileRunTypeOK
  <2>2. loop'.current \in 0..(Generation' + 1)
    BY <1>3, <2>1
  <2>3. journal'.out = "Drive" /\ ~journal'.failed => loop'.full
    BY <1>2, DisarmsSafely
  <2>4. QED
    BY <2>2, <2>3 DEF RunInv, ProfileRunTypeOK
<1>5. Paced'
  BY <1>1, <1>3 DEF RunInv, Paced, Looping
<1>6. InForce'
  BY <1>1, <1>3, GrowsInForce
<1>7. NextInForce' /\ OnTime'
  BY DEF NextInForce, OnTime
<1>8. RecordsAreTrue'
  BY <1>1, <1>3, <1>6, GrowsRecords
<1>9. Counted' /\ AcceptedIsComplete'
  BY DEF RunInv, Counted, AcceptedIsComplete
<1>10. Driven'
  BY <1>2 DEF RunInv, Driven
<1>11. ShutdownIsSafe' /\ ErrorCoasts' /\ DriveIsTimely'
  BY <1>1, <1>2, DisarmsSafely
<1>12. QED
  BY <1>4, <1>5, <1>6, <1>7, <1>8, <1>9, <1>10, <1>11 DEF RunInv

LEMMA StartApplyKeeps ==
    ASSUME RunInv, StartApply, RunTypes'
    PROVE  RunInv'
<1> USE DEF RunTypes, RunDomains
<1>1. /\ loop.pc = "apply" /\ ~loop.error /\ ~loop.unqualified
      /\ loop.epoch + 1 < Epochs
      /\ UNCHANGED <<now, irq, tick, sampler, bins, records>>
  BY DEF StartApply
<1>2. CASE now >= HardDeadline
  <2>1. /\ loop' = [Fatal(loop) EXCEPT !.pc = "record"]
        /\ journal' \in Rejected(journal, loop.next)
    BY <1>2 DEF StartApply
  <2>2. /\ loop'.pc = "record" /\ loop'.error
        /\ loop'.full = loop.full /\ loop'.epoch = loop.epoch
        /\ loop'.from = loop.from /\ loop'.current = loop.current
        /\ loop'.outcome = loop.outcome /\ loop'.valid = loop.valid
        /\ loop'.next = loop.next
    BY <2>1 DEF RunInv, Fatal
  <2>3. QED BY <1>1, <2>1, <2>2, RejectKeeps
<1>3. CASE ~(now >= HardDeadline)
  <2>1. loop' = [loop EXCEPT !.pc = "applying"] /\ journal' = journal
    BY <1>3 DEF StartApply
  <2>2. /\ loop'.pc = "applying" /\ loop'.error = loop.error
        /\ loop'.unqualified = loop.unqualified
        /\ loop'.full = loop.full /\ loop'.epoch = loop.epoch
        /\ loop'.from = loop.from /\ loop'.current = loop.current
        /\ loop'.outcome = loop.outcome /\ loop'.valid = loop.valid
        /\ loop'.next = loop.next
    BY <2>1 DEF RunInv
  <2>3. Generation' = Generation
    BY <2>1 DEF Generation
  <2>4. ProfileRunTypeOK'
    BY <1>1, <2>1, <2>2, <2>3 DEF RunInv, ProfileRunTypeOK
  <2>5. Paced'
    BY <1>1, <2>2, <2>3 DEF RunInv, Paced, Looping
  <2>6. InForce' /\ NextInForce'
    BY <1>1, <2>1, <2>2, <2>3 DEF RunInv, InForce, NextInForce, Looping, Ended
  <2>7. OnTime'
    BY <1>1, <2>1, <2>2, <2>3 DEF RunInv, OnTime, AllBefore, Ended
  <2>8. RecordsAreTrue' /\ AcceptedIsComplete'
    BY <1>1, <2>1, <2>2, <2>3 DEF RunInv, RecordsAreTrue, AcceptedIsComplete
  <2>9. Counted'
    BY <1>1, <2>2 DEF RunInv, Counted
  <2>10. Driven' /\ ShutdownIsSafe' /\ ErrorCoasts'
    BY <1>1, <2>1, <2>2 DEF RunInv, Driven, ShutdownIsSafe, ErrorCoasts, KnownCoast
  <2>11. DriveIsTimely'
    BY <1>1, <2>1, <2>2 DEF RunInv, DriveIsTimely, End, E
  <2>12. QED
    BY <2>4, <2>5, <2>6, <2>7, <2>8, <2>9, <2>10, <2>11 DEF RunInv
<1>4. QED BY <1>2, <1>3

\* A write that succeeds is not in the log yet; one that fails is rejected.
LEMMA WriteMotorKeeps ==
    ASSUME RunInv, WriteMotor, RunTypes'
    PROVE  RunInv'
<1> USE DEF RunTypes, RunDomains
<1>1. /\ loop.pc = "applying" /\ ~loop.error /\ ~loop.unqualified
      /\ UNCHANGED <<now, irq, tick, sampler, bins, records>>
  BY DEF WriteMotor, RunInv, Driven
<1>2. PICK ok \in BOOLEAN : WriteMotor!2!(ok)
  BY DEF WriteMotor
<1>3. CASE ~(ok /\ (loop.next = "Drive" => journal.armed))
  <2>1. /\ loop' = [Fatal(loop) EXCEPT !.pc = "record",
                      !.faults = IF ok THEN @ ELSE @ + 1]
        /\ journal' \in Rejected(journal, loop.next)
    BY <1>2, <1>3
  <2>2. /\ loop'.pc = "record" /\ loop'.error
        /\ loop'.full = loop.full /\ loop'.epoch = loop.epoch
        /\ loop'.from = loop.from /\ loop'.current = loop.current
        /\ loop'.outcome = loop.outcome /\ loop'.valid = loop.valid
        /\ loop'.next = loop.next
    BY <2>1 DEF RunInv, Fatal
  <2>3. QED BY <1>1, <2>1, <2>2, RejectKeeps
<1>4. CASE ok /\ (loop.next = "Drive" => journal.armed)
  <2>1. /\ loop' = [loop EXCEPT !.pc = "applied"]
        /\ journal' = [journal EXCEPT !.out = loop.next, !.failed = FALSE]
    BY <1>2, <1>4
  <2>2. /\ loop'.pc = "applied" /\ loop'.error = loop.error
        /\ loop'.unqualified = loop.unqualified
        /\ loop'.full = loop.full /\ loop'.epoch = loop.epoch
        /\ loop'.from = loop.from /\ loop'.current = loop.current
        /\ loop'.outcome = loop.outcome /\ loop'.valid = loop.valid
        /\ loop'.next = loop.next
    BY <2>1 DEF RunInv
  <2>3. /\ journal'.armed = journal.armed /\ journal'.log = journal.log
        /\ journal'.out = loop.next /\ journal'.failed = FALSE
    BY <2>1 DEF RunInv
  <2>4. Generation' = Generation
    BY <2>3 DEF Generation
  <2>5. ProfileRunTypeOK'
    BY <1>1, <2>2, <2>3, <2>4 DEF RunInv, ProfileRunTypeOK, Driven
  <2>6. Paced'
    BY <1>1, <2>2, <2>4 DEF RunInv, Paced, Looping
  <2>7. InForce' /\ NextInForce'
    BY <1>1, <2>2, <2>3, <2>4 DEF RunInv, InForce, NextInForce, Looping, Ended
  <2>8. OnTime'
    BY <1>1, <2>2, <2>3, <2>4 DEF RunInv, OnTime, AllBefore, Ended
  <2>9. RecordsAreTrue' /\ AcceptedIsComplete'
    BY <1>1, <2>2, <2>3, <2>4 DEF RunInv, RecordsAreTrue, AcceptedIsComplete
  <2>10. Counted'
    BY <1>1, <2>2 DEF RunInv, Counted
  <2>11. Driven'
    BY <1>1, <2>2, <2>3 DEF RunInv, Driven
  <2>12. ShutdownIsSafe' /\ ErrorCoasts' /\ DriveIsTimely'
    BY <1>1, <2>2, NoOutcomeYet DEF ShutdownIsSafe, ErrorCoasts, DriveIsTimely
  <2>13. QED
    BY <2>5, <2>6, <2>7, <2>8, <2>9, <2>10, <2>11, <2>12 DEF RunInv
<1>5. QED BY <1>3, <1>4

\* A command that is completed before the next epoch ends is the command of that
\* epoch; otherwise it is the last of those that were given before.
LEMMA FinishApplyKeeps ==
    ASSUME RunInv, FinishApply, RunTypes'
    PROVE  RunInv'
<1> USE DEF RunTypes, RunDomains
<1>1. /\ loop.pc = "applied"
      /\ UNCHANGED <<now, irq, tick, sampler, bins, records>>
  BY DEF FinishApply
<1>2. /\ now \in Nat /\ loop.epoch \in Nat /\ now >= End(loop.epoch)
      /\ loop.next \in Requested /\ Looping /\ loop.epoch < Epochs
  BY <1>1 DEF RunInv, Paced, Looping
<1>3. ~loop.error /\ ~loop.unqualified
  BY <1>1 DEF RunInv, Driven
<1> DEFINE late  == now >= HardDeadline
           given == Applied(journal, loop.next)
           from  == IF Slipped THEN Generation ELSE Generation + 1
<1>4. /\ journal' \in IF late THEN Disarmed(given) ELSE {given}
      /\ loop' = [loop EXCEPT !.pc = "record", !.error = @ \/ late, !.from = from]
  BY DEF FinishApply
<1>0. /\ End(loop.epoch) \in Nat
      /\ End(loop.epoch + 1) = End(loop.epoch) + 2
      /\ End(loop.epoch + 2) = End(loop.epoch) + 4
  BY <1>2, EndIsNat
<1>5. late <=> now >= End(loop.epoch + 2)
  <2>1. HardDeadline = End(loop.epoch) + 4
    BY <1>0 DEF HardDeadline, E
  <2>2. QED BY <1>0, <2>1
<1> HIDE DEF late, from
<1>6. /\ loop'.pc = "record" /\ loop'.from = from
      /\ (loop'.error <=> loop.error \/ late)
      /\ loop'.unqualified = loop.unqualified
      /\ loop'.full = loop.full /\ loop'.epoch = loop.epoch
      /\ loop'.current = loop.current /\ loop'.outcome = loop.outcome
      /\ loop'.valid = loop.valid /\ loop'.next = loop.next
  BY <1>4 DEF RunInv
<1>7. /\ journal'.log = Append(journal.log, Ordered(loop.next))
      /\ journal'.armed => journal.armed
      /\ late => /\ journal'.armed = FALSE /\ journal'.out \in Requested
                 /\ KnownCoast(journal') \/ journal'.failed
      /\ ~late => journal'.out = loop.next
  <2>1. /\ DOMAIN given = {"armed", "out", "failed", "log"}
        /\ given.out = loop.next /\ given.armed = journal.armed
        /\ given.log = Append(journal.log, Ordered(loop.next))
    BY DEF RunInv, Applied
  <2> HIDE DEF given
  <2>2. CASE late
    <3>1. journal' \in Disarmed(given) /\ given.out \in Requested
      BY <1>2, <1>4, <2>1, <2>2
    <3>2. /\ journal'.log = given.log /\ journal'.armed = FALSE
          /\ journal'.out \in Requested
          /\ KnownCoast(journal') \/ journal'.failed
      BY <2>1, <3>1, DisarmedIs
    <3>3. QED BY <2>1, <2>2, <3>2
  <2>3. CASE ~late
    BY <1>4, <2>1, <2>3
  <2>4. QED BY <2>2, <2>3
<1> HIDE DEF given
<1>8. /\ Generation \in Nat /\ Generation' = Generation + 1
      /\ \A g \in 1..Generation : journal'.log[g] = journal.log[g]
      /\ journal'.log[Generation + 1].done = now
      /\ Last(journal'.log) = Ordered(loop.next)
  BY <1>2, <1>7, LogGrows DEF RunInv
<1>9. ProfileRunTypeOK'
  <2>1. loop.current \in 0..(Generation + 1)
    BY DEF RunInv, ProfileRunTypeOK
  <2>2. loop'.current \in 0..(Generation' + 1)
    BY <1>6, <1>8, <2>1
  <2>3. journal'.out = "Drive" /\ ~journal'.failed => loop'.full
    BY <1>6, <1>7, DisarmsSafely DEF RunInv, Driven
  <2>4. QED
    BY <1>1, <1>6, <2>2, <2>3 DEF RunInv, ProfileRunTypeOK
<1>10. Paced'
  <2>1. from \in 0..Generation'
    BY <1>8 DEF from
  <2>2. QED
    BY <1>1, <1>2, <1>6, <2>1 DEF RunInv, Paced, Looping
<1>11. InForce'
  BY <1>2, <1>6, <1>8, GrowsInForce
<1>12. NextInForce' /\ OnTime'
  <2>1. SUFFICES ASSUME ~loop.error, ~late
                 PROVE  NextInForce' /\ OnTime'
    BY <1>6 DEF NextInForce, OnTime
  <2>2. \A g \in 1..Generation : journal'.log[g].done < End(loop.epoch + 1)
    BY <1>1, <1>8, <2>1 DEF RunInv, OnTime, AllBefore, Ended
  <2>3. /\ now < End(loop.epoch + 2)
        /\ End(loop.epoch + 1) \in Nat
        /\ End(loop.epoch + 2) = End(loop.epoch + 1) + 2
    <3>1. ~(now >= End(loop.epoch + 2))
      BY <1>5, <2>1
    <3>2. /\ End(loop.epoch + 1) \in Nat /\ End(loop.epoch + 2) \in Nat
          /\ End(loop.epoch + 2) = End(loop.epoch + 1) + 2
      BY <1>0
    <3>3. now < End(loop.epoch + 2)
      BY <1>2, <3>1, <3>2
    <3>4. QED BY <3>2, <3>3
  <2>4. Slipped <=> now >= End(loop.epoch + 1)
    BY DEF Slipped
  <2>5. Generation \in 1..Generation
    <3>1. loop.current \in 1..Generation
      BY <1>2 DEF RunInv, InForce
    <3>2. QED BY <1>8, <3>1
  <2>6. ASSUME NEW g \in 1..(Generation + 1)
        PROVE  /\ journal'.log[g].done < End(loop.epoch + 2)
               /\ g > from => journal'.log[g].done >= End(loop.epoch + 1)
    <3>1. CASE g = Generation + 1
      <4>1. journal'.log[g].done = now
        BY <1>8, <3>1
      <4>2. ~(Generation + 1 > Generation + 1)
        BY <1>8
      <4>3. g > from => Slipped
        BY <3>1, <4>2 DEF from
      <4>4. QED BY <2>3, <2>4, <4>1, <4>3
    <3>2. CASE g \in 1..Generation
      <4>1. journal'.log[g].done \in Nat
        <5>1. journal.log \in Seq(Commands)
          BY DEF RunInv
        <5>2. journal.log[g] \in Commands
          BY <3>2, <5>1 DEF Generation
        <5>3. QED BY <1>8, <3>2, <5>2 DEF Commands
      <4>2. ~(g > from)
        BY <1>8, <3>2 DEF from
      <4>3. QED BY <2>2, <2>3, <3>2, <4>1, <4>2
    <3>3. QED BY <1>8, <2>6, <3>1, <3>2
  <2>7. from \in 1..(Generation + 1) /\ journal'.log[from].done < End(loop.epoch + 1)
    <3>1. CASE Slipped
      BY <1>8, <2>2, <2>5, <3>1 DEF from
    <3>2. CASE ~Slipped
      <4>1. from = Generation + 1
        BY <3>2 DEF from
      <4>2. now < End(loop.epoch + 1)
        BY <1>2, <2>3, <2>4, <3>2
      <4>3. QED BY <1>8, <4>1, <4>2
    <3>3. QED BY <3>1, <3>2
  <2>8. NextInForce'
    BY <1>6, <1>8, <2>6, <2>7 DEF NextInForce, Ended, End, E
  <2>9. OnTime'
    BY <1>6, <1>8, <2>6 DEF OnTime, AllBefore, Ended, End, E
  <2>10. QED BY <2>8, <2>9
<1>13. RecordsAreTrue'
  BY <1>1, <1>2, <1>6, <1>8, <1>11, GrowsRecords
<1>14. Counted' /\ AcceptedIsComplete'
  BY <1>1, <1>6 DEF RunInv, Counted, AcceptedIsComplete
<1>15. Driven'
  BY <1>6, <1>7 DEF RunInv, Driven
<1>16. ShutdownIsSafe' /\ ErrorCoasts' /\ DriveIsTimely'
  <2>1. loop'.outcome = "None"
    BY <1>1, <1>6, NoOutcomeYet
  <2>2. CASE late
    BY <1>6, <1>7, <2>1, <2>2, DisarmsSafely
  <2>3. CASE ~late
    <3>1. ShutdownIsSafe' /\ ErrorCoasts'
      BY <1>3, <1>6, <2>1, <2>3 DEF ShutdownIsSafe, ErrorCoasts
    <3>2. /\ Last(journal'.log).cmd = loop.next
          /\ Last(journal'.log).of = loop.epoch /\ Last(journal'.log).done = now
      BY <1>8 DEF Ordered
    <3>3. now < End(loop.epoch) + 2 * E
      BY <1>0, <1>2, <1>5, <2>3 DEF E
    <3>4. DriveIsTimely'
      BY <1>7, <2>3, <3>2, <3>3 DEF DriveIsTimely, End, E
    <3>5. QED BY <3>1, <3>4
  <2>4. QED BY <2>2, <2>3
<1>17. QED
  BY <1>9, <1>10, <1>11, <1>12, <1>13, <1>14, <1>15, <1>16 DEF RunInv

LEMMA OneMore ==
    ASSUME NEW n \in Nat, NEW i \in 1..(n + 1)
    PROVE  /\ i \in 1..n \/ i = n + 1
           /\ i = n + 1 => i - 1 = n
           /\ i \in 2..(n + 1) => i \in 2..n \/ (i = n + 1 /\ n # 0)
  OBVIOUS

\* The record of an epoch says what was in force in it; the next epoch begins with
\* what is in force by then.
LEMMA EnqueueKeeps ==
    ASSUME RunInv, Enqueue, RunTypes'
    PROVE  RunInv'
<1> USE DEF RunTypes, RunDomains
<1>1. /\ loop.pc = "record" /\ UNCHANGED <<now, irq, tick, sampler, bins>>
  BY DEF Enqueue
<1>2. /\ now \in Nat /\ loop.epoch \in Nat /\ now >= End(loop.epoch)
      /\ Looping /\ loop.epoch < Epochs /\ Len(records) = loop.epoch
      /\ Epochs \in Nat
  BY <1>1, Bounds DEF RunInv, Paced, Looping
<1>3. PICK taken \in BOOLEAN : Enqueue!2!(taken)
  BY DEF Enqueue
<1> DEFINE stops == RunStops(taken)
           r     == [gen |-> loop.current, valid |-> loop.valid]
<1>4. /\ records' = IF taken THEN Append(records, r) ELSE records
      /\ journal' \in IF ~taken \/ (stops /\ journal.armed) THEN Disarmed(journal)
                                                         ELSE {journal}
      /\ loop' = [loop EXCEPT
                    !.error = @ \/ ~taken, !.faults = IF taken THEN @ ELSE @ + 1,
                    !.epoch = @ + 1, !.current = loop.from,
                    !.pc = IF stops \/ loop.epoch + 1 = Epochs THEN "shutdown" ELSE "wait"]
  BY <1>3
<1>5. stops <=> loop.error \/ loop.unqualified \/ ~taken
  BY DEF RunStops
<1> HIDE DEF stops
<1>6. /\ loop'.pc = IF stops \/ loop.epoch + 1 = Epochs THEN "shutdown" ELSE "wait"
      /\ (loop'.error <=> loop.error \/ ~taken)
      /\ loop'.unqualified = loop.unqualified
      /\ loop'.full = loop.full /\ loop'.epoch = loop.epoch + 1
      /\ loop'.from = loop.from /\ loop'.current = loop.from
      /\ loop'.outcome = loop.outcome
      /\ loop'.valid = loop.valid /\ loop'.next = loop.next
  BY <1>4
<1>7. /\ journal'.log = journal.log
      /\ journal'.armed => journal.armed
      /\ \/ journal' = journal /\ (stops => ~journal.armed) /\ taken
         \/ /\ journal'.armed = FALSE /\ journal'.out \in Requested
            /\ KnownCoast(journal') \/ journal'.failed
  <2>1. CASE ~taken \/ (stops /\ journal.armed)
    BY <1>4, <2>1, DisarmedIs DEF RunInv
  <2>2. CASE ~(~taken \/ (stops /\ journal.armed))
    BY <1>4, <2>2
  <2>3. QED BY <2>1, <2>2
<1>8. Generation' = Generation /\ Generation \in Nat
  <2>1. journal.log \in Seq(Commands)
    BY DEF RunInv
  <2>2. QED BY <1>7, <2>1 DEF Generation
<1>9. /\ r \in [gen : Nat, valid : BOOLEAN]
      /\ r.gen = loop.current /\ r.valid = loop.valid
  BY DEF RunInv
<1> HIDE DEF r
<1>10. taken => /\ Len(records') = loop.epoch + 1
                /\ \A i \in 1..loop.epoch : records'[i] = records[i]
                /\ records'[loop.epoch + 1] = r
  <2>1. records \in Seq([gen : Nat, valid : BOOLEAN])
    BY DEF RunInv
  <2>2. QED BY <1>2, <1>4, <1>9, <2>1
<1>11. ~taken => records' = records
  BY <1>4
<1>12. /\ End(loop.epoch) \in Nat
       /\ End(loop.epoch + 1) = End(loop.epoch) + 2
       /\ End(loop.epoch + 2) = End(loop.epoch) + 4
  BY <1>2, EndIsNat
<1>13. loop.from \in 0..Generation
  BY DEF RunInv, Paced
<1>14. ProfileRunTypeOK'
  <2>1. loop'.current \in 0..(Generation' + 1)
    BY <1>6, <1>8, <1>13
  <2>2. loop'.epoch \in 0..Epochs
    BY <1>2, <1>6
  <2>3. journal'.out = "Drive" /\ ~journal'.failed => loop'.full
    BY <1>6, <1>7, DisarmsSafely DEF RunInv, ProfileRunTypeOK
  <2>4. QED BY <1>1, <1>6, <1>7, <2>1, <2>2, <2>3 DEF RunInv, ProfileRunTypeOK
<1>15. Paced'
  <2>1. loop'.pc = "wait" => loop'.epoch < Epochs /\ Len(records') = loop'.epoch
    <3>1. SUFFICES ASSUME ~stops, loop.epoch + 1 # Epochs
                   PROVE  loop'.epoch < Epochs /\ Len(records') = loop'.epoch
      BY <1>6
    <3>2. loop'.epoch = loop.epoch + 1 /\ taken
      BY <1>5, <1>6, <3>1
    <3>3. loop.epoch + 1 < Epochs
      BY <1>2, <3>1
    <3>4. QED BY <1>10, <3>2, <3>3
  <2>2. loop'.epoch # 0
    BY <1>2, <1>6
  <2>3. loop'.pc \in {"wait", "shutdown"}
    BY <1>6
  <2>4. loop'.from \in 0..Generation'
    BY <1>6, <1>8, <1>13
  <2>5. QED BY <2>1, <2>2, <2>3, <2>4 DEF Paced, Looping
<1>16. InForce'
  <2>1. SUFFICES ASSUME ~stops
                 PROVE  InForce'
    BY <1>6 DEF InForce, Looping
  <2>2. NextInForce /\ ~loop.error /\ ~loop.unqualified
    BY <1>5, <2>1 DEF RunInv
  <2>3. QED BY <1>1, <1>6, <1>7, <1>8, <2>2 DEF NextInForce, InForce, Ended, End, E
<1>17. NextInForce'
  BY <1>6 DEF NextInForce
<1>18. OnTime'
  <2>1. SUFFICES ASSUME ~stops
                 PROVE  OnTime'
    BY <1>6 DEF OnTime
  <2>2. AllBefore(loop.epoch + 2)
    BY <1>1, <1>5, <2>1 DEF RunInv, OnTime
  <2>3. loop'.epoch + 1 = loop.epoch + 2
    BY <1>2, <1>6
  <2>4. \A g \in 1..Generation : Ended(g) < End(loop.epoch + 2)
    BY <2>2 DEF AllBefore
  <2>5. \A g \in 1..Generation' : journal'.log[g].done < End(loop'.epoch + 1)
    BY <1>7, <1>8, <2>3, <2>4 DEF Ended
  <2>6. loop'.pc \in {"wait", "shutdown"}
    BY <1>6
  <2>7. QED BY <2>5, <2>6 DEF OnTime, AllBefore, Ended, End, E
<1>19. RecordsAreTrue'
  <2> DEFINE True(e, g) ==
               /\ g \in 1..Generation /\ Ended(g) < End(e)
               /\ \A h \in (g + 1)..Generation : Ended(h) >= End(e)
  <2>1. \A i \in 1..Len(records) : True(i - 1, records[i].gen)
    BY DEF RunInv, RecordsAreTrue, Ended
  <2>2. True(loop.epoch, loop.current)
    <3>1. /\ loop.current \in 1..Generation
          /\ Ended(loop.current) < End(loop.epoch)
          /\ \A h \in 1..Generation : h > loop.current => Ended(h) >= End(loop.epoch)
      BY <1>2 DEF RunInv, InForce
    <3>2. ASSUME NEW h \in (loop.current + 1)..Generation
          PROVE  Ended(h) >= End(loop.epoch)
      <4>1. h \in 1..Generation /\ h > loop.current
        BY <1>8, <3>1
      <4>2. QED BY <3>1, <4>1
    <3>3. QED BY <3>1, <3>2
  <2>3. ASSUME NEW i \in 1..Len(records')
        PROVE  True(i - 1, records'[i].gen)
    <3> HIDE DEF True
    <3>1. CASE ~taken
      BY <1>11, <2>1, <2>3, <3>1
    <3>2. CASE taken
      <4>1. i \in 1..(loop.epoch + 1)
        BY <1>10, <2>3, <3>2
      <4>2. CASE i \in 1..loop.epoch
        BY <1>2, <1>10, <2>1, <3>2, <4>2
      <4>3. CASE i = loop.epoch + 1
        <5>1. i - 1 = loop.epoch /\ records'[i].gen = loop.current
          <6>1. i - 1 = loop.epoch
            BY <1>2, <4>1, <4>3, OneMore
          <6>2. records'[i] = r
            BY <1>10, <3>2, <4>3
          <6>3. QED BY <1>9, <6>1, <6>2
        <5>2. QED BY <2>2, <5>1
      <4>4. QED BY <1>2, <4>1, <4>2, <4>3, OneMore
    <3>3. QED BY <3>1, <3>2
  <2>4. QED BY <1>6, <1>7, <1>8, <2>3 DEF RecordsAreTrue, Ended, End, E
<1>20. Counted'
  <2>1. loop'.pc = "shutdown" /\ ~loop'.error /\ ~loop'.unqualified
          => Len(records') = Epochs
    <3>1. SUFFICES ASSUME ~stops, loop.epoch + 1 = Epochs, taken
                   PROVE  Len(records') = Epochs
      BY <1>5, <1>6
    <3>2. QED BY <1>10, <3>1
  <2>2. ASSUME ~bins'.incomplete, NEW i \in 2..Len(records')
        PROVE  records'[i].valid
    <3>1. /\ \A j \in 2..Len(records) : records[j].valid
          /\ loop.epoch # 0 => loop.valid
      BY <1>1, <2>2 DEF RunInv, Counted
    <3>2. CASE ~taken
      BY <1>11, <2>2, <3>1, <3>2
    <3>3. CASE taken
      <4>0. i \in 2..(loop.epoch + 1)
        BY <1>10, <2>2, <3>3
      <4>1. i \in 2..loop.epoch \/ (i = loop.epoch + 1 /\ loop.epoch # 0)
        <5>1. i \in 1..(loop.epoch + 1)
          BY <4>0
        <5>2. QED BY <1>2, <4>0, <5>1, OneMore
      <4>2. CASE i \in 2..loop.epoch
        <5>1. i \in 1..loop.epoch /\ i \in 2..Len(records)
          BY <1>2, <4>2
        <5>2. QED BY <1>10, <3>1, <3>3, <5>1
      <4>3. CASE i = loop.epoch + 1 /\ loop.epoch # 0
        BY <1>9, <1>10, <3>1, <3>3, <4>3
      <4>4. QED BY <4>1, <4>2, <4>3
    <3>4. QED BY <3>2, <3>3
  <2>3. loop'.pc \in {"wait", "shutdown"} /\ loop'.outcome = "None"
    BY <1>1, <1>6 DEF RunInv, Counted
  <2>4. QED BY <2>1, <2>2, <2>3 DEF Counted
<1>21. AcceptedIsComplete'
  BY <1>1, <1>6 DEF RunInv, Counted, AcceptedIsComplete
<1>22. Driven'
  BY <1>6, <1>7 DEF RunInv, Driven
<1>23. ShutdownIsSafe' /\ ErrorCoasts' /\ DriveIsTimely'
  <2>1. loop'.pc \in {"wait", "shutdown"} /\ loop'.outcome = "None"
    BY <1>1, <1>6, NoOutcomeYet
  <2>2. CASE journal' = journal /\ taken
    BY <1>1, <1>6, <2>1, <2>2
    DEF RunInv, ShutdownIsSafe, ErrorCoasts, DriveIsTimely, End, E
  <2>3. CASE /\ journal'.armed = FALSE /\ journal'.out \in Requested
             /\ KnownCoast(journal') \/ journal'.failed
    BY <2>1, <2>3, DisarmsSafely
  <2>4. QED BY <1>7, <2>2, <2>3
<1>24. QED
  BY <1>14, <1>15, <1>16, <1>17, <1>18, <1>19, <1>20, <1>21, <1>22, <1>23 DEF RunInv

\* The shutdown gives no command; only Finish accepts, when nothing was held
\* against the run.
LEMMA EndKeeps ==
    ASSUME RunInv, ShutDown \/ NotifySampler \/ Finish, RunTypes'
    PROVE  RunInv'
<1> USE DEF RunTypes, RunDomains
<1>1. /\ UNCHANGED <<now, irq, bins, records>>
      /\ loop.pc \in {"shutdown", "stopping", "stopped"}
  BY DEF ShutDown, NotifySampler, Finish
<1>2. /\ loop'.pc \in {"stopping", "stopped", "done"}
      /\ loop'.pc = "done" => loop.pc = "stopped"
      /\ loop'.full = loop.full /\ loop'.epoch = loop.epoch
      /\ loop'.from = loop.from /\ loop'.current = loop.current
      /\ (loop.error => loop'.error) /\ loop'.unqualified = loop.unqualified
      /\ loop'.next = loop.next
      /\ (Finish /\ loop'.pc = "done") \/ loop'.outcome = loop.outcome
  <2>1. CASE ShutDown
    <3>1. PICK noticed \in BOOLEAN : ShutDown!2!(noticed)
      BY <2>1 DEF ShutDown
    <3>2. loop' = [loop EXCEPT !.pc = "stopping", !.error = @ \/ noticed]
      BY <3>1
    <3>3. QED BY <3>2 DEF RunInv
  <2>2. CASE NotifySampler
    BY <2>2 DEF NotifySampler, RunInv
  <2>3. CASE Finish
    <3>1. PICK health \in {"good", "faulted", "unread"}, closed \in BOOLEAN :
            Finish!2!(health, closed)
      BY <2>3 DEF Finish
    <3>2. PICK faults, outcome :
            loop' = [loop EXCEPT !.pc = "done", !.faults = faults, !.outcome = outcome]
      BY <3>1
    <3>3. loop.pc = "stopped"
      BY <2>3 DEF Finish
    <3>4. QED BY <2>3, <3>2, <3>3 DEF RunInv
  <2>4. QED BY <2>1, <2>2, <2>3
<1>3. /\ journal'.log = journal.log
      /\ ~journal'.armed /\ journal'.out \in Requested
      /\ KnownCoast(journal') \/ (journal'.failed /\ loop'.error)
  <2>1. CASE ShutDown
    <3>1. PICK noticed \in BOOLEAN : ShutDown!2!(noticed)
      BY <2>1 DEF ShutDown
    <3>2. /\ journal' \in Disarmed(journal) /\ (journal'.failed => noticed)
          /\ loop' = [loop EXCEPT !.pc = "stopping", !.error = @ \/ noticed]
      BY <3>1
    <3>3. /\ journal'.log = journal.log
          /\ journal'.armed = FALSE /\ journal'.out \in Requested
          /\ KnownCoast(journal') \/ journal'.failed
      BY <3>2, DisarmedIs DEF RunInv
    <3>4. journal'.failed => loop'.error
      BY <3>2 DEF RunInv
    <3>5. QED BY <3>3, <3>4
  <2>2. CASE NotifySampler \/ Finish
    <3>1. journal' = journal /\ loop.pc \in {"stopping", "stopped"}
      BY <2>2 DEF NotifySampler, Finish
    <3>2. loop.error => loop'.error
      BY <1>2
    <3>3. ~journal.armed
      BY <3>1 DEF RunInv, ShutdownIsSafe
    <3>4. QED BY <3>1, <3>2, <3>3 DEF RunInv, ShutdownIsSafe, KnownCoast
  <2>3. QED BY <2>1, <2>2
<1>4. Generation' = Generation
  BY <1>3 DEF Generation
<1>5. ProfileRunTypeOK'
  <2>1. Len(tick'.queue) <= TickDepth /\ sampler'.queue = sampler.queue
    <3>1. sampler'.queue = sampler.queue
      BY DEF ShutDown, NotifySampler, Finish, RunInv
    <3>2. Len(tick.queue) <= TickDepth
      BY DEF RunInv, ProfileRunTypeOK
    <3>3. tick' = tick \/ tick'.queue = <<>>
      <4>1. CASE ShutDown
        BY <4>1 DEF ShutDown, NoTicks
      <4>2. CASE NotifySampler \/ Finish
        BY <4>2 DEF NotifySampler, Finish
      <4>3. QED BY <4>1, <4>2
    <3>4. QED BY <3>1, <3>2, <3>3, Bounds
  <2>2. journal'.out = "Drive" /\ ~journal'.failed => loop'.full
    BY <1>3 DEF KnownCoast
  <2>3. QED BY <1>1, <1>2, <1>3, <1>4, <2>1, <2>2 DEF RunInv, ProfileRunTypeOK
<1>6. Paced' /\ InForce' /\ NextInForce' /\ OnTime'
  BY <1>1, <1>2, <1>4 DEF RunInv, Paced, InForce, NextInForce, OnTime, Looping
<1>7. RecordsAreTrue'
  BY <1>1, <1>2, <1>3, <1>4 DEF RunInv, RecordsAreTrue
<1>8. Counted'
  BY <1>1, <1>2 DEF RunInv, Counted
<1>9. AcceptedIsComplete'
  <2>1. SUFFICES ASSUME loop'.outcome = "Accepted"
                 PROVE  AcceptedIsComplete'
    BY DEF AcceptedIsComplete
  <2>2. Finish /\ loop.pc = "stopped"
    <3>1. loop.outcome = "None"
      BY <1>1 DEF RunInv, Counted
    <3>2. Finish
      BY <1>2, <2>1, <3>1
    <3>3. QED BY <3>2 DEF Finish
  <2>3. ~bins.incomplete /\ ~loop.error /\ ~loop.unqualified
    <3>1. PICK health \in {"good", "faulted", "unread"}, closed \in BOOLEAN :
            Finish!2!(health, closed)
      BY <2>2 DEF Finish
    <3> DEFINE unsupported == Unsupported \/ health = "faulted"
               failed == \/ loop.error \/ loop.writer \/ ~closed
                         \/ loop.full /\ unsupported
                         \/ ~loop.full /\ ~unsupported /\ health = "unread"
                         \/ loop.unqualified /\ ~unsupported
    <3>2. loop'.outcome = IF failed THEN "Failed"
                          ELSE IF unsupported THEN "Unsupported" ELSE "Accepted"
      BY <3>1
    <3>3. ~failed /\ ~unsupported
      BY <2>1, <3>2
    <3>4. QED BY <3>3 DEF Unsupported
  <2>4. QED BY <1>1, <2>2, <2>3, Bounds DEF RunInv, Counted, AcceptedIsComplete
<1>10. Driven' /\ ErrorCoasts' /\ DriveIsTimely'
  BY <1>2, <1>3, DisarmsSafely DEF RunInv, Driven
<1>11. ShutdownIsSafe'
  <2>1. SUFFICES ASSUME loop'.outcome \in {"Accepted", "Unsupported"}
                 PROVE  KnownCoast(journal')
    BY <1>3 DEF ShutdownIsSafe
  <2>2. ~loop'.error
    <3>1. loop.outcome = "None"
      BY <1>1, NoOutcomeYet
    <3>2. Finish
      BY <1>2, <2>1, <3>1
    <3>3. PICK health \in {"good", "faulted", "unread"}, closed \in BOOLEAN :
            Finish!2!(health, closed)
      BY <3>2 DEF Finish
    <3> DEFINE unsupported == Unsupported \/ health = "faulted"
               failed == \/ loop.error \/ loop.writer \/ ~closed
                         \/ loop.full /\ unsupported
                         \/ ~loop.full /\ ~unsupported /\ health = "unread"
                         \/ loop.unqualified /\ ~unsupported
               faults == IF health = "good" /\ closed THEN loop.faults ELSE loop.faults + 1
               outcome == IF failed THEN "Failed"
                          ELSE IF unsupported THEN "Unsupported" ELSE "Accepted"
    <3>4. loop' = [loop EXCEPT !.pc = "done", !.faults = faults, !.outcome = outcome]
      BY <3>3
    <3>5. ~loop.error
      <4>1. loop'.outcome = outcome
        BY <3>4 DEF RunInv
      <4>2. QED BY <2>1, <4>1
    <3> HIDE DEF faults, outcome
    <3>6. QED BY <3>4, <3>5 DEF RunInv
  <2>3. QED BY <1>3, <2>2
<1>12. QED
  BY <1>5, <1>6, <1>7, <1>8, <1>9, <1>10, <1>11 DEF RunInv

-----------------------------------------------------------------------------
\* Together.

LEMMA RunInvInit == RunInit => RunInv
<1> SUFFICES ASSUME RunInit
             PROVE  RunInv
  OBVIOUS
<1>1. PICK full \in BOOLEAN, failed \in BOOLEAN, out \in {"Coast", "Drive"} :
        /\ out = "Drive" => failed
        /\ journal = [armed |-> full, out |-> out, failed |-> failed, log |-> <<>>]
        /\ loop = [pc |-> "setup", full |-> full, epoch |-> 0,
                   error |-> FALSE, unqualified |-> FALSE, stop |-> FALSE,
                   angle |-> FALSE, valid |-> FALSE, next |-> "Coast", from |-> 0,
                   current |-> 1, faults |-> 0, writer |-> FALSE, outcome |-> "None"]
  BY DEF RunInit
<1>2. RunTypes
  BY <1>1 DEF RunInit, RunTypes, RunDomains, NoTicks, NoBins, Requested
<1>3. Generation = 0
  BY <1>1 DEF Generation
<1>4. ProfileRunTypeOK
  BY <1>1, <1>3, Bounds DEF RunInit, ProfileRunTypeOK, NoTicks, NoBins
<1>5. Paced /\ InForce /\ NextInForce /\ OnTime
  BY <1>1, <1>3 DEF RunInit, Paced, InForce, NextInForce, OnTime, Looping
<1>6. RecordsAreTrue /\ Counted /\ AcceptedIsComplete
  BY <1>1 DEF RunInit, RecordsAreTrue, Counted, AcceptedIsComplete
<1>7. Driven /\ ShutdownIsSafe /\ ErrorCoasts /\ DriveIsTimely
  BY <1>1 DEF Driven, ShutdownIsSafe, ErrorCoasts, DriveIsTimely
<1>8. QED BY <1>2, <1>4, <1>5, <1>6, <1>7 DEF RunInv

LEMMA RunInvStep == RunInv /\ [RunNext]_runVars => RunInv'
<1> SUFFICES ASSUME RunInv, [RunNext]_runVars
             PROVE  RunInv'
  OBVIOUS
<1> DEFINE Other == TimePasses \/ MaskInterrupts \/ UnmaskInterrupts \/ TickInterrupt
                      \/ SampleInterrupt \/ SamplerWakes \/ SamplerReads
                      \/ StopRequested \/ WriterFails
<1>1. RunTypes /\ ProfileRunTypeOK /\ Paced /\ Driven
  BY DEF RunInv
<1>2. CASE Other
  <2>1. RunTypes'
    BY <1>1, <1>2, BesideTypes
  <2>2. /\ Beside /\ now' <= Horizon
        /\ Len(tick'.queue) <= TickDepth /\ Len(sampler'.queue) < SampleDepth
    BY <1>1, <1>2, OthersAreBeside
  <2>3. QED BY <2>1, <2>2, BesideKeeps
<1>3. CASE Runner
  <2>1. RunTypes'
    BY <1>1, <1>3, RunnerTypes
  <2>2. QED
    BY <1>3, <2>1, SetUpKeeps, SetUpFailsKeeps, WaitFailsKeeps, TakeTickKeeps,
       ReleaseKeeps, NothingToApplyKeeps, StartApplyKeeps, WriteMotorKeeps, FinishApplyKeeps,
       EnqueueKeeps, EndKeeps
    DEF Runner
<1>4. CASE UNCHANGED runVars
  <2>1. RunTypes'
    BY <1>1, <1>4 DEF runVars, RunTypes, RunDomains
  <2>2. /\ Beside /\ now' <= Horizon
        /\ Len(tick'.queue) <= TickDepth /\ Len(sampler'.queue) < SampleDepth
    BY <1>1, <1>4, Bounds DEF runVars, RunTypes, ProfileRunTypeOK, Beside
  <2>3. QED BY <2>1, <2>2, BesideKeeps
<1>5. QED BY <1>2, <1>3, <1>4 DEF RunNext, Core0, Encoder

\* Each of the parts above holds throughout (ProfileRunner::run).
THEOREM RunInvariant == RunSpec => []RunInv
<1>1. QED BY RunInvInit, RunInvStep, PTL DEF RunSpec

\* A record is true, also when the runner was late, and a run that is accepted has
\* one of each epoch (ProfileRunner::run, unsupportedReason).
THEOREM RunEvidenceTheorem == RunSpec => []EvidenceIsWhole
<1>1. RunInv => EvidenceIsWhole
  BY DEF RunInv, EvidenceIsWhole
<1>2. QED BY <1>1, RunInvariant, PTL

\* Only WriteMotor begins to drive: FinishApply confirms what it wrote, and every
\* other step leaves the journal alone, or coasts.
LEMMA DrivesFresh ==
    ASSUME RunInv, RunNext, journal.out # "Drive", journal'.out = "Drive"
    PROVE  journal.armed /\ loop.valid /\ ~loop.error
<1> USE DEF RunTypes, RunDomains
<1>1. journal.out = "Coast" /\ DOMAIN journal = {"armed", "out", "failed", "log"}
  BY DEF RunInv, Requested
<1>2. CASE WriteMotor
  <2>1. PICK ok \in BOOLEAN : WriteMotor!2!(ok)
    BY <1>2 DEF WriteMotor
  <2>2. journal' \notin Rejected(journal, loop.next)
    BY <1>1, RejectedIs DEF Requested
  <2>3. /\ loop.next = "Drive" => journal.armed
        /\ journal' = [journal EXCEPT !.out = loop.next, !.failed = FALSE]
    BY <2>1, <2>2
  <2>4. loop.next = "Drive"
    BY <1>1, <2>3
  <2>5. loop.pc = "applying"
    BY <1>2 DEF WriteMotor
  <2>6. QED BY <2>3, <2>4, <2>5 DEF RunInv, Driven
<1>3. CASE FinishApply
  <2> DEFINE given == Applied(journal, loop.next)
  <2>1. journal' = given \/ journal' \in Disarmed(given)
    BY <1>3 DEF FinishApply
  <2>2. /\ DOMAIN given = {"armed", "out", "failed", "log"}
        /\ given.out = loop.next
    BY <1>1 DEF Applied
  <2>3. loop.next = "Coast"
    BY <1>1, <1>3 DEF FinishApply, RunInv, Driven
  <2> HIDE DEF given
  <2>4. journal'.out # "Drive"
    BY <2>1, <2>2, <2>3, DisarmedIs DEF Requested
  <2>5. QED BY <2>4
<1>4. CASE StartApply
  <2>1. journal' = journal \/ journal' \in Rejected(journal, loop.next)
    BY <1>4 DEF StartApply
  <2>2. QED BY <1>1, <2>1, RejectedIs DEF Requested
<1>5. CASE ~(StartApply \/ WriteMotor \/ FinishApply)
  <2>1. \/ journal' = journal \/ journal' \in Disarmed(journal)
        \/ journal' = Applied(journal, "Coast")
    <3>1. CASE Release
      <4>1. RunTypes /\ Paced /\ Driven
        BY DEF RunInv
      <4>2. QED BY <3>1, <4>1, ReleaseDoes
    <3>2. CASE Enqueue
      BY <3>2 DEF Enqueue
    <3>3. CASE ShutDown
      BY <3>3 DEF ShutDown
    <3>4. CASE TakeTick
      BY <3>4 DEF TakeTick
    <3>5. QED
      BY <1>5, <3>1, <3>2, <3>3, <3>4
      DEF RunNext, Core0, Encoder, Runner, TimePasses, MaskInterrupts,
          UnmaskInterrupts, TickInterrupt, SampleInterrupt, SamplerWakes,
          SamplerReads, SetUp, SetUpFails, WaitFails, NothingToApply,
          NotifySampler, Finish, StopRequested, WriterFails
  <2>2. journal'.out # "Drive"
    BY <1>1, <2>1, DisarmedIs DEF Applied, Requested
  <2>3. QED BY <2>2
<1>6. QED BY <1>2, <1>3, <1>4, <1>5

\* An error disarms and coasts, a run whose motor did not coast in the end is a
\* failed one, and driving begins only on an angle of the epoch before and does not
\* go on when it began too late (ProfileRunner::run, CommandJournal).
THEOREM MotorTheorem == RunSpec => MotorIsSafe
<1>1. RunInv => ShutdownIsSafe /\ ErrorCoasts /\ DriveIsTimely
  BY DEF RunInv
<1>2. RunInv /\ [RunNext]_runVars =>
        [journal.out # "Drive" /\ journal'.out = "Drive"
           => journal.armed /\ loop.valid /\ ~loop.error]_runVars
  BY DrivesFresh
<1>3. QED BY <1>1, <1>2, RunInvariant, PTL DEF RunSpec, MotorIsSafe, DriveBegins

=============================================================================
