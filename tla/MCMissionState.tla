--------------------------- MODULE MCMissionState ---------------------------
(* A small flight for TLC: the gates one unit apart, two epochs so that    *)
(* the counter wraps, one reset.                                           *)
EXTENDS MissionRefinement

NoFinZero == ReadinessBits \ {"fin_zero_configured"}
MCReadinessChoices == {ReadinessBits, NoFinZero}
AllReady == {ReadinessBits}

(* The estimate's age matters only to a tick that is otherwise ready, and  *)
(* ready implies fin: four verdicts on the fins, times the two detectors.  *)
FinVerdicts == {<<FALSE, FALSE, FALSE>>, <<TRUE, FALSE, FALSE>>,
                <<TRUE, TRUE, FALSE>>, <<TRUE, TRUE, TRUE>>}
Input(liftoff, apex, v) ==
  [liftoff |-> liftoff, apex |-> apex,
   fin |-> v[1], ready |-> v[2], capturable |-> v[3]]
MCSensorInputs ==
  {Input(liftoff, apex, v) :
     liftoff \in BOOLEAN, apex \in BOOLEAN, v \in FinVerdicts}
=============================================================================
