----------------------- MODULE DeploymentChainProofs -----------------------
(***************************************************************************)
(* Proofs about the deployment chain, for every capacity of its queues,    *)
(* every setting of its four instants, every number of flights and resets, *)
(* and whichever of its tasks are held up.                                 *)
(*                                                                         *)
(* That the parachute moves by itself once and not too soon rests on two   *)
(* things that no single task knows: opened_epoch names the flight it has  *)
(* been moved in (MovedOnce), and a Descent is as old as the gate by the   *)
(* clock it was entered by, which neither a rollback nor a restored        *)
(* checkpoint takes back (FlightIsTimed).                                  *)
(*                                                                         *)
(* Two sections at the end are about less than every behaviour, and name   *)
(* their hypothesis.  A boot without resets whose two realtime tasks keep  *)
(* time (InTime) keeps its flights apart, because the three clocks of a    *)
(* flight agree then (Apart).  In a boot with a single flight (OneFlight)  *)
(* an accepted request of safetyTask stays where parachuteTask will see it *)
(* until it has moved (Kept).                                              *)
(***************************************************************************)
EXTENDS DeploymentChain, SequenceTheorems, TLAPS

\* The provers see these sets by name where an update has to stay in them.
Epochs == 0..MaxEpoch
Times == Nat

FlightsOf(phases, epochs, times, flags) ==
  [phase : phases, epoch : epochs, liftoff : times, elapsed : times,
   offset : times, invalidated : flags, cutoff : flags]
SavedFlights ==
  [valid : {TRUE}, phase : Phases \ {"ground"}, epoch : 0..MaxEpoch, elapsed : Nat,
   at : Nat, cutoff : BOOLEAN]

SafetyOf(epochs, times, flags) ==
  [at : {"observe", "decide"}, epoch : epochs, liftoff_valid : flags, liftoff : times,
   offset : times, requested : flags, cutoff : flags]
Safeties == SafetyOf(0..MaxEpoch, Nat, BOOLEAN)
ParasOf(epochs, flags) ==
  [at : {"receive", "act"}, off : flags, op : {"none", "pending", "manual", "automatic"},
   automatic : epochs, opened : epochs]
Paras == ParasOf(0..MaxEpoch, BOOLEAN)
Missions == [at : {"tick", "refresh", "dispatch"}, open_sent : BOOLEAN,
             cutoff_sent : BOOLEAN]
Caches == [epoch : 0..MaxEpoch, deployed : BOOLEAN, cutoff : BOOLEAN]

\* At the instant t of this boot the clock of an airborne flight has run from its
\* liftoff, is not ahead of its age, and that of a Descent has reached the gate.
AgeAt(s, t) == s.offset + (t - s.liftoff)
Timed(s, t) ==
  /\ s.phase \in Airborne => s.liftoff <= t /\ s.elapsed <= AgeAt(s, t)
  /\ s.phase = "descent" => s.elapsed >= PressureGate

FlightIsTimed ==
  /\ f \in Flights /\ running \in BOOLEAN
  /\ rtc \in Nat /\ boot_at \in 0..rtc /\ resets \in Nat
  /\ saved = Nothing \/ saved \in SavedFlights
  /\ saved # Nothing =>
       /\ saved.at <= rtc
       /\ saved.phase = "descent" => saved.elapsed >= PressureGate
  /\ f.phase \in Airborne => running
  /\ Timed(f, Mono)

TasksOK ==
  /\ safety \in Safeties /\ para \in Paras
  /\ mission \in Missions /\ cache \in Caches
  /\ para_queue \in Seq(ParaRequests) /\ Len(para_queue) <= QueueCapacity
  /\ power_queue \in Seq(PowerRequests) /\ Len(power_queue) <= QueueCapacity
  /\ power \in BOOLEAN /\ commanded \in BOOLEAN
  /\ pressure_epoch \in 0..MaxEpoch
  /\ moves \in [{"flight", "boot"} -> 0..2]

\* parachuteTask has consumed the epoch of the flight it has moved in.
MovedOnce ==
  moves["boot"] > 0 =>
    /\ moves["boot"] = 1
    /\ para.opened = f.epoch /\ f.phase = "descent"

IInv == FlightIsTimed /\ TasksOK /\ MovedOnce

LEMMA Bounds ==
  /\ Backdate \in Nat /\ PressureGate \in Nat /\ DeploymentDeadline \in Nat
  /\ PowerCutoff \in Nat /\ PressureGate <= DeploymentDeadline
  /\ DeploymentDeadline < PowerCutoff
  /\ MaxEpoch \in Nat \ {0} /\ MaxTime \in Nat /\ MaxResets \in Nat
  /\ QueueCapacity \in Nat \ {0}
BY ChainAssumption

USE Bounds

\* The values that the updates below put in.
LEMMA Values ==
  /\ "ground" \in Phases /\ "waiting" \in Phases
  /\ "flight" \in Phases /\ "descent" \in Phases
  /\ 0 \in Times /\ FALSE \in BOOLEAN /\ TRUE \in BOOLEAN
BY DEF Phases, Times

-----------------------------------------------------------------------------
(* What the operators of the flight sequence return.                       *)

LEMMA FlightType ==
  Flights = FlightsOf(Phases, Epochs, Times, BOOLEAN)
BY DEF Flights, FlightsOf, Epochs, Times

LEMMA GroundedIsFlight ==
  ASSUME NEW Ps, NEW Es, NEW Bs, NEW s \in FlightsOf(Ps, Es, Times, Bs), NEW phase \in Ps
  PROVE  /\ Grounded(s, phase) \in FlightsOf(Ps, Es, Times, Bs)
         /\ Grounded(s, phase).phase = phase
         /\ Grounded(s, phase).epoch = s.epoch
         /\ Grounded(s, phase).invalidated = s.invalidated
         /\ Grounded(s, phase).cutoff = s.cutoff
BY DEF Grounded, FlightsOf, Times

LEMMA EpochUpdate ==
  ASSUME NEW Ps, NEW Es, NEW Ts, NEW Bs, NEW s \in FlightsOf(Ps, Es, Ts, Bs), NEW e \in Es
  PROVE  /\ [s EXCEPT !.epoch = e] \in FlightsOf(Ps, Es, Ts, Bs)
         /\ [s EXCEPT !.epoch = e].phase = s.phase
         /\ [s EXCEPT !.epoch = e].epoch = e
         /\ [s EXCEPT !.epoch = e].invalidated = s.invalidated
         /\ [s EXCEPT !.epoch = e].cutoff = s.cutoff
BY DEF FlightsOf

Afresh(s, e) == [s EXCEPT !.epoch = e, !.invalidated = FALSE, !.cutoff = FALSE]
LEMMA AfreshUpdate ==
  ASSUME NEW Ps, NEW Es, NEW Ts, NEW s \in FlightsOf(Ps, Es, Ts, BOOLEAN), NEW e \in Es
  PROVE  /\ Afresh(s, e) \in FlightsOf(Ps, Es, Ts, BOOLEAN)
         /\ Afresh(s, e).phase = s.phase /\ Afresh(s, e).epoch = e
         /\ ~Afresh(s, e).invalidated /\ ~Afresh(s, e).cutoff
BY DEF FlightsOf, Afresh

LEMMA NextEpochType ==
  ASSUME NEW e \in 0..MaxEpoch
  PROVE  NextEpoch(e) \in 0..MaxEpoch
BY DEF NextEpoch

\* A flight on the ground or waiting has no clock.
LEMMA WaitingIsTimed ==
  ASSUME NEW s, NEW t, s.phase \in {"ground", "waiting"}
  PROVE  Timed(s, t)
BY DEF Timed, Airborne

LEMMA StartedIsTimed ==
  ASSUME NEW s \in Flights
  PROVE  /\ Started(s) \in Flights /\ Started(s).phase = "waiting"
         /\ Started(s).epoch = NextEpoch(s.epoch)
         /\ ~Started(s).invalidated /\ ~Started(s).cutoff
<1> DEFINE g == Grounded(s, "waiting")
<1>1. /\ g \in FlightsOf(Phases, Epochs, Times, BOOLEAN)
      /\ g.phase = "waiting" /\ g.epoch = s.epoch
  BY FlightType, GroundedIsFlight, Values
<1>2. NextEpoch(g.epoch) \in Epochs
  BY <1>1, NextEpochType DEF FlightsOf, Epochs
<1>3. Started(s) = Afresh(g, NextEpoch(g.epoch))
  BY DEF Started, Afresh
<1> HIDE DEF g
<1> QED BY <1>1, <1>2, <1>3, FlightType, AfreshUpdate

LEMMA CancelledIsTimed ==
  ASSUME NEW s \in Flights
  PROVE  /\ Cancelled(s) \in Flights /\ Cancelled(s).phase = "ground"
         /\ Cancelled(s).epoch = s.epoch
         /\ Cancelled(s).invalidated = s.invalidated
         /\ Cancelled(s).cutoff = s.cutoff
BY FlightType, GroundedIsFlight, Values DEF Cancelled

LEMMA RolledBackIsTimed ==
  ASSUME NEW s \in Flights
  PROVE  /\ RolledBack(s) \in Flights /\ RolledBack(s).phase = "waiting"
         /\ RolledBack(s).epoch = NextEpoch(s.epoch)
         /\ RolledBack(s).invalidated = s.invalidated
         /\ RolledBack(s).cutoff = s.cutoff
<1> DEFINE g == Grounded(s, "waiting")
<1>1. /\ g \in FlightsOf(Phases, Epochs, Times, BOOLEAN)
      /\ g.phase = "waiting" /\ g.epoch = s.epoch
      /\ g.invalidated = s.invalidated /\ g.cutoff = s.cutoff
  BY FlightType, GroundedIsFlight, Values
<1>2. NextEpoch(g.epoch) \in Epochs
  BY <1>1, NextEpochType DEF FlightsOf, Epochs
<1>3. RolledBack(s) = [g EXCEPT !.epoch = NextEpoch(g.epoch)]
  BY DEF RolledBack
<1> HIDE DEF g
<1> QED BY <1>1, <1>2, <1>3, FlightType, EpochUpdate

\* A tick: the liftoff is dated back, but not before the boot.
Lifted(s, l) == [s EXCEPT !.phase = "flight", !.offset = 0, !.liftoff = l]
LEMMA LiftedUpdate ==
  ASSUME NEW Es, NEW Bs, NEW s \in FlightsOf(Phases, Es, Times, Bs), NEW l \in Times
  PROVE  /\ Lifted(s, l) \in FlightsOf(Phases, Es, Times, Bs)
         /\ Lifted(s, l).epoch = s.epoch
         /\ Lifted(s, l).phase = "flight" /\ Lifted(s, l).liftoff = l
         /\ Lifted(s, l).offset = 0 /\ Lifted(s, l).invalidated = s.invalidated
         /\ Lifted(s, l).cutoff = s.cutoff
BY DEF FlightsOf, Phases, Times, Lifted

LEMMA LiftedOffIsTimed ==
  ASSUME NEW s \in Flights, NEW t \in Nat, NEW seen \in BOOLEAN, Timed(s, t)
  PROVE  LET r == LiftedOff(s, seen, t)
         IN  /\ r \in Flights /\ r.epoch = s.epoch
             /\ r.phase \in Airborne => r.liftoff <= t
             /\ r.phase = "descent" => AgeAt(r, t) >= PressureGate
             /\ s.phase = "descent" <=> r.phase = "descent"
             /\ s.phase = "ground" <=> r.phase = "ground"
<1>1. CASE s.phase = "waiting" /\ seen
  <2> DEFINE l == IF t >= Backdate THEN t - Backdate ELSE 0
             r == Lifted(s, l)
  <2>1. l \in Times /\ l <= t
    BY DEF Times
  <2>2. LiftedOff(s, seen, t) = r
    BY <1>1 DEF LiftedOff, Lifted
  <2> HIDE DEF l
  <2>3. /\ r \in FlightsOf(Phases, Epochs, Times, BOOLEAN)
        /\ r.phase = "flight" /\ r.liftoff = l /\ r.epoch = s.epoch
    BY <2>1, FlightType, LiftedUpdate
  <2> HIDE DEF r
  <2> QED BY <1>1, <2>1, <2>2, <2>3, FlightType DEF Airborne
<1>2. CASE ~(s.phase = "waiting" /\ seen)
  <2>1. LiftedOff(s, seen, t) = s
    BY <1>2 DEF LiftedOff
  <2>2. s.offset \in Nat /\ s.liftoff \in Nat /\ s.elapsed \in Nat
    BY DEF Flights
  <2> QED BY <2>1, <2>2 DEF Timed, AgeAt, Airborne
<1> QED BY <1>1, <1>2

LEMMA ElapsedUpdate ==
  ASSUME NEW Ps, NEW Es, NEW Ts, NEW Bs, NEW s \in FlightsOf(Ps, Es, Ts, Bs), NEW x \in Ts
  PROVE  /\ [s EXCEPT !.elapsed = x] \in FlightsOf(Ps, Es, Ts, Bs)
         /\ [s EXCEPT !.elapsed = x].elapsed = x
         /\ [s EXCEPT !.elapsed = x].phase = s.phase
         /\ [s EXCEPT !.elapsed = x].epoch = s.epoch
         /\ [s EXCEPT !.elapsed = x].offset = s.offset
         /\ [s EXCEPT !.elapsed = x].liftoff = s.liftoff
         /\ [s EXCEPT !.elapsed = x].invalidated = s.invalidated
         /\ [s EXCEPT !.elapsed = x].cutoff = s.cutoff
BY DEF FlightsOf

LEMMA ClockedIsTimed ==
  ASSUME NEW s \in Flights, NEW t \in Nat,
         s.phase \in Airborne => s.liftoff <= t,
         s.phase = "descent" => AgeAt(s, t) >= PressureGate
  PROVE  LET r == Clocked(s, t)
         IN  r \in Flights /\ r.epoch = s.epoch /\ r.phase = s.phase /\ Timed(r, t)
<1> DEFINE x == IF s.phase \in Airborne /\ t >= s.liftoff
                THEN s.offset + (t - s.liftoff) ELSE 0
           r == [s EXCEPT !.elapsed = x]
<1>0. s.offset \in Nat /\ s.liftoff \in Nat
  BY DEF Flights
<1>1. x \in Times /\ (s.phase \in Airborne => x = AgeAt(s, t))
  BY <1>0 DEF AgeAt, Times
<1>2. Clocked(s, t) = r
  BY DEF Clocked
<1> HIDE DEF x
<1>3. /\ r \in FlightsOf(Phases, Epochs, Times, BOOLEAN)
      /\ r.phase = s.phase /\ r.epoch = s.epoch /\ r.elapsed = x
      /\ r.offset = s.offset /\ r.liftoff = s.liftoff
  BY <1>1, FlightType, ElapsedUpdate
<1> HIDE DEF r
<1>4. Timed(r, t)
  BY <1>0, <1>1, <1>3 DEF Timed, AgeAt, Airborne, Times
<1> QED BY <1>2, <1>3, <1>4, FlightType

LEMMA PhaseUpdate ==
  ASSUME NEW Ps, NEW Es, NEW Ts, NEW Bs, NEW s \in FlightsOf(Ps, Es, Ts, Bs), NEW p \in Ps
  PROVE  /\ [s EXCEPT !.phase = p] \in FlightsOf(Ps, Es, Ts, Bs)
         /\ [s EXCEPT !.phase = p].phase = p
         /\ [s EXCEPT !.phase = p].epoch = s.epoch
         /\ [s EXCEPT !.phase = p].elapsed = s.elapsed
         /\ [s EXCEPT !.phase = p].offset = s.offset
         /\ [s EXCEPT !.phase = p].liftoff = s.liftoff
         /\ [s EXCEPT !.phase = p].invalidated = s.invalidated
         /\ [s EXCEPT !.phase = p].cutoff = s.cutoff
BY DEF FlightsOf

LEMMA DeployedIsTimed ==
  ASSUME NEW s \in Flights, NEW t \in Nat, NEW apex \in BOOLEAN, Timed(s, t)
  PROVE  LET r == Deployed(s, apex)
         IN  /\ r \in Flights /\ r.epoch = s.epoch /\ Timed(r, t)
             /\ s.phase = "descent" => r.phase = "descent"
             /\ s.phase = "ground" <=> r.phase = "ground"
<1>1. CASE Deployed(s, apex) = s
  BY <1>1
<1>2. CASE Deployed(s, apex) # s
  <2> DEFINE r == [s EXCEPT !.phase = "descent"]
  <2>1. Deployed(s, apex) = r /\ s.phase = "flight" /\ s.elapsed >= PressureGate
    <3>1. s.elapsed \in Nat
      BY DEF Flights
    <3> QED BY <1>2, <3>1 DEF Deployed
  <2>2. /\ r \in FlightsOf(Phases, Epochs, Times, BOOLEAN)
        /\ r.phase = "descent" /\ r.epoch = s.epoch /\ r.elapsed = s.elapsed
        /\ r.offset = s.offset /\ r.liftoff = s.liftoff
    BY FlightType, PhaseUpdate, Values
  <2> HIDE DEF r
  <2> QED BY <2>1, <2>2, FlightType DEF Timed, AgeAt, Airborne
<1> QED BY <1>1, <1>2

LEMMA CutoffUpdate ==
  ASSUME NEW Ps, NEW Es, NEW Ts, NEW Bs, NEW s \in FlightsOf(Ps, Es, Ts, Bs), NEW c \in Bs
  PROVE  /\ [s EXCEPT !.cutoff = c] \in FlightsOf(Ps, Es, Ts, Bs)
         /\ [s EXCEPT !.cutoff = c].phase = s.phase
         /\ [s EXCEPT !.cutoff = c].epoch = s.epoch
         /\ [s EXCEPT !.cutoff = c].elapsed = s.elapsed
         /\ [s EXCEPT !.cutoff = c].offset = s.offset
         /\ [s EXCEPT !.cutoff = c].liftoff = s.liftoff
         /\ [s EXCEPT !.cutoff = c].invalidated = s.invalidated
         /\ [s EXCEPT !.cutoff = c].cutoff = c
BY DEF FlightsOf

LEMMA CutOffIsTimed ==
  ASSUME NEW s \in Flights, NEW t \in Nat, Timed(s, t)
  PROVE  LET r == CutOff(s)
         IN  r \in Flights /\ r.epoch = s.epoch /\ r.phase = s.phase /\ Timed(r, t)
<1> DEFINE c == s.cutoff \/ (s.phase \in Airborne /\ s.elapsed >= PowerCutoff)
           r == [s EXCEPT !.cutoff = c]
<1>1. CutOff(s) = r /\ c \in BOOLEAN
  BY DEF CutOff
<1> HIDE DEF c
<1>2. /\ r \in FlightsOf(Phases, Epochs, Times, BOOLEAN)
      /\ r.phase = s.phase /\ r.epoch = s.epoch /\ r.elapsed = s.elapsed
      /\ r.offset = s.offset /\ r.liftoff = s.liftoff
  BY <1>1, FlightType, CutoffUpdate
<1> HIDE DEF r
<1> QED BY <1>1, <1>2, FlightType DEF Timed, AgeAt

LEMMA TickedIsTimed ==
  ASSUME NEW s \in Flights, NEW t \in Nat, NEW seen \in BOOLEAN, NEW apex \in BOOLEAN,
         Timed(s, t)
  PROVE  LET r == Ticked(s, seen, apex, t)
         IN  /\ r \in Flights /\ r.epoch = s.epoch /\ Timed(r, t)
             /\ s.phase = "descent" => r.phase = "descent"
             /\ s.phase = "ground" <=> r.phase = "ground"
<1> DEFINE l == LiftedOff(s, seen, t)
           c == Clocked(l, t)
           d == Deployed(c, apex)
<1>1. Ticked(s, seen, apex, t) = CutOff(d)
  BY DEF Ticked
<1>2. /\ l \in Flights /\ l.epoch = s.epoch
      /\ l.phase \in Airborne => l.liftoff <= t
      /\ l.phase = "descent" => AgeAt(l, t) >= PressureGate
      /\ s.phase = "descent" <=> l.phase = "descent"
      /\ s.phase = "ground" <=> l.phase = "ground"
  BY LiftedOffIsTimed
<1> HIDE DEF l
<1>3. c \in Flights /\ c.epoch = s.epoch /\ c.phase = l.phase /\ Timed(c, t)
  BY <1>2, ClockedIsTimed
<1> HIDE DEF c
<1>4. /\ d \in Flights /\ d.epoch = s.epoch /\ Timed(d, t)
      /\ c.phase = "descent" => d.phase = "descent"
      /\ c.phase = "ground" <=> d.phase = "ground"
  BY <1>3, DeployedIsTimed
<1> HIDE DEF d
<1>5. /\ CutOff(d) \in Flights /\ CutOff(d).epoch = d.epoch
      /\ CutOff(d).phase = d.phase /\ Timed(CutOff(d), t)
  BY <1>4, CutOffIsTimed
<1> QED BY <1>1, <1>2, <1>3, <1>4, <1>5

-----------------------------------------------------------------------------
(* The checkpoint keeps the clock of the flight, and a boot resumes it.    *)

LEMMA SavedIsTimed ==
  ASSUME NEW s \in Flights, NEW now \in Nat, Timed(s, now - boot_at)
  PROVE  LET cp == Saved(s, now)
         IN  \/ cp = Nothing
             \/ /\ cp \in SavedFlights /\ cp.at = now
                /\ cp.phase = "descent" => cp.elapsed >= PressureGate
<1>1. CASE s.phase = "ground"
  BY <1>1 DEF Saved
<1>2. CASE s.phase # "ground"
  <2> DEFINE x == IF s.phase = "waiting" THEN 0 ELSE s.elapsed
             cp == [valid |-> TRUE, phase |-> s.phase, epoch |-> s.epoch,
                    elapsed |-> x, at |-> now, cutoff |-> s.cutoff]
  <2>1. Saved(s, now) = cp
    BY <1>2 DEF Saved
  <2>2. s.phase \in Phases \ {"ground"} /\ s.epoch \in 0..MaxEpoch /\ s.cutoff \in BOOLEAN
    BY <1>2 DEF Flights
  <2>3. x \in Nat /\ (s.phase = "descent" => x >= PressureGate)
    BY DEF Flights, Timed
  <2> HIDE DEF x
  <2>4. cp \in SavedFlights
    BY <2>2, <2>3 DEF SavedFlights
  <2>5. cp.at = now /\ cp.phase = s.phase /\ cp.elapsed = x
    OBVIOUS
  <2> QED BY <2>1, <2>3, <2>4, <2>5
<1> QED BY <1>1, <1>2

Found(s, p, e) == [s EXCEPT !.phase = p, !.epoch = e, !.invalidated = TRUE]
LEMMA FoundUpdate ==
  ASSUME NEW Ps, NEW Es, NEW Ts, NEW s \in FlightsOf(Ps, Es, Ts, BOOLEAN),
         NEW p \in Ps, NEW e \in Es
  PROVE  /\ Found(s, p, e) \in FlightsOf(Ps, Es, Ts, BOOLEAN)
         /\ Found(s, p, e).phase = p /\ Found(s, p, e).liftoff = s.liftoff
BY DEF FlightsOf, Found

Aged(s, age, c) == [s EXCEPT !.elapsed = age, !.offset = age, !.cutoff = c]
LEMMA AgedUpdate ==
  ASSUME NEW Ps, NEW Es, NEW Ts, NEW Bs, NEW s \in FlightsOf(Ps, Es, Ts, Bs),
         NEW age \in Ts, NEW c \in Bs
  PROVE  /\ Aged(s, age, c) \in FlightsOf(Ps, Es, Ts, Bs)
         /\ Aged(s, age, c).phase = s.phase /\ Aged(s, age, c).liftoff = s.liftoff
         /\ Aged(s, age, c).elapsed = age /\ Aged(s, age, c).offset = age
BY DEF FlightsOf, Aged

LEMMA RestoredIsTimed ==
  ASSUME NEW cp \in SavedFlights, NEW now \in Nat, cp.at <= now,
         cp.phase = "descent" => cp.elapsed >= PressureGate
  PROVE  Restored(cp, now) \in Flights /\ Timed(Restored(cp, now), 0)
<1> DEFINE age == cp.elapsed + (now - cp.at)
           base == Found(OnGround, cp.phase, cp.epoch)
           air == Aged(base, age, cp.cutoff)
<1>1. /\ cp.phase \in Phases /\ cp.epoch \in Epochs /\ cp.cutoff \in BOOLEAN
      /\ cp.elapsed \in Nat /\ cp.at \in Nat
  BY DEF SavedFlights, Epochs
<1>2. age \in Times /\ age >= cp.elapsed
  BY <1>1 DEF Times
<1>3. Restored(cp, now) = IF cp.phase = "waiting" THEN base ELSE air
  BY DEF Restored, Found, Aged
<1> HIDE DEF age
<1>4. OnGround \in Flights /\ OnGround.liftoff = 0
  BY DEF OnGround, Flights, Phases
<1>5. base \in Flights /\ base.phase = cp.phase /\ base.liftoff = 0
  BY <1>1, <1>4, FlightType, FoundUpdate
<1> HIDE DEF base
<1>6. /\ air \in Flights /\ air.phase = cp.phase /\ air.liftoff = 0
      /\ air.elapsed = age /\ air.offset = age
  BY <1>1, <1>2, <1>5, FlightType, AgedUpdate
<1> HIDE DEF air
<1>7. CASE cp.phase = "waiting"
  BY <1>3, <1>5, <1>7, WaitingIsTimed
<1>8. CASE cp.phase # "waiting"
  <2>1. Timed(air, 0)
    BY <1>1, <1>2, <1>6 DEF Timed, AgeAt, Times
  <2> QED BY <1>3, <1>6, <1>8, <2>1
<1> QED BY <1>7, <1>8

LEMMA MonoIsNat ==
  ASSUME FlightIsTimed
  PROVE  Mono \in Nat
BY DEF FlightIsTimed, Mono

-----------------------------------------------------------------------------
(* The steps of the flight sequence.                                       *)

LEMMA StartStep ==
  ASSUME FlightIsTimed, Start
  PROVE  FlightIsTimed'
<1>1. f \in Flights /\ rtc \in Nat /\ boot_at \in 0..rtc /\ resets \in Nat
  BY DEF FlightIsTimed
<1>2. f' \in Flights /\ f'.phase = "waiting"
  BY <1>1, StartedIsTimed DEF Start
<1>3. Timed(f', Mono)
  BY <1>2, WaitingIsTimed
<1>4. \/ saved' = Nothing
      \/ /\ saved' \in SavedFlights /\ saved'.at = rtc
         /\ saved'.phase = "descent" => saved'.elapsed >= PressureGate
  BY <1>1, <1>2, <1>3, SavedIsTimed DEF Start, Mono
<1>5. UNCHANGED <<running, rtc, boot_at, resets>> /\ running = TRUE
  BY DEF Start, FlightIsTimed
<1> QED BY <1>1, <1>2, <1>3, <1>4, <1>5 DEF FlightIsTimed, Mono

LEMMA CancelStep ==
  ASSUME FlightIsTimed, Cancel
  PROVE  FlightIsTimed'
<1>1. f' \in Flights /\ f'.phase = "ground"
  BY CancelledIsTimed DEF Cancel, FlightIsTimed
<1>2. Timed(f', Mono)
  BY <1>1, WaitingIsTimed
<1> QED BY <1>1, <1>2 DEF Cancel, FlightIsTimed, Mono, Airborne

LEMMA RollBackStep ==
  ASSUME FlightIsTimed, RollBack
  PROVE  FlightIsTimed'
<1>1. f' \in Flights /\ f'.phase = "waiting"
  BY RolledBackIsTimed DEF RollBack, FlightIsTimed
<1>2. Timed(f', Mono)
  BY <1>1, WaitingIsTimed
<1> QED BY <1>1, <1>2 DEF RollBack, FlightIsTimed, Mono, Airborne

LEMMA TickStep ==
  ASSUME FlightIsTimed, NEW seen \in BOOLEAN, NEW apex \in BOOLEAN, Tick(seen, apex)
  PROVE  /\ FlightIsTimed' /\ f'.epoch = f.epoch
         /\ f.phase = "descent" => f'.phase = "descent"
<1>1. f \in Flights /\ rtc \in Nat /\ boot_at \in 0..rtc /\ Timed(f, Mono) /\ Mono \in Nat
  BY MonoIsNat DEF FlightIsTimed
<1>2. /\ f' \in Flights /\ f'.epoch = f.epoch /\ Timed(f', Mono)
      /\ f.phase = "descent" => f'.phase = "descent"
  BY <1>1, TickedIsTimed DEF Tick
<1>3. \/ saved' = Nothing
      \/ /\ saved' \in SavedFlights /\ saved'.at = rtc
         /\ saved'.phase = "descent" => saved'.elapsed >= PressureGate
  BY <1>1, <1>2, SavedIsTimed DEF Tick, Mono
<1>4. UNCHANGED <<running, rtc, boot_at, resets>> /\ running
  BY DEF Tick
<1>5. FlightIsTimed'
  BY <1>1, <1>2, <1>3, <1>4 DEF FlightIsTimed, Mono
<1> QED BY <1>2, <1>5

LEMMA ResetStep ==
  ASSUME FlightIsTimed, NEW keeps \in BOOLEAN, Reset(keeps)
  PROVE  FlightIsTimed' /\ f'.phase = "ground"
<1>1. f' \in Flights /\ f'.phase = "ground"
  BY DEF Reset, OnGround, Flights, Phases
<1>2. Timed(f', Mono)
  BY <1>1, WaitingIsTimed
<1>3. saved' \in {saved, Nothing} /\ UNCHANGED <<rtc, boot_at>> /\ running' = FALSE
  BY DEF Reset
<1>4. resets' \in Nat
  BY DEF Reset, FlightIsTimed
<1>5. FlightIsTimed'
  BY <1>1, <1>2, <1>3, <1>4 DEF FlightIsTimed, Mono, Airborne
<1> QED BY <1>1, <1>5

LEMMA BootStep ==
  ASSUME FlightIsTimed, Boot
  PROVE  FlightIsTimed'
<1>1. f \in Flights /\ rtc \in Nat /\ f.phase \notin Airborne
  BY DEF FlightIsTimed, Boot
<1>2. UNCHANGED <<saved, rtc, resets>> /\ running' = TRUE /\ boot_at' = rtc
  BY DEF Boot
<1>3. f' \in Flights /\ Timed(f', 0)
  <2>1. CASE saved = Nothing
    <3>1. f' = f
      BY <2>1 DEF Boot, Nothing
    <3> QED BY <1>1, <3>1 DEF Timed, Airborne
  <2>2. CASE saved # Nothing
    <3>1. /\ saved \in SavedFlights /\ saved.at <= rtc
          /\ saved.phase = "descent" => saved.elapsed >= PressureGate
      BY <2>2 DEF FlightIsTimed
    <3>2. f' = Restored(saved, rtc)
      BY <3>1 DEF Boot, SavedFlights
    <3> QED BY <1>1, <3>1, <3>2, RestoredIsTimed
  <2> QED BY <2>1, <2>2
<1>4. Mono' = 0
  BY <1>1, <1>2 DEF Mono
<1> QED BY <1>1, <1>2, <1>3, <1>4 DEF FlightIsTimed

LEMMA AdvanceStep ==
  ASSUME FlightIsTimed, Advance
  PROVE  FlightIsTimed'
<1>1. UNCHANGED <<f, saved, running, boot_at, resets>> /\ rtc' = rtc + 1
  BY DEF Advance
<1>2. rtc \in Nat /\ boot_at \in 0..rtc /\ f.liftoff \in Nat /\ f.elapsed \in Nat
        /\ f.offset \in Nat
  BY DEF FlightIsTimed, Flights
<1>3. rtc' \in Nat /\ boot_at' \in 0..rtc' /\ Mono \in Nat /\ Mono' = Mono + 1
  BY <1>1, <1>2 DEF Mono
<1>4. Timed(f, Mono')
  BY <1>2, <1>3 DEF FlightIsTimed, Timed, AgeAt
<1>5. saved # Nothing => saved.at \in Nat
  BY DEF FlightIsTimed, SavedFlights
<1> QED BY <1>1, <1>2, <1>3, <1>4, <1>5 DEF FlightIsTimed

-----------------------------------------------------------------------------
(* The queues and the locals of the tasks keep their types.                *)

LEMMA QueueUpdate ==
  ASSUME NEW R, NEW q \in Seq(R), Len(q) <= QueueCapacity, NEW r \in R
  PROVE  /\ Sent(q, r) \in Seq(R) /\ Len(Sent(q, r)) <= QueueCapacity
         /\ SentFirst(q, r) \in Seq(R) /\ Len(SentFirst(q, r)) <= QueueCapacity
<1>1. Len(q) \in Nat
  OBVIOUS
<1>2. CASE Full(q)
  BY <1>2 DEF Sent, SentFirst
<1>3. CASE ~Full(q)
  <2>1. Len(q) + 1 <= QueueCapacity
    BY <1>1, <1>3 DEF Full
  <2>2. Append(q, r) \in Seq(R) /\ Len(Append(q, r)) = Len(q) + 1
    OBVIOUS
  <2>3. <<r>> \o q \in Seq(R) /\ Len(<<r>> \o q) = Len(q) + 1
    BY <1>1
  <2> QED BY <1>3, <2>1, <2>2, <2>3 DEF Sent, SentFirst
<1> QED BY <1>2, <1>3

LEMMA TailUpdate ==
  ASSUME NEW R, NEW q \in Seq(R), Len(q) <= QueueCapacity, q # <<>>
  PROVE  /\ Tail(q) \in Seq(R) /\ Len(Tail(q)) <= QueueCapacity
         /\ Head(q) \in R
BY HeadTailProperties

LEMMA RequestTypes ==
  /\ \A e \in 0..MaxEpoch : \A authorized \in BOOLEAN : Open(e, authorized) \in ParaRequests
  /\ Hold \in ParaRequests /\ PowerOff \in ParaRequests
  /\ TurnOn \in PowerRequests /\ CutPower \in PowerRequests
BY DEF Open, Hold, PowerOff, ParaRequests, TurnOn, CutPower, PowerRequests

LEMMA SafetyType ==
  Safeties = SafetyOf(Epochs, Times, BOOLEAN)
BY DEF Safeties, SafetyOf, Epochs, Times

\* What a step of safetyTask puts into its locals.
WithCutoff(s, c) == [s EXCEPT !.cutoff = c]
WithRequest(s, r) == [s EXCEPT !.requested = r]
WithLiftoff(s, l, o, r) ==
  [s EXCEPT !.liftoff_valid = TRUE, !.liftoff = l, !.offset = o, !.requested = r]
WithFlight(s, e, c, v, l, o, r) ==
  [s EXCEPT !.epoch = e, !.cutoff = c, !.liftoff_valid = v, !.liftoff = l,
            !.offset = o, !.requested = r]
WithPlace(s, p) == [s EXCEPT !.at = p]
WithDecision(s, r, c) == [s EXCEPT !.at = "observe", !.requested = r, !.cutoff = c]

LEMMA SafetyUpdate ==
  ASSUME NEW Es, NEW Ts, NEW s \in SafetyOf(Es, Ts, BOOLEAN)
  PROVE  /\ \A c \in BOOLEAN : WithCutoff(s, c) \in SafetyOf(Es, Ts, BOOLEAN)
         /\ \A r \in BOOLEAN : WithRequest(s, r) \in SafetyOf(Es, Ts, BOOLEAN)
         /\ \A l, o \in Ts : \A r \in BOOLEAN :
              WithLiftoff(s, l, o, r) \in SafetyOf(Es, Ts, BOOLEAN)
         /\ \A e \in Es : \A c, v, r \in BOOLEAN : \A l, o \in Ts :
              WithFlight(s, e, c, v, l, o, r) \in SafetyOf(Es, Ts, BOOLEAN)
         /\ WithPlace(s, "decide") \in SafetyOf(Es, Ts, BOOLEAN)
         /\ \A r, c \in BOOLEAN : WithDecision(s, r, c) \in SafetyOf(Es, Ts, BOOLEAN)
<1>1. ASSUME NEW c \in BOOLEAN PROVE WithCutoff(s, c) \in SafetyOf(Es, Ts, BOOLEAN)
  BY DEF SafetyOf, WithCutoff
<1>2. ASSUME NEW r \in BOOLEAN PROVE WithRequest(s, r) \in SafetyOf(Es, Ts, BOOLEAN)
  BY DEF SafetyOf, WithRequest
<1>3. ASSUME NEW l \in Ts, NEW o \in Ts, NEW r \in BOOLEAN
      PROVE  WithLiftoff(s, l, o, r) \in SafetyOf(Es, Ts, BOOLEAN)
  BY DEF SafetyOf, WithLiftoff
<1>4. ASSUME NEW e \in Es, NEW c \in BOOLEAN, NEW v \in BOOLEAN, NEW r \in BOOLEAN,
             NEW l \in Ts, NEW o \in Ts
      PROVE  WithFlight(s, e, c, v, l, o, r) \in SafetyOf(Es, Ts, BOOLEAN)
  BY DEF SafetyOf, WithFlight
<1>5. WithPlace(s, "decide") \in SafetyOf(Es, Ts, BOOLEAN)
  BY DEF SafetyOf, WithPlace
<1>6. ASSUME NEW r \in BOOLEAN, NEW c \in BOOLEAN
      PROVE  WithDecision(s, r, c) \in SafetyOf(Es, Ts, BOOLEAN)
  BY DEF SafetyOf, WithDecision
<1> QED BY <1>1, <1>2, <1>3, <1>4, <1>5, <1>6

LEMMA DrainedType ==
  ASSUME TasksOK
  PROVE  /\ Drained(safety) \in Safeties
         /\ safety.cutoff => Drained(safety).cutoff
<1> DEFINE c == safety.cutoff \/ \E i \in 1..Len(power_queue) : power_queue[i].cutoff
<1>1. safety \in Safeties /\ (safety.cutoff => c)
  BY DEF TasksOK
<1>2. c \in BOOLEAN
  OBVIOUS
<1>3. Drained(safety) = WithCutoff(safety, c)
  BY DEF Drained, WithCutoff
<1> HIDE DEF c
<1>4. WithCutoff(safety, c).cutoff = c
  BY <1>1 DEF WithCutoff, Safeties, SafetyOf
<1> QED BY <1>1, <1>2, <1>3, <1>4, SafetyType, SafetyUpdate

LEMMA CopiedType ==
  ASSUME f \in Flights, NEW s \in Safeties
  PROVE  Copied(s) \in Safeties
<1> DEFINE offset == IF f.invalidated THEN f.elapsed ELSE 0
           flying == f.phase \in Airborne
           deployed == f.phase = "descent"
           asked == s.requested \/ deployed
<1>1. /\ f.epoch \in Epochs /\ f.liftoff \in Times /\ f.cutoff \in BOOLEAN
      /\ offset \in Times
  BY DEF Flights, Epochs, Times
<1>2. flying \in BOOLEAN /\ deployed \in BOOLEAN /\ asked \in BOOLEAN
  OBVIOUS
<1>3. \/ Copied(s) = WithFlight(s, f.epoch, f.cutoff, flying, f.liftoff, offset, deployed)
      \/ Copied(s) = WithLiftoff(s, f.liftoff, offset, asked)
      \/ Copied(s) = WithRequest(s, asked)
  BY DEF Copied, WithFlight, WithLiftoff, WithRequest
<1> HIDE DEF offset, flying, deployed, asked
<1>4. s \in SafetyOf(Epochs, Times, BOOLEAN)
  BY SafetyType
<1>5. WithFlight(s, f.epoch, f.cutoff, flying, f.liftoff, offset, deployed) \in Safeties
  BY <1>1, <1>2, <1>4, SafetyType, SafetyUpdate, Zenon
<1>6. WithLiftoff(s, f.liftoff, offset, asked) \in Safeties
  BY <1>1, <1>2, <1>4, SafetyType, SafetyUpdate, Zenon
<1>7. WithRequest(s, asked) \in Safeties
  BY <1>2, <1>4, SafetyType, SafetyUpdate, Zenon
<1> QED BY <1>3, <1>5, <1>6, <1>7

-----------------------------------------------------------------------------
(* The steps of safetyTask.                                                *)

\* A step that leaves the flight, the moves and opened_epoch alone.
LEMMA FrameStep ==
  ASSUME IInv, UNCHANGED <<flightVars, moves>>, para'.opened = para.opened, TasksOK'
  PROVE  IInv'
<1>1. FlightIsTimed'
  BY DEF IInv, FlightIsTimed, flightVars, Timed, AgeAt, Mono
<1>2. MovedOnce'
  BY DEF IInv, MovedOnce, flightVars
<1> QED BY <1>1, <1>2 DEF IInv

LEMMA SafetyObserveStep ==
  ASSUME IInv, NEW locked \in BOOLEAN, SafetyObserve(locked)
  PROVE  IInv'
<1> DEFINE s == IF locked THEN Copied(Drained(safety)) ELSE Drained(safety)
<1>1. s \in Safeties
  BY DrainedType, CopiedType DEF IInv, FlightIsTimed
<1>2. safety' = WithPlace(s, "decide")
  BY DEF SafetyObserve, WithPlace
<1> HIDE DEF s
<1>3. safety' \in Safeties
  BY <1>1, <1>2, SafetyType, SafetyUpdate
<1>4. power' \in BOOLEAN
  <2>1. CASE power_queue = <<>>
    BY <2>1 DEF SafetyObserve, PowerServed, IInv, TasksOK
  <2>2. CASE power_queue # <<>>
    BY <2>2 DEF SafetyObserve, PowerServed
  <2> QED BY <2>1, <2>2
<1>5. power_queue' \in Seq(PowerRequests) /\ Len(power_queue') <= QueueCapacity
  BY DEF SafetyObserve
<1>6. UNCHANGED <<flightVars, pressure_epoch, para_queue, para, commanded, cache, mission,
                  moves>>
  BY DEF SafetyObserve
<1> QED BY <1>3, <1>4, <1>5, <1>6, FrameStep DEF IInv, TasksOK

LEMMA SafetyDecideStep ==
  ASSUME IInv, SafetyDecide
  PROVE  IInv'
<1> DEFINE asks == /\ ~safety.requested
                   /\ \/ /\ pressure_epoch = safety.epoch
                         /\ SafetyElapsed >= PressureGate
                      \/ SafetyElapsed >= DeploymentDeadline
           cuts == /\ ~safety.cutoff
                   /\ SafetyClockReached /\ SafetyElapsed >= PowerCutoff
           asked == IF asks THEN SentFirst(para_queue, Open(safety.epoch, TRUE))
                            ELSE para_queue
<1>1. /\ safety \in Safeties /\ safety.epoch \in 0..MaxEpoch
      /\ para_queue \in Seq(ParaRequests) /\ Len(para_queue) <= QueueCapacity
  BY DEF IInv, TasksOK, Safeties, SafetyOf
<1>2. /\ para_queue' = IF cuts THEN Sent(asked, PowerOff) ELSE asked
      /\ power' = (power /\ ~cuts)
      /\ safety' = WithDecision(safety, DeploymentAsked(asks), safety.cutoff \/ cuts)
      /\ UNCHANGED <<flightVars, pressure_epoch, power_queue, para, commanded, cache,
                     mission, moves>>
  BY DEF SafetyDecide, WithDecision
<1> HIDE DEF asks, cuts
<1>3. asked \in Seq(ParaRequests) /\ Len(asked) <= QueueCapacity
  BY <1>1, QueueUpdate, RequestTypes
<1> HIDE DEF asked
<1>4. para_queue' \in Seq(ParaRequests) /\ Len(para_queue') <= QueueCapacity
  BY <1>2, <1>3, QueueUpdate, RequestTypes
<1>5. DeploymentAsked(asks) \in BOOLEAN /\ (safety.cutoff \/ cuts) \in BOOLEAN
  BY DEF DeploymentAsked
<1>6. safety' \in Safeties
  <2> DEFINE r == DeploymentAsked(asks)
             c == safety.cutoff \/ cuts
  <2> HIDE DEF r, c
  <2>1. safety' = WithDecision(safety, r, c) /\ r \in BOOLEAN /\ c \in BOOLEAN
    BY <1>2, <1>5 DEF r, c
  <2> QED BY <1>1, <2>1, SafetyType, SafetyUpdate
<1>7. power' \in BOOLEAN
  BY <1>2
<1> QED BY <1>2, <1>4, <1>6, <1>7, FrameStep DEF IInv, TasksOK

-----------------------------------------------------------------------------
(* The steps of parachuteTask.                                             *)

LEMMA ParaReceiveStep ==
  ASSUME IInv, NEW locked \in BOOLEAN, NEW asks \in BOOLEAN, ParaReceive(locked, asks)
  PROVE  IInv'
<1> DEFINE r == Head(para_queue)
<1>1. /\ para_queue' \in Seq(ParaRequests) /\ Len(para_queue') <= QueueCapacity
      /\ r \in ParaRequests
  BY TailUpdate DEF IInv, TasksOK, ParaReceive
<1>2. /\ para \in Paras /\ power \in BOOLEAN
      /\ power_queue \in Seq(PowerRequests) /\ Len(power_queue) <= QueueCapacity
  BY DEF IInv, TasksOK
<1>3. /\ \/ ReceiveOpen(r, locked, asks)
         \/ ReceiveHold(r)
         \/ ReceivePowerOff(r)
      /\ UNCHANGED <<flightVars, safety, pressure_epoch, commanded, cache, mission, moves>>
  BY DEF ParaReceive
<1> HIDE DEF r
<1>4. /\ para' \in Paras /\ para'.opened = para.opened
      /\ power' \in BOOLEAN
      /\ power_queue' \in Seq(PowerRequests) /\ Len(power_queue') <= QueueCapacity
  <2>1. CASE ReceiveOpen(r, locked, asks)
    <3>1. r.epoch \in 0..MaxEpoch
      BY <1>1, <2>1 DEF ReceiveOpen, ParaRequests
    <3>2. para' \in Paras /\ para'.opened = para.opened
      BY <1>2, <2>1, <3>1 DEF ReceiveOpen, Paras, ParasOf
    <3>3. power' \in BOOLEAN
      BY <1>2, <2>1 DEF ReceiveOpen
    <3>4. power_queue' = power_queue \/ power_queue' = Sent(power_queue, TurnOn)
      BY <2>1 DEF ReceiveOpen
    <3> QED BY <1>2, <3>2, <3>3, <3>4, QueueUpdate, RequestTypes
  <2>2. CASE ReceiveHold(r)
    <3>1. para' \in Paras /\ para'.opened = para.opened
      BY <1>2, <2>2 DEF ReceiveHold, Paras, ParasOf
    <3> QED BY <1>2, <2>2, <3>1 DEF ReceiveHold
  <2>3. CASE ReceivePowerOff(r)
    <3>1. para' \in Paras /\ para'.opened = para.opened
      BY <1>2, <2>3 DEF ReceivePowerOff, Paras, ParasOf
    <3>2. power' \in BOOLEAN
      BY <2>3 DEF ReceivePowerOff
    <3>3. power_queue' = Sent(power_queue, CutPower)
      BY <2>3 DEF ReceivePowerOff
    <3> QED BY <1>2, <3>1, <3>2, <3>3, QueueUpdate, RequestTypes
  <2> QED BY <1>3, <2>1, <2>2, <2>3
<1> QED BY <1>1, <1>3, <1>4, FrameStep DEF IInv, TasksOK

LEMMA ParaCommandStep ==
  ASSUME IInv, NEW takes \in BOOLEAN, ParaCommand(takes)
  PROVE  IInv'
<1>1. para \in Paras /\ commanded \in BOOLEAN
  BY DEF IInv, TasksOK
<1>2. para' \in Paras /\ para'.opened = para.opened
  BY <1>1 DEF ParaCommand, Paras, ParasOf
<1>3. commanded' \in BOOLEAN
  BY <1>1 DEF ParaCommand
<1>4. UNCHANGED <<flightVars, safety, pressure_epoch, para_queue, power_queue, power,
                  cache, mission, moves>>
  BY DEF ParaCommand
<1> QED BY <1>2, <1>3, <1>4, FrameStep DEF IInv, TasksOK

\* A move is issued for an epoch that opened_epoch does not name yet, in the Descent
\* of that epoch: there has been none before in this boot.
LEMMA ParaActStep ==
  ASSUME IInv, NEW tries \in BOOLEAN, NEW locked \in BOOLEAN, NEW done \in BOOLEAN,
         ParaAct(tries, locked, done)
  PROVE  IInv'
<1> DEFINE opens == AutomaticPending /\ para.op = "none" /\ MayOpen(locked)
           working == ~para.off /\ power /\ tries
           op == CASE para.op = "pending" -> "manual"
                   [] opens -> "automatic"
                   [] OTHER -> para.op
           last == IF ~working THEN para.op ELSE IF done THEN "none" ELSE op
           opened == IF working /\ opens THEN para.automatic ELSE para.opened
<1>1. /\ para \in Paras
      /\ power_queue \in Seq(PowerRequests) /\ Len(power_queue) <= QueueCapacity
      /\ moves \in [{"flight", "boot"} -> 0..2]
  BY DEF IInv, TasksOK
<1>2. /\ para' = [para EXCEPT !.at = "receive", !.op = last, !.opened = opened]
      /\ moves' = IF working /\ opens THEN Counted ELSE moves
  BY DEF ParaAct, MoveConsumed
<1>3. last \in {"none", "pending", "manual", "automatic"}
  BY <1>1 DEF Paras, ParasOf
<1>4. opened \in 0..MaxEpoch
  BY <1>1 DEF Paras, ParasOf
<1>5. opens => para.automatic = f.epoch /\ f.phase = "descent" /\ para.opened # f.epoch
  BY DEF AutomaticPending, MayOpen
<1>6. working /\ opens => opened = para.automatic
  OBVIOUS
<1>7. ~(working /\ opens) => opened = para.opened
  OBVIOUS
<1> HIDE DEF opens, working, last, opened
<1>8. para' \in Paras /\ para'.opened = opened
  BY <1>1, <1>2, <1>3, <1>4 DEF Paras, ParasOf
<1>9. moves' \in [{"flight", "boot"} -> 0..2]
  <2>1. Counted \in [{"flight", "boot"} -> 0..2]
    BY <1>1 DEF Counted
  <2> QED BY <1>1, <1>2, <2>1
<1>10. power_queue' \in Seq(PowerRequests) /\ Len(power_queue') <= QueueCapacity
  <2>1. power_queue' = power_queue \/ power_queue' = Sent(power_queue, TurnOn)
    BY DEF ParaAct
  <2> QED BY <1>1, <2>1, QueueUpdate, RequestTypes
<1>11. UNCHANGED <<flightVars, safety, pressure_epoch, para_queue, power, commanded,
                   cache, mission>>
  BY DEF ParaAct
<1>12. TasksOK'
  BY <1>8, <1>9, <1>10, <1>11 DEF IInv, TasksOK
<1>13. CASE working /\ opens
  <2>1. moves["boot"] = 0
    BY <1>1, <1>5, <1>13 DEF IInv, MovedOnce
  <2>2. moves'["boot"] = 1
    BY <1>2, <1>13, <2>1 DEF Counted
  <2>3. MovedOnce'
    BY <1>5, <1>6, <1>8, <1>11, <1>13, <2>2 DEF MovedOnce, flightVars
  <2>4. FlightIsTimed'
    BY <1>11 DEF IInv, FlightIsTimed, flightVars, Timed, AgeAt, Mono
  <2> QED BY <1>12, <2>3, <2>4 DEF IInv
<1>14. CASE ~(working /\ opens)
  BY <1>2, <1>7, <1>8, <1>11, <1>12, <1>14, FrameStep
<1> QED BY <1>13, <1>14

-----------------------------------------------------------------------------
(* The steps of missionRealtimeTask.                                       *)

LEMMA NewFlightStep ==
  ASSUME IInv, NewFlight
  PROVE  IInv'
<1>1. FlightIsTimed'
  BY StartStep, RollBackStep DEF IInv, NewFlight
<1>2. TasksOK'
  <2>1. moves' \in [{"flight", "boot"} -> 0..2]
    BY DEF NewFlight
  <2> QED BY <2>1 DEF IInv, TasksOK, NewFlight
<1>3. MovedOnce'
  BY DEF NewFlight, MovedOnce
<1> QED BY <1>1, <1>2, <1>3 DEF IInv

LEMMA CancelSequenceStep ==
  ASSUME IInv, CancelSequence
  PROVE  IInv'
<1>1. FlightIsTimed'
  BY CancelStep DEF IInv, CancelSequence
<1>2. para_queue' \in Seq(ParaRequests) /\ Len(para_queue') <= QueueCapacity
  BY QueueUpdate, RequestTypes DEF IInv, TasksOK, CancelSequence
<1>3. power' \in BOOLEAN
  BY DEF CancelSequence
<1>4. TasksOK'
  BY <1>2, <1>3 DEF IInv, TasksOK, CancelSequence
<1>5. MovedOnce'
  BY DEF IInv, MovedOnce, CancelSequence, Cancel
<1> QED BY <1>1, <1>4, <1>5 DEF IInv

LEMMA GroundHoldStep ==
  ASSUME IInv, NEW emergency \in BOOLEAN, GroundHold(emergency)
  PROVE  IInv'
<1>1. para_queue' \in Seq(ParaRequests) /\ Len(para_queue') <= QueueCapacity
  BY QueueUpdate, RequestTypes DEF IInv, TasksOK, GroundHold
<1>2. power_queue' \in Seq(PowerRequests) /\ Len(power_queue') <= QueueCapacity
  BY QueueUpdate, RequestTypes DEF IInv, TasksOK, GroundHold
<1> QED BY <1>1, <1>2, FrameStep DEF IInv, TasksOK, GroundHold

LEMMA MissionTickStep ==
  ASSUME IInv, MissionTick
  PROVE  IInv'
<1>1. mission' \in Missions
  BY DEF IInv, TasksOK, MissionTick, Missions
<1>2. UNCHANGED <<safety, pressure_epoch, para_queue, power_queue, power, para, commanded,
                  cache, moves>>
  BY DEF MissionTick
<1>3. TasksOK'
  BY <1>1, <1>2 DEF IInv, TasksOK
<1>4. CASE UNCHANGED flightVars
  BY <1>2, <1>3, <1>4, FrameStep
<1>5. CASE \E seen, apex \in BOOLEAN : Tick(seen, apex)
  <2>1. FlightIsTimed' /\ f'.epoch = f.epoch
          /\ (f.phase = "descent" => f'.phase = "descent")
    BY <1>5, TickStep DEF IInv
  <2> QED BY <1>2, <1>3, <2>1 DEF IInv, MovedOnce
<1> QED BY <1>4, <1>5 DEF MissionTick

LEMMA MissionRefreshStep ==
  ASSUME IInv, NEW locked \in BOOLEAN, MissionRefresh(locked)
  PROVE  IInv'
<1>1. mission' \in Missions
  BY DEF IInv, TasksOK, MissionRefresh, Missions
<1>2. cache' \in Caches
  BY DEF IInv, TasksOK, FlightIsTimed, MissionRefresh, Caches, Flights
<1> QED BY <1>1, <1>2, FrameStep DEF IInv, TasksOK, MissionRefresh

LEMMA MissionDispatchStep ==
  ASSUME IInv, MissionDispatch
  PROVE  IInv'
<1> DEFINE cuts == cache.cutoff /\ ~mission.cutoff_sent
           after_cut == IF cuts THEN Sent(para_queue, PowerOff) ELSE para_queue
           opens == cache.deployed /\ ~mission.open_sent
<1>1. /\ para_queue \in Seq(ParaRequests) /\ Len(para_queue) <= QueueCapacity
      /\ power_queue \in Seq(PowerRequests) /\ Len(power_queue) <= QueueCapacity
      /\ cache.epoch \in 0..MaxEpoch
  BY DEF IInv, TasksOK, Caches
<1>2. /\ power_queue' = IF cuts THEN Sent(power_queue, CutPower) ELSE power_queue
      /\ para_queue' = IF opens THEN Sent(after_cut, Open(cache.epoch, FALSE))
                                ELSE after_cut
      /\ mission' = [at |-> "tick",
                     open_sent |-> cache.deployed
                                   /\ (mission.open_sent \/ ~Full(after_cut)),
                     cutoff_sent |-> cache.epoch # 0
                                     /\ (mission.cutoff_sent \/ cuts)]
      /\ UNCHANGED <<flightVars, safety, pressure_epoch, power, para, commanded, cache,
                     moves>>
  BY DEF MissionDispatch
<1> HIDE DEF cuts, opens
<1>3. after_cut \in Seq(ParaRequests) /\ Len(after_cut) <= QueueCapacity
  BY <1>1, QueueUpdate, RequestTypes
<1> HIDE DEF after_cut
<1>4. /\ para_queue' \in Seq(ParaRequests) /\ Len(para_queue') <= QueueCapacity
      /\ power_queue' \in Seq(PowerRequests) /\ Len(power_queue') <= QueueCapacity
  BY <1>1, <1>2, <1>3, QueueUpdate, RequestTypes
<1>5. mission' \in Missions
  <2> DEFINE a == cache.deployed /\ (mission.open_sent \/ ~Full(after_cut))
             b == cache.epoch # 0 /\ (mission.cutoff_sent \/ cuts)
  <2>1. a \in BOOLEAN /\ b \in BOOLEAN
    OBVIOUS
  <2>2. mission' = [at |-> "tick", open_sent |-> a, cutoff_sent |-> b]
    BY <1>2
  <2> HIDE DEF a, b
  <2> QED BY <2>1, <2>2 DEF Missions
<1> QED BY <1>2, <1>4, <1>5, FrameStep DEF IInv, TasksOK

-----------------------------------------------------------------------------
(* The other steps.                                                        *)

LEMMA PressureApexStep ==
  ASSUME IInv, PressureApex
  PROVE  IInv'
<1>1. pressure_epoch' \in 0..MaxEpoch
  BY DEF IInv, FlightIsTimed, PressureApex, Flights
<1> QED BY <1>1, FrameStep DEF IInv, TasksOK, PressureApex

LEMMA ManualMoveStep ==
  ASSUME IInv, ManualMove
  PROVE  IInv'
<1>1. commanded' \in BOOLEAN
  BY DEF ManualMove
<1> QED BY <1>1, FrameStep DEF IInv, TasksOK, ManualMove

LEMMA InitialTypes ==
  /\ InitialSafety \in Safeties /\ InitialPara \in Paras
  /\ InitialMission \in Missions /\ InitialCache \in Caches
  /\ <<>> \in Seq(ParaRequests) /\ <<>> \in Seq(PowerRequests)
  /\ Len(<<>>) <= QueueCapacity /\ 0 \in 0..MaxEpoch
BY DEF InitialSafety, InitialPara, InitialMission, InitialCache, Safeties, SafetyOf, Paras,
   ParasOf, Missions, Caches

LEMMA PowerCycleStep ==
  ASSUME IInv, PowerCycle
  PROVE  IInv'
<1>1. FlightIsTimed'
  BY ResetStep DEF IInv, PowerCycle
<1>2. moves' \in [{"flight", "boot"} -> 0..2] /\ moves'["boot"] = 0
  BY DEF IInv, TasksOK, PowerCycle
<1>3. /\ safety' = InitialSafety /\ para' = InitialPara
      /\ mission' = InitialMission /\ cache' = InitialCache
      /\ para_queue' = <<>> /\ power_queue' = <<>> /\ power' = FALSE
      /\ pressure_epoch' = 0 /\ commanded' = FALSE
  BY DEF PowerCycle
<1>4. TasksOK'
  BY <1>2, <1>3, InitialTypes DEF TasksOK
<1>5. MovedOnce'
  BY <1>2 DEF MovedOnce
<1> QED BY <1>1, <1>4, <1>5 DEF IInv

LEMMA RebootStep ==
  ASSUME IInv, Reboot
  PROVE  IInv'
<1>1. FlightIsTimed'
  BY BootStep DEF IInv, Reboot
<1>2. TasksOK'
  BY DEF IInv, TasksOK, Reboot, chainVars
<1>3. moves["boot"] > 0 => f.phase = "descent"
  BY DEF IInv, MovedOnce
<1>4. ~(moves'["boot"] > 0)
  BY <1>3 DEF IInv, FlightIsTimed, Reboot, Boot, chainVars, Airborne
<1> QED BY <1>1, <1>2, <1>4 DEF IInv, MovedOnce

LEMMA PassStep ==
  ASSUME IInv, Pass
  PROVE  IInv'
<1>1. FlightIsTimed'
  BY AdvanceStep DEF IInv, Pass
<1>2. UNCHANGED chainVars /\ UNCHANGED f
  BY DEF Pass, Advance
<1> QED BY <1>1, <1>2 DEF IInv, TasksOK, MovedOnce, chainVars

-----------------------------------------------------------------------------
LEMMA InitIInv == ChainInit => IInv
<1> SUFFICES ASSUME ChainInit
             PROVE  IInv
  OBVIOUS
<1>1. f \in Flights /\ f.phase = "ground"
  BY DEF ChainInit, Init, OnGround, Flights, Phases
<1>2. FlightIsTimed
  BY <1>1, WaitingIsTimed DEF ChainInit, Init, FlightIsTimed, Airborne
<1>3. moves \in [{"flight", "boot"} -> 0..2] /\ moves["boot"] = 0
  BY DEF ChainInit
<1>4. TasksOK
  BY <1>3, InitialTypes DEF ChainInit, TasksOK
<1> QED BY <1>2, <1>3, <1>4 DEF IInv, MovedOnce

LEMMA NextIInv == IInv /\ [ChainNext]_vars => IInv'
<1> SUFFICES ASSUME IInv, [ChainNext]_vars
             PROVE  IInv'
  OBVIOUS
<1>1. CASE SafetyTask
  BY <1>1, SafetyDecideStep, SafetyObserveStep DEF SafetyTask
<1>2. CASE ParachuteTask
  BY <1>2, ParaReceiveStep, ParaCommandStep, ParaActStep DEF ParachuteTask
<1>3. CASE MissionRealtimeTask
  BY <1>3, MissionTickStep, MissionRefreshStep, MissionDispatchStep
     DEF MissionRealtimeTask
<1>4. CASE MissionCommand
  BY <1>4, NewFlightStep, CancelSequenceStep, GroundHoldStep DEF MissionCommand
<1>5. CASE PressureApex
  BY <1>5, PressureApexStep
<1>6. CASE ManualMove
  BY <1>6, ManualMoveStep
<1>7. CASE PowerCycle
  BY <1>7, PowerCycleStep
<1>8. CASE Reboot
  BY <1>8, RebootStep
<1>9. CASE Pass
  BY <1>9, PassStep
<1>10. CASE UNCHANGED vars
  <2>1. UNCHANGED <<flightVars, moves>> /\ UNCHANGED chainVars
    BY <1>10 DEF vars, chainVars
  <2>2. TasksOK'
    BY <2>1 DEF IInv, TasksOK, chainVars
  <2> QED BY <2>1, <2>2, FrameStep DEF chainVars
<1> QED BY <1>1, <1>2, <1>3, <1>4, <1>5, <1>6, <1>7, <1>8, <1>9, <1>10 DEF ChainNext

LEMMA IInvHolds == ChainSpec => []IInv
BY InitIInv, NextIInv, PTL DEF ChainSpec

-----------------------------------------------------------------------------
\* The parachute has moved by itself at most once in a boot, in the Descent of this
\* flight and not before the pressure gate: whatever safetyTask and
\* missionRealtimeTask ask for, over queues that fill up, by stale epochs and by
\* clocks that a reset has moved, parachuteTask consumes the epoch before it moves.
THEOREM MoveTheorem == ChainSpec => []AutomaticMove
<1>1. IInv => AutomaticMove
  <2> SUFFICES ASSUME IInv
               PROVE  AutomaticMove
    OBVIOUS
  <2>1. ChainTypeOK
    BY DEF IInv, FlightIsTimed, TasksOK, ChainTypeOK, Safeties, SafetyOf, Paras, ParasOf,
       Missions, Caches
  <2>2. moves["boot"] \in 0..2
    BY DEF IInv, TasksOK
  <2>3. OneMovePerBoot
    BY <2>2 DEF IInv, MovedOnce, OneMovePerBoot
  <2>4. MoveIsDeployment
    <3> SUFFICES ASSUME moves["boot"] > 0
                 PROVE  f.phase = "descent" /\ Age >= PressureGate
      BY DEF MoveIsDeployment
    <3>1. f.phase = "descent"
      BY DEF IInv, MovedOnce
    <3>2. f.elapsed >= PressureGate /\ f.elapsed <= AgeAt(f, Mono)
      BY <3>1 DEF IInv, FlightIsTimed, Timed, Airborne
    <3>3. f.elapsed \in Nat /\ f.offset \in Nat /\ f.liftoff \in Nat /\ Mono \in Nat
      BY MonoIsNat DEF IInv, FlightIsTimed, Flights
    <3> QED BY <3>1, <3>2, <3>3 DEF Age, AgeAt
  <2> QED BY <2>1, <2>3, <2>4 DEF AutomaticMove
<1> QED BY <1>1, IInvHolds, PTL

\* Once safetyTask has latched the cutoff nothing brings the parachute's power back:
\* it serves no request of another task any more, and the other tasks only cut.
THEOREM CutoffTheorem == ChainSpec => CutoffHolds
<1>1. IInv /\ [ChainNext]_vars => (safety.cutoff /\ safety'.cutoff /\ power' => power)
  <2> SUFFICES ASSUME IInv, [ChainNext]_vars, safety.cutoff, power'
               PROVE  power
    OBVIOUS
  <2>1. CASE \E locked \in BOOLEAN : SafetyObserve(locked)
    BY <2>1, DrainedType DEF IInv, SafetyObserve, PowerServed
  <2>2. CASE SafetyDecide
    BY <2>2 DEF SafetyDecide
  <2>3. CASE ParachuteTask
    BY <2>3 DEF ParachuteTask, ParaReceive, ReceiveOpen, ReceiveHold, ReceivePowerOff,
       ParaCommand, ParaAct
  <2>4. CASE MissionRealtimeTask
    BY <2>4 DEF MissionRealtimeTask, MissionTick, MissionRefresh, MissionDispatch
  <2>5. CASE MissionCommand
    BY <2>5 DEF MissionCommand, NewFlight, CancelSequence, GroundHold
  <2>6. CASE PressureApex \/ ManualMove \/ PowerCycle
    BY <2>6 DEF PressureApex, ManualMove, PowerCycle
  <2>7. CASE Reboot \/ Pass \/ UNCHANGED vars
    BY <2>7 DEF Reboot, Pass, vars, chainVars
  <2> QED BY <2>1, <2>2, <2>3, <2>4, <2>5, <2>6, <2>7 DEF ChainNext, SafetyTask
<1> QED BY <1>1, IInvHolds, PTL DEF ChainSpec, CutoffHolds

-----------------------------------------------------------------------------
(* No flight of a boot disturbs the next one.                              *)
(*                                                                         *)
(* Without a reset, and with safetyTask and missionRealtimeTask in time, a *)
(* cutoff is ordered by nobody before the Descent is as old as it takes:   *)
(* the clock of a flight that is still in Flight has not passed the        *)
(* deployment deadline, and a copy of it that safetyTask has kept over a   *)
(* rollback stands still until the new flight is seen.  As the Descent is  *)
(* the end of a boot's flights, no order for a cutoff is ever left over.   *)

Elements(q) == {q[i] : i \in 1..Len(q)}

CutOrdered ==
  \/ f.cutoff \/ safety.cutoff \/ cache.cutoff
  \/ \E request \in Elements(para_queue) : request.kind = "power_off"
  \/ \E request \in Elements(power_queue) : request.cutoff

InTime == MaxResets = 0 /\ "safety" \notin MayStall /\ "mission" \notin MayStall

FirstBoot ==
  /\ running /\ resets = 0 /\ f.invalidated = FALSE
  /\ f.phase \in Airborne => f.offset = 0
FlightIsShort ==
  f.phase = "flight" => f.elapsed < DeploymentDeadline /\ Age <= DeploymentDeadline
ClocksAgree ==
  /\ safety.epoch <= f.epoch
  /\ safety.liftoff_valid =>
       IF safety.epoch = f.epoch
       THEN f.phase \in Airborne /\ safety.liftoff = f.liftoff /\ safety.offset = 0
       ELSE SafetyElapsed <= DeploymentDeadline
CutsAreDue == CutOrdered => f.phase = "descent" /\ Age >= PowerCutoff

Apart == InTime /\ FirstBoot /\ FlightIsShort /\ ClocksAgree /\ CutsAreDue

LEMMA QueueContents ==
  ASSUME NEW R, NEW q \in Seq(R), NEW r \in R
  PROVE  /\ Elements(Sent(q, r)) \subseteq Elements(q) \cup {r}
         /\ Elements(SentFirst(q, r)) \subseteq Elements(q) \cup {r}
<1>1. Len(q) \in Nat
  OBVIOUS
<1>2. Elements(Append(q, r)) \subseteq Elements(q) \cup {r}
  <2> SUFFICES ASSUME NEW i \in 1..Len(Append(q, r))
               PROVE  Append(q, r)[i] \in Elements(q) \cup {r}
    BY DEF Elements
  <2>1. Len(Append(q, r)) = Len(q) + 1
    OBVIOUS
  <2>2. CASE i = Len(q) + 1
    BY <2>2
  <2>3. CASE i \in 1..Len(q)
    BY <2>3 DEF Elements
  <2> QED BY <1>1, <2>1, <2>2, <2>3
<1>3. Elements(<<r>> \o q) \subseteq Elements(q) \cup {r}
  <2> SUFFICES ASSUME NEW i \in 1..Len(<<r>> \o q)
               PROVE  (<<r>> \o q)[i] \in Elements(q) \cup {r}
    BY DEF Elements
  <2>1. Len(<<r>> \o q) = 1 + Len(q)
    BY <1>1
  <2>2. CASE i = 1
    BY <2>2
  <2>3. CASE i # 1
    <3>1. i - 1 \in 1..Len(q)
      BY <1>1, <2>1, <2>3
    <3>2. (<<r>> \o q)[i] = q[i - 1]
      BY <1>1, <2>1, <2>3
    <3> QED BY <3>1, <3>2 DEF Elements
  <2> QED BY <2>2, <2>3
<1> QED BY <1>2, <1>3 DEF Sent, SentFirst

LEMMA TailContents ==
  ASSUME NEW R, NEW q \in Seq(R), q # <<>>
  PROVE  Head(q) \in Elements(q) /\ Elements(Tail(q)) \subseteq Elements(q)
<1>1. /\ Tail(q) \in Seq(R) /\ Len(Tail(q)) = Len(q) - 1 /\ Len(q) \in Nat /\ Len(q) > 0
      /\ Head(q) = q[1]
      /\ \A i \in 1..Len(Tail(q)) : Tail(q)[i] = q[i + 1]
  BY HeadTailProperties, EmptySeq
<1>2. \A i \in 1..Len(Tail(q)) : i + 1 \in 1..Len(q)
  BY <1>1
<1> QED BY <1>1, <1>2 DEF Elements

\* What a tick does to the flight of a first boot.
LEMMA LiftedOffGoesOn ==
  ASSUME NEW s \in Flights, NEW t \in Nat, NEW seen \in BOOLEAN, Timed(s, t)
  PROVE  LET r == LiftedOff(s, seen, t)
         IN  /\ r.invalidated = s.invalidated /\ r.cutoff = s.cutoff
             /\ \/ r = s
                \/ s.phase = "waiting" /\ r.phase = "flight" /\ r.offset = 0
<1>1. CASE s.phase = "waiting" /\ seen
  <2> DEFINE l == IF t >= Backdate THEN t - Backdate ELSE 0
  <2>1. l \in Times
    BY DEF Times
  <2>2. LiftedOff(s, seen, t) = Lifted(s, l)
    BY <1>1 DEF LiftedOff, Lifted
  <2> HIDE DEF l
  <2>3. /\ Lifted(s, l) \in FlightsOf(Phases, Epochs, Times, BOOLEAN)
        /\ Lifted(s, l).phase = "flight" /\ Lifted(s, l).offset = 0
        /\ Lifted(s, l).invalidated = s.invalidated /\ Lifted(s, l).cutoff = s.cutoff
    BY <2>1, FlightType, LiftedUpdate
  <2> QED BY <1>1, <2>2, <2>3
<1>2. CASE ~(s.phase = "waiting" /\ seen)
  BY <1>2 DEF LiftedOff
<1> QED BY <1>1, <1>2

LEMMA ClockedGoesOn ==
  ASSUME NEW s \in Flights, NEW t \in Nat, s.phase \in Airborne => s.liftoff <= t
  PROVE  LET r == Clocked(s, t)
         IN  /\ r.phase = s.phase /\ r.offset = s.offset /\ r.liftoff = s.liftoff
             /\ r.invalidated = s.invalidated /\ r.cutoff = s.cutoff
             /\ r.phase \in Airborne => r.elapsed = AgeAt(r, t)
<1> DEFINE x == IF s.phase \in Airborne /\ t >= s.liftoff
                THEN s.offset + (t - s.liftoff) ELSE 0
           r == [s EXCEPT !.elapsed = x]
<1>0. s.offset \in Nat /\ s.liftoff \in Nat
  BY DEF Flights
<1>1. x \in Times /\ (s.phase \in Airborne => x = AgeAt(s, t))
  BY <1>0 DEF AgeAt, Times
<1>2. Clocked(s, t) = r
  BY DEF Clocked
<1> HIDE DEF x
<1>3. /\ r.phase = s.phase /\ r.elapsed = x
      /\ r.offset = s.offset /\ r.liftoff = s.liftoff
      /\ r.invalidated = s.invalidated /\ r.cutoff = s.cutoff
  BY <1>1, FlightType, ElapsedUpdate
<1> HIDE DEF r
<1> QED BY <1>1, <1>2, <1>3 DEF AgeAt

LEMMA DeployedGoesOn ==
  ASSUME NEW s \in Flights, NEW apex \in BOOLEAN
  PROVE  LET r == Deployed(s, apex)
         IN  /\ r.elapsed = s.elapsed /\ r.offset = s.offset /\ r.liftoff = s.liftoff
             /\ r.invalidated = s.invalidated /\ r.cutoff = s.cutoff
             /\ r.phase \in Airborne <=> s.phase \in Airborne
             /\ r.phase = "flight" => r.elapsed < DeploymentDeadline
<1>0. s.elapsed \in Nat
  BY DEF Flights
<1>1. CASE /\ s.phase = "flight"
           /\ \/ apex /\ s.elapsed >= PressureGate
              \/ s.elapsed >= DeploymentDeadline
  <2> DEFINE r == [s EXCEPT !.phase = "descent"]
  <2>1. Deployed(s, apex) = r
    BY <1>1 DEF Deployed
  <2>2. /\ r.phase = "descent" /\ r.elapsed = s.elapsed
        /\ r.offset = s.offset /\ r.liftoff = s.liftoff
        /\ r.invalidated = s.invalidated /\ r.cutoff = s.cutoff
    BY FlightType, PhaseUpdate, Values
  <2> HIDE DEF r
  <2> QED BY <1>1, <2>1, <2>2 DEF Airborne
<1>2. CASE ~ /\ s.phase = "flight"
             /\ \/ apex /\ s.elapsed >= PressureGate
                \/ s.elapsed >= DeploymentDeadline
  <2>1. Deployed(s, apex) = s
    BY <1>2 DEF Deployed
  <2> QED BY <1>0, <1>2, <2>1
<1> QED BY <1>1, <1>2

LEMMA CutOffGoesOn ==
  ASSUME NEW s \in Flights
  PROVE  LET r == CutOff(s)
         IN  /\ r.phase = s.phase /\ r.elapsed = s.elapsed
             /\ r.offset = s.offset /\ r.liftoff = s.liftoff
             /\ r.invalidated = s.invalidated
             /\ r.cutoff => s.cutoff \/ (s.phase \in Airborne /\ s.elapsed >= PowerCutoff)
<1> DEFINE c == s.cutoff \/ (s.phase \in Airborne /\ s.elapsed >= PowerCutoff)
           r == [s EXCEPT !.cutoff = c]
<1>1. CutOff(s) = r /\ c \in BOOLEAN
  BY DEF CutOff
<1>2. c => s.cutoff \/ (s.phase \in Airborne /\ s.elapsed >= PowerCutoff)
  OBVIOUS
<1> HIDE DEF c
<1>3. /\ r.phase = s.phase /\ r.elapsed = s.elapsed /\ r.cutoff = c
      /\ r.offset = s.offset /\ r.liftoff = s.liftoff /\ r.invalidated = s.invalidated
  BY <1>1, FlightType, CutoffUpdate
<1> HIDE DEF r
<1> QED BY <1>1, <1>2, <1>3

GoesOn(s, r, t) ==
  /\ r.invalidated = FALSE
  /\ r.phase \in Airborne => r.offset = 0 /\ r.elapsed = AgeAt(r, t)
  /\ s.phase \in Airborne => r.phase \in Airborne /\ r.liftoff = s.liftoff
  /\ r.phase = "flight" => r.elapsed < DeploymentDeadline
  /\ r.cutoff => s.cutoff \/ (r.phase = "descent" /\ AgeAt(r, t) >= PowerCutoff)

LEMMA TickedGoesOn ==
  ASSUME NEW s \in Flights, NEW t \in Nat, NEW seen \in BOOLEAN, NEW apex \in BOOLEAN,
         Timed(s, t), s.invalidated = FALSE, s.phase \in Airborne => s.offset = 0
  PROVE  GoesOn(s, Ticked(s, seen, apex, t), t)
<1> DEFINE l == LiftedOff(s, seen, t)
           c == Clocked(l, t)
           d == Deployed(c, apex)
           r == CutOff(d)
<1>1. Ticked(s, seen, apex, t) = r
  BY DEF Ticked
<1>2. /\ l \in Flights /\ (l.phase \in Airborne => l.liftoff <= t)
      /\ l.phase = "descent" => AgeAt(l, t) >= PressureGate
  BY LiftedOffIsTimed
<1>3. /\ l.invalidated = FALSE /\ l.cutoff = s.cutoff
      /\ l.phase \in Airborne => l.offset = 0
      /\ s.phase \in Airborne => l = s
  BY LiftedOffGoesOn DEF Airborne
<1> HIDE DEF l
<1>4. c \in Flights /\ Timed(c, t)
  BY <1>2, ClockedIsTimed
<1>5. /\ c.phase = l.phase /\ c.offset = l.offset /\ c.liftoff = l.liftoff
      /\ c.invalidated = l.invalidated /\ c.cutoff = l.cutoff
      /\ c.phase \in Airborne => c.elapsed = AgeAt(c, t)
  BY <1>2, ClockedGoesOn
<1> HIDE DEF c
<1>6. d \in Flights
  BY <1>4, DeployedIsTimed
<1>7. /\ d.elapsed = c.elapsed /\ d.offset = c.offset /\ d.liftoff = c.liftoff
      /\ d.invalidated = c.invalidated /\ d.cutoff = c.cutoff
      /\ d.phase \in Airborne <=> c.phase \in Airborne
      /\ d.phase = "flight" => d.elapsed < DeploymentDeadline
  BY <1>4, DeployedGoesOn
<1> HIDE DEF d
<1>8. /\ r.phase = d.phase /\ r.elapsed = d.elapsed
      /\ r.offset = d.offset /\ r.liftoff = d.liftoff /\ r.invalidated = d.invalidated
      /\ r.cutoff => d.cutoff \/ (d.phase \in Airborne /\ d.elapsed >= PowerCutoff)
  BY <1>6, CutOffGoesOn
<1> HIDE DEF r
<1>9. r.phase \in Airborne => r.offset = 0 /\ r.elapsed = AgeAt(r, t)
  BY <1>3, <1>5, <1>7, <1>8 DEF AgeAt
<1>10. d.elapsed \in Nat
  BY <1>6 DEF Flights
<1>11. r.cutoff => \/ s.cutoff
                   \/ r.phase = "descent" /\ AgeAt(r, t) >= PowerCutoff
  BY <1>3, <1>5, <1>7, <1>8, <1>9, <1>10 DEF Airborne
<1> QED BY <1>1, <1>3, <1>5, <1>7, <1>8, <1>9, <1>11 DEF GoesOn

-----------------------------------------------------------------------------
(* Every step keeps the flights apart.                                     *)

LEMMA ApartFrame ==
  ASSUME IInv, Apart, UNCHANGED <<flightVars, safety>>, CutOrdered' => CutOrdered
  PROVE  Apart'
<1>1. UNCHANGED <<f, running, resets, Age, SafetyElapsed>>
  BY DEF flightVars, Age, SafetyElapsed, SafetyClockReached, Mono
<1>2. FirstBoot'
  BY <1>1 DEF Apart, FirstBoot
<1>3. FlightIsShort' /\ CutsAreDue'
  BY <1>1 DEF Apart, FlightIsShort, CutsAreDue
<1>4. ClocksAgree'
  BY <1>1 DEF Apart, ClocksAgree
<1> QED BY <1>2, <1>3, <1>4 DEF Apart, InTime

LEMMA ApartSafetyObserve ==
  ASSUME IInv, Apart, NEW locked \in BOOLEAN, SafetyObserve(locked)
  PROVE  Apart'
<1> DEFINE d == Drained(safety)
           s == IF locked THEN Copied(d) ELSE d
           cut == safety.cutoff \/ \E i \in 1..Len(power_queue) : power_queue[i].cutoff
<1>1. /\ safety' = WithPlace(s, "decide") /\ power_queue' = <<>>
      /\ UNCHANGED <<flightVars, para_queue, cache>>
  BY DEF SafetyObserve, WithPlace
<1>2. UNCHANGED <<f, running, resets, Age, Mono>>
  BY <1>1 DEF flightVars, Age, Mono
<1>3. d = WithCutoff(safety, cut) /\ safety \in Safeties
  BY DEF Drained, WithCutoff, IInv, TasksOK
<1>4. cut \in BOOLEAN /\ (cut => CutOrdered)
  BY DEF CutOrdered, Elements
<1> HIDE DEF cut
<1>5. /\ d \in Safeties /\ d.epoch = safety.epoch /\ d.liftoff_valid = safety.liftoff_valid
      /\ d.liftoff = safety.liftoff /\ d.offset = safety.offset
      /\ d.cutoff => CutOrdered
  BY <1>3, <1>4 DEF WithCutoff, Safeties, SafetyOf
<1> HIDE DEF d
<1>6. f \in Flights /\ f.invalidated = FALSE
  BY DEF IInv, FlightIsTimed, Apart, FirstBoot
<1>7. \/ /\ s.epoch = d.epoch /\ s.liftoff_valid = d.liftoff_valid
         /\ s.liftoff = d.liftoff /\ s.offset = d.offset
      \/ /\ s.epoch = f.epoch
         /\ s.liftoff_valid => f.phase \in Airborne /\ s.liftoff = f.liftoff /\ s.offset = 0
  BY <1>5, <1>6 DEF Copied, Safeties, SafetyOf
<1>8. s.cutoff => CutOrdered
  BY <1>5, <1>6 DEF Copied, CutOrdered, Safeties, SafetyOf
<1>9. s \in Safeties
  BY <1>5, <1>6, CopiedType
<1> HIDE DEF s
<1>10. /\ safety'.epoch = s.epoch /\ safety'.liftoff_valid = s.liftoff_valid
       /\ safety'.liftoff = s.liftoff /\ safety'.offset = s.offset
       /\ safety'.cutoff = s.cutoff
  BY <1>1, <1>9 DEF WithPlace, Safeties, SafetyOf
<1>11. ClocksAgree'
  <2>1. CASE /\ safety'.epoch = safety.epoch
             /\ safety'.liftoff_valid = safety.liftoff_valid
             /\ safety'.liftoff = safety.liftoff /\ safety'.offset = safety.offset
    <3>1. SafetyElapsed' = SafetyElapsed
      BY <1>2, <2>1 DEF SafetyElapsed, SafetyClockReached
    <3> QED BY <1>2, <2>1, <3>1 DEF Apart, ClocksAgree
  <2>2. CASE /\ safety'.epoch = f.epoch
             /\ safety'.liftoff_valid =>
                  f.phase \in Airborne /\ safety'.liftoff = f.liftoff /\ safety'.offset = 0
    <3>1. f.epoch \in Nat
      BY <1>6 DEF Flights
    <3> QED BY <1>2, <2>2, <3>1 DEF ClocksAgree
  <2> QED BY <1>5, <1>7, <1>10, <2>1, <2>2
<1>12. CutOrdered' => CutOrdered
  <2>1. Elements(power_queue') = {}
    BY <1>1 DEF Elements
  <2> QED BY <1>1, <1>2, <1>8, <1>10, <2>1 DEF CutOrdered
<1> QED BY <1>2, <1>11, <1>12 DEF Apart, InTime, FirstBoot, FlightIsShort, CutsAreDue

\* A cutoff that is due by the clock of safetyTask is due by that of the flight.
LEMMA ApartSafetyDecide ==
  ASSUME IInv, Apart, SafetyDecide
  PROVE  Apart'
<1> DEFINE asks == /\ ~safety.requested
                   /\ \/ /\ pressure_epoch = safety.epoch
                         /\ SafetyElapsed >= PressureGate
                      \/ SafetyElapsed >= DeploymentDeadline
           cuts == /\ ~safety.cutoff
                   /\ SafetyClockReached /\ SafetyElapsed >= PowerCutoff
           asked == IF asks THEN SentFirst(para_queue, Open(safety.epoch, TRUE))
                            ELSE para_queue
           c == safety.cutoff \/ cuts
           wants == DeploymentAsked(asks)
<1>1. /\ para_queue' = IF cuts THEN Sent(asked, PowerOff) ELSE asked
      /\ safety' = WithDecision(safety, wants, c)
      /\ UNCHANGED <<flightVars, power_queue, cache>>
  BY DEF SafetyDecide, WithDecision
<1>2. UNCHANGED <<f, running, resets, Age, Mono>>
  BY <1>1 DEF flightVars, Age, Mono
<1>3. /\ safety \in Safeties /\ safety.epoch \in 0..MaxEpoch
      /\ para_queue \in Seq(ParaRequests) /\ Len(para_queue) <= QueueCapacity
      /\ f \in Flights /\ Mono \in Nat
  BY MonoIsNat DEF IInv, TasksOK, FlightIsTimed, Safeties, SafetyOf
<1>4. cuts => f.phase = "descent" /\ Age >= PowerCutoff
  <2> SUFFICES ASSUME cuts
               PROVE  f.phase = "descent" /\ Age >= PowerCutoff
    OBVIOUS
  <2>1. /\ safety.liftoff_valid /\ Mono >= safety.liftoff /\ SafetyElapsed >= PowerCutoff
        /\ SafetyElapsed = safety.offset + (Mono - safety.liftoff)
    BY DEF SafetyClockReached, SafetyElapsed
  <2>2. safety.offset \in Nat /\ safety.liftoff \in Nat
    BY <1>3 DEF Safeties, SafetyOf
  <2>3. SafetyElapsed \in Nat
    BY <1>3, <2>1, <2>2
  <2>4. f.phase \in Airborne /\ safety.liftoff = f.liftoff /\ safety.offset = 0
    BY <2>1, <2>3 DEF Apart, ClocksAgree
  <2>5. Age = SafetyElapsed
    BY <2>1, <2>4 DEF Age, Apart, FirstBoot
  <2> QED BY <2>1, <2>3, <2>4, <2>5 DEF Apart, FlightIsShort, Airborne
<1> HIDE DEF asks, cuts
<1>5. /\ asked \in Seq(ParaRequests) /\ Elements(asked) \subseteq
           Elements(para_queue) \cup {Open(safety.epoch, TRUE)}
  <2> DEFINE open == Open(safety.epoch, TRUE)
  <2>1. open \in ParaRequests
    BY <1>3, RequestTypes
  <2>2. CASE asks
    <3>1. asked = SentFirst(para_queue, open)
      BY <2>2
    <3> HIDE DEF open, asked
    <3>2. asked \in Seq(ParaRequests)
      BY <1>3, <2>1, <3>1, QueueUpdate
    <3>3. Elements(asked) \subseteq Elements(para_queue) \cup {open}
      BY <1>3, <2>1, <3>1, QueueContents
    <3> QED BY <3>2, <3>3 DEF open
  <2>3. CASE ~asks
    BY <1>3, <2>3
  <2> QED BY <2>2, <2>3
<1> HIDE DEF asked
<1>6. /\ cuts => c
      /\ ~cuts => /\ Elements(para_queue') \subseteq
                       Elements(para_queue) \cup {Open(safety.epoch, TRUE)}
                  /\ c => safety.cutoff
  BY <1>1, <1>5
<1>7. c \in BOOLEAN /\ wants \in BOOLEAN
  BY DEF DeploymentAsked
<1> HIDE DEF c, wants
<1>8. /\ safety'.epoch = safety.epoch /\ safety'.liftoff_valid = safety.liftoff_valid
      /\ safety'.liftoff = safety.liftoff /\ safety'.offset = safety.offset
      /\ safety'.cutoff = c
  BY <1>1, <1>3 DEF WithDecision, Safeties, SafetyOf
<1>9. SafetyElapsed' = SafetyElapsed
  BY <1>2, <1>8 DEF SafetyElapsed, SafetyClockReached
<1>10. ClocksAgree'
  BY <1>2, <1>8, <1>9 DEF Apart, ClocksAgree
<1>11. CutsAreDue'
  <2>1. CASE cuts
    BY <1>2, <1>4, <2>1 DEF CutsAreDue
  <2>2. CASE ~cuts
    <3>1. Open(safety.epoch, TRUE).kind # "power_off"
      BY DEF Open
    <3>2. CutOrdered' => CutOrdered
      BY <1>1, <1>2, <1>6, <1>8, <2>2, <3>1 DEF CutOrdered
    <3> QED BY <1>2, <3>2 DEF Apart, CutsAreDue
  <2> QED BY <2>1, <2>2
<1> QED BY <1>2, <1>10, <1>11 DEF Apart, InTime, FirstBoot, FlightIsShort

LEMMA RequestKinds ==
  /\ Hold.kind # "power_off" /\ TurnOn.cutoff = FALSE
  /\ \A e, authorized : Open(e, authorized).kind # "power_off"
BY DEF Hold, TurnOn, Open

LEMMA ApartParachute ==
  ASSUME IInv, Apart, ParachuteTask
  PROVE  Apart'
<1>1. /\ para_queue \in Seq(ParaRequests) /\ Len(para_queue) <= QueueCapacity
      /\ power_queue \in Seq(PowerRequests) /\ Len(power_queue) <= QueueCapacity
  BY DEF IInv, TasksOK
<1>2. UNCHANGED <<flightVars, safety, cache>>
  BY DEF ParachuteTask, ParaReceive, ParaCommand, ParaAct
<1>3. UNCHANGED f
  BY <1>2 DEF flightVars
<1>4. CASE \E locked, asks \in BOOLEAN : ParaReceive(locked, asks)
  <2> DEFINE r == Head(para_queue)
  <2>1. /\ r \in Elements(para_queue)
        /\ Elements(para_queue') \subseteq Elements(para_queue)
    BY <1>1, <1>4, TailContents DEF ParaReceive
  <2>2. \/ power_queue' = power_queue \/ power_queue' = Sent(power_queue, TurnOn)
        \/ power_queue' = Sent(power_queue, CutPower) /\ r.kind = "power_off"
    BY <1>4 DEF ParaReceive, ReceiveOpen, ReceiveHold, ReceivePowerOff
  <2> HIDE DEF r
  <2>3. \/ r.kind = "power_off"
        \/ Elements(power_queue') \subseteq Elements(power_queue) \cup {TurnOn}
    BY <1>1, <2>2, QueueContents, RequestTypes
  <2>4. CutOrdered' => CutOrdered
    BY <1>2, <1>3, <2>1, <2>3, RequestKinds DEF CutOrdered
  <2> QED BY <1>2, <2>4, ApartFrame
<1>5. CASE \/ \E takes \in BOOLEAN : ParaCommand(takes)
           \/ \E tries, locked, done \in BOOLEAN : ParaAct(tries, locked, done)
  <2>1. /\ para_queue' = para_queue
        /\ power_queue' = power_queue \/ power_queue' = Sent(power_queue, TurnOn)
    BY <1>5 DEF ParaCommand, ParaAct
  <2>2. Elements(power_queue') \subseteq Elements(power_queue) \cup {TurnOn}
    BY <1>1, <2>1, QueueContents, RequestTypes
  <2>3. CutOrdered' => CutOrdered
    BY <1>2, <1>3, <2>1, <2>2, RequestKinds DEF CutOrdered
  <2> QED BY <1>2, <2>3, ApartFrame
<1> QED BY <1>4, <1>5 DEF ParachuteTask

\* A flight that is opened has no cutoff on the way, and the clock that safetyTask has
\* kept of the one before does not run on.
LEMMA ApartNewFlight ==
  ASSUME IInv, Apart, NewFlight
  PROVE  Apart'
<1>1. /\ f.phase \in {"ground", "flight"} /\ f \in Flights /\ f.epoch < MaxEpoch
      /\ f'.phase = "waiting" /\ f'.epoch = NextEpoch(f.epoch)
      /\ f'.invalidated = FALSE /\ (f'.cutoff => f.cutoff)
  <2>1. f \in Flights /\ f.invalidated = FALSE /\ f.epoch < MaxEpoch
    BY DEF IInv, FlightIsTimed, Apart, FirstBoot, NewFlight
  <2>2. CASE Start
    <3>1. Started(f).invalidated = FALSE /\ Started(f).cutoff = FALSE
      BY DEF Started
    <3> QED BY <2>1, <2>2, StartedIsTimed DEF Start
  <2>3. CASE RollBack
    BY <2>1, <2>3, RolledBackIsTimed DEF RollBack
  <2> QED BY <2>1, <2>2, <2>3 DEF NewFlight
<1>2. UNCHANGED <<running, rtc, boot_at, resets, safety, para_queue, power_queue, cache>>
  BY DEF NewFlight, Start, RollBack
<1>3. f.epoch \in Nat /\ f'.epoch = f.epoch + 1
  BY <1>1 DEF Flights, NextEpoch
<1>4. SafetyElapsed' = SafetyElapsed
  BY <1>2 DEF SafetyElapsed, SafetyClockReached, Mono
<1>5. safety.epoch <= f.epoch /\ safety.epoch \in Nat
  BY DEF Apart, ClocksAgree, IInv, TasksOK, Safeties, SafetyOf
<1>6. safety.liftoff_valid => SafetyElapsed <= DeploymentDeadline
  <2>1. CASE safety.epoch # f.epoch
    BY <2>1 DEF Apart, ClocksAgree
  <2>2. CASE safety.epoch = f.epoch /\ safety.liftoff_valid
    <3>1. f.phase = "flight" /\ safety.liftoff = f.liftoff /\ safety.offset = 0
      BY <1>1, <2>2 DEF Apart, ClocksAgree, Airborne
    <3>2. Age <= DeploymentDeadline /\ f.offset = 0
      BY <3>1 DEF Apart, FlightIsShort, FirstBoot, Airborne
    <3>3. SafetyElapsed = Age \/ SafetyElapsed = 0
      BY <2>2, <3>1, <3>2 DEF SafetyElapsed, SafetyClockReached, Age
    <3> QED BY <3>2, <3>3
  <2> QED BY <2>1, <2>2
<1>7. ClocksAgree'
  BY <1>2, <1>3, <1>4, <1>5, <1>6 DEF ClocksAgree
<1>8. ~CutOrdered
  BY <1>1 DEF Apart, CutsAreDue
<1>9. ~CutOrdered'
  BY <1>1, <1>2, <1>8 DEF CutOrdered
<1> QED BY <1>1, <1>2, <1>7, <1>9 DEF Apart, InTime, FirstBoot, FlightIsShort, CutsAreDue,
           Airborne

LEMMA ApartCancel ==
  ASSUME IInv, Apart, CancelSequence
  PROVE  Apart'
<1>1. /\ f.phase = "waiting" /\ f \in Flights
      /\ f'.phase = "ground" /\ f'.epoch = f.epoch /\ f'.invalidated = f.invalidated
      /\ f'.cutoff = f.cutoff
  BY CancelledIsTimed DEF IInv, FlightIsTimed, CancelSequence, Cancel
<1>2. /\ UNCHANGED <<running, rtc, boot_at, resets, safety, power_queue, cache>>
      /\ para_queue' = SentFirst(para_queue, Hold)
  BY DEF CancelSequence, Cancel
<1>3. SafetyElapsed' = SafetyElapsed
  BY <1>2 DEF SafetyElapsed, SafetyClockReached, Mono
<1>4. ClocksAgree'
  BY <1>1, <1>2, <1>3 DEF Apart, ClocksAgree, Airborne
<1>5. Elements(para_queue') \subseteq Elements(para_queue) \cup {Hold}
  BY <1>2, QueueContents, RequestTypes DEF IInv, TasksOK
<1>6. ~CutOrdered
  BY <1>1 DEF Apart, CutsAreDue
<1>7. ~CutOrdered'
  BY <1>1, <1>2, <1>5, <1>6, RequestKinds DEF CutOrdered
<1> QED BY <1>1, <1>2, <1>4, <1>7 DEF Apart, InTime, FirstBoot, FlightIsShort, CutsAreDue,
           Airborne

LEMMA ApartGroundHold ==
  ASSUME IInv, Apart, NEW emergency \in BOOLEAN, GroundHold(emergency)
  PROVE  Apart'
<1>1. /\ para_queue' = SentFirst(para_queue, Hold)
      /\ power_queue' = power_queue \/ power_queue' = Sent(power_queue, TurnOn)
      /\ UNCHANGED <<flightVars, safety, cache>>
  BY DEF GroundHold
<1>2. /\ Elements(para_queue') \subseteq Elements(para_queue) \cup {Hold}
      /\ Elements(power_queue') \subseteq Elements(power_queue) \cup {TurnOn}
  BY <1>1, QueueContents, RequestTypes DEF IInv, TasksOK
<1>3. CutOrdered' => CutOrdered
  BY <1>1, <1>2, RequestKinds DEF CutOrdered, flightVars
<1> QED BY <1>1, <1>3, ApartFrame

LEMMA ApartTick ==
  ASSUME IInv, Apart, MissionTick
  PROVE  Apart'
<1>1. UNCHANGED <<safety, para_queue, power_queue, cache>>
  BY DEF MissionTick
<1>2. CASE UNCHANGED flightVars
  <2>1. CutOrdered' => CutOrdered
    BY <1>1, <1>2 DEF CutOrdered, flightVars
  <2> QED BY <1>1, <1>2, <2>1, ApartFrame
<1>3. CASE \E seen, apex \in BOOLEAN : Tick(seen, apex)
  <2>1. PICK seen \in BOOLEAN, apex \in BOOLEAN : Tick(seen, apex)
    BY <1>3
  <2>2. /\ f \in Flights /\ Mono \in Nat /\ Timed(f, Mono) /\ f.invalidated = FALSE
        /\ f.phase \in Airborne => f.offset = 0
    BY MonoIsNat DEF IInv, FlightIsTimed, Apart, FirstBoot
  <2>3. /\ f' = Ticked(f, seen, apex, Mono)
        /\ UNCHANGED <<running, rtc, boot_at, resets>> /\ Mono' = Mono
    BY <2>1 DEF Tick, Mono
  <2>4. /\ f' \in Flights /\ f'.epoch = f.epoch
        /\ f.phase = "descent" => f'.phase = "descent"
    BY <2>2, <2>3, TickedIsTimed
  <2>5. /\ f'.invalidated = FALSE
        /\ f'.phase \in Airborne => f'.offset = 0 /\ f'.elapsed = AgeAt(f', Mono)
        /\ f.phase \in Airborne => f'.phase \in Airborne /\ f'.liftoff = f.liftoff
        /\ f'.phase = "flight" => f'.elapsed < DeploymentDeadline
        /\ f'.cutoff => \/ f.cutoff
                        \/ f'.phase = "descent" /\ AgeAt(f', Mono) >= PowerCutoff
    <3>1. GoesOn(f, f', Mono)
      BY <2>2, <2>3, TickedGoesOn
    <3> QED BY <3>1 DEF GoesOn
  <2>6. Age' = AgeAt(f', Mono)
    BY <2>3 DEF Age, AgeAt
  <2>7. f.phase \in Airborne => Age' = Age
    BY <2>2, <2>3, <2>5 DEF Age
  <2>8. FirstBoot'
    BY <2>3, <2>5 DEF Apart, FirstBoot
  <2>9. FlightIsShort'
    <3>1. f'.elapsed \in Nat
      BY <2>4 DEF Flights
    <3> QED BY <2>5, <2>6, <3>1 DEF FlightIsShort, Airborne
  <2>10. ClocksAgree'
    <3>1. SafetyElapsed' = SafetyElapsed
      BY <1>1, <2>3 DEF SafetyElapsed, SafetyClockReached
    <3> QED BY <1>1, <2>4, <2>5, <3>1 DEF Apart, ClocksAgree
  <2>11. CutsAreDue'
    <3>1. CASE CutOrdered
      BY <2>4, <2>7, <3>1 DEF Apart, CutsAreDue, Airborne
    <3>2. CASE ~CutOrdered
      <4>1. CutOrdered' => f'.cutoff /\ ~f.cutoff
        BY <1>1, <3>2 DEF CutOrdered
      <4> QED BY <2>5, <2>6, <4>1 DEF CutsAreDue
    <3> QED BY <3>1, <3>2
  <2> QED BY <2>8, <2>9, <2>10, <2>11 DEF Apart, InTime
<1> QED BY <1>2, <1>3 DEF MissionTick

LEMMA ApartRefresh ==
  ASSUME IInv, Apart, NEW locked \in BOOLEAN, MissionRefresh(locked)
  PROVE  Apart'
<1>1. /\ UNCHANGED <<flightVars, safety, para_queue, power_queue>>
      /\ cache'.cutoff => f.cutoff \/ cache.cutoff
  BY DEF MissionRefresh
<1>2. CutOrdered' => CutOrdered
  BY <1>1 DEF CutOrdered, flightVars
<1> QED BY <1>1, <1>2, ApartFrame

LEMMA ApartDispatch ==
  ASSUME IInv, Apart, MissionDispatch
  PROVE  Apart'
<1> DEFINE cuts == cache.cutoff /\ ~mission.cutoff_sent
           after_cut == IF cuts THEN Sent(para_queue, PowerOff) ELSE para_queue
           opens == cache.deployed /\ ~mission.open_sent
<1>1. /\ para_queue \in Seq(ParaRequests) /\ Len(para_queue) <= QueueCapacity
      /\ cache.epoch \in 0..MaxEpoch
  BY DEF IInv, TasksOK, Caches
<1>2. /\ power_queue' = IF cuts THEN Sent(power_queue, CutPower) ELSE power_queue
      /\ para_queue' = IF opens THEN Sent(after_cut, Open(cache.epoch, FALSE))
                                ELSE after_cut
      /\ UNCHANGED <<flightVars, safety, cache>>
  BY DEF MissionDispatch
<1>3. cuts => CutOrdered
  BY DEF CutOrdered
<1> HIDE DEF cuts, opens
<1>4. after_cut \in Seq(ParaRequests) /\ (~cuts => after_cut = para_queue)
  BY <1>1, QueueUpdate, RequestTypes
<1> HIDE DEF after_cut
<1>5. ~cuts => /\ Elements(para_queue') \subseteq
                    Elements(para_queue) \cup {Open(cache.epoch, FALSE)}
               /\ power_queue' = power_queue
  <2> DEFINE open == Open(cache.epoch, FALSE)
  <2>1. open \in ParaRequests
    BY <1>1, RequestTypes
  <2>2. ~cuts => /\ power_queue' = power_queue
                 /\ \/ para_queue' = para_queue
                    \/ para_queue' = Sent(para_queue, open)
    BY <1>2, <1>4
  <2> HIDE DEF open
  <2>3. ~cuts => /\ Elements(para_queue') \subseteq Elements(para_queue) \cup {open}
                 /\ power_queue' = power_queue
    BY <1>1, <2>1, <2>2, QueueContents
  <2> QED BY <2>3 DEF open
<1>6. CutOrdered' => CutOrdered
  <2>1. CASE cuts
    BY <1>3, <2>1
  <2>2. CASE ~cuts
    BY <1>2, <1>5, <2>2, RequestKinds DEF CutOrdered, flightVars
  <2> QED BY <2>1, <2>2
<1> QED BY <1>2, <1>6, ApartFrame

\* Time passes only when safetyTask follows this flight and its last tick is done.
LEMMA ApartPass ==
  ASSUME IInv, Apart, Pass
  PROVE  Apart'
<1>1. /\ Prompt["safety"] /\ Prompt["mission"]
      /\ rtc' = rtc + 1 /\ UNCHANGED <<f, running, boot_at, resets>>
      /\ UNCHANGED chainVars
  BY DEF Pass, Advance, Apart, InTime, Tasks
<1>2. /\ safety.epoch = f.epoch
      /\ f.phase \in Airborne => f.elapsed = Age
  BY <1>1 DEF Prompt
<1>3. /\ f \in Flights /\ rtc \in Nat /\ boot_at \in 0..rtc /\ Mono \in Nat
      /\ f.phase \in Airborne => f.liftoff <= Mono
  BY MonoIsNat DEF IInv, FlightIsTimed, Timed
<1>4. f.elapsed \in Nat /\ f.offset \in Nat /\ f.liftoff \in Nat
  BY <1>3 DEF Flights
<1>5. Mono' = Mono + 1
  BY <1>1, <1>3 DEF Mono
<1>6. f.phase \in Airborne => Age' = Age + 1 /\ Age \in Nat
  BY <1>1, <1>3, <1>4, <1>5 DEF Age
<1>7. FlightIsShort'
  BY <1>1, <1>2, <1>4, <1>6 DEF Apart, FlightIsShort, Airborne
<1>8. ClocksAgree'
  BY <1>1, <1>2 DEF Apart, ClocksAgree, chainVars
<1>9. CutsAreDue'
  <2>1. CutOrdered' => CutOrdered
    BY <1>1 DEF CutOrdered, chainVars
  <2> QED BY <1>1, <1>6, <2>1 DEF Apart, CutsAreDue, Airborne
<1> QED BY <1>1, <1>7, <1>8, <1>9 DEF Apart, InTime, FirstBoot

LEMMA ApartOthers ==
  ASSUME IInv, Apart, PressureApex \/ ManualMove \/ UNCHANGED vars
  PROVE  Apart'
<1>1. UNCHANGED <<flightVars, safety, para_queue, power_queue, cache>>
  BY DEF PressureApex, ManualMove, vars, chainVars
<1>2. CutOrdered' => CutOrdered
  BY <1>1 DEF CutOrdered, flightVars
<1> QED BY <1>1, <1>2, ApartFrame

LEMMA ApartNext == IInv /\ Apart /\ [ChainNext]_vars => Apart'
<1> SUFFICES ASSUME IInv, Apart, [ChainNext]_vars
             PROVE  Apart'
  OBVIOUS
<1>1. CASE SafetyTask
  BY <1>1, ApartSafetyObserve, ApartSafetyDecide DEF SafetyTask
<1>2. CASE ParachuteTask
  BY <1>2, ApartParachute
<1>3. CASE MissionRealtimeTask
  BY <1>3, ApartTick, ApartRefresh, ApartDispatch DEF MissionRealtimeTask
<1>4. CASE MissionCommand
  BY <1>4, ApartNewFlight, ApartCancel, ApartGroundHold DEF MissionCommand
<1>5. ~PowerCycle
  BY Bounds DEF PowerCycle, Reset, Apart, InTime, FirstBoot
<1>6. ~Reboot
  BY DEF Reboot, Boot, Apart, FirstBoot
<1>7. CASE Pass
  BY <1>7, ApartPass
<1>8. CASE PressureApex \/ ManualMove \/ UNCHANGED vars
  BY <1>8, ApartOthers
<1> QED BY <1>1, <1>2, <1>3, <1>4, <1>5, <1>6, <1>7, <1>8 DEF ChainNext

LEMMA ApartInit == InTime /\ ChainInit => Apart
<1> SUFFICES ASSUME InTime, ChainInit
             PROVE  Apart
  OBVIOUS
<1>1. /\ f = OnGround /\ running = TRUE /\ resets = 0
      /\ safety = InitialSafety /\ cache = InitialCache
      /\ para_queue = <<>> /\ power_queue = <<>>
  BY DEF ChainInit, Init
<1>2. FirstBoot /\ FlightIsShort
  BY <1>1 DEF OnGround, FirstBoot, FlightIsShort, Airborne
<1>3. ClocksAgree
  BY <1>1 DEF OnGround, InitialSafety, ClocksAgree
<1>4. ~CutOrdered
  <2>1. Elements(para_queue) = {} /\ Elements(power_queue) = {}
    BY <1>1 DEF Elements
  <2> QED BY <1>1, <2>1 DEF OnGround, InitialSafety, InitialCache, CutOrdered
<1> QED BY <1>2, <1>3, <1>4 DEF Apart, CutsAreDue

\* Nothing of a flight that was cancelled or rolled back reaches the next one, for any
\* number of flights: without a reset, and while safetyTask and missionRealtimeTask
\* keep up with the clock, the servo is moved once by its Descent and the power is not
\* cut before 25 s.  parachuteTask may be held up for as long as it likes.
THEOREM FlightsTheorem == InTime => (ChainSpec => []FlightsAreApart)
<1>1. IInv /\ Apart => CutoffIsNotEarly
  BY DEF Apart, CutsAreDue, CutOrdered, CutoffIsNotEarly
<1>2. InTime /\ ChainSpec => []Apart
  BY ApartInit, ApartNext, IInvHolds, PTL DEF ChainSpec
<1>3. AutomaticMove /\ CutoffIsNotEarly => FlightsAreApart
  BY DEF FlightsAreApart
<1> QED BY <1>1, <1>2, <1>3, IInvHolds, MoveTheorem, PTL

-----------------------------------------------------------------------------
(* What safetyTask asks for is kept.                                       *)
(*                                                                         *)
(* For a single flight: a request of the flight before, left in the queue, *)
(* takes the place of this flight's in automatic_epoch.  The resets are    *)
(* any number, and every task may be held up.                              *)

OneFlight == MaxEpoch = 1
Handled == Open(1, TRUE) \in Elements(para_queue) \/ 1 \in {para.automatic, para.opened}

OnlyEpoch ==
  /\ f.phase # "ground" => f.epoch = 1
  /\ saved # Nothing => saved.epoch = 1
  /\ safety.liftoff_valid => safety.epoch = 1
  /\ \A r \in Elements(para_queue) : r.kind = "open" /\ r.authorized => r.epoch = 1
Kept == OneFlight /\ OnlyEpoch /\ (safety.requested => f.phase = "descent" \/ Handled)

LEMMA QueueKeeps ==
  ASSUME NEW R, NEW q \in Seq(R), NEW r \in R
  PROVE  /\ Elements(q) \subseteq Elements(Sent(q, r))
         /\ Elements(q) \subseteq Elements(SentFirst(q, r))
         /\ ~Full(q) => r \in Elements(SentFirst(q, r))
<1>1. Len(q) \in Nat
  OBVIOUS
<1>2. ASSUME NEW i \in 1..Len(q)
      PROVE  q[i] \in Elements(Append(q, r)) /\ q[i] \in Elements(<<r>> \o q)
  <2>1. i \in 1..Len(Append(q, r)) /\ Append(q, r)[i] = q[i]
    BY <1>1
  <2>2. i + 1 \in 1..Len(<<r>> \o q) /\ (<<r>> \o q)[i + 1] = q[i]
    BY <1>1
  <2> QED BY <2>1, <2>2 DEF Elements
<1>3. /\ Elements(q) \subseteq Elements(Append(q, r))
      /\ Elements(q) \subseteq Elements(<<r>> \o q)
  BY <1>2 DEF Elements
<1>4. r \in Elements(<<r>> \o q)
  <2>1. 1 \in 1..Len(<<r>> \o q) /\ (<<r>> \o q)[1] = r
    BY <1>1
  <2> QED BY <2>1 DEF Elements
<1> QED BY <1>3, <1>4 DEF Sent, SentFirst

LEMMA TailKeeps ==
  ASSUME NEW R, NEW q \in Seq(R), q # <<>>
  PROVE  Elements(q) \subseteq Elements(Tail(q)) \cup {Head(q)}
<1>1. /\ Len(Tail(q)) = Len(q) - 1 /\ Len(q) \in Nat /\ Len(q) > 0 /\ Head(q) = q[1]
      /\ \A i \in 1..Len(Tail(q)) : Tail(q)[i] = q[i + 1]
  BY HeadTailProperties, EmptySeq
<1> SUFFICES ASSUME NEW i \in 1..Len(q)
             PROVE  q[i] \in Elements(Tail(q)) \cup {Head(q)}
  BY DEF Elements
<1>2. CASE i = 1
  BY <1>1, <1>2
<1>3. CASE i # 1
  <2>1. i - 1 \in 1..Len(Tail(q))
    BY <1>1, <1>3
  <2>2. Tail(q)[i - 1] = q[i]
    BY <1>1, <2>1
  <2> QED BY <2>1, <2>2 DEF Elements
<1> QED BY <1>2, <1>3

LEMMA KeptFrame ==
  ASSUME IInv, Kept, UNCHANGED <<f, saved, safety>>,
         Elements(para_queue) \subseteq Elements(para_queue'),
         \A r \in Elements(para_queue') :
           r \in Elements(para_queue) \/ ~(r.kind = "open" /\ r.authorized),
         para'.automatic = para.automatic, para'.opened \in {para.opened, 1}
  PROVE  Kept'
<1>1. OnlyEpoch'
  BY DEF Kept, OnlyEpoch
<1>2. Handled => Handled'
  BY DEF Handled
<1> QED BY <1>1, <1>2 DEF Kept, OneFlight

LEMMA KeptSafetyObserve ==
  ASSUME IInv, Kept, NEW locked \in BOOLEAN, SafetyObserve(locked)
  PROVE  Kept'
<1> DEFINE d == Drained(safety)
           s == IF locked THEN Copied(d) ELSE d
<1>1. /\ safety' = WithPlace(s, "decide")
      /\ UNCHANGED <<flightVars, para_queue, para>>
  BY DEF SafetyObserve, WithPlace
<1>2. /\ d \in Safeties /\ d.epoch = safety.epoch
      /\ d.liftoff_valid = safety.liftoff_valid /\ d.requested = safety.requested
  <2>1. d \in Safeties
    BY DrainedType DEF IInv
  <2>2. safety \in Safeties
    BY DEF IInv, TasksOK
  <2> QED BY <2>1, <2>2 DEF Drained, Safeties, SafetyOf
<1> HIDE DEF d
<1>3. f \in Flights
  BY DEF IInv, FlightIsTimed
<1>4. s.liftoff_valid => s.epoch = 1
  BY <1>2, <1>3 DEF Copied, Safeties, SafetyOf, Kept, OnlyEpoch, Airborne
<1>5. s.requested => safety.requested \/ f.phase = "descent"
  BY <1>2, <1>3 DEF Copied, Safeties, SafetyOf
<1>6. s \in Safeties
  BY <1>2, <1>3, CopiedType
<1> HIDE DEF s
<1>7. /\ safety'.epoch = s.epoch /\ safety'.liftoff_valid = s.liftoff_valid
      /\ safety'.requested = s.requested
  BY <1>1, <1>6 DEF WithPlace, Safeties, SafetyOf
<1>8. OnlyEpoch'
  BY <1>1, <1>4, <1>7 DEF Kept, OnlyEpoch, flightVars
<1> QED BY <1>1, <1>5, <1>7, <1>8 DEF Kept, OneFlight, Handled, flightVars

\* A request is only taken as made when there was room for it.
LEMMA KeptSafetyDecide ==
  ASSUME IInv, Kept, SafetyDecide
  PROVE  Kept'
<1> DEFINE asks == /\ ~safety.requested
                   /\ \/ /\ pressure_epoch = safety.epoch
                         /\ SafetyElapsed >= PressureGate
                      \/ SafetyElapsed >= DeploymentDeadline
           cuts == /\ ~safety.cutoff
                   /\ SafetyClockReached /\ SafetyElapsed >= PowerCutoff
           asked == IF asks THEN SentFirst(para_queue, Open(safety.epoch, TRUE))
                            ELSE para_queue
           c == safety.cutoff \/ cuts
           wants == DeploymentAsked(asks)
<1>1. /\ para_queue' = IF cuts THEN Sent(asked, PowerOff) ELSE asked
      /\ safety' = WithDecision(safety, wants, c)
      /\ UNCHANGED <<flightVars, para>>
  BY DEF SafetyDecide, WithDecision
<1>2. /\ safety \in Safeties /\ safety.epoch \in 0..MaxEpoch
      /\ para_queue \in Seq(ParaRequests) /\ Len(para_queue) <= QueueCapacity
  BY DEF IInv, TasksOK, Safeties, SafetyOf
<1>3. asks => safety.epoch = 1
  <2>1. PressureGate > 0
    BY ChainAssumption
  <2>2. asks => safety.liftoff_valid
    BY <2>1, Bounds DEF SafetyElapsed, SafetyClockReached
  <2> QED BY <2>2 DEF Kept, OnlyEpoch
<1>4. wants => safety.requested \/ (asks /\ ~Full(para_queue))
  BY DEF DeploymentAsked
<1> HIDE DEF asks, cuts
<1>5. /\ asked \in Seq(ParaRequests) /\ Elements(para_queue) \subseteq Elements(asked)
      /\ Elements(asked) \subseteq Elements(para_queue) \cup {Open(1, TRUE)}
      /\ asks /\ ~Full(para_queue) => Open(1, TRUE) \in Elements(asked)
  <2> DEFINE open == Open(1, TRUE)
  <2>1. CASE asks
    <3>1. open \in ParaRequests /\ asked = SentFirst(para_queue, open)
      BY <1>2, <1>3, <2>1, RequestTypes
    <3> HIDE DEF open, asked
    <3>2. asked \in Seq(ParaRequests)
      BY <1>2, <3>1, QueueUpdate
    <3>3. /\ Elements(para_queue) \subseteq Elements(asked)
          /\ Elements(asked) \subseteq Elements(para_queue) \cup {open}
          /\ ~Full(para_queue) => open \in Elements(asked)
      BY <1>2, <3>1, QueueContents, QueueKeeps
    <3> QED BY <3>2, <3>3 DEF open
  <2>2. CASE ~asks
    BY <1>2, <2>2
  <2> QED BY <2>1, <2>2
<1> HIDE DEF asked
<1>6. /\ Elements(asked) \subseteq Elements(para_queue')
      /\ Elements(para_queue') \subseteq Elements(asked) \cup {PowerOff}
  BY <1>1, <1>5, QueueContents, QueueKeeps, RequestTypes
<1>7. c \in BOOLEAN /\ wants \in BOOLEAN
  BY DEF DeploymentAsked
<1> HIDE DEF c, wants
<1>8. /\ safety'.epoch = safety.epoch /\ safety'.liftoff_valid = safety.liftoff_valid
      /\ safety'.requested = wants
  BY <1>1, <1>2 DEF WithDecision, Safeties, SafetyOf
<1>9. PowerOff.kind # "open" /\ Open(1, TRUE).epoch = 1
  BY DEF PowerOff, Open
<1>10. OnlyEpoch'
  BY <1>1, <1>5, <1>6, <1>8, <1>9 DEF Kept, OnlyEpoch, flightVars
<1>11. Handled => Handled'
  BY <1>1, <1>5, <1>6 DEF Handled
<1>12. asks /\ ~Full(para_queue) => Handled'
  BY <1>5, <1>6 DEF Handled
<1> QED BY <1>1, <1>4, <1>8, <1>10, <1>11, <1>12 DEF Kept, OneFlight, flightVars

LEMMA KeptParachute ==
  ASSUME IInv, Kept, ParachuteTask
  PROVE  Kept'
<1>1. /\ para_queue \in Seq(ParaRequests) /\ para \in Paras
  BY DEF IInv, TasksOK
<1>2. UNCHANGED <<f, saved, safety>>
  BY DEF ParachuteTask, ParaReceive, ParaCommand, ParaAct, flightVars
<1>3. CASE \E locked, asks \in BOOLEAN : ParaReceive(locked, asks)
  <2> DEFINE r == Head(para_queue)
  <2>1. PICK locked \in BOOLEAN, asks \in BOOLEAN : ParaReceive(locked, asks)
    BY <1>3
  <2>2. /\ r \in Elements(para_queue)
        /\ Elements(para_queue') \subseteq Elements(para_queue)
        /\ Elements(para_queue) \subseteq Elements(para_queue') \cup {r}
    BY <1>1, <2>1, TailContents, TailKeeps DEF ParaReceive
  <2>3. ReceiveOpen(r, locked, asks) \/ ReceiveHold(r) \/ ReceivePowerOff(r)
    BY <2>1 DEF ParaReceive
  <2> HIDE DEF r
  <2>4. para'.opened = para.opened /\ para'.automatic \in {para.automatic, 1}
    <3>1. CASE ReceiveOpen(r, locked, asks)
      <4>1. CASE Accepts(r, locked)
        <5>1. para' = [para EXCEPT !.automatic = r.epoch, !.off = FALSE]
          BY <3>1, <4>1 DEF ReceiveOpen
        <5>2. r.epoch = 1
          BY <2>2, <3>1, <4>1 DEF Accepts, ReceiveOpen, Kept, OnlyEpoch
        <5> QED BY <1>1, <5>1, <5>2 DEF Paras, ParasOf
      <4>2. CASE ~Accepts(r, locked)
        BY <3>1, <4>2 DEF ReceiveOpen
      <4> QED BY <4>1, <4>2
    <3>2. CASE ReceiveHold(r)
      BY <1>1, <3>2 DEF ReceiveHold, Paras, ParasOf
    <3>3. CASE ReceivePowerOff(r)
      BY <1>1, <3>3 DEF ReceivePowerOff, Paras, ParasOf
    <3> QED BY <2>3, <3>1, <3>2, <3>3
  <2>5. r = Open(1, TRUE) => 1 \in {para'.automatic, para'.opened}
    <3> SUFFICES ASSUME r = Open(1, TRUE)
                 PROVE  1 \in {para'.automatic, para'.opened}
      OBVIOUS
    <3>1. r.kind = "open" /\ r.epoch = 1 /\ r.authorized
      BY DEF Open
    <3>2. ReceiveOpen(r, locked, asks)
      BY <2>3, <3>1 DEF ReceiveHold, ReceivePowerOff
    <3>3. CASE 1 \in {para.opened, para.automatic}
      BY <2>4, <3>3
    <3>4. CASE 1 \notin {para.opened, para.automatic}
      <4>1. para' = [para EXCEPT !.automatic = r.epoch, !.off = FALSE]
        BY <3>1, <3>2, <3>4 DEF ReceiveOpen, Accepts
      <4> QED BY <1>1, <3>1, <4>1 DEF Paras, ParasOf
    <3> QED BY <3>3, <3>4
  <2>6. Handled => Handled'
    BY <2>2, <2>4, <2>5 DEF Handled
  <2>7. OnlyEpoch'
    BY <1>2, <2>2 DEF Kept, OnlyEpoch
  <2> QED BY <1>2, <2>6, <2>7 DEF Kept, OneFlight
<1>4. CASE \E takes \in BOOLEAN : ParaCommand(takes)
  <2>1. /\ para'.automatic = para.automatic /\ para'.opened = para.opened
        /\ para_queue' = para_queue
    BY <1>1, <1>4 DEF ParaCommand, Paras, ParasOf
  <2> QED BY <1>2, <2>1, KeptFrame
<1>5. CASE \E tries, locked, done \in BOOLEAN : ParaAct(tries, locked, done)
  <2>1. PICK tries \in BOOLEAN, locked \in BOOLEAN, done \in BOOLEAN :
          ParaAct(tries, locked, done)
    BY <1>5
  <2> DEFINE working == ~para.off /\ power /\ tries
             opens == AutomaticPending /\ para.op = "none" /\ MayOpen(locked)
             op == CASE para.op = "pending" -> "manual"
                     [] opens -> "automatic"
                     [] OTHER -> para.op
             last == IF ~working THEN para.op ELSE IF done THEN "none" ELSE op
             opened == IF working /\ opens THEN para.automatic ELSE para.opened
  <2>2. /\ para' = [para EXCEPT !.at = "receive", !.op = last, !.opened = opened]
        /\ para_queue' = para_queue
    BY <2>1 DEF ParaAct, MoveConsumed
  <2>3. opened \in {para.opened, 1}
    BY <1>1 DEF AutomaticPending, Paras, ParasOf, Kept, OneFlight
  <2> HIDE DEF last, opened
  <2>4. para'.automatic = para.automatic /\ para'.opened = opened
    BY <1>1, <2>2 DEF Paras, ParasOf
  <2> QED BY <1>2, <2>2, <2>3, <2>4, KeptFrame
<1> QED BY <1>3, <1>4, <1>5 DEF ParachuteTask

LEMMA NextEpochIsOne ==
  ASSUME OneFlight, NEW e \in 0..MaxEpoch
  PROVE  NextEpoch(e) = 1
BY DEF OneFlight, NextEpoch

LEMMA SavedEpoch ==
  ASSUME NEW s, NEW now, s.phase # "ground" => s.epoch = 1
  PROVE  Saved(s, now) # Nothing => Saved(s, now).epoch = 1
BY DEF Saved

\* The flight goes on, is opened, cancelled or restored, with the only epoch.
LEMMA KeptNewFlight ==
  ASSUME IInv, Kept, NewFlight
  PROVE  Kept'
<1>1. f \in Flights /\ f.epoch \in 0..MaxEpoch /\ f.phase \in {"ground", "flight"}
  BY DEF IInv, FlightIsTimed, Flights, NewFlight, Start, RollBack
<1>2. f'.epoch = 1
  BY <1>1, StartedIsTimed, RolledBackIsTimed, NextEpochIsOne
     DEF Kept, NewFlight, Start, RollBack
<1>3. saved' # Nothing => saved'.epoch = 1
  BY <1>2, SavedEpoch DEF Kept, OnlyEpoch, NewFlight, Start, RollBack
<1>4. UNCHANGED <<safety, para_queue, para>>
  BY DEF NewFlight
<1>5. OnlyEpoch'
  BY <1>2, <1>3, <1>4 DEF Kept, OnlyEpoch
<1> QED BY <1>1, <1>4, <1>5 DEF Kept, OneFlight, Handled

LEMMA KeptCancel ==
  ASSUME IInv, Kept, CancelSequence
  PROVE  Kept'
<1>1. /\ f.phase = "waiting" /\ f'.phase = "ground" /\ para_queue \in Seq(ParaRequests)
  BY CancelledIsTimed DEF IInv, FlightIsTimed, TasksOK, CancelSequence, Cancel
<1>2. /\ UNCHANGED <<saved, safety, para>> /\ para_queue' = SentFirst(para_queue, Hold)
  BY DEF CancelSequence, Cancel
<1>3. /\ Elements(para_queue) \subseteq Elements(para_queue')
      /\ Elements(para_queue') \subseteq Elements(para_queue) \cup {Hold}
  BY <1>1, <1>2, QueueContents, QueueKeeps, RequestTypes
<1>4. Hold.kind # "open"
  BY DEF Hold
<1>5. OnlyEpoch'
  BY <1>1, <1>2, <1>3, <1>4 DEF Kept, OnlyEpoch
<1> QED BY <1>1, <1>2, <1>3, <1>5 DEF Kept, OneFlight, Handled

LEMMA KeptGroundHold ==
  ASSUME IInv, Kept, NEW emergency \in BOOLEAN, GroundHold(emergency)
  PROVE  Kept'
<1>1. /\ para_queue \in Seq(ParaRequests) /\ para_queue' = SentFirst(para_queue, Hold)
      /\ UNCHANGED <<f, saved, safety, para>>
  BY DEF GroundHold, flightVars, IInv, TasksOK
<1>2. /\ Elements(para_queue) \subseteq Elements(para_queue')
      /\ Elements(para_queue') \subseteq Elements(para_queue) \cup {Hold}
  BY <1>1, QueueContents, QueueKeeps, RequestTypes
<1>3. Hold.kind # "open"
  BY DEF Hold
<1> QED BY <1>1, <1>2, <1>3, KeptFrame

LEMMA KeptTick ==
  ASSUME IInv, Kept, MissionTick
  PROVE  Kept'
<1>1. UNCHANGED <<safety, para_queue, para>>
  BY DEF MissionTick
<1>2. CASE UNCHANGED flightVars
  BY <1>1, <1>2, KeptFrame DEF flightVars
<1>3. CASE \E seen, apex \in BOOLEAN : Tick(seen, apex)
  <2>1. PICK seen \in BOOLEAN, apex \in BOOLEAN : Tick(seen, apex)
    BY <1>3
  <2>2. /\ f'.epoch = f.epoch
        /\ f.phase = "descent" => f'.phase = "descent"
        /\ f.phase = "ground" <=> f'.phase = "ground"
    <3>1. f \in Flights /\ Mono \in Nat /\ Timed(f, Mono)
      BY MonoIsNat DEF IInv, FlightIsTimed
    <3> QED BY <2>1, <3>1, TickedIsTimed DEF Tick
  <2>3. f'.phase # "ground" => f'.epoch = 1
    BY <2>2 DEF Kept, OnlyEpoch
  <2>4. saved' # Nothing => saved'.epoch = 1
    BY <2>1, <2>3, SavedEpoch DEF Tick
  <2>5. OnlyEpoch'
    BY <1>1, <2>3, <2>4 DEF Kept, OnlyEpoch
  <2> QED BY <1>1, <2>2, <2>5 DEF Kept, OneFlight, Handled
<1> QED BY <1>2, <1>3 DEF MissionTick

LEMMA KeptDispatch ==
  ASSUME IInv, Kept, MissionDispatch
  PROVE  Kept'
<1> DEFINE cuts == cache.cutoff /\ ~mission.cutoff_sent
           after_cut == IF cuts THEN Sent(para_queue, PowerOff) ELSE para_queue
           opens == cache.deployed /\ ~mission.open_sent
           open == Open(cache.epoch, FALSE)
<1>1. /\ para_queue \in Seq(ParaRequests) /\ Len(para_queue) <= QueueCapacity
      /\ open \in ParaRequests
  BY RequestTypes DEF IInv, TasksOK, Caches
<1>2. /\ para_queue' = IF opens THEN Sent(after_cut, open) ELSE after_cut
      /\ UNCHANGED <<f, saved, safety, para>>
  BY DEF MissionDispatch, flightVars
<1>3. ~open.authorized /\ PowerOff.kind # "open"
  BY DEF Open, PowerOff
<1> HIDE DEF cuts, opens, open
<1>4. /\ after_cut \in Seq(ParaRequests)
      /\ Elements(para_queue) \subseteq Elements(after_cut)
      /\ Elements(after_cut) \subseteq Elements(para_queue) \cup {PowerOff}
  BY <1>1, QueueUpdate, QueueContents, QueueKeeps, RequestTypes
<1> HIDE DEF after_cut
<1>5. /\ Elements(after_cut) \subseteq Elements(para_queue')
      /\ Elements(para_queue') \subseteq Elements(after_cut) \cup {open}
  BY <1>1, <1>2, <1>4, QueueContents, QueueKeeps
<1>6. \A r \in Elements(para_queue') :
        r \in Elements(para_queue) \/ ~(r.kind = "open" /\ r.authorized)
  BY <1>3, <1>4, <1>5
<1> QED BY <1>2, <1>4, <1>5, <1>6, KeptFrame

LEMMA KeptPowerCycle ==
  ASSUME IInv, Kept, PowerCycle
  PROVE  Kept'
<1>1. /\ f' = OnGround /\ saved' \in {saved, Nothing}
      /\ safety' = InitialSafety /\ para_queue' = <<>>
  BY DEF PowerCycle, Reset
<1>2. Elements(para_queue') = {}
  BY <1>1 DEF Elements
<1>3. OnlyEpoch'
  BY <1>1, <1>2 DEF Kept, OnlyEpoch, OnGround, InitialSafety
<1> QED BY <1>1, <1>3 DEF Kept, OneFlight, InitialSafety

LEMMA KeptReboot ==
  ASSUME IInv, Kept, Reboot
  PROVE  Kept'
<1>1. UNCHANGED <<saved, safety, para_queue, para>> /\ f.phase # "descent"
  BY DEF Reboot, Boot, chainVars, IInv, FlightIsTimed, Airborne
<1>2. f'.phase # "ground" => f'.epoch = 1
  <2>1. CASE saved = Nothing
    BY <2>1 DEF Reboot, Boot, Nothing, Kept, OnlyEpoch
  <2>2. CASE saved # Nothing
    <3>1. saved \in SavedFlights /\ saved.epoch = 1
      BY <2>2 DEF IInv, FlightIsTimed, Kept, OnlyEpoch
    <3>2. f' = Restored(saved, rtc)
      BY <3>1 DEF Reboot, Boot, SavedFlights
    <3>3. Restored(saved, rtc).epoch = saved.epoch
      BY DEF Restored, OnGround
    <3> QED BY <3>1, <3>2, <3>3
  <2> QED BY <2>1, <2>2
<1>3. OnlyEpoch'
  BY <1>1, <1>2 DEF Kept, OnlyEpoch
<1> QED BY <1>1, <1>3 DEF Kept, OneFlight, Handled

LEMMA KeptOthers ==
  ASSUME IInv, Kept,
         \/ \E locked \in BOOLEAN : MissionRefresh(locked)
         \/ PressureApex \/ ManualMove \/ Pass \/ UNCHANGED vars
  PROVE  Kept'
<1>1. UNCHANGED <<f, saved, safety, para_queue, para>>
  BY DEF MissionRefresh, PressureApex, ManualMove, Pass, Advance, vars, flightVars,
     chainVars
<1> QED BY <1>1, KeptFrame

LEMMA KeptNext == IInv /\ Kept /\ [ChainNext]_vars => Kept'
<1> SUFFICES ASSUME IInv, Kept, [ChainNext]_vars
             PROVE  Kept'
  OBVIOUS
<1>1. CASE SafetyTask
  BY <1>1, KeptSafetyObserve, KeptSafetyDecide DEF SafetyTask
<1>2. CASE ParachuteTask
  BY <1>2, KeptParachute
<1>3. CASE MissionTick \/ MissionDispatch
  BY <1>3, KeptTick, KeptDispatch
<1>4. CASE MissionCommand
  BY <1>4, KeptNewFlight, KeptCancel, KeptGroundHold DEF MissionCommand
<1>5. CASE PowerCycle
  BY <1>5, KeptPowerCycle
<1>6. CASE Reboot
  BY <1>6, KeptReboot
<1>7. CASE \/ \E locked \in BOOLEAN : MissionRefresh(locked)
           \/ PressureApex \/ ManualMove \/ Pass \/ UNCHANGED vars
  BY <1>7, KeptOthers
<1> QED BY <1>1, <1>2, <1>3, <1>4, <1>5, <1>6, <1>7 DEF ChainNext, MissionRealtimeTask

LEMMA KeptInit == OneFlight /\ ChainInit => Kept
<1> SUFFICES ASSUME OneFlight, ChainInit
             PROVE  Kept
  OBVIOUS
<1>1. f = OnGround /\ saved = Nothing /\ safety = InitialSafety /\ para_queue = <<>>
  BY DEF ChainInit, Init
<1>2. Elements(para_queue) = {}
  BY <1>1 DEF Elements
<1> QED BY <1>1, <1>2 DEF Kept, OnlyEpoch, OnGround, InitialSafety

\* A deployment that safetyTask counts as asked for is in para_queue or accepted by
\* parachuteTask, in every order of the tasks, at any length of the queue, over any
\* number of resets: a request that finds the queue full is not counted.
THEOREM RequestTheorem == OneFlight => (ChainSpec => []SafetyRequestIsKept)
<1>1. IInv /\ Kept => SafetyRequestIsKept
  <2> SUFFICES ASSUME IInv, Kept, f.phase = "flight", safety.requested
               PROVE  \/ \E i \in 1..Len(para_queue) : para_queue[i] = Open(f.epoch, TRUE)
                      \/ f.epoch \in {para.automatic, para.opened}
    BY DEF SafetyRequestIsKept
  <2>1. f.epoch = 1 /\ Handled
    BY DEF Kept, OnlyEpoch
  <2> QED BY <2>1 DEF Handled, Elements
<1>2. OneFlight /\ ChainSpec => []Kept
  BY KeptInit, KeptNext, IInvHolds, PTL DEF ChainSpec
<1> QED BY <1>1, <1>2, IInvHolds, PTL

=============================================================================
