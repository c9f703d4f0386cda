----------------------- MODULE CommandPipelineProofs -----------------------
(***************************************************************************)
(* Commands, from the cache of CommandExecutor to the tasks of             *)
(* CommandPipeline.                                                        *)
(*                                                                         *)
(* First, what holds of the command cache for every cache size with a slot *)
(* for each domain, every set of ids and commands, and every history of    *)
(* requests, outcomes and emergencies.                                     *)
(*                                                                         *)
(* From `NoneIsNoCompletion' on: the tasks change the cache and the        *)
(* overtravel guard only as the executor's actions do, for any queues and  *)
(* any number of frames and emergencies, so that what is proved of the     *)
(* executor holds of the tasks.  The argument needs the types of what the  *)
(* tasks hold: a request they decide on or report is one of the ground,    *)
(* and an outcome goes with its reason.                                    *)
(*                                                                         *)
(* From `Owning' on: a command in hand is in one place only, and has its   *)
(* entry in the cache, pending or ended by an emergency.  That is why an   *)
(* id used again cannot put it into a second place, as long as the entries *)
(* of commands in hand are not evicted (EntriesStay).                      *)
(*                                                                         *)
(* From `Ahead' on: how far back the executor recognises a repetition.     *)
(***************************************************************************)
EXTENDS CommandPipeline, MCCommandExecutor, SequenceTheorems,
        FiniteSetTheorems, WellFoundedInduction, TLAPS

(* Where the entry at index i of RemoveAt(s, k) was before.                *)
Shift(i, k) == IF i < k THEN i ELSE i + 1

(* RemoveAt takes one element out and keeps the order of the others.       *)
LEMMA RemoveAtFacts ==
  ASSUME NEW S, NEW s \in Seq(S), NEW k \in DOMAIN s
  PROVE  /\ RemoveAt(s, k) \in Seq(S)
         /\ Len(RemoveAt(s, k)) = Len(s) - 1
         /\ \A i \in 1..(Len(s) - 1) :
              /\ Shift(i, k) \in DOMAIN s
              /\ RemoveAt(s, k)[i] = s[Shift(i, k)]
<1> DEFINE left == SubSeq(s, 1, k - 1)
           right == SubSeq(s, k + 1, Len(s))
<1>0. Len(s) \in Nat /\ DOMAIN s = 1..Len(s) /\ k \in 1..Len(s)
      /\ \A i \in 1..Len(s) : s[i] \in S
  BY LenProperties, ElementOfSeq
<1>1. left \in Seq(S) /\ Len(left) = k - 1
      /\ \A i \in 1..(k - 1) : left[i] = s[i]
  <2>1. \A i \in 1..(k - 1) : s[i] \in S
    BY <1>0
  <2>2. /\ left \in Seq(S)
        /\ Len(left) = IF 1 <= k - 1 THEN k - 1 - 1 + 1 ELSE 0
        /\ \A i \in 1..(k - 1 - 1 + 1) : left[i] = s[1 + i - 1]
    BY <2>1, <1>0, SubSeqProperties
  <2>3. QED BY <2>2, <1>0
<1>2. right \in Seq(S) /\ Len(right) = Len(s) - k
      /\ \A i \in 1..(Len(s) - k) : right[i] = s[k + i]
  <2>1. \A i \in (k + 1)..Len(s) : s[i] \in S
    BY <1>0
  <2>2. /\ right \in Seq(S)
        /\ Len(right) = IF k + 1 <= Len(s) THEN Len(s) - (k + 1) + 1 ELSE 0
        /\ \A i \in 1..(Len(s) - (k + 1) + 1) :
             right[i] = s[(k + 1) + i - 1]
    BY <2>1, <1>0, SubSeqProperties
  <2>3. Len(s) - (k + 1) + 1 = Len(s) - k
        /\ \A i \in 1..(Len(s) - k) : (k + 1) + i - 1 = k + i
    BY <1>0
  <2>4. QED BY <2>2, <2>3, <1>0
<1>3. RemoveAt(s, k) = left \o right
  BY DEF RemoveAt
<1> HIDE DEF left, right
<1>4. /\ left \o right \in Seq(S)
      /\ Len(left \o right) = Len(left) + Len(right)
      /\ \A i \in 1..(Len(left) + Len(right)) :
           (left \o right)[i] = IF i <= Len(left) THEN left[i]
                                ELSE right[i - Len(left)]
  BY <1>1, <1>2, ConcatProperties
<1>5. Len(left) + Len(right) = Len(s) - 1
  BY <1>0, <1>1, <1>2
<1>6. ASSUME NEW i \in 1..(Len(s) - 1)
      PROVE  Shift(i, k) \in DOMAIN s /\ RemoveAt(s, k)[i] = s[Shift(i, k)]
  <2>0. RemoveAt(s, k)[i] = IF i <= k - 1 THEN left[i] ELSE right[i - (k - 1)]
    BY <1>1, <1>3, <1>4, <1>5
  <2>1. CASE i < k
    BY <2>0, <2>1, <1>0, <1>1 DEF Shift
  <2>2. CASE i >= k
    <3>1. i - (k - 1) \in 1..(Len(s) - k) /\ k + (i - (k - 1)) = i + 1
          /\ ~(i <= k - 1) /\ i + 1 \in 1..Len(s)
      BY <2>2, <1>0
    <3>2. right[i - (k - 1)] = s[i + 1]
      BY <3>1, <1>2
    <3>3. QED BY <2>0, <3>1, <3>2, <2>2, <1>0 DEF Shift
  <2>3. QED BY <2>1, <2>2, <1>0
<1>7. QED BY <1>3, <1>4, <1>5, <1>6

(* A set of indices that is not empty has a smallest one.                  *)
LEMMA MinFacts ==
  ASSUME NEW T \in SUBSET Nat, T # {}
  PROVE  Min(T) \in T /\ \A y \in T : Min(T) <= y
<1> DEFINE Upto(n) == 1..n
           U == {Upto(n) : n \in T}
           R == StrictSubsetOrdering(Nat)
<1>1. U \subseteq FiniteSubsetsOf(Nat) /\ U # {}
  <2>1. ASSUME NEW n \in T
        PROVE  Upto(n) \in SUBSET Nat /\ IsFiniteSet(Upto(n))
    <3>1. n \in Int /\ 1 \in Int
      OBVIOUS
    <3>2. QED BY <3>1, FS_Interval
  <2>2. QED BY <2>1 DEF FiniteSubsetsOf
<1>2. PICK u \in U : \A v \in U : ~(<<v, u>> \in R)
  BY <1>1, FS_StrictSubsetOrderingWellFounded, WFMin, Zenon
<1>3. PICK x \in T : u = Upto(x)
  BY <1>2
<1>4. \A y \in T : x <= y
  <2>1. SUFFICES ASSUME NEW y \in T, y < x PROVE FALSE
    BY <1>3
  <2>2. Upto(y) \subseteq Upto(x) /\ Upto(y) # Upto(x)
    BY <2>1
  <2>3. Upto(y) \in U /\ Upto(y) \in SUBSET Nat /\ u \in SUBSET Nat
    BY <1>3
  <2>4. <<Upto(y), u>> \in R
    <3> HIDE DEF Upto
    <3>1. QED BY <1>3, <2>2, <2>3 DEF StrictSubsetOrdering
  <2>5. QED BY <1>2, <2>3, <2>4
<1>5. QED BY <1>4 DEF Min

-----------------------------------------------------------------------------
(* Two entries that may be in the cache together.                          *)
Clash(e, f) ==
  \/ /\ e.request.command = "run_preflight_calibration"
     /\ DomainOf(f.request.command) \in {"fin", "parachute"}
  \/ /\ e.request.command \in Starts
     /\ DomainOf(f.request.command) = "parachute"
Compatible(e, f) ==
  /\ e.request.id # f.request.id
  /\ Pending(e) /\ Pending(f) =>
       /\ DomainOf(e.request.command) # DomainOf(f.request.command)
       /\ ~Clash(e, f) /\ ~Clash(f, e)

(* The inductive invariant of the cache, for any sequence of entries.      *)
Well(c) ==
  /\ c \in Seq(Entries) /\ Len(c) <= CacheSize
  /\ \A j, k \in DOMAIN c : j # k => Compatible(c[j], c[k])

(* What an operation leaves of the pending entries, of all of them, and of *)
(* the outcomes.                                                           *)
Kept(c, d) ==
  \A k \in DOMAIN c :
    Pending(c[k]) => \E j \in DOMAIN d : d[j].request = c[k].request
Present(c, d) ==
  \A k \in DOMAIN c : \E j \in DOMAIN d : d[j].request = c[k].request
Final(c, d) ==
  \A k \in DOMAIN c, j \in DOMAIN d :
    ~Pending(c[k]) /\ d[j].request.id = c[k].request.id => d[j] = c[k]

LEMMA CompatibleIsSymmetric ==
  ASSUME NEW e, NEW f, Compatible(e, f)
  PROVE  Compatible(f, e)
BY DEF Compatible

(* The entries of a cache that Append extends.                             *)
LEMMA AppendFacts ==
  ASSUME NEW c \in Seq(Entries), NEW e \in Entries
  PROVE  /\ Append(c, e) \in Seq(Entries)
         /\ Len(Append(c, e)) = Len(c) + 1
         /\ DOMAIN Append(c, e) = 1..(Len(c) + 1)
         /\ DOMAIN c = 1..Len(c) /\ Len(c) \in Nat
         /\ \A i \in DOMAIN c : c[i] \in Entries /\ Append(c, e)[i] = c[i]
         /\ Append(c, e)[Len(c) + 1] = e
<1>1. DOMAIN c = 1..Len(c) /\ Len(c) \in Nat
      /\ \A i \in 1..Len(c) : c[i] \in Entries
  BY LenProperties, ElementOfSeq
<1>2. Append(c, e) \in Seq(Entries)
      /\ Len(Append(c, e)) = Len(c) + 1
      /\ \A i \in 1..Len(c) : Append(c, e)[i] = c[i]
      /\ Append(c, e)[Len(c) + 1] = e
  BY AppendProperties
<1>3. DOMAIN Append(c, e) = 1..(Len(c) + 1)
  BY <1>2, LenProperties
<1>4. QED BY <1>1, <1>2, <1>3

(* One more entry that goes with all the others.                           *)
LEMMA AppendWell ==
  ASSUME NEW c, Well(c), Len(c) < CacheSize, NEW e \in Entries,
         \A k \in DOMAIN c : Compatible(c[k], e)
  PROVE  Well(Append(c, e))
<1>0. c \in Seq(Entries)
      /\ \A j, k \in DOMAIN c : j # k => Compatible(c[j], c[k])
  BY DEF Well
<1>1. /\ Append(c, e) \in Seq(Entries)
      /\ Len(Append(c, e)) <= CacheSize
  BY <1>0, AppendFacts, CacheAssumption
<1>2. ASSUME NEW j \in DOMAIN Append(c, e), NEW k \in DOMAIN Append(c, e),
             j # k
      PROVE  Compatible(Append(c, e)[j], Append(c, e)[k])
  <2>1. \/ j \in DOMAIN c /\ k \in DOMAIN c
        \/ j \in DOMAIN c /\ k = Len(c) + 1
        \/ j = Len(c) + 1 /\ k \in DOMAIN c
    BY <1>0, <1>2, AppendFacts
  <2>2. CASE j \in DOMAIN c /\ k \in DOMAIN c
    BY <2>2, <1>0, <1>2, AppendFacts
  <2>3. CASE j \in DOMAIN c /\ k = Len(c) + 1
    BY <2>3, <1>0, AppendFacts
  <2>4. CASE j = Len(c) + 1 /\ k \in DOMAIN c
    BY <2>4, <1>0, AppendFacts, CompatibleIsSymmetric
  <2>5. QED BY <2>1, <2>2, <2>3, <2>4
<1>3. QED BY <1>1, <1>2 DEF Well

(* One entry less.                                                         *)
LEMMA RemoveWell ==
  ASSUME NEW c, Well(c), NEW k \in DOMAIN c
  PROVE  /\ Well(RemoveAt(c, k)) /\ Len(RemoveAt(c, k)) < CacheSize
         /\ \A i \in DOMAIN RemoveAt(c, k) :
              \E j \in DOMAIN c : j # k /\ RemoveAt(c, k)[i] = c[j]
         /\ \A j \in DOMAIN c \ {k} :
              \E i \in DOMAIN RemoveAt(c, k) : RemoveAt(c, k)[i] = c[j]
<1> DEFINE d == RemoveAt(c, k)
<1>0. /\ c \in Seq(Entries) /\ Len(c) <= CacheSize /\ CacheSize \in Nat
      /\ \A i, j \in DOMAIN c : i # j => Compatible(c[i], c[j])
      /\ Len(c) \in Nat /\ DOMAIN c = 1..Len(c)
  BY LenProperties, CacheAssumption DEF Well
<1>1. /\ d \in Seq(Entries) /\ Len(d) = Len(c) - 1
      /\ \A i \in 1..(Len(c) - 1) :
           Shift(i, k) \in DOMAIN c /\ d[i] = c[Shift(i, k)]
  BY <1>0, RemoveAtFacts
<1>2. DOMAIN d = 1..(Len(c) - 1)
  BY <1>1, LenProperties
<1> HIDE DEF d
<1>3. \A i \in DOMAIN d : Shift(i, k) # k
  BY <1>0, <1>2 DEF Shift
<1>4. \A i, j \in DOMAIN d : i # j => Shift(i, k) # Shift(j, k)
  BY <1>0, <1>2 DEF Shift
<1>5. \A i, j \in DOMAIN d : i # j => Compatible(d[i], d[j])
  BY <1>0, <1>1, <1>2, <1>4
<1>6. ASSUME NEW j \in DOMAIN c \ {k}
      PROVE  \E i \in DOMAIN d : d[i] = c[j]
  <2>1. CASE j < k
    <3>1. j \in DOMAIN d /\ Shift(j, k) = j
      BY <2>1, <1>0, <1>2 DEF Shift
    <3>2. QED BY <3>1, <1>1, <1>2
  <2>2. CASE j > k
    <3>1. j - 1 \in DOMAIN d /\ Shift(j - 1, k) = j
      BY <2>2, <1>0, <1>2 DEF Shift
    <3>2. QED BY <3>1, <1>1, <1>2
  <2>3. QED BY <2>1, <2>2, <1>0
<1>7. Well(d) /\ Len(d) < CacheSize
  BY <1>0, <1>1, <1>5 DEF Well
<1>8. \A i \in DOMAIN d : \E j \in DOMAIN c : j # k /\ d[i] = c[j]
  BY <1>1, <1>2, <1>3
<1>9. QED BY <1>6, <1>7, <1>8 DEF d

(* An entry that goes with all the others replaces one that leaves.        *)
LEMMA ReplaceWell ==
  ASSUME NEW c, Well(c), NEW k \in DOMAIN c, NEW e \in Entries,
         \A j \in DOMAIN c \ {k} : Compatible(c[j], e)
  PROVE  /\ Well(Append(RemoveAt(c, k), e))
         /\ \A i \in DOMAIN Append(RemoveAt(c, k), e) :
              \/ Append(RemoveAt(c, k), e)[i] = e
              \/ \E j \in DOMAIN c :
                   j # k /\ Append(RemoveAt(c, k), e)[i] = c[j]
         /\ \A j \in DOMAIN c \ {k} :
              \E i \in DOMAIN Append(RemoveAt(c, k), e) :
                Append(RemoveAt(c, k), e)[i] = c[j]
         /\ \E i \in DOMAIN Append(RemoveAt(c, k), e) :
              Append(RemoveAt(c, k), e)[i] = e
<1> DEFINE d == RemoveAt(c, k)
<1>1. /\ Well(d) /\ Len(d) < CacheSize
      /\ \A i \in DOMAIN d : \E j \in DOMAIN c : j # k /\ d[i] = c[j]
      /\ \A j \in DOMAIN c \ {k} : \E i \in DOMAIN d : d[i] = c[j]
  BY RemoveWell
<1> HIDE DEF d
<1>2. \A i \in DOMAIN d : Compatible(d[i], e)
  BY <1>1
<1>3. Well(Append(d, e))
  BY <1>1, <1>2, AppendWell
<1>4. d \in Seq(Entries)
  BY <1>1 DEF Well
<1>5. /\ DOMAIN Append(d, e) = 1..(Len(d) + 1) /\ DOMAIN d = 1..Len(d)
      /\ Len(d) \in Nat
      /\ \A i \in DOMAIN d : Append(d, e)[i] = d[i]
      /\ Append(d, e)[Len(d) + 1] = e
  BY <1>4, AppendFacts
<1>6. ASSUME NEW i \in DOMAIN Append(d, e)
      PROVE  \/ Append(d, e)[i] = e
             \/ \E j \in DOMAIN c : j # k /\ Append(d, e)[i] = c[j]
  <2>1. i \in DOMAIN d \/ i = Len(d) + 1
    BY <1>5
  <2>2. QED BY <2>1, <1>1, <1>5
<1>7. ASSUME NEW j \in DOMAIN c \ {k}
      PROVE  \E i \in DOMAIN Append(d, e) : Append(d, e)[i] = c[j]
  <2>1. PICK i \in DOMAIN d : d[i] = c[j]
    BY <1>1
  <2>2. i \in DOMAIN Append(d, e) /\ Append(d, e)[i] = c[j]
    BY <2>1, <1>5
  <2>3. QED BY <2>2
<1>8. \E i \in DOMAIN Append(d, e) : Append(d, e)[i] = e
  BY <1>5
<1>9. QED BY <1>3, <1>6, <1>7, <1>8 DEF d

(* An outcome leaves the entry in the cache, and the others as they are.   *)
LEMMA SettleWell ==
  ASSUME NEW c, Well(c), NEW k \in DOMAIN c, Pending(c[k]),
         NEW phase \in Outcomes, NEW reason \in Reasons
  PROVE  /\ Well(Settle(c, k, phase, reason))
         /\ Present(c, Settle(c, k, phase, reason))
         /\ Final(c, Settle(c, k, phase, reason))
<1> DEFINE e == [c[k] EXCEPT !.phase = phase, !.reason = reason]
           d == Append(RemoveAt(c, k), e)
<1>0. /\ c[k] \in Entries
      /\ \A i, j \in DOMAIN c : i # j => Compatible(c[i], c[j])
  BY LenProperties, ElementOfSeq DEF Well
<1>1. /\ e \in Entries /\ e.request = c[k].request
      /\ e.phase = phase /\ ~Pending(e)
  BY <1>0 DEF Entries, Outcomes, Phases, Pending
<1> HIDE DEF e
<1>2. \A j \in DOMAIN c \ {k} : Compatible(c[j], e)
  BY <1>0, <1>1 DEF Compatible
<1>3. /\ Well(d)
      /\ \A i \in DOMAIN d :
           d[i] = e \/ \E j \in DOMAIN c : j # k /\ d[i] = c[j]
      /\ \A j \in DOMAIN c \ {k} : \E i \in DOMAIN d : d[i] = c[j]
      /\ \E i \in DOMAIN d : d[i] = e
  BY <1>1, <1>2, ReplaceWell
<1> HIDE DEF d
<1>4. Present(c, d)
  BY <1>1, <1>3 DEF Present
<1>5. ASSUME NEW j \in DOMAIN c, NEW i \in DOMAIN d, ~Pending(c[j]),
             d[i].request.id = c[j].request.id
      PROVE  d[i] = c[j]
  <2>1. CASE d[i] = e
    <3>1. c[k].request.id = c[j].request.id
      BY <2>1, <1>1, <1>5
    <3>2. QED BY <3>1, <1>0, <1>5 DEF Compatible
  <2>2. CASE \E l \in DOMAIN c : l # k /\ d[i] = c[l]
    BY <2>2, <1>0, <1>5 DEF Compatible
  <2>3. QED BY <1>3, <2>1, <2>2
<1>6. Final(c, d)
  BY <1>5 DEF Final
<1>7. Settle(c, k, phase, reason) = d
  BY DEF Settle, d, e
<1>8. QED BY <1>3, <1>4, <1>6, <1>7

(* A new entry: the cache makes room by forgetting an outcome.             *)
LEMMA RememberWell ==
  ASSUME NEW c, Well(c), NEW e \in Entries,
         \A k \in DOMAIN c : Compatible(c[k], e)
  PROVE  /\ Well(Remember(c, e))
         /\ Kept(c, Remember(c, e)) /\ Final(c, Remember(c, e))
         /\ Len(c) < CacheSize \/ Settled(c) # {} =>
              \E k \in DOMAIN Remember(c, e) : Remember(c, e)[k] = e
<1>0. /\ c \in Seq(Entries) /\ Len(c) \in Nat /\ DOMAIN c = 1..Len(c)
      /\ \A i, j \in DOMAIN c : i # j => Compatible(c[i], c[j])
  BY LenProperties DEF Well
<1>1. CASE Len(c) < CacheSize
  <2> DEFINE d == Append(c, e)
  <2>1. Well(d)
    BY <1>1, AppendWell
  <2>2. /\ DOMAIN d = 1..(Len(c) + 1) /\ d[Len(c) + 1] = e
        /\ \A i \in DOMAIN c : i \in DOMAIN d /\ d[i] = c[i]
    BY <1>0, AppendFacts
  <2> HIDE DEF d
  <2>3. \A i \in DOMAIN d : i \in DOMAIN c \/ d[i] = e
    BY <1>0, <2>2
  <2>4. Kept(c, d)
    BY <2>2 DEF Kept
  <2>5. Final(c, d)
    BY <1>0, <2>2, <2>3 DEF Final, Compatible
  <2>6. \E k \in DOMAIN d : d[k] = e
    BY <1>0, <2>2
  <2>7. Remember(c, e) = d
    BY <1>1 DEF Remember, d
  <2>8. QED BY <2>1, <2>4, <2>5, <2>6, <2>7
<1>2. CASE ~(Len(c) < CacheSize) /\ Settled(c) = {}
  <2>1. Remember(c, e) = c
    BY <1>2 DEF Remember
  <2>2. Kept(c, c) /\ Final(c, c)
    BY <1>0 DEF Kept, Final, Compatible
  <2>3. QED BY <1>2, <2>1, <2>2
<1>3. CASE ~(Len(c) < CacheSize) /\ Settled(c) # {}
  <2> DEFINE k == Min(Settled(c))
             d == Append(RemoveAt(c, k), e)
  <2>1. k \in Settled(c)
    <3>1. Settled(c) \in SUBSET Nat
      BY <1>0 DEF Settled
    <3>2. QED BY <1>3, <3>1, MinFacts
  <2>2. k \in DOMAIN c /\ ~Pending(c[k])
    BY <2>1 DEF Settled
  <2> HIDE DEF k
  <2>3. /\ Well(d)
        /\ \A i \in DOMAIN d :
             d[i] = e \/ \E j \in DOMAIN c : j # k /\ d[i] = c[j]
        /\ \A j \in DOMAIN c \ {k} : \E i \in DOMAIN d : d[i] = c[j]
        /\ \E i \in DOMAIN d : d[i] = e
    BY <2>2, ReplaceWell
  <2> HIDE DEF d
  <2>4. Kept(c, d)
    BY <2>2, <2>3 DEF Kept
  <2>5. Final(c, d)
    BY <1>0, <2>2, <2>3 DEF Final, Compatible
  <2>6. Remember(c, e) = d
    BY <1>3 DEF Remember, d, k
  <2>7. QED BY <2>3, <2>4, <2>5, <2>6
<1>4. QED BY <1>1, <1>2, <1>3

LEMMA UnchangedWell ==
  ASSUME NEW c, Well(c)
  PROVE  Present(c, c) /\ Final(c, c)
BY DEF Well, Compatible, Present, Final

LEMMA FinishWell ==
  ASSUME NEW c, Well(c), NEW id, NEW phase \in Outcomes,
         NEW reason \in Reasons
  PROVE  /\ Well(Finish(c, id, phase, reason))
         /\ Present(c, Finish(c, id, phase, reason))
         /\ Final(c, Finish(c, id, phase, reason))
<1>1. CASE Unfinished(c, id) = {}
  BY <1>1, UnchangedWell DEF Finish
<1>2. CASE Unfinished(c, id) # {}
  <2> DEFINE k == CHOOSE i \in Unfinished(c, id) : TRUE
  <2>1. k \in Unfinished(c, id)
    BY <1>2
  <2>2. k \in DOMAIN c /\ Pending(c[k])
    BY <2>1 DEF Unfinished, Find
  <2>3. Finish(c, id, phase, reason) = Settle(c, k, phase, reason)
    BY <1>2 DEF Finish
  <2> HIDE DEF k
  <2>4. QED BY <2>2, <2>3, SettleWell
<1>3. QED BY <1>1, <1>2

LEMMA InterruptWell ==
  ASSUME NEW c, Well(c), NEW domain
  PROVE  /\ Well(Interrupt(c, domain))
         /\ Present(c, Interrupt(c, domain))
         /\ Final(c, Interrupt(c, domain))
<1> DEFINE of == {k \in DOMAIN c : /\ Pending(c[k])
                                   /\ DomainOf(c[k].request.command) = domain}
           k == CHOOSE i \in of : TRUE
<1>1. CASE of = {}
  BY <1>1, UnchangedWell DEF Interrupt
<1>2. CASE of # {}
  <2>1. k \in of
    BY <1>2
  <2>2. k \in DOMAIN c /\ Pending(c[k])
    BY <2>1
  <2>3. Interrupt(c, domain) =
          Settle(c, k, "failed", "interrupted_by_emergency")
    BY <1>2 DEF Interrupt
  <2> HIDE DEF k, of
  <2>4. "failed" \in Outcomes /\ "interrupted_by_emergency" \in Reasons
    BY DEF Outcomes, Reasons
  <2>5. QED BY <2>2, <2>3, <2>4, SettleWell
<1>3. QED BY <1>1, <1>2

(* What two operations in a row leave.                                     *)
LEMMA Composed ==
  ASSUME NEW c, NEW d, NEW f, Present(c, d), Present(d, f),
         Final(c, d), Final(d, f)
  PROVE  Present(c, f) /\ Final(c, f)
<1>1. Present(c, f)
  <2>1. SUFFICES ASSUME NEW k \in DOMAIN c
                 PROVE  \E j \in DOMAIN f : f[j].request = c[k].request
    BY DEF Present
  <2>2. PICK i \in DOMAIN d : d[i].request = c[k].request
    BY DEF Present
  <2>3. PICK j \in DOMAIN f : f[j].request = d[i].request
    BY DEF Present
  <2>4. QED BY <2>2, <2>3
<1>2. Final(c, f)
  <2>1. SUFFICES ASSUME NEW k \in DOMAIN c, NEW j \in DOMAIN f,
                        ~Pending(c[k]), f[j].request.id = c[k].request.id
                 PROVE  f[j] = c[k]
    BY DEF Final
  <2>2. PICK i \in DOMAIN d : d[i].request = c[k].request
    BY DEF Present
  <2>3. d[i] = c[k]
    BY <2>1, <2>2 DEF Final
  <2>4. f[j] = d[i]
    BY <2>1, <2>3 DEF Final
  <2>5. QED BY <2>3, <2>4
<1>3. QED BY <1>1, <1>2

LEMMA InterruptionsWell ==
  ASSUME NEW c, Well(c), NEW d \in Interruptions(c)
  PROVE  Well(d) /\ Present(c, d) /\ Final(c, d)
<1>1. CASE d = Interrupt(Interrupt(c, "fin"), "parachute")
  BY <1>1, InterruptWell, Composed
<1>2. CASE d = Interrupt(Interrupt(c, "parachute"), "fin")
  BY <1>2, InterruptWell, Composed
<1>3. QED BY <1>1, <1>2 DEF Interruptions

(* Each guard of begin refuses with a reason of the protocol; a request    *)
(* that none refuses is for a domain with nothing in its way.              *)
LEMMA RefusalsFacts ==
  ASSUME NEW r, NEW ctx, NEW latched, NEW c
  PROVE  LET refusals == Refusals(r, ctx, latched, c) IN
         /\ DOMAIN refusals = 1..14
         /\ \A i \in 1..14 : refusals[i].reason \in Reasons
         /\ (\A i \in 1..14 : ~refusals[i].when) =>
              /\ ~Busy(c, DomainOf(r.command))
              /\ DomainOf(r.command) = "parachute" => ~Busy(c, "sequence")
              /\ DomainOf(r.command) = "calibration" =>
                   ~Busy(c, "fin") /\ ~Busy(c, "parachute")
              /\ DomainOf(r.command) \in {"fin", "parachute"} =>
                   ~Busy(c, "calibration")
              /\ r.command \in Starts => ~AnyPending(c)
<1> DEFINE refusals == Refusals(r, ctx, latched, c)
<1>1. DOMAIN refusals = 1..14
  BY DEF Refusals
<1>2. \A i \in 1..14 : refusals[i].reason \in Reasons
  BY DEF Refusals, Reasons
<1>3. /\ refusals[9].when = (DomainOf(r.command) = "parachute"
                             /\ Busy(c, "sequence"))
      /\ refusals[12].when = Busy(c, DomainOf(r.command))
      /\ refusals[13].when = (r.command \in Starts /\ AnyPending(c))
      /\ refusals[14].when = Conflict(c, DomainOf(r.command),
                                      ctx.motor_test_busy)
  BY DEF Refusals
<1> HIDE DEF refusals
<1>4. ASSUME \A i \in 1..14 : ~refusals[i].when
      PROVE  /\ ~Busy(c, DomainOf(r.command))
             /\ ~(DomainOf(r.command) = "parachute" /\ Busy(c, "sequence"))
             /\ ~Conflict(c, DomainOf(r.command), ctx.motor_test_busy)
             /\ ~(r.command \in Starts /\ AnyPending(c))
  <2>1. /\ ~refusals[9].when /\ ~refusals[12].when
        /\ ~refusals[13].when /\ ~refusals[14].when
    BY <1>4
  <2>2. QED BY <2>1, <1>3, Zenon
<1>5. QED BY <1>1, <1>2, <1>4 DEF Conflict, refusals

LEMMA DomainFacts ==
  /\ DomainOf("run_preflight_calibration") = "calibration"
  /\ \A command \in Starts : DomainOf(command) = "sequence"
BY DEF DomainOf, Starts, FinCommands, Retired

(* A request without refusal goes with every entry of the cache.           *)
LEMMA AcceptedFits ==
  ASSUME NEW c, NEW r \in Requests, NEW ctx, NEW latched, Find(c, r.id) = {},
         \A i \in 1..14 : ~Refusals(r, ctx, latched, c)[i].when,
         NEW e, e.request = r,
         NEW k \in DOMAIN c
  PROVE  Compatible(c[k], e)
<1> DEFINE domain == DomainOf(r.command)
           other == DomainOf(c[k].request.command)
<1>1. /\ ~Busy(c, domain)
      /\ domain = "parachute" => ~Busy(c, "sequence")
      /\ domain = "calibration" => ~Busy(c, "fin") /\ ~Busy(c, "parachute")
      /\ domain \in {"fin", "parachute"} => ~Busy(c, "calibration")
      /\ r.command \in Starts => ~AnyPending(c)
  BY RefusalsFacts
<1>2. c[k].request.id # e.request.id
  BY DEF Find
<1>3. SUFFICES ASSUME Pending(c[k])
               PROVE  /\ other # domain
                      /\ ~Clash(c[k], e) /\ ~Clash(e, c[k])
  BY <1>2 DEF Compatible
<1>4. Busy(c, other) /\ AnyPending(c)
  BY <1>3 DEF Busy, AnyPending
<1>5. other # domain
  BY <1>1, <1>4
<1>6. ~Clash(c[k], e)
  BY <1>1, <1>4, DomainFacts DEF Clash
<1>7. ~Clash(e, c[k])
  BY <1>1, <1>4, DomainFacts DEF Clash
<1>8. QED BY <1>5, <1>6, <1>7

(* A cache whose entries are all pending has one for each of its domains:  *)
(* with a slot for each domain, it is not full unless all are busy.        *)
LEMMA RoomForOne ==
  ASSUME NEW c, Well(c), NEW command \in Commands,
         ~Busy(c, DomainOf(command))
  PROVE  Len(c) < CacheSize \/ Settled(c) # {}
<1> DEFINE All == {DomainOf(x) : x \in Commands}
           Others == All \ {DomainOf(command)}
           domain == [k \in DOMAIN c |-> DomainOf(c[k].request.command)]
<1>1. SUFFICES ASSUME ~(Len(c) < CacheSize), Settled(c) = {}
               PROVE  FALSE
  OBVIOUS
<1>2. /\ Len(c) \in Nat /\ DOMAIN c = 1..Len(c) /\ Len(c) = CacheSize
      /\ \A k \in DOMAIN c : c[k] \in Entries /\ Pending(c[k])
  BY <1>1, LenProperties, ElementOfSeq, CacheAssumption DEF Well, Settled
<1>3. IsFiniteSet(All)
  <2> DEFINE f == [x \in Commands |-> DomainOf(x)]
  <2>1. f \in Surjection(Commands, All)
    BY DEF Surjection
  <2>2. QED BY <2>1, FS_Surjection, RequestAssumption
<1>4. /\ IsFiniteSet(Others)
      /\ Cardinality(Others) = Cardinality(All) - 1
      /\ Cardinality(All) \in Nat
  <2>1. DomainOf(command) \in All
    OBVIOUS
  <2> HIDE DEF All
  <2>2. QED BY <2>1, <1>3, FS_RemoveElement, FS_CardinalityType
<1>5. /\ IsFiniteSet(DOMAIN c) /\ Cardinality(DOMAIN c) = CacheSize
  BY <1>2, FS_Interval
<1>6. domain \in [DOMAIN c -> Others]
  BY <1>2 DEF Entries, Requests, Busy
<1>7. Cardinality(Others) < Cardinality(DOMAIN c)
  BY <1>4, <1>5, CacheAssumption
<1>8. PICK j, k \in DOMAIN c : j # k /\ domain[j] = domain[k]
  <2> HIDE DEF domain, Others
  <2>1. QED BY <1>4, <1>5, <1>6, <1>7, FS_PigeonHole
<1>9. QED BY <1>2, <1>8 DEF Well, Compatible

(* A decision keeps the cache well, its pending entries and outcomes, and  *)
(* executes nothing it does not remember.                                  *)
LEMMA BeginWell ==
  ASSUME NEW c, Well(c), NEW g, NEW ctx,
         NEW r \in [id : Ids \cup {NoId}, command : Commands,
                    args : Payloads]
  PROVE  LET decision == Begin(c, g, r, ctx) IN
         /\ Well(decision.cache)
         /\ Kept(c, decision.cache) /\ Final(c, decision.cache)
         /\ decision.execute => Find(decision.cache, r.id) # {}
<1> DEFINE d == Begin(c, g, r, ctx)
           refusals == Refusals(r, ctx, Recover(g, ctx.state).latched, c)
           refused == {i \in DOMAIN refusals : refusals[i].when}
           reason == refusals[Min(refused)].reason
           accepted == [request |-> r, phase |-> "accepted",
                        reason |-> "none"]
           rejected == [request |-> r, phase |-> "rejected",
                        reason |-> reason]
<1>1. Present(c, c) /\ Final(c, c)
  BY UnchangedWell
<1>2. Kept(c, c)
  BY <1>1 DEF Present, Kept
<1>3. CASE r.id = NoId
  <2>1. d.cache = c /\ d.execute = FALSE
    BY <1>3 DEF Begin
  <2>2. QED BY <2>1, <1>1, <1>2
<1>4. CASE r.id # NoId /\ Find(c, r.id) # {}
  <2>1. d.cache = c /\ d.execute = FALSE
    <3> DEFINE e == c[CHOOSE k \in Find(c, r.id) : TRUE]
    <3>1. CASE e.request = r
      BY <1>4, <3>1 DEF Begin
    <3>2. CASE e.request # r
      BY <1>4, <3>2 DEF Begin
    <3>3. QED BY <3>1, <3>2
  <2>2. QED BY <2>1, <1>1, <1>2
<1>5. CASE r.id # NoId /\ Find(c, r.id) = {} /\ refused = {}
  <2>0. r \in Requests
    BY <1>5 DEF Requests
  <2>1. d.cache = Remember(c, accepted)
    BY <1>5 DEF Begin
  <2>2. accepted \in Entries /\ accepted.request = r
    BY <2>0 DEF Entries, Phases, Reasons
  <2>3. \A i \in 1..14 : ~refusals[i].when
    BY <1>5, RefusalsFacts
  <2> HIDE DEF refusals, refused, accepted
  <2>4. \A k \in DOMAIN c : Compatible(c[k], accepted)
    BY <1>5, <2>0, <2>2, <2>3, AcceptedFits DEF refusals
  <2>5. /\ Well(d.cache) /\ Kept(c, d.cache) /\ Final(c, d.cache)
        /\ Len(c) < CacheSize \/ Settled(c) # {} =>
             \E k \in DOMAIN d.cache : d.cache[k] = accepted
    BY <2>1, <2>2, <2>4, RememberWell
  <2>6. ~Busy(c, DomainOf(r.command))
    BY <2>3, RefusalsFacts DEF refusals
  <2>7. \E k \in DOMAIN d.cache : d.cache[k] = accepted
    BY <2>0, <2>5, <2>6, RoomForOne DEF Requests
  <2>8. Find(d.cache, r.id) # {}
    BY <2>2, <2>7 DEF Find
  <2>9. QED BY <2>5, <2>8
<1>6. CASE r.id # NoId /\ Find(c, r.id) = {} /\ refused # {}
  <2>0. r \in Requests
    BY <1>6 DEF Requests
  <2>1. d.cache = Remember(c, rejected) /\ ~d.execute
    <3> HIDE DEF reason
    <3>1. d = [phase |-> "rejected", reason |-> reason,
               execute |-> "rejected" = "accepted",
               cache |-> Remember(c, rejected),
               guard |-> Recover(g, ctx.state)]
      BY <1>6 DEF Begin, reason
    <3> HIDE DEF d, rejected
    <3>2. d.cache = Remember(c, rejected)
      BY <3>1
    <3>3. d.execute = ("rejected" = "accepted")
      BY <3>1
    <3>4. QED BY <3>2, <3>3
  <2>2. reason \in Reasons
    <3>1. DOMAIN refusals = 1..14
          /\ \A i \in 1..14 : refusals[i].reason \in Reasons
      BY RefusalsFacts
    <3>2. refused \in SUBSET Nat /\ refused \subseteq 1..14
      BY <3>1
    <3> HIDE DEF refusals
    <3>3. Min(refused) \in refused
      <4> HIDE DEF refused
      <4>1. QED BY <3>2, <1>6, MinFacts
    <3>4. QED BY <3>1, <3>2, <3>3
  <2> HIDE DEF reason
  <2>3. rejected \in Entries /\ rejected.request = r /\ ~Pending(rejected)
    BY <2>0, <2>2 DEF Entries, Phases, Pending
  <2> HIDE DEF rejected
  <2>4. \A k \in DOMAIN c : Compatible(c[k], rejected)
    BY <1>6, <2>3 DEF Compatible, Find
  <2>5. QED BY <2>1, <2>3, <2>4, RememberWell
<1>7. QED BY <1>3, <1>4, <1>5, <1>6

-----------------------------------------------------------------------------
(* The inductive invariant of the executor.                                *)
ExecIInv ==
  /\ Well(cache)
  /\ guard \in [latched : BOOLEAN, inside : BOOLEAN]

(* Every step of the executor, on a well cache.                            *)
LEMMA StepWell ==
  ASSUME ExecIInv, [Next]_execVars
  PROVE  ExecIInv' /\ Kept(cache, cache') /\ Final(cache, cache')
<1>0. CacheSize \in Nat /\ Present(cache, cache) /\ Final(cache, cache)
      /\ \A d : Present(cache, d) => Kept(cache, d)
  BY CacheAssumption, UnchangedWell DEF ExecIInv, Present, Kept
<1>1. ASSUME NEW r \in [id : Ids \cup {NoId}, command : Commands,
                        args : Payloads],
             NEW ctx \in Contexts, BeginCommand(r, ctx)
      PROVE  ExecIInv' /\ Kept(cache, cache') /\ Final(cache, cache')
  <2> DEFINE decision == Begin(cache, guard, r, ctx)
  <2>1. Well(cache') /\ Kept(cache, cache') /\ Final(cache, cache')
    BY <1>1, BeginWell DEF ExecIInv, BeginCommand
  <2>2. decision.guard \in {guard, Recover(guard, ctx.state)}
    <3> DEFINE e == cache[CHOOSE k \in Find(cache, r.id) : TRUE]
    <3>1. CASE e.request = r
      BY <3>1 DEF Begin
    <3>2. CASE e.request # r
      BY <3>2 DEF Begin
    <3>3. QED BY <3>1, <3>2
  <2>3. guard' \in [latched : BOOLEAN, inside : BOOLEAN]
    BY <1>1, <2>2 DEF ExecIInv, BeginCommand, Recover
  <2>4. QED BY <2>1, <2>3 DEF ExecIInv, Well, Compatible, Pending
<1>2. ASSUME NEW id \in Ids, NEW phase \in Outcomes, NEW reason \in Reasons,
             FinishCommand(id, phase, reason)
      PROVE  ExecIInv' /\ Kept(cache, cache') /\ Final(cache, cache')
  <2>1. Well(cache') /\ Present(cache, cache') /\ Final(cache, cache')
    BY <1>2, FinishWell DEF ExecIInv, FinishCommand
  <2>2. guard' \in [latched : BOOLEAN, inside : BOOLEAN]
    BY <1>2 DEF ExecIInv, FinishCommand, FinishedGuard
  <2>3. QED BY <1>0, <1>2, <2>1, <2>2 DEF ExecIInv, FinishCommand
<1>3. ASSUME NEW id \in Ids, NEW s \in MissionStates,
             ActuatorEmergency(id, s)
      PROVE  ExecIInv' /\ Kept(cache, cache') /\ Final(cache, cache')
  BY <1>0, <1>3, InterruptionsWell DEF ExecIInv, ActuatorEmergency
<1>4. ASSUME NEW usable \in BOOLEAN, NEW inside \in BOOLEAN,
             ObserveFin(usable, inside)
      PROVE  ExecIInv' /\ Kept(cache, cache') /\ Final(cache, cache')
  BY <1>0, <1>4 DEF ExecIInv, ObserveFin
<1>5. ASSUME UNCHANGED execVars
      PROVE  ExecIInv' /\ Kept(cache, cache') /\ Final(cache, cache')
  BY <1>0, <1>5 DEF ExecIInv, execVars
<1>6. QED BY <1>1, <1>2, <1>3, <1>4, <1>5 DEF Next

LEMMA ExecutorInvariant == Spec => []ExecIInv
<1>1. Init => ExecIInv
  <2>1. SUFFICES ASSUME Init PROVE ExecIInv
    OBVIOUS
  <2>2. cache = <<>> /\ <<>> \in Seq(Entries) /\ Len(<<>>) = 0
        /\ DOMAIN <<>> = {}
    BY <2>1 DEF Init
  <2>3. QED BY <2>1, <2>2, CacheAssumption DEF Init, ExecIInv, Well
<1>2. ExecIInv /\ [Next]_execVars => ExecIInv'
  BY StepWell
<1>3. QED BY <1>1, <1>2, PTL DEF Spec

(* The cache is a sequence of at most CacheSize entries of requests.       *)
THEOREM ExecutorTypeCorrect == Spec => []ExecutorTypeOK
<1>1. ExecIInv => ExecutorTypeOK
  BY DEF ExecIInv, ExecutorTypeOK, Well
<1>2. QED BY <1>1, ExecutorInvariant, PTL

(* No transaction id has two entries.                                      *)
THEOREM OneEntryTheorem == Spec => []OneEntryPerId
<1>1. ExecIInv => OneEntryPerId
  BY DEF ExecIInv, OneEntryPerId, Well, Compatible
<1>2. QED BY <1>1, ExecutorInvariant, PTL

(* No domain has two commands in execution.                                *)
THEOREM OnePendingTheorem == Spec => []OnePendingPerDomain
<1>1. ExecIInv => OnePendingPerDomain
  BY DEF ExecIInv, OnePendingPerDomain, Well, Compatible
<1>2. QED BY <1>1, ExecutorInvariant, PTL

(* Neither a calibration and a move, nor a Start and a manual move of the  *)
(* parachute, are ever in execution together.                              *)
THEOREM ConflictTheorem == Spec => []ConflictsAreRefused
<1>1. ASSUME ExecIInv PROVE ConflictsAreRefused
  <2>1. SUFFICES ASSUME NEW j \in DOMAIN cache, NEW k \in DOMAIN cache,
                        Pending(cache[j]), Pending(cache[k])
                 PROVE  ~Clash(cache[j], cache[k])
    BY DEF ConflictsAreRefused, Clash
  <2>2. CASE j # k
    BY <1>1, <2>1, <2>2 DEF ExecIInv, Well, Compatible
  <2>3. CASE j = k
    BY <2>3, DomainFacts DEF Clash
  <2>4. QED BY <2>2, <2>3
<1>2. QED BY <1>1, ExecutorInvariant, PTL

(* Nothing is executed that the cache has no room to remember.             *)
THEOREM RememberedTheorem == Spec => []AcceptedIsRemembered
<1>1. ASSUME ExecIInv PROVE AcceptedIsRemembered
  <2>1. SUFFICES ASSUME NEW r \in Requests, NEW ctx \in Contexts,
                        Begin(cache, guard, r, ctx).execute
                 PROVE  Find(Begin(cache, guard, r, ctx).cache, r.id) # {}
    BY DEF AcceptedIsRemembered
  <2>2. r \in [id : Ids \cup {NoId}, command : Commands, args : Payloads]
    BY DEF Requests
  <2>3. QED BY <1>1, <2>1, <2>2, BeginWell DEF ExecIInv
<1>2. QED BY <1>1, ExecutorInvariant, PTL

(* A command in execution is never dropped from the cache.                 *)
THEOREM KeptTheorem == Spec => AcceptedIsKept
<1>1. ASSUME ExecIInv, [Next]_execVars PROVE Kept(cache, cache')
  BY <1>1, StepWell
<1>2. QED BY <1>1, ExecutorInvariant, PTL DEF Spec, AcceptedIsKept, Kept

(* An outcome in the cache never changes.                                  *)
THEOREM FinalTheorem == Spec => OutcomeIsFinal
<1>1. ASSUME ExecIInv, [Next]_execVars PROVE Final(cache, cache')
  BY <1>1, StepWell
<1>2. QED BY <1>1, ExecutorInvariant, PTL DEF Spec, OutcomeIsFinal, Final

(* What begin, finish and the emergency keep true of the cache.            *)
THEOREM CacheTheorem == Spec => []CacheIsSound
BY ExecutorTypeCorrect, OneEntryTheorem, OnePendingTheorem, RememberedTheorem, PTL
DEF CacheIsSound

(* What no begin, finish or emergency does to the cache.                   *)
THEOREM OutcomesTheorem == Spec => OutcomesAreKept
BY KeptTheorem, FinalTheorem DEF OutcomesAreKept

-----------------------------------------------------------------------------
(* The tasks.                                                               *)

USE DEF NoId

LEMMA NoneIsNoCompletion ==
  ASSUME NEW c \in Completions
  PROVE  /\ c # None
         /\ c.id \in Ids /\ c.phase \in Outcomes /\ c.reason \in Reasons
         /\ c.reason \in IF c.phase = "completed" THEN {"none"} ELSE Failures
<1>1. /\ c.id \in Ids /\ c.phase \in Outcomes
      /\ c.reason \in IF c.phase = "completed" THEN {"none"} ELSE Failures
  BY DEF Completions, Outcomes
<1>2. c.reason \in Reasons
  BY <1>1, RequestAssumption DEF Reasons
<1>3. c # None
  BY <1>1, RequestAssumption DEF None
<1>4. QED BY <1>1, <1>2, <1>3

(* A report of the outcome of a command, which is the executor's           *)
(* FinishCommand.                                                          *)
Reports ==
  \E id \in Ids, phase \in Outcomes, reason \in Reasons :
    /\ reason \in IF phase = "completed" THEN {"none"} ELSE Failures
    /\ Report(id, phase, reason)

LEMMA ReportIsOne ==
  ASSUME NEW id \in Ids, NEW phase \in Outcomes, NEW reason \in Reasons,
         reason \in IF phase = "completed" THEN {"none"} ELSE Failures,
         Report(id, phase, reason)
  PROVE  Reports
BY DEF Reports

LEMMA ReportFinishes ==
  ASSUME Reports
  PROVE  Next
<1>1. PICK id \in Ids, phase \in Outcomes, reason \in Reasons :
        FinishCommand(id, phase, reason)
  BY DEF Reports, Report, FinishCommand
<1>2. QED BY <1>1 DEF Next

LEMMA FailureReasons ==
  /\ {"busy", "invalid_state", "device_unavailable", "not_configured",
      "timeout"} \subseteq Failures \cap Reasons
  /\ "none" \in Reasons /\ Outcomes = {"completed", "failed"}
BY RuntimeAssumption, RequestAssumption DEF Reasons, Outcomes

-----------------------------------------------------------------------------
(* What a task does to the executor is a step of the executor.             *)
LEMMA DecideStep ==
  ASSUME PipelineTypeOK, Decide
  PROVE  [Next]_execVars
<1>1. worker.request \in Requests /\ worker.state \in MissionStates
  BY DEF PipelineTypeOK, Decide
<1>2. RuntimeContext(worker.state) \in Contexts
  BY <1>1, RuntimeAssumption DEF RuntimeContexts
<1>3. CASE UNCHANGED execVars
  BY <1>3
<1>4. CASE LET decision == Begin(cache, guard, worker.request,
                                 RuntimeContext(worker.state))
           IN cache' = decision.cache /\ guard' = decision.guard
  <2>1. BeginCommand(worker.request, RuntimeContext(worker.state))
    BY <1>4 DEF BeginCommand
  <2>2. worker.request \in [id : Ids \cup {NoId}, command : Commands,
                            args : Payloads]
    BY <1>1 DEF Requests
  <2>3. QED BY <2>1, <2>2, <1>2 DEF Next
<1>5. QED BY <1>3, <1>4 DEF Decide

LEMMA EnqueueStep ==
  ASSUME PipelineTypeOK, Enqueue
  PROVE  UNCHANGED execVars \/ Reports
<1>1. worker.request.id \in Ids
  BY DEF PipelineTypeOK, Enqueue, Requests
<1>2. CASE Report(worker.request.id, "failed", "busy")
  BY <1>1, <1>2, FailureReasons, ReportIsOne
<1>3. CASE UNCHANGED execVars
  BY <1>3
<1>4. QED BY <1>2, <1>3 DEF Enqueue

LEMMA EmergencyStep ==
  ASSUME PipelineTypeOK, HandleEmergency
  PROVE  \/ UNCHANGED execVars
         \/ /\ \E id \in Ids : ActuatorEmergency(id, state)
            /\ state \in MissionStates
BY DEF HandleEmergency, ActuatorEmergency, PipelineTypeOK

LEMMA FinishStartStep ==
  ASSUME PipelineTypeOK, FinishStart
  PROVE  UNCHANGED execVars \/ Reports
<1>1. CASE UNCHANGED execVars
  BY <1>1
<1>2. CASE mission.start # NoId
  <2>1. mission.start \in Ids
    BY <1>2 DEF PipelineTypeOK
  <2>2. CASE Report(mission.start, "completed", "none")
    BY <2>1, <2>2, FailureReasons, ReportIsOne
  <2>3. CASE Report(mission.start, "failed",
                    IF state = "command_receive" THEN "not_configured"
                    ELSE "invalid_state")
    BY <2>1, <2>3, FailureReasons, ReportIsOne
  <2>4. QED BY <1>1, <2>2, <2>3 DEF FinishStart
<1>3. QED BY <1>1, <1>2 DEF FinishStart

LEMMA TransitionStep ==
  ASSUME PipelineTypeOK, Transition
  PROVE  UNCHANGED execVars \/ Reports
<1>1. PICK device \in BOOLEAN :
        \/ UNCHANGED execVars
        \/ Report(Head(transitions).id,
                  IF Immediate(Head(transitions), device) = "none"
                  THEN "completed" ELSE "failed",
                  Immediate(Head(transitions), device))
  <2>1. PICK device \in BOOLEAN :
          IF GoesOn(Head(transitions), device) THEN UNCHANGED execVars
          ELSE Report(Head(transitions).id,
                      IF Immediate(Head(transitions), device) = "none"
                      THEN "completed" ELSE "failed",
                      Immediate(Head(transitions), device))
    BY Zenon DEF Transition
  <2>2. QED BY <2>1
<1> DEFINE reason == Immediate(Head(transitions), device)
<1>2. Head(transitions).id \in Ids
  <2>1. transitions \in Seq(Requests) /\ transitions # <<>>
    BY DEF PipelineTypeOK, Transition
  <2>2. Head(transitions) \in Requests
    BY <2>1
  <2>3. QED BY <2>2 DEF Requests
<1>3. reason \in {"none", "busy", "invalid_state", "device_unavailable"}
  BY DEF Immediate
<1>4. CASE UNCHANGED execVars
  BY <1>4
<1>5. CASE Report(Head(transitions).id,
                  IF reason = "none" THEN "completed" ELSE "failed", reason)
  <2> HIDE DEF reason
  <2>1. CASE reason = "none"
    BY <1>2, <1>5, <2>1, FailureReasons, ReportIsOne
  <2>2. CASE reason # "none"
    BY <1>2, <1>3, <1>5, <2>2, FailureReasons, ReportIsOne
  <2>3. QED BY <2>1, <2>2
<1>6. QED BY <1>1, <1>4, <1>5

LEMMA EndStep ==
  ASSUME PipelineTypeOK, EndCalibration \/ EndFinMove
  PROVE  UNCHANGED execVars \/ Reports
<1>1. CASE EndCalibration
  <2>1. mission.calibration \in Ids
    BY <1>1 DEF PipelineTypeOK, EndCalibration
  <2>2. QED
    BY <1>1, <2>1, FailureReasons, ReportIsOne DEF EndCalibration
<1>2. CASE EndFinMove
  <2>1. mission.fin \in Ids
    BY <1>2 DEF PipelineTypeOK, EndFinMove
  <2>2. PICK phase \in Outcomes :
          Report(mission.fin, phase,
                 IF phase = "completed" THEN "none" ELSE "timeout")
    BY <1>2 DEF EndFinMove
  <2>3. QED BY <2>1, <2>2, FailureReasons, ReportIsOne
<1>3. QED BY <1>1, <1>2

LEMMA FlushStep ==
  ASSUME PipelineTypeOK, Flush
  PROVE  UNCHANGED execVars \/ Reports
<1> DEFINE c == parachute.completion
<1>1. CASE UNCHANGED execVars
  BY <1>1
<1>2. CASE c # None /\ Report(c.id, c.phase, c.reason)
  <2>1. c \in Completions
    BY <1>2 DEF PipelineTypeOK
  <2>2. QED BY <1>2, <2>1, NoneIsNoCompletion, ReportIsOne
<1>3. QED BY <1>1, <1>2 DEF Flush

(* Only begin, a report and an emergency change the cache.                 *)
LEMMA StepKinds ==
  ASSUME PipelineTypeOK, [PipelineNext]_vars
  PROVE  \/ Decide \/ UNCHANGED execVars \/ Reports
         \/ /\ \E id \in Ids : ActuatorEmergency(id, state)
            /\ state \in MissionStates
<1>1. CASE \/ Receive \/ Emergency \/ TakeLatch \/ Flies \/ Drain \/ Drive
           \/ UNCHANGED vars
  BY <1>1 DEF Receive, Emergency, TakeLatch, Flies, Drain, Drive, vars
<1>2. QED
  BY <1>1, EnqueueStep, EmergencyStep, FinishStartStep, TransitionStep,
     EndStep, FlushStep DEF PipelineNext

LEMMA PipelineStep ==
  ASSUME PipelineTypeOK, [PipelineNext]_vars
  PROVE  [Next]_execVars
<1>1. CASE Decide
  BY <1>1, DecideStep
<1>2. CASE UNCHANGED execVars
  BY <1>2
<1>3. CASE Reports
  BY <1>3, ReportFinishes
<1>4. CASE /\ \E id \in Ids : ActuatorEmergency(id, state)
           /\ state \in MissionStates
  BY <1>4 DEF Next
<1>5. QED BY <1>1, <1>2, <1>3, <1>4, StepKinds

-----------------------------------------------------------------------------
(* The types: one lemma for each action that disturbs more than one of     *)
(* them.                                                                   *)
LEMMA WaitingType ==
  Waiting \in [phase : {"receive", "begin", "queue"},
              request : Requests \cup {None}, state : MissionStates]
  /\ Waiting.phase = "receive"
BY DEF Waiting, MissionStates

LEMMA QueueTypes ==
  ASSUME NEW S, NEW q \in Seq(S), NEW x \in S
  PROVE  /\ Append(q, x) \in Seq(S) /\ Len(Append(q, x)) = Len(q) + 1
         /\ Len(q) \in Nat
         /\ q # <<>> => /\ Head(q) \in S /\ Tail(q) \in Seq(S)
                       /\ Len(Tail(q)) = Len(q) - 1
OBVIOUS

LEMMA TailType ==
  ASSUME NEW S, NEW q \in Seq(S), q # <<>>
  PROVE  /\ Head(q) \in S /\ Tail(q) \in Seq(S)
         /\ Len(q) \in Nat /\ Len(Tail(q)) = Len(q) - 1
OBVIOUS

LEMMA HoldType ==
  ASSUME holds \in 0..HoldQueue, Hold \/ UNCHANGED holds
  PROVE  holds' \in 0..HoldQueue
<1>1. HoldQueue \in Nat
  BY QueueAssumption
<1>2. QED BY <1>1 DEF Hold

LEMMA WorkerTypes ==
  ASSUME PipelineTypeOK, Receive \/ Decide \/ Enqueue
  PROVE  PipelineTypeOK'
<1>1. CASE Receive
  <2>1. PICK r \in Requests, lock \in BOOLEAN :
          worker' = [phase |-> "begin", request |-> r,
                     state |-> IF lock THEN state ELSE "unknown"]
    BY <1>1 DEF Receive
  <2>2. /\ worker' \in [phase : {"receive", "begin", "queue"},
                        request : Requests \cup {None}, state : MissionStates]
        /\ worker'.request \in Requests
    BY <2>1 DEF PipelineTypeOK, MissionStates
  <2>3. frames' \in 0..MaxSends
    BY <1>1, QueueAssumption DEF Receive, PipelineTypeOK
  <2>4. QED BY <1>1, <2>2, <2>3 DEF Receive, PipelineTypeOK, queues
<1>2. CASE Decide
  <2>1. worker' \in {Waiting, [worker EXCEPT !.phase = "queue"]}
    BY <1>2 DEF Decide
  <2>2. worker.request \in Requests
    BY <1>2 DEF Decide, PipelineTypeOK
  <2>3. /\ worker' \in [phase : {"receive", "begin", "queue"},
                        request : Requests \cup {None}, state : MissionStates]
        /\ worker'.phase # "receive" => worker'.request \in Requests
    BY <2>1, <2>2, WaitingType DEF PipelineTypeOK
  <2>4. QED BY <1>2, <2>3 DEF Decide, PipelineTypeOK, queues, ground
<1>3. CASE Enqueue
  <2>1. worker' = Waiting /\ worker.request \in Requests
    BY <1>3 DEF Enqueue, PipelineTypeOK
  <2>2. /\ transitions' \in Seq(Requests)
        /\ Len(transitions') <= TransitionQueue
    <3>1. CASE UNCHANGED transitions
      BY <3>1 DEF PipelineTypeOK
    <3>2. CASE /\ Len(transitions) < TransitionQueue
               /\ transitions' = Append(transitions, worker.request)
      BY <2>1, <3>2, QueueTypes, QueueAssumption DEF PipelineTypeOK
    <3>3. QED BY <1>3, <3>1, <3>2 DEF Enqueue
  <2>3. /\ preparations' \in Seq(Requests)
        /\ Len(preparations') <= ParachuteQueue
    <3>1. CASE UNCHANGED preparations
      BY <3>1 DEF PipelineTypeOK
    <3>2. CASE /\ Len(preparations) < ParachuteQueue
               /\ preparations' = Append(preparations, worker.request)
      BY <2>1, <3>2, QueueTypes, QueueAssumption DEF PipelineTypeOK
    <3>3. QED BY <1>3, <3>1, <3>2 DEF Enqueue
  <2>4. QED
    BY <1>3, <2>1, <2>2, <2>3, WaitingType
    DEF Enqueue, PipelineTypeOK, ground
<1>4. QED BY <1>1, <1>2, <1>3

LEMMA EmergencyTypes ==
  ASSUME PipelineTypeOK, Emergency \/ HandleEmergency \/ TakeLatch
  PROVE  PipelineTypeOK'
<1>0. EmergencyQueue \in Nat /\ MaxEmergencies \in Nat
  BY QueueAssumption
<1>1. CASE Emergency
  <2>1. alarms' \in 0..MaxEmergencies /\ emergencies' \in 0..EmergencyQueue
    BY <1>0, <1>1 DEF Emergency, PipelineTypeOK
  <2>2. latch' \in BOOLEAN
    BY <1>1, Zenon DEF Emergency, PipelineTypeOK
  <2>3. QED BY <1>1, <2>1, <2>2 DEF Emergency, PipelineTypeOK, tasks
<1>2. CASE HandleEmergency
  <2>1. emergencies' \in 0..EmergencyQueue
    BY <1>0, <1>2 DEF HandleEmergency, PipelineTypeOK
  <2>2. holds' \in 0..HoldQueue
    BY <1>2, HoldType DEF HandleEmergency, PipelineTypeOK
  <2>3. mission' \in [start : Ids \cup {NoId}, fin : Ids \cup {NoId},
                     calibration : Ids \cup {NoId}]
    BY <1>2 DEF HandleEmergency, PipelineTypeOK
  <2>4. QED
    BY <1>2, <2>1, <2>2, <2>3 DEF HandleEmergency, PipelineTypeOK, ground
<1>3. CASE TakeLatch
  <2>1. emergencies' \in 0..EmergencyQueue
    BY <1>0, <1>3 DEF TakeLatch, PipelineTypeOK
  <2>2. latch' \in BOOLEAN
    BY <1>3, Zenon DEF TakeLatch
  <2>3. QED BY <1>3, <2>1, <2>2 DEF TakeLatch, PipelineTypeOK, tasks, ground
<1>4. QED BY <1>1, <1>2, <1>3

LEMMA MissionTypes ==
  ASSUME PipelineTypeOK,
         FinishStart \/ EndCalibration \/ EndFinMove \/ Flies
  PROVE  PipelineTypeOK'
<1>1. CASE FinishStart
  <2>1. responses' \in Seq(Ids) /\ Len(responses') <= 2
    BY <1>1, TailType DEF FinishStart, PipelineTypeOK
  <2>2. /\ mission' \in [start : Ids \cup {NoId}, fin : Ids \cup {NoId},
                         calibration : Ids \cup {NoId}]
        /\ state' \in MissionStates
    BY <1>1 DEF FinishStart, PipelineTypeOK, MissionStates
  <2>3. holds' \in 0..HoldQueue
    BY <1>1, HoldType DEF FinishStart, PipelineTypeOK
  <2>4. QED
    BY <1>1, <2>1, <2>2, <2>3 DEF FinishStart, PipelineTypeOK, ground
<1>2. CASE EndCalibration
  BY <1>2 DEF EndCalibration, PipelineTypeOK, ground, queues
<1>3. CASE EndFinMove
  BY <1>3 DEF EndFinMove, PipelineTypeOK, ground, queues
<1>4. CASE Flies
  BY <1>4 DEF Flies, PipelineTypeOK, ground, queues, tasks, MissionStates
<1>5. QED BY <1>1, <1>2, <1>3, <1>4

LEMMA TransitionTypes ==
  ASSUME PipelineTypeOK, Transition
  PROVE  PipelineTypeOK'
<1>1. transitions' \in Seq(Requests) /\ Len(transitions') <= TransitionQueue
  <2>1. TransitionQueue \in Nat
    BY QueueAssumption
  <2>2. transitions \in Seq(Requests) /\ transitions # <<>>
        /\ transitions' = Tail(transitions)
        /\ Len(transitions) <= TransitionQueue
    BY DEF Transition, PipelineTypeOK
  <2>3. QED BY <2>1, <2>2, TailType
<1>2. Head(transitions) \in Requests
  BY TailType DEF Transition, PipelineTypeOK
<1>3. mission' \in [start : Ids \cup {NoId}, fin : Ids \cup {NoId},
                   calibration : Ids \cup {NoId}]
  <2>1. mission' \in {mission, [mission EXCEPT !.fin = NoId],
                     [mission EXCEPT !.fin = Head(transitions).id],
                     [mission EXCEPT !.start = Head(transitions).id],
                     [mission EXCEPT !.calibration = Head(transitions).id]}
    BY DEF Transition
  <2>2. Head(transitions).id \in Ids
    BY <1>2 DEF Requests
  <2>3. QED BY <2>1, <2>2 DEF PipelineTypeOK
<1>4. /\ preparations' \in Seq(Requests)
      /\ Len(preparations') <= ParachuteQueue
  <2>1. CASE UNCHANGED preparations
    BY <2>1 DEF PipelineTypeOK
  <2>2. CASE /\ Len(preparations) < ParachuteQueue
             /\ preparations' = Append(preparations, Head(transitions))
    BY <1>2, <2>2, QueueTypes, QueueAssumption DEF PipelineTypeOK
  <2>3. PICK device \in BOOLEAN :
          \/ UNCHANGED preparations
          \/ /\ GoesOn(Head(transitions), device)
             /\ Head(transitions).command \in Starts
             /\ preparations' = Append(preparations, Head(transitions))
    BY DEF Transition
  <2>4. GoesOn(Head(transitions), device)
          /\ Head(transitions).command \in Starts
        => Len(preparations) < ParachuteQueue
    BY DEF GoesOn, Starting, Starts
  <2>5. QED BY <2>1, <2>2, <2>3, <2>4
<1>5. state' \in MissionStates /\ holds' \in 0..HoldQueue
  <2>1. /\ state' \in {state, "command_receive"}
        /\ Hold \/ UNCHANGED holds
    BY DEF Transition
  <2>2. QED BY <2>1, HoldType DEF PipelineTypeOK, MissionStates
<1>6. QED
  BY <1>1, <1>3, <1>4, <1>5 DEF Transition, PipelineTypeOK, ground

LEMMA ParachuteTypes ==
  ASSUME PipelineTypeOK, Flush \/ Drain \/ Drive
  PROVE  PipelineTypeOK'
<1> DEFINE Records ==
      [phase : {"flush", "drain", "take"}, operation : Ids \cup {NoId},
       moving : BOOLEAN, completion : Completions \cup {None},
       response : Ids \cup {NoId}]
<1>0. /\ parachute \in Records
      /\ parachute.moving => parachute.operation # NoId
  BY DEF PipelineTypeOK
<1>1. CASE Flush
  <2>1. PICK lock \in BOOLEAN :
          /\ responses' = IF parachute.response # NoId /\ Len(responses) < 2
                          THEN Append(responses, parachute.response)
                          ELSE responses
          /\ parachute' = [parachute EXCEPT
               !.phase = "drain",
               !.completion = IF lock THEN None ELSE parachute.completion,
               !.response = IF parachute.response # NoId /\ Len(responses) < 2
                            THEN NoId ELSE @]
    BY <1>1 DEF Flush
  <2>2. responses' \in Seq(Ids) /\ Len(responses') <= 2
    <3>1. CASE UNCHANGED responses
      BY <3>1 DEF PipelineTypeOK
    <3>2. CASE /\ parachute.response # NoId /\ Len(responses) < 2
               /\ responses' = Append(responses, parachute.response)
      BY <1>0, <3>2, QueueTypes DEF PipelineTypeOK
    <3>3. QED BY <2>1, <3>1, <3>2
  <2>3. parachute' \in Records
        /\ (parachute'.moving => parachute'.operation # NoId)
    BY <1>0, <2>1
  <2>4. QED BY <1>1, <2>2, <2>3 DEF Flush, PipelineTypeOK, ground
<1>2. CASE Drain
  <2>1. holds' \in 0..HoldQueue
    BY <1>2, QueueAssumption DEF Drain, PipelineTypeOK
  <2>2. parachute' \in Records
        /\ (parachute'.moving => parachute'.operation # NoId)
    BY <1>0, <1>2 DEF Drain
  <2>3. QED BY <1>2, <2>1, <2>2 DEF Drain, PipelineTypeOK, ground
<1>3. CASE Drive
  <2> DEFINE takes == Idle /\ preparations # <<>>
             p == IF takes THEN Taken(Head(preparations)) ELSE parachute
  <2>1. /\ preparations' = IF takes THEN Tail(preparations) ELSE preparations
        /\ \E q \in Driven(p) : parachute' = [q EXCEPT !.phase = "flush"]
    BY <1>3 DEF Drive
  <2>2. /\ preparations' \in Seq(Requests)
        /\ Len(preparations') <= ParachuteQueue
    <3>1. ParachuteQueue \in Nat
      BY QueueAssumption
    <3>2. QED BY <2>1, <3>1, TailType DEF PipelineTypeOK
  <2>3. p \in Records /\ (p.moving => p.operation # NoId)
    <3>1. CASE ~takes
      BY <1>0, <3>1
    <3>2. CASE takes
      <4>1. Head(preparations).id \in Ids
        <5>1. preparations \in Seq(Requests) /\ preparations # <<>>
          BY <3>2 DEF PipelineTypeOK
        <5>2. Head(preparations) \in Requests
          BY <5>1, TailType
        <5>3. QED BY <5>2 DEF Requests
      <4>2. ~parachute.moving
        BY <1>0, <3>2 DEF Idle
      <4>3. QED BY <1>0, <3>2, <4>1, <4>2 DEF Taken
    <3>3. QED BY <3>1, <3>2
  <2>4. /\ parachute' \in Records
        /\ parachute'.moving => parachute'.operation # NoId
    <3> HIDE DEF p, takes
    <3> DEFINE Ended(phase, reason) ==
          [p EXCEPT !.operation = NoId, !.moving = FALSE,
             !.completion = [id |-> p.operation, phase |-> phase,
                             reason |-> reason]]
    <3>1. PICK q \in Driven(p) : parachute' = [q EXCEPT !.phase = "flush"]
      BY <2>1
    <3>2. \/ q = p
          \/ /\ p.operation # NoId
             /\ \/ q = Ended("failed", "device_unavailable")
                \/ q = Ended("completed", "none")
                \/ q = [p EXCEPT !.moving = TRUE]
      BY <3>1 DEF Driven
    <3>3. q \in Records /\ (q.moving => q.operation # NoId)
      <4>1. "device_unavailable" \in Failures
        BY RuntimeAssumption
      <4>2. CASE q = p
        BY <2>3, <4>2
      <4>3. CASE /\ p.operation # NoId
                 /\ q = Ended("failed", "device_unavailable")
        <5>1. [id |-> p.operation, phase |-> "failed",
               reason |-> "device_unavailable"] \in Completions
          BY <2>3, <4>1, <4>3 DEF Completions
        <5>2. QED BY <2>3, <4>3, <5>1
      <4>4. CASE p.operation # NoId /\ q = Ended("completed", "none")
        <5>1. [id |-> p.operation, phase |-> "completed", reason |-> "none"]
                \in Completions
          BY <2>3, <4>4 DEF Completions
        <5>2. QED BY <2>3, <4>4, <5>1
      <4>5. CASE p.operation # NoId /\ q = [p EXCEPT !.moving = TRUE]
        BY <2>3, <4>5
      <4>6. QED BY <3>2, <4>2, <4>3, <4>4, <4>5
    <3>4. QED BY <3>1, <3>3
  <2>5. QED BY <1>3, <2>2, <2>4 DEF Drive, PipelineTypeOK, ground
<1>4. QED BY <1>1, <1>2, <1>3

LEMMA PipelineInitTypes ==
  ASSUME PipelineInit
  PROVE  PipelineTypeOK
<1>1. state \in MissionStates
  BY DEF PipelineInit, MissionStates
<1>2. /\ frames \in 0..MaxSends /\ alarms \in 0..MaxEmergencies
      /\ holds \in 0..HoldQueue /\ emergencies \in 0..EmergencyQueue
  BY QueueAssumption DEF PipelineInit
<1>3. latch \in BOOLEAN
  BY DEF PipelineInit
<1>4. /\ transitions \in Seq(Requests) /\ Len(transitions) <= TransitionQueue
      /\ preparations \in Seq(Requests)
      /\ Len(preparations) <= ParachuteQueue
      /\ responses \in Seq(Ids) /\ Len(responses) <= 2
  <2>1. /\ transitions = <<>> /\ preparations = <<>> /\ responses = <<>>
    BY DEF PipelineInit
  <2>2. TransitionQueue \in Nat /\ ParachuteQueue \in Nat
    BY QueueAssumption
  <2>3. QED BY <2>1, <2>2
<1>5. /\ worker \in [phase : {"receive", "begin", "queue"},
                     request : Requests \cup {None}, state : MissionStates]
      /\ worker.phase = "receive"
  BY WaitingType DEF PipelineInit, Waiting
<1>6. mission \in [start : Ids \cup {NoId}, fin : Ids \cup {NoId},
                   calibration : Ids \cup {NoId}]
  BY DEF PipelineInit
<1>7. /\ parachute \in [phase : {"flush", "drain", "take"},
                        operation : Ids \cup {NoId}, moving : BOOLEAN,
                        completion : Completions \cup {None},
                        response : Ids \cup {NoId}]
      /\ ~parachute.moving
  BY DEF PipelineInit
<1>8. QED
  BY <1>1, <1>2, <1>3, <1>4, <1>5, <1>6, <1>7 DEF PipelineTypeOK

-----------------------------------------------------------------------------
(* What the tasks hold has its type, and the queues keep their bounds.     *)
THEOREM PipelineTypeCorrect == PipelineSpec => []PipelineTypeOK
<1>1. PipelineInit => PipelineTypeOK
  BY PipelineInitTypes
<1>2. PipelineTypeOK /\ [PipelineNext]_vars => PipelineTypeOK'
  <2>1. CASE UNCHANGED vars
    BY <2>1 DEF PipelineTypeOK, vars, ground, tasks, queues
  <2>2. QED
    BY <2>1, WorkerTypes, EmergencyTypes, MissionTypes, TransitionTypes,
       ParachuteTypes DEF PipelineNext
<1>3. QED BY <1>1, <1>2, PTL DEF PipelineSpec

(* commandWorkerTask, missionRealtimeTask and parachuteTask together       *)
(* implement CommandExecutor: what they do to its cache and to the         *)
(* overtravel guard is a step of its specification, or none.               *)
THEOREM PipelineImplements == PipelineSpec => ImplementsExecutor
<1>1. PipelineInit => Init
  BY DEF PipelineInit
<1>2. PipelineTypeOK /\ [PipelineNext]_vars => [Next]_execVars
  BY PipelineStep
<1>3. QED
  BY <1>1, <1>2, PipelineTypeCorrect, PTL
  DEF PipelineSpec, ImplementsExecutor, Spec

(* Whatever the tasks do, no two of them carry out commands of one domain  *)
(* with both of them pending, and an accepted command keeps its entry      *)
(* until it has an outcome, which no later report changes.                 *)
THEOREM PipelineKeepsPromises ==
  PipelineSpec => []OnePendingPerDomain /\ AcceptedIsKept /\ OutcomeIsFinal
BY PipelineImplements, OnePendingTheorem, KeptTheorem, FinalTheorem, PTL
DEF ImplementsExecutor

-----------------------------------------------------------------------------
(* Who carries out what.  A task holds the command of an entry that is     *)
(* alive: pending, or ended by an emergency, which reaches the commands of *)
(* the fin and of the parachute only.                                      *)
Manual == {command \in Commands : DomainOf(command) = "parachute"}
Alive(e) ==
  \/ Pending(e)
  \/ /\ e.reason = "interrupted_by_emergency"
     /\ DomainOf(e.request.command) \in {"fin", "parachute"}
Carried(c, id, S) ==
  \E k \in DOMAIN c :
    /\ c[k].request.id = id /\ c[k].request.command \in S
    /\ Alive(c[k])

(* What an operation leaves of the entries of the commands of an id that   *)
(* are still alive.                                                        *)
Carries(c, d, id) ==
  \A S \in SUBSET Commands : Carried(c, id, S) => Carried(d, id, S)

(* A report touches the entry of its own id alone.                         *)
LEMMA FinishCarries ==
  ASSUME NEW c, Well(c), NEW x, NEW phase \in Outcomes,
         NEW reason \in Reasons, NEW id, id # x
  PROVE  Carries(c, Finish(c, x, phase, reason), id)
<1> DEFINE d == Finish(c, x, phase, reason)
<1>1. CASE Unfinished(c, x) = {}
  BY <1>1 DEF Finish, Carries
<1>2. CASE Unfinished(c, x) # {}
  <2> DEFINE k == CHOOSE i \in Unfinished(c, x) : TRUE
             e == [c[k] EXCEPT !.phase = phase, !.reason = reason]
  <2>1. k \in Unfinished(c, x)
    BY <1>2
  <2>2. k \in DOMAIN c /\ Pending(c[k]) /\ c[k].request.id = x
    BY <2>1 DEF Unfinished, Find
  <2>3. d = Append(RemoveAt(c, k), e)
    BY <1>2 DEF Finish, Settle
  <2> HIDE DEF k, d
  <2>4. /\ e \in Entries
        /\ \A j \in DOMAIN c \ {k} : Compatible(c[j], e)
    <3>1. /\ c[k] \in Entries
          /\ \A i, j \in DOMAIN c : i # j => Compatible(c[i], c[j])
      BY <2>2, LenProperties, ElementOfSeq DEF Well
    <3>2. /\ e \in Entries /\ e.request = c[k].request /\ ~Pending(e)
      BY <3>1 DEF Entries, Outcomes, Phases, Pending
    <3> HIDE DEF e
    <3>3. QED BY <2>2, <3>1, <3>2 DEF Compatible
  <2> HIDE DEF e
  <2>5. \A j \in DOMAIN c \ {k} : \E i \in DOMAIN d : d[i] = c[j]
    BY <2>2, <2>3, <2>4, ReplaceWell
  <2>6. Carries(c, d, id)
    BY <2>2, <2>5 DEF Carries, Carried
  <2>7. QED BY <2>6 DEF d
<1>3. QED BY <1>1, <1>2

LEMMA ReportCarries ==
  ASSUME ExecIInv, NEW x, NEW phase \in Outcomes, NEW reason \in Reasons,
         Report(x, phase, reason), NEW id, id # x
  PROVE  Carries(cache, cache', id)
BY FinishCarries DEF Report, ExecIInv

(* An emergency leaves the commands it ends alive.                         *)
LEMMA InterruptCarries ==
  ASSUME NEW c, Well(c), NEW domain \in {"fin", "parachute"}, NEW id
  PROVE  Carries(c, Interrupt(c, domain), id)
<1> DEFINE of == {k \in DOMAIN c : /\ Pending(c[k])
                                   /\ DomainOf(c[k].request.command) = domain}
           k == CHOOSE i \in of : TRUE
           e == [c[k] EXCEPT !.phase = "failed",
                             !.reason = "interrupted_by_emergency"]
           d == Interrupt(c, domain)
<1>1. CASE of = {}
  BY <1>1 DEF Interrupt, Carries
<1>2. CASE of # {}
  <2>1. k \in of
    BY <1>2
  <2>2. /\ k \in DOMAIN c /\ Pending(c[k])
        /\ DomainOf(c[k].request.command) = domain
    BY <2>1
  <2>3. d = Append(RemoveAt(c, k), e)
    BY <1>2 DEF Interrupt, Settle
  <2> HIDE DEF of, k, d
  <2>4. /\ e \in Entries /\ e.request = c[k].request
        /\ e.reason = "interrupted_by_emergency"
        /\ \A j \in DOMAIN c \ {k} : Compatible(c[j], e)
    <3>1. /\ c[k] \in Entries
          /\ \A i, j \in DOMAIN c : i # j => Compatible(c[i], c[j])
      BY <2>2, LenProperties, ElementOfSeq DEF Well
    <3>2. /\ e \in Entries /\ e.request = c[k].request /\ ~Pending(e)
          /\ e.reason = "interrupted_by_emergency"
      BY <3>1 DEF Entries, Phases, Reasons, Pending
    <3> HIDE DEF e
    <3>3. QED BY <2>2, <3>1, <3>2 DEF Compatible
  <2> HIDE DEF e
  <2>5. /\ \A j \in DOMAIN c \ {k} : \E i \in DOMAIN d : d[i] = c[j]
        /\ \E i \in DOMAIN d : d[i] = e
    BY <2>2, <2>3, <2>4, ReplaceWell
  <2>6. ASSUME NEW S \in SUBSET Commands, Carried(c, id, S)
        PROVE  Carried(d, id, S)
    <3>1. PICK j \in DOMAIN c : /\ c[j].request.id = id
                                /\ c[j].request.command \in S
                                /\ Alive(c[j])
      BY <2>6 DEF Carried
    <3>2. CASE j # k
      BY <2>5, <3>1, <3>2 DEF Carried
    <3>3. CASE j = k
      <4>1. e.request.id = id /\ e.request.command \in S /\ Alive(e)
        BY <2>2, <2>4, <3>1, <3>3 DEF Alive
      <4>2. QED BY <2>5, <4>1 DEF Carried
    <3>4. QED BY <3>2, <3>3
  <2>7. QED BY <2>6 DEF Carries, d
<1>3. QED BY <1>1, <1>2

LEMMA InterruptionsCarry ==
  ASSUME NEW c, Well(c), NEW d \in Interruptions(c), NEW id
  PROVE  Carries(c, d, id)
<1>1. \/ d = Interrupt(Interrupt(c, "fin"), "parachute")
      \/ d = Interrupt(Interrupt(c, "parachute"), "fin")
  BY DEF Interruptions
<1>2. ASSUME NEW one \in {"fin", "parachute"},
             NEW two \in {"fin", "parachute"},
             d = Interrupt(Interrupt(c, one), two)
      PROVE  Carries(c, d, id)
  <2>1. Carries(c, Interrupt(c, one), id) /\ Well(Interrupt(c, one))
    BY InterruptCarries, InterruptWell
  <2>2. Carries(Interrupt(c, one), d, id)
    BY <1>2, <2>1, InterruptCarries
  <2>3. QED BY <2>1, <2>2 DEF Carries
<1>3. QED BY <1>1, <1>2

(* A new entry: the others stay, but for one that may have to go.          *)
LEMMA RememberCarries ==
  ASSUME NEW c, Well(c), NEW e \in Entries,
         \A k \in DOMAIN c : Compatible(c[k], e),
         NEW id, id # e.request.id, Find(Remember(c, e), id) # {}
  PROVE  Carries(c, Remember(c, e), id)
<1> DEFINE d == Remember(c, e)
<1>0. /\ c \in Seq(Entries) /\ Len(c) \in Nat /\ DOMAIN c = 1..Len(c)
      /\ \A i, j \in DOMAIN c : i # j => Compatible(c[i], c[j])
  BY LenProperties DEF Well
<1>1. CASE Len(c) < CacheSize
  <2>1. d = Append(c, e)
    BY <1>1 DEF Remember
  <2>2. \A i \in DOMAIN c : i \in DOMAIN d /\ d[i] = c[i]
    BY <1>0, <2>1, AppendFacts
  <2> HIDE DEF d
  <2>3. QED BY <2>2 DEF Carries, Carried, d
<1>2. CASE ~(Len(c) < CacheSize) /\ Settled(c) = {}
  BY <1>2 DEF Remember, Carries
<1>3. CASE ~(Len(c) < CacheSize) /\ Settled(c) # {}
  <2> DEFINE k == Min(Settled(c))
  <2>1. d = Append(RemoveAt(c, k), e)
    BY <1>3 DEF Remember
  <2>2. k \in DOMAIN c
    <3>1. Settled(c) \in SUBSET Nat
      BY <1>0 DEF Settled
    <3>2. k \in Settled(c)
      BY <1>3, <3>1, MinFacts
    <3>3. QED BY <3>2 DEF Settled
  <2> HIDE DEF k
  <2>3. \A j \in DOMAIN c \ {k} : Compatible(c[j], e)
    OBVIOUS
  <2>4. /\ \A i \in DOMAIN d :
             d[i] = e \/ \E j \in DOMAIN c : j # k /\ d[i] = c[j]
        /\ \A j \in DOMAIN c \ {k} : \E i \in DOMAIN d : d[i] = c[j]
    BY <2>1, <2>2, <2>3, ReplaceWell
  <2>5. Find(d, id) # {}
    OBVIOUS
  <2> HIDE DEF d
  <2>6. PICK i \in DOMAIN d : d[i].request.id = id
    BY <2>5 DEF Find
  <2>7. PICK j \in DOMAIN c : j # k /\ d[i] = c[j]
    BY <2>4, <2>6
  <2>8. c[k].request.id # id
    BY <1>0, <2>2, <2>6, <2>7 DEF Compatible
  <2>9. QED BY <2>4, <2>8 DEF Carries, Carried, d
<1>4. QED BY <1>1, <1>2, <1>3

(* begin leaves the cache, or remembers an entry of an id that was not     *)
(* known; what it accepts is alive.                                        *)
LEMMA BeginCases ==
  ASSUME NEW c, Well(c), NEW g, NEW ctx, NEW r \in Requests
  PROVE  \/ /\ Begin(c, g, r, ctx).cache = c
            /\ Begin(c, g, r, ctx).execute = FALSE
         \/ \E e \in Entries :
              /\ e.request = r /\ Find(c, r.id) = {}
              /\ \A k \in DOMAIN c : Compatible(c[k], e)
              /\ Begin(c, g, r, ctx).cache = Remember(c, e)
              /\ Begin(c, g, r, ctx).execute =>
                   Carried(Begin(c, g, r, ctx).cache, r.id, {r.command})
<1> DEFINE d == Begin(c, g, r, ctx)
           refusals == Refusals(r, ctx, Recover(g, ctx.state).latched, c)
           refused == {i \in DOMAIN refusals : refusals[i].when}
           reason == refusals[Min(refused)].reason
           accepted == [request |-> r, phase |-> "accepted",
                        reason |-> "none"]
           rejected == [request |-> r, phase |-> "rejected",
                        reason |-> reason]
<1>0. /\ r.id # NoId /\ r \in [id : Ids \cup {NoId}, command : Commands,
                               args : Payloads]
      /\ c \in Seq(Entries)
  BY RequestAssumption DEF Requests, Well
<1>1. CASE Find(c, r.id) # {}
  <2>1. d.cache = c /\ d.execute = FALSE
    <3> DEFINE e == c[CHOOSE k \in Find(c, r.id) : TRUE]
    <3>1. CASE e.request = r
      BY <1>0, <1>1, <3>1 DEF Begin
    <3>2. CASE e.request # r
      BY <1>0, <1>1, <3>2 DEF Begin
    <3>3. QED BY <3>1, <3>2
  <2>2. QED BY <2>1
<1>3. CASE Find(c, r.id) = {} /\ refused = {}
  <2>1. d.cache = Remember(c, accepted)
    BY <1>0, <1>3 DEF Begin
  <2>2. /\ accepted \in Entries /\ accepted.request = r
        /\ accepted.request.id = r.id /\ accepted.request.command = r.command
        /\ Alive(accepted)
    BY <1>0 DEF Entries, Phases, Reasons, Alive, Pending
  <2>3. \A i \in 1..14 : ~refusals[i].when
    BY <1>3, RefusalsFacts
  <2> HIDE DEF refusals, refused, accepted
  <2>4. \A k \in DOMAIN c : Compatible(c[k], accepted)
    BY <1>3, <2>2, <2>3, AcceptedFits DEF refusals
  <2>5. ~Busy(c, DomainOf(r.command)) /\ r.command \in Commands
    BY <1>0, <2>3, RefusalsFacts DEF refusals
  <2>6. \E k \in DOMAIN d.cache : d.cache[k] = accepted
    BY <2>1, <2>2, <2>4, <2>5, RoomForOne, RememberWell
  <2> HIDE DEF d
  <2>7. Carried(d.cache, r.id, {r.command})
    BY <2>2, <2>6 DEF Carried
  <2>8. QED BY <1>3, <2>1, <2>2, <2>4, <2>7 DEF d
<1>4. CASE Find(c, r.id) = {} /\ refused # {}
  <2>1. d.cache = Remember(c, rejected) /\ ~d.execute
    <3> HIDE DEF reason
    <3>1. d = [phase |-> "rejected", reason |-> reason,
               execute |-> "rejected" = "accepted",
               cache |-> Remember(c, rejected),
               guard |-> Recover(g, ctx.state)]
      BY <1>0, <1>4 DEF Begin, reason
    <3> HIDE DEF d, rejected
    <3>2. d.cache = Remember(c, rejected)
      BY <3>1
    <3>3. d.execute = ("rejected" = "accepted")
      BY <3>1
    <3>4. QED BY <3>2, <3>3
  <2>2. reason \in Reasons
    <3>1. DOMAIN refusals = 1..14
          /\ \A i \in 1..14 : refusals[i].reason \in Reasons
      BY RefusalsFacts
    <3>2. refused \in SUBSET Nat /\ refused \subseteq 1..14
      BY <3>1
    <3> HIDE DEF refusals
    <3>3. Min(refused) \in refused
      <4> HIDE DEF refused
      <4>1. QED BY <3>2, <1>4, MinFacts
    <3>4. QED BY <3>1, <3>2, <3>3
  <2> HIDE DEF reason
  <2>3. rejected \in Entries /\ rejected.request = r /\ ~Pending(rejected)
    BY <1>0, <2>2 DEF Entries, Phases, Pending
  <2> HIDE DEF rejected
  <2>4. \A k \in DOMAIN c : Compatible(c[k], rejected)
    BY <1>4, <2>3 DEF Compatible, Find
  <2> HIDE DEF d
  <2>5. QED BY <1>4, <2>1, <2>3, <2>4 DEF d
<1>5. QED BY <1>1, <1>3, <1>4

(* An id whose entry begin does not evict keeps it.                        *)
LEMMA BeginCarries ==
  ASSUME NEW c, Well(c), NEW g, NEW ctx, NEW r \in Requests
  PROVE  LET decision == Begin(c, g, r, ctx) IN
         /\ \A id : Find(decision.cache, id) # {} =>
              Carries(c, decision.cache, id)
         /\ decision.execute => /\ Find(c, r.id) = {}
                                /\ Carried(decision.cache, r.id, {r.command})
<1> DEFINE d == Begin(c, g, r, ctx)
<1> HIDE DEF d
<1>1. ASSUME d.cache = c, d.execute = FALSE
      PROVE  /\ \A id : Find(d.cache, id) # {} => Carries(c, d.cache, id)
             /\ d.execute => /\ Find(c, r.id) = {}
                             /\ Carried(d.cache, r.id, {r.command})
  BY <1>1 DEF Carries
<1>2. ASSUME NEW e \in Entries, e.request = r, Find(c, r.id) = {},
             \A k \in DOMAIN c : Compatible(c[k], e), d.cache = Remember(c, e),
             d.execute => Carried(d.cache, r.id, {r.command})
      PROVE  /\ \A id : Find(d.cache, id) # {} => Carries(c, d.cache, id)
             /\ d.execute => /\ Find(c, r.id) = {}
                             /\ Carried(d.cache, r.id, {r.command})
  <2>1. ASSUME NEW id, Find(d.cache, id) # {}
        PROVE  Carries(c, d.cache, id)
    <3>1. CASE id # r.id
      BY <1>2, <2>1, <3>1, RememberCarries
    <3>2. CASE id = r.id
      BY <1>2, <3>2 DEF Carries, Carried, Find
    <3>3. QED BY <2>1, <3>1, <3>2
  <2>2. QED BY <1>2, <2>1
<1>3. \/ d.cache = c /\ d.execute = FALSE
      \/ \E e \in Entries :
           /\ e.request = r /\ Find(c, r.id) = {}
           /\ \A k \in DOMAIN c : Compatible(c[k], e)
           /\ d.cache = Remember(c, e)
           /\ d.execute => Carried(d.cache, r.id, {r.command})
  BY BeginCases DEF d
<1>4. /\ \A id : Find(d.cache, id) # {} => Carries(c, d.cache, id)
      /\ d.execute => /\ Find(c, r.id) = {}
                      /\ Carried(d.cache, r.id, {r.command})
  BY <1>1, <1>2, <1>3
<1>5. QED BY <1>4 DEF d

(* With room in the cache it evicts nothing.                               *)
LEMMA BeginRoom ==
  ASSUME NEW c, Well(c), Len(c) < CacheSize, NEW g, NEW ctx,
         NEW r \in Requests
  PROVE  /\ Len(Begin(c, g, r, ctx).cache) \in {Len(c), Len(c) + 1}
         /\ Present(c, Begin(c, g, r, ctx).cache)
<1> DEFINE d == Begin(c, g, r, ctx).cache
           decision == Begin(c, g, r, ctx)
<1>1. d = c \/ \E e \in Entries : d = Remember(c, e)
  <2> HIDE DEF decision
  <2>1. \/ decision.cache = c /\ decision.execute = FALSE
        \/ \E e \in Entries :
             /\ e.request = r /\ Find(c, r.id) = {}
             /\ \A k \in DOMAIN c : Compatible(c[k], e)
             /\ decision.cache = Remember(c, e)
             /\ decision.execute =>
                  Carried(decision.cache, r.id, {r.command})
    BY BeginCases DEF decision
  <2>2. d = decision.cache
    BY DEF decision
  <2> HIDE DEF d
  <2>3. QED BY <2>1, <2>2
<1> HIDE DEF d
<1>2. CASE d = c
  <2>1. Len(d) \in {Len(c), Len(c) + 1} /\ Present(c, d)
    BY <1>2, UnchangedWell
  <2>2. QED BY <2>1 DEF d
<1>3. CASE \E e \in Entries : d = Remember(c, e)
  <2>1. PICK e \in Entries : d = Append(c, e)
    BY <1>3 DEF Remember
  <2>2. /\ Len(d) = Len(c) + 1
        /\ \A i \in DOMAIN c : i \in DOMAIN d /\ d[i] = c[i]
    BY <2>1, AppendFacts DEF Well
  <2>3. Len(d) \in {Len(c), Len(c) + 1} /\ Present(c, d)
    BY <2>2 DEF Present
  <2>4. QED BY <2>3 DEF d
<1>4. QED BY <1>1, <1>2, <1>3

-----------------------------------------------------------------------------
(* The queues: an id waits once, among the commands that S is about.       *)
Waits(q, S, id) ==
  \E k \in DOMAIN q : q[k].id = id /\ q[k].command \in S
Distinct(q, S) ==
  \A j, k \in DOMAIN q :
    /\ q[j].command \in S /\ q[k].command \in S
    /\ q[j].id = q[k].id
    => j = k

LEMMA TailDistinct ==
  ASSUME NEW q \in Seq(Requests), q # <<>>, NEW S, Distinct(q, S)
  PROVE  /\ Distinct(Tail(q), S)
         /\ \A id : Waits(Tail(q), S, id) => Waits(q, S, id)
         /\ Head(q).command \in S =>
              Waits(q, S, Head(q).id) /\ ~Waits(Tail(q), S, Head(q).id)
         /\ \A k \in DOMAIN Tail(q) : \E j \in DOMAIN q : Tail(q)[k] = q[j]
         /\ \E j \in DOMAIN q : Head(q) = q[j]
<1>1. /\ Len(q) \in Nat \ {0} /\ DOMAIN q = 1..Len(q)
      /\ DOMAIN Tail(q) = 1..(Len(q) - 1) /\ Head(q) = q[1]
      /\ \A k \in DOMAIN Tail(q) : Tail(q)[k] = q[k + 1]
  OBVIOUS
<1>2. /\ 1 \in DOMAIN q
      /\ \A k \in DOMAIN Tail(q) : k + 1 \in DOMAIN q /\ k + 1 # 1
      /\ \A j, k \in DOMAIN Tail(q) : j + 1 = k + 1 => j = k
  BY <1>1
<1>3. Distinct(Tail(q), S)
  BY <1>1, <1>2 DEF Distinct
<1>4. \A id : Waits(Tail(q), S, id) => Waits(q, S, id)
  BY <1>1, <1>2 DEF Waits
<1>5. ASSUME Head(q).command \in S
      PROVE  Waits(q, S, Head(q).id) /\ ~Waits(Tail(q), S, Head(q).id)
  BY <1>1, <1>2, <1>5 DEF Waits, Distinct
<1>6. QED BY <1>1, <1>2, <1>3, <1>4, <1>5

LEMMA AppendDistinct ==
  ASSUME NEW q \in Seq(Requests), NEW r \in Requests, NEW S, Distinct(q, S)
  PROVE  /\ r.command \notin S \/ ~Waits(q, S, r.id) =>
              Distinct(Append(q, r), S)
         /\ \A id : Waits(Append(q, r), S, id) <=>
              Waits(q, S, id) \/ (r.id = id /\ r.command \in S)
         /\ \A k \in DOMAIN Append(q, r) :
              Append(q, r)[k] = r \/ \E j \in DOMAIN q : Append(q, r)[k] = q[j]
<1> DEFINE a == Append(q, r)
           n == Len(q) + 1
<1>1. /\ n \in Nat /\ DOMAIN a = DOMAIN q \cup {n} /\ n \notin DOMAIN q
      /\ a[n] = r /\ \A k \in DOMAIN q : a[k] = q[k]
  OBVIOUS
<1> HIDE DEF a, n
<1>2. \A id : Waits(a, S, id) <=>
        Waits(q, S, id) \/ (r.id = id /\ r.command \in S)
  BY <1>1 DEF Waits
<1>3. ASSUME r.command \notin S \/ ~Waits(q, S, r.id)
      PROVE  Distinct(a, S)
  BY <1>1, <1>3 DEF Waits, Distinct
<1>4. \A k \in DOMAIN a : a[k] = r \/ \E j \in DOMAIN q : a[k] = q[j]
  BY <1>1
<1>5. QED BY <1>2, <1>3, <1>4 DEF a

-----------------------------------------------------------------------------
(* The places of an id, one by one.                                        *)
Places == {"worker", "transitions", "preparations", "start", "fin",
           "calibration", "operation", "completion"}
OwnersAre(id) ==
  /\ Owners(id) \subseteq Places
  /\ "worker" \in Owners(id) <=>
       worker.phase = "queue" /\ worker.request.id = id
  /\ "transitions" \in Owners(id) <=> Waits(transitions, Commands, id)
  /\ "preparations" \in Owners(id) <=> Waits(preparations, Manual, id)
  /\ "start" \in Owners(id) <=> mission.start = id
  /\ "fin" \in Owners(id) <=> mission.fin = id
  /\ "calibration" \in Owners(id) <=> mission.calibration = id
  /\ "operation" \in Owners(id) <=> parachute.operation = id
  /\ "completion" \in Owners(id) <=> parachute.completion.id = id

(* A command is in one place, once in a queue, and its entry is alive; the *)
(* queue of parachuteTask has Starts and the commands of the parachute.    *)
Single == \A id \in Ids : \A p, q \in Owners(id) : p = q
Queued ==
  Distinct(transitions, Commands) /\ Distinct(preparations, Manual)
WorkerCarries ==
  worker.phase = "queue" =>
    Carried(cache, worker.request.id, {worker.request.command})
QueuesCarry ==
  /\ \A k \in DOMAIN transitions :
       Carried(cache, transitions[k].id, {transitions[k].command})
  /\ \A k \in DOMAIN preparations :
       \/ preparations[k].command \in Starts
       \/ /\ preparations[k].command \in Manual
          /\ Carried(cache, preparations[k].id, {preparations[k].command})
MissionCarries ==
  /\ mission.start # NoId => Carried(cache, mission.start, Starts)
  /\ mission.fin # NoId => Carried(cache, mission.fin, Commands)
  /\ mission.calibration # NoId =>
       Carried(cache, mission.calibration, Commands)
ParachuteCarries ==
  /\ parachute.operation # NoId =>
       Carried(cache, parachute.operation, Manual)
  /\ parachute.completion.id # NoId =>
       Carried(cache, parachute.completion.id, Manual)
Owning ==
  /\ Single /\ Queued
  /\ WorkerCarries /\ QueuesCarry /\ MissionCarries /\ ParachuteCarries

LEMMA StartsAreNotManual ==
  /\ \A r : r.command \in Starts => ~ForParachute(r) /\ r.command \notin Manual
  /\ \A r \in Requests : ForParachute(r) <=> r.command \in Manual
  /\ \A r \in Requests : r.command \in Commands /\ r.id \in Ids
  /\ Manual \subseteq Commands
BY DomainFacts DEF ForParachute, Manual, Requests

LEMMA PlacesOf ==
  ASSUME PipelineTypeOK, NEW id
  PROVE  OwnersAre(id)
<1>1. /\ \A k \in DOMAIN transitions : transitions[k].command \in Commands
      /\ \A k \in DOMAIN preparations :
           ForParachute(preparations[k]) <=> preparations[k].command \in Manual
  <2>1. /\ \A k \in DOMAIN transitions : transitions[k] \in Requests
        /\ \A k \in DOMAIN preparations : preparations[k] \in Requests
    BY DEF PipelineTypeOK
  <2>2. QED BY <2>1, StartsAreNotManual
<1>2. QED BY <1>1 DEF OwnersAre, Owners, Places, Waits

(* The same of the next state.                                             *)
LEMMA PlacesThen ==
  ASSUME PipelineTypeOK', NEW id
  PROVE  OwnersAre(id)'
<1>1. /\ \A k \in DOMAIN transitions' : transitions'[k].command \in Commands
      /\ \A k \in DOMAIN preparations' :
           ForParachute(preparations'[k])
             <=> preparations'[k].command \in Manual
  <2>1. /\ \A k \in DOMAIN transitions' : transitions'[k] \in Requests
        /\ \A k \in DOMAIN preparations' : preparations'[k] \in Requests
    BY DEF PipelineTypeOK
  <2>2. QED BY <2>1, StartsAreNotManual
<1>2. QED BY <1>1 DEF OwnersAre, Owners, Places, Waits

(* What every step has to do: an id is in a place it was in before, or has *)
(* arrived there with an entry that is alive.                              *)
Arrived(p, id) ==
  /\ Carried(cache', id, Commands)
  /\ p = "start" => Carried(cache', id, Starts)
  /\ p \in {"operation", "completion"} => Carried(cache', id, Manual)
CarriesOn ==
  \A id \in Ids : Owners(id)' # {} => Carries(cache, cache', id)

LEMMA CarriedMore ==
  ASSUME NEW c, NEW id, NEW S, NEW T, S \subseteq T, Carried(c, id, S)
  PROVE  Carried(c, id, T)
BY DEF Carried

(* The entry of a Start is one of the ground's commands.                   *)
LEMMA CarriedStart ==
  ASSUME NEW c, Well(c), NEW id, NEW S
  PROVE  Carried(c, id, S) <=> Carried(c, id, S \cap Commands)
<1>1. \A k \in DOMAIN c : c[k].request.command \in Commands
  <2>1. \A k \in DOMAIN c : c[k] \in Entries
    BY LenProperties, ElementOfSeq DEF Well
  <2>2. QED BY <2>1 DEF Entries, Requests
<1>2. QED BY <1>1 DEF Carried

LEMMA OwningStep ==
  ASSUME PipelineTypeOK, PipelineTypeOK', ExecIInv, ExecIInv', Owning,
         CarriesOn,
         \A id \in Ids : \A p \in Owners(id)' :
           p \in Owners(id) \/ Arrived(p, id),
         \A k \in DOMAIN transitions' :
           \/ \E j \in DOMAIN transitions : transitions'[k] = transitions[j]
           \/ Carried(cache', transitions'[k].id, {transitions'[k].command}),
         \A k \in DOMAIN preparations' :
           \/ \E j \in DOMAIN preparations : preparations'[k] = preparations[j]
           \/ preparations'[k].command \in Starts
           \/ /\ preparations'[k].command \in Manual
              /\ Carried(cache', preparations'[k].id,
                         {preparations'[k].command}),
         WorkerCarries', Queued', Single'
  PROVE  Owning'
<1>0. /\ \A id : OwnersAre(id) /\ OwnersAre(id)'
      /\ \A r \in Requests : r.id \in Ids /\ r.command \in Commands
      /\ Manual \in SUBSET Commands /\ Commands \in SUBSET Commands
  BY PlacesOf, PlacesThen, StartsAreNotManual
<1>1. QueuesCarry'
  <2>1. ASSUME NEW k \in DOMAIN transitions'
        PROVE  Carried(cache', transitions'[k].id, {transitions'[k].command})
    <3>1. SUFFICES ASSUME NEW j \in DOMAIN transitions,
                          transitions'[k] = transitions[j]
                   PROVE  Carried(cache', transitions[j].id,
                                  {transitions[j].command})
      BY <2>1
    <3>2. transitions[j] \in Requests
      BY DEF PipelineTypeOK
    <3>3. PICK id \in Ids : id = transitions[j].id
      BY <1>0, <3>2
    <3>4. "transitions" \in Owners(id)'
      BY <1>0, <3>1, <3>2, <3>3 DEF OwnersAre, Waits
    <3>5. Carried(cache, id, {transitions[j].command})
      BY <3>3 DEF Owning, QueuesCarry
    <3>6. QED BY <1>0, <3>2, <3>3, <3>4, <3>5 DEF CarriesOn, Carries
  <2>2. ASSUME NEW k \in DOMAIN preparations'
        PROVE  \/ preparations'[k].command \in Starts
               \/ /\ preparations'[k].command \in Manual
                  /\ Carried(cache', preparations'[k].id,
                             {preparations'[k].command})
    <3>1. SUFFICES ASSUME NEW j \in DOMAIN preparations,
                          preparations'[k] = preparations[j],
                          preparations[j].command \notin Starts
                   PROVE  /\ preparations[j].command \in Manual
                          /\ Carried(cache', preparations[j].id,
                                     {preparations[j].command})
      BY <2>2
    <3>2. preparations[j] \in Requests
      BY DEF PipelineTypeOK
    <3>3. /\ preparations[j].command \in Manual
          /\ Carried(cache, preparations[j].id, {preparations[j].command})
      BY <3>1 DEF Owning, QueuesCarry
    <3>4. PICK id \in Ids : id = preparations[j].id
      BY <1>0, <3>2
    <3>5. "preparations" \in Owners(id)'
      BY <1>0, <3>1, <3>2, <3>3, <3>4 DEF OwnersAre, Waits
    <3>6. QED BY <1>0, <3>2, <3>3, <3>4, <3>5 DEF CarriesOn, Carries
  <2>3. QED BY <2>1, <2>2 DEF QueuesCarry
<1>2. MissionCarries'
  <2>1. mission' \in [start : Ids \cup {NoId}, fin : Ids \cup {NoId},
                      calibration : Ids \cup {NoId}]
    BY DEF PipelineTypeOK
  <2>2. ASSUME NEW id \in Ids, "start" \in Owners(id)'
        PROVE  Carried(cache', id, Starts)
    <3>1. CASE Arrived("start", id)
      BY <3>1 DEF Arrived
    <3>2. CASE "start" \in Owners(id)
      <4>1. id # NoId
        BY RequestAssumption
      <4>2. Carried(cache, id, Starts)
        BY <1>0, <3>2, <4>1 DEF OwnersAre, Owning, MissionCarries
      <4>3. Carried(cache, id, Starts \cap Commands)
        BY <4>2, CarriedStart DEF ExecIInv
      <4>4. Carried(cache', id, Starts \cap Commands)
        BY <2>2, <4>3 DEF CarriesOn, Carries
      <4>5. QED BY <4>4, CarriedMore
    <3>3. QED BY <2>2, <3>1, <3>2
  <2>3. ASSUME NEW id \in Ids, NEW p \in {"fin", "calibration"},
               p \in Owners(id)'
        PROVE  Carried(cache', id, Commands)
    <3>1. CASE Arrived(p, id)
      BY <3>1 DEF Arrived
    <3>2. CASE p \in Owners(id)
      <4>1. id # NoId
        BY RequestAssumption
      <4>2. Carried(cache, id, Commands)
        BY <1>0, <3>2, <4>1 DEF OwnersAre, Owning, MissionCarries
      <4>3. QED BY <1>0, <2>3, <4>2 DEF CarriesOn, Carries
    <3>3. QED BY <2>3, <3>1, <3>2
  <2>4. QED BY <1>0, <2>1, <2>2, <2>3 DEF OwnersAre, MissionCarries
<1>3. ParachuteCarries'
  <2>1. /\ parachute'.operation \in Ids \cup {NoId}
        /\ parachute'.completion.id \in Ids \cup {NoId}
    <3>1. /\ parachute'.operation \in Ids \cup {NoId}
          /\ parachute'.completion \in Completions \cup {None}
      BY DEF PipelineTypeOK
    <3>2. \A c \in Completions : c.id \in Ids
      BY NoneIsNoCompletion
    <3>3. None.id = NoId
      BY DEF None
    <3>4. QED BY <3>1, <3>2, <3>3
  <2>2. ASSUME NEW id \in Ids, NEW p \in {"operation", "completion"},
               p \in Owners(id)'
        PROVE  Carried(cache', id, Manual)
    <3>1. CASE Arrived(p, id)
      BY <3>1 DEF Arrived
    <3>2. CASE p \in Owners(id)
      <4>1. id # NoId
        BY RequestAssumption
      <4>2. Carried(cache, id, Manual)
        BY <1>0, <3>2, <4>1 DEF OwnersAre, Owning, ParachuteCarries
      <4>3. QED BY <1>0, <2>2, <4>2 DEF CarriesOn, Carries
    <3>3. QED BY <2>2, <3>1, <3>2
  <2>3. QED BY <1>0, <2>1, <2>2 DEF OwnersAre, ParachuteCarries
<1>4. QED BY <1>1, <1>2, <1>3 DEF Owning

(* A command that leaves a place, or goes on to another.                   *)
LEMMA MovedSingle ==
  ASSUME Single, NEW x \in Ids, NEW a, NEW b,
         a \in Owners(x) \/ Owners(x) = {},
         Owners(x)' \subseteq (Owners(x) \ {a}) \cup {b},
         \A id \in Ids \ {x} : Owners(id)' \subseteq Owners(id)
  PROVE  Single'
BY DEF Single

LEMMA FewerStep ==
  ASSUME PipelineTypeOK, PipelineTypeOK', ExecIInv, ExecIInv', Owning,
         CarriesOn,
         \A id \in Ids : Owners(id)' \subseteq Owners(id),
         Queued',
         \A k \in DOMAIN transitions' :
           \E j \in DOMAIN transitions : transitions'[k] = transitions[j],
         \A k \in DOMAIN preparations' :
           \E j \in DOMAIN preparations : preparations'[k] = preparations[j],
         worker'.phase = "queue" => UNCHANGED worker
  PROVE  Owning'
<1>1. Single'
  BY DEF Owning, Single
<1>2. WorkerCarries'
  <2>1. SUFFICES ASSUME worker'.phase = "queue"
                 PROVE  Carried(cache', worker'.request.id,
                                {worker'.request.command})
    BY DEF WorkerCarries
  <2>2. UNCHANGED worker /\ worker.phase = "queue"
    BY <2>1
  <2>3. worker.request \in Requests
    BY <2>2 DEF PipelineTypeOK
  <2>4. /\ worker.request.id \in Ids
        /\ {worker.request.command} \in SUBSET Commands
    BY <2>3, StartsAreNotManual
  <2>5. PICK id \in Ids : id = worker.request.id
    BY <2>4
  <2>6. "worker" \in Owners(id)'
    BY <2>2, <2>5, PlacesThen DEF OwnersAre
  <2>7. Carried(cache, id, {worker.request.command})
    BY <2>2, <2>5 DEF Owning, WorkerCarries
  <2>8. QED BY <2>2, <2>4, <2>5, <2>6, <2>7 DEF CarriesOn, Carries
<1>3. QED BY <1>1, <1>2, OwningStep

(* Steps by which no command arrives anywhere.                             *)
Lessens ==
  /\ \/ UNCHANGED transitions
     \/ transitions # <<>> /\ transitions' = Tail(transitions)
  /\ \/ UNCHANGED preparations
     \/ preparations # <<>> /\ preparations' = Tail(preparations)
  /\ worker'.phase = "queue" => UNCHANGED worker
  /\ mission'.start \in {mission.start, NoId}
  /\ mission'.fin \in {mission.fin, NoId}
  /\ mission'.calibration \in {mission.calibration, NoId}
  /\ parachute'.operation \in {parachute.operation, NoId}
  /\ parachute'.completion.id \in {parachute.completion.id, NoId}

LEMMA QueuesLessen ==
  ASSUME PipelineTypeOK, Owning,
         \/ UNCHANGED transitions
         \/ transitions # <<>> /\ transitions' = Tail(transitions),
         \/ UNCHANGED preparations
         \/ preparations # <<>> /\ preparations' = Tail(preparations)
  PROVE  /\ Queued'
         /\ \A id : Waits(transitions, Commands, id)'
                      => Waits(transitions, Commands, id)
         /\ \A id : Waits(preparations, Manual, id)'
                      => Waits(preparations, Manual, id)
         /\ \A k \in DOMAIN transitions' :
              \E j \in DOMAIN transitions : transitions'[k] = transitions[j]
         /\ \A k \in DOMAIN preparations' :
              \E j \in DOMAIN preparations : preparations'[k] = preparations[j]
<1>0. /\ transitions \in Seq(Requests) /\ preparations \in Seq(Requests)
      /\ Distinct(transitions, Commands) /\ Distinct(preparations, Manual)
  BY DEF PipelineTypeOK, Owning, Queued
<1>1. /\ Distinct(transitions', Commands)
      /\ \A id : Waits(transitions', Commands, id)
                   => Waits(transitions, Commands, id)
      /\ \A k \in DOMAIN transitions' :
           \E j \in DOMAIN transitions : transitions'[k] = transitions[j]
  <2>1. CASE UNCHANGED transitions
    BY <1>0, <2>1
  <2>2. CASE transitions # <<>> /\ transitions' = Tail(transitions)
    BY <1>0, <2>2, TailDistinct
  <2>3. QED BY <2>1, <2>2
<1>2. /\ Distinct(preparations', Manual)
      /\ \A id : Waits(preparations', Manual, id)
                   => Waits(preparations, Manual, id)
      /\ \A k \in DOMAIN preparations' :
           \E j \in DOMAIN preparations : preparations'[k] = preparations[j]
  <2>1. CASE UNCHANGED preparations
    BY <1>0, <2>1
  <2>2. CASE preparations # <<>> /\ preparations' = Tail(preparations)
    BY <1>0, <2>2, TailDistinct
  <2>3. QED BY <2>1, <2>2
<1>3. Manual' = Manual
  BY DEF Manual
<1>4. QED BY <1>1, <1>2, <1>3 DEF Queued

LEMMA LessensOwners ==
  ASSUME PipelineTypeOK, PipelineTypeOK', Owning, Lessens, NEW id \in Ids
  PROVE  Owners(id)' \subseteq Owners(id)
<1>1. OwnersAre(id) /\ OwnersAre(id)' /\ id # NoId
  BY PlacesOf, PlacesThen, RequestAssumption
<1>2. /\ Waits(transitions, Commands, id)' => Waits(transitions, Commands, id)
      /\ Waits(preparations, Manual, id)' => Waits(preparations, Manual, id)
  BY QueuesLessen DEF Lessens
<1>3. QED BY <1>1, <1>2 DEF OwnersAre, Places, Lessens

LEMMA LessensStep ==
  ASSUME PipelineTypeOK, PipelineTypeOK', ExecIInv, ExecIInv', Owning,
         CarriesOn, Lessens
  PROVE  Owning'
<1>1. \A id \in Ids : Owners(id)' \subseteq Owners(id)
  BY LessensOwners
<1>2. /\ Queued'
      /\ \A k \in DOMAIN transitions' :
           \E j \in DOMAIN transitions : transitions'[k] = transitions[j]
      /\ \A k \in DOMAIN preparations' :
           \E j \in DOMAIN preparations : preparations'[k] = preparations[j]
      /\ worker'.phase = "queue" => UNCHANGED worker
  BY QueuesLessen DEF Lessens
<1>3. QED BY <1>1, <1>2, FewerStep

(* A task that reports a command gives up its place.                       *)
LEMMA ReportStep ==
  ASSUME ExecIInv, NEW x \in Ids, Owners(x)' = {},
         NEW phase \in Outcomes, NEW reason \in Reasons,
         Report(x, phase, reason)
  PROVE  CarriesOn
BY ReportCarries DEF CarriesOn

LEMMA StayStep ==
  ASSUME UNCHANGED cache
  PROVE  CarriesOn
BY DEF CarriesOn, Carries

LEMMA LeavesStep ==
  ASSUME PipelineTypeOK, PipelineTypeOK', ExecIInv, ExecIInv', Owning, Lessens,
         NEW x \in Ids, NEW a \in Owners(x), a \notin Owners(x)',
         NEW phase \in Outcomes, NEW reason \in Reasons,
         Report(x, phase, reason)
  PROVE  Owning'
<1>1. Owners(x)' \subseteq Owners(x) \ {a}
  BY LessensOwners
<1>2. Owners(x)' = {}
  BY <1>1 DEF Owning, Single
<1>3. QED BY <1>2, ReportStep, LessensStep

(* What a task has in hand is known to the cache.                          *)
LEMMA OwnedIsCarried ==
  ASSUME PipelineTypeOK, ExecIInv, Owning, NEW id \in Ids, Owners(id) # {}
  PROVE  Carried(cache, id, Commands)
<1>1. OwnersAre(id) /\ id # NoId /\ Manual \subseteq Commands
  BY PlacesOf, RequestAssumption, StartsAreNotManual
<1>2. PICK p \in Places : p \in Owners(id)
  BY <1>1 DEF OwnersAre
<1>3. \E S : S \subseteq Commands /\ Carried(cache, id, S)
  <2>1. CASE p = "worker"
    <3>1. worker.phase = "queue" /\ worker.request.id = id
      BY <1>1, <1>2, <2>1 DEF OwnersAre
    <3>2. worker.request \in Requests
      BY <3>1 DEF PipelineTypeOK
    <3>3. {worker.request.command} \subseteq Commands
      BY <3>2, StartsAreNotManual
    <3>4. QED BY <3>1, <3>3 DEF Owning, WorkerCarries
  <2>2. CASE p = "transitions"
    <3>1. PICK k \in DOMAIN transitions :
            transitions[k].id = id /\ transitions[k].command \in Commands
      BY <1>1, <1>2, <2>2 DEF OwnersAre, Waits
    <3>2. {transitions[k].command} \subseteq Commands
      BY <3>1
    <3>3. QED BY <3>1, <3>2 DEF Owning, QueuesCarry
  <2>3. CASE p = "preparations"
    <3>1. PICK k \in DOMAIN preparations :
            preparations[k].id = id /\ preparations[k].command \in Manual
      BY <1>1, <1>2, <2>3 DEF OwnersAre, Waits
    <3>2. /\ {preparations[k].command} \subseteq Commands
          /\ preparations[k].command \notin Starts
      BY <1>1, <3>1, StartsAreNotManual
    <3>3. QED BY <3>1, <3>2 DEF Owning, QueuesCarry
  <2>4. CASE p = "start"
    <3>1. Carried(cache, id, Starts)
      BY <1>1, <1>2, <2>4 DEF OwnersAre, Owning, MissionCarries
    <3>2. Carried(cache, id, Starts \cap Commands)
      BY <3>1, CarriedStart DEF ExecIInv
    <3>3. QED BY <3>2
  <2>5. CASE p \in {"fin", "calibration"}
    BY <1>1, <1>2, <2>5 DEF OwnersAre, Owning, MissionCarries
  <2>6. CASE p \in {"operation", "completion"}
    BY <1>1, <1>2, <2>6 DEF OwnersAre, Owning, ParachuteCarries
  <2>7. QED BY <2>1, <2>2, <2>3, <2>4, <2>5, <2>6 DEF Places
<1>4. QED BY <1>3, CarriedMore

-----------------------------------------------------------------------------
(* The steps, one lemma for each action or group of them.                  *)
Stays == \A id \in Ids : Owners(id) # {} => Find(cache', id) # {}

LEMMA QuietOwning ==
  ASSUME PipelineTypeOK, PipelineTypeOK', ExecIInv, ExecIInv', Owning,
         \/ Receive \/ Emergency \/ HandleEmergency \/ TakeLatch \/ Flies
         \/ Drain \/ UNCHANGED vars
  PROVE  Owning'
<1>1. CASE HandleEmergency
  <2>1. CarriesOn
    <3>1. CASE UNCHANGED cache
      BY <3>1, StayStep
    <3>2. CASE cache' \in Interruptions(cache)
      <4>1. \A id : Carries(cache, cache', id)
        BY <3>2, InterruptionsCarry DEF ExecIInv
      <4>2. QED BY <4>1 DEF CarriesOn
    <3>3. QED BY <1>1, <3>1, <3>2 DEF HandleEmergency, execVars
  <2>2. Lessens
    <3>1. /\ mission'.start = mission.start
          /\ mission'.calibration = mission.calibration
          /\ mission'.fin \in {mission.fin, NoId}
      BY <1>1 DEF HandleEmergency, PipelineTypeOK
    <3>2. QED BY <1>1, <3>1 DEF HandleEmergency, Lessens
  <2>3. QED BY <2>1, <2>2, LessensStep
<1>2. CASE Drain
  <2>1. Lessens
    <3>1. /\ parachute'.operation \in {parachute.operation, NoId}
          /\ parachute'.completion.id \in {parachute.completion.id, NoId}
      <4>1. parachute \in [phase : {"flush", "drain", "take"},
                           operation : Ids \cup {NoId}, moving : BOOLEAN,
                           completion : Completions \cup {None},
                           response : Ids \cup {NoId}]
        BY DEF PipelineTypeOK
      <4>2. \/ parachute' = [parachute EXCEPT !.phase = "take"]
            \/ parachute' = [parachute EXCEPT !.operation = NoId,
                                              !.moving = FALSE,
                                              !.completion = None]
        BY <1>2 DEF Drain
      <4>3. None.id = NoId
        BY DEF None
      <4>4. QED BY <4>1, <4>2, <4>3
    <3>2. QED BY <1>2, <3>1 DEF Drain, Lessens
  <2>2. CarriesOn
    BY <1>2, StayStep DEF Drain, execVars
  <2>3. QED BY <2>1, <2>2, LessensStep
<1>3. CASE Receive
  <2>1. Lessens
    BY <1>3 DEF Receive, Lessens, queues
  <2>2. CarriesOn
    BY <1>3, StayStep DEF Receive, execVars
  <2>3. QED BY <2>1, <2>2, LessensStep
<1>4. CASE Emergency \/ TakeLatch \/ Flies \/ UNCHANGED vars
  <2>1. Lessens
    BY <1>4 DEF Emergency, TakeLatch, Flies, vars, Lessens, tasks, queues
  <2>2. CarriesOn
    BY <1>4, StayStep DEF Emergency, TakeLatch, Flies, vars, execVars
  <2>3. QED BY <2>1, <2>2, LessensStep
<1>5. QED BY <1>1, <1>2, <1>3, <1>4

LEMMA DecideOwning ==
  ASSUME PipelineTypeOK, PipelineTypeOK', ExecIInv, ExecIInv', Owning, Stays,
         Decide
  PROVE  Owning'
<1>0. worker.phase = "begin" /\ worker.request \in Requests
      /\ UNCHANGED <<transitions, preparations, mission, parachute>>
  BY DEF Decide, PipelineTypeOK, queues
<1>1. CASE worker' = Waiting /\ UNCHANGED cache
  <2>1. Lessens
    BY <1>0, <1>1, WaitingType DEF Lessens
  <2>2. QED BY <1>1, <2>1, StayStep, LessensStep
<1>2. ASSUME NEW ctx,
             cache' = Begin(cache, guard, worker.request, ctx).cache,
             worker' = IF Begin(cache, guard, worker.request, ctx).execute
                       THEN [worker EXCEPT !.phase = "queue"] ELSE Waiting
      PROVE  Owning'
  <2> DEFINE d == Begin(cache, guard, worker.request, ctx)
             x == worker.request.id
  <2>1. /\ \A id : Find(cache', id) # {} => Carries(cache, cache', id)
        /\ d.execute => /\ Find(cache, x) = {}
                        /\ Carried(cache', x, {worker.request.command})
    BY <1>0, <1>2, BeginCarries DEF ExecIInv
  <2> HIDE DEF d
  <2>2. CASE ~d.execute
    <3>1. worker' = Waiting
      BY <1>2, <2>2 DEF d
    <3>2. Lessens
      BY <1>0, <3>1, WaitingType DEF Lessens
    <3>3. \A id \in Ids : Owners(id)' \subseteq Owners(id)
      BY <3>2, LessensOwners
    <3>4. CarriesOn
      BY <2>1, <3>3 DEF CarriesOn, Stays
    <3>5. QED BY <3>2, <3>4, LessensStep
  <2>3. CASE d.execute
    <3>0. PICK y \in Ids : y = x
      BY <1>0, StartsAreNotManual
    <3>1. /\ worker'.phase = "queue" /\ worker'.request = worker.request
      BY <1>0, <1>2, <2>3 DEF d, PipelineTypeOK
    <3>2. Carried(cache', y, {worker.request.command})
          /\ {worker.request.command} \subseteq Commands
      BY <1>0, <2>1, <2>3, <3>0, StartsAreNotManual
    <3>3. Owners(y) = {}
      <4>1. ~Carried(cache, y, Commands)
        BY <2>1, <2>3, <3>0 DEF Carried, Find
      <4>2. QED BY <4>1, OwnedIsCarried
    <3>4. ASSUME NEW id \in Ids
          PROVE  Owners(id)' \subseteq
                   IF id = y THEN {"worker"} ELSE Owners(id)
      <4>1. OwnersAre(id) /\ OwnersAre(id)'
        BY PlacesOf, PlacesThen
      <4>2. /\ Waits(transitions, Commands, id)'
                 => Waits(transitions, Commands, id)
            /\ Waits(preparations, Manual, id)'
                 => Waits(preparations, Manual, id)
        BY <1>0, QueuesLessen
      <4>3. Owners(id)' \subseteq Owners(id) \cup
              (IF id = y THEN {"worker"} ELSE {})
        BY <1>0, <3>0, <3>1, <4>1, <4>2 DEF OwnersAre, Places
      <4>4. QED BY <3>3, <4>3
    <3>5. Single'
      <4>1. Owners(y)' \subseteq (Owners(y) \ {"worker"}) \cup {"worker"}
        BY <3>4
      <4>2. \A id \in Ids \ {y} : Owners(id)' \subseteq Owners(id)
        BY <3>4
      <4>3. Single
        BY DEF Owning
      <4>4. QED BY <3>3, <4>1, <4>2, <4>3, MovedSingle
    <3>6. Carried(cache', y, Commands)
      BY <3>2, CarriedMore
    <3>7. \A id \in Ids : \A p \in Owners(id)' :
            p \in Owners(id) \/ Arrived(p, id)
      BY <3>4, <3>6 DEF Arrived
    <3>8. CarriesOn
      <4>1. ASSUME NEW id \in Ids, Owners(id)' # {}
            PROVE  Carries(cache, cache', id)
        <5>1. CASE id = y
          BY <2>1, <3>2, <5>1 DEF Carried, Find
        <5>2. CASE id # y
          BY <2>1, <3>4, <4>1, <5>2 DEF Stays
        <5>3. QED BY <5>1, <5>2
      <4>2. QED BY <4>1 DEF CarriesOn
    <3>9. WorkerCarries'
      BY <3>0, <3>1, <3>2 DEF WorkerCarries
    <3>10. /\ Queued'
           /\ \A k \in DOMAIN transitions' :
                \E j \in DOMAIN transitions : transitions'[k] = transitions[j]
           /\ \A k \in DOMAIN preparations' :
                \E j \in DOMAIN preparations :
                  preparations'[k] = preparations[j]
      BY <1>0, QueuesLessen
    <3>11. QED BY <3>5, <3>7, <3>8, <3>9, <3>10, OwningStep
  <2>4. QED BY <2>2, <2>3
<1>3. QED BY <1>1, <1>2 DEF Decide, execVars

LEMMA EnqueueOwning ==
  ASSUME PipelineTypeOK, PipelineTypeOK', ExecIInv, ExecIInv', Owning, Enqueue
  PROVE  Owning'
<1> DEFINE r == worker.request
<1>0. /\ worker.phase = "queue" /\ r \in Requests
      /\ worker' = Waiting /\ Waiting.phase = "receive"
      /\ UNCHANGED <<mission, parachute>>
  BY WaitingType DEF Enqueue, PipelineTypeOK
<1>1. PICK x \in Ids : x = r.id
  BY <1>0, StartsAreNotManual
<1>2. /\ r.command \in Commands
      /\ ForParachute(r) <=> r.command \in Manual
      /\ transitions \in Seq(Requests) /\ preparations \in Seq(Requests)
      /\ Distinct(transitions, Commands) /\ Distinct(preparations, Manual)
  BY <1>0, StartsAreNotManual DEF PipelineTypeOK, Owning, Queued
<1>3. /\ "worker" \in Owners(x) /\ Owners(x) = {"worker"}
      /\ Carried(cache, x, {r.command}) /\ Carried(cache, x, Commands)
  <2>1. "worker" \in Owners(x)
    BY <1>0, <1>1, PlacesOf DEF OwnersAre
  <2>2. Carried(cache, x, {r.command})
    BY <1>0, <1>1 DEF Owning, WorkerCarries
  <2>3. {r.command} \subseteq Commands
    BY <1>2
  <2>4. QED BY <2>1, <2>2, <2>3, CarriedMore DEF Owning, Single
<1>4. ~Waits(transitions, Commands, x) /\ ~Waits(preparations, Manual, x)
  BY <1>3, PlacesOf DEF OwnersAre
<1> HIDE DEF r
<1>5. CASE UNCHANGED <<transitions, preparations>>
  <2>1. Lessens
    BY <1>0, <1>5 DEF Lessens
  <2>2. CASE UNCHANGED cache
    BY <2>1, <2>2, StayStep, LessensStep
  <2>3. CASE Report(r.id, "failed", "busy")
    <3>1. "worker" \notin Owners(x)'
      BY <1>0, PlacesThen DEF OwnersAre
    <3>2. QED BY <1>1, <1>3, <2>1, <2>3, <3>1, FailureReasons, LeavesStep
  <2>4. QED BY <2>2, <2>3 DEF Enqueue, execVars, r
<1>6. ASSUME NEW b \in {"transitions", "preparations"}, UNCHANGED cache,
             \A id \in Ids : Owners(id)' \subseteq
               IF id = x THEN {b} ELSE Owners(id),
             Queued',
             \A k \in DOMAIN transitions' :
               \/ \E j \in DOMAIN transitions :
                    transitions'[k] = transitions[j]
               \/ transitions'[k] = r,
             \A k \in DOMAIN preparations' :
               \/ \E j \in DOMAIN preparations :
                    preparations'[k] = preparations[j]
               \/ preparations'[k] = r /\ r.command \in Manual
      PROVE  Owning'
  <2>1. CarriesOn
    BY <1>6, StayStep
  <2>2. Single'
    <3>1. Single /\ "worker" \in Owners(x)
      BY <1>3 DEF Owning
    <3>2. Owners(x)' \subseteq (Owners(x) \ {"worker"}) \cup {b}
      BY <1>6
    <3>3. \A id \in Ids \ {x} : Owners(id)' \subseteq Owners(id)
      BY <1>6
    <3>4. QED BY <3>1, <3>2, <3>3, MovedSingle
  <2>3. Arrived(b, x)
    BY <1>3, <1>6 DEF Arrived
  <2>4. \A id \in Ids :
          \A p \in Owners(id)' : p \in Owners(id) \/ Arrived(p, id)
    BY <1>6, <2>3
  <2>5. Carried(cache', r.id, {r.command})
    BY <1>1, <1>3, <1>6
  <2>6. WorkerCarries'
    BY <1>0 DEF WorkerCarries
  <2>7. QED BY <1>6, <2>1, <2>2, <2>4, <2>5, <2>6, OwningStep
<1>7. ASSUME NEW id \in Ids
      PROVE  OwnersAre(id) /\ OwnersAre(id)' /\ Manual' = Manual
  BY PlacesOf, PlacesThen DEF Manual
<1>8. CASE /\ ForParachute(r) /\ UNCHANGED <<cache, transitions>>
           /\ preparations' = Append(preparations, r)
  <2>1. r \in Requests /\ r.command \in Manual
    BY <1>0, <1>2, <1>8 DEF r
  <2>2. /\ Distinct(preparations', Manual)
        /\ \A id : Waits(preparations', Manual, id) <=>
             Waits(preparations, Manual, id) \/ r.id = id
        /\ \A k \in DOMAIN preparations' :
             \/ preparations'[k] = r
             \/ \E j \in DOMAIN preparations :
                  preparations'[k] = preparations[j]
    BY <1>1, <1>2, <1>4, <1>8, <2>1, AppendDistinct
  <2>3. \A id \in Ids : Owners(id)' \subseteq
          IF id = x THEN {"preparations"} ELSE Owners(id)
    <3>1. \A id \in Ids : Owners(id)' \subseteq
            (Owners(id) \ {"worker"}) \cup
              (IF id = x THEN {"preparations"} ELSE {})
      BY <1>0, <1>1, <1>7, <1>8, <2>2 DEF OwnersAre, Places
    <3>2. QED BY <1>3, <3>1
  <2>4. Queued'
    BY <1>2, <1>8, <2>2 DEF Queued, Manual
  <2>5. QED BY <1>6, <1>8, <2>1, <2>2, <2>3, <2>4
<1>9. CASE /\ ~ForParachute(r) /\ UNCHANGED <<cache, preparations>>
           /\ transitions' = Append(transitions, r)
  <2>1. r \in Requests
    BY <1>0 DEF r
  <2>2. /\ Distinct(transitions', Commands)
        /\ \A id : Waits(transitions', Commands, id) <=>
             Waits(transitions, Commands, id) \/ r.id = id
        /\ \A k \in DOMAIN transitions' :
             \/ transitions'[k] = r
             \/ \E j \in DOMAIN transitions : transitions'[k] = transitions[j]
    BY <1>1, <1>2, <1>4, <1>9, <2>1, AppendDistinct DEF r
  <2>3. \A id \in Ids : Owners(id)' \subseteq
          IF id = x THEN {"transitions"} ELSE Owners(id)
    <3>1. \A id \in Ids : Owners(id)' \subseteq
            (Owners(id) \ {"worker"}) \cup
              (IF id = x THEN {"transitions"} ELSE {})
      BY <1>0, <1>1, <1>7, <1>9, <2>2 DEF OwnersAre, Places
    <3>2. QED BY <1>3, <3>1
  <2>4. Queued'
    BY <1>2, <1>9, <2>2 DEF Queued, Manual
  <2>5. QED BY <1>6, <1>9, <2>2, <2>3, <2>4
<1>10. QED BY <1>5, <1>8, <1>9 DEF Enqueue, execVars, r

LEMMA EndOwning ==
  ASSUME PipelineTypeOK, PipelineTypeOK', ExecIInv, ExecIInv', Owning,
         FinishStart \/ EndCalibration \/ EndFinMove \/ Flush
  PROVE  Owning'
<1>0. /\ \A id \in Ids : OwnersAre(id) /\ OwnersAre(id)' /\ id # NoId
      /\ mission \in [start : Ids \cup {NoId}, fin : Ids \cup {NoId},
                      calibration : Ids \cup {NoId}]
  BY PlacesOf, PlacesThen, RequestAssumption DEF PipelineTypeOK
<1>1. CASE FinishStart
  <2>1. CASE UNCHANGED <<cache, mission>>
    <3>1. Lessens
      BY <1>1, <2>1 DEF FinishStart, Lessens
    <3>2. QED BY <2>1, <3>1, StayStep, LessensStep
  <2>2. CASE /\ mission.start # NoId
             /\ mission' = [mission EXCEPT !.start = NoId]
             /\ \/ Report(mission.start, "completed", "none")
                \/ Report(mission.start, "failed",
                          IF state = "command_receive" THEN "not_configured"
                          ELSE "invalid_state")
    <3>1. PICK x \in Ids : x = mission.start
      BY <1>0, <2>2
    <3>2. Lessens
      BY <1>0, <1>1, <2>2 DEF FinishStart, Lessens
    <3>3. "start" \in Owners(x) /\ "start" \notin Owners(x)'
      BY <1>0, <2>2, <3>1 DEF OwnersAre
    <3>4. \E phase \in Outcomes, reason \in Reasons : Report(x, phase, reason)
      BY <2>2, <3>1, FailureReasons
    <3>5. QED BY <3>2, <3>3, <3>4, LeavesStep
  <2>3. QED BY <1>1, <2>1, <2>2 DEF FinishStart, execVars
<1>2. CASE EndCalibration
  <2>1. PICK x \in Ids : x = mission.calibration
    BY <1>0, <1>2 DEF EndCalibration
  <2>2. Lessens
    BY <1>0, <1>2 DEF EndCalibration, Lessens, queues
  <2>3. "calibration" \in Owners(x) /\ "calibration" \notin Owners(x)'
    BY <1>0, <1>2, <2>1 DEF OwnersAre, EndCalibration
  <2>4. QED
    BY <1>2, <2>1, <2>2, <2>3, FailureReasons, LeavesStep DEF EndCalibration
<1>3. CASE EndFinMove
  <2>1. PICK x \in Ids : x = mission.fin
    BY <1>0, <1>3 DEF EndFinMove
  <2>2. Lessens
    BY <1>0, <1>3 DEF EndFinMove, Lessens, queues
  <2>3. "fin" \in Owners(x) /\ "fin" \notin Owners(x)'
    BY <1>0, <1>3, <2>1 DEF OwnersAre, EndFinMove
  <2>4. \E phase \in Outcomes, reason \in Reasons : Report(x, phase, reason)
    BY <1>3, <2>1, FailureReasons DEF EndFinMove
  <2>5. QED BY <2>2, <2>3, <2>4, LeavesStep
<1>4. CASE Flush
  <2> DEFINE c == parachute.completion
             response == IF parachute.response # NoId /\ Len(responses) < 2
                         THEN NoId ELSE parachute.response
  <2>1. PICK lock \in BOOLEAN :
          /\ IF c # None /\ lock
             THEN Report(c.id, c.phase, c.reason) ELSE UNCHANGED execVars
          /\ parachute' = [parachute EXCEPT
               !.phase = "drain", !.completion = IF lock THEN None ELSE c,
               !.response = response]
    BY <1>4 DEF Flush
  <2>2. /\ parachute'.operation = parachute.operation
        /\ parachute'.completion = IF lock THEN None ELSE c
    <3>1. parachute \in [phase : {"flush", "drain", "take"},
                         operation : Ids \cup {NoId}, moving : BOOLEAN,
                         completion : Completions \cup {None},
                         response : Ids \cup {NoId}]
      BY DEF PipelineTypeOK
    <3>2. QED BY <2>1, <3>1
  <2>3. Lessens
    <3>1. /\ parachute'.completion.id \in {parachute.completion.id, NoId}
          /\ parachute'.operation \in {parachute.operation, NoId}
      BY <2>2 DEF None
    <3>2. UNCHANGED <<worker, mission, transitions, preparations>>
      BY <1>4 DEF Flush
    <3>3. QED BY <3>1, <3>2 DEF Lessens
  <2>4. CASE UNCHANGED cache
    BY <2>3, <2>4, StayStep, LessensStep
  <2>5. CASE c # None /\ lock /\ Report(c.id, c.phase, c.reason)
    <3>1. c \in Completions
      BY <2>5 DEF PipelineTypeOK
    <3>2. c.id \in Ids /\ c.phase \in Outcomes /\ c.reason \in Reasons
      BY <3>1, NoneIsNoCompletion
    <3>3. PICK x \in Ids : x = c.id
      BY <3>2
    <3>4. "completion" \in Owners(x) /\ "completion" \notin Owners(x)'
      BY <1>0, <2>2, <2>5, <3>3 DEF OwnersAre, None
    <3>5. QED BY <2>3, <2>5, <3>2, <3>3, <3>4, LeavesStep
  <2>6. QED BY <2>1, <2>4, <2>5 DEF execVars
<1>5. QED BY <1>1, <1>2, <1>3, <1>4

LEMMA TransitionOwning ==
  ASSUME PipelineTypeOK, PipelineTypeOK', ExecIInv, ExecIInv', Owning,
         Transition
  PROVE  Owning'
<1> DEFINE r == Head(transitions)
           Missions == [start : Ids \cup {NoId}, fin : Ids \cup {NoId},
                        calibration : Ids \cup {NoId}]
<1>0. /\ transitions \in Seq(Requests) /\ transitions # <<>>
      /\ transitions' = Tail(transitions) /\ r \in Requests
      /\ preparations \in Seq(Requests) /\ mission \in Missions
      /\ Distinct(transitions, Commands) /\ Distinct(preparations, Manual)
      /\ UNCHANGED <<worker, parachute>>
  BY TailType DEF Transition, PipelineTypeOK, Owning, Queued
<1>1. PICK x \in Ids : x = r.id
  BY <1>0, StartsAreNotManual
<1>2. /\ r.command \in Commands
      /\ Waits(transitions, Commands, x) /\ ~Waits(transitions', Commands, x)
      /\ \A id : Waits(transitions', Commands, id)
                   => Waits(transitions, Commands, id)
      /\ \E j \in DOMAIN transitions : r = transitions[j]
  BY <1>0, <1>1, StartsAreNotManual, TailDistinct
<1>3. \A id \in Ids : OwnersAre(id) /\ OwnersAre(id)' /\ id # NoId
  BY PlacesOf, PlacesThen, RequestAssumption
<1>4. /\ Owners(x) = {"transitions"} /\ "transitions" \notin Owners(x)'
      /\ Carried(cache, x, {r.command}) /\ Carried(cache, x, Commands)
  <2>1. "transitions" \in Owners(x) /\ "transitions" \notin Owners(x)'
    BY <1>2, <1>3 DEF OwnersAre
  <2>2. Carried(cache, x, {r.command})
    BY <1>1, <1>2 DEF Owning, QueuesCarry
  <2>3. {r.command} \subseteq Commands
    BY <1>2
  <2>4. QED BY <2>1, <2>2, <2>3, CarriedMore DEF Owning, Single
<1>5. PICK device \in BOOLEAN :
        \/ /\ GoesOn(r, device) /\ UNCHANGED cache
           /\ mission' = CASE r.command = "fin_move_relative" ->
                                [mission EXCEPT !.fin = r.id]
                           [] r.command \in Starts ->
                                [mission EXCEPT !.start = r.id]
                           [] OTHER -> [mission EXCEPT !.calibration = r.id]
           /\ preparations' = IF r.command \in Starts
                              THEN Append(preparations, r) ELSE preparations
        \/ /\ mission' \in {mission, [mission EXCEPT !.fin = NoId]}
           /\ Report(r.id, IF Immediate(r, device) = "none"
                           THEN "completed" ELSE "failed",
                     Immediate(r, device))
           /\ UNCHANGED preparations
  <2>1. PICK device \in BOOLEAN :
          LET reason == Immediate(r, device)
          IN IF GoesOn(r, device)
             THEN /\ mission' = CASE r.command = "fin_move_relative" ->
                                       [mission EXCEPT !.fin = r.id]
                                  [] r.command \in Starts ->
                                       [mission EXCEPT !.start = r.id]
                                  [] OTHER ->
                                       [mission EXCEPT !.calibration = r.id]
                  /\ preparations' = IF r.command \in Starts
                                     THEN Append(preparations, r)
                                     ELSE preparations
                  /\ UNCHANGED <<execVars, state, holds>>
             ELSE /\ mission' = IF r.command \in FinCommands /\ reason = "none"
                                THEN [mission EXCEPT !.fin = NoId] ELSE mission
                  /\ Report(r.id, IF reason = "none" THEN "completed"
                                  ELSE "failed", reason)
                  /\ IF r.command = "cancel_sequence" /\ reason = "none"
                     THEN state' = "command_receive" /\ Hold
                     ELSE UNCHANGED <<state, holds>>
                  /\ UNCHANGED preparations
    BY Zenon DEF Transition
  <2> HIDE DEF r
  <2>2. CASE GoesOn(r, device)
    BY <2>1, <2>2 DEF execVars
  <2>3. CASE ~GoesOn(r, device)
    BY <2>1, <2>3
  <2>4. QED BY <2>2, <2>3
<1>6. Immediate(r, device) \in
        {"none", "busy", "invalid_state", "device_unavailable"}
  BY DEF Immediate
<1> HIDE DEF r
<1>7. CASE /\ mission' \in {mission, [mission EXCEPT !.fin = NoId]}
           /\ Report(r.id, IF Immediate(r, device) = "none"
                           THEN "completed" ELSE "failed",
                     Immediate(r, device))
           /\ UNCHANGED preparations
  <2>1. Lessens
    BY <1>0, <1>7 DEF Lessens
  <2>2. \E phase \in Outcomes, reason \in Reasons : Report(x, phase, reason)
    <3>1. CASE Immediate(r, device) = "none"
      BY <1>1, <1>7, <3>1, FailureReasons
    <3>2. CASE Immediate(r, device) # "none"
      BY <1>1, <1>6, <1>7, <3>2, FailureReasons
    <3>3. QED BY <3>1, <3>2
  <2>3. QED BY <1>4, <2>1, <2>2, LeavesStep
<1>8. ASSUME NEW b \in {"start", "fin", "calibration"}, UNCHANGED cache,
             mission' = [mission EXCEPT ![b] = x],
             IF b = "start"
             THEN /\ r.command \in Starts
                  /\ preparations' = Append(preparations, r)
             ELSE UNCHANGED preparations
      PROVE  Owning'
  <2>1. CarriesOn
    BY <1>8, StayStep
  <2>2. /\ Distinct(preparations', Manual)
        /\ \A id : Waits(preparations', Manual, id)
                     => Waits(preparations, Manual, id)
        /\ \A k \in DOMAIN preparations' :
             \/ \E j \in DOMAIN preparations :
                  preparations'[k] = preparations[j]
             \/ preparations'[k].command \in Starts
    <3>1. CASE UNCHANGED preparations
      BY <1>0, <3>1
    <3>2. CASE r.command \in Starts /\ preparations' = Append(preparations, r)
      <4>1. r \in Requests /\ r.command \notin Manual
        BY <1>0, <3>2, StartsAreNotManual DEF r
      <4>2. /\ Distinct(preparations', Manual)
            /\ \A id : Waits(preparations', Manual, id) <=>
                 \/ Waits(preparations, Manual, id)
                 \/ r.id = id /\ r.command \in Manual
            /\ \A k \in DOMAIN preparations' :
                 \/ preparations'[k] = r
                 \/ \E j \in DOMAIN preparations :
                      preparations'[k] = preparations[j]
        BY <1>0, <3>2, <4>1, AppendDistinct
      <4>3. QED BY <3>2, <4>1, <4>2
    <3>3. QED BY <1>8, <3>1, <3>2
  <2>3. Manual' = Manual
    BY DEF Manual
  <2>4. \A id \in Ids : Owners(id)' \subseteq
          IF id = x THEN {b} ELSE Owners(id)
    <3>1. \A id \in Ids : Owners(id)' \subseteq
            (Owners(id) \ {"transitions"}) \cup
              (IF id = x THEN {b} ELSE {"transitions"} \cap Owners(id))
      BY <1>0, <1>2, <1>3, <1>8, <2>2, <2>3 DEF OwnersAre, Places
    <3>2. QED BY <1>4, <3>1
  <2>5. Single'
    <3>1. Single /\ "transitions" \in Owners(x)
      BY <1>4 DEF Owning
    <3>2. Owners(x)' \subseteq (Owners(x) \ {"transitions"}) \cup {b}
      BY <2>4
    <3>3. \A id \in Ids \ {x} : Owners(id)' \subseteq Owners(id)
      BY <2>4
    <3>4. QED BY <3>1, <3>2, <3>3, MovedSingle
  <2>6. \A id \in Ids :
          \A p \in Owners(id)' : p \in Owners(id) \/ Arrived(p, id)
    <3>1. b = "start" => Carried(cache, x, Starts)
      <4>1. b = "start" => {r.command} \subseteq Starts
        BY <1>8
      <4>2. QED BY <1>4, <4>1, CarriedMore
    <3>2. Arrived(b, x)
      BY <1>4, <1>8, <3>1 DEF Arrived
    <3>3. QED BY <2>4, <3>2
  <2>7. /\ Queued'
        /\ \A k \in DOMAIN transitions' :
             \E j \in DOMAIN transitions : transitions'[k] = transitions[j]
    <3>1. /\ Distinct(transitions', Commands)
          /\ \A k \in DOMAIN transitions' :
               \E j \in DOMAIN transitions : transitions'[k] = transitions[j]
      BY <1>0, TailDistinct
    <3>2. QED BY <2>2, <2>3, <3>1 DEF Queued
  <2>8. WorkerCarries'
    BY <1>0, <1>8 DEF Owning, WorkerCarries
  <2>9. QED BY <2>1, <2>2, <2>5, <2>6, <2>7, <2>8, OwningStep
<1>9. CASE /\ GoesOn(r, device) /\ UNCHANGED cache
           /\ mission' = CASE r.command = "fin_move_relative" ->
                                [mission EXCEPT !.fin = r.id]
                           [] r.command \in Starts ->
                                [mission EXCEPT !.start = r.id]
                           [] OTHER -> [mission EXCEPT !.calibration = r.id]
           /\ preparations' = IF r.command \in Starts
                              THEN Append(preparations, r) ELSE preparations
  <2>1. CASE r.command = "fin_move_relative"
    <3>1. /\ mission' = [mission EXCEPT !["fin"] = x]
          /\ UNCHANGED preparations
      BY <1>1, <1>9, <2>1 DEF Starts
    <3>2. QED BY <1>8, <1>9, <3>1
  <2>2. CASE r.command \in Starts
    <3>1. /\ mission' = [mission EXCEPT !["start"] = x]
          /\ preparations' = Append(preparations, r)
      BY <1>1, <1>9, <2>2 DEF Starts
    <3>2. QED BY <1>8, <1>9, <2>2, <3>1
  <2>3. CASE r.command # "fin_move_relative" /\ r.command \notin Starts
    <3>1. /\ mission' = [mission EXCEPT !["calibration"] = x]
          /\ UNCHANGED preparations
      BY <1>1, <1>9, <2>3
    <3>2. QED BY <1>8, <1>9, <3>1
  <2>4. QED BY <2>1, <2>2, <2>3
<1>10. QED BY <1>5, <1>7, <1>9

(* What drive makes of a record of parachuteTask is one again, in which an *)
(* operation that ended is the completion.                                 *)
LEMMA DrivenType ==
  ASSUME NEW p \in [phase : {"flush", "drain", "take"},
                    operation : Ids \cup {NoId}, moving : BOOLEAN,
                    completion : Completions \cup {None},
                    response : Ids \cup {NoId}],
         NEW q \in Driven(p)
  PROVE  /\ q \in [phase : {"flush", "drain", "take"},
                   operation : Ids \cup {NoId}, moving : BOOLEAN,
                   completion : Completions \cup {None},
                   response : Ids \cup {NoId}]
         /\ \/ q.operation = p.operation /\ q.completion = p.completion
            \/ /\ p.operation # NoId /\ q.operation = NoId
               /\ q.completion.id = p.operation
<1> DEFINE Ended(phase, reason) ==
      [p EXCEPT !.operation = NoId, !.moving = FALSE,
         !.completion = [id |-> p.operation, phase |-> phase,
                         reason |-> reason]]
<1>1. \/ q = p
      \/ /\ p.operation # NoId
         /\ \/ q = Ended("failed", "device_unavailable")
            \/ q = Ended("completed", "none")
            \/ q = [p EXCEPT !.moving = TRUE]
  BY DEF Driven
<1>2. CASE p.operation # NoId /\ q = Ended("failed", "device_unavailable")
  <2>1. [id |-> p.operation, phase |-> "failed",
         reason |-> "device_unavailable"] \in Completions
    BY <1>2, RuntimeAssumption DEF Completions
  <2>2. QED BY <1>2, <2>1
<1>3. CASE p.operation # NoId /\ q = Ended("completed", "none")
  <2>1. [id |-> p.operation, phase |-> "completed", reason |-> "none"]
          \in Completions
    BY <1>3 DEF Completions
  <2>2. QED BY <1>3, <2>1
<1>4. CASE q \in {p, [p EXCEPT !.moving = TRUE]}
  BY <1>4
<1>5. QED BY <1>1, <1>2, <1>3, <1>4

LEMMA DriveOwning ==
  ASSUME PipelineTypeOK, PipelineTypeOK', ExecIInv, ExecIInv', Owning, Drive
  PROVE  Owning'
<1> DEFINE takes == Idle /\ preparations # <<>>
           r == Head(preparations)
           p == IF takes THEN Taken(r) ELSE parachute
           Records == [phase : {"flush", "drain", "take"},
                       operation : Ids \cup {NoId}, moving : BOOLEAN,
                       completion : Completions \cup {None},
                       response : Ids \cup {NoId}]
<1>0. /\ \A id \in Ids : OwnersAre(id) /\ OwnersAre(id)' /\ id # NoId
      /\ parachute \in Records /\ Manual' = Manual /\ None.id = NoId
      /\ preparations \in Seq(Requests) /\ Distinct(preparations, Manual)
      /\ UNCHANGED <<cache, worker, mission, transitions>>
      /\ preparations' = IF takes THEN Tail(preparations) ELSE preparations
  BY PlacesOf, PlacesThen, RequestAssumption
  DEF PipelineTypeOK, Owning, Queued, Drive, execVars, Manual, None
<1>1. PICK q \in Driven(p) : parachute' = [q EXCEPT !.phase = "flush"]
  BY DEF Drive
<1>2. /\ CarriesOn /\ Queued'
      /\ \A k \in DOMAIN transitions' :
           \E j \in DOMAIN transitions : transitions'[k] = transitions[j]
      /\ \A k \in DOMAIN preparations' :
           \E j \in DOMAIN preparations : preparations'[k] = preparations[j]
      /\ \A id : /\ Waits(transitions, Commands, id)'
                      => Waits(transitions, Commands, id)
                 /\ Waits(preparations, Manual, id)'
                      => Waits(preparations, Manual, id)
      /\ WorkerCarries'
  <2>1. CarriesOn /\ WorkerCarries'
    BY <1>0, StayStep DEF Owning, WorkerCarries
  <2>2. \/ UNCHANGED preparations
        \/ preparations # <<>> /\ preparations' = Tail(preparations)
    BY <1>0
  <2>3. QED BY <1>0, <2>1, <2>2, QueuesLessen
<1>3. ASSUME NEW x \in Ids, NEW a, a \in Owners(x), a \notin Owners(x)',
             NEW b \in {"operation", "completion"}, Carried(cache, x, Manual),
             \A id \in Ids : Owners(id)' \subseteq
               Owners(id) \cup (IF id = x THEN {b} ELSE {})
      PROVE  Owning'
  <2>1. Single'
    <3>1. Single
      BY DEF Owning
    <3>2. Owners(x)' \subseteq (Owners(x) \ {a}) \cup {b}
      BY <1>3
    <3>3. \A id \in Ids \ {x} : Owners(id)' \subseteq Owners(id)
      BY <1>3
    <3>4. QED BY <1>3, <3>1, <3>2, <3>3, MovedSingle
  <2>2. Arrived(b, x)
    <3>1. Carried(cache, x, Commands)
      BY <1>3, CarriedMore, StartsAreNotManual
    <3>2. QED BY <1>0, <1>3, <3>1 DEF Arrived
  <2>3. \A id \in Ids :
          \A s \in Owners(id)' : s \in Owners(id) \/ Arrived(s, id)
    BY <1>3, <2>2
  <2>4. QED BY <1>2, <2>1, <2>3, OwningStep
<1>4. CASE ~takes \/ r.command \in Starts
  <2>1. /\ p \in Records /\ p.operation = parachute.operation
        /\ p.completion = parachute.completion
    <3>1. CASE ~takes
      BY <1>0, <3>1
    <3>2. CASE takes
      <4>1. r.command \in Starts /\ r.id \in Ids
        BY <1>0, <1>4, <3>2, TailType, StartsAreNotManual
      <4>2. p = [parachute EXCEPT !.response = r.id]
        BY <3>2, <4>1 DEF Taken
      <4>3. QED BY <1>0, <4>1, <4>2
    <3>3. QED BY <3>1, <3>2
  <2> HIDE DEF p
  <2>2. CASE p.operation # NoId /\ q.operation = NoId
             /\ q.completion.id = p.operation /\ q \in Records
    <3>1. PICK x \in Ids : x = parachute.operation
      BY <1>0, <2>1, <2>2
    <3>2. parachute'.operation = NoId /\ parachute'.completion.id = x
      BY <1>1, <2>1, <2>2, <3>1
    <3>3. "operation" \in Owners(x) /\ "operation" \notin Owners(x)'
      BY <1>0, <3>1, <3>2 DEF OwnersAre
    <3>4. Carried(cache, x, Manual)
      BY <1>0, <3>1 DEF Owning, ParachuteCarries
    <3>5. \A id \in Ids : Owners(id)' \subseteq
            Owners(id) \cup (IF id = x THEN {"completion"} ELSE {})
      BY <1>0, <1>2, <3>2 DEF OwnersAre, Places
    <3>6. QED BY <1>3, <3>3, <3>4, <3>5
  <2>3. CASE /\ q.operation = p.operation /\ q.completion = p.completion
             /\ q \in Records
    <3>1. /\ parachute'.operation = parachute.operation
          /\ parachute'.completion = parachute.completion
      BY <1>1, <2>1, <2>3
    <3>2. \/ UNCHANGED preparations
          \/ preparations # <<>> /\ preparations' = Tail(preparations)
      BY <1>0
    <3>3. Lessens
      BY <1>0, <3>1, <3>2 DEF Lessens
    <3>4. QED BY <1>2, <3>3, LessensStep
  <2>4. \/ /\ p.operation # NoId /\ q.operation = NoId
           /\ q.completion.id = p.operation
        \/ q.operation = p.operation /\ q.completion = p.completion
    BY <1>1, <2>1, DrivenType
  <2>5. q \in Records
    BY <1>1, <2>1, DrivenType
  <2>6. QED BY <2>2, <2>3, <2>4, <2>5
<1>5. CASE takes /\ r.command \notin Starts
  <2>1. /\ r \in Requests /\ preparations # <<>>
        /\ preparations' = Tail(preparations)
        /\ \E j \in DOMAIN preparations : r = preparations[j]
    BY <1>0, <1>5, TailType, TailDistinct
  <2>2. PICK x \in Ids : x = r.id
    BY <2>1, StartsAreNotManual
  <2>3. r.command \in Manual /\ Carried(cache, x, {r.command})
    BY <1>5, <2>1, <2>2 DEF Owning, QueuesCarry
  <2>4. Carried(cache, x, Manual)
    <3>1. {r.command} \subseteq Manual
      BY <2>3
    <3>2. QED BY <2>3, <3>1, CarriedMore
  <2>5. "preparations" \in Owners(x) /\ "preparations" \notin Owners(x)'
    <3>1. /\ Waits(preparations, Manual, x)
          /\ ~Waits(preparations', Manual, x)
      BY <1>0, <2>1, <2>2, <2>3, TailDistinct
    <3>2. QED BY <1>0, <3>1 DEF OwnersAre
  <2>6. /\ p \in Records /\ p.operation = x /\ p.completion = None
    BY <1>0, <1>5, <2>2 DEF Taken, Idle
  <2> HIDE DEF p
  <2>7. q \in Records
    BY <1>1, <2>6, DrivenType
  <2>8. \/ parachute'.operation = NoId /\ parachute'.completion.id = x
        \/ parachute'.operation = x /\ parachute'.completion.id = NoId
    <3>1. \/ q.operation = NoId /\ q.completion.id = x
          \/ q.operation = x /\ q.completion = None
      BY <1>1, <2>6, DrivenType
    <3>2. QED BY <1>0, <1>1, <2>7, <3>1
  <2>9. PICK b \in {"operation", "completion"} :
          \A id \in Ids : Owners(id)' \subseteq
            Owners(id) \cup (IF id = x THEN {b} ELSE {})
    <3>1. CASE parachute'.operation = NoId /\ parachute'.completion.id = x
      <4>1. \A id \in Ids : Owners(id)' \subseteq
              Owners(id) \cup (IF id = x THEN {"completion"} ELSE {})
        BY <1>0, <1>2, <3>1 DEF OwnersAre, Places
      <4>2. QED BY <4>1
    <3>2. CASE parachute'.operation = x /\ parachute'.completion.id = NoId
      <4>1. \A id \in Ids : Owners(id)' \subseteq
              Owners(id) \cup (IF id = x THEN {"operation"} ELSE {})
        BY <1>0, <1>2, <3>2 DEF OwnersAre, Places
      <4>2. QED BY <4>1
    <3>3. QED BY <2>8, <3>1, <3>2
  <2>10. QED BY <1>3, <2>4, <2>5, <2>9
<1>6. QED BY <1>4, <1>5

-----------------------------------------------------------------------------
(* As long as the ground has sent no more frames than the cache has        *)
(* entries, it evicts none: each frame adds one at most.                   *)
Room ==
  /\ frames \in Nat
  /\ Len(cache) + (IF worker.phase = "begin" THEN 1 ELSE 0) <= frames

LEMMA SettleLen ==
  ASSUME NEW c, Well(c), NEW k \in DOMAIN c, NEW phase \in Outcomes,
         NEW reason \in Reasons
  PROVE  Len(Settle(c, k, phase, reason)) = Len(c)
<1> DEFINE e == [c[k] EXCEPT !.phase = phase, !.reason = reason]
<1>1. c \in Seq(Entries) /\ c[k] \in Entries /\ Len(c) \in Nat
  BY LenProperties, ElementOfSeq DEF Well
<1>2. e \in Entries
  BY <1>1 DEF Entries, Outcomes, Phases
<1>3. /\ RemoveAt(c, k) \in Seq(Entries)
      /\ Len(RemoveAt(c, k)) = Len(c) - 1
  BY <1>1, RemoveAtFacts
<1> HIDE DEF e
<1>4. Len(Append(RemoveAt(c, k), e)) = Len(c)
  BY <1>1, <1>2, <1>3, AppendFacts
<1>5. QED BY <1>4 DEF Settle, e

LEMMA ReportLen ==
  ASSUME ExecIInv, Reports
  PROVE  Len(cache') = Len(cache) /\ Present(cache, cache')
<1>1. PICK id \in Ids, phase \in Outcomes, reason \in Reasons :
        cache' = Finish(cache, id, phase, reason)
  BY DEF Reports, Report
<1>2. CASE Unfinished(cache, id) = {}
  BY <1>1, <1>2, UnchangedWell DEF Finish, ExecIInv
<1>3. CASE Unfinished(cache, id) # {}
  <2> DEFINE k == CHOOSE i \in Unfinished(cache, id) : TRUE
  <2>1. k \in Unfinished(cache, id)
    BY <1>3
  <2>2. k \in DOMAIN cache
    BY <2>1 DEF Unfinished, Find
  <2>3. cache' = Settle(cache, k, phase, reason)
    BY <1>1, <1>3 DEF Finish
  <2> HIDE DEF k
  <2>4. Len(cache') = Len(cache)
    BY <2>2, <2>3, SettleLen DEF ExecIInv
  <2>5. Present(cache, cache')
    BY <1>1, FinishWell DEF ExecIInv
  <2>6. QED BY <2>4, <2>5
<1>4. QED BY <1>2, <1>3

LEMMA InterruptLen ==
  ASSUME NEW c, Well(c), NEW domain
  PROVE  Len(Interrupt(c, domain)) = Len(c)
<1> DEFINE of == {k \in DOMAIN c : /\ Pending(c[k])
                                   /\ DomainOf(c[k].request.command) = domain}
           k == CHOOSE i \in of : TRUE
<1>1. CASE of = {}
  BY <1>1 DEF Interrupt
<1>2. CASE of # {}
  <2>1. k \in DOMAIN c
    BY <1>2
  <2>2. Interrupt(c, domain) =
          Settle(c, k, "failed", "interrupted_by_emergency")
    BY <1>2 DEF Interrupt
  <2> HIDE DEF k, of
  <2>3. "failed" \in Outcomes /\ "interrupted_by_emergency" \in Reasons
    BY DEF Outcomes, Reasons
  <2>4. QED BY <2>1, <2>2, <2>3, SettleLen
<1>3. QED BY <1>1, <1>2

LEMMA EmergencyLen ==
  ASSUME ExecIInv, NEW id, ActuatorEmergency(id, state)
  PROVE  Len(cache') = Len(cache) /\ Present(cache, cache')
<1>1. cache' \in Interruptions(cache) /\ Well(cache)
  BY DEF ActuatorEmergency, ExecIInv
<1>2. \A one, two : Len(Interrupt(Interrupt(cache, one), two)) = Len(cache)
  BY <1>1, InterruptLen, InterruptWell
<1>3. QED BY <1>1, <1>2, InterruptionsWell DEF Interruptions

LEMMA RoomStep ==
  ASSUME PipelineTypeOK, PipelineTypeOK', ExecIInv, Owning, Room,
         frames <= CacheSize, [PipelineNext]_vars
  PROVE  Room' /\ Stays
<1>0. /\ Len(cache) \in Nat /\ CacheSize \in Nat /\ frames \in Nat
      /\ \A id \in Ids : Owners(id) # {} => Find(cache, id) # {}
  <2>1. \A id \in Ids : Owners(id) # {} => Find(cache, id) # {}
    BY OwnedIsCarried DEF Carried, Find
  <2>2. QED BY <2>1, CacheAssumption, LenProperties DEF ExecIInv, Well, Room
<1>1. ASSUME Len(cache') = Len(cache), Present(cache, cache')
      PROVE  Room' /\ Stays
  <2>1. Stays
    BY <1>0, <1>1 DEF Stays, Present, Find
  <2>2. CASE Receive
    BY <1>0, <1>1, <2>1, <2>2 DEF Room, Receive
  <2>3. CASE ~Receive
    <3>1. UNCHANGED frames
      BY <2>3
      DEF PipelineNext, vars, ground, Decide, Enqueue, Emergency,
          HandleEmergency, TakeLatch, FinishStart, Transition, EndCalibration,
          EndFinMove, Flies, Flush, Drain, Drive
    <3>2. worker'.phase = "begin" => worker.phase = "begin"
      <4>1. CASE Decide
        BY <4>1 DEF Decide
      <4>2. CASE Enqueue
        BY <4>2, WaitingType DEF Enqueue
      <4>3. CASE ~Decide /\ ~Enqueue
        <5>1. UNCHANGED worker
          BY <2>3, <4>3
          DEF PipelineNext, vars, tasks, Emergency, HandleEmergency, TakeLatch,
              FinishStart, Transition, EndCalibration, EndFinMove, Flies,
              Flush, Drain, Drive
        <5>2. QED BY <5>1
      <4>4. QED BY <4>1, <4>2, <4>3
    <3>3. QED BY <1>0, <1>1, <2>1, <3>1, <3>2 DEF Room
  <2>4. QED BY <2>1, <2>2, <2>3
<1>2. CASE UNCHANGED cache
  BY <1>1, <1>2, UnchangedWell DEF ExecIInv
<1>3. CASE Decide /\ ~UNCHANGED cache
  <2>1. PICK ctx :
          /\ cache' = Begin(cache, guard, worker.request, ctx).cache
          /\ worker' = IF Begin(cache, guard, worker.request, ctx).execute
                       THEN [worker EXCEPT !.phase = "queue"] ELSE Waiting
    BY <1>3 DEF Decide, execVars
  <2>2. /\ worker.phase = "begin" /\ worker.request \in Requests
        /\ worker'.phase # "begin" /\ UNCHANGED frames
    BY <1>3, <2>1, WaitingType DEF Decide, PipelineTypeOK, ground
  <2>3. Len(cache) < CacheSize /\ Len(cache) + 1 <= frames
    BY <1>0, <2>2 DEF Room
  <2>4. /\ Len(cache') \in {Len(cache), Len(cache) + 1}
        /\ Present(cache, cache')
    BY <2>1, <2>2, <2>3, BeginRoom DEF ExecIInv
  <2>5. Stays
    BY <1>0, <2>4 DEF Stays, Present, Find
  <2>6. frames' = frames /\ (worker'.phase = "begin") = FALSE
    BY <2>2
  <2>7. Room'
    BY <1>0, <2>3, <2>4, <2>6 DEF Room
  <2>8. QED BY <2>5, <2>7
<1>4. CASE Reports
  BY <1>1, <1>4, ReportLen
<1>5. CASE \E id \in Ids : ActuatorEmergency(id, state)
  BY <1>1, <1>5, EmergencyLen
<1>6. QED BY <1>2, <1>3, <1>4, <1>5, StepKinds DEF execVars

-----------------------------------------------------------------------------
LEMMA OwningInit ==
  ASSUME PipelineInit
  PROVE  Owning /\ Room
<1>1. /\ cache = <<>> /\ transitions = <<>> /\ preparations = <<>>
      /\ DOMAIN <<>> = {} /\ Len(<<>>) = 0
      /\ worker.phase = "receive" /\ frames = 0
  BY WaitingType DEF PipelineInit, Init
<1>2. /\ mission.start = NoId /\ mission.fin = NoId
      /\ mission.calibration = NoId /\ parachute.operation = NoId
      /\ parachute.completion.id = NoId
  BY DEF PipelineInit, None
<1>3. Queued /\ WorkerCarries /\ QueuesCarry /\ MissionCarries
      /\ ParachuteCarries
  BY <1>1, <1>2
  DEF Queued, Distinct, WorkerCarries, QueuesCarry, MissionCarries,
      ParachuteCarries
<1>4. Single
  <2>1. ASSUME NEW id \in Ids
        PROVE  Owners(id) = {}
    <3>1. OwnersAre(id) /\ id # NoId
      BY PipelineInitTypes, PlacesOf, RequestAssumption
    <3>2. QED BY <1>1, <1>2, <3>1 DEF OwnersAre, Places, Waits
  <2>2. QED BY <2>1 DEF Single
<1>5. QED BY <1>1, <1>3, <1>4 DEF Owning, Room

LEMMA OwningNext ==
  ASSUME PipelineTypeOK, PipelineTypeOK', ExecIInv, ExecIInv', Owning, Stays,
         [PipelineNext]_vars
  PROVE  Owning'
BY QuietOwning, DecideOwning, EnqueueOwning, EndOwning, TransitionOwning,
   DriveOwning
DEF PipelineNext

(* The cache does not forget a command that a task has in hand: it evicts  *)
(* none, in effect, that an emergency has ended before its task heard of   *)
(* it, as one that is pending it never evicts.                             *)
EntriesStay ==
  [][\A id \in Ids : Owners(id) # {} => Find(cache', id) # {}]_vars

LEMMA TasksKeepExec == PipelineSpec => []ExecIInv
BY PipelineImplements, ExecutorInvariant, PTL DEF ImplementsExecutor

LEMMA OwningHolds == PipelineSpec /\ EntriesStay => []Owning
<1>1. PipelineInit => Owning
  BY OwningInit
<1>2. /\ PipelineTypeOK /\ PipelineTypeOK' /\ ExecIInv /\ ExecIInv' /\ Owning
      /\ [\A id \in Ids : Owners(id) # {} => Find(cache', id) # {}]_vars
      /\ [PipelineNext]_vars
      => Owning'
  <2>1. SUFFICES ASSUME PipelineTypeOK, PipelineTypeOK', ExecIInv, ExecIInv',
                        Owning, [PipelineNext]_vars,
                        [\A id \in Ids : Owners(id) # {}
                                           => Find(cache', id) # {}]_vars
                 PROVE  Owning'
    OBVIOUS
  <2>2. CASE UNCHANGED vars
    BY <2>1, <2>2, QuietOwning
  <2>3. CASE Stays
    BY <2>1, <2>3, OwningNext
  <2>4. QED BY <2>1, <2>2, <2>3 DEF Stays
<1>3. QED
  BY <1>1, <1>2, PipelineTypeCorrect, TasksKeepExec, PTL
  DEF PipelineSpec, EntriesStay

(* While the ground has sent no more frames than the cache has entries,    *)
(* which command_executor evicts one by one, no command in hand is         *)
(* forgotten.                                                              *)
THEOREM EntriesTheorem ==
  PipelineSpec /\ [](frames <= CacheSize) => EntriesStay
<1>1. PipelineInit => Owning /\ Room
  BY OwningInit
<1>2. /\ PipelineTypeOK /\ PipelineTypeOK' /\ ExecIInv /\ ExecIInv'
      /\ Owning /\ Room /\ frames <= CacheSize /\ [PipelineNext]_vars
      => Owning' /\ Room'
  BY RoomStep, OwningNext
<1>3. PipelineTypeOK /\ PipelineTypeOK' /\ ExecIInv
      /\ Owning /\ Room /\ frames <= CacheSize /\ [PipelineNext]_vars
      => [\A id \in Ids : Owners(id) # {} => Find(cache', id) # {}]_vars
  BY RoomStep DEF Stays
<1>4. QED
  BY <1>1, <1>2, <1>3, PipelineTypeCorrect, TasksKeepExec, PTL
  DEF PipelineSpec, EntriesStay

(* No command is in two places: whatever repetitions, full queues and      *)
(* emergencies there are, one task at a time carries it out, as long as    *)
(* its entry stays.                                                        *)
THEOREM OwnershipTheorem == PipelineSpec /\ EntriesStay => []OwnershipIsSound
<1>1. ASSUME PipelineTypeOK, Owning
      PROVE  OneOwner
  <2>1. SUFFICES ASSUME NEW id \in Ids
                 PROVE  Cardinality(Owners(id)) <= 1
    BY DEF OneOwner
  <2>2. \A p, q \in Owners(id) : p = q
    BY <1>1 DEF Owning, Single
  <2>3. CASE Owners(id) = {}
    BY <2>3, FS_EmptySet
  <2>4. CASE Owners(id) # {}
    <3>1. PICK p : Owners(id) = {p}
      BY <2>2, <2>4
    <3>2. QED BY <3>1, FS_Singleton
  <2>5. QED BY <2>3, <2>4
<1>2. PipelineTypeOK /\ Owning => OwnershipIsSound
  BY <1>1 DEF OwnershipIsSound
<1>3. QED BY <1>2, OwningHolds, PipelineTypeCorrect, PTL

(* What a task still carries out is pending or was ended by an emergency,  *)
(* as long as its entry stays: no task goes on with what was reported.     *)
THEOREM InterruptedTheorem ==
  PipelineSpec /\ EntriesStay => []OnlyInterruptedGoOn
<1>1. ASSUME PipelineTypeOK, ExecIInv, Owning
      PROVE  OnlyInterruptedGoOn
  <2>1. SUFFICES ASSUME NEW id \in Ids, Owners(id) # {}
                 PROVE  /\ Find(cache, id) # {}
                        /\ \/ IsPending(id)
                           \/ EntryOf(id).reason = "interrupted_by_emergency"
    BY DEF OnlyInterruptedGoOn
  <2>2. PICK k \in DOMAIN cache : cache[k].request.id = id /\ Alive(cache[k])
    BY <1>1, <2>1, OwnedIsCarried DEF Carried
  <2>3. Find(cache, id) = {k}
    BY <1>1, <2>2 DEF Find, ExecIInv, Well, Compatible
  <2>4. EntryOf(id) = cache[k]
    <3>1. (CHOOSE j \in {k} : TRUE) = k
      OBVIOUS
    <3>2. QED BY <2>3, <3>1 DEF EntryOf
  <2>5. QED BY <2>2, <2>3, <2>4 DEF Alive, IsPending
<1>2. QED BY <1>1, OwningHolds, PipelineTypeCorrect, TasksKeepExec, PTL

(* A flight begins with nothing moving the parachute but what an emergency *)
(* has ended: its Start is pending until then, and the executor does not   *)
(* let a Start and a move be pending together.                             *)
THEOREM RestTheorem == PipelineSpec /\ EntriesStay => FlightBeginsAtRest
<1>1. ASSUME PipelineTypeOK, ExecIInv, Owning, [PipelineNext]_vars,
             state = "command_receive", state' = "liftoff_detection",
             NEW id \in Ids, IsPending(id),
             NEW place \in {"preparations", "operation", "completion"},
             place \in Owners(id)
      PROVE  FALSE
  <2>1. FinishStart /\ mission.start # NoId
    <3>1. FinishStart
      BY <1>1
      DEF PipelineNext, vars, Receive, Decide, Enqueue, Emergency,
          HandleEmergency, TakeLatch, Transition, EndCalibration, EndFinMove,
          Flies, Flush, Drain, Drive
    <3>2. QED BY <1>1, <3>1 DEF FinishStart
  <2>2. PICK j \in DOMAIN cache : /\ cache[j].request.command \in Starts
                                  /\ Alive(cache[j])
    BY <1>1, <2>1 DEF Owning, MissionCarries, Carried
  <2>3. Pending(cache[j]) /\ DomainOf(cache[j].request.command) = "sequence"
    BY <2>2, DomainFacts DEF Alive
  <2>4. OwnersAre(id) /\ id # NoId
    BY <1>1, PlacesOf, RequestAssumption
  <2>5. Carried(cache, id, Manual)
    <3>1. CASE place = "preparations"
      <4>1. PICK k \in DOMAIN preparations :
              preparations[k].id = id /\ preparations[k].command \in Manual
        BY <1>1, <2>4, <3>1 DEF OwnersAre, Waits
      <4>2. Carried(cache, id, {preparations[k].command})
        BY <1>1, <4>1, StartsAreNotManual DEF Owning, QueuesCarry
      <4>3. {preparations[k].command} \subseteq Manual
        BY <4>1
      <4>4. QED BY <4>2, <4>3, CarriedMore
    <3>2. CASE place \in {"operation", "completion"}
      BY <1>1, <2>4, <3>2 DEF OwnersAre, Owning, ParachuteCarries
    <3>3. QED BY <1>1, <3>1, <3>2
  <2>6. PICK k \in DOMAIN cache : /\ cache[k].request.id = id
                                  /\ cache[k].request.command \in Manual
    BY <2>5 DEF Carried
  <2>7. Pending(cache[k])
    BY <1>1, <2>6 DEF IsPending, Find, ExecIInv, Well, Compatible
  <2>8. Clash(cache[j], cache[k]) /\ j # k
    BY <2>2, <2>3, <2>6 DEF Clash, Manual
  <2>9. QED BY <1>1, <2>3, <2>7, <2>8 DEF ExecIInv, Well, Compatible
<1>2. PipelineTypeOK /\ ExecIInv /\ Owning /\ [PipelineNext]_vars
      => [state = "command_receive" /\ state' = "liftoff_detection" =>
            \A id \in Ids :
              IsPending(id) => Owners(id) \cap {"preparations", "operation",
                                                "completion"} = {}]_vars
  BY <1>1
<1>3. QED
  BY <1>2, OwningHolds, PipelineTypeCorrect, TasksKeepExec, PTL
  DEF PipelineSpec, FlightBeginsAtRest

(* Where the ground sends no more frames than the cache has entries, which *)
(* is what the run checks, nothing needs to be supposed of the behaviour.  *)
THEOREM WithinCacheTheorem ==
  ASSUME MaxSends <= CacheSize
  PROVE  PipelineSpec => /\ []OwnershipIsSound /\ []OnlyInterruptedGoOn
                         /\ FlightBeginsAtRest
<1>1. PipelineTypeOK => frames <= CacheSize
  BY CacheAssumption, QueueAssumption DEF PipelineTypeOK
<1>2. QED
  BY <1>1, PipelineTypeCorrect, EntriesTheorem, OwnershipTheorem,
     InterruptedTheorem, RestTheorem, PTL
-----------------------------------------------------------------------------
(* How far back a repetition is recognised.  An entry that settles becomes *)
(* the youngest, and so leaves Watched older without a new transaction:    *)
(* but it was pending when Watched got its place, or it came after that.   *)
Ahead(c) ==
  {c[k].request.id : k \in {k \in DOMAIN c :
     Pending(c[k]) /\ \E j \in DOMAIN c : k < j /\ c[j].request.id = Watched}}
After(c) ==
  {c[k].request.id : k \in {k \in DOMAIN c :
     \E j \in DOMAIN c : j < k /\ c[j].request.id = Watched}}
InExecution(c) == {c[k].request.id : k \in {k \in DOMAIN c : Pending(c[k])}}

CommandDomains == {DomainOf(x) : x \in Commands}

(* All entries after Watched but those of a few old ids are transactions   *)
(* that were counted.                                                      *)
AccountedFor(c, n, old) ==
  /\ IsFiniteSet(old) /\ Cardinality(old) <= Cardinality(CommandDomains)
  /\ Ahead(c) \subseteq old
  /\ \/ n = CacheSize
     \/ /\ IsFiniteSet(After(c) \ old)
        /\ Cardinality(After(c) \ old) <= n
Watches(c, n) ==
  IF Find(c, Watched) = {} THEN n >= ReplayWindow
  ELSE \E old : AccountedFor(c, n, old)

(* d is c without its entry at index k, if it has one there, and with e    *)
(* added to it.                                                            *)
Renewed(c, d, k, e) ==
  /\ DOMAIN d = 1..Len(d) /\ DOMAIN c = 1..Len(c)
  /\ Len(c) \in Nat /\ Len(d) \in Nat \ {0} /\ k \in Nat
  /\ d[Len(d)] = e
  /\ \A i \in 1..(Len(d) - 1) :
       /\ Shift(i, k) \in DOMAIN c \ {k}
       /\ d[i] = c[Shift(i, k)]
  /\ \A j \in DOMAIN c \ {k} : \E i \in 1..(Len(d) - 1) : Shift(i, k) = j

LEMMA AppendRenews ==
  ASSUME NEW c \in Seq(Entries), NEW e \in Entries
  PROVE  Renewed(c, Append(c, e), Len(c) + 1, e)
<1> DEFINE d == Append(c, e)
<1>1. /\ Len(d) = Len(c) + 1 /\ DOMAIN d = 1..(Len(c) + 1)
      /\ DOMAIN c = 1..Len(c) /\ Len(c) \in Nat
      /\ \A i \in DOMAIN c : d[i] = c[i]
      /\ d[Len(c) + 1] = e
  BY AppendFacts
<1> HIDE DEF d
<1>2. \A i \in 1..Len(c) : Shift(i, Len(c) + 1) = i
  BY <1>1 DEF Shift
<1>3. QED BY <1>1, <1>2 DEF Renewed, d

LEMMA ReplaceRenews ==
  ASSUME NEW c \in Seq(Entries), NEW k \in DOMAIN c, NEW e \in Entries
  PROVE  Renewed(c, Append(RemoveAt(c, k), e), k, e)
<1> DEFINE a == RemoveAt(c, k)
           d == Append(a, e)
<1>1. /\ Len(c) \in Nat /\ DOMAIN c = 1..Len(c) /\ k \in 1..Len(c)
      /\ a \in Seq(Entries) /\ Len(a) = Len(c) - 1
      /\ \A i \in 1..(Len(c) - 1) : Shift(i, k) \in DOMAIN c /\ a[i] = c[Shift(i, k)]
  BY LenProperties, RemoveAtFacts
<1> HIDE DEF a
<1>2. /\ Len(d) = Len(c) /\ DOMAIN d = 1..Len(c) /\ d[Len(c)] = e
      /\ \A i \in 1..(Len(c) - 1) : d[i] = a[i]
  <2>1. /\ Len(d) = Len(a) + 1 /\ DOMAIN d = 1..(Len(a) + 1)
        /\ DOMAIN a = 1..Len(a)
        /\ \A i \in DOMAIN a : d[i] = a[i]
        /\ d[Len(a) + 1] = e
    BY <1>1, AppendFacts
  <2>2. Len(a) + 1 = Len(c)
    BY <1>1
  <2> HIDE DEF d
  <2>3. QED BY <1>1, <2>1, <2>2
<1> HIDE DEF d
<1>3. \A i \in 1..(Len(c) - 1) : Shift(i, k) # k
  BY <1>1 DEF Shift
<1>4. ASSUME NEW j \in DOMAIN c \ {k}
      PROVE  \E i \in 1..(Len(c) - 1) : Shift(i, k) = j
  <2>1. CASE j < k
    <3>1. j \in 1..(Len(c) - 1) /\ Shift(j, k) = j
      BY <2>1, <1>1 DEF Shift
    <3>2. QED BY <3>1
  <2>2. CASE j > k
    <3>1. j - 1 \in 1..(Len(c) - 1) /\ Shift(j - 1, k) = j
      BY <2>2, <1>1 DEF Shift
    <3>2. QED BY <3>1
  <2>3. QED BY <2>1, <2>2, <1>1
<1>5. Renewed(c, d, k, e)
  <2>1. Len(d) \in Nat \ {0} /\ k \in Nat
    BY <1>1, <1>2
  <2>2. QED BY <1>1, <1>2, <1>3, <1>4, <2>1 DEF Renewed
<1>6. QED BY <1>5 DEF d, a

(* Another entry is added: those around Watched keep their order.          *)
LEMMA OtherRenewed ==
  ASSUME NEW c, NEW d, NEW k, NEW e, Renewed(c, d, k, e),
         e.request.id # Watched
  PROVE  /\ After(d) \subseteq After(c) \cup {e.request.id}
         /\ Ahead(d) \subseteq Ahead(c)
<1>1. \A i, j \in 1..(Len(d) - 1) : i < j => Shift(i, k) < Shift(j, k)
  BY DEF Renewed, Shift
<1>2. /\ DOMAIN d = 1..Len(d) /\ Len(d) \in Nat \ {0} /\ d[Len(d)] = e
      /\ \A i \in 1..(Len(d) - 1) : /\ Shift(i, k) \in DOMAIN c
                                    /\ d[i] = c[Shift(i, k)]
  BY DEF Renewed
<1>3. ASSUME NEW x \in After(d), x # e.request.id
      PROVE  x \in After(c)
  <2>1. PICK i \in DOMAIN d : /\ x = d[i].request.id
                              /\ \E j \in DOMAIN d : j < i /\ d[j].request.id = Watched
    BY <1>3 DEF After
  <2>2. PICK j \in DOMAIN d : j < i /\ d[j].request.id = Watched
    BY <2>1
  <2>3. i \in 1..(Len(d) - 1) /\ j \in 1..(Len(d) - 1)
    <3>1. i # Len(d) /\ j # Len(d)
      BY <1>2, <1>3, <2>1, <2>2
    <3>2. QED BY <1>2, <3>1
  <2>4. /\ Shift(j, k) < Shift(i, k)
        /\ Shift(i, k) \in DOMAIN c /\ Shift(j, k) \in DOMAIN c
        /\ c[Shift(i, k)].request.id = x /\ c[Shift(j, k)].request.id = Watched
    BY <1>1, <1>2, <2>1, <2>2, <2>3
  <2>5. QED BY <2>4 DEF After
<1>4. ASSUME NEW x \in Ahead(d)
      PROVE  x \in Ahead(c)
  <2>1. PICK i \in DOMAIN d : /\ x = d[i].request.id /\ Pending(d[i])
                              /\ \E j \in DOMAIN d : i < j /\ d[j].request.id = Watched
    BY <1>4 DEF Ahead
  <2>2. PICK j \in DOMAIN d : i < j /\ d[j].request.id = Watched
    BY <2>1
  <2>3. i \in 1..(Len(d) - 1) /\ j \in 1..(Len(d) - 1)
    <3>1. j # Len(d)
      BY <1>2, <2>2
    <3>2. QED BY <1>2, <2>2, <3>1
  <2>4. /\ Shift(i, k) < Shift(j, k)
        /\ Shift(i, k) \in DOMAIN c /\ Shift(j, k) \in DOMAIN c
        /\ c[Shift(i, k)].request.id = x /\ Pending(c[Shift(i, k)])
        /\ c[Shift(j, k)].request.id = Watched
    BY <1>1, <1>2, <2>1, <2>2, <2>3
  <2>5. QED BY <2>4 DEF Ahead
<1>5. QED BY <1>3, <1>4

(* Pending entries have different domains, so that there are few.          *)
LEMMA FewInExecution ==
  ASSUME NEW c, Well(c)
  PROVE  /\ IsFiniteSet(InExecution(c)) /\ IsFiniteSet(CommandDomains)
         /\ Cardinality(InExecution(c)) <= Cardinality(CommandDomains)
         /\ Cardinality(CommandDomains) \in Nat
<1> DEFINE P == {k \in DOMAIN c : Pending(c[k])}
           f == [k \in P |-> DomainOf(c[k].request.command)]
           g == [k \in P |-> c[k].request.id]
<1>1. IsFiniteSet(CommandDomains)
  <2> DEFINE h == [x \in Commands |-> DomainOf(x)]
  <2>1. h \in Surjection(Commands, CommandDomains)
    BY DEF Surjection, CommandDomains
  <2>2. QED BY <2>1, FS_Surjection, RequestAssumption
<1>2. /\ DOMAIN c = 1..Len(c) /\ Len(c) \in Nat
      /\ \A k \in DOMAIN c : c[k] \in Entries
      /\ \A i, j \in DOMAIN c : i # j => Compatible(c[i], c[j])
  BY LenProperties, ElementOfSeq DEF Well
<1>3. f \in Injection(P, CommandDomains)
  <2>1. \A k \in P : DomainOf(c[k].request.command) \in CommandDomains
    BY <1>2 DEF Entries, Requests, CommandDomains
  <2>2. \A i, j \in P : DomainOf(c[i].request.command) = DomainOf(c[j].request.command)
                          => i = j
    BY <1>2 DEF Compatible
  <2>3. QED BY <2>1, <2>2 DEF Injection, IsInjective
<1>4. IsFiniteSet(P) /\ Cardinality(P) <= Cardinality(CommandDomains)
  <2> HIDE DEF f, P
  <2>1. QED BY <1>1, <1>3, FS_Injection
<1>5. g \in Surjection(P, InExecution(c))
  <2>1. \A x \in InExecution(c) : \E k \in P : x = c[k].request.id
    BY DEF InExecution
  <2>2. \A k \in P : c[k].request.id \in InExecution(c)
    BY DEF InExecution
  <2> HIDE DEF P
  <2>3. QED BY <2>1, <2>2 DEF Surjection
<1>6. /\ IsFiniteSet(InExecution(c))
      /\ Cardinality(InExecution(c)) <= Cardinality(P)
  <2> HIDE DEF g, P
  <2>1. QED BY <1>4, <1>5, FS_Surjection
<1>7. /\ Cardinality(P) \in Nat /\ Cardinality(InExecution(c)) \in Nat
      /\ Cardinality(CommandDomains) \in Nat
  <2> HIDE DEF P
  <2>1. QED BY <1>1, <1>4, <1>6, FS_CardinalityType
<1>8. QED BY <1>1, <1>4, <1>6, <1>7

(* Watched gets the youngest entry.                                        *)
LEMMA WatchedRenewed ==
  ASSUME NEW c, NEW d, Well(d), NEW k, NEW e, Renewed(c, d, k, e),
         e.request.id = Watched, NEW n \in Nat
  PROVE  Watches(d, n)
<1>1. /\ DOMAIN d = 1..Len(d) /\ Len(d) \in Nat \ {0} /\ d[Len(d)] = e
      /\ \A i, j \in DOMAIN d : d[i].request.id = d[j].request.id => i = j
  BY DEF Renewed, Well, Compatible
<1>2. \A j \in DOMAIN d : d[j].request.id = Watched => j = Len(d)
  BY <1>1
<1>3. After(d) = {}
  BY <1>1, <1>2 DEF After
<1>4. Ahead(d) \subseteq InExecution(d)
  BY DEF Ahead, InExecution
<1>5. Find(d, Watched) # {}
  BY <1>1 DEF Find
<1>6. After(d) \ InExecution(d) = {}
  BY <1>3
<1>7. AccountedFor(d, n, InExecution(d))
  BY <1>4, <1>6, FewInExecution, FS_EmptySet DEF AccountedFor
<1>8. QED BY <1>5, <1>7 DEF Watches

(* The ids of c, and that of e.                                            *)
LEMMA RenewedIds ==
  ASSUME NEW c, NEW d, NEW k, NEW e, Renewed(c, d, k, e), NEW id
  PROVE  Find(d, id) # {} <=>
           \/ id = e.request.id
           \/ \E j \in DOMAIN c \ {k} : c[j].request.id = id
<1>1. /\ DOMAIN d = 1..Len(d) /\ Len(d) \in Nat \ {0} /\ d[Len(d)] = e
      /\ \A i \in 1..(Len(d) - 1) : /\ Shift(i, k) \in DOMAIN c \ {k}
                                    /\ d[i] = c[Shift(i, k)]
      /\ \A j \in DOMAIN c \ {k} : \E i \in 1..(Len(d) - 1) : Shift(i, k) = j
  BY DEF Renewed
<1>2. ASSUME NEW i \in DOMAIN d, d[i].request.id = id, id # e.request.id
      PROVE  \E j \in DOMAIN c \ {k} : c[j].request.id = id
  <2>1. i \in 1..(Len(d) - 1)
    BY <1>1, <1>2
  <2>2. QED BY <1>1, <1>2, <2>1
<1>3. ASSUME NEW j \in DOMAIN c \ {k}, c[j].request.id = id
      PROVE  \E i \in DOMAIN d : d[i].request.id = id
  <2>1. PICK i \in 1..(Len(d) - 1) : Shift(i, k) = j
    BY <1>1
  <2>2. i \in DOMAIN d /\ d[i] = c[j]
    BY <1>1, <2>1
  <2>3. QED BY <1>3, <2>2
<1>4. Len(d) \in DOMAIN d
  BY <1>1
<1>5. QED BY <1>1, <1>2, <1>3, <1>4 DEF Find

(* An outcome, of Watched or of another transaction.                       *)
SameIds(c, d) == \A id : Find(c, id) = {} <=> Find(d, id) = {}
Unmoved(c, d) == /\ SameIds(c, d)
                 /\ \A n \in Nat : Watches(c, n) => Watches(d, n)

LEMMA SettleWatches ==
  ASSUME NEW c, Well(c), NEW k \in DOMAIN c, Pending(c[k]),
         NEW phase \in Outcomes, NEW reason \in Reasons
  PROVE  Unmoved(c, Settle(c, k, phase, reason))
<1> DEFINE d == Settle(c, k, phase, reason)
           e == [c[k] EXCEPT !.phase = phase, !.reason = reason]
           x == c[k].request.id
<1>1. /\ c \in Seq(Entries) /\ c[k] \in Entries
      /\ DOMAIN c = 1..Len(c) /\ Len(c) \in Nat
  BY LenProperties, ElementOfSeq DEF Well
<1>2. e \in Entries /\ e.request = c[k].request
  BY <1>1 DEF Entries, Outcomes, Phases
<1>3. Renewed(c, d, k, e)
  <2> HIDE DEF e
  <2>1. Renewed(c, Append(RemoveAt(c, k), e), k, e)
    BY <1>1, <1>2, ReplaceRenews
  <2>2. QED BY <2>1 DEF Settle, e
<1>4. Well(d)
  BY SettleWell
<1> HIDE DEF d, e
<1>5. SameIds(c, d)
  <2>1. ASSUME NEW id
        PROVE  Find(d, id) # {} <=> Find(c, id) # {}
    <3>1. Find(d, id) # {} <=>
            id = x \/ \E j \in DOMAIN c \ {k} : c[j].request.id = id
      BY <1>2, <1>3, RenewedIds
    <3>2. QED BY <3>1 DEF Find
  <2>2. QED BY <2>1 DEF SameIds
<1>6. ASSUME NEW n \in Nat, Watches(c, n)
      PROVE  Watches(d, n)
  <2>1. CASE x = Watched
    BY <1>2, <1>3, <1>4, <2>1, WatchedRenewed
  <2>2. CASE x # Watched /\ Find(c, Watched) = {}
    BY <1>5, <1>6, <2>2 DEF Watches, SameIds
  <2>3. CASE x # Watched /\ Find(c, Watched) # {}
    <3>1. PICK old : AccountedFor(c, n, old)
      BY <1>6, <2>3 DEF Watches
    <3>2. /\ After(d) \subseteq After(c) \cup {x}
          /\ Ahead(d) \subseteq Ahead(c)
      BY <1>2, <1>3, <2>3, OtherRenewed
    <3>3. x \in After(c) \cup Ahead(c)
      <4>1. PICK j \in DOMAIN c : c[j].request.id = Watched
        BY <2>3 DEF Find
      <4>2. j < k \/ k < j
        BY <1>1, <2>3, <4>1
      <4>3. CASE j < k
        BY <4>1, <4>3 DEF After
      <4>4. CASE k < j
        BY <4>1, <4>4 DEF Ahead
      <4>5. QED BY <4>2, <4>3, <4>4
    <3>4. Ahead(d) \subseteq old /\ After(d) \ old \subseteq After(c) \ old
      BY <3>1, <3>2, <3>3 DEF AccountedFor
    <3>5. CASE n = CacheSize
      BY <3>1, <3>4, <3>5, <1>5, <2>3 DEF AccountedFor, Watches, SameIds
    <3>6. CASE n # CacheSize
      <4>1. /\ IsFiniteSet(After(c) \ old)
            /\ Cardinality(After(c) \ old) <= n
        BY <3>1, <3>6 DEF AccountedFor
      <4>2. /\ IsFiniteSet(After(d) \ old)
            /\ Cardinality(After(d) \ old) <= Cardinality(After(c) \ old)
        BY <3>4, <4>1, FS_Subset
      <4>3. Cardinality(After(d) \ old) <= n
        BY <4>1, <4>2, FS_CardinalityType
      <4>4. QED
        BY <3>1, <3>4, <4>2, <4>3, <1>5, <2>3
        DEF AccountedFor, Watches, SameIds
    <3>7. QED BY <3>5, <3>6
  <2>4. QED BY <2>1, <2>2, <2>3
<1>7. QED BY <1>5, <1>6 DEF Unmoved, d

(* A new transaction, counted with those since Watched.                    *)
Counted(n) == IF n < CacheSize THEN n + 1 ELSE n

LEMMA OneMore ==
  ASSUME NEW S, IsFiniteSet(S), NEW x
  PROVE  /\ IsFiniteSet(S \cup {x})
         /\ Cardinality(S \cup {x}) <= Cardinality(S) + 1
<1>1. Cardinality(S) \in Nat
  BY FS_CardinalityType
<1>2. /\ IsFiniteSet(S \cup {x})
      /\ Cardinality(S \cup {x}) =
           IF x \in S THEN Cardinality(S) ELSE Cardinality(S) + 1
  BY FS_AddElement
<1>3. QED BY <1>1, <1>2

LEMMA AddedWatches ==
  ASSUME NEW c, NEW d, NEW k, NEW e, Renewed(c, d, k, e),
         e.request.id # Watched,
         \A j \in DOMAIN c : c[j].request.id = Watched => j # k,
         NEW n \in 0..CacheSize, Watches(c, n)
  PROVE  Watches(d, Counted(n))
<1>0. CacheSize \in Nat /\ Counted(n) \in 0..CacheSize /\ Counted(n) >= n
      /\ (n = CacheSize => Counted(n) = CacheSize)
      /\ (n # CacheSize => Counted(n) = n + 1)
  BY CacheAssumption DEF Counted
<1>1. Find(d, Watched) # {} <=> Find(c, Watched) # {}
  BY RenewedIds DEF Find
<1>2. CASE Find(c, Watched) = {}
  <2>1. n >= ReplayWindow
    BY <1>2 DEF Watches
  <2>2. ReplayWindow \in Int
    <3>1. PICK m \in Nat : m = Cardinality(CommandDomains)
      <4> DEFINE h == [y \in Commands |-> DomainOf(y)]
      <4>1. h \in Surjection(Commands, CommandDomains)
        BY DEF Surjection, CommandDomains
      <4>2. QED BY <4>1, FS_Surjection, FS_CardinalityType, RequestAssumption
    <3>2. QED BY <1>0, <3>1 DEF ReplayWindow, CommandDomains
  <2>3. Counted(n) >= ReplayWindow
    BY <1>0, <2>1, <2>2
  <2>4. QED BY <1>1, <1>2, <2>3 DEF Watches
<1>3. CASE Find(c, Watched) # {}
  <2>1. PICK old : AccountedFor(c, n, old)
    BY <1>3 DEF Watches
  <2>2. /\ After(d) \subseteq After(c) \cup {e.request.id}
        /\ Ahead(d) \subseteq Ahead(c)
    BY OtherRenewed
  <2>3. Ahead(d) \subseteq old
    BY <2>1, <2>2 DEF AccountedFor
  <2>4. CASE n = CacheSize
    BY <1>0, <1>1, <1>3, <2>1, <2>3, <2>4 DEF AccountedFor, Watches
  <2>5. CASE n # CacheSize
    <3> DEFINE more == (After(c) \ old) \cup {e.request.id}
    <3>1. /\ IsFiniteSet(After(c) \ old)
          /\ Cardinality(After(c) \ old) <= n
          /\ Cardinality(After(c) \ old) \in Nat
      BY <2>1, <2>5, FS_CardinalityType DEF AccountedFor
    <3>2. /\ IsFiniteSet(more)
          /\ Cardinality(more) <= Cardinality(After(c) \ old) + 1
      BY <3>1, OneMore
    <3>3. After(d) \ old \subseteq more
      BY <2>2
    <3> HIDE DEF more
    <3>4. /\ IsFiniteSet(After(d) \ old)
          /\ Cardinality(After(d) \ old) <= Cardinality(more)
      BY <3>2, <3>3, FS_Subset
    <3>5. Cardinality(more) \in Nat /\ Cardinality(After(d) \ old) \in Nat
      BY <3>2, <3>4, FS_CardinalityType
    <3>6. Cardinality(After(d) \ old) <= Counted(n)
      BY <1>0, <2>5, <3>1, <3>2, <3>4, <3>5
    <3>7. AccountedFor(d, Counted(n), old)
      BY <2>1, <2>3, <3>4, <3>6 DEF AccountedFor
    <3>8. QED BY <1>1, <1>3, <3>7 DEF Watches
  <2>6. QED BY <2>4, <2>5
<1>4. QED BY <1>2, <1>3

(* Watched is evicted: only now has a repetition of it become a new        *)
(* transaction, and the cache was full of what is accounted for.           *)
LEMMA EvictedWatches ==
  ASSUME NEW c, Well(c), Len(c) = CacheSize, Settled(c) # {},
         NEW d, NEW e, Renewed(c, d, Min(Settled(c)), e),
         e.request.id # Watched,
         c[Min(Settled(c))].request.id = Watched,
         NEW n \in 0..CacheSize, Watches(c, n)
  PROVE  Watches(d, Counted(n))
<1> DEFINE k == Min(Settled(c))
           N == Cardinality(CommandDomains)
<1>0. CacheSize \in Nat /\ Counted(n) \in 0..CacheSize /\ N \in Nat
      /\ (n = CacheSize => Counted(n) = CacheSize)
      /\ (n # CacheSize => Counted(n) = n + 1)
  BY CacheAssumption, FewInExecution DEF Counted
<1>1. /\ DOMAIN c = 1..Len(c) /\ Len(c) \in Nat
      /\ \A i, j \in DOMAIN c : i # j => c[i].request.id # c[j].request.id
  BY LenProperties DEF Well, Compatible
<1>2. /\ k \in DOMAIN c
      /\ \A i \in DOMAIN c : i < k => Pending(c[i])
  <2>1. Settled(c) \in SUBSET Nat
    BY <1>1 DEF Settled
  <2>2. k \in Settled(c) /\ \A y \in Settled(c) : k <= y
    BY <2>1, MinFacts
  <2> HIDE DEF k
  <2>3. k \in DOMAIN c /\ k \in Nat
    BY <1>1, <2>2 DEF Settled
  <2>4. ASSUME NEW i \in DOMAIN c, i < k
        PROVE  Pending(c[i])
    <3>1. i \in Settled(c) => k <= i
      BY <2>2
    <3>2. i \in Nat
      BY <1>1
    <3>3. i \notin Settled(c)
      BY <2>3, <2>4, <3>1, <3>2
    <3>4. QED BY <3>3 DEF Settled
  <2>5. QED BY <2>3, <2>4
<1>3. c[k].request.id = Watched /\ Renewed(c, d, k, e)
  OBVIOUS
<1> HIDE DEF k
<1>4. Find(d, Watched) = {}
  BY <1>1, <1>2, <1>3, RenewedIds
<1>5. Find(c, Watched) # {}
  BY <1>2, <1>3 DEF Find
<1>6. PICK old : AccountedFor(c, n, old)
  BY <1>5 DEF Watches
<1>7. CASE n = CacheSize
  <2>1. Counted(n) >= ReplayWindow
    BY <1>0, <1>7 DEF ReplayWindow, CommandDomains
  <2>2. QED BY <1>4, <2>1 DEF Watches
<1>8. CASE n # CacheSize
  <2> DEFINE I == DOMAIN c \ {k}
             ids == {c[i].request.id : i \in I}
             new == After(c) \ old
             f == [i \in I |-> c[i].request.id]
  <2>1. IsFiniteSet(I) /\ Cardinality(I) = CacheSize - 1
    <3>1. IsFiniteSet(DOMAIN c) /\ Cardinality(DOMAIN c) = CacheSize
      BY <1>0, <1>1, FS_Interval
    <3>2. QED BY <1>2, <3>1, FS_RemoveElement
  <2>2. f \in Injection(I, ids) /\ f \in Surjection(I, ids)
    <3>1. f \in [I -> ids] /\ \A i, j \in I : f[i] = f[j] => i = j
      BY <1>1
    <3>2. \A y \in ids : \E i \in I : f[i] = y
      OBVIOUS
    <3> HIDE DEF f, I, ids
    <3>3. QED BY <3>1, <3>2 DEF Injection, IsInjective, Surjection
  <2>3. IsFiniteSet(ids) /\ Cardinality(ids) = CacheSize - 1
    <3> HIDE DEF f, I, ids
    <3>1. QED BY <2>1, <2>2, FS_Surjection
  <2>4. ids \subseteq old \cup new
    <3>1. SUFFICES ASSUME NEW i \in I
                   PROVE  c[i].request.id \in old \cup new
      OBVIOUS
    <3>2. i \in Nat /\ k \in Nat /\ (i < k \/ k < i)
      BY <1>1, <1>2
    <3>3. CASE i < k
      <4>1. c[i].request.id \in Ahead(c)
        BY <1>2, <1>3, <3>3 DEF Ahead
      <4>2. QED BY <1>6, <4>1 DEF AccountedFor
    <3>4. CASE k < i
      <4>1. c[i].request.id \in After(c)
        BY <1>2, <1>3, <3>4 DEF After
      <4>2. QED BY <4>1
    <3>5. QED BY <3>2, <3>3, <3>4
  <2>5. /\ IsFiniteSet(old) /\ Cardinality(old) <= N
        /\ IsFiniteSet(new) /\ Cardinality(new) <= n
    BY <1>6, <1>8 DEF AccountedFor
  <2> HIDE DEF ids, new, I, f
  <2>6. /\ IsFiniteSet(old \cup new) /\ IsFiniteSet(old \cap new)
        /\ Cardinality(old \cup new) =
             Cardinality(old) + Cardinality(new) - Cardinality(old \cap new)
    BY <2>5, FS_Union, FS_Intersection
  <2>7. Cardinality(ids) <= Cardinality(old \cup new)
    BY <2>4, <2>6, FS_Subset
  <2>8. /\ Cardinality(old) \in Nat /\ Cardinality(new) \in Nat
        /\ Cardinality(old \cap new) \in Nat
        /\ Cardinality(old \cup new) \in Nat
    BY <2>5, <2>6, FS_CardinalityType
  <2>9. CacheSize - N <= n + 1
    <3> HIDE DEF N
    <3>1. QED BY <1>0, <2>3, <2>5, <2>6, <2>7, <2>8
  <2>10. Counted(n) >= ReplayWindow
    <3>1. ReplayWindow = CacheSize - N
      BY DEF ReplayWindow, CommandDomains
    <3> HIDE DEF N
    <3>2. QED BY <1>0, <1>8, <2>9, <3>1
  <2>11. QED BY <1>4, <2>10 DEF Watches
<1>9. QED BY <1>7, <1>8

LEMMA AtMost ==
  \A a, b \in Nat : a <= b /\ ~(a < b) => a = b
OBVIOUS

LEMMA RememberWatches ==
  ASSUME NEW c, Well(c), NEW e \in Entries, Find(c, e.request.id) = {},
         \A k \in DOMAIN c : Compatible(c[k], e)
  PROVE  \/ Remember(c, e) = c
         \/ LET d == Remember(c, e) IN
              /\ Find(d, e.request.id) # {}
              /\ \A id : id # e.request.id /\ Find(c, id) = {} => Find(d, id) = {}
              /\ e.request.id = Watched => Watches(d, 0)
              /\ e.request.id # Watched =>
                   \A n \in 0..CacheSize : Watches(c, n) => Watches(d, Counted(n))
<1> DEFINE d == Remember(c, e)
           x == e.request.id
<1>1. /\ c \in Seq(Entries) /\ DOMAIN c = 1..Len(c) /\ Len(c) \in Nat
      /\ Len(c) <= CacheSize /\ CacheSize \in Nat
  BY LenProperties, CacheAssumption DEF Well
<1>2. Well(d)
  BY RememberWell
<1>3. ASSUME NEW k, Renewed(c, d, k, e)
      PROVE  /\ Find(d, x) # {}
             /\ \A id : id # x /\ Find(c, id) = {} => Find(d, id) = {}
             /\ x = Watched => Watches(d, 0)
  <2> HIDE DEF d
  <2>1. Find(d, x) # {}
    BY <1>3, RenewedIds
  <2>2. ASSUME NEW id, id # x, Find(c, id) = {}
        PROVE  Find(d, id) = {}
    <3>1. \A j \in DOMAIN c : c[j].request.id # id
      BY <2>2 DEF Find
    <3>2. Find(d, id) # {} <=>
            id = x \/ \E j \in DOMAIN c \ {k} : c[j].request.id = id
      BY <1>3, RenewedIds
    <3>3. QED BY <2>2, <3>1, <3>2, Zenon
  <2>3. x = Watched => Watches(d, 0)
    BY <1>2, <1>3, WatchedRenewed
  <2>4. QED BY <2>1, <2>2, <2>3
<1>4. CASE Len(c) < CacheSize
  <2>1. d = Append(c, e)
    BY <1>4 DEF Remember
  <2>2. Renewed(c, d, Len(c) + 1, e)
    BY <1>1, <2>1, AppendRenews
  <2> HIDE DEF d
  <2>3. \A j \in DOMAIN c : j # Len(c) + 1
    BY <1>1
  <2>4. x # Watched =>
          \A n \in 0..CacheSize : Watches(c, n) => Watches(d, Counted(n))
    BY <2>2, <2>3, AddedWatches
  <2>5. QED BY <1>3, <2>2, <2>4 DEF d
<1>5. CASE ~(Len(c) < CacheSize) /\ Settled(c) = {}
  BY <1>5 DEF Remember
<1>6. CASE ~(Len(c) < CacheSize) /\ Settled(c) # {}
  <2> DEFINE k == Min(Settled(c))
  <2>1. d = Append(RemoveAt(c, k), e)
    BY <1>6 DEF Remember
  <2>2. k \in DOMAIN c
    <3>1. Settled(c) \in SUBSET Nat
      BY <1>1 DEF Settled
    <3>2. k \in Settled(c)
      BY <1>6, <3>1, MinFacts
    <3>3. QED BY <3>2 DEF Settled
  <2>3. Renewed(c, d, k, e)
    <3> HIDE DEF k, d
    <3>1. QED BY <1>1, <2>1, <2>2, ReplaceRenews
  <2>4. Len(c) = CacheSize
    BY <1>1, <1>6, AtMost
  <2> HIDE DEF d
  <2>5. ASSUME x # Watched, NEW n \in 0..CacheSize, Watches(c, n)
        PROVE  Watches(d, Counted(n))
    <3>1. CASE c[k].request.id = Watched
      BY <1>6, <2>3, <2>4, <2>5, <3>1, EvictedWatches
    <3>2. CASE c[k].request.id # Watched
      <4> HIDE DEF k
      <4>1. \A j \in DOMAIN c : c[j].request.id = Watched => j # k
        BY <3>2
      <4>2. QED BY <2>3, <2>5, <4>1, AddedWatches
    <3>3. QED BY <3>1, <3>2
  <2>6. /\ Find(d, x) # {}
        /\ \A id : id # x /\ Find(c, id) = {} => Find(d, id) = {}
        /\ x = Watched => Watches(d, 0)
    <3> HIDE DEF k
    <3>1. QED BY <1>3, <2>3
  <2>7. QED BY <2>5, <2>6 DEF d
<1>7. QED BY <1>4, <1>5, <1>6

(* The steps of the executor: none makes a transaction known but begin,    *)
(* and that only one.                                                      *)
Begun(c, d) ==
  \E e \in Entries :
    /\ Find(c, e.request.id) = {} /\ Find(d, e.request.id) # {}
    /\ \A id : id # e.request.id /\ Find(c, id) = {} => Find(d, id) = {}
    /\ e.request.id = Watched => Watches(d, 0)
    /\ e.request.id # Watched =>
         \A n \in 0..CacheSize : Watches(c, n) => Watches(d, Counted(n))

LEMMA StayUnmoved == \A c : Unmoved(c, c)
BY DEF Unmoved, SameIds

LEMMA BeginWatches ==
  ASSUME NEW c, Well(c), NEW g, NEW ctx,
         NEW r \in [id : Ids \cup {NoId}, command : Commands, args : Payloads]
  PROVE  \/ Unmoved(c, Begin(c, g, r, ctx).cache)
         \/ Begun(c, Begin(c, g, r, ctx).cache)
<1> DEFINE d == Begin(c, g, r, ctx)
<1>1. CASE r.id = NoId
  <2>1. d.cache = c
    BY <1>1 DEF Begin
  <2>2. QED BY <2>1, StayUnmoved
<1>2. CASE r.id # NoId
  <2> HIDE DEF d
  <2>0. r \in Requests
    BY <1>2 DEF Requests
  <2>1. ASSUME d.cache = c
        PROVE  Unmoved(c, d.cache) \/ Begun(c, d.cache)
    BY <2>1, StayUnmoved
  <2>2. ASSUME NEW e \in Entries, e.request = r, Find(c, r.id) = {},
               \A k \in DOMAIN c : Compatible(c[k], e),
               d.cache = Remember(c, e)
        PROVE  Unmoved(c, d.cache) \/ Begun(c, d.cache)
    <3>1. CASE d.cache = c
      BY <2>1, <3>1
    <3>2. CASE d.cache # c
      <4>1. /\ Find(d.cache, e.request.id) # {}
            /\ \A id : id # e.request.id /\ Find(c, id) = {}
                  => Find(d.cache, id) = {}
            /\ e.request.id = Watched => Watches(d.cache, 0)
            /\ e.request.id # Watched =>
                 \A n \in 0..CacheSize :
                   Watches(c, n) => Watches(d.cache, Counted(n))
        BY <2>2, <3>2, RememberWatches
      <4>2. QED BY <2>2, <4>1 DEF Begun
    <3>3. QED BY <3>1, <3>2
  <2>3. \/ d.cache = c /\ d.execute = FALSE
        \/ \E e \in Entries :
             /\ e.request = r /\ Find(c, r.id) = {}
             /\ \A k \in DOMAIN c : Compatible(c[k], e)
             /\ d.cache = Remember(c, e)
             /\ d.execute => Carried(d.cache, r.id, {r.command})
    BY <2>0, BeginCases DEF d
  <2>4. Unmoved(c, d.cache) \/ Begun(c, d.cache)
    BY <2>1, <2>2, <2>3
  <2>5. QED BY <2>4 DEF d
<1>3. QED BY <1>1, <1>2

LEMMA InterruptWatches ==
  ASSUME NEW c, Well(c), NEW domain
  PROVE  Unmoved(c, Interrupt(c, domain))
<1> DEFINE of == {k \in DOMAIN c : /\ Pending(c[k])
                                   /\ DomainOf(c[k].request.command) = domain}
           k == CHOOSE i \in of : TRUE
<1>1. CASE of = {}
  BY <1>1, StayUnmoved DEF Interrupt
<1>2. CASE of # {}
  <2>1. k \in of
    BY <1>2
  <2>2. k \in DOMAIN c /\ Pending(c[k])
    BY <2>1
  <2>3. Interrupt(c, domain) =
          Settle(c, k, "failed", "interrupted_by_emergency")
    BY <1>2 DEF Interrupt
  <2> HIDE DEF k, of
  <2>4. "failed" \in Outcomes /\ "interrupted_by_emergency" \in Reasons
    BY DEF Outcomes, Reasons
  <2>5. QED BY <2>2, <2>3, <2>4, SettleWatches
<1>3. QED BY <1>1, <1>2

LEMMA StepWatches ==
  ASSUME ExecIInv, Next
  PROVE  Unmoved(cache, cache') \/ Begun(cache, cache')
<1>0. Well(cache)
  BY DEF ExecIInv
<1>1. ASSUME NEW r \in [id : Ids \cup {NoId}, command : Commands,
                        args : Payloads],
             NEW ctx \in Contexts, BeginCommand(r, ctx)
      PROVE  Unmoved(cache, cache') \/ Begun(cache, cache')
  BY <1>0, <1>1, BeginWatches DEF BeginCommand
<1>2. ASSUME NEW id \in Ids, NEW phase \in Outcomes, NEW reason \in Reasons,
             FinishCommand(id, phase, reason)
      PROVE  Unmoved(cache, cache')
  <2>1. cache' = Finish(cache, id, phase, reason)
    BY <1>2 DEF FinishCommand
  <2>2. CASE Unfinished(cache, id) = {}
    BY <2>1, <2>2, StayUnmoved DEF Finish
  <2>3. CASE Unfinished(cache, id) # {}
    <3> DEFINE k == CHOOSE i \in Unfinished(cache, id) : TRUE
    <3>1. k \in Unfinished(cache, id)
      BY <2>3
    <3>2. k \in DOMAIN cache /\ Pending(cache[k])
      BY <3>1 DEF Unfinished, Find
    <3>3. cache' = Settle(cache, k, phase, reason)
      BY <2>1, <2>3 DEF Finish
    <3> HIDE DEF k
    <3>4. QED BY <1>0, <3>2, <3>3, SettleWatches
  <2>4. QED BY <2>2, <2>3
<1>3. ASSUME NEW id \in Ids, NEW s \in MissionStates,
             ActuatorEmergency(id, s)
      PROVE  Unmoved(cache, cache')
  <2>1. ASSUME NEW one, NEW two,
               cache' = Interrupt(Interrupt(cache, one), two)
        PROVE  Unmoved(cache, cache')
    <3>1. Unmoved(cache, Interrupt(cache, one)) /\ Well(Interrupt(cache, one))
      BY <1>0, InterruptWatches, InterruptWell
    <3>2. Unmoved(Interrupt(cache, one), cache')
      BY <2>1, <3>1, InterruptWatches
    <3>3. QED BY <3>1, <3>2 DEF Unmoved, SameIds
  <2>2. QED BY <1>3, <2>1 DEF ActuatorEmergency, Interruptions
<1>4. ASSUME NEW usable \in BOOLEAN, NEW inside \in BOOLEAN,
             ObserveFin(usable, inside)
      PROVE  Unmoved(cache, cache')
  BY <1>4, StayUnmoved DEF ObserveFin
<1>5. QED BY <1>1, <1>2, <1>3, <1>4 DEF Next

(* The invariant, with the history of the repetitions.                     *)
ReplayIInv == ExecIInv /\ since \in 0..CacheSize /\ Watches(cache, since)

LEMMA ReplayInit == MCInit => ReplayIInv
<1>1. SUFFICES ASSUME MCInit PROVE ReplayIInv
  OBVIOUS
<1>2. Well(cache) /\ ExecIInv /\ DOMAIN cache = {}
  <2>1. cache = <<>> /\ <<>> \in Seq(Entries) /\ Len(<<>>) = 0
        /\ DOMAIN <<>> = {}
    BY <1>1 DEF MCInit, Init
  <2>2. QED BY <1>1, <2>1, CacheAssumption DEF MCInit, Init, ExecIInv, Well
<1>3. Find(cache, Watched) = {}
  BY <1>2 DEF Find
<1>4. since = CacheSize /\ CacheSize \in Nat
  BY <1>1, CacheAssumption DEF MCInit
<1>5. Cardinality(CommandDomains) \in Nat
  BY <1>2, FewInExecution
<1>6. since >= ReplayWindow
  BY <1>4, <1>5 DEF ReplayWindow, CommandDomains
<1>7. QED BY <1>2, <1>3, <1>4, <1>6 DEF ReplayIInv, Watches

LEMMA ReplayStep ==
  ASSUME ReplayIInv, [MCNext]_<<execVars, since>>
  PROVE  ReplayIInv' /\ (New(Watched) => since >= ReplayWindow)
<1>0. /\ ExecIInv /\ since \in 0..CacheSize /\ Watches(cache, since)
      /\ CacheSize \in Nat /\ since \in Nat
  BY CacheAssumption DEF ReplayIInv
<1>1. New(Watched) => since >= ReplayWindow
  BY <1>0 DEF New, Watches
<1>2. ExecIInv'
  BY <1>0, StepWell DEF MCNext, execVars
<1>3. CASE UNCHANGED <<execVars, since>>
  <2>1. cache' = cache /\ since' = since
    BY <1>3 DEF execVars
  <2>2. Watches(cache', since')
    BY <1>0, <2>1
  <2>3. QED BY <1>0, <1>1, <1>2, <2>1, <2>2 DEF ReplayIInv
<1>4. CASE Next /\ Count
  <2>1. Unmoved(cache, cache') \/ Begun(cache, cache')
    BY <1>0, <1>4, StepWatches
  <2>2. CASE Unmoved(cache, cache')
    <3>1. \A id : ~New(id)
      BY <2>2 DEF Unmoved, SameIds, New
    <3>2. since' = since
      BY <1>4, <3>1 DEF Count
    <3>3. Watches(cache', since)
      BY <1>0, <2>2 DEF Unmoved
    <3>4. QED BY <1>0, <1>1, <1>2, <3>2, <3>3 DEF ReplayIInv
  <2>3. CASE Begun(cache, cache')
    <3>1. PICK e \in Entries :
            /\ Find(cache, e.request.id) = {} /\ Find(cache', e.request.id) # {}
            /\ \A id : id # e.request.id /\ Find(cache, id) = {}
                  => Find(cache', id) = {}
            /\ e.request.id = Watched => Watches(cache', 0)
            /\ e.request.id # Watched =>
                 \A n \in 0..CacheSize :
                   Watches(cache, n) => Watches(cache', Counted(n))
      BY <2>3 DEF Begun
    <3>2. \A id : New(id) <=> id = e.request.id
      BY <3>1 DEF New
    <3>3. CASE e.request.id = Watched
      <4>1. since' = 0
        BY <1>4, <3>2, <3>3 DEF Count
      <4>2. since' \in 0..CacheSize /\ Watches(cache', since')
        BY <1>0, <3>1, <3>3, <4>1
      <4>3. QED BY <1>1, <1>2, <4>2 DEF ReplayIInv
    <3>4. CASE e.request.id # Watched
      <4>1. e.request.id \in Ids
        BY DEF Entries, Requests
      <4>2. since' = Counted(since)
        <5>1. ~New(Watched) /\ \E id \in Ids \ {Watched} : New(id)
          BY <3>2, <3>4, <4>1
        <5>2. QED BY <1>4, <5>1 DEF Count, Counted
      <4>3. Counted(since) \in 0..CacheSize
        BY <1>0 DEF Counted
      <4>4. Watches(cache', Counted(since))
        BY <1>0, <3>1, <3>4
      <4>5. QED BY <1>1, <1>2, <4>2, <4>3, <4>4 DEF ReplayIInv
    <3>5. QED BY <3>3, <3>4
  <2>4. QED BY <2>1, <2>2, <2>3
<1>5. QED BY <1>3, <1>4 DEF MCNext

(* A repetition is answered from the cache, and its command not carried    *)
(* out again, until as many new transactions came in between as the cache  *)
(* has entries, less one for each domain: whatever is pending meanwhile,   *)
(* finishes late or is ended by an emergency (allocate, finish).           *)
THEOREM ReplayTheorem == MCSpec => ReplayedWithinWindow
<1>1. ReplayIInv /\ [MCNext]_<<execVars, since>> =>
        ReplayIInv' /\ [New(Watched) => since >= ReplayWindow]_<<execVars, since>>
  BY ReplayStep
<1>2. QED BY <1>1, ReplayInit, PTL DEF MCSpec, ReplayedWithinWindow

=============================================================================
