------------------------- MODULE FlightStorageProofs -------------------------
(***************************************************************************)
(* The safety of FlightStorage, for any number of records, transfers,      *)
(* failures and resets, and any sizes of the queues and of the PSRAM.      *)
(*                                                                         *)
(* Two sequences carry the argument.  The records from the file to the     *)
(* hand of missionRealtimeTask stay the same sequence while they move on,  *)
(* lose one element with each drop, and get their next one from the tick.  *)
(* The frames from the ground to recovery_log_data_queue do the same: only *)
(* a frame that is read is put at their end, and only a sleep cuts it off. *)
(***************************************************************************)
EXTENDS FlightStorage, SequenceTheorems, FiniteSetTheorems, TLAPS

Frame    == [id : Nat, record : Nat]
Statuses == {"dumping", "complete", "aborted", "io_error"}

(* Records over any sets, as the fields' own types do not matter for them.  *)
TransfersOf(N, B) == [offset : N, length : N, awake : B, status : Statuses]
LogsOf(B)         == [ready : B, failed : B]
RecoveriesOf(B)   == [requested : B, signal : B, sd : B, pending : B, flash : B]
FlashesOf(N, B)   == [queue : N, drops : N, failed : B]
Transfer          == TransfersOf(Nat, BOOLEAN)

(* The types of the variables; the bounds are in FlightStorageTypeOK.       *)
StorageTypes ==
    /\ made \in Nat /\ queue \in Seq(Nat) /\ drops \in Nat
    /\ flash \in FlashesOf(Nat, BOOLEAN)
    /\ stage \in Seq(Nat) /\ file \in Seq(Nat) /\ error \in BOOLEAN
    /\ asked \in BOOLEAN /\ log \in LogsOf(BOOLEAN)
    /\ recovery \in RecoveriesOf(BOOLEAN)
    /\ dump \in [id : Nat, next : Nat, left : Nat]
    /\ frames \in Seq(Frame) /\ sending \in Seq(Frame) /\ ground \in Seq(Frame)
    /\ Len(sending) <= 1
    /\ transfers \in Seq(Transfer)
    /\ failures \in Nat /\ resets \in Nat

(* What a boot begins with, and what only one of the two kinds does.        *)
BootsApart ==
    /\ task = "boot" => ~log.ready /\ stage = <<>> /\ writer = "off"
    /\ task = "control" => boot = "recovery"
    /\ boot = "recovery" => writer = "off" /\ durable = Len(file)
    /\ boot = "flight" => /\ transfers = <<>> /\ dump = NoDump
                          /\ ground = <<>> /\ sending = <<>> /\ frames = <<>>

(* The records of this boot, from the card to the hand.  Before the file is *)
(* truncated it is that of the boot before.                                 *)
InHand  == IF hand = 0 THEN <<>> ELSE <<hand>>
OnCard  == IF task = "boot" THEN <<>> ELSE file
OnTheWay == OnCard \o stage \o queue \o InHand

Upwards(s, n) ==
    /\ \A i, j \in DOMAIN s : i < j => s[i] < s[j]
    /\ \A i \in DOMAIN s : s[i] <= n

InOrder ==
    boot = "flight" /\ (task = "boot" \/ log.ready) =>
        Upwards(OnTheWay, made) /\ Len(OnTheWay) + drops = made

(* One transfer is going on at most, the last, and goes on where the frames *)
(* of it end.                                                               *)
Dumping ==
    /\ dump = NoDump \/ dump.id \in DOMAIN transfers
    /\ dump # NoDump =>
         LET t == transfers[dump.id]
         IN /\ dump.id = Len(transfers)
            /\ t.status = "dumping" /\ dump.left > 0
            /\ dump.next = t.offset + Sent(dump.id, Len(Frames))
            /\ dump.next + dump.left = t.offset + t.length
    /\ \A k \in DOMAIN Frames : Frames[k].id \in DOMAIN transfers
    /\ \A id \in DOMAIN transfers :
         transfers[id].offset + transfers[id].length <= Len(file)

(* A flush stands for what the writer does in one pass, in which nothing    *)
(* comes to the PSRAM.                                                      *)
Flushing ==
    /\ asked => flush = "asked" /\ writer \in {"drain", "sync"}
    /\ asked /\ writer = "sync" /\ ~error => stage = <<>>
    /\ flush = "acked" /\ ~error => stage = <<>> /\ durable = Len(file)

IInv == /\ StorageTypes /\ FlightStorageTypeOK /\ BootsApart
        /\ InOrder /\ Dumping /\ DumpIsTheLog /\ Flushing

-----------------------------------------------------------------------------
(* Records that move on.                                                    *)
LEMMA Joined ==
  \A a, b, c \in Seq(Nat) : (a \o b) \o c = a \o (b \o c)
BY ConcatAssociative

LEMMA MovedBatch ==
  ASSUME NEW f \in Seq(Nat), NEW s \in Seq(Nat), NEW n \in 1..Len(s)
  PROVE  /\ SubSeq(s, 1, n) \in Seq(Nat) /\ SubSeq(s, n + 1, Len(s)) \in Seq(Nat)
         /\ Len(SubSeq(s, n + 1, Len(s))) = Len(s) - n
         /\ (f \o SubSeq(s, 1, n)) \o SubSeq(s, n + 1, Len(s)) = f \o s
<1>1. Len(s) \in Nat /\ \A i \in 1..Len(s) : s[i] \in Nat
  BY LenProperties, ElementOfSeq
<1>2. SubSeq(s, 1, n) \in Seq(Nat)
  BY <1>1, SubSeqProperties
<1>3. /\ SubSeq(s, n + 1, Len(s)) \in Seq(Nat)
      /\ Len(SubSeq(s, n + 1, Len(s))) = Len(s) - n
  <2>1. \A i \in (n + 1)..Len(s) : s[i] \in Nat
    BY <1>1
  <2>2. n + 1 \in Int /\ Len(s) \in Int
    BY <1>1
  <2> DEFINE m == n + 1
             p == Len(s)
  <2>3. /\ SubSeq(s, m, p) \in Seq(Nat)
        /\ Len(SubSeq(s, m, p)) = IF m <= p THEN p - m + 1 ELSE 0
    <3> HIDE DEF m, p
    <3>1. m \in Int /\ p \in Int /\ \A i \in m..p : s[i] \in Nat
      BY <2>1, <2>2 DEF m, p
    <3>2. QED BY <3>1, SubSeqProperties
  <2>4. QED BY <1>1, <2>3
<1>4. SubSeq(s, 1, n) \o SubSeq(s, n + 1, Len(s)) = s
  <2>1. \A m \in 1..(Len(s) + 1) : \A k \in (m - 1)..Len(s) :
          \A e \in k..Len(s) :
            SubSeq(s, m, k) \o SubSeq(s, k + 1, e) = SubSeq(s, m, e)
    BY ConcatAdjacentSubSeq
  <2>2. SubSeq(s, 1, n) \o SubSeq(s, n + 1, Len(s)) = SubSeq(s, 1, Len(s))
    <3>1. 1 \in 1..(Len(s) + 1) /\ n \in (1 - 1)..Len(s) /\ Len(s) \in n..Len(s)
      BY <1>1
    <3>2. QED BY <2>1, <3>1
  <2>3. QED BY <2>2, SubSeqFull
<1> DEFINE x == SubSeq(s, 1, n)
           y == SubSeq(s, n + 1, Len(s))
<1>5. x \in Seq(Nat) /\ y \in Seq(Nat) /\ x \o y = s
  BY <1>2, <1>3, <1>4
<1>6. (f \o x) \o y = f \o s
  <2> HIDE DEF x, y
  <2>1. (f \o x) \o y = f \o (x \o y)
    BY <1>5, Joined
  <2>2. QED BY <1>5, <2>1
<1>7. QED BY <1>2, <1>3, <1>6

(* A drop takes one record out, wherever it is.                             *)
LEMMA Dropped ==
  ASSUME NEW s \in Seq(Nat), NEW t \in Seq(Nat), NEW n \in Nat,
         NEW m \in 1..Len(s), Len(t) = Len(s) - 1,
         \A i \in 1..Len(t) : t[i] = IF i < m THEN s[i] ELSE s[i + 1],
         Upwards(s, n)
  PROVE  Upwards(t, n)
<1>1. DOMAIN s = 1..Len(s) /\ DOMAIN t = 1..Len(t) /\ Len(s) \in Nat
  BY LenProperties
<1> DEFINE old(i) == IF i < m THEN i ELSE i + 1
<1>2. \A i \in 1..Len(t) : old(i) \in 1..Len(s) /\ t[i] = s[old(i)]
  <2>1. SUFFICES ASSUME NEW i \in 1..Len(t)
                 PROVE  old(i) \in 1..Len(s) /\ t[i] = s[old(i)]
    OBVIOUS
  <2>2. i \in Int /\ i + 1 \in 1..Len(s) /\ i \in 1..Len(s)
    BY <1>1
  <2>3. CASE i < m
    BY <2>2, <2>3
  <2>4. CASE ~(i < m)
    BY <2>2, <2>4
  <2>5. QED BY <2>3, <2>4
<1>3. \A i, j \in 1..Len(t) : i < j => old(i) < old(j)
  <2>1. SUFFICES ASSUME NEW i \in 1..Len(t), NEW j \in 1..Len(t), i < j
                 PROVE  old(i) < old(j)
    OBVIOUS
  <2>2. i \in Int /\ j \in Int /\ m \in Int
    BY <1>1
  <2>3. QED BY <2>1, <2>2
<1> HIDE DEF old
<1>4. QED BY <1>1, <1>2, <1>3 DEF Upwards

LEMMA DroppedHead ==
  ASSUME NEW a \in Seq(Nat), NEW c \in Seq(Nat), NEW d \in Seq(Nat), c # <<>>,
         NEW n \in Nat, Upwards(a \o c \o d, n)
  PROVE  /\ Upwards(a \o Tail(c) \o d, n)
         /\ Len(a \o Tail(c) \o d) = Len(a \o c \o d) - 1
<1>1. /\ Tail(c) \in Seq(Nat) /\ Len(Tail(c)) = Len(c) - 1
      /\ \A i \in 1..Len(Tail(c)) : Tail(c)[i] = c[i + 1]
  BY HeadTailProperties
<1>2. Len(a) \in Nat /\ Len(c) \in Nat \ {0} /\ Len(d) \in Nat
  BY LenProperties, EmptySeq
<1>3. /\ a \o c \in Seq(Nat) /\ Len(a \o c) = Len(a) + Len(c)
      /\ \A i \in 1..(Len(a) + Len(c)) :
           (a \o c)[i] = IF i <= Len(a) THEN a[i] ELSE c[i - Len(a)]
  BY ConcatProperties
<1>4. /\ a \o Tail(c) \in Seq(Nat) /\ Len(a \o Tail(c)) = Len(a) + Len(c) - 1
      /\ \A i \in 1..(Len(a) + Len(c) - 1) :
           (a \o Tail(c))[i] = IF i <= Len(a) THEN a[i] ELSE Tail(c)[i - Len(a)]
  <2>1. Len(a) + Len(Tail(c)) = Len(a) + Len(c) - 1
    BY <1>1, <1>2
  <2>2. QED BY <1>1, <2>1, ConcatProperties
<1>5. /\ a \o c \o d \in Seq(Nat)
      /\ Len(a \o c \o d) = Len(a) + Len(c) + Len(d)
      /\ \A i \in 1..(Len(a) + Len(c) + Len(d)) :
           (a \o c \o d)[i] = IF i <= Len(a) + Len(c) THEN (a \o c)[i]
                              ELSE d[i - (Len(a) + Len(c))]
  <2> DEFINE x == a \o c
  <2>1. /\ x \o d \in Seq(Nat) /\ Len(x \o d) = Len(x) + Len(d)
        /\ \A i \in 1..(Len(x) + Len(d)) :
             (x \o d)[i] = IF i <= Len(x) THEN x[i] ELSE d[i - Len(x)]
    BY <1>3, ConcatProperties
  <2>2. QED BY <1>3, <2>1
<1>6. /\ a \o Tail(c) \o d \in Seq(Nat)
      /\ Len(a \o Tail(c) \o d) = Len(a) + Len(c) - 1 + Len(d)
      /\ \A i \in 1..(Len(a) + Len(c) - 1 + Len(d)) :
           (a \o Tail(c) \o d)[i] =
             IF i <= Len(a) + Len(c) - 1 THEN (a \o Tail(c))[i]
             ELSE d[i - (Len(a) + Len(c) - 1)]
  <2> DEFINE x == a \o Tail(c)
  <2>1. /\ x \o d \in Seq(Nat) /\ Len(x \o d) = Len(x) + Len(d)
        /\ \A i \in 1..(Len(x) + Len(d)) :
             (x \o d)[i] = IF i <= Len(x) THEN x[i] ELSE d[i - Len(x)]
    BY <1>4, ConcatProperties
  <2>2. QED BY <1>4, <2>1
<1> DEFINE s == a \o c \o d
           t == a \o Tail(c) \o d
           m == Len(a) + 1
<1>7. \A i \in 1..Len(t) : t[i] = IF i < m THEN s[i] ELSE s[i + 1]
  <2>1. SUFFICES ASSUME NEW i \in 1..Len(t)
                 PROVE  t[i] = IF i < m THEN s[i] ELSE s[i + 1]
    OBVIOUS
  <2>2. i \in 1..(Len(a) + Len(c) - 1 + Len(d)) /\ i \in Int
    BY <1>2, <1>6
  <2>3. CASE i <= Len(a)
    <3>1. t[i] = a[i] /\ s[i] = a[i]
      BY <1>2, <1>3, <1>4, <1>5, <1>6, <2>2, <2>3
    <3>2. QED BY <1>2, <2>2, <2>3, <3>1
  <2>4. CASE i > Len(a) /\ i <= Len(a) + Len(c) - 1
    <3> DEFINE k == i - Len(a)
    <3>1. k \in 1..Len(Tail(c)) /\ i + 1 - Len(a) = k + 1
      BY <1>1, <1>2, <2>2, <2>4
    <3>2. t[i] = Tail(c)[k]
      BY <1>2, <1>4, <1>6, <2>2, <2>4
    <3>3. s[i + 1] = c[i + 1 - Len(a)]
      <4> DEFINE j == i + 1
      <4>1. /\ j \in 1..(Len(a) + Len(c)) /\ ~(j <= Len(a))
            /\ j \in 1..(Len(a) + Len(c) + Len(d)) /\ j <= Len(a) + Len(c)
        BY <1>2, <2>2, <2>4
      <4> HIDE DEF j
      <4>2. s[j] = c[j - Len(a)]
        BY <1>3, <1>5, <4>1
      <4>3. QED BY <4>2 DEF j
    <3>4. QED BY <1>1, <1>2, <2>2, <2>4, <3>1, <3>2, <3>3
  <2>5. CASE i > Len(a) + Len(c) - 1
    <3>1. t[i] = d[i - (Len(a) + Len(c) - 1)]
      BY <1>2, <1>6, <2>2, <2>5
    <3>2. s[i + 1] = d[i + 1 - (Len(a) + Len(c))]
      <4> DEFINE j == i + 1
      <4>1. /\ j \in 1..(Len(a) + Len(c) + Len(d))
            /\ ~(j <= Len(a) + Len(c))
        BY <1>2, <2>2, <2>5
      <4> HIDE DEF j
      <4>2. s[j] = d[j - (Len(a) + Len(c))]
        BY <1>5, <4>1
      <4>3. QED BY <4>2 DEF j
    <3>3. i - (Len(a) + Len(c) - 1) = i + 1 - (Len(a) + Len(c)) /\ ~(i < m)
      BY <1>2, <2>2, <2>5
    <3>4. QED BY <3>1, <3>2, <3>3
  <2>6. QED BY <1>2, <2>2, <2>3, <2>4, <2>5
<1>8. Len(t) = Len(s) - 1 /\ m \in 1..Len(s) /\ s \in Seq(Nat) /\ t \in Seq(Nat)
  BY <1>2, <1>5, <1>6
<1>9. Upwards(t, n)
  <2> HIDE DEF s, t, m
  <2>1. Upwards(s, n)
    BY DEF s
  <2>2. QED BY <1>7, <1>8, <2>1, Dropped
<1>10. QED BY <1>8, <1>9

LEMMA DroppedLast ==
  ASSUME NEW a \in Seq(Nat), NEW h \in Nat, NEW n \in Nat,
         Upwards(a \o <<h>>, n)
  PROVE  Upwards(a, n) /\ Len(a \o <<h>>) = Len(a) + 1
<1>1. /\ a \o <<h>> \in Seq(Nat) /\ Len(a \o <<h>>) = Len(a) + 1
      /\ \A i \in 1..Len(a) : (a \o <<h>>)[i] = a[i]
  BY AppendIsConcat, AppendProperties
<1>2. Len(a) \in Nat
  BY LenProperties
<1> DEFINE s == a \o <<h>>
<1>3. /\ Len(a) + 1 \in 1..Len(s) /\ Len(a) = Len(s) - 1
      /\ \A i \in 1..Len(a) : a[i] = IF i < Len(a) + 1 THEN s[i] ELSE s[i + 1]
  BY <1>1, <1>2
<1>4. s \in Seq(Nat) /\ Upwards(s, n)
  BY <1>1
<1> HIDE DEF s
<1>5. Upwards(a, n)
  BY <1>3, <1>4, Dropped
<1>6. QED BY <1>1, <1>5

(* The tick puts the next number at the end.                                *)
LEMMA MadeOne ==
  ASSUME NEW a \in Seq(Nat), NEW n \in Nat, Upwards(a, n)
  PROVE  Upwards(a \o <<n + 1>>, n + 1) /\ Len(a \o <<n + 1>>) = Len(a) + 1
<1>1. Append(a, n + 1) = a \o <<n + 1>>
  BY AppendIsConcat
<1>2. /\ Append(a, n + 1) \in Seq(Nat) /\ Len(Append(a, n + 1)) = Len(a) + 1
      /\ \A i \in 1..Len(a) : Append(a, n + 1)[i] = a[i]
      /\ Append(a, n + 1)[Len(a) + 1] = n + 1
  BY AppendProperties
<1>3. /\ Len(a) \in Nat /\ DOMAIN a = 1..Len(a)
      /\ DOMAIN Append(a, n + 1) = 1..(Len(a) + 1)
      /\ \A i \in 1..Len(a) : a[i] \in Nat
  BY <1>2, LenProperties, ElementOfSeq
<1>4. Upwards(Append(a, n + 1), n + 1)
  <2> DEFINE t == Append(a, n + 1)
             l == Len(a)
  <2>1. \A i \in 1..l : t[i] = a[i] /\ a[i] \in Nat /\ a[i] <= n
    BY <1>2, <1>3 DEF Upwards
  <2>2. \A i, j \in 1..l : i < j => a[i] < a[j]
    BY <1>3 DEF Upwards
  <2>3. DOMAIN t = 1..(l + 1) /\ t[l + 1] = n + 1 /\ l \in Nat
    BY <1>2, <1>3
  <2> HIDE DEF t, l
  <2>4. \A i, j \in 1..(l + 1) : i < j => t[i] < t[j]
    <3>1. SUFFICES ASSUME NEW i \in 1..(l + 1), NEW j \in 1..(l + 1), i < j
                   PROVE  t[i] < t[j]
      OBVIOUS
    <3>2. i \in 1..l /\ (j \in 1..l \/ j = l + 1)
      BY <2>3, <3>1
    <3>3. CASE j \in 1..l
      BY <2>1, <2>2, <3>1, <3>2, <3>3
    <3>4. CASE j = l + 1
      <4>1. t[i] \in Nat /\ t[i] <= n /\ t[j] = n + 1
        BY <2>1, <2>3, <3>2, <3>4
      <4>2. QED BY <4>1
    <3>5. QED BY <3>2, <3>3, <3>4
  <2>5. \A i \in 1..(l + 1) : t[i] <= n + 1
    <3>1. \A i \in 1..(l + 1) : i \in 1..l \/ i = l + 1
      BY <2>3
    <3>2. QED BY <2>1, <2>3, <3>1
  <2>6. Upwards(t, n + 1)
    BY <2>3, <2>4, <2>5 DEF Upwards
  <2>7. QED BY <2>6 DEF t
<1>5. QED BY <1>1, <1>2, <1>4

-----------------------------------------------------------------------------
(* Frames of a transfer.                                                    *)
Count(s, id, n) == Cardinality({k \in 1..n : s[k].id = id})

LEMMA CountFacts ==
  ASSUME NEW s, NEW id, NEW n \in Nat
  PROVE  /\ Count(s, id, n) \in Nat
         /\ s[n + 1].id = id => Count(s, id, n + 1) = Count(s, id, n) + 1
         /\ s[n + 1].id # id => Count(s, id, n + 1) = Count(s, id, n)
         /\ Count(s, id, 0) = 0
<1> DEFINE of(m) == {k \in 1..m : s[k].id = id}
<1>1. IsFiniteSet(1..n)
  BY FS_Interval
<1>2. IsFiniteSet(of(n)) /\ Cardinality(of(n)) \in Nat
  BY <1>1, FS_Subset, FS_CardinalityType
<1>3. CASE s[n + 1].id = id
  <2>1. of(n + 1) = of(n) \cup {n + 1} /\ n + 1 \notin of(n)
    BY <1>3
  <2> HIDE DEF of
  <2>2. Cardinality(of(n + 1)) = Cardinality(of(n)) + 1
    BY <1>2, <2>1, FS_AddElement
  <2>3. QED
    <3>1. of(0) = {}
      BY DEF of
    <3>2. Count(s, id, n) = Cardinality(of(n))
          /\ Count(s, id, n + 1) = Cardinality(of(n + 1))
          /\ Count(s, id, 0) = Cardinality(of(0))
      BY DEF of, Count
    <3>3. QED BY <1>2, <1>3, <2>2, <3>1, <3>2, FS_EmptySet
<1>4. CASE s[n + 1].id # id
  <2>1. of(n + 1) = of(n)
    BY <1>4
  <2> HIDE DEF of
  <2>2. QED
    <3>1. of(0) = {}
      BY DEF of
    <3>2. Count(s, id, n) = Cardinality(of(n))
          /\ Count(s, id, n + 1) = Cardinality(of(n + 1))
          /\ Count(s, id, 0) = Cardinality(of(0))
      BY DEF of, Count
    <3>3. QED BY <1>2, <1>4, <2>1, <3>1, <3>2, FS_EmptySet
<1>5. QED BY <1>3, <1>4

LEMMA CountSame ==
  ASSUME NEW s, NEW t, NEW id, NEW n \in Nat,
         \A k \in 1..n : s[k] = t[k]
  PROVE  Count(s, id, n) = Count(t, id, n)
<1>1. {k \in 1..n : s[k].id = id} = {k \in 1..n : t[k].id = id}
  OBVIOUS
<1>2. QED BY <1>1 DEF Count

LEMMA CountGrows ==
  ASSUME NEW s, NEW id, NEW m \in Nat, NEW n \in Nat, m <= n
  PROVE  Count(s, id, m) <= Count(s, id, n)
<1>1. /\ IsFiniteSet(1..n) /\ {k \in 1..n : s[k].id = id} \subseteq 1..n
      /\ {k \in 1..m : s[k].id = id} \subseteq {k \in 1..n : s[k].id = id}
  BY FS_Interval
<1>2. IsFiniteSet({k \in 1..n : s[k].id = id})
  BY <1>1, FS_Subset
<1>3. QED BY <1>1, <1>2, FS_Subset DEF Count

(* Where nothing is of a transfer, nothing counts.                          *)
LEMMA CountNone ==
  ASSUME NEW s, NEW id, NEW n \in Nat, \A k \in 1..n : s[k].id # id
  PROVE  Count(s, id, n) = 0
<1>1. {k \in 1..n : s[k].id = id} = {}
  OBVIOUS
<1>2. QED BY <1>1, FS_EmptySet DEF Count

-----------------------------------------------------------------------------
(* Types, and the two kinds of boot.                                        *)
Typed == StorageTypes /\ FlightStorageTypeOK /\ BootsApart

LEMMA NatFacts ==
  /\ Records \in Nat \ {0} /\ SdQueue \in Nat \ {0} /\ FlashQueue \in Nat \ {0}
  /\ Decimation \in Nat \ {0} /\ Capacity \in Nat \ {0}
  /\ Batch \in Nat \ {0} /\ FrameQueue \in Nat \ {0} /\ Transfers \in Nat
  /\ Batch <= Capacity
  /\ \A d \in Nat : (d + 1) % Decimation \in 0..(Decimation - 1)
<1>1. /\ Records \in Nat \ {0} /\ SdQueue \in Nat \ {0}
      /\ FlashQueue \in Nat \ {0} /\ Decimation \in Nat \ {0}
      /\ Capacity \in Nat \ {0} /\ Batch \in Nat \ {0}
      /\ FrameQueue \in Nat \ {0} /\ Transfers \in Nat /\ Batch <= Capacity
  BY StorageAssumption
<1>2. Decimation \in Nat /\ Decimation > 0
  BY <1>1
<1>3. QED BY <1>1, <1>2

LEMMA LogUpdates ==
  ASSUME NEW B, NEW l \in LogsOf(B), NEW b \in B, NEW c \in B
  PROVE  /\ [ready |-> b, failed |-> c] \in LogsOf(B)
         /\ [l EXCEPT !.ready = b] \in LogsOf(B)
         /\ [l EXCEPT !.ready = b].ready = b
         /\ [l EXCEPT !.failed = b] \in LogsOf(B)
         /\ [l EXCEPT !.failed = b].ready = l.ready
         /\ [l EXCEPT !.failed = b].failed = b
BY DEF LogsOf

LEMMA RecoveryUpdates ==
  ASSUME NEW B, NEW r \in RecoveriesOf(B), NEW b \in B, NEW c \in B
  PROVE  /\ [requested |-> b, signal |-> b, sd |-> c, pending |-> b, flash |-> c]
               \in RecoveriesOf(B)
         /\ [r EXCEPT !.signal = b] \in RecoveriesOf(B)
         /\ [r EXCEPT !.signal = b].sd = r.sd
         /\ [r EXCEPT !.sd = b] \in RecoveriesOf(B)
         /\ [r EXCEPT !.signal = b, !.sd = c] \in RecoveriesOf(B)
         /\ [r EXCEPT !.pending = b, !.flash = c] \in RecoveriesOf(B)
         /\ [r EXCEPT !.pending = b, !.flash = c].sd = r.sd
<1> USE DEF RecoveriesOf
<1>1. [requested |-> b, signal |-> b, sd |-> c, pending |-> b, flash |-> c]
        \in RecoveriesOf(B)
  OBVIOUS
<1>2. /\ [r EXCEPT !.signal = b] \in RecoveriesOf(B)
      /\ [r EXCEPT !.signal = b].sd = r.sd
  OBVIOUS
<1>3. [r EXCEPT !.sd = b] \in RecoveriesOf(B)
  OBVIOUS
<1>4. [r EXCEPT !.signal = b, !.sd = c] \in RecoveriesOf(B)
  OBVIOUS
<1>5. /\ [r EXCEPT !.pending = b, !.flash = c] \in RecoveriesOf(B)
      /\ [r EXCEPT !.pending = b, !.flash = c].sd = r.sd
  OBVIOUS
<1>6. QED BY <1>1, <1>2, <1>3, <1>4, <1>5

LEMMA FlashUpdates ==
  ASSUME NEW N, NEW B, NEW f \in FlashesOf(N, B), NEW n \in N
  PROVE  /\ f.queue \in N /\ f.drops \in N
         /\ \A m \in N, b \in B :
              /\ [queue |-> n, drops |-> m, failed |-> b] \in FlashesOf(N, B)
              /\ [queue |-> n, drops |-> m, failed |-> b].queue = n
         /\ [f EXCEPT !.queue = n] \in FlashesOf(N, B)
         /\ [f EXCEPT !.queue = n].queue = n
         /\ [f EXCEPT !.drops = n] \in FlashesOf(N, B)
         /\ [f EXCEPT !.drops = n].queue = f.queue
BY DEF FlashesOf

LEMMA LogValues ==
  ASSUME StorageTypes
  PROVE  /\ [ready |-> FALSE, failed |-> TRUE] \in LogsOf(BOOLEAN)
         /\ [ready |-> FALSE, failed |-> FALSE] \in LogsOf(BOOLEAN)
         /\ [log EXCEPT !.ready = TRUE] \in LogsOf(BOOLEAN)
         /\ [log EXCEPT !.ready = TRUE].ready
         /\ [log EXCEPT !.failed = TRUE] \in LogsOf(BOOLEAN)
         /\ [log EXCEPT !.failed = TRUE].ready = log.ready
<1>1. log \in LogsOf(BOOLEAN) /\ TRUE \in BOOLEAN /\ FALSE \in BOOLEAN
  BY DEF StorageTypes
<1>2. QED BY <1>1, LogUpdates

(* The one update of the log that a report of failure makes.               *)
LogFailed == log' = [log EXCEPT !.failed = TRUE]
LEMMA LogFails ==
  ASSUME StorageTypes, LogFailed
  PROVE  log'.failed
<1> DEFINE B == BOOLEAN
           t == TRUE
<1>1. log \in LogsOf(B) /\ t \in B /\ log' = [log EXCEPT !.failed = t] /\ t = TRUE
  BY DEF StorageTypes, LogFailed
<1> HIDE DEF B, t
<1>2. [log EXCEPT !.failed = t].failed = t
  BY <1>1, LogUpdates
<1> DEFINE l == [log EXCEPT !.failed = t]
<1>3. l.failed = t /\ log' = l
  BY <1>1, <1>2
<1> HIDE DEF l
<1>4. QED BY <1>1, <1>3

LEMMA RecoveryValues ==
  ASSUME StorageTypes
  PROVE  /\ [requested |-> TRUE, signal |-> TRUE, sd |-> FALSE, pending |-> TRUE,
             flash |-> FALSE] \in RecoveriesOf(BOOLEAN)
         /\ NoRecovery \in RecoveriesOf(BOOLEAN)
         /\ [recovery EXCEPT !.signal = FALSE] \in RecoveriesOf(BOOLEAN)
         /\ [recovery EXCEPT !.signal = FALSE].sd = recovery.sd
         /\ [recovery EXCEPT !.sd = TRUE] \in RecoveriesOf(BOOLEAN)
         /\ [recovery EXCEPT !.signal = FALSE, !.sd = TRUE]
               \in RecoveriesOf(BOOLEAN)
         /\ [recovery EXCEPT !.pending = FALSE, !.flash = TRUE]
               \in RecoveriesOf(BOOLEAN)
         /\ [recovery EXCEPT !.pending = FALSE, !.flash = TRUE].sd = recovery.sd
<1>1. recovery \in RecoveriesOf(BOOLEAN) /\ TRUE \in BOOLEAN /\ FALSE \in BOOLEAN
  BY DEF StorageTypes
<1>2. NoRecovery \in RecoveriesOf(BOOLEAN)
  <2>1. [requested |-> FALSE, signal |-> FALSE, sd |-> FALSE, pending |-> FALSE,
         flash |-> FALSE] \in RecoveriesOf(BOOLEAN)
    BY <1>1, RecoveryUpdates
  <2>2. QED BY <2>1 DEF NoRecovery
<1>3. /\ [requested |-> TRUE, signal |-> TRUE, sd |-> FALSE, pending |-> TRUE,
          flash |-> FALSE] \in RecoveriesOf(BOOLEAN)
      /\ [recovery EXCEPT !.signal = FALSE, !.sd = TRUE]
            \in RecoveriesOf(BOOLEAN)
  BY <1>1, RecoveryUpdates
<1>4. /\ [recovery EXCEPT !.signal = FALSE] \in RecoveriesOf(BOOLEAN)
      /\ [recovery EXCEPT !.signal = FALSE].sd = recovery.sd
      /\ [recovery EXCEPT !.sd = TRUE] \in RecoveriesOf(BOOLEAN)
  BY <1>1, RecoveryUpdates
<1>5. [recovery EXCEPT !.pending = FALSE, !.flash = TRUE] \in RecoveriesOf(BOOLEAN)
  BY <1>1, RecoveryUpdates
<1>7. [recovery EXCEPT !.pending = FALSE, !.flash = TRUE].sd = recovery.sd
  <2> DEFINE f == FALSE
             t == TRUE
  <2>1. f \in BOOLEAN /\ t \in BOOLEAN
    OBVIOUS
  <2> HIDE DEF f, t
  <2>2. [recovery EXCEPT !.pending = f, !.flash = t].sd = recovery.sd
    BY <1>1, <2>1 DEF RecoveriesOf
  <2>3. QED BY <2>2 DEF f, t
<1>6. QED BY <1>2, <1>3, <1>4, <1>5, <1>7

LEMMA FlashValues ==
  ASSUME Typed
  PROVE  /\ flash.queue \in 0..FlashQueue /\ flash.queue \in Nat
         /\ flash.drops \in Nat
         /\ \A n \in Nat :
              /\ [flash EXCEPT !.queue = n] \in FlashesOf(Nat, BOOLEAN)
              /\ [flash EXCEPT !.queue = n].queue = n
              /\ [flash EXCEPT !.drops = n] \in FlashesOf(Nat, BOOLEAN)
              /\ [flash EXCEPT !.drops = n].queue = flash.queue
         /\ \A n, m \in Nat, b \in {TRUE, FALSE} :
              /\ [queue |-> n, drops |-> m, failed |-> b] \in FlashesOf(Nat, BOOLEAN)
              /\ [queue |-> n, drops |-> m, failed |-> b].queue = n
<1>1. flash \in FlashesOf(Nat, BOOLEAN) /\ TRUE \in BOOLEAN /\ FALSE \in BOOLEAN
      /\ flash.queue \in 0..FlashQueue /\ 0 \in Nat
  BY DEF Typed, StorageTypes, FlightStorageTypeOK
<1>2. flash.queue \in Nat /\ flash.drops \in Nat
  BY <1>1, FlashUpdates
<1>3. ASSUME NEW n \in Nat
      PROVE  /\ [flash EXCEPT !.queue = n] \in FlashesOf(Nat, BOOLEAN)
             /\ [flash EXCEPT !.queue = n].queue = n
             /\ [flash EXCEPT !.drops = n] \in FlashesOf(Nat, BOOLEAN)
             /\ [flash EXCEPT !.drops = n].queue = flash.queue
  BY <1>1, FlashUpdates
<1>4. ASSUME NEW n \in Nat, NEW m \in Nat, NEW b \in {TRUE, FALSE}
      PROVE  /\ [queue |-> n, drops |-> m, failed |-> b]
                   \in FlashesOf(Nat, BOOLEAN)
             /\ [queue |-> n, drops |-> m, failed |-> b].queue = n
  <2>1. b \in BOOLEAN
    OBVIOUS
  <2>2. QED BY <1>1, <2>1, FlashUpdates
<1>5. QED BY <1>1, <1>2, <1>3, <1>4

LEMMA EmptySeqs ==
  /\ \A S : <<>> \in Seq(S)
  /\ Len(<<>>) = 0 /\ DOMAIN <<>> = {}
BY EmptySeq

LEMMA ProducerTypes ==
  ASSUME Typed, Producer
  PROVE  Typed'
<1> USE DEF producer, card, sdTask, sdWriter, history, link, counts
<1>1. CASE StartSequence
  BY <1>1 DEF StartSequence, Typed, StorageTypes, FlightStorageTypeOK,
              BootsApart
<1>2. CASE BackToCommand
  <2>1. decimation' \in 0..(Decimation - 1)
    BY <1>2, NatFacts DEF BackToCommand
  <2>2. QED
    BY <1>2, <2>1 DEF BackToCommand, Typed, StorageTypes, FlightStorageTypeOK,
                      BootsApart
<1>3. CASE MakeRecord
  <2>1. made' \in 0..Records /\ made' \in Nat /\ hand' \in {0, made'}
    BY <1>3, NatFacts DEF MakeRecord, Typed, StorageTypes
  <2>2. QED
    BY <1>3, <2>1 DEF MakeRecord, Typed, StorageTypes, FlightStorageTypeOK,
                      BootsApart
<1>4. CASE SendRecord
  <2>1. decimation' \in 0..(Decimation - 1)
    BY <1>4, NatFacts DEF SendRecord, Typed, FlightStorageTypeOK
  <2>2. flash' \in FlashesOf(Nat, BOOLEAN) /\ flash'.queue \in 0..FlashQueue
    <3>1. flash.queue + 1 \in Nat /\ flash.drops + 1 \in Nat
      BY FlashValues
    <3>2. CASE decimation' # 0
      BY <1>4, <3>2 DEF SendRecord, Typed, StorageTypes, FlightStorageTypeOK
    <3>3. CASE decimation' = 0 /\ flash.queue < FlashQueue
      <4> DEFINE a == [flash EXCEPT !.queue = flash.queue + 1]
                 b == [flash EXCEPT !.drops = flash.drops + 1]
      <4>1. flash' = a
        <5>1. flash' = IF decimation' # 0 THEN flash
                       ELSE IF flash.queue < FlashQueue THEN a ELSE b
          BY <1>4 DEF SendRecord
        <5> HIDE DEF a, b
        <5>2. QED BY <3>3, <5>1
      <4>2. a \in FlashesOf(Nat, BOOLEAN) /\ a.queue = flash.queue + 1
        BY <3>1, FlashValues
      <4>3. flash.queue + 1 \in 0..FlashQueue
        BY <3>3, FlashValues, NatFacts
      <4> HIDE DEF a
      <4>4. QED BY <4>1, <4>2, <4>3
    <3>4. CASE decimation' = 0 /\ ~(flash.queue < FlashQueue)
      <4>1. flash' = [flash EXCEPT !.drops = flash.drops + 1]
        BY <1>4, <3>4 DEF SendRecord
      <4>2. QED BY <3>1, <4>1, FlashValues
    <3>5. QED BY <3>2, <3>3, <3>4
  <2>3. /\ queue' \in Seq(Nat) /\ Len(queue') <= SdQueue /\ drops' \in Nat
    <3>1. hand \in Nat /\ SdQueue \in Nat /\ queue \in Seq(Nat)
          /\ Len(queue) \in Nat /\ drops \in Nat /\ Len(queue) <= SdQueue
      BY NatFacts, LenProperties DEF Typed, FlightStorageTypeOK, StorageTypes
    <3>2. /\ Append(queue, hand) \in Seq(Nat)
          /\ Len(Append(queue, hand)) = Len(queue) + 1
      BY <3>1, AppendProperties
    <3>3. CASE Len(queue) < SdQueue
      <4>1. queue' = Append(queue, hand) /\ drops' = drops
        BY <1>4, <3>3 DEF SendRecord
      <4>2. Len(queue) + 1 <= SdQueue
        BY <3>1, <3>3
      <4>3. QED BY <3>1, <3>2, <4>1, <4>2
    <3>4. CASE ~(Len(queue) < SdQueue)
      <4>1. queue' = queue /\ drops' = drops + 1
        BY <1>4, <3>4 DEF SendRecord
      <4>2. QED BY <3>1, <4>1
    <3>5. QED BY <3>3, <3>4
  <2>4. QED
    BY <1>4, <2>1, <2>2, <2>3
    DEF SendRecord, Typed, StorageTypes, FlightStorageTypeOK, BootsApart
<1>5. QED BY <1>1, <1>2, <1>3, <1>4 DEF Producer

LEMMA FlashTypes ==
  ASSUME Typed, FlashTask
  PROVE  Typed'
<1> USE DEF producer, card, sdTask, sdWriter, history, link, counts
<1>1. CASE FlashAppend
  <2>1. flash' \in FlashesOf(Nat, BOOLEAN) /\ flash'.queue \in 0..FlashQueue
    <3>1. flash.queue \in Nat /\ flash.drops \in Nat /\ flash.queue \in 0..FlashQueue
      BY FlashValues
    <3>2. flash.queue > 0
      BY <1>1 DEF FlashAppend
    <3>3. flash.queue - 1 \in Nat /\ flash.drops + 1 \in Nat
          /\ flash.queue - 1 \in 0..FlashQueue
      BY <3>1, <3>2, NatFacts
    <3>4. QED BY <1>1, <3>3, FlashValues DEF FlashAppend
  <2>2. QED
    BY <1>1, <2>1 DEF FlashAppend, Typed, StorageTypes, FlightStorageTypeOK,
                      BootsApart
<1>2. CASE RequestRecovery \/ FlashFlushed
  <2>1. recovery' \in RecoveriesOf(BOOLEAN)
    BY <1>2, RecoveryValues DEF RequestRecovery, FlashFlushed, Typed
  <2>2. QED
    BY <1>2, <2>1
    DEF RequestRecovery, FlashFlushed, Typed, StorageTypes,
        FlightStorageTypeOK, BootsApart
<1>3. QED BY <1>1, <1>2 DEF FlashTask

LEMMA LogTypes ==
  ASSUME Typed,
         \/ PrepareForFlight \/ PrepareFails \/ OpenExisting \/ AppendRecord
         \/ QueueDrained \/ TakeSignal \/ FlushAnswered
  PROVE  Typed'
<1> USE DEF producer, card, sdTask, sdWriter, history, link, counts
<1>1. CASE PrepareForFlight
  <2>1. log' \in LogsOf(BOOLEAN)
    BY <1>1, LogValues DEF PrepareForFlight, Typed
  <2>3. file' \in Seq(Nat) /\ durable' \in 0..Len(file')
    BY <1>1, EmptySeqs DEF PrepareForFlight
  <2>2. QED
    BY <1>1, <2>1, <2>3, EmptySeqs
    DEF PrepareForFlight, Typed, StorageTypes, FlightStorageTypeOK, BootsApart,
        NoDump
<1>2. CASE PrepareFails
  BY <1>2, LogValues
  DEF PrepareFails, Typed, StorageTypes, FlightStorageTypeOK, BootsApart
<1>3. CASE OpenExisting
  BY <1>3, LogValues
  DEF OpenExisting, Typed, StorageTypes, FlightStorageTypeOK, BootsApart
<1>4. CASE AppendRecord
  <2>1. /\ queue \in Seq(Nat) /\ queue # <<>> /\ stage \in Seq(Nat)
        /\ Len(queue) \in Nat /\ Len(stage) \in Nat /\ drops \in Nat
        /\ Head(queue) \in Nat /\ queue' \in Seq(Nat)
        /\ Len(queue') = Len(queue) - 1
    BY <1>4, LenProperties, HeadTailProperties
    DEF AppendRecord, Typed, StorageTypes
  <2>2. /\ Append(stage, Head(queue)) \in Seq(Nat)
        /\ Len(Append(stage, Head(queue))) = Len(stage) + 1
    BY <2>1, AppendProperties
  <2>3. stage' \in Seq(Nat) /\ Len(stage') <= Capacity /\ drops' \in Nat
    <3>1. CASE log.ready /\ ~error /\ AppendFits
      <4>1. stage' = Append(stage, Head(queue)) /\ drops' = drops
        BY <1>4, <3>1 DEF AppendRecord
      <4>2. Len(stage) < Capacity
        BY <3>1 DEF AppendFits
      <4>3. QED BY <2>1, <2>2, <4>1, <4>2, NatFacts
    <3>2. CASE ~(log.ready /\ ~error /\ AppendFits)
      BY <1>4, <2>1, <3>2 DEF AppendRecord, Typed, FlightStorageTypeOK
    <3>3. QED BY <3>1, <3>2
  <2>7. log' \in LogsOf(BOOLEAN)
    BY <1>4, LogValues DEF AppendRecord, Typed, StorageTypes
  <2>4. Len(queue') <= SdQueue
    BY <2>1, NatFacts DEF Typed, FlightStorageTypeOK
  <2>5. task' = "drain" /\ task = "drain"
    BY <1>4 DEF AppendRecord
  <2>6. QED
    BY <1>4, <2>1, <2>3, <2>4, <2>5, <2>7
    DEF AppendRecord, Typed, StorageTypes, FlightStorageTypeOK, BootsApart
<1>5. CASE QueueDrained
  BY <1>5
  DEF QueueDrained, Typed, StorageTypes, FlightStorageTypeOK, BootsApart
<1>6. CASE TakeSignal \/ FlushAnswered
  <2>1. recovery' \in RecoveriesOf(BOOLEAN) /\ log' \in LogsOf(BOOLEAN)
    BY <1>6, LogValues, RecoveryValues
    DEF TakeSignal, FlushAnswered, Typed, StorageTypes
  <2>2. /\ task' \in {"drain", "flush", "control"}
        /\ task' = "control" => boot = "recovery"
        /\ flush' \in {"none", "asked"} /\ (flush' # "none" <=> task' = "flush")
    BY <1>6
    DEF TakeSignal, FlushAnswered, Typed, FlightStorageTypeOK
  <2>3. UNCHANGED <<boot, producer, queue, drops, flash, card, sdWriter, counts,
                    link>>
    BY <1>6 DEF TakeSignal, FlushAnswered
  <2>4. QED
    BY <2>1, <2>2, <2>3 DEF Typed, StorageTypes, FlightStorageTypeOK, BootsApart
<1>7. QED BY <1>1, <1>2, <1>3, <1>4, <1>5, <1>6

LEMMA WriterTypes ==
  ASSUME Typed, Flushing, SdWriter
  PROVE  Typed'
<1> USE DEF producer, card, sdTask, sdWriter, history, link, counts
<1>1. CASE WriterWakes \/ DrainEnds
  BY <1>1
  DEF WriterWakes, DrainEnds, Typed, StorageTypes, FlightStorageTypeOK,
      BootsApart
<1>2. CASE DrainOneBatch
  <2> DEFINE n == IF Len(stage) < Batch THEN Len(stage) ELSE Batch
  <2>1. /\ stage \in Seq(Nat) /\ file \in Seq(Nat)
        /\ Len(stage) \in Nat /\ Len(file) \in Nat /\ n \in 1..Len(stage)
    <3>1. /\ stage \in Seq(Nat) /\ file \in Seq(Nat)
          /\ Len(stage) \in Nat /\ Len(file) \in Nat
          /\ stage # <<>> => Len(stage) # 0
      BY LenProperties, EmptySeq DEF Typed, StorageTypes
    <3>2. Len(stage) >= Batch \/ stage # <<>>
      BY <1>2 DEF DrainOneBatch, BatchReady
    <3>3. QED BY <3>1, <3>2, NatFacts
  <2>2. /\ boot = "flight" /\ task # "boot"
    BY <1>2 DEF DrainOneBatch, Typed, BootsApart, FlightStorageTypeOK
  <2>3. CASE /\ file' = file \o SubSeq(stage, 1, n)
             /\ stage' = SubSeq(stage, n + 1, Len(stage))
             /\ UNCHANGED <<error, writer, counts>>
    <3>1. /\ SubSeq(stage, 1, n) \in Seq(Nat) /\ stage' \in Seq(Nat)
          /\ Len(stage') = Len(stage) - n
      <4> HIDE DEF n
      <4>1. QED BY <2>1, <2>3, MovedBatch
    <3>2. /\ file' \in Seq(Nat)
          /\ Len(file') = Len(file) + Len(SubSeq(stage, 1, n))
          /\ Len(SubSeq(stage, 1, n)) \in Nat
      <4> HIDE DEF n
      <4>1. QED BY <2>1, <2>3, <3>1, ConcatProperties, LenProperties
    <3>3. /\ durable \in 0..Len(file') /\ Len(stage') <= Capacity
          /\ Len(stage') \in Nat
      <4>1. durable \in 0..Len(file) /\ Len(stage) <= Capacity /\ n \in Nat
            /\ Len(stage) - n \in Nat
        BY <2>1 DEF Typed, FlightStorageTypeOK
      <4> HIDE DEF n
      <4>2. QED BY <2>1, <3>1, <3>2, <4>1, NatFacts
    <3>4. dump = NoDump /\ dump.next + dump.left <= Len(file')
      BY <2>1, <2>2, <3>2 DEF Typed, BootsApart, NoDump
    <3>5. UNCHANGED <<boot, producer, queue, drops, flash, durable, flush,
                      sdTask, asked, recovery, link, error, writer, counts>>
      BY <1>2, <2>3 DEF DrainOneBatch
    <3> HIDE DEF n
    <3>6. QED
      BY <2>2, <3>1, <3>2, <3>3, <3>4, <3>5
      DEF Typed, StorageTypes, FlightStorageTypeOK, BootsApart
  <2>4. CASE /\ failures' = failures + 1 /\ error' = TRUE /\ writer' = "sync"
             /\ UNCHANGED <<file, stage, resets>>
    <3>1. UNCHANGED <<boot, producer, queue, drops, flash, durable, flush,
                      sdTask, asked, recovery, link>>
      BY <1>2 DEF DrainOneBatch
    <3> HIDE DEF n
    <3>2. QED
      BY <2>2, <2>4, <3>1
      DEF Typed, StorageTypes, FlightStorageTypeOK, BootsApart
  <2>5. QED BY <1>2, <2>3, <2>4 DEF DrainOneBatch, Consumed
<1>3. CASE PassEnds
  <2>1. Len(file) \in Nat /\ failures \in Nat /\ error \in BOOLEAN
        /\ durable \in 0..Len(file) /\ resets \in Nat
    BY LenProperties DEF Typed, StorageTypes, FlightStorageTypeOK
  <2>2. durable' \in 0..Len(file) /\ failures' \in Nat /\ resets' \in Nat
    BY <1>3, <2>1 DEF PassEnds
  <2>3. error' \in BOOLEAN
    BY <1>3, <2>1 DEF PassEnds
  <2>4. flush' \in {"none", "asked", "acked"} /\ (flush' # "none" <=> task = "flush")
    BY <1>3 DEF PassEnds, AnswerFlush, Typed, FlightStorageTypeOK, Flushing
  <2>5. /\ boot = "flight" /\ task # "boot"
    BY <1>3 DEF PassEnds, Typed, BootsApart, FlightStorageTypeOK
  <2>6. UNCHANGED <<boot, producer, queue, drops, flash, stage, file, sdTask,
                    recovery, link>> /\ writer' = "wait" /\ asked' = FALSE
    BY <1>3 DEF PassEnds
  <2>7. QED
    BY <2>2, <2>3, <2>4, <2>5, <2>6
    DEF Typed, StorageTypes, FlightStorageTypeOK, BootsApart
<1>4. QED BY <1>1, <1>2, <1>3 DEF SdWriter

-----------------------------------------------------------------------------
(* Transfers, and the types of the dumps.                                   *)
LEMMA TransferUpdates ==
  ASSUME NEW B, NEW t \in TransfersOf(Nat, B), NEW st \in Statuses, NEW b \in B
  PROVE  /\ t.offset \in Nat /\ t.length \in Nat /\ t.status \in Statuses
         /\ [t EXCEPT !.status = st] \in TransfersOf(Nat, B)
         /\ [t EXCEPT !.status = st].offset = t.offset
         /\ [t EXCEPT !.status = st].length = t.length
         /\ [t EXCEPT !.status = st].awake = t.awake
         /\ [t EXCEPT !.status = st].status = st
         /\ [t EXCEPT !.awake = b] \in TransfersOf(Nat, B)
         /\ [t EXCEPT !.awake = b].offset = t.offset
         /\ [t EXCEPT !.awake = b].length = t.length
         /\ [t EXCEPT !.awake = b].awake = b
         /\ [t EXCEPT !.awake = b].status = t.status
         /\ \A o, l \in Nat :
              [offset |-> o, length |-> l, awake |-> b, status |-> st]
                 \in TransfersOf(Nat, B)
BY DEF TransfersOf

LEMMA ATransfer ==
  ASSUME NEW t \in Transfer, NEW st \in Statuses
  PROVE  /\ t.offset \in Nat /\ t.length \in Nat /\ t.status \in Statuses
         /\ [t EXCEPT !.status = st] \in Transfer
         /\ [t EXCEPT !.status = st].offset = t.offset
         /\ [t EXCEPT !.status = st].length = t.length
         /\ [t EXCEPT !.status = st].awake = t.awake
         /\ [t EXCEPT !.status = st].status = st
<1> DEFINE B == BOOLEAN
           f == FALSE
<1>1. t \in TransfersOf(Nat, B) /\ f \in B /\ Transfer = TransfersOf(Nat, B)
  BY DEF Transfer
<1> HIDE DEF B, f
<1>2. t.offset \in Nat /\ t.length \in Nat /\ t.status \in Statuses
  BY <1>1, TransferUpdates
<1>3. [t EXCEPT !.status = st] \in Transfer
  BY <1>1, TransferUpdates
<1>4. /\ [t EXCEPT !.status = st].offset = t.offset
      /\ [t EXCEPT !.status = st].length = t.length
  BY <1>1, TransferUpdates
<1>5. /\ [t EXCEPT !.status = st].awake = t.awake
      /\ [t EXCEPT !.status = st].status = st
  BY <1>1, TransferUpdates
<1>6. QED BY <1>2, <1>3, <1>4, <1>5

LEMMA ASleep ==
  ASSUME NEW t \in Transfer
  PROVE  /\ [t EXCEPT !.awake = FALSE] \in Transfer
         /\ [t EXCEPT !.awake = FALSE].offset = t.offset
         /\ [t EXCEPT !.awake = FALSE].length = t.length
         /\ ~[t EXCEPT !.awake = FALSE].awake
         /\ [t EXCEPT !.awake = FALSE].status = t.status
<1> DEFINE B == BOOLEAN
           f == FALSE
<1>1. /\ t \in TransfersOf(Nat, B) /\ f \in B /\ Transfer = TransfersOf(Nat, B)
      /\ "dumping" \in Statuses
  BY DEF Transfer, Statuses
<1>2. f = FALSE
  OBVIOUS
<1> HIDE DEF B, f
<1>3. [t EXCEPT !.awake = f] \in Transfer
  BY <1>1, TransferUpdates
<1>6. [t EXCEPT !.awake = f].offset = t.offset
  BY <1>1, TransferUpdates
<1>7. [t EXCEPT !.awake = f].length = t.length
  BY <1>1, TransferUpdates
<1>4. /\ [t EXCEPT !.awake = f].awake = f
      /\ [t EXCEPT !.awake = f].status = t.status
  BY <1>1, TransferUpdates
<1>5. QED BY <1>2, <1>3, <1>4, <1>6, <1>7

(* What becomes of one transfer leaves the others as they are.              *)
LEMMA Reported ==
  ASSUME NEW ts \in Seq(Transfer), NEW id \in DOMAIN ts, NEW st \in Statuses
  PROVE  LET u == [ts EXCEPT ![id].status = st]
         IN /\ u \in Seq(Transfer) /\ Len(u) = Len(ts) /\ DOMAIN u = DOMAIN ts
            /\ u[id].status = st
            /\ \A i \in DOMAIN ts :
                 /\ u[i].offset = ts[i].offset /\ u[i].length = ts[i].length
                 /\ u[i].awake = ts[i].awake
                 /\ i # id => u[i] = ts[i]
<1> DEFINE x == [ts[id] EXCEPT !.status = st]
           u == [ts EXCEPT ![id] = x]
<1>1. /\ Len(ts) \in Nat /\ DOMAIN ts = 1..Len(ts)
      /\ \A i \in DOMAIN ts : ts[i] \in Transfer
  BY LenProperties, ElementOfSeq
<1>2. /\ x \in Transfer /\ x.offset = ts[id].offset /\ x.length = ts[id].length
      /\ x.awake = ts[id].awake /\ x.status = st
  BY <1>1, ATransfer
<1>3. u = [ts EXCEPT ![id].status = st]
  OBVIOUS
<1> HIDE DEF x
<1>4. u \in Seq(Transfer) /\ Len(u) = Len(ts) /\ DOMAIN u = DOMAIN ts
  BY <1>1, <1>2, ExceptSeq
<1>5. u[id] = x /\ \A i \in DOMAIN ts : i # id => u[i] = ts[i]
  OBVIOUS
<1> HIDE DEF u
<1>6. /\ u \in Seq(Transfer) /\ Len(u) = Len(ts) /\ DOMAIN u = DOMAIN ts
      /\ u[id].status = st
      /\ \A i \in DOMAIN ts :
           /\ u[i].offset = ts[i].offset /\ u[i].length = ts[i].length
           /\ u[i].awake = ts[i].awake
           /\ i # id => u[i] = ts[i]
  BY <1>2, <1>4, <1>5
<1>7. QED BY <1>3, <1>6

LEMMA Slept ==
  ASSUME NEW ts \in Seq(Transfer)
  PROVE  LET u == [i \in DOMAIN ts |-> [ts[i] EXCEPT !.awake = FALSE]]
         IN /\ u \in Seq(Transfer) /\ Len(u) = Len(ts) /\ DOMAIN u = DOMAIN ts
            /\ \A i \in DOMAIN ts :
                 /\ u[i].offset = ts[i].offset /\ u[i].length = ts[i].length
                 /\ ~u[i].awake
<1> DEFINE f(i) == [ts[i] EXCEPT !.awake = FALSE]
           u == [i \in DOMAIN ts |-> f(i)]
<1>1. /\ Len(ts) \in Nat /\ DOMAIN ts = 1..Len(ts)
      /\ \A i \in DOMAIN ts : ts[i] \in Transfer
  BY LenProperties, ElementOfSeq
<1>2. \A i \in DOMAIN ts : /\ f(i) \in Transfer /\ f(i).offset = ts[i].offset
                           /\ f(i).length = ts[i].length /\ ~f(i).awake
  BY <1>1, ASleep
<1> HIDE DEF f
<1>3. u \in Seq(Transfer) /\ Len(u) = Len(ts) /\ DOMAIN u = DOMAIN ts
  BY <1>1, <1>2, IsASeq
<1>4. \A i \in DOMAIN ts : u[i] = f(i)
  OBVIOUS
<1>5. QED BY <1>2, <1>3, <1>4 DEF f

-----------------------------------------------------------------------------
(* The dumps, as facts about the frames s, the transfers ts, the file f and *)
(* the dump d that is going on.                                             *)
ReadBack(s, ts, f) ==
    \A id \in DOMAIN ts :
        /\ \A k \in DOMAIN s :
             s[k].id = id => s[k].record = f[ts[id].offset + Count(s, id, k)]
        /\ Count(s, id, Len(s)) <= ts[id].length
        /\ ts[id].awake /\ ts[id].status = "complete" =>
             Count(s, id, Len(s)) = ts[id].length

Within(s, ts, f) ==
    /\ \A k \in DOMAIN s : s[k].id \in DOMAIN ts
    /\ \A id \in DOMAIN ts : ts[id].offset + ts[id].length <= Len(f)

GoesOn(s, ts, d) ==
    /\ d = NoDump \/ d.id \in DOMAIN ts
    /\ d # NoDump =>
         /\ d.id = Len(ts) /\ ts[d.id].status = "dumping" /\ d.left > 0
         /\ d.next = ts[d.id].offset + Count(s, d.id, Len(s))
         /\ d.next + d.left = ts[d.id].offset + ts[d.id].length

Dumps(s, ts, f, d) == ReadBack(s, ts, f) /\ Within(s, ts, f) /\ GoesOn(s, ts, d)

LEMMA DumpsNow ==
  /\ Dumping /\ DumpIsTheLog <=> Dumps(Frames, transfers, file, dump)
  /\ Dumping' /\ DumpIsTheLog' <=> Dumps(Frames', transfers', file', dump')
<1>1. /\ \A id, k : Sent(id, k) = Count(Frames, id, k)
      /\ \A id, k : Sent(id, k)' = Count(Frames', id, k)
  BY DEF Sent, Count
<1>2. Sent(dump.id, Len(Frames)) = Count(Frames, dump.id, Len(Frames))
  BY <1>1
<1>3. Sent(dump.id, Len(Frames))' = Count(Frames', dump'.id, Len(Frames'))
  BY DEF Sent, Count
<1>4. DumpIsTheLog <=> ReadBack(Frames, transfers, file)
  BY <1>1 DEF DumpIsTheLog, ReadBack
<1>5. DumpIsTheLog' <=> ReadBack(Frames', transfers', file')
  BY DEF DumpIsTheLog, ReadBack, Sent, Count
<1>6. Dumping <=> /\ Within(Frames, transfers, file)
                  /\ GoesOn(Frames, transfers, dump)
  BY <1>2 DEF Dumping, Within, GoesOn
<1>7. Dumping' <=> /\ Within(Frames', transfers', file')
                   /\ GoesOn(Frames', transfers', dump')
  BY <1>3 DEF Dumping, Within, GoesOn
<1>8. QED BY <1>4, <1>5, <1>6, <1>7 DEF Dumps

LEMMA NoneYet ==
  \A f : Dumps(<<>>, <<>>, f, NoDump)
BY EmptySeqs DEF Dumps, ReadBack, Within, GoesOn

LEMMA Begun ==
  ASSUME NEW s \in Seq(Frame), NEW ts \in Seq(Transfer), NEW f \in Seq(Nat),
         NEW o \in 0..Len(f), NEW l \in 0..(Len(f) - o), NEW r,
         r = [offset |-> o, length |-> l, awake |-> TRUE,
              status |-> IF l = 0 THEN "complete" ELSE "dumping"],
         NEW d,
         d = IF l = 0 THEN NoDump ELSE [id |-> Len(ts) + 1, next |-> o, left |-> l],
         Dumps(s, ts, f, NoDump)
  PROVE  Dumps(s, Append(ts, r), f, d) /\ Append(ts, r) \in Seq(Transfer)
<1> DEFINE n == Len(ts)
           u == Append(ts, r)
<1>1. /\ n \in Nat /\ Len(s) \in Nat /\ Len(f) \in Nat
      /\ DOMAIN ts = 1..n /\ DOMAIN s = 1..Len(s)
  BY LenProperties
<1>2. o \in Nat /\ l \in Nat /\ o + l <= Len(f)
  BY <1>1
<1>3. /\ r \in Transfer /\ r.offset = o /\ r.length = l
      /\ r.status = IF l = 0 THEN "complete" ELSE "dumping"
  <2>1. r \in [offset : Nat, length : Nat, awake : BOOLEAN, status : Statuses]
    BY <1>2 DEF Statuses
  <2>2. QED BY <2>1 DEF Transfer, TransfersOf
<1>4. /\ u \in Seq(Transfer) /\ Len(u) = n + 1 /\ DOMAIN u = 1..(n + 1)
      /\ u[n + 1] = r /\ \A i \in 1..n : u[i] = ts[i]
  BY <1>1, <1>3, AppendProperties
<1>5. \A i \in 1..(n + 1) : i \in 1..n \/ i = n + 1
  BY <1>1
<1> HIDE DEF n
<1>6. \A k \in DOMAIN s : s[k].id \in 1..n
  BY <1>1 DEF Dumps, Within
<1>7. \A k \in 1..Len(s) : s[k].id # n + 1
  BY <1>1, <1>6
<1>8. Count(s, n + 1, Len(s)) = 0
  BY <1>1, <1>7, CountNone
<1> HIDE DEF u
<1>9. ReadBack(s, u, f)
  <2>1. ASSUME NEW id \in 1..(n + 1)
        PROVE  /\ \A k \in DOMAIN s :
                    s[k].id = id => s[k].record = f[u[id].offset + Count(s, id, k)]
               /\ Count(s, id, Len(s)) <= u[id].length
               /\ u[id].awake /\ u[id].status = "complete" =>
                    Count(s, id, Len(s)) = u[id].length
    <3>1. CASE id \in 1..n
      <4>1. id \in DOMAIN ts /\ u[id] = ts[id] /\ ReadBack(s, ts, f)
        BY <1>1, <1>4, <3>1 DEF Dumps
      <4>2. QED BY <4>1 DEF ReadBack
    <3>2. CASE id = n + 1
      <4>1. \A k \in DOMAIN s : s[k].id # id
        BY <1>1, <1>7, <3>2
      <4>2. Count(s, id, Len(s)) = 0 /\ u[id] = r
        BY <1>4, <1>8, <3>2
      <4>3. u[id].status = "complete" => l = 0
        BY <1>3, <4>2
      <4>4. QED BY <1>2, <1>3, <4>1, <4>2, <4>3
    <3>3. QED BY <1>5, <3>1, <3>2
  <2>2. QED BY <1>4, <2>1 DEF ReadBack
<1>10. Within(s, u, f)
  <2>1. \A k \in DOMAIN s : s[k].id \in DOMAIN u
    BY <1>1, <1>4, <1>6
  <2>2. ASSUME NEW id \in 1..(n + 1)
        PROVE  u[id].offset + u[id].length <= Len(f)
    <3>1. CASE id \in 1..n
      BY <1>1, <1>4, <3>1 DEF Dumps, Within
    <3>2. CASE id = n + 1
      BY <1>2, <1>3, <1>4, <3>2
    <3>3. QED BY <1>5, <3>1, <3>2
  <2>3. QED BY <1>4, <2>1, <2>2 DEF Within
<1>11. GoesOn(s, u, d)
  <2>1. CASE l = 0
    BY <2>1 DEF GoesOn
  <2>2. CASE l # 0
    <3>1. d = [id |-> n + 1, next |-> o, left |-> l]
      BY <2>2 DEF n
    <3>2. d.id = n + 1 /\ d.next = o /\ d.left = l
      BY <3>1
    <3>3. u[d.id] = r /\ n + 1 \in DOMAIN u /\ r.status = "dumping"
      BY <1>1, <1>3, <1>4, <2>2, <3>2
    <3>4. d.next = u[d.id].offset + Count(s, d.id, Len(s))
      BY <1>2, <1>3, <1>8, <3>2, <3>3
    <3>5. QED BY <1>2, <1>3, <1>4, <2>2, <3>2, <3>3, <3>4 DEF GoesOn
  <2>3. QED BY <2>1, <2>2
<1>12. QED BY <1>4, <1>9, <1>10, <1>11 DEF Dumps, u

LEMMA Ended ==
  ASSUME NEW s \in Seq(Frame), NEW ts \in Seq(Transfer), NEW f,
         NEW id \in DOMAIN ts, NEW st \in Statuses,
         st = "complete" => Count(s, id, Len(s)) = ts[id].length,
         ReadBack(s, ts, f), Within(s, ts, f)
  PROVE  Dumps(s, [ts EXCEPT ![id].status = st], f, NoDump)
<1> DEFINE u == [ts EXCEPT ![id].status = st]
<1>1. /\ DOMAIN u = DOMAIN ts /\ u[id].status = st
      /\ \A i \in DOMAIN ts :
           /\ u[i].offset = ts[i].offset /\ u[i].length = ts[i].length
           /\ u[i].awake = ts[i].awake
           /\ i # id => u[i] = ts[i]
  BY Reported
<1> HIDE DEF u
<1>2. ReadBack(s, u, f)
  <2>1. ASSUME NEW i \in DOMAIN ts
        PROVE  /\ \A k \in DOMAIN s :
                    s[k].id = i => s[k].record = f[u[i].offset + Count(s, i, k)]
               /\ Count(s, i, Len(s)) <= u[i].length
    BY <1>1 DEF ReadBack
  <2>2. ASSUME NEW i \in DOMAIN ts, u[i].awake, u[i].status = "complete"
        PROVE  Count(s, i, Len(s)) = u[i].length
    <3>1. CASE i = id
      BY <1>1, <2>2, <3>1
    <3>2. CASE i # id
      <4>1. u[i] = ts[i]
        BY <1>1, <3>2
      <4>2. QED BY <2>2, <4>1 DEF ReadBack
    <3>3. QED BY <3>1, <3>2
  <2>3. QED BY <1>1, <2>1, <2>2 DEF ReadBack
<1>3. Within(s, u, f)
  BY <1>1 DEF Within
<1>4. QED BY <1>2, <1>3 DEF Dumps, GoesOn, u

LEMMA FrameRead ==
  ASSUME NEW s \in Seq(Frame), NEW ts \in Seq(Transfer), NEW f \in Seq(Nat),
         NEW d \in [id : Nat, next : Nat, left : Nat], d # NoDump,
         Dumps(s, ts, f, d), NEW x, x = [id |-> d.id, record |-> f[d.next + 1]]
  PROVE  LET u == Append(s, x)
         IN /\ x \in Frame /\ u \in Seq(Frame)
            /\ ReadBack(u, ts, f) /\ Within(u, ts, f)
            /\ d.next + 1 = ts[d.id].offset + Count(u, d.id, Len(u))
<1> DEFINE n == Len(s)
           u == Append(s, x)
<1>1. /\ n \in Nat /\ DOMAIN s = 1..n /\ Len(f) \in Nat
      /\ \A i \in 1..Len(f) : f[i] \in Nat
      /\ \A i \in DOMAIN ts : ts[i] \in Transfer
  BY LenProperties, ElementOfSeq
<1>2. d.id \in Nat /\ d.next \in Nat /\ d.left \in Nat
  OBVIOUS
<1>3. /\ d.id \in DOMAIN ts /\ ts[d.id].status = "dumping" /\ d.left > 0
      /\ d.next = ts[d.id].offset + Count(s, d.id, n)
      /\ d.next + d.left = ts[d.id].offset + ts[d.id].length
      /\ ts[d.id].offset + ts[d.id].length <= Len(f)
  BY DEF Dumps, GoesOn, Within
<1>4. ts[d.id].offset \in Nat /\ ts[d.id].length \in Nat
  <2>1. ts[d.id] \in Transfer /\ "complete" \in Statuses
    BY <1>1, <1>3 DEF Statuses
  <2>2. QED BY <2>1, ATransfer
<1>5. d.next + 1 \in 1..Len(f)
  <2> DEFINE a == d.next
             l == d.left
             m == Len(f)
             e == ts[d.id].offset + ts[d.id].length
  <2>1. a \in Nat /\ l \in Nat /\ l > 0 /\ m \in Nat /\ e \in Nat
    BY <1>1, <1>2, <1>3, <1>4
  <2>2. a + l = e /\ e <= m
    BY <1>3
  <2> HIDE DEF a, l, m, e
  <2>3. a + 1 \in 1..m
    BY <2>1, <2>2
  <2>4. QED BY <2>3 DEF a, m
<1>6. x \in Frame /\ x.id = d.id /\ x.record = f[d.next + 1]
  <2> DEFINE v == f[d.next + 1]
  <2>1. v \in Nat
    BY <1>1, <1>5
  <2> HIDE DEF v
  <2>2. x = [id |-> d.id, record |-> v]
    BY DEF v
  <2>3. QED BY <1>2, <2>1, <2>2 DEF Frame, v
<1>7. /\ u \in Seq(Frame) /\ Len(u) = n + 1 /\ DOMAIN u = 1..(n + 1)
      /\ u[n + 1] = x /\ \A i \in 1..n : u[i] = s[i]
  BY <1>1, <1>6, AppendProperties
<1>8. \A i \in 1..(n + 1) : i \in 1..n \/ i = n + 1
  BY <1>1
<1>9. ReadBack(s, ts, f) /\ Within(s, ts, f)
  BY DEF Dumps
<1> HIDE DEF n, u
<1>10. \A id : \A k \in 0..n : Count(u, id, k) = Count(s, id, k)
  <2>1. ASSUME NEW id, NEW k \in 0..n
        PROVE  Count(u, id, k) = Count(s, id, k)
    <3>1. k \in Nat /\ \A i \in 1..k : u[i] = s[i]
      BY <1>1, <1>7
    <3>2. QED BY <3>1, CountSame
  <2>2. QED BY <2>1
<1>11. \A id : Count(u, id, n + 1) = Count(s, id, n) + (IF id = d.id THEN 1 ELSE 0)
  <2>1. ASSUME NEW id
        PROVE  Count(u, id, n + 1) = Count(s, id, n) + (IF id = d.id THEN 1 ELSE 0)
    <3>1. u[n + 1].id = id => Count(u, id, n + 1) = Count(u, id, n) + 1
      BY <1>1, CountFacts
    <3>2. u[n + 1].id # id => Count(u, id, n + 1) = Count(u, id, n)
      BY <1>1, CountFacts
    <3>3. Count(u, id, n) = Count(s, id, n) /\ u[n + 1].id = d.id
      BY <1>1, <1>6, <1>7, <1>10
    <3>4. CASE id = d.id
      BY <3>1, <3>3, <3>4
    <3>5. CASE id # d.id
      <4>1. Count(u, id, n + 1) = Count(s, id, n) /\ Count(s, id, n) \in Nat
        BY <1>1, <3>2, <3>3, <3>5, CountFacts
      <4>2. QED BY <3>5, <4>1
    <3>6. QED BY <3>4, <3>5
  <2>2. QED BY <2>1
<1>12. \A id : Count(s, id, n) \in Nat
  BY <1>1, CountFacts
<1>13. d.next + 1 = ts[d.id].offset + Count(u, d.id, n + 1)
  <2>1. Count(u, d.id, n + 1) = Count(s, d.id, n) + 1
    BY <1>11
  <2> DEFINE o == ts[d.id].offset
             c == Count(s, d.id, n)
  <2>2. o \in Nat /\ c \in Nat /\ d.next = o + c
    BY <1>3, <1>4, <1>12
  <2> HIDE DEF o, c
  <2>3. d.next + 1 = o + (c + 1)
    BY <2>2
  <2>4. QED BY <2>1, <2>3 DEF o, c
<1>14. ReadBack(u, ts, f)
  <2>1. ASSUME NEW id \in DOMAIN ts, NEW k \in 1..(n + 1), u[k].id = id
        PROVE  u[k].record = f[ts[id].offset + Count(u, id, k)]
    <3>1. CASE k \in 1..n
      <4>1. k \in 0..n /\ k \in DOMAIN s /\ u[k] = s[k]
        BY <1>1, <1>7, <3>1 DEF n
      <4>2. Count(u, id, k) = Count(s, id, k)
        BY <1>10, <4>1
      <4>3. s[k].record = f[ts[id].offset + Count(s, id, k)]
        BY <1>9, <2>1, <4>1 DEF ReadBack
      <4>4. QED BY <4>1, <4>2, <4>3
    <3>2. CASE k = n + 1
      BY <1>6, <1>7, <1>13, <2>1, <3>2
    <3>3. QED BY <1>8, <3>1, <3>2
  <2>2. ASSUME NEW id \in DOMAIN ts
        PROVE  /\ Count(u, id, n + 1) <= ts[id].length
               /\ ts[id].awake /\ ts[id].status = "complete" =>
                    Count(u, id, n + 1) = ts[id].length
    <3>1. CASE id = d.id
      <4> DEFINE o == ts[d.id].offset
                 e == ts[d.id].length
                 c == Count(s, d.id, n)
      <4>1. Count(u, id, n + 1) = c + 1
        BY <1>11, <3>1
      <4>2. /\ o \in Nat /\ e \in Nat /\ c \in Nat
            /\ d.next = o + c /\ d.next + d.left = o + e
        BY <1>3, <1>4, <1>12
      <4>3. ts[id].length = e /\ ts[id].status = "dumping"
        BY <1>3, <3>1
      <4> HIDE DEF o, e, c
      <4>4. c + 1 <= e
        BY <1>2, <1>3, <4>2
      <4>5. QED BY <4>1, <4>3, <4>4
    <3>2. CASE id # d.id
      <4>1. Count(u, id, n + 1) = Count(s, id, n)
        BY <1>11, <1>12, <3>2
      <4>2. /\ Count(s, id, n) <= ts[id].length
            /\ ts[id].awake /\ ts[id].status = "complete" =>
                    Count(s, id, n) = ts[id].length
        BY <1>9 DEF ReadBack, n
      <4>3. QED BY <4>1, <4>2
    <3>3. QED BY <3>1, <3>2
  <2>3. QED BY <1>7, <2>1, <2>2 DEF ReadBack
<1>15. Within(u, ts, f)
  <2>1. ASSUME NEW k \in 1..(n + 1) PROVE u[k].id \in DOMAIN ts
    <3>1. CASE k \in 1..n
      <4>1. k \in DOMAIN s /\ u[k] = s[k]
        BY <1>1, <1>7, <3>1 DEF n
      <4>2. QED BY <1>9, <4>1 DEF Within
    <3>2. CASE k = n + 1
      BY <1>3, <1>6, <1>7, <3>2
    <3>3. QED BY <1>8, <3>1, <3>2
  <2>2. QED BY <1>7, <1>9, <2>1 DEF Within
<1>16. QED BY <1>6, <1>7, <1>13, <1>14, <1>15 DEF u

(* A sleep leaves the frames that are on the ground, and no transfer awake. *)
LEMMA CutOff ==
  ASSUME NEW s \in Seq(Frame), NEW g \in Seq(Frame), Len(g) <= Len(s),
         \A k \in 1..Len(g) : g[k] = s[k],
         NEW ts \in Seq(Transfer), NEW us, NEW f,
         DOMAIN us = DOMAIN ts,
         \A i \in DOMAIN ts : /\ us[i].offset = ts[i].offset
                              /\ us[i].length = ts[i].length
                              /\ ~us[i].awake,
         ReadBack(s, ts, f), Within(s, ts, f)
  PROVE  Dumps(g, us, f, NoDump)
<1>1. /\ Len(s) \in Nat /\ Len(g) \in Nat
      /\ DOMAIN s = 1..Len(s) /\ DOMAIN g = 1..Len(g)
      /\ \A k \in 1..Len(g) : k \in 1..Len(s) /\ k \in Nat
  BY LenProperties
<1>2. \A id : \A k \in 0..Len(g) : Count(g, id, k) = Count(s, id, k)
  <2>1. ASSUME NEW id, NEW k \in 0..Len(g)
        PROVE  Count(g, id, k) = Count(s, id, k)
    <3>1. k \in Nat /\ \A i \in 1..k : g[i] = s[i]
      BY <1>1
    <3>2. QED BY <3>1, CountSame
  <2>2. QED BY <2>1
<1>3. ReadBack(g, us, f)
  <2>1. ASSUME NEW id \in DOMAIN ts, NEW k \in 1..Len(g), g[k].id = id
        PROVE  g[k].record = f[us[id].offset + Count(g, id, k)]
    <3>1. Count(g, id, k) = Count(s, id, k)
      BY <1>1, <1>2
    <3>2. k \in DOMAIN s /\ s[k].id = id /\ s[k] = g[k]
      BY <1>1, <2>1
    <3>3. s[k].record = f[ts[id].offset + Count(s, id, k)]
      BY <3>2 DEF ReadBack
    <3>4. QED BY <3>1, <3>2, <3>3
  <2>2. ASSUME NEW id \in DOMAIN ts
        PROVE  Count(g, id, Len(g)) <= us[id].length
    <3>1. Count(g, id, Len(g)) = Count(s, id, Len(g))
      BY <1>1, <1>2
    <3>2. Count(s, id, Len(g)) <= Count(s, id, Len(s))
      BY <1>1, CountGrows
    <3>3. Count(s, id, Len(s)) <= ts[id].length
      BY DEF ReadBack
    <3>4. Count(s, id, Len(g)) \in Nat /\ Count(s, id, Len(s)) \in Nat
      BY <1>1, CountFacts
    <3>5. ts[id].length \in Nat
      <4>1. ts[id] \in Transfer /\ "complete" \in Statuses
        BY LenProperties, ElementOfSeq DEF Statuses
      <4>2. QED BY <4>1, ATransfer
    <3>6. QED BY <3>1, <3>2, <3>3, <3>4, <3>5
  <2>3. QED BY <1>1, <2>1, <2>2 DEF ReadBack
<1>4. Within(g, us, f)
  <2>1. ASSUME NEW k \in 1..Len(g) PROVE g[k].id \in DOMAIN us
    BY <1>1 DEF Within
  <2>2. ASSUME NEW id \in DOMAIN us
        PROVE  us[id].offset + us[id].length <= Len(f)
    BY DEF Within
  <2>3. QED BY <1>1, <2>1, <2>2 DEF Within
<1>5. QED BY <1>3, <1>4 DEF Dumps, GoesOn

-----------------------------------------------------------------------------
(* The steps of a dump.                                                     *)
LEMMA FramesNow ==
  ASSUME StorageTypes
  PROVE  /\ Frames \in Seq(Frame)
         /\ \A x \in Frame : ground \o sending \o Append(frames, x)
                               = Append(Frames, x)
         /\ Len(ground) <= Len(Frames)
         /\ \A k \in 1..Len(ground) : ground[k] = Frames[k]
<1>1. ground \in Seq(Frame) /\ sending \in Seq(Frame) /\ frames \in Seq(Frame)
  BY DEF StorageTypes
<1> DEFINE a == ground \o sending
<1>2. /\ a \in Seq(Frame) /\ Len(a) = Len(ground) + Len(sending)
      /\ \A k \in 1..(Len(ground) + Len(sending)) :
           a[k] = IF k <= Len(ground) THEN ground[k] ELSE sending[k - Len(ground)]
  BY <1>1, ConcatProperties
<1>9. a \in Seq(Frame)
  BY <1>2
<1> HIDE DEF a
<1>3. /\ a \o frames \in Seq(Frame) /\ Len(a \o frames) = Len(a) + Len(frames)
      /\ \A k \in 1..(Len(a) + Len(frames)) :
           (a \o frames)[k] = IF k <= Len(a) THEN a[k] ELSE frames[k - Len(a)]
  BY <1>1, <1>9, ConcatProperties
<1>4. Frames = a \o frames
  BY DEF Frames, a
<1>5. Len(ground) \in Nat /\ Len(sending) \in Nat /\ Len(frames) \in Nat
  BY <1>1, LenProperties
<1>6. Len(ground) <= Len(Frames) /\ \A k \in 1..Len(ground) : ground[k] = Frames[k]
  BY <1>2, <1>3, <1>4, <1>5
<1>7. ASSUME NEW x \in Frame
      PROVE  a \o Append(frames, x) = Append(a \o frames, x)
  <2>1. /\ Append(frames, x) = frames \o <<x>> /\ <<x>> \in Seq(Frame)
        /\ Append(a \o frames, x) = (a \o frames) \o <<x>>
    BY <1>1, <1>3, AppendIsConcat
  <2>2. \A p, q, r \in Seq(Frame) : (p \o q) \o r = p \o (q \o r)
    BY ConcatAssociative
  <2>3. QED BY <1>1, <1>2, <2>1, <2>2
<1>8. QED BY <1>3, <1>4, <1>6, <1>7 DEF a

LEMMA NoDumpFacts ==
  /\ NoDump \in [id : Nat, next : Nat, left : Nat]
  /\ NoDump.next + NoDump.left = 0
BY DEF NoDump

LEMMA StartSteps ==
  ASSUME Typed, Dumping, DumpIsTheLog, StartDump
  PROVE  Typed' /\ Dumping' /\ DumpIsTheLog'
<1> USE DEF producer, card, sdTask, sdWriter, history, link, counts
<1>1. /\ task = "control" /\ dump = NoDump /\ boot = "recovery"
      /\ UNCHANGED <<boot, producer, queue, drops, flash, card, flush, sdTask,
                     sdWriter, recovery, frames, sending, ground, counts>>
  BY DEF StartDump, Typed, BootsApart
<1>2. PICK o \in 0..Len(file) : \E l \in 0..Len(file) - o :
          /\ dump' = IF l = 0 THEN NoDump
                     ELSE [id |-> Len(transfers) + 1, next |-> o, left |-> l]
          /\ transfers' = Append(transfers,
                 [offset |-> o, length |-> l, awake |-> TRUE,
                  status |-> IF l = 0 THEN "complete" ELSE "dumping"])
  BY DEF StartDump
<1>3. PICK l \in 0..(Len(file) - o) :
          /\ dump' = IF l = 0 THEN NoDump
                     ELSE [id |-> Len(transfers) + 1, next |-> o, left |-> l]
          /\ transfers' = Append(transfers,
                 [offset |-> o, length |-> l, awake |-> TRUE,
                  status |-> IF l = 0 THEN "complete" ELSE "dumping"])
  BY <1>2
<1>4. /\ Frames' = Frames /\ file' = file /\ Frames \in Seq(Frame)
      /\ transfers \in Seq(Transfer) /\ file \in Seq(Nat)
      /\ Len(transfers) \in Nat /\ Len(file) \in Nat
  BY <1>1, FramesNow, LenProperties DEF Frames, Typed, StorageTypes
<1>5. Dumps(Frames, transfers, file, NoDump)
  BY <1>1, DumpsNow
<1>6. /\ Dumps(Frames, transfers', file, dump')
      /\ transfers' \in Seq(Transfer)
  BY <1>3, <1>4, <1>5, Begun
<1>7. /\ dump' \in [id : Nat, next : Nat, left : Nat]
      /\ dump'.next + dump'.left <= Len(file)
  <2>1. CASE l = 0
    BY <1>3, <1>4, <2>1, NoDumpFacts
  <2>2. CASE l # 0
    <3>1. dump' = [id |-> Len(transfers) + 1, next |-> o, left |-> l]
      BY <1>3, <2>2
    <3>2. o \in Nat /\ l \in Nat /\ o + l <= Len(file)
      BY <1>4
    <3>3. QED BY <1>4, <3>1, <3>2
  <2>3. QED BY <2>1, <2>2
<1>8. Dumping' /\ DumpIsTheLog'
  BY <1>4, <1>6, DumpsNow
<1>9. Typed'
  BY <1>1, <1>4, <1>6, <1>7
  DEF Typed, StorageTypes, FlightStorageTypeOK, BootsApart
<1>10. QED BY <1>8, <1>9

LEMMA StopSteps ==
  ASSUME Typed, Dumping, DumpIsTheLog, NEW st \in Statuses,
         dump # NoDump, task = "control", task' \in {"control", "drain"},
         st = "complete" =>
           Count(Frames', dump.id, Len(Frames')) = transfers[dump.id].length,
         dump' = NoDump,
         transfers' = [transfers EXCEPT ![dump.id].status = st],
         frames' \in Seq(Frame), Len(frames') <= FrameQueue, failures' \in Nat,
         ReadBack(Frames', transfers, file), Within(Frames', transfers, file),
         UNCHANGED <<boot, producer, queue, drops, flash, card, flush, log,
                     sdWriter, recovery, sending, ground, resets>>
  PROVE  Typed' /\ Dumping' /\ DumpIsTheLog'
<1> USE DEF producer, card, sdTask, sdWriter, history, link, counts
<1>1. boot = "recovery" /\ flush = "none" /\ dump.id \in DOMAIN transfers
      /\ transfers \in Seq(Transfer) /\ Len(file) \in Nat
  BY LenProperties
  DEF Typed, StorageTypes, FlightStorageTypeOK, BootsApart, Dumping
<1>2. Frames' \in Seq(Frame)
  <2>1. ground \in Seq(Frame) /\ sending \in Seq(Frame)
    BY DEF Typed, StorageTypes
  <2>2. ground \o sending \in Seq(Frame)
    BY <2>1, ConcatProperties
  <2>3. Frames' = ground \o sending \o frames'
    BY DEF Frames
  <2>4. QED BY <2>2, <2>3, ConcatProperties
<1>3. Dumps(Frames', transfers', file, NoDump)
  BY <1>1, <1>2, Ended
<1>4. transfers' \in Seq(Transfer)
  BY <1>1, Reported
<1>5. Typed'
  <2>1. /\ dump' \in [id : Nat, next : Nat, left : Nat]
        /\ dump'.next + dump'.left <= Len(file)
    BY <1>1, NoDumpFacts
  <2>2. StorageTypes'
    BY <1>4, <2>1 DEF Typed, StorageTypes
  <2>3. FlightStorageTypeOK'
    BY <1>1, <2>1 DEF Typed, FlightStorageTypeOK
  <2>4. BootsApart'
    BY <1>1 DEF Typed, BootsApart
  <2>5. QED BY <2>2, <2>3, <2>4 DEF Typed
<1>6. file' = file
  OBVIOUS
<1>7. QED BY <1>3, <1>5, <1>6, DumpsNow

LEMMA ReadSteps ==
  ASSUME Typed, Dumping, DumpIsTheLog, StopDump \/ DumpFrame
  PROVE  Typed' /\ Dumping' /\ DumpIsTheLog'
<1> USE DEF producer, card, sdTask, sdWriter, history, link, counts
<1>1. /\ Dumps(Frames, transfers, file, dump)
      /\ ReadBack(Frames, transfers, file) /\ Within(Frames, transfers, file)
  BY DumpsNow DEF Dumps
<1>2. /\ frames \in Seq(Frame) /\ Len(frames) <= FrameQueue /\ Len(frames) \in Nat
      /\ failures \in Nat /\ transfers \in Seq(Transfer) /\ file \in Seq(Nat)
      /\ Frames \in Seq(Frame) /\ dump \in [id : Nat, next : Nat, left : Nat]
      /\ FrameQueue \in Nat /\ Len(file) \in Nat
  BY LenProperties, FramesNow, NatFacts DEF Typed, StorageTypes, FlightStorageTypeOK
<1>3. CASE StopDump
  <2>1. Frames' = Frames
    BY <1>3 DEF StopDump, Frames
  <2>2. "aborted" \in Statuses /\ "aborted" # "complete"
    BY DEF Statuses
  <2>3. /\ dump # NoDump /\ task = "control" /\ task' = "control"
        /\ dump' = NoDump /\ frames' = frames /\ failures' = failures
        /\ transfers' = [transfers EXCEPT ![dump.id].status = "aborted"]
        /\ UNCHANGED <<boot, producer, queue, drops, flash, card, flush, log,
                       sdWriter, recovery, sending, ground, resets>>
    BY <1>3 DEF StopDump
  <2>4. QED BY <1>1, <1>2, <2>1, <2>2, <2>3, StopSteps
<1>4. CASE DumpFrame
  <2>1. /\ task = "control" /\ task' = "drain"
        /\ UNCHANGED <<boot, producer, queue, drops, flash, card, flush, log,
                       sdWriter, recovery, sending, ground>>
    BY <1>4 DEF DumpFrame
  <2>2. CASE UNCHANGED <<dump, frames, transfers, counts>>
    <3>1. Frames' = Frames /\ file' = file
      BY <2>1, <2>2 DEF Frames
    <3>2. Dumping' /\ DumpIsTheLog'
      BY <1>1, <2>2, <3>1, DumpsNow
    <3>3. Typed'
      BY <2>1, <2>2 DEF Typed, StorageTypes, FlightStorageTypeOK, BootsApart
    <3>4. QED BY <3>2, <3>3
  <2>3. CASE /\ dump # NoDump /\ Len(frames) < FrameQueue
             /\ frames' = Append(frames, [id |-> dump.id, record |-> Read(dump.next)])
             /\ dump' = IF dump.left = 1 THEN NoDump
                        ELSE [dump EXCEPT !.next = @ + 1, !.left = @ - 1]
             /\ transfers' = IF dump.left = 1
                             THEN [transfers EXCEPT ![dump.id].status = "complete"]
                             ELSE transfers
             /\ UNCHANGED counts
    <3> DEFINE x == [id |-> dump.id, record |-> file[dump.next + 1]]
               u == Append(Frames, x)
    <3>1. /\ x \in Frame /\ u \in Seq(Frame)
          /\ ReadBack(u, transfers, file) /\ Within(u, transfers, file)
          /\ dump.next + 1 = transfers[dump.id].offset + Count(u, dump.id, Len(u))
      BY <1>1, <1>2, <2>3, FrameRead
    <3>2. frames' = Append(frames, x)
      BY <2>3 DEF Read
    <3> HIDE DEF x
    <3>3. /\ frames' \in Seq(Frame) /\ Len(frames') <= FrameQueue
      <4>1. frames' \in Seq(Frame) /\ Len(frames') = Len(frames) + 1
        BY <1>2, <3>1, <3>2, AppendProperties
      <4>2. Len(frames) < FrameQueue
        BY <2>3
      <4>3. QED BY <1>2, <4>1, <4>2
    <3>4. Frames' = u
      <4>1. Frames' = ground \o sending \o Append(frames, x)
        BY <2>1, <3>2 DEF Frames
      <4>2. QED BY <3>1, <4>1, FramesNow DEF Typed
    <3> HIDE DEF u
    <3> DEFINE t == transfers[dump.id]
               c == Count(u, dump.id, Len(u))
    <3>5. /\ dump.id \in DOMAIN transfers /\ dump.id = Len(transfers)
          /\ t.status = "dumping" /\ dump.left > 0
          /\ dump.next + dump.left = t.offset + t.length
          /\ t.offset + t.length <= Len(file)
      BY <1>1, <2>3 DEF Dumps, GoesOn, Within
    <3>6. /\ t.offset \in Nat /\ t.length \in Nat /\ c \in Nat
          /\ dump.next \in Nat /\ dump.left \in Nat /\ dump.id \in Nat
          /\ dump.next + 1 = t.offset + c
      <4>1. transfers[dump.id] \in Transfer /\ "complete" \in Statuses
        BY <1>2, <3>5, LenProperties, ElementOfSeq DEF Statuses
      <4>2. c \in Nat
        <5>1. Len(u) \in Nat
          BY <3>1, LenProperties
        <5>2. QED BY <5>1, CountFacts
      <4>3. QED BY <1>2, <3>1, <4>1, <4>2, ATransfer
    <3> HIDE DEF t, c
    <3>7. CASE dump.left = 1
      <4>1. c = t.length
        BY <3>5, <3>6, <3>7
      <4>2. /\ dump' = NoDump /\ failures' = failures /\ resets' = resets
            /\ transfers' = [transfers EXCEPT ![dump.id].status = "complete"]
        BY <2>3, <3>7
      <4>3. "complete" \in Statuses
        BY DEF Statuses
      <4>4. Count(Frames', dump.id, Len(Frames')) = transfers[dump.id].length
        BY <3>4, <4>1 DEF c, t
      <4>5. QED
        BY <1>2, <2>1, <2>3, <3>1, <3>3, <3>4, <4>2, <4>3, <4>4, StopSteps
    <3>8. CASE dump.left # 1
      <4> DEFINE d == [id |-> dump.id, next |-> dump.next + 1, left |-> dump.left - 1]
      <4>1. dump' = d
        <5>1. dump' = [dump EXCEPT !.next = dump.next + 1, !.left = dump.left - 1]
          BY <2>3, <3>8
        <5>2. QED BY <1>2, <5>1
      <4>2. dump.next + 1 \in Nat /\ dump.left - 1 \in Nat /\ dump.left - 1 > 0
        BY <3>5, <3>6, <3>8
      <4>3. /\ d \in [id : Nat, next : Nat, left : Nat]
            /\ d.id = dump.id /\ d.next = dump.next + 1 /\ d.left = dump.left - 1
        BY <3>6, <4>2
      <4> HIDE DEF d
      <4>4. d.next + d.left = t.offset + t.length
        BY <3>5, <3>6, <4>3
      <4>5. GoesOn(u, transfers, d)
        BY <3>5, <3>6, <4>2, <4>3, <4>4 DEF GoesOn, t, c
      <4>6. transfers' = transfers /\ counts' = counts
        BY <2>3, <3>8
      <4>7. Dumping' /\ DumpIsTheLog'
        BY <2>1, <3>1, <3>4, <4>1, <4>5, <4>6, DumpsNow DEF Dumps
      <4>8. boot = "recovery" /\ d.next + d.left <= Len(file)
        BY <2>1, <3>5, <4>4 DEF Typed, BootsApart
      <4>9. Typed'
        BY <2>1, <3>3, <4>1, <4>3, <4>6, <4>8
        DEF Typed, StorageTypes, FlightStorageTypeOK, BootsApart
      <4>10. QED BY <4>7, <4>9
    <3>9. QED BY <3>7, <3>8
  <2>4. CASE /\ dump # NoDump /\ failures' = failures + 1
             /\ dump' = NoDump
             /\ transfers' = [transfers EXCEPT ![dump.id].status = "io_error"]
             /\ UNCHANGED <<frames, resets>>
    <3>1. Frames' = Frames
      BY <2>1, <2>4 DEF Frames
    <3>2. "io_error" \in Statuses /\ "io_error" # "complete" /\ failures' \in Nat
      BY <1>2, <2>4 DEF Statuses
    <3>3. QED BY <1>1, <1>2, <2>1, <2>4, <3>1, <3>2, StopSteps
  <2>5. QED BY <1>4, <2>2, <2>3, <2>4 DEF DumpFrame
<1>5. QED BY <1>3, <1>4

LEMMA LinkSteps ==
  ASSUME Typed, Dumping, DumpIsTheLog, CanTask
  PROVE  Typed' /\ Dumping' /\ DumpIsTheLog'
<1> USE DEF producer, card, sdTask, sdWriter, history, link, counts
<1>1. /\ frames \in Seq(Frame) /\ sending \in Seq(Frame) /\ ground \in Seq(Frame)
      /\ Len(frames) <= FrameQueue
  BY DEF Typed, StorageTypes, FlightStorageTypeOK
<1>8. Len(frames) \in Nat /\ FrameQueue \in Nat
  BY <1>1, NatFacts, LenProperties
<1>2. UNCHANGED <<boot, producer, queue, drops, flash, card, flush, sdTask,
                  sdWriter, recovery, dump, transfers, counts>>
  BY DEF CanTask, TakeFrame, SendFrame
<1>3. /\ Frames' = Frames /\ boot = "recovery"
      /\ frames' \in Seq(Frame) /\ sending' \in Seq(Frame) /\ ground' \in Seq(Frame)
      /\ Len(sending') <= 1 /\ Len(frames') <= FrameQueue
  <2>1. CASE TakeFrame
    <3>1. /\ frames # <<>> /\ sending = <<>> /\ ground' = ground
          /\ sending' = <<Head(frames)>> /\ frames' = Tail(frames)
      BY <2>1 DEF TakeFrame
    <3>2. /\ Tail(frames) \in Seq(Frame) /\ Len(Tail(frames)) = Len(frames) - 1
          /\ <<Head(frames)>> \in Seq(Frame) /\ Len(<<Head(frames)>>) = 1
          /\ <<Head(frames)>> \o Tail(frames) = frames
      BY <1>1, <3>1, HeadTailProperties
    <3>3. ground \o sending = ground
      BY <1>1, <3>1, ConcatEmptySeq
    <3>4. (ground \o <<Head(frames)>>) \o Tail(frames) = ground \o frames
      <4>1. \A p, q, r \in Seq(Frame) : (p \o q) \o r = p \o (q \o r)
        BY ConcatAssociative
      <4> DEFINE h == <<Head(frames)>>
                 t == Tail(frames)
      <4>2. h \in Seq(Frame) /\ t \in Seq(Frame) /\ h \o t = frames
        BY <3>2
      <4> HIDE DEF h, t
      <4>3. (ground \o h) \o t = ground \o frames
        BY <1>1, <4>1, <4>2
      <4>4. QED BY <4>3 DEF h, t
    <3>5. boot = "recovery"
      BY <3>1 DEF Typed, BootsApart, FlightStorageTypeOK
    <3>6. QED BY <1>1, <1>8, <3>1, <3>2, <3>3, <3>4, <3>5 DEF Frames
  <2>2. CASE SendFrame
    <3>1. /\ sending # <<>> /\ frames' = frames
          /\ ground' = ground \o sending /\ sending' = <<>>
      BY <2>2 DEF SendFrame
    <3>2. ground \o sending \in Seq(Frame)
      BY <1>1, ConcatProperties
    <3>3. (ground \o sending) \o <<>> = ground \o sending
      BY <3>2, ConcatEmptySeq
    <3>4. boot = "recovery"
      BY <3>1 DEF Typed, BootsApart, FlightStorageTypeOK
    <3>5. QED BY <1>1, <3>1, <3>2, <3>3, <3>4, EmptySeqs DEF Frames
  <2>3. QED BY <2>1, <2>2 DEF CanTask
<1>4. Typed'
  BY <1>2, <1>3 DEF Typed, StorageTypes, FlightStorageTypeOK, BootsApart
<1>5. file' = file
  BY <1>2
<1>6. Dumping' /\ DumpIsTheLog'
  BY <1>2, <1>3, <1>5, DumpsNow
<1>7. QED BY <1>4, <1>6

(* What leaves the link alone leaves the dumps as they are: in flight there *)
(* are none, and after a wake the file is not written.                      *)
LEMMA DumpsKept ==
  ASSUME Typed, Dumping, DumpIsTheLog, UNCHANGED link,
         UNCHANGED file \/ boot = "flight"
  PROVE  Dumping' /\ DumpIsTheLog'
<1> USE DEF link, history
<1>1. Frames' = Frames /\ transfers' = transfers /\ dump' = dump
  BY DEF Frames
<1>2. CASE UNCHANGED file
  BY <1>1, <1>2, DumpsNow
<1>3. CASE boot = "flight"
  <2>1. /\ transfers = <<>> /\ dump = NoDump /\ ground = <<>> /\ sending = <<>>
        /\ frames = <<>>
    BY <1>3 DEF Typed, BootsApart
  <2>2. Frames = <<>>
    <3>1. <<>> \o <<>> = <<>>
      BY EmptySeqs, ConcatEmptySeq
    <3>2. QED BY <2>1, <3>1 DEF Frames
  <2>3. QED BY <1>1, <2>1, <2>2, NoneYet, DumpsNow
<1>4. QED BY <1>2, <1>3


LEMMA SleepSteps ==
  ASSUME Typed, Dumping, DumpIsTheLog, DeepSleep \/ Reset
  PROVE  Typed' /\ Dumping' /\ DumpIsTheLog'
<1> USE DEF producer, card, sdTask, sdWriter, history, link, counts
<1>1. /\ RamLost /\ boot' \in {"flight", "recovery"} /\ resets' \in Nat
      /\ boot' = "flight" => boot = "flight"
  BY DEF DeepSleep, Reset, Typed, StorageTypes, FlightStorageTypeOK
<1>2. /\ mission' = "command" /\ made' = 0 /\ hand' = 0 /\ decimation' = 0
      /\ queue' = <<>> /\ drops' = 0 /\ flash' = NoFlash
      /\ stage' = <<>> /\ error' = FALSE /\ file' = SubSeq(file, 1, durable)
      /\ flush' = "none" /\ task' = "boot" /\ writer' = "off" /\ asked' = FALSE
      /\ log' = [ready |-> FALSE, failed |-> FALSE] /\ recovery' = NoRecovery
      /\ dump' = NoDump /\ frames' = <<>> /\ sending' = <<>>
      /\ transfers' = [i \in DOMAIN transfers |-> [transfers[i] EXCEPT !.awake = FALSE]]
      /\ durable' = durable /\ failures' = failures /\ ground' = ground
  BY <1>1 DEF RamLost
<1>3. /\ file \in Seq(Nat) /\ Len(file) \in Nat /\ durable \in 0..Len(file)
      /\ transfers \in Seq(Transfer) /\ ground \in Seq(Frame)
      /\ \A i \in 1..Len(file) : file[i] \in Nat
  BY LenProperties, ElementOfSeq DEF Typed, StorageTypes, FlightStorageTypeOK
<1>4. file' \in Seq(Nat) /\ Len(file') = durable
  <2> DEFINE g == SubSeq(file, 1, durable)
  <2>1. durable \in Int /\ \A i \in 1..durable : file[i] \in Nat
    BY <1>3
  <2>2. /\ g \in Seq(Nat)
        /\ Len(g) = IF 1 <= durable THEN durable - 1 + 1 ELSE 0
    BY <2>1, SubSeqProperties
  <2>3. file' = g
    BY <1>2
  <2> HIDE DEF g
  <2>4. QED BY <1>3, <2>2, <2>3
<1>5. boot = "recovery" => file' = file
  BY <1>2, <1>3, SubSeqFull DEF Typed, BootsApart
<1>6. /\ transfers' \in Seq(Transfer) /\ Len(transfers') = Len(transfers)
      /\ DOMAIN transfers' = DOMAIN transfers
      /\ \A i \in DOMAIN transfers :
           /\ transfers'[i].offset = transfers[i].offset
           /\ transfers'[i].length = transfers[i].length
           /\ ~transfers'[i].awake
  BY <1>2, <1>3, Slept
<1>7. boot = "flight" => transfers' = <<>> /\ ground' = <<>>
  <2>1. SUFFICES ASSUME boot = "flight" PROVE transfers' = <<>> /\ ground' = <<>>
    OBVIOUS
  <2>2. transfers = <<>> /\ ground = <<>>
    BY <2>1 DEF Typed, BootsApart
  <2>3. Len(transfers') = 0
    BY <1>6, <2>2, EmptySeqs
  <2>4. QED BY <1>2, <1>6, <2>2, <2>3, EmptySeq
<1>8. Frames' = ground
  <2>1. (ground \o <<>>) \o <<>> = ground
    BY <1>3, ConcatEmptySeq
  <2>2. QED BY <1>2, <2>1 DEF Frames
<1>9. Dumping' /\ DumpIsTheLog'
  <2>1. CASE boot = "flight"
    <3>1. Frames' = <<>> /\ transfers' = <<>> /\ dump' = NoDump
      BY <1>2, <1>7, <1>8, <2>1
    <3>2. QED BY <3>1, NoneYet, DumpsNow
  <2>2. CASE boot # "flight"
    <3>1. boot = "recovery"
      BY <2>2 DEF Typed, FlightStorageTypeOK
    <3>2. ReadBack(Frames, transfers, file) /\ Within(Frames, transfers, file)
      BY DumpsNow DEF Dumps
    <3>3. Dumps(ground, transfers', file, NoDump)
      BY <1>3, <1>6, <3>2, FramesNow, CutOff DEF Typed
    <3>4. QED BY <1>2, <1>5, <1>8, <3>1, <3>3, DumpsNow
  <2>3. QED BY <2>1, <2>2
<1>10. StorageTypes'
  <2>1. log' \in LogsOf(BOOLEAN) /\ recovery' \in RecoveriesOf(BOOLEAN)
    BY <1>2, LogValues, RecoveryValues DEF Typed
  <2>2. flash' \in FlashesOf(Nat, BOOLEAN)
    BY <1>2 DEF FlashesOf, NoFlash
  <2>3. dump' \in [id : Nat, next : Nat, left : Nat]
    BY <1>2, NoDumpFacts
  <2>4. failures' \in Nat /\ ground' \in Seq(Frame)
    BY <1>2 DEF Typed, StorageTypes
  <2>5. /\ queue' \in Seq(Nat) /\ stage' \in Seq(Nat)
        /\ frames' \in Seq(Frame) /\ sending' \in Seq(Frame) /\ Len(sending') <= 1
    BY <1>2, EmptySeqs
  <2>6. /\ made' \in Nat /\ drops' \in Nat
        /\ error' \in BOOLEAN /\ asked' \in BOOLEAN
    BY <1>2
  <2>7. QED
    BY <1>1, <1>4, <1>6, <2>1, <2>2, <2>3, <2>4, <2>5, <2>6 DEF StorageTypes
<1>11. FlightStorageTypeOK'
  <2>1. flash'.queue = 0 /\ dump'.next + dump'.left = 0
    BY <1>2, NoDumpFacts DEF NoFlash
  <2>2. /\ Len(queue') = 0 /\ Len(stage') = 0 /\ Len(frames') = 0
    BY <1>2, EmptySeqs
  <2>3. durable' \in 0..Len(file') /\ Len(file') \in Nat
    BY <1>2, <1>3, <1>4
  <2>4. QED
    BY <1>1, <1>2, <2>1, <2>2, <2>3, NatFacts DEF FlightStorageTypeOK
<1>12. BootsApart'
  BY <1>1, <1>2, <1>4, <1>7 DEF BootsApart
<1>13. QED BY <1>9, <1>10, <1>11, <1>12 DEF Typed

-----------------------------------------------------------------------------
(* The records, from the hand to the card.                                  *)
LEMMA OrderTypes ==
  ASSUME Typed
  PROVE  /\ OnCard \in Seq(Nat) /\ stage \in Seq(Nat) /\ queue \in Seq(Nat)
         /\ InHand \in Seq(Nat)
         /\ OnCard \o stage \in Seq(Nat) /\ OnCard \o stage \o queue \in Seq(Nat)
         /\ OnTheWay \in Seq(Nat) /\ Len(OnTheWay) \in Nat
         /\ made \in Nat /\ drops \in Nat /\ hand \in Nat
<1>1. /\ stage \in Seq(Nat) /\ queue \in Seq(Nat) /\ file \in Seq(Nat)
      /\ made \in Nat /\ drops \in Nat /\ hand \in Nat
  BY DEF Typed, StorageTypes, FlightStorageTypeOK
<1>2. <<hand>> \in Seq(Nat)
  BY <1>1
<1>3. OnCard \in Seq(Nat) /\ InHand \in Seq(Nat)
  BY <1>1, <1>2, EmptySeqs DEF OnCard, InHand
<1>4. OnCard \o stage \in Seq(Nat)
  BY <1>1, <1>3, ConcatProperties
<1>5. OnCard \o stage \o queue \in Seq(Nat)
  BY <1>1, <1>4, ConcatProperties
<1>6. OnTheWay \in Seq(Nat)
  BY <1>3, <1>5, ConcatProperties DEF OnTheWay
<1>7. QED BY <1>1, <1>3, <1>4, <1>5, <1>6, LenProperties

LEMMA OrderKept ==
  ASSUME InOrder, OnTheWay' = OnTheWay, UNCHANGED <<boot, made, drops>>,
         task' = "boot" \/ log'.ready => task = "boot" \/ log.ready
  PROVE  InOrder'
BY DEF InOrder

LEMMA ProducerOrder ==
  ASSUME Typed, InOrder, Producer
  PROVE  InOrder'
<1> USE DEF producer, card, sdTask, sdWriter, history, link, counts
<1> DEFINE a == OnCard \o stage \o queue
<1>1. CASE StartSequence \/ BackToCommand
  <2>1. UNCHANGED <<boot, made, hand, queue, drops, stage, file, sdTask>>
    BY <1>1 DEF StartSequence, BackToCommand
  <2>2. OnTheWay' = OnTheWay
    BY <2>1 DEF OnTheWay, OnCard, InHand
  <2>3. QED BY <2>1, <2>2, OrderKept
<1>2. CASE MakeRecord
  <2>1. /\ hand = 0 /\ made' = made + 1 /\ hand' = made + 1
        /\ UNCHANGED <<boot, queue, drops, stage, file, sdTask>>
    BY <1>2 DEF MakeRecord
  <2>2. OnTheWay = a
    <3>1. OnTheWay = a \o <<>>
      BY <2>1 DEF OnTheWay, InHand
    <3>2. QED BY <3>1, OrderTypes, ConcatEmptySeq
  <2>3. OnTheWay' = a \o <<made + 1>>
    <3>1. hand' # 0 /\ InHand' = <<made + 1>>
      BY <2>1, OrderTypes DEF InHand
    <3>2. OnCard' = OnCard
      BY <2>1 DEF OnCard
    <3>3. QED BY <2>1, <3>1, <3>2 DEF OnTheWay
  <2>4. a \in Seq(Nat) /\ made \in Nat /\ drops \in Nat /\ Len(a) \in Nat
    BY OrderTypes, LenProperties
  <2>5. SUFFICES ASSUME boot = "flight" /\ (task = "boot" \/ log.ready)
                 PROVE  /\ Upwards(a \o <<made + 1>>, made + 1)
                        /\ Len(a \o <<made + 1>>) + drops = made + 1
    BY <2>1, <2>3 DEF InOrder
  <2>6. Upwards(a, made) /\ Len(a) + drops = made
    BY <2>2, <2>5 DEF InOrder
  <2> HIDE DEF a
  <2>7. /\ Upwards(a \o <<made + 1>>, made + 1)
        /\ Len(a \o <<made + 1>>) = Len(a) + 1
    BY <2>4, <2>6, MadeOne
  <2>8. QED BY <2>4, <2>6, <2>7
<1>3. CASE SendRecord
  <2>1. /\ hand # 0 /\ hand' = 0
        /\ UNCHANGED <<boot, made, stage, file, sdTask>>
    BY <1>3 DEF SendRecord
  <2>2. OnTheWay = a \o <<hand>>
    BY <2>1 DEF OnTheWay, InHand
  <2> DEFINE b == OnCard \o stage
  <2>3. /\ b \in Seq(Nat) /\ queue \in Seq(Nat) /\ <<hand>> \in Seq(Nat)
        /\ a = b \o queue /\ a \in Seq(Nat) /\ hand \in Nat /\ drops \in Nat
        /\ made \in Nat /\ Len(a) \in Nat
    BY OrderTypes, LenProperties
  <2>4. OnCard' = OnCard /\ InHand' = <<>>
    BY <2>1 DEF OnCard, InHand
  <2>5. CASE queue' = Append(queue, hand) /\ UNCHANGED drops
    <3>1. OnTheWay' = b \o Append(queue, hand) \o <<>>
      BY <2>1, <2>4, <2>5 DEF OnTheWay
    <3> HIDE DEF a, b
    <3>2. Append(queue, hand) = queue \o <<hand>>
      BY <2>3, AppendIsConcat
    <3>3. b \o (queue \o <<hand>>) = a \o <<hand>>
      BY <2>3, Joined
    <3>4. a \o <<hand>> \in Seq(Nat)
      BY <2>3, ConcatProperties
    <3>5. OnTheWay' = OnTheWay
      BY <2>2, <3>1, <3>2, <3>3, <3>4, ConcatEmptySeq
    <3>6. QED BY <2>1, <2>5, <3>5, OrderKept
  <2>6. CASE drops' = drops + 1 /\ UNCHANGED queue
    <3>1. OnTheWay' = a
      <4>1. OnTheWay' = a \o <<>>
        BY <2>1, <2>4, <2>6 DEF OnTheWay
      <4>2. QED BY <2>3, <4>1, ConcatEmptySeq
    <3>2. SUFFICES ASSUME boot = "flight" /\ (task = "boot" \/ log.ready)
                   PROVE  Upwards(a, made) /\ Len(a) + drops + 1 = made
      <4>1. boot' = boot /\ task' = task /\ log' = log /\ made' = made
        BY <2>1
      <4>2. Len(a) + drops + 1 = Len(a) + (drops + 1)
        BY <2>3
      <4> HIDE DEF a
      <4>3. QED BY <2>6, <3>1, <3>2, <4>1, <4>2 DEF InOrder
    <3>3. Upwards(a \o <<hand>>, made) /\ Len(a \o <<hand>>) + drops = made
      BY <2>2, <3>2 DEF InOrder
    <3> HIDE DEF a, b
    <3>4. Upwards(a, made) /\ Len(a \o <<hand>>) = Len(a) + 1
      BY <2>3, <3>3, DroppedLast
    <3>5. QED BY <2>3, <3>3, <3>4
  <2>7. QED BY <1>3, <2>5, <2>6 DEF SendRecord
<1>4. QED BY <1>1, <1>2, <1>3 DEF Producer

LEMMA LogOrder ==
  ASSUME Typed, InOrder, SdLogTask
  PROVE  InOrder'
<1> USE DEF producer, card, sdTask, sdWriter, history, link, counts
<1>1. CASE PrepareForFlight
  <2>1. /\ task = "boot" /\ task' = "drain" /\ file' = <<>>
        /\ UNCHANGED <<boot, made, hand, queue, drops, stage>>
    BY <1>1 DEF PrepareForFlight
  <2>2. OnTheWay' = OnTheWay
    BY <2>1 DEF OnTheWay, OnCard, InHand
  <2>3. QED BY <2>1, <2>2, OrderKept
<1>2. CASE PrepareFails \/ OpenExisting
  BY <1>2 DEF PrepareFails, OpenExisting, InOrder
<1>3. CASE AppendRecord
  <2>1. /\ task = "drain" /\ queue # <<>> /\ queue' = Tail(queue)
        /\ UNCHANGED <<boot, made, hand, file, task>>
    BY <1>3 DEF AppendRecord
  <2>2. OnCard = file /\ OnCard' = file /\ InHand' = InHand
    BY <2>1 DEF OnCard, InHand
  <2>3. /\ file \in Seq(Nat) /\ stage \in Seq(Nat) /\ queue \in Seq(Nat)
        /\ InHand \in Seq(Nat) /\ made \in Nat /\ drops \in Nat
        /\ file \o stage \in Seq(Nat) /\ Len(OnTheWay) \in Nat
    BY <2>2, OrderTypes
  <2>4. OnTheWay = file \o stage \o queue \o InHand
    BY <2>2 DEF OnTheWay
  <2>5. CASE /\ stage' = Append(stage, Head(queue))
             /\ UNCHANGED <<drops, log>>
    <3> DEFINE h == <<Head(queue)>>
               t == Tail(queue)
    <3>1. /\ h \in Seq(Nat) /\ t \in Seq(Nat) /\ h \o t = queue
          /\ Append(stage, Head(queue)) = stage \o h
      BY <2>1, <2>3, HeadTailProperties, AppendIsConcat
    <3>2. stage' = stage \o h /\ queue' = t
      BY <2>1, <2>5, <3>1
    <3> HIDE DEF h, t
    <3>3. (file \o (stage \o h)) \o t = (file \o stage) \o (h \o t)
      <4>1. /\ file \in Seq(Nat) /\ stage \in Seq(Nat)
            /\ h \in Seq(Nat) /\ t \in Seq(Nat)
        BY <2>3, <3>1
      <4> DEFINE a == file \o stage
      <4>2. a \in Seq(Nat) /\ file \o (stage \o h) = a \o h
        BY <4>1, ConcatProperties, Joined
      <4> HIDE DEF a
      <4>3. (a \o h) \o t = a \o (h \o t)
        BY <4>1, <4>2, Joined
      <4>4. QED BY <4>2, <4>3 DEF a
    <3>4. OnTheWay' = OnTheWay
      <4>1. OnTheWay' = file \o (stage \o h) \o t \o InHand
        BY <2>2, <3>2 DEF OnTheWay
      <4>2. QED BY <2>4, <3>1, <3>3, <4>1
    <3>5. QED BY <2>1, <2>5, <3>4, OrderKept
  <2>6. CASE /\ drops' = drops + 1
             /\ log' = [log EXCEPT !.failed = TRUE]
             /\ UNCHANGED stage
    <3> DEFINE a == file \o stage
    <3>1. OnTheWay' = a \o Tail(queue) \o InHand
      BY <2>1, <2>2, <2>6 DEF OnTheWay
    <3>2. log'.ready = log.ready
      BY <2>6, LogValues DEF Typed
    <3>3. SUFFICES ASSUME boot = "flight" /\ log.ready
                   PROVE  /\ Upwards(OnTheWay', made)
                          /\ Len(OnTheWay') + (drops + 1) = made
      BY <2>1, <2>6, <3>2 DEF InOrder
    <3>4. Upwards(a \o queue \o InHand, made) /\ Len(a \o queue \o InHand) + drops = made
      BY <2>4, <3>3 DEF InOrder
    <3>5. Len(a \o queue \o InHand) \in Nat /\ a \in Seq(Nat)
      BY <2>3, <2>4
    <3> HIDE DEF a
    <3>6. /\ Upwards(a \o Tail(queue) \o InHand, made)
          /\ Len(a \o Tail(queue) \o InHand) = Len(a \o queue \o InHand) - 1
      BY <2>1, <2>3, <3>4, <3>5, DroppedHead
    <3> DEFINE m == Len(a \o queue \o InHand)
    <3>7. Len(OnTheWay') = m - 1 /\ m \in Nat /\ m + drops = made
      BY <3>1, <3>4, <3>5, <3>6
    <3> HIDE DEF m
    <3>8. Upwards(OnTheWay', made)
      BY <3>1, <3>6
    <3>9. m - 1 + (drops + 1) = made
      BY <2>3, <3>7
    <3>10. QED BY <3>7, <3>8, <3>9
  <2>7. QED BY <1>3, <2>5, <2>6 DEF AppendRecord
<1>4. CASE \/ QueueDrained \/ TakeSignal \/ FlushAnswered \/ StartDump
           \/ StopDump \/ DumpFrame
  <2>1. /\ UNCHANGED <<boot, made, hand, queue, drops, stage, file>>
        /\ task # "boot" /\ task' # "boot"
    BY <1>4 DEF QueueDrained, TakeSignal, FlushAnswered, StartDump, StopDump,
                DumpFrame
  <2>2. OnTheWay' = OnTheWay
    BY <2>1 DEF OnTheWay, OnCard, InHand
  <2>3. log'.ready = log.ready
    BY <1>4, LogValues
    DEF QueueDrained, TakeSignal, FlushAnswered, StartDump, StopDump,
        DumpFrame, Typed
  <2>4. QED BY <2>1, <2>2, <2>3, OrderKept
<1>5. QED BY <1>1, <1>2, <1>3, <1>4 DEF SdLogTask

LEMMA WriterOrder ==
  ASSUME Typed, InOrder, SdWriter
  PROVE  InOrder'
<1> USE DEF producer, card, sdTask, sdWriter, history, link, counts
<1>1. CASE WriterWakes \/ DrainEnds \/ PassEnds
  <2>1. UNCHANGED <<boot, made, hand, queue, drops, stage, file, sdTask>>
    BY <1>1 DEF WriterWakes, DrainEnds, PassEnds
  <2>2. OnTheWay' = OnTheWay
    BY <2>1 DEF OnTheWay, OnCard, InHand
  <2>3. QED BY <2>1, <2>2, OrderKept
<1>2. CASE DrainOneBatch
  <2> DEFINE n == IF Len(stage) < Batch THEN Len(stage) ELSE Batch
             x == SubSeq(stage, 1, n)
             y == SubSeq(stage, n + 1, Len(stage))
  <2>1. /\ UNCHANGED <<boot, made, hand, queue, drops, sdTask>>
        /\ task # "boot"
    BY <1>2 DEF DrainOneBatch, Typed, BootsApart
  <2>2. \/ file' = file \o x /\ stage' = y
        \/ UNCHANGED <<file, stage>>
    BY <1>2 DEF DrainOneBatch, Consumed
  <2>3. /\ stage \in Seq(Nat) /\ file \in Seq(Nat) /\ n \in 1..Len(stage)
    <3>1. /\ stage \in Seq(Nat) /\ file \in Seq(Nat) /\ Len(stage) \in Nat
          /\ stage # <<>> => Len(stage) # 0
      BY LenProperties, EmptySeq DEF Typed, StorageTypes
    <3>2. Len(stage) >= Batch \/ stage # <<>>
      BY <1>2 DEF DrainOneBatch, BatchReady
    <3>3. QED BY <3>1, <3>2, NatFacts
  <2> HIDE DEF n
  <2>4. (file \o x) \o y = file \o stage
    BY <2>3, MovedBatch
  <2> HIDE DEF x, y
  <2>5. file' \o stage' = file \o stage
    BY <2>2, <2>4
  <2>6. OnCard = file /\ OnCard' = file' /\ InHand' = InHand
    BY <2>1 DEF OnCard, InHand
  <2>7. OnTheWay' = OnTheWay
    BY <2>1, <2>5, <2>6 DEF OnTheWay
  <2>8. QED BY <2>1, <2>7, OrderKept
<1>3. QED BY <1>1, <1>2 DEF SdWriter

LEMMA OtherOrder ==
  ASSUME Typed, InOrder, FlashTask \/ CanTask \/ DeepSleep \/ Reset
  PROVE  InOrder'
<1> USE DEF producer, card, sdTask, sdWriter, history, link, counts
<1>1. CASE FlashTask \/ CanTask
  <2>1. UNCHANGED <<boot, made, hand, queue, drops, stage, file, sdTask>>
    BY <1>1 DEF FlashTask, FlashAppend, RequestRecovery, FlashFlushed,
                CanTask, TakeFrame, SendFrame
  <2>2. OnTheWay' = OnTheWay
    BY <2>1 DEF OnTheWay, OnCard, InHand
  <2>3. QED BY <2>1, <2>2, OrderKept
<1>2. CASE DeepSleep
  BY <1>2 DEF DeepSleep, InOrder
<1>3. CASE Reset
  <2>1. /\ task' = "boot" /\ stage' = <<>> /\ queue' = <<>> /\ hand' = 0
        /\ made' = 0 /\ drops' = 0
    BY <1>3 DEF Reset, RamLost
  <2>2. OnTheWay' = <<>>
    <3>1. <<>> \o <<>> = <<>>
      BY EmptySeqs, ConcatEmptySeq
    <3>2. QED BY <2>1, <3>1 DEF OnTheWay, OnCard, InHand
  <2>3. Upwards(<<>>, 0) /\ Len(<<>>) + 0 = 0
    BY EmptySeqs DEF Upwards
  <2>4. QED BY <2>1, <2>2, <2>3 DEF InOrder
<1>4. QED BY <1>1, <1>2, <1>3

-----------------------------------------------------------------------------
(* The flush, and the invariant.                                            *)
LEMMA FlushingSteps ==
  ASSUME Typed, Flushing, Next
  PROVE  Flushing'
<1> USE DEF producer, card, sdTask, sdWriter, history, link, counts
<1>1. ASSUME UNCHANGED <<asked, flush, writer, error, stage, durable, file>>
      PROVE  Flushing'
  BY <1>1 DEF Flushing
<1>2. CASE Producer \/ FlashTask \/ CanTask
  <2>1. UNCHANGED <<asked, flush, writer, error, stage, durable, file>>
    BY <1>2 DEF Producer, StartSequence, BackToCommand, MakeRecord, SendRecord,
                FlashTask, FlashAppend, RequestRecovery, FlashFlushed,
                CanTask, TakeFrame, SendFrame
  <2>2. QED BY <1>1, <2>1
<1>3. CASE DeepSleep \/ Reset
  BY <1>3 DEF DeepSleep, Reset, RamLost, Flushing
<1>4. CASE SdLogTask
  <2>1. CASE \/ PrepareForFlight \/ AppendRecord
    <3>1. flush = "none" /\ ~asked /\ flush' = flush /\ asked' = asked
      BY <2>1 DEF PrepareForFlight, AppendRecord, Typed, FlightStorageTypeOK,
                  Flushing
    <3>2. QED BY <3>1 DEF Flushing
  <2>2. CASE \/ PrepareFails \/ OpenExisting \/ QueueDrained \/ StartDump
             \/ StopDump \/ DumpFrame
    <3>1. UNCHANGED <<asked, flush, writer, error, stage, durable, file>>
      BY <2>2 DEF PrepareFails, OpenExisting, QueueDrained, StartDump, StopDump,
                  DumpFrame
    <3>2. QED BY <1>1, <3>1
  <2>3. CASE TakeSignal
    <3>1. task = "signal"
      BY <2>3 DEF TakeSignal
    <3>2. flush = "none" /\ ~asked
      BY <3>1 DEF Typed, FlightStorageTypeOK, Flushing
    <3>3. flush' \in {"none", "asked"} /\ asked' = asked
      BY <2>3, <3>2 DEF TakeSignal
    <3>4. QED BY <3>2, <3>3 DEF Flushing
  <2>4. CASE FlushAnswered
    <3>1. flush = "acked" /\ flush' = "none" /\ asked' = asked
      BY <2>4 DEF FlushAnswered
    <3>2. QED BY <3>1 DEF Flushing
  <2>5. QED BY <1>4, <2>1, <2>2, <2>3, <2>4 DEF SdLogTask
<1>5. CASE WriterWakes
  <2>1. /\ asked' = (flush = "asked") /\ writer' = IF error THEN "sync" ELSE "drain"
        /\ UNCHANGED <<flush, error, stage, durable, file>>
    BY <1>5 DEF WriterWakes
  <2>2. error \in BOOLEAN
    BY DEF Typed, StorageTypes
  <2>3. QED BY <2>1, <2>2 DEF Flushing
<1>6. CASE DrainOneBatch
  <2>1. writer = "drain" /\ UNCHANGED <<asked, flush, durable>>
    BY <1>6 DEF DrainOneBatch
  <2>2. stage # <<>>
    <3>1. Len(stage) >= Batch \/ stage # <<>>
      BY <1>6 DEF DrainOneBatch, BatchReady
    <3>2. QED BY <3>1, NatFacts, EmptySeqs
  <2>3. CASE UNCHANGED <<error, writer, counts>>
    BY <2>1, <2>2, <2>3 DEF Flushing
  <2>4. CASE error' = TRUE /\ writer' = "sync"
    BY <2>1, <2>4 DEF Flushing
  <2>5. QED BY <1>6, <2>3, <2>4 DEF DrainOneBatch
<1>7. CASE DrainEnds
  <2>1. /\ writer = "drain" /\ writer' = "sync" /\ (asked => stage = <<>>)
        /\ UNCHANGED <<asked, flush, error, stage, durable, file>>
    BY <1>7 DEF DrainEnds, BatchReady
  <2>2. QED BY <2>1 DEF Flushing
<1>8. CASE PassEnds
  <2>1. writer = "sync" /\ asked' = FALSE /\ UNCHANGED <<stage, file>>
    BY <1>8 DEF PassEnds
  <2>2. CASE ~asked
    BY <1>8, <2>1, <2>2 DEF PassEnds, Flushing
  <2>3. CASE asked
    BY <1>8, <2>1, <2>3 DEF PassEnds, Flushing, AnswerFlush
  <2>4. asked \in BOOLEAN
    BY DEF Typed, StorageTypes
  <2>5. QED BY <2>2, <2>3, <2>4
<1>9. QED BY <1>2, <1>3, <1>4, <1>5, <1>6, <1>7, <1>8 DEF Next, SdWriter

LEMMA StorageInit ==
  ASSUME Init
  PROVE  IInv
<1>1. /\ boot = "flight" /\ mission = "command"
      /\ made = 0 /\ hand = 0 /\ decimation = 0
      /\ queue = <<>> /\ drops = 0 /\ flash = NoFlash
      /\ stage = <<>> /\ file = <<>> /\ durable = 0 /\ error = FALSE
      /\ flush = "none" /\ task = "boot" /\ writer = "off" /\ asked = FALSE
      /\ log = [ready |-> FALSE, failed |-> FALSE] /\ recovery = NoRecovery
      /\ dump = NoDump /\ frames = <<>> /\ sending = <<>> /\ ground = <<>>
      /\ transfers = <<>> /\ failures = 0 /\ resets = 0
  BY DEF Init
<1>2. Frames = <<>> /\ OnTheWay = <<>>
  <2>1. <<>> \o <<>> = <<>>
    BY EmptySeqs, ConcatEmptySeq
  <2>2. QED BY <1>1, <2>1 DEF Frames, OnTheWay, OnCard, InHand
<1>3. Dumping /\ DumpIsTheLog
  BY <1>1, <1>2, NoneYet, DumpsNow
<1>4. StorageTypes
  <2>1. flash \in FlashesOf(Nat, BOOLEAN)
    BY <1>1 DEF FlashesOf, NoFlash
  <2>2. log \in LogsOf(BOOLEAN)
    BY <1>1 DEF LogsOf
  <2>3. recovery \in RecoveriesOf(BOOLEAN)
    BY <1>1 DEF RecoveriesOf, NoRecovery
  <2>4. dump \in [id : Nat, next : Nat, left : Nat]
    BY <1>1, NoDumpFacts
  <2>5. /\ queue \in Seq(Nat) /\ stage \in Seq(Nat) /\ file \in Seq(Nat)
        /\ frames \in Seq(Frame) /\ sending \in Seq(Frame) /\ Len(sending) <= 1
        /\ ground \in Seq(Frame) /\ transfers \in Seq(Transfer)
    BY <1>1, EmptySeqs
  <2>6. /\ made \in Nat /\ drops \in Nat /\ failures \in Nat /\ resets \in Nat
        /\ error \in BOOLEAN /\ asked \in BOOLEAN
    BY <1>1
  <2>7. QED BY <2>1, <2>2, <2>3, <2>4, <2>5, <2>6 DEF StorageTypes
<1>5. FlightStorageTypeOK
  <2>1. flash.queue = 0 /\ dump.next + dump.left = 0
    BY <1>1, NoDumpFacts DEF NoFlash
  <2>2. QED BY <1>1, <2>1, NatFacts, EmptySeqs DEF FlightStorageTypeOK
<1>6. BootsApart
  <2>1. log.ready = FALSE
    BY <1>1
  <2>2. QED BY <1>1, <2>1 DEF BootsApart
<1>7. InOrder
  BY <1>1, <1>2, EmptySeqs DEF InOrder, Upwards
<1>8. Flushing
  BY <1>1 DEF Flushing
<1>9. QED BY <1>3, <1>4, <1>5, <1>6, <1>7, <1>8 DEF IInv

LEMMA StorageStep ==
  ASSUME IInv, [Next]_vars
  PROVE  IInv'
<1> USE DEF producer, card, sdTask, sdWriter, history, link, counts
<1>1. Typed /\ InOrder /\ Dumping /\ DumpIsTheLog /\ Flushing
  BY DEF IInv, Typed
<1>2. ASSUME Next PROVE Flushing'
  BY <1>1, <1>2, FlushingSteps
<1>3. CASE Producer
  <2>1. Typed' /\ InOrder'
    BY <1>1, <1>3, ProducerTypes, ProducerOrder
  <2>2. UNCHANGED file /\ UNCHANGED link
    BY <1>3 DEF Producer, StartSequence, BackToCommand, MakeRecord, SendRecord
  <2>3. Dumping' /\ DumpIsTheLog'
    BY <1>1, <2>2, DumpsKept
  <2>4. QED BY <1>2, <1>3, <2>1, <2>3 DEF IInv, Typed, Next
<1>4. CASE FlashTask
  <2>1. Typed' /\ InOrder'
    BY <1>1, <1>4, FlashTypes, OtherOrder
  <2>2. UNCHANGED file /\ UNCHANGED link
    BY <1>4 DEF FlashTask, FlashAppend, RequestRecovery, FlashFlushed
  <2>3. Dumping' /\ DumpIsTheLog'
    BY <1>1, <2>2, DumpsKept
  <2>4. QED BY <1>2, <1>4, <2>1, <2>3 DEF IInv, Typed, Next
<1>5. CASE SdLogTask
  <2>1. InOrder'
    BY <1>1, <1>5, LogOrder
  <2>2. Typed' /\ Dumping' /\ DumpIsTheLog'
    <3>1. CASE StartDump
      BY <1>1, <3>1, StartSteps
    <3>2. CASE StopDump \/ DumpFrame
      BY <1>1, <3>2, ReadSteps
    <3>3. CASE \/ PrepareForFlight \/ PrepareFails \/ OpenExisting \/ AppendRecord
               \/ QueueDrained \/ TakeSignal \/ FlushAnswered
      <4>1. Typed'
        BY <1>1, <3>3, LogTypes
      <4>2. UNCHANGED link /\ (UNCHANGED file \/ boot = "flight")
        BY <3>3 DEF PrepareForFlight, PrepareFails, OpenExisting, AppendRecord,
                    QueueDrained, TakeSignal, FlushAnswered
      <4>3. QED BY <1>1, <4>1, <4>2, DumpsKept
    <3>4. QED BY <1>5, <3>1, <3>2, <3>3 DEF SdLogTask
  <2>3. QED BY <1>2, <1>5, <2>1, <2>2 DEF IInv, Typed, Next
<1>6. CASE CanTask
  <2>1. Typed' /\ Dumping' /\ DumpIsTheLog' /\ InOrder'
    BY <1>1, <1>6, LinkSteps, OtherOrder
  <2>2. QED BY <1>2, <1>6, <2>1 DEF IInv, Typed, Next
<1>7. CASE SdWriter
  <2>1. Typed' /\ InOrder'
    BY <1>1, <1>7, WriterTypes, WriterOrder
  <2>2. UNCHANGED link /\ boot = "flight"
    BY <1>1, <1>7
    DEF SdWriter, WriterWakes, DrainOneBatch, DrainEnds, PassEnds, Typed,
        BootsApart, FlightStorageTypeOK
  <2>3. Dumping' /\ DumpIsTheLog'
    BY <1>1, <2>2, DumpsKept
  <2>4. QED BY <1>2, <1>7, <2>1, <2>3 DEF IInv, Typed, Next
<1>8. CASE DeepSleep \/ Reset
  <2>1. Typed' /\ Dumping' /\ DumpIsTheLog' /\ InOrder'
    BY <1>1, <1>8, SleepSteps, OtherOrder
  <2>2. QED BY <1>2, <1>8, <2>1 DEF IInv, Typed, Next
<1>9. CASE UNCHANGED vars
  <2> USE DEF vars
  <2>1. StorageTypes' /\ FlightStorageTypeOK' /\ BootsApart' /\ Flushing'
    BY <1>1, <1>9
    DEF Typed, StorageTypes, FlightStorageTypeOK, BootsApart, Flushing
  <2>2. InOrder'
    BY <1>1, <1>9 DEF InOrder, OnTheWay, OnCard, InHand
  <2>3. Frames' = Frames /\ transfers' = transfers /\ dump' = dump /\ file' = file
    BY <1>9 DEF Frames
  <2>4. Dumping' /\ DumpIsTheLog'
    BY <1>1, <2>3, DumpsNow
  <2>5. QED BY <2>1, <2>2, <2>4 DEF IInv
<1>10. QED BY <1>3, <1>4, <1>5, <1>6, <1>7, <1>8, <1>9 DEF Next

(* In an ascending run every record is below the next.                      *)
LEMMA CardOrder ==
  ASSUME IInv
  PROVE  CardIsTheFlight
<1>1. SUFFICES ASSUME boot = "flight", log.ready
               PROVE  Ascending(Pipeline) /\ Len(Pipeline) + drops = made
  BY DEF CardIsTheFlight
<1>2. task # "boot" /\ Typed
  BY <1>1 DEF IInv, Typed, BootsApart
<1>3. OnTheWay = Pipeline
  BY <1>2 DEF OnTheWay, OnCard, InHand, Pipeline
<1>4. Upwards(Pipeline, made) /\ Len(Pipeline) + drops = made
  BY <1>1, <1>3 DEF IInv, InOrder
<1>5. DOMAIN Pipeline = 1..Len(Pipeline) /\ Len(Pipeline) \in Nat
  BY <1>2, <1>3, OrderTypes, LenProperties
<1>6. Ascending(Pipeline)
  <2> DEFINE s == Pipeline
             l == Len(s)
  <2>1. \A i, j \in 1..l : i < j => s[i] < s[j]
    BY <1>4, <1>5 DEF Upwards
  <2>2. l \in Nat
    BY <1>5
  <2> HIDE DEF s, l
  <2>3. ASSUME NEW i \in 1..(l - 1) PROVE s[i] < s[i + 1]
    <3> DEFINE j == i + 1
    <3>1. i \in 1..l /\ j \in 1..l /\ i < j
      BY <2>2
    <3> HIDE DEF j
    <3>2. s[i] < s[j]
      BY <2>1, <3>1
    <3>3. QED BY <3>2 DEF j
  <2>4. QED BY <2>3 DEF Ascending, s, l
<1>7. QED BY <1>4, <1>6

-----------------------------------------------------------------------------
(* What each step, interleaved in any order with those of the other tasks,  *)
(* keeps of the log.                                                        *)
THEOREM StorageInvariant == Spec => []IInv
<1>1. Init => IInv
  BY StorageInit
<1>2. IInv /\ [Next]_vars => IInv'
  BY StorageStep
<1>3. QED BY <1>1, <1>2, PTL DEF Spec

(* No record overtakes another, is repeated or is lost uncounted between    *)
(* missionRealtimeTask and the card, whatever the queues refuse and the     *)
(* card fails; and what the ground gets of a dump is what the file holds    *)
(* there, all of it once the dump is reported complete.                     *)
THEOREM LogTheorem == Spec => []LogIsTheFlight
<1>1. IInv => LogIsTheFlight
  BY CardOrder DEF IInv, LogIsTheFlight
<1>2. QED BY <1>1, StorageInvariant, PTL

(* The writer's answer is read by sdLogTask, which adds nothing to the      *)
(* PSRAM while it waits; so a flush that is reported for Deep Sleep is that *)
(* of all the log was given, or of a log that is marked failed.             *)
THEOREM FlushTheorem == Spec => FlushIsWhole
<1>1. IInv /\ [Next]_vars =>
        [~recovery.sd /\ recovery'.sd =>
           \/ log'.failed
           \/ stage' = <<>> /\ durable' = Len(file')]_vars
  <2> USE DEF producer, card, sdTask, sdWriter, history, link, counts
  <2>1. SUFFICES ASSUME IInv, Next, ~recovery.sd, recovery'.sd
                 PROVE  log'.failed \/ (stage' = <<>> /\ durable' = Len(file'))
    BY DEF vars
  <2>2. Typed /\ Flushing
    BY <2>1 DEF IInv, Typed
  <2>3. CASE TakeSignal
    <3>1. CASE UNCHANGED recovery
      BY <2>1, <3>1
    <3>2. CASE recovery' = [recovery EXCEPT !.signal = FALSE]
      <4>1. recovery'.sd = recovery.sd
        BY <2>2, <3>2, RecoveryValues DEF Typed
      <4>2. QED BY <2>1, <4>1
    <3>3. CASE LogFailed
      BY <2>2, <3>3, LogFails DEF Typed
    <3>4. QED BY <2>3, <3>1, <3>2, <3>3 DEF TakeSignal, LogFailed
  <2>4. CASE FlushAnswered
    <3>1. /\ flush = "acked" /\ log' = IF error THEN [log EXCEPT !.failed = TRUE] ELSE log
          /\ UNCHANGED <<stage, file, durable>>
      BY <2>4 DEF FlushAnswered
    <3>2. CASE error
      <4>1. LogFailed
        BY <3>1, <3>2 DEF LogFailed
      <4>2. QED BY <2>2, <4>1, LogFails DEF Typed
    <3>3. CASE ~error
      BY <2>2, <3>1, <3>3 DEF Flushing
    <3>4. QED BY <3>2, <3>3
  <2>5. CASE RequestRecovery
    <3>1. recovery'.sd = FALSE
      BY <2>5 DEF RequestRecovery
    <3>2. QED BY <2>1, <3>1
  <2>6. CASE FlashFlushed
    <3>1. recovery'.sd = recovery.sd
      BY <2>2, <2>6, RecoveryValues DEF FlashFlushed, Typed
    <3>2. QED BY <2>1, <3>1
  <2>7. CASE DeepSleep \/ Reset
    <3>1. recovery' = NoRecovery
      BY <2>7 DEF DeepSleep, Reset, RamLost
    <3>2. recovery'.sd = FALSE
      BY <3>1 DEF NoRecovery
    <3>3. QED BY <2>1, <3>2
  <2>8. CASE \/ Producer \/ FlashAppend \/ CanTask \/ SdWriter
             \/ PrepareForFlight \/ PrepareFails \/ OpenExisting \/ AppendRecord
             \/ QueueDrained \/ StartDump \/ StopDump \/ DumpFrame
    <3>1. UNCHANGED recovery
      BY <2>8
      DEF Producer, StartSequence, BackToCommand, MakeRecord, SendRecord,
          FlashAppend, CanTask, TakeFrame, SendFrame, SdWriter, WriterWakes,
          DrainOneBatch, DrainEnds, PassEnds, PrepareForFlight, PrepareFails,
          OpenExisting, AppendRecord, QueueDrained, StartDump, StopDump, DumpFrame
    <3>2. QED BY <2>1, <3>1
  <2>9. QED
    BY <2>1, <2>3, <2>4, <2>5, <2>6, <2>7, <2>8 DEF Next, FlashTask, SdLogTask
<1>2. QED BY <1>1, StorageInvariant, PTL DEF Spec, FlushIsWhole
=============================================================================
