-------------------------- MODULE RateLimiterProofs --------------------------
(***************************************************************************)
(* Proofs about RateLimiter, for any clients, limits and window: taking,   *)
(* the clock and a new process keep LimiterInv, and it bounds what is      *)
(* admitted and what is remembered.                                        *)
(***************************************************************************)
EXTENDS RateLimiter, FiniteSetTheorems, TLAPS

(* Windows of whole multiples of WindowMs. *)
LEMMA NextMultiple ==
    ASSUME NEW a \in Nat, NEW b \in Nat, a < b
    PROVE  a * WindowMs \in Nat /\ b * WindowMs \in Nat /\ a * WindowMs + WindowMs <= b * WindowMs
<1>1. WindowMs \in Nat
  BY LimiterAssumption
<1> DEFINE c == b - a - 1
<1>2. c \in Nat /\ b = a + 1 + c
  OBVIOUS
<1> HIDE DEF c
<1>3. b * WindowMs = a * WindowMs + WindowMs + c * WindowMs
  BY <1>1, <1>2
<1>4. a * WindowMs \in Nat /\ c * WindowMs \in Nat
  BY <1>1, <1>2
<1>. QED
  BY <1>1, <1>3, <1>4

LEMMA WindowFacts ==
    ASSUME NEW t \in Nat
    PROVE  /\ WindowStart(t) \in Nat
           /\ WindowStart(t) <= t /\ t < WindowStart(t) + WindowMs
           /\ \E q \in 0 .. t : WindowStart(t) = q * WindowMs
<1>1. WindowMs \in Nat \ {0}
  BY LimiterAssumption
<1>2. PICK q \in Nat : q = t \div WindowMs
  BY <1>1
<1>3. q * WindowMs <= t /\ t < q * WindowMs + WindowMs
  BY <1>1, <1>2
<1>4. q * WindowMs \in Nat /\ q <= q * WindowMs
  BY <1>1
<1>. QED
  <2>1. WindowStart(t) = q * WindowMs
    BY <1>2 DEF WindowStart
  <2>2. q \in 0 .. t
    BY <1>3, <1>4
  <2>. QED
    BY <1>3, <1>4, <2>1, <2>2

LEMMA WindowUnique ==
    ASSUME NEW t \in Nat, NEW q \in Nat, q * WindowMs <= t, t < q * WindowMs + WindowMs
    PROVE  WindowStart(t) = q * WindowMs
<1>1. PICK p \in Nat : WindowStart(t) = p * WindowMs
  BY WindowFacts
<1>2. WindowMs \in Nat /\ p * WindowMs \in Nat /\ q * WindowMs \in Nat
  BY LimiterAssumption
<1>3. p * WindowMs <= t /\ t < p * WindowMs + WindowMs
  BY <1>1, WindowFacts
<1>4. ~(p < q) /\ ~(q < p)
  BY <1>2, <1>3, NextMultiple
<1>. QED
  BY <1>1, <1>4

-----------------------------------------------------------------------------
(* Counting admissions *)

Between(s, from, to) == {i \in DOMAIN s : from <= s[i] /\ s[i] < to}

LEMMA BetweenFinite ==
    ASSUME NEW s \in Seq(Nat), NEW from \in Nat, NEW to \in Nat
    PROVE  /\ IsFiniteSet(Between(s, from, to))
           /\ Cardinality(Between(s, from, to)) \in Nat
<1>1. Between(s, from, to) \in SUBSET (1 .. Len(s))
  BY DEF Between
<1>2. Len(s) \in Int /\ 1 \in Int
  OBVIOUS
<1>3. IsFiniteSet(1 .. Len(s))
  BY <1>2, FS_Interval
<1>. QED
  BY <1>1, <1>3, FS_Subset, FS_CardinalityType

LEMMA BetweenAppend ==
    ASSUME NEW s \in Seq(Nat), NEW from \in Nat, NEW to \in Nat, NEW t \in Nat
    PROVE  Cardinality(Between(Append(s, t), from, to))
             = Cardinality(Between(s, from, to)) + IF from <= t /\ t < to THEN 1 ELSE 0
<1>1. Between(Append(s, t), from, to)
        = Between(s, from, to) \cup IF from <= t /\ t < to THEN {Len(s) + 1} ELSE {}
  BY DEF Between
<1>2. Len(s) + 1 \notin Between(s, from, to)
  BY DEF Between
<1>3. /\ IsFiniteSet(Between(s, from, to)) /\ Cardinality(Between(s, from, to)) \in Nat
  BY BetweenFinite
<1>4. Cardinality(Between(s, from, to) \cup {Len(s) + 1}) = Cardinality(Between(s, from, to)) + 1
  BY <1>2, <1>3, FS_AddElement
<1>5. CASE from <= t /\ t < to
  BY <1>1, <1>3, <1>4, <1>5
<1>6. CASE ~(from <= t /\ t < to)
  <2>1. Between(Append(s, t), from, to) = Between(s, from, to)
    BY <1>1, <1>6
  <2>. QED
    BY <1>3, <1>6, <2>1
<1>. QED
  BY <1>5, <1>6

LEMMA BetweenNone ==
    ASSUME NEW s \in Seq(Nat), NEW from \in Nat, NEW to \in Nat,
           \A i \in DOMAIN s : s[i] < from
    PROVE  Cardinality(Between(s, from, to)) = 0
<1>1. Between(s, from, to) = {}
  BY DEF Between
<1>. QED
  BY <1>1, FS_EmptySet

LEMMA BetweenUnion ==
    ASSUME NEW s \in Seq(Nat), NEW a \in Nat, NEW b \in Nat, NEW c \in Nat,
           NEW from \in Nat, NEW to \in Nat, a <= from, to <= c
    PROVE  Cardinality(Between(s, from, to))
             <= Cardinality(Between(s, a, b)) + Cardinality(Between(s, b, c))
<1>1. Between(s, from, to) \subseteq Between(s, a, b) \cup Between(s, b, c)
  BY DEF Between
<1>2. /\ IsFiniteSet(Between(s, a, b)) /\ Cardinality(Between(s, a, b)) \in Nat
      /\ IsFiniteSet(Between(s, b, c)) /\ Cardinality(Between(s, b, c)) \in Nat
  BY BetweenFinite
<1>3. /\ IsFiniteSet(Between(s, a, b) \cup Between(s, b, c))
      /\ Cardinality(Between(s, a, b) \cup Between(s, b, c))
           <= Cardinality(Between(s, a, b)) + Cardinality(Between(s, b, c))
  <2>1. /\ IsFiniteSet(Between(s, a, b) \cap Between(s, b, c))
        /\ Cardinality(Between(s, a, b) \cap Between(s, b, c)) \in Nat
    BY <1>2, FS_Intersection, FS_CardinalityType
  <2>2. IsFiniteSet(Between(s, a, b) \cup Between(s, b, c))
    BY <1>2, FS_Union
  <2>3. Cardinality(Between(s, a, b) \cup Between(s, b, c))
          = Cardinality(Between(s, a, b)) + Cardinality(Between(s, b, c))
            - Cardinality(Between(s, a, b) \cap Between(s, b, c))
    BY <1>2, FS_Union
  <2>. QED
    BY <1>2, <2>1, <2>2, <2>3
<1>4. Cardinality(Between(s, from, to)) <= Cardinality(Between(s, a, b) \cup Between(s, b, c))
  BY <1>1, <1>3, FS_Subset
<1>5. /\ Cardinality(Between(s, a, b) \cup Between(s, b, c)) \in Nat
      /\ Cardinality(Between(s, from, to)) \in Nat
  BY <1>3, FS_CardinalityType, BetweenFinite
<1>. QED
  BY <1>2, <1>3, <1>4, <1>5

LEMMA AdmittedBetween ==
    \A k, from, to : AdmittedIn(k, from, to) = Cardinality(Between(admitted[k], from, to))
BY DEF AdmittedIn, Between

-----------------------------------------------------------------------------

LEMMA LimiterInitInv == LimiterInit => LimiterInv
<1> SUFFICES ASSUME LimiterInit PROVE LimiterInv
  OBVIOUS
<1> USE DEF LimiterInit
<1>1. LimiterTypeOK /\ LimiterPast /\ SweptInTime
  BY LimiterAssumption DEF LimiterTypeOK, LimiterPast, SweptInTime
<1>2. \A k \in Keys : admitted[k] = <<>> /\ buckets[k] = NoBucket
  OBVIOUS
<1>3. BucketsCount
  BY <1>2 DEF BucketsCount
<1>4. EachWindowBound
  <2> SUFFICES ASSUME NEW k \in Keys, NEW q \in 0 .. now
               PROVE  AdmittedIn(k, q * WindowMs, q * WindowMs + WindowMs) <= Limit[k]
    BY DEF EachWindowBound
  <2>1. q * WindowMs \in Nat /\ q * WindowMs + WindowMs \in Nat /\ Limit[k] \in Nat
    BY LimiterAssumption
  <2>2. AdmittedIn(k, q * WindowMs, q * WindowMs + WindowMs) = 0
    <3>1. admitted[k] \in Seq(Nat) /\ DOMAIN admitted[k] = {}
      BY <1>2
    <3>. QED
      BY <2>1, <3>1, BetweenNone, AdmittedBetween
  <2>. QED
    BY <2>1, <2>2
<1>. QED
  BY <1>1, <1>3, <1>4 DEF LimiterInv

LEMMA NewLimiterInv == ASSUME LimiterInv, NewLimiter, now' = now PROVE LimiterInv'
<1> USE DEF NewLimiter
<1>1. LimiterTypeOK' /\ LimiterPast' /\ SweptInTime'
  BY LimiterAssumption DEF LimiterInv, LimiterTypeOK, LimiterPast, SweptInTime
<1>2. \A k \in Keys : admitted'[k] = <<>> /\ buckets'[k] = NoBucket
  OBVIOUS
<1>3. BucketsCount'
  BY <1>2 DEF BucketsCount
<1>4. EachWindowBound'
  <2> SUFFICES ASSUME NEW k \in Keys, NEW q \in 0 .. now'
               PROVE  AdmittedIn(k, q * WindowMs, q * WindowMs + WindowMs)' <= Limit[k]
    BY DEF EachWindowBound
  <2>1. q * WindowMs \in Nat /\ q * WindowMs + WindowMs \in Nat /\ Limit[k] \in Nat
    BY LimiterAssumption DEF LimiterInv, LimiterTypeOK
  <2>2. Cardinality(Between(admitted'[k], q * WindowMs, q * WindowMs + WindowMs)) = 0
    <3>1. admitted'[k] \in Seq(Nat) /\ DOMAIN admitted'[k] = {}
      BY <1>2
    <3>. QED
      BY <2>1, <3>1, BetweenNone
  <2>. QED
    BY <2>1, <2>2 DEF AdmittedIn, Between
<1>. QED
  BY <1>1, <1>3, <1>4 DEF LimiterInv

(* The clock: nobody has been admitted in a window that begins now. *)
LEMMA TickInv ==
    ASSUME LimiterInv, now' = now + 1,
           UNCHANGED <<buckets, lastSweepMs, admitted, lastTakeMs>>
    PROVE  LimiterInv'
<1>1. LimiterTypeOK /\ LimiterPast /\ BucketsCount /\ EachWindowBound /\ SweptInTime
  BY DEF LimiterInv
<1>2. /\ now \in Nat /\ now' \in Nat /\ now < now' /\ WindowMs \in Nat \ {0}
      /\ buckets' = buckets /\ lastSweepMs' = lastSweepMs /\ admitted' = admitted
      /\ lastTakeMs' = lastTakeMs
  BY <1>1, LimiterAssumption DEF LimiterTypeOK
<1>3. LimiterTypeOK' /\ LimiterPast' /\ SweptInTime'
  BY <1>1, <1>2 DEF LimiterTypeOK, LimiterPast, SweptInTime
<1>4. BucketsCount'
  <2>1. WindowStart(now') = WindowStart(now) \/ WindowStart(now') > now
    <3>1. \A t \in Nat : \E q \in Nat : WindowStart(t) = q * WindowMs
      BY WindowFacts
    <3>2. PICK q \in Nat : WindowStart(now') = q * WindowMs
      BY <1>2, <3>1
    <3>3. WindowStart(now') <= now => WindowStart(now) = q * WindowMs
      BY <1>2, <3>2, WindowFacts, WindowUnique
    <3>. QED
      BY <1>2, <3>2, <3>3, WindowFacts
  <2>2. WindowStart(now)' = WindowStart(now')
    BY DEF WindowStart
  <2>3. ASSUME NEW k \in Keys, NEW i \in DOMAIN admitted[k], admitted[k][i] >= WindowStart(now')
        PROVE  buckets[k] # NoBucket /\ buckets[k].start = WindowStart(now')
    <3>1. admitted[k][i] \in Nat /\ admitted[k][i] <= now
      BY <1>1 DEF LimiterTypeOK, LimiterPast
    <3>2. WindowStart(now') \in Nat
      BY <1>2, WindowFacts
    <3>. QED
      BY <1>1, <1>2, <2>1, <2>3, <3>1, <3>2 DEF BucketsCount
  <2>4. ASSUME NEW k \in Keys, buckets[k] # NoBucket
        PROVE  AdmittedIn(k, buckets[k].start, buckets[k].start + WindowMs)' <= buckets[k].count
    BY <1>1, <1>2, <2>4 DEF BucketsCount, AdmittedIn
  <2>. QED
    BY <1>2, <2>2, <2>3, <2>4 DEF BucketsCount, AdmittedIn
<1>5. EachWindowBound'
  <2> SUFFICES ASSUME NEW k \in Keys, NEW q \in 0 .. now'
               PROVE  AdmittedIn(k, q * WindowMs, q * WindowMs + WindowMs)' <= Limit[k]
    BY DEF EachWindowBound
  <2>1. AdmittedIn(k, q * WindowMs, q * WindowMs + WindowMs)'
          = Cardinality(Between(admitted[k], q * WindowMs, q * WindowMs + WindowMs))
    BY <1>2 DEF AdmittedIn, Between
  <2>2. CASE q <= now
    BY <1>1, <1>2, <2>1, <2>2, AdmittedBetween DEF EachWindowBound
  <2>3. CASE q = now + 1
    <3>1. q * WindowMs \in Nat /\ q * WindowMs + WindowMs \in Nat /\ now < q * WindowMs
      BY <1>2, <2>3
    <3>2. \A i \in DOMAIN admitted[k] : admitted[k][i] < q * WindowMs
      BY <1>1, <1>2, <3>1 DEF LimiterPast, LimiterTypeOK
    <3>3. admitted[k] \in Seq(Nat) /\ Limit[k] \in Nat
      BY <1>1, LimiterAssumption DEF LimiterTypeOK
    <3>. QED
      BY <2>1, <3>1, <3>2, <3>3, BetweenNone
  <2>. QED
    BY <1>2, <2>2, <2>3
<1>. QED
  BY <1>3, <1>4, <1>5 DEF LimiterInv

-----------------------------------------------------------------------------
(* A request takes from the limiter *)

(* What has been admitted so far in the window that a first request opens: *)
(* nothing; otherwise no more than the bucket says. *)
LEMMA CountedBefore ==
    ASSUME LimiterInv, NEW k \in Keys
    PROVE  /\ Count(k) \in Nat \ {0}
           /\ Cardinality(Between(admitted[k], WindowStart(now), WindowStart(now) + WindowMs)) + 1
                <= Count(k)
<1>1. LimiterTypeOK /\ LimiterPast /\ BucketsCount
  BY DEF LimiterInv
<1>2. /\ now \in Nat /\ WindowMs \in Nat \ {0} /\ WindowStart(now) \in Nat
      /\ WindowStart(now) <= now /\ now < WindowStart(now) + WindowMs
      /\ admitted[k] \in Seq(Nat)
      /\ buckets[k] # NoBucket => buckets[k].start \in Nat /\ buckets[k].count \in Nat
  BY <1>1, WindowFacts, LimiterAssumption DEF LimiterTypeOK, Buckets
<1>3. CASE FirstOfWindow(k)
  <2>1. ~(buckets[k] # NoBucket /\ buckets[k].start = WindowStart(now))
    BY <1>2, <1>3 DEF FirstOfWindow, Swept, Stale
  <2>2. \A i \in DOMAIN admitted[k] : admitted[k][i] < WindowStart(now)
    BY <1>1, <1>2, <2>1 DEF BucketsCount
  <2>3. Cardinality(Between(admitted[k], WindowStart(now), WindowStart(now) + WindowMs)) = 0
    BY <1>2, <2>2, BetweenNone
  <2>. QED
    BY <1>3, <2>3 DEF Count
<1>4. CASE ~FirstOfWindow(k)
  <2>1. Swept[k] # NoBucket /\ Swept[k].start = WindowStart(now)
    BY <1>4 DEF FirstOfWindow
  <2>2. Swept[k] = buckets[k]
    BY <2>1 DEF Swept
  <2>3. AdmittedIn(k, WindowStart(now), WindowStart(now) + WindowMs) <= buckets[k].count
    BY <1>1, <2>1, <2>2 DEF BucketsCount
  <2>4. Cardinality(Between(admitted[k], WindowStart(now), WindowStart(now) + WindowMs)) \in Nat
    <3>1. WindowStart(now) + WindowMs \in Nat
      BY <1>2
    <3>. QED
      BY <1>2, <3>1, BetweenFinite
  <2>. QED
    BY <1>2, <1>4, <2>1, <2>2, <2>3, <2>4, AdmittedBetween DEF Count
<1>. QED
  BY <1>3, <1>4

LEMMA TakeFields ==
    ASSUME LimiterInv, NEW k \in Keys, Take(k)
    PROVE  /\ now' = now /\ lastTakeMs' = now
           /\ lastSweepMs' = IF SweepDue THEN now ELSE lastSweepMs
           /\ buckets'[k] = [start |-> WindowStart(now), count |-> Count(k)]
           /\ \A j \in Keys \ {k} : buckets'[j] = Swept[j]
           /\ admitted'[k] = IF Allowed(k) THEN Append(admitted[k], now) ELSE admitted[k]
           /\ \A j \in Keys \ {k} : admitted'[j] = admitted[j]
           /\ LimiterTypeOK'
<1>1. LimiterTypeOK
  BY DEF LimiterInv
<1>2. /\ now' = now /\ lastTakeMs' = now
      /\ lastSweepMs' = IF SweepDue THEN now ELSE lastSweepMs
      /\ buckets' = [Swept EXCEPT ![k] = [start |-> WindowStart(now), count |-> Count(k)]]
      /\ admitted' = [admitted EXCEPT ![k] =
                        IF Allowed(k) THEN Append(admitted[k], now) ELSE admitted[k]]
  BY DEF Take
<1>3. Swept \in [Keys -> Buckets \cup {NoBucket}]
  BY <1>1 DEF Swept, LimiterTypeOK
<1>4. [start |-> WindowStart(now), count |-> Count(k)] \in Buckets
  BY <1>1, WindowFacts, CountedBefore DEF Buckets, LimiterTypeOK
<1>5. (IF Allowed(k) THEN Append(admitted[k], now) ELSE admitted[k]) \in Seq(Nat)
  BY <1>1 DEF LimiterTypeOK
<1>6. LimiterTypeOK'
  BY <1>1, <1>2, <1>3, <1>4, <1>5 DEF LimiterTypeOK
<1>. QED
  BY <1>1, <1>2, <1>3, <1>6 DEF LimiterTypeOK

LEMMA TakeInv == ASSUME LimiterInv, NEW k \in Keys, Take(k) PROVE LimiterInv'
<1>1. LimiterTypeOK /\ LimiterPast /\ BucketsCount /\ EachWindowBound /\ SweptInTime
  BY DEF LimiterInv
<1>2. /\ now' = now /\ lastTakeMs' = now
      /\ lastSweepMs' = IF SweepDue THEN now ELSE lastSweepMs
      /\ buckets'[k] = [start |-> WindowStart(now), count |-> Count(k)]
      /\ \A j \in Keys \ {k} : buckets'[j] = Swept[j]
      /\ admitted'[k] = IF Allowed(k) THEN Append(admitted[k], now) ELSE admitted[k]
      /\ \A j \in Keys \ {k} : admitted'[j] = admitted[j]
      /\ LimiterTypeOK'
  BY TakeFields
<1>3. /\ now \in Nat /\ WindowMs \in Nat \ {0} /\ WindowStart(now) \in Nat
      /\ WindowStart(now) <= now /\ now < WindowStart(now) + WindowMs
      /\ lastSweepMs \in Nat /\ lastTakeMs \in Nat
      /\ \A j \in Keys : admitted[j] \in Seq(Nat)
      /\ \A j \in Keys : buckets[j] # NoBucket =>
           buckets[j].start \in Nat /\ buckets[j].count \in Nat
      /\ \A j \in Keys : Limit[j] \in Nat \ {0}
  BY <1>1, WindowFacts, LimiterAssumption DEF LimiterTypeOK, Buckets
<1>4. \A j \in Keys : Swept[j] \in {buckets[j], NoBucket}
  BY DEF Swept
<1>5. LimiterPast'
  <2>1. \A i \in DOMAIN admitted'[k] : admitted'[k][i] <= now
    BY <1>1, <1>2, <1>3 DEF LimiterPast
  <2>2. \A j \in Keys : \A i \in DOMAIN admitted'[j] : admitted'[j][i] <= now
    BY <1>1, <1>2, <2>1 DEF LimiterPast
  <2>. QED
    BY <1>1, <1>2, <1>3, <2>2 DEF LimiterPast
<1>6. BucketsCount'
  <2>1. WindowStart(now)' = WindowStart(now)
    BY <1>2 DEF WindowStart
  <2>2. Cardinality(Between(admitted'[k], WindowStart(now), WindowStart(now) + WindowMs))
          <= Count(k)
    <3>1. Cardinality(Between(admitted[k], WindowStart(now), WindowStart(now) + WindowMs)) \in Nat
      BY <1>3, BetweenFinite
    <3>2. Cardinality(Between(Append(admitted[k], now), WindowStart(now), WindowStart(now) + WindowMs))
            = Cardinality(Between(admitted[k], WindowStart(now), WindowStart(now) + WindowMs)) + 1
      BY <1>3, BetweenAppend
    <3>. QED
      BY <1>2, <3>1, <3>2, CountedBefore
  <2>3. ASSUME NEW j \in Keys \ {k}, NEW i \in DOMAIN admitted[j],
               admitted[j][i] >= WindowStart(now)
        PROVE  Swept[j] # NoBucket /\ Swept[j].start = WindowStart(now)
    <3>1. buckets[j] # NoBucket /\ buckets[j].start = WindowStart(now)
      BY <1>1, <2>3 DEF BucketsCount
    <3>. QED
      BY <1>3, <3>1 DEF Swept, Stale
  <2>4. ASSUME NEW j \in Keys
        PROVE  \A i \in DOMAIN admitted'[j] : admitted'[j][i] >= WindowStart(now) =>
                 buckets'[j] # NoBucket /\ buckets'[j].start = WindowStart(now)
    <3>1. [start |-> WindowStart(now), count |-> Count(k)] # NoBucket
      <4>1. [start |-> WindowStart(now), count |-> Count(k)] \in Buckets
        BY <1>3, CountedBefore DEF Buckets
      <4>. QED
        BY <4>1, LimiterAssumption
    <3>. QED
      BY <1>2, <2>3, <3>1
  <2>5. ASSUME NEW j \in Keys, buckets'[j] # NoBucket
        PROVE  Cardinality(Between(admitted'[j], buckets'[j].start, buckets'[j].start + WindowMs))
                 <= buckets'[j].count
    <3>1. CASE j = k
      BY <1>2, <2>2, <3>1
    <3>2. CASE j # k
      BY <1>1, <1>2, <1>4, <2>5, <3>2, AdmittedBetween DEF BucketsCount
    <3>. QED
      BY <3>1, <3>2
  <2>. QED
    BY <2>1, <2>4, <2>5 DEF BucketsCount, AdmittedIn, Between
<1>7. EachWindowBound'
  <2> SUFFICES ASSUME NEW j \in Keys, NEW q \in 0 .. now
               PROVE  AdmittedIn(j, q * WindowMs, q * WindowMs + WindowMs)' <= Limit[j]
    BY <1>2 DEF EachWindowBound
  <2>1. AdmittedIn(j, q * WindowMs, q * WindowMs + WindowMs)'
          = Cardinality(Between(admitted'[j], q * WindowMs, q * WindowMs + WindowMs))
    BY DEF AdmittedIn, Between
  <2>2. Cardinality(Between(admitted[j], q * WindowMs, q * WindowMs + WindowMs)) <= Limit[j]
    BY <1>1, AdmittedBetween DEF EachWindowBound
  <2>3. q \in Nat /\ q * WindowMs \in Nat /\ q * WindowMs + WindowMs \in Nat
    BY <1>3
  <2>4. CASE j # k \/ ~Allowed(k)
    BY <1>2, <2>1, <2>2, <2>4
  <2>5. CASE j = k /\ Allowed(k) /\ ~(q * WindowMs <= now /\ now < q * WindowMs + WindowMs)
    <3>1. Cardinality(Between(admitted'[k], q * WindowMs, q * WindowMs + WindowMs))
            = Cardinality(Between(admitted[k], q * WindowMs, q * WindowMs + WindowMs)) + 0
      BY <1>2, <1>3, <2>3, <2>5, BetweenAppend
    <3>2. Cardinality(Between(admitted[k], q * WindowMs, q * WindowMs + WindowMs)) \in Nat
      BY <1>3, <2>3, BetweenFinite
    <3>. QED
      BY <2>1, <2>2, <2>5, <3>1, <3>2
  <2>6. CASE j = k /\ Allowed(k) /\ q * WindowMs <= now /\ now < q * WindowMs + WindowMs
    <3>1. WindowStart(now) = q * WindowMs
      BY <1>3, <2>3, <2>6, WindowUnique
    <3>2. Cardinality(Between(admitted'[k], q * WindowMs, q * WindowMs + WindowMs))
            = Cardinality(Between(admitted[k], q * WindowMs, q * WindowMs + WindowMs)) + 1
      BY <1>2, <1>3, <2>3, <2>6, BetweenAppend
    <3>3. Cardinality(Between(admitted[k], q * WindowMs, q * WindowMs + WindowMs)) + 1 <= Count(k)
      BY <3>1, CountedBefore
    <3>4. Count(k) <= Limit[k]
      BY <1>3, <2>6 DEF Allowed, Count
    <3>5. Count(k) \in Nat
          /\ Cardinality(Between(admitted[k], q * WindowMs, q * WindowMs + WindowMs)) \in Nat
      BY <1>3, <2>3, CountedBefore, BetweenFinite
    <3>. QED
      BY <1>3, <2>1, <2>6, <3>2, <3>3, <3>4, <3>5
  <2>. QED
    BY <2>4, <2>5, <2>6
<1>8. SweptInTime'
  <2>1. lastTakeMs' - lastSweepMs' < WindowMs
    BY <1>2, <1>3 DEF SweepDue
  <2>2. ASSUME NEW j \in Keys, buckets'[j] # NoBucket
        PROVE  buckets'[j].start + 2 * WindowMs >= lastSweepMs'
    <3>1. CASE j = k
      BY <1>1, <1>2, <1>3, <3>1 DEF LimiterPast
    <3>2. CASE j # k
      BY <1>1, <1>2, <1>3, <2>2, <3>2 DEF Swept, Stale, SweptInTime
    <3>. QED
      BY <3>1, <3>2
  <2>. QED
    BY <2>1, <2>2 DEF SweptInTime
<1>. QED
  BY <1>2, <1>5, <1>6, <1>7, <1>8 DEF LimiterInv

-----------------------------------------------------------------------------

LEMMA LimiterUnchanged == ASSUME LimiterInv, UNCHANGED limiterVars PROVE LimiterInv'
<1>1. /\ now' = now /\ buckets' = buckets /\ lastSweepMs' = lastSweepMs
      /\ admitted' = admitted /\ lastTakeMs' = lastTakeMs
  BY DEF limiterVars
<1>. QED
  BY <1>1 DEF LimiterInv, LimiterTypeOK, LimiterPast, BucketsCount, EachWindowBound,
              SweptInTime, AdmittedIn, WindowStart

LEMMA LimiterSafety == LimiterInv => WindowBound /\ BucketsBounded
<1> SUFFICES ASSUME LimiterInv PROVE WindowBound /\ BucketsBounded
  OBVIOUS
<1>1. LimiterTypeOK /\ LimiterPast /\ EachWindowBound /\ SweptInTime
  BY DEF LimiterInv
<1>2. now \in Nat /\ WindowMs \in Nat \ {0}
  BY <1>1, LimiterAssumption DEF LimiterTypeOK
<1>3. BucketsBounded
  BY <1>1, <1>2 DEF SweptInTime, BucketsBounded, LimiterTypeOK, Buckets
<1>4. ASSUME NEW k \in Keys, NEW q \in Nat, q <= now + 1
      PROVE  Cardinality(Between(admitted[k], q * WindowMs, q * WindowMs + WindowMs)) <= Limit[k]
  <2>1. CASE q <= now
    BY <1>1, <1>2, <2>1, AdmittedBetween DEF EachWindowBound
  <2>2. CASE q = now + 1
    <3>1. q * WindowMs \in Nat /\ q * WindowMs + WindowMs \in Nat /\ now < q * WindowMs
      BY <1>2, <2>2
    <3>2. \A i \in DOMAIN admitted[k] : admitted[k][i] < q * WindowMs
      BY <1>1, <1>2, <3>1 DEF LimiterPast, LimiterTypeOK
    <3>3. admitted[k] \in Seq(Nat) /\ Limit[k] \in Nat
      BY <1>1, LimiterAssumption DEF LimiterTypeOK
    <3>. QED
      BY <3>1, <3>2, <3>3, BetweenNone
  <2>. QED
    BY <1>2, <1>4, <2>1, <2>2
<1>5. ASSUME NEW k \in Keys, NEW t \in Nat, t <= now
      PROVE  /\ AdmittedIn(k, WindowStart(t), WindowStart(t) + WindowMs) <= Limit[k]
             /\ AdmittedIn(k, t, t + WindowMs) <= 2 * Limit[k]
  <2>1. PICK q \in 0 .. t : WindowStart(t) = q * WindowMs
    BY WindowFacts
  <2> DEFINE a == q * WindowMs
             b == q * WindowMs + WindowMs
             c == q * WindowMs + WindowMs + WindowMs
  <2>2. /\ a \in Nat /\ b \in Nat /\ c \in Nat /\ t + WindowMs \in Nat
        /\ b = (q + 1) * WindowMs /\ c = (q + 1) * WindowMs + WindowMs
    BY <1>2
  <2>3. a <= t /\ t < b
    BY <2>1, WindowFacts
  <2>4. /\ admitted[k] \in Seq(Nat) /\ Limit[k] \in Nat
    BY <1>1, LimiterAssumption DEF LimiterTypeOK
  <2>5. /\ Cardinality(Between(admitted[k], a, b)) <= Limit[k]
        /\ Cardinality(Between(admitted[k], b, c)) <= Limit[k]
    <3>1. q \in Nat /\ q + 1 \in Nat /\ q <= now + 1 /\ q + 1 <= now + 1
      BY <1>2, <1>5
    <3>2. /\ Cardinality(Between(admitted[k], q * WindowMs, q * WindowMs + WindowMs)) <= Limit[k]
          /\ Cardinality(Between(admitted[k], (q + 1) * WindowMs, (q + 1) * WindowMs + WindowMs))
               <= Limit[k]
      BY <1>4, <3>1
    <3>3. b = (q + 1) * WindowMs /\ c = (q + 1) * WindowMs + WindowMs
      BY <2>2
    <3>4. Cardinality(Between(admitted[k], b, c)) <= Limit[k]
      BY <3>2, <3>3
    <3>. QED
      BY <3>2, <3>4
  <2> HIDE DEF a, b, c
  <2>6. a <= t /\ t + WindowMs <= c
    BY <1>2, <2>2, <2>3 DEF b, c
  <2>7. Cardinality(Between(admitted[k], t, t + WindowMs))
          <= Cardinality(Between(admitted[k], a, b)) + Cardinality(Between(admitted[k], b, c))
    BY <2>2, <2>4, <2>6, BetweenUnion
  <2>8. /\ Cardinality(Between(admitted[k], t, t + WindowMs)) \in Nat
        /\ Cardinality(Between(admitted[k], a, b)) \in Nat
        /\ Cardinality(Between(admitted[k], b, c)) \in Nat
    BY <2>2, <2>4, BetweenFinite
  <2>9. Cardinality(Between(admitted[k], t, t + WindowMs)) <= 2 * Limit[k]
    BY <2>4, <2>5, <2>7, <2>8
  <2>10. WindowStart(t) = a /\ WindowStart(t) + WindowMs = b
    BY <2>1 DEF a, b
  <2>. QED
    BY <2>5, <2>9, <2>10, AdmittedBetween
<1>6. \A k \in Keys : \A i \in DOMAIN admitted[k] : admitted[k][i] \in Nat /\ admitted[k][i] <= now
  BY <1>1 DEF LimiterTypeOK, LimiterPast
<1>. QED
  BY <1>3, <1>5, <1>6 DEF WindowBound

=============================================================================
