---------------------------- MODULE NodeHostProofs ----------------------------
(***************************************************************************)
(* Proofs about the Node server, for any requests, clients, limits, faults *)
(* and restarts: HostInv holds in every state, and with it what the store, *)
(* the limiter and the telemetry promise.                                  *)
(***************************************************************************)
EXTENDS NodeHost, OperationFileProofs, RateLimiterProofs, SequenceTheorems

(* TelemetryTypeOK, RecentMatchesCounters and LatenciesOK of any state of  *)
(* the telemetry: a method passes one on to the next. *)
Telemetries ==
    [counters: [Metrics -> Nat], ring: Seq(Categories), total: Nat, latency: Latencies]

Positions(s, x) == {i \in DOMAIN s : s[i] = x}
Shown(t, m) == Positions(t.ring, m)

RingFits(t) ==
    /\ Len(t.ring) = IF t.total < RecentEventLimit THEN t.total ELSE RecentEventLimit
    /\ \A m \in Metrics :
         /\ Cardinality(Shown(t, m)) <= t.counters[m]
         /\ t.total <= RecentEventLimit => Cardinality(Shown(t, m)) = t.counters[m]

LatencyFits(t) ==
    /\ \A i \in DOMAIN t.latency.values :
         t.latency.min <= t.latency.values[i] /\ t.latency.values[i] <= t.latency.max
    /\ t.latency.count = 0 => t.latency.values = <<>>

Fits(t) == t \in Telemetries /\ RingFits(t) /\ LatencyFits(t)

LEMMA FitsTel == Fits(tel) <=> TelemetryTypeOK /\ RecentMatchesCounters /\ LatenciesOK
BY DEF Fits, Telemetries, TelemetryTypeOK, RingFits, LatencyFits, Shown,
       Positions, RecentMatchesCounters, LatenciesOK

(* The last elements of a sequence. *)
LEMMA LastOfFacts ==
    ASSUME NEW S, NEW s \in Seq(S), NEW n \in Nat \ {0}
    PROVE  /\ LastOf(s, n) \in Seq(S)
           /\ Len(s) <= n => LastOf(s, n) = s
           /\ Len(s) > n => /\ Len(LastOf(s, n)) = n
                            /\ \A i \in 1 .. n : LastOf(s, n)[i] = s[i + Len(s) - n]
<1>1. CASE Len(s) <= n
  <2>1. ~(Len(s) > n) /\ Len(s) \in Nat
    BY <1>1
  <2>2. LastOf(s, n) = SubSeq(s, 1, Len(s))
    BY <2>1 DEF LastOf
  <2>3. SubSeq(s, 1, Len(s)) = s
    BY SubSeqFull
  <2>. QED
    BY <2>1, <2>2, <2>3
<1>2. CASE Len(s) > n
  <2>1. LastOf(s, n) = SubSeq(s, Len(s) - n + 1, Len(s))
    BY <1>2 DEF LastOf
  <2>2. LastOf(s, n) \in Seq(S) /\ Len(LastOf(s, n)) = n
    BY <1>2, <2>1
  <2>3. \A i \in 1 .. n : LastOf(s, n)[i] = s[i + Len(s) - n]
    BY <1>2, <2>1
  <2>. QED
    BY <1>2, <2>2, <2>3
<1>. QED
  BY <1>1, <1>2

LEMMA PositionsFinite ==
    ASSUME NEW S, NEW s \in Seq(S), NEW x
    PROVE  IsFiniteSet(Positions(s, x)) /\ Cardinality(Positions(s, x)) \in Nat
<1>1. Positions(s, x) \in SUBSET (1 .. Len(s))
  BY DEF Positions
<1>2. Len(s) \in Int /\ 1 \in Int
  OBVIOUS
<1>3. IsFiniteSet(1 .. Len(s))
  BY <1>2, FS_Interval
<1>. QED
  BY <1>1, <1>3, FS_Subset, FS_CardinalityType

LEMMA PositionsAppend ==
    ASSUME NEW S, NEW s \in Seq(S), NEW x, NEW e \in S
    PROVE  Cardinality(Positions(Append(s, e), x))
             = Cardinality(Positions(s, x)) + IF e = x THEN 1 ELSE 0
<1>1. Positions(Append(s, e), x)
        = IF e = x THEN Positions(s, x) \cup {Len(s) + 1} ELSE Positions(s, x)
  BY DEF Positions
<1>2. Len(s) + 1 \notin Positions(s, x)
  BY DEF Positions
<1>3. IsFiniteSet(Positions(s, x)) /\ Cardinality(Positions(s, x)) \in Nat
  BY PositionsFinite
<1>4. Cardinality(Positions(s, x) \cup {Len(s) + 1}) = Cardinality(Positions(s, x)) + 1
  BY <1>2, <1>3, FS_AddElement
<1>. QED
  BY <1>1, <1>3, <1>4

(* Trimming shows nothing more often. *)
LEMMA PositionsLast ==
    ASSUME NEW S, NEW s \in Seq(S), NEW x, NEW n \in Nat \ {0}
    PROVE  Cardinality(Positions(LastOf(s, n), x)) <= Cardinality(Positions(s, x))
<1>1. CASE Len(s) <= n
  <2>1. LastOf(s, n) = s
    BY <1>1, LastOfFacts
  <2>2. Cardinality(Positions(s, x)) \in Nat
    BY PositionsFinite
  <2>. QED
    BY <2>1, <2>2
<1>2. CASE Len(s) > n
  <2> DEFINE last == LastOf(s, n)
             old  == [i \in Positions(last, x) |-> i + Len(s) - n]
  <2>1. last \in Seq(S) /\ Len(last) = n /\ \A i \in 1 .. n : last[i] = s[i + Len(s) - n]
    BY <1>2, LastOfFacts
  <2> HIDE DEF last
  <2>2. DOMAIN last = 1 .. n /\ Len(s) \in Nat
    BY <2>1
  <2>3. \A i \in Positions(last, x) : i \in Nat /\ i + Len(s) - n \in Positions(s, x)
    BY <1>2, <2>1, <2>2 DEF Positions
  <2>4. old \in Injection(Positions(last, x), Positions(s, x))
    BY <2>2, <2>3 DEF Injection, IsInjective
  <2>5. IsFiniteSet(Positions(s, x))
    BY PositionsFinite
  <2>6. Cardinality(Positions(last, x)) <= Cardinality(Positions(s, x))
    BY <2>4, <2>5, FS_Injection
  <2>. QED
    BY <2>6 DEF last
<1>. QED
  BY <1>1, <1>2

(* One more event of a category, whose counter has been increased before.  *)
LEMMA EventFits ==
    ASSUME NEW t \in Telemetries, NEW u \in Telemetries, NEW category \in Categories,
           RingFits(t), u.ring = t.ring, u.total = t.total,
           \A m \in Metrics : u.counters[m] = t.counters[m] + IF m = category THEN 1 ELSE 0
    PROVE  /\ Event(u, category) \in Telemetries /\ RingFits(Event(u, category))
           /\ Event(u, category).counters = u.counters
           /\ Event(u, category).latency = u.latency
<1> DEFINE v == Event(u, category)
           more == Append(t.ring, category)
<1>1. /\ t.ring \in Seq(Categories) /\ t.total \in Nat /\ RecentEventLimit \in Nat \ {0}
      /\ more \in Seq(Categories) /\ Len(more) = Len(t.ring) + 1
      /\ \A m \in Metrics : t.counters[m] \in Nat /\ u.counters[m] \in Nat
  BY TelemetryAssumption DEF Telemetries
<1>2. /\ v.ring = LastOf(more, RecentEventLimit) /\ v.total = t.total + 1
      /\ v.counters = u.counters /\ v.latency = u.latency
      /\ v = [u EXCEPT !.ring = LastOf(more, RecentEventLimit), !.total = t.total + 1]
  BY DEF Event, Telemetries
<1> HIDE DEF v, more
<1>3. v.ring \in Seq(Categories)
  BY <1>1, <1>2, LastOfFacts
<1>4. v \in Telemetries
  <2>1. v = [counters |-> u.counters, ring |-> v.ring, total |-> t.total + 1,
             latency |-> u.latency]
    BY <1>2 DEF Telemetries
  <2>2. u.counters \in [Metrics -> Nat] /\ u.latency \in Latencies /\ t.total + 1 \in Nat
    BY <1>1 DEF Telemetries
  <2>. QED
    BY <1>3, <2>1, <2>2 DEF Telemetries
<1>5. Len(v.ring) = IF v.total < RecentEventLimit THEN v.total ELSE RecentEventLimit
  <2>1. Len(more) <= RecentEventLimit => Len(v.ring) = Len(more)
    BY <1>1, <1>2, LastOfFacts
  <2>2. Len(more) > RecentEventLimit => Len(v.ring) = RecentEventLimit
    BY <1>1, <1>2, LastOfFacts
  <2>3. Len(t.ring) = IF t.total < RecentEventLimit THEN t.total ELSE RecentEventLimit
    BY DEF RingFits
  <2>. QED
    BY <1>1, <1>2, <2>1, <2>2, <2>3
<1>6. ASSUME NEW m \in Metrics
      PROVE  /\ Cardinality(Shown(v, m)) <= v.counters[m]
             /\ v.total <= RecentEventLimit => Cardinality(Shown(v, m)) = v.counters[m]
  <2> DEFINE inMore == Cardinality(Positions(more, m))
             inRing == Cardinality(Shown(t, m))
             inLast == Cardinality(Shown(v, m))
  <2>1. inRing \in Nat /\ inMore \in Nat /\ inLast \in Nat
    BY <1>1, <1>3, PositionsFinite DEF Shown
  <2>2. inMore = inRing + IF category = m THEN 1 ELSE 0
    BY <1>1, PositionsAppend DEF more, Shown
  <2>3. inLast <= inMore
    BY <1>1, <1>2, PositionsLast DEF Shown
  <2>4. Len(more) <= RecentEventLimit => inLast = inMore
    <3>1. Len(more) <= RecentEventLimit => v.ring = more
      BY <1>1, <1>2, LastOfFacts
    <3>. QED
      BY <3>1 DEF Shown
  <2>5. inRing <= t.counters[m] /\ (t.total <= RecentEventLimit => inRing = t.counters[m])
    BY DEF RingFits
  <2>6. Len(t.ring) = IF t.total < RecentEventLimit THEN t.total ELSE RecentEventLimit
    BY DEF RingFits
  <2> HIDE DEF inMore, inRing, inLast
  <2>7. v.counters[m] = t.counters[m] + IF category = m THEN 1 ELSE 0
    BY <1>2
  <2>8. inLast <= v.counters[m] /\ (v.total <= RecentEventLimit => inLast = v.counters[m])
    BY <1>1, <1>2, <2>1, <2>2, <2>3, <2>4, <2>5, <2>6, <2>7
  <2>. QED
    BY <2>8 DEF inLast
<1>7. RingFits(v)
  BY <1>5, <1>6 DEF RingFits
<1>. QED
  BY <1>2, <1>4, <1>7 DEF v

(* One more latency: the bounds include it, and what is kept was kept. *)
LEMMA DistributionFits ==
    ASSUME NEW t \in Telemetries, NEW ms \in Nat, LatencyFits(t)
    PROVE  /\ Distribution(t, ms) \in Telemetries /\ LatencyFits(Distribution(t, ms))
           /\ Distribution(t, ms).counters = t.counters
           /\ Distribution(t, ms).ring = t.ring /\ Distribution(t, ms).total = t.total
<1> DEFINE u == Distribution(t, ms)
           l == t.latency
           n == u.latency
           more == Append(l.values, ms)
<1>1. /\ l.count \in Nat /\ l.sum \in Nat /\ l.min \in Nat /\ l.max \in Nat
      /\ l.values \in Seq(Nat) /\ DistributionValueLimit \in Nat \ {0}
      /\ more \in Seq(Nat)
  BY TelemetryAssumption DEF Telemetries, Latencies
<1>2. /\ u.counters = t.counters /\ u.ring = t.ring /\ u.total = t.total
      /\ n = [count  |-> l.count + 1,
              sum    |-> l.sum + ms,
              min    |-> IF l.count = 0 \/ ms < l.min THEN ms ELSE l.min,
              max    |-> IF l.count = 0 \/ ms > l.max THEN ms ELSE l.max,
              values |-> LastOf(more, DistributionValueLimit)]
      /\ u = [t EXCEPT !.latency = n]
  BY DEF Distribution, Telemetries
<1>3. n.values \in Seq(Nat)
  <2> HIDE DEF n, more, u
  <2>1. LastOf(more, DistributionValueLimit) \in Seq(Nat)
    BY <1>1, LastOfFacts
  <2>. QED
    BY <1>2, <2>1
<1>4. n \in Latencies
  BY <1>1, <1>2, <1>3 DEF Latencies
<1>5. u \in Telemetries
  <2> HIDE DEF n, u
  <2>. QED
    BY <1>2, <1>4 DEF Telemetries
<1>6. \A i \in DOMAIN more : n.min <= more[i] /\ more[i] <= n.max
  <2>1. \A i \in DOMAIN l.values : l.min <= l.values[i] /\ l.values[i] <= l.max
    BY DEF LatencyFits
  <2>2. l.count = 0 => l.values = <<>>
    BY DEF LatencyFits
  <2>3. ASSUME NEW i \in DOMAIN l.values PROVE n.min <= l.values[i] /\ l.values[i] <= n.max
    <3>1. l.count # 0 /\ l.values[i] \in Nat /\ l.min <= l.values[i] /\ l.values[i] <= l.max
      BY <1>1, <2>1, <2>2
    <3>2. /\ n.min = IF ms < l.min THEN ms ELSE l.min
          /\ n.max = IF ms > l.max THEN ms ELSE l.max
      BY <1>2, <3>1
    <3> HIDE DEF n, l
    <3>. QED
      BY <1>1, <3>1, <3>2
  <2>4. n.min <= ms /\ ms <= n.max
    BY <1>1, <1>2
  <2>5. \A i \in DOMAIN more : more[i] = ms \/ (i \in DOMAIN l.values /\ more[i] = l.values[i])
    BY <1>1
  <2>. QED
    BY <2>3, <2>4, <2>5
<1>7. \A i \in DOMAIN n.values : \E j \in DOMAIN more : n.values[i] = more[j]
  <2> HIDE DEF n, more, u
  <2>1. CASE Len(more) <= DistributionValueLimit
    BY <1>1, <1>2, <2>1, LastOfFacts
  <2>2. CASE Len(more) > DistributionValueLimit
    <3>1. /\ Len(n.values) = DistributionValueLimit
          /\ \A i \in 1 .. DistributionValueLimit :
               n.values[i] = more[i + Len(more) - DistributionValueLimit]
      BY <1>1, <1>2, <2>2, LastOfFacts
    <3>2. \A i \in 1 .. DistributionValueLimit :
            i + Len(more) - DistributionValueLimit \in DOMAIN more
      BY <1>1, <2>2
    <3>3. DOMAIN n.values = 1 .. DistributionValueLimit
      BY <1>3, <3>1
    <3>. QED
      BY <3>1, <3>2, <3>3
  <2>. QED
    BY <1>1, <2>1, <2>2
<1>8. LatencyFits(u)
  <2>1. n.count # 0
    BY <1>1, <1>2
  <2>. QED
    BY <1>6, <1>7, <2>1 DEF LatencyFits
<1>. QED
  BY <1>2, <1>5, <1>8

LEMMA CounterFacts ==
    ASSUME NEW t \in Telemetries, NEW metric \in Metrics
    PROVE  /\ Counter(t, metric) \in Telemetries /\ Counter(t, metric).ring = t.ring
           /\ Counter(t, metric).total = t.total /\ Counter(t, metric).latency = t.latency
           /\ \A m \in Metrics : Counter(t, metric).counters[m]
                                   = t.counters[m] + IF m = metric THEN 1 ELSE 0
<1>1. /\ t.counters \in [Metrics -> Nat] /\ t.ring \in Seq(Categories) /\ t.total \in Nat
      /\ t.latency \in Latencies
  BY DEF Telemetries
<1> DEFINE counters == [t.counters EXCEPT ![metric] = t.counters[metric] + 1]
<1>2. /\ counters \in [Metrics -> Nat]
      /\ \A m \in Metrics : counters[m] = t.counters[m] + IF m = metric THEN 1 ELSE 0
  BY <1>1
<1> HIDE DEF counters
<1>3. Counter(t, metric) = [t EXCEPT !.counters = counters]
  BY DEF Counter, Telemetries, counters
<1>4. Counter(t, metric) = [counters |-> counters, ring |-> t.ring, total |-> t.total,
                            latency |-> t.latency]
  BY <1>3 DEF Telemetries
<1>. QED
  BY <1>1, <1>2, <1>4 DEF Telemetries

LEMMA RequestFits ==
    ASSUME NEW t, Fits(t), NEW status \in Statuses, NEW ms \in Nat
    PROVE  /\ Fits(Request(t, status, ms))
           /\ \A m \in Metrics : Request(t, status, ms).counters[m]
                                   = t.counters[m] + IF m = status THEN 1 ELSE 0
<1> DEFINE c == Counter(t, status)
           u == Distribution(c, ms)
<1>1. t \in Telemetries /\ RingFits(t) /\ LatencyFits(t) /\ status \in Metrics
      /\ status \in Categories
  BY DEF Fits, Metrics, Categories
<1>2. /\ c \in Telemetries /\ c.ring = t.ring /\ c.total = t.total /\ c.latency = t.latency
      /\ \A m \in Metrics : c.counters[m] = t.counters[m] + IF m = status THEN 1 ELSE 0
  BY <1>1, CounterFacts
<1> HIDE DEF c
<1>3. LatencyFits(c)
  BY <1>1, <1>2 DEF LatencyFits
<1>4. /\ u \in Telemetries /\ LatencyFits(u) /\ u.counters = c.counters
      /\ u.ring = t.ring /\ u.total = t.total
  BY <1>2, <1>3, DistributionFits
<1> HIDE DEF u
<1>5. /\ Event(u, status) \in Telemetries /\ RingFits(Event(u, status))
      /\ Event(u, status).counters = u.counters /\ Event(u, status).latency = u.latency
  BY <1>1, <1>2, <1>4, EventFits
<1>6. LatencyFits(Event(u, status))
  BY <1>4, <1>5 DEF LatencyFits
<1>7. Event(u, status) = Request(t, status, ms)
  BY DEF c, u, Request
<1>. QED
  BY <1>2, <1>4, <1>5, <1>6, <1>7 DEF Fits

LEMMA AuthFailedFits ==
    ASSUME NEW t, Fits(t)
    PROVE  /\ Fits(AuthFailed(t))
           /\ \A s \in Statuses : AuthFailed(t).counters[s] = t.counters[s]
<1> DEFINE c == Counter(t, AuthFailure)
<1>1. t \in Telemetries /\ RingFits(t) /\ LatencyFits(t)
      /\ AuthFailure \in Metrics /\ AuthFailure \in Categories
      /\ \A s \in Statuses : s \in Metrics /\ s # AuthFailure
  BY DEF Fits, Metrics, Categories, AuthFailure, Statuses
<1>2. /\ c \in Telemetries /\ c.ring = t.ring /\ c.total = t.total /\ c.latency = t.latency
      /\ \A m \in Metrics : c.counters[m] = t.counters[m] + IF m = AuthFailure THEN 1 ELSE 0
  BY <1>1, CounterFacts
<1> HIDE DEF c
<1>3. /\ Event(c, AuthFailure) \in Telemetries /\ RingFits(Event(c, AuthFailure))
      /\ Event(c, AuthFailure).counters = c.counters
      /\ Event(c, AuthFailure).latency = c.latency
  BY <1>1, <1>2, EventFits
<1>4. LatencyFits(Event(c, AuthFailure))
  BY <1>1, <1>2, <1>3 DEF LatencyFits
<1>5. \A s \in Statuses : c.counters[s] = t.counters[s]
  BY <1>1, <1>2 DEF Telemetries
<1>6. Event(c, AuthFailure) = AuthFailed(t)
  BY DEF c, AuthFailed
<1>. QED
  BY <1>3, <1>4, <1>5, <1>6 DEF Fits

LEMMA ServerErrorFits ==
    ASSUME NEW t, Fits(t)
    PROVE  Fits(Event(t, ServerError)) /\ Event(t, ServerError).counters = t.counters
<1>1. t \in Telemetries /\ RingFits(t) /\ LatencyFits(t) /\ ServerError \in Categories
      /\ \A m \in Metrics : m # ServerError
  BY DEF Fits, Metrics, Categories, AuthFailure, ServerError, Statuses
<1>2. \A m \in Metrics : t.counters[m] = t.counters[m] + IF m = ServerError THEN 1 ELSE 0
  BY <1>1 DEF Telemetries
<1>3. /\ Event(t, ServerError) \in Telemetries /\ RingFits(Event(t, ServerError))
      /\ Event(t, ServerError).counters = t.counters
      /\ Event(t, ServerError).latency = t.latency
  BY <1>1, <1>2, EventFits
<1>4. LatencyFits(Event(t, ServerError))
  BY <1>1, <1>3 DEF LatencyFits
<1>. QED
  BY <1>3, <1>4 DEF Fits

LEMMA NoTelemetryFits == Fits(NoTelemetry) /\ \A m \in Metrics : NoTelemetry.counters[m] = 0
<1>1. \A m \in Metrics : Shown(NoTelemetry, m) = {}
  BY DEF NoTelemetry, Shown, Positions
<1>2. NoTelemetry \in Telemetries /\ LatencyFits(NoTelemetry)
  BY DEF NoTelemetry, Telemetries, Latencies, LatencyFits
<1>3. RingFits(NoTelemetry)
  BY <1>1, FS_EmptySet, TelemetryAssumption DEF RingFits, NoTelemetry
<1>. QED
  BY <1>2, <1>3 DEF Fits, NoTelemetry

-----------------------------------------------------------------------------
(* Requests and answers *)

Replied(s) ==
    {r \in Callers : req[r].pc = "done" /\ req[r].by = "app" /\ req[r].status = s}

Counted == \A s \in Statuses : tel.counters[s] = Cardinality(Replied(s))

(* HostInv, put together for the proofs below. *)
LEMMA HostParts ==
    HostInv <=> /\ FileInv /\ LimiterInv /\ Fits(tel) /\ Counted /\ RequestsOK
                /\ plan \in Traffic /\ req \in [Callers -> RequestRecords]
                /\ restarts \in 0 .. plan.restarts
BY FitsTel DEF HostInv, TypeOK, FileInv, LimiterInv, AnswersCounted, Counted, Replied

LEMMA HostPartsNext ==
    HostInv' <=> /\ FileInv' /\ LimiterInv' /\ Fits(tel)' /\ Counted' /\ RequestsOK'
                 /\ plan' \in Traffic /\ req' \in [Callers -> RequestRecords]
                 /\ restarts' \in 0 .. plan'.restarts
<1>1. Fits(tel)' <=> TelemetryTypeOK' /\ RecentMatchesCounters' /\ LatenciesOK'
  BY DEF Fits, Telemetries, TelemetryTypeOK, RingFits, LatencyFits, Shown, Positions,
         RecentMatchesCounters, LatenciesOK
<1>. QED
  BY <1>1 DEF HostInv, TypeOK, FileInv, LimiterInv, AnswersCounted, Counted, Replied

LEMMA RepliedFinite == \A s : IsFiniteSet(Replied(s)) /\ Cardinality(Replied(s)) \in Nat
<1> SUFFICES ASSUME NEW s PROVE IsFiniteSet(Replied(s)) /\ Cardinality(Replied(s)) \in Nat
  OBVIOUS
<1>1. Replied(s) \in SUBSET Callers
  BY DEF Replied
<1>. QED
  BY <1>1, FileAssumption, FS_Subset, FS_CardinalityType

(* An answer that is none of the app's, or no answer yet, is not counted.  *)
LEMMA NotCounted ==
    ASSUME Counted, req \in [Callers -> RequestRecords], NEW r \in Callers, NEW x,
           req' = [req EXCEPT ![r] = x], req[r].pc # "done",
           x.pc # "done" \/ x.by # "app",
           \A s \in Statuses : tel'.counters[s] = tel.counters[s]
    PROVE  Counted'
<1>1. \A s \in Statuses : Replied(s)' = Replied(s)
  BY DEF Replied
<1>. QED
  BY <1>1 DEF Counted

LEMMA AppAnswers ==
    ASSUME Counted, req \in [Callers -> RequestRecords], NEW r \in Callers,
           NEW status \in Statuses, Answer(r, status, "app"), req[r].pc # "done",
           \A s \in Statuses :
               tel'.counters[s] = tel.counters[s] + IF s = status THEN 1 ELSE 0
    PROVE  Counted'
<1>1. /\ req'[r].pc = "done" /\ req'[r].by = "app" /\ req'[r].status = status
      /\ \A q \in Callers \ {r} : req'[q] = req[q]
  BY DEF Answer, RequestRecords
<1>2. \A s \in Statuses :
        Replied(s)' = IF s = status THEN Replied(s) \cup {r} ELSE Replied(s)
  BY <1>1 DEF Replied
<1>3. r \notin Replied(status)
  BY DEF Replied
<1>4. IsFiniteSet(Replied(status)) /\ Cardinality(Replied(status)) \in Nat
  BY RepliedFinite
<1>5. Cardinality(Replied(status) \cup {r}) = Cardinality(Replied(status)) + 1
  BY <1>3, <1>4, FS_AddElement
<1>6. \A s \in Statuses : Cardinality(Replied(s)) \in Nat
  BY RepliedFinite
<1>7. ASSUME NEW s \in Statuses PROVE tel'.counters[s] = Cardinality(Replied(s)')
  <2>1. tel.counters[s] = Cardinality(Replied(s))
    BY DEF Counted
  <2>2. CASE s = status
    BY <1>2, <1>5, <2>1, <2>2
  <2>3. CASE s # status
    BY <1>2, <1>6, <2>1, <2>3
  <2>. QED
    BY <2>2, <2>3
<1>. QED
  BY <1>7 DEF Counted

(* What every step of a request leaves alone. *)
SameHost == plan' = plan /\ restarts' = restarts /\ now' = now

LEMMA StatusTypes ==
    \A s \in Statuses : s \in Statuses \cup {"413", "none"} /\ s # "none"
BY DEF Statuses

(* The app answers a request, whatever it did to the limiter. *)
LEMMA ReplyInv ==
    ASSUME HostInv, NEW r \in Callers, NEW status \in Statuses, NEW since \in Nat, since <= now,
           NEW t, Fits(t), \A s \in Statuses : t.counters[s] = tel.counters[s],
           req[r].pc # "done", Reply(r, status, since, t),
           FileInv', LimiterInv', SameHost,
           call'[r] = Quiet, \A d \in Callers \ {r} : call'[d] = call[d]
    PROVE  HostInv'
<1>1. /\ Fits(tel) /\ Counted /\ RequestsOK /\ plan \in Traffic
      /\ req \in [Callers -> RequestRecords] /\ restarts \in 0 .. plan.restarts
      /\ now \in Nat
  BY HostParts DEF LimiterInv, LimiterTypeOK
<1>2. /\ req' = [req EXCEPT ![r] = [req[r] EXCEPT !.pc = "done", !.status = status, !.by = "app"]]
      /\ [req[r] EXCEPT !.pc = "done", !.status = status, !.by = "app"] \in RequestRecords
  <2>1. req[r] \in RequestRecords
    BY <1>1
  <2>2. req' = [req EXCEPT ![r] = [req[r] EXCEPT !.pc = "done", !.status = status, !.by = "app"]]
    BY <1>1 DEF Reply, Answer
  <2>. QED
    BY <2>1, <2>2 DEF RequestRecords
<1>3. req' \in [Callers -> RequestRecords]
  BY <1>1, <1>2
<1>4. /\ Fits(tel)'
      /\ \A s \in Statuses : tel'.counters[s] = tel.counters[s] + IF s = status THEN 1 ELSE 0
  <2>1. tel' = Request(t, status, now - since) /\ now - since \in Nat
    BY <1>1 DEF Reply
  <2>2. /\ Fits(Request(t, status, now - since))
        /\ \A m \in Metrics : Request(t, status, now - since).counters[m]
                                = t.counters[m] + IF m = status THEN 1 ELSE 0
    BY <2>1, RequestFits
  <2>3. Fits(tel')
    BY <2>1, <2>2
  <2>4. Fits(tel)' <=> Fits(tel')
    BY DEF Fits, RingFits, LatencyFits, Shown
  <2>5. \A s \in Statuses : s \in Metrics
    BY DEF Metrics
  <2>. QED
    BY <2>1, <2>2, <2>3, <2>4, <2>5
<1>5. Counted'
  BY <1>1, <1>4, AppAnswers DEF Reply
<1>6. RequestsOK'
  <2>1. /\ req'[r].pc = "done" /\ req'[r].status = status /\ req'[r].by = "app"
        /\ req'[r].since = req[r].since
        /\ \A d \in Callers \ {r} : req'[d] = req[d]
    BY <1>1, <1>2 DEF RequestRecords
  <2>. QED
    BY <1>1, <2>1, StatusTypes DEF RequestsOK, SameHost
<1>7. plan' \in Traffic /\ restarts' \in 0 .. plan'.restarts
  BY <1>1 DEF SameHost
<1>8. HostInv' <=> /\ FileInv' /\ LimiterInv' /\ Fits(tel)' /\ Counted' /\ RequestsOK'
                   /\ plan' \in Traffic /\ req' \in [Callers -> RequestRecords]
                   /\ restarts' \in 0 .. plan'.restarts
  BY HostPartsNext
<1>. QED
  BY <1>3, <1>4, <1>5, <1>6, <1>7, <1>8

(* The server around the app answers a request. *)
LEMMA ServerInv ==
    ASSUME HostInv, NEW r \in Callers, NEW status \in {"413", "500"}, Answer(r, status, "server"),
           req[r].pc = "idle", Fits(tel)', \A s \in Statuses : tel'.counters[s] = tel.counters[s],
           UNCHANGED fileVars, UNCHANGED limiterVars, SameHost
    PROVE  HostInv'
<1>1. /\ FileInv /\ LimiterInv /\ Counted /\ RequestsOK /\ plan \in Traffic
      /\ req \in [Callers -> RequestRecords] /\ restarts \in 0 .. plan.restarts
  BY HostParts
<1>2. FileInv' /\ LimiterInv' /\ call' = call
  BY <1>1, FileUnchanged, LimiterUnchanged DEF fileVars
<1> DEFINE x == [req[r] EXCEPT !.pc = "done", !.status = status, !.by = "server"]
<1>3. /\ req' = [req EXCEPT ![r] = x] /\ x \in RequestRecords
      /\ x.pc = "done" /\ x.status = status /\ x.by = "server" /\ x.since = req[r].since
  <2>1. req[r] \in RequestRecords
    BY <1>1
  <2>2. req' = [req EXCEPT ![r] = x]
    BY <1>1 DEF Answer
  <2>3. status \in Statuses \cup {"413", "none"}
    BY DEF Statuses
  <2>. QED
    BY <2>1, <2>2, <2>3 DEF RequestRecords
<1> HIDE DEF x
<1>4. Counted'
  BY <1>1, <1>3, NotCounted
<1>5. RequestsOK'
  <2>1. req'[r] = x /\ \A d \in Callers \ {r} : req'[d] = req[d]
    BY <1>1, <1>3
  <2>. QED
    BY <1>1, <1>2, <1>3, <2>1 DEF RequestsOK, SameHost
<1>. QED
  BY <1>1, <1>2, <1>3, <1>4, <1>5, HostPartsNext DEF SameHost

(* A handler begins. *)
LEMMA AcceptedInv == ASSUME HostInv, NEW r \in Callers, Accepted(r) PROVE HostInv'
<1>1. /\ FileInv /\ LimiterInv /\ Counted /\ RequestsOK /\ plan \in Traffic
      /\ req \in [Callers -> RequestRecords] /\ restarts \in 0 .. plan.restarts
      /\ Fits(tel) /\ now \in Nat
  BY HostParts DEF LimiterInv, LimiterTypeOK
<1>2. FileInv' /\ call' = call
  BY <1>1, FileUnchanged DEF fileVars, Accepted
<1>3. LimiterInv' /\ now' = now
  <2>1. plan.key[r] \in Keys
    BY <1>1, TrafficAssumption
  <2>. QED
    BY <1>1, <2>1, TakeInv DEF Accepted, Take
<1> DEFINE x == [req[r] EXCEPT !.pc = "handler", !.since = now]
<1>4. /\ req' = [req EXCEPT ![r] = x] /\ x \in RequestRecords
      /\ x.pc = "handler" /\ x.since = now /\ req[r].pc = "idle"
  <2>1. req[r] \in RequestRecords
    BY <1>1
  <2>2. req' = [req EXCEPT ![r] = x]
    BY <1>1 DEF Accepted
  <2>. QED
    BY <1>1, <2>1, <2>2 DEF RequestRecords, Accepted, Arrives
<1> HIDE DEF x
<1>5. tel' = tel /\ plan' = plan /\ restarts' = restarts
  BY DEF Accepted
<1>6. Fits(tel)'
  BY <1>1, <1>5 DEF Fits, RingFits, LatencyFits, Shown
<1>7. Counted'
  BY <1>1, <1>4, <1>5, NotCounted
<1>8. RequestsOK'
  <2>1. req'[r] = x /\ \A d \in Callers \ {r} : req'[d] = req[d]
    BY <1>1, <1>4
  <2>. QED
    BY <1>1, <1>2, <1>3, <1>4, <2>1 DEF RequestsOK
<1>. QED
  BY <1>1, <1>2, <1>3, <1>4, <1>5, <1>6, <1>7, <1>8, HostPartsNext

(* The calls of handlers: no caller but a handler has one. *)
LEMMA CallsInv ==
    ASSUME HostInv, NEW r \in Callers, req[r].pc = "handler",
           FileInv', UNCHANGED limiterVars, tel' = tel, UNCHANGED hostVars,
           \A d \in Callers \ {r} : call[d] = Quiet => call'[d] = Quiet
    PROVE  HostInv'
<1>1. /\ LimiterInv /\ Counted /\ RequestsOK /\ plan \in Traffic
      /\ req \in [Callers -> RequestRecords] /\ restarts \in 0 .. plan.restarts
      /\ Fits(tel)
  BY HostParts
<1>2. LimiterInv' /\ now' = now
  BY <1>1, LimiterUnchanged DEF limiterVars
<1>3. plan' = plan /\ req' = req /\ restarts' = restarts
  BY DEF hostVars
<1>4. Fits(tel)'
  BY <1>1 DEF Fits, RingFits, LatencyFits, Shown
<1>5. Counted'
  BY <1>1, <1>3 DEF Counted, Replied
<1>6. RequestsOK'
  BY <1>1, <1>2, <1>3 DEF RequestsOK
<1>. QED
  BY <1>1, <1>2, <1>3, <1>4, <1>5, <1>6, HostPartsNext

LEMMA StoreQuiet ==
    ASSUME FileInv, NEW c \in Callers, FileStep(c)
    PROVE  /\ call[c] # Quiet
           /\ \A d \in Callers \ {c} : call[d] = Quiet => call'[d] = Quiet
<1>1. FileTypeOK /\ LocalsSet
  BY DEF FileInv
<1>2. Quiet.step = "idle" /\ Quiet.alone = FALSE
  BY DEF Quiet
<1>3. call[c] # Quiet
  BY <1>2 DEF FileStep, ReadFile, Load, StartEmpty, Find, NotFound, Mutate, Open, Write,
              Renamed, NothingToRename, IoFails, Flushing
<1> SUFFICES ASSUME NEW d \in Callers \ {c}, call[d] = Quiet PROVE call'[d] = Quiet
  BY <1>3
<1>4. \A x \in MethodCalls : \A b : b = x.alone => [x EXCEPT !.alone = b] = x
  BY DEF MethodCalls
<1>5. CASE StartEmpty(c)
  <2>1. Flush(c, {}, TRUE)
    BY <1>5 DEF StartEmpty
  <2>2. call'[d] = [call[d] EXCEPT !.alone = call[d].alone /\ ~Flushing(d)]
    BY <1>1, <2>1, FlushFields
  <2>3. PICK b \in BOOLEAN : b = (call[d].alone /\ ~Flushing(d))
    OBVIOUS
  <2>4. b = call[d].alone
    BY <1>2, <2>3
  <2>5. call'[d] = [call[d] EXCEPT !.alone = b]
    BY <2>2, <2>3
  <2>. QED
    BY <1>4, <2>4, <2>5, QuietType
<1>6. CASE Mutate(c)
  <2>1. Flush(c, db \cup {Change(c)}, FALSE) /\ db \cup {Change(c)} \in SUBSET Changes
    BY <1>1, <1>6, ChangeType DEF Mutate, FileTypeOK
  <2>2. call'[d] = [call[d] EXCEPT !.alone = call[d].alone /\ ~Flushing(d)]
    BY <1>1, <2>1, FlushFields
  <2>3. PICK b \in BOOLEAN : b = (call[d].alone /\ ~Flushing(d))
    OBVIOUS
  <2>4. b = call[d].alone
    BY <1>2, <2>3
  <2>5. call'[d] = [call[d] EXCEPT !.alone = b]
    BY <2>2, <2>3
  <2>. QED
    BY <1>4, <2>4, <2>5, QuietType
<1>7. CASE Open(c)
  BY <1>1, <1>7, OpenFields
<1>8. CASE Renamed(c)
  BY <1>1, <1>8 DEF Renamed, FileTypeOK
<1>9. CASE ReadFile(c) \/ Load(c) \/ Find(c) \/ NotFound(c) \/ Write(c)
           \/ NothingToRename(c) \/ IoFails(c)
  BY <1>1, <1>9 DEF ReadFile, Load, Find, NotFound, Write, NothingToRename, IoFails,
                    Reach, FileTypeOK
<1>. QED
  BY <1>5, <1>6, <1>7, <1>8, <1>9 DEF FileStep

LEMMA TickHost == ASSUME HostInv, Tick PROVE HostInv'
<1>1. /\ FileInv /\ LimiterInv /\ Counted /\ RequestsOK /\ plan \in Traffic
      /\ req \in [Callers -> RequestRecords] /\ restarts \in 0 .. plan.restarts
      /\ Fits(tel) /\ now \in Nat
  BY HostParts DEF LimiterInv, LimiterTypeOK
<1>2. FileInv' /\ call' = call /\ LimiterInv' /\ now' = now + 1 /\ tel' = tel
      /\ plan' = plan /\ req' = req /\ restarts' = restarts
  BY <1>1, FileUnchanged, TickInv DEF Tick, fileVars, hostVars
<1>3. Fits(tel)'
  BY <1>1, <1>2 DEF Fits, RingFits, LatencyFits, Shown
<1>4. Counted'
  BY <1>1, <1>2 DEF Counted, Replied
<1>5. RequestsOK'
  BY <1>1, <1>2 DEF RequestsOK, RequestRecords
<1>. QED
  BY <1>1, <1>2, <1>3, <1>4, <1>5, HostPartsNext

LEMMA DieHost == ASSUME HostInv, Die PROVE HostInv'
<1>1. /\ FileInv /\ LimiterInv /\ RequestsOK /\ plan \in Traffic
      /\ req \in [Callers -> RequestRecords] /\ restarts \in 0 .. plan.restarts
      /\ plan.restarts \in Nat
  BY HostParts, TrafficAssumption
<1>2. FileInv' /\ LimiterInv' /\ now' = now /\ plan' = plan
      /\ restarts' \in 0 .. plan'.restarts /\ tel' = NoTelemetry
      /\ \A r \in Callers : call'[r] = Quiet
  <2>1. Restart /\ NewLimiter /\ now' = now /\ plan' = plan /\ tel' = NoTelemetry
        /\ restarts < plan.restarts /\ restarts' = restarts + 1
    BY DEF Die
  <2>2. restarts' \in 0 .. plan'.restarts
    BY <1>1, <2>1
  <2>3. \A r \in Callers : call'[r] = Quiet
    BY <2>1 DEF Restart
  <2>. QED
    BY <1>1, <2>1, <2>2, <2>3, RestartStep, NewLimiterInv
<1>3. Fits(tel)'
  BY <1>2, NoTelemetryFits DEF Fits, RingFits, LatencyFits, Shown
<1>4. /\ req' \in [Callers -> RequestRecords]
      /\ \A r \in Callers : req'[r].pc # "done" /\ req'[r].since = req[r].since
  <2>1. \A r \in Callers : [req[r] EXCEPT !.pc = "gone"] \in RequestRecords
    BY <1>1 DEF RequestRecords
  <2>2. \A r \in Callers :
          req'[r] = IF req[r].pc = "idle" THEN req[r] ELSE [req[r] EXCEPT !.pc = "gone"]
    BY DEF Die
  <2>3. \A r \in Callers : /\ [req[r] EXCEPT !.pc = "gone"].pc = "gone"
                           /\ [req[r] EXCEPT !.pc = "gone"].since = req[r].since
    BY <1>1 DEF RequestRecords
  <2>4. req' \in [Callers -> RequestRecords]
    BY <1>1, <2>1 DEF Die
  <2>. QED
    BY <2>2, <2>3, <2>4
<1>5. Counted'
  <2>1. \A s \in Statuses : Replied(s)' = {}
    BY <1>4 DEF Replied
  <2>. QED
    BY <1>2, <2>1, NoTelemetryFits, FS_EmptySet DEF Counted, Metrics
<1>6. RequestsOK'
  BY <1>1, <1>2, <1>4 DEF RequestsOK
<1>. QED
  BY <1>1, <1>2, <1>3, <1>4, <1>5, <1>6, HostPartsNext

LEMMA InitHost == Init => HostInv
<1> SUFFICES ASSUME Init PROVE HostInv
  OBVIOUS
<1>1. FileInv /\ LimiterInv /\ tel = NoTelemetry /\ plan \in Traffic
      /\ req = [r \in Callers |-> NotYet] /\ restarts = 0 /\ now \in Nat
      /\ \A c \in Callers : call[c] = Quiet
  BY InitInv, LimiterInitInv, LimiterAssumption DEF Init, FileInit, LimiterInit
<1>2. NotYet \in RequestRecords /\ NotYet.pc = "idle" /\ NotYet.since = 0
  BY DEF NotYet, RequestRecords
<1>3. Fits(tel)
  BY <1>1, NoTelemetryFits
<1>4. Counted
  <2>1. \A s \in Statuses : Replied(s) = {}
    BY <1>1, <1>2 DEF Replied
  <2>. QED
    BY <1>1, <2>1, NoTelemetryFits, FS_EmptySet DEF Counted, Metrics
<1>5. RequestsOK
  BY <1>1, <1>2 DEF RequestsOK
<1>6. restarts \in 0 .. plan.restarts
  BY <1>1, TrafficAssumption
<1>. QED
  BY <1>1, <1>2, <1>3, <1>4, <1>5, <1>6, HostParts

-----------------------------------------------------------------------------
(* The theorems *)

LEMMA LimitedKey == ASSUME HostInv, NEW r \in Callers PROVE plan.key[r] \in Keys
BY TrafficAssumption DEF HostInv, TypeOK

(* The answers of the routes: nothing of the store, one request of the     *)
(* limiter or none. *)
LEMMA RouteInv ==
    ASSUME HostInv, NEW r \in Callers,
           \/ Forbidden(r) \/ Denied(r) \/ NotRouted(r) \/ Served(r) \/ BadCallback(r)
    PROVE  HostInv'
<1>1. /\ FileInv /\ LimiterInv /\ RequestsOK /\ Fits(tel) /\ now \in Nat
  BY HostParts DEF LimiterInv, LimiterTypeOK
<1>2. /\ UNCHANGED fileVars /\ plan' = plan /\ restarts' = restarts
      /\ req[r].pc = "idle"
      /\ UNCHANGED limiterVars \/ Take(plan.key[r])
  BY DEF Forbidden, Denied, NotRouted, Served, BadCallback, Arrives
<1>3. FileInv' /\ call' = call /\ call[r] = Quiet
  BY <1>1, <1>2, FileUnchanged DEF fileVars, RequestsOK
<1>4. LimiterInv' /\ now' = now
  BY <1>1, <1>2, LimitedKey, TakeInv, LimiterUnchanged DEF limiterVars, Take
<1>5. SameHost
  BY <1>2, <1>4 DEF SameHost
<1>6. CASE Forbidden(r) \/ Denied(r) \/ NotRouted(r) \/ Served(r)
  <2>1. PICK status \in Statuses : Reply(r, status, now, tel)
    BY <1>6 DEF Forbidden, Denied, NotRouted, Served, Statuses
  <2>. QED
    BY <1>1, <1>2, <1>3, <1>4, <1>5, <2>1, ReplyInv
<1>7. CASE BadCallback(r)
  <2>1. Reply(r, "400", now, AuthFailed(tel)) /\ "400" \in Statuses
    BY <1>7 DEF BadCallback, Statuses
  <2>2. Fits(AuthFailed(tel)) /\ \A s \in Statuses : AuthFailed(tel).counters[s] = tel.counters[s]
    BY <1>1, AuthFailedFits
  <2>. QED
    BY <1>1, <1>2, <1>3, <1>4, <1>5, <2>1, <2>2, ReplyInv
<1>. QED
  BY <1>2, <1>6, <1>7

LEMMA HandlerReturnsInv == ASSUME HostInv, NEW r \in Callers, HandlerReturns(r) PROVE HostInv'
<1>1. /\ FileInv /\ LimiterInv /\ RequestsOK /\ Fits(tel) /\ now \in Nat
      /\ req \in [Callers -> RequestRecords]
  BY HostParts DEF LimiterInv, LimiterTypeOK
<1>2. /\ req[r].pc = "handler" /\ Leave(r) /\ UNCHANGED limiterVars
      /\ plan' = plan /\ restarts' = restarts
  BY DEF HandlerReturns
<1>3. FileInv' /\ call'[r] = Quiet /\ \A d \in Callers \ {r} : call'[d] = call[d]
  BY <1>1, <1>2, LeaveStep DEF Leave, FileInv, FileTypeOK
<1>4. LimiterInv' /\ SameHost
  BY <1>1, <1>2, LimiterUnchanged DEF limiterVars, SameHost
<1>5. PICK status \in Statuses : Reply(r, status, req[r].since, tel)
  BY DEF HandlerReturns, Statuses
<1>6. req[r].since \in Nat /\ req[r].since <= now
  BY <1>1 DEF RequestRecords, RequestsOK
<1>. QED
  BY <1>1, <1>2, <1>3, <1>4, <1>5, <1>6, ReplyInv

LEMMA ServeInv == ASSUME HostInv, NEW r \in Callers, Serve(r) PROVE HostInv'
<1>1. /\ FileInv /\ RequestsOK /\ Fits(tel) /\ req \in [Callers -> RequestRecords]
  BY HostParts
<1>2. CASE Oversized(r)
  <2>1. /\ Answer(r, "413", "server") /\ req[r].pc = "idle" /\ tel' = tel
        /\ UNCHANGED fileVars /\ UNCHANGED limiterVars /\ plan' = plan /\ restarts' = restarts
    BY <1>2 DEF Oversized, Arrives
  <2>2. Fits(tel)' /\ SameHost
    BY <1>1, <2>1 DEF Fits, RingFits, LatencyFits, Shown, SameHost, limiterVars
  <2>. QED
    BY <2>1, <2>2, ServerInv
<1>3. CASE Malformed(r)
  <2>1. /\ Answer(r, "500", "server") /\ req[r].pc = "idle" /\ tel' = Event(tel, ServerError)
        /\ UNCHANGED fileVars /\ UNCHANGED limiterVars /\ plan' = plan /\ restarts' = restarts
    BY <1>3 DEF Malformed, Arrives
  <2>2. Fits(tel') /\ tel'.counters = tel.counters
    BY <1>1, <2>1, ServerErrorFits
  <2>3. Fits(tel)' /\ SameHost
    BY <2>1, <2>2 DEF Fits, RingFits, LatencyFits, Shown, SameHost, limiterVars
  <2>. QED
    BY <2>1, <2>2, <2>3, ServerInv
<1>4. CASE CallStore(r)
  <2>1. PICK method \in Methods, o \in Ops : Enter(r, method, o)
    BY <1>4 DEF CallStore
  <2>2. FileInv' /\ \A d \in Callers \ {r} : call'[d] = call[d]
    BY <1>1, <2>1, EnterStep DEF Enter, FileInv, FileTypeOK
  <2>. QED
    BY <1>4, <2>2, CallsInv DEF CallStore
<1>5. CASE Store(r)
  <2>1. FileStep(r) /\ UNCHANGED limiterVars /\ tel' = tel /\ UNCHANGED hostVars
    BY <1>5 DEF Store
  <2>2. FileInv' /\ call[r] # Quiet /\ \A d \in Callers \ {r} : call[d] = Quiet => call'[d] = Quiet
    BY <1>1, <2>1, FileStepInv, StoreQuiet
  <2>3. req[r].pc = "handler"
    BY <1>1, <2>2 DEF RequestsOK
  <2>. QED
    BY <2>1, <2>2, <2>3, CallsInv
<1>. QED
  BY <1>2, <1>3, <1>4, <1>5, RouteInv, AcceptedInv, HandlerReturnsInv DEF Serve

LEMMA HostUnchanged == ASSUME HostInv, UNCHANGED vars PROVE HostInv'
<1>1. /\ FileInv /\ LimiterInv /\ Counted /\ RequestsOK /\ plan \in Traffic
      /\ req \in [Callers -> RequestRecords] /\ restarts \in 0 .. plan.restarts
      /\ Fits(tel)
  BY HostParts
<1>2. /\ UNCHANGED fileVars /\ UNCHANGED limiterVars /\ tel' = tel
      /\ plan' = plan /\ req' = req /\ restarts' = restarts
  BY DEF vars, hostVars
<1>3. FileInv' /\ LimiterInv' /\ call' = call /\ now' = now
  BY <1>1, <1>2, FileUnchanged, LimiterUnchanged DEF fileVars, limiterVars
<1>4. Fits(tel)'
  BY <1>1, <1>2 DEF Fits, RingFits, LatencyFits, Shown
<1>5. Counted'
  BY <1>1, <1>2 DEF Counted, Replied
<1>6. RequestsOK'
  BY <1>1, <1>2, <1>3 DEF RequestsOK
<1>. QED
  BY <1>1, <1>2, <1>3, <1>4, <1>5, <1>6, HostPartsNext

LEMMA HostStep == HostInv /\ [Next]_vars => HostInv'
BY TickHost, DieHost, ServeInv, HostUnchanged DEF Next

(* HostInv is invariant: with it, every state of the Node server has the   *)
(* parts of the types they are declared with.                              *)
THEOREM HostInvariant == Spec => []HostInv
<1>1. Init => HostInv
  BY InitHost
<1>2. HostInv /\ [Next]_vars => HostInv'
  BY HostStep
<1>. QED
  BY <1>1, <1>2, PTL DEF Spec

(* The store, the limiter, the telemetry and the requests of server.ts     *)
(* only hold what they are declared to hold.                               *)
THEOREM HostTypes == Spec => []TypeOK
<1>1. HostInv => TypeOK
  BY DEF HostInv
<1>. QED
  BY <1>1, HostInvariant, PTL

(* The operation store: a change that was acknowledged is visible to the   *)
(* methods that follow in the process, unless two first calls loaded the   *)
(* file at the same time (ensureLoaded).                                   *)
THEOREM Visible == Spec => []AcknowledgedVisible
<1>1. HostInv => AcknowledgedVisible
  BY FileSafety DEF HostInv
<1>. QED
  BY <1>1, HostInvariant, PTL

(* Every change ever acknowledged is in the file, whatever writes and      *)
(* renames fail and whenever the process dies, unless loads or flushes     *)
(* have overlapped or a file that was there could not be read (flush).     *)
THEOREM Durable == Spec => []AcknowledgedDurable
<1>1. HostInv => AcknowledgedDurable
  BY FileSafety DEF HostInv
<1>. QED
  BY <1>1, HostInvariant, PTL

(* The limiter: no window of a client admits more than its limit, and no   *)
(* stretch of a window's length more than twice that.                      *)
THEOREM WindowsBounded == Spec => []WindowBound
<1>1. HostInv => WindowBound
  BY LimiterSafety DEF HostInv
<1>. QED
  BY <1>1, HostInvariant, PTL

(* take sweeps often enough: after each request no bucket is left whose    *)
(* window started three windows before it, however the clients are mixed.  *)
THEOREM OldBucketsGo == Spec => []BucketsBounded
<1>1. HostInv => BucketsBounded
  BY LimiterSafety DEF HostInv
<1>. QED
  BY <1>1, HostInvariant, PTL

(* The telemetry: the counters are the answers of the app, and the ring of *)
(* recent events and the latencies agree with them.                        *)
THEOREM Counters == Spec => []AnswersCounted
<1>1. HostInv => AnswersCounted
  BY DEF HostInv
<1>. QED
  BY <1>1, HostInvariant, PTL

(* A flush that no other has overlapped repairs the file, on whatever step *)
(* of the server its rename happens.                                       *)
LEMMA SoloFlushStep == HostInv /\ [Next]_vars => SoloFlush
<1> SUFFICES ASSUME HostInv, [Next]_vars PROVE SoloFlush
  OBVIOUS
<1>1. FileInv /\ RequestsOK
  BY HostParts
<1>2. CASE UNCHANGED fileVars \/ Restart
  BY <1>1, <1>2, OtherwiseNoRename
<1>3. ASSUME NEW r \in Callers, CallStore(r) PROVE SoloFlush
  <2>1. PICK method \in Methods, o \in Ops : Enter(r, method, o)
    BY <1>3 DEF CallStore
  <2>2. call[r].step # "rename" /\ \E x : call' = [call EXCEPT ![r] = x]
    BY <2>1 DEF Enter
  <2>. QED
    BY <1>1, <2>2, OtherwiseNoRename
<1>4. ASSUME NEW r \in Callers, HandlerReturns(r) PROVE SoloFlush
  <2>1. call[r].step # "rename" /\ \E x : call' = [call EXCEPT ![r] = x]
    BY <1>4 DEF HandlerReturns, Leave
  <2>. QED
    BY <1>1, <2>1, OtherwiseNoRename
<1>5. ASSUME NEW r \in Callers, Store(r) PROVE SoloFlush
  BY <1>1, <1>5, StoreRepairs DEF Store
<1>6. ASSUME NEW r \in Callers, Serve(r), ~CallStore(r), ~HandlerReturns(r), ~Store(r)
      PROVE  UNCHANGED fileVars
  BY <1>6 DEF Serve, Oversized, Malformed, Forbidden, Denied, NotRouted, Served, BadCallback,
              Accepted
<1>7. Tick \/ UNCHANGED vars => UNCHANGED fileVars
  BY DEF Tick, vars
<1>8. Die => Restart
  BY DEF Die
<1>. QED
  BY <1>2, <1>3, <1>4, <1>5, <1>6, <1>7, <1>8 DEF Next

(* A flush that runs alone repairs what overlapping ones did to the file:  *)
(* after its rename all that this process acknowledged is there, if no two *)
(* loads overlapped.                                                       *)
THEOREM FlushRepairs == Spec => SoloFlushRepairs
<1>1. HostInv /\ [Next]_vars => [SoloFlush]_fileVars
  BY SoloFlushStep
<1>2. SoloFlushRepairs <=> [][SoloFlush]_fileVars
  BY DEF SoloFlushRepairs, SoloFlush
<1>. QED
  BY <1>1, <1>2, HostInvariant, PTL DEF Spec

=============================================================================
