---------------------------- MODULE TelemetryRing ----------------------------
(***************************************************************************)
(* Telemetry of one process: counters that only grow, the latencies of     *)
(* requests with a bounded window of values, and a bounded ring of recent  *)
(* events.  Tags, texts and the analytics sink are left out.  A recording  *)
(* method is a function from one state of the telemetry to the next.       *)
(***************************************************************************)
EXTENDS Integers, Sequences, FiniteSets

CONSTANTS
    RecentEventLimit,        \* 200 in the code
    DistributionValueLimit   \* 500 in the code

ASSUME TelemetryAssumption ==
    RecentEventLimit \in Nat \ {0} /\ DistributionValueLimit \in Nat \ {0}

VARIABLE tel

(* http_requests_total by status, and auth_failure_total; each counted     *)
(* thing is an event too, and a server error is only an event.             *)
Statuses    == {"200", "400", "403", "404", "429", "500"}
AuthFailure == "auth.audit.failure"
ServerError == "server.error"
Metrics     == Statuses \cup {AuthFailure}
Categories  == Metrics \cup {ServerError}

Latencies ==
    [count: Nat, sum: Nat, min: Nat, max: Nat, values: Seq(Nat)]

TelemetryTypeOK ==
    tel \in [counters: [Metrics -> Nat], ring: Seq(Categories), total: Nat,
             latency: Latencies]

NoTelemetry ==
    [counters |-> [m \in Metrics |-> 0],
     ring |-> <<>>,
     total |-> 0,     \* events ever recorded (history)
     latency |-> [count |-> 0, sum |-> 0, min |-> 0, max |-> 0, values |-> <<>>]]

LastOf(s, n) == SubSeq(s, IF Len(s) > n THEN Len(s) - n + 1 ELSE 1, Len(s))

Counter(t, metric) == [t EXCEPT !.counters[metric] = @ + 1]

Event(t, category) ==
    [t EXCEPT !.ring = LastOf(Append(@, category), RecentEventLimit),
              !.total = @ + 1]

Distribution(t, ms) ==
    LET l == t.latency
    IN  [t EXCEPT !.latency =
           [count  |-> l.count + 1,
            sum    |-> l.sum + ms,
            min    |-> IF l.count = 0 \/ ms < l.min THEN ms ELSE l.min,
            max    |-> IF l.count = 0 \/ ms > l.max THEN ms ELSE l.max,
            values |-> LastOf(Append(l.values, ms), DistributionValueLimit)]]

Request(t, status, ms) == Event(Distribution(Counter(t, status), ms), status)

AuthFailed(t) == Event(Counter(t, AuthFailure), AuthFailure)

-----------------------------------------------------------------------------

(* What the summary shows fits together: the ring holds the last events    *)
(* there were, no kind more often than its counter says, all of them until *)
(* the ring is full; each request has one latency, and the values that the *)
(* percentile is taken from lie between the minimum and the maximum.       *)
RecentMatchesCounters ==
    /\ Len(tel.ring) = IF tel.total < RecentEventLimit THEN tel.total ELSE RecentEventLimit
    /\ \A m \in Metrics :
         LET shown == Cardinality({i \in DOMAIN tel.ring : tel.ring[i] = m})
         IN  /\ shown <= tel.counters[m]
             /\ tel.total <= RecentEventLimit => shown = tel.counters[m]
    /\ \A i \in DOMAIN tel.latency.values :
         /\ tel.latency.min <= tel.latency.values[i]
         /\ tel.latency.values[i] <= tel.latency.max

(* Before the first request there are no latencies. *)
LatenciesOK == tel.latency.count = 0 => tel.latency.values = <<>>

=============================================================================
