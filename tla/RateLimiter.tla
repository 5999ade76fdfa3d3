----------------------------- MODULE RateLimiter -----------------------------
(***************************************************************************)
(* FixedWindowRateLimiter: one bucket per scope and client identity, with  *)
(* the start of its window and a count.  A bucket of an older window is    *)
(* overwritten when its client returns and swept, at most once a window,   *)
(* when any client does.                                                   *)
(***************************************************************************)
EXTENDS Integers, Sequences, FiniteSets

CONSTANTS
    Keys,       \* scope and client identity
    Limit,      \* Limit[k]: requests per window, 10 or more in the code
    WindowMs,
    StartMs,    \* when the first process starts: long after lastSweepMs = 0
    NoBucket

Buckets == [start: Nat, count: Nat]

ASSUME LimiterAssumption ==
    /\ Limit \in [Keys -> Nat \ {0}]
    /\ WindowMs \in Nat \ {0}
    /\ StartMs \in Nat /\ StartMs >= WindowMs
    /\ NoBucket \notin Buckets

VARIABLES
    now,         \* Date.now()
    buckets, lastSweepMs,
    admitted,    \* admitted[k]: when requests of k were admitted (history)
    lastTakeMs   \* when take was last called (history)

limiterVars == <<now, buckets, lastSweepMs, admitted, lastTakeMs>>

LimiterTypeOK ==
    /\ now \in Nat /\ lastSweepMs \in Nat /\ lastTakeMs \in Nat
    /\ buckets \in [Keys -> Buckets \cup {NoBucket}]
    /\ admitted \in [Keys -> Seq(Nat)]

(* A process starts with no buckets. *)
NewLimiter ==
    /\ buckets' = [k \in Keys |-> NoBucket]
    /\ lastSweepMs' = 0
    /\ admitted' = [k \in Keys |-> <<>>]
    /\ lastTakeMs' = 0

LimiterInit ==
    /\ now = StartMs
    /\ buckets = [k \in Keys |-> NoBucket]
    /\ lastSweepMs = 0
    /\ admitted = [k \in Keys |-> <<>>]
    /\ lastTakeMs = 0

WindowStart(t) == (t \div WindowMs) * WindowMs

SweepDue == now - lastSweepMs >= WindowMs
MutantStale(b) == b.start + WindowMs * 4 < now
MutantStaleEarly(b) == b.start + WindowMs \div 2 <= now
Stale(b) == b.start + WindowMs * 2 < now
Swept == [k \in Keys |->
            IF SweepDue /\ buckets[k] # NoBucket /\ Stale(buckets[k])
            THEN NoBucket ELSE buckets[k]]

(* No bucket of the current window: the request is admitted uncounted.     *)
FirstOfWindow(k) == ~(Swept[k] # NoBucket /\ Swept[k].start = WindowStart(now))
Count(k) == IF FirstOfWindow(k) THEN 1 ELSE Swept[k].count + 1
Allowed(k) == FirstOfWindow(k) \/ Count(k) <= Limit[k]

Take(k) ==
    /\ buckets' = [Swept EXCEPT ![k] = [start |-> WindowStart(now), count |-> Count(k)]]
    /\ lastSweepMs' = IF SweepDue THEN now ELSE lastSweepMs
    /\ admitted' = [admitted EXCEPT ![k] = IF Allowed(k) THEN Append(@, now) ELSE @]
    /\ lastTakeMs' = now
    /\ UNCHANGED now

-----------------------------------------------------------------------------

AdmittedIn(k, from, to) ==
    Cardinality({i \in DOMAIN admitted[k] : from <= admitted[k][i] /\ admitted[k][i] < to})

(* Sweeps and overwritten buckets included, a client is admitted at most   *)
(* limit times in a window, and at most twice that in any stretch of time  *)
(* as long as a window.                                                    *)
WindowBound ==
    \A k \in Keys : \A i \in DOMAIN admitted[k] :
        LET t == admitted[k][i]
        IN  /\ AdmittedIn(k, WindowStart(t), WindowStart(t) + WindowMs) <= Limit[k]
            /\ AdmittedIn(k, t, t + WindowMs) <= 2 * Limit[k]

(* The map does not grow with the clients ever seen: after each request no *)
(* bucket is left whose window started three windows before it.            *)
BucketsBounded ==
    \A k \in Keys :
        buckets[k] # NoBucket => buckets[k].start + 3 * WindowMs > lastTakeMs

-----------------------------------------------------------------------------
(* The inductive invariant behind these properties *)

(* Clocks: what was recorded lies in the past. *)
LimiterPast ==
    /\ lastSweepMs <= now /\ lastTakeMs <= now
    /\ \A k \in Keys : \A i \in DOMAIN admitted[k] : admitted[k][i] <= now

(* Whoever was admitted in the current window has its bucket; a bucket     *)
(* counts at least the admissions of its window, and its window had begun. *)
BucketsCount ==
    \A k \in Keys :
        /\ \A i \in DOMAIN admitted[k] : admitted[k][i] >= WindowStart(now) =>
             buckets[k] # NoBucket /\ buckets[k].start = WindowStart(now)
        /\ buckets[k] # NoBucket =>
             AdmittedIn(k, buckets[k].start, buckets[k].start + WindowMs) <= buckets[k].count

(* No window, past or present, admits more than the limit. *)
EachWindowBound ==
    \A k \in Keys : \A q \in 0 .. now :
        AdmittedIn(k, q * WindowMs, q * WindowMs + WindowMs) <= Limit[k]

(* A bucket outlives the last sweep only if it was not stale then, and     *)
(* the last sweep is less than a window before the last request.           *)
SweptInTime ==
    /\ lastTakeMs - lastSweepMs < WindowMs
    /\ \A k \in Keys :
         buckets[k] # NoBucket => buckets[k].start + 2 * WindowMs >= lastSweepMs

LimiterInv ==
    LimiterTypeOK /\ LimiterPast /\ BucketsCount /\ EachWindowBound /\ SweptInTime

=============================================================================
