------------------------------ MODULE NodeHost ------------------------------
(***************************************************************************)
(* The Node server: one process that owns the rate limiter, the telemetry  *)
(* and the file-backed operation store, and serves concurrent requests.    *)
(* server.ts reads the body and hands over to handleRequest of app.ts,     *)
(* which checks the origin, takes from the limiter, finds the route and    *)
(* records the answer.  What a handler does with the store is left open:   *)
(* any sequence of methods (the import service's own are those of          *)
(* ImportOperations).  The process may die at any time and is restarted    *)
(* with the files it left behind.                                          *)
(***************************************************************************)
EXTENDS OperationFile, RateLimiter, TelemetryRing

CONSTANT Traffic   \* what may arrive, and its bounds

VARIABLES
    plan,       \* the traffic of this behaviour
    req,        \* req[r]: a request and its answer
    restarts    \* how often the process was restarted (bounds Die)

hostVars == <<plan, req, restarts>>
vars == <<fileVars, limiterVars, tel, hostVars>>

Routes == {"oversized", "malformed", "forbidden", "unknown", "health",
           "callback", "store"}

ASSUME TrafficAssumption ==
    Traffic \subseteq [route: [Callers -> Routes \cup {"none"}], key: [Callers -> Keys],
                       until: Nat, restarts: Nat, parallel: Nat]

(* by: who answered, the app or the server around it. *)
RequestRecords ==
    [pc: {"idle", "handler", "done", "gone"}, since: Nat,
     status: Statuses \cup {"413", "none"}, by: {"app", "server", "none"}]

TypeOK ==
    /\ FileTypeOK /\ LimiterTypeOK /\ TelemetryTypeOK
    /\ plan \in Traffic
    /\ req \in [Callers -> RequestRecords]
    /\ restarts \in 0 .. plan.restarts

NotYet == [pc |-> "idle", since |-> 0, status |-> "none", by |-> "none"]

Init ==
    /\ FileInit /\ LimiterInit
    /\ tel = NoTelemetry
    /\ plan \in Traffic
    /\ req = [r \in Callers |-> NotYet]
    /\ restarts = 0

-----------------------------------------------------------------------------
(* Answers *)

Answer(r, status, by) ==
    req' = [req EXCEPT ![r].pc = "done", ![r].status = status, ![r].by = by]

Arrives(r, routes) == req[r].pc = "idle" /\ plan.route[r] \in routes

(* The app answers and records the request, since being when it came. *)
Reply(r, status, since, t) ==
    /\ Answer(r, status, "app")
    /\ tel' = Request(t, status, now - since)

(* server.ts refuses a body that is too large, declared or streamed. *)
Oversized(r) ==
    /\ Arrives(r, {"oversized"})
    /\ Answer(r, "413", "server")
    /\ UNCHANGED <<fileVars, limiterVars, tel, plan, restarts>>

(* A request target that is no URL: the handler's own catch. *)
Malformed(r) ==
    /\ Arrives(r, {"malformed"})
    /\ Answer(r, "500", "server")
    /\ tel' = Event(tel, ServerError)
    /\ UNCHANGED <<fileVars, limiterVars, plan, restarts>>

(* validateMcpOrigin comes before the limiter. *)
Forbidden(r) ==
    /\ Arrives(r, {"forbidden"})
    /\ Reply(r, "403", now, tel)
    /\ UNCHANGED <<fileVars, limiterVars, plan, restarts>>

Limited == {"unknown", "health", "callback", "store"}

MutantDenied(r) ==
    /\ Arrives(r, Limited) /\ ~Allowed(plan.key[r])
    /\ Take(plan.key[r])
    /\ Answer(r, "429", "app")
    /\ UNCHANGED <<fileVars, tel, plan, restarts>>
Denied(r) ==
    /\ Arrives(r, Limited) /\ ~Allowed(plan.key[r])
    /\ Take(plan.key[r])
    /\ Reply(r, "429", now, tel)
    /\ UNCHANGED <<fileVars, plan, restarts>>

NotRouted(r) ==
    /\ Arrives(r, {"unknown"}) /\ Allowed(plan.key[r])
    /\ Take(plan.key[r])
    /\ Reply(r, "404", now, tel)
    /\ UNCHANGED <<fileVars, plan, restarts>>

(* Health and metadata routes. *)
Served(r) ==
    /\ Arrives(r, {"health"}) /\ Allowed(plan.key[r])
    /\ Take(plan.key[r])
    /\ Reply(r, "200", now, tel)
    /\ UNCHANGED <<fileVars, plan, restarts>>

(* A callback whose state is the gateway's and no longer valid. *)
BadCallback(r) ==
    /\ Arrives(r, {"callback"}) /\ Allowed(plan.key[r])
    /\ Take(plan.key[r])
    /\ Reply(r, "400", now, AuthFailed(tel))
    /\ UNCHANGED <<fileVars, plan, restarts>>

Accepted(r) ==
    /\ Arrives(r, {"store"}) /\ Allowed(plan.key[r])
    /\ Cardinality({d \in Callers : req[d].pc = "handler"}) < plan.parallel
    /\ Take(plan.key[r])
    /\ req' = [req EXCEPT ![r].pc = "handler", ![r].since = now]
    /\ UNCHANGED <<fileVars, tel, plan, restarts>>

-----------------------------------------------------------------------------
(* A handler that uses the operation store *)

CallStore(r) ==
    /\ req[r].pc = "handler"
    /\ \E method \in Methods, o \in Ops : Enter(r, method, o)
    /\ UNCHANGED <<limiterVars, tel, hostVars>>

Store(r) ==
    /\ FileStep(r)
    /\ UNCHANGED <<limiterVars, tel, hostVars>>

(* A rejection is caught by the handler or ends in a 500; 200 stands for   *)
(* every answer of a handler that does not throw.                          *)
HandlerReturns(r) ==
    /\ req[r].pc = "handler"
    /\ \/ call[r].step \in {"ok", "threw"} /\ Reply(r, "200", req[r].since, tel)
       \/ call[r].step = "threw" /\ Reply(r, "500", req[r].since, tel)
    /\ Leave(r)
    /\ UNCHANGED <<limiterVars, plan, restarts>>

-----------------------------------------------------------------------------

(* Time is read when a request arrives and when it is answered. *)
Tick ==
    /\ now < StartMs + plan.until
    /\ \E r \in Callers : req[r].pc = "idle"
    /\ now' = now + 1
    /\ UNCHANGED <<fileVars, buckets, lastSweepMs, admitted, lastTakeMs, tel, hostVars>>

Die ==
    /\ restarts < plan.restarts
    /\ restarts' = restarts + 1
    /\ Restart
    /\ NewLimiter
    /\ tel' = NoTelemetry
    /\ req' = [r \in Callers |->
                 IF req[r].pc = "idle" THEN req[r] ELSE [req[r] EXCEPT !.pc = "gone"]]
    /\ UNCHANGED <<now, plan>>

Serve(r) ==
    \/ Oversized(r) \/ Malformed(r) \/ Forbidden(r)
    \/ Denied(r) \/ NotRouted(r) \/ Served(r) \/ BadCallback(r) \/ Accepted(r)
    \/ CallStore(r) \/ Store(r) \/ HandlerReturns(r)

Next == Tick \/ Die \/ \E r \in Callers : Serve(r)

Spec == Init /\ [][Next]_vars

-----------------------------------------------------------------------------
(* The counters of requests are the answers the app has given since the    *)
(* process started, each status for itself, on every path a request can    *)
(* take through the limiter, the routes and a failing handler; what the    *)
(* server answers around the app is not among them.  And what the summary  *)
(* shows beside the counters agrees with them.                             *)
AnswersCounted ==
    /\ \A s \in Statuses :
         tel.counters[s] =
             Cardinality({r \in Callers :
                 req[r].pc = "done" /\ req[r].by = "app" /\ req[r].status = s})
    /\ RecentMatchesCounters

-----------------------------------------------------------------------------
(* The inductive invariant *)

(* Answers and times of requests are set where they are used, and a method *)
(* of the store is under way for a handler only.                           *)
RequestsOK ==
    \A r \in Callers :
        /\ req[r].pc = "done" => req[r].status # "none" /\ req[r].by # "none"
        /\ req[r].since <= now
        /\ req[r].pc # "handler" => call[r] = Quiet

HostInv ==
    TypeOK /\ FileInv /\ LimiterInv /\ LatenciesOK /\ RequestsOK /\ AnswersCounted

=============================================================================
