---------------------------- MODULE BrowserLogin ----------------------------
(***************************************************************************)
(* Logging in with a browser: /auth/start hands out a signed state, and    *)
(* /auth/callback consumes it and turns the provider's code into a session *)
(* and its cookie.  A state is stateless but for the nonces one instance   *)
(* of the request handler remembers as used, until they expire.            *)
(***************************************************************************)
EXTENDS Sessions

CONSTANTS
    Logins,       \* states handed out
    NoLogin,
    Instances,    \* instances of the request handler, numbered from 1
    StateTtl,     \* 10 min
    LoginTtl      \* 6 h

ASSUME LoginAssumption ==
    /\ 1 \in Instances /\ Instances \subseteq Nat \ {0}
    /\ NoLogin \notin Logins /\ StateTtl \in Nat \ {0} /\ LoginTtl \in Nat \ {0}

VARIABLES
    states,   \* states[k]: when the state of login k expires; 0: not handed out
    used,     \* used[g]: OauthStateStore.usedNonces of instance g
    visit     \* visit[r]: the callback r, the login it carries and its instance

loginVars == <<states, used, visit>>

VisitSteps == {"idle", "consume", "discovery", "token", "exchange", "issued", "invalid", "failed"}
Visits == [step: VisitSteps, login: Logins \cup {NoLogin}, instance: Instances]

LoginTypeOK ==
    /\ states \in [Logins -> Nat]
    /\ used \in [Instances -> SUBSET Logins]
    /\ visit \in [Requests -> Visits]

LoginInit ==
    /\ states = [k \in Logins |-> 0]
    /\ used = [g \in Instances |-> {}]
    /\ visit = [r \in Requests |-> [step |-> "idle", login |-> NoLogin, instance |-> 1]]

-----------------------------------------------------------------------------
(* OauthStateStore *)

Mutantcleanup(g) == {k \in used[g] : states[k] > now}
cleanup(g) == {k \in used[g] : states[k] >= now}

create(g, k) ==
    /\ states' = [states EXCEPT ![k] = now + StateTtl]
    /\ used' = [used EXCEPT ![g] = cleanup(g)]

Consumable(g, k) == states[k] >= now /\ k \notin cleanup(g)

consume(g, k) ==
    used' = [used EXCEPT ![g] = cleanup(g) \cup (IF Consumable(g, k) THEN {k} ELSE {})]

-----------------------------------------------------------------------------
(* oauthStartResponse, with the endpoints found; it waits for nothing once *)
(* they are.                                                               *)
Start(g, k) ==
    /\ states[k] = 0
    /\ create(g, k)
    /\ UNCHANGED <<visit, sessionVars>>

(* oauthCallbackResponse.  The browser's state is first offered to the     *)
(* gateway's own authorization flow, which waits.                          *)
Visited(r, g, k) ==
    visit' = [visit EXCEPT ![r] = [step |-> "consume", login |-> k, instance |-> g]]

Goes(r, step) == visit' = [visit EXCEPT ![r].step = step]

Consumed(r) ==
    /\ visit[r].step = "consume"
    /\ LET g == visit[r].instance
           k == visit[r].login
       IN  consume(g, k) /\ Goes(r, IF Consumable(g, k) THEN "discovery" ELSE "invalid")
    /\ UNCHANGED <<states, sessionVars>>

(* Discovery and the token endpoint answer. *)
Proceeds(r) ==
    /\ \/ visit[r].step = "discovery" /\ Goes(r, "token")
       \/ visit[r].step = "token" /\ Goes(r, "exchange")
    /\ UNCHANGED <<states, used, sessionVars>>

(* Any of the three fails; the state is used up all the same. *)
CallbackFails(r) ==
    /\ visit[r].step \in {"discovery", "token", "exchange"}
    /\ Goes(r, "failed")
    /\ UNCHANGED <<states, used, sessionVars>>

Smaller(m, n) == IF m <= n THEN m ELSE n

(* The session ends with the exchanged token, but not before MinTtl nor    *)
(* after LoginTtl.                                                         *)
ttlSec(remaining) == Smaller(LoginTtl, Larger(MinTtl, remaining))

LoggedIn(r) ==
    /\ visit[r].step = "exchange"
    /\ \E remaining \in Told \cup {LoginTtl} : issue(r, ttlSec(remaining))
    /\ Goes(r, "issued")
    /\ UNCHANGED <<states, used, now, revoked, cache, look, out, told>>

LoginStep(r) == Consumed(r) \/ Proceeds(r) \/ CallbackFails(r) \/ LoggedIn(r)

-----------------------------------------------------------------------------
(* However its callbacks are repeated and interleaved with each other and  *)
(* with the end of its time, one login gives at most one session in each   *)
(* instance of the handler; in a later instance, which does not know the   *)
(* used states, it may give another.                                       *)
OneSessionPerLogin ==
    \A r1, r2 \in Requests :
        /\ visit[r1].step = "issued" /\ visit[r2].step = "issued"
        /\ visit[r1].login = visit[r2].login
        /\ visit[r1].instance = visit[r2].instance
        => r1 = r2

(* The inductive invariant: a state that was consumed is remembered until  *)
(* it has expired.                                                         *)
Past(r) == visit[r].step \in {"discovery", "token", "exchange", "issued"}

Same(r1, r2) == visit[r1].login = visit[r2].login /\ visit[r1].instance = visit[r2].instance

LoginInv ==
    /\ LoginTypeOK
    /\ \A r \in Requests :
        /\ visit[r].step # "idle" => visit[r].login \in Logins /\ states[visit[r].login] > 0
        /\ Past(r) => \/ visit[r].login \in used[visit[r].instance]
                      \/ states[visit[r].login] < now
    /\ \A r1, r2 \in Requests : Past(r1) /\ Past(r2) /\ Same(r1, r2) => r1 = r2

=============================================================================
