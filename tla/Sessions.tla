------------------------------ MODULE Sessions ------------------------------
(***************************************************************************)
(* The sessions of the gateway.  A session is a sealed token that its      *)
(* bearer keeps: the gateway remembers only which were revoked, in KV, and *)
(* for how long.  A bearer token of the identity provider is exchanged for *)
(* a session of its own, which one isolate caches.  resolveRequestSession  *)
(* tries the cookie, then the bearer token as a sealed one, then as a      *)
(* provider's; between the check of a token and the answer of KV or of the *)
(* exchange other requests run and time passes.                            *)
(***************************************************************************)
EXTENDS Integers, FiniteSets

CONSTANTS
    Requests,     \* a sealed token is named by the request that issued it
    Raw,          \* bearer tokens of the identity provider
    Nobody,       \* no token, no session
    MinTtl,       \* a record of a revocation lives at least this long: 60 s
    Margin,       \* a cached session this close to its end is not used: 5 s
    ExchangeTtl,  \* lifetime of an exchanged token that tells none: 1 h
    Told          \* lifetimes an exchange may tell

ASSUME SessionsAssumption ==
    /\ Nobody \notin Requests \cup Raw /\ Requests \cap Raw = {}
    /\ MinTtl \in Nat \ {0} /\ Margin \in Nat \ {0} /\ ExchangeTtl \in Nat \ {0}
    /\ Told \subseteq Nat

VARIABLES
    now,       \* Date.now(), from 1
    issued,    \* issued[s]: when the sealed session s expires; 0: never issued
    revoked,   \* revoked[s]: until when KV holds its record; 0: no record
    cache,     \* cache[b]: when the cached session of b expires; 0: none
    look,      \* look[r]: how far r is in resolving its session
    out,       \* the sessions whose revocation was answered (history)
    told       \* told[b]: the latest end an exchange of b gave (history)

sessionVars == <<now, issued, revoked, cache, look, out, told>>

Sealed == Requests
Tokens == {Nobody} \cup Requests \cup Raw

Steps == {"idle", "cookie", "bearer", "cached", "exchange", "fresh", "found", "absent", "threw"}

(* end: when the session of a provider's token expires.  asked: whether    *)
(* this request exchanged it; since and gone: the time and the revoked     *)
(* sessions when the resolution began; till: when it ended (history).      *)
Looks == [step: Steps, cookie: Tokens, bearer: Tokens, sess: Tokens, end: Nat,
          asked: BOOLEAN, since: Nat, gone: SUBSET Requests, till: Nat]

NotLooking == [step |-> "idle", cookie |-> Nobody, bearer |-> Nobody, sess |-> Nobody,
               end |-> 0, asked |-> FALSE, since |-> 0, gone |-> {}, till |-> 0]

SessionsTypeOK ==
    /\ now \in Nat \ {0}
    /\ issued \in [Sealed -> Nat] /\ revoked \in [Sealed -> Nat]
    /\ cache \in [Raw -> Nat] /\ told \in [Raw -> Nat]
    /\ look \in [Requests -> Looks]
    /\ out \subseteq Sealed

SessionsInit ==
    /\ now = 1
    /\ issued = [s \in Sealed |-> 0] /\ revoked = [s \in Sealed |-> 0]
    /\ cache = [b \in Raw |-> 0] /\ told = [b \in Raw |-> 0]
    /\ look = [r \in Requests |-> NotLooking]
    /\ out = {}

-----------------------------------------------------------------------------
(* SessionStore *)

issue(r, ttlSec) == issued' = [issued EXCEPT ![r] = now + ttlSec]

getBySigned(s) == s \in Sealed /\ issued[s] >= now

(* SessionRevocationStore: a record is gone when its time is up. *)
isRevoked(s) == s \in Sealed /\ now < revoked[s]

Larger(m, n) == IF m >= n THEN m ELSE n

MutantttlSeconds(s) == MinTtl
ttlSeconds(s) == Larger(issued[s] - now, MinTtl)

(* put, answered. *)
Revoke(s, ttl) ==
    /\ revoked' = [revoked EXCEPT ![s] = now + ttl]
    /\ out' = out \cup {s}

-----------------------------------------------------------------------------
(* resolveRequestSession *)

HitIsLive(b) == cache[b] > now + Margin

(* After the cookie: a sealed bearer, which is not exchanged, or another.  *)
AskBearer(l) ==
    IF getBySigned(l.bearer)    THEN [l EXCEPT !.step = "bearer"]
    ELSE IF l.bearer \notin Raw THEN [l EXCEPT !.step = "absent"]
    ELSE IF HitIsLive(l.bearer) THEN [l EXCEPT !.step = "cached", !.end = cache[l.bearer]]
    ELSE [l EXCEPT !.step = "exchange"]

Resolve(r, cookie, bearer) ==
    LET l == [NotLooking EXCEPT !.cookie = cookie, !.bearer = bearer,
                                !.since = now, !.gone = out]
    IN  look' = [look EXCEPT ![r] =
                   IF getBySigned(cookie) THEN [l EXCEPT !.step = "cookie"] ELSE AskBearer(l)]

Found(l, s) == [l EXCEPT !.step = "found", !.sess = s, !.till = now]

CookieAnswered(r) ==
    /\ look[r].step = "cookie"
    /\ LET l == look[r]
       IN  look' = [look EXCEPT ![r] =
                      IF isRevoked(l.cookie) THEN AskBearer(l) ELSE Found(l, l.cookie)]
    /\ UNCHANGED <<now, issued, revoked, cache, out, told>>

(* A sealed bearer that is revoked is not exchanged either. *)
BearerAnswered(r) ==
    /\ look[r].step = "bearer"
    /\ LET l == look[r]
       IN  look' = [look EXCEPT ![r] =
                      IF isRevoked(l.bearer) THEN [l EXCEPT !.step = "absent"]
                      ELSE Found(l, l.bearer)]
    /\ UNCHANGED <<now, issued, revoked, cache, out, told>>

(* Nothing revokes the session of a provider's token. *)
CacheAnswered(r) ==
    /\ look[r].step = "cached"
    /\ look' = [look EXCEPT ![r] = Found(@, @.bearer)]
    /\ UNCHANGED <<now, issued, revoked, cache, out, told>>

Exchanged(r) ==
    /\ look[r].step = "exchange"
    /\ \E ttl \in Told \cup {ExchangeTtl} :
          /\ look' = [look EXCEPT ![r].step = "fresh", ![r].end = now + ttl, ![r].asked = TRUE]
          /\ told' = [told EXCEPT ![look[r].bearer] = Larger(@, now + ttl)]
    /\ UNCHANGED <<now, issued, revoked, cache, out>>

NotExchanged(r) ==
    /\ look[r].step = "exchange"
    /\ look' = [look EXCEPT ![r].step = "absent"]
    /\ UNCHANGED <<now, issued, revoked, cache, out, told>>

FreshAnswered(r) ==
    /\ look[r].step = "fresh"
    /\ cache' = [cache EXCEPT ![look[r].bearer] = look[r].end]
    /\ look' = [look EXCEPT ![r] = Found(@, @.bearer)]
    /\ UNCHANGED <<now, issued, revoked, out, told>>

(* KV rejects. *)
LookupFails(r) ==
    /\ look[r].step \in {"cookie", "bearer", "cached", "fresh"}
    /\ look' = [look EXCEPT ![r].step = "threw"]
    /\ UNCHANGED <<now, issued, revoked, cache, out, told>>

ResolveStep(r) ==
    \/ CookieAnswered(r) \/ BearerAnswered(r) \/ CacheAnswered(r)
    \/ Exchanged(r) \/ NotExchanged(r) \/ FreshAnswered(r) \/ LookupFails(r)

-----------------------------------------------------------------------------
LetIn(l) ==
    \/ /\ l.sess \in Sealed
       /\ l.since <= issued[l.sess]
       /\ l.sess \in l.gone => l.till >= issued[l.sess]
    \/ /\ l.sess \in Raw
       /\ l.since < told[l.sess] \/ l.asked

(* A request is let in only with a session that had not expired when its   *)
(* resolution began and was not revoked, as far as a caller could have     *)
(* been told: no logout or revocation answered before then is forgotten    *)
(* while the session could still be used, unless KV takes so long to       *)
(* answer that the session is over by then.  With a provider's token it is *)
(* let in only if this request exchanged it, or before the end that an     *)
(* exchange has given.                                                     *)
OnlyLiveCredentials ==
    \A r \in Requests : look[r].step = "found" => LetIn(look[r])

(* The inductive invariant: what a resolution has checked so far. *)
Unexpired(l, s) == s \in Sealed /\ l.since <= issued[s]

LookSound(l) ==
    /\ l.since <= now /\ l.gone \subseteq out
    /\ l.step # "idle" => l.since > 0
    /\ l.step = "cookie" => Unexpired(l, l.cookie)
    /\ l.step = "bearer" => Unexpired(l, l.bearer)
    /\ l.step \in {"cached", "exchange", "fresh"} => l.bearer \in Raw
    /\ l.step = "cached" => l.since < told[l.bearer]
    /\ l.step = "fresh" => l.asked /\ l.end <= told[l.bearer]
    /\ l.step = "found" => LetIn(l)

(* A cached session ends no later than an exchange told, and the record of *)
(* an answered revocation no earlier than its session.                     *)
SessionsInv ==
    /\ SessionsTypeOK
    /\ \A r \in Requests : LookSound(look[r])
    /\ \A b \in Raw : cache[b] <= told[b]
    /\ \A s \in out : issued[s] > 0 /\ issued[s] <= revoked[s]

=============================================================================
