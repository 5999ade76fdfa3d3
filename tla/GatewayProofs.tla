--------------------------- MODULE GatewayProofs ----------------------------
(***************************************************************************)
(* Proofs about Gateway, for every set of requests, tokens, logins and     *)
(* plans, every limit and lifetime, and every chain of requests a tool may *)
(* make: sessions first, then logins, what tools write, and the answers.   *)
(***************************************************************************)
EXTENDS Gateway, FiniteSetTheorems, SequenceTheorems, TLAPS

-----------------------------------------------------------------------------
(* Sessions *)

LEMMA LargerFacts ==
    ASSUME NEW m \in Int, NEW n \in Int
    PROVE  Larger(m, n) \in {m, n} /\ Larger(m, n) >= m /\ Larger(m, n) >= n
BY DEF Larger

(* Time passes, issued sessions stay as issued, and what was told stands:  *)
(* what a resolution has checked remains so.                               *)
Later ==
    /\ now' >= now /\ now' \in Nat \ {0}
    /\ issued' \in [Sealed -> Nat]
    /\ \A s \in Sealed : issued[s] > 0 => issued'[s] = issued[s]
    /\ out \subseteq out'
    /\ told' \in [Raw -> Nat] /\ \A b \in Raw : told'[b] >= told[b]

LEMMA SoundKept ==
    ASSUME SessionsTypeOK, Later, NEW l \in Looks, LookSound(l)
    PROVE  LookSound(l)'
<1>1. /\ l.since \in Nat /\ l.end \in Nat /\ l.till \in Nat
      /\ now \in Nat /\ now' \in Nat
      /\ \A s \in Sealed : issued[s] \in Nat /\ issued'[s] \in Nat
      /\ \A b \in Raw : told[b] \in Nat /\ told'[b] \in Nat
  BY DEF Looks, SessionsTypeOK, Later
<1>2. \A s : l.since > 0 /\ Unexpired(l, s) => Unexpired(l, s)'
  BY <1>1 DEF Unexpired, Later
<1>3. l.since > 0 /\ LetIn(l) => LetIn(l)'
  BY <1>1 DEF LetIn, Later
<1>. QED
  BY <1>1, <1>2, <1>3 DEF LookSound, Later

(* The part of the invariant that is not about resolutions. *)
RecordsSound ==
    /\ \A b \in Raw : cache[b] <= told[b]
    /\ \A s \in out : issued[s] > 0 /\ issued[s] <= revoked[s]

(* Only the resolution of r changes. *)
LEMMA OneLooks ==
    ASSUME SessionsInv, Later, NEW r \in Requests, NEW l \in Looks,
           look' = [look EXCEPT ![r] = l], LookSound(l)',
           cache' \in [Raw -> Nat], revoked' \in [Sealed -> Nat], out' \subseteq Sealed,
           RecordsSound'
    PROVE  SessionsInv'
<1>1. SessionsTypeOK
  BY DEF SessionsInv
<1>2. SessionsTypeOK'
  BY <1>1 DEF SessionsTypeOK, Later
<1>3. ASSUME NEW s \in Requests PROVE LookSound(look[s])'
  <2>1. CASE s = r
    <3>1. look'[s] = l
      BY <1>1, <2>1 DEF SessionsTypeOK
    <3>. QED
      BY <3>1 DEF LookSound, Unexpired, LetIn
  <2>2. CASE s # r
    <3>1. look'[s] = look[s] /\ look[s] \in Looks /\ LookSound(look[s])
      BY <1>1, <2>2 DEF SessionsTypeOK, SessionsInv
    <3>2. LookSound(look[s])'
      <4> DEFINE m == look[s]
      <4>1. m \in Looks /\ LookSound(m)
        BY <3>1
      <4>. QED
        BY <1>1, <3>1, <4>1, SoundKept DEF LookSound, Unexpired, LetIn
    <3>. QED
      BY <3>1, <3>2
  <2>. QED
    BY <2>1, <2>2
<1>. QED
  BY <1>2, <1>3 DEF SessionsInv, RecordsSound

LEMMA LaterSame ==
    ASSUME SessionsTypeOK, UNCHANGED <<now, issued, out, told>>
    PROVE  Later
BY DEF SessionsTypeOK, Later

(* After the cookie. *)
LEMMA AskSound ==
    ASSUME SessionsInv, NEW l \in Looks, l.since > 0, l.since <= now, l.gone \subseteq out
    PROVE  AskBearer(l) \in Looks /\ LookSound(AskBearer(l))
<1> DEFINE bearer == [l EXCEPT !.step = "bearer"]
           absent == [l EXCEPT !.step = "absent"]
           cached == [l EXCEPT !.step = "cached", !.end = cache[l.bearer]]
           asks   == [l EXCEPT !.step = "exchange"]
<1>1. SessionsTypeOK /\ \A b \in Raw : cache[b] <= told[b]
  BY DEF SessionsInv
<1>2. /\ l.bearer \in Tokens /\ l.since \in Nat
      /\ now \in Nat /\ \A s \in Sealed : issued[s] \in Nat
      /\ \A b \in Raw : cache[b] \in Nat /\ told[b] \in Nat
  BY <1>1 DEF Looks, SessionsTypeOK
<1>3. bearer \in Looks /\ absent \in Looks /\ asks \in Looks
  BY DEF Looks, Steps
<1>4. absent.step = "absent" /\ LookSound(absent)
  BY DEF Looks, LookSound
<1>. HIDE DEF bearer, absent, cached, asks
<1>5. CASE getBySigned(l.bearer)
  <2>1. l.bearer \in Sealed /\ l.since <= issued[l.bearer]
    BY <1>2, <1>5 DEF getBySigned
  <2>2. LookSound(bearer)
    BY <2>1 DEF Looks, LookSound, Unexpired, bearer
  <2>3. AskBearer(l) = bearer
    BY <1>5 DEF AskBearer, bearer
  <2>. QED
    BY <1>3, <2>2, <2>3
<1>6. CASE ~getBySigned(l.bearer) /\ l.bearer \notin Raw
  <2>1. AskBearer(l) = absent
    BY <1>6 DEF AskBearer, absent
  <2>. QED
    BY <1>3, <1>4, <2>1
<1>7. CASE ~getBySigned(l.bearer) /\ l.bearer \in Raw /\ HitIsLive(l.bearer)
  <2>1. cached \in Looks
    BY <1>2, <1>7 DEF Looks, Steps, cached
  <2>2. l.since < told[l.bearer]
    BY <1>1, <1>2, <1>7, SessionsAssumption DEF HitIsLive
  <2>3. LookSound(cached)
    BY <1>7, <2>2 DEF Looks, LookSound, cached
  <2>4. AskBearer(l) = cached
    BY <1>7 DEF AskBearer, cached
  <2>. QED
    BY <2>1, <2>3, <2>4
<1>8. CASE ~getBySigned(l.bearer) /\ l.bearer \in Raw /\ ~HitIsLive(l.bearer)
  <2>1. LookSound(asks)
    BY <1>8 DEF Looks, LookSound, asks
  <2>2. AskBearer(l) = asks
    BY <1>8 DEF AskBearer, asks
  <2>. QED
    BY <1>3, <2>1, <2>2
<1>. QED
  BY <1>5, <1>6, <1>7, <1>8

LEMMA NotLookingType == NotLooking \in Looks
BY DEF NotLooking, Looks, Steps, Tokens

(* Nothing else changes. *)
LEMMA OnlyLooks ==
    ASSUME SessionsInv, NEW r \in Requests, NEW l \in Looks, LookSound(l),
           look' = [look EXCEPT ![r] = l], UNCHANGED <<now, issued, revoked, cache, out, told>>
    PROVE  SessionsInv'
<1>1. LookSound(l)' /\ RecordsSound'
  BY DEF LookSound, Unexpired, LetIn, RecordsSound, SessionsInv
<1>. QED
  BY <1>1, LaterSame, OneLooks DEF SessionsInv, SessionsTypeOK

(* resolveRequestSession is called. *)
LEMMA ResolveSound ==
    ASSUME SessionsInv, NEW r \in Requests, NEW cookie \in Tokens, NEW bearer \in Tokens,
           Resolve(r, cookie, bearer), UNCHANGED <<now, issued, revoked, cache, out, told>>
    PROVE  SessionsInv'
<1> DEFINE l == [NotLooking EXCEPT !.cookie = cookie, !.bearer = bearer,
                                   !.since = now, !.gone = out]
           m == [l EXCEPT !.step = "cookie"]
           n == IF getBySigned(cookie) THEN m ELSE AskBearer(l)
<1>1. SessionsTypeOK
  BY DEF SessionsInv
<1>2. now \in Nat /\ now > 0 /\ \A s \in Sealed : issued[s] \in Nat
  BY <1>1 DEF SessionsTypeOK
<1>3. /\ l \in Looks /\ l.since = now /\ l.gone = out
      /\ m \in Looks /\ m.step = "cookie" /\ m.cookie = cookie
      /\ m.since = now /\ m.gone = out
  <2>1. out \subseteq Requests
    BY <1>1 DEF SessionsTypeOK, Sealed
  <2>. QED
    BY <1>2, <2>1, NotLookingType DEF Looks, NotLooking, Steps
<1>4. n \in Looks /\ LookSound(n)
  <2>. HIDE DEF l, m
  <2>1. CASE getBySigned(cookie)
    <3>1. Unexpired(m, cookie)
      BY <1>2, <1>3, <2>1 DEF getBySigned, Unexpired
    <3>. QED
      BY <1>2, <1>3, <2>1, <3>1 DEF LookSound
  <2>2. CASE ~getBySigned(cookie)
    BY <1>2, <1>3, <2>2, AskSound
  <2>. QED
    BY <2>1, <2>2
<1>5. look' = [look EXCEPT ![r] = n]
  BY DEF Resolve
<1>. HIDE DEF n
<1>6. PICK w \in Looks : w = n
  BY <1>4
<1>. QED
  BY <1>4, <1>5, <1>6, OnlyLooks

(* KV answers. *)
LEMMA FoundSealed ==
    ASSUME SessionsInv, NEW l \in Looks, LookSound(l), l.since > 0, NEW s,
           Unexpired(l, s), ~isRevoked(s)
    PROVE  Found(l, s) \in Looks /\ LookSound(Found(l, s))
<1>1. SessionsTypeOK /\ \A t \in out : issued[t] > 0 /\ issued[t] <= revoked[t]
  BY DEF SessionsInv
<1>2. /\ s \in Sealed /\ s \in Tokens /\ l.since <= issued[s]
      /\ now \in Nat /\ issued[s] \in Nat /\ revoked[s] \in Nat /\ now >= revoked[s]
      /\ l.gone \subseteq out /\ l.since <= now
  BY <1>1 DEF SessionsTypeOK, Unexpired, isRevoked, LookSound, Tokens, Sealed
<1>3. /\ Found(l, s) \in Looks
      /\ Found(l, s).step = "found" /\ Found(l, s).sess = s /\ Found(l, s).till = now
      /\ Found(l, s).since = l.since /\ Found(l, s).gone = l.gone
  BY <1>2 DEF Found, Looks, Steps
<1>4. s \in l.gone => now >= issued[s]
  BY <1>1, <1>2
<1>. QED
  BY <1>2, <1>3, <1>4 DEF LookSound, LetIn

LEMMA FoundRaw ==
    ASSUME SessionsInv, NEW l \in Looks, LookSound(l), l.since > 0,
           l.bearer \in Raw, l.since < told[l.bearer] \/ l.asked
    PROVE  Found(l, l.bearer) \in Looks /\ LookSound(Found(l, l.bearer))
<1>1. now \in Nat
  BY DEF SessionsInv, SessionsTypeOK
<1>. QED
  BY <1>1 DEF Found, Looks, Steps, Tokens, LookSound, LetIn

LEMMA GivenUp ==
    ASSUME NEW l \in Looks, l.since > 0, l.since <= now, l.gone \subseteq out,
           NEW s \in {"absent", "threw"}
    PROVE  [l EXCEPT !.step = s] \in Looks /\ LookSound([l EXCEPT !.step = s])
<1> DEFINE m == [l EXCEPT !.step = s]
<1>1. m \in Looks
  BY DEF Looks, Steps
<1>2. m.step = s /\ m.since = l.since /\ m.gone = l.gone
  BY DEF Looks
<1>. HIDE DEF m
<1>3. LookSound(m)
  BY <1>2 DEF LookSound
<1>. QED
  BY <1>1, <1>3 DEF m

LEMMA ResolveStepSound ==
    ASSUME SessionsInv, NEW r \in Requests, ResolveStep(r)
    PROVE  SessionsInv' /\ Later
<1> DEFINE l == look[r]
<1>1. SessionsTypeOK /\ l \in Looks /\ LookSound(l)
  BY DEF SessionsInv, SessionsTypeOK
<1>2. ASSUME NEW m \in Looks, LookSound(m), look' = [look EXCEPT ![r] = m],
             UNCHANGED <<now, issued, revoked, cache, out, told>>
      PROVE  SessionsInv' /\ Later
  BY <1>1, <1>2, OnlyLooks, LaterSame
<1>3. l.step # "idle" => l.since > 0 /\ l.since <= now /\ l.gone \subseteq out
  BY <1>1 DEF LookSound
<1>. HIDE DEF l
<1>4. CASE CookieAnswered(r)
  <2>1. /\ l.step = "cookie" /\ Unexpired(l, l.cookie)
        /\ look' = [look EXCEPT ![r] = IF isRevoked(l.cookie) THEN AskBearer(l)
                                       ELSE Found(l, l.cookie)]
    BY <1>1, <1>4 DEF CookieAnswered, LookSound, l
  <2>2. CASE isRevoked(l.cookie)
    <3>1. PICK m \in Looks : m = AskBearer(l) /\ LookSound(m)
      BY <1>1, <1>3, <2>1, AskSound
    <3>. QED
      BY <1>2, <1>4, <2>1, <2>2, <3>1 DEF CookieAnswered
  <2>3. CASE ~isRevoked(l.cookie)
    <3>1. PICK m \in Looks : m = Found(l, l.cookie) /\ LookSound(m)
      BY <1>1, <1>3, <2>1, <2>3, FoundSealed
    <3>. QED
      BY <1>2, <1>4, <2>1, <2>3, <3>1 DEF CookieAnswered
  <2>. QED
    BY <2>2, <2>3
<1>5. CASE BearerAnswered(r)
  <2>1. /\ l.step = "bearer" /\ Unexpired(l, l.bearer)
        /\ look' = [look EXCEPT ![r] = IF isRevoked(l.bearer) THEN [l EXCEPT !.step = "absent"]
                                       ELSE Found(l, l.bearer)]
    BY <1>1, <1>5 DEF BearerAnswered, LookSound, l
  <2>2. CASE isRevoked(l.bearer)
    <3>1. PICK m \in Looks : m = [l EXCEPT !.step = "absent"] /\ LookSound(m)
      BY <1>1, <1>3, <2>1, GivenUp
    <3>. QED
      BY <1>2, <1>5, <2>1, <2>2, <3>1 DEF BearerAnswered
  <2>3. CASE ~isRevoked(l.bearer)
    <3>1. PICK m \in Looks : m = Found(l, l.bearer) /\ LookSound(m)
      BY <1>1, <1>3, <2>1, <2>3, FoundSealed
    <3>. QED
      BY <1>2, <1>5, <2>1, <2>3, <3>1 DEF BearerAnswered
  <2>. QED
    BY <2>2, <2>3
<1>6. CASE CacheAnswered(r)
  <2>1. /\ l.step = "cached" /\ l.bearer \in Raw /\ l.since < told[l.bearer]
        /\ look' = [look EXCEPT ![r] = Found(l, l.bearer)]
    BY <1>1, <1>6 DEF CacheAnswered, LookSound, l
  <2>2. PICK m \in Looks : m = Found(l, l.bearer) /\ LookSound(m)
    BY <1>1, <1>3, <2>1, FoundRaw
  <2>. QED
    BY <1>2, <1>6, <2>1, <2>2 DEF CacheAnswered
<1>7. CASE Exchanged(r)
  <2>1. PICK ttl \in Told \cup {ExchangeTtl} :
          /\ look' = [look EXCEPT ![r] = [l EXCEPT !.step = "fresh", !.end = now + ttl,
                                                    !.asked = TRUE]]
          /\ told' = [told EXCEPT ![l.bearer] = Larger(@, now + ttl)]
    BY <1>1, <1>7 DEF Exchanged, SessionsTypeOK, l
  <2>2. /\ l.step = "exchange" /\ l.bearer \in Raw
        /\ now \in Nat \ {0} /\ ttl \in Nat /\ \A b \in Raw : told[b] \in Nat
    BY <1>1, <1>7, SessionsAssumption DEF Exchanged, LookSound, SessionsTypeOK, l
  <2>3. /\ told'[l.bearer] \in {told[l.bearer], now + ttl}
        /\ told'[l.bearer] >= now + ttl /\ told'[l.bearer] >= told[l.bearer]
    <3>1. told'[l.bearer] = Larger(told[l.bearer], now + ttl)
      BY <1>1, <2>1, <2>2 DEF SessionsTypeOK
    <3>. QED
      BY <2>2, <3>1, LargerFacts
  <2>4. told' \in [Raw -> Nat] /\ \A b \in Raw : told'[b] >= told[b]
    <3>1. ASSUME NEW b \in Raw PROVE told'[b] \in Nat /\ told'[b] >= told[b]
      <4>1. b # l.bearer => told'[b] = told[b]
        BY <1>1, <2>1 DEF SessionsTypeOK
      <4>. QED
        BY <2>2, <2>3, <4>1
    <3>2. told' = [b \in Raw |-> told'[b]]
      BY <1>1, <2>1 DEF SessionsTypeOK
    <3>. QED
      BY <3>1, <3>2
  <2>5. Later
    BY <1>1, <1>7, <2>4 DEF Exchanged, Later, SessionsTypeOK
  <2>6. PICK m \in Looks : m = [l EXCEPT !.step = "fresh", !.end = now + ttl, !.asked = TRUE]
    <3>1. PICK e \in Nat : e = now + ttl
      BY <2>2
    <3>2. [l EXCEPT !.step = "fresh", !.end = e, !.asked = TRUE] \in Looks
      BY <1>1 DEF Looks, Steps
    <3>. QED
      BY <3>1, <3>2
  <2>7. LookSound(m)'
    <3>1. /\ m.step = "fresh" /\ m.bearer = l.bearer /\ m.end = now + ttl /\ m.asked
          /\ m.since = l.since /\ m.gone = l.gone
      BY <1>1, <2>6 DEF Looks
    <3>2. now' = now /\ out' = out
      BY <1>7 DEF Exchanged
    <3>. QED
      BY <1>3, <2>2, <2>3, <3>1, <3>2 DEF LookSound
  <2>8. RecordsSound'
    <3>1. /\ \A b \in Raw : cache[b] <= told[b] /\ cache[b] \in Nat /\ told[b] \in Nat
          /\ \A b \in Raw : told'[b] \in Nat /\ told'[b] >= told[b]
          /\ UNCHANGED <<cache, out, issued, revoked>>
      BY <1>1, <1>7, <2>4 DEF Exchanged, SessionsInv, SessionsTypeOK
    <3>2. \A b \in Raw : cache'[b] <= told'[b]
      BY <3>1
    <3>. QED
      BY <3>1, <3>2 DEF RecordsSound, SessionsInv
  <2>. QED
    BY <1>1, <1>7, <2>1, <2>5, <2>6, <2>7, <2>8, OneLooks DEF Exchanged, SessionsTypeOK
<1>8. CASE NotExchanged(r)
  <2>1. look' = [look EXCEPT ![r] = [l EXCEPT !.step = "absent"]] /\ l.step = "exchange"
    BY <1>1, <1>8 DEF NotExchanged, SessionsTypeOK, l
  <2>2. PICK m \in Looks : m = [l EXCEPT !.step = "absent"] /\ LookSound(m)
    BY <1>1, <1>3, <2>1, GivenUp
  <2>. QED
    BY <1>2, <1>8, <2>1, <2>2 DEF NotExchanged
<1>9. CASE FreshAnswered(r)
  <2>1. /\ l.step = "fresh" /\ l.bearer \in Raw /\ l.asked /\ l.end <= told[l.bearer]
        /\ look' = [look EXCEPT ![r] = Found(l, l.bearer)]
        /\ cache' = [cache EXCEPT ![l.bearer] = l.end]
    BY <1>1, <1>9 DEF FreshAnswered, LookSound, l
  <2>2. PICK m \in Looks : m = Found(l, l.bearer) /\ LookSound(m)
    BY <1>1, <1>3, <2>1, FoundRaw
  <2>3. LookSound(m)'
    BY <1>9, <2>2 DEF FreshAnswered, LookSound, Unexpired, LetIn
  <2>4. cache' \in [Raw -> Nat] /\ \A b \in Raw : cache'[b] <= told[b]
    BY <1>1, <2>1 DEF Looks, SessionsInv, SessionsTypeOK
  <2>5. RecordsSound'
    BY <1>9, <2>4 DEF FreshAnswered, RecordsSound, SessionsInv
  <2>. QED
    BY <1>1, <1>9, <2>1, <2>2, <2>3, <2>4, <2>5, LaterSame, OneLooks
    DEF FreshAnswered, SessionsTypeOK
<1>10. CASE LookupFails(r)
  <2>1. look' = [look EXCEPT ![r] = [l EXCEPT !.step = "threw"]] /\ l.step # "idle"
    BY <1>1, <1>10 DEF LookupFails, SessionsTypeOK, l
  <2>2. PICK m \in Looks : m = [l EXCEPT !.step = "threw"] /\ LookSound(m)
    BY <1>1, <1>3, <2>1, GivenUp
  <2>. QED
    BY <1>2, <1>10, <2>1, <2>2 DEF LookupFails
<1>. QED
  BY <1>4, <1>5, <1>6, <1>7, <1>8, <1>9, <1>10 DEF ResolveStep

(* No resolution moves. *)
LEMMA LooksStay ==
    ASSUME SessionsInv, Later, look' = look, cache' \in [Raw -> Nat],
           revoked' \in [Sealed -> Nat], out' \subseteq Sealed, RecordsSound'
    PROVE  SessionsInv'
<1>1. SessionsTypeOK /\ SessionsTypeOK'
  BY DEF SessionsInv, SessionsTypeOK, Later
<1>2. ASSUME NEW s \in Requests PROVE LookSound(look[s])'
  <2>1. PICK m \in Looks : m = look[s] /\ LookSound(m)
    BY <1>1 DEF SessionsTypeOK, SessionsInv
  <2>2. LookSound(m)' /\ look'[s] = m
    BY <1>1, <2>1, SoundKept
  <2>. QED
    BY <2>2 DEF LookSound, Unexpired, LetIn
<1>. QED
  BY <1>1, <1>2 DEF SessionsInv, RecordsSound

(* A session is issued, for the first time. *)
LEMMA IssueSound ==
    ASSUME SessionsInv, NEW r \in Requests, issued[r] = 0, NEW ttl \in Nat, issue(r, ttl),
           UNCHANGED <<now, revoked, cache, look, out, told>>
    PROVE  SessionsInv'
<1>1. SessionsTypeOK /\ RecordsSound
  BY DEF SessionsInv, RecordsSound
<1>2. issued' \in [Sealed -> Nat] /\ \A s \in Sealed : s # r => issued'[s] = issued[s]
  BY <1>1 DEF issue, SessionsTypeOK, Sealed
<1>3. Later
  BY <1>1, <1>2 DEF Later, SessionsTypeOK
<1>4. RecordsSound'
  BY <1>1, <1>2 DEF RecordsSound, SessionsTypeOK
<1>. QED
  BY <1>1, <1>3, <1>4, LooksStay DEF SessionsTypeOK

(* The record of a revocation is put, for as long as its session lasts. *)
LEMMA RevokePutSound ==
    ASSUME SessionsInv, NEW s \in Sealed, issued[s] > 0, NEW ttl \in Nat,
           issued[s] <= now + ttl, Revoke(s, ttl), UNCHANGED <<now, issued, cache, look, told>>
    PROVE  SessionsInv'
<1>1. SessionsTypeOK /\ RecordsSound
  BY DEF SessionsInv, RecordsSound
<1>2. /\ revoked' \in [Sealed -> Nat] /\ revoked'[s] = now + ttl
      /\ \A t \in Sealed : t # s => revoked'[t] = revoked[t]
      /\ out' = out \cup {s}
  BY <1>1 DEF Revoke, SessionsTypeOK
<1>3. Later
  BY <1>1, <1>2 DEF Later, SessionsTypeOK
<1>4. RecordsSound'
  BY <1>1, <1>2 DEF RecordsSound, SessionsTypeOK
<1>. QED
  BY <1>1, <1>2, <1>3, <1>4, LooksStay DEF SessionsTypeOK

LEMMA ClockSound ==
    ASSUME SessionsInv, now' = now + 1, UNCHANGED <<issued, revoked, cache, look, out, told>>
    PROVE  SessionsInv'
<1>1. SessionsTypeOK /\ RecordsSound
  BY DEF SessionsInv, RecordsSound
<1>2. Later
  BY <1>1 DEF Later, SessionsTypeOK
<1>3. RecordsSound'
  BY <1>1 DEF RecordsSound
<1>. QED
  BY <1>1, <1>2, <1>3, LooksStay DEF SessionsTypeOK

LEMMA SessionsStay ==
    ASSUME SessionsInv, UNCHANGED sessionVars
    PROVE  SessionsInv'
BY DEF SessionsInv, SessionsTypeOK, LookSound, LetIn, Unexpired, sessionVars

LEMMA SessionsStart == SessionsInit => SessionsInv
<1> SUFFICES ASSUME SessionsInit PROVE SessionsInv
  OBVIOUS
<1>1. SessionsTypeOK
  BY NotLookingType DEF SessionsInit, SessionsTypeOK, Sealed
<1>2. LookSound(NotLooking)
  BY DEF SessionsInit, LookSound, NotLooking
<1>. QED
  BY <1>1, <1>2 DEF SessionsInit, SessionsInv

-----------------------------------------------------------------------------
(* Logins *)

LEMMA LoginStart == LoginInit => LoginInv
<1> SUFFICES ASSUME LoginInit PROVE LoginInv
  OBVIOUS
<1>1. LoginTypeOK
  BY LoginAssumption DEF LoginInit, LoginTypeOK, Visits, VisitSteps
<1>. QED
  BY <1>1 DEF LoginInit, LoginInv, Past, Same

LEMMA LoginStays ==
    ASSUME LoginInv, UNCHANGED loginVars, now' >= now, now \in Nat, now' \in Nat
    PROVE  LoginInv'
<1>1. LoginTypeOK /\ LoginTypeOK'
  BY DEF LoginInv, LoginTypeOK, loginVars
<1>2. \A r \in Requests : Past(r)' = Past(r)
  BY DEF Past, loginVars
<1>3. \A r1, r2 \in Requests : Same(r1, r2)' = Same(r1, r2)
  BY DEF Same, loginVars
<1>4. ASSUME NEW r \in Requests, Past(r)
      PROVE  visit[r].login \in used[visit[r].instance] \/ states[visit[r].login] < now'
  <2>1. visit[r].login \in Logins
    BY <1>4 DEF LoginInv, Past
  <2>2. states[visit[r].login] \in Nat
    BY <1>1, <2>1 DEF LoginTypeOK
  <2>. QED
    BY <1>4, <2>2 DEF LoginInv
<1>. QED
  BY <1>1, <1>2, <1>3, <1>4 DEF LoginInv, loginVars

(* A login starts in instance g. *)
LEMMA StartSound ==
    ASSUME LoginInv, NEW g \in Instances, NEW k \in Logins, Start(g, k), now \in Nat
    PROVE  LoginInv'
<1>1. LoginTypeOK
  BY DEF LoginInv
<1>2. /\ states[k] = 0 /\ states' = [states EXCEPT ![k] = now + StateTtl]
      /\ used' = [used EXCEPT ![g] = cleanup(g)] /\ visit' = visit /\ now' = now
  BY DEF Start, create, sessionVars
<1>3. now + StateTtl \in Nat /\ now + StateTtl > 0 /\ cleanup(g) \subseteq Logins
  BY <1>1, LoginAssumption DEF cleanup, LoginTypeOK
<1>4. LoginTypeOK'
  BY <1>1, <1>2, <1>3 DEF LoginTypeOK
<1>5. ASSUME NEW r \in Requests, visit[r].step # "idle"
      PROVE  /\ visit[r].login \in Logins /\ states'[visit[r].login] > 0
             /\ states'[visit[r].login] = states[visit[r].login]
  BY <1>1, <1>2, <1>5 DEF LoginInv, LoginTypeOK
<1>6. ASSUME NEW r \in Requests, Past(r)
      PROVE  visit[r].login \in used'[visit[r].instance] \/ states'[visit[r].login] < now
  <2>1. visit[r].step # "idle" /\ visit[r].instance \in Instances
    BY <1>1, <1>6 DEF Past, LoginTypeOK, Visits
  <2>2. CASE states[visit[r].login] < now
    BY <1>5, <2>1, <2>2
  <2>3. CASE ~(states[visit[r].login] < now)
    <3>1. visit[r].login \in used[visit[r].instance] /\ states[visit[r].login] >= now
      BY <1>1, <1>5, <1>6, <2>1, <2>3 DEF LoginInv, LoginTypeOK
    <3>. QED
      BY <1>1, <1>2, <2>1, <3>1 DEF cleanup, LoginTypeOK
  <2>. QED
    BY <2>2, <2>3
<1>7. /\ \A r \in Requests : Past(r)' = Past(r)
      /\ \A r1, r2 \in Requests : Same(r1, r2)' = Same(r1, r2)
  BY <1>2 DEF Past, Same
<1>. QED
  BY <1>2, <1>4, <1>5, <1>6, <1>7 DEF LoginInv

(* A visit that goes on is past its state's consumption before and after, *)
(* or after it no more.                                                    *)
LEMMA GoesSound ==
    ASSUME LoginInv, NEW r \in Requests, NEW step \in VisitSteps, Goes(r, step),
           visit[r].step # "idle",
           step \in {"discovery", "token", "exchange", "issued"} => Past(r),
           UNCHANGED <<states, used, now>>
    PROVE  LoginInv'
<1>1. LoginTypeOK /\ visit' = [visit EXCEPT ![r].step = step]
  BY DEF LoginInv, Goes
<1>2. /\ visit' \in [Requests -> Visits]
      /\ \A s \in Requests : visit'[s].login = visit[s].login
                             /\ visit'[s].instance = visit[s].instance
      /\ visit'[r].step = step /\ \A s \in Requests : s # r => visit'[s].step = visit[s].step
  BY <1>1 DEF LoginTypeOK, Visits
<1>3. LoginTypeOK'
  BY <1>1, <1>2 DEF LoginTypeOK
<1>4. \A s \in Requests : Past(s)' => Past(s)
  BY <1>2 DEF Past
<1>5. \A r1, r2 \in Requests : Same(r1, r2)' = Same(r1, r2)
  BY <1>2 DEF Same
<1>. QED
  BY <1>2, <1>3, <1>4, <1>5 DEF LoginInv

LEMMA VisitedSound ==
    ASSUME LoginInv, NEW r \in Requests, NEW g \in Instances, NEW k \in Logins, states[k] > 0,
           Visited(r, g, k), UNCHANGED <<states, used, now>>
    PROVE  LoginInv'
<1> DEFINE v == [step |-> "consume", login |-> k, instance |-> g]
<1>1. LoginTypeOK /\ visit' = [visit EXCEPT ![r] = v] /\ v \in Visits /\ v.step = "consume"
  BY DEF LoginInv, Visited, Visits, VisitSteps
<1>2. v.login = k
  OBVIOUS
<1>. HIDE DEF v
<1>3. LoginTypeOK'
  BY <1>1 DEF LoginTypeOK
<1>4. visit'[r] = v /\ \A s \in Requests : s # r => visit'[s] = visit[s]
  BY <1>1 DEF LoginTypeOK
<1>5. /\ ~Past(r)'
      /\ \A s \in Requests : s # r => Past(s)' = Past(s)
      /\ \A r1, r2 \in Requests : r1 # r /\ r2 # r => Same(r1, r2)' = Same(r1, r2)
  BY <1>1, <1>4 DEF Past, Same
<1>. QED
  BY <1>1, <1>2, <1>3, <1>4, <1>5 DEF LoginInv

LEMMA ConsumedSound ==
    ASSUME LoginInv, NEW r \in Requests, Consumed(r), now \in Nat
    PROVE  LoginInv'
<1> DEFINE g == visit[r].instance
           k == visit[r].login
           step == IF Consumable(g, k) THEN "discovery" ELSE "invalid"
<1>1. LoginTypeOK /\ g \in Instances /\ k \in Logins /\ states[k] > 0 /\ visit[r].step = "consume"
  BY DEF LoginInv, LoginTypeOK, Visits, Consumed
<1>2. /\ used' = [used EXCEPT ![g] = cleanup(g) \cup (IF Consumable(g, k) THEN {k} ELSE {})]
      /\ visit' = [visit EXCEPT ![r].step = step] /\ states' = states /\ now' = now
  BY DEF Consumed, consume, Goes, sessionVars
<1>3. /\ cleanup(g) \subseteq used[g] /\ used[g] \subseteq Logins
      /\ \A l \in used[g] : states[l] >= now => l \in cleanup(g)
  BY <1>1 DEF cleanup, LoginTypeOK
<1>. HIDE DEF g, k, step
<1>4. used'[g] = cleanup(g) \cup (IF Consumable(g, k) THEN {k} ELSE {})
  BY <1>1, <1>2 DEF LoginTypeOK
<1>5. \A h \in Instances : h # g => used'[h] = used[h]
  BY <1>1, <1>2 DEF LoginTypeOK
<1>6. /\ visit' \in [Requests -> Visits]
      /\ \A s \in Requests : visit'[s].login = visit[s].login
                             /\ visit'[s].instance = visit[s].instance
      /\ visit'[r].step = step /\ \A s \in Requests : s # r => visit'[s].step = visit[s].step
  BY <1>1, <1>2 DEF LoginTypeOK, Visits, VisitSteps, step
<1>7. LoginTypeOK'
  BY <1>1, <1>2, <1>3, <1>6 DEF LoginTypeOK
<1>8. /\ \A s \in Requests : s # r => Past(s)' = Past(s)
      /\ \A r1, r2 \in Requests : Same(r1, r2)' = Same(r1, r2)
      /\ Past(r)' => Consumable(g, k)
  BY <1>6 DEF Past, Same, step
<1>9. ASSUME NEW s \in Requests, Past(s)'
      PROVE  visit[s].login \in used'[visit[s].instance] \/ states[visit[s].login] < now
  <2>1. CASE s = r
    BY <1>4, <1>8, <1>9, <2>1 DEF g, k
  <2>2. CASE s # r
    <3>1. /\ visit[s].login \in used[visit[s].instance] \/ states[visit[s].login] < now
          /\ visit[s].login \in Logins /\ visit[s].instance \in Instances
      BY <1>1, <1>8, <1>9, <2>2 DEF LoginInv, Past, LoginTypeOK, Visits
    <3>2. states[visit[s].login] \in Nat
      BY <1>1, <3>1 DEF LoginTypeOK
    <3>. QED
      BY <1>3, <1>4, <1>5, <3>1, <3>2
  <2>. QED
    BY <2>1, <2>2
<1>10. ASSUME NEW s \in Requests, s # r, Past(s), Past(r)', Same(s, r) PROVE FALSE
  <2>1. visit[s].login = k /\ visit[s].instance = g
    BY <1>10 DEF Same, g, k
  <2>2. k \in used[g] \/ states[k] < now
    BY <1>10, <2>1 DEF LoginInv
  <2>3. states[k] >= now /\ k \notin cleanup(g)
    BY <1>8, <1>10 DEF Consumable
  <2>4. states[k] \in Nat
    BY <1>1 DEF LoginTypeOK
  <2>. QED
    BY <1>3, <2>2, <2>3, <2>4
<1>11. ASSUME NEW r1 \in Requests, NEW r2 \in Requests, Past(r1)', Past(r2)', Same(r1, r2)
       PROVE  r1 = r2
  <2>1. Same(r2, r1)
    BY <1>11 DEF Same
  <2>. QED
    BY <1>8, <1>10, <1>11, <2>1 DEF LoginInv
<1>12. \A s \in Requests : visit'[s].step # "idle" =>
          visit[s].login \in Logins /\ states[visit[s].login] > 0
  BY <1>1, <1>6 DEF LoginInv, k
<1>. QED
  BY <1>2, <1>6, <1>7, <1>8, <1>9, <1>11, <1>12 DEF LoginInv

LEMMA LoginStepSound ==
    ASSUME LoginInv, NEW r \in Requests, LoginStep(r), now \in Nat
    PROVE  LoginInv'
<1>1. CASE Consumed(r)
  BY <1>1, ConsumedSound
<1>2. CASE Proceeds(r)
  <2>1. Past(r) /\ visit[r].step # "idle" /\ UNCHANGED <<states, used, now>>
    BY <1>2 DEF Proceeds, Past, sessionVars
  <2>2. PICK step \in VisitSteps : Goes(r, step)
    BY <1>2 DEF Proceeds, VisitSteps
  <2>. QED
    BY <2>1, <2>2, GoesSound
<1>3. CASE CallbackFails(r)
  BY <1>3, GoesSound DEF CallbackFails, Past, VisitSteps, sessionVars
<1>4. CASE LoggedIn(r)
  BY <1>4, GoesSound DEF LoggedIn, Past, VisitSteps
<1>. QED
  BY <1>1, <1>2, <1>3, <1>4 DEF LoginStep

LEMMA LoginsSound == LoginInv => OneSessionPerLogin
BY DEF LoginInv, OneSessionPerLogin, Past, Same

-----------------------------------------------------------------------------
(* What tools write *)

(* Requests that, if they write, make one of the calls W. *)
Writing(W) == {s \in ApiSteps : s.writes => s.call \in W}

LEMMA Singles ==
    ASSUME NEW W
    PROVE  /\ \A c \in ApiReads : <<req(c)>> \in Seq(Writing(W)) /\ <<publicReq(c)>> \in Seq(Writing(W))
           /\ \A c \in ApiWrites \cap W : /\ <<reqWrite(c)>> \in Seq(Writing(W))
                                       /\ Asked(c) \in Seq(Writing(W))
<1>1. \A c \in ApiReads : req(c) \in Writing(W) /\ publicReq(c) \in Writing(W)
  BY DEF req, publicReq, Step, Writing, ApiSteps, ApiReads, ApiWrites
<1>2. \A c \in ApiWrites \cap W : reqWrite(c) \in Writing(W) /\ Reported(reqWrite(c)) \in Writing(W)
  BY DEF reqWrite, Reported, Step, Writing, ApiSteps
<1>3. \A s \in Writing(W) : <<s>> \in Seq(Writing(W))
  OBVIOUS
<1>4. ASSUME NEW c \in ApiWrites \cap W PROVE Asked(c) \in Seq(Writing(W))
  BY <1>2, <1>3 DEF Asked
<1>. QED
  BY <1>1, <1>2, <1>3, <1>4

LEMMA Adjusted ==
    ASSUME NEW W, NEW s \in Writing(W)
    PROVE  Caught(s) \in Writing(W) /\ Suffices(s) \in Writing(W) /\ Allows(s) \in Writing(W)
BY DEF Caught, Suffices, Allows, Writing, ApiSteps

LEMMA UncaughtWrites ==
    ASSUME NEW W, NEW c \in Seq(Writing(W))
    PROVE  Uncaught(c) \in Seq(Writing(W))
<1>1. \A s \in Writing(W) : [s EXCEPT !.fails = "thrown"] \in Writing(W)
  BY DEF Writing, ApiSteps
<1>2. Len(c) \in Nat /\ DOMAIN c = 1 .. Len(c) /\ \A i \in DOMAIN c : c[i] \in Writing(W)
  OBVIOUS
<1>3. Uncaught(c) \in [1 .. Len(c) -> Writing(W)]
  BY <1>1, <1>2 DEF Uncaught
<1>. QED
  BY <1>2, <1>3

LEMMA InTurnWrites ==
    ASSUME NEW W, NEW A, NEW B, A \subseteq Seq(Writing(W)), B \subseteq Seq(Writing(W))
    PROVE  A \odot B \subseteq Seq(Writing(W))
<1>1. \A a \in A, b \in B : a \o b \in Seq(Writing(W))
  OBVIOUS
<1>2. ASSUME NEW c \in A \odot B PROVE c \in Seq(Writing(W))
  <2>1. PICK a \in A, b \in B : c = a \o b
    BY DEF \odot
  <2>. QED
    BY <1>1, <2>1
<1>. QED
  BY <1>2

(* The methods that only read. *)
LEMMA ReadMethods ==
    ASSUME NEW W
    PROVE  /\ {getAccountCapabilities, listDrafts, getDraft, getLiveVibe, getVibeEngagementSummary,
               getVibeShareSummary, discoverVibes, getPublicPost, getPublicProfile,
               searchVibecodr, getImportJob, store} \subseteq Seq(Writing(W))
           /\ listMyLiveVibes \subseteq Seq(Writing(W)) /\ getRemixLineage \subseteq Seq(Writing(W))
           /\ <<Caught(getLiveVibe[1])>> \in Seq(Writing(W))
           /\ <<Allows(getAccountCapabilities[1])>> \in Seq(Writing(W))
<1>1. \A c \in ApiReads : <<req(c)>> \in Seq(Writing(W)) /\ <<publicReq(c)>> \in Seq(Writing(W))
  BY Singles
<1>2. \A c \in ApiReads : req(c) \in Writing(W) /\ publicReq(c) \in Writing(W)
  BY DEF req, publicReq, Step, Writing, ApiSteps, ApiReads, ApiWrites
<1>3. /\ <<Caught(req("post"))>> \in Seq(Writing(W)) /\ <<Caught(req("job"))>> \in Seq(Writing(W))
      /\ <<Allows(req("quota"))>> \in Seq(Writing(W))
      /\ <<Suffices(publicReq("profile")), publicReq("user")>> \in Seq(Writing(W))
  <2>1. /\ req("post") \in Writing(W) /\ req("job") \in Writing(W) /\ req("quota") \in Writing(W)
        /\ publicReq("profile") \in Writing(W) /\ publicReq("user") \in Writing(W)
    BY <1>2 DEF ApiReads
  <2>2. /\ Caught(req("post")) \in Writing(W) /\ Caught(req("job")) \in Writing(W)
        /\ Allows(req("quota")) \in Writing(W) /\ Suffices(publicReq("profile")) \in Writing(W)
    BY <2>1, Adjusted
  <2>3. \A s, u \in Writing(W) : <<s>> \in Seq(Writing(W)) /\ <<s, u>> \in Seq(Writing(W))
    OBVIOUS
  <2>. QED
    BY <2>1, <2>2, <2>3
<1>4. /\ {getAccountCapabilities, listDrafts, getDraft, getLiveVibe, getVibeEngagementSummary,
          getVibeShareSummary, discoverVibes, getPublicPost, getPublicProfile,
          searchVibecodr, getImportJob, store} \subseteq Seq(Writing(W))
      /\ <<Caught(getLiveVibe[1])>> \in Seq(Writing(W))
      /\ <<Allows(getAccountCapabilities[1])>> \in Seq(Writing(W))
  <2>1. /\ getAccountCapabilities = <<req("quota")>> /\ listDrafts = <<req("drafts")>>
        /\ getDraft = <<req("files")>> /\ getLiveVibe = <<req("post")>>
        /\ getVibeEngagementSummary = <<req("post")>> /\ getVibeShareSummary = <<req("post")>>
        /\ store = <<req("store")>> /\ getImportJob = <<Caught(req("job"))>>
    BY DEF getAccountCapabilities, getUserQuota, listDrafts, getDraft, getLiveVibe,
           getVibeEngagementSummary, getVibeShareSummary, getImportJob, store
  <2>2. /\ discoverVibes = <<publicReq("discover")>> /\ getPublicPost = <<publicReq("post")>>
        /\ getPublicProfile = <<Suffices(publicReq("profile")), publicReq("user")>>
        /\ searchVibecodr = <<publicReq("search")>>
    BY DEF discoverVibes, getPublicPost, getPublicProfile, searchVibecodr
  <2>3. getLiveVibe[1] = req("post") /\ getAccountCapabilities[1] = req("quota")
    BY <2>1
  <2>4. /\ <<req("quota")>> \in Seq(Writing(W)) /\ <<req("drafts")>> \in Seq(Writing(W))
        /\ <<req("files")>> \in Seq(Writing(W)) /\ <<req("post")>> \in Seq(Writing(W))
        /\ <<req("store")>> \in Seq(Writing(W)) /\ <<publicReq("discover")>> \in Seq(Writing(W))
        /\ <<publicReq("post")>> \in Seq(Writing(W)) /\ <<publicReq("search")>> \in Seq(Writing(W))
    BY <1>1 DEF ApiReads
  <2>. QED
    BY <1>3, <2>1, <2>2, <2>3, <2>4
<1>5. listMyLiveVibes \subseteq Seq(Writing(W)) /\ getRemixLineage \subseteq Seq(Writing(W))
  <2>1. <<req("mine")>> \in Seq(Writing(W)) /\ <<req("files")>> \in Seq(Writing(W))
        /\ <<publicReq("remixes")>> \in Seq(Writing(W))
    BY <1>1 DEF ApiReads
  <2>2. \A c, d \in Seq(Writing(W)) : c \o d \in Seq(Writing(W))
    OBVIOUS
  <2>. QED
    BY <1>3, <1>4, <2>1, <2>2 DEF listMyLiveVibes, getRemixLineage
<1>. QED
  BY <1>4, <1>5

Publishing == {"quick_publish_creation", "publish_draft_capsule"}
OtherWrites == {"pulse", "cover", "visibility", "metadata", "capsule", "file", "zip", "github",
                "compile", "cancel"}

LEMMA ReadChains ==
    ASSUME NEW W, NEW t \in ReadTools
    PROVE  Chains(t) \subseteq Seq(Writing(W))
<1>1. <<>> \in Seq(Writing(W))
  OBVIOUS
<1>2. CASE t \in SetupTools
  BY <1>1, <1>2 DEF Chains, SetupTools, SocialTools, OperationTools, DraftAndVibeTools, LaunchTools
<1>3. CASE t \in SocialTools
  <2>1. Chains(t) = SocialChains(t)
    BY <1>3 DEF Chains, SetupTools, SocialTools, OperationTools, DraftAndVibeTools, LaunchTools
  <2>. QED
    BY <1>3, <2>1, ReadMethods DEF SocialChains, SocialTools
<1>4. CASE t \in OperationTools
  <2>1. Chains(t) = OperationChains(t)
    BY <1>4 DEF Chains, SetupTools, SocialTools, OperationTools, DraftAndVibeTools, LaunchTools
  <2>2. \A c, d \in Seq(Writing(W)) : c \o d \in Seq(Writing(W))
    OBVIOUS
  <2>3. store \in Seq(Writing(W)) /\ getImportJob \in Seq(Writing(W))
    BY ReadMethods
  <2>4. /\ Uncaught(store) \in Seq(Writing(W)) /\ store \o getImportJob \in Seq(Writing(W))
        /\ Uncaught(store) \o getImportJob \in Seq(Writing(W))
        /\ (Uncaught(store) \o getImportJob) \o getImportJob \in Seq(Writing(W))
    BY <2>2, <2>3, UncaughtWrites
  <2>5. ReadinessChains \subseteq Seq(Writing(W))
    BY <2>4, ReadMethods DEF ReadinessChains
  <2>6. ResumeChains \subseteq Seq(Writing(W))
    <3>1. ASSUME NEW v \in Seq(Writing(W))
          PROVE  AllCaught(v) \in Seq(Writing(W))
      <4>1. Len(v) \in Nat /\ DOMAIN v = 1 .. Len(v) /\ \A i \in DOMAIN v : v[i] \in Writing(W)
        OBVIOUS
      <4>2. AllCaught(v) \in [1 .. Len(v) -> Writing(W)]
        BY <4>1, Adjusted DEF AllCaught
      <4>. QED
        BY <4>1, <4>2
    <3>2. {store} \odot {<<>>, getImportJob} \odot {<<>>, <<Caught(getLiveVibe[1])>>}
            \subseteq Seq(Writing(W))
      BY <1>1, ReadMethods, InTurnWrites
    <3>3. ASSUME NEW v \in listMyLiveVibes
          PROVE  store \o AllCaught(v) \in Seq(Writing(W))
      <4>1. v \in Seq(Writing(W))
        BY ReadMethods
      <4>. QED
        BY <2>2, <2>3, <3>1, <4>1
    <3>. QED
      BY <3>2, <3>3 DEF ResumeChains
  <2>. QED
    BY <1>1, <1>4, <2>1, <2>4, <2>5, <2>6, ReadMethods DEF OperationChains, OperationTools
<1>5. CASE t \in DraftAndVibeTools
  <2>1. Chains(t) = DraftAndVibeChains(t)
    BY <1>5 DEF Chains, SetupTools, SocialTools, OperationTools, DraftAndVibeTools, LaunchTools
  <2>2. Uncaught(listDrafts) \in Seq(Writing(W)) /\ Uncaught(getDraft) \in Seq(Writing(W))
    BY ReadMethods, UncaughtWrites
  <2>. QED
    BY <1>5, <2>1, <2>2, ReadMethods DEF DraftAndVibeChains, DraftAndVibeTools
<1>6. CASE t \in LaunchTools
  <2>1. Chains(t) = LaunchChains(t)
    BY <1>6 DEF Chains, SetupTools, SocialTools, OperationTools, DraftAndVibeTools, LaunchTools
  <2>. QED
    BY <1>6, <2>1, ReadMethods DEF LaunchChains
<1>. QED
  BY <1>2, <1>3, <1>4, <1>5, <1>6 DEF ReadTools, NoAuthTools

(* The methods that write. *)
LEMMA WriteMethods ==
    ASSUME NEW W, OtherWrites \subseteq W
    PROVE  /\ {publishStandalonePulse, uploadCover, compileDraft, cancelImportJob, updatePostMetadata,
               <<Caught(uploadCover[1])>>} \subseteq Seq(Writing(W))
           /\ updateLiveVibeMetadata \subseteq Seq(Writing(W)) /\ startImport \subseteq Seq(Writing(W))
           /\ "publish" \in W => publish \subseteq Seq(Writing(W))
<1>1. \A s, u \in Writing(W) : <<s>> \in Seq(Writing(W))
  OBVIOUS
<1>2. \A c, d \in Seq(Writing(W)) : c \o d \in Seq(Writing(W))
  OBVIOUS
<1>3. /\ \A c \in ApiWrites \cap W : reqWrite(c) \in Writing(W) /\ <<reqWrite(c)>> \in Seq(Writing(W))
      /\ \A c \in ApiWrites \cap W : Asked(c) \in Seq(Writing(W))
  BY Singles DEF reqWrite, Step, Writing, ApiSteps
<1>4. OtherWrites \subseteq ApiWrites \cap W /\ "publish" \in ApiWrites
  BY DEF OtherWrites, ApiWrites
<1>5. /\ reqWrite("cover") \in Writing(W) /\ reqWrite("metadata") \in Writing(W)
      /\ reqWrite("cancel") \in Writing(W)
      /\ <<reqWrite("pulse")>> \in Seq(Writing(W)) /\ <<reqWrite("cover")>> \in Seq(Writing(W))
      /\ <<reqWrite("visibility")>> \in Seq(Writing(W))
      /\ <<reqWrite("metadata")>> \in Seq(Writing(W))
  BY <1>3, <1>4 DEF OtherWrites
<1>6. /\ Asked("compile") \in Seq(Writing(W)) /\ Asked("capsule") \in Seq(Writing(W))
      /\ Asked("file") \in Seq(Writing(W)) /\ Asked("zip") \in Seq(Writing(W))
      /\ Asked("github") \in Seq(Writing(W))
  BY <1>3, <1>4 DEF OtherWrites
<1>7. /\ <<Caught(reqWrite("cover"))>> \in Seq(Writing(W))
      /\ <<Caught(reqWrite("metadata"))>> \in Seq(Writing(W))
      /\ <<Caught(reqWrite("cancel"))>> \in Seq(Writing(W))
  <2>1. /\ Caught(reqWrite("cover")) \in Writing(W) /\ Caught(reqWrite("metadata")) \in Writing(W)
        /\ Caught(reqWrite("cancel")) \in Writing(W)
    BY <1>5, Adjusted
  <2>. QED
    BY <1>1, <2>1
<1>8. {publishStandalonePulse, uploadCover, compileDraft, cancelImportJob, updatePostMetadata,
       <<Caught(uploadCover[1])>>} \subseteq Seq(Writing(W))
  <2>1. /\ publishStandalonePulse = <<reqWrite("pulse")>> /\ uploadCover = <<reqWrite("cover")>>
        /\ compileDraft = Asked("compile") /\ cancelImportJob = <<Caught(reqWrite("cancel"))>>
        /\ updatePostMetadata = <<Caught(reqWrite("metadata"))>>
    BY DEF publishStandalonePulse, uploadCover, compileDraft, cancelImportJob, updatePostMetadata
  <2>2. uploadCover[1] = reqWrite("cover")
    BY <2>1
  <2>. QED
    BY <1>5, <1>6, <1>7, <2>1, <2>2
<1>9. <<>> \in Seq(Writing(W)) /\ getLiveVibe \in Seq(Writing(W))
  BY ReadMethods
<1>10. updateLiveVibeMetadata \subseteq Seq(Writing(W))
  BY <1>5, <1>9, InTurnWrites DEF updateLiveVibeMetadata
<1>11. startImport \subseteq Seq(Writing(W))
  <2>1. createEmptyCapsule \o putCapsuleFile \in Seq(Writing(W))
    BY <1>2, <1>6 DEF createEmptyCapsule, putCapsuleFile
  <2>. QED
    BY <1>6, <1>9, <2>1 DEF startImport, importZip, importGithub
<1>12. ASSUME "publish" \in W PROVE publish \subseteq Seq(Writing(W))
  <2>1. publishDraft \in Seq(Writing(W))
    BY <1>3, <1>4, <1>12 DEF publishDraft
  <2>2. resolveCoverUsage \subseteq Seq(Writing(W))
    BY <1>9, ReadMethods DEF resolveCoverUsage
  <2>3. {<<Caught(uploadCover[1])>>} \subseteq Seq(Writing(W))
    BY <1>8
  <2>4. coverOf \subseteq Seq(Writing(W))
    BY <1>9, <2>2, <2>3, InTurnWrites DEF coverOf
  <2>5. {publishDraft} \odot coverOf \subseteq Seq(Writing(W))
    BY <2>1, <2>4, InTurnWrites
  <2>6. {<<>>, updatePostMetadata} \subseteq Seq(Writing(W))
    BY <1>8, <1>9
  <2>. QED
    BY <2>5, <2>6, InTurnWrites DEF publish
<1>. QED
  BY <1>8, <1>10, <1>11, <1>12

LEMMA WriteChainsAre ==
    ASSUME NEW W, OtherWrites \subseteq W, NEW t \in RecoveryWrites \cup PublishTools,
           FlagOf(t) \subseteq W
    PROVE  Chains(t) \subseteq Seq(Writing(W))
<1>1. \A c, d \in Seq(Writing(W)) : c \o d \in Seq(Writing(W))
  OBVIOUS
<1>2. Chains(t) = WriteChains(t)
  BY DEF Chains, SetupTools, SocialTools, OperationTools, DraftAndVibeTools, LaunchTools,
         RecoveryWrites, PublishTools
<1>3. /\ store \in Seq(Writing(W)) /\ getLiveVibe \in Seq(Writing(W)) /\ <<>> \in Seq(Writing(W))
      /\ getImportJob \in Seq(Writing(W)) /\ getVibeShareSummary \in Seq(Writing(W))
      /\ <<Allows(getAccountCapabilities[1])>> \in Seq(Writing(W))
      /\ Uncaught(store) \in Seq(Writing(W)) /\ Uncaught(getLiveVibe) \in Seq(Writing(W))
  BY ReadMethods, UncaughtWrites
<1>4. CASE t = "publish_standalone_pulse"
  <2>1. PulseChain \in Seq(Writing(W))
    BY <1>1, <1>3, WriteMethods DEF PulseChain
  <2>. QED
    BY <1>2, <1>4, <2>1 DEF WriteChains
<1>5. CASE t = "update_live_vibe_metadata"
  <2>1. {<<>>, uploadCover, getLiveVibe \o uploadCover} \subseteq Seq(Writing(W))
    BY <1>1, <1>3, WriteMethods
  <2>2. MetadataChains \subseteq Seq(Writing(W))
    BY <2>1, WriteMethods, InTurnWrites DEF MetadataChains
  <2>. QED
    BY <1>2, <1>5, <2>2 DEF WriteChains
<1>6. {store} \odot startImport \subseteq Seq(Writing(W))
  BY <1>3, WriteMethods, InTurnWrites
<1>7. CASE t = "start_creation_import"
  BY <1>2, <1>6, <1>7 DEF WriteChains
<1>8. CASE t = "compile_draft_capsule"
  <2>1. (Uncaught(store) \o compileDraft) \o Uncaught(store) \in Seq(Writing(W))
    BY <1>1, <1>3, WriteMethods
  <2>. QED
    BY <1>2, <1>8, <2>1 DEF WriteChains
<1>9. CASE t = "quick_publish_creation"
  <2> DEFINE live  == {<<>>, getLiveVibe \o getVibeShareSummary}
             ready == {store} \odot startImport \odot {<<>>, getImportJob}
  <2>1. publish \subseteq Seq(Writing(W)) /\ {<<>>, compileDraft} \subseteq Seq(Writing(W))
    BY <1>3, <1>9, WriteMethods DEF FlagOf
  <2>2. ready \subseteq Seq(Writing(W))
    BY <1>3, <1>6, InTurnWrites
  <2>3. live \subseteq Seq(Writing(W))
    BY <1>1, <1>3
  <2>4. Chains(t) = ready \cup (ready \odot {<<>>, compileDraft} \odot publish \odot live)
    BY <1>2, <1>9 DEF WriteChains, QuickPublishChains
  <2>. HIDE DEF ready, live
  <2>5. ready \odot {<<>>, compileDraft} \odot publish \odot live \subseteq Seq(Writing(W))
    BY <2>1, <2>2, <2>3, InTurnWrites
  <2>. QED
    BY <2>2, <2>4, <2>5
<1>10. CASE t = "publish_draft_capsule"
  <2>1. publish \subseteq Seq(Writing(W)) /\ {<<>>, Uncaught(getLiveVibe)} \subseteq Seq(Writing(W))
    BY <1>3, <1>10, WriteMethods DEF FlagOf
  <2>2. DraftPublishChains \subseteq Seq(Writing(W))
    BY <1>3, <2>1, InTurnWrites DEF DraftPublishChains
  <2>. QED
    BY <1>2, <1>10, <2>2 DEF WriteChains
<1>11. CASE t = "cancel_import_operation"
  <2>1. {<<>>, cancelImportJob} \subseteq Seq(Writing(W))
    BY <1>3, WriteMethods
  <2>2. {Uncaught(store)} \odot {<<>>, cancelImportJob} \odot {Uncaught(store)}
          \subseteq Seq(Writing(W))
    BY <1>3, <2>1, InTurnWrites
  <2>. QED
    BY <1>2, <1>11, <2>2 DEF WriteChains
<1>. QED
  BY <1>4, <1>5, <1>7, <1>8, <1>9, <1>10, <1>11 DEF RecoveryWrites, PublishTools

(* What a tool writes: nothing if it only reads, no publish but under its *)
(* flag.                                                                   *)
LEMMA ChainsWrite ==
    ASSUME NEW t \in Tools, NEW c \in Chains(t)
    PROVE  /\ c \in Seq(ApiSteps)
           /\ \A i \in DOMAIN c : c[i].writes =>
                 /\ t \notin ReadTools
                 /\ c[i].call = "publish" => FlagOf(t) = {"publish"}
<1>1. \A W : Writing(W) \subseteq ApiSteps /\ \A s \in Writing(W) : s.writes => s.call \in W
  BY DEF Writing
<1>2. CASE t \in ReadTools
  <2>1. c \in Seq(Writing({}))
    BY <1>2, ReadChains
  <2>. QED
    BY <1>1, <2>1
<1>3. CASE t \notin ReadTools
  <2> DEFINE W == OtherWrites \cup FlagOf(t)
  <2>1. c \in Seq(Writing(W))
    BY <1>3, WriteChainsAre DEF Tools
  <2>2. "publish" \in W => FlagOf(t) = {"publish"}
    BY DEF OtherWrites, FlagOf
  <2>. HIDE DEF W
  <2>. QED
    BY <1>1, <1>3, <2>1, <2>2
<1>. QED
  BY <1>2, <1>3

-----------------------------------------------------------------------------
(* The gateway *)

(* What is planned for a request. *)
LEMMA PlanFacts ==
    ASSUME RoutesInv, NEW r \in Requests
    PROVE  /\ PlanOf(r).kind \in Kinds /\ PlanOf(r).env \in Envs
           /\ PlanOf(r).login \in Logins /\ PlanOf(r).codemode \in BOOLEAN
           /\ PlanOf(r).cookie \in Tokens /\ PlanOf(r).bearer \in Tokens
           /\ PlanOf(r).items \in Seq(Items)
           /\ \A i \in DOMAIN PlanOf(r).items :
                Len(PlanOf(r).items[i].code) <= MaxNestedCalls + 2
<1>1. Possible(PlanOf(r))
  BY DEF RoutesInv
<1>. QED
  BY <1>1 DEF Possible, Tokens, Sealed

(* Before a request comes nothing is looked up, visited or issued for it;  *)
(* for one to the MCP handler nothing is visited or issued at all.         *)
LEMMA NothingYet ==
    ASSUME RoutesInv, NEW r \in Requests
    PROVE  /\ task[r].step = "new" =>
                look[r].step = "idle" /\ visit[r].step = "idle" /\ issued[r] = 0
           /\ PlanOf(r).kind \notin {"link", "callback"} => visit[r].step = "idle" /\ issued[r] = 0
<1>1. TaskSound(r) /\ IssuedOnce(r) /\ issued[r] \in Nat
  BY DEF RoutesInv, SessionsInv, SessionsTypeOK, Sealed
<1>. QED
  BY <1>1 DEF TaskSound, IssuedOnce

LEMMA TakenType ==
    ASSUME NEW t \in RequestRecords, NEW i \in Instances, NEW c \in Configs
    PROVE  [t EXCEPT !.instance = i, !.config = c] \in RequestRecords
BY DEF RequestRecords

(* The handler a request is served by. *)
LEMMA ServedFacts ==
    ASSUME RoutesInv, NEW r \in Requests, Served(r)
    PROVE  /\ worker' \in [instance: {0} \cup Instances, config: Configs, fingerprint: Configs]
           /\ worker'.instance > 0 => worker'.fingerprint = worker'.config
           /\ worker'.instance \in Instances /\ worker'.config = PlanOf(r).env.config
           /\ worker'.config \in Configs
           /\ Taken(r) = [task[r] EXCEPT !.instance = worker'.instance, !.config = worker'.config]
           /\ Taken(r) \in RequestRecords
<1> DEFINE env == PlanOf(r).env
<1>1. env \in Envs /\ env.config \in Configs
  BY PlanFacts DEF Envs
<1>2. /\ worker \in [instance: {0} \cup Instances, config: Configs, fingerprint: Configs]
      /\ worker.instance > 0 => worker.fingerprint = worker.config
      /\ task[r] \in RequestRecords
  BY DEF RoutesInv, TypeOK
<1>3. Instances \subseteq Nat \ {0}
  BY LoginAssumption
<1>4. worker' = getHandler(env)
  BY DEF Served
<1>5. CASE Cached(env)
  <2>1. worker' = worker /\ worker.instance > 0 /\ worker.fingerprint = env.config
    BY <1>4, <1>5 DEF getHandler, Cached
  <2>2. worker.instance \in Instances
    BY <1>2, <2>1
  <2>3. Taken(r) \in RequestRecords
    BY <1>1, <1>2, <2>1, <2>2, TakenType DEF Taken
  <2>. QED
    BY <1>1, <1>2, <2>1, <2>2, <2>3 DEF Taken
<1>6. CASE ~Cached(env)
  <2>1. worker' = Built(env) /\ worker.instance + 1 \in Instances
    BY <1>4, <1>6 DEF getHandler, Served
  <2>2. /\ worker'.instance = worker.instance + 1 /\ worker'.config = env.config
        /\ worker'.fingerprint = env.config
        /\ worker' \in [instance: {0} \cup Instances, config: Configs, fingerprint: Configs]
    BY <1>1, <2>1 DEF Built
  <2>3. Taken(r) \in RequestRecords
    BY <1>1, <1>2, <2>1, <2>2, TakenType DEF Taken
  <2>. QED
    BY <1>1, <2>1, <2>2, <2>3 DEF Taken
<1>. QED
  BY <1>5, <1>6

(* What holds of the other requests goes on to hold. *)
LEMMA OthersSound ==
    ASSUME RoutesInv, Later, plan' = plan, NEW s \in Requests,
           task'[s] = task[s], look'[s].step = look[s].step, visit'[s].step = visit[s].step,
           issued'[s] = issued[s]
    PROVE  TaskSound(s)' /\ IssuedOnce(s)' /\ RevokeSound(s)'
<1>1. TaskSound(s) /\ IssuedOnce(s) /\ RevokeSound(s)
  BY DEF RoutesInv
<1>2. PlanOf(s)' = PlanOf(s)
  BY DEF PlanOf
<1>3. TaskSound(s)'
  BY <1>1, <1>2 DEF TaskSound, ItemOf, requiresAuth, InSandbox, Runtime, Direct
<1>4. IssuedOnce(s)'
  BY <1>1, <1>2 DEF IssuedOnce
<1>5. RevokeSound(s)'
  <2>1. SUFFICES ASSUME task[s].step = "revoke"
                 PROVE  /\ Ending(s) \in Sealed /\ issued'[Ending(s)] > 0
                        /\ issued'[Ending(s)] <= now' + task[s].ttl
    BY <1>2 DEF RevokeSound, Ending
  <2>2. /\ Ending(s) \in Sealed /\ issued[Ending(s)] > 0
        /\ issued[Ending(s)] <= now + task[s].ttl
    BY <1>1, <2>1 DEF RevokeSound
  <2>3. issued'[Ending(s)] = issued[Ending(s)]
    BY <2>2 DEF Later
  <2>4. task[s].ttl \in Nat /\ now \in Nat /\ now' \in Nat /\ now' >= now
        /\ issued[Ending(s)] \in Nat
    BY <2>2 DEF RoutesInv, TypeOK, RequestRecords, SessionsInv, SessionsTypeOK, Later
  <2>. QED
    BY <2>2, <2>3, <2>4
<1>. QED
  BY <1>3, <1>4, <1>5

(* Request r moves; what the other variables hold is of their types.       *)
LEMMA RequestMoves ==
    ASSUME RoutesInv, NEW r \in Requests, NEW x \in RequestRecords,
           task' = [task EXCEPT ![r] = x], plan' = plan, Later, SessionsInv', LoginInv',
           worker' \in [instance: {0} \cup Instances, config: Configs, fingerprint: Configs],
           worker'.instance > 0 => worker'.fingerprint = worker'.config,
           run' \in [Requests -> [RunIds -> RunRecords]], effects' \subseteq EffectRecords,
           \A s \in Requests \ {r} : look'[s] = look[s] /\ visit'[s] = visit[s]
                                     /\ issued'[s] = issued[s],
           TaskSound(r)', IssuedOnce(r)', RevokeSound(r)'
    PROVE  RoutesInv'
<1>1. task \in [Requests -> RequestRecords]
  BY DEF RoutesInv, TypeOK
<1>2. TypeOK'
  BY <1>1 DEF TypeOK, SessionsInv, LoginInv
<1>3. ASSUME NEW s \in Requests PROVE TaskSound(s)' /\ IssuedOnce(s)' /\ RevokeSound(s)'
  <2>1. CASE s = r
    BY <2>1
  <2>2. CASE s # r
    BY <1>1, <2>2, OthersSound
  <2>. QED
    BY <2>1, <2>2
<1>4. \A s \in Requests : Possible(PlanOf(s))'
  BY DEF RoutesInv, PlanOf, Possible
<1>. QED
  BY <1>2, <1>3, <1>4 DEF RoutesInv

(* A request that is not served by tools, or is done. *)
LEMMA PlainTask ==
    ASSUME NEW r \in Requests, task'[r].step \notin ItemSteps \cup {"new"}
    PROVE  TaskSound(r)' /\ (task'[r].step # "revoke" => RevokeSound(r)')
BY DEF TaskSound, ItemSteps, RevokeSound

(* Only the request itself moves, where nothing is issued or visited. *)
LEMMA OnlyRequest ==
    ASSUME RoutesInv, NEW r \in Requests, NEW x \in RequestRecords,
           task' = [task EXCEPT ![r] = x], UNCHANGED <<plan, sessionVars, loginVars>>,
           worker' \in [instance: {0} \cup Instances, config: Configs, fingerprint: Configs],
           worker'.instance > 0 => worker'.fingerprint = worker'.config,
           run' \in [Requests -> [RunIds -> RunRecords]], effects' \subseteq EffectRecords,
           task[r].step = "done" => x.step = "done",
           task[r].step = "login" \/ x.step = "login" =>
             x.step \in {"login", "done"} /\ visit[r].step # "idle",
           TaskSound(r)', RevokeSound(r)'
    PROVE  RoutesInv'
<1>1. SessionsInv /\ LoginInv /\ SessionsTypeOK /\ task \in [Requests -> RequestRecords]
  BY DEF RoutesInv, TypeOK
<1>2. SessionsInv' /\ LoginInv' /\ Later
  BY <1>1, SessionsStay, LoginStays, LaterSame DEF SessionsTypeOK, sessionVars
<1>3. task'[r] = x /\ PlanOf(r)' = PlanOf(r)
  BY <1>1 DEF PlanOf
<1>4. IssuedOnce(r)'
  <2>1. IssuedOnce(r)
    BY DEF RoutesInv
  <2>. QED
    BY <1>3, <2>1 DEF IssuedOnce, sessionVars, loginVars
<1>. QED
  BY <1>2, <1>4, RequestMoves DEF sessionVars, loginVars

LEMMA StepFacts ==
    ASSUME NEW t \in RequestRecords, NEW s \in RequestSteps
    PROVE  /\ [t EXCEPT !.step = s] \in RequestRecords /\ [t EXCEPT !.step = s].step = s
           /\ [t EXCEPT !.step = s].item = t.item /\ [t EXCEPT !.step = s].config = t.config
           /\ [t EXCEPT !.step = s].ttl = t.ttl
BY DEF RequestRecords

LEMMA StatusFacts ==
    ASSUME NEW t \in RequestRecords, NEW code \in StatusCodes
    PROVE  /\ Status(t, code) \in RequestRecords /\ Status(t, code).step = "done"
           /\ Status(t, code).status = code /\ Status(t, code).answers = t.answers
<1>1. [t EXCEPT !.step = "done", !.status = code] \in RequestRecords
  <2> DEFINE u == [t EXCEPT !.step = "done"]
  <2>1. u \in RequestRecords
    BY StepFacts DEF RequestSteps
  <2>2. [t EXCEPT !.step = "done", !.status = code] = [u EXCEPT !.status = code]
    BY DEF RequestRecords
  <2>. HIDE DEF u
  <2>3. [u EXCEPT !.status = code] \in RequestRecords
    BY <2>1 DEF RequestRecords
  <2>. QED
    BY <2>2, <2>3
<1>. QED
  BY <1>1 DEF Status, RequestRecords

(* A request is answered at once, or by what it waited for. *)
LEMMA Finished ==
    ASSUME RoutesInv, NEW r \in Requests, NEW t \in RequestRecords,
           NEW code \in StatusCodes,
           Becomes(r, Status(t, code)), UNCHANGED <<plan, sessionVars, loginVars, run, effects>>,
           worker' \in [instance: {0} \cup Instances, config: Configs, fingerprint: Configs],
           worker'.instance > 0 => worker'.fingerprint = worker'.config
    PROVE  RoutesInv'
<1>1. PICK x \in RequestRecords : x = Status(t, code) /\ x.step = "done"
  BY StatusFacts
<1>2. /\ task \in [Requests -> RequestRecords] /\ run' \in [Requests -> [RunIds -> RunRecords]]
      /\ effects' \subseteq EffectRecords
  BY DEF RoutesInv, TypeOK
<1>3. task' = [task EXCEPT ![r] = x] /\ task'[r].step = "done"
  BY <1>1, <1>2 DEF Becomes
<1>4. TaskSound(r)' /\ RevokeSound(r)'
  BY <1>3, PlainTask DEF ItemSteps
<1>5. task[r].step = "login" => visit[r].step # "idle"
  BY DEF RoutesInv, IssuedOnce
<1>. QED
  BY <1>1, <1>2, <1>3, <1>4, <1>5, OnlyRequest

LEMMA NotServedSound ==
    ASSUME RoutesInv, NEW r \in Requests, NotServed(r)
    PROVE  RoutesInv'
<1>1. /\ task[r] \in RequestRecords /\ worker'= worker
      /\ worker \in [instance: {0} \cup Instances, config: Configs, fingerprint: Configs]
      /\ worker.instance > 0 => worker.fingerprint = worker.config
  BY DEF RoutesInv, TypeOK, NotServed, getHandler
<1>. QED
  BY <1>1, Finished DEF NotServed, StatusCodes

LEMMA ShownSound ==
    ASSUME RoutesInv, NEW r \in Requests, Shown(r) \/ CallbackDone(r)
    PROVE  RoutesInv'
<1>1. /\ task[r] \in RequestRecords /\ worker'= worker
      /\ worker \in [instance: {0} \cup Instances, config: Configs, fingerprint: Configs]
      /\ worker.instance > 0 => worker.fingerprint = worker.config
      /\ UNCHANGED <<plan, sessionVars, loginVars, run, effects>>
  BY DEF RoutesInv, TypeOK, Shown, CallbackDone
<1>2. PICK code \in StatusCodes : Becomes(r, Status(task[r], code))
  BY DEF Shown, CallbackDone, StatusCodes
<1>. QED
  BY <1>1, <1>2, Finished

LEMMA LinkSound ==
    ASSUME RoutesInv, NEW r \in Requests, Link(r)
    PROVE  RoutesInv'
<1>1. CASE "link" \in worker'.config.flags
  <2>1. /\ task[r].step = "new" /\ PlanOf(r).kind = "link" /\ Served(r) /\ issue(r, LinkTtl)
        /\ Becomes(r, Status(Taken(r), 200))
        /\ UNCHANGED <<now, revoked, cache, look, out, told, loginVars, plan, run, effects>>
    BY <1>1 DEF Link, Arrives
  <2>2. PICK x \in RequestRecords : x = Status(Taken(r), 200) /\ x.step = "done"
    <3>1. Taken(r) \in RequestRecords
      BY <2>1, ServedFacts
    <3>2. 200 \in StatusCodes
      BY DEF StatusCodes
    <3>3. Status(Taken(r), 200) \in RequestRecords /\ Status(Taken(r), 200).step = "done"
      BY <3>1, <3>2, StatusFacts
    <3>. QED
      BY <3>3
  <2>3. /\ SessionsInv /\ LoginInv /\ SessionsTypeOK /\ LinkTtl \in Nat
        /\ task \in [Requests -> RequestRecords] /\ run' \in [Requests -> [RunIds -> RunRecords]]
        /\ effects' \subseteq EffectRecords /\ visit[r].step = "idle" /\ issued[r] = 0
    BY <2>1, NothingYet, GatewayAssumption DEF RoutesInv, TypeOK
  <2>4. SessionsInv'
    BY <2>1, <2>3, IssueSound
  <2>5. LoginInv'
    BY <2>1, <2>3, LoginStays DEF SessionsTypeOK
  <2>6. /\ Later /\ \A s \in Requests \ {r} : look'[s] = look[s] /\ visit'[s] = visit[s]
                                             /\ issued'[s] = issued[s]
    <3>1. issued' \in [Sealed -> Nat] /\ \A s \in Sealed : s # r => issued'[s] = issued[s]
      BY <2>1, <2>3 DEF issue, SessionsTypeOK, Sealed
    <3>. QED
      BY <2>1, <2>3, <3>1 DEF Later, SessionsTypeOK, loginVars, Sealed
  <2>7. task' = [task EXCEPT ![r] = x] /\ task'[r].step = "done"
    BY <2>1, <2>2, <2>3 DEF Becomes
  <2>8. TaskSound(r)' /\ RevokeSound(r)'
    BY <2>7, PlainTask DEF ItemSteps
  <2>9. IssuedOnce(r)'
    BY <2>1, <2>3, <2>7 DEF IssuedOnce, PlanOf, loginVars
  <2>. QED
    BY <2>1, <2>3, <2>4, <2>5, <2>6, <2>7, <2>8, <2>9, RequestMoves, ServedFacts
<1>2. CASE "link" \notin worker'.config.flags
  <2>1. PICK t \in RequestRecords : t = Taken(r)
    BY <1>2, ServedFacts DEF Link
  <2>2. /\ Becomes(r, Status(t, 404)) /\ Served(r)
        /\ UNCHANGED <<plan, sessionVars, loginVars, run, effects>>
    BY <1>2, <2>1 DEF Link, sessionVars
  <2>3. 404 \in StatusCodes
    BY DEF StatusCodes
  <2>4. /\ worker' \in [instance: {0} \cup Instances, config: Configs, fingerprint: Configs]
        /\ worker'.instance > 0 => worker'.fingerprint = worker'.config
    BY <2>2, ServedFacts
  <2>. QED
    BY <2>2, <2>3, <2>4, Finished
<1>. QED
  BY <1>1, <1>2

LEMMA AsksSound ==
    ASSUME RoutesInv, NEW r \in Requests, Asks(r)
    PROVE  RoutesInv'
<1>1. /\ task[r].step = "new" /\ PlanOf(r).kind \in {"session", "summary"} /\ Served(r)
      /\ UNCHANGED <<now, issued, revoked, cache, out, told, loginVars, plan, run, effects>>
  BY DEF Asks, Arrives
<1>2. PICK bearer \in Tokens : Resolve(r, PlanOf(r).cookie, bearer)
  <2>1. PlanOf(r).bearer \in Tokens /\ Nobody \in Tokens
    BY PlanFacts DEF Tokens
  <2>. QED
    BY <2>1 DEF Asks
<1>3. /\ SessionsInv /\ LoginInv /\ SessionsTypeOK /\ PlanOf(r).cookie \in Tokens
      /\ task \in [Requests -> RequestRecords] /\ run' \in [Requests -> [RunIds -> RunRecords]]
      /\ effects' \subseteq EffectRecords /\ visit[r].step = "idle" /\ issued[r] = 0
  BY <1>1, NothingYet, PlanFacts DEF RoutesInv, TypeOK, SessionsInv
<1>4. SessionsInv' /\ Later
  BY <1>1, <1>2, <1>3, ResolveSound, LaterSame
<1>5. LoginInv'
  BY <1>1, <1>3, LoginStays DEF SessionsTypeOK
<1>6. PICK x \in RequestRecords : x = [Taken(r) EXCEPT !.step = "lookup"] /\ x.step = "lookup"
  <2>1. Taken(r) \in RequestRecords /\ "lookup" \in RequestSteps
    BY <1>1, ServedFacts DEF RequestSteps
  <2>2. /\ [Taken(r) EXCEPT !.step = "lookup"] \in RequestRecords
        /\ [Taken(r) EXCEPT !.step = "lookup"].step = "lookup"
    BY <2>1, StepFacts
  <2>. QED
    BY <2>2
<1>7. task' = [task EXCEPT ![r] = x] /\ task'[r].step = "lookup"
  BY <1>3, <1>6 DEF Becomes, Asks
<1>8. TaskSound(r)' /\ RevokeSound(r)'
  BY <1>7, PlainTask DEF ItemSteps
<1>9. IssuedOnce(r)'
  BY <1>1, <1>3, <1>7 DEF IssuedOnce, PlanOf, loginVars
<1>10. \A s \in Requests \ {r} : look'[s] = look[s] /\ visit'[s] = visit[s]
                                 /\ issued'[s] = issued[s]
  BY <1>1, <1>2, <1>3 DEF Resolve, SessionsTypeOK, loginVars
<1>. QED
  BY <1>1, <1>3, <1>4, <1>5, <1>7, <1>8, <1>9, <1>10, RequestMoves, ServedFacts

LEMMA TtlFacts ==
    ASSUME SessionsTypeOK, NEW s \in Sealed
    PROVE  ttlSeconds(s) \in Nat /\ issued[s] <= now + ttlSeconds(s)
<1>1. issued[s] \in Nat /\ now \in Nat /\ MinTtl \in Nat
  BY SessionsAssumption DEF SessionsTypeOK
<1>2. issued[s] - now \in Int /\ MinTtl \in Int
  BY <1>1
<1>3. ttlSeconds(s) \in {issued[s] - now, MinTtl}
      /\ ttlSeconds(s) >= issued[s] - now /\ ttlSeconds(s) >= MinTtl
  BY <1>2, LargerFacts DEF ttlSeconds
<1>. QED
  BY <1>1, <1>3

LEMMA LogoutSound ==
    ASSUME RoutesInv, NEW r \in Requests, Logout(r)
    PROVE  RoutesInv'
<1> DEFINE s == Ending(r)
<1>1. PICK t \in RequestRecords : t = Taken(r)
  BY ServedFacts DEF Logout
<1>2. Served(r) /\ task[r].step = "new" /\ UNCHANGED <<sessionVars, loginVars, plan, run, effects>>
  BY DEF Logout, Arrives
<1>3. CASE getBySigned(s)
  <2>1. SessionsTypeOK /\ s \in Sealed /\ issued[s] >= now /\ now \in Nat \ {0} /\ issued[s] \in Nat
    BY <1>3 DEF getBySigned, RoutesInv, SessionsInv, SessionsTypeOK
  <2>2. PICK ttl \in Nat : ttl = ttlSeconds(s) /\ issued[s] <= now + ttl
    BY <2>1, TtlFacts
  <2>3. [t EXCEPT !.step = "revoke", !.ttl = ttl] \in RequestRecords
    <3> DEFINE u == [t EXCEPT !.step = "revoke"]
    <3>1. u \in RequestRecords
      BY StepFacts DEF RequestSteps
    <3>2. [t EXCEPT !.step = "revoke", !.ttl = ttl] = [u EXCEPT !.ttl = ttl]
      BY DEF RequestRecords
    <3>. HIDE DEF u
    <3>3. [u EXCEPT !.ttl = ttl] \in RequestRecords
      BY <3>1 DEF RequestRecords
    <3>. QED
      BY <3>2, <3>3
  <2>4. PICK x \in RequestRecords : x = [t EXCEPT !.step = "revoke", !.ttl = ttl]
    BY <2>3
  <2>5. x.step = "revoke" /\ x.ttl = ttl
    BY <2>4 DEF RequestRecords
  <2>6. task \in [Requests -> RequestRecords] /\ task' = [task EXCEPT ![r] = x]
    BY <1>1, <1>3, <2>2, <2>4 DEF Logout, Becomes, RoutesInv, TypeOK
  <2>7. task'[r] = x
    BY <2>6
  <2>8. TaskSound(r)'
    BY <2>5, <2>7, PlainTask DEF ItemSteps
  <2>9. RevokeSound(r)'
    <3>1. Ending(r)' = Ending(r) /\ UNCHANGED <<issued, now>>
      BY <1>2 DEF Ending, PlanOf, sessionVars
    <3>. QED
      BY <2>1, <2>2, <2>5, <2>7, <3>1 DEF RevokeSound
  <2>10. run' \in [Requests -> [RunIds -> RunRecords]] /\ effects' \subseteq EffectRecords
    BY <1>2 DEF RoutesInv, TypeOK
  <2>. QED
    BY <1>2, <2>5, <2>6, <2>8, <2>9, <2>10, OnlyRequest, ServedFacts
<1>4. CASE ~getBySigned(s)
  <2>1. Becomes(r, Status(t, 200)) /\ 200 \in StatusCodes
    BY <1>1, <1>4 DEF Logout, StatusCodes
  <2>. QED
    BY <1>2, <2>1, Finished, ServedFacts
<1>. QED
  BY <1>3, <1>4

LEMMA RevokedSound ==
    ASSUME RoutesInv, NEW r \in Requests, Revoked(r)
    PROVE  RoutesInv'
<1>1. /\ task \in [Requests -> RequestRecords] /\ task[r].step = "revoke" /\ worker' = worker
      /\ worker \in [instance: {0} \cup Instances, config: Configs, fingerprint: Configs]
      /\ worker.instance > 0 => worker.fingerprint = worker.config
      /\ run' \in [Requests -> [RunIds -> RunRecords]] /\ effects' \subseteq EffectRecords
      /\ UNCHANGED <<now, issued, cache, look, told, loginVars, plan, run, effects>>
      /\ SessionsInv /\ LoginInv /\ SessionsTypeOK
  BY DEF RoutesInv, TypeOK, Revoked
<1>2. task[r] \in RequestRecords /\ task[r].ttl \in Nat
  BY <1>1 DEF RequestRecords
<1>3. CASE UNCHANGED <<revoked, out>> /\ Becomes(r, Status(task[r], 500))
  BY <1>1, <1>2, <1>3, Finished DEF sessionVars, StatusCodes
<1>4. CASE /\ Revoke(Ending(r), task[r].ttl)
           /\ \E code \in {200} \cup (IF PlanOf(r).kind = "revoke" THEN {500} ELSE {}) :
                Becomes(r, Status(task[r], code))
  <2>1. PICK code \in StatusCodes : Becomes(r, Status(task[r], code))
    BY <1>4 DEF StatusCodes
  <2>2. PICK x \in RequestRecords : x = Status(task[r], code) /\ x.step = "done"
    BY <1>2, StatusFacts
  <2>3. task' = [task EXCEPT ![r] = x] /\ task'[r].step = "done"
    BY <1>1, <2>1, <2>2 DEF Becomes
  <2>4. RevokeSound(r)
    BY DEF RoutesInv
  <2>5. SessionsInv'
    BY <1>1, <1>2, <1>4, <2>4, RevokePutSound DEF RevokeSound
  <2>6. LoginInv'
    BY <1>1, LoginStays DEF SessionsTypeOK
  <2>7. Later
    BY <1>1, <1>4 DEF Later, Revoke, SessionsTypeOK
  <2>8. TaskSound(r)' /\ RevokeSound(r)'
    BY <2>3, PlainTask DEF ItemSteps
  <2>9. IssuedOnce(r)'
    <3>1. IssuedOnce(r)
      BY DEF RoutesInv
    <3>. QED
      BY <1>1, <2>3, <3>1 DEF IssuedOnce, PlanOf, loginVars
  <2>. QED
    BY <1>1, <2>3, <2>5, <2>6, <2>7, <2>8, <2>9, RequestMoves DEF loginVars
<1>. QED
  BY <1>3, <1>4 DEF Revoked

LEMMA BeginLoginSound ==
    ASSUME RoutesInv, NEW r \in Requests, BeginLogin(r)
    PROVE  RoutesInv'
<1>1. PICK t \in RequestRecords : t = Taken(r)
  BY ServedFacts DEF BeginLogin
<1>2. /\ Served(r) /\ task[r].step = "new" /\ PlanOf(r).kind = "start"
      /\ UNCHANGED <<plan, run, effects>>
  BY DEF BeginLogin, Arrives
<1>3. CASE UNCHANGED <<sessionVars, loginVars>> /\ Becomes(r, Status(Taken(r), 500))
  <2>1. Becomes(r, Status(t, 500)) /\ 500 \in StatusCodes
    BY <1>1, <1>3 DEF StatusCodes
  <2>2. /\ worker' \in [instance: {0} \cup Instances, config: Configs, fingerprint: Configs]
        /\ worker'.instance > 0 => worker'.fingerprint = worker'.config
    BY <1>2, ServedFacts
  <2>3. UNCHANGED <<plan, sessionVars, loginVars, run, effects>>
    BY <1>2, <1>3
  <2>. QED
    BY <2>1, <2>2, <2>3, Finished
<1>4. CASE Start(worker'.instance, PlanOf(r).login) /\ Becomes(r, Status(Taken(r), 302))
  <2>1. PICK g \in Instances : g = worker'.instance
    BY <1>2, ServedFacts
  <2>2. PICK k \in Logins : k = PlanOf(r).login
    BY PlanFacts
  <2>3. Start(g, k) /\ UNCHANGED <<visit, sessionVars>>
    BY <1>4, <2>1, <2>2 DEF Start
  <2>4. /\ SessionsInv /\ LoginInv /\ SessionsTypeOK
        /\ task \in [Requests -> RequestRecords] /\ run' \in [Requests -> [RunIds -> RunRecords]]
        /\ effects' \subseteq EffectRecords /\ visit[r].step = "idle" /\ issued[r] = 0
    BY <1>2, NothingYet DEF RoutesInv, TypeOK
  <2>5. LoginInv' /\ SessionsInv' /\ Later
    BY <2>3, <2>4, StartSound, SessionsStay, LaterSame DEF SessionsTypeOK, sessionVars
  <2>6. PICK x \in RequestRecords : x = Status(t, 302) /\ x.step = "done"
    <3>1. 302 \in StatusCodes
      BY DEF StatusCodes
    <3>2. Status(t, 302) \in RequestRecords /\ Status(t, 302).step = "done"
      BY <3>1, StatusFacts
    <3>. QED
      BY <3>2
  <2>7. task' = [task EXCEPT ![r] = x] /\ task'[r].step = "done"
    BY <1>1, <1>4, <2>4, <2>6 DEF Becomes
  <2>8. TaskSound(r)' /\ RevokeSound(r)'
    BY <2>7, PlainTask DEF ItemSteps
  <2>9. IssuedOnce(r)'
    BY <1>2, <2>3, <2>4, <2>7 DEF IssuedOnce, PlanOf, sessionVars
  <2>. QED
    BY <1>2, <2>3, <2>4, <2>5, <2>7, <2>8, <2>9, RequestMoves, ServedFacts DEF sessionVars
<1>. QED
  BY <1>3, <1>4 DEF BeginLogin

LEMMA CallbackSound ==
    ASSUME RoutesInv, NEW r \in Requests, Callback(r)
    PROVE  RoutesInv'
<1>1. PICK t \in RequestRecords : t = Taken(r)
  BY ServedFacts DEF Callback
<1>2. /\ Served(r) /\ task[r].step = "new" /\ PlanOf(r).kind = "callback"
      /\ states[PlanOf(r).login] > 0
      /\ UNCHANGED <<sessionVars, states, used, plan, run, effects>>
  BY DEF Callback, Arrives
<1>3. CASE \E code \in {302, 400} : Becomes(r, Status(Taken(r), code)) /\ UNCHANGED visit
  <2>1. PICK code \in {302, 400} : Becomes(r, Status(t, code)) /\ UNCHANGED visit
    BY <1>1, <1>3
  <2>2. code \in StatusCodes
    BY DEF StatusCodes
  <2>3. /\ worker' \in [instance: {0} \cup Instances, config: Configs, fingerprint: Configs]
        /\ worker'.instance > 0 => worker'.fingerprint = worker'.config
    BY <1>2, ServedFacts
  <2>4. UNCHANGED <<plan, sessionVars, loginVars, run, effects>>
    BY <1>2, <2>1 DEF loginVars
  <2>. QED
    BY <2>1, <2>2, <2>3, <2>4, Finished
<1>4. CASE /\ Visited(r, worker'.instance, PlanOf(r).login)
           /\ Becomes(r, [Taken(r) EXCEPT !.step = "login"])
  <2>1. PICK g \in Instances : g = worker'.instance
    BY <1>2, ServedFacts
  <2>2. PICK k \in Logins : k = PlanOf(r).login
    BY PlanFacts
  <2>3. Visited(r, g, k) /\ states[k] > 0
    BY <1>2, <1>4, <2>1, <2>2
  <2>4. /\ SessionsInv /\ LoginInv /\ SessionsTypeOK /\ LoginTypeOK
        /\ task \in [Requests -> RequestRecords] /\ run' \in [Requests -> [RunIds -> RunRecords]]
        /\ effects' \subseteq EffectRecords /\ issued[r] = 0
    BY <1>2, NothingYet DEF RoutesInv, TypeOK
  <2>5. LoginInv' /\ SessionsInv' /\ Later
    BY <1>2, <2>3, <2>4, VisitedSound, SessionsStay, LaterSame DEF SessionsTypeOK, sessionVars
  <2>6. PICK x \in RequestRecords : x = [t EXCEPT !.step = "login"] /\ x.step = "login"
    <3>1. "login" \in RequestSteps
      BY DEF RequestSteps
    <3>2. /\ [t EXCEPT !.step = "login"] \in RequestRecords
          /\ [t EXCEPT !.step = "login"].step = "login"
      BY <3>1, StepFacts
    <3>. QED
      BY <3>2
  <2>7. task' = [task EXCEPT ![r] = x] /\ task'[r].step = "login"
    BY <1>1, <1>4, <2>4, <2>6 DEF Becomes
  <2>8. TaskSound(r)' /\ RevokeSound(r)'
    BY <2>7, PlainTask DEF ItemSteps
  <2>9. visit'[r].step = "consume" /\ \A s \in Requests \ {r} : visit'[s] = visit[s]
    BY <2>3, <2>4 DEF Visited, LoginTypeOK
  <2>10. IssuedOnce(r)'
    BY <1>2, <2>4, <2>7, <2>9 DEF IssuedOnce, PlanOf, sessionVars
  <2>. QED
    BY <1>2, <2>4, <2>5, <2>7, <2>8, <2>9, <2>10, RequestMoves, ServedFacts DEF sessionVars
<1>. QED
  BY <1>3, <1>4 DEF Callback

(* A resolution, or a login, goes on: the request waits. *)
LEMMA Waits ==
    ASSUME RoutesInv, NEW r \in Requests, UNCHANGED gatewayVars, Later, SessionsInv', LoginInv',
           \A s \in Requests \ {r} : look'[s] = look[s] /\ visit'[s] = visit[s]
                                     /\ issued'[s] = issued[s],
           task[r].step # "new", IssuedOnce(r)'
    PROVE  RoutesInv'
<1>1. /\ task \in [Requests -> RequestRecords] /\ run' \in [Requests -> [RunIds -> RunRecords]]
      /\ effects' \subseteq EffectRecords
      /\ worker' \in [instance: {0} \cup Instances, config: Configs, fingerprint: Configs]
      /\ worker'.instance > 0 => worker'.fingerprint = worker'.config
      /\ plan' = plan
  BY DEF RoutesInv, TypeOK, gatewayVars
<1>2. PICK x \in RequestRecords : x = task[r]
  BY <1>1
<1>3. task' = [task EXCEPT ![r] = x] /\ task'[r] = task[r]
  BY <1>1, <1>2 DEF gatewayVars
<1>4. PlanOf(r)' = PlanOf(r)
  BY <1>1 DEF PlanOf
<1>5. TaskSound(r)'
  <2>1. TaskSound(r)
    BY DEF RoutesInv
  <2>. QED
    BY <1>3, <1>4, <2>1 DEF TaskSound, ItemOf, requiresAuth, InSandbox, Runtime, Direct
<1>6. RevokeSound(r)'
  <2>1. SUFFICES ASSUME task[r].step = "revoke"
                 PROVE  /\ Ending(r) \in Sealed /\ issued'[Ending(r)] > 0
                        /\ issued'[Ending(r)] <= now' + task[r].ttl
    BY <1>3, <1>4 DEF RevokeSound, Ending
  <2>2. Ending(r) \in Sealed /\ issued[Ending(r)] > 0 /\ issued[Ending(r)] <= now + task[r].ttl
    BY <2>1 DEF RevokeSound, RoutesInv
  <2>3. issued'[Ending(r)] = issued[Ending(r)]
    BY <2>2 DEF Later
  <2>4. task[r].ttl \in Nat /\ now \in Nat /\ now' \in Nat /\ now' >= now
        /\ issued[Ending(r)] \in Nat
    BY <2>2 DEF RoutesInv, TypeOK, RequestRecords, SessionsInv, SessionsTypeOK, Later
  <2>. QED
    BY <2>2, <2>3, <2>4
<1>. QED
  BY <1>1, <1>3, <1>5, <1>6, RequestMoves

LEMMA LookupSound ==
    ASSUME RoutesInv, NEW r \in Requests, Lookup(r)
    PROVE  RoutesInv'
<1>1. /\ SessionsInv /\ SessionsTypeOK /\ LoginInv /\ TaskSound(r) /\ IssuedOnce(r)
      /\ ResolveStep(r) /\ UNCHANGED <<loginVars, gatewayVars>>
  BY DEF RoutesInv, SessionsInv, Lookup
<1>2. SessionsInv' /\ Later
  BY <1>1, ResolveStepSound
<1>3. /\ UNCHANGED <<now, issued>> /\ \A s \in Requests \ {r} : look'[s] = look[s]
      /\ look[r].step # "idle"
  <2>1. CASE CookieAnswered(r)
    BY <1>1, <2>1 DEF CookieAnswered, SessionsTypeOK
  <2>2. CASE BearerAnswered(r)
    BY <1>1, <2>2 DEF BearerAnswered, SessionsTypeOK
  <2>3. CASE CacheAnswered(r) \/ FreshAnswered(r)
    BY <1>1, <2>3 DEF CacheAnswered, FreshAnswered, SessionsTypeOK
  <2>4. CASE Exchanged(r)
    BY <1>1, <2>4 DEF Exchanged, SessionsTypeOK
  <2>5. CASE NotExchanged(r) \/ LookupFails(r)
    BY <1>1, <2>5 DEF NotExchanged, LookupFails, SessionsTypeOK
  <2>. QED
    BY <1>1, <2>1, <2>2, <2>3, <2>4, <2>5 DEF ResolveStep
<1>4. LoginInv'
  BY <1>1, <1>3, LoginStays DEF SessionsTypeOK
<1>5. task[r].step # "new"
  BY <1>1, <1>3 DEF TaskSound
<1>6. IssuedOnce(r)'
  BY <1>1, <1>3 DEF IssuedOnce, PlanOf, loginVars, gatewayVars
<1>. QED
  BY <1>1, <1>2, <1>3, <1>4, <1>5, <1>6, Waits DEF loginVars

LEMMA LoginTtlFacts ==
    ASSUME NEW remaining \in Told \cup {LoginTtl}
    PROVE  ttlSec(remaining) \in Nat
<1>1. remaining \in Nat /\ MinTtl \in Nat /\ LoginTtl \in Nat
  BY SessionsAssumption, LoginAssumption
<1>2. Larger(MinTtl, remaining) \in {MinTtl, remaining}
  BY <1>1, LargerFacts
<1>. QED
  BY <1>1, <1>2 DEF ttlSec, Smaller

LEMMA LoginGoesOnSound ==
    ASSUME RoutesInv, NEW r \in Requests, LoginGoesOn(r)
    PROVE  RoutesInv'
<1>1. /\ SessionsInv /\ SessionsTypeOK /\ LoginInv /\ LoginTypeOK /\ TaskSound(r) /\ IssuedOnce(r)
      /\ LoginStep(r) /\ UNCHANGED gatewayVars
  BY DEF RoutesInv, SessionsInv, LoginInv, LoginGoesOn
<1>2. LoginInv'
  BY <1>1, LoginStepSound DEF SessionsTypeOK
<1>3. /\ visit[r].step \in {"consume", "discovery", "token", "exchange"}
      /\ visit'[r].step # "idle" /\ \A s \in Requests \ {r} : visit'[s] = visit[s]
  <2>1. visit[r].step \in {"consume", "discovery", "token", "exchange"}
    BY <1>1 DEF LoginStep, Consumed, Proceeds, CallbackFails, LoggedIn
  <2>2. PICK step \in VisitSteps \ {"idle"} : visit' = [visit EXCEPT ![r].step = step]
    BY <1>1 DEF LoginStep, Consumed, Proceeds, CallbackFails, LoggedIn, Goes, VisitSteps
  <2>. QED
    BY <1>1, <2>1, <2>2 DEF LoginTypeOK, Visits
<1>4. /\ PlanOf(r).kind = "callback" /\ task[r].step \in {"login", "done"} /\ issued[r] = 0
  <2>1. issued[r] \in Nat
    BY <1>1 DEF SessionsTypeOK, Sealed
  <2>. QED
    BY <1>1, <1>3, <2>1 DEF IssuedOnce
<1>5. CASE UNCHANGED sessionVars
  <2>1. SessionsInv' /\ Later
    BY <1>1, <1>5, SessionsStay, LaterSame DEF sessionVars
  <2>2. IssuedOnce(r)'
    BY <1>1, <1>3, <1>4, <1>5 DEF IssuedOnce, PlanOf, sessionVars, gatewayVars
  <2>. QED
    BY <1>1, <1>2, <1>3, <1>4, <1>5, <2>1, <2>2, Waits DEF sessionVars
<1>6. CASE LoggedIn(r)
  <2>1. PICK ttl \in Nat : issue(r, ttl)
    BY <1>6, LoginTtlFacts DEF LoggedIn
  <2>2. SessionsInv'
    BY <1>1, <1>4, <1>6, <2>1, IssueSound DEF LoggedIn
  <2>3. issued' \in [Sealed -> Nat] /\ \A s \in Sealed : s # r => issued'[s] = issued[s]
    BY <1>1, <2>1 DEF issue, SessionsTypeOK, Sealed
  <2>4. Later /\ \A s \in Requests \ {r} : look'[s] = look[s] /\ issued'[s] = issued[s]
    BY <1>1, <1>4, <1>6, <2>3 DEF LoggedIn, Later, SessionsTypeOK, Sealed
  <2>5. visit'[r].step = "issued"
    BY <1>1, <1>6 DEF LoggedIn, Goes, LoginTypeOK, Visits
  <2>6. IssuedOnce(r)'
    BY <1>1, <1>4, <2>5 DEF IssuedOnce, PlanOf, gatewayVars
  <2>. QED
    BY <1>1, <1>2, <1>3, <1>4, <2>2, <2>4, <2>6, Waits
<1>. QED
  BY <1>1, <1>5, <1>6 DEF LoginStep, Consumed, Proceeds, CallbackFails, sessionVars

LEMMA TickSound ==
    ASSUME RoutesInv, Tick
    PROVE  RoutesInv'
<1>1. /\ SessionsInv /\ SessionsTypeOK /\ LoginInv /\ now' = now + 1 /\ now \in Nat
      /\ UNCHANGED <<issued, revoked, cache, look, out, told, loginVars, gatewayVars>>
  BY DEF RoutesInv, SessionsInv, SessionsTypeOK, Tick
<1>2. SessionsInv' /\ LoginInv' /\ Later
  BY <1>1, ClockSound, LoginStays DEF Later, SessionsTypeOK
<1>3. \A s \in Requests : TaskSound(s)' /\ IssuedOnce(s)' /\ RevokeSound(s)'
  BY <1>1, <1>2, OthersSound DEF loginVars, gatewayVars
<1>4. \A s \in Requests : Possible(PlanOf(s))'
  BY <1>1 DEF RoutesInv, PlanOf, Possible, gatewayVars
<1>. QED
  BY <1>1, <1>2, <1>3, <1>4 DEF RoutesInv, TypeOK, SessionsInv, LoginInv, gatewayVars

LEMMA RouteSound ==
    ASSUME RoutesInv, NEW r \in Requests, Route(r)
    PROVE  RoutesInv'
BY NotServedSound, LinkSound, AsksSound, ShownSound, LogoutSound, RevokedSound, BeginLoginSound,
   CallbackSound, LookupSound, LoginGoesOnSound DEF Route

-----------------------------------------------------------------------------
(* The MCP handler *)

LEMMA ItemFacts ==
    ASSUME RoutesInv, NEW r \in Requests, task[r].step \in ItemSteps
    PROVE  /\ task[r] \in RequestRecords /\ PlanOf(r).kind = "mcp"
           /\ PlanOf(r).items \in Seq(Items) /\ task[r].item \in DOMAIN PlanOf(r).items
           /\ task[r].item \in Nat /\ task[r].item >= 1
           /\ task[r].item <= Len(PlanOf(r).items) /\ Len(PlanOf(r).items) \in Nat
           /\ task[r].config = PlanOf(r).env.config
           /\ ItemOf(r) = PlanOf(r).items[task[r].item] /\ ItemOf(r) \in Items
           /\ task[r].step \in {"auth", "run", "sandbox"} => ItemOf(r).kind = "call"
<1>1. /\ task[r] \in RequestRecords /\ TaskSound(r) /\ PlanOf(r).items \in Seq(Items)
  BY PlanFacts DEF RoutesInv, TypeOK
<1>2. PlanOf(r).kind = "mcp" /\ task[r].item \in DOMAIN PlanOf(r).items
      /\ task[r].config = PlanOf(r).env.config
      /\ (task[r].step \in {"auth", "run", "sandbox"} => ItemOf(r).kind = "call")
  BY <1>1 DEF TaskSound
<1>. QED
  BY <1>1, <1>2 DEF ItemOf

LEMMA OnwardFacts ==
    ASSUME NEW t \in RequestRecords, NEW r, PlanOf(r).items \in Seq(Items),
           t.item \in DOMAIN PlanOf(r).items
    PROVE  /\ Onward(r, t) \in RequestRecords /\ Onward(r, t).answers = t.answers
           /\ \/ /\ t.item < Len(PlanOf(r).items) /\ Onward(r, t).step = "item"
                 /\ Onward(r, t).item = t.item + 1 /\ Onward(r, t).config = t.config
                 /\ t.item + 1 \in DOMAIN PlanOf(r).items
              \/ /\ t.item = Len(PlanOf(r).items)
                 /\ Onward(r, t).step = "done" /\ Onward(r, t).status = 200
<1> DEFINE n == Len(PlanOf(r).items)
<1>1. n \in Nat /\ t.item \in 1 .. n /\ DOMAIN PlanOf(r).items = 1 .. n
  OBVIOUS
<1>2. CASE t.item < n
  <2> DEFINE u == [t EXCEPT !.step = "item", !.session = Nobody]
             v == [u EXCEPT !.item = t.item + 1, !.nested = 0]
  <2>1. Onward(r, t) = [t EXCEPT !.item = @ + 1, !.step = "item", !.session = Nobody, !.nested = 0]
    BY <1>2 DEF Onward
  <2>2. Onward(r, t) = v
    BY <2>1 DEF RequestRecords
  <2>3. /\ u \in RequestRecords /\ u.step = "item" /\ u.item = t.item /\ u.config = t.config
        /\ u.answers = t.answers
    <3>1. Nobody \in Tokens
      BY DEF Tokens
    <3>. QED
      BY <3>1 DEF RequestRecords, RequestSteps
  <2>4. t.item + 1 \in Nat /\ t.item + 1 \in 1 .. n
    BY <1>1, <1>2
  <2>. HIDE DEF u
  <2>5. /\ v \in RequestRecords /\ v.step = "item" /\ v.item = t.item + 1 /\ v.config = t.config
        /\ v.answers = t.answers
    BY <2>3, <2>4 DEF RequestRecords
  <2>. QED
    BY <1>1, <1>2, <2>2, <2>4, <2>5
<1>3. CASE t.item = n
  <2>1. Onward(r, t) = Status(t, 200) /\ 200 \in StatusCodes
    BY <1>1, <1>3 DEF Onward, StatusCodes
  <2>. QED
    BY <1>3, <2>1, StatusFacts
<1>. QED
  BY <1>1, <1>2, <1>3

(* On to the next item. *)
LEMMA OnwardSound ==
    ASSUME RoutesInv, NEW r \in Requests, task[r].step \in ItemSteps,
           NEW t \in RequestRecords, t.item = task[r].item, t.config = task[r].config,
           Becomes(r, Onward(r, t)), UNCHANGED <<plan, sessionVars, loginVars, worker>>,
           run' \in [Requests -> [RunIds -> RunRecords]], effects' \subseteq EffectRecords
    PROVE  RoutesInv'
<1>1. /\ PlanOf(r).kind = "mcp" /\ PlanOf(r).items \in Seq(Items)
      /\ t.item \in DOMAIN PlanOf(r).items /\ t.config = PlanOf(r).env.config
  BY ItemFacts
<1>2. PICK x \in RequestRecords : x = Onward(r, t)
  BY <1>1, OnwardFacts
<1>3. /\ task \in [Requests -> RequestRecords]
      /\ worker' \in [instance: {0} \cup Instances, config: Configs, fingerprint: Configs]
      /\ worker'.instance > 0 => worker'.fingerprint = worker'.config
  BY DEF RoutesInv, TypeOK
<1>4. task' = [task EXCEPT ![r] = x] /\ task'[r] = x /\ PlanOf(r)' = PlanOf(r)
  BY <1>2, <1>3 DEF Becomes, PlanOf
<1>5. \/ x.step = "done"
      \/ /\ x.step = "item" /\ x.item \in DOMAIN PlanOf(r).items
         /\ x.config = PlanOf(r).env.config
  BY <1>1, <1>2, OnwardFacts
<1>6. TaskSound(r)'
  BY <1>1, <1>4, <1>5 DEF TaskSound, ItemSteps
<1>7. RevokeSound(r)'
  BY <1>4, <1>5 DEF RevokeSound
<1>. QED
  BY <1>3, <1>4, <1>5, <1>6, <1>7, OnlyRequest DEF ItemSteps

LEMMA AnsweredSound ==
    ASSUME RoutesInv, NEW r \in Requests, task[r].step \in ItemSteps, NEW a \in Answers,
           Answered(r, a), UNCHANGED <<plan, sessionVars, loginVars, worker>>,
           run' \in [Requests -> [RunIds -> RunRecords]], effects' \subseteq EffectRecords
    PROVE  RoutesInv'
<1> DEFINE as == Append(task[r].answers, [item |-> task[r].item, answer |-> a])
<1>1. task[r] \in RequestRecords /\ task[r].item \in Nat
  BY ItemFacts
<1>2. as \in Seq([item: Nat, answer: Answers])
  BY <1>1 DEF RequestRecords
<1>3. [task[r] EXCEPT !.answers = as] \in RequestRecords
  <2>. HIDE DEF as
  <2>. QED
    BY <1>1, <1>2 DEF RequestRecords
<1>4. PICK t \in RequestRecords : t = [task[r] EXCEPT !.answers = as]
  BY <1>3
<1>5. t.item = task[r].item /\ t.config = task[r].config /\ Becomes(r, Onward(r, t))
  BY <1>1, <1>4 DEF RequestRecords, Answered
<1>. QED
  BY <1>5, OnwardSound

LEMMA BreaksOffSound ==
    ASSUME RoutesInv, NEW r \in Requests, task[r].step \in ItemSteps, NEW code \in {400, 401},
           BreaksOff(r, code), UNCHANGED <<plan, sessionVars, loginVars, worker, run, effects>>
    PROVE  RoutesInv'
<1>1. task[r] \in RequestRecords /\ code \in StatusCodes
  BY ItemFacts DEF StatusCodes
<1>2. PICK t \in RequestRecords : t = Status(task[r], code) /\ t.step = "done"
  BY <1>1, StatusFacts
<1>3. [t EXCEPT !.answers = <<>>] \in RequestRecords /\ [t EXCEPT !.answers = <<>>].step = "done"
  <2>1. PICK none \in Seq([item: Nat, answer: Answers]) : none = <<>>
    <3>1. <<>> \in Seq([item: Nat, answer: Answers])
      OBVIOUS
    <3>. QED
      BY <3>1
  <2>2. [t EXCEPT !.answers = none] \in RequestRecords
    BY DEF RequestRecords
  <2>. QED
    BY <1>2, <2>1, <2>2 DEF RequestRecords
<1>4. PICK x \in RequestRecords : x = [t EXCEPT !.answers = <<>>] /\ x.step = "done"
  BY <1>3
<1>5. /\ task \in [Requests -> RequestRecords] /\ run' \in [Requests -> [RunIds -> RunRecords]]
      /\ effects' \subseteq EffectRecords
      /\ worker' \in [instance: {0} \cup Instances, config: Configs, fingerprint: Configs]
      /\ worker'.instance > 0 => worker'.fingerprint = worker'.config
  BY DEF RoutesInv, TypeOK
<1>6. task' = [task EXCEPT ![r] = x] /\ task'[r].step = "done"
  BY <1>2, <1>4, <1>5 DEF BreaksOff, Becomes
<1>7. TaskSound(r)' /\ RevokeSound(r)'
  BY <1>6, PlainTask DEF ItemSteps
<1>. QED
  BY <1>4, <1>5, <1>6, <1>7, OnlyRequest DEF ItemSteps

(* The call of the item goes on. *)
LEMMA CallGoesOn ==
    ASSUME RoutesInv, NEW r \in Requests, task[r].step \in ItemSteps, ItemOf(r).kind = "call",
           NEW x \in RequestRecords, x.item = task[r].item, x.config = task[r].config,
           x.step \in {"run", "sandbox"}, x.step = "sandbox" => InSandbox(r),
           task' = [task EXCEPT ![r] = x], UNCHANGED <<plan, sessionVars, loginVars, worker>>,
           run' \in [Requests -> [RunIds -> RunRecords]], effects' \subseteq EffectRecords
    PROVE  RoutesInv'
<1>1. /\ task \in [Requests -> RequestRecords]
      /\ worker' \in [instance: {0} \cup Instances, config: Configs, fingerprint: Configs]
      /\ worker'.instance > 0 => worker'.fingerprint = worker'.config
  BY DEF RoutesInv, TypeOK
<1>2. task'[r] = x /\ PlanOf(r)' = PlanOf(r)
  BY <1>1 DEF PlanOf
<1>3. ItemOf(r)' = ItemOf(r) /\ InSandbox(r)' = InSandbox(r)
  BY <1>2 DEF ItemOf, InSandbox, Runtime, Direct
<1>4. TaskSound(r)'
  BY <1>2, <1>3, ItemFacts DEF TaskSound
<1>5. RevokeSound(r)'
  BY <1>2 DEF RevokeSound
<1>. QED
  BY <1>1, <1>4, <1>5, OnlyRequest DEF ItemSteps

LEMMA AuthenticateSound ==
    ASSUME RoutesInv, NEW r \in Requests, Authenticate(r)
    PROVE  RoutesInv'
<1>1. /\ task[r].step = "item" /\ ItemOf(r).kind = "call" /\ requiresAuth(r)
      /\ UNCHANGED <<now, issued, revoked, cache, out, told, loginVars, plan, worker, run, effects>>
  BY DEF Authenticate, Calling
<1>2. /\ SessionsInv /\ SessionsTypeOK /\ LoginInv
      /\ task \in [Requests -> RequestRecords] /\ run' \in [Requests -> [RunIds -> RunRecords]]
      /\ effects' \subseteq EffectRecords
      /\ worker' \in [instance: {0} \cup Instances, config: Configs, fingerprint: Configs]
      /\ worker'.instance > 0 => worker'.fingerprint = worker'.config
  BY <1>1 DEF RoutesInv, TypeOK
<1>3. /\ PlanOf(r).kind = "mcp" /\ task[r].item \in DOMAIN PlanOf(r).items
      /\ task[r].config = PlanOf(r).env.config /\ visit[r].step = "idle" /\ issued[r] = 0
  BY <1>1, ItemFacts, NothingYet DEF ItemSteps
<1>4. PICK cookie \in Tokens, bearer \in Tokens : Resolve(r, cookie, bearer)
  BY PlanFacts DEF Authenticate
<1>5. SessionsInv' /\ Later
  BY <1>1, <1>2, <1>4, ResolveSound, LaterSame
<1>6. LoginInv'
  BY <1>1, <1>2, LoginStays DEF SessionsTypeOK
<1>7. PICK x \in RequestRecords : /\ x = [task[r] EXCEPT !.step = "auth"] /\ x.step = "auth"
                                  /\ x.item = task[r].item /\ x.config = task[r].config
  <2>1. task[r] \in RequestRecords /\ "auth" \in RequestSteps
    BY <1>2 DEF RequestSteps
  <2>2. [task[r] EXCEPT !.step = "auth"] \in RequestRecords
    BY <2>1, StepFacts
  <2>. QED
    BY <2>1, <2>2, StepFacts
<1>8. task' = [task EXCEPT ![r] = x] /\ task'[r] = x /\ PlanOf(r)' = PlanOf(r)
  BY <1>1, <1>2, <1>7 DEF Authenticate, Becomes, PlanOf
<1>9. TaskSound(r)' /\ RevokeSound(r)'
  BY <1>1, <1>3, <1>7, <1>8 DEF TaskSound, RevokeSound, ItemOf, requiresAuth
<1>10. IssuedOnce(r)'
  BY <1>1, <1>3, <1>7, <1>8 DEF IssuedOnce, loginVars
<1>11. \A s \in Requests \ {r} : look'[s] = look[s] /\ visit'[s] = visit[s]
                                 /\ issued'[s] = issued[s]
  BY <1>1, <1>2, <1>4 DEF Resolve, SessionsTypeOK, loginVars
<1>. QED
  BY <1>1, <1>2, <1>5, <1>6, <1>8, <1>9, <1>10, <1>11, RequestMoves

LEMMA McpSound ==
    ASSUME RoutesInv, NEW r \in Requests, Mcp(r)
    PROVE  RoutesInv'
<1>1. PICK t \in RequestRecords : /\ t = Taken(r) /\ t.config = PlanOf(r).env.config
  <2>1. Served(r) /\ task[r] \in RequestRecords
    BY DEF Mcp, RoutesInv, TypeOK
  <2>2. Taken(r).config = PlanOf(r).env.config
    BY <2>1, ServedFacts DEF RequestRecords
  <2>. QED
    BY <2>1, <2>2, ServedFacts
<1>2. /\ Served(r) /\ task[r].step = "new" /\ PlanOf(r).kind = "mcp"
      /\ UNCHANGED <<sessionVars, loginVars, plan, run, effects>>
  BY DEF Mcp, Arrives
<1>3. /\ worker' \in [instance: {0} \cup Instances, config: Configs, fingerprint: Configs]
      /\ worker'.instance > 0 => worker'.fingerprint = worker'.config
  BY <1>2, ServedFacts
<1>4. CASE PlanOf(r).items = <<>> \/ AllNotes(r)
  <2>1. PICK code \in StatusCodes : Becomes(r, Status(t, code))
    BY <1>1, <1>4 DEF Mcp, StatusCodes
  <2>. QED
    BY <1>2, <1>3, <2>1, Finished
<1>5. CASE ~(PlanOf(r).items = <<>> \/ AllNotes(r))
  <2>1. [t EXCEPT !.step = "item", !.item = 1] \in RequestRecords
    BY DEF RequestRecords, RequestSteps
  <2>2. PICK x \in RequestRecords : x = [t EXCEPT !.step = "item", !.item = 1]
    BY <2>1
  <2>3. x.step = "item" /\ x.item = 1 /\ x.config = PlanOf(r).env.config
    BY <1>1, <2>2 DEF RequestRecords
  <2>4. /\ task \in [Requests -> RequestRecords] /\ run' \in [Requests -> [RunIds -> RunRecords]]
        /\ effects' \subseteq EffectRecords
    BY <1>2 DEF RoutesInv, TypeOK
  <2>5. task' = [task EXCEPT ![r] = x] /\ task'[r] = x /\ PlanOf(r)' = PlanOf(r)
    BY <1>1, <1>2, <1>5, <2>2, <2>4 DEF Mcp, Becomes, PlanOf
  <2>6. 1 \in DOMAIN PlanOf(r).items
    BY <1>5, PlanFacts
  <2>7. TaskSound(r)' /\ RevokeSound(r)'
    BY <1>2, <2>3, <2>5, <2>6 DEF TaskSound, RevokeSound
  <2>. QED
    BY <1>2, <1>3, <2>3, <2>4, <2>5, <2>7, OnlyRequest
<1>. QED
  BY <1>4, <1>5

-----------------------------------------------------------------------------
(* Runs *)

LEMMA OffType ==
    /\ Off \in RunRecords
    /\ \A item \in Nat, answer \in {"error", "confirm", "disabled", "challenge", "limit", "auth", "ok"} :
          Ended(item, answer) \in RunRecords
<1>1. PICK none \in Seq(ApiSteps) : none = <<>>
  <2>1. <<>> \in Seq(ApiSteps)
    OBVIOUS
  <2>. QED
    BY <2>1
<1>2. Off \in RunRecords
  BY <1>1 DEF Off, RunRecords, Answers
<1>3. ASSUME NEW item \in Nat,
             NEW answer \in {"error", "confirm", "disabled", "challenge", "limit", "auth", "ok"}
      PROVE  Ended(item, answer) \in RunRecords
  <2>1. answer \in Answers \cup {"none", "threw", "challenge", "limit", "auth"}
    BY DEF Answers
  <2>2. [Off EXCEPT !.state = "ended", !.item = item] \in RunRecords
    BY <1>2 DEF RunRecords
  <2> DEFINE u == [Off EXCEPT !.state = "ended", !.item = item]
  <2>3. Ended(item, answer) = [u EXCEPT !.answer = answer]
    BY DEF Ended, Off
  <2>. HIDE DEF u
  <2>. QED
    BY <2>1, <2>2, <2>3 DEF RunRecords, u
<1>. QED
  BY <1>2, <1>3

(* A run that callTool starts, and what it answers at once. *)
Opened(x, tool, known, confirmed, flags) ==
    /\ x.state = "on" /\ x.answer = "none" /\ x.tool = tool /\ tool \in Tools
    /\ x.known = known /\ x.chain \in Chains(tool)
    /\ toolRequiresAuth(tool) => known
    /\ FlagOf(tool) \subseteq flags
    /\ requireConfirmedWrite(tool) => confirmed

Closed(x, tool, known) ==
    /\ x.state = "ended" /\ x.answer \in {"error", "challenge", "disabled", "confirm"}
    /\ x.answer = "challenge" => toolRequiresAuth(tool) /\ ~known

LEMMA CallToolRuns ==
    ASSUME NEW item \in Nat, NEW tool, NEW known, NEW confirmed, known \in BOOLEAN,
           NEW source, NEW flags, NEW x \in callTool(item, tool, known, confirmed, source, flags)
    PROVE  /\ x \in RunRecords /\ x.item = item
           /\ Opened(x, tool, known, confirmed, flags) \/ Closed(x, tool, known)
<1> DEFINE gate == Refusal(tool, known, confirmed, source, flags)
<1>1. CASE gate = "open"
  <2>1. /\ tool \in Tools /\ (toolRequiresAuth(tool) => known) /\ FlagOf(tool) \subseteq flags
        /\ requireConfirmedWrite(tool) => confirmed
    BY <1>1 DEF Refusal
  <2>2. PICK c \in Chains(tool) :
          x = [Off EXCEPT !.state = "on", !.item = item, !.tool = tool, !.known = known, !.chain = c]
    BY <1>1 DEF callTool
  <2>3. c \in Seq(ApiSteps)
    BY <2>1, ChainsWrite
  <2>4. x = [state |-> "on", item |-> item, tool |-> tool, known |-> known, chain |-> c,
             answer |-> "none"]
    BY <2>2 DEF Off
  <2>5. x \in RunRecords
    BY <2>1, <2>3, <2>4 DEF RunRecords, Answers
  <2>. QED
    <3>1. /\ x.state = "on" /\ x.answer = "none" /\ x.tool = tool /\ x.known = known
          /\ x.item = item /\ x.chain = c
      BY <2>4
    <3>2. Opened(x, tool, known, confirmed, flags)
      <4>1. x.state = "on" /\ x.answer = "none" /\ x.tool = tool /\ tool \in Tools
        BY <2>1, <3>1
      <4>2. x.known = known /\ x.chain \in Chains(tool)
        BY <2>2, <3>1, Zenon
      <4>3. /\ toolRequiresAuth(tool) => known
            /\ requireConfirmedWrite(tool) => confirmed
            /\ FlagOf(tool) \subseteq flags
        BY <2>1, Zenon
      <4>. QED
        BY <4>1, <4>2, <4>3, Zenon DEF Opened
    <3>. QED
      BY <2>5, <3>1, <3>2, Zenon
<1>2. CASE gate # "open"
  <2>1. gate \in {"error", "challenge", "disabled", "confirm"}
        /\ (gate = "challenge" => toolRequiresAuth(tool) /\ ~known)
    BY <1>2 DEF Refusal
  <2> DEFINE a == withValidatedStructuredContent(tool, gate)
  <2>2. x = Ended(item, a)
    BY <1>2 DEF callTool
  <2>3. a \in {"error", "challenge", "disabled", "confirm"} /\ (a = "challenge" => gate = "challenge")
    BY <2>1 DEF withValidatedStructuredContent
  <2>. HIDE DEF gate, a
  <2>4. x \in RunRecords
    BY <2>2, <2>3, OffType
  <2>5. x.item = item /\ x.state = "ended" /\ x.answer = a
    BY <2>2 DEF Ended, Off
  <2>. QED
    BY <2>1, <2>3, <2>4, <2>5 DEF Closed
<1>. QED
  BY <1>1, <1>2

(* The call that a run is for. *)
CallFor(r, k, item) ==
    IF k = 0 THEN PlanOf(r).items[item].call ELSE PlanOf(r).items[item].code[k]

(* The confirmation that a tool needs if it calls itself destructive. *)
ConfirmedFor(r, c) ==
    IF PlanOf(r).codemode THEN c.confirmed /\ c.argument # "no" ELSE c.confirmed

(* Run k of r may start as x, for item. *)
Starts(r, k, item, x) ==
    /\ x \in RunRecords /\ RunSound(r, k, x) /\ x.item = item /\ x.state \in {"on", "ended"}
    /\ x.answer = "challenge" => k > 0

LEMMA GrantedSound ==
    ASSUME NEW r \in Requests, NEW k \in RunIds, NEW item \in Nat, NEW tool, NEW known \in BOOLEAN,
           NEW confirmed \in BOOLEAN, NEW source, k <= MaxNestedCalls,
           tool \in PublishTools /\ confirmed = TRUE => ConfirmedFor(r, CallFor(r, k, item)),
           toolRequiresAuth(tool) /\ known = FALSE => k > 0,
           NEW x \in callTool(item, tool, known, confirmed, source, PlanOf(r).env.config.flags)
    PROVE  Starts(r, k, item, x)
<1> DEFINE flags == PlanOf(r).env.config.flags
<1>1. /\ x \in RunRecords /\ x.item = item
      /\ Opened(x, tool, known, confirmed, flags) \/ Closed(x, tool, known)
  BY CallToolRuns
<1>2. k \in Nat /\ MaxNestedCalls \in Nat
  BY GatewayAssumption DEF RunIds
<1>3. CASE x.state = "ended"
  BY <1>1, <1>2, <1>3 DEF Starts, RunSound, Closed, Opened
<1>4. CASE x.state = "on"
  <2>1. ASSUME NEW i \in DOMAIN x.chain, x.chain[i].writes
        PROVE  Permitted(Effect(r, k, x, x.chain[i]))
    <3> DEFINE e == Effect(r, k, x, x.chain[i])
    <3>1. /\ e.known = known /\ e.tool = tool /\ e.request = r /\ e.run = k /\ e.item = item
          /\ e.call = x.chain[i].call
      BY <1>1, <1>4 DEF Effect, Opened, Closed
    <3>2. CallOf(e) = CallFor(r, k, item)
      BY <3>1 DEF CallOf, CallFor
    <3>. HIDE DEF e
    <3>3. tool \in Tools \ ReadTools /\ (x.chain[i].call = "publish" => FlagOf(tool) = {"publish"})
      BY <1>1, <1>4, <2>1, ChainsWrite DEF Opened, Closed
    <3>4. known
      BY <1>1, <1>4, <3>3 DEF Opened, Closed, toolRequiresAuth, ReadTools
    <3>5. tool \in PublishTools => ConfirmedFor(r, CallFor(r, k, item))
      BY <1>1, <1>4 DEF Opened, Closed, requireConfirmedWrite, PublishTools
    <3>6. e.call = "publish" => "publish" \in flags
      BY <1>1, <1>4, <3>1, <3>3 DEF Opened, Closed
    <3>7. Permitted(e)
      BY <3>1, <3>2, <3>3, <3>4, <3>5, <3>6 DEF Permitted, ReadOnlyHint, DestructiveHint, ConfirmedFor
    <3>. QED
      BY <3>7 DEF e
  <2>. QED
    BY <1>1, <1>2, <1>4, <2>1 DEF Starts, RunSound, Opened, Closed
<1>. QED
  BY <1>1, <1>3, <1>4 DEF Opened, Closed, Starts

(* What a call of a capability starts. *)
LEMMA CapabilitySound ==
    ASSUME NEW r \in Requests, NEW k \in RunIds, NEW item \in Nat, NEW c \in Calls,
           NEW known \in BOOLEAN, k <= MaxNestedCalls, PlanOf(r).codemode,
           c = CallFor(r, k, item), known = TRUE \/ k > 0,
           NEW x \in executeCapability(item, c, known, PlanOf(r).env.config.flags)
    PROVE  Starts(r, k, item, x)
<1> DEFINE tool == nativeToolName(c.capability)
<1>1. k \in Nat /\ MaxNestedCalls \in Nat
  BY GatewayAssumption DEF RunIds
<1>2. CASE \E a \in {"error", "confirm"} : x = Ended(item, a)
  <2>1. PICK a \in {"error", "confirm"} : x = Ended(item, a)
    BY <1>2
  <2>2. x \in RunRecords
    BY <2>1, OffType
  <2>3. x.item = item /\ x.state = "ended" /\ x.answer = a
    BY <2>1 DEF Ended, Off
  <2>. QED
    BY <1>1, <2>2, <2>3 DEF RunSound, Starts
<1>3. CASE ~\E a \in {"error", "confirm"} : x = Ended(item, a)
  <2>1. PICK confirmed \in BOOLEAN : confirmed = Confirmed(c)
    BY DEF Confirmed, Calls
  <2>2. /\ confirmationRequired(c.capability) => c.confirmed
        /\ x \in callTool(item, tool, known, confirmed, c.source, PlanOf(r).env.config.flags)
    BY <1>3, <2>1 DEF executeCapability
  <2>3. tool \in PublishTools => c.capability = tool
    BY DEF nativeToolName, PublishTools
  <2>4. confirmed => c.argument # "no"
    BY <2>1 DEF Confirmed
  <2>5. tool \in PublishTools /\ confirmed = TRUE => ConfirmedFor(r, CallFor(r, k, item))
    BY <2>2, <2>3, <2>4 DEF ConfirmedFor, confirmationRequired, DestructiveHint
  <2>6. toolRequiresAuth(tool) /\ known = FALSE => k > 0
    OBVIOUS
  <2>. HIDE DEF tool
  <2>7. x \in callTool(item, tool, known, confirmed, c.source, PlanOf(r).env.config.flags)
    BY <2>2 DEF tool
  <2>. QED
    BY <2>5, <2>6, <2>7, GrantedSound
<1>. QED
  BY <1>2, <1>3

(* A run that ends is done; one that goes on has less to write.            *)
LEMMA StopsSound ==
    ASSUME NEW r \in Requests, NEW k \in RunIds, NEW x \in RunRecords, RunSound(r, k, x),
           x.state = "on", NEW a \in {"ok", "error", "threw", "reported"}
    PROVE  /\ Stops(x, a) \in RunRecords /\ RunSound(r, k, Stops(x, a))
           /\ Stops(x, a).item = x.item /\ Stops(x, a).state = "ended" /\ Stops(x, a).answer = a
<1>1. a \in Answers \cup {"none", "threw", "challenge", "limit", "auth"}
  BY DEF Answers
<1>2. PICK none \in Seq(ApiSteps) : none = <<>>
  <2>1. <<>> \in Seq(ApiSteps)
    OBVIOUS
  <2>. QED
    BY <2>1
<1> DEFINE u == [x EXCEPT !.state = "ended", !.answer = a]
           y == [u EXCEPT !.chain = none]
<1>3. u \in RunRecords /\ u.item = x.item /\ u.state = "ended" /\ u.answer = a
  BY <1>1 DEF RunRecords
<1>4. Stops(x, a) = y
  BY <1>2 DEF Stops, RunRecords
<1>. HIDE DEF u
<1>5. y \in RunRecords /\ y.item = x.item /\ y.state = "ended" /\ y.answer = a
  BY <1>3 DEF RunRecords
<1>6. ~(k > MaxNestedCalls)
  BY DEF RunSound
<1>. HIDE DEF y
<1>7. RunSound(r, k, y)
  BY <1>5, <1>6 DEF RunSound
<1>. QED
  BY <1>4, <1>5, <1>7

LEMMA ChainSound ==
    ASSUME NEW r \in Requests, NEW k \in RunIds, NEW x \in RunRecords, RunSound(r, k, x),
           x.state = "on", NEW c \in Seq(ApiSteps),
           \A i \in DOMAIN c : \E j \in DOMAIN x.chain : c[i] = x.chain[j]
    PROVE  /\ [x EXCEPT !.chain = c] \in RunRecords /\ RunSound(r, k, [x EXCEPT !.chain = c])
           /\ [x EXCEPT !.chain = c].item = x.item /\ [x EXCEPT !.chain = c].state = "on"
<1> DEFINE y == [x EXCEPT !.chain = c]
<1>1. /\ y \in RunRecords /\ y.item = x.item /\ y.state = "on" /\ y.answer = x.answer
      /\ y.tool = x.tool /\ y.known = x.known /\ y.chain = c
  BY DEF RunRecords
<1>. HIDE DEF y
<1>2. ASSUME NEW i \in DOMAIN y.chain, y.chain[i].writes
      PROVE  Permitted(Effect(r, k, y, y.chain[i]))
  <2>1. PICK j \in DOMAIN x.chain : c[i] = x.chain[j]
    BY <1>1, <1>2
  <2>2. x.chain[j].writes /\ Effect(r, k, y, y.chain[i]) = Effect(r, k, x, x.chain[j])
    BY <1>1, <1>2, <2>1 DEF Effect
  <2>. QED
    BY <2>2 DEF RunSound
<1>3. RunSound(r, k, y)
  BY <1>1, <1>2 DEF RunSound
<1>. QED
  BY <1>1, <1>3 DEF y

(* Run k of r may go on as y, being x. *)
MayBecome(r, k, x, y) ==
    y \in RunRecords /\ RunSound(r, k, y) /\ y.item = x.item /\ y.state \in {"on", "ended"}

LEMMA StepSound ==
    ASSUME NEW r \in Requests, NEW k \in RunIds, NEW x \in RunRecords, RunSound(r, k, x),
           x.state = "on", x.chain # <<>>, NEW y \in StepAnswered(x) \cup {StepFailed(x)}
    PROVE  MayBecome(r, k, x, y)
<1>1. x.chain \in Seq(ApiSteps)
  BY DEF RunRecords
<1>2. Tail(x.chain) \in Seq(ApiSteps)
      /\ \A i \in DOMAIN Tail(x.chain) : \E j \in DOMAIN x.chain : Tail(x.chain)[i] = x.chain[j]
  <2>1. Tail(x.chain) \in Seq(ApiSteps)
    BY <1>1
  <2>2. ASSUME NEW i \in DOMAIN Tail(x.chain)
        PROVE  \E j \in DOMAIN x.chain : Tail(x.chain)[i] = x.chain[j]
    <3>1. i + 1 \in DOMAIN x.chain /\ Tail(x.chain)[i] = x.chain[i + 1]
      BY <1>1, <2>2
    <3>. QED
      BY <3>1
  <2>. QED
    BY <2>1, <2>2
<1>3. MayBecome(r, k, x, GoesOn(x))
  <2>1. PICK c \in Seq(ApiSteps) : c = Tail(x.chain)
    BY <1>2
  <2>2. GoesOn(x) = [x EXCEPT !.chain = c]
    BY <2>1 DEF GoesOn
  <2>3. \A i \in DOMAIN c : \E j \in DOMAIN x.chain : c[i] = x.chain[j]
    BY <1>2, <2>1
  <2>. QED
    BY <2>2, <2>3, ChainSound DEF MayBecome
<1>4. MayBecome(r, k, x, [x EXCEPT !.chain = <<>>])
  <2>1. <<>> \in Seq(ApiSteps)
    OBVIOUS
  <2>2. PICK c \in Seq(ApiSteps) : c = <<>>
    BY <2>1
  <2>3. \A i \in DOMAIN c : \E j \in DOMAIN x.chain : c[i] = x.chain[j]
    BY <2>2
  <2>4. MayBecome(r, k, x, [x EXCEPT !.chain = c])
    BY <2>3, ChainSound DEF MayBecome
  <2>. QED
    BY <2>2, <2>4
<1>5. \A a \in {"ok", "error", "threw", "reported"} : MayBecome(r, k, x, Stops(x, a))
  BY StopsSound DEF MayBecome
<1>6. Head(x.chain) \in ApiSteps
  BY <1>1
<1>7. CASE y \in StepAnswered(x)
  <2>1. \/ y = [x EXCEPT !.chain = <<>>] \/ y = GoesOn(x) \/ y = Stops(x, "error")
    BY <1>7 DEF StepAnswered
  <2>. QED
    BY <1>3, <1>4, <1>5, <2>1
<1>8. CASE y = StepFailed(x)
  <2>1. Head(x.chain).fails \in {"caught", "skipped", "thrown", "reported"}
    BY <1>6 DEF ApiSteps
  <2>2. y = GoesOn(x) \/ \E a \in {"error", "threw", "reported"} : y = Stops(x, a)
    BY <1>8, <2>1 DEF StepFailed
  <2>. QED
    BY <1>3, <1>5, <2>2
<1>. QED
  BY <1>7, <1>8

(* What run x writes with its next step was asked for. *)
LEMMA WrittenSound ==
    ASSUME NEW r \in Requests, NEW k \in RunIds, NEW x \in RunRecords, RunSound(r, k, x),
           x.state = "on", x.chain # <<>>, Head(x.chain).writes
    PROVE  /\ Effect(r, k, x, Head(x.chain)) \in EffectRecords
           /\ Permitted(Effect(r, k, x, Head(x.chain)))
<1>1. x.chain \in Seq(ApiSteps)
  BY DEF RunRecords
<1>2. 1 \in DOMAIN x.chain /\ Head(x.chain) = x.chain[1] /\ Head(x.chain) \in ApiSteps
  BY <1>1
<1>3. Head(x.chain).call \in ApiWrites
  BY <1>2 DEF ApiSteps
<1>4. x.tool \in Tools /\ x.item \in Nat /\ x.known \in BOOLEAN
  BY DEF RunSound, RunRecords
<1>5. Effect(r, k, x, Head(x.chain)) \in EffectRecords
  BY <1>3, <1>4 DEF Effect, EffectRecords
<1>6. Permitted(Effect(r, k, x, Head(x.chain)))
  BY <1>2 DEF RunSound
<1>. QED
  BY <1>5, <1>6

LEMMA PlanStays ==
    ASSUME plan' = plan
    PROVE  /\ \A e : Permitted(e)' <=> Permitted(e)
           /\ \A r, k, x : RunSound(r, k, x)' <=> RunSound(r, k, x)
<1>1. ASSUME NEW e PROVE Permitted(e)' <=> Permitted(e)
  <2>1. CallOf(e)' = CallOf(e) /\ PlanOf(e.request)' = PlanOf(e.request)
    BY DEF CallOf, PlanOf
  <2>. QED
    BY <2>1 DEF Permitted
<1>2. ASSUME NEW r, NEW k, NEW x PROVE RunSound(r, k, x)' <=> RunSound(r, k, x)
  <2>1. ASSUME NEW i PROVE Permitted(Effect(r, k, x, x.chain[i]))' <=> Permitted(Effect(r, k, x, x.chain[i]))
    <3>1. PICK e : e = Effect(r, k, x, x.chain[i])
      OBVIOUS
    <3>. QED
      BY <1>1, <3>1 DEF Effect
  <2>. QED
    BY <2>1 DEF RunSound
<1>. QED
  BY <1>1, <1>2

LEMMA RunsStay ==
    ASSUME RunsInv, UNCHANGED <<plan, run, effects>>
    PROVE  RunsInv'
<1>1. WritesGated'
  <2>1. ASSUME NEW e \in effects' PROVE Permitted(e)'
    <3>1. Permitted(e)
      BY DEF RunsInv, WritesGated
    <3>. QED
      BY <3>1, PlanStays
  <2>. QED
    BY <2>1 DEF WritesGated
<1>2. ASSUME NEW s \in Requests, NEW j \in RunIds PROVE RunSound(s, j, run[s][j])'
  <2>1. PICK w : w = run[s][j] /\ RunSound(s, j, w)
    BY DEF RunsInv
  <2>2. RunSound(s, j, w)'
    BY <2>1, PlanStays
  <2>3. run[s][j]' = w
    BY <2>1
  <2>. QED
    BY <2>2, <2>3
<1>. QED
  BY <1>1, <1>2 DEF RunsInv

(* Run k of request r moves. *)
LEMMA RunMoves ==
    ASSUME RunsInv, plan' = plan, run \in [Requests -> [RunIds -> RunRecords]],
           NEW r \in Requests, NEW k \in RunIds, NEW x \in RunRecords, RunSound(r, k, x),
           run' = [run EXCEPT ![r][k] = x], \A e \in effects' : Permitted(e)
    PROVE  RunsInv' /\ run' \in [Requests -> [RunIds -> RunRecords]]
<1>1. run' \in [Requests -> [RunIds -> RunRecords]]
  OBVIOUS
<1>2. ASSUME NEW s \in Requests, NEW j \in RunIds PROVE RunSound(s, j, run'[s][j])
  <2>1. CASE s = r /\ j = k
    BY <2>1
  <2>2. CASE ~(s = r /\ j = k)
    <3>1. run'[s][j] = run[s][j]
      BY <2>2
    <3>2. RunSound(s, j, run[s][j])
      BY DEF RunsInv
    <3>. QED
      BY <3>1, <3>2
  <2>. QED
    BY <2>1, <2>2
<1>3. ASSUME NEW s \in Requests, NEW j \in RunIds PROVE RunSound(s, j, run[s][j])'
  <2>1. PICK w : w = run'[s][j] /\ RunSound(s, j, w)
    BY <1>2, <1>3
  <2>2. RunSound(s, j, w)'
    BY <2>1, PlanStays
  <2>. QED
    BY <2>1, <2>2
<1>4. WritesGated'
  <2>1. ASSUME NEW e \in effects' PROVE Permitted(e)'
    BY PlanStays
  <2>. QED
    BY <2>1 DEF WritesGated
<1>. QED
  BY <1>1, <1>3, <1>4 DEF RunsInv

(* A run moves, and no request. *)
LEMMA RequestsWait ==
    ASSUME RoutesInv, UNCHANGED <<sessionVars, loginVars, plan, worker, task>>,
           run' \in [Requests -> [RunIds -> RunRecords]], effects' \subseteq EffectRecords
    PROVE  RoutesInv'
<1>1. SessionsInv /\ LoginInv /\ SessionsTypeOK /\ TypeOK
  BY DEF RoutesInv, TypeOK
<1>2. SessionsInv' /\ LoginInv' /\ Later
  BY <1>1, SessionsStay, LoginStays, LaterSame DEF SessionsTypeOK, sessionVars
<1>3. \A s \in Requests : TaskSound(s)' /\ IssuedOnce(s)' /\ RevokeSound(s)'
  BY <1>2, OthersSound DEF sessionVars, loginVars
<1>4. \A s \in Requests : Possible(PlanOf(s))'
  BY DEF RoutesInv, PlanOf, Possible
<1>5. TypeOK'
  BY <1>1, <1>2 DEF TypeOK, SessionsInv, LoginInv
<1>6. worker'.instance > 0 => worker'.fingerprint = worker'.config
  BY DEF RoutesInv
<1>. QED
  BY <1>2, <1>3, <1>4, <1>5, <1>6 DEF RoutesInv

LEMMA UpstreamSound ==
    ASSUME RoutesInv, RunsInv, NEW r \in Requests, NEW k \in RunIds, Upstream(r, k)
    PROVE  RoutesInv' /\ RunsInv'
<1>1. /\ run \in [Requests -> [RunIds -> RunRecords]] /\ effects \subseteq EffectRecords
      /\ UNCHANGED <<sessionVars, loginVars, plan, worker, task>>
  BY DEF RoutesInv, TypeOK, Upstream, UpstreamAnswers, UpstreamFails, RunEnds
<1>2. PICK x \in RunRecords : x = run[r][k] /\ RunSound(r, k, x) /\ x.state = "on"
  BY <1>1 DEF RunsInv, Upstream, UpstreamAnswers, UpstreamFails, RunEnds, Waiting
<1>3. PICK y \in RunRecords : RunSound(r, k, y) /\ run' = [run EXCEPT ![r][k] = y]
  <2>1. CASE UpstreamAnswers(r, k) \/ UpstreamFails(r, k)
    <3>1. PICK y \in StepAnswered(x) \cup {StepFailed(x)} : run' = [run EXCEPT ![r][k] = y]
      BY <1>2, <2>1 DEF UpstreamAnswers, UpstreamFails, Takes
    <3>2. x.chain # <<>>
      BY <1>2, <2>1 DEF UpstreamAnswers, UpstreamFails, Waiting
    <3>3. y \in RunRecords /\ RunSound(r, k, y)
      BY <1>2, <3>2, StepSound DEF MayBecome
    <3>. QED
      BY <3>1, <3>3
  <2>2. CASE RunEnds(r, k)
    <3>1. PICK a \in {"ok", "error"} : run' = [run EXCEPT ![r][k] = Stops(x, a)]
      BY <1>2, <2>2 DEF RunEnds, Takes, Results
    <3>2. Stops(x, a) \in RunRecords /\ RunSound(r, k, Stops(x, a))
      BY <1>2, StopsSound
    <3>. QED
      BY <3>1, <3>2
  <2>. QED
    BY <2>1, <2>2 DEF Upstream
<1>4. effects' \subseteq EffectRecords /\ \A e \in effects' : Permitted(e)
  <2>1. \A e \in effects : Permitted(e)
    BY DEF RunsInv, WritesGated
  <2>2. CASE effects' = effects
    BY <1>1, <2>1, <2>2
  <2>3. CASE effects' # effects
    <3>1. /\ x.chain # <<>> /\ Head(x.chain).writes
          /\ effects' = effects \cup {Effect(r, k, x, Head(x.chain))}
      BY <1>2, <2>3 DEF Upstream, UpstreamAnswers, UpstreamFails, RunEnds, Waiting, Written
    <3> DEFINE e == Effect(r, k, x, Head(x.chain))
    <3>2. e \in EffectRecords /\ Permitted(e)
      BY <1>2, <3>1, WrittenSound
    <3>. HIDE DEF e
    <3>3. effects' = effects \cup {e}
      BY <3>1 DEF e
    <3>. QED
      BY <1>1, <2>1, <3>2, <3>3
  <2>. QED
    BY <2>2, <2>3
<1>5. RunsInv' /\ run' \in [Requests -> [RunIds -> RunRecords]]
  BY <1>1, <1>3, <1>4, RunMoves
<1>. QED
  BY <1>1, <1>4, <1>5, RequestsWait

-----------------------------------------------------------------------------
(* Calls *)

(* A call that starts with a session was let in with one. *)
LEMMA ReadyFacts ==
    ASSUME RoutesInv, NEW r \in Requests, NEW s, Ready(r, s)
    PROVE  /\ task[r].step \in {"item", "auth"} /\ ItemOf(r).kind = "call"
           /\ s \in Tokens /\ (requiresAuth(r) => s # Nobody)
<1>1. CASE Calling(r) /\ ~requiresAuth(r) /\ s = Nobody
  BY <1>1 DEF Calling, Tokens
<1>2. CASE task[r].step = "auth" /\ look[r].step = "found" /\ s = look[r].sess
  <2>1. ItemOf(r).kind = "call"
    BY <1>2, ItemFacts DEF ItemSteps
  <2>2. LetIn(look[r])
    BY <1>2 DEF RoutesInv, SessionsInv, LookSound
  <2>3. s \in Sealed \cup Raw /\ Nobody \notin Sealed \cup Raw
    BY <1>2, <2>2, SessionsAssumption DEF LetIn, Sealed
  <2>. QED
    BY <1>2, <2>1, <2>3 DEF Tokens, Sealed
<1>. QED
  BY <1>1, <1>2 DEF Ready

LEMMA NoCallSound ==
    ASSUME RoutesInv, RunsInv, NEW r \in Requests, NoCall(r) \/ Challenged(r)
    PROVE  RoutesInv' /\ RunsInv'
<1>1. /\ task[r].step \in ItemSteps /\ UNCHANGED <<sessionVars, loginVars, plan, worker, run, effects>>
  BY DEF NoCall, Challenged, ItemSteps
<1>2. /\ task[r] \in RequestRecords
      /\ run' \in [Requests -> [RunIds -> RunRecords]] /\ effects' \subseteq EffectRecords
  BY <1>1 DEF RoutesInv, TypeOK
<1>3. CASE Becomes(r, Onward(r, task[r]))
  BY <1>1, <1>2, <1>3, OnwardSound, RunsStay
<1>4. CASE \E a \in {"ok", "rpcError"} : Answered(r, a)
  <2>1. PICK a \in Answers : Answered(r, a)
    BY <1>4 DEF Answers
  <2>. QED
    BY <1>1, <1>2, <2>1, AnsweredSound, RunsStay
<1>5. CASE BreaksOff(r, 400) \/ BreaksOff(r, 401)
  BY <1>1, <1>5, BreaksOffSound, RunsStay
<1>. QED
  BY <1>3, <1>4, <1>5 DEF NoCall, Challenged

LEMMA CloseSandboxSound ==
    ASSUME RoutesInv, RunsInv, NEW r \in Requests, CloseSandbox(r) \/ AnsweredAtOnce(r)
    PROVE  RoutesInv' /\ RunsInv'
<1>1. /\ task[r].step \in ItemSteps /\ UNCHANGED <<sessionVars, loginVars, plan, worker, run, effects>>
  BY DEF CloseSandbox, AnsweredAtOnce, ItemSteps
<1>2. run' \in [Requests -> [RunIds -> RunRecords]] /\ effects' \subseteq EffectRecords
  BY <1>1 DEF RoutesInv, TypeOK
<1>3. PICK a \in Answers : Answered(r, a)
  BY DEF CloseSandbox, AnsweredAtOnce, Answers
<1>. QED
  BY <1>1, <1>2, <1>3, AnsweredSound, RunsStay

LEMMA SessionFacts ==
    ASSUME NEW t \in RequestRecords, NEW step \in {"run", "sandbox"}, NEW s \in Tokens
    PROVE  \E x \in RequestRecords :
              /\ x = [t EXCEPT !.step = step, !.session = s] /\ x.step = step
              /\ x.item = t.item /\ x.config = t.config
<1> DEFINE u == [t EXCEPT !.session = s]
<1>1. u \in RequestRecords /\ u.item = t.item /\ u.config = t.config
  BY DEF RequestRecords
<1>2. [t EXCEPT !.step = step, !.session = s] = [u EXCEPT !.step = step]
  BY DEF RequestRecords
<1>. HIDE DEF u
<1>3. step \in RequestSteps
  BY DEF RequestSteps
<1>4. PICK x \in RequestRecords : /\ x = [u EXCEPT !.step = step] /\ x.step = step
                                  /\ x.item = u.item /\ x.config = u.config
  BY <1>1, <1>3, StepFacts
<1>. QED
  BY <1>1, <1>2, <1>4

LEMMA OpenSandboxSound ==
    ASSUME RoutesInv, RunsInv, NEW r \in Requests, OpenSandbox(r)
    PROVE  RoutesInv' /\ RunsInv'
<1>1. /\ task[r].step \in ItemSteps /\ InSandbox(r)
      /\ UNCHANGED <<sessionVars, loginVars, plan, worker, run, effects>>
  BY DEF OpenSandbox, ItemSteps
<1>2. /\ run' \in [Requests -> [RunIds -> RunRecords]] /\ effects' \subseteq EffectRecords
      /\ task[r] \in RequestRecords
  BY <1>1 DEF RoutesInv, TypeOK
<1>3. PICK s \in Tokens : /\ Ready(r, s)
                          /\ Becomes(r, [task[r] EXCEPT !.step = "sandbox", !.session = s])
  BY DEF OpenSandbox
<1>4. PICK x \in RequestRecords :
        /\ x = [task[r] EXCEPT !.step = "sandbox", !.session = s] /\ x.step = "sandbox"
        /\ x.item = task[r].item /\ x.config = task[r].config
  BY <1>2, SessionFacts
<1>5. task' = [task EXCEPT ![r] = x] /\ ItemOf(r).kind = "call"
  BY <1>3, <1>4, ReadyFacts DEF Becomes
<1>. QED
  BY <1>1, <1>2, <1>4, <1>5, CallGoesOn, RunsStay

LEMMA RunToolSound ==
    ASSUME RoutesInv, RunsInv, NEW r \in Requests, RunTool(r)
    PROVE  RoutesInv' /\ RunsInv'
<1>1. /\ task[r].step \in ItemSteps /\ UNCHANGED <<sessionVars, loginVars, plan, worker, effects>>
  BY DEF RunTool, ItemSteps
<1>2. /\ run \in [Requests -> [RunIds -> RunRecords]] /\ effects' \subseteq EffectRecords
      /\ 0 \in RunIds /\ 0 <= MaxNestedCalls
  BY <1>1, GatewayAssumption DEF RoutesInv, TypeOK, RunIds
<1>3. PICK s \in Tokens :
        /\ Ready(r, s) /\ (~PlanOf(r).codemode \/ ByCapability(r))
        /\ \E x \in Runs(r, s) : run' = [run EXCEPT ![r][0] = x]
        /\ Becomes(r, [task[r] EXCEPT !.step = "run", !.session = s])
  BY DEF RunTool
<1>4. PICK known \in BOOLEAN : known = (s # Nobody)
  OBVIOUS
<1>5. /\ ItemOf(r).kind = "call" /\ (requiresAuth(r) => known = TRUE)
      /\ task[r] \in RequestRecords /\ Flagged(r) = PlanOf(r).env.config.flags
      /\ ItemOf(r) \in Items
  <2>1. ItemOf(r).kind = "call" /\ (requiresAuth(r) => s # Nobody)
    BY <1>3, ReadyFacts
  <2>2. /\ task[r] \in RequestRecords /\ ItemOf(r) \in Items
        /\ task[r].config = PlanOf(r).env.config
    BY <1>1, ItemFacts
  <2>. QED
    BY <1>4, <2>1, <2>2 DEF Flagged
<1>6. PICK item \in Nat : item = task[r].item /\ ItemOf(r) = PlanOf(r).items[item]
  BY <1>1, ItemFacts
<1>7. PICK c \in Calls : c = ItemOf(r).call /\ c = CallFor(r, 0, item)
  BY <1>5, <1>6 DEF Items, CallFor
<1>8. PICK x \in RunRecords : RunSound(r, 0, x) /\ run' = [run EXCEPT ![r][0] = x]
  <2>1. PICK x \in Runs(r, s) : run' = [run EXCEPT ![r][0] = x]
    BY <1>3
  <2>2. CASE ByCapability(r)
    <3>1. x \in executeCapability(item, c, known, PlanOf(r).env.config.flags)
      BY <1>4, <1>5, <1>6, <1>7, <2>1, <2>2 DEF Runs
    <3>2. PlanOf(r).codemode = TRUE /\ known = TRUE
      BY <1>5, <2>2, PlanFacts DEF ByCapability, requiresAuth
    <3>3. Starts(r, 0, item, x)
      BY <1>2, <1>7, <3>1, <3>2, CapabilitySound
    <3>. QED
      BY <2>1, <3>3 DEF Starts
  <2>3. CASE ~ByCapability(r)
    <3>1. PICK tool : tool = c.name
      OBVIOUS
    <3>2. PICK confirmed \in BOOLEAN : confirmed = c.confirmed
      BY DEF Calls
    <3>3. x \in callTool(item, tool, known, confirmed, c.source, PlanOf(r).env.config.flags)
      BY <1>4, <1>5, <1>6, <1>7, <2>1, <2>3, <3>1, <3>2 DEF Runs
    <3>4. ~PlanOf(r).codemode
      BY <1>3, <2>3
    <3>5. tool \in PublishTools /\ confirmed = TRUE => ConfirmedFor(r, CallFor(r, 0, item))
      BY <1>7, <3>2, <3>4 DEF ConfirmedFor
    <3>6. ~(toolRequiresAuth(tool) /\ known = FALSE)
      BY <1>5, <1>7, <3>1, <3>4 DEF requiresAuth
    <3>7. Starts(r, 0, item, x)
      BY <1>2, <3>3, <3>5, <3>6, GrantedSound
    <3>. QED
      BY <2>1, <3>7 DEF Starts
  <2>. QED
    BY <2>2, <2>3
<1>9. \A e \in effects' : Permitted(e)
  BY <1>1 DEF RunsInv, WritesGated
<1>10. RunsInv' /\ run' \in [Requests -> [RunIds -> RunRecords]]
  BY <1>1, <1>2, <1>8, <1>9, RunMoves
<1>11. PICK t \in RequestRecords :
        /\ t = [task[r] EXCEPT !.step = "run", !.session = s] /\ t.step = "run"
        /\ t.item = task[r].item /\ t.config = task[r].config
  BY <1>5, SessionFacts
<1>12. task' = [task EXCEPT ![r] = t]
  BY <1>3, <1>11 DEF Becomes
<1>. QED
  BY <1>1, <1>2, <1>5, <1>10, <1>11, <1>12, CallGoesOn

LEMMA NestedSound ==
    ASSUME RoutesInv, RunsInv, NEW r \in Requests, Nested(r)
    PROVE  RoutesInv' /\ RunsInv'
<1>1. /\ task[r].step = "sandbox" /\ UNCHANGED <<sessionVars, loginVars, plan, worker, effects>>
      /\ task[r].nested < Len(ItemOf(r).code)
  BY DEF Nested
<1>2. /\ run \in [Requests -> [RunIds -> RunRecords]] /\ effects' \subseteq EffectRecords
      /\ MaxNestedCalls \in Nat
  BY <1>1, GatewayAssumption DEF RoutesInv, TypeOK
<1>3. /\ task[r] \in RequestRecords /\ ItemOf(r).kind = "call" /\ ItemOf(r) \in Items
      /\ Flagged(r) = PlanOf(r).env.config.flags /\ task[r].nested \in Nat
      /\ Len(ItemOf(r).code) <= MaxNestedCalls + 2
  <2>1. /\ task[r] \in RequestRecords /\ ItemOf(r).kind = "call" /\ ItemOf(r) \in Items
        /\ task[r].config = PlanOf(r).env.config
        /\ ItemOf(r) = PlanOf(r).items[task[r].item] /\ task[r].item \in DOMAIN PlanOf(r).items
    BY <1>1, ItemFacts DEF ItemSteps
  <2>2. Len(ItemOf(r).code) <= MaxNestedCalls + 2
    BY <2>1, PlanFacts
  <2>. QED
    BY <2>1, <2>2 DEF Flagged, RequestRecords
<1>4. InSandbox(r)
  BY <1>1 DEF RoutesInv, TaskSound
<1>5. PICK item \in Nat : item = task[r].item /\ ItemOf(r) = PlanOf(r).items[item]
  BY <1>1, ItemFacts DEF ItemSteps
<1>6. ItemOf(r).code \in Seq(Calls)
  BY <1>3 DEF Items
<1>7. PICK k \in RunIds : k = task[r].nested + 1 /\ k \in DOMAIN ItemOf(r).code /\ k > 0
  <2>1. Len(ItemOf(r).code) \in Nat /\ DOMAIN ItemOf(r).code = 1 .. Len(ItemOf(r).code)
    BY <1>6
  <2>2. task[r].nested + 1 \in 1 .. Len(ItemOf(r).code) /\ task[r].nested + 1 \in RunIds
    BY <1>1, <1>2, <1>3, <2>1 DEF RunIds
  <2>. QED
    BY <1>3, <2>1, <2>2
<1>8. PICK c \in Calls : c = ItemOf(r).code[k] /\ c = CallFor(r, k, item)
  BY <1>5, <1>6, <1>7 DEF CallFor
<1>9. PICK x \in RunRecords : RunSound(r, k, x) /\ run' = [run EXCEPT ![r][k] = x]
  <2>1. PICK x \in NestedRuns(r, c) : run' = [run EXCEPT ![r][k] = x]
    BY <1>7, <1>8 DEF Nested
  <2>2. CASE ~Admits(r)
    <3>1. x = Ended(item, "limit") /\ x \in RunRecords
      BY <1>5, <2>1, <2>2, OffType DEF NestedRuns
    <3>2. x.state = "ended" /\ x.answer = "limit"
      BY <3>1 DEF Ended, Off
    <3>3. RunSound(r, k, x)
      BY <1>7, <3>2 DEF RunSound
    <3>. QED
      BY <2>1, <3>1, <3>3
  <2>3. CASE Admits(r)
    <3>1. k <= MaxNestedCalls
      BY <1>2, <1>3, <1>7, <2>3 DEF Admits
    <3>2. CASE x \in {Ended(item, "ok"), Ended(item, "auth")}
      <4>1. PICK a \in {"ok", "auth"} : x = Ended(item, a)
        BY <3>2
      <4>2. x \in RunRecords
        BY <4>1, OffType
      <4>3. x.state = "ended" /\ x.answer = a
        BY <4>1 DEF Ended, Off
      <4>4. RunSound(r, k, x)
        BY <1>2, <1>7, <3>1, <4>3 DEF RunSound, RunIds
      <4>. QED
        BY <2>1, <4>2, <4>4
    <3>3. CASE x \notin {Ended(item, "ok"), Ended(item, "auth")}
      <4>1. PICK known \in BOOLEAN : known = (task[r].session # Nobody)
        OBVIOUS
      <4>2. x \in executeCapability(item, c, known, PlanOf(r).env.config.flags)
        BY <1>3, <1>5, <2>1, <2>3, <3>3, <4>1 DEF NestedRuns
      <4>3. PlanOf(r).codemode
        BY <1>4 DEF InSandbox
      <4>4. Starts(r, k, item, x)
        BY <1>7, <1>8, <3>1, <4>2, <4>3, CapabilitySound
      <4>. QED
        BY <2>1, <4>4 DEF Starts
    <3>. QED
      BY <3>2, <3>3
  <2>. QED
    BY <2>2, <2>3
<1>10. \A e \in effects' : Permitted(e)
  BY <1>1 DEF RunsInv, WritesGated
<1>11. RunsInv' /\ run' \in [Requests -> [RunIds -> RunRecords]]
  BY <1>1, <1>2, <1>9, <1>10, RunMoves
<1>12. PICK t \in RequestRecords :
        /\ t = [task[r] EXCEPT !.nested = k] /\ t.step = "sandbox"
        /\ t.item = task[r].item /\ t.config = task[r].config
  <2>1. k \in Nat
    BY <1>3, <1>7
  <2>2. [task[r] EXCEPT !.nested = k] \in RequestRecords
    BY <1>3, <2>1 DEF RequestRecords
  <2>. QED
    BY <1>1, <1>3, <2>2 DEF RequestRecords
<1>13. task' = [task EXCEPT ![r] = t]
  BY <1>7, <1>12 DEF Nested, Becomes
<1>. QED
  BY <1>1, <1>2, <1>3, <1>4, <1>11, <1>12, <1>13, CallGoesOn DEF ItemSteps

LEMMA ReturnSound ==
    ASSUME RoutesInv, RunsInv, NEW r \in Requests, Return(r)
    PROVE  RoutesInv' /\ RunsInv'
<1>1. /\ task[r].step = "run" /\ run[r][0].state = "ended"
      /\ UNCHANGED <<sessionVars, loginVars, plan, worker, effects>>
      /\ run' = [run EXCEPT ![r][0] = Off]
  BY DEF Return, Takes
<1>2. /\ run \in [Requests -> [RunIds -> RunRecords]] /\ effects' \subseteq EffectRecords
      /\ 0 \in RunIds /\ ~(0 > MaxNestedCalls)
  BY <1>1, GatewayAssumption DEF RoutesInv, TypeOK, RunIds
<1>3. RunSound(r, 0, run[r][0]) /\ run[r][0] \in RunRecords
  BY <1>2 DEF RunsInv
<1>4. PICK a \in Answers : Answered(r, a)
  <2>1. run[r][0].answer \in Answers \cup {"threw"}
    BY <1>1, <1>3 DEF RunSound, RunRecords
  <2>2. "rpcError" \in Answers /\ "large" \in Answers
    BY DEF Answers
  <2>. QED
    BY <2>1, <2>2 DEF Return
<1>5. Off \in RunRecords /\ RunSound(r, 0, Off)
  <2>1. Off.state = "off" /\ Off.answer = "none"
    BY DEF Off
  <2>. QED
    BY <1>2, <2>1, OffType DEF RunSound
<1>6. \A e \in effects' : Permitted(e)
  BY <1>1 DEF RunsInv, WritesGated
<1>7. RunsInv' /\ run' \in [Requests -> [RunIds -> RunRecords]]
  <2>1. PICK x \in RunRecords : x = Off /\ RunSound(r, 0, x) /\ run' = [run EXCEPT ![r][0] = x]
    BY <1>1, <1>5
  <2>. QED
    BY <1>1, <1>2, <1>6, <2>1, RunMoves
<1>. QED
  BY <1>1, <1>2, <1>4, <1>7, AnsweredSound DEF ItemSteps

LEMMA RunsKept ==
    ASSUME RunsInv, NEW r \in Requests, Route(r) \/ Mcp(r) \/ Authenticate(r)
    PROVE  RunsInv'
<1>1. UNCHANGED <<plan, run, effects>>
  BY DEF Route, NotServed, Link, Asks, Shown, Logout, Revoked, BeginLogin, Callback, CallbackDone,
     Lookup, LoginGoesOn, Mcp, Authenticate, gatewayVars
<1>. QED
  BY <1>1, RunsStay

LEMMA StepsSound ==
    ASSUME RoutesInv, RunsInv, [Next]_vars
    PROVE  RoutesInv' /\ RunsInv'
<1>1. CASE Tick
  BY <1>1, TickSound, RunsStay DEF Tick, gatewayVars
<1>2. ASSUME NEW r \in Requests, Route(r)
      PROVE  RoutesInv' /\ RunsInv'
  BY <1>2, RouteSound, RunsKept
<1>3. ASSUME NEW r \in Requests, Handle(r)
      PROVE  RoutesInv' /\ RunsInv'
  BY <1>3, McpSound, AuthenticateSound, RunsKept, NoCallSound, CloseSandboxSound, RunToolSound,
     OpenSandboxSound, NestedSound, ReturnSound DEF Handle
<1>4. ASSUME NEW r \in Requests, NEW k \in RunIds, Upstream(r, k)
      PROVE  RoutesInv' /\ RunsInv'
  BY <1>4, UpstreamSound
<1>5. CASE UNCHANGED vars
  <2>1. UNCHANGED <<sessionVars, loginVars, plan, worker, task, run, effects>>
    BY <1>5 DEF vars, gatewayVars
  <2>2. run' \in [Requests -> [RunIds -> RunRecords]] /\ effects' \subseteq EffectRecords
    BY <2>1 DEF RoutesInv, TypeOK
  <2>. QED
    BY <2>1, <2>2, RequestsWait, RunsStay
<1>. QED
  BY <1>1, <1>2, <1>3, <1>4, <1>5 DEF Next

-----------------------------------------------------------------------------
(* What runs promise *)

(* Requests that do not end their method, and a chain of them that makes   *)
(* the call, whatever it is answered on the way.                           *)
Going == {s \in ApiSteps : s.then # "ends"}

Binds(c, call) == c \in Seq(Going) /\ \E i \in DOMAIN c : Binding(c[i], call)

LEMMA BindsJoined ==
    ASSUME NEW call, NEW a \in Seq(Going), NEW b \in Seq(Going), Binds(a, call) \/ Binds(b, call)
    PROVE  Binds(a \o b, call)
<1>1. a \o b \in Seq(Going)
  OBVIOUS
<1>2. CASE Binds(a, call)
  <2>1. PICK i \in DOMAIN a : Binding(a[i], call)
    BY <1>2 DEF Binds
  <2>2. i \in DOMAIN (a \o b) /\ (a \o b)[i] = a[i]
    OBVIOUS
  <2>. QED
    BY <1>1, <2>1, <2>2 DEF Binds
<1>3. CASE Binds(b, call)
  <2>1. PICK i \in DOMAIN b : Binding(b[i], call)
    BY <1>3 DEF Binds
  <2>2. Len(a) + i \in DOMAIN (a \o b) /\ (a \o b)[Len(a) + i] = b[i]
    OBVIOUS
  <2>. QED
    BY <1>1, <2>1, <2>2 DEF Binds
<1>. QED
  BY <1>2, <1>3

LEMMA BindsInTurn ==
    ASSUME NEW call, NEW A, NEW B, A \subseteq Seq(Going), B \subseteq Seq(Going),
           (\A a \in A : Binds(a, call)) \/ (\A b \in B : Binds(b, call)),
           NEW c \in A \odot B
    PROVE  Binds(c, call)
<1>1. PICK a \in A, b \in B : c = a \o b
  BY DEF \odot
<1>. QED
  BY <1>1, BindsJoined

LEMMA GoingInTurn ==
    ASSUME NEW A, NEW B, A \subseteq Seq(Going), B \subseteq Seq(Going)
    PROVE  A \odot B \subseteq Seq(Going)
<1>1. \A a \in A, b \in B : a \o b \in Seq(Going)
  OBVIOUS
<1>2. ASSUME NEW c \in A \odot B PROVE c \in Seq(Going)
  <2>1. PICK a \in A, b \in B : c = a \o b
    BY DEF \odot
  <2>. QED
    BY <1>1, <2>1
<1>. QED
  BY <1>2

(* The tool that is named for a write makes it, or fails. *)
LEMMA PromisedBinds ==
    ASSUME NEW tool, NEW c \in Chains(tool), NEW call \in Promised(tool)
    PROVE  Binds(c, call)
<1>1. /\ req("store") \in Going /\ req("post") \in Going /\ req("quota") \in Going
      /\ reqWrite("pulse") \in Going /\ reqWrite("cover") \in Going
      /\ reqWrite("metadata") \in Going
      /\ Reported(reqWrite("publish")) \in Going /\ Reported(reqWrite("compile")) \in Going
  BY DEF req, reqWrite, Reported, Step, Going, ApiSteps, ApiReads, ApiWrites
<1>2. \A s \in Going : Caught(s) \in Going /\ Allows(s) \in Going
                       /\ [s EXCEPT !.fails = "thrown"] \in Going
  BY DEF Caught, Allows, Going, ApiSteps
<1>3. \A s \in Going : <<s>> \in Seq(Going)
  OBVIOUS
<1>4. ASSUME NEW s \in Going PROVE Uncaught(<<s>>) \in Seq(Going)
  <2>1. PICK d \in Seq(Going) : d = <<s>>
    BY <1>3
  <2>2. Len(d) \in Nat /\ DOMAIN d = 1 .. Len(d) /\ \A i \in DOMAIN d : d[i] \in Going
    OBVIOUS
  <2>3. Uncaught(d) \in [1 .. Len(d) -> Going]
    BY <1>2, <2>2 DEF Uncaught
  <2>. QED
    BY <2>1, <2>2, <2>3
<1>5. ASSUME NEW s \in Going, Binding(s, call) PROVE Binds(<<s>>, call)
  BY <1>5 DEF Binds
<1>6. /\ Binding(reqWrite("pulse"), "pulse") /\ Binding(Reported(reqWrite("publish")), "publish")
      /\ Binding(Reported(reqWrite("compile")), "compile")
  BY DEF Binding, Reported, reqWrite, Step
<1>7. /\ store \in Seq(Going) /\ Uncaught(store) \in Seq(Going)
      /\ {<<>>, Uncaught(getLiveVibe)} \subseteq Seq(Going)
  <2>1. <<>> \in Seq(Going)
    OBVIOUS
  <2>. QED
    BY <1>1, <1>3, <1>4, <2>1 DEF store, getLiveVibe
<1>8. CASE tool = "publish_standalone_pulse"
  <2>1. call = "pulse"
    BY <1>8 DEF Promised
  <2>2. c = <<Allows(req("quota"))>> \o <<reqWrite("pulse")>>
    <3>1. Chains(tool) = WriteChains(tool)
      BY <1>8 DEF Chains, SetupTools, SocialTools, OperationTools, DraftAndVibeTools, LaunchTools
    <3>2. c = PulseChain
      BY <1>8, <3>1 DEF WriteChains
    <3>3. getAccountCapabilities[1] = req("quota")
      BY DEF getAccountCapabilities, getUserQuota
    <3>. QED
      BY <3>2, <3>3 DEF PulseChain, publishStandalonePulse
  <2>3. <<Allows(req("quota"))>> \in Seq(Going) /\ <<reqWrite("pulse")>> \in Seq(Going)
    BY <1>1, <1>2, <1>3
  <2>4. Binds(<<reqWrite("pulse")>>, call)
    BY <1>1, <1>5, <1>6, <2>1
  <2>. QED
    BY <2>2, <2>3, <2>4, BindsJoined
<1>9. CASE tool = "compile_draft_capsule"
  <2>1. call = "compile"
    BY <1>9 DEF Promised
  <2>2. c = (Uncaught(store) \o compileDraft) \o Uncaught(store)
    <3>1. Chains(tool) = WriteChains(tool)
      BY <1>9 DEF Chains, SetupTools, SocialTools, OperationTools, DraftAndVibeTools, LaunchTools
    <3>. QED
      BY <1>9, <3>1 DEF WriteChains
  <2>3. compileDraft = <<Reported(reqWrite("compile"))>>
    BY DEF compileDraft, Asked
  <2>4. compileDraft \in Seq(Going) /\ Binds(compileDraft, call)
    BY <1>1, <1>3, <1>5, <1>6, <2>1, <2>3
  <2>5. PICK d \in Seq(Going) : d = Uncaught(store) \o compileDraft /\ Binds(d, call)
    BY <1>7, <2>4, BindsJoined DEF Binds
  <2>. QED
    BY <1>7, <2>2, <2>5, BindsJoined
<1>10. CASE tool = "publish_draft_capsule"
  <2>1. call = "publish"
    BY <1>10 DEF Promised
  <2>2. c \in DraftPublishChains
    <3>1. Chains(tool) = WriteChains(tool)
      BY <1>10 DEF Chains, SetupTools, SocialTools, OperationTools, DraftAndVibeTools, LaunchTools
    <3>. QED
      BY <1>10, <3>1 DEF WriteChains
  <2>3. publishDraft = <<Reported(reqWrite("publish"))>>
    BY DEF publishDraft, Asked
  <2>4. publishDraft \in Seq(Going) /\ Binds(publishDraft, call)
    BY <1>1, <1>3, <1>5, <1>6, <2>1, <2>3
  <2>5. coverOf \subseteq Seq(Going) /\ {<<>>, updatePostMetadata} \subseteq Seq(Going)
    <3>1. /\ getLiveVibe[1] = req("post") /\ uploadCover[1] = reqWrite("cover")
          /\ updatePostMetadata = <<Caught(reqWrite("metadata"))>>
      BY DEF getLiveVibe, uploadCover, updatePostMetadata
    <3>2. /\ Caught(req("post")) \in Going /\ Caught(reqWrite("cover")) \in Going
          /\ Caught(reqWrite("metadata")) \in Going
      BY <1>1, <1>2
    <3>3. <<>> \in Seq(Going)
      OBVIOUS
    <3>4. /\ resolveCoverUsage \subseteq Seq(Going)
          /\ {<<Caught(uploadCover[1])>>} \subseteq Seq(Going)
      BY <1>3, <3>1, <3>2, <3>3 DEF resolveCoverUsage
    <3>5. resolveCoverUsage \odot {<<Caught(uploadCover[1])>>} \subseteq Seq(Going)
      BY <3>4, GoingInTurn
    <3>. QED
      BY <1>3, <3>1, <3>2, <3>3, <3>5 DEF coverOf
  <2>6. \A d \in publish : Binds(d, call)
    <3>1. PICK A : A = {publishDraft} \odot coverOf
      OBVIOUS
    <3>2. {publishDraft} \subseteq Seq(Going) /\ \A d \in {publishDraft} : Binds(d, call)
      BY <2>4
    <3>3. \A d \in A : Binds(d, call)
      BY <2>5, <3>1, <3>2, BindsInTurn
    <3>4. A \subseteq Seq(Going)
      BY <3>3 DEF Binds
    <3>5. \A d \in A \odot {<<>>, updatePostMetadata} : Binds(d, call)
      BY <2>5, <3>3, <3>4, BindsInTurn
    <3>. QED
      BY <3>1, <3>5 DEF publish
  <2>7. PICK A : A = {store} \odot publish
    OBVIOUS
  <2>8. \A d \in A : Binds(d, call)
    BY <1>7, <2>6, <2>7, BindsInTurn DEF Binds
  <2>9. PICK B : B = A \odot {store}
    OBVIOUS
  <2>10. \A d \in B : Binds(d, call)
    BY <1>7, <2>8, <2>9, BindsInTurn DEF Binds
  <2>11. c \in B \odot {<<>>, Uncaught(getLiveVibe)}
    BY <2>2, <2>7, <2>9 DEF DraftPublishChains
  <2>. QED
    BY <1>7, <2>10, <2>11, BindsInTurn DEF Binds
<1>. QED
  BY <1>8, <1>9, <1>10 DEF Promised

-----------------------------------------------------------------------------
(* Answers *)

(* What is said of a request depends on its effects, its runs and its plan. *)
LEMMA AnswerStays ==
    ASSUME NEW s \in Requests, AnswerSound(s), plan' = plan, task'[s] = task[s],
           run'[s] = run[s], \A i : Effects(s, i)' = Effects(s, i)
    PROVE  AnswerSound(s)'
<1>1. PlanOf(s)' = PlanOf(s)
  BY DEF PlanOf
<1>2. \A i : Untouched(s, i)' <=> Untouched(s, i)
  BY DEF Untouched
<1>3. \A i, call : Done(s, i, call)' <=> Done(s, i, call)
  BY DEF Done
<1>4. ASSUME NEW a, Honest(s, a) PROVE Honest(s, a)'
  BY <1>1, <1>2, <1>3, <1>4 DEF Honest
<1>5. \A said, n : Covers(s, said, n)' <=> Covers(s, said, n)
  BY <1>1 DEF Covers
<1>6. PICK said : said = task[s].answers
  OBVIOUS
<1>7. InOrder(s, said)'
  <2>1. InOrder(s, said)
    BY <1>6 DEF AnswerSound
  <2>2. \A n : Covers(s, said, n)' <=> Covers(s, said, n)
    BY <1>5
  <2>. QED
    BY <1>1, <2>1, <2>2 DEF InOrder
<1>8. ASSUME NEW j \in DOMAIN said PROVE Honest(s, said[j])'
  <2>1. Honest(s, said[j])
    BY <1>6 DEF AnswerSound
  <2>. QED
    BY <1>4, <2>1
<1>9. ASSUME task[s].step = "run" PROVE RunTrue(s)'
  <2>1. RunTrue(s)
    BY <1>9 DEF AnswerSound
  <2>2. KeepsPromise(s) => KeepsPromise(s)'
    <3>1. ItemOf(s)' = ItemOf(s)
      BY <1>1 DEF ItemOf
    <3>. QED
      BY <1>3, <3>1 DEF KeepsPromise
  <2>. QED
    BY <1>1, <1>2, <2>1, <2>2 DEF RunTrue
<1>. QED
  BY <1>6, <1>7, <1>8, <1>9 DEF AnswerSound

(* The runs of r that are under way have been started. *)
RunsStarted(r) ==
    \A k \in RunIds : run[r][k].state = "on" => /\ Started(r, run[r][k].item, k)
                                                /\ k = 0 => task[r].step = "run"

LEMMA StartedStays ==
    ASSUME plan' = plan, NEW s, task'[s] = task[s]
    PROVE  \A i, k : Started(s, i, k)' <=> Started(s, i, k)
BY DEF Started, PlanOf

LEMMA RunsStartedStay ==
    ASSUME plan' = plan, NEW s, task'[s] = task[s], run'[s] = run[s], RunsStarted(s)
    PROVE  RunsStarted(s)'
<1>1. ASSUME NEW k \in RunIds, run[s][k].state = "on"
      PROVE  Started(s, run[s][k].item, k)' /\ (k = 0 => task[s].step = "run")
  <2>1. PICK i : i = run[s][k].item /\ Started(s, i, k) /\ i = run'[s][k].item
    BY <1>1 DEF RunsStarted
  <2>2. Started(s, i, k)'
    BY <2>1, StartedStays
  <2>. QED
    BY <1>1, <2>1, <2>2 DEF RunsStarted
<1>. QED
  BY <1>1 DEF RunsStarted

(* Request r goes on, and nothing takes effect. *)
LEMMA OneGoesOn ==
    ASSUME RoutesInv, AnswersInv, NEW r \in Requests, NEW x,
           task' = [task EXCEPT ![r] = x], UNCHANGED <<plan, effects>>,
           \A s \in Requests \ {r} : run'[s] = run[s],
           \A i, k : Started(r, i, k) => Started(r, i, k)',
           RunsStarted(r)', PlanOf(r).kind = "mcp" => AnswerSound(r)'
    PROVE  AnswersInv'
<1>1. task \in [Requests -> RequestRecords] /\ effects \subseteq EffectRecords
  BY DEF RoutesInv, TypeOK
<1>2. ASSUME NEW s \in Requests, (PlanOf(s).kind = "mcp")' PROVE AnswerSound(s)'
  <2>1. PlanOf(s).kind = "mcp"
    BY <1>2 DEF PlanOf
  <2>2. CASE s # r
    <3>1. AnswerSound(s) /\ task'[s] = task[s] /\ run'[s] = run[s]
      BY <1>1, <2>1, <2>2 DEF AnswersInv
    <3>2. \A i : Effects(s, i)' = Effects(s, i)
      BY DEF Effects
    <3>. QED
      BY <3>1, <3>2, AnswerStays
  <2>. QED
    BY <2>1, <2>2
<1>3. ASSUME NEW s \in Requests PROVE RunsStarted(s)'
  <2>1. CASE s # r
    <3>1. RunsStarted(s) /\ task'[s] = task[s] /\ run'[s] = run[s]
      BY <1>1, <2>1 DEF AnswersInv, RunsStarted
    <3>. QED
      BY <3>1, RunsStartedStay
  <2>. QED
    BY <2>1
<1>4. ASSUME NEW e \in effects' PROVE Started(e.request, e.item, e.run)'
  <2>1. e \in effects /\ e.request \in Requests
    BY <1>1 DEF EffectRecords
  <2>2. Started(e.request, e.item, e.run)
    BY <2>1 DEF AnswersInv
  <2>3. PICK s, i, k : s \in Requests /\ s = e.request /\ i = e.item /\ k = e.run
    BY <2>1
  <2>4. CASE s # r
    <3>1. task'[s] = task[s] /\ Started(s, i, k)
      BY <1>1, <2>2, <2>3, <2>4
    <3>2. Started(s, i, k)'
      BY <3>1, StartedStays
    <3>. QED
      BY <2>3, <3>2
  <2>5. CASE s = r
    <3>1. Started(r, i, k)'
      BY <2>2, <2>3, <2>5
    <3>. QED
      BY <2>3, <2>5, <3>1
  <2>. QED
    BY <2>4, <2>5
<1>5. (\A s \in Requests : PlanOf(s).kind = "mcp" => AnswerSound(s))'
  BY <1>2
<1>6. (\A e \in effects : Started(e.request, e.item, e.run))'
  BY <1>4
<1>7. (\A s \in Requests : RunsStarted(s))'
  BY <1>3
<1>. QED
  BY <1>5, <1>6, <1>7 DEF AnswersInv, RunsStarted

(* What has not been touched stays so, and what is done, while nothing    *)
(* takes effect and no run starts.                                         *)
LEMMA HonestStays ==
    ASSUME NEW r \in Requests, UNCHANGED <<plan, effects>>,
           \A k \in RunIds : run'[r][k].state = "on" => run'[r][k] = run[r][k],
           NEW a, Honest(r, a)
    PROVE  Honest(r, a)'
<1>1. PlanOf(r)' = PlanOf(r) /\ \A i : Effects(r, i)' = Effects(r, i)
  BY DEF PlanOf, Effects
<1>2. \A i : Untouched(r, i) => Untouched(r, i)'
  BY <1>1 DEF Untouched
<1>3. \A i, call : Done(r, i, call) => Done(r, i, call)'
  BY <1>1 DEF Done
<1>. QED
  BY <1>1, <1>2, <1>3 DEF Honest

(* On to the next item, with true answers up to this one. *)
LEMMA OnwardKeeps ==
    ASSUME RoutesInv, AnswersInv, NEW r \in Requests, task[r].step \in ItemSteps,
           NEW t \in RequestRecords, t.item = task[r].item, Covers(r, t.answers, t.item),
           \A j \in DOMAIN t.answers : Honest(r, t.answers[j]),
           Becomes(r, Onward(r, t)), UNCHANGED <<plan, effects>>,
           \A s \in Requests \ {r} : run'[s] = run[s],
           \A k \in RunIds \ {0} : run'[r][k] = run[r][k], run'[r][0].state # "on"
    PROVE  AnswersInv'
<1>1. /\ PlanOf(r).kind = "mcp" /\ PlanOf(r).items \in Seq(Items)
      /\ t.item \in DOMAIN PlanOf(r).items /\ t.item \in Nat
  BY ItemFacts
<1>2. PICK x : /\ x = Onward(r, t) /\ x.answers = t.answers
               /\ \/ /\ x.step = "item" /\ x.item = t.item + 1
                  \/ /\ x.step = "done" /\ x.status = 200 /\ t.item = Len(PlanOf(r).items)
  BY <1>1, OnwardFacts
<1>3. task' = [task EXCEPT ![r] = x] /\ task'[r] = x /\ PlanOf(r)' = PlanOf(r)
  BY <1>2 DEF Becomes, PlanOf, RoutesInv, TypeOK
<1>4. ASSUME NEW i, NEW k, Started(r, i, k) PROVE Started(r, i, k)'
  <2>1. i \in DOMAIN PlanOf(r).items /\ i <= t.item
    BY <1>1, <1>4 DEF Started, ItemSteps
  <2>2. i \in Nat /\ (x.step = "item" => i < x.item)
    BY <1>1, <1>2, <2>1
  <2>. QED
    BY <1>1, <1>2, <1>3, <2>1, <2>2 DEF Started
<1>5. RunsStarted(r)'
  <2>1. ASSUME NEW k \in RunIds, run'[r][k].state = "on"
        PROVE  Started(r, run[r][k].item, k)' /\ k # 0
    <3>1. PICK i : i = run[r][k].item /\ i = run'[r][k].item /\ Started(r, i, k) /\ k # 0
      BY <2>1 DEF AnswersInv
    <3>2. Started(r, i, k)'
      BY <1>4, <3>1
    <3>. QED
      BY <3>1, <3>2
  <2>. QED
    BY <2>1 DEF RunsStarted
<1>6. AnswerSound(r)'
  <2>1. PICK said : said = t.answers /\ said = task'[r].answers
    BY <1>2, <1>3
  <2>2. \A n : Covers(r, said, n)' <=> Covers(r, said, n)
    BY <1>3 DEF Covers
  <2>3. InOrder(r, said)'
    <3>1. CASE x.step = "item"
      <4>1. x.item - 1 = t.item
        BY <1>1, <1>2, <3>1
      <4>. QED
        BY <1>3, <2>1, <2>2, <3>1, <4>1 DEF InOrder, ItemSteps
    <3>2. CASE x.step = "done"
      BY <1>2, <1>3, <2>1, <2>2, <3>2 DEF InOrder, ItemSteps
    <3>. QED
      BY <1>2, <3>1, <3>2
  <2>4. \A k \in RunIds : run'[r][k].state = "on" => run'[r][k] = run[r][k]
    OBVIOUS
  <2>5. ASSUME NEW j \in DOMAIN said PROVE Honest(r, said[j])'
    <3>1. PICK a : a = said[j] /\ Honest(r, a)
      BY <2>1
    <3>. QED
      BY <2>4, <3>1, HonestStays
  <2>. QED
    BY <1>2, <1>3, <2>1, <2>3, <2>5 DEF AnswerSound
<1>. QED
  BY <1>3, <1>4, <1>5, <1>6, OneGoesOn

(* bs is said, and b at its end. *)
Longer(bs, said, b) ==
    /\ bs = Append(said, b) /\ Len(bs) \in DOMAIN bs /\ bs[Len(bs)] = b
    /\ \A j \in DOMAIN said : j \in DOMAIN bs /\ bs[j] = said[j]
    /\ \A j \in DOMAIN bs : j \in DOMAIN said \/ j = Len(bs)
    /\ \A j \in 2 .. Len(bs) : /\ j - 1 \in DOMAIN said
                               /\ j # Len(bs) => j \in 2 .. Len(said) /\ j \in DOMAIN said

LEMMA AppendFacts ==
    ASSUME NEW S, NEW said \in Seq(S), NEW b \in S
    PROVE  \E bs \in Seq(S) : Longer(bs, said, b)
<1>1. /\ Append(said, b) \in Seq(S) /\ Len(Append(said, b)) = Len(said) + 1
      /\ Append(said, b)[Len(said) + 1] = b
      /\ \A j \in 1 .. Len(said) : Append(said, b)[j] = said[j]
  OBVIOUS
<1>2. PICK bs \in Seq(S) :
        /\ bs = Append(said, b) /\ Len(bs) = Len(said) + 1 /\ bs[Len(said) + 1] = b
        /\ \A j \in 1 .. Len(said) : bs[j] = said[j]
  BY <1>1
<1>3. /\ Len(said) \in Nat /\ DOMAIN said = 1 .. Len(said) /\ DOMAIN bs = 1 .. Len(bs)
  OBVIOUS
<1>4. \A j \in DOMAIN said : j \in DOMAIN bs /\ bs[j] = said[j]
  BY <1>2, <1>3
<1>5. \A j \in DOMAIN bs : j \in DOMAIN said \/ j = Len(bs)
  BY <1>2, <1>3
<1>6. Len(bs) \in DOMAIN bs /\ bs[Len(bs)] = b
  BY <1>2, <1>3
<1>7. \A j \in 2 .. Len(bs) : /\ j - 1 \in DOMAIN said
                              /\ j # Len(bs) => j \in 2 .. Len(said) /\ j \in DOMAIN said
  BY <1>2, <1>3
<1>. QED
  BY <1>2, <1>4, <1>5, <1>6, <1>7 DEF Longer

(* One more answer, for the item r is at. *)
LEMMA AnsweredKeeps ==
    ASSUME RoutesInv, AnswersInv, NEW r \in Requests, task[r].step \in ItemSteps,
           ItemOf(r).kind # "note", NEW a \in Answers, Answered(r, a),
           Honest(r, [item |-> task[r].item, answer |-> a]), UNCHANGED <<plan, effects>>,
           \A s \in Requests \ {r} : run'[s] = run[s],
           \A k \in RunIds \ {0} : run'[r][k] = run[r][k], run'[r][0].state # "on"
    PROVE  AnswersInv'
<1>1. PICK i \in Nat : /\ i = task[r].item /\ i >= 1 /\ i \in DOMAIN PlanOf(r).items
                       /\ PlanOf(r).items[i].kind # "note" /\ PlanOf(r).kind = "mcp"
  BY ItemFacts
<1>2. PICK b : b = [item |-> i, answer |-> a] /\ Honest(r, b)
  BY <1>1
<1>3. PICK said \in Seq([item: Nat, answer: Answers]) :
        /\ said = task[r].answers /\ Covers(r, said, i - 1)
        /\ \A j \in DOMAIN said : Honest(r, said[j])
  <2>1. task[r].answers \in Seq([item: Nat, answer: Answers])
    BY DEF RoutesInv, TypeOK, RequestRecords
  <2>2. AnswerSound(r)
    BY <1>1 DEF AnswersInv
  <2>. QED
    BY <1>1, <2>1, <2>2 DEF AnswerSound, InOrder
<1>4. PICK bs \in Seq([item: Nat, answer: Answers]) : Longer(bs, said, b)
  <2>1. b \in [item: Nat, answer: Answers]
    BY <1>1, <1>2
  <2>. QED
    BY <2>1, AppendFacts
<1>5. /\ Len(bs) \in DOMAIN bs /\ bs[Len(bs)] = b
      /\ \A j \in DOMAIN said : j \in DOMAIN bs /\ bs[j] = said[j]
      /\ \A j \in DOMAIN bs : j \in DOMAIN said \/ j = Len(bs)
      /\ \A j \in 2 .. Len(bs) : /\ j - 1 \in DOMAIN said
                                 /\ j # Len(bs) => j \in 2 .. Len(said) /\ j \in DOMAIN said
  BY <1>4 DEF Longer
<1>6. Covers(r, bs, i)
  <2>1. b.item = i
    BY <1>2
  <2>2. {said[j].item : j \in DOMAIN said} = {n \in 1 .. (i - 1) : PlanOf(r).items[n].kind # "note"}
    BY <1>3 DEF Covers
  <2>3. ASSUME NEW n \in {bs[j].item : j \in DOMAIN bs}
        PROVE  n \in {m \in 1 .. i : PlanOf(r).items[m].kind # "note"}
    <3>1. PICK j \in DOMAIN bs : n = bs[j].item
      BY <2>3
    <3>2. CASE j = Len(bs)
      <4>1. n = i
        BY <1>5, <2>1, <3>1, <3>2
      <4>. QED
        BY <1>1, <4>1
    <3>3. CASE j \in DOMAIN said
      <4>1. n \in {m \in 1 .. (i - 1) : PlanOf(r).items[m].kind # "note"}
        BY <1>5, <2>2, <3>1, <3>3
      <4>. QED
        BY <1>1, <4>1
    <3>. QED
      BY <1>5, <3>2, <3>3
  <2>4. ASSUME NEW n \in {m \in 1 .. i : PlanOf(r).items[m].kind # "note"}
        PROVE  n \in {bs[j].item : j \in DOMAIN bs}
    <3>1. CASE n = i
      BY <1>5, <2>1, <3>1
    <3>2. CASE n # i
      <4>1. n \in {m \in 1 .. (i - 1) : PlanOf(r).items[m].kind # "note"}
        BY <1>1, <2>4, <3>2
      <4>2. PICK j \in DOMAIN said : n = said[j].item
        BY <2>2, <4>1
      <4>. QED
        BY <1>5, <4>2
    <3>. QED
      BY <3>1, <3>2
  <2>5. ASSUME NEW j \in 2 .. Len(bs) PROVE bs[j - 1].item < bs[j].item
    <3>1. CASE j = Len(bs)
      <4>1. j - 1 \in DOMAIN said /\ bs[j - 1] = said[j - 1]
        BY <1>5, <2>5
      <4>2. said[j - 1].item \in 1 .. (i - 1)
        BY <2>2, <4>1
      <4>3. bs[j].item = i
        BY <1>5, <2>1, <3>1
      <4>. QED
        <5>1. \A m \in 1 .. (i - 1) : m < i
          BY <1>1
        <5>. QED
          BY <4>1, <4>2, <4>3, <5>1
    <3>2. CASE j # Len(bs)
      <4>1. j \in 2 .. Len(said) /\ bs[j - 1] = said[j - 1] /\ bs[j] = said[j]
        BY <1>5, <2>5, <3>2, Zenon
      <4>. QED
        BY <1>3, <4>1 DEF Covers
    <3>. QED
      BY <3>1, <3>2
  <2>. QED
    BY <2>3, <2>4, <2>5 DEF Covers
<1>7. ASSUME NEW j \in DOMAIN bs PROVE Honest(r, bs[j])
  BY <1>2, <1>3, <1>5, <1>7
<1>8. PICK t \in RequestRecords : t.item = i /\ t.answers = bs /\ Becomes(r, Onward(r, t))
  <2>1. task[r] \in RequestRecords
    BY ItemFacts
  <2>2. [task[r] EXCEPT !.answers = bs] \in RequestRecords
    BY <2>1 DEF RequestRecords
  <2>3. PICK t \in RequestRecords : t = [task[r] EXCEPT !.answers = bs]
    BY <2>2
  <2>4. t.item = i /\ t.answers = bs
    BY <1>1, <2>1, <2>3 DEF RequestRecords
  <2>5. Becomes(r, Onward(r, t))
    BY <1>1, <1>2, <1>3, <1>4, <2>3 DEF Answered, Longer
  <2>. QED
    BY <2>4, <2>5
<1>. QED
  BY <1>1, <1>6, <1>7, <1>8, OnwardKeeps

(* A batch that is broken off had another item before, or did nothing. *)
LEMMA BreaksOffKeeps ==
    ASSUME RoutesInv, AnswersInv, NEW r \in Requests, task[r].step \in {"item", "auth"},
           NEW code \in {400, 401}, BreaksOff(r, code), UNCHANGED <<plan, run, effects>>
    PROVE  AnswersInv'
<1>1. /\ task[r] \in RequestRecords /\ code \in StatusCodes /\ PlanOf(r).kind = "mcp"
      /\ PlanOf(r).items \in Seq(Items) /\ task[r].item \in Nat
      /\ task[r].item \in DOMAIN PlanOf(r).items
  BY ItemFacts DEF ItemSteps, StatusCodes
<1>2. PICK t \in RequestRecords : t = Status(task[r], code) /\ t.step = "done" /\ t.status = code
  BY <1>1, StatusFacts
<1>3. PICK x : /\ x = [t EXCEPT !.answers = <<>>]
               /\ x.step = "done" /\ x.status = code /\ x.answers = <<>>
  <2>1. PICK none : none = <<>>
    OBVIOUS
  <2>2. PICK x : x = [t EXCEPT !.answers = none]
    OBVIOUS
  <2>3. x.step = "done" /\ x.status = code /\ x.answers = none
    BY <1>2, <2>2 DEF RequestRecords
  <2>. QED
    BY <2>1, <2>2, <2>3
<1>4. task' = [task EXCEPT ![r] = x] /\ task'[r] = x /\ PlanOf(r)' = PlanOf(r)
  BY <1>2, <1>3 DEF BreaksOff, Becomes, PlanOf, RoutesInv, TypeOK
<1>5. ASSUME NEW i, NEW k, Started(r, i, k) PROVE Started(r, i, k)'
  <2>1. i \in DOMAIN PlanOf(r).items /\ i < task[r].item
    BY <1>5 DEF Started
  <2>2. Len(PlanOf(r).items) # 1
    BY <1>1, <2>1
  <2>. QED
    BY <1>1, <1>3, <1>4, <2>1, <2>2 DEF Started
<1>6. RunsStarted(r)'
  <2>1. ASSUME NEW k \in RunIds, run'[r][k].state = "on"
        PROVE  Started(r, run[r][k].item, k)' /\ k # 0
    <3>1. PICK i : i = run[r][k].item /\ i = run'[r][k].item /\ Started(r, i, k) /\ k # 0
      BY <2>1 DEF AnswersInv
    <3>2. Started(r, i, k)'
      BY <1>5, <3>1
    <3>. QED
      BY <3>1, <3>2
  <2>. QED
    BY <2>1 DEF RunsStarted
<1>7. AnswerSound(r)'
  <2>1. task'[r].answers = <<>> /\ task'[r].step = "done" /\ task'[r].status # 200
    <3>1. task'[r] = x /\ x.answers = <<>> /\ x.step = "done" /\ x.status = code /\ code # 200
      BY <1>3, <1>4
    <3>. QED
      BY <3>1, Zenon
  <2>2. DOMAIN task'[r].answers = {}
    <3>1. DOMAIN <<>> = {}
      OBVIOUS
    <3>. QED
      BY <2>1, <3>1
  <2>. QED
    BY <2>1, <2>2 DEF AnswerSound, InOrder, ItemSteps
<1>. QED
  BY <1>4, <1>5, <1>6, <1>7, OneGoesOn

(* A request has no run or effect of its own item before it starts it. *)
LEMMA NothingStarted ==
    ASSUME RoutesInv, AnswersInv, NEW r \in Requests, NEW i, \A k \in RunIds : ~Started(r, i, k)
    PROVE  Untouched(r, i)
<1>1. ASSUME NEW e \in Effects(r, i) PROVE FALSE
  <2>1. e \in effects /\ e.request = r /\ e.item = i
    BY <1>1 DEF Effects
  <2>2. e.run \in RunIds /\ Started(r, i, e.run)
    BY <2>1 DEF AnswersInv, RoutesInv, TypeOK, EffectRecords
  <2>. QED
    BY <2>2
<1>2. ASSUME NEW k \in RunIds, run[r][k].state = "on" PROVE run[r][k].item # i
  BY <1>2 DEF AnswersInv
<1>. QED
  BY <1>1, <1>2 DEF Untouched

(* A request that is not for the MCP handler has no answers. *)
LEMMA RouteMoves ==
    ASSUME RoutesInv, AnswersInv, NEW r \in Requests, PlanOf(r).kind # "mcp",
           NEW x, Becomes(r, x), UNCHANGED <<plan, run, effects>>
    PROVE  AnswersInv'
<1>1. \A i, k : ~Started(r, i, k)
  BY DEF Started
<1>2. RunsStarted(r)'
  BY <1>1 DEF AnswersInv, RunsStarted
<1>. QED
  BY <1>1, <1>2, OneGoesOn DEF Becomes

(* A request that is answered as a whole when it comes. *)
LEMMA AtOnceKeeps ==
    ASSUME RoutesInv, AnswersInv, NEW r \in Requests, task[r].step = "new",
           NEW t \in RequestRecords, t.answers = task[r].answers,
           NEW code \in StatusCodes \ {200},
           Becomes(r, Status(t, code)), UNCHANGED <<plan, run, effects>>
    PROVE  AnswersInv'
<1>1. PICK x : /\ x = Status(t, code) /\ x.step = "done" /\ x.status = code
               /\ x.answers = task[r].answers
  BY StatusFacts
<1>2. task' = [task EXCEPT ![r] = x] /\ task'[r] = x /\ PlanOf(r)' = PlanOf(r)
  BY <1>1 DEF Becomes, PlanOf, RoutesInv, TypeOK
<1>3. \A i, k : ~Started(r, i, k)
  BY DEF Started
<1>4. RunsStarted(r)'
  BY <1>3 DEF AnswersInv, RunsStarted
<1>5. ASSUME PlanOf(r).kind = "mcp" PROVE AnswerSound(r)'
  <2>1. task[r].answers = <<>>
    BY <1>5 DEF AnswersInv, AnswerSound, InOrder
  <2>2. DOMAIN x.answers = {}
    <3>1. DOMAIN <<>> = {}
      OBVIOUS
    <3>. QED
      BY <1>1, <2>1, <3>1
  <2>3. x.answers = <<>> /\ x.status # 200 /\ x.step # "new"
    BY <1>1, <2>1
  <2>. QED
    BY <1>1, <1>2, <2>2, <2>3 DEF AnswerSound, InOrder, ItemSteps
<1>. QED
  BY <1>2, <1>3, <1>4, <1>5, OneGoesOn

LEMMA GatewayStays ==
    ASSUME RoutesInv, AnswersInv, UNCHANGED <<plan, task, run, effects>>
    PROVE  AnswersInv'
<1>1. ASSUME NEW s \in Requests, (PlanOf(s).kind = "mcp")' PROVE AnswerSound(s)'
  <2>1. AnswerSound(s)
    BY <1>1 DEF PlanOf, AnswersInv
  <2>2. \A i : Effects(s, i)' = Effects(s, i)
    BY DEF Effects
  <2>. QED
    BY <2>1, <2>2, AnswerStays
<1>2. ASSUME NEW s \in Requests PROVE RunsStarted(s)'
  <2>1. RunsStarted(s)
    BY DEF AnswersInv, RunsStarted
  <2>. QED
    BY <2>1, RunsStartedStay
<1>3. ASSUME NEW e \in effects' PROVE Started(e.request, e.item, e.run)'
  <2>1. PICK s, i, k : s = e.request /\ i = e.item /\ k = e.run /\ Started(s, i, k)
    BY <1>3 DEF AnswersInv
  <2>2. Started(s, i, k)'
    BY <2>1, StartedStays
  <2>. QED
    BY <2>1, <2>2
<1>4. (\A s \in Requests : PlanOf(s).kind = "mcp" => AnswerSound(s))'
  BY <1>1
<1>5. (\A e \in effects : Started(e.request, e.item, e.run))'
  BY <1>3
<1>6. (\A s \in Requests : RunsStarted(s))'
  BY <1>2
<1>. QED
  BY <1>4, <1>5, <1>6 DEF AnswersInv, RunsStarted

LEMMA RouteKeeps ==
    ASSUME RoutesInv, AnswersInv, NEW r \in Requests, Route(r)
    PROVE  AnswersInv'
<1>1. CASE Lookup(r) \/ LoginGoesOn(r)
  BY <1>1, GatewayStays DEF Lookup, LoginGoesOn, gatewayVars
<1>2. CASE NotServed(r)
  <2>1. /\ task[r] \in RequestRecords /\ task[r].step = "new" /\ 500 \in StatusCodes \ {200}
        /\ Becomes(r, Status(task[r], 500)) /\ UNCHANGED <<plan, run, effects>>
    BY <1>2 DEF NotServed, Arrives, RoutesInv, TypeOK, StatusCodes
  <2>. QED
    BY <2>1, AtOnceKeeps
<1>3. CASE Link(r) \/ Asks(r) \/ Logout(r) \/ BeginLogin(r) \/ Callback(r)
  <2>1. PlanOf(r).kind # "mcp" /\ UNCHANGED <<plan, run, effects>>
    BY <1>3 DEF Link, Asks, Logout, BeginLogin, Callback, Arrives
  <2>2. PICK x : Becomes(r, x)
    BY <1>3 DEF Link, Asks, Logout, BeginLogin, Callback
  <2>. QED
    BY <2>1, <2>2, RouteMoves
<1>4. CASE Shown(r) \/ Revoked(r) \/ CallbackDone(r)
  <2>1. task[r].step \in {"lookup", "revoke", "login"} /\ UNCHANGED <<plan, run, effects>>
    BY <1>4 DEF Shown, Revoked, CallbackDone
  <2>2. PlanOf(r).kind # "mcp"
    BY <2>1 DEF AnswersInv, AnswerSound, InOrder, ItemSteps
  <2>3. PICK x : Becomes(r, x)
    BY <1>4 DEF Shown, Revoked, CallbackDone
  <2>. QED
    BY <2>1, <2>2, <2>3, RouteMoves
<1>. QED
  BY <1>1, <1>2, <1>3, <1>4 DEF Route

LEMMA McpKeeps ==
    ASSUME RoutesInv, AnswersInv, NEW r \in Requests, Mcp(r)
    PROVE  AnswersInv'
<1>1. /\ Served(r) /\ task[r].step = "new" /\ PlanOf(r).kind = "mcp"
      /\ UNCHANGED <<plan, run, effects>> /\ task \in [Requests -> RequestRecords]
  BY DEF Mcp, Arrives, RoutesInv, TypeOK
<1>2. PICK t \in RequestRecords : t = Taken(r) /\ t.answers = task[r].answers
  <2>1. Taken(r) \in RequestRecords
        /\ Taken(r) = [task[r] EXCEPT !.instance = worker'.instance, !.config = worker'.config]
    BY <1>1, ServedFacts
  <2>. QED
    BY <1>1, <2>1 DEF RequestRecords
<1>3. task[r].answers = <<>>
  BY <1>1 DEF AnswersInv, AnswerSound, InOrder
<1>4. CASE PlanOf(r).items = <<>> \/ AllNotes(r)
  <2>1. PICK code \in StatusCodes \ {200} : Becomes(r, Status(t, code))
    BY <1>2, <1>4 DEF Mcp, StatusCodes
  <2>. QED
    BY <1>1, <1>2, <2>1, AtOnceKeeps
<1>5. CASE ~(PlanOf(r).items = <<>> \/ AllNotes(r))
  <2>1. PICK x : /\ x = [t EXCEPT !.step = "item", !.item = 1]
                 /\ x.step = "item" /\ x.item = 1 /\ x.answers = t.answers
    <3>1. PICK u \in RequestRecords : u = [t EXCEPT !.item = 1] /\ u.item = 1 /\ u.answers = t.answers
      <4>1. [t EXCEPT !.item = 1] \in RequestRecords
        BY DEF RequestRecords
      <4>. QED
        BY <4>1 DEF RequestRecords
    <3>2. [t EXCEPT !.step = "item", !.item = 1] = [u EXCEPT !.step = "item"]
      BY <3>1 DEF RequestRecords
    <3>3. PICK x : x = [u EXCEPT !.step = "item"]
      OBVIOUS
    <3>4. x.step = "item" /\ x.item = u.item /\ x.answers = u.answers
      BY <3>3 DEF RequestRecords
    <3>. QED
      BY <3>1, <3>2, <3>3, <3>4
  <2>2. task' = [task EXCEPT ![r] = x] /\ task'[r] = x /\ PlanOf(r)' = PlanOf(r)
    BY <1>1, <1>2, <1>5, <2>1 DEF Mcp, Becomes, PlanOf
  <2>3. \A i, k : ~Started(r, i, k)
    BY <1>1 DEF Started
  <2>4. RunsStarted(r)'
    BY <1>1, <2>3 DEF AnswersInv, RunsStarted
  <2>5. x.answers = <<>> /\ DOMAIN x.answers = {}
    <3>1. DOMAIN <<>> = {}
      OBVIOUS
    <3>. QED
      BY <1>2, <1>3, <2>1, <3>1
  <2>6. Covers(r, <<>>, 0)'
    <3>1. DOMAIN <<>> = {} /\ 1 .. 0 = {} /\ 2 .. Len(<<>>) = {}
      OBVIOUS
    <3>. QED
      BY <3>1 DEF Covers
  <2>7. AnswerSound(r)'
    <3>1. task'[r].step = "item" /\ task'[r].item - 1 = 0 /\ task'[r].answers = <<>>
      <4>1. x.item - 1 = 0
        BY <2>1
      <4>. QED
        BY <2>1, <2>2, <2>5, <4>1, Zenon
    <3>2. InOrder(r, <<>>)'
      BY <2>6, <3>1 DEF InOrder, ItemSteps
    <3>. QED
      BY <2>2, <2>5, <3>1, <3>2 DEF AnswerSound
  <2>. QED
    BY <1>1, <2>2, <2>3, <2>4, <2>7, OneGoesOn
<1>. QED
  BY <1>4, <1>5

(* The call of the item goes on without a run of its own. *)
LEMMA CallKeeps ==
    ASSUME RoutesInv, AnswersInv, NEW r \in Requests, task[r].step \in {"item", "auth"},
           NEW x \in RequestRecords, x.step = "auth" \/ x.step = "sandbox",
           x.item = task[r].item, x.answers = task[r].answers,
           Becomes(r, x), UNCHANGED <<plan, run, effects>>
    PROVE  AnswersInv'
<1>0. task' = [task EXCEPT ![r] = x]
  BY DEF Becomes
<1>1. PlanOf(r).kind = "mcp" /\ task'[r] = x /\ PlanOf(r)' = PlanOf(r)
  BY <1>0, ItemFacts DEF ItemSteps, PlanOf, RoutesInv, TypeOK
<1>2. ASSUME NEW i, NEW k, Started(r, i, k) PROVE Started(r, i, k)'
  <2>1. i \in DOMAIN PlanOf(r).items /\ i < task[r].item
    BY <1>2 DEF Started
  <2>2. i <= task[r].item
    BY <2>1, ItemFacts DEF ItemSteps
  <2>. QED
    BY <1>1, <2>1, <2>2 DEF Started
<1>3. RunsStarted(r)'
  <2>1. ASSUME NEW k \in RunIds, run'[r][k].state = "on"
        PROVE  Started(r, run[r][k].item, k)' /\ k # 0
    <3>1. PICK i : i = run[r][k].item /\ i = run'[r][k].item /\ Started(r, i, k) /\ k # 0
      BY <2>1 DEF AnswersInv
    <3>2. Started(r, i, k)'
      BY <1>2, <3>1
    <3>. QED
      BY <3>1, <3>2
  <2>. QED
    BY <2>1 DEF RunsStarted
<1>4. AnswerSound(r)'
  <2>1. PICK said : /\ said = task[r].answers /\ said = task'[r].answers /\ InOrder(r, said)
                    /\ \A j \in DOMAIN said : Honest(r, said[j])
    BY <1>1 DEF AnswersInv, AnswerSound
  <2>2. \A n : Covers(r, said, n)' <=> Covers(r, said, n)
    BY <1>1 DEF Covers
  <2>3. InOrder(r, said)'
    <3>1. Covers(r, said, task[r].item - 1)
      BY <2>1 DEF InOrder, ItemSteps
    <3>. QED
      BY <1>1, <2>2, <3>1 DEF InOrder, ItemSteps
  <2>4. ASSUME NEW j \in DOMAIN said PROVE Honest(r, said[j])'
    BY <2>1, HonestStays
  <2>. QED
    BY <1>1, <2>1, <2>3, <2>4 DEF AnswerSound
<1>. QED
  BY <1>0, <1>2, <1>3, <1>4, OneGoesOn

(* A run starts, for the item r is at. *)
LEMMA StartKeeps ==
    ASSUME RoutesInv, AnswersInv, NEW r \in Requests, NEW k \in RunIds, NEW x, NEW y,
           \/ task[r].step \in {"item", "auth"} /\ x.step = "run" /\ k = 0
           \/ task[r].step = "sandbox" /\ x.step = "sandbox" /\ k # 0,
           x.item = task[r].item, x.answers = task[r].answers, y.item = task[r].item,
           task' = [task EXCEPT ![r] = x], run' = [run EXCEPT ![r][k] = y],
           UNCHANGED <<plan, effects>>, x.step = "run" => RunTrue(r)'
    PROVE  AnswersInv'
<1>1. /\ PlanOf(r).kind = "mcp" /\ task'[r] = x /\ PlanOf(r)' = PlanOf(r)
      /\ PlanOf(r).items \in Seq(Items) /\ task[r].item \in DOMAIN PlanOf(r).items
      /\ task[r].item \in Nat
  BY ItemFacts DEF ItemSteps, PlanOf, RoutesInv, TypeOK
<1>2. /\ run'[r][k] = y /\ \A j \in RunIds \ {k} : run'[r][j] = run[r][j]
      /\ \A s \in Requests \ {r} : run'[s] = run[s]
  BY DEF RoutesInv, TypeOK
<1>3. ASSUME NEW i, NEW j, Started(r, i, j) PROVE Started(r, i, j)'
  <2>1. i \in DOMAIN PlanOf(r).items
    BY <1>3 DEF Started
  <2>2. x.step = "run" => i < task[r].item
    BY <1>3 DEF Started
  <2>3. x.step = "sandbox" => i <= task[r].item
    BY <1>3 DEF Started
  <2>. QED
    BY <1>1, <2>1, <2>2, <2>3 DEF Started
<1>4. ASSUME NEW i, i = task[r].item PROVE Started(r, i, k)'
  <2>1. i <= task[r].item
    BY <1>1, <1>4
  <2>. QED
    BY <1>1, <1>4, <2>1 DEF Started
<1>5. RunsStarted(r)'
  <2>1. ASSUME NEW j \in RunIds, run'[r][j].state = "on"
        PROVE  Started(r, run[r][j].item, j)' /\ (j = 0 => x.step = "run")
    <3>1. CASE j = k
      <4>1. PICK i : i = task[r].item /\ i = run'[r][j].item
        BY <1>2, <3>1
      <4>2. Started(r, i, k)'
        BY <1>4, <4>1
      <4>. QED
        BY <3>1, <4>1, <4>2
    <3>2. CASE j # k
      <4>1. PICK i : /\ i = run[r][j].item /\ i = run'[r][j].item /\ Started(r, i, j)
                     /\ j = 0 => task[r].step = "run"
        BY <1>2, <2>1, <3>2 DEF AnswersInv
      <4>2. Started(r, i, j)'
        BY <1>3, <4>1
      <4>. QED
        BY <4>1, <4>2
    <3>. QED
      BY <3>1, <3>2
  <2>. QED
    BY <1>1, <2>1 DEF RunsStarted
<1>6. AnswerSound(r)'
  <2>1. PICK said : /\ said = task[r].answers /\ said = task'[r].answers /\ InOrder(r, said)
                    /\ \A j \in DOMAIN said : Honest(r, said[j])
    BY <1>1 DEF AnswersInv, AnswerSound
  <2>2. \A n : Covers(r, said, n)' <=> Covers(r, said, n)
    BY <1>1 DEF Covers
  <2>3. Covers(r, said, task[r].item - 1)
    BY <2>1 DEF InOrder, ItemSteps
  <2>4. InOrder(r, said)'
    BY <1>1, <2>2, <2>3 DEF InOrder, ItemSteps
  <2>5. ASSUME NEW j \in DOMAIN said PROVE Honest(r, said[j])'
    <3>1. PICK a : a = said[j] /\ Honest(r, a)
      BY <2>1
    <3>2. a.item # task[r].item
      <4>1. a.item \in {said[n].item : n \in DOMAIN said}
        BY <3>1
      <4>2. a.item \in 1 .. (task[r].item - 1)
        BY <2>3, <4>1 DEF Covers
      <4>. QED
        BY <1>1, <4>2
    <3>3. Untouched(r, a.item) => Untouched(r, a.item)'
      <4>1. Effects(r, a.item)' = Effects(r, a.item)
        BY DEF Effects
      <4>2. \A n \in RunIds : run'[r][n].state = "on" /\ run'[r][n].item = a.item
                                => run'[r][n] = run[r][n]
        BY <1>2, <3>2
      <4>. QED
        BY <4>1, <4>2 DEF Untouched
    <3>4. \A call : Done(r, a.item, call) => Done(r, a.item, call)'
      <4>1. Effects(r, a.item)' = Effects(r, a.item)
        BY DEF Effects
      <4>. QED
        BY <4>1 DEF Done
    <3>5. Honest(r, a)'
      BY <1>1, <3>1, <3>3, <3>4 DEF Honest
    <3>. QED
      BY <3>1, <3>5
  <2>. QED
    BY <1>1, <2>1, <2>4, <2>5 DEF AnswerSound
<1>. QED
  BY <1>2, <1>3, <1>5, <1>6, OneGoesOn

(* Run 0 is under way only while its request waits for it. *)
LEMMA NoRun ==
    ASSUME RoutesInv, AnswersInv, NEW r \in Requests, task[r].step # "run"
    PROVE  run[r][0].state # "on"
<1>1. 0 \in RunIds
  BY GatewayAssumption DEF RunIds
<1>. QED
  BY <1>1 DEF AnswersInv

(* An answer that says nothing definite, or nothing but what the item is. *)
LEMMA PlainAnswer ==
    ASSUME RoutesInv, AnswersInv, NEW r \in Requests, task[r].step \in ItemSteps,
           task[r].step # "run", ItemOf(r).kind # "note",
           NEW a \in Answers \ Refusals, a = "ok" => ItemOf(r).kind # "call" \/ PlanOf(r).codemode,
           Answered(r, a), UNCHANGED <<plan, run, effects>>
    PROVE  AnswersInv'
<1>1. Honest(r, [item |-> task[r].item, answer |-> a])
  BY DEF Honest, ItemOf
<1>2. run'[r][0].state # "on" /\ a \in Answers
  BY NoRun
<1>. QED
  BY <1>1, <1>2, AnsweredKeeps

LEMMA NoCallKeeps ==
    ASSUME RoutesInv, AnswersInv, NEW r \in Requests, NoCall(r)
    PROVE  AnswersInv'
<1>1. /\ task[r].step = "item" /\ task[r].step \in ItemSteps /\ UNCHANGED <<plan, run, effects>>
  BY DEF NoCall, ItemSteps
<1>2. CASE ItemOf(r).kind = "note" /\ Becomes(r, Onward(r, task[r]))
  <2>1. /\ task[r] \in RequestRecords /\ PlanOf(r).kind = "mcp" /\ task[r].item \in Nat
        /\ task[r].item >= 1
    BY <1>1, ItemFacts
  <2>2. PICK said : /\ said = task[r].answers /\ Covers(r, said, task[r].item - 1)
                    /\ \A j \in DOMAIN said : Honest(r, said[j])
    BY <1>1, <2>1 DEF AnswersInv, AnswerSound, InOrder
  <2>3. Covers(r, said, task[r].item)
    <3>1. {i \in 1 .. (task[r].item - 1) : PlanOf(r).items[i].kind # "note"}
            = {i \in 1 .. task[r].item : PlanOf(r).items[i].kind # "note"}
      <4>1. \A i \in 1 .. task[r].item : i # task[r].item => i \in 1 .. (task[r].item - 1)
        BY <2>1
      <4>2. \A i \in 1 .. (task[r].item - 1) : i \in 1 .. task[r].item
        BY <2>1
      <4>3. PlanOf(r).items[task[r].item].kind = "note"
        BY <1>2 DEF ItemOf
      <4>. QED
        BY <4>1, <4>2, <4>3
    <3>. QED
      BY <2>2, <3>1 DEF Covers
  <2>4. run'[r][0].state # "on"
    BY <1>1, NoRun
  <2>. QED
    BY <1>1, <1>2, <2>1, <2>2, <2>3, <2>4, OnwardKeeps
<1>3. CASE ItemOf(r).kind = "plain" /\ \E a \in {"ok", "rpcError"} : Answered(r, a)
  <2>1. PICK a \in Answers \ Refusals : Answered(r, a)
    BY <1>3 DEF Answers, Refusals
  <2>. QED
    BY <1>1, <1>3, <2>1, PlainAnswer
<1>4. CASE BreaksOff(r, 400)
  BY <1>1, <1>4, BreaksOffKeeps
<1>. QED
  BY <1>2, <1>3, <1>4 DEF NoCall

LEMMA ChallengedKeeps ==
    ASSUME RoutesInv, AnswersInv, NEW r \in Requests, Challenged(r)
    PROVE  AnswersInv'
<1>1. /\ task[r].step = "auth" /\ task[r].step \in ItemSteps /\ UNCHANGED <<plan, run, effects>>
  BY DEF Challenged, ItemSteps
<1>2. CASE BreaksOff(r, 401)
  BY <1>1, <1>2, BreaksOffKeeps
<1>3. CASE Answered(r, "rpcError")
  <2>1. "rpcError" \in Answers \ Refusals /\ ItemOf(r).kind = "call"
    BY <1>1, ItemFacts DEF Answers, Refusals
  <2>. QED
    BY <1>1, <1>3, <2>1, PlainAnswer
<1>. QED
  BY <1>2, <1>3 DEF Challenged

LEMMA CodeModeKeeps ==
    ASSUME RoutesInv, AnswersInv, NEW r \in Requests, AnsweredAtOnce(r) \/ CloseSandbox(r)
    PROVE  AnswersInv'
<1>1. /\ task[r].step \in {"item", "auth", "sandbox"} /\ UNCHANGED <<plan, run, effects>>
  BY DEF AnsweredAtOnce, CloseSandbox
<1>2. ItemOf(r).kind = "call"
  BY <1>1, ReadyFacts, ItemFacts DEF AnsweredAtOnce, CloseSandbox, ItemSteps
<1>3. PlanOf(r).codemode
  <2>1. CASE AnsweredAtOnce(r)
    BY <2>1 DEF AnsweredAtOnce
  <2>2. CASE CloseSandbox(r)
    BY <2>2 DEF CloseSandbox, RoutesInv, TaskSound, InSandbox
  <2>. QED
    BY <2>1, <2>2
<1>4. PICK a \in Answers \ Refusals : Answered(r, a)
  BY DEF AnsweredAtOnce, CloseSandbox, Answers, Refusals
<1>. QED
  BY <1>1, <1>2, <1>3, <1>4, PlainAnswer DEF ItemSteps

LEMMA AuthenticateKeeps ==
    ASSUME RoutesInv, AnswersInv, NEW r \in Requests, Authenticate(r) \/ OpenSandbox(r)
    PROVE  AnswersInv'
<1>1. task[r].step \in {"item", "auth"} /\ UNCHANGED <<plan, run, effects>>
  BY DEF Authenticate, OpenSandbox, Calling
<1>2. task[r] \in RequestRecords
  BY DEF RoutesInv, TypeOK
<1>3. CASE Authenticate(r)
  <2>1. PICK x \in RequestRecords : x = [task[r] EXCEPT !.step = "auth"]
    BY <1>2 DEF RequestRecords, RequestSteps
  <2>2. x.step = "auth" /\ x.item = task[r].item /\ x.answers = task[r].answers
    BY <1>2, <2>1 DEF RequestRecords
  <2>3. Becomes(r, x)
    BY <1>3, <2>1 DEF Authenticate
  <2>. QED
    BY <1>1, <2>2, <2>3, CallKeeps
<1>4. CASE OpenSandbox(r)
  <2>1. PICK s \in Tokens : Becomes(r, [task[r] EXCEPT !.step = "sandbox", !.session = s])
    BY <1>4 DEF OpenSandbox
  <2>2. PICK y \in RequestRecords : y = [task[r] EXCEPT !.step = "sandbox"]
    BY <1>2 DEF RequestRecords, RequestSteps
  <2>3. PICK x \in RequestRecords : x = [y EXCEPT !.session = s]
    BY <2>2 DEF RequestRecords
  <2>4. x = [task[r] EXCEPT !.step = "sandbox", !.session = s]
    BY <1>2, <2>2, <2>3 DEF RequestRecords
  <2>5. x.step = "sandbox" /\ x.item = task[r].item /\ x.answers = task[r].answers
    BY <1>2, <2>2, <2>3 DEF RequestRecords
  <2>6. Becomes(r, x)
    BY <2>1, <2>4
  <2>. QED
    BY <1>1, <2>5, <2>6, CallKeeps
<1>. QED
  BY <1>3, <1>4

(* What a run is started for it goes through with, or answers otherwise. *)
LEMMA RunToolKeeps ==
    ASSUME RoutesInv, AnswersInv, NEW r \in Requests, RunTool(r)
    PROVE  AnswersInv'
<1>1. task[r].step \in {"item", "auth"} /\ UNCHANGED <<plan, effects>>
  BY DEF RunTool
<1>2. /\ run \in [Requests -> [RunIds -> RunRecords]] /\ task \in [Requests -> RequestRecords]
      /\ 0 \in RunIds
  BY GatewayAssumption DEF RoutesInv, TypeOK, RunIds
<1>3. PICK s \in Tokens :
        /\ Ready(r, s) /\ (~PlanOf(r).codemode \/ ByCapability(r))
        /\ \E y \in Runs(r, s) : run' = [run EXCEPT ![r][0] = y]
        /\ Becomes(r, [task[r] EXCEPT !.step = "run", !.session = s])
  BY DEF RunTool
<1>4. PICK y \in Runs(r, s) : run' = [run EXCEPT ![r][0] = y]
  BY <1>3
<1>5. PICK x : x = [task[r] EXCEPT !.step = "run", !.session = s]
  OBVIOUS
<1>6. x.step = "run" /\ x.item = task[r].item /\ x.answers = task[r].answers
  BY <1>2, <1>5 DEF RequestRecords
<1>7. task' = [task EXCEPT ![r] = x] /\ task'[r] = x /\ PlanOf(r)' = PlanOf(r)
  BY <1>1, <1>2, <1>3, <1>5 DEF Becomes, PlanOf
<1>8. PICK item \in Nat : item = task[r].item /\ ItemOf(r) = PlanOf(r).items[item]
  BY <1>1, ItemFacts DEF ItemSteps
<1>9. PICK c : c = ItemOf(r).call /\ c \in Calls
  BY <1>1, ItemFacts DEF ItemSteps, Items
<1>10. PICK known \in BOOLEAN : known = (s # Nobody)
  OBVIOUS
<1>11. y.item = item /\ y.state # "off"
       /\ (~PlanOf(r).codemode => \E confirmed \in BOOLEAN :
             Opened(y, c.name, known, confirmed, Flagged(r)) \/ Closed(y, c.name, known))
  <2>1. CASE ByCapability(r)
    <3>1. PlanOf(r).codemode
      BY <2>1 DEF ByCapability
    <3>2. y \in executeCapability(item, c, known, Flagged(r))
      BY <1>4, <1>8, <1>9, <1>10, <2>1 DEF Runs
    <3>3. CASE \E a \in {"error", "confirm"} : y = Ended(item, a)
      BY <3>1, <3>3 DEF Ended, Off
    <3>4. CASE ~\E a \in {"error", "confirm"} : y = Ended(item, a)
      <4>1. PICK confirmed \in BOOLEAN : confirmed = Confirmed(c)
        BY <1>9 DEF Confirmed, Calls
      <4>2. PICK tool : tool = nativeToolName(c.capability)
        OBVIOUS
      <4>3. y \in callTool(item, tool, known, confirmed, c.source, Flagged(r))
        BY <3>2, <3>4, <4>1, <4>2 DEF executeCapability
      <4>4. y.item = item /\ (Opened(y, tool, known, confirmed, Flagged(r)) \/ Closed(y, tool, known))
        BY <4>3, CallToolRuns
      <4>. QED
        BY <3>1, <4>4 DEF Opened, Closed
    <3>. QED
      BY <3>3, <3>4
  <2>2. CASE ~ByCapability(r)
    <3>1. PICK confirmed \in BOOLEAN : confirmed = c.confirmed
      BY <1>9 DEF Calls
    <3>2. y \in callTool(item, c.name, known, confirmed, c.source, Flagged(r))
      BY <1>4, <1>8, <1>9, <1>10, <2>2, <3>1 DEF Runs
    <3>3. /\ y.item = item
          /\ Opened(y, c.name, known, confirmed, Flagged(r)) \/ Closed(y, c.name, known)
      BY <3>2, CallToolRuns
    <3>4. y.state # "off"
      BY <3>3 DEF Opened, Closed
    <3>. QED
      BY <3>3, <3>4
  <2>. QED
    BY <2>1, <2>2
<1>12. RunTrue(r)'
  <2>1. run'[r][0] = y /\ task'[r].item = item /\ ItemOf(r)' = ItemOf(r)
    BY <1>2, <1>4, <1>6, <1>7, <1>8 DEF ItemOf
  <2>2. ASSUME y.state = "ended" PROVE Untouched(r, item)'
    <3>1. \A k \in RunIds : ~Started(r, item, k)
      BY <1>1, <1>8 DEF Started
    <3>2. Untouched(r, item)
      BY <3>1, NothingStarted
    <3>3. Effects(r, item)' = Effects(r, item)
      BY <1>1 DEF Effects
    <3>4. \A k \in RunIds : run'[r][k].state = "on" => run'[r][k] = run[r][k]
      BY <1>2, <1>4, <2>1, <2>2
    <3>. QED
      BY <3>2, <3>3, <3>4 DEF Untouched
  <2>3. ASSUME ~PlanOf(r).codemode, y.state = "on" \/ y.answer = "ok" PROVE KeepsPromise(r)'
    <3>1. PICK confirmed \in BOOLEAN :
            Opened(y, c.name, known, confirmed, Flagged(r)) \/ Closed(y, c.name, known)
      BY <1>11, <2>3
    <3>2. y.state = "on" /\ y.chain \in Chains(c.name)
      BY <2>3, <3>1 DEF Opened, Closed
    <3>3. ASSUME NEW call \in Promised(c.name)
          PROVE  /\ \E i \in DOMAIN y.chain : Binding(y.chain[i], call)
                 /\ \A i \in DOMAIN y.chain : y.chain[i].then # "ends"
      <4>1. PICK chain : chain = y.chain /\ chain \in Chains(c.name)
        BY <3>2
      <4>2. Binds(chain, call)
        BY <4>1, PromisedBinds
      <4>3. \A i \in DOMAIN chain : chain[i].then # "ends"
        <5>1. chain \in Seq(Going)
          BY <4>2 DEF Binds
        <5>2. \A i \in DOMAIN chain : chain[i] \in Going
          BY <5>1
        <5>. QED
          BY <5>2 DEF Going
      <4>. QED
        BY <4>1, <4>2, <4>3 DEF Binds
    <3>4. ItemOf(r)'.call.name = c.name
      BY <1>9, <2>1
    <3>. QED
      BY <2>1, <3>2, <3>3, <3>4 DEF KeepsPromise
  <2>. QED
    BY <1>7, <1>11, <2>1, <2>2, <2>3 DEF RunTrue
<1>. QED
  BY <1>1, <1>2, <1>4, <1>6, <1>7, <1>8, <1>11, <1>12, StartKeeps

LEMMA NestedKeeps ==
    ASSUME RoutesInv, AnswersInv, NEW r \in Requests, Nested(r)
    PROVE  AnswersInv'
<1>1. task[r].step = "sandbox" /\ UNCHANGED <<plan, effects>>
      /\ task[r].nested < Len(ItemOf(r).code)
  BY DEF Nested
<1>2. task[r] \in RequestRecords /\ ItemOf(r) \in Items /\ MaxNestedCalls \in Nat
      /\ Len(ItemOf(r).code) <= MaxNestedCalls + 2
  <2>1. /\ task[r] \in RequestRecords /\ ItemOf(r) \in Items
        /\ ItemOf(r) = PlanOf(r).items[task[r].item] /\ task[r].item \in DOMAIN PlanOf(r).items
    BY <1>1, ItemFacts DEF ItemSteps
  <2>. QED
    BY <2>1, PlanFacts, GatewayAssumption
<1>3. PICK k \in RunIds : k = task[r].nested + 1 /\ k # 0
  <2>1. Len(ItemOf(r).code) \in Nat /\ task[r].nested \in Nat
    BY <1>2 DEF Items, RequestRecords
  <2>. QED
    BY <1>1, <1>2, <2>1 DEF RunIds
<1>4. PICK y \in NestedRuns(r, ItemOf(r).code[k]) : run' = [run EXCEPT ![r][k] = y]
  BY <1>3 DEF Nested
<1>5. PICK x : x = [task[r] EXCEPT !.nested = k]
  OBVIOUS
<1>6. /\ x.step = "sandbox" /\ x.item = task[r].item /\ x.answers = task[r].answers
      /\ task' = [task EXCEPT ![r] = x]
  BY <1>1, <1>2, <1>3, <1>5 DEF RequestRecords, Nested, Becomes
<1>7. PICK item \in Nat : item = task[r].item
  BY <1>2 DEF RequestRecords
<1>8. y.item = item
  <2>1. CASE \E a : y = Ended(item, a)
    BY <2>1 DEF Ended, Off
  <2>2. CASE ~\E a : y = Ended(item, a)
    <3>1. PICK c : c = ItemOf(r).code[k]
      OBVIOUS
    <3>2. PICK known \in BOOLEAN : known = (task[r].session # Nobody)
      OBVIOUS
    <3>3. y \in executeCapability(item, c, known, Flagged(r))
      BY <1>4, <1>7, <2>2, <3>1, <3>2 DEF NestedRuns
    <3>4. PICK tool, confirmed : y \in callTool(item, tool, known, confirmed, c.source, Flagged(r))
      BY <2>2, <3>3 DEF executeCapability
    <3>5. PICK chain : y = [Off EXCEPT !.state = "on", !.item = item, !.tool = tool,
                                       !.known = known, !.chain = chain]
      BY <2>2, <3>4 DEF callTool
    <3>. QED
      BY <3>5 DEF Off
  <2>. QED
    BY <2>1, <2>2
<1>. QED
  BY <1>1, <1>3, <1>4, <1>6, <1>7, <1>8, StartKeeps

LEMMA ReturnKeeps ==
    ASSUME RoutesInv, RunsInv, AnswersInv, NEW r \in Requests, Return(r)
    PROVE  AnswersInv'
<1>1. /\ task[r].step = "run" /\ task[r].step \in ItemSteps /\ run[r][0].state = "ended"
      /\ UNCHANGED <<plan, effects>> /\ run' = [run EXCEPT ![r][0] = Off]
  BY DEF Return, Takes, ItemSteps
<1>2. /\ run \in [Requests -> [RunIds -> RunRecords]] /\ 0 \in RunIds
      /\ RunSound(r, 0, run[r][0])
  BY GatewayAssumption DEF RoutesInv, TypeOK, RunIds, RunsInv
<1>3. /\ ItemOf(r).kind = "call" /\ PlanOf(r).kind = "mcp" /\ RunTrue(r)
      /\ ItemOf(r) = PlanOf(r).items[task[r].item]
  BY <1>1, ItemFacts DEF AnswersInv, AnswerSound
<1>4. PICK a \in Answers :
        /\ Answered(r, a)
        /\ a = run[r][0].answer \/ a = "rpcError" \/ (a = "large" /\ PlanOf(r).codemode)
  <2>1. run[r][0].answer \in Answers \cup {"threw"}
    BY <1>1, <1>2 DEF RunSound, RunRecords
  <2>. QED
    BY <2>1 DEF Return, Answers
<1>5. Honest(r, [item |-> task[r].item, answer |-> a])
  <2>1. a \in Refusals => a = run[r][0].answer
    BY <1>4 DEF Refusals
  <2>2. a \in Refusals => Untouched(r, task[r].item)
    BY <1>1, <1>3, <2>1 DEF RunTrue
  <2>3. a = "ok" => a = run[r][0].answer
    BY <1>4
  <2>4. a = "ok" /\ ~PlanOf(r).codemode =>
          \A call \in Promised(ItemOf(r).call.name) : Done(r, task[r].item, call)
    BY <1>1, <1>3, <2>3 DEF RunTrue, KeepsPromise
  <2>. QED
    BY <1>3, <2>2, <2>4 DEF Honest
<1>6. /\ \A s \in Requests \ {r} : run'[s] = run[s]
      /\ \A k \in RunIds \ {0} : run'[r][k] = run[r][k]
      /\ run'[r][0].state # "on"
  BY <1>1, <1>2 DEF Off
<1>. QED
  BY <1>1, <1>3, <1>4, <1>5, <1>6, AnsweredKeeps

(* A run that has to make a call makes it, still has to, or ends with an   *)
(* answer that promises nothing.                                           *)
LEMMA StepBinds ==
    ASSUME NEW x \in RunRecords, x.state = "on", x.chain # <<>>,
           NEW y \in StepAnswered(x) \cup {StepFailed(x)}, NEW call,
           \E i \in DOMAIN x.chain : Binding(x.chain[i], call),
           \A i \in DOMAIN x.chain : x.chain[i].then # "ends"
    PROVE  \/ y.state = "ended" /\ y.answer \in {"error", "threw", "reported"}
           \/ y # StepFailed(x) /\ Binding(Head(x.chain), call)
           \/ /\ y.state = "on"
              /\ \E i \in DOMAIN y.chain : Binding(y.chain[i], call)
              /\ \A i \in DOMAIN y.chain : y.chain[i].then # "ends"
<1>1. PICK c \in Seq(ApiSteps) : c = x.chain
  BY DEF RunRecords
<1>2. /\ 1 \in DOMAIN c /\ Head(c) = c[1] /\ Head(c) \in ApiSteps /\ Tail(c) \in Seq(ApiSteps)
      /\ \A i \in DOMAIN Tail(c) : i + 1 \in DOMAIN c /\ Tail(c)[i] = c[i + 1]
      /\ \A i \in DOMAIN c : i = 1 \/ (i - 1 \in DOMAIN Tail(c) /\ Tail(c)[i - 1] = c[i])
  BY <1>1
<1>3. ASSUME y = GoesOn(x), ~Binding(Head(c), call)
      PROVE  /\ y.state = "on"
             /\ \E i \in DOMAIN y.chain : Binding(y.chain[i], call)
             /\ \A i \in DOMAIN y.chain : y.chain[i].then # "ends"
  <2>1. y.state = "on" /\ y.chain = Tail(c)
    BY <1>1, <1>3 DEF GoesOn, RunRecords
  <2>2. PICK i \in DOMAIN c : Binding(c[i], call)
    BY <1>1
  <2>3. i # 1
    BY <1>2, <1>3, <2>2
  <2>4. i - 1 \in DOMAIN y.chain /\ Binding(y.chain[i - 1], call)
    BY <1>2, <2>1, <2>2, <2>3
  <2>5. ASSUME NEW j \in DOMAIN y.chain PROVE y.chain[j].then # "ends"
    BY <1>1, <1>2, <2>1, <2>5
  <2>. QED
    BY <2>1, <2>4, <2>5
<1>4. ASSUME NEW a \in {"error", "threw", "reported"}, y = Stops(x, a)
      PROVE  y.state = "ended" /\ y.answer \in {"error", "threw", "reported"}
  <2>1. PICK u : u = [x EXCEPT !.state = "ended", !.answer = a]
    OBVIOUS
  <2>2. u.state = "ended" /\ u.answer = a
    BY <2>1 DEF RunRecords
  <2>3. y = [u EXCEPT !.chain = <<>>]
    BY <1>4, <2>1 DEF Stops, RunRecords
  <2>4. y.state = u.state /\ y.answer = u.answer
    BY <2>1, <2>3 DEF RunRecords
  <2>. QED
    BY <2>2, <2>4
<1>5. Head(c).fails \in {"caught", "skipped", "thrown", "reported"} /\ Head(c).then # "ends"
  BY <1>1, <1>2 DEF ApiSteps
<1>6. ASSUME Head(c).fails # "skipped"
      PROVE  \E a \in {"error", "threw", "reported"} : StepFailed(x) = Stops(x, a)
  BY <1>1, <1>5, <1>6 DEF StepFailed
<1>7. CASE y = StepFailed(x)
  <2>1. CASE Head(c).fails = "skipped"
    <3>1. y = GoesOn(x) /\ ~Binding(Head(c), call)
      BY <1>1, <1>7, <2>1 DEF StepFailed, Binding
    <3>. QED
      BY <1>3, <3>1
  <2>. QED
    BY <1>4, <1>6, <1>7, <2>1
<1>8. CASE y # StepFailed(x)
  <2>1. y = GoesOn(x) \/ y = Stops(x, "error")
    BY <1>1, <1>5, <1>8 DEF StepAnswered
  <2>. QED
    BY <1>1, <1>3, <1>4, <1>8, <2>1
<1>. QED
  BY <1>7, <1>8

(* A run that is over did not end with a refusal. *)
LEMMA StepEnds ==
    ASSUME NEW x \in RunRecords, x.state = "on", x.chain # <<>>,
           NEW y \in StepAnswered(x) \cup {StepFailed(x)}
    PROVE  /\ y.state = "on" => y.answer = x.answer
           /\ y.state = "ended" => y.answer \in {"error", "threw", "reported"}
<1>1. PICK c \in Seq(ApiSteps) : c = x.chain /\ Head(c) \in ApiSteps
  BY DEF RunRecords
<1>2. ASSUME NEW d, y = [x EXCEPT !.chain = d] PROVE y.state = "on" /\ y.answer = x.answer
  BY <1>2 DEF RunRecords
<1>3. ASSUME NEW a \in {"error", "threw", "reported"}, y = Stops(x, a)
      PROVE  y.state = "ended" /\ y.answer \in {"error", "threw", "reported"}
  <2>1. PICK u : u = [x EXCEPT !.state = "ended", !.answer = a]
    OBVIOUS
  <2>2. u.state = "ended" /\ u.answer = a
    BY <2>1 DEF RunRecords
  <2>3. y = [u EXCEPT !.chain = <<>>]
    BY <1>3, <2>1 DEF Stops, RunRecords
  <2>4. y.state = u.state /\ y.answer = u.answer
    BY <2>1, <2>3 DEF RunRecords
  <2>. QED
    BY <2>2, <2>4
<1>4. Head(x.chain).fails \in {"caught", "skipped", "thrown", "reported"}
  BY <1>1 DEF ApiSteps
<1>5. \/ \E d : y = [x EXCEPT !.chain = d]
      \/ \E a \in {"error", "threw", "reported"} : y = Stops(x, a)
  <2>1. CASE y \in StepAnswered(x)
    BY <2>1 DEF StepAnswered, GoesOn
  <2>2. CASE y = StepFailed(x)
    BY <1>4, <2>2 DEF StepFailed, GoesOn
  <2>. QED
    BY <2>1, <2>2
<1>. QED
  BY <1>2, <1>3, <1>5

Bound(x, call) == /\ \E i \in DOMAIN x.chain : Binding(x.chain[i], call)
                  /\ \A i \in DOMAIN x.chain : x.chain[i].then # "ends"

(* Run k of r goes on from x to y, and e may take effect. *)
MovesOn(r, k, x, y, e) ==
    /\ x = run[r][k] /\ x.state = "on" /\ run' = [run EXCEPT ![r][k] = y]
    /\ y.item = x.item /\ y.state \in {"on", "ended"}
    /\ y.state = "ended" => y.answer \notin Refusals
    /\ e.request = r /\ e.run = k /\ e.item = x.item
    /\ effects' = effects \/ effects' = effects \cup {e}
    /\ \A call : Bound(x, call) => \/ y.state = "ended" /\ y.answer # "ok"
                                   \/ e \in effects' /\ e.call = call
                                   \/ y.state = "on" /\ Bound(y, call)
    /\ y.state = "ended" /\ y.answer = "ok" => DOMAIN x.chain = {}

LEMMA UpstreamMoves ==
    ASSUME RoutesInv, RunsInv, NEW r \in Requests, NEW k \in RunIds, Upstream(r, k)
    PROVE  \E x, y, e : MovesOn(r, k, x, y, e)
<1>1. run \in [Requests -> [RunIds -> RunRecords]]
  BY DEF RoutesInv, TypeOK
<1>2. PICK x \in RunRecords : x = run[r][k] /\ RunSound(r, k, x) /\ x.state = "on"
  BY <1>1 DEF RunsInv, Upstream, UpstreamAnswers, UpstreamFails, RunEnds, Waiting
<1>3. PICK e : e = Effect(r, k, x, Head(x.chain))
  OBVIOUS
<1>4. /\ e.request = r /\ e.run = k /\ e.item = x.item /\ e.call = Head(x.chain).call
  BY <1>3 DEF Effect
<1>5. CASE UpstreamAnswers(r, k) \/ UpstreamFails(r, k)
  <2>1. PICK y \in StepAnswered(x) \cup {StepFailed(x)} :
          run' = [run EXCEPT ![r][k] = y] /\ (UpstreamFails(r, k) => y = StepFailed(x))
    BY <1>2, <1>5 DEF UpstreamAnswers, UpstreamFails, Takes
  <2>2. x.chain # <<>>
    BY <1>2, <1>5 DEF UpstreamAnswers, UpstreamFails, Waiting
  <2>3. y.item = x.item /\ y.state \in {"on", "ended"}
    BY <1>2, <2>2, StepSound DEF MayBecome
  <2>4. y.state = "ended" => y.answer \in {"error", "threw", "reported"}
    BY <1>2, <2>2, StepEnds
  <2>5. y.state = "ended" => y.answer \notin Refusals /\ y.answer # "ok"
    BY <2>4 DEF Refusals
  <2>6. effects' = effects \/ effects' = effects \cup {e}
    BY <1>2, <1>3, <1>5 DEF UpstreamAnswers, UpstreamFails, Written
  <2>7. ASSUME NEW call, Bound(x, call)
        PROVE  \/ y.state = "ended" /\ y.answer # "ok"
               \/ e \in effects' /\ e.call = call
               \/ y.state = "on" /\ Bound(y, call)
    <3>1. /\ \E i \in DOMAIN x.chain : Binding(x.chain[i], call)
          /\ \A i \in DOMAIN x.chain : x.chain[i].then # "ends"
      BY <2>7 DEF Bound
    <3>2. \/ y.state = "ended" /\ y.answer \in {"error", "threw", "reported"}
          \/ y # StepFailed(x) /\ Binding(Head(x.chain), call)
          \/ /\ y.state = "on"
             /\ \E i \in DOMAIN y.chain : Binding(y.chain[i], call)
             /\ \A i \in DOMAIN y.chain : y.chain[i].then # "ends"
      BY <1>2, <2>2, <3>1, StepBinds
    <3>3. CASE y # StepFailed(x) /\ Binding(Head(x.chain), call)
      <4>1. effects' = Written(r, k)
        BY <1>5, <2>1, <3>3 DEF UpstreamAnswers
      <4>2. Head(x.chain).writes /\ Head(x.chain).call = call
        BY <3>3 DEF Binding
      <4>3. e \in effects'
        BY <1>2, <1>3, <4>1, <4>2 DEF Written
      <4>. QED
        BY <1>4, <4>2, <4>3
    <3>. QED
      BY <2>5, <3>2, <3>3 DEF Bound
  <2>8. MovesOn(r, k, x, y, e)
    BY <1>2, <1>4, <2>1, <2>3, <2>5, <2>6, <2>7 DEF MovesOn
  <2>. QED
    BY <2>8
<1>6. CASE RunEnds(r, k)
  <2>1. x.chain = <<>> /\ effects' = effects
    BY <1>2, <1>6 DEF RunEnds
  <2>2. DOMAIN x.chain = {}
    <3>1. DOMAIN <<>> = {}
      OBVIOUS
    <3>. QED
      BY <2>1, <3>1
  <2>3. PICK a \in {"ok", "error"} : run' = [run EXCEPT ![r][k] = Stops(x, a)]
    BY <1>2, <1>6 DEF RunEnds, Takes, Results
  <2>4. PICK y : y = Stops(x, a)
    OBVIOUS
  <2>5. y.item = x.item /\ y.state = "ended" /\ y.answer = a
    BY <1>2, <2>4, StopsSound
  <2>6. y.answer \notin Refusals
    BY <2>5 DEF Refusals
  <2>7. \A call : ~Bound(x, call)
    BY <2>2 DEF Bound
  <2>8. MovesOn(r, k, x, y, e)
    BY <1>2, <1>4, <2>1, <2>2, <2>3, <2>4, <2>5, <2>6, <2>7 DEF MovesOn
  <2>. QED
    BY <2>8
<1>. QED
  BY <1>5, <1>6 DEF Upstream

LEMMA UpstreamKeeps ==
    ASSUME RoutesInv, RunsInv, AnswersInv, NEW r \in Requests, NEW k \in RunIds, Upstream(r, k)
    PROVE  AnswersInv'
<1>1. /\ run \in [Requests -> [RunIds -> RunRecords]] /\ effects \subseteq EffectRecords
      /\ UNCHANGED <<plan, task>> /\ 0 \in RunIds
  BY GatewayAssumption
     DEF RoutesInv, TypeOK, Upstream, UpstreamAnswers, UpstreamFails, RunEnds, RunIds
<1>2. PICK x, y, e : MovesOn(r, k, x, y, e)
  BY UpstreamMoves
<1>3. /\ run'[r][k] = y /\ \A j \in RunIds \ {k} : run'[r][j] = run[r][j]
      /\ \A s \in Requests \ {r} : run'[s] = run[s]
  BY <1>1, <1>2 DEF MovesOn
<1>4. Started(r, x.item, k) /\ (k = 0 => task[r].step = "run") /\ PlanOf(r).kind = "mcp"
  BY <1>2 DEF MovesOn, AnswersInv, Started
<1>5. \A i : Effects(r, i) \subseteq Effects(r, i)' /\ (i # x.item => Effects(r, i)' = Effects(r, i))
  BY <1>2 DEF MovesOn, Effects
<1>6. ASSUME NEW i, Untouched(r, i) PROVE Untouched(r, i)' /\ i # x.item
  <2>1. i # x.item
    BY <1>2, <1>6 DEF MovesOn, Untouched
  <2>2. ASSUME NEW j \in RunIds, run'[r][j].state = "on" PROVE run'[r][j].item # i
    <3>1. CASE j = k
      BY <1>2, <1>3, <2>1, <3>1 DEF MovesOn
    <3>2. CASE j # k
      BY <1>3, <1>6, <2>2, <3>2 DEF Untouched
    <3>. QED
      BY <3>1, <3>2
  <2>3. Effects(r, i)' = {}
    BY <1>5, <1>6, <2>1 DEF Untouched
  <2>. QED
    BY <2>1, <2>2, <2>3 DEF Untouched
<1>7. \A i, call : Done(r, i, call) => Done(r, i, call)'
  BY <1>5 DEF Done
<1>8. PlanOf(r)' = PlanOf(r) /\ ItemOf(r)' = ItemOf(r) /\ task'[r] = task[r]
  BY <1>1 DEF PlanOf, ItemOf
<1>9. ASSUME NEW a, Honest(r, a) PROVE Honest(r, a)'
  BY <1>6, <1>7, <1>8, <1>9 DEF Honest
<1>10. ASSUME task[r].step = "run" PROVE RunTrue(r)'
  <2>1. RunTrue(r)
    BY <1>4, <1>10 DEF AnswersInv, AnswerSound
  <2>2. CASE k # 0
    <3>1. run'[r][0] = run[r][0]
      BY <1>1, <1>3, <2>2
    <3>2. KeepsPromise(r) => KeepsPromise(r)'
      BY <1>7, <1>8, <3>1 DEF KeepsPromise
    <3>. QED
      BY <1>6, <1>8, <2>1, <3>1, <3>2 DEF RunTrue
  <2>3. CASE k = 0
    <3>1. /\ x = run[r][0] /\ x.state = "on" /\ y = run'[r][0] /\ y.item = task[r].item
          /\ y.state \in {"on", "ended"} /\ (y.state = "ended" => y.answer \notin Refusals)
          /\ x.item = task[r].item
      BY <1>2, <1>3, <2>1, <2>3 DEF MovesOn, RunTrue
    <3>2. ASSUME ~PlanOf(r).codemode, y.state = "on" \/ y.answer = "ok" PROVE KeepsPromise(r)'
      <4>1. KeepsPromise(r)
        BY <2>1, <3>1, <3>2 DEF RunTrue
      <4>0. PICK i : i = task[r].item /\ i = task'[r].item
        BY <1>8
      <4>2. ASSUME NEW call \in Promised(ItemOf(r).call.name)
            PROVE  Done(r, i, call)' \/ (y.state = "on" /\ Bound(y, call))
        <5>1. CASE Done(r, i, call)
          BY <1>7, <5>1
        <5>2. CASE ~Done(r, i, call)
          <6>1. Bound(x, call)
            BY <3>1, <4>0, <4>1, <4>2, <5>2 DEF KeepsPromise, Bound
          <6>2. \/ e \in effects' /\ e.call = call
                \/ y.state = "on" /\ Bound(y, call)
            BY <1>2, <3>1, <3>2, <6>1 DEF MovesOn, Bound
          <6>3. e \in effects' /\ e.call = call => Done(r, i, call)'
            BY <1>2, <3>1, <4>0 DEF MovesOn, Done, Effects
          <6>. QED
            BY <6>2, <6>3
        <5>. QED
          BY <5>1, <5>2
      <4>. QED
        BY <1>8, <3>1, <4>0, <4>2 DEF KeepsPromise, Bound
    <3>. QED
      BY <1>8, <3>1, <3>2 DEF RunTrue
  <2>. QED
    BY <2>2, <2>3
<1>11. ASSUME NEW s \in Requests, (PlanOf(s).kind = "mcp")' PROVE AnswerSound(s)'
  <2>1. AnswerSound(s)
    BY <1>1, <1>11 DEF PlanOf, AnswersInv
  <2>2. CASE s # r
    <3>1. \A i : Effects(s, i)' = Effects(s, i)
      BY <1>2, <2>2 DEF MovesOn, Effects
    <3>. QED
      BY <1>1, <1>3, <2>1, <2>2, <3>1, AnswerStays
  <2>3. CASE s = r
    <3>1. PICK said : /\ said = task[r].answers /\ said = task'[r].answers
                      /\ InOrder(r, said) /\ \A j \in DOMAIN said : Honest(r, said[j])
      BY <1>8, <2>1, <2>3 DEF AnswerSound
    <3>2. \A n : Covers(r, said, n)' <=> Covers(r, said, n)
      BY <1>8 DEF Covers
    <3>3. InOrder(r, said)'
      BY <1>8, <3>1, <3>2 DEF InOrder
    <3>4. ASSUME NEW j \in DOMAIN said PROVE Honest(r, said[j])'
      BY <1>9, <3>1
    <3>5. AnswerSound(r)'
      BY <1>8, <1>10, <3>1, <3>3, <3>4 DEF AnswerSound
    <3>. QED
      BY <2>3, <3>5
  <2>. QED
    BY <2>2, <2>3
<1>12. ASSUME NEW s \in Requests PROVE RunsStarted(s)'
  <2>1. RunsStarted(s)
    BY DEF AnswersInv, RunsStarted
  <2>2. CASE s # r
    BY <1>1, <1>3, <2>1, <2>2, RunsStartedStay
  <2>3. CASE s = r
    <3>1. ASSUME NEW j \in RunIds, run'[r][j].state = "on"
          PROVE  run'[r][j].item = run[r][j].item /\ run[r][j].state = "on"
      BY <1>2, <1>3, <3>1 DEF MovesOn
    <3>2. ASSUME NEW j \in RunIds, run'[r][j].state = "on"
          PROVE  Started(r, run[r][j].item, j)' /\ (j = 0 => task[r].step = "run")
      <4>1. PICK i : i = run[r][j].item /\ i = run'[r][j].item /\ Started(r, i, j)
                     /\ (j = 0 => task[r].step = "run")
        BY <2>1, <2>3, <3>1, <3>2 DEF RunsStarted
      <4>2. Started(r, i, j)'
        BY <1>1, <4>1, StartedStays
      <4>. QED
        BY <4>1, <4>2
    <3>. QED
      BY <1>8, <2>3, <3>2 DEF RunsStarted
  <2>. QED
    BY <2>2, <2>3
<1>13. ASSUME NEW d \in effects' PROVE Started(d.request, d.item, d.run)'
  <2>1. Started(d.request, d.item, d.run)
    BY <1>2, <1>4, <1>13 DEF MovesOn, AnswersInv
  <2>2. PICK s, i, j : s = d.request /\ i = d.item /\ j = d.run
    OBVIOUS
  <2>3. Started(s, i, j)'
    BY <1>1, <2>1, <2>2, StartedStays
  <2>. QED
    BY <2>2, <2>3
<1>14. (\A s \in Requests : PlanOf(s).kind = "mcp" => AnswerSound(s))'
  BY <1>11
<1>15. (\A d \in effects : Started(d.request, d.item, d.run))'
  BY <1>13
<1>16. (\A s \in Requests : RunsStarted(s))'
  BY <1>12
<1>. QED
  BY <1>14, <1>15, <1>16 DEF AnswersInv, RunsStarted

-----------------------------------------------------------------------------

LEMMA AnswersKept ==
    ASSUME RoutesInv, RunsInv, AnswersInv, [Next]_vars
    PROVE  AnswersInv'
<1>1. CASE Tick
  <2>1. UNCHANGED <<plan, task, run, effects>>
    BY <1>1 DEF Tick, gatewayVars
  <2>. QED
    BY <2>1, GatewayStays
<1>2. ASSUME NEW r \in Requests, Route(r) PROVE AnswersInv'
  BY <1>2, RouteKeeps
<1>3. ASSUME NEW r \in Requests, Handle(r) PROVE AnswersInv'
  BY <1>3, McpKeeps, NoCallKeeps, AuthenticateKeeps, ChallengedKeeps, RunToolKeeps,
     CodeModeKeeps, NestedKeeps, ReturnKeeps DEF Handle
<1>4. ASSUME NEW r \in Requests, NEW k \in RunIds, Upstream(r, k) PROVE AnswersInv'
  BY <1>4, UpstreamKeeps
<1>5. CASE UNCHANGED vars
  <2>1. UNCHANGED <<plan, task, run, effects>>
    BY <1>5 DEF vars, gatewayVars
  <2>. QED
    BY <2>1, GatewayStays
<1>. QED
  BY <1>1, <1>2, <1>3, <1>4, <1>5 DEF Next

LEMMA StartTruthful ==
    ASSUME Init
    PROVE  AnswersInv
<1>1. /\ task = [r \in Requests |-> NotCome] /\ effects = {}
      /\ run = [r \in Requests |-> [k \in RunIds |-> Off]]
  BY DEF Init
<1>2. ASSUME NEW r \in Requests PROVE AnswerSound(r)
  <2>1. task[r].step = "new" /\ task[r].answers = <<>>
    BY <1>1 DEF NotCome
  <2>2. DOMAIN task[r].answers = {}
    <3>1. DOMAIN <<>> = {}
      OBVIOUS
    <3>. QED
      BY <2>1, <3>1
  <2>. QED
    BY <2>1, <2>2 DEF AnswerSound, InOrder, ItemSteps
<1>3. \A r \in Requests, k \in RunIds : run[r][k].state # "on"
  BY <1>1 DEF Off
<1>. QED
  BY <1>1, <1>2, <1>3 DEF AnswersInv

-----------------------------------------------------------------------------
(* Theorems *)

LEMMA StartSafe ==
    ASSUME Init
    PROVE  RoutesInv /\ RunsInv
<1>1. SessionsInv /\ LoginInv /\ SessionsTypeOK /\ LoginTypeOK
  BY SessionsStart, LoginStart DEF Init, SessionsInv, LoginInv
<1>2. /\ worker = [instance |-> 0, config |-> NoConfig, fingerprint |-> NoConfig]
      /\ task = [r \in Requests |-> NotCome]
      /\ run = [r \in Requests |-> [k \in RunIds |-> Off]] /\ effects = {} /\ plan \in Plans
  BY DEF Init
<1>3. NoConfig \in Configs
  BY DEF NoConfig, Configs, Runtimes
<1>4. NotCome \in RequestRecords
  <2>1. <<>> \in Seq([item: Nat, answer: Answers])
    OBVIOUS
  <2>2. PICK none \in Seq([item: Nat, answer: Answers]) : none = <<>>
    BY <2>1
  <2>3. 0 \in StatusCodes /\ "new" \in RequestSteps /\ Nobody \in Tokens /\ 1 \in Instances
    BY LoginAssumption DEF StatusCodes, RequestSteps, Tokens
  <2>. QED
    BY <1>3, <2>2, <2>3 DEF NotCome, RequestRecords
<1>5. TypeOK
  BY <1>1, <1>2, <1>3, <1>4, OffType DEF TypeOK
<1>6. ASSUME NEW r \in Requests
      PROVE  Possible(PlanOf(r)) /\ TaskSound(r) /\ IssuedOnce(r) /\ RevokeSound(r)
  <2>1. task[r].step = "new" /\ look[r].step = "idle" /\ visit[r].step = "idle" /\ issued[r] = 0
    BY <1>2 DEF NotCome, Init, SessionsInit, LoginInit, Sealed, NotLooking
  <2>2. Possible(PlanOf(r))
    BY <1>2, GatewayAssumption DEF PlanOf
  <2>. QED
    BY <2>1, <2>2 DEF TaskSound, ItemSteps, IssuedOnce, RevokeSound
<1>7. RoutesInv
  BY <1>1, <1>2, <1>5, <1>6 DEF RoutesInv
<1>8. ASSUME NEW r \in Requests, NEW k \in RunIds PROVE RunSound(r, k, run[r][k])
  <2>1. run[r][k] = Off
    BY <1>2
  <2>2. Off.state = "off" /\ Off.answer = "none"
    BY DEF Off
  <2>. QED
    BY <2>1, <2>2 DEF RunSound
<1>9. RunsInv
  BY <1>2, <1>8 DEF RunsInv, WritesGated
<1>. QED
  BY <1>7, <1>9

(* Routes and runs stay where the code takes them: the parts of GatewayInv *)
(* that hold by themselves.                                                *)
THEOREM GatewaySafe == Spec => [](RoutesInv /\ RunsInv)
<1>1. Init => RoutesInv /\ RunsInv
  BY StartSafe
<1>2. (RoutesInv /\ RunsInv) /\ [Next]_vars => (RoutesInv /\ RunsInv)'
  BY StepsSound
<1>. QED
  BY <1>1, <1>2, PTL DEF Spec

(* Every variable of the gateway, its logins and its sessions stays typed. *)
THEOREM GatewayTypes == Spec => []TypeOK
<1>1. RoutesInv /\ RunsInv => TypeOK
  BY DEF RoutesInv
<1>. QED
  BY <1>1, GatewaySafe, PTL

(* resolveAppSession lets a request in only with a session that had not    *)
(* expired when it began and was not revoked as far as anyone was told, or *)
(* with a provider's token that an exchange still covers.                  *)
THEOREM OnlyTheLiveAreLetIn == Spec => []OnlyLiveCredentials
<1>1. RoutesInv /\ RunsInv => OnlyLiveCredentials
  BY DEF RoutesInv, SessionsInv, LookSound, OnlyLiveCredentials
<1>. QED
  BY <1>1, GatewaySafe, PTL

(* A login, with whatever callbacks it gets in whatever handlers, issues   *)
(* one session for each handler at most.                                   *)
THEOREM LoginsIssueOnce == Spec => []OneSessionPerLogin
<1>1. RoutesInv /\ RunsInv => OneSessionPerLogin
  BY LoginsSound DEF RoutesInv
<1>. QED
  BY <1>1, GatewaySafe, PTL

(* Whatever a run of callTool writes was asked for as the descriptors of   *)
(* the tools and the catalog promise.                                      *)
THEOREM WritesAreGated == Spec => []WritesGated
<1>1. RoutesInv /\ RunsInv => WritesGated
  BY DEF RunsInv
<1>. QED
  BY <1>1, GatewaySafe, PTL

(* However it calls, sandboxed code gets no more than MaxNestedCalls calls *)
(* through.                                                                *)
THEOREM SandboxesAreBounded == Spec => []SandboxBounded
<1>1. RoutesInv /\ RunsInv => SandboxBounded
  <2>1. SUFFICES ASSUME RoutesInv, RunsInv, NEW r \in Requests
                 PROVE  Cardinality({k \in RunIds \ {0} :
                            run[r][k].state # "off" /\ run[r][k].answer # "limit"})
                        <= MaxNestedCalls
    BY DEF SandboxBounded
  <2> DEFINE S == {k \in RunIds \ {0} : run[r][k].state # "off" /\ run[r][k].answer # "limit"}
  <2>2. MaxNestedCalls \in Nat
    BY GatewayAssumption
  <2>3. S \subseteq 1 .. MaxNestedCalls
    <3>1. ASSUME NEW k \in S PROVE k \in 1 .. MaxNestedCalls
      <4>1. /\ k \in RunIds /\ k # 0
            /\ run[r][k].state # "off" /\ run[r][k].answer # "limit"
        OBVIOUS
      <4>2. RunSound(r, k, run[r][k])
        BY <2>1, <4>1 DEF RunsInv
      <4>. QED
        BY <2>2, <4>1, <4>2 DEF RunSound, RunIds
    <3>. QED
      BY <3>1
  <2>. HIDE DEF S
  <2>4. IsFiniteSet(1 .. MaxNestedCalls) /\ Cardinality(1 .. MaxNestedCalls) = MaxNestedCalls
    BY <2>2, FS_Interval
  <2>5. Cardinality(S) <= MaxNestedCalls
    BY <2>3, <2>4, FS_Subset
  <2>. QED
    BY <2>5 DEF S
<1>. QED
  BY <1>1, GatewaySafe, PTL

(* The inductive invariant of the gateway: routes, runs and answers        *)
(* together, as the run of Gateway checks it.                              *)
THEOREM GatewayInvariant == Spec => []GatewayInv
<1>1. Init => RoutesInv /\ RunsInv /\ AnswersInv
  BY StartSafe, StartTruthful
<1>2. (RoutesInv /\ RunsInv /\ AnswersInv) /\ [Next]_vars =>
          (RoutesInv /\ RunsInv /\ AnswersInv)'
  BY StepsSound, AnswersKept
<1>3. RoutesInv /\ RunsInv /\ AnswersInv => GatewayInv
  BY DEF GatewayInv
<1>. QED
  BY <1>1, <1>2, <1>3, PTL DEF Spec

(* What answers say definitely is so: a 200 answers every request of its   *)
(* batch in order, ok means that the tool's write took effect, a refusal   *)
(* and the failure of a lone request that nothing did.                     *)
THEOREM AnswersAreTruthful == Spec => []AnswersTruthful
<1>1. GatewayInv => AnswersTruthful
  <2>1. SUFFICES ASSUME GatewayInv PROVE AnswersTruthful
    OBVIOUS
  <2>2. RoutesInv /\ AnswersInv
    BY <2>1 DEF GatewayInv
  <2>3. ASSUME NEW r \in Requests, PlanOf(r).kind = "mcp", task[r].step = "done",
               task[r].status = 200
        PROVE  /\ {task[r].answers[j].item : j \in DOMAIN task[r].answers} =
                     {i \in DOMAIN PlanOf(r).items : PlanOf(r).items[i].kind # "note"}
               /\ \A j \in 2 .. Len(task[r].answers) :
                     task[r].answers[j - 1].item < task[r].answers[j].item
    <3>1. Covers(r, task[r].answers, Len(PlanOf(r).items))
      BY <2>2, <2>3 DEF AnswersInv, AnswerSound, InOrder
    <3>2. DOMAIN PlanOf(r).items = 1 .. Len(PlanOf(r).items)
      BY <2>2, <2>3 DEF RoutesInv, Possible
    <3>. QED
      BY <3>1, <3>2 DEF Covers
  <2>4. ASSUME NEW r \in Requests, PlanOf(r).kind = "mcp", NEW j \in DOMAIN task[r].answers
        PROVE  Honest(r, task[r].answers[j])
    BY <2>2, <2>4 DEF AnswersInv, AnswerSound
  <2>5. ASSUME NEW r \in Requests, PlanOf(r).kind = "mcp", NEW j \in DOMAIN task[r].answers,
               NEW a, a = task[r].answers[j]
        PROVE  /\ a.answer \in {"confirm", "disabled"} => Effects(r, a.item) = {}
               /\ /\ a.answer = "ok" /\ PlanOf(r).items[a.item].kind = "call"
                  /\ ~PlanOf(r).codemode
                  => Promised(PlanOf(r).items[a.item].call.name)
                        \subseteq {e.call : e \in Effects(r, a.item)}
    BY <2>4, <2>5 DEF Honest, Refusals, Untouched, Done
  <2>6. ASSUME NEW r \in Requests, PlanOf(r).kind = "mcp", task[r].step = "done",
               task[r].status # 200, Len(PlanOf(r).items) = 1
        PROVE  Effects(r, 1) = {}
    <3>1. \A k \in RunIds : ~Started(r, 1, k)
      BY <2>6 DEF Started
    <3>. QED
      BY <2>2, <2>6, <3>1, NothingStarted DEF Untouched
  <2>. QED
    BY <2>3, <2>5, <2>6, Zenon DEF AnswersTruthful
<1>. QED
  BY <1>1, GatewayInvariant, PTL

=============================================================================
