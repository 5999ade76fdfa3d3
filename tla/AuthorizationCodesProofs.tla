---------------------- MODULE AuthorizationCodesProofs ----------------------
(***************************************************************************)
(* Proofs about AuthorizationCodes, for any logins, clients, codes, any    *)
(* number of isolates and requests, either code store and any faults:      *)
(* CodesInv is inductive, and the endpoints implement OneShotCodes.        *)
(***************************************************************************)
EXTENDS AuthorizationCodes, TLAPS

LEMMA NoneTypes ==
    /\ NoCallback \in CallbackRecords /\ NoToken \in TokenRecords
    /\ \A x \in LoginClaims \cup CodeRecords \cup SignIns : x # None
BY CodesAssumption DEF NoCallback, CallbackRecords, NoToken, TokenRecords

LEMMA AtType ==
    ASSUME TypeOK
    PROVE  /\ \A b \in Callbacks : cb[b] \in CallbackRecords
           /\ \A r \in Requests : tk[r] \in TokenRecords
BY DEF TypeOK

(* The records that requests move to, field by field. *)
LEMMA CallbackFields ==
    ASSUME NEW i \in Isolates \cup {None}, NEW n \in Logins \cup {None}
    PROVE  /\ \A p \in ProviderCodes :
                LET v == Serving(i, n, p)
                IN  /\ v \in CallbackRecords /\ v.pc = "exchange" /\ v.out = "none"
                    /\ v.at = i /\ v.login = n /\ v.pcode = p
           /\ \A out \in {"none", "refused", "error", "code"} :
                LET v == Ended(i, n, out)
                IN  /\ v \in CallbackRecords /\ v.pc = "done" /\ v.out = out
                    /\ v.at = i /\ v.login = n
BY NoneTypes DEF Serving, Ended, CallbackRecords, NoCallback

LEMMA EndedFields ==
    ASSUME NEW i \in Isolates \cup {None}, NEW n \in Logins \cup {None},
           NEW out \in {"none", "refused", "error", "code"}
    PROVE  LET v == Ended(i, n, out)
           IN  /\ v \in CallbackRecords /\ v.pc = "done" /\ v.out = out
               /\ v.at = i /\ v.login = n
BY NoneTypes DEF Ended, CallbackRecords, NoCallback

LEMMA ShowingFields ==
    ASSUME NEW i \in Isolates, NEW c \in Codes, NEW k \in Clients,
           NEW d \in Redirects, NEW v \in Verifiers
    PROVE  LET s == Showing(i, c, k, d, v)
           IN  /\ s \in TokenRecords /\ s.pc = "consume" /\ s.signin = None
               /\ s.code = c /\ s.client = k /\ s.redirect = d /\ s.verifier = v
BY NoneTypes DEF Showing, TokenRecords, NoToken

LEMMA ReplyFields ==
    ASSUME TypeOK, NEW b \in Callbacks, NEW out \in {"refused", "error", "code"},
           Reply(b, out)
    PROVE  /\ cb'[b].pc = "done" /\ cb'[b].out = out
           /\ cb'[b].at = cb[b].at /\ cb'[b].login = cb[b].login
           /\ \A d \in Callbacks : d # b => cb'[d] = cb[d]
           /\ cb' \in [Callbacks -> CallbackRecords]
<1>1. PICK i \in Isolates \cup {None}, n \in Logins \cup {None} :
        i = cb[b].at /\ n = cb[b].login
  BY AtType DEF CallbackRecords
<1>2. PICK v \in CallbackRecords : v = Ended(i, n, out)
  BY EndedFields
<1>3. v.pc = "done" /\ v.out = out /\ v.at = i /\ v.login = n
  BY <1>2, EndedFields
<1>4. cb' = [cb EXCEPT ![b] = v]
  BY <1>1, <1>2 DEF Reply
<1>. QED
  BY <1>1, <1>3, <1>4 DEF TypeOK

LEMMA RefuseFields ==
    ASSUME TypeOK, NEW r \in Requests, NEW out \in {"invalid_grant", "threw"},
           Refuse(r, out)
    PROVE  /\ tk'[r].pc = "done" /\ tk'[r].signin = None
           /\ \A s \in Requests : s # r => tk'[s] = tk[s]
           /\ tk' \in [Requests -> TokenRecords]
<1> DEFINE v == [NoToken EXCEPT !.pc = "done", !.out = out]
<1>1. v \in TokenRecords /\ v.pc = "done" /\ v.signin = None
  BY NoneTypes DEF TokenRecords, NoToken
<1>2. tk' = [tk EXCEPT ![r] = v]
  BY DEF Refuse
<1>. HIDE DEF v
<1>. QED
  BY <1>1, <1>2 DEF TypeOK

LEMMA AnswerFields ==
    ASSUME TypeOK, NEW r \in Requests, NEW out \in {"ok", "threw"}, Answer(r, out)
    PROVE  /\ tk'[r].pc = "done" /\ tk'[r].signin = tk[r].signin
           /\ tk'[r].code = tk[r].code /\ Shown(r)' = Shown(r)
           /\ \A s \in Requests : s # r => tk'[s] = tk[s]
           /\ tk' \in [Requests -> TokenRecords]
<1>1. tk[r] \in TokenRecords
  BY AtType
<1> DEFINE v == [tk[r] EXCEPT !.pc = "done", !.out = out]
<1>2. /\ v \in TokenRecords /\ v.pc = "done" /\ v.signin = tk[r].signin
      /\ v.code = tk[r].code /\ v.client = tk[r].client
      /\ v.redirect = tk[r].redirect /\ v.verifier = tk[r].verifier
  BY <1>1 DEF TokenRecords
<1>3. tk' = [tk EXCEPT ![r] = v]
  BY DEF Answer
<1>. HIDE DEF v
<1>. QED
  BY <1>2, <1>3 DEF TypeOK, Shown

(* What the callback b stores is a record of its own login. *)
LEMMA NewRecordType ==
    ASSUME TypeOK, CallbacksOK, NEW b \in Callbacks, cb[b].pc = "issue"
    PROVE  NewRecord(b) \in CodeRecords
<1>1. /\ cb[b] \in CallbackRecords /\ cb[b].login # None /\ cb[b].pcode # None
      /\ login[cb[b].login] # None
  BY AtType DEF CallbacksOK, CallbackOK
<1>2. /\ cb[b].login \in Logins /\ cb[b].pcode \in ProviderCodes
      /\ cb[b].refresh \in BOOLEAN /\ cb[b].at \in Isolates \cup {None}
  BY <1>1 DEF CallbackRecords
<1>3. login[cb[b].login] \in LoginClaims
  BY <1>1, <1>2 DEF TypeOK
<1>. QED
  BY <1>2, <1>3 DEF NewRecord, CodeRecords, LoginClaims

LEMMA TypeInit == Init => TypeOK
BY NoneTypes DEF Init, TypeOK

LEMMA TypeStep == CodesInv /\ [Next]_vars => TypeOK'
<1> SUFFICES ASSUME CodesInv, [Next]_vars PROVE TypeOK'
  OBVIOUS
<1>0. /\ TypeOK /\ CallbacksOK /\ CodesOK /\ TokensOK
      /\ \A b \in Callbacks : cb[b] \in CallbackRecords
      /\ \A r \in Requests : tk[r] \in TokenRecords
  BY AtType DEF CodesInv
<1>1. ASSUME NEW n \in Logins, Authorize(n) PROVE TypeOK'
  <2>1. PICK c \in Clients, v \in Verifiers, d \in Redirects :
          login' = [login EXCEPT ![n] = [client |-> c, redirect |-> d, verifier |-> v]]
    BY <1>1, CodesAssumption DEF Authorize
  <2>2. [client |-> c, redirect |-> d, verifier |-> v] \in LoginClaims
    BY DEF LoginClaims
  <2>. QED
    BY <1>0, <1>1, <2>1, <2>2 DEF TypeOK, Authorize
<1>2. ASSUME NEW n \in Logins, StateExpires(n) PROVE TypeOK'
  BY <1>0, <1>2 DEF TypeOK, StateExpires
<1>3. ASSUME NEW p \in ProviderCodes, SignIn(p) PROVE TypeOK'
  BY <1>0, <1>3 DEF TypeOK, SignIn, SignIns
<1>4. ASSUME NEW b \in Callbacks, Callback(b) PROVE TypeOK'
  <2>1. PICK n \in Logins, i \in Isolates :
          \/ /\ cb' = [cb EXCEPT ![b] = Ended(i, n, "refused")]
             /\ used' = [used EXCEPT ![i] = @ \ expired]
          \/ /\ used' = [used EXCEPT ![i] = Nonces(i, n)]
             /\ \/ \E p \in ProviderCodes : cb' = [cb EXCEPT ![b] = Serving(i, n, p)]
                \/ cb' = [cb EXCEPT ![b] = Ended(i, n, "error")]
    BY <1>4 DEF Callback
  <2>4. cb' \in [Callbacks -> CallbackRecords]
    <3>1. \E v \in CallbackRecords : cb' = [cb EXCEPT ![b] = v]
      BY <2>1, CallbackFields
    <3>. QED
      BY <1>0, <3>1 DEF TypeOK
  <2>5. used' \in [Isolates -> SUBSET Logins]
    BY <1>0, <2>1 DEF TypeOK, Nonces
  <2>. QED
    BY <1>0, <1>4, <2>4, <2>5 DEF TypeOK, Callback
<1>5. ASSUME NEW b \in Callbacks, ProviderExchange(b) PROVE TypeOK'
  <2>1. cb' \in [Callbacks -> CallbackRecords]
    <3>1. CASE Reply(b, "error")
      BY <1>0, <3>1, ReplyFields
    <3>2. CASE \E refresh \in BOOLEAN :
                 cb' = [cb EXCEPT ![b] = [@ EXCEPT !.pc = "vibecodr",
                                                   !.refresh = refresh]]
      <4>1. \A refresh \in BOOLEAN :
              [cb[b] EXCEPT !.pc = "vibecodr", !.refresh = refresh] \in CallbackRecords
        BY <1>0 DEF CallbackRecords
      <4>. QED
        BY <1>0, <3>2, <4>1 DEF TypeOK
    <3>. QED
      BY <1>5, <3>1, <3>2 DEF ProviderExchange
  <2>2. pcode' \in [ProviderCodes -> SignIns \cup {None}]
    <3>1. cb[b].pcode \in ProviderCodes /\ pcode[cb[b].pcode] \in SignIns
      BY <1>0, <1>5 DEF ProviderExchange, CallbacksOK, CallbackOK, CallbackRecords, TypeOK
    <3>2. [pcode[cb[b].pcode] EXCEPT !.spent = TRUE] \in SignIns
      BY <3>1 DEF SignIns
    <3>. QED
      BY <1>0, <1>5, <3>1, <3>2 DEF ProviderExchange, TypeOK
  <2>. QED
    BY <1>0, <1>5, <2>1, <2>2 DEF TypeOK, ProviderExchange
<1>6. ASSUME NEW b \in Callbacks, VibecodrExchange(b) PROVE TypeOK'
  <2>1. cb' \in [Callbacks -> CallbackRecords]
    <3>1. CASE Reply(b, "error")
      BY <1>0, <3>1, ReplyFields
    <3>2. CASE cb' = [cb EXCEPT ![b].pc = "issue"]
      BY <1>0, <3>2 DEF TypeOK, CallbackRecords
    <3>. QED
      BY <1>6, <3>1, <3>2 DEF VibecodrExchange
  <2>. QED
    BY <1>0, <1>6, <2>1 DEF TypeOK, VibecodrExchange
<1>7. ASSUME NEW b \in Callbacks, IssueCode(b) PROVE TypeOK'
  <2>1. PICK c \in Codes :
          /\ store' = [store EXCEPT ![c] = NewRecord(b)]
          /\ issued' = [issued EXCEPT ![c] = NewRecord(b)]
    BY <1>7 DEF IssueCode
  <2>2. NewRecord(b) \in CodeRecords
    BY <1>0, <1>7, NewRecordType DEF IssueCode
  <2>3. cb' \in [Callbacks -> CallbackRecords]
    BY <1>0, <1>7, ReplyFields DEF IssueCode
  <2>. QED
    BY <1>0, <1>7, <2>1, <2>2, <2>3 DEF TypeOK, IssueCode
<1>8. ASSUME NEW b \in Callbacks, CallbackThrows(b) PROVE TypeOK'
  <2>1. cb' \in [Callbacks -> CallbackRecords]
    BY <1>0, <1>8, ReplyFields DEF CallbackThrows
  <2>. QED
    BY <1>0, <1>8, <2>1 DEF TypeOK, CallbackThrows
<1>9. ASSUME NEW r \in Requests, TokenRequest(r) PROVE TypeOK'
  <2>1. tk' \in [Requests -> TokenRecords]
    <3>1. CASE Refuse(r, "invalid_grant")
      BY <1>0, <3>1, RefuseFields
    <3>2. CASE \E c \in Codes, k \in Clients, d \in Redirects, v \in Verifiers,
                  i \in Isolates : tk' = [tk EXCEPT ![r] = Showing(i, c, k, d, v)]
      BY <1>0, <3>2, ShowingFields DEF TypeOK
    <3>. QED
      BY <1>9, <3>1, <3>2 DEF TokenRequest
  <2>. QED
    BY <1>0, <1>9, <2>1 DEF TypeOK, TokenRequest
<1>10. ASSUME NEW r \in Requests, Consume(r) PROVE TypeOK'
  <2>1. tk[r].code \in Codes
    BY <1>0, <1>10 DEF Consume, TokensOK, TokenOK, TokenRecords
  <2>2. store' \in [Codes -> CodeRecords \cup {None}]
    BY <1>0, <1>10, <2>1 DEF Consume, TypeOK
  <2>3. tk' \in [Requests -> TokenRecords]
    <3>1. CASE Refuse(r, "invalid_grant")
      BY <1>0, <3>1, RefuseFields
    <3>2. CASE ~Refuse(r, "invalid_grant")
      <4>1. store[tk[r].code] # None /\ store[tk[r].code] \in CodeRecords
        BY <1>0, <1>10, <2>1, <3>2 DEF Consume, Found, TypeOK
      <4>2. store[tk[r].code].signin \in ProviderCodes
        BY <4>1 DEF CodeRecords
      <4>3. \E pc \in {"grant", "done"}, out \in {"none", "ok"} :
              tk' = [tk EXCEPT ![r] = [@ EXCEPT !.signin = store[tk[r].code].signin,
                                                !.pc = pc, !.out = out]]
        BY <1>10, <3>2, <4>1 DEF Consume, Found
      <4>4. \A pc \in {"grant", "done"}, out \in {"none", "ok"} :
              [tk[r] EXCEPT !.signin = store[tk[r].code].signin, !.pc = pc, !.out = out]
                \in TokenRecords
        BY <1>0, <4>2, ZenonT(30) DEF TokenRecords
      <4>. QED
        BY <1>0, <4>3, <4>4 DEF TypeOK
    <3>. QED
      BY <3>1, <3>2
  <2>. QED
    BY <1>0, <1>10, <2>2, <2>3 DEF TypeOK, Consume
<1>11. ASSUME NEW r \in Requests, ConsumeRejects(r) PROVE TypeOK'
  <2>1. tk' \in [Requests -> TokenRecords]
    BY <1>0, <1>11, RefuseFields DEF ConsumeRejects
  <2>. QED
    BY <1>0, <1>11, <2>1 DEF TypeOK, ConsumeRejects
<1>12. ASSUME NEW r \in Requests, StoreGrant(r) PROVE TypeOK'
  <2>1. tk' \in [Requests -> TokenRecords]
    BY <1>0, <1>12, AnswerFields DEF StoreGrant
  <2>. QED
    BY <1>0, <1>12, <2>1 DEF TypeOK, StoreGrant
<1>13. ASSUME NEW c \in Codes, CodeExpires(c) PROVE TypeOK'
  <2>1. store[c] \in CodeRecords
    BY <1>0, <1>13 DEF CodeExpires, TypeOK
  <2>2. [store[c] EXCEPT !.expired = TRUE] \in CodeRecords
    BY <2>1 DEF CodeRecords
  <2>. QED
    BY <1>0, <1>13, <2>2 DEF TypeOK, CodeExpires
<1>14. ASSUME NEW i \in Isolates, Evict(i) PROVE TypeOK'
  <2>2. \A b \in Callbacks : /\ cb[b].out \in {"none", "refused", "error", "code"}
                              /\ cb[b].login \in Logins \cup {None}
    BY <1>0 DEF CallbackRecords
  <2>3. cb' \in [Callbacks -> CallbackRecords]
    <3>1. \A b \in Callbacks :
            Ended(None, cb[b].login, IF cb[b].pc = "done" THEN cb[b].out ELSE "error")
              \in CallbackRecords
      <4>1. ASSUME NEW b \in Callbacks
            PROVE  Ended(None, cb[b].login, IF cb[b].pc = "done" THEN cb[b].out ELSE "error")
                     \in CallbackRecords
        <5>1. PICK n \in Logins \cup {None}, out \in {"none", "refused", "error", "code"} :
                /\ n = cb[b].login
                /\ out = IF cb[b].pc = "done" THEN cb[b].out ELSE "error"
          BY <2>2
        <5>. QED
          BY <5>1, EndedFields
      <4>. QED
        BY <4>1
    <3>. QED
      BY <1>0, <1>14, <3>1 DEF Evict
  <2>4. \A r \in Requests : \A x \in {NoToken, tk[r]} :
          [x EXCEPT !.pc = "done", !.out = "threw"] \in TokenRecords
    <3>1. ASSUME NEW x \in TokenRecords
          PROVE  [x EXCEPT !.pc = "done", !.out = "threw"] \in TokenRecords
      BY <3>1 DEF TokenRecords
    <3>. QED
      BY <1>0, <3>1, NoneTypes
  <2>5. tk' \in [Requests -> TokenRecords]
    BY <1>0, <1>14, <2>4 DEF Evict
  <2>. QED
    BY <1>0, <1>14, <2>3, <2>5 DEF TypeOK, Evict
<1>15. CASE UNCHANGED vars
  BY <1>0, <1>15 DEF TypeOK, vars
<1>. QED
  BY <1>1, <1>2, <1>3, <1>4, <1>5, <1>6, <1>7, <1>8, <1>9, <1>10, <1>11, <1>12,
     <1>13, <1>14, <1>15 DEF Next

-----------------------------------------------------------------------------
(* What no step undoes: the claims of a login, a completed sign-in and the *)
(* record a code was issued with.                                          *)
LEMMA Monotone ==
    ASSUME CodesInv, [Next]_vars
    PROVE  /\ \A n \in Logins : login[n] # None => login'[n] = login[n]
           /\ \A p \in ProviderCodes : pcode[p] # None => pcode'[p] # None
           /\ \A p \in ProviderCodes, n \in Logins : SignedIn(p, n) => SignedIn(p, n)'
           /\ \A c \in Codes : issued[c] # None => issued'[c] = issued[c]
           /\ expired \subseteq expired'
<1>0. TypeOK
  BY DEF CodesInv
<1>1. \/ \E n \in Logins : Authorize(n)
      \/ \E p \in ProviderCodes : SignIn(p)
      \/ \E b \in Callbacks : ProviderExchange(b) \/ IssueCode(b)
      \/ \E n \in Logins : StateExpires(n)
      \/ UNCHANGED <<login, pcode, issued, expired>>
  BY DEF Next, vars, Callback, VibecodrExchange, CallbackThrows, TokenRequest, Consume,
         ConsumeRejects, StoreGrant, CodeExpires, Evict
<1>2. CASE \E n \in Logins : Authorize(n)
  BY <1>0, <1>2 DEF Authorize, TypeOK, SignedIn
<1>3. CASE \E p \in ProviderCodes : SignIn(p)
  BY <1>0, <1>3 DEF SignIn, TypeOK, SignedIn, SignIns
<1>4. ASSUME NEW b \in Callbacks, ProviderExchange(b)
      PROVE  /\ \A p \in ProviderCodes : pcode[p] # None => pcode'[p] # None
             /\ \A p \in ProviderCodes, n \in Logins : SignedIn(p, n) => SignedIn(p, n)'
             /\ UNCHANGED <<login, issued, expired>>
  <2>1. CASE UNCHANGED pcode
    BY <1>4, <2>1 DEF ProviderExchange, SignedIn
  <2>2. CASE pcode' = [pcode EXCEPT ![cb[b].pcode].spent = TRUE]
    <3>1. cb[b].pcode \in ProviderCodes /\ pcode[cb[b].pcode] \in SignIns
      BY <1>0, <1>4, AtType
         DEF ProviderExchange, CodesInv, CallbacksOK, CallbackOK, CallbackRecords, TypeOK
    <3>2. /\ pcode'[cb[b].pcode] \in SignIns /\ pcode'[cb[b].pcode].spent
          /\ pcode'[cb[b].pcode].login = pcode[cb[b].pcode].login
          /\ \A p \in ProviderCodes : p # cb[b].pcode => pcode'[p] = pcode[p]
      BY <1>0, <2>2, <3>1 DEF SignIns, TypeOK
    <3>. QED
      BY <1>4, <3>1, <3>2, NoneTypes DEF ProviderExchange, SignedIn
  <2>. QED
    BY <1>4, <2>1, <2>2 DEF ProviderExchange
<1>5. CASE \E b \in Callbacks : IssueCode(b)
  BY <1>0, <1>5 DEF IssueCode, TypeOK, SignedIn, Fresh
<1>6. CASE \E n \in Logins : StateExpires(n)
  BY <1>0, <1>6 DEF StateExpires, SignedIn
<1>7. CASE UNCHANGED <<login, pcode, issued, expired>>
  BY <1>7 DEF SignedIn
<1>. QED
  BY <1>1, <1>2, <1>3, <1>4, <1>5, <1>6, <1>7

(* A callback that stays as it is stays in order, unless an eviction makes *)
(* its isolate forget.                                                     *)
LEMMA CallbackKept ==
    ASSUME CodesInv, [Next]_vars, NEW b \in Callbacks, cb'[b] = cb[b],
           cb[b].at # None => used[cb[b].at] \subseteq used'[cb[b].at] \cup expired'
    PROVE  CallbackOK(b)'
<1>1. TypeOK /\ CallbackOK(b) /\ cb[b] \in CallbackRecords
  BY AtType DEF CodesInv, CallbacksOK
<1>. QED
  BY <1>1, Monotone DEF CallbackOK, CallbackRecords

(* What is stored may go away, or expire, and nothing is issued. *)
LEMMA CodesKept ==
    ASSUME CodesInv, [Next]_vars, UNCHANGED issued,
           \A c \in Codes : store'[c] # None =>
               /\ store[c] # None
               /\ store'[c].client = store[c].client
               /\ store'[c].redirect = store[c].redirect
               /\ store'[c].verifier = store[c].verifier
               /\ store'[c].signin = store[c].signin
    PROVE  CodesOK'
<1> SUFFICES ASSUME NEW c \in Codes PROVE CodeOK(c)'
  BY DEF CodesOK
<1>1. TypeOK /\ CodeOK(c)
  BY DEF CodesInv, CodesOK
<1>2. issued[c] # None => issued[c] \in CodeRecords
  BY <1>1 DEF TypeOK
<1>3. issued[c] # None => issued[c].login \in Logins /\ issued[c].signin \in ProviderCodes
  BY <1>2 DEF CodeRecords
<1>4. issued'[c] = issued[c]
  OBVIOUS
<1>. QED
  BY <1>1, <1>3, <1>4, Monotone DEF CodeOK

LEMMA TokenKept ==
    ASSUME CodesInv, [Next]_vars, NEW r \in Requests, tk'[r] = tk[r],
           tk[r].signin # None => store'[tk[r].code] = None
    PROVE  TokenOK(r)'
<1>1. TypeOK /\ TokenOK(r) /\ tk[r] \in TokenRecords
  BY AtType DEF CodesInv, TokensOK
<1>2. tk[r].code # None => tk[r].code \in Codes
  BY <1>1 DEF TokenRecords
<1>. QED
  BY <1>1, <1>2, Monotone DEF TokenOK, Shown

(* Nobody new got a session, and no consumed code comes back. *)
LEMMA TokensKept ==
    ASSUME CodesInv, [Next]_vars,
           \A c \in Codes : issued[c] # None /\ store[c] = None => store'[c] = None,
           \A r \in Requests : \/ tk'[r] = tk[r]
                               \/ tk'[r].pc = "done" /\ tk'[r].signin = None
    PROVE  TokensOK' /\ OneRedeemer'
<1>0. TypeOK /\ TokensOK /\ OneRedeemer
  BY DEF CodesInv
<1>1. ASSUME NEW r \in Requests PROVE TokenOK(r)'
  <2>1. CASE tk'[r] = tk[r]
    <3>1. tk[r] \in TokenRecords /\ TokenOK(r)
      BY <1>0, AtType DEF TokensOK
    <3>2. tk[r].signin # None => tk[r].code \in Codes
      BY <3>1 DEF TokenOK, TokenRecords
    <3>. QED
      BY <2>1, <3>1, <3>2, TokenKept DEF TokenOK
  <2>2. CASE tk'[r].pc = "done" /\ tk'[r].signin = None
    BY <2>2 DEF TokenOK
  <2>. QED
    BY <2>1, <2>2
<1>2. OneRedeemer'
  BY <1>0 DEF OneRedeemer
<1>. QED
  BY <1>1, <1>2 DEF TokensOK

LEMMA CallbacksStep == CodesInv /\ [Next]_vars => CallbacksOK'
<1> SUFFICES ASSUME CodesInv, [Next]_vars PROVE CallbacksOK'
  OBVIOUS
<1>0. /\ TypeOK /\ \A b \in Callbacks : cb[b] \in CallbackRecords /\ CallbackOK(b)
  BY AtType DEF CodesInv, CallbacksOK
<1>1. ASSUME UNCHANGED <<cb, used>> PROVE CallbacksOK'
  BY <1>1, CallbackKept DEF CallbacksOK
<1>2. ASSUME NEW b \in Callbacks, UNCHANGED used,
             \A d \in Callbacks : d # b => cb'[d] = cb[d], CallbackOK(b)'
      PROVE  CallbacksOK'
  BY <1>2, CallbackKept DEF CallbacksOK
<1>3. ASSUME NEW b \in Callbacks, NEW out \in {"error", "code"}, cb[b].pc # "idle",
             cb[b].out # "refused", UNCHANGED used, Reply(b, out)
      PROVE  CallbacksOK'
  <2>1. CallbackOK(b)'
    BY <1>0, <1>3, ReplyFields, Monotone DEF CallbackOK
  <2>. QED
    BY <1>0, <1>2, <1>3, <2>1, ReplyFields
<1>4. ASSUME NEW b \in Callbacks, Callback(b) PROVE CallbacksOK'
  <2>1. PICK n \in Logins, i \in Isolates :
          /\ login[n] # None
          /\ \/ /\ cb' = [cb EXCEPT ![b] = Ended(i, n, "refused")]
                /\ used' = [used EXCEPT ![i] = @ \ expired]
             \/ /\ used' = [used EXCEPT ![i] = Nonces(i, n)]
                /\ \/ \E p \in ProviderCodes :
                        pcode[p] # None /\ cb' = [cb EXCEPT ![b] = Serving(i, n, p)]
                   \/ cb' = [cb EXCEPT ![b] = Ended(i, n, "error")]
    BY <1>4 DEF Callback
  <2>2. UNCHANGED <<login, pcode, expired>>
    BY <1>4 DEF Callback
  <2>3. \A j \in Isolates : used[j] \subseteq used'[j] \cup expired'
    BY <1>0, <2>1, <2>2 DEF TypeOK, Nonces
  <2>4. \A d \in Callbacks : d # b => CallbackOK(d)'
    <3>1. ASSUME NEW d \in Callbacks, d # b PROVE CallbackOK(d)'
      <4>1. cb'[d] = cb[d]
        BY <1>0, <2>1, <3>1 DEF TypeOK
      <4>2. cb[d].at # None => cb[d].at \in Isolates
        BY <1>0 DEF CallbackRecords
      <4>. QED
        BY <2>3, <4>1, <4>2, CallbackKept
    <3>. QED
      BY <3>1
  <2>5. i # None /\ n # None /\ \A p \in ProviderCodes : p # None
    BY CodesAssumption
  <2>6. CASE cb' = [cb EXCEPT ![b] = Ended(i, n, "refused")]
    <3> DEFINE v == Ended(i, n, "refused")
    <3>1. v.pc = "done" /\ v.out = "refused"
      BY CallbackFields
    <3>2. cb'[b] = v
      BY <1>0, <2>6 DEF TypeOK
    <3>. HIDE DEF v
    <3>. QED
      BY <2>4, <3>1, <3>2 DEF CallbacksOK, CallbackOK
  <2>7. CASE /\ used' = [used EXCEPT ![i] = Nonces(i, n)]
             /\ cb' = [cb EXCEPT ![b] = Ended(i, n, "error")]
    <3> DEFINE v == Ended(i, n, "error")
    <3>1. v.pc = "done" /\ v.at = i /\ v.login = n
      BY CallbackFields
    <3>2. cb'[b] = v /\ n \in used'[i]
      BY <1>0, <2>7 DEF TypeOK, Nonces
    <3>. HIDE DEF v
    <3>. QED
      BY <2>4, <3>1, <3>2 DEF CallbacksOK, CallbackOK
  <2>8. ASSUME used' = [used EXCEPT ![i] = Nonces(i, n)], NEW p \in ProviderCodes,
               pcode[p] # None, cb' = [cb EXCEPT ![b] = Serving(i, n, p)]
        PROVE  CallbacksOK'
    <3> DEFINE v == Serving(i, n, p)
    <3>1. v.pc = "exchange" /\ v.at = i /\ v.login = n /\ v.pcode = p /\ v.out = "none"
      BY CallbackFields
    <3>2. cb'[b] = v /\ n \in used'[i]
      BY <1>0, <2>8 DEF TypeOK, Nonces
    <3>. HIDE DEF v
    <3>. QED
      BY <2>1, <2>2, <2>4, <2>5, <2>8, <3>1, <3>2 DEF CallbacksOK, CallbackOK
  <2>. QED
    BY <2>1, <2>6, <2>7, <2>8
<1>5. ASSUME NEW b \in Callbacks, ProviderExchange(b) PROVE CallbacksOK'
  <2>1. CASE Reply(b, "error")
    BY <1>0, <1>3, <1>5, <2>1 DEF ProviderExchange, CallbackOK
  <2>2. ASSUME pcode' = [pcode EXCEPT ![cb[b].pcode].spent = TRUE],
               pcode[cb[b].pcode].login = cb[b].login, NEW refresh \in BOOLEAN,
               cb' = [cb EXCEPT ![b] = [@ EXCEPT !.pc = "vibecodr", !.refresh = refresh]]
        PROVE  CallbacksOK'
    <3>1. cb[b].pcode \in ProviderCodes /\ pcode[cb[b].pcode] \in SignIns
      BY <1>0, <1>5 DEF ProviderExchange, CallbackOK, CallbackRecords, TypeOK
    <3>2. SignedIn(cb[b].pcode, cb[b].login)'
      <4>1. /\ pcode'[cb[b].pcode] \in SignIns /\ pcode'[cb[b].pcode].spent
            /\ pcode'[cb[b].pcode].login = cb[b].login
        BY <1>0, <2>2, <3>1 DEF SignIns, TypeOK
      <4>2. cb'[b].pcode = cb[b].pcode /\ cb'[b].login = cb[b].login
        BY <1>0, <2>2 DEF TypeOK, CallbackRecords
      <4>. QED
        BY <4>1, <4>2, NoneTypes DEF SignedIn
    <3>3. /\ cb'[b].pc = "vibecodr" /\ cb'[b].at = cb[b].at /\ cb'[b].login = cb[b].login
          /\ cb'[b].pcode = cb[b].pcode /\ cb'[b].out = cb[b].out
          /\ \A d \in Callbacks : d # b => cb'[d] = cb[d]
      <4>1. cb[b] \in CallbackRecords /\ cb \in [Callbacks -> CallbackRecords]
        BY <1>0 DEF TypeOK
      <4>. QED
        BY <2>2, <4>1, SMTT(30) DEF CallbackRecords
    <3>4. CallbackOK(b)'
      <4>1. cb[b].pc = "exchange" /\ CallbackOK(b) /\ cb[b] \in CallbackRecords
        BY <1>0, <1>5 DEF ProviderExchange
      <4>2. /\ cb[b].at # None /\ cb[b].login # None /\ cb[b].pcode # None
            /\ login[cb[b].login] # None /\ pcode[cb[b].pcode] # None /\ cb[b].out = "none"
            /\ cb[b].login \in used[cb[b].at] \cup expired
        BY <4>1 DEF CallbackOK
      <4>3. /\ UNCHANGED <<login, used, expired>> /\ pcode'[cb[b].pcode] # None
        BY <1>5, <3>1, <4>2, Monotone DEF ProviderExchange
      <4>. QED
        BY <3>2, <3>3, <4>2, <4>3 DEF CallbackOK
    <3>. QED
      BY <1>2, <1>5, <3>3, <3>4 DEF ProviderExchange
  <2>. QED
    BY <1>5, <2>1, <2>2 DEF ProviderExchange
<1>6. ASSUME NEW b \in Callbacks, VibecodrExchange(b) PROVE CallbacksOK'
  <2>1. CASE Reply(b, "error")
    BY <1>0, <1>3, <1>6, <2>1 DEF VibecodrExchange, CallbackOK
  <2>2. CASE cb' = [cb EXCEPT ![b].pc = "issue"]
    <3>1. /\ cb'[b].pc = "issue" /\ cb'[b].at = cb[b].at /\ cb'[b].login = cb[b].login
          /\ cb'[b].pcode = cb[b].pcode /\ cb'[b].out = cb[b].out
          /\ \A d \in Callbacks : d # b => cb'[d] = cb[d]
      BY <1>0, <2>2 DEF TypeOK, CallbackRecords
    <3>2. CallbackOK(b)'
      BY <1>0, <1>6, <3>1 DEF VibecodrExchange, CallbackOK, SignedIn
    <3>. QED
      BY <1>2, <1>6, <3>1, <3>2 DEF VibecodrExchange
  <2>. QED
    BY <1>6, <2>1, <2>2 DEF VibecodrExchange
<1>7. ASSUME NEW b \in Callbacks, IssueCode(b) PROVE CallbacksOK'
  BY <1>0, <1>3, <1>7 DEF IssueCode, CallbackOK
<1>8. ASSUME NEW b \in Callbacks, CallbackThrows(b) PROVE CallbacksOK'
  BY <1>0, <1>3, <1>8 DEF CallbackThrows, CallbackOK
<1>9. ASSUME NEW i \in Isolates, Evict(i) PROVE CallbacksOK'
  <2>1. ASSUME NEW b \in Callbacks PROVE CallbackOK(b)'
    <3>1. CASE cb[b].at # i
      <4>1. cb'[b] = cb[b]
        BY <1>9, <3>1 DEF Evict
      <4>2. cb[b].at # None => used'[cb[b].at] = used[cb[b].at]
        BY <1>0, <1>9, <3>1 DEF Evict, TypeOK, CallbackRecords
      <4>. QED
        BY <4>1, <4>2, CallbackKept
    <3>2. CASE cb[b].at = i
      <4> DEFINE out == IF cb[b].pc = "done" THEN cb[b].out ELSE "error"
                 v == Ended(None, cb[b].login, out)
      <4>1. out \in {"none", "refused", "error", "code"}
            /\ cb[b].login \in Logins \cup {None}
        BY <1>0 DEF CallbackRecords
      <4>3. cb'[b] = v
        BY <1>9, <3>2 DEF Evict
      <4>. HIDE DEF out
      <4>2. v.pc = "done" /\ v.at = None
        BY <4>1, CallbackFields
      <4>. HIDE DEF v
      <4>. QED
        BY <4>2, <4>3 DEF CallbackOK
    <3>. QED
      BY <3>1, <3>2
  <2>. QED
    BY <2>1 DEF CallbacksOK
<1>10. \/ \E b \in Callbacks : \/ Callback(b) \/ ProviderExchange(b)
                               \/ VibecodrExchange(b) \/ IssueCode(b) \/ CallbackThrows(b)
       \/ \E i \in Isolates : Evict(i)
       \/ UNCHANGED <<cb, used>>
  BY DEF Next, vars, Authorize, StateExpires, SignIn, TokenRequest, Consume,
         ConsumeRejects, StoreGrant, CodeExpires
<1>. QED
  BY <1>1, <1>4, <1>5, <1>6, <1>7, <1>8, <1>9, <1>10

LEMMA CodesStep == CodesInv /\ [Next]_vars => CodesOK'
<1> SUFFICES ASSUME CodesInv, [Next]_vars PROVE CodesOK'
  OBVIOUS
<1>0. TypeOK /\ CodesOK
  BY DEF CodesInv
<1>1. ASSUME UNCHANGED <<store, issued>> PROVE CodesOK'
  BY <1>1, CodesKept
<1>2. ASSUME NEW b \in Callbacks, IssueCode(b) PROVE CodesOK'
  <2>1. PICK c \in Codes :
          /\ store' = [store EXCEPT ![c] = NewRecord(b)]
          /\ issued' = [issued EXCEPT ![c] = NewRecord(b)]
    BY <1>2 DEF IssueCode
  <2>2. cb[b] \in CallbackRecords /\ CallbackOK(b) /\ cb[b].pc = "issue"
    BY <1>0, <1>2, AtType DEF CodesInv, CallbacksOK, IssueCode
  <2>3. /\ cb[b].login \in Logins /\ cb[b].pcode \in ProviderCodes
        /\ login[cb[b].login] # None /\ SignedIn(cb[b].pcode, cb[b].login)
    BY <2>2 DEF CallbackOK, CallbackRecords
  <2> DEFINE v == NewRecord(b)
  <2>4. /\ v.login = cb[b].login /\ v.signin = cb[b].pcode
        /\ v.client = login[cb[b].login].client
        /\ v.redirect = login[cb[b].login].redirect
        /\ v.verifier = login[cb[b].login].verifier
    BY DEF NewRecord
  <2>5. store' = [store EXCEPT ![c] = v] /\ issued' = [issued EXCEPT ![c] = v]
    BY <2>1
  <2>6. v # None
    BY <1>0, <2>2, NewRecordType, NoneTypes DEF CodesInv
  <2>7. login' = login /\ pcode' = pcode
    BY <1>2 DEF IssueCode
  <2>. HIDE DEF v
  <2>. QED
    BY <1>0, <2>3, <2>4, <2>5, <2>6, <2>7 DEF CodesOK, CodeOK, SignedIn, TypeOK
<1>3. ASSUME NEW r \in Requests, Consume(r) PROVE CodesOK'
  <2>1. \A c \in Codes : store'[c] # None => store'[c] = store[c]
    BY <1>0, <1>3 DEF Consume, TypeOK
  <2>. QED
    BY <1>3, <2>1, CodesKept DEF Consume
<1>4. ASSUME NEW r \in Requests, ConsumeRejects(r) PROVE CodesOK'
  <2>1. \A c \in Codes : store'[c] # None => store'[c] = store[c]
    BY <1>0, <1>4 DEF ConsumeRejects, TypeOK
  <2>. QED
    BY <1>4, <2>1, CodesKept DEF ConsumeRejects
<1>5. ASSUME NEW c \in Codes, CodeExpires(c) PROVE CodesOK'
  <2>1. store[c] \in CodeRecords
    BY <1>0, <1>5 DEF CodeExpires, TypeOK
  <2> DEFINE v == [store[c] EXCEPT !.expired = TRUE]
  <2>2. /\ v.client = store[c].client /\ v.redirect = store[c].redirect
        /\ v.verifier = store[c].verifier /\ v.signin = store[c].signin
    BY <2>1 DEF CodeRecords
  <2>3. store' = [store EXCEPT ![c] = v]
    BY <1>5 DEF CodeExpires
  <2>. HIDE DEF v
  <2>4. \A d \in Codes : d # c => store'[d] = store[d]
    BY <1>0, <2>3 DEF TypeOK
  <2>5. store'[c] = v /\ store[c] # None
    BY <1>0, <1>5, <2>3 DEF TypeOK, CodeExpires
  <2>. QED
    BY <1>5, <2>2, <2>4, <2>5, CodesKept DEF CodeExpires
<1>6. ASSUME NEW i \in Isolates, Evict(i) PROVE CodesOK'
  BY <1>6, CodesKept DEF Evict
<1>7. \/ \E b \in Callbacks : IssueCode(b)
      \/ \E r \in Requests : Consume(r) \/ ConsumeRejects(r)
      \/ \E c \in Codes : CodeExpires(c)
      \/ \E i \in Isolates : Evict(i)
      \/ UNCHANGED <<store, issued>>
  BY DEF Next, vars, Authorize, StateExpires, SignIn, Callback, ProviderExchange,
         VibecodrExchange, CallbackThrows, TokenRequest, StoreGrant
<1>. QED
  BY <1>1, <1>2, <1>3, <1>4, <1>5, <1>6, <1>7

(* What a request sees when it consumes its code. *)
LEMMA ConsumeCases ==
    ASSUME CodesInv, NEW r \in Requests, Consume(r)
    PROVE  /\ tk[r].code \in Codes
           /\ \A c \in Codes : c # tk[r].code => store'[c] = store[c]
           /\ \/ /\ Refuse(r, "invalid_grant")
                 /\ store' = store \/ store'[tk[r].code] = None
              \/ /\ store[tk[r].code] # None /\ store'[tk[r].code] = None
                 /\ ~store[tk[r].code].expired
                 /\ issued[tk[r].code] # None
                 /\ Matches(Shown(r), issued[tk[r].code])
                 /\ tk'[r] \in TokenRecords /\ tk'[r].pc \in {"grant", "done"}
                 /\ tk'[r].code = tk[r].code /\ Shown(r)' = Shown(r)
                 /\ tk'[r].signin = issued[tk[r].code].signin
                 /\ \A s \in Requests : s # r => tk'[s] = tk[s]
<1>0. TypeOK /\ TokenOK(r) /\ tk[r] \in TokenRecords /\ tk[r].pc = "consume"
  BY AtType DEF CodesInv, TokensOK, Consume
<1>1. tk[r].code \in Codes
  BY <1>0 DEF TokenOK, TokenRecords
<1>2. /\ \A c \in Codes : c # tk[r].code => store'[c] = store[c]
      /\ store' = store \/ store'[tk[r].code] = None
  BY <1>0, <1>1 DEF Consume, TypeOK
<1>3. CASE Refuse(r, "invalid_grant")
  BY <1>1, <1>2, <1>3
<1>4. CASE ~Refuse(r, "invalid_grant")
  <2> DEFINE m == store[tk[r].code]
  <2>1. /\ m # None /\ ~m.expired /\ Matches(Shown(r), m)
        /\ store'[tk[r].code] = None
    BY <1>0, <1>1, <1>4 DEF Consume, Found, TypeOK
  <2>2. PICK pc \in {"grant", "done"}, out \in {"none", "ok"} :
          tk' = [tk EXCEPT ![r] = [@ EXCEPT !.signin = m.signin, !.pc = pc, !.out = out]]
    BY <1>4, <2>1 DEF Consume, Found
  <2>3. /\ issued[tk[r].code] # None
        /\ m.client = issued[tk[r].code].client
        /\ m.redirect = issued[tk[r].code].redirect
        /\ m.verifier = issued[tk[r].code].verifier
        /\ m.signin = issued[tk[r].code].signin
    BY <1>1, <2>1 DEF CodesInv, CodesOK, CodeOK
  <2>4. m.signin \in ProviderCodes
    BY <1>0, <1>1, <2>1 DEF TypeOK, CodeRecords
  <2> DEFINE v == [tk[r] EXCEPT !.signin = m.signin, !.pc = pc, !.out = out]
  <2>5. /\ v \in TokenRecords /\ v.pc = pc /\ v.signin = m.signin
        /\ v.code = tk[r].code /\ v.client = tk[r].client
        /\ v.redirect = tk[r].redirect /\ v.verifier = tk[r].verifier
    BY <1>0, <2>4, ZenonT(30) DEF TokenRecords
  <2>6. tk' = [tk EXCEPT ![r] = v]
    BY <2>2
  <2>7. Matches(Shown(r), issued[tk[r].code])
    BY <2>1, <2>3 DEF Matches
  <2>. HIDE DEF v
  <2>8. tk'[r] = v /\ \A s \in Requests : s # r => tk'[s] = tk[s]
    BY <1>0, <2>6 DEF TypeOK
  <2>9. Shown(r)' = Shown(r)
    BY <2>5, <2>8 DEF Shown
  <2>. QED
    BY <1>1, <1>2, <2>1, <2>2, <2>3, <2>5, <2>7, <2>8, <2>9
<1>. QED
  BY <1>3, <1>4

(* A request that is over keeps the session it got, and its code stays gone. *)
LEMMA TokenDone ==
    ASSUME CodesInv, [Next]_vars, NEW r \in Requests,
           tk'[r].pc = "done", tk'[r].signin = tk[r].signin, tk'[r].code = tk[r].code,
           tk'[r].client = tk[r].client, tk'[r].redirect = tk[r].redirect,
           tk'[r].verifier = tk[r].verifier,
           tk[r].signin # None => store'[tk[r].code] = None
    PROVE  TokenOK(r)'
<1>1. TypeOK /\ TokenOK(r) /\ tk[r] \in TokenRecords
  BY AtType DEF CodesInv, TokensOK
<1>2. tk[r].code # None => tk[r].code \in Codes
  BY <1>1 DEF TokenRecords
<1>3. Shown(r)' = Shown(r)
  BY DEF Shown
<1>. QED
  BY <1>1, <1>2, <1>3, Monotone DEF TokenOK

LEMMA TokensStep == CodesInv /\ [Next]_vars => TokensOK' /\ OneRedeemer'
<1> SUFFICES ASSUME CodesInv, [Next]_vars PROVE TokensOK' /\ OneRedeemer'
  OBVIOUS
<1>0. /\ TypeOK /\ OneRedeemer
      /\ \A r \in Requests : tk[r] \in TokenRecords /\ TokenOK(r)
      /\ \A r \in Requests : tk[r].signin # None =>
            tk[r].code \in Codes /\ store[tk[r].code] = None /\ issued[tk[r].code] # None
  <2>1. TypeOK /\ OneRedeemer /\ \A r \in Requests : tk[r] \in TokenRecords /\ TokenOK(r)
    BY AtType DEF CodesInv, TokensOK
  <2>. QED
    BY <2>1 DEF TokenOK, TokenRecords
<1>1. ASSUME UNCHANGED <<tk, store>> PROVE TokensOK' /\ OneRedeemer'
  BY <1>1, TokensKept
<1>2. ASSUME NEW b \in Callbacks, IssueCode(b) PROVE TokensOK' /\ OneRedeemer'
  <2>1. PICK c \in Codes : issued[c] = None /\ store' = [store EXCEPT ![c] = NewRecord(b)]
    BY <1>2 DEF IssueCode, Fresh
  <2>2. tk' = tk
    BY <1>2 DEF IssueCode
  <2>3. ASSUME NEW r \in Requests PROVE TokenOK(r)'
    <3>1. tk[r].signin # None => store'[tk[r].code] = None
      BY <1>0, <2>1 DEF TypeOK
    <3>. QED
      BY <2>2, <3>1, TokenKept
  <2>. QED
    BY <1>0, <2>2, <2>3 DEF TokensOK, OneRedeemer
<1>3. ASSUME NEW r \in Requests, TokenRequest(r) PROVE TokensOK' /\ OneRedeemer'
  <2>1. UNCHANGED <<store, issued>>
    BY <1>3 DEF TokenRequest
  <2>2. CASE Refuse(r, "invalid_grant")
    BY <1>0, <2>1, <2>2, RefuseFields, TokensKept
  <2>3. ASSUME NEW c \in Codes, NEW k \in Clients, NEW d \in Redirects,
               NEW v \in Verifiers, NEW i \in Isolates, issued[c] # None,
               tk' = [tk EXCEPT ![r] = Showing(i, c, k, d, v)]
        PROVE  TokensOK' /\ OneRedeemer'
    <3> DEFINE w == Showing(i, c, k, d, v)
    <3>1. /\ w.pc = "consume" /\ w.signin = None /\ w.code = c
          /\ w.client = k /\ w.redirect = d /\ w.verifier = v
      BY ShowingFields
    <3>2. tk'[r] = w /\ \A s \in Requests : s # r => tk'[s] = tk[s]
      BY <1>0, <2>3 DEF TypeOK
    <3>. HIDE DEF w
    <3>3. TokenOK(r)'
      BY <2>1, <2>3, <3>1, <3>2, CodesAssumption DEF TokenOK
    <3>4. ASSUME NEW s \in Requests, s # r PROVE TokenOK(s)'
      BY <1>0, <2>1, <3>2, <3>4, TokenKept
    <3>. QED
      BY <1>0, <3>1, <3>2, <3>3, <3>4 DEF TokensOK, OneRedeemer
  <2>. QED
    BY <1>3, <2>2, <2>3 DEF TokenRequest
<1>4. ASSUME NEW r \in Requests, Consume(r) PROVE TokensOK' /\ OneRedeemer'
  <2>1. /\ tk[r].code \in Codes
        /\ \A c \in Codes : c # tk[r].code => store'[c] = store[c]
    BY <1>4, ConsumeCases
  <2>2. CASE Refuse(r, "invalid_grant") /\ (store' = store \/ store'[tk[r].code] = None)
    <3>1. \A c \in Codes : store[c] = None => store'[c] = None
      BY <2>1, <2>2
    <3>. QED
      BY <1>0, <2>2, <3>1, RefuseFields, TokensKept
  <2>3. CASE /\ store[tk[r].code] # None /\ store'[tk[r].code] = None
             /\ issued[tk[r].code] # None
             /\ Matches(Shown(r), issued[tk[r].code])
             /\ tk'[r] \in TokenRecords /\ tk'[r].pc \in {"grant", "done"}
             /\ tk'[r].code = tk[r].code /\ Shown(r)' = Shown(r)
             /\ tk'[r].signin = issued[tk[r].code].signin
             /\ \A s \in Requests : s # r => tk'[s] = tk[s]
    <3>1. issued' = issued /\ tk[r].pc = "consume"
      BY <1>4 DEF Consume
    <3>2. /\ tk[r].client # None /\ tk[r].redirect # None /\ tk[r].verifier # None
          /\ tk[r].code # None
      BY <1>0, <3>1 DEF TokenOK
    <3>3. /\ tk'[r].client = tk[r].client /\ tk'[r].redirect = tk[r].redirect
          /\ tk'[r].verifier = tk[r].verifier
      BY <2>3 DEF Shown
    <3>4. TokenOK(r)'
      BY <2>3, <3>1, <3>2, <3>3 DEF TokenOK
    <3>5. ASSUME NEW s \in Requests, s # r PROVE TokenOK(s)'
      BY <1>0, <2>1, <2>3, <3>5, TokenKept
    <3>6. \A s \in Requests : s # r /\ tk[s].signin # None => tk[s].code # tk[r].code
      BY <1>0, <2>3
    <3>. QED
      BY <1>0, <2>3, <3>4, <3>5, <3>6 DEF TokensOK, OneRedeemer
  <2>. QED
    BY <1>4, <2>2, <2>3, ConsumeCases
<1>5. ASSUME NEW r \in Requests, ConsumeRejects(r) PROVE TokensOK' /\ OneRedeemer'
  <2>1. \A c \in Codes : store[c] = None => store'[c] = None
    BY <1>0, <1>5 DEF ConsumeRejects, TypeOK
  <2>2. Refuse(r, "threw")
    BY <1>5 DEF ConsumeRejects
  <2>. QED
    BY <1>0, <2>1, <2>2, RefuseFields, TokensKept
<1>6. ASSUME NEW r \in Requests, StoreGrant(r) PROVE TokensOK' /\ OneRedeemer'
  <2>1. PICK out \in {"ok", "threw"} : Answer(r, out)
    BY <1>6 DEF StoreGrant
  <2>2. /\ tk'[r].pc = "done" /\ tk'[r].signin = tk[r].signin
        /\ tk'[r].code = tk[r].code /\ Shown(r)' = Shown(r)
        /\ \A s \in Requests : s # r => tk'[s] = tk[s]
    BY <1>0, <2>1, AnswerFields
  <2>3. store' = store
    BY <1>6 DEF StoreGrant
  <2>4. TokenOK(r)'
    BY <1>0, <2>2, <2>3, TokenDone DEF Shown
  <2>5. ASSUME NEW s \in Requests, s # r PROVE TokenOK(s)'
    BY <1>0, <2>2, <2>3, <2>5, TokenKept
  <2>. QED
    BY <1>0, <2>2, <2>4, <2>5 DEF TokensOK, OneRedeemer
<1>7. ASSUME NEW c \in Codes, CodeExpires(c) PROVE TokensOK' /\ OneRedeemer'
  <2>1. tk' = tk /\ \A d \in Codes : store[d] = None => store'[d] = None
    BY <1>0, <1>7 DEF CodeExpires, TypeOK
  <2>. QED
    BY <2>1, TokensKept
<1>8. ASSUME NEW i \in Isolates, Evict(i) PROVE TokensOK' /\ OneRedeemer'
  <2>1. \A d \in Codes : store[d] = None => store'[d] = None
    BY <1>8 DEF Evict
  <2>2. ASSUME NEW r \in Requests
        PROVE  TokenOK(r)' /\ (tk'[r].signin # None => /\ tk[r].signin # None
                                                       /\ tk'[r].code = tk[r].code)
    <3>1. CASE tk[r].at # i \/ tk[r].pc = "done"
      <4>1. tk'[r] = tk[r]
        BY <1>8, <3>1 DEF Evict
      <4>. QED
        BY <1>0, <2>1, <4>1, TokenKept
    <3>2. CASE ~(tk[r].at # i \/ tk[r].pc = "done") /\ tk[r].signin = None
      <4> DEFINE w == [NoToken EXCEPT !.pc = "done", !.out = "threw"]
      <4>1. w.pc = "done" /\ w.signin = None
        BY DEF NoToken
      <4>2. tk'[r] = w
        BY <1>8, <3>2 DEF Evict
      <4>. HIDE DEF w
      <4>. QED
        BY <4>1, <4>2 DEF TokenOK
    <3>3. CASE ~(tk[r].at # i \/ tk[r].pc = "done") /\ tk[r].signin # None
      <4> DEFINE w == [tk[r] EXCEPT !.pc = "done", !.out = "threw"]
      <4>1. /\ w.pc = "done" /\ w.signin = tk[r].signin /\ w.code = tk[r].code
            /\ w.client = tk[r].client /\ w.redirect = tk[r].redirect
            /\ w.verifier = tk[r].verifier
        BY <1>0 DEF TokenRecords
      <4>2. tk'[r] = w
        BY <1>8, <3>3 DEF Evict
      <4>. HIDE DEF w
      <4>. QED
        BY <1>0, <2>1, <3>3, <4>1, <4>2, TokenDone
    <3>. QED
      BY <3>1, <3>2, <3>3
  <2>. QED
    BY <1>0, <2>2 DEF TokensOK, OneRedeemer
<1>9. \/ \E b \in Callbacks : IssueCode(b)
      \/ \E r \in Requests : TokenRequest(r) \/ Consume(r) \/ ConsumeRejects(r) \/ StoreGrant(r)
      \/ \E c \in Codes : CodeExpires(c)
      \/ \E i \in Isolates : Evict(i)
      \/ UNCHANGED <<tk, store>>
  BY DEF Next, vars, Authorize, StateExpires, SignIn, Callback, ProviderExchange,
         VibecodrExchange, CallbackThrows
<1>. QED
  BY <1>1, <1>2, <1>3, <1>4, <1>5, <1>6, <1>7, <1>8, <1>9

LEMMA InvInit == Init => CodesInv
<1> SUFFICES ASSUME Init PROVE CodesInv
  OBVIOUS
<1>1. /\ NoCallback.pc = "idle" /\ NoCallback.at = None
      /\ NoToken.pc = "idle" /\ NoToken.signin = None
  BY DEF NoCallback, NoToken
<1>2. /\ \A b \in Callbacks : cb[b].pc = "idle" /\ cb[b].at = None
      /\ \A r \in Requests : tk[r].pc = "idle" /\ tk[r].signin = None
      /\ \A c \in Codes : issued[c] = None /\ store[c] = None
  BY <1>1 DEF Init
<1>. QED
  BY <1>2, TypeInit
     DEF CodesInv, CallbacksOK, CallbackOK, CodesOK, CodeOK, TokensOK, TokenOK, OneRedeemer

LEMMA InvStep == CodesInv /\ [Next]_vars => CodesInv'
BY TypeStep, CallbacksStep, CodesStep, TokensStep DEF CodesInv

(* The inductive invariant, for all constants. *)
THEOREM CodesInvariant == Spec => []CodesInv
BY InvInit, InvStep, PTL DEF Spec

(* Every reachable state of the endpoints is typed. *)
THEOREM CodesTypeCorrect == Spec => []TypeOK
<1>1. CodesInv => TypeOK
  BY DEF CodesInv
<1>. QED
  BY <1>1, CodesInvariant, PTL

LEMMA InvRightful == CodesInv => RightfulSession
<1> SUFFICES ASSUME CodesInv, NEW r \in Requests, tk[r].signin # None
    PROVE  \E n \in Logins :
             /\ login[n] = Shown(r)
             /\ pcode[tk[r].signin] = [login |-> n, spent |-> TRUE]
             /\ issued[tk[r].code].login = n
  BY DEF RightfulSession
<1>1. /\ TypeOK /\ TokenOK(r) /\ tk[r] \in TokenRecords
  BY AtType DEF CodesInv, TokensOK
<1> DEFINE c == tk[r].code
           n == issued[c].login
           p == tk[r].signin
<1>2. /\ c \in Codes /\ issued[c] # None /\ Matches(Shown(r), issued[c])
      /\ p = issued[c].signin
  BY <1>1 DEF TokenOK, TokenRecords
<1>3. /\ issued[c] \in CodeRecords /\ CodeOK(c)
  BY <1>1, <1>2 DEF TypeOK, CodesInv, CodesOK
<1>4. n \in Logins /\ p \in ProviderCodes
  BY <1>2, <1>3 DEF CodeRecords
<1>5. /\ login[n] # None /\ SignedIn(p, n)
      /\ Shown(r).client = login[n].client /\ Shown(r).redirect = login[n].redirect
      /\ Shown(r).verifier = login[n].verifier
  BY <1>2, <1>3 DEF CodeOK, Matches
<1>6. login[n] \in LoginClaims /\ pcode[p] \in SignIns
  BY <1>1, <1>4, <1>5 DEF TypeOK, SignedIn
<1>7. login[n] = Shown(r)
  BY <1>5, <1>6 DEF LoginClaims, Shown
<1>8. pcode[p] = [login |-> n, spent |-> TRUE]
  BY <1>5, <1>6 DEF SignIns, SignedIn
<1>. QED
  BY <1>4, <1>7, <1>8

(* Whatever logins, codes and states are mixed up, and whatever fails, a    *)
(* session is minted for the person who completed the provider's page of    *)
(* the login whose verifier the token request shows.                        *)
THEOREM SessionsRightful == Spec => []RightfulSession
BY CodesInvariant, InvRightful, PTL

LEMMA UsedOnceStep == CodesInv /\ StateUsedOnce /\ [Next]_vars => StateUsedOnce'
<1> SUFFICES ASSUME CodesInv, StateUsedOnce, [Next]_vars PROVE StateUsedOnce'
  OBVIOUS
<1>0. /\ TypeOK /\ \A b \in Callbacks : cb[b] \in CallbackRecords /\ CallbackOK(b)
  BY AtType DEF CodesInv, CallbacksOK
<1>1. ASSUME NEW b \in Callbacks, \A d \in Callbacks : d # b => cb'[d] = cb[d],
             cb'[b].at = cb[b].at, cb'[b].login = cb[b].login, cb[b].out # "refused"
      PROVE  StateUsedOnce'
  BY <1>1 DEF StateUsedOnce
<1>2. ASSUME NEW b \in Callbacks, NEW out \in {"error", "code"}, Reply(b, out),
             cb[b].pc \in {"exchange", "vibecodr", "issue"}
      PROVE  StateUsedOnce'
  BY <1>0, <1>1, <1>2, ReplyFields DEF CallbackOK
<1>3. ASSUME NEW b \in Callbacks, Callback(b) PROVE StateUsedOnce'
  <2>1. PICK n \in Logins, i \in Isolates :
          \/ cb' = [cb EXCEPT ![b] = Ended(i, n, "refused")]
          \/ /\ n \notin expired /\ n \notin used[i]
             /\ \/ \E p \in ProviderCodes : cb' = [cb EXCEPT ![b] = Serving(i, n, p)]
                \/ cb' = [cb EXCEPT ![b] = Ended(i, n, "error")]
    BY <1>3 DEF Callback
  <2>2. \A d \in Callbacks : d # b => cb'[d] = cb[d]
    BY <1>0, <2>1 DEF TypeOK
  <2>3. \/ cb'[b].out = "refused"
        \/ n \notin expired /\ n \notin used[i] /\ cb'[b].at = i /\ cb'[b].login = n
    <3>1. /\ Ended(i, n, "refused").out = "refused"
          /\ Ended(i, n, "error").at = i /\ Ended(i, n, "error").login = n
          /\ \A p \in ProviderCodes : Serving(i, n, p).at = i /\ Serving(i, n, p).login = n
      BY CallbackFields
    <3>2. \/ cb'[b] = Ended(i, n, "refused")
          \/ /\ n \notin expired /\ n \notin used[i]
             /\ \/ \E p \in ProviderCodes : cb'[b] = Serving(i, n, p)
                \/ cb'[b] = Ended(i, n, "error")
      BY <1>0, <2>1 DEF TypeOK
    <3>. QED
      BY <3>1, <3>2
  <2>4. ASSUME NEW d \in Callbacks, d # b, cb[d].at # None, cb[d].out # "refused",
               cb'[b].out # "refused", cb[d].at = cb'[b].at, cb[d].login = cb'[b].login
        PROVE  FALSE
    BY <1>0, <2>3, <2>4 DEF CallbackOK
  <2>. QED
    BY <2>2, <2>4 DEF StateUsedOnce
<1>4. ASSUME NEW b \in Callbacks, ProviderExchange(b) PROVE StateUsedOnce'
  <2>1. CASE Reply(b, "error")
    BY <1>2, <1>4, <2>1 DEF ProviderExchange
  <2>2. ASSUME NEW refresh \in BOOLEAN,
               cb' = [cb EXCEPT ![b] = [@ EXCEPT !.pc = "vibecodr", !.refresh = refresh]]
        PROVE  StateUsedOnce'
    <3>1. /\ cb'[b].at = cb[b].at /\ cb'[b].login = cb[b].login
          /\ \A d \in Callbacks : d # b => cb'[d] = cb[d]
      BY <1>0, <2>2 DEF TypeOK, CallbackRecords
    <3>2. cb[b].out # "refused"
      BY <1>0, <1>4 DEF ProviderExchange, CallbackOK
    <3>. QED
      BY <1>1, <3>1, <3>2
  <2>. QED
    BY <1>4, <2>1, <2>2 DEF ProviderExchange
<1>5. ASSUME NEW b \in Callbacks, VibecodrExchange(b) PROVE StateUsedOnce'
  <2>1. CASE Reply(b, "error")
    BY <1>2, <1>5, <2>1 DEF VibecodrExchange
  <2>2. CASE cb' = [cb EXCEPT ![b].pc = "issue"]
    <3>1. /\ cb'[b].at = cb[b].at /\ cb'[b].login = cb[b].login
          /\ \A d \in Callbacks : d # b => cb'[d] = cb[d]
      BY <1>0, <2>2 DEF TypeOK, CallbackRecords
    <3>2. cb[b].out # "refused"
      BY <1>0, <1>5 DEF VibecodrExchange, CallbackOK
    <3>. QED
      BY <1>1, <3>1, <3>2
  <2>. QED
    BY <1>5, <2>1, <2>2 DEF VibecodrExchange
<1>6. ASSUME NEW b \in Callbacks, IssueCode(b) \/ CallbackThrows(b) PROVE StateUsedOnce'
  BY <1>2, <1>6 DEF IssueCode, CallbackThrows
<1>7. ASSUME NEW i \in Isolates, Evict(i) PROVE StateUsedOnce'
  <2>1. \A b \in Callbacks : cb[b].at = i => cb'[b].at = None
    <3>1. ASSUME NEW b \in Callbacks, cb[b].at = i PROVE cb'[b].at = None
      <4> DEFINE out == IF cb[b].pc = "done" THEN cb[b].out ELSE "error"
      <4>1. out \in {"none", "refused", "error", "code"}
            /\ cb[b].login \in Logins \cup {None}
        BY <1>0 DEF CallbackRecords
      <4>2. cb'[b] = Ended(None, cb[b].login, out)
        BY <1>7, <3>1 DEF Evict
      <4>. HIDE DEF out
      <4>. QED
        BY <4>1, <4>2, CallbackFields
    <3>. QED
      BY <3>1
  <2>2. \A b \in Callbacks : cb[b].at # i => cb'[b] = cb[b]
    BY <1>7 DEF Evict
  <2>. QED
    BY <2>1, <2>2 DEF StateUsedOnce
<1>8. CASE UNCHANGED cb
  BY <1>8 DEF StateUsedOnce
<1>9. \/ \E b \in Callbacks : \/ Callback(b) \/ ProviderExchange(b)
                              \/ VibecodrExchange(b) \/ IssueCode(b) \/ CallbackThrows(b)
      \/ \E i \in Isolates : Evict(i)
      \/ UNCHANGED cb
  BY DEF Next, vars, Authorize, StateExpires, SignIn, TokenRequest, Consume,
         ConsumeRejects, StoreGrant, CodeExpires
<1>. QED
  BY <1>3, <1>4, <1>5, <1>6, <1>7, <1>8, <1>9

(* An isolate lets the state token of a login through once for as long as  *)
(* it runs, however many callbacks arrive and whatever they end in.        *)
THEOREM StatesUsedOnce == Spec => []StateUsedOnce
<1>1. Init => StateUsedOnce
  <2>1. NoCallback.at = None
    BY DEF NoCallback
  <2>. QED
    BY <2>1 DEF Init, StateUsedOnce
<1>. QED
  BY <1>1, CodesInvariant, UsedOnceStep, PTL DEF Spec

-----------------------------------------------------------------------------
(* The endpoints implement one-shot codes. *)

(* Who has redeemed a code changes only with the sessions of requests. *)
LEMMA MintedKept ==
    ASSUME NEW c \in Codes,
           \A r \in Requests :
               \/ tk'[r] = tk[r]
               \/ tk[r].signin = None /\ tk'[r].signin = None
               \/ /\ tk[r].signin # None /\ tk'[r].signin # None
                  /\ tk'[r].code = tk[r].code /\ Shown(r)' = Shown(r)
    PROVE  Minted(c)' = Minted(c)
<1>1. \A r \in Requests : tk'[r] = tk[r] => Shown(r)' = Shown(r)
  BY DEF Shown
<1>. QED
  BY <1>1, Zenon DEF Minted

(* A step that issues and redeems nothing lets codes die, perhaps none. *)
LEMMA DyingStep ==
    ASSUME UNCHANGED issued,
           \A c \in Codes : store'[c] # None /\ ~store'[c].expired
                              => store[c] # None /\ ~store[c].expired,
           \A r \in Requests :
               \/ tk'[r] = tk[r]
               \/ tk[r].signin = None /\ tk'[r].signin = None
               \/ /\ tk[r].signin # None /\ tk'[r].signin # None
                  /\ tk'[r].code = tk[r].code /\ Shown(r)' = Shown(r)
    PROVE  OneShot!OneShotNext
<1> DEFINE live == {c \in Codes : store[c] # None /\ ~store[c].expired}
<1>1. live' \subseteq live
  OBVIOUS
<1>2. PICK dead \in SUBSET live : live' = live \ dead
  BY <1>1
<1>3. [c \in Codes |-> Minted(c)]' = [c \in Codes |-> Minted(c)]
  BY MintedKept
<1>4. OneShot!Die(dead)
  BY <1>2, <1>3 DEF OneShot!Die
<1>. QED
  BY <1>4 DEF OneShot!OneShotNext

LEMMA OneShotStep == CodesInv /\ [Next]_vars => OneShot!OneShotNext
<1> SUFFICES ASSUME CodesInv, [Next]_vars PROVE OneShot!OneShotNext
  OBVIOUS
<1>0. /\ TypeOK
      /\ \A r \in Requests : tk[r] \in TokenRecords /\ TokenOK(r)
  BY AtType DEF CodesInv, TokensOK
<1> DEFINE live == {c \in Codes : store[c] # None /\ ~store[c].expired}
<1>1. ASSUME UNCHANGED <<issued, store, tk>> PROVE OneShot!OneShotNext
  BY <1>1, DyingStep
<1>2. ASSUME NEW b \in Callbacks, IssueCode(b) PROVE OneShot!OneShotNext
  <2>1. PICK c \in Codes :
          /\ issued[c] = None
          /\ store' = [store EXCEPT ![c] = NewRecord(b)]
          /\ issued' = [issued EXCEPT ![c] = NewRecord(b)]
    BY <1>2 DEF IssueCode, Fresh
  <2>2. PICK v \in CodeRecords : v = NewRecord(b)
    BY <1>0, <1>2, NewRecordType DEF CodesInv, IssueCode
  <2>3. v # None /\ v.expired = FALSE
    BY <2>2, NoneTypes DEF NewRecord
  <2>4. store' = [store EXCEPT ![c] = v] /\ issued' = [issued EXCEPT ![c] = v]
    BY <2>1, <2>2
  <2>5. live' = live \cup {c}
    BY <1>0, <2>3, <2>4 DEF TypeOK
  <2>6. [d \in Codes |-> Minted(d)]' = [d \in Codes |-> Minted(d)]
    BY <1>2, MintedKept DEF IssueCode
  <2>7. OneShot!Issue(c)
    BY <2>1, <2>4, <2>5, <2>6 DEF OneShot!Issue
  <2>. QED
    BY <2>7 DEF OneShot!OneShotNext
<1>3. ASSUME NEW r \in Requests, NEW out \in {"invalid_grant", "threw"}, Refuse(r, out),
             tk[r].pc \in {"idle", "consume"}, UNCHANGED issued,
             \A c \in Codes : store'[c] # None => store'[c] = store[c]
      PROVE  OneShot!OneShotNext
  <2>1. tk[r].signin = None
    BY <1>0, <1>3 DEF TokenOK
  <2>2. tk'[r].signin = None /\ \A s \in Requests : s # r => tk'[s] = tk[s]
    BY <1>0, <1>3, RefuseFields
  <2>3. \A s \in Requests : tk'[s] = tk[s] \/ (tk[s].signin = None /\ tk'[s].signin = None)
    BY <2>1, <2>2
  <2>. QED
    BY <1>3, <2>3, DyingStep
<1>4. ASSUME NEW r \in Requests, TokenRequest(r) PROVE OneShot!OneShotNext
  <2>1. CASE Refuse(r, "invalid_grant")
    BY <1>3, <1>4, <2>1 DEF TokenRequest
  <2>2. ASSUME NEW c \in Codes, NEW k \in Clients, NEW d \in Redirects,
               NEW v \in Verifiers, NEW i \in Isolates,
               tk' = [tk EXCEPT ![r] = Showing(i, c, k, d, v)]
        PROVE  OneShot!OneShotNext
    <3>1. Showing(i, c, k, d, v).signin = None
      BY ShowingFields
    <3>2. tk[r].signin = None
      BY <1>0, <1>4 DEF TokenOK, TokenRequest
    <3>3. tk'[r] = Showing(i, c, k, d, v) /\ \A s \in Requests : s # r => tk'[s] = tk[s]
      BY <1>0, <2>2 DEF TypeOK
    <3>4. \A s \in Requests :
            tk'[s] = tk[s] \/ (tk[s].signin = None /\ tk'[s].signin = None)
      BY <3>1, <3>2, <3>3
    <3>. QED
      BY <1>4, <3>4, DyingStep DEF TokenRequest
  <2>. QED
    BY <1>4, <2>1, <2>2 DEF TokenRequest
<1>5. ASSUME NEW r \in Requests, Consume(r) PROVE OneShot!OneShotNext
  <2>0. PICK c \in Codes : c = tk[r].code
    BY <1>5, ConsumeCases
  <2>1. /\ tk[r].pc = "consume" /\ UNCHANGED issued
        /\ \A d \in Codes : d # c => store'[d] = store[d]
    BY <1>5, <2>0, ConsumeCases DEF Consume
  <2>4. PICK q \in LoginClaims : q = Shown(r)
    BY <1>0, <2>1 DEF TokenOK, TokenRecords, Shown, LoginClaims
  <2>2. CASE Refuse(r, "invalid_grant") /\ (store' = store \/ store'[c] = None)
    <3>1. \A d \in Codes : store'[d] # None => store'[d] = store[d]
      BY <2>1, <2>2
    <3>. QED
      BY <1>3, <2>1, <2>2, <3>1
  <2>3. CASE /\ store[c] # None /\ store'[c] = None
             /\ ~store[c].expired
             /\ issued[c] # None
             /\ Matches(q, issued[c])
             /\ tk'[r] \in TokenRecords /\ tk'[r].pc \in {"grant", "done"}
             /\ tk'[r].code = c /\ Shown(r)' = q
             /\ tk'[r].signin = issued[c].signin
             /\ \A s \in Requests : s # r => tk'[s] = tk[s]
    <3>2. issued[c].signin # None
      BY <1>0, <2>3, CodesAssumption DEF TypeOK, CodeRecords
    <3>3. live' = live \ {c} /\ c \in live
      BY <2>1, <2>3
    <3>4. ASSUME NEW d \in Codes, d # c PROVE Minted(d)' = Minted(d)
      <4>1. \A s \in Requests : s # r => Shown(s)' = Shown(s)
        BY <2>3 DEF Shown
      <4>2. tk[r].code # d /\ tk'[r].code # d
        BY <2>0, <2>3, <3>4
      <4>3. \A s \in Requests : (tk'[s].code = d /\ tk'[s].signin # None)
                                  <=> (tk[s].code = d /\ tk[s].signin # None)
        BY <2>3, <4>2
      <4>. QED
        BY <4>1, <4>2, <4>3, Zenon DEF Minted
    <3>5. Minted(c)' = {<<r, q>>}
      <4>1. \A s \in Requests : tk'[s].code = c /\ tk'[s].signin # None <=> s = r
        BY <1>0, <2>0, <2>3, <3>2 DEF TokenOK
      <4>. QED
        BY <2>3, <4>1, Zenon DEF Minted
    <3>6. [d \in Codes |-> Minted(d)]' = [[d \in Codes |-> Minted(d)] EXCEPT ![c] = {<<r, q>>}]
      BY <2>1, <3>4, <3>5
    <3>7. OneShot!Redeem(c, r, q)
      BY <2>1, <2>3, <3>3, <3>6 DEF OneShot!Redeem
    <3>. QED
      BY <3>7 DEF OneShot!OneShotNext
  <2>. QED
    BY <1>5, <2>0, <2>2, <2>3, <2>4, ConsumeCases
<1>6. ASSUME NEW r \in Requests, ConsumeRejects(r) PROVE OneShot!OneShotNext
  <2>1. \A c \in Codes : store'[c] # None => store'[c] = store[c]
    BY <1>0, <1>6 DEF ConsumeRejects, TypeOK
  <2>. QED
    BY <1>3, <1>6, <2>1 DEF ConsumeRejects
<1>7. ASSUME NEW r \in Requests, StoreGrant(r) PROVE OneShot!OneShotNext
  <2>1. PICK out \in {"ok", "threw"} : Answer(r, out)
    BY <1>7 DEF StoreGrant
  <2>2. /\ tk'[r].signin = tk[r].signin /\ tk'[r].code = tk[r].code
        /\ Shown(r)' = Shown(r) /\ \A s \in Requests : s # r => tk'[s] = tk[s]
    BY <1>0, <2>1, AnswerFields
  <2>. QED
    BY <1>7, <2>2, DyingStep DEF StoreGrant
<1>8. ASSUME NEW c \in Codes, CodeExpires(c) PROVE OneShot!OneShotNext
  <2>1. /\ store'[c].expired /\ \A d \in Codes : d # c => store'[d] = store[d]
    <3>1. store[c] \in CodeRecords
      BY <1>0, <1>8 DEF CodeExpires, TypeOK
    <3>. QED
      BY <1>0, <1>8, <3>1 DEF CodeExpires, TypeOK, CodeRecords
  <2>. QED
    BY <1>8, <2>1, DyingStep DEF CodeExpires
<1>9. ASSUME NEW i \in Isolates, Evict(i) PROVE OneShot!OneShotNext
  <2>1. \A c \in Codes : store'[c] # None => store'[c] = store[c]
    BY <1>9 DEF Evict
  <2>2. ASSUME NEW r \in Requests
        PROVE  \/ tk'[r] = tk[r]
               \/ tk[r].signin = None /\ tk'[r].signin = None
               \/ /\ tk[r].signin # None /\ tk'[r].signin # None
                  /\ tk'[r].code = tk[r].code /\ Shown(r)' = Shown(r)
    <3>1. CASE ~(tk[r].at # i \/ tk[r].pc = "done") /\ tk[r].signin = None
      <4> DEFINE w == [NoToken EXCEPT !.pc = "done", !.out = "threw"]
      <4>1. w.signin = None
        BY DEF NoToken
      <4>2. tk'[r] = w
        BY <1>9, <3>1 DEF Evict
      <4>. HIDE DEF w
      <4>. QED
        BY <3>1, <4>1, <4>2
    <3>2. CASE ~(tk[r].at # i \/ tk[r].pc = "done") /\ tk[r].signin # None
      <4> DEFINE w == [tk[r] EXCEPT !.pc = "done", !.out = "threw"]
      <4>1. /\ w.signin = tk[r].signin /\ w.code = tk[r].code
            /\ w.client = tk[r].client /\ w.redirect = tk[r].redirect
            /\ w.verifier = tk[r].verifier
        BY <1>0 DEF TokenRecords
      <4>2. tk'[r] = w
        BY <1>9, <3>2 DEF Evict
      <4>. HIDE DEF w
      <4>. QED
        BY <3>2, <4>1, <4>2 DEF Shown
    <3>. QED
      BY <1>9, <3>1, <3>2 DEF Evict
  <2>. QED
    BY <1>9, <2>1, <2>2, DyingStep DEF Evict
<1>10. \/ \E b \in Callbacks : IssueCode(b)
       \/ \E r \in Requests : TokenRequest(r) \/ Consume(r) \/ ConsumeRejects(r) \/ StoreGrant(r)
       \/ \E c \in Codes : CodeExpires(c)
       \/ \E i \in Isolates : Evict(i)
       \/ UNCHANGED <<issued, store, tk>>
  BY DEF Next, vars, Authorize, StateExpires, SignIn, Callback, ProviderExchange,
         VibecodrExchange, CallbackThrows
<1>. QED
  BY <1>1, <1>2, <1>4, <1>5, <1>6, <1>7, <1>8, <1>9, <1>10

(* The two endpoints, on either store and with every fault, implement      *)
(* OneShotCodes: a code is redeemed once at most, by a request that matches *)
(* what it was issued for, and is dead from then on.                       *)
THEOREM ImplementsOneShotCodes == Spec => OneShotCode
<1>1. Init => OneShot!OneShotInit
  <2>1. NoToken.signin = None
    BY DEF NoToken
  <2>2. Init => \A c \in Codes : Minted(c) = {}
    BY <2>1 DEF Init, Minted
  <2>. QED
    BY <2>2 DEF Init, OneShot!OneShotInit
<1>. QED
  BY <1>1, CodesInvariant, OneShotStep, PTL DEF Spec, OneShotCode, OneShot!OneShotSpec

=============================================================================
