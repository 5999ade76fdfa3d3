-------------------------- MODULE AuthorizationCodes --------------------------
(***************************************************************************)
(* The authorization-code grant of the gateway: authorize, the provider's  *)
(* callback and the authorization_code branch of the token endpoint.       *)
(*                                                                         *)
(* A login is one authorize request.  Its state token is signed and holds  *)
(* everything about it, so nothing is stored; what makes the token one-time *)
(* is a set of used nonces in the memory of each isolate.  The code issued  *)
(* by the callback is kept by the coordinator or, without one, in the      *)
(* memory of the isolate.  Steps between two awaits are one action.        *)
(***************************************************************************)
EXTENDS Naturals, FiniteSets

CONSTANTS
    Logins,       \* authorize requests, each with a state token of its own
    Clients, Redirects, Verifiers,   \* of MCP clients
    Registered,   \* Registered[c]: the redirect URIs allowed for client c
    ProviderCodes,   \* one per completed sign-in: it stands for who signed in
    Callbacks,    \* requests to the callback endpoint
    Requests,     \* token requests
    Codes,        \* gateway codes
    Isolates,
    None,
    Faults        \* which of CodeFaults the environment may produce

CodeFaults == {"reject", "evict", "expire_state", "expire_code"}

LoginClaims == [client: Clients, redirect: Redirects, verifier: Verifiers]

(* login, signin and refresh say what the session will be; at is the       *)
(* isolate whose memory holds the record, None for the coordinator.        *)
CodeRecords ==
    [login: Logins, client: Clients, redirect: Redirects, verifier: Verifiers,
     signin: ProviderCodes, refresh: BOOLEAN, expired: BOOLEAN,
     at: Isolates \cup {None}]

SignIns == [login: Logins, spent: BOOLEAN]

ASSUME CodesAssumption ==
    /\ Registered \in [Clients -> SUBSET Redirects]
    /\ Faults \subseteq CodeFaults
    /\ None \notin Logins \cup Clients \cup Redirects \cup Verifiers
                   \cup ProviderCodes \cup Codes \cup Isolates
                   \cup LoginClaims \cup CodeRecords \cup SignIns

VARIABLES
    durable,   \* codes live in the Durable Object: a Worker, not a Node server
    login,     \* login[n]: the claims of state token n, or None
    expired,   \* the state tokens past their ten minutes
    used,      \* used[i]: nonces isolate i has seen
    pcode,     \* provider codes: bound to which login, spent or not
    store,     \* store[c]: the record of gateway code c, or None
    issued,    \* issued[c]: the record c was issued with (history)
    cb,        \* callback requests
    tk         \* token requests

vars == <<durable, login, expired, used, pcode, store, issued, cb, tk>>

-----------------------------------------------------------------------------

(* at is the isolate that serves the request, or still remembers it. *)
CallbackRecords ==
    [pc: {"idle", "exchange", "vibecodr", "issue", "done"},
     at: Isolates \cup {None}, login: Logins \cup {None},
     pcode: ProviderCodes \cup {None}, refresh: BOOLEAN,
     out: {"none", "refused", "error", "code"}]

TokenRecords ==
    [pc: {"idle", "consume", "grant", "done"},
     at: Isolates \cup {None}, code: Codes \cup {None}, client: Clients \cup {None},
     redirect: Redirects \cup {None}, verifier: Verifiers \cup {None},
     signin: ProviderCodes \cup {None},
     out: {"none", "invalid_grant", "ok", "threw"}]

(* signin: whose session was minted for the request, once one is. *)
TypeOK ==
    /\ durable \in BOOLEAN
    /\ login \in [Logins -> LoginClaims \cup {None}]
    /\ expired \in SUBSET Logins
    /\ used \in [Isolates -> SUBSET Logins]
    /\ pcode \in [ProviderCodes -> SignIns \cup {None}]
    /\ store \in [Codes -> CodeRecords \cup {None}]
    /\ issued \in [Codes -> CodeRecords \cup {None}]
    /\ cb \in [Callbacks -> CallbackRecords]
    /\ tk \in [Requests -> TokenRecords]

NoCallback == [pc |-> "idle", at |-> None, login |-> None, pcode |-> None,
               refresh |-> FALSE, out |-> "none"]
NoToken == [pc |-> "idle", at |-> None, code |-> None, client |-> None,
            redirect |-> None, verifier |-> None, signin |-> None, out |-> "none"]

Init ==
    /\ durable \in BOOLEAN
    /\ login = [n \in Logins |-> None]
    /\ expired = {}
    /\ used = [i \in Isolates |-> {}]
    /\ pcode = [p \in ProviderCodes |-> None]
    /\ store = [c \in Codes |-> None]
    /\ issued = [c \in Codes |-> None]
    /\ cb = [b \in Callbacks |-> NoCallback]
    /\ tk = [r \in Requests |-> NoToken]

-----------------------------------------------------------------------------
(* Authorizing and signing in *)

Authorize(n) ==
    /\ login[n] = None
    /\ \E c \in Clients, v \in Verifiers : \E d \in Registered[c] :
         login' = [login EXCEPT ![n] = [client |-> c, redirect |-> d, verifier |-> v]]
    /\ UNCHANGED <<durable, expired, used, pcode, store, issued, cb, tk>>

(* The provider's page can be completed again, by another person too. *)
SignIn(p) ==
    /\ pcode[p] = None
    /\ \E n \in Logins :
         /\ login[n] # None
         /\ pcode' = [pcode EXCEPT ![p] = [login |-> n, spent |-> FALSE]]
    /\ UNCHANGED <<durable, login, expired, used, store, issued, cb, tk>>

-----------------------------------------------------------------------------
(* The callback: handleGatewayCallback *)

(* Nonces whose state has expired are dropped first. *)
MutantNonces(i, n) == {}
Nonces(i, n) == (used[i] \ expired) \cup {n}

(* A callback at isolate i for login n: with provider code p, or over. *)
Serving(i, n, p) ==
    [NoCallback EXCEPT !.pc = "exchange", !.at = i, !.login = n, !.pcode = p]
Ended(i, n, out) ==
    [NoCallback EXCEPT !.pc = "done", !.at = i, !.login = n, !.out = out]

Reply(b, out) == cb' = [cb EXCEPT ![b] = Ended(cb[b].at, cb[b].login, out)]

(* The state token of n arrives, with a provider code or an error. *)
Callback(b) ==
    /\ cb[b].pc = "idle"
    /\ \E n \in Logins, i \in Isolates :
         /\ login[n] # None
         /\ IF n \in expired \/ n \in used[i]
            THEN /\ cb' = [cb EXCEPT ![b] = Ended(i, n, "refused")]
                 /\ used' = [used EXCEPT ![i] = @ \ expired]
            ELSE /\ used' = [used EXCEPT ![i] = Nonces(i, n)]
                 /\ \/ \E p \in ProviderCodes :
                         /\ pcode[p] # None
                         /\ cb' = [cb EXCEPT ![b] = Serving(i, n, p)]
                    \/ cb' = [cb EXCEPT ![b] = Ended(i, n, "error")]
    /\ UNCHANGED <<durable, login, expired, pcode, store, issued, tk>>

(* The provider accepts a fresh code that was bound to this login (PKCE). *)
ProviderExchange(b) ==
    /\ cb[b].pc = "exchange"
    /\ LET p == cb[b].pcode
       IN  \/ /\ ~pcode[p].spent /\ pcode[p].login = cb[b].login
              /\ pcode' = [pcode EXCEPT ![p].spent = TRUE]
              /\ \/ \E refresh \in BOOLEAN :
                      cb' = [cb EXCEPT ![b] = [@ EXCEPT !.pc = "vibecodr",
                                                        !.refresh = refresh]]
                 \/ Reply(b, "error")
           \/ UNCHANGED pcode /\ Reply(b, "error")
    /\ UNCHANGED <<durable, login, expired, used, store, issued, tk>>

VibecodrExchange(b) ==
    /\ cb[b].pc = "vibecodr"
    /\ \/ cb' = [cb EXCEPT ![b].pc = "issue"]
       \/ Reply(b, "error")
    /\ UNCHANGED <<durable, login, expired, used, pcode, store, issued, tk>>

Fresh(c) == issued[c] = None

(* The record of a code issued by callback b. *)
MutantNewRecord(b) ==
    LET claims == login[cb[b].login]
    IN  [login |-> cb[b].login, client |-> claims.client,
         redirect |-> claims.redirect, verifier |-> claims.verifier,
         signin |-> None, refresh |-> cb[b].refresh, expired |-> FALSE,
         at |-> IF durable THEN None ELSE cb[b].at]
NewRecord(b) ==
    LET claims == login[cb[b].login]
    IN  [login |-> cb[b].login, client |-> claims.client,
         redirect |-> claims.redirect, verifier |-> claims.verifier,
         signin |-> cb[b].pcode, refresh |-> cb[b].refresh, expired |-> FALSE,
         at |-> IF durable THEN None ELSE cb[b].at]

(* codeStore.issue; a rejected call may have stored the code. *)
IssueCode(b) ==
    /\ cb[b].pc = "issue"
    /\ \E c \in Codes :
         /\ Fresh(c)
         /\ store' = [store EXCEPT ![c] = NewRecord(b)]
         /\ issued' = [issued EXCEPT ![c] = NewRecord(b)]
         /\ \/ Reply(b, "code")
            \/ "reject" \in Faults /\ durable /\ Reply(b, "error")
    /\ UNCHANGED <<durable, login, expired, used, pcode, tk>>

(* Any await of the callback may reject: nothing in it catches that. *)
CallbackThrows(b) ==
    /\ "reject" \in Faults
    /\ cb[b].pc \in {"exchange", "issue"}
    /\ cb[b].pc = "issue" => durable
    /\ Reply(b, "error")
    /\ UNCHANGED <<durable, login, expired, used, pcode, store, issued, tk>>

-----------------------------------------------------------------------------
(* The token endpoint: handleGatewayToken with grant_type=authorization_code *)

Answer(r, out) == tk' = [tk EXCEPT ![r] = [@ EXCEPT !.pc = "done", !.out = out]]

(* Nothing was minted: only the answer is kept. *)
Refuse(r, out) == tk' = [tk EXCEPT ![r] = [NoToken EXCEPT !.pc = "done", !.out = out]]

(* Code c shown at isolate i by client k with redirect URI d, verifier v. *)
Showing(i, c, k, d, v) ==
    [NoToken EXCEPT !.pc = "consume", !.at = i, !.code = c, !.client = k,
                    !.redirect = d, !.verifier = v]

(* Client and redirect URI are checked before the code is touched. *)
TokenRequest(r) ==
    /\ tk[r].pc = "idle"
    /\ \E c \in Codes, k \in Clients, d \in Redirects, v \in Verifiers, i \in Isolates :
         /\ issued[c] # None
         /\ IF d \in Registered[k]
            THEN tk' = [tk EXCEPT ![r] = Showing(i, c, k, d, v)]
            ELSE Refuse(r, "invalid_grant")
    /\ UNCHANGED <<durable, login, expired, used, pcode, store, issued, cb>>

(* The record of code c as request r finds it. *)
Found(r, c) ==
    IF store[c] # None /\ (durable \/ store[c].at = tk[r].at) THEN store[c] ELSE None

(* What a token request shows of itself, and what record asks to see. *)
Shown(r) == [client |-> tk[r].client, redirect |-> tk[r].redirect,
             verifier |-> tk[r].verifier]

MutantMatches(proof, record) ==
    proof.client = record.client /\ proof.redirect = record.redirect
Matches(proof, record) ==
    /\ proof.client = record.client /\ proof.redirect = record.redirect
    /\ proof.verifier = record.verifier

(* consume deletes whatever it finds; the comparisons and the session come *)
(* in the same step.                                                       *)
MutantConsume(r) ==
    /\ tk[r].pc = "consume"
    /\ LET c == tk[r].code
           record == Found(r, c)
           good == record # None /\ ~record.expired /\ Matches(Shown(r), record)
       IN  IF ~good
           THEN UNCHANGED store /\ Refuse(r, "invalid_grant")
           ELSE /\ tk' = [tk EXCEPT ![r].signin = record.signin, ![r].pc = "grant"]
                /\ UNCHANGED store
    /\ UNCHANGED <<durable, login, expired, used, pcode, issued, cb>>
Consume(r) ==
    /\ tk[r].pc = "consume"
    /\ LET c == tk[r].code
           record == Found(r, c)
       IN  /\ store' = IF record = None THEN store ELSE [store EXCEPT ![c] = None]
           /\ IF record = None \/ (record # None /\ record.expired)
                 \/ (record # None /\ ~Matches(Shown(r), record))
              THEN Refuse(r, "invalid_grant")
              ELSE tk' = [tk EXCEPT ![r] = [@ EXCEPT !.signin = record.signin,
                            !.pc = IF record.refresh THEN "grant" ELSE "done",
                            !.out = IF record.refresh THEN "none" ELSE "ok"]]
    /\ UNCHANGED <<durable, login, expired, used, pcode, issued, cb>>

(* A consume that rejects may have deleted the code. *)
ConsumeRejects(r) ==
    /\ "reject" \in Faults /\ durable
    /\ tk[r].pc = "consume"
    /\ \/ UNCHANGED store
       \/ store' = [store EXCEPT ![tk[r].code] = None]
    /\ Refuse(r, "threw")
    /\ UNCHANGED <<durable, login, expired, used, pcode, issued, cb>>

(* refreshStore.issue, see RefreshRotation; the session is answered after. *)
StoreGrant(r) ==
    /\ tk[r].pc = "grant"
    /\ \/ Answer(r, "ok")
       \/ "reject" \in Faults /\ Answer(r, "threw")
    /\ UNCHANGED <<durable, login, expired, used, pcode, store, issued, cb>>

-----------------------------------------------------------------------------
(* Time and the platform *)

StateExpires(n) ==
    /\ "expire_state" \in Faults
    /\ login[n] # None /\ n \notin expired
    /\ expired' = expired \cup {n}
    /\ UNCHANGED <<durable, login, used, pcode, store, issued, cb, tk>>

CodeExpires(c) ==
    /\ "expire_code" \in Faults
    /\ store[c] # None /\ ~store[c].expired
    /\ store' = [store EXCEPT ![c].expired = TRUE]
    /\ UNCHANGED <<durable, login, expired, used, pcode, issued, cb, tk>>

(* The isolate loses its memory and the requests it was serving. *)
Evict(i) ==
    /\ "evict" \in Faults
    /\ used' = [used EXCEPT ![i] = {}]
    /\ store' = [c \in Codes |-> IF store[c] # None /\ store[c].at = i THEN None ELSE store[c]]
    /\ cb' = [b \in Callbacks |->
                IF cb[b].at # i THEN cb[b]
                ELSE Ended(None, cb[b].login,
                           IF cb[b].pc = "done" THEN cb[b].out ELSE "error")]
    /\ tk' = [r \in Requests |->
                IF tk[r].at # i \/ tk[r].pc = "done" THEN tk[r]
                ELSE [(IF tk[r].signin = None THEN NoToken ELSE tk[r])
                        EXCEPT !.pc = "done", !.out = "threw"]]
    /\ UNCHANGED <<durable, login, expired, pcode, issued>>

Next ==
    \/ \E n \in Logins : Authorize(n) \/ StateExpires(n)
    \/ \E p \in ProviderCodes : SignIn(p)
    \/ \E b \in Callbacks :
         \/ Callback(b) \/ ProviderExchange(b) \/ VibecodrExchange(b)
         \/ IssueCode(b) \/ CallbackThrows(b)
    \/ \E r \in Requests :
         TokenRequest(r) \/ Consume(r) \/ ConsumeRejects(r) \/ StoreGrant(r)
    \/ \E c \in Codes : CodeExpires(c)
    \/ \E i \in Isolates : Evict(i)

Spec == Init /\ [][Next]_vars

-----------------------------------------------------------------------------
(* A session minted for a token request is the session of the person who    *)
(* completed the provider's page of the very authorize request whose        *)
(* verifier the token request shows, under the client and redirect URI of   *)
(* that authorize request, whatever codes and states are mixed up.          *)
RightfulSession ==
    \A r \in Requests : tk[r].signin # None =>
        \E n \in Logins :
            /\ login[n] = Shown(r)
            /\ pcode[tk[r].signin] = [login |-> n, spent |-> TRUE]
            /\ issued[tk[r].code].login = n

(* An isolate that is not restarted accepts a state token once: the used    *)
(* nonce is remembered for as long as the state is valid.                   *)
StateUsedOnce ==
    \A a, b \in Callbacks :
        /\ cb[a].at # None /\ cb[a].at = cb[b].at /\ cb[a].login = cb[b].login
        /\ cb[a].out # "refused" /\ cb[b].out # "refused"
        => a = b

-----------------------------------------------------------------------------
(* The inductive invariant behind these properties *)

(* p was spent by a sign-in for the login of state token n. *)
SignedIn(p, n) == pcode[p] # None /\ pcode[p].login = n /\ pcode[p].spent

(* A callback on its way holds the code of a sign-in for its own login;    *)
(* the nonce of every state that was let through is remembered.            *)
CallbackOK(b) ==
    /\ cb[b].pc \in {"exchange", "vibecodr", "issue"}
       => /\ cb[b].at # None /\ cb[b].login # None /\ cb[b].pcode # None
          /\ login[cb[b].login] # None /\ pcode[cb[b].pcode] # None
          /\ cb[b].out = "none"
    /\ cb[b].pc \in {"vibecodr", "issue"} => SignedIn(cb[b].pcode, cb[b].login)
    /\ cb[b].at # None /\ cb[b].out # "refused"
       => cb[b].login \in used[cb[b].at] \cup expired
CallbacksOK == \A b \in Callbacks : CallbackOK(b)

(* A code records the claims of its login and a sign-in for it, and what   *)
(* the store still has of it is what was issued.                           *)
CodeOK(c) ==
    /\ issued[c] # None
       => LET n == issued[c].login
          IN  /\ login[n] # None
              /\ issued[c].client = login[n].client
              /\ issued[c].redirect = login[n].redirect
              /\ issued[c].verifier = login[n].verifier
              /\ SignedIn(issued[c].signin, n)
    /\ store[c] # None
       => /\ issued[c] # None
          /\ store[c].client = issued[c].client
          /\ store[c].redirect = issued[c].redirect
          /\ store[c].verifier = issued[c].verifier
          /\ store[c].signin = issued[c].signin
CodesOK == \A c \in Codes : CodeOK(c)

(* A request that got a session matched its code, which is gone.           *)
TokenOK(r) ==
    /\ tk[r].pc \in {"idle", "consume"} => tk[r].signin = None
    /\ tk[r].pc = "consume" \/ tk[r].signin # None
       => /\ tk[r].code # None /\ issued[tk[r].code] # None
          /\ tk[r].client # None /\ tk[r].redirect # None /\ tk[r].verifier # None
    /\ tk[r].signin # None
       => /\ store[tk[r].code] = None
          /\ Matches(Shown(r), issued[tk[r].code])
          /\ tk[r].signin = issued[tk[r].code].signin
TokensOK == \A r \in Requests : TokenOK(r)

OneRedeemer ==
    \A r, s \in Requests :
        tk[r].signin # None /\ tk[s].signin # None /\ tk[r].code = tk[s].code => r = s

CodesInv == TypeOK /\ CallbacksOK /\ CodesOK /\ TokensOK /\ OneRedeemer

-----------------------------------------------------------------------------
(* What the codes promise, as a specification of its own. *)
Minted(c) == {<<r, Shown(r)>> : r \in {r \in Requests :
                                        tk[r].code = c /\ tk[r].signin # None}}

OneShot == INSTANCE OneShotCodes WITH
    Grants    <- CodeRecords,
    NoGrant   <- None,
    Proofs    <- LoginClaims,
    Rightful  <- Matches,
    grant     <- issued,
    live      <- {c \in Codes : store[c] # None /\ ~store[c].expired},
    redeemers <- [c \in Codes |-> Minted(c)]

(* Every behaviour of the endpoints, expiry, evictions and rejected calls   *)
(* included, is a behaviour of one-shot codes: a code mints one session at  *)
(* most, for a request that matches it, and never lives again.              *)
OneShotCode == OneShot!OneShotSpec

=============================================================================
