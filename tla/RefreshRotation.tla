-------------------------- MODULE RefreshRotation --------------------------
(***************************************************************************)
(* Refresh-token rotation in the OAuth gateway: the refresh_token branch   *)
(* of POST /token, POST /revoke, the refresh-grant store they share and    *)
(* the coordinator record that elects one leader per presented token.      *)
(*                                                                         *)
(* A request runs between two awaits without interruption, so one action   *)
(* is one stretch of code that ends in one call to the key-value store,    *)
(* the coordinator, the identity provider or the Vibecodr exchange.        *)
(* Requests of any number of isolates interleave at those calls.           *)
(*                                                                         *)
(* A definition MutantX is a fault seeded in X: no behaviour uses it, it   *)
(* shows that the properties below can fail.                               *)
(***************************************************************************)
EXTENDS Naturals

CONSTANTS
    Requests,       \* HTTP requests; each one is submitted at most once
    Tokens,         \* gateway refresh tokens (jti and secret together)
    InitialTokens,  \* those issued by the authorization-code grant at start
    Clients,        \* OAuth client ids
    Providers,      \* refresh tokens of the upstream identity provider
    None,           \* "no such value"
    MaxAttempts,    \* polls of awaitRefreshLeader (40 in the code)
    Coordinated,    \* TRUE: Durable Object; FALSE: the in-memory map of Node
    Faults          \* which of FaultKinds the environment may produce

FaultKinds == {"abort", "pending_ttl", "replay_ttl", "grant_ttl", "idp_ends"}

Grants    == [client: Clients, provider: Providers]
Responses == [client: Clients, refresh: Tokens \cup {None}, session: Requests]

ASSUME RefreshAssumption ==
    /\ InitialTokens \subseteq Tokens
    /\ None \notin Tokens \cup Clients \cup Providers \cup Grants \cup Responses
    /\ MaxAttempts \in Nat \ {0}
    /\ Coordinated \in BOOLEAN
    /\ Faults \subseteq FaultKinds

VARIABLES
    kv,      \* kv[t]: the grant stored for t, or None
    issued,  \* tokens ever issued
    coord,   \* coord[t]: the coordinator's record for t
    idp,     \* idp[p]: is provider token p unborn, live or spent
    req      \* req[r]: control point and locals of request r

vars == <<kv, issued, coord, idp, req>>

-----------------------------------------------------------------------------
(* Records *)

NoRecord == [kind |-> "none", response |-> None]
Pending  == [kind |-> "pending", response |-> None]
Replay(resp) == [kind |-> "replay", response |-> resp]

CoordRecords == {NoRecord, Pending} \cup {Replay(resp) : resp \in Responses}

ControlPoints ==
    {"idle", "begin", "get", "upstream", "exchange", "replace_get",
     "replace_put", "revoke_read", "revoke_delete", "revoke_clear",
     "complete", "fail", "idp_revoke", "done"}

Outcomes ==
    {"none", "ok", "busy", "unknown_token", "client_mismatch",
     "invalid_client", "upstream_rejected", "upstream_error",
     "exchange_error", "revoked", "aborted"}

RequestStates ==
    [pc: ControlPoints, token: Tokens \cup {None}, client: Clients \cup {None},
     attempts: 0 .. (MaxAttempts - 1), grant: Grants \cup {None},
     provider: Providers \cup {None}, rotated: Tokens \cup {None},
     next: {"complete", "fail", "idp_revoke"}, out: Outcomes,
     response: Responses \cup {None}]

Idle ==
    [pc |-> "idle", token |-> None, client |-> None, attempts |-> 0,
     grant |-> None, provider |-> None, rotated |-> None, next |-> "fail",
     out |-> "none", response |-> None]

(* Type invariant. *)
TypeOK ==
    /\ kv \in [Tokens -> Grants \cup {None}]
    /\ issued \in SUBSET Tokens
    /\ coord \in [Tokens -> CoordRecords]
    /\ idp \in [Providers -> {"unborn", "live", "spent"}]
    /\ req \in [Requests -> RequestStates]

Init ==
    /\ issued = InitialTokens
    /\ kv \in [Tokens -> Grants \cup {None}]
    /\ \A t \in Tokens : kv[t] # None <=> t \in InitialTokens
    /\ \A t, u \in InitialTokens : kv[t].provider = kv[u].provider => t = u
    /\ idp = [p \in Providers |->
                IF \E t \in InitialTokens : kv[t].provider = p
                THEN "live" ELSE "unborn"]
    /\ coord = [t \in Tokens |-> NoRecord]
    /\ req = [r \in Requests |-> Idle]

(* Tokens some client has been handed: only these are presented. *)
Delivered ==
    InitialTokens \cup
    {t \in Tokens : \E r \in Requests : req[r].out = "ok"
                                        /\ req[r].response.refresh = t}

Go(r, upd) == req' = [req EXCEPT ![r] = upd]

Tok(r) == req[r].token

(* r returns: its locals are gone, its answer remains. *)
Answer(r, out, resp) ==
    Go(r, [Idle EXCEPT !.pc = "done", !.token = Tok(r), !.client = req[r].client,
             !.next = req[r].next, !.out = out, !.response = resp])

-----------------------------------------------------------------------------
(* Requests arrive *)

(* POST /token with grant_type=refresh_token.  c is the client_id of the   *)
(* form, None when it is absent.                                           *)
SubmitRefresh(r) ==
    /\ req[r].pc = "idle"
    /\ \E t \in Delivered, c \in Clients \cup {None} :
         Go(r, [Idle EXCEPT !.pc = "begin", !.token = t, !.client = c])
    /\ UNCHANGED <<kv, issued, coord, idp>>

(* POST /revoke with a gateway refresh token. *)
SubmitRevoke(r) ==
    /\ req[r].pc = "idle"
    /\ \E t \in Delivered :
         Go(r, [Idle EXCEPT !.pc = "revoke_read", !.token = t, !.next = "idp_revoke"])
    /\ UNCHANGED <<kv, issued, coord, idp>>

-----------------------------------------------------------------------------
(* awaitRefreshLeader: poll the coordinator until leader or replay *)

MutantBeginLeader(r) ==
    /\ req[r].pc = "begin"
    /\ coord[Tok(r)].kind # "replay"
    /\ coord' = [coord EXCEPT ![Tok(r)] = Pending]
    /\ Go(r, [req[r] EXCEPT !.pc = "get"])
    /\ UNCHANGED <<kv, issued, idp>>
BeginLeader(r) ==
    /\ req[r].pc = "begin"
    /\ coord[Tok(r)].kind = "none"
    /\ coord' = [coord EXCEPT ![Tok(r)] = Pending]
    /\ Go(r, [req[r] EXCEPT !.pc = "get"])
    /\ UNCHANGED <<kv, issued, idp>>

(* Another leader is at work: wait 50 ms and ask again, 40 times. *)
BeginWait(r) ==
    /\ req[r].pc = "begin"
    /\ coord[Tok(r)].kind = "pending"
    /\ LET n == req[r].attempts + 1
       IN  IF n = MaxAttempts THEN Answer(r, "busy", None)
           ELSE Go(r, [req[r] EXCEPT !.attempts = n])
    /\ UNCHANGED <<kv, issued, coord, idp>>

(* What the client checks say when the token belongs to client c: the id   *)
(* of the form, or c itself, must be c; it may be unknown to the gateway,  *)
(* or its secret wrong.                                                    *)
ClientVerdicts(r, c) ==
    IF req[r].client \in {None, c} THEN {"ok", "invalid_client"}
                                   ELSE {"client_mismatch"}

(* A replay record answers at once, after the client checks. *)
MutantBeginReplay(r) ==
    /\ req[r].pc = "begin"
    /\ coord[Tok(r)].kind = "replay"
    /\ Answer(r, "ok", coord[Tok(r)].response)
    /\ UNCHANGED <<kv, issued, coord, idp>>
BeginReplay(r) ==
    /\ req[r].pc = "begin"
    /\ coord[Tok(r)].kind = "replay"
    /\ LET resp == coord[Tok(r)].response
       IN  \E verdict \in ClientVerdicts(r, resp.client) :
             Answer(r, verdict, IF verdict = "ok" THEN resp ELSE None)
    /\ UNCHANGED <<kv, issued, coord, idp>>

-----------------------------------------------------------------------------
(* The leader *)

FailWith(r, out) == [req[r] EXCEPT !.pc = "fail", !.out = out]

MutantGetGrant(r) ==
    /\ req[r].pc = "get"
    /\ LET g == kv[Tok(r)]
       IN  Go(r, IF g = None THEN FailWith(r, "unknown_token")
                 ELSE [req[r] EXCEPT !.pc = "upstream", !.grant = g])
    /\ UNCHANGED <<kv, issued, coord, idp>>
GetGrant(r) ==
    /\ req[r].pc = "get"
    /\ LET g == kv[Tok(r)]
       IN  \E verdict \in IF g = None THEN {"unknown_token"}
                                      ELSE ClientVerdicts(r, g.client) :
             Go(r, IF verdict = "ok" THEN [req[r] EXCEPT !.pc = "upstream", !.grant = g]
                                     ELSE FailWith(r, verdict))
    /\ UNCHANGED <<kv, issued, coord, idp>>

(* The provider accepts a live token and either rotates it or keeps it.    *)
(* A 200 without an access token ends the request all the same.            *)
UpstreamAccepts(r) ==
    /\ req[r].pc = "upstream"
    /\ LET p == req[r].grant.provider
       IN  /\ idp[p] = "live"
           /\ \E q \in Providers :
                /\ q = p \/ idp[q] = "unborn"
                /\ idp' = [[idp EXCEPT ![p] = "spent"] EXCEPT ![q] = "live"]
                /\ \/ Go(r, [req[r] EXCEPT !.pc = "exchange", !.provider = q])
                   \/ Go(r, FailWith(r, "upstream_error"))
    /\ UNCHANGED <<kv, issued, coord>>

(* error=invalid_grant from the provider: the grant is revoked, then failRefresh. *)
UpstreamRejects(r) ==
    /\ req[r].pc = "upstream"
    /\ idp[req[r].grant.provider] = "spent"
    /\ Go(r, [req[r] EXCEPT !.pc = "revoke_read", !.next = "fail",
                !.out = "upstream_rejected"])
    /\ UNCHANGED <<kv, issued, coord, idp>>

(* Any other upstream error. *)
UpstreamFails(r) ==
    /\ req[r].pc = "upstream"
    /\ Go(r, FailWith(r, "upstream_error"))
    /\ UNCHANGED <<kv, issued, coord, idp>>

ExchangeOk(r) ==
    /\ req[r].pc = "exchange"
    /\ Go(r, [req[r] EXCEPT !.pc = "replace_get"])
    /\ UNCHANGED <<kv, issued, coord, idp>>

(* The Vibecodr exchange failed: a retry will meet a spent provider token. *)
MutantExchangeFails(r) ==
    /\ req[r].pc = "exchange"
    /\ Answer(r, "exchange_error", None)
    /\ UNCHANGED <<kv, issued, coord, idp>>
ExchangeFails(r) ==
    /\ req[r].pc = "exchange"
    /\ Go(r, FailWith(r, "exchange_error"))
    /\ UNCHANGED <<kv, issued, coord, idp>>

-----------------------------------------------------------------------------
(* OAuthRefreshStore.replace and .revoke: four key-value and coordinator   *)
(* calls, each a separate await.                                           *)

ReplaceGet(r) ==
    /\ req[r].pc = "replace_get"
    /\ Go(r, [req[r] EXCEPT !.pc = IF kv[Tok(r)] = None THEN "complete"
                                                         ELSE "replace_put"])
    /\ UNCHANGED <<kv, issued, coord, idp>>

MutantReplacePut(r) ==
    /\ req[r].pc = "replace_put"
    /\ \E n \in {t \in Tokens : kv[t] = None} :
         /\ kv' = [kv EXCEPT ![n] = [client   |-> req[r].grant.client,
                                     provider |-> req[r].provider]]
         /\ issued' = issued \cup {n}
         /\ Go(r, [req[r] EXCEPT !.pc = "revoke_read", !.rotated = n,
                     !.next = "complete"])
    /\ UNCHANGED <<coord, idp>>
ReplacePut(r) ==
    /\ req[r].pc = "replace_put"
    /\ \E n \in Tokens \ issued :
         /\ kv' = [kv EXCEPT ![n] = [client   |-> req[r].grant.client,
                                     provider |-> req[r].provider]]
         /\ issued' = issued \cup {n}
         /\ Go(r, [req[r] EXCEPT !.pc = "revoke_read", !.rotated = n,
                     !.next = "complete"])
    /\ UNCHANGED <<coord, idp>>

MutantRevokeRead(r) ==
    /\ req[r].pc = "revoke_read"
    /\ kv[Tok(r)] # None
    /\ Go(r, [req[r] EXCEPT !.pc = "revoke_delete", !.grant = kv[Tok(r)]])
    /\ UNCHANGED <<kv, issued, coord, idp>>
RevokeRead(r) ==
    /\ req[r].pc = "revoke_read"
    /\ LET g == kv[Tok(r)]
       IN  Go(r, IF g = None THEN [req[r] EXCEPT !.pc = req[r].next]
                 ELSE [req[r] EXCEPT !.pc = "revoke_delete", !.grant = g])
    /\ UNCHANGED <<kv, issued, coord, idp>>

MutantRevokeDelete(r) ==
    /\ req[r].pc = "revoke_delete"
    /\ Go(r, [req[r] EXCEPT !.pc = "revoke_clear"])
    /\ UNCHANGED <<kv, issued, coord, idp>>
RevokeDelete(r) ==
    /\ req[r].pc = "revoke_delete"
    /\ kv' = [kv EXCEPT ![Tok(r)] = None]
    /\ Go(r, [req[r] EXCEPT !.pc = "revoke_clear"])
    /\ UNCHANGED <<issued, coord, idp>>

RevokeClear(r) ==
    /\ req[r].pc = "revoke_clear"
    /\ coord' = [coord EXCEPT ![Tok(r)] = NoRecord]
    /\ Go(r, [req[r] EXCEPT !.pc = req[r].next])
    /\ UNCHANGED <<kv, issued, idp>>

-----------------------------------------------------------------------------
(* The leader's last call, and the end of a revocation *)

(* A session is minted, the response recorded for replay and returned.     *)
(* The put is unconditional: it does not ask whether r still leads.        *)
Complete(r) ==
    /\ req[r].pc = "complete"
    /\ LET resp == [client  |-> req[r].grant.client,
                    refresh |-> req[r].rotated,
                    session |-> r]
       IN  /\ coord' = [coord EXCEPT ![Tok(r)] = Replay(resp)]
           /\ Answer(r, "ok", resp)
    /\ UNCHANGED <<kv, issued, idp>>

(* The coordinator's /refresh/fail deletes whatever record it finds; the   *)
(* in-memory failRefresh deletes a pending one only.                       *)
MutantAfterFail(record) == NoRecord
AfterFail(record) ==
    IF Coordinated \/ record.kind = "pending" THEN NoRecord ELSE record

Fail(r) ==
    /\ req[r].pc = "fail"
    /\ coord' = [coord EXCEPT ![Tok(r)] = AfterFail(@)]
    /\ Answer(r, req[r].out, None)
    /\ UNCHANGED <<kv, issued, idp>>

(* POST /revoke forwards the grant's provider token to the provider, which *)
(* may honour the call or not (or have no revocation endpoint).            *)
IdpRevoke(r) ==
    /\ req[r].pc = "idp_revoke"
    /\ \/ UNCHANGED idp
       \/ /\ req[r].grant # None
          /\ idp' = [idp EXCEPT ![req[r].grant.provider] = "spent"]
    /\ Answer(r, "revoked", None)
    /\ UNCHANGED <<kv, issued, coord>>

-----------------------------------------------------------------------------
(* The environment *)

(* A call rejects, or the isolate is evicted: nothing after it runs. *)
Abort(r) ==
    /\ "abort" \in Faults
    /\ req[r].pc \notin {"idle", "done"}
    /\ Answer(r, "aborted", None)
    /\ UNCHANGED <<kv, issued, coord, idp>>

(* 15 s after begin, or 120 s after complete, the record reads as absent. *)
ExpireRecord(t) ==
    /\ \/ coord[t].kind = "pending" /\ "pending_ttl" \in Faults
       \/ coord[t].kind = "replay" /\ "replay_ttl" \in Faults
    /\ coord' = [coord EXCEPT ![t] = NoRecord]
    /\ UNCHANGED <<kv, issued, idp, req>>

ExpireGrant(t) ==
    /\ "grant_ttl" \in Faults
    /\ kv[t] # None
    /\ kv' = [kv EXCEPT ![t] = None]
    /\ UNCHANGED <<issued, coord, idp, req>>

(* The provider ends a token on its own: sign-out, administrator, expiry. *)
IdpEnds(p) ==
    /\ "idp_ends" \in Faults
    /\ idp[p] = "live"
    /\ idp' = [idp EXCEPT ![p] = "spent"]
    /\ UNCHANGED <<kv, issued, coord, req>>

-----------------------------------------------------------------------------

Step(r) ==
    \/ BeginLeader(r) \/ BeginWait(r) \/ BeginReplay(r)
    \/ GetGrant(r)
    \/ UpstreamAccepts(r) \/ UpstreamRejects(r) \/ UpstreamFails(r)
    \/ ExchangeOk(r) \/ ExchangeFails(r)
    \/ ReplaceGet(r) \/ ReplacePut(r)
    \/ RevokeRead(r) \/ RevokeDelete(r) \/ RevokeClear(r)
    \/ Complete(r) \/ Fail(r) \/ IdpRevoke(r)

Environment ==
    \/ \E r \in Requests : SubmitRefresh(r) \/ SubmitRevoke(r) \/ Abort(r)
    \/ \E t \in Tokens : ExpireRecord(t) \/ ExpireGrant(t)
    \/ \E p \in Providers : IdpEnds(p)

Next == Environment \/ \E r \in Requests : Step(r)

Spec == Init /\ [][Next]_vars

(* A request that has started runs on: the event loop resumes every        *)
(* settled await.  Timers fire.  Nobody has to submit anything.            *)
FairSpec ==
    /\ Spec
    /\ \A r \in Requests : WF_vars(Step(r))
    /\ \A t \in Tokens : WF_vars(ExpireRecord(t))

-----------------------------------------------------------------------------
(* Safety *)

(* r holds the grant it read and is between that read and its write-back. *)
Exchanging(r) == req[r].pc \in {"upstream", "exchange", "replace_get", "replace_put"}

(* r was answered 200, by its own rotation or from the replay record. *)
Succeeded(r) == req[r].out = "ok"

(* At most one request at a time spends the provider token behind a        *)
(* gateway token: the leader election of the coordinator does its job as   *)
(* long as no pending record times out, even when revocations, grant       *)
(* expiry and failures delete records in between.                          *)
OneExchangePerToken ==
    \A r, s \in Requests :
        Exchanging(r) /\ Exchanging(s) /\ Tok(r) = Tok(s) => r = s

(* Every 200 for the same refresh token carries the same session and the   *)
(* same successor token, whoever asked and whenever: no token is rotated   *)
(* twice, and a replay returns the response of the one rotation.           *)
AllSuccessesAgree ==
    \A r, s \in Requests :
        Succeeded(r) /\ Succeeded(s) /\ Tok(r) = Tok(s)
        => req[r].response = req[s].response

(* A token for which somebody was answered 200, or would be from the       *)
(* replay record, can no longer be redeemed from the key-value store.      *)
SuccessMeansSpent ==
    /\ \A t \in Tokens : coord[t].kind = "replay" => kv[t] = None
    /\ \A r \in Requests : Succeeded(r) => kv[Tok(r)] = None

(* A client that names itself is only ever handed a session, or a          *)
(* successor token, that belongs to it.                                    *)
OwnClientOnly ==
    \A r \in Requests : Succeeded(r) =>
        LET resp == req[r].response
        IN  /\ req[r].client \in {None, resp.client}
            /\ resp.refresh # None /\ kv[resp.refresh] # None
               => kv[resp.refresh].client = resp.client

(* t can still turn into a session: it is stored, or replayable, or a      *)
(* request that read it has yet to finish.                                 *)
Redeemable(t) ==
    \/ kv[t] # None
    \/ coord[t].kind = "replay"
    \/ \E r \in Requests :
         /\ Tok(r) = t
         /\ \/ Exchanging(r)
            \/ req[r].pc = "complete"
            \/ req[r].pc \in {"revoke_read", "revoke_delete", "revoke_clear"}
               /\ req[r].next = "complete"

(* Once an issued token is revoked, rotated or expired and no refresh of   *)
(* it is under way, no later sequence of calls brings it back.             *)
DeadStaysDead ==
    [][\A t \in issued : ~Redeemable(t) => ~Redeemable(t)']_vars

(* The in-memory coordinator of the Node server loses a replay record only *)
(* to its time-to-live or to a revocation, never to a failing request.     *)
ReplayOutlivesFailures ==
    [][\A t \in Tokens :
         coord[t].kind = "replay" /\ coord'[t] # coord[t]
         => \/ req' = req
            \/ \E r \in Requests : /\ req[r].pc = "revoke_clear" /\ Tok(r) = t
                                  /\ req'[r] # req[r]]_vars

-----------------------------------------------------------------------------
(* The inductive invariant behind the safety properties *)

Revoking(r) == req[r].pc \in {"revoke_read", "revoke_delete", "revoke_clear"}

(* r was elected and has not yet given its leadership up. *)
Leading(r) ==
    \/ req[r].pc \in {"get", "fail"} \/ Exchanging(r)
    \/ Revoking(r) /\ req[r].next \in {"complete", "fail"}

(* r minted the session of its own answer. *)
Minted(r) == Succeeded(r) /\ req[r].response.session = r

(* r redeemed a stored grant: it is on the way to a 200, or got there. *)
Redeeming(r) ==
    \/ Exchanging(r) \/ req[r].pc = "complete" \/ Minted(r)
    \/ Revoking(r) /\ req[r].next = "complete"

(* Locals are set where they are used, and name issued tokens only. *)
LocalsOK ==
    \A r \in Requests :
        /\ req[r].pc # "idle" => Tok(r) \in issued
        /\ Succeeded(r) => req[r].pc = "done" /\ req[r].response # None
        /\ req[r].pc \in {"revoke_delete", "revoke_clear"} => req[r].grant # None
        /\ Redeeming(r) /\ ~Minted(r) => req[r].grant # None
        /\ req[r].pc \in {"exchange", "replace_get", "replace_put"}
           => req[r].provider # None
        /\ req[r].rotated \in issued \cup {None}
        /\ req[r].response # None => req[r].response.refresh \in issued \cup {None}

(* A token is stored, or has a record, only after it was issued. *)
IssuedOK ==
    /\ InitialTokens \subseteq issued
    /\ \A t \in Tokens :
        /\ kv[t] # None => t \in issued
        /\ coord[t].kind # "none" => t \in issued
        /\ coord[t].kind = "replay"
           => coord[t].response # None
              /\ coord[t].response.refresh \in issued \cup {None}

(* The grant is gone before its replay record can be written or cleared. *)
DeletedFirst ==
    \A r \in Requests :
        req[r].pc \in {"complete", "revoke_clear"} => kv[Tok(r)] = None

BaseInv == TypeOK /\ LocalsOK /\ IssuedOK /\ DeletedFirst /\ SuccessMeansSpent

Owed(r) == Redeeming(r) /\ ~Minted(r)

(* The successor in resp, as long as it is stored, is a grant of resp's client. *)
OfItsClient(resp) ==
    resp.refresh # None /\ kv[resp.refresh] # None
    => kv[resp.refresh].client = resp.client

(* A request holds the grant that is stored, or was; its client is the     *)
(* owner of that grant, and so are the successor it stored and its answer. *)
HoldsItsClients(r) ==
    /\ req[r].grant # None
       => Tok(r) \in issued /\ kv[Tok(r)] \in {None, req[r].grant}
    /\ req[r].pc \in {"begin", "get"} => req[r].rotated = None
    /\ Owed(r) => /\ req[r].client \in {None, req[r].grant.client}
                  /\ req[r].rotated # None /\ kv[req[r].rotated] # None
                     => kv[req[r].rotated].client = req[r].grant.client
    /\ Succeeded(r) => /\ req[r].client \in {None, req[r].response.client}
                       /\ OfItsClient(req[r].response)

ClientsInv ==
    /\ BaseInv
    /\ \A r \in Requests : HoldsItsClients(r)
    /\ \A t \in Tokens : coord[t].kind = "replay" => OfItsClient(coord[t].response)

(* While a token is stored, its pending record belongs to its one leader. *)
LeaderHoldsRecord ==
    \A r \in Requests :
        Leading(r) /\ kv[Tok(r)] # None => coord[Tok(r)].kind = "pending"

OneLeader ==
    \A r, s \in Requests :
        Leading(r) /\ Leading(s) /\ Tok(r) = Tok(s) /\ kv[Tok(r)] # None => r = s

OneRedeemer ==
    \A r, s \in Requests :
        Redeeming(r) /\ Redeeming(s) /\ Tok(r) = Tok(s) => r = s

(* resp is the response of the request that minted the session in it. *)
Authentic(resp, t) ==
    LET s == resp.session
    IN  Minted(s) /\ Tok(s) = t /\ req[s].response = resp

ResponsesAuthentic ==
    /\ \A r \in Requests : Succeeded(r) => Authentic(req[r].response, Tok(r))
    /\ \A t \in Tokens : coord[t].kind = "replay" => Authentic(coord[t].response, t)

(* Inductive when no pending record times out. *)
SingleFlightInv ==
    /\ BaseInv
    /\ LeaderHoldsRecord /\ OneLeader /\ OneRedeemer /\ ResponsesAuthentic

-----------------------------------------------------------------------------
(* Liveness *)

(* Every request is answered, whatever the others do. *)
EveryRequestAnswered ==
    \A r \in Requests : req[r].pc # "idle" ~> req[r].pc = "done"

(* Leadership of a token is always given up: every early return of the     *)
(* leader releases the pending record it wrote.                            *)
LeadershipReleased ==
    \A t \in Tokens : coord[t].kind = "pending" ~> coord[t].kind # "pending"

-----------------------------------------------------------------------------
(* What the documentation promises *)

Revoked(t) == \E r \in Requests : Tok(r) = t /\ req[r].next = "idp_revoke"

(* "a duplicate refresh attempt should replay the successful response      *)
(* instead of invalidating the session": a token that was refreshed with   *)
(* success and never revoked is not answered invalid_grant.                *)
DuplicateIsReplayed ==
    \A r, s \in Requests :
        /\ Succeeded(r) /\ Tok(s) = Tok(r) /\ ~Revoked(Tok(r))
        /\ req[s].pc = "done"
        => req[s].out # "unknown_token"

(* "long-lived authorization only breaks if the user disconnects, the      *)
(* gateway revokes the session, or the upstream refresh token becomes      *)
(* invalid": once all requests are answered, a provider token that is live *)
(* is stored in a grant.  Set aside is a provider that failed itself, or   *)
(* answered without an access token: nothing but the Vibecodr exchange can *)
(* have gone wrong after the provider's answer.                            *)
LiveAuthorizationKept ==
    /\ \A r \in Requests : req[r].pc \in {"idle", "done"}
    /\ \A r \in Requests : req[r].out # "upstream_error"
    /\ \A t \in Tokens : ~Revoked(t)
    => \A p \in Providers : idp[p] = "live" =>
         \E t \in Tokens : kv[t] # None /\ kv[t].provider = p

=============================================================================
