----------------------- MODULE RefreshRotationProofs -----------------------
(***************************************************************************)
(* Proofs about RefreshRotation, for every set of requests, tokens,        *)
(* clients and provider tokens, for both coordinators and, but for         *)
(* SingleWinner, under every combination of faults.                        *)
(***************************************************************************)
EXTENDS RefreshRotation, TLAPS

(* One request moves: the record of every other request stays as it is.    *)
LEMMA GoOther ==
    ASSUME TypeOK, NEW r \in Requests, NEW s \in Requests, NEW v, Go(r, v)
    PROVE  req'[s] = IF s = r THEN v ELSE req[s]
BY DEF TypeOK, Go

LEMMA IdleType == Idle \in RequestStates
BY RefreshAssumption DEF Idle, RequestStates, ControlPoints, Outcomes

LEMMA AnswerType ==
    ASSUME TypeOK, NEW r \in Requests, NEW out \in Outcomes,
           NEW resp \in Responses \cup {None}, Answer(r, out, resp)
    PROVE  req' \in [Requests -> RequestStates]
<1>1. req[r] \in RequestStates
  BY DEF TypeOK
<1> DEFINE v == [Idle EXCEPT !.pc = "done", !.token = Tok(r), !.client = req[r].client,
                   !.next = req[r].next, !.out = out, !.response = resp]
<1>2. v \in RequestStates
  <2>2. /\ Tok(r) \in Tokens \cup {None}
        /\ req[r].client \in Clients \cup {None}
        /\ req[r].next \in {"complete", "fail", "idp_revoke"}
    BY <1>1 DEF RequestStates, Tok
  <2>4. "done" \in ControlPoints
    BY DEF ControlPoints
  <2>. QED
    BY <2>2, <2>4, IdleType DEF RequestStates
<1>3. req' = [req EXCEPT ![r] = v]
  BY DEF Answer, Go
<1>. HIDE DEF v
<1>. QED
  BY <1>2, <1>3 DEF TypeOK

LEMMA TypeInit == Init => TypeOK
<1> SUFFICES ASSUME Init PROVE TypeOK
  OBVIOUS
<1>1. req \in [Requests -> RequestStates]
  BY IdleType DEF Init
<1>2. coord \in [Tokens -> CoordRecords]
  BY DEF Init, CoordRecords
<1>3. issued \in SUBSET Tokens
  BY RefreshAssumption DEF Init
<1>. QED
  BY <1>1, <1>2, <1>3 DEF Init, TypeOK

LEMMA AtType == ASSUME TypeOK, NEW r \in Requests PROVE req[r] \in RequestStates
BY DEF TypeOK

LEMMA Labels ==
    /\ {"begin", "get", "upstream", "exchange", "replace_get", "replace_put",
        "revoke_read", "revoke_delete", "revoke_clear", "complete", "fail",
        "idp_revoke", "done"} \subseteq ControlPoints
    /\ {"ok", "busy", "unknown_token", "client_mismatch", "invalid_client",
        "upstream_rejected", "upstream_error", "exchange_error", "revoked",
        "aborted"} \subseteq Outcomes
BY DEF ControlPoints, Outcomes

LEMMA GoType ==
    ASSUME TypeOK, NEW r \in Requests, NEW v \in RequestStates, Go(r, v)
    PROVE  req' \in [Requests -> RequestStates]
BY DEF TypeOK, Go

(* What is left of a request that was answered. *)
LEMMA AnswerFields ==
    ASSUME TypeOK, NEW r \in Requests, NEW out \in Outcomes,
           NEW resp \in Responses \cup {None}, Answer(r, out, resp)
    PROVE  /\ req'[r].pc = "done" /\ req'[r].out = out /\ req'[r].response = resp
           /\ req'[r].token = req[r].token /\ req'[r].client = req[r].client
           /\ req'[r].next = req[r].next
           /\ req'[r].rotated = None /\ req'[r].grant = None
           /\ \A s \in Requests : s # r => req'[s] = req[s]
BY DEF TypeOK, Answer, Go, Idle, Tok

(* A started request has a token, and grants and responses are not None. *)
LEMMA TypeStep == TypeOK /\ LocalsOK /\ IssuedOK /\ [Next]_vars => TypeOK'
<1> SUFFICES ASSUME TypeOK, LocalsOK, IssuedOK, [Next]_vars
             PROVE  TypeOK'
  OBVIOUS
<1> USE DEF TypeOK
<1>1. ASSUME NEW r \in Requests, SubmitRefresh(r)
      PROVE  TypeOK'
  <2>1. PICK t \in Delivered, c \in Clients \cup {None} :
          Go(r, [Idle EXCEPT !.pc = "begin", !.token = t, !.client = c])
    BY <1>1 DEF SubmitRefresh
  <2>2. t \in Tokens
    BY RefreshAssumption DEF Delivered
  <2>3. [Idle EXCEPT !.pc = "begin", !.token = t, !.client = c] \in RequestStates
    BY <2>2, IdleType DEF RequestStates, ControlPoints
  <2>. QED
    BY <1>1, <2>1, <2>3 DEF SubmitRefresh, Go
<1>2. ASSUME NEW r \in Requests, SubmitRevoke(r)
      PROVE  TypeOK'
  <2>1. PICK t \in Delivered :
          Go(r, [Idle EXCEPT !.pc = "revoke_read", !.token = t, !.next = "idp_revoke"])
    BY <1>2 DEF SubmitRevoke
  <2>2. t \in Tokens
    BY RefreshAssumption DEF Delivered
  <2>3. [Idle EXCEPT !.pc = "revoke_read", !.token = t, !.next = "idp_revoke"] \in RequestStates
    BY <2>2, IdleType DEF RequestStates, ControlPoints
  <2>. QED
    BY <1>2, <2>1, <2>3 DEF SubmitRevoke, Go
<1>3. ASSUME NEW r \in Requests, BeginLeader(r)
      PROVE  TypeOK'
  <2>1. [req[r] EXCEPT !.pc = "get"] \in RequestStates
    BY AtType, Labels DEF RequestStates
  <2>2. req' \in [Requests -> RequestStates]
    BY <1>3, <2>1, GoType DEF BeginLeader
  <2>3. coord' \in [Tokens -> CoordRecords]
    BY <1>3 DEF BeginLeader, CoordRecords
  <2>. QED
    BY <1>3, <2>2, <2>3 DEF BeginLeader
<1>4. ASSUME NEW r \in Requests, BeginWait(r)
      PROVE  TypeOK'
  <2>1. CASE req[r].attempts + 1 = MaxAttempts
    <3>1. Answer(r, "busy", None)
      BY <1>4, <2>1 DEF BeginWait
    <3>. QED
      BY <1>4, <3>1, AnswerType DEF BeginWait, Outcomes
  <2>2. CASE req[r].attempts + 1 # MaxAttempts
    <3>1. Go(r, [req[r] EXCEPT !.attempts = req[r].attempts + 1])
      BY <1>4, <2>2 DEF BeginWait
    <3>2. req[r] \in RequestStates
      OBVIOUS
    <3>3. req[r].attempts + 1 \in 0 .. (MaxAttempts - 1)
      BY <2>2, <3>2, RefreshAssumption DEF RequestStates
    <3>4. [req[r] EXCEPT !.attempts = req[r].attempts + 1] \in RequestStates
      BY <3>2, <3>3 DEF RequestStates
    <3>. QED
      BY <1>4, <3>1, <3>4, GoType DEF BeginWait
  <2>. QED
    BY <2>1, <2>2
<1>5. ASSUME NEW r \in Requests, BeginReplay(r)
      PROVE  TypeOK'
  <2>1. coord[Tok(r)].kind = "replay"
    BY <1>5 DEF BeginReplay
  <2>2. Tok(r) \in Tokens
    BY <1>5, RefreshAssumption DEF BeginReplay, LocalsOK
  <2>3. coord[Tok(r)].response \in Responses
    BY <2>1, <2>2 DEF CoordRecords, NoRecord, Pending, Replay
  <2>4. PICK verdict \in ClientVerdicts(r, coord[Tok(r)].response.client) :
          Answer(r, verdict, IF verdict = "ok" THEN coord[Tok(r)].response ELSE None)
    BY <1>5 DEF BeginReplay
  <2>5. verdict \in Outcomes
    BY DEF ClientVerdicts, Outcomes
  <2>. QED
    BY <1>5, <2>3, <2>4, <2>5, AnswerType DEF BeginReplay
<1>6. ASSUME NEW r \in Requests, GetGrant(r)
      PROVE  TypeOK'
  <2>1. kv[Tok(r)] \in Grants \cup {None}
    BY <1>6 DEF GetGrant, LocalsOK
  <2>2. PICK verdict \in IF kv[Tok(r)] = None THEN {"unknown_token"}
                         ELSE ClientVerdicts(r, kv[Tok(r)].client) :
          Go(r, IF verdict = "ok" THEN [req[r] EXCEPT !.pc = "upstream", !.grant = kv[Tok(r)]]
                                  ELSE FailWith(r, verdict))
    BY <1>6 DEF GetGrant
  <2>3. verdict \in Outcomes
    BY DEF ClientVerdicts, Outcomes
  <2>4. [req[r] EXCEPT !.pc = "upstream", !.grant = kv[Tok(r)]] \in RequestStates
    BY <2>1, AtType, Labels, ZenonT(30) DEF RequestStates
  <2>5. FailWith(r, verdict) \in RequestStates
    BY <2>3, AtType, Labels, ZenonT(30) DEF RequestStates, FailWith
  <2>. QED
    BY <1>6, <2>2, <2>4, <2>5, GoType DEF GetGrant
<1>7. ASSUME NEW r \in Requests, UpstreamAccepts(r)
      PROVE  TypeOK'
  <2> DEFINE p == req[r].grant.provider
  <2>1. PICK q \in Providers :
          /\ idp' = [[idp EXCEPT ![p] = "spent"] EXCEPT ![q] = "live"]
          /\ \/ Go(r, [req[r] EXCEPT !.pc = "exchange", !.provider = q])
             \/ Go(r, FailWith(r, "upstream_error"))
    BY <1>7 DEF UpstreamAccepts
  <2>2. [req[r] EXCEPT !.pc = "exchange", !.provider = q] \in RequestStates
    BY AtType, Labels, ZenonT(30) DEF RequestStates
  <2>5. FailWith(r, "upstream_error") \in RequestStates
    BY AtType, Labels, ZenonT(30) DEF RequestStates, FailWith
  <2>3. req' \in [Requests -> RequestStates]
    BY <2>1, <2>2, <2>5, GoType
  <2>4. idp' \in [Providers -> {"unborn", "live", "spent"}]
    BY <2>1
  <2>. QED
    BY <1>7, <2>3, <2>4 DEF UpstreamAccepts
<1>8. ASSUME NEW r \in Requests, UpstreamRejects(r)
      PROVE  TypeOK'
  <2>1. [req[r] EXCEPT !.pc = "revoke_read", !.next = "fail",
                       !.out = "upstream_rejected"] \in RequestStates
    BY AtType, Labels, ZenonT(30) DEF RequestStates
  <2>. QED
    BY <1>8, <2>1, GoType DEF UpstreamRejects
<1>9. ASSUME NEW r \in Requests, UpstreamFails(r)
      PROVE  TypeOK'
  <2>1. FailWith(r, "upstream_error") \in RequestStates
    BY AtType, Labels, ZenonT(30) DEF RequestStates, FailWith
  <2>. QED
    BY <1>9, <2>1, GoType DEF UpstreamFails
<1>10. ASSUME NEW r \in Requests, ExchangeOk(r)
      PROVE  TypeOK'
  <2>1. [req[r] EXCEPT !.pc = "replace_get"] \in RequestStates
    BY AtType, Labels DEF RequestStates
  <2>. QED
    BY <1>10, <2>1, GoType DEF ExchangeOk
<1>11. ASSUME NEW r \in Requests, ExchangeFails(r)
      PROVE  TypeOK'
  <2>1. FailWith(r, "exchange_error") \in RequestStates
    BY AtType, Labels, ZenonT(30) DEF RequestStates, FailWith
  <2>. QED
    BY <1>11, <2>1, GoType DEF ExchangeFails
<1>12. ASSUME NEW r \in Requests, ReplaceGet(r)
      PROVE  TypeOK'
  <2>1. [req[r] EXCEPT !.pc = IF kv[Tok(r)] = None THEN "complete"
                                                  ELSE "replace_put"] \in RequestStates
    BY AtType, Labels DEF RequestStates
  <2>. QED
    BY <1>12, <2>1, GoType DEF ReplaceGet
<1>13. ASSUME NEW r \in Requests, ReplacePut(r)
      PROVE  TypeOK'
  <2> DEFINE g == [client |-> req[r].grant.client, provider |-> req[r].provider]
  <2>1. PICK n \in Tokens \ issued :
          /\ kv' = [kv EXCEPT ![n] = g]
          /\ issued' = issued \cup {n}
          /\ Go(r, [req[r] EXCEPT !.pc = "revoke_read", !.rotated = n, !.next = "complete"])
    BY <1>13 DEF ReplacePut
  <2>2. g \in Grants
    BY <1>13, AtType DEF ReplacePut, LocalsOK, Redeeming, Exchanging, Minted, Succeeded,
       RequestStates, Grants
  <2>3. [req[r] EXCEPT !.pc = "revoke_read", !.rotated = n, !.next = "complete"]
          \in RequestStates
    BY AtType, Labels, ZenonT(30) DEF RequestStates
  <2>4. req' \in [Requests -> RequestStates]
    BY <2>1, <2>3, GoType
  <2>. HIDE DEF g
  <2>. QED
    BY <1>13, <2>1, <2>2, <2>4 DEF ReplacePut
<1>14. ASSUME NEW r \in Requests, RevokeRead(r)
      PROVE  TypeOK'
  <2>1. kv[Tok(r)] \in Grants \cup {None}
    BY <1>14 DEF RevokeRead, LocalsOK
  <2>2. [req[r] EXCEPT !.pc = req[r].next] \in RequestStates
    BY AtType, Labels DEF RequestStates
  <2>3. [req[r] EXCEPT !.pc = "revoke_delete", !.grant = kv[Tok(r)]] \in RequestStates
    BY <2>1, AtType, Labels, ZenonT(30) DEF RequestStates
  <2>. QED
    BY <1>14, <2>2, <2>3, GoType DEF RevokeRead
<1>15. ASSUME NEW r \in Requests, RevokeDelete(r)
      PROVE  TypeOK'
  <2>1. [req[r] EXCEPT !.pc = "revoke_clear"] \in RequestStates
    BY AtType, Labels DEF RequestStates
  <2>. QED
    BY <1>15, <2>1, GoType DEF RevokeDelete
<1>16. ASSUME NEW r \in Requests, RevokeClear(r)
      PROVE  TypeOK'
  <2>1. [req[r] EXCEPT !.pc = req[r].next] \in RequestStates
    BY AtType, Labels DEF RequestStates
  <2>2. coord' \in [Tokens -> CoordRecords]
    BY <1>16 DEF RevokeClear, CoordRecords
  <2>. QED
    BY <1>16, <2>1, <2>2, GoType DEF RevokeClear
<1>17. ASSUME NEW r \in Requests, Complete(r)
      PROVE  TypeOK'
  <2> DEFINE resp == [client |-> req[r].grant.client, refresh |-> req[r].rotated,
                      session |-> r]
  <2>1. /\ coord' = [coord EXCEPT ![Tok(r)] = Replay(resp)]
        /\ Answer(r, "ok", resp)
    BY <1>17 DEF Complete
  <2>2. resp \in Responses
    BY <1>17, AtType DEF Complete, LocalsOK, Redeeming, Minted, Succeeded, RequestStates,
       Grants, Responses
  <2>. HIDE DEF resp
  <2>3. coord' \in [Tokens -> CoordRecords]
    BY <2>1, <2>2 DEF CoordRecords
  <2>. QED
    BY <1>17, <2>1, <2>2, <2>3, AnswerType, Labels DEF Complete
<1>18. ASSUME NEW r \in Requests, Fail(r)
      PROVE  TypeOK'
  <2>1. coord' \in [Tokens -> CoordRecords]
    BY <1>18 DEF Fail, AfterFail, CoordRecords
  <2>2. req[r].out \in Outcomes
    BY AtType DEF RequestStates
  <2>. QED
    BY <1>18, <2>1, <2>2, AnswerType DEF Fail
<1>19. ASSUME NEW r \in Requests, IdpRevoke(r)
      PROVE  TypeOK'
  <2>1. idp' \in [Providers -> {"unborn", "live", "spent"}]
    BY <1>19 DEF IdpRevoke
  <2>. QED
    BY <1>19, <2>1, AnswerType, Labels DEF IdpRevoke
<1>20. ASSUME NEW r \in Requests, Abort(r)
      PROVE  TypeOK'
  BY <1>20, AnswerType, Labels DEF Abort
<1>21. ASSUME NEW t \in Tokens, ExpireRecord(t)
      PROVE  TypeOK'
  BY <1>21 DEF ExpireRecord, CoordRecords
<1>22. ASSUME NEW t \in Tokens, ExpireGrant(t)
      PROVE  TypeOK'
  BY <1>22 DEF ExpireGrant
<1>23. ASSUME NEW p \in Providers, IdpEnds(p)
      PROVE  TypeOK'
  BY <1>23 DEF IdpEnds
<1>24. CASE UNCHANGED vars
  BY <1>24 DEF vars
<1>. QED
  BY <1>1, <1>2, <1>3, <1>4, <1>5, <1>6, <1>7, <1>8, <1>9, <1>10, <1>11, <1>12, <1>13,
     <1>14, <1>15, <1>16, <1>17, <1>18, <1>19, <1>20, <1>21, <1>22, <1>23, <1>24
     DEF Next, Environment, Step

-----------------------------------------------------------------------------
(* The invariant that holds under every combination of faults *)

Rest == LocalsOK /\ IssuedOK /\ DeletedFirst /\ SuccessMeansSpent

(* An answer other than 200 disturbs nothing, whether or not the record of *)
(* its token is dropped with it.                                           *)
LEMMA RefusalStep ==
    ASSUME BaseInv, NEW r \in Requests, req[r].pc # "idle",
           NEW out \in Outcomes \ {"ok"}, Answer(r, out, None),
           UNCHANGED <<kv, issued>>,
           \A t \in Tokens : coord'[t] \in {coord[t], NoRecord}
    PROVE  Rest'
<1> USE DEF BaseInv
<1>1. /\ req'[r].pc = "done" /\ req'[r].out = out /\ req'[r].response = None
      /\ req'[r].token = req[r].token /\ req'[r].rotated = None
      /\ \A s \in Requests : s # r => req'[s] = req[s]
  BY AnswerFields
<1>2. LocalsOK'
  BY <1>1 DEF LocalsOK, Redeeming, Exchanging, Revoking, Minted, Succeeded, Tok
<1>3. IssuedOK'
  BY DEF IssuedOK, NoRecord
<1>4. DeletedFirst'
  BY <1>1 DEF DeletedFirst, Tok
<1>5. SuccessMeansSpent'
  BY <1>1 DEF SuccessMeansSpent, Succeeded, Tok, NoRecord
<1>. QED
  BY <1>2, <1>3, <1>4, <1>5 DEF Rest

(* A 200, from the replay record or fresh from a rotation whose token is   *)
(* deleted, keeps the invariant if its response is recorded at most.       *)
LEMMA SuccessStep ==
    ASSUME BaseInv, NEW r \in Requests, req[r].pc # "idle",
           NEW resp \in Responses, Answer(r, "ok", resp), kv[Tok(r)] = None,
           resp.refresh \in issued \cup {None}, UNCHANGED <<kv, issued>>,
           coord' \in {coord, [coord EXCEPT ![Tok(r)] = Replay(resp)]}
    PROVE  Rest'
<1> USE RefreshAssumption DEF BaseInv
<1>1. /\ req'[r].pc = "done" /\ req'[r].out = "ok" /\ req'[r].response = resp
      /\ req'[r].token = req[r].token /\ req'[r].rotated = None
      /\ \A s \in Requests : s # r => req'[s] = req[s]
  BY AnswerFields, Labels
<1>2. LocalsOK'
  <2> SUFFICES ASSUME NEW s \in Requests
               PROVE  (/\ req[s].pc # "idle" => Tok(s) \in issued
                       /\ Succeeded(s) => req[s].pc = "done" /\ req[s].response # None
                       /\ req[s].pc \in {"revoke_delete", "revoke_clear"} => req[s].grant # None
                       /\ Redeeming(s) /\ ~Minted(s) => req[s].pc = "done" \/ req[s].grant # None
                       /\ req[s].pc \in {"exchange", "replace_get", "replace_put"}
                          => req[s].provider # None
                       /\ req[s].rotated \in issued \cup {None}
                       /\ req[s].response # None
                          => req[s].response.refresh \in issued \cup {None})'
    BY <1>1 DEF LocalsOK, Redeeming, Exchanging, Revoking
  <2>1. CASE s = r
    BY <1>1, <2>1 DEF LocalsOK, Redeeming, Exchanging, Revoking, Minted, Succeeded, Tok
  <2>2. CASE s # r
    BY <1>1, <2>2 DEF LocalsOK, Redeeming, Exchanging, Revoking, Minted, Succeeded, Tok
  <2>. QED
    BY <2>1, <2>2
<1>3. Tok(r) \in issued
  BY DEF LocalsOK
<1>4. \A t \in Tokens : coord'[t] = coord[t] \/ (t = Tok(r) /\ coord'[t] = Replay(resp))
  BY DEF TypeOK
<1>5. IssuedOK'
  BY <1>3, <1>4 DEF IssuedOK, Replay
<1>6. DeletedFirst'
  BY <1>1 DEF DeletedFirst, Tok
<1>7. SuccessMeansSpent'
  BY <1>1, <1>4 DEF SuccessMeansSpent, Succeeded, Tok, Replay
<1>. QED
  BY <1>2, <1>5, <1>6, <1>7 DEF Rest

LEMMA DeliveredIssued == BaseInv => Delivered \subseteq issued
BY RefreshAssumption DEF BaseInv, LocalsOK, IssuedOK, Delivered, Succeeded

(* The step of r changes r alone; what is asked of r is in the action. *)
LEMMA BaseStep == BaseInv /\ [Next]_vars => BaseInv'
<1> SUFFICES ASSUME BaseInv, [Next]_vars PROVE BaseInv'
  OBVIOUS
<1>0. TypeOK'
  BY TypeStep DEF BaseInv
<1>1. ASSUME NEW r \in Requests, SubmitRefresh(r) PROVE Rest'
  <2>1. PICK t \in Delivered, c \in Clients \cup {None} :
          Go(r, [Idle EXCEPT !.pc = "begin", !.token = t, !.client = c])
    BY <1>1 DEF SubmitRefresh
  <2>2. t \in issued
    BY DeliveredIssued
  <2>3. /\ req'[r].pc = "begin" /\ req'[r].token = t /\ req'[r].out = "none"
        /\ req'[r].rotated = None /\ req'[r].response = None
        /\ \A s \in Requests : s # r => req'[s] = req[s]
    BY <2>1 DEF BaseInv, TypeOK, Go, Idle
  <2>. QED
    BY <1>1, <2>2, <2>3 DEF SubmitRefresh, Rest, BaseInv, LocalsOK, IssuedOK,
       DeletedFirst, SuccessMeansSpent, Redeeming, Exchanging, Revoking, Minted,
       Succeeded, Tok
<1>2. ASSUME NEW r \in Requests, SubmitRevoke(r) PROVE Rest'
  <2>1. PICK t \in Delivered :
          Go(r, [Idle EXCEPT !.pc = "revoke_read", !.token = t, !.next = "idp_revoke"])
    BY <1>2 DEF SubmitRevoke
  <2>2. t \in issued
    BY DeliveredIssued
  <2>3. /\ req'[r].pc = "revoke_read" /\ req'[r].token = t /\ req'[r].out = "none"
        /\ req'[r].next = "idp_revoke" /\ req'[r].rotated = None
        /\ req'[r].response = None
        /\ \A s \in Requests : s # r => req'[s] = req[s]
    BY <2>1 DEF BaseInv, TypeOK, Go, Idle
  <2>. QED
    BY <1>2, <2>2, <2>3 DEF SubmitRevoke, Rest, BaseInv, LocalsOK, IssuedOK,
       DeletedFirst, SuccessMeansSpent, Redeeming, Exchanging, Revoking, Minted,
       Succeeded, Tok
<1>3. ASSUME NEW r \in Requests, BeginLeader(r) PROVE Rest'
  <2>1. req'[r].pc = "get" /\ req' = [req EXCEPT ![r].pc = "get"]
    BY <1>3 DEF BeginLeader, BaseInv, TypeOK, Go
  <2>2. \A t \in Tokens : \/ coord'[t] = coord[t]
                          \/ t = Tok(r) /\ coord'[t].kind = "pending"
    BY <1>3 DEF BeginLeader, BaseInv, TypeOK, Pending
  <2>3. LocalsOK'
    BY <1>3, <2>1 DEF BeginLeader, BaseInv, TypeOK, RequestStates, LocalsOK,
       Redeeming, Exchanging, Revoking, Minted, Succeeded, Tok
  <2>6. DeletedFirst'
    BY <1>3, <2>1 DEF BeginLeader, BaseInv, TypeOK, RequestStates, DeletedFirst, Tok
  <2>4. IssuedOK'
    BY <1>3, <2>2 DEF BeginLeader, BaseInv, LocalsOK, IssuedOK
  <2>5. SuccessMeansSpent'
    BY <1>3, <2>1, <2>2 DEF BeginLeader, BaseInv, TypeOK, RequestStates,
       SuccessMeansSpent, Succeeded, Tok
  <2>. QED
    BY <2>3, <2>4, <2>5, <2>6 DEF Rest
<1>4. ASSUME NEW r \in Requests, BeginWait(r) PROVE Rest'
  <2>1. CASE Answer(r, "busy", None)
    BY <1>4, <2>1, RefusalStep, Labels DEF BeginWait
  <2>2. CASE Go(r, [req[r] EXCEPT !.attempts = req[r].attempts + 1])
    <3>1. \A s \in Requests :
            /\ req'[s].pc = req[s].pc /\ req'[s].token = req[s].token
            /\ req'[s].next = req[s].next /\ req'[s].out = req[s].out
            /\ req'[s].grant = req[s].grant /\ req'[s].provider = req[s].provider
            /\ req'[s].rotated = req[s].rotated /\ req'[s].response = req[s].response
      BY <2>2 DEF BaseInv, TypeOK, RequestStates, Go
    <3>. QED
      BY <1>4, <3>1 DEF BeginWait, Rest, BaseInv, LocalsOK, IssuedOK, DeletedFirst,
         SuccessMeansSpent, Redeeming, Exchanging, Revoking, Minted, Succeeded, Tok
  <2>. QED
    BY <1>4, <2>1, <2>2 DEF BeginWait
<1>5. ASSUME NEW r \in Requests, BeginReplay(r) PROVE Rest'
  <2> DEFINE resp == coord[Tok(r)].response
  <2>1. Tok(r) \in Tokens /\ coord[Tok(r)].kind = "replay"
    BY <1>5, RefreshAssumption DEF BeginReplay, BaseInv, TypeOK, LocalsOK
  <2>2. /\ resp \in Responses /\ resp.refresh \in issued \cup {None}
        /\ kv[Tok(r)] = None
    BY <2>1 DEF BaseInv, TypeOK, IssuedOK, SuccessMeansSpent, CoordRecords, NoRecord,
       Pending, Replay
  <2>3. PICK verdict \in ClientVerdicts(r, resp.client) :
          Answer(r, verdict, IF verdict = "ok" THEN resp ELSE None)
    BY <1>5 DEF BeginReplay
  <2>4. verdict = "ok" \/ verdict \in Outcomes \ {"ok"}
    BY Labels DEF ClientVerdicts
  <2>5. req[r].pc # "idle" /\ UNCHANGED <<kv, issued, coord>>
    BY <1>5 DEF BeginReplay
  <2>. HIDE DEF resp
  <2>6. CASE verdict = "ok"
    BY <2>2, <2>3, <2>5, <2>6, SuccessStep
  <2>7. CASE verdict \in Outcomes \ {"ok"}
    BY <2>3, <2>5, <2>7, RefusalStep
  <2>. QED
    BY <2>4, <2>6, <2>7
<1>6. ASSUME NEW r \in Requests, GetGrant(r) PROVE Rest'
  BY <1>6, <1>0, RefreshAssumption, Labels DEF GetGrant, FailWith, Go, Rest, BaseInv,
     TypeOK, RequestStates, LocalsOK, IssuedOK, DeletedFirst, SuccessMeansSpent,
     Redeeming, Exchanging, Revoking, Minted, Succeeded, Tok
<1>7. ASSUME NEW r \in Requests, UpstreamAccepts(r) PROVE Rest'
  <2>1. PICK q \in Providers :
          \/ Go(r, [req[r] EXCEPT !.pc = "exchange", !.provider = q])
          \/ Go(r, FailWith(r, "upstream_error"))
    BY <1>7 DEF UpstreamAccepts
  <2>2. CASE Go(r, [req[r] EXCEPT !.pc = "exchange", !.provider = q])
    BY <1>7, <2>2, RefreshAssumption DEF UpstreamAccepts, Go, Rest, BaseInv,
       TypeOK, RequestStates, LocalsOK, IssuedOK, DeletedFirst, SuccessMeansSpent,
       Redeeming, Exchanging, Revoking, Minted, Succeeded, Tok
  <2>3. CASE Go(r, FailWith(r, "upstream_error"))
    BY <1>7, <2>3, RefreshAssumption DEF UpstreamAccepts, FailWith, Go, Rest, BaseInv,
       TypeOK, RequestStates, LocalsOK, IssuedOK, DeletedFirst, SuccessMeansSpent,
       Redeeming, Exchanging, Revoking, Minted, Succeeded, Tok
  <2>. QED
    BY <2>1, <2>2, <2>3
<1>8. ASSUME NEW r \in Requests, UpstreamRejects(r) PROVE Rest'
  BY <1>8, <1>0, RefreshAssumption, Labels DEF UpstreamRejects, Go, Rest, BaseInv,
     TypeOK, RequestStates, LocalsOK, IssuedOK, DeletedFirst, SuccessMeansSpent,
     Redeeming, Exchanging, Revoking, Minted, Succeeded, Tok
<1>9. ASSUME NEW r \in Requests, UpstreamFails(r) PROVE Rest'
  BY <1>9, <1>0, RefreshAssumption, Labels DEF UpstreamFails, FailWith, Go, Rest, BaseInv,
     TypeOK, RequestStates, LocalsOK, IssuedOK, DeletedFirst, SuccessMeansSpent,
     Redeeming, Exchanging, Revoking, Minted, Succeeded, Tok
<1>10. ASSUME NEW r \in Requests, ExchangeOk(r) PROVE Rest'
  BY <1>10, <1>0, RefreshAssumption, Labels DEF ExchangeOk, Go, Rest, BaseInv,
     TypeOK, RequestStates, LocalsOK, IssuedOK, DeletedFirst, SuccessMeansSpent,
     Redeeming, Exchanging, Revoking, Minted, Succeeded, Tok
<1>11. ASSUME NEW r \in Requests, ExchangeFails(r) PROVE Rest'
  BY <1>11, <1>0, RefreshAssumption, Labels DEF ExchangeFails, FailWith, Go, Rest, BaseInv,
     TypeOK, RequestStates, LocalsOK, IssuedOK, DeletedFirst, SuccessMeansSpent,
     Redeeming, Exchanging, Revoking, Minted, Succeeded, Tok
<1>12. ASSUME NEW r \in Requests, ReplaceGet(r) PROVE Rest'
  <2>1. LocalsOK'
    BY <1>12, <1>0, RefreshAssumption, Labels DEF ReplaceGet, Go, Rest, BaseInv,
       TypeOK, RequestStates, LocalsOK, IssuedOK, DeletedFirst, SuccessMeansSpent,
       Redeeming, Exchanging, Revoking, Minted, Succeeded, Tok
  <2>2. IssuedOK'
    BY <1>12, <1>0, RefreshAssumption, Labels DEF ReplaceGet, Go, Rest, BaseInv,
       TypeOK, RequestStates, LocalsOK, IssuedOK, DeletedFirst, SuccessMeansSpent,
       Redeeming, Exchanging, Revoking, Minted, Succeeded, Tok
  <2>3. DeletedFirst'
    BY <1>12, <1>0, RefreshAssumption, Labels DEF ReplaceGet, Go, Rest, BaseInv,
       TypeOK, RequestStates, LocalsOK, IssuedOK, DeletedFirst, SuccessMeansSpent,
       Redeeming, Exchanging, Revoking, Minted, Succeeded, Tok
  <2>4. SuccessMeansSpent'
    BY <1>12, <1>0, RefreshAssumption, Labels DEF ReplaceGet, Go, Rest, BaseInv,
       TypeOK, RequestStates, LocalsOK, IssuedOK, DeletedFirst, SuccessMeansSpent,
       Redeeming, Exchanging, Revoking, Minted, Succeeded, Tok
  <2>. QED
    BY <2>1, <2>2, <2>3, <2>4 DEF Rest
<1>13. ASSUME NEW r \in Requests, ReplacePut(r) PROVE Rest'
  <2>1. LocalsOK'
    BY <1>13, <1>0, RefreshAssumption, Labels DEF ReplacePut, Go, Rest, BaseInv,
       TypeOK, RequestStates, LocalsOK, IssuedOK, DeletedFirst, SuccessMeansSpent,
       Redeeming, Exchanging, Revoking, Minted, Succeeded, Tok
  <2>2. IssuedOK'
    BY <1>13, <1>0, RefreshAssumption, Labels DEF ReplacePut, Go, Rest, BaseInv,
       TypeOK, RequestStates, LocalsOK, IssuedOK, DeletedFirst, SuccessMeansSpent,
       Redeeming, Exchanging, Revoking, Minted, Succeeded, Tok
  <2>3. DeletedFirst'
    BY <1>13, <1>0, RefreshAssumption, Labels DEF ReplacePut, Go, Rest, BaseInv,
       TypeOK, RequestStates, LocalsOK, IssuedOK, DeletedFirst, SuccessMeansSpent,
       Redeeming, Exchanging, Revoking, Minted, Succeeded, Tok
  <2>4. SuccessMeansSpent'
    BY <1>13, <1>0, RefreshAssumption, Labels DEF ReplacePut, Go, Rest, BaseInv,
       TypeOK, RequestStates, LocalsOK, IssuedOK, DeletedFirst, SuccessMeansSpent,
       Redeeming, Exchanging, Revoking, Minted, Succeeded, Tok
  <2>. QED
    BY <2>1, <2>2, <2>3, <2>4 DEF Rest
<1>14. ASSUME NEW r \in Requests, RevokeRead(r) PROVE Rest'
  BY <1>14, <1>0, RefreshAssumption, Labels DEF RevokeRead, Go, Rest, BaseInv,
     TypeOK, RequestStates, LocalsOK, IssuedOK, DeletedFirst, SuccessMeansSpent,
     Redeeming, Exchanging, Revoking, Minted, Succeeded, Tok
<1>15. ASSUME NEW r \in Requests, RevokeDelete(r) PROVE Rest'
  BY <1>15, <1>0, RefreshAssumption, Labels DEF RevokeDelete, Go, Rest, BaseInv,
     TypeOK, RequestStates, LocalsOK, IssuedOK, DeletedFirst, SuccessMeansSpent,
     Redeeming, Exchanging, Revoking, Minted, Succeeded, Tok
<1>16. ASSUME NEW r \in Requests, RevokeClear(r) PROVE Rest'
  <2>1. req' = [req EXCEPT ![r].pc = req[r].next]
    BY <1>16 DEF RevokeClear, BaseInv, TypeOK, RequestStates, Go
  <2>2. \A t \in Tokens : \/ coord'[t] = coord[t]
                          \/ t = Tok(r) /\ coord'[t].kind = "none"
    BY <1>16 DEF RevokeClear, BaseInv, TypeOK, NoRecord
  <2>3. LocalsOK'
    BY <1>16, <2>1 DEF RevokeClear, BaseInv, TypeOK, RequestStates, LocalsOK,
       Redeeming, Exchanging, Revoking, Minted, Succeeded, Tok
  <2>6. DeletedFirst'
    BY <1>16, <2>1 DEF RevokeClear, BaseInv, TypeOK, RequestStates, DeletedFirst, Tok
  <2>4. IssuedOK'
    BY <1>16, <2>2 DEF RevokeClear, BaseInv, IssuedOK
  <2>5. SuccessMeansSpent'
    BY <1>16, <2>1, <2>2 DEF RevokeClear, BaseInv, TypeOK, RequestStates,
       SuccessMeansSpent, Succeeded, Tok
  <2>. QED
    BY <2>3, <2>4, <2>5, <2>6 DEF Rest
<1>17. ASSUME NEW r \in Requests, Complete(r) PROVE Rest'
  <2> DEFINE resp == [client |-> req[r].grant.client, refresh |-> req[r].rotated,
                      session |-> r]
  <2>1. /\ coord' = [coord EXCEPT ![Tok(r)] = Replay(resp)]
        /\ Answer(r, "ok", resp)
    BY <1>17 DEF Complete
  <2>2. resp \in Responses
    BY <1>17, AtType DEF Complete, BaseInv, LocalsOK, Redeeming, Minted, Succeeded,
       RequestStates, Grants, Responses
  <2>3. resp.refresh \in issued \cup {None} /\ kv[Tok(r)] = None
    BY <1>17 DEF Complete, BaseInv, LocalsOK, DeletedFirst
  <2>4. req[r].pc # "idle" /\ UNCHANGED <<kv, issued>>
    BY <1>17 DEF Complete
  <2>. HIDE DEF resp
  <2>. QED
    BY <2>1, <2>2, <2>3, <2>4, SuccessStep
<1>18. ASSUME NEW r \in Requests, Fail(r) PROVE Rest'
  <2>1. req[r].out \in Outcomes \ {"ok"}
    BY <1>18, AtType DEF Fail, BaseInv, LocalsOK, Succeeded, RequestStates
  <2>2. \A t \in Tokens : coord'[t] \in {coord[t], NoRecord}
    BY <1>18 DEF Fail, AfterFail, BaseInv, TypeOK
  <2>. QED
    BY <1>18, <2>1, <2>2, RefusalStep DEF Fail
<1>19. ASSUME NEW r \in Requests, IdpRevoke(r) PROVE Rest'
  BY <1>19, RefusalStep, Labels DEF IdpRevoke
<1>20. ASSUME NEW r \in Requests, Abort(r) PROVE Rest'
  BY <1>20, RefusalStep, Labels DEF Abort
<1>21. ASSUME NEW t \in Tokens, ExpireRecord(t) PROVE Rest'
  BY <1>21 DEF ExpireRecord, NoRecord, Rest, BaseInv, TypeOK, LocalsOK, IssuedOK,
     DeletedFirst, SuccessMeansSpent, Redeeming, Exchanging, Revoking, Minted,
     Succeeded, Tok
<1>22. ASSUME NEW t \in Tokens, ExpireGrant(t) PROVE Rest'
  BY <1>22 DEF ExpireGrant, Rest, BaseInv, TypeOK, LocalsOK, IssuedOK,
     DeletedFirst, SuccessMeansSpent, Redeeming, Exchanging, Revoking, Minted,
     Succeeded, Tok
<1>23. ASSUME NEW p \in Providers, IdpEnds(p) PROVE Rest'
  BY <1>23 DEF IdpEnds, Rest, BaseInv, LocalsOK, IssuedOK, DeletedFirst,
     SuccessMeansSpent, Redeeming, Exchanging, Revoking, Minted, Succeeded, Tok
<1>24. ASSUME UNCHANGED vars PROVE Rest'
  <2>1. kv' = kv /\ issued' = issued /\ coord' = coord /\ req' = req
    BY <1>24 DEF vars
  <2>. QED
    BY <2>1 DEF Rest, BaseInv, LocalsOK, IssuedOK, DeletedFirst, SuccessMeansSpent,
       Redeeming, Exchanging, Revoking, Minted, Succeeded, Tok
<1>25. Rest'
  BY <1>1, <1>2, <1>3, <1>4, <1>5, <1>6, <1>7, <1>8, <1>9, <1>10, <1>11, <1>12, <1>13,
     <1>14, <1>15, <1>16, <1>17, <1>18, <1>19, <1>20, <1>21, <1>22, <1>23, <1>24
     DEF Next, Environment, Step
<1>. QED
  BY <1>0, <1>25 DEF Rest, BaseInv

LEMMA BaseInit == Init => BaseInv
<1> SUFFICES ASSUME Init PROVE BaseInv
  OBVIOUS
<1>1. TypeOK
  BY TypeInit
<1>2. \A r \in Requests : req[r] = Idle
  BY DEF Init
<1>3. \A r \in Requests : /\ req[r].pc = "idle" /\ req[r].out = "none"
                          /\ req[r].rotated = None /\ req[r].response = None
  <2>1. /\ Idle.pc = "idle" /\ Idle.out = "none"
        /\ Idle.rotated = None /\ Idle.response = None
    BY DEF Idle
  <2>. QED
    BY <1>2, <2>1
<1>4. LocalsOK
  BY <1>3 DEF LocalsOK, Redeeming, Exchanging, Revoking, Minted, Succeeded
<1>5. IssuedOK /\ DeletedFirst /\ SuccessMeansSpent
  BY <1>3 DEF Init, IssuedOK, DeletedFirst, SuccessMeansSpent, Succeeded, NoRecord
<1>. QED
  BY <1>1, <1>4, <1>5 DEF BaseInv

LEMMA BaseAlways == Spec => []BaseInv
BY BaseInit, BaseStep, PTL DEF Spec

(* Every record the gateway, the coordinator and the requests in flight    *)
(* keep has the shape the code gives it, under any faults.                 *)
THEOREM TypeCorrect == Spec => []TypeOK
<1>1. BaseInv => TypeOK
  BY DEF BaseInv
<1>. QED
  BY <1>1, BaseAlways, PTL

(* replace() and the replay record: once a token has a replay record, or   *)
(* has been answered 200, its grant is gone for good.                      *)
THEOREM SpentForGood == Spec => []SuccessMeansSpent
<1>1. BaseInv => SuccessMeansSpent
  BY DEF BaseInv
<1>. QED
  BY <1>1, BaseAlways, PTL

-----------------------------------------------------------------------------
(* One winner per token, when no pending record times out *)

Winner == LeaderHoldsRecord /\ OneLeader /\ OneRedeemer /\ ResponsesAuthentic

(* Who leads, or redeems, was started with an issued token. *)
LEMMA StartedToken ==
    ASSUME BaseInv, NEW r \in Requests, Leading(r) \/ Redeeming(r)
    PROVE  Tok(r) \in Tokens /\ Tok(r) \in issued
BY DEF BaseInv, TypeOK, LocalsOK, Leading, Redeeming, Exchanging, Revoking, Minted,
   Succeeded

(* While the grant is stored, whoever redeems it still leads. *)
LEMMA RedeemerLeads ==
    ASSUME BaseInv, NEW r \in Requests, Redeeming(r), kv[Tok(r)] # None
    PROVE  Leading(r)
BY DEF BaseInv, DeletedFirst, SuccessMeansSpent, Redeeming, Leading, Minted, Succeeded

(* A minted response stays the response of its request.                    *)
LEMMA AuthenticKept ==
    ASSUME NEW r \in Requests, ~Succeeded(r),
           \A s \in Requests : s # r => req'[s] = req[s],
           NEW resp \in Responses, NEW t, Authentic(resp, t)
    PROVE  Authentic(resp, t)'
BY DEF Authentic, Minted, Succeeded, Responses, Tok

LEMMA ResponseTypes ==
    ASSUME BaseInv
    PROVE  /\ \A s \in Requests : Succeeded(s) => req[s].response \in Responses
           /\ \A t \in Tokens : coord[t].kind = "replay" => coord[t].response \in Responses
BY DEF BaseInv, TypeOK, RequestStates, LocalsOK, CoordRecords, NoRecord, Pending, Replay

(* Nothing new to be authentic: r is not answered 200, no record is added. *)
LEMMA ResponsesKept ==
    ASSUME SingleFlightInv, NEW r \in Requests, ~Succeeded(r), ~Succeeded(r)',
           \A s \in Requests : s # r => req'[s] = req[s],
           \A t \in Tokens : coord'[t].kind = "replay" => coord'[t] = coord[t]
    PROVE  ResponsesAuthentic'
<1>1. BaseInv /\ ResponsesAuthentic
  BY DEF SingleFlightInv
<1>2. ASSUME NEW s \in Requests, Succeeded(s)'
      PROVE  Authentic(req[s].response, Tok(s))'
  <2>1. req'[s] = req[s] /\ Succeeded(s)
    BY <1>2 DEF Succeeded
  <2>2. Authentic(req[s].response, Tok(s)) /\ req[s].response \in Responses
    BY <1>1, <2>1, ResponseTypes DEF ResponsesAuthentic
  <2>. QED
    BY <2>1, <2>2, AuthenticKept DEF Authentic, Tok
<1>3. ASSUME NEW t \in Tokens, coord'[t].kind = "replay"
      PROVE  Authentic(coord[t].response, t)'
  <2>1. coord'[t] = coord[t]
    BY <1>3
  <2>2. Authentic(coord[t].response, t) /\ coord[t].response \in Responses
    BY <1>1, <1>3, <2>1, ResponseTypes DEF ResponsesAuthentic
  <2>. QED
    BY <2>1, <2>2, AuthenticKept DEF Authentic
<1>. QED
  BY <1>2, <1>3 DEF ResponsesAuthentic

(* A step by which r wins nothing - it may give up what it has - and that  *)
(* drops coordinator records of tokens no longer stored only.              *)
LEMMA QuietStep ==
    ASSUME SingleFlightInv, NEW r \in Requests,
           \A s \in Requests : s # r => req'[s] = req[s],
           ~Succeeded(r), ~Succeeded(r)',
           Leading(r)' => Leading(r) /\ req'[r].token = req[r].token,
           Redeeming(r)' => Redeeming(r) /\ req'[r].token = req[r].token,
           \A t \in Tokens : kv'[t] # None => kv[t] # None,
           \A t \in Tokens :
               coord'[t] = coord[t] \/ (coord'[t].kind = "none" /\ kv'[t] = None)
    PROVE  Winner'
<1> DEFINE L(s) == Leading(s)
           D(s) == Redeeming(s)
<1>1. \A s \in Requests : /\ L(s)' => L(s) /\ Tok(s)' = Tok(s)
                          /\ D(s)' => D(s) /\ Tok(s)' = Tok(s)
                          /\ Succeeded(s)' => Succeeded(s) /\ req'[s] = req[s]
                          /\ Succeeded(s) => req'[s] = req[s]
  BY DEF Leading, Redeeming, Exchanging, Revoking, Minted, Succeeded, Tok
<1>2. \A s \in Requests : L(s) \/ D(s) => Tok(s) \in Tokens
  BY StartedToken DEF SingleFlightInv
<1>4. LeaderHoldsRecord /\ OneLeader /\ OneRedeemer /\ ResponsesAuthentic
  BY DEF SingleFlightInv
<1>5. LeaderHoldsRecord' /\ OneLeader'
  <2>. HIDE DEF D
  <2>1. \A s \in Requests : L(s)' /\ kv'[Tok(s)'] # None
                            => L(s) /\ kv[Tok(s)] # None /\ Tok(s)' = Tok(s)
    BY <1>1, <1>2
  <2>2. LeaderHoldsRecord'
    BY <1>2, <1>4, <2>1 DEF LeaderHoldsRecord
  <2>3. OneLeader'
    BY <1>4, <2>1 DEF OneLeader
  <2>. QED
    BY <2>2, <2>3
<1>6. OneRedeemer'
  BY <1>1, <1>4 DEF OneRedeemer
<1>7. ResponsesAuthentic'
  BY ResponsesKept
<1>. QED
  BY <1>5, <1>6, <1>7 DEF Winner

(* A step of the environment: records and grants only disappear.           *)
LEMMA EnvironmentStep ==
    ASSUME SingleFlightInv, req' = req,
           \A t \in Tokens : kv'[t] # None => kv[t] # None,
           \A t \in Tokens :
               coord'[t] = coord[t] \/ (coord'[t].kind = "none" /\ coord[t].kind # "pending")
    PROVE  Winner'
<1>1. /\ BaseInv
      /\ LeaderHoldsRecord /\ OneLeader /\ OneRedeemer /\ ResponsesAuthentic
  BY DEF SingleFlightInv
<1>2. \A s \in Requests : Leading(s) => Tok(s) \in Tokens
  BY <1>1, StartedToken
<1>3. \A s \in Requests : /\ Leading(s)' <=> Leading(s)
                          /\ Redeeming(s)' <=> Redeeming(s)
                          /\ Tok(s)' = Tok(s)
  BY DEF Leading, Redeeming, Exchanging, Revoking, Minted, Succeeded, Tok
<1>4. LeaderHoldsRecord' /\ OneLeader'
  <2>1. \A s \in Requests : Leading(s)' /\ kv'[Tok(s)'] # None
          => Leading(s) /\ kv[Tok(s)] # None /\ coord'[Tok(s)] = coord[Tok(s)]
    BY <1>1, <1>2, <1>3 DEF LeaderHoldsRecord
  <2>2. LeaderHoldsRecord'
    BY <1>1, <1>3, <2>1 DEF LeaderHoldsRecord
  <2>3. OneLeader'
    BY <1>1, <1>3, <2>1 DEF OneLeader
  <2>. QED
    BY <2>2, <2>3
<1>5. OneRedeemer'
  BY <1>1, <1>3 DEF OneRedeemer
<1>6. ResponsesAuthentic'
  <2>1. \A resp \in Responses : \A t : Authentic(resp, t) => Authentic(resp, t)'
    BY DEF Authentic, Minted, Succeeded, Tok
  <2>2. \A t \in Tokens : coord'[t].kind = "replay" => coord'[t] = coord[t]
    OBVIOUS
  <2>. QED
    BY <1>1, <2>1, <2>2, ResponseTypes DEF ResponsesAuthentic, Authentic, Succeeded, Tok,
       Minted
<1>. QED
  BY <1>4, <1>5, <1>6 DEF Winner

(* A 200 that repeats an authentic response.                               *)
LEMMA ReplayedStep ==
    ASSUME SingleFlightInv, NEW r \in Requests, ~Succeeded(r),
           NEW resp \in Responses, Authentic(resp, Tok(r)),
           req'[r].pc = "done" /\ req'[r].out = "ok" /\ req'[r].response = resp,
           req'[r].token = req[r].token,
           \A s \in Requests : s # r => req'[s] = req[s],
           UNCHANGED <<kv, coord>>
    PROVE  Winner'
<1>1. /\ BaseInv
      /\ LeaderHoldsRecord /\ OneLeader /\ OneRedeemer /\ ResponsesAuthentic
  BY DEF SingleFlightInv
<1>2. resp.session # r
  BY DEF Authentic, Minted
<1>3. \A s \in Requests : /\ Leading(s)' => Leading(s)
                          /\ Redeeming(s)' => Redeeming(s)
                          /\ Tok(s)' = Tok(s)
  BY <1>2 DEF Leading, Redeeming, Exchanging, Revoking, Minted, Succeeded, Tok
<1>4. LeaderHoldsRecord' /\ OneLeader'
  BY <1>1, <1>3 DEF LeaderHoldsRecord, OneLeader
<1>5. OneRedeemer'
  BY <1>1, <1>3 DEF OneRedeemer
<1>6. ResponsesAuthentic'
  <2>1. ASSUME NEW s \in Requests, Succeeded(s)'
        PROVE  Authentic(req[s].response, Tok(s))'
    <3>1. CASE s = r
      <4>1. Authentic(resp, Tok(r))'
        BY <1>3, AuthenticKept DEF Authentic
      <4>. QED
        BY <3>1, <4>1 DEF Authentic
    <3>2. CASE s # r
      <4>1. req'[s] = req[s] /\ Succeeded(s)
        BY <2>1, <3>2 DEF Succeeded
      <4>2. Authentic(req[s].response, Tok(s)) /\ req[s].response \in Responses
        BY <1>1, <4>1, ResponseTypes DEF ResponsesAuthentic
      <4>. QED
        BY <4>1, <4>2, AuthenticKept DEF Authentic, Tok
    <3>. QED
      BY <3>1, <3>2
  <2>2. ASSUME NEW t \in Tokens, coord'[t].kind = "replay"
        PROVE  Authentic(coord[t].response, t)'
    <3>1. Authentic(coord[t].response, t) /\ coord[t].response \in Responses
      BY <1>1, <2>2, ResponseTypes DEF ResponsesAuthentic
    <3>. QED
      BY <3>1, AuthenticKept DEF Authentic
  <2>. QED
    BY <2>1, <2>2 DEF ResponsesAuthentic
<1>. QED
  BY <1>4, <1>5, <1>6 DEF Winner

(* The step of every action but ExpireRecord on a pending record.          *)
LEMMA WinnerStep ==
    ASSUME "pending_ttl" \notin Faults, SingleFlightInv, BaseInv', [Next]_vars
    PROVE  Winner'
<1>0. /\ BaseInv /\ TypeOK /\ LocalsOK
      /\ LeaderHoldsRecord /\ OneLeader /\ OneRedeemer /\ ResponsesAuthentic
  BY DEF SingleFlightInv, BaseInv
<1>1. ASSUME NEW r \in Requests, SubmitRefresh(r) PROVE Winner'
  <2>1. /\ req'[r].pc = "begin" /\ req'[r].out = "none"
        /\ \A s \in Requests : s # r => req'[s] = req[s]
    BY <1>0, <1>1 DEF SubmitRefresh, TypeOK, Go, Idle
  <2>. QED
    BY <1>0, <1>1, <2>1, QuietStep DEF SubmitRefresh, LocalsOK, Leading, Redeeming,
       Exchanging, Revoking, Minted, Succeeded
<1>2. ASSUME NEW r \in Requests, SubmitRevoke(r) PROVE Winner'
  <2>1. /\ req'[r].pc = "revoke_read" /\ req'[r].next = "idp_revoke"
        /\ req'[r].out = "none" /\ \A s \in Requests : s # r => req'[s] = req[s]
    BY <1>0, <1>2 DEF SubmitRevoke, TypeOK, Go, Idle
  <2>. QED
    BY <1>0, <1>2, <2>1, QuietStep DEF SubmitRevoke, LocalsOK, Leading, Redeeming,
       Exchanging, Revoking, Minted, Succeeded
<1>3. ASSUME NEW r \in Requests, BeginLeader(r) PROVE Winner'
  <2>1. /\ req'[r].pc = "get" /\ req'[r].out = req[r].out
        /\ req'[r].token = req[r].token
        /\ \A s \in Requests : s # r => req'[s] = req[s]
    BY <1>0, <1>3 DEF BeginLeader, TypeOK, RequestStates, Go
  <2>2. ~Succeeded(r) /\ ~Succeeded(r)' /\ Tok(r) \in Tokens
    BY <1>0, <1>3, <2>1 DEF BeginLeader, TypeOK, LocalsOK, Succeeded
  <2>3. /\ coord'[Tok(r)].kind = "pending"
        /\ \A t \in Tokens : t # Tok(r) => coord'[t] = coord[t]
    BY <1>0, <1>3, <2>2 DEF BeginLeader, TypeOK, Pending
  <2>4. \A s \in Requests : s # r =>
          (Leading(s)' <=> Leading(s)) /\ (Redeeming(s)' <=> Redeeming(s)) /\ Tok(s)' = Tok(s)
    BY <2>1 DEF Leading, Redeeming, Exchanging, Revoking, Minted, Succeeded, Tok
  <2>5. kv' = kv /\ Tok(r)' = Tok(r) /\ ~Redeeming(r)'
    BY <1>3, <2>1, <2>2 DEF BeginLeader, Tok, Redeeming, Exchanging, Revoking, Minted,
       Succeeded
  <2>6. \A s \in Requests : Leading(s) /\ kv[Tok(s)] # None => Tok(s) # Tok(r)
    BY <1>0, <1>3 DEF BeginLeader, LeaderHoldsRecord
  <2>7. LeaderHoldsRecord'
    BY <1>0, <2>2, <2>3, <2>4, <2>5, StartedToken DEF LeaderHoldsRecord
  <2>8. OneLeader'
    BY <1>0, <2>4, <2>5, <2>6 DEF OneLeader
  <2>9. OneRedeemer'
    BY <1>0, <2>4, <2>5 DEF OneRedeemer
  <2>10. ResponsesAuthentic'
    BY <2>1, <2>2, <2>3, ResponsesKept
  <2>. QED
    BY <2>7, <2>8, <2>9, <2>10 DEF Winner
<1>4. ASSUME NEW r \in Requests, BeginWait(r) PROVE Winner'
  <2>1. /\ req'[r].pc \in {"begin", "done"} /\ req'[r].out # "ok"
        /\ \A s \in Requests : s # r => req'[s] = req[s]
    <3>1. CASE Answer(r, "busy", None)
      BY <1>0, <3>1, AnswerFields, Labels
    <3>2. CASE Go(r, [req[r] EXCEPT !.attempts = req[r].attempts + 1])
      BY <1>0, <1>4, <3>2 DEF BeginWait, TypeOK, RequestStates, LocalsOK, Succeeded, Go
    <3>. QED
      BY <1>4, <3>1, <3>2 DEF BeginWait
  <2>. QED
    BY <1>0, <1>4, <2>1, QuietStep DEF BeginWait, LocalsOK, Leading, Redeeming,
       Exchanging, Revoking, Minted, Succeeded
<1>5. ASSUME NEW r \in Requests, BeginReplay(r) PROVE Winner'
  <2> DEFINE resp == coord[Tok(r)].response
  <2>1. Tok(r) \in Tokens /\ coord[Tok(r)].kind = "replay" /\ ~Succeeded(r)
    BY <1>0, <1>5, RefreshAssumption DEF BeginReplay, TypeOK, LocalsOK, Succeeded
  <2>2. resp \in Responses /\ Authentic(resp, Tok(r))
    BY <1>0, <2>1, ResponseTypes DEF ResponsesAuthentic
  <2>3. PICK verdict \in ClientVerdicts(r, resp.client) :
          Answer(r, verdict, IF verdict = "ok" THEN resp ELSE None)
    BY <1>5 DEF BeginReplay
  <2>4. verdict \in Outcomes
    BY Labels DEF ClientVerdicts
  <2>5. UNCHANGED <<kv, issued, coord>>
    BY <1>5 DEF BeginReplay
  <2>. HIDE DEF resp
  <2>6. /\ req'[r].pc = "done" /\ req'[r].out = verdict /\ req'[r].token = req[r].token
        /\ verdict = "ok" => req'[r].response = resp
        /\ \A s \in Requests : s # r => req'[s] = req[s]
    BY <1>0, <2>2, <2>3, <2>4, AnswerFields
  <2>7. CASE verdict # "ok"
    BY <1>0, <2>1, <2>5, <2>6, <2>7, QuietStep DEF Leading, Redeeming, Exchanging,
       Revoking, Minted, Succeeded
  <2>8. CASE verdict = "ok"
    BY <1>0, <2>1, <2>2, <2>5, <2>6, <2>8, ReplayedStep
  <2>. QED
    BY <2>7, <2>8
<1>6. ASSUME NEW r \in Requests, GetGrant(r) PROVE Winner'
  <2>1. /\ req'[r].token = req[r].token /\ req'[r].out # "ok"
        /\ \/ req'[r].pc = "fail"
           \/ req'[r].pc = "upstream" /\ kv[Tok(r)] # None
        /\ \A s \in Requests : s # r => req'[s] = req[s]
    BY <1>0, <1>6 DEF GetGrant, FailWith, ClientVerdicts, TypeOK, RequestStates, LocalsOK,
       Succeeded, Go
  <2>2. UNCHANGED <<kv, coord>> /\ ~Succeeded(r) /\ Leading(r)
    BY <1>0, <1>6 DEF GetGrant, LocalsOK, Succeeded, Leading
  <2>3. CASE req'[r].pc = "fail"
    BY <1>0, <2>1, <2>2, <2>3, QuietStep DEF Leading, Redeeming, Exchanging, Revoking,
       Minted, Succeeded
  <2>4. CASE req'[r].pc = "upstream" /\ kv[Tok(r)] # None
    <3>1. \A s \in Requests : Redeeming(s) /\ Tok(s) = Tok(r) => s = r
      BY <1>0, <2>2, <2>4, RedeemerLeads DEF OneLeader
    <3>2. \A s \in Requests : (Leading(s)' <=> Leading(s)) /\ Tok(s)' = Tok(s)
      BY <2>1, <2>2, <2>4 DEF Leading, Exchanging, Revoking, Tok
    <3>3. \A s \in Requests : s # r => (Redeeming(s)' <=> Redeeming(s))
      BY <2>1 DEF Redeeming, Exchanging, Revoking, Minted, Succeeded
    <3>4. LeaderHoldsRecord' /\ OneLeader'
      BY <1>0, <2>2, <3>2 DEF LeaderHoldsRecord, OneLeader
    <3>5. OneRedeemer'
      BY <1>0, <3>1, <3>2, <3>3 DEF OneRedeemer
    <3>6. ResponsesAuthentic'
      BY <2>1, <2>2, ResponsesKept DEF Succeeded
    <3>. QED
      BY <3>4, <3>5, <3>6 DEF Winner
  <2>. QED
    BY <2>1, <2>3, <2>4
<1>7. ASSUME NEW r \in Requests, UpstreamAccepts(r) PROVE Winner'
  <2>1. /\ req'[r].pc \in {"exchange", "fail"} /\ req'[r].next = req[r].next
        /\ req'[r].out \in {req[r].out, "upstream_error"}
        /\ req'[r].token = req[r].token
        /\ \A s \in Requests : s # r => req'[s] = req[s]
    <3>1. PICK q \in Providers :
            \/ Go(r, [req[r] EXCEPT !.pc = "exchange", !.provider = q])
            \/ Go(r, FailWith(r, "upstream_error"))
      BY <1>7 DEF UpstreamAccepts
    <3>2. CASE Go(r, [req[r] EXCEPT !.pc = "exchange", !.provider = q])
      BY <1>0, <3>2 DEF TypeOK, RequestStates, Go
    <3>3. CASE Go(r, FailWith(r, "upstream_error"))
      BY <1>0, <3>3 DEF FailWith, TypeOK, RequestStates, Go
    <3>. QED
      BY <3>1, <3>2, <3>3
  <2>. QED
    BY <1>0, <1>7, <2>1, QuietStep DEF UpstreamAccepts, LocalsOK, Leading, Redeeming,
       Exchanging, Revoking, Minted, Succeeded
<1>8. ASSUME NEW r \in Requests, UpstreamRejects(r) PROVE Winner'
  <2>1. /\ req'[r].pc = "revoke_read" /\ req'[r].next = "fail"
        /\ req'[r].out # "ok"
        /\ req'[r].token = req[r].token
        /\ \A s \in Requests : s # r => req'[s] = req[s]
    BY <1>0, <1>8 DEF UpstreamRejects, TypeOK, RequestStates, Go
  <2>. QED
    BY <1>0, <1>8, <2>1, QuietStep DEF UpstreamRejects, LocalsOK, Leading, Redeeming,
       Exchanging, Revoking, Minted, Succeeded
<1>9. ASSUME NEW r \in Requests, UpstreamFails(r) PROVE Winner'
  <2>1. /\ req'[r].pc = "fail" /\ req'[r].out # "ok"
        /\ req'[r].token = req[r].token
        /\ \A s \in Requests : s # r => req'[s] = req[s]
    BY <1>0, <1>9 DEF UpstreamFails, FailWith, TypeOK, RequestStates, Go
  <2>. QED
    BY <1>0, <1>9, <2>1, QuietStep DEF UpstreamFails, LocalsOK, Leading, Redeeming,
       Exchanging, Revoking, Minted, Succeeded
<1>10. ASSUME NEW r \in Requests, ExchangeOk(r) PROVE Winner'
  <2>1. /\ req'[r].pc = "replace_get" /\ req'[r].next = req[r].next /\ req'[r].out = req[r].out
        /\ req'[r].token = req[r].token
        /\ \A s \in Requests : s # r => req'[s] = req[s]
    BY <1>0, <1>10 DEF ExchangeOk, TypeOK, RequestStates, Go
  <2>. QED
    BY <1>0, <1>10, <2>1, QuietStep DEF ExchangeOk, LocalsOK, Leading, Redeeming,
       Exchanging, Revoking, Minted, Succeeded
<1>11. ASSUME NEW r \in Requests, ExchangeFails(r) PROVE Winner'
  <2>1. /\ req'[r].pc = "fail" /\ req'[r].out # "ok"
        /\ req'[r].token = req[r].token
        /\ \A s \in Requests : s # r => req'[s] = req[s]
    BY <1>0, <1>11 DEF ExchangeFails, FailWith, TypeOK, RequestStates, Go
  <2>. QED
    BY <1>0, <1>11, <2>1, QuietStep DEF ExchangeFails, LocalsOK, Leading, Redeeming,
       Exchanging, Revoking, Minted, Succeeded
<1>12. ASSUME NEW r \in Requests, ReplaceGet(r) PROVE Winner'
  <2>1. /\ req'[r].pc \in {"complete", "replace_put"} /\ req'[r].next = req[r].next /\ req'[r].out = req[r].out
        /\ req'[r].token = req[r].token
        /\ \A s \in Requests : s # r => req'[s] = req[s]
    BY <1>0, <1>12 DEF ReplaceGet, TypeOK, RequestStates, Go
  <2>. QED
    BY <1>0, <1>12, <2>1, QuietStep DEF ReplaceGet, LocalsOK, Leading, Redeeming,
       Exchanging, Revoking, Minted, Succeeded
<1>13. ASSUME NEW r \in Requests, ReplacePut(r) PROVE Winner'
  <2>1. PICK n \in Tokens \ issued :
          kv' = [kv EXCEPT ![n] = [client   |-> req[r].grant.client,
                                   provider |-> req[r].provider]]
    BY <1>13 DEF ReplacePut
  <2>2. /\ req'[r].pc = "revoke_read" /\ req'[r].next = "complete"
        /\ req'[r].out = req[r].out /\ req'[r].token = req[r].token
        /\ \A s \in Requests : s # r => req'[s] = req[s]
    BY <1>0, <1>13 DEF ReplacePut, TypeOK, RequestStates, Go
  <2>3. \A s \in Requests : /\ Leading(s)' <=> Leading(s)
                            /\ Redeeming(s)' <=> Redeeming(s)
                            /\ Tok(s)' = Tok(s)
    <3>1. ASSUME NEW s \in Requests, s # r
          PROVE  /\ Leading(s)' <=> Leading(s)
                 /\ Redeeming(s)' <=> Redeeming(s)
                 /\ Tok(s)' = Tok(s)
      BY <2>2, <3>1 DEF Leading, Redeeming, Exchanging, Revoking, Minted, Succeeded, Tok
    <3>2. Leading(r) /\ Leading(r)' /\ Redeeming(r) /\ Redeeming(r)' /\ Tok(r)' = Tok(r)
      BY <1>13, <2>2 DEF ReplacePut, Leading, Redeeming, Exchanging, Revoking, Tok
    <3>. QED
      BY <3>1, <3>2
  <2>4. \A s \in Requests : Leading(s) => kv'[Tok(s)] = kv[Tok(s)]
    BY <1>0, <2>1, StartedToken DEF TypeOK
  <2>5. coord' = coord
    BY <1>13 DEF ReplacePut
  <2>6. LeaderHoldsRecord' /\ OneLeader'
    BY <1>0, <2>3, <2>4, <2>5 DEF LeaderHoldsRecord, OneLeader
  <2>7. OneRedeemer'
    BY <1>0, <2>3 DEF OneRedeemer
  <2>8. ~Succeeded(r) /\ ~Succeeded(r)'
    BY <1>0, <1>13, <2>2 DEF ReplacePut, LocalsOK, Succeeded
  <2>9. ResponsesAuthentic'
    BY <2>2, <2>5, <2>8, ResponsesKept
  <2>. QED
    BY <2>6, <2>7, <2>9 DEF Winner
<1>14. ASSUME NEW r \in Requests, RevokeRead(r) PROVE Winner'
  <2>1. /\ req'[r].pc \in {"revoke_delete", req[r].next}
        /\ req'[r].next = req[r].next /\ req'[r].out = req[r].out
        /\ req'[r].token = req[r].token
        /\ \A s \in Requests : s # r => req'[s] = req[s]
    BY <1>0, <1>14 DEF RevokeRead, TypeOK, RequestStates, Go
  <2>2. req[r].next \in {"complete", "fail", "idp_revoke"}
    BY <1>0 DEF TypeOK, RequestStates
  <2>. QED
    BY <1>0, <1>14, <2>1, <2>2, QuietStep DEF RevokeRead, LocalsOK, Leading, Redeeming,
       Exchanging, Revoking, Minted, Succeeded
<1>15. ASSUME NEW r \in Requests, RevokeDelete(r) PROVE Winner'
  <2>1. /\ req'[r].pc = "revoke_clear" /\ req'[r].next = req[r].next /\ req'[r].out = req[r].out
        /\ req'[r].token = req[r].token
        /\ \A s \in Requests : s # r => req'[s] = req[s]
    BY <1>0, <1>15 DEF RevokeDelete, TypeOK, RequestStates, Go
  <2>. QED
    BY <1>0, <1>15, <2>1, QuietStep DEF RevokeDelete, LocalsOK, Leading, Redeeming,
       Exchanging, Revoking, Minted, Succeeded
<1>16. ASSUME NEW r \in Requests, RevokeClear(r) PROVE Winner'
  <2>1. /\ req'[r].pc = req[r].next /\ req'[r].out = req[r].out
        /\ req'[r].token = req[r].token
        /\ \A s \in Requests : s # r => req'[s] = req[s]
    BY <1>0, <1>16 DEF RevokeClear, TypeOK, RequestStates, Go
  <2>2. req[r].next \in {"complete", "fail", "idp_revoke"}
    BY <1>0 DEF TypeOK, RequestStates
  <2>3. \A t \in Tokens :
          coord'[t] = coord[t] \/ (coord'[t].kind = "none" /\ kv'[t] = None)
    BY <1>0, <1>16 DEF RevokeClear, BaseInv, TypeOK, DeletedFirst, NoRecord
  <2>. QED
    BY <1>0, <1>16, <2>1, <2>2, <2>3, QuietStep DEF RevokeClear, LocalsOK, Leading,
       Redeeming, Exchanging, Revoking, Minted, Succeeded
<1>17. ASSUME NEW r \in Requests, Complete(r) PROVE Winner'
  <2> DEFINE resp == [client |-> req[r].grant.client, refresh |-> req[r].rotated,
                      session |-> r]
  <2>1. coord' = [coord EXCEPT ![Tok(r)] = Replay(resp)] /\ Answer(r, "ok", resp)
    BY <1>17 DEF Complete
  <2>2. resp \in Responses
    BY <1>0, <1>17, AtType DEF Complete, LocalsOK, Redeeming, Minted, Succeeded,
       RequestStates, Grants, Responses
  <2>3. resp.session = r
    OBVIOUS
  <2>. HIDE DEF resp
  <2>4. /\ req'[r].pc = "done" /\ req'[r].out = "ok" /\ req'[r].response = resp
        /\ req'[r].token = req[r].token
        /\ \A s \in Requests : s # r => req'[s] = req[s]
    BY <1>0, <2>1, <2>2, AnswerFields, Labels
  <2>5. /\ Redeeming(r) /\ ~Succeeded(r) /\ kv' = kv /\ kv[Tok(r)] = None
        /\ Tok(r) \in Tokens
    BY <1>0, <1>17, StartedToken DEF Complete, Redeeming, LocalsOK, Succeeded, BaseInv,
       DeletedFirst
  <2>6. \A s \in Requests : (Leading(s)' => Leading(s)) /\ Tok(s)' = Tok(s)
    BY <2>4 DEF Leading, Exchanging, Revoking, Tok
  <2>7. \A s \in Requests : Redeeming(s)' => Redeeming(s)
    BY <2>4, <2>5 DEF Redeeming, Exchanging, Revoking, Minted, Succeeded
  <2>8. \A t \in Tokens : coord'[t] = IF t = Tok(r) THEN Replay(resp) ELSE coord[t]
    BY <1>0, <2>1 DEF TypeOK
  <2>9. LeaderHoldsRecord' /\ OneLeader'
    <3>1. \A s \in Requests : Leading(s) /\ kv[Tok(s)] # None
                              => coord'[Tok(s)] = coord[Tok(s)]
      BY <1>0, <2>5, <2>8, StartedToken
    <3>. QED
      BY <1>0, <2>5, <2>6, <3>1 DEF LeaderHoldsRecord, OneLeader
  <2>10. OneRedeemer'
    BY <1>0, <2>6, <2>7 DEF OneRedeemer
  <2>11. Authentic(req[r].response, Tok(r))'
    BY <2>3, <2>4 DEF Authentic, Minted, Succeeded, Tok
  <2>12. ResponsesAuthentic'
    <3>1. ASSUME NEW s \in Requests, Succeeded(s)'
          PROVE  Authentic(req[s].response, Tok(s))'
      <4>1. CASE s = r
        BY <2>11, <4>1
      <4>2. CASE s # r
        <5>1. req'[s] = req[s] /\ Succeeded(s)
          BY <2>4, <3>1, <4>2 DEF Succeeded
        <5>2. Authentic(req[s].response, Tok(s)) /\ req[s].response \in Responses
          BY <1>0, <5>1, ResponseTypes DEF ResponsesAuthentic
        <5>. QED
          BY <2>4, <2>5, <5>1, <5>2, AuthenticKept DEF Authentic, Tok
      <4>. QED
        BY <4>1, <4>2
    <3>2. ASSUME NEW t \in Tokens, coord'[t].kind = "replay"
          PROVE  Authentic(coord[t].response, t)'
      <4>1. CASE t = Tok(r)
        <5>1. coord'[t].response = req'[r].response /\ Tok(r)' = t
          BY <2>4, <2>8, <4>1 DEF Replay, Tok
        <5>. QED
          BY <2>11, <5>1 DEF Authentic
      <4>2. CASE t # Tok(r)
        <5>1. coord'[t] = coord[t]
          BY <2>8, <4>2
        <5>2. Authentic(coord[t].response, t) /\ coord[t].response \in Responses
          BY <1>0, <3>2, <5>1, ResponseTypes DEF ResponsesAuthentic
        <5>. QED
          BY <2>4, <2>5, <5>1, <5>2, AuthenticKept DEF Authentic
      <4>. QED
        BY <4>1, <4>2
    <3>. QED
      BY <3>1, <3>2 DEF ResponsesAuthentic
  <2>. QED
    BY <2>9, <2>10, <2>12 DEF Winner
<1>18. ASSUME NEW r \in Requests, Fail(r) PROVE Winner'
  <2>1. /\ req'[r].pc = "done" /\ req'[r].out = req[r].out
        /\ req'[r].token = req[r].token
        /\ \A s \in Requests : s # r => req'[s] = req[s]
    BY <1>0, <1>18, AtType, AnswerFields DEF Fail, RequestStates
  <2>2. /\ Leading(r) /\ ~Leading(r)' /\ ~Succeeded(r) /\ ~Succeeded(r)' /\ kv' = kv
        /\ ~Redeeming(r)'
    BY <1>0, <1>18, <2>1 DEF Fail, Leading, Redeeming, Exchanging, Revoking, Minted,
       Succeeded, LocalsOK
  <2>3. \A t \in Tokens : /\ t # Tok(r) => coord'[t] = coord[t]
                          /\ coord'[t] \in {coord[t], NoRecord}
    BY <1>0, <1>18 DEF Fail, AfterFail, TypeOK
  <2>4. \A s \in Requests : s # r => /\ Leading(s)' <=> Leading(s)
                                     /\ Redeeming(s)' <=> Redeeming(s)
                                     /\ Tok(s)' = Tok(s)
    BY <2>1 DEF Leading, Redeeming, Exchanging, Revoking, Minted, Succeeded, Tok
  <2>5. LeaderHoldsRecord' /\ OneLeader'
    <3>1. \A s \in Requests : s # r /\ Leading(s) /\ kv[Tok(s)] # None
                              => coord'[Tok(s)] = coord[Tok(s)]
      BY <1>0, <2>2, <2>3, StartedToken DEF OneLeader
    <3>. QED
      BY <1>0, <2>2, <2>4, <3>1 DEF LeaderHoldsRecord, OneLeader
  <2>6. OneRedeemer'
    BY <1>0, <2>2, <2>4 DEF OneRedeemer
  <2>7. ResponsesAuthentic'
    BY <2>1, <2>2, <2>3, ResponsesKept DEF NoRecord
  <2>. QED
    BY <2>5, <2>6, <2>7 DEF Winner
<1>19. ASSUME NEW r \in Requests, IdpRevoke(r) PROVE Winner'
  <2>1. /\ req'[r].pc = "done" /\ req'[r].out # "ok"
        /\ \A s \in Requests : s # r => req'[s] = req[s]
    BY <1>0, <1>19, AnswerFields, Labels DEF IdpRevoke
  <2>. QED
    BY <1>0, <1>19, <2>1, QuietStep DEF IdpRevoke, LocalsOK, Leading, Redeeming,
       Exchanging, Revoking, Minted, Succeeded
<1>20. ASSUME NEW r \in Requests, Abort(r) PROVE Winner'
  <2>1. /\ req'[r].pc = "done" /\ req'[r].out # "ok"
        /\ \A s \in Requests : s # r => req'[s] = req[s]
    BY <1>0, <1>20, AnswerFields, Labels DEF Abort
  <2>. QED
    BY <1>0, <1>20, <2>1, QuietStep DEF Abort, LocalsOK, Leading, Redeeming,
       Exchanging, Revoking, Minted, Succeeded
<1>21. ASSUME NEW t \in Tokens, ExpireRecord(t) PROVE Winner'
  BY <1>0, <1>21, EnvironmentStep DEF ExpireRecord, TypeOK, NoRecord
<1>22. ASSUME NEW t \in Tokens, ExpireGrant(t) PROVE Winner'
  BY <1>0, <1>22, EnvironmentStep DEF ExpireGrant, TypeOK
<1>23. ASSUME NEW p \in Providers, IdpEnds(p) PROVE Winner'
  BY <1>0, <1>23, EnvironmentStep DEF IdpEnds
<1>24. ASSUME UNCHANGED vars PROVE Winner'
  BY <1>24, EnvironmentStep DEF vars
<1>. QED
  BY <1>1, <1>2, <1>3, <1>4, <1>5, <1>6, <1>7, <1>8, <1>9, <1>10, <1>11, <1>12, <1>13,
     <1>14, <1>15, <1>16, <1>17, <1>18, <1>19, <1>20, <1>21, <1>22, <1>23, <1>24
     DEF Next, Environment, Step

LEMMA WinnerInit == Init => Winner
<1> SUFFICES ASSUME Init PROVE Winner
  OBVIOUS
<1>1. /\ Idle.pc = "idle" /\ Idle.out = "none"
  BY DEF Idle
<1>2. \A r \in Requests : req[r].pc = "idle" /\ req[r].out = "none"
  BY <1>1 DEF Init
<1>3. \A r \in Requests : ~Leading(r) /\ ~Redeeming(r) /\ ~Succeeded(r)
  BY <1>2 DEF Leading, Redeeming, Exchanging, Revoking, Minted, Succeeded
<1>4. \A t \in Tokens : coord[t].kind = "none"
  BY DEF Init, NoRecord
<1>. QED
  BY <1>3, <1>4 DEF Winner, LeaderHoldsRecord, OneLeader, OneRedeemer, ResponsesAuthentic

(* The leader of a stored token holds its pending record, and every 200    *)
(* repeats the response of the one request that redeemed the token - as    *)
(* long as awaitRefreshLeader's pending records do not time out.           *)
THEOREM SingleFlight ==
    ASSUME "pending_ttl" \notin Faults
    PROVE  Spec => []SingleFlightInv
<1>1. SingleFlightInv <=> BaseInv /\ Winner
  BY DEF SingleFlightInv, Winner
<1>2. Init => SingleFlightInv
  BY <1>1, BaseInit, WinnerInit
<1>3. SingleFlightInv /\ [Next]_vars => SingleFlightInv'
  <2> SUFFICES ASSUME SingleFlightInv, [Next]_vars PROVE SingleFlightInv'
    OBVIOUS
  <2>1. BaseInv'
    BY BaseStep DEF SingleFlightInv
  <2>2. Winner'
    BY <2>1, WinnerStep
  <2>. QED
    BY <2>1, <2>2 DEF SingleFlightInv, Winner
<1>. QED
  BY <1>2, <1>3, PTL DEF Spec

(* Single flight: however many requests present one refresh token, however *)
(* calls fail and grants expire, the provider sees one exchange at a time  *)
(* for it - provided no leader outlives the time-to-live of its pending    *)
(* record.                                                                 *)
THEOREM SingleWinner ==
    ASSUME "pending_ttl" \notin Faults
    PROVE  Spec => []OneExchangePerToken
<1>1. SingleFlightInv => OneExchangePerToken
  BY DEF SingleFlightInv, OneRedeemer, OneExchangePerToken, Redeeming
<1>. QED
  BY <1>1, SingleFlight, PTL

(* Provided the same, every 200 for a token carries the session and the    *)
(* successor of the one request that exchanged it.                         *)
THEOREM SuccessesAgree ==
    ASSUME "pending_ttl" \notin Faults
    PROVE  Spec => []AllSuccessesAgree
<1>1. SingleFlightInv => AllSuccessesAgree
  BY DEF SingleFlightInv, OneRedeemer, ResponsesAuthentic, Authentic, AllSuccessesAgree,
     Redeeming, BaseInv, TypeOK, RequestStates, LocalsOK, Responses
<1>. QED
  BY <1>1, SingleFlight, PTL

-----------------------------------------------------------------------------
(* Sessions and successors go to the client of the grant *)

(* What the locals and the answer of a request name was issued. *)
LEMMA NamesIssued ==
    ASSUME BaseInv
    PROVE  /\ \A s \in Requests :
                /\ req[s].rotated \in issued \cup {None}
                /\ Succeeded(s) => req[s].response.refresh \in issued \cup {None}
           /\ \A t \in Tokens : coord[t].kind = "replay"
                                => coord[t].response.refresh \in issued \cup {None}
BY DEF BaseInv, LocalsOK, IssuedOK

(* Whoever did not move keeps what it holds: a grant that was issued is    *)
(* never overwritten.  It remains to look at r and at new replay records.  *)
LEMMA OthersHold ==
    ASSUME ClientsInv, BaseInv', NEW r \in Requests,
           \A s \in Requests : s # r => req'[s] = req[s],
           \A t \in issued : t \in issued' /\ kv'[t] \in {kv[t], None},
           \A t \in Tokens : coord'[t].kind = "replay"
                             => coord'[t] = coord[t] \/ OfItsClient(coord[t].response)',
           HoldsItsClients(r)'
    PROVE  ClientsInv'
<1> USE DEF ClientsInv
<1>1. ASSUME NEW s \in Requests, s # r PROVE HoldsItsClients(s)'
  <2>1. /\ req'[s] = req[s] /\ (Owed(s)' <=> Owed(s)) /\ (Succeeded(s)' <=> Succeeded(s))
        /\ Tok(s)' = Tok(s)
    BY <1>1 DEF Owed, Redeeming, Exchanging, Revoking, Minted, Succeeded, Tok
  <2>2. /\ Succeeded(s) => OfItsClient(req[s].response)
        /\ Succeeded(s) => req[s].response.refresh \in issued \cup {None}
        /\ req[s].rotated \in issued \cup {None}
    BY NamesIssued DEF HoldsItsClients
  <2>3. Succeeded(s) => OfItsClient(req[s].response)'
    BY <2>1, <2>2 DEF OfItsClient
  <2>. QED
    BY <2>1, <2>2, <2>3 DEF HoldsItsClients
<1>2. ASSUME NEW t \in Tokens, coord'[t].kind = "replay", coord'[t] = coord[t]
      PROVE  OfItsClient(coord[t].response)'
  BY <1>2, NamesIssued DEF OfItsClient
<1>. QED
  BY <1>1, <1>2, Zenon DEF ClientsInv

(* A request that keeps what it holds, or holds nothing any more. *)
LEMMA CalmStep ==
    ASSUME ClientsInv, BaseInv', NEW r \in Requests,
           \A s \in Requests : s # r => req'[s] = req[s],
           \/ /\ req'[r].token = req[r].token /\ req'[r].client = req[r].client
              /\ req'[r].grant = req[r].grant /\ req'[r].rotated = req[r].rotated
              /\ req'[r].response = req[r].response
              /\ Owed(r)' => Owed(r)
              /\ Succeeded(r)' => Succeeded(r)
              /\ req'[r].pc \in {"begin", "get"} => req[r].pc \in {"begin", "get"}
           \/ /\ req'[r].grant = None /\ req'[r].rotated = None
              /\ ~Owed(r)' /\ ~Succeeded(r)',
           \A t \in issued : t \in issued' /\ kv'[t] \in {kv[t], None},
           \A t \in Tokens : coord'[t].kind = "replay" => coord'[t] = coord[t]
    PROVE  ClientsInv'
<1>1. HoldsItsClients(r)'
  <2>1. CASE req'[r].grant = None /\ req'[r].rotated = None
             /\ ~Owed(r)' /\ ~Succeeded(r)'
    BY <2>1 DEF HoldsItsClients
  <2>2. CASE /\ req'[r].token = req[r].token /\ req'[r].client = req[r].client
             /\ req'[r].grant = req[r].grant /\ req'[r].rotated = req[r].rotated
             /\ req'[r].response = req[r].response
             /\ Owed(r)' => Owed(r)
             /\ Succeeded(r)' => Succeeded(r)
             /\ req'[r].pc \in {"begin", "get"} => req[r].pc \in {"begin", "get"}
    <3>1. HoldsItsClients(r) /\ Tok(r)' = Tok(r)
      BY <2>2 DEF ClientsInv, Tok
    <3>2. /\ Succeeded(r) => req[r].response.refresh \in issued \cup {None}
          /\ req[r].rotated \in issued \cup {None}
      BY NamesIssued DEF ClientsInv
    <3>3. Succeeded(r)' => OfItsClient(req[r].response)'
      BY <2>2, <3>1, <3>2 DEF OfItsClient, HoldsItsClients
    <3>. QED
      BY <2>2, <3>1, <3>2, <3>3 DEF HoldsItsClients
  <2>. QED
    BY <2>1, <2>2
<1>. QED
  BY <1>1, OthersHold

(* r is answered something other than 200. *)
LEMMA CalmAnswer ==
    ASSUME ClientsInv, BaseInv', NEW r \in Requests,
           NEW out \in Outcomes \ {"ok"}, Answer(r, out, None),
           UNCHANGED <<kv, issued>>,
           \A t \in Tokens : coord'[t] \in {coord[t], NoRecord}
    PROVE  ClientsInv'
<1>1. /\ req'[r].pc = "done" /\ req'[r].out = out
      /\ req'[r].rotated = None /\ req'[r].grant = None
      /\ \A s \in Requests : s # r => req'[s] = req[s]
  BY AnswerFields DEF ClientsInv, BaseInv
<1>2. ~Owed(r)' /\ ~Succeeded(r)'
  BY <1>1 DEF Owed, Redeeming, Exchanging, Revoking, Minted, Succeeded
<1>. QED
  BY <1>1, <1>2, CalmStep DEF NoRecord

(* r is answered 200 with a response of its own client. *)
LEMMA OwnAnswer ==
    ASSUME ClientsInv, BaseInv', NEW r \in Requests,
           NEW resp \in Responses, Answer(r, "ok", resp),
           req[r].client \in {None, resp.client}, OfItsClient(resp),
           UNCHANGED <<kv, issued>>,
           \A t \in Tokens : coord'[t] \in {coord[t], Replay(resp)}
    PROVE  ClientsInv'
<1>1. /\ req'[r].pc = "done" /\ req'[r].out = "ok" /\ req'[r].response = resp
      /\ req'[r].client = req[r].client
      /\ req'[r].rotated = None /\ req'[r].grant = None
      /\ \A s \in Requests : s # r => req'[s] = req[s]
  BY AnswerFields, Labels DEF ClientsInv, BaseInv
<1>2. OfItsClient(resp)'
  BY DEF OfItsClient
<1>3. ~Owed(r)'
  BY <1>1, RefreshAssumption DEF BaseInv, LocalsOK, Owed
<1>4. HoldsItsClients(r)'
  BY <1>1, <1>2, <1>3 DEF HoldsItsClients, OfItsClient
<1>5. \A t \in Tokens : coord'[t] = Replay(resp) => OfItsClient(coord[t].response)'
  BY <1>2 DEF Replay, OfItsClient
<1>. QED
  BY <1>1, <1>4, <1>5, OthersHold

LEMMA ClientsStep ==
    ASSUME ClientsInv, BaseInv', [Next]_vars
    PROVE  ClientsInv'
<1>0. BaseInv /\ TypeOK /\ LocalsOK
  BY DEF ClientsInv, BaseInv
<1>1. ASSUME NEW r \in Requests, SubmitRefresh(r) PROVE ClientsInv'
  <2>1. /\ req'[r].pc = "begin" /\ req'[r].out = "none"
        /\ req'[r].grant = None /\ req'[r].rotated = None
        /\ \A s \in Requests : s # r => req'[s] = req[s]
    BY <1>0, <1>1 DEF SubmitRefresh, FailWith, TypeOK, RequestStates, Go, Idle
  <2>. QED
    BY <1>0, <1>1, <2>1, CalmStep DEF SubmitRefresh, LocalsOK, Owed, Redeeming, Exchanging,
       Revoking, Minted, Succeeded
<1>2. ASSUME NEW r \in Requests, SubmitRevoke(r) PROVE ClientsInv'
  <2>1. /\ req'[r].pc = "revoke_read" /\ req'[r].out = "none"
        /\ req'[r].next = "idp_revoke"
        /\ req'[r].grant = None /\ req'[r].rotated = None
        /\ \A s \in Requests : s # r => req'[s] = req[s]
    BY <1>0, <1>2 DEF SubmitRevoke, FailWith, TypeOK, RequestStates, Go, Idle
  <2>. QED
    BY <1>0, <1>2, <2>1, CalmStep DEF SubmitRevoke, LocalsOK, Owed, Redeeming, Exchanging,
       Revoking, Minted, Succeeded
<1>3. ASSUME NEW r \in Requests, BeginLeader(r) PROVE ClientsInv'
  <2>1. /\ req'[r].token = req[r].token /\ req'[r].client = req[r].client
        /\ req'[r].grant = req[r].grant /\ req'[r].rotated = req[r].rotated
        /\ req'[r].response = req[r].response
        /\ req'[r].pc = "get" /\ req'[r].out = req[r].out
        /\ \A s \in Requests : s # r => req'[s] = req[s]
    BY <1>0, <1>3 DEF BeginLeader, TypeOK, RequestStates, Go
  <2>2. \A t \in Tokens : coord'[t].kind = "replay" => coord'[t] = coord[t]
    BY <1>0, <1>3 DEF BeginLeader, TypeOK, Pending
  <2>. QED
    BY <1>0, <1>3, <2>1, <2>2, CalmStep DEF BeginLeader, LocalsOK, Owed, Redeeming,
       Exchanging, Revoking, Minted, Succeeded
<1>4. ASSUME NEW r \in Requests, BeginWait(r) PROVE ClientsInv'
  <2>1. CASE Answer(r, "busy", None)
    BY <1>0, <1>4, <2>1, CalmAnswer, Labels DEF BeginWait
  <2>2. CASE Go(r, [req[r] EXCEPT !.attempts = req[r].attempts + 1])
    <3>1. /\ req'[r].token = req[r].token /\ req'[r].client = req[r].client
          /\ req'[r].grant = req[r].grant /\ req'[r].rotated = req[r].rotated
          /\ req'[r].response = req[r].response
          /\ req'[r].pc = req[r].pc /\ req'[r].out = req[r].out
          /\ \A s \in Requests : s # r => req'[s] = req[s]
      BY <1>0, <2>2 DEF TypeOK, RequestStates, Go
    <3>. QED
      BY <1>0, <1>4, <3>1, CalmStep DEF BeginWait, LocalsOK, Owed, Redeeming,
         Exchanging, Revoking, Minted, Succeeded
  <2>. QED
    BY <1>4, <2>1, <2>2 DEF BeginWait
<1>5. ASSUME NEW r \in Requests, BeginReplay(r) PROVE ClientsInv'
  <2> DEFINE resp == coord[Tok(r)].response
  <2>1. Tok(r) \in Tokens /\ coord[Tok(r)].kind = "replay"
    BY <1>0, <1>5, RefreshAssumption DEF BeginReplay, TypeOK, LocalsOK
  <2>2. resp \in Responses /\ OfItsClient(resp)
    BY <1>0, <2>1, ResponseTypes DEF ClientsInv
  <2>3. PICK verdict \in ClientVerdicts(r, resp.client) :
          Answer(r, verdict, IF verdict = "ok" THEN resp ELSE None)
    BY <1>5 DEF BeginReplay
  <2>4. /\ verdict \in Outcomes
        /\ verdict = "ok" => req[r].client \in {None, resp.client}
    BY Labels DEF ClientVerdicts
  <2>5. UNCHANGED <<kv, issued, coord>>
    BY <1>5 DEF BeginReplay
  <2>. HIDE DEF resp
  <2>6. CASE verdict = "ok"
    BY <2>2, <2>3, <2>4, <2>5, <2>6, OwnAnswer
  <2>7. CASE verdict # "ok"
    BY <2>3, <2>4, <2>5, <2>7, CalmAnswer
  <2>. QED
    BY <2>6, <2>7
<1>6. ASSUME NEW r \in Requests, GetGrant(r) PROVE ClientsInv'
  <2> DEFINE g == kv[Tok(r)]
  <2>1. PICK verdict \in IF g = None THEN {"unknown_token"}
                                     ELSE ClientVerdicts(r, g.client) :
          Go(r, IF verdict = "ok" THEN [req[r] EXCEPT !.pc = "upstream", !.grant = g]
                                  ELSE FailWith(r, verdict))
    BY <1>6 DEF GetGrant
  <2>2. /\ req[r].pc = "get" /\ req[r].out # "ok" /\ req[r].rotated = None
        /\ Tok(r) \in issued /\ UNCHANGED <<kv, issued, coord>>
    BY <1>0, <1>6 DEF GetGrant, LocalsOK, Succeeded, ClientsInv, HoldsItsClients
  <2>3. CASE verdict = "ok"
    <3>1. g # None /\ req[r].client \in {None, g.client}
      BY <2>1, <2>3 DEF ClientVerdicts
    <3>2. Go(r, [req[r] EXCEPT !.pc = "upstream", !.grant = g])
      BY <2>1, <2>3
    <3>. HIDE DEF g
    <3>3. /\ req'[r].grant = g /\ req'[r].pc = "upstream" /\ req'[r].out = req[r].out
          /\ req'[r].rotated = req[r].rotated /\ req'[r].client = req[r].client
          /\ Tok(r)' = Tok(r)
          /\ \A s \in Requests : s # r => req'[s] = req[s]
      BY <1>0, <3>2 DEF TypeOK, RequestStates, Go, Tok
    <3>4. HoldsItsClients(r)'
      BY <2>2, <3>1, <3>3 DEF g, HoldsItsClients, Succeeded
    <3>. QED
      BY <2>2, <3>3, <3>4, OthersHold
  <2>4. CASE verdict # "ok"
    <3>1. Go(r, FailWith(r, verdict))
      BY <2>1, <2>4
    <3>2. /\ req'[r].token = req[r].token /\ req'[r].client = req[r].client
          /\ req'[r].grant = req[r].grant /\ req'[r].rotated = req[r].rotated
          /\ req'[r].response = req[r].response
          /\ req'[r].pc = "fail" /\ req'[r].out # "ok"
          /\ \A s \in Requests : s # r => req'[s] = req[s]
      BY <1>0, <2>4, <3>1 DEF FailWith, TypeOK, RequestStates, Go
    <3>. QED
      BY <2>2, <3>2, CalmStep DEF Owed, Redeeming, Exchanging, Revoking, Minted, Succeeded
  <2>. QED
    BY <2>3, <2>4
<1>7. ASSUME NEW r \in Requests, UpstreamAccepts(r) PROVE ClientsInv'
  <2>1. PICK q \in Providers :
          \/ Go(r, [req[r] EXCEPT !.pc = "exchange", !.provider = q])
          \/ Go(r, FailWith(r, "upstream_error"))
    BY <1>7 DEF UpstreamAccepts
  <2>2. /\ req'[r].token = req[r].token /\ req'[r].client = req[r].client
        /\ req'[r].grant = req[r].grant /\ req'[r].rotated = req[r].rotated
        /\ req'[r].response = req[r].response
        /\ req'[r].pc \in {"exchange", "fail"} /\ req'[r].out \in {req[r].out, "upstream_error"}
        /\ \A s \in Requests : s # r => req'[s] = req[s]
    <3>1. CASE Go(r, [req[r] EXCEPT !.pc = "exchange", !.provider = q])
      BY <1>0, <3>1 DEF TypeOK, RequestStates, Go
    <3>2. CASE Go(r, FailWith(r, "upstream_error"))
      BY <1>0, <3>2 DEF FailWith, TypeOK, RequestStates, Go
    <3>. QED
      BY <2>1, <3>1, <3>2
  <2>. QED
    BY <1>0, <1>7, <2>2, CalmStep DEF UpstreamAccepts, LocalsOK, Owed, Redeeming,
       Exchanging, Revoking, Minted, Succeeded
<1>8. ASSUME NEW r \in Requests, UpstreamRejects(r) PROVE ClientsInv'
  <2>1. /\ req'[r].token = req[r].token /\ req'[r].client = req[r].client
        /\ req'[r].grant = req[r].grant /\ req'[r].rotated = req[r].rotated
        /\ req'[r].response = req[r].response
        /\ req'[r].pc = "revoke_read" /\ req'[r].next = "fail" /\ req'[r].out # "ok"
        /\ \A s \in Requests : s # r => req'[s] = req[s]
    BY <1>0, <1>8 DEF UpstreamRejects, FailWith, TypeOK, RequestStates, Go, Idle
  <2>. QED
    BY <1>0, <1>8, <2>1, CalmStep DEF UpstreamRejects, LocalsOK, Owed, Redeeming, Exchanging,
       Revoking, Minted, Succeeded
<1>9. ASSUME NEW r \in Requests, UpstreamFails(r) PROVE ClientsInv'
  <2>1. /\ req'[r].token = req[r].token /\ req'[r].client = req[r].client
        /\ req'[r].grant = req[r].grant /\ req'[r].rotated = req[r].rotated
        /\ req'[r].response = req[r].response
        /\ req'[r].pc = "fail" /\ req'[r].out # "ok"
        /\ \A s \in Requests : s # r => req'[s] = req[s]
    BY <1>0, <1>9 DEF UpstreamFails, FailWith, TypeOK, RequestStates, Go, Idle
  <2>. QED
    BY <1>0, <1>9, <2>1, CalmStep DEF UpstreamFails, LocalsOK, Owed, Redeeming, Exchanging,
       Revoking, Minted, Succeeded
<1>10. ASSUME NEW r \in Requests, ExchangeOk(r) PROVE ClientsInv'
  <2>1. /\ req'[r].token = req[r].token /\ req'[r].client = req[r].client
        /\ req'[r].grant = req[r].grant /\ req'[r].rotated = req[r].rotated
        /\ req'[r].response = req[r].response
        /\ req'[r].pc = "replace_get" /\ req'[r].out = req[r].out
        /\ \A s \in Requests : s # r => req'[s] = req[s]
    BY <1>0, <1>10 DEF ExchangeOk, FailWith, TypeOK, RequestStates, Go, Idle
  <2>. QED
    BY <1>0, <1>10, <2>1, CalmStep DEF ExchangeOk, LocalsOK, Owed, Redeeming, Exchanging,
       Revoking, Minted, Succeeded
<1>11. ASSUME NEW r \in Requests, ExchangeFails(r) PROVE ClientsInv'
  <2>1. /\ req'[r].token = req[r].token /\ req'[r].client = req[r].client
        /\ req'[r].grant = req[r].grant /\ req'[r].rotated = req[r].rotated
        /\ req'[r].response = req[r].response
        /\ req'[r].pc = "fail" /\ req'[r].out # "ok"
        /\ \A s \in Requests : s # r => req'[s] = req[s]
    BY <1>0, <1>11 DEF ExchangeFails, FailWith, TypeOK, RequestStates, Go, Idle
  <2>. QED
    BY <1>0, <1>11, <2>1, CalmStep DEF ExchangeFails, LocalsOK, Owed, Redeeming, Exchanging,
       Revoking, Minted, Succeeded
<1>12. ASSUME NEW r \in Requests, ReplaceGet(r) PROVE ClientsInv'
  <2>1. /\ req'[r].token = req[r].token /\ req'[r].client = req[r].client
        /\ req'[r].grant = req[r].grant /\ req'[r].rotated = req[r].rotated
        /\ req'[r].response = req[r].response
        /\ req'[r].pc \in {"complete", "replace_put"} /\ req'[r].out = req[r].out
        /\ \A s \in Requests : s # r => req'[s] = req[s]
    BY <1>0, <1>12 DEF ReplaceGet, FailWith, TypeOK, RequestStates, Go, Idle
  <2>. QED
    BY <1>0, <1>12, <2>1, CalmStep DEF ReplaceGet, LocalsOK, Owed, Redeeming, Exchanging,
       Revoking, Minted, Succeeded
<1>13. ASSUME NEW r \in Requests, ReplacePut(r) PROVE ClientsInv'
  <2> DEFINE g == [client |-> req[r].grant.client, provider |-> req[r].provider]
  <2>1. PICK n \in Tokens \ issued :
          /\ kv' = [kv EXCEPT ![n] = g]
          /\ issued' = issued \cup {n}
          /\ Go(r, [req[r] EXCEPT !.pc = "revoke_read", !.rotated = n, !.next = "complete"])
    BY <1>13 DEF ReplacePut
  <2>2. g.client = req[r].grant.client
    OBVIOUS
  <2>. HIDE DEF g
  <2>3. /\ req'[r].grant = req[r].grant /\ req'[r].pc = "revoke_read"
        /\ req'[r].out = req[r].out /\ req'[r].rotated = n
        /\ req'[r].client = req[r].client /\ Tok(r)' = Tok(r)
        /\ \A s \in Requests : s # r => req'[s] = req[s]
    BY <1>0, <2>1 DEF TypeOK, RequestStates, Go, Tok
  <2>4. /\ kv'[n] = g
        /\ \A t \in issued : t \in issued' /\ kv'[t] \in {kv[t], None}
    BY <1>0, <2>1 DEF TypeOK
  <2>5. Owed(r) /\ ~Succeeded(r)
    BY <1>0, <1>13 DEF ReplacePut, LocalsOK, Owed, Redeeming, Exchanging, Minted, Succeeded
  <2>6. HoldsItsClients(r)'
    BY <2>2, <2>3, <2>4, <2>5 DEF ClientsInv, HoldsItsClients, Succeeded
  <2>. QED
    BY <1>13, <2>3, <2>4, <2>6, OthersHold DEF ReplacePut
<1>14. ASSUME NEW r \in Requests, RevokeRead(r) PROVE ClientsInv'
  <2>1. /\ req'[r].pc \in {"revoke_delete", req[r].next}
        /\ req'[r].next = req[r].next /\ req'[r].out = req[r].out
        /\ req'[r].rotated = req[r].rotated /\ req'[r].client = req[r].client
        /\ req'[r].grant \in {req[r].grant, kv[Tok(r)]}
        /\ Tok(r)' = Tok(r)
        /\ \A s \in Requests : s # r => req'[s] = req[s]
    BY <1>0, <1>14 DEF RevokeRead, TypeOK, RequestStates, Go, Tok
  <2>2. kv[Tok(r)] = None => req'[r].grant = req[r].grant
    BY <1>0, <1>14 DEF RevokeRead, TypeOK, RequestStates, Go
  <2>3. /\ req[r].next \in {"complete", "fail", "idp_revoke"}
        /\ Tok(r) \in issued /\ ~Succeeded(r)
        /\ HoldsItsClients(r)
    BY <1>0, <1>14 DEF RevokeRead, TypeOK, RequestStates, LocalsOK, Succeeded, ClientsInv
  <2>4. Owed(r)' => Owed(r) /\ req[r].grant # None
    BY <1>0, <1>14, <2>1, <2>3 DEF RevokeRead, LocalsOK, Owed, Redeeming, Exchanging,
       Revoking, Minted, Succeeded
  <2>5. HoldsItsClients(r)'
    <3>1. req[r].grant # None => req'[r].grant = req[r].grant
      BY <2>1, <2>2, <2>3 DEF HoldsItsClients
    <3>2. UNCHANGED <<kv, issued>> /\ ~Succeeded(r)'
      BY <1>14, <2>1, <2>3 DEF RevokeRead, Succeeded
    <3>3. req'[r].pc \notin {"begin", "get"}
      BY <2>1, <2>3
    <3>. QED
      BY <2>1, <2>2, <2>3, <2>4, <3>1, <3>2, <3>3 DEF HoldsItsClients
  <2>. QED
    BY <1>14, <2>1, <2>5, OthersHold DEF RevokeRead
<1>15. ASSUME NEW r \in Requests, RevokeDelete(r) PROVE ClientsInv'
  <2>1. /\ req'[r].token = req[r].token /\ req'[r].client = req[r].client
        /\ req'[r].grant = req[r].grant /\ req'[r].rotated = req[r].rotated
        /\ req'[r].response = req[r].response
        /\ req'[r].pc = "revoke_clear" /\ req'[r].next = req[r].next
        /\ req'[r].out = req[r].out
        /\ \A s \in Requests : s # r => req'[s] = req[s]
    BY <1>0, <1>15 DEF RevokeDelete, TypeOK, RequestStates, Go
  <2>2. \A t \in issued : kv'[t] \in {kv[t], None}
    BY <1>0, <1>15 DEF RevokeDelete, TypeOK
  <2>. QED
    BY <1>0, <1>15, <2>1, <2>2, CalmStep DEF RevokeDelete, LocalsOK, Owed, Redeeming,
       Exchanging, Revoking, Minted, Succeeded
<1>16. ASSUME NEW r \in Requests, RevokeClear(r) PROVE ClientsInv'
  <2>1. /\ req'[r].token = req[r].token /\ req'[r].client = req[r].client
        /\ req'[r].grant = req[r].grant /\ req'[r].rotated = req[r].rotated
        /\ req'[r].response = req[r].response
        /\ req'[r].pc = req[r].next /\ req'[r].out = req[r].out
        /\ \A s \in Requests : s # r => req'[s] = req[s]
    BY <1>0, <1>16 DEF RevokeClear, TypeOK, RequestStates, Go
  <2>2. \A t \in Tokens : coord'[t].kind = "replay" => coord'[t] = coord[t]
    BY <1>0, <1>16 DEF RevokeClear, TypeOK, NoRecord
  <2>3. req[r].next \in {"complete", "fail", "idp_revoke"}
    BY <1>0 DEF TypeOK, RequestStates
  <2>. QED
    BY <1>0, <1>16, <2>1, <2>2, <2>3, CalmStep DEF RevokeClear, LocalsOK, Owed, Redeeming,
       Exchanging, Revoking, Minted, Succeeded
<1>17. ASSUME NEW r \in Requests, Complete(r) PROVE ClientsInv'
  <2> DEFINE resp == [client |-> req[r].grant.client, refresh |-> req[r].rotated,
                      session |-> r]
  <2>1. coord' = [coord EXCEPT ![Tok(r)] = Replay(resp)] /\ Answer(r, "ok", resp)
    BY <1>17 DEF Complete
  <2>2. resp \in Responses
    BY <1>0, <1>17, AtType DEF Complete, LocalsOK, Redeeming, Minted, Succeeded,
       RequestStates, Grants, Responses
  <2>3. resp.client = req[r].grant.client /\ resp.refresh = req[r].rotated
    OBVIOUS
  <2>. HIDE DEF resp
  <2>4. Owed(r) /\ UNCHANGED <<kv, issued>>
    BY <1>0, <1>17 DEF Complete, LocalsOK, Owed, Redeeming, Minted, Succeeded
  <2>5. req[r].client \in {None, resp.client} /\ OfItsClient(resp)
    BY <2>3, <2>4 DEF ClientsInv, HoldsItsClients, OfItsClient
  <2>6. \A t \in Tokens : coord'[t] \in {coord[t], Replay(resp)}
    BY <1>0, <2>1 DEF TypeOK
  <2>. QED
    BY <2>1, <2>2, <2>4, <2>5, <2>6, OwnAnswer
<1>18. ASSUME NEW r \in Requests, Fail(r) PROVE ClientsInv'
  <2>1. req[r].out \in Outcomes \ {"ok"}
    BY <1>0, <1>18, AtType DEF Fail, LocalsOK, Succeeded, RequestStates
  <2>2. \A t \in Tokens : coord'[t] \in {coord[t], NoRecord}
    BY <1>0, <1>18 DEF Fail, AfterFail, TypeOK
  <2>. QED
    BY <1>18, <2>1, <2>2, CalmAnswer DEF Fail
<1>19. ASSUME NEW r \in Requests, IdpRevoke(r) PROVE ClientsInv'
  BY <1>19, CalmAnswer, Labels DEF IdpRevoke
<1>20. ASSUME NEW r \in Requests, Abort(r) PROVE ClientsInv'
  BY <1>20, CalmAnswer, Labels DEF Abort
<1>21. ASSUME req' = req, UNCHANGED issued,
              \A t \in issued : kv'[t] \in {kv[t], None},
              \A t \in Tokens : coord'[t].kind = "replay" => coord'[t] = coord[t]
       PROVE  ClientsInv'
  <2>1. ASSUME NEW r \in Requests PROVE ClientsInv'
    BY <1>21, <2>1, CalmStep DEF Owed, Redeeming, Exchanging, Revoking, Minted, Succeeded
  <2>2. CASE Requests = {}
    <3>1. \A t \in Tokens : coord'[t].kind = "replay" => OfItsClient(coord[t].response)'
      BY <1>0, <1>21, NamesIssued DEF ClientsInv, OfItsClient
    <3>. QED
      BY <2>2, <3>1 DEF ClientsInv
  <2>. QED
    BY <2>1, <2>2
<1>22. ASSUME NEW t \in Tokens, ExpireRecord(t) PROVE ClientsInv'
  BY <1>0, <1>21, <1>22 DEF ExpireRecord, NoRecord, TypeOK
<1>23. ASSUME NEW t \in Tokens, ExpireGrant(t) PROVE ClientsInv'
  BY <1>0, <1>21, <1>23 DEF ExpireGrant, TypeOK
<1>24. ASSUME NEW p \in Providers, IdpEnds(p) PROVE ClientsInv'
  BY <1>21, <1>24 DEF IdpEnds
<1>25. ASSUME UNCHANGED vars PROVE ClientsInv'
  BY <1>21, <1>25 DEF vars
<1>. QED
  BY <1>1, <1>2, <1>3, <1>4, <1>5, <1>6, <1>7, <1>8, <1>9, <1>10, <1>11, <1>12, <1>13,
     <1>14, <1>15, <1>16, <1>17, <1>18, <1>19, <1>20, <1>22, <1>23, <1>24, <1>25
     DEF Next, Environment, Step

LEMMA ClientsInit == Init => ClientsInv
<1> SUFFICES ASSUME Init PROVE ClientsInv
  OBVIOUS
<1>1. /\ Idle.pc = "idle" /\ Idle.out = "none" /\ Idle.grant = None /\ Idle.rotated = None
  BY DEF Idle
<1>2. \A r \in Requests : HoldsItsClients(r)
  BY <1>1 DEF Init, HoldsItsClients, Owed, Redeeming, Exchanging, Revoking, Minted, Succeeded
<1>3. \A t \in Tokens : coord[t].kind = "none"
  BY DEF Init, NoRecord
<1>. QED
  BY <1>2, <1>3, BaseInit DEF ClientsInv

(* The grant a refresh works with is the stored one as long as there is    *)
(* one, and the client that asked, the successor put by replace() and the  *)
(* replayed response are all of that grant's client, under any faults.     *)
THEOREM ClientsHold == Spec => []ClientsInv
<1>1. ClientsInv /\ BaseInv' /\ [Next]_vars => ClientsInv'
  BY ClientsStep
<1>. QED
  BY <1>1, ClientsInit, BaseAlways, PTL DEF Spec

(* A client that names itself is only ever handed a session, or a          *)
(* successor token, that belongs to it.                                    *)
THEOREM OwnClients == Spec => []OwnClientOnly
<1>1. ClientsInv => OwnClientOnly
  BY DEF ClientsInv, HoldsItsClients, OfItsClient, OwnClientOnly
<1>. QED
  BY <1>1, ClientsHold, PTL

-----------------------------------------------------------------------------
(* A dead token stays dead *)

(* r redeemed the grant of its token and has yet to record the response. *)
Underway(r) ==
    \/ Exchanging(r) \/ req[r].pc = "complete"
    \/ Revoking(r) /\ req[r].next = "complete"

NoneRevived == \A t \in issued : Redeemable(t)' => Redeemable(t)

(* What each step of a request must not do, unless the token is alive. *)
LEMMA StaysDead ==
    ASSUME BaseInv, NEW r \in Requests,
           \A s \in Requests : s # r => req'[s] = req[s],
           Underway(r)' => /\ req'[r].token = req[r].token
                           /\ Underway(r) \/ kv[Tok(r)] # None,
           \A t \in issued : kv'[t] # None => kv[t] # None,
           \A t \in Tokens : coord'[t].kind = "replay"
                             => coord[t].kind = "replay" \/ (Underway(r) /\ t = Tok(r))
    PROVE  NoneRevived
<1>1. \A t \in Tokens : Underway(r) /\ t = Tok(r) => Redeemable(t)
  BY DEF Underway, Revoking, Redeemable
<1>2. \A s \in Requests : Underway(s)' /\ s # r => Underway(s) /\ Tok(s)' = Tok(s)
  BY DEF Underway, Exchanging, Revoking, Tok
<1>3. \A s \in Requests : Underway(s)' => Tok(s)' = Tok(s)
                                          /\ (Underway(s) \/ kv[Tok(s)] # None)
  BY <1>2 DEF Tok
<1>4. ASSUME NEW t \in issued, Redeemable(t)' PROVE Redeemable(t)
  <2>1. t \in Tokens
    BY DEF BaseInv, TypeOK
  <2>2. CASE kv'[t] # None
    BY <2>2 DEF Redeemable
  <2>3. CASE coord'[t].kind = "replay"
    BY <1>1, <2>1, <2>3 DEF Redeemable
  <2>4. CASE \E s \in Requests : Tok(s)' = t /\ Underway(s)'
    BY <1>3, <2>4 DEF Redeemable, Underway, Revoking
  <2>. QED
    BY <1>4, <2>2, <2>3, <2>4 DEF Redeemable, Underway, Revoking
<1>. QED
  BY <1>4 DEF NoneRevived

(* An answer ends what r had under way. *)
LEMMA AnswerRevivesNone ==
    ASSUME BaseInv, NEW r \in Requests, NEW out \in Outcomes,
           NEW resp \in Responses \cup {None}, Answer(r, out, resp), kv' = kv,
           \A t \in Tokens : coord'[t].kind = "replay"
                             => coord[t].kind = "replay" \/ (Underway(r) /\ t = Tok(r))
    PROVE  NoneRevived
<1>1. req'[r].pc = "done" /\ \A s \in Requests : s # r => req'[s] = req[s]
  BY AnswerFields DEF BaseInv
<1>2. ~Underway(r)'
  BY <1>1 DEF Underway, Exchanging, Revoking
<1>. QED
  BY <1>1, <1>2, StaysDead

LEMMA NoneRevivedStep ==
    ASSUME BaseInv, [Next]_vars
    PROVE  NoneRevived
<1>0. BaseInv /\ TypeOK /\ LocalsOK
  BY DEF BaseInv
<1>1. ASSUME NEW r \in Requests, SubmitRefresh(r) PROVE NoneRevived
  <2>1. /\ req'[r].pc = "begin"
        /\ \A s \in Requests : s # r => req'[s] = req[s]
    BY <1>0, <1>1 DEF SubmitRefresh, Idle, TypeOK, RequestStates, Go
  <2>. QED
    BY <1>0, <1>1, <2>1, StaysDead DEF SubmitRefresh, Underway, Exchanging, Revoking
<1>2. ASSUME NEW r \in Requests, SubmitRevoke(r) PROVE NoneRevived
  <2>1. /\ req'[r].pc = "revoke_read" /\ req'[r].next = "idp_revoke"
        /\ \A s \in Requests : s # r => req'[s] = req[s]
    BY <1>0, <1>2 DEF SubmitRevoke, Idle, TypeOK, RequestStates, Go
  <2>. QED
    BY <1>0, <1>2, <2>1, StaysDead DEF SubmitRevoke, Underway, Exchanging, Revoking
<1>3. ASSUME NEW r \in Requests, BeginLeader(r) PROVE NoneRevived
  <2>1. req'[r].pc = "get" /\ \A s \in Requests : s # r => req'[s] = req[s]
    BY <1>0, <1>3 DEF BeginLeader, TypeOK, RequestStates, Go
  <2>2. \A t \in Tokens : coord'[t].kind = "replay" => coord[t].kind = "replay"
    BY <1>0, <1>3 DEF BeginLeader, TypeOK, Pending
  <2>. QED
    BY <1>0, <1>3, <2>1, <2>2, StaysDead DEF BeginLeader, Underway, Exchanging, Revoking
<1>4. ASSUME NEW r \in Requests, BeginWait(r) PROVE NoneRevived
  <2>1. CASE Answer(r, "busy", None)
    BY <1>0, <1>4, <2>1, AnswerRevivesNone, Labels DEF BeginWait
  <2>2. CASE Go(r, [req[r] EXCEPT !.attempts = req[r].attempts + 1])
    <3>1. req'[r].pc = "begin" /\ \A s \in Requests : s # r => req'[s] = req[s]
      BY <1>0, <1>4, <2>2 DEF BeginWait, TypeOK, RequestStates, Go
    <3>. QED
      BY <1>0, <1>4, <3>1, StaysDead DEF BeginWait, Underway, Exchanging, Revoking
  <2>. QED
    BY <1>4, <2>1, <2>2 DEF BeginWait
<1>5. ASSUME NEW r \in Requests, BeginReplay(r) PROVE NoneRevived
  <2> DEFINE resp == coord[Tok(r)].response
  <2>1. Tok(r) \in Tokens /\ coord[Tok(r)].kind = "replay"
    BY <1>0, <1>5, RefreshAssumption DEF BeginReplay, TypeOK, LocalsOK
  <2>2. resp \in Responses
    BY <1>0, <2>1, ResponseTypes
  <2>3. PICK verdict \in ClientVerdicts(r, resp.client) :
          Answer(r, verdict, IF verdict = "ok" THEN resp ELSE None)
    BY <1>5 DEF BeginReplay
  <2>4. verdict \in Outcomes
    BY Labels DEF ClientVerdicts
  <2>. QED
    BY <1>0, <1>5, <2>2, <2>3, <2>4, AnswerRevivesNone DEF BeginReplay
<1>6. ASSUME NEW r \in Requests, GetGrant(r) PROVE NoneRevived
  <2>1. /\ req'[r].token = req[r].token
        /\ (req'[r].pc = "upstream" /\ kv[Tok(r)] # None) \/ req'[r].pc = "fail"
        /\ \A s \in Requests : s # r => req'[s] = req[s]
    BY <1>0, <1>6 DEF GetGrant, FailWith, ClientVerdicts, TypeOK, RequestStates, Go
  <2>. QED
    BY <1>0, <1>6, <2>1, StaysDead DEF GetGrant, Underway, Exchanging, Revoking
<1>7. ASSUME NEW r \in Requests, UpstreamAccepts(r) PROVE NoneRevived
  <2>1. PICK q \in Providers :
          \/ Go(r, [req[r] EXCEPT !.pc = "exchange", !.provider = q])
          \/ Go(r, FailWith(r, "upstream_error"))
    BY <1>7 DEF UpstreamAccepts
  <2>2. /\ req'[r].token = req[r].token
        /\ \A s \in Requests : s # r => req'[s] = req[s]
    BY <1>0, <2>1 DEF FailWith, TypeOK, RequestStates, Go
  <2>3. Underway(r)
    BY <1>7 DEF UpstreamAccepts, Underway, Exchanging
  <2>. QED
    BY <1>0, <1>7, <2>2, <2>3, StaysDead DEF UpstreamAccepts
<1>8. ASSUME NEW r \in Requests, UpstreamRejects(r) PROVE NoneRevived
  <2>1. /\ req'[r].token = req[r].token
        /\ \A s \in Requests : s # r => req'[s] = req[s]
    BY <1>0, <1>8 DEF UpstreamRejects, TypeOK, RequestStates, Go
  <2>. QED
    BY <1>0, <1>8, <2>1, StaysDead DEF UpstreamRejects, Underway, Exchanging, Revoking
<1>9. ASSUME NEW r \in Requests, UpstreamFails(r) PROVE NoneRevived
  <2>1. /\ req'[r].token = req[r].token
        /\ \A s \in Requests : s # r => req'[s] = req[s]
    BY <1>0, <1>9 DEF UpstreamFails, FailWith, TypeOK, RequestStates, Go
  <2>. QED
    BY <1>0, <1>9, <2>1, StaysDead DEF UpstreamFails, Underway, Exchanging, Revoking
<1>10. ASSUME NEW r \in Requests, ExchangeOk(r) PROVE NoneRevived
  <2>1. /\ req'[r].token = req[r].token
        /\ \A s \in Requests : s # r => req'[s] = req[s]
    BY <1>0, <1>10 DEF ExchangeOk, TypeOK, RequestStates, Go
  <2>. QED
    BY <1>0, <1>10, <2>1, StaysDead DEF ExchangeOk, Underway, Exchanging, Revoking
<1>11. ASSUME NEW r \in Requests, ExchangeFails(r) PROVE NoneRevived
  <2>1. /\ req'[r].token = req[r].token
        /\ \A s \in Requests : s # r => req'[s] = req[s]
    BY <1>0, <1>11 DEF ExchangeFails, FailWith, TypeOK, RequestStates, Go
  <2>. QED
    BY <1>0, <1>11, <2>1, StaysDead DEF ExchangeFails, Underway, Exchanging, Revoking
<1>12. ASSUME NEW r \in Requests, ReplaceGet(r) PROVE NoneRevived
  <2>1. /\ req'[r].token = req[r].token
        /\ \A s \in Requests : s # r => req'[s] = req[s]
    BY <1>0, <1>12 DEF ReplaceGet, TypeOK, RequestStates, Go
  <2>. QED
    BY <1>0, <1>12, <2>1, StaysDead DEF ReplaceGet, Underway, Exchanging, Revoking
<1>13. ASSUME NEW r \in Requests, ReplacePut(r) PROVE NoneRevived
  <2>1. PICK n \in Tokens \ issued :
          kv' = [kv EXCEPT ![n] = [client   |-> req[r].grant.client,
                                   provider |-> req[r].provider]]
    BY <1>13 DEF ReplacePut
  <2>2. \A t \in issued : kv'[t] = kv[t]
    BY <1>0, <2>1 DEF TypeOK
  <2>3. req'[r].token = req[r].token /\ \A s \in Requests : s # r => req'[s] = req[s]
    BY <1>0, <1>13 DEF ReplacePut, TypeOK, RequestStates, Go
  <2>. QED
    BY <1>0, <1>13, <2>2, <2>3, StaysDead DEF ReplacePut, Underway, Exchanging
<1>14. ASSUME NEW r \in Requests, RevokeRead(r) PROVE NoneRevived
  <2>1. /\ req'[r].token = req[r].token /\ req'[r].next = req[r].next
        /\ req'[r].pc \in {"revoke_delete", req[r].next}
        /\ req[r].next \in {"complete", "fail", "idp_revoke"}
        /\ \A s \in Requests : s # r => req'[s] = req[s]
    BY <1>0, <1>14 DEF RevokeRead, TypeOK, RequestStates, Go
  <2>. QED
    BY <1>0, <1>14, <2>1, StaysDead DEF RevokeRead, Underway, Exchanging, Revoking
<1>15. ASSUME NEW r \in Requests, RevokeDelete(r) PROVE NoneRevived
  <2>1. /\ req'[r].token = req[r].token /\ req'[r].next = req[r].next
        /\ req'[r].pc = "revoke_clear"
        /\ \A s \in Requests : s # r => req'[s] = req[s]
    BY <1>0, <1>15 DEF RevokeDelete, TypeOK, RequestStates, Go
  <2>2. \A t \in issued : kv'[t] # None => kv[t] # None
    BY <1>0, <1>15 DEF RevokeDelete, TypeOK
  <2>. QED
    BY <1>0, <1>15, <2>1, <2>2, StaysDead DEF RevokeDelete, Underway, Exchanging, Revoking
<1>16. ASSUME NEW r \in Requests, RevokeClear(r) PROVE NoneRevived
  <2>1. /\ req'[r].token = req[r].token /\ req'[r].pc = req[r].next
        /\ req[r].next \in {"complete", "fail", "idp_revoke"}
        /\ \A s \in Requests : s # r => req'[s] = req[s]
    BY <1>0, <1>16 DEF RevokeClear, TypeOK, RequestStates, Go
  <2>2. \A t \in Tokens : coord'[t].kind = "replay" => coord[t].kind = "replay"
    BY <1>0, <1>16 DEF RevokeClear, TypeOK, NoRecord
  <2>. QED
    BY <1>0, <1>16, <2>1, <2>2, StaysDead DEF RevokeClear, Underway, Exchanging, Revoking
<1>17. ASSUME NEW r \in Requests, Complete(r) PROVE NoneRevived
  <2> DEFINE resp == [client |-> req[r].grant.client, refresh |-> req[r].rotated,
                      session |-> r]
  <2>1. coord' = [coord EXCEPT ![Tok(r)] = Replay(resp)] /\ Answer(r, "ok", resp)
    BY <1>17 DEF Complete
  <2>2. resp \in Responses
    BY <1>0, <1>17, AtType DEF Complete, LocalsOK, Redeeming, Minted, Succeeded,
       RequestStates, Grants, Responses
  <2>. HIDE DEF resp
  <2>3. Underway(r) /\ kv' = kv
    BY <1>17 DEF Complete, Underway
  <2>4. \A t \in Tokens : t # Tok(r) => coord'[t] = coord[t]
    BY <1>0, <2>1 DEF TypeOK
  <2>. QED
    BY <1>0, <2>1, <2>2, <2>3, <2>4, AnswerRevivesNone, Labels
<1>18. ASSUME NEW r \in Requests, Fail(r) PROVE NoneRevived
  <2>1. req[r].out \in Outcomes /\ kv' = kv /\ Answer(r, req[r].out, None)
    BY <1>0, <1>18, AtType DEF Fail, RequestStates
  <2>2. \A t \in Tokens : coord'[t].kind = "replay" => coord[t].kind = "replay"
    BY <1>0, <1>18 DEF Fail, AfterFail, NoRecord, TypeOK
  <2>. QED
    BY <1>0, <2>1, <2>2, AnswerRevivesNone
<1>19. ASSUME NEW r \in Requests, IdpRevoke(r) PROVE NoneRevived
  BY <1>0, <1>19, AnswerRevivesNone, Labels DEF IdpRevoke
<1>20. ASSUME NEW r \in Requests, Abort(r) PROVE NoneRevived
  BY <1>0, <1>20, AnswerRevivesNone, Labels DEF Abort
<1>21. ASSUME req' = req,
              \A t \in issued : kv'[t] # None => kv[t] # None,
              \A t \in issued : coord'[t].kind = "replay" => coord[t].kind = "replay"
       PROVE  NoneRevived
  BY <1>21 DEF NoneRevived, Redeemable, Exchanging, Tok
<1>22. ASSUME NEW t \in Tokens, ExpireRecord(t) PROVE NoneRevived
  BY <1>0, <1>21, <1>22 DEF ExpireRecord, NoRecord, TypeOK
<1>23. ASSUME NEW t \in Tokens, ExpireGrant(t) PROVE NoneRevived
  BY <1>0, <1>21, <1>23 DEF ExpireGrant, TypeOK
<1>24. ASSUME NEW p \in Providers, IdpEnds(p) PROVE NoneRevived
  BY <1>21, <1>24 DEF IdpEnds
<1>25. ASSUME UNCHANGED vars PROVE NoneRevived
  BY <1>21, <1>25 DEF vars
<1>. QED
  BY <1>1, <1>2, <1>3, <1>4, <1>5, <1>6, <1>7, <1>8, <1>9, <1>10, <1>11, <1>12, <1>13,
     <1>14, <1>15, <1>16, <1>17, <1>18, <1>19, <1>20, <1>22, <1>23, <1>24, <1>25
     DEF Next, Environment, Step

(* An issued token that was revoked, rotated or expired, with no refresh   *)
(* of it under way, never turns into a session again.                      *)
THEOREM Dead == Spec => DeadStaysDead
<1>1. BaseInv /\ [Next]_vars
      => [\A t \in issued : ~Redeemable(t) => ~Redeemable(t)']_vars
  BY NoneRevivedStep DEF NoneRevived
<1>. QED
  BY <1>1, BaseAlways, PTL DEF Spec, DeadStaysDead

-----------------------------------------------------------------------------
(* What the in-memory coordinator keeps *)

(* complete() never meets a replay record of its token: it would have been *)
(* written by the one request that redeemed the token, which is over.      *)
LEMMA FirstComplete ==
    ASSUME SingleFlightInv, NEW r \in Requests, Complete(r)
    PROVE  coord[Tok(r)].kind # "replay"
<1> SUFFICES ASSUME coord[Tok(r)].kind = "replay" PROVE FALSE
  OBVIOUS
<1>1. BaseInv /\ LocalsOK /\ OneRedeemer /\ ResponsesAuthentic
  BY DEF SingleFlightInv, BaseInv
<1>2. req[r].pc = "complete" /\ Redeeming(r)
  BY DEF Complete, Redeeming
<1>3. Tok(r) \in Tokens
  BY <1>1, <1>2, StartedToken
<1> DEFINE s == coord[Tok(r)].response.session
<1>4. coord[Tok(r)].response \in Responses /\ Authentic(coord[Tok(r)].response, Tok(r))
  BY <1>1, <1>3, ResponseTypes DEF ResponsesAuthentic
<1>5. s \in Requests /\ Minted(s) /\ Tok(s) = Tok(r)
  BY <1>4 DEF Responses, Authentic
<1>. HIDE DEF s
<1>6. req[s].pc = "done" /\ Redeeming(s)
  BY <1>1, <1>5 DEF LocalsOK, Minted, Redeeming
<1>. QED
  BY <1>1, <1>2, <1>5, <1>6 DEF OneRedeemer

(* failRefresh of the Node server deletes pending records only: a replay   *)
(* record goes with its time-to-live or a revocation of its token.         *)
THEOREM ReplaysOutlive ==
    ASSUME "pending_ttl" \notin Faults, ~Coordinated
    PROVE  Spec => ReplayOutlivesFailures
<1> DEFINE Kept(t) == \/ req' = req
                      \/ \E r \in Requests : /\ req[r].pc = "revoke_clear" /\ Tok(r) = t
                                            /\ req'[r] # req[r]
           Outlive == \A t \in Tokens :
                        coord[t].kind = "replay" /\ coord'[t] # coord[t] => Kept(t)
<1>1. ASSUME SingleFlightInv, [Next]_vars PROVE Outlive
  <2>0. TypeOK /\ LocalsOK
    BY <1>1 DEF SingleFlightInv, BaseInv
  <2>1. ASSUME NEW r \in Requests, BeginLeader(r) PROVE Outlive
    <3>1. \A t \in Tokens : coord[t].kind = "replay" => coord'[t] = coord[t]
      BY <2>0, <2>1 DEF BeginLeader, TypeOK
    <3>. QED
      BY <3>1
  <2>2. ASSUME NEW r \in Requests, RevokeClear(r) PROVE Outlive
    <3>1. \A t \in Tokens : coord'[t] # coord[t] => t = Tok(r)
      BY <2>0, <2>2 DEF RevokeClear, TypeOK
    <3>2. req'[r].pc = req[r].next /\ req[r].next \in {"complete", "fail", "idp_revoke"}
      BY <2>0, <2>2 DEF RevokeClear, TypeOK, RequestStates, Go
    <3>3. req[r].pc = "revoke_clear" /\ req'[r] # req[r]
      BY <2>2, <3>2 DEF RevokeClear
    <3>. QED
      BY <3>1, <3>3
  <2>3. ASSUME NEW r \in Requests, Complete(r) PROVE Outlive
    <3>1. \A t \in Tokens : coord'[t] # coord[t] => t = Tok(r)
      BY <2>0, <2>3 DEF Complete, TypeOK
    <3>. QED
      BY <1>1, <2>3, <3>1, FirstComplete
  <2>4. ASSUME NEW r \in Requests, Fail(r) PROVE Outlive
    <3>1. \A t \in Tokens : coord[t].kind = "replay" => coord'[t] = coord[t]
      BY <2>0, <2>4 DEF Fail, AfterFail, TypeOK
    <3>. QED
      BY <3>1
  <2>5. ASSUME coord' = coord \/ req' = req PROVE Outlive
    BY <2>5
  <2>. HIDE DEF Outlive
  <2>6. ASSUME NEW r \in Requests, SubmitRefresh(r) \/ SubmitRevoke(r) \/ Abort(r)
        PROVE  Outlive
    BY <2>5, <2>6 DEF SubmitRefresh, SubmitRevoke, Abort
  <2>7. ASSUME NEW t \in Tokens, ExpireRecord(t) \/ ExpireGrant(t) PROVE Outlive
    BY <2>5, <2>7 DEF ExpireRecord, ExpireGrant
  <2>8. ASSUME NEW p \in Providers, IdpEnds(p) PROVE Outlive
    BY <2>5, <2>8 DEF IdpEnds
  <2>9. ASSUME NEW r \in Requests, Step(r) PROVE Outlive
    BY <2>1, <2>2, <2>3, <2>4, <2>5, <2>9 DEF Step, BeginWait, BeginReplay, GetGrant,
       UpstreamAccepts, UpstreamRejects, UpstreamFails, ExchangeOk, ExchangeFails,
       ReplaceGet, ReplacePut, RevokeRead, RevokeDelete, IdpRevoke
  <2>10. ASSUME UNCHANGED vars PROVE Outlive
    BY <2>5, <2>10 DEF vars
  <2>. QED
    BY <1>1, <2>6, <2>7, <2>8, <2>9, <2>10 DEF Next, Environment
<1>2. SingleFlightInv /\ [Next]_vars => [Outlive]_vars
  BY <1>1
<1>. QED
  BY <1>2, SingleFlight, PTL DEF Spec, ReplayOutlivesFailures

=============================================================================
