---------------------------- MODULE OneShotCodes ----------------------------
(***************************************************************************)
(* What authorization codes promise: a code is issued for one grant, is    *)
(* redeemed by at most one request, which shows the proof the grant asks   *)
(* for, and is dead from then on, or dies unredeemed.                      *)
(***************************************************************************)
CONSTANTS
    Codes, Requests,
    Grants, NoGrant, \* NoGrant is no grant
    Proofs,          \* what a request can show of itself
    Rightful(_, _)   \* Rightful(q, g): proof q entitles to a code of grant g

VARIABLES
    grant,     \* grant[c]: what c was issued for, or NoGrant
    live,      \* the codes that can be redeemed
    redeemers  \* redeemers[c]: who has redeemed c, and with which proof

oneShotVars == <<grant, live, redeemers>>

OneShotTypeOK ==
    /\ grant \in [Codes -> Grants \cup {NoGrant}]
    /\ live \in SUBSET Codes
    /\ redeemers \in [Codes -> SUBSET (Requests \X Proofs)]

OneShotInit ==
    /\ grant = [c \in Codes |-> NoGrant]
    /\ live = {}
    /\ redeemers = [c \in Codes |-> {}]

Issue(c) ==
    /\ grant[c] = NoGrant
    /\ live' = live \cup {c}
    /\ UNCHANGED redeemers
    /\ \E g \in Grants : grant' = [grant EXCEPT ![c] = g]

Redeem(c, r, q) ==
    /\ c \in live
    /\ Rightful(q, grant[c])
    /\ live' = live \ {c}
    /\ redeemers' = [redeemers EXCEPT ![c] = {<<r, q>>}]
    /\ UNCHANGED grant

(* Expiry, a request that is not the rightful one, or a lost store. *)
Die(dead) ==
    /\ dead \subseteq live
    /\ live' = live \ dead
    /\ UNCHANGED <<grant, redeemers>>

OneShotNext ==
    \/ \E c \in Codes : Issue(c)
    \/ \E c \in Codes, r \in Requests, q \in Proofs : Redeem(c, r, q)
    \/ \E dead \in SUBSET live : Die(dead)

OneShotSpec == OneShotInit /\ [][OneShotNext]_oneShotVars

=============================================================================
