------------------------ MODULE MCAuthorizationCodes ------------------------
(***************************************************************************)
(* A small instance of the authorization-code grant: two logins of one     *)
(* client, two sign-ins, callbacks, codes and token requests; one of two    *)
(* redirect URIs is registered.                                            *)
(***************************************************************************)
EXTENDS AuthorizationCodes, TLC

CONSTANTS n1, n2, m1, d1, d2, v1, v2, p1, p2, b1, b2, r1, r2, g1, g2, i1

TwoLogins == {n1, n2}
OneClient == {m1}
OneRegistered == [c \in Clients |-> {d1}]
TwoRedirects  == {d1, d2}
TwoVerifiers  == {v1, v2}
TwoProviderCodes == {p1, p2}
TwoCallbacks == {b1, b2}
TwoRequests  == {r1, r2}
TwoCodes     == {g1, g2}
OneIsolate   == {i1}
AllFaults    == CodeFaults

Symmetry == Permutations(Logins) \cup Permutations(Verifiers)
            \cup Permutations(ProviderCodes) \cup Permutations(Callbacks)
            \cup Permutations(Requests) \cup Permutations(Codes)

=============================================================================
