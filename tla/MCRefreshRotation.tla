------------------------- MODULE MCRefreshRotation -------------------------
(***************************************************************************)
(* Small instances of RefreshRotation for TLC.                             *)
(***************************************************************************)
EXTENDS RefreshRotation, TLC

CONSTANTS r1, r2, r3, t1, t2, t3, t4, c1, c2, p1, p2, p3

ThreeRequests == {r1, r2, r3}
TwoRequests   == {r1, r2}

(* One token to start from and a fresh one for every request. *)
FourTokens  == {t1, t2, t3, t4}
ThreeTokens == {t1, t2, t3}
OneInitial  == {t1}

TwoClients == {c1, c2}
OneClient  == {c1}

ThreeProviders == {p1, p2, p3}
TwoProviders   == {p1, p2}

(* Requests and the tokens not yet issued are interchangeable: no          *)
(* definition names one of them.                                           *)
Symmetry == Permutations(ThreeRequests) \cup Permutations({t2, t3, t4})

NoFaults     == {}
RecordTtls   == {"pending_ttl", "replay_ttl"}
AllButExpiry == FaultKinds \ {"pending_ttl"}
Orderly      == FaultKinds \ {"pending_ttl", "abort"}

=============================================================================
