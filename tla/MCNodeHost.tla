----------------------------- MODULE MCNodeHost -----------------------------
(***************************************************************************)
(* A small Node server: either traffic that the limiter counts, with time  *)
(* passing, or handlers that share the operation store.                    *)
(***************************************************************************)
EXTENDS NodeHost, TLC

CONSTANTS r1, r2, r3, r4, r5, o1, a, b

AllRequests == {r1, r2, r3, r4, r5}
SomeInodes  == 1 .. 7
OneOp       == {o1}
TwoClients  == {a, b}
TwoOrThree  == [k \in TwoClients |-> IF k = a THEN 2 ELSE 3]
FileErrors  == FileFaults

(* Three requests are alike, so that they can be permuted. *)
Mix(alike, fourth, fifth, until, n) ==
    [route |-> [r \in AllRequests |-> IF r = r4 THEN fourth
                                      ELSE IF r = r5 THEN fifth ELSE alike],
     key |-> [r \in AllRequests |-> IF alike = "store" \/ r = r5 THEN b ELSE a],
     until |-> until, restarts |-> n, parallel |-> 2]

(* Four requests of one client and one of another over three windows; what *)
(* is refused before the limiter and around the app; three handlers on the *)
(* store, two at a time, and a restart between any two steps.               *)
Counted == Mix("health", "unknown", "callback", 10, 0)
Refused == Mix("forbidden", "oversized", "malformed", 1, 1)
Storing == Mix("store", "none", "none", 0, 1)

Mixes == {Counted, Refused, Storing}

Symmetry == Permutations({r1, r2, r3})

=============================================================================
