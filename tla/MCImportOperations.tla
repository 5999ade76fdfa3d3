------------------------ MODULE MCImportOperations ------------------------
(***************************************************************************)
(* Small instances of the import service.                                  *)
(***************************************************************************)
EXTENDS ImportOperations, TLC

CONSTANTS c1, c2, o1, o2, o3, u1, u2, k1, x1, j1

TwoCalls   == {c1, c2}
OneOp      == {o1}
TwoOps     == {o1, o2}
ThreeOps   == {o1, o2, o3}
OneUser    == {u1}
TwoUsers   == {u1, u2}
OneKey     == {k1}
OneDraft   == {x1}
OneJob     == {j1}

NoFaults  == {}
AllFaults == StoreFaults

StartOnly   == {"start"}
EveryKind   == AllKinds
CancelKinds == {"start", "publish", "cancel"}

(* quick is start, watch, compile and publish one after the other. *)
RacingKinds == AllKinds \ {"quick"}

Earlier(u, s, x, j) ==
    [user |-> u, key |-> k1, status |-> s, capsule |-> x, job |-> j, diags |-> {}]

Empty     == [o \in Ops |-> None]
Draft     == [o \in Ops |-> IF o = o1 THEN Earlier(u1, "draft_ready", x1, None) ELSE None]
Importing == [o \in Ops |-> IF o = o1 THEN Earlier(u1, "waiting_on_import_job", None, j1)
                                      ELSE None]

FromNothing == {Empty}
FromEarlier == {Draft, Importing}
FromAny     == {Empty, Draft, Importing}

(* The seeds name o1, u1 and x1; calls are alike, and so are other ids. *)
Symmetry == Permutations(Calls) \cup Permutations(Ops \ {o1})

=============================================================================
