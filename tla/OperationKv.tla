---------------------------- MODULE OperationKv ----------------------------
(***************************************************************************)
(* The operation store of the Worker: OperationStoreKv over a key-value    *)
(* namespace.  An operation lives under three keys: its own record, the    *)
(* pointer from (user, idempotency key) to its id, and the user's index of *)
(* recently touched ids.  Every method is a chain of awaited gets and      *)
(* puts, and nothing makes a chain atomic: one action here is one get or   *)
(* one put.  The store is driven by calls, each with at most one method    *)
(* under way; modules that EXTEND this one decide which.                   *)
(***************************************************************************)
EXTENDS Naturals, Sequences

CONSTANTS
    Calls,      \* callers of the store
    Ops,        \* operation ids
    Users, Keys,
    Capsules,   \* ids of upstream drafts
    Jobs,       \* ids of upstream import jobs
    None,       \* "no such value"
    MaxIndex,   \* maxIndexSize (500 in the code)
    Faults      \* which of StoreFaults the environment may produce

Statuses ==
    {"received", "validating", "normalized", "ingesting",
     "waiting_on_import_job", "draft_ready", "compile_running",
     "compile_failed", "publish_running", "published", "failed", "canceled"}

(* Diagnostics that matter here: a failure code, or PUBLISHED. *)
Codes == {"failure", "published"}

Operations ==
    [user: Users, key: Keys, status: Statuses, capsule: Capsules \cup {None},
     job: Jobs \cup {None}, diags: SUBSET Codes]

(* The arguments of updateStatus and addDiagnostic: None leaves a field. *)
ChangeRecords ==
    [status: Statuses \cup {None}, capsule: Capsules \cup {None},
     job: Jobs \cup {None}, diags: SUBSET Codes]

StoreFaults == {"kv_error", "evict"}

ASSUME StoreAssumption ==
    /\ None \notin Ops \cup Users \cup Keys \cup Capsules \cup Jobs
                   \cup Statuses \cup Operations \cup ChangeRecords
    /\ MaxIndex \in Nat \ {0}
    /\ Faults \subseteq StoreFaults

VARIABLES
    ops,    \* ops[o]: the record under op:o, or None
    idem,   \* idem[u][k]: the id under idem:u:k, or None
    index,  \* index[u]: the ids under ops:user:u, most recently touched first
    st      \* st[c]: the method c is executing and its locals

storeVars == <<ops, idem, index, st>>

-----------------------------------------------------------------------------

Steps == {"idle", "lookup", "get", "list", "put", "put_pointer", "read",
          "write", "ix_read", "ix_write", "ok", "threw"}

Quiet == [step |-> "idle", op |-> None, user |-> None, key |-> None,
          change |-> None, snap |-> None, seen |-> <<>>]

(* What a caller hands over when it calls a method. *)
GetByIdempotency(u, k) == [Quiet EXCEPT !.step = "lookup", !.user = u, !.key = k]
GetById(o)             == [Quiet EXCEPT !.step = "get", !.op = o]
ListByUser(u)          == [Quiet EXCEPT !.step = "list", !.user = u]
Create(o, rec)         == [Quiet EXCEPT !.step = "put", !.op = o, !.snap = rec]
Update(o, change)      == [Quiet EXCEPT !.step = "read", !.op = o, !.change = change]

(* What a method returns: an operation and its id, or a list of ids. *)
Returned(o, rec) == [Quiet EXCEPT !.step = "ok", !.op = o, !.snap = rec]

StoreCalls ==
    [step: Steps, op: Ops \cup {None}, user: Users \cup {None},
     key: Keys \cup {None}, change: ChangeRecords \cup {None},
     snap: Operations \cup {None}, seen: Seq(Ops)]

StoreTypeOK ==
    /\ ops \in [Ops -> Operations \cup {None}]
    /\ idem \in [Users -> [Keys -> Ops \cup {None}]]
    /\ index \in [Users -> Seq(Ops)]
    /\ st \in [Calls -> StoreCalls]

NewOperation(u, k) ==
    [user |-> u, key |-> k, status |-> "received", capsule |-> None,
     job |-> None, diags |-> {}]

Apply(o, change) ==
    [o EXCEPT !.status  = IF change.status = None THEN @ ELSE change.status,
              !.capsule = IF change.capsule = None THEN @ ELSE change.capsule,
              !.job     = IF change.job = None THEN @ ELSE change.job,
              !.diags   = @ \cup change.diags]

(* ids without o, whose order is kept. *)
Without(ids, o) ==
    LET kept[i \in 0 .. Len(ids)] ==
          IF i = 0 THEN <<>>
          ELSE IF ids[i] = o THEN kept[i - 1] ELSE Append(kept[i - 1], ids[i])
    IN  kept[Len(ids)]

(* touchUserIndex and the trim of writeUserIndex. *)
MutantTouch(ids, o) == <<o>> \o Without(ids, o)
MutantTouchPresent(ids, o) ==
    IF \E i \in 1 .. Len(ids) : ids[i] = o THEN <<o>> \o Without(ids, o) ELSE ids
Touch(ids, o) ==
    LET all == <<o>> \o Without(ids, o)
    IN  SubSeq(all, 1, IF Len(all) > MaxIndex THEN MaxIndex ELSE Len(all))

Set(c, s) == st' = [st EXCEPT ![c] = s]

-----------------------------------------------------------------------------
(* One get or put of the method c is executing *)

LookupPointer(c) ==
    /\ st[c].step = "lookup"
    /\ LET o == idem[st[c].user][st[c].key]
       IN  Set(c, IF o = None THEN Returned(None, None) ELSE GetById(o))
    /\ UNCHANGED <<ops, idem, index>>

Fetch(c) ==
    /\ st[c].step = "get"
    /\ Set(c, Returned(st[c].op, ops[st[c].op]))
    /\ UNCHANGED <<ops, idem, index>>

(* The index is read; the records are fetched when the caller uses them. *)
FetchList(c) ==
    /\ st[c].step = "list"
    /\ Set(c, [Quiet EXCEPT !.step = "ok", !.seen = index[st[c].user]])
    /\ UNCHANGED <<ops, idem, index>>

MutantPutNew(c) ==
    /\ st[c].step = "put"
    /\ idem' = [idem EXCEPT ![st[c].snap.user][st[c].snap.key] = st[c].op]
    /\ Set(c, [st[c] EXCEPT !.step = "put_pointer"])
    /\ UNCHANGED <<ops, index>>
PutNew(c) ==
    /\ st[c].step = "put"
    /\ ops' = [ops EXCEPT ![st[c].op] = st[c].snap]
    /\ Set(c, [st[c] EXCEPT !.step = "put_pointer"])
    /\ UNCHANGED <<idem, index>>

MutantPutPointer(c) ==
    /\ st[c].step = "put_pointer"
    /\ Set(c, [st[c] EXCEPT !.step = "ix_read"])
    /\ UNCHANGED <<ops, idem, index>>
PutPointer(c) ==
    /\ st[c].step = "put_pointer"
    /\ idem' = [idem EXCEPT ![st[c].snap.user][st[c].snap.key] = st[c].op]
    /\ Set(c, [st[c] EXCEPT !.step = "ix_read"])
    /\ UNCHANGED <<ops, index>>

ReadForUpdate(c) ==
    /\ st[c].step = "read"
    /\ LET o == ops[st[c].op]
       IN  Set(c, IF o = None THEN [Quiet EXCEPT !.step = "threw"]
                              ELSE [st[c] EXCEPT !.step = "write", !.snap = o])
    /\ UNCHANGED <<ops, idem, index>>

(* The record read before is written back whole, with the change. *)
WriteBack(c) ==
    /\ st[c].step = "write"
    /\ LET o == Apply(st[c].snap, st[c].change)
       IN  /\ ops' = [ops EXCEPT ![st[c].op] = o]
           /\ Set(c, [st[c] EXCEPT !.step = "ix_read", !.snap = o, !.change = None])
    /\ UNCHANGED <<idem, index>>

ReadIndex(c) ==
    /\ st[c].step = "ix_read"
    /\ Set(c, [st[c] EXCEPT !.step = "ix_write", !.seen = index[st[c].snap.user]])
    /\ UNCHANGED <<ops, idem, index>>

WriteIndex(c) ==
    /\ st[c].step = "ix_write"
    /\ index' = [index EXCEPT ![st[c].snap.user] = Touch(st[c].seen, st[c].op)]
    /\ Set(c, Returned(st[c].op, st[c].snap))
    /\ UNCHANGED <<ops, idem>>

(* A get or a put rejects. *)
KvRejects(c) ==
    /\ "kv_error" \in Faults
    /\ st[c].step \notin {"idle", "ok", "threw"}
    /\ Set(c, [Quiet EXCEPT !.step = "threw"])
    /\ UNCHANGED <<ops, idem, index>>

StoreStep(c) ==
    \/ LookupPointer(c) \/ Fetch(c) \/ FetchList(c)
    \/ PutNew(c) \/ PutPointer(c)
    \/ ReadForUpdate(c) \/ WriteBack(c)
    \/ ReadIndex(c) \/ WriteIndex(c)
    \/ KvRejects(c)

(* Ids are random: nobody holds an id that is about to be created. *)
MutantFresh(o) == \A d \in Calls : st[d].op # o
Fresh(o) == ops[o] = None /\ \A d \in Calls : st[d].op # o

-----------------------------------------------------------------------------
(* An idempotency pointer, once it can be read, leads to an operation of   *)
(* that very user and key: create writes the record before the pointer,    *)
(* and no update moves a record to another owner.                          *)
PointersSound ==
    \A u \in Users, k \in Keys :
        LET o == idem[u][k]
        IN  o # None => ops[o] # None /\ ops[o].user = u /\ ops[o].key = k

(* A user's index names operations of that user only, each once, and never *)
(* more than the limit, whatever updates race on it.                       *)
IndexSound ==
    \A u \in Users :
        /\ Len(index[u]) <= MaxIndex
        /\ \A i \in 1 .. Len(index[u]) :
             /\ ops[index[u][i]] # None
             /\ ops[index[u][i]].user = u
             /\ \A j \in 1 .. Len(index[u]) : index[u][i] = index[u][j] => i = j

(* Nothing deletes an operation, gives it to another user or changes its   *)
(* key, in whatever order stale copies are written back.                   *)
OwnerFixed ==
    [][\A o \in Ops : ops[o] # None =>
         /\ ops'[o] # None
         /\ ops'[o].user = ops[o].user /\ ops'[o].key = ops[o].key]_storeVars

=============================================================================
