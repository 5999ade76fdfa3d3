----------------------- MODULE ImportOperationsProofs -----------------------
(***************************************************************************)
(* The import service keeps ImportInv, with any number of calls running at *)
(* once, every store fault and any finite or infinite set of users, keys,  *)
(* operations, drafts and jobs.  A step of the service replaces the flow   *)
(* and the store method of one call (FlowStep), a step of the store its    *)
(* method and one entry of the store; what other calls hold survives both, *)
(* since no operation loses its owner or key and no draft stops being live.*)
(*                                                                         *)
(* Where a client waits for one call before it makes another, the service  *)
(* keeps SerialInv as well.  ServiceStep and SerialCallsKept say what such *)
(* a step has to show: that the running call's copies are still current,   *)
(* that its next write fits, and that no operation is left behind.         *)
(***************************************************************************)
EXTENDS ImportOperations, OperationKvProofs

JobRecords ==
    [state: {"unborn", "running", "completed", "failed", "canceled"},
     capsule: Capsules \cup {None}]

Drafts == [Capsules -> {"unborn", "draft", "live"}]

(* What a step may do to the records and to the drafts. *)
Grows(recs, recs2) ==
    \A o \in Ops : recs[o] # None =>
        recs2[o] # None /\ recs2[o].user = recs[o].user /\ recs2[o].key = recs[o].key

LiveStays(drafts, drafts2) ==
    \A x \in Capsules : drafts[x] = "live" => drafts2[x] = "live"

Upstream ==
    /\ capsules' \in Drafts /\ LiveStays(capsules, capsules')
    /\ jobs' \in [Jobs -> JobRecords]

StoreUnchanged == UNCHANGED <<ops, idem, index>>

LEMMA Distinguished ==
    /\ None \notin Ops /\ None \notin Users /\ None \notin Keys
    /\ None \notin Capsules /\ None \notin Jobs
    /\ None \notin Operations /\ None \notin ChangeRecords /\ None \notin Statuses
    /\ None # "compile"
BY StoreAssumption, ImportAssumption DEF Phases

-----------------------------------------------------------------------------
(* What a call holds survives the steps of others *)

LEMMA HeldStable ==
    ASSUME NEW recs, NEW recs2, NEW drafts, NEW drafts2,
           Grows(recs, recs2), LiveStays(drafts, drafts2),
           NEW o, NEW rec \in Operations \cup {None}, Held(rec, o, recs, drafts)
    PROVE  Held(rec, o, recs2, drafts2)
<1>1. rec \in Operations /\ rec.capsule \in Capsules \cup {None}
  BY DEF Held, Operations
<1>. QED BY <1>1 DEF Held, Grows, LiveStays, LiveIfPublished

LEMMA ListStable ==
    ASSUME NEW recs, NEW recs2, Grows(recs, recs2),
           NEW ids \in Seq(Ops), NEW u, SoundList(ids, u, recs)
    PROVE  SoundList(ids, u, recs2)
<1>1. \A i \in 1 .. Len(ids) : ids[i] \in Ops
  OBVIOUS
<1>. QED BY <1>1 DEF SoundList, Grows

LEMMA MethodStable ==
    ASSUME NEW recs, NEW recs2, NEW drafts, NEW drafts2,
           Grows(recs, recs2), LiveStays(drafts, drafts2),
           NEW s \in StoreCalls, SoundMethod(s, recs, drafts),
           s.step = "put" => recs2[s.op] = None
    PROVE  SoundMethod(s, recs2, drafts2)
<1>1. /\ s.snap \in Operations \cup {None} /\ s.seen \in Seq(Ops)
      /\ s.change \in ChangeRecords \cup {None}
  BY DEF StoreCalls
<1>2. ASSUME s.step = "put"
      PROVE  /\ s.op \in Ops /\ recs2[s.op] = None
             /\ s.snap # None /\ LiveIfPublished(s.snap, drafts2)
  <2>1. s.op \in Ops /\ s.snap # None /\ LiveIfPublished(s.snap, drafts)
    BY <1>2 DEF SoundMethod
  <2>2. s.snap.capsule \in Capsules \cup {None}
    BY <1>1, <2>1 DEF Operations
  <2>. QED BY <1>2, <2>1, <2>2 DEF LiveIfPublished, LiveStays
<1>3. ASSUME s.step \in {"put_pointer", "write", "ix_read", "ix_write"}
      PROVE  Held(s.snap, s.op, recs2, drafts2)
  <2>1. Held(s.snap, s.op, recs, drafts)
    BY <1>3 DEF SoundMethod
  <2>. QED BY <1>1, <2>1, HeldStable
<1>4. ASSUME s.step \in {"read", "write"}
      PROVE  s.op \in Ops /\ recs2[s.op] # None /\ SoundChange(s.change, drafts2)
  <2>1. s.op \in Ops /\ recs[s.op] # None /\ SoundChange(s.change, drafts)
    BY <1>4 DEF SoundMethod
  <2>2. s.change.capsule \in Capsules \cup {None}
    BY <1>1, <2>1 DEF SoundChange, ChangeRecords
  <2>. QED BY <2>1, <2>2 DEF SoundChange, LiveIfPublished, LiveStays, Grows
<1>5. ASSUME s.step = "ix_write" PROVE SoundList(s.seen, s.snap.user, recs2)
  <2>1. SoundList(s.seen, s.snap.user, recs)
    BY <1>5 DEF SoundMethod
  <2>. QED BY <1>1, <2>1, ListStable
<1>6. ASSUME s.step = "ok", s.snap # None PROVE Held(s.snap, s.op, recs2, drafts2)
  <2>1. Held(s.snap, s.op, recs, drafts)
    BY <1>6 DEF SoundMethod
  <2>. QED BY <1>1, <2>1, HeldStable
<1>7. /\ s.step = "lookup" => s.user \in Users /\ s.key \in Keys
      /\ s.step = "list" => s.user \in Users
      /\ s.step = "get" => s.op \in Ops
  BY DEF SoundMethod
<1>. QED BY <1>2, <1>3, <1>4, <1>5, <1>6, <1>7, Zenon DEF SoundMethod

LEMMA CallStable ==
    ASSUME NEW recs, NEW recs2, NEW drafts, NEW drafts2,
           Grows(recs, recs2), LiveStays(drafts, drafts2),
           NEW f \in Flows, NEW s, SoundCall(f, s, recs, drafts)
    PROVE  SoundCall(f, s, recs2, drafts2)
<1>1. f.views \in [Ops -> Operations \cup {None}] /\ f.capsule \in Capsules \cup {None}
  BY DEF Flows
<1>2. ASSUME NEW o \in Ops, f.views[o] # None
      PROVE  /\ Held(f.views[o], o, recs2, drafts2)
             /\ f.views[o].user = f.user /\ f.views[o].job # None
  <2>1. /\ Held(f.views[o], o, recs, drafts)
        /\ f.views[o].user = f.user /\ f.views[o].job # None
    BY <1>2 DEF SoundCall
  <2>2. f.views[o] \in Operations \cup {None}
    BY <1>1
  <2>3. Held(f.views[o], o, recs2, drafts2)
    BY <2>1, <2>2, HeldStable
  <2>. QED BY <2>1, <2>3
<1>3. ASSUME f.pc \in OwnPcs
      PROVE  /\ recs2[f.op] # None /\ recs2[f.op].user = f.user
             /\ s.step = "ok" => s.snap # None
  <2>1. f.op \in Ops /\ recs[f.op] # None /\ recs[f.op].user = f.user
        /\ (s.step = "ok" => s.snap # None)
    BY <1>3 DEF SoundCall
  <2>. QED BY <2>1 DEF Grows
<1>4. ASSUME f.pc \in LivePcs PROVE drafts2[f.capsule] = "live"
  <2>1. f.capsule \in Capsules /\ drafts[f.capsule] = "live"
    BY <1>1, <1>4 DEF SoundCall
  <2>. QED BY <2>1 DEF LiveStays
<1>5. /\ s.step \in StepsAt(f.pc)
      /\ f.pc \notin {"idle", "done"} => f.user \in Users
      /\ f.pc = "lookup" => f.key \in Keys
      /\ f.pc \in CheckPcs \cup OwnPcs \cup {"created"} =>
           f.op \in Ops /\ (s.step # "threw" => s.op = f.op)
      /\ f.pc = "created" /\ s.step # "threw" => s.snap # None /\ s.snap.user = f.user
      /\ f.pc = "poll" => s.snap.job # None
      /\ f.pc \in {"publish_check", "publish_running"} \cup LivePcs
           \/ f.phase = "compile" => f.capsule # None
  BY DEF SoundCall
<1>. QED BY <1>2, <1>3, <1>4, <1>5, Zenon DEF SoundCall

-----------------------------------------------------------------------------
(* One call steps *)

LEMMA InvFacts ==
    ASSUME ImportInv
    PROVE  /\ ops \in [Ops -> Operations \cup {None}]
           /\ idem \in [Users -> [Keys -> Ops \cup {None}]]
           /\ index \in [Users -> Seq(Ops)]
           /\ st \in [Calls -> StoreCalls]
           /\ flow \in [Calls -> Flows]
           /\ capsules \in Drafts
           /\ jobs \in [Jobs -> JobRecords]
           /\ \A c \in Calls : SoundMethod(st[c], ops, capsules)
           /\ \A c \in Calls : SoundCall(flow[c], st[c], ops, capsules)
           /\ \A c \in Calls : st[c] \in StoreCalls /\ flow[c] \in Flows
BY DEF ImportInv, TypeOK, StoreTypeOK, Drafts, JobRecords

(* Call c goes on as f, its store method as s. *)
LEMMA CallsKept ==
    ASSUME ImportInv, NEW c \in Calls, NEW f \in Flows, NEW s \in StoreCalls,
           flow' = [flow EXCEPT ![c] = f], st' = [st EXCEPT ![c] = s],
           Grows(ops, ops'), LiveStays(capsules, capsules'),
           \A d \in Calls \ {c} : st[d].step = "put" => ops'[st[d].op] = None,
           SoundMethod(s, ops', capsules'), SoundCall(f, s, ops', capsules'),
           s.step = "put" => \A d \in Calls \ {c} : st[d].op # s.op
    PROVE  /\ flow' \in [Calls -> Flows] /\ st' \in [Calls -> StoreCalls]
           /\ \A d, e \in Calls :
                st'[d].step = "put" /\ st'[e].step = "put" /\ st'[d].op = st'[e].op => d = e
           /\ \A d \in Calls : /\ SoundMethod(st'[d], ops', capsules')
                               /\ SoundCall(flow'[d], st'[d], ops', capsules')
<1>1. /\ flow \in [Calls -> Flows] /\ st \in [Calls -> StoreCalls]
      /\ \A d \in Calls : /\ SoundMethod(st[d], ops, capsules)
                          /\ SoundCall(flow[d], st[d], ops, capsules)
  BY InvFacts
<1>2. \A d, e \in Calls :
         st[d].step = "put" /\ st[e].step = "put" /\ st[d].op = st[e].op => d = e
  BY DEF ImportInv
<1>3. /\ flow' \in [Calls -> Flows] /\ st' \in [Calls -> StoreCalls]
      /\ flow'[c] = f /\ st'[c] = s
      /\ \A d \in Calls \ {c} : flow'[d] = flow[d] /\ st'[d] = st[d]
  BY <1>1
<1>4. ASSUME NEW d \in Calls
      PROVE  /\ SoundMethod(st'[d], ops', capsules')
             /\ SoundCall(flow'[d], st'[d], ops', capsules')
  <2>1. CASE d = c
    BY <1>3, <2>1
  <2>2. CASE d # c
    <3>1. /\ st[d] \in StoreCalls /\ flow[d] \in Flows
          /\ st[d].step = "put" => ops'[st[d].op] = None
          /\ flow'[d] = flow[d] /\ st'[d] = st[d]
      BY <1>1, <1>3, <2>2
    <3>2. SoundMethod(st[d], ops', capsules')
      BY <1>1, <3>1, MethodStable
    <3>3. SoundCall(flow[d], st[d], ops', capsules')
      BY <1>1, <3>1, CallStable
    <3>. QED BY <3>1, <3>2, <3>3
  <2>. QED BY <2>1, <2>2
<1>5. ASSUME NEW d \in Calls, NEW e \in Calls, st'[d].step = "put", st'[e].step = "put",
             st'[d].op = st'[e].op
      PROVE  d = e
  BY <1>2, <1>3, <1>5
<1>. QED BY <1>3, <1>4, <1>5

LEMMA PublishedStays ==
    ASSUME ImportInv, StoreUnchanged, LiveStays(capsules, capsules')
    PROVE  /\ \A o \in Ops : ops'[o] # None => LiveIfPublished(ops'[o], capsules')
           /\ PointersSound' /\ IndexSound'
<1>1. ASSUME NEW o \in Ops, ops[o] # None PROVE LiveIfPublished(ops[o], capsules')
  <2>1. LiveIfPublished(ops[o], capsules)
    BY <1>1 DEF ImportInv
  <2>2. ops[o].capsule \in Capsules \cup {None}
    BY <1>1, InvFacts DEF Operations
  <2>. QED BY <2>1, <2>2 DEF LiveIfPublished, LiveStays
<1>2. PointersSound' /\ IndexSound'
  BY DEF ImportInv, PointersSound, IndexSound, StoreUnchanged
<1>. QED BY <1>1, <1>2 DEF StoreUnchanged

(* A step of the service: the store is left alone, the call goes on. *)
LEMMA FlowStep ==
    ASSUME ImportInv, StoreUnchanged, Upstream,
           NEW c \in Calls, NEW f \in Flows, NEW s \in StoreCalls,
           flow' = [flow EXCEPT ![c] = f], st' = [st EXCEPT ![c] = s],
           SoundMethod(s, ops, capsules'), SoundCall(f, s, ops, capsules'),
           s.step = "put" => \A d \in Calls \ {c} : st[d].op # s.op
    PROVE  ImportInv'
<1>1. ops' = ops /\ idem' = idem /\ index' = index
  BY DEF StoreUnchanged
<1>2. Grows(ops, ops') /\ LiveStays(capsules, capsules')
  BY <1>1 DEF Grows, Upstream
<1>3. \A d \in Calls \ {c} : st[d].step = "put" => ops'[st[d].op] = None
  BY <1>1, InvFacts DEF SoundMethod
<1>4. SoundMethod(s, ops', capsules') /\ SoundCall(f, s, ops', capsules')
  BY <1>1
<1>5. /\ flow' \in [Calls -> Flows] /\ st' \in [Calls -> StoreCalls]
      /\ \A d, e \in Calls :
           st'[d].step = "put" /\ st'[e].step = "put" /\ st'[d].op = st'[e].op => d = e
      /\ \A d \in Calls : /\ SoundMethod(st'[d], ops', capsules')
                          /\ SoundCall(flow'[d], st'[d], ops', capsules')
  BY <1>2, <1>3, <1>4, CallsKept
<1>6. /\ \A o \in Ops : ops'[o] # None => LiveIfPublished(ops'[o], capsules')
      /\ PointersSound' /\ IndexSound'
  BY <1>2, PublishedStays
<1>7. TypeOK'
  BY <1>1, <1>5, InvFacts DEF TypeOK, StoreTypeOK, Upstream, Drafts, JobRecords
<1>. QED BY <1>5, <1>6, <1>7 DEF ImportInv

-----------------------------------------------------------------------------
(* The ways in which a call goes on *)

UpdatePcs == OwnPcs \ {"reread", "poll"}

(* The operation of call c is there and c's user owns it. *)
OwnsIt(c) ==
    /\ flow[c].user \in Users /\ flow[c].op \in Ops
    /\ ops[flow[c].op] # None /\ ops[flow[c].op].user = flow[c].user

LEMMA QuietType == Quiet \in StoreCalls
BY DEF Quiet, StoreCalls, Steps

(* The records a caller hands over, and what a method returns, are calls. *)
LEMMA MethodTypes ==
    /\ \A u \in Users, k \in Keys : GetByIdempotency(u, k) \in StoreCalls
    /\ \A u \in Users : ListByUser(u) \in StoreCalls
    /\ \A o \in Ops : GetById(o) \in StoreCalls
    /\ \A o \in Ops, rec \in Operations : Create(o, rec) \in StoreCalls
    /\ \A o \in Ops, change \in ChangeRecords : Update(o, change) \in StoreCalls
    /\ \A o \in Ops \cup {None}, rec \in Operations \cup {None} :
         Returned(o, rec) \in StoreCalls
    /\ [Quiet EXCEPT !.step = "threw"] \in StoreCalls
<1>1. \A u \in Users, k \in Keys : GetByIdempotency(u, k) \in StoreCalls
  BY QuietType DEF GetByIdempotency, StoreCalls, Steps
<1>2. \A o \in Ops : GetById(o) \in StoreCalls
  BY QuietType DEF GetById, StoreCalls, Steps
<1>3. \A u \in Users : ListByUser(u) \in StoreCalls
  BY QuietType DEF ListByUser, StoreCalls, Steps
<1>4. \A o \in Ops, rec \in Operations : Create(o, rec) \in StoreCalls
  BY QuietType DEF Create, StoreCalls, Steps
<1>5. \A o \in Ops, change \in ChangeRecords : Update(o, change) \in StoreCalls
  BY QuietType DEF Update, StoreCalls, Steps
<1>6. \A o \in Ops \cup {None}, rec \in Operations \cup {None} :
        Returned(o, rec) \in StoreCalls
  BY QuietType DEF Returned, StoreCalls, Steps
<1>7. [Quiet EXCEPT !.step = "threw"] \in StoreCalls
  BY QuietType DEF StoreCalls, Steps
<1>. QED BY <1>1, <1>2, <1>3, <1>4, <1>5, <1>6, <1>7

LEMMA DormantType == Dormant \in Flows
<1>1. NoViews \in [Ops -> Operations \cup {None}]
  BY DEF NoViews
<1>2. 0 \in 0 .. MaxPolls
  BY ImportAssumption
<1> HIDE DEF NoViews
<1>3. "idle" \in ControlPoints /\ "none" \in Outcomes
  BY DEF ControlPoints, Outcomes
<1>. QED BY <1>1, <1>2, <1>3 DEF Dormant, Flows

(* A call that holds nothing: one not begun, one over, one just arrived. *)
LEMMA FreshCall ==
    ASSUME NEW f, NEW s, NEW drafts, s.step \in StepsAt(f.pc),
           f.pc \in {"idle", "done", "lookup", "listed"},
           f.pc \in {"lookup", "listed"} => f.user \in Users,
           f.pc = "lookup" => f.key \in Keys,
           f.phase # "compile", f.views = NoViews
    PROVE  SoundCall(f, s, ops, drafts)
<1>1. f.pc \notin CheckPcs \cup OwnPcs \cup LivePcs \cup
                  {"created", "poll", "publish_check", "publish_running"}
  BY DEF CheckPcs, OwnPcs, LivePcs
<1>2. \A o \in Ops : f.views[o] = None
  BY DEF NoViews
<1>. QED BY <1>1, <1>2 DEF SoundCall

LEMMA FinishStep ==
    ASSUME ImportInv, StoreUnchanged, Upstream,
           NEW c \in Calls, NEW out \in Outcomes, Finish(c, out)
    PROVE  ImportInv'
<1> DEFINE f == [Dormant EXCEPT !.pc = "done", !.out = out]
<1>1. f \in Flows
  BY DormantType DEF Flows, ControlPoints
<1>2. SoundMethod(Quiet, ops, capsules')
  BY DEF SoundMethod, Quiet
<1>3. SoundCall(f, Quiet, ops, capsules')
  <2>1. f.pc = "done" /\ f.phase # "compile" /\ f.views = NoViews
    BY Distinguished DEF Dormant
  <2>2. Quiet.step \in StepsAt("done")
    BY DEF Quiet, StepsAt, CheckPcs
  <2>. QED BY <2>1, <2>2, FreshCall
<1>4. flow' = [flow EXCEPT ![c] = f] /\ st' = [st EXCEPT ![c] = Quiet] /\ Quiet.step # "put"
  BY DEF Finish, Set, Quiet
<1> HIDE DEF f
<1>. QED BY <1>1, <1>2, <1>3, <1>4, QuietType, FlowStep

(* The part of SoundCall that stays when a call only moves to another pc. *)
LEMMA MovedCall ==
    ASSUME ImportInv, Upstream, NEW c \in Calls, NEW pc \in ControlPoints
    PROVE  /\ [flow[c] EXCEPT !.pc = pc] \in Flows
           /\ \A o \in Ops : flow[c].views[o] # None =>
                /\ Held(flow[c].views[o], o, ops, capsules')
                /\ flow[c].views[o].user = flow[c].user /\ flow[c].views[o].job # None
           /\ flow[c].phase = "compile" => flow[c].capsule # None
<1>1. flow[c] \in Flows /\ SoundCall(flow[c], st[c], ops, capsules)
  BY InvFacts
<1>2. Grows(ops, ops) /\ LiveStays(capsules, capsules')
  BY DEF Grows, Upstream
<1>3. SoundCall(flow[c], st[c], ops, capsules')
  BY <1>1, <1>2, CallStable
<1>4. [flow[c] EXCEPT !.pc = pc] \in Flows
  BY <1>1 DEF Flows
<1>. QED BY <1>3, <1>4 DEF SoundCall

LEMMA WriteStep ==
    ASSUME ImportInv, StoreUnchanged, Upstream, NEW c \in Calls, OwnsIt(c),
           NEW pc \in UpdatePcs, NEW change \in ChangeRecords,
           SoundChange(change, capsules'), Write(c, pc, change),
           pc \in {"publish_running"} \cup LivePcs => flow[c].capsule # None,
           pc \in LivePcs => capsules'[flow[c].capsule] = "live"
    PROVE  ImportInv'
<1> DEFINE f == [flow[c] EXCEPT !.pc = pc]
           s == Update(flow[c].op, change)
<1>0. /\ pc \in ControlPoints /\ pc \in OwnPcs /\ pc \notin {"reread", "poll"}
      /\ pc \notin CheckPcs \cup {"idle", "done", "lookup", "created", "listed", "sweep"}
  BY DEF UpdatePcs, OwnPcs, CheckPcs
<1>1. flow[c] \in Flows /\ flow \in [Calls -> Flows]
  BY InvFacts
<1>2. /\ f \in Flows
      /\ \A o \in Ops : flow[c].views[o] # None =>
           /\ Held(flow[c].views[o], o, ops, capsules')
           /\ flow[c].views[o].user = flow[c].user /\ flow[c].views[o].job # None
      /\ flow[c].phase = "compile" => flow[c].capsule # None
  BY <1>0, MovedCall
<1>3. /\ f.pc = pc /\ f.user = flow[c].user /\ f.key = flow[c].key /\ f.op = flow[c].op
      /\ f.phase = flow[c].phase /\ f.capsule = flow[c].capsule /\ f.views = flow[c].views
  BY <1>1 DEF Flows
<1>4. flow' = [flow EXCEPT ![c] = f] /\ st' = [st EXCEPT ![c] = s]
  BY DEF Write, Then, Set
<1>5. s.step = "read" /\ s.op = flow[c].op /\ s.change = change /\ s.snap = None
  BY DEF Update, Quiet
<1>6. s \in StoreCalls
  BY MethodTypes DEF OwnsIt
<1> HIDE DEF f, s
<1>7. SoundMethod(s, ops, capsules')
  BY <1>5 DEF SoundMethod, OwnsIt
<1>8. "read" \in StepsAt(pc)
  BY <1>0 DEF StepsAt, WriteSteps
<1>9. SoundCall(f, s, ops, capsules')
  <2>1. s.step \in StepsAt(f.pc) /\ f.user \in Users
    BY <1>3, <1>5, <1>8 DEF OwnsIt
  <2>2. /\ f.op \in Ops /\ s.op = f.op /\ s.step # "ok"
        /\ ops[f.op] # None /\ ops[f.op].user = f.user
    BY <1>3, <1>5 DEF OwnsIt
  <2>3. f.pc \notin {"lookup", "created", "poll", "publish_check"}
    BY <1>0, <1>3 DEF CheckPcs
  <2>4. f.pc \in {"publish_running"} \cup LivePcs \/ f.phase = "compile" => f.capsule # None
    BY <1>2, <1>3
  <2>5. f.pc \in LivePcs => capsules'[f.capsule] = "live"
    BY <1>3
  <2>. QED BY <1>2, <1>3, <2>1, <2>2, <2>3, <2>4, <2>5 DEF SoundCall
<1>. QED BY <1>2, <1>4, <1>5, <1>6, <1>7, <1>9, FlowStep

(* The call reads operation o and goes on at pc; f says under what locals. *)
LEMMA ReadStep ==
    ASSUME ImportInv, StoreUnchanged, Upstream, NEW c \in Calls,
           NEW pc \in CheckPcs \cup {"reread", "refreshed"}, NEW o \in Ops, NEW f \in Flows,
           flow' = [flow EXCEPT ![c] = f], Set(c, GetById(o)),
           f.pc = pc, f.op = o, f.user \in Users,
           \/ f.views = flow[c].views /\ f.user = flow[c].user
           \/ f.views = NoViews /\ pc \in CheckPcs,
           pc \in {"reread", "refreshed"} => OwnsIt(c) /\ o = flow[c].op,
           pc = "publish_check" \/ f.phase = "compile" => f.capsule # None
    PROVE  ImportInv'
<1> DEFINE s == GetById(o)
<1>0. /\ pc \in ControlPoints /\ pc \notin LivePcs \cup {"publish_running"}
      /\ pc \notin {"idle", "done", "lookup", "created", "listed", "sweep", "poll"}
      /\ pc \in OwnPcs => pc \in {"reread", "refreshed"}
  BY DEF ControlPoints, OwnPcs, CheckPcs, LivePcs
<1>1. \A p \in Ops : f.views[p] # None =>
        /\ Held(f.views[p], p, ops, capsules')
        /\ f.views[p].user = f.user /\ f.views[p].job # None
  BY <1>0, MovedCall DEF NoViews
<1>2. s.step = "get" /\ s.op = o /\ s.snap = None /\ st' = [st EXCEPT ![c] = s]
  BY DEF GetById, Quiet, Set
<1>3. s \in StoreCalls
  BY MethodTypes
<1> HIDE DEF s
<1>4. SoundMethod(s, ops, capsules')
  BY <1>2 DEF SoundMethod
<1>5. "get" \in StepsAt(pc)
  BY <1>0 DEF StepsAt, CheckPcs
<1>6. SoundCall(f, s, ops, capsules')
  <2>1. s.step \in StepsAt(f.pc) /\ f.op \in Ops /\ s.op = f.op /\ s.step # "ok"
    BY <1>2, <1>5
  <2>2. f.pc \in OwnPcs => ops[f.op] # None /\ ops[f.op].user = f.user
    BY <1>0 DEF OwnsIt, CheckPcs
  <2>3. f.pc \notin {"lookup", "created", "poll", "publish_running"} /\ f.pc \notin LivePcs
    BY <1>0
  <2>. QED BY <1>1, <2>1, <2>2, <2>3 DEF SoundCall
<1>. QED BY <1>2, <1>3, <1>4, <1>6, FlowStep

LEMMA EnterStep ==
    ASSUME ImportInv, StoreUnchanged, Upstream, NEW c \in Calls,
           flow[c].user \in Users, NEW pc \in CheckPcs, NEW o \in Ops,
           NEW phase \in {"watch", "compile", "publish"}, NEW x \in Capsules \cup {None},
           pc = "publish_check" \/ phase = "compile" => x # None,
           Enter(c, phase, pc, o, x)
    PROVE  ImportInv'
<1> DEFINE f == [flow[c] EXCEPT !.phase = phase, !.pc = pc, !.op = o,
                                !.capsule = x, !.polls = 0]
<1>1. flow[c] \in Flows
  BY InvFacts
<1>2. f \in Flows
  <2>1. pc \in ControlPoints /\ phase \in Phases /\ 0 \in 0 .. MaxPolls
    BY ImportAssumption DEF CheckPcs, ControlPoints, Phases
  <2>. QED BY <1>1, <2>1 DEF Flows
<1>3. /\ f.pc = pc /\ f.op = o /\ f.user = flow[c].user /\ f.views = flow[c].views
      /\ f.phase = phase /\ f.capsule = x
  BY <1>1 DEF Flows
<1>4. flow' = [flow EXCEPT ![c] = f] /\ Set(c, GetById(o))
  BY DEF Enter
<1> HIDE DEF f
<1>5. pc \in CheckPcs \cup {"reread", "refreshed"} /\ pc \notin {"reread", "refreshed"}
  BY DEF CheckPcs
<1>. QED BY <1>2, <1>3, <1>4, <1>5, ReadStep

LEMMA AgainStep ==
    ASSUME ImportInv, StoreUnchanged, Upstream, NEW c \in Calls, flow[c].user \in Users,
           NEW pc \in {"refresh_check", "reread", "refreshed"}, flow[c].op \in Ops,
           pc \in {"reread", "refreshed"} => OwnsIt(c),
           Then(c, pc, GetById(flow[c].op))
    PROVE  ImportInv'
<1> DEFINE f == [flow[c] EXCEPT !.pc = pc]
<1>1. flow[c] \in Flows
  BY InvFacts
<1>2. f \in Flows /\ (f.phase = "compile" => f.capsule # None)
  <2>1. pc \in ControlPoints
    BY DEF ControlPoints
  <2>. QED BY <1>1, <2>1, MovedCall DEF Flows
<1>3. f.pc = pc /\ f.op = flow[c].op /\ f.user = flow[c].user /\ f.views = flow[c].views
  BY <1>1 DEF Flows
<1>4. flow' = [flow EXCEPT ![c] = f] /\ Set(c, GetById(flow[c].op))
  BY DEF Then
<1> HIDE DEF f
<1>5. pc \in CheckPcs \cup {"reread", "refreshed"} /\ pc # "publish_check"
  BY DEF CheckPcs
<1>. QED BY <1>2, <1>3, <1>4, <1>5, ReadStep

-----------------------------------------------------------------------------
(* Calls arrive *)

LEMMA UpstreamStays ==
    ASSUME ImportInv, UNCHANGED <<capsules, jobs>> PROVE Upstream
BY InvFacts DEF Upstream, LiveStays

LEMMA SubmitPackageStep ==
    ASSUME ImportInv, NEW c \in Calls, SubmitPackage(c) PROVE ImportInv'
<1>1. PICK kind \in Kinds \cap {"start", "quick"}, u \in Users, k \in Keys :
        /\ flow' = [flow EXCEPT ![c] = [Dormant EXCEPT !.pc = "lookup", !.kind = kind,
                        !.phase = "import", !.user = u, !.key = k]]
        /\ Set(c, GetByIdempotency(u, k))
  BY DEF SubmitPackage
<1>2. StoreUnchanged /\ Upstream
  BY UpstreamStays DEF SubmitPackage, StoreUnchanged
<1> DEFINE f == [Dormant EXCEPT !.pc = "lookup", !.kind = kind,
                        !.phase = "import", !.user = u, !.key = k]
           s == GetByIdempotency(u, k)
<1>3. f \in Flows
  <2>1. "lookup" \in ControlPoints /\ "import" \in Phases /\ kind \in AllKinds
    BY DEF ControlPoints, Phases, AllKinds
  <2>. QED BY <2>1, DormantType DEF Flows
<1>4. s \in StoreCalls
  BY MethodTypes
<1>5. SoundMethod(s, ops, capsules')
  BY DEF SoundMethod, GetByIdempotency, Quiet
<1>6. SoundCall(f, s, ops, capsules')
  <2>1. f.pc = "lookup" /\ f.user = u /\ f.key = k /\ f.phase = "import" /\ f.views = NoViews
    BY DEF Dormant
  <2>2. s.step \in StepsAt("lookup")
    BY DEF GetByIdempotency, Quiet, StepsAt, CheckPcs
  <2> HIDE DEF f, s
  <2>. QED BY <2>1, <2>2, FreshCall
<1>7. flow' = [flow EXCEPT ![c] = f] /\ st' = [st EXCEPT ![c] = s] /\ s.step # "put"
  BY <1>1 DEF Set, GetByIdempotency, Quiet
<1> HIDE DEF f, s
<1>. QED BY <1>2, <1>3, <1>4, <1>5, <1>6, <1>7, FlowStep

LEMMA SubmitByIdStep ==
    ASSUME ImportInv, NEW c \in Calls, SubmitById(c) PROVE ImportInv'
<1>1. PICK kind \in Kinds \cap DOMAIN FirstStep, u \in Users, o \in Ops :
        /\ \E x \in IF kind \in {"compile", "publish"}
                     THEN {x \in Capsules : capsules[x] # "unborn"} ELSE {None} :
             flow' = [flow EXCEPT ![c] = [Dormant EXCEPT !.pc = FirstStep[kind],
                        !.kind = kind, !.user = u, !.op = o, !.capsule = x]]
        /\ Set(c, GetById(o))
  BY DEF SubmitById
<1>2. PICK x \in IF kind \in {"compile", "publish"}
                 THEN {x \in Capsules : capsules[x] # "unborn"} ELSE {None} :
        flow' = [flow EXCEPT ![c] = [Dormant EXCEPT !.pc = FirstStep[kind],
                   !.kind = kind, !.user = u, !.op = o, !.capsule = x]]
  BY <1>1
<1>3. StoreUnchanged /\ Upstream
  BY UpstreamStays DEF SubmitById, StoreUnchanged
<1> DEFINE pc == FirstStep[kind]
<1>4. kind \in {"compile", "publish", "cancel", "get", "watch"}
  BY DEF FirstStep
<1>5. pc \in CheckPcs /\ (pc = "publish_check" <=> kind = "publish")
  BY <1>4 DEF FirstStep, CheckPcs
<1>6. x \in Capsules \cup {None} /\ (kind = "publish" => x # None)
  <2>1. CASE kind \in {"compile", "publish"}
    BY <2>1, Distinguished
  <2>2. CASE kind \notin {"compile", "publish"}
    BY <2>2
  <2>. QED BY <2>1, <2>2
<1> HIDE DEF pc
<1> DEFINE f == [Dormant EXCEPT !.pc = pc, !.kind = kind, !.user = u, !.op = o, !.capsule = x]
<1>7. f \in Flows
  <2>1. pc \in ControlPoints /\ kind \in AllKinds
    BY <1>4, <1>5 DEF CheckPcs, ControlPoints, AllKinds
  <2>. QED BY <1>6, <2>1, DormantType DEF Flows
<1>8. /\ f.pc = pc /\ f.op = o /\ f.user = u /\ f.views = NoViews /\ f.capsule = x
      /\ f.phase # "compile"
  BY Distinguished DEF Dormant
<1>9. flow' = [flow EXCEPT ![c] = f] /\ Set(c, GetById(o))
  BY <1>1, <1>2 DEF pc
<1> HIDE DEF f
<1>10. pc \in CheckPcs \cup {"reread", "refreshed"} /\ pc \notin {"reread", "refreshed"}
  BY <1>5 DEF CheckPcs
<1>. QED BY <1>3, <1>5, <1>6, <1>7, <1>8, <1>9, <1>10, ReadStep

LEMMA SubmitListStep ==
    ASSUME ImportInv, NEW c \in Calls, SubmitList(c) PROVE ImportInv'
<1>1. PICK u \in Users :
        /\ flow' = [flow EXCEPT ![c] = [Dormant EXCEPT !.pc = "listed",
                        !.kind = "list", !.user = u]]
        /\ Set(c, ListByUser(u))
  BY DEF SubmitList
<1>2. StoreUnchanged /\ Upstream
  BY UpstreamStays DEF SubmitList, StoreUnchanged
<1> DEFINE f == [Dormant EXCEPT !.pc = "listed", !.kind = "list", !.user = u]
           s == ListByUser(u)
<1>3. f \in Flows
  BY DormantType DEF Flows, ControlPoints, AllKinds
<1>4. s \in StoreCalls
  BY MethodTypes
<1>5. SoundMethod(s, ops, capsules')
  BY DEF SoundMethod, ListByUser, Quiet
<1>6. SoundCall(f, s, ops, capsules')
  <2>1. f.pc = "listed" /\ f.user = u /\ f.phase # "compile" /\ f.views = NoViews
    BY Distinguished DEF Dormant
  <2>2. s.step \in StepsAt("listed")
    BY DEF ListByUser, Quiet, StepsAt, CheckPcs
  <2> HIDE DEF f, s
  <2>. QED BY <2>1, <2>2, FreshCall
<1>7. flow' = [flow EXCEPT ![c] = f] /\ st' = [st EXCEPT ![c] = s] /\ s.step # "put"
  BY <1>1 DEF Set, ListByUser, Quiet
<1> HIDE DEF f, s
<1>. QED BY <1>2, <1>3, <1>4, <1>5, <1>6, <1>7, FlowStep

-----------------------------------------------------------------------------
(* What an answer of the store says at a control point *)

LEMMA OwnAnswer ==
    ASSUME ImportInv, NEW c \in Calls, NEW pc \in OwnPcs, flow[c].pc = pc
    PROVE  /\ OwnsIt(c)
           /\ st[c].step = "ok" =>
                /\ st[c].snap \in Operations /\ st[c].op = flow[c].op
                /\ Held(st[c].snap, flow[c].op, ops, capsules)
<1>1. SoundCall(flow[c], st[c], ops, capsules) /\ SoundMethod(st[c], ops, capsules)
  BY InvFacts
<1>2. st[c].snap \in Operations \cup {None}
  BY InvFacts DEF StoreCalls
<1>3. pc \notin {"idle", "done"}
  BY DEF OwnPcs
<1>. QED BY <1>1, <1>2, <1>3 DEF SoundCall, SoundMethod, OwnsIt

LEMMA CheckAnswer ==
    ASSUME ImportInv, NEW c \in Calls, NEW pc \in CheckPcs, flow[c].pc = pc
    PROVE  /\ flow[c].user \in Users /\ flow[c].op \in Ops
           /\ st[c].step = "ok" /\ Owns(c, st[c].snap) =>
                /\ OwnsIt(c) /\ st[c].snap \in Operations /\ st[c].op = flow[c].op
                /\ Held(st[c].snap, flow[c].op, ops, capsules)
<1>1. SoundCall(flow[c], st[c], ops, capsules) /\ SoundMethod(st[c], ops, capsules)
  BY InvFacts
<1>2. st[c].snap \in Operations \cup {None}
  BY InvFacts DEF StoreCalls
<1>3. pc \notin {"idle", "done"}
  BY DEF CheckPcs
<1>. QED BY <1>1, <1>2, <1>3 DEF SoundCall, SoundMethod, OwnsIt, Owns, Held

(* A Write that changes no more than a status other than published and the *)
(* diagnostics is always allowed.                                          *)
LEMMA Changes ==
    ASSUME NEW x \in Capsules \cup {None}, NEW codes \in SUBSET Codes,
           NEW status \in Statuses \ {"published"}, NEW drafts
    PROVE  /\ NoChange \in ChangeRecords /\ SoundChange(NoChange, drafts)
           /\ Status(status) \in ChangeRecords /\ SoundChange(Status(status), drafts)
           /\ StatusWith(status, x) \in ChangeRecords
           /\ SoundChange(StatusWith(status, x), drafts)
           /\ Diagnostic(codes) \in ChangeRecords
           /\ SoundChange(Diagnostic(codes), drafts)
<1>1. /\ NoChange \in ChangeRecords /\ Status(status) \in ChangeRecords
      /\ StatusWith(status, x) \in ChangeRecords /\ Diagnostic(codes) \in ChangeRecords
  BY DEF NoChange, Status, StatusWith, Diagnostic, ChangeRecords
<1>2. /\ NoChange.status = None /\ NoChange.capsule = None
      /\ Status(status).status = status /\ StatusWith(status, x).status = status
      /\ Diagnostic(codes).status = None /\ Diagnostic(codes).capsule = None
  BY DEF NoChange, Status, StatusWith, Diagnostic
<1>3. status # None /\ status # "published" /\ None # "published"
  BY Distinguished DEF Statuses
<1>. QED BY <1>1, <1>2, <1>3, Distinguished DEF SoundChange, LiveIfPublished

-----------------------------------------------------------------------------
(* The actions of the service *)

LEMMA LaunchStep ==
    ASSUME ImportInv, StoreUnchanged, Upstream, NEW c \in Calls, flow[c].user \in Users,
           NEW o \in Ops, NEW rec \in Operations, Launch(c, o, rec)
    PROVE  ImportInv'
<1>1. CASE rec.capsule = None
  BY <1>1, FinishStep DEF Launch, Outcomes
<1>2. CASE rec.capsule # None
  <2>1. rec.capsule \in Capsules \cup {None}
    BY DEF Operations
  <2>2. \/ Enter(c, "compile", "compile_check", o, rec.capsule)
        \/ Enter(c, "publish", "publish_check", o, rec.capsule)
    BY <1>2 DEF Launch
  <2>3. "compile_check" \in CheckPcs /\ "publish_check" \in CheckPcs
    BY DEF CheckPcs
  <2>. QED BY <1>2, <2>1, <2>2, <2>3, EnterStep
<1>. QED BY <1>1, <1>2

LEMMA ReturnStep ==
    ASSUME ImportInv, StoreUnchanged, Upstream, NEW c \in Calls, flow[c].user \in Users,
           NEW o \in Ops, NEW rec \in Operations, Return(c, o, rec)
    PROVE  ImportInv'
<1>1. \/ Finish(c, "ok")
      \/ Launch(c, o, rec)
      \/ Enter(c, "watch", "watch_check", o, None)
      \/ flow[c].phase = "compile" /\ Enter(c, "publish", "publish_check", o, flow[c].capsule)
  BY DEF Return
<1>2. "watch_check" \in CheckPcs /\ "publish_check" \in CheckPcs /\ "ok" \in Outcomes
  BY DEF CheckPcs, Outcomes
<1>3. /\ flow[c].capsule \in Capsules \cup {None}
      /\ flow[c].phase = "compile" => flow[c].capsule # None
  BY InvFacts DEF Flows, SoundCall
<1>4. CASE Finish(c, "ok")
  BY <1>2, <1>4, FinishStep
<1>5. CASE Launch(c, o, rec)
  BY <1>5, LaunchStep
<1>6. CASE Enter(c, "watch", "watch_check", o, None)
  BY <1>2, <1>6, EnterStep
<1>7. CASE flow[c].phase = "compile" /\ Enter(c, "publish", "publish_check", o, flow[c].capsule)
  BY <1>2, <1>3, <1>7, EnterStep
<1>. QED BY <1>1, <1>4, <1>5, <1>6, <1>7

LEMMA LookupStep ==
    ASSUME ImportInv, NEW c \in Calls, Lookup(c) PROVE ImportInv'
<1>1. /\ flow[c].pc = "lookup" /\ st[c].step = "ok" /\ st[c] \in StoreCalls
      /\ flow[c] \in Flows
      /\ SoundCall(flow[c], st[c], ops, capsules) /\ SoundMethod(st[c], ops, capsules)
  BY InvFacts DEF Lookup, Ready
<1>2. StoreUnchanged /\ Upstream
  BY UpstreamStays DEF Lookup, StoreUnchanged
<1>3. flow[c].user \in Users /\ flow[c].key \in Keys
  BY <1>1 DEF SoundCall
<1>4. CASE st[c].snap # None
  <2>1. st[c].op \in Ops /\ st[c].snap \in Operations
    BY <1>1, <1>4 DEF SoundMethod, Held, StoreCalls
  <2>2. Return(c, st[c].op, st[c].snap)
    BY <1>4 DEF Lookup
  <2>. QED BY <1>2, <1>3, <2>1, <2>2, ReturnStep
<1>5. CASE st[c].snap = None
  <2>1. PICK o \in Ops :
          /\ Fresh(o)
          /\ flow' = [flow EXCEPT ![c] = [flow[c] EXCEPT !.pc = "created", !.op = o]]
          /\ Set(c, Create(o, NewOperation(flow[c].user, flow[c].key)))
    BY <1>5 DEF Lookup
  <2> DEFINE f == [flow[c] EXCEPT !.pc = "created", !.op = o]
             rec == NewOperation(flow[c].user, flow[c].key)
             s == Create(o, rec)
  <2>2. f \in Flows
    BY <1>1 DEF Flows, ControlPoints
  <2>3. /\ f.pc = "created" /\ f.op = o /\ f.user = flow[c].user
        /\ f.phase = flow[c].phase /\ f.capsule = flow[c].capsule /\ f.views = flow[c].views
    BY <1>1 DEF Flows
  <2>4. rec \in Operations /\ rec.user = flow[c].user /\ rec.status # "published"
    BY <1>3 DEF NewOperation, Operations, Statuses, Codes
  <2>5. rec # None
    BY <2>4, Distinguished
  <2>6. s.step = "put" /\ s.op = o /\ s.snap = rec
    BY DEF Create, Quiet
  <2> HIDE DEF rec
  <2>7. s \in StoreCalls
    BY <2>1, <2>4, MethodTypes
  <2>8. flow' = [flow EXCEPT ![c] = f] /\ st' = [st EXCEPT ![c] = s]
    BY <2>1 DEF Set, rec
  <2> HIDE DEF f, s
  <2>9. SoundMethod(s, ops, capsules')
    BY <2>1, <2>4, <2>5, <2>6 DEF SoundMethod, LiveIfPublished, Fresh
  <2>10. /\ \A p \in Ops : flow[c].views[p] # None =>
              /\ Held(flow[c].views[p], p, ops, capsules')
              /\ flow[c].views[p].user = flow[c].user /\ flow[c].views[p].job # None
         /\ flow[c].phase = "compile" => flow[c].capsule # None
    BY <1>2, MovedCall DEF ControlPoints
  <2>11. /\ "put" \in StepsAt("created") /\ "created" \notin OwnPcs
         /\ "created" \notin CheckPcs /\ "created" \notin LivePcs
    BY DEF StepsAt, OwnPcs, CheckPcs, LivePcs
  <2>12. SoundCall(f, s, ops, capsules')
    BY <1>3, <2>3, <2>4, <2>5, <2>6, <2>10, <2>11, Zenon DEF SoundCall
  <2>13. \A d \in Calls \ {c} : st[d].op # s.op
    BY <2>1, <2>6 DEF Fresh
  <2>. QED BY <1>2, <2>2, <2>7, <2>8, <2>9, <2>12, <2>13, FlowStep
<1>. QED BY <1>4, <1>5

(* The first update of an operation just created. *)
LEMMA CreatedAnswer ==
    ASSUME ImportInv, NEW c \in Calls, Ready(c, "created")
    PROVE  OwnsIt(c)
<1>1. /\ flow[c].pc = "created" /\ st[c].step = "ok" /\ st[c] \in StoreCalls
      /\ SoundCall(flow[c], st[c], ops, capsules) /\ SoundMethod(st[c], ops, capsules)
  BY InvFacts DEF Ready
<1>2. /\ flow[c].user \in Users /\ flow[c].op \in Ops /\ st[c].op = flow[c].op
      /\ st[c].snap # None /\ st[c].snap.user = flow[c].user
  BY <1>1 DEF SoundCall
<1>3. Held(st[c].snap, st[c].op, ops, capsules)
  BY <1>1, <1>2 DEF SoundMethod
<1>. QED BY <1>2, <1>3 DEF OwnsIt, Held

LEMMA PlainWrite ==
    ASSUME ImportInv, StoreUnchanged, Upstream, NEW c \in Calls, OwnsIt(c),
           NEW pc \in UpdatePcs \ ({"publish_running"} \cup LivePcs),
           NEW change \in ChangeRecords, SoundChange(change, capsules'),
           Write(c, pc, change)
    PROVE  ImportInv'
BY WriteStep

LEMMA PlainPcs ==
    /\ {"validating", "normalized", "ingesting", "uploading", "waiting", "ingest_failed",
        "compile_running", "compile_failed", "publish_failed", "job_failed",
        "job_canceled", "poll_error", "refreshed", "end"}
         \subseteq UpdatePcs \ ({"publish_running"} \cup LivePcs)
    /\ {"publish_running"} \cup LivePcs \subseteq UpdatePcs
    /\ "reread" \in OwnPcs /\ "poll" \in OwnPcs
    /\ UpdatePcs \subseteq OwnPcs
BY DEF UpdatePcs, OwnPcs, LivePcs, CheckPcs, ControlPoints

LEMMA PrepareStep ==
    ASSUME ImportInv, NEW c \in Calls, Prepare(c) PROVE ImportInv'
<1>1. StoreUnchanged /\ Upstream
  BY UpstreamStays DEF Prepare, StoreUnchanged
<1>2. \A status \in {"validating", "normalized", "ingesting"} :
        Status(status) \in ChangeRecords /\ SoundChange(Status(status), capsules')
  BY Changes DEF Statuses
<1>3. CASE Ready(c, "created") /\ Write(c, "validating", Status("validating"))
  BY <1>1, <1>2, <1>3, CreatedAnswer, PlainPcs, PlainWrite
<1>4. CASE Ready(c, "validating") /\ Write(c, "normalized", Status("normalized"))
  <2>1. OwnsIt(c)
    BY <1>4, OwnAnswer, PlainPcs DEF Ready
  <2>. QED BY <1>1, <1>2, <1>4, <2>1, PlainPcs, PlainWrite
<1>5. CASE Ready(c, "normalized") /\ Write(c, "ingesting", Status("ingesting"))
  <2>1. OwnsIt(c)
    BY <1>5, OwnAnswer, PlainPcs DEF Ready
  <2>. QED BY <1>1, <1>2, <1>5, <2>1, PlainPcs, PlainWrite
<1>. QED BY <1>3, <1>4, <1>5 DEF Prepare

LEMMA CreateEmptyCapsuleStep ==
    ASSUME ImportInv, NEW c \in Calls, CreateEmptyCapsule(c) PROVE ImportInv'
<1>1. PICK x \in Capsules :
        /\ capsules[x] = "unborn"
        /\ capsules' = [capsules EXCEPT ![x] = "draft"]
        /\ flow' = [flow EXCEPT ![c] = [flow[c] EXCEPT !.pc = "uploading", !.capsule = x]]
        /\ Set(c, Update(flow[c].op, StatusWith("ingesting", x)))
  BY DEF CreateEmptyCapsule
<1>2. StoreUnchanged /\ Upstream
  BY <1>1, InvFacts DEF CreateEmptyCapsule, StoreUnchanged, Upstream, LiveStays, Drafts
<1>3. OwnsIt(c) /\ flow[c] \in Flows
  BY InvFacts, OwnAnswer, PlainPcs DEF CreateEmptyCapsule, Ready
<1> DEFINE change == StatusWith("ingesting", x)
           f == [flow[c] EXCEPT !.pc = "uploading", !.capsule = x]
           s == Update(flow[c].op, change)
<1>4. change \in ChangeRecords /\ SoundChange(change, capsules')
  BY Changes DEF Statuses
<1>5. f \in Flows
  BY <1>3 DEF Flows, ControlPoints
<1>6. /\ f.pc = "uploading" /\ f.user = flow[c].user /\ f.op = flow[c].op
      /\ f.phase = flow[c].phase /\ f.views = flow[c].views /\ f.capsule # None
  BY <1>3, Distinguished DEF Flows
<1>7. flow' = [flow EXCEPT ![c] = f] /\ st' = [st EXCEPT ![c] = s]
  BY <1>1 DEF Set
<1>8. s.step = "read" /\ s.op = flow[c].op /\ s.change = change /\ s.snap = None
  BY DEF Update, Quiet
<1> HIDE DEF change
<1>9. s \in StoreCalls
  BY <1>3, <1>4, MethodTypes DEF OwnsIt
<1> HIDE DEF f, s
<1>10. SoundMethod(s, ops, capsules')
  BY <1>3, <1>4, <1>8 DEF SoundMethod, OwnsIt
<1>11. \A p \in Ops : flow[c].views[p] # None =>
         /\ Held(flow[c].views[p], p, ops, capsules')
         /\ flow[c].views[p].user = flow[c].user /\ flow[c].views[p].job # None
  BY <1>2, MovedCall DEF ControlPoints
<1>12. /\ "read" \in StepsAt("uploading") /\ "uploading" \notin LivePcs
       /\ "uploading" \notin CheckPcs
  BY DEF StepsAt, WriteSteps, LivePcs, CheckPcs
<1>13. SoundCall(f, s, ops, capsules')
  BY <1>3, <1>6, <1>8, <1>11, <1>12, Zenon DEF SoundCall, OwnsIt
<1>. QED BY <1>2, <1>5, <1>7, <1>8, <1>9, <1>10, <1>13, FlowStep

LEMMA FilesUploadedStep ==
    ASSUME ImportInv, NEW c \in Calls, FilesUploaded(c) PROVE ImportInv'
<1>1. StoreUnchanged /\ Upstream
  BY UpstreamStays DEF FilesUploaded, StoreUnchanged
<1>2. OwnsIt(c) /\ flow[c].capsule \in Capsules \cup {None}
  BY InvFacts, OwnAnswer, PlainPcs DEF FilesUploaded, Ready, Flows
<1> DEFINE change == StatusWith("draft_ready", flow[c].capsule)
<1>3. change \in ChangeRecords /\ SoundChange(change, capsules')
  BY <1>2, Changes DEF Statuses
<1>4. Write(c, "end", change)
  BY DEF FilesUploaded
<1> HIDE DEF change
<1>. QED BY <1>1, <1>2, <1>3, <1>4, PlainPcs, PlainWrite

LEMMA ImportArchiveStep ==
    ASSUME ImportInv, NEW c \in Calls, ImportArchive(c) PROVE ImportInv'
<1>1. PICK x \in {x \in Capsules : capsules[x] = "unborn"} \cup {None} :
        /\ capsules' = [y \in Capsules |-> IF y = x THEN "draft" ELSE capsules[y]]
        /\ \/ \E j \in Jobs :
                /\ jobs[j].state = "unborn"
                /\ jobs' = [jobs EXCEPT ![j] = [state |-> "running", capsule |-> x]]
                /\ Write(c, "waiting", [StatusWith("waiting_on_import_job", x)
                                          EXCEPT !.job = j])
           \/ /\ x # None
              /\ Write(c, "end", StatusWith("draft_ready", x))
              /\ UNCHANGED jobs
  BY DEF ImportArchive
<1>2. capsules' \in Drafts /\ LiveStays(capsules, capsules')
  BY <1>1, InvFacts, Distinguished DEF LiveStays, Drafts
<1>3. OwnsIt(c)
  BY OwnAnswer, PlainPcs DEF ImportArchive, Ready
<1>4. StoreUnchanged
  BY DEF ImportArchive, StoreUnchanged
<1>5. ASSUME NEW j \in Jobs,
             jobs' = [jobs EXCEPT ![j] = [state |-> "running", capsule |-> x]],
             Write(c, "waiting", [StatusWith("waiting_on_import_job", x) EXCEPT !.job = j])
      PROVE  ImportInv'
  <2> DEFINE change == [StatusWith("waiting_on_import_job", x) EXCEPT !.job = j]
  <2>1. [state |-> "running", capsule |-> x] \in JobRecords
    BY DEF JobRecords
  <2>2. Upstream
    BY <1>2, <1>5, <2>1, InvFacts DEF Upstream
  <2>3. change \in ChangeRecords
    BY DEF StatusWith, NoChange, ChangeRecords, Statuses
  <2>4. change.status = "waiting_on_import_job"
    BY DEF StatusWith, NoChange
  <2>5. change # None /\ change.status # None
    BY <2>3, <2>4, Distinguished DEF Statuses
  <2>6. SoundChange(change, capsules')
    BY <2>4, <2>5 DEF SoundChange, LiveIfPublished
  <2>7. Write(c, "waiting", change)
    BY <1>5
  <2> HIDE DEF change
  <2>. QED BY <1>3, <1>4, <2>2, <2>3, <2>6, <2>7, PlainPcs, PlainWrite
<1>6. ASSUME Write(c, "end", StatusWith("draft_ready", x)), UNCHANGED jobs
      PROVE  ImportInv'
  <2>1. Upstream
    BY <1>2, <1>6, InvFacts DEF Upstream
  <2>2. /\ StatusWith("draft_ready", x) \in ChangeRecords
        /\ SoundChange(StatusWith("draft_ready", x), capsules')
    BY Changes DEF Statuses
  <2>. QED BY <1>3, <1>4, <1>6, <2>1, <2>2, PlainPcs, PlainWrite
<1>. QED BY <1>1, <1>5, <1>6

LEMMA IngestFailsStep ==
    ASSUME ImportInv, NEW c \in Calls, IngestFails(c) PROVE ImportInv'
<1>1. StoreUnchanged /\ Upstream
  BY UpstreamStays DEF IngestFails, StoreUnchanged
<1>2. OwnsIt(c)
  BY OwnAnswer, PlainPcs DEF IngestFails, Ready
<1>3. /\ Diagnostic({"failure"}) \in ChangeRecords
      /\ SoundChange(Diagnostic({"failure"}), capsules')
  BY Changes DEF Statuses, Codes
<1>. QED BY <1>1, <1>2, <1>3, PlainPcs, PlainWrite DEF IngestFails

LEMMA RereadStep ==
    ASSUME ImportInv, NEW c \in Calls, Reread(c) PROVE ImportInv'
<1>1. StoreUnchanged /\ Upstream
  BY UpstreamStays DEF Reread, StoreUnchanged
<1>2. OwnsIt(c)
  BY OwnAnswer, PlainPcs DEF Reread, Ready
<1>. QED BY <1>1, <1>2, AgainStep DEF Reread, OwnsIt

LEMMA NotFoundStep ==
    ASSUME ImportInv, NEW c \in Calls, NotFound(c) PROVE ImportInv'
<1>1. StoreUnchanged /\ Upstream
  BY UpstreamStays DEF NotFound, StoreUnchanged
<1>. QED BY <1>1, FinishStep DEF NotFound, Outcomes

LEMMA CompileDraftStep ==
    ASSUME ImportInv, NEW c \in Calls, CompileDraft(c) PROVE ImportInv'
<1>1. StoreUnchanged /\ Upstream
  BY UpstreamStays DEF CompileDraft, StoreUnchanged
<1>2. flow[c].capsule \in Capsules \cup {None}
  BY InvFacts DEF Flows
<1>3. OwnsIt(c)
  <2>1. CASE Ready(c, "compile_check") /\ Owns(c, st[c].snap)
    BY <2>1, CheckAnswer DEF Ready, CheckPcs
  <2>2. CASE Ready(c, "compile_running")
    BY <2>2, OwnAnswer, PlainPcs DEF Ready
  <2>. QED BY <2>1, <2>2 DEF CompileDraft
<1>4. \A status \in {"compile_running", "draft_ready"} :
        /\ StatusWith(status, flow[c].capsule) \in ChangeRecords
        /\ SoundChange(StatusWith(status, flow[c].capsule), capsules')
  BY <1>2, Changes DEF Statuses
<1>5. /\ Diagnostic({"failure"}) \in ChangeRecords
      /\ SoundChange(Diagnostic({"failure"}), capsules')
  BY Changes DEF Statuses, Codes
<1>6. \/ Write(c, "compile_running", StatusWith("compile_running", flow[c].capsule))
      \/ Write(c, "end", StatusWith("draft_ready", flow[c].capsule))
      \/ Write(c, "compile_failed", Diagnostic({"failure"}))
  BY DEF CompileDraft
<1>. QED BY <1>1, <1>3, <1>4, <1>5, <1>6, PlainPcs, PlainWrite

LEMMA StartPublishStep ==
    ASSUME ImportInv, NEW c \in Calls, StartPublish(c) PROVE ImportInv'
<1>1. StoreUnchanged /\ Upstream
  BY UpstreamStays DEF StartPublish, StoreUnchanged
<1>2. /\ flow[c].pc = "publish_check" /\ st[c].step = "ok" /\ Owns(c, st[c].snap)
      /\ Write(c, "publish_running", StatusWith("publish_running", flow[c].capsule))
  BY DEF StartPublish, Ready
<1>3. flow[c].capsule \in Capsules \cup {None} /\ flow[c].capsule # None
  BY <1>2, InvFacts DEF Flows, SoundCall
<1>4. OwnsIt(c)
  BY <1>2, CheckAnswer DEF CheckPcs
<1>5. /\ StatusWith("publish_running", flow[c].capsule) \in ChangeRecords
      /\ SoundChange(StatusWith("publish_running", flow[c].capsule), capsules')
  BY <1>3, Changes DEF Statuses
<1>6. "publish_running" \in UpdatePcs /\ "publish_running" \notin LivePcs
  BY PlainPcs DEF LivePcs
<1>. QED BY <1>1, <1>2, <1>3, <1>4, <1>5, <1>6, WriteStep

LEMMA WroteChange ==
    ASSUME NEW pc, NEW drafts
    PROVE  Wrote(pc) \in ChangeRecords /\ SoundChange(Wrote(pc), drafts)
<1>1. /\ NoChange \in ChangeRecords /\ SoundChange(NoChange, drafts)
      /\ Diagnostic({"published"}) \in ChangeRecords
      /\ SoundChange(Diagnostic({"published"}), drafts)
  BY Changes DEF Statuses, Codes
<1>. QED BY <1>1 DEF Wrote

LEMMA UpstreamPublishesStep ==
    ASSUME ImportInv, NEW c \in Calls, UpstreamPublishes(c) PROVE ImportInv'
<1>1. /\ flow[c].pc = "publish_running" /\ StoreUnchanged
      /\ capsules' = [capsules EXCEPT ![flow[c].capsule] = "live"]
      /\ jobs' = jobs
  BY DEF UpstreamPublishes, Ready, StoreUnchanged
<1>2. flow[c].capsule \in Capsules /\ flow[c].capsule # None
  BY <1>1, InvFacts DEF Flows, SoundCall
<1>3. capsules'[flow[c].capsule] = "live" /\ Upstream
  BY <1>1, <1>2, InvFacts DEF Upstream, LiveStays, Drafts
<1>4. OwnsIt(c)
  BY <1>1, OwnAnswer, PlainPcs
<1>5. PICK pc \in {"thumbnail", "metadata", "metadata_failed", "published_diag"} :
        Write(c, pc, Wrote(pc))
  BY DEF UpstreamPublishes
<1>6. pc \in UpdatePcs
  BY PlainPcs DEF LivePcs
<1>7. Wrote(pc) \in ChangeRecords /\ SoundChange(Wrote(pc), capsules')
  BY WroteChange
<1>. QED BY <1>1, <1>2, <1>3, <1>4, <1>5, <1>6, <1>7, WriteStep

LEMMA PublishFailsStep ==
    ASSUME ImportInv, NEW c \in Calls, PublishFails(c) PROVE ImportInv'
<1>1. /\ flow[c].pc = "publish_running" /\ StoreUnchanged
      /\ \/ capsules' = capsules
         \/ capsules' = [capsules EXCEPT ![flow[c].capsule] = "live"]
      /\ jobs' = jobs
      /\ Write(c, "publish_failed", Diagnostic({"failure"}))
  BY DEF PublishFails, Ready, StoreUnchanged
<1>2. Upstream
  BY <1>1, InvFacts DEF Upstream, LiveStays, Drafts
<1>3. OwnsIt(c)
  BY <1>1, OwnAnswer, PlainPcs
<1>4. /\ Diagnostic({"failure"}) \in ChangeRecords
      /\ SoundChange(Diagnostic({"failure"}), capsules')
  BY Changes DEF Statuses, Codes
<1>. QED BY <1>1, <1>2, <1>3, <1>4, PlainPcs, PlainWrite

LEMMA LiveDraft ==
    ASSUME ImportInv, NEW c \in Calls, flow[c].pc \in LivePcs
    PROVE  flow[c].capsule \in Capsules /\ flow[c].capsule # None
           /\ capsules[flow[c].capsule] = "live"
<1>1. SoundCall(flow[c], st[c], ops, capsules) /\ flow[c].capsule \in Capsules \cup {None}
  BY InvFacts DEF Flows
<1>. QED BY <1>1 DEF SoundCall

LEMMA PolishLaunchStep ==
    ASSUME ImportInv, NEW c \in Calls, PolishLaunch(c) PROVE ImportInv'
<1>1. StoreUnchanged /\ Upstream /\ capsules' = capsules
  BY UpstreamStays DEF PolishLaunch, StoreUnchanged
<1>2. flow[c].pc \in LivePcs
  BY DEF PolishLaunch, Ready, LivePcs
<1>3. /\ OwnsIt(c) /\ flow[c].capsule \in Capsules /\ flow[c].capsule # None
      /\ capsules'[flow[c].capsule] = "live"
  BY <1>1, <1>2, OwnAnswer, LiveDraft, PlainPcs
<1>4. ASSUME NEW pc \in LivePcs, NEW change \in ChangeRecords,
             SoundChange(change, capsules'), Write(c, pc, change)
      PROVE  ImportInv'
  BY <1>1, <1>3, <1>4, PlainPcs, WriteStep
<1>5. CASE Ready(c, "thumbnail") /\ \E pc \in {"metadata", "metadata_failed"} :
             Write(c, pc, NoChange)
  <2>1. PICK pc \in {"metadata", "metadata_failed"} : Write(c, pc, NoChange)
    BY <1>5
  <2>2. NoChange \in ChangeRecords /\ SoundChange(NoChange, capsules')
    BY Changes DEF Statuses
  <2>. QED BY <1>4, <2>1, <2>2 DEF LivePcs
<1>6. CASE Write(c, "published_diag", Wrote("published_diag"))
  BY <1>4, <1>6, WroteChange DEF LivePcs
<1>7. CASE Write(c, "end", StatusWith("published", flow[c].capsule))
  <2> DEFINE change == StatusWith("published", flow[c].capsule)
  <2>1. change \in ChangeRecords
    BY <1>3 DEF StatusWith, NoChange, ChangeRecords, Statuses
  <2>2. change.status = "published" /\ change.capsule = flow[c].capsule
    BY DEF StatusWith, NoChange
  <2>3. change # None /\ change.status # None
    BY <2>1, <2>2, Distinguished DEF Statuses
  <2>4. SoundChange(change, capsules')
    BY <1>3, <2>2, <2>3 DEF SoundChange, LiveIfPublished
  <2>5. Write(c, "end", change)
    BY <1>7
  <2> HIDE DEF change
  <2>. QED BY <1>1, <1>3, <2>1, <2>4, <2>5, PlainPcs, PlainWrite
<1>. QED BY <1>5, <1>6, <1>7 DEF PolishLaunch

LEMMA CancelImportStep ==
    ASSUME ImportInv, NEW c \in Calls, CancelImport(c) PROVE ImportInv'
<1>1. /\ flow[c].pc = "cancel_check" /\ st[c].step = "ok" /\ Owns(c, st[c].snap)
      /\ StoreUnchanged /\ capsules' = capsules
      /\ Write(c, "end", Status("canceled"))
      /\ \/ jobs' = jobs
         \/ jobs' = [jobs EXCEPT ![st[c].snap.job].state = "canceled"]
  BY DEF CancelImport, Ready, StoreUnchanged
<1>2. OwnsIt(c)
  BY <1>1, CheckAnswer DEF CheckPcs
<1>3. jobs' \in [Jobs -> JobRecords]
  BY <1>1, InvFacts DEF JobRecords
<1>4. Upstream
  BY <1>1, <1>3, InvFacts DEF Upstream, LiveStays
<1>5. Status("canceled") \in ChangeRecords /\ SoundChange(Status("canceled"), capsules')
  BY Changes DEF Statuses
<1>. QED BY <1>1, <1>2, <1>4, <1>5, PlainPcs, PlainWrite

-----------------------------------------------------------------------------
(* Polling *)

(* The call moves to sweep or poll and its answer stays. *)
LEMMA KeepStep ==
    ASSUME ImportInv, StoreUnchanged, Upstream, NEW c \in Calls,
           st[c].step = "ok", flow[c].user \in Users,
           NEW pc \in {"sweep", "poll"}, Then(c, pc, st[c]),
           pc = "poll" => /\ OwnsIt(c) /\ st[c].op = flow[c].op
                          /\ st[c].snap # None /\ st[c].snap.job # None
    PROVE  ImportInv'
<1> DEFINE f == [flow[c] EXCEPT !.pc = pc]
           s == st[c]
<1>1. flow[c] \in Flows /\ s \in StoreCalls /\ SoundMethod(s, ops, capsules)
  BY InvFacts
<1>2. /\ f \in Flows
      /\ \A o \in Ops : flow[c].views[o] # None =>
           /\ Held(flow[c].views[o], o, ops, capsules')
           /\ flow[c].views[o].user = flow[c].user /\ flow[c].views[o].job # None
      /\ flow[c].phase = "compile" => flow[c].capsule # None
  BY MovedCall DEF ControlPoints
<1>3. /\ f.pc = pc /\ f.user = flow[c].user /\ f.op = flow[c].op
      /\ f.phase = flow[c].phase /\ f.capsule = flow[c].capsule /\ f.views = flow[c].views
  BY <1>1 DEF Flows
<1>4. flow' = [flow EXCEPT ![c] = f] /\ st' = [st EXCEPT ![c] = s]
  BY DEF Then, Set
<1>5. SoundMethod(s, ops, capsules')
  <2>1. Grows(ops, ops) /\ LiveStays(capsules, capsules')
    BY DEF Grows, Upstream
  <2>. QED BY <1>1, <2>1, MethodStable
<1> HIDE DEF f
<1>6. /\ "ok" \in StepsAt(pc) /\ pc \notin LivePcs \cup CheckPcs
      /\ pc \notin {"lookup", "created", "publish_running"}
      /\ pc \in OwnPcs => pc = "poll"
  BY DEF StepsAt, LivePcs, CheckPcs, OwnPcs
<1>7. SoundCall(f, s, ops, capsules')
  BY <1>2, <1>3, <1>6, Zenon DEF SoundCall, OwnsIt
<1>. QED BY <1>1, <1>2, <1>4, <1>5, <1>7, FlowStep

LEMMA AfterRefreshStep ==
    ASSUME ImportInv, StoreUnchanged, Upstream, NEW c \in Calls,
           st[c].step = "ok", flow[c].user \in Users, flow[c].op \in Ops,
           NEW rec \in Operations, AfterRefresh(c, rec)
    PROVE  ImportInv'
<1>1. "ok" \in Outcomes /\ "timed_out" \in Outcomes
  BY DEF Outcomes
<1> DEFINE f == [flow[c] EXCEPT !.pc = "refresh_check", !.polls = flow[c].polls + 1]
<1>2. \/ Then(c, "sweep", st[c])
      \/ Finish(c, "ok") \/ Finish(c, "timed_out")
      \/ Launch(c, flow[c].op, rec)
      \/ /\ flow[c].polls < MaxPolls
         /\ flow' = [flow EXCEPT ![c] = f]
         /\ Set(c, GetById(flow[c].op))
  <2>1. CASE flow[c].kind = "list"
    BY <2>1, Zenon DEF AfterRefresh
  <2>2. CASE flow[c].kind = "get"
    BY <2>2 DEF AfterRefresh
  <2>3. CASE flow[c].kind \notin {"list", "get"} /\ rec.status \in Targets(c)
    BY <2>3 DEF AfterRefresh
  <2>4. CASE flow[c].kind \notin {"list", "get"} /\ rec.status \notin Targets(c)
    BY <2>4 DEF AfterRefresh
  <2>. QED BY <2>1, <2>2, <2>3, <2>4
<1>3. CASE Then(c, "sweep", st[c])
  BY <1>3, KeepStep
<1>4. CASE Finish(c, "ok") \/ Finish(c, "timed_out")
  BY <1>1, <1>4, FinishStep
<1>5. CASE Launch(c, flow[c].op, rec)
  BY <1>5, LaunchStep
<1>6. CASE /\ flow[c].polls < MaxPolls
           /\ flow' = [flow EXCEPT ![c] = f]
           /\ Set(c, GetById(flow[c].op))
  <2>1. flow[c] \in Flows /\ MaxPolls \in Nat
    BY InvFacts, ImportAssumption
  <2>2. f \in Flows
    <3>1. flow[c].polls + 1 \in 0 .. MaxPolls
      BY <1>6, <2>1 DEF Flows
    <3>. QED BY <2>1, <3>1 DEF Flows, ControlPoints
  <2>3. /\ f.pc = "refresh_check" /\ f.op = flow[c].op /\ f.user = flow[c].user
        /\ f.views = flow[c].views /\ f.phase = flow[c].phase
        /\ f.capsule = flow[c].capsule
    BY <2>1 DEF Flows
  <2>4. flow[c].phase = "compile" => flow[c].capsule # None
    BY InvFacts DEF SoundCall
  <2> HIDE DEF f
  <2>5. "refresh_check" \in CheckPcs
    BY DEF CheckPcs
  <2>. QED BY <1>6, <2>2, <2>3, <2>4, <2>5, ReadStep
<1>. QED BY <1>2, <1>3, <1>4, <1>5, <1>6

LEMMA RefreshStep ==
    ASSUME ImportInv, NEW c \in Calls, Refresh(c) PROVE ImportInv'
<1>1. StoreUnchanged /\ Upstream
  BY UpstreamStays DEF Refresh, StoreUnchanged
<1>2. /\ flow[c].pc \in CheckPcs /\ st[c].step = "ok" /\ Owns(c, st[c].snap)
  BY DEF Refresh, Ready, CheckPcs
<1>3. /\ OwnsIt(c) /\ st[c].snap \in Operations /\ st[c].op = flow[c].op
      /\ flow[c].user \in Users /\ flow[c].op \in Ops /\ st[c].snap # None
  BY <1>2, CheckAnswer DEF Owns
<1>4. \/ Then(c, "refresh_check", GetById(flow[c].op))
      \/ Pollable(st[c].snap) /\ Then(c, "poll", st[c])
      \/ AfterRefresh(c, st[c].snap)
  BY DEF Refresh
<1>5. CASE Then(c, "refresh_check", GetById(flow[c].op))
  BY <1>1, <1>3, <1>5, AgainStep
<1>6. CASE Pollable(st[c].snap) /\ Then(c, "poll", st[c])
  BY <1>1, <1>2, <1>3, <1>6, KeepStep DEF Pollable
<1>7. CASE AfterRefresh(c, st[c].snap)
  BY <1>1, <1>2, <1>3, <1>7, AfterRefreshStep
<1>. QED BY <1>4, <1>5, <1>6, <1>7

(* A list's sweep over the operations to poll. *)
LEMMA SnapshotListStep ==
    ASSUME ImportInv, NEW c \in Calls, SnapshotList(c) PROVE ImportInv'
<1> DEFINE views == [o \in Ops |->
                       IF /\ \E i \in 1 .. Len(st[c].seen) : st[c].seen[i] = o
                          /\ Owns(c, ops[o])
                          /\ Pollable(ops[o])
                       THEN ops[o] ELSE None]
           f == [flow[c] EXCEPT !.pc = "sweep", !.views = views]
           s == [Quiet EXCEPT !.step = "ok"]
<1>1. StoreUnchanged /\ Upstream /\ capsules' = capsules
  BY UpstreamStays DEF SnapshotList, StoreUnchanged
<1>2. flow' = [flow EXCEPT ![c] = f] /\ st' = [st EXCEPT ![c] = s]
  BY DEF SnapshotList, Set
<1>3. /\ flow[c].pc = "listed" /\ flow[c] \in Flows /\ SoundCall(flow[c], st[c], ops, capsules)
      /\ ops \in [Ops -> Operations \cup {None}]
  BY InvFacts DEF SnapshotList, Ready
<1>4. views \in [Ops -> Operations \cup {None}]
  BY <1>3
<1>5. ASSUME NEW o \in Ops, views[o] # None
      PROVE  /\ Held(views[o], o, ops, capsules') /\ views[o].user = flow[c].user
             /\ views[o].job # None
  <2>1. views[o] = ops[o] /\ ops[o] # None /\ Owns(c, ops[o]) /\ Pollable(ops[o])
    BY <1>5
  <2>2. LiveIfPublished(ops[o], capsules')
    BY <1>1, <2>1 DEF ImportInv
  <2>. QED BY <2>1, <2>2 DEF Held, Owns, Pollable
<1> HIDE DEF views
<1>6. f \in Flows
  BY <1>3, <1>4 DEF Flows, ControlPoints
<1>7. /\ f.pc = "sweep" /\ f.user = flow[c].user /\ f.views = views
      /\ f.phase = flow[c].phase /\ f.capsule = flow[c].capsule
  BY <1>3 DEF Flows
<1>8. s.step = "ok" /\ s.snap = None
  BY DEF Quiet
<1>9. s \in StoreCalls
  BY QuietType DEF StoreCalls, Steps
<1> HIDE DEF f, s
<1>10. SoundMethod(s, ops, capsules')
  BY <1>8 DEF SoundMethod
<1>11. /\ "ok" \in StepsAt("sweep") /\ "sweep" \notin LivePcs \cup CheckPcs \cup OwnPcs
  BY DEF StepsAt, LivePcs, CheckPcs, OwnPcs
<1>12. flow[c].user \in Users /\ (flow[c].phase = "compile" => flow[c].capsule # None)
  BY <1>3 DEF SoundCall
<1>13. SoundCall(f, s, ops, capsules')
  BY <1>5, <1>7, <1>8, <1>11, <1>12, Zenon DEF SoundCall
<1>. QED BY <1>1, <1>2, <1>6, <1>8, <1>9, <1>10, <1>13, FlowStep

LEMMA SweepNextStep ==
    ASSUME ImportInv, NEW c \in Calls, SweepNext(c) PROVE ImportInv'
<1>1. StoreUnchanged /\ Upstream /\ capsules' = capsules
  BY UpstreamStays DEF SweepNext, StoreUnchanged
<1>2. /\ flow[c].pc = "sweep" /\ flow[c] \in Flows /\ SoundCall(flow[c], st[c], ops, capsules)
  BY InvFacts DEF SweepNext, Ready
<1>3. CASE Finish(c, "ok")
  BY <1>1, <1>3, FinishStep DEF Outcomes
<1>4. ASSUME NEW o \in Ops, flow[c].views[o] # None,
             flow' = [flow EXCEPT ![c] = [flow[c] EXCEPT !.pc = "poll", !.op = o,
                                                         !.views[o] = None]],
             Set(c, Returned(o, flow[c].views[o]))
      PROVE  ImportInv'
  <2> DEFINE f == [flow[c] EXCEPT !.pc = "poll", !.op = o, !.views[o] = None]
             rec == flow[c].views[o]
             s == Returned(o, rec)
  <2>1. flow[c].views \in [Ops -> Operations \cup {None}]
    BY <1>2 DEF Flows
  <2>2. /\ rec \in Operations /\ Held(rec, o, ops, capsules)
        /\ rec.user = flow[c].user /\ rec.job # None
    BY <1>2, <1>4, <2>1 DEF SoundCall
  <2>3. f \in Flows
    BY <1>2, <2>1 DEF Flows, ControlPoints
  <2>4. /\ f.pc = "poll" /\ f.op = o /\ f.user = flow[c].user
        /\ f.phase = flow[c].phase /\ f.capsule = flow[c].capsule
        /\ f.views = [flow[c].views EXCEPT ![o] = None]
    BY <1>2 DEF Flows
  <2>5. \A p \in Ops : f.views[p] # None => f.views[p] = flow[c].views[p]
    BY <2>1, <2>4
  <2>6. flow' = [flow EXCEPT ![c] = f] /\ st' = [st EXCEPT ![c] = s]
    BY <1>4 DEF Set
  <2> HIDE DEF f, rec
  <2>7. s.step = "ok" /\ s.op = o /\ s.snap = rec
    BY DEF Returned, Quiet
  <2>8. s \in StoreCalls
    BY <2>1, <2>2, MethodTypes
  <2> HIDE DEF s
  <2>9. SoundMethod(s, ops, capsules')
    BY <1>1, <2>2, <2>7 DEF SoundMethod
  <2>10. /\ ops[o] # None /\ ops[o].user = flow[c].user /\ flow[c].user \in Users
         /\ flow[c].phase = "compile" => flow[c].capsule # None
         /\ rec # None
    BY <1>2, <2>2 DEF Held, SoundCall
  <2>11. \A p \in Ops : f.views[p] # None =>
           /\ Held(f.views[p], p, ops, capsules')
           /\ f.views[p].user = f.user /\ f.views[p].job # None
    BY <1>1, <1>2, <2>4, <2>5 DEF SoundCall
  <2>12. "ok" \in StepsAt("poll") /\ "poll" \notin LivePcs
    BY DEF StepsAt, LivePcs, CheckPcs
  <2>13. SoundCall(f, s, ops, capsules')
    BY <2>2, <2>4, <2>7, <2>10, <2>11, <2>12, Zenon DEF SoundCall
  <2>. QED BY <1>1, <2>3, <2>6, <2>7, <2>8, <2>9, <2>13, FlowStep
<1>. QED BY <1>3, <1>4 DEF SweepNext

LEMMA PollJobStep ==
    ASSUME ImportInv, NEW c \in Calls, PollJob(c) PROVE ImportInv'
<1>1. StoreUnchanged /\ Upstream
  BY UpstreamStays DEF PollJob, StoreUnchanged
<1>2. flow[c].pc = "poll" /\ st[c].step = "ok"
  BY DEF PollJob, Ready
<1>3. OwnsIt(c) /\ st[c].snap \in Operations
  BY <1>2, OwnAnswer, PlainPcs
<1>4. st[c].snap.job \in Jobs /\ st[c].snap.capsule \in Capsules \cup {None}
  BY <1>2, <1>3, InvFacts DEF SoundCall, Operations
<1>5. jobs[st[c].snap.job].capsule \in Capsules \cup {None}
  BY <1>4, InvFacts DEF JobRecords
<1> DEFINE x == IF jobs[st[c].snap.job].capsule # None
                THEN jobs[st[c].snap.job].capsule ELSE st[c].snap.capsule
<1>6. x \in Capsules \cup {None}
  BY <1>4, <1>5
<1>7. \/ Write(c, "refreshed", StatusWith("draft_ready", x))
      \/ Write(c, "job_failed", Diagnostic({"failure"}))
      \/ Write(c, "job_canceled", Diagnostic({"failure"}))
      \/ Then(c, "refreshed", GetById(flow[c].op))
      \/ Write(c, "poll_error", NoChange)
  BY DEF PollJob
<1> HIDE DEF x
<1>8. /\ StatusWith("draft_ready", x) \in ChangeRecords
      /\ SoundChange(StatusWith("draft_ready", x), capsules')
      /\ Diagnostic({"failure"}) \in ChangeRecords
      /\ SoundChange(Diagnostic({"failure"}), capsules')
      /\ NoChange \in ChangeRecords /\ SoundChange(NoChange, capsules')
  BY <1>6, Changes DEF Statuses, Codes
<1>9. CASE Then(c, "refreshed", GetById(flow[c].op))
  BY <1>1, <1>3, <1>9, AgainStep DEF OwnsIt
<1>. QED BY <1>1, <1>3, <1>7, <1>8, <1>9, PlainPcs, PlainWrite

LEMMA RefreshedStep ==
    ASSUME ImportInv, NEW c \in Calls, Refreshed(c) PROVE ImportInv'
<1>1. StoreUnchanged /\ Upstream
  BY UpstreamStays DEF Refreshed, StoreUnchanged
<1>2. flow[c].pc \in {"job_failed", "job_canceled", "poll_error", "refreshed"}
      /\ st[c].step = "ok"
  BY DEF Refreshed, Ready
<1>3. OwnsIt(c) /\ st[c].snap \in Operations
  BY <1>2, OwnAnswer, PlainPcs
<1>4. \A status \in {"failed", "canceled"} :
        Status(status) \in ChangeRecords /\ SoundChange(Status(status), capsules')
  BY Changes DEF Statuses
<1>5. CASE \E status \in {"failed", "canceled"} : Write(c, "refreshed", Status(status))
  BY <1>1, <1>3, <1>4, <1>5, PlainPcs, PlainWrite
<1>6. CASE Then(c, "refreshed", GetById(flow[c].op))
  BY <1>1, <1>3, <1>6, AgainStep DEF OwnsIt
<1>7. CASE AfterRefresh(c, st[c].snap)
  BY <1>1, <1>2, <1>3, <1>7, AfterRefreshStep DEF OwnsIt
<1>. QED BY <1>5, <1>6, <1>7 DEF Refreshed

LEMMA EndStep ==
    ASSUME ImportInv, NEW c \in Calls, End(c) PROVE ImportInv'
<1>1. StoreUnchanged /\ Upstream
  BY UpstreamStays DEF End, StoreUnchanged
<1>2. flow[c].pc \in OwnPcs /\ st[c].step = "ok"
  BY PlainPcs DEF End, Ready
<1>3. /\ OwnsIt(c) /\ st[c].snap \in Operations
      /\ flow[c].capsule \in Capsules \cup {None}
  BY <1>2, OwnAnswer, InvFacts DEF Flows
<1>4. /\ \A status \in {"compile_failed", "failed"} :
           /\ StatusWith(status, flow[c].capsule) \in ChangeRecords
           /\ SoundChange(StatusWith(status, flow[c].capsule), capsules')
      /\ Status("failed") \in ChangeRecords /\ SoundChange(Status("failed"), capsules')
  BY <1>3, Changes DEF Statuses
<1>5. CASE \/ Write(c, "end", Status("failed"))
           \/ Write(c, "end", StatusWith("compile_failed", flow[c].capsule))
           \/ Write(c, "end", StatusWith("failed", flow[c].capsule))
  BY <1>1, <1>3, <1>4, <1>5, PlainPcs, PlainWrite
<1>6. CASE Return(c, flow[c].op, st[c].snap)
  BY <1>1, <1>3, <1>6, ReturnStep DEF OwnsIt
<1>. QED BY <1>5, <1>6 DEF End

LEMMA RejectStep ==
    ASSUME ImportInv, NEW c \in Calls, Reject(c) PROVE ImportInv'
<1>1. StoreUnchanged /\ Upstream /\ capsules' = capsules
  BY UpstreamStays DEF Reject, StoreUnchanged
<1>2. flow[c].pc \in ControlPoints
  BY InvFacts DEF Flows
<1>3. CASE Finish(c, "threw")
  BY <1>1, <1>3, FinishStep DEF Outcomes
<1>4. CASE ~Finish(c, "threw")
  <2> DEFINE pc == Handler[flow[c].pc]
  <2>1. /\ pc # "done"
        /\ Write(c, pc, IF pc \in {"ingest_failed", "publish_failed"}
                        THEN Diagnostic({"failure"}) ELSE NoChange)
    BY <1>4 DEF Reject
  <2>2. \/ flow[c].pc \in {"ingesting", "uploading", "waiting", "reread"}
             /\ pc = "ingest_failed"
        \/ flow[c].pc \in {"job_failed", "job_canceled"} /\ pc = "poll_error"
        \/ flow[c].pc \in {"thumbnail", "metadata"} /\ pc = "metadata_failed"
        \/ flow[c].pc \in {"metadata_failed", "published_diag"} /\ pc = "publish_failed"
    BY <1>2, <2>1 DEF Handler
  <2> HIDE DEF pc
  <2>3. OwnsIt(c)
    BY <2>2, OwnAnswer, PlainPcs DEF LivePcs
  <2>4. /\ Diagnostic({"failure"}) \in ChangeRecords
        /\ SoundChange(Diagnostic({"failure"}), capsules')
        /\ NoChange \in ChangeRecords /\ SoundChange(NoChange, capsules')
    BY Changes DEF Statuses, Codes
  <2>5. pc \in UpdatePcs
    BY <2>2, PlainPcs DEF LivePcs
  <2>6. pc \in {"publish_running"} \cup LivePcs => pc = "metadata_failed"
    BY <2>2 DEF LivePcs
  <2>7. pc = "metadata_failed" =>
          flow[c].capsule # None /\ capsules'[flow[c].capsule] = "live"
    BY <1>1, <2>2, LiveDraft DEF LivePcs
  <2> DEFINE change == IF pc \in {"ingest_failed", "publish_failed"}
                       THEN Diagnostic({"failure"}) ELSE NoChange
  <2>8. /\ change \in ChangeRecords /\ SoundChange(change, capsules')
        /\ Write(c, pc, change)
    BY <2>1, <2>4
  <2> HIDE DEF change
  <2>. QED BY <1>1, <2>3, <2>5, <2>6, <2>7, <2>8, WriteStep
<1>. QED BY <1>3, <1>4

LEMMA EvictStep ==
    ASSUME ImportInv, NEW c \in Calls, Evict(c) PROVE ImportInv'
<1>1. StoreUnchanged /\ Upstream
  BY UpstreamStays DEF Evict, StoreUnchanged
<1>. QED BY <1>1, FinishStep DEF Evict, Outcomes

LEMMA JobProgressStep ==
    ASSUME ImportInv, NEW j \in Jobs, JobProgress(j) PROVE ImportInv'
<1>1. UNCHANGED <<ops, idem, index, st, flow>>
  BY DEF JobProgress
<1>2. Upstream
  <2>1. ASSUME NEW x \in {x \in Capsules : capsules[x] = "unborn"} \cup {jobs[j].capsule},
               jobs' = [jobs EXCEPT ![j] = [state |-> "completed", capsule |-> x]],
               capsules' = [y \in Capsules |->
                  IF y = x /\ capsules[y] = "unborn" THEN "draft" ELSE capsules[y]]
        PROVE  Upstream
    <3>1. [state |-> "completed", capsule |-> x] \in JobRecords
      BY InvFacts DEF JobRecords
    <3>. QED BY <2>1, <3>1, InvFacts DEF Upstream, LiveStays, Drafts
  <2>2. ASSUME NEW s \in {"failed", "canceled"}, jobs' = [jobs EXCEPT ![j].state = s],
               UNCHANGED capsules
        PROVE  Upstream
    <3>1. jobs' \in [Jobs -> JobRecords]
      BY <2>2, InvFacts DEF JobRecords
    <3>. QED BY <2>2, <3>1, InvFacts DEF Upstream, LiveStays
  <2>. QED BY <2>1, <2>2 DEF JobProgress
<1>3. ASSUME NEW c \in Calls
      PROVE  /\ SoundMethod(st[c], ops, capsules')
             /\ SoundCall(flow[c], st[c], ops, capsules')
  <2>1. Grows(ops, ops) /\ LiveStays(capsules, capsules')
    BY <1>2 DEF Grows, Upstream
  <2>2. st[c].step = "put" => ops[st[c].op] = None
    BY InvFacts DEF SoundMethod
  <2>. QED BY <2>1, <2>2, InvFacts, MethodStable, CallStable
<1>4. /\ \A o \in Ops : ops'[o] # None => LiveIfPublished(ops'[o], capsules')
      /\ PointersSound' /\ IndexSound'
  BY <1>1, <1>2, PublishedStays DEF StoreUnchanged, Upstream
<1>5. TypeOK'
  BY <1>1, <1>2, InvFacts DEF TypeOK, StoreTypeOK, Upstream, Drafts, JobRecords
<1>. QED BY <1>1, <1>3, <1>4, <1>5 DEF ImportInv

-----------------------------------------------------------------------------
(* The steps of the store *)

ServiceUnchanged == UNCHANGED <<flow, capsules, jobs>>

(* Which steps follow which at a control point. *)
LEMMA StepOrder ==
    ASSUME NEW pc \in ControlPoints, NEW step \in StepsAt(pc)
    PROVE  /\ step = "lookup" => pc = "lookup" /\ "get" \in StepsAt(pc)
           /\ step = "get" => pc \in {"lookup", "reread", "refreshed"} \cup CheckPcs
           /\ step = "list" => pc = "listed"
           /\ step \in {"put", "put_pointer"} => pc = "created"
           /\ step \in {"read", "write"} => WriteSteps \subseteq StepsAt(pc)
           /\ step \in {"ix_read", "ix_write"} => "ix_write" \in StepsAt(pc)
           /\ step = "put" => "put_pointer" \in StepsAt(pc)
           /\ step = "put_pointer" => "ix_read" \in StepsAt(pc)
           /\ step \notin {"idle", "threw"} => "ok" \in StepsAt(pc)
           /\ step \notin {"idle", "ok", "threw"} => "threw" \in StepsAt(pc) /\ pc # "poll"
BY DEF StepsAt, WriteSteps, CheckPcs, ControlPoints

(* A call whose method has taken a step from s to s2. *)
LEMMA SameCall ==
    ASSUME NEW recs, NEW drafts, NEW f \in Flows, NEW s, NEW s2,
           SoundCall(f, s, recs, drafts),
           s.step \notin {"idle", "ok", "threw"}, s2.step \in StepsAt(f.pc),
           s2.step # "threw" =>
             /\ f.pc \in CheckPcs \cup OwnPcs \cup {"created"} => s2.op = s.op
             /\ f.pc = "created" => s2.snap = s.snap
             /\ s2.step = "ok" /\ f.pc \in OwnPcs => s2.snap # None
    PROVE  SoundCall(f, s2, recs, drafts)
<1>1. s.step \in StepsAt(f.pc) /\ f.pc \in ControlPoints
  BY DEF SoundCall, Flows
<1>2. f.pc # "poll"
  BY <1>1, StepOrder
<1>3. /\ f.pc \notin {"idle", "done"} => f.user \in Users
      /\ f.pc = "lookup" => f.key \in Keys
      /\ f.pc \in CheckPcs \cup OwnPcs \cup {"created"} => f.op \in Ops /\ s.op = f.op
      /\ f.pc = "created" => s.snap # None /\ s.snap.user = f.user
      /\ f.pc \in OwnPcs => recs[f.op] # None /\ recs[f.op].user = f.user
      /\ f.pc \in {"publish_check", "publish_running"} \cup LivePcs
           \/ f.phase = "compile" => f.capsule # None
      /\ f.pc \in LivePcs => drafts[f.capsule] = "live"
      /\ \A o \in Ops : f.views[o] # None =>
           /\ Held(f.views[o], o, recs, drafts)
           /\ f.views[o].user = f.user /\ f.views[o].job # None
  BY DEF SoundCall
<1>. QED BY <1>2, <1>3, Zenon DEF SoundCall

(* A step of c's method that writes nothing. *)
LEMMA MethodStep ==
    ASSUME ImportInv, StoreUnchanged, ServiceUnchanged, NEW c \in Calls,
           NEW s \in StoreCalls, Set(c, s), s.step # "put",
           SoundMethod(s, ops, capsules), SoundCall(flow[c], s, ops, capsules)
    PROVE  ImportInv'
<1>1. Upstream /\ capsules' = capsules
  BY UpstreamStays DEF ServiceUnchanged
<1>2. flow' = [flow EXCEPT ![c] = flow[c]] /\ flow[c] \in Flows
  BY InvFacts DEF ServiceUnchanged
<1>3. st' = [st EXCEPT ![c] = s]
  BY DEF Set
<1>4. SoundMethod(s, ops, capsules') /\ SoundCall(flow[c], s, ops, capsules')
  BY <1>1
<1>. QED BY <1>1, <1>2, <1>3, <1>4, FlowStep

LEMMA CallOf ==
    ASSUME ImportInv, NEW c \in Calls
    PROVE  /\ st[c] \in StoreCalls /\ flow[c] \in Flows /\ flow[c].pc \in ControlPoints
           /\ SoundMethod(st[c], ops, capsules) /\ SoundCall(flow[c], st[c], ops, capsules)
           /\ st[c].step \in StepsAt(flow[c].pc)
BY InvFacts DEF SoundCall, Flows

LEMMA CurrentHeld ==
    ASSUME ImportInv, NEW o \in Ops, ops[o] # None
    PROVE  ops[o] \in Operations /\ Held(ops[o], o, ops, capsules)
BY InvFacts DEF ImportInv, Held

LEMMA LookupPointerStep ==
    ASSUME ImportInv, ServiceUnchanged, NEW c \in Calls, LookupPointer(c) PROVE ImportInv'
<1> DEFINE o == idem[st[c].user][st[c].key]
<1>1. StoreUnchanged /\ st[c].step = "lookup"
      /\ Set(c, IF o = None THEN Returned(None, None) ELSE GetById(o))
  BY DEF LookupPointer, StoreUnchanged
<1>2. st[c].user \in Users /\ st[c].key \in Keys
  BY <1>1, CallOf DEF SoundMethod
<1>3. o \in Ops \cup {None}
  BY <1>2, InvFacts
<1>4. flow[c].pc = "lookup" /\ "get" \in StepsAt("lookup") /\ "ok" \in StepsAt("lookup")
      /\ "lookup" \notin CheckPcs \cup OwnPcs \cup {"created"}
  BY <1>1, CallOf, StepOrder DEF CheckPcs, OwnPcs
<1> HIDE DEF o
<1>5. CASE o = None
  <2> DEFINE s == Returned(None, None)
  <2>1. s.step = "ok" /\ s.snap = None
    BY DEF Returned, Quiet
  <2>2. s \in StoreCalls
    BY MethodTypes
  <2>3. Set(c, s)
    BY <1>1, <1>5
  <2> HIDE DEF s
  <2>4. SoundMethod(s, ops, capsules)
    BY <2>1 DEF SoundMethod
  <2>5. SoundCall(flow[c], s, ops, capsules)
    BY <1>1, <1>4, <2>1, CallOf, SameCall
  <2>. QED BY <1>1, <2>1, <2>2, <2>3, <2>4, <2>5, MethodStep
<1>6. CASE o # None
  <2> DEFINE s == GetById(o)
  <2>1. s.step = "get" /\ s.op = o /\ o \in Ops
    BY <1>3, <1>6 DEF GetById, Quiet
  <2>2. s \in StoreCalls
    BY <2>1, MethodTypes
  <2>3. Set(c, s)
    BY <1>1, <1>6
  <2> HIDE DEF s
  <2>4. SoundMethod(s, ops, capsules)
    BY <2>1 DEF SoundMethod
  <2>5. SoundCall(flow[c], s, ops, capsules)
    BY <1>1, <1>4, <2>1, CallOf, SameCall
  <2>. QED BY <1>1, <2>1, <2>2, <2>3, <2>4, <2>5, MethodStep
<1>. QED BY <1>5, <1>6

LEMMA FetchStep ==
    ASSUME ImportInv, ServiceUnchanged, NEW c \in Calls, Fetch(c) PROVE ImportInv'
<1> DEFINE s == Returned(st[c].op, ops[st[c].op])
<1>1. StoreUnchanged /\ st[c].step = "get" /\ Set(c, s)
  BY DEF Fetch, StoreUnchanged
<1>2. st[c].op \in Ops
  BY <1>1, CallOf DEF SoundMethod
<1>3. ops[st[c].op] \in Operations \cup {None}
  BY <1>2, InvFacts
<1>4. s.step = "ok" /\ s.op = st[c].op /\ s.snap = ops[st[c].op]
  BY DEF Returned, Quiet
<1>5. s \in StoreCalls
  BY <1>2, <1>3, MethodTypes
<1> HIDE DEF s
<1>6. SoundMethod(s, ops, capsules)
  BY <1>2, <1>4, CurrentHeld DEF SoundMethod
<1>7. flow[c].pc \in {"lookup", "reread", "refreshed"} \cup CheckPcs
      /\ "ok" \in StepsAt(flow[c].pc) /\ flow[c].pc # "created"
  BY <1>1, CallOf, StepOrder DEF CheckPcs
<1>8. flow[c].pc \in OwnPcs => s.snap # None
  BY <1>1, <1>4, CallOf DEF SoundCall
<1>9. SoundCall(flow[c], s, ops, capsules)
  BY <1>1, <1>4, <1>7, <1>8, CallOf, SameCall
<1>. QED BY <1>1, <1>4, <1>5, <1>6, <1>9, MethodStep

LEMMA FetchListStep ==
    ASSUME ImportInv, ServiceUnchanged, NEW c \in Calls, FetchList(c) PROVE ImportInv'
<1> DEFINE s == [Quiet EXCEPT !.step = "ok", !.seen = index[st[c].user]]
<1>1. StoreUnchanged /\ st[c].step = "list" /\ Set(c, s)
  BY DEF FetchList, StoreUnchanged
<1>2. index[st[c].user] \in Seq(Ops)
  BY <1>1, CallOf, InvFacts DEF SoundMethod
<1>3. s.step = "ok" /\ s.snap = None
  BY DEF Quiet
<1>4. s \in StoreCalls
  BY <1>2 DEF Quiet, StoreCalls, Steps
<1> HIDE DEF s
<1>5. SoundMethod(s, ops, capsules)
  BY <1>3 DEF SoundMethod
<1>6. flow[c].pc = "listed" /\ "ok" \in StepsAt("listed")
      /\ "listed" \notin CheckPcs \cup OwnPcs \cup {"created"}
  BY <1>1, CallOf, StepOrder DEF CheckPcs, OwnPcs
<1>7. SoundCall(flow[c], s, ops, capsules)
  BY <1>1, <1>3, <1>6, CallOf, SameCall
<1>. QED BY <1>1, <1>3, <1>4, <1>5, <1>7, MethodStep

LEMMA ReadForUpdateStep ==
    ASSUME ImportInv, ServiceUnchanged, NEW c \in Calls, ReadForUpdate(c) PROVE ImportInv'
<1> DEFINE o == ops[st[c].op]
           s == [st[c] EXCEPT !.step = "write", !.snap = o]
<1>1. st[c].step = "read" /\ StoreUnchanged
      /\ Set(c, IF o = None THEN [Quiet EXCEPT !.step = "threw"] ELSE s)
  BY DEF ReadForUpdate, StoreUnchanged
<1>2. st[c].op \in Ops /\ o # None /\ SoundChange(st[c].change, capsules)
      /\ st[c] \in StoreCalls
  BY <1>1, CallOf DEF SoundMethod
<1>3. o \in Operations /\ Held(o, st[c].op, ops, capsules) /\ Set(c, s)
  BY <1>1, <1>2, CurrentHeld
<1> HIDE DEF o
<1>4. s.step = "write" /\ s.op = st[c].op /\ s.snap = o /\ s.change = st[c].change
  BY <1>2 DEF StoreCalls
<1>5. s \in StoreCalls
  BY <1>2, <1>3 DEF StoreCalls, Steps
<1> HIDE DEF s
<1>6. SoundMethod(s, ops, capsules)
  BY <1>2, <1>3, <1>4 DEF SoundMethod, o
<1>7. "write" \in StepsAt(flow[c].pc)
  BY <1>1, CallOf, StepOrder DEF WriteSteps
<1>8. flow[c].pc # "created"
  BY <1>1, CallOf DEF StepsAt
<1>9. SoundCall(flow[c], s, ops, capsules)
  BY <1>1, <1>4, <1>7, <1>8, CallOf, SameCall
<1>. QED BY <1>1, <1>3, <1>4, <1>5, <1>6, <1>9, MethodStep

LEMMA ReadIndexStep ==
    ASSUME ImportInv, ServiceUnchanged, NEW c \in Calls, ReadIndex(c) PROVE ImportInv'
<1> DEFINE s == [st[c] EXCEPT !.step = "ix_write", !.seen = index[st[c].snap.user]]
<1>1. st[c].step = "ix_read" /\ StoreUnchanged /\ Set(c, s)
  BY DEF ReadIndex, StoreUnchanged
<1>2. st[c] \in StoreCalls /\ Held(st[c].snap, st[c].op, ops, capsules)
  BY <1>1, CallOf DEF SoundMethod
<1>3. st[c].snap \in Operations /\ st[c].snap.user \in Users
  BY <1>2 DEF StoreCalls, Held, Operations
<1>4. /\ index[st[c].snap.user] \in Seq(Ops)
      /\ SoundList(index[st[c].snap.user], st[c].snap.user, ops)
  BY <1>3, InvFacts DEF ImportInv, IndexSound, SoundList
<1>5. /\ s.step = "ix_write" /\ s.op = st[c].op /\ s.snap = st[c].snap
      /\ s.seen = index[st[c].snap.user]
  BY <1>2 DEF StoreCalls
<1>6. s \in StoreCalls
  BY <1>2, <1>4 DEF StoreCalls, Steps
<1> HIDE DEF s
<1>7. SoundMethod(s, ops, capsules)
  BY <1>2, <1>4, <1>5 DEF SoundMethod
<1>8. "ix_write" \in StepsAt(flow[c].pc)
  BY <1>1, CallOf, StepOrder
<1>9. SoundCall(flow[c], s, ops, capsules)
  BY <1>1, <1>5, <1>8, CallOf, SameCall
<1>. QED BY <1>1, <1>5, <1>6, <1>7, <1>9, MethodStep

LEMMA KvRejectsStep ==
    ASSUME ImportInv, ServiceUnchanged, NEW c \in Calls, KvRejects(c) PROVE ImportInv'
<1> DEFINE s == [Quiet EXCEPT !.step = "threw"]
<1>1. StoreUnchanged /\ st[c].step \notin {"idle", "ok", "threw"} /\ Set(c, s)
  BY DEF KvRejects, StoreUnchanged
<1>2. s.step = "threw" /\ s \in StoreCalls
  BY MethodTypes, QuietType DEF StoreCalls
<1> HIDE DEF s
<1>3. SoundMethod(s, ops, capsules)
  BY <1>2 DEF SoundMethod
<1>4. "threw" \in StepsAt(flow[c].pc)
  BY <1>1, CallOf, StepOrder
<1>5. SoundCall(flow[c], s, ops, capsules)
  BY <1>1, <1>2, <1>4, CallOf, SameCall
<1>. QED BY <1>1, <1>2, <1>3, <1>5, MethodStep

LEMMA RecordStep ==
    ASSUME ImportInv, ServiceUnchanged, UNCHANGED <<idem, index>>, NEW c \in Calls,
           NEW s \in StoreCalls, Set(c, s), s.step # "put",
           NEW o \in Ops, NEW rec \in Operations, ops' = [ops EXCEPT ![o] = rec],
           LiveIfPublished(rec, capsules),
           ops[o] # None => rec.user = ops[o].user /\ rec.key = ops[o].key,
           \A d \in Calls \ {c} : st[d].step = "put" => st[d].op # o,
           SoundMethod(s, ops', capsules), SoundCall(flow[c], s, ops', capsules)
    PROVE  ImportInv'
<1>1. /\ flow' = [flow EXCEPT ![c] = flow[c]] /\ capsules' = capsules /\ jobs' = jobs
      /\ st' = [st EXCEPT ![c] = s]
  BY InvFacts DEF ServiceUnchanged, Set
<1>2. rec # None
  BY Distinguished
<1>3. ops' \in [Ops -> Operations \cup {None}] /\ ops'[o] = rec
      /\ \A p \in Ops \ {o} : ops'[p] = ops[p]
  BY InvFacts
<1>4. Grows(ops, ops') /\ LiveStays(capsules, capsules')
  BY <1>1, <1>2, <1>3 DEF Grows, LiveStays
<1>5. \A d \in Calls \ {c} : st[d].step = "put" => ops'[st[d].op] = None
  BY <1>3, InvFacts DEF SoundMethod
<1>6. SoundMethod(s, ops', capsules') /\ SoundCall(flow[c], s, ops', capsules')
  BY <1>1
<1>7. /\ flow' \in [Calls -> Flows] /\ st' \in [Calls -> StoreCalls]
      /\ \A d, e \in Calls :
           st'[d].step = "put" /\ st'[e].step = "put" /\ st'[d].op = st'[e].op => d = e
      /\ \A d \in Calls : /\ SoundMethod(st'[d], ops', capsules')
                          /\ SoundCall(flow'[d], st'[d], ops', capsules')
  BY <1>1, <1>4, <1>5, <1>6, InvFacts, CallsKept
<1>8. \A p \in Ops : ops'[p] # None => LiveIfPublished(ops'[p], capsules')
  BY <1>1, <1>3 DEF ImportInv
<1>9. PointersSound'
  <2> SUFFICES ASSUME NEW u \in Users, NEW k \in Keys, idem[u][k] # None
               PROVE  /\ ops'[idem[u][k]] # None
                      /\ ops'[idem[u][k]].user = u /\ ops'[idem[u][k]].key = k
    BY DEF PointersSound
  <2>1. idem[u][k] \in Ops
    BY InvFacts
  <2>2. /\ ops[idem[u][k]] # None
        /\ ops[idem[u][k]].user = u /\ ops[idem[u][k]].key = k
    BY DEF ImportInv, PointersSound
  <2>. QED BY <1>4, <2>1, <2>2 DEF Grows
<1>10. IndexSound'
  <2> SUFFICES ASSUME NEW u \in Users
               PROVE  /\ Len(index[u]) <= MaxIndex
                      /\ \A i \in 1 .. Len(index[u]) :
                           /\ ops'[index[u][i]] # None
                           /\ ops'[index[u][i]].user = u
                           /\ \A j \in 1 .. Len(index[u]) : index[u][i] = index[u][j] => i = j
    BY DEF IndexSound
  <2>1. index[u] \in Seq(Ops)
    BY InvFacts
  <2>2. \A i \in 1 .. Len(index[u]) : index[u][i] \in Ops
    BY <2>1
  <2>3. /\ Len(index[u]) <= MaxIndex
        /\ \A i \in 1 .. Len(index[u]) :
             /\ ops[index[u][i]] # None
             /\ ops[index[u][i]].user = u
             /\ \A j \in 1 .. Len(index[u]) : index[u][i] = index[u][j] => i = j
    BY DEF ImportInv, IndexSound
  <2>. QED BY <1>4, <2>2, <2>3 DEF Grows
<1>11. TypeOK'
  BY <1>1, <1>3, <1>7, InvFacts DEF TypeOK, StoreTypeOK, Drafts, JobRecords
<1>. QED BY <1>7, <1>8, <1>9, <1>10, <1>11 DEF ImportInv

LEMMA PutNewStep ==
    ASSUME ImportInv, ServiceUnchanged, NEW c \in Calls, PutNew(c) PROVE ImportInv'
<1> DEFINE o == st[c].op
           rec == st[c].snap
           s == [st[c] EXCEPT !.step = "put_pointer"]
<1>1. /\ st[c].step = "put" /\ ops' = [ops EXCEPT ![o] = rec] /\ Set(c, s)
      /\ UNCHANGED <<idem, index>>
  BY DEF PutNew
<1>2. /\ o \in Ops /\ ops[o] = None /\ rec \in Operations /\ rec # None
      /\ LiveIfPublished(rec, capsules) /\ st[c] \in StoreCalls
  BY <1>1, CallOf DEF SoundMethod, StoreCalls
<1>3. s.step = "put_pointer" /\ s.op = o /\ s.snap = rec
  BY <1>2 DEF StoreCalls
<1>4. s \in StoreCalls
  BY <1>2 DEF StoreCalls, Steps
<1>5. \A d \in Calls \ {c} : st[d].step = "put" => st[d].op # o
  BY <1>1 DEF ImportInv
<1> HIDE DEF s
<1>6. ops'[o] = rec
  BY <1>1, <1>2, InvFacts
<1>7. SoundMethod(s, ops', capsules)
  BY <1>2, <1>3, <1>6 DEF SoundMethod, Held
<1>8. SoundCall(flow[c], st[c], ops', capsules)
  <2>1. Grows(ops, ops') /\ LiveStays(capsules, capsules)
    BY <1>1, <1>2, InvFacts DEF Grows, LiveStays
  <2>. QED BY <2>1, CallOf, CallStable
<1>9. flow[c].pc = "created" /\ "put_pointer" \in StepsAt(flow[c].pc)
  BY <1>1, CallOf, StepOrder
<1>10. SoundCall(flow[c], s, ops', capsules)
  BY <1>1, <1>3, <1>8, <1>9, CallOf, SameCall
<1>. QED BY <1>1, <1>2, <1>3, <1>4, <1>5, <1>7, <1>10, RecordStep

LEMMA WriteBackStep ==
    ASSUME ImportInv, ServiceUnchanged, NEW c \in Calls, WriteBack(c) PROVE ImportInv'
<1> DEFINE o == st[c].op
           old == st[c].snap
           change == st[c].change
           rec == Apply(old, change)
           s == [st[c] EXCEPT !.step = "ix_read", !.snap = rec, !.change = None]
<1>1. /\ st[c].step = "write" /\ ops' = [ops EXCEPT ![o] = rec] /\ Set(c, s)
      /\ UNCHANGED <<idem, index>>
  BY DEF WriteBack
<1>2. /\ o \in Ops /\ ops[o] # None /\ Held(old, o, ops, capsules)
      /\ SoundChange(change, capsules) /\ st[c] \in StoreCalls
  BY <1>1, CallOf DEF SoundMethod
<1>3. old \in Operations /\ change \in ChangeRecords
  BY <1>2 DEF StoreCalls, Held, SoundChange
<1> HIDE DEF old, change
<1>4. rec \in Operations
  BY <1>3 DEF Apply, Operations, ChangeRecords
<1>5. /\ rec.user = old.user /\ rec.key = old.key
      /\ rec.status = IF change.status = None THEN old.status ELSE change.status
      /\ rec.capsule = IF change.capsule = None THEN old.capsule ELSE change.capsule
  BY <1>3 DEF Apply, Operations, ChangeRecords
<1> HIDE DEF rec
<1>6. LiveIfPublished(rec, capsules)
  <2>1. CASE change.status = None
    BY <1>2, <1>5, <2>1 DEF SoundChange, Held, LiveIfPublished
  <2>2. CASE change.status # None
    BY <1>2, <1>5, <2>2 DEF SoundChange, LiveIfPublished
  <2>. QED BY <2>1, <2>2
<1>7. rec.user = ops[o].user /\ rec.key = ops[o].key
  BY <1>2, <1>5 DEF Held
<1>8. s.step = "ix_read" /\ s.op = o /\ s.snap = rec
  BY <1>2 DEF StoreCalls
<1>9. s \in StoreCalls
  BY <1>2, <1>4 DEF StoreCalls, Steps
<1>10. \A d \in Calls \ {c} : st[d].step = "put" => st[d].op # o
  BY <1>2, InvFacts DEF SoundMethod
<1> HIDE DEF s
<1>11. ops'[o] = rec /\ rec # None
  BY <1>1, <1>2, <1>4, InvFacts, Distinguished
<1>12. SoundMethod(s, ops', capsules)
  BY <1>2, <1>6, <1>8, <1>11 DEF SoundMethod, Held
<1>13. SoundCall(flow[c], st[c], ops', capsules)
  <2>1. Grows(ops, ops') /\ LiveStays(capsules, capsules)
    BY <1>1, <1>7, <1>11, InvFacts DEF Grows, LiveStays
  <2>. QED BY <2>1, CallOf, CallStable
<1>14. "ix_read" \in StepsAt(flow[c].pc) /\ flow[c].pc # "created"
  BY <1>1, CallOf, StepOrder DEF WriteSteps, StepsAt
<1>15. SoundCall(flow[c], s, ops', capsules)
  BY <1>1, <1>8, <1>13, <1>14, CallOf, SameCall
<1>. QED BY <1>1, <1>2, <1>4, <1>6, <1>7, <1>8, <1>9, <1>10, <1>12, <1>15, RecordStep

(* Pointers and indexes: what other calls hold does not depend on them. *)
LEMMA PointerOrIndexStep ==
    ASSUME ImportInv, ServiceUnchanged, UNCHANGED ops, NEW c \in Calls,
           NEW s \in StoreCalls, Set(c, s), s.step # "put",
           idem' \in [Users -> [Keys -> Ops \cup {None}]],
           index' \in [Users -> Seq(Ops)],
           PointersSound', IndexSound',
           SoundMethod(s, ops, capsules), SoundCall(flow[c], s, ops, capsules)
    PROVE  ImportInv'
<1>1. /\ flow' = [flow EXCEPT ![c] = flow[c]] /\ capsules' = capsules /\ jobs' = jobs
      /\ ops' = ops /\ st' = [st EXCEPT ![c] = s]
  BY InvFacts DEF ServiceUnchanged, Set
<1>2. Grows(ops, ops') /\ LiveStays(capsules, capsules')
  BY <1>1 DEF Grows, LiveStays
<1>3. \A d \in Calls \ {c} : st[d].step = "put" => ops'[st[d].op] = None
  BY <1>1, InvFacts DEF SoundMethod
<1>4. SoundMethod(s, ops', capsules') /\ SoundCall(flow[c], s, ops', capsules')
  BY <1>1
<1>5. /\ flow' \in [Calls -> Flows] /\ st' \in [Calls -> StoreCalls]
      /\ \A d, e \in Calls :
           st'[d].step = "put" /\ st'[e].step = "put" /\ st'[d].op = st'[e].op => d = e
      /\ \A d \in Calls : /\ SoundMethod(st'[d], ops', capsules')
                          /\ SoundCall(flow'[d], st'[d], ops', capsules')
  BY <1>1, <1>2, <1>3, <1>4, InvFacts, CallsKept
<1>6. \A p \in Ops : ops'[p] # None => LiveIfPublished(ops'[p], capsules')
  BY <1>1 DEF ImportInv
<1>7. TypeOK'
  BY <1>1, <1>5, InvFacts DEF TypeOK, StoreTypeOK, Drafts, JobRecords
<1>. QED BY <1>5, <1>6, <1>7 DEF ImportInv

LEMMA PutPointerStep ==
    ASSUME ImportInv, ServiceUnchanged, NEW c \in Calls, PutPointer(c) PROVE ImportInv'
<1> DEFINE o == st[c].op
           u == st[c].snap.user
           k == st[c].snap.key
           s == [st[c] EXCEPT !.step = "ix_read"]
<1>1. /\ st[c].step = "put_pointer" /\ idem' = [idem EXCEPT ![u][k] = o] /\ Set(c, s)
      /\ UNCHANGED <<ops, index>>
  BY DEF PutPointer
<1>2. /\ st[c] \in StoreCalls /\ Held(st[c].snap, o, ops, capsules)
  BY <1>1, CallOf DEF SoundMethod
<1>3. o \in Ops /\ u \in Users /\ k \in Keys /\ ops[o] # None /\ ops[o].user = u /\ ops[o].key = k
  BY <1>2 DEF Held, StoreCalls, Operations
<1>4. s.step = "ix_read" /\ s.op = o /\ s.snap = st[c].snap
  BY <1>2 DEF StoreCalls
<1>5. s \in StoreCalls
  BY <1>2 DEF StoreCalls, Steps
<1> HIDE DEF s
<1>6. SoundMethod(s, ops, capsules)
  BY <1>2, <1>4 DEF SoundMethod
<1>7. flow[c].pc = "created" /\ "ix_read" \in StepsAt(flow[c].pc)
  BY <1>1, CallOf, StepOrder
<1>8. SoundCall(flow[c], s, ops, capsules)
  BY <1>1, <1>4, <1>7, CallOf, SameCall
<1> HIDE DEF o, u, k
<1>9. idem' \in [Users -> [Keys -> Ops \cup {None}]] /\ index' \in [Users -> Seq(Ops)]
  BY <1>1, <1>3, InvFacts
<1>10. IndexSound'
  BY <1>1 DEF ImportInv, IndexSound
<1>11. PointersSound'
  <2> SUFFICES ASSUME NEW v \in Users, NEW l \in Keys, idem'[v][l] # None
               PROVE  /\ ops[idem'[v][l]] # None
                      /\ ops[idem'[v][l]].user = v /\ ops[idem'[v][l]].key = l
    BY <1>1 DEF PointersSound
  <2>1. CASE v = u /\ l = k
    BY <1>1, <1>3, <2>1, InvFacts
  <2>2. CASE ~(v = u /\ l = k)
    <3>1. idem'[v][l] = idem[v][l]
      BY <1>1, <1>3, <2>2, InvFacts
    <3>. QED BY <3>1 DEF ImportInv, PointersSound
  <2>. QED BY <2>1, <2>2
<1>12. UNCHANGED ops /\ s.step # "put" /\ Set(c, s)
  BY <1>1, <1>4
<1>. QED BY <1>5, <1>6, <1>8, <1>9, <1>10, <1>11, <1>12, PointerOrIndexStep

LEMMA WriteIndexStep ==
    ASSUME ImportInv, ServiceUnchanged, NEW c \in Calls, WriteIndex(c) PROVE ImportInv'
<1> DEFINE o == st[c].op
           u == st[c].snap.user
           ids == st[c].seen
           new == Touch(ids, o)
           s == Returned(o, st[c].snap)
<1>1. /\ st[c].step = "ix_write" /\ index' = [index EXCEPT ![u] = new] /\ Set(c, s)
      /\ UNCHANGED <<ops, idem>>
  BY DEF WriteIndex
<1>2. /\ st[c] \in StoreCalls /\ Held(st[c].snap, o, ops, capsules) /\ SoundList(ids, u, ops)
  BY <1>1, CallOf DEF SoundMethod
<1>3. /\ o \in Ops /\ st[c].snap \in Operations /\ u \in Users /\ ids \in Seq(Ops)
      /\ ops[o] # None /\ ops[o].user = u
  BY <1>2 DEF Held, StoreCalls, Operations
<1>4. s.step = "ok" /\ s.op = o /\ s.snap = st[c].snap
  BY DEF Returned, Quiet
<1>5. s \in StoreCalls
  BY <1>3, MethodTypes
<1> HIDE DEF s
<1>6. SoundMethod(s, ops, capsules)
  BY <1>2, <1>4 DEF SoundMethod
<1>7. "ok" \in StepsAt(flow[c].pc) /\ s.snap # None
  BY <1>1, <1>2, <1>4, CallOf, StepOrder DEF Held
<1>8. SoundCall(flow[c], s, ops, capsules)
  BY <1>1, <1>4, <1>7, CallOf, SameCall
<1> HIDE DEF o, u, ids
<1>9. Distinct(ids)
  BY <1>2 DEF SoundList, Distinct
<1>10. /\ new \in Seq(Ops) /\ Len(new) \in 1 .. MaxIndex /\ Distinct(new)
       /\ \A i \in 1 .. Len(new) : new[i] = o \/ \E j \in 1 .. Len(ids) : new[i] = ids[j]
  BY <1>3, <1>9, TouchFacts
<1> HIDE DEF new
<1>11. idem' \in [Users -> [Keys -> Ops \cup {None}]] /\ index' \in [Users -> Seq(Ops)]
  BY <1>1, <1>3, <1>10, InvFacts
<1>12. PointersSound'
  BY <1>1 DEF ImportInv, PointersSound
<1>13. IndexSound'
  <2> SUFFICES ASSUME NEW v \in Users
               PROVE  /\ Len(index'[v]) <= MaxIndex
                      /\ \A i \in 1 .. Len(index'[v]) :
                           /\ ops[index'[v][i]] # None
                           /\ ops[index'[v][i]].user = v
                           /\ \A j \in 1 .. Len(index'[v]) :
                                index'[v][i] = index'[v][j] => i = j
    BY <1>1 DEF IndexSound
  <2>1. CASE v = u
    <3>1. index'[v] = new
      BY <1>1, <1>3, <2>1, InvFacts
    <3>2. Len(new) <= MaxIndex
      BY <1>10, StoreAssumption
    <3>3. \A i \in 1 .. Len(new) : ops[new[i]] # None /\ ops[new[i]].user = u
      BY <1>2, <1>3, <1>10 DEF SoundList
    <3>. QED BY <1>10, <2>1, <3>1, <3>2, <3>3 DEF Distinct
  <2>2. CASE v # u
    <3>1. index'[v] = index[v]
      BY <1>1, <1>3, <2>2, InvFacts
    <3>. QED BY <3>1 DEF ImportInv, IndexSound
  <2>. QED BY <2>1, <2>2
<1>14. UNCHANGED ops /\ s.step # "put" /\ Set(c, s)
  BY <1>1, <1>4
<1>. QED BY <1>5, <1>6, <1>8, <1>11, <1>12, <1>13, <1>14, PointerOrIndexStep

LEMMA StoreInvStep ==
    ASSUME ImportInv, ServiceUnchanged, NEW c \in Calls, StoreStep(c) PROVE ImportInv'
BY LookupPointerStep, FetchStep, FetchListStep, PutNewStep, PutPointerStep,
   ReadForUpdateStep, WriteBackStep, ReadIndexStep, WriteIndexStep, KvRejectsStep
   DEF StoreStep

-----------------------------------------------------------------------------
(* The initial states and the steps together *)

LEMMA ImportInitInv == ASSUME Init PROVE ImportInv
<1>1. ops \in Seeds /\ WellFormed(ops)
  BY ImportAssumption DEF Init
<1>2. /\ ops \in [Ops -> Operations \cup {None}]
      /\ \A o \in Ops : ops[o] # None => ops[o].status # "published"
  BY <1>1 DEF WellFormed
<1>3. PICK ids \in [Users -> UNION {[1 .. n -> Ops] : n \in 0 .. MaxIndex}] :
        (\A u \in Users : IndexOf(u, ids[u])) /\ index = ids
  BY DEF Init
<1>4. ASSUME NEW u \in Users
      PROVE  /\ index[u] \in Seq(Ops) /\ Len(index[u]) <= MaxIndex
             /\ IndexOf(u, index[u])
  <2>1. PICK n \in 0 .. MaxIndex : index[u] \in [1 .. n -> Ops]
    BY <1>3
  <2>2. n \in Nat /\ n <= MaxIndex
    BY StoreAssumption
  <2>3. index[u] \in Seq(Ops)
    BY <2>1, <2>2, SeqDef
  <2>4. Len(index[u]) = n
    BY <2>1, <2>2, <2>3
  <2>. QED BY <1>3, <2>2, <2>3, <2>4
<1>5. index \in [Users -> Seq(Ops)]
  BY <1>3, <1>4
<1>6. IndexSound
  <2> SUFFICES ASSUME NEW u \in Users
               PROVE  /\ Len(index[u]) <= MaxIndex
                      /\ \A i \in 1 .. Len(index[u]) :
                           /\ ops[index[u][i]] # None
                           /\ ops[index[u][i]].user = u
                           /\ \A j \in 1 .. Len(index[u]) : index[u][i] = index[u][j] => i = j
    BY DEF IndexSound
  <2>. QED BY <1>4 DEF IndexOf, OpsOf
<1>7. idem \in [Users -> [Keys -> Ops \cup {None}]]
  BY DEF Init
<1>8. PointersSound
  <2> SUFFICES ASSUME NEW u \in Users, NEW k \in Keys, idem[u][k] # None
               PROVE  /\ ops[idem[u][k]] # None
                      /\ ops[idem[u][k]].user = u /\ ops[idem[u][k]].key = k
    BY DEF PointersSound
  <2> DEFINE mine == {o \in OpsOf(u) : ops[o].key = k}
  <2>1. IF mine = {} THEN idem[u][k] = None ELSE idem[u][k] \in mine
    BY DEF Init
  <2>2. idem[u][k] \in mine
    BY <2>1
  <2>. QED BY <2>2 DEF OpsOf
<1>9. /\ \A c \in Calls : st[c] = Quiet /\ flow[c] = Dormant
      /\ st = [c \in Calls |-> Quiet] /\ flow = [c \in Calls |-> Dormant]
  BY DEF Init
<1>10. Dormant \in Flows
  BY DormantType
<1>11. capsules \in [Capsules -> {"unborn", "draft", "live"}]
  BY DEF Init
<1>12. jobs \in [Jobs -> JobRecords]
  BY DEF Init, JobRecords
<1>13. TypeOK
  BY <1>2, <1>5, <1>7, <1>9, <1>10, <1>11, <1>12, QuietType DEF TypeOK, StoreTypeOK, JobRecords
<1>14. SoundMethod(Quiet, ops, capsules) /\ Quiet.step # "put"
  BY DEF SoundMethod, Quiet
<1>15. SoundCall(Dormant, Quiet, ops, capsules)
  <2>1. Dormant.pc = "idle" /\ Dormant.phase # "compile" /\ Dormant.views = NoViews
    BY Distinguished DEF Dormant
  <2>2. Quiet.step \in StepsAt("idle")
    BY DEF Quiet, StepsAt, CheckPcs
  <2>. QED BY <2>1, <2>2, FreshCall
<1>16. \A o \in Ops : ops[o] # None => LiveIfPublished(ops[o], capsules)
  BY <1>2 DEF LiveIfPublished
<1>. QED BY <1>6, <1>8, <1>9, <1>13, <1>14, <1>15, <1>16 DEF ImportInv

LEMMA ImportNextInv == ASSUME ImportInv, [Next]_vars PROVE ImportInv'
<1>1. CASE UNCHANGED vars
  <2>1. UNCHANGED <<ops, idem, index, st, flow, capsules, jobs>>
    BY <1>1 DEF vars
  <2>2. TypeOK' /\ PointersSound' /\ IndexSound'
    BY <2>1 DEF ImportInv, TypeOK, StoreTypeOK, PointersSound, IndexSound
  <2>. QED BY <2>1, <2>2 DEF ImportInv
<1>2. ASSUME NEW c \in Calls, Arrive(c) PROVE ImportInv'
  BY <1>2, SubmitPackageStep, SubmitByIdStep, SubmitListStep DEF Arrive
<1>3. ASSUME NEW c \in Calls, Step(c) PROVE ImportInv'
  <2>1. CASE StoreStep(c) /\ UNCHANGED <<flow, capsules, jobs>>
    BY <2>1, StoreInvStep DEF ServiceUnchanged
  <2>2. CASE \/ Lookup(c) \/ Prepare(c) \/ CreateEmptyCapsule(c) \/ FilesUploaded(c)
             \/ ImportArchive(c) \/ IngestFails(c) \/ Reread(c) \/ NotFound(c)
    BY <2>2, LookupStep, PrepareStep, CreateEmptyCapsuleStep, FilesUploadedStep,
       ImportArchiveStep, IngestFailsStep, RereadStep, NotFoundStep
  <2>3. CASE \/ CompileDraft(c) \/ StartPublish(c) \/ UpstreamPublishes(c)
             \/ PublishFails(c) \/ PolishLaunch(c) \/ CancelImport(c)
    BY <2>3, CompileDraftStep, StartPublishStep, UpstreamPublishesStep, PublishFailsStep,
       PolishLaunchStep, CancelImportStep
  <2>4. CASE \/ Refresh(c) \/ SnapshotList(c) \/ SweepNext(c) \/ PollJob(c)
             \/ Refreshed(c) \/ End(c) \/ Reject(c)
    BY <2>4, RefreshStep, SnapshotListStep, SweepNextStep, PollJobStep, RefreshedStep,
       EndStep, RejectStep
  <2>. QED BY <1>3, <2>1, <2>2, <2>3, <2>4 DEF Step
<1>4. ASSUME NEW c \in Calls, Evict(c) PROVE ImportInv'
  BY <1>4, EvictStep
<1>5. ASSUME NEW j \in Jobs, JobProgress(j) PROVE ImportInv'
  BY <1>5, JobProgressStep
<1>. QED BY <1>1, <1>2, <1>3, <1>4, <1>5 DEF Next

(* Only a store step writes a record: a new one, or a call's own back. *)
LEMMA RecordChange ==
    ASSUME ImportInv, [Next]_vars, NEW o \in Ops, ops[o] # None, ops'[o] # ops[o]
    PROVE  \E c \in Calls :
             /\ flow[c].op = o /\ flow[c].user = ops[o].user /\ st[c].step = "write"
             /\ ops'[o].user = ops[o].user /\ ops'[o].key = ops[o].key
             /\ ops'[o] # None
<1>1. PICK c \in Calls : PutNew(c) \/ WriteBack(c)
  <2>1. ops' # ops
    OBVIOUS
  <2>2. ~(UNCHANGED vars)
    BY <2>1 DEF vars
  <2>3. ASSUME NEW c \in Calls, Arrive(c) \/ Evict(c) PROVE FALSE
    BY <2>1, <2>3 DEF Arrive, SubmitPackage, SubmitById, SubmitList, Evict
  <2>4. ASSUME NEW j \in Jobs, JobProgress(j) PROVE FALSE
    BY <2>1, <2>4 DEF JobProgress
  <2>5. ASSUME NEW c \in Calls, Step(c), ~StoreStep(c) PROVE FALSE
    BY <2>1, <2>5 DEF Step, Lookup, Prepare, CreateEmptyCapsule, FilesUploaded,
       ImportArchive, IngestFails, Reread, NotFound, CompileDraft, StartPublish,
       UpstreamPublishes, PublishFails, PolishLaunch, CancelImport, Refresh, SnapshotList,
       SweepNext, PollJob, Refreshed, End, Reject
  <2>6. PICK c \in Calls : StoreStep(c)
    BY <2>2, <2>3, <2>4, <2>5 DEF Next
  <2>. QED BY <2>1, <2>6 DEF StoreStep, LookupPointer, Fetch, FetchList, PutPointer,
              ReadForUpdate, ReadIndex, WriteIndex, KvRejects
<1>2. CASE PutNew(c)
  <2>1. st[c].op \in Ops /\ ops[st[c].op] = None /\ ops' = [ops EXCEPT ![st[c].op] = st[c].snap]
    BY <1>2, CallOf DEF PutNew, SoundMethod
  <2>2. ops'[o] = ops[o]
    BY <2>1, InvFacts
  <2>. QED BY <2>2
<1>3. CASE WriteBack(c)
  <2> DEFINE old == st[c].snap
             change == st[c].change
             rec == Apply(old, change)
  <2>1. st[c].step = "write" /\ ops' = [ops EXCEPT ![st[c].op] = rec]
    BY <1>3 DEF WriteBack
  <2>2. /\ Held(old, st[c].op, ops, capsules) /\ SoundChange(change, capsules)
        /\ st[c] \in StoreCalls
    BY <2>1, CallOf DEF SoundMethod
  <2>3. old \in Operations /\ change \in ChangeRecords
    BY <2>2 DEF StoreCalls, Held, SoundChange
  <2>4. flow[c].pc \in OwnPcs
    BY <2>1, CallOf DEF StepsAt, OwnPcs, CheckPcs
  <2>5. st[c].op = flow[c].op /\ OwnsIt(c)
    BY <2>1, <2>4, CallOf, OwnAnswer DEF SoundCall
  <2> HIDE DEF old, change
  <2>6. rec.user = old.user /\ rec.key = old.key /\ rec \in Operations
    BY <2>3 DEF Apply, Operations, ChangeRecords
  <2> HIDE DEF rec
  <2>7. st[c].op = o /\ ops'[o] = rec
    BY <2>1, InvFacts
  <2>. QED BY <2>1, <2>2, <2>5, <2>6, <2>7, Distinguished DEF OwnsIt, Held
<1>. QED BY <1>1, <1>2, <1>3

-----------------------------------------------------------------------------
(* One call at a time: the steps of the service *)

Others(c) == Calls \ {c}

(* f takes over from flow[c] what the operations count on. *)
GoesOn(c, f) ==
    \/ f.out \in {"threw", "evicted"}
    \/ /\ flow[c].pc \in BusyPcs =>
            \/ f.pc \in BusyPcs /\ f.op = flow[c].op
            \/ ops[flow[c].op].status \in Settled
       /\ flow[c].pc = "created" => st[c].step = "ok"

LEMMA SerialFacts ==
    ASSUME SerialInv, NEW c \in Calls, Active(flow[c])
    PROVE  /\ flow[c].out = "none"
           /\ \A d \in Others(c) : ~Active(flow[d])
           /\ CurrentCopies(st[c], ops, index) /\ CurrentViews(flow[c], ops)
           /\ FreePointer(flow[c], st[c], idem) /\ FittingChange(flow[c], st[c], ops)
BY DEF SerialInv, SerialCall, Others, Active

LEMMA ServiceStep ==
    ASSUME ImportInv, SerialInv, StoreUnchanged, NEW c \in Calls, NEW f, NEW s,
           flow' = [flow EXCEPT ![c] = f], st' = [st EXCEPT ![c] = s],
           \A d \in Others(c) : ~Active(flow[d]),
           flow[c].out = "none", f.pc = "done" \/ f.out = "none",
           Active(f) => SerialCall(f, s, ops, idem, index),
           GoesOn(c, f)
    PROVE  SerialInv'
<1>1. ops' = ops /\ idem' = idem /\ index' = index
  BY DEF StoreUnchanged
<1>2. /\ flow'[c] = f /\ st'[c] = s
      /\ \A d \in Others(c) : flow'[d] = flow[d] /\ st'[d] = st[d]
  BY InvFacts DEF Others
<1>3. \A d \in Calls : d = c \/ d \in Others(c)
  BY DEF Others
<1>4. \A d, e \in Calls : Active(flow'[d]) /\ Active(flow'[e]) => d = e
  BY <1>2, <1>3
<1>5. ASSUME NEW d \in Calls
      PROVE  /\ flow'[d].pc = "done" \/ flow'[d].out = "none"
             /\ Active(flow'[d]) => SerialCall(flow'[d], st'[d], ops', idem', index')
  <2>1. CASE d = c
    BY <1>1, <1>2, <2>1
  <2>2. CASE d \in Others(c)
    BY <1>2, <2>2 DEF SerialInv
  <2>. QED BY <1>3, <2>1, <2>2
<1>6. FailureExplained'
  BY <1>1 DEF SerialInv, FailureExplained
<1>7. ASSUME Undisturbed', NEW o \in Ops, ops[o] # None
      PROVE  LookedAfter(o)'
  <2>1. f.out \notin {"threw", "evicted"}
    BY <1>2, <1>7 DEF Undisturbed
  <2>2. Undisturbed
    BY <1>2, <1>3, <1>7 DEF Undisturbed
  <2>3. LookedAfter(o)
    BY <1>7, <2>2 DEF SerialInv
  <2>4. \/ ops[o].status \in Settled
        \/ \E d \in Calls : flow'[d].pc \in BusyPcs /\ flow'[d].op = o
    <3>1. CASE ops[o].status \in Settled
      BY <3>1
    <3>2. ASSUME NEW d \in Calls, flow[d].pc \in BusyPcs, flow[d].op = o
          PROVE  \/ ops[o].status \in Settled
                 \/ \E e \in Calls : flow'[e].pc \in BusyPcs /\ flow'[e].op = o
      BY <1>2, <1>3, <2>1, <3>2 DEF GoesOn
    <3>. QED BY <2>3, <3>1, <3>2 DEF LookedAfter
  <2>5. \A d \in Calls : Creating(d, o) /\ st[d].step # "ok" =>
          Creating(d, o)' /\ st'[d] = st[d]
    BY <1>2, <1>3, <2>1 DEF GoesOn, Creating
  <2>6. \/ idem[ops[o].user][ops[o].key] = o
        \/ /\ idem[ops[o].user][ops[o].key] = None
           /\ \E d \in Calls : Creating(d, o)' /\ st'[d].step \in {"put_pointer", "threw"}
    BY <2>3, <2>5 DEF LookedAfter
  <2>7. \/ Len(index[ops[o].user]) = MaxIndex
        \/ \E i \in 1 .. Len(index[ops[o].user]) : index[ops[o].user][i] = o
        \/ \E d \in Calls : /\ Creating(d, o)'
                            /\ st'[d].step \in {"put_pointer", "ix_read", "ix_write", "threw"}
    BY <2>3, <2>5 DEF LookedAfter
  <2>. QED BY <1>1, <2>4, <2>6, <2>7 DEF LookedAfter
<1>. QED BY <1>1, <1>4, <1>5, <1>6, <1>7 DEF SerialInv

LEMMA ViewsKept ==
    ASSUME NEW recs, NEW g, NEW f, CurrentViews(g, recs),
           f.views = g.views, f.kind = g.kind,
           f.pc \in OwnPcs => \/ f.op = g.op /\ g.pc \in OwnPcs
                              \/ g.kind # "list",
           f.kind = "list" => f.pc \in ListPcs, f.pc # "listed"
    PROVE  CurrentViews(f, recs)
<1>1. ASSUME NEW o \in Ops, f.views[o] # None
      PROVE  recs[o] = f.views[o] /\ Pollable(f.views[o]) /\ (f.pc \in OwnPcs => o # f.op)
  BY <1>1 DEF CurrentViews, NoViews
<1>. QED BY <1>1 DEF CurrentViews

(* The ways in which a call goes on *)

LEMMA SerialFinish ==
    ASSUME ImportInv, SerialInv, StoreUnchanged, NEW c \in Calls, Active(flow[c]),
           NEW out, Finish(c, out),
           \/ out \in {"threw", "evicted"}
           \/ st[c].step = "ok" /\ flow[c].pc \notin BusyPcs \ {"end"}
    PROVE  SerialInv'
<1> DEFINE f == [Dormant EXCEPT !.pc = "done", !.out = out]
<1>1. flow' = [flow EXCEPT ![c] = f] /\ st' = [st EXCEPT ![c] = Quiet]
  BY DEF Finish, Set
<1>2. f.pc = "done" /\ f.out = out
  BY DEF Dormant
<1>3. flow[c].out = "none" /\ \A d \in Others(c) : ~Active(flow[d])
  BY SerialFacts
<1>4. st[c].step = "ok" /\ flow[c].pc = "end" => ops[flow[c].op].status \in Settled
  BY SerialFacts DEF FittingChange, Outcome, Pending
<1> HIDE DEF f
<1>5. GoesOn(c, f)
  BY <1>2, <1>4 DEF GoesOn, BusyPcs
<1>6. ~Active(f)
  BY <1>2 DEF Active
<1>. QED BY <1>1, <1>2, <1>3, <1>5, <1>6, ServiceStep

(* A change that fits at pc, for the operation of call c as it is. *)
FittingWrite(c, pc, change) ==
    /\ change.status \in {"failed", "compile_failed"} => "failure" \in ops[flow[c].op].diags
    /\ Requested(flow[c]) \/ ops[flow[c].op].status \notin Terminal
    /\ pc \in OpenPcs => /\ change.status \notin Terminal
                         /\ ops[flow[c].op].status \notin Terminal
    /\ pc \in BusyPcs \/ change.status \in Settled \cup {None}
    /\ pc \in FailurePcs => "failure" \in change.diags
    /\ pc \in {"waiting", "end"} => change.status \in Settled
    /\ pc \in RequestPcs => Requested(flow[c])

(* From flow[c].pc the call may go on to pc. *)
MayTurn(c, pc) ==
    /\ flow[c].kind = "list" => pc \in ListPcs
    /\ flow[c].pc \in OwnPcs \/ flow[c].kind # "list"
    /\ flow[c].pc \in BusyPcs => pc \in BusyPcs
    /\ flow[c].pc = "created" => st[c].step = "ok"

LEMMA ApplyFacts ==
    ASSUME NEW rec \in Operations, NEW change \in ChangeRecords
    PROVE  /\ Apply(rec, change) \in Operations
           /\ Apply(rec, change).user = rec.user /\ Apply(rec, change).key = rec.key
           /\ Apply(rec, change).status =
                IF change.status = None THEN rec.status ELSE change.status
           /\ Apply(rec, change).diags = rec.diags \cup change.diags
BY DEF Apply, Operations, ChangeRecords

LEMMA SerialUpdate ==
    ASSUME ImportInv, SerialInv, StoreUnchanged, NEW c \in Calls, Active(flow[c]),
           OwnsIt(c), NEW pc \in UpdatePcs, NEW change \in ChangeRecords, NEW f,
           f.pc = pc, f.op = flow[c].op, f.kind = flow[c].kind, f.phase = flow[c].phase,
           f.views = flow[c].views, f.out = flow[c].out,
           flow' = [flow EXCEPT ![c] = f], Set(c, Update(flow[c].op, change)),
           MayTurn(c, pc), FittingWrite(c, pc, change)
    PROVE  SerialInv'
<1> DEFINE s == Update(flow[c].op, change)
<1>1. s.step = "read" /\ s.op = flow[c].op /\ s.change = change /\ s.snap = None
  BY DEF Update, Quiet
<1>2. st' = [st EXCEPT ![c] = s]
  BY DEF Set
<1> HIDE DEF s
<1>3. /\ pc \notin {"idle", "done", "listed", "lookup", "poll"} /\ pc \in OwnPcs
  BY DEF UpdatePcs, OwnPcs
<1>4. flow[c].out = "none" /\ \A d \in Others(c) : ~Active(flow[d])
  BY SerialFacts
<1>5. CurrentCopies(s, ops, index)
  BY <1>1 DEF CurrentCopies
<1>6. CurrentViews(f, ops)
  BY <1>3, SerialFacts, ViewsKept DEF MayTurn
<1>7. FreePointer(f, s, idem)
  BY <1>1, <1>3 DEF FreePointer
<1>8. FittingChange(f, s, ops)
  <2>1. Requested(f) = Requested(flow[c])
    BY DEF Requested
  <2>2. ops[f.op] \in Operations
    BY InvFacts DEF OwnsIt
  <2>3. /\ Outcome(f, s, ops).status =
             IF change.status = None THEN ops[f.op].status ELSE change.status
        /\ Outcome(f, s, ops).diags = ops[f.op].diags \cup change.diags
    BY <1>1, <2>2, ApplyFacts DEF Outcome, Pending
  <2>4. change.status \in Settled => change.status # None
    BY Distinguished DEF Settled, Terminal, Statuses
  <2>. QED BY <1>1, <1>3, <2>1, <2>3, <2>4 DEF FittingChange, FittingWrite, Pending
<1>9. SerialCall(f, s, ops, idem, index)
  BY <1>5, <1>6, <1>7, <1>8 DEF SerialCall
<1>10. GoesOn(c, f)
  BY DEF GoesOn, MayTurn
<1>. QED BY <1>2, <1>4, <1>9, <1>10, ServiceStep

LEMMA SerialWrite ==
    ASSUME ImportInv, SerialInv, StoreUnchanged, NEW c \in Calls, Active(flow[c]),
           OwnsIt(c), NEW pc \in UpdatePcs, NEW change \in ChangeRecords,
           Write(c, pc, change), MayTurn(c, pc), FittingWrite(c, pc, change)
    PROVE  SerialInv'
<1> DEFINE f == [flow[c] EXCEPT !.pc = pc]
<1>1. flow[c] \in Flows
  BY InvFacts
<1>2. /\ f.pc = pc /\ f.op = flow[c].op /\ f.kind = flow[c].kind /\ f.phase = flow[c].phase
      /\ f.views = flow[c].views /\ f.out = flow[c].out
  BY <1>1 DEF Flows
<1>3. flow' = [flow EXCEPT ![c] = f] /\ Set(c, Update(flow[c].op, change))
  BY DEF Write, Then
<1> HIDE DEF f
<1>. QED BY <1>2, <1>3, SerialUpdate

(* The call reads operation o and goes on at f.pc. *)
LEMMA SerialRead ==
    ASSUME ImportInv, SerialInv, StoreUnchanged, NEW c \in Calls, NEW o, NEW f,
           \A d \in Others(c) : ~Active(flow[d]), flow[c].out = "none", f.out = "none",
           flow' = [flow EXCEPT ![c] = f], Set(c, GetById(o)),
           f.pc \in CheckPcs \cup {"reread", "refreshed"},
           CurrentViews(f, ops), GoesOn(c, f),
           f.pc \in RequestPcs => Requested(f),
           f.pc = "reread" => ops[f.op].status \notin Terminal
    PROVE  SerialInv'
<1> DEFINE s == GetById(o)
<1>1. s.step = "get" /\ s.op = o /\ s.snap = None
  BY DEF GetById, Quiet
<1>2. st' = [st EXCEPT ![c] = s]
  BY DEF Set
<1> HIDE DEF s
<1>3. CurrentCopies(s, ops, index)
  BY <1>1 DEF CurrentCopies
<1>4. /\ f.pc \notin FailurePcs \cup {"waiting", "end", "lookup", "poll"}
      /\ f.pc \in OpenPcs => f.pc = "reread"
  BY DEF CheckPcs, FailurePcs, OpenPcs
<1>5. FreePointer(f, s, idem)
  BY <1>1, <1>4 DEF FreePointer
<1>6. FittingChange(f, s, ops)
  BY <1>1, <1>4 DEF FittingChange, Pending
<1>7. SerialCall(f, s, ops, idem, index)
  BY <1>3, <1>5, <1>6 DEF SerialCall
<1>. QED BY <1>2, <1>7, ServiceStep

LEMMA SerialEnter ==
    ASSUME ImportInv, SerialInv, StoreUnchanged, NEW c \in Calls, Active(flow[c]),
           st[c].step = "ok", flow[c].pc \notin BusyPcs \ {"end"}, flow[c].kind = "quick",
           NEW o, NEW x,
           NEW pc \in {"watch_check", "compile_check", "publish_check"},
           NEW phase \in {"watch", "compile", "publish"},
           pc = "watch_check" \/ phase \in {"compile", "publish"},
           Enter(c, phase, pc, o, x)
    PROVE  SerialInv'
<1> DEFINE f == [flow[c] EXCEPT !.phase = phase, !.pc = pc, !.op = o,
                                !.capsule = x, !.polls = 0]
<1>1. flow[c] \in Flows
  BY InvFacts
<1>2. /\ f.pc = pc /\ f.views = flow[c].views /\ f.phase = phase /\ f.out = flow[c].out
      /\ f.kind = flow[c].kind
  BY <1>1 DEF Flows
<1>3. flow' = [flow EXCEPT ![c] = f] /\ Set(c, GetById(o))
  BY DEF Enter
<1> HIDE DEF f
<1>4. /\ flow[c].out = "none" /\ \A d \in Others(c) : ~Active(flow[d])
      /\ CurrentViews(flow[c], ops)
  BY SerialFacts
<1>5. pc \in CheckPcs /\ pc \notin OwnPcs /\ pc \notin {"listed", "reread"}
  BY DEF CheckPcs, OwnPcs
<1>6. CurrentViews(f, ops)
  BY <1>2, <1>4, <1>5, ViewsKept
<1>7. st[c].step = "ok" /\ flow[c].pc = "end" => ops[flow[c].op].status \in Settled
  BY SerialFacts DEF FittingChange, Outcome, Pending
<1>8. GoesOn(c, f)
  BY <1>7 DEF GoesOn, BusyPcs
<1>9. f.pc \in RequestPcs => Requested(f)
  BY <1>2 DEF Requested, RequestPcs, LivePcs
<1>. QED BY <1>2, <1>3, <1>4, <1>5, <1>6, <1>8, <1>9, SerialRead

LEMMA SerialLaunch ==
    ASSUME ImportInv, SerialInv, StoreUnchanged, NEW c \in Calls, Active(flow[c]),
           st[c].step = "ok", flow[c].pc \notin BusyPcs \ {"end"}, flow[c].kind = "quick",
           NEW o, NEW rec, Launch(c, o, rec)
    PROVE  SerialInv'
BY SerialFinish, SerialEnter DEF Launch

LEMMA SerialReturn ==
    ASSUME ImportInv, SerialInv, StoreUnchanged, NEW c \in Calls, Active(flow[c]),
           st[c].step = "ok", flow[c].pc \notin BusyPcs \ {"end"},
           NEW o, NEW rec, Return(c, o, rec)
    PROVE  SerialInv'
<1>1. \/ Finish(c, "ok")
      \/ flow[c].kind = "quick" /\ Launch(c, o, rec)
      \/ flow[c].kind = "quick" /\ Enter(c, "watch", "watch_check", o, None)
      \/ flow[c].kind = "quick" /\ Enter(c, "publish", "publish_check", o, flow[c].capsule)
  BY DEF Return
<1>. QED BY <1>1, SerialFinish, SerialLaunch, SerialEnter

(* The call moves to sweep or poll and its answer stays. *)
LEMMA SerialKeep ==
    ASSUME ImportInv, SerialInv, StoreUnchanged, NEW c \in Calls, Active(flow[c]),
           st[c].step = "ok", flow[c].pc \notin BusyPcs,
           NEW pc \in {"sweep", "poll"}, Then(c, pc, st[c]),
           pc = "poll" => /\ flow[c].kind # "list" /\ Pollable(st[c].snap)
                          /\ ops[flow[c].op].status \notin Terminal
    PROVE  SerialInv'
<1> DEFINE f == [flow[c] EXCEPT !.pc = pc]
           s == st[c]
<1>1. flow[c] \in Flows
  BY InvFacts
<1>2. /\ f.pc = pc /\ f.op = flow[c].op /\ f.kind = flow[c].kind
      /\ f.views = flow[c].views /\ f.out = flow[c].out
  BY <1>1 DEF Flows
<1>3. flow' = [flow EXCEPT ![c] = f] /\ st' = [st EXCEPT ![c] = s]
  BY DEF Then, Set
<1> HIDE DEF f
<1>4. /\ flow[c].out = "none" /\ \A d \in Others(c) : ~Active(flow[d])
      /\ CurrentCopies(s, ops, index) /\ CurrentViews(flow[c], ops)
  BY SerialFacts
<1>5. /\ pc \in ListPcs /\ pc # "listed" /\ (pc \in OwnPcs => pc = "poll")
      /\ pc \notin RequestPcs \cup FailurePcs \cup {"waiting", "end", "lookup"}
      /\ pc \in OpenPcs => pc = "poll"
  BY DEF ListPcs, OwnPcs, RequestPcs, FailurePcs, OpenPcs, LivePcs
<1>6. CurrentViews(f, ops)
  BY <1>2, <1>4, <1>5, ViewsKept
<1>7. FreePointer(f, s, idem)
  BY <1>2, <1>5 DEF FreePointer
<1>8. FittingChange(f, s, ops)
  BY <1>2, <1>5 DEF FittingChange, Pending
<1>9. SerialCall(f, s, ops, idem, index)
  BY <1>4, <1>6, <1>7, <1>8 DEF SerialCall
<1>10. GoesOn(c, f)
  BY DEF GoesOn, BusyPcs
<1>. QED BY <1>2, <1>3, <1>4, <1>9, <1>10, ServiceStep

LEMMA SerialAfterRefresh ==
    ASSUME ImportInv, SerialInv, StoreUnchanged, NEW c \in Calls, Active(flow[c]),
           st[c].step = "ok", flow[c].pc \notin BusyPcs,
           NEW rec, AfterRefresh(c, rec)
    PROVE  SerialInv'
<1> DEFINE f == [flow[c] EXCEPT !.pc = "refresh_check", !.polls = flow[c].polls + 1]
<1>1. \/ Then(c, "sweep", st[c])
      \/ Finish(c, "ok") \/ Finish(c, "timed_out")
      \/ flow[c].kind = "quick" /\ Launch(c, flow[c].op, rec)
      \/ /\ flow[c].kind # "list"
         /\ flow' = [flow EXCEPT ![c] = f]
         /\ Set(c, GetById(flow[c].op))
  <2>1. CASE flow[c].kind = "list"
    BY <2>1, Zenon DEF AfterRefresh
  <2>2. CASE flow[c].kind = "get"
    BY <2>2 DEF AfterRefresh
  <2>3. CASE flow[c].kind \notin {"list", "get"} /\ rec.status \in Targets(c)
    BY <2>3 DEF AfterRefresh
  <2>4. CASE flow[c].kind \notin {"list", "get"} /\ rec.status \notin Targets(c)
    BY <2>4 DEF AfterRefresh
  <2>. QED BY <2>1, <2>2, <2>3, <2>4
<1>2. CASE /\ flow[c].kind # "list"
           /\ flow' = [flow EXCEPT ![c] = f]
           /\ Set(c, GetById(flow[c].op))
  <2>1. flow[c] \in Flows
    BY InvFacts
  <2>2. /\ f.pc = "refresh_check" /\ f.views = flow[c].views /\ f.out = flow[c].out
        /\ f.kind = flow[c].kind
    BY <2>1 DEF Flows
  <2> HIDE DEF f
  <2>3. /\ flow[c].out = "none" /\ \A d \in Others(c) : ~Active(flow[d])
        /\ CurrentViews(flow[c], ops)
    BY SerialFacts
  <2>4. /\ "refresh_check" \in CheckPcs
        /\ "refresh_check" \notin OwnPcs \cup RequestPcs \cup {"listed", "reread"}
    BY DEF CheckPcs, OwnPcs, RequestPcs, LivePcs
  <2>5. CurrentViews(f, ops)
    BY <1>2, <2>2, <2>3, <2>4, ViewsKept
  <2>6. GoesOn(c, f)
    BY DEF GoesOn, BusyPcs
  <2>. QED BY <1>2, <2>2, <2>3, <2>4, <2>5, <2>6, SerialRead
<1>. QED BY <1>1, <1>2, SerialKeep, SerialFinish, SerialLaunch DEF BusyPcs

-----------------------------------------------------------------------------
(* One call at a time: the actions *)

LEMMA SerialArrives ==
    ASSUME ImportInv, SerialInv, ~Overlapping, NEW c \in Calls, MayArrive(c)
    PROVE  /\ flow[c].out = "none" /\ flow[c].pc = "idle"
           /\ \A d \in Others(c) : ~Active(flow[d])
           /\ \A f : GoesOn(c, f)
<1>1. flow[c].pc = "idle"
  BY DEF MayArrive, Idle
<1>2. \A f : GoesOn(c, f)
  BY <1>1 DEF GoesOn, BusyPcs, LivePcs
<1>. QED BY <1>1, <1>2 DEF MayArrive, SerialInv, Others, Active

LEMMA SerialSubmitPackage ==
    ASSUME ImportInv, SerialInv, ~Overlapping, NEW c \in Calls, SubmitPackage(c)
    PROVE  SerialInv'
<1>1. PICK kind \in Kinds \cap {"start", "quick"}, u \in Users, k \in Keys :
        /\ flow' = [flow EXCEPT ![c] = [Dormant EXCEPT !.pc = "lookup", !.kind = kind,
                        !.phase = "import", !.user = u, !.key = k]]
        /\ Set(c, GetByIdempotency(u, k))
  BY DEF SubmitPackage
<1> DEFINE f == [Dormant EXCEPT !.pc = "lookup", !.kind = kind,
                        !.phase = "import", !.user = u, !.key = k]
           s == GetByIdempotency(u, k)
<1>2. /\ f.pc = "lookup" /\ f.kind # "list" /\ f.user = u /\ f.key = k
      /\ f.views = NoViews /\ f.out = "none"
  BY DEF Dormant
<1>3. s.step = "lookup" /\ s.user = u /\ s.key = k /\ s.snap = None
  BY DEF GetByIdempotency, Quiet
<1>4. flow' = [flow EXCEPT ![c] = f] /\ st' = [st EXCEPT ![c] = s]
  BY <1>1 DEF Set
<1> HIDE DEF f, s
<1>5. CurrentViews(f, ops)
  BY <1>2 DEF CurrentViews, NoViews
<1>6. CurrentCopies(s, ops, index)
  BY <1>3 DEF CurrentCopies
<1>7. FreePointer(f, s, idem)
  BY <1>2, <1>3 DEF FreePointer
<1>8. FittingChange(f, s, ops)
  BY <1>2, <1>3 DEF FittingChange, Pending, FailurePcs, OpenPcs, RequestPcs, LivePcs
<1>9. StoreUnchanged /\ MayArrive(c)
  BY DEF SubmitPackage, StoreUnchanged
<1>10. SerialCall(f, s, ops, idem, index)
  BY <1>5, <1>6, <1>7, <1>8 DEF SerialCall
<1>. QED BY <1>2, <1>4, <1>9, <1>10, SerialArrives, ServiceStep

LEMMA SerialSubmitById ==
    ASSUME ImportInv, SerialInv, ~Overlapping, NEW c \in Calls, SubmitById(c)
    PROVE  SerialInv'
<1>1. PICK kind \in Kinds \cap DOMAIN FirstStep, u \in Users, o \in Ops :
        /\ \E x \in IF kind \in {"compile", "publish"}
                     THEN {x \in Capsules : capsules[x] # "unborn"} ELSE {None} :
             flow' = [flow EXCEPT ![c] = [Dormant EXCEPT !.pc = FirstStep[kind],
                        !.kind = kind, !.user = u, !.op = o, !.capsule = x]]
        /\ Set(c, GetById(o))
  BY DEF SubmitById
<1>2. PICK x : flow' = [flow EXCEPT ![c] = [Dormant EXCEPT !.pc = FirstStep[kind],
                   !.kind = kind, !.user = u, !.op = o, !.capsule = x]]
  BY <1>1
<1>3. StoreUnchanged /\ MayArrive(c)
  BY DEF SubmitById, StoreUnchanged
<1> DEFINE pc == FirstStep[kind]
<1>4. kind \in {"compile", "publish", "cancel", "get", "watch"}
  BY DEF FirstStep
<1>5. pc \in CheckPcs /\ (pc \in RequestPcs => kind \in {"compile", "publish", "cancel"})
  BY <1>4 DEF FirstStep, CheckPcs, RequestPcs, LivePcs
<1> DEFINE f == [Dormant EXCEPT !.pc = pc, !.kind = kind, !.user = u, !.op = o, !.capsule = x]
<1>6. f.pc = pc /\ f.kind = kind /\ f.views = NoViews /\ f.out = "none"
  BY DEF Dormant
<1>7. flow' = [flow EXCEPT ![c] = f]
  BY <1>2
<1> HIDE DEF f, pc
<1>8. CurrentViews(f, ops)
  BY <1>4, <1>5, <1>6 DEF CurrentViews, NoViews, CheckPcs
<1>9. f.pc \in RequestPcs => Requested(f)
  BY <1>5, <1>6 DEF Requested
<1>10. f.pc \in CheckPcs \cup {"reread", "refreshed"} /\ f.pc # "reread"
  BY <1>5, <1>6 DEF CheckPcs
<1>. QED BY <1>1, <1>3, <1>6, <1>7, <1>8, <1>9, <1>10, SerialArrives, SerialRead

LEMMA SerialSubmitList ==
    ASSUME ImportInv, SerialInv, ~Overlapping, NEW c \in Calls, SubmitList(c)
    PROVE  SerialInv'
<1>1. PICK u \in Users :
        /\ flow' = [flow EXCEPT ![c] = [Dormant EXCEPT !.pc = "listed",
                        !.kind = "list", !.user = u]]
        /\ Set(c, ListByUser(u))
  BY DEF SubmitList
<1> DEFINE f == [Dormant EXCEPT !.pc = "listed", !.kind = "list", !.user = u]
           s == ListByUser(u)
<1>2. f.pc = "listed" /\ f.kind = "list" /\ f.views = NoViews /\ f.out = "none"
  BY DEF Dormant
<1>3. s.step = "list" /\ s.snap = None
  BY DEF ListByUser, Quiet
<1>4. flow' = [flow EXCEPT ![c] = f] /\ st' = [st EXCEPT ![c] = s]
  BY <1>1 DEF Set
<1> HIDE DEF f, s
<1>5. CurrentViews(f, ops)
  BY <1>2 DEF CurrentViews, NoViews, ListPcs
<1>6. CurrentCopies(s, ops, index)
  BY <1>3 DEF CurrentCopies
<1>7. FreePointer(f, s, idem)
  BY <1>2, <1>3 DEF FreePointer
<1>8. FittingChange(f, s, ops)
  BY <1>2, <1>3 DEF FittingChange, Pending, FailurePcs, OpenPcs, RequestPcs, LivePcs
<1>9. StoreUnchanged /\ MayArrive(c)
  BY DEF SubmitList, StoreUnchanged
<1>10. SerialCall(f, s, ops, idem, index)
  BY <1>5, <1>6, <1>7, <1>8 DEF SerialCall
<1>. QED BY <1>2, <1>4, <1>9, <1>10, SerialArrives, ServiceStep

LEMMA SerialLookup ==
    ASSUME ImportInv, SerialInv, NEW c \in Calls, Lookup(c) PROVE SerialInv'
<1>1. /\ flow[c].pc = "lookup" /\ st[c].step = "ok" /\ StoreUnchanged /\ Active(flow[c])
      /\ flow[c] \in Flows
  BY InvFacts DEF Lookup, Ready, StoreUnchanged, Active
<1>2. CASE st[c].snap # None
  <2>1. Return(c, st[c].op, st[c].snap)
    BY <1>2 DEF Lookup
  <2>. QED BY <1>1, <2>1, SerialReturn DEF BusyPcs, LivePcs
<1>3. CASE st[c].snap = None
  <2>1. PICK o \in Ops :
          /\ Fresh(o)
          /\ flow' = [flow EXCEPT ![c] = [flow[c] EXCEPT !.pc = "created", !.op = o]]
          /\ Set(c, Create(o, NewOperation(flow[c].user, flow[c].key)))
    BY <1>3 DEF Lookup
  <2> DEFINE f == [flow[c] EXCEPT !.pc = "created", !.op = o]
             rec == NewOperation(flow[c].user, flow[c].key)
             s == Create(o, rec)
  <2>2. /\ f.pc = "created" /\ f.op = o /\ f.kind = flow[c].kind
        /\ f.views = flow[c].views /\ f.out = flow[c].out
    BY <1>1 DEF Flows
  <2>3. rec.user = flow[c].user /\ rec.key = flow[c].key /\ rec.status = "received"
    BY DEF NewOperation
  <2>4. s.step = "put" /\ s.op = o /\ s.snap = rec
    BY DEF Create, Quiet
  <2> HIDE DEF rec
  <2>5. flow' = [flow EXCEPT ![c] = f] /\ st' = [st EXCEPT ![c] = s]
    BY <2>1 DEF Set, rec
  <2> HIDE DEF f, s
  <2>6. /\ flow[c].out = "none" /\ \A d \in Others(c) : ~Active(flow[d])
        /\ CurrentViews(flow[c], ops) /\ idem[flow[c].user][flow[c].key] = None
    BY <1>1, <1>3, SerialFacts DEF FreePointer
  <2>7. /\ "created" \notin OwnPcs \cup FailurePcs \cup RequestPcs
                              \cup {"waiting", "end", "poll", "lookup", "listed"}
        /\ flow[c].kind # "list"
    BY <1>1, <2>6 DEF OwnPcs, FailurePcs, RequestPcs, LivePcs, CurrentViews, ListPcs
  <2>8. CurrentCopies(s, ops, index)
    BY <2>4 DEF CurrentCopies
  <2>9. CurrentViews(f, ops)
    BY <2>2, <2>6, <2>7, ViewsKept
  <2>10. FreePointer(f, s, idem)
    BY <2>2, <2>3, <2>4, <2>6 DEF FreePointer
  <2>11. FittingChange(f, s, ops)
    BY <2>1, <2>2, <2>4, <2>7 DEF FittingChange, Pending, Fresh
  <2>12. SerialCall(f, s, ops, idem, index)
    BY <2>8, <2>9, <2>10, <2>11 DEF SerialCall
  <2>13. GoesOn(c, f)
    BY <1>1 DEF GoesOn, BusyPcs, LivePcs
  <2>. QED BY <1>1, <2>2, <2>5, <2>6, <2>12, <2>13, ServiceStep
<1>. QED BY <1>2, <1>3

(* What c knows of its operation when the store has answered it. *)
LEMMA SerialAnswer ==
    ASSUME ImportInv, SerialInv, NEW c \in Calls, NEW pc \in OwnPcs \cup {"created"},
           Ready(c, pc)
    PROVE  /\ Active(flow[c]) /\ OwnsIt(c) /\ flow[c].pc = pc /\ st[c].step = "ok"
           /\ pc \in FailurePcs => "failure" \in ops[flow[c].op].diags
           /\ pc \in OpenPcs => ops[flow[c].op].status \notin Terminal
           /\ pc \in {"waiting", "end"} => ops[flow[c].op].status \in Settled
           /\ pc \in RequestPcs => Requested(flow[c])
           /\ flow[c].kind = "list" => pc \in ListPcs
           /\ pc \in OwnPcs => ops[flow[c].op] = st[c].snap
<1>1. flow[c].pc = pc /\ st[c].step = "ok"
  BY DEF Ready
<1>2. Active(flow[c])
  BY <1>1 DEF Active, OwnPcs
<1>3. OwnsIt(c)
  BY <1>1, OwnAnswer, CreatedAnswer
<1>4. pc \in OwnPcs => st[c].op = flow[c].op /\ st[c].snap # None
  BY <1>1, OwnAnswer, Distinguished
<1>5. FittingChange(flow[c], st[c], ops) /\ CurrentViews(flow[c], ops)
      /\ CurrentCopies(st[c], ops, index)
  BY <1>2, SerialFacts
<1>6. ops[flow[c].op] # None
  BY <1>3 DEF OwnsIt
<1>. QED BY <1>1, <1>2, <1>3, <1>4, <1>5, <1>6
         DEF FittingChange, CurrentViews, CurrentCopies, Outcome, Pending

LEMMA SerialCheck ==
    ASSUME ImportInv, SerialInv, NEW c \in Calls, NEW pc \in CheckPcs, Ready(c, pc)
    PROVE  /\ Active(flow[c]) /\ flow[c].pc = pc /\ st[c].step = "ok"
           /\ pc \notin BusyPcs \cup OwnPcs \cup OpenPcs
           /\ pc \in RequestPcs => Requested(flow[c])
           /\ flow[c].kind # "list"
           /\ Owns(c, st[c].snap) => OwnsIt(c) /\ ops[flow[c].op] = st[c].snap
<1>1. flow[c].pc = pc /\ st[c].step = "ok"
  BY DEF Ready
<1>2. Active(flow[c]) /\ pc \notin BusyPcs \cup OwnPcs \cup OpenPcs \cup ListPcs
  BY <1>1 DEF Active, CheckPcs, BusyPcs, OwnPcs, OpenPcs, ListPcs, LivePcs
<1>3. FittingChange(flow[c], st[c], ops) /\ CurrentViews(flow[c], ops)
      /\ CurrentCopies(st[c], ops, index)
  BY <1>2, SerialFacts
<1>4. Owns(c, st[c].snap) => OwnsIt(c) /\ st[c].op = flow[c].op /\ st[c].snap # None
  BY <1>1, CheckAnswer DEF Owns
<1>. QED BY <1>1, <1>2, <1>3, <1>4 DEF FittingChange, CurrentViews, CurrentCopies

(* What the changes say of the status and the diagnostics. *)
LEMMA ChangeFields ==
    /\ NoChange.status = None /\ NoChange.diags = {}
    /\ \A status : Status(status).status = status /\ Status(status).diags = {}
    /\ \A status, x : StatusWith(status, x).status = status /\ StatusWith(status, x).diags = {}
    /\ \A codes : Diagnostic(codes).status = None /\ Diagnostic(codes).diags = codes
    /\ None \notin Statuses /\ Settled \subseteq Statuses
    /\ Terminal \subseteq Settled
BY Distinguished DEF NoChange, Status, StatusWith, Diagnostic, Settled, Terminal, Statuses

(* An update that only adds a diagnostic or a status that is not terminal, *)
(* on the way from one control point of an import to the next.             *)
LEMMA SerialImporting ==
    ASSUME ImportInv, SerialInv, StoreUnchanged, NEW c \in Calls,
           NEW pc \in {"created", "validating", "normalized", "ingesting", "uploading"},
           Ready(c, pc), NEW change \in ChangeRecords, NEW f,
           NEW to \in {"validating", "normalized", "ingesting", "uploading", "waiting", "end",
                       "ingest_failed"},
           f.pc = to, f.op = flow[c].op, f.kind = flow[c].kind, f.phase = flow[c].phase,
           f.views = flow[c].views, f.out = flow[c].out,
           flow' = [flow EXCEPT ![c] = f], Set(c, Update(flow[c].op, change)),
           change.status \notin {"failed", "compile_failed"},
           to \in {"waiting", "end"} => change.status \in Settled,
           to # "end" => change.status \notin Terminal,
           to = "ingest_failed" => "failure" \in change.diags
    PROVE  SerialInv'
<1>1. pc \in OwnPcs \cup {"created"} /\ pc \in OpenPcs /\ pc \in BusyPcs /\ pc \notin ListPcs
  BY PlainPcs DEF OpenPcs, BusyPcs, ListPcs, UpdatePcs
<1>2. /\ Active(flow[c]) /\ OwnsIt(c) /\ flow[c].pc = pc /\ st[c].step = "ok"
      /\ ops[flow[c].op].status \notin Terminal /\ flow[c].kind # "list"
  BY <1>1, SerialAnswer
<1>3. /\ to \in UpdatePcs /\ to \in BusyPcs /\ to \notin RequestPcs
      /\ to \in FailurePcs => to = "ingest_failed"
      /\ to \in OpenPcs => to # "end"
  BY PlainPcs DEF BusyPcs, RequestPcs, FailurePcs, OpenPcs, LivePcs
<1>4. MayTurn(c, to)
  BY <1>2, <1>3 DEF MayTurn
<1>5. FittingWrite(c, to, change)
  BY <1>2, <1>3 DEF FittingWrite
<1>. QED BY <1>2, <1>3, <1>4, <1>5, SerialUpdate

LEMMA SerialImportWrite ==
    ASSUME ImportInv, SerialInv, StoreUnchanged, NEW c \in Calls,
           NEW pc \in {"created", "validating", "normalized", "ingesting", "uploading"},
           Ready(c, pc), NEW change \in ChangeRecords,
           NEW to \in {"validating", "normalized", "ingesting", "uploading", "waiting", "end",
                       "ingest_failed"},
           Write(c, to, change),
           change.status \notin {"failed", "compile_failed"},
           to \in {"waiting", "end"} => change.status \in Settled,
           to # "end" => change.status \notin Terminal,
           to = "ingest_failed" => "failure" \in change.diags
    PROVE  SerialInv'
<1> DEFINE f == [flow[c] EXCEPT !.pc = to]
<1>1. flow[c] \in Flows
  BY InvFacts
<1>2. /\ f.pc = to /\ f.op = flow[c].op /\ f.kind = flow[c].kind /\ f.phase = flow[c].phase
      /\ f.views = flow[c].views /\ f.out = flow[c].out
  BY <1>1 DEF Flows
<1>3. flow' = [flow EXCEPT ![c] = f] /\ Set(c, Update(flow[c].op, change))
  BY DEF Write, Then
<1> HIDE DEF f
<1>. QED BY <1>2, <1>3, SerialImporting

LEMMA SerialPrepare ==
    ASSUME ImportInv, SerialInv, NEW c \in Calls, Prepare(c) PROVE SerialInv'
<1>1. StoreUnchanged
  BY DEF Prepare, StoreUnchanged
<1>2. ASSUME NEW status \in {"validating", "normalized", "ingesting"}
      PROVE  /\ Status(status) \in ChangeRecords /\ Status(status).status = status
             /\ status \notin Terminal \cup {"failed", "compile_failed"}
  BY Changes, ChangeFields DEF Statuses, Terminal
<1>3. CASE Ready(c, "created") /\ Write(c, "validating", Status("validating"))
  BY <1>1, <1>2, <1>3, SerialImportWrite
<1>4. CASE Ready(c, "validating") /\ Write(c, "normalized", Status("normalized"))
  BY <1>1, <1>2, <1>4, SerialImportWrite
<1>5. CASE Ready(c, "normalized") /\ Write(c, "ingesting", Status("ingesting"))
  BY <1>1, <1>2, <1>5, SerialImportWrite
<1>. QED BY <1>3, <1>4, <1>5 DEF Prepare

LEMMA SerialCreateEmptyCapsule ==
    ASSUME ImportInv, SerialInv, NEW c \in Calls, CreateEmptyCapsule(c) PROVE SerialInv'
<1>1. PICK x \in Capsules :
        /\ flow' = [flow EXCEPT ![c] = [flow[c] EXCEPT !.pc = "uploading", !.capsule = x]]
        /\ Set(c, Update(flow[c].op, StatusWith("ingesting", x)))
  BY DEF CreateEmptyCapsule
<1>2. StoreUnchanged /\ Ready(c, "ingesting")
  BY DEF CreateEmptyCapsule, StoreUnchanged
<1> DEFINE change == StatusWith("ingesting", x)
           f == [flow[c] EXCEPT !.pc = "uploading", !.capsule = x]
<1>3. change \in ChangeRecords /\ change.status = "ingesting"
  BY Changes, ChangeFields DEF Statuses
<1>4. flow[c] \in Flows
  BY InvFacts
<1>5. /\ f.pc = "uploading" /\ f.op = flow[c].op /\ f.kind = flow[c].kind
      /\ f.phase = flow[c].phase /\ f.views = flow[c].views /\ f.out = flow[c].out
  BY <1>4 DEF Flows
<1>6. flow' = [flow EXCEPT ![c] = f] /\ Set(c, Update(flow[c].op, change))
  BY <1>1
<1> HIDE DEF f, change
<1>7. "ingesting" \notin Terminal
  BY DEF Terminal
<1>. QED BY <1>2, <1>3, <1>5, <1>6, <1>7, SerialImporting

LEMMA SerialFilesUploaded ==
    ASSUME ImportInv, SerialInv, NEW c \in Calls, FilesUploaded(c) PROVE SerialInv'
<1> DEFINE change == StatusWith("draft_ready", flow[c].capsule)
<1>1. StoreUnchanged /\ Ready(c, "uploading") /\ Write(c, "end", change)
  BY DEF FilesUploaded, StoreUnchanged
<1>2. flow[c].capsule \in Capsules \cup {None}
  BY InvFacts DEF Flows
<1>3. change \in ChangeRecords /\ change.status = "draft_ready"
  BY <1>2, Changes, ChangeFields DEF Statuses
<1> HIDE DEF change
<1>4. "draft_ready" \in Settled
  BY DEF Settled, Terminal
<1>. QED BY <1>1, <1>3, <1>4, SerialImportWrite

LEMMA SerialImportArchive ==
    ASSUME ImportInv, SerialInv, NEW c \in Calls, ImportArchive(c) PROVE SerialInv'
<1>1. StoreUnchanged /\ Ready(c, "ingesting")
  BY DEF ImportArchive, StoreUnchanged
<1>2. PICK x \in Capsules \cup {None} :
        \/ \E j \in Jobs :
             Write(c, "waiting", [StatusWith("waiting_on_import_job", x) EXCEPT !.job = j])
        \/ Write(c, "end", StatusWith("draft_ready", x))
  BY DEF ImportArchive
<1>3. ASSUME NEW j \in Jobs,
             Write(c, "waiting", [StatusWith("waiting_on_import_job", x) EXCEPT !.job = j])
      PROVE  SerialInv'
  <2> DEFINE change == [StatusWith("waiting_on_import_job", x) EXCEPT !.job = j]
  <2>1. change \in ChangeRecords /\ change.status = "waiting_on_import_job"
    BY DEF StatusWith, NoChange, ChangeRecords, Statuses
  <2>2. Write(c, "waiting", change)
    BY <1>3
  <2> HIDE DEF change
  <2>3. "waiting_on_import_job" \in Settled \ Terminal
    BY DEF Settled, Terminal
  <2>. QED BY <1>1, <2>1, <2>2, <2>3, SerialImportWrite
<1>4. CASE Write(c, "end", StatusWith("draft_ready", x))
  <2> DEFINE change == StatusWith("draft_ready", x)
  <2>1. change \in ChangeRecords /\ change.status = "draft_ready"
    BY Changes, ChangeFields DEF Statuses
  <2>2. Write(c, "end", change)
    BY <1>4
  <2> HIDE DEF change
  <2>3. "draft_ready" \in Settled
    BY DEF Settled, Terminal
  <2>. QED BY <1>1, <2>1, <2>2, <2>3, SerialImportWrite
<1>. QED BY <1>2, <1>3, <1>4

LEMMA SerialIngestFails ==
    ASSUME ImportInv, SerialInv, NEW c \in Calls, IngestFails(c) PROVE SerialInv'
<1> DEFINE change == Diagnostic({"failure"})
<1>1. StoreUnchanged /\ Write(c, "ingest_failed", change)
  BY DEF IngestFails, StoreUnchanged
<1>2. PICK pc \in {"ingesting", "uploading"} : Ready(c, pc)
  BY DEF IngestFails
<1>3. change \in ChangeRecords /\ change.status = None /\ change.diags = {"failure"}
  BY Changes, ChangeFields DEF Statuses, Codes
<1> HIDE DEF change
<1>4. None \notin Terminal
  BY ChangeFields
<1>5. None \notin {"failed", "compile_failed"}
  BY ChangeFields DEF Statuses
<1>. QED BY <1>1, <1>2, <1>3, <1>4, <1>5, SerialImportWrite

LEMMA SerialReread ==
    ASSUME ImportInv, SerialInv, NEW c \in Calls, Reread(c) PROVE SerialInv'
<1> DEFINE f == [flow[c] EXCEPT !.pc = "reread"]
<1>1. StoreUnchanged /\ Ready(c, "waiting")
      /\ flow' = [flow EXCEPT ![c] = f] /\ Set(c, GetById(flow[c].op))
  BY DEF Reread, Then, StoreUnchanged
<1>2. flow[c] \in Flows
  BY InvFacts
<1>3. /\ f.pc = "reread" /\ f.op = flow[c].op /\ f.kind = flow[c].kind
      /\ f.views = flow[c].views /\ f.out = flow[c].out
  BY <1>2 DEF Flows
<1> HIDE DEF f
<1>4. /\ "waiting" \in OwnPcs /\ "waiting" \in OpenPcs /\ "waiting" \notin ListPcs
      /\ "reread" \notin RequestPcs /\ "waiting" # "created"
  BY PlainPcs DEF OpenPcs, ListPcs, RequestPcs, LivePcs
<1>5. /\ Active(flow[c]) /\ flow[c].pc = "waiting"
      /\ ops[flow[c].op].status \notin Terminal /\ ops[flow[c].op].status \in Settled
      /\ flow[c].kind # "list"
  BY <1>1, <1>4, SerialAnswer
<1>6. /\ flow[c].out = "none" /\ \A d \in Others(c) : ~Active(flow[d])
      /\ CurrentViews(flow[c], ops)
  BY <1>5, SerialFacts
<1>7. CurrentViews(f, ops)
  BY <1>3, <1>5, <1>6, ViewsKept
<1>8. GoesOn(c, f)
  BY <1>5 DEF GoesOn
<1>. QED BY <1>1, <1>3, <1>4, <1>5, <1>6, <1>7, <1>8, SerialRead

LEMMA SerialNotFound ==
    ASSUME ImportInv, SerialInv, NEW c \in Calls, NotFound(c) PROVE SerialInv'
<1>1. PICK pc \in CheckPcs : Ready(c, pc)
  BY DEF NotFound, CheckPcs
<1>2. StoreUnchanged /\ Finish(c, "not_found")
  BY DEF NotFound, StoreUnchanged
<1>. QED BY <1>1, <1>2, SerialCheck, SerialFinish

(* An update of a call that compiles, publishes or cancels. *)
LEMMA SerialRequestWrite ==
    ASSUME ImportInv, SerialInv, StoreUnchanged, NEW c \in Calls, Active(flow[c]),
           OwnsIt(c), Requested(flow[c]), flow[c].kind # "list", flow[c].pc # "created",
           NEW to \in {"compile_running", "compile_failed", "publish_running",
                       "publish_failed", "end"} \cup LivePcs,
           NEW change \in ChangeRecords, Write(c, to, change),
           change.status \in {"failed", "compile_failed"} =>
             "failure" \in ops[flow[c].op].diags,
           to \in FailurePcs => "failure" \in change.diags,
           to = "end" => change.status \in Settled
    PROVE  SerialInv'
<1>1. to \in UpdatePcs /\ to \in BusyPcs /\ to \notin OpenPcs /\ to # "waiting"
  BY PlainPcs DEF BusyPcs, OpenPcs, LivePcs
<1>2. MayTurn(c, to)
  BY <1>1 DEF MayTurn
<1>3. FittingWrite(c, to, change)
  BY <1>1 DEF FittingWrite
<1>. QED BY <1>1, <1>2, <1>3, SerialWrite

(* At a control point of compile, publish or cancel, with an answer. *)
LEMMA SerialRequest ==
    ASSUME ImportInv, SerialInv, NEW c \in Calls, NEW pc \in RequestPcs, Ready(c, pc),
           pc \in CheckPcs => Owns(c, st[c].snap)
    PROVE  /\ Active(flow[c]) /\ OwnsIt(c) /\ Requested(flow[c]) /\ flow[c].kind # "list"
           /\ flow[c].pc # "created" /\ flow[c].capsule \in Capsules \cup {None}
           /\ pc \in FailurePcs => "failure" \in ops[flow[c].op].diags
<1>1. /\ pc \in CheckPcs \/ pc \in OwnPcs
      /\ pc \notin ListPcs /\ pc # "created"
      /\ pc \in CheckPcs => pc \notin FailurePcs
  BY PlainPcs DEF RequestPcs, CheckPcs, ListPcs, LivePcs, FailurePcs, UpdatePcs
<1>2. flow[c].capsule \in Capsules \cup {None}
  BY InvFacts DEF Flows
<1>3. CASE pc \in CheckPcs
  BY <1>1, <1>2, <1>3, SerialCheck
<1>4. CASE pc \in OwnPcs
  BY <1>1, <1>2, <1>4, SerialAnswer
<1>. QED BY <1>1, <1>3, <1>4

LEMMA SerialCompileDraft ==
    ASSUME ImportInv, SerialInv, NEW c \in Calls, CompileDraft(c) PROVE SerialInv'
<1>1. StoreUnchanged
  BY DEF CompileDraft, StoreUnchanged
<1>2. /\ "compile_check" \in RequestPcs /\ "compile_running" \in RequestPcs
      /\ "compile_running" \notin CheckPcs \cup FailurePcs
      /\ "draft_ready" \in Settled /\ "end" \notin FailurePcs
  BY DEF RequestPcs, CheckPcs, FailurePcs, Settled, Terminal
<1>3. PICK pc \in {"compile_check", "compile_running"} :
        Ready(c, pc) /\ (pc \in CheckPcs => Owns(c, st[c].snap))
  BY <1>2 DEF CompileDraft
<1>4. \/ Write(c, "compile_running", StatusWith("compile_running", flow[c].capsule))
      \/ Write(c, "end", StatusWith("draft_ready", flow[c].capsule))
      \/ Write(c, "compile_failed", Diagnostic({"failure"}))
  BY DEF CompileDraft
<1>5. /\ Active(flow[c]) /\ OwnsIt(c) /\ Requested(flow[c]) /\ flow[c].kind # "list"
      /\ flow[c].pc # "created" /\ flow[c].capsule \in Capsules \cup {None}
  BY <1>2, <1>3, SerialRequest
<1>6. ASSUME NEW status \in {"compile_running", "draft_ready"}
      PROVE  /\ StatusWith(status, flow[c].capsule) \in ChangeRecords
             /\ StatusWith(status, flow[c].capsule).status = status
             /\ status \notin {"failed", "compile_failed"}
  BY <1>5, Changes, ChangeFields DEF Statuses
<1>7. /\ Diagnostic({"failure"}) \in ChangeRecords
      /\ Diagnostic({"failure"}).status \notin {"failed", "compile_failed"}
      /\ Diagnostic({"failure"}).diags = {"failure"}
  BY Changes, ChangeFields DEF Statuses, Codes
<1>8. CASE Write(c, "compile_running", StatusWith("compile_running", flow[c].capsule))
  BY <1>1, <1>2, <1>5, <1>6, <1>8, SerialRequestWrite
<1>9. CASE Write(c, "end", StatusWith("draft_ready", flow[c].capsule))
  BY <1>1, <1>2, <1>5, <1>6, <1>9, SerialRequestWrite
<1>10. CASE Write(c, "compile_failed", Diagnostic({"failure"}))
  BY <1>1, <1>5, <1>7, <1>10, SerialRequestWrite
<1>. QED BY <1>4, <1>8, <1>9, <1>10

LEMMA SerialStartPublish ==
    ASSUME ImportInv, SerialInv, NEW c \in Calls, StartPublish(c) PROVE SerialInv'
<1> DEFINE change == StatusWith("publish_running", flow[c].capsule)
<1>1. StoreUnchanged /\ Ready(c, "publish_check") /\ Owns(c, st[c].snap)
      /\ Write(c, "publish_running", change)
  BY DEF StartPublish, StoreUnchanged
<1>2. "publish_check" \in RequestPcs /\ "publish_running" \notin FailurePcs
  BY DEF RequestPcs, FailurePcs
<1>3. /\ Active(flow[c]) /\ OwnsIt(c) /\ Requested(flow[c]) /\ flow[c].kind # "list"
      /\ flow[c].pc # "created" /\ flow[c].capsule \in Capsules \cup {None}
  BY <1>1, <1>2, SerialRequest
<1>4. change \in ChangeRecords /\ change.status = "publish_running"
  BY <1>3, Changes, ChangeFields DEF Statuses
<1> HIDE DEF change
<1>. QED BY <1>1, <1>2, <1>3, <1>4, SerialRequestWrite

LEMMA WroteFields ==
    ASSUME NEW pc
    PROVE  /\ Wrote(pc) \in ChangeRecords
           /\ Wrote(pc).status \notin {"failed", "compile_failed"}
<1>1. None \notin {"failed", "compile_failed"}
  BY ChangeFields DEF Statuses
<1>. QED BY <1>1, WroteChange, ChangeFields DEF Wrote

LEMMA SerialUpstreamPublishes ==
    ASSUME ImportInv, SerialInv, NEW c \in Calls, UpstreamPublishes(c) PROVE SerialInv'
<1>1. PICK pc \in LivePcs : Write(c, pc, Wrote(pc))
  BY DEF UpstreamPublishes, LivePcs
<1>2. StoreUnchanged /\ Ready(c, "publish_running")
  BY DEF UpstreamPublishes, StoreUnchanged
<1>3. "publish_running" \in RequestPcs \ CheckPcs /\ pc \notin FailurePcs \cup {"end"}
  BY DEF RequestPcs, CheckPcs, FailurePcs, LivePcs
<1>4. /\ Active(flow[c]) /\ OwnsIt(c) /\ Requested(flow[c]) /\ flow[c].kind # "list"
      /\ flow[c].pc # "created"
  BY <1>2, <1>3, SerialRequest
<1>. QED BY <1>1, <1>2, <1>3, <1>4, WroteFields, SerialRequestWrite

LEMMA SerialPublishFails ==
    ASSUME ImportInv, SerialInv, NEW c \in Calls, PublishFails(c) PROVE SerialInv'
<1> DEFINE change == Diagnostic({"failure"})
<1>1. StoreUnchanged /\ Ready(c, "publish_running") /\ Write(c, "publish_failed", change)
  BY DEF PublishFails, StoreUnchanged
<1>2. "publish_running" \in RequestPcs \ CheckPcs
  BY DEF RequestPcs, CheckPcs
<1>3. /\ Active(flow[c]) /\ OwnsIt(c) /\ Requested(flow[c]) /\ flow[c].kind # "list"
      /\ flow[c].pc # "created"
  BY <1>1, <1>2, SerialRequest
<1>4. /\ change \in ChangeRecords /\ change.diags = {"failure"}
      /\ change.status \notin {"failed", "compile_failed"}
  BY Changes, ChangeFields DEF Statuses, Codes
<1> HIDE DEF change
<1>. QED BY <1>1, <1>3, <1>4, SerialRequestWrite

LEMMA SerialPolishLaunch ==
    ASSUME ImportInv, SerialInv, NEW c \in Calls, PolishLaunch(c) PROVE SerialInv'
<1>1. StoreUnchanged
  BY DEF PolishLaunch, StoreUnchanged
<1>2. PICK pc \in LivePcs : Ready(c, pc)
  BY DEF PolishLaunch, LivePcs
<1>3. /\ LivePcs \subseteq RequestPcs /\ LivePcs \cap (CheckPcs \cup FailurePcs \cup {"end"}) = {}
      /\ "end" \notin FailurePcs
  BY DEF LivePcs, RequestPcs, CheckPcs, FailurePcs
<1>4. /\ Active(flow[c]) /\ OwnsIt(c) /\ Requested(flow[c]) /\ flow[c].kind # "list"
      /\ flow[c].pc # "created" /\ flow[c].capsule \in Capsules \cup {None}
  BY <1>2, <1>3, SerialRequest
<1>5. ASSUME NEW to \in LivePcs, NEW change \in {NoChange, Wrote(to)}, Write(c, to, change)
      PROVE  SerialInv'
  <2>1. /\ NoChange \in ChangeRecords
        /\ NoChange.status \notin {"failed", "compile_failed"}
    BY Changes, ChangeFields DEF Statuses
  <2>2. change \in ChangeRecords /\ change.status \notin {"failed", "compile_failed"}
    BY <2>1, WroteFields
  <2>. QED BY <1>1, <1>3, <1>4, <1>5, <2>2, SerialRequestWrite
<1>6. CASE \E pc2 \in {"metadata", "metadata_failed"} : Write(c, pc2, NoChange)
  BY <1>5, <1>6 DEF LivePcs
<1>7. CASE Write(c, "published_diag", Wrote("published_diag"))
  BY <1>5, <1>7 DEF LivePcs
<1>8. CASE Write(c, "end", StatusWith("published", flow[c].capsule))
  <2> DEFINE change == StatusWith("published", flow[c].capsule)
  <2>1. change \in ChangeRecords
    BY <1>4 DEF StatusWith, NoChange, ChangeRecords, Statuses
  <2>2. change.status = "published"
    BY ChangeFields
  <2>3. Write(c, "end", change)
    BY <1>8
  <2> HIDE DEF change
  <2>4. "published" \in Settled
    BY DEF Settled, Terminal
  <2>. QED BY <1>1, <1>3, <1>4, <2>1, <2>2, <2>3, <2>4, SerialRequestWrite
<1>. QED BY <1>6, <1>7, <1>8 DEF PolishLaunch

LEMMA SerialCancelImport ==
    ASSUME ImportInv, SerialInv, NEW c \in Calls, CancelImport(c) PROVE SerialInv'
<1> DEFINE change == Status("canceled")
<1>1. StoreUnchanged /\ Ready(c, "cancel_check") /\ Owns(c, st[c].snap)
      /\ Write(c, "end", change)
  BY DEF CancelImport, StoreUnchanged
<1>2. "cancel_check" \in RequestPcs /\ "end" \notin FailurePcs /\ "canceled" \in Settled
  BY DEF RequestPcs, FailurePcs, Settled, Terminal
<1>3. /\ Active(flow[c]) /\ OwnsIt(c) /\ Requested(flow[c]) /\ flow[c].kind # "list"
      /\ flow[c].pc # "created"
  BY <1>1, <1>2, SerialRequest
<1>4. change \in ChangeRecords /\ change.status = "canceled"
  BY Changes, ChangeFields DEF Statuses
<1> HIDE DEF change
<1>. QED BY <1>1, <1>2, <1>3, <1>4, SerialRequestWrite

LEMMA SerialRefresh ==
    ASSUME ImportInv, SerialInv, NEW c \in Calls, Refresh(c) PROVE SerialInv'
<1>1. StoreUnchanged
  BY DEF Refresh, StoreUnchanged
<1>2. PICK pc \in {"watch_check", "refresh_check"} : Ready(c, pc) /\ Owns(c, st[c].snap)
  BY DEF Refresh
<1>3. pc \in CheckPcs
  BY DEF CheckPcs
<1>4. /\ Active(flow[c]) /\ flow[c].pc = pc /\ st[c].step = "ok" /\ flow[c].kind # "list"
      /\ pc \notin BusyPcs \cup OwnPcs /\ ops[flow[c].op] = st[c].snap
  BY <1>2, <1>3, SerialCheck
<1>5. CASE Then(c, "refresh_check", GetById(flow[c].op))
  <2> DEFINE f == [flow[c] EXCEPT !.pc = "refresh_check"]
  <2>1. flow[c] \in Flows
    BY InvFacts
  <2>2. /\ f.pc = "refresh_check" /\ f.kind = flow[c].kind
        /\ f.views = flow[c].views /\ f.out = flow[c].out
    BY <2>1 DEF Flows
  <2>3. flow' = [flow EXCEPT ![c] = f] /\ Set(c, GetById(flow[c].op))
    BY <1>5 DEF Then
  <2> HIDE DEF f
  <2>4. /\ flow[c].out = "none" /\ \A d \in Others(c) : ~Active(flow[d])
        /\ CurrentViews(flow[c], ops)
    BY <1>4, SerialFacts
  <2>5. /\ "refresh_check" \in CheckPcs
        /\ "refresh_check" \notin OwnPcs \cup RequestPcs \cup {"listed", "reread"}
    BY DEF CheckPcs, OwnPcs, RequestPcs, LivePcs
  <2>6. CurrentViews(f, ops)
    BY <1>4, <2>2, <2>4, <2>5, ViewsKept
  <2>7. GoesOn(c, f)
    BY <1>4 DEF GoesOn, BusyPcs
  <2>. QED BY <1>1, <2>2, <2>3, <2>4, <2>5, <2>6, <2>7, SerialRead
<1>6. CASE Pollable(st[c].snap) /\ Then(c, "poll", st[c])
  <2>1. ops[flow[c].op].status \notin Terminal
    BY <1>4, <1>6 DEF Pollable, Terminal
  <2>. QED BY <1>1, <1>4, <1>6, <2>1, SerialKeep
<1>7. CASE AfterRefresh(c, st[c].snap)
  BY <1>1, <1>4, <1>7, SerialAfterRefresh
<1>. QED BY <1>5, <1>6, <1>7 DEF Refresh

LEMMA SerialSnapshotList ==
    ASSUME ImportInv, SerialInv, NEW c \in Calls, SnapshotList(c) PROVE SerialInv'
<1> DEFINE views == [o \in Ops |->
                       IF /\ \E i \in 1 .. Len(st[c].seen) : st[c].seen[i] = o
                          /\ Owns(c, ops[o])
                          /\ Pollable(ops[o])
                       THEN ops[o] ELSE None]
           f == [flow[c] EXCEPT !.pc = "sweep", !.views = views]
           s == [Quiet EXCEPT !.step = "ok"]
<1>1. StoreUnchanged /\ flow' = [flow EXCEPT ![c] = f] /\ st' = [st EXCEPT ![c] = s]
  BY DEF SnapshotList, Set, StoreUnchanged
<1>2. flow[c].pc = "listed" /\ flow[c] \in Flows /\ Active(flow[c])
  BY InvFacts DEF SnapshotList, Ready, Active
<1>3. \A o \in Ops : views[o] # None => ops[o] = views[o] /\ Pollable(views[o])
  OBVIOUS
<1> HIDE DEF views
<1>4. /\ f.pc = "sweep" /\ f.views = views /\ f.kind = flow[c].kind /\ f.out = flow[c].out
  BY <1>2 DEF Flows
<1>5. s.step = "ok" /\ s.snap = None
  BY DEF Quiet
<1> HIDE DEF f, s
<1>6. /\ flow[c].out = "none" /\ \A d \in Others(c) : ~Active(flow[d])
      /\ flow[c].kind = "list"
  BY <1>2, SerialFacts DEF CurrentViews
<1>7. "sweep" \notin OwnPcs \cup FailurePcs \cup RequestPcs \cup OpenPcs
                       \cup {"waiting", "end", "poll", "lookup"}
      /\ "sweep" \in ListPcs
  BY DEF OwnPcs, FailurePcs, RequestPcs, OpenPcs, LivePcs, ListPcs
<1>8. CurrentViews(f, ops)
  BY <1>3, <1>4, <1>6, <1>7 DEF CurrentViews
<1>9. CurrentCopies(s, ops, index) /\ FreePointer(f, s, idem) /\ FittingChange(f, s, ops)
  BY <1>4, <1>5, <1>7 DEF CurrentCopies, FreePointer, FittingChange, Pending
<1>10. SerialCall(f, s, ops, idem, index)
  BY <1>8, <1>9 DEF SerialCall
<1>11. GoesOn(c, f)
  BY <1>2 DEF GoesOn, BusyPcs, LivePcs
<1>. QED BY <1>1, <1>4, <1>6, <1>10, <1>11, ServiceStep

LEMMA SerialSweepNext ==
    ASSUME ImportInv, SerialInv, NEW c \in Calls, SweepNext(c) PROVE SerialInv'
<1>1. /\ StoreUnchanged /\ flow[c].pc = "sweep" /\ st[c].step = "ok" /\ flow[c] \in Flows
      /\ Active(flow[c]) /\ flow[c].pc \notin BusyPcs /\ flow[c].pc # "created"
  BY InvFacts DEF SweepNext, Ready, StoreUnchanged, Active, BusyPcs, LivePcs
<1>2. CASE Finish(c, "ok")
  BY <1>1, <1>2, SerialFinish
<1>3. ASSUME NEW o \in Ops, flow[c].views[o] # None,
             flow' = [flow EXCEPT ![c] = [flow[c] EXCEPT !.pc = "poll", !.op = o,
                                                         !.views[o] = None]],
             Set(c, Returned(o, flow[c].views[o]))
      PROVE  SerialInv'
  <2> DEFINE f == [flow[c] EXCEPT !.pc = "poll", !.op = o, !.views[o] = None]
             rec == flow[c].views[o]
             s == Returned(o, rec)
  <2>1. flow[c].views \in [Ops -> Operations \cup {None}]
    BY <1>1 DEF Flows
  <2>2. /\ f.pc = "poll" /\ f.op = o /\ f.kind = flow[c].kind /\ f.out = flow[c].out
        /\ f.views = [flow[c].views EXCEPT ![o] = None]
    BY <1>1 DEF Flows
  <2>3. \A p \in Ops : f.views[p] # None => f.views[p] = flow[c].views[p] /\ p # o
    BY <2>1, <2>2
  <2>4. flow' = [flow EXCEPT ![c] = f] /\ st' = [st EXCEPT ![c] = s]
    BY <1>3 DEF Set
  <2> HIDE DEF f, rec
  <2>5. s.step = "ok" /\ s.op = o /\ s.snap = rec
    BY DEF Returned, Quiet
  <2> HIDE DEF s
  <2>6. /\ flow[c].out = "none" /\ \A d \in Others(c) : ~Active(flow[d])
        /\ CurrentViews(flow[c], ops)
    BY <1>1, SerialFacts
  <2>7. ops[o] = rec /\ Pollable(rec) /\ flow[c].kind = "list"
    BY <1>3, <2>6 DEF CurrentViews, NoViews, rec
  <2>8. CurrentViews(f, ops)
    BY <2>2, <2>3, <2>6, <2>7 DEF CurrentViews, ListPcs
  <2>9. CurrentCopies(s, ops, index) /\ FreePointer(f, s, idem)
    BY <2>2, <2>5, <2>7 DEF CurrentCopies, FreePointer
  <2>10. ops[o].status \notin Terminal
    BY <2>7 DEF Pollable, Terminal
  <2>11. FittingChange(f, s, ops)
    BY <2>2, <2>5, <2>7, <2>10
       DEF FittingChange, Pending, FailurePcs, RequestPcs, LivePcs
  <2>12. SerialCall(f, s, ops, idem, index)
    BY <2>8, <2>9, <2>11 DEF SerialCall
  <2>13. GoesOn(c, f)
    BY <1>1 DEF GoesOn
  <2>. QED BY <1>1, <2>2, <2>4, <2>6, <2>12, <2>13, ServiceStep
<1>. QED BY <1>2, <1>3 DEF SweepNext

(* An update on the way of a poll. *)
LEMMA SerialPollWrite ==
    ASSUME ImportInv, SerialInv, StoreUnchanged, NEW c \in Calls,
           NEW pc \in {"poll", "job_failed", "job_canceled", "poll_error"},
           flow[c].pc = pc, OwnsIt(c), ops[flow[c].op].status \notin Terminal,
           NEW to \in {"job_failed", "job_canceled", "poll_error", "refreshed"},
           NEW change \in ChangeRecords, Write(c, to, change),
           change.status \in {"failed", "compile_failed"} =>
             "failure" \in ops[flow[c].op].diags,
           change.status \in Settled \cup {None},
           to # "refreshed" => change.status = None,
           to = "job_failed" => "failure" \in change.diags
    PROVE  SerialInv'
<1>1. /\ to \in UpdatePcs /\ to \in ListPcs /\ to \notin RequestPcs \cup {"waiting", "end"}
      /\ to \in FailurePcs => to = "job_failed"
      /\ to \in OpenPcs => to # "refreshed"
  BY PlainPcs DEF ListPcs, RequestPcs, LivePcs, FailurePcs, OpenPcs
<1>2. /\ pc \in OwnPcs /\ pc \notin BusyPcs /\ pc # "created" /\ Active(flow[c])
  BY PlainPcs DEF BusyPcs, LivePcs, Active, UpdatePcs
<1>3. MayTurn(c, to)
  BY <1>1, <1>2 DEF MayTurn
<1>4. None \notin Terminal
  BY ChangeFields
<1>5. FittingWrite(c, to, change)
  BY <1>1, <1>4 DEF FittingWrite
<1>. QED BY <1>1, <1>2, <1>3, <1>5, SerialWrite

LEMMA SerialPollRead ==
    ASSUME ImportInv, SerialInv, StoreUnchanged, NEW c \in Calls,
           NEW pc \in {"poll", "poll_error"}, flow[c].pc = pc, OwnsIt(c),
           Then(c, "refreshed", GetById(flow[c].op))
    PROVE  SerialInv'
<1> DEFINE f == [flow[c] EXCEPT !.pc = "refreshed"]
<1>1. flow[c] \in Flows
  BY InvFacts
<1>2. /\ f.pc = "refreshed" /\ f.op = flow[c].op /\ f.kind = flow[c].kind
      /\ f.views = flow[c].views /\ f.out = flow[c].out
  BY <1>1 DEF Flows
<1>3. flow' = [flow EXCEPT ![c] = f] /\ Set(c, GetById(flow[c].op))
  BY DEF Then
<1> HIDE DEF f
<1>4. pc \in OwnPcs /\ Active(flow[c]) /\ pc \notin BusyPcs /\ pc # "created"
  BY PlainPcs DEF BusyPcs, LivePcs, Active, UpdatePcs
<1>5. /\ flow[c].out = "none" /\ \A d \in Others(c) : ~Active(flow[d])
      /\ CurrentViews(flow[c], ops)
  BY <1>4, SerialFacts
<1>6. "refreshed" \in ListPcs /\ "refreshed" \notin RequestPcs
  BY DEF ListPcs, RequestPcs, LivePcs
<1>7. CurrentViews(f, ops)
  BY <1>2, <1>4, <1>5, <1>6, ViewsKept
<1>8. GoesOn(c, f)
  BY <1>4 DEF GoesOn
<1>. QED BY <1>2, <1>3, <1>5, <1>6, <1>7, <1>8, SerialRead

LEMMA SerialPollJob ==
    ASSUME ImportInv, SerialInv, NEW c \in Calls, PollJob(c) PROVE SerialInv'
<1>1. StoreUnchanged /\ Ready(c, "poll")
  BY DEF PollJob, StoreUnchanged
<1>2. "poll" \in OwnPcs /\ "poll" \in OpenPcs
  BY PlainPcs DEF OpenPcs
<1>3. /\ flow[c].pc = "poll" /\ st[c].step = "ok" /\ OwnsIt(c)
      /\ ops[flow[c].op].status \notin Terminal
  BY <1>1, <1>2, SerialAnswer
<1>4. st[c].snap \in Operations /\ st[c].snap.job \in Jobs
      /\ st[c].snap.capsule \in Capsules \cup {None}
  <2>1. st[c].snap \in Operations /\ st[c].snap.job # None
    BY <1>2, <1>3, OwnAnswer, InvFacts DEF SoundCall
  <2>. QED BY <2>1 DEF Operations
<1>5. jobs[st[c].snap.job].capsule \in Capsules \cup {None}
  BY <1>4, InvFacts DEF JobRecords
<1> DEFINE x == IF jobs[st[c].snap.job].capsule # None
                THEN jobs[st[c].snap.job].capsule ELSE st[c].snap.capsule
<1>6. x \in Capsules \cup {None}
  BY <1>4, <1>5
<1>7. \/ Write(c, "refreshed", StatusWith("draft_ready", x))
      \/ \E to \in {"job_failed", "job_canceled"} : Write(c, to, Diagnostic({"failure"}))
      \/ Then(c, "refreshed", GetById(flow[c].op))
      \/ Write(c, "poll_error", NoChange)
  BY DEF PollJob
<1> HIDE DEF x
<1>8. CASE Write(c, "refreshed", StatusWith("draft_ready", x))
  <2> DEFINE change == StatusWith("draft_ready", x)
  <2>1. change \in ChangeRecords /\ change.status = "draft_ready"
    BY <1>6, Changes, ChangeFields DEF Statuses
  <2>2. Write(c, "refreshed", change)
    BY <1>8
  <2> HIDE DEF change
  <2>3. "draft_ready" \in Settled
    BY DEF Settled, Terminal
  <2>. QED BY <1>1, <1>3, <2>1, <2>2, <2>3, SerialPollWrite
<1>9. ASSUME NEW to \in {"job_failed", "job_canceled"},
             Write(c, to, Diagnostic({"failure"}))
      PROVE  SerialInv'
  <2> DEFINE change == Diagnostic({"failure"})
  <2>1. change \in ChangeRecords /\ change.status = None /\ change.diags = {"failure"}
    BY Changes, ChangeFields DEF Statuses, Codes
  <2>2. Write(c, to, change)
    BY <1>9
  <2> HIDE DEF change
  <2>3. None \notin {"failed", "compile_failed"}
    BY ChangeFields DEF Statuses
  <2>. QED BY <1>1, <1>3, <2>1, <2>2, <2>3, SerialPollWrite
<1>10. CASE Then(c, "refreshed", GetById(flow[c].op))
  BY <1>1, <1>3, <1>10, SerialPollRead
<1>11. CASE Write(c, "poll_error", NoChange)
  <2>1. NoChange \in ChangeRecords /\ NoChange.status = None
    BY Changes, ChangeFields DEF Statuses
  <2>2. None \notin {"failed", "compile_failed"}
    BY ChangeFields DEF Statuses
  <2>. QED BY <1>1, <1>3, <1>11, <2>1, <2>2, SerialPollWrite
<1>. QED BY <1>7, <1>8, <1>9, <1>10, <1>11

LEMMA SerialRefreshed ==
    ASSUME ImportInv, SerialInv, NEW c \in Calls, Refreshed(c) PROVE SerialInv'
<1>1. StoreUnchanged
  BY DEF Refreshed, StoreUnchanged
<1>2. PICK pc \in {"job_failed", "job_canceled", "poll_error", "refreshed"} : Ready(c, pc)
  BY DEF Refreshed
<1>3. pc \in OwnPcs /\ (pc # "refreshed" => pc \in OpenPcs)
      /\ (pc \in FailurePcs <=> pc = "job_failed") /\ pc \notin BusyPcs
  BY PlainPcs DEF OpenPcs, FailurePcs, BusyPcs, LivePcs, UpdatePcs
<1>4. /\ flow[c].pc = pc /\ st[c].step = "ok" /\ OwnsIt(c) /\ Active(flow[c])
      /\ pc # "refreshed" => ops[flow[c].op].status \notin Terminal
      /\ pc = "job_failed" => "failure" \in ops[flow[c].op].diags
  BY <1>2, <1>3, SerialAnswer
<1>5. ASSUME NEW status \in {"failed", "canceled"}
      PROVE  /\ Status(status) \in ChangeRecords /\ Status(status).status = status
             /\ status \in Settled
  BY Changes, ChangeFields DEF Statuses, Settled, Terminal
<1>6. CASE pc = "job_failed"
  <2>1. Write(c, "refreshed", Status("failed"))
    BY <1>4, <1>6 DEF Refreshed, Ready
  <2>. QED BY <1>1, <1>4, <1>5, <1>6, <2>1, SerialPollWrite
<1>7. CASE pc = "job_canceled"
  <2>1. Write(c, "refreshed", Status("canceled"))
    BY <1>4, <1>7 DEF Refreshed, Ready
  <2>. QED BY <1>1, <1>4, <1>5, <1>7, <2>1, SerialPollWrite
<1>8. CASE pc = "poll_error"
  <2>1. Then(c, "refreshed", GetById(flow[c].op))
    BY <1>4, <1>8 DEF Refreshed, Ready
  <2>. QED BY <1>1, <1>4, <1>8, <2>1, SerialPollRead
<1>9. CASE pc = "refreshed"
  <2>1. AfterRefresh(c, st[c].snap)
    BY <1>4, <1>9 DEF Refreshed, Ready
  <2>. QED BY <1>1, <1>3, <1>4, <2>1, SerialAfterRefresh
<1>. QED BY <1>6, <1>7, <1>8, <1>9

LEMMA SerialEnd ==
    ASSUME ImportInv, SerialInv, NEW c \in Calls, End(c) PROVE SerialInv'
<1>1. StoreUnchanged
  BY DEF End, StoreUnchanged
<1>2. flow[c].capsule \in Capsules \cup {None}
  BY InvFacts DEF Flows
<1>3. "failed" \in Settled /\ "compile_failed" \in Settled
  BY DEF Settled, Terminal
<1>4. CASE Ready(c, "ingest_failed") /\ Write(c, "end", Status("failed"))
  <2>1. /\ "ingest_failed" \in OwnPcs /\ "ingest_failed" \in OpenPcs
        /\ "ingest_failed" \in FailurePcs /\ "ingest_failed" \notin ListPcs
        /\ "end" \in UpdatePcs /\ "end" \in BusyPcs
        /\ "end" \notin OpenPcs \cup FailurePcs \cup RequestPcs
    BY PlainPcs DEF OpenPcs, FailurePcs, ListPcs, BusyPcs, RequestPcs, LivePcs
  <2>2. /\ Active(flow[c]) /\ OwnsIt(c) /\ flow[c].pc = "ingest_failed"
        /\ "failure" \in ops[flow[c].op].diags /\ flow[c].kind # "list"
        /\ ops[flow[c].op].status \notin Terminal
    BY <1>4, <2>1, SerialAnswer
  <2>3. Status("failed") \in ChangeRecords /\ Status("failed").status = "failed"
    BY Changes, ChangeFields DEF Statuses
  <2>4. MayTurn(c, "end")
    BY <2>1, <2>2 DEF MayTurn
  <2>5. FittingWrite(c, "end", Status("failed"))
    BY <1>3, <2>1, <2>2, <2>3 DEF FittingWrite
  <2>. QED BY <1>1, <1>4, <2>1, <2>2, <2>3, <2>4, <2>5, SerialWrite
<1>5. ASSUME NEW pc \in {"compile_failed", "publish_failed"}, Ready(c, pc),
             NEW status \in {"compile_failed", "failed"},
             Write(c, "end", StatusWith(status, flow[c].capsule))
      PROVE  SerialInv'
  <2> DEFINE change == StatusWith(status, flow[c].capsule)
  <2>1. pc \in RequestPcs /\ pc \in FailurePcs /\ pc \notin CheckPcs /\ "end" \notin FailurePcs
    BY DEF RequestPcs, FailurePcs, CheckPcs
  <2>2. /\ Active(flow[c]) /\ OwnsIt(c) /\ Requested(flow[c]) /\ flow[c].kind # "list"
        /\ flow[c].pc # "created" /\ "failure" \in ops[flow[c].op].diags
    BY <1>5, <2>1, SerialRequest
  <2>3. change \in ChangeRecords /\ change.status = status
    BY <1>2, Changes, ChangeFields DEF Statuses
  <2>4. Write(c, "end", change)
    BY <1>5
  <2> HIDE DEF change
  <2>. QED BY <1>1, <1>3, <2>1, <2>2, <2>3, <2>4, SerialRequestWrite
<1>6. ASSUME NEW pc \in {"end", "reread"}, Ready(c, pc),
             Return(c, flow[c].op, st[c].snap)
      PROVE  SerialInv'
  <2>1. pc \notin BusyPcs \ {"end"} /\ flow[c].pc = pc /\ st[c].step = "ok" /\ Active(flow[c])
    BY <1>6 DEF BusyPcs, LivePcs, Ready, Active
  <2>. QED BY <1>1, <1>6, <2>1, SerialReturn
<1>. QED BY <1>4, <1>5, <1>6 DEF End

LEMMA QuietPcs == StepsAt("idle") = {"idle"} /\ StepsAt("done") = {"idle"}
BY DEF StepsAt, CheckPcs

LEMMA SerialReject ==
    ASSUME ImportInv, SerialInv, NEW c \in Calls, Reject(c) PROVE SerialInv'
<1>1. StoreUnchanged /\ st[c].step = "threw"
  BY DEF Reject, StoreUnchanged
<1>2. Active(flow[c]) /\ flow[c].pc \in ControlPoints
  <2>1. "threw" \in StepsAt(flow[c].pc) /\ flow[c].pc \in ControlPoints
    BY <1>1, CallOf
  <2>2. flow[c].pc \notin {"idle", "done"}
    BY <2>1, QuietPcs
  <2>. QED BY <2>1, <2>2 DEF Active
<1>3. /\ CurrentViews(flow[c], ops) /\ FittingChange(flow[c], st[c], ops)
  BY <1>2, SerialFacts
<1>4. CASE Finish(c, "threw")
  BY <1>1, <1>2, <1>4, SerialFinish
<1>5. CASE ~Finish(c, "threw")
  <2> DEFINE pc == Handler[flow[c].pc]
             change == IF pc \in {"ingest_failed", "publish_failed"}
                       THEN Diagnostic({"failure"}) ELSE NoChange
  <2>1. Write(c, pc, change) /\ pc # "done"
    BY <1>5 DEF Reject
  <2>2. \/ flow[c].pc \in {"ingesting", "uploading", "waiting", "reread"}
             /\ pc = "ingest_failed"
        \/ flow[c].pc \in {"job_failed", "job_canceled"} /\ pc = "poll_error"
        \/ flow[c].pc \in {"thumbnail", "metadata"} /\ pc = "metadata_failed"
        \/ flow[c].pc \in {"metadata_failed", "published_diag"} /\ pc = "publish_failed"
    BY <1>2, <2>1 DEF Handler
  <2> HIDE DEF pc
  <2>3. OwnsIt(c) /\ ops[flow[c].op] # None
    BY <2>2, OwnAnswer, PlainPcs DEF LivePcs, OwnsIt
  <2>4. /\ change \in ChangeRecords /\ change.status = None
        /\ pc \in {"ingest_failed", "publish_failed"} => "failure" \in change.diags
    <3>1. /\ Diagnostic({"failure"}) \in ChangeRecords /\ NoChange \in ChangeRecords
          /\ Diagnostic({"failure"}).status = None /\ NoChange.status = None
          /\ Diagnostic({"failure"}).diags = {"failure"}
      BY Changes, ChangeFields DEF Statuses, Codes
    <3>. QED BY <3>1
  <2> HIDE DEF change
  <2>5. None \notin Terminal \cup {"failed", "compile_failed"}
    BY ChangeFields DEF Statuses
  <2>6. CASE flow[c].pc \in {"ingesting", "uploading", "waiting", "reread"}
    <3>1. /\ pc = "ingest_failed" /\ flow[c].pc \in OpenPcs /\ flow[c].pc \notin ListPcs
          /\ flow[c].pc # "created"
      BY <2>2, <2>6 DEF OpenPcs, ListPcs, LivePcs
    <3>2. ops[flow[c].op].status \notin Terminal /\ flow[c].kind # "list"
      BY <1>3, <2>3, <3>1 DEF FittingChange, CurrentViews
    <3>3. /\ "ingest_failed" \in UpdatePcs /\ "ingest_failed" \in BusyPcs
          /\ "ingest_failed" \notin RequestPcs
      BY PlainPcs DEF BusyPcs, RequestPcs, LivePcs
    <3>4. MayTurn(c, pc)
      BY <3>1, <3>2, <3>3 DEF MayTurn
    <3>5. FittingWrite(c, pc, change)
      BY <2>4, <2>5, <3>1, <3>2, <3>3 DEF FittingWrite
    <3>. QED BY <1>1, <1>2, <2>1, <2>3, <2>4, <3>1, <3>3, <3>4, <3>5, SerialWrite
  <2>7. CASE flow[c].pc \in {"job_failed", "job_canceled"}
    <3>1. pc = "poll_error" /\ flow[c].pc \in OpenPcs
      BY <2>2, <2>7 DEF OpenPcs, LivePcs
    <3>2. ops[flow[c].op].status \notin Terminal
      BY <1>3, <2>3, <3>1 DEF FittingChange
    <3>. QED BY <1>1, <2>1, <2>3, <2>4, <2>5, <2>7, <3>1, <3>2, SerialPollWrite
  <2>8. CASE flow[c].pc \in LivePcs
    <3>1. /\ flow[c].pc \in RequestPcs /\ flow[c].pc \notin ListPcs \cup {"created"}
          /\ pc \in {"metadata_failed", "publish_failed"}
      BY <2>2, <2>8 DEF LivePcs, RequestPcs, ListPcs
    <3>2. Requested(flow[c]) /\ flow[c].kind # "list"
      BY <1>3, <3>1 DEF FittingChange, CurrentViews
    <3>3. /\ pc \in {"publish_failed"} \cup LivePcs /\ pc # "end"
          /\ pc \in FailurePcs => pc = "publish_failed"
      BY <3>1 DEF LivePcs, FailurePcs
    <3>. QED BY <1>1, <1>2, <2>1, <2>3, <2>4, <2>5, <3>1, <3>2, <3>3, SerialRequestWrite
  <2>. QED BY <2>2, <2>6, <2>7, <2>8 DEF LivePcs
<1>. QED BY <1>4, <1>5

LEMMA SerialEvict ==
    ASSUME ImportInv, SerialInv, NEW c \in Calls, Evict(c) PROVE SerialInv'
BY SerialFinish DEF Evict, StoreUnchanged, Active

LEMMA SerialJobProgress ==
    ASSUME ImportInv, SerialInv, NEW j \in Jobs, JobProgress(j) PROVE SerialInv'
<1>1. UNCHANGED <<ops, idem, index, st, flow>>
  BY DEF JobProgress
<1>. QED BY <1>1 DEF SerialInv, FailureExplained, Undisturbed, LookedAfter, Creating

-----------------------------------------------------------------------------
(* One call at a time: the steps of the store *)

(* c's method is now at s, and no call has moved. *)
MethodAt(c, s) == UNCHANGED flow /\ st' = [st EXCEPT ![c] = s]

LEMMA SerialCallsKept ==
    ASSUME ImportInv, SerialInv, NEW c \in Calls, NEW s, MethodAt(c, s), Active(flow[c]),
           SerialCall(flow[c], s, ops', idem', index')
    PROVE  /\ \A d, e \in Calls : Active(flow'[d]) /\ Active(flow'[e]) => d = e
           /\ \A d \in Calls : /\ flow'[d].pc = "done" \/ flow'[d].out = "none"
                               /\ Active(flow'[d]) =>
                                    SerialCall(flow'[d], st'[d], ops', idem', index')
           /\ Undisturbed' <=> Undisturbed
           /\ st'[c] = s /\ \A d \in Others(c) : st'[d] = st[d]
<1>1. flow' = flow
  BY DEF MethodAt
<1>2. st'[c] = s /\ \A d \in Others(c) : st'[d] = st[d] /\ ~Active(flow[d])
  BY InvFacts, SerialFacts DEF MethodAt, Others
<1>3. \A d \in Calls : d = c \/ d \in Others(c)
  BY DEF Others
<1>. QED BY <1>1, <1>2, <1>3 DEF SerialInv, Undisturbed

LEMMA MethodUnderWay ==
    ASSUME ImportInv, NEW c \in Calls, st[c].step \notin {"idle", "ok", "threw"}
    PROVE  /\ Active(flow[c])
           /\ flow[c].pc \in CheckPcs \cup OwnPcs \cup {"created"} => st[c].op = flow[c].op
           /\ flow[c].pc # "poll"
<1>1. st[c].step \in StepsAt(flow[c].pc) /\ flow[c].pc \in ControlPoints
  BY CallOf
<1>2. flow[c].pc \notin {"idle", "done"}
  BY <1>1, QuietPcs
<1>3. flow[c].pc # "poll"
  BY <1>1, StepOrder
<1>. QED BY <1>2, <1>3, CallOf DEF SoundCall, Active

(* A step of the method that writes nothing. *)
LEMMA SerialMethod ==
    ASSUME ImportInv, SerialInv, StoreUnchanged, NEW c \in Calls, NEW s, MethodAt(c, s),
           Active(flow[c]), SerialCall(flow[c], s, ops, idem, index),
           flow[c].pc = "created" => \/ s.step = "threw"
                                     \/ st[c].step = "ix_read" /\ s.step = "ix_write"
    PROVE  SerialInv'
<1>1. ops' = ops /\ idem' = idem /\ index' = index /\ flow' = flow
  BY DEF StoreUnchanged, MethodAt
<1>2. SerialCall(flow[c], s, ops', idem', index')
  BY <1>1
<1>3. /\ \A d, e \in Calls : Active(flow'[d]) /\ Active(flow'[e]) => d = e
      /\ \A d \in Calls : /\ flow'[d].pc = "done" \/ flow'[d].out = "none"
                          /\ Active(flow'[d]) =>
                               SerialCall(flow'[d], st'[d], ops', idem', index')
      /\ Undisturbed' <=> Undisturbed
      /\ st'[c] = s /\ \A d \in Others(c) : st'[d] = st[d]
  BY <1>2, SerialCallsKept
<1>4. \A d \in Calls : d = c \/ d \in Others(c)
  BY DEF Others
<1>5. ASSUME Undisturbed, NEW o \in Ops, ops[o] # None PROVE LookedAfter(o)'
  <2>1. LookedAfter(o)
    BY <1>5 DEF SerialInv
  <2>2. \A d \in Calls : Creating(d, o) /\ st[d].step \in {"put_pointer", "threw"} =>
          Creating(d, o)' /\ st'[d].step \in {"put_pointer", "threw"}
    BY <1>1, <1>3, <1>4 DEF Creating
  <2>3. \A d \in Calls :
          Creating(d, o) /\ st[d].step \in {"put_pointer", "ix_read", "ix_write", "threw"} =>
          Creating(d, o)' /\ st'[d].step \in {"put_pointer", "ix_read", "ix_write", "threw"}
    BY <1>1, <1>3, <1>4 DEF Creating
  <2>4. \/ ops[o].status \in Settled
        \/ \E d \in Calls : flow'[d].pc \in BusyPcs /\ flow'[d].op = o
    BY <1>1, <2>1 DEF LookedAfter
  <2>5. \/ idem[ops[o].user][ops[o].key] = o
        \/ /\ idem[ops[o].user][ops[o].key] = None
           /\ \E d \in Calls : Creating(d, o)' /\ st'[d].step \in {"put_pointer", "threw"}
    BY <2>1, <2>2 DEF LookedAfter
  <2>6. \/ Len(index[ops[o].user]) = MaxIndex
        \/ \E i \in 1 .. Len(index[ops[o].user]) : index[ops[o].user][i] = o
        \/ \E d \in Calls : /\ Creating(d, o)'
                            /\ st'[d].step \in {"put_pointer", "ix_read", "ix_write", "threw"}
    BY <2>1, <2>3 DEF LookedAfter
  <2>. QED BY <1>1, <2>4, <2>5, <2>6 DEF LookedAfter
<1>6. FailureExplained'
  BY <1>1 DEF SerialInv, FailureExplained
<1>. QED BY <1>1, <1>3, <1>5, <1>6 DEF SerialInv

LEMMA StoreFacts ==
    ASSUME ImportInv, SerialInv, NEW c \in Calls, st[c].step \notin {"idle", "ok", "threw"}
    PROVE  /\ Active(flow[c]) /\ flow[c].pc # "poll"
           /\ \A d \in Calls : Active(flow[d]) => d = c
           /\ CurrentCopies(st[c], ops, index) /\ CurrentViews(flow[c], ops)
           /\ FreePointer(flow[c], st[c], idem) /\ FittingChange(flow[c], st[c], ops)
BY MethodUnderWay, SerialFacts DEF SerialInv

(* A step of the method that leaves the change to be written as it is. *)
LEMMA FittingKept ==
    ASSUME NEW f, NEW s, NEW s2, NEW recs, FittingChange(f, s, recs), f.pc # "poll",
           s.step # "threw",
           \/ s2.step = "threw"
           \/ Pending(s) /\ Pending(s2) /\ s2.change = s.change
           \/ ~Pending(s) /\ ~Pending(s2)
    PROVE  FittingChange(f, s2, recs)
<1>1. CASE s2.step = "threw"
  BY <1>1 DEF FittingChange, Pending
<1>2. CASE \/ Pending(s) /\ Pending(s2) /\ s2.change = s.change
           \/ ~Pending(s) /\ ~Pending(s2)
  <2>1. Outcome(f, s2, recs) = Outcome(f, s, recs)
    BY <1>2 DEF Outcome
  <2>. QED BY <1>2, <2>1 DEF FittingChange
<1>. QED BY <1>1, <1>2

LEMMA SerialLookupPointer ==
    ASSUME ImportInv, SerialInv, ServiceUnchanged, NEW c \in Calls, LookupPointer(c)
    PROVE  SerialInv'
<1> DEFINE o == idem[st[c].user][st[c].key]
           s == IF o = None THEN Returned(None, None) ELSE GetById(o)
<1>1. StoreUnchanged /\ st[c].step = "lookup" /\ MethodAt(c, s)
  BY DEF LookupPointer, StoreUnchanged, MethodAt, ServiceUnchanged, Set
<1>2. flow[c].pc = "lookup"
  BY <1>1, CallOf, StepOrder
<1>3. /\ Active(flow[c]) /\ CurrentViews(flow[c], ops)
      /\ FreePointer(flow[c], st[c], idem) /\ FittingChange(flow[c], st[c], ops)
  BY <1>1, StoreFacts
<1>4. o = idem[flow[c].user][flow[c].key]
  BY <1>1, <1>2, <1>3 DEF FreePointer
<1>5. s.snap = None /\ IF o = None THEN s.step = "ok" ELSE s.step = "get" /\ s.op = o
  BY DEF Returned, GetById, Quiet
<1> HIDE DEF s, o
<1>6. CurrentCopies(s, ops, index) /\ FreePointer(flow[c], s, idem)
  BY <1>2, <1>4, <1>5 DEF CurrentCopies, FreePointer
<1>7. FittingChange(flow[c], s, ops)
  BY <1>1, <1>2, <1>3, <1>5, FittingKept DEF Pending
<1>8. SerialCall(flow[c], s, ops, idem, index)
  BY <1>3, <1>6, <1>7 DEF SerialCall
<1>. QED BY <1>1, <1>2, <1>3, <1>8, SerialMethod

LEMMA SerialFetch ==
    ASSUME ImportInv, SerialInv, ServiceUnchanged, NEW c \in Calls, Fetch(c)
    PROVE  SerialInv'
<1> DEFINE o == st[c].op
           s == Returned(o, ops[o])
<1>1. StoreUnchanged /\ st[c].step = "get" /\ MethodAt(c, s)
  BY DEF Fetch, StoreUnchanged, MethodAt, ServiceUnchanged, Set
<1>2. o \in Ops /\ flow[c].pc \in {"lookup", "reread", "refreshed"} \cup CheckPcs
  BY <1>1, CallOf, StepOrder DEF SoundMethod
<1>3. /\ Active(flow[c]) /\ CurrentViews(flow[c], ops) /\ flow[c].pc # "poll"
      /\ FreePointer(flow[c], st[c], idem) /\ FittingChange(flow[c], st[c], ops)
  BY <1>1, StoreFacts
<1>4. s.step = "ok" /\ s.op = o /\ s.snap = ops[o]
  BY DEF Returned, Quiet
<1> HIDE DEF s
<1>5. CurrentCopies(s, ops, index)
  BY <1>4 DEF CurrentCopies
<1>6. FreePointer(flow[c], s, idem)
  <2>1. ASSUME flow[c].pc = "lookup" PROVE s.snap # None
    <3>1. flow[c].user \in Users /\ flow[c].key \in Keys
      BY <2>1, CallOf DEF SoundCall
    <3>2. o = idem[flow[c].user][flow[c].key]
      BY <1>1, <1>3, <2>1 DEF FreePointer
    <3>3. o # None
      BY <1>2, Distinguished
    <3>. QED BY <1>4, <3>1, <3>2, <3>3 DEF ImportInv, PointersSound
  <2>. QED BY <1>4, <2>1 DEF FreePointer
<1>7. FittingChange(flow[c], s, ops)
  BY <1>1, <1>3, <1>4, FittingKept DEF Pending
<1>8. SerialCall(flow[c], s, ops, idem, index)
  BY <1>3, <1>5, <1>6, <1>7 DEF SerialCall
<1>9. flow[c].pc # "created"
  BY <1>2 DEF CheckPcs
<1>. QED BY <1>1, <1>3, <1>8, <1>9, SerialMethod

LEMMA SerialFetchList ==
    ASSUME ImportInv, SerialInv, ServiceUnchanged, NEW c \in Calls, FetchList(c)
    PROVE  SerialInv'
<1> DEFINE s == [Quiet EXCEPT !.step = "ok", !.seen = index[st[c].user]]
<1>1. StoreUnchanged /\ st[c].step = "list" /\ MethodAt(c, s)
  BY DEF FetchList, StoreUnchanged, MethodAt, ServiceUnchanged, Set
<1>2. flow[c].pc = "listed"
  BY <1>1, CallOf, StepOrder
<1>3. /\ Active(flow[c]) /\ CurrentViews(flow[c], ops)
      /\ FittingChange(flow[c], st[c], ops)
  BY <1>1, StoreFacts
<1>4. s.step = "ok" /\ s.snap = None
  BY DEF Quiet
<1> HIDE DEF s
<1>5. CurrentCopies(s, ops, index) /\ FreePointer(flow[c], s, idem)
  BY <1>2, <1>4 DEF CurrentCopies, FreePointer
<1>6. FittingChange(flow[c], s, ops)
  BY <1>1, <1>2, <1>3, <1>4, FittingKept DEF Pending
<1>7. SerialCall(flow[c], s, ops, idem, index)
  BY <1>3, <1>5, <1>6 DEF SerialCall
<1>. QED BY <1>1, <1>2, <1>3, <1>7, SerialMethod

LEMMA SerialReadForUpdate ==
    ASSUME ImportInv, SerialInv, ServiceUnchanged, NEW c \in Calls, ReadForUpdate(c)
    PROVE  SerialInv'
<1> DEFINE o == st[c].op
           s == [st[c] EXCEPT !.step = "write", !.snap = ops[o]]
<1>1. st[c].step = "read"
  BY DEF ReadForUpdate
<1>2. o \in Ops /\ ops[o] # None /\ st[c] \in StoreCalls
  BY <1>1, CallOf DEF SoundMethod
<1>3. StoreUnchanged /\ MethodAt(c, s)
  BY <1>2 DEF ReadForUpdate, StoreUnchanged, MethodAt, ServiceUnchanged, Set
<1>4. flow[c].pc \notin {"created", "lookup"}
  BY <1>1, CallOf DEF StepsAt
<1>5. /\ Active(flow[c]) /\ CurrentViews(flow[c], ops) /\ flow[c].pc # "poll"
      /\ FittingChange(flow[c], st[c], ops)
  BY <1>1, StoreFacts
<1>6. s.step = "write" /\ s.op = o /\ s.snap = ops[o] /\ s.change = st[c].change
  BY <1>2 DEF StoreCalls
<1> HIDE DEF s
<1>7. CurrentCopies(s, ops, index) /\ FreePointer(flow[c], s, idem)
  BY <1>4, <1>6 DEF CurrentCopies, FreePointer
<1>8. FittingChange(flow[c], s, ops)
  BY <1>1, <1>5, <1>6, FittingKept DEF Pending
<1>9. SerialCall(flow[c], s, ops, idem, index)
  BY <1>5, <1>7, <1>8 DEF SerialCall
<1>. QED BY <1>3, <1>4, <1>5, <1>9, SerialMethod

LEMMA SerialReadIndex ==
    ASSUME ImportInv, SerialInv, ServiceUnchanged, NEW c \in Calls, ReadIndex(c)
    PROVE  SerialInv'
<1> DEFINE s == [st[c] EXCEPT !.step = "ix_write", !.seen = index[st[c].snap.user]]
<1>1. StoreUnchanged /\ st[c].step = "ix_read" /\ MethodAt(c, s)
  BY DEF ReadIndex, StoreUnchanged, MethodAt, ServiceUnchanged, Set
<1>2. st[c] \in StoreCalls
  BY CallOf
<1>3. flow[c].pc # "lookup"
  BY <1>1, CallOf DEF StepsAt
<1>4. /\ Active(flow[c]) /\ CurrentViews(flow[c], ops) /\ flow[c].pc # "poll"
      /\ FittingChange(flow[c], st[c], ops) /\ CurrentCopies(st[c], ops, index)
  BY <1>1, StoreFacts
<1>5. /\ s.step = "ix_write" /\ s.op = st[c].op /\ s.snap = st[c].snap
      /\ s.seen = index[s.snap.user]
  BY <1>2 DEF StoreCalls
<1> HIDE DEF s
<1>6. CurrentCopies(s, ops, index) /\ FreePointer(flow[c], s, idem)
  BY <1>1, <1>3, <1>4, <1>5 DEF CurrentCopies, FreePointer
<1>7. FittingChange(flow[c], s, ops)
  BY <1>1, <1>4, <1>5, FittingKept DEF Pending
<1>8. SerialCall(flow[c], s, ops, idem, index)
  BY <1>4, <1>6, <1>7 DEF SerialCall
<1>. QED BY <1>1, <1>4, <1>5, <1>8, SerialMethod

LEMMA SerialKvRejects ==
    ASSUME ImportInv, SerialInv, ServiceUnchanged, NEW c \in Calls, KvRejects(c)
    PROVE  SerialInv'
<1> DEFINE s == [Quiet EXCEPT !.step = "threw"]
<1>1. /\ StoreUnchanged /\ st[c].step \notin {"idle", "ok", "threw"} /\ MethodAt(c, s)
  BY DEF KvRejects, StoreUnchanged, MethodAt, ServiceUnchanged, Set
<1>2. /\ Active(flow[c]) /\ CurrentViews(flow[c], ops) /\ flow[c].pc # "poll"
      /\ FittingChange(flow[c], st[c], ops)
  BY <1>1, StoreFacts
<1>3. s.step = "threw"
  BY DEF Quiet
<1> HIDE DEF s
<1>4. CurrentCopies(s, ops, index) /\ FreePointer(flow[c], s, idem)
  BY <1>3 DEF CurrentCopies, FreePointer
<1>5. FittingChange(flow[c], s, ops)
  BY <1>1, <1>2, <1>3, FittingKept
<1>6. SerialCall(flow[c], s, ops, idem, index)
  BY <1>2, <1>4, <1>5 DEF SerialCall
<1>. QED BY <1>1, <1>2, <1>3, <1>6, SerialMethod

(* An operation that c is not at stays looked after. *)
LEMMA OthersLookedAfter ==
    ASSUME ImportInv, SerialInv, UNCHANGED flow, NEW c \in Calls, Active(flow[c]),
           NEW p \in Ops, p # flow[c].op, ops'[p] = ops[p], LookedAfter(p),
           idem[ops[p].user][ops[p].key] = p => idem'[ops[p].user][ops[p].key] = p,
           \/ Len(index[ops[p].user]) = MaxIndex
           \/ \E i \in 1 .. Len(index[ops[p].user]) : index[ops[p].user][i] = p
           => \/ Len(index'[ops[p].user]) = MaxIndex
              \/ \E i \in 1 .. Len(index'[ops[p].user]) : index'[ops[p].user][i] = p
    PROVE  LookedAfter(p)'
<1>1. flow' = flow
  OBVIOUS
<1>2. \A d \in Calls : ~Creating(d, p)
  <2>1. ASSUME NEW d \in Calls, Creating(d, p) PROVE FALSE
    <3>1. Active(flow[d]) /\ flow[d].op = p
      BY <2>1 DEF Creating, Active
    <3>. QED BY <3>1 DEF SerialInv
  <2>. QED BY <2>1
<1>3. /\ \/ ops[p].status \in Settled
         \/ \E d \in Calls : flow[d].pc \in BusyPcs /\ flow[d].op = p
      /\ idem[ops[p].user][ops[p].key] = p
      /\ \/ Len(index[ops[p].user]) = MaxIndex
         \/ \E i \in 1 .. Len(index[ops[p].user]) : index[ops[p].user][i] = p
  BY <1>2 DEF LookedAfter
<1>. QED BY <1>1, <1>3 DEF LookedAfter

LEMMA SerialPutNew ==
    ASSUME ImportInv, SerialInv, ServiceUnchanged, NEW c \in Calls, PutNew(c)
    PROVE  SerialInv'
<1> DEFINE o == st[c].op
           rec == st[c].snap
           s == [st[c] EXCEPT !.step = "put_pointer"]
<1>1. /\ st[c].step = "put" /\ ops' = [ops EXCEPT ![o] = rec] /\ MethodAt(c, s)
      /\ UNCHANGED <<idem, index>> /\ UNCHANGED flow
  BY DEF PutNew, MethodAt, ServiceUnchanged, Set
<1>2. /\ o \in Ops /\ ops[o] = None /\ rec \in Operations /\ rec # None
      /\ st[c] \in StoreCalls
  BY <1>1, CallOf DEF SoundMethod, StoreCalls
<1>3. s.step = "put_pointer" /\ s.op = o /\ s.snap = rec
  BY <1>2 DEF StoreCalls
<1> HIDE DEF s
<1>4. ops'[o] = rec /\ \A p \in Ops \ {o} : ops'[p] = ops[p]
  BY <1>1, <1>2, InvFacts
<1>5. flow[c].pc = "created"
  BY <1>1, CallOf, StepOrder
<1>6. /\ Active(flow[c]) /\ CurrentViews(flow[c], ops)
      /\ FreePointer(flow[c], st[c], idem) /\ FittingChange(flow[c], st[c], ops)
  BY <1>1, StoreFacts
<1>7. flow[c].op = o
  BY <1>1, <1>5, MethodUnderWay
<1>8. rec.status = "received" /\ idem[rec.user][rec.key] = None
  BY <1>1, <1>6 DEF FreePointer
<1>9. /\ "received" \notin Terminal \cup {"failed", "compile_failed"}
      /\ "created" \notin OwnPcs \cup RequestPcs \cup FailurePcs
      /\ "created" \in BusyPcs
  BY DEF Terminal, OwnPcs, RequestPcs, FailurePcs, BusyPcs, LivePcs
<1>10. SerialCall(flow[c], s, ops', idem', index')
  <2>1. CurrentCopies(s, ops', index')
    BY <1>3, <1>4 DEF CurrentCopies
  <2>2. CurrentViews(flow[c], ops')
    <3>1. ASSUME NEW p \in Ops, flow[c].views[p] # None
          PROVE  ops'[p] = flow[c].views[p] /\ Pollable(flow[c].views[p])
      <4>1. ops[p] = flow[c].views[p] /\ Pollable(flow[c].views[p])
        BY <1>6, <3>1 DEF CurrentViews
      <4>2. p # o
        BY <1>2, <3>1, <4>1
      <4>. QED BY <1>4, <4>1, <4>2
    <3>. QED BY <1>5, <1>6, <1>9, <3>1 DEF CurrentViews
  <2>3. FreePointer(flow[c], s, idem')
    BY <1>1, <1>3, <1>5, <1>8 DEF FreePointer
  <2>4. FittingChange(flow[c], s, ops')
    BY <1>3, <1>4, <1>5, <1>7, <1>8, <1>9 DEF FittingChange, Pending
  <2>. QED BY <2>1, <2>2, <2>3, <2>4 DEF SerialCall
<1>11. /\ \A d, e \in Calls : Active(flow'[d]) /\ Active(flow'[e]) => d = e
       /\ \A d \in Calls : /\ flow'[d].pc = "done" \/ flow'[d].out = "none"
                           /\ Active(flow'[d]) =>
                                SerialCall(flow'[d], st'[d], ops', idem', index')
       /\ Undisturbed' <=> Undisturbed
       /\ st'[c] = s
  BY <1>1, <1>6, <1>10, SerialCallsKept
<1>12. FailureExplained'
  BY <1>4, <1>8, <1>9 DEF SerialInv, FailureExplained
<1>13. ASSUME Undisturbed, NEW p \in Ops, ops'[p] # None PROVE LookedAfter(p)'
  <2>1. CASE p = o
    <3>1. Creating(c, p)' /\ flow'[c].pc \in BusyPcs /\ flow'[c].op = p
      BY <1>1, <1>5, <1>7, <1>9, <2>1 DEF Creating
    <3>2. ops'[p] = rec /\ idem'[ops'[p].user][ops'[p].key] = None
      BY <1>1, <1>4, <1>8, <2>1
    <3>3. \E d \in Calls : flow'[d].pc \in BusyPcs /\ flow'[d].op = p
      BY <3>1
    <3>4. \E d \in Calls : Creating(d, p)' /\ st'[d].step = "put_pointer"
      BY <1>3, <1>11, <3>1
    <3>. QED BY <3>2, <3>3, <3>4 DEF LookedAfter
  <2>2. CASE p # o
    <3>1. ops'[p] = ops[p] /\ LookedAfter(p)
      BY <1>4, <1>13, <2>2 DEF SerialInv
    <3>. QED BY <1>1, <1>6, <1>7, <2>2, <3>1, OthersLookedAfter
  <2>. QED BY <2>1, <2>2
<1>. QED BY <1>11, <1>12, <1>13 DEF SerialInv

LEMMA SerialPutPointer ==
    ASSUME ImportInv, SerialInv, ServiceUnchanged, NEW c \in Calls, PutPointer(c)
    PROVE  SerialInv'
<1> DEFINE o == st[c].op
           u == st[c].snap.user
           k == st[c].snap.key
           s == [st[c] EXCEPT !.step = "ix_read"]
<1>1. /\ st[c].step = "put_pointer" /\ idem' = [idem EXCEPT ![u][k] = o] /\ MethodAt(c, s)
      /\ UNCHANGED <<ops, index>> /\ UNCHANGED flow
  BY DEF PutPointer, MethodAt, ServiceUnchanged, Set
<1>2. /\ st[c] \in StoreCalls /\ Held(st[c].snap, o, ops, capsules)
  BY <1>1, CallOf DEF SoundMethod
<1>3. /\ o \in Ops /\ u \in Users /\ k \in Keys /\ ops[o] # None
      /\ ops[o].user = u /\ ops[o].key = k
  BY <1>2 DEF Held, StoreCalls, Operations
<1>4. s.step = "ix_read" /\ s.op = o /\ s.snap = st[c].snap
  BY <1>2 DEF StoreCalls
<1>5. flow[c].pc = "created"
  BY <1>1, CallOf, StepOrder
<1>6. /\ Active(flow[c]) /\ CurrentViews(flow[c], ops) /\ flow[c].pc # "poll"
      /\ CurrentCopies(st[c], ops, index)
      /\ FreePointer(flow[c], st[c], idem) /\ FittingChange(flow[c], st[c], ops)
  BY <1>1, StoreFacts
<1>7. flow[c].op = o
  BY <1>1, <1>5, MethodUnderWay
<1>8. idem[u][k] = None
  BY <1>1, <1>6 DEF FreePointer
<1> HIDE DEF s
<1>9. SerialCall(flow[c], s, ops', idem', index')
  <2>1. CurrentCopies(s, ops, index) /\ FreePointer(flow[c], s, idem')
    BY <1>1, <1>4, <1>5, <1>6 DEF CurrentCopies, FreePointer
  <2>2. FittingChange(flow[c], s, ops)
    BY <1>1, <1>4, <1>6, FittingKept DEF Pending
  <2>. QED BY <1>1, <1>6, <2>1, <2>2 DEF SerialCall
<1>10. /\ \A d, e \in Calls : Active(flow'[d]) /\ Active(flow'[e]) => d = e
       /\ \A d \in Calls : /\ flow'[d].pc = "done" \/ flow'[d].out = "none"
                           /\ Active(flow'[d]) =>
                                SerialCall(flow'[d], st'[d], ops', idem', index')
       /\ Undisturbed' <=> Undisturbed
       /\ st'[c] = s
  BY <1>1, <1>6, <1>9, SerialCallsKept
<1>11. FailureExplained'
  BY <1>1 DEF SerialInv, FailureExplained
<1> HIDE DEF o, u, k
<1>12. idem'[u][k] = o /\ \A v \in Users, l \in Keys : v # u \/ l # k => idem'[v][l] = idem[v][l]
  BY <1>1, <1>3, InvFacts
<1>13. ASSUME Undisturbed, NEW p \in Ops, ops[p] # None PROVE LookedAfter(p)'
  <2>1. LookedAfter(p)
    BY <1>13 DEF SerialInv
  <2>2. CASE p = o
    <3>1. Creating(c, p)' /\ flow'[c].pc \in BusyPcs /\ flow'[c].op = p
      BY <1>1, <1>5, <1>7, <2>2 DEF Creating, BusyPcs
    <3>2. \E d \in Calls : flow'[d].pc \in BusyPcs /\ flow'[d].op = p
      BY <3>1
    <3>3. \E d \in Calls : Creating(d, p)' /\ st'[d].step = "ix_read"
      BY <1>4, <1>10, <3>1
    <3>4. ops'[p] = ops[p] /\ idem'[ops[p].user][ops[p].key] = p
      BY <1>1, <1>3, <1>12, <2>2
    <3>. QED BY <3>2, <3>3, <3>4 DEF LookedAfter
  <2>3. CASE p # o
    <3>1. ops[p].user \in Users /\ ops[p].key \in Keys /\ p # None
      BY <1>13, CurrentHeld, Distinguished DEF Operations
    <3>2. idem[ops[p].user][ops[p].key] = p => idem'[ops[p].user][ops[p].key] = p
      BY <1>8, <1>12, <3>1
    <3>. QED BY <1>1, <1>6, <1>7, <2>1, <2>3, <3>2, OthersLookedAfter
  <2>. QED BY <2>2, <2>3
<1>. QED BY <1>1, <1>10, <1>11, <1>13 DEF SerialInv

LEMMA SerialWriteBack ==
    ASSUME ImportInv, SerialInv, ServiceUnchanged, NEW c \in Calls, WriteBack(c)
    PROVE  SerialInv'
<1> DEFINE o == st[c].op
           change == st[c].change
           rec == Apply(ops[o], change)
           s == [st[c] EXCEPT !.step = "ix_read", !.snap = Apply(st[c].snap, change),
                              !.change = None]
<1>1. /\ st[c].step = "write" /\ ops' = [ops EXCEPT ![o] = Apply(st[c].snap, change)]
      /\ MethodAt(c, s) /\ UNCHANGED <<idem, index>> /\ UNCHANGED flow
  BY DEF WriteBack, MethodAt, ServiceUnchanged, Set
<1>2. /\ o \in Ops /\ ops[o] \in Operations /\ ops[o] # None /\ st[c] \in StoreCalls
      /\ st[c].snap # None /\ change \in ChangeRecords
  BY <1>1, CallOf, CurrentHeld DEF SoundMethod, Held, SoundChange, StoreCalls
<1>3. /\ Active(flow[c]) /\ CurrentViews(flow[c], ops) /\ flow[c].pc # "poll"
      /\ CurrentCopies(st[c], ops, index) /\ FittingChange(flow[c], st[c], ops)
  BY <1>1, StoreFacts
<1>4. st[c].snap = ops[o]
  BY <1>1, <1>2, <1>3 DEF CurrentCopies
<1>5. s.step = "ix_read" /\ s.op = o /\ s.snap = rec
  BY <1>2, <1>4 DEF StoreCalls
<1> HIDE DEF s
<1>6. /\ flow[c].pc \in OwnPcs /\ flow[c].pc \notin {"lookup", "created"}
  BY <1>1, CallOf DEF StepsAt, OwnPcs, CheckPcs
<1>7. flow[c].op = o
  BY <1>1, <1>6, MethodUnderWay
<1>8. /\ rec \in Operations /\ rec.user = ops[o].user /\ rec.key = ops[o].key
      /\ rec.status = IF change.status = None THEN ops[o].status ELSE change.status
      /\ rec.diags = ops[o].diags \cup change.diags
  BY <1>2, ApplyFacts
<1>9. Pending(st[c]) /\ Outcome(flow[c], st[c], ops) = rec
  BY <1>1, <1>7 DEF Pending, Outcome
<1>10. ops'[o] = rec /\ \A p \in Ops \ {o} : ops'[p] = ops[p]
  BY <1>1, <1>2, <1>4, InvFacts
<1> HIDE DEF rec
<1>11. SerialCall(flow[c], s, ops', idem', index')
  <2>1. CurrentCopies(s, ops', index')
    BY <1>5, <1>10 DEF CurrentCopies
  <2>2. CurrentViews(flow[c], ops')
    <3>1. ASSUME NEW p \in Ops, flow[c].views[p] # None
          PROVE  ops'[p] = flow[c].views[p] /\ Pollable(flow[c].views[p]) /\ p # flow[c].op
      BY <1>3, <1>6, <1>7, <1>10, <3>1 DEF CurrentViews
    <3>. QED BY <1>3, <3>1 DEF CurrentViews
  <2>3. FreePointer(flow[c], s, idem')
    BY <1>5, <1>6 DEF FreePointer
  <2>4. FittingChange(flow[c], s, ops')
    <3>1. ~Pending(s) /\ Outcome(flow[c], s, ops') = rec
      BY <1>5, <1>7, <1>10 DEF Pending, Outcome
    <3>2. /\ flow[c].pc \in FailurePcs => "failure" \in rec.diags
          /\ flow[c].pc \in {"waiting", "end"} => rec.status \in Settled
          /\ flow[c].pc \in RequestPcs => Requested(flow[c])
      BY <1>1, <1>3, <1>9 DEF FittingChange
    <3>3. flow[c].pc \in OpenPcs => rec.status \notin Terminal
      BY <1>2, <1>3, <1>7, <1>8, <1>9 DEF FittingChange
    <3>. QED BY <1>3, <1>7, <1>10, <3>1, <3>2, <3>3 DEF FittingChange
  <2>. QED BY <2>1, <2>2, <2>3, <2>4 DEF SerialCall
<1>12. /\ \A d, e \in Calls : Active(flow'[d]) /\ Active(flow'[e]) => d = e
       /\ \A d \in Calls : /\ flow'[d].pc = "done" \/ flow'[d].out = "none"
                           /\ Active(flow'[d]) =>
                                SerialCall(flow'[d], st'[d], ops', idem', index')
       /\ Undisturbed' <=> Undisturbed
  BY <1>1, <1>3, <1>11, SerialCallsKept
<1>13. FailureExplained'
  <2>1. rec.status \in {"failed", "compile_failed"} => "failure" \in rec.diags
    <3>1. CASE change.status = None
      BY <1>2, <1>8, <3>1 DEF SerialInv, FailureExplained
    <3>2. CASE change.status # None
      BY <1>3, <1>7, <1>8, <1>9, <3>2 DEF FittingChange
    <3>. QED BY <3>1, <3>2
  <2>. QED BY <1>10, <2>1 DEF SerialInv, FailureExplained
<1>14. ASSUME Undisturbed, NEW p \in Ops, ops'[p] # None PROVE LookedAfter(p)'
  <2>1. CASE p = o
    <3>1. LookedAfter(p) /\ \A d \in Calls : ~Creating(d, p)
      <4>1. LookedAfter(p)
        BY <1>2, <1>14, <2>1 DEF SerialInv
      <4>2. \A d \in Calls : ~Creating(d, p)
        <5>1. ASSUME NEW d \in Calls, Creating(d, p) PROVE FALSE
          <6>1. Active(flow[d]) /\ flow[d].pc = "created"
            BY <5>1 DEF Creating, Active
          <6>. QED BY <1>3, <1>6, <6>1 DEF SerialInv
        <5>. QED BY <5>1
      <4>. QED BY <4>1, <4>2
    <3>2. /\ ops'[p] = rec /\ rec.user = ops[p].user /\ rec.key = ops[p].key
          /\ flow' = flow /\ idem' = idem /\ index' = index
      BY <1>1, <1>8, <1>10, <2>1
    <3>3. /\ idem[ops[p].user][ops[p].key] = p
          /\ \/ Len(index[ops[p].user]) = MaxIndex
             \/ \E i \in 1 .. Len(index[ops[p].user]) : index[ops[p].user][i] = p
      BY <3>1 DEF LookedAfter
    <3>4. \/ rec.status \in Settled
          \/ \E d \in Calls : flow[d].pc \in BusyPcs /\ flow[d].op = p
      <4>1. CASE change.status = None
        BY <1>8, <2>1, <3>1, <4>1 DEF LookedAfter
      <4>2. CASE change.status # None
        <5>1. flow[c].pc \in BusyPcs \/ change.status \in Settled
          BY <1>3, <1>9, <4>2 DEF FittingChange
        <5>. QED BY <1>7, <1>8, <2>1, <4>2, <5>1
      <4>. QED BY <4>1, <4>2
    <3>. QED BY <3>2, <3>3, <3>4 DEF LookedAfter
  <2>2. CASE p # o
    <3>1. ops'[p] = ops[p] /\ LookedAfter(p)
      BY <1>10, <1>14, <2>2 DEF SerialInv
    <3>. QED BY <1>1, <1>3, <1>7, <2>2, <3>1, OthersLookedAfter
  <2>. QED BY <2>1, <2>2
<1>. QED BY <1>12, <1>13, <1>14 DEF SerialInv

LEMMA SerialWriteIndex ==
    ASSUME ImportInv, SerialInv, ServiceUnchanged, NEW c \in Calls, WriteIndex(c)
    PROVE  SerialInv'
<1> DEFINE o == st[c].op
           u == st[c].snap.user
           new == Touch(st[c].seen, o)
           s == Returned(o, st[c].snap)
<1>1. /\ st[c].step = "ix_write" /\ index' = [index EXCEPT ![u] = new] /\ MethodAt(c, s)
      /\ UNCHANGED <<ops, idem>> /\ UNCHANGED flow
  BY DEF WriteIndex, MethodAt, ServiceUnchanged, Set
<1>2. /\ st[c] \in StoreCalls /\ Held(st[c].snap, o, ops, capsules)
  BY <1>1, CallOf DEF SoundMethod
<1>3. /\ o \in Ops /\ u \in Users /\ st[c].snap # None /\ ops[o] # None /\ ops[o].user = u
  BY <1>2 DEF Held, StoreCalls, Operations
<1>4. s.step = "ok" /\ s.op = o /\ s.snap = st[c].snap
  BY DEF Returned, Quiet
<1>5. /\ Active(flow[c]) /\ CurrentViews(flow[c], ops) /\ flow[c].pc # "poll"
      /\ CurrentCopies(st[c], ops, index) /\ FittingChange(flow[c], st[c], ops)
  BY <1>1, StoreFacts
<1>6. st[c].seen = index[u] /\ ops[o] = st[c].snap
  BY <1>1, <1>3, <1>5 DEF CurrentCopies
<1>7. flow[c].pc # "lookup" /\ (flow[c].pc \in OwnPcs \/ flow[c].pc = "created")
  BY <1>1, CallOf DEF StepsAt, OwnPcs, CheckPcs
<1>8. flow[c].op = o
  BY <1>1, <1>7, MethodUnderWay
<1> HIDE DEF s
<1>9. SerialCall(flow[c], s, ops', idem', index')
  <2>1. CurrentCopies(s, ops, index') /\ FreePointer(flow[c], s, idem)
    BY <1>4, <1>6, <1>7 DEF CurrentCopies, FreePointer
  <2>2. FittingChange(flow[c], s, ops)
    BY <1>1, <1>4, <1>5, FittingKept DEF Pending
  <2>. QED BY <1>1, <1>5, <2>1, <2>2 DEF SerialCall
<1>10. /\ \A d, e \in Calls : Active(flow'[d]) /\ Active(flow'[e]) => d = e
       /\ \A d \in Calls : /\ flow'[d].pc = "done" \/ flow'[d].out = "none"
                           /\ Active(flow'[d]) =>
                                SerialCall(flow'[d], st'[d], ops', idem', index')
       /\ Undisturbed' <=> Undisturbed
  BY <1>1, <1>5, <1>9, SerialCallsKept
<1>11. FailureExplained'
  BY <1>1 DEF SerialInv, FailureExplained
<1>12. index[u] \in Seq(Ops) /\ Distinct(index[u])
  BY <1>3, InvFacts DEF ImportInv, IndexSound, Distinct
<1>13. new = Touch(index[u], o)
  BY <1>6
<1> HIDE DEF o, u, new
<1>14. index'[u] = new /\ \A v \in Users : v # u => index'[v] = index[v]
  BY <1>1, <1>3, InvFacts
<1>15. /\ Len(new) \in 1 .. MaxIndex /\ new[1] = o
       /\ \/ Len(new) = MaxIndex
          \/ \A j \in 1 .. Len(index[u]) : \E i \in 1 .. Len(new) : new[i] = index[u][j]
       /\ Len(index[u]) = MaxIndex => Len(new) = MaxIndex
  <2> DEFINE ids == index[u]
  <2>1. ids \in Seq(Ops) /\ Distinct(ids)
    BY <1>12
  <2> HIDE DEF ids
  <2>2. /\ Len(Touch(ids, o)) \in 1 .. MaxIndex /\ Touch(ids, o)[1] = o
        /\ \/ Len(Touch(ids, o)) = MaxIndex
           \/ \A j \in 1 .. Len(ids) :
                \E i \in 1 .. Len(Touch(ids, o)) : Touch(ids, o)[i] = ids[j]
    BY <1>3, <2>1, TouchFacts
  <2>3. Len(ids) = MaxIndex => Len(Touch(ids, o)) = MaxIndex
    BY <1>3, <2>1, TouchFull
  <2>. QED BY <1>13, <2>2, <2>3 DEF ids
<1>16. ASSUME Undisturbed, NEW p \in Ops, ops[p] # None PROVE LookedAfter(p)'
  <2>1. LookedAfter(p)
    BY <1>16 DEF SerialInv
  <2>2. CASE p = o
    <3>1. idem[ops[p].user][ops[p].key] = p
      <4>1. \A d \in Calls : Creating(d, p) => st[d].step \notin {"put_pointer", "threw"}
        <5>1. ASSUME NEW d \in Calls, Creating(d, p) PROVE d = c
          <6>1. Active(flow[d])
            BY <5>1 DEF Creating, Active
          <6>. QED BY <1>5, <6>1 DEF SerialInv
        <5>. QED BY <1>1, <5>1
      <4>. QED BY <2>1, <4>1 DEF LookedAfter
    <3>2. \E i \in 1 .. Len(index'[u]) : index'[u][i] = p
      <4>1. 1 \in 1 .. Len(new)
        BY <1>15, StoreAssumption
      <4>. QED BY <1>14, <1>15, <2>2, <4>1
    <3>3. ops'[p] = ops[p] /\ ops[p].user = u /\ flow' = flow /\ idem' = idem
      BY <1>1, <1>3, <2>2
    <3>. QED BY <2>1, <3>1, <3>2, <3>3 DEF LookedAfter
  <2>3. CASE p # o
    <3>1. ops[p].user \in Users
      BY <1>16, CurrentHeld DEF Operations
    <3> DEFINE v == ops[p].user
    <3>2. \/ Len(index[v]) = MaxIndex
          \/ \E i \in 1 .. Len(index[v]) : index[v][i] = p
          => \/ Len(index'[v]) = MaxIndex
             \/ \E i \in 1 .. Len(index'[v]) : index'[v][i] = p
      <4>1. CASE v # u
        BY <1>14, <3>1, <4>1
      <4>2. CASE v = u
        BY <1>14, <1>15, <4>2
      <4>. QED BY <4>1, <4>2
    <3>. QED BY <1>1, <1>5, <1>8, <2>1, <2>3, <3>2, OthersLookedAfter
  <2>. QED BY <2>2, <2>3
<1>. QED BY <1>1, <1>10, <1>11, <1>16 DEF SerialInv

LEMMA SerialStoreStep ==
    ASSUME ImportInv, SerialInv, ServiceUnchanged, NEW c \in Calls, StoreStep(c)
    PROVE  SerialInv'
BY SerialLookupPointer, SerialFetch, SerialFetchList, SerialPutNew, SerialPutPointer,
   SerialReadForUpdate, SerialWriteBack, SerialReadIndex, SerialWriteIndex, SerialKvRejects
   DEF StoreStep

-----------------------------------------------------------------------------
(* One call at a time: the initial states and the steps together *)

LEMMA SerialInit == ASSUME Init PROVE SerialInv
<1>1. ImportInv
  BY ImportInitInv
<1>2. \A c \in Calls : flow[c].pc = "idle" /\ flow[c].out = "none"
  BY DEF Init, Dormant
<1>3. WellFormed(ops)
  BY ImportAssumption DEF Init
<1>4. \A o \in Ops : ops[o] # None =>
        ops[o].status \in Settled /\ ops[o].status \notin {"failed", "compile_failed"}
  BY <1>3 DEF WellFormed, Settled, Terminal
<1>5. ASSUME NEW o \in Ops, ops[o] # None PROVE LookedAfter(o)
  <2> DEFINE u == ops[o].user
             k == ops[o].key
             mine == {p \in OpsOf(u) : ops[p].key = k}
  <2>1. u \in Users /\ k \in Keys
    BY <1>1, <1>5, CurrentHeld DEF Operations
  <2>2. IF mine = {} THEN idem[u][k] = None ELSE idem[u][k] \in mine
    BY <2>1 DEF Init
  <2>3. o \in mine
    BY <1>5 DEF OpsOf
  <2>4. \A p \in mine : p = o
    BY <1>3, <1>5 DEF WellFormed, OpsOf
  <2>5. idem[u][k] = o
    BY <2>2, <2>3, <2>4
  <2>6. IndexOf(u, index[u])
    BY <2>1 DEF Init
  <2>7. \/ Len(index[u]) = MaxIndex
        \/ \E i \in 1 .. Len(index[u]) : index[u][i] = o
    BY <1>5, <2>6 DEF IndexOf, OpsOf
  <2>. QED BY <1>4, <1>5, <2>5, <2>7 DEF LookedAfter
<1>. QED BY <1>2, <1>4, <1>5 DEF SerialInv, FailureExplained, Active

LEMMA SerialNext ==
    ASSUME ~Overlapping, ImportInv, SerialInv, [Next]_vars PROVE SerialInv'
<1>1. CASE UNCHANGED vars
  <2>1. UNCHANGED <<ops, idem, index, st, flow>>
    BY <1>1 DEF vars
  <2>. QED BY <2>1 DEF SerialInv, FailureExplained, Undisturbed, LookedAfter, Creating
<1>2. ASSUME NEW c \in Calls, Arrive(c) PROVE SerialInv'
  BY <1>2, SerialSubmitPackage, SerialSubmitById, SerialSubmitList DEF Arrive
<1>3. ASSUME NEW c \in Calls, Step(c) PROVE SerialInv'
  <2>1. CASE StoreStep(c) /\ UNCHANGED <<flow, capsules, jobs>>
    BY <2>1, SerialStoreStep DEF ServiceUnchanged
  <2>2. CASE \/ Lookup(c) \/ Prepare(c) \/ CreateEmptyCapsule(c) \/ FilesUploaded(c)
             \/ ImportArchive(c) \/ IngestFails(c) \/ Reread(c) \/ NotFound(c)
    BY <2>2, SerialLookup, SerialPrepare, SerialCreateEmptyCapsule, SerialFilesUploaded,
       SerialImportArchive, SerialIngestFails, SerialReread, SerialNotFound
  <2>3. CASE \/ CompileDraft(c) \/ StartPublish(c) \/ UpstreamPublishes(c)
             \/ PublishFails(c) \/ PolishLaunch(c) \/ CancelImport(c)
    BY <2>3, SerialCompileDraft, SerialStartPublish, SerialUpstreamPublishes,
       SerialPublishFails, SerialPolishLaunch, SerialCancelImport
  <2>4. CASE \/ Refresh(c) \/ SnapshotList(c) \/ SweepNext(c) \/ PollJob(c)
             \/ Refreshed(c) \/ End(c) \/ Reject(c)
    BY <2>4, SerialRefresh, SerialSnapshotList, SerialSweepNext, SerialPollJob,
       SerialRefreshed, SerialEnd, SerialReject
  <2>. QED BY <1>3, <2>1, <2>2, <2>3, <2>4 DEF Step
<1>4. ASSUME NEW c \in Calls, Evict(c) PROVE SerialInv'
  BY <1>4, SerialEvict
<1>5. ASSUME NEW j \in Jobs, JobProgress(j) PROVE SerialInv'
  BY <1>5, SerialJobProgress
<1>. QED BY <1>1, <1>2, <1>3, <1>4, <1>5 DEF Next

-----------------------------------------------------------------------------
(* The theorems *)

(* ImportInv holds at every step of every interleaving of calls, faults,   *)
(* evictions and upstream answers: each call holds copies of operations    *)
(* that exist, of its own user where it is about to write.                 *)
THEOREM ImportInvariant == Spec => []ImportInv
<1>1. Init => ImportInv
  BY ImportInitInv
<1>2. ImportInv /\ [Next]_vars => ImportInv'
  BY ImportNextInv
<1>. QED BY <1>1, <1>2, PTL DEF Spec

(* Every variable of the store and of the service keeps its type. *)
THEOREM ImportTypes == Spec => []TypeOK
<1>1. ImportInv => TypeOK
  BY DEF ImportInv
<1>. QED BY <1>1, ImportInvariant, PTL

(* No record says "published" of a draft that is not live, although calls  *)
(* write stale copies of whole records back.                               *)
THEOREM NeverFalselyPublished == Spec => []PublishedIsLive
<1>1. ImportInv => PublishedIsLive
  BY DEF ImportInv, PublishedIsLive, LiveIfPublished
<1>. QED BY <1>1, ImportInvariant, PTL

(* An idempotency pointer leads to an operation of that user and key. *)
THEOREM PointersLead == Spec => []PointersSound
<1>1. ImportInv => PointersSound
  BY DEF ImportInv
<1>. QED BY <1>1, ImportInvariant, PTL

(* A user's index stays within its limit, free of repetitions and of       *)
(* other users' operations, for every limit and list.                      *)
THEOREM IndexesSound == Spec => []IndexSound
<1>1. ImportInv => IndexSound
  BY DEF ImportInv
<1>. QED BY <1>1, ImportInvariant, PTL

(* An operation is never deleted, and keeps its user and key. *)
THEOREM OwnersFixed == Spec => OwnerFixed
<1>1. ImportInv /\ [Next]_vars =>
        [\A o \in Ops : ops[o] # None =>
           /\ ops'[o] # None
           /\ ops'[o].user = ops[o].user /\ ops'[o].key = ops[o].key]_storeVars
  BY RecordChange
<1>. QED BY <1>1, ImportInvariant, PTL DEF Spec, OwnerFixed

(* A record changes only under a call of its owner that is writing it. *)
THEOREM OwnersOnly == Spec => OwnOperationsOnly
<1>1. ImportInv /\ [Next]_vars =>
        [\A o \in Ops : ops[o] # None /\ ops'[o] # ops[o] =>
           \E c \in Calls : /\ flow[c].op = o
                            /\ flow[c].user = ops[o].user
                            /\ st[c].step = "write"]_vars
  BY RecordChange
<1>. QED BY <1>1, ImportInvariant, PTL DEF Spec, OwnOperationsOnly

(* When no call overlaps another, SerialInv holds at every step of every   *)
(* call, with every store fault, eviction and upstream answer: copies are  *)
(* current, the pointer is free where an operation is created, and each    *)
(* operation is settled, found and listed or in the hands of a call.       *)
THEOREM SerialInvariant == ASSUME ~Overlapping PROVE Spec => []SerialInv
<1>1. Init => SerialInv
  BY SerialInit
<1>2. ImportInv /\ SerialInv /\ [Next]_vars => SerialInv'
  BY SerialNext
<1>. QED BY <1>1, <1>2, ImportInvariant, PTL DEF Spec

(* A failed operation carries a diagnostic of a failure, whichever of the  *)
(* failure paths set its status and whatever the store rejected.           *)
THEOREM FailuresExplained == ASSUME ~Overlapping PROVE Spec => []FailureExplained
<1>1. SerialInv => FailureExplained
  BY DEF SerialInv
<1>. QED BY <1>1, SerialInvariant, PTL

(* Once every call is answered and none was cut short, no operation waits  *)
(* for a call to move it on.                                               *)
THEOREM QuietlySettled == ASSUME ~Overlapping PROVE Spec => []QuietMeansSettled
<1>1. SerialInv => QuietMeansSettled
  <2> SUFFICES ASSUME SerialInv, Quiescent, Undisturbed, NEW o \in Ops, ops[o] # None
               PROVE  ops[o].status \in Terminal \cup {"waiting_on_import_job"}
    BY DEF QuietMeansSettled
  <2>1. \A c \in Calls : flow[c].pc \notin BusyPcs
    BY DEF Quiescent, BusyPcs, LivePcs
  <2>2. LookedAfter(o)
    BY DEF SerialInv
  <2>. QED BY <2>1, <2>2 DEF LookedAfter, Settled
<1>. QED BY <1>1, SerialInvariant, PTL

(* Repeated submissions of a key, one after the other, leave one operation *)
(* under it.                                                               *)
THEOREM OnePerKey == ASSUME ~Overlapping PROVE Spec => []OperationPerKey
<1>1. SerialInv => OperationPerKey
  <2> SUFFICES ASSUME SerialInv, Undisturbed, NEW o \in Ops, NEW p \in Ops,
                      ops[o] # None, ops[p] # None,
                      ops[o].user = ops[p].user, ops[o].key = ops[p].key
               PROVE  o = p
    BY DEF OperationPerKey
  <2> DEFINE pointer == idem[ops[o].user][ops[o].key]
  <2>1. /\ pointer = o \/ (pointer = None /\ \E c \in Calls : Creating(c, o))
        /\ pointer = p \/ (pointer = None /\ \E c \in Calls : Creating(c, p))
    BY DEF SerialInv, LookedAfter
  <2>2. o # None /\ p # None
    BY Distinguished
  <2>3. \A c, d \in Calls : Creating(c, o) /\ Creating(d, p) => o = p
    BY DEF SerialInv, Creating, Active
  <2>. QED BY <2>1, <2>2, <2>3
<1>. QED BY <1>1, SerialInvariant, PTL

(* Once every call is answered and none was cut short, every operation is  *)
(* in its user's list, or the list is full.                                *)
THEOREM EveryOneListed == ASSUME ~Overlapping PROVE Spec => []Listed
<1>1. SerialInv => Listed
  <2> SUFFICES ASSUME SerialInv, Quiescent, Undisturbed, NEW o \in Ops, ops[o] # None
               PROVE  \/ Len(index[ops[o].user]) = MaxIndex
                      \/ \E i \in 1 .. Len(index[ops[o].user]) : index[ops[o].user][i] = o
    BY DEF Listed
  <2>1. \A c \in Calls : ~Creating(c, o)
    BY DEF Quiescent, Creating
  <2>2. LookedAfter(o)
    BY DEF SerialInv
  <2>. QED BY <2>1, <2>2 DEF LookedAfter
<1>. QED BY <1>1, SerialInvariant, PTL

(* A step that takes an operation out of a terminal status is the write of *)
(* a compile, publish or cancel that was asked for.                        *)
THEOREM SettledUntilRequested == ASSUME ~Overlapping PROVE Spec => SettledOnlyByRequest
<1>1. ImportInv /\ SerialInv /\ [Next]_vars =>
        [\A o \in Ops :
           ops[o] # None /\ ops[o].status \in Terminal /\ ops'[o].status # ops[o].status
           => \E c \in Calls :
                /\ flow[c].op = o
                /\ \/ flow[c].kind \in {"compile", "publish", "cancel"}
                   \/ flow[c].phase \in {"compile", "publish"}]_vars
  <2> SUFFICES ASSUME ImportInv, SerialInv, [Next]_vars, NEW o \in Ops, ops[o] # None,
                      ops[o].status \in Terminal, ops'[o].status # ops[o].status
               PROVE  \E c \in Calls : flow[c].op = o /\ Requested(flow[c])
    BY DEF Requested
  <2>1. PICK c \in Calls : flow[c].op = o /\ st[c].step = "write"
    BY RecordChange
  <2>2. FittingChange(flow[c], st[c], ops)
    BY <2>1, StoreFacts
  <2>3. Requested(flow[c])
    BY <2>1, <2>2 DEF FittingChange, Pending
  <2>. QED BY <2>1, <2>3
<1>. QED BY <1>1, ImportInvariant, SerialInvariant, PTL DEF Spec, SettledOnlyByRequest

=============
