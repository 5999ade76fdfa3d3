-------------------------- MODULE ImportOperations --------------------------
(***************************************************************************)
(* The import service: what start_creation_import, quick_publish_creation, *)
(* compile, publish, cancel, get, list and watch do to an operation.       *)
(*                                                                         *)
(* A call is a chain of store methods (OperationKv) and upstream calls.    *)
(* flow[c].pc names the method call c has made or the upstream answer it   *)
(* awaits; when the method has returned (or thrown) the code up to the     *)
(* next await is one action.  The read that updateStatusObserved makes     *)
(* before every update feeds telemetry alone and is left out.              *)
(***************************************************************************)
EXTENDS OperationKv

CONSTANTS
    Kinds,        \* calls that clients make in this instance
    MaxPolls,     \* polls of a watch before its time-out (wall clock in the code)
    Overlapping,  \* FALSE: a client waits for one call before it makes another
    Seeds         \* operations earlier calls may have left, functions on Ops

(* What a call is in the middle of. *)
Phases == {"import", "watch", "compile", "publish"}

AllKinds == {"start", "quick", "compile", "publish", "cancel", "get", "list", "watch"}

(* One operation per pointer, with the draft or the job its status implies. *)
WellFormed(seed) ==
    /\ seed \in [Ops -> Operations \cup {None}]
    /\ \A o, p \in Ops :
         /\ seed[o] # None /\ seed[p] # None /\ seed[o].user = seed[p].user
         /\ seed[o].key = seed[p].key
         => o = p
    /\ \A o \in Ops : seed[o] # None =>
         \/ seed[o].status = "draft_ready" /\ seed[o].capsule # None
         \/ seed[o].status = "waiting_on_import_job" /\ seed[o].job # None

ASSUME ImportAssumption ==
    /\ Kinds \subseteq AllKinds
    /\ None \notin AllKinds \cup Phases
    /\ MaxPolls \in Nat \ {0}
    /\ Overlapping \in BOOLEAN
    /\ \A seed \in Seeds : WellFormed(seed)

VARIABLES
    flow,     \* flow[c]: control point and locals of call c
    capsules, \* upstream drafts: unborn, draft or live
    jobs      \* upstream import jobs and the draft each has produced

vars == <<ops, idem, index, st, flow, capsules, jobs>>

-----------------------------------------------------------------------------

Terminal == {"draft_ready", "compile_failed", "published", "failed", "canceled"}

ControlPoints ==
    {"idle", "done", "lookup", "created", "validating", "normalized",
     "ingesting", "uploading", "waiting", "reread", "ingest_failed",
     "compile_check", "compile_running", "compile_failed",
     "publish_check", "publish_running", "thumbnail", "metadata",
     "metadata_failed", "published_diag", "publish_failed", "cancel_check",
     "listed", "sweep", "watch_check", "refresh_check", "poll", "job_failed",
     "job_canceled", "poll_error", "refreshed", "end"}

Outcomes == {"none", "ok", "not_found", "threw", "timed_out", "evicted"}

NoViews == [o \in Ops |-> None]

Dormant ==
    [pc |-> "idle", kind |-> None, phase |-> None, user |-> None, key |-> None,
     op |-> None, capsule |-> None, polls |-> 0, views |-> NoViews,
     out |-> "none"]

Flows ==
    [pc: ControlPoints, kind: AllKinds \cup {None},
     phase: Phases \cup {None},
     user: Users \cup {None}, key: Keys \cup {None}, op: Ops \cup {None},
     capsule: Capsules \cup {None}, polls: 0 .. MaxPolls,
     views: [Ops -> Operations \cup {None}], out: Outcomes]

TypeOK ==
    /\ StoreTypeOK
    /\ flow \in [Calls -> Flows]
    /\ capsules \in [Capsules -> {"unborn", "draft", "live"}]
    /\ jobs \in [Jobs -> [state: {"unborn", "running", "completed", "failed", "canceled"},
                          capsule: Capsules \cup {None}]]

OpsOf(u) == {o \in Ops : ops[o] # None /\ ops[o].user = u}

(* ids lists u's operations, each once; all of them if there is room. *)
IndexOf(u, ids) ==
    /\ \A i \in 1 .. Len(ids) : ids[i] \in OpsOf(u)
    /\ \A i, j \in 1 .. Len(ids) : ids[i] = ids[j] => i = j
    /\ Len(ids) = MaxIndex \/ \A o \in OpsOf(u) : \E i \in 1 .. Len(ids) : ids[i] = o

Init ==
    /\ ops \in Seeds
    /\ \E ids \in [Users -> UNION {[1 .. n -> Ops] : n \in 0 .. MaxIndex}] :
         /\ \A u \in Users : IndexOf(u, ids[u])
         /\ index = ids
    /\ idem \in [Users -> [Keys -> Ops \cup {None}]]
    /\ \A u \in Users, k \in Keys :
         LET mine == {o \in OpsOf(u) : ops[o].key = k}
         IN  IF mine = {} THEN idem[u][k] = None ELSE idem[u][k] \in mine
    /\ st = [c \in Calls |-> Quiet]
    /\ flow = [c \in Calls |-> Dormant]
    /\ capsules = [x \in Capsules |->
                     IF \E o \in Ops : ops[o] # None /\ ops[o].capsule = x
                     THEN "draft" ELSE "unborn"]
    /\ jobs = [j \in Jobs |->
                 [state |-> IF \E o \in Ops : ops[o] # None /\ ops[o].job = j
                            THEN "running" ELSE "unborn",
                  capsule |-> None]]

-----------------------------------------------------------------------------
(* Building blocks *)

NoChange == [status |-> None, capsule |-> None, job |-> None, diags |-> {}]

Status(s)         == [NoChange EXCEPT !.status = s]
StatusWith(s, x)  == [NoChange EXCEPT !.status = s, !.capsule = x]
Diagnostic(codes) == [NoChange EXCEPT !.diags = codes]

(* c has its answer from the store and is at pc. *)
Ready(c, pc) == flow[c].pc = pc /\ st[c].step = "ok"

(* c calls a store method and goes to pc. *)
Then(c, pc, method) == flow' = [flow EXCEPT ![c].pc = pc] /\ Set(c, method)

(* c updates its operation. *)
Write(c, pc, change) == Then(c, pc, Update(flow[c].op, change))

(* c goes on with operation o under a new control point. *)
Enter(c, phase, pc, o, x) ==
    /\ flow' = [flow EXCEPT ![c] = [@ EXCEPT !.phase = phase, !.pc = pc, !.op = o,
                                             !.capsule = x, !.polls = 0]]
    /\ Set(c, GetById(o))

(* The call ends; only how it ended is kept. *)
Finish(c, out) ==
    /\ flow' = [flow EXCEPT ![c] = [Dormant EXCEPT !.pc = "done", !.out = out]]
    /\ Set(c, Quiet)

MutantOwns(c, rec) == rec # None
Owns(c, rec) == rec # None /\ rec.user = flow[c].user

Targets(c) ==
    IF flow[c].kind = "watch" THEN Terminal ELSE {"draft_ready", "failed", "canceled"}

(* quick_publish_creation: the draft of rec is compiled, unless the client *)
(* asked to skip that, and published.                                      *)
Launch(c, o, rec) ==
    IF rec.capsule = None
    THEN Finish(c, "ok")
    ELSE \/ Enter(c, "compile", "compile_check", o, rec.capsule)
         \/ Enter(c, "publish", "publish_check", o, rec.capsule)

(* A method of the service returns rec, the record of operation o. *)
Return(c, o, rec) ==
    CASE flow[c].kind = "quick" /\ flow[c].phase = "import" ->
           IF rec.status \in {"failed", "canceled"} THEN Finish(c, "ok")
           ELSE IF rec.status = "draft_ready" THEN Launch(c, o, rec)
           ELSE Enter(c, "watch", "watch_check", o, None)
      [] flow[c].kind = "quick" /\ flow[c].phase = "compile" ->
           IF rec.status \in {"compile_failed", "failed"} THEN Finish(c, "ok")
           ELSE Enter(c, "publish", "publish_check", o, flow[c].capsule)
      [] OTHER -> Finish(c, "ok")

(* A poll of the operation's job is over. *)
MutantAfterRefresh(c, rec) ==
    CASE flow[c].kind = "list" -> Then(c, "sweep", st[c])
      [] flow[c].kind = "get"  -> Finish(c, "ok")
      [] OTHER ->
           IF rec.status \in Targets(c)
           THEN Finish(c, "ok")
           ELSE Then(c, "refresh_check", GetById(flow[c].op))
AfterRefresh(c, rec) ==
    CASE flow[c].kind = "list" -> Then(c, "sweep", st[c])
      [] flow[c].kind = "get"  -> Finish(c, "ok")
      [] OTHER ->
           IF rec.status \in Targets(c)
           THEN IF flow[c].kind = "quick" /\ rec.status = "draft_ready"
                THEN Launch(c, flow[c].op, rec)
                ELSE Finish(c, "ok")
           ELSE \/ Finish(c, "timed_out")
                \/ /\ flow[c].polls < MaxPolls
                   /\ flow' = [flow EXCEPT ![c] = [@ EXCEPT !.pc = "refresh_check",
                                                            !.polls = flow[c].polls + 1]]
                   /\ Set(c, GetById(flow[c].op))

-----------------------------------------------------------------------------
(* Calls arrive *)

Idle(c) == flow[c].pc = "idle"

MayArrive(c) ==
    /\ Idle(c)
    /\ Overlapping \/ \A d \in Calls : flow[d].pc \in {"idle", "done"}

(* start_creation_import and quick_publish_creation. *)
SubmitPackage(c) ==
    /\ MayArrive(c)
    /\ \E kind \in Kinds \cap {"start", "quick"}, u \in Users, k \in Keys :
         /\ flow' = [flow EXCEPT ![c] = [Dormant EXCEPT !.pc = "lookup", !.kind = kind,
                        !.phase = "import", !.user = u, !.key = k]]
         /\ Set(c, GetByIdempotency(u, k))
    /\ UNCHANGED <<ops, idem, index, capsules, jobs>>

FirstStep ==
    [compile |-> "compile_check", publish |-> "publish_check",
     cancel |-> "cancel_check", get |-> "refresh_check", watch |-> "watch_check"]

(* A call about an operation.  Ids are not secret: u need not own o. *)
SubmitById(c) ==
    /\ MayArrive(c)
    /\ \E kind \in Kinds \cap DOMAIN FirstStep, u \in Users, o \in Ops :
         /\ ops[o] # None
         /\ \E x \in IF kind \in {"compile", "publish"}
                      THEN {x \in Capsules : capsules[x] # "unborn"} ELSE {None} :
              flow' = [flow EXCEPT ![c] = [Dormant EXCEPT !.pc = FirstStep[kind],
                         !.kind = kind, !.user = u, !.op = o, !.capsule = x]]
         /\ Set(c, GetById(o))
    /\ UNCHANGED <<ops, idem, index, capsules, jobs>>

SubmitList(c) ==
    /\ MayArrive(c)
    /\ "list" \in Kinds
    /\ \E u \in Users :
         /\ flow' = [flow EXCEPT ![c] = [Dormant EXCEPT !.pc = "listed",
                        !.kind = "list", !.user = u]]
         /\ Set(c, ListByUser(u))
    /\ UNCHANGED <<ops, idem, index, capsules, jobs>>

-----------------------------------------------------------------------------
(* Importing a package: startImport *)

Lookup(c) ==
    /\ Ready(c, "lookup")
    /\ IF st[c].snap # None
       THEN Return(c, st[c].op, st[c].snap)
       ELSE \E o \in Ops :
              /\ Fresh(o)
              /\ flow' = [flow EXCEPT ![c] = [@ EXCEPT !.pc = "created", !.op = o]]
              /\ Set(c, Create(o, NewOperation(flow[c].user, flow[c].key)))
    /\ UNCHANGED <<ops, idem, index, capsules, jobs>>

(* Three status updates before the first upstream call. *)
Prepare(c) ==
    /\ \/ Ready(c, "created")    /\ Write(c, "validating", Status("validating"))
       \/ Ready(c, "validating") /\ Write(c, "normalized", Status("normalized"))
       \/ Ready(c, "normalized") /\ Write(c, "ingesting", Status("ingesting"))
    /\ UNCHANGED <<ops, idem, index, capsules, jobs>>

(* direct_files: an empty draft, recorded before its files are uploaded. *)
CreateEmptyCapsule(c) ==
    /\ Ready(c, "ingesting")
    /\ \E x \in Capsules :
         /\ capsules[x] = "unborn"
         /\ capsules' = [capsules EXCEPT ![x] = "draft"]
         /\ flow' = [flow EXCEPT ![c] = [@ EXCEPT !.pc = "uploading", !.capsule = x]]
         /\ Set(c, Update(flow[c].op, StatusWith("ingesting", x)))
    /\ UNCHANGED <<ops, idem, index, jobs>>

FilesUploaded(c) ==
    /\ Ready(c, "uploading")
    /\ Write(c, "end", StatusWith("draft_ready", flow[c].capsule))
    /\ UNCHANGED <<ops, idem, index, capsules, jobs>>

(* zip_import and github_import: a job, a draft or both come back. *)
ImportArchive(c) ==
    /\ Ready(c, "ingesting")
    /\ \E x \in {x \in Capsules : capsules[x] = "unborn"} \cup {None} :
         /\ capsules' = [y \in Capsules |-> IF y = x THEN "draft" ELSE capsules[y]]
         /\ \/ \E j \in Jobs :
                 /\ jobs[j].state = "unborn"
                 /\ jobs' = [jobs EXCEPT ![j] = [state |-> "running", capsule |-> x]]
                 /\ Write(c, "waiting", [StatusWith("waiting_on_import_job", x)
                                           EXCEPT !.job = j])
            \/ /\ x # None
               /\ Write(c, "end", StatusWith("draft_ready", x))
               /\ UNCHANGED jobs
    /\ UNCHANGED <<ops, idem, index>>

(* The upstream call fails, or names neither a job nor a draft. *)
MutantIngestFails(c) ==
    /\ Ready(c, "ingesting") \/ Ready(c, "uploading")
    /\ Write(c, "end", Status("failed"))
    /\ UNCHANGED <<ops, idem, index, capsules, jobs>>
IngestFails(c) ==
    /\ Ready(c, "ingesting") \/ Ready(c, "uploading")
    /\ Write(c, "ingest_failed", Diagnostic({"failure"}))
    /\ UNCHANGED <<ops, idem, index, capsules, jobs>>

Reread(c) ==
    /\ Ready(c, "waiting")
    /\ Then(c, "reread", GetById(flow[c].op))
    /\ UNCHANGED <<ops, idem, index, capsules, jobs>>

-----------------------------------------------------------------------------
(* Compiling and publishing a draft *)

NotFound(c) ==
    /\ \E pc \in {"compile_check", "publish_check", "cancel_check", "watch_check",
                  "refresh_check"} : Ready(c, pc)
    /\ ~Owns(c, st[c].snap)
    /\ Finish(c, "not_found")
    /\ UNCHANGED <<ops, idem, index, capsules, jobs>>

MutantCompileDraft(c) ==
    /\ \/ /\ Ready(c, "compile_check")
          /\ Owns(c, st[c].snap)
          /\ Write(c, "compile_running", StatusWith("compile_running", flow[c].capsule))
       \/ /\ Ready(c, "compile_running")
          /\ \/ Write(c, "end", StatusWith("draft_ready", flow[c].capsule))
             \/ Write(c, "end", Diagnostic({"failure"}))
    /\ UNCHANGED <<ops, idem, index, capsules, jobs>>
CompileDraft(c) ==
    /\ \/ /\ Ready(c, "compile_check")
          /\ Owns(c, st[c].snap)
          /\ Write(c, "compile_running", StatusWith("compile_running", flow[c].capsule))
       \/ /\ Ready(c, "compile_running")
          /\ \/ Write(c, "end", StatusWith("draft_ready", flow[c].capsule))
             \/ Write(c, "compile_failed", Diagnostic({"failure"}))
    /\ UNCHANGED <<ops, idem, index, capsules, jobs>>

StartPublish(c) ==
    /\ Ready(c, "publish_check")
    /\ Owns(c, st[c].snap)
    /\ Write(c, "publish_running", StatusWith("publish_running", flow[c].capsule))
    /\ UNCHANGED <<ops, idem, index, capsules, jobs>>

(* The diagnostic a control point of publishDraft is about to add. *)
Wrote(pc) == IF pc = "published_diag" THEN Diagnostic({"published"}) ELSE NoChange

UpstreamPublishes(c) ==
    /\ Ready(c, "publish_running")
    /\ capsules' = [capsules EXCEPT ![flow[c].capsule] = "live"]
    /\ \E pc \in {"thumbnail", "metadata", "metadata_failed", "published_diag"} :
         Write(c, pc, Wrote(pc))
    /\ UNCHANGED <<ops, idem, index, jobs>>

(* The error may hide a publish that went through. *)
MutantPublishFails(c) ==
    /\ Ready(c, "publish_running")
    /\ Write(c, "published_diag", Wrote("published_diag"))
    /\ UNCHANGED <<ops, idem, index, jobs, capsules>>
PublishFails(c) ==
    /\ Ready(c, "publish_running")
    /\ \/ UNCHANGED capsules
       \/ capsules' = [capsules EXCEPT ![flow[c].capsule] = "live"]
    /\ Write(c, "publish_failed", Diagnostic({"failure"}))
    /\ UNCHANGED <<ops, idem, index, jobs>>

(* Cover image and post metadata, whose failure is only a warning. *)
PolishLaunch(c) ==
    /\ \/ /\ Ready(c, "thumbnail")
          /\ \E pc \in {"metadata", "metadata_failed"} : Write(c, pc, NoChange)
       \/ /\ Ready(c, "metadata") \/ Ready(c, "metadata_failed")
          /\ Write(c, "published_diag", Wrote("published_diag"))
       \/ /\ Ready(c, "published_diag")
          /\ Write(c, "end", StatusWith("published", flow[c].capsule))
    /\ UNCHANGED <<ops, idem, index, capsules, jobs>>

-----------------------------------------------------------------------------
(* Cancelling *)

(* Whatever the operation's status is. *)
CancelImport(c) ==
    /\ Ready(c, "cancel_check")
    /\ Owns(c, st[c].snap)
    /\ Write(c, "end", Status("canceled"))
    /\ \/ UNCHANGED jobs
       \/ /\ st[c].snap.job # None
          /\ jobs[st[c].snap.job].state = "running"
          /\ jobs' = [jobs EXCEPT ![st[c].snap.job].state = "canceled"]
    /\ UNCHANGED <<ops, idem, index, capsules>>

-----------------------------------------------------------------------------
(* Catching up with an import job: refreshOperationFromImportJob *)

MutantPollable(rec) == rec.job # None
Pollable(rec) == rec.status = "waiting_on_import_job" /\ rec.job # None

(* refreshImportJobStatus; the record read here is what the poll goes by. *)
Refresh(c) ==
    /\ \/ Ready(c, "watch_check") /\ Owns(c, st[c].snap)
          /\ Then(c, "refresh_check", GetById(flow[c].op))
       \/ Ready(c, "refresh_check") /\ Owns(c, st[c].snap)
          /\ IF Pollable(st[c].snap)
             THEN Then(c, "poll", st[c])
             ELSE AfterRefresh(c, st[c].snap)
    /\ UNCHANGED <<ops, idem, index, capsules, jobs>>

(* refreshPendingOperations: the list is a snapshot, the polls come later. *)
SnapshotList(c) ==
    /\ Ready(c, "listed")
    /\ flow' = [flow EXCEPT ![c] = [@ EXCEPT !.pc = "sweep",
                  !.views = [o \in Ops |->
                     IF /\ \E i \in 1 .. Len(st[c].seen) : st[c].seen[i] = o
                        /\ Owns(c, ops[o])
                        /\ Pollable(ops[o])
                     THEN ops[o] ELSE None]]]
    /\ Set(c, [Quiet EXCEPT !.step = "ok"])
    /\ UNCHANGED <<ops, idem, index, capsules, jobs>>

SweepNext(c) ==
    /\ Ready(c, "sweep")
    /\ LET left == {o \in Ops : flow[c].views[o] # None}
       IN  IF left = {}
           THEN Finish(c, "ok")
           ELSE \E o \in left :
                  /\ flow' = [flow EXCEPT ![c] = [@ EXCEPT !.pc = "poll", !.op = o,
                                                           !.views[o] = None]]
                  /\ Set(c, Returned(o, flow[c].views[o]))
    /\ UNCHANGED <<ops, idem, index, capsules, jobs>>

(* A draft wins over the state of its job. *)
PollJob(c) ==
    /\ Ready(c, "poll")
    /\ LET job == jobs[st[c].snap.job]
           x   == IF job.capsule # None THEN job.capsule ELSE st[c].snap.capsule
       IN  \/ /\ job.state = "completed" \/ x # None
              /\ Write(c, "refreshed", StatusWith("draft_ready", x))
           \/ /\ job.state = "failed" /\ x = None
              /\ Write(c, "job_failed", Diagnostic({"failure"}))
           \/ /\ job.state = "canceled" /\ x = None
              /\ Write(c, "job_canceled", Diagnostic({"failure"}))
           \/ /\ job.state = "running" /\ x = None
              /\ Then(c, "refreshed", GetById(flow[c].op))
           \/ Write(c, "poll_error", NoChange)
    /\ UNCHANGED <<ops, idem, index, capsules, jobs>>

Refreshed(c) ==
    /\ \/ Ready(c, "job_failed")   /\ Write(c, "refreshed", Status("failed"))
       \/ Ready(c, "job_canceled") /\ Write(c, "refreshed", Status("canceled"))
       \/ Ready(c, "poll_error")   /\ Then(c, "refreshed", GetById(flow[c].op))
       \/ Ready(c, "refreshed")    /\ AfterRefresh(c, st[c].snap)
    /\ UNCHANGED <<ops, idem, index, capsules, jobs>>

-----------------------------------------------------------------------------
(* The end of a method, and rejections of the store *)

End(c) ==
    /\ \/ Ready(c, "ingest_failed")  /\ Write(c, "end", Status("failed"))
       \/ Ready(c, "compile_failed") /\ Write(c, "end", StatusWith("compile_failed", flow[c].capsule))
       \/ Ready(c, "publish_failed") /\ Write(c, "end", StatusWith("failed", flow[c].capsule))
       \/ Ready(c, "end") /\ Return(c, flow[c].op, st[c].snap)
       \/ Ready(c, "reread") /\ Return(c, flow[c].op, st[c].snap)
    /\ UNCHANGED <<ops, idem, index, capsules, jobs>>

(* Where the code catches a rejection, and the diagnostic it then writes.  *)
(* `return this.updateStatusObserved(...)` is not awaited inside its try,  *)
(* so a rejection at "end" or "refreshed" reaches the caller.              *)
Handler ==
    [pc \in ControlPoints |->
       CASE pc \in {"ingesting", "uploading", "waiting", "reread"} -> "ingest_failed"
         [] pc \in {"job_failed", "job_canceled"} -> "poll_error"
         [] pc \in {"thumbnail", "metadata"} -> "metadata_failed"
         [] pc \in {"metadata_failed", "published_diag"} -> "publish_failed"
         [] OTHER -> "done"]

Reject(c) ==
    /\ st[c].step = "threw"
    /\ LET pc == Handler[flow[c].pc]
       IN  IF pc = "done"
           THEN Finish(c, "threw")
           ELSE Write(c, pc, IF pc \in {"ingest_failed", "publish_failed"}
                             THEN Diagnostic({"failure"}) ELSE NoChange)
    /\ UNCHANGED <<ops, idem, index, capsules, jobs>>

-----------------------------------------------------------------------------
(* Upstream and the platform *)

JobProgress(j) ==
    /\ jobs[j].state = "running"
    /\ \/ \E x \in {x \in Capsules : capsules[x] = "unborn"} \cup {jobs[j].capsule} :
            /\ jobs' = [jobs EXCEPT ![j] = [state |-> "completed", capsule |-> x]]
            /\ capsules' = [y \in Capsules |->
                  IF y = x /\ capsules[y] = "unborn" THEN "draft" ELSE capsules[y]]
       \/ /\ \E s \in {"failed", "canceled"} : jobs' = [jobs EXCEPT ![j].state = s]
          /\ UNCHANGED capsules
    /\ UNCHANGED <<ops, idem, index, st, flow>>

(* The isolate running c goes away; nothing picks the call up again. *)
Evict(c) ==
    /\ "evict" \in Faults
    /\ flow[c].pc \notin {"idle", "done"}
    /\ Finish(c, "evicted")
    /\ UNCHANGED <<ops, idem, index, capsules, jobs>>

Arrive(c) == SubmitPackage(c) \/ SubmitById(c) \/ SubmitList(c)

Step(c) ==
    \/ StoreStep(c) /\ UNCHANGED <<flow, capsules, jobs>>
    \/ Lookup(c) \/ Prepare(c) \/ CreateEmptyCapsule(c) \/ FilesUploaded(c)
    \/ ImportArchive(c) \/ IngestFails(c) \/ Reread(c)
    \/ NotFound(c) \/ CompileDraft(c)
    \/ StartPublish(c) \/ UpstreamPublishes(c) \/ PublishFails(c) \/ PolishLaunch(c)
    \/ CancelImport(c)
    \/ Refresh(c) \/ SnapshotList(c) \/ SweepNext(c) \/ PollJob(c) \/ Refreshed(c)
    \/ End(c) \/ Reject(c)

Next ==
    \/ \E c \in Calls : Arrive(c) \/ Step(c) \/ Evict(c)
    \/ \E j \in Jobs : JobProgress(j)

Spec == Init /\ [][Next]_vars

(* A call under way is not abandoned: gets, puts and upstream requests     *)
(* all answer, with a value or an error.                                   *)
FairSpec == Spec /\ \A c \in Calls : WF_vars(Step(c))

-----------------------------------------------------------------------------
(* Properties *)

(* An operation says "published" only of a draft that upstream made live,  *)
(* whatever stale copies of its record other calls write back: publishDraft *)
(* writes the status after the upstream answer and with its draft.         *)
PublishedIsLive ==
    \A o \in Ops :
        ops[o] # None /\ ops[o].status = "published"
        => ops[o].capsule # None /\ capsules[ops[o].capsule] = "live"

(* A record changes only under a call of the user it belongs to: every     *)
(* method that takes an operation id checks the owner before it writes.    *)
OwnOperationsOnly ==
    [][\A o \in Ops : ops[o] # None /\ ops'[o] # ops[o] =>
         \E c \in Calls : /\ flow[c].op = o
                          /\ flow[c].user = ops[o].user
                          /\ st[c].step = "write"]_vars

(* Calls one after the other, with failures: a failed operation carries a  *)
(* diagnostic that explain_operation_failure can start from, because each  *)
(* failure path adds the diagnostic before it writes the status.           *)
FailureExplained ==
    \A o \in Ops :
        ops[o] # None /\ ops[o].status \in {"failed", "compile_failed"}
        => "failure" \in ops[o].diags

(* An operation leaves a terminal status only under a compile, publish or  *)
(* cancel its owner asked for: no poll, list or repeated import moves it.  *)
SettledOnlyByRequest ==
    [][\A o \in Ops :
         ops[o] # None /\ ops[o].status \in Terminal /\ ops'[o].status # ops[o].status
         => \E c \in Calls :
              /\ flow[c].op = o
              /\ \/ flow[c].kind \in {"compile", "publish", "cancel"}
                 \/ flow[c].phase \in {"compile", "publish"}]_vars

(* What the proofs of the properties above need to hold at every step.     *)
(* recs and drafts stand for ops and capsules, or for what a step makes of *)
(* them; f and s for the flow and the store method of one call.            *)
LiveIfPublished(rec, drafts) ==
    rec.status = "published" =>
        rec.capsule # None /\ drafts[rec.capsule] = "live"

(* rec may be stale, but it is a copy of operation o. *)
Held(rec, o, recs, drafts) ==
    /\ rec # None /\ o \in Ops /\ recs[o] # None
    /\ rec.user = recs[o].user /\ rec.key = recs[o].key
    /\ LiveIfPublished(rec, drafts)

SoundChange(change, drafts) ==
    /\ change # None
    /\ change.status = None => change.capsule = None
    /\ LiveIfPublished(change, drafts)

SoundList(ids, u, recs) ==
    /\ \A i \in 1 .. Len(ids) : recs[ids[i]] # None /\ recs[ids[i]].user = u
    /\ \A i, j \in 1 .. Len(ids) : ids[i] = ids[j] => i = j

WriteSteps == {"read", "write", "ix_read", "ix_write", "ok", "threw"}

SoundMethod(s, recs, drafts) ==
    /\ s.step = "lookup" => s.user \in Users /\ s.key \in Keys
    /\ s.step = "list" => s.user \in Users
    /\ s.step = "get" => s.op \in Ops
    /\ s.step = "put" => /\ s.op \in Ops /\ recs[s.op] = None
                        /\ s.snap # None /\ LiveIfPublished(s.snap, drafts)
    /\ s.step \in {"put_pointer", "write", "ix_read", "ix_write"}
         => Held(s.snap, s.op, recs, drafts)
    /\ s.step \in {"read", "write"}
         => s.op \in Ops /\ recs[s.op] # None /\ SoundChange(s.change, drafts)
    /\ s.step = "ix_write" => SoundList(s.seen, s.snap.user, recs)
    /\ s.step = "ok" /\ s.snap # None => Held(s.snap, s.op, recs, drafts)

CheckPcs == {"compile_check", "publish_check", "cancel_check", "watch_check",
             "refresh_check"}

(* The call holds an operation of its own. *)
OwnPcs == ControlPoints \ (CheckPcs \cup {"idle", "done", "lookup", "created",
                                          "listed", "sweep"})

LivePcs == {"thumbnail", "metadata", "metadata_failed", "published_diag"}

(* The store method a control point waits for, and how far it has come. *)
StepsAt(pc) ==
    CASE pc \in {"idle", "done"} -> {"idle"}
      [] pc = "lookup" -> {"lookup", "get", "ok", "threw"}
      [] pc = "created" -> {"put", "put_pointer", "ix_read", "ix_write", "ok", "threw"}
      [] pc = "listed" -> {"list", "ok", "threw"}
      [] pc \in {"sweep", "poll"} -> {"ok"}
      [] pc \in CheckPcs \cup {"reread"} -> {"get", "ok", "threw"}
      [] pc = "refreshed" -> WriteSteps \cup {"get"}
      [] OTHER -> WriteSteps

SoundCall(f, s, recs, drafts) ==
    /\ s.step \in StepsAt(f.pc)
    /\ f.pc \notin {"idle", "done"} => f.user \in Users
    /\ f.pc = "lookup" => f.key \in Keys
    /\ f.pc \in CheckPcs \cup OwnPcs \cup {"created"} =>
         f.op \in Ops /\ (s.step # "threw" => s.op = f.op)
    /\ f.pc = "created" /\ s.step # "threw" => s.snap # None /\ s.snap.user = f.user
    /\ f.pc \in OwnPcs =>
         /\ recs[f.op] # None /\ recs[f.op].user = f.user
         /\ s.step = "ok" => s.snap # None
    /\ f.pc = "poll" => s.snap.job # None
    /\ f.pc \in {"publish_check", "publish_running"} \cup LivePcs
         \/ f.phase = "compile" => f.capsule # None
    /\ f.pc \in LivePcs => drafts[f.capsule] = "live"
    /\ \A o \in Ops : f.views[o] # None =>
         /\ Held(f.views[o], o, recs, drafts)
         /\ f.views[o].user = f.user /\ f.views[o].job # None

(* At every step of every interleaving: whatever copy of a record a call   *)
(* holds is of an operation that exists, with its owner and key, and says  *)
(* "published" only of a live draft; whatever a call is about to write     *)
(* belongs to its user; and a new id is written by one call alone.         *)
ImportInv ==
    /\ TypeOK
    /\ \A o \in Ops : ops[o] # None => LiveIfPublished(ops[o], capsules)
    /\ PointersSound
    /\ IndexSound
    /\ \A c, d \in Calls :
         st[c].step = "put" /\ st[d].step = "put" /\ st[c].op = st[d].op => c = d
    /\ \A c \in Calls : /\ SoundMethod(st[c], ops, capsules)
                        /\ SoundCall(flow[c], st[c], ops, capsules)

Quiescent == \A c \in Calls : flow[c].pc \in {"idle", "done"}

(* No call saw its isolate evicted or the store reject past its handlers.  *)
Undisturbed == \A c \in Calls : flow[c].out \notin {"threw", "evicted"}

(* When every call has been answered, with whatever upstream failures and  *)
(* rejections the code has caught, no operation is left in a status that   *)
(* only a running call can move on.                                        *)
QuietMeansSettled ==
    Quiescent /\ Undisturbed => \A o \in Ops :
        ops[o] # None => ops[o].status \in Terminal \cup {"waiting_on_import_job"}

(* A user has one operation per idempotency key: repeating a submission    *)
(* finds the first one.                                                    *)
OperationPerKey ==
    Undisturbed => \A o, p \in Ops :
        /\ ops[o] # None /\ ops[p] # None
        /\ ops[o].user = ops[p].user /\ ops[o].key = ops[p].key
        => o = p

(* Every operation can be found in its user's list once the calls that     *)
(* wrote it have ended, unless newer ones fill the list.                   *)
Listed ==
    Quiescent /\ Undisturbed => \A o \in Ops : ops[o] # None =>
        LET ids == index[ops[o].user]
        IN  Len(ids) = MaxIndex \/ \E i \in 1 .. Len(ids) : ids[i] = o

(* What the proofs of the four properties above need when calls come one   *)
(* after the other.  recs, ptrs and lists stand for ops, idem and index.   *)
Settled == Terminal \cup {"waiting_on_import_job"}

Active(f) == f.pc \notin {"idle", "done"}

Requested(f) ==
    f.kind \in {"compile", "publish", "cancel"} \/ f.phase \in {"compile", "publish"}

Pending(s) == s.step \in {"read", "write"}

(* The record of f's operation once the method under way has written it. *)
Outcome(f, s, recs) ==
    IF Pending(s) THEN Apply(recs[f.op], s.change) ELSE recs[f.op]

RequestPcs ==
    {"compile_check", "compile_running", "compile_failed", "publish_check",
     "publish_running", "publish_failed", "cancel_check"} \cup LivePcs

(* The operation is not yet in a terminal status. *)
OpenPcs ==
    {"created", "validating", "normalized", "ingesting", "uploading", "waiting",
     "reread", "ingest_failed", "poll", "job_failed", "job_canceled", "poll_error"}

(* The operation's status may be one that the call is still to move on. *)
BusyPcs ==
    {"created", "validating", "normalized", "ingesting", "uploading", "waiting",
     "ingest_failed", "compile_running", "compile_failed", "publish_running",
     "publish_failed", "end"} \cup LivePcs

FailurePcs == {"ingest_failed", "compile_failed", "publish_failed", "job_failed"}

ListPcs == {"listed", "sweep", "poll", "job_failed", "job_canceled", "poll_error",
            "refreshed"}

(* With one call at a time, the copies it holds are not stale. *)
CurrentCopies(s, recs, lists) ==
    /\ s.step \in {"put_pointer", "write", "ix_read", "ix_write", "ok"} /\ s.snap # None
         => recs[s.op] = s.snap
    /\ s.step = "ix_write" => s.seen = lists[s.snap.user]

CurrentViews(f, recs) ==
    /\ \A o \in Ops : f.views[o] # None =>
         /\ recs[o] = f.views[o] /\ Pollable(f.views[o])
         /\ f.pc \in OwnPcs => o # f.op
    /\ f.kind = "list" => f.pc \in ListPcs
    /\ f.kind # "list" => f.pc # "listed" /\ f.views = NoViews

(* A submission creates an operation only where the pointer is free. *)
FreePointer(f, s, ptrs) ==
    /\ f.pc = "lookup" =>
         /\ s.step = "lookup" => s.user = f.user /\ s.key = f.key
         /\ s.step = "get" => s.op = ptrs[f.user][f.key]
         /\ s.step = "ok" /\ s.snap = None => ptrs[f.user][f.key] = None
    /\ s.step = "put" => s.snap.status = "received"
    /\ s.step \in {"put", "put_pointer"} => ptrs[s.snap.user][s.snap.key] = None

(* What the call is about to write fits where it stands. *)
FittingChange(f, s, recs) ==
    /\ Pending(s) =>
         /\ s.change.status \in {"failed", "compile_failed"}
              => "failure" \in recs[f.op].diags
         /\ Requested(f) \/ recs[f.op].status \notin Terminal
         /\ f.pc \in OpenPcs => s.change.status \notin Terminal
         /\ f.pc \in BusyPcs \/ s.change.status \in Settled \cup {None}
    /\ f.pc \in FailurePcs /\ s.step # "threw" => "failure" \in Outcome(f, s, recs).diags
    /\ f.pc \in {"waiting", "end"} /\ s.step # "threw"
         => Outcome(f, s, recs).status \in Settled
    /\ f.pc = "poll" => Pollable(s.snap)
    /\ f.pc \in RequestPcs => Requested(f)
    /\ f.pc \in OpenPcs /\ recs[f.op] # None => recs[f.op].status \notin Terminal

SerialCall(f, s, recs, ptrs, lists) ==
    /\ CurrentCopies(s, recs, lists)
    /\ CurrentViews(f, recs)
    /\ FreePointer(f, s, ptrs)
    /\ FittingChange(f, s, recs)

Creating(c, o) == flow[c].pc = "created" /\ flow[c].op = o

(* o is settled, found by its key and listed, or the call at it sees to it. *)
LookedAfter(o) ==
    /\ \/ ops[o].status \in Settled
       \/ \E c \in Calls : flow[c].pc \in BusyPcs /\ flow[c].op = o
    /\ \/ idem[ops[o].user][ops[o].key] = o
       \/ /\ idem[ops[o].user][ops[o].key] = None
          /\ \E c \in Calls : Creating(c, o) /\ st[c].step \in {"put_pointer", "threw"}
    /\ \/ Len(index[ops[o].user]) = MaxIndex
       \/ \E i \in 1 .. Len(index[ops[o].user]) : index[ops[o].user][i] = o
       \/ \E c \in Calls : /\ Creating(c, o)
                           /\ st[c].step \in {"put_pointer", "ix_read", "ix_write", "threw"}

(* Between any two steps of calls that come one after the other: one call  *)
(* runs, its copies are current and its next write fits; every operation   *)
(* is explained, and looked after unless a call was cut short.             *)
SerialInv ==
    /\ \A c, d \in Calls : Active(flow[c]) /\ Active(flow[d]) => c = d
    /\ \A c \in Calls : /\ flow[c].pc = "done" \/ flow[c].out = "none"
                        /\ Active(flow[c]) => SerialCall(flow[c], st[c], ops, idem, index)
    /\ FailureExplained
    /\ Undisturbed => \A o \in Ops : ops[o] # None => LookedAfter(o)

(* Every call is answered, a quick publish that goes through import, watch, *)
(* compile and publish included.                                           *)
EveryCallEnds ==
    \A c \in Calls : flow[c].pc # "idle" ~> flow[c].pc = "done"

(* failureTranslation: "This launch was canceled before the vibe went live." *)
(* is what a canceled operation says; cancelImport does not ask whether the *)
(* operation was published.                                                *)
CanceledNeverLive ==
    \A o \in Ops :
        ops[o] # None /\ ops[o].status = "canceled" /\ ops[o].capsule # None
        => capsules[ops[o].capsule] # "live"

=============================================================================
