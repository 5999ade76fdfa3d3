------------------------------ MODULE Gateway -------------------------------
(***************************************************************************)
(* The gateway as its clients see it, in one isolate: the Worker's cached  *)
(* request handler, the routes of the app that know sessions, and the MCP  *)
(* handler with its batches, the native tools and Code Mode.  Which        *)
(* requests come, and with what configuration, is a plan; when they come,  *)
(* how they interleave at every await, what KV, the identity provider and  *)
(* Vibecodr answer, and how time passes, is open.  Limits and telemetry    *)
(* around the handler are those of NodeHost.                               *)
(***************************************************************************)
EXTENDS BrowserLogin, CodeMode

CONSTANTS
    Plans,
    MaxNestedCalls,
    LinkTtl          \* sessions of a manual token link: 12 h

VARIABLES
    plan,      \* plan.request[r], and until: the last time read
    worker,    \* the cached handler, its configuration and the fingerprint
    task,       \* task[r]: a request under way
    run,       \* run[r][k]: runs of callTool, 0 by the client, k by the sandbox
    effects    \* writes that took effect at Vibecodr (history)

gatewayVars == <<plan, worker, task, run, effects>>
vars == <<sessionVars, loginVars, gatewayVars>>

(* What a configuration sets here, and the part of it that is no           *)
(* configuration: whether the required bindings are there.                 *)
Runtimes == {"dynamic_worker", "native_fallback", "unavailable"}
Configs  == [flags: SUBSET (Flags \cup {"link"}), runtime: Runtimes]
Envs     == [config: Configs, bound: BOOLEAN]

NoConfig == [flags |-> {}, runtime |-> "unavailable"]

(* kind "plain" is any method that is answered without a tool; "call" has  *)
(* the calls its code makes, if any.                                       *)
Items == [kind: {"note", "plain", "bad", "call"}, call: Calls, code: Seq(Calls)]

Kinds == {"link", "logout", "revoke", "session", "summary", "start", "callback", "mcp", "none"}

PlanOf(r) == plan.request[r]

(* A request that may come, with what MaxNestedCalls leaves for its code.  *)
Possible(q) ==
    /\ q.kind \in Kinds /\ q.env \in Envs /\ q.login \in Logins /\ q.codemode \in BOOLEAN
    /\ q.cookie \in {Nobody} \cup Sealed /\ q.bearer \in Tokens /\ q.items \in Seq(Items)
    /\ \A i \in DOMAIN q.items : Len(q.items[i].code) <= MaxNestedCalls + 2
    /\ Cardinality({i \in DOMAIN q.items : q.items[i].code # <<>>}) <= 1

ASSUME GatewayAssumption ==
    /\ MaxNestedCalls \in Nat \ {0} /\ LinkTtl \in Nat \ {0}
    /\ \A p \in Plans : \A r \in Requests : Possible(p.request[r])

(* Bounds: a request runs code once, which makes two calls too many.       *)
RunIds == 0 .. MaxNestedCalls + 2

Answers == {"ok", "reported", "error", "confirm", "disabled", "large", "rpcError"}

RequestSteps == {"new", "lookup", "revoke", "login", "item", "auth", "run", "sandbox", "done"}
StatusCodes == {0, 200, 202, 302, 400, 401, 404, 500, 502}
RequestRecords ==
    [step: RequestSteps, instance: Instances, config: Configs, item: Nat, session: Tokens,
     ttl: Nat, nested: Nat, answers: Seq([item: Nat, answer: Answers]),
     status: StatusCodes]

NotCome ==
    [step |-> "new", instance |-> 1, config |-> NoConfig, item |-> 0, session |-> Nobody,
     ttl |-> 0, nested |-> 0, answers |-> <<>>, status |-> 0]

RunRecords ==
    [state: {"off", "on", "ended"}, item: Nat, tool: Tools \cup {"none"}, known: BOOLEAN,
     chain: Seq(ApiSteps), answer: Answers \cup {"none", "threw", "challenge", "limit", "auth"}]

EffectRecords ==
    [request: Requests, run: RunIds, item: Nat, known: BOOLEAN, tool: Tools, call: ApiWrites]

TypeOK ==
    /\ SessionsTypeOK /\ LoginTypeOK
    /\ worker \in [instance: {0} \cup Instances, config: Configs, fingerprint: Configs]
    /\ task \in [Requests -> RequestRecords]
    /\ run \in [Requests -> [RunIds -> RunRecords]]
    /\ effects \subseteq EffectRecords

Init ==
    /\ SessionsInit /\ LoginInit
    /\ plan \in Plans
    /\ worker = [instance |-> 0, config |-> NoConfig, fingerprint |-> NoConfig]
    /\ task = [r \in Requests |-> NotCome]
    /\ run = [r \in Requests |-> [k \in RunIds |-> Off]]
    /\ effects = {}

-----------------------------------------------------------------------------
(* worker.ts: getHandler *)

Cached(env) == worker.instance > 0 /\ worker.fingerprint = env.config

Built(env) == [instance |-> worker.instance + 1, config |-> env.config, fingerprint |-> env.config]

(* Without the bindings nothing is kept.  The fingerprint is set before    *)
(* createAppRequestHandler, which would throw then.                        *)
MutantgetHandler(env) ==
    IF Cached(env) THEN worker
    ELSE IF env.bound THEN Built(env) ELSE [worker EXCEPT !.fingerprint = env.config]
getHandler(env) ==
    IF ~Cached(env) /\ env.bound THEN Built(env) ELSE worker

Known(token) == token \in Sealed => issued[token] > 0

Arrives(r, kinds) ==
    /\ task[r].step = "new" /\ PlanOf(r).kind \in kinds
    /\ Known(PlanOf(r).cookie) /\ Known(PlanOf(r).bearer)

(* Bound: a handler that is built is one of Instances.                     *)
Served(r) ==
    /\ \/ Cached(PlanOf(r).env)
       \/ PlanOf(r).env.bound /\ worker.instance + 1 \in Instances
    /\ worker' = getHandler(PlanOf(r).env)

(* The request as its handler has it. *)
Taken(r) == [task[r] EXCEPT !.instance = worker'.instance, !.config = worker'.config]

Status(x, code) == [x EXCEPT !.step = "done", !.status = code]

Becomes(r, x) == task' = [task EXCEPT ![r] = x]

(* getHandler throws: 500, whatever was asked. *)
NotServed(r) ==
    /\ Arrives(r, Kinds \ {"none"})
    /\ ~(Cached(PlanOf(r).env) \/ PlanOf(r).env.bound)
    /\ worker' = getHandler(PlanOf(r).env)
    /\ Becomes(r, Status(task[r], 500))
    /\ UNCHANGED <<sessionVars, loginVars, plan, run, effects>>

-----------------------------------------------------------------------------
(* app.ts: the routes of sessions *)

Link(r) ==
    /\ Arrives(r, {"link"}) /\ Served(r)
    /\ IF "link" \in worker'.config.flags
       THEN issue(r, LinkTtl) /\ Becomes(r, Status(Taken(r), 200))
       ELSE UNCHANGED issued /\ Becomes(r, Status(Taken(r), 404))
    /\ UNCHANGED <<now, revoked, cache, look, out, told, loginVars, plan, run, effects>>

(* /api/auth/session shows any session; what is kept for browsers, the     *)
(* summary and the operations, asks for the cookie's.                      *)
Asks(r) ==
    /\ Arrives(r, {"session", "summary"}) /\ Served(r)
    /\ Resolve(r, PlanOf(r).cookie,
                  IF PlanOf(r).kind = "session" THEN PlanOf(r).bearer ELSE Nobody)
    /\ Becomes(r, [Taken(r) EXCEPT !.step = "lookup"])
    /\ UNCHANGED <<now, issued, revoked, cache, out, told, loginVars, plan, run, effects>>

Shown(r) ==
    /\ task[r].step = "lookup"
    /\ \/ look[r].step = "found" /\ Becomes(r, Status(task[r], 200))
       \/ look[r].step = "absent"
          /\ Becomes(r, Status(task[r], IF PlanOf(r).kind = "session" THEN 200 ELSE 401))
       \/ look[r].step = "threw" /\ Becomes(r, Status(task[r], 500))
    /\ UNCHANGED <<sessionVars, loginVars, plan, worker, run, effects>>

(* A logout revokes the cookie's session, /revoke the one it is given; a   *)
(* token that is no live session is left alone.  /revoke then goes on to    *)
(* the provider, and may fail there.                                       *)
Ending(r) == IF PlanOf(r).kind = "logout" THEN PlanOf(r).cookie ELSE PlanOf(r).bearer

Logout(r) ==
    /\ Arrives(r, {"logout", "revoke"}) /\ Served(r)
    /\ Becomes(r, IF getBySigned(Ending(r))
                  THEN [Taken(r) EXCEPT !.step = "revoke", !.ttl = ttlSeconds(Ending(r))]
                  ELSE Status(Taken(r), 200))
    /\ UNCHANGED <<sessionVars, loginVars, plan, run, effects>>

Revoked(r) ==
    /\ task[r].step = "revoke"
    /\ \/ /\ Revoke(Ending(r), task[r].ttl)
          /\ \E code \in {200} \cup (IF PlanOf(r).kind = "revoke" THEN {500} ELSE {}) :
                Becomes(r, Status(task[r], code))
       \/ UNCHANGED <<revoked, out>> /\ Becomes(r, Status(task[r], 500))
    /\ UNCHANGED <<now, issued, cache, look, told, loginVars, plan, worker, run, effects>>

BeginLogin(r) ==
    /\ Arrives(r, {"start"}) /\ Served(r)
    /\ \/ Start(worker'.instance, PlanOf(r).login) /\ Becomes(r, Status(Taken(r), 302))
       \/ UNCHANGED <<sessionVars, loginVars>> /\ Becomes(r, Status(Taken(r), 500))
    /\ UNCHANGED <<plan, run, effects>>

(* The provider may send the browser back with an error, or without a      *)
(* code; then the state is not looked at.                                  *)
Callback(r) ==
    /\ Arrives(r, {"callback"}) /\ Served(r)
    /\ states[PlanOf(r).login] > 0
    /\ \/ /\ Visited(r, worker'.instance, PlanOf(r).login)
          /\ Becomes(r, [Taken(r) EXCEPT !.step = "login"])
       \/ \E code \in {302, 400} : Becomes(r, Status(Taken(r), code)) /\ UNCHANGED visit
    /\ UNCHANGED <<sessionVars, states, used, plan, run, effects>>

CallbackDone(r) ==
    /\ task[r].step = "login"
    /\ \/ visit[r].step = "issued" /\ Becomes(r, Status(task[r], 302))
       \/ visit[r].step = "invalid" /\ Becomes(r, Status(task[r], 400))
       \/ visit[r].step = "failed" /\ \E code \in {500, 502} : Becomes(r, Status(task[r], code))
    /\ UNCHANGED <<sessionVars, loginVars, plan, worker, run, effects>>
-----------------------------------------------------------------------------
(* mcp/handler.ts: a batch is served item by item, each as a request of    *)
(* its own with its own session.                                           *)

ItemOf(r) == PlanOf(r).items[task[r].item]

Calling(r) == task[r].step = "item" /\ ItemOf(r).kind = "call"

(* On to the next item; after the last, 200 with the answers so far. *)
Onward(r, x) ==
    IF x.item < Len(PlanOf(r).items)
    THEN [x EXCEPT !.item = @ + 1, !.step = "item", !.session = Nobody, !.nested = 0]
    ELSE Status(x, 200)

Answered(r, a) ==
    Becomes(r, Onward(r, [task[r] EXCEPT !.answers = Append(@, [item |-> task[r].item, answer |-> a])]))

(* Another status than 200 is the answer of the whole batch. *)
BreaksOff(r, code) == Becomes(r, [Status(task[r], code) EXCEPT !.answers = <<>>])

AllNotes(r) == \A i \in DOMAIN PlanOf(r).items : PlanOf(r).items[i].kind = "note"

Mcp(r) ==
    /\ Arrives(r, {"mcp"}) /\ Served(r)
    /\ Becomes(r, IF PlanOf(r).items = <<>> THEN Status(Taken(r), 400)
                  ELSE IF AllNotes(r) THEN Status(Taken(r), 202)
                  ELSE [Taken(r) EXCEPT !.step = "item", !.item = 1])
    /\ UNCHANGED <<sessionVars, loginVars, plan, run, effects>>

NoCall(r) ==
    /\ task[r].step = "item"
    /\ \/ ItemOf(r).kind = "note" /\ Becomes(r, Onward(r, task[r]))
       \/ ItemOf(r).kind = "plain" /\ \E a \in {"ok", "rpcError"} : Answered(r, a)
       \/ ItemOf(r).kind = "bad" /\ BreaksOff(r, 400)
    /\ UNCHANGED <<sessionVars, loginVars, plan, worker, run, effects>>

requiresAuth(r) ==
    IF PlanOf(r).codemode THEN ItemOf(r).call.name = "execute"
                          ELSE toolRequiresAuth(ItemOf(r).call.name)

Authenticate(r) ==
    /\ Calling(r) /\ requiresAuth(r)
    /\ Resolve(r, PlanOf(r).cookie, PlanOf(r).bearer)
    /\ Becomes(r, [task[r] EXCEPT !.step = "auth"])
    /\ UNCHANGED <<now, issued, revoked, cache, out, told, loginVars, plan, worker, run, effects>>

Challenged(r) ==
    /\ task[r].step = "auth"
    /\ \/ look[r].step = "absent" /\ BreaksOff(r, 401)
       \/ look[r].step = "threw" /\ Answered(r, "rpcError")
    /\ UNCHANGED <<sessionVars, loginVars, plan, worker, run, effects>>

(* The call may start, with session s. *)
Ready(r, s) ==
    \/ Calling(r) /\ ~requiresAuth(r) /\ s = Nobody
    \/ task[r].step = "auth" /\ look[r].step = "found" /\ s = look[r].sess
-----------------------------------------------------------------------------
(* codeMode.ts: where a call of search or execute goes                     *)

Flagged(r) == task[r].config.flags
Runtime(r) == task[r].config.runtime

(* A capability is named, or inferred from the code. *)
Direct(r) == ItemOf(r).call.how = "direct"

InSandbox(r) ==
    /\ PlanOf(r).codemode
    /\ ItemOf(r).call.how # "empty" /\ Runtime(r) = "dynamic_worker"
    /\ ~(Direct(r) /\ ItemOf(r).call.name \in {"search", "execute"})

ByCapability(r) ==
    /\ PlanOf(r).codemode /\ ~InSandbox(r)
    /\ ItemOf(r).call.how # "empty" /\ Runtime(r) # "unavailable"
    /\ ItemOf(r).call.name = "execute"

(* What a client's call becomes. *)
Runs(r, s) ==
    LET c == ItemOf(r).call
    IN  IF ByCapability(r)
        THEN executeCapability(task[r].item, c, s # Nobody, Flagged(r))
        ELSE callTool(task[r].item, c.name, s # Nobody, c.confirmed, c.source, Flagged(r))

RunTool(r) ==
    /\ task[r].step \in {"item", "auth"}
    /\ \E s \in Tokens :
          /\ Ready(r, s)
          /\ ~PlanOf(r).codemode \/ ByCapability(r)
          /\ \E x \in Runs(r, s) : run' = [run EXCEPT ![r][0] = x]
          /\ Becomes(r, [task[r] EXCEPT !.step = "run", !.session = s])
    /\ UNCHANGED <<sessionVars, loginVars, plan, worker, effects>>

(* Search in the catalog, or no way to go on. *)
AnsweredAtOnce(r) ==
    /\ task[r].step \in {"item", "auth"}
    /\ \E s \in Tokens : Ready(r, s)
    /\ PlanOf(r).codemode /\ ~ByCapability(r) /\ ~InSandbox(r)
    /\ IF ItemOf(r).call.name = "search" /\ ItemOf(r).call.how # "empty" /\ Runtime(r) # "unavailable"
       THEN \E a \in {"ok", "large"} : Answered(r, a)
       ELSE Answered(r, "error")
    /\ UNCHANGED <<sessionVars, loginVars, plan, worker, run, effects>>

OpenSandbox(r) ==
    /\ task[r].step \in {"item", "auth"}
    /\ InSandbox(r)
    /\ \E s \in Tokens :
          /\ Ready(r, s)
          /\ Becomes(r, [task[r] EXCEPT !.step = "sandbox", !.session = s])
    /\ UNCHANGED <<sessionVars, loginVars, plan, worker, run, effects>>

(* The code calls; it need not wait for what it has called before.         *)
MutantAdmits(r) == Cardinality({k \in RunIds \ {0} : run[r][k].state = "ended"}) < MaxNestedCalls
Admits(r) == task[r].nested < MaxNestedCalls

NestedRuns(r, c) ==
    IF ~Admits(r)           THEN {Ended(task[r].item, "limit")}
    ELSE IF c.name = "search" THEN {Ended(task[r].item, "ok")}
    ELSE IF task[r].session = Nobody THEN {Ended(task[r].item, "auth")}
    ELSE executeCapability(task[r].item, c, task[r].session # Nobody, Flagged(r))

Nested(r) ==
    /\ task[r].step = "sandbox"
    /\ task[r].nested < Len(ItemOf(r).code)
    /\ LET k == task[r].nested + 1
       IN  /\ \E x \in NestedRuns(r, ItemOf(r).code[k]) : run' = [run EXCEPT ![r][k] = x]
           /\ Becomes(r, [task[r] EXCEPT !.nested = k])
    /\ UNCHANGED <<sessionVars, loginVars, plan, worker, effects>>

(* The code returns, throws or runs out of time; what it has started is    *)
(* not called back.                                                        *)
CloseSandbox(r) ==
    /\ task[r].step = "sandbox"
    /\ \E a \in {"ok", "error", "large", "rpcError"} : Answered(r, a)
    /\ UNCHANGED <<sessionVars, loginVars, plan, worker, run, effects>>

-----------------------------------------------------------------------------
(* Runs of callTool *)

Takes(r, k, x) == run' = [run EXCEPT ![r][k] = x]

(* What run k of r, being x, writes with a step. *)
Effect(r, k, x, step) ==
    [request |-> r, run |-> k, item |-> x.item, known |-> x.known, tool |-> x.tool,
     call |-> step.call]

Written(r, k) ==
    LET step == Head(run[r][k].chain)
    IN  IF step.writes THEN effects \cup {Effect(r, k, run[r][k], step)} ELSE effects

Waiting(r, k) == run[r][k].state = "on" /\ run[r][k].chain # <<>>

UpstreamAnswers(r, k) ==
    /\ Waiting(r, k)
    /\ \E x \in StepAnswered(run[r][k]) : Takes(r, k, x)
    /\ effects' = Written(r, k)
    /\ UNCHANGED <<sessionVars, loginVars, plan, worker, task>>

(* A failed write may have taken effect. *)
UpstreamFails(r, k) ==
    /\ Waiting(r, k)
    /\ Takes(r, k, StepFailed(run[r][k]))
    /\ effects' \in {effects, Written(r, k)}
    /\ UNCHANGED <<sessionVars, loginVars, plan, worker, task>>

RunEnds(r, k) ==
    /\ run[r][k].state = "on" /\ run[r][k].chain = <<>>
    /\ \E a \in Results : Takes(r, k, Stops(run[r][k], a))
    /\ UNCHANGED <<sessionVars, loginVars, plan, worker, task, effects>>

(* What callTool throws is caught by the handler; Code Mode wraps the rest *)
(* and may find it too large.                                              *)
Return(r) ==
    /\ task[r].step = "run" /\ run[r][0].state = "ended"
    /\ \/ run[r][0].answer = "threw" /\ Answered(r, "rpcError")
       \/ run[r][0].answer # "threw" /\ Answered(r, run[r][0].answer)
       \/ run[r][0].answer # "threw" /\ PlanOf(r).codemode /\ Answered(r, "large")
    /\ Takes(r, 0, Off)
    /\ UNCHANGED <<sessionVars, loginVars, plan, worker, effects>>

-----------------------------------------------------------------------------

Tick ==
    /\ now < plan.until
    /\ now' = now + 1
    /\ UNCHANGED <<issued, revoked, cache, look, out, told, loginVars, gatewayVars>>

Lookup(r) == ResolveStep(r) /\ UNCHANGED <<loginVars, gatewayVars>>

LoginGoesOn(r) == LoginStep(r) /\ UNCHANGED gatewayVars

Route(r) ==
    \/ NotServed(r) \/ Link(r) \/ Asks(r) \/ Shown(r) \/ Logout(r) \/ Revoked(r)
    \/ BeginLogin(r) \/ Callback(r) \/ CallbackDone(r) \/ Lookup(r) \/ LoginGoesOn(r)

Handle(r) ==
    \/ Mcp(r) \/ NoCall(r) \/ Authenticate(r) \/ Challenged(r) \/ RunTool(r)
    \/ AnsweredAtOnce(r) \/ OpenSandbox(r) \/ Nested(r) \/ CloseSandbox(r) \/ Return(r)

Upstream(r, k) == UpstreamAnswers(r, k) \/ UpstreamFails(r, k) \/ RunEnds(r, k)

Next ==
    \/ Tick
    \/ \E r \in Requests :
         Route(r) \/ Handle(r) \/ \E k \in RunIds : Upstream(r, k)

Spec == Init /\ [][Next]_vars

-----------------------------------------------------------------------------

CallOf(e) ==
    IF e.run = 0 THEN PlanOf(e.request).items[e.item].call
                 ELSE PlanOf(e.request).items[e.item].code[e.run]

(* The write e was asked for as it should be. *)
Permitted(e) ==
    LET c == CallOf(e)
    IN  /\ e.known
        /\ ~ReadOnlyHint(e.tool)
        /\ DestructiveHint(e.tool) =>
             IF PlanOf(e.request).codemode THEN c.confirmed /\ c.argument # "no" ELSE c.confirmed
        /\ e.call = "publish" => "publish" \in PlanOf(e.request).env.config.flags

(* Whatever takes effect at Vibecodr was asked for in a way that the       *)
(* descriptors promise, natively, by capability or from a sandbox: with an *)
(* accepted session, by a tool that does not call itself read-only, if the *)
(* tool calls itself destructive confirmed in the arguments it is run with *)
(* and, in Code Mode, in the call of the capability, and no publish while  *)
(* the request's own configuration has publishing off, whatever handler    *)
(* was cached.                                                             *)
WritesGated == \A e \in effects : Permitted(e)

(* Sandboxed code gets no more than its number of searches and runs, also  *)
(* if it waits for none and if some of them have already failed.           *)
SandboxBounded ==
    \A r \in Requests :
        Cardinality({k \in RunIds \ {0} :
            run[r][k].state # "off" /\ run[r][k].answer # "limit"}) <= MaxNestedCalls

(* What a tool that was called natively and answers ok has done, for the   *)
(* tools named for one write that none of their paths leaves out.          *)
Promised(tool) ==
    CASE tool = "publish_draft_capsule"    -> {"publish"}
      [] tool = "publish_standalone_pulse" -> {"pulse"}
      [] tool = "compile_draft_capsule"    -> {"compile"}
      [] OTHER                             -> {}

Effects(r, i) == {e \in effects : e.request = r /\ e.item = i}

(* Answers can be trusted where they are definite: a batch that is         *)
(* answered 200 has an answer for each of its requests, in their order;    *)
(* ok from a tool that is named for compiling, publishing a draft or       *)
(* publishing a pulse means that this write took effect; a refusal for     *)
(* want of confirmation or a feature, and a single request that is not     *)
(* answered 200, that nothing did.  (An error means neither, and a batch   *)
(* that is broken off does not tell what its first items did.)             *)
AnswersTruthful ==
    \A r \in Requests : PlanOf(r).kind = "mcp" =>
        LET t == task[r]
            items == PlanOf(r).items
        IN  /\ t.step = "done" /\ t.status = 200 =>
                 /\ {t.answers[j].item : j \in DOMAIN t.answers} =
                      {i \in DOMAIN items : items[i].kind # "note"}
                 /\ \A j \in 2 .. Len(t.answers) : t.answers[j - 1].item < t.answers[j].item
            /\ \A j \in DOMAIN t.answers :
                 LET a == t.answers[j]
                 IN  /\ a.answer \in {"confirm", "disabled"} => Effects(r, a.item) = {}
                     /\ /\ a.answer = "ok" /\ items[a.item].kind = "call"
                        /\ ~PlanOf(r).codemode
                        => Promised(items[a.item].call.name) \subseteq
                               {e.call : e \in Effects(r, a.item)}
            /\ t.step = "done" /\ t.status # 200 /\ Len(items) = 1 => Effects(r, 1) = {}

-----------------------------------------------------------------------------
(* The inductive invariant behind these, in parts *)

(* A handler's configuration is the one it was asked with; a request is    *)
(* where its kind may be, with the configuration it came with.             *)
ItemSteps == {"item", "auth", "run", "sandbox"}

TaskSound(r) ==
    LET t == task[r]
    IN  /\ t.step \in ItemSteps =>
             /\ PlanOf(r).kind = "mcp" /\ t.item \in DOMAIN PlanOf(r).items
             /\ t.config = PlanOf(r).env.config
        /\ t.step \in {"auth", "run", "sandbox"} => ItemOf(r).kind = "call"
        /\ t.step = "auth" => requiresAuth(r)
        /\ t.step = "sandbox" => InSandbox(r)
        /\ t.step = "new" => look[r].step = "idle" /\ visit[r].step = "idle"

(* A session is issued once, by the request that is named like it.         *)
IssuedOnce(r) ==
    /\ visit[r].step # "idle" => PlanOf(r).kind = "callback" /\ task[r].step \in {"login", "done"}
    /\ issued[r] > 0 => \/ PlanOf(r).kind = "link" /\ task[r].step = "done"
                        \/ visit[r].step = "issued"
    /\ task[r].step = "login" => visit[r].step # "idle"

(* A record that is about to be put outlives the session it revokes.       *)
RevokeSound(r) ==
    task[r].step = "revoke" =>
        /\ Ending(r) \in Sealed /\ issued[Ending(r)] > 0
        /\ issued[Ending(r)] <= now + task[r].ttl

RoutesInv ==
    /\ SessionsInv /\ LoginInv /\ TypeOK
    /\ worker.instance > 0 => worker.fingerprint = worker.config
    /\ \A r \in Requests :
         Possible(PlanOf(r)) /\ TaskSound(r) /\ IssuedOnce(r) /\ RevokeSound(r)

(* What a run may still write is permitted; the first ones of a sandbox    *)
(* are those that were let in.                                             *)
RunSound(r, k, x) ==
    /\ x.state = "on" => /\ x.tool \in Tools
                         /\ \A i \in DOMAIN x.chain :
                              x.chain[i].writes => Permitted(Effect(r, k, x, x.chain[i]))
    /\ k > MaxNestedCalls /\ x.state # "off" => x.answer = "limit"
    /\ x.state = "ended" => x.answer # "none"
    /\ x.answer \in {"challenge", "limit", "auth"} => k > 0 /\ x.state = "ended"

RunsInv ==
    /\ WritesGated
    /\ \A r \in Requests, k \in RunIds : RunSound(r, k, run[r][k])

(* as answers the items up to n, but the notifications, in their order. *)
Covers(r, as, n) ==
    /\ {as[j].item : j \in DOMAIN as} = {i \in 1 .. n : PlanOf(r).items[i].kind # "note"}
    /\ \A j \in 2 .. Len(as) : as[j - 1].item < as[j].item

(* Run k of item i may be under way, or have written. *)
Started(r, i, k) ==
    LET t == task[r]
    IN  /\ PlanOf(r).kind = "mcp" /\ i \in DOMAIN PlanOf(r).items
        /\ \/ t.step \in {"item", "auth"} /\ i < t.item
           \/ t.step = "run" /\ (i < t.item \/ (i = t.item /\ k = 0))
           \/ t.step = "sandbox" /\ i <= t.item
           \/ t.step = "done" /\ (t.status = 200 \/ Len(PlanOf(r).items) # 1)

Refusals == {"confirm", "disabled"}

(* Nothing of item i has taken effect, nor can. *)
Untouched(r, i) ==
    /\ Effects(r, i) = {}
    /\ \A k \in RunIds : run[r][k].state = "on" => run[r][k].item # i

Done(r, i, call) == \E e \in Effects(r, i) : e.call = call

(* A step that a run cannot leave behind but by its answer. *)
Binding(step, call) == step.call = call /\ step.writes /\ step.fails # "skipped"

(* The run of a native call has done what its tool promises, or has to. *)
KeepsPromise(r) ==
    LET x == run[r][0]
    IN  \A call \in Promised(ItemOf(r).call.name) :
          \/ Done(r, task[r].item, call)
          \/ /\ x.state = "on"
             /\ \E i \in DOMAIN x.chain : Binding(x.chain[i], call)
             /\ \A i \in DOMAIN x.chain : x.chain[i].then # "ends"

(* Answers as are in order, as far as r has come; each is true. *)
InOrder(r, as) ==
    /\ task[r].step \in ItemSteps \cup {"new", "done"}
    /\ task[r].step \in ItemSteps => Covers(r, as, task[r].item - 1)
    /\ task[r].step = "done" /\ task[r].status = 200 => Covers(r, as, Len(PlanOf(r).items))
    /\ task[r].step = "new" \/ (task[r].step = "done" /\ task[r].status # 200) => as = <<>>

Honest(r, a) ==
    LET item == PlanOf(r).items[a.item]
    IN  /\ a.answer \in Refusals => Untouched(r, a.item)
        /\ a.answer = "ok" /\ item.kind = "call" /\ ~PlanOf(r).codemode
             => \A call \in Promised(item.call.name) : Done(r, a.item, call)

(* The run of the item a request is at leads to a true answer. *)
RunTrue(r) ==
    LET x == run[r][0]
    IN  /\ x.state # "off" /\ x.item = task[r].item
        /\ x.state = "ended" /\ x.answer \in Refusals => Untouched(r, task[r].item)
        /\ ~PlanOf(r).codemode /\ (x.state = "on" \/ x.answer = "ok") => KeepsPromise(r)

AnswerSound(r) ==
    /\ InOrder(r, task[r].answers)
    /\ \A j \in DOMAIN task[r].answers : Honest(r, task[r].answers[j])
    /\ task[r].step = "run" => RunTrue(r)

AnswersInv ==
    /\ \A r \in Requests : PlanOf(r).kind = "mcp" => AnswerSound(r)
    /\ \A e \in effects : Started(e.request, e.item, e.run)
    /\ \A r \in Requests, k \in RunIds :
         run[r][k].state = "on" => /\ Started(r, run[r][k].item, k)
                                   /\ k = 0 => task[r].step = "run"

GatewayInv == RoutesInv /\ RunsInv /\ AnswersInv

=============================================================================
