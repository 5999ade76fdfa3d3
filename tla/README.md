# Verification project of the Vibecodr MCP gateway

TLA+ models, TLC runs and TLAPS proofs about the gateway in `src/` (TypeScript,
Cloudflare Worker or Node).  Line numbers are those of the repository; `auth/x.ts`
stands for `src/src/auth/x.ts` and so on.

## 1. The system

The gateway stands between MCP clients (ChatGPT, Codex, the Vibecodr CLI, any
OAuth-capable MCP client), an OAuth identity provider (Clerk) and the Vibecodr API.
It is an OAuth server of its own to its clients and an OAuth client of the provider;
it keeps refresh grants and operations in a key-value store (Workers KV, or a file or
memory under Node) and elects leaders and hands out one-time codes through a
Durable Object, the *coordinator*.  Every request runs in some isolate; isolates come
and go, share nothing but KV and the coordinator, and interleave at every `await`.

| component | state | operations | meets |
|---|---|---|---|
| **Refresh rotation** `auth/oauthRefreshStore.ts`, `auth/authorizationCodeCoordinator.ts`, `auth/mcpOAuthCompat.ts:746-761,1049-1228` | grant per token in KV; pending or replay record per token in the coordinator (or a map under Node); provider tokens upstream | begin, get, replace, revoke, complete, fail, clear; POST /token (refresh), POST /revoke | KV, coordinator, provider, Vibecodr exchange |
| **Authorization codes** `auth/mcpOAuthCompat.ts:562-1047`, coordinator `/issue`, `/consume` | signed state tokens with a per-isolate set of used nonces; one-time codes | authorize, callback, token (code) | coordinator, provider, refresh store |
| **Browser login** `auth/oauth.ts`, `auth/oauthStateStore.ts` | signed state, used nonces per instance | start, callback, logout, manual link | sessions |
| **Sessions** `auth/sessionStore.ts`, `auth/sessionRevocationStore.ts`, `auth/requestSession.ts`, `auth/sessionCookie.ts`, `auth/vibecodrTokenExchange.ts` | sealed stateless tokens; revocation keys in KV; per-isolate bearer cache | issue, resolve, revoke, exchange | KV, Vibecodr exchange |
| **Operation store** `storage/operationStoreKv.ts`, `storage/operationStore.ts` | operation, idempotency pointer and user index under three keys | create, getBy..., listByUser, addDiagnostic, updateStatus | KV or file |
| **Import service** `services/importService.ts` | none of its own: drives operations | start, refresh, watch, compile, publish, quick publish, cancel | operation store, Vibecodr client |
| **HTTP app** `app.ts` | rate-limit buckets | routing, rate limits, origins | everything |
| **Hosts** `worker.ts`, `server.ts` | handler cached under a fingerprint of the configuration | fetch | app |
| **MCP layer** `mcp/handler.ts`, `mcp/server.ts` | none | JSON-RPC single and batch, protocol checks | tools, code mode |
| **Tools** `mcp/tools.ts`, `mcp/capabilityCatalog.ts`, `mcp/prompts.ts`, `mcp/pulseDescriptorMetadata.ts` | none | one call per tool, confirmation and feature gates | import service, Vibecodr client |
| **Code mode** `mcp/codeMode.ts`, `mcp/codeModeRuntime.ts` | nested-call counter per execution | search, execute | tools, sandbox |
| **Telemetry** `observability/telemetry.ts` | counters, distributions, ring of recent events | record, summary, alerts | all |
| **Vibecodr client, adapters, library** `vibecodr/client.ts`, `adapters/*`, `lib/*`, `config.ts`, `types.ts` | none | request, normalise, validate | Vibecodr API |

### What is hard

* **Interleaving at awaits.**  Requests for one refresh token, one idempotency key or
  one operation run concurrently in different isolates; every store operation is
  several awaits (`replace` = get, put, get, delete, clear; `updateStatus` = get, put,
  get, put).
* **Partial failure.**  An upstream call succeeds and the next store call fails, or the
  isolate is evicted: the upstream effect stays.
* **Time-outs without fencing.**  The pending record of a refresh leader lives 15 s,
  the leader's upstream calls are unbounded, and `completeRefresh` does not check that
  its caller still leads.
* **Two coordinators.**  The Durable Object and the in-memory map differ (`/refresh/fail`
  deletes any record, the map's `failRefresh` only a pending one).
* **Stateless tokens.**  Sessions and OAuth states are self-contained; revocation and
  one-time use need extra state, which is per isolate for nonces and bearer sessions.

### What makes each component correct

* *Refresh rotation*: one exchange at a time per token; all successes for a token agree;
  a token that led to a success is spent; dead tokens stay dead; sessions reach their own
  client; each request is answered and leadership is released.
* *Authorization codes*: a code is redeemed at most once, by the client and verifier of
  its own authorize request.
* *Sessions*: nobody is let in on an expired or revoked session, whichever of cookie,
  sealed bearer, cache or fresh exchange it came from.  *Browser login*: one login gives
  one session per instance of the handler.
* *Operations and imports*: one operation per idempotency key; pointers lead to
  operations of the same user; an operation says "published" only if the draft is live;
  settled operations move only on request; calls touch the caller's operations only.
* *Rate limiter*: at most `limit` admissions per window, sweeping never forgets a live
  window.  *Host cache*: a handler is never used with another configuration.
* *Tools and code mode*: whatever takes effect at Vibecodr was asked for as the
  descriptors promise (authenticated, not read-only, confirmed, not switched off), by
  whichever way the call came; nested calls stay within the limit.  *MCP layer*: a batch
  answers each request in order or fails as a whole, and definite answers are true.
* *Node store*: what was acknowledged is in memory and in the file, and which overlaps
  break that.  *Telemetry*: the counters are the answers that were given.

## 2. Plan

Ordered by how much rests on the component and how hard it is to test.

| | module | models | state |
|---|---|---|---|
| 1 | `RefreshRotation` | refresh branch, revocation, grant store, both coordinators | written, checked |
| 1p | `RefreshRotationProofs` | proofs of the invariants | written, proved |
| 2 | `OperationKv` | every get and put of the Worker's operation store | written, checked through 3 |
| 3 | `ImportOperations` (extends 2) | the import service over the store, upstream drafts and jobs | written, checked |
| 4 | `OneShotCodes` | abstract: what an authorization code promises | written |
| 5 | `AuthorizationCodes` (implements 4) | authorize, callback, code exchange | written, checked |
| 5p | `AuthorizationCodesProofs` | invariants of 5, 5 implements 4 | written, proved |
| 6 | `OperationFile` | the Node file store at every await of the file system | written, checked through 8 |
| 7 | `RateLimiter`, `TelemetryRing` | the bounded state of one process | written, checked through 8 |
| 8 | `NodeHost` (extends 6, 7) | server.ts, the order of checks in app.ts, restarts | written, checked |
| 9 | `Sessions`, `BrowserLogin` (extends it) | sealed sessions, bearer cache, revocation, login, expiry | written, checked through 12 |
| 10 | `VibecodrApi`, `ToolTable` (extends it) | the client's methods as requests; descriptors, gates and requests of every tool | written, checked through 12 |
| 11 | `CodeMode` (extends 10) | the catalog, capabilities, runs of `callTool` | written, checked through 12 |
| 12 | `Gateway` (extends 9, 11) | worker.ts, the routes of sessions, the MCP handler, the sandbox | written, checked |
| 13 | `OperationKvProofs`, `ImportOperationsProofs` | induction over a user's list; the invariant of 3 and what follows from it | written, proved |
| 14 | `OperationFileProofs`, `RateLimiterProofs`, `NodeHostProofs` | the invariants of 6 to 8, part by part | written, proved |
| 15 | `GatewayProofs` | sessions, logins, what tools write, runs and answers: the invariant of 12 | written, proved |
| 16 | more of `ImportOperationsProofs` | `FailureExplained`, `QuietMeansSettled`, `OperationPerKey`, `Listed`, `SettledOnlyByRequest` for calls that do not overlap | written, proved |

Each run asks one question of a composed system rather than of a part.  The parts of
`Gateway` and `NodeHost` are modules of their own with variables and an invariant of their
own, so that the proofs go part by part too.

## 3. Modules and code

Conventions.  One action is the code between two awaits: it starts when an answer
arrives and ends in the next remote call.  A remote call takes effect atomically
when the action that performs it runs; requests interleave between actions.  `None`
is `null` or `undefined`.  Each module's `Mutant...` definitions are faulty variants of
a definition: no behaviour uses them, they show that a property can fail.

Each component has the inductive invariant behind its properties (`SingleFlightInv` and
`ClientsInv`, `ImportInv`, `CodesInv`, `FileInv`, `LimiterInv`, `HostInv`, `SessionsInv`,
`LoginInv`, `GatewayInv`).  Type correctness is its first conjunct, so that a run that
checks the invariant checks the types too.  `SerialInv` comes on top of `ImportInv`, for
calls that do not overlap.

### RefreshRotation

`kv` is the grant store, `coord` the coordinator's record per token, `idp` what the
identity provider knows of its refresh tokens, `issued` the tokens ever handed out, and
`req[r]` the control point and locals of request r.  `Coordinated` selects the Durable
Object or the in-memory map; they differ in one place, `AfterFail`.

| actions | code |
|---|---|
| `SubmitRefresh`, `SubmitRevoke` | `handleGatewayToken`, `handleGatewayRevoke` up to their first call |
| `BeginLeader`, `BeginWait`, `BeginReplay` | `awaitRefreshLeader`, `/refresh/begin`; replay with its client checks |
| `GetGrant` | `refreshStore.get` and the client checks of the live path |
| `UpstreamAccepts`, `UpstreamRejects`, `UpstreamFails` | the provider's token endpoint; acceptance spends the old and may return a new token |
| `ExchangeOk`, `ExchangeFails` | `exchangeProviderAccessForVibecodr` |
| `ReplaceGet`, `ReplacePut`, `RevokeRead`, `RevokeDelete`, `RevokeClear` | `replace` = get, issue, revoke; `revoke` = get, delete, clearReplay.  `next` says who called it |
| `Complete`, `Fail`, `IdpRevoke` | `completeRefresh` and the answer, `failRefresh`, forwarding a revocation |
| `Abort`, `ExpireRecord`, `ExpireGrant`, `IdpEnds` | a rejected call or an evicted isolate; the two times-to-live; a sign-out at the provider |

### OperationKv and ImportOperations

`ops`, `idem` and `index` are the three kinds of keys; `st[c]` is the store method call c
is executing.  Each method is a chain of the actions `LookupPointer`, `Fetch`,
`FetchList`, `PutNew`, `PutPointer`, `ReadForUpdate`, `WriteBack`, `ReadIndex`,
`WriteIndex`: `create` = put, put pointer, read index, write index; `updateStatus` and
`addDiagnostic` = read, write back, read index, write index.  `KvRejects` makes any of
them throw.

`flow[c]` is the call of the service that c executes; `flow[c].pc` names the store method
or upstream call it waits for, and the action that follows is the code up to the next
await.  `capsules` and `jobs` are the drafts and import jobs of the Vibecodr API.
`Return` and `Enter` string the phases of quick publish together; `Handler` says
which `catch` a rejection lands in.  `Init` starts from operations that earlier
calls have left behind (`Seeds`), with the pointers and lists those calls wrote.
`Phases` are the phases of quick publish, `None` outside of it.  `ImportInv` says
what the copies that calls hold have in common with the records: `Held` for a
copy, `SoundMethod` for the store method a call is in, `SoundCall` for its control point.
`SerialInv` adds what holds when a client waits for one call before it makes the next
(`~Overlapping`): `SerialCall` for the one call that runs, `LookedAfter` for each operation.

| actions | code |
|---|---|
| `SubmitPackage`, `SubmitById`, `SubmitList` | the tools and `GET /api/operations` |
| `Lookup`, `Prepare`, `CreateEmptyCapsule`, `FilesUploaded`, `ImportArchive`, `Reread`, `IngestFails` | `startImport` |
| `CompileDraft`, `StartPublish`, `UpstreamPublishes`, `PublishFails`, `PolishLaunch` | `compileDraft`, `publishDraft` |
| `CancelImport`, `NotFound` | `cancelImport`, `requireOwnedOperation` |
| `Refresh`, `PollJob`, `Refreshed`, `SnapshotList`, `SweepNext` | `refreshImportJobStatus`, `refreshOperationFromImportJob`, `refreshPendingOperations`, the loop of `watchOperation` |
| `End`, `Reject` | the last update of a method, its `catch` |
| `JobProgress`, `Evict` | the Vibecodr API; the platform |

### AuthorizationCodes and OneShotCodes

`login[n]` holds the claims of state token n, `expired` the state tokens past their ten
minutes, `used[i]` the nonces isolate i remembers, `pcode` the provider's codes and the
login each was issued for, `store` the gateway codes, `cb` and `tk` the callback and token
requests.  `durable` is chosen once: codes in the Durable Object, or in the memory of
the isolate (`Found` then finds only its own).  `issued` is history.  `Authorize`, `SignIn`,
`Callback`, `ProviderExchange`, `VibecodrExchange`, `IssueCode` are the way to a code,
`TokenRequest`, `Consume`, `StoreGrant` the way from it to a session; `Callback` includes
the cleanup of nonces.  `Serving`, `Ended`, `Showing` and `NewRecord` are the records that
requests and codes move to; `Ended`, `Answer` and `Refuse` are the returns.  A provider code stands for the person who signed in.

`OneShotCodes` is the abstract promise: `Issue`, `Redeem` by one rightful request, `Die`.
The refinement maps `grant` to `issued`, `live` to the unexpired records of `store` and
`redeemers` to the token requests for which a session was minted.

### NodeHost, with OperationFile, RateLimiter and TelemetryRing

`OperationFile` keeps the two names `operations.json` and `operations.json.tmp` (`file`,
`tmp`), the inodes they point to (`data`), the database in memory (`db`) and the method
each caller is in (`call`).  A database is the set of changes it holds.  A method is
`Enter`, then the load (stat and read, parse or start empty, save), the change in memory,
and the flush (open, write, rename), each an action of its own, for each is an await and
none takes a lock.  `harm` and `scarred` are history: which overlap has happened, and
which changes it may have cost.

`RateLimiter` is `take` and `sweep` of the fixed-window limiter; `TelemetryRing` the
counters, the latency distribution and the ring of recent events as functions from one
state to the next.  `NodeHost` composes them: `Oversized`, `Malformed` are server.ts;
`Forbidden`, `Denied`, `NotRouted`, `Served`, `BadCallback`, `Accepted`, `HandlerReturns`
are the returns of `handleRequest` in the order of its checks; `CallStore` lets a handler
call any method of the store; `Die` restarts the process with the files it left behind.

### Gateway, with Sessions, BrowserLogin, VibecodrApi, ToolTable and CodeMode

`Gateway` is one isolate.  `worker` is the cached handler with its configuration and
fingerprint, `task[r]` the control point and locals of request r, `run[r][k]` the calls of
`callTool` it has under way (0 the client's, 1.. those of its sandboxed code), `effects`
the writes that took effect at Vibecodr (with the run, the tool and whether a session was
known when the run began, which is what the gate looked at), `plan` what each request asks
and with which environment the platform hands it over; `Possible` says which plans
there can be.

| module | state or content | code |
|---|---|---|
| `Sessions` | `issued`, `revoked`, `cache`, `look[r]` (how far r is in resolving its session) | `sessionStore`, `sessionRevocationStore`, `requestSession`, `vibecodrTokenExchange` |
| `BrowserLogin` | `states`, `used[g]` (nonces of instance g), `visit[r]` | `oauth`, `oauthStateStore` |
| `VibecodrApi` | each method of the client as the sequences of requests it may make: `ApiReads`, `ApiWrites`, chained with `\odot` | `vibecodr/client.ts`, and how `importService` reports what fails |
| `ToolTable` | descriptors as sets of tools; gates in their order (`Refusal`); requests (`Chains`) | `mcp/tools.ts` |
| `CodeMode` | catalog, `executeCapability`, one step of a run | `capabilityCatalog`, `codeMode`, `callTool` |

| actions of `Gateway` | code |
|---|---|
| `NotServed`, and `Served` in every other arrival | `getHandler` and `fetch` of the Worker |
| `Link`, `Asks`, `Shown`, `Logout`, `Revoked`, `BeginLogin`, `Callback`, `CallbackDone` | the routes of app.ts; `/revoke` of mcpOAuthCompat.ts as far as sessions go |
| `Mcp`, `NoCall`, `Authenticate`, `Challenged`, `Return` | `handleMcpRequest`, its loop over a batch, its `catch` |
| `RunTool`, `AnsweredAtOnce`, `OpenSandbox`, `Nested`, `CloseSandbox` | `callTool` and `callCodeModeTool`; the sandboxed code may call without waiting, return or throw at any time |
| `UpstreamAnswers`, `UpstreamFails`, `RunEnds` | a request of the client settles (a failed write may have taken effect); the check of the result against the tool's schema |
| `Lookup`, `LoginGoesOn`, `Tick` | the awaits of the two session modules; time |

Descriptors and what `callTool` does are written down apart in `ToolTable`, as in the code;
that they agree is what `WritesGated` is about.  `store` stands for a call of the
operation store or import service inside of a tool: what those do to operations is
`ImportOperations`, and writes of the gateway's own store are no effects at Vibecodr.

## 4. Runs

`tlc -workers 2 -config <run>.cfg <MC module>`; each takes at most about two and a half minutes.

| run | instance | asks |
|---|---|---|
| `RotationSingleFlight` | 3 requests, 4 tokens, every fault but a pending time-out | does one request at a time spend a token, do all successes agree, is the invariant of the proofs one? |
| `RotationExpiry` | 3 requests, 2 clients, pending and replay records expire | with two leaders at once, is a token that led to a success spent, do dead tokens stay dead, does a session reach only its own client, is `ClientsInv` an invariant? |
| `RotationLiveness` | 2 requests, in-memory coordinator, no eviction | is every request answered, is leadership released on every return path, do replay records survive failing requests? |
| `RotationDuplicate` (violated) | 2 requests, no fault | is a duplicate refresh replayed? |
| `RotationLostAuthorization` (violated) | 2 requests, no fault of the platform | is the authorization kept when the Vibecodr exchange fails (failures of the provider set aside)? |
| `OperationRaces` | 2 overlapping calls of any kind but quick publish, 2 users, a finished draft or a running import to start from, 3 operations for lists of one entry, rejected store calls and evictions | what survives lost updates: "published" is true, lists are sound at their limit, nobody touches or gets another user's operation; is the invariant of the proofs one? |
| `OperationSerial` | 2 calls in sequence, every fault, three starting points, fair | are failures explained, do settled operations stay settled, do answered calls leave one settled and listed operation per key, does every call end, is `SerialInv` an invariant? |
| `OperationSameKey` (violated) | 2 overlapping submissions of one key | one operation per key? |
| `OperationCancelLive` (violated) | publish, then cancel | is a canceled operation's draft not live? |
| `NodeHost` | 5 requests, 2 clients, three mixes of traffic, one restart | is what the file store acknowledges in memory and on disk, does a flush alone repair the file, does the limiter keep its limit and forget its clients, are the counters the answers, is the invariant of the proofs one? |
| `Gateway` | 3 requests per plan: every tool and capability confirmed and not, batches, sandboxes, sessions over their life, logins, deployments | who is let in, which writes happen, how much sandboxed code may do, and which answers are true; is the invariant of the proofs one? |
| `AuthorizationCodes` | 2 logins, sign-ins, callbacks, codes and token requests, 1 isolate, both code stores, every fault | does a session follow its login, is a state accepted once, does the code store implement one-shot codes, is the invariant of the proofs one? |

### Bounds

* Every actor list has at least two members wherever the hazard is a race: two requests
  make a leader and a waiter, or two leaders; the third of the rotation runs is a
  revocation, a late duplicate or the client of the successor.  Tokens are one to start
  with and one per request: a rotation always finds a fresh one.
* `MaxAttempts` is 2 or 1 instead of 40 polls, `MaxPolls` 1 instead of a wall-clock
  deadline: a poll changes nothing but the counter, and two polls already put steps of
  others in between.
* `MaxIndex` is 1 instead of 500 in `OperationRaces`, so that the trim is exercised: two
  overlapping submissions of one key create two operations, and each touch of one cuts the
  other, from whatever stale list it read.  Without the trim TLC finds `IndexSound` violated
  there.  That a list names nothing twice cannot fail with one entry; it is proved for every `MaxIndex`
  (`IndexesSound`).  In the other runs `MaxIndex` is 2 and no list is cut.
* Quick publish is start, watch, compile and publish one after the other; it runs in
  `OperationSerial`, and its phases race as calls of their own in `OperationRaces`.
* One draft and one import job upstream: two calls contend for them, and a call that finds
  none left sees an upstream failure.
* In the modules of tokens, codes and operations time is not a number.  What expires may expire at any moment after it was written;
  pending records do so only in `RotationExpiry` (fault `pending_ttl`), which stands
  for a leader slower than 15 s.
* `AuthorizationCodes` has one isolate, so that one-time use of states can be stated; codes
  under `durable` are not tied to it.  In-memory codes are used by the single process of
  the Node server, where one isolate is the truth.
* Operations are kept without titles, time stamps and the texts of diagnostics; a
  diagnostic is a failure code, `PUBLISHED` or nothing of interest.
* One of two redirect URIs is registered, so that a token request with the wrong one
  is refused; verifiers are what distinguishes the two logins.
* `NodeHost`: the file store has three handlers, two at a time, with one method each and a
  restart: two loads, two flushes, and a writer that is left with an inode renamed
  away.  The limiter has one client with limit 2 and four requests and one with limit
  3, windows of 2, and time up to five windows, so that a bucket is admitted, refused,
  overwritten and swept.  The ring and the distribution hold two.
* `Gateway`: `MaxNestedCalls` is 2; sandboxed code makes up to 4 calls, in one item of a
  batch, so that calls it did not wait for keep their names.  Lifetimes are
  1 to 3 units (the code: 5 s to 12 h, in this order), and time goes up to 6, past the end
  of every session.  One provider token, one login with two callbacks, up to three
  handlers.  Each plan of `MCGateway` puts one part under stress: `EveryTool`,
  `EveryCapability`, `EveryRuntime`, `Sandboxes`, `Batches`, `Lives`, `Provided`,
  `LoggingIn`, `Links`, `Deployments`; within a plan everything interleaves.  Requests of
  different plans meet only through `worker`, `cache`, `revoked` and `used`, each of which
  has a plan in which two or three requests share it.
* Symmetry is used over three alike requests in `NodeHost`, requests and unissued tokens of
  the rotation, calls, and everything but clients in `AuthorizationCodes`; never in the two
  runs with a liveness property, and not in `Gateway`.

### Fairness and deadlock

`FairSpec` of the rotation is weak fairness of `Step(r)` (a request that has started is
resumed when its await settles) and of `ExpireRecord(t)` (time passes).  That of the import
service is weak fairness of `Step(c)` alone; nothing forces a client to call, a job to
progress or an isolate to live.  Both assume that KV, coordinator and upstream calls
settle.  The code sets no time-out on its fetches, so this is an assumption about the
platform and not about the code.  `NodeHost`, `Gateway` and `AuthorizationCodes` state no
fairness: their properties are safety.  Runs do not check deadlock: when all requests
have ended nothing more need happen.

### Assumptions about the outside

KV reads see the latest write, of sessions' revocations too (Workers KV is eventually
consistent between locations, so real histories can be worse than those checked here).  A handler of the Durable
Object is atomic: its input gate holds other requests back while it awaits storage.
The provider gives a new refresh token on some refreshes and refuses spent ones.

## 5. Disagreements with the documentation

* `DuplicateIsReplayed`: `replace` ends in `revoke`, which clears the coordinator record
  before `completeRefresh` writes the replay.  A duplicate that asks in between leads,
  finds no grant and gets `invalid_grant`; README.md:138 promises a replay.
* `LiveAuthorizationKept`: after the provider has rotated, a failing Vibecodr exchange
  answers 502 and drops the new provider token; README.md:139 lists the only ways an
  authorization ends.  The property sets aside requests that failed at the provider: with
  those, a 200 without an access token (mcpOAuthCompat.ts:1127) loses it too.
* `OperationPerKey` with overlapping calls: lookup and creation are separate awaits, so
  one key gets two operations; README.md:65 promises idempotency.
* `CanceledNeverLive`: `cancelImport` does not look at the status, so a published operation
  can be canceled and is then explained as "canceled before the vibe went live"
  (failureTranslation.ts:105).

One more was met while modelling and has no run of its own: docs/mcp-server.md:142 says that
calls without explicit confirmation return `CONFIRMATION_REQUIRED`.  That of
`cancel_import_operation` is refused, but the refusal is then checked against the tool's
result schema, which has no member for errors (mcp/tools.ts:3248), and reaches the
client as `TOOL_OUTPUT_SCHEMA_ERROR`.  `NoErrorSchema` models it; nothing is canceled.

## 6. Proofs

`tlapm M.tla` checks a module.  Theorems are about the specification for every value of
the constants that the named assumptions allow: any sets of requests, calls, users, tokens,
any limits and lifetimes.  Each theorem about a property of a run has that property as
its conclusion.  Safety is proved by an inductive invariant I: `Init => I`,
`I /\ [Next]_vars => I'`, `I => P`; a property `[][A]_v` by `I /\ [Next]_vars => [A]_v`.  Every
I is an invariant of a run as well, where a wrong conjunct is cheap to find.

| module | theorems | about | assumptions |
|---|---|---|---|
| `RefreshRotationProofs` | `TypeCorrect`, `SpentForGood`, `ClientsHold`, `OwnClients`, `Dead` | `TypeOK`, `SuccessMeansSpent`, `ClientsInv`, `OwnClientOnly`, `DeadStaysDead`, under any faults | `RefreshAssumption` |
| | `SingleFlight`, `SingleWinner`, `SuccessesAgree` | `SingleFlightInv`, `OneExchangePerToken`, `AllSuccessesAgree` | and pending records do not time out |
| | `ReplaysOutlive` | `ReplayOutlivesFailures` | and the coordinator is the one in memory |
| `AuthorizationCodesProofs` | `CodesInvariant`, `CodesTypeCorrect`, `SessionsRightful`, `StatesUsedOnce` | `CodesInv`, `TypeOK`, `RightfulSession`, `StateUsedOnce` | `CodesAssumption` |
| | `ImplementsOneShotCodes` | the refinement `OneShotCode` | the same |
| `ImportOperationsProofs` | `ImportInvariant`, `ImportTypes`, `NeverFalselyPublished`, `PointersLead`, `IndexesSound`, `OwnersFixed`, `OwnersOnly` | `ImportInv`, `TypeOK`, `PublishedIsLive`, `PointersSound`, `IndexSound`, `OwnerFixed`, `OwnOperationsOnly`, overlapping calls or not | those of `OperationKv` and `ImportAssumption` |
| | `SerialInvariant`, `FailuresExplained`, `QuietlySettled`, `OnePerKey`, `EveryOneListed`, `SettledUntilRequested` | `SerialInv`, `FailureExplained`, `QuietMeansSettled`, `OperationPerKey`, `Listed`, `SettledOnlyByRequest` | and `~Overlapping` |
| `NodeHostProofs` | `HostInvariant`, `HostTypes`, `Visible`, `Durable`, `FlushRepairs` | `HostInv`, `TypeOK`, `AcknowledgedVisible`, `AcknowledgedDurable`, `SoloFlushRepairs` | those of `OperationFile`, `RateLimiter`, `TelemetryRing` and `NodeHost` |
| | `WindowsBounded`, `OldBucketsGo`, `Counters` | `WindowBound`, `BucketsBounded`, `AnswersCounted` | the same |
| `GatewayProofs` | `GatewaySafe`, `GatewayTypes`, `OnlyTheLiveAreLetIn`, `LoginsIssueOnce`, `WritesAreGated`, `SandboxesAreBounded`, `GatewayInvariant`, `AnswersAreTruthful` | `RoutesInv /\ RunsInv`, `TypeOK`, `OnlyLiveCredentials`, `OneSessionPerLogin`, `WritesGated`, `SandboxBounded`, `GatewayInv`, `AnswersTruthful` | those of `Sessions`, `BrowserLogin` and `Gateway` |

The hypotheses of `SingleFlight` and its consequences are not there for convenience:
without them `LeaderHoldsRecord` fails, as it must (the hazard on the 15-second record),
and the run `RotationExpiry` shows what is left.  `ReplaysOutlive` is about the Node
server; the `/refresh/fail` of the Durable Object deletes any record.  `~Overlapping` is a
client that waits for the answer to one call before it makes another, whoever asks;
without it `OperationPerKey` fails (`OperationSameKey`), and lost updates undo the rest: a
stale copy written back loses a diagnostic, a status or an entry of a list.  With
`Overlapping` set to TRUE and no faults at all, TLC violates each of the other four on the
instance of `OperationSerial`.
Faults, evictions and the progress of upstream jobs are as free as before.

### Refresh rotation

`SuccessMeansSpent` alone is not inductive: that `Complete` may write a replay record
relies on the grant having been deleted before (`DeletedFirst`) and never coming back,
which holds because `ReplacePut` stores under a token that was not issued yet, and
whatever is presented was issued (`IssuedOK`, `LocalsOK`).  Together they are `BaseInv`.

`OneExchangePerToken` says nothing of a leader that has not read its grant yet, nor of a
second election after the record was cleared.  `SingleFlightInv` does: while a token's
grant is stored, whoever leads holds the pending record and is alone; among
all who ever redeemed the grant, winners included, there is one per token; and every
response, recorded or answered, is the one its minting request made.  A second leader may
well be elected after the first has deleted the grant; it finds nothing, which is why the
invariant is conditional on `kv[t] # None`.

`OwnClientOnly` is about the end of a refresh, while the clients are compared at its
beginning, when it reads the grant.  `ClientsInv` carries the comparison along: the grant
a request holds is the one that is stored or was, the successor it has put is of that
grant's client, and so is the response it leaves behind for others (`OfItsClient`).

### Authorization codes

`RightfulSession` relates the end of a chain (state, sign-in, callback, code, token
request) to its beginning; `CodesInv` says what each link keeps.  A callback past the
provider exchange holds a spent sign-in for its own login (`CallbackOK`); a code was
issued with the claims of that login, and the store still has what was issued (`CodeOK`);
a request with a session matched its code, and that code is gone (`TokenOK`); hence no
second request can have redeemed it (`OneRedeemer`).  The argument uses that no step
takes back a login's claims, a completed sign-in or what a code was issued with
(`Monotone`).  `StateUsedOnce` is inductive once it is known that the nonce of
every callback that was let through is remembered by its isolate, or its state is past
its ten minutes.  In the refinement a successful `Consume` is `Redeem`, `IssueCode` is
`Issue`, and every other step is `Die`, for the codes it expires, burns or loses, or for
none.

### Operations and imports

That a record says "published" only of a live draft must survive the writing of whole
stale copies by calls that overlap.  So `ImportInv` is about the copies: what any call has
read, is about to write or shows is of an operation that exists, with its owner and
key, and says "published" only of a draft that is live.  Two facts about steps make it
inductive: an operation, once put, keeps its user and key, and a draft, once live, stays so
(`Grows`, `LiveStays`).  Each action of the service replaces the flow and the method of
one call (`FlowStep`), each action of the store its method and one entry.  A new id is
written by one call alone, which is a conjunct of its own.

`IndexSound` needs what `Without` and `Touch` (the filter and trim of a user's list) do to lists of
every length.  `Without` is a recursive function; `OperationKvProofs` proves the facts by
induction on the part of the list that was looked at, with the well-foundedness of the
natural numbers and the *set* of the numbers for which a fact holds (`FromZeroUp`): no
induction rule with an operator parameter is needed.

When calls do not overlap, more holds, and `ImportInv`, which says nothing of statuses, is
too weak for it.  `SerialInv` has two sides.

* `SerialCall` is about the call that runs.  What it holds is current (`CurrentCopies`,
  `CurrentViews`: nobody else writes, and a sweep polls each operation once); the pointer
  it found free stays free until it sets it (`FreePointer`); and its next write
  fits (`FittingChange`): a status of failure comes after its diagnostic is in the
  record, an operation in a terminal status is written only for a request, and the last
  write of a method leaves it settled.  `Outcome` is the record as the method under way
  will leave it, so that the same clause speaks of the moments before, during and after
  the write.
* `LookedAfter` is about each operation: it is settled, has its pointer and is listed, or
  the running call is at a control point from which it will see to that (`BusyPcs`,
  `Creating`).  It is claimed while no call was cut short (`Undisturbed`); an eviction or
  a rejection past the handlers does leave operations behind (section 1, partial failure).

`QuietMeansSettled`, `OperationPerKey` and `Listed` are `LookedAfter` with the call taken away;
`FailureExplained` and `SettledOnlyByRequest` are what `FittingChange` does at a write.  A
full list stays full when it is touched (`TouchFull`), which is the pigeonhole
principle: no repetitions, nothing dropped, and no room.  A step of the service goes
through `ServiceStep`, a step of the store through `SerialCallsKept`.

### Node server

`FileInv` is `LocalsSet`, `LoadedFirst`, `OneLoad` (without overlapping loads one caller
loads, before anything is told), `OneFlush` (a flush that runs alone has the temporary
file to itself) and `NothingLost` (while no overlap has done harm, the file, what was
read from it, the database and what is about to be written hold all that was ever
acknowledged).  A restart keeps them since it only tears what was half written.

`LimiterInv` replaces "any window's length of time" by the windows of the clock: each
admits at most the limit (`EachWindowBound`), whoever was admitted in the current window
has a bucket of it that counts at least these admissions (`BucketsCount`), and any
stretch as long as a window meets two of them.  Sweeping cannot take a bucket of the
current window; `SweptInTime` says that it takes the others soon enough.

### Gateway

`GatewayInv` has three parts.

* `RoutesInv`: sessions and logins (`SessionsInv`, `LoginInv`), and where requests may be.
  A resolution of a session remembers when it began and who had logged out by then;
  `LookSound` says what each of its waits has checked so far.  A login issues one session
  because the nonces of callbacks past the check are in the memory of their
  instance or expired (`LoginInv`).
* `RunsInv`: whatever a run of `callTool` *may still write* is permitted (`RunSound`).  It is
  established where a run starts, by going through the gates of `ToolTable` and the
  catalog against the chains of requests of `VibecodrApi`, and kept since a run only
  drops steps.  `WritesGated` follows for what it has written.
* `AnswersInv`: what a run *still has to do*.  A run of the tool that is named for a write has
  that write ahead of it, in a step it cannot leave behind but by its answer
  (`Binding`), or done (`KeepsPromise`); an item that nothing has been started for has no effects
  (`Started`, `Untouched`), so that a refusal and the failure of a lone request mean what
  they say; and the answers of a batch cover the items up to where the request is, in
  order (`InOrder`).

`GatewaySafe` is the part of the theorem that `RoutesInv` and `RunsInv` carry by themselves;
`AnswersInv` is inductive only together with them.

### What the proofs changed in the models

* An effect now records whether a session was known when its run began: `WritesGated`
  was about the task's session at the time of the check, which later items overwrite.
* `BrowserLogin` needed `1 \in Instances` and numbered instances, `Gateway` the bounds of
  a plan (`Possible`): both were used and not stated.
* `None` must be no kind of call and no phase of quick publish; otherwise a call
  outside of quick publish could be taken for one inside (`ImportAssumption`).
* CASEs whose arms overlapped had no determined value and are IFs.

### Only model-checked

* Liveness: `EveryRequestAnswered`, `LeadershipReleased`, `EveryCallEnds`.  TLAPS does not prove
  liveness under fairness.
* That `Chains` lists what the code sends, and that `Without` and the folds compute what
  the code does, is a matter of reading: proofs start from the definitions.

## 7. Not modelled

* *Landing page, metadata documents, CORS*; *prompts and documentation resources*: fixed
  texts.  *Adapters, path policy, thumbnail input, failure texts*: pure functions of one
  package or one error.  The default idempotency key is one of them: which packages are
  the same is decided outside of the models (`SubmitPackage` takes the key as given).
* *Telemetry*: tags, alert rules and the analytics sink; the recording methods other than
  `request`, `auth`, `event`, `counter` and `distribution` only call these.
* *Browser login*: the discovery cache (discovery may succeed or fail each time instead).
* *Sessions*: a change of the signing key, which ends every session and state; the
  cookie's name; the official client's grant profile.
* *Worker*: the in-memory KV of a local Worker without bindings; configurations that
  `loadConfigFromSource` rejects, which end in the same 500 as missing bindings.  Bindings
  other than `VIBE_API` and the loader are not in the fingerprint: a cached handler serves
  a request whose environment has lost them, and so does `Cached`.
* *Limits and telemetry in front of `Gateway`*: those of `NodeHost`; the two are not
  composed, since a request that is refused by the limiter reaches no handler.
* *MCP*: protocol versions, sizes of bodies, a batch within a batch; the texts of results
  (a result is ok, or an error the schema made of it).
* *Sandbox*: what the Dynamic Worker isolates is external; its code is any sequence of
  calls, with any return.
* Signatures, sealing, PKCE hashing, redirect matching, package normalisation, failure
  texts and configuration parsing: pure functions of one request.  Where one decides
  something its result appears as an equality of model values (`Matches`, `Registered`).
* The read that `updateStatusObserved` makes before each update feeds telemetry only.
* `getPublishReadiness` and `explainOperationFailure` change state only through the
  refresh that a get performs.
* The KV branch of the authorization-code store: `app.ts:434` never passes a KV namespace.

### What the properties do not say

* `OnlyLiveCredentials` judges a request when its resolution began: one that waits for KV
  past the end of a revoked session may still be let in, for the record of the
  revocation ends with the session it revokes.
* `OneSessionPerLogin` holds in each instance of the handler.  In a later one, which does not
  know the used states, a second callback may give another session, if the provider
  accepts its code twice.
* In Code Mode the one who confirms is the caller, and sandboxed code is one: it may
  pass `confirmed` itself.  `WritesGated` says that it has to.
* A batch that is broken off with 400 or 401 does not tell what its first items did;
  `AnswersTruthful` claims it of single requests only.
* The status that the provider gives to a forwarded revocation is passed on; here it is
  200 or 500.
