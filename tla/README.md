# whatsapp-baileys-api: a TLA+ verification project

The program (`src/src`, TypeScript on one Node.js event loop) is an HTTP API over
[Baileys](https://github.com/WhiskeySockets/Baileys): it keeps WhatsApp instances connected,
sends messages and campaigns through them, stores chats and messages in MongoDB, answers with
bots, and forwards events to webhooks and browsers. This directory holds TLA+ modules of its
stateful parts, TLC configurations that check them on small instances, and TLAPS proofs for
every value of the constants.

One event loop does not make it sequential. A stretch of code between two `await`s runs without
interruption; everything else interleaves: requests, timers, socket callbacks, answers of
MongoDB. So in every module **an action is a stretch of code between two awaits**, with every
synchronous call it makes, and a call that is suspended is a piece of state.

## 1. Inventory

`PROJECT.json` lists the same components with their source files, and each hazard at its line.

| Component | State | Operations | Interacts with | What is hard | What makes it correct |
|---|---|---|---|---|---|
| Send limiter `BaileysRateLimiter` | `_queue`, `_running`, `_lastExecution`; calls of `processQueue` suspended in `delay` | `run`, `processQueue`, retry | created per instance by `LimiterFactory`, used by the orchestrator | several suspended calls wake together; retries keep their slot and jump the queue; `finally` on every path | slots counted exactly, nothing lost from the queue, nothing forgotten, the interval kept, order kept, every promise settles |
| Bounded queue `BoundedQueue` | `_queue`, `_running` | `add`, `process`, `execute`, `clear` | backpressure middleware | admission, waiting and running bound each other | no refusal while there is room, FIFO, no idle slot next to a waiting task |
| HTTP backpressure middleware | listeners of each response | admit, `next()`, `finish`, `close`, 503 | express, `BoundedQueue` | clients leave at any time; handlers go on after that | every slot comes back, patient clients are answered |
| Instance runtime: `RuntimeManager`, `RuntimeRegistry`, `WhatsAppInstanceRuntime`, `BaileysConnection` | registry, `_restarting`, calls under way, sockets, listeners on a shared bus, auth folder, instance document | start, stop, restart, restoreAll, reconnect, create / connect / disconnect / delete requests | Mongo, Baileys, event bus, all services that use `get()` | check, await, register; one reconnection loop per close; listeners are never removed; updates may be applied out of order; process death | at most one socket, restarts exclusive, registered means stoppable, deleted stays deleted, status truthful, reconnection happens, the session is kept |
| Connection state store, QR use cases | cache entry per instance (QR, pairing code, status) | set, get, clear, subscribe | runtime listeners, HTTP polling | read, await, write the whole entry | a cleared entry does not come back |
| Message orchestrator | none of its own; timers | `send`, `sendBulk`, `withRetry`, `withTimeout`, pauses before and after | limiter, runtime | three tries around three tries; a race that cancels nothing; storing that nobody awaits | copies bounded and explained; a confirmed message is reported sent; a death has its reason |
| Campaign workers: dispatcher, processor, retry worker, scheduler, `MongoCampaignRepository` | campaign documents with recipients, a lock with an expiry | pick with a lease, send, extend, update progress, release, complete, activate | orchestrator, campaign limiter, command handlers that edit campaigns | leases that expire while a send is out; two kinds of worker; edits under way; worker death | one worker per lease, no recipient skipped, progress never undone, completion means nothing pending |
| Campaign rate limiter `InstanceRateLimiter` | list of send times | `waitTurn` | campaign workers of an instance | a worker over a limit never comes back | a waiter goes on; the others take over |
| Webhooks and `CircuitBreaker` | breaker state, counters, next attempt | execute, onSuccess, onFailure, reset, retries; configure, remove | HTTP services outside, the event handlers that await it | overlapping calls end after the state has changed | no call while open, counters exact, closed only after successes |
| Bot and flow engine | conversation state per chat with a time to live, flow documents | trigger, walk, save; create, edit, reset, move and deactivate flows | incoming messages, orchestrator, flow requests | concurrent messages of one conversation; edits under a conversation; cycles | a conversation rests at a question, chats and answers are kept apart, the walk ends |
| Chat synchronisation | chats of an instance in Mongo | full sync (delete, insert), upsert, partial update, delete | sections of Baileys' events | events of the same chats in between, failing calls | the stored chats are what WhatsApp sent |
| Incoming messages: mapper, `MessageModel`, store subscriber | stored messages | map, publish, store | event router, event bus | optional fields at every level; a schema that refuses; a publication nobody awaits | every message is mapped to what it is, and stored or known to be refused |
| HTTP API: routes, validators, controllers, use cases, error middleware | documents, registry, groups, flows that requests share | 35 endpoints | every component above | requests that overlap, under connections that come and go; calls nobody awaits; errors in the middle | answers are true, errors leave no trace, names unique |
| Realtime gateway | connections, a subscription window per user | connect, subscribe, disconnect, emit | domain events | counter shared by the sockets of a user | the window bounds subscriptions |
| Domain event bus, read models, profile / privacy / presence / chat-state services, dependency injection | none, or one call each | | | none that a state machine shows | |

How they interact: a request creates or connects an instance; `RuntimeManager.start` makes a
`WhatsAppInstanceRuntime`, whose `BaileysConnection` opens a socket and announces its fate on a
`NodeEventBus` shared by all instances; the runtime's listeners update the document and hand
losses to the manager, which reconnects. Sends go from a command handler or a campaign worker
through `MessageOrchestrator` and the instance's `BaileysRateLimiter` to the runtime's socket.
Incoming traffic goes from the socket through `BaileysEventRouter` to chat synchronisation,
message storage, bots, webhooks and browsers.

## 2. Modules

| Module | What it is | Composes |
|---|---|---|
| `TaskPool` | abstract specification: what a pool of asynchronous tasks promises its callers | |
| `BaileysRateLimiter` | the send limiter | implements `TaskPool` |
| `BaileysRateLimiterProofs` | its theorems | |
| `Sends` | the orchestrator: `send`, `sendBulk`, retries, timeouts, the runtime and the process under them | extends `BaileysRateLimiter` |
| `SendsProofs` | its theorems | extends `Sends`, `BaileysRateLimiterProofs` |
| `BoundedQueue` | the bounded queue | implements `TaskPool` |
| `HttpBackpressure` | the middleware | extends `BoundedQueue` |
| `HttpBackpressureProofs` | the theorems of the queue and of the middleware | |
| `InstanceSession` | document, auth folder, sockets and listeners of one instance | |
| `RuntimeManager` | starts, stops, restarts and reconnections of that instance, requests, crashes | extends `InstanceSession` |
| `RuntimeManagerProofs` | its theorems | |
| `CampaignWorkers` | the workers of one campaign under its lease, and the scheduler | |
| `CampaignWorkersProofs` | its theorems | |
| `FlowEngine` | a flow graph, and the walk one message makes through it | |
| `Conversations` | overlapping messages, the conversation store, the requests on flows | extends `FlowEngine` |
| `ConversationsProofs` | its theorems, and those of the walk | |
| `CircuitBreaker` | the breaker of a webhook as a value | |
| `IncomingMessages` | what the mapper makes of each message, and what the schema stores | |
| `InstanceEvents` | batches of events of one socket: chats, messages, webhook | extends both |
| `InstanceEventsProofs` | its theorems | |
| `HttpErrors` | error classes and the status of each | |
| `Endpoints` | the 35 endpoints as sequences of steps | extends `HttpErrors` |
| `Api` | requests under way together, over the state they share | extends `Endpoints` |
| `EndpointPaths` | what a handler may have done by the time it arrives at each step of its endpoint | extends `Api` |
| `ApiProofs` | its theorems | extends `EndpointPaths` |
| `MC*` | constants for TLC | |

In a module, an operator under a comment that starts with "Mutant" is a plausible bug in the
definition after it. Nothing uses it: it is there to check that a property can fail, by putting
it in the place of the definition (`mutants` in `PROJECT.json`).

### TaskPool

`phase[t]` says where the promise of a task stands (`new`, `waiting`, `active`, `settled`),
`attempts[t]` how often its function was called. A step may move several tasks, because one
synchronous piece of code may free a slot and fill it. At most `Concurrency` tasks are active,
a task is called at most `MaxAttempts` times, and a settled one is never touched again.

### BaileysRateLimiter

| Variable | Code |
|---|---|
| `queue`, `running` | `_queue`, `_running` |
| `sinceLast` | `Date.now() - _lastExecution`, saturating at `MinDelay`, which is all it is compared with |
| `pumps` | number of `processQueue` calls suspended in `delay` |
| `status`, `retries`, `wait` | promise of the task, `item.retries`, what is left of its retry pause |
| `attempts`, `ticket` | history: calls of the task function, order of `run` |

`Run`, `Wake`, `Resolve`, `Requeue` and `Reject` each end in a call of `processQueue`, which
returns, suspends or starts a task: the operators `Return`, `Suspend`, `Start` under
`ProcessQueue`. `Pause` is the stretch from the rejection to the `await delay` before the
retry. A suspended call has no deadline in the model: one that wakes too early makes the same
comparison and suspends again, which changes nothing. `Date.now()` is taken to be monotone.

### Sends

`send()` looks up the runtime once and hands the limiter a task, again at most `Tries` times
after a pause; a task types, sends, rests. The tasks of the limiter are the pairs of a send and the number
of its try, so the limiter's actions are used as they are and the theorems about it apply.

| Variable | Code |
|---|---|
| `call`, `try` | how far `send()` is, which call of `withRetry` |
| `runtime` | the runtime it looked up, used by all later tries |
| `stage` | how far the running task is: typing, sending on its socket, or on one that had ended (`closed`), after |
| `confirmed`, `out` | history: results the task went on with; messages that were out when their try was given up |
| `storing` | sends whose message `publish()` is still storing |
| `current`, `used`, `alive` | the registered runtime, those there were, the process |

A text of the API is sent by a call that nobody awaits (`TextMessageSender.ts:26`), so its last
failure ends the process; `sendBulk` and the campaign workers await each send and count failures. Nobody awaits
`publish()` either (`MessageOrchestrator.ts:37`): `StoreOutgoingMessageSubscriber` saves the message
while the task rests, `send()` returns, and other sends go on, and it may fail at any time (`StoreFails`).
The ten-second race cancels nothing: `Misses` is a send that is given up, whether or not its
message is out; a send that is carried out late counts as a copy of the stage it was called in. The presence updates of the typing simulation catch their own errors, and so do
not appear. The pauses of the orchestrator may end at any time.

### BoundedQueue and HttpBackpressure

`add`, the continuation of `execute` and `clear` are synchronous and contain the loop of
`process`; so `Add`, `Complete` and `Clear` contain `Process`. The middleware adds the response
as its client sees it (`conn`) and the handlers behind `next()` (`handler`). `finish` or `close`
ends the task, but the listeners are registered when the task starts: `LeaveWaiting` is a
`close` that nobody hears. The order of `finish` and `close`, and that no `finish` follows a
`close`, are Node's (external). The wording of the 503 (`calculateRetryAfter`) is left out.

### InstanceSession and RuntimeManager

One instance. `InstanceSession` has what lies below the manager:

| Variable | Code |
|---|---|
| `doc` | the instance's document: absent, or its status |
| `creds` | the auth folder: empty or paired |
| `sock[k]` | the socket of runtime `k` |
| `wired` | runtimes whose connection listens to its socket and whose lifecycle is attached |
| `bound` | runtimes with listeners on the bus (nothing ever removes them) |
| `inbox` | listeners under way: their repository update, and what follows it |
| `events` | number of the last event, to know the order updates were asked for |
| `wipes` | `clearAuthFolder` calls under way |

`RuntimeManager` adds the registry, `_restarting`, and the calls under way as processes: `pc`
names the await at which a call is suspended (`find`, `connect`, `pairing`, `stop`, `backoff`,
`pause`), `kind` who called (`start`, `restore`, `delete`, a reconnection `loop`). `timers`
holds the calls in a two-second pause in the order they began, since timers of one length fire
in order; longer pauses end in any order. `stop()` is one step, because `runtime.stop()` awaits
nothing.

What happens outside the code's control (start, disconnect and delete requests, closes by the
server, failing calls, crashes, a Mongo that answers late) is counted against `Budget`: how often
each, and how often any of them. `left` is what remains. Without it the state space is
infinite. *Late* means either that an update is applied before one that was asked for earlier,
or that a listener's update is still out when a two-second timer fires. Both are possible, and
`Stores`, `Attempt`, `AttemptSkipped` and `StartAgain` take one unit of the budget for it, so
that a property can say "as long as Mongo was never late". `Wait` stutters where nothing is
under way, and where the model has run out of runtimes or processes (`OutOfBounds`).

`connect()` awaits the auth folder and then the version of Baileys; the model has one await for both.

Left out on purpose: `saveCreds`, the listener that writes the credentials back (`creds` changes when a
socket pairs and when the folder is removed); the aggregate's own status field and the domain events announced after an
update (nothing modelled reads them), the QR and pairing-code listeners, the socket services,
logging, and the creation of the document (the model begins with it there; `Api` has creations). In the code `handleReconnect` makes five attempts;
`MaxAttempts` is a constant, 2 in the runs.

### CampaignWorkers

One campaign document and any number of workers, processors and retry workers, in any number of
processes.

| Variable | Code |
|---|---|
| `status`, `owner`, `lease` | the document's `status`, `lockedBy`, and what is left until `lockExpiresAt`, in half minutes |
| `recip[r]` | status and attempts of a recipient; `later` is pending with a `retryAt` ahead |
| `work[w]` | the await worker `w` is in, the recipient it copied from `findById` with the attempts it saw, `success` and `failed` |
| `tried`, `returned`, `reached` | history: calls of `send` for each recipient, those that returned, and who may have got a message at all, which the code keeps nowhere |

Each `await` of the two workers' loops is a place, each answer with the code up to the next
`await` an action. The two kinds differ in three ways: where the search for the next recipient
begins (anywhere, or at the first), what `run()` does with an error (the retry worker releases
the lock, the processor does not), and so in what a failing `releaseLock` there does (the
rejection is handled by nobody and `index.ts:119` ends the process, as it does when `pick()`
rejects). A lease is 60 seconds when taken and 120 when extended; a send takes 30 at most and the
pause after it 60 at most, unless an *overrun* is spent: a send most of whose tries time out takes about
100 seconds and is one. A step takes its longest: only whether a
lease is over is ever asked, and `Expire` and `Overrun` end one at any moment. `hung` is what
`InstanceRateLimiter.waitTurn` becomes at its limit: `sleep()` passes `resolve` to the
promise-based `setTimeout` as the value to resolve with, and nobody calls it.

One call of `send` may deliver several copies with no accident, since its tries are not cancelled when they
time out; how many is the subject of `Sends`. So this module counts calls: `SendsBounded` says how often a
recipient is handed to the orchestrator, and nothing about how many messages it gets.

Accidents are counted against `Budget`: overruns, crashes, rejected Mongo calls, workers that hang, and edits
(pause, resume, delete). Failing sends are bounded by the limit of attempts and need no budget.

What is external, or trusted: nothing in the source publishes `CampaignInitializeEvent` or stores
`start()`, `pause()` and `schedule()` of the aggregate, so workers are assumed to run and the
document to be edited by hand. Worker ids are distinct. A rejected Mongo call changed nothing. The
type of `ICampaignDocument.recipients` is trusted: `toDomain()` copies each with `{ ...r }`, which
on a hydrated Mongoose sub-document copies its internals and not the fields behind its accessors,
and then no recipient would be pending and every campaign would be completed unsent. The module
models the copy the types promise, a plain recipient.

### FlowEngine and Conversations

`Walks` is the loop of `FlowEngine.execute` as a recursive function, and `Execute` where it ends: one
`Turn` per node until the walk waits, is done, finds a node missing, throws, or has made more turns than there are pairs of a node
and a state of the variables, in which case it never ends. `Conversations` runs it in
`handleMessage`, whose calls overlap, since nobody awaits them.

| Variable | Code |
|---|---|
| `flows` | the flow documents, with start, nodes, triggers, account and `isActive` |
| `store` | the conversation of each chat: flow, node, variables; gone 600 seconds after its last write |
| `job[m]` | the handling of a message: suspended in a query (`finding`), about to walk (`found`), waiting for the orchestrator (`sending`) |
| `edit[e]` | a request on a flow: what it read, and what it will write over it |
| `process` | running, or hung in a walk that never ends |
| `said` | history: what was written in each chat |

`Seeds` are the flow documents that were in the database before. They are assumed to be what
`scripts/seed_flows.ts` writes: every link leads to a node or ends the flow, and an active flow has
its start node. What requests bring is not assumed to be so, since `updateNodes` only looks for the
start node.

Two messages of one chat that overlap can undo each other: `handleMessage` reads the conversation before a
query and writes it whole after it. `AnswersKept` says that this is the only way: a message that finds the
conversation as it read it changes the one answer it was asked for, or, if it starts a flow, clears what that
flow asks for first, and never takes a conversation from one flow to another.

What the modules state about the code, and a reader may not expect: the text that answers a question
is taken by every further question of the same walk; of several replies of one walk only the last
is sent; a flow made through the API is never active, because nothing calls `activate()`; the
deletion of a flow only deactivates it, and conversations in it go on; an `ai` or `delay` node
has no executor and ends the process.

### CircuitBreaker, IncomingMessages and InstanceEvents

A batch of Baileys events is a sequence of sections, handled one after the other by
`BaileysEventRouter`; `ev.process()` does not await the handler, so batches overlap.

| Variable | Code |
|---|---|
| `chats`, `messages` | the two collections |
| `handler[b]` | the section a batch is at, and the await in it (`insert`, `calls`, `post`) |
| `calls` | calls of `applyPartialUpdate` and of the deletion under way: `Promise.all` starts one per chat |
| `saving` | payloads being stored, which nobody awaits |
| `endpoint` | the breaker of the account's webhook |
| `left` | accidents that may still happen |
| `ideal`, `mixed` | history: the chats if every section were one step, and the chats for which that comparison is off, because sections overlapped or failed |
| `heard`, `streak` | history: what was published, events given up in a row |

`IncomingMessages` is the mapper, kind by kind and in its order, and the schema with what Mongoose's
`required` means: an empty string is refused. A reaction that is taken back, a
contact without a name and a message that comes twice are all rejected, and
`BaileysEventRouter.ts:44` does not await `publish()`, so each ends the process (`Die`). The
reference definitions `Body` and `Whole` say, without the mapper's order of cases, what a message
holds and when it is complete. A message inside a wrapper (view once, ephemeral) loses its context. `groups.update`
drops name and description, which are not among the fields a partial update takes over, and
`groups.upsert` replaces all chats of the account, as the history does. `configureWebhook`,
`removeWebhook` and `resetCircuit` are actions, although nothing in the program calls them:
without the first the webhook would be dead code. A section with no chats synchronises nothing
(`SyncNothing`).

### HttpErrors, Endpoints and Api

`Endpoints` gives each route the sequence of its steps: token, upload filter, validators,
controller, use case, reply. `Api` runs them: a *turn* goes up to the next await (an action), what is
awaited takes place or rejects at one moment, and the handler goes on at a later one. Beside the requests,
connections open and close, their listeners update the document, and a loss begins a reconnection loop.

| Variable | Code |
|---|---|
| `req[r]` | the endpoint, the client's one mistake, the step it is at, the document it read, and as history what it did (`marks`) and was answered |
| `doc`, `registry`, `groups`, `flow` | instance documents, runtimes, stored groups, a flow |
| `loose` | calls that nobody awaits: a text, the synchronisation of groups |
| `alive` | the process |
| `updates` | `<<i, kind>>`: a listener of the bus waits for its update of `i`'s document (`WhatsAppInstanceRuntime.ts:118-135`) |
| `loops` | `<<i, point>>`: a reconnection loop of `i` is in its pause, between `stop()` and `start()`, or at an await of that `start()` |
| `stray` | instances with a runtime over which another was registered; its socket still tells of itself |
| `late` | history: instances deleted while a loop's `start()` that had found them was connecting |
| `left` | how many events may still come (`Events` bounds them) |

`RuntimeManager` has the exact numbers, times and sockets of one instance. Here an entry of `updates` or `loops` stands
for one or several, so when one of them goes on the entry stays or goes, and how often a loop has tried is not
counted: each failing try is the last or not. Both give the model more behaviours than the code has, which
a safety property may be checked with. An update that rejects ends the process (`UpdateFails`). A connection that fails
at its pairing code leaves a socket no runtime is registered for (mark `socket`); as nothing listens to it
yet (`BaileysConnection.ts:106,122`), it has no events.

Facts of the code that the steps state: a campaign can be neither updated nor deleted and a flow
not updated, because their schemas ask the path for a parameter that the route does not
have; the lists of flows and campaigns and the progress of a campaign read such a parameter too. A `RuntimeError`
is answered 401 and a failing database 403; an unknown error, and so a file of the wrong type, 500. A text
is answered 200 before it is sent. Mongo is assumed to apply a write or to reject
it, and not to do both.

## 3. Runs

`tlc -workers 2 -config <cfg> <module>`; each takes from a second to about two minutes. A property
named `...Sound` is the conjunction of the invariants listed with it.

| Run | Shows | Bounds, and why they are enough |
|---|---|---|
| `sends` | `LimiterSound` (types, slots counted exactly, the queue exact, no forgotten work, bounded tries, order); `SendsSound` (one task of a send at a time); every copy of a message, every overtaking and every death of the process has its reason; spacing; `TaskPool` is implemented; every send ends | one text of the API and one list, 1 slot (what `LimiterFactory` configures), 2 tries of 2 tries each, a runtime that is lost and replaced: four tasks of the limiter, so that one runs or pauses while others wait, and stored copies that fail while, or after, others are sent. 736,830 states, a minute. More tasks and slots are covered by the proofs |
| `http` | `QueueSound`, slots are lost only to clients that left while waiting, each is freed once, refusals, order, `TaskPool` is implemented, the others are answered | 5 requests, 2 places, 2 slots, so full load plus one refusal; 1 client that may leave while it waits |
| `http_leak` | *violation*: such a client costs a slot for good | same |
| `runtime` | `RuntimeSound` (types, exclusive restarts, registered runtimes are stoppable), one socket until somebody asks for a start, status truthful while Mongo is not late, deleted stays deleted | 3 outside events of any kind (at most 2 closes, 1 of each other), 4 runtimes, so that two loops of one loss can each make a socket, and 3 concurrent calls |
| `runtime_reconnect` | `Recovers`: the session is kept when every loss is transient, every restart ends, the instance is connected again | 2 losses and 1 failure, 5 runtimes so that the model never runs out, under fairness |
| `runtime_disconnect` | *violation*: a pausing reconnection loop starts an instance that was disconnected | 1 close, 1 disconnect request |
| `runtime_manual_stop` | *violation*: a manual disconnect deletes the credentials | 1 disconnect request |
| `campaign` | `CampaignSound` (types; 'sent' and 'failed' are true and a completed campaign skipped nobody, whatever happens); one worker at a time, no second send after one that returned and none beyond the limit but for a crash or a failed call (`SendsBounded`), 'sent' stays, as long as no step outlasts its lease; every recipient is settled unless all workers hang; the campaign ends if nothing comes between its last recipient and `complete()` | 2 workers, one of each kind, that die together or alone; 2 recipients, 2 tries, ban check after 2: two recipients give a choice, an order and a worker that goes on; any 2 accidents at any moment. 1,430,443 states, two minutes. The proofs cover any number |
| `campaign_completed` | *violation*: a campaign is completed while a recipient waits for its retry | no accident, one failed send |
| `bot` | `Sound` (a conversation rests outside every flow or at a question of its flow, unless a request rewrote the flow); a flow of the API never answers; chats are kept apart; the process hangs only on cycles; an edit undoes another only if they overlapped (`EditsKept`), and a message an answer likewise (`AnswersKept`) | 3 messages of 2 chats, 2 flows, 2 requests: two messages of one chat overlap while a third, or a request, is under way. A flow with a branch and one with two questions; the bodies of requests bring cycles and a missing node. 1,630,658 states, a minute |
| `events` | `Sound` (types, the breaker's counters, no message lost without a reason); `MessagesExact` (the mapping of 258 messages is exact, and what is stored is what a whole one said); chats whose sections did not overlap or fail are faithful; no chat comes back by an update; every handler ends | 3 batches out of 6 sequences of sections, about a group and another chat; 2 posts per event, thresholds 2 and 2, so that the breaker opens, half-opens and closes; 1 accident. 734,891 states |
| `api` | `ApiSound` (types, answers keep their promises, a deleted instance is gone, only calls and listeners nobody awaits end the process); an error leaves no trace but those listed; names are unique; every request is answered | one request for any of the 35 endpoints with any one mistake, and one of create, connect and delete, at every await of the first (disconnecting, and flows, meet them as the first request; edits of one flow that overlap are in `bot`); five states of the database and the registry to begin with, which have each document with and without a runtime, and groups and flow stored or not; the second creation takes the first instance's name, the other any; one event of a connection, of any kind, at any moment: enough for a reconnection loop with failing tries, the closes its own `stop()` causes, and a deletion during its `start()`. 1,905,035 states, two minutes |

The violations disagree with what the repository says of itself; `findings` in `PROJECT.json`
quotes the lines.

- `BackpressureMiddleware.ts:35`: the listeners come too late for a client that left while its
  request waited. `BoundedQueue.ts:47` calls the count "Number of tasks currently executing".
- `RuntimeManager.ts:128`: the pause of a loop does not notice `stop()`, although the request
  was answered "Instance disconnected successfully".
- `CampaignProcessor.ts:67`, and the same exit in `CampaignRetryWorker.ts:79`: when the only
  pending recipients wait for their `retryAt`, the loop ends and `complete()` closes the campaign.
  The comment says "campaña terminada". A retry comes 10 seconds later at the earliest and the
  pause between recipients is about one, so the retries of a campaign's last recipients are lost.
- `BaileysConnection.ts:182`: "Manual disconnect" carries status 500, which is classified as an
  invalid session, whose handler removes the auth folder. `_intentionalClose` is never read.

Weaknesses the models show without a contrary promise in the repository: overlapping starts open
two sockets (`RuntimeManager.ts:29` checks the registry two awaits before it is written, which is
why `OneSocket` speaks of the time before the first start request); a reaction that is taken back
ends the process; a deletion that overlaps a connection or a reconnection leaves a runtime without a
document (`DeletedIsGone` names these cases); a status update that Mongo rejects ends the process; a message that timed out may arrive and be sent again;
a message that was sent and cannot be stored ends the process, however long ago it was sent.

### Fairness

- Limiter and sends: timers fire (`Pump`, `Pass`, `Unpause`, the pauses) and a message has a
  result or is given up, because it races a ten-second timeout (`MessageOrchestrator.withTimeout`). No text
  has to be asked for, no runtime has to be lost or to come back.
- Middleware: handlers answer. No client has to leave, no request has to come.
- Runtime: each call under way goes on (Mongo answers, timers fire), listeners go on, updates
  are applied, a wipe ends, and a paired socket opens or is closed. No phone has to pair, no
  request, loss or failure has to happen. `Reconnects` therefore rests on a bounded number of
  losses, which the budget gives; the code gives up by design after its last attempt, and
  `MaxAttempts` exceeds the failures of that run.
- Campaign: awaited calls return, timers fire and polling goes on (`WF` of each worker's `Step`,
  which leaves a hung worker hung), leases expire and retry times come, the scheduler runs. No send
  has to succeed and no accident has to happen. `Served` needs no further assumption but one worker
  that is not hung: a lease whose holder died or threw runs out and another worker goes on.
  `Ends` assumes `Calm`, because the code does not ensure it otherwise: `pick()` only returns
  campaigns with a pending recipient, so one whose last recipient is settled stays `running` for
  good when its worker crashes, fails, finds it paused, sees a ban risk, or loses the lease to a
  worker that hangs, before `complete()`.
- Bot: none; all its properties are safety properties.
- Events: Mongo answers, a post ends by its timeout, pauses end. Nothing has to succeed, no batch
  has to come.
- API: the event loop goes on and what is awaited settles, in either way. No request has to
  come. Nothing is assumed of the steps of connections.

## 4. Proofs

`tlapm <module>` checks each; they hold for every value of the constants under the named
assumptions of each module (finite sets of tasks or runtimes, positive sizes, a budget of natural
numbers), which TLC evaluates in the runs.

**BaileysRateLimiterProofs.** `IInv` has types, `Core` (the count is the cardinality of the active
tasks, within bounds; the queue is exactly the waiting tasks), `Pumped` and `Tried`. `Pumped` is
`WorkConserving`, the delicate one: every call of `processQueue` starts one task at most and gives
up when slots are taken, so it must be shown that a free slot next to a waiting task always has a
suspended call coming. It is inductive only as a disjunction, as many suspended calls as waiting
tasks *or* as free slots: each call that starts a task uses up one of both, and each that finds
nothing to do has one of the two at zero. On top of it come spacing, order
with one slot (`Ordered`: the head of the queue is the oldest, and the active task is older than
the queue) and the refinement: every step of the limiter maps to a step of `TaskPool`.

**SendsProofs.** Every step of the orchestrator is a step of the limiter or leaves it alone
(`SendsUseLimiter`), so soundness, spacing and order hold under it. `SInv` says of each send how the
tasks of its tries, its stage and its copies go together: the tasks before the current try are
rejected, those after it are new, and its copies are paid for by calls of its tasks (`Paid`). A
rejected task has used all its attempts, which carries `Paid` over to the next try, and the
attempt that starts a task pays for the one copy its stage may still make. `Paid` is the
strengthening `CopiesExplained` needs: the bound on the copies alone does not survive a step.
`Agree` is stated of any statuses, since most actions edit one of them and run `processQueue()` on
it; one lemma (`StartAgrees`) covers the task that call may start, which can be another send's.
`OvertakenOnlyByRetry` then follows from the order of the limiter. `DeathsAreExplained` is an action property: a
message that is being stored was confirmed, whatever its send has done since, and a text that fails has had all
the attempts of all its tasks.

**HttpBackpressureProofs.** First the queue, for every use of it: `IInv` has `Core`,
`WorkConserving` and `Executed`. `process()` may start several tasks at once only in general; the
invariant shows that here it starts at most one, which the refinement uses; it is the head of the
queue (`OnlyHeadStarts`), which gives the order of starts. `RefusedOnlyWhenFull` combines no idle
slot with the exact count. Then the middleware: every step of the middleware is a step of the queue or leaves it alone
(`MiddlewareUsesQueue`), so what holds of the queue holds under the middleware without a second
proof, the order of starts and the refinement included. `SlotsAreLostOnlyToLeavers` needs its own invariant: how the
response, the handler and the task of a request go together (a handler executes exactly once its
task has started; a task that runs for a closed response belongs to a client that left while waiting),
and it bounds the handlers of open responses by the running tasks, which the queue bounds by
`Concurrency`.

**RuntimeManagerProofs.** `IInv` = `TypeOK`, `Shaped`, `RestartExclusive`, `RegisteredIsWired`.
`Shaped` is why the rest is inductive: it says at which awaits each kind of call can be (a loop is
never at the pairing code, since it passes no phone number; only loops pause). An attempt
enters `restart()` when `_restarting` is clear and sets it, and every way out, by return or throw,
clears it. `DeletionIsFinal` is an action property of `updateOne` without upsert.
`ReconnectionOpensOneSocket` uses a second invariant, `Alone`, that holds until the first start
request: the only calls that can make a socket are `restoreAll()` right after boot, when nothing
else runs, and the one loop in `restart()`, which has stopped the registered runtime, the only
one with a live socket. The budget enters only through "no start was asked for yet". A third
invariant, `Wiring` and `Told`, gives `StatusIsTruthful`: an open socket belongs to a runtime that is
listened to and nothing connects on such a runtime, so whatever closes an open socket is announced;
the updates of the last event are the last Mongo applies, while it is never late, and they say
connected only if a socket is open.

**CampaignWorkersProofs.** Three inductive invariants, one on top of the other. `Told` relates
attempts and statuses, and the copies workers hold of them, to the sends that were made; it knows
nothing of leases and so survives lost ones, which gives `Truthful` and `NobodySkipped` whatever
happens. `Leased` adds how much of its lease a worker has left at each await: two half minutes
before a send, one after it, four after `extendLock`, so that the pause leaves two again. As a lease
that is not over is nobody else's, a worker in time is alone, its copy of the recipient is what is
stored, and no update takes 'sent' back. `Counted` then counts, per recipient, the calls of
`send` whose end was not stored, those that returned and all of them, and charges each to the crash or the failed
Mongo call that lost it.

**InstanceEventsProofs.** `IInv` adds to `Sound` where everything is: each section that waits or
posts (`Placed`, `Posting`), each call of `applyPartialUpdate` with the document it read
(`ReadBefore`), and each payload: published by one batch once and stored once (`PublishedOnce`,
`StoredOnce`), without which a message that fails to be stored could not be told from its copy.
`AppearsByName` is an action property of it. `ChatsAreFaithful` compares the collection with the
history `ideal`, in which every section is one step, and needs to know by what they differ in
between: for a chat that is not `mixed` at most one handler is at it (`Alone`), and the ideal leads
the collection by exactly what this handler has still to do (`Leads`: to insert after the deletion, to
write back what was found, to delete, or nothing). `StoredAsMapped` follows a stored message back
through its publication to the one that came.

**ConversationsProofs.** The walk of `execute()` is a recursive function, so it is first proved to
exist and to be what its equation says, by induction over the number of turns. The library's
induction theorems take an operator, which the provers cannot instantiate; but an inductive set of
numbers is all of them because `<` is well-founded, and that has a first-order statement (`WFMin`).
`WalkKeeps` says it for a walk, again with a set: what holds at its start and survives a turn holds at
its end, and `WalkEnds` applies it. `IInv` then says of each call that what it read
rests, that it holds its own chat's words, and, when it has found its flow, that it walks the nodes that are
stored unless a request rewrote them; of each request, which fields the document it will write
has changed, and that of a flow nobody rewrote it writes back the nodes that are there; of each flow a
request made, that neither it nor any document about to be written over it is active. An
overlap cannot break the last, since whoever read the flow read it inactive. `AnswersAreKept` needs that a call which
found its flow either started it, and then its walk gets no input and ends at a question for whatever it has
changed, or goes on with it and stores its own text (`WalkKeeps` again). `HangsAreCycles` is the
pigeonhole principle: a walk that is still going after more turns than there are nodes visited one twice,
and the nodes in between lead from each to the next.

**ApiProofs.** `EndpointPaths` reads each endpoint as a graph: its nodes are the steps, its edges say
which step may come next and what the handler has done on the way, and `Arrive` gathers the sets of
marks with which a handler can arrive at each step. What the proofs need of the 35 endpoints is one
assumption about this table, `EndpointsAssumption`: the marks at a reply keep its promise, those at a
step that may throw are what its error is excused, nothing registers a runtime before it connected it.
The assumption mentions no constant and no variable of the model, so its truth does not depend on an
instance: TLC evaluates it in the run `api`, and that decides it. The rest is proved, for any number
of requests. A turn is a recursive function over the steps; `TurnIsRecursive` shows, by induction over
how many steps are left (with `WFMin`, as for the walk), that it is what its equation says, and
`TurnEnds` that wherever a turn ends, its marks are those of a path. `IInv` says of each request
that it is at a step with marks of a path to it (`Formed`), and what the marks say about shared state:
an instance whose deletion took place has no document (`Gone`), which is inductive only because an
id can be known to others only after its document was saved (`AboutSeen`), and a creation
saves once; the runtime of an instance that was stopped is gone unless some other request connected it, or a
reconnection loop had found the document before it was deleted (`Stopped`, `late`): a loop that gets to its
`connect()` later has found a document, and there is none. `OneNameOnce` is kept by the unique index alone: the lookup before it is not used in its
proof.

| Module | Theorems |
|---|---|
| `BaileysRateLimiterProofs` | `LimiterInvariant`, `TypeCorrect`, `SlotsAreAccounted`, `QueueIsExact`, `NoWorkForgotten`, `TriesAreBounded`, `StartsAreSpaced`, `SettlesInOrder`, `LimiterImplementsPool`, `LimiterIsSound` |
| `SendsProofs` | `SendsInvariant`, `SendsUseLimiter`, `LimiterSoundUnderSends`, `SendsAreSound`, `CopiesAreExplained`, `OvertakingExplained`, `DeathsAreExplained` |
| `HttpBackpressureProofs` | `QueueInvariant`, `TypeCorrect`, `SlotsAreAccounted`, `QueueIsExact`, `NoSlotIdles`, `RefusalMeansFull`, `TasksStartInOrder`, `QueueImplementsPool`, `QueueIsSound`, `MiddlewareUsesQueue`, `RequestsAreAccounted`, `OverloadMeansFull`, `MiddlewareImplementsPool`, `RequestsStartInOrder`, `SlotsAreLostOnlyToLeavers` |
| `RuntimeManagerProofs` | `ManagerInvariant`, `TypeCorrect`, `RestartsAreExclusive`, `RegisteredRuntimesAreWired`, `DeletionIsFinal`, `ReconnectionOpensOneSocket`, `RuntimeIsSound`, `StatusIsTruthful` |
| `CampaignWorkersProofs` | `CampaignInvariant`, `TypeCorrect`, `StatusesAreTrue`, `NobodyIsSkipped`, `LeaseInvariant`, `OneWorkerAtATime`, `SentIsFinal`, `CountInvariant`, `ReturnsOnce`, `TriesAreBounded`, `SendsAreBounded`, `CampaignIsSound` |
| `ConversationsProofs` | `WalkEnds`, `ConversationsInvariant`, `ConversationsAreSound`, `ChatsAreKeptApart`, `ApiFlowsStaySilent`, `EditsAreKept`, `AnswersAreKept`, `HangsAreCycles` |
| `InstanceEventsProofs` | `EventsInvariant`, `EventsAreSound`, `ChatsAppearByName`, `ChatsInvariant`, `ChatsAreFaithful`, `StoredAsMapped`, `MessagesAreExact` |
| `ApiProofs` | `ApiInvariant`, `ApiIsSound`, `ErrorsAreClean`, `NamesAreUnique` |

Only model-checked:

- liveness (`SendsEnd`, `PatientAnswered`, `Recovers`, `Served`, `Ends`,
  `HandlersEnd`, `RequestsEnd`), since temporal reasoning under fairness is out of the prover's
  reach;
- `MappingExact`, the part of `MessagesExact` that compares mapper and schema on the given messages, one by
  one, and mentions no variable: the hypothesis of `MessagesAreExact`;
- `SessionKept`, the first part of `Recovers`, which the run of the manual stop refutes where losses are
  not the only events.

## 5. Not modelled

- **Connection state store.** A cache with one entry per instance, written by the QR and pairing-code
  listeners after an await. Its readers are in `Api`, with any content; an entry that is written
  after `clear()` is replaced by the next code within a minute.
- **Realtime gateway.** `subscribe` is refused by a constant today, so rooms have no behaviour to check.
- **Sliding windows of `InstanceRateLimiter.waitTurn`.** Once a window is full the call never returns (see
  `hung`), so what the windows would do after a pause never happens.
- **Read models**, pagination and projections: queries and field-by-field mapping without transitions.
- **Profile, privacy, presence and chat-state services**, and polls, forwarding, editing and
  deleting of messages: one call of the socket each, no state, no route that reaches them.
  The handlers of promote, demote, leave, invite and settings are not registered on the command bus.
- **`useMongoAuthState`, `ConcurrencyLimiter`, `InstanceConnectedSubscriber`, `NotifyInstanceConnected`** and the
  repository methods nothing calls: not used by the program.
- **Graceful shutdown, dependency injection, configuration, logging, swagger, scripts and the web
  pages:** no behaviour over time that a property is about.
- **The choice among several campaigns, and several subscribers of one domain event:** each
  module has one.

Baileys, Node and MongoDB are external: the modules say next to each action what they take from
them.
