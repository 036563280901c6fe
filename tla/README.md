# A TLA+ model of lithis

lithis runs a company's agents: people and agents share a queue of work items,
agents execute them under leases, results that need a person wait at a human
gate, and a change upstream invalidates the results that were built on it. Every
state change is announced on an event spine, and most components talk to each
other only through it. This directory specifies the parts whose correctness
depends on order, failure and time, checks them with TLC and proves their
safety properties with TLAPS.

Paths below are relative to the repository root; `S/` stands for
`apps/server/src/`, `C/` for `packages/core/src/` and `X/` for `extensions/`.

## 1. Inventory

| Component | State it keeps | Operations | Talks to |
|---|---|---|---|
| Work queue, `S/work` | `work.items` (status, lease, attempt, wake_at), depends_on edges | open, claim, heartbeat, release, complete, resolveApproval, cancel, markStale, revive, demote, revokeLease, lease-reclaim tick | spine (an event per hop, in the same transaction) |
| Event spine, `S/spine` | `spine.events`, `spine.tenant_seq`, `spine.consumer_cursors`; in memory: subscriptions, backoffs | append, subscribe, close, the poll cycle | everybody's handlers |
| Clock, `S/spine/clock.ts` | the tick in flight | register, tick | queue reclaim, SLA sweep, agent heartbeats, skill schedules, feed expectations |
| Human gate, `S/humangate` | `humangate.requests` (state, routing) | request, resolve, supersedeForSubject, SLA sweep | spine |
| Process engine, `S/processes` | runs, `pending_actions`, watch rules; nodes are work items | event handler: settle approvals and holds, find causes, plan and execute cascades; instantiate, proposeGraphChange | spine, queue, gate, an injected result port (the server injects none: the default one throws) |
| Agent host, `S/agents/host.ts` | residents in memory: charter, loop in flight, pending wake | ensure, wake, heartbeat tick, the loop | queue, spine, store |
| Executor, run store, tool broker, `S/agents` | sessions, runs, results, evidence | execute, startRun, finishRun | LLM, skills, gate |
| Skills, `S/skills` | skills, versions, runs; the build's registrations and the last fired minute in memory | propose, activate, invoke, schedule tick, dev seed | gate, spine, connectors |
| Follow-ups, `X/skills/follow-up-cadence` | the follow-up of a work item (nextAt, lastContactAt) | sweep: escalate, nudge, record the contact | queue, gate, delivery |
| Delivery, `S/delivery` | `delivery.deliveries` | card and nudge delivery, inbound ingest, reply matching | spine, gate, Slack |
| Connections, `S/connections`, `X/connectors/slack` | connections (status, health, sync_state), feed expectations | register, health, sync, recordFeedSeen, expectation tick | connectors, context store, spine |
| Custody, `S/custody` | token vault in memory | getBrokered, issueFor, redeem | spine |
| Sentinel, `S/sentinel` | the watchers' principals, prompts and charters, in the tables of others | bridge from events to work items, raise_finding, default watchers at boot and per new tenant | queue, host, gate, identity, context |
| Context store, `S/context` | blobs, docs, chunks, entities, links | putBlob, ingestDoc, distill, search, paths | spine, LLM |
| Start-up, `S/main.ts`; database, `S/db`; identity, `S/iam`; API, `S/api` | migration ledger, tenants, principals, charters | boot: migrate, seed, sweep; transactions, look-ups, routes | all |
| Artifacts, systems of record | tables only | registered stubs that throw | none |
| `packages/{sdk,stubkit,evals,cli}`, `extensions`, `apps/{portal,browserhost,workbench}` | none that the server shares | adapters, tools, user interface | HTTP |

What is hard in this code:

* **At-least-once handlers.** A handler runs its own transactions and the cursor
  is written once per batch, so anything a handler did before it threw or died
  is done again. The engine's cascades are many transactions long.
* **Zombie workers.** A lease is a row that lapses. Its holder is not told, and
  the clock, an invalidation or another worker may move the item at any moment.
* **Reads before writes.** A cascade reads every status first, a sweep reads the
  due rows first, a tick takes its time first; other processes run in between.
* **Two transactions where one is meant.** Requesting a review and parking what
  it approves; posting a card and recording it; storing a document and
  announcing it.
* **Several orchestrators** while deployments overlap: two dispatchers write one
  cursor, two sweepers see one due request, two ticks fire one schedule.

What makes each part correct:

* *Queue.* A lease rides exactly the live executions; a dead lease stays dead;
  the events explain the rows; an item starts when its upstreams are done, never
  before and never not at all; the items of dead workers return.
* *Spine.* Sequence numbers have no gaps and commit in order; no consumer misses
  a selected event or sees a later one first; only crashes repeat an event; one
  failing consumer holds up nobody else.
* *Gate.* A request climbs its ladder one rung per SLA, expires only at the top,
  is never forgotten while it waits and is left alone once it is settled.
* *Processes.* A cascade kills the leases it overtakes, leaves nothing runnable
  on dirty inputs, forgets no node, asks before it is wide; what is parked
  behind a request is settled with it; only an approved result finishes a gate.
* *Agent host.* No wake is lost to coalescing, a finished item has the result of
  that attempt, spending passes a budget by one model call at most, ready work is
  taken and the clock goes on although it waits for the loop.
* *Delivery.* A reply answers the request on whose card it was written and no
  other, with what it says; the first verdict stands; a message is announced once;
  a handled event leaves a row; what is said on a recorded card is heard.
* *Processes, graphs.* An approved change is applied once, spares what the template
  protects, and only a crash leaves a run with part of its graph.
* *Skills.* The pointer of a skill is at an active version; what runs was approved
  and fires once a minute.
* *Follow-ups.* A contact on record was made; escalations do not pile up.
* *Connections.* No watermark passes a message that is not stored; misses are
  announced in a growing count.
* *Context store.* Racing writers write once and agree on the id; prospects stay out
  of the answers for the network.
* *Start-up.* Every migration is applied once and in order, and a file that was edited
  since stops the boot; a server that is up has the watchers of its tenants.

## 2. Modules

| Module | Role |
|---|---|
| `WorkQueue` | the queue, one action per service call, the clock's tick, properties, mutants |
| `MCWorkQueue` | the dependency graphs and wake times of the checked instances |
| `WorkQueueProofs` | proofs about `WorkQueue` |
| `OrderedLog` | what the spine promises: a log that grows at its end and consumers that read it in order |
| `Spine` | the outbox and the dispatcher, cut at every await; refines `OrderedLog` |
| `MCSpine`, `SpineProofs` | the checked instance; the proofs about `Spine` and its refinement |
| `HumanRequest` | request states, verdicts and transitions, shared by `HumanGate`, `Processes`, `Delivery` and `Skills` |
| `HumanGate` | the gate with its SLA sweepers |
| `Processes`, `MCProcesses`, `ProcessesProofs` | the engine, composed with `WorkQueue` (`INSTANCE`) and the gate's states; its instances; the proofs |
| `ProcessGraph` | how a run gets its graph: templates, instantiate, approved changes |
| `AgentHost` | a resident's loop and executor over `WorkQueue` (`INSTANCE`), with the threads that wake it: the dispatcher (the sentinel's bridge) and the clock |
| `AgentHostProofs` | proofs about `AgentHost` |
| `Delivery`, `MCDelivery`, `DeliveryProofs` | cards, nudges, inbound messages and replies over Slack, with the gate's states; the instances; the proofs |
| `Boot`, `MCBoot` | start-up of several servers: migrations, dev seed, watchers |
| `Skills` | the skill registry and invoker, with the gate's states |
| `FollowUps` | the follow-up-cadence skill over work items |
| `Connections` | the sync of a connection's Slack feeds, probes and the operator |
| `FeedWatch` | feed expectations and their tick |
| `ContextStore` | blobs, documents, distillation, search, introductions |
| `Retrieval` | chunking, rank fusion and path ranking as pure operators |
| `Services` | `HumanGate`, `Boot`, `Skills`, `FollowUps`, `Connections`, `FeedWatch`, `ContextStore` and `ProcessGraph` as one specification |
| `MCServices` | the instance of `Services` for its run |
| `FoldFacts` | facts that several proofs cite: sums of costs, recursive functions, concatenations, sorted orders |
| `RegistryProofs` | proofs about the services `Boot` and `Skills` |
| `ServicesProofs` | proofs about the six others, and `TypesAreKept` of all eight |

A definition under a comment that says *Mutant* is a plausible bug of the
definition after it. No action uses it; it shows that the properties would notice.

### WorkQueue

One row of `work.items` is an index of `status`, `lease`, `attempt` and `wake`.
Every method of `S/work/service.ts` runs in one transaction that locks its row,
so each is one action; a call that throws rolls back and is not a step.
`issued` remembers every lease `claim` ever returned: any of them may be
presented again at any time, which is what a zombie worker does. A run id is
fresh per claim, so the attempt number stands for it. `hops` holds the
`work.status_changed` events of the last transaction as the path of statuses
they announce; `complete` announces two (claimed, running, outcome). `Settle` is
a transition with the promotion of dependents that `promoteDependents` makes in
the same transaction. `Tick(t, skipped)` is the reclaim source: `t` is a time
that was read when the tick began, `skipped` the rows that other transactions
hold (`FOR UPDATE SKIP LOCKED`).

`Spec` has everybody act; `WorkerSpec` leaves the invalidator out, because the
dependency gate is a promise only while nobody repudiates a finished upstream. What
remains of it when an engine does is `SettledRunsAreSound` of `Processes`.

### Spine

`AppendEvent`, `Commit` and `Rollback` are an outbox transaction: the first
append takes the tenant's `tenant_seq` row and holds it to the end. The
dispatcher of a process is cut into `StartCycle`, `Visit` (cursor read), `Scan`
(batch read), `Skip`/`HandleOk`/`HandleFail` per event, `Finish` (cursor write),
with `BackoffElapses`, `Crash` and `CycleFails` in between. Several processes
run it. `handled` and `repeated` are history variables.

### HumanGate

The columns of a request (`state`, `subject`, and the routing fields `count`,
`wake`, `assignee`), a clock and, per sweeper, the tick in progress: the time it
began at and the due rows it read. `SweepOne` is the per-row transaction, which
reads the row again under its lock. `Request` may pin the first follow-up.
Requests start with `followUpCount` 0, the schema's default, which is what every
caller in `S/` passes. `begun` is a history variable.

### Processes

The nodes of a run are work items of an instance of `WorkQueue` whose clock
stands still (the run's graph has no wakeAt and leases end here by release and
revocation; their lapse is `WorkQueue`'s subject). `gate[i][a]` is the review
request of attempt `a` of node `i`; `holds` are the requests that approve a wide
cascade or a graph change, `parked` the rows of `pending_actions` behind them,
`proposed` the changes between those two transactions. `inbox` is the part of
the log past the engine's cursor and `ahead` how much of the current batch is
handled: `Persist` writes the cursor, `Throw` and `Crash` lose what is not
written. `engine` is the handler in progress, with a program counter `phase`:
`Receive`, `PlanInvalidation`, `RequestPlan`, `ParkPlan`, `ReadStatuses`,
`Move` (one queue or gate transaction), `Executed`, `Finish`. `Moves` chooses
the transactions of a node from the status it was *read* in; whether they are
still possible is decided by `WorkQueue` when they are made. `supersedeResults`, between
superseding the requests of a done or reviewed node and `markStale`, is the call of the
`RunResultPort` (`S/processes/service.ts:579`): with `ResultPort` it returns, without it
the cascade throws there, as in the server, whose `main.ts:201-209` injects none and so
runs the stub of `service.ts:225`. `Gate` is an instance of
`HumanGate` over the same requests: `RequestState` and `About` give each its row, that
of a review being about its work item and that of a parked action about the run
(`S/processes/service.ts:359`), so that a cascade that supersedes what is about a node
leaves parked actions alone. `UsesTheGate` is the refinement. The requests of a run
have no SLA here, so the sweeps of `HumanGate` stutter.

### AgentHost

`loop` is the one `loopInFlight` of a resident, its `phase` the await it is at:
open the session, check the daily budget, claim, start the run, run, put the
result, complete, close. `WakeBy` is `wake`: it starts the loop or sets
`pendingWake`, and its caller waits (`thread`) until the loop ends. The
dispatcher's thread waits inside the handler of a watched event (`handleWatched`
of the sentinel's bridge, `OpenForEvent` then `WakeForItem`) or of the charter's
own subscription; the clock's thread waits inside its tick, after the queue's
reclaim source and before the next tick, so no lease is reclaimed while a
heartbeat's loop runs. `ModelCall`, `GiveUp` and `ExecutorThrows` are the
executor's turns, `KeepAlive` and `HeartbeatFails` the lease heartbeat beside
them. A run row keeps cost 0 while it runs, when its process died and when the
executor threw, which is what the daily sum sees. `looked` is a history variable:
the waiting callers since whose wake the loop has seen the queue drained or the
budget spent. Reading `pendingWake` and clearing `loopInFlight` happen in one turn
of the event loop, so they are one step; `ensure` is called by the boot sweep and by
handlers that run one after another, so one resident exists from the start.

### Delivery

`asked` and `heard` are the events that `delivery.cards` and `delivery.replies`
select, `cursor` their positions and `handler` the batch in progress of each
dispatcher with its handler: one at a time, since a cycle visits its subscriptions in
turn. `Batches` is what a dispatcher may read (`BatchSizes`: a batch is a number of rows
of the whole log, of which the consumer's events are some), `Done` goes on in the
batch, `Finish` writes the cursor at its end, and `HandlerDies` ends it before its end:
a throw writes the cursor up to the event that failed, a death writes nothing.
`TakeCard` reads the request and looks for the sent card (only this handler
writes rows), `Post` / `PostFails` / `PostUnheard` are the connector's `act`,
`RecordOutcome` the row with its event. `TakeReply` finds the card by its anchor, reads
the request and parses the words; `Resolve` is the gate's transaction. Inbound, `Receive` acknowledges an envelope (which Slack may
miss), `StoreDoc` is `ingestDoc` with its unique slug, and `Announce` the
transaction that appends `conversation.message`. A post's index is its `ts`; a
message is a thread and a word of the vocabulary that its kind of request knows or
not; messages come in one order (`NextMessage`), since nothing depends on their names,
and `MaxActs` bounds what people do. `by` and `repeated` are history variables.

### Boot

`phase` is how far `main.ts`'s boot is. A server starts with the migrations of some
build (`Plans`): modules of files, each with a name and the checksum of its text.
`applyMigrations` is a transaction per module (`migrating`), in which each file is looked
up (`ReadLedger`, which ends the boot when the ledger has another checksum under that
name) and applied with its ledger row (`ApplyFile`); the row's key makes a second server
wait for the first and die if that one committed. `SeedSkill` is a step of the dev seed;
`SweepTenants`, `LookUpPrincipal` ... `HostTenant` are the statements of
`ensureTenant`, run by the boot sweep for all tenants and by the consumer
`sentinel.tenants` for a new one. `Throw` is an error there: it ends a booting
process and leaves an event to come again. `swept` and `faults` are history
variables.

### Skills

A version is its unique slug and semver. `call` is an API request or an agent's
tool call: `Propose`, `AskApproval` and `LinkApproval` are propose's three writes;
`LoadVersion`, `CheckApproved`, `RetireActive`, `LockActive` and `Switch` are activate.
Its first statement sees the active versions of its snapshot, waits for the rows that
another transaction holds and retires those that are still active; under READ COMMITTED
a version that the other one activated meanwhile is not among them.
`StartTick`, `Fire`, `FinishScheduled` are the clock's source, `fired` its map in
memory; `CallTool`, `RunTool`, `FinishTool` a tool call. A server's `build` says
which manifest it registered under which slug; `Restart` may change it. `activator`
is a history variable.

### FollowUps

`Sweep` is the skill's run over the due items, `SweepItem` a run for a named one.
`CheckEscalation`, `Notify`, `Send` / `NotSent` and `Record` are its awaits; a
cadence that never fires throws after the nudge went out. `Cut` ends a run.

### Connections and FeedWatch

`sync` is `syncConnection` of each orchestrator: `FetchPage` (a page of the
channel's history, newest first, without its noise), `Ingest` of the oldest
message of the page, `NextChannel`, and `FinishSync`, the one transaction that
writes cursors, error and health. A channel's messages are numbered; a watermark is
a number. The ingest sink is any sink with the document store's unique slug; the
server at present wires one that throws, which `FeedThrows` includes. In
`FeedWatch`, `StartTick` is the select, `Flag` the compare-and-set of one row,
`RecordFeedSeen` an arrival.

### ContextStore and Retrieval

`req` is a call between two awaits: `PutBlob` / `InsertBlob`, `ReadBody` /
`InsertDoc` (the document may bring its summary), `LoadDoc` / `Answer` /
`WriteDistill`, `FtsArm` / `VectorArm` / `EntityArm`, `ReadNodes` / `ReadLinks`. The model's answer is one of a set, graded
by `Normalize`; an arm returns any order of the hits it may return, and ties of a
ranking come in either order. `Retrieval`
scales scores to whole numbers. Its chunker and fusion are checked against their
definitions over all small inputs by assumptions of `MCServices` (`ChunkerFits`,
`FusionIsReciprocalRank`).

### ProcessGraph

`Instantiate` inserts the run with its watch rules, `OpenNode` opens one item, in
topological order; a template whose edges go round is left with its rules and no
items. `ProposeGraphChange` and `ParkChange` are the request and its row, `BeginChange`,
`SkipNode`, `PlanNodes`, `AddNode`, `CommitChange` and `SettleChange` the engine's
handling of the approval. Only done and cancelled matter of a status here.

### Services

These eight services share no state but the spine and the clock, which `Spine` and
`Processes` model, so one specification joins them: a behaviour picks its service
at the start (`service`) and `x1`..`x12` are that service's variables under its own
`INSTANCE`. What holds of a service is an invariant of its own `Next` and of no
other's, which is also how the proofs are split. In `MCServices` the actors that
race in a service (`p1`, `p2`: sweepers, servers, calls, requests) are its symmetry
set.

## 3. Runs

| Run | Checks | Instance |
|---|---|---|
| `queue_chain` | `TypeOK`, `LeaseRidesExecution`, `LeaseDeathIsFinal`, `JournalExplainsStatus` under every operation; `DueIsServed` under a fair clock | two chained items, two workers, times 0..2, a lease of 1, two claims per item |
| `queue_join` | `DependencyGate`, `NoLostPromotion` without the invalidator | two upstreams and their dependent, one worker |
| `spine_one` | `Gapless`, `NoEventSkipped`, `HandledIsPrefix`, `OnlyFaultsRepeat`, the refinement `ImplementsOrderedLog`, and `EveryEventDelivered` under fairness | one dispatcher (the theorems have any number), two transactions, two consumers with different selectors of which one may fail for ever, batches of 2, 3 events, one fault |
| `process_line` | `CascadeKillsOldLeases`, `WideCascadesAreApproved`, `SettledRunsAreSound` (no promotion lost, nothing ahead of its inputs, no plan left behind) | three nodes in a line, a result port, one claim each, one document, one hold (a skip or a cascade wider than 2), one crash |
| `process_live` | `EngineMovesOn` (events are handled, a review moves its node) under a fair engine with a result port; the refinement `UsesTheGate` | two chained nodes, two attempts each with reviews, one crash |
| `agents` | `DoneItemsHaveResults`, `BudgetsHold`, `WakesAreServed`; `WorkGoesOn` under fairness | one item with two attempts, a lease of 1, two days, calls of 2 against budgets of 3, one watched event, one fault |
| `delivery` | `RepliesReachTheirRequest`, `AnnouncedOnce`, `CardsMatchEvents`, `FirstVerdictStands`; `RepliesAreHeard` under fairness | an approval and a question, three acts of people (two requests and a message; a request, its nudge and a message; a request and two messages), a batch is all there is to read, two envelopes at a time, two posts, one fault |
| `services` | 13 properties, below | below |
| `process_crash`, `process_late`, `delivery_doc`, `boot_wedge` | **violated**, see section 6 | the smallest instance that shows it |

The run `services`; each property speaks of one service, `TypesOK` of all:

| Service | Properties | Instance |
|---|---|---|
| `HumanGate` | `LadderClimbed` (one rung per SLA, to its end, no request forgotten), `SettledIsNotChased` | two requests, with an SLA and an escalation path and with neither, two sweepers, a tick that lags by 1 |
| `Boot` | `MigratedOnce`, `FleetsAreWhole` (up servers cover their tenants; only faults leave halves) | two servers, two builds (three files in two modules; one more file, and another text of the last), two seeds, a tenant, two watchers, two faults |
| `Skills` | `CurrentIsActive`, `SkillsRunAsApproved` (approved, the approved code on the activating server, once a minute) | one skill, two versions of two manifests, one server with two builds and one restart, two calls, two runs |
| `FollowUps` | `FollowUpsWereMade` | two items, one with an escalation, one with a cadence that never fires, two sweeps, one fault |
| `Connections` | `CursorNeverSkips` | two feeds of two and one channels, two messages of which one is noise, pages of one, two orchestrators |
| `FeedWatch` | `MissesGrow` | one expectation due every minute with a minute of grace, a scan window of 2, two orchestrators |
| `ContextStore` | `WrittenOnce`, `ProspectsStayOut` (searches and introductions) | two documents of one content, three entities, three possible answers, two calls, six operations |
| `ProcessGraph` | `GraphsAsApproved` (a change once, protected nodes stay, only crashes leave halves) | two templates (one with a cycle) and a dynamic run, two changes of three kinds, one crash |

The bounds are enough for the cases to happen: a lease of one tick can lapse and
be claimed again (two claims, three times); two items give a dependency, and
three a join or a chain of two edges, which is where promotion and cascades
differ; a batch of two out of three events can end inside and between batches,
and fail at its first or second event; two rungs and a lag of one let two sweepers
hold the same row from different times; a budget of 3 is crossed by the second call
of 2, and the day's end falls between two runs; two posts can be the cards of two
requests, a card and its nudge, or a card and its repetition, and batches of two fail at
their first event, at their second or behind it; two servers meet on every key of the
start-up, of one build or of two; pages of one message put a post, a failure or another
orchestrator between any two; a scan window of 2 in 4 minutes cuts off old misses; a
third entity makes an introduction of two hops over one that may be a prospect.
`MaxTime`, `MaxAttempt`, `MaxSeq`, `MaxFaults`, `MaxDocs`, `MaxCrash`, `MaxEvents`,
`MaxActs`, `MaxPosts`, `MaxMinute`, `MaxRuns`, `MaxRestarts`, `MaxClock`,
`MaxDisables`, `MaxOps` and the sets `Messages` and `BatchSizes` of `delivery` are the
bounds, all in guards. Deadlock is not checked because every instance stops when its
bounds are used up; the code itself polls.

## 4. Fairness

* `WorkQueue`: weak fairness of `Advance` and of `Tick(now, {})`. The clock is a
  `setInterval` that survives a failing source (`S/spine/clock.ts`), and a row is
  skipped only while a transaction holds it. Nothing is assumed of workers.
* `Spine`: weak fairness of the steps of a cycle (the poll timer re-arms and each
  statement ends), and strong fairness of a successful handler for the consumers
  in `Reliable` only. The others may fail for ever, which is the point.
* `Processes`: weak fairness of the engine as a whole. Workers, reviewers and
  documents are not fair. Their moves are bounded by the attempts of a node, so a
  cascade that is interrupted by them is not interrupted for ever; this bound is
  part of what `process_live` says. So is the result port, which
  `apps/server/test/integration/processes.pg.test.ts:131` injects and the server does
  not: as it is wired, the property fails (`MCProcessesStub.cfg`, section 6).
* `AgentHost`: weak fairness of the clock's tick, the dispatcher and the loop's own
  steps (timers re-arm, statements and model calls end: the executor has a turn
  and a time limit), strong fairness of the heartbeat (its cron matches now and
  then). Nothing is assumed of the lease heartbeat or of other workers.
* `Delivery`: weak fairness of a dispatcher's and an inbound handler's steps,
  strong fairness of taking up each consumer's next event, because a cycle visits
  both. Posts may fail for ever; people need not answer.
* `Boot`: weak fairness of every server's steps, the restart by a supervisor
  included. Faults are bounded, and even so `BootsSucceed` fails.
* The other services have no liveness run. For the gate, `NoRequestForgotten` (a
  conjunct of `LadderClimbed`) is the safety half (a
  follow-up is always scheduled, at most one SLA ahead), the clock's fairness the
  other.

## 5. Proofs

TLAPS proves these for every value of the constants, from the assumptions named in
the modules. Every safety property of the passing runs is a theorem.

### Assumptions

Sets of identifiers are any sets and bounds any naturals. What is assumed beyond
that, and why:

* A null is none of the values it stands beside: `LeaseAssumption`, `IdleAssumption`
  and `SpineAssumption` (`NoTx`), `SenderAssumption` (nobody, or the portal, is not
  an inbound message), `RunAssumption`, `QueueAssumption` of the agent, and in
  `ServicesAssumption` the like of each service.
* A dearest model call exists (`BudgetAssumption`): the price list is finite.
* A run has finitely many nodes (`RunAssumption`), the follow-ups finitely many sweeps
  that overlap, and the context store finitely many documents and entities: tables and
  processes are finite.
* The files of a build's migrations have names of their own (`BootAssumption`): module
  and file name, the ledger's key (`S/db/migrate.ts:103`). A plan has them in the order
  in which they are applied.
* The edges of a template join its own nodes (`GraphAssumption`), as the schema in
  `C/process.ts:72` demands, and a dynamic run starts with none.
* The configurations of the queue, the engine and the clock have the ranges that
  their schemas have (`TimeAssumption`, `EngineAssumption` and the like); a node that
  may be skipped is a node of the run.

Four theorems have a hypothesis of their own. `OneDispatcher` (one orchestrator runs
the dispatcher) in `OnlyFaultsRedeliver` and `LedgerTellsTheCards`: two dispatchers
deliver an event twice without any fault, and section 6 has the reply that is lost
that way. `EachAdds` (every change that a policy lets through adds a node) in
`GraphsChangeAsApproved`: a change that adds none finds nothing in its way when it is
delivered again after a crash between its commit and the deletion of its
`pending_actions` row (`S/processes/service.ts:372`), and counts for two revisions.
The instance of `services` satisfies both the hypothesis and the property.

`Forest` and `OnlyLeavesSkipped` in `SettledRunsStaySound`: no node has two upstreams,
the edges close no cycle, and what may be skipped has no dependents. The code gives
the second (an instantiated run has a topological order, `GraphsStayWhole`). It does not
give the others, and without them the property is false: section 6 has the join that
breaks it, and the dependents of a skipped inner node wait for ever. The instance of
`process_line` satisfies both hypotheses and the property.

### Theorems and their inductive invariants

`WorkQueueProofs`:

* `TypeCorrect`: `Spec => []TypeOK`.
* `LeasesRideExecutions` (`LeaseInv`): with the types, a run id out of `issued` is at
  most the attempt of its item.
* `DeadLeasesStayDead`: an action property. A claim writes a run id larger than every
  issued one, and only the live holder renews.
* `DependenciesEnforced`, `NoPromotionIsLost`: `WorkerSpec` keeps `DependencyGate` and
  `NoLostPromotion`. They need each other and the fact that `done` is final without
  the invalidator (`DependencyInv`): whoever makes the last upstream done sees all
  the others done and promotes.
* `JournalIsATransitionLog`: action by action, the path that a transaction announces
  for an item begins at its old status, ends at its new one and takes legal hops, the
  promotions of its dependents included.

`SpineProofs`, for any number of writers, dispatchers, crashes and failures except
where `OneDispatcher` stands:

* `TypeCorrect`: `Spec => []TypeOK`, which the run leaves to the proof.
* `OutboxIsGapless` (`SeqRowInv`): the holder of the sequence row is the
  only transaction with uncommitted rows, and they are `lastSeq+1 .. ownSeq`.
* `NoEventIsSkipped`, `DeliveryIsOrdered` (`SpineInv`): of every delivery in progress,
  each selected event at or below its own position is handled, and its batch holds
  every committed event between its position and the batch's last. Then it does not
  matter whose cursor write comes last.
* `OnlyFaultsRedeliver` (`SteadyInv`): while there was no fault, a consumer has handled
  nothing beyond its cursor or the delivery that will write it.
* `SpineIsAnOrderedLog` (`RefineInv`): `Spec => ImplementsOrderedLog`. A commit is a
  publication, the first handling of an event a delivery, every other step a stutter.

`ProcessesProofs`:

* `WideCascadesNeedApproval` (`Answered`, `PlansAreApproved`): an event of a verdict, in
  the inbox or in hand, says what its request says for good, and a wide plan comes to
  its moves only by an approval.
* `CascadesKillLeases` (`LeasesAreRevoked`): of a cascade in progress, each lease that was
  out when the statuses were read is dead or its node has moves left, and no step of
  the queue revives one.
* `NoPlanIsLeftBehind` (`AheadInv`): `ParkedPlansAwaitAnswers`, a conjunct of
  `SettledRunsAreSound`. A plan whose request is answered has the answer in the inbox or
  in the engine's hands, through crashes before and after the row's deletion.
* `SettledRunsStaySound`: `Spec => []SettledRunsAreSound`, on forests. It is the
  argument for a cascade of single transactions that reads the statuses once, and says
  of every intermediate state why nothing is lost. Its invariant has two parts.
  - `Book`: a plan that is parked or in hand is closed under dependents, nearer nodes
    first (`SoundPlan`); each request is answered once; what the handler has in hand is
    what its event asked for.
  - `NodesAreSound`, between cascades (`Resting`): a node that may run, runs or has run
    hangs on a finished upstream with nothing but parked nodes between
    (`ExposedAreAnchored`); if its own upstream is unfinished, it hangs on a node whose
    invalidation is still to come (`ExposedAreCovered`, `Later`), from a queued document
    whose cascade needs no approval, or from an approved plan; a parked node whose
    upstreams are finished waits for a rerun that is still to come (`WaitsAreExcused`,
    claimed only while no process died). In the midst of a cascade (`UnderWay`) the same
    holds of the statuses together with the moves left to make.
  At rest nothing is to come, and what is left of the invariant is the property. It holds
  with a result port and without one: a cascade that throws leaves its event in the inbox,
  so the run is not at rest.
  `WalkIsSound` shows that `walkDependents` returns such a plan. The invariant was checked
  with TLC first, on the line with its skips, holds and crash and on a tree of four.
* `CascadesUseTheQueue`: `Spec => [][Queue!Next]_(Queue!vars)`.
* `EngineUsesTheGate`: `Spec => UsesTheGate`, the refinement of `HumanGate`. What an
  operation does to one review or one parked action is an update of one row of the gate
  (`OneReview`, `OneHold`); superseding a node's requests is `SupersedeForSubject` of its
  work item, or a stutter when nothing is left to supersede (`RequestsSuperseded`).

`AgentHostProofs`:

* `EveryWakeIsServed` (`HostShape`, `ServedInv`): a waiting caller was looked after, or
  the loop has its drain ahead of it, or `pending` is set.
* `ResultsPrecedeCompletion` (`ResultInv`): where a loop is about to complete with done,
  the result of its run is stored; results stay.
* `BudgetsAreKept` (`SumsHold`, `InFlight`, `BudgetLeft`): a run in flight may spend what
  the day had left when it began and calls only until that is passed, so each budget is
  passed by one dearest call at most. The sums are folds over the rows since a day; `FoldFacts`
  has what a changed or added row does to them.
* `AgentWorksTheQueue`: `Spec => Queue!Spec`, the refinement of `WorkQueue` under the
  identity of its variables.

`DeliveryProofs`:

* `TypeCorrect`: `Spec => []TypeOK`, which the run leaves to the proof.
* `TheFirstVerdictStands`: an action property of a request's row.
* `MessagesAreAnnouncedOnce` (`AnnounceInv`): the document's slug lets one of the
  concurrent envelopes through, and nobody else announces.
* `RepliesResolveTheirCard` (`ReplyInv`): the rows and the handlers agree with the
  anchors of the posts they name (`LedgerAnchored`, `HandlersAnchored`), and who
  resolved a request says what he said (`AnsweredBy`).
* `LedgerTellsTheCards` (`CardInv`), for one dispatcher and batches of any length: the
  rows of a pending request keep up with what is handled (`LedgerKeepsUp`), whether the
  cursor or only the batch in hand has come so far (`Passed`), and one card is free while
  every further one cost a fault (`CardsBounded`).

`RegistryProofs`:

* `SchemasAreMigratedOnce`, `FleetsStayWhole` (`StartInv`): the ledger has one text of a
  file, behind all that some build puts before it; a migration has every earlier file of
  its build, with its text, in the ledger or in its own transaction, and no two
  transactions hold one name (`SchemaInv`); so a server that is up has the whole schema of
  its build. What is half seeded or half ensured is in the hands of a live server or was
  cut by a fault (`SeedInv`, `FleetInv`).
* `SkillsPointToActiveVersions`, `OnlyApprovedSkillsRun` (`SkillInv`): what an
  activation or a tick has loaded was approved, and approval is final; the build of a
  server stays as long as it lives, so what activation compared still holds when it
  runs; what a tick has still to fire was not fired in its minute.

`ServicesProofs`:

* `LaddersAreClimbed`, `SettledRequestsRest` (`GateInv`): rung n of a
  request lies n SLAs after its first wake or later (`Scheduled`, `Climbed`), an SLA
  keeps a wake pending (`Remembered`), and no sweep is ahead of the clock.
* `MissesAreAnnouncedOnce` (`WatchInv`): the count in a row is the last one announced,
  and a tick's compare-and-set fails when the row has moved on.
* `ContactsOnRecordWereMade` (`FollowUpInv`): who is about to record has sent, and
  the notices of an item and those about to be opened are at most one per sweep.
* `WatermarksSkipNothing` (`SyncInv`): what lies below a page's bound or a channel's new
  watermark has landed, for the cursors a sync read as for those it will write.
* `StoreWritesOnce`, `ProspectsAreKeptOut` (`ContextInv`): an event is announced once, of what
  is in the store (`EventsSound`); the rankings a search holds between its arms leave
  out what was a prospect when it began, and the nodes that an introduction read are as
  they were (`RequestsSound`).
* `GraphsStayWhole`, `GraphsChangeAsApproved` (`GraphInv`): an item's upstreams come
  before it (`ItemsSound`), a run is wired, or its caller will finish it, or a crash
  came between (`RunWhole`, `CallerSound`); the engine's next insertion and the
  rows agree on how far a change is (`ChangesSound`, `EngineSound`, `InboxSound`), and
  the revision counts the committed changes (`CountSound`).
* `TypesAreKept`: `TypesOK`, the type invariants of all eight services.

### Induction

The library's induction theorems take an operator as a parameter, which the provers
cannot instantiate. `FoldFacts` argues from a least counterexample instead: a nonempty
set of naturals, or of finite sets, has a least member (`LeastNat`, `LeastSet`, from
`WFMin`), and a function defined by recursion over a finite set or a sequence exists
because a least one of its partial functions could be extended (`RecursionExists`).
So what `CostOf`, `FlattenSeq` and a sorted order compute is proved, not assumed, down
to which place of which part a place of a concatenation is (`FlattenPlaces`).

### Only model-checked

* Liveness, which is out of the prover's reach under fairness: `DueIsServed`,
  `EveryEventDelivered`, `EngineMovesOn`, `WorkGoesOn`, `RepliesAreHeard`.
* `Retrieval`'s chunker and fusion, recursive operators that TLC compares with their
  definitions over bounded inputs.
* The disagreements of section 6, which are refutations.

## 6. Where the code and its documents disagree

Each is a run that TLC refutes; `PROJECT.json` quotes the lines.

* `process_crash`: with a result port injected, a crash between `markStale` and
  `revive` leaves the dirty node stale for good; the redelivered cascade has nothing
  to move.
* `process_late`: with a result port injected, an approval handled after a cascade
  finishes the next attempt.
* `delivery_doc`: a message whose document is stored and whose event is not is
  taken for a repetition when Slack sends it again, and never announced.
* `boot_wedge`: a process that dies between a watcher's prompt and its charter makes
  every later boot throw on the prompt's slug; "running ensureDefaults on every
  boot" is not safe.

More, seen on the same models and without a regular run:

* `MCProcessesStub.cfg` (`ReviewMovesNode`): as the server is wired, a denied review
  never moves its node. Between superseding the node's requests and `markStale` the
  cascade calls the result port (`S/processes/service.ts:579`); the default one throws,
  the event is delivered again for ever and the engine's subscription stays there. That
  the stub throws is meant (`apps/server/test/modules/processes.test.ts:18`); that it
  stops the engine is not written down. The runs of `Processes` inject a port.
* `MCProcessesJoin.cfg` (`NothingRunsAhead`): a dependent that becomes ready
  between the cascade's reading and its moves stays ready while the dirty upstream
  runs again. It takes a join; on a line of nodes the property holds.
* `MCProcessesRace.cfg` (`ParkedChangesAwaitAnswers`): a graph change approved
  between its request and its row is never applied.
* `MCProcessesReplay.cfg` (`EventsAreHandled`): a crash after the skipped node was
  cancelled makes every redelivery throw and blocks the engine.
* `MCAgentHostTwice.cfg` (`OneItemPerEvent`): a crash, or a loop that throws, after
  the bridge opened its item delivers the event again and opens a second item.
* `Skills.RunsApprovedCode`: invoke compares no checksum, so after a deployment a
  server runs its own manifest under the approved version, against
  `S/skills/service.ts:31`; `Skills.OneActiveVersion`: two overlapping activations
  leave two active versions (the pointer is at one of them).
* `Connections.DisabledIsSticky`: a probe or sync that began before writes healthy or
  degraded over disabled, against `S/connections/shared.ts:116`.
* `FeedWatch.OnlyMissesAreFlagged`: a tick that read the row before an arrival
  announces a feed as missed that was just seen.
* `ProcessGraph.OneLiveItemPerKey`: a change that adds a node whose template item a
  slow instantiate has still to open gives its key two items. And seen while
  modelling: a change that is no longer valid when its approval is handled throws
  for ever; a template with a cycle leaves an active run with rules and no items;
  the dependents of a skipped node wait for ever.
* A message that was stored before a feed failed makes each later sync of its channel
  throw on its slug, until somebody moves the watermark (`Connections.Ingest`). No
  liveness property holds there.
* With two dispatchers in `Delivery`, a quick reply is handled by one while the
  other has posted the card and not yet recorded it: the reply is dropped.

One disagreement is between two comments rather than with the code, and has no
run: an item opened with a wakeAt *and* dependsOn becomes ready at its wakeAt with
its upstreams unfinished. `C/work.ts:32` says so, `S/work/index.ts:25` says that
it stays pending "until every upstream is done". `DependencyGate` and
`NoLostPromotion` therefore speak of items without a wakeAt.

## 7. Plan and what is not modelled

The order follows the damage a fault would do: the queue and the spine first,
because everything rests on them; the gate and the engine next, because they
decide what runs again and what a person approved; start-up and the services
around them after that. What is left, in this order:

1. The SLA of the requests that `Delivery` and `Processes` use: an expiry there is a
   verdict from elsewhere or does not happen, so `Delivery` implements `HumanGate`'s
   transition table (`TheFirstVerdictStands`) and not yet its ladder.
2. `WorkTx`: the statements inside the queue's transactions (row locks and the
   tenant's sequence lock), to show lock order and that they refine `WorkQueue`.

Not modelled, and why: custody's token vault (a map with expiry, one call each); the
API's routes, which parse a request and call one modelled operation; the tool that
seeds the dev tenant, run by hand; the Slack client and the other
connectors, skills and packs (I/O, prompts and data); the portal and the development
tools; artifacts and systems of record, stubs that throw, as the default run-result port
does, which is a constant of `Processes`. In the
modelled components: `reassign`, notes, contacts and search of the queue, which touch
no modelled column (`FollowUps` has the contact); the audience of a claim;
`raise_finding`, a single transaction; the registration of a connection and of its
credentials; cron expressions and event selectors, which are the sets of minutes and
events that they match.
