# Quik.day in TLA+

Quik.day turns a prompt into a *run*: an LLM planner writes a plan, a person
approves its risky steps, and a worker executes the steps against connected
apps, while a browser follows. This directory models the parts of the
repository that decide what happens to a run, checks them with TLC and proves
what matters most with TLAPS. Paths below are relative to `src/`.

## The system

| Component | State it keeps | Operations | Talks to |
|---|---|---|---|
| Run store (`packages/prisma`, `runs.service.ts`) | one row per run: status, mode, config (`resumeFrom`, `approvedSteps`), plan column, missing fields, output | create, update | written by API and worker without locks or version checks |
| Run API (`runs.controller.ts`, `runs.service.ts`) | the requests in flight | create, approve, cancel, continueWithAnswers, confirm, set-pending-apps-install, refresh-credentials, undo | row, queue `runs` |
| Queue `runs` (BullMQ on Redis) | jobs with a frozen payload, attempts, stalls | add, retry (3 attempts), redeliver when stalled | API adds, run worker takes |
| Run worker (`queue/run.processor.ts`, `create-graph-event-handler.ts`) | the job in progress, the graph's state, un-awaited promises | pick up, mark RUNNING, run the graph, persist the result, write the final status | row, agent graph, event bus |
| Agent graph (`packages/agent`: `buildMainGraph.ts`, `nodes/`) | scratch (goal, plan, answers, vars), output, error | extractGoal → planner → confirm → executor → summarize / fallback | LLM, registry, step queue |
| Step queue (`nodes/executor/queue.ts`, `step-run.processor.ts`) | jobs of single steps, 2 attempts each | add and wait 60 s, take, call | executor adds, step worker calls the registry |
| Tool registry (`registry/`) | tools, a circuit per tool, rate buckets, the idempotency cache (15 min, in memory) | register, call | apps |
| Credentials (`credentials/`) and the services of Gmail and Google Calendar (`packages/appstore`) | accounts of users: tokens, expiry, the current profile, invalid | connect, select, validate, delete, resolve, refresh, store | step rows, tools, the provider |
| Chat items (`chat.service.ts`, `chat-item-orchestrator.service.ts`) | the chat of a run and its items | write an item, announce it | worker → bus |
| Event bus and WebSocket (`packages/libs/pubsub`, `websocket/`) | subscribers, recent events, sockets | publish, subscribe | chat → browser |
| Web client's stream (`apps/web`: `apis/runs/client.ts`, `websocket.ts`, `useWebSocketEvents.ts`, `Chat.tsx`) | a socket and a poller per run, the messages of the chat | open, leave, reconnect, poll, fetch an item, hydrate | WebSocket, API |
| OAuth state and auth (`auth/`) | signed state | issue, verify | identity provider |
| Everything else | queries and enrichment (read only), templates, teams, users, e-mail, telemetry, logging, other integrations, the components of the web client, landing page, SDK, crypto | | |

What is hard about it:

* **Handlers and worker share a row and nobody locks it.** Every endpoint
  reads, awaits, and writes unconditionally. The worker reads the row once and
  works for minutes on that copy.
* **One run, several jobs.** Each approve, continue and confirm adds a job; a
  canceled run's job stays; a failed job is retried; a stalled job is handed
  out again.
* **Un-awaited writes.** `persistPlan` reads and rewrites `output` while the
  worker goes on to write it too; most chat items are written without waiting.
* **Restart from the first step.** A resumed executor runs the plan again; only
  the idempotency cache keeps earlier steps from happening twice.
* **Approval by step id.** `step-01` names a step of whatever plan is current,
  and every child it expands into.
* **A queue that grows while it is worked on.** A step that expands over a list
  puts its children in front of the steps that follow.
* **Late calls.** The executor waits 60 s for a step, but the step's job stays
  in the queue and is executed whenever the step worker gets to it.
* **Accounts without transactions.** A profile switch is two updates, a tool
  call resolves its account up to three times, and every refresh merges into a
  key it read earlier.
* **Events are not kept.** Who is not connected when an item is announced never
  hears of it, and sockets, timers and pollers outlive the view that made them.

What makes each component correct, in one line: *store and API* never leave a
run waiting for nobody; *worker* always gets a run out of RUNNING, and its
output names only what happened; *planner and executor* lose, repeat and reorder
no step, perform no high-risk step that was not approved, and nothing at all in
modes that only plan; *step queue* keeps the plan's order, bounds the calls and
repeats an effect only where a result was lost; *accounts* honour the user's
choice and never store a token with another's expiry; *chat items* leave no
message out and close the job only after the row did; *client* has one listener,
shows nothing twice, and is deaf or loses something only for a reason that has a
name.

## Modules

| Module | Models | Built on |
|---|---|---|
| `RunStore` | the row, the jobs, the cache, the effects, how a run is created | |
| `RunApi` | the endpoints, one action per stretch between awaits | `RunStore` |
| `RunProcessor` | the run worker, the graph as the worker sees it, crashes | `RunStore` |
| `RunLifecycle` | both interleaved; fairness; all properties of a run | `RunApi`, `RunProcessor` |
| `ApprovalGate` | what the approval flow promises, without rows, jobs and plans | |
| `Circuit` | the circuit breaker as operators on a record | |
| `StepQueue` | executor, step queue, step worker, registry with circuits and cache, per process | `Circuit` |
| `AgentPlan` | what the planner makes of a draft: a pure module | |
| `AgentExecutor` | the executor's loop, one action per way through it | `AgentPlan` |
| `AgentGraph` | the nodes and routes around it; its properties | `AgentExecutor` |
| `StepWalk` | what the executor promises, whatever its steps expand to | |
| `EventFeed` | the chat items of a run's jobs and their announcements | |
| `Announcements` | what a browser may count on | |
| `RunStream` | bus, WebSocket and one browser tab | `Announcements` |
| `Accounts` | the accounts of one user for one app, and the tool calls that use them | |
| `RunLifecycleProofs`, `RunEffectProofs`, `StepQueueProofs`, `StepEffectProofs`, `AgentProofs`, `AccountsProofs`, `EventFeedProofs`, `RunStreamProofs` | the theorems | the module of that name, TLAPS |
| `MCRunLifecycle`, `MCStepQueue`, `MCAgent`, `MCEventFeed`, `MCRunStream`, `MCAccounts` | constants and symmetry for TLC | |

How they fit together: `RunProcessor` sees the graph as the worker does
(plan, steps one after the other, an outcome) and `AgentGraph` is the inside of
that; `RunLifecycle` takes a step's call as one that ends while the executor
waits, `StepQueue` opens that up; `EventFeed` implements `Announcements`, and
`RunStream` has `Announcements` for its server. The abstract modules
(`ApprovalGate`, `StepWalk`, `Announcements`) are checked as properties of the
detailed ones.

### RunStore, RunApi, RunProcessor

One run is modelled: every handler and job is keyed by a run id. `run` is its
row, `queue` the BullMQ jobs carrying it, `reqs` the HTTP requests in flight,
`proc` the jobs being processed, `tasks` the un-awaited `persistPlan` calls.
`ran` counts effects on the outside world (0, 1, Many), `cache` is the
idempotency cache, `shown` is what the user was last asked about and `consent`
what was approved; the last two exist only in the model.

A handler becomes several actions, cut where the code awaits: `approveSteps` is
`Approve` (read, check the status), `ApproveWrite` (one update), then `Load` and
`Add`, the two halves of `enqueue`, which re-reads the row. The worker is
`PickUp` (the only read of the row), `MarkRunning`, `MakePlan`, the executor's
loop (`SkipStep`, `HaltForApproval`, `Lookup`, `CallTool`, `CallFails`,
`FinishPlan`), `SummarizeFails`, `Persist` and `Settle`. `WriteFails` and
`ErrorEscapes` are a write that throws, inside `process`'s try and outside it
(before it, or in the error handler). `LoadTask` and `WriteTask` are
`persistPlan`. `Crash` kills the process; `Evict` lets a cache entry expire.

A plan is an identifier; all plans have `NSteps` steps, and a step id is a
number that does not name its plan, as in the code. `NoPlan` stands for a plan
with nothing to execute.

Faults are switched on per run through the constant `Faults`: `tool` (a step
fails), `ambiguous` (it fails after its effect), `llm` (summarize throws),
`skip` (a dependency had no output), `evict`, `queue` (Redis refuses a job),
`clash` (two enqueues in one millisecond share a job id), `db` (a write of the
worker throws), `crash`.

### Circuit, StepQueue

Each process has one run worker, one step worker and its own registry; the
queue `steps` is shared. `exec` is the executor of each process, `worker` the
call in progress, `jobs` and `waiting` the queue, `streak` counts failed calls
in a row (only in the model). `StartRun` registers the `Rebuilt` tools again,
as `buildMainGraph` does; a call in progress keeps the circuit it began with
(`stale`). `Timeout` is the 60 s timer: it may fire whenever the job is not
finished, and leaves the job where it is. A failed job reaches the executor as
a message without a code, so `Refused` never retries; a direct call
(`chat.respond`) keeps its code and is retried. The rate limiter is only the
fault `limit`, a call turned away before the circuit is asked. That resetMs has
elapsed is a choice. All jobs of a run have the arguments of their step, so
(run, step) is the idempotency key. `Evict` and `Crash` lose remembered results,
and a call may fail after its effect; `lost` remembers for which keys that
happened, and `skipped` which steps an executor left out. BullMQ hands the job
of a dead step worker out once more.

### AgentPlan, AgentExecutor, AgentGraph

`AgentPlan` translates the planner's pure functions. A draft step says which
tool it names and how the model filled the arguments: valid, empty, wrong, a
reference to every item of an earlier step's list, or to one value of it.
`MakePlan` parses or falls back, drops unknown tools and invalid arguments
(`PatchAndHardenPlan`, `Kept`), renumbers (`FinalizeSteps`, after which a
reference may mean another step) and turns list references into an expansion
over a variable the producer binds (`NormalizePlanToExplicitExpansion`). A
reference to one value is never replaced: the pattern meant to do it
(`planNormalize.ts:117`) ends in `\b` inside a template literal, which is a
backspace; the step then fails with E_ARGS_UNRESOLVED.

`AgentExecutor` is the loop over `planQueue`: `Expand`, `SkipBlocked`,
`RefuseArgs`, `HaltForApproval`, `CallSucceeds`, `CallFails`, `Finish`, with the
guards in the code's order. `vars` keeps of each bound list its length, `empty`
is `hasOutput` being false, and `calls` is what the outside world saw.
`AgentGraph` adds the nodes, the routes between them, `safeNode`, which turns an
error of the planner, confirm or executor into `state.error` (summarize is not
wrapped, and its error leaves the graph), and three
entries: a fresh run, a resumed one with a stored plan, and the plan endpoint.

### EventFeed, Announcements, RunStream

`EventFeed` takes the six ways a job ends as scripts (`Script`): messages and
writes of the row in the code's order, each either awaited or a `Writer` of its
own. A writer finds or makes the chat, checks for a repeated status, writes and
announces; between its awaits others run. `chatless` says that the run's chat
could not be made at creation. A run has several jobs, one after the other
(`jobs`, `NextJob`): retried, approved or continued, it keeps its chat and its
newest status (`last`), and writes of an earlier job may still be going on. What
they may be follows from the mode and from whether a job resumes at the executor
(`Fits`, `Possible`). An item is a message and the job it is of.

`Announcements` says what of this a browser may count on: items are written once,
announced once and only after that, and an item that closes a job (`Closing`) is
written while the row has its status; the run may start again (`Restart`).

`RunStream` is a tab that opens a run, leaves it and comes back. `socket` has a
state per stream (unused, connecting, open, waiting for its timer, failing,
shut, and ended: closed cleanly by the other side, after which `handleClose` does
nothing more), `registered` and `poller` are the client's two maps, `wire` and
`fetching` the announcements and requests under way, `hydrate` the requests for
the whole run, which the page makes while it has no message of it. A fetched
message is added to those there are, but one of type 'run' takes the place of
the last such message (`Shows`, `tip`); which items make one (`runItems`) is
chosen at the start, as a status that waits for an approval makes a plan if it
names steps and a run if it names none. For the properties `arrived` says what
was fetched, `stopped` that a poll found the run over, and `missed` why an item
cannot arrive: announced while no socket was open, lost with a connection or a
failed request, or overwritten by a hydration.

### Accounts

`rows` are the Credential rows, in the order of `createdAt`. `Connect` is the
OAuth callback, `Delete` one endpoint; `SelectFind`, `SelectUnset`,
`SelectSet` are `setUserCurrentProfile` cut at its awaits, `ValidateRead` and
`ValidateMark` `validateCredential`. A tool call (`eff`) goes through
`Plan` (the account shown with the step), `Resolve` (twice for a mail, once for
the `From` header and once for the client), `Ask`, `ReadBack`, `WriteBack` (a
refresh merged into the key read back), `Call`, and what is stored afterwards:
by `persistTokensIfChanged` in the calendar service, inside the call, and by a
listener nobody waits for in Gmail (`save`). A token is the account it was
issued for and the time it expires. Time passes in ticks. `Faults` says what may
fail: with `answer` the provider makes the effect and the answer gets lost, with
`database` any read or update of a call, a selection, a validation or the
listener throws and has changed nothing. `cause` remembers, for the properties,
which of the two a failed call met.

## Runs

All runs end in a state space TLC explores completely, except the refutations,
which stop at a counterexample. `CHECK_DEADLOCK FALSE` in all but `Agent`: a run
that is DONE with the user's `Budget` used up, a job with all its items written,
a run that is not resumed, a tab the user left, or accounts with `MaxWork` used
up have nothing left to do. `AgentGraph` is checked for deadlock, and stays
where it ended.

| Run | Instance | Shows |
|---|---|---|
| `Lifecycle` | 2 steps, 2 workers, 2 requests in flight, 2 requests in all, every creation, every endpoint | `NoForgottenRun`, `RunningIsWorkedOn`, types |
| `LifecycleOneWorker` | 2 steps, 1 worker, created from a prompt or a plan, every endpoint, arbitrary approvals; tools, summaries, enqueues and writes fail | `EffectsAtMostOnce`, `HighRiskGated` |
| `LifecycleFaults` | 1 step, 2 workers, every fault but `db` | `CommitsHappened`, `GateInv`, `ImplementsGate` |
| `LifecycleLive` | 1 step, 1 worker, fair server | `DueReachesWorker`, `RunningEnds` |
| `LifecycleApproved` | 3 high-risk steps, 2 plans, created in mode auto, no faults, an attentive user | `WholePlanDone` |
| `StepQueue` | 1 process, a run of 3 steps executed twice, every fault | `EffectsInOrder`, `OneEffectPerKey`, `CallsBounded`, `ExecutionEnds`, types |
| `Agent` | 8 drafts of up to 3 steps, lists of up to 2, 3 sets of approvals, every mode and entry | `PlansBeforeActing`, `RiskIsApproved`, `CommitsInOrder`, `EveryStepAccounted`, `NothingFoundNothingDone`, `Terminates`, `WalksThePlan`, types |
| `EventFeed` | 2 jobs (1 if the chat has to be made), 6 endings each, 1 write that outlasts its job | `MessagesBecomeItems`, `ClosesTheJob`, `AnnouncesAsPromised`, types |
| `RunStream` | 2 items, one of which closes the job, the run resumed at will and opened twice, 1 request for the whole run, 1 reconnect, 2 failures or clean closes | `ShownOnce`, `OneListener`, `NeverDeaf`, `NothingElseLost`, `PollerEnds`, `Delivered`, types |
| `Accounts` | 2 accounts, 2 selections at once, 1 validation, 2 tool calls, 3 operations in all, 2 ticks, answers that get lost, a database that fails | `ChoiceHolds`, `EffectAccount`, `KeysWhole`, `MadeThenFailed`, types |
| `RefuteCancel` | cancel | a canceled run still executes |
| `RefuteAccount` | the instance of `Accounts` | a tool call uses another account than the selected one |

Why the bounds suffice. Two requests and two workers are the smallest instance
in which a handler races a handler, a job races a job and a handler races a job;
all the interference goes through one row, so a third party repeats what one of
the two already does. Two job slots hold the job being processed and one behind
it. Two attempts make a retry happen once. Two steps give an approved step
before an unapproved one; plans matter only by being equal or not. In
`StepQueue`, a second execution meets the late jobs of the first; three slots
are more than the jobs that then coexist; the circuit's threshold is 1 and
withRetry retries once there, so that the retry of a failed call meets an open
circuit and retries end. In `Agent`, three steps give a chain of two expansions
and a step behind an expanded one; two items are the fewest that make an order;
the drafts cover every way the planner treats one (`MCAgent`). In `EventFeed` a
second job meets everything the first one left, in the chat and under way; a
third would find nothing else, since only the newest status is looked at. What
is bounded is how many writes of the first may still be under way (`MaxLate`)
and that a run whose chat has to be made is executed once (`MaxChatless`); the
proofs have neither bound. In `RunStream` a second stream meets every leftover
of the first; the page may ask for the whole run again while no answer has come
(`MaxHydrations`), of which the proofs take any number; `MaxTries` is 10 in the
code (`websocket.ts:39`), of which only that it runs out matters. In `Accounts`
two rows tell newest, current and other apart, and two calls share an
account; with tokens that live for 2 ticks and a margin of 1 it also passes.
The counters that would grow are bounded by `Budget`, `MaxExecs`, `Jobs`,
`Slots`, `MaxJobs`, `MaxStreams`, `MaxFaults`, `MaxRows`, `MaxWork` and
`MaxTime`; `ran` saturates at `Many` and a circuit's failures at `Threshold`,
which is all they are compared with.

What the runs leave out, and why the property would not hold with it:
`NoForgottenRun`, `RunningIsWorkedOn` and the liveness properties exclude
`queue`, `db` and `crash` as far as they matter to them (an enqueue that fails
after the status was written, or a process that dies between the two, leaves the
run APPROVED or PENDING for good; a write that fails before the try or in the
error handler, or a job that stalls twice, leaves it RUNNING for good).
`EffectsAtMostOnce` excludes `evict`, `ambiguous`, `crash` and a second worker:
with two processes, each with a cache of its own, a step may have its effect
twice. `WholePlanDone` is about runs created in mode auto that meet no fault: one
created in another mode is resumed without its plan (`ResumedJobHasPlan`, below).

Several properties name the exceptions the code has instead of excluding them.
`MessagesBecomeItems`: a status that repeats the newest, or a chat that was
raced for. `ClosesTheJob`: a job that waits or fails just as the one before it
did, whose closing status counts as a repetition (`chat.service.ts:315-346`
compares with the newest status of the whole run, and `approveSteps` writes
none). `NeverDeaf`: a socket closed cleanly, and a poller that stopped before
the run was resumed. `NothingElseLost`: the reasons in `missed`, and a
status message that gave its place to another. `MadeThenFailed`: a lost answer,
and in the calendar service a deleted account or a failing database.
`ChoiceHolds`: overlapping selections and a deleted row. `EffectAccount`: the
move to a newer account.

### Fairness

`ServerFairness` is what Node's event loop and BullMQ give: a request in flight,
a job being processed and a promise go on until they end, and a waiting job is
taken when a worker is free. All of it is weak fairness per request and per job.
Nothing makes a user act, except in `AttentiveSpec`, where the user approves
whenever asked. In `StepQueue` only the executor and its timer are fair: a tool
need not answer, so `ExecutionEnds` shows that the timer alone is enough.
`AgentGraph` is one loop that goes on (weak fairness of its step), `EventFeed`
one event loop (of `Works`, which always shortens a script or a write; nobody
need start another job). In `RunStream` connections are accepted or refused,
timers and intervals fire and requests are answered; the server need not
announce anything and the user need not stay. `Accounts` has safety properties
only.

### Where documentation and code disagree

Two disagreements are runs and findings of `PROJECT.json`: cancel does not
prevent execution, and a tool call takes the newest account rather than the one
the documented order (`SEND_FLOW_IMPLEMENTATION.md:94-98`) puts first.

Others are stated as properties in the modules, and TLC finds each violated when
a configuration names it alone: `DoneNeverApproved` (two approvals in flight
bring a DONE run back to APPROVED), `ResumedJobHasPlan` (a run created in mode
approval or scheduled is resumed without its plan, which `persistPlan` wrote and
the worker overwrote), `ConsentNamesPlan` (approvals outlive their plan),
`StepwiseApprovalCompletes` (in `LifecycleApproved` with `Approves = {"asked"}`:
approving one step at a time never ends, since each approval replaces the last),
`FailuresOpenCircuit` (circuits are rebuilt for each job, so failures are not
counted across runs), `NoRawTemplate` (`docs/executor-runtime.md:24`; a step
without a producer is called with the text of its placeholder) and
`MissingInputPauses` (`packages/agent/README.md:48`; nothing fills what the
router looks at).

Also seen while reading, and stated by no property, or only as an exception:

* *Worker and API.* A run created in mode scheduled without a date is never
  enqueued (`runs.service.ts:228`); the question for an approval may reach the
  user before the row allows the answer, which then gets a 400; FAILED is not
  final (the job is retried); summarize is not wrapped by `safeNode`, so a run
  that did everything becomes FAILED when the summary fails; an executor resumed
  with `approvedSteps` also runs the low-risk steps not listed; `undo` finds
  nothing, because no code creates `RunEffect` rows; `persistPlan` counts the
  planned step rows and then creates them, so two overlapping attempts may
  create them twice (`runs.service.ts:411`); with several processes the
  in-memory cache does not prevent repetition.
* *Chat.* A resumed or retried run that waits or fails again before a step
  succeeded tells the browser nothing.
* *Client.* A connection closed cleanly (code 1000) is not built up again and
  nothing polls, so the tab hears nothing more of a running run; a poller stops
  at a final status, although the run may be retried or approved; what polling
  finds is turned into events the page does not look at
  (`apis/runs/client.ts:272` promises otherwise); an arriving status takes the
  place of the last one whatever their order. Closing a socket that still
  connects fires its error later, which starts a poller for a run already left
  and unregisters the socket opened since; nothing is fetched again after a
  reconnect; a hydration that overlaps with items may overwrite or repeat them;
  answers of two fetches race, so an older status may replace a newer one; a
  `plan_generated` item is shown as a queued run; the server's 'canceled' is no
  status the client knows, so its poller does not end; `RunListSocket`
  reconnects after it was closed; `useRunStream.ts` is not used.
* *Accounts.* `resolveCredential` is never called; the step row shows the
  current profile while the call takes the newest account; a mail resolves twice
  and ignores the token of the first; the calendar client stores an older token
  over a newer one, and a client keeps its old expiry, so tokens are refreshed
  twice; an event exists when its answer gets lost or storing tokens fails, and
  the retry makes another; an account that was marked invalid stays so, although
  it has a refresh token, and, the address being unique, cannot be connected
  again before it is deleted; a selection whose row is deleted half-way leaves
  no current profile; nothing writes `teamId`, so a team default always fails.

## Proofs

Eight modules hold theorems; each is proved for every value of the constants
that satisfies the assumptions of its module (`StoreAssumption`,
`StepQueueAssumption`, `CircuitAssumption`, `PlanAssumption`,
`ExecutorAssumption`, `GraphAssumption`, `BoundsAssumption`, `FeedAssumption`,
`StreamAssumption`), which only say that bounds are numbers and that plans,
drafts and endings are ones the code has. Every safety property that a passing
run checks, and every refinement, is the statement of a theorem. The proofs go
action by action: one lemma per action or group of actions, frame lemmas for
those that touch none of an invariant's variables, and one temporal step per
theorem.

`RunLifecycleProofs`, for any number of steps, plans, jobs, requests, workers and
attempts and any set of faults:

* `TypeCorrect`: `Spec => []TypeOK`.
* `Invariance`: `Spec => [](TypeOK /\ GateInv)`, the inductive invariant.
* `GateHolds`: `Spec => []HighRiskGated`. The property alone is not inductive.
  `GateInv` adds the reason: every copy of approved ids (row, job payload,
  graph context, a handler between read and write) was approved; only active
  jobs are processed; and a tool is only called for a step its copy clears.
  Approved ids never leave `consent`, so stale copies stay harmless.
* `RunImplementsGate`: every step of the run is a `Grant` or a `GateAct` of
  `ApprovalGate`, or a stutter, under the refinement granted = approved ids,
  acted = ids whose effect happened.
* `NothingForgotten`: without the faults `queue`, `db` and `crash`,
  `Spec => []NoForgottenRun`. Each action that makes the status due leaves a
  request that carries the run on, and the one which consumes a carrier (`Add`,
  `PickUp`, `MarkRunning`) hands over to the next or makes the status not due.

`RunEffectProofs`:

* `RunningIsNotLeft`: without `db` and `crash`, `Spec => []RunningIsWorkedOn`.
  A job that wrote RUNNING is worked on until `Settle`, which writes another
  status; whatever other jobs of the run write meanwhile, one of them is past its
  own RUNNING as long as the row says so.
* `CommitsAreTrue`: under every fault, `Spec => []CommitsHappened`.
  `CommitsInv` says the same of every copy of an output: the row's, the worker's
  kept and new commits, a persistPlan's, a handler's. Effects are not undone.
* `NothingDoneTwice`: with one worker, finitely many job slots and without
  `evict`, `ambiguous` and `crash`, `Spec => []EffectsAtMostOnce`. `OneActive`
  says that only one job is active; then a tool is only called for what the
  cache does not hold, and the cache holds all that happened (`OnceInv`).

`StepQueueProofs`, for every plan, any number of processes, runs, executions,
attempts and retries and any set of faults:

* `TypeCorrect`: `Spec => []TypeOK`.
* `OrderHolds`: `Spec => []EffectsInOrder`, which TLC checks with one process.
  The inductive invariant `IndInv` has three parts. `JobsInv` and `WaitsInv`
  (together `QueueInv`) say that the queue's books agree: a job is listed at
  most once and only while it waits, called by at most one worker and only while
  active, and awaited by at most one executor, which is at the job's step.
  Without that a late or stalled job could finish as somebody else's, and not
  even the types are inductive. `OrderInv` says that whatever an executor or a
  job is about to do is *ready*: the step before had its effect or was skipped;
  that a job is only done and a result only remembered after the effect.
  Effects and skips are never undone, so ready jobs stay ready however late
  they are executed. Five facts about each step (`Grows`, `EffectsWereReady`,
  `ExecsStayReady`, `JobsStayReady`, `ResultsHappened`) give `OrderInv'`.

`StepEffectProofs`, on top of it: `OneEffect`, `Spec => []OneEffectPerKey` for one
process. `Remembered` (what happened is in the cache or counted as lost),
`CallIsNew` (the tool being called is not in the cache) and `JobsAreQueued` (an
inline step has no job, so queue and executor never call the same step) make it
inductive; each action is shown to account for its effects (`Accounted`).
`RetriesDoNotMultiply`, `Spec => []CallsBounded`, for any number of processes and
under every fault: a call is paid for with a ticket. An executor holds those of
the steps it has not come to, and of its inline step one per try left; queueing
a step hands its tickets to the job, which has one per attempt left and one for
being handed out again after a crash. `TicketInv` says that calls made and
tickets left never outnumber what the run's executions were given. A sum over
jobs would need an induction; the tickets are sets of pairs instead, of which a
step takes one away, so that the library's theorems on cardinality suffice.

`AgentProofs`, for all tools, drafts, list lengths and approvals:

* `KeepsWhatPasses`: the validation loop of the planner keeps exactly the steps
  that pass, each once and in the draft's order (`Selects`). See below for how a
  recursive function is reasoned about.
* `TypeCorrect`, with the full types of queue, calls and commits (`TypeInv`) and
  what is empty before the executor is entered (`PhaseInv`).
* `RiskNeedsApproval`, `PlanningDoesNotAct` (`TalkInv`: the plan of such
  a run is only chat when it reaches confirm, and so are its queue and its calls
  from then on).
* `CommitsFollowPlan`: `OrderInv`, the queue is sorted by step and child and
  every commit comes before it. Expansion keeps that because a child's list
  stands where its step stood.
* `EmptyResultStopsTheNext`: `FoundInv`, the set `empty` agrees with the last
  call of each step behind.
* `NoStepLost`: `AccountInv`, a step either waits in the queue as itself or its
  commits and its queued children together are all items of the list that
  `vars` holds, and `vars` agrees with the last call that binds the field.
* `WalkImplemented`: every step of the graph is a step of `StepWalk` or a
  stutter, where `behind` is the step before the head of the queue. `Steady`
  makes it inductive: the queue goes through the plan step by step and to its
  end, also after an expansion, so that taking off the head never leaves two
  steps behind and an empty queue means the last step was left.

Induction over data is used in two places, a set of calls that has a last one
(`CallsHaveTop`) and `KeepsWhatPasses`. The library's induction theorems take an
operator as a parameter, which the provers cannot instantiate. That strict
inclusion of finite sets is well-founded takes none, nor does `WFMin`, and the
interval `0 .. (n - 1)` grows with `n`. That gives `Least`
(every set of numbers has a least one) and `Induct` (a set that holds 0 and every
successor of its members holds all numbers), and with `Induct` that the function
which `Kept` defines by recursion exists (`FilterExists`).

`AccountsProofs`, for any number of accounts, selections, validations and calls,
any lifetime and margin; all five properties of `Accounts`:

* `TypeCorrect`: `Types`, with `Tops` (among any rows there is a newest) carried
  along, which each new row keeps.
* `KeysStayWhole`: `KeysInv` adds to `KeysWhole` that every call (`Good`) and
  every listener (`GoodSave`) under way holds a token of its own account together
  with that token's expiry, so whichever write comes last, what it writes belongs
  together, and a write that fails writes nothing.
* `MadeIsReported`: `Good` also says that a call which made its effect is over or
  at storing its tokens, and for what reason it failed if it did.
* `AccountMoves`: a call moves to what `Newest` returns, which is newer than
  what it held or finds that one gone.
* `ChoiceIsKept`: `Alone` (a selection made alone is the only one under way) and
  `Settled` (until a selection unsets, the current rows are at most the chosen
  one, also when the update that should set another one failed).

`EventFeedProofs`, for any of the endings, any number of jobs one after the other
and any interleaving of their writes:

* `Invariance`: `IndInv`, in three parts beside the types. `ScriptInv`: what is
  left of the job's script writes nothing twice, nothing that is written already
  or that a writer under way will write, and a closing item only behind the
  row's status. `WriterInv`: no item is up to two writers, and where a writer is
  agrees with what is written and announced. `CoverInv`: each message is an
  item, repeats the status of one, or is still pursued by the script or a
  writer. The six scripts are shown once to be in order, with and without a plan
  in front (`AllScripts`), and starting a job keeps the three parts because its
  items are new (`Begins`).
* `TypeCorrect`, and `NoMessageLost` (`Spec => []MessagesBecomeItems`): when
  nobody pursues anything any more, only the first two cases of `CoverInv` are
  left.
* `KeepsThePromise`: `Spec => AnnouncesAsPromised`, the refinement of
  `Announcements`; that nothing is written or announced twice is `WriterInv`.

`RunStreamProofs`, for any items, closing items and number of streams, requests,
retries and faults, with the server of `Announcements`, which the jobs of
`EventFeed` were proved to implement:

* `ListensOnce` and `HearsOrPolls`: `OneListener` and `NeverDeaf` are inductive
  together (`WatchInv`), once it is added that a user who is on the page has a
  stream of the current run.
* `NothingTwice`: `WayInv`, an announcement is on its way to the tab at most
  once, sent to the one open socket or being fetched; and `CountInv`, what is on
  its way will be the first of its item, or the second to the one a hydration
  brought.
* `LossesHaveReasons`: `LossInv`, what was announced has arrived, is on its way,
  or counts as missed for a reason, and what has arrived is shown unless a
  status in its place is; at rest nothing is on its way.
* `TypeCorrect`, which needs `CountInv`: `shown` stays within 2.

Only model-checked: liveness (`DueReachesWorker`, `RunningEnds`,
`WholePlanDone`, `ExecutionEnds`, `Terminates`, `ClosesTheJob`, `PollerEnds`,
`Delivered`), which is beyond the prover.

## Abstractions

* The idempotency key is (run, step): distinct steps are taken to have distinct
  arguments, and the 32-bit hash not to collide. A falsy result, which the code
  would not find again, is not modelled; the registered tools return objects.
* In `RunLifecycle` a skipped step's `{skipped: true}` commit is not counted as
  a commit, and a step that expands stands for its children; `AgentGraph` has
  both.
* In `RunLifecycle` a step's call either happens or fails while the executor
  waits. A call that happens after its executor gave up is in `StepQueue`.
* `AgentGraph` keeps of a result which field holds a list and its length, of the
  language model which drafts and goals it may return, of the user's answers
  whether they supply the missing values. Its tools do not fail after an effect;
  its step calls go neither through queue nor cache.
* A client may put `approvedSteps` into `config.meta` when it creates a run;
  runs are created without.
* The approval feature of the confirm node is behind a flag that is off in the
  code's defaults; `gated` takes both.
* `EventFeed` gives each kind of message one item per job: which of two step
  messages is meant does not matter to its properties. Jobs follow one another
  (two at once are in `RunLifecycle`, which has no chat), the first one plans,
  and what the API writes into the row between two jobs, which no item goes
  with, is left out. Chat writes do not fail, except for the second to make a
  chat.
* `RunStream` keeps of the page one run and of its messages how often each item
  is among them and which is the last of type 'run'. One poll is in flight at a
  time. An error event may be followed by a clean close, which browsers do not
  do; that only adds behaviours.
* `Accounts` has one user and one app. Refresh tokens are not rotated; a failing
  update has written nothing; the callback and the deletion, which end with
  their update, either happen or are left out; `tokenExpiresAt` and the key's
  own expiry are one number, as the first is the one that is read
  (`key.expiry_date` may stay behind after Gmail's refresh). Calls that store
  nothing (`getEvent`, `checkAvailability`) are left out, as are rows whose user
  was deleted.
* In `AgentPlan` a draft refers to lists by references only and names no
  expansion of its own (`planner.ts:52-54`); in `AgentExecutor` the arguments of
  an expanded step's children are valid; in `AgentGraph` no team policy
  overrules the default, which asks for high-risk steps (`policy.ts:350-361`).
  None of it changes what the properties are about.
* Telemetry and logging change nothing a run depends on.

## Not modelled, and why

* *Rate limiter* (`rate.ts`): arithmetic of one bucket in one process. What the
  others see of it, a call turned away, is in `StepQueue`.
* *OAuth state and authentication*: a stateless check of a signature and an
  expiry, guards in front of handlers, and an identity provider outside.
* *Step rows* (`steps.service.ts`): written once per plan and per result, and
  read for display; what is known of their races is listed above.
* *Queries, enrichment, authorization, run token*: nothing changes state.
* *Answer validation, placeholder text, prompts, previews*: pure functions over
  strings, of which the models keep the outcome.
* *Templates, teams, users, e-mail, telemetry, logging, configuration, the other
  integrations*: single-row updates and calls to services.
* *Web client beyond the run stream, landing page*: components and styling, more
  than half of the repository's lines.

## The plan

Done, in this order: the run's lifecycle and its gate; circuit and step queue;
planner, executor and graph; chat items, bus and client; accounts; the theorems
above. Left: lemmas on what the planner's normalisation and the executor's
expansion do to a plan, with the induction now at hand; the stream of all runs
(`RunListSocket`) beside the stream of one.
