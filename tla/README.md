# A verification project for Cats platform

TLA+ models of the parts of this repository in which a wrong order of steps does
lasting harm: the scheduler that turns schedule rules into missions and runs, the
supervised launch of those runs in the provider runtime and the commands that stop
them; the golden path of a work item from the owner's approval to the accepted result,
with the outbox that carries its messages; and the way Telegram updates reach the
server. TLC checks the models on small instances; TLAPS proves all their safety
properties, and that they implement their abstract specifications, for every number of
rules, runs, keys, handlers, updates, loops and crashes.

The repository is mostly user interface, translations, chat and agent plumbing and
desktop packaging, about 350 000 lines; the models map about one line in a hundred of
it. They were chosen by what goes wrong without anyone noticing, not for their size.

Paths below are relative to the repository. "Core" is the record store of tasks,
missions and runs (`src/core`); "the runtime" is `cats-runtime`, a separate process
reached over HTTP.

## 1. The system

Cats platform is a Node server with one event loop. Its state lives in JSON files
behind stores that queue their mutations; agents execute in the runtime; people act
through HTTP routes, a desktop shell, a mobile app and Telegram.

| Component | State it keeps | Operations | Interacts with |
|---|---|---|---|
| Schedule rules and scheduler (`src/platform/scheduler`) | rules, deleted rule ids, trigger receipts by idempotency key (a JSON file) | tick, manual test fire, create / update / remove rule, owner cleanup, interval loop | writes missions and runs in core; hands admitted runs to the launch; asks the run stop to replace active runs |
| Schedule routes (`src/products/work/api/scheduleRoutes.ts`, `ownerManagement.ts`) | none | owner edits, preview, test fire, cleanup | scheduler service, core |
| Supervised launch (`src/platform/supervision/scheduledRunExecution.ts`, `src/platform/orchestration/providerAgentRunLoop.ts`, `src/platform/runtime/providerInteractionAdmission.ts`) | run row with its `runtimeBridge` and `providerInteraction` metadata, mission status (in core) | prepare, admit and attach a session, prompt, finish, block | core, runtime |
| Run stop and mission cancel (`src/platform/supervision/runCancellation.ts`) | the same rows | `stopRun`, `cancelMission`, replacement | core, runtime |
| Core store and records (`src/core`) | tasks, missions, runs, activities, owner actions | `updateCore` (one mutator at a time), `readCore`; many record mutations | everything |
| Work delivery outbox (`src/platform/transports/work-delivery`) | delivery rows in memory and in a state file, sequence numbers, sends in flight | `enqueue`, `flush`, `flushWorkItem`, `retry`, `recoverPending`, reset | the golden path calls it; the Telegram port sends for it |
| Work golden path (`src/products/work/state/workGoldenPath*.ts`) | run, task and outcome rows in core; one drive in flight per run | admission, drive (steps, timeout, verdict), cancel, retry, resume, completion, sweep after a restart | core, outbox, runtime, Telegram bridge, Desktop routes |
| Telegram ingress (`src/platform/transports/telegram`: polling, webhook, dispatcher, relay memory) | binding, update offset, processed-update ids, work in flight per binding | poll, dispatch, capture, stop, reconnect, reconcile, webhook, reset | Telegram, chat, golden path |
| Authentication (`src/platform/auth`) | login attempts, grants, handoffs, sessions | throttle, issue / consume grant, handoff | routes |
| Server host (`src/app/server`) | none of its own | start, shutdown, startup recovery, reset | wires all of the above |
| Chat, Code and Work products (`src/products`) | chat transcripts, projections | dispatch of turns, pages, routes | core, runtime |
| Desktop host, overlay, mobile, renderers | user-interface state | views, child processes | server |
| Platform apps, plugins, MCP, memory, knowledge, multimedia | manifests, indexes, files | loading, indexing, retrieval | server, runtime |

`PROJECT.json` lists the same components with their sources and status.

### What is hard in the modelled part

* **Reads and writes of one decision are separate store calls.** A tick collects the
  due fires from one read of a rule, re-reads the rule for each fire, claims the
  receipt, reads the active runs, admits, writes the receipt and advances the rule:
  between any two, the owner edits, another fire is admitted, or the process dies.
* **Stop commands decide from a snapshot.** `stopRun` looks at the run, perhaps asks
  the runtime to cancel, and only then writes; the launch attaches, finishes or blocks
  meanwhile; a second command does the same.
* **The session outlives what is known of it.** The runtime creates a session while
  the run is being stopped; the answer is lost; closing it fails; the message request
  times out while the turn goes on.
* **Crashes are not recovered.** `startupRecovery.ts` does not look at scheduled runs,
  and a claimed receipt has no owner after a restart.
* **Retry, misfire, concurrency and pause policies meet** in the one function that
  advances a rule.
* **A message that was sent and one that was not look alike.** The outbox learns of a
  send by an answer that may be lost; several callers and the startup pass meet on one
  row; the file may lag behind memory.
* **A drive reads, works for minutes, and writes.** The owner cancels, retries and
  resumes meanwhile from two places, each with a status read before its own awaits.
* **An aborted polling loop is not gone.** It runs on to its next check beside its
  successor, both with the same updates; what was confirmed to Telegram is never sent
  again, what was remembered is never dispatched again.

`PROJECT.json` lists these and others as hazards, each at its line.

### What makes each component correct

* Scheduler: no trigger, and no occurrence within one revision of a rule, has two
  runs; a receipt agrees with the run; a run is not admitted beside an active one under
  `skip` or `replace`; retries follow failures and respect the policy in force; what
  the owner disabled or removed stays so; every due rule is eventually handled.
* Launch and stop: a terminal run never moves; a mission is cancelled only behind its
  run; the stop's record survives a launch in flight; a prompted session can be found
  from the run row; a record that a session ended is true; a launch settles.
* Outbox: a key reaches the chat at most as often as it was let through (the code keeps
  this but for failures it cannot prove); a row in flight
  at a crash is never sent again on its own; stale progress is not sent after what
  overtook it; an enqueued message comes to an end.
* Golden path: completed means an accepted outcome, for good; a stopped run is not
  reopened by a late answer; a live run has a driver and comes to rest; a blocked one
  leaves the owner something to press.
* Telegram ingress: what Telegram will not repeat was handled (with three known losses);
  nothing is dispatched twice that the memory still holds; one loop is live; the binding is
  polled as configured; golden-path updates arrive.
* Authentication (planned): a grant is consumed once.

## 2. Plan

Written, in the order of the plan:

1. `RunLifecycle` (abstract) and `RunSupervision`: launch and stop of runs.
2. `TriggerLedger` (abstract) and `Scheduler`, with `MCScheduler`; its theorems in
   `Scheduler_proofs`, `SchedulerLedger_proofs`, `SchedulerRetry_proofs` and
   `SchedulerNext_proofs`, each of which extends the one before.
3. `RunSupervision_proofs`.
4. `DeliveryPromise` (abstract) and `Outbox`, with `MCOutbox` and `Outbox_proofs`.
5. `GoldenPath` and `GoldenPath_proofs`.
6. `TelegramPolling` and `TelegramPolling_proofs`.

`Outbox` and `GoldenPath` meet at the enqueue of a message: `GoldenPath` announces a
message when its row exists, and what becomes of the row is `Outbox`'s. `GoldenPath` and
`TelegramPolling` meet at the capture: `TelegramPolling` shows that the owner's button
is captured, and an asker of `GoldenPath` starts with it. `Scheduler` and
`RunSupervision` meet at the launch of an admitted run. In each case the
other side is a nondeterministic choice of what it may do, with no assumption on when.

Next:

7. `SingleUseGrant`: issue and consumption of the grants of `platform/auth`.
8. Candidates after it: approvals and agent-made child runs
   (`approvalRequests.ts`, `lifecycleTools.ts`), the desktop's supervisor of child
   processes, the chat product's dispatch of turns.

## 3. The modules

| Module | Role |
|---|---|
| `RunLifecycle` | abstract: statuses of runs and missions, and the steps they may take |
| `RunSupervision` | detailed: launch, session admission, prompt, stop, cancel, replace, crash |
| `RunSupervision_proofs` | theorems about `RunSupervision`, and that it implements `RunLifecycle` |
| `TriggerLedger` | abstract: keys claimed once, at most one run per key, outcomes |
| `Scheduler` | detailed: rules, receipts, ticks, test fires, owner, clock, restart |
| `MCScheduler` | policies for the runs of `Scheduler` |
| `Scheduler_proofs` | its types, and what holds of a rule and of the owner's edits |
| `SchedulerLedger_proofs` | its receipts and run rows, and that it implements `TriggerLedger` |
| `SchedulerRetry_proofs` | its retries, and that one revision runs an occurrence once |
| `SchedulerNext_proofs` | the next fire of its rules |
| `DeliveryPromise` | abstract: attempts let through and messages that arrived, by key |
| `Outbox` | detailed: rows, file, passes, sends, stray requests, reset, crash |
| `MCOutbox` | the keys and purposes of the run of `Outbox` |
| `Outbox_proofs` | theorems about `Outbox`, and that it implements `DeliveryPromise` |
| `GoldenPath` | one work item: askers, drive, lifecycle, sweep, crash |
| `GoldenPath_proofs` | theorems about `GoldenPath` |
| `TelegramPolling` | one binding: loops, routes, webhook, dispatcher, memory, reset, crash |
| `TelegramPolling_proofs` | theorems about `TelegramPolling` |

Operators named `...Ignores...`, `...Anyway`, `...Silently` and the like, marked
"Mutant of", are not part of a specification: each is a plausible slip in the code, and
substituting it makes TLC report the property it is listed with.

### RunSupervision

Each run has one mission and one launcher; commands are identified by `Stoppers`.

| Variable | Code |
|---|---|
| `run[r].status`, `.bridge`, `.sessionKnown` | `CoreRunRecord.status`, `metadata.runtimeBridge.status`, whether the bridge holds a session id |
| `mission[r]` | `MissionRecord.status` |
| `interaction[r]` | the run's `providerInteraction` metadata: admitted, attached, interrupted, ended, or ended with cleanup required |
| `session[r]` | the runtime's session: open, executing a turn, its turn over, closed |
| `aborted[r]` | `cancelSession` was accepted |
| `launcher[r]` | the point reached in `launchScheduledRunThroughSupervision` and the `createSession` wrapper |
| `stopper[s]` | the point reached in `stopRun` / `cancelMission`, with the run and the kind of command |

Every core mutation, every core read that decides something, and every runtime call is
one action. `updateCore` queues mutators and runs one at a time, which is why a mutation
is atomic; the rest of an `async` function is not, and is split at each `await`. The
names of the actions follow the functions: `PrepareLaunch` is
`prepareScheduledRunLaunch`, `FinishLaunch` is `finishScheduledRunLaunch`,
`AdmitSession` to `RecordUnattachedSession` are the `createSession` wrapper of
`withProviderRunInteractions`, `ReadRun`/`AbortSession`/`NoteAbort`/
`PersistRunCancellation` are `stopRun`, `ReadMission`/`PersistMissionCancellation` are
`cancelMission`, and `AfterStopRun` is what the caller of `stopRun` does with its
result. A run whose channel is visible and unarchived is *hosted*: it gets an
interaction record; others go to the runtime without one. Whether the channel is
archived is not a variable: the actions leave the choice open wherever the code looks.

`RunLifecycle` is implemented under `runStatus = run[r].status`, `missionStatus =
mission[r]`.

### Scheduler

| Variable | Code |
|---|---|
| `now`, `bootAt`, `up` | the clock, when this process started, whether it runs |
| `rules[r]` | the `ScheduleRule`, or `NoRule`; `stamp` stands for `updatedAt`, by which `advanceRuleAfterFire` notices an owner's edit, and `made` for `createdAt` |
| `deleted` | `deletedRuleIds` |
| `receipts` | receipt status by idempotency key (rule, revision, kind, time, attempt) |
| `runs[i]` | run rows, with the key of the trigger that admitted them, the policy it was admitted under and the creation of its rule |
| `proc["tick"]`, `proc["manual"]` | local state of `tick` and of `manualTestFire` |

One action per store call: `BeginTick` (`listRules`), `ReadRule` and `ReadLatestRule`
(`getRule`), `Claim` (`claimTriggerReceipt`), `ReadActiveRuns`, `CancelVictim`
(replacement), `AdmitMissionAndRun` (one core mutation), `UpdateReceipt`, `Advance`
(`advanceRuleAfterFire`), `LaunchRun`/`LaunchReturns` (`onTickResult`). Time is in units
of which a daily rule's period has `Period`; occurrences are its multiples. Time zones,
daylight saving and titles are left out, and with them the minute by which
`computeNextFireAfter` shifts its start (`evaluator.ts:133-146`): between whole occurrences
it makes no difference; a run's later life is that of
`RunSupervision`, reduced here to running, blocked and cancelled. A write of the
schedule store may fail under a trigger (`WriteFails`): the store writes a temporary
file and renames it, so its file is then as it was.

### Outbox

A *pass* is one call that works through keys: `flush` and `retry` have one key,
`flushWorkItem` the unsettled rows of an item, `recoverPending` every pending row.

| Variable | Code |
|---|---|
| `rows`, `sequence` | the outbox's map of rows (state and sequence number) and `sequenceByWorkItem` |
| `disk` | the rows in the state file, written whole by each `put` |
| `flight[k]` | `inFlight`: the request of the key is out, or has been taken by the chat |
| `pass[p]`, `waits[p]` | what a pass has left, and the send it awaits |
| `recovered` | `recoverPending` was called since the start |
| `stray`, `chat` | requests nobody waits for any more; messages in the chat |
| `allowed`, `misread` | history: sends an enqueue or the owner let through; sends whose unknown end was recorded as a failure |
| `older`, `retired` | history, for the properties |
| `faults`, `crashes` | bounds |

`Enqueue`/`EnqueueAgain` are `enqueue` with the flush that follows, `Retry` is `retry`,
`RecoverPending` the startup pass, `FlushOne` one turn of a pass up to its next await
(`flushRow`), `SentReceipt` to `SenderThrew` the ends of a send as `classifyDeliveryReceipt`
and the catch around it see them, `Restart` the recovery of the rows from the file.
Node runs a pass from one await to the next without interruption, so other actions wait
while a pass can move (`Quiet`).

`DeliveryPromise` says that a key reaches the chat at most as often as it was let
through. `allowed` is raised by an enqueue of a new key and by the owner's retry, and by
nothing else. With it the promise is what `outbox.ts:10` states, and is broken
(`ImplementsPromise`, run `outbox_unproved`). With `allowed + misread` it is kept
(`DuplicatesAreMisread`): the failures of `UnprovedReceipt`, recorded although the message
may have arrived, are the only way to a second message.

### GoldenPath

| Variable | Code |
|---|---|
| `run`, `task`, `outcome` | status of the run row, of the task row, and whether the succeeded outcome is recorded |
| `announced`, `offered` | messages enqueued, and the actions the owner holds a button for |
| `drive` | `driveOnce` in flight: its place, its step and what it is about to say |
| `ask[p]` | a callback handler, the Desktop route or the startup sweep, and the status it is about to write |
| `lapse` | history: why a run may be without a driver |

The drive's actions are the stretches of `driveOnce` between awaits (`DriveReads`,
`Mark` and `Marked` for `markRunStatus`, `StartStep` to `TimeOut`, the writes of its
verdicts, `Notify`, `Deliver`, `EndDrive`). `Scan` is the sweep's read after a
restart: live runs of other work items may lie in front of this one, and from
`MaxResumed` of them on (five in the code) this one is passed over. An asker's actions are those of `admit`, `cancel` and
`applyLifecycle`. An update of the core is one action, and what it decides on is what it
reads inside the mutator, or what was read before it, as in the code.

### TelegramPolling

| Variable | Code |
|---|---|
| `setting` | the binding: the token it polls with, webhook, or inactive |
| `arrived`, `confirmed` | Telegram's side: the updates there are, and those it will not repeat |
| `processed`, `stored` | the relay's processed-update ids, oldest first, at most `Kept`: the list in memory, and as the file has it |
| `captured`, `dispatched`, `turns` | golden-path captures written; ordinary updates given to the bridge; bridges in flight |
| `loop[l]`, `current` | each `runPollingLoop`: place, abort flag, health, token, offset, batch; and the consumer the supervisor has registered |
| `push` | the webhook request in progress |
| `route[r]` | a request or detached call: reconcile, reconnect, the second it sleeps |
| `reset` | a data reset waits for the work in flight |
| `forgets`, `excused`, `taken`, `lost`, `lapse` | history: ids forgotten, updates that need not have been handled, updates whose number another bot used, updates remembered and then dropped, why polling may differ from the setting |

`Ask` to `Wake` are the loop from await to await. `Fail`, `ReceiveFails` and
`AcknowledgeFails` are its catch and backoff, after an error that left nothing remembered,
after a failed write behind the mark of an ordinary update, and after one behind the mark
of a captured update: the list is changed before the file is written, and keeps the
number. `PushUnwritten` is the same in the webhook; `WriteRelay` is any later write, which
takes the list along;
`Configure`, `AskReconnect`, `Reconcile`, `Reconnect`, `StartAgain` are the routes and
the supervisor; `Push*` the webhook; `OtherBot` an update of another bot, which shares
the memory of ids.

## 4. The runs

| Run | What it asks | Result |
|---|---|---|
| `supervision` | Do the safety properties, the refinement of `RunLifecycle` and `LaunchSettles` hold with two commands and a crash against one launch? | holds (about 57 000 distinct states) |
| `supervision_blocked` | Is the runtime idle whenever a blocked run is marked cancelled? | violated |
| `scheduler` | Do the safety properties and the refinement of `TriggerLedger` hold through edits, retries, replacement, cleanup, a failed write and a crash at any store call? | holds (about 3 030 000) |
| `scheduler_live` | Beside a manual test fire, without crashes: do runs not overlap, is every due rule handled? | holds (about 322 000) |
| `scheduler_retry` | Does a restart between a failure and its retry keep the rule going? | violated |
| `outbox` | With two callers and the startup pass on two messages of one item, a failed write, stray requests, a reset and a crash: is a second message always one of a failure that was not proved, do ambiguous rows wait, is late progress dropped, does every message settle? | holds (about 346 000) |
| `outbox_unproved` | Does a key reach the chat only as often as it was let through? | violated |
| `golden_path` | What can two callback handlers, the Desktop route, the startup sweep with its cap, a failed write and a crash do to one drive? | the properties hold (about 778 000) |
| `golden_path_cancelled` | Does a cancelled run stay cancelled under the start of its drive? | violated |
| `golden_path_driven` | Does every live run get a drive, one reopened from Desktop too? | violated |
| `polling` | With two loops, two route requests, the webhook, changes of the binding, a reset and a mishap: which updates can be lost, and is one handled twice? | the properties hold (about 1 163 000) |
| `polling_waiting` | Is an update kept that waits for its slot when the process dies? | violated |

### Properties of `supervision`

* `MissionCancelledAfterRun`: two snapshots and a launch lie between the command and the
  mission's row, and still the mission is cancelled only behind its run.
* `CancelledRunKeepsItsBridge`: attach, finish and block of a launch in flight do not
  write over a stop's record.
* `PromptedSessionIsReachable`: a hosted run is prompted only when its row names the
  session.
* `EndedRecordIsTrue`: "ended" without cleanup means closed or cancelled.
* `ImplementsLifecycle`: refinement of `RunLifecycle`.
* `LaunchSettles`: a launching bridge does not stay so while the process lives.

### Properties of `scheduler` and `scheduler_live`

* `OneRunPerRevision`, `ReceiptMatchesRun`, `ImplementsLedger`: idempotency and the
  agreement of two stores that no transaction joins. A rule created again under the id of
  an earlier one counts as another rule: it starts at revision 1 (`validation.ts:358`).
* `NoOverlap`: concurrency policies, against ticks, test fires and replacement at once.
* `RetryFollowsFailure`, `RetryWithinPolicy`: retries.
* `DisabledHasNoNextFire`, `OwnerPrevails`: the owner against a trigger in flight.
* `NextFireIsUnclaimed`, `DueRuleIsHandled`: a rule does not stick. The first excepts the
  settled retry of an occurrence missed before this start of the process (section 6).

A failed write is the one thing that makes a receipt say `failed` beside a run, and gives
one occurrence a second run within one revision; `ReceiptMatchesRun` and
`OneRunPerRevision` name it as the only exception beside the rule's removal. The exception
is global: once a write has failed, they let go of every trigger and not only of the one
it hit.

### Properties of `outbox`

* `InterruptedSendIsKnown`: at every moment at which a request may be on the wire, the
  row that a restart would find in the file is one it recovers as `ambiguous`.
* `DuplicatesAreMisread`: refinement of `DeliveryPromise` with `allowed + misread`: over
  duplicate callbacks, passes that meet on a key, failed writes, late arrivals and
  restarts, a key reaches the chat more often than an enqueue and the owner let it through
  only by failures that were not proved.
* `AmbiguityAwaitsOwner`: a row marked `ambiguous` is not sent by any pass or restart. It
  says nothing of a row marked `failed`, which is sent again even when its request is
  still out; that is `outbox_unproved`.
* `LateProgressIsDropped`: a progress message is not sent after a later message of its
  item was created, through restarts that number anew.
* `EnqueuedMessageSettles`: an enqueued message comes to an end, unless a write failed or
  the data were deleted.

### Properties of `golden_path`

* `CompletedIffOutcome`: completion and the accepted outcome are one, and final.
* `CheckedWritesKeepStoppedRun`: no write that looks at the status reopens a cancelled or
  a failed run. The two that do not look are what `golden_path_cancelled` is about.
* `LiveRunIsDriven`, `LiveRunSettles`: a queued or running run has a driver and comes to
  rest, up to four named reasons: the cap of a startup passed it over, a retry joined a
  drive that was ending, a write threw, the Desktop route reopened the run. The join and the
  Desktop route contradict comments (`golden_path_driven`); the cap is deliberate.
* `BlockedRunIsActionable`: a blocked run left the owner a retry button, unless a crash, a
  failed write or a second use of a message's key took it.

### Properties of `polling`

* `AcknowledgedIsHandled`: what Telegram will not repeat was captured or dispatched, or
  waits for its slot, unless it came while the binding was inactive, a reset wiped it
  (`excused`), or it was lost in one of three ways (`lost`, `taken`): the process died
  while it waited, the write of its mark or of its receipt failed, another bot used its
  number. Updates of the golden path are lost in the last way only. That nothing is lost,
  as the documents have it, is `NoUpdateIsLost`: `polling_waiting` breaks it in the first
  way, and it fails in the other two as well (section 6).
* `DispatchedOnce`: no ordinary update is dispatched more often than the memory lost it,
  plus one.
* `OneConsumer`: loops overlap only while all but the registered one are aborted.
* `PolledAsConfigured`: at rest the binding is polled with its token or by nothing, up to
  two named lapses.
* `GoldenPathUpdateArrives`: a golden-path update is captured in the end, up to the same
  exceptions, while polling is configured.

### What the violated runs show

Each checks one sentence of the repository's specs or of its own messages:

1. `supervision_blocked`: `stopRun` asks the runtime only for a run that is `running`; a
   run blocked by a message timeout is written cancelled while its turn executes
   (SPEC-096 :94, SPEC-094 :237).
2. `scheduler_retry`: with misfire `skip`, a startup tick marks a due retry as skipped
   but leaves it pending; later ticks meet their own duplicate (SPEC-094 :243, :259).
3. `outbox_unproved`: the relay's failure receipts always have a reason, so a lost
   connection becomes a definite failure and the next enqueue of the key sends again
   (`outbox.ts:10`, `workGoldenPathTelegramPort.ts:245`, SPEC-114 :550).
4. `golden_path_cancelled`: `markRunStatus` writes `running` over a cancel that came after
   the drive's read; `completeRun`, which does not look either, completes a run that was
   cancelled during its last step (`workGoldenPathRunner.ts:226-228`).
5. `golden_path_driven`: the Desktop route writes `queued` and tells nobody; the drive that
   was ending leaves the run to the next restart (`work/api/index.ts:186`). A Telegram
   retry that joins a drive past its last write ends alike
   (`workGoldenPathRunner.ts:160`).
6. `polling_waiting`: an ordinary update is marked before it waits for a slot; a crash
   during the wait loses it (`ingressDispatch.ts:18`, `polling.ts:357`).

### Bounds, and why they are enough

* `RunSupervision`: one run, two commands, one crash. Runs share no state except
  through commands, each about one run; two commands are what it takes for one to act on
  another's leftovers; after a crash nothing of a launch continues, so a second crash
  meets only idle or command states already reached. The proofs remove the bounds.
* `Scheduler`: one rule (rules meet only in the order of a tick); `MaxTime = 4` with
  `Period = 2` gives two occurrences and room for a retry between them; three run rows
  are the most that are ever used (a fourth stays unused in every behaviour); `MaxEdits = 2` is a creation and one edit, which is
  what it takes to edit under a trigger; one crash; one manual fire in
  `scheduler_live` (the model has one manual fire in flight at a time, beside the one
  tick the loop allows). The violated run uses one policy and a shorter clock, to
  keep its counterexample short. `Policies` is five policies that between them have each
  misfire, concurrency, backoff and pause setting; the fifth, `fire_all` with a retry, lets
  a retry meet a batch of missed fires.
* `MaxFaults = 1` in `scheduler`: with the crash it makes a trigger fail in two ways; it
  is 0 in the other runs of `Scheduler`, whose questions are about crashes and edits.
* `Outbox`: two keys of one item, one of them routine, is what supersession takes; two
  callers meet each other and the startup pass; `MaxSends = 2` attempts per key lets a
  retry follow a stray request; one failed write and one crash, in either order. No
  symmetry is used: the callers are alike, but the run checks liveness too.
* `GoldenPath`: two handlers (a tap in flight and another), the Desktop route and the
  sweep; `MaxSteps = 2` lets a drive go round and time out in either step; three actions
  of the owner are a start, an action against the drive, and one against what that left;
  `Stranded = 5` puts up to as many live runs in front of this one as a startup resumes.
* `TelegramPolling`: an ordinary update and one of the golden path; two loops (a third
  starts only when an aborted one has ended, a bound of the model) and two requests;
  `Ceiling = 1` makes every slot contended; `Kept = 1` is less than the updates there are,
  so that the memory evicts; two changes by the owner and one mishap of any kind
  (`Mishaps`: a failure, a failed write of the memory, another bot's update, a crash). The
  violated run allows a crash only. The proofs remove these bounds except the
  number of loops, which stays any finite number.
* `CrashMidway = FALSE` (used in `scheduler_retry`) lets the process stop only while
  nothing is in flight, to show that the behaviour needs no crash inside a tick.

### Fairness

* `RunSupervision`: weak fairness of each launch and of each command. The event loop
  runs every pending continuation, and each runtime request ends by an answer, an error
  or the client's timeouts (60 s for a session, 120 s of silence for a message,
  `src/runtime/client.ts`). No fairness on issuing commands, on crashes, or on the
  provider's turn ending.
* `Scheduler`: weak fairness of the interval timer (`startSchedulerLoop`), of each
  tick's continuations, and of restarting a stopped process (an installation that is
  never started again promises nothing). The owner and the clock owe nothing.

* `Outbox`: weak fairness of each pass's turns and of restarting; strong fairness of the
  answer to each send and of the startup pass, which are enabled only between the passes
  of other callers: a request ends by an answer, an error or its deadline, and the event
  loop comes round. No fairness on callers, on the chat taking a request, on reset.
* `GoldenPath`: weak fairness of the drive's steps (a supervised step has a deadline, a
  core update its write, a flush its answer), of each asker's, and of restarting. The
  owner owes nothing.
* `TelegramPolling`: weak fairness of each loop's awaits (a long poll is answered, a
  backoff ends), of each request's, of turns ending (for the slots), of the webhook's
  request, of a reset that waits, and of restarting. Nothing is assumed of Telegram
  sending updates, of the owner or of failures.

Deadlock checking is on in every run of `RunSupervision` and `Scheduler`. It is off in
the runs of `Outbox`, `GoldenPath` and `TelegramPolling`: a message that is settled, a work item at rest or
a binding that is not polled has nothing left to do once the bounds are used up; that
they do not stop earlier is what their liveness properties say.

## 5. What is proved

`RunSupervision_proofs` holds, for every set `RunIds`, every set `Stoppers` and every
`MaxCrashes`; the only assumption is `SupervisionAssumption` (`MaxCrashes \in Nat`).

| Theorem | Statement |
|---|---|
| `TypeCorrect` | `Spec => []TypeOK` |
| `MissionAfterRun` | `Spec => []MissionCancelledAfterRun` |
| `BridgeIsKept` | `Spec => []CancelledRunKeepsItsBridge` |
| `PromptedIsReachable` | `Spec => []PromptedSessionIsReachable` |
| `EndedIsTrue` | `Spec => []EndedRecordIsTrue` |
| `LifecycleIsImplemented` | `Spec => ImplementsLifecycle` |

The four invariants are not inductive by themselves. Two strengthenings are:

* `StatusInv` adds `RowsFollowLaunch` (while a launch is under way its run is `running`
  or already cancelled, so that "not terminal" in the launcher's guards means
  "running") and `CommandsFollowRows` (a command stands before the mission's row only if
  the run is terminal: `AfterStopRun` lets it past a blocker in no other case, and no
  step leaves a terminal status).
* `SessionInv` adds `SessionsFollowLaunch` (what the session and the interaction record
  can be at each point of the launch: nothing is prompted before `ready`, and a hosted
  launch reaches `ready` only through an attachment that put the session into the row)
  and `NotesFollowAborts` (a command notes an abort only after it was accepted).

Each is preserved by every action of `Next`, one step of the proof per action; the
refinement maps every step to a step of `RunLifecycle` or a stutter, using both.

### The proofs about Scheduler

For every set of rules and of policies the validation admits, every period, delay, cap
and batch size and every bound; the assumptions are `SchedulerAssumption` (there is a
rule; policies are of the type; the period and `fire_all`'s limit are positive, the other
numbers natural) and `NullsAssumption` (`NoRule` and `NoKey` are no rule and no key).

| Theorem | Statement | Module |
|---|---|---|
| `TypeCorrect` | `Spec => []TypeOK` | `Scheduler_proofs` |
| `DisabledIsAtRest` | `Spec => []DisabledHasNoNextFire` | `Scheduler_proofs` |
| `RetryIsAllowed` | `Spec => []RetryWithinPolicy` | `Scheduler_proofs` |
| `OwnerHasTheLastWord` | `Spec => OwnerPrevails` | `Scheduler_proofs` |
| `ReceiptsMatch` | `Spec => []ReceiptMatchesRun` | `SchedulerLedger_proofs` |
| `RunsDoNotOverlap` | `Spec => []NoOverlap` | `SchedulerLedger_proofs` |
| `LedgerImplemented` | `Spec => ImplementsLedger` | `SchedulerLedger_proofs` |
| `RetriesFollowFailures` | `Spec => []RetryFollowsFailure` | `SchedulerRetry_proofs` |
| `OneRunForARevision` | `Spec => []OneRunPerRevision` | `SchedulerRetry_proofs` |
| `NextFireIsNew` | `Spec => NextFireIsUnclaimed` | `SchedulerNext_proofs` |

Each inductive invariant uses those before it:

* `TypeInv` adds to the types `Shaped`: what the local variables of a trigger hold at
  each point (a fire while it works on one, a run once it admitted one, an outcome only
  when it settles).
* `RulesInv` says of each rule that a disabled one has no next fire and that its retry is
  within its policy; it rests on what the four writers of a rule (creation, update,
  owner's apply, advance) may change, one lemma each.
* `LedgerInv` is `Owning` (a trigger past its claim holds its key, and nothing is admitted
  or settled under a key but by its holder), `Row` (the receipt behind each run row),
  `OneRowPerKey` and `RowsInOrder`. `ReceiptMatchesRun` is in `Row`; for the refinement a
  claim maps to `Claim` of `TriggerLedger`, an admission to `Admit`, the receipt's update
  to `Settle` (`ClaimRefines`, `AdmitRefines`, `SettleRefines`), every other step to a
  stutter. `NoOverlap` follows step by step: a step admits one run after looking at the
  active ones in the same mutation, or makes none active that was not.
* `RetryInv` relates four places that know of an occurrence: the rule's pending retry
  (`PendingInv`), the keys claimed (`KeysInv`), the rows (`RevisionsInv`) and the fires a
  tick has in hand (`FiresInv`, `TickInv`): nothing collected is behind what was claimed,
  no row is ahead of its rule in revisions, and an attempt that may be made has only
  failed attempts behind it.
* `NextInv` is about positions, the times from which a rule can go on: its next fire, the
  occurrence of its pending retry, and the fires a tick has in hand. A position is
  `Steady` when whatever was claimed after it was missed before this start of the process
  and is claimed without gaps; the head of a tick's batch may leave the rule's next fire
  behind only if all between them is claimed under its present revision (`HeadInv`); an
  owner's edit under the tick puts the next fire beyond the tick's time (`SnapInv`); and
  behind a fire that was claimed, the next is free (`HoldInv`). `NextFireIsUnclaimed` by
  itself says nothing of the positions a retry, a batch or a restart may come back from.

The daily rule's next occurrence is `(t \div Period + 1) * Period`; the few facts about it
(it is later than `t`, no occurrence lies between, and what is whole periods after an
occurrence is one) are lemmas.

### Outbox_proofs

For every set of keys, items and callers and every bound; the assumption is
`OutboxAssumption` (purposes and items are those of the code, the startup pass is no
caller).

| Theorem | Statement |
|---|---|
| `TypeCorrect` | `Spec => []TypeOK` |
| `InterruptedIsKnown` | `Spec => []InterruptedSendIsKnown` |
| `DuplicatesAreCounted` | `Spec => DuplicatesAreMisread` |
| `OwnerDecidesAmbiguity` | `Spec => AmbiguityAwaitsOwner` |
| `ProgressIsInOrder` | `Spec => LateProgressIsDropped` |

`TypeInv` adds to the types that the sequence numbers have a common bound, so that the
maximum the recovery takes exists. `PromiseInv` is, per key: a request is out only while its row says `sending` in
memory *and* in the file; a row that some pass may still send, in memory or in the file
once the process dies, has an attempt to spare: what arrived, and what may yet arrive
unasked, stays below what was let through or misread. Every step then maps to a step of
`DeliveryPromise` or to a stutter.

`RowsInv` is about order and uncertainty: of two rows of an item the older has the smaller
number (`Ordered`), in memory while the process is up and in the file while it is down;
the file has no row and no number that memory has not, and knows of an uncertain row at
least that it was sent (`KnownRow`). The last is why a restart after a failed write
recovers that row as `ambiguous` again; the first is why it numbers anew without letting
a late progress message through.

### GoldenPath_proofs

For every set of handlers, every cap of the sweep and every bound, from
`GoldenPathAssumption` (the askers are distinct, a drive has at least one step).

| Theorem | Statement |
|---|---|
| `TypeCorrect` | `Spec => []TypeOK` |
| `AcceptedIsFinal` | `Spec => []CompletedIffOutcome` |
| `LiveIsDriven` | `Spec => []LiveRunIsDriven` |
| `BlockedIsActionable` | `Spec => []BlockedRunIsActionable` |
| `CheckedWritesKeep` | `Spec => CheckedWritesKeepStoppedRun` |

The inductive invariant is `IInv`: `AskersInv` (where each asker can be, and that it
writes only a live status), `RunInv` (a completed run's drive is at its end or about to
find out, a failed one's likewise; a cancelled run has a cancelled task), `LiveInv` (once
a drive is past its last write of the status, a live run has another driver or a reason)
and `BlockedInv` (each decision message ever announced left a button, unless its key was
used before).

### TelegramPolling_proofs

For every number of updates, finite set of loops, set of tokens and routes, every size of
the memory (`Kept`, also smaller than the updates there are) and every bound, from
`PollingAssumption`.

| Theorem | Statement |
|---|---|
| `TypeCorrect` | `Spec => []TypeOK` |
| `AcknowledgedHandled` | `Spec => []AcknowledgedIsHandled` |
| `OnceDispatched` | `Spec => []DispatchedOnce` |
| `OnlyConsumer` | `Spec => []OneConsumer` |
| `PolledAsSet` | `Spec => []PolledAsConfigured` |

`IInv` joins `NumbersInv` (offsets and batches lie within what arrived), `ConsumerInv` (a
loop that is live shows so, one that ended does not), `HandledInv` (whatever is
remembered, confirmed, or behind a loop's offset, its batch or a push has been handled, or
is among the known losses), `LostInv` (what was dropped is no golden-path update) and
`OnceInv`. The last counts: each dispatch, and each loop waiting for a slot, was
remembered once more than forgotten, where a number counts as remembered when it is in
the list and in the file, so that neither a restart nor a failed write gives one back;
loops that wait with one update are counted, hence the finite set.

### Model-checked only

All liveness, and nothing else: `LaunchSettles`, `DueRuleIsHandled`,
`EnqueuedMessageSettles`, `LiveRunSettles`, `GoldenPathUpdateArrives`. Fairness and
`ENABLED` are out of the prover's reach.

## 6. What is not modelled

Of the modelled components:

* Write errors of the core store under a launch or a stop. Those of the schedule store
  under a trigger, of the outbox's file, of the relay's file, and under a drive, a callback
  handler or the startup sweep are in the models.
* The runtime client being absent, in which case nothing is launched.
* Run rows written over HTTP by `recordExecutionRoutes.ts:48-80`, which reads, checks
  and writes in separate calls.
* Time zones, audit entries, telemetry, wording; the preview and detail clearing.
* Resuming an existing session, which the scheduled launch never does.

* `Outbox`: rendering of messages, action tokens (only that their writes carry the rows),
  attempt counters and times; conversation mapping of the port.
* `GoldenPath`: the intake of a request, which precedes the first step; the expiry of
  buttons (24 h); an executor's own verdict `blocked`, which no executor returns; the
  abandoned step of a timeout, which keeps executing with its abort signal raised;
  publication (`workGoldenPathPublish.ts`), which the delivery modes the host resolves
  never reach (`readiness.ts:178-183`).
* `TelegramPolling`: the room's lock and the bridge under a turn; `deleteWebhook`; a
  second webhook delivery beside the first; the bots of an installation beyond the ids
  they leave in the shared memory.

Behaviours the models contain but no property forbids, worth knowing:

* Concurrency policy `queue` starts the new run beside the active one
  (`service.ts:279-286`; SPEC-094 :231 says it waits). `NoOverlap` excludes it.
* A run cancelled between attachment and prompt is prompted all the same; what the
  runtime does with the prompt is its own choice, and the model allows both.
* An edit of the title alone recomputes the next fire from the clock, so that an
  occurrence that is due but not collected is dropped.
* A receipt claimed before a crash is never settled (`service.ts:258`): its rule is not
  advanced until the owner edits it, and cleanup, told to wait for a final receipt, is
  refused for ever (`ownerManagement.ts:14`).
* Of the occurrences missed while the process was down, misfire `skip` skips only the
  oldest: the rule advances to the next, which the following tick fires as due
  (`evaluator.ts:102`; SPEC-094 :243 says that missed fires are ignored). `fire_once`
  fires the oldest; SPEC-094 :244 says the most recent.
* Fires already collected are admitted although the re-read rule is disabled
  (`service.ts:179-194`; SPEC-094 :107).
* One occurrence gets a second run when the process dies between admission and advance
  *and* the owner edits the rule between the two reads of the restarted tick: the key
  holds the revision, so it is a second key (SPEC-094 :305). It takes both: after the
  crash alone the restarted tick meets its own duplicate, and an edit alone gives one
  run. `OneRunPerRevision` states what remains.
* A rule removed during a tick makes the tick throw: runs it admitted stay `queued`.
* A rule created over the id of an existing one starts at revision 1 again
  (`validation.ts:358`) and so shares keys with the earlier one: its triggers may meet
  receipts it never claimed, and be taken for duplicates.
* Under `fire_all` a startup tick claims the missed occurrences one after another. If one
  fails, and a retry of it is settled after later ones were claimed, the rule's next fire
  is counted from the retried occurrence (`advanceRuleAfterFire`) and is one that was
  claimed already; the ticks after that meet their own duplicate until the owner edits the
  rule.
* A tick ended by a failed write under the claim, in `skipFire` or while a failure is
  recorded leaves the runs it had admitted `queued` and never launched; under `skip`
  they hold off every later fire of the rule until the owner stops them. A rule whose
  fire is settled but not advanced stays on it, as after a crash.
* A comment (`workGoldenPathService.ts:419`) leaves progress and decision rows to startup
  recovery or the owner's retry; recovery takes only `pending` rows, and the Desktop
  route (`work/api/index.ts:274-287`) retries only result rows.
* Order between messages of one item (`outbox.ts:12`, FR-33) is not kept when a direct
  flush overtakes a row in flight or pending; only stale progress is dropped.
* A write that throws under the drive or the sweep leaves the run without a driver until
  the next restart; so does the cap when more runs are live than one startup resumes
  (`goldenPathStartupResume.ts:37`, `:86`).
* A run blocked just before the process died is passed over by the sweep, its message
  unwritten: the owner is not told (`goldenPathStartupResume.ts:69`; SPEC-114 :236).
* A write of the relay's file that fails behind the mark of an ordinary update leaves the
  number in memory, and the redelivery is a duplicate: the update is lost
  (`store/index.ts:263-269`; `server/routes/telegram.ts:309` says that Telegram redelivers
  it for real).
* The processed ids are one list for all bots of an installation, each of which numbers
  its own updates: another bot's number hides an update (`relay/ingress.ts:106`; SPEC-017
  :13). This one loses golden-path updates too.
* A stop that found its run `queued` asks no runtime; when the launch starts it before the
  stop writes, the run ends cancelled and its session is not aborted
  (`runCancellation.ts:99`).
* `applyLifecycle` rechecks only for completed and cancelled; a failed step sends no
  message; a cancel that
  precedes admission in another handler says "cancelled" while the admission proceeds.
* A golden-path capture waits for the room's lock, so a long turn stalls the loop.
* A reconnect starts what it read a second before; in the 50 ms after an empty batch a
  reconcile takes an aborted loop for a live one; a detached reconcile may start a loop
  while a reset is under way.

The other components of section 1 are not modelled. Authentication, approvals and
agent-made child runs are candidates (section 2); the products, renderers, desktop and
mobile shells are views and input/output around core and the runtime; memory and
knowledge are text processing; plugins and apps are parsing and transport. Run rows
written over HTTP are a hazard of `PROJECT.json` outside the models; the other hazards
that no property covers are in the models, and their notes say why nothing is claimed.
