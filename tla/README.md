# Verification of the ElyzeLabs gateway

ElyzeLabs is a control plane for coding agents. One Node.js process, the
*gateway* (`packages/gateway/src/server.ts`, a single closure
`buildGatewayApp` of some 58 000 lines), takes runs in over HTTP, Telegram and
schedules, keeps them in SQLite (`packages/db`), drains them through a durable
queue (`packages/queue`) into command-line agents (`packages/runtime`), watches
those agents and recovers the ones that stall. This directory holds TLA+ models
of that program, the TLC runs that check them and TLAPS proofs.

All paths below are relative to `src/`; `server.ts`, `database.ts` and
`index.ts` stand for `packages/gateway/src/server.ts`,
`packages/db/src/database.ts` and `packages/queue/src/index.ts`.

| Module | What it is |
| --- | --- |
| `WorkQueue` | what the queue promises to those who enqueue work, by steps and by calls |
| `WorkQueueProofs` | what the promises amount to; a call is a few steps: proofs |
| `QueueEngine` | the table `queue_items` and the engine that drains it |
| `QueueEngineProofs` | mutual exclusion, locks, slots and caps, kept rows, attempts; `QueueEngine` implements `WorkQueue`: proofs |
| `RunControl` | the parties that write the status of a run: handler, operator, watchdog, boot |
| `RunControlProofs` | types, owned handles, recoveries, pauses, live runs, use of the queue, lineages: proofs |
| `ScheduleDispatcher`, `ScheduleProofs` | runs fired by schedules, their history rows; proofs |
| `RunIngress`, `RunIngressProofs` | how a request or a Telegram update becomes a run; proofs |
| `Backlog` | backlog items, the orchestration tick, delegated runs and their reports |
| `BacklogProofs`, `BacklogRunProofs` | types, limit, order and transitions; attribution of runs to items, use of the queue: proofs |
| `Vault`, `VaultProofs` | secrets and key versions under two processes and crashes; proofs |
| `MCQueueEngine`, `MCRunControl`, `MCScheduleDispatcher`, `MCBacklog` | instances for TLC |

## 1. Inventory

### How the parts interact

Everything runs on one event loop and shares one synchronous SQLite handle
(better-sqlite3, foreign keys on). A sequence of statements without an `await`
is therefore never interrupted by another callback, only by a crash. All the
races in this program are between the code before and after an `await`, and all
the broken invariants after a crash are between two statements that are not in
one transaction. The models are cut exactly there.

    HTTP, Telegram, schedules, backlog
            | create run, enqueue item
            v
      runs, queue_items, watchdog_recovery_jobs, schedule_run_history (SQLite)
            ^            | reserve, lease, settle
            |            v
            |      QueueEngine --- calls ---> run handler --- launch ---> adapter
            |                                  | register    tmux / child / API
            |                                  v                     ^
            +--- replacement runs --- watchdog -------- abort -------+
                                       ^                             ^
                        operator: abort, steer, resume, approve -----+

### Components

**Queue engine** (`index.ts`, `database.ts:2367-2545`). *State*: rows of
`queue_items` with status, lease, attempt, availability; in memory a counter per
lane and a set of locked sessions. *Operations*: tick (release expired leases,
then per lane reserve, bounce or start), heartbeat, done, retry, dead letter,
start, stop. *Hard*: leases that lapse under a live handler, slots released on
several paths, several items of one session in a batch, deletion of a session
under its handler, crash at any statement. *Correct when* items of a session
never overlap, lanes keep their caps, settled items stay settled, no item
disappears and every item settles in the end.

**Run handler** (`server.ts:33669-37320`). *State*: `runs.status`, the attempt,
the attempt loop. *Operations*: accept, route, assemble, execute, follow up,
write the result, requeue, finish. *Hard*: some dozens of awaits between
reading the status and writing it. *Correct when* its writes respect what the
operator and the watchdog decided meanwhile.

**Run control API** (`server.ts:51212-51700`, `34050`). Abort, steer, resume,
runtime switch, bulk operations. *Hard*: executes runs beside the queue,
outside lane slots and session locks. *Correct when* every live run has
something that ends it.

**Runtime adapters** (`packages/runtime/src/adapters.ts`). *State*: the
processes map. *Operations*: execute as tmux session, child process or provider
call; abort. *Hard*: two executions of one run, deletion of the other's entry
after an await. *Correct when* an entry stands for an execution that goes on.

**Runtime watchdog and watchdog recovery** (`packages/runtime/src/watchdog.ts`,
`server.ts:32564-33460`, `database.ts:5129-5275`). *State*: registered runs,
health, `watchdog_recovery_jobs`, the in-memory set of pauses. *Operations*:
health events; retry, pause, wait, escalate, approve; reconciliation at boot.
*Hard*: decisions on a status read before an await, replacements created by
five statements, jobs that outlive a crash. *Correct when* a lineage has at most
one recovery due, a due one is served, their number is bounded and a withdrawn
one never starts.

**Run ingress** (`server.ts:50982-51195`, `39194-39302`, `59989-60183`,
`database.ts:3278-3295`). *State*: runs, idempotency keys, Telegram's offset (in
memory). *Operations*: `POST /api/sessions/:sessionId/runs`, the poll, the
webhook. *Hard*: run, key and item are written separately, with the model's
decision about delegation awaited in between; the offset is lost in a crash;
nothing recognises a delivered update. *Correct when* a key gets work queued
once, an accepted run is queued, and updates are answered, in order.

**Schedules** (`server.ts:41284-41680`, `11485-11560`,
`database.ts:5377-5662`, `schedule-registry.ts`). *State*: schedules with their
next due time, history rows. *Operations*: dispatcher tick, manual run, skip /
queue / replace, finalisation, pause, delete. *Hard*: `replace` awaits an abort
and rechecks nothing; four separate writes per firing; a history window of 20
rows decides whether a run is active. *Correct when* a schedule overlaps itself
only where its policy says so, a due one is fired, the end of a run reaches its
history, and one on hold is left alone.

**Backlog and delivery** (`server.ts:18173-18336`, `24829-25042`, `29128-29372`,
`30382-30913`, `46751-48531`, `database.ts:6827-7230`, `7756-7768`, `github-delivery-comparator.ts`,
`repo-evidence-search.ts`). *State*: items with a transition table,
dependencies, links to runs; delivery groups, GitHub leases, orchestration
control. *Operations*: orchestration tick, override, delegation of a run, report
of its end. *Hard*: the tick counts its slots and then awaits a model; a run is
attributed to its item through its session's metadata, which the next delegation
overwrites; a delegation is five writes. *Correct when* limits hold, an item has
one run at a time, a run's end moves its own item, nothing stays in progress
unattended, and nothing starts before its dependencies.

**Vault** (`vault.ts`, `scripts/runtime/vault.ts`). *State*: encrypted secrets,
key versions; in memory the unlocked keys. *Operations*: bootstrap, unlock, lock,
rotate, put, revoke, delete, reset. *Hard*: no call is a transaction, and the
gateway and the command line use the same rows. *Correct when* a rotation leaves
nothing in use behind, an open gateway can read and write, and what was revoked
stays so.

**LLM routing and failover** (`llm-failover-profiles.ts`, parts of
`server.ts`). *State*: budgets, cooldowns, attempts per provider. *Correct when*
a route is never chosen against its budget and a cooldown ends.

**Browser services** (`browser-*.ts`). Interactive sessions, local profiles and
a session vault. *Hard*: external processes with timeouts.

**Memory** (`packages/memory`): daily and curated files and embeddings.
**Skills** (`packages/skills`): registry and sandboxed calls.
**Frontier waves** (`frontier-*.ts`): release evidence from files.
**Dashboard** (`dashboard/src/app`): React client; `realtime.ts` replays events
from the last sequence it saw, and is correct when no event is lost or applied
twice.

**Pure parts**: sandbox policy, prompt governance, configuration and its
validation, channel adapters, router payload, context assembly, continuity
remediation, startup healer, web fetch, observability, shared identifiers. They
decide over strings and configuration, keep no state that interleaves, and unit
tests reach them.

`PROJECT.json` lists each component with its status and each hazard with the
line where it bites and the properties that cover it.

## 2. Plan

In the order of what it costs when it goes wrong. Done:

1. **Queue**: `WorkQueue` (abstract), `QueueEngine`, refinement, proofs; the
   use its clients make of it.
2. **Runs**: `RunControl` with handler, controls, watchdog and boot, proofs.
3. **Schedules**: `ScheduleDispatcher`, proofs.
4. **Ingress**: `RunIngress`, proofs.
5. **Backlog**: `Backlog`, proofs.
6. **Vault**: `Vault`, proofs.

To do:

7. **Lineages**: the replacements of delivery validation (`server.ts:33011`) and
   of a runtime switch (`server.ts:50449`) in `RunControl`; the detail of
   `RuntimeWatchdog`.
8. **Delivery groups** and GitHub reconciliation beside `Backlog`.
9. **LlmFailoverProfiles**: budgets and cooldowns.
10. **EventStream** (dashboard replay), browser sessions, built-in schedules,
    memory, wave locks.

The modules meet at the queue. `WorkQueue` says it once, from outside: `Spec` at
the grain of the engine, which `QueueEngine` implements, and `CallSpec` at the
grain of those who use it. `RunControl` (`active`), `ScheduleDispatcher`
(`Takes`) and `Backlog` (`StartRun`) model the queue as the status of one item
per run, and each implements `CallSpec`: none of them takes up a run beside
another of its session, a settled item or a withdrawn one, so no behaviour of
theirs rests on something the engine does not do. `RunIngress` stops at the
queue item. `RunControl` in turn is what the executions of the other modules
abbreviate.

To the queue a client does several things between two awaits. A watchdog
action, for instance, withdraws the items of the recoveries it supersedes and
submits one of its own, and a crash may cut it anywhere. A `Call` is therefore a withdrawal of
some items, one step of one item, and perhaps a crash; `CallIsSteps` proves that
each of the three is a step of `Next` or none, so that the clients ask nothing
of the queue but what the engine was shown to do.

## 3. QueueEngine

### Model and code

| Model | Code |
| --- | --- |
| `status`, `due`, `lease`, `attempt`, `stamp` | columns of `queue_items`; times reduced to past or future |
| `job` | status of the item's watchdog recovery job |
| `handled` | items whose run is in `NON_REPLAYABLE_RUN_STATUSES` (`index.ts:22`) |
| `exec` | handler calls in flight; not a variable of the program |
| `laneInFlight`, `sessionLocks` | the two fields of the engine |
| `lanesLeft`, `batch`, `reserved` | locals of `tick()` |
| `TickBegin`, `TickReserve`, `BounceItem`, `SkipHandledItem`, `StartItem` | `tick()` and the synchronous part of `runItem()` |
| `HandlerReturns`, `HandlerThrows` | the rest of `runItem()` with its `catch`, its `finally` and the `catch` of `tick()` |
| `Heartbeat`, `LeaseLapses` | lease renewal every half lease, and its failure |
| `Enqueue`, `CancelRecovery`, `PurgeDeadLetter`, `DeleteSession`, `WriteRunStatus` | what the rest of the gateway does to the table |
| `Boot`, `Stop`, `Exit` | start, `queue.stop()`, end or crash of the process |

A tick is one callback: nothing else may interleave, but a crash may. It is
therefore cut into small actions and every other callback is guarded by `Idle`;
crashes and the passing of time are not. The first tick of a process runs inside
`start()`. Reservation takes the rows in the order of the query (priority, then
age) up to the number of free slots, whatever sessions they belong to; the loop
over the batch then bounces the items of a locked session.

### Runs

| Run | Instance | States | Shows |
| --- | --- | --- | --- |
| `queue_slots` | 3 items (one a recovery) of 2 sessions, two lanes of one slot, no deletion of executing sessions | 501 520 | `LaneCapRespected`, `SlotsMatchExecutions`, `SessionSerialized`, `StartedWorkIsKept` |
| `queue_restart` | 2 items of one session, one lane of two slots, 3 starts of the process, deletions, fairness | 37 563 | `TypeOK`, `LocksMatchExecutions`, `ExecutingRowIsKept`, `ImplementsWorkQueue`, `EveryItemSettles` |

*Bounds.* Two attempts give a retry and a dead letter. Three items are the
least with which an item is bounced by one of its session while a third
competes for the slot; two lanes let two items of a session be taken in one
tick, two slots do so on one lane. Three boots give a crash during the recovery
from a crash. The instances split these cases because their product is too
large; what is proved (section 9) holds for all of them together.

*Fairness.* A process that is down is started again (a supervisor restarts the
gateway; `docs/runbooks/queue-stall.md` relies on it), a shutdown ends, a tick
runs to its end and the interval fires again, time passes, and a handler
settles because each adapter has an execution timeout. The last is strong
fairness: between two ticks the loop serves a settled promise. Nothing is
assumed of the operator. The lanes of `LaneOrder` only: an item on another lane
is never visited (`POST /api/sessions/:sessionId/runs` does not validate its lane), which the
property's antecedent states.

*Where the lane cap stops.* Deleting a session with a handler in flight makes
`markQueueRetry` throw when that handler fails, after which the slot is released
twice: in `finally` and in the `catch` of `tick()` (`RetryOfMissingRow`). The
lane then executes more than its cap. `queue_slots` excludes exactly this
(`DeleteBusySessions = FALSE`) and shows that nothing else does it; so does the
proof.

*Why these properties.* `LocksMatchExecutions` and `SlotsMatchExecutions`
compare what the program counts with what is going on; the pair fails on any
path that forgets or repeats a release. `StartedWorkIsKept` is the obligation
of `cancelScheduledWatchdogRecoveryJobs`, which deletes queue rows: only rows
that never started. `ImplementsWorkQueue` says all of it from outside: the state
of an item seen by its submitter is one of waiting, executing, settled, gone or
*orphan* (still executing although withdrawn), and every step of the engine is a
step between those or invisible. That a settled item is final
(`SettledIsFinal`) follows and is proved, not run.

## 4. RunControl

### Model and code

The subject is one lineage: a run and the runs that the watchdog made to replace
it, all of one session. Run *k* + 1 is created after run *k*. By
`SessionSerialized` the queue executes at most one of them, which is the variable
`active`; the rest of the queue is reduced to the status of each run's item.

| Model | Code |
| --- | --- |
| `status`, `parent`, `item`, `attempt`, `job`, `jobAttempt` | rows of `runs`, `queue_items`, `watchdog_recovery_jobs` |
| `pc`, `result`, `host` | where the handler is, between two awaits, with what result, hosted how |
| `handle` | the adapter's processes map: which execution registered last, or that an abort flagged the entry and is killing tmux |
| `watched`, `paused` | the watchdog's registrations, `watchdogOperatorPauseByRunId` |
| `pending` | aborts that wait for tmux, with what their caller does afterwards |
| `control` | the steer, resume and approval calls in flight |
| `SkipItem` ... `HandlerThrows` | the queue handler, `server.ts:33669-37320` |
| `OperatorAborts`, `WatchdogActs`, `CompleteAbort` | abort route and recovery actions, before and after the adapter's abort |
| `ControlOpens` ... `ControlThrows`, `ApprovalOpens` | `executeRunControlAction` and the watchdog's approvals |
| `Crash`, `CrashInReservation`, `CrashInRecovery`, `Boot` | a crash between callbacks or between two statements, and `reconcileWatchdogRecoveryJobs` |

An action goes from one await to the next. In `pc`, *preparing* stands for the
awaits before the handler writes `running`, *assembling* for those before the
launch, *executing* for the runtime, *settling* for the attempt loop,
*recording* for what lies between the end of the loop and the write of the
result, *closing* for messages, memory and skills after it. Several awaits
without a write between them are one such place.

An abort of a child process or an API call does not wait; an abort of a tmux
session waits for a `tmux` command, and everybody may act meanwhile. Where an agent is
hosted is the constant `Hosting`. A tmux launch may fall back to a child process;
it must when its session's name is taken (`TmuxTaken`): a launch, a steer and a
resume of a run share one name, its approvals another.
Which action the watchdog takes on a health event is a free choice among
`RecoveryActions`: the thresholds and the reading of the output are not
modelled.

### Runs

| Run | Instance | States | Shows |
| --- | --- | --- | --- |
| `run_tmux` | one run in tmux, every action but retry, one call, two aborts waiting, steps may throw | 473 220 | `TypeOK`, `HandleHasOwner` |
| `run_lineage` | a run and its replacement in child processes, retry and wait, one call | 109 744 | `LiveRunHasWork`, `JobOutcomeIsFinal` |
| `run_restart` | three runs in tmux, two recoveries, two aborts waiting, three boots | 459 860 | `OneRecoveryAtATime`, `ScheduledRecoveryIsServed`, `UsesWorkQueue` |
| `run_promises` | three runs in child processes, one recovery, pauses, a crash, fairness | 17 353 | `RecoveriesAreBounded`, `PausedRunAwaitsOperator`, `EveryRunSettles` |
| `run_exhausted` | one run | violation | `ExhaustedIsBuried` |

*Bounds.* Two aborts at once and one call are the least with which an abort
returns after another execution has registered itself, and with which two health
events overlap in the kill of a tmux session. Two runs show a
replacement; three show a replacement of a replacement, and, with
`MaxRecoveryAttempts` = 1, that the bound and not the number of runs stops the
watchdog. Three boots give a crash in the recovery from a crash. `run_restart`
allows one attempt per item: attempts do not matter to recoveries, and the
invariants are proved for any number.

`UsesWorkQueue` is the assumption the model makes of the queue, checked where
recoveries are cut by crashes: the statements of a recovery that were executed,
the jobs a boot supersedes and the items it releases are together never more
than a call (§2). An item in *processing* without an execution, which a crash
leaves, counts as waiting.

*Fairness.* As in `QueueEngine`, plus that the handler goes on: each await of it
has a timeout. It may do follow-ups, but a bounded number, so it leaves its
loop; the model does not count them and states this as strong fairness of
`CloseTerminal`. The run with liveness uses child processes, whose executions
end by a timeout or a signal; nothing is assumed of `tmux`. The operator, the
watchdog and errors owe nothing.

*Where a property stops.* Each is checked where the code keeps it; the limits
say what the code does:

- `PausedRunAwaitsOperator` holds for the pause that leaves a note for the
  handler, with child processes and without steps that throw: an exception
  between registration and deregistration leaves the run watched
  (`server.ts:34015`), and in tmux the handler may close between the decision
  and the write. A steer in flight overwrites a pause in any hosting. It is
  false for the action `wait`, whose pause leaves no note: the handler whose
  execution the pause killed writes its own result over it, and the run can no
  longer be resumed.
- `RecoveriesAreBounded` is false in tmux when two health events overlap in one
  kill: both read the same attempt number (`server.ts:33132`).
- `LiveRunHasWork` excepts replacements whose recovery was cancelled or
  superseded: their row stays `queued` for good. It is checked without
  exceptions, since a steer whose prompt cannot be assembled leaves `running`
  behind (`server.ts:51349`), and without crashes, since a crash leaves a run of
  a steer in `running`.
- `JobOutcomeIsFinal` holds without crashes. With one it does not: the boot
  marks a job superseded but leaves its item, and the handler finds the job by
  id and dispatches it.
- An abort by the operator is not final, and no property says so: the handler of
  the killed child sees a retryable failure, writes `failed` over `aborted`,
  then `queued`, and the run executes again. `docs/runbooks/runtime-recovery.md`
  ("Abort affected run") does not promise more.
- `OneRecoveryAtATime`, `ScheduledRecoveryIsServed` and `HandleHasOwner` hold
  with no such limits.

*The violation.* `run_exhausted`: the last retryable failure is written to the
run before it is thrown (`server.ts:36442`, `37316`), so the engine takes the
item as handled: it becomes `done` and no dead letter is written.
`docs/chaos-drills.md:9-10` expects one. The `findings` entry of `PROJECT.json`
quotes it.

## 5. ScheduleDispatcher

### Model and code

A schedule targets a session of its own and fires runs into it. `due` is
`next_run_at <= now`; that it is counted again from the last run is what makes a
skipped or resumed schedule due at once.

| Model | Code |
| --- | --- |
| `exists`, `held`, `due`, `ran`, `agentOk` | the row of `schedule_jobs` and its target agent |
| `row`, `skip`, `depth` | rows of `schedule_run_history` per run: the one of its firing, the latest added in its name by a skip, how many rows came after |
| `status`, `item`, `outcome` | run, its queue item, what its handler holds |
| `batch`, `inFlight`, `replacing` | the tick's list and guard, the aborts awaited |
| `Blocked`, `Skipped`, `Replaces`, `Fires`, `Replaced` | `queueTargetedScheduleRun`, by the tick or the "run now" route |
| `ReplacesDeleted`, `DispatchesDeleted` | the same with a schedule deleted meanwhile, which throws |
| `Takes` ... `Reports`, `Refuses` | the handler and `maybeFinalizeScheduledRun` |
| `Pauses`, `Resumes`, `Deletes`, `AgentToggles`, `OperatorAborts`, `OperatorResumes` | routes |
| `Crash`, `CrashInFiring`, `CrashInReplacement` | after 1, 2 or 3 of the four writes of a firing |

The rows are not a sequence: whether a run is found active depends only on its
status and on how deep its latest row lies, capped at the window.

### Runs

| Run | Instance | States | Shows |
| --- | --- | --- | --- |
| `schedule` | a schedule that skips and one that replaces and is also run by hand, window 2, 3 runs and events together | 867 759 | `TypeOK`, `OverlapHasACause`, `EndIsReported`, `HeldIsNotFired` |
| `schedule_due` | a schedule that skips, also run by hand, window 2, 4 runs and events, fairness | 174 495 | `DueIsFired` |

*Bounds.* Runs, crashes and changes share the bound `MaxEvents`: three are a
firing, a second one, and what comes between. A window of two rows is left by
two blocked firings as one of twenty by twenty.

*Fairness.* The interval fires and an awaited abort ends (weak, `Tick`); the
queue gives every item its turn however often the tick comes between (strong,
`Handler`).

*What the properties say.* A `skip` or `replace` schedule does overlap itself,
and `OverlapHasACause` lists every way: the run has left the searched window
(`server.ts:41287`), a handler wrote it back to life after an abort, or it was
fired while another caller awaited an abort. `HeldIsNotFired` likewise admits
only a replacement that was awaiting and the tick's copy of a deleted schedule.
`EndIsReported` compares the handler's result with the row the search by run id
finds, which after a skip is the skip's row (`server.ts:11510`). `DueIsFired`
excuses a schedule whose active run can never end: the crash fell before its
item was enqueued, or it waits for an operator.

## 6. RunIngress

### Model and code

| Model | Code |
| --- | --- |
| `made`, `status`, `item`, `delegated` | runs of a request; a run that is queued, or others in its place |
| `keyed` | `idempotency_keys` |
| `sent`, `acked` | Telegram (external) |
| `offset`, `polling`, `batch` | `telegramPollingOffset`, `telegramPollingInFlight`, the answer of `getUpdates` |
| `PostRun`, `InjectUpdate`, `DeliverUpdate` | up to the await of the model's decision |
| `QueueRun`, `CompleteRun`, `Answer`, `Throw` | after it |
| `Crash`, `CrashBeforeKey`, `CrashDelegating` | between callbacks; between `createRun` and the key; among the delegations |

### Run

`ingress` (450 774 states): one key, two updates, one failure (crash, exception
or timeout), one abort, either `useWebhook`; `TypeOK`, `WorkIsNotRepeated`,
`QueuedIsServed`, `AnsweredInOrder`, `EveryUpdateIsAnswered`. Two updates are
what an order needs. A key may be sent again at any time; keys do not interact,
so one is enough. *Fairness*: the poll's timer, the handlers' awaits, and
Telegram, which redelivers until it is told 200.

`WorkIsNotRepeated` is the promise of `docs/api-contract.md:557-558` over
crashes and concurrent requests; for Telegram it says how much is repeated: one
run more for each failure. `QueuedIsServed` has the exception the code makes: a
crash or exception between the run and its item leaves a run that shows as
`queued`, is given back to whoever repeats the key, and is executed by nobody
(`server.ts:51066`).

## 7. Backlog

### Model and code

| Model | Code |
| --- | --- |
| `state`, `deps`, `link` | `backlog_items`, `backlog_dependencies`, `linkedRunId` |
| `sess`, `names` | sessions opened by delegations, and the item in their metadata |
| `status`, `item`, `at`, `attr` | run, queue item, its execution, the item it read from its session at its start |
| `cands`, `slots`, `phase`, `looping` | locals of `tickBacklogOrchestration` |
| `TickReads` ... `TickEnds` | a tick, by the timer or by the route, cut at the await of the model's choice of agents |
| `DelegateCandidate`, `ForceDelegated` (`Delegated`) | `queueDelegatedRun` and the writes of its callers |
| `ReconcileCandidate`, `ForceRefused` (`Reconciled`) | an item that has an active run is linked to it |
| `StartRun` ... `ReportRun`, `ThrowRun`, `WaitRun`, `ResumeRun`, `AbortRun` | execution and `maybeBridgeDelegatedBacklogReceipt` |
| `MoveItem`, `DeleteItems`, `SetDependencies`, `SwitchOrchestration`, `ForceAsked` | routes, and GitHub's events, which are moves the table allows |
| `Crash`, `CrashDelegating` | between callbacks; after 1 to 4 of the five writes of a delegation |

### Run

`backlog` (715 701 states): two items, one waiting for the other, one agent that
spawns sessions when busy and one that does not, limit 1, fanout 2, three runs,
two events of any kind. *Bounds*: three runs are an item delegated twice beside
another; with limit 1, two overlapping ticks already exceed it. Two events give,
for instance, an override and an abort, or a move and a crash. Nothing is said
about liveness: an item may wait for an operator for ever.

*What the properties say.* The tick of the timer and one asked for over the
route do overlap, and the limit then holds twice only (`WipRespected`). A run is
attributed through its session, which goes on to other items, so
`OneRunPerItem` and `EndIsFiledRight` hold except for sessions shared by design
(an agent that does not spawn), opened twice in a millisecond, or of runs aborted
and revived. `StuckHasACause` lists what leaves an item in progress with nobody
at work: a run dropped by a crash, an error or an abort nobody executed, or a
report filed elsewhere. `OrderKept` is about dependencies over overrides,
deletions (which cascade) and edits.

## 8. Vault

### Model and code

No call of `VaultService` is a transaction. Each that writes more than one row,
or writes by what it read before, is cut into its statements, the SELECTs that
`createVaultKeyVersion` and `upsertVaultSecret` make before and after their
writes included; the gateway and the command line share the rows, and either
may stop between two of them.

| Model | Code |
| --- | --- |
| `key`, `wrap`, `last` | rows of `vault_key_versions`, and the counter of its `AUTOINCREMENT` |
| `state`, `version`, `seal` | rows of `vault_secrets`; `seal` is the DEK a row was really encrypted with |
| `dek` | `unlockedDekByVersion` of each process: the DEK it keeps for a version |
| `at`, `old`, `new`, `mine`, `todo`, `writing` | where a call is, and its locals; `mine` is the DEK of the row it inserted |
| `BootCheck`, `BootInsert`, `Bootstrap` | `bootstrap`: `isInitialized`, the INSERT, the version read back |
| `RotateRead` ... `RotateEnd` | `rotateMasterKey`, `vault.ts:225-284` |
| `StoreRead` | the first part of `setSecret` and `rotateSecret` |
| `Find`, `Update`, `Insert`, `UpdateNothing`, `Stored`, `Rewired` | `upsertVaultSecret`, for a stored and for a rewired secret |
| `Throw` | a call that ends by an exception, under the conditions `Fails` |

A DEK is named by the row it was inserted with. Because the new row is read back
as *the newest*, a process may keep its DEK under the number of another row,
which is why `seal` and `mine` are told apart from `version` and `new`. The
command line executes one command and exits (`Return`). Two calls of several
statements stay one action. `Unlock` reads the versions and then the active one:
it fails if a version was inserted in between, and a version deleted in between
is of no use to anyone. `ResetEmpty` is one action at its DELETE of the keys: a
secret inserted before that by the command line is deleted too, one inserted
after it violates a foreign key. What may be left behind:

- *a rotation cut short* by a crash or an exception, or during which the other
  process was alive;
- *a contested bootstrap*: the gateway's route and the command line both find
  the vault empty, each derives a key for a long time, each inserts a version.
  Both are active. What was stored under the first stays there; a gateway that
  holds only the first cannot store (`setSecret` finds the active version locked).

`unclean` records the versions such a rotation or bootstrap inserted: the
properties say that those and no other leave a secret or the gateway behind.
`importEncryptedPayload` has no caller outside the tests.

### Run

`vault` (1 844 289 states): two secrets, two master materials, three key
versions, deadlock checked; `TypeOK`, `ActiveIsNewest`,
`LeftBehindOnlyByUncleanVersion`, `OpenGatewayServes`, `RevokedStaysRevoked`.
Three versions give a rotation after one that was cut short, or after two
bootstraps; two secrets one
that is rewired and one that is not. `docs/runbooks/startup.md:78` offers `pnpm
vault:unlock` for a locked gateway; in the model as in the code, an `Unlock` of
the process `cli` puts no key into `dek["gateway"]`. No property rests on it.

## 9. What is proved

The proofs hold for every value of the constants that the named assumptions
admit: any finite set of items, any lanes, caps and priorities, any number of
runs, sessions, keys, versions, calls, attempts and boots, every hosting. The
assumptions (`ItemsAssumption`, `LanesAssumption`, `BoundsAssumption`,
`RunControlAssumption`, `ScheduleAssumption`, `IngressAssumption`,
`BacklogAssumption`, `VaultAssumption`) only say what kind of value each constant
is; TLC evaluates them in every run. Where a theorem needs more, it assumes it
in its statement.

**`QueueEngineProofs`** (`TypeCorrect`, `Serialized`, `RowKept`,
`SettledStays`). `SessionSerialized` is not inductive: nothing in it says why
`StartItem` finds no other execution of the session. The inductive invariant
`IInv` adds the reasons. `LockedWhileExecuting`: an execution's session is
locked. `ReservedCoversLocks`: the set a lane visit works with includes every
lock. `BatchIsProcessing`: what a tick holds is reserved. `ExecutingRows` and
`ScheduledIsUnstarted`: the row of an execution is unsettled, and a job that is
still scheduled has no execution, so cancelling it takes no executing row.
`GoneSessionHasNoRows`: the rows of a deleted session are gone and do not come
back. `DownIsIdle`: a process that is down holds no tick. One lemma,
`EndStep`, treats the end of an execution, another, `TableStep`, what the rest
of the gateway does to the table; `NextIInv` goes through the actions.

*Locks and started work* (`LocksAreExecutions`, `StartedStays`). `WorkInv` adds
the other direction, `LockHasExecution`: a lock has an execution, at every point
of a tick. `CancellableIsUntried` says that a recovery job
is no longer `scheduled` once its item was tried.

*Lane counters* (`SlotsAreCounted`, `LanesKeepTheirCap`), for
`DeleteBusySessions = FALSE`. `SlotInv` counts, per lane, what executes together
with what the tick took for the lane and has not started (`Taken`), which never
exceeds the cap: the tick takes no more than the free slots and a start moves an
item from one to the other. `BusySessionsStay` keeps `RetryOfMissingRow`
disabled. The rest is cardinalities of sets that differ by one element.

*Attempts* (`BuriedAfterTheLastAttempt`). What is in the dead letters failed
`MaxAttempts` times, and nothing that did is tried again: leases that lapse,
bounces, restarts and cancellations neither count as a failure nor forget one.

*Refinement* (`Implementation`). The mapping is `AbstractPhase`:
what an item's row and its executions look like from outside. Each action is a
step of one item (`OthersKeepPhase`, `AloneIsExcept`), a withdrawal of a set of
items, a crash, or invisible. `IInv` is needed for `Begin`, whose guard is the
mutual exclusion.

**`WorkQueueProofs`** (`StepsAreSerial`, `CallIsSteps`, `CallsAreSerial`). That
the abstract queue deserves its name: at most one item of a session executes,
what is over stays so, and an item that was submitted is never unknown again,
hence not submitted twice. `Begin` checks this and no other step may break it,
a crash included, after which an orphan is gone and not waiting. A `Call` is
taken apart into at most three steps, and inherits the promises.

**`RunControlProofs`**. *Handles* (`HandlesAreOwned`). `Shape` is the part of the types
that matters. `HandleIsHosted` adds to the property that an entry belongs to an
execution that is not an API call, since only those register and deregister;
without it the end of an API call would leave an entry behind. An entry that
an abort flagged has no execution to answer for it any more; what answers is the
abort in `pending`, which deletes it. Aborts are numbered in the model, since two
health events of one run may be killing the same session.

*Recoveries* (`RecoveriesDoNotFork`, `PromisedRecoveriesAreServed`).
`RecoveryInv` says why no second recovery can be scheduled while one waits.
`UnbornIsAbsent`: runs to come have no rows. `WaitingIsUntouched`: the handler,
the watchdog and the calls do not know a run whose recovery waits, nor one that
does not exist yet, so only an operator's abort may touch it.
`PendingIsBorn`: aborts in flight name existing runs.
`ScheduledIsQueuedOrAborted` closes the circle. A crash may cut a recovery
anywhere (`CrashInRecovery`), which is why both properties are claimed only
while the process is up: `Boot` restores them.

*Without a crash* (`OutcomesAreFinal`, `MaxBoots = 1`; `LiveRunsHaveWork`, also
`MayThrow = FALSE`). `OutcomeInv` adds `WithdrawnIsUnqueued`: the item of a
recovery that was withdrawn has left the queue, so nobody dispatches it;
each action is sorted by what it does to the rows of a run (`RowStep`).
`WorkInv` adds that the run under the handler has its item (`ActiveHasItem`),
that a handler past its last write left a settled run behind
(`ClosedIsSettled`), and that an approval opens nothing on its own
(`ApprovalsDoNotOpen`).

*Types* (`TypeCorrect`). `Books` says that the aborts that wait are finitely
many and that the lineage has room for every replacement they promise
(`born + Promised <= MaxRuns`), hence a recovery always finds a row to fill;
`WorkerTypes` that an attempt is counted only when one is left.

*Bounded recoveries* (`RecoveriesStayBounded`, `Hosting # "tmux"`). Outside tmux no
abort waits (`NothingWaits`), so the number a recovery was decided with is still
new when its job is written (`NextIsNew`). The jobs of a lineage then carry
different numbers from 1 to the limit (`Numbered`), and an injection bounds them.

*Pauses* (`PausesHold`), under the conditions of the run: `MayThrow = FALSE`, no
control calls, not in tmux, no action `wait`. A run is watched only while its
handler executes (`WatchedIsExecuting`), and a handler whose run was paused
carries that to its end: first as the note in `watchdogOperatorPauseByRunId`,
then as its result (`PauseIsCarried`). Each condition is needed: §4 says what
breaks the property without it.

*The queue beneath* (`QueueIsUsedAsPromised`), without conditions. An item that
executes is in *processing* under the active handler, and whatever writes an
item's status moves that one item from where it is, or withdraws it
(`ClientInv`, `ClientStep`).

*Lineages* (`LineagesEnd`, `HeadsGoForward`). `resolveLineageHeadRun` follows
the latest replacement until there is none. A replacement is created after the
run it replaces (`Older`), so the walk ends, in a run that was created and that
nothing replaced, and a step that creates a replacement moves its end forward
only (`Grows`). The model writes the walk as a recursive function, and that
`HeadFrom` satisfies its own definition (`HeadIsDefined`) needs an induction:
were there none that does, take the smallest number of youngest runs for which
none does, and extend the function found for one run less.

**`ScheduleProofs`** (`TypeCorrect`, `OverlapAlwaysHasACause`, `HeldIsNeverFired`,
`EndIsAlwaysReported`, `GuardIsAlwaysTrue`, `QueueIsUsedAsPromised`). The
invariant adds to the property what a caller that awaits an abort has not looked at (`Awaited`): everything active beside the run
it replaces is lost to the search, newer than that run, or came in between. Steps
that fire nothing are `Calm`; a firing, whole or cut by a crash, is `Added`.
`EndIsReported` is inductive once it is said per run (`Settles`): each action
either writes both sides or neither (`Aside`). `GuardIsTrue` says that
`scheduleDispatcherInFlight` is set exactly while a tick has work left or awaits an abort;
one path that left it set would end all dispatching until a restart. For the
queue, an item is a pair of a session and a run, since which schedule a run is
of is only known when it is fired; the same goes for backlog runs.

**`RunIngressProofs`** (`TypeCorrect`, `NothingIsRepeated`, `QueuedRunsAreServed`,
`UpdatesAreInOrder`, `GivenIsGiven`, `KeysNameTheirWork`). `KeysOnce`: of a
key's runs only the one in its row has a handler or work. `Paid`: each run of an update after the first is paid for by a
failure. `Polls` and `BatchInOrder`: what the poll still holds comes after all it
confirmed. `Replies`: a handler that is about to answer has what it answers with.
Beyond the run's properties: a key keeps naming the same run and an answer is
not taken back (`AnswersAreKept`), and the run a key names exists and is the one
among those of the key that has the work (`KeyNamesItsWork`), not one that a
crash left between its creation and its key.

**`BacklogProofs`** (`TypeCorrect`, `WipIsRespected`, `OrderIsKept`,
`TransitionsFollowTheTable`). `Wip`
bounds what ticks put in progress together with the slots they still hold; an
idle tick holds none. `OrderKept` is preserved
because steps only go `Forward`: what is finished stays so, or its dependents
forget it. In the code every writer goes through `transitionBacklogItem`, which
throws when a move is not an edge of `allowedBacklogTransitions`. `Backlog` has
that exception where it can occur (`MayMove`) and leaves it out where the writer
looked at the state before (reconciliations, automatic blocks);
`TableIsFollowed` shows that nothing is missing there.

**`BacklogRunProofs`** (`OneRunAtATime`, `EndsAreFiledRight`,
`StuckAlwaysHasACause`, `QueueIsUsedAsPromised`). `Faithful`: an active run's
session names its item,
unless it is excused (`Named`); hence `findActiveDelegatedRunForBacklogItem`
finds it and no second one is made (`Alone`), and its handler read the right
item (`Known`). The heart is `SessionTaken`: a delegation opens a session, or
takes one without an active run, or makes it one of those excused. `Cares` follows each run from
its creation to its report (`Accounted`) and says the same of the run linked to
an item in progress (`Moving`).

**`VaultProofs`** (`TypeCorrect`, `ActiveIsAlwaysNewest`,
`OnlyUncleanVersionsLeaveBehind`, `OpenGatewayAlwaysServes`,
`RevokedAlwaysStaysRevoked`, `SecretsAlwaysHaveTheirKey`,
`SecretsAlwaysGoForward`). The invariant follows bootstraps, rotations and stores
from statement to statement: what a call has read and written so far (`Rows`,
`Numbers`, `Writing`), that a dead process holds nothing (`Dead`), that an
overlap marks the rotation and a second bootstrap its version (`Clean`), that a
clean version is read back under its own number (`ReadsBack`) and hence kept and
used under it (`Labels`), and which versions an open gateway knows
(`GatewayOpen`, `GatewayKnows`); `Newest` and `Behind` are two of the properties,
strengthened for the states within a rotation. From the same invariant: every
row, revoked ones included, names a version that exists and is encrypted with
that version's DEK, unless the version is unclean (`SecretsHaveTheirKey`), and a
live secret goes back to an older version only behind an unclean one
(`SecretsGoForward`).

*Only model-checked.* What holds under fairness: `EveryItemSettles`,
`EveryRunSettles`, `DueIsFired` and `EveryUpdateIsAnswered`. Liveness and
`ENABLED` are out of the prover's reach. Every invariant and action property the
passing runs check is proved. Induction over data by the library's theorems is
out of reach as well; the one place that needs it, the walk along a lineage,
argues by a least counterexample.

*Only proved.* `SettledIsFinal` and the theorems without a run of their own
(`BuriedWhenExhausted`, `HeadIsLast`, `HeadGoesForward`, `GuardIsTrue`,
`TableIsFollowed`, `AnswersAreKept`, `KeyNamesItsWork`, `SecretsHaveTheirKey`,
`SecretsGoForward`, and `CallSpec` under schedules and backlog) are consequences
of the invariants of their module and are stated beside the proof, in the
`...Proofs` modules.

## 10. What is not modelled

- Content: prompts, replies, formatting, metrics, events, routing among models
  beyond its outcome.
- *Runs*: those a schedule executes directly in a browser (`server.ts:33778`),
  which bypass the adapter; the replacements of delivery validation
  (`server.ts:33011`) and of a runtime switch (`server.ts:50449`), and the reuse of a
  persistent tmux session by a later run. How the watchdog classifies health, and
  its thresholds.
- *Hosting* = `"api"` is part of the model and of the proofs, but no run uses
  it: its behaviours are those of a child process that no abort reaches.
- *Schedules*: built-in ones (`server.ts:39584`), direct browser schedules,
  creation and editing, the arithmetic of cron.
- *Ingress*: commands and messages that are ignored, one key used for two
  sessions, a session deleted under its handler, routes that create and queue a
  run without an await between, GitHub's deliveries.
- *Backlog*: project scopes and their caps, the model's choice among agents
  (`Target` is fixed), the dispatch lock, the relinking of runs the watchdog
  superseded (`server.ts:29147-29176`), publishing (`29235`), delivery evidence,
  reconciliation with GitHub beyond its moves, execution contracts, creation of
  items, deletion of sessions, changes of the limit, a crash between the two
  writes of a reconciliation.
- *Components without state that interleaves*, or whose state is outside the
  process: see the notes in `PROJECT.json`.
- Two gateway processes on one database: the program holds its locks in memory
  and does not support it. The command line beside the gateway is supported, and
  is in `Vault`.
