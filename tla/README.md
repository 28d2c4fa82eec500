# A verification project for kortny

Kortny is an AI coworker that lives in Slack.  A message becomes a *task*, a
row of the Postgres table `tasks`; a worker process claims it, runs an agent
with tools, asks its user before it does something risky, and posts the answer.
Postgres holds all durable state, several processes share it, each of them may
die at any moment, and Slack delivers its events at least once.  This directory
holds TLA+ modules translated from the code, the TLC configurations that check
them on small instances, and theorems about them checked by TLAPS.

Paths below are relative to `kortny/`.

## 1. The system

Processes: `app` (Slack Socket Mode), `worker` (any number), `ambient` (a
supervisor of polling loops: scheduler, witness, consolidator, Composio sync,
profiler, trigger listener), `dashboard`, `sandbox-runner`.

| component | state | operations | what makes it correct |
|---|---|---|---|
| Task queue (`queue/service.py`) | `status`, `locked_by`, `lease_expires_at`, `attempts`, `available_at` of a task | claim, reclaim, renew | one executor per task, nothing lost, bounded attempts |
| Task repository (`tasks/repository.py`) | the row, its `task_events` | transition, cancel, retry, park, approve, reject | final statuses stay, decisions stay, every park can be answered |
| Worker (`worker/service.py`) | an ORM session, a heartbeat thread | poll, execute, finish in two commits | the outcome belongs to the run that owns the lease |
| Agent executor, coordinator (`worker/agent_executor.py`, `agent/coordinator.py`) | the run: turns, tool attempts | approval gate, parking, connect parks, tool dedup | a risky tool runs only when approved, a side effect at most once |
| Slack outbox (`slack/outbox.py`, `slack/posting.py`) | `slack_side_effects` | deliver, recover | a success is never repeated |
| Interactive actions (`slack/interactions.py`, `slack/decisions.py`) | `interactive_actions` | mint, mark_sent, claim, complete, supersede | one click decides, a posted button works |
| Slack ingress (`slack/ingress.py`, `slack/inbound_events.py`) | `slack_inbound_events` | record, mark; reactions | one task per event |
| Scheduler (`scheduler/service.py`) | `schedules` | materialise due schedules | each fire makes at most one task, none overlaps |
| Ambient supervisor, system drives (`ambient/`) | restart delays, control rows | restart with backoff, gate a tick | a loop never goes dark, backoff stays in bounds |
| Composio (`composio/`) | connections, trigger subscriptions and events | connect parks, listener with a leader lock, enable, disable | an occurrence asks its owner once, somebody listens |
| Witness, consolidator (`witness/`, `consolidator/`) | candidates, ledger, facts | propose, deliver, consolidate | a suggestion is delivered once |
| Memory, knowledge graph | facts, edges | supersede, merge | one current fact per subject |
| Sandbox runner | session registry, containers | create, exec, collect | no container in use is collected |
| LLM service, MCP, tools, documents, skills, dashboard, evals | mostly calls and data | | cost ceilings |

How they interact: all through rows.  The worker polls `tasks`; Slack handlers
write the same rows and append `task_events`; the worker's deliveries go through
the outbox, whose rows reference the task and so lock its row; buttons are rows
that a click claims and that call the repository; the scheduler and the ambient
loops create tasks for the worker.

What is hard: interleavings of transactions whose guards read a row *before* it
was locked; the worker committing at every event; leases that expire under a
live holder; crashes between two commits; `SKIP LOCKED` that turns a wait into
an answer; requests, prompts, buttons and decisions that refer to each other by
keys.  `PROJECT.json` lists each hazard at its line.

## 2. TaskLifecycle

`TaskLifecycle.tla` is the core: the queue, the worker and the handlers around
one table row.

State and code:

* `row[t]`: the committed columns `status`, `locked_by` (`owner`),
  `lease_expires_at` (`lease`: none, live or expired), `available_at`
  (`delayed`: in the future), `attempts`.
* `log[t]`: what `task_events` say about approvals: the keys asked for, the
  newest one, the decision on each, and (a history variable) the keys under
  which a tool ran.
* `session[w]`: where worker `w` is in `TaskWorker.run_once`, the task it works
  on, and what its ORM session remembers: the `seen` status, whether the lease
  columns were `held`; whether it `parked` the task, whether its `heartbeat`
  thread runs, whether an open Slack delivery keeps the row lock (`locking`).
* `tx[h]`: the row as a Slack handler loaded it.

An action is one committed transaction, or a read that a later transaction
relies on.  Three facts of the code shape the module.

1. `make_session_factory` sets `expire_on_commit=False` and `_resolve_task`
   issues `SELECT ... FOR UPDATE` without refreshing the object: the guard after
   the lock tests the attributes loaded before it, and a flush writes only the
   attributes that differ from what was loaded (`Flush`).
2. The worker's repository commits after every event (`commit_after_write`), so
   `run_once` clears the lease in one commit and writes the final status in the
   next (`AfterExecutorCompleted` then `Succeed`, `RecordError` then `Fail`,
   `RecordCancelled` then `FinishCancel`).
3. Claim, reclaim and renew use `SKIP LOCKED`; everybody else waits (`Free`).

Reclaim passes through the status `crashed` inside one transaction, so the
status never shows in a committed row.  The poll reclaims and claims in one
transaction: `Claim` starts from `AfterReclaim`.

`Faults` names what the environment may do beyond stopping a worker in
mid-run:

* `late_heartbeat`: a lease expires although its holder's heartbeat runs (a
  stalled thread or database);
* `skipped_renewal`: a renewal meets its row locked;
* `stale_load`: a handler acts on a row that changed since it was loaded;
* `crash_between_commits`: a worker dies between its two last commits.

### Runs

All use one task (tasks only share the workers) and two workers, so that a
reclaim meets a live holder.  `MaxAttempts = 2` lets a task be both requeued and
dead-lettered; larger values add no new guard.  Workers and handlers are
symmetric where no liveness is checked.  Deadlock is checked everywhere: a
worker can always poll.

| run | constants | shows |
|---|---|---|
| `faults` | 2 handlers, 1 key, one attempt, all four faults | no tool runs unapproved; a logged decision is never replaced, although handlers decide on rows they loaded long before |
| `live` | 2 handlers, 1 key, two attempts, no fault, fairness | one executor per task; a lease passes only through nobody; rows and events implement `ApprovalContract`; every task settles |
| `requeued` | 1 handler, 1 key, no fault | the first disagreement of section 11 |

No fault does not mean no crash: a worker may die anywhere but between its two
last commits, and be replaced.  `faults` has two handlers because a row goes stale
only when another handler or a worker commits between the load and the lock.  No
run has a connect key: with one, the contract and `WaitingIsAnswerable` are false
(section 11).  The theorems allow any set of them, but for the two about these.

### Fairness (`FairSpec`)

`run_forever` polls and works as long as the process lives, a restarted worker
keeps its name, every executor step is bounded by a timeout: strong fairness of
`Progress(w)` (crashes and cancellations interrupt it again and again), weak
fairness of `EndDelivery(w)`.  The claim is FIFO (`ORDER BY available_at`), so a
task that is again and again claimable is claimed: strong fairness per task; the
same holds for an expired row, which the reclaim takes oldest first.  Time
passes: weak fairness of `BecomeAvailable` and `ExpireLease`.  Nothing is assumed
of handlers.  `TaskSettles` also covers waiting: a parked task has settled until
its user answers.

### Proofs (`TaskLifecycleProofs.tla`)

For any finite or infinite sets of tasks, workers, handlers and keys, and any
`MaxAttempts >= 1`:

* `TypeCorrect`: `TypeOK` is not inductive on its own, the job of a busy worker
  must be a task; `Typed` adds `Busy`.
* `DecisionsAreFinal`, `OnlyApprovedToolsRan`: under every fault.  `LogStep`
  reduces a step to at most one of three events on one task; a decision is only
  logged for a key that `PendingKeys` returned, hence undecided; what ran stays
  approved because decisions stay.
* `PendingTasksAreUnlocked`, `LeasesAreNotStolen`: if handlers act on fresh rows
  (`"stale_load" \notin Faults`).  The invariant is `AllUnlocked`: a lease is
  absent exactly when the owner is, and a pending row has neither.  With stale
  loads it is false: a handler that loaded a row without a lease does not clear
  the one a worker has taken since.
* `OneExecutor`: if heartbeats are in time and never skipped and handlers act on
  fresh rows.  `SingleExecutor` is strengthened to `Exclusive`: who runs a task
  either still sees it running under a lease of its own, or the row has left the
  queue for good as far as claims go (`RunHasRow`); a live executor is tended by
  its heartbeat (`RunIsTended`); a worker that parked is past the executor
  (`ParkedPc`).  Then a claim, which needs a pending row, cannot meet a runner,
  and a lease cannot expire under one.
* `WaitingTasksAreOpen`, `WaitingTasksAreAnswerable`, `RejectionsEndTasks`: under
  the same conditions.  The invariant is `Answerable`, on top of `Exclusive` and
  `AllUnlocked`.  A waiting task was parked by a worker that had asked first, and
  between the two nobody may answer: so who has asked and not parked yet holds an
  open request (`AskingIsOpen`), because no second worker runs the task and parks
  it meanwhile.  A request is logged for any key that is not approved; that the key
  was not rejected before follows from `RejectedIsOver`: a rejection ends the task
  for good.  `WaitingTasksAreOpen` holds for any `ConnectKey` and exempts a task
  whose last request was for a connection; `WaitingTasksAreAnswerable` is
  `WaitingIsAnswerable`, for `ConnectKey = {}`, and section 11 shows that it needs
  this hypothesis.
* `LifecycleImplementsContract`: under the same conditions and for `ConnectKey = {}`
  the rows, the events and the workers implement `ApprovalContract` (section 3).
  A task waits for its newest request, is told what its log holds, and is closed when
  it is cancelled or succeeded and no run is left (`Settled`).  `TaskStep` takes one
  task and one step: it asks what is undecided, is told about what it waits for,
  ends, or nothing the contract speaks of changes (`Asks`, `IsTold`, `Ends`,
  `Unchanged`).  `OneTaskChanges` says that no step does this to two tasks, although
  a poll may write many rows; `ContractAction` translates both into an action of the
  contract.  The step that needs most of the invariant is the one a parked run still
  takes after its user was faster: it may end the task, but it cannot reopen it
  (`SettledStep`, `WaitingEnds`).
* `AttemptsAreBounded` (`AttemptsFit`, seen by TLC and in no run): under the same
  conditions as `OneExecutor`, for any connect keys.  `Budget` adds that who runs a
  task has an attempt left: a run that could park or fail a task whose last attempt
  is spent would bring it back to the queue.  Section 11 shows that a late heartbeat
  is enough for that.
* `HeartbeatsGoOn`: `HeartbeatKeepsOwnedLease` if renewals are never skipped, under
  every other fault.  Only a claim makes a worker the owner of a live lease
  (`OwnsStep`, for rows however stale), and a worker that claims has no heartbeat
  that could have stopped.

Assumptions used: `TaskLifecycleAssumption` and `NoTxAssumption`, both evaluated
by TLC in every run.  Only model-checked: the liveness property `TaskSettles`.

## 3. ApprovalPrompts and ApprovalContract

`ApprovalPrompts.tla` is the protocol between the worker and the user around
one parked task.  The coordinator logs a request (`agent/coordinator.py`); the
executor renders the prompt with two buttons and posts it through the outbox
(`worker/agent_executor.py`, `slack/posting.py`, `slack/outbox.py`); each button
is a row (`slack/interactions.py`); a click (`slack/decisions.py`) or an emoji
reaction (`slack/ingress.py`) answers.  The two answers find the request in
different ways: a click by the approval key in its row, a reaction by the newest
prompt and, separately, by the newest undecided request.

State and code:

* `stage[t]`: where the task is between claim and park; `called` is an open
  transaction (the outbox row and the buttons are flushed, Slack was called),
  `posted` a committed one (`message_posted` commits both).
* `asks[t]`: the `tool_approval_requested` events, oldest first; the n-th is
  *ask n*.  `decision[t]`: the decision logged for each key.
* `outbox[t][k]`: the ask whose message the outbox row of that task and key
  records, since its idempotency key names task and approval key: a second ask
  for a key is deduplicated and posts nothing.
* `shown`: the messages really in the thread, a fact about Slack that no row
  holds: a call that failed may have been taken.
* `button[b]`: the status of each `interactive_actions` row.  Every ask mints two,
  also when its message is deduplicated.

Actions: `AskApproval`, `CallSlack`, `CommitPost`, `ParkPosted` in the usual case;
`ParkReused` when the outbox finds an earlier message; `CallFails` (the task
fails and its user may retry it) and `Crash` (the open transaction is lost, the
task claimed again); `ClickDecides`, `ClickTooLate`, `ClickExpired`, `React` and
`Cancel` by the user.  A click claims the action, decides, completes it and retires
its siblings in one transaction; siblings are selected by approval key in the
whole installation.  `ParkPosted` sets the buttons to `sent` whatever became of
them since they were minted, as `mark_sent` does.

Left to `TaskLifecycle`: leases, stale rows, cancelling a running task, the
race of the decision with the end of the parking run.  Left out: prompts of connect
parks (no buttons), denials (they change no status), who may click.

`ApprovalContract.tla` is what the protocol promises once prompts, buttons and
events are forgotten: one question at a time, only about what is undecided; an
answer is for good; a refusal ends the task.  `ApprovalPrompts` instantiates it
with the pending key of a waiting task as `question`, the logged decisions as
`verdict` and the tasks that are over as `closed`.
`TaskLifecycle` instantiates it with its own rows and events (section 2): the one
shows that prompts and clicks do not break the promise, the other that reclaims,
crashes and parked runs do not.  `AgentLoop` instantiates it for its one task, with
the call it waits for as `question` and `approved` as `verdict` (section 4).

### Runs

| run | constants | shows |
|---|---|---|
| `prompts` | t1 with k1, k2 and t2 with k3, three asks each, failing calls | `ButtonsWork`: a waiting task shows two working buttons for what it waits for; `ReactionMeansShown`: a reaction to its newest prompt decides the tool that prompt is about |
| `prompts_contract` | t1 with k1, k2 and t2 with k1, two asks each, crashes, failing calls, expiry | always something to react to; never both buttons of a prompt spent; none spent for nothing; nothing decided that was not shown; the contract is implemented |

`MaxAsks` bounds the requests of one task.  Two asks give a crash between ask and
park followed by a second ask for the same or the other key; three give a failed
call, a repeated ask and a decision between them.  Two tasks are needed only for
keys they share.  `ButtonsWork` and `ReactionMeansShown` are checked without
crashes and without shared keys because with them they are false (section 11).
`CHECK_DEADLOCK FALSE`: the system may stop, when every task is over or has used
its asks.

### Proofs (`ApprovalPromptsProofs.tla`)

For any tasks and keys, finite or not, any `Askable`, any `MaxAsks >= 1` and any
faults (assumption: `PromptsAssumption`, evaluated by TLC in every run):

* `PromptsTyped`, `DecisionsWereShown`: from the invariant `Control`.  While a task
  is between ask and park its newest ask is undecided (`LastIsOpen`), hence the
  pending key is the one of the newest ask (`PendingIsLast`); a rejection ends
  the task (`RejectedIsOver`), so nothing undecided is left behind; what the
  outbox records is in the thread under its own key (`OutboxIsShown`); a waiting
  task has such a record for its newest ask (`LastIsShown`).
* `AnswersArePossible`: `Control`, and the maximum of a bounded non-empty set of
  numbers exists (`MaxOfBounded`, from the well-foundedness of `<`), so the newest
  prompt is one the outbox records.
* `OneButtonSpent`, `ClicksCount`: from `Control` and `Buttons`.  Only asks that
  were made have minted buttons (`MintedForAsks`), the two of an ask are minted
  together and have one target (`MintedInPairs`), and when one is spent the other
  is not live (`SpentOnce`).  The step that needs the work is `ParkPosted`, which
  would revive a retired button: its pair cannot hold a spent one, because a
  button that is not marked sent cannot be clicked (`SentIsAsked`).
* `PromptsImplementContract`: every step is one of `Wait`, `Approve`, `Reject`,
  `Close` of the contract under the mapping, or leaves it unchanged; `Control`
  gives that a parked task waits for an undecided key.

Two more hold for workers that do not crash, which is a hypothesis of the
theorems; failing calls are allowed in both.

* `ReactionsDecideShown`: for any keys, shared or not, and buttons that expire.
  `Uninterrupted` adds to `Control` that a prompt of the outbox whose key is
  undecided is the one of the newest ask, of a task that posted or waits
  (`OpenPromptIsLast`).  A crash breaks exactly this: it leaves a committed
  prompt behind and the next run may ask for something else.
* `PromptsHaveButtons`: if moreover no two tasks may ask for one key
  (`NoKeyShared`) and no button expires.  `Working` says that the two buttons of
  the ask a task waits for are sent (`LastPairWorks`) and that asks are for keys of
  the task (`AsksAreOwn`), so that no click in another task finds them as
  siblings.  `ParkReused` would give buttons nobody sees; `OpenPromptIsLast` rules it
  out.

TLC finds `ReactionMeansShown` violated without the first hypothesis, and
`ButtonsWork` without any one of its three (section 11 names two of these).  Nothing
here is only model-checked.

## 4. AgentLoop

`AgentLoop.tla` is what one task does to the outside world over all of its runs:
the tool loop of `agent/coordinator.py`, bounded by `agent/execution.py`, with the
ledger of `agent/idempotency.py` and the trifecta gate of `agent/trifecta.py`.  A
*call* is a tool with its arguments.

* `task` is the row and what its user was last asked for; `ledger[c]` what the
  `tool_call` and `tool_result` events say of a call; `approved` the approvals.
  These survive a crash.
* `run` is the memory of the worker: the turn, the calls of the completion that
  are left, the attempt and failure counters, whether the gate is armed.
* `effects[c]` is history: how often a call was submitted to its tool.  A call
  that times out goes on in its thread, so a submission counts whatever it
  returns.

One pass through a call is `BeforeTool` (cancellation check, attempt counts),
then the gate: `AskApproval`, `ReplayCompleted`, `SurfaceUnknown` or `Invoke`;
the tool answers (`ToolReturns`, `ToolRepaired`, `ToolRaises`), and
`RecordResult` writes the result, arms the gate and checks the recovery budget;
`AskConnection` parks instead.  Around the run: `Crash`, `Cancel`, `Resume`,
`Retry`.  The queue is abstracted to what the loop sees of it.

Run `effects`: a search whose results are untrusted and a post that goes
outward, either or both in a completion; two turns, three calls, two of one
kind, every other budget one, three attempts, one resumption or manual retry.
Each budget can be used up and exceeded by one, and a task can crash twice on
either side of a resumption.  It shows that no write submitted before a crash is
submitted again (`CrashRepeatsNoWrite`), that nothing goes outward unapproved
once a call of the run has read foreign content (`OutwardIsGated`), that budgets
bound the submissions of a run (`WorkIsBounded`; a repair is a second submission of
one budgeted call, hence the factor two) and that every run ends (`RunEnds`).  The
only fairness is `WF(RunStep)`: the model, the tools and Slack are called with
timeouts.  `CHECK_DEADLOCK FALSE`: a task may be over.

What the gate covers.  Two history sets tell how a result came to the model:
`read` are the results of the run's own calls, `replayed` those that a reclaimed
run took from the ledger.  The loop arms the gate after the first kind only:
`ReplayCompleted` goes on to the next call before it gets there.  So `OutwardIsGated`
is about own results, and about everything as long as the task was never
reclaimed; with replayed results (`OutwardNeedsApproval`, which is what the head of
`trifecta.py` says) it does not hold, see section 11.

A repair is submitted with other arguments than its call and has no ledger event
of its own; the model counts it under the call it repairs.

Proved in `AgentLoopProofs.tla`, for any calls, completions and limits: types,
`CrashRepeatsNoWrite`, `OutwardIsGated`.  The invariant `LoopInv` says that
a submission left its trace in the ledger first, and that what was submitted
before a crash is among the traces a reclaimed task looks at (`Traced`); that
the gate is armed by whatever own calls have read (`GateFollows`); and that what
held when a tool was invoked still holds when its repair is submitted
(`InvokedRightly`), although between the two the user may cancel or the gate of
a later call be armed.  `OutwardIsApproved` adds `ReplaysAreLate`: only the run of a
task with attempts behind it is given recorded results, and a retry by hand, which
sets the attempts back, finds no run.

`RunsAreBounded` is `WorkIsBounded` for any finite set of calls and any limits.
Its invariant `Budget` says that attempts stay within their limits (`AttemptsFit`),
that an attempt leads to at most two submissions, the ones still to come in the
current step included (`SubmissionsFit`), and that the submissions of a capped tool
stop at its cap although its attempts are counted on (`CapsFit`).  The sums are
folds: that the function a fold is defined by exists (`SumsExist`), and that sums
compare as their terms do (`SumsCompare`), is shown from a set of least
cardinality for which it would fail.

`LoopImplementsContract` (`ImplementsApprovals`): over all its runs the task puts one
undecided question at a time, an approval stays, and a task that is over asks
nothing.  `Asked`: a run works on a task that is running, or that was cancelled
and has not noticed; that is why `EndRun` and `ParkRun`, which leave a cancelled task
alone, never bring it back.  Parks for a connection put no question here, so the
theorem needs no hypothesis about them.

`RunsComeCloser` (`RunsShrink`): every step of a run ends it, or takes a turn of the
`MaxTurns` it has, or finishes a call of the completion, or gets further in a call
(`Closer`, a lexicographic order that is well founded).  This is all of `RunEnds`
but the fairness of the steps, which stays with TLC, as `RunEnds` itself does.
TLC finds both properties true in `AgentLoop_effects` as well.

## 5. Scheduler

`Scheduler.tla` is `scheduler/service.py` with the commands of
`scheduler/commands.py` and `tools/schedules.py` on the same rows.  A tick is one
transaction in three steps: `Begin` takes the advisory lock, claims due rows with
`SKIP LOCKED` and writes, `Unlock` gives the lock back, `Commit` commits: two ticks
overlap between the last two.  A user session loads a row without a lock
(`Load`), keeps it, and writes the columns its command changed (`Write`).

* `row[s]` is the schedule; `made` how many task rows a fire time has, `live` and
  `retried` those whose task is not over; `tick[p]` the open transaction with what
  it will write; `session[u]` the loaded row.
* Time is a small number.  A local day has `Day` instants, a week `Week` days, and
  the zone's offset changes once.  `NextCron`, `NextInterval` and `ToUtc`
  translate the search over local wall-clock times and the fold of `astimezone`.

Run `ticks`: two schedules, each a daily cron, an interval or a one-off, two
scheduler processes that may crash, one user command or manual retry, days of
four instants, a horizon of six, a clock set back by two at instant four, one row
per tick, a catch-up window of one.  The horizon holds a whole day, both passes
of the repeated hour and a late tick.  It shows one task per fire time
(`OneTaskPerFire`), no two live tasks of a schedule from ticks (`NoOverlap`),
tasks only of schedules active at the commit (`BornOfActive`), that a tick moves a
recurring schedule to exactly the next instant its spec asks for
(`AdvancesToNext`: the calendar against a reference definition), and that a due
schedule is served (`DueIsServed`).  That is about rows a tick can read: one
whose template lacks a field, or whose cron does not parse, raises a `ValueError` that
rolls the whole tick back, at every tick; such rows are not modelled.
`CancelledStaysQuiet` is
stated and does not hold (section 11).  Fairness: a process polls (`WF(Begin)`)
and does not crash in every tick
(`SF(Unlock)`, `SF(Commit)`); tasks end and the clock runs.  `CHECK_DEADLOCK
FALSE`: the horizon ends the run.

Proved in `SchedulerProofs.tla`, for any schedules, processes, sessions and specs,
and whatever the calendar returns: `OneTaskPerFire`, `NoOverlap`, `BornOfActive`.
`FireInv`: row locks keep the transactions apart, a claimed row stays active
because a user's write waits for it, and a schedule for which a tick means to
make a task has none alive until that tick commits (`RowsHeld`).  The advisory
lock plays no part in it.

`RunsAdvance` is `AdvancesToNext` for days, weeks, horizons and specs of any size,
and any change of the offset that sets the clock back or leaves it alone by no
more than the time it happens at (`SetBack`).  Local days and weeks are taken
apart with `DivModIs`; a cron that names an hour, a minute and a weekday finds a
local time within a week (`CronFound`), whose instant is after now and the
first that fits (`NextCronIs`); an interval skips whole periods
(`NextIntervalIs`).  `NextRunInv` carries this from the instant a tick reads the
clock to its commit: the row and what the tick will write are dated
(`RowsTyped`), and the write is the one the claimed row and the instant ask for
(`WritesFollow`), which holds because the row is locked.  `SchedulerTyped` follows,
since a tick always finds a next run.

`CancelledSchedulesStayQuiet` says how `CancelledStaysQuiet` can fail: it holds as
long as no schedule is in two sessions at a time (`SessionsApart`).  A cancelled
schedule is then cancelled in its row and wherever it is loaded (`Quiet`), no command
is for a cancelled row, and a tick that claimed the row before holds its lock, so
the cancel comes after its commit.

Two hypotheses on the clock.  `CronsComeDue` is what `_parse_simple_cron` accepts: minutes and
hours in range, a weekday at least.  `SetBack` leaves out a clock that is set
forward: local times it skips are mapped to instants an hour later, whose local
time is not the one the spec names, and TLC shows `AdvancesToNext` violated in
`ticks` with `Before = 0` and `After = 2`.  Only model-checked: `DueIsServed`.

## 6. SandboxSessions

`SandboxSessions.tla` is the sandbox runner: the registry of
`sandbox_runner/sessions.py` with its lock and reaper, the collector `gc.py`, the
Docker daemon as `docker_api.py` sees it, and the workers of
`tools/sandbox_workbench.py` that remember a session.

* `box[b]` is Docker's view of a container; `sessions` the registry; `lock` the
  registry lock while it is held across Docker calls; `client[c]` what a worker is
  at and the session it caches; `reaper` and `gc` their snapshots.
* `Reuse`, `Look`, `Adopt`, `Create`, `Start` are `create_or_get` under the lock;
  `Exec`, `BeginClose`, `RemoveClosed`, `ForgetClosed`, `Leave` use and close; the two
  sweeps take a snapshot under the lock and remove without it.  Docker calls may
  fail, or succeed and lose their answer.  `Restart` empties the registry and
  leaves the containers.

Ages are counted up to one more than the largest limit.  Time passes between
sweeps and openings, never inside one: Docker calls take seconds where the
limits are half an hour and more.

Run `sessions`: two containers, two clients of one task, every limit one, one
restart.  One task is enough for `OneSessionPerTask` and makes the clients
compete.  It shows one session per task and one record per container, that
a session this process created keeps its container whatever the reaper and the
collector saw before (`SessionHasContainer`), and that every container is removed
in the end (`NothingLeaks`).  Fairness: requests that started finish, the sweeps
run, and Docker does not refuse a removal for ever (strong fairness of the
removal of each container).

Proved in `SandboxSessionsProofs.tla`, for any containers, tasks, clients, limits
and restarts: types and the two invariants.  `SandboxInv`: who opens a session
holds the lock and its task has none yet (`OpenersHoldLock`); what a sweep is
about to remove is nobody's own (`DoomedAreOthers`); and between its two looks the
reaper either knows a container of ours or the container is too young for it
(`KnownOrYoung`), which is the whole reason why the removal without the lock is
harmless.  Only model-checked: `NothingLeaks`.

## 7. Consolidator

`Consolidator.tla` is the runner of `consolidator/`: ticks under an advisory lock,
the trigger, the run rows, and the window of episodes a run promotes.  A run
commits after every pass, so a crash keeps the finished passes and loses the row
that says how far the run got.

* `begun`, `visible`: an episode is the number of its `created_at`, set when its
  transaction begins; `reviewed` counts its promotions.
* `proc[p]`: the run of a process and its row; `lock` and `leaked`: the advisory
  lock, which belongs to a connection and returns to the pool with it when an
  unlock fails; `success`: the last successful run; `orphans`: rows of dead runs.

Run `consolidation`: two processes, three episodes of which a run takes two, one
writer, every limit of the trigger one but the nightly floor of two, two crashes
or aborted runs.  Three episodes and a cap of two leave a backlog; two
interruptions let a crash follow a leaked lock.  It shows that a sweep never
fails a live run, no episode falls between two windows, a pass is repeated only
for a run that was cut short, the backlog drains and rows of dead runs are
failed.  Fairness: transactions commit, time passes, somebody ticks, steps of a
run are taken, and a promotion that is tried again and again works once.

Proved in `ConsolidatorProofs.tla`, for any number of processes, caps, limits and
interruptions: types and `LiveRunIsSpared` from `RunInv` (who runs holds the lock,
and nobody has failed its row: `RunnerLocks`); `RepeatedOnlyIfCut` from `PaidFor`,
which charges every repetition to an interruption; and `NothingSkipped` under
`Writers = 1`, from `WindowInv`: episodes become visible in their order
(`InOrder`), and everything up to the anchor is promoted (`NoGap`).  The hypothesis
is needed (section 11).  Only model-checked: `BacklogDrains`,
`DeadRunsAreFailed`.

## 8. KnowledgeGraph

`KnowledgeGraph.tla` has the entities of the workspace's graph and everyone who
writes them: the passes of the consolidator (`consolidator/promotion.py`,
`passes.py`), the workers that project a finished task
(`knowledge_graph/task_summary.py`, `reinforcement.py`), and the user who confirms and
forgets facts (`memory/service.py`).

* `row[r]` are the current rows of `kg_entities` in the order of `created_at`,
  `evidence[r]` the consensus of each, counted up to two, the threshold of
  adjudication; `fact[k]` the active `workspace_state` row of a key; `worker[w]` what a
  worker has looked up.  A row that is over is forgotten and its number used
  again.
* A pass is one transaction and one action; a worker looks its key up in one
  step and writes in another.  What the language model answers is left open.

Run `graph`: one fact key, one topic, a second key the model may add, three
rows, two versions of the fact, one worker.  Three live rows are what it takes to
hand a merge two pairs that share one.  It shows one live row per key
(`OneLivePerKey`), evidence behind all that a query returns (`ShownHasEvidence`; the
query also asks for evidence itself, which `Retrievable` leaves out: the rows have it
without),
and that a confirmed fact reaches the graph (`FactReachesGraph`).  Fairness: the
reconciliation of a fact and the ageing pass run again and again, and time
passes.

Proved in `KnowledgeGraphProofs.tla`, for any keys, workers, rows and facts: types
and both invariants.  `GraphInv` strengthens the second to every live row,
candidates and stale ones included (`LiveHasEvidence`).  The merge is the step
that needs work: it sets a row current that an earlier pair may have ended, and
that row stays out of the unique index only because it was marked expired.  Only
model-checked: `FactReachesGraph`.

## 9. Witness

`Witness.tla` has the opportunity candidates: the ticks that put them into a
digest and let the autopilot review them (`witness/runner.py`, `autopilot.py`), what
people do in the dashboard and with buttons (`lifecycle.py`,
`slack/witness_actions.py`), and what an acceptance becomes (`automation.py`).

* `cand[c]` is the row: its status, and whether its cooldown lasts; `work[c]` the
  task and schedules it led to; `digest` the users whose digest of this window is
  in the outbox, `shown` the digests in Slack; `buttons` the candidates with a
  button in a message; `runner[r]` the tick in progress with the rows it has
  locked and what it will write; `click[k]` a button handler with the row as it
  loaded it.  `leader` is the advisory lock: whose connection has it, and whether
  that connection is in the pool (`leaked`).
* A tick is one transaction from `Tick` to `Commit`, over `Skip`, `Compose`, `Post`
  and `Review`; it gives the advisory lock back before it commits (`Unlock`), so two
  ticks overlap.
* `Abort` undoes all of it but the messages.  After a post that raised the lock is
  given back; after a statement that failed the unlock fails as well, the session
  is rolled back and the connection goes into the pool with its lock.  From then on only
  this process can tick, on that connection (`MayLock`), and never gives the lock
  back entirely.  A tick that draws another connection from the pool does nothing;
  that is a step not taken.  With `Crash` the connection is closed.
* `Reviewable` are the candidates the autopilot may review; a low confidence or a
  candidate that came from a trigger keeps the others out of its query.

Run `digests`: two candidates of one user of which a digest takes one and the
autopilot reviews the first, two runners, one button handler, one action of a
person, two ticks that fail or die (a lock that is left behind and what follows).
It shows at most one digest per user and window that was not undone
(`OneDigestPerWindow`), that a candidate called automated has work behind it
(`AutomatedHasWork`), that a tick never overwrites a decision (`DecisionsStand`),
and that a worthy candidate which only digests and people deal with does not stay
pending: a digest that left it out is followed by one that takes it
(`PendingIsSuggested`).  What the autopilot defers is not pending any more, and
stays so (`DeferredIsNotDropped`, section 11).  Fairness: the supervisor ticks, the
steps of a tick are taken, cooldowns and windows end.

Proved in `WitnessProofs.tla`, for any candidates, users, runners, handlers and
bounds: types and all of these but the last.  `TickInv`: a locked row belongs to
one tick and stays a candidate (`LocksHold`); the digests in Slack are those on
record plus those of the ticks under way, and no user is in two of these
(`DigestsAddUp`).
Only model-checked: `PendingIsSuggested`.

## 10. TriggerListener

`TriggerListener.tla` is `composio/listener.py` with `trigger_ingress.py`,
`trigger_subscriptions.py`, the projection of `witness/opportunities.py` and the
restart of `ambient/supervisor.py`: how an event of a connected app becomes a
candidate of its owner's digest.  Its constants, its variables and what it
promises of their values are in `Triggers.tla`, which the steps and the proofs share.

* `loop[r]` is where a replica's supervised loop is, `holder` who has the advisory
  lock, `cut` whose lock connection has died; `offline` the replicas that cannot
  reach Composio.  The lock belongs to a connection: when that dies the database
  frees it at once, while the old leader listens on until its session ends and
  its next try raises (`LoseLock`, `EndSession`, `Escape`, `Restart`).
* `thread[h]` is a socket thread in the two transactions of an event: `Record`
  inserts the row or finds the existing one, `Look` and `Insert` project it.  A thread
  outlives the session that started it, and may fail anywhere (`Fail`).
* `row[e]` is the decision recorded for an event, `asked[e]` the number of candidates
  with its key.  `sub` is the subscription row, `upstream` the trigger instances
  that are on at Composio; the name of an event contains the instance's.
* `admin[a]` is a dashboard request between its call to Composio and its commit.

That `create_trigger` makes a new instance at each call is how the code treats it
(the comment above its row lock); Composio itself is external.  One
installation, one connected account and one trigger are modelled, in ask mode,
and the scorer always decides `ask`; with another decision nothing follows the
first transaction.

Run `events`: two replicas, both or one able to reach Composio, two threads, two
administrators of whom one also turns the trigger off, two trigger instances,
one occurrence; events are delivered any number of times.  It shows that the
occurrence is asked about at most once (`AskedOnce`), that a replica which keeps
its connection gets to listen whatever the other does (`SomeoneListens`), and
that a redelivery makes up for a projection that was lost (`RedeliveryHeals`).
Two instances are what a second enable needs to ask twice, two threads what two
deliveries of one event need to race.  Fairness: sleeps and the connect timeout
are bounded (`WF`); the lock goes to a replica to which it is free again and again,
because a parked one tries every 15 seconds and the backoff of one that fails
grows to 300 (`SF(Acquire)`); a replica that can reach Composio connects in the end
(`SF(Subscribe)`).

Proved in the last sections of `WitnessProofs.tla`, on `Triggers` and an instance
`Listener` of the steps (what an event is asked as is a candidate of section 9):

* `OccurrencesAskOnce`, which is `AskedOnce` for any replicas, threads, occurrences,
  instances and retention, and any number of administrators of whom one at most
  turns the trigger off, if no call to Composio is cut off from its row
  (`Faults = {}`).  `AskedInv`: requests that enable take turns behind the row
  lock and meet a row that is not active (`RequestsFit`), so the instance that is on
  is the one the row or the enabling request names (`OneInstance`), hence an
  occurrence is published under one id (`OneEvent`); and what was published becomes
  one candidate, whose key the insert looks up (`HandledEvents`).  The leader lock
  plays no part in it.  Each hypothesis is needed (the last rows of section 11).
* `ListenerTypes`: type correctness, whatever fails and whoever turns the trigger on
  and off.
* `ListenersTakeTurns` (`OneLeader`): several replicas may believe that they lead,
  but at most one of them has its lock connection still.  `LeaderHolds`: a
  session on a live connection has the lock, and nobody takes it before the session
  ends or the connection dies, although a failed unlock is only logged.

Only model-checked: `SomeoneListens` and `RedeliveryHeals`.

## 11. Where the code and its words disagree

Run `requeued` expects a violation; `PROJECT.json` quotes the line it breaks, and
TLC's trace is the scenario: a click between the park and the end of the parking
run requeues the task; that run then marks the queued task succeeded, and the
approved tool never runs.

More properties do not hold either; all but the last are stated in the modules.  They have no
run of their own; each is seen by checking it alone in an existing
configuration, with the changes named:

| property | configuration | what happens |
|---|---|---|
| `CancelledIsFinal` | `TaskLifecycle_requeued` | the final transition tests no status, so a cancel since the last check is overwritten |
| `ParkFromRunning` | `TaskLifecycle_requeued` | parking tests no status: a task cancelled while its prompt was being posted comes back to life |
| `HeartbeatKeepsOwnedLease` | `TaskLifecycle_requeued`, `Faults = {"skipped_renewal"}` | a renewal skips the row while the worker's own delivery holds it; the heartbeat takes that for a lost lease and stops for good |
| `WaitingIsAnswerable` | `TaskLifecycle_requeued`, `ConnectKey = {k1}` | a connect key decided once is never pending again: a second park for that toolkit waits for an approval nobody can give |
| `AttemptsFit` | `TaskLifecycle_requeued`, `Faults = {"late_heartbeat"}` | a worker that lost its lease parks the task after others spent its attempts and it was dead-lettered: the task waits, and an answer runs it again beyond `max_attempts` |
| `TaskSettles` | `TaskLifecycle_live`, `Faults = {"crash_between_commits"}` | a crash between the commit that clears the lease and the one that writes the status leaves a running task nothing reclaims |
| `RetryFromFailed` | `TaskLifecycle_faults` | two retries that both loaded the failed row both requeue, the second one a task that is queued or running |
| `ButtonsWork` | `ApprovalPrompts_prompts`, `Task = {t1}`, `Key = {k1}`, `Askable <- SharedKeys`, `MaxAsks = 2`, `Faults = {"crash"}` | after a crash between post and park the next run mints new buttons, the outbox posts nothing, and the new ones are marked sent: the visible ones never work |
| `ButtonsWork` | `ApprovalPrompts_prompts`, `Key = {k1}`, `Askable <- SharedKeys`, `MaxAsks = 1` | sandbox tools of all tasks share one approval key: a click in one task retires the buttons of the others |
| `DecidedButtonsRetired` | `ApprovalPrompts_contract` | a reaction retires no button, though `supersede_siblings` is described as doing so |
| `ReactionMeansShown` | `ApprovalPrompts_contract`, `MaxAsks = 3` | after crashes a task may wait for its first tool while the newest prompt is about the second; a reaction to that prompt decides the first |
| `CompletedOnce` | `AgentLoop_effects` | the ledger is consulted only when `attempts > 0`: after an approval or a manual retry a completed write is submitted again |
| `OutwardNeedsApproval` | `AgentLoop_effects` | a crash after a search was recorded: the next run repeats the search, is given the recorded result past `_arm_trifecta_if_untrusted`, and the post it asks for next goes out unapproved, against `trifecta.py`:10-14 |
| `NothingSkipped` | `Consolidator_runs`, `Writers = 2` | an episode that commits after a later one was promoted lies before the anchor and is never read |
| `OwnedIsKept` | `SandboxSessions_sessions` | a session adopted after the collector asked for the owned containers loses its container |
| `ConfirmedOutranks` | `KnowledgeGraph_graph` | a merge ends a row the user confirmed when the other one of the pair is older |
| `GrowthIsBestEffort` | `KnowledgeGraph_graph` | the unique index refuses the worker's row, nothing rolls its session back, and the task that was answered fails |
| `SnoozeEnds` | `Witness_ticks` | no query looks at the status `cooldown`: a snoozed candidate never comes back by itself |
| `DeferredIsNotDropped` | `Witness_ticks`, `MaxActions = 0` | a review of the autopilot that only defers a candidate sets the same status, against "Deferred, never dropped: candidates stay pending" (`witness/runner.py`:585) |
| `AutomatedIsTerminal` | `Witness_ticks`, `Click = {k1, k2}`, `MaxActions = 3` | a click that loaded the row earlier writes over the automated status |
| `CancelledStaysQuiet` | `Scheduler_ticks`, `SPECIFICATION Spec`, `Schedule = {s1}`, `Scheduler = {p1}`, `Session = {u1, u2}`, `Specs <- OddSpecs`, `MaxCommands = 3` | a session that loaded a schedule before somebody else cancelled it sets it active again and then moves its time: the cancelled schedule fires |
| `AskedOnce` | `TriggerListener_events`, `Faults = {"lost_enable"}` | an enable whose request dies after `create_trigger` leaves an instance at Composio that no row names; the next enable makes a second one, and both report each occurrence under an id of their own |
| `AskedOnce` | `TriggerListener_events`, `Faults = {"failed_disable"}` | the same, after a disable whose call failed |
| `AskedOnce` | `TriggerListener_events`, `TurnsOff = {a1, a2}`, `MaxTriggers = 3` | the same without any fault: a disable that read the row earlier turns off the instance of then and the row of now |
| `OffMeansOff == [][\A e \in Event : asked[e]' > asked[e] => sub.status = "active"]_vars` | `TriggerListener_events` | the projection does not look at the subscription's status: an event recorded before the trigger was turned off, or redelivered after it, still becomes a question |

## 12. Mutants

An operator named `Mutant...` is no part of the model; it is the definition that
follows it with a slip (a dropped guard, a forgotten reset, an off-by-one).
`PROJECT.json` lists which definition it replaces and which property then fails.

## 13. Proofs: what they rest on and what they leave out

The assumptions of the theorems are the `ASSUME`s of the modules, as weak as the
proofs allow and evaluated by TLC in every run, and the hypotheses in a theorem's
own statement (fresh rows, heartbeats in time, one writer).  Each proof module has
one lemma per action or group of actions, `...Keeps...`, and a theorem is the
composition of these by temporal logic.  Type invariants are proved, not run.

Every invariant and every action property of a passing run is a theorem, and so are
the refinements of `ApprovalContract` by `ApprovalPrompts`, `TaskLifecycle` and
`AgentLoop`.  Sums and least elements, for which one would use an induction, are
handled without one: the naturals are well founded under `<`, so a counterexample
would have a least one.

Left to TLC are the liveness properties, which speak of fairness and so of
`ENABLED`: `TaskSettles`, `RunEnds`, `DueIsServed`, `NothingLeaks`, `BacklogDrains`,
`DeadRunsAreFailed`, `FactReachesGraph`, `PendingIsSuggested`, `SomeoneListens`,
`RedeliveryHeals`.  Of `RunEnds` the descent is proved (section 4).  No module declares a `RECURSIVE` operator.

## 14. Not modelled, and why

* Calls and data: message texts, LLM calls, tool results, prompts, the rendering of
  documents, skills, evaluations, migrations, the MCP client, settings.  What
  they answer is an input, left open in the modules.
* The dashboard, but for its actions on candidates and triggers: it reads.
* Routing, intent and profiles: classification by LLM calls and embeddings.
* The best-effort recording of routing quality after a run: it swallows its errors
  and writes no column used here.
* The order in which a poll picks among claimable rows and the lengths of leases
  and backoffs: `TaskLifecycle` leaves them open, so its safety holds for every
  order and length.
* The texts of a graph row: an adjudication that updates may write over a summary
  (`_apply_update`), the row and its key stay.
* Relations, embeddings and retrieval of the knowledge graph; channel suggestions,
  quiet hours and scoring of Witness; one-shot sandboxes and browsers.
* Inbound Slack events: an event is acknowledged to Slack before it is handled and
  its ledger row is written in the handler's transaction.  `mark_failed` is called
  once, before the exception goes on and the transaction is rolled back;
  `mark_dead_lettered` and `mark_replayed` are called by no code.
* Of the trigger listener: routing between installations, the scorers, the
  catalog sync.
* Planned, not written: see below.

## 15. Plan

Done: `TaskLifecycle`, `ApprovalPrompts` with `ApprovalContract`, `AgentLoop`,
`Scheduler`, `SandboxSessions`, `Consolidator`, `KnowledgeGraph`, `Witness`, each with
its proofs, and `TriggerListener`, whose proofs are in `WitnessProofs`.  Left, in
order of importance:

1. The Slack outbox on its own: concurrent sessions on one key, crashes between
   the Slack call and the commit, recovery of stale rows.
2. The control rows of the ambient loops and their gate.
3. A timed queue (integer clock, FIFO order, backoff) shown to implement the lease
   flags of `TaskLifecycle`; an abstract specification of a lease that both
   implement.
4. Cost ceilings: the check before a call and the usage recorded after it.
5. Theorems: `AdvancesToNext` for a clock
   that is set forward, with local times that do not exist counted as the ones an
   hour later.
