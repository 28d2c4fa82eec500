---------------------------- MODULE TaskLifecycle ----------------------------
(***************************************************************************)
(* The life of a task of kortny: the row of the Postgres table `tasks`     *)
(* (kortny/db/models.py), the queue that claims and reclaims it            *)
(* (kortny/queue/service.py), the worker processes that execute it         *)
(* (kortny/worker/service.py, kortny/worker/agent_executor.py) and the     *)
(* Slack handlers that cancel, retry, approve or reject it                 *)
(* (kortny/tasks/repository.py).                                           *)
(*                                                                         *)
(* An action is one committed transaction, or one read whose result a      *)
(* later transaction uses.  Three facts of the code give the module its    *)
(* shape:                                                                  *)
(*   - sessions keep what they loaded (expire_on_commit is False and a     *)
(*     SELECT ... FOR UPDATE does not refresh an object already loaded),   *)
(*     so a guard may test an old status, and a flush writes only the      *)
(*     attributes that differ from what was loaded: see Flush;             *)
(*   - the worker commits at every event it appends, so finishing a task   *)
(*     takes two commits, the lease cleared first and the status second;   *)
(*   - claim, reclaim and renewal skip rows another transaction has        *)
(*     locked, while the other writers wait for them.                      *)
(*                                                                         *)
(* Times are abstracted to what the guards compare: a lease is none, live  *)
(* or expired; a pending row is delayed (available_at in the future) or    *)
(* not.  Which claimable row a poll takes is left open.                    *)
(*                                                                         *)
(* An operator whose name starts with Mutant is no part of the model: it   *)
(* is the next definition with a plausible slip, kept to show that a       *)
(* property notices it (README.md, "Mutants").                             *)
(***************************************************************************)
EXTENDS Naturals, FiniteSets

CONSTANTS
  Task,         \* rows of the table tasks
  Worker,       \* worker processes; a restarted one keeps its name
  Handler,      \* transactions the Slack app may have open at one time
  Key,          \* approval keys a run of the task may ask for
  ConnectKey,   \* those asked by a park for a Composio connection
  MaxAttempts,  \* the column max_attempts
  Faults,       \* the environment's faults, see FaultKind
  NoTask, NoWorker, NoKey, NoTx

FaultKind == {
  "late_heartbeat",        \* a lease may expire under a renewing heartbeat
  "skipped_renewal",       \* a renewal may meet its row locked
  "stale_load",            \* a handler may act on a row it read long before
  "crash_between_commits"  \* a worker may die between its two last commits
}

ASSUME TaskLifecycleAssumption ==
  /\ MaxAttempts \in Nat \ {0}
  /\ ConnectKey \subseteq Key
  /\ Faults \subseteq FaultKind
  /\ NoTask \notin Task /\ NoWorker \notin Worker /\ NoKey \notin Key

VARIABLES
  row,      \* the committed row of each task
  log,      \* what its events say about approvals and approved tools
  session,  \* each worker: its program counter and its ORM session
  tx        \* each handler: the row as its session loaded it, or NoTx

vars == <<row, log, session, tx>>
-----------------------------------------------------------------------------
Status == {"pending", "running", "waiting_approval",
           "succeeded", "failed", "cancelled"}
Cancellable == {"pending", "running", "waiting_approval"}
Lease == {"none", "live", "expired"}
Decision == {"none", "approved", "rejected"}

Row == [status : Status, owner : Worker \cup {NoWorker}, lease : Lease,
        delayed : BOOLEAN, attempts : Nat]

Log == [asked : SUBSET Key, newest : Key \cup {NoKey},
        decision : [Key -> Decision], ran : SUBSET Key]

(***************************************************************************)
(* Where a worker is in TaskWorker.run_once:                               *)
(*   idle        between two polls                                         *)
(*   claimed     claim committed, execution session not opened yet         *)
(*   executing   inside executor.execute                                   *)
(*   asking      approval request logged, not parked yet                   *)
(*   returned    executor returned, heartbeat stopped                      *)
(*   finishing   lease cleared and committed, not yet succeeded            *)
(*   raised      the executor raised                                       *)
(*   failing     error recorded, lease cleared, not yet failed             *)
(*   aborting    TaskCancelledError raised                                 *)
(*   cancelling  lease cleared, not yet cancelled                          *)
(***************************************************************************)
Pc == {"idle", "claimed", "executing", "asking", "returned", "finishing",
       "raised", "failing", "aborting", "cancelling"}

Session == [pc : Pc, job : Task \cup {NoTask}, seen : Status, held : BOOLEAN,
            parked : BOOLEAN, heartbeat : BOOLEAN, locking : BOOLEAN]

Loaded == [task : Task, status : Status, leased : BOOLEAN, attempts : Nat]

ASSUME NoTxAssumption == NoTx \notin Loaded

TypeOK ==
  /\ row \in [Task -> Row]
  /\ log \in [Task -> Log]
  /\ session \in [Worker -> Session]
  /\ tx \in [Handler -> Loaded \cup {NoTx}]

Idle == [pc |-> "idle", job |-> NoTask, seen |-> "pending", held |-> FALSE,
         parked |-> FALSE, heartbeat |-> FALSE, locking |-> FALSE]

Init ==
  /\ row = [t \in Task |-> [status |-> "pending", owner |-> NoWorker,
                            lease |-> "none", delayed |-> FALSE,
                            attempts |-> 0]]
  /\ log = [t \in Task |-> [asked |-> {}, newest |-> NoKey,
                            decision |-> [k \in Key |-> "none"],
                            ran |-> {}]]
  /\ session = [w \in Worker |-> Idle]
  /\ tx = [h \in Handler |-> NoTx]
-----------------------------------------------------------------------------
(***************************************************************************)
(* Writing through a session.                                              *)
(***************************************************************************)

\* A flush writes an attribute only when it differs from the loaded value.
Flush(loaded, new, stored) == IF new = loaded THEN stored ELSE new

SetStatus(r, seen, new) == [r EXCEPT !.status = Flush(seen, new, @)]

\* Sets the lease columns to NULL; nothing is written when they were loaded
\* as NULL.
ClearLease(r, held) ==
  IF held THEN [r EXCEPT !.owner = NoWorker, !.lease = "none"] ELSE r

\* The rows some worker's open transaction keeps locked.
LockedRows == {session[w].job : w \in {v \in Worker : session[v].locking}}

\* Worker w need not wait for another transaction to write row t.
Free(w, t) == \A v \in Worker \ {w} : session[v].locking => session[v].job # t

\* The events the module keeps: a tool that needed approval ran, an approval
\* was asked for, an approval was decided.
Ran(l, k) == [l EXCEPT !.ran = @ \cup {k}]
Asked(l, k) == [l EXCEPT !.asked = @ \cup {k}, !.newest = k]
Decided(l, k, d) == [l EXCEPT !.decision = [@ EXCEPT ![k] = d]]

\* Forgets to skip the requests already decided.
MutantAnyAskedKey(l) == l.asked

\* Newest approval request without a decision.  The order of older undecided
\* requests is not kept: any of them may be the next one.
PendingKeys(l) ==
  LET undecided == {k \in l.asked : l.decision[k] = "none"}
  IN  IF l.newest \in undecided THEN {l.newest} ELSE undecided
-----------------------------------------------------------------------------
(***************************************************************************)
(* The poll transaction: reclaim every expired lease that is not locked,   *)
(* then claim one pending row.                                             *)
(***************************************************************************)
Expired == {t \in Task \ LockedRows :
              row[t].status = "running" /\ row[t].lease = "expired"}

Reclaimed(r) ==
  LET released == [r EXCEPT !.owner = NoWorker, !.lease = "none",
                            !.attempts = @ + 1]
  IN  IF r.attempts + 1 >= MaxAttempts
      THEN [released EXCEPT !.status = "failed"]
      ELSE [released EXCEPT !.status = "pending", !.delayed = TRUE]

AfterReclaim == [t \in Task |-> IF t \in Expired THEN Reclaimed(row[t])
                                                 ELSE row[t]]

\* Forgets to filter on the status.
MutantClaimableInAnyStatus == {t \in Task \ LockedRows :
                                 ~AfterReclaim[t].delayed}

Claimable == {t \in Task \ LockedRows : /\ AfterReclaim[t].status = "pending"
                                        /\ ~AfterReclaim[t].delayed}

\* Forgets the expiry of the lease.
MutantClaimedForever(r, w) == [r EXCEPT !.status = "running", !.owner = w]

Claimed(r, w) == [r EXCEPT !.status = "running", !.owner = w, !.lease = "live"]

Claim(w, t) ==
  /\ session[w].pc = "idle"
  /\ t \in Claimable
  /\ row' = [AfterReclaim EXCEPT ![t] = Claimed(@, w)]
  /\ session' = [session EXCEPT ![w] = [@ EXCEPT !.pc = "claimed", !.job = t]]
  /\ UNCHANGED <<log, tx>>

PollIdle(w) ==
  /\ session[w].pc = "idle"
  /\ Claimable = {}
  /\ row' = AfterReclaim
  /\ UNCHANGED <<log, session, tx>>
-----------------------------------------------------------------------------
(***************************************************************************)
(* The execution session of a worker.                                      *)
(***************************************************************************)

\* Never starts the heartbeat.
MutantBeginWithoutHeartbeat(w) ==
  LET r == row[session[w].job] IN
  /\ session[w].pc = "claimed"
  /\ session' = [session EXCEPT ![w] = [@ EXCEPT
         !.pc = IF r.status = "cancelled" THEN "aborting" ELSE "executing",
         !.seen = r.status, !.held = (r.lease # "none")]]
  /\ UNCHANGED <<row, log, tx>>

\* The task is loaded, checked for cancellation, and the heartbeat starts.
BeginExecution(w) ==
  LET r == row[session[w].job] IN
  /\ session[w].pc = "claimed"
  /\ session' = [session EXCEPT ![w] = [@ EXCEPT
         !.pc = IF r.status = "cancelled" THEN "aborting" ELSE "executing",
         !.seen = r.status, !.held = (r.lease # "none"),
         !.heartbeat = (r.status # "cancelled")]]
  /\ UNCHANGED <<row, log, tx>>

\* A Slack delivery keeps its transaction open across the Slack call; the
\* inserted outbox row references the task, which locks the task's row.  The
\* last delivery of a parked run removes the acknowledgement reaction.
BeginDelivery(w) ==
  /\ \/ session[w].pc \in {"executing", "asking"}
     \/ session[w].pc = "returned" /\ session[w].parked
  /\ ~session[w].locking
  /\ session' = [session EXCEPT ![w] = [@ EXCEPT !.locking = TRUE]]
  /\ UNCHANGED <<row, log, tx>>

EndDelivery(w) ==
  /\ session[w].locking
  /\ session' = [session EXCEPT ![w] = [@ EXCEPT !.locking = FALSE]]
  /\ UNCHANGED <<row, log, tx>>

\* A renewal that finds no unlocked row of its own stops the heartbeat for
\* good.  A renewal that succeeds keeps the lease live.
HeartbeatStops(w) ==
  LET t == session[w].job
      owned == /\ row[t].status = "running"
               /\ row[t].owner = w
               /\ row[t].lease = "live"
  IN
  /\ session[w].heartbeat
  /\ ~owned \/ ("skipped_renewal" \in Faults /\ t \in LockedRows)
  /\ session' = [session EXCEPT ![w] = [@ EXCEPT !.heartbeat = FALSE]]
  /\ UNCHANGED <<row, log, tx>>

\* Every phase of the executor starts by refreshing the status.
ObserveCancel(w) ==
  /\ session[w].pc = "executing"
  /\ ~session[w].locking
  /\ row[session[w].job].status = "cancelled"
  /\ session' = [session EXCEPT ![w] = [@ EXCEPT
         !.pc = "aborting", !.seen = "cancelled", !.heartbeat = FALSE]]
  /\ UNCHANGED <<row, log, tx>>

NotCancelled(w) == row[session[w].job].status # "cancelled"

\* Takes any decision for an approval.
MutantRunDecidedTool(w, k) ==
  LET t == session[w].job IN
  /\ session[w].pc = "executing"
  /\ ~session[w].locking
  /\ NotCancelled(w)
  /\ k \in Key \ ConnectKey
  /\ log[t].decision[k] # "none"
  /\ log' = [log EXCEPT ![t] = Ran(@, k)]
  /\ session' = [session EXCEPT ![w] = [@ EXCEPT !.seen = row[t].status]]
  /\ UNCHANGED <<row, tx>>

\* A tool that needs approval and whose latest decision is "approved".
RunApprovedTool(w, k) ==
  LET t == session[w].job IN
  /\ session[w].pc = "executing"
  /\ ~session[w].locking
  /\ NotCancelled(w)
  /\ k \in Key \ ConnectKey
  /\ log[t].decision[k] = "approved"
  /\ log' = [log EXCEPT ![t] = Ran(@, k)]
  /\ session' = [session EXCEPT ![w] = [@ EXCEPT !.seen = row[t].status]]
  /\ UNCHANGED <<row, tx>>

\* A tool that is not granted, or a toolkit that is not connected (whatever
\* was decided before), logs a request.
AskApproval(w, k) ==
  LET t == session[w].job IN
  /\ session[w].pc = "executing"
  /\ ~session[w].locking
  /\ Free(w, t)
  /\ NotCancelled(w)
  /\ k \in ConnectKey \/ log[t].decision[k] # "approved"
  /\ log' = [log EXCEPT ![t] = Asked(@, k)]
  /\ session' = [session EXCEPT ![w] = [@ EXCEPT
         !.pc = "asking", !.seen = row[t].status]]
  /\ UNCHANGED <<row, tx>>

\* mark_waiting_for_tool_approval, after the prompt was posted; the executor
\* then returns.
MarkWaiting(w) ==
  LET t == session[w].job IN
  /\ session[w].pc = "asking"
  /\ ~session[w].locking
  /\ Free(w, t)
  /\ row' = [row EXCEPT ![t] =
       ClearLease(SetStatus(@, session[w].seen, "waiting_approval"),
                  session[w].held)]
  /\ session' = [session EXCEPT ![w] = [@ EXCEPT
         !.pc = "returned", !.parked = TRUE, !.seen = "waiting_approval",
         !.held = FALSE, !.heartbeat = FALSE]]
  /\ UNCHANGED <<log, tx>>

\* The run is over, checked for cancellation before its outputs are posted.
ReturnResult(w) ==
  /\ session[w].pc = "executing"
  /\ ~session[w].locking
  /\ NotCancelled(w)
  /\ session' = [session EXCEPT ![w] = [@ EXCEPT
         !.pc = "returned", !.seen = row[session[w].job].status,
         !.heartbeat = FALSE]]
  /\ UNCHANGED <<row, log, tx>>

\* Anything the executor raises; the rollback also ends an open delivery.
RaiseError(w) ==
  /\ session[w].pc \in {"executing", "asking"}
  /\ session' = [session EXCEPT ![w] = [@ EXCEPT
         !.pc = "raised", !.heartbeat = FALSE, !.locking = FALSE]]
  /\ UNCHANGED <<row, log, tx>>
-----------------------------------------------------------------------------
(***************************************************************************)
(* After the executor: nothing below checks who owns the row.              *)
(***************************************************************************)
AfterExecutorCancelled(w) ==
  /\ session[w].pc = "returned"
  /\ ~session[w].locking
  /\ ~NotCancelled(w)
  /\ session' = [session EXCEPT ![w] = [@ EXCEPT
         !.pc = "aborting", !.seen = "cancelled"]]
  /\ UNCHANGED <<row, log, tx>>

AfterExecutorWaiting(w) ==
  LET t == session[w].job IN
  /\ session[w].pc = "returned"
  /\ ~session[w].locking
  /\ Free(w, t)
  /\ row[t].status = "waiting_approval"
  /\ row' = [row EXCEPT ![t] = ClearLease(@, session[w].held)]
  /\ session' = [session EXCEPT ![w] = Idle]
  /\ UNCHANGED <<log, tx>>

\* Any other status: the lease is cleared and "task_executor_completed" is
\* appended, which commits.
AfterExecutorCompleted(w) ==
  LET t == session[w].job IN
  /\ session[w].pc = "returned"
  /\ ~session[w].locking
  /\ Free(w, t)
  /\ row[t].status \notin {"cancelled", "waiting_approval"}
  /\ row' = [row EXCEPT ![t] = ClearLease(@, session[w].held)]
  /\ session' = [session EXCEPT ![w] = [@ EXCEPT
         !.pc = "finishing", !.held = FALSE, !.seen = row[t].status]]
  /\ UNCHANGED <<log, tx>>

\* transition(task, succeeded) tests nothing.
Succeed(w) ==
  LET t == session[w].job IN
  /\ session[w].pc = "finishing"
  /\ Free(w, t)
  /\ row' = [row EXCEPT ![t] = SetStatus(@, session[w].seen, "succeeded")]
  /\ session' = [session EXCEPT ![w] = Idle]
  /\ UNCHANGED <<log, tx>>

\* The two exception paths roll back, which reloads the row, clear its lease
\* and append an event, which commits.
RecordOutcome(w, from, to) ==
  LET t == session[w].job IN
  /\ session[w].pc = from
  /\ Free(w, t)
  /\ row' = [row EXCEPT ![t] = ClearLease(@, TRUE)]
  /\ session' = [session EXCEPT ![w] = [@ EXCEPT
         !.pc = to, !.held = FALSE, !.seen = row[t].status]]
  /\ UNCHANGED <<log, tx>>

RecordError(w) == RecordOutcome(w, "raised", "failing")
RecordCancelled(w) == RecordOutcome(w, "aborting", "cancelling")

\* transition(task, failed) tests nothing.
Fail(w) ==
  LET t == session[w].job IN
  /\ session[w].pc = "failing"
  /\ Free(w, t)
  /\ row' = [row EXCEPT ![t] = SetStatus(@, session[w].seen, "failed")]
  /\ session' = [session EXCEPT ![w] = Idle]
  /\ UNCHANGED <<log, tx>>

\* cancel_task, unless the reloaded row is cancelled already.
FinishCancel(w) ==
  LET t == session[w].job IN
  /\ session[w].pc = "cancelling"
  /\ Free(w, t)
  /\ row' = IF session[w].seen \in Cancellable
            THEN [row EXCEPT ![t] = [@ EXCEPT !.status = "cancelled"]]
            ELSE row
  /\ session' = [session EXCEPT ![w] = Idle]
  /\ UNCHANGED <<log, tx>>
-----------------------------------------------------------------------------
(***************************************************************************)
(* Slack handlers.  A handler first finds the task, then one of the        *)
(* repository's methods locks the row and tests the status it loaded.      *)
(***************************************************************************)
LoadTask(h, t) ==
  /\ tx[h] = NoTx
  /\ row[t].status \in Cancellable \cup {"failed"}
  /\ tx' = [tx EXCEPT ![h] = [task |-> t, status |-> row[t].status,
                              leased |-> row[t].lease # "none",
                              attempts |-> row[t].attempts]]
  /\ UNCHANGED <<row, log, session>>

\* Handler h holds a task it can lock and whose loaded status is in S.
Locks(h, S) ==
  /\ tx[h] # NoTx
  /\ tx[h].status \in S
  /\ tx[h].task \notin LockedRows
  /\ \/ "stale_load" \in Faults
     \/ LET r == row[tx[h].task] IN
        /\ tx[h].status = r.status
        /\ tx[h].leased = (r.lease # "none")
        /\ tx[h].attempts = r.attempts

Cancelled(r, loaded) ==
  ClearLease(SetStatus(r, loaded.status, "cancelled"), loaded.leased)

\* Logs the decision but leaves the task waiting.
MutantRequeuedInPlace(r, loaded) ==
  [ClearLease(r, loaded.leased) EXCEPT !.delayed = FALSE]

Requeued(r, loaded) ==
  [ClearLease(SetStatus(r, loaded.status, "pending"), loaded.leased)
     EXCEPT !.delayed = FALSE]

Retried(r, loaded) ==
  [Requeued(r, loaded) EXCEPT !.attempts = Flush(loaded.attempts, 0, @)]

CancelTask(h) ==
  /\ Locks(h, Cancellable)
  /\ row' = [row EXCEPT ![tx[h].task] = Cancelled(@, tx[h])]
  /\ tx' = [tx EXCEPT ![h] = NoTx]
  /\ UNCHANGED <<log, session>>

RetryFailedTask(h) ==
  /\ Locks(h, {"failed"})
  /\ row' = [row EXCEPT ![tx[h].task] = Retried(@, tx[h])]
  /\ tx' = [tx EXCEPT ![h] = NoTx]
  /\ UNCHANGED <<log, session>>

\* Approving: by the task's owner, or by the scan that finds the toolkit of a
\* parked task connected.
ApproveToolApproval(h, k) ==
  LET t == tx[h].task IN
  /\ Locks(h, {"waiting_approval"})
  /\ k \in PendingKeys(log[t])
  /\ row' = [row EXCEPT ![t] = Requeued(@, tx[h])]
  /\ log' = [log EXCEPT ![t] = Decided(@, k, "approved")]
  /\ tx' = [tx EXCEPT ![h] = NoTx]
  /\ UNCHANGED session

RejectToolApproval(h, k) ==
  LET t == tx[h].task IN
  /\ Locks(h, {"waiting_approval"})
  /\ k \in PendingKeys(log[t])
  /\ row' = [row EXCEPT ![t] = Cancelled(@, tx[h])]
  /\ log' = [log EXCEPT ![t] = Decided(@, k, "rejected")]
  /\ tx' = [tx EXCEPT ![h] = NoTx]
  /\ UNCHANGED session

\* A guard failed, or the user is not the owner: nothing is written.
CloseTx(h) ==
  /\ tx[h] # NoTx
  /\ tx' = [tx EXCEPT ![h] = NoTx]
  /\ UNCHANGED <<row, log, session>>
-----------------------------------------------------------------------------
(***************************************************************************)
(* Time and crashes.                                                       *)
(***************************************************************************)

\* Worker w is between two renewals in time, or in one of the short steps
\* outside the heartbeat.
Tends(w, t) ==
  /\ session[w].job = t
  /\ row[t].owner = w
  /\ session[w].heartbeat \/ session[w].pc \notin {"executing", "asking"}

ExpireLease(t) ==
  /\ row[t].status = "running"
  /\ row[t].lease = "live"
  /\ "late_heartbeat" \in Faults \/ \A w \in Worker : ~Tends(w, t)
  /\ row' = [row EXCEPT ![t] = [@ EXCEPT !.lease = "expired"]]
  /\ UNCHANGED <<log, session, tx>>

BecomeAvailable(t) ==
  /\ row[t].status = "pending"
  /\ row[t].delayed
  /\ row' = [row EXCEPT ![t] = [@ EXCEPT !.delayed = FALSE]]
  /\ UNCHANGED <<log, session, tx>>

\* The process dies: its open transaction rolls back, its session is lost.
Crash(w) ==
  /\ session[w].pc # "idle"
  /\ \/ "crash_between_commits" \in Faults
     \/ session[w].pc \notin {"finishing", "failing", "cancelling"}
  /\ session' = [session EXCEPT ![w] = Idle]
  /\ UNCHANGED <<row, log, tx>>
-----------------------------------------------------------------------------
\* The steps that take a claimed task towards the end of its run.
Progress(w) ==
  \/ BeginExecution(w)
  \/ ObserveCancel(w)
  \/ \E k \in Key : AskApproval(w, k)
  \/ MarkWaiting(w)
  \/ ReturnResult(w)
  \/ RaiseError(w)
  \/ AfterExecutorCancelled(w)
  \/ AfterExecutorWaiting(w)
  \/ AfterExecutorCompleted(w)
  \/ Succeed(w)
  \/ RecordError(w)
  \/ Fail(w)
  \/ RecordCancelled(w)
  \/ FinishCancel(w)

Poll(w) == PollIdle(w) \/ \E t \in Task : Claim(w, t)

WorkerNext(w) ==
  \/ Poll(w)
  \/ Progress(w)
  \/ BeginDelivery(w)
  \/ EndDelivery(w)
  \/ HeartbeatStops(w)
  \/ \E k \in Key : RunApprovedTool(w, k)
  \/ Crash(w)

HandlerNext(h) ==
  \/ \E t \in Task : LoadTask(h, t)
  \/ CancelTask(h)
  \/ RetryFailedTask(h)
  \/ \E k \in Key : ApproveToolApproval(h, k)
  \/ \E k \in Key : RejectToolApproval(h, k)
  \/ CloseTx(h)

ClockNext(t) == ExpireLease(t) \/ BecomeAvailable(t)

Next ==
  \/ \E w \in Worker : WorkerNext(w)
  \/ \E h \in Handler : HandlerNext(h)
  \/ \E t \in Task : ClockNext(t)

Spec == Init /\ [][Next]_vars
-----------------------------------------------------------------------------
(***************************************************************************)
(* Safety.                                                                 *)
(***************************************************************************)

\* Worker w runs task t, from the claim to the report of how the run ended, and
\* has not parked it for an approval.
Runs(w, t) == session[w].job = t /\ ~session[w].parked

\* At most one worker is between claiming a task and reporting how the run
\* ended: no tool runs twice side by side, no outcome is reported twice.
SingleExecutor ==
  \A t \in Task, v, w \in Worker : Runs(v, t) /\ Runs(w, t) => v = w

\* A pending task has no owner and no lease, so nothing a former owner left
\* behind can be mistaken for a claim.
PendingIsUnlocked ==
  \A t \in Task : row[t].status = "pending" =>
                    row[t].owner = NoWorker /\ row[t].lease = "none"

\* A task that waits for an approval has a request nobody has decided: some
\* click of a user can wake it up.
WaitingIsAnswerable ==
  \A t \in Task : row[t].status = "waiting_approval" =>
                    PendingKeys(log[t]) # {}

\* A tool that needs approval ran only if its request was approved, and the
\* approval still stands.
ApprovedToolsOnly ==
  \A t \in Task : \A k \in log[t].ran : log[t].decision[k] = "approved"

\* The attempts of a task stay within max_attempts, and a task that used them
\* up is not queued, run or parked again.
AttemptsFit ==
  \A t \in Task :
    /\ row[t].attempts <= MaxAttempts
    /\ row[t].status \in Cancellable => row[t].attempts < MaxAttempts

\* A decision, once logged, is never replaced by another.
DecisionFinal ==
  [][\A t \in Task, k \in Key : log[t].decision[k] # "none" =>
        log'[t].decision[k] = log[t].decision[k]]_vars

\* The lease of a task passes from one worker to another only through a state
\* in which nobody owns it.
LeaseNeverStolen ==
  [][\A t \in Task : row'[t].owner # row[t].owner =>
        NoWorker \in {row[t].owner, row'[t].owner}]_vars

\* cancel_task promises to "make the status terminal": no other outcome of a
\* run replaces it.
CancelledIsFinal ==
  [][\A t \in Task : row[t].status = "cancelled" =>
        row'[t].status \notin {"succeeded", "failed"}]_vars

\* mark_waiting_for_tool_approval moves "a running task".
ParkFromRunning ==
  [][\A t \in Task : row'[t].status = "waiting_approval" =>
        row[t].status \in {"running", "waiting_approval"}]_vars

\* approve_tool_approval requeues the task: only a claim or a cancel takes it
\* out of the queue again.
PendingLeavesByClaim ==
  [][\A t \in Task : row[t].status = "pending" =>
        row'[t].status \in {"pending", "running", "cancelled"}]_vars

\* retry_failed_task requeues "a failed task".
RetryFromFailed ==
  [][\A h \in Handler : RetryFailedTask(h) =>
        row[tx[h].task].status = "failed"]_vars

\* The heartbeat of a worker goes on for as long as that worker runs the
\* executor and owns the task.
HeartbeatKeepsOwnedLease ==
  \A w \in Worker :
    LET r == row[session[w].job] IN
    session[w].pc \in {"executing", "asking"}
      /\ r.status = "running" /\ r.owner = w /\ r.lease = "live"
    => session[w].heartbeat
-----------------------------------------------------------------------------
(***************************************************************************)
(* What the approval of tools promises, see ApprovalContract, read off the *)
(* rows and the events of the tasks.                                       *)
(***************************************************************************)

\* What task t waits to be told.
Question(t) == IF row[t].status = "waiting_approval" THEN log[t].newest
                                                     ELSE NoKey

\* Task t is over, and no run is left that could ask for it.
Settled(t) == /\ row[t].status \in {"cancelled", "succeeded"}
              /\ \A w \in Worker : ~ Runs(w, t)

Contract == INSTANCE ApprovalContract WITH
  question <- [t \in Task |-> Question(t)],
  verdict <- [t \in Task |-> log[t].decision],
  closed <- {t \in Task : Settled(t)}

\* A task asks one undecided question at a time, is decided about that question
\* only, and once it is over it neither asks nor is decided about anything.
ImplementsApprovalContract == Contract!Spec
-----------------------------------------------------------------------------
(***************************************************************************)
(* Liveness.  A worker polls and works for as long as it lives, a Slack    *)
(* call returns, and time passes.                                          *)
(***************************************************************************)
Fairness ==
  /\ \A w \in Worker : SF_vars(Progress(w)) /\ WF_vars(EndDelivery(w))
  /\ \A t \in Task :
       /\ SF_vars(\E w \in Worker : Claim(w, t))
       /\ SF_vars(\E w \in Worker : Poll(w) /\ t \in Expired)
       /\ WF_vars(BecomeAvailable(t))
       /\ WF_vars(ExpireLease(t))

FairSpec == Spec /\ Fairness

\* Every task that is queued or running gets to an end or asks its user.
TaskSettles ==
  \A t \in Task : row[t].status \in {"pending", "running"} ~>
                    row[t].status \notin {"pending", "running"}
=============================================================================
