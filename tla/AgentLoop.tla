------------------------------ MODULE AgentLoop ------------------------------
(***************************************************************************)
(* The tool loop of the agent coordinator (kortny/agent/coordinator.py):   *)
(* what one task does to the outside world over all of its runs.  A run is *)
(* bounded by the limits of kortny/agent/execution.py, asks for approvals  *)
(* (also those the trifecta gate of kortny/agent/trifecta.py adds once     *)
(* untrusted content was read), and, when the task was reclaimed after a   *)
(* crash, consults the ledger of tool events that survived                 *)
(* (kortny/agent/idempotency.py) before it invokes a tool again.           *)
(*                                                                         *)
(* A call stands for a tool together with its arguments.  Everything in    *)
(* `run` is memory of the worker and lost when it dies; `task`, `ledger`   *)
(* and `approved` are rows.  The queue is abstracted to what the loop      *)
(* sees of it (TaskLifecycle has the details): a run starts, it dies and   *)
(* is reclaimed, it ends.                                                  *)
(***************************************************************************)
EXTENDS Integers, Sequences, FiniteSets, FiniteSetsExt

CONSTANTS
  Call,            \* a tool with its arguments
  Tool,            \* tool names
  ToolOf,          \* the tool of each call
  Write,           \* calls whose tool has a side effect other than "read"
  Risky,           \* calls the autonomy ladder wants approved
  Outward,         \* calls the trifecta gate watches
  Untrusted,       \* calls whose result brings untrusted content
  Capped,          \* tools with a soft cap
  Leg,             \* tools the request named, to be called before it ends
  Batches,         \* what one completion may ask for: sequences of calls
  MaxTurns, MaxToolCalls, MaxSameCall, MaxFailures, MaxSameError, SoftCap,
  MaxNudges,       \* MAX_COMPLETION_NUDGES
  MaxAttempts,     \* of the queue
  MaxResumes,      \* bound: how often the task is resumed or retried
  NoCall

ASSUME AgentLoopAssumption ==
  /\ ToolOf \in [Call -> Tool]
  /\ Write \cup Risky \cup Outward \cup Untrusted \subseteq Call
  /\ Capped \subseteq Tool /\ Leg \subseteq Tool
  /\ Batches \subseteq Seq(Call) \ {<<>>}
  /\ {MaxTurns, MaxToolCalls, MaxSameCall, MaxSameError} \subseteq Nat \ {0}
  /\ {MaxFailures, SoftCap, MaxNudges, MaxAttempts, MaxResumes} \subseteq Nat
  /\ NoCall \notin Call

VARIABLES
  task,      \* the row, and what its user was last asked for
  ledger,    \* the tool_call and tool_result events of each call
  approved,  \* the calls with an approval
  run,       \* the run in progress
  effects    \* history: how often each call was submitted to its tool

vars == <<task, ledger, approved, run, effects>>
-----------------------------------------------------------------------------
Task == [status : {"queued", "running", "waiting", "succeeded", "failed",
                   "cancelled"},
         attempts : Nat,
         observed : BOOLEAN,       \* built from untrusted content
         asked : Call \cup {NoCall},
         connecting : BOOLEAN,     \* parked for a connection, not a decision
         resumes : Nat,
         before : SUBSET Call,     \* history: submitted before the last crash
         done : SUBSET Call]       \* history: completed in an earlier run

Recorded == {"none", "started", "result", "artifact"}
Outcome == {"none", "result", "artifact", "recoverable", "missing_connection"}

(***************************************************************************)
(* Where a run is: before a turn, among the calls of a completion, past    *)
(* the cancellation check and the budget of a call, inside the tool, with  *)
(* its outcome in hand.                                                    *)
(***************************************************************************)
Run == [pc : {"idle", "turn", "calls", "gate", "invoking", "outcome"},
        turn : Nat, nudges : Nat, batch : Seq(Call),
        made : BOOLEAN,            \* artifact_count of this turn > 0
        tried : [Call -> Nat],     \* tool_call_signature_counts
        failed : [Call -> Nat],    \* recoverable_error_counts, one code each
        armed : BOOLEAN,           \* the trifecta gate
        outcome : Outcome,
        read : SUBSET Call,        \* history: results its own calls gave the model
        replayed : SUBSET Call,    \* history: recorded ones it was given again
        invoked : [Call -> Nat]]   \* history: submitted in this run

TypeOK ==
  /\ task \in Task
  /\ ledger \in [Call -> Recorded]
  /\ approved \in SUBSET Call
  /\ run \in Run
  /\ effects \in [Call -> Nat]

Fresh(pc, armed) ==
  [pc |-> pc, turn |-> 0, nudges |-> 0, batch |-> <<>>, made |-> FALSE,
   tried |-> [c \in Call |-> 0], failed |-> [c \in Call |-> 0],
   armed |-> armed, outcome |-> "none", read |-> {}, replayed |-> {},
   invoked |-> [c \in Call |-> 0]]

Init ==
  /\ task \in [status : {"queued"}, attempts : {0}, observed : BOOLEAN,
               asked : {NoCall}, connecting : {FALSE}, resumes : {0},
               before : {{}}, done : {{}}]
  /\ ledger = [c \in Call |-> "none"]
  /\ approved = {}
  /\ run = Fresh("idle", FALSE)
  /\ effects = [c \in Call |-> 0]
-----------------------------------------------------------------------------
(***************************************************************************)
(* Helpers.                                                                *)
(***************************************************************************)
Completed == {c \in Call : ledger[c] \in {"result", "artifact"}}

Cancelled == task.status = "cancelled"

\* The sum of a counter over the calls of S.
SumOver(f, S) == MapThenSumSet(LAMBDA c : f[c], S)

ToolCalls(t) == {c \in Call : ToolOf[c] = t}

\* Compares the calls before this one.
MutantOverCap(tried, c) ==
  /\ ToolOf[c] \in Capped
  /\ SumOver(tried, ToolCalls(ToolOf[c])) - 1 > SoftCap

\* tool_name_counts and tool_call_count follow from the signature counts.
OverCap(tried, c) ==
  ToolOf[c] \in Capped /\ SumOver(tried, ToolCalls(ToolOf[c])) > SoftCap

\* A tool counts as called as soon as a completion named it.
Missing == {t \in Leg : \A c \in ToolCalls(t) : run.tried[c] = 0}

\* The run ends and the executor reports: a cancelled task stays cancelled.
EndRun(status) ==
  /\ task' = [task EXCEPT !.status = IF Cancelled THEN @ ELSE status]
  /\ run' = Fresh("idle", FALSE)

\* The run ends with a question to the user.
ParkRun(c, connecting) ==
  /\ task' = [task EXCEPT !.status = IF Cancelled THEN @ ELSE "waiting",
                          !.asked = c, !.connecting = connecting]
  /\ run' = Fresh("idle", FALSE)

\* One attempt or failure more of a call.
Counted(f, c) == [f EXCEPT ![c] = @ + 1]

NextCall(r) == [r EXCEPT !.batch = Tail(@), !.pc = "calls", !.outcome = "none"]
-----------------------------------------------------------------------------
(***************************************************************************)
(* Turns.                                                                  *)
(***************************************************************************)
StartRun ==
  /\ task.status = "queued"
  /\ task' = [task EXCEPT !.status = "running", !.done = Completed]
  /\ run' = Fresh("turn", task.observed)
  /\ UNCHANGED <<ledger, approved, effects>>

\* One completion of the model, between two cancellation checks.
Turns == run.pc = "turn" /\ ~Cancelled /\ run.turn < MaxTurns

TurnWithCalls(b) ==
  /\ Turns
  /\ run' = [run EXCEPT !.turn = @ + 1, !.pc = "calls", !.batch = b,
                        !.made = FALSE]
  /\ UNCHANGED <<task, ledger, approved, effects>>

\* Still empty after the retries of the call: the model is told so.
TurnEmpty ==
  /\ Turns
  /\ run.turn + 1 < MaxTurns
  /\ run' = [run EXCEPT !.turn = @ + 1]
  /\ UNCHANGED <<task, ledger, approved, effects>>

\* A text while a named tool was never called earns a nudge.
TurnWithText ==
  /\ Turns
  /\ IF Missing # {} /\ run.turn + 1 < MaxTurns /\ run.nudges < MaxNudges
     THEN run' = [run EXCEPT !.turn = @ + 1, !.nudges = @ + 1]
          /\ UNCHANGED task
     ELSE EndRun("succeeded")
  /\ UNCHANGED <<ledger, approved, effects>>

\* The provider fails, or the cost ceiling stops the run with a partial answer.
TurnFails ==
  /\ Turns
  /\ \E s \in {"failed", "succeeded"} : EndRun(s)
  /\ UNCHANGED <<ledger, approved, effects>>

\* Never true: the loop runs while the turn is below the limit.
MutantTurnsExhausted ==
  /\ run.pc = "turn" /\ run.turn > MaxTurns
  /\ EndRun("succeeded")
  /\ UNCHANGED <<ledger, approved, effects>>

\* Turn budget exhausted: a partial answer, not a failure.
TurnsExhausted ==
  /\ run.pc = "turn" /\ run.turn = MaxTurns
  /\ EndRun("succeeded")
  /\ UNCHANGED <<ledger, approved, effects>>

\* raise_if_cancelled before and after a completion, before and after a tool.
\* A missing connection is raised before the check that follows a tool.
ObserveCancel ==
  /\ Cancelled
  /\ \/ run.pc = "turn" /\ run.turn < MaxTurns
     \/ run.pc = "calls" /\ run.batch # <<>>
     \/ run.pc = "outcome" /\ run.outcome # "missing_connection"
  /\ EndRun("cancelled")
  /\ UNCHANGED <<ledger, approved, effects>>
-----------------------------------------------------------------------------
(***************************************************************************)
(* The calls of one completion, in order.                                  *)
(***************************************************************************)

\* The cancellation check, then the attempt counts before anything runs: past
\* the budget the run closes with a partial answer, a repeated call trips the
\* circuit breaker.
BeforeTool ==
  LET c == Head(run.batch)
      tried == Counted(run.tried, c)
  IN
  /\ run.pc = "calls" /\ run.batch # <<>> /\ ~Cancelled
  /\ IF SumOver(tried, Call) > MaxToolCalls THEN EndRun("succeeded")
     ELSE IF tried[c] > MaxSameCall THEN EndRun("failed")
     ELSE run' = [run EXCEPT !.tried = tried, !.pc = "gate"] /\ UNCHANGED task
  /\ UNCHANGED <<ledger, approved, effects>>

\* The gate can only raise the floor the autonomy ladder sets.
NeedsApproval(c) == c \in Risky \/ (run.armed /\ c \in Outward)

AskApproval ==
  LET c == Head(run.batch) IN
  /\ run.pc = "gate"
  /\ NeedsApproval(c) /\ c \notin approved
  /\ ParkRun(c, FALSE)
  /\ UNCHANGED <<ledger, approved, effects>>

\* Forgets that a started write may have happened.
MutantPriorAttempt(c) ==
  IF task.attempts = 0 \/ c \notin Completed THEN "none" ELSE "completed"

\* Only a task that was reclaimed looks at the ledger.  A read that started is
\* safe to run again.
PriorAttempt(c) ==
  IF task.attempts = 0 THEN "none"
  ELSE IF c \in Completed THEN "completed"
  ELSE IF ledger[c] = "started" /\ c \in Write THEN "unknown" ELSE "none"

Passed(c) == run.pc = "gate" /\ (~NeedsApproval(c) \/ c \in approved)

\* The recorded result is given to the model again, its artifacts count.  The loop
\* goes on to the next call and past the step that arms the gate.
ReplayCompleted ==
  LET c == Head(run.batch) IN
  /\ run.pc = "gate" /\ Passed(c)
  /\ PriorAttempt(c) = "completed"
  /\ run' = [NextCall(run) EXCEPT !.made = @ \/ ledger[c] = "artifact",
                                  !.replayed = @ \cup {c}]
  /\ UNCHANGED <<task, ledger, approved, effects>>

\* The model is told that the outcome of the earlier attempt is unknown.
SurfaceUnknown ==
  LET c == Head(run.batch) IN
  /\ run.pc = "gate" /\ Passed(c)
  /\ PriorAttempt(c) = "unknown"
  /\ run' = NextCall(run)
  /\ UNCHANGED <<task, ledger, approved, effects>>

\* A submission to the tool.
Submitted(r, c) ==
  [r EXCEPT !.invoked = Counted(r.invoked, c)]

\* The tool_call event commits, then the tool is invoked, unless its soft cap
\* turns the call into a recoverable error.  A call that timed out goes on in
\* its thread: a submission counts as an effect whatever it returns.
Invoke ==
  LET c == Head(run.batch) IN
  /\ run.pc = "gate" /\ Passed(c)
  /\ PriorAttempt(c) = "none"
  /\ ledger' = [ledger EXCEPT ![c] = IF @ = "none" THEN "started" ELSE @]
  /\ IF OverCap(run.tried, c)
     THEN /\ run' = [run EXCEPT !.pc = "outcome", !.outcome = "recoverable",
                                !.failed = Counted(run.failed, c)]
          /\ UNCHANGED effects
     ELSE /\ run' = Submitted([run EXCEPT !.pc = "invoking"], c)
          /\ effects' = Counted(effects, c)
  /\ UNCHANGED <<task, approved>>

\* Errors are fed back; recoverable ones count.
ToolReturns(o) ==
  LET c == Head(run.batch) IN
  /\ run.pc = "invoking"
  /\ o \in Outcome \ {"none"}
  /\ run' = [run EXCEPT !.pc = "outcome", !.outcome = o,
                        !.failed = IF o \in {"recoverable", "missing_connection"}
                                   THEN Counted(run.failed, c) ELSE @]
  /\ UNCHANGED <<task, ledger, approved, effects>>

\* A recoverable error with a known repair is tried once more, with repaired
\* arguments and no new tool_call event; only a failing repair counts.
ToolRepaired(o) ==
  LET c == Head(run.batch) IN
  /\ run.pc = "invoking"
  /\ o \in {"result", "artifact", "recoverable"}
  /\ run' = Submitted([run EXCEPT !.pc = "outcome", !.outcome = o,
                         !.failed = IF o = "recoverable"
                                    THEN Counted(run.failed, c) ELSE @], c)
  /\ effects' = Counted(effects, c)
  /\ UNCHANGED <<task, ledger, approved>>

\* Any other exception fails the task.
ToolRaises ==
  /\ run.pc = "invoking"
  /\ EndRun("failed")
  /\ UNCHANGED <<ledger, approved, effects>>

\* No connected account: the task waits for the user to connect one.
AskConnection ==
  /\ run.pc = "outcome" /\ run.outcome = "missing_connection"
  /\ ParkRun(Head(run.batch), TRUE)
  /\ UNCHANGED <<ledger, approved, effects>>

OutOfRecoveries(r, c) ==
  /\ r.outcome = "recoverable"
  /\ \/ SumOver(r.failed, Call) > MaxFailures
     \/ r.failed[c] > MaxSameError

\* Arms the gate for a result without error only.
MutantRecordResult ==
  LET c == Head(run.batch) IN
  /\ run.pc = "outcome" /\ run.outcome # "missing_connection" /\ ~Cancelled
  /\ ledger' = [ledger EXCEPT ![c] =
       IF @ \notin {"none", "started"} THEN @
       ELSE IF run.outcome = "artifact" THEN "artifact" ELSE "result"]
  /\ IF OutOfRecoveries(run, c)
     THEN EndRun("failed")
     ELSE /\ run' = [NextCall(run) EXCEPT
               !.made = @ \/ run.outcome = "artifact",
               !.read = @ \cup {c},
               !.armed = @ \/ (c \in Untrusted /\ run.outcome # "recoverable")]
          /\ UNCHANGED task
  /\ UNCHANGED <<approved, effects>>

\* The tool_result event (of an error as well: it has an output, so it will
\* be replayed), the arming of the gate, and the recovery budget.
RecordResult ==
  LET c == Head(run.batch) IN
  /\ run.pc = "outcome" /\ run.outcome # "missing_connection" /\ ~Cancelled
  /\ ledger' = [ledger EXCEPT ![c] =
       IF @ \notin {"none", "started"} THEN @
       ELSE IF run.outcome = "artifact" THEN "artifact" ELSE "result"]
  /\ IF OutOfRecoveries(run, c)
     THEN EndRun("failed")
     ELSE /\ run' = [NextCall(run) EXCEPT
               !.made = @ \/ run.outcome = "artifact",
               !.read = @ \cup {c},
               !.armed = @ \/ c \in Untrusted]
          /\ UNCHANGED task
  /\ UNCHANGED <<approved, effects>>

\* A turn that made artifacts is the last one.
EndBatch ==
  /\ run.pc = "calls" /\ run.batch = <<>>
  /\ IF run.made THEN EndRun("succeeded")
                 ELSE run' = [run EXCEPT !.pc = "turn"] /\ UNCHANGED task
  /\ UNCHANGED <<ledger, approved, effects>>
-----------------------------------------------------------------------------
(***************************************************************************)
(* Around the run.                                                         *)
(***************************************************************************)

\* The worker dies and the queue reclaims the task when the lease expires.
Crash ==
  /\ run.pc # "idle"
  /\ run' = Fresh("idle", FALSE)
  /\ task' = IF Cancelled THEN task
             ELSE [task EXCEPT
                    !.attempts = @ + 1,
                    !.status = IF task.attempts + 1 >= MaxAttempts
                               THEN "failed" ELSE "queued",
                    !.before = {c \in Call : effects[c] > 0}]
  /\ UNCHANGED <<ledger, approved, effects>>

Cancel ==
  /\ task.status \in {"queued", "running", "waiting"}
  /\ task' = [task EXCEPT !.status = "cancelled"]
  /\ UNCHANGED <<ledger, approved, run, effects>>

\* The user approves or connects: the task is queued, its attempts stay.  A
\* decision about a connection approves no tool.
Resume ==
  /\ task.status = "waiting" /\ task.resumes < MaxResumes
  /\ task' = [task EXCEPT !.status = "queued", !.resumes = @ + 1]
  /\ approved' = IF task.connecting THEN approved ELSE approved \cup {task.asked}
  /\ UNCHANGED <<ledger, run, effects>>

\* retry_failed_task sets the attempts to 0: the ledger is out of use.
Retry ==
  /\ task.status = "failed" /\ task.resumes < MaxResumes
  /\ task' = [task EXCEPT !.status = "queued", !.attempts = 0,
                          !.resumes = @ + 1, !.before = {}]
  /\ UNCHANGED <<ledger, approved, run, effects>>
-----------------------------------------------------------------------------
RunStep ==
  \/ \E b \in Batches : TurnWithCalls(b)
  \/ TurnEmpty \/ TurnWithText \/ TurnFails \/ TurnsExhausted
  \/ ObserveCancel \/ BeforeTool \/ AskApproval
  \/ ReplayCompleted \/ SurfaceUnknown \/ Invoke
  \/ \E o \in Outcome : ToolReturns(o) \/ ToolRepaired(o)
  \/ ToolRaises \/ AskConnection \/ RecordResult \/ EndBatch

Next == RunStep \/ StartRun \/ Crash \/ Cancel \/ Resume \/ Retry

Spec == Init /\ [][Next]_vars

\* A worker that lives goes on with its run: the model, the tools and Slack
\* are called with timeouts.
FairSpec == Spec /\ WF_vars(RunStep)
-----------------------------------------------------------------------------
\* A write that was submitted when a run died is not submitted again,
\* through any number of further crashes, approvals and connections, until
\* somebody retries the failed task by hand.
CrashRepeatsNoWrite ==
  [][\A c \in Write \cap task.before : effects'[c] = effects[c]]_vars

\* Whatever the model of this run was given.
InContext == run.read \cup run.replayed

\* Once a result of S came from outside, or the task was built from such content,
\* nothing goes outward without an approval.
GatedAfter(S) ==
  \A c \in Outward :
    effects'[c] > effects[c] /\ (task.observed \/ S \cap Untrusted # {})
      => c \in approved

\* What an own call of the run brought in from outside is followed by nothing that
\* goes outward unapproved, also through the repair of a call, a completion that
\* asks for both, errors and crashes; in a task that was never reclaimed, or was
\* retried since, that goes for all that the model was given.
OutwardIsGated ==
  [][GatedAfter(IF task.attempts = 0 THEN InContext ELSE run.read)]_vars

\* trifecta.py: "Once untrusted content has entered the context", an outward call
\* "must get user approval for the rest of the task": a result replayed after a
\* crash has entered it as well.
OutwardNeedsApproval == [][GatedAfter(InContext)]_vars

\* A run submits at most twice per budgeted call (a repair is the second), and
\* a capped tool at most twice per unit of its cap.
WorkIsBounded ==
  /\ SumOver(run.invoked, Call) <= 2 * MaxToolCalls
  /\ \A c \in Call : run.invoked[c] <= 2 * MaxSameCall
  /\ \A t \in Capped : SumOver(run.invoked, ToolCalls(t)) <= 2 * SoftCap

\* idempotency.py: a retry "would re-execute the tool - producing duplicate
\* external side effects" and "this module closes the gap": a write whose
\* result an earlier run recorded is not submitted again.
CompletedOnce ==
  [][\A c \in Write \cap task.done : effects'[c] = effects[c]]_vars

\* What a task waits to be told: a park for a connection puts no question.
Asking ==
  IF task.status = "waiting" /\ ~task.connecting THEN task.asked ELSE NoCall

Verdict(c) == IF c \in approved THEN "approved" ELSE "none"

Over == task.status \in {"cancelled", "succeeded"}

Contract == INSTANCE ApprovalContract WITH
  Task <- {"task"}, Key <- Call, NoKey <- NoCall,
  question <- [t \in {"task"} |-> Asking],
  verdict <- [t \in {"task"} |-> [c \in Call |-> Verdict(c)]],
  closed <- {t \in {"task"} : Over}

\* Through all its runs, crashes and retries a task asks for one undecided call at
\* a time and is not worked on until it is answered; an approval stays; a task that
\* succeeded or was cancelled asks nothing any more, whatever a run that does not
\* know of the cancellation still does (raise_if_cancelled, the approval gate of
\* AgentCoordinator.run).
ImplementsApprovals == Contract!Spec

\* How far a run is from its end: it has so many turns left, in this turn so many
\* calls, in this call so many steps.
Rank == [calls |-> 5, gate |-> 4, invoking |-> 3, outcome |-> 2, turn |-> 1]

Closer(r, s) ==
  \/ r.turn > s.turn
  \/ /\ r.turn = s.turn
     /\ \/ Len(r.batch) < Len(s.batch)
        \/ Len(r.batch) = Len(s.batch) /\ Rank[r.pc] < Rank[s.pc]

\* Every step of a run ends it or brings it closer to its end, and it never takes
\* more turns than it has: no retry, repair, nudge or replay inside a run repeats
\* itself for nothing (the loop of AgentCoordinator.run, MAX_COMPLETION_NUDGES).
RunsShrink ==
  [][/\ run'.turn <= MaxTurns
     /\ RunStep => run'.pc = "idle" \/ Closer(run', run)]_vars

\* Every run comes to an end: empty completions, nudges, errors and repeated
\* calls all use up a budget.
RunEnds == run.pc # "idle" ~> run.pc = "idle"
=============================================================================
