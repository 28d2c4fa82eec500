------------------------- MODULE TaskLifecycleProofs -------------------------
(***************************************************************************)
(* Theorems about TaskLifecycle, for any number of tasks, workers,         *)
(* handlers, keys and attempts.                                            *)
(***************************************************************************)
EXTENDS TaskLifecycle, TLAPS

-----------------------------------------------------------------------------
(***************************************************************************)
(* What the operators on rows return.                                      *)
(***************************************************************************)

\* A status write touches the status only, and writes it if it was not loaded so.
LEMMA SetStatusType ==
  ASSUME NEW r \in Row, NEW seen \in Status, NEW new \in Status
  PROVE  /\ SetStatus(r, seen, new) \in Row
         /\ SetStatus(r, seen, new).owner = r.owner
         /\ SetStatus(r, seen, new).lease = r.lease
         /\ SetStatus(r, seen, new).delayed = r.delayed
         /\ SetStatus(r, seen, new).attempts = r.attempts
         /\ SetStatus(r, seen, new).status \in {r.status, new}
         /\ new # seen => SetStatus(r, seen, new).status = new
BY DEF SetStatus, Flush, Row

\* Clearing a lease touches owner and lease only.
LEMMA ClearLeaseType ==
  ASSUME NEW r \in Row, NEW held \in BOOLEAN
  PROVE  /\ ClearLease(r, held) \in Row
         /\ ClearLease(r, held).status = r.status
         /\ ClearLease(r, held).delayed = r.delayed
         /\ ClearLease(r, held).attempts = r.attempts
         /\ held => /\ ClearLease(r, held).owner = NoWorker
                    /\ ClearLease(r, held).lease = "none"
         /\ ~held => ClearLease(r, held) = r
BY DEF ClearLease, Row, Lease

\* A claimed row is a row that runs.
LEMMA ClaimedType ==
  ASSUME NEW r \in Row, NEW w \in Worker
  PROVE  Claimed(r, w) \in Row /\ Claimed(r, w).status = "running"
<1>1. "running" \in Status /\ "live" \in Lease
  BY DEF Status, Lease
<1>2. QED
  BY <1>1 DEF Claimed, Row

\* A reclaimed row is a row without lease, pending or failed.
LEMMA ReclaimedType ==
  ASSUME NEW r \in Row
  PROVE  /\ Reclaimed(r) \in Row
         /\ Reclaimed(r).owner = NoWorker
         /\ Reclaimed(r).lease = "none"
         /\ \/ Reclaimed(r).status = "failed"
            \/ Reclaimed(r).status = "pending" /\ Reclaimed(r).delayed
<1> DEFINE released == [r EXCEPT !.owner = NoWorker, !.lease = "none",
                                 !.attempts = @ + 1]
<1>1. /\ released \in Row
      /\ released.owner = NoWorker
      /\ released.lease = "none"
  <2>1. r.attempts + 1 \in Nat /\ NoWorker \in Worker \cup {NoWorker}
    BY DEF Row
  <2>2. "none" \in Lease
    BY DEF Lease
  <2> QED
    BY <2>1, <2>2 DEF Row
<1>2. CASE r.attempts + 1 >= MaxAttempts
  <2>1. Reclaimed(r) = [released EXCEPT !.status = "failed"]
    BY <1>2 DEF Reclaimed
  <2> QED
    BY <1>1, <2>1 DEF Row, Status
<1>3. CASE ~(r.attempts + 1 >= MaxAttempts)
  <2>1. Reclaimed(r) = [released EXCEPT !.status = "pending", !.delayed = TRUE]
    BY <1>3 DEF Reclaimed
  <2> QED
    BY <1>1, <2>1 DEF Row, Status
<1> QED
  BY <1>2, <1>3

\* The three writes of the handlers yield rows.
LEMMA RequeuedType ==
  ASSUME NEW r \in Row, NEW loaded \in Loaded
  PROVE  /\ Requeued(r, loaded) \in Row
         /\ Retried(r, loaded) \in Row
         /\ Cancelled(r, loaded) \in Row
         /\ Requeued(r, loaded).status \in {r.status, "pending"}
         /\ Cancelled(r, loaded).status \in {r.status, "cancelled"}
<1>1. loaded.status \in Status /\ loaded.leased \in BOOLEAN
  BY DEF Loaded
<1>2. "pending" \in Status /\ "cancelled" \in Status
  BY DEF Status
<1> DEFINE p == SetStatus(r, loaded.status, "pending")
           c == SetStatus(r, loaded.status, "cancelled")
<1>3. /\ p \in Row /\ p.status \in {r.status, "pending"}
      /\ c \in Row /\ c.status \in {r.status, "cancelled"}
  BY <1>1, <1>2, SetStatusType
<1>4. /\ ClearLease(p, loaded.leased) \in Row
      /\ ClearLease(p, loaded.leased).status = p.status
      /\ ClearLease(c, loaded.leased) \in Row
      /\ ClearLease(c, loaded.leased).status = c.status
  BY <1>1, <1>3, ClearLeaseType
<1>5. /\ Requeued(r, loaded) \in Row
      /\ Requeued(r, loaded).status = p.status
  BY <1>4 DEF Requeued, Row
<1>7. Retried(r, loaded) \in Row
  BY <1>5 DEF Retried, Flush, Row
<1>6. Cancelled(r, loaded) = ClearLease(c, loaded.leased)
  BY DEF Cancelled
<1> HIDE DEF p, c
<1> QED
  BY <1>3, <1>4, <1>5, <1>6, <1>7
-----------------------------------------------------------------------------
(***************************************************************************)
(* Typing.  TypeOK alone is not inductive: a busy worker has a task.       *)
(***************************************************************************)
Busy == \A w \in Worker : IF session[w].pc = "idle" THEN session[w] = Idle
                                                    ELSE session[w].job \in Task

Typed == TypeOK /\ Busy

\* The initial state is well typed.
LEMMA InitTyped == Init => Typed
BY TaskLifecycleAssumption
   DEF Init, Typed, TypeOK, Busy, Row, Log, Session, Status, Lease, Decision, Pc,
       Idle

\* A busy worker's task and session have their types.
LEMMA JobTyped ==
  ASSUME Typed, NEW w \in Worker, session[w].pc # "idle"
  PROVE  /\ session[w].job \in Task
         /\ row[session[w].job] \in Row
         /\ row[session[w].job].status \in Status
         /\ session[w].seen \in Status /\ session[w].held \in BOOLEAN
BY DEF Typed, Busy, TypeOK, Row, Session

\* The three events keep the type of the log.
LEMMA LogType ==
  ASSUME NEW l \in Log, NEW k \in Key
  PROVE  /\ Ran(l, k) \in Log
         /\ Asked(l, k) \in Log
         /\ \A d \in Decision : Decided(l, k, d) \in Log
BY DEF Log, Ran, Asked, Decided

\* A worker's session may become any well-typed session of a task.
LEMMA WriteSession ==
  ASSUME Typed, NEW w \in Worker, NEW s \in Session, s.pc # "idle",
         s.job \in Task, session' = [session EXCEPT ![w] = s]
  PROVE  session' \in [Worker -> Session] /\ Busy'
BY DEF Typed, TypeOK, Busy

\* A worker's session may end.
LEMMA IdleSession ==
  ASSUME Typed, NEW w \in Worker, session' = [session EXCEPT ![w] = Idle]
  PROVE  session' \in [Worker -> Session] /\ Busy'
<1>1. Idle \in Session
  BY DEF Idle, Session, Pc, Status
<1>2. Idle.pc = "idle"
  BY DEF Idle
<1> HIDE DEF Idle
<1> QED
  BY <1>1, <1>2 DEF Typed, TypeOK, Busy

\* A handler that loaded a row holds one of a task.
LEMMA TxTyped ==
  ASSUME Typed, NEW h \in Handler, tx[h] # NoTx
  PROVE  /\ tx[h] \in Loaded /\ tx[h].task \in Task
         /\ row[tx[h].task] \in Row
BY DEF Typed, TypeOK, Loaded

\* Each step of a poll or of a run keeps the types.
LEMMA WorkerTyped ==
  ASSUME Typed, NEW w \in Worker, WorkerNext(w)
  PROVE  Typed'
<1> USE DEF Typed, TypeOK, Busy
<1>1. ASSUME NEW t \in Task, Claim(w, t) PROVE Typed'
  <2>1. AfterReclaim \in [Task -> Row]
    BY ReclaimedType DEF AfterReclaim
  <2>2. Claimed(AfterReclaim[t], w) \in Row
    BY <2>1, ClaimedType
  <2>3. row' \in [Task -> Row]
    BY <1>1, <2>1, <2>2 DEF Claim
  <2> DEFINE s == [session[w] EXCEPT !.pc = "claimed", !.job = t]
  <2>4. s \in Session /\ s.pc # "idle" /\ s.job \in Task
    BY DEF Session, Pc
  <2>5. session' = [session EXCEPT ![w] = s]
    BY <1>1 DEF Claim
  <2> HIDE DEF s
  <2> QED
    BY <1>1, <2>3, <2>4, <2>5, WriteSession DEF Claim
<1>2. CASE PollIdle(w)
  BY <1>2, ReclaimedType DEF PollIdle, AfterReclaim
<1>3. CASE BeginExecution(w)
  <2> DEFINE r == row[session[w].job]
             s == [session[w] EXCEPT
                 !.pc = IF r.status = "cancelled" THEN "aborting"
                                                  ELSE "executing",
                 !.seen = r.status, !.held = (r.lease # "none"),
                 !.heartbeat = (r.status # "cancelled")]
  <2>1. s \in Session /\ s.pc # "idle" /\ s.job \in Task
    BY <1>3, JobTyped, ZenonT(30) DEF BeginExecution, Session, Pc
  <2>2. session' = [session EXCEPT ![w] = s]
    BY <1>3 DEF BeginExecution
  <2> HIDE DEF s
  <2> QED
    BY <1>3, <2>1, <2>2, WriteSession DEF BeginExecution
<1>4. CASE BeginDelivery(w)
  BY <1>4 DEF BeginDelivery, Session
<1>5. CASE EndDelivery(w)
  <2>1. session[w].pc # "idle"
    BY <1>5 DEF EndDelivery, Idle
  <2> QED
    BY <1>5, <2>1, JobTyped DEF EndDelivery, Session
<1>6. CASE HeartbeatStops(w)
  <2>1. session[w].pc # "idle"
    BY <1>6 DEF HeartbeatStops, Idle
  <2> QED
    BY <1>6, <2>1, JobTyped DEF HeartbeatStops, Session
<1>7. CASE ObserveCancel(w)
  <2> DEFINE s == [session[w] EXCEPT !.pc = "aborting", !.seen = "cancelled",
                                     !.heartbeat = FALSE]
  <2>1. s \in Session /\ s.pc # "idle" /\ s.job \in Task
    BY <1>7, JobTyped, ZenonT(30) DEF ObserveCancel, Session, Pc, Status
  <2>2. session' = [session EXCEPT ![w] = s]
    BY <1>7 DEF ObserveCancel
  <2> HIDE DEF s
  <2> QED
    BY <1>7, <2>1, <2>2, WriteSession DEF ObserveCancel
<1>8. ASSUME NEW k \in Key, RunApprovedTool(w, k) PROVE Typed'
  <2>1. session[w].job \in Task /\ log[session[w].job] \in Log
    BY <1>8, JobTyped DEF RunApprovedTool
  <2>2. log' \in [Task -> Log]
    BY <1>8, <2>1, LogType DEF RunApprovedTool
  <2> QED
    BY <1>8, <2>2, JobTyped DEF RunApprovedTool, Session
<1>9. ASSUME NEW k \in Key, AskApproval(w, k) PROVE Typed'
  <2>1. session[w].job \in Task /\ log[session[w].job] \in Log
    BY <1>9, JobTyped DEF AskApproval
  <2>2. log' \in [Task -> Log]
    BY <1>9, <2>1, LogType DEF AskApproval
  <2> DEFINE s == [session[w] EXCEPT !.pc = "asking",
                                     !.seen = row[session[w].job].status]
  <2>3. s \in Session /\ s.pc # "idle" /\ s.job \in Task
    BY <1>9, JobTyped DEF AskApproval, Session, Pc
  <2>4. session' = [session EXCEPT ![w] = s]
    BY <1>9 DEF AskApproval
  <2> HIDE DEF s
  <2> QED
    BY <1>9, <2>2, <2>3, <2>4, WriteSession DEF AskApproval
<1>10. CASE MarkWaiting(w)
  <2>1. row' \in [Task -> Row]
    BY <1>10, JobTyped, SetStatusType, ClearLeaseType DEF MarkWaiting, Status
  <2> DEFINE s == [session[w] EXCEPT !.pc = "returned", !.parked = TRUE,
                                     !.seen = "waiting_approval",
                                     !.held = FALSE, !.heartbeat = FALSE]
  <2>2. s \in Session /\ s.pc # "idle" /\ s.job \in Task
    BY <1>10, JobTyped DEF MarkWaiting, Session, Pc, Status
  <2>3. session' = [session EXCEPT ![w] = s]
    BY <1>10 DEF MarkWaiting
  <2> HIDE DEF s
  <2> QED
    BY <1>10, <2>1, <2>2, <2>3, WriteSession DEF MarkWaiting
<1>11. CASE ReturnResult(w)
  <2> DEFINE s == [session[w] EXCEPT !.pc = "returned", !.heartbeat = FALSE,
                                     !.seen = row[session[w].job].status]
  <2>1. s \in Session /\ s.pc # "idle" /\ s.job \in Task
    BY <1>11, JobTyped, ZenonT(30) DEF ReturnResult, Session, Pc, Status
  <2>2. session' = [session EXCEPT ![w] = s]
    BY <1>11 DEF ReturnResult
  <2> HIDE DEF s
  <2> QED
    BY <1>11, <2>1, <2>2, WriteSession DEF ReturnResult
<1>12. CASE RaiseError(w)
  BY <1>12, ZenonT(30) DEF RaiseError, Session, Pc
<1>13. CASE AfterExecutorCancelled(w)
  <2> DEFINE s == [session[w] EXCEPT !.pc = "aborting", !.seen = "cancelled"]
  <2>1. s \in Session /\ s.pc # "idle" /\ s.job \in Task
    BY <1>13, JobTyped, ZenonT(30) DEF AfterExecutorCancelled, Session, Pc, Status
  <2>2. session' = [session EXCEPT ![w] = s]
    BY <1>13 DEF AfterExecutorCancelled
  <2> HIDE DEF s
  <2> QED
    BY <1>13, <2>1, <2>2, WriteSession DEF AfterExecutorCancelled
<1>14. CASE AfterExecutorWaiting(w)
  <2>1. row' \in [Task -> Row]
    BY <1>14, JobTyped, ClearLeaseType DEF AfterExecutorWaiting
  <2>2. session' = [session EXCEPT ![w] = Idle]
    BY <1>14 DEF AfterExecutorWaiting
  <2> QED
    BY <1>14, <2>1, <2>2, IdleSession DEF AfterExecutorWaiting
<1>15. CASE AfterExecutorCompleted(w)
  <2>1. row' \in [Task -> Row]
    BY <1>15, JobTyped, ClearLeaseType DEF AfterExecutorCompleted
  <2> DEFINE s == [session[w] EXCEPT !.pc = "finishing", !.held = FALSE,
                                     !.seen = row[session[w].job].status]
  <2>2. s \in Session /\ s.pc # "idle" /\ s.job \in Task
    BY <1>15, JobTyped DEF AfterExecutorCompleted, Session, Pc
  <2>3. session' = [session EXCEPT ![w] = s]
    BY <1>15 DEF AfterExecutorCompleted
  <2> HIDE DEF s
  <2> QED
    BY <1>15, <2>1, <2>2, <2>3, WriteSession DEF AfterExecutorCompleted
<1>16. CASE Succeed(w)
  <2>1. row' \in [Task -> Row]
    BY <1>16, JobTyped, SetStatusType DEF Succeed, Status
  <2>2. session' = [session EXCEPT ![w] = Idle]
    BY <1>16 DEF Succeed
  <2> QED
    BY <1>16, <2>1, <2>2, IdleSession DEF Succeed
<1>17. CASE RecordError(w)
  <2>1. row' \in [Task -> Row]
    BY <1>17, JobTyped, ClearLeaseType DEF RecordError, RecordOutcome
  <2> DEFINE s == [session[w] EXCEPT !.pc = "failing", !.held = FALSE,
                                     !.seen = row[session[w].job].status]
  <2>2. s \in Session /\ s.pc # "idle" /\ s.job \in Task
    BY <1>17, JobTyped DEF RecordError, RecordOutcome, Session, Pc
  <2>3. session' = [session EXCEPT ![w] = s]
    BY <1>17 DEF RecordError, RecordOutcome
  <2> HIDE DEF s
  <2> QED
    BY <1>17, <2>1, <2>2, <2>3, WriteSession DEF RecordError, RecordOutcome
<1>18. CASE Fail(w)
  <2>1. row' \in [Task -> Row]
    BY <1>18, JobTyped, SetStatusType DEF Fail, Status
  <2>2. session' = [session EXCEPT ![w] = Idle]
    BY <1>18 DEF Fail
  <2> QED
    BY <1>18, <2>1, <2>2, IdleSession DEF Fail
<1>19. CASE RecordCancelled(w)
  <2>1. row' \in [Task -> Row]
    BY <1>19, JobTyped, ClearLeaseType DEF RecordCancelled, RecordOutcome
  <2> DEFINE s == [session[w] EXCEPT !.pc = "cancelling", !.held = FALSE,
                                     !.seen = row[session[w].job].status]
  <2>2. s \in Session /\ s.pc # "idle" /\ s.job \in Task
    BY <1>19, JobTyped DEF RecordCancelled, RecordOutcome, Session, Pc
  <2>3. session' = [session EXCEPT ![w] = s]
    BY <1>19 DEF RecordCancelled, RecordOutcome
  <2> HIDE DEF s
  <2> QED
    BY <1>19, <2>1, <2>2, <2>3, WriteSession DEF RecordCancelled, RecordOutcome
<1>20. CASE FinishCancel(w)
  <2>1. row' \in [Task -> Row]
    BY <1>20, JobTyped DEF FinishCancel, Row, Status
  <2>2. session' = [session EXCEPT ![w] = Idle]
    BY <1>20 DEF FinishCancel
  <2> QED
    BY <1>20, <2>1, <2>2, IdleSession DEF FinishCancel
<1>21. CASE Crash(w)
  BY <1>21 DEF Crash, Session, Pc, Idle, Status
<1> HIDE DEF Typed, TypeOK, Busy
<1> QED
  BY <1>1, <1>2, <1>3, <1>4, <1>5, <1>6, <1>7, <1>8, <1>9, <1>10, <1>11, <1>12, <1>13, <1>14, <1>15, <1>16, <1>17, <1>18, <1>19, <1>20, <1>21
     DEF WorkerNext, Poll, Progress

\* Each step of a handler keeps the types.
LEMMA HandlerTyped ==
  ASSUME Typed, NEW h \in Handler, HandlerNext(h)
  PROVE  Typed'
<1> USE DEF Typed, TypeOK
<1>1. ASSUME NEW t \in Task, LoadTask(h, t) PROVE Typed'
  <2>1. row[t] \in Row /\ (row[t].lease # "none") \in BOOLEAN
    OBVIOUS
  <2>2. tx' \in [Handler -> Loaded \cup {NoTx}]
    BY <1>1, <2>1 DEF LoadTask, Loaded, Row
  <2> QED
    BY <1>1, <2>2 DEF LoadTask, Busy
<1>2. CASE CancelTask(h)
  BY <1>2, TxTyped, RequeuedType DEF CancelTask, Locks, Busy
<1>3. CASE RetryFailedTask(h)
  BY <1>3, TxTyped, RequeuedType DEF RetryFailedTask, Locks, Busy
<1>4. ASSUME NEW k \in Key, ApproveToolApproval(h, k) PROVE Typed'
  <2>1. row' \in [Task -> Row]
    BY <1>4, TxTyped, RequeuedType DEF ApproveToolApproval, Locks
  <2>2. log' \in [Task -> Log]
    BY <1>4, TxTyped, LogType DEF ApproveToolApproval, Locks, Decision
  <2> QED
    BY <1>4, <2>1, <2>2 DEF ApproveToolApproval, Busy
<1>5. ASSUME NEW k \in Key, RejectToolApproval(h, k) PROVE Typed'
  <2>1. row' \in [Task -> Row]
    BY <1>5, TxTyped, RequeuedType DEF RejectToolApproval, Locks
  <2>2. log' \in [Task -> Log]
    BY <1>5, TxTyped, LogType DEF RejectToolApproval, Locks, Decision
  <2> QED
    BY <1>5, <2>1, <2>2 DEF RejectToolApproval, Busy
<1>6. CASE CloseTx(h)
  BY <1>6 DEF CloseTx, Busy
<1> QED
  BY <1>1, <1>2, <1>3, <1>4, <1>5, <1>6 DEF HandlerNext

\* The passing of time keeps the types.
LEMMA ClockTyped ==
  ASSUME Typed, NEW t \in Task, ClockNext(t)
  PROVE  Typed'
<1> USE DEF Typed, TypeOK
<1>1. /\ [row[t] EXCEPT !.lease = "expired"] \in Row
      /\ [row[t] EXCEPT !.delayed = FALSE] \in Row
  BY DEF Row, Lease
<1> QED
  BY <1>1 DEF ClockNext, ExpireLease, BecomeAvailable, Busy

\* The inductive invariant: the types, and a task for every busy worker,
\* whatever faults are allowed.
THEOREM Typing == Spec => []Typed
<1>1. Typed /\ UNCHANGED vars => Typed'
  BY DEF Typed, TypeOK, Busy, vars
<1>2. Typed /\ [Next]_vars => Typed'
  BY <1>1, WorkerTyped, HandlerTyped, ClockTyped DEF Next
<1> QED
  BY InitTyped, <1>2, PTL DEF Spec

\* Every variable has its type in every reachable state.
THEOREM TypeCorrect == Spec => []TypeOK
<1>1. Typed => TypeOK
  BY DEF Typed
<1> QED
  BY <1>1, Typing, PTL
-----------------------------------------------------------------------------
(***************************************************************************)
(* Approvals: decisions are final, and only approved tools run.            *)
(***************************************************************************)
KeepsDecisions ==
  \A t \in Task, k \in Key : log[t].decision[k] # "none" =>
     log'[t].decision[k] = log[t].decision[k]

\* Which part of the log each event changes.
LEMMA LogEffect ==
  ASSUME NEW l \in Log, NEW k \in Key
  PROVE  /\ Ran(l, k).decision = l.decision
         /\ Ran(l, k).ran = l.ran \cup {k}
         /\ Asked(l, k).decision = l.decision
         /\ Asked(l, k).ran = l.ran
         /\ \A d \in Decision :
              /\ Decided(l, k, d).decision = [l.decision EXCEPT ![k] = d]
              /\ Decided(l, k, d).ran = l.ran
BY DEF Log, Ran, Asked, Decided

\* A pending key has no decision.
LEMMA PendingIsUndecided ==
  ASSUME NEW l \in Log, NEW k \in PendingKeys(l)
  PROVE  l.decision[k] = "none"
BY DEF PendingKeys

\* What a step of the system does to the log: nothing, or one of three events
\* on one task.
LEMMA LogStep ==
  ASSUME Typed, Next
  PROVE  \/ log' = log
         \/ \E t \in Task, k \in Key :
              \/ log' = [log EXCEPT ![t] = Asked(@, k)]
              \/ /\ log' = [log EXCEPT ![t] = Ran(@, k)]
                 /\ log[t].decision[k] = "approved"
              \/ \E d \in Decision :
                   /\ log' = [log EXCEPT ![t] = Decided(@, k, d)]
                   /\ k \in PendingKeys(log[t])
<1>1. ASSUME NEW w \in Worker, NEW k \in Key, RunApprovedTool(w, k)
      PROVE  \E t \in Task : /\ log' = [log EXCEPT ![t] = Ran(@, k)]
                             /\ log[t].decision[k] = "approved"
  BY <1>1, JobTyped DEF RunApprovedTool
<1>2. ASSUME NEW w \in Worker, NEW k \in Key, AskApproval(w, k)
      PROVE  \E t \in Task : log' = [log EXCEPT ![t] = Asked(@, k)]
  BY <1>2, JobTyped DEF AskApproval
<1>3. ASSUME NEW h \in Handler, NEW k \in Key,
             ApproveToolApproval(h, k) \/ RejectToolApproval(h, k)
      PROVE  \E t \in Task, d \in Decision :
               /\ log' = [log EXCEPT ![t] = Decided(@, k, d)]
               /\ k \in PendingKeys(log[t])
  BY <1>3, TxTyped DEF ApproveToolApproval, RejectToolApproval, Locks, Decision
<1>4. ASSUME NEW w \in Worker, WorkerNext(w),
             ~ \E k \in Key : RunApprovedTool(w, k) \/ AskApproval(w, k)
      PROVE  log' = log
  BY <1>4 DEF WorkerNext, Poll, Progress, Claim, PollIdle, BeginExecution,
     BeginDelivery, EndDelivery, HeartbeatStops, ObserveCancel, MarkWaiting,
     ReturnResult, RaiseError, AfterExecutorCancelled, AfterExecutorWaiting,
     AfterExecutorCompleted, Succeed, RecordError, RecordCancelled,
     RecordOutcome, Fail, FinishCancel, Crash
<1>5. ASSUME NEW h \in Handler, HandlerNext(h),
             ~ \E k \in Key : ApproveToolApproval(h, k) \/ RejectToolApproval(h, k)
      PROVE  log' = log
  BY <1>5 DEF HandlerNext, LoadTask, CancelTask, RetryFailedTask, CloseTx
<1>6. ASSUME NEW t \in Task, ClockNext(t)
      PROVE  log' = log
  BY <1>6 DEF ClockNext, ExpireLease, BecomeAvailable
<1> QED
  BY <1>1, <1>2, <1>3, <1>4, <1>5, <1>6 DEF Next

\* Every step keeps the decisions that were logged.
LEMMA DecisionsKept == Typed /\ [Next]_vars => KeepsDecisions
<1> SUFFICES ASSUME Typed, Next PROVE KeepsDecisions
  BY DEF vars, KeepsDecisions
<1>1. \A t \in Task : log[t] \in Log
  BY DEF Typed, TypeOK
<1>2. CASE log' = log
  BY <1>2 DEF KeepsDecisions
<1>3. ASSUME NEW t \in Task, NEW k \in Key,
             \/ log' = [log EXCEPT ![t] = Asked(@, k)]
             \/ log' = [log EXCEPT ![t] = Ran(@, k)]
      PROVE  KeepsDecisions
  <2>1. /\ log'[t] \in {Asked(log[t], k), Ran(log[t], k)}
        /\ \A u \in Task \ {t} : log'[u] = log[u]
    BY <1>3 DEF Typed, TypeOK
  <2>2. log'[t].decision = log[t].decision
    BY <1>1, <2>1, LogEffect
  <2> QED
    BY <2>1, <2>2 DEF KeepsDecisions
<1>4. ASSUME NEW t \in Task, NEW k \in Key, NEW d \in Decision,
             log' = [log EXCEPT ![t] = Decided(@, k, d)],
             k \in PendingKeys(log[t])
      PROVE  KeepsDecisions
  <2>1. log[t].decision[k] = "none"
    BY <1>1, <1>4, PendingIsUndecided
  <2>2. log'[t].decision = [log[t].decision EXCEPT ![k] = d]
    BY <1>1, <1>4, LogEffect DEF Typed, TypeOK
  <2>3. \A u \in Task \ {t} : log'[u] = log[u]
    BY <1>4 DEF Typed, TypeOK
  <2>4. log[t].decision \in [Key -> Decision]
    BY <1>1 DEF Log
  <2> QED
    BY <2>1, <2>2, <2>3, <2>4 DEF KeepsDecisions
<1> QED
  BY <1>2, <1>3, <1>4, LogStep

\* No decision about an approval is ever replaced, however handlers race.
THEOREM DecisionsAreFinal == Spec => DecisionFinal
<1>1. Typed /\ [Next]_vars => [KeepsDecisions]_vars
  BY DecisionsKept
<1> QED
  BY <1>1, Typing, PTL DEF Spec, DecisionFinal, KeepsDecisions

\* A tool that needs approval ran only under an approval that still stands.
THEOREM OnlyApprovedToolsRan == Spec => []ApprovedToolsOnly
<1>1. Init => ApprovedToolsOnly
  BY DEF Init, ApprovedToolsOnly
<1>2. Typed /\ [Next]_vars /\ ApprovedToolsOnly => ApprovedToolsOnly'
  <2> SUFFICES ASSUME Typed, Next, ApprovedToolsOnly PROVE ApprovedToolsOnly'
    BY DEF vars, ApprovedToolsOnly
  <2>1. \A t \in Task : log[t] \in Log
    BY DEF Typed, TypeOK
  <2>2. KeepsDecisions
    BY DecisionsKept
  <2>3. CASE \A t \in Task : log'[t].ran = log[t].ran
    BY <2>1, <2>2, <2>3 DEF ApprovedToolsOnly, KeepsDecisions, Log
  <2>4. ASSUME NEW t \in Task, NEW k \in Key,
               log' = [log EXCEPT ![t] = Ran(@, k)],
               log[t].decision[k] = "approved"
        PROVE  ApprovedToolsOnly'
    <3>1. /\ log'[t] = Ran(log[t], k)
          /\ \A u \in Task \ {t} : log'[u] = log[u]
      BY <2>4 DEF Typed, TypeOK
    <3>2. /\ log'[t].ran = log[t].ran \cup {k}
          /\ log'[t].decision = log[t].decision
      BY <2>1, <3>1, LogEffect
    <3> QED
      BY <2>4, <3>1, <3>2 DEF ApprovedToolsOnly
  <2>5. ASSUME NEW t \in Task, NEW k \in Key,
               \/ log' = [log EXCEPT ![t] = Asked(@, k)]
               \/ \E d \in Decision : log' = [log EXCEPT ![t] = Decided(@, k, d)]
        PROVE  \A u \in Task : log'[u].ran = log[u].ran
    <3>1. /\ \/ log'[t] = Asked(log[t], k)
             \/ \E d \in Decision : log'[t] = Decided(log[t], k, d)
          /\ \A u \in Task \ {t} : log'[u] = log[u]
      BY <2>5 DEF Typed, TypeOK
    <3>2. Asked(log[t], k).ran = log[t].ran
      BY <2>1, LogEffect
    <3>3. \A d \in Decision : Decided(log[t], k, d).ran = log[t].ran
      BY <2>1, LogEffect
    <3> QED
      BY <3>1, <3>2, <3>3
  <2> QED
    BY <2>3, <2>4, <2>5, LogStep
<1> QED
  BY <1>1, <1>2, Typing, PTL DEF Spec
-----------------------------------------------------------------------------
(***************************************************************************)
(* Leases: when handlers act on fresh rows, a pending row is unlocked.     *)
(***************************************************************************)
Unlocked(r) == /\ r.lease = "none" <=> r.owner = NoWorker
               /\ r.status = "pending" => r.owner = NoWorker

AllUnlocked == \A t \in Task : Unlocked(row[t])

\* The writes of polls and runs keep a row unlocked or consistent.
LEMMA UnlockedWrites ==
  ASSUME NEW r \in Row, Unlocked(r)
  PROVE  /\ \A held \in BOOLEAN : Unlocked(ClearLease(r, held))
         /\ \A seen \in Status, new \in Status \ {"pending"} :
               Unlocked(SetStatus(r, seen, new))
         /\ Unlocked(Reclaimed(r))
         /\ \A w \in Worker : Unlocked(Claimed(r, w))
         /\ Unlocked([r EXCEPT !.status = "cancelled"])
         /\ r.lease = "live" => Unlocked([r EXCEPT !.lease = "expired"])
         /\ Unlocked([r EXCEPT !.delayed = FALSE])
<1>1. \A held \in BOOLEAN : Unlocked(ClearLease(r, held))
  BY ClearLeaseType DEF Unlocked
<1>2. \A seen \in Status, new \in Status \ {"pending"} :
         Unlocked(SetStatus(r, seen, new))
  BY SetStatusType DEF Unlocked
<1>3. Unlocked(Reclaimed(r))
  BY ReclaimedType DEF Unlocked
<1>4. \A w \in Worker : Unlocked(Claimed(r, w))
  BY TaskLifecycleAssumption DEF Unlocked, Claimed, Row
<1>5. /\ Unlocked([r EXCEPT !.status = "cancelled"])
      /\ r.lease = "live" => Unlocked([r EXCEPT !.lease = "expired"])
      /\ Unlocked([r EXCEPT !.delayed = FALSE])
  BY DEF Unlocked, Row
<1> QED
  BY <1>1, <1>2, <1>3, <1>4, <1>5

\* What a handler that loaded the row as it is writes.
LEMMA FreshWrites ==
  ASSUME NEW r \in Row, NEW loaded \in Loaded, Unlocked(r),
         loaded.status = r.status, loaded.leased = (r.lease # "none")
  PROVE  /\ r.status # "pending" => Requeued(r, loaded).status = "pending"
         /\ Unlocked(Requeued(r, loaded))
         /\ Retried(r, loaded).status = Requeued(r, loaded).status
         /\ Unlocked(Retried(r, loaded))
         /\ Cancelled(r, loaded).status = "cancelled"
         /\ Unlocked(Cancelled(r, loaded))
         /\ Requeued(r, loaded).owner = NoWorker
         /\ Retried(r, loaded).owner = NoWorker
         /\ Cancelled(r, loaded).owner = NoWorker
         /\ Requeued(r, loaded).attempts = r.attempts
         /\ loaded.attempts = r.attempts => Retried(r, loaded).attempts = 0
         /\ Cancelled(r, loaded).attempts = r.attempts
<1> DEFINE p == SetStatus(r, loaded.status, "pending")
           c == SetStatus(r, loaded.status, "cancelled")
<1>1. loaded.status \in Status /\ loaded.leased \in BOOLEAN
  BY DEF Loaded
<1>2. /\ p \in Row /\ p.status = "pending"
      /\ c \in Row /\ c.status = "cancelled"
      /\ p.owner = r.owner /\ p.lease = r.lease
      /\ c.owner = r.owner /\ c.lease = r.lease
      /\ p.attempts = r.attempts /\ c.attempts = r.attempts
  BY <1>1, SetStatusType DEF Status, SetStatus, Flush, Row
<1> DEFINE q == ClearLease(p, loaded.leased)
           d == ClearLease(c, loaded.leased)
<1>3. /\ q \in Row /\ q.status = "pending"
      /\ q.owner = NoWorker /\ q.lease = "none"
      /\ d \in Row /\ d.status = "cancelled"
      /\ d.owner = NoWorker /\ d.lease = "none"
      /\ q.attempts = r.attempts /\ d.attempts = r.attempts
  BY <1>1, <1>2, ClearLeaseType DEF Unlocked
<1>4. /\ Requeued(r, loaded) \in Row
      /\ Requeued(r, loaded).status = "pending"
      /\ Requeued(r, loaded).owner = NoWorker
      /\ Requeued(r, loaded).lease = "none"
      /\ Requeued(r, loaded).attempts = r.attempts
  BY <1>3 DEF Requeued, Row
<1>5. /\ Retried(r, loaded).status = "pending"
      /\ Retried(r, loaded).owner = NoWorker
      /\ Retried(r, loaded).lease = "none"
      /\ loaded.attempts = r.attempts => Retried(r, loaded).attempts = 0
  BY <1>4 DEF Retried, Flush, Row
<1>6. Cancelled(r, loaded) = d
  BY DEF Cancelled
<1> QED
  BY <1>3, <1>4, <1>5, <1>6 DEF Unlocked

\* A handler that does not act on a stale row sees the row as it is.
LEMMA FreshLoad ==
  ASSUME Typed, "stale_load" \notin Faults, NEW h \in Handler, NEW S,
         Locks(h, S)
  PROVE  /\ tx[h] \in Loaded /\ tx[h].task \in Task
         /\ row[tx[h].task] \in Row
         /\ row[tx[h].task].status \in S
         /\ tx[h].status = row[tx[h].task].status
         /\ tx[h].leased = (row[tx[h].task].lease # "none")
         /\ tx[h].attempts = row[tx[h].task].attempts
BY TxTyped DEF Locks

\* A poll either reclaims a row or leaves it, and then may claim a pending one.
LEMMA PollStep ==
  ASSUME Typed, NEW w \in Worker, Poll(w), NEW u \in Task
  PROVE  /\ Claim(w, u) => /\ row[u].status = "pending"
                           /\ row'[u] = Claimed(row[u], w)
         /\ ~ Claim(w, u) => \/ row'[u] = row[u]
                             \/ u \in Expired /\ row'[u] = Reclaimed(row[u])
<1> USE DEF Typed, TypeOK
<1>1. /\ u \in Expired => AfterReclaim[u] = Reclaimed(row[u])
      /\ u \notin Expired => AfterReclaim[u] = row[u]
  BY DEF AfterReclaim
<1>2. CASE PollIdle(w)
  BY <1>1, <1>2 DEF PollIdle, Claim
<1>3. ASSUME NEW t \in Task, t # u, Claim(w, t)
      PROVE  row'[u] = AfterReclaim[u]
  BY <1>3 DEF Claim, AfterReclaim
<1>4. CASE Claim(w, u)
  <2>1. AfterReclaim[u].status = "pending" /\ ~AfterReclaim[u].delayed
    BY <1>4 DEF Claim, Claimable
  <2>2. u \notin Expired
    BY <1>1, <2>1, ReclaimedType
  <2>3. row'[u] = Claimed(AfterReclaim[u], w)
    BY <1>4 DEF Claim, AfterReclaim
  <2> QED
    BY <1>1, <1>4, <2>1, <2>2, <2>3
<1>5. CASE ~ Claim(w, u) /\ ~ PollIdle(w)
  <2>1. PICK t \in Task : Claim(w, t)
    BY <1>5 DEF Poll
  <2>2. row'[u] = AfterReclaim[u]
    BY <1>3, <1>5, <2>1
  <2> QED
    BY <1>1, <1>5, <2>2
<1> QED
  BY <1>2, <1>4, <1>5

\* The four ways a run may write the row of its task, from r to q.
RunWrite(r, q) ==
  \/ \E held \in BOOLEAN : q = ClearLease(r, held)
  \/ \E seen \in Status, new \in {"succeeded", "failed"} :
        q = SetStatus(r, seen, new)
  \/ \E seen \in Status, held \in BOOLEAN :
        q = ClearLease(SetStatus(r, seen, "waiting_approval"), held)
  \/ q = [r EXCEPT !.status = "cancelled"]

LEMMA RunWriteEffect ==
  ASSUME NEW r \in Row, NEW q, RunWrite(r, q)
  PROVE  /\ q.status \in {"pending", "running"} => q.status = r.status
         /\ q.attempts = r.attempts
         /\ \/ q.owner = r.owner /\ q.lease = r.lease
            \/ q.owner = NoWorker /\ q.lease = "none"
<1> DEFINE Effect(x, y) == /\ y.attempts = x.attempts
                           /\ \/ y.owner = x.owner /\ y.lease = x.lease
                              \/ y.owner = NoWorker /\ y.lease = "none"
<1>1. \A x \in Row, held \in BOOLEAN :
        /\ ClearLease(x, held).status = x.status
        /\ Effect(x, ClearLease(x, held))
  BY ClearLeaseType
<1>2. {"waiting_approval", "succeeded", "failed"} \subseteq Status
  BY DEF Status
<1>3. \A seen, new \in Status :
        /\ SetStatus(r, seen, new) \in Row
        /\ SetStatus(r, seen, new).status \in {r.status, new}
        /\ SetStatus(r, seen, new).attempts = r.attempts
        /\ SetStatus(r, seen, new).owner = r.owner
        /\ SetStatus(r, seen, new).lease = r.lease
  BY SetStatusType
<1>4. CASE \E held \in BOOLEAN : q = ClearLease(r, held)
  BY <1>1, <1>4
<1>5. CASE \E seen \in Status, new \in {"succeeded", "failed"} :
              q = SetStatus(r, seen, new)
  BY <1>2, <1>3, <1>5
<1>6. CASE \E seen \in Status, held \in BOOLEAN :
              q = ClearLease(SetStatus(r, seen, "waiting_approval"), held)
  <2>1. PICK seen \in Status, held \in BOOLEAN :
          q = ClearLease(SetStatus(r, seen, "waiting_approval"), held)
    BY <1>6
  <2> DEFINE s == SetStatus(r, seen, "waiting_approval")
  <2>2. /\ s \in Row /\ s.status \in {r.status, "waiting_approval"}
        /\ s.owner = r.owner /\ s.lease = r.lease
        /\ s.attempts = r.attempts
    BY <1>2, <1>3
  <2>3. q = ClearLease(s, held)
    BY <2>1
  <2> HIDE DEF s
  <2> QED
    BY <1>1, <2>2, <2>3
<1>7. CASE q = [r EXCEPT !.status = "cancelled"]
  BY <1>7 DEF Row
<1> QED
  BY <1>4, <1>5, <1>6, <1>7 DEF RunWrite

\* A run writes no row but its task's.
LEMMA RunWrites ==
  ASSUME Typed, NEW w \in Worker, Progress(w), NEW u \in Task,
         row'[u] # row[u]
  PROVE  session[w].job = u /\ RunWrite(row[u], row'[u])
<1> DEFINE t == session[w].job
<1>1. session[w].pc # "idle"
  BY DEF Progress, BeginExecution, ObserveCancel, AskApproval, MarkWaiting,
     ReturnResult, RaiseError, AfterExecutorCancelled, AfterExecutorWaiting,
     AfterExecutorCompleted, Succeed, RecordError, RecordCancelled,
     RecordOutcome, Fail, FinishCancel
<1>2. /\ t \in Task /\ session[w].seen \in Status
      /\ session[w].held \in BOOLEAN
  BY <1>1, JobTyped
<1>3. \E q : row' = [row EXCEPT ![t] = q] /\ RunWrite(row[t], q)
  BY <1>2 DEF RunWrite, Progress, BeginExecution, ObserveCancel, AskApproval,
     MarkWaiting, ReturnResult, RaiseError, AfterExecutorCancelled,
     AfterExecutorWaiting, AfterExecutorCompleted, Succeed, RecordError,
     RecordCancelled, RecordOutcome, Fail, FinishCancel
<1> QED
  BY <1>2, <1>3 DEF Typed, TypeOK

\* What a handler that does not act on a stale row does to the rows.
LEMMA HandlerWrites ==
  ASSUME Typed, AllUnlocked, "stale_load" \notin Faults,
         NEW h \in Handler, HandlerNext(h), NEW u \in Task, row'[u] # row[u]
  PROVE  /\ Unlocked(row'[u])
         /\ row'[u].owner = NoWorker
         /\ \/ row'[u].status = "cancelled"
            \/ /\ row[u].status \in {"failed", "waiting_approval"}
               /\ row'[u].status = "pending"
         /\ \/ row'[u].attempts = 0
            \/ /\ row'[u].attempts = row[u].attempts
               /\ row[u].status \in Cancellable
<1> USE DEF AllUnlocked
<1>1. CASE CancelTask(h)
  <2>1. /\ u = tx[h].task /\ row'[u] = Cancelled(row[u], tx[h])
        /\ Locks(h, Cancellable)
    BY <1>1 DEF CancelTask, Typed, TypeOK
  <2> QED
    BY <2>1, FreshLoad, FreshWrites
<1>2. CASE RetryFailedTask(h)
  <2>1. /\ u = tx[h].task /\ row'[u] = Retried(row[u], tx[h])
        /\ Locks(h, {"failed"})
    BY <1>2 DEF RetryFailedTask, Typed, TypeOK
  <2> QED
    BY <2>1, FreshLoad, FreshWrites
<1>3. ASSUME NEW k \in Key, ApproveToolApproval(h, k)
      PROVE  /\ Unlocked(row'[u]) /\ row'[u].owner = NoWorker
             /\ row[u].status = "waiting_approval"
             /\ row'[u].status = "pending"
             /\ row'[u].attempts = row[u].attempts
  <2>1. /\ u = tx[h].task /\ row'[u] = Requeued(row[u], tx[h])
        /\ Locks(h, {"waiting_approval"})
    BY <1>3 DEF ApproveToolApproval, Typed, TypeOK
  <2> QED
    BY <2>1, FreshLoad, FreshWrites
<1>4. ASSUME NEW k \in Key, RejectToolApproval(h, k)
      PROVE  /\ Unlocked(row'[u]) /\ row'[u].owner = NoWorker
             /\ row'[u].status = "cancelled"
             /\ row[u].status = "waiting_approval"
             /\ row'[u].attempts = row[u].attempts
  <2>1. /\ u = tx[h].task /\ row'[u] = Cancelled(row[u], tx[h])
        /\ Locks(h, {"waiting_approval"})
    BY <1>4 DEF RejectToolApproval, Typed, TypeOK
  <2> QED
    BY <2>1, FreshLoad, FreshWrites
<1>5. CASE CloseTx(h) \/ \E t \in Task : LoadTask(h, t)
  BY <1>5 DEF CloseTx, LoadTask
<1>6. "waiting_approval" \in Cancellable
  BY DEF Cancellable
<1> QED
  BY <1>1, <1>2, <1>3, <1>4, <1>5, <1>6 DEF HandlerNext

\* Every step keeps all rows consistent.
LEMMA UnlockedStep ==
  ASSUME Typed, AllUnlocked, "stale_load" \notin Faults, Next
  PROVE  AllUnlocked'
<1> SUFFICES ASSUME NEW u \in Task, row'[u] # row[u] PROVE Unlocked(row'[u])
  BY DEF AllUnlocked, Unlocked
<1>1. row[u] \in Row /\ Unlocked(row[u])
  BY DEF Typed, TypeOK, AllUnlocked
<1>2. ASSUME NEW w \in Worker, Poll(w) PROVE Unlocked(row'[u])
  BY <1>1, <1>2, PollStep, UnlockedWrites
<1>3. ASSUME NEW w \in Worker, Progress(w) PROVE Unlocked(row'[u])
  BY <1>1, <1>3, RunWrites, RunWriteEffect DEF Unlocked
<1>4. ASSUME NEW w \in Worker, WorkerNext(w), ~Poll(w), ~Progress(w)
      PROVE  row' = row
  BY <1>4 DEF WorkerNext, BeginDelivery, EndDelivery, HeartbeatStops,
     RunApprovedTool, Crash
<1>5. ASSUME NEW h \in Handler, HandlerNext(h) PROVE Unlocked(row'[u])
  BY <1>5, HandlerWrites
<1>6. ASSUME NEW t \in Task, ClockNext(t) PROVE Unlocked(row'[u])
  <2>1. /\ u = t
        /\ \/ row[u].lease = "live" /\ row'[u] = [row[u] EXCEPT !.lease = "expired"]
           \/ row'[u] = [row[u] EXCEPT !.delayed = FALSE]
    BY <1>6 DEF ClockNext, ExpireLease, BecomeAvailable, Typed, TypeOK
  <2> QED
    BY <1>1, <2>1, UnlockedWrites
<1> QED
  BY <1>2, <1>3, <1>4, <1>5, <1>6 DEF Next

\* All rows are consistent in every reachable state.
LEMMA UnlockedAlways ==
  ASSUME "stale_load" \notin Faults PROVE Spec => []AllUnlocked
<1>1. Init => AllUnlocked
  BY DEF Init, AllUnlocked, Unlocked
<1>2. Typed /\ AllUnlocked /\ [Next]_vars => AllUnlocked'
  BY UnlockedStep DEF vars, AllUnlocked, Unlocked
<1> QED
  BY <1>1, <1>2, Typing, PTL DEF Spec

\* A pending task carries no owner and no lease of a former run, whatever
\* heartbeats and crashes do, as long as handlers act on fresh rows.
THEOREM PendingTasksAreUnlocked ==
  ASSUME "stale_load" \notin Faults PROVE Spec => []PendingIsUnlocked
<1>1. AllUnlocked => PendingIsUnlocked
  BY DEF AllUnlocked, Unlocked, PendingIsUnlocked
<1> QED
  BY <1>1, UnlockedAlways, PTL

NoTheft == \A t \in Task : row'[t].owner # row[t].owner =>
              NoWorker \in {row[t].owner, row'[t].owner}

\* No step changes an owner into another.
LEMMA NoTheftStep ==
  ASSUME Typed, AllUnlocked, "stale_load" \notin Faults, Next
  PROVE  NoTheft
<1> SUFFICES ASSUME NEW u \in Task, row'[u] # row[u],
                    row'[u].owner # row[u].owner
             PROVE  NoWorker \in {row[u].owner, row'[u].owner}
  BY DEF NoTheft
<1>1. row[u] \in Row /\ Unlocked(row[u])
  BY DEF Typed, TypeOK, AllUnlocked
<1>2. ASSUME NEW w \in Worker, Poll(w)
      PROVE  NoWorker \in {row[u].owner, row'[u].owner}
  BY <1>1, <1>2, PollStep, ReclaimedType DEF Unlocked
<1>3. ASSUME NEW w \in Worker, Progress(w)
      PROVE  NoWorker \in {row[u].owner, row'[u].owner}
  BY <1>1, <1>3, RunWrites, RunWriteEffect
<1>4. ASSUME NEW w \in Worker, WorkerNext(w), ~Poll(w), ~Progress(w)
      PROVE  row' = row
  BY <1>4 DEF WorkerNext, BeginDelivery, EndDelivery, HeartbeatStops,
     RunApprovedTool, Crash
<1>5. ASSUME NEW h \in Handler, HandlerNext(h) PROVE row'[u].owner = NoWorker
  BY <1>5, HandlerWrites
<1>6. ASSUME NEW t \in Task, ClockNext(t) PROVE row'[u].owner = row[u].owner
  BY <1>1, <1>6 DEF ClockNext, ExpireLease, BecomeAvailable, Typed, TypeOK, Row
<1> QED
  BY <1>2, <1>3, <1>4, <1>5, <1>6 DEF Next

\* No step hands a task from one owner to another directly.
THEOREM LeasesAreNotStolen ==
  ASSUME "stale_load" \notin Faults PROVE Spec => LeaseNeverStolen
<1>1. Typed /\ AllUnlocked /\ [Next]_vars => [NoTheft]_vars
  BY NoTheftStep
<1> QED
  BY <1>1, Typing, UnlockedAlways, PTL DEF Spec, LeaseNeverStolen, NoTheft
-----------------------------------------------------------------------------
(***************************************************************************)
(* Exclusion.  SingleExecutor is not inductive: a second run starts only   *)
(* from a pending row, so the invariant must say which rows a run can      *)
(* have, and that a live lease under a run is its own and tended.          *)
(***************************************************************************)
ParkedPc == \A w \in Worker : session[w].parked =>
  session[w].pc \in {"returned", "aborting", "cancelling", "finishing"}

RunHasRow ==
  \A w \in Worker, t \in Task : Runs(w, t) =>
    /\ row[t].status \in {"running", "cancelled", "succeeded"}
    /\ row[t].status = "running" =>
         /\ row[t].lease # "expired"
         /\ row[t].lease = "live" => row[t].owner = w

RunIsTended ==
  \A w \in Worker, t \in Task :
    /\ Runs(w, t)
    /\ row[t].status = "running" /\ row[t].lease = "live"
    /\ session[w].pc \in {"executing", "asking"}
    => session[w].heartbeat

Exclusive == ParkedPc /\ RunHasRow /\ RunIsTended /\ SingleExecutor

\* What a step of a run does to its session: it goes on with its task, or
\* ends; it parks only from "asking".
LEMMA RunSession ==
  ASSUME Typed, ParkedPc, NEW w \in Worker, Progress(w)
  PROVE  /\ \A v \in Worker \ {w} : session'[v] = session[v]
         /\ \/ session'[w] = Idle
            \/ /\ session'[w].job = session[w].job
               /\ session[w].parked => session'[w].parked
               /\ session'[w].parked =>
                    session'[w].pc \in {"returned", "aborting", "cancelling",
                                        "finishing"}
               /\ session'[w].pc \in {"executing", "asking"} =>
                    \/ session[w].pc = "executing"
                         /\ session'[w].heartbeat = session[w].heartbeat
                    \/ session'[w].heartbeat
                    \/ row[session[w].job].status = "cancelled"
<1> USE DEF Typed, TypeOK, ParkedPc, Session
<1>1. CASE BeginExecution(w)
  <2>1. /\ session'[w].job = session[w].job
        /\ session'[w].parked = session[w].parked
        /\ ~session[w].parked
        /\ \A v \in Worker \ {w} : session'[v] = session[v]
    BY <1>1 DEF BeginExecution
  <2>2. CASE row[session[w].job].status = "cancelled"
    BY <2>1, <2>2
  <2>3. CASE row[session[w].job].status # "cancelled"
    <3>1. session'[w].heartbeat
      BY <1>1, <2>3 DEF BeginExecution
    <3> QED
      BY <2>1, <3>1
  <2> QED
    BY <2>2, <2>3
<1>2. CASE ObserveCancel(w)
  BY <1>2 DEF ObserveCancel
<1>3. CASE \E k \in Key : AskApproval(w, k)
  BY <1>3 DEF AskApproval
<1>4. CASE MarkWaiting(w)
  BY <1>4 DEF MarkWaiting
<1>5. CASE ReturnResult(w)
  BY <1>5 DEF ReturnResult
<1>6. CASE RaiseError(w)
  BY <1>6 DEF RaiseError
<1>7. CASE AfterExecutorCancelled(w)
  BY <1>7 DEF AfterExecutorCancelled
<1>8. CASE AfterExecutorWaiting(w) \/ Succeed(w) \/ Fail(w) \/ FinishCancel(w)
  BY <1>8 DEF AfterExecutorWaiting, Succeed, Fail, FinishCancel
<1>9. CASE AfterExecutorCompleted(w)
  BY <1>9 DEF AfterExecutorCompleted
<1>10. CASE RecordError(w)
  BY <1>10 DEF RecordError, RecordOutcome
<1>11. CASE RecordCancelled(w)
  BY <1>11 DEF RecordCancelled, RecordOutcome
<1> QED
  BY <1>1, <1>2, <1>3, <1>4, <1>5, <1>6, <1>7, <1>8, <1>9, <1>10, <1>11
     DEF Progress

\* A run that goes on after writing its row leaves the status alone; a parked
\* one never writes a failure or a second wait.
LEMMA RunStatus ==
  ASSUME Typed, ParkedPc, NEW w \in Worker, Progress(w), NEW u \in Task,
         row'[u] # row[u]
  PROVE  /\ Runs(w, u)' => row'[u].status = row[u].status
         /\ session[w].parked =>
              row'[u].status \in {row[u].status, "succeeded", "cancelled"}
<1>1. /\ session[w].job = u /\ row[u] \in Row
      /\ session[w].seen \in Status /\ session[w].held \in BOOLEAN
  BY RunWrites DEF Typed, TypeOK, Session
<1>2. \A held \in BOOLEAN : ClearLease(row[u], held).status = row[u].status
  BY <1>1, ClearLeaseType
<1>3. \A new \in Status :
        SetStatus(row[u], session[w].seen, new).status \in {row[u].status, new}
  BY <1>1, SetStatusType
<1>4. {"succeeded", "failed", "waiting_approval"} \subseteq Status
  BY DEF Status
<1>5. session'[w] = Idle => ~ Runs(w, u)'
  BY TaskLifecycleAssumption DEF Runs, Idle
<1>6. CASE MarkWaiting(w)
  BY <1>6 DEF MarkWaiting, Runs, ParkedPc, Typed, TypeOK, Session
<1>7. CASE AfterExecutorWaiting(w)
  BY <1>1, <1>2, <1>5, <1>7 DEF AfterExecutorWaiting, Typed, TypeOK
<1>8. CASE AfterExecutorCompleted(w)
  BY <1>1, <1>2, <1>8 DEF AfterExecutorCompleted, Typed, TypeOK
<1>9. CASE RecordError(w) \/ RecordCancelled(w)
  BY <1>1, <1>2, <1>9 DEF RecordError, RecordCancelled, RecordOutcome, Typed,
     TypeOK
<1>10. CASE Succeed(w)
  BY <1>1, <1>3, <1>4, <1>5, <1>10 DEF Succeed, Typed, TypeOK
<1>11. CASE Fail(w)
  BY <1>5, <1>11 DEF Fail, ParkedPc, Typed, TypeOK
<1>12. CASE FinishCancel(w)
  BY <1>1, <1>5, <1>12 DEF FinishCancel, Typed, TypeOK, Row
<1> QED
  BY <1>6, <1>7, <1>8, <1>9, <1>10, <1>11, <1>12 DEF Progress, BeginExecution,
     ObserveCancel, AskApproval, ReturnResult, RaiseError,
     AfterExecutorCancelled

\* What a poll does to the sessions.
LEMMA PollSession ==
  ASSUME Typed, NEW w \in Worker, Poll(w), NEW v \in Worker
  PROVE  \/ session'[v] = session[v]
         \/ /\ v = w /\ session'[w].pc = "claimed" /\ ~ session'[w].parked
            /\ Claim(w, session'[w].job)
<1>1. CASE PollIdle(w)
  BY <1>1 DEF PollIdle
<1>2. ASSUME NEW t \in Task, Claim(w, t)
      PROVE  /\ v # w => session'[v] = session[v]
             /\ session'[w].pc = "claimed" /\ ~ session'[w].parked
             /\ session'[w].job = t
  BY <1>2 DEF Claim, Typed, TypeOK, Busy, Session, Idle
<1> QED
  BY <1>1, <1>2 DEF Poll

\* A poll keeps the invariant of exclusive runs.
LEMMA PollExclusive ==
  ASSUME Typed, Exclusive, NEW w \in Worker, Poll(w)
  PROVE  Exclusive'
<1> USE DEF Exclusive
<1>1. \A u \in Task, v \in Worker : Runs(v, u)' =>
        \/ Runs(v, u) /\ session'[v] = session[v] /\ row'[u] = row[u]
        \/ /\ v = w /\ row[u].status = "pending"
           /\ session'[w].pc = "claimed"
           /\ row'[u].status = "running" /\ row'[u].lease = "live"
           /\ row'[u].owner = w
  <2> SUFFICES ASSUME NEW u \in Task, NEW v \in Worker, Runs(v, u)'
               PROVE  \/ /\ Runs(v, u) /\ session'[v] = session[v]
                         /\ row'[u] = row[u]
                      \/ /\ v = w /\ row[u].status = "pending"
                         /\ session'[w].pc = "claimed"
                         /\ row'[u].status = "running"
                         /\ row'[u].lease = "live" /\ row'[u].owner = w
    OBVIOUS
  <2>1. CASE Claim(w, u) /\ v = w
    <3>1. row[u].status = "pending" /\ row'[u] = Claimed(row[u], w)
      BY <2>1, PollStep
    <3>2. session'[w].pc = "claimed"
      BY <2>1 DEF Claim, Typed, TypeOK, Session
    <3> QED
      BY <2>1, <3>1, <3>2 DEF Claimed, Typed, TypeOK, Row
  <2>2. CASE ~(Claim(w, u) /\ v = w)
    <3>1. session'[v] = session[v] /\ Runs(v, u)
      BY <2>2, PollSession DEF Runs
    <3>2. ~ Claim(w, u)
      BY <3>1, PollStep DEF RunHasRow
    <3>3. u \notin Expired
      BY <3>1 DEF RunHasRow, Expired
    <3>4. row'[u] = row[u]
      BY <3>2, <3>3, PollStep
    <3> QED
      BY <3>1, <3>4
  <2> QED
    BY <2>1, <2>2
<1>2. RunHasRow'
  BY <1>1 DEF RunHasRow
<1>3. RunIsTended'
  BY <1>1 DEF RunIsTended
<1>4. SingleExecutor'
  <2>1. \A u \in Task, v \in Worker :
          Runs(v, u) => row[u].status # "pending"
    BY DEF RunHasRow
  <2> QED
    BY <1>1, <2>1 DEF SingleExecutor
<1>5. ParkedPc'
  BY PollSession DEF ParkedPc
<1> QED
  BY <1>2, <1>3, <1>4, <1>5

\* A step of a run keeps the invariant of exclusive runs.
LEMMA ProgressExclusive ==
  ASSUME Typed, Exclusive, NEW w \in Worker, Progress(w)
  PROVE  Exclusive'
<1> USE DEF Exclusive
<1>1. \A u \in Task, v \in Worker : Runs(v, u)' => Runs(v, u)
  BY RunSession, TaskLifecycleAssumption DEF Runs, Idle
<1>2. ASSUME NEW u \in Task, NEW v \in Worker, Runs(v, u)', row'[u] # row[u]
      PROVE  /\ row'[u].status \in {row[u].status, "succeeded", "cancelled"}
             /\ \/ /\ row'[u].owner = row[u].owner
                   /\ row'[u].lease = row[u].lease
                \/ row'[u].owner = NoWorker /\ row'[u].lease = "none"
  <2>1. session[w].job = u /\ RunWrite(row[u], row'[u]) /\ row[u] \in Row
    BY <1>2, RunWrites DEF Typed, TypeOK
  <2>2. Runs(v, u)
    BY <1>1, <1>2
  <2>3. CASE v = w
    BY <1>2, <2>1, <2>3, RunStatus, RunWriteEffect
  <2>4. CASE v # w
    <3>1. session[w].parked
      BY <2>1, <2>2, <2>4 DEF SingleExecutor, Runs
    <3> QED
      BY <1>2, <2>1, <3>1, RunStatus, RunWriteEffect
  <2> QED
    BY <2>3, <2>4
<1>3. RunHasRow'
  <2> SUFFICES ASSUME NEW v \in Worker, NEW u \in Task, Runs(v, u)'
      PROVE  /\ row'[u].status \in {"running", "cancelled", "succeeded"}
             /\ row'[u].status = "running" =>
                  /\ row'[u].lease # "expired"
                  /\ row'[u].lease = "live" => row'[u].owner = v
    BY DEF RunHasRow
  <2> QED
    BY <1>1, <1>2 DEF RunHasRow
<1>4. RunIsTended'
  <2> SUFFICES ASSUME NEW v \in Worker, NEW u \in Task, Runs(v, u)',
                      row'[u].status = "running", row'[u].lease = "live",
                      session'[v].pc \in {"executing", "asking"}
               PROVE  session'[v].heartbeat
    BY DEF RunIsTended
  <2>1. Runs(v, u) /\ row[u].status = "running" /\ row[u].lease = "live"
    BY <1>1, <1>2
  <2>2. CASE v # w
    BY <2>1, <2>2, RunSession DEF RunIsTended
  <2>3. CASE v = w
    <3>1. /\ session[v].job = u
          /\ session[v].pc = "executing" => session[v].heartbeat
      BY <2>1 DEF RunIsTended, Runs
    <3> QED
      BY <2>1, <2>3, <3>1, RunSession DEF Idle
  <2> QED
    BY <2>2, <2>3
<1>5. SingleExecutor'
  BY <1>1 DEF SingleExecutor
<1>6. ParkedPc'
  BY RunSession DEF ParkedPc, Idle
<1> QED
  BY <1>3, <1>4, <1>5, <1>6

\* A delivery, the end of a heartbeat, a tool call and a crash.
LEMMA OtherExclusive ==
  ASSUME Typed, Exclusive, "skipped_renewal" \notin Faults, NEW w \in Worker,
         \/ BeginDelivery(w) \/ EndDelivery(w) \/ HeartbeatStops(w) \/ Crash(w)
         \/ \E k \in Key : RunApprovedTool(w, k)
  PROVE  Exclusive'
<1> USE DEF Exclusive
<1>1. row' = row
  BY DEF BeginDelivery, EndDelivery, HeartbeatStops, Crash, RunApprovedTool
<1>2. /\ \A v \in Worker \ {w} : session'[v] = session[v]
      /\ \/ session'[w] = Idle
         \/ /\ session'[w].pc = session[w].pc
            /\ session'[w].job = session[w].job
            /\ session'[w].parked = session[w].parked
            /\ HeartbeatStops(w) \/ session'[w].heartbeat = session[w].heartbeat
  BY DEF BeginDelivery, EndDelivery, HeartbeatStops, Crash, RunApprovedTool,
     Typed, TypeOK, Session
<1>3. \A u \in Task, v \in Worker : Runs(v, u)' => Runs(v, u)
  BY <1>2, TaskLifecycleAssumption DEF Runs, Idle
<1>4. RunHasRow' /\ SingleExecutor'
  BY <1>1, <1>3 DEF RunHasRow, SingleExecutor
<1>5. RunIsTended'
  <2> SUFFICES ASSUME NEW v \in Worker, NEW u \in Task, Runs(v, u)',
                      row'[u].status = "running", row'[u].lease = "live",
                      session'[v].pc \in {"executing", "asking"}
               PROVE  session'[v].heartbeat
    BY DEF RunIsTended
  <2>1. /\ Runs(v, u) /\ row[u].status = "running" /\ row[u].lease = "live"
        /\ row[u].owner = v /\ session[v].job = u
    BY <1>1, <1>3 DEF RunHasRow, Runs
  <2>2. ~ (v = w /\ HeartbeatStops(w))
    BY <2>1 DEF HeartbeatStops
  <2>3. session'[v].pc = session[v].pc
    BY <1>2 DEF Idle
  <2>4. session[v].heartbeat
    BY <2>1, <2>3 DEF RunIsTended
  <2> QED
    BY <1>2, <2>2, <2>3, <2>4 DEF Idle
<1>6. ParkedPc'
  BY <1>2 DEF ParkedPc, Idle
<1> QED
  BY <1>4, <1>5, <1>6

\* A step of a handler keeps the invariant of exclusive runs.
LEMMA HandlerExclusive ==
  ASSUME Typed, AllUnlocked, Exclusive, "stale_load" \notin Faults,
         NEW h \in Handler, HandlerNext(h)
  PROVE  Exclusive'
<1> USE DEF Exclusive
<1>1. session' = session
  BY DEF HandlerNext, LoadTask, CancelTask, RetryFailedTask,
     ApproveToolApproval, RejectToolApproval, CloseTx
<1>2. \A u \in Task, v \in Worker : Runs(v, u)' = Runs(v, u)
  BY <1>1 DEF Runs
<1>3. \A u \in Task, v \in Worker : Runs(v, u) =>
        row'[u] = row[u] \/ row'[u].status = "cancelled"
  BY HandlerWrites DEF RunHasRow
<1>4. RunHasRow' /\ RunIsTended'
  BY <1>1, <1>2, <1>3 DEF RunHasRow, RunIsTended
<1>5. SingleExecutor' /\ ParkedPc'
  BY <1>1, <1>2 DEF SingleExecutor, ParkedPc
<1> QED
  BY <1>4, <1>5

\* The passing of time keeps the invariant of exclusive runs.
LEMMA ClockExclusive ==
  ASSUME Typed, Exclusive, "late_heartbeat" \notin Faults,
         NEW t \in Task, ClockNext(t)
  PROVE  Exclusive'
<1> USE DEF Exclusive
<1>1. session' = session
  BY DEF ClockNext, ExpireLease, BecomeAvailable
<1>2. \A u \in Task, v \in Worker : Runs(v, u)' = Runs(v, u)
  BY <1>1 DEF Runs
<1>3. \A u \in Task \ {t} : row'[u] = row[u]
  BY DEF ClockNext, ExpireLease, BecomeAvailable, Typed, TypeOK
<1>4. \A v \in Worker : ~ Runs(v, t)
  <2> SUFFICES ASSUME NEW v \in Worker, Runs(v, t) PROVE FALSE
    OBVIOUS
  <2>1. CASE ExpireLease(t)
    <3>1. row[t].owner = v /\ session[v].job = t
      BY <2>1 DEF ExpireLease, RunHasRow, Runs
    <3>2. session[v].heartbeat \/ session[v].pc \notin {"executing", "asking"}
      BY <2>1 DEF ExpireLease, RunIsTended
    <3> QED
      BY <2>1, <3>1, <3>2 DEF ExpireLease, Tends
  <2>2. CASE BecomeAvailable(t)
    BY <2>2 DEF BecomeAvailable, RunHasRow
  <2> QED
    BY <2>1, <2>2 DEF ClockNext
<1>5. \A u \in Task, v \in Worker : Runs(v, u) => row'[u] = row[u]
  BY <1>3, <1>4
<1>6. RunHasRow' /\ RunIsTended'
  BY <1>1, <1>2, <1>5 DEF RunHasRow, RunIsTended
<1>7. SingleExecutor' /\ ParkedPc'
  BY <1>1, <1>2 DEF SingleExecutor, ParkedPc
<1> QED
  BY <1>6, <1>7

\* The invariant of exclusive runs holds in every reachable state.
LEMMA ExclusiveAlways ==
  ASSUME Faults \subseteq {"crash_between_commits"}
  PROVE  Spec => []Exclusive
<1>1. Init => Exclusive
  BY TaskLifecycleAssumption DEF Init, Exclusive, ParkedPc, RunHasRow,
     RunIsTended, SingleExecutor, Runs, Idle
<1>2. Typed /\ AllUnlocked /\ Exclusive /\ [Next]_vars => Exclusive'
  <2>1. Exclusive /\ UNCHANGED vars => Exclusive'
    BY DEF vars, Exclusive, ParkedPc, RunHasRow, RunIsTended, SingleExecutor,
       Runs
  <2>2. ASSUME Typed, Exclusive, NEW w \in Worker, WorkerNext(w)
        PROVE  Exclusive'
    BY <2>2, PollExclusive, ProgressExclusive, OtherExclusive DEF WorkerNext
  <2> QED
    BY <2>1, <2>2, HandlerExclusive, ClockExclusive DEF Next
<1>3. "stale_load" \notin Faults
  OBVIOUS
<1>4. Spec => []AllUnlocked
  BY <1>3, UnlockedAlways
<1> QED
  BY <1>1, <1>2, <1>4, Typing, PTL DEF Spec

\* With heartbeats in time and not skipped, and handlers that act on fresh
\* rows, at most one worker at a time runs a task, wherever workers crash.
THEOREM OneExecutor ==
  ASSUME Faults \subseteq {"crash_between_commits"}
  PROVE  Spec => []SingleExecutor
<1>1. Exclusive => SingleExecutor
  BY DEF Exclusive
<1> QED
  BY <1>1, ExclusiveAlways, PTL
-----------------------------------------------------------------------------
(***************************************************************************)
(* A task that waits can be answered.  The reason is not in the row alone: *)
(* a rejection ends the task for every run it could still have, so that a  *)
(* run asks for a key that is undecided, and nobody decides while it asks. *)
(***************************************************************************)

\* A log whose last request is undecided, or is for a connection: the key of
\* that one may have been decided in an earlier park.
Open(l) == \/ l.newest \in l.asked /\ l.decision[l.newest] = "none"
           \/ l.newest \in ConnectKey

RejectedIsOver ==
  \A t \in Task, k \in Key : log[t].decision[k] = "rejected" =>
    /\ row[t].status \in {"cancelled", "succeeded"}
    /\ \A w \in Worker : ~ Runs(w, t)

AskingIsOpen ==
  \A w \in Worker, t \in Task :
    Runs(w, t) /\ session[w].pc = "asking" => Open(log[t])

WaitingIsOpen ==
  \A t \in Task : row[t].status = "waiting_approval" => Open(log[t])

Answerable == RejectedIsOver /\ AskingIsOpen /\ WaitingIsOpen

\* What keeps a log open: a request for an undecided key or for a connection,
\* and whatever leaves requests and decisions alone.
LEMMA OpenLogs ==
  ASSUME NEW l \in Log, NEW k \in Key
  PROVE  /\ k \in ConnectKey \/ l.decision[k] = "none" => Open(Asked(l, k))
         /\ Open(Ran(l, k)) = Open(l)
<1>1. /\ Asked(l, k).asked = l.asked \cup {k} /\ Asked(l, k).newest = k
      /\ Ran(l, k).asked = l.asked /\ Ran(l, k).newest = l.newest
  BY DEF Asked, Ran, Log
<1>2. /\ Asked(l, k).decision = l.decision
      /\ Ran(l, k).decision = l.decision
  BY LogEffect
<1> QED
  BY <1>1, <1>2 DEF Open, PendingKeys

\* The last request of an open log, unless it is for a connection, is the one a
\* handler decides.
LEMMA OpenPending ==
  ASSUME NEW l \in Log, Open(l), l.newest \notin ConnectKey
  PROVE  /\ l.newest \in Key /\ l.decision[l.newest] = "none"
         /\ PendingKeys(l) = {l.newest}
BY DEF Open, PendingKeys, Log

\* Nobody who writes to a row that runs leaves its log to somebody else: a
\* task changes its log by its one run, or is waiting when it is decided.
LEMMA OpenStep ==
  ASSUME Typed, AllUnlocked, Exclusive, Answerable, Next,
         "stale_load" \notin Faults, NEW t \in Task
  PROVE  \/ log'[t] = log[t]
         \/ \E w \in Worker, k \in Key :
              /\ Runs(w, t) /\ session[w].pc = "executing"
              /\ \/ AskApproval(w, k) /\ log'[t] = Asked(log[t], k)
                 \/ RunApprovedTool(w, k) /\ log'[t] = Ran(log[t], k)
         \/ \E h \in Handler, k \in Key :
              /\ row[t].status = "waiting_approval"
              /\ row'[t].status \in {"pending", "cancelled"}
              /\ UNCHANGED session
              /\ k \in PendingKeys(log[t])
              /\ \/ /\ log'[t] = Decided(log[t], k, "approved")
                    /\ row'[t].status = "pending"
                 \/ /\ log'[t] = Decided(log[t], k, "rejected")
                    /\ row'[t].status = "cancelled"
<1>1. ASSUME NEW w \in Worker, NEW k \in Key,
             AskApproval(w, k) \/ RunApprovedTool(w, k), log'[t] # log[t]
      PROVE  /\ Runs(w, t) /\ session[w].pc = "executing"
             /\ \/ AskApproval(w, k) /\ log'[t] = Asked(log[t], k)
                \/ RunApprovedTool(w, k) /\ log'[t] = Ran(log[t], k)
  <2>1. session[w].pc = "executing" /\ session[w].job \in Task
    BY <1>1, JobTyped DEF AskApproval, RunApprovedTool
  <2>2. ~ session[w].parked
    BY <2>1 DEF Exclusive, ParkedPc
  <2>3. t = session[w].job
    BY <1>1, <2>1 DEF AskApproval, RunApprovedTool, Typed, TypeOK
  <2> QED
    BY <1>1, <2>1, <2>2, <2>3 DEF AskApproval, RunApprovedTool, Runs, Typed, TypeOK
<1>2. ASSUME NEW h \in Handler, NEW k \in Key, log'[t] # log[t],
             ApproveToolApproval(h, k) \/ RejectToolApproval(h, k)
      PROVE  /\ row[t].status = "waiting_approval"
             /\ row'[t].status \in {"pending", "cancelled"}
             /\ UNCHANGED session
             /\ k \in PendingKeys(log[t])
             /\ \/ /\ log'[t] = Decided(log[t], k, "approved")
                   /\ row'[t].status = "pending"
                \/ /\ log'[t] = Decided(log[t], k, "rejected")
                   /\ row'[t].status = "cancelled"
  <2>1. /\ Locks(h, {"waiting_approval"}) /\ t = tx[h].task
        /\ UNCHANGED session
    BY <1>2, TxTyped DEF ApproveToolApproval, RejectToolApproval, Locks, Typed, TypeOK
  <2>2. /\ tx[h] \in Loaded /\ row[t] \in Row /\ Unlocked(row[t])
        /\ row[t].status = "waiting_approval"
        /\ tx[h].status = row[t].status
        /\ tx[h].leased = (row[t].lease # "none")
    BY <2>1, FreshLoad DEF AllUnlocked
  <2>3. /\ Requeued(row[t], tx[h]).status = "pending"
        /\ Cancelled(row[t], tx[h]).status = "cancelled"
    BY <2>2, FreshWrites
  <2>4. CASE ApproveToolApproval(h, k)
    BY <2>1, <2>2, <2>3, <2>4 DEF ApproveToolApproval, Typed, TypeOK
  <2>5. CASE RejectToolApproval(h, k)
    BY <2>1, <2>2, <2>3, <2>5 DEF RejectToolApproval, Typed, TypeOK
  <2> QED
    BY <1>2, <2>4, <2>5
<1>3. ASSUME NEW w \in Worker, WorkerNext(w),
             ~ \E k \in Key : RunApprovedTool(w, k) \/ AskApproval(w, k)
      PROVE  log' = log
  BY <1>3 DEF WorkerNext, Poll, Progress, Claim, PollIdle, BeginExecution,
     BeginDelivery, EndDelivery, HeartbeatStops, ObserveCancel, MarkWaiting,
     ReturnResult, RaiseError, AfterExecutorCancelled, AfterExecutorWaiting,
     AfterExecutorCompleted, Succeed, RecordError, RecordCancelled,
     RecordOutcome, Fail, FinishCancel, Crash
<1>4. ASSUME NEW h \in Handler, HandlerNext(h),
             ~ \E k \in Key : ApproveToolApproval(h, k) \/ RejectToolApproval(h, k)
      PROVE  log' = log
  BY <1>4 DEF HandlerNext, LoadTask, CancelTask, RetryFailedTask, CloseTx
<1>5. ASSUME NEW u \in Task, ClockNext(u)
      PROVE  log' = log
  BY <1>5 DEF ClockNext, ExpireLease, BecomeAvailable
<1> QED
  BY <1>1, <1>2, <1>3, <1>4, <1>5 DEF Next

\* A run asks in a step of AskApproval only.
LEMMA EntersAsking ==
  ASSUME session \in [Worker -> Session], NEW w \in Worker, Progress(w),
         session'[w].pc = "asking"
  PROVE  \E k \in Key : AskApproval(w, k)
<1>1. session[w] \in Session
  OBVIOUS
<1>2. ASSUME session' = [session EXCEPT ![w] = Idle]
      PROVE  FALSE
  <2>1. Idle.pc = "idle" /\ session'[w] = Idle
    BY <1>2 DEF Idle
  <2> QED
    BY <2>1
<1>3. ASSUME NEW pc \in Pc \ {"asking"}, NEW x, x.pc = pc,
             session' = [session EXCEPT ![w] = x]
      PROVE  FALSE
  BY <1>3
<1>4. ASSUME AfterExecutorWaiting(w) \/ Succeed(w) \/ Fail(w) \/ FinishCancel(w)
      PROVE  FALSE
  <2>1. session' = [session EXCEPT ![w] = Idle]
    BY <1>4 DEF AfterExecutorWaiting, Succeed, Fail, FinishCancel
  <2> QED
    BY <1>2, <2>1
<1>5. ASSUME NEW from, NEW to, to \in {"failing", "cancelling"},
             RecordOutcome(w, from, to)
      PROVE  FALSE
  <2> DEFINE x == [session[w] EXCEPT !.pc = to, !.held = FALSE,
                                     !.seen = row[session[w].job].status]
  <2>1. session' = [session EXCEPT ![w] = x]
    BY <1>5 DEF RecordOutcome
  <2>2. x.pc = to
    BY <1>1 DEF Session
  <2> HIDE DEF x
  <2> QED
    BY <1>3, <1>5, <2>1, <2>2 DEF Pc
<1>6. ASSUME ReturnResult(w) \/ AfterExecutorCompleted(w)
      PROVE  FALSE
  <2> DEFINE status == row[session[w].job].status
  <2>1. ASSUME ReturnResult(w)
        PROVE  session' = [session EXCEPT ![w] = [session[w] EXCEPT
                 !.pc = "returned", !.seen = status, !.heartbeat = FALSE]]
    BY <2>1 DEF ReturnResult
  <2>2. ASSUME AfterExecutorCompleted(w)
        PROVE  session' = [session EXCEPT ![w] = [session[w] EXCEPT
                 !.pc = "finishing", !.held = FALSE, !.seen = status]]
    BY <2>2 DEF AfterExecutorCompleted
  <2> HIDE DEF status
  <2> QED
    BY <1>1, <1>6, <2>1, <2>2 DEF Session
<1>7. ASSUME BeginExecution(w)
      PROVE  FALSE
  <2> DEFINE r == row[session[w].job]
             pc == IF r.status = "cancelled" THEN "aborting" ELSE "executing"
             x == [session[w] EXCEPT !.pc = pc, !.seen = r.status,
                     !.held = (r.lease # "none"),
                     !.heartbeat = (r.status # "cancelled")]
  <2>1. session' = [session EXCEPT ![w] = x]
    BY <1>7 DEF BeginExecution
  <2>2. x.pc = pc /\ pc \in Pc \ {"asking"}
    BY <1>1 DEF Session, Pc
  <2> HIDE DEF x, pc
  <2> QED
    BY <1>3, <2>1, <2>2
<1>8. ASSUME MarkWaiting(w)
      PROVE  FALSE
  BY <1>1, <1>8 DEF MarkWaiting, Session
<1>9. ASSUME ObserveCancel(w) \/ AfterExecutorCancelled(w)
      PROVE  FALSE
  <2>1. CASE ObserveCancel(w)
    BY <1>1, <2>1 DEF ObserveCancel, Session
  <2>2. CASE AfterExecutorCancelled(w)
    BY <1>1, <2>2 DEF AfterExecutorCancelled, Session
  <2> QED
    BY <1>9, <2>1, <2>2
<1>10. ASSUME RaiseError(w)
       PROVE  FALSE
  BY <1>1, <1>10 DEF RaiseError, Session
<1>11. ~ RecordError(w) /\ ~ RecordCancelled(w)
  BY <1>5 DEF RecordError, RecordCancelled
<1> QED
  BY <1>4, <1>6, <1>7, <1>8, <1>9, <1>10, <1>11 DEF Progress

\* Where a run that asks, or a run at all, comes from.
LEMMA RunsFrom ==
  ASSUME Typed, Exclusive, Next, NEW w \in Worker, NEW t \in Task, Runs(w, t)'
  PROVE  /\ \/ Runs(w, t)
            \/ row[t].status = "pending" /\ session'[w].pc = "claimed"
         /\ session'[w].pc = "asking" =>
              \/ session[w].pc = "asking"
              \/ \E k \in Key : AskApproval(w, k)
<1>1. ASSUME session'[w] = session[w]
      PROVE  Runs(w, t) /\ session'[w].pc = session[w].pc
  BY <1>1 DEF Runs
<1>2. ASSUME NEW v \in Worker, Poll(v)
      PROVE  \/ session'[w] = session[w]
             \/ row[t].status = "pending" /\ session'[w].pc = "claimed"
  <2>1. CASE session'[w] # session[w]
    <3>1. session'[w].pc = "claimed" /\ Claim(w, t)
      BY <1>2, <2>1, PollSession DEF Runs
    <3>2. Poll(w)
      BY <3>1 DEF Poll
    <3> QED
      BY <3>1, <3>2, PollStep
  <2> QED
    BY <2>1
<1>3. ASSUME NEW v \in Worker, Progress(v)
      PROVE  /\ Runs(w, t)
             /\ session'[w].pc = "asking" =>
                  \/ session[w].pc = "asking"
                  \/ \E k \in Key : AskApproval(w, k)
  <2>1. ParkedPc
    BY DEF Exclusive
  <2>2. Runs(w, t)
    BY <1>3, <2>1, RunSession, TaskLifecycleAssumption DEF Runs, Idle
  <2>3. CASE v # w
    BY <1>3, <2>1, <2>2, <2>3, RunSession
  <2>4. CASE v = w /\ session'[w].pc = "asking"
    <3>1. Progress(w) /\ session \in [Worker -> Session]
      BY <1>3, <2>4 DEF Typed, TypeOK
    <3> QED
      BY <2>2, <2>4, <3>1, EntersAsking
  <2> QED
    BY <2>2, <2>3, <2>4
<1>4. ASSUME NEW v \in Worker,
             \/ BeginDelivery(v) \/ EndDelivery(v) \/ HeartbeatStops(v) \/ Crash(v)
             \/ \E k \in Key : RunApprovedTool(v, k)
      PROVE  Runs(w, t) /\ session'[w].pc = session[w].pc
  <2>1. \/ session'[w] = session[w]
        \/ session'[w] = Idle
        \/ /\ session'[w].pc = session[w].pc /\ session'[w].job = session[w].job
           /\ session'[w].parked = session[w].parked
    BY <1>4 DEF BeginDelivery, EndDelivery, HeartbeatStops, Crash,
       RunApprovedTool, Typed, TypeOK, Session
  <2>2. session'[w] # Idle
    BY TaskLifecycleAssumption DEF Runs, Idle
  <2> QED
    BY <2>1, <2>2 DEF Runs
<1>5. ASSUME \/ \E h \in Handler : HandlerNext(h)
             \/ \E u \in Task : ClockNext(u)
      PROVE  session' = session
  BY <1>5 DEF HandlerNext, LoadTask, CancelTask, RetryFailedTask,
     ApproveToolApproval, RejectToolApproval, CloseTx, ClockNext, ExpireLease,
     BecomeAvailable
<1> QED
  BY <1>1, <1>2, <1>3, <1>4, <1>5 DEF Next, WorkerNext

\* How a task that is over for its runs, and one that waits, came there.
LEMMA StatusStep ==
  ASSUME Typed, AllUnlocked, Exclusive, Next, "stale_load" \notin Faults,
         NEW t \in Task
  PROVE  /\ /\ row[t].status \in {"cancelled", "succeeded"}
            /\ \A w \in Worker : ~ Runs(w, t)
            => row'[t].status \in {"cancelled", "succeeded"}
         /\ row'[t].status = "waiting_approval" =>
              \/ row[t].status = "waiting_approval"
              \/ \E w \in Worker : /\ Runs(w, t) /\ session[w].pc = "asking"
                                    /\ log' = log
<1>1. row[t] \in Row
  BY DEF Typed, TypeOK
<1> SUFFICES ASSUME row'[t] # row[t]
             PROVE  /\ /\ row[t].status \in {"cancelled", "succeeded"}
                       /\ \A w \in Worker : ~ Runs(w, t)
                       => row'[t].status \in {"cancelled", "succeeded"}
                    /\ row'[t].status = "waiting_approval" =>
                         \/ row[t].status = "waiting_approval"
                         \/ \E w \in Worker :
                              /\ Runs(w, t) /\ session[w].pc = "asking"
                              /\ log' = log
  OBVIOUS
<1>2. ASSUME NEW w \in Worker, Poll(w)
      PROVE  /\ row[t].status \in {"pending", "running"}
             /\ row'[t].status # "waiting_approval"
  <2>1. CASE Claim(w, t)
    <3>1. row[t].status = "pending" /\ row'[t] = Claimed(row[t], w)
      BY <1>2, <2>1, PollStep
    <3> QED
      BY <1>1, <3>1 DEF Claimed, Row
  <2>2. CASE ~ Claim(w, t)
    <3>1. t \in Expired /\ row'[t] = Reclaimed(row[t])
      BY <1>2, <2>2, PollStep
    <3> QED
      BY <1>1, <3>1, ReclaimedType DEF Expired
  <2> QED
    BY <2>1, <2>2
<1>3. ASSUME NEW w \in Worker, Progress(w)
      PROVE  /\ session[w].job = t
             /\ ~ Runs(w, t) =>
                  row'[t].status \in {row[t].status, "succeeded", "cancelled"}
             /\ row'[t].status = "waiting_approval" =>
                  \/ row[t].status = "waiting_approval"
                  \/ MarkWaiting(w)
  <2>1. session[w].job = t /\ session[w].seen \in Status /\ session[w].held \in BOOLEAN
    BY <1>3, RunWrites DEF Typed, TypeOK, Session
  <2>2. ParkedPc
    BY DEF Exclusive
  <2>3. ~ Runs(w, t) =>
          row'[t].status \in {row[t].status, "succeeded", "cancelled"}
    BY <1>3, <2>1, <2>2, RunStatus DEF Runs
  <2>4. /\ \A held \in BOOLEAN : ClearLease(row[t], held).status = row[t].status
        /\ \A new \in Status :
             SetStatus(row[t], session[w].seen, new).status \in {row[t].status, new}
        /\ {"succeeded", "failed"} \subseteq Status
    <3>1. \A held \in BOOLEAN : ClearLease(row[t], held).status = row[t].status
      BY <1>1, ClearLeaseType
    <3>2. \A new \in Status :
            SetStatus(row[t], session[w].seen, new).status \in {row[t].status, new}
      BY <1>1, <2>1, SetStatusType
    <3>3. {"succeeded", "failed"} \subseteq Status
      BY DEF Status
    <3> QED
      BY <3>1, <3>2, <3>3
  <2>5. CASE AfterExecutorWaiting(w) \/ AfterExecutorCompleted(w)
             \/ RecordError(w) \/ RecordCancelled(w)
    <3>1. \E held \in BOOLEAN : row'[t] = ClearLease(row[t], held)
      BY <2>1, <2>5 DEF AfterExecutorWaiting, AfterExecutorCompleted,
         RecordError, RecordCancelled, RecordOutcome, Typed, TypeOK
    <3> QED
      BY <2>1, <2>3, <2>4, <3>1
  <2>6. CASE Succeed(w) \/ Fail(w)
    <3>1. \E new \in {"succeeded", "failed"} :
             row'[t] = SetStatus(row[t], session[w].seen, new)
      BY <2>1, <2>6 DEF Succeed, Fail, Typed, TypeOK
    <3>2. row'[t].status # "waiting_approval" \/ row'[t].status = row[t].status
      BY <2>4, <3>1
    <3> QED
      BY <2>1, <2>3, <3>2
  <2>7. CASE FinishCancel(w)
    <3>1. row'[t] = [row[t] EXCEPT !.status = "cancelled"]
      BY <2>1, <2>7 DEF FinishCancel, Typed, TypeOK
    <3> QED
      BY <1>1, <2>1, <2>3, <3>1 DEF Row
  <2>8. CASE MarkWaiting(w)
    BY <2>1, <2>3, <2>8
  <2> QED
    BY <1>3, <2>5, <2>6, <2>7, <2>8 DEF Progress, BeginExecution, ObserveCancel,
       AskApproval, ReturnResult, RaiseError, AfterExecutorCancelled
<1>4. ASSUME NEW w \in Worker, MarkWaiting(w), session[w].job = t
      PROVE  Runs(w, t) /\ session[w].pc = "asking" /\ log' = log
  BY <1>4 DEF MarkWaiting, Runs, Exclusive, ParkedPc
<1>5. ASSUME NEW w \in Worker, WorkerNext(w), ~Poll(w), ~Progress(w)
      PROVE  row' = row
  BY <1>5 DEF WorkerNext, BeginDelivery, EndDelivery, HeartbeatStops,
     RunApprovedTool, Crash
<1>6. ASSUME NEW h \in Handler, HandlerNext(h)
      PROVE  \/ row'[t].status = "cancelled"
             \/ /\ row[t].status \in {"failed", "waiting_approval"}
                /\ row'[t].status = "pending"
  BY <1>6, HandlerWrites
<1>7. ASSUME NEW u \in Task, ClockNext(u)
      PROVE  row'[t].status = row[t].status
  BY <1>1, <1>7 DEF ClockNext, ExpireLease, BecomeAvailable, Typed, TypeOK, Row
<1> QED
  BY <1>2, <1>3, <1>4, <1>5, <1>6, <1>7 DEF Next

\* Every step keeps waiting tasks answerable.
LEMMA AnswerableStep ==
  ASSUME Typed, AllUnlocked, Exclusive, Answerable, Next,
         "stale_load" \notin Faults
  PROVE  Answerable'
<1>1. ASSUME NEW t \in Task
      PROVE  log[t] \in Log
  BY DEF Typed, TypeOK
<1>2. ASSUME NEW t \in Task, NEW k \in Key, log'[t].decision[k] = "rejected"
      PROVE  /\ row'[t].status \in {"cancelled", "succeeded"}
             /\ \A w \in Worker : ~ Runs(w, t)'
  <2>1. CASE log[t].decision[k] = "rejected"
    BY <2>1, RunsFrom, StatusStep DEF Answerable, RejectedIsOver
  <2>2. CASE log[t].decision[k] # "rejected"
    <3>1. /\ row[t].status = "waiting_approval"
          /\ row'[t].status = "cancelled" /\ UNCHANGED session
      <4>1. \A x \in Key : /\ Asked(log[t], x).decision = log[t].decision
                           /\ Ran(log[t], x).decision = log[t].decision
        BY <1>1, LogEffect
      <4>2. \A x \in Key : Decided(log[t], x, "approved").decision
                             = [log[t].decision EXCEPT ![x] = "approved"]
        BY <1>1, LogEffect DEF Decision
      <4>3. log[t].decision \in [Key -> Decision]
        BY <1>1 DEF Log
      <4>4. \A x \in Key : Decided(log[t], x, "approved").decision[k] # "rejected"
        BY <2>2, <4>2, <4>3
      <4> QED
        BY <1>2, <2>2, <4>1, <4>4, OpenStep
    <3>2. \A w \in Worker : ~ Runs(w, t)
      BY <3>1 DEF Exclusive, RunHasRow
    <3> QED
      BY <3>1, <3>2 DEF Runs
  <2> QED
    BY <2>1, <2>2
<1>3. ASSUME NEW w \in Worker, NEW t \in Task, Runs(w, t)',
             session'[w].pc = "asking"
      PROVE  Open(log'[t])
  <2>1. Runs(w, t)
    BY <1>3, RunsFrom
  <2>2. row[t].status # "waiting_approval"
    BY <2>1 DEF Exclusive, RunHasRow
  <2>3. CASE \E k \in Key : AskApproval(w, k)
    <3>1. PICK k \in Key : AskApproval(w, k)
      BY <2>3
    <3>2. log'[t] = Asked(log[t], k)
      BY <2>1, <3>1 DEF AskApproval, Runs, Typed, TypeOK
    <3>3. k \in ConnectKey \/ log[t].decision[k] # "approved"
      BY <2>1, <3>1 DEF AskApproval, Runs
    <3>4. log[t].decision[k] # "rejected"
      BY <2>1 DEF Answerable, RejectedIsOver
    <3>5. log[t].decision[k] \in Decision
      BY <1>1 DEF Log
    <3>6. k \in ConnectKey \/ log[t].decision[k] = "none"
      BY <3>3, <3>4, <3>5 DEF Decision
    <3> QED
      BY <1>1, <3>2, <3>6, OpenLogs
  <2>4. CASE session[w].pc = "asking"
    <3>1. Open(log[t])
      BY <2>1, <2>4 DEF Answerable, AskingIsOpen
    <3>2. \A v \in Worker : Runs(v, t) => v = w
      BY <2>1 DEF Exclusive, SingleExecutor
    <3>3. log'[t] = log[t]
      BY <2>2, <2>4, <3>2, OpenStep
    <3> QED
      BY <3>1, <3>3
  <2> QED
    BY <1>3, <2>3, <2>4, RunsFrom
<1>4. ASSUME NEW t \in Task, row'[t].status = "waiting_approval"
      PROVE  Open(log'[t])
  <2>1. CASE row[t].status = "waiting_approval"
    <3>1. \A w \in Worker : ~ Runs(w, t)
      BY <2>1 DEF Exclusive, RunHasRow
    <3>2. log'[t] = log[t]
      BY <1>4, <3>1, OpenStep
    <3> QED
      BY <2>1, <3>2 DEF Answerable, WaitingIsOpen
  <2>2. CASE row[t].status # "waiting_approval"
    BY <1>4, <2>2, StatusStep DEF Answerable, AskingIsOpen
  <2> QED
    BY <2>1, <2>2
<1>5. RejectedIsOver'
  BY <1>2 DEF RejectedIsOver
<1>6. AskingIsOpen'
  BY <1>3 DEF AskingIsOpen
<1>7. WaitingIsOpen'
  BY <1>4 DEF WaitingIsOpen
<1> QED
  BY <1>5, <1>6, <1>7 DEF Answerable

\* Under the same faults every reachable state keeps waiting tasks answerable.
LEMMA AnswerableAlways ==
  ASSUME Faults \subseteq {"crash_between_commits"}
  PROVE  Spec => []Answerable
<1>1. Init => Answerable
  BY TaskLifecycleAssumption DEF Init, Answerable, RejectedIsOver, AskingIsOpen,
     WaitingIsOpen, Runs, Idle
<1>2. "stale_load" \notin Faults
  OBVIOUS
<1>3. Typed /\ AllUnlocked /\ Exclusive /\ Answerable /\ [Next]_vars
        => Answerable'
  <2>1. Answerable /\ UNCHANGED vars => Answerable'
    BY DEF vars, Answerable, RejectedIsOver, AskingIsOpen, WaitingIsOpen, Runs
  <2> QED
    BY <1>2, <2>1, AnswerableStep
<1>4. Spec => []AllUnlocked
  BY <1>2, UnlockedAlways
<1>5. Spec => []Exclusive
  BY ExclusiveAlways
<1> QED
  BY <1>1, <1>3, <1>4, <1>5, Typing, PTL DEF Spec

\* A task that waits has an undecided request, unless its last one was for a
\* connection: nothing is said of the key of a connect park, which the code
\* never asks anew.
THEOREM WaitingTasksAreOpen ==
  ASSUME Faults \subseteq {"crash_between_commits"}
  PROVE  Spec => []WaitingIsOpen
<1>1. Answerable => WaitingIsOpen
  BY DEF Answerable
<1> QED
  BY <1>1, AnswerableAlways, PTL

\* A task of tools that need approval only, and no connection, can be woken up
\* by a user whenever it waits, wherever workers crash.
THEOREM WaitingTasksAreAnswerable ==
  ASSUME Faults \subseteq {"crash_between_commits"}, ConnectKey = {}
  PROVE  Spec => []WaitingIsAnswerable
<1>1. Typed /\ WaitingIsOpen => WaitingIsAnswerable
  <2> SUFFICES ASSUME Typed, WaitingIsOpen, NEW t \in Task,
                      row[t].status = "waiting_approval"
               PROVE  PendingKeys(log[t]) # {}
    BY DEF WaitingIsAnswerable
  <2>1. log[t] \in Log /\ Open(log[t])
    BY DEF Typed, TypeOK, WaitingIsOpen
  <2> QED
    BY <2>1, OpenPending
<1> QED
  BY <1>1, Typing, WaitingTasksAreOpen, PTL

\* A rejection is the end of its task: it is never queued or run again.  What
\* is left is at most the run that parked it, which may still call it succeeded.
THEOREM RejectionsEndTasks ==
  ASSUME Faults \subseteq {"crash_between_commits"}
  PROVE  Spec => []RejectedIsOver
<1>1. Answerable => RejectedIsOver
  BY DEF Answerable
<1> QED
  BY <1>1, AnswerableAlways, PTL
-----------------------------------------------------------------------------
(***************************************************************************)
(* The approval contract.  A step of the system changes what one task      *)
(* waits for, was told or has ended as, and changes it as the contract     *)
(* does; every other step leaves all of it alone.                          *)
(***************************************************************************)
Unchanged(t) == /\ Question(t)' = Question(t)
                /\ log'[t].decision = log[t].decision
                /\ Settled(t)' = Settled(t)

Asks(t) == /\ ~ Settled(t) /\ ~ Settled(t)'
           /\ Question(t) = NoKey /\ Question(t)' \in Key
           /\ log[t].decision[Question(t)'] = "none"
           /\ log'[t].decision = log[t].decision

IsTold(t, d) ==
  /\ Question(t) # NoKey /\ Question(t)' = NoKey
  /\ log'[t].decision = [log[t].decision EXCEPT ![Question(t)] = d]
  /\ Settled(t)' <=> Settled(t) \/ d = "rejected"

Ends(t) == /\ ~ Settled(t) /\ Settled(t)'
           /\ Question(t)' = NoKey
           /\ log'[t].decision = log[t].decision

\* A task that waits, and is not decided, goes on waiting or is over.
LEMMA WaitingEnds ==
  ASSUME Typed, AllUnlocked, Exclusive, Next, "stale_load" \notin Faults,
         NEW t \in Task, row[t].status = "waiting_approval", log'[t] = log[t]
  PROVE  row'[t].status \in {"waiting_approval", "cancelled", "succeeded"}
<1> SUFFICES ASSUME row'[t] # row[t]
             PROVE  row'[t].status \in {"waiting_approval", "cancelled", "succeeded"}
  OBVIOUS
<1>1. \A w \in Worker : ~ Runs(w, t)
  BY DEF Exclusive, RunHasRow
<1>2. ASSUME NEW w \in Worker, Poll(w)
      PROVE  FALSE
  BY <1>2, PollStep DEF Expired
<1>3. ASSUME NEW w \in Worker, Progress(w)
      PROVE  row'[t].status \in {"waiting_approval", "cancelled", "succeeded"}
  <2>1. session[w].job = t /\ session[w].parked \in BOOLEAN
    BY <1>3, RunWrites DEF Typed, TypeOK, Session
  <2>2. session[w].parked
    BY <1>1, <2>1 DEF Runs
  <2> QED
    BY <1>3, <2>2, RunStatus DEF Exclusive
<1>4. ASSUME NEW w \in Worker, WorkerNext(w), ~ Poll(w), ~ Progress(w)
      PROVE  FALSE
  BY <1>4 DEF WorkerNext, BeginDelivery, EndDelivery, HeartbeatStops,
     RunApprovedTool, Crash
<1>5. ASSUME NEW h \in Handler, HandlerNext(h)
      PROVE  row'[t].status = "cancelled"
  <2>1. row'[t].status = "cancelled" \/ row'[t].status = "pending"
    BY <1>5, HandlerWrites
  <2>2. CASE \E k \in Key : ApproveToolApproval(h, k) \/ RejectToolApproval(h, k)
    <3>1. PICK k \in Key : ApproveToolApproval(h, k) \/ RejectToolApproval(h, k)
      BY <2>2
    <3>2. t = tx[h].task
      BY <3>1, TxTyped DEF ApproveToolApproval, RejectToolApproval, Locks, Typed,
         TypeOK
    <3>3. log[t] \in Log /\ k \in PendingKeys(log[t])
      BY <3>1, <3>2 DEF ApproveToolApproval, RejectToolApproval, Typed, TypeOK
    <3>4. log[t].decision[k] = "none" /\ log[t].decision \in [Key -> Decision]
      BY <3>3, PendingIsUndecided DEF Log
    <3>5. PICK d \in Decision \ {"none"} : log'[t] = Decided(log[t], k, d)
      BY <3>1, <3>2 DEF ApproveToolApproval, RejectToolApproval, Typed, TypeOK,
         Decision
    <3>6. log'[t].decision = [log[t].decision EXCEPT ![k] = d]
      BY <3>3, <3>5, LogEffect
    <3> QED
      BY <3>4, <3>5, <3>6
  <2>3. CASE RetryFailedTask(h)
    <3>1. t = tx[h].task /\ Locks(h, {"failed"})
      BY <2>3, TxTyped DEF RetryFailedTask, Locks, Typed, TypeOK
    <3> QED
      BY <3>1, FreshLoad
  <2>4. CASE CancelTask(h)
    <3>1. t = tx[h].task /\ Locks(h, Cancellable)
      BY <2>4, TxTyped DEF CancelTask, Locks, Typed, TypeOK
    <3>2. tx[h] \in Loaded /\ row[t] \in Row /\ Unlocked(row[t])
          /\ tx[h].status = row[t].status
          /\ tx[h].leased = (row[t].lease # "none")
      BY <3>1, FreshLoad DEF AllUnlocked
    <3>3. row'[t] = Cancelled(row[t], tx[h])
      BY <2>4, <3>1 DEF CancelTask, Typed, TypeOK
    <3> QED
      BY <3>2, <3>3, FreshWrites
  <2> QED
    BY <1>5, <2>2, <2>3, <2>4 DEF HandlerNext, LoadTask, CloseTx
<1>6. ASSUME NEW u \in Task, ClockNext(u)
      PROVE  FALSE
  BY <1>6 DEF ClockNext, ExpireLease, BecomeAvailable, Typed, TypeOK
<1> QED
  BY <1>2, <1>3, <1>4, <1>5, <1>6 DEF Next

\* The runs of a task that is over, or that waits, do not come back.
LEMMA SettledStep ==
  ASSUME Typed, AllUnlocked, Exclusive, Next, "stale_load" \notin Faults,
         NEW t \in Task, Settled(t)
  PROVE  Settled(t)'
BY RunsFrom, StatusStep DEF Settled

\* What a step does to one task is nothing, or one action of the contract.
LEMMA TaskStep ==
  ASSUME Typed, AllUnlocked, Exclusive, Answerable, Next,
         "stale_load" \notin Faults, ConnectKey = {}, NEW t \in Task
  PROVE  \/ Unchanged(t) \/ Asks(t) \/ Ends(t)
         \/ IsTold(t, "approved") \/ IsTold(t, "rejected")
<1> DEFINE waits == row[t].status = "waiting_approval"
<1>1. /\ log[t] \in Log /\ NoKey \notin Key
      /\ Settled(t) \in BOOLEAN /\ Settled(t)' \in BOOLEAN
  BY TaskLifecycleAssumption DEF Typed, TypeOK, Settled
<1>2. waits => ~ Settled(t) /\ \A w \in Worker : ~ Runs(w, t)
  BY DEF Settled, Exclusive, RunHasRow
<1>3. waits => /\ Question(t) = log[t].newest /\ Question(t) \in Key
               /\ log[t].decision[Question(t)] = "none"
               /\ PendingKeys(log[t]) = {Question(t)}
  BY <1>1, OpenPending DEF Answerable, WaitingIsOpen, Question
<1>4. ~ waits => Question(t) = NoKey
  BY DEF Question
<1>5. /\ row'[t].status # "waiting_approval" => Question(t)' = NoKey
      /\ row'[t].status = "waiting_approval" =>
           Question(t)' = log'[t].newest /\ ~ Settled(t)'
  BY DEF Question, Settled
<1>6. ASSUME NEW w \in Worker, NEW k \in Key, Runs(w, t),
             session[w].pc = "executing",
             \/ AskApproval(w, k) /\ log'[t] = Asked(log[t], k)
             \/ RunApprovedTool(w, k) /\ log'[t] = Ran(log[t], k)
      PROVE  Unchanged(t)
  <2>1. row' = row
    BY <1>6 DEF AskApproval, RunApprovedTool
  <2>2. log'[t].decision = log[t].decision
    BY <1>1, <1>6, LogEffect
  <2>3. Runs(w, t)'
    <3> DEFINE status == row[session[w].job].status
    <3>1. session[w] \in Session /\ session \in [Worker -> Session]
      BY DEF Typed, TypeOK
    <3>2. \E pc \in Pc : session' = [session EXCEPT ![w] =
                             [session[w] EXCEPT !.pc = pc, !.seen = status]]
      <4>1. CASE AskApproval(w, k)
        BY <4>1 DEF AskApproval, Pc
      <4>2. CASE RunApprovedTool(w, k)
        <5>1. session' = [session EXCEPT ![w] = [session[w] EXCEPT !.seen = status]]
          BY <4>2 DEF RunApprovedTool
        <5>2. session[w].pc \in Pc /\ [session[w] EXCEPT !.seen = status]
                = [session[w] EXCEPT !.pc = session[w].pc, !.seen = status]
          BY <3>1 DEF Session
        <5> QED
          BY <5>1, <5>2
      <4> QED
        BY <1>6, <4>1, <4>2
    <3> HIDE DEF status
    <3> QED
      BY <1>6, <3>1, <3>2 DEF Runs, Session
  <2>4. ~ waits /\ ~ Settled(t) /\ ~ Settled(t)'
    BY <1>2, <1>6, <2>3 DEF Settled
  <2> QED
    BY <1>1, <1>4, <1>5, <2>1, <2>2, <2>4 DEF Unchanged
<1>7. ASSUME NEW k \in Key, waits, UNCHANGED session,
             k \in PendingKeys(log[t]), NEW d \in {"approved", "rejected"},
             log'[t] = Decided(log[t], k, d),
             row'[t].status = IF d = "approved" THEN "pending" ELSE "cancelled"
      PROVE  IsTold(t, d)
  <2>1. k = Question(t) /\ Question(t) # NoKey
    BY <1>1, <1>3, <1>7
  <2>2. log'[t].decision = [log[t].decision EXCEPT ![k] = d]
    <3>1. d \in Decision
      BY DEF Decision
    <3> QED
      BY <1>1, <1>7, <3>1, LogEffect
  <2>3. Settled(t)' <=> d = "rejected"
    BY <1>2, <1>7 DEF Settled, Runs
  <2>4. Question(t)' = NoKey
    BY <1>5, <1>7
  <2> QED
    BY <1>2, <1>7, <2>1, <2>2, <2>3, <2>4 DEF IsTold
<1>8. CASE log'[t] = log[t] /\ waits
  <2>1. CASE row'[t].status = "waiting_approval"
    <3>1. Question(t)' = Question(t) /\ log'[t].decision = log[t].decision
      BY <1>3, <1>5, <1>8, <2>1
    <3>2. Settled(t)' = Settled(t)
      BY <1>1, <1>2, <1>5, <1>8, <2>1
    <3> QED
      BY <3>1, <3>2 DEF Unchanged
  <2>2. CASE row'[t].status # "waiting_approval"
    <3>1. row'[t].status \in {"cancelled", "succeeded"}
      BY <1>8, <2>2, WaitingEnds
    <3>2. \A w \in Worker : ~ Runs(w, t)'
      BY <1>2, <1>8, RunsFrom
    <3> QED
      BY <1>2, <1>5, <1>8, <2>2, <3>1, <3>2 DEF Ends, Settled
  <2> QED
    BY <2>1, <2>2
<1>9. CASE log'[t] = log[t] /\ ~ waits
  <2>1. CASE row'[t].status = "waiting_approval"
    <3>1. PICK w \in Worker : Runs(w, t) /\ session[w].pc = "asking"
      BY <1>9, <2>1, StatusStep
    <3>2. Open(log[t])
      BY <3>1 DEF Answerable, AskingIsOpen
    <3> QED
      BY <1>1, <1>4, <1>5, <1>9, <2>1, <3>1, <3>2, OpenPending DEF Asks, Settled
  <2>2. CASE row'[t].status # "waiting_approval"
    <3>1. Settled(t) => Settled(t)'
      BY SettledStep
    <3> QED
      BY <1>1, <1>4, <1>5, <1>9, <2>2, <3>1 DEF Unchanged, Ends
  <2> QED
    BY <2>1, <2>2
<1> QED
  BY <1>6, <1>7, <1>8, <1>9, OpenStep

\* A worker that does not poll has a run.
LEMMA WorkerIsBusy ==
  ASSUME Typed, NEW w \in Worker, WorkerNext(w), ~ Poll(w)
  PROVE  session[w].pc # "idle"
<1>1. CASE Progress(w)
  BY <1>1 DEF Progress, BeginExecution, ObserveCancel, AskApproval, MarkWaiting,
     ReturnResult, RaiseError, AfterExecutorCancelled, AfterExecutorWaiting,
     AfterExecutorCompleted, Succeed, RecordError, Fail, RecordCancelled,
     RecordOutcome, FinishCancel
<1>2. CASE BeginDelivery(w) \/ Crash(w) \/ \E k \in Key : RunApprovedTool(w, k)
  BY <1>2 DEF BeginDelivery, Crash, RunApprovedTool
<1>3. CASE EndDelivery(w) \/ HeartbeatStops(w)
  <2>1. session[w] # Idle
    BY <1>3 DEF EndDelivery, HeartbeatStops, Idle
  <2> QED
    BY <2>1 DEF Typed, Busy
<1> QED
  BY <1>1, <1>2, <1>3 DEF WorkerNext

\* A step changes what one task at most waits for, was told or has ended as.
LEMMA OneTaskChanges ==
  ASSUME Typed, AllUnlocked, Exclusive, Next, "stale_load" \notin Faults
  PROVE  \/ \A t \in Task : Unchanged(t)
         \/ \E u \in Task : \A t \in Task \ {u} : Unchanged(t)
<1>1. ASSUME NEW t \in Task, log'[t] = log[t], session' = session,
             row'[t].status = row[t].status
      PROVE  Unchanged(t)
  BY <1>1 DEF Unchanged, Question, Settled, Runs
<1>2. ASSUME NEW t \in Task, log'[t] = log[t], row'[t] = row[t],
             \A w \in Worker : Runs(w, t)' <=> Runs(w, t)
      PROVE  Unchanged(t)
  BY <1>2 DEF Unchanged, Question, Settled
<1>3. ASSUME NEW w \in Worker, Poll(w), NEW t \in Task
      PROVE  Unchanged(t)
  <2>1. log' = log
    BY <1>3 DEF Poll, PollIdle, Claim
  <2>2. CASE row'[t] = row[t]
    <3>1. ASSUME NEW v \in Worker
          PROVE  Runs(v, t)' <=> Runs(v, t)
      <4>1. CASE session'[v] = session[v]
        BY <4>1 DEF Runs
      <4>2. CASE session'[v] # session[v]
        <5>1. /\ v = w /\ session[v].pc = "idle" /\ ~ Runs(v, t)
              /\ Claim(w, session'[v].job)
          <6>1. v = w /\ Claim(w, session'[v].job)
            BY <1>3, <4>2, PollSession
          <6>2. session[v] = Idle
            BY <6>1 DEF Claim, Typed, Busy
          <6> QED
            BY <6>1, <6>2, TaskLifecycleAssumption DEF Runs, Idle
        <5>2. CASE session'[v].job = t
          <6>1. row[t].status = "pending" /\ row'[t] = Claimed(row[t], w)
            BY <1>3, <5>1, <5>2, PollStep
          <6>2. row[t] \in Row
            BY DEF Typed, TypeOK
          <6>3. Claimed(row[t], w).status = "running"
            BY <6>2, ClaimedType
          <6> QED
            BY <2>2, <6>1, <6>3
        <5> QED
          BY <5>1, <5>2 DEF Runs
      <4> QED
        BY <4>1, <4>2
    <3> QED
      BY <1>2, <2>1, <2>2, <3>1
  <2>3. CASE row'[t] # row[t]
    <3>1. row[t] \in Row
      BY DEF Typed, TypeOK
    <3>2. /\ row[t].status \in {"pending", "running"}
          /\ row'[t].status \in {"pending", "running", "failed"}
      <4>1. CASE Claim(w, t)
        <5>1. row[t].status = "pending" /\ row'[t] = Claimed(row[t], w)
          BY <1>3, <4>1, PollStep
        <5> QED
          BY <3>1, <5>1, ClaimedType
      <4>2. CASE ~ Claim(w, t)
        BY <1>3, <2>3, <3>1, <4>2, PollStep, ReclaimedType DEF Expired
      <4> QED
        BY <4>1, <4>2
    <3> QED
      BY <2>1, <3>2 DEF Unchanged, Question, Settled
  <2> QED
    BY <2>2, <2>3
<1>4. ASSUME NEW w \in Worker, WorkerNext(w), ~ Poll(w)
      PROVE  /\ session[w].job \in Task
             /\ \A t \in Task \ {session[w].job} : Unchanged(t)
  <2>1. session[w].pc # "idle"
    BY <1>4, WorkerIsBusy
  <2>2. session[w].job \in Task
    BY <2>1, JobTyped
  <2>3. ASSUME NEW t \in Task, t # session[w].job
        PROVE  row'[t] = row[t] /\ log'[t] = log[t]
    <3>1. CASE Progress(w)
      <4>1. row'[t] = row[t]
        BY <2>3, <3>1, RunWrites
      <4>2. log'[t] = log[t]
        BY <2>2, <2>3, <3>1 DEF Progress, BeginExecution, ObserveCancel,
           AskApproval, MarkWaiting, ReturnResult, RaiseError,
           AfterExecutorCancelled, AfterExecutorWaiting,
           AfterExecutorCompleted, Succeed, RecordError, Fail,
           RecordCancelled, RecordOutcome, FinishCancel, Typed, TypeOK
      <4> QED
        BY <4>1, <4>2
    <3>2. CASE ~ Progress(w)
      BY <1>4, <2>2, <2>3, <3>2 DEF WorkerNext, BeginDelivery, EndDelivery,
         HeartbeatStops, RunApprovedTool, Crash, Typed, TypeOK
    <3> QED
      BY <3>1, <3>2
  <2>4. /\ \A v \in Worker \ {w} : session'[v] = session[v]
        /\ session'[w] = Idle \/ session'[w].job = session[w].job
    <3>1. CASE Progress(w)
      BY <3>1, RunSession DEF Exclusive
    <3>2. CASE ~ Progress(w)
      BY <1>4, <3>2 DEF WorkerNext, BeginDelivery, EndDelivery,
         HeartbeatStops, RunApprovedTool, Crash, Typed, TypeOK, Session
    <3> QED
      BY <3>1, <3>2
  <2>5. ASSUME NEW t \in Task, t # session[w].job, NEW v \in Worker
        PROVE  Runs(v, t)' <=> Runs(v, t)
    BY <2>4, <2>5, TaskLifecycleAssumption DEF Runs, Idle
  <2> QED
    BY <1>2, <2>2, <2>3, <2>5
<1>5. ASSUME NEW h \in Handler, HandlerNext(h)
      PROVE  \/ \A t \in Task : Unchanged(t)
             \/ \E u \in Task : \A t \in Task \ {u} : Unchanged(t)
  <2>1. session' = session
    BY <1>5 DEF HandlerNext, LoadTask, CancelTask, RetryFailedTask,
       ApproveToolApproval, RejectToolApproval, CloseTx
  <2>2. CASE row' = row /\ log' = log
    BY <1>1, <2>1, <2>2
  <2>3. CASE ~ (row' = row /\ log' = log)
    <3>1. tx[h] # NoTx /\ \A t \in Task \ {tx[h].task} :
                             row'[t] = row[t] /\ log'[t] = log[t]
      BY <1>5, <2>3 DEF HandlerNext, LoadTask, CancelTask, RetryFailedTask,
         ApproveToolApproval, RejectToolApproval, CloseTx, Locks, Typed, TypeOK
    <3>2. tx[h].task \in Task
      BY <3>1, TxTyped
    <3> QED
      BY <1>1, <2>1, <3>1, <3>2
  <2> QED
    BY <2>2, <2>3
<1>6. ASSUME NEW u \in Task, ClockNext(u), NEW t \in Task
      PROVE  Unchanged(t)
  <2>1. row'[t].status = row[t].status /\ log' = log /\ session' = session
    BY <1>6 DEF ClockNext, ExpireLease, BecomeAvailable, Typed, TypeOK, Row
  <2> QED
    BY <1>1, <2>1
<1> QED
  BY <1>3, <1>4, <1>5, <1>6 DEF Next

\* The initial state is one of the contract.
LEMMA InitContract == Init => Contract!Init
BY DEF Init, Contract!Init, Question, Settled

\* The same change of task t, in the terms of the contract.
LEMMA ContractAction ==
  ASSUME NEW t \in Task, \A u \in Task \ {t} : Unchanged(u), Typed,
         \/ Asks(t) \/ Ends(t) \/ IsTold(t, "approved") \/ IsTold(t, "rejected")
  PROVE  Contract!Next
<1> DEFINE question == [u \in Task |-> Question(u)]
           verdict == [u \in Task |-> log[u].decision]
           closed == {u \in Task : Settled(u)}
           toldThat(d) == [verdict EXCEPT ![t][question[t]] = d]
<1>1. /\ question' = [question EXCEPT ![t] = Question(t)']
      /\ verdict' = [verdict EXCEPT ![t] = log'[t].decision]
  BY DEF Unchanged
<1>2. closed \subseteq Task /\ closed' \subseteq Task
  OBVIOUS
<1>3. \A u \in Task \ {t} : u \in closed' <=> u \in closed
  BY DEF Unchanged
<1>4. /\ t \in closed <=> Settled(t)
      /\ t \in closed' <=> Settled(t)'
  OBVIOUS
<1>5. question[t] = Question(t) /\ verdict[t] = log[t].decision
  OBVIOUS
<1>6. CASE Asks(t)
  <2>1. verdict' = verdict
    BY <1>1, <1>6 DEF Asks
  <2>2. closed' = closed
    BY <1>2, <1>3, <1>4, <1>6 DEF Asks
  <2>3. Contract!Wait(t, Question(t)')
    BY <1>1, <1>4, <1>5, <1>6, <2>1, <2>2 DEF Contract!Wait, Asks
  <2> QED
    BY <1>6, <2>3 DEF Contract!Next, Asks
<1>7. CASE Ends(t)
  <2>1. verdict' = verdict
    BY <1>1, <1>7 DEF Ends
  <2>2. closed' = closed \cup {t}
    BY <1>2, <1>3, <1>4, <1>7 DEF Ends
  <2>3. Contract!Close(t)
    BY <1>1, <1>4, <1>7, <2>1, <2>2 DEF Contract!Close, Ends
  <2> QED
    BY <2>3 DEF Contract!Next
<1>8. ASSUME NEW d, IsTold(t, d)
      PROVE  /\ question[t] # NoKey /\ question' = [question EXCEPT ![t] = NoKey]
             /\ verdict' = toldThat(d)
  BY <1>1, <1>5, <1>8 DEF IsTold
<1>9. CASE IsTold(t, "approved")
  <2>1. closed' = closed
    BY <1>2, <1>3, <1>4, <1>9 DEF IsTold
  <2>2. Contract!Approve(t)
    BY <1>8, <1>9, <2>1 DEF Contract!Approve
  <2> QED
    BY <2>2 DEF Contract!Next
<1>10. CASE IsTold(t, "rejected")
  <2>1. closed' = closed \cup {t}
    BY <1>2, <1>3, <1>4, <1>10 DEF IsTold
  <2>2. Contract!Reject(t)
    BY <1>8, <1>10, <2>1 DEF Contract!Reject
  <2> QED
    BY <2>2 DEF Contract!Next
<1> QED
  BY <1>6, <1>7, <1>9, <1>10

\* Every step is an action of the contract or changes nothing it speaks of.
LEMMA ContractStep ==
  ASSUME Typed, AllUnlocked, Exclusive, Answerable, [Next]_vars,
         "stale_load" \notin Faults, ConnectKey = {}
  PROVE  [Contract!Next]_(Contract!cvars)
<1>1. ASSUME \A t \in Task : Unchanged(t)
      PROVE  UNCHANGED Contract!cvars
  BY <1>1 DEF Unchanged, Contract!cvars
<1>2. CASE Next
  <2>1. ASSUME NEW t \in Task, \A u \in Task \ {t} : Unchanged(u)
        PROVE  [Contract!Next]_(Contract!cvars)
    <3>1. CASE Unchanged(t)
      BY <1>1, <2>1, <3>1
    <3>2. CASE ~ Unchanged(t)
      BY <1>2, <2>1, <3>2, TaskStep, ContractAction
    <3> QED
      BY <3>1, <3>2
  <2> QED
    BY <1>1, <1>2, <2>1, OneTaskChanges
<1>3. CASE UNCHANGED vars
  BY <1>1, <1>3 DEF vars, Unchanged, Question, Settled, Runs
<1> QED
  BY <1>2, <1>3

\* The rows, the events and the workers implement ApprovalContract, wherever
\* workers crash, for tasks that park for tools only: handlers that act on fresh
\* rows and heartbeats that keep the lease are enough for a waiting task to have
\* one question, and for its answer and its end to be for good.
THEOREM LifecycleImplementsContract ==
  ASSUME Faults \subseteq {"crash_between_commits"}, ConnectKey = {}
  PROVE  Spec => ImplementsApprovalContract
<1>1. "stale_load" \notin Faults
  OBVIOUS
<1>2. Typed /\ AllUnlocked /\ Exclusive /\ Answerable /\ [Next]_vars
        => [Contract!Next]_(Contract!cvars)
  BY <1>1, ContractStep
<1>3. Spec => []AllUnlocked
  BY <1>1, UnlockedAlways
<1>4. Spec => []Exclusive
  BY ExclusiveAlways
<1>5. Spec => []Answerable
  BY AnswerableAlways
<1> QED
  BY <1>2, <1>3, <1>4, <1>5, InitContract, Typing, PTL
     DEF Spec, ImplementsApprovalContract, Contract!Spec
-----------------------------------------------------------------------------
(***************************************************************************)
(* The budget of attempts.  A reclaim spends an attempt, and only of a     *)
(* task that runs; who runs a task keeps others from spending its last.    *)
(***************************************************************************)
HasAttempts(t) == row[t].attempts < MaxAttempts

Budget ==
  \A t \in Task :
    /\ row[t].attempts <= MaxAttempts
    /\ row[t].status \in Cancellable => HasAttempts(t)
    /\ \A w \in Worker : Runs(w, t) => HasAttempts(t)

\* A reclaim spends one attempt, and the last one fails the task.
LEMMA ReclaimedAttempts ==
  ASSUME NEW r \in Row
  PROVE  /\ Reclaimed(r).attempts = r.attempts + 1
         /\ \/ r.attempts + 1 < MaxAttempts
            \/ Reclaimed(r).status = "failed"
<1> DEFINE released == [r EXCEPT !.owner = NoWorker, !.lease = "none",
                                 !.attempts = @ + 1]
<1>1. /\ released.attempts = r.attempts + 1
      /\ r.attempts \in Nat /\ MaxAttempts \in Nat
      /\ DOMAIN released = DOMAIN r
      /\ "status" \in DOMAIN r /\ "delayed" \in DOMAIN r
  BY TaskLifecycleAssumption DEF Row
<1>2. CASE r.attempts + 1 >= MaxAttempts
  <2>1. Reclaimed(r) = [released EXCEPT !.status = "failed"]
    BY <1>2 DEF Reclaimed
  <2> HIDE DEF released
  <2> QED
    BY <1>1, <2>1
<1>3. CASE ~(r.attempts + 1 >= MaxAttempts)
  <2>1. Reclaimed(r) = [released EXCEPT !.status = "pending", !.delayed = TRUE]
    BY <1>3 DEF Reclaimed
  <2> HIDE DEF released
  <2> QED
    BY <1>1, <1>3, <2>1
<1> QED
  BY <1>2, <1>3

\* What a step does to the attempts of a task.
LEMMA AttemptsStep ==
  ASSUME Typed, AllUnlocked, Next, "stale_load" \notin Faults, NEW t \in Task
  PROVE  \/ row'[t].attempts = row[t].attempts
         \/ row'[t].attempts = 0
         \/ t \in Expired /\ row'[t].attempts = row[t].attempts + 1
                         /\ \/ row'[t].attempts < MaxAttempts
                            \/ row'[t].status = "failed"
<1>1. row[t] \in Row
  BY DEF Typed, TypeOK
<1> SUFFICES ASSUME row'[t] # row[t]
             PROVE  \/ row'[t].attempts = row[t].attempts
                    \/ row'[t].attempts = 0
                    \/ /\ t \in Expired
                       /\ row'[t].attempts = row[t].attempts + 1
                       /\ \/ row'[t].attempts < MaxAttempts
                          \/ row'[t].status = "failed"
  OBVIOUS
<1>2. ASSUME NEW w \in Worker, Poll(w)
      PROVE  \/ row'[t].attempts = row[t].attempts
             \/ /\ t \in Expired
                /\ row'[t].attempts = row[t].attempts + 1
                /\ \/ row'[t].attempts < MaxAttempts
                   \/ row'[t].status = "failed"
  <2>1. CASE Claim(w, t)
    <3>1. row'[t] = Claimed(row[t], w)
      BY <1>2, <2>1, PollStep
    <3> QED
      BY <1>1, <3>1 DEF Claimed, Row
  <2>2. CASE ~ Claim(w, t)
    <3>1. t \in Expired /\ row'[t] = Reclaimed(row[t])
      BY <1>2, <2>2, PollStep
    <3>2. /\ Reclaimed(row[t]).attempts = row[t].attempts + 1
          /\ \/ row[t].attempts + 1 < MaxAttempts
             \/ Reclaimed(row[t]).status = "failed"
      BY <1>1, ReclaimedAttempts
    <3> QED
      BY <3>1, <3>2
  <2> QED
    BY <2>1, <2>2
<1>3. ASSUME NEW w \in Worker, Progress(w)
      PROVE  row'[t].attempts = row[t].attempts
  BY <1>1, <1>3, RunWrites, RunWriteEffect
<1>4. ASSUME NEW w \in Worker, WorkerNext(w), ~ Poll(w), ~ Progress(w)
      PROVE  FALSE
  BY <1>4 DEF WorkerNext, BeginDelivery, EndDelivery, HeartbeatStops,
     RunApprovedTool, Crash
<1>5. ASSUME NEW h \in Handler, HandlerNext(h)
      PROVE  row'[t].attempts = row[t].attempts \/ row'[t].attempts = 0
  BY <1>5, HandlerWrites
<1>6. ASSUME NEW u \in Task, ClockNext(u)
      PROVE  row'[t].attempts = row[t].attempts
  BY <1>1, <1>6 DEF ClockNext, ExpireLease, BecomeAvailable, Typed, TypeOK, Row
<1> QED
  BY <1>2, <1>3, <1>4, <1>5, <1>6 DEF Next

\* A task that a step queues, runs or parks was so already, or is retried with
\* all its attempts, or is parked by its run.
LEMMA CancellableStep ==
  ASSUME Typed, AllUnlocked, Exclusive, Next, "stale_load" \notin Faults,
         NEW t \in Task, row'[t].status \in Cancellable
  PROVE  \/ row[t].status \in Cancellable
         \/ row'[t].attempts = 0
         \/ \E w \in Worker : Runs(w, t)
<1> USE DEF Cancellable
<1>1. CASE row'[t].status = "waiting_approval"
  BY <1>1, StatusStep
<1>2. CASE row'[t].status \in {"pending", "running"} /\ row'[t] # row[t]
  <2>1. row[t] \in Row
    BY DEF Typed, TypeOK
  <2>2. ASSUME NEW w \in Worker, Poll(w)
        PROVE  row[t].status \in Cancellable
    BY <1>2, <2>2, PollStep DEF Expired
  <2>3. ASSUME NEW w \in Worker, Progress(w)
        PROVE  row[t].status \in Cancellable
    BY <1>2, <2>1, <2>3, RunWrites, RunWriteEffect
  <2>4. ASSUME NEW w \in Worker, WorkerNext(w), ~ Poll(w), ~ Progress(w)
        PROVE  FALSE
    BY <1>2, <2>4 DEF WorkerNext, BeginDelivery, EndDelivery, HeartbeatStops,
       RunApprovedTool, Crash
  <2>5. ASSUME NEW h \in Handler, HandlerNext(h)
        PROVE  row[t].status \in Cancellable \/ row'[t].attempts = 0
    BY <1>2, <2>5, HandlerWrites
  <2>6. ASSUME NEW u \in Task, ClockNext(u)
        PROVE  row[t].status = row'[t].status
    BY <2>1, <2>6 DEF ClockNext, ExpireLease, BecomeAvailable, Typed, TypeOK, Row
  <2> QED
    BY <1>2, <2>2, <2>3, <2>4, <2>5, <2>6 DEF Next
<1> QED
  BY <1>1, <1>2

\* Every step keeps the budget.
LEMMA BudgetStep ==
  ASSUME Typed, AllUnlocked, Exclusive, Budget, Next, "stale_load" \notin Faults
  PROVE  Budget'
<1> SUFFICES ASSUME NEW t \in Task
             PROVE  /\ row'[t].attempts <= MaxAttempts
                    /\ row'[t].status \in Cancellable => HasAttempts(t)'
                    /\ \A w \in Worker : Runs(w, t)' => HasAttempts(t)'
  BY DEF Budget
<1>1. MaxAttempts \in Nat /\ 0 < MaxAttempts /\ row[t].attempts \in Nat
  BY TaskLifecycleAssumption DEF Typed, TypeOK, Row
<1>2. CASE row'[t].attempts = 0
  BY <1>1, <1>2 DEF HasAttempts
<1>3. CASE row'[t].attempts = row[t].attempts /\ row'[t].attempts # 0
  <2>1. row'[t].attempts <= MaxAttempts
    BY <1>3 DEF Budget
  <2>2. row'[t].status \in Cancellable => HasAttempts(t)'
    BY <1>3, CancellableStep DEF Budget, HasAttempts
  <2>3. ASSUME NEW w \in Worker, Runs(w, t)'
        PROVE  HasAttempts(t)'
    BY <1>3, <2>3, RunsFrom DEF Budget, HasAttempts, Cancellable
  <2> QED
    BY <2>1, <2>2, <2>3
<1>4. CASE /\ t \in Expired /\ row'[t].attempts = row[t].attempts + 1
           /\ row'[t].attempts < MaxAttempts \/ row'[t].status = "failed"
  <2>1. row[t].status = "running" /\ row[t].lease = "expired"
    BY <1>4 DEF Expired
  <2>2. row'[t].attempts <= MaxAttempts
    BY <1>1, <1>4, <2>1 DEF Budget, HasAttempts, Cancellable
  <2>3. row'[t].status \in Cancellable => HasAttempts(t)'
    BY <1>4 DEF HasAttempts, Cancellable
  <2>4. \A w \in Worker : ~ Runs(w, t)'
    BY <2>1, RunsFrom DEF Exclusive, RunHasRow
  <2> QED
    BY <2>2, <2>3, <2>4
<1> QED
  BY <1>2, <1>3, <1>4, AttemptsStep

\* A task has at most its max_attempts, and runs only while it has one left,
\* wherever workers crash: a dead-lettered task stays so until a user retries it.
THEOREM AttemptsAreBounded ==
  ASSUME Faults \subseteq {"crash_between_commits"}
  PROVE  Spec => []AttemptsFit
<1>1. Init => Budget
  BY TaskLifecycleAssumption DEF Init, Budget, HasAttempts, Runs, Idle
<1>2. "stale_load" \notin Faults
  OBVIOUS
<1>3. Typed /\ AllUnlocked /\ Exclusive /\ Budget /\ [Next]_vars => Budget'
  <2>1. Budget /\ UNCHANGED vars => Budget'
    BY DEF vars, Budget, HasAttempts, Runs
  <2> QED
    BY <1>2, <2>1, BudgetStep
<1>4. Spec => []AllUnlocked
  BY <1>2, UnlockedAlways
<1>5. Spec => []Exclusive
  BY ExclusiveAlways
<1>6. Budget => AttemptsFit
  BY DEF Budget, HasAttempts, AttemptsFit
<1> QED
  BY <1>1, <1>3, <1>4, <1>5, <1>6, Typing, PTL DEF Spec
-----------------------------------------------------------------------------
(***************************************************************************)
(* The heartbeat.  Only a claim makes a worker the owner of a live lease,  *)
(* and it starts a run whose heartbeat ends with the run or the lease.     *)
(***************************************************************************)
Owns(w, r) == r.status = "running" /\ r.owner = w /\ r.lease = "live"

\* What a handler writes, however stale the row it loaded.
LEMMA StaleWrites ==
  ASSUME NEW r \in Row, NEW loaded \in Loaded,
         NEW q \in {Requeued(r, loaded), Retried(r, loaded), Cancelled(r, loaded)}
  PROVE  /\ q.status = "running" => r.status = "running"
         /\ \/ q.owner = r.owner /\ q.lease = r.lease
            \/ q.owner = NoWorker
<1> DEFINE p == SetStatus(r, loaded.status, "pending")
           c == SetStatus(r, loaded.status, "cancelled")
           Effect(y) == /\ y.status = "running" => r.status = "running"
                        /\ \/ y.owner = r.owner /\ y.lease = r.lease
                           \/ y.owner = NoWorker
<1>1. loaded.status \in Status /\ loaded.leased \in BOOLEAN
  BY DEF Loaded
<1>2. /\ p \in Row /\ p.status \in {r.status, "pending"}
      /\ c \in Row /\ c.status \in {r.status, "cancelled"}
      /\ p.owner = r.owner /\ p.lease = r.lease
      /\ c.owner = r.owner /\ c.lease = r.lease
  BY <1>1, SetStatusType DEF Status
<1> HIDE DEF p, c
<1>3. /\ ClearLease(p, loaded.leased) \in Row
      /\ Effect(ClearLease(p, loaded.leased))
      /\ Effect(ClearLease(c, loaded.leased))
  BY <1>1, <1>2, ClearLeaseType
<1>4. Requeued(r, loaded) \in Row /\ Effect(Requeued(r, loaded))
  BY <1>3 DEF Requeued, Row, p
<1>5. Effect(Retried(r, loaded))
  BY <1>4 DEF Retried, Row
<1>6. Effect(Cancelled(r, loaded))
  BY <1>3 DEF Cancelled, c
<1> QED
  BY <1>4, <1>5, <1>6

\* A worker becomes the owner of a live lease by a claim.
LEMMA OwnsStep ==
  ASSUME Typed, Next, NEW w \in Worker, NEW t \in Task, Owns(w, row'[t])
  PROVE  Owns(w, row[t]) \/ Claim(w, t)
<1>1. row[t] \in Row /\ NoWorker # w
  BY TaskLifecycleAssumption DEF Typed, TypeOK
<1> SUFFICES ASSUME row'[t] # row[t] PROVE Owns(w, row[t]) \/ Claim(w, t)
  BY DEF Owns
<1>2. ASSUME NEW v \in Worker, Poll(v)
      PROVE  Claim(w, t)
  <2>1. CASE Claim(v, t)
    <3>1. row'[t] = Claimed(row[t], v)
      BY <1>2, <2>1, PollStep
    <3>2. Claimed(row[t], v).owner = v
      BY <1>1 DEF Claimed, Row
    <3> QED
      BY <2>1, <3>1, <3>2 DEF Owns
  <2>2. CASE ~ Claim(v, t)
    <3>1. row'[t] = Reclaimed(row[t])
      BY <1>2, <2>2, PollStep
    <3> QED
      BY <1>1, <3>1, ReclaimedType DEF Owns
  <2> QED
    BY <2>1, <2>2
<1>3. ASSUME NEW v \in Worker, Progress(v)
      PROVE  Owns(w, row[t])
  BY <1>1, <1>3, RunWrites, RunWriteEffect DEF Owns
<1>4. ASSUME NEW v \in Worker, WorkerNext(v), ~ Poll(v), ~ Progress(v)
      PROVE  FALSE
  BY <1>4 DEF WorkerNext, BeginDelivery, EndDelivery, HeartbeatStops,
     RunApprovedTool, Crash
<1>5. ASSUME NEW h \in Handler, HandlerNext(h)
      PROVE  Owns(w, row[t])
  <2>1. tx[h] \in Loaded /\ t = tx[h].task
    BY <1>5, TxTyped DEF HandlerNext, LoadTask, CancelTask, RetryFailedTask,
       ApproveToolApproval, RejectToolApproval, CloseTx, Locks, Typed, TypeOK
  <2>2. row'[t] \in {Requeued(row[t], tx[h]), Retried(row[t], tx[h]),
                     Cancelled(row[t], tx[h])}
    BY <1>5, <2>1 DEF HandlerNext, LoadTask, CancelTask, RetryFailedTask,
       ApproveToolApproval, RejectToolApproval, CloseTx, Typed, TypeOK
  <2> QED
    BY <1>1, <2>1, <2>2, StaleWrites DEF Owns
<1>6. ASSUME NEW u \in Task, ClockNext(u)
      PROVE  Owns(w, row[t])
  <2>1. \/ row'[t] = [row[t] EXCEPT !.lease = "expired"]
        \/ row'[t] = [row[t] EXCEPT !.delayed = FALSE]
    BY <1>6 DEF ClockNext, ExpireLease, BecomeAvailable, Typed, TypeOK
  <2> QED
    BY <1>1, <2>1 DEF Owns, Row
<1> QED
  BY <1>2, <1>3, <1>4, <1>5, <1>6 DEF Next

\* How a worker comes to be inside the executor, and with what heartbeat.
LEMMA ExecutingFrom ==
  ASSUME Typed, NEW w \in Worker, WorkerNext(w), ~ Poll(w),
         session'[w].pc \in {"executing", "asking"}
  PROVE  /\ session'[w].job = session[w].job
         /\ UNCHANGED row
         /\ \/ row[session[w].job].status = "cancelled"
            \/ session'[w].heartbeat
            \/ HeartbeatStops(w)
            \/ /\ session[w].pc \in {"executing", "asking"}
               /\ session'[w].heartbeat = session[w].heartbeat
<1> DEFINE status == row[session[w].job].status
<1>1. session \in [Worker -> Session] /\ session[w] \in Session
  BY DEF Typed, TypeOK
<1>2. CASE BeginExecution(w)
  <2> DEFINE x == [session[w] EXCEPT
                     !.pc = IF status = "cancelled" THEN "aborting"
                                                    ELSE "executing",
                     !.seen = status, !.held = (row[session[w].job].lease # "none"),
                     !.heartbeat = (status # "cancelled")]
  <2>1. session' = [session EXCEPT ![w] = x] /\ UNCHANGED row
    BY <1>2 DEF BeginExecution
  <2>2. x.job = session[w].job /\ x.heartbeat = (status # "cancelled")
    BY <1>1, ZenonT(30) DEF Session
  <2> HIDE DEF x
  <2> QED
    BY <1>1, <2>1, <2>2
<1>3. CASE \E k \in Key : AskApproval(w, k)
  <2>1. /\ session' = [session EXCEPT ![w] =
                         [session[w] EXCEPT !.pc = "asking", !.seen = status]]
        /\ session[w].pc = "executing" /\ UNCHANGED row
    BY <1>3 DEF AskApproval
  <2> HIDE DEF status
  <2> QED
    BY <1>1, <2>1 DEF Session
<1>4. CASE \E k \in Key : RunApprovedTool(w, k)
  <2>1. /\ session' = [session EXCEPT ![w] = [session[w] EXCEPT !.seen = status]]
        /\ UNCHANGED row
    BY <1>4 DEF RunApprovedTool
  <2> HIDE DEF status
  <2> QED
    BY <1>1, <2>1 DEF Session
<1>5. CASE BeginDelivery(w) \/ EndDelivery(w)
  BY <1>1, <1>5 DEF BeginDelivery, EndDelivery, Session
<1>6. CASE HeartbeatStops(w)
  BY <1>1, <1>6 DEF HeartbeatStops, Session
<1>8. ASSUME session' = [session EXCEPT ![w] = Idle]
      PROVE  FALSE
  BY <1>1, <1>8 DEF Idle
<1>9. ASSUME \/ ObserveCancel(w) \/ MarkWaiting(w) \/ RaiseError(w)
             \/ AfterExecutorCancelled(w)
      PROVE  FALSE
  <2>1. CASE ObserveCancel(w)
    BY <1>1, <2>1 DEF ObserveCancel, Session
  <2>2. CASE MarkWaiting(w)
    BY <1>1, <2>2 DEF MarkWaiting, Session
  <2>3. CASE RaiseError(w)
    BY <1>1, <2>3 DEF RaiseError, Session
  <2>4. CASE AfterExecutorCancelled(w)
    BY <1>1, <2>4 DEF AfterExecutorCancelled, Session
  <2> QED
    BY <1>9, <2>1, <2>2, <2>3, <2>4
<1>10. ASSUME \/ ReturnResult(w) \/ AfterExecutorCompleted(w)
              \/ RecordError(w) \/ RecordCancelled(w)
       PROVE  FALSE
  <2>1. ASSUME ReturnResult(w)
        PROVE  session' = [session EXCEPT ![w] = [session[w] EXCEPT
                 !.pc = "returned", !.seen = status, !.heartbeat = FALSE]]
    BY <2>1 DEF ReturnResult
  <2>2. ASSUME AfterExecutorCompleted(w)
        PROVE  session' = [session EXCEPT ![w] = [session[w] EXCEPT
                 !.pc = "finishing", !.held = FALSE, !.seen = status]]
    BY <2>2 DEF AfterExecutorCompleted
  <2>3. ASSUME RecordError(w)
        PROVE  session' = [session EXCEPT ![w] = [session[w] EXCEPT
                 !.pc = "failing", !.held = FALSE, !.seen = status]]
    BY <2>3 DEF RecordError, RecordOutcome
  <2>4. ASSUME RecordCancelled(w)
        PROVE  session' = [session EXCEPT ![w] = [session[w] EXCEPT
                 !.pc = "cancelling", !.held = FALSE, !.seen = status]]
    BY <2>4 DEF RecordCancelled, RecordOutcome
  <2> HIDE DEF status
  <2>5. ASSUME NEW x \in {"returned", "finishing", "failing", "cancelling"},
               NEW held, NEW heartbeat,
               \/ session' = [session EXCEPT ![w] = [session[w] EXCEPT
                    !.pc = x, !.seen = status, !.heartbeat = heartbeat]]
               \/ session' = [session EXCEPT ![w] = [session[w] EXCEPT
                    !.pc = x, !.held = held, !.seen = status]]
        PROVE  FALSE
    BY <1>1, <2>5 DEF Session
  <2> QED
    BY <1>10, <2>1, <2>2, <2>3, <2>4, <2>5
<1>11. CASE \/ AfterExecutorWaiting(w) \/ Succeed(w) \/ Fail(w)
            \/ FinishCancel(w) \/ Crash(w)
  BY <1>8, <1>11 DEF AfterExecutorWaiting, Succeed, Fail, FinishCancel, Crash
<1> QED
  BY <1>2, <1>3, <1>4, <1>5, <1>6, <1>9, <1>10, <1>11 DEF WorkerNext, Progress

\* A worker's step writes its own session.
LEMMA OtherSessions ==
  ASSUME Typed, NEW v \in Worker, WorkerNext(v), ~ Poll(v),
         NEW w \in Worker \ {v}
  PROVE  session'[w] = session[w]
<1>1. session \in [Worker -> Session]
  BY DEF Typed, TypeOK
<1>2. CASE Progress(v)
  <2>1. \E x : session' = [session EXCEPT ![v] = x]
    BY <1>2, Zenon DEF Progress, BeginExecution, ObserveCancel, AskApproval,
       MarkWaiting, ReturnResult, RaiseError, AfterExecutorCancelled,
       AfterExecutorWaiting, AfterExecutorCompleted, Succeed, RecordError,
       Fail, RecordCancelled, RecordOutcome, FinishCancel
  <2> QED
    BY <1>1, <2>1
<1>3. CASE \E k \in Key : RunApprovedTool(v, k)
  <2>1. \E x : session' = [session EXCEPT ![v] = x]
    BY <1>3, Zenon DEF RunApprovedTool
  <2> QED
    BY <1>1, <2>1
<1>4. CASE BeginDelivery(v) \/ EndDelivery(v) \/ HeartbeatStops(v) \/ Crash(v)
  BY <1>1, <1>4 DEF BeginDelivery, EndDelivery, HeartbeatStops, Crash
<1> QED
  BY <1>2, <1>3, <1>4 DEF WorkerNext

\* The checked property, said of the lease that a worker owns.
Beats == \A w \in Worker : /\ session[w].pc \in {"executing", "asking"}
                           /\ Owns(w, row[session[w].job])
                           => session[w].heartbeat

\* A worker inside the executor that beats goes on to while it owns the lease.
LEMMA HeartbeatStep ==
  ASSUME Typed, Beats, Next, "skipped_renewal" \notin Faults
  PROVE  Beats'
<1> SUFFICES ASSUME NEW w \in Worker,
                    session'[w].pc \in {"executing", "asking"},
                    Owns(w, row'[session'[w].job])
             PROVE  session'[w].heartbeat
  BY DEF Beats
<1> DEFINE t == session[w].job
<1>1. session \in [Worker -> Session]
  BY DEF Typed, TypeOK
<1>2. ASSUME session[w].pc \in {"executing", "asking"}, Owns(w, row'[t])
      PROVE  session[w].heartbeat
  <2>1. t \in Task
    BY <1>2, JobTyped
  <2>2. ~ Claim(w, t)
    BY <1>2 DEF Claim
  <2>3. Owns(w, row[t])
    BY <1>2, <2>1, <2>2, OwnsStep
  <2> QED
    BY <1>2, <2>3 DEF Beats
<1>3. CASE session'[w] = session[w]
  BY <1>2, <1>3
<1>4. ASSUME NEW v \in Worker, Poll(v)
      PROVE  session'[w] = session[w]
  BY <1>4, PollSession
<1>5. ASSUME NEW v \in Worker, WorkerNext(v), v # w, ~ Poll(v)
      PROVE  session'[w] = session[w]
  BY <1>1, <1>5, OtherSessions
<1>6. ASSUME WorkerNext(w), ~ Poll(w)
      PROVE  session'[w].heartbeat
  <2>1. session'[w].job = t /\ row' = row /\ Owns(w, row'[t])
    BY <1>6, ExecutingFrom
  <2>2. Owns(w, row[t])
    BY <2>1
  <2>3. ~ HeartbeatStops(w) /\ row[t].status # "cancelled"
    BY <2>2 DEF HeartbeatStops, Owns
  <2> QED
    BY <1>2, <1>6, <2>1, <2>3, ExecutingFrom
<1>7. ASSUME \/ \E h \in Handler : HandlerNext(h)
             \/ \E u \in Task : ClockNext(u)
      PROVE  session'[w] = session[w]
  BY <1>7 DEF HandlerNext, LoadTask, CancelTask, RetryFailedTask,
     ApproveToolApproval, RejectToolApproval, CloseTx, ClockNext, ExpireLease,
     BecomeAvailable
<1> QED
  BY <1>3, <1>4, <1>5, <1>6, <1>7 DEF Next

\* A worker that executes a task under a live lease of its own has a heartbeat
\* that renews it, if no renewal meets its row locked: whatever handlers write,
\* however late a heartbeat is, and wherever workers crash.
THEOREM HeartbeatsGoOn ==
  ASSUME "skipped_renewal" \notin Faults
  PROVE  Spec => []HeartbeatKeepsOwnedLease
<1>1. Init => Beats
  BY DEF Init, Beats, Idle
<1>2. Typed /\ Beats /\ [Next]_vars => Beats'
  <2>1. Beats /\ UNCHANGED vars => Beats'
    BY DEF vars, Beats, Owns
  <2> QED
    BY <2>1, HeartbeatStep
<1>3. Beats => HeartbeatKeepsOwnedLease
  BY DEF Beats, Owns, HeartbeatKeepsOwnedLease
<1> QED
  BY <1>1, <1>2, <1>3, Typing, PTL DEF Spec
=============================================================================
