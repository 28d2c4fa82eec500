-------------------------- MODULE AgentLoopProofs --------------------------
(***************************************************************************)
(* Theorems about AgentLoop, for any calls, tools, completions and limits. *)
(***************************************************************************)
EXTENDS AgentLoop, SequenceTheorems, FiniteSetTheorems,
        WellFoundedInduction, TLAPS

\* Past the budget of a call there is that call.
HeadExists == run.pc \in {"gate", "invoking", "outcome"} => run.batch # <<>>

\* A submission leaves a trace in the ledger before it happens, and whatever
\* a reclaimed task submitted before is among the traces it looks at.
Traced ==
  /\ \A c \in Call : effects[c] > 0 => ledger[c] # "none"
  /\ \A c \in task.before : effects[c] > 0
  /\ task.before # {} => task.attempts > 0

\* The gate is armed by whatever own calls have brought the model so far.
GateFollows ==
  run.pc # "idle"
    => (task.observed \/ run.read \cap Untrusted # {} => run.armed)

\* What held when the tool was invoked still holds when it is repaired.
InvokedRightly ==
  run.pc = "invoking"
    => LET c == Head(run.batch)
       IN /\ ledger[c] # "none"
          /\ c \in Write => c \notin task.before
          /\ c \in Outward /\ run.armed => c \in approved

\* A task that waits was parked by a call.
Parked == task.status = "waiting" => task.asked \in Call

LoopInv ==
  TypeOK /\ HeadExists /\ Traced /\ GateFollows /\ InvokedRightly /\ Parked

LEMMA HeadIsCall ==
  ASSUME LoopInv, run.batch # <<>>
  PROVE  /\ Head(run.batch) \in Call
         /\ Tail(run.batch) \in Seq(Call)
  BY DEF LoopInv, TypeOK, Run

LEMMA FreshTyped ==
  ASSUME NEW pc \in {"idle", "turn"}, NEW armed \in BOOLEAN
  PROVE  /\ Fresh(pc, armed) \in Run
         /\ Fresh(pc, armed).pc = pc
         /\ Fresh(pc, armed).read = {}
         /\ Fresh(pc, armed).armed = armed
  BY DEF Fresh, Run, Outcome

\* A counter of calls counts one more.
LEMMA CountsUp ==
  ASSUME NEW f \in [Call -> Nat], NEW c \in Call
  PROVE  /\ Counted(f, c) \in [Call -> Nat]
         /\ \A x \in Call : Counted(f, c)[x] = IF x = c THEN f[c] + 1 ELSE f[x]
  BY DEF Counted

\* What is left of a run when it is done with a call.
LEMMA NextCallIsRun ==
  ASSUME NEW r \in Run, Tail(r.batch) \in Seq(Call)
  PROVE  LET s == NextCall(r) IN
         /\ s \in Run /\ s.pc = "calls" /\ s.turn = r.turn
         /\ s.batch = Tail(r.batch)
         /\ s.tried = r.tried /\ s.invoked = r.invoked
         /\ s.read = r.read /\ s.replayed = r.replayed
         /\ s.made = r.made /\ s.armed = r.armed
  BY DEF NextCall, Run, Outcome

\* A call is passed over with what the ledger says of it.
LEMMA PassesOver ==
  ASSUME LoopInv, ReplayCompleted \/ SurfaceUnknown
  PROVE  /\ run.batch # <<>>
         /\ run' \in Run /\ run'.pc = "calls" /\ run'.turn = run.turn
         /\ run'.batch = Tail(run.batch)
         /\ run'.tried = run.tried /\ run'.invoked = run.invoked
         /\ run'.read = run.read /\ run'.armed = run.armed
<1>1. run \in Run /\ run.batch # <<>>
  BY DEF LoopInv, TypeOK, HeadExists, ReplayCompleted, SurfaceUnknown
<1> DEFINE next == NextCall(run)
<1>2. /\ next \in Run /\ next.pc = "calls" /\ next.turn = run.turn
      /\ next.batch = Tail(run.batch)
      /\ next.tried = run.tried /\ next.invoked = run.invoked
      /\ next.read = run.read /\ next.replayed = run.replayed
      /\ next.made = run.made /\ next.armed = run.armed
  BY <1>1, HeadIsCall, NextCallIsRun
<1>3. next.made \in BOOLEAN /\ next.replayed \in SUBSET Call
  BY <1>2 DEF Run
<1>4. CASE SurfaceUnknown
  BY <1>1, <1>2, <1>4 DEF SurfaceUnknown
<1>5. CASE ReplayCompleted
  <2> DEFINE made == next.made \/ ledger[Head(run.batch)] = "artifact"
             given == next.replayed \cup {Head(run.batch)}
  <2>1. made \in BOOLEAN /\ given \in SUBSET Call
    BY <1>1, <1>3, HeadIsCall
  <2>2. run' = [next EXCEPT !.made = made, !.replayed = given]
    BY <1>5 DEF ReplayCompleted
  <2>3. /\ next \in Run /\ next.pc = "calls" /\ next.turn = run.turn
        /\ next.batch = Tail(run.batch)
        /\ next.tried = run.tried /\ next.invoked = run.invoked
        /\ next.read = run.read /\ next.armed = run.armed
    BY <1>2
  <2> HIDE DEF next, made, given
  <2>4. /\ run' \in Run /\ run'.pc = next.pc /\ run'.turn = next.turn
        /\ run'.batch = next.batch
        /\ run'.tried = next.tried /\ run'.invoked = next.invoked
        /\ run'.read = next.read /\ run'.armed = next.armed
    BY <2>1, <2>2, <2>3 DEF Run
  <2> QED
    BY <1>1, <2>3, <2>4
<1> QED
  BY <1>4, <1>5

LEMMA InitLoop == Init => LoopInv
<1> SUFFICES ASSUME Init
             PROVE  LoopInv
  OBVIOUS
<1>1. run \in Run /\ run.pc = "idle"
  <2>1. FALSE \in BOOLEAN /\ "idle" \in {"idle", "turn"}
    OBVIOUS
  <2> QED
    BY <2>1, FreshTyped DEF Init
<1>2. task \in Task /\ task.before = {} /\ task.status = "queued"
  <2>1. PICK o \in BOOLEAN : 
          task = [status |-> "queued", attempts |-> 0, observed |-> o,
                  asked |-> NoCall, connecting |-> FALSE, resumes |-> 0,
                  before |-> {}, done |-> {}]
    BY DEF Init
  <2> QED
    BY <2>1 DEF Task
<1>3. /\ ledger \in [Call -> Recorded] /\ approved \in SUBSET Call
      /\ effects \in [Call -> Nat] /\ \A c \in Call : effects[c] = 0
  BY DEF Init, Recorded
<1> QED
  BY <1>1, <1>2, <1>3 DEF LoopInv, TypeOK, HeadExists, Traced, GateFollows,
     InvokedRightly, Parked

-----------------------------------------------------------------------------
\* A run that is over leaves rows behind.
LEMMA RestKeepsLoop ==
  ASSUME LoopInv, run' = Fresh("idle", FALSE), task' \in Task,
         task'.before = task.before, task'.attempts = task.attempts,
         task'.observed = task.observed, Parked',
         UNCHANGED <<ledger, approved, effects>>
  PROVE  LoopInv'
<1>1. run' \in Run /\ run'.pc = "idle"
  BY FreshTyped
<1> QED
  BY <1>1 DEF LoopInv, TypeOK, HeadExists, Traced, GateFollows, InvokedRightly, Parked

LEMMA EndKeepsLoop ==
  ASSUME LoopInv, NEW status \in {"succeeded", "failed", "cancelled"},
         EndRun(status), UNCHANGED <<ledger, approved, effects>>
  PROVE  LoopInv'
<1>1. /\ task' \in Task /\ task'.before = task.before
      /\ task'.attempts = task.attempts /\ task'.observed = task.observed
      /\ Parked'
  BY DEF EndRun, LoopInv, TypeOK, Task, Parked, Cancelled
<1> QED
  BY <1>1, RestKeepsLoop DEF EndRun

LEMMA ParkKeepsLoop ==
  ASSUME LoopInv, NEW c \in Call, NEW connecting \in BOOLEAN,
         ParkRun(c, connecting), UNCHANGED <<ledger, approved, effects>>
  PROVE  LoopInv'
<1>1. /\ task' \in Task /\ task'.before = task.before
      /\ task'.attempts = task.attempts /\ task'.observed = task.observed
      /\ Parked'
  BY DEF ParkRun, LoopInv, TypeOK, Task, Parked
<1> QED
  BY <1>1, RestKeepsLoop DEF ParkRun

-----------------------------------------------------------------------------
\* A run goes on without invoking a tool.
LEMMA GoesOnKeepsLoop ==
  ASSUME LoopInv, run.pc # "idle", run' \in Run,
         run'.pc \in {"turn", "calls", "gate"},
         run'.pc = "gate" => run'.batch # <<>>,
         run'.read = run.read, run'.armed = run.armed,
         UNCHANGED <<task, ledger, approved, effects>>
  PROVE  LoopInv'
  BY DEF LoopInv, TypeOK, HeadExists, Traced, GateFollows, InvokedRightly,
     Parked

LEMMA TurnsKeepLoop ==
  ASSUME LoopInv,
         \/ \E b \in Batches : TurnWithCalls(b)
         \/ TurnEmpty \/ TurnWithText \/ TurnFails \/ TurnsExhausted
         \/ ObserveCancel \/ EndBatch
  PROVE  LoopInv'
<1> DEFINE turn == run.turn + 1
           nudges == run.nudges + 1
<1>1. run \in Run /\ turn \in Nat /\ nudges \in Nat
  <2>1. run \in Run /\ run.turn \in Nat /\ run.nudges \in Nat
    BY DEF LoopInv, TypeOK, Run
  <2> QED
    BY <2>1
<1>2. ASSUME NEW b \in Batches, TurnWithCalls(b)
      PROVE  LoopInv'
  <2>1. b \in Seq(Call)
    BY AgentLoopAssumption
  <2>2. /\ run' \in Run /\ run.pc # "idle" /\ run'.pc = "calls"
        /\ run'.read = run.read /\ run'.armed = run.armed
    <3>1. /\ run' = [run EXCEPT !.turn = turn, !.pc = "calls",
                                 !.batch = b, !.made = FALSE]
          /\ run.pc = "turn"
      BY <1>2 DEF TurnWithCalls, Turns
    <3> HIDE DEF turn, nudges
    <3> QED
      BY <1>1, <2>1, <3>1 DEF Run
  <2> QED
    BY <1>2, <2>2, GoesOnKeepsLoop DEF TurnWithCalls
<1>3. CASE TurnEmpty
  <2>1. /\ run' \in Run /\ run.pc # "idle" /\ run'.pc = "turn"
        /\ run'.read = run.read /\ run'.armed = run.armed
    <3>1. run' = [run EXCEPT !.turn = turn] /\ run.pc = "turn"
      BY <1>3 DEF TurnEmpty, Turns
    <3> HIDE DEF turn, nudges
    <3> QED
      BY <1>1, <3>1 DEF Run
  <2> QED
    BY <1>3, <2>1, GoesOnKeepsLoop DEF TurnEmpty
<1>4. CASE TurnWithText
  <2>1. CASE UNCHANGED task /\ run' = [run EXCEPT !.turn = turn, !.nudges = nudges]
    <3>1. /\ run' \in Run /\ run.pc # "idle" /\ run'.pc = "turn"
          /\ run'.read = run.read /\ run'.armed = run.armed
      <4>1. run.pc = "turn"
        BY <1>4 DEF TurnWithText, Turns
      <4> HIDE DEF turn, nudges
      <4> QED
        BY <1>1, <2>1, <4>1 DEF Run
    <3> QED
      BY <1>4, <2>1, <3>1, GoesOnKeepsLoop DEF TurnWithText
  <2>2. CASE EndRun("succeeded")
    BY <1>4, <2>2, EndKeepsLoop DEF TurnWithText
  <2> QED
    BY <1>4, <2>1, <2>2 DEF TurnWithText
<1>5. CASE TurnFails
  BY <1>5, EndKeepsLoop DEF TurnFails
<1>6. CASE TurnsExhausted
  BY <1>6, EndKeepsLoop DEF TurnsExhausted
<1>7. CASE ObserveCancel
  BY <1>7, EndKeepsLoop DEF ObserveCancel
<1>8. CASE EndBatch
  <2>1. CASE UNCHANGED task /\ run' = [run EXCEPT !.pc = "turn"]
    <3>1. /\ run' \in Run /\ run.pc # "idle" /\ run'.pc = "turn"
          /\ run'.read = run.read /\ run'.armed = run.armed
      BY <1>1, <1>8, <2>1 DEF EndBatch, Run
    <3> QED
      BY <1>8, <2>1, <3>1, GoesOnKeepsLoop DEF EndBatch
  <2>2. CASE EndRun("succeeded")
    BY <1>8, <2>2, EndKeepsLoop DEF EndBatch
  <2> QED
    BY <1>8, <2>1, <2>2 DEF EndBatch
<1> QED
  BY <1>2, <1>3, <1>4, <1>5, <1>6, <1>7, <1>8

LEMMA GateKeepsLoop ==
  ASSUME LoopInv,
         BeforeTool \/ AskApproval \/ ReplayCompleted \/ SurfaceUnknown
  PROVE  LoopInv'
<1>1. run \in Run
  BY DEF LoopInv, TypeOK
<1>2. CASE BeforeTool
  <2> DEFINE tried == Counted(run.tried, Head(run.batch))
  <2>1. CASE UNCHANGED task /\ run' = [run EXCEPT !.tried = tried, !.pc = "gate"]
    <3>1. tried \in [Call -> Nat]
      <4>1. Head(run.batch) \in Call
        BY <1>2, HeadIsCall DEF BeforeTool
      <4> QED
        BY <1>1, <4>1, CountsUp DEF Run
    <3> HIDE DEF tried
    <3>2. /\ run' \in Run /\ run'.pc = "gate" /\ run'.batch = run.batch
          /\ run'.read = run.read /\ run'.armed = run.armed
      BY <1>1, <2>1, <3>1 DEF Run
    <3> QED
      BY <1>2, <2>1, <3>2, GoesOnKeepsLoop DEF BeforeTool
  <2>2. CASE \E s \in {"succeeded", "failed"} : EndRun(s)
    BY <1>2, <2>2, EndKeepsLoop DEF BeforeTool
  <2> QED
    BY <1>2, <2>1, <2>2 DEF BeforeTool
<1>3. CASE AskApproval
  <2>1. Head(run.batch) \in Call
    BY <1>3, HeadIsCall DEF AskApproval, LoopInv, HeadExists
  <2> QED
    BY <1>3, <2>1, ParkKeepsLoop DEF AskApproval
<1>4. CASE ReplayCompleted \/ SurfaceUnknown
  <2>1. run.pc = "gate" /\ UNCHANGED <<task, ledger, approved, effects>>
    BY <1>4 DEF ReplayCompleted, SurfaceUnknown
  <2> QED
    BY <1>4, <2>1, PassesOver, GoesOnKeepsLoop
<1> QED
  BY <1>2, <1>3, <1>4

-----------------------------------------------------------------------------
\* The run is in a tool or past it.
LEMMA ToolKeepsLoop ==
  ASSUME LoopInv, run.pc \in {"gate", "invoking"}, run' \in Run,
         run'.pc \in {"invoking", "outcome"}, run'.batch = run.batch,
         run'.read = run.read, run'.armed = run.armed,
         UNCHANGED <<task, approved>>,
         ledger' \in [Call -> Recorded], effects' \in [Call -> Nat],
         \A c \in Call : ledger[c] # "none" => ledger'[c] # "none",
         \A c \in Call : effects'[c] = effects[c]
                           \/ (effects'[c] > 0 /\ ledger'[c] # "none"),
         InvokedRightly'
  PROVE  LoopInv'
<1>1. TypeOK' /\ HeadExists' /\ GateFollows' /\ Parked'
  BY DEF LoopInv, TypeOK, HeadExists, GateFollows, Parked
<1>2. Traced'
  <2>1. \A c \in task.before : c \in Call
    BY DEF LoopInv, TypeOK, Task
  <2> QED
    BY <2>1 DEF LoopInv, TypeOK, Traced
<1> QED
  BY <1>1, <1>2 DEF LoopInv

\* A tool that is invoked was not submitted by a run that died before, if it
\* writes.
LEMMA InvokeIsCareful ==
  ASSUME LoopInv, Invoke
  PROVE  LET c == Head(run.batch)
         IN /\ c \in Call
            /\ c \in Write => c \notin task.before
            /\ c \in Outward /\ run.armed => c \in approved
<1> DEFINE c == Head(run.batch)
<1>1. run.pc = "gate" /\ Passed(c) /\ PriorAttempt(c) = "none"
  BY DEF Invoke
<1>2. c \in Call
  BY <1>1, HeadIsCall DEF LoopInv, HeadExists
<1> HIDE DEF c
<1>3. ASSUME c \in Write, c \in task.before
      PROVE  FALSE
  <2>1. task.attempts > 0 /\ ledger[c] # "none" /\ ledger[c] \in Recorded
    BY <1>2, <1>3 DEF LoopInv, TypeOK, Traced
  <2>2. task.attempts # 0
    BY <2>1 DEF LoopInv, TypeOK, Task
  <2>3. CASE c \in Completed
    <3>1. PriorAttempt(c) = "completed"
      BY <2>1, <2>2, <2>3 DEF PriorAttempt
    <3> QED
      BY <1>1, <3>1
  <2>4. CASE c \notin Completed
    <3>1. ledger[c] = "started"
      BY <1>2, <2>1, <2>4 DEF Completed, Recorded
    <3>2. PriorAttempt(c) = "unknown"
      BY <1>3, <2>1, <2>2, <2>4, <3>1 DEF PriorAttempt
    <3> QED
      BY <1>1, <3>2
  <2> QED
    BY <2>3, <2>4
<1>4. c \in Outward /\ run.armed => c \in approved
  BY <1>1 DEF Passed, NeedsApproval
<1> QED
  BY <1>2, <1>3, <1>4 DEF c

LEMMA InvokeKeepsLoop ==
  ASSUME LoopInv, Invoke
  PROVE  LoopInv'
<1> DEFINE c == Head(run.batch)
           submitted == Counted(run.invoked, c)
           failures == Counted(run.failed, c)
<1>1. /\ c \in Call
      /\ c \in Write => c \notin task.before
      /\ c \in Outward /\ run.armed => c \in approved
  BY InvokeIsCareful
<1>2. run \in Run /\ run.pc = "gate" /\ UNCHANGED <<task, approved>>
  BY DEF Invoke, LoopInv, TypeOK
<1>3. submitted \in [Call -> Nat] /\ failures \in [Call -> Nat]
  BY <1>1, <1>2, CountsUp DEF Run
<1>4. ledger' = [ledger EXCEPT ![c] = IF @ = "none" THEN "started" ELSE @]
  BY DEF Invoke
<1>5. \/ /\ run' = [run EXCEPT !.pc = "outcome", !.outcome = "recoverable",
                               !.failed = failures]
         /\ UNCHANGED effects
      \/ /\ run' = [run EXCEPT !.pc = "invoking", !.invoked = submitted]
         /\ effects' = Counted(effects, c)
  <2>1. CASE OverCap(run.tried, c)
    BY <2>1 DEF Invoke
  <2>2. CASE ~OverCap(run.tried, c)
    <3>1. /\ run' = Submitted([run EXCEPT !.pc = "invoking"], c)
          /\ effects' = Counted(effects, c)
      BY <2>2 DEF Invoke
    <3>2. Submitted([run EXCEPT !.pc = "invoking"], c)
            = [run EXCEPT !.pc = "invoking", !.invoked = submitted]
      BY <1>2 DEF Submitted, Run
    <3> QED
      BY <3>1, <3>2
  <2> QED
    BY <2>1, <2>2
<1> HIDE DEF c, submitted, failures
<1>6. /\ run' \in Run /\ run'.pc \in {"invoking", "outcome"}
      /\ run'.batch = run.batch /\ run'.read = run.read
      /\ run'.armed = run.armed
  <2>1. PICK r : /\ run' = r
                 /\ \/ r = [run EXCEPT !.pc = "outcome",
                                       !.outcome = "recoverable",
                                       !.failed = failures]
                    \/ r = [run EXCEPT !.pc = "invoking", !.invoked = submitted]
    BY <1>5
  <2> QED
    BY <1>2, <1>3, <2>1, ZenonT(30) DEF Run, Outcome
<1>7. /\ ledger' \in [Call -> Recorded] /\ ledger'[c] # "none"
      /\ \A x \in Call : ledger[x] # "none" => ledger'[x] # "none"
  BY <1>1, <1>4 DEF LoopInv, TypeOK, Recorded
<1>8. /\ effects' \in [Call -> Nat]
      /\ \A x \in Call : effects'[x] = effects[x] \/ (x = c /\ effects'[x] > 0)
  BY <1>1, <1>5, CountsUp DEF LoopInv, TypeOK
<1>9. InvokedRightly'
  BY <1>1, <1>2, <1>6, <1>7 DEF InvokedRightly, c
<1> QED
  BY <1>2, <1>6, <1>7, <1>8, <1>9, ToolKeepsLoop

LEMMA ReturnKeepsLoop ==
  ASSUME LoopInv, NEW o \in Outcome, ToolReturns(o) \/ ToolRepaired(o)
  PROVE  LoopInv'
<1> DEFINE c == Head(run.batch)
           submitted == Counted(run.invoked, c)
           failures == Counted(run.failed, c)
<1>1. run \in Run /\ run.pc = "invoking" /\ UNCHANGED <<task, ledger, approved>>
  BY DEF ToolReturns, ToolRepaired, LoopInv, TypeOK
<1>2. c \in Call /\ ledger[c] # "none"
  BY <1>1, HeadIsCall DEF LoopInv, HeadExists, InvokedRightly
<1>3. submitted \in [Call -> Nat] /\ failures \in [Call -> Nat]
  BY <1>1, <1>2, CountsUp DEF Run
<1>4. \E r \in {[run EXCEPT !.pc = "outcome", !.outcome = o],
                [run EXCEPT !.pc = "outcome", !.outcome = o,
                            !.failed = failures]} :
        \/ run' = r /\ UNCHANGED effects
        \/ /\ run' = [r EXCEPT !.invoked = submitted]
           /\ effects' = Counted(effects, c)
  <2>1. CASE ToolReturns(o)
    <3>1. CASE o \in {"recoverable", "missing_connection"}
      BY <2>1, <3>1 DEF ToolReturns
    <3>2. CASE o \notin {"recoverable", "missing_connection"}
      <4>1. run' = [run EXCEPT !.pc = "outcome", !.outcome = o,
                               !.failed = run.failed]
        BY <2>1, <3>2 DEF ToolReturns
      <4>2. run' = [run EXCEPT !.pc = "outcome", !.outcome = o]
        BY <1>1, <4>1 DEF Run
      <4> QED
        BY <2>1, <4>2 DEF ToolReturns
    <3> QED
      BY <3>1, <3>2
  <2>2. CASE ToolRepaired(o)
    <3>1. CASE o = "recoverable"
      BY <1>1, <2>2, <3>1 DEF ToolRepaired, Submitted, Run
    <3>2. CASE o # "recoverable"
      BY <1>1, <2>2, <3>2 DEF ToolRepaired, Submitted, Run
    <3> QED
      BY <3>1, <3>2
  <2> QED
    BY <2>1, <2>2
<1> HIDE DEF c, submitted, failures
<1>5. /\ run' \in Run /\ run'.pc = "outcome"
      /\ run'.batch = run.batch /\ run'.read = run.read
      /\ run'.armed = run.armed
  <2>1. PICK r : /\ \/ r = [run EXCEPT !.pc = "outcome", !.outcome = o]
                    \/ r = [run EXCEPT !.pc = "outcome", !.outcome = o,
                                       !.failed = failures]
                 /\ \/ run' = r
                    \/ run' = [r EXCEPT !.invoked = submitted]
    BY <1>4
  <2>2. /\ r \in Run /\ r.pc = "outcome"
        /\ r.batch = run.batch /\ r.read = run.read /\ r.armed = run.armed
    BY <1>1, <1>3, <2>1, ZenonT(30) DEF Run
  <2> QED
    BY <1>3, <2>1, <2>2, ZenonT(30) DEF Run
<1>6. /\ effects' \in [Call -> Nat]
      /\ \A x \in Call : effects'[x] = effects[x] \/ (x = c /\ effects'[x] > 0)
  BY <1>2, <1>4, CountsUp DEF LoopInv, TypeOK
<1>7. InvokedRightly'
  BY <1>5 DEF InvokedRightly
<1> QED
  BY <1>1, <1>2, <1>5, <1>6, <1>7, ToolKeepsLoop DEF LoopInv, TypeOK

LEMMA RecordKeepsLoop ==
  ASSUME LoopInv, RecordResult
  PROVE  LoopInv'
<1> DEFINE c == Head(run.batch)
           next == NextCall(run)
           made == run.made \/ run.outcome = "artifact"
           armed == run.armed \/ c \in Untrusted
<1>1. run \in Run /\ run.pc = "outcome" /\ UNCHANGED <<approved, effects>>
  BY DEF RecordResult, LoopInv, TypeOK
<1>2. c \in Call /\ Tail(run.batch) \in Seq(Call)
  BY <1>1, HeadIsCall DEF LoopInv, HeadExists
<1>3. /\ ledger' \in [Call -> Recorded]
      /\ \A x \in Call : ledger[x] # "none" => ledger'[x] # "none"
  <2>1. ledger' = [ledger EXCEPT ![c] =
          IF ledger[c] \notin {"none", "started"} THEN ledger[c]
          ELSE IF run.outcome = "artifact" THEN "artifact" ELSE "result"]
    BY DEF RecordResult
  <2> HIDE DEF c
  <2> QED
    BY <1>2, <2>1 DEF LoopInv, TypeOK, Recorded
<1>4. Traced' \/ task' # task
  <2>1. \A x \in task.before : x \in Call
    BY DEF LoopInv, TypeOK, Task
  <2> QED
    BY <1>1, <1>3, <2>1 DEF LoopInv, Traced
<1>5. CASE EndRun("failed")
  <2>1. /\ task' \in Task /\ task'.before = task.before
        /\ task'.attempts = task.attempts /\ task'.observed = task.observed
        /\ Parked'
    BY <1>5 DEF EndRun, LoopInv, TypeOK, Task, Parked
  <2>2. run' \in Run /\ run'.pc = "idle"
    <3>1. FALSE \in BOOLEAN /\ "idle" \in {"idle", "turn"}
      OBVIOUS
    <3> QED
      BY <1>5, <3>1, FreshTyped DEF EndRun
  <2>3. Traced'
    <3>1. \A x \in task.before : x \in Call
      BY DEF LoopInv, TypeOK, Task
    <3> QED
      BY <1>1, <1>3, <2>1, <3>1 DEF LoopInv, Traced
  <2> QED
    BY <1>1, <1>3, <2>1, <2>2, <2>3 DEF LoopInv, TypeOK, HeadExists,
       GateFollows, InvokedRightly, Parked
<1>6. CASE UNCHANGED task /\ run' = [next EXCEPT !.made = made,
                 !.read = run.read \cup {c}, !.armed = armed]
  <2>1. next \in Run /\ next.pc = "calls"
    BY <1>1, <1>2 DEF NextCall, Run, Outcome
  <2>2. /\ made \in BOOLEAN /\ armed \in BOOLEAN
        /\ run.read \cup {c} \in SUBSET Call
        /\ run.armed => armed
        /\ c \in Untrusted => armed
    BY <1>1, <1>2 DEF Run
  <2>3. task.observed \/ (run.read \cup {c}) \cap Untrusted # {} => armed
    BY <1>1, <2>2 DEF LoopInv, GateFollows
  <2> HIDE DEF next, made, armed, c
  <2>4. /\ run' \in Run /\ run'.pc = "calls" /\ run'.armed = armed
        /\ run'.read = run.read \cup {c}
    BY <1>6, <2>1, <2>2 DEF Run
  <2>5. task' \in Task /\ Traced'
    BY <1>4, <1>6 DEF LoopInv, TypeOK
  <2> QED
    BY <1>1, <1>3, <1>6, <2>3, <2>4, <2>5 DEF LoopInv, TypeOK, HeadExists,
       GateFollows, InvokedRightly, Parked
<1>7. EndRun("failed") \/ (UNCHANGED task /\ run' = [next EXCEPT !.made = made,
                 !.read = run.read \cup {c}, !.armed = armed])
  <2>1. next.made = run.made /\ next.read = run.read /\ next.armed = run.armed
    BY <1>1 DEF NextCall, Run
  <2>2. \/ EndRun("failed")
        \/ /\ run' = [next EXCEPT !.made = @ \/ run.outcome = "artifact",
                                  !.read = @ \cup {c},
                                  !.armed = @ \/ c \in Untrusted]
           /\ UNCHANGED task
    BY DEF RecordResult
  <2> QED
    BY <2>1, <2>2
<1> QED
  BY <1>5, <1>6, <1>7

-----------------------------------------------------------------------------
LEMMA AroundKeepsLoop ==
  ASSUME LoopInv, StartRun \/ Crash \/ Cancel \/ Resume \/ Retry
  PROVE  LoopInv'
<1>1. task \in Task
  BY DEF LoopInv, TypeOK
<1>2. CASE StartRun
  <2>1. task.observed \in BOOLEAN /\ Completed \in SUBSET Call
    BY <1>1 DEF Task, Completed
  <2> DEFINE done == Completed
  <2>2. task' = [task EXCEPT !.status = "running", !.done = done]
    BY <1>2 DEF StartRun
  <2> HIDE DEF done
  <2>3. /\ task' \in Task /\ task'.before = task.before
        /\ task'.attempts = task.attempts /\ task'.observed = task.observed
        /\ task'.status = "running"
    BY <1>1, <2>1, <2>2 DEF Task, done
  <2>4. /\ run' \in Run /\ run'.pc = "turn" /\ run'.read = {}
        /\ run'.armed = task.observed
    <3>1. "turn" \in {"idle", "turn"}
      OBVIOUS
    <3> QED
      BY <1>2, <2>1, <3>1, FreshTyped DEF StartRun
  <2>5. UNCHANGED <<ledger, approved, effects>>
    BY <1>2 DEF StartRun
  <2> QED
    BY <2>3, <2>4, <2>5 DEF LoopInv, TypeOK, HeadExists, Traced, GateFollows,
       InvokedRightly, Parked
<1>3. CASE Crash
  <2> DEFINE before == {c \in Call : effects[c] > 0}
             attempts == task.attempts + 1
             status == IF attempts >= MaxAttempts THEN "failed" ELSE "queued"
  <2>1. attempts \in Nat /\ attempts > 0 /\ before \in SUBSET Call
    BY <1>1 DEF Task
  <2>2. /\ run' \in Run /\ run'.pc = "idle"
        /\ UNCHANGED <<ledger, approved, effects>>
    <3>1. FALSE \in BOOLEAN /\ "idle" \in {"idle", "turn"}
      OBVIOUS
    <3> QED
      BY <1>3, <3>1, FreshTyped DEF Crash
  <2>3. CASE Cancelled
    <3>1. UNCHANGED task
      BY <1>3, <2>3 DEF Crash
    <3> QED
      BY <2>2, <3>1 DEF LoopInv, TypeOK, HeadExists, Traced, GateFollows,
         InvokedRightly, Parked
  <2>4. CASE ~Cancelled
    <3>1. task' = [task EXCEPT !.attempts = attempts, !.status = status,
                               !.before = before]
      BY <1>3, <2>4 DEF Crash
    <3>2. \A c \in before : effects[c] > 0
      OBVIOUS
    <3>3. status \in {"failed", "queued"}
      OBVIOUS
    <3> HIDE DEF before, attempts, status
    <3>4. /\ task' \in Task /\ task'.before = before /\ task'.attempts > 0
          /\ task'.status # "waiting"
      BY <1>1, <2>1, <3>1, <3>3 DEF Task
    <3> QED
      BY <2>2, <3>2, <3>4 DEF LoopInv, TypeOK, HeadExists, Traced, GateFollows,
         InvokedRightly, Parked
  <2> QED
    BY <2>3, <2>4
<1>4. CASE Cancel
  <2>1. /\ task' \in Task /\ task'.before = task.before
        /\ task'.attempts = task.attempts /\ task'.observed = task.observed
        /\ task'.status = "cancelled"
    BY <1>1, <1>4 DEF Cancel, Task
  <2>2. UNCHANGED <<ledger, approved, run, effects>>
    BY <1>4 DEF Cancel
  <2> QED
    BY <2>1, <2>2 DEF LoopInv, TypeOK, HeadExists, Traced, GateFollows,
       InvokedRightly, Parked
<1>5. CASE Resume
  <2> DEFINE resumes == task.resumes + 1
  <2>1. resumes \in Nat
    BY <1>1 DEF Task
  <2>2. task' = [task EXCEPT !.status = "queued", !.resumes = resumes]
    BY <1>5 DEF Resume
  <2>3. UNCHANGED <<ledger, run, effects>> /\ approved \subseteq approved'
    BY <1>5 DEF Resume
  <2>4. approved' \in SUBSET Call
    <3>1. task.asked \in Call
      BY <1>5 DEF Resume, LoopInv, Parked
    <3> QED
      BY <1>5, <3>1 DEF Resume, LoopInv, TypeOK
  <2> HIDE DEF resumes
  <2>5. /\ task' \in Task /\ task'.before = task.before
        /\ task'.attempts = task.attempts /\ task'.observed = task.observed
        /\ task'.status = "queued"
    BY <1>1, <2>1, <2>2 DEF Task
  <2> QED
    BY <2>3, <2>4, <2>5 DEF LoopInv, TypeOK, HeadExists, Traced, GateFollows,
       InvokedRightly, Parked
<1>6. CASE Retry
  <2> DEFINE resumes == task.resumes + 1
  <2>1. resumes \in Nat
    BY <1>1 DEF Task
  <2>2. task' = [task EXCEPT !.status = "queued", !.attempts = 0,
                             !.resumes = resumes, !.before = {}]
    BY <1>6 DEF Retry
  <2>3. UNCHANGED <<ledger, approved, run, effects>>
    BY <1>6 DEF Retry
  <2> HIDE DEF resumes
  <2>4. /\ task' \in Task /\ task'.before = {}
        /\ task'.observed = task.observed /\ task'.status = "queued"
    BY <1>1, <2>1, <2>2 DEF Task
  <2> QED
    BY <2>3, <2>4 DEF LoopInv, TypeOK, HeadExists, Traced, GateFollows,
       InvokedRightly, Parked
<1> QED
  BY <1>2, <1>3, <1>4, <1>5, <1>6

LEMMA StepKeepsLoop ==
  ASSUME LoopInv, [Next]_vars
  PROVE  LoopInv'
<1>1. CASE RunStep
  <2>1. CASE ToolRaises
    BY <2>1, EndKeepsLoop DEF ToolRaises
  <2>2. CASE AskConnection
    <3>1. Head(run.batch) \in Call /\ TRUE \in BOOLEAN
      BY <2>2, HeadIsCall DEF AskConnection, LoopInv, HeadExists
    <3> QED
      BY <2>2, <3>1, ParkKeepsLoop DEF AskConnection
  <2> QED
    BY <1>1, <2>1, <2>2, TurnsKeepLoop, GateKeepsLoop, InvokeKeepsLoop,
       ReturnKeepsLoop, RecordKeepsLoop DEF RunStep
<1>2. CASE UNCHANGED vars
  BY <1>2 DEF vars, LoopInv, TypeOK, HeadExists, Traced, GateFollows,
     InvokedRightly, Parked
<1> QED
  BY <1>1, <1>2, AroundKeepsLoop DEF Next

LEMMA LoopInvariant == Spec => []LoopInv
  BY InitLoop, StepKeepsLoop, PTL DEF Spec

-----------------------------------------------------------------------------
\* Only these steps submit a call to its tool.
LEMMA OnlySubmissions ==
  ASSUME LoopInv, [Next]_vars, NEW c \in Call, effects'[c] # effects[c]
  PROVE  /\ c = Head(run.batch)
         /\ Invoke \/ run.pc = "invoking"
<1>1. effects \in [Call -> Nat] /\ effects' # effects
  BY DEF LoopInv, TypeOK
<1>2. Invoke \/ \E o \in Outcome : ToolRepaired(o)
  BY <1>1 DEF Next, RunStep, vars, TurnWithCalls, TurnEmpty, TurnWithText,
     TurnFails, TurnsExhausted, ObserveCancel, BeforeTool, AskApproval,
     ReplayCompleted, SurfaceUnknown, ToolReturns, ToolRaises, AskConnection,
     RecordResult, EndBatch, StartRun, Crash, Cancel, Resume, Retry
<1>3. UNCHANGED effects \/ effects' = Counted(effects, Head(run.batch))
  BY <1>2 DEF Invoke, ToolRepaired
<1>4. c = Head(run.batch)
  BY <1>1, <1>3 DEF Counted
<1> QED
  BY <1>2, <1>4 DEF ToolRepaired

\* The model keeps to its types.
THEOREM LoopTyped == Spec => []TypeOK
<1>1. LoopInv => TypeOK
  BY DEF LoopInv
<1> QED
  BY <1>1, LoopInvariant, PTL

\* A write that may have happened before a crash is not submitted again by
\* whatever runs follow.
THEOREM WritesAreNotRepeated == Spec => CrashRepeatsNoWrite
<1>1. LoopInv /\ [Next]_vars =>
        [\A c \in Write \cap task.before : effects'[c] = effects[c]]_vars
  <2> SUFFICES ASSUME LoopInv, [Next]_vars, NEW c \in Write \cap task.before,
                      effects'[c] # effects[c]
               PROVE  FALSE
    OBVIOUS
  <2>1. c \in Call
    BY DEF LoopInv, TypeOK, Task
  <2>2. c = Head(run.batch) /\ (Invoke \/ run.pc = "invoking")
    BY <2>1, OnlySubmissions
  <2> QED
    BY <2>2, InvokeIsCareful DEF LoopInv, InvokedRightly
<1> QED
  BY <1>1, LoopInvariant, PTL DEF Spec, CrashRepeatsNoWrite

\* No run writes outward unapproved after own calls have brought the model
\* untrusted content.
LEMMA OwnResultsAreGated == LoopInv /\ [Next]_vars => [GatedAfter(run.read)]_vars
<1> SUFFICES ASSUME LoopInv, [Next]_vars, NEW c \in Outward,
                    effects'[c] > effects[c],
                    task.observed \/ run.read \cap Untrusted # {}
             PROVE  c \in approved
  BY DEF GatedAfter
<1>1. c \in Call
  BY AgentLoopAssumption
<1>2. effects'[c] # effects[c]
  BY <1>1, StepKeepsLoop DEF LoopInv, TypeOK
<1>3. c = Head(run.batch) /\ (Invoke \/ run.pc = "invoking")
  BY <1>1, <1>2, OnlySubmissions
<1>4. run.armed
  BY <1>3 DEF LoopInv, GateFollows, Invoke
<1> QED
  BY <1>3, <1>4, InvokeIsCareful DEF LoopInv, InvokedRightly

-----------------------------------------------------------------------------
(***************************************************************************)
(* Sums of counters.  SumOver is a fold over a set of calls; that the fold *)
(* exists and is monotonic is shown by a least counterexample, in the      *)
(* number of calls.                                                        *)
(***************************************************************************)

\* One step of a sum: an element of the set, and the sum over the others.
SumStep(g, f, s) ==
  LET x == CHOOSE x \in s : TRUE IN f[x] + g[s \ {x}]

\* The sums of f over the sets of D.
AreSums(g, f, D) ==
  g = [s \in D |-> IF s = {} THEN 0 ELSE SumStep(g, f, s)]

\* The subsets of S with at most n elements.
UpTo(S, n) == {s \in SUBSET S : Cardinality(s) <= n}

\* A nonempty set of numbers has a least one.
LEMMA LeastOf ==
  ASSUME NEW T, T \subseteq Nat, T # {}
  PROVE  \E m \in T : \A i \in T : m <= i
<1>1. PICK m \in T : \A i \in T : ~(<<i, m>> \in OpToRel(<, Nat))
  BY NatLessThanWellFounded, WFMin
<1>2. ASSUME NEW i \in T, ~(m <= i)
      PROVE  FALSE
  <2>1. i \in Nat /\ m \in Nat /\ i < m
    BY <1>2
  <2> QED
    BY <1>1, <2>1 DEF OpToRel
<1> QED
  BY <1>2

\* Without its chosen element, a finite set is smaller.
LEMMA Shrinks ==
  ASSUME NEW S, IsFiniteSet(S), NEW s \in SUBSET S, s # {}
  PROVE  LET x == CHOOSE x \in s : TRUE
         IN  /\ x \in s /\ s \ {x} \in SUBSET S
             /\ Cardinality(s) \in Nat /\ Cardinality(s) > 0
             /\ Cardinality(s \ {x}) = Cardinality(s) - 1
<1> DEFINE x == CHOOSE x \in s : TRUE
<1>1. x \in s
  OBVIOUS
<1> HIDE DEF x
<1>2. IsFiniteSet(s)
  BY FS_Subset
<1>3. Cardinality(s) \in Nat /\ Cardinality(s) # 0
  BY <1>2, FS_CardinalityType, FS_EmptySet
<1>4. Cardinality(s \ {x}) = Cardinality(s) - 1
  BY <1>1, <1>2, FS_RemoveElement
<1> QED
  BY <1>1, <1>3, <1>4 DEF x

\* The sums exist: those over larger sets are built on those over smaller ones.
LEMMA SumsExist ==
  ASSUME NEW S, IsFiniteSet(S), NEW f
  PROVE  \E g : AreSums(g, f, SUBSET S)
<1> DEFINE Bad == {n \in Nat : ~\E g : AreSums(g, f, UpTo(S, n))}
<1>1. SUFFICES ASSUME Bad # {}
               PROVE  FALSE
  <2>1. UpTo(S, Cardinality(S)) = SUBSET S
    BY FS_Subset DEF UpTo
  <2>2. Cardinality(S) \in Nat
    BY FS_CardinalityType
  <2>3. Bad = {} => \E g : AreSums(g, f, UpTo(S, Cardinality(S)))
    BY <2>2
  <2> QED
    BY <2>1, <2>3
<1>2. PICK n \in Bad : \A i \in Bad : n <= i
  BY <1>1, LeastOf
<1>3. n \in Nat /\ ~\E g : AreSums(g, f, UpTo(S, n))
  OBVIOUS
<1>4. CASE n = 0
  <2>1. ASSUME NEW s \in UpTo(S, n)
        PROVE  s = {}
    <3>1. s \in SUBSET S /\ Cardinality(s) <= 0
      BY <1>4 DEF UpTo
    <3>2. IsFiniteSet(s) /\ Cardinality(s) \in Nat
      BY <3>1, FS_Subset, FS_CardinalityType
    <3> QED
      BY <3>1, <3>2, FS_EmptySet
  <2> DEFINE g == [s \in UpTo(S, n) |-> 0]
  <2>2. AreSums(g, f, UpTo(S, n))
    BY <2>1 DEF AreSums
  <2> QED
    BY <1>3, <2>2
<1>5. CASE n # 0
  <2> DEFINE m == n - 1
  <2>1. m \in Nat /\ m \notin Bad /\ n = m + 1
    BY <1>2, <1>3, <1>5
  <2>2. PICK h : AreSums(h, f, UpTo(S, m))
    BY <2>1
  <2> HIDE DEF m
  <2> DEFINE g == [s \in UpTo(S, n) |-> IF s = {} THEN 0 ELSE SumStep(h, f, s)]
  <2>3. ASSUME NEW s \in UpTo(S, m)
        PROVE  g[s] = h[s]
    <3>1. s \in UpTo(S, n)
      <4>1. s \in SUBSET S /\ Cardinality(s) \in Nat /\ Cardinality(s) <= m
        BY FS_Subset, FS_CardinalityType DEF UpTo
      <4> QED
        BY <2>1, <4>1 DEF UpTo
    <3> QED
      BY <2>2, <3>1 DEF AreSums
  <2>4. ASSUME NEW s \in UpTo(S, n), s # {}
        PROVE  SumStep(g, f, s) = SumStep(h, f, s)
    <3> DEFINE x == CHOOSE x \in s : TRUE
    <3>1. /\ s \in SUBSET S /\ Cardinality(s) <= n
          /\ s \ {x} \in SUBSET S /\ Cardinality(s) \in Nat
          /\ Cardinality(s \ {x}) = Cardinality(s) - 1
      BY <2>4, Shrinks DEF UpTo
    <3>2. s \ {x} \in UpTo(S, m)
      BY <2>1, <3>1 DEF UpTo
    <3>3. g[s \ {x}] = h[s \ {x}]
      BY <2>3, <3>2
    <3> HIDE DEF g
    <3> QED
      BY <3>3 DEF SumStep
  <2>5. AreSums(g, f, UpTo(S, n))
    <3>1. \A s \in UpTo(S, n) : 
            (IF s = {} THEN 0 ELSE SumStep(g, f, s))
              = (IF s = {} THEN 0 ELSE SumStep(h, f, s))
      BY <2>4
    <3>2. g = [s \in UpTo(S, n) |-> IF s = {} THEN 0 ELSE SumStep(h, f, s)]
      OBVIOUS
    <3> HIDE DEF g
    <3> QED
      BY <3>1, <3>2 DEF AreSums
  <2> QED
    BY <1>3, <2>5
<1> QED
  BY <1>4, <1>5

\* SumOver is such a sum.
LEMMA SumIs ==
  ASSUME NEW S, IsFiniteSet(S), NEW f
  PROVE  \E g : AreSums(g, f, SUBSET S) /\ SumOver(f, S) = g[S]
<1> DEFINE g == CHOOSE g : AreSums(g, f, SUBSET S)
<1>1. SumOver(f, S) = g[S]
  BY DEF SumOver, MapThenSumSet, MapThenFoldSet, AreSums, SumStep
<1>2. AreSums(g, f, SUBSET S)
  BY SumsExist
<1> QED
  BY <1>1, <1>2

\* Counters of which one is at most k times the other, in all calls of S: so
\* are their sums.
LEMMA SumsCompare ==
  ASSUME NEW C, NEW f \in [C -> Nat], NEW h \in [C -> Nat], NEW k \in Nat,
         NEW S \in SUBSET C, IsFiniteSet(S), \A c \in S : f[c] <= k * h[c]
  PROVE  /\ SumOver(f, S) \in Nat /\ SumOver(h, S) \in Nat
         /\ SumOver(f, S) <= k * SumOver(h, S)
<1>1. PICK F : AreSums(F, f, SUBSET S) /\ SumOver(f, S) = F[S]
  BY SumIs
<1>2. PICK H : AreSums(H, h, SUBSET S) /\ SumOver(h, S) = H[S]
  BY SumIs
<1> DEFINE Good(s) == F[s] \in Nat /\ H[s] \in Nat /\ F[s] <= k * H[s]
           Bad == {n \in Nat : \E s \in SUBSET S : Cardinality(s) = n /\ ~Good(s)}
<1>3. SUFFICES Bad = {}
  <2>1. Cardinality(S) \in Nat
    BY FS_CardinalityType
  <2>2. Cardinality(S) \notin Bad => Good(S)
    BY <2>1
  <2> QED
    BY <1>1, <1>2, <2>2
<1>4. SUFFICES ASSUME Bad # {}
               PROVE  FALSE
  OBVIOUS
<1>5. PICK n \in Bad : \A i \in Bad : n <= i
  BY <1>4, LeastOf
<1>6. PICK s \in SUBSET S : Cardinality(s) = n /\ ~Good(s)
  OBVIOUS
<1>7. s # {}
  BY <1>1, <1>2, <1>6 DEF AreSums
<1> DEFINE x == CHOOSE x \in s : TRUE
           r == s \ {x}
<1>8. /\ x \in s /\ r \in SUBSET S
      /\ n \in Nat /\ n > 0 /\ Cardinality(r) = n - 1
  BY <1>6, <1>7, Shrinks
<1>9. F[s] = f[x] + F[r] /\ H[s] = h[x] + H[r]
  BY <1>1, <1>2, <1>7 DEF AreSums, SumStep
<1> HIDE DEF x, r
<1>10. n - 1 \in Nat /\ n - 1 \notin Bad
  BY <1>5, <1>8
<1>11. F[r] \in Nat /\ H[r] \in Nat /\ F[r] <= k * H[r]
  BY <1>8, <1>10
<1>12. f[x] \in Nat /\ h[x] \in Nat /\ f[x] <= k * h[x]
  BY <1>8
<1>13. F[s] \in Nat /\ H[s] \in Nat /\ F[s] <= k * H[s]
  <2>1. \A a, b, c, d \in Nat : a <= k * c /\ b <= k * d => a + b <= k * (c + d)
    <3> SUFFICES ASSUME NEW a \in Nat, NEW b \in Nat, NEW c \in Nat, NEW d \in Nat,
                        a <= k * c, b <= k * d
                 PROVE  a + b <= k * (c + d)
      OBVIOUS
    <3>1. k * (c + d) = k * c + k * d /\ k * c \in Nat /\ k * d \in Nat
      OBVIOUS
    <3> QED
      BY <3>1
  <2>2. F[s] <= k * H[s]
    BY <1>9, <1>11, <1>12, <2>1
  <2> QED
    BY <1>9, <1>11, <1>12, <2>2
<1> QED
  BY <1>6, <1>13

-----------------------------------------------------------------------------
(***************************************************************************)
(* The work of a run.                                                      *)
(***************************************************************************)

\* The submissions the attempt in progress may still make: the call and one
\* repair of it.
Ahead(c) ==
  CASE run.pc = "gate" /\ c = Head(run.batch) -> 2
    [] run.pc = "invoking" /\ c = Head(run.batch) -> 1
    [] OTHER -> 0

\* The attempts are within the budgets.
AttemptsFit ==
  /\ \A c \in Call : run.tried[c] <= MaxSameCall
  /\ SumOver(run.tried, Call) <= MaxToolCalls

\* Every submission belongs to an attempt.
SubmissionsFit ==
  \A c \in Call : run.invoked[c] + Ahead(c) <= 2 * run.tried[c]

\* The attempts of a capped tool go on past its cap, its submissions do not.
CapsFit ==
  /\ run.pc = "invoking" => ~OverCap(run.tried, Head(run.batch))
  /\ \A t \in Capped : SumOver(run.invoked, ToolCalls(t)) <= 2 * SoftCap

Budget == AttemptsFit /\ SubmissionsFit /\ CapsFit

\* The calls of one tool are some of the calls.
LEMMA ToolCallsFinite ==
  ASSUME IsFiniteSet(Call), NEW t
  PROVE  ToolCalls(t) \in SUBSET Call /\ IsFiniteSet(ToolCalls(t))
<1>1. ToolCalls(t) \in SUBSET Call
  BY DEF ToolCalls
<1> QED
  BY <1>1, FS_Subset

\* The limits are numbers.
LEMMA LimitsTyped ==
  MaxToolCalls \in Nat /\ MaxSameCall \in Nat /\ SoftCap \in Nat
BY AgentLoopAssumption

\* Counters at zero add up to zero.
LEMMA ZeroSum ==
  ASSUME NEW S \in SUBSET Call, IsFiniteSet(S)
  PROVE  SumOver([c \in Call |-> 0], S) = 0
<1> DEFINE zero == [c \in Call |-> 0]
<1>1. zero \in [Call -> Nat] /\ \A c \in Call : zero[c] <= 0 * zero[c]
  OBVIOUS
<1> HIDE DEF zero
<1>2. SumOver(zero, S) \in Nat /\ SumOver(zero, S) <= 0 * SumOver(zero, S)
  BY <1>1, SumsCompare
<1> QED
  BY <1>2 DEF zero

\* At first the run is idle and its counters are zero.
LEMMA InitBudget ==
  ASSUME IsFiniteSet(Call), Init
  PROVE  Budget
<1> DEFINE zero == [c \in Call |-> 0]
<1>1. run.pc = "idle" /\ run.tried = zero /\ run.invoked = zero
  BY DEF Init, Fresh
<1>2. SumOver(zero, Call) = 0 /\ \A t \in Capped : SumOver(zero, ToolCalls(t)) = 0
  BY ZeroSum, ToolCallsFinite
<1>3. \A c \in Call : Ahead(c) = 0
  BY <1>1 DEF Ahead
<1>4. \A c \in Call : run.tried[c] = 0 /\ run.invoked[c] = 0
  BY <1>1
<1> HIDE DEF zero
<1>5. AttemptsFit
  BY <1>1, <1>2, <1>4, LimitsTyped DEF AttemptsFit
<1>6. SubmissionsFit
  BY <1>3, <1>4 DEF SubmissionsFit
<1>7. CapsFit
  BY <1>1, <1>2, LimitsTyped DEF CapsFit
<1> QED
  BY <1>5, <1>6, <1>7 DEF Budget

\* A run that has done nothing is within its budget.
LEMMA FreshBudget ==
  ASSUME IsFiniteSet(Call), NEW pc \in {"idle", "turn"}, NEW armed \in BOOLEAN,
         run' = Fresh(pc, armed)
  PROVE  Budget'
<1> DEFINE zero == [c \in Call |-> 0]
<1>1. run'.pc = pc /\ run'.tried = zero /\ run'.invoked = zero
  BY DEF Fresh
<1>2. SumOver(zero, Call) = 0 /\ \A t \in Capped : SumOver(zero, ToolCalls(t)) = 0
  BY ZeroSum, ToolCallsFinite
<1>3. \A c \in Call : Ahead(c)' = 0
  BY <1>1 DEF Ahead
<1>4. \A c \in Call : run'.tried[c] = 0 /\ run'.invoked[c] = 0
  BY <1>1
<1> HIDE DEF zero
<1>5. AttemptsFit'
  BY <1>1, <1>2, <1>4, LimitsTyped DEF AttemptsFit
<1>6. SubmissionsFit'
  BY <1>3, <1>4 DEF SubmissionsFit
<1>7. CapsFit'
  BY <1>1, <1>2, LimitsTyped DEF CapsFit, ToolCalls
<1> QED
  BY <1>5, <1>6, <1>7 DEF Budget

\* A step that counts no attempt and submits nothing.
LEMMA QuietBudget ==
  ASSUME LoopInv, Budget, run'.tried = run.tried, run'.invoked = run.invoked,
         run'.pc \notin {"gate", "invoking"}
  PROVE  Budget'
<1>1. \A c \in Call : run.invoked[c] <= 2 * run.tried[c]
  <2> TAKE c \in Call
  <2>1. run.invoked[c] \in Nat /\ run.tried[c] \in Nat /\ Ahead(c) \in Nat
    BY DEF LoopInv, TypeOK, Run, Ahead
  <2>2. run.invoked[c] + Ahead(c) <= 2 * run.tried[c]
    BY DEF Budget, SubmissionsFit
  <2> QED
    BY <2>1, <2>2
<1>2. SubmissionsFit'
  <2> SUFFICES ASSUME NEW c \in Call
               PROVE  run'.invoked[c] + Ahead(c)' <= 2 * run'.tried[c]
    BY DEF SubmissionsFit
  <2>1. Ahead(c)' = 0 /\ run.invoked[c] \in Nat
    BY DEF Ahead, LoopInv, TypeOK, Run
  <2> QED
    BY <1>1, <2>1
<1>3. AttemptsFit' /\ CapsFit'
  BY DEF Budget, AttemptsFit, CapsFit, ToolCalls
<1> QED
  BY <1>2, <1>3 DEF Budget

\* One attempt more, counted before anything runs.
LEMMA AttemptBudget ==
  ASSUME IsFiniteSet(Call), LoopInv, Budget, run.pc = "calls", run.batch # <<>>,
         NEW tried, tried = Counted(run.tried, Head(run.batch)),
         ~(SumOver(tried, Call) > MaxToolCalls),
         ~(tried[Head(run.batch)] > MaxSameCall),
         run' = [run EXCEPT !.tried = tried, !.pc = "gate"]
  PROVE  Budget'
<1> DEFINE c == Head(run.batch)
<1>1. /\ run \in Run /\ c \in Call
      /\ run.tried \in [Call -> Nat] /\ run.invoked \in [Call -> Nat]
  BY HeadIsCall DEF LoopInv, TypeOK, Run
<1>2. /\ run'.tried = tried /\ run'.invoked = run.invoked
      /\ run'.batch = run.batch /\ run'.pc = "gate"
  BY <1>1 DEF Run
<1>3. /\ tried \in [Call -> Nat]
      /\ \A x \in Call : tried[x] = IF x = c THEN run.tried[x] + 1 ELSE run.tried[x]
  BY <1>1, CountsUp
<1>4. AttemptsFit'
  <2>1. SumOver(tried, Call) \in Nat
    <3>1. \A x \in Call : tried[x] <= 1 * tried[x]
      BY <1>3
    <3> QED
      BY <1>3, <3>1, SumsCompare
  <2>2. \A x \in Call : tried[x] <= MaxSameCall
    BY <1>3, LimitsTyped DEF Budget, AttemptsFit
  <2> QED
    BY <1>2, <2>1, <2>2, LimitsTyped DEF AttemptsFit
<1>5. SubmissionsFit'
  <2> SUFFICES ASSUME NEW x \in Call
               PROVE  run.invoked[x] + Ahead(x)' <= 2 * tried[x]
    BY <1>2 DEF SubmissionsFit
  <2>1. Ahead(x) = 0 /\ Ahead(x)' = IF x = c THEN 2 ELSE 0
    BY <1>2 DEF Ahead
  <2>2. run.invoked[x] + 0 <= 2 * run.tried[x]
    BY <2>1 DEF Budget, SubmissionsFit
  <2>3. run.invoked[x] \in Nat /\ run.tried[x] \in Nat
    BY <1>1
  <2>4. tried[x] = IF x = c THEN run.tried[x] + 1 ELSE run.tried[x]
    BY <1>3
  <2> HIDE DEF c
  <2> QED
    BY <2>1, <2>2, <2>3, <2>4
<1>6. CapsFit'
  <2>1. \A t \in Capped : SumOver(run'.invoked, ToolCalls(t)) <= 2 * SoftCap
    BY <1>2 DEF Budget, CapsFit
  <2>2. run'.pc # "invoking"
    BY <1>2
  <2> QED
    BY <2>1, <2>2 DEF CapsFit, ToolCalls
<1> QED
  BY <1>4, <1>5, <1>6 DEF Budget

\* One submission more, of the attempt in progress, whose tool is not over its
\* cap.
LEMMA SubmitBudget ==
  ASSUME IsFiniteSet(Call), LoopInv, Budget,
         \/ run.pc = "gate" /\ run'.pc = "invoking"
         \/ run.pc = "invoking" /\ run'.pc = "outcome",
         ~OverCap(run.tried, Head(run.batch)),
         run'.batch = run.batch, run'.tried = run.tried,
         run'.invoked = Counted(run.invoked, Head(run.batch))
  PROVE  Budget'
<1> DEFINE c == Head(run.batch)
           invoked == Counted(run.invoked, c)
<1>1. /\ c \in Call
      /\ run.tried \in [Call -> Nat] /\ run.invoked \in [Call -> Nat]
  BY HeadIsCall DEF LoopInv, TypeOK, Run, HeadExists
<1>2. /\ invoked \in [Call -> Nat]
      /\ \A x \in Call : invoked[x] = IF x = c THEN run.invoked[x] + 1
                                               ELSE run.invoked[x]
  BY <1>1, CountsUp
<1> HIDE DEF invoked
<1>3. /\ run'.invoked = invoked
      /\ AttemptsFit'
  BY DEF Budget, AttemptsFit, invoked
<1>4. \A x \in Call : /\ invoked[x] + Ahead(x)' <= 2 * run.tried[x]
                      /\ invoked[x] <= 2 * run.tried[x]
  <2> TAKE x \in Call
  <2>1. run.invoked[x] + Ahead(x) <= 2 * run.tried[x]
    BY DEF Budget, SubmissionsFit
  <2>2. Ahead(x)' \in Nat /\ Ahead(x) = IF x = c THEN Ahead(x)' + 1 ELSE Ahead(x)'
    BY DEF Ahead
  <2>3. run.invoked[x] \in Nat /\ run.tried[x] \in Nat
    BY <1>1
  <2> QED
    BY <1>2, <2>1, <2>2, <2>3
<1>5. CapsFit'
  <2>1. run'.pc = "invoking" => ~OverCap(run'.tried, Head(run'.batch))
    OBVIOUS
  <2>2. ASSUME NEW t \in Capped
        PROVE  SumOver(invoked, ToolCalls(t)) <= 2 * SoftCap
    <3> DEFINE S == ToolCalls(t)
    <3>1. S \in SUBSET Call /\ IsFiniteSet(S) /\ SoftCap \in Nat
      BY ToolCallsFinite, LimitsTyped
    <3>2. CASE ToolOf[c] = t
      <4>1. ~(SumOver(run.tried, S) > SoftCap)
        BY <2>2, <3>2 DEF OverCap
      <4>2. \A x \in S : invoked[x] <= 2 * run.tried[x]
        BY <1>4, <3>1
      <4> HIDE DEF S
      <4>3. /\ SumOver(invoked, S) \in Nat /\ SumOver(run.tried, S) \in Nat
            /\ SumOver(invoked, S) <= 2 * SumOver(run.tried, S)
        BY <1>1, <1>2, <3>1, <4>2, SumsCompare
      <4> QED
        BY <3>1, <4>1, <4>3 DEF S
    <3>3. CASE ToolOf[c] # t
      <4>1. \A x \in S : invoked[x] <= 1 * run.invoked[x]
        BY <1>1, <1>2, <3>1, <3>3 DEF ToolCalls
      <4>2. SumOver(run.invoked, S) <= 2 * SoftCap
        BY <2>2 DEF Budget, CapsFit
      <4> HIDE DEF S
      <4>3. /\ SumOver(invoked, S) \in Nat /\ SumOver(run.invoked, S) \in Nat
            /\ SumOver(invoked, S) <= 1 * SumOver(run.invoked, S)
        BY <1>1, <1>2, <3>1, <4>1, SumsCompare
      <4> QED
        BY <3>1, <4>2, <4>3 DEF S
    <3> QED
      BY <3>2, <3>3
  <2> QED
    BY <1>3, <2>1, <2>2 DEF CapsFit, ToolCalls
<1>6. SubmissionsFit'
  BY <1>3, <1>4 DEF SubmissionsFit
<1> QED
  BY <1>3, <1>5, <1>6 DEF Budget

\* A run that ends, one that starts.
LEMMA FreshRuns ==
  ASSUME IsFiniteSet(Call), TypeOK,
         \/ \E s \in {"succeeded", "failed", "cancelled"} : EndRun(s)
         \/ \E c \in Call, b \in BOOLEAN : ParkRun(c, b)
         \/ StartRun
         \/ Crash
  PROVE  Budget'
<1>1. \/ run' = Fresh("idle", FALSE)
      \/ run' = Fresh("turn", task.observed) /\ task.observed \in BOOLEAN
  BY DEF EndRun, ParkRun, StartRun, Crash, TypeOK, Task
<1> QED
  BY <1>1, FreshBudget

\* Turns, replays and results.
LEMMA QuietRuns ==
  ASSUME IsFiniteSet(Call), LoopInv, Budget,
         \/ \E b \in Batches : TurnWithCalls(b)
         \/ TurnEmpty \/ TurnWithText \/ TurnFails \/ TurnsExhausted
         \/ ObserveCancel \/ ReplayCompleted \/ SurfaceUnknown
         \/ RecordResult \/ EndBatch \/ \E o \in Outcome : ToolReturns(o)
  PROVE  Budget'
<1>1. TypeOK /\ run \in Run
  BY DEF LoopInv, TypeOK
<1>2. \/ \E s \in {"succeeded", "failed", "cancelled"} : EndRun(s)
      \/ /\ run'.tried = run.tried /\ run'.invoked = run.invoked
         /\ run'.pc \notin {"gate", "invoking"}
  <2>1. CASE \E b \in Batches : TurnWithCalls(b)
    BY <1>1, <2>1 DEF TurnWithCalls, Run
  <2>2. CASE TurnEmpty \/ TurnWithText
    BY <1>1, <2>2 DEF TurnEmpty, TurnWithText, Turns, Run
  <2>3. CASE TurnFails \/ TurnsExhausted \/ ObserveCancel
    BY <2>3 DEF TurnFails, TurnsExhausted, ObserveCancel
  <2>4. CASE ReplayCompleted \/ SurfaceUnknown
    BY <2>4, PassesOver
  <2>5. CASE RecordResult
    BY <1>1, <2>5 DEF RecordResult, NextCall, Run
  <2>6. CASE EndBatch
    BY <1>1, <2>6 DEF EndBatch, Run
  <2>7. CASE \E o \in Outcome : ToolReturns(o)
    BY <1>1, <2>7 DEF ToolReturns, Run
  <2> QED
    BY <2>1, <2>2, <2>3, <2>4, <2>5, <2>6, <2>7
<1> QED
  BY <1>1, <1>2, FreshRuns, QuietBudget

\* No step leaves the budget.
LEMMA StepKeepsBudget ==
  ASSUME IsFiniteSet(Call), LoopInv, Budget, [Next]_vars
  PROVE  Budget'
<1>1. TypeOK /\ run \in Run
  BY DEF LoopInv, TypeOK
<1>2. CASE BeforeTool
  <2>1. CASE \E s \in {"succeeded", "failed"} : EndRun(s)
    BY <1>1, <2>1, FreshRuns
  <2>2. CASE ~\E s \in {"succeeded", "failed"} : EndRun(s)
    <3> DEFINE tried == Counted(run.tried, Head(run.batch))
    <3>1. /\ run.pc = "calls" /\ run.batch # <<>>
          /\ ~(SumOver(tried, Call) > MaxToolCalls)
          /\ ~(tried[Head(run.batch)] > MaxSameCall)
          /\ run' = [run EXCEPT !.tried = tried, !.pc = "gate"]
      BY <1>2, <2>2 DEF BeforeTool
    <3> HIDE DEF tried
    <3> QED
      BY <3>1, AttemptBudget DEF tried
  <2> QED
    BY <2>1, <2>2
<1>3. CASE Invoke
  <2> DEFINE c == Head(run.batch)
  <2>1. CASE OverCap(run.tried, c)
    <3>1. /\ run'.tried = run.tried /\ run'.invoked = run.invoked
          /\ run'.pc = "outcome"
      BY <1>1, <1>3, <2>1 DEF Invoke, Run
    <3> QED
      BY <3>1, QuietBudget
  <2>2. CASE ~OverCap(run.tried, c)
    <3>1. run.pc = "gate" /\ run' = Submitted([run EXCEPT !.pc = "invoking"], c)
      BY <1>3, <2>2 DEF Invoke
    <3>2. /\ run'.tried = run.tried /\ run'.batch = run.batch
          /\ run'.pc = "invoking" /\ run'.invoked = Counted(run.invoked, c)
      BY <1>1, <3>1 DEF Submitted, Run
    <3> QED
      BY <2>2, <3>1, <3>2, SubmitBudget
  <2> QED
    BY <2>1, <2>2
<1>4. ASSUME NEW o \in Outcome, ToolRepaired(o)
      PROVE  Budget'
  <2> DEFINE c == Head(run.batch)
             failed == IF o = "recoverable" THEN Counted(run.failed, c) ELSE run.failed
  <2>1. /\ run.pc = "invoking"
        /\ run' = Submitted([run EXCEPT !.pc = "outcome", !.outcome = o,
                                        !.failed = failed], c)
    BY <1>4 DEF ToolRepaired
  <2>2. ~OverCap(run.tried, c)
    BY <2>1 DEF Budget, CapsFit
  <2> HIDE DEF failed
  <2>3. /\ run'.tried = run.tried /\ run'.batch = run.batch
        /\ run'.pc = "outcome" /\ run'.invoked = Counted(run.invoked, c)
    BY <1>1, <2>1 DEF Submitted, Run
  <2> QED
    BY <2>1, <2>2, <2>3, SubmitBudget
<1>5. CASE AskApproval \/ AskConnection
  <2>1. Head(run.batch) \in Call /\ \E b \in BOOLEAN : ParkRun(Head(run.batch), b)
    BY <1>5, HeadIsCall DEF AskApproval, AskConnection, LoopInv, HeadExists
  <2> QED
    BY <1>1, <2>1, FreshRuns
<1>6. CASE ToolRaises \/ StartRun \/ Crash
  BY <1>1, <1>6, FreshRuns DEF ToolRaises
<1>7. CASE UNCHANGED run
  <2>1. AttemptsFit' /\ CapsFit'
    BY <1>7 DEF Budget, AttemptsFit, CapsFit, OverCap, ToolCalls
  <2>2. SubmissionsFit'
    BY <1>7 DEF Budget, SubmissionsFit, Ahead
  <2> QED
    BY <2>1, <2>2 DEF Budget
<1>8. CASE Cancel \/ Resume \/ Retry \/ UNCHANGED vars
  BY <1>7, <1>8 DEF Cancel, Resume, Retry, vars
<1> QED
  BY <1>2, <1>3, <1>4, <1>5, <1>6, <1>8, QuietRuns DEF Next, RunStep

\* However completions repeat themselves, tools fail and are repaired, a run
\* submits no more to its tools than its budgets allow, for any finite set of
\* calls: of all tools together, of one call, and of a capped tool.
THEOREM RunsAreBounded ==
  ASSUME IsFiniteSet(Call)
  PROVE  Spec => []WorkIsBounded
<1>1. Init => Budget
  BY InitBudget
<1>2. LoopInv /\ Budget /\ [Next]_vars => Budget'
  BY StepKeepsBudget
<1>3. LoopInv /\ Budget => WorkIsBounded
  <2> SUFFICES ASSUME LoopInv, Budget
               PROVE  WorkIsBounded
    OBVIOUS
  <2>1. /\ run.tried \in [Call -> Nat] /\ run.invoked \in [Call -> Nat]
        /\ \A c \in Call : Ahead(c) \in Nat
    BY DEF LoopInv, TypeOK, Run, Ahead
  <2>2. \A c \in Call : /\ run.invoked[c] <= 2 * run.tried[c]
                        /\ run.invoked[c] <= 2 * MaxSameCall
    <3> TAKE c \in Call
    <3>1. /\ run.invoked[c] + Ahead(c) <= 2 * run.tried[c]
          /\ run.tried[c] <= MaxSameCall
      BY DEF Budget, SubmissionsFit, AttemptsFit
    <3>2. run.invoked[c] \in Nat /\ run.tried[c] \in Nat /\ Ahead(c) \in Nat
      BY <2>1
    <3> QED
      BY <3>1, <3>2, LimitsTyped
  <2>3. /\ SumOver(run.invoked, Call) \in Nat /\ SumOver(run.tried, Call) \in Nat
        /\ SumOver(run.invoked, Call) <= 2 * SumOver(run.tried, Call)
    BY <2>1, <2>2, SumsCompare
  <2>4. SumOver(run.invoked, Call) <= 2 * MaxToolCalls
    <3>1. SumOver(run.tried, Call) <= MaxToolCalls
      BY DEF Budget, AttemptsFit
    <3> QED
      BY <2>3, <3>1, LimitsTyped
  <2> QED
    BY <2>2, <2>4 DEF WorkIsBounded, Budget, CapsFit
<1> QED
  BY <1>1, <1>2, <1>3, LoopInvariant, PTL DEF Spec
-----------------------------------------------------------------------------
(***************************************************************************)
(* The approval of tools.                                                  *)
(***************************************************************************)

\* A task is worked on while it is running, or cancelled without the run having
\* seen it; what it waits for is not approved yet.
Asked ==
  /\ run.pc # "idle" => task.status \in {"running", "cancelled"}
  /\ Asking # NoCall => Asking \in Call \ approved

\* Nothing the contract speaks of changes.
Silent == Asking' = Asking /\ approved' = approved /\ (Over' <=> Over)

\* A task that is not over and puts no question asks for an undecided call.
Asks ==
  /\ Asking = NoCall /\ Asking' \in Call \ approved
  /\ ~Over /\ ~Over' /\ approved' = approved

\* What it asked for is approved.
IsApproved ==
  /\ Asking # NoCall /\ Asking' = NoCall
  /\ approved' = approved \cup {Asking} /\ (Over' <=> Over)

\* It is over.
Ends == ~Over /\ Over' /\ Asking' = NoCall /\ approved' = approved

LEMMA EndsOrNot ==
  ASSUME TypeOK, Asked, run.pc # "idle", approved' = approved,
         \/ \E s \in {"succeeded", "failed", "cancelled"} : EndRun(s)
         \/ \E c \in Call : ParkRun(c, TRUE)
  PROVE  Asked' /\ (Silent \/ Ends)
<1>1. task \in Task /\ task.status \in {"running", "cancelled"}
  BY DEF TypeOK, Asked
<1>2. Asking = NoCall /\ run'.pc = "idle" /\ (Over <=> task.status = "cancelled")
  <2>1. Asking = NoCall /\ (Over <=> task.status = "cancelled")
    BY <1>1 DEF Asking, Over
  <2>2. run' = Fresh("idle", FALSE)
    BY DEF EndRun, ParkRun
  <2> QED
    BY <2>1, <2>2 DEF Fresh
<1>3. CASE task.status = "cancelled"
  <2>1. task'.status = "cancelled"
    BY <1>1, <1>3 DEF EndRun, ParkRun, Cancelled, Task
  <2>2. Asking' = NoCall /\ Over'
    BY <2>1 DEF Asking, Over
  <2> QED
    BY <1>2, <1>3, <2>2 DEF Asked, Silent
<1>4. CASE task.status = "running"
  <2>1. \/ task'.status \in {"succeeded", "failed", "cancelled"}
        \/ task'.status = "waiting" /\ task'.connecting
    BY <1>1, <1>4 DEF EndRun, ParkRun, Cancelled, Task
  <2>2. Asking' = NoCall
    BY <2>1 DEF Asking
  <2> QED
    BY <1>2, <1>4, <2>2 DEF Asked, Silent, Ends
<1> QED
  BY <1>1, <1>3, <1>4

LEMMA AsksOrNot ==
  ASSUME TypeOK, Asked, run.pc # "idle", approved' = approved,
         NEW c \in Call \ approved, ParkRun(c, FALSE)
  PROVE  Asked' /\ (Silent \/ Asks)
<1>1. task \in Task /\ task.status \in {"running", "cancelled"} /\ c # NoCall
  BY AgentLoopAssumption DEF TypeOK, Asked
<1>2. Asking = NoCall /\ run'.pc = "idle" /\ (Over <=> task.status = "cancelled")
  BY <1>1 DEF Asking, Over, ParkRun, Fresh
<1>3. CASE task.status = "cancelled"
  <2>1. task'.status = "cancelled"
    BY <1>1, <1>3 DEF ParkRun, Cancelled, Task
  <2>2. Asking' = NoCall /\ Over'
    BY <2>1 DEF Asking, Over
  <2> QED
    BY <1>2, <1>3, <2>2 DEF Asked, Silent
<1>4. CASE task.status = "running"
  <2>1. task'.status = "waiting" /\ ~task'.connecting /\ task'.asked = c
    BY <1>1, <1>4 DEF ParkRun, Cancelled, Task
  <2>2. Asking' = c /\ ~Over'
    BY <2>1 DEF Asking, Over
  <2> QED
    BY <1>2, <1>4, <2>2 DEF Asked, Asks
<1> QED
  BY <1>1, <1>3, <1>4

LEMMA RunAsks ==
  ASSUME LoopInv, Asked, RunStep
  PROVE  Asked' /\ (Silent \/ Asks \/ Ends)
<1>1. TypeOK /\ run.pc # "idle" /\ approved' = approved
  <2>1. approved' = approved
    BY DEF RunStep, TurnWithCalls, TurnEmpty, TurnWithText, TurnFails,
       TurnsExhausted, ObserveCancel, BeforeTool, AskApproval, ReplayCompleted,
       SurfaceUnknown, Invoke, ToolReturns, ToolRepaired, ToolRaises,
       AskConnection, RecordResult, EndBatch
  <2>2. run.pc # "idle"
    BY DEF RunStep, Turns, TurnWithCalls, TurnEmpty, TurnWithText, TurnFails,
       TurnsExhausted, ObserveCancel, BeforeTool, AskApproval, ReplayCompleted,
       SurfaceUnknown, Invoke, ToolReturns, ToolRepaired, ToolRaises,
       AskConnection, RecordResult, EndBatch
  <2> QED
    BY <2>1, <2>2 DEF LoopInv
<1>2. CASE UNCHANGED task
  <2>1. Asking' = Asking /\ (Over' <=> Over)
    BY <1>2 DEF Asking, Over
  <2> QED
    BY <1>1, <1>2, <2>1 DEF Asked, Silent
<1>3. CASE AskApproval
  <2>1. Head(run.batch) \in Call \ approved /\ ParkRun(Head(run.batch), FALSE)
    BY <1>3, HeadIsCall DEF AskApproval, LoopInv, HeadExists
  <2> QED
    BY <1>1, <2>1, AsksOrNot
<1>4. CASE AskConnection
  <2>1. Head(run.batch) \in Call /\ ParkRun(Head(run.batch), TRUE)
    BY <1>4, HeadIsCall DEF AskConnection, LoopInv, HeadExists
  <2> QED
    BY <1>1, <2>1, EndsOrNot
<1>5. CASE \E s \in {"succeeded", "failed", "cancelled"} : EndRun(s)
  BY <1>1, <1>5, EndsOrNot
<1>6. \/ UNCHANGED task \/ AskApproval \/ AskConnection
      \/ \E s \in {"succeeded", "failed", "cancelled"} : EndRun(s)
  BY DEF RunStep, TurnWithCalls, TurnEmpty, TurnWithText, TurnFails,
     TurnsExhausted, ObserveCancel, BeforeTool, ReplayCompleted, SurfaceUnknown,
     Invoke, ToolReturns, ToolRepaired, ToolRaises, RecordResult, EndBatch
<1> QED
  BY <1>2, <1>3, <1>4, <1>5, <1>6

LEMMA AroundAsks ==
  ASSUME LoopInv, Asked, StartRun \/ Crash \/ Cancel \/ Resume \/ Retry
  PROVE  Asked' /\ (Silent \/ IsApproved \/ Ends)
<1>1. task \in Task
  BY DEF LoopInv, TypeOK
<1>2. CASE StartRun
  <2>1. task'.status = "running" /\ approved' = approved
    BY <1>1, <1>2 DEF StartRun, Task
  <2> QED
    BY <1>2, <2>1 DEF StartRun, Asked, Silent, Asking, Over
<1>3. CASE Crash
  <2>1. /\ task.status \in {"running", "cancelled"} /\ approved' = approved
        /\ run'.pc = "idle"
    BY <1>3 DEF Crash, Asked, Fresh
  <2>2. \/ task' = task
        \/ ~Cancelled /\ task'.status \in {"failed", "queued"}
    BY <1>1, <1>3 DEF Crash, Task
  <2> QED
    BY <2>1, <2>2 DEF Asked, Silent, Asking, Over, Cancelled
<1>4. CASE Cancel
  <2>1. task'.status = "cancelled" /\ approved' = approved /\ run' = run
    BY <1>1, <1>4 DEF Cancel, Task
  <2>2. ~Over /\ Over' /\ Asking' = NoCall
    BY <1>4, <2>1 DEF Cancel, Over, Asking
  <2> QED
    BY <2>1, <2>2 DEF Asked, Ends
<1>5. CASE Resume
  <2>1. task'.status = "queued" /\ run' = run /\ task.status = "waiting"
    BY <1>1, <1>5 DEF Resume, Task
  <2>2. run.pc = "idle" /\ ~Over /\ ~Over' /\ Asking' = NoCall
    BY <2>1 DEF Over, Asking, Asked
  <2>3. CASE task.connecting
    <3>1. Asking = NoCall /\ approved' = approved
      BY <1>5, <2>3 DEF Resume, Asking
    <3> QED
      BY <2>1, <2>2, <3>1 DEF Asked, Silent
  <2>4. CASE ~task.connecting
    <3>1. Asking = task.asked /\ approved' = approved \cup {task.asked}
      BY <1>5, <2>1, <2>4 DEF Resume, Asking
    <3>2. task.asked # NoCall
      BY <2>1, AgentLoopAssumption DEF LoopInv, Parked
    <3> QED
      BY <2>1, <2>2, <3>1, <3>2 DEF Asked, IsApproved
  <2> QED
    BY <2>3, <2>4
<1>6. CASE Retry
  <2>1. /\ task'.status = "queued" /\ run' = run /\ approved' = approved
        /\ task.status = "failed"
    BY <1>1, <1>6 DEF Retry, Task
  <2> QED
    BY <2>1 DEF Asked, Silent, Asking, Over
<1> QED
  BY <1>2, <1>3, <1>4, <1>5, <1>6

LEMMA StepAsks ==
  ASSUME LoopInv, Asked, [Next]_vars
  PROVE  Asked' /\ (Silent \/ Asks \/ IsApproved \/ Ends)
<1>1. CASE UNCHANGED vars
  <2>1. Asking' = Asking /\ (Over' <=> Over)
    BY <1>1 DEF vars, Asking, Over
  <2> QED
    BY <1>1, <2>1 DEF vars, Asked, Silent
<1> QED
  BY <1>1, RunAsks, AroundAsks DEF Next

\* Such a change is an action of the contract.
LEMMA ContractAction ==
  ASSUME Silent \/ Asks \/ IsApproved \/ Ends, approved \subseteq Call
  PROVE  [Contract!Next]_(Contract!cvars)
<1> DEFINE question == [t \in {"task"} |-> Asking]
           verdict == [t \in {"task"} |-> [c \in Call |-> Verdict(c)]]
           closed == {t \in {"task"} : Over}
<1>1. approved' = approved => verdict' = verdict
  BY DEF Verdict
<1>2. /\ (Over' <=> Over) => closed' = closed
      /\ Over' => closed' = closed \cup {"task"}
      /\ ~Over => "task" \notin closed
  OBVIOUS
<1>3. /\ question["task"] = Asking
      /\ question' = [question EXCEPT !["task"] = Asking']
  OBVIOUS
<1>4. CASE Silent
  BY <1>1, <1>2, <1>4 DEF Silent, Contract!cvars
<1>5. CASE Asks
  <2>1. verdict["task"][Asking'] = "none"
    BY <1>5 DEF Asks, Verdict
  <2>2. Contract!Wait("task", Asking')
    BY <1>1, <1>2, <1>3, <1>5, <2>1 DEF Asks, Contract!Wait
  <2> QED
    BY <1>5, <2>2 DEF Asks, Contract!Next
<1>6. CASE IsApproved
  <2>1. verdict' = [verdict EXCEPT !["task"][question["task"]] = "approved"]
    BY <1>6 DEF IsApproved, Verdict
  <2>2. Contract!Approve("task")
    BY <1>2, <1>3, <1>6, <2>1 DEF IsApproved, Contract!Approve
  <2> QED
    BY <2>2 DEF Contract!Next
<1>7. CASE Ends
  <2>1. Contract!Close("task")
    BY <1>1, <1>2, <1>3, <1>7 DEF Ends, Contract!Close
  <2> QED
    BY <2>1 DEF Contract!Next
<1> QED
  BY <1>4, <1>5, <1>6, <1>7

\* The tool loop, seen from its task, implements ApprovalContract: over any number
\* of runs, crashes, connections and retries it asks for one undecided call at a
\* time, an approval stays, and a task that is over asks nothing, although the run
\* learns of a cancellation only where it looks.
THEOREM LoopImplementsContract == Spec => ImplementsApprovals
<1>1. Init => Asked /\ Contract!Init
  BY DEF Init, Asked, Asking, Over, Verdict, Fresh, Contract!Init
<1>2. LoopInv /\ Asked /\ [Next]_vars => Asked' /\ [Contract!Next]_(Contract!cvars)
  BY StepAsks, ContractAction DEF LoopInv, TypeOK
<1> QED
  BY <1>1, <1>2, LoopInvariant, PTL DEF Spec, ImplementsApprovals, Contract!Spec
-----------------------------------------------------------------------------
(***************************************************************************)
(* A run comes closer to its end.                                          *)
(***************************************************************************)
Turned == run.turn <= MaxTurns

\* What a step of a run leads to.
ComesCloser == Turned' /\ (run'.pc = "idle" \/ Closer(run', run))

LEMMA FreshTurned ==
  ASSUME run' = Fresh("idle", FALSE) \/ \E b : run' = Fresh("turn", b)
  PROVE  Turned'
BY AgentLoopAssumption DEF Fresh, Turned

LEMMA EndsClose ==
  ASSUME \/ \E s : EndRun(s)
         \/ \E c, b : ParkRun(c, b)
  PROVE  ComesCloser
<1>1. run' = Fresh("idle", FALSE)
  BY DEF EndRun, ParkRun
<1> QED
  BY <1>1, FreshTurned DEF Fresh, ComesCloser

\* A turn more.
LEMMA TurnIsCloser ==
  ASSUME run \in Run, run.turn < MaxTurns, run'.turn = run.turn + 1
  PROVE  ComesCloser
<1>1. run.turn \in Nat /\ MaxTurns \in Nat
  BY AgentLoopAssumption DEF Run
<1> QED
  BY <1>1 DEF ComesCloser, Turned, Closer

\* A call of the completion less.
LEMMA CallIsCloser ==
  ASSUME run \in Run, Turned, run.batch # <<>>, run'.turn = run.turn,
         run'.batch = Tail(run.batch)
  PROVE  ComesCloser
<1>1. /\ run.batch \in Seq(Call)
      /\ Len(run'.batch) = Len(run.batch) - 1 /\ Len(run.batch) \in Nat
  BY HeadTailProperties DEF Run
<1> QED
  BY <1>1 DEF ComesCloser, Turned, Closer

\* A step of a call.
LEMMA StepIsCloser ==
  ASSUME Turned, run'.turn = run.turn, run'.batch = run.batch,
         Rank[run'.pc] < Rank[run.pc]
  PROVE  ComesCloser
BY DEF ComesCloser, Turned, Closer

LEMMA RunStepIsCloser ==
  ASSUME LoopInv, Turned, RunStep
  PROVE  ComesCloser
<1>1. run \in Run
  BY DEF LoopInv, TypeOK
<1>2. run.pc \in {"gate", "invoking", "outcome"} => run.batch # <<>>
  BY DEF LoopInv, HeadExists
<1>3. CASE \/ \E s : EndRun(s)
           \/ \E c, b : ParkRun(c, b)
  BY <1>3, EndsClose
<1>4. ASSUME NEW b \in Batches, TurnWithCalls(b)
      PROVE  ComesCloser
  <2>1. run.turn < MaxTurns /\ run'.turn = run.turn + 1
    BY <1>1, <1>4 DEF TurnWithCalls, Turns, Run
  <2> QED
    BY <1>1, <2>1, TurnIsCloser
<1>5. CASE TurnEmpty \/ TurnWithText
  <2>1. \/ EndRun("succeeded")
        \/ run.turn < MaxTurns /\ run'.turn = run.turn + 1
    BY <1>1, <1>5 DEF TurnEmpty, TurnWithText, Turns, Run
  <2> QED
    BY <1>1, <1>3, <2>1, TurnIsCloser
<1>6. CASE BeforeTool
  <2>1. \/ \E s : EndRun(s)
        \/ run.pc = "calls" /\ run'.pc = "gate" /\ run'.turn = run.turn
             /\ run'.batch = run.batch
    BY <1>1, <1>6 DEF BeforeTool, Run
  <2> QED
    BY <1>3, <2>1, StepIsCloser DEF Rank
<1>7. CASE ReplayCompleted \/ SurfaceUnknown
  BY <1>1, <1>7, PassesOver, CallIsCloser
<1>8. CASE RecordResult
  <2>1. \/ EndRun("failed")
        \/ run.batch # <<>> /\ run'.turn = run.turn /\ run'.batch = Tail(run.batch)
    BY <1>1, <1>2, <1>8 DEF RecordResult, NextCall, Run
  <2> QED
    BY <1>1, <1>3, <2>1, CallIsCloser
<1>9. CASE Invoke
  <2>1. /\ run.pc = "gate" /\ run'.pc \in {"invoking", "outcome"}
        /\ run'.turn = run.turn /\ run'.batch = run.batch
    BY <1>1, <1>9 DEF Invoke, Submitted, Run
  <2> QED
    BY <2>1, StepIsCloser DEF Rank
<1>10. ASSUME NEW o \in Outcome, ToolReturns(o) \/ ToolRepaired(o)
      PROVE  ComesCloser
  <2>1. /\ run.pc = "invoking" /\ run'.pc = "outcome"
        /\ run'.turn = run.turn /\ run'.batch = run.batch
    BY <1>1, <1>10 DEF ToolReturns, ToolRepaired, Submitted, Run
  <2> QED
    BY <2>1, StepIsCloser DEF Rank
<1>11. CASE EndBatch
  <2>1. \/ EndRun("succeeded")
        \/ run.pc = "calls" /\ run'.pc = "turn" /\ run'.turn = run.turn
             /\ run'.batch = run.batch
    BY <1>1, <1>11 DEF EndBatch, Run
  <2> QED
    BY <1>3, <2>1, StepIsCloser DEF Rank
<1>12. \/ \E s : EndRun(s)
       \/ \E c, b : ParkRun(c, b)
       \/ ~(TurnFails \/ TurnsExhausted \/ ObserveCancel \/ AskApproval
             \/ ToolRaises \/ AskConnection)
  BY DEF TurnFails, TurnsExhausted, ObserveCancel, AskApproval, ToolRaises,
     AskConnection
<1> QED
  BY <1>3, <1>4, <1>5, <1>6, <1>7, <1>8, <1>9, <1>10, <1>11,
     <1>12 DEF RunStep

\* Every step of a run ends it or brings it closer to its end, for any calls,
\* completions and limits: what a run that lives needs to come to an end is that
\* its steps are taken.
THEOREM RunsComeCloser == Spec => RunsShrink
<1>1. Init => Turned
  BY AgentLoopAssumption DEF Init, Fresh, Turned
<1>2. LoopInv /\ Turned /\ [Next]_vars => Turned'
  <2> SUFFICES ASSUME LoopInv, Turned, [Next]_vars
               PROVE  Turned'
    OBVIOUS
  <2>1. CASE RunStep
    BY <2>1, RunStepIsCloser DEF ComesCloser
  <2>2. CASE StartRun \/ Crash
    BY <2>2, FreshTurned DEF StartRun, Crash
  <2>3. CASE UNCHANGED run
    BY <2>3 DEF Turned
  <2> QED
    BY <2>1, <2>2, <2>3 DEF Next, Cancel, Resume, Retry, vars
<1>3. LoopInv /\ Turned /\ [Next]_vars
        => [/\ run'.turn <= MaxTurns
            /\ RunStep => run'.pc = "idle" \/ Closer(run', run)]_vars
  BY <1>2, RunStepIsCloser DEF Turned, ComesCloser
<1> QED
  BY <1>1, <1>2, <1>3, LoopInvariant, PTL DEF Spec, RunsShrink

-----------------------------------------------------------------------------
(***************************************************************************)
(* What the trifecta gate covers.                                          *)
(***************************************************************************)

\* Only the run of a reclaimed task is given a recorded result.
ReplaysAreLate == run.replayed # {} => run.pc # "idle" /\ task.attempts > 0

LEMMA RunReplaysLate ==
  ASSUME LoopInv, ReplaysAreLate, RunStep
  PROVE  ReplaysAreLate'
<1>1. run \in Run /\ task \in Task /\ run.pc # "idle"
  <2>1. run.pc # "idle"
    BY DEF RunStep, Turns, TurnWithCalls, TurnEmpty, TurnWithText, TurnFails,
       TurnsExhausted, ObserveCancel, BeforeTool, AskApproval, ReplayCompleted,
       SurfaceUnknown, Invoke, ToolReturns, ToolRepaired, ToolRaises,
       AskConnection, RecordResult, EndBatch
  <2> QED
    BY <2>1 DEF LoopInv, TypeOK
<1>2. CASE run' = Fresh("idle", FALSE)
  BY <1>2 DEF ReplaysAreLate, Fresh
<1>3. CASE ReplayCompleted
  <2>1. task' = task /\ run'.pc = "calls"
    BY <1>3, PassesOver DEF ReplayCompleted
  <2>2. task.attempts \in Nat \ {0}
    BY <1>1, <1>3 DEF ReplayCompleted, PriorAttempt, Task
  <2> QED
    BY <2>1, <2>2 DEF ReplaysAreLate
<1>4. CASE task' = task /\ run'.pc # "idle" /\ run'.replayed = run.replayed
  BY <1>4 DEF ReplaysAreLate
<1>5. \/ run' = Fresh("idle", FALSE) \/ ReplayCompleted
      \/ task' = task /\ run'.pc # "idle" /\ run'.replayed = run.replayed
  <2>1. CASE \/ \E b \in Batches : TurnWithCalls(b)
             \/ TurnEmpty \/ TurnWithText \/ TurnFails \/ TurnsExhausted
             \/ ObserveCancel
    BY <1>1, <2>1 DEF TurnWithCalls, TurnEmpty, TurnWithText, TurnFails,
       TurnsExhausted, ObserveCancel, EndRun, Run
  <2>2. CASE AskApproval \/ ToolRaises \/ AskConnection
    BY <2>2 DEF AskApproval, ToolRaises, AskConnection, EndRun, ParkRun
  <2>3. CASE BeforeTool \/ EndBatch
    BY <1>1, <2>3 DEF BeforeTool, EndBatch, EndRun, Run
  <2>4. CASE SurfaceUnknown
    BY <1>1, <2>4 DEF SurfaceUnknown, NextCall, Run
  <2>5. CASE Invoke
    BY <1>1, <2>5 DEF Invoke, Submitted, Run
  <2>6. CASE RecordResult
    BY <1>1, <2>6 DEF RecordResult, NextCall, EndRun, Run
  <2>7. CASE \E o \in Outcome : ToolReturns(o) \/ ToolRepaired(o)
    BY <1>1, <2>7 DEF ToolReturns, ToolRepaired, Submitted, Run
  <2> QED
    BY <2>1, <2>2, <2>3, <2>4, <2>5, <2>6, <2>7 DEF RunStep
<1> QED
  BY <1>2, <1>3, <1>4, <1>5

LEMMA StepReplaysLate ==
  ASSUME LoopInv, Asked, ReplaysAreLate, [Next]_vars
  PROVE  ReplaysAreLate'
<1>1. task \in Task
  BY DEF LoopInv, TypeOK
<1>2. CASE StartRun \/ Crash
  BY <1>2 DEF StartRun, Crash, ReplaysAreLate, Fresh
<1>3. CASE Cancel \/ Resume \/ UNCHANGED vars
  <2>1. run' = run /\ task'.attempts = task.attempts
    BY <1>1, <1>3 DEF Cancel, Resume, vars, Task
  <2> QED
    BY <2>1 DEF ReplaysAreLate
\* The attempts of a failed task are reset, but no run works on it.
<1>4. CASE Retry
  <2>1. run' = run /\ run.pc = "idle"
    BY <1>4 DEF Retry, Asked
  <2> QED
    BY <2>1 DEF ReplaysAreLate
<1> QED
  BY <1>2, <1>3, <1>4, RunReplaysLate DEF Next

\* After an own call has brought untrusted content into a run, no call goes
\* outward unapproved, from gate to invocation to repair; and in a task that was
\* never reclaimed, or was retried since, that is so after anything the model was
\* given (_arm_trifecta_if_untrusted).  What is replayed to a reclaimed run arms
\* no gate and is not covered.
THEOREM OutwardIsApproved == Spec => OutwardIsGated
<1>1. Init => Asked /\ ReplaysAreLate
  BY DEF Init, Asked, Asking, Fresh, ReplaysAreLate
<1>2. LoopInv /\ Asked /\ ReplaysAreLate /\ [Next]_vars => Asked' /\ ReplaysAreLate'
  BY StepAsks, StepReplaysLate
<1>3. LoopInv /\ ReplaysAreLate /\ [Next]_vars
        => [GatedAfter(IF task.attempts = 0 THEN InContext ELSE run.read)]_vars
  <2> SUFFICES ASSUME LoopInv, ReplaysAreLate, [Next]_vars
               PROVE  [GatedAfter(IF task.attempts = 0 THEN InContext
                                                       ELSE run.read)]_vars
    OBVIOUS
  <2>1. task.attempts = 0 => InContext = run.read
    BY DEF ReplaysAreLate, InContext
  <2>2. (IF task.attempts = 0 THEN InContext ELSE run.read) = run.read
    BY <2>1
  <2> QED
    BY <2>2, OwnResultsAreGated
<1> QED
  BY <1>1, <1>2, <1>3, LoopInvariant, PTL DEF Spec, OutwardIsGated
=============================================================================
