------------------------------ MODULE Scheduler ------------------------------
(***************************************************************************)
(* Schedules becoming tasks (kortny/scheduler/service.py), while users     *)
(* command the same rows (kortny/scheduler/commands.py, tools/schedules.py)*)
(*                                                                         *)
(* A scheduler process polls.  One tick is one transaction: it takes a     *)
(* session-level advisory lock, claims due rows with SKIP LOCKED, writes   *)
(* tasks and next runs, gives the lock back and only then commits.  A user *)
(* session loads a row without locking it, may keep it for as long as an   *)
(* agent run lasts, and writes the columns its command changed.            *)
(*                                                                         *)
(* Time is a small natural number; the schedule's time zone changes its    *)
(* offset once, at ShiftAt, as a daylight-saving change does.              *)
(***************************************************************************)
EXTENDS Integers, FiniteSets, FiniteSetsExt

CONSTANTS
  Schedule, Scheduler,
  Session,            \* user sessions: chat commands and tools of a run
  Specs,              \* what a schedule may ask for
  Budgeted,           \* schedules with a positive planned cost ceiling
  Limit,              \* materialize_limit
  Window,             \* catch-up window
  Day, Week,          \* length of a local day, days of a local week
  ShiftAt, Before, After,  \* the offset change of the time zone
  Horizon,            \* bound: the last instant
  MaxCommands         \* bound: commands of users, and retries of tasks

Kinds == {"oneoff", "interval", "cron", "unsupported"}

ASSUME SchedulerAssumption ==
  /\ Budgeted \subseteq Schedule
  /\ Specs \subseteq [kind : Kinds, n : Nat, days : SUBSET Nat]
  /\ \A spec \in Specs : spec.kind = "interval" => spec.n > 0
  /\ {Limit, Day, Week} \subseteq Nat \ {0}
  /\ {Window, ShiftAt, Before, After, Horizon, MaxCommands} \subseteq Nat

VARIABLES
  now,
  row,       \* the schedules
  made,      \* how many task rows exist per schedule and fire time
  live,      \* fire times whose task is pending, running or waiting
  retried,   \* fire times whose task was retried by hand, once ended
  tick,      \* the transaction each scheduler process is in
  session,   \* the row each user session loaded
  commands,  \* bound: what users did so far
  cancelled  \* history: schedules a user cancelled

vars == <<now, row, made, live, retried, tick, session, commands, cancelled>>

NoTime == -1
Time == 0..Horizon
Row == [status : {"proposed", "active", "paused", "completed", "cancelled"},
        spec : Specs, next : Int]
-----------------------------------------------------------------------------
(***************************************************************************)
(* When a schedule runs next.                                              *)
(***************************************************************************)
Local(t) == t + (IF t < ShiftAt THEN Before ELSE After)

\* astimezone of a local time with fold 0: an hour that happens twice means
\* its first occurrence, one that never happens keeps the old offset.
ToUtc(w) == IF w - Before < ShiftAt \/ w - After < ShiftAt
            THEN w - Before ELSE w - After

OnCron(spec, w) == w % Day = spec.n /\ (w \div Day) % Week \in spec.days

\* Lets the fire time of today through although it is now.
MutantNextCron(spec, after) ==
  ToUtc(Min({w \in Local(after)..(Local(after) + Day * Week) : OnCron(spec, w)}))

\* The search compares local wall-clock times.
NextCron(spec, after) ==
  ToUtc(Min({w \in (Local(after) + 1)..(Local(after) + Day * Week) :
               OnCron(spec, w)}))

\* The grid the schedule started on, past `after`.
NextInterval(next, every, after) ==
  IF next > after THEN next
                  ELSE next + every * ((after - next) \div every + 1)

\* The first run of a new or edited schedule.
FirstRun(spec, at) ==
  CASE spec.kind = "cron"   -> NextCron(spec, at)
    [] spec.kind = "oneoff" -> spec.n
    [] OTHER                -> at + spec.n

\* _advance_after_run and _advance_without_run change the row alike.
Advanced(r, at) ==
  CASE r.spec.kind = "oneoff"   -> [r EXCEPT !.status = "completed",
                                             !.next = NoTime]
    [] r.spec.kind = "interval" -> [r EXCEPT !.next =
                                      NextInterval(@, r.spec.n, at)]
    [] OTHER                    -> [r EXCEPT !.next = NextCron(r.spec, at)]
-----------------------------------------------------------------------------
Idle == [pc |-> "idle", at |-> 0, rows |-> {}, made |-> {}]
NoRow == [status |-> "none"]

TypeOK ==
  /\ now \in Time
  /\ row \in [Schedule -> Row]
  /\ made \in [Schedule -> [Time -> Nat]]
  /\ live \in [Schedule -> SUBSET Time]
  /\ retried \in [Schedule -> SUBSET Time]
  /\ \A p \in Scheduler :
       /\ tick[p].pc \in {"idle", "locked", "unlocked"}
       /\ tick[p].at \in Time
       /\ tick[p].made \subseteq tick[p].rows /\ tick[p].rows \subseteq Schedule
  /\ \A u \in Session : session[u].row = NoRow \/ session[u].row \in Row
  /\ commands \in 0..MaxCommands
  /\ cancelled \subseteq Schedule

Init ==
  /\ now = 0
  /\ row \in {r \in [Schedule -> [status : {"proposed", "active"},
                                  spec : Specs, next : Time]] :
                \A s \in Schedule : r[s].next = FirstRun(r[s].spec, 0)}
  /\ made = [s \in Schedule |-> [t \in Time |-> 0]]
  /\ live = [s \in Schedule |-> {}]
  /\ retried = [s \in Schedule |-> {}]
  /\ tick = [p \in Scheduler |-> Idle]
  /\ session = [u \in Session |-> [of |-> CHOOSE s \in Schedule : TRUE,
                                   row |-> NoRow]]
  /\ commands = 0
  /\ cancelled = {}
-----------------------------------------------------------------------------
(***************************************************************************)
(* A tick.                                                                 *)
(***************************************************************************)
LockedRows == UNION {tick[p].rows : p \in Scheduler}

Due == {s \in Schedule : /\ row[s].status = "active"
                         /\ row[s].next # NoTime /\ row[s].next <= now
                         /\ s \notin LockedRows}

\* The oldest due rows, up to the limit; rows due at once come in any order.
Claims == {B \in SUBSET Due :
             /\ B # {} /\ Cardinality(B) <= Limit
             /\ Cardinality(B) < Limit => B = Due
             /\ \A s \in B, o \in Due \ B : row[s].next <= row[o].next}

\* Never looks for a live task.
MutantOverlap(s) == FALSE

Overlap(s) == live[s] # {} \/ retried[s] # {}

Missed(s) == row[s].next < now - Window

\* A row whose task still lives is left as it is, so it stays due.
Skipped(s) == Overlap(s)
Refused(s) == ~Overlap(s) /\ (\/ row[s].spec.kind = "unsupported"
                              \/ ~Missed(s) /\ s \notin Budgeted)
Runs(s) == ~Overlap(s) /\ ~Refused(s) /\ ~Missed(s)

\* A schedule that cannot run stays as it is.
MutantOutcome(s) ==
  IF Skipped(s) \/ Refused(s) THEN row[s] ELSE Advanced(row[s], now)

\* What the tick leaves in the row.
Outcome(s) ==
  IF Skipped(s) THEN row[s]
  ELSE IF Refused(s) THEN [row[s] EXCEPT !.status = "paused"]
  ELSE Advanced(row[s], now)

\* The advisory lock and the row locks are taken, everything is written and
\* nothing is committed.  A process that does not get the lock does nothing.
Begin(p) ==
  /\ tick[p] = Idle
  /\ \A q \in Scheduler : tick[q].pc # "locked"
  /\ \E B \in Claims :
       tick' = [tick EXCEPT ![p] =
         [pc |-> "locked", at |-> now, rows |-> B,
          made |-> {s \in B : Runs(s)},
          write |-> [s \in B |-> Outcome(s)],
          fire |-> [s \in B |-> row[s].next]]]
  /\ UNCHANGED <<now, row, made, live, retried, session, commands, cancelled>>

Unlock(p) ==
  /\ tick[p].pc = "locked"
  /\ tick' = [tick EXCEPT ![p].pc = "unlocked"]
  /\ UNCHANGED <<now, row, made, live, retried, session, commands, cancelled>>

\* Inserts without looking the identity key up.
MutantCreated(s, fire) == TRUE

\* create_task returns the row with the same identity (schedule, fire time) if
\* there is one, whatever its status.
Created(s, fire) == made[s][fire] = 0

Commit(p) ==
  LET t == tick[p]
      new == {s \in t.made : Created(s, t.fire[s])}
  IN
  /\ t.pc = "unlocked"
  /\ row' = [s \in Schedule |-> IF s \in t.rows THEN t.write[s] ELSE row[s]]
  /\ made' = [s \in Schedule |-> IF s \in new
                THEN [made[s] EXCEPT ![t.fire[s]] = @ + 1] ELSE made[s]]
  /\ live' = [s \in Schedule |-> IF s \in new
                THEN live[s] \cup {t.fire[s]} ELSE live[s]]
  /\ tick' = [tick EXCEPT ![p] = Idle]
  /\ UNCHANGED <<now, retried, session, commands, cancelled>>

\* The process dies: the transaction is rolled back, its locks are released.
Crash(p) ==
  /\ tick[p] # Idle
  /\ tick' = [tick EXCEPT ![p] = Idle]
  /\ UNCHANGED <<now, row, made, live, retried, session, commands, cancelled>>
-----------------------------------------------------------------------------
(***************************************************************************)
(* Users.                                                                  *)
(***************************************************************************)
Load(u, s) ==
  /\ commands < MaxCommands
  /\ row[s].status \in {"proposed", "active", "paused"}
  /\ session[u].row = NoRow
  /\ session' = [session EXCEPT ![u] = [of |-> s, row |-> row[s]]]
  /\ UNCHANGED <<now, row, made, live, retried, tick, commands, cancelled>>

\* Writes at once, over what an open tick has read.
MutantWrite(u, r) ==
  LET s == session[u].of
      old == session[u].row
  IN
  /\ commands < MaxCommands
  /\ old # NoRow
  /\ row' = [row EXCEPT ![s] =
       [status |-> IF r.status # old.status THEN r.status ELSE @.status,
        spec |-> IF r.spec # old.spec THEN r.spec ELSE @.spec,
        next |-> IF r.next # old.next THEN r.next ELSE @.next]]
  /\ session' = [session EXCEPT ![u].row = r]
  /\ commands' = commands + 1
  /\ cancelled' = IF r.status = "cancelled" THEN cancelled \cup {s} ELSE cancelled
  /\ UNCHANGED <<now, made, live, retried, tick>>

\* Only the attributes the command changed are updated; the UPDATE waits for
\* a tick that holds the row.  The session keeps what it wrote.
Write(u, r) ==
  LET s == session[u].of
      old == session[u].row
  IN
  /\ commands < MaxCommands
  /\ old # NoRow /\ s \notin LockedRows
  /\ row' = [row EXCEPT ![s] =
       [status |-> IF r.status # old.status THEN r.status ELSE @.status,
        spec |-> IF r.spec # old.spec THEN r.spec ELSE @.spec,
        next |-> IF r.next # old.next THEN r.next ELSE @.next]]
  /\ session' = [session EXCEPT ![u].row = r]
  /\ commands' = commands + 1
  /\ cancelled' = IF r.status = "cancelled" THEN cancelled \cup {s} ELSE cancelled
  /\ UNCHANGED <<now, made, live, retried, tick>>

Manageable(u) == session[u].row.status \in {"proposed", "active", "paused"}

Activate(u) ==
  /\ Manageable(u) /\ session[u].row.status = "proposed"
  /\ Write(u, [session[u].row EXCEPT !.status = "active"])

Pause(u) ==
  /\ Manageable(u) /\ session[u].row.status = "active"
  /\ Write(u, [session[u].row EXCEPT !.status = "paused"])

\* The tool asks for a next run, the chat command does not.
Resume(u) ==
  /\ Manageable(u) /\ session[u].row.status = "paused"
  /\ Write(u, [session[u].row EXCEPT !.status = "active"])

Cancel(u) ==
  /\ Manageable(u)
  /\ Write(u, [session[u].row EXCEPT !.status = "cancelled", !.next = NoTime])

\* The status stays what it was.
Edit(u, spec) ==
  /\ Manageable(u)
  /\ spec.kind = "oneoff" => spec.n > now
  /\ Write(u, [session[u].row EXCEPT !.spec = spec, !.next = FirstRun(spec, now)])

EndSession(u) ==
  /\ session[u].row # NoRow
  /\ session' = [session EXCEPT ![u].row = NoRow]
  /\ UNCHANGED <<now, row, made, live, retried, tick, commands, cancelled>>

\* The task of a fire time ends; a failed one may be retried by hand.
TaskEnds(s, f) ==
  /\ f \in live[s] \cup retried[s]
  /\ live' = [live EXCEPT ![s] = @ \ {f}]
  /\ retried' = [retried EXCEPT ![s] = @ \ {f}]
  /\ UNCHANGED <<now, row, made, tick, session, commands, cancelled>>

RetryTask(s, f) ==
  /\ commands < MaxCommands
  /\ made[s][f] > 0 /\ f \notin live[s] \cup retried[s]
  /\ retried' = [retried EXCEPT ![s] = @ \cup {f}]
  /\ commands' = commands + 1
  /\ UNCHANGED <<now, row, made, live, tick, session, cancelled>>

TimePasses ==
  /\ now < Horizon
  /\ now' = now + 1
  /\ UNCHANGED <<row, made, live, retried, tick, session, commands, cancelled>>
-----------------------------------------------------------------------------
Command(u) ==
  \/ \E s \in Schedule : Load(u, s)
  \/ Activate(u) \/ Pause(u) \/ Resume(u) \/ Cancel(u)
  \/ \E spec \in Specs : Edit(u, spec)
  \/ EndSession(u)

Ticks(p) == Begin(p) \/ Unlock(p) \/ Commit(p)
Ends == \E s \in Schedule, f \in Time : TaskEnds(s, f)

Next ==
  \/ \E p \in Scheduler : Ticks(p) \/ Crash(p)
  \/ \E u \in Session : Command(u)
  \/ Ends \/ \E s \in Schedule, f \in Time : RetryTask(s, f)
  \/ TimePasses

Spec == Init /\ [][Next]_vars

\* A process polls for ever and is restarted when it dies, not always in
\* mid-tick; tasks come to an end (TaskSettles of TaskLifecycle, and a user who
\* answers); the clock runs.
FairSpec ==
  /\ Spec
  /\ \A p \in Scheduler : WF_vars(Begin(p)) /\ SF_vars(Unlock(p)) /\ SF_vars(Commit(p))
  /\ \A s \in Schedule : \A f \in Time : WF_vars(TaskEnds(s, f))
  /\ WF_vars(TimePasses)
-----------------------------------------------------------------------------
\* A fire time becomes one task, whichever process ticks, dies or starts over,
\* and also in the hour that happens twice, where the next run of a schedule
\* is computed to be the one it just made.
OneTaskPerFire == \A s \in Schedule, f \in Time : made[s][f] <= 1

\* The ticks never leave two tasks of one schedule alive (retries can).
NoOverlap == \A s \in Schedule : Cardinality(live[s]) <= 1

\* "It will not run until resumed": a task is only born of a schedule that is
\* active at the instant the tick commits, not just when it was claimed.
BornOfActive ==
  [][\A s \in Schedule :
       live'[s] \ live[s] # {} => row[s].status = "active"]_vars

\* The second pass of an hour that happens twice.
Repeated(t) == \E u \in 0..(t - 1) : Local(u) = Local(t)

\* Whether the spec, last due at `due`, asks for a run at t.
Asks(spec, due, t) ==
  IF spec.kind = "interval" THEN (t - due) % spec.n = 0
                            ELSE OnCron(spec, Local(t)) /\ ~Repeated(t)

\* A tick moves a recurring schedule to the first instant after the tick that
\* its spec asks for: none is skipped, none is in the past, however late the
\* tick is, also across a clock that is set back (but for a cron schedule
\* ticked in an hour that repeats).
AdvancesToNext ==
  [][\A s \in Schedule, p \in Scheduler :
       LET spec == row[s].spec
           at == tick[p].at
       IN tick[p].pc = "unlocked" /\ tick'[p].pc = "idle" /\ s \in tick[p].rows
            /\ row'[s].status = "active"
            /\ (row'[s] # row[s] \/ live'[s] # live[s])
            /\ (spec.kind = "cron" => ~Repeated(at))
          => /\ row'[s].next > at
             /\ Asks(spec, row[s].next, row'[s].next)
             /\ \A t \in (at + 1)..(row'[s].next - 1) :
                  ~Asks(spec, row[s].next, t)]_vars

\* A schedule that is due gets its run, or is moved on or stopped.
DueIsServed ==
  \A s \in Schedule :
    row[s].status = "active" /\ row[s].next \in Time /\ row[s].next <= now
      ~> ~(row[s].status = "active" /\ row[s].next \in Time /\ row[s].next <= now)

\* No schedule is in two sessions at a time.
SessionsApart ==
  \A u, v \in Session :
    /\ session[u].row # NoRow /\ session[v].row # NoRow
    /\ session[u].of = session[v].of
    => u = v

\* "Cancelled that scheduled task. It will not run again."
CancelledStaysQuiet ==
  [][\A s \in cancelled : live'[s] \subseteq live[s]]_vars
=============================================================================
