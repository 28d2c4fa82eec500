-------------------------- MODULE TriggerListener --------------------------
(***************************************************************************)
(* Events of connected apps becoming questions (kortny/composio/listener.py*)
(* trigger_ingress.py, trigger_subscriptions.py and the projection of      *)
(* witness/opportunities.py), under the ambient supervisor.                *)
(*                                                                         *)
(* Each replica runs one supervised loop.  The loop leads while its        *)
(* database connection holds a session-level advisory lock; the leader     *)
(* subscribes to Composio's socket.  A lock connection may die unnoticed:  *)
(* the database then gives the lock to another replica while the old       *)
(* leader still receives.  A socket thread handles an event in two         *)
(* transactions: it records the event, then projects it as a candidate of  *)
(* the owner's digest.  Administrators turn the trigger on and off.        *)
(*                                                                         *)
(* One connected account and one trigger of it, whose scorer decides `ask`.*)
(***************************************************************************)
EXTENDS Triggers

loops == <<loop, cut, holder, offline>>
rows == <<row, asked>>
triggers == <<upstream, created, sub, admin>>
vars == <<loops, thread, triggers, published, rows>>

Idle == [pc |-> "idle"]
-----------------------------------------------------------------------------
Init ==
  /\ offline \in Outages
  /\ loop = [r \in Replica |-> "waiting"]
  /\ cut = {}
  /\ holder = Nobody
  /\ thread = [h \in Thread |-> Idle]
  /\ upstream = {} /\ created = 0
  /\ sub = [status |-> "disabled", trigger |-> 0]
  /\ admin = [a \in Admin |-> Idle]
  /\ published = {}
  /\ row = [e \in Event |-> "none"]
  /\ asked = [e \in Event |-> 0]
-----------------------------------------------------------------------------
(***************************************************************************)
(* The loop of a replica.                                                  *)
(***************************************************************************)

\* A session that ends for want of a connection keeps the lock.
MutantReleased(r) == holder

\* pg_advisory_unlock; on a dead connection it fails, which is only logged.
Released(r) == IF holder = r THEN Nobody ELSE holder

\* _try_acquire_lock after the sleep of a parked or backed-off loop.
Acquire(r) ==
  /\ loop[r] = "waiting" /\ r \notin cut
  /\ holder \in {Nobody, r}
  /\ holder' = r
  /\ loop' = [loop EXCEPT ![r] = "connecting"]
  /\ UNCHANGED <<cut, offline, thread, triggers, published, rows>>

Subscribe(r) ==
  /\ loop[r] = "connecting" /\ r \notin offline
  /\ loop' = [loop EXCEPT ![r] = "listening"]
  /\ UNCHANGED <<cut, holder, offline, thread, triggers, published, rows>>

\* subscribe raises, or a health tick finds the subscription errored, dead or
\* stale; the session ends and the loop backs off.
EndSession(r) ==
  /\ loop[r] \in {"connecting", "listening"}
  /\ loop' = [loop EXCEPT ![r] = "waiting"]
  /\ holder' = Released(r)
  /\ UNCHANGED <<cut, offline, thread, triggers, published, rows>>

\* The next try on a dead lock connection raises: run_forever ends.
Escape(r) ==
  /\ loop[r] = "waiting" /\ r \in cut
  /\ loop' = [loop EXCEPT ![r] = "restarting"]
  /\ UNCHANGED <<cut, holder, offline, thread, triggers, published, rows>>

\* The supervisor, or the process that replaces a dead one, runs the loop
\* again on a new lock connection.
Restart(r) ==
  /\ loop[r] = "restarting"
  /\ loop' = [loop EXCEPT ![r] = "waiting"]
  /\ cut' = cut \ {r}
  /\ UNCHANGED <<holder, offline, thread, triggers, published, rows>>

\* The lock connection dies alone, or with the whole process.
LoseLock(r) ==
  /\ r \notin cut /\ loop[r] # "restarting"
  /\ cut' = cut \union {r}
  /\ holder' = IF holder = r THEN Nobody ELSE holder
  /\ loop' \in {loop, [loop EXCEPT ![r] = "restarting"]}
  /\ UNCHANGED <<offline, thread, triggers, published, rows>>

\* The hourly sweep of a listening replica deletes old events, not candidates.
Retention(r, e) ==
  /\ loop[r] = "listening" /\ row[e] # "none"
  /\ row' = [row EXCEPT ![e] = "none"]
  /\ UNCHANGED <<loops, thread, triggers, published, asked>>
-----------------------------------------------------------------------------
(***************************************************************************)
(* Socket threads.  They outlive the session that started them.            *)
(***************************************************************************)
At(h, pc, e) == thread[h] = [pc |-> pc, event |-> e]
Enter(h, pc, e) == thread' = [thread EXCEPT ![h] = [pc |-> pc, event |-> e]]
Leave(h) == thread' = [thread EXCEPT ![h] = Idle]

\* Every listening replica receives every event, possibly again.
Deliver(h, e) ==
  /\ thread[h] = Idle /\ e \in published
  /\ \E r \in Replica : loop[r] = "listening"
  /\ Enter(h, "record", e)
  /\ UNCHANGED <<loops, triggers, published, rows>>

\* Routing by trigger id, then by account: with one row both need it active.
Decision == IF sub.status = "active" THEN "ask" ELSE "unmatched"

\* A duplicate is dropped where it is found.
MutantProjects(e) == row[e] = "none" /\ Decision = "ask"

\* INSERT ... ON CONFLICT DO NOTHING returns the row that is there: whoever
\* recorded it, the decision on that row counts.
Projects(e) == (IF row[e] = "none" THEN Decision ELSE row[e]) = "ask"

\* The first transaction.
Record(h, e) ==
  /\ At(h, "record", e)
  /\ row' = [row EXCEPT ![e] = IF @ = "none" THEN Decision ELSE @]
  /\ IF Projects(e) THEN Enter(h, "look", e) ELSE Leave(h)
  /\ UNCHANGED <<loops, triggers, published, asked>>

\* The second one, once the owner's channel is open: the event is read again
\* and a candidate with its key looked for.
Look(h, e) ==
  /\ At(h, "look", e)
  /\ IF row[e] # "none" /\ asked[e] = 0 THEN Enter(h, "insert", e) ELSE Leave(h)
  /\ UNCHANGED <<loops, triggers, published, rows>>

\* The unique index refuses a second candidate; the error is logged.
Insert(h, e) ==
  /\ At(h, "insert", e)
  /\ asked' = [asked EXCEPT ![e] = IF @ = 0 THEN 1 ELSE @]
  /\ Leave(h)
  /\ UNCHANGED <<loops, triggers, published, row>>

\* The channel cannot be opened, a transaction fails, or the process dies: the
\* rest of the handling is dropped, and what was committed stays.
Fail(h) ==
  /\ thread[h].pc \notin {"idle", "failed"}
  /\ thread' = [thread EXCEPT ![h] = [pc |-> "failed"]]
  /\ UNCHANGED <<loops, triggers, published, rows>>

\* The error is logged, or the process is replaced.
Recover(h) ==
  /\ thread[h].pc = "failed"
  /\ Leave(h)
  /\ UNCHANGED <<loops, triggers, published, rows>>
-----------------------------------------------------------------------------
(***************************************************************************)
(* Administrators.                                                         *)
(***************************************************************************)
RowLocked == \E a \in Admin : admin[a].pc = "enabling"

\* Reads the status before it takes the row lock.
MutantMayCreate == sub.status # "active"

\* INSERT ... ON CONFLICT DO NOTHING, then SELECT ... FOR UPDATE; an active
\* row is left as it is.
MayCreate == ~RowLocked /\ sub.status # "active"

\* create_trigger, under the row lock.
Enable(a) ==
  /\ admin[a] = Idle
  /\ MayCreate
  /\ created < MaxTriggers
  /\ created' = created + 1
  /\ upstream' = upstream \union {created'}
  /\ admin' = [admin EXCEPT ![a] = [pc |-> "enabling", trigger |-> created']]
  /\ UNCHANGED <<sub, loops, thread, published, rows>>

CommitEnable(a) ==
  /\ admin[a].pc = "enabling"
  /\ sub' = [status |-> "active", trigger |-> admin[a].trigger]
  /\ admin' = [admin EXCEPT ![a] = Idle]
  /\ UNCHANGED <<upstream, created, loops, thread, published, rows>>

\* The row is read without a lock; a failing disable_trigger is only logged.
Disable(a) ==
  /\ admin[a] = Idle /\ a \in TurnsOff
  /\ sub.status = "active"
  /\ upstream' \in {upstream \ {sub.trigger}} \union
                   (IF "failed_disable" \in Faults THEN {upstream} ELSE {})
  /\ admin' = [admin EXCEPT ![a] = [pc |-> "disabling", trigger |-> sub.trigger]]
  /\ UNCHANGED <<created, sub, loops, thread, published, rows>>

CommitDisable(a) ==
  /\ admin[a].pc = "disabling" /\ ~RowLocked
  /\ sub' = [sub EXCEPT !.status = "disabled"]
  /\ admin' = [admin EXCEPT ![a] = Idle]
  /\ UNCHANGED <<upstream, created, loops, thread, published, rows>>

\* The request dies before its commit, or create_trigger's answer is lost.
AbortAdmin(a) ==
  /\ admin[a] # Idle
  /\ admin[a].pc = "enabling" => "lost_enable" \in Faults
  /\ admin' = [admin EXCEPT ![a] = Idle]
  /\ UNCHANGED <<upstream, created, sub, loops, thread, published, rows>>

\* Something happens in the connected app: every instance that is on sees it.
Occur(o) ==
  /\ o \notin {e[2] : e \in published}
  /\ upstream # {}
  /\ published' = published \union (upstream \X {o})
  /\ UNCHANGED <<loops, thread, triggers, rows>>
-----------------------------------------------------------------------------
Handle(h, e) == Deliver(h, e) \/ Record(h, e) \/ Look(h, e) \/ Insert(h, e)

Next ==
  \/ \E r \in Replica : \/ Acquire(r) \/ Subscribe(r) \/ EndSession(r)
                        \/ Escape(r) \/ Restart(r) \/ LoseLock(r)
                        \/ \E e \in Event : Retention(r, e)
  \/ \E h \in Thread : Fail(h) \/ Recover(h) \/ \E e \in Event : Handle(h, e)
  \/ \E a \in Admin : \/ Enable(a) \/ CommitEnable(a)
                      \/ Disable(a) \/ CommitDisable(a) \/ AbortAdmin(a)
  \/ \E o \in Occurrence : Occur(o)

Spec == Init /\ [][Next]_vars

\* Sleeps and the connect timeout are bounded, so a loop goes on; a lock that is
\* free again and again is got by a replica that tries every fifteen seconds,
\* since the backoff of one that fails grows past that.  A thread takes its
\* next step or fails.
FairSpec ==
  /\ Spec
  /\ \A r \in Replica :
       /\ WF_vars(Escape(r)) /\ WF_vars(Restart(r))
       /\ WF_vars(loop[r] = "connecting" /\ EndSession(r))
       /\ SF_vars(r \notin offline /\ Acquire(r)) /\ SF_vars(Subscribe(r))
  /\ \A h \in Thread :
       WF_vars(Recover(h) \/
         \E e \in Event : Record(h, e) \/ Look(h, e) \/ Insert(h, e))
-----------------------------------------------------------------------------
(***************************************************************************)
(* Properties; AskedOnce is in Triggers.                                   *)
(***************************************************************************)

\* If one replica that can reach Composio keeps its lock connection from some
\* time on, somebody listens again and again: whatever happens to the others'
\* connections, and although one of them may get the lock and never connect
\* (run_forever gives the lock back before it backs off).
SomeoneListens ==
  \A r \in Replica :
    <>[](r \notin offline \union cut /\ loop[r] # "restarting") =>
      []<>(\E q \in Replica : loop[q] = "listening")

\* An event that was recorded and never projected is made up for when it is
\* delivered again and again and the errors end, unless retention takes its row
\* first (ingest_trigger_event returns the existing row to its caller).
RedeliveryHeals ==
  \A e \in Event :
    /\ []<><<\E h \in Thread : Deliver(h, e)>>_vars
    /\ <>[](\A h \in Thread : thread[h].pc # "failed")
    => (row[e] = "ask" ~> asked[e] > 0 \/ row[e] = "none")
=============================================================================
