--------------------------- MODULE SandboxSessions ---------------------------
(***************************************************************************)
(* The sandbox runner: the registry of session containers                  *)
(* (kortny/sandbox_runner/sessions.py), its reaper, the container garbage  *)
(* collector (gc.py), the Docker daemon as they see it (docker_api.py) and *)
(* the workers that hold a session (tools/sandbox_workbench.py).           *)
(*                                                                         *)
(* Requests run in threads.  The registry has a lock; Docker is called     *)
(* with the lock held when a session is opened, and without it by the      *)
(* reaper, the collector and everybody else.  The registry is memory of    *)
(* the runner, the containers outlive it.                                  *)
(*                                                                         *)
(* Ages are counted up to Cap, which is past every limit.  Docker calls    *)
(* take seconds where the limits are half an hour and more: time passes    *)
(* between sweeps and openings, never inside one.                          *)
(***************************************************************************)
EXTENDS Integers, FiniteSets

CONSTANTS
  Box,          \* container ids
  Task,         \* session keys
  Client,       \* workers and code runs
  TaskOf,       \* the key each client opens
  Idle, MaxAge, \* of a session
  GcAge,        \* of a terminal container
  OrphanAge,    \* of a running container nobody owns
  MaxRestarts,  \* bound: restarts of the runner
  NoBox, NoOne

Limits == {Idle, MaxAge, GcAge, OrphanAge}
Cap == 1 + CHOOSE n \in Limits : \A k \in Limits : n >= k

ASSUME SandboxAssumption ==
  /\ Task # {} /\ TaskOf \in [Client -> Task]
  /\ Limits \subseteq Nat \ {0}
  /\ MaxRestarts \in Nat
  /\ NoBox \notin Box /\ NoOne \notin Client

VARIABLES
  box,       \* Docker: the containers labelled as sessions
  sessions,  \* SessionManager._sessions
  lock,      \* SessionManager._lock, when it is held across Docker calls
  client,    \* what each client is at, and the session it remembers
  reaper,    \* the session reaper: its snapshots
  gc,        \* the garbage collector: its snapshots
  due,       \* of the two, those whose interval is over
  opened,    \* bound: clients that opened a session since time last passed
  restarts   \* bound

vars == <<box, sessions, lock, client, reaper, gc, due, opened, restarts>>

Age == 0..Cap
SessionRecord == [box : Box, task : Task, age : Age, idle : Age,
                  adopted : BOOLEAN]   \* found after a restart, not created
Sweep == [pc : {"idle", "expired", "removing"},
          known : SUBSET Box, doomed : SUBSET Box]

TypeOK ==
  /\ box \in [Box -> [state : {"none", "created", "running", "gone"},
                      task : Task, age : Age]]
  /\ sessions \subseteq SessionRecord
  /\ lock \in Client \cup {NoOne}
  /\ client \in [Client -> [pc : {"idle", "adopting", "creating", "starting",
                                  "closing"},
                            box : Box \cup {NoBox},    \* at work on
                            held : Box \cup {NoBox}]]  \* the cached session
  /\ reaper \in Sweep /\ gc \in Sweep
  /\ due \subseteq {"reaper", "gc"} /\ opened \subseteq Client
  /\ restarts \in 0..MaxRestarts

Resting == [pc |-> "idle", known |-> {}, doomed |-> {}]
AtRest(held) == [pc |-> "idle", box |-> NoBox, held |-> held]

Init ==
  /\ box = [b \in Box |-> [state |-> "none", task |-> CHOOSE t \in Task : TRUE,
                           age |-> 0]]
  /\ sessions = {}
  /\ lock = NoOne
  /\ client = [c \in Client |-> AtRest(NoBox)]
  /\ reaper = Resting /\ gc = Resting /\ due = {} /\ opened = {}
  /\ restarts = 0
-----------------------------------------------------------------------------
Exists(b) == box[b].state \in {"created", "running"}
Boxes(S) == {r.box : r \in S}
OfTask(t) == {r \in sessions : r.task = t}
OfBox(b) == {r \in sessions : r.box = b}

NewRecord(b, t, adopted) ==
  [box |-> b, task |-> t, age |-> 0, idle |-> 0, adopted |-> adopted]

Touched(r) == [r EXCEPT !.idle = 0]

\* Docker removes the containers of S; a removal may fail or time out.
Removed(S) == [b \in Box |-> IF b \in S THEN [box[b] EXCEPT !.state = "gone"]
                                        ELSE box[b]]
-----------------------------------------------------------------------------
(***************************************************************************)
(* create_or_get, with the lock held throughout.                           *)
(***************************************************************************)
\* ensure() opens only when it has no session in its cache.
Opens(c) ==
  /\ client[c].pc = "idle" /\ client[c].held = NoBox /\ lock = NoOne
  /\ c \notin opened
  /\ opened' = opened \cup {c}

Reuse(c) ==
  /\ Opens(c)
  /\ \E r \in OfTask(TaskOf[c]) :
       /\ sessions' = (sessions \ {r}) \cup {Touched(r)}
       /\ client' = [client EXCEPT ![c].held = r.box]
  /\ UNCHANGED <<box, lock, reaper, gc, due, restarts>>

\* Asks Docker while others may enter.
MutantLook(c) ==
  /\ client[c].pc = "idle" /\ client[c].held = NoBox
  /\ c \notin opened
  /\ opened' = opened \cup {c}
  /\ OfTask(TaskOf[c]) = {}
  /\ \/ \E b \in Box :
          /\ box[b].state = "running" /\ box[b].task = TaskOf[c]
          /\ client' = [client EXCEPT ![c].pc = "adopting", ![c].box = b]
     \/ client' = [client EXCEPT ![c].pc = "creating"]
  /\ UNCHANGED <<box, sessions, lock, reaper, gc, due, restarts>>

\* No record: a running container with the label of the task is adopted.  A
\* listing that Docker refuses reads as empty.
Look(c) ==
  /\ Opens(c)
  /\ OfTask(TaskOf[c]) = {}
  /\ lock' = c
  /\ \/ \E b \in Box :
          /\ box[b].state = "running" /\ box[b].task = TaskOf[c]
          /\ client' = [client EXCEPT ![c].pc = "adopting", ![c].box = b]
     \/ client' = [client EXCEPT ![c].pc = "creating"]
  /\ UNCHANGED <<box, sessions, reaper, gc, due, restarts>>

Registers(c, b, adopted) ==
  /\ sessions' = sessions \cup {NewRecord(b, TaskOf[c], adopted)}
  /\ client' = [client EXCEPT ![c] = AtRest(b)]
  /\ lock' = NoOne

Adopt(c) ==
  /\ client[c].pc = "adopting"
  /\ Registers(c, client[c].box, TRUE)
  /\ UNCHANGED <<box, reaper, gc, due, opened, restarts>>

\* The lock is not released on the way out.
MutantFails(c) ==
  /\ client' = [client EXCEPT ![c] = AtRest(NoBox)]
  /\ UNCHANGED lock

Fails(c) ==
  /\ client' = [client EXCEPT ![c] = AtRest(NoBox)]
  /\ lock' = NoOne

\* The container is created; the answer may get lost, and with it the id.
Create(c) ==
  /\ client[c].pc = "creating"
  /\ \/ \E b \in Box :
          /\ box[b].state = "none"
          /\ box' = [box EXCEPT ![b] = [state |-> "created", task |-> TaskOf[c],
                                        age |-> 0]]
          /\ \/ /\ client' = [client EXCEPT ![c].pc = "starting", ![c].box = b]
                /\ UNCHANGED lock
             \/ Fails(c)
     \/ Fails(c) /\ UNCHANGED box
  /\ UNCHANGED <<sessions, reaper, gc, due, opened, restarts>>

\* Started and registered, or (tentatively) removed.
Start(c) ==
  LET b == client[c].box IN
  /\ client[c].pc = "starting"
  /\ \/ /\ box[b].state = "created"
        /\ box' = [box EXCEPT ![b].state = "running"]
        /\ Registers(c, b, FALSE)
     \/ /\ \E S \in SUBSET {b} : box' = Removed(S)
        /\ Fails(c) /\ UNCHANGED sessions
     \/ \* started, but the answer is lost and so is the removal
        /\ box[b].state = "created"
        /\ box' = [box EXCEPT ![b].state = "running"]
        /\ Fails(c) /\ UNCHANGED sessions
  /\ UNCHANGED <<reaper, gc, due, opened, restarts>>
-----------------------------------------------------------------------------
(***************************************************************************)
(* Using and closing a session.                                            *)
(***************************************************************************)
\* exec, read, write and export look the record up, let go of the lock, and
\* stamp the record when they are over, whatever the outcome.  Docker is at
\* work in between, and the record may be gone by then.
Exec(c) ==
  LET b == client[c].held IN
  /\ client[c].pc = "idle" /\ b # NoBox /\ lock = NoOne
  /\ OfBox(b) # {}
  /\ sessions' = {IF r.box = b THEN Touched(r) ELSE r : r \in sessions}
  /\ UNCHANGED <<box, lock, client, reaper, gc, due, opened, restarts>>

BeginClose(c) ==
  LET b == client[c].held IN
  /\ client[c].pc = "idle" /\ b # NoBox /\ lock = NoOne
  /\ OfBox(b) # {}
  /\ client' = [client EXCEPT ![c].pc = "closing", ![c].box = b]
  /\ UNCHANGED <<box, sessions, lock, reaper, gc, due, opened, restarts>>

\* The container goes first (or Docker fails), then the record.
RemoveClosed(c) ==
  /\ client[c].pc = "closing" /\ Exists(client[c].box)
  /\ box' = Removed({client[c].box})
  /\ UNCHANGED <<sessions, lock, client, reaper, gc, due, opened, restarts>>

ForgetClosed(c) ==
  /\ client[c].pc = "closing" /\ lock = NoOne
  /\ sessions' = sessions \ OfBox(client[c].box)
  /\ client' = [client EXCEPT ![c] = AtRest(NoBox)]
  /\ UNCHANGED <<box, lock, reaper, gc, due, opened, restarts>>

\* The run of the worker ends; a later run asks for the session again.
Leave(c) ==
  /\ client[c].pc = "idle" /\ client[c].held # NoBox
  /\ client' = [client EXCEPT ![c] = AtRest(NoBox)]
  /\ UNCHANGED <<box, sessions, lock, reaper, gc, due, opened, restarts>>
-----------------------------------------------------------------------------
(***************************************************************************)
(* The reaper and the garbage collector.                                   *)
(***************************************************************************)
Expired == {r \in sessions : r.idle > Idle \/ r.age > MaxAge}

\* Under the lock: expired records are popped, the others are noted.
ReapExpired ==
  /\ "reaper" \in due /\ lock = NoOne
  /\ due' = due \ {"reaper"}
  /\ sessions' = sessions \ Expired
  /\ reaper' = [pc |-> "expired", known |-> Boxes(sessions \ Expired),
                doomed |-> Boxes(Expired)]
  /\ UNCHANGED <<box, lock, client, gc, opened, restarts>>

\* Age is not looked at.
MutantOrphans(known) == {b \in Box \ known : Exists(b)}

Orphans(known) == {b \in Box \ known : Exists(b) /\ box[b].age > Idle}

\* Then, without the lock, their containers are removed, and all containers
\* are listed against the snapshot.  The records are gone even if it fails.
ReapContainers ==
  /\ reaper.pc = "expired"
  /\ \E S \in SUBSET reaper.doomed : box' = Removed({b \in S : Exists(b)})
  /\ reaper' = [pc |-> "removing", known |-> {},
                doomed |-> {b \in Orphans(reaper.known) : box'[b] = box[b]}]
  /\ UNCHANGED <<sessions, lock, client, gc, due, opened, restarts>>

ReapOrphans ==
  /\ reaper.pc = "removing"
  /\ \E S \in SUBSET reaper.doomed : box' = Removed({b \in S : Exists(b)})
  /\ reaper' = Resting
  /\ UNCHANGED <<sessions, lock, client, gc, due, opened, restarts>>

ShouldReap(b, live) ==
  /\ b \notin live /\ Exists(b)
  /\ box[b].age > (IF box[b].state = "running" THEN OrphanAge ELSE GcAge)

\* The owned containers are asked for, then all are listed.
GcList ==
  /\ "gc" \in due /\ lock = NoOne
  /\ due' = due \ {"gc"}
  /\ gc' = [pc |-> "removing", known |-> {},
            doomed |-> {b \in Box : ShouldReap(b, Boxes(sessions))}]
  /\ UNCHANGED <<box, sessions, lock, client, reaper, opened, restarts>>

GcRemove ==
  /\ gc.pc = "removing"
  /\ \E S \in SUBSET gc.doomed : box' = Removed({b \in S : Exists(b)})
  /\ gc' = Resting
  /\ UNCHANGED <<sessions, lock, client, reaper, due, opened, restarts>>
-----------------------------------------------------------------------------
\* The runner is replaced: requests fail, workers keep what they remember.
Restart ==
  /\ restarts < MaxRestarts
  /\ restarts' = restarts + 1
  /\ sessions' = {} /\ lock' = NoOne
  /\ reaper' = Resting /\ gc' = Resting /\ due' = {"reaper", "gc"} /\ opened' = {}
  /\ client' = [c \in Client |-> AtRest(client[c].held)]
  /\ UNCHANGED box

Older(n) == IF n < Cap THEN n + 1 ELSE Cap

TimePasses ==
  /\ lock = NoOne /\ reaper.pc = "idle" /\ gc.pc = "idle" /\ due = {}
  /\ box' = [b \in Box |-> IF Exists(b) THEN [box[b] EXCEPT !.age = Older(@)]
                                        ELSE box[b]]
  /\ sessions' = {[r EXCEPT !.age = Older(@), !.idle = Older(@)] : r \in sessions}
  /\ due' = {"reaper", "gc"} /\ opened' = {}
  /\ UNCHANGED <<lock, client, reaper, gc, restarts>>
-----------------------------------------------------------------------------
Opening(c) == Reuse(c) \/ Look(c) \/ Adopt(c) \/ Create(c) \/ Start(c)
Using(c) == \/ Exec(c) \/ Leave(c)
            \/ BeginClose(c) \/ RemoveClosed(c) \/ ForgetClosed(c)
Sweeping == \/ ReapExpired \/ ReapContainers \/ ReapOrphans
            \/ GcList \/ GcRemove

Removing == \/ ReapContainers \/ ReapOrphans \/ GcRemove
            \/ \E c \in Client : RemoveClosed(c)

Next == \/ \E c \in Client : Opening(c) \/ Using(c)
        \/ Sweeping \/ Restart \/ TimePasses

Spec == Init /\ [][Next]_vars

\* Requests that started finish (they have timeouts), the two sweeps run
\* periodically, Docker does not refuse to remove a container for ever.
FairSpec ==
  /\ Spec
  /\ WF_vars(TimePasses)
  /\ \A c \in Client : WF_vars(Adopt(c) \/ Create(c) \/ Start(c) \/ ForgetClosed(c))
  /\ WF_vars(ReapExpired) /\ WF_vars(ReapContainers) /\ WF_vars(ReapOrphans)
  /\ WF_vars(GcList) /\ WF_vars(GcRemove)
  /\ \A b \in Box : SF_vars(Removing /\ Exists(b) /\ box'[b].state = "gone")
-----------------------------------------------------------------------------
\* A task has one session and a container one record, however many requests
\* open it at once and whatever survived a restart.
OneSessionPerTask ==
  \A r, q \in sessions : r.task = q.task \/ r.box = q.box => r = q

\* A session this process created has its container, whatever the reaper and
\* the collector saw before it was created (close removes it first).
SessionHasContainer ==
  \A r \in sessions :
    \/ r.adopted \/ box[r.box].state = "running"
    \/ \E c \in Client : client[c].box = r.box /\ client[c].pc = "closing"

\* A container is removed in the end: lost answers, failed removals, restarts
\* and clients that never close leak nothing.
NothingLeaks == \A b \in Box : Exists(b) ~> ~Exists(b)

\* gc.py: "Never reap a container the live SessionManager still owns": not
\* even one that was adopted after the collector had listed it.
OwnedIsKept ==
  [][\A r \in sessions : GcRemove => box'[r.box] = box[r.box]]_vars
=============================================================================
