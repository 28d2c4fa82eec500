----------------------- MODULE SandboxSessionsProofs -----------------------
(***************************************************************************)
(* Theorems about SandboxSessions, for any containers, tasks, clients,     *)
(* limits and number of restarts.                                          *)
(***************************************************************************)
EXTENDS SandboxSessions, TLAPS

\* Where a client is while it opens a session.
OpenPhases == {"adopting", "creating", "starting"}

\* Containers that only this process knows of and means to keep.
Own(b) ==
  \/ \E r \in sessions : r.box = b /\ ~r.adopted
  \/ \E c \in Client : client[c].pc = "starting" /\ client[c].box = b

\* Who opens a session has the lock, and the task has no session yet.
OpenersHoldLock ==
  \A c \in Client : client[c].pc \in OpenPhases =>
    lock = c /\ \A r \in sessions : r.task # TaskOf[c]

\* A container has the label of the task it is opened or registered for.
RecordsMatch ==
  \A r \in sessions : box[r.box].task = r.task /\ box[r.box].state # "none"

OpenersMatch ==
  \A c \in Client :
    /\ client[c].pc \in {"adopting", "starting"} =>
         /\ client[c].box \in Box
         /\ box[client[c].box].task = TaskOf[c]
         /\ box[client[c].box].state # "none"
    /\ client[c].pc = "starting" => box[client[c].box].age = 0

\* What the reaper and the collector are about to remove is not ours.
DoomedAreOthers ==
  \A b \in reaper.doomed \cup gc.doomed : box[b].state # "none" /\ ~Own(b)

\* Between its two looks the reaper knows our containers, or they are too
\* young for it.
KnownOrYoung ==
  reaper.pc = "expired" =>
    \A b \in Box : Own(b) => b \in reaper.known \/ box[b].age = 0

SandboxInv ==
  /\ TypeOK /\ OpenersHoldLock /\ RecordsMatch /\ OpenersMatch
  /\ OneSessionPerTask /\ SessionHasContainer
  /\ DoomedAreOthers /\ KnownOrYoung

-----------------------------------------------------------------------------
LEMMA CapIsNat == Cap \in Nat /\ Idle > 0
<1>1. Limits \subseteq Nat /\ Idle > 0
  BY SandboxAssumption DEF Limits
<1>2. \E n \in Limits : \A k \in Limits : n >= k
  <2>1. /\ Idle \in Nat /\ MaxAge \in Nat /\ GcAge \in Nat /\ OrphanAge \in Nat
    BY SandboxAssumption DEF Limits
  <2>2. /\ \E m \in {Idle, MaxAge} : m \in Nat /\ m >= Idle /\ m >= MaxAge
        /\ \E m \in {GcAge, OrphanAge} : m \in Nat /\ m >= GcAge /\ m >= OrphanAge
    BY <2>1
  <2>3. \E n \in Limits : /\ n >= Idle /\ n >= MaxAge
                          /\ n >= GcAge /\ n >= OrphanAge
    BY <2>1, <2>2 DEF Limits
  <2> QED
    BY <2>3 DEF Limits
<1> DEFINE top == CHOOSE n \in Limits : \A k \in Limits : n >= k
<1>3. top \in Limits /\ Cap = 1 + top
  BY <1>2 DEF Cap
<1> HIDE DEF top
<1> QED
  BY <1>1, <1>3

\* Records that take the place of others of the same container and task.
LEMMA Kept ==
  ASSUME SandboxInv, NEW f,
         \A r \in sessions : /\ f[r] \in SessionRecord
                             /\ f[r].box = r.box /\ f[r].task = r.task
                             /\ f[r].adopted = r.adopted,
         sessions' = {f[r] : r \in sessions}
  PROVE  /\ sessions' \subseteq SessionRecord /\ OneSessionPerTask'
         /\ \A x \in sessions' : \E r \in sessions :
              x.box = r.box /\ x.task = r.task /\ x.adopted = r.adopted
  BY DEF SandboxInv, OneSessionPerTask

\* A step that opens nothing, and neither removes nor dooms what is ours.
LEMMA CalmKeeps ==
  ASSUME SandboxInv, TypeOK', OneSessionPerTask',
         \A x \in sessions' : \E r \in sessions :
           x.box = r.box /\ x.task = r.task /\ x.adopted = r.adopted,
         \A c \in Client : client'[c].pc \in OpenPhases =>
           /\ client'[c].pc = client[c].pc /\ client'[c].box = client[c].box
           /\ lock' = lock,
         \A b \in Box : box[b].state # "none" =>
           box'[b].task = box[b].task /\ box'[b].state # "none",
         \/ \A b \in Box : box[b].state # "none" => box'[b].age = box[b].age
         \/ lock = NoOne /\ reaper'.pc = "idle",
         reaper'.doomed \cup gc'.doomed \subseteq reaper.doomed \cup gc.doomed,
         reaper'.pc = "expired" => reaper' = reaper,
         \A r \in sessions' :
           \/ r.adopted
           \/ /\ box'[r.box].state = box[r.box].state
              /\ \A c \in Client : client[c].pc = "closing" /\ client[c].box = r.box
                   => client'[c] = client[c]
           \/ \E c \in Client : client'[c].pc = "closing" /\ client'[c].box = r.box
  PROVE  SandboxInv'
<1>1. /\ sessions \subseteq SessionRecord /\ sessions' \subseteq SessionRecord
      /\ reaper.doomed \cup gc.doomed \subseteq Box
  BY DEF SandboxInv, TypeOK, Sweep
<1>2. \A b \in Box : Own(b)' => Own(b) /\ box[b].state # "none"
  BY DEF Own, OpenPhases, SandboxInv, RecordsMatch, OpenersMatch
<1>3. OpenersHoldLock'
  BY DEF SandboxInv, OpenersHoldLock
<1>4. RecordsMatch'
  BY <1>1 DEF SandboxInv, RecordsMatch, SessionRecord
<1>5. OpenersMatch'
  <2> SUFFICES ASSUME NEW c \in Client, client'[c].pc \in {"adopting", "starting"}
               PROVE  /\ client'[c].box \in Box
                      /\ box'[client'[c].box].task = TaskOf[c]
                      /\ box'[client'[c].box].state # "none"
                      /\ client'[c].pc = "starting" => box'[client'[c].box].age = 0
    BY DEF OpenersMatch
  <2>1. client'[c].pc = client[c].pc /\ client'[c].box = client[c].box
    BY DEF OpenPhases
  <2>2. lock # NoOne
    BY <2>1, SandboxAssumption DEF SandboxInv, OpenersHoldLock, OpenPhases
  <2> QED
    BY <2>1, <2>2 DEF SandboxInv, OpenersMatch
<1>6. SessionHasContainer'
  <2> SUFFICES ASSUME NEW x \in sessions', ~x.adopted
               PROVE  \/ box'[x.box].state = "running"
                      \/ \E c \in Client : client'[c].box = x.box
                                           /\ client'[c].pc = "closing"
    BY DEF SessionHasContainer
  <2>1. PICK r \in sessions : x.box = r.box /\ ~r.adopted
    OBVIOUS
  <2>2. \/ box[x.box].state = "running"
        \/ \E c \in Client : client[c].box = x.box /\ client[c].pc = "closing"
    BY <2>1 DEF SandboxInv, SessionHasContainer
  <2> QED
    BY <2>2
<1>7. DoomedAreOthers'
  BY <1>1, <1>2 DEF SandboxInv, DoomedAreOthers
<1>8. KnownOrYoung'
  BY <1>1, <1>2 DEF SandboxInv, KnownOrYoung
<1> QED
  BY <1>3, <1>4, <1>5, <1>6, <1>7, <1>8 DEF SandboxInv

-----------------------------------------------------------------------------
\* Removing containers changes their state only.
LEMMA RemovedFields ==
  ASSUME SandboxInv, NEW S
  PROVE  /\ Removed(S) \in [Box -> [state : {"none", "created", "running", "gone"},
                                    task : Task, age : Age]]
         /\ \A b \in Box :
              /\ Removed(S)[b].task = box[b].task
              /\ Removed(S)[b].age = box[b].age
              /\ Removed(S)[b].state = IF b \in S THEN "gone" ELSE box[b].state
  BY DEF SandboxInv, TypeOK, Removed

LEMMA RestIsTyped ==
  /\ \A h \in Box \cup {NoBox} :
       AtRest(h) \in [pc : {"idle", "adopting", "creating", "starting", "closing"},
                      box : Box \cup {NoBox}, held : Box \cup {NoBox}]
  /\ \A h : AtRest(h).pc = "idle" /\ AtRest(h).held = h
  /\ Resting \in Sweep /\ Resting.pc = "idle" /\ Resting.doomed = {}
  BY DEF AtRest, Resting, Sweep

\* What a client does next to what it did leaves the other clients alone.
LEMMA ClientFields ==
  ASSUME SandboxInv, NEW c \in Client, NEW new,
         client' = [client EXCEPT ![c] = new]
  PROVE  \A d \in Client : client'[d] = IF d = c THEN new ELSE client[d]
  BY DEF SandboxInv, TypeOK

LEMMA InitSandbox == ASSUME Init PROVE SandboxInv
<1>1. 0 \in Age
  BY CapIsNat DEF Age
<1>2. (CHOOSE t \in Task : TRUE) \in Task
  BY SandboxAssumption
<1>3. /\ box \in [Box -> [state : {"none", "created", "running", "gone"},
                          task : Task, age : Age]]
  BY <1>1, <1>2 DEF Init
<1>4. /\ client \in [Client -> [pc : {"idle", "adopting", "creating", "starting",
                                      "closing"},
                                box : Box \cup {NoBox}, held : Box \cup {NoBox}]]
      /\ \A c \in Client : client[c].pc = "idle"
  BY RestIsTyped DEF Init
<1>5. TypeOK
  BY <1>3, <1>4, RestIsTyped, SandboxAssumption DEF Init, TypeOK
<1> QED
  BY <1>4, <1>5, RestIsTyped DEF Init, SandboxInv, OpenersHoldLock, RecordsMatch, OpenersMatch,
     OneSessionPerTask, SessionHasContainer, DoomedAreOthers, KnownOrYoung,
     OpenPhases

-----------------------------------------------------------------------------
\* A request or a sweep that ends without opening anything.
LEMMA ReuseKeeps ==
  ASSUME SandboxInv, NEW c \in Client, Reuse(c)
  PROVE  SandboxInv'
<1>1. PICK r \in OfTask(TaskOf[c]) :
        /\ sessions' = (sessions \ {r}) \cup {Touched(r)}
        /\ client' = [client EXCEPT ![c].held = r.box]
  BY DEF Reuse
<1>2. r \in sessions /\ sessions \subseteq SessionRecord /\ 0 \in Age
  BY CapIsNat DEF OfTask, SandboxInv, TypeOK, Age
<1>3. /\ Touched(r) \in SessionRecord /\ Touched(r).box = r.box
      /\ Touched(r).task = r.task /\ Touched(r).adopted = r.adopted
  BY <1>2 DEF Touched, SessionRecord
<1> DEFINE f == [x \in sessions |-> IF x = r THEN Touched(r) ELSE x]
<1>4. \A x \in sessions : /\ f[x] \in SessionRecord
                          /\ f[x].box = x.box /\ f[x].task = x.task
                          /\ f[x].adopted = x.adopted
  BY <1>2, <1>3
<1>5. sessions' = {f[x] : x \in sessions}
  <2>1. \A y : y \in sessions' <=> y = Touched(r) \/ (y \in sessions /\ y # r)
    BY <1>1
  <2>2. \A x \in sessions : f[x] = IF x = r THEN Touched(r) ELSE x
    OBVIOUS
  <2> HIDE DEF f
  <2> QED
    BY <1>2, <2>1, <2>2
<1> HIDE DEF f
<1>6. /\ sessions' \subseteq SessionRecord /\ OneSessionPerTask'
      /\ \A x \in sessions' : \E q \in sessions :
           x.box = q.box /\ x.task = q.task /\ x.adopted = q.adopted
  BY <1>4, <1>5, Kept
<1>7. /\ r.box \in Box
      /\ \A d \in Client : /\ client'[d].pc = client[d].pc
                           /\ client'[d].box = client[d].box
      /\ client' \in [Client -> [pc : {"idle", "adopting", "creating", "starting",
                                       "closing"},
                                 box : Box \cup {NoBox}, held : Box \cup {NoBox}]]
  BY <1>1, <1>2 DEF SandboxInv, TypeOK, SessionRecord
<1>8. /\ UNCHANGED <<box, lock, reaper, gc, due, restarts>>
      /\ opened' = opened \cup {c}
      /\ client[c].pc = "idle"
  BY DEF Reuse, Opens
<1>9. TypeOK'
  BY <1>6, <1>7, <1>8 DEF SandboxInv, TypeOK
<1>10. \A d \in Client : client[d].pc = "closing" => client'[d] = client[d]
  BY <1>1, <1>8 DEF SandboxInv, TypeOK
<1> QED
  BY <1>6, <1>7, <1>8, <1>9, <1>10, CalmKeeps

LEMMA UsingKeeps ==
  ASSUME SandboxInv, NEW c \in Client, Using(c)
  PROVE  SandboxInv'
<1>1. sessions \subseteq SessionRecord /\ 0 \in Age
  BY CapIsNat DEF SandboxInv, TypeOK, Age
<1>2. CASE Exec(c)
  <2> DEFINE f == [x \in sessions |-> IF x.box = client[c].held THEN Touched(x) ELSE x]
  <2>1. \A x \in sessions : /\ Touched(x) \in SessionRecord
                            /\ Touched(x).box = x.box /\ Touched(x).task = x.task
                            /\ Touched(x).adopted = x.adopted
    BY <1>1 DEF Touched, SessionRecord
  <2>2. \A x \in sessions : /\ f[x] \in SessionRecord
                            /\ f[x].box = x.box /\ f[x].task = x.task
                            /\ f[x].adopted = x.adopted
    BY <1>1, <2>1
  <2>3. sessions' = {f[x] : x \in sessions}
    BY <1>2 DEF Exec
  <2> HIDE DEF f
  <2>4. /\ sessions' \subseteq SessionRecord /\ OneSessionPerTask'
        /\ \A x \in sessions' : \E q \in sessions :
             x.box = q.box /\ x.task = q.task /\ x.adopted = q.adopted
    BY <2>2, <2>3, Kept
  <2>5. UNCHANGED <<box, lock, client, reaper, gc, due, opened, restarts>>
    BY <1>2 DEF Exec
  <2>6. TypeOK'
    BY <2>4, <2>5 DEF SandboxInv, TypeOK
  <2> QED
    BY <2>4, <2>5, <2>6, CalmKeeps
<1>3. CASE Leave(c)
  <2>1. /\ \A d \in Client : client'[d] = IF d = c THEN AtRest(NoBox) ELSE client[d]
        /\ client[c].pc = "idle"
        /\ UNCHANGED <<box, sessions, lock, reaper, gc, due, opened, restarts>>
    BY <1>3, ClientFields, ZenonT(30) DEF Leave
  <2>2. TypeOK' /\ OneSessionPerTask'
    BY <1>3, <2>1, RestIsTyped DEF Leave, SandboxInv, TypeOK, OneSessionPerTask
  <2> QED
    BY <2>1, <2>2, RestIsTyped, CalmKeeps DEF OpenPhases
<1>4. CASE BeginClose(c)
  <2> DEFINE new == [client[c] EXCEPT !.pc = "closing", !.box = client[c].held]
  <2>1. client[c] \in [pc : {"idle", "adopting", "creating", "starting", "closing"},
                       box : Box \cup {NoBox}, held : Box \cup {NoBox}]
    BY DEF SandboxInv, TypeOK
  <2>2. client' = [client EXCEPT ![c] = new]
    BY <1>4 DEF BeginClose
  <2>3. new.pc = "closing" /\ new \in [pc : {"idle", "adopting", "creating", "starting", "closing"},
                       box : Box \cup {NoBox}, held : Box \cup {NoBox}]
    BY <2>1
  <2> HIDE DEF new
  <2>4. /\ \A d \in Client : client'[d] = IF d = c THEN new ELSE client[d]
        /\ client[c].pc = "idle"
        /\ UNCHANGED <<box, sessions, lock, reaper, gc, due, opened, restarts>>
    BY <1>4, <2>2, ClientFields DEF BeginClose
  <2>5. TypeOK' /\ OneSessionPerTask'
    BY <2>2, <2>3, <2>4 DEF SandboxInv, TypeOK, OneSessionPerTask
  <2> QED
    BY <2>3, <2>4, <2>5, CalmKeeps DEF OpenPhases
<1>5. CASE RemoveClosed(c)
  <2>1. /\ box' = Removed({client[c].box}) /\ client[c].pc = "closing"
        /\ UNCHANGED <<sessions, lock, client, reaper, gc, due, opened, restarts>>
    BY <1>5 DEF RemoveClosed
  <2>2. TypeOK' /\ OneSessionPerTask'
    BY <2>1, RemovedFields DEF SandboxInv, TypeOK, OneSessionPerTask
  <2>3. \A b \in Box : /\ box'[b].task = box[b].task /\ box'[b].age = box[b].age
                       /\ box'[b].state = IF b \in {client[c].box} THEN "gone"
                                          ELSE box[b].state
    BY <2>1, RemovedFields
  <2>4. \A r \in sessions' : r.box \in Box
    BY <1>1, <2>1 DEF SessionRecord
  <2> QED
    BY <2>1, <2>2, <2>3, <2>4, CalmKeeps
<1>6. CASE ForgetClosed(c)
  <2>1. /\ \A d \in Client : client'[d] = IF d = c THEN AtRest(NoBox) ELSE client[d]
        /\ sessions' = sessions \ OfBox(client[c].box)
        /\ UNCHANGED <<box, lock, reaper, gc, due, opened, restarts>>
    BY <1>6, ClientFields DEF ForgetClosed
  <2>2. \A r \in sessions' : r \in sessions /\ r.box # client[c].box
    BY <2>1 DEF OfBox
  <2>3. TypeOK' /\ OneSessionPerTask'
    BY <1>6, <2>1, <2>2, RestIsTyped DEF ForgetClosed, SandboxInv, TypeOK,
       OneSessionPerTask
  <2> QED
    BY <2>1, <2>2, <2>3, RestIsTyped, CalmKeeps DEF OpenPhases
<1> QED
  BY <1>2, <1>3, <1>4, <1>5, <1>6 DEF Using

\* A request that fails, a runner that restarts, time that passes.
LEMMA FailKeeps ==
  ASSUME SandboxInv, NEW c \in Client, client[c].pc \in {"creating", "starting"},
         Fails(c), UNCHANGED <<sessions, reaper, gc, due, opened, restarts>>,
         TypeOK',
         \A b \in Box :
           /\ box[b].state # "none" =>
                box'[b].task = box[b].task /\ box'[b].age = box[b].age
           /\ box'[b].state # box[b].state =>
                box'[b].state # "none" /\ \A r \in sessions : r.box # b
  PROVE  SandboxInv'
<1>1. \A d \in Client : client'[d] = IF d = c THEN AtRest(NoBox) ELSE client[d]
  BY DEF Fails, SandboxInv, TypeOK
<1>2. \A d \in Client : client'[d].pc \in OpenPhases => FALSE
  <2>1. ASSUME NEW d \in Client, d # c, client[d].pc \in OpenPhases
        PROVE  FALSE
    BY <2>1 DEF SandboxInv, OpenersHoldLock, OpenPhases
  <2> QED
    BY <1>1, <2>1, RestIsTyped DEF OpenPhases
<1>3. OneSessionPerTask' /\ \A r \in sessions : r.box \in Box
  BY DEF SandboxInv, OneSessionPerTask, TypeOK, SessionRecord
<1>4. \A d \in Client : client[d].pc = "closing" => client'[d] = client[d]
  BY <1>1
<1> QED
  BY <1>2, <1>3, <1>4, CalmKeeps

LEMMA TimeKeeps ==
  ASSUME SandboxInv, TimePasses
  PROVE  SandboxInv'
<1>1. \A n \in Age : Older(n) \in Age
  BY CapIsNat DEF Older, Age
<1> DEFINE aged(x) == [x EXCEPT !.age = Older(x.age), !.idle = Older(x.idle)]
           f == [x \in sessions |-> aged(x)]
<1>2. \A x \in sessions : /\ aged(x) \in SessionRecord
                          /\ aged(x).box = x.box /\ aged(x).task = x.task
                          /\ aged(x).adopted = x.adopted
  BY <1>1 DEF SandboxInv, TypeOK, SessionRecord
<1>3. sessions' = {aged(x) : x \in sessions}
  BY DEF TimePasses
<1> HIDE DEF aged
<1>4. /\ \A x \in sessions : f[x] = aged(x)
      /\ sessions' = {f[x] : x \in sessions}
  BY <1>3
<1> HIDE DEF f
<1>5. /\ sessions' \subseteq SessionRecord /\ OneSessionPerTask'
      /\ \A x \in sessions' : \E q \in sessions :
           x.box = q.box /\ x.task = q.task /\ x.adopted = q.adopted
  BY <1>2, <1>4, Kept
<1>6. /\ lock = NoOne /\ reaper.pc = "idle" /\ due' = {"reaper", "gc"}
      /\ opened' = {} /\ UNCHANGED <<lock, client, reaper, gc, restarts>>
  BY DEF TimePasses
<1>7. \A b \in Box : /\ box'[b] \in [state : {"none", "created", "running", "gone"},
                                     task : Task, age : Age]
                     /\ box'[b].task = box[b].task /\ box'[b].state = box[b].state
  <2> SUFFICES ASSUME NEW b \in Box
               PROVE  /\ box'[b] \in [state : {"none", "created", "running", "gone"},
                                      task : Task, age : Age]
                      /\ box'[b].task = box[b].task
                      /\ box'[b].state = box[b].state
    OBVIOUS
  <2>1. /\ box[b] \in [state : {"none", "created", "running", "gone"},
                       task : Task, age : Age]
        /\ Older(box[b].age) \in Age
    BY <1>1 DEF SandboxInv, TypeOK
  <2>2. box'[b] = box[b] \/ box'[b] = [box[b] EXCEPT !.age = Older(box[b].age)]
    BY DEF TimePasses
  <2> QED
    BY <2>1, <2>2
<1>8. box' \in [Box -> [state : {"none", "created", "running", "gone"},
                        task : Task, age : Age]]
  BY <1>7 DEF TimePasses
<1>9. TypeOK' /\ \A r \in sessions' : r.box \in Box
  BY <1>5, <1>6, <1>8 DEF SandboxInv, TypeOK, SessionRecord
<1> QED
  BY <1>5, <1>6, <1>7, <1>9, CalmKeeps

LEMMA RestartKeeps ==
  ASSUME SandboxInv, Restart
  PROVE  SandboxInv'
<1>1. /\ sessions' = {} /\ lock' = NoOne /\ reaper' = Resting /\ gc' = Resting
      /\ due' = {"reaper", "gc"} /\ opened' = {} /\ box' = box
      /\ restarts < MaxRestarts /\ restarts' = restarts + 1
  BY DEF Restart
<1>2. \A d \in Client : client[d].held \in Box \cup {NoBox}
  BY DEF SandboxInv, TypeOK
<1>3. /\ client' \in [Client -> [pc : {"idle", "adopting", "creating", "starting",
                                       "closing"},
                                 box : Box \cup {NoBox}, held : Box \cup {NoBox}]]
      /\ \A d \in Client : client'[d].pc = "idle"
  BY <1>2, RestIsTyped DEF Restart
<1>4. TypeOK'
  BY <1>1, <1>3, RestIsTyped, SandboxAssumption DEF SandboxInv, TypeOK
<1>5. OneSessionPerTask'
  BY <1>1 DEF OneSessionPerTask
<1> QED
  BY <1>1, <1>3, <1>4, <1>5, RestIsTyped, CalmKeeps DEF OpenPhases

-----------------------------------------------------------------------------
\* Opening a session.
LEMMA LookKeeps ==
  ASSUME SandboxInv, NEW c \in Client, Look(c)
  PROVE  SandboxInv'
<1>1. PICK pc \in {"adopting", "creating"}, b \in Box \cup {NoBox} :
        /\ client' = [client EXCEPT ![c] = [client[c] EXCEPT !.pc = pc, !.box = b]]
        /\ pc = "adopting" => b \in Box /\ box[b].state = "running"
                              /\ box[b].task = TaskOf[c]
  <2>1. client[c] \in [pc : {"idle", "adopting", "creating", "starting", "closing"},
                       box : Box \cup {NoBox}, held : Box \cup {NoBox}]
    BY DEF SandboxInv, TypeOK
  <2>2. CASE client' = [client EXCEPT ![c].pc = "creating"]
    <3>1. client' = [client EXCEPT ![c] = [client[c] EXCEPT !.pc = "creating"]]
      BY <2>2
    <3>2. [client[c] EXCEPT !.pc = "creating"]
            = [client[c] EXCEPT !.pc = "creating", !.box = client[c].box]
      BY <2>1
    <3> QED
      BY <2>1, <3>1, <3>2
  <2>3. ASSUME NEW b \in Box, box[b].state = "running", box[b].task = TaskOf[c],
               client' = [client EXCEPT ![c].pc = "adopting", ![c].box = b]
        PROVE  client' = [client EXCEPT ![c] =
                            [client[c] EXCEPT !.pc = "adopting", !.box = b]]
    BY <2>3
  <2> QED
    BY <2>2, <2>3 DEF Look
<1> DEFINE new == [client[c] EXCEPT !.pc = pc, !.box = b]
<1>2. /\ new \in [pc : {"idle", "adopting", "creating", "starting", "closing"},
                  box : Box \cup {NoBox}, held : Box \cup {NoBox}]
      /\ new.pc = pc /\ new.box = b
  BY DEF SandboxInv, TypeOK
<1> HIDE DEF new
<1>3. /\ client' = [client EXCEPT ![c] = new]
      /\ \A d \in Client : client'[d] = IF d = c THEN new ELSE client[d]
  BY <1>1, ClientFields DEF new
<1>4. /\ client[c].pc = "idle" /\ lock = NoOne /\ lock' = c
      /\ opened' = opened \cup {c}
      /\ \A r \in sessions : r.task # TaskOf[c]
      /\ UNCHANGED <<box, sessions, reaper, gc, due, restarts>>
  BY DEF Look, Opens, OfTask
<1>5. TypeOK' /\ OneSessionPerTask'
  BY <1>2, <1>3, <1>4 DEF SandboxInv, TypeOK, OneSessionPerTask
<1>6. \A d \in Client : client[d].pc \notin OpenPhases
  BY <1>4, SandboxAssumption DEF SandboxInv, OpenersHoldLock
<1>7. OpenersHoldLock'
  BY <1>3, <1>4, <1>6 DEF OpenersHoldLock
<1>8. RecordsMatch' /\ OpenersMatch'
  BY <1>1, <1>2, <1>3, <1>4, <1>6 DEF SandboxInv, RecordsMatch, OpenersMatch, OpenPhases
<1>9. \A x \in Box : Own(x)' => Own(x)
  BY <1>2, <1>3, <1>4 DEF Own
<1>10. DoomedAreOthers' /\ KnownOrYoung'
  BY <1>4, <1>9 DEF SandboxInv, DoomedAreOthers, KnownOrYoung, TypeOK, Sweep
<1>11. SessionHasContainer'
  BY <1>3, <1>4 DEF SandboxInv, SessionHasContainer
<1> QED
  BY <1>5, <1>7, <1>8, <1>10, <1>11 DEF SandboxInv

\* The task and its container get the only record of each.
LEMMA RegisterKeeps ==
  ASSUME SandboxInv, NEW c \in Client, NEW adopted \in BOOLEAN,
         client[c].pc = IF adopted THEN "adopting" ELSE "starting",
         Registers(c, client[c].box, adopted),
         \A b \in Box :
           /\ box'[b].task = box[b].task /\ box'[b].age = box[b].age
           /\ box'[b].state = IF b = client[c].box /\ ~adopted THEN "running"
                                                               ELSE box[b].state,
         box' \in [Box -> [state : {"none", "created", "running", "gone"},
                           task : Task, age : Age]],
         UNCHANGED <<reaper, gc, due, opened, restarts>>
  PROVE  SandboxInv'
<1> DEFINE b == client[c].box
           new == NewRecord(b, TaskOf[c], adopted)
<1>1. /\ lock = c /\ \A r \in sessions : r.task # TaskOf[c]
      /\ b \in Box /\ box[b].task = TaskOf[c] /\ box[b].state # "none"
      /\ ~adopted => box[b].age = 0
  BY DEF SandboxInv, OpenersHoldLock, OpenersMatch, OpenPhases
<1>2. TaskOf[c] \in Task /\ 0 \in Age
  BY SandboxAssumption, CapIsNat DEF Age
<1>3. /\ new \in SessionRecord /\ new.box = b /\ new.task = TaskOf[c]
      /\ new.adopted = adopted
  BY <1>1, <1>2 DEF NewRecord, SessionRecord
<1>4. sessions' = sessions \cup {new} /\ lock' = NoOne
  BY DEF Registers
<1>5. \A d \in Client : client'[d] = IF d = c THEN AtRest(b) ELSE client[d]
  BY DEF Registers, SandboxInv, TypeOK
<1>6. client[c].pc \in OpenPhases
  BY DEF OpenPhases
<1>7. client' = [client EXCEPT ![c] = AtRest(b)]
  BY DEF Registers
<1> HIDE DEF b, new
<1>8. TypeOK'
  BY <1>1, <1>3, <1>4, <1>7, RestIsTyped DEF SandboxInv, TypeOK
<1>9. \A r \in sessions : r.box # b /\ r.box \in Box
  BY <1>1 DEF SandboxInv, RecordsMatch, TypeOK, SessionRecord
<1>10. OneSessionPerTask'
  BY <1>1, <1>3, <1>4, <1>9 DEF SandboxInv, OneSessionPerTask
<1>11. \A d \in Client : client'[d].pc \notin OpenPhases
  <2>1. ASSUME NEW d \in Client, d # c, client[d].pc \in OpenPhases
        PROVE  FALSE
    BY <1>1, <2>1 DEF SandboxInv, OpenersHoldLock
  <2> QED
    BY <1>5, <2>1, RestIsTyped DEF OpenPhases
<1>12. OpenersHoldLock' /\ OpenersMatch'
  BY <1>11 DEF OpenersHoldLock, OpenersMatch, OpenPhases
<1>13. RecordsMatch'
  BY <1>1, <1>3, <1>4, <1>9 DEF SandboxInv, RecordsMatch, b
<1>14. \A x \in Box : Own(x)' => Own(x)
  BY <1>3, <1>4, <1>11 DEF Own, OpenPhases, b
<1>15. DoomedAreOthers'
  <2>1. reaper.doomed \cup gc.doomed \subseteq Box
    BY DEF SandboxInv, TypeOK, Sweep
  <2> QED
    BY <1>14, <2>1 DEF SandboxInv, DoomedAreOthers
<1>16. KnownOrYoung'
  BY <1>14 DEF SandboxInv, KnownOrYoung
<1>17. SessionHasContainer'
  <2>1. ASSUME NEW r \in sessions
        PROVE  \/ r.adopted \/ box'[r.box].state = "running"
               \/ \E d \in Client : client'[d].box = r.box
                                    /\ client'[d].pc = "closing"
    BY <1>5, <1>6, <1>9 DEF SandboxInv, SessionHasContainer, OpenPhases, b
  <2>2. new.adopted \/ box'[new.box].state = "running"
    BY <1>1, <1>3 DEF b
  <2> QED
    BY <1>4, <2>1, <2>2 DEF SessionHasContainer
<1> QED
  BY <1>8, <1>10, <1>12, <1>13, <1>15, <1>16, <1>17 DEF SandboxInv

LEMMA CreateKeeps ==
  ASSUME SandboxInv, NEW c \in Client, Create(c)
  PROVE  SandboxInv'
<1>1. /\ client[c].pc = "creating"
      /\ UNCHANGED <<sessions, reaper, gc, due, opened, restarts>>
  BY DEF Create
<1>2. CASE Fails(c) /\ UNCHANGED box
  <2>1. TypeOK'
    BY <1>1, <1>2, RestIsTyped DEF Fails, SandboxInv, TypeOK
  <2> QED
    BY <1>1, <1>2, <2>1, FailKeeps
<1>3. ASSUME NEW b \in Box, box[b].state = "none",
             box' = [box EXCEPT ![b] = [state |-> "created", task |-> TaskOf[c],
                                        age |-> 0]],
             \/ /\ client' = [client EXCEPT ![c].pc = "starting", ![c].box = b]
                /\ UNCHANGED lock
             \/ Fails(c)
      PROVE  SandboxInv'
  <2> DEFINE fresh == [state |-> "created", task |-> TaskOf[c], age |-> 0]
  <2>1. /\ fresh \in [state : {"none", "created", "running", "gone"},
                      task : Task, age : Age]
        /\ fresh.state = "created" /\ fresh.task = TaskOf[c] /\ fresh.age = 0
    BY SandboxAssumption, CapIsNat DEF Age
  <2> HIDE DEF fresh
  <2>2. /\ box' \in [Box -> [state : {"none", "created", "running", "gone"},
                             task : Task, age : Age]]
        /\ \A x \in Box : box'[x] = IF x = b THEN fresh ELSE box[x]
    BY <1>3, <2>1 DEF SandboxInv, TypeOK, fresh
  <2>3. \A r \in sessions : r.box # b /\ r.box \in Box
    BY <1>3 DEF SandboxInv, RecordsMatch, TypeOK, SessionRecord
  <2>4. CASE Fails(c)
    <3>1. TypeOK'
      BY <1>1, <2>2, <2>4, RestIsTyped DEF Fails, SandboxInv, TypeOK
    <3>2. \A x \in Box :
            /\ box[x].state # "none" =>
                 box'[x].task = box[x].task /\ box'[x].age = box[x].age
            /\ box'[x].state # box[x].state =>
                 box'[x].state # "none" /\ \A r \in sessions : r.box # x
      BY <1>3, <2>1, <2>2, <2>3
    <3> QED
      BY <1>1, <2>4, <3>1, <3>2, FailKeeps
  <2>5. CASE /\ client' = [client EXCEPT ![c].pc = "starting", ![c].box = b]
             /\ UNCHANGED lock
    <3> DEFINE new == [client[c] EXCEPT !.pc = "starting", !.box = b]
    <3>1. /\ new \in [pc : {"idle", "adopting", "creating", "starting", "closing"},
                      box : Box \cup {NoBox}, held : Box \cup {NoBox}]
          /\ new.pc = "starting" /\ new.box = b
      BY DEF SandboxInv, TypeOK
    <3>2. client' = [client EXCEPT ![c] = new]
      BY <2>5
    <3> HIDE DEF new
    <3>3. \A d \in Client : client'[d] = IF d = c THEN new ELSE client[d]
      BY <3>2 DEF SandboxInv, TypeOK
    <3>4. TypeOK' /\ OneSessionPerTask'
      <4>1. client' \in [Client -> [pc : {"idle", "adopting", "creating",
                                         "starting", "closing"},
                                   box : Box \cup {NoBox},
                                   held : Box \cup {NoBox}]]
        BY <3>1, <3>2 DEF SandboxInv, TypeOK
      <4>2. UNCHANGED lock
        BY <2>5
      <4> QED
        BY <1>1, <2>2, <4>1, <4>2 DEF SandboxInv, TypeOK, OneSessionPerTask
    <3>5. /\ lock = c /\ \A r \in sessions : r.task # TaskOf[c]
          /\ \A d \in Client : d # c => client[d].pc \notin OpenPhases
      BY <1>1 DEF SandboxInv, OpenersHoldLock, OpenPhases
    <3>6. OpenersHoldLock'
      BY <1>1, <2>5, <3>3, <3>5 DEF OpenersHoldLock
    <3>7. RecordsMatch'
      BY <1>1, <2>2, <2>3 DEF SandboxInv, RecordsMatch
    <3>8. OpenersMatch'
      BY <2>1, <2>2, <3>1, <3>3, <3>5 DEF OpenersMatch, OpenPhases
    <3>9. \A x \in Box : Own(x)' => Own(x) \/ x = b
      BY <1>1, <3>1, <3>3 DEF Own
    <3>10. DoomedAreOthers'
      <4>1. \A x \in reaper.doomed \cup gc.doomed : x \in Box /\ x # b
        BY <1>3 DEF SandboxInv, TypeOK, Sweep, DoomedAreOthers
      <4> QED
        BY <1>1, <2>2, <3>9, <4>1 DEF SandboxInv, DoomedAreOthers
    <3>11. KnownOrYoung'
      BY <1>1, <2>1, <2>2, <3>9 DEF SandboxInv, KnownOrYoung
    <3>12. SessionHasContainer'
      BY <1>1, <2>2, <2>3, <3>3 DEF SandboxInv, SessionHasContainer
    <3> QED
      BY <3>4, <3>6, <3>7, <3>8, <3>10, <3>11, <3>12 DEF SandboxInv
  <2> QED
    BY <1>3, <2>4, <2>5
<1> QED
  BY <1>2, <1>3 DEF Create

LEMMA AdoptKeeps ==
  ASSUME SandboxInv, NEW c \in Client, Adopt(c)
  PROVE  SandboxInv'
<1>1. /\ client[c].pc = "adopting" /\ Registers(c, client[c].box, TRUE)
      /\ UNCHANGED <<box, reaper, gc, due, opened, restarts>>
  BY DEF Adopt
<1>2. /\ box' \in [Box -> [state : {"none", "created", "running", "gone"},
                           task : Task, age : Age]]
      /\ TRUE \in BOOLEAN
  BY <1>1 DEF SandboxInv, TypeOK
<1> QED
  BY <1>1, <1>2, RegisterKeeps

LEMMA StartKeeps ==
  ASSUME SandboxInv, NEW c \in Client, Start(c)
  PROVE  SandboxInv'
<1> DEFINE b == client[c].box
<1>1. /\ client[c].pc = "starting"
      /\ UNCHANGED <<reaper, gc, due, opened, restarts>>
  BY DEF Start
<1>2. /\ b \in Box /\ \A r \in sessions : r.box # b
  BY <1>1 DEF SandboxInv, OpenersMatch, OpenersHoldLock, RecordsMatch, OpenPhases
<1>3. \/ /\ box' = [box EXCEPT ![b].state = "running"]
         /\ Registers(c, b, FALSE)
      \/ (\E S \in SUBSET {b} : box' = Removed(S)) /\ Fails(c) /\ UNCHANGED sessions
      \/ /\ box' = [box EXCEPT ![b].state = "running"]
         /\ Fails(c) /\ UNCHANGED sessions
  BY DEF Start
<1>4. ASSUME box' = [box EXCEPT ![b].state = "running"]
      PROVE  /\ box' \in [Box -> [state : {"none", "created", "running", "gone"},
                                  task : Task, age : Age]]
             /\ \A x \in Box :
                  /\ box'[x].task = box[x].task /\ box'[x].age = box[x].age
                  /\ box'[x].state = IF x = b THEN "running" ELSE box[x].state
  <2> HIDE DEF b
  <2> QED
    BY <1>2, <1>4 DEF SandboxInv, TypeOK
<1>5. ASSUME NEW S \in SUBSET {b}, box' = Removed(S)
      PROVE  /\ box' \in [Box -> [state : {"none", "created", "running", "gone"},
                                  task : Task, age : Age]]
             /\ \A x \in Box :
                  /\ box'[x].task = box[x].task /\ box'[x].age = box[x].age
                  /\ x # b => box'[x].state = box[x].state
                  /\ box'[x].state # box[x].state => box'[x].state # "none"
  BY <1>5, RemovedFields
<1>6. CASE box' = [box EXCEPT ![b].state = "running"] /\ Registers(c, b, FALSE)
  <2>1. client[c].pc = IF FALSE THEN "adopting" ELSE "starting"
    BY <1>1
  <2>2. \A x \in Box :
          /\ box'[x].task = box[x].task /\ box'[x].age = box[x].age
          /\ box'[x].state = IF x = b /\ ~FALSE THEN "running" ELSE box[x].state
    BY <1>4, <1>6
  <2>3. /\ box' \in [Box -> [state : {"none", "created", "running", "gone"},
                             task : Task, age : Age]]
        /\ Registers(c, b, FALSE) /\ FALSE \in BOOLEAN
    BY <1>4, <1>6
  <2> QED
    BY <1>1, <2>1, <2>2, <2>3, RegisterKeeps
<1>7. ASSUME Fails(c), UNCHANGED sessions,
             \/ box' = [box EXCEPT ![b].state = "running"]
             \/ \E S \in SUBSET {b} : box' = Removed(S)
      PROVE  SandboxInv'
  <2>1. /\ box' \in [Box -> [state : {"none", "created", "running", "gone"},
                             task : Task, age : Age]]
        /\ \A x \in Box :
             /\ box'[x].task = box[x].task /\ box'[x].age = box[x].age
             /\ box'[x].state # box[x].state => box'[x].state # "none" /\ x = b
    BY <1>4, <1>5, <1>7, ZenonT(30)
  <2>2. TypeOK'
    BY <1>1, <1>7, <2>1, RestIsTyped DEF Fails, SandboxInv, TypeOK
  <2> QED
    BY <1>1, <1>2, <1>7, <2>1, <2>2, FailKeeps
<1> QED
  BY <1>3, <1>6, <1>7

-----------------------------------------------------------------------------
\* The sweeps.
LEMMA ReapExpiredKeeps ==
  ASSUME SandboxInv, ReapExpired
  PROVE  SandboxInv'
<1>1. /\ lock = NoOne /\ due' \subseteq due
      /\ sessions' = sessions \ Expired
      /\ UNCHANGED <<box, lock, client, gc, opened, restarts>>
  BY DEF ReapExpired
<1>2. /\ reaper'.pc = "expired"
      /\ reaper'.known = {r.box : r \in sessions \ Expired}
      /\ reaper'.doomed = {r.box : r \in Expired}
  BY DEF ReapExpired, Boxes
<1>3. /\ Expired \subseteq sessions /\ sessions \subseteq SessionRecord
      /\ \A r \in sessions : r.box \in Box
  BY DEF Expired, SandboxInv, TypeOK, SessionRecord
<1>4. reaper' \in Sweep
  <2>1. Boxes(sessions \ Expired) \in SUBSET Box /\ Boxes(Expired) \in SUBSET Box
    BY <1>3 DEF Boxes
  <2> QED
    BY <2>1 DEF ReapExpired, Sweep
<1>5. TypeOK' /\ OneSessionPerTask'
  BY <1>1, <1>3, <1>4 DEF SandboxInv, TypeOK, OneSessionPerTask
<1>6. \A c \in Client : client[c].pc \notin OpenPhases
  BY <1>1, SandboxAssumption DEF SandboxInv, OpenersHoldLock
<1>7. OpenersHoldLock' /\ RecordsMatch' /\ OpenersMatch'
  BY <1>1, <1>3 DEF SandboxInv, OpenersHoldLock, RecordsMatch, OpenersMatch
<1>8. SessionHasContainer'
  BY <1>1 DEF SandboxInv, SessionHasContainer
<1>9. \A b \in Box : Own(b)' => Own(b) /\ b \in reaper'.known /\ b \notin reaper'.doomed
  <2> SUFFICES ASSUME NEW b \in Box, Own(b)'
               PROVE  Own(b) /\ b \in reaper'.known /\ b \notin reaper'.doomed
    OBVIOUS
  <2>1. PICK r \in sessions \ Expired : r.box = b /\ ~r.adopted
    BY <1>1, <1>6 DEF Own, OpenPhases
  <2>2. \A q \in Expired : q.box # b
    BY <1>3, <2>1 DEF SandboxInv, OneSessionPerTask
  <2> QED
    BY <1>2, <2>1, <2>2 DEF Own
<1>10. DoomedAreOthers'
  <2> SUFFICES ASSUME NEW b \in reaper'.doomed \cup gc'.doomed
               PROVE  box'[b].state # "none" /\ ~(Own(b)')
    BY DEF DoomedAreOthers
  <2>1. b \in Box
    BY <1>1, <1>4 DEF SandboxInv, TypeOK, Sweep
  <2>2. CASE b \in reaper'.doomed
    BY <1>1, <1>2, <1>3, <1>9, <2>1, <2>2 DEF SandboxInv, RecordsMatch
  <2>3. CASE b \in gc'.doomed
    BY <1>1, <1>9, <2>1, <2>3 DEF SandboxInv, DoomedAreOthers
  <2> QED
    BY <2>2, <2>3
<1>11. KnownOrYoung'
  BY <1>9 DEF KnownOrYoung
<1> QED
  BY <1>5, <1>7, <1>8, <1>10, <1>11 DEF SandboxInv

\* Containers that another looked at before are gone, or some of them.
LEMMA RemovalSparesOwn ==
  ASSUME SandboxInv, NEW S \in SUBSET (reaper.doomed \cup gc.doomed),
         box' = Removed({b \in S : Exists(b)})
  PROVE  /\ box' \in [Box -> [state : {"none", "created", "running", "gone"},
                              task : Task, age : Age]]
         /\ \A b \in Box :
              /\ box'[b].task = box[b].task /\ box'[b].age = box[b].age
              /\ box[b].state # "none" => box'[b].state # "none"
              /\ Own(b) => box'[b].state = box[b].state
<1> DEFINE gone == {b \in S : Exists(b)}
<1>1. \A b \in gone : ~Own(b)
  BY DEF SandboxInv, DoomedAreOthers
<1>2. box' = Removed(gone)
  OBVIOUS
<1> HIDE DEF gone
<1>3. /\ Removed(gone) \in [Box -> [state : {"none", "created", "running", "gone"},
                                   task : Task, age : Age]]
      /\ \A b \in Box :
           /\ Removed(gone)[b].task = box[b].task
           /\ Removed(gone)[b].age = box[b].age
           /\ Removed(gone)[b].state = IF b \in gone THEN "gone" ELSE box[b].state
  BY RemovedFields
<1>4. \A b \in Box : Own(b) => b \notin gone
  BY <1>1
<1> QED
  BY <1>2, <1>3, <1>4

LEMMA ReapContainersKeeps ==
  ASSUME SandboxInv, ReapContainers
  PROVE  SandboxInv'
<1>1. /\ reaper.pc = "expired"
      /\ UNCHANGED <<sessions, lock, client, gc, due, opened, restarts>>
  BY DEF ReapContainers
<1>2. /\ box' \in [Box -> [state : {"none", "created", "running", "gone"},
                           task : Task, age : Age]]
      /\ \A b \in Box :
           /\ box'[b].task = box[b].task /\ box'[b].age = box[b].age
           /\ box[b].state # "none" => box'[b].state # "none"
           /\ Own(b) => box'[b].state = box[b].state
  <2>1. PICK S \in SUBSET reaper.doomed : box' = Removed({b \in S : Exists(b)})
    BY DEF ReapContainers
  <2>2. S \in SUBSET (reaper.doomed \cup gc.doomed)
    OBVIOUS
  <2> QED
    BY <2>1, <2>2, RemovalSparesOwn
<1>3. /\ reaper' \in Sweep /\ reaper'.pc = "removing"
      /\ reaper'.doomed \subseteq Orphans(reaper.known)
  <2> DEFINE doomed == {b \in Orphans(reaper.known) : box'[b] = box[b]}
  <2>1. doomed \in SUBSET Box /\ doomed \subseteq Orphans(reaper.known)
    BY DEF Orphans
  <2>2. reaper' = [pc |-> "removing", known |-> {}, doomed |-> doomed]
    BY DEF ReapContainers
  <2> HIDE DEF doomed
  <2> QED
    BY <2>1, <2>2 DEF Sweep
<1>4. TypeOK' /\ OneSessionPerTask'
  BY <1>1, <1>2, <1>3 DEF SandboxInv, TypeOK, OneSessionPerTask
<1>5. \A r \in sessions : r.box \in Box
  BY DEF SandboxInv, TypeOK, SessionRecord
<1>6. OpenersHoldLock' /\ RecordsMatch' /\ OpenersMatch'
  BY <1>1, <1>2, <1>5 DEF SandboxInv, OpenersHoldLock, RecordsMatch, OpenersMatch
<1>7. \A b \in Box : Own(b)' <=> Own(b)
  BY <1>1 DEF Own
<1>8. SessionHasContainer'
  <2>1. \A r \in sessions : r.adopted \/ Own(r.box)
    BY DEF Own
  <2> QED
    BY <1>1, <1>2, <1>5, <2>1 DEF SandboxInv, SessionHasContainer
<1>9. DoomedAreOthers'
  <2> SUFFICES ASSUME NEW b \in reaper'.doomed \cup gc'.doomed
               PROVE  box'[b].state # "none" /\ ~(Own(b)')
    BY DEF DoomedAreOthers
  <2>1. b \in Box
    BY <1>1, <1>3 DEF SandboxInv, TypeOK, Sweep
  <2>2. CASE b \in reaper'.doomed
    <3>1. b \notin reaper.known /\ Exists(b) /\ box[b].age > Idle
      BY <1>3, <2>2 DEF Orphans
    <3>2. box[b].state # "none" /\ box[b].age # 0
      BY <2>1, <3>1, CapIsNat, SandboxAssumption DEF Exists, Limits
    <3>3. ~Own(b)
      BY <1>1, <2>1, <3>1, <3>2 DEF SandboxInv, KnownOrYoung
    <3> QED
      BY <1>2, <1>7, <2>1, <3>2, <3>3
  <2>3. CASE b \in gc'.doomed
    BY <1>1, <1>2, <1>7, <2>1, <2>3 DEF SandboxInv, DoomedAreOthers
  <2> QED
    BY <2>2, <2>3
<1>10. KnownOrYoung'
  BY <1>3 DEF KnownOrYoung
<1> QED
  BY <1>4, <1>6, <1>8, <1>9, <1>10 DEF SandboxInv

\* The last part of a sweep removes what it listed.
LEMMA RemoveKeeps ==
  ASSUME SandboxInv, ReapOrphans \/ GcRemove
  PROVE  SandboxInv'
<1>1. /\ UNCHANGED <<sessions, lock, client, due, opened, restarts>>
      /\ \/ reaper' = Resting /\ gc' = gc
         \/ gc' = Resting /\ reaper' = reaper
  BY DEF ReapOrphans, GcRemove
<1>2. PICK S \in SUBSET (reaper.doomed \cup gc.doomed) :
        box' = Removed({b \in S : Exists(b)})
  <2>1. CASE ReapOrphans
    <3>1. PICK S \in SUBSET reaper.doomed : box' = Removed({b \in S : Exists(b)})
      BY <2>1 DEF ReapOrphans
    <3>2. S \in SUBSET (reaper.doomed \cup gc.doomed)
      OBVIOUS
    <3> QED
      BY <3>1, <3>2
  <2>2. CASE GcRemove
    <3>1. PICK S \in SUBSET gc.doomed : box' = Removed({b \in S : Exists(b)})
      BY <2>2 DEF GcRemove
    <3>2. S \in SUBSET (reaper.doomed \cup gc.doomed)
      OBVIOUS
    <3> QED
      BY <3>1, <3>2
  <2> QED
    BY <2>1, <2>2
<1>3. /\ box' \in [Box -> [state : {"none", "created", "running", "gone"},
                           task : Task, age : Age]]
      /\ \A b \in Box :
           /\ box'[b].task = box[b].task /\ box'[b].age = box[b].age
           /\ box[b].state # "none" => box'[b].state # "none"
           /\ Own(b) => box'[b].state = box[b].state
  BY <1>2, RemovalSparesOwn
<1>4. /\ reaper' \in Sweep /\ gc' \in Sweep
      /\ reaper'.doomed \cup gc'.doomed \subseteq reaper.doomed \cup gc.doomed
      /\ reaper'.pc = "expired" => reaper' = reaper
  BY <1>1, RestIsTyped DEF SandboxInv, TypeOK
<1>5. TypeOK' /\ OneSessionPerTask'
  BY <1>1, <1>3, <1>4 DEF SandboxInv, TypeOK, OneSessionPerTask
<1>6. \A r \in sessions : r.box \in Box /\ (r.adopted \/ Own(r.box))
  BY DEF SandboxInv, TypeOK, SessionRecord, Own
<1> QED
  BY <1>1, <1>3, <1>4, <1>5, <1>6, CalmKeeps

LEMMA GcListKeeps ==
  ASSUME SandboxInv, GcList
  PROVE  SandboxInv'
<1>1. /\ lock = NoOne /\ due' \subseteq due
      /\ UNCHANGED <<box, sessions, lock, client, reaper, opened, restarts>>
  BY DEF GcList
<1>2. /\ gc' \in Sweep
      /\ gc'.doomed = {b \in Box : ShouldReap(b, Boxes(sessions))}
  <2> DEFINE doomed == {b \in Box : ShouldReap(b, Boxes(sessions))}
  <2>1. doomed \in SUBSET Box
    OBVIOUS
  <2>2. gc' = [pc |-> "removing", known |-> {}, doomed |-> doomed]
    BY DEF GcList
  <2> HIDE DEF doomed
  <2>3. gc' \in Sweep /\ gc'.doomed = doomed
    BY <2>1, <2>2 DEF Sweep
  <2> QED
    BY <2>3 DEF doomed
<1>3. \A c \in Client : client[c].pc \notin OpenPhases
  BY <1>1, SandboxAssumption DEF SandboxInv, OpenersHoldLock
<1>4. TypeOK'
  BY <1>1, <1>2 DEF SandboxInv, TypeOK
<1>5. /\ OpenersHoldLock' /\ RecordsMatch' /\ OpenersMatch'
      /\ OneSessionPerTask' /\ SessionHasContainer'
  BY <1>1 DEF SandboxInv, OpenersHoldLock, RecordsMatch, OpenersMatch,
     OneSessionPerTask, SessionHasContainer
<1>6. \A b \in Box : Own(b)' <=> Own(b)
  BY <1>1 DEF Own
<1>7. \A b \in gc'.doomed : box[b].state # "none" /\ ~Own(b)
  BY <1>2, <1>3 DEF ShouldReap, Exists, Boxes, Own, OpenPhases
<1>8. DoomedAreOthers'
  <2>1. reaper.doomed \subseteq Box /\ gc'.doomed \subseteq Box
    BY <1>2 DEF SandboxInv, TypeOK, Sweep
  <2> QED
    BY <1>1, <1>6, <1>7, <2>1 DEF SandboxInv, DoomedAreOthers
<1>9. KnownOrYoung'
  BY <1>1, <1>6 DEF SandboxInv, KnownOrYoung
<1> QED
  BY <1>4, <1>5, <1>8, <1>9 DEF SandboxInv

-----------------------------------------------------------------------------
LEMMA SandboxInvariant == Spec => []SandboxInv
<1>1. Init => SandboxInv
  BY InitSandbox
<1>2. SandboxInv /\ [Next]_vars => SandboxInv'
  <2> SUFFICES ASSUME SandboxInv, [Next]_vars
               PROVE  SandboxInv'
    OBVIOUS
  <2>1. ASSUME NEW c \in Client, Opening(c)
        PROVE  SandboxInv'
    BY <2>1, ReuseKeeps, LookKeeps, AdoptKeeps, CreateKeeps, StartKeeps DEF Opening
  <2>2. CASE Sweeping
    BY <2>2, ReapExpiredKeeps, ReapContainersKeeps, RemoveKeeps, GcListKeeps
       DEF Sweeping
  <2>3. CASE UNCHANGED vars
    BY <2>3 DEF vars, SandboxInv, TypeOK, OpenersHoldLock, RecordsMatch,
       OpenersMatch, OneSessionPerTask, SessionHasContainer, DoomedAreOthers,
       KnownOrYoung, Own
  <2> QED
    BY <2>1, <2>2, <2>3, UsingKeeps, RestartKeeps, TimeKeeps DEF Next
<1> QED
  BY <1>1, <1>2, PTL DEF Spec

\* The model keeps to its types.
THEOREM SandboxTyped == Spec => []TypeOK
<1>1. SandboxInv => TypeOK
  BY DEF SandboxInv
<1> QED
  BY <1>1, SandboxInvariant, PTL

\* A task never has two sessions, a container never two records.
THEOREM SessionsAreSingle == Spec => []OneSessionPerTask
<1>1. SandboxInv => OneSessionPerTask
  BY DEF SandboxInv
<1> QED
  BY <1>1, SandboxInvariant, PTL

\* Neither the reaper nor the collector ever takes the container of a session
\* this process created.
THEOREM SessionsKeepContainers == Spec => []SessionHasContainer
<1>1. SandboxInv => SessionHasContainer
  BY DEF SandboxInv
<1> QED
  BY <1>1, SandboxInvariant, PTL
=============================================================================
