-------------------------- MODULE SchedulerProofs --------------------------
(***************************************************************************)
(* Theorems about Scheduler, for any schedules, processes, sessions and    *)
(* specs, any limit, window, time zone and horizon.                        *)
(*                                                                         *)
(* What an operator of the calendar returns plays no part in the first     *)
(* three: they hold whatever next run a tick or a command writes.  The     *)
(* last sections are about the run that is written, and need cron specs    *)
(* that come due at all.                                                   *)
(***************************************************************************)
EXTENDS Scheduler, FiniteSetTheorems, WellFoundedInduction, TLAPS

\* A transaction under way has claimed rows and means to make tasks for some.
IsTick(t) ==
  \/ t = Idle
  \/ \E pc \in {"locked", "unlocked"}, B \in SUBSET Schedule : \E M \in SUBSET B :
       \E at, w, f : t = [pc |-> pc, at |-> at, rows |-> B, made |-> M,
                          write |-> w, fire |-> f]

TablesTyped ==
  /\ row = [s \in Schedule |-> row[s]]
  /\ made \in [Schedule -> [Time -> Nat]]
  /\ live = [s \in Schedule |-> live[s]]
  /\ tick = [p \in Scheduler |-> tick[p]]
  /\ \A p \in Scheduler : IsTick(tick[p])

\* A row is in one transaction, active and, if it is to run, without a live
\* task for as long as the transaction takes.
RowsHeld ==
  /\ \A p, q \in Scheduler : p # q => tick[p].rows \cap tick[q].rows = {}
  /\ \A p \in Scheduler : \A s \in tick[p].rows : row[s].status = "active"
  /\ \A p \in Scheduler : \A s \in tick[p].made : live[s] = {}

AtMostOne == \A s \in Schedule : live[s] = {} \/ \E f : live[s] = {f}

FireInv == TablesTyped /\ RowsHeld /\ OneTaskPerFire /\ AtMostOne

-----------------------------------------------------------------------------
\* The fields of a transaction.
LEMMA TickFields ==
  ASSUME NEW t, IsTick(t)
  PROVE  /\ t.pc \in {"idle", "locked", "unlocked"}
         /\ t.rows \subseteq Schedule /\ t.made \subseteq t.rows
         /\ t.pc = "idle" => t = Idle
         /\ IsTick([t EXCEPT !.pc = "unlocked"]) \/ t = Idle
         /\ t # Idle => /\ [t EXCEPT !.pc = "unlocked"].rows = t.rows
                       /\ [t EXCEPT !.pc = "unlocked"].made = t.made
<1>1. CASE t = Idle
  BY <1>1 DEF Idle
<1>2. ASSUME NEW pc \in {"locked", "unlocked"}, NEW B \in SUBSET Schedule,
             NEW M \in SUBSET B, NEW at, NEW w, NEW f,
             t = [pc |-> pc, at |-> at, rows |-> B, made |-> M,
                  write |-> w, fire |-> f]
      PROVE  /\ t.pc \in {"locked", "unlocked"}
             /\ t.rows \subseteq Schedule /\ t.made \subseteq t.rows
             /\ IsTick([t EXCEPT !.pc = "unlocked"])
             /\ [t EXCEPT !.pc = "unlocked"].rows = t.rows
             /\ [t EXCEPT !.pc = "unlocked"].made = t.made
  <2> DEFINE u == [pc |-> "unlocked", at |-> at, rows |-> B, made |-> M,
                   write |-> w, fire |-> f]
  <2>1. t.pc = pc /\ t.rows = B /\ t.made = M
    BY <1>2
  <2>2. [t EXCEPT !.pc = "unlocked"] = u
    BY <1>2
  <2>3. u.rows = B /\ u.made = M /\ IsTick(u)
    BY DEF IsTick
  <2> HIDE DEF u
  <2> QED
    BY <2>1, <2>2, <2>3
<1> QED
  BY <1>1, <1>2 DEF IsTick

LEMMA IdleFields == IsTick(Idle) /\ Idle.rows = {} /\ Idle.made = {}
BY DEF IsTick, Idle

LEMMA InitFire == Init => FireInv
<1> SUFFICES ASSUME Init
             PROVE  FireInv
  OBVIOUS
<1>1. PICK r \in [Schedule -> [status : {"proposed", "active"}, spec : Specs,
                               next : Time]] : row = r
  BY DEF Init
<1>2. TablesTyped
  BY <1>1, IdleFields DEF Init, TablesTyped
<1>3. RowsHeld
  BY IdleFields DEF Init, RowsHeld
<1>4. OneTaskPerFire /\ AtMostOne
  BY DEF Init, OneTaskPerFire, AtMostOne
<1> QED
  BY <1>2, <1>3, <1>4 DEF FireInv

\* A transaction takes rows that are due and in no other transaction, makes
\* tasks only where none lives; or goes on, or is undone.
LEMMA BeginKeepsFire ==
  ASSUME FireInv, NEW p \in Scheduler, Begin(p)
  PROVE  FireInv'
<1>1. PICK B \in Claims : tick' = [tick EXCEPT ![p] =
         [pc |-> "locked", at |-> now, rows |-> B, made |-> {s \in B : Runs(s)},
          write |-> [s \in B |-> Outcome(s)], fire |-> [s \in B |-> row[s].next]]]
  BY DEF Begin
<1> DEFINE M == {s \in B : Runs(s)}
           new == [pc |-> "locked", at |-> now, rows |-> B, made |-> M,
                   write |-> [s \in B |-> Outcome(s)],
                   fire |-> [s \in B |-> row[s].next]]
<1>2. /\ B \subseteq Schedule /\ M \subseteq B
      /\ \A s \in B : row[s].status = "active" /\ s \notin LockedRows
      /\ \A s \in M : live[s] = {}
  BY DEF Claims, Due, Runs, Overlap
<1>3. IsTick(new) /\ new.rows = B /\ new.made = M
  BY <1>2 DEF IsTick
<1>4. tick' = [tick EXCEPT ![p] = new]
  BY <1>1
<1> HIDE DEF new, M
<1>5. \A q \in Scheduler : tick'[q] = IF q = p THEN new ELSE tick[q]
  BY <1>4 DEF FireInv, TablesTyped
<1>6. UNCHANGED <<row, made, live>>
  BY DEF Begin
<1>7. TablesTyped'
  BY <1>3, <1>4, <1>5, <1>6 DEF FireInv, TablesTyped
<1>8. \A q \in Scheduler : tick[q].rows \cap B = {}
  BY <1>2 DEF LockedRows
<1>9. RowsHeld'
  <2>1. ASSUME NEW q \in Scheduler, NEW x \in Scheduler, q # x
        PROVE  tick'[q].rows \cap tick'[x].rows = {}
    BY <1>3, <1>5, <1>8, <2>1 DEF FireInv, RowsHeld
  <2>2. ASSUME NEW q \in Scheduler
        PROVE  /\ \A s \in tick'[q].rows : row'[s].status = "active"
               /\ \A s \in tick'[q].made : live'[s] = {}
    BY <1>2, <1>3, <1>5, <1>6 DEF FireInv, RowsHeld
  <2> QED
    BY <2>1, <2>2 DEF RowsHeld
<1> QED
  BY <1>6, <1>7, <1>9 DEF FireInv, OneTaskPerFire, AtMostOne

LEMMA UnlockKeepsFire ==
  ASSUME FireInv, NEW p \in Scheduler, Unlock(p) \/ Crash(p)
  PROVE  FireInv'
<1>1. PICK new : /\ tick' = [tick EXCEPT ![p] = new] /\ IsTick(new)
                 /\ new.rows \subseteq tick[p].rows
                 /\ new.made \subseteq tick[p].made
  <2>1. CASE Unlock(p)
    <3> DEFINE new == [tick[p] EXCEPT !.pc = "unlocked"]
    <3>1. IsTick(tick[p]) /\ tick[p] # Idle
      BY <2>1 DEF Unlock, FireInv, TablesTyped, Idle
    <3>2. IsTick(new) /\ new.rows = tick[p].rows /\ new.made = tick[p].made
      BY <3>1, TickFields
    <3>3. tick' = [tick EXCEPT ![p] = new]
      BY <2>1 DEF Unlock
    <3> HIDE DEF new
    <3> QED
      BY <3>2, <3>3
  <2>2. CASE Crash(p)
    BY <2>2, IdleFields DEF Crash
  <2> QED
    BY <2>1, <2>2
<1>2. \A q \in Scheduler : tick'[q] = IF q = p THEN new ELSE tick[q]
  BY <1>1 DEF FireInv, TablesTyped
<1>3. UNCHANGED <<row, made, live>>
  BY DEF Unlock, Crash
<1>4. TablesTyped'
  BY <1>1, <1>2, <1>3 DEF FireInv, TablesTyped
<1>5. RowsHeld'
  <2>1. ASSUME NEW q \in Scheduler, NEW x \in Scheduler, q # x
        PROVE  tick'[q].rows \cap tick'[x].rows = {}
    BY <1>1, <1>2, <2>1 DEF FireInv, RowsHeld
  <2>2. ASSUME NEW q \in Scheduler
        PROVE  /\ \A s \in tick'[q].rows : row'[s].status = "active"
               /\ \A s \in tick'[q].made : live'[s] = {}
    BY <1>1, <1>2, <1>3 DEF FireInv, RowsHeld
  <2> QED
    BY <2>1, <2>2 DEF RowsHeld
<1> QED
  BY <1>3, <1>4, <1>5 DEF FireInv, OneTaskPerFire, AtMostOne

\* A commit makes a task where there is none of that fire time, and none that
\* lives of that schedule.
LEMMA CommitMakes ==
  ASSUME FireInv, NEW p \in Scheduler, Commit(p), NEW s \in Schedule
  PROVE  /\ made'[s] \in [Time -> Nat]
         /\ \A f \in Time : made'[s][f] <= 1
         /\ \/ live'[s] = live[s]
            \/ s \in tick[p].made /\ \E f : live'[s] = {f}
<1> DEFINE t == tick[p]
           fire == t.fire[s]
           new == {x \in t.made : Created(x, t.fire[x])}
<1>1. made[s] \in [Time -> Nat] /\ \A f \in Time : made[s][f] <= 1
  BY DEF FireInv, TablesTyped, OneTaskPerFire
<1>2. /\ made' = [x \in Schedule |-> IF x \in new
                THEN [made[x] EXCEPT ![t.fire[x]] = @ + 1] ELSE made[x]]
      /\ live' = [x \in Schedule |-> IF x \in new
                THEN live[x] \cup {t.fire[x]} ELSE live[x]]
  BY DEF Commit
<1>3. CASE s \in new
  <2>1. s \in t.made /\ made[s][fire] = 0 /\ live[s] = {}
    BY <1>3 DEF Created, FireInv, RowsHeld
  <2>2. made'[s] = [made[s] EXCEPT ![fire] = 1] /\ live'[s] = {fire}
    BY <1>2, <1>3, <2>1
  <2>3. /\ made'[s] = [f \in Time |-> IF f = fire THEN 1 ELSE made[s][f]]
        /\ \A f \in Time : made[s][f] \in Nat /\ made[s][f] <= 1
    BY <1>1, <2>2, Zenon
  <2> HIDE DEF fire, new
  <2>4. made'[s] \in [Time -> Nat] /\ \A f \in Time : made'[s][f] <= 1
    BY <2>3
  <2>5. s \in tick[p].made /\ \E f : live'[s] = {f}
    BY <2>1, <2>2
  <2> QED
    BY <2>4, <2>5
<1>4. CASE s \notin new
  <2>1. made'[s] = made[s] /\ live'[s] = live[s]
    BY <1>2, <1>4
  <2> QED
    BY <1>1, <2>1
<1> QED
  BY <1>3, <1>4

LEMMA CommitKeepsFire ==
  ASSUME FireInv, NEW p \in Scheduler, Commit(p)
  PROVE  FireInv'
<1>1. tick' = [tick EXCEPT ![p] = Idle]
  BY DEF Commit
<1>2. \A q \in Scheduler : tick'[q] = IF q = p THEN Idle ELSE tick[q]
  BY <1>1 DEF FireInv, TablesTyped
<1>3. row' = [s \in Schedule |-> row'[s]]
      /\ \A s \in Schedule : s \notin tick[p].rows => row'[s] = row[s]
  BY DEF Commit
<1>4. made' = [s \in Schedule |-> made'[s]] /\ live' = [s \in Schedule |-> live'[s]]
  BY DEF Commit
<1>5. TablesTyped'
  <2>1. made' \in [Schedule -> [Time -> Nat]]
    BY <1>4, CommitMakes
  <2>2. tick' = [q \in Scheduler |-> tick'[q]]
    BY <1>1 DEF FireInv, TablesTyped
  <2>3. \A q \in Scheduler : IsTick(tick'[q])
    BY <1>2, IdleFields DEF FireInv, TablesTyped
  <2> QED
    BY <1>3, <1>4, <2>1, <2>2, <2>3 DEF TablesTyped
<1>6. OneTaskPerFire' /\ AtMostOne'
  <2>1. ASSUME NEW s \in Schedule
        PROVE  /\ \A f \in Time : made'[s][f] <= 1
               /\ live'[s] = {} \/ \E f : live'[s] = {f}
    BY CommitMakes DEF FireInv, AtMostOne
  <2> QED
    BY <2>1 DEF OneTaskPerFire, AtMostOne
<1>7. RowsHeld'
  <2>1. ASSUME NEW q \in Scheduler, NEW x \in Scheduler, q # x
        PROVE  tick'[q].rows \cap tick'[x].rows = {}
    BY <1>2, <2>1, IdleFields DEF FireInv, RowsHeld
  <2>2. ASSUME NEW q \in Scheduler, q # p
        PROVE  /\ \A s \in tick[q].rows : row'[s].status = "active"
               /\ \A s \in tick[q].made : live'[s] = {}
    <3>1. IsTick(tick[q]) /\ IsTick(tick[p])
      BY DEF FireInv, TablesTyped
    <3>2. ASSUME NEW s \in tick[q].rows
          PROVE  s \in Schedule /\ s \notin tick[p].rows /\ s \notin tick[p].made
      BY <2>2, <3>1, TickFields DEF FireInv, RowsHeld
    <3>3. \A s \in tick[q].rows : row'[s].status = "active"
      BY <1>3, <3>2 DEF FireInv, RowsHeld
    <3>4. ASSUME NEW s \in tick[q].made
          PROVE  live'[s] = {}
      <4>1. s \in tick[q].rows
        BY <3>1, TickFields
      <4>2. live'[s] = live[s]
        BY <3>2, <4>1, CommitMakes
      <4> QED
        BY <4>2 DEF FireInv, RowsHeld
    <3> QED
      BY <3>3, <3>4
  <2> QED
    BY <1>2, <2>1, <2>2, IdleFields DEF RowsHeld
<1> QED
  BY <1>5, <1>6, <1>7 DEF FireInv

\* A user writes no row that a transaction holds, and makes no task.
LEMMA CommandKeepsFire ==
  ASSUME FireInv, NEW u \in Session, Command(u)
  PROVE  FireInv'
<1>1. UNCHANGED <<made, live, tick>>
  BY DEF Command, Load, Activate, Pause, Resume, Cancel, Edit, EndSession, Write
<1>2. \/ row' = row
      \/ \E new : /\ row' = [row EXCEPT ![session[u].of] = new]
                  /\ session[u].of \notin LockedRows
  <2>1. ASSUME NEW r, Write(u, r)
        PROVE  \E new : /\ row' = [row EXCEPT ![session[u].of] = new]
                       /\ session[u].of \notin LockedRows
    BY <2>1 DEF Write
  <2> QED
    BY <2>1 DEF Command, Load, Activate, Pause, Resume, Cancel, Edit, EndSession
<1>3. /\ row' = [s \in Schedule |-> row'[s]]
      /\ \A s \in Schedule : s \in LockedRows => row'[s] = row[s]
  <2>1. row = [s \in Schedule |-> row[s]]
    BY DEF FireInv, TablesTyped
  <2>2. ASSUME NEW new, row' = [row EXCEPT ![session[u].of] = new],
               session[u].of \notin LockedRows
        PROVE  /\ row' = [s \in Schedule |-> row'[s]]
               /\ \A s \in Schedule : s \in LockedRows => row'[s] = row[s]
    BY <2>1, <2>2
  <2> QED
    BY <1>2, <2>1, <2>2
<1>4. TablesTyped'
  BY <1>1, <1>3 DEF FireInv, TablesTyped
<1>5. RowsHeld'
  <2>1. ASSUME NEW p \in Scheduler, NEW s \in tick[p].rows
        PROVE  row'[s].status = "active"
    <3>1. s \in Schedule /\ s \in LockedRows
      BY TickFields, ZenonT(30) DEF LockedRows, FireInv, TablesTyped
    <3> QED
      BY <1>3, <3>1 DEF FireInv, RowsHeld
  <2> QED
    BY <1>1, <2>1 DEF FireInv, RowsHeld
<1> QED
  BY <1>1, <1>4, <1>5 DEF FireInv, OneTaskPerFire, AtMostOne

\* Tasks end, are retried, and time passes.
LEMMA OthersKeepFire ==
  ASSUME FireInv, TimePasses \/ UNCHANGED vars
                  \/ \E s \in Schedule, f \in Time : TaskEnds(s, f) \/ RetryTask(s, f)
  PROVE  FireInv'
<1>1. UNCHANGED <<row, made, tick>>
  BY DEF TimePasses, TaskEnds, RetryTask, vars
<1>2. /\ live' = [s \in Schedule |-> live'[s]]
      /\ \A s \in Schedule : live'[s] \subseteq live[s]
  <2>1. live = [s \in Schedule |-> live[s]]
    BY DEF FireInv, TablesTyped
  <2>2. \/ live' = live
        \/ \E s \in Schedule, f \in Time : live' = [live EXCEPT ![s] = live[s] \ {f}]
    BY DEF TimePasses, TaskEnds, RetryTask, vars
  <2> QED
    BY <2>1, <2>2
<1>3. TablesTyped'
  BY <1>1, <1>2 DEF FireInv, TablesTyped
<1>4. RowsHeld'
  <2>1. ASSUME NEW p \in Scheduler, NEW s \in tick[p].made
        PROVE  live'[s] = {}
    <3>1. s \in Schedule
      BY TickFields DEF FireInv, TablesTyped
    <3> QED
      BY <1>2, <3>1 DEF FireInv, RowsHeld
  <2> QED
    BY <1>1, <2>1 DEF FireInv, RowsHeld
<1>5. AtMostOne'
  BY <1>2 DEF FireInv, AtMostOne
<1> QED
  BY <1>1, <1>3, <1>4, <1>5 DEF FireInv, OneTaskPerFire

LEMMA StepKeepsFire ==
  ASSUME FireInv, [Next]_vars
  PROVE  FireInv'
BY BeginKeepsFire, UnlockKeepsFire, CommitKeepsFire, CommandKeepsFire,
   OthersKeepFire DEF Next, Ticks, Ends

LEMMA FireInvariant == Spec => []FireInv
<1>1. FireInv /\ [Next]_vars => FireInv'
  BY StepKeepsFire
<1> QED
  BY InitFire, <1>1, PTL DEF Spec

\* A fire time becomes one task at most: whatever next run is written, and also
\* when it is one that has been.
THEOREM FiresMakeOneTask == Spec => []OneTaskPerFire
<1>1. FireInv => OneTaskPerFire
  BY DEF FireInv
<1> QED
  BY <1>1, FireInvariant, PTL

\* Ticks never leave two tasks of one schedule alive, although the look for a
\* live task and the commit that makes one are far apart.
THEOREM TasksDoNotOverlap == Spec => []NoOverlap
<1>1. FireInv => NoOverlap
  <2> SUFFICES ASSUME FireInv, NEW s \in Schedule
               PROVE  Cardinality(live[s]) <= 1
    BY DEF NoOverlap
  <2>1. CASE live[s] = {}
    BY <2>1, FS_EmptySet
  <2>2. ASSUME NEW f, live[s] = {f}
        PROVE  Cardinality(live[s]) <= 1
    BY <2>2, FS_Singleton
  <2> QED
    BY <2>1, <2>2 DEF FireInv, AtMostOne
<1> QED
  BY <1>1, FireInvariant, PTL

\* Only a commit makes tasks, and it holds their rows.
LEMMA BirthIsActive ==
  ASSUME FireInv, [Next]_vars, NEW s \in Schedule, live'[s] \ live[s] # {}
  PROVE  row[s].status = "active"
<1>1. PICK p \in Scheduler : Commit(p)
  <2>1. ASSUME NEW x \in Schedule, NEW f \in Time, TaskEnds(x, f)
        PROVE  FALSE
    BY <2>1 DEF TaskEnds, FireInv, TablesTyped
  <2>2. live' # live
    OBVIOUS
  <2> QED
    BY <2>1, <2>2, ZenonT(30)
    DEF Next, vars, Ticks, Begin, Unlock, Crash, Ends, RetryTask, TimePasses,
        Command, Load, Activate, Pause, Resume, Cancel, Edit, EndSession, Write
<1>2. s \in tick[p].made
  BY <1>1, CommitMakes
<1>3. s \in tick[p].rows
  BY <1>2, TickFields DEF FireInv, TablesTyped
<1> QED
  BY <1>3 DEF FireInv, RowsHeld

\* A task is only born of a schedule that is active when the tick commits.
THEOREM TasksAreBornOfActive == Spec => BornOfActive
<1>1. FireInv /\ [Next]_vars =>
        [\A s \in Schedule : live'[s] \ live[s] # {} => row[s].status = "active"]_vars
  BY BirthIsActive
<1> QED
  BY <1>1, FireInvariant, PTL DEF Spec, BornOfActive
-----------------------------------------------------------------------------
(***************************************************************************)
(* The calendar.                                                           *)
(***************************************************************************)

\* Quotient and remainder.
LEMMA DivMod ==
  ASSUME NEW a \in Int, NEW b \in Nat \ {0}
  PROVE  a % b \in 0..(b - 1) /\ a \div b \in Int /\ a = b * (a \div b) + (a % b)
OBVIOUS

\* There is one quotient and one remainder.
LEMMA DivModIs ==
  ASSUME NEW a \in Int, NEW b \in Nat \ {0}, NEW q \in Int, NEW r \in 0..(b - 1),
         a = b * q + r
  PROVE  a % b = r /\ a \div b = q
<1> DEFINE p == a \div b
           s == a % b
<1>1. s \in 0..(b - 1) /\ p \in Int /\ b * q + r = b * p + s
  BY DivMod
<1> HIDE DEF p, s
<1>2. b * (q - p) = s - r
  <2>1. b * (q - p) = b * q - b * p /\ b * q \in Int /\ b * p \in Int
    BY <1>1
  <2> QED
    BY <1>1, <2>1
<1>3. CASE q - p >= 1
  <2>1. b * (q - p) >= b
    BY <1>1, <1>3
  <2> QED
    BY <1>1, <1>2, <2>1
<1>4. CASE q - p <= -1
  <2>1. b * (q - p) <= -b
    BY <1>1, <1>4
  <2> QED
    BY <1>1, <1>2, <2>1
<1>5. CASE q - p = 0
  BY <1>1, <1>5 DEF p, s
<1> QED
  BY <1>1, <1>3, <1>4, <1>5

\* A nonempty set of numbers has a minimum.
LEMMA MinOf ==
  ASSUME NEW T, T \subseteq Nat, T # {}
  PROVE  Min(T) \in T /\ \A i \in T : Min(T) <= i
<1>1. PICK m \in T : \A i \in T : ~(<<i, m>> \in OpToRel(<, Nat))
  BY NatLessThanWellFounded, WFMin
<1>2. ASSUME NEW i \in T, ~(m <= i)
      PROVE  FALSE
  <2>1. i \in Nat /\ m \in Nat /\ i < m
    BY <1>2
  <2> QED
    BY <1>1, <2>1 DEF OpToRel
<1> QED
  BY <1>2 DEF Min

\* The limits of the calendar are numbers.
LEMMA CalendarTyped ==
  /\ Day \in Nat \ {0} /\ Week \in Nat \ {0}
  /\ ShiftAt \in Nat /\ Before \in Nat /\ After \in Nat /\ Horizon \in Nat
BY SchedulerAssumption

\* A cron spec asks for a time of a day, on a day of the week at least.
WellFormed(spec) ==
  spec.kind = "cron" => spec.n < Day /\ \E d \in spec.days : d < Week

\* It comes due within every week.
LEMMA CronFound ==
  ASSUME NEW spec \in Specs, spec.kind = "cron", WellFormed(spec), NEW l \in Nat
  PROVE  \E w \in (l + 1)..(l + Day * Week) : OnCron(spec, w)
<1>1. PICK d \in spec.days : d < Week
  BY DEF WellFormed
<1> DEFINE n == spec.n
           P == Day * Week
           R == Day * d + n
           k == (R - (l + 1)) % P
           q == (R - (l + 1)) \div P
           w == l + 1 + k
           x == Week * (-q) + d
<1>2. d \in 0..(Week - 1) /\ n \in 0..(Day - 1)
  BY <1>1, SchedulerAssumption DEF WellFormed
<1>3. P \in Nat \ {0} /\ R \in Nat
  BY <1>2, CalendarTyped
<1> HIDE DEF n
<1>4. k \in 0..(P - 1) /\ q \in Int /\ R - (l + 1) = P * q + k
  <2> HIDE DEF P, R
  <2> QED
    BY <1>3, DivMod
<1>5. w \in (l + 1)..(l + P) /\ w = R - P * q
  <2> HIDE DEF P, R, k, q
  <2>1. P * q \in Int
    BY <1>3, <1>4
  <2> QED
    BY <1>3, <1>4, <2>1 DEF w
<1> HIDE DEF k, q, w
<1>6. x \in Int /\ w = Day * x + n
  <2>1. x \in Int /\ P * q = Day * (Week * q) /\ -q \in Int
    BY <1>2, <1>4, CalendarTyped
  <2>2. Day * x = Day * (Week * (-q)) + Day * d
    BY <1>2, <2>1, CalendarTyped
  <2>3. Day * (Week * (-q)) = -(P * q)
    BY <1>2, <1>4, <2>1, CalendarTyped
  <2>4. P * q \in Int /\ Day * d \in Int
    BY <1>2, <1>3, <1>4, CalendarTyped
  <2> HIDE DEF x, P
  <2> QED
    BY <1>2, <1>5, <2>1, <2>2, <2>3, <2>4 DEF R
<1>7. w \in Int
  BY <1>3, <1>5
<1> HIDE DEF x
<1>8. w % Day = n /\ w \div Day = x
  BY <1>2, <1>6, <1>7, CalendarTyped, DivModIs
<1>9. x % Week = d
  <2>1. x = Week * (-q) + d /\ -q \in Int
    BY <1>4 DEF x
  <2> QED
    BY <1>2, <1>6, <2>1, CalendarTyped, DivModIs
<1> QED
  BY <1>1, <1>5, <1>8, <1>9 DEF OnCron, n, P

\* A clock that is set back, or left alone: every local time exists.  The hour
\* that happens twice is not before the first instant.
SetBack == After <= Before /\ Before - After <= ShiftAt

\* The first run of an interval after an instant it is due at.
LEMMA NextIntervalIs ==
  ASSUME NEW next \in Int, NEW at \in Int, NEW every \in Nat \ {0}, next <= at
  PROVE  LET n == NextInterval(next, every, at)
         IN  /\ n \in Int /\ n > at
             /\ (n - next) % every = 0
             /\ \A t \in (at + 1)..(n - 1) : (t - next) % every # 0
<1> DEFINE q == (at - next) \div every
           r == (at - next) % every
           n == next + every * (q + 1)
<1>1. q \in Int /\ r \in 0..(every - 1) /\ at - next = every * q + r
  BY DivMod
<1>2. NextInterval(next, every, at) = n
  BY DEF NextInterval
<1> HIDE DEF q, r
<1>3. every * q \in Int /\ n = next + every * q + every
  BY <1>1
<1>4. n \in Int /\ n - next = every * (q + 1) + 0 /\ n = at - r + every
  BY <1>1, <1>3
<1>5. (n - next) % every = 0
  BY <1>1, <1>4, DivModIs
<1> HIDE DEF n
<1>6. ASSUME NEW t \in (at + 1)..(n - 1)
      PROVE  (t - next) % every # 0
  <2> DEFINE i == r + (t - at)
  <2>1. i \in 0..(every - 1) /\ i # 0 /\ t - next = every * q + i
    BY <1>1, <1>3, <1>4
  <2>2. t - next \in Int
    BY <1>4
  <2> HIDE DEF i
  <2>3. (t - next) % every = i
    BY <1>1, <2>1, <2>2, DivModIs
  <2> QED
    BY <2>1, <2>3
<1>7. n > at
  BY <1>1, <1>4
<1> QED
  BY <1>2, <1>4, <1>5, <1>6, <1>7

\* A local time is the local time of the instant it means, and of none before.
LEMMA ToUtcIs ==
  ASSUME SetBack, NEW w \in Int
  PROVE  /\ ToUtc(w) \in Int /\ Local(ToUtc(w)) = w
         /\ \A u \in Int : u < ToUtc(w) => Local(u) # w
BY CalendarTyped DEF SetBack, ToUtc, Local

\* Local time goes on, but for the hour that happens twice.
LEMMA LocalGoesOn ==
  ASSUME SetBack, NEW at \in Nat, NEW t \in Nat, at < t, ~Repeated(t)
  PROVE  Local(at) < Local(t)
<1>1. SUFFICES ASSUME Local(t) <= Local(at)
               PROVE  FALSE
  BY CalendarTyped DEF Local
<1> DEFINE u == Local(t) - Before
<1>2. u \in 0..(t - 1) /\ Local(u) = Local(t)
  BY <1>1, CalendarTyped DEF Local, SetBack
<1> QED
  BY <1>2 DEF Repeated

\* The first run of a cron spec after an instant that is no second pass.
LEMMA NextCronIs ==
  ASSUME SetBack, NEW spec \in Specs, spec.kind = "cron", WellFormed(spec),
         NEW at \in Nat
  PROVE  LET n == NextCron(spec, at)
         IN  /\ n \in Nat
             /\ ~Repeated(at) =>
                  /\ n > at
                  /\ OnCron(spec, Local(n)) /\ ~Repeated(n)
                  /\ \A t \in (at + 1)..(n - 1) :
                       ~(OnCron(spec, Local(t)) /\ ~Repeated(t))
<1> DEFINE W == {w \in (Local(at) + 1)..(Local(at) + Day * Week) : OnCron(spec, w)}
           w == Min(W)
           n == ToUtc(w)
<1>1. Local(at) \in Nat /\ Day * Week \in Nat
  BY CalendarTyped DEF Local
<1>2. W \subseteq Nat /\ W # {}
  BY <1>1, CronFound
<1>3. w \in W /\ \A x \in W : w <= x
  <2> HIDE DEF W
  <2> QED
    BY <1>2, MinOf
<1>4. NextCron(spec, at) = n
  BY DEF NextCron
<1>5. w \in Nat /\ w > Local(at) /\ w <= Local(at) + Day * Week /\ OnCron(spec, w)
  BY <1>1, <1>3
<1>6. ASSUME NEW x \in Int, x > Local(at), OnCron(spec, x)
      PROVE  w <= x
  <2>1. CASE x <= Local(at) + Day * Week
    <3>1. x \in W
      BY <1>1, <1>6, <2>1
    <3> QED
      BY <1>3, <3>1
  <2>2. CASE ~(x <= Local(at) + Day * Week)
    BY <1>1, <1>5, <2>2
  <2> QED
    BY <2>1, <2>2
<1> HIDE DEF W, w, n
<1>7. n \in Int /\ Local(n) = w /\ \A u \in Int : u < n => Local(u) # w
  BY <1>5, ToUtcIs DEF n
<1>8. ASSUME ~Repeated(at)
      PROVE  /\ n > at
             /\ OnCron(spec, Local(n)) /\ ~Repeated(n)
             /\ \A t \in (at + 1)..(n - 1) :
                  ~(OnCron(spec, Local(t)) /\ ~Repeated(t))
  <2>1. n > at
    <3>1. SUFFICES ASSUME n <= at
                   PROVE  FALSE
      BY <1>7
    <3>2. n # at
      BY <1>1, <1>5, <1>7
    <3>3. CASE n >= 0
      <4>1. ~Repeated(at) /\ n \in Nat /\ n < at
        BY <1>7, <1>8, <3>1, <3>2, <3>3
      <4>2. Local(n) < Local(at)
        BY <4>1, LocalGoesOn
      <4> QED
        BY <1>1, <1>5, <1>7, <4>2
    <3>4. CASE n < 0
      BY <1>5, <1>7, <3>4, CalendarTyped DEF Local, SetBack
    <3> QED
      BY <1>7, <3>3, <3>4
  <2>2. ~Repeated(n)
    <3>1. \A u \in 0..(n - 1) : u \in Int /\ u < n
      BY <1>7
    <3> QED
      BY <1>7, <3>1 DEF Repeated
  <2>3. ASSUME NEW t \in (at + 1)..(n - 1), OnCron(spec, Local(t)), ~Repeated(t)
        PROVE  FALSE
    <3>1. t \in Nat /\ at < t /\ t < n
      BY <1>7
    <3>2. Local(at) < Local(t)
      BY <2>3, <3>1, LocalGoesOn
    <3>3. Local(t) \in Int
      BY <3>1, CalendarTyped DEF Local
    <3>4. w <= Local(t)
      BY <1>1, <1>6, <2>3, <3>2, <3>3
    <3>5. n <= t
      BY <1>5, <3>1, <3>4, CalendarTyped DEF n, ToUtc, Local, SetBack
    <3> QED
      BY <1>7, <3>1, <3>5
  <2> QED
    BY <1>5, <1>7, <2>1, <2>2, <2>3
<1>9. n \in Nat
  BY <1>5, <1>7, CalendarTyped DEF n, ToUtc, Local, SetBack
<1> QED
  BY <1>4, <1>8, <1>9

-----------------------------------------------------------------------------
(***************************************************************************)
(* The next run.                                                           *)
(***************************************************************************)

\* Every cron spec comes due.
CronsComeDue == \A spec \in Specs : WellFormed(spec)

\* A next run is not before the first instant.
Instant == Nat \cup {NoTime}
Dated == [status : {"proposed", "active", "paused", "completed", "cancelled"},
          spec : Specs, next : Instant]

\* The row a session loaded, if it loaded one.
Loaded(o, r) == r = NoRow \/ (o \in Schedule /\ r \in Dated)
IsSession(x) == \E o, r : x = [of |-> o, row |-> r] /\ Loaded(o, r)

RowsTyped ==
  /\ now \in Time
  /\ row \in [Schedule -> Dated]
  /\ session = [u \in Session |-> session[u]]
  /\ \A u \in Session : IsSession(session[u])

\* What a transaction will write follows from the row it claimed, which is
\* still the row of the table.
WritesFollow ==
  \A p \in Scheduler : tick[p].pc # "idle" =>
    /\ tick[p].at \in Time
    /\ \A s \in tick[p].rows :
         /\ row[s].next <= tick[p].at
         /\ \/ tick[p].write[s] = row[s] /\ s \notin tick[p].made
            \/ tick[p].write[s] = [row[s] EXCEPT !.status = "paused"]
            \/ /\ row[s].spec.kind # "unsupported"
               /\ tick[p].write[s] = Advanced(row[s], tick[p].at)

\* A row that goes on is a row.
LEMMA AdvancedTyped ==
  ASSUME CronsComeDue, SetBack, NEW r \in Dated, NEW at \in Time,
         r.spec.kind # "unsupported", r.next <= at
  PROVE  Advanced(r, at) \in Dated
<1>1. /\ r.spec \in Specs /\ r.next \in Int /\ at \in Nat
      /\ r.spec.kind \in Kinds /\ r.spec.n \in Nat
  BY SchedulerAssumption DEF Dated, Instant, NoTime, Time
<1>2. CASE r.spec.kind = "oneoff"
  <2>1. Advanced(r, at) = [r EXCEPT !.status = "completed", !.next = NoTime]
    BY <1>2 DEF Advanced
  <2>2. NoTime \in Instant
    BY DEF Instant
  <2> QED
    BY <2>1, <2>2 DEF Dated
<1>3. CASE r.spec.kind = "interval"
  <2> DEFINE next == NextInterval(r.next, r.spec.n, at)
  <2>1. r.spec.n \in Nat \ {0} /\ at \in Int
    BY <1>1, <1>3, SchedulerAssumption
  <2>2. next \in Instant
    <3>1. next \in Int /\ next > at
      BY <1>1, <2>1, NextIntervalIs
    <3> QED
      BY <1>1, <3>1 DEF Instant
  <2>3. Advanced(r, at) = [r EXCEPT !.next = next]
    BY <1>3 DEF Advanced
  <2> HIDE DEF next
  <2> QED
    BY <2>2, <2>3 DEF Dated
<1>4. CASE r.spec.kind = "cron"
  <2> DEFINE next == NextCron(r.spec, at)
  <2>1. next \in Instant
    BY <1>1, <1>4, NextCronIs DEF CronsComeDue, Instant
  <2>2. Advanced(r, at) = [r EXCEPT !.next = next]
    BY <1>4 DEF Advanced
  <2> HIDE DEF next
  <2> QED
    BY <2>1, <2>2 DEF Dated
<1> QED
  BY <1>1, <1>2, <1>3, <1>4 DEF Kinds

LEMMA FirstRunTyped ==
  ASSUME CronsComeDue, SetBack, NEW spec \in Specs, NEW at \in Nat
  PROVE  FirstRun(spec, at) \in Nat
<1>1. spec.n \in Nat
  BY SchedulerAssumption
<1>2. CASE spec.kind = "cron"
  <2>1. NextCron(spec, at) \in Nat
    BY <1>2, NextCronIs DEF CronsComeDue
  <2> QED
    BY <1>2, <2>1 DEF FirstRun
<1>3. CASE spec.kind # "cron"
  BY <1>1, <1>3 DEF FirstRun
<1> QED
  BY <1>2, <1>3

LEMMA InitNext ==
  ASSUME Init
  PROVE  RowsTyped /\ WritesFollow
<1>1. now \in Time
  BY CalendarTyped DEF Init, Time
<1>2. row \in [Schedule -> Dated]
  <2>1. PICK r \in [Schedule -> [status : {"proposed", "active"}, spec : Specs,
                                 next : Time]] : row = r
    BY DEF Init
  <2>2. \A s \in Schedule : r[s] \in Dated
    BY CalendarTyped DEF Dated, Instant, Time
  <2> QED
    BY <2>1, <2>2
<1>3. /\ session = [u \in Session |-> session[u]]
      /\ \A u \in Session : IsSession(session[u])
  BY DEF Init, IsSession, Loaded
<1>4. WritesFollow
  BY DEF Init, WritesFollow, Idle
<1> QED
  BY <1>1, <1>2, <1>3, <1>4 DEF RowsTyped

\* Going on, a transaction keeps what it has.
LEMMA UnlockFields ==
  ASSUME NEW t, IsTick(t), t # Idle
  PROVE  LET u == [t EXCEPT !.pc = "unlocked"]
         IN  /\ u.pc = "unlocked" /\ u.at = t.at /\ u.rows = t.rows
             /\ u.made = t.made /\ u.write = t.write /\ u.fire = t.fire
<1>1. PICK pc \in {"locked", "unlocked"}, B \in SUBSET Schedule :
        \E M \in SUBSET B : \E at, w, f :
          t = [pc |-> pc, at |-> at, rows |-> B, made |-> M, write |-> w, fire |-> f]
  BY DEF IsTick
<1>2. PICK M \in SUBSET B : \E at, w, f :
          t = [pc |-> pc, at |-> at, rows |-> B, made |-> M, write |-> w, fire |-> f]
  BY <1>1
<1>3. PICK at, w, f :
          t = [pc |-> pc, at |-> at, rows |-> B, made |-> M, write |-> w, fire |-> f]
  BY <1>2
<1> QED
  BY <1>3

\* Only its own commit changes a row that a transaction holds.
LEMMA HeldRowsStay ==
  ASSUME FireInv, [Next]_vars, NEW p \in Scheduler, ~Commit(p),
         NEW s \in tick[p].rows
  PROVE  row'[s] = row[s]
<1>1. s \in Schedule /\ s \in LockedRows
  BY TickFields, ZenonT(30) DEF LockedRows, FireInv, TablesTyped
<1>2. ASSUME NEW q \in Scheduler, Commit(q)
      PROVE  row'[s] = row[s]
  <2>1. s \notin tick[q].rows
    BY <1>2 DEF FireInv, RowsHeld
  <2> QED
    BY <1>1, <1>2, <2>1 DEF Commit
<1>3. ASSUME NEW u \in Session, Command(u)
      PROVE  row'[s] = row[s]
  <2>1. row = [x \in Schedule |-> row[x]]
    BY DEF FireInv, TablesTyped
  <2>2. \/ row' = row
        \/ \E new : /\ row' = [row EXCEPT ![session[u].of] = new]
                    /\ session[u].of \notin LockedRows
    <3>1. ASSUME NEW r, Write(u, r)
          PROVE  \E new : /\ row' = [row EXCEPT ![session[u].of] = new]
                         /\ session[u].of \notin LockedRows
      BY <3>1 DEF Write
    <3> QED
      BY <1>3, <3>1 DEF Command, Load, Activate, Pause, Resume, Cancel, Edit,
                        EndSession
  <2> QED
    BY <1>1, <2>1, <2>2
<1>4. CASE UNCHANGED row
  BY <1>4
<1>5. \/ UNCHANGED row
      \/ \E q \in Scheduler : Commit(q)
      \/ \E u \in Session : Command(u)
  BY DEF Next, vars, Ticks, Begin, Unlock, Crash, Ends, TaskEnds, RetryTask,
         TimePasses
<1> QED
  BY <1>2, <1>3, <1>4, <1>5

\* How the next run is computed does not change.
LEMMA WritesFollowNext ==
  ASSUME \A p \in Scheduler : tick'[p].pc # "idle" =>
           /\ tick'[p].at \in Time
           /\ \A s \in tick'[p].rows :
                /\ row'[s].next <= tick'[p].at
                /\ \/ tick'[p].write[s] = row'[s] /\ s \notin tick'[p].made
                   \/ tick'[p].write[s] = [row'[s] EXCEPT !.status = "paused"]
                   \/ /\ row'[s].spec.kind # "unsupported"
                      /\ tick'[p].write[s] = Advanced(row'[s], tick'[p].at)
  PROVE  WritesFollow'
BY DEF WritesFollow, Time, Advanced, NextInterval, NextCron, Min, ToUtc, Local,
       OnCron, NoTime

\* A tick decides for each row it claims what becomes of it.
LEMMA BeginWrites ==
  ASSUME FireInv, RowsTyped, WritesFollow, NEW p \in Scheduler, Begin(p)
  PROVE  WritesFollow'
<1>1. PICK B \in Claims : tick' = [tick EXCEPT ![p] =
         [pc |-> "locked", at |-> now, rows |-> B, made |-> {s \in B : Runs(s)},
          write |-> [s \in B |-> Outcome(s)], fire |-> [s \in B |-> row[s].next]]]
  BY DEF Begin
<1> DEFINE w == [s \in B |-> Outcome(s)]
           f == [s \in B |-> row[s].next]
           M == {s \in B : Runs(s)}
           new == [pc |-> "locked", at |-> now, rows |-> B, made |-> M,
                   write |-> w, fire |-> f]
<1>2. \A s \in B : s \in Schedule /\ row[s].next <= now
  BY DEF Claims, Due
<1>3. ASSUME NEW s \in B
      PROVE  \/ w[s] = row[s] /\ s \notin M
             \/ w[s] = [row[s] EXCEPT !.status = "paused"]
             \/ /\ row[s].spec.kind # "unsupported"
                /\ w[s] = Advanced(row[s], now)
  <2>1. CASE Overlap(s)
    BY <2>1 DEF Outcome, Skipped, Runs
  <2>2. CASE ~Overlap(s) /\ Refused(s)
    BY <2>2 DEF Outcome, Skipped
  <2>3. CASE ~Overlap(s) /\ ~Refused(s)
    BY <2>3 DEF Outcome, Skipped, Refused
  <2> QED
    BY <2>1, <2>2, <2>3
<1>4. /\ tick' = [tick EXCEPT ![p] = new]
      /\ UNCHANGED row
      /\ new.pc = "locked" /\ new.at = now /\ new.rows = B /\ new.made = M
      /\ new.write = w
  BY <1>1 DEF Begin
<1> HIDE DEF new, w, M
<1>5. \A q \in Scheduler : tick'[q] = IF q = p THEN new ELSE tick[q]
  BY <1>4 DEF FireInv, TablesTyped
<1>6. now \in Time /\ row' = row /\ tick'[p] = new
  BY <1>4, <1>5 DEF RowsTyped
<1>7. ASSUME NEW q \in Scheduler, tick'[q].pc # "idle", q # p
      PROVE  tick'[q] = tick[q]
  BY <1>5, <1>7
<1> HIDE DEF f
<1>8. ASSUME NEW q \in Scheduler, tick'[q].pc # "idle"
      PROVE  /\ tick'[q].at \in Time
             /\ \A s \in tick'[q].rows :
                  /\ row'[s].next <= tick'[q].at
                  /\ \/ tick'[q].write[s] = row'[s] /\ s \notin tick'[q].made
                     \/ tick'[q].write[s] = [row'[s] EXCEPT !.status = "paused"]
                     \/ /\ row'[s].spec.kind # "unsupported"
                        /\ tick'[q].write[s] = Advanced(row'[s], tick'[q].at)
  <2>1. CASE q = p
    BY <1>2, <1>3, <1>4, <1>6, <2>1
  <2>2. CASE q # p
    BY <1>6, <1>7, <1>8, <2>2 DEF WritesFollow
  <2> QED
    BY <2>1, <2>2
<1> QED
  BY <1>8, WritesFollowNext

\* Only ticks and deaths change what transactions hold.
LEMMA TicksOnly ==
  ASSUME [Next]_vars
  PROVE  UNCHANGED tick \/ \E p \in Scheduler : Ticks(p) \/ Crash(p)
<1>1. ASSUME NEW u \in Session, Command(u)
      PROVE  UNCHANGED tick
  <2>1. ASSUME NEW r, Write(u, r)
        PROVE  UNCHANGED tick
    BY <2>1 DEF Write
  <2> QED
    BY <1>1, <2>1 DEF Command, Load, Activate, Pause, Resume, Cancel, Edit, EndSession
<1>2. ASSUME NEW s \in Schedule, NEW f \in Time, TaskEnds(s, f) \/ RetryTask(s, f)
      PROVE  UNCHANGED tick
  BY <1>2 DEF TaskEnds, RetryTask
<1>3. CASE TimePasses \/ UNCHANGED vars
  BY <1>3 DEF TimePasses, vars
<1> QED
  BY <1>1, <1>2, <1>3 DEF Next, Ends

\* The other steps leave it at that.
LEMMA StepWrites ==
  ASSUME FireInv, RowsTyped, WritesFollow, [Next]_vars
  PROVE  WritesFollow'
<1>1. ASSUME NEW p \in Scheduler, tick'[p].pc # "idle", ~Begin(p)
      PROVE  /\ ~Commit(p) /\ tick[p].pc # "idle"
             /\ tick'[p].at = tick[p].at /\ tick'[p].rows = tick[p].rows
             /\ tick'[p].made = tick[p].made /\ tick'[p].write = tick[p].write
  <2>1. tick = [q \in Scheduler |-> tick[q]] /\ IsTick(tick[p])
    BY DEF FireInv, TablesTyped
  <2>2. ~Commit(p) /\ ~Crash(p)
    BY <1>1, <2>1 DEF Commit, Crash, Idle
  <2>3. CASE Unlock(p)
    <3>1. tick[p] # Idle /\ tick[p].pc # "idle"
      BY <2>3 DEF Unlock, Idle
    <3>2. tick'[p] = [tick[p] EXCEPT !.pc = "unlocked"]
      BY <2>1, <2>3 DEF Unlock
    <3> DEFINE new == [tick[p] EXCEPT !.pc = "unlocked"]
    <3>3. /\ new.pc = "unlocked" /\ new.at = tick[p].at /\ new.rows = tick[p].rows
          /\ new.made = tick[p].made /\ new.write = tick[p].write
      BY <2>1, <3>1, UnlockFields
    <3> HIDE DEF new
    <3> QED
      BY <2>2, <3>1, <3>2, <3>3 DEF new
  <2>4. CASE ~Unlock(p)
    <3>1. tick'[p] = tick[p]
      <4>1. ASSUME NEW q \in Scheduler, q # p, Ticks(q) \/ Crash(q)
            PROVE  tick'[p] = tick[p]
        BY <2>1, <4>1 DEF Ticks, Begin, Unlock, Commit, Crash
      <4>2. \/ UNCHANGED tick
            \/ \E q \in Scheduler : Ticks(q) \/ Crash(q)
        BY TicksOnly
      <4> QED
        BY <1>1, <2>2, <2>4, <4>1, <4>2 DEF Ticks
    <3> QED
      BY <1>1, <2>2, <3>1
  <2> QED
    BY <2>3, <2>4
<1>2. CASE \E p \in Scheduler : Begin(p)
  BY <1>2, BeginWrites
<1>3. CASE ~\E p \in Scheduler : Begin(p)
  <2> SUFFICES ASSUME NEW p \in Scheduler, tick'[p].pc # "idle"
               PROVE  /\ tick'[p].at \in Time
                      /\ \A s \in tick'[p].rows :
                           /\ row'[s].next <= tick'[p].at
                           /\ \/ tick'[p].write[s] = row'[s] /\ s \notin tick'[p].made
                              \/ tick'[p].write[s] = [row'[s] EXCEPT !.status = "paused"]
                              \/ /\ row'[s].spec.kind # "unsupported"
                                 /\ tick'[p].write[s] = Advanced(row'[s], tick'[p].at)
    BY WritesFollowNext
  <2>1. /\ ~Commit(p) /\ tick[p].pc # "idle"
        /\ tick'[p].at = tick[p].at /\ tick'[p].rows = tick[p].rows
        /\ tick'[p].made = tick[p].made /\ tick'[p].write = tick[p].write
    BY <1>1, <1>3
  <2>2. \A s \in tick[p].rows : row'[s] = row[s]
    BY <2>1, HeldRowsStay
  <2> QED
    BY <2>1, <2>2 DEF WritesFollow
<1> QED
  BY <1>2, <1>3

\* The row of a session.
LEMMA SessionFields ==
  ASSUME NEW x, IsSession(x)
  PROVE  /\ x.row = NoRow \/ (x.row \in Dated /\ x.of \in Schedule)
         /\ \A r : r = NoRow \/ (x.row # NoRow /\ r \in Dated)
                => IsSession([x EXCEPT !.row = r])
<1>1. PICK o, r : x = [of |-> o, row |-> r] /\ Loaded(o, r)
  BY DEF IsSession
<1>2. \A n : [x EXCEPT !.row = n] = [of |-> o, row |-> n]
  BY <1>1
<1> QED
  BY <1>1, <1>2 DEF IsSession, Loaded

\* A command writes a row.
LEMMA WriteTypes ==
  ASSUME RowsTyped, NEW u \in Session, NEW r \in Dated, Write(u, r)
  PROVE  RowsTyped'
<1> DEFINE s == session[u].of
           old == session[u].row
           new == [status |-> IF r.status # old.status THEN r.status ELSE row[s].status,
                   spec |-> IF r.spec # old.spec THEN r.spec ELSE row[s].spec,
                   next |-> IF r.next # old.next THEN r.next ELSE row[s].next]
<1>1. /\ row' = [row EXCEPT ![s] = new]
      /\ session' = [session EXCEPT ![u].row = r]
      /\ now' = now
  BY DEF Write
<1>2. ASSUME s \in Schedule
      PROVE  new \in Dated
  <2>1. row[s] \in Dated
    BY <1>2 DEF RowsTyped
  <2> HIDE DEF s, old
  <2> QED
    BY <2>1 DEF Dated
<1> HIDE DEF new, s
<1>3. row' \in [Schedule -> Dated]
  BY <1>1, <1>2 DEF RowsTyped
<1>4. IsSession([session[u] EXCEPT !.row = r])
  <2>1. session[u].row # NoRow
    BY DEF Write
  <2> QED
    BY <2>1, SessionFields DEF RowsTyped
<1>5. session' = [session EXCEPT ![u] = [session[u] EXCEPT !.row = r]]
  BY <1>1
<1>6. /\ session' = [v \in Session |-> session'[v]]
      /\ \A v \in Session : IsSession(session'[v])
  <2> DEFINE n == [session[u] EXCEPT !.row = r]
  <2>1. IsSession(n) /\ session' = [session EXCEPT ![u] = n]
    BY <1>4, <1>5
  <2> HIDE DEF n
  <2> QED
    BY <2>1 DEF RowsTyped
<1> QED
  BY <1>1, <1>3, <1>6 DEF RowsTyped, Time, IsSession, Loaded, Dated, Instant, NoTime, NoRow

LEMMA CommandTypes ==
  ASSUME CronsComeDue, SetBack, RowsTyped, NEW u \in Session, Command(u)
  PROVE  RowsTyped'
<1> DEFINE old == session[u].row
<1>1. old = NoRow \/ (old \in Dated /\ session[u].of \in Schedule)
  BY SessionFields DEF RowsTyped
<1>2. ASSUME NEW r, Write(u, r)
      PROVE  old \in Dated
  BY <1>1, <1>2 DEF Write
<1>3. ASSUME Activate(u) \/ Pause(u) \/ Resume(u)
      PROVE  RowsTyped'
  <2>1. PICK status \in {"active", "paused"} :
          Write(u, [session[u].row EXCEPT !.status = status])
    BY <1>3 DEF Activate, Pause, Resume
  <2>2. [session[u].row EXCEPT !.status = status] \in Dated
    BY <1>2, <2>1 DEF Dated
  <2> QED
    BY <2>1, <2>2, WriteTypes
<1>4. ASSUME Cancel(u)
      PROVE  RowsTyped'
  <2> DEFINE r == [session[u].row EXCEPT !.status = "cancelled", !.next = NoTime]
  <2>1. Write(u, r)
    BY <1>4 DEF Cancel
  <2>2. NoTime \in Instant
    BY DEF Instant
  <2>3. r \in Dated
    BY <1>2, <2>1, <2>2 DEF Dated
  <2> QED
    BY <2>1, <2>3, WriteTypes
<1>5. ASSUME NEW spec \in Specs, Edit(u, spec)
      PROVE  RowsTyped'
  <2> DEFINE first == FirstRun(spec, now)
             r == [session[u].row EXCEPT !.spec = spec, !.next = first]
  <2>1. Write(u, r)
    BY <1>5 DEF Edit
  <2>2. now \in Nat
    BY CalendarTyped DEF RowsTyped, Time
  <2>3. first \in Instant
    BY <2>2, FirstRunTyped DEF Instant
  <2> HIDE DEF first
  <2>4. r \in Dated
    BY <1>2, <2>1, <2>3 DEF Dated
  <2> QED
    BY <2>1, <2>4, WriteTypes
<1>6. ASSUME NEW x, IsSession(x), session' = [session EXCEPT ![u] = x],
             UNCHANGED <<now, row>>
      PROVE  RowsTyped'
  BY <1>6 DEF RowsTyped, Time, IsSession, Loaded, Dated, Instant, NoTime, NoRow
<1>7. ASSUME NEW s \in Schedule, Load(u, s)
      PROVE  RowsTyped'
  <2>1. IsSession([of |-> s, row |-> row[s]])
    BY DEF IsSession, Loaded, RowsTyped
  <2> QED
    BY <1>6, <1>7, <2>1 DEF Load
<1>8. ASSUME EndSession(u)
      PROVE  RowsTyped'
  <2> DEFINE x == [session[u] EXCEPT !.row = NoRow]
  <2>1. IsSession(x)
    BY SessionFields DEF RowsTyped
  <2>2. session' = [session EXCEPT ![u] = x] /\ UNCHANGED <<now, row>>
    BY <1>8 DEF EndSession
  <2> HIDE DEF x
  <2> QED
    BY <1>6, <2>1, <2>2
<1> QED
  BY <1>3, <1>4, <1>5, <1>7, <1>8 DEF Command

\* The other steps leave the rows alone, but for the commit of a tick.
LEMMA StepTypes ==
  ASSUME CronsComeDue, SetBack, FireInv, RowsTyped, WritesFollow, [Next]_vars
  PROVE  RowsTyped'
<1>1. ASSUME NEW p \in Scheduler, Commit(p)
      PROVE  RowsTyped'
  <2>1. tick[p].pc # "idle" /\ UNCHANGED <<now, session>>
    BY <1>1 DEF Commit
  <2>2. ASSUME NEW s \in tick[p].rows
        PROVE  tick[p].write[s] \in Dated
    <3>1. s \in Schedule
      BY TickFields DEF FireInv, TablesTyped
    <3>2. row[s] \in Dated /\ [row[s] EXCEPT !.status = "paused"] \in Dated
      BY <3>1 DEF RowsTyped, Dated
    <3>3. CASE /\ row[s].spec.kind # "unsupported"
               /\ tick[p].write[s] = Advanced(row[s], tick[p].at)
      BY <2>1, <3>2, <3>3, AdvancedTyped DEF WritesFollow
    <3> QED
      BY <2>1, <3>2, <3>3 DEF WritesFollow
  <2>3. row' = [s \in Schedule |-> IF s \in tick[p].rows THEN tick[p].write[s]
                                                         ELSE row[s]]
    BY <1>1 DEF Commit
  <2>4. row' \in [Schedule -> Dated]
    BY <2>2, <2>3 DEF RowsTyped
  <2> QED
    BY <2>1, <2>4 DEF RowsTyped, Time, IsSession, Loaded, Dated, Instant, NoTime, NoRow
<1>2. CASE TimePasses
  <2>1. now' \in Time
    BY <1>2, CalendarTyped DEF TimePasses, RowsTyped, Time
  <2>2. UNCHANGED <<row, session>>
    BY <1>2 DEF TimePasses
  <2> QED
    BY <2>1, <2>2 DEF RowsTyped, Time, IsSession, Loaded, Dated, Instant, NoTime, NoRow
<1>3. CASE UNCHANGED <<now, row, session>>
  BY <1>3 DEF RowsTyped, Time, IsSession, Loaded, Dated, Instant, NoTime, NoRow
<1>4. \/ UNCHANGED <<now, row, session>> \/ TimePasses
      \/ \E p \in Scheduler : Commit(p)
      \/ \E u \in Session : Command(u)
  BY DEF Next, vars, Ticks, Begin, Unlock, Crash, Ends, TaskEnds, RetryTask
<1> QED
  BY <1>1, <1>2, <1>3, <1>4, CommandTypes

\* A tick that has committed wrote the next run of a schedule that goes on.
LEMMA CommitAdvances ==
  ASSUME CronsComeDue, SetBack, FireInv, RowsTyped, WritesFollow,
         NEW p \in Scheduler, Commit(p), NEW s \in tick[p].rows,
         row'[s].status = "active", row'[s] # row[s] \/ live'[s] # live[s]
  PROVE  /\ row[s] \in Dated /\ tick[p].at \in Nat /\ row[s].next <= tick[p].at
         /\ row[s].spec.kind \in {"interval", "cron"}
         /\ row'[s].next = IF row[s].spec.kind = "interval"
                           THEN NextInterval(row[s].next, row[s].spec.n, tick[p].at)
                           ELSE NextCron(row[s].spec, tick[p].at)
<1> DEFINE at == tick[p].at
<1>1. s \in Schedule /\ tick[p].pc # "idle"
  BY TickFields DEF FireInv, TablesTyped, Commit
<1>2. row[s] \in Dated /\ at \in Nat /\ row[s].next <= at
  <2>1. row[s] \in Dated
    BY <1>1 DEF RowsTyped
  <2>2. at \in Time /\ row[s].next <= at
    BY <1>1 DEF WritesFollow
  <2> QED
    BY <2>1, <2>2, CalendarTyped DEF Time
<1>3. row'[s] = tick[p].write[s]
  BY <1>1 DEF Commit
<1>4. row[s].spec.kind # "unsupported" /\ row'[s] = Advanced(row[s], at)
  <2>1. ~(tick[p].write[s] = row[s] /\ s \notin tick[p].made)
    <3>1. SUFFICES ASSUME s \notin tick[p].made
                   PROVE  live'[s] = live[s]
      BY <1>3
    <3> QED
      BY <1>1, <3>1 DEF Commit
  <2>2. tick[p].write[s] # [row[s] EXCEPT !.status = "paused"]
    BY <1>2, <1>3 DEF Dated
  <2> QED
    BY <1>1, <1>3, <2>1, <2>2 DEF WritesFollow
<1>5. row[s].spec.kind \in Kinds
  BY <1>2, SchedulerAssumption DEF Dated
<1>6. row[s].spec.kind # "oneoff"
  <2>1. SUFFICES ASSUME row[s].spec.kind = "oneoff"
                 PROVE  row'[s].status = "completed"
    OBVIOUS
  <2>2. row'[s] = [row[s] EXCEPT !.status = "completed", !.next = NoTime]
    BY <1>4, <2>1 DEF Advanced
  <2> QED
    BY <1>2, <2>2 DEF Dated
<1>7. CASE row[s].spec.kind = "interval"
  <2> DEFINE next == NextInterval(row[s].next, row[s].spec.n, at)
  <2>1. row'[s] = [row[s] EXCEPT !.next = next]
    BY <1>4, <1>7 DEF Advanced
  <2> HIDE DEF next
  <2>2. row'[s].next = next
    BY <1>2, <2>1 DEF Dated
  <2> QED
    BY <1>2, <1>7, <2>2 DEF next
<1>8. CASE row[s].spec.kind = "cron"
  <2> DEFINE next == NextCron(row[s].spec, at)
  <2>1. row'[s] = [row[s] EXCEPT !.next = next]
    BY <1>4, <1>8 DEF Advanced
  <2> HIDE DEF next
  <2>2. row'[s].next = next
    BY <1>2, <2>1 DEF Dated
  <2> QED
    BY <1>2, <1>8, <2>2 DEF next
<1> QED
  BY <1>4, <1>5, <1>6, <1>7, <1>8 DEF Kinds

NextRunInv == FireInv /\ RowsTyped /\ WritesFollow

LEMMA NextRunInvariant ==
  ASSUME CronsComeDue, SetBack
  PROVE  Spec => []NextRunInv
<1>1. Init => NextRunInv
  BY InitFire, InitNext DEF NextRunInv
<1>2. NextRunInv /\ [Next]_vars => NextRunInv'
  <2> SUFFICES ASSUME NextRunInv, [Next]_vars
               PROVE  NextRunInv'
    OBVIOUS
  <2>1. FireInv'
    BY StepKeepsFire DEF NextRunInv
  <2>2. RowsTyped' /\ WritesFollow'
    BY StepTypes, StepWrites DEF NextRunInv
  <2> QED
    BY <2>1, <2>2 DEF NextRunInv
<1> QED
  BY <1>1, <1>2, PTL DEF Spec

\* A tick that comes to its end with a change of a row it holds is a commit.
LEMMA EndIsCommit ==
  ASSUME FireInv, [Next]_vars, NEW p \in Scheduler, NEW s \in tick[p].rows,
         tick[p].pc = "unlocked", tick'[p].pc = "idle",
         row'[s] # row[s] \/ live'[s] # live[s]
  PROVE  Commit(p)
<1>1. SUFFICES ASSUME ~Commit(p)
               PROVE  FALSE
  OBVIOUS
<1>2. row'[s] = row[s]
  BY <1>1, HeldRowsStay
<1>3. tick = [q \in Scheduler |-> tick[q]]
  BY DEF FireInv, TablesTyped
<1>4. tick' # tick
  OBVIOUS
<1>5. PICK q \in Scheduler : Ticks(q) \/ Crash(q)
  BY <1>4, TicksOnly
<1>6. CASE q # p
  BY <1>3, <1>5, <1>6 DEF Ticks, Begin, Unlock, Commit, Crash
<1>7. CASE q = p /\ Begin(p)
  BY <1>7 DEF Begin, Idle
<1>8. CASE q = p /\ Unlock(p)
  BY <1>8 DEF Unlock
<1>9. CASE q = p /\ Crash(p)
  BY <1>2, <1>9 DEF Crash
<1> QED
  BY <1>1, <1>5, <1>6, <1>7, <1>8, <1>9 DEF Ticks

\* A tick moves a recurring schedule to the first instant after the tick that its
\* spec asks for, however late the tick is: also across a clock that is set back,
\* and for every schedule, time zone and period.  Where a clock is set forward,
\* the local times it skips mean instants of the hour after, and the statement
\* does not hold of them.
THEOREM RunsAdvance ==
  ASSUME CronsComeDue, SetBack
  PROVE  Spec => AdvancesToNext
<1>1. ASSUME NextRunInv, [Next]_vars, NEW s \in Schedule, NEW p \in Scheduler,
             tick[p].pc = "unlocked", tick'[p].pc = "idle", s \in tick[p].rows,
             row'[s].status = "active", row'[s] # row[s] \/ live'[s] # live[s],
             row[s].spec.kind = "cron" => ~Repeated(tick[p].at)
      PROVE  /\ row'[s].next > tick[p].at
             /\ Asks(row[s].spec, row[s].next, row'[s].next)
             /\ \A t \in (tick[p].at + 1)..(row'[s].next - 1) :
                  ~Asks(row[s].spec, row[s].next, t)
  <2> DEFINE spec == row[s].spec
             at == tick[p].at
             due == row[s].next
             next == row'[s].next
  <2>1. Commit(p)
    BY <1>1, EndIsCommit DEF NextRunInv
  <2>2. /\ row[s] \in Dated /\ at \in Nat /\ due <= at
        /\ spec.kind \in {"interval", "cron"}
        /\ next = IF spec.kind = "interval" THEN NextInterval(due, spec.n, at)
                                           ELSE NextCron(spec, at)
    BY <1>1, <2>1, CommitAdvances DEF NextRunInv
  <2>3. spec \in Specs /\ due \in Int
    BY <2>2 DEF Dated, Instant, NoTime
  <2>4. spec.kind = "cron" => ~Repeated(at)
    BY <1>1
  <2> HIDE DEF spec, at, due, next
  <2>5. CASE spec.kind = "interval"
    <3> DEFINE every == spec.n
               n == NextInterval(due, every, at)
    <3>1. every \in Nat \ {0} /\ at \in Int
      BY <2>2, <2>3, <2>5, SchedulerAssumption
    <3>2. next = n
      BY <2>2, <2>5
    <3>3. /\ n > at /\ (n - due) % every = 0
          /\ \A t \in (at + 1)..(n - 1) : (t - due) % every # 0
      <4> HIDE DEF every
      <4> QED
        BY <2>2, <2>3, <3>1, NextIntervalIs
    <3> HIDE DEF n
    <3>4. /\ next > at /\ Asks(spec, due, next)
          /\ \A t \in (at + 1)..(next - 1) : ~Asks(spec, due, t)
      BY <2>5, <3>2, <3>3 DEF Asks
    <3> QED
      BY <3>4 DEF spec, at, due, next
  <2>6. CASE spec.kind = "cron"
    <3>1. next = NextCron(spec, at) /\ WellFormed(spec)
      BY <2>2, <2>3, <2>6 DEF CronsComeDue
    <3>2. /\ next > at
          /\ OnCron(spec, Local(next)) /\ ~Repeated(next)
          /\ \A t \in (at + 1)..(next - 1) :
               ~(OnCron(spec, Local(t)) /\ ~Repeated(t))
      BY <2>2, <2>3, <2>4, <2>6, <3>1, NextCronIs
    <3>3. /\ next > at /\ Asks(spec, due, next)
          /\ \A t \in (at + 1)..(next - 1) : ~Asks(spec, due, t)
      BY <2>6, <3>2 DEF Asks
    <3> QED
      BY <3>3 DEF spec, at, due, next
  <2> QED
    BY <2>2, <2>5, <2>6
<1>2. ASSUME NextRunInv, [Next]_vars
      PROVE  \A s \in Schedule, p \in Scheduler :
               LET spec == row[s].spec
                   at == tick[p].at
               IN tick[p].pc = "unlocked" /\ tick'[p].pc = "idle"
                    /\ s \in tick[p].rows /\ row'[s].status = "active"
                    /\ (row'[s] # row[s] \/ live'[s] # live[s])
                    /\ (spec.kind = "cron" => ~Repeated(at))
                  => /\ row'[s].next > at
                     /\ Asks(spec, row[s].next, row'[s].next)
                     /\ \A t \in (at + 1)..(row'[s].next - 1) :
                          ~Asks(spec, row[s].next, t)
  BY <1>1, <1>2
<1> QED
  BY <1>2, NextRunInvariant, PTL DEF Spec, AdvancesToNext
-----------------------------------------------------------------------------
(***************************************************************************)
(* Types.                                                                  *)
(***************************************************************************)

\* The tables beside the rows, and the times of a transaction.
RestTyped ==
  /\ live \in [Schedule -> SUBSET Time] /\ retried \in [Schedule -> SUBSET Time]
  /\ commands \in 0..MaxCommands /\ cancelled \subseteq Schedule
  /\ \A p \in Scheduler :
       /\ tick[p].at \in Time
       /\ \A s \in tick[p].rows : tick[p].fire[s] \in Time

LEMMA InitRest == Init => RestTyped
<1> SUFFICES ASSUME Init
             PROVE  RestTyped
  OBVIOUS
<1>1. Idle.at \in Time /\ Idle.rows = {}
  BY CalendarTyped DEF Idle, Time
<1>2. 0 \in 0..MaxCommands
  BY SchedulerAssumption
<1> QED
  BY <1>1, <1>2 DEF Init, RestTyped

\* A tick writes fire times that are due.
LEMMA TickKeepsRest ==
  ASSUME FireInv, RowsTyped, RestTyped, NEW p \in Scheduler, Ticks(p) \/ Crash(p)
  PROVE  RestTyped'
<1>1. UNCHANGED <<retried, commands, cancelled>>
  BY DEF Ticks, Begin, Unlock, Commit, Crash
<1>2. tick = [q \in Scheduler |-> tick[q]]
  BY DEF FireInv, TablesTyped
<1>3. ASSUME NEW t, tick' = [tick EXCEPT ![p] = t], t.at \in Time,
             \A s \in t.rows : t.fire[s] \in Time
      PROVE  \A q \in Scheduler :
               /\ tick'[q].at \in Time
               /\ \A s \in tick'[q].rows : tick'[q].fire[s] \in Time
  BY <1>2, <1>3 DEF RestTyped
<1>4. CASE Begin(p)
  <2>1. PICK B \in Claims : tick' = [tick EXCEPT ![p] =
           [pc |-> "locked", at |-> now, rows |-> B, made |-> {s \in B : Runs(s)},
            write |-> [s \in B |-> Outcome(s)], fire |-> [s \in B |-> row[s].next]]]
    BY <1>4 DEF Begin
  <2> DEFINE M == {s \in B : Runs(s)}
             w == [s \in B |-> Outcome(s)]
             f == [s \in B |-> row[s].next]
             t == [pc |-> "locked", at |-> now, rows |-> B, made |-> M,
                   write |-> w, fire |-> f]
  <2>2. ASSUME NEW s \in B
        PROVE  f[s] \in Time
    <3>1. s \in Schedule /\ row[s].next # NoTime /\ row[s].next <= now
      BY DEF Claims, Due
    <3>2. row[s].next \in Nat
      BY <3>1 DEF RowsTyped, Dated, Instant
    <3>3. now \in Nat /\ now <= Horizon
      BY CalendarTyped DEF RowsTyped, Time
    <3> QED
      BY <3>1, <3>2, <3>3, CalendarTyped DEF Time
  <2>3. now \in Time /\ UNCHANGED live
    BY <1>4 DEF RowsTyped, Begin
  <2>4. tick' = [tick EXCEPT ![p] = t] /\ t.at = now /\ t.rows = B /\ t.fire = f
    BY <2>1
  <2> HIDE DEF t, f, w, M
  <2> QED
    BY <1>1, <1>3, <2>2, <2>3, <2>4 DEF RestTyped, Time
<1>5. CASE Unlock(p)
  <2> DEFINE t == [tick[p] EXCEPT !.pc = "unlocked"]
  <2>1. tick' = [tick EXCEPT ![p] = t] /\ tick[p] # Idle /\ UNCHANGED live
    BY <1>5 DEF Unlock, Idle
  <2>2. t.at = tick[p].at /\ t.rows = tick[p].rows /\ t.fire = tick[p].fire
    BY <2>1, UnlockFields DEF FireInv, TablesTyped
  <2> HIDE DEF t
  <2> QED
    BY <1>1, <1>3, <2>1, <2>2 DEF RestTyped, Time
<1>6. Idle.at \in Time /\ Idle.rows = {}
  BY CalendarTyped DEF Idle, Time
<1>7. CASE Commit(p)
  <2>1. tick' = [tick EXCEPT ![p] = Idle]
    BY <1>7 DEF Commit
  <2>2. live' \in [Schedule -> SUBSET Time]
    <3>1. \A s \in tick[p].made : tick[p].fire[s] \in Time
      BY TickFields DEF FireInv, TablesTyped, RestTyped
    <3> QED
      BY <1>7, <3>1 DEF Commit, RestTyped
  <2> QED
    BY <1>1, <1>3, <1>6, <2>1, <2>2 DEF RestTyped, Time
<1>8. CASE Crash(p)
  <2>1. tick' = [tick EXCEPT ![p] = Idle] /\ UNCHANGED live
    BY <1>8 DEF Crash
  <2> QED
    BY <1>1, <1>3, <1>6, <2>1 DEF RestTyped, Time
<1> QED
  BY <1>4, <1>5, <1>7, <1>8 DEF Ticks

LEMMA CommandKeepsRest ==
  ASSUME RowsTyped, RestTyped, NEW u \in Session, Command(u)
  PROVE  RestTyped'
<1>1. ASSUME NEW r, Write(u, r)
      PROVE  RestTyped'
  <2>1. session[u].of \in Schedule
    BY <1>1, SessionFields DEF Write, RowsTyped
  <2>2. commands' \in 0..MaxCommands
    BY <1>1, SchedulerAssumption DEF Write, RestTyped
  <2>3. cancelled' \subseteq Schedule
    BY <1>1, <2>1 DEF Write, RestTyped
  <2>4. UNCHANGED <<live, retried, tick>>
    BY <1>1 DEF Write
  <2> QED
    BY <2>2, <2>3, <2>4 DEF RestTyped, Time
<1>2. CASE UNCHANGED <<live, retried, tick, commands, cancelled>>
  BY <1>2 DEF RestTyped, Time
<1>3. \/ UNCHANGED <<live, retried, tick, commands, cancelled>>
      \/ \E r : Write(u, r)
  BY DEF Command, Load, Activate, Pause, Resume, Cancel, Edit, EndSession
<1> QED
  BY <1>1, <1>2, <1>3

LEMMA OthersKeepRest ==
  ASSUME RestTyped, TimePasses \/ UNCHANGED vars
                    \/ \E s \in Schedule, f \in Time : TaskEnds(s, f) \/ RetryTask(s, f)
  PROVE  RestTyped'
<1>1. UNCHANGED <<tick, cancelled>>
  BY DEF TimePasses, TaskEnds, RetryTask, vars
<1>2. commands' \in 0..MaxCommands
  BY SchedulerAssumption DEF TimePasses, TaskEnds, RetryTask, vars, RestTyped
<1>3. live' \in [Schedule -> SUBSET Time]
  BY DEF TimePasses, TaskEnds, RetryTask, vars, RestTyped
<1>4. retried' \in [Schedule -> SUBSET Time]
  BY DEF TimePasses, TaskEnds, RetryTask, vars, RestTyped
<1> QED
  BY <1>1, <1>2, <1>3, <1>4 DEF RestTyped, Time

\* Every state is well typed: every fire time is one of the clock, so none is
\* before the first instant, also where a clock is set back.
THEOREM SchedulerTyped ==
  ASSUME CronsComeDue, SetBack
  PROVE  Spec => []TypeOK
<1>1. Init => RestTyped
  BY InitRest
<1>2. NextRunInv /\ RestTyped /\ [Next]_vars => RestTyped'
  BY TickKeepsRest, CommandKeepsRest, OthersKeepRest DEF NextRunInv, Next, Ends
<1>3. NextRunInv /\ RestTyped => TypeOK
  <2> SUFFICES ASSUME NextRunInv, RestTyped
               PROVE  TypeOK
    OBVIOUS
  <2>1. row \in [Schedule -> Row]
    BY DEF NextRunInv, RowsTyped, Dated, Row, Instant, NoTime
  <2>2. ASSUME NEW u \in Session
        PROVE  session[u].row = NoRow \/ session[u].row \in Row
    BY SessionFields DEF NextRunInv, RowsTyped, Dated, Row, Instant, NoTime
  <2>3. ASSUME NEW p \in Scheduler
        PROVE  /\ tick[p].pc \in {"idle", "locked", "unlocked"}
               /\ tick[p].made \subseteq tick[p].rows /\ tick[p].rows \subseteq Schedule
    BY TickFields DEF NextRunInv, FireInv, TablesTyped
  <2> QED
    BY <2>1, <2>2, <2>3 DEF TypeOK, NextRunInv, RowsTyped, FireInv, TablesTyped, RestTyped
<1> QED
  BY <1>1, <1>2, <1>3, NextRunInvariant, PTL DEF Spec
-----------------------------------------------------------------------------
(***************************************************************************)
(* Cancelled schedules.                                                    *)
(***************************************************************************)

\* A session has loaded a schedule, or nothing.
LoadedFrom(o, r) == r # NoRow => o \in Schedule

Holds(x) == \E o, r : x = [of |-> o, row |-> r] /\ LoadedFrom(o, r)

SessionsTyped ==
  /\ session = [u \in Session |-> session[u]]
  /\ \A u \in Session : Holds(session[u])

\* A cancelled schedule is that in its row and wherever it is loaded.
Quiet ==
  \A s \in cancelled :
    /\ s \in Schedule /\ row[s].status = "cancelled"
    /\ \A u \in Session :
         session[u].row # NoRow /\ session[u].of = s
           => session[u].row.status = "cancelled"

LEMMA InitQuiet == Init => SessionsTyped /\ Quiet
BY DEF Init, SessionsTyped, Holds, LoadedFrom, Quiet

\* The fields of what a session holds, as it was and with another row.
LEMMA HoldsFields ==
  ASSUME NEW x, Holds(x)
  PROVE  /\ x.row # NoRow => x.of \in Schedule
         /\ \A r : LET n == [x EXCEPT !.row = r]
                  IN  /\ n.row = r /\ n.of = x.of
                      /\ LoadedFrom(x.of, r) => Holds(n)
<1>1. PICK o, r : x = [of |-> o, row |-> r] /\ LoadedFrom(o, r)
  BY DEF Holds
<1>2. \A n : [x EXCEPT !.row = n] = [of |-> o, row |-> n]
  BY <1>1
<1>3. x.row # NoRow => x.of \in Schedule
  BY <1>1 DEF LoadedFrom
<1>4. ASSUME NEW r1
      PROVE  LET n == [x EXCEPT !.row = r1]
             IN  /\ n.row = r1 /\ n.of = x.of
                 /\ LoadedFrom(x.of, r1) => Holds(n)
  <2>1. [x EXCEPT !.row = r1] = [of |-> o, row |-> r1] /\ x.of = o
    BY <1>1, <1>2
  <2> QED
    BY <2>1 DEF Holds
<1> QED
  BY <1>3, <1>4

\* What a session holds after a step.
LEMMA SessionSet ==
  ASSUME SessionsTyped, NEW u \in Session, NEW r,
         session' = [session EXCEPT ![u].row = r],
         r # NoRow => session[u].of \in Schedule
  PROVE  /\ SessionsTyped'
         /\ session'[u].row = r /\ session'[u].of = session[u].of
         /\ \A v \in Session \ {u} : session'[v] = session[v]
<1> DEFINE n == [session[u] EXCEPT !.row = r]
<1>1. session' = [session EXCEPT ![u] = n]
  OBVIOUS
<1>2. n.row = r /\ n.of = session[u].of /\ Holds(n)
  BY HoldsFields DEF SessionsTyped, LoadedFrom
<1> HIDE DEF n
<1> QED
  BY <1>1, <1>2 DEF SessionsTyped

\* A command of a session that may manage its schedule.
LEMMA WriteIsQuiet ==
  ASSUME FireInv, SessionsTyped, SessionsApart, Quiet,
         NEW u \in Session, NEW r, Manageable(u), Write(u, r)
  PROVE  SessionsTyped' /\ Quiet'
<1> DEFINE s == session[u].of
           old == session[u].row
           new == [status |-> IF r.status # old.status THEN r.status ELSE row[s].status,
                   spec |-> IF r.spec # old.spec THEN r.spec ELSE row[s].spec,
                   next |-> IF r.next # old.next THEN r.next ELSE row[s].next]
<1>1. /\ old # NoRow /\ s \in Schedule /\ old.status # "cancelled"
      /\ row' = [row EXCEPT ![s] = new]
      /\ session' = [session EXCEPT ![u].row = r]
      /\ cancelled' = IF r.status = "cancelled" THEN cancelled \cup {s} ELSE cancelled
  <2>1. /\ old # NoRow /\ row' = [row EXCEPT ![s] = new]
        /\ session' = [session EXCEPT ![u].row = r]
        /\ cancelled' = IF r.status = "cancelled" THEN cancelled \cup {s} ELSE cancelled
    BY DEF Write
  <2>2. s \in Schedule
    BY <2>1, HoldsFields DEF SessionsTyped
  <2>3. old.status # "cancelled"
    BY DEF Manageable
  <2> QED
    BY <2>1, <2>2, <2>3
<1>2. new.status = IF r.status # old.status THEN r.status ELSE row[s].status
  OBVIOUS
<1> HIDE DEF s, old, new
<1>3. s \notin cancelled
  BY <1>1 DEF Quiet, s, old
<1>4. /\ SessionsTyped' /\ session'[u].row = r /\ session'[u].of = s
      /\ \A v \in Session \ {u} : session'[v] = session[v]
  BY <1>1, SessionSet DEF s
<1>5. /\ row'[s] = new
      /\ \A x \in Schedule \ {s} : row'[x] = row[x]
  BY <1>1 DEF FireInv, TablesTyped
<1>6. ASSUME NEW x \in cancelled
      PROVE  /\ x \in Schedule /\ row'[x].status = "cancelled"
             /\ \A v \in Session :
                  session'[v].row # NoRow /\ session'[v].of = x
                    => session'[v].row.status = "cancelled"
  BY <1>3, <1>4, <1>5 DEF Quiet
<1>7. ASSUME r.status = "cancelled"
      PROVE  /\ s \in Schedule /\ row'[s].status = "cancelled"
             /\ \A v \in Session :
                  session'[v].row # NoRow /\ session'[v].of = s
                    => session'[v].row.status = "cancelled"
  <2>1. \A v \in Session \ {u} : ~(session[v].row # NoRow /\ session[v].of = s)
    BY <1>1 DEF SessionsApart, s, old
  <2> QED
    BY <1>1, <1>2, <1>4, <1>5, <1>7, <2>1
<1>8. Quiet'
  BY <1>1, <1>6, <1>7 DEF Quiet
<1> QED
  BY <1>4, <1>8

LEMMA StepIsQuiet ==
  ASSUME FireInv, SessionsTyped, SessionsApart, Quiet, [Next]_vars
  PROVE  SessionsTyped' /\ Quiet'
<1>1. ASSUME NEW p \in Scheduler, Commit(p)
      PROVE  SessionsTyped' /\ Quiet'
  <2>1. session' = session /\ cancelled' = cancelled
    BY <1>1 DEF Commit
  <2>2. \A s \in cancelled : s \in Schedule /\ s \notin tick[p].rows
    BY DEF Quiet, FireInv, RowsHeld
  <2>3. \A s \in cancelled : row'[s] = row[s]
    BY <1>1, <2>2 DEF Commit
  <2> QED
    BY <2>1, <2>3 DEF SessionsTyped, Quiet
<1>2. ASSUME NEW u \in Session, NEW s \in Schedule, Load(u, s)
      PROVE  SessionsTyped' /\ Quiet'
  <2> DEFINE n == [of |-> s, row |-> row[s]]
  <2>1. /\ session' = [session EXCEPT ![u] = n]
        /\ row' = row /\ cancelled' = cancelled /\ s \notin cancelled
    BY <1>2 DEF Load, Quiet
  <2>2. n.of = s /\ Holds(n)
    BY DEF Holds, LoadedFrom
  <2> HIDE DEF n
  <2>3. /\ SessionsTyped' /\ session'[u].of = s
        /\ \A v \in Session \ {u} : session'[v] = session[v]
    BY <2>1, <2>2 DEF SessionsTyped
  <2> QED
    BY <2>1, <2>3 DEF Quiet
<1>3. ASSUME NEW u \in Session, EndSession(u)
      PROVE  SessionsTyped' /\ Quiet'
  <2>1. /\ session' = [session EXCEPT ![u].row = NoRow]
        /\ row' = row /\ cancelled' = cancelled
    BY <1>3 DEF EndSession
  <2>2. /\ SessionsTyped' /\ session'[u].row = NoRow
        /\ \A v \in Session \ {u} : session'[v] = session[v]
    BY <2>1, SessionSet
  <2> QED
    BY <2>1, <2>2 DEF Quiet
<1>4. CASE UNCHANGED <<row, session, cancelled>>
  BY <1>4 DEF SessionsTyped, Quiet
<1>5. ASSUME NEW u \in Session, Command(u)
      PROVE  SessionsTyped' /\ Quiet'
  <2>1. \/ \E s \in Schedule : Load(u, s)
        \/ EndSession(u)
        \/ \E r : Manageable(u) /\ Write(u, r)
    BY <1>5 DEF Command, Activate, Pause, Resume, Cancel, Edit
  <2> QED
    BY <1>2, <1>3, <2>1, WriteIsQuiet
<1>6. \/ UNCHANGED <<row, session, cancelled>>
      \/ \E p \in Scheduler : Commit(p)
      \/ \E u \in Session : Command(u)
  BY DEF Next, vars, Ticks, Begin, Unlock, Crash, Ends, TaskEnds, RetryTask,
         TimePasses
<1> QED
  BY <1>1, <1>4, <1>5, <1>6

\* As long as no schedule is in two sessions at a time, a schedule that a user
\* cancelled makes no new task, however late the ticks commit what they read
\* before: only a race of two sessions can bring it back.
THEOREM CancelledSchedulesStayQuiet ==
  Spec /\ []SessionsApart => CancelledStaysQuiet
<1>1. FireInv /\ SessionsTyped /\ SessionsApart /\ Quiet /\ [Next]_vars
        => (SessionsTyped /\ Quiet)'
  BY StepIsQuiet
<1>2. FireInv /\ Quiet /\ [Next]_vars
        => [\A s \in cancelled : live'[s] \subseteq live[s]]_vars
  <2> SUFFICES ASSUME FireInv, Quiet, [Next]_vars, NEW s \in cancelled,
                      ~(live'[s] \subseteq live[s])
               PROVE  FALSE
    OBVIOUS
  <2>1. s \in Schedule /\ row[s].status = "cancelled" /\ live'[s] \ live[s] # {}
    BY DEF Quiet
  <2> QED
    BY <2>1, BirthIsActive
<1> QED
  BY <1>1, <1>2, InitQuiet, FireInvariant, PTL DEF Spec, CancelledStaysQuiet
=============================================================================
