--------------------------- MODULE WitnessProofs ---------------------------
(***************************************************************************)
(* Theorems about Witness, for any candidates, users, runners and handlers *)
(* of buttons, and any bounds; and, in the last section, about the trigger *)
(* listener, from whose events candidates come.                            *)
(***************************************************************************)
EXTENDS Witness, Triggers, TLAPS

\* A tick never writes that a candidate is automated.
TickStatus == Status \ {"automated"}

Session == [pc : {"idle", "digests", "reviews", "unlocked", "asleep"},
            locked : SUBSET Cand, todo : SUBSET User,
            at : User \cup {None}, items : SUBSET Cand,
            posted : SUBSET User, writes : [Cand -> TickStatus]]

\* Nothing is left of a tick between ticks; what is put into a digest or
\* written is locked; a user is dealt with once in a tick.
Orderly(s) ==
  /\ s \in Session
  /\ s.pc \in {"idle", "asleep"} =>
       s.locked = {} /\ s.todo = {} /\ s.at = None /\ s.posted = {}
  /\ s.items \subseteq s.locked
  /\ \A c \in Cand : s.writes[c] # "none" => c \in s.locked
  /\ s.at \notin s.todo \cup s.posted
  /\ s.posted \cap s.todo = {}

RunnersOrderly ==
  /\ runner \in [Runner -> Session]
  /\ \A r \in Runner : Orderly(runner[r])

\* A row is locked by one tick, and stays a candidate while it is.
LocksHold ==
  /\ \A r, q \in Runner : r # q => runner[r].locked \cap runner[q].locked = {}
  /\ \A r \in Runner : \A c \in runner[r].locked : cand[c].status = "candidate"

\* The digests of this window in Slack are those on record and those of the
\* ticks under way, and none of them is two of these.
DigestsAddUp ==
  /\ \A r, q \in Runner : r # q => runner[r].posted \cap runner[q].posted = {}
  /\ \A r \in Runner : runner[r].posted \cap digest = {}
  /\ \A u \in User : shown[u] =
       IF u \in digest \/ \E r \in Runner : u \in runner[r].posted THEN 1 ELSE 0

Work == [tasks : 0..1, proposed : 0..MaxDrafts, started : 0..MaxDrafts,
         drafted : BOOLEAN]

RowsTyped ==
  /\ cand \in [Cand -> Row] /\ work \in [Cand -> Work]
  /\ click \in [Click -> [on : Cand \cup {None}, row : Row]]
  /\ buttons \subseteq Cand

RestTyped ==
  /\ digest \subseteq User /\ shown \in [User -> 0..2]
  /\ leader \in Lock
  /\ actions \in 0..MaxActions /\ failures \in 0..MaxFailures

TickInv ==
  /\ RunnersOrderly /\ LocksHold /\ DigestsAddUp
  /\ RowsTyped /\ RestTyped /\ AutomatedHasWork

-----------------------------------------------------------------------------
LEMMA Bounds ==
  /\ MaxActions \in Nat /\ MaxFailures \in Nat /\ MaxDrafts \in Nat
  /\ \A c \in Cand : Target[c] \in User
  /\ None \notin User /\ None \notin Cand
BY WitnessAssumption

LEMMA AsleepIsOrderly ==
  Orderly(Asleep) /\ Orderly([Asleep EXCEPT !.pc = "idle"])
<1>1. Asleep \in Session
  BY DEF Asleep, Session, TickStatus, Status
<1>2. /\ Asleep.pc = "asleep" /\ Asleep.locked = {} /\ Asleep.todo = {}
      /\ Asleep.at = None /\ Asleep.items = {} /\ Asleep.posted = {}
      /\ \A c \in Cand : Asleep.writes[c] = "none"
  BY DEF Asleep
<1> QED
  BY <1>1, <1>2 DEF Orderly, Session

\* A tick goes on: one runner changes, nobody else's row is locked, and what
\* is shown stays as it was.
LEMMA RunnerGoesOn ==
  ASSUME TickInv, NEW r \in Runner, NEW new, Orderly(new),
         runner' = [runner EXCEPT ![r] = new],
         \A c \in new.locked : c \in runner[r].locked \/ (Free(c) /\ Eligible(c)),
         new.posted = runner[r].posted,
         buttons' \subseteq Cand, leader' \in Lock,
         UNCHANGED <<cand, work, digest, shown, click, actions, failures>>
  PROVE  TickInv'
<1>1. new \in Session /\ runner \in [Runner -> Session]
  BY DEF Orderly, TickInv, RunnersOrderly
<1>2. RunnersOrderly'
  BY <1>1 DEF TickInv, RunnersOrderly
<1>3. LocksHold'
  BY <1>1 DEF TickInv, LocksHold, Free, Eligible
<1>4. DigestsAddUp'
  <2>1. \A q \in Runner : runner'[q].posted = runner[q].posted
    BY <1>1
  <2> QED
    BY <2>1 DEF TickInv, DigestsAddUp
<1>5. RowsTyped' /\ RestTyped' /\ AutomatedHasWork'
  BY DEF TickInv, RowsTyped, RestTyped, AutomatedHasWork
<1> QED
  BY <1>2, <1>3, <1>4, <1>5 DEF TickInv

\* Rows change that no tick has locked, or keep their status.
LEMMA RowsChange ==
  ASSUME TickInv, RowsTyped', AutomatedHasWork',
         \A c \in Cand : Free(c) \/ cand'[c].status = cand[c].status
                                 \/ cand[c].status # "candidate",
         actions' \in 0..MaxActions,
         UNCHANGED <<digest, shown, leader, runner, failures>>
  PROVE  TickInv'
<1>1. LocksHold'
  <2> SUFFICES ASSUME NEW r \in Runner, NEW c \in runner[r].locked
               PROVE  cand'[c].status = "candidate"
    BY DEF TickInv, LocksHold
  <2>1. c \in Cand /\ cand[c].status = "candidate" /\ ~Free(c)
    BY DEF TickInv, LocksHold, RunnersOrderly, Session, Free
  <2> QED
    BY <2>1
<1>2. RunnersOrderly' /\ DigestsAddUp'
  BY DEF TickInv, RunnersOrderly, DigestsAddUp
<1>3. RestTyped'
  BY DEF TickInv, RestTyped
<1> QED
  BY <1>1, <1>2, <1>3 DEF TickInv

\* The lock is held or free after every step.
LEMMA LockTyped ==
  ASSUME leader \in Lock, NEW r \in Runner,
         Tick(r) \/ Unlock(r) \/ Abort(r) \/ Crash(r)
  PROVE  leader' \in Lock
<1>1. NoLock \in Lock
  BY DEF NoLock, Lock
<1>2. [leader EXCEPT !.by = r] \in Lock /\ [leader EXCEPT !.leaked = TRUE] \in Lock
  BY DEF Lock
<1> QED
  BY <1>1, <1>2 DEF Tick, Unlock, Abort, Crash, Released

LEMMA InitTick == Init => TickInv
<1> SUFFICES ASSUME Init
             PROVE  TickInv
  OBVIOUS
<1> DEFINE idle == [Asleep EXCEPT !.pc = "idle"]
<1>1. Orderly(idle) /\ runner = [r \in Runner |-> idle]
  BY AsleepIsOrderly DEF Init
<1> HIDE DEF idle
<1>2. RunnersOrderly
  BY <1>1 DEF RunnersOrderly, Orderly
<1>3. idle.locked = {} /\ idle.posted = {}
  BY DEF Asleep, idle
<1>4. LocksHold /\ DigestsAddUp
  BY <1>1, <1>3 DEF Init, LocksHold, DigestsAddUp
<1>5. New \in Row /\ New.status # "automated"
  BY DEF New, Row, Status
<1>6. RowsTyped
  <2>1. Unclicked \in [on : Cand \cup {None}, row : Row]
    BY <1>5 DEF Unclicked
  <2>2. [tasks |-> 0, proposed |-> 0, started |-> 0, drafted |-> FALSE] \in Work
    BY Bounds DEF Work
  <2> QED
    BY <1>5, <2>1, <2>2 DEF Init, RowsTyped
<1>7. RestTyped /\ AutomatedHasWork
  BY <1>5, Bounds DEF Init, RestTyped, AutomatedHasWork, Lock, NoLock
<1> QED
  BY <1>2, <1>4, <1>6, <1>7 DEF TickInv

-----------------------------------------------------------------------------
(***************************************************************************)
(* A tick.                                                                 *)
(***************************************************************************)
LEMMA TickKeepsInv ==
  ASSUME TickInv, NEW r \in Runner, Tick(r)
  PROVE  TickInv'
<1> DEFINE due == {c \in Cand : Eligible(c) /\ Free(c)}
           users == {Target[c] : c \in due}
           new == [Asleep EXCEPT !.pc = "digests", !.locked = due,
                                 !.items = due, !.todo = users]
<1>1. runner' = [runner EXCEPT ![r] = new]
  BY DEF Tick, Locks
<1>2. due \subseteq Cand /\ users \subseteq User
  BY Bounds
<1>3. \A c \in due : Free(c) /\ Eligible(c)
  OBVIOUS
<1>4. runner[r].posted = {}
  BY DEF Tick, TickInv, RunnersOrderly, Orderly
<1> HIDE DEF due, users
<1>5. /\ new \in Session /\ new.pc = "digests" /\ new.locked = due
      /\ new.items = due /\ new.todo = users /\ new.at = None
      /\ new.posted = {} /\ \A c \in Cand : new.writes[c] = "none"
  <2>1. Asleep \in Session /\ Asleep.at = None /\ Asleep.posted = {}
        /\ \A c \in Cand : Asleep.writes[c] = "none"
    BY AsleepIsOrderly DEF Orderly, Asleep
  <2> QED
    BY <1>2, <2>1 DEF Session
<1>6. Orderly(new)
  BY <1>2, <1>5, Bounds DEF Orderly
<1>7. /\ leader' \in Lock /\ buttons' \subseteq Cand
      /\ UNCHANGED <<cand, work, digest, shown, click, actions, failures>>
  BY LockTyped DEF Tick, TickInv, RowsTyped, RestTyped
<1> HIDE DEF new
<1> QED
  BY <1>1, <1>3, <1>4, <1>5, <1>6, <1>7, RunnerGoesOn

LEMMA DigestKeepsInv ==
  ASSUME TickInv, NEW r \in Runner, NEW u \in User, Skip(r, u) \/ Compose(r, u)
  PROVE  TickInv'
<1> DEFINE me == runner[r]
<1>1. me \in Session /\ Orderly(me) /\ me.at = None /\ u \in me.todo
  BY DEF TickInv, RunnersOrderly, Skip, Compose
<1>2. /\ leader' \in Lock /\ buttons' \subseteq Cand
      /\ UNCHANGED <<cand, work, digest, shown, click, actions, failures>>
  BY DEF Skip, Compose, TickInv, RowsTyped, RestTyped
<1>3. CASE Skip(r, u)
  <2> DEFINE new == [me EXCEPT !.todo = @ \ {u}]
  <2>1. runner' = [runner EXCEPT ![r] = new]
    BY <1>3 DEF Skip
  <2>2. Orderly(new) /\ new.locked = me.locked /\ new.posted = me.posted
    BY <1>1, Bounds DEF Orderly, Session
  <2>3. \A c \in new.locked : c \in runner[r].locked \/ (Free(c) /\ Eligible(c))
    BY <2>2
  <2> HIDE DEF new, me
  <2> QED
    BY <1>2, <2>1, <2>2, <2>3, RunnerGoesOn DEF me
<1>4. CASE Compose(r, u)
  <2> DEFINE mine == {c \in me.items : Target[c] = u}
  <2>1. PICK S \in Included(mine) : runner' =
          [runner EXCEPT ![r].at = u, ![r].todo = @ \ {u},
                         ![r].items = (@ \ mine) \cup S]
    BY <1>4 DEF Compose
  <2>2. S \subseteq me.items
    BY DEF Included
  <2> DEFINE items == (me.items \ mine) \cup S
             new == [me EXCEPT !.at = u, !.todo = @ \ {u}, !.items = items]
  <2>3. runner' = [runner EXCEPT ![r] = new]
    BY <1>1, <2>1 DEF TickInv, RunnersOrderly, Session
  <2>4. items \subseteq me.items
    BY <2>2
  <2> HIDE DEF items
  <2>5. /\ new \in Session /\ new.pc = me.pc /\ new.locked = me.locked
        /\ new.todo = me.todo \ {u} /\ new.at = u /\ new.items = items
        /\ new.posted = me.posted /\ new.writes = me.writes
    BY <1>1, <2>4 DEF Session
  <2>6. Orderly(new)
    BY <1>1, <2>4, <2>5 DEF Orderly
  <2>7. \A c \in new.locked : c \in runner[r].locked \/ (Free(c) /\ Eligible(c))
    BY <2>5
  <2> HIDE DEF new, me
  <2> QED
    BY <1>2, <2>3, <2>5, <2>6, <2>7, RunnerGoesOn DEF me
<1> QED
  BY <1>3, <1>4

LEMMA PostKeepsInv ==
  ASSUME TickInv, NEW r \in Runner, Post(r)
  PROVE  TickInv'
<1> DEFINE me == runner[r]
           S == {c \in me.items : Target[c] = me.at}
<1>1. me \in Session /\ Orderly(me) /\ me.at # None /\ me.at \in User
      /\ S \subseteq Cand /\ runner \in [Runner -> Session]
  BY DEF TickInv, RunnersOrderly, Post, Session
<1>2. /\ leader' \in Lock /\ buttons' \subseteq Cand
      /\ UNCHANGED <<cand, work, digest, leader, click, actions, failures>>
  BY <1>1 DEF Post, TickInv, RowsTyped, RestTyped
<1>3. CASE Recorded(me.at)
  <2> DEFINE new == [me EXCEPT !.at = None]
  <2>1. runner' = [runner EXCEPT ![r] = new] /\ shown' = shown
    BY <1>3 DEF Post
  <2>2. Orderly(new) /\ new.locked = me.locked /\ new.posted = me.posted
    BY <1>1, Bounds DEF Orderly, Session
  <2>3. \A c \in new.locked : c \in runner[r].locked \/ (Free(c) /\ Eligible(c))
    BY <2>2
  <2> HIDE DEF new, me
  <2> QED
    BY <1>2, <2>1, <2>2, <2>3, RunnerGoesOn DEF me
<1>4. CASE ~Recorded(me.at)
  <2> DEFINE writes == [c \in Cand |-> IF c \in S THEN "sent" ELSE me.writes[c]]
             new == [me EXCEPT !.at = None, !.posted = @ \cup {me.at},
                               !.writes = writes]
  <2>1. runner' = [runner EXCEPT ![r] = new]
    BY <1>4 DEF Post
  <2>2. /\ writes \in [Cand -> TickStatus]
        /\ \A c \in Cand : writes[c] # "none" => c \in S \/ me.writes[c] # "none"
    BY <1>1 DEF Session, TickStatus, Status
  <2> HIDE DEF writes
  <2>3. /\ new \in Session /\ new.pc = me.pc /\ new.locked = me.locked
        /\ new.todo = me.todo /\ new.at = None /\ new.items = me.items
        /\ new.posted = me.posted \cup {me.at} /\ new.writes = writes
    BY <1>1, <2>2 DEF Session
  <2>4. Orderly(new)
    BY <1>1, <2>2, <2>3, Bounds DEF Orderly, Session
  <2>5. /\ me.at \notin digest /\ me.at \notin me.posted
        /\ \A q \in Runner \ {r} : me.at \notin runner[q].posted
    BY <1>1, <1>4 DEF Post, Recorded, Orderly
  <2>6. shown[me.at] = 0 /\ shown' = [shown EXCEPT ![me.at] = 1]
    <3>1. \A q \in Runner : me.at \notin runner[q].posted
      BY <2>5
    <3>2. shown[me.at] = 0
      BY <1>1, <2>5, <3>1 DEF TickInv, DigestsAddUp
    <3> QED
      BY <1>4, <3>2 DEF Post
  <2> HIDE DEF new
  <2>7. RunnersOrderly'
    BY <2>1, <2>3, <2>4 DEF TickInv, RunnersOrderly
  <2>8. LocksHold'
    BY <1>1, <1>2, <2>1, <2>3 DEF TickInv, LocksHold
  <2>9. DigestsAddUp'
    <3>1. \A q \in Runner : runner'[q].posted =
            IF q = r THEN me.posted \cup {me.at} ELSE runner[q].posted
      BY <1>1, <2>1, <2>3
    <3>2. ASSUME NEW q \in Runner
          PROVE  /\ runner'[q].posted \cap digest' = {}
                 /\ \A p \in Runner : q # p =>
                      runner'[q].posted \cap runner'[p].posted = {}
      BY <1>2, <2>5, <3>1 DEF TickInv, DigestsAddUp
    <3>3. ASSUME NEW u \in User
          PROVE  shown'[u] = IF u \in digest' \/ \E q \in Runner : u \in runner'[q].posted
                             THEN 1 ELSE 0
      BY <1>1, <1>2, <2>6, <3>1 DEF TickInv, DigestsAddUp, RestTyped
    <3> QED
      BY <3>2, <3>3 DEF DigestsAddUp
  <2>10. RestTyped'
    BY <1>1, <1>2, <2>6 DEF TickInv, RestTyped
  <2>11. RowsTyped' /\ AutomatedHasWork'
    BY <1>2 DEF TickInv, RowsTyped, AutomatedHasWork
  <2> QED
    BY <2>7, <2>8, <2>9, <2>10, <2>11 DEF TickInv
<1> QED
  BY <1>3, <1>4

LEMMA ReviewKeepsInv ==
  ASSUME TickInv, NEW r \in Runner, NEW c \in Cand, Review(r, c)
  PROVE  TickInv'
<1> DEFINE me == runner[r]
<1>1. me \in Session /\ Orderly(me) /\ runner \in [Runner -> Session]
  BY DEF TickInv, RunnersOrderly
<1>2. /\ Eligible(c) /\ (c \in me.locked \/ Free(c))
      /\ me.todo = {} /\ me.at = None
  BY DEF Review
<1>3. PICK s \in {"accepted", "dismissed", "cooldown", "candidate"} :
        runner' = [runner EXCEPT ![r].pc = "reviews",
                     ![r].locked = @ \cup {c}, ![r].writes[c] = s]
  BY DEF Review, Locks
<1> DEFINE writes == [me.writes EXCEPT ![c] = s]
           new == [me EXCEPT !.pc = "reviews", !.locked = @ \cup {c},
                             !.writes = writes]
<1>4. runner' = [runner EXCEPT ![r] = new]
  BY <1>1, <1>3 DEF Session
<1>5. /\ writes \in [Cand -> TickStatus]
      /\ \A d \in Cand : writes[d] # "none" => d = c \/ me.writes[d] # "none"
  BY <1>1 DEF Session, TickStatus, Status
<1> HIDE DEF writes
<1>6. /\ new \in Session /\ new.pc = "reviews" /\ new.locked = me.locked \cup {c}
      /\ new.todo = me.todo /\ new.at = me.at /\ new.items = me.items
      /\ new.posted = me.posted /\ new.writes = writes
  BY <1>1, <1>5 DEF Session
<1>7. Orderly(new)
  BY <1>1, <1>5, <1>6 DEF Orderly
<1>8. /\ leader' \in Lock /\ buttons' \subseteq Cand
      /\ UNCHANGED <<cand, work, digest, shown, click, actions, failures>>
  BY DEF Review, TickInv, RowsTyped, RestTyped
<1>9. \A d \in new.locked : d \in runner[r].locked \/ (Free(d) /\ Eligible(d))
  BY <1>2, <1>6
<1> HIDE DEF new, me
<1> QED
  BY <1>4, <1>6, <1>7, <1>8, <1>9, RunnerGoesOn DEF me

LEMMA UnlockKeepsInv ==
  ASSUME TickInv, NEW r \in Runner, Unlock(r)
  PROVE  TickInv'
<1> DEFINE me == runner[r]
           new == [me EXCEPT !.pc = "unlocked"]
<1>1. me \in Session /\ Orderly(me)
  BY DEF TickInv, RunnersOrderly
<1>2. runner' = [runner EXCEPT ![r] = new]
  BY DEF Unlock
<1>3. Orderly(new) /\ new.locked = me.locked /\ new.posted = me.posted
  BY <1>1 DEF Orderly, Session
<1>4. /\ leader' \in Lock /\ buttons' \subseteq Cand
      /\ UNCHANGED <<cand, work, digest, shown, click, actions, failures>>
  BY LockTyped DEF Unlock, TickInv, RowsTyped, RestTyped
<1>5. \A c \in new.locked : c \in runner[r].locked \/ (Free(c) /\ Eligible(c))
  BY <1>3
<1> HIDE DEF new, me
<1> QED
  BY <1>2, <1>3, <1>4, <1>5, RunnerGoesOn DEF me

\* What a tick writes was a candidate until now.
LEMMA CommitWritesCandidates ==
  ASSUME TickInv, NEW r \in Runner, NEW c \in Cand, runner[r].writes[c] # "none"
  PROVE  /\ cand[c].status = "candidate"
         /\ \A q \in Runner : q # r => c \notin runner[q].locked
BY DEF TickInv, RunnersOrderly, Orderly, LocksHold

LEMMA CommitKeepsInv ==
  ASSUME TickInv, NEW r \in Runner, Commit(r)
  PROVE  TickInv'
<1> DEFINE me == runner[r]
<1>1. me \in Session /\ runner \in [Runner -> Session]
  BY DEF TickInv, RunnersOrderly
<1>2. Asleep \in Session /\ Asleep.locked = {} /\ Asleep.posted = {}
  BY AsleepIsOrderly DEF Orderly, Asleep
<1>3. runner' = [runner EXCEPT ![r] = Asleep]
  BY DEF Commit
<1>4. \A c \in Cand : /\ me.writes[c] = "none" => cand'[c] = cand[c]
                      /\ me.writes[c] # "none" => /\ cand'[c] \in Row
                                                 /\ cand'[c].status = me.writes[c]
  <2> DEFINE cools(c) == me.writes[c] \in {"cooldown", "candidate"}
  <2>1. \A c \in Cand : cools(c) \in BOOLEAN /\ me.writes[c] \in Status
    BY <1>1 DEF Session, TickStatus
  <2>2. cand' = [c \in Cand |->
          IF me.writes[c] = "none" THEN cand[c]
          ELSE [status |-> me.writes[c], cooling |-> cools(c)]]
    BY DEF Commit
  <2> HIDE DEF cools
  <2> QED
    BY <2>1, <2>2 DEF Row
<1>5. RowsTyped'
  <2>1. \A c \in Cand : cand'[c] \in Row
    BY <1>4 DEF TickInv, RowsTyped
  <2>2. \A c \in Cand : work'[c] \in Work
    BY DEF Commit, TickInv, RowsTyped, Work
  <2>3. cand' = [c \in Cand |-> cand'[c]] /\ work' = [c \in Cand |-> work'[c]]
    BY DEF Commit
  <2> QED
    BY <2>1, <2>2, <2>3 DEF Commit, TickInv, RowsTyped
<1>6. AutomatedHasWork'
  <2> SUFFICES ASSUME NEW c \in Cand, cand'[c].status = "automated"
               PROVE  work'[c].tasks + work'[c].started > 0
    BY DEF AutomatedHasWork
  <2>1. me.writes[c] = "none" /\ cand'[c] = cand[c]
    BY <1>1, <1>4 DEF Session, TickStatus
  <2>2. work'[c].tasks = work[c].tasks /\ work'[c].started = work[c].started
    BY DEF Commit, TickInv, RowsTyped, Work
  <2> QED
    BY <2>1, <2>2 DEF TickInv, AutomatedHasWork
<1>7. RunnersOrderly'
  BY <1>1, <1>2, <1>3, AsleepIsOrderly DEF TickInv, RunnersOrderly
<1>8. LocksHold'
  <2>1. \A q \in Runner : runner'[q].locked =
          IF q = r THEN {} ELSE runner[q].locked
    BY <1>1, <1>2, <1>3
  <2>2. ASSUME NEW q \in Runner, q # r, NEW c \in runner[q].locked
        PROVE  cand'[c].status = "candidate"
    <3>1. c \in Cand /\ cand[c].status = "candidate"
      BY <1>1 DEF TickInv, LocksHold, Session
    <3>2. me.writes[c] = "none"
      BY <2>2, <3>1, CommitWritesCandidates
    <3> QED
      BY <1>4, <3>1, <3>2
  <2> QED
    BY <2>1, <2>2 DEF TickInv, LocksHold
<1>9. DigestsAddUp'
  <2>1. \A q \in Runner : runner'[q].posted =
          IF q = r THEN {} ELSE runner[q].posted
    BY <1>1, <1>2, <1>3
  <2>2. digest' = digest \cup me.posted /\ shown' = shown
    BY DEF Commit
  <2>3. ASSUME NEW q \in Runner
        PROVE  /\ runner'[q].posted \cap digest' = {}
               /\ \A p \in Runner : q # p =>
                    runner'[q].posted \cap runner'[p].posted = {}
    BY <2>1, <2>2 DEF TickInv, DigestsAddUp
  <2>4. ASSUME NEW u \in User
        PROVE  (u \in digest' \/ \E q \in Runner : u \in runner'[q].posted)
               <=> (u \in digest \/ \E q \in Runner : u \in runner[q].posted)
    BY <2>1, <2>2
  <2>5. \A u \in User : shown'[u] =
          IF u \in digest' \/ \E q \in Runner : u \in runner'[q].posted
          THEN 1 ELSE 0
    BY <2>2, <2>4 DEF TickInv, DigestsAddUp
  <2> QED
    BY <2>3, <2>5 DEF DigestsAddUp
<1>10. RestTyped'
  BY <1>1 DEF Commit, TickInv, RestTyped, Session
<1> QED
  BY <1>5, <1>6, <1>7, <1>8, <1>9, <1>10 DEF TickInv

\* What a failure leaves of a tick.
LEMMA UndoneKeepsInv ==
  ASSUME TickInv, NEW r \in Runner, Undone(r), leader' \in Lock
  PROVE  TickInv'
<1> DEFINE me == runner[r]
<1>1. me \in Session /\ runner \in [Runner -> Session]
  BY DEF TickInv, RunnersOrderly
<1>2. Asleep \in Session /\ Asleep.locked = {} /\ Asleep.posted = {}
  BY AsleepIsOrderly DEF Orderly, Asleep
<1>3. runner' = [runner EXCEPT ![r] = Asleep]
  BY DEF Undone
<1>4. UNCHANGED <<cand, work, digest, buttons, click, actions>>
  BY DEF Undone
<1>5. RunnersOrderly'
  BY <1>1, <1>2, <1>3, AsleepIsOrderly DEF TickInv, RunnersOrderly
<1>6. LocksHold'
  BY <1>1, <1>2, <1>3, <1>4 DEF TickInv, LocksHold
<1>7. \A q \in Runner : runner'[q].posted = IF q = r THEN {} ELSE runner[q].posted
  BY <1>1, <1>2, <1>3
<1>8. \A u \in User : shown'[u] = IF u \in me.posted THEN 0 ELSE shown[u]
  <2> SUFFICES ASSUME NEW u \in User
               PROVE  shown'[u] = IF u \in me.posted THEN 0 ELSE shown[u]
    OBVIOUS
  <2>1. u \in me.posted => shown[u] = 1
    BY DEF TickInv, DigestsAddUp
  <2> QED
    BY <2>1 DEF Undone
<1>9. DigestsAddUp'
  <2>1. ASSUME NEW q \in Runner
        PROVE  /\ runner'[q].posted \cap digest' = {}
               /\ \A p \in Runner : q # p =>
                    runner'[q].posted \cap runner'[p].posted = {}
    BY <1>4, <1>7 DEF TickInv, DigestsAddUp
  <2>2. ASSUME NEW u \in User
        PROVE  shown'[u] = IF u \in digest' \/ \E q \in Runner : u \in runner'[q].posted
                           THEN 1 ELSE 0
    <3>1. CASE u \in me.posted
      <4>1. u \notin digest /\ \A q \in Runner : q # r => u \notin runner[q].posted
        BY <3>1 DEF TickInv, DigestsAddUp
      <4> QED
        BY <1>4, <1>7, <1>8, <3>1, <4>1
    <3>2. CASE u \notin me.posted
      <4>1. (\E q \in Runner : u \in runner'[q].posted)
            <=> \E q \in Runner : u \in runner[q].posted
        BY <1>7, <3>2
      <4> QED
        BY <1>4, <1>8, <3>2, <4>1 DEF TickInv, DigestsAddUp
    <3> QED
      BY <3>1, <3>2
  <2> QED
    BY <2>1, <2>2 DEF DigestsAddUp
<1>10. RestTyped'
  <2>1. shown' \in [User -> 0..2]
    <3>1. \A u \in User : shown'[u] \in 0..2
      BY <1>8 DEF TickInv, RestTyped
    <3>2. shown' = [u \in User |-> shown'[u]]
      BY DEF Undone
    <3> QED
      BY <3>1, <3>2
  <2>2. failures' \in 0..MaxFailures /\ leader' \in Lock
    BY Bounds DEF Undone, TickInv, RestTyped
  <2> QED
    BY <1>4, <2>1, <2>2 DEF TickInv, RestTyped
<1>11. RowsTyped' /\ AutomatedHasWork'
  BY <1>4 DEF TickInv, RowsTyped, AutomatedHasWork
<1> QED
  BY <1>5, <1>6, <1>9, <1>10, <1>11 DEF TickInv

LEMMA FailureKeepsInv ==
  ASSUME TickInv, NEW r \in Runner, Abort(r) \/ Crash(r)
  PROVE  TickInv'
BY LockTyped, UndoneKeepsInv DEF Abort, Crash, TickInv, RestTyped

-----------------------------------------------------------------------------
(***************************************************************************)
(* People.                                                                 *)
(***************************************************************************)
\* Work never goes away, and an automated candidate has some.
WorkFits(c) ==
  /\ cand'[c] \in Row /\ work'[c] \in Work
  /\ cand'[c].status = "automated" => work'[c].tasks + work'[c].started > 0
  /\ cand' = [cand EXCEPT ![c] = cand'[c]]
  /\ work' = [work EXCEPT ![c] = work'[c]]

LEMMA DecisionFits ==
  ASSUME TickInv, NEW c \in Cand, NEW seen \in Row,
         Dismiss(c, seen) \/ Accept(c, seen)
  PROVE  WorkFits(c)
<1>1. /\ cand[c] \in Row /\ work[c] \in Work
      /\ cand \in [Cand -> Row] /\ work \in [Cand -> Work]
      /\ cand[c].status = "automated" => work[c].tasks + work[c].started > 0
  BY DEF TickInv, RowsTyped, AutomatedHasWork
<1>2. \A s \in Status, b \in BOOLEAN :
        /\ Written(c, seen, s, b) \in Row
        /\ Written(c, seen, s, b).status \in {s, cand[c].status}
  BY <1>1 DEF Written, Row
<1>3. /\ "dismissed" \in Status /\ "accepted" \in Status
      /\ "automated" \in Status
  BY DEF Status
<1>4. ASSUME work' = work, NEW s \in {"dismissed", "accepted"},
             cand' = [cand EXCEPT ![c] = Written(c, seen, s, FALSE)]
      PROVE  WorkFits(c)
  <2>1. cand'[c] = Written(c, seen, s, FALSE)
    BY <1>1, <1>4
  <2> QED
    BY <1>1, <1>2, <1>3, <1>4, <2>1 DEF WorkFits
<1>5. ASSUME cand' = [cand EXCEPT ![c] = Written(c, seen, "automated", FALSE)],
             work' = [work EXCEPT ![c].tasks = 1]
      PROVE  WorkFits(c)
  <2>1. cand'[c] = Written(c, seen, "automated", FALSE)
    BY <1>1, <1>5
  <2>2. work'[c] = [work[c] EXCEPT !.tasks = 1] /\ work'[c] \in Work
        /\ work'[c].tasks = 1 /\ work'[c].started \in Nat
    BY <1>1, <1>5, Bounds DEF Work
  <2>3. cand' = [cand EXCEPT ![c] = cand'[c]] /\ cand'[c] \in Row
    BY <1>1, <1>2, <1>3, <1>5, <2>1
  <2>4. work' = [work EXCEPT ![c] = work'[c]]
    BY <1>1, <1>5, <2>2
  <2> QED
    BY <2>2, <2>3, <2>4 DEF WorkFits
<1>6. ASSUME work[c].proposed < MaxDrafts,
             cand' = [cand EXCEPT ![c] = Written(c, seen, "accepted", FALSE)],
             work' = [work EXCEPT ![c].proposed = @ + 1]
      PROVE  WorkFits(c)
  <2>1. cand'[c] = Written(c, seen, "accepted", FALSE)
    BY <1>1, <1>6
  <2>2. /\ work'[c] = [work[c] EXCEPT !.proposed = @ + 1] /\ work'[c] \in Work
        /\ work'[c].tasks = work[c].tasks /\ work'[c].started = work[c].started
    BY <1>1, <1>6, Bounds DEF Work
  <2>3. cand' = [cand EXCEPT ![c] = cand'[c]] /\ cand'[c] \in Row
    BY <1>1, <1>2, <1>3, <1>6, <2>1
  <2>4. cand'[c].status # "automated" \/ cand[c].status = "automated"
    BY <1>2, <1>3, <2>1
  <2>5. work' = [work EXCEPT ![c] = work'[c]]
    BY <1>1, <1>6, <2>2
  <2> QED
    BY <1>1, <2>2, <2>3, <2>4, <2>5 DEF WorkFits
<1> QED
  BY <1>4, <1>5, <1>6 DEF Dismiss, Accept

LEMMA WorkFitsAll ==
  ASSUME TickInv, NEW c \in Cand, WorkFits(c), buttons' \subseteq Cand,
         click' \in [Click -> [on : Cand \cup {None}, row : Row]]
  PROVE  RowsTyped' /\ AutomatedHasWork'
         /\ \A d \in Cand : d # c => cand'[d] = cand[d]
BY DEF TickInv, RowsTyped, AutomatedHasWork, WorkFits

LEMMA DecideKeepsInv ==
  ASSUME TickInv, NEW c \in Cand, Decide(c)
  PROVE  TickInv'
<1>1. /\ cand[c] \in Row /\ work[c] \in Work
      /\ cand \in [Cand -> Row] /\ work \in [Cand -> Work]
  BY DEF TickInv, RowsTyped
<1>2. ASSUME NEW s \in Row, s.status # "automated",
             cand' = [cand EXCEPT ![c] = s], work' = work
      PROVE  WorkFits(c)
  <2>1. cand'[c] = s
    BY <1>1, <1>2
  <2> QED
    BY <1>1, <1>2, <2>1 DEF WorkFits
<1>3. WorkFits(c)
  <2>1. CASE Snooze(c) \/ Reactivate(c) \/ Archive(c)
    <3>1. /\ [status |-> "cooldown", cooling |-> TRUE] \in Row
          /\ [status |-> "candidate", cooling |-> FALSE] \in Row
          /\ [status |-> "archived", cooling |-> FALSE] \in Row
      BY DEF Row, Status
    <3> QED
      BY <1>2, <2>1, <3>1 DEF Snooze, Reactivate, Archive
  <2>2. CASE Send(c)
    <3> DEFINE s == [cand[c] EXCEPT !.status = "sent"]
    <3>1. s \in Row /\ s.status = "sent" /\ cand' = [cand EXCEPT ![c] = s]
          /\ work' = work
      BY <1>1, <2>2 DEF Send, Row, Status
    <3> HIDE DEF s
    <3> QED
      BY <1>2, <3>1
  <2>3. CASE Dismiss(c, cand[c]) \/ Accept(c, cand[c])
    BY <1>1, <2>3, DecisionFits
  <2> QED
    BY <2>1, <2>2, <2>3 DEF Decide
<1>4. RowsTyped' /\ AutomatedHasWork' /\ \A d \in Cand : d # c => cand'[d] = cand[d]
  BY <1>3, WorkFitsAll DEF Decide, TickInv, RowsTyped
<1>5. actions' \in 0..MaxActions
  BY Bounds DEF Decide, TickInv, RestTyped
<1>6. Free(c) /\ UNCHANGED <<digest, shown, leader, runner, failures>>
  BY DEF Decide
<1> QED
  BY <1>4, <1>5, <1>6, RowsChange

LEMMA AnswerKeepsInv ==
  ASSUME TickInv, NEW c \in Cand, Answer(c)
  PROVE  TickInv'
<1>1. /\ cand[c] \in Row /\ work[c] \in Work
      /\ cand \in [Cand -> Row] /\ work \in [Cand -> Work]
      /\ cand[c].status = "automated" => work[c].tasks + work[c].started > 0
  BY DEF TickInv, RowsTyped, AutomatedHasWork
<1>2. WorkFits(c)
  <2>1. CASE Confirm(c)
    <3> DEFINE new == [work[c] EXCEPT !.proposed = @ - 1, !.started = @ + 1]
    <3>1. work' = [work EXCEPT ![c] = new]
      BY <1>1, <2>1 DEF Confirm, Work
    <3>2. new \in Work /\ new.tasks + new.started > 0
      BY <1>1, <2>1, Bounds DEF Confirm, Work
    <3> HIDE DEF new
    <3>3. work'[c] = new
      BY <1>1, <3>1
    <3>4. cand' = [cand EXCEPT ![c] = cand'[c]] /\ cand'[c] \in Row
      BY <1>1, <2>1 DEF Confirm, Row, Status
    <3> QED
      BY <3>1, <3>2, <3>3, <3>4 DEF WorkFits
  <2>2. CASE Decline(c)
    <3> DEFINE new == [work[c] EXCEPT !.proposed = @ - 1]
    <3>1. work' = [work EXCEPT ![c] = new] /\ cand' = cand
      BY <1>1, <2>2 DEF Decline, Work
    <3>2. /\ new \in Work /\ new.tasks = work[c].tasks
          /\ new.started = work[c].started
      BY <1>1, <2>2, Bounds DEF Decline, Work
    <3> HIDE DEF new
    <3>3. work'[c] = new
      BY <1>1, <3>1
    <3> QED
      BY <1>1, <3>1, <3>2, <3>3 DEF WorkFits
  <2> QED
    BY <2>1, <2>2 DEF Answer
<1>3. RowsTyped' /\ AutomatedHasWork' /\ \A d \in Cand : d # c => cand'[d] = cand[d]
  BY <1>2, WorkFitsAll DEF Answer, TickInv, RowsTyped
<1>4. /\ Free(c) /\ UNCHANGED <<digest, shown, leader, runner, failures>>
      /\ actions' \in 0..MaxActions
  BY DEF Answer, TickInv, RestTyped
<1> QED
  BY <1>3, <1>4, RowsChange

LEMMA ButtonKeepsInv ==
  ASSUME TickInv, NEW k \in Click, Handle(k) \/ \E c \in Cand : Press(k, c)
  PROVE  TickInv'
<1> DEFINE Pressed == [on : Cand \cup {None}, row : Row]
<1>1. /\ click \in [Click -> Pressed] /\ click[k] \in Pressed
      /\ cand \in [Cand -> Row]
  BY DEF TickInv, RowsTyped
<1>2. ASSUME NEW c \in Cand, Press(k, c)
      PROVE  TickInv'
  <2>1. [on |-> c, row |-> cand[c]] \in Pressed
    BY <1>1
  <2>2. RowsTyped' /\ AutomatedHasWork'
    BY <1>1, <1>2, <2>1 DEF Press, TickInv, RowsTyped, AutomatedHasWork
  <2>3. actions' \in 0..MaxActions
    BY <1>2, Bounds DEF Press, TickInv, RestTyped
  <2> QED
    BY <1>2, <2>2, <2>3, RowsChange DEF Press
<1>3. CASE Handle(k)
  <2> DEFINE c == click[k].on
             seen == click[k].row
  <2>1. c \in Cand /\ seen \in Row /\ Free(c)
    BY <1>1, <1>3 DEF Handle
  <2>2. click' \in [Click -> Pressed]
    <3>1. Unclicked \in Pressed
      BY DEF Unclicked, New, Row, Status
    <3> QED
      BY <1>1, <1>3, <3>1 DEF Handle
  <2>3. /\ buttons' \subseteq Cand /\ actions' \in 0..MaxActions
        /\ UNCHANGED <<digest, shown, leader, runner, failures>>
    BY <1>3 DEF Handle, TickInv, RowsTyped, RestTyped
  <2>4. CASE Dismiss(c, seen) \/ Accept(c, seen)
    <3>1. WorkFits(c)
      BY <2>1, <2>4, DecisionFits
    <3>2. RowsTyped' /\ AutomatedHasWork'
          /\ \A d \in Cand : d # c => cand'[d] = cand[d]
      BY <2>1, <2>2, <2>3, <3>1, WorkFitsAll
    <3> QED
      BY <2>1, <2>3, <3>2, RowsChange
  <2>5. CASE UNCHANGED <<cand, work>>
    <3>1. RowsTyped' /\ AutomatedHasWork'
      BY <2>2, <2>3, <2>5 DEF TickInv, RowsTyped, AutomatedHasWork
    <3> QED
      BY <2>3, <2>5, <3>1, RowsChange
  <2> QED
    BY <1>3, <2>4, <2>5 DEF Handle
<1> QED
  BY <1>2, <1>3

\* Extractors, and time.
LEMMA TimeKeepsInv ==
  ASSUME TickInv, Poll \/ NextWindow
                  \/ \E c \in Cand : Propose(c) \/ CooldownEnds(c)
  PROVE  TickInv'
<1>1. ASSUME NEW c \in Cand, Propose(c) \/ CooldownEnds(c)
      PROVE  TickInv'
  <2>1. cand \in [Cand -> Row]
    BY DEF TickInv, RowsTyped
  <2>2. /\ cand' \in [Cand -> Row]
        /\ \A d \in Cand : \/ cand'[d].status = cand[d].status
                           \/ cand[d].status = "none" /\ cand'[d].status = "candidate"
    <3>1. /\ [cand[c] EXCEPT !.status = "candidate"] \in Row
          /\ [cand[c] EXCEPT !.cooling = FALSE] \in Row
          /\ [cand[c] EXCEPT !.status = "candidate"].status = "candidate"
          /\ [cand[c] EXCEPT !.cooling = FALSE].status = cand[c].status
      BY <2>1 DEF Row, Status
    <3>2. CASE Propose(c)
      <4>1. /\ cand' = [cand EXCEPT ![c] = [cand[c] EXCEPT !.status = "candidate"]]
            /\ cand[c].status = "none"
        BY <3>2 DEF Propose
      <4> QED
        BY <2>1, <3>1, <4>1
    <3>3. CASE CooldownEnds(c)
      <4>1. cand' = [cand EXCEPT ![c] = [cand[c] EXCEPT !.cooling = FALSE]]
        BY <3>3 DEF CooldownEnds
      <4> QED
        BY <2>1, <3>1, <4>1
    <3> QED
      BY <1>1, <3>2, <3>3
  <2>3. UNCHANGED <<work, digest, shown, buttons, leader, runner, click,
                    actions, failures>>
    BY <1>1 DEF Propose, CooldownEnds
  <2>4. RowsTyped' /\ AutomatedHasWork'
    BY <2>2, <2>3 DEF TickInv, RowsTyped, AutomatedHasWork
  <2> QED
    BY <2>2, <2>3, <2>4, RowsChange DEF TickInv, RestTyped
<1>2. CASE Poll
  <2>1. ASSUME NEW r \in Runner
        PROVE  /\ Orderly([runner[r] EXCEPT !.pc = "idle"])
               /\ [runner[r] EXCEPT !.pc = "idle"].locked = runner[r].locked
               /\ [runner[r] EXCEPT !.pc = "idle"].posted = runner[r].posted
    <3>1. Orderly(runner[r]) /\ runner[r].pc \in {"idle", "asleep"}
      BY <1>2 DEF Poll, BetweenTicks, TickInv, RunnersOrderly
    <3> DEFINE s == [runner[r] EXCEPT !.pc = "idle"]
    <3>2. /\ s \in Session /\ s.pc = "idle" /\ s.locked = runner[r].locked
          /\ s.todo = runner[r].todo /\ s.at = runner[r].at
          /\ s.posted = runner[r].posted /\ s.items = runner[r].items
          /\ s.writes = runner[r].writes
      BY <3>1 DEF Orderly, Session
    <3> HIDE DEF s
    <3>3. Orderly(s)
      BY <3>1, <3>2 DEF Orderly
    <3> QED
      BY <3>2, <3>3 DEF s
  <2>2. RunnersOrderly'
    BY <1>2, <2>1, ZenonT(30) DEF Poll, RunnersOrderly, Orderly
  <2>3. LocksHold' /\ DigestsAddUp'
    BY <1>2, <2>1, ZenonT(30) DEF Poll, TickInv, LocksHold, DigestsAddUp
  <2> QED
    BY <1>2, <2>2, <2>3, ZenonT(30)
    DEF Poll, TickInv, RowsTyped, RestTyped, AutomatedHasWork
<1>3. CASE NextWindow
  <2>1. \A r \in Runner : runner[r].posted = {}
    BY <1>3 DEF NextWindow, BetweenTicks, TickInv, RunnersOrderly, Orderly
  <2>2. DigestsAddUp' /\ RestTyped'
    BY <1>3, <2>1 DEF NextWindow, TickInv, DigestsAddUp, RestTyped
  <2> QED
    BY <1>3, <2>2 DEF NextWindow, TickInv, RunnersOrderly, LocksHold, RowsTyped,
                      AutomatedHasWork
<1> QED
  BY <1>1, <1>2, <1>3

LEMMA TickInvariant == Spec => []TickInv
<1>1. TickInv /\ [Next]_vars => TickInv'
  <2> SUFFICES ASSUME TickInv, [Next]_vars
               PROVE  TickInv'
    OBVIOUS
  <2>1. CASE UNCHANGED vars
    BY <2>1 DEF vars, TickInv, RunnersOrderly, LocksHold, DigestsAddUp,
                RowsTyped, RestTyped, AutomatedHasWork
  <2> QED
    BY <2>1, TickKeepsInv, DigestKeepsInv, PostKeepsInv, ReviewKeepsInv,
       UnlockKeepsInv, CommitKeepsInv, FailureKeepsInv, DecideKeepsInv,
       AnswerKeepsInv, ButtonKeepsInv, TimeKeepsInv DEF Next
<1> QED
  BY InitTick, <1>1, PTL DEF Spec

\* Every state is well typed.
THEOREM WitnessTyped == Spec => []TypeOK
<1>1. TickInv => TypeOK
  <2> SUFFICES ASSUME TickInv
               PROVE  TypeOK
    OBVIOUS
  <2>1. runner \in [Runner -> [pc : {"idle", "digests", "reviews", "unlocked",
                                     "asleep"},
                               locked : SUBSET Cand, todo : SUBSET User,
                               at : User \cup {None}, items : SUBSET Cand,
                               posted : SUBSET User, writes : [Cand -> Status]]]
    BY DEF TickInv, RunnersOrderly, Session, TickStatus
  <2> QED
    BY <2>1 DEF TickInv, RowsTyped, RestTyped, TypeOK, Work
<1> QED
  BY <1>1, TickInvariant, PTL

\* However many runners tick, and although the advisory lock is free before
\* the transaction has committed, no user gets two digests in a window.
THEOREM DigestsAreSingle == Spec => []OneDigestPerWindow
<1>1. TickInv => OneDigestPerWindow
  BY DEF TickInv, DigestsAddUp, OneDigestPerWindow
<1> QED
  BY <1>1, TickInvariant, PTL

\* An automated candidate has a task or a schedule that was confirmed.
THEOREM AutomationsHaveWork == Spec => []AutomatedHasWork
<1>1. TickInv => AutomatedHasWork
  BY DEF TickInv
<1> QED
  BY <1>1, TickInvariant, PTL

\* What a tick commits replaces no decision: it only writes rows that are
\* candidates still.
THEOREM TicksRespectDecisions == Spec => DecisionsStand
<1>1. TickInv => \A r \in Runner : Commit(r) =>
        \A c \in Cand : cand'[c].status # cand[c].status
                        => cand[c].status = "candidate"
  <2> SUFFICES ASSUME TickInv, NEW r \in Runner, Commit(r), NEW c \in Cand,
                      cand'[c].status # cand[c].status
               PROVE  cand[c].status = "candidate"
    OBVIOUS
  <2>1. runner[r].writes[c] # "none"
    BY DEF Commit
  <2> QED
    BY <2>1, CommitWritesCandidates
<1> QED
  BY <1>1, TickInvariant, PTL DEF DecisionsStand
-----------------------------------------------------------------------------
(***************************************************************************)
(* The trigger listener, whose events become candidates of Witness.  Its   *)
(* state is that of Triggers, its steps are an instance: what Witness does *)
(* with the candidates plays no part in how often one is asked about.      *)
(***************************************************************************)
Listener == INSTANCE TriggerListener

LEMMA SameEvents == Listener!Event = Event
BY DEF Listener!Event, Event

Enabling == {a \in Admin : admin[a].pc = "enabling"}
Disabling == {a \in Admin : admin[a].pc = "disabling"}

\* Enabling takes turns, and meets a row that is not active; a request that
\* turns the trigger off has turned its instance off, and the row is as it was.
RequestsFit ==
  /\ admin = [a \in Admin |-> admin[a]]
  /\ \A a, b \in Enabling : a = b
  /\ Enabling # {} => sub.status # "active"
  /\ Disabling # {} => sub.status = "active" /\ upstream = {}
  /\ Disabling \subseteq TurnsOff

\* The instance that is on is the one of the row, or of who enables it.
OneInstance ==
  /\ sub.status = "active" => upstream \subseteq {sub.trigger}
  /\ \A a \in Enabling : upstream \subseteq {admin[a].trigger}
  /\ sub.status # "active" /\ Enabling = {} => upstream = {}

\* An occurrence was seen by one instance.
OneEvent == \A e, f \in published : e[2] = f[2] => e = f

\* What is handled or was asked about was published.
HandledEvents ==
  /\ thread = [h \in Thread |-> thread[h]]
  /\ \A h \in Thread : thread[h].pc \in {"record", "look", "insert"} =>
       thread[h].event \in published
  /\ asked = [e \in Event |-> asked[e]]
  /\ \A e \in Event : asked[e] # 0 => asked[e] = 1 /\ e \in published

AskedInv == RequestsFit /\ OneInstance /\ OneEvent /\ HandledEvents

LEMMA InitAsked == Listener!Init => AskedInv
<1> SUFFICES ASSUME Listener!Init
             PROVE  AskedInv
  OBVIOUS
<1>1. Enabling = {} /\ Disabling = {}
  BY DEF Listener!Init, Listener!Idle, Enabling, Disabling
<1>2. RequestsFit /\ OneInstance
  BY <1>1 DEF Listener!Init, RequestsFit, OneInstance
<1>3. OneEvent /\ HandledEvents
  BY SameEvents DEF Listener!Init, Listener!Idle, OneEvent, HandledEvents
<1> QED
  BY <1>2, <1>3 DEF AskedInv

\* One administrator at most turns the trigger off, and no call to Composio
\* goes wrong in the middle.
Careful == Faults = {} /\ \A a, b \in TurnsOff : a = b

LEMMA AdminKeepsInstance ==
  ASSUME Careful, RequestsFit, OneInstance, NEW a \in Admin,
         \/ Listener!Enable(a) \/ Listener!CommitEnable(a)
         \/ Listener!Disable(a) \/ Listener!CommitDisable(a)
         \/ Listener!AbortAdmin(a)
  PROVE  RequestsFit' /\ OneInstance'
<1>1. CASE Listener!Enable(a)
  <2> DEFINE n == created + 1
             new == [pc |-> "enabling", trigger |-> n]
  <2>1. /\ admin[a] = Listener!Idle /\ sub.status # "active" /\ Enabling = {}
        /\ sub' = sub /\ upstream' = upstream \union {n}
        /\ admin' = [admin EXCEPT ![a] = new]
    BY <1>1 DEF Listener!Enable, Listener!MayCreate, Listener!RowLocked, Enabling
  <2>2. upstream = {} /\ Disabling = {}
    BY <2>1 DEF RequestsFit, OneInstance
  <2>3. new.pc = "enabling" /\ new.trigger = n
    OBVIOUS
  <2> HIDE DEF n, new
  <2>4. /\ admin' = [b \in Admin |-> admin'[b]]
        /\ \A b \in Admin : admin'[b] = IF b = a THEN new ELSE admin[b]
    BY <2>1 DEF RequestsFit
  <2>5. Enabling' = {a} /\ Disabling' = {}
    BY <2>1, <2>2, <2>3, <2>4 DEF Enabling, Disabling
  <2> QED
    BY <2>1, <2>2, <2>3, <2>4, <2>5 DEF RequestsFit, OneInstance
<1>2. CASE Listener!CommitEnable(a)
  <2> DEFINE t == admin[a].trigger
             now == [status |-> "active", trigger |-> t]
  <2>1. /\ a \in Enabling /\ sub' = now /\ upstream' = upstream
        /\ admin' = [admin EXCEPT ![a] = Listener!Idle]
    BY <1>2 DEF Listener!CommitEnable, Enabling
  <2>2. now.status = "active" /\ now.trigger = t /\ Listener!Idle.pc = "idle"
    BY DEF Listener!Idle
  <2>3. upstream \subseteq {t} /\ Disabling = {} /\ \A b \in Enabling : b = a
    BY <2>1 DEF RequestsFit, OneInstance
  <2> HIDE DEF t, now
  <2>4. /\ admin' = [b \in Admin |-> admin'[b]]
        /\ \A b \in Admin : admin'[b] = IF b = a THEN Listener!Idle ELSE admin[b]
    BY <2>1 DEF RequestsFit
  <2>5. Enabling' = {} /\ Disabling' = {}
    BY <2>2, <2>3, <2>4 DEF Enabling, Disabling
  <2> QED
    BY <2>1, <2>2, <2>3, <2>4, <2>5 DEF RequestsFit, OneInstance
<1>3. CASE Listener!Disable(a)
  <2> DEFINE new == [pc |-> "disabling", trigger |-> sub.trigger]
  <2>1. /\ admin[a] = Listener!Idle /\ a \in TurnsOff /\ sub.status = "active"
        /\ sub' = sub /\ upstream' = upstream \ {sub.trigger}
        /\ admin' = [admin EXCEPT ![a] = new]
    BY <1>3 DEF Listener!Disable, Careful
  <2>2. Enabling = {} /\ upstream' = {}
    BY <2>1 DEF RequestsFit, OneInstance
  <2>3. new.pc = "disabling"
    OBVIOUS
  <2> HIDE DEF new
  <2>4. /\ admin' = [b \in Admin |-> admin'[b]]
        /\ \A b \in Admin : admin'[b] = IF b = a THEN new ELSE admin[b]
    BY <2>1 DEF RequestsFit
  <2>5. Enabling' = {} /\ Disabling' \subseteq TurnsOff
    BY <2>1, <2>2, <2>3, <2>4 DEF Enabling, Disabling, RequestsFit
  <2> QED
    BY <2>1, <2>2, <2>4, <2>5 DEF RequestsFit, OneInstance
<1>4. CASE Listener!CommitDisable(a)
  <2> DEFINE new == [sub EXCEPT !.status = "disabled"]
  <2>1. /\ a \in Disabling /\ Enabling = {} /\ upstream' = upstream
        /\ sub' = new /\ admin' = [admin EXCEPT ![a] = Listener!Idle]
    BY <1>4 DEF Listener!CommitDisable, Listener!RowLocked, Enabling, Disabling
  <2>2. upstream = {} /\ \A b \in Disabling : b = a
    BY <2>1 DEF RequestsFit, Careful
  <2>3. /\ admin' = [b \in Admin |-> admin'[b]]
        /\ \A b \in Admin : admin'[b] = IF b = a THEN Listener!Idle ELSE admin[b]
    BY <2>1 DEF RequestsFit
  <2>4. Listener!Idle.pc = "idle"
    BY DEF Listener!Idle
  <2> HIDE DEF new
  <2>5. Enabling' = {} /\ Disabling' = {}
    BY <2>1, <2>2, <2>3, <2>4 DEF Enabling, Disabling
  <2> QED
    BY <2>1, <2>2, <2>3, <2>5 DEF RequestsFit, OneInstance
<1>5. CASE Listener!AbortAdmin(a)
  <2>1. /\ a \notin Enabling /\ sub' = sub /\ upstream' = upstream
        /\ admin' = [admin EXCEPT ![a] = Listener!Idle]
    BY <1>5 DEF Listener!AbortAdmin, Careful, Enabling
  <2>2. /\ admin' = [b \in Admin |-> admin'[b]]
        /\ \A b \in Admin : admin'[b] = IF b = a THEN Listener!Idle ELSE admin[b]
    BY <2>1 DEF RequestsFit
  <2>3. Listener!Idle.pc = "idle"
    BY DEF Listener!Idle
  <2>4. Enabling' = Enabling /\ Disabling' \subseteq Disabling
    BY <2>1, <2>2, <2>3 DEF Enabling, Disabling
  <2>5. \A b \in Enabling : admin'[b] = admin[b]
    BY <2>1, <2>2 DEF Enabling
  <2> QED
    BY <2>1, <2>2, <2>4, <2>5 DEF RequestsFit, OneInstance
<1> QED
  BY <1>1, <1>2, <1>3, <1>4, <1>5

\* Requests leave events alone.
LEMMA AdminKeepsEvents ==
  ASSUME OneEvent, HandledEvents, UNCHANGED <<thread, published, row, asked>>
  PROVE  OneEvent' /\ HandledEvents'
BY DEF OneEvent, HandledEvents, Event

\* A new occurrence is seen by the one instance that is on.
LEMMA OccurKeepsAsked ==
  ASSUME AskedInv, NEW o \in Occurrence, Listener!Occur(o)
  PROVE  AskedInv'
<1>1. /\ o \notin {e[2] : e \in published}
      /\ published' = published \union (upstream \X {o})
      /\ UNCHANGED <<thread, upstream, created, sub, admin, row, asked>>
  BY DEF Listener!Occur, Listener!triggers, Listener!rows
<1>2. \A i, j \in upstream : i = j
  <2>1. CASE sub.status = "active"
    BY <2>1 DEF AskedInv, OneInstance
  <2>2. CASE sub.status # "active"
    <3>1. CASE Enabling = {}
      BY <2>2, <3>1 DEF AskedInv, OneInstance
    <3>2. CASE Enabling # {}
      BY <3>2 DEF AskedInv, OneInstance
    <3> QED
      BY <3>1, <3>2
  <2> QED
    BY <2>1, <2>2
<1>3. \A e \in upstream \X {o} : e[2] = o /\ e[1] \in upstream /\ e = <<e[1], e[2]>>
  OBVIOUS
<1>4. OneEvent'
  BY <1>1, <1>2, <1>3 DEF AskedInv, OneEvent
<1>5. HandledEvents'
  BY <1>1 DEF AskedInv, HandledEvents, Event
<1>6. RequestsFit' /\ OneInstance'
  BY <1>1 DEF AskedInv, RequestsFit, OneInstance, Enabling, Disabling
<1> QED
  BY <1>4, <1>5, <1>6 DEF AskedInv

\* A thread handles what was published, and asks once.
LEMMA ThreadKeepsEvents ==
  ASSUME OneEvent, HandledEvents, NEW h \in Thread,
         \/ Listener!Fail(h) \/ Listener!Recover(h)
         \/ \E e \in Event : Listener!Handle(h, e)
  PROVE  /\ OneEvent' /\ HandledEvents'
         /\ UNCHANGED <<upstream, created, sub, admin>>
<1>1. UNCHANGED <<upstream, created, sub, admin, published>>
  BY DEF Listener!Fail, Listener!Recover, Listener!Leave, Listener!Handle,
         Listener!Deliver, Listener!Record, Listener!Look, Listener!Insert,
         Listener!triggers
<1>2. OneEvent'
  BY <1>1 DEF OneEvent
<1>3. ASSUME NEW x, thread' = [thread EXCEPT ![h] = x],
             x.pc \in {"record", "look", "insert"} => x.event \in published
      PROVE  /\ thread' = [k \in Thread |-> thread'[k]]
             /\ \A k \in Thread : thread'[k].pc \in {"record", "look", "insert"} =>
                  thread'[k].event \in published
  BY <1>3 DEF HandledEvents
<1>4. ASSUME Listener!Leave(h)
      PROVE  /\ thread' = [k \in Thread |-> thread'[k]]
             /\ \A k \in Thread : thread'[k].pc \in {"record", "look", "insert"} =>
                  thread'[k].event \in published
  BY <1>3, <1>4 DEF Listener!Leave, Listener!Idle
<1>5. ASSUME NEW pc, NEW e \in published, Listener!Enter(h, pc, e)
      PROVE  /\ thread' = [k \in Thread |-> thread'[k]]
             /\ \A k \in Thread : thread'[k].pc \in {"record", "look", "insert"} =>
                  thread'[k].event \in published
  BY <1>3, <1>5 DEF Listener!Enter
<1>6. ASSUME NEW pc \in {"record", "look", "insert"}, NEW e, Listener!At(h, pc, e)
      PROVE  e \in published
  BY <1>6 DEF HandledEvents, Listener!At
<1>7. /\ thread' = [k \in Thread |-> thread'[k]]
      /\ \A k \in Thread : thread'[k].pc \in {"record", "look", "insert"} =>
           thread'[k].event \in published
  <2>1. CASE Listener!Fail(h)
    BY <1>3, <2>1 DEF Listener!Fail
  <2>2. CASE Listener!Recover(h)
    BY <1>4, <2>2 DEF Listener!Recover
  <2>3. ASSUME NEW e \in Event, Listener!Handle(h, e)
        PROVE  Listener!Leave(h) \/ \E pc : e \in published /\ Listener!Enter(h, pc, e)
    <3>1. CASE Listener!Deliver(h, e)
      BY <3>1 DEF Listener!Deliver
    <3>2. CASE Listener!Record(h, e)
      BY <1>6, <3>2 DEF Listener!Record
    <3>3. CASE Listener!Look(h, e)
      BY <1>6, <3>3 DEF Listener!Look
    <3>4. CASE Listener!Insert(h, e)
      BY <3>4 DEF Listener!Insert
    <3> QED
      BY <2>3, <3>1, <3>2, <3>3, <3>4 DEF Listener!Handle
  <2> QED
    BY <1>4, <1>5, <2>1, <2>2, <2>3
<1>8. /\ asked' = [e \in Event |-> asked'[e]]
      /\ \A e \in Event : asked'[e] # 0 => asked'[e] = 1 /\ e \in published
  <2>1. CASE UNCHANGED asked
    BY <2>1 DEF HandledEvents
  <2>2. ASSUME NEW e \in Event, Listener!Insert(h, e)
        PROVE  /\ asked' = [f \in Event |-> asked'[f]]
               /\ \A f \in Event :
                    asked'[f] # 0 => asked'[f] = 1 /\ f \in published
    <3>1. e \in published
      BY <1>6, <2>2 DEF Listener!Insert
    <3>2. asked' = [asked EXCEPT ![e] = IF asked[e] = 0 THEN 1 ELSE asked[e]]
      BY <2>2 DEF Listener!Insert
    <3> QED
      BY <3>1, <3>2 DEF HandledEvents
  <2> QED
    BY <2>1, <2>2 DEF Listener!Fail, Listener!Recover, Listener!Handle,
       Listener!Deliver, Listener!Record, Listener!Look, Listener!rows
<1>9. HandledEvents'
  BY <1>1, <1>7, <1>8 DEF HandledEvents, Event
<1> QED
  BY <1>1, <1>2, <1>9

LEMMA AskedInvariant ==
  ASSUME Careful
  PROVE  Listener!Spec => []AskedInv
<1>1. AskedInv /\ [Listener!Next]_(Listener!vars) => AskedInv'
  <2> SUFFICES ASSUME AskedInv, [Listener!Next]_(Listener!vars)
               PROVE  AskedInv'
    OBVIOUS
  <2>1. ASSUME NEW a \in Admin,
               \/ Listener!Enable(a) \/ Listener!CommitEnable(a)
               \/ Listener!Disable(a) \/ Listener!CommitDisable(a)
               \/ Listener!AbortAdmin(a)
        PROVE  AskedInv'
    <3>1. UNCHANGED <<thread, published, row, asked>>
      BY <2>1 DEF Listener!Enable, Listener!CommitEnable, Listener!Disable,
                  Listener!CommitDisable, Listener!AbortAdmin, Listener!rows
    <3> QED
      BY <2>1, <3>1, AdminKeepsInstance, AdminKeepsEvents DEF AskedInv
  <2>2. ASSUME NEW h \in Thread,
               \/ Listener!Fail(h) \/ Listener!Recover(h)
               \/ \E e \in Event : Listener!Handle(h, e)
        PROVE  AskedInv'
    <3>1. OneEvent' /\ HandledEvents' /\ UNCHANGED <<upstream, created, sub, admin>>
      BY <2>2, ThreadKeepsEvents DEF AskedInv
    <3> QED
      BY <3>1 DEF AskedInv, RequestsFit, OneInstance, Enabling, Disabling
  <2>3. ASSUME NEW o \in Occurrence, Listener!Occur(o)
        PROVE  AskedInv'
    BY <2>3, OccurKeepsAsked
  <2>4. CASE UNCHANGED <<thread, upstream, created, sub, admin, published, asked>>
    BY <2>4 DEF AskedInv, RequestsFit, OneInstance, OneEvent, HandledEvents,
                Enabling, Disabling, Event
  <2>5. ASSUME NEW r \in Replica,
               \/ Listener!Acquire(r) \/ Listener!Subscribe(r)
               \/ Listener!EndSession(r) \/ Listener!Escape(r)
               \/ Listener!Restart(r) \/ Listener!LoseLock(r)
               \/ \E e \in Event : Listener!Retention(r, e)
        PROVE  AskedInv'
    BY <2>4, <2>5 DEF Listener!Acquire, Listener!Subscribe, Listener!EndSession,
       Listener!Escape, Listener!Restart, Listener!LoseLock, Listener!Retention,
       Listener!triggers, Listener!rows
  <2>6. CASE UNCHANGED Listener!vars
    BY <2>4, <2>6 DEF Listener!vars, Listener!triggers, Listener!rows
  <2> QED
    BY <2>1, <2>2, <2>3, <2>5, <2>6, SameEvents DEF Listener!Next
<1> QED
  BY InitAsked, <1>1, PTL DEF Listener!Spec

\* One occurrence asks its owner at most once, through any number of replicas that
\* lead at a time, threads that race and deliveries of an event, whatever
\* retention deletes, and however many administrators turn the trigger on, if one
\* of them at most turns it off and no call to Composio is cut off from its row.
THEOREM OccurrencesAskOnce ==
  ASSUME Faults = {}, \A a, b \in TurnsOff : a = b
  PROVE  Listener!Spec => []AskedOnce
<1>1. AskedInv => AskedOnce
  <2> SUFFICES ASSUME AskedInv, NEW e \in Event, NEW f \in Event,
                      asked[e] > 0, asked[f] > 0, e[2] = f[2]
               PROVE  e = f /\ asked[e] = 1
    BY DEF AskedOnce
  <2>1. asked[e] # 0 /\ asked[f] # 0
    OBVIOUS
  <2> QED
    BY <2>1 DEF AskedInv, OneEvent, HandledEvents
<1>2. Careful
  BY DEF Careful
<1> QED
  BY <1>1, <1>2, AskedInvariant, PTL
-----------------------------------------------------------------------------
(***************************************************************************)
(* Types of the listener, and its lock.                                    *)
(***************************************************************************)

\* A session on a live connection holds the advisory lock.
LeaderHolds == \A r \in Replica : Leads(r) => holder = r

LEMMA InitListener == Listener!Init => ListenerTyped /\ LeaderHolds
<1> SUFFICES ASSUME Listener!Init
             PROVE  ListenerTyped /\ LeaderHolds
  OBVIOUS
<1>1. ListenerTyped
  BY ListenerAssumption DEF Listener!Init, Listener!Idle, Listener!Event, Event,
     ListenerTyped
<1>2. LeaderHolds
  BY DEF Listener!Init, LeaderHolds, Leads
<1> QED
  BY <1>1, <1>2

\* What a loop does with its lock connection: the lock is given to nobody else
\* while its holder leads.
LEMMA LoopKeepsLock ==
  ASSUME ListenerTyped, LeaderHolds, NEW r \in Replica,
         \/ Listener!Acquire(r) \/ Listener!Subscribe(r) \/ Listener!EndSession(r)
         \/ Listener!Escape(r) \/ Listener!Restart(r) \/ Listener!LoseLock(r)
         \/ \E e \in Event : Listener!Retention(r, e)
  PROVE  ListenerTyped' /\ LeaderHolds'
<1> USE DEF ListenerTyped, LeaderHolds, Leads
<1>1. CASE Listener!Acquire(r)
  <2>1. /\ holder \in {Nobody, r} /\ holder' = r
        /\ loop' = [loop EXCEPT ![r] = "connecting"]
        /\ UNCHANGED <<cut, offline, thread, upstream, created, sub, admin,
                      published, row, asked>>
    BY <1>1 DEF Listener!Acquire, Listener!triggers, Listener!rows
  <2>2. ListenerTyped'
    BY <2>1
  <2>3. \A q \in Replica : q # r => loop'[q] = loop[q] /\ ~Leads(q)
    BY <2>1, ListenerAssumption
  <2>4. LeaderHolds'
    BY <2>1, <2>3
  <2> QED
    BY <2>2, <2>4
<1>2. CASE Listener!Subscribe(r)
  BY <1>2 DEF Listener!Subscribe, Listener!triggers, Listener!rows
<1>3. CASE Listener!EndSession(r)
  BY <1>3, ListenerAssumption
     DEF Listener!EndSession, Listener!Released, Listener!triggers, Listener!rows
<1>4. CASE Listener!Escape(r)
  BY <1>4 DEF Listener!Escape, Listener!triggers, Listener!rows
<1>5. CASE Listener!Restart(r)
  BY <1>5 DEF Listener!Restart, Listener!triggers, Listener!rows
<1>6. CASE Listener!LoseLock(r)
  BY <1>6, ListenerAssumption DEF Listener!LoseLock, Listener!triggers, Listener!rows
<1>7. CASE \E e \in Event : Listener!Retention(r, e)
  BY <1>7 DEF Listener!Retention, Listener!loops, Listener!triggers
<1> QED
  BY <1>1, <1>2, <1>3, <1>4, <1>5, <1>6, <1>7

LEMMA ThreadKeepsTypes ==
  ASSUME ListenerTyped, NEW h \in Thread,
         \/ Listener!Fail(h) \/ Listener!Recover(h)
         \/ \E e \in Event : Listener!Handle(h, e)
  PROVE  ListenerTyped' /\ UNCHANGED <<loop, cut, holder>>
<1> USE DEF ListenerTyped, Listener!loops, Listener!triggers, Listener!rows,
            Listener!Enter, Listener!Leave, Listener!Idle
<1>1. CASE Listener!Fail(h)
  BY <1>1 DEF Listener!Fail
<1>2. CASE Listener!Recover(h)
  BY <1>2 DEF Listener!Recover
<1>3. ASSUME NEW e \in Event, Listener!Handle(h, e)
      PROVE  ListenerTyped' /\ UNCHANGED <<loop, cut, holder>>
  <2>1. CASE Listener!Deliver(h, e)
    BY <1>3, <2>1 DEF Listener!Deliver
  <2>2. CASE Listener!Record(h, e)
    BY <1>3, <2>2 DEF Listener!Record, Listener!Decision
  <2>3. CASE Listener!Look(h, e)
    BY <1>3, <2>3 DEF Listener!Look
  <2>4. CASE Listener!Insert(h, e)
    BY <1>3, <2>4 DEF Listener!Insert
  <2> QED
    BY <1>3, <2>1, <2>2, <2>3, <2>4 DEF Listener!Handle
<1> QED
  BY <1>1, <1>2, <1>3

LEMMA AdminKeepsTypes ==
  ASSUME ListenerTyped, NEW a \in Admin,
         \/ Listener!Enable(a) \/ Listener!CommitEnable(a)
         \/ Listener!Disable(a) \/ Listener!CommitDisable(a)
         \/ Listener!AbortAdmin(a)
  PROVE  ListenerTyped' /\ UNCHANGED <<loop, cut, holder>>
<1> USE ListenerAssumption
    DEF ListenerTyped, Listener!loops, Listener!rows, Listener!Idle
<1>1. CASE Listener!Enable(a)
  BY <1>1 DEF Listener!Enable
<1>2. CASE Listener!CommitEnable(a)
  BY <1>2 DEF Listener!CommitEnable
<1>3. CASE Listener!Disable(a)
  BY <1>3 DEF Listener!Disable
<1>4. CASE Listener!CommitDisable(a)
  BY <1>4 DEF Listener!CommitDisable
<1>5. CASE Listener!AbortAdmin(a)
  BY <1>5 DEF Listener!AbortAdmin
<1> QED
  BY <1>1, <1>2, <1>3, <1>4, <1>5

LEMMA OccurKeepsTypes ==
  ASSUME ListenerTyped, NEW o \in Occurrence, Listener!Occur(o)
  PROVE  ListenerTyped' /\ UNCHANGED <<loop, cut, holder>>
<1>1. upstream \subseteq 1..MaxTriggers
  BY ListenerAssumption DEF ListenerTyped
<1>2. upstream \X {o} \subseteq Event
  BY <1>1 DEF Event
<1> QED
  BY <1>2 DEF ListenerTyped, Listener!Occur, Listener!loops, Listener!triggers,
              Listener!rows

LEMMA ListenerInvariant == Listener!Spec => [](ListenerTyped /\ LeaderHolds)
<1>1. ListenerTyped /\ LeaderHolds /\ [Listener!Next]_(Listener!vars)
        => (ListenerTyped /\ LeaderHolds)'
  <2> SUFFICES ASSUME ListenerTyped, LeaderHolds, [Listener!Next]_(Listener!vars)
               PROVE  ListenerTyped' /\ LeaderHolds'
    OBVIOUS
  <2>1. UNCHANGED <<loop, cut, holder>> => LeaderHolds'
    BY DEF LeaderHolds, Leads
  <2>2. CASE UNCHANGED Listener!vars
    BY <2>1, <2>2 DEF Listener!vars, Listener!loops, Listener!triggers,
       Listener!rows, ListenerTyped
  <2> QED
    BY <2>1, <2>2, LoopKeepsLock, ThreadKeepsTypes, AdminKeepsTypes,
       OccurKeepsTypes, SameEvents DEF Listener!Next
<1> QED
  BY InitListener, <1>1, PTL DEF Listener!Spec

\* Type correctness of the listener, whatever fails: an instance that is on was
\* created, and a key has one candidate at most, in every state.
THEOREM ListenerTypes == Listener!Spec => []ListenerTyped
BY ListenerInvariant, PTL

\* Any number of replicas may believe that they lead; those whose lock connection
\* lives are one.
THEOREM ListenersTakeTurns == Listener!Spec => []OneLeader
<1>1. LeaderHolds => OneLeader
  BY DEF LeaderHolds, OneLeader
<1> QED
  BY <1>1, ListenerInvariant, PTL
=============================================================================
