------------------------------ MODULE Witness ------------------------------
(***************************************************************************)
(* Opportunity candidates of the Witness: the ticks that put them into a   *)
(* digest by direct message and let the autopilot review them              *)
(* (kortny/witness/runner.py, autopilot.py), what people do with them in   *)
(* the dashboard and with the buttons in Slack (lifecycle.py,              *)
(* kortny/slack/witness_actions.py), and what an acceptance becomes        *)
(* (automation.py).                                                        *)
(*                                                                         *)
(* A tick is one transaction: it locks the rows it takes, posts to Slack   *)
(* in between, gives its advisory lock back and commits; whatever fails    *)
(* before the commit undoes all of it except the messages.  The lock       *)
(* belongs to a connection: after a failed statement it cannot be given    *)
(* back and stays with the pool of its process, whose next ticks get it    *)
(* again.  A button loads its row before it locks it, and decides and      *)
(* writes by what it loaded.                                               *)
(*                                                                         *)
(* Scores and reviews are left open: Worthy are the candidates whose score *)
(* is always above the threshold.  A tick goes by the time it began at, so *)
(* time passes between ticks only.  A window ends when the last digest is  *)
(* an interval old: by then its key is that of a new window too.           *)
(*                                                                         *)
(* An operator whose name starts with Mutant is no part of the model: it   *)
(* is the next definition with a plausible slip.                           *)
(***************************************************************************)
EXTENDS Integers, FiniteSets

CONSTANTS
  Cand,         \* candidates with the scope of a direct message
  User,
  Target,       \* the user each is for
  OneShot,      \* candidates that become a task, the others a schedule
  Worthy,
  MaxItems,     \* candidates in a digest
  Reviewable,   \* confident enough for the autopilot, and from no trigger
  MaxReviews,   \* candidates the autopilot reviews in a tick
  Runner,       \* processes that run Witness ticks
  Click,        \* handlers of buttons
  MaxActions,   \* bound: what people do with candidates
  MaxFailures,  \* bound: ticks that fail
  MaxDrafts,    \* bound: schedules proposed for a candidate
  None

ASSUME WitnessAssumption ==
  /\ Target \in [Cand -> User] /\ OneShot \cup Worthy \cup Reviewable \subseteq Cand
  /\ MaxItems \in Nat \ {0} /\ MaxReviews \in Nat
  /\ {MaxActions, MaxFailures, MaxDrafts} \subseteq Nat
  /\ None \notin User \cup Runner \cup Cand

VARIABLES
  cand,     \* the rows of witness_opportunity_candidates
  work,     \* tasks and schedules that came of each
  digest,   \* users whose digest of this window is on record
  shown,    \* digests of this window in Slack, but those of undone ticks
  buttons,  \* candidates with buttons in Slack
  leader,   \* holder of the advisory lock, and whether its pool kept it
  runner,
  click,
  actions, failures   \* bounds

vars == <<cand, work, digest, shown, buttons, leader, runner, click, actions,
          failures>>

Status == {"none", "candidate", "sent", "accepted", "automated", "dismissed",
           "cooldown", "archived"}
Row == [status : Status, cooling : BOOLEAN]   \* cooldown_until is not over

Lock == [by : Runner \cup {None}, leaked : BOOLEAN]
NoLock == [by |-> None, leaked |-> FALSE]

TypeOK ==
  /\ cand \in [Cand -> Row]
  /\ work \in [Cand -> [tasks : 0..1, proposed : 0..MaxDrafts,
                        started : 0..MaxDrafts, drafted : BOOLEAN]]
  /\ digest \subseteq User
  /\ shown \in [User -> 0..2]
  /\ buttons \subseteq Cand
  /\ leader \in Lock
  /\ runner \in [Runner -> [pc : {"idle", "digests", "reviews", "unlocked",
                                  "asleep"},
                            locked : SUBSET Cand, todo : SUBSET User,
                            at : User \cup {None}, items : SUBSET Cand,
                            posted : SUBSET User,
                            writes : [Cand -> Status]]]
  /\ click \in [Click -> [on : Cand \cup {None}, row : Row]]
  /\ actions \in 0..MaxActions /\ failures \in 0..MaxFailures

New == [status |-> "none", cooling |-> FALSE]
Asleep == [pc |-> "asleep", locked |-> {}, todo |-> {}, at |-> None,
           items |-> {}, posted |-> {}, writes |-> [c \in Cand |-> "none"]]
Unclicked == [on |-> None, row |-> New]

Init ==
  /\ cand = [c \in Cand |-> New]
  /\ work = [c \in Cand |-> [tasks |-> 0, proposed |-> 0, started |-> 0,
                            drafted |-> FALSE]]
  /\ digest = {} /\ shown = [u \in User |-> 0]
  /\ buttons = {} /\ leader = NoLock
  /\ runner = [r \in Runner |-> [Asleep EXCEPT !.pc = "idle"]]
  /\ click = [k \in Click |-> Unclicked]
  /\ actions = 0 /\ failures = 0
-----------------------------------------------------------------------------
(***************************************************************************)
(* A tick.                                                                 *)
(***************************************************************************)
Free(c) == \A r \in Runner : c \notin runner[r].locked

Eligible(c) == cand[c].status = "candidate" /\ ~cand[c].cooling

\* Slip: the rows are read without FOR UPDATE.
MutantLocks(S) == {}

\* FOR UPDATE SKIP LOCKED, until the end of the transaction.
Locks(S) == S

\* Slip: a holder does not get the lock again.
MutantMayLock(r) == leader.by = None

\* Advisory locks nest within a connection.
MayLock(r) == leader.by \in {None, r}

Released == leader' = IF leader.leaked THEN leader ELSE NoLock

Tick(r) ==
  LET due == {c \in Cand : Eligible(c) /\ Free(c)} IN
  /\ runner[r].pc = "idle" /\ MayLock(r)
  /\ leader' = [leader EXCEPT !.by = r]
  /\ runner' = [runner EXCEPT ![r] =
       [Asleep EXCEPT !.pc = "digests", !.locked = Locks(due),
                      !.items = due, !.todo = {Target[c] : c \in due}]]
  /\ UNCHANGED <<cand, work, digest, shown, buttons, click, actions, failures>>

\* A digest went out less than an interval ago, or no score is high enough.
Skip(r, u) ==
  /\ runner[r].at = None /\ u \in runner[r].todo
  /\ \/ u \in digest
     \/ \A c \in runner[r].items \cap Worthy : Target[c] # u
  /\ runner' = [runner EXCEPT ![r].todo = @ \ {u}]
  /\ UNCHANGED <<cand, work, digest, shown, buttons, leader, click, actions,
                 failures>>

\* The others are scored and the best of them chosen.
Included(mine) ==
  {S \in SUBSET mine : /\ S # {} /\ Cardinality(S) <= MaxItems
                       /\ \/ mine \cap Worthy \subseteq S
                          \/ Cardinality(S) = MaxItems}

Compose(r, u) ==
  LET mine == {c \in runner[r].items : Target[c] = u} IN
  /\ runner[r].at = None /\ u \in runner[r].todo
  /\ u \notin digest
  /\ \E S \in Included(mine) :
       runner' = [runner EXCEPT ![r].at = u, ![r].todo = @ \ {u},
                                ![r].items = (@ \ mine) \cup S]
  /\ UNCHANGED <<cand, work, digest, shown, buttons, leader, click, actions,
                 failures>>

\* Slip: the key of the digest is new at every tick.
MutantRecorded(u) == FALSE

\* The outbox has a row of this user and window, deduped by its key.
Recorded(u) == u \in digest

\* The insert of the outbox row waits for whoever has inserted its key.
Post(r) ==
  LET me == runner[r]
      S == {c \in me.items : Target[c] = me.at} IN
  /\ me.at # None
  /\ \A q \in Runner \ {r} : me.at \notin runner[q].posted
  /\ runner' = [runner EXCEPT ![r] =
       IF Recorded(me.at) THEN [me EXCEPT !.at = None]
       ELSE [me EXCEPT !.at = None, !.posted = @ \cup {me.at}, !.writes =
               [c \in Cand |-> IF c \in S THEN "sent" ELSE me.writes[c]]]]
  /\ shown' = IF Recorded(me.at) \/ shown[me.at] = 2 THEN shown
              ELSE [shown EXCEPT ![me.at] = @ + 1]
  /\ buttons' = IF Recorded(me.at) THEN buttons ELSE buttons \cup S
  /\ UNCHANGED <<cand, work, digest, leader, click, actions, failures>>

\* The autopilot reviews some of what is still open: it starts a task,
\* dismisses, puts off, or posts one draft and leaves the candidate open.
Review(r, c) ==
  /\ runner[r].pc \in {"digests", "reviews"}
  /\ runner[r].todo = {} /\ runner[r].at = None
  /\ c \in Reviewable /\ Eligible(c) /\ runner[r].writes[c] = "none"
  /\ Cardinality({d \in Cand : runner[r].writes[d] \notin {"none", "sent"}})
     < MaxReviews
  /\ c \in runner[r].locked \/ Free(c)
  /\ \E s \in {"accepted", "dismissed", "cooldown"}
              \cup IF work[c].drafted THEN {} ELSE {"candidate"} :
       runner' = [runner EXCEPT ![r].pc = "reviews",
                                ![r].locked = @ \cup Locks({c}),
                                ![r].writes[c] = s]
  /\ UNCHANGED <<cand, work, digest, shown, buttons, leader, click, actions,
                 failures>>

\* run_once gives the lock back before its caller commits.
Unlock(r) ==
  /\ runner[r].pc \in {"digests", "reviews"}
  /\ runner[r].todo = {} /\ runner[r].at = None
  /\ runner' = [runner EXCEPT ![r].pc = "unlocked"]
  /\ Released
  /\ UNCHANGED <<cand, work, digest, shown, buttons, click, actions, failures>>

Commit(r) ==
  LET me == runner[r] IN
  /\ me.pc = "unlocked"
  /\ cand' = [c \in Cand |->
       IF me.writes[c] = "none" THEN cand[c]
       ELSE [status |-> me.writes[c],
             cooling |-> me.writes[c] \in {"cooldown", "candidate"}]]
  /\ work' = [c \in Cand |->
       IF me.writes[c] = "candidate" THEN [work[c] EXCEPT !.drafted = TRUE]
       ELSE work[c]]
  /\ digest' = digest \cup me.posted
  /\ runner' = [runner EXCEPT ![r] = Asleep]
  /\ UNCHANGED <<shown, buttons, leader, click, actions, failures>>

\* All that a tick wrote is undone, its messages stay.
Undone(r) ==
  /\ failures < MaxFailures /\ failures' = failures + 1
  /\ shown' = [u \in User |->
       IF u \in runner[r].posted THEN shown[u] - 1 ELSE shown[u]]
  /\ runner' = [runner EXCEPT ![r] = Asleep]
  /\ UNCHANGED <<cand, work, digest, buttons, click, actions>>

\* A post raises, or a statement or the commit fails.  In a transaction that
\* failed the unlock fails too: the connection returns to the pool with the lock.
Abort(r) ==
  /\ runner[r].pc \notin {"idle", "asleep"}
  /\ IF runner[r].pc = "unlocked" THEN UNCHANGED leader
     ELSE Released \/ leader' = [leader EXCEPT !.leaked = TRUE]
  /\ Undone(r)

\* The process dies, its connection is closed, and it starts again.
Crash(r) ==
  /\ leader' = IF leader.by = r THEN NoLock ELSE leader
  /\ Undone(r)
-----------------------------------------------------------------------------
(***************************************************************************)
(* What a decision does to the row that was loaded as seen.                *)
(***************************************************************************)
Final(seen) == seen.status \in {"archived", "automated"}

\* A flush writes only what differs from what was loaded.
Written(c, seen, status, cooling) ==
  [status  |-> IF status = seen.status THEN cand[c].status ELSE status,
   cooling |-> IF cooling = seen.cooling THEN cand[c].cooling ELSE cooling]

Dismiss(c, seen) ==
  /\ ~Final(seen)
  /\ cand' = [cand EXCEPT ![c] = Written(c, seen, "dismissed", FALSE)]
  /\ UNCHANGED work

\* Slip: the status is written although the task could not be created.
MutantAccept(c, seen) ==
  /\ ~Final(seen)
  /\ cand' = [cand EXCEPT ![c] = Written(c, seen, "automated", FALSE)]
  /\ UNCHANGED work

\* materialize_acceptance: a task, whose identity is the candidate, and the
\* candidate is automated; or a schedule to be confirmed.  What cannot be
\* drafted leaves the candidate accepted.
Accept(c, seen) ==
  /\ ~Final(seen)
  /\ \/ /\ cand' = [cand EXCEPT ![c] = Written(c, seen, "accepted", FALSE)]
        /\ UNCHANGED work
     \/ /\ c \in OneShot
        /\ cand' = [cand EXCEPT ![c] = Written(c, seen, "automated", FALSE)]
        /\ work' = [work EXCEPT ![c].tasks = 1]
     \/ /\ c \notin OneShot /\ work[c].proposed < MaxDrafts
        /\ cand' = [cand EXCEPT ![c] = Written(c, seen, "accepted", FALSE)]
        /\ work' = [work EXCEPT ![c].proposed = @ + 1]

\* Actions of the dashboard lock the row when they load it, as a reaction to
\* a suggestion does.
Snooze(c) ==
  /\ ~Final(cand[c])
  /\ cand' = [cand EXCEPT ![c] = [status |-> "cooldown", cooling |-> TRUE]]
  /\ UNCHANGED work

Reactivate(c) ==
  /\ ~Final(cand[c])
  /\ cand' = [cand EXCEPT ![c] = [status |-> "candidate", cooling |-> FALSE]]
  /\ UNCHANGED work

Archive(c) ==
  /\ cand' = [cand EXCEPT ![c] = [status |-> "archived", cooling |-> FALSE]]
  /\ UNCHANGED work

\* send_private_suggestion.
Send(c) ==
  /\ Eligible(c)
  /\ cand' = [cand EXCEPT ![c].status = "sent"]
  /\ UNCHANGED work

\* A proposed schedule is confirmed; only an accepted candidate follows.
Confirm(c) ==
  /\ work[c].proposed > 0 /\ work[c].started < MaxDrafts
  /\ work' = [work EXCEPT ![c].proposed = @ - 1, ![c].started = @ + 1]
  /\ cand' = [cand EXCEPT ![c] =
       IF @.status = "accepted" THEN [status |-> "automated", cooling |-> FALSE]
       ELSE @]

Decline(c) ==
  /\ work[c].proposed > 0
  /\ work' = [work EXCEPT ![c].proposed = @ - 1]
  /\ UNCHANGED cand

Decide(c) ==
  /\ actions < MaxActions /\ actions' = actions + 1
  /\ cand[c].status # "none" /\ Free(c)
  /\ \/ Dismiss(c, cand[c]) \/ Accept(c, cand[c]) \/ Snooze(c) \/ Reactivate(c)
     \/ Archive(c) \/ Send(c)
  /\ UNCHANGED <<digest, shown, buttons, leader, runner, click, failures>>

Answer(c) ==
  /\ Free(c)
  /\ Confirm(c) \/ Decline(c)
  /\ UNCHANGED <<digest, shown, buttons, leader, runner, click, actions,
                 failures>>

\* A button: _process_witness_action gets the row, then locks it.
Press(k, c) ==
  /\ actions < MaxActions /\ actions' = actions + 1
  /\ click[k].on = None /\ c \in buttons
  /\ click' = [click EXCEPT ![k] = [on |-> c, row |-> cand[c]]]
  /\ UNCHANGED <<cand, work, digest, shown, buttons, leader, runner, failures>>

Handle(k) ==
  LET c == click[k].on seen == click[k].row IN
  /\ c # None /\ Free(c)
  /\ \/ Dismiss(c, seen) \/ Accept(c, seen)
     \/ Final(seen) /\ UNCHANGED <<cand, work>>
  /\ click' = [click EXCEPT ![k] = Unclicked]
  /\ UNCHANGED <<digest, shown, buttons, leader, runner, actions, failures>>
-----------------------------------------------------------------------------
(***************************************************************************)
(* The extractors, and time.                                               *)
(***************************************************************************)
Propose(c) ==
  /\ cand[c].status = "none"
  /\ cand' = [cand EXCEPT ![c].status = "candidate"]
  /\ UNCHANGED <<work, digest, shown, buttons, leader, runner, click, actions,
                 failures>>

BetweenTicks == \A r \in Runner : runner[r].pc \in {"idle", "asleep"}

\* The poll interval, which is much longer than a tick.
Poll ==
  /\ BetweenTicks
  /\ \E r \in Runner : runner[r].pc = "asleep"
  /\ runner' = [r \in Runner |-> [runner[r] EXCEPT !.pc = "idle"]]
  /\ UNCHANGED <<cand, work, digest, shown, buttons, leader, click, actions,
                 failures>>

\* The cooldown is over; nothing but the date changes.
CooldownEnds(c) ==
  /\ BetweenTicks
  /\ cand[c].cooling
  /\ cand' = [cand EXCEPT ![c].cooling = FALSE]
  /\ UNCHANGED <<work, digest, shown, buttons, leader, runner, click, actions,
                 failures>>

NextWindow ==
  /\ BetweenTicks
  /\ digest' = {}
  /\ shown' = [u \in User |-> 0]
  /\ UNCHANGED <<cand, work, buttons, leader, runner, click, actions,
                 failures>>
-----------------------------------------------------------------------------
Next ==
  \/ \E r \in Runner :
       \/ Tick(r) \/ Post(r) \/ Unlock(r) \/ Commit(r)
       \/ Abort(r) \/ Crash(r)
       \/ \E u \in User : Skip(r, u) \/ Compose(r, u)
       \/ \E c \in Cand : Review(r, c)
  \/ \E c \in Cand : Decide(c) \/ Answer(c) \/ Propose(c) \/ CooldownEnds(c)
  \/ \E k \in Click : Handle(k) \/ \E c \in Cand : Press(k, c)
  \/ Poll \/ NextWindow

Spec == Init /\ [][Next]_vars

\* The supervisor ticks again and again, and time passes.
FairSpec ==
  /\ Spec
  /\ \A r \in Runner :
       /\ WF_vars(Tick(r)) /\ WF_vars(Post(r))
       /\ WF_vars(Unlock(r)) /\ WF_vars(Commit(r))
       /\ \A u \in User : WF_vars(Skip(r, u)) /\ WF_vars(Compose(r, u))
  /\ \A c \in Cand : SF_vars(CooldownEnds(c))
  /\ WF_vars(Poll) /\ SF_vars(NextWindow)
-----------------------------------------------------------------------------
(***************************************************************************)
(* Properties.                                                             *)
(***************************************************************************)
\* Two runners never send a user two digests in a window, although the
\* advisory lock is free before the first has committed; only a tick that
\* was undone leaves its message behind.
OneDigestPerWindow == \A u \in User : shown[u] <= 1

\* A tick posts, reviews and writes for as long as it likes; what it writes
\* in the end never undoes what somebody decided in the meantime.
DecisionsStand ==
  [][\A r \in Runner : Commit(r) =>
       \A c \in Cand : cand'[c].status # cand[c].status
                       => cand[c].status = "candidate"]_vars

\* A candidate that is called automated has a task, or a schedule that was
\* confirmed, whichever buttons were pressed before.
AutomatedHasWork ==
  \A c \in Cand : cand[c].status = "automated"
                  => work[c].tasks + work[c].started > 0

\* What the size of a digest, the window of the last one, a cooldown or a tick
\* that failed puts off stays pending and is suggested in the end, or somebody
\* decides on it, also while the lock of a failed tick is stuck in the pool of a
\* process.  These are the candidates that the autopilot leaves alone.
PendingIsSuggested ==
  \A c \in Worthy \ Reviewable : Eligible(c) ~> cand[c].status # "candidate"

\* "Deferred, never dropped: candidates stay pending" (runner.py:585), whoever
\* puts them off, the autopilot included.
DeferredIsNotDropped ==
  \A c \in Worthy : Eligible(c) ~> cand[c].status \notin {"candidate", "cooldown"}

\* A candidate that became an automation stays one until it is archived
\* (automation.py:151, "the terminal automated status").
AutomatedIsTerminal ==
  [][\A c \in Cand : cand[c].status = "automated"
                     => cand'[c].status \in {"automated", "archived"}]_vars

\* A candidate that was snoozed comes back when the snooze is over
\* (dashboard/app.py:1158, "snoozed for 7 days").
SnoozeEnds == \A c \in Cand : cand[c].status = "cooldown"
                              ~> cand[c].status # "cooldown"
=============================================================================
