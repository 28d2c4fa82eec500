---------------------------- MODULE Consolidator ----------------------------
(***************************************************************************)
(* The consolidator: its ticks under a Postgres advisory lock              *)
(* (kortny/consolidator/runner.py), the trigger (trigger.py), the run rows *)
(* and the window of episodes that a run promotes (service.py,             *)
(* promotion.py).                                                          *)
(*                                                                         *)
(* A run commits after every pass, so a crash keeps the passes that are    *)
(* over but not the row that says how far the run got.  The next run takes *)
(* its window from the last run that succeeded.                            *)
(*                                                                         *)
(* An episode is the number of its created_at, which Postgres sets when    *)
(* the transaction that inserts it begins.  Ages are counted up to the     *)
(* last limit they are compared with.                                      *)
(***************************************************************************)
EXTENDS Integers, FiniteSets

CONSTANTS
  Proc,         \* consolidator processes
  MaxEpisode,   \* bound: episodes
  Writers,      \* transactions that insert episodes at the same time
  EpisodeCap,   \* episodes a run promotes at most
  MinNewItems, MinInterval, QuietWindow, NightlyFloor,  \* of the trigger
  MaxInterrupts,\* bound: crashes and runs that end in an error
  NoProc

ASSUME ConsolidatorAssumption ==
  /\ MaxEpisode \in Nat /\ MaxInterrupts \in Nat
  /\ {Writers, EpisodeCap, NightlyFloor} \subseteq Nat \ {0}
  /\ {MinNewItems, MinInterval, QuietWindow} \subseteq Nat
  /\ MinInterval <= NightlyFloor
  /\ NoProc \notin Proc

VARIABLES
  begun,      \* episodes whose transaction has begun
  visible,    \* episodes that are committed
  reviewed,   \* how often each was promoted, by committed passes
  proc,       \* what each process is at
  lock,       \* holder of the advisory lock
  leaked,     \* the lock went back to the pool of its holder, still held
  success,    \* the last run that succeeded
  orphans,    \* running rows of runs that are over: young ones, stale ones
  age,        \* hours since the start of the last success
  quiet,      \* minutes since the last activity
  interrupts  \* bound

vars == <<begun, visible, reviewed, proc, lock, leaked, success, orphans, age,
          quiet, interrupts>>

Episode == 1..MaxEpisode
Anchor == 0..MaxEpisode     \* 0: the window is open from the start
Running == {"promotion", "promoting", "passes"}

TypeOK ==
  /\ begun \in 0..MaxEpisode /\ visible \subseteq 1..begun
  /\ reviewed \in [Episode -> 0..(MaxInterrupts + 1)]
  /\ proc \in [Proc -> [pc : {"idle"} \cup Running,
                        row : {"none", "running", "failed"}, old : BOOLEAN,
                        started : 0..MaxEpisode,   \* episodes begun by then
                        since : Anchor, anchor : Anchor,
                        batch : SUBSET Episode]]
  /\ lock \in Proc \cup {NoProc} /\ leaked \in BOOLEAN
  /\ success \in [some : BOOLEAN, started : 0..MaxEpisode, anchor : Anchor]
  /\ orphans \subseteq {"young", "stale"}
  /\ age \in 0..NightlyFloor /\ quiet \in 0..QuietWindow
  /\ interrupts \in 0..MaxInterrupts

AtRest == [pc |-> "idle", row |-> "none", old |-> FALSE, started |-> 0,
           since |-> 0, anchor |-> 0, batch |-> {}]

Init ==
  /\ begun = 0 /\ visible = {} /\ reviewed = [e \in Episode |-> 0]
  /\ proc = [p \in Proc |-> AtRest]
  /\ lock = NoProc /\ leaked = FALSE
  /\ success = [some |-> FALSE, started |-> 0, anchor |-> 0]
  /\ orphans = {} /\ age = 0 /\ quiet = 0 /\ interrupts = 0
-----------------------------------------------------------------------------
(***************************************************************************)
(* The rest of the system: workers record episodes, time passes.           *)
(***************************************************************************)
Open == (1..begun) \ visible

BeginEpisode ==
  /\ begun < MaxEpisode /\ Cardinality(Open) < Writers
  /\ begun' = begun + 1
  /\ quiet' = 0
  /\ UNCHANGED <<visible, reviewed, proc, lock, leaked, success, orphans, age,
                 interrupts>>

CommitEpisode ==
  /\ \E e \in Open : visible' = visible \cup {e}
  /\ UNCHANGED <<begun, reviewed, proc, lock, leaked, success, orphans, age,
                 quiet, interrupts>>

UpTo(limit, n) == IF n < limit THEN n + 1 ELSE limit

\* Two hours make every row that is running now a stale one.
TimePasses ==
  /\ age' = UpTo(NightlyFloor, age)
  /\ quiet' = UpTo(QuietWindow, quiet)
  /\ proc' = [p \in Proc |-> [proc[p] EXCEPT !.old = proc[p].row = "running"]]
  /\ orphans' = IF orphans = {} THEN {} ELSE {"stale"}
  /\ UNCHANGED <<begun, visible, reviewed, lock, leaked, success, interrupts>>
-----------------------------------------------------------------------------
(***************************************************************************)
(* A tick: the lock, the sweep, the trigger, and the start of a run.       *)
(***************************************************************************)
NewItems == Cardinality({e \in visible : e > success.started})

\* Without the nightly floor.
MutantShouldRun ==
  \/ ~success.some
  \/ /\ NewItems >= MinNewItems
     /\ age >= MinInterval
     /\ quiet >= QuietWindow

ShouldRun ==
  \/ ~success.some
  \/ age >= NightlyFloor
  \/ /\ NewItems >= MinNewItems
     /\ age >= MinInterval
     /\ quiet >= QuietWindow

\* A holder gets the lock again: advisory locks nest within a connection.
MutantMayLock(p) == TRUE

MayLock(p) == lock \in {p, NoProc}

\* fail_stale_runs, under the lock.
Swept == [q \in Proc |-> IF proc[q].row = "running" /\ proc[q].old
                         THEN [proc[q] EXCEPT !.row = "failed"] ELSE proc[q]]

MutantLeftOver == orphans

LeftOver == orphans \ {"stale"}

IdleTick(p) ==
  /\ proc[p].pc = "idle" /\ MayLock(p)
  /\ ~ShouldRun
  /\ orphans' = LeftOver /\ proc' = Swept
  /\ UNCHANGED <<begun, visible, reviewed, lock, leaked, success, age, quiet,
                 interrupts>>

StartRun(p) ==
  /\ proc[p].pc = "idle" /\ MayLock(p)
  /\ ShouldRun
  /\ lock' = p
  /\ orphans' = LeftOver
  /\ proc' = [Swept EXCEPT ![p] = [AtRest EXCEPT !.pc = "promotion",
                                     !.row = "running", !.started = begun,
                                     !.since = success.anchor]]
  /\ UNCHANGED <<begun, visible, reviewed, leaked, success, age, quiet,
                 interrupts>>
-----------------------------------------------------------------------------
(***************************************************************************)
(* A run: the promotion pass, the other passes, the end.                   *)
(***************************************************************************)
\* The oldest episodes of S, no more than the cap.
Oldest(S) == {e \in S : Cardinality({f \in S : f <= e}) <= EpisodeCap}

\* From the anchor on, the episode it names included.
MutantWindow(since) == Oldest({e \in visible : e >= since})

Window(since) == Oldest({e \in visible : e > since})

Last(S) == CHOOSE e \in S : \A f \in S : f <= e

Read(p) ==
  /\ proc[p].pc = "promotion"
  /\ proc' = [proc EXCEPT ![p].pc = "promoting",
                          ![p].batch = Window(proc[p].since),
                          ![p].anchor = proc[p].since]
  /\ UNCHANGED <<begun, visible, reviewed, lock, leaked, success, orphans, age,
                 quiet, interrupts>>

Reviewed(S) == [e \in Episode |-> reviewed[e] + (IF e \in S THEN 1 ELSE 0)]

\* The model has answered for every batch and the pass is committed.
Promote(p) ==
  /\ proc[p].pc = "promoting"
  /\ reviewed' = Reviewed(proc[p].batch)
  /\ proc' = [proc EXCEPT ![p].pc = "passes", ![p].batch = {},
                ![p].anchor = IF proc[p].batch = {} THEN proc[p].since
                                                    ELSE Last(proc[p].batch)]
  /\ UNCHANGED <<begun, visible, lock, leaked, success, orphans, age, quiet,
                 interrupts>>

\* The window is taken as read.
MutantSkipPromotion(p) ==
  /\ proc[p].pc = "promoting"
  /\ proc' = [proc EXCEPT ![p].pc = "passes", ![p].batch = {},
                          ![p].anchor = proc[p].started]
  /\ UNCHANGED <<begun, visible, reviewed, lock, leaked, success, orphans, age,
                 quiet, interrupts>>

\* No model, an error (rolled back), or the budget: the window stays open.
SkipPromotion(p) ==
  /\ proc[p].pc = "promoting"
  /\ proc' = [proc EXCEPT ![p].pc = "passes", ![p].batch = {}]
  /\ UNCHANGED <<begun, visible, reviewed, lock, leaked, success, orphans, age,
                 quiet, interrupts>>

Released(p) == lock' = IF leaked THEN p ELSE NoProc

\* Whatever failed, the run is a success, and overwrites what a sweep wrote.
Finish(p) ==
  /\ proc[p].pc = "passes"
  /\ success' = [some |-> TRUE, started |-> proc[p].started,
                 anchor |-> proc[p].anchor]
  /\ age' = 0
  /\ proc' = [proc EXCEPT ![p] = AtRest]
  /\ Released(p)
  /\ UNCHANGED <<begun, visible, reviewed, leaked, orphans, quiet, interrupts>>

LeavesRow(p) == orphans' = orphans \cup
  (IF proc[p].row # "running" THEN {} ELSE
   IF proc[p].old THEN {"stale"} ELSE {"young"})

\* An error outside the passes.  When it was the database's, nothing rolls the
\* session back, so the unlock fails too and the connection returns to the pool
\* with the lock.
Abort(p) ==
  /\ proc[p].pc \in Running /\ interrupts < MaxInterrupts
  /\ interrupts' = interrupts + 1
  /\ LeavesRow(p)
  /\ proc' = [proc EXCEPT ![p] = AtRest]
  /\ \/ leaked' = TRUE /\ UNCHANGED lock
     \/ Released(p) /\ UNCHANGED leaked
  /\ UNCHANGED <<begun, visible, reviewed, success, age, quiet>>

\* The process is killed, its connection closed, and it starts again.
Crash(p) ==
  /\ interrupts < MaxInterrupts
  /\ interrupts' = interrupts + 1
  /\ LeavesRow(p)
  /\ proc' = [proc EXCEPT ![p] = AtRest]
  /\ IF lock = p THEN lock' = NoProc /\ leaked' = FALSE
                 ELSE UNCHANGED <<lock, leaked>>
  /\ UNCHANGED <<begun, visible, reviewed, success, age, quiet>>
-----------------------------------------------------------------------------
Steps(p) == Read(p) \/ Promote(p) \/ SkipPromotion(p) \/ Finish(p)

Next ==
  \/ BeginEpisode \/ CommitEpisode \/ TimePasses
  \/ \E p \in Proc : IdleTick(p) \/ StartRun(p) \/ Steps(p) \/ Abort(p) \/ Crash(p)

Spec == Init /\ [][Next]_vars

\* Transactions commit, time passes, somebody ticks, and a pass that is retried
\* run after run works in the end.
FairSpec ==
  /\ Spec
  /\ WF_vars(CommitEpisode) /\ WF_vars(TimePasses)
  /\ WF_vars(\E p \in Proc : IdleTick(p) \/ StartRun(p))
  /\ \A p \in Proc : WF_vars(Steps(p))
  /\ SF_vars(\E p \in Proc : Promote(p))
-----------------------------------------------------------------------------
\* service.py: "The advisory lock guarantees one live runner, so a `running` row
\* older than any plausible run duration belongs to a killed process": a sweep
\* never fails a run that is still going on, however long it takes.
LiveRunIsSpared ==
  \A p \in Proc : proc[p].pc \in Running => proc[p].row = "running"

\* The window moves past an episode only when a pass has promoted it: failed
\* passes, missing models, caps and crashes skip nothing.
NothingSkipped ==
  \A e \in visible : success.some /\ e <= success.anchor => reviewed[e] > 0

\* A pass that was committed is repeated only for a run that was cut short.
RepeatedOnlyIfCut == \A e \in Episode : reviewed[e] <= 1 + interrupts

\* A backlog larger than the cap drains over the runs.
BacklogDrains == \A e \in Episode : e \in visible ~> reviewed[e] > 0

\* The row of a run that died is failed in the end, by whoever has the lock.
DeadRunsAreFailed == orphans # {} ~> orphans = {}
=============================================================================
