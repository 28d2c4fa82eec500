------------------------- MODULE ConsolidatorProofs -------------------------
(***************************************************************************)
(* Theorems about Consolidator, for any number of processes, any caps and  *)
(* limits of the trigger, and any number of crashes and aborted runs.      *)
(***************************************************************************)
EXTENDS Consolidator, FiniteSetTheorems, WellFoundedInduction, TLAPS

-----------------------------------------------------------------------------
(***************************************************************************)
(* The window of a run.                                                    *)
(***************************************************************************)

\* The bounds are numbers.
LEMMA Bounds ==
  /\ MaxEpisode \in Nat /\ MaxInterrupts \in Nat /\ NightlyFloor \in Nat
  /\ QuietWindow \in Nat /\ EpisodeCap \in Nat
BY ConsolidatorAssumption

\* A set of episodes has a last one.
LEMMA LastIsLast ==
  ASSUME NEW S, S \subseteq Episode, S # {}
  PROVE  Last(S) \in S /\ \A f \in S : f <= Last(S)
<1> DEFINE T == {i \in 0..MaxEpisode : MaxEpisode - i \in S}
<1>1. T \subseteq Nat /\ T # {}
  <2>1. PICK y \in S : TRUE
    OBVIOUS
  <2>2. MaxEpisode - y \in 0..MaxEpisode /\ MaxEpisode - (MaxEpisode - y) = y
    BY <2>1, ConsolidatorAssumption DEF Episode
  <2> QED
    BY <2>1, <2>2
<1>2. PICK m \in T : \A i \in T : ~(<<i, m>> \in OpToRel(<, Nat))
  BY <1>1, NatLessThanWellFounded, WFMin
<1>3. \A i \in T : m <= i
  <2> SUFFICES ASSUME NEW i \in T, ~(m <= i)
               PROVE  FALSE
    OBVIOUS
  <2>1. i \in Nat /\ m \in Nat /\ i < m
    OBVIOUS
  <2> QED
    BY <1>2, <2>1 DEF OpToRel
<1>4. \A y \in S : y <= MaxEpisode - m
  <2> SUFFICES ASSUME NEW y \in S
               PROVE  y <= MaxEpisode - m
    OBVIOUS
  <2>1. MaxEpisode \in Nat /\ y \in 1..MaxEpisode /\ m \in 0..MaxEpisode
    BY ConsolidatorAssumption DEF Episode
  <2>2. MaxEpisode - y \in T
    BY <2>1
  <2>3. m <= MaxEpisode - y
    BY <1>3, <2>2
  <2> QED
    BY <2>1, <2>3
<1> QED
  BY <1>2, <1>4 DEF Last

\* The oldest episodes of a set: with each of them come all that are older.
LEMMA OldestIsPrefix ==
  ASSUME NEW S, S \subseteq Episode,
         NEW e \in Oldest(S), NEW f \in S, f <= e
  PROVE  f \in Oldest(S)
<1> DEFINE Upto(x) == {g \in S : g <= x}
<1>1. MaxEpisode \in Nat /\ EpisodeCap \in Nat
  BY ConsolidatorAssumption
<1>2. e \in Episode /\ Cardinality(Upto(e)) <= EpisodeCap
  BY DEF Oldest
<1>3. Upto(f) \subseteq Upto(e)
  <2> SUFFICES ASSUME NEW g \in S, g <= f
               PROVE  g <= e
    OBVIOUS
  <2>1. g \in Int /\ f \in Int /\ e \in Int
    BY <1>1, <1>2 DEF Episode
  <2> QED
    BY <2>1
<1>4. IsFiniteSet(Upto(e))
  <2>1. IsFiniteSet(Episode)
    BY <1>1, FS_Interval DEF Episode
  <2> QED
    BY <2>1, FS_Subset
<1>5. /\ Cardinality(Upto(f)) <= Cardinality(Upto(e))
      /\ Cardinality(Upto(e)) \in Nat /\ Cardinality(Upto(f)) \in Nat
  BY <1>3, <1>4, FS_Subset, FS_CardinalityType
<1> QED
  BY <1>1, <1>2, <1>5 DEF Oldest

-----------------------------------------------------------------------------
(***************************************************************************)
(* The invariant.                                                          *)
(***************************************************************************)
Stage == [pc : {"idle"} \cup Running, row : {"none", "running", "failed"},
          old : BOOLEAN, started : 0..MaxEpisode,
          since : Anchor, anchor : Anchor, batch : SUBSET Episode]

\* TypeOK, but that reviewed is not bounded.
Typed ==
  /\ begun \in 0..MaxEpisode /\ visible \subseteq 1..begun
  /\ reviewed \in [Episode -> Nat]
  /\ proc \in [Proc -> Stage]
  /\ lock \in Proc \cup {NoProc} /\ leaked \in BOOLEAN
  /\ success \in [some : BOOLEAN, started : 0..MaxEpisode, anchor : Anchor]
  /\ orphans \subseteq {"young", "stale"}
  /\ age \in 0..NightlyFloor /\ quiet \in 0..QuietWindow
  /\ interrupts \in 0..MaxInterrupts

\* Who runs holds the lock, and nobody has failed its row.
RunnerLocks ==
  \A p \in Proc :
    /\ proc[p].pc \in Running => lock = p /\ proc[p].row = "running"
    /\ proc[p].pc = "idle" => proc[p].row = "none"

\* A run starts where the last success ended, and reads only what is newer.
WindowOfRun ==
  \A p \in Proc :
    /\ proc[p].pc \in Running => proc[p].since = success.anchor
    /\ proc[p].pc = "promoting" =>
         /\ proc[p].anchor = proc[p].since
         /\ \A e \in proc[p].batch : e > proc[p].since

\* Promoted more often than runs were cut short: only up to where the current
\* run has got, or else the last success.
PaidFor ==
  /\ \A e \in Episode : reviewed[e] <= 1 + interrupts
  /\ (\A p \in Proc : proc[p].pc # "passes")
     => \A e \in Episode : e > success.anchor => reviewed[e] <= interrupts
  /\ \A p \in Proc : proc[p].pc = "passes"
     => \A e \in Episode : e > proc[p].anchor => reviewed[e] <= interrupts

RunInv == Typed /\ RunnerLocks /\ WindowOfRun /\ PaidFor

\* Two runs never overlap.
LEMMA OneRunner ==
  ASSUME Typed, RunnerLocks, NEW p \in Proc, proc[p].pc \in Running
  PROVE  lock = p /\ \A q \in Proc : q # p => proc[q].pc = "idle"
BY DEF Typed, Stage, RunnerLocks

\* Who gets the lock meets no run, and its sweep changes no process.
LEMMA SweepSparesAll ==
  ASSUME Typed, RunnerLocks, NEW p \in Proc, proc[p].pc = "idle", MayLock(p)
  PROVE  /\ \A q \in Proc : proc[q].pc = "idle"
         /\ Swept = proc
<1>1. \A q \in Proc : proc[q].pc = "idle"
  BY ConsolidatorAssumption DEF Typed, Stage, RunnerLocks, MayLock, Running
<1>2. \A q \in Proc : proc[q].row # "running"
  BY <1>1 DEF RunnerLocks
<1>3. Swept = [q \in Proc |-> proc[q]]
  BY <1>2 DEF Swept
<1> QED
  BY <1>1, <1>3 DEF Typed

-----------------------------------------------------------------------------
(***************************************************************************)
(* It is inductive.                                                        *)
(***************************************************************************)
LEMMA RestIsStage ==
  AtRest \in Stage /\ AtRest.pc = "idle" /\ AtRest.row = "none"
BY Bounds DEF AtRest, Stage, Anchor

LEMMA InitRun == Init => RunInv
<1> SUFFICES ASSUME Init
             PROVE  RunInv
  OBVIOUS
<1>1. AtRest \in Stage /\ AtRest.pc = "idle" /\ AtRest.row = "none"
  BY RestIsStage
<1>2. Typed
  <2>1. proc \in [Proc -> Stage] /\ reviewed \in [Episode -> Nat]
    BY <1>1 DEF Init
  <2>2. success \in [some : BOOLEAN, started : 0..MaxEpisode, anchor : Anchor]
    BY Bounds DEF Init, Anchor
  <2>3. begun \in 0..MaxEpisode /\ visible \subseteq 1..begun
        /\ orphans \subseteq {"young", "stale"}
    BY Bounds DEF Init
  <2>4. age \in 0..NightlyFloor /\ quiet \in 0..QuietWindow
        /\ interrupts \in 0..MaxInterrupts
    BY Bounds DEF Init
  <2> QED
    BY <2>1, <2>2, <2>3, <2>4 DEF Init, Typed
<1> QED
  BY <1>1, <1>2 DEF Init, RunInv, RunnerLocks, WindowOfRun, PaidFor, Running

\* What the rest of the system does leaves every run as it was, but for its age.
LEMMA OutsideKeepsRun ==
  ASSUME RunInv, BeginEpisode \/ CommitEpisode \/ TimePasses
  PROVE  RunInv'
<1> USE ConsolidatorAssumption DEF RunInv
<1>1. /\ proc' \in [Proc -> Stage]
      /\ \A p \in Proc : /\ proc'[p].pc = proc[p].pc
                         /\ proc'[p].row = proc[p].row
                         /\ proc'[p].since = proc[p].since
                         /\ proc'[p].anchor = proc[p].anchor
                         /\ proc'[p].batch = proc[p].batch
  <2>1. CASE TimePasses
    <3> DEFINE Older(p) == [proc[p] EXCEPT !.old = proc[p].row = "running"]
    <3>1. ASSUME NEW p \in Proc
          PROVE  /\ Older(p) \in Stage /\ Older(p).pc = proc[p].pc
                 /\ Older(p).row = proc[p].row
                 /\ Older(p).since = proc[p].since
                 /\ Older(p).anchor = proc[p].anchor
                 /\ Older(p).batch = proc[p].batch
      <4>1. proc[p] \in Stage
        BY DEF Typed
      <4> QED
        BY <4>1 DEF Stage
    <3>2. proc' = [p \in Proc |-> Older(p)]
      BY <2>1 DEF TimePasses
    <3> HIDE DEF Older
    <3> QED
      BY <3>1, <3>2
  <2> QED
    BY <2>1 DEF BeginEpisode, CommitEpisode, Typed
<1>2. /\ begun' \in 0..MaxEpisode /\ visible' \subseteq 1..begun'
      /\ age' \in 0..NightlyFloor /\ quiet' \in 0..QuietWindow
      /\ orphans' \subseteq {"young", "stale"}
  BY DEF Typed, BeginEpisode, CommitEpisode, TimePasses, Open, UpTo
<1>3. UNCHANGED <<reviewed, lock, leaked, success, interrupts>>
  BY DEF BeginEpisode, CommitEpisode, TimePasses
<1>4. Typed'
  BY <1>1, <1>2, <1>3 DEF Typed
<1> QED
  BY <1>1, <1>3, <1>4 DEF RunnerLocks, WindowOfRun, PaidFor

LEMMA TickKeepsRun ==
  ASSUME RunInv, NEW p \in Proc, IdleTick(p) \/ StartRun(p)
  PROVE  RunInv'
<1> USE ConsolidatorAssumption DEF RunInv
<1>1. /\ \A q \in Proc : proc[q].pc = "idle"
      /\ Swept = proc
  BY SweepSparesAll DEF IdleTick, StartRun
<1>2. orphans' \subseteq {"young", "stale"}
  BY DEF Typed, IdleTick, StartRun, LeftOver
<1>3. CASE IdleTick(p)
  BY <1>1, <1>2, <1>3
     DEF IdleTick, Typed, RunnerLocks, WindowOfRun, PaidFor, Running
<1>4. CASE StartRun(p)
  <2> DEFINE new == [AtRest EXCEPT !.pc = "promotion", !.row = "running",
                                   !.started = begun, !.since = success.anchor]
  <2>1. /\ new \in Stage /\ new.pc = "promotion" /\ new.row = "running"
        /\ new.since = success.anchor
    <3>1. AtRest \in Stage
      BY RestIsStage
    <3>2. begun \in 0..MaxEpisode /\ success.anchor \in Anchor
      BY DEF Typed
    <3> QED
      BY <3>1, <3>2 DEF Stage, Running
  <2>2. proc' = [proc EXCEPT ![p] = new]
    BY <1>1, <1>4 DEF StartRun
  <2> HIDE DEF new
  <2>3. Typed'
    <3>1. lock' = p /\ UNCHANGED <<begun, visible, reviewed, leaked, success,
                                   age, quiet, interrupts>>
      BY <1>4 DEF StartRun
    <3> QED
      BY <1>2, <2>1, <2>2, <3>1 DEF Typed
  <2>4. RunnerLocks'
    BY <1>1, <1>4, <2>1, <2>2 DEF StartRun, Typed, RunnerLocks, Running
  <2>5. WindowOfRun'
    BY <1>1, <1>4, <2>1, <2>2 DEF StartRun, Typed, WindowOfRun, Running
  <2>6. PaidFor'
    BY <1>1, <1>4, <2>1, <2>2 DEF StartRun, Typed, PaidFor
  <2> QED
    BY <2>3, <2>4, <2>5, <2>6
<1> QED
  BY <1>3, <1>4

LEMMA ReadKeepsRun ==
  ASSUME RunInv, NEW p \in Proc, Read(p)
  PROVE  RunInv'
<1> USE ConsolidatorAssumption DEF RunInv
<1>1. /\ lock = p /\ \A q \in Proc : q # p => proc[q].pc = "idle"
      /\ proc[p] \in Stage /\ proc[p].since = success.anchor
  BY OneRunner DEF Read, Running, WindowOfRun, Typed
<1> DEFINE batch == Window(proc[p].since)
           new == [proc[p] EXCEPT !.pc = "promoting", !.batch = batch,
                                  !.anchor = proc[p].since]
<1>2. batch \subseteq Episode /\ \A e \in batch : e > proc[p].since
  <2> SUFFICES ASSUME NEW e \in batch
               PROVE  e \in Episode /\ e > proc[p].since
    OBVIOUS
  <2>1. e \in visible /\ e > proc[p].since
    BY DEF Window, Oldest
  <2>2. e \in 1..begun /\ begun \in 0..MaxEpisode
    BY <2>1 DEF Typed
  <2> QED
    BY <2>1, <2>2, Bounds DEF Episode
<1>3. /\ new \in Stage /\ new.pc = "promoting" /\ new.row = proc[p].row
      /\ new.since = proc[p].since /\ new.anchor = proc[p].since
      /\ new.batch = batch
  <2> HIDE DEF batch
  <2> QED
    BY <1>1, <1>2 DEF Stage, Running, Anchor
<1>4. proc' = [proc EXCEPT ![p] = new]
  BY DEF Read
<1>5. proc[p].pc = "promotion" /\ UNCHANGED <<begun, visible, reviewed, lock,
        leaked, success, orphans, age, quiet, interrupts>>
  BY DEF Read
<1> HIDE DEF new, batch
<1>6. Typed'
  BY <1>3, <1>4, <1>5 DEF Typed
<1>7. RunnerLocks'
  BY <1>3, <1>4, <1>5 DEF Typed, RunnerLocks, Running
<1>8. WindowOfRun'
  BY <1>1, <1>2, <1>3, <1>4, <1>5 DEF Typed, WindowOfRun, Running
<1>9. PaidFor'
  BY <1>1, <1>3, <1>4, <1>5 DEF Typed, PaidFor
<1> QED
  BY <1>6, <1>7, <1>8, <1>9

\* The promotion pass ends, whether it was committed or not.
LEMMA PassKeepsRun ==
  ASSUME RunInv, NEW p \in Proc, Promote(p) \/ SkipPromotion(p)
  PROVE  RunInv'
<1> USE ConsolidatorAssumption DEF RunInv
<1>1. /\ lock = p /\ \A q \in Proc : q # p => proc[q].pc = "idle"
      /\ proc[p] \in Stage /\ proc[p].since = success.anchor
      /\ proc[p].anchor = proc[p].since
      /\ \A e \in proc[p].batch : e > proc[p].since
      /\ proc[p].pc = "promoting" /\ proc[p].row = "running"
  BY OneRunner DEF Promote, SkipPromotion, Running, WindowOfRun, Typed,
                   RunnerLocks
<1> DEFINE batch == IF Promote(p) THEN proc[p].batch ELSE {}
           anchor == IF batch = {} THEN proc[p].since ELSE Last(batch)
           new == [proc[p] EXCEPT !.pc = "passes", !.batch = {},
                                  !.anchor = anchor]
<1>2. batch \subseteq Episode /\ \A e \in batch : e > proc[p].since
  BY <1>1 DEF Stage
<1>3. /\ anchor \in Anchor /\ anchor >= proc[p].since
      /\ \A e \in batch : e <= anchor
  <2>1. batch # {} => Last(batch) \in batch /\ \A e \in batch : e <= Last(batch)
    BY <1>2, LastIsLast
  <2>2. proc[p].since \in 0..MaxEpisode /\ MaxEpisode \in Nat
    BY <1>1, Bounds DEF Stage, Anchor
  <2> HIDE DEF batch
  <2>3. CASE batch = {}
    BY <2>2, <2>3 DEF Anchor
  <2>4. CASE batch # {}
    <3>1. anchor = Last(batch) /\ anchor \in 1..MaxEpisode
          /\ anchor > proc[p].since
      BY <1>2, <2>1, <2>4 DEF Episode
    <3> QED
      BY <2>1, <2>2, <2>4, <3>1 DEF Anchor
  <2> QED
    BY <2>3, <2>4
<1>4. proc' = [proc EXCEPT ![p] = new]
  <2>1. CASE Promote(p)
    BY <2>1 DEF Promote
  <2>2. CASE SkipPromotion(p) /\ ~Promote(p)
    <3>1. anchor = proc[p].anchor /\ proc[p] = [proc[p] EXCEPT !.anchor = @]
      BY <1>1, <2>2 DEF Stage
    <3>2. proc' = [proc EXCEPT ![p] = [proc[p] EXCEPT !.pc = "passes",
                                                      !.batch = {}]]
      BY <2>2 DEF SkipPromotion
    <3>3. new = [proc[p] EXCEPT !.pc = "passes", !.batch = {}]
      BY <1>1, <3>1 DEF Stage
    <3> QED
      BY <3>2, <3>3
  <2> QED
    BY <2>1, <2>2
<1>5. /\ new \in Stage /\ new.pc = "passes" /\ new.row = "running"
      /\ new.since = proc[p].since /\ new.anchor = anchor
  <2> HIDE DEF anchor
  <2> QED
    BY <1>1, <1>3 DEF Stage, Running
<1>6. \A e \in Episode : reviewed'[e] = reviewed[e] + (IF e \in batch THEN 1 ELSE 0)
  BY DEF Promote, SkipPromotion, Reviewed, Typed
<1>7. reviewed' \in [Episode -> Nat]
  BY DEF Promote, SkipPromotion, Reviewed, Typed
<1>8. UNCHANGED <<begun, visible, lock, leaked, success, orphans, age, quiet,
                  interrupts>>
  BY DEF Promote, SkipPromotion
<1> HIDE DEF new, anchor, batch
<1>9. Typed'
  BY <1>4, <1>5, <1>7, <1>8 DEF Typed
<1>10. RunnerLocks'
  BY <1>1, <1>4, <1>5, <1>8 DEF Typed, RunnerLocks
<1>11. WindowOfRun'
  BY <1>1, <1>4, <1>5, <1>8 DEF Typed, WindowOfRun, Running
<1>12. PaidFor'
  <2>1. \A q \in Proc : proc[q].pc # "passes"
    BY <1>1
  <2>2. \A e \in Episode : e > success.anchor => reviewed[e] <= interrupts
    BY <2>1 DEF PaidFor
  <2>3. \A e \in Episode : reviewed'[e] <= 1 + interrupts
    <3> SUFFICES ASSUME NEW e \in Episode
                 PROVE  reviewed'[e] <= 1 + interrupts
      OBVIOUS
    <3>1. e \in batch => reviewed[e] <= interrupts
      BY <1>1, <1>2, <2>2
    <3>2. reviewed[e] <= 1 + interrupts /\ reviewed[e] \in Nat
      BY DEF PaidFor, Typed
    <3> QED
      BY <1>6, <3>1, <3>2 DEF Typed
  <2>4. \A e \in Episode : e > anchor => reviewed'[e] <= interrupts
    <3> SUFFICES ASSUME NEW e \in Episode, e > anchor
                 PROVE  reviewed'[e] <= interrupts
      OBVIOUS
    <3>1. e \notin batch /\ e > success.anchor
      BY <1>1, <1>3 DEF Episode, Anchor, Stage
    <3> QED
      BY <1>6, <2>2, <3>1 DEF Typed
  <2>5. proc'[p].pc = "passes" /\ proc'[p].anchor = anchor
        /\ \A q \in Proc : q # p => proc'[q].pc = "idle"
    BY <1>1, <1>4, <1>5 DEF Typed
  <2> QED
    BY <1>8, <2>3, <2>4, <2>5 DEF PaidFor
<1> QED
  BY <1>9, <1>10, <1>11, <1>12

LEMMA FinishKeepsRun ==
  ASSUME RunInv, NEW p \in Proc, Finish(p)
  PROVE  RunInv'
<1> USE ConsolidatorAssumption DEF RunInv
<1>1. /\ lock = p /\ \A q \in Proc : q # p => proc[q].pc = "idle"
      /\ proc[p] \in Stage /\ proc[p].pc = "passes"
  BY OneRunner DEF Finish, Running, Typed
<1>2. AtRest \in Stage /\ AtRest.pc = "idle" /\ AtRest.row = "none"
  BY RestIsStage
<1>3. proc' = [proc EXCEPT ![p] = AtRest]
  BY DEF Finish
<1>4. \A q \in Proc : proc'[q].pc = "idle" /\ proc'[q].row = "none"
  BY <1>1, <1>2, <1>3 DEF Typed, RunnerLocks
<1>5. /\ success' = [some |-> TRUE, started |-> proc[p].started,
                     anchor |-> proc[p].anchor]
      /\ success' \in [some : BOOLEAN, started : 0..MaxEpisode, anchor : Anchor]
      /\ lock' \in Proc \cup {NoProc}
      /\ age' = 0
      /\ UNCHANGED <<begun, visible, reviewed, leaked, orphans, quiet, interrupts>>
  BY <1>1 DEF Finish, Released, Stage
<1>6. Typed'
  BY <1>2, <1>3, <1>5 DEF Typed
<1>7. RunnerLocks' /\ WindowOfRun'
  BY <1>4 DEF RunnerLocks, WindowOfRun, Running
<1>8. PaidFor'
  BY <1>1, <1>4, <1>5 DEF PaidFor
<1> QED
  BY <1>6, <1>7, <1>8

LEMMA InterruptKeepsRun ==
  ASSUME RunInv, NEW p \in Proc, Abort(p) \/ Crash(p)
  PROVE  RunInv'
<1> USE ConsolidatorAssumption DEF RunInv
<1>1. AtRest \in Stage /\ AtRest.pc = "idle" /\ AtRest.row = "none"
  BY RestIsStage
<1>2. proc' = [proc EXCEPT ![p] = AtRest]
  BY DEF Abort, Crash
<1>3. /\ interrupts < MaxInterrupts /\ interrupts' = interrupts + 1
      /\ UNCHANGED <<begun, visible, reviewed, success, age, quiet>>
  BY DEF Abort, Crash
<1>4. /\ orphans' \subseteq {"young", "stale"}
      /\ lock' \in Proc \cup {NoProc} /\ leaked' \in BOOLEAN
  BY DEF Abort, Crash, LeavesRow, Released, Typed
<1>5. Typed'
  BY <1>1, <1>2, <1>3, <1>4 DEF Typed
<1>6. \A q \in Proc : proc[q].pc \in Running /\ q # p => lock' = q
  BY OneRunner DEF Abort, Crash, RunnerLocks
<1>7. RunnerLocks'
  BY <1>1, <1>2, <1>6 DEF RunnerLocks, Typed, Running
<1>8. WindowOfRun'
  BY <1>1, <1>2, <1>3 DEF WindowOfRun, Typed, Running
<1>9. \A e \in Episode : reviewed'[e] <= interrupts'
  BY <1>3 DEF PaidFor, Typed
<1>10. PaidFor'
  <2>1. \A e \in Episode : reviewed'[e] <= 1 + interrupts'
    BY <1>3, <1>9 DEF Typed
  <2> QED
    BY <1>9, <2>1 DEF PaidFor
<1> QED
  BY <1>5, <1>7, <1>8, <1>10

LEMMA RunInvInvariant == Spec => []RunInv
<1>1. RunInv /\ [Next]_vars => RunInv'
  <2> SUFFICES ASSUME RunInv, [Next]_vars
               PROVE  RunInv'
    OBVIOUS
  <2>1. CASE UNCHANGED vars
    BY <2>1 DEF vars, RunInv, Typed, RunnerLocks, WindowOfRun, PaidFor
  <2>2. CASE BeginEpisode \/ CommitEpisode \/ TimePasses
    BY <2>2, OutsideKeepsRun
  <2>3. ASSUME NEW p \in Proc, IdleTick(p) \/ StartRun(p)
        PROVE  RunInv'
    BY <2>3, TickKeepsRun
  <2>4. ASSUME NEW p \in Proc, Steps(p)
        PROVE  RunInv'
    BY <2>4, ReadKeepsRun, PassKeepsRun, FinishKeepsRun DEF Steps
  <2>5. ASSUME NEW p \in Proc, Abort(p) \/ Crash(p)
        PROVE  RunInv'
    BY <2>5, InterruptKeepsRun
  <2> QED
    BY <2>1, <2>2, <2>3, <2>4, <2>5 DEF Next
<1> QED
  BY InitRun, <1>1, PTL DEF Spec

\* Every state is well typed; no episode is promoted more often than the
\* interruptions and one success account for.
THEOREM ConsolidatorTyped == Spec => []TypeOK
<1>1. RunInv => TypeOK
  <2> SUFFICES ASSUME RunInv
               PROVE  TypeOK
    OBVIOUS
  <2>1. \A e \in Episode : reviewed[e] \in 0..(MaxInterrupts + 1)
    BY ConsolidatorAssumption DEF RunInv, Typed, PaidFor
  <2>2. reviewed \in [Episode -> 0..(MaxInterrupts + 1)]
    BY <2>1 DEF RunInv, Typed
  <2> QED
    BY <2>2 DEF RunInv, Typed, TypeOK, Stage
<1> QED
  BY <1>1, RunInvInvariant, PTL

\* A sweep never fails a run that is still going on: who sweeps has the lock,
\* and who runs has not given it back, even where the lock went back to the
\* pool still held.
THEOREM SweepsSpareLiveRuns == Spec => []LiveRunIsSpared
<1>1. RunInv => LiveRunIsSpared
  BY DEF RunInv, RunnerLocks, LiveRunIsSpared
<1> QED
  BY <1>1, RunInvInvariant, PTL

\* A committed pass is repeated only for a run that was cut short.
THEOREM RepeatsArePaidFor == Spec => []RepeatedOnlyIfCut
<1>1. RunInv => RepeatedOnlyIfCut
  BY DEF RunInv, PaidFor, RepeatedOnlyIfCut
<1> QED
  BY <1>1, RunInvInvariant, PTL

-----------------------------------------------------------------------------
(***************************************************************************)
(* Nothing is skipped, when episodes become visible in their order.        *)
(***************************************************************************)
\* One open transaction at most, of the newest episode.
InOrder == \A e \in 1..begun : e \in visible \/ e = begun

Promoted(e) == e \in visible /\ reviewed[e] > 0

\* Everything up to the anchor is promoted, and what a run has read leaves
\* out nothing that is older.
NoGap ==
  /\ \A e \in Episode : e <= success.anchor => Promoted(e)
  /\ \A p \in Proc :
       /\ proc[p].pc = "promoting" =>
            /\ proc[p].batch \subseteq visible
            /\ \A b \in proc[p].batch, e \in Episode :
                 proc[p].since < e /\ e <= b => e \in proc[p].batch
       /\ proc[p].pc = "passes" =>
            \A e \in Episode : e <= proc[p].anchor => Promoted(e)

WindowInv == RunInv /\ InOrder /\ NoGap

\* What is promoted stays promoted.
LEMMA PromotedStays ==
  ASSUME Typed, [Next]_vars, NEW e \in Episode, Promoted(e)
  PROVE  Promoted(e)'
<1>1. visible \subseteq visible'
  BY DEF Next, vars, BeginEpisode, CommitEpisode, TimePasses, IdleTick, StartRun,
         Steps, Read, Promote, SkipPromotion, Finish, Abort, Crash
<1>2. reviewed' = reviewed \/ \E p \in Proc : reviewed' = Reviewed(proc[p].batch)
  BY DEF Next, vars, BeginEpisode, CommitEpisode, TimePasses, IdleTick, StartRun,
         Steps, Read, Promote, SkipPromotion, Finish, Abort, Crash
<1>3. reviewed'[e] >= reviewed[e]
  BY <1>2 DEF Reviewed, Typed
<1>4. reviewed'[e] > 0
  <2>1. reviewed'[e] \in Nat
    BY <1>2 DEF Reviewed, Typed
  <2> QED
    BY <1>3, <2>1 DEF Promoted, Typed
<1> QED
  BY <1>1, <1>4 DEF Promoted

\* Who waits to begin finds every transaction committed.
LEMMA OrderIsKept ==
  ASSUME Writers = 1, Typed, InOrder, [Next]_vars
  PROVE  InOrder'
<1> USE ConsolidatorAssumption
<1>1. CASE BeginEpisode
  <2>1. IsFiniteSet(Open)
    <3>1. IsFiniteSet(1..begun)
      BY FS_Interval DEF Typed
    <3> QED
      BY <3>1, FS_Subset DEF Open
  <2>2. Cardinality(Open) = 0
    BY <1>1, <2>1, FS_CardinalityType DEF BeginEpisode
  <2>3. Open = {}
    BY <2>1, <2>2, FS_EmptySet
  <2> QED
    BY <1>1, <2>3 DEF BeginEpisode, Open, InOrder, Typed
<1>2. CASE CommitEpisode
  BY <1>2 DEF CommitEpisode, Open, InOrder
<1>3. CASE UNCHANGED <<begun, visible>>
  BY <1>3 DEF InOrder
<1> QED
  BY <1>1, <1>2, <1>3
     DEF Next, vars, TimePasses, IdleTick, StartRun, Steps, Read, Promote,
         SkipPromotion, Finish, Abort, Crash

LEMMA ReadLeavesNoGap ==
  ASSUME WindowInv, NEW p \in Proc, Read(p)
  PROVE  NoGap'
<1> USE ConsolidatorAssumption DEF WindowInv, RunInv
<1> DEFINE S == {e \in visible : e > proc[p].since}
<1>1. S \subseteq Episode /\ Window(proc[p].since) = Oldest(S)
  <2>1. visible \subseteq Episode
    BY Bounds DEF Typed, Episode
  <2> QED
    BY <2>1 DEF Window
<1>2. \A b \in Oldest(S), e \in Episode :
        proc[p].since < e /\ e <= b => e \in Oldest(S)
  <2> SUFFICES ASSUME NEW b \in Oldest(S), NEW e \in Episode,
                      proc[p].since < e, e <= b
               PROVE  e \in Oldest(S)
    OBVIOUS
  <2>1. b \in visible /\ b \in 1..begun
    BY SMTT(30) DEF Oldest, Typed
  <2>2. e \in visible
    BY <2>1, SMTT(30) DEF InOrder, Typed, Episode
  <2> QED
    BY <1>1, <2>2, OldestIsPrefix
<1>3. Oldest(S) \subseteq visible
  BY DEF Oldest
<1>4. /\ proc'[p].pc = "promoting" /\ proc'[p].since = proc[p].since
      /\ proc'[p].batch = Oldest(S)
      /\ \A q \in Proc : q # p => proc'[q] = proc[q]
      /\ UNCHANGED <<visible, reviewed, success>>
  BY <1>1 DEF Read, Typed, Stage
<1> HIDE DEF S
<1> QED
  BY <1>2, <1>3, <1>4 DEF NoGap, Promoted

LEMMA PassLeavesNoGap ==
  ASSUME WindowInv, NEW p \in Proc, Promote(p) \/ SkipPromotion(p)
  PROVE  NoGap'
<1> USE ConsolidatorAssumption DEF WindowInv, RunInv
<1>1. /\ proc[p] \in Stage /\ proc[p].pc = "promoting"
      /\ proc[p].since = success.anchor /\ proc[p].anchor = proc[p].since
      /\ proc[p].batch \subseteq visible /\ proc[p].batch \subseteq Episode
  BY DEF Promote, SkipPromotion, WindowOfRun, Running, NoGap, Typed, Stage
<1>2. /\ \A q \in Proc : q # p => proc'[q] = proc[q]
      /\ UNCHANGED <<visible, success>>
      /\ proc'[p].pc = "passes"
      /\ proc'[p].anchor = IF Promote(p) /\ proc[p].batch # {}
                           THEN Last(proc[p].batch) ELSE success.anchor
  BY <1>1 DEF Promote, SkipPromotion, Typed, Stage
<1>3. \A e \in Episode : Promoted(e) => Promoted(e)'
  BY PromotedStays DEF Next, Steps
<1>4. ASSUME NEW e \in Episode, e <= proc'[p].anchor
      PROVE  Promoted(e)'
  <2>1. CASE e <= success.anchor
    BY <1>3, <2>1 DEF NoGap
  <2>2. CASE ~(e <= success.anchor)
    <3>1. Promote(p) /\ proc[p].batch # {} /\ e <= Last(proc[p].batch)
      BY <1>2, <1>4, <2>2
    <3>2. Last(proc[p].batch) \in proc[p].batch
      BY <1>1, <3>1, LastIsLast
    <3>3. e > proc[p].since
      BY <1>1, <2>2 DEF Typed, Episode, Anchor
    <3>4. e \in proc[p].batch
      BY <1>1, <3>1, <3>2, <3>3 DEF NoGap
    <3>5. reviewed'[e] > 0
      BY <3>1, <3>4 DEF Promote, Reviewed, Typed
    <3> QED
      BY <1>1, <1>2, <3>4, <3>5 DEF Promoted
  <2> QED
    BY <2>1, <2>2
<1> QED
  BY <1>2, <1>3, <1>4 DEF NoGap

\* No other step widens a window or moves an anchor past it.
LEMMA OthersLeaveNoGap ==
  ASSUME WindowInv, [Next]_vars,
         \A p \in Proc : ~Read(p) /\ ~Promote(p) /\ ~SkipPromotion(p)
  PROVE  NoGap'
<1> USE ConsolidatorAssumption DEF WindowInv, RunInv
<1>1. \A e \in Episode : Promoted(e) => Promoted(e)'
  BY PromotedStays
<1>2. visible \subseteq visible'
  BY DEF Next, vars, BeginEpisode, CommitEpisode, TimePasses, IdleTick, StartRun,
         Steps, Finish, Abort, Crash
<1>3. ASSUME NEW q \in Proc, proc'[q].pc \in {"promoting", "passes"}
      PROVE  /\ proc'[q].pc = proc[q].pc /\ proc'[q].batch = proc[q].batch
             /\ proc'[q].since = proc[q].since
             /\ proc'[q].anchor = proc[q].anchor
  <2>1. AtRest.pc = "idle"
    BY DEF AtRest
  <2>2. ASSUME NEW p \in Proc, IdleTick(p) \/ StartRun(p)
        PROVE  proc'[q].pc \notin {"promoting", "passes"}
    <3>1. Swept = proc /\ proc[q].pc = "idle"
      BY <2>2, SweepSparesAll DEF IdleTick, StartRun
    <3>2. [AtRest EXCEPT !.pc = "promotion", !.row = "running",
             !.started = begun, !.since = success.anchor].pc = "promotion"
      BY DEF AtRest
    <3>3. \/ proc' = proc
          \/ proc' = [proc EXCEPT ![p] = [AtRest EXCEPT !.pc = "promotion",
               !.row = "running", !.started = begun, !.since = success.anchor]]
      BY <2>2, <3>1 DEF IdleTick, StartRun
    <3> QED
      BY <3>1, <3>2, <3>3 DEF Typed
  <2>3. ASSUME NEW p \in Proc, proc' = [proc EXCEPT ![p] = AtRest]
        PROVE  proc'[q] = proc[q]
    BY <1>3, <2>1, <2>3 DEF Typed
  <2>4. CASE TimePasses
    <3>1. proc'[q] = [proc[q] EXCEPT !.old = proc[q].row = "running"]
      BY <2>4 DEF TimePasses
    <3> QED
      BY <3>1 DEF Typed, Stage
  <2> QED
    BY <1>3, <2>2, <2>3, <2>4
       DEF Next, vars, BeginEpisode, CommitEpisode, Steps, Finish, Abort, Crash
<1>4. CASE success' = success
  <2>1. \A e \in Episode : e <= success'.anchor => Promoted(e)'
    BY <1>1, <1>4 DEF NoGap
  <2>2. ASSUME NEW q \in Proc, proc'[q].pc = "promoting"
        PROVE  /\ proc'[q].batch \subseteq visible'
               /\ \A b \in proc'[q].batch, e \in Episode :
                    proc'[q].since < e /\ e <= b => e \in proc'[q].batch
    BY <1>2, <1>3, <2>2 DEF NoGap
  <2>3. ASSUME NEW q \in Proc, proc'[q].pc = "passes"
        PROVE  \A e \in Episode : e <= proc'[q].anchor => Promoted(e)'
    BY <1>1, <1>3, <2>3 DEF NoGap
  <2> QED
    BY <2>1, <2>2, <2>3 DEF NoGap
<1>5. ASSUME NEW p \in Proc, Finish(p)
      PROVE  NoGap'
  <2>1. AtRest.pc = "idle"
    BY DEF AtRest
  <2>2. \A q \in Proc : proc'[q].pc = "idle"
    BY <1>5, <2>1, OneRunner DEF Finish, Typed, Running
  <2>3. proc[p].pc = "passes" /\ success'.anchor = proc[p].anchor
    BY <1>5 DEF Finish
  <2>4. \A e \in Episode : e <= success'.anchor => Promoted(e)'
    BY <1>1, <2>3 DEF NoGap
  <2> QED
    BY <2>2, <2>4 DEF NoGap
<1> QED
  BY <1>4, <1>5
     DEF Next, vars, BeginEpisode, CommitEpisode, TimePasses, IdleTick, StartRun,
         Steps, Abort, Crash

LEMMA WindowInvariant == ASSUME Writers = 1 PROVE Spec => []WindowInv
<1>1. Init => InOrder /\ NoGap
  <2> SUFFICES ASSUME Init
               PROVE  InOrder /\ NoGap
    OBVIOUS
  <2>1. AtRest.pc = "idle"
    BY DEF AtRest
  <2> QED
    BY <2>1 DEF Init, InOrder, NoGap, Episode
<1>2. WindowInv /\ RunInv' /\ [Next]_vars => WindowInv'
  <2> SUFFICES ASSUME WindowInv, RunInv', [Next]_vars
               PROVE  WindowInv'
    OBVIOUS
  <2>1. InOrder'
    BY OrderIsKept DEF WindowInv, RunInv
  <2>2. NoGap'
    BY ReadLeavesNoGap, PassLeavesNoGap, OthersLeaveNoGap
  <2> QED
    BY <2>1, <2>2 DEF WindowInv
<1> QED
  BY <1>1, <1>2, InitRun, RunInvInvariant, PTL DEF Spec, WindowInv

\* When one transaction at a time inserts episodes, so that they become visible
\* in the order of their created_at, the window moves past an episode only when
\* a pass has promoted it.
THEOREM WindowsSkipNothing ==
  ASSUME Writers = 1
  PROVE  Spec => []NothingSkipped
<1>1. WindowInv => NothingSkipped
  <2> SUFFICES ASSUME WindowInv, NEW e \in visible, e <= success.anchor
               PROVE  reviewed[e] > 0
    BY DEF NothingSkipped
  <2>1. e \in Episode
    BY ConsolidatorAssumption DEF WindowInv, RunInv, Typed, Episode
  <2> QED
    BY <2>1 DEF WindowInv, NoGap, Promoted
<1> QED
  BY <1>1, WindowInvariant, PTL
=============================================================================
