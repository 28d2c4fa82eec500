--------------------------- MODULE KnowledgeGraph ---------------------------
(***************************************************************************)
(* The entities of the workspace's knowledge graph and everyone who writes *)
(* them: the passes of the consolidator (kortny/consolidator/promotion.py, *)
(* passes.py), the workers that project a finished task                    *)
(* (kortny/knowledge_graph/task_summary.py, reinforcement.py) and the user *)
(* who confirms and forgets facts (kortny/memory/service.py).              *)
(*                                                                         *)
(* A pass is one transaction and one action: it may fail, and then nothing *)
(* of it is kept.  One decision of the language model is one promotion,    *)
(* one fact one reconciliation.  A worker looks its key up in one step and *)
(* writes in another, with the ORM object as it was when looked up; the    *)
(* unique index on the live rows of a key is what two workers meet.        *)
(*                                                                         *)
(* Rows are numbered in the order of their created_at.  The table keeps a  *)
(* row that is over as history; here it is forgotten, and the rows after   *)
(* it move up when its number is needed.  What the model answers, and      *)
(* which pairs are similar, is left open.                                  *)
(*                                                                         *)
(* An operator whose name starts with Mutant is no part of the model: it   *)
(* is the next definition with a plausible slip.                           *)
(***************************************************************************)
EXTENDS Integers

CONSTANTS
  FactKey,      \* canonical keys of facts: workspace_fact:<scope>:<key>
  TopicKey,     \* canonical keys of what tasks are about
  AddedKey,     \* keys the language model may give a row it adds
  Worker,
  MaxRows,      \* bound: rows of kg_entities that are not over
  MaxFacts,     \* bound: rows of workspace_state
  NoKey

ASSUME KnowledgeGraphAssumption ==
  /\ MaxRows \in Nat \ {0} /\ MaxFacts \in Nat
  /\ FactKey \cap TopicKey = {} /\ NoKey \notin FactKey \cup TopicKey \cup AddedKey

VARIABLES
  row,          \* the current rows of the table kg_entities
  evidence,     \* consensus of the evidence rows of each, up to two
  fact,         \* the active workspace_state row of each key, 0 for none
  facts,        \* workspace_state rows ever written
  worker        \* what each worker has looked up

vars == <<row, evidence, fact, facts, worker>>

Key == FactKey \cup TopicKey \cup AddedKey
Row == 1..MaxRows
Gone == MaxRows + 1                        \* a row that is over
Shown == {"active", "confirmed"}           \* CURRENT_CONTEXT_STATES
Fresh == Shown \cup {"candidate"}
State == Fresh \cup {"stale", "superseded", "none"}

TypeOK ==
  /\ row \in [Row -> [key : Key \cup {NoKey}, state : State,
                      current : BOOLEAN,       \* is_current
                      expired : BOOLEAN,       \* expired_at is set
                      confirmed : BOOLEAN,     \* the source is the user
                      fact : 0..MaxFacts,      \* attrs: workspace_state_id
                      due : BOOLEAN]]          \* past the age of its state
  /\ evidence \in [Row -> 0..2]
  /\ facts \in 0..MaxFacts
  /\ fact \in [FactKey -> 0..facts]
  /\ worker \in [Worker -> [pc : {"idle", "looked", "failed"},
                            key : TopicKey \cup {NoKey}, found : 0..Gone,
                            \* the state it will write, "none": leaves it
                            writes : {"candidate", "active", "none"}]]

Unused == [key |-> NoKey, state |-> "none", current |-> FALSE,
           expired |-> FALSE, confirmed |-> FALSE, fact |-> 0, due |-> FALSE]
Idle == [pc |-> "idle", key |-> NoKey, found |-> 0, writes |-> "none"]
Lost == [pc |-> "looked", key |-> NoKey, found |-> Gone, writes |-> "none"]

Init ==
  /\ row = [r \in Row |-> Unused] /\ evidence = [r \in Row |-> 0]
  /\ fact = [k \in FactKey |-> 0] /\ facts = 0
  /\ worker = [w \in Worker |-> Idle]
-----------------------------------------------------------------------------
(***************************************************************************)
(* Rows.                                                                   *)
(***************************************************************************)
\* What the unique index covers, and every look-up by key searches.
Live(r) == row[r].current /\ ~row[r].expired
LiveOf(k) == {r \in Row : Live(r) /\ row[r].key = k}

\* Answers to a query of the graph are made of these.
Retrievable(r) == Live(r) /\ row[r].state \in Shown

\* The table and its evidence become f and e, but for the rows that are over.
Becomes(f, e) ==
  /\ row' = [r \in Row |-> IF f[r].current THEN f[r] ELSE Unused]
  /\ evidence' = [r \in Row |-> IF f[r].current THEN e[r] ELSE 0]
  /\ worker' = [w \in Worker |->
       LET r == worker[w].found IN
       IF r \in Row /\ ~f[r].current THEN Lost ELSE worker[w]]

\* f without its value at d, the later ones moved up, and new at the end.
Closed(f, d, new) ==
  [r \in Row |-> IF r < d THEN f[r]
                 ELSE IF r < MaxRows THEN f[r + 1] ELSE new]
Moved(w, d) ==
  IF worker[w].found = d THEN Lost
  ELSE [worker[w] EXCEPT !.found = IF @ > d /\ @ < Gone THEN @ - 1 ELSE @]

New(k, state, confirmed, f) ==
  [Unused EXCEPT !.key = k, !.state = state, !.current = TRUE,
                 !.confirmed = confirmed, !.fact = f]

\* The row new and its first evidence, in the number of d.
Takes(new, d) ==
  /\ row' = Closed(row, d, new) /\ evidence' = Closed(evidence, d, 1)
  /\ worker' = [w \in Worker |-> Moved(w, d)]

\* Slip: the unique index is missing, the look-up alone must do.
MutantIndexed(k) == TRUE

\* create_entity: the unique index must allow it.
Indexed(k) == LiveOf(k) = {}
Insert(new) ==
  /\ Indexed(new.key)
  /\ \E d \in Row : ~Live(d) /\ (\A r \in Row : ~Live(r) => d <= r)
                  /\ Takes(new, d)

Capped(n) == IF n > 2 THEN 2 ELSE n
AddEvidence(r) == evidence' = [evidence EXCEPT ![r] = Capped(@ + 1)]
-----------------------------------------------------------------------------
(***************************************************************************)
(* Promotion: one decision of the language model about an episode.         *)
(***************************************************************************)
\* _apply_update: a stale row is active again, its source stays.
Update(r) ==
  /\ row' = [row EXCEPT ![r].due = FALSE,
                        ![r].state = IF @ = "stale" THEN "active" ELSE @]
  /\ AddEvidence(r)
  /\ UNCHANGED worker

Add(k) ==
  /\ \/ \E r \in LiveOf(k) : Update(r)
     \/ LiveOf(k) = {} /\ Insert(New(k, "active", FALSE, 0))
  /\ UNCHANGED <<fact, facts>>

\* UPDATE of a row the model names by its id: any that is current.
Amend(r) == row[r].current /\ Update(r) /\ UNCHANGED <<fact, facts>>

\* What the user confirmed is flagged as a conflict instead.
MayContradict(r) == row[r].current /\ ~row[r].confirmed

Over(e) == [e EXCEPT !.current = FALSE]
Invalidate(r) ==
  /\ MayContradict(r)
  /\ Becomes([row EXCEPT ![r] = Over(@)], evidence)
  /\ UNCHANGED <<fact, facts>>

\* With a replacement a successor takes the key over.
Replace(r) ==
  /\ MayContradict(r) /\ LiveOf(row[r].key) \subseteq {r}
  /\ Takes(New(row[r].key, "active", FALSE, 0), r)
  /\ UNCHANGED <<fact, facts>>

Promote ==
  \/ \E k \in AddedKey : Add(k)
  \/ \E r \in Row : Amend(r) \/ Invalidate(r) \/ Replace(r)
-----------------------------------------------------------------------------
(***************************************************************************)
(* The passes that follow.                                                 *)
(***************************************************************************)
\* Adjudication of the candidates in S, those that are old enough.
Candidates == {r \in Row : Live(r) /\ row[r].state = "candidate"}
Settled(r) == IF evidence[r] >= 2 THEN [row[r] EXCEPT !.state = "active"]
              ELSE Over(row[r])

Adjudicate(S) ==
  /\ S # {}
  /\ Becomes([r \in Row |-> IF r \in S THEN Settled(r) ELSE row[r]], evidence)
  /\ UNCHANGED <<fact, facts>>

\* Merge: pairs of rows as they were before the pass, the older one first.
Pairs == {p \in Row \X Row : p[1] < p[2] /\ \A i \in {1, 2} :
                             Live(p[i]) /\ row[p[i]].state \in Fresh}

\* supersede_entity(p[2], p[1]) ends the one and sets the other current.
Superseded(f, p) ==
  [f EXCEPT ![p[1]].current = TRUE, ![p[1]].due = FALSE,
            ![p[2]] = [Over(@) EXCEPT !.state = "superseded", !.expired = TRUE]]
\* Slip: source and target of the evidence exchanged.
MutantMovedEvidence(e, p) ==
  [e EXCEPT ![p[2]] = Capped(@ + e[p[1]]), ![p[1]] = 0]

MovedEvidence(e, p) ==
  [e EXCEPT ![p[1]] = Capped(@ + e[p[2]]), ![p[2]] = 0]

\* One pair, or two in the order the model was shown them.
Merge(p) == Becomes(Superseded(row, p), MovedEvidence(evidence, p))
MergeTwo(p, q) == Becomes(Superseded(Superseded(row, p), q),
                          MovedEvidence(MovedEvidence(evidence, p), q))
MergePass ==
  /\ \E p \in Pairs : Merge(p) \/ \E q \in Pairs \ {p} : MergeTwo(p, q)
  /\ UNCHANGED <<fact, facts>>

\* Slip: a stale row is never archived.
MutantAged(e) ==
  IF ~e.due \/ e.state = "stale" THEN e
  ELSE [e EXCEPT !.state = "stale", !.due = FALSE]

\* Aging: what was not reinforced for long turns stale, what has been stale
\* for long is archived.
Aged(e) ==
  IF ~e.due THEN e
  ELSE IF e.state = "stale" THEN Over(e)
  ELSE [e EXCEPT !.state = "stale", !.due = FALSE]

AgeGraph ==
  /\ \E r \in Row : row[r].due
  /\ Becomes([r \in Row |-> Aged(row[r])], evidence)
  /\ UNCHANGED <<fact, facts>>

\* Fact reconciliation of one key.  The state of a row that is refreshed
\* stays as it is, and so does its source.
Refresh(r, k) ==
  /\ row[r].fact # fact[k]
  /\ row' = [row EXCEPT ![r].fact = fact[k], ![r].due = FALSE]
  /\ AddEvidence(r)
  /\ UNCHANGED worker

ProjectFact(k) ==
  /\ fact[k] # 0
  /\ \/ \E r \in LiveOf(k) : Refresh(r, k)
     \/ LiveOf(k) = {} /\ Insert(New(k, "confirmed", TRUE, fact[k]))
  /\ UNCHANGED <<fact, facts>>
-----------------------------------------------------------------------------
(***************************************************************************)
(* Users, and workers that have delivered an answer.                       *)
(***************************************************************************)
\* confirm and set_active supersede the active row of the key.
Confirm(k) ==
  /\ facts < MaxFacts
  /\ facts' = facts + 1 /\ fact' = [fact EXCEPT ![k] = facts + 1]
  /\ UNCHANGED <<row, evidence, worker>>

\* forget; a fact that expires goes the same way.
Forget(k) ==
  /\ fact[k] # 0
  /\ fact' = [fact EXCEPT ![k] = 0]
  /\ UNCHANGED <<row, evidence, facts, worker>>

\* The rows a query returned to the agent are reinforced.
Reinforce(r) ==
  /\ Retrievable(r)
  /\ row' = [row EXCEPT ![r].due = FALSE]
  /\ AddEvidence(r)
  /\ UNCHANGED <<fact, facts, worker>>

\* project_task_summary: the look-up by key of _upsert_entity.  A flush
\* writes the state only if it differs from the one that was loaded.
LookUp(w, k, proposed) ==
  /\ worker[w].pc = "idle"
  /\ \E r \in IF LiveOf(k) = {} THEN {0} ELSE LiveOf(k) :
       worker' = [worker EXCEPT ![w] =
         [pc |-> "looked", key |-> k, found |-> r,
          writes |-> IF r # 0 /\ row[r].state \in {"confirmed", proposed}
                     THEN "none" ELSE proposed]]
  /\ UNCHANGED <<row, evidence, fact, facts>>

\* _reinforce_entity writes by id; nobody reads what a row that is over gets.
PutFound(w) ==
  LET me == worker[w] r == me.found IN
  /\ r # 0
  /\ IF r = Gone THEN UNCHANGED <<row, evidence>>
     ELSE /\ row' = [row EXCEPT ![r].due = FALSE, ![r].state =
                       IF me.writes = "none" THEN @ ELSE me.writes]
          /\ AddEvidence(r)
  /\ worker' = [worker EXCEPT ![w] = Idle]

PutNew(w) ==
  LET me == worker[w] IN
  /\ me.found = 0 /\ Indexed(me.key)
  /\ \E d \in Row :
       /\ ~Live(d) /\ \A r \in Row : ~Live(r) => d <= r
       /\ row' = Closed(row, d, New(me.key, me.writes, FALSE, 0))
       /\ evidence' = Closed(evidence, d, 1)
       /\ worker' = [v \in Worker |-> IF v = w THEN Idle ELSE Moved(v, d)]

\* The index refuses the row: the transaction can only be rolled back, the
\* handler that would log the error fails as well, and so does the run.
Trip(w) ==
  /\ worker[w].found = 0 /\ ~Indexed(worker[w].key)
  /\ worker' = [worker EXCEPT ![w] = [Idle EXCEPT !.pc = "failed"]]
  /\ UNCHANGED <<row, evidence>>

Put(w) ==
  /\ worker[w].pc = "looked"
  /\ PutFound(w) \/ PutNew(w) \/ Trip(w)
  /\ UNCHANGED <<fact, facts>>

\* The worker takes another task.
Again(w) ==
  /\ worker[w].pc = "failed"
  /\ worker' = [worker EXCEPT ![w] = Idle]
  /\ UNCHANGED <<row, evidence, fact, facts>>

\* The window of a row's state passes without a reinforcement.
Lapse(r) ==
  /\ Live(r) /\ ~row[r].due
  /\ row' = [row EXCEPT ![r].due = TRUE]
  /\ UNCHANGED <<evidence, fact, facts, worker>>
-----------------------------------------------------------------------------
Next ==
  \/ Promote
  \/ \E S \in SUBSET Candidates : Adjudicate(S)
  \/ MergePass
  \/ AgeGraph
  \/ \E k \in FactKey : ProjectFact(k) \/ Confirm(k) \/ Forget(k)
  \/ \E r \in Row : Reinforce(r) \/ Lapse(r)
  \/ \E w \in Worker :
       \/ \E k \in TopicKey, s \in {"candidate", "active"} : LookUp(w, k, s)
       \/ Put(w) \/ Again(w)

Spec == Init /\ [][Next]_vars

\* The consolidator runs again and again, a pass succeeds in the end, and
\* time passes.
FairSpec ==
  /\ Spec
  /\ \A k \in FactKey : WF_vars(ProjectFact(k))
  /\ \A r \in Row : WF_vars(Lapse(r))
  /\ WF_vars(AgeGraph)
-----------------------------------------------------------------------------
(***************************************************************************)
(* Properties.                                                             *)
(***************************************************************************)
\* A key has one live row, whoever looks up and inserts at the same time
\* and whichever row a merge sets current again.
OneLivePerKey ==
  \A r, q \in Row : Live(r) /\ Live(q) /\ row[r].key = row[q].key => r = q

\* What a query returns always has a source, whatever was merged into what.
ShownHasEvidence == \A r \in Row : Retrievable(r) => evidence[r] > 0

\* A fact the user confirmed, and neither replaced nor forgot, can be
\* retrieved from the graph in the end.
FactReachesGraph ==
  \A k \in FactKey, i \in 1..MaxFacts :
    fact[k] = i ~> \/ fact[k] # i
                   \/ \E r \in Row : Retrievable(r) /\ row[r].key = k
                                     /\ row[r].fact = i

\* What the user confirmed is never invalidated by the language model
\* (promotion.py:5-8), neither by a decision nor by a merge.
ConfirmedOutranks ==
  [][Promote \/ MergePass => \A k \in Key :
       (\E r \in LiveOf(k) : row[r].confirmed)
       => (\E r \in LiveOf(k) : row[r].confirmed)']_vars

\* Growing the graph from an answer never fails the task that was answered
\* (worker/agent_executor.py:3264, "best-effort").
GrowthIsBestEffort == \A w \in Worker : worker[w].pc # "failed"
=============================================================================
