------------------------ MODULE KnowledgeGraphProofs ------------------------
(***************************************************************************)
(* Theorems about KnowledgeGraph, for any keys, any number of workers,     *)
(* rows and facts.                                                         *)
(***************************************************************************)
EXTENDS KnowledgeGraph, TLAPS

Entity == [key : Key \cup {NoKey}, state : State, current : BOOLEAN,
           expired : BOOLEAN, confirmed : BOOLEAN, fact : 0..MaxFacts,
           due : BOOLEAN]
Seen == [pc : {"idle", "looked", "failed"}, key : TopicKey \cup {NoKey},
         found : 0..Gone, writes : {"candidate", "active", "none"}]

RowsTyped == row \in [Row -> Entity] /\ evidence \in [Row -> 0..2]
FactsTyped == facts \in 0..MaxFacts /\ fact \in [FactKey -> 0..facts]
SeenTyped == worker \in [Worker -> Seen]

\* Stronger than ShownHasEvidence: it holds of candidates and stale rows too.
LiveHasEvidence == \A r \in Row : Live(r) => evidence[r] > 0

GraphInv ==
  RowsTyped /\ FactsTyped /\ SeenTyped /\ OneLivePerKey /\ LiveHasEvidence

-----------------------------------------------------------------------------
(***************************************************************************)
(* What the helpers return.                                                *)
(***************************************************************************)
\* The bounds are numbers.
LEMMA Bounds == MaxRows \in Nat /\ MaxRows >= 1 /\ MaxFacts \in Nat
BY KnowledgeGraphAssumption

LEMMA UnusedIsEntity == Unused \in Entity /\ ~Unused.current
BY Bounds DEF Unused, Entity, State, Fresh, Shown

LEMMA NewIsEntity ==
  ASSUME NEW k \in Key \cup {NoKey}, NEW s \in State, NEW c \in BOOLEAN,
         NEW f \in 0..MaxFacts
  PROVE  New(k, s, c, f) \in Entity /\ New(k, s, c, f).key = k
<1>1. Unused \in Entity
  BY UnusedIsEntity
<1> QED
  BY <1>1 DEF New, Entity

LEMMA IdleIsSeen ==
  /\ Idle \in Seen /\ Lost \in Seen
  /\ [Idle EXCEPT !.pc = "failed"] \in Seen
<1>1. Idle \in Seen /\ Lost \in Seen
  BY Bounds DEF Idle, Lost, Seen, Gone
<1> QED
  BY <1>1 DEF Seen

\* A worker whose row moved up has its new number, or none.
LEMMA MovedIsSeen ==
  ASSUME SeenTyped, NEW w \in Worker, NEW d \in Row
  PROVE  Moved(w, d) \in Seen
<1>1. worker[w] \in Seen
  BY DEF SeenTyped
<1>2. CASE worker[w].found = d
  BY <1>2, IdleIsSeen DEF Moved
<1>3. CASE worker[w].found # d
  <2> DEFINE n == IF worker[w].found > d /\ worker[w].found < Gone
                  THEN worker[w].found - 1 ELSE worker[w].found
  <2>1. worker[w].found \in 0..Gone /\ d \in 1..MaxRows /\ Gone \in Nat
    BY <1>1, Bounds DEF Seen, Row, Gone
  <2>2. n \in 0..Gone
    BY <2>1
  <2>3. Moved(w, d) = [worker[w] EXCEPT !.found = n]
    BY <1>3 DEF Moved
  <2> HIDE DEF n
  <2> QED
    BY <1>1, <2>2, <2>3 DEF Seen
<1> QED
  BY <1>2, <1>3

-----------------------------------------------------------------------------
(***************************************************************************)
(* The two ways in which a table changes.                                  *)
(***************************************************************************)
\* No row comes to life or changes its key, and the live ones keep evidence.
LEMMA NothingRevived ==
  ASSUME GraphInv, RowsTyped',
         \A r \in Row : Live(r)' => /\ Live(r) /\ row'[r].key = row[r].key
                                    /\ evidence'[r] > 0
  PROVE  OneLivePerKey' /\ LiveHasEvidence'
BY DEF GraphInv, OneLivePerKey, LiveHasEvidence

\* A new row takes the place of d, when no other live row has its key.
LEMMA NewRow ==
  ASSUME GraphInv, NEW d \in Row, NEW new \in Entity,
         LiveOf(new.key) \subseteq {d},
         row' = Closed(row, d, new), evidence' = Closed(evidence, d, 1)
  PROVE  RowsTyped' /\ OneLivePerKey' /\ LiveHasEvidence'
<1> DEFINE Before(r) == IF r < d THEN r ELSE r + 1
<1>1. /\ d \in 1..MaxRows /\ MaxRows \in Nat
      /\ \A r \in Row : r \in 1..MaxRows
  BY Bounds DEF Row
<1>2. \A r \in Row : r # MaxRows => Before(r) \in Row /\ Before(r) # d
  BY <1>1 DEF Row
<1>3. \A r \in Row : r # MaxRows => /\ row'[r] = row[Before(r)]
                                    /\ evidence'[r] = evidence[Before(r)]
  <2> SUFFICES ASSUME NEW r \in Row, r # MaxRows
               PROVE  /\ row'[r] = row[Before(r)]
                      /\ evidence'[r] = evidence[Before(r)]
    OBVIOUS
  <2>1. r < MaxRows
    BY <1>1
  <2> QED
    BY <2>1 DEF Closed
<1>4. row'[MaxRows] = new /\ evidence'[MaxRows] = 1 /\ MaxRows \in Row
  <2>1. MaxRows \in Row /\ ~(MaxRows < d) /\ ~(MaxRows < MaxRows)
    BY <1>1, Bounds DEF Row
  <2> QED
    BY <2>1 DEF Closed
<1>5. RowsTyped'
  <2>1. \A r \in Row : row'[r] \in Entity /\ evidence'[r] \in 0..2
    BY <1>2, <1>3, <1>4 DEF GraphInv, RowsTyped
  <2>2. /\ row' = [r \in Row |-> row'[r]]
        /\ evidence' = [r \in Row |-> evidence'[r]]
    BY DEF Closed
  <2> QED
    BY <2>1, <2>2 DEF RowsTyped
<1>6. \A r \in Row : r # MaxRows => (Live(r)' <=> Live(Before(r)))
  BY <1>3 DEF Live
<1>7. LiveHasEvidence'
  BY <1>2, <1>3, <1>4, <1>6 DEF GraphInv, LiveHasEvidence
<1>8. OneLivePerKey'
  <2> SUFFICES ASSUME NEW r \in Row, NEW q \in Row, Live(r)', Live(q)',
                      row'[r].key = row'[q].key, r # q
               PROVE  FALSE
    BY DEF OneLivePerKey
  <2>1. CASE r # MaxRows /\ q # MaxRows
    <3>1. Before(r) = Before(q)
      BY <1>2, <1>3, <1>6, <2>1 DEF GraphInv, OneLivePerKey
    <3> QED
      BY <1>1, <3>1
  <2>2. ASSUME NEW x \in Row, x # MaxRows, Live(x)', row'[x].key = new.key
        PROVE  FALSE
    <3>1. Before(x) \in LiveOf(new.key)
      BY <1>2, <1>3, <1>6, <2>2 DEF LiveOf
    <3> QED
      BY <1>2, <2>2, <3>1
  <2> QED
    BY <1>4, <2>1, <2>2
<1> QED
  BY <1>5, <1>7, <1>8

\* Everybody's number is put right.
LEMMA TakesKeepsGraph ==
  ASSUME GraphInv, NEW d \in Row, NEW new \in Entity,
         LiveOf(new.key) \subseteq {d}, Takes(new, d), UNCHANGED <<fact, facts>>
  PROVE  GraphInv'
<1>1. RowsTyped' /\ OneLivePerKey' /\ LiveHasEvidence'
  BY NewRow DEF Takes
<1>2. SeenTyped'
  BY MovedIsSeen DEF Takes, GraphInv, SeenTyped
<1> QED
  BY <1>1, <1>2 DEF GraphInv, FactsTyped

LEMMA InsertKeepsGraph ==
  ASSUME GraphInv, NEW new \in Entity, Insert(new), UNCHANGED <<fact, facts>>
  PROVE  GraphInv'
<1>1. LiveOf(new.key) = {}
  BY DEF Insert, Indexed
<1> QED
  BY <1>1, TakesKeepsGraph DEF Insert

\* A table without the rows that are over.
LEMMA BecomesKeepsGraph ==
  ASSUME GraphInv, NEW f \in [Row -> Entity], NEW e \in [Row -> 0..2],
         \A r \in Row : f[r].current /\ ~f[r].expired =>
           Live(r) /\ f[r].key = row[r].key /\ e[r] > 0,
         Becomes(f, e), UNCHANGED <<fact, facts>>
  PROVE  GraphInv'
<1>1. /\ row' = [r \in Row |-> IF f[r].current THEN f[r] ELSE Unused]
      /\ evidence' = [r \in Row |-> IF f[r].current THEN e[r] ELSE 0]
  BY DEF Becomes
<1>2. RowsTyped'
  BY <1>1, UnusedIsEntity DEF RowsTyped
<1>3. \A r \in Row : Live(r)' => /\ Live(r) /\ row'[r].key = row[r].key
                                 /\ evidence'[r] > 0
  BY <1>1, UnusedIsEntity DEF Live
<1>4. OneLivePerKey' /\ LiveHasEvidence'
  BY <1>2, <1>3, NothingRevived
<1>5. SeenTyped'
  <2>1. \A w \in Worker : worker'[w] \in {Lost, worker[w]}
    BY DEF Becomes
  <2>2. worker' = [w \in Worker |-> worker'[w]]
    BY DEF Becomes
  <2> QED
    BY <2>1, <2>2, IdleIsSeen DEF GraphInv, SeenTyped
<1> QED
  BY <1>2, <1>4, <1>5 DEF GraphInv, FactsTyped

\* One row is written, without new life or a new key, and gets evidence.
LEMMA WriteKeepsGraph ==
  ASSUME GraphInv, NEW r \in Row, NEW new \in Entity,
         new.key = row[r].key, new.current = row[r].current,
         new.expired = row[r].expired,
         row' = [row EXCEPT ![r] = new],
         AddEvidence(r) \/ evidence' = evidence, SeenTyped',
         UNCHANGED <<fact, facts>>
  PROVE  GraphInv'
<1>1. evidence' \in [Row -> 0..2] /\ \A q \in Row : evidence'[q] >= evidence[q]
  BY DEF AddEvidence, Capped, GraphInv, RowsTyped
<1>2. RowsTyped'
  BY <1>1 DEF GraphInv, RowsTyped
<1>3. \A q \in Row : Live(q)' => /\ Live(q) /\ row'[q].key = row[q].key
                                 /\ evidence'[q] > 0
  <2> SUFFICES ASSUME NEW q \in Row, Live(q)'
               PROVE  Live(q) /\ row'[q].key = row[q].key /\ evidence'[q] > 0
    OBVIOUS
  <2>1. Live(q) /\ row'[q].key = row[q].key
    BY DEF Live, GraphInv, RowsTyped
  <2>2. evidence[q] \in 0..2 /\ evidence'[q] \in 0..2 /\ evidence[q] > 0
    BY <1>1, <2>1 DEF GraphInv, RowsTyped, LiveHasEvidence
  <2> QED
    BY <1>1, <2>1, <2>2
<1> QED
  BY <1>2, <1>3, NothingRevived DEF GraphInv, FactsTyped

-----------------------------------------------------------------------------
(***************************************************************************)
(* The invariant is inductive.                                             *)
(***************************************************************************)
LEMMA InitGraph == Init => GraphInv
<1> SUFFICES ASSUME Init
             PROVE  GraphInv
  OBVIOUS
<1>1. RowsTyped /\ SeenTyped
  BY UnusedIsEntity, IdleIsSeen DEF Init, RowsTyped, SeenTyped
<1>2. FactsTyped
  BY Bounds DEF Init, FactsTyped
<1>3. \A r \in Row : ~Live(r)
  BY UnusedIsEntity DEF Init, Live
<1> QED
  BY <1>1, <1>2, <1>3 DEF GraphInv, OneLivePerKey, LiveHasEvidence

LEMMA UpdateKeepsGraph ==
  ASSUME GraphInv, NEW r \in Row, Update(r), UNCHANGED <<fact, facts>>
  PROVE  GraphInv'
<1> DEFINE s == IF row[r].state = "stale" THEN "active" ELSE row[r].state
           new == [row[r] EXCEPT !.due = FALSE, !.state = s]
<1>1. row[r] \in Entity
  BY DEF GraphInv, RowsTyped
<1>2. s \in State
  BY <1>1 DEF Entity, State, Fresh, Shown
<1>3. row' = [row EXCEPT ![r] = new]
  BY <1>1 DEF Update, GraphInv, RowsTyped, Entity
<1> HIDE DEF s
<1>4. /\ new \in Entity /\ new.key = row[r].key
      /\ new.current = row[r].current /\ new.expired = row[r].expired
  BY <1>1, <1>2 DEF Entity
<1>5. SeenTyped'
  BY DEF Update, GraphInv, SeenTyped
<1> HIDE DEF new
<1> QED
  BY <1>3, <1>4, <1>5, WriteKeepsGraph DEF Update

\* A decision of the language model.
LEMMA PromoteKeepsGraph == ASSUME GraphInv, Promote PROVE GraphInv'
<1>1. ASSUME NEW k \in AddedKey, Add(k)
      PROVE  GraphInv'
  <2>1. ASSUME NEW r \in LiveOf(k), Update(r)
        PROVE  GraphInv'
    BY <1>1, <2>1, UpdateKeepsGraph DEF Add, LiveOf
  <2>2. CASE Insert(New(k, "active", FALSE, 0))
    <3>1. New(k, "active", FALSE, 0) \in Entity
      <4>1. k \in Key \cup {NoKey} /\ "active" \in State /\ 0 \in 0..MaxFacts
        BY Bounds DEF Key, State, Fresh, Shown
      <4> QED
        BY <4>1, NewIsEntity
    <3> QED
      BY <1>1, <2>2, <3>1, InsertKeepsGraph DEF Add
  <2> QED
    BY <1>1, <2>1, <2>2 DEF Add
<1>2. ASSUME NEW r \in Row, Amend(r)
      PROVE  GraphInv'
  BY <1>2, UpdateKeepsGraph DEF Amend
<1>3. ASSUME NEW r \in Row, Invalidate(r)
      PROVE  GraphInv'
  <2> DEFINE f == [row EXCEPT ![r] = Over(@)]
  <2>1. row \in [Row -> Entity] /\ evidence \in [Row -> 0..2]
    BY DEF GraphInv, RowsTyped
  <2>2. Over(row[r]) \in Entity /\ ~Over(row[r]).current
    BY <2>1 DEF Over, Entity
  <2>3. f \in [Row -> Entity]
    BY <2>1, <2>2
  <2>4. \A q \in Row : f[q].current /\ ~f[q].expired =>
          Live(q) /\ f[q].key = row[q].key /\ evidence[q] > 0
    BY <2>1, <2>2 DEF Live, GraphInv, LiveHasEvidence
  <2>5. Becomes(f, evidence) /\ UNCHANGED <<fact, facts>>
    BY <1>3 DEF Invalidate
  <2> HIDE DEF f
  <2> QED
    BY <2>1, <2>3, <2>4, <2>5, BecomesKeepsGraph
<1>4. ASSUME NEW r \in Row, Replace(r)
      PROVE  GraphInv'
  <2> DEFINE new == New(row[r].key, "active", FALSE, 0)
  <2>1. new \in Entity /\ new.key = row[r].key
    <3>1. row[r].key \in Key \cup {NoKey} /\ "active" \in State
          /\ 0 \in 0..MaxFacts
      BY Bounds DEF GraphInv, RowsTyped, Entity, State, Fresh, Shown
    <3> QED
      BY <3>1, NewIsEntity
  <2>2. /\ LiveOf(row[r].key) \subseteq {r} /\ Takes(new, r)
        /\ UNCHANGED <<fact, facts>>
    BY <1>4 DEF Replace
  <2> HIDE DEF new
  <2> QED
    BY <2>1, <2>2, TakesKeepsGraph
<1> QED
  BY <1>1, <1>2, <1>3, <1>4 DEF Promote

LEMMA AdjudicateKeepsGraph ==
  ASSUME GraphInv, NEW S \in SUBSET Candidates, Adjudicate(S)
  PROVE  GraphInv'
<1> DEFINE f == [r \in Row |-> IF r \in S THEN Settled(r) ELSE row[r]]
<1>1. row \in [Row -> Entity] /\ evidence \in [Row -> 0..2]
  BY DEF GraphInv, RowsTyped
<1>2. ASSUME NEW r \in Row
      PROVE  /\ Settled(r) \in Entity /\ Settled(r).key = row[r].key
             /\ Settled(r).expired = row[r].expired
             /\ Settled(r).current => row[r].current
  <2>1. row[r] \in Entity /\ "active" \in State
    BY <1>1 DEF State, Fresh, Shown
  <2>2. /\ [row[r] EXCEPT !.state = "active"] \in Entity
        /\ Over(row[r]) \in Entity
    BY <2>1 DEF Entity, Over
  <2> QED
    BY <2>1, <2>2 DEF Settled, Entity, Over
<1>3. f \in [Row -> Entity]
  BY <1>1, <1>2
<1>4. \A r \in Row : f[r].current /\ ~f[r].expired =>
        Live(r) /\ f[r].key = row[r].key /\ evidence[r] > 0
  BY <1>2 DEF Live, GraphInv, LiveHasEvidence
<1>5. Becomes(f, evidence) /\ UNCHANGED <<fact, facts>>
  BY DEF Adjudicate
<1> HIDE DEF f
<1> QED
  BY <1>1, <1>3, <1>4, <1>5, BecomesKeepsGraph

LEMMA AgeKeepsGraph == ASSUME GraphInv, AgeGraph PROVE GraphInv'
<1> DEFINE f == [r \in Row |-> Aged(row[r])]
<1>1. row \in [Row -> Entity] /\ evidence \in [Row -> 0..2]
  BY DEF GraphInv, RowsTyped
<1>2. ASSUME NEW e \in Entity
      PROVE  /\ Aged(e) \in Entity /\ Aged(e).key = e.key
             /\ Aged(e).expired = e.expired /\ (Aged(e).current => e.current)
  <2>1. /\ Over(e) \in Entity
        /\ [e EXCEPT !.state = "stale", !.due = FALSE] \in Entity
    BY DEF Entity, Over, State
  <2> QED
    BY <2>1 DEF Aged, Entity, Over
<1>3. f \in [Row -> Entity]
  BY <1>1, <1>2
<1>4. \A r \in Row : f[r].current /\ ~f[r].expired =>
        Live(r) /\ f[r].key = row[r].key /\ evidence[r] > 0
  BY <1>1, <1>2 DEF Live, GraphInv, LiveHasEvidence
<1>5. Becomes(f, evidence) /\ UNCHANGED <<fact, facts>>
  BY DEF AgeGraph
<1> HIDE DEF f
<1> QED
  BY <1>1, <1>3, <1>4, <1>5, BecomesKeepsGraph

\* One pair of a merge, in the table f with evidence e that the pairs before it
\* have left: the source ends for good, nothing that had ended comes back.
Sound(f, e) ==
  /\ f \in [Row -> Entity] /\ e \in [Row -> 0..2]
  /\ \A r \in Row : f[r].current /\ ~f[r].expired =>
                      Live(r) /\ f[r].key = row[r].key /\ e[r] > 0
  /\ \A r \in Row : ~f[r].expired => f[r].key = row[r].key

LEMMA MergeIsSound ==
  ASSUME NEW f, NEW e, Sound(f, e), NEW p \in Pairs,
         ~f[p[1]].expired => Live(p[1]) /\ e[p[1]] > 0
  PROVE  Sound(Superseded(f, p), MovedEvidence(e, p))
<1>1. /\ f \in [Row -> Entity] /\ e \in [Row -> 0..2]
      /\ p[1] \in Row /\ p[2] \in Row /\ p[1] # p[2]
  BY Bounds DEF Sound, Pairs, Row
<1> DEFINE to == [f[p[1]] EXCEPT !.current = TRUE, !.due = FALSE]
           from == [Over(f[p[2]]) EXCEPT !.state = "superseded", !.expired = TRUE]
           n == Capped(e[p[1]] + e[p[2]])
<1>2. /\ to \in Entity /\ to.expired = f[p[1]].expired
      /\ to.key = f[p[1]].key
  BY <1>1 DEF Entity
<1>3. from \in Entity /\ ~from.current /\ from.expired
  <2> DEFINE o == Over(f[p[2]])
  <2>1. o \in Entity /\ ~o.current
    <3>1. \A x \in Entity : Over(x) \in Entity /\ ~Over(x).current
      BY DEF Over, Entity
    <3> QED
      BY <1>1, <3>1
  <2>2. from = [o EXCEPT !.state = "superseded", !.expired = TRUE]
    OBVIOUS
  <2>3. "superseded" \in State
    BY DEF State
  <2> HIDE DEF o, from
  <2> QED
    BY <2>1, <2>2, <2>3, ZenonT(30) DEF Entity
<1>4. n \in 0..2 /\ n >= e[p[1]]
  BY <1>1, SMTT(30) DEF Capped
<1>5. Superseded(f, p) = [[f EXCEPT ![p[1]] = to] EXCEPT ![p[2]] = from]
  BY <1>1, ZenonT(30) DEF Superseded, Entity
<1>6. MovedEvidence(e, p) = [[e EXCEPT ![p[1]] = n] EXCEPT ![p[2]] = 0]
  BY <1>1 DEF MovedEvidence
<1> DEFINE g == Superseded(f, p)
           h == MovedEvidence(e, p)
<1> HIDE DEF to, from, n
<1>7. g \in [Row -> Entity] /\ h \in [Row -> 0..2]
  BY <1>1, <1>2, <1>3, <1>4, <1>5, <1>6
<1>8. /\ g[p[1]] = to /\ h[p[1]] = n /\ g[p[2]] = from
      /\ \A r \in Row \ {p[1], p[2]} : g[r] = f[r] /\ h[r] = e[r]
  BY <1>1, <1>5, <1>6
<1> HIDE DEF g, h
<1>9. ASSUME NEW r \in Row, g[r].current, ~g[r].expired
      PROVE  Live(r) /\ g[r].key = row[r].key /\ h[r] > 0
  <2>1. CASE r = p[1]
    <3>1. ~f[p[1]].expired
      BY <1>2, <1>8, <1>9, <2>1
    <3>2. Live(r) /\ e[r] > 0 /\ e[r] \in 0..2 /\ n \in 0..2 /\ n >= e[r]
      BY <1>1, <1>4, <2>1, <3>1
    <3> QED
      BY <1>1, <1>2, <1>8, <2>1, <3>1, <3>2 DEF Sound
  <2>2. CASE r # p[1]
    BY <1>3, <1>8, <1>9, <2>2 DEF Sound
  <2> QED
    BY <2>1, <2>2
<1>10. \A r \in Row : ~g[r].expired => g[r].key = row[r].key
  BY <1>2, <1>3, <1>8 DEF Sound
<1> QED
  BY <1>7, <1>9, <1>10 DEF Sound, g, h

LEMMA MergeKeepsGraph == ASSUME GraphInv, MergePass PROVE GraphInv'
<1>1. Sound(row, evidence)
  BY DEF Sound, GraphInv, RowsTyped, Live, LiveHasEvidence
<1>2. ASSUME NEW f, NEW e, Sound(f, e), Becomes(f, e)
      PROVE  GraphInv'
  <2>1. UNCHANGED <<fact, facts>>
    BY DEF MergePass
  <2> QED
    BY <1>2, <2>1, BecomesKeepsGraph DEF Sound
<1>3. ASSUME NEW p \in Pairs
      PROVE  /\ Live(p[1]) /\ evidence[p[1]] > 0 /\ p[1] \in Row
             /\ Sound(Superseded(row, p), MovedEvidence(evidence, p))
  <2>1. Live(p[1]) /\ evidence[p[1]] > 0 /\ p[1] \in Row
    BY DEF Pairs, GraphInv, LiveHasEvidence
  <2> QED
    BY <1>1, <2>1, MergeIsSound
<1>4. ASSUME NEW p \in Pairs, NEW q \in Pairs
      PROVE  Sound(Superseded(Superseded(row, p), q),
                   MovedEvidence(MovedEvidence(evidence, p), q))
  <2> DEFINE f == Superseded(row, p)
             e == MovedEvidence(evidence, p)
  <2>1. Sound(f, e)
    BY <1>3
  <2>2. f[q[1]].expired \/ e[q[1]] > 0
    <3>1. /\ p[1] \in Row /\ p[2] \in Row /\ q[1] \in Row
          /\ row \in [Row -> Entity] /\ evidence \in [Row -> 0..2]
      BY DEF Pairs, GraphInv, RowsTyped
    <3>2. CASE q[1] = p[2]
      <4>1. f[p[2]] = [Over(row[p[2]]) EXCEPT !.state = "superseded",
                                              !.expired = TRUE]
        BY <3>1 DEF Superseded
      <4>2. row[p[2]] \in Entity
        BY <3>1
      <4>3. Over(row[p[2]]) \in Entity
        BY <4>2 DEF Over, Entity
      <4> QED
        BY <3>2, <4>1, <4>3 DEF Entity
    <3>3. CASE q[1] # p[2]
      <4>1. e[q[1]] \in {Capped(evidence[p[1]] + evidence[p[2]]), evidence[q[1]]}
            /\ (q[1] # p[1] => e[q[1]] = evidence[q[1]])
        BY <3>1, <3>3 DEF MovedEvidence
      <4>2. evidence[q[1]] > 0 /\ evidence[p[1]] > 0
        BY <1>3
      <4> QED
        BY <3>1, <4>1, <4>2 DEF Capped
    <3> QED
      BY <3>2, <3>3
  <2>3. Live(q[1])
    BY <1>3
  <2> HIDE DEF f, e
  <2>4. Sound(Superseded(f, q), MovedEvidence(e, q))
    BY <2>1, <2>2, <2>3, MergeIsSound
  <2> QED
    BY <2>4 DEF f, e
<1> QED
  BY <1>2, <1>3, <1>4 DEF MergePass, Merge, MergeTwo

LEMMA ProjectKeepsGraph ==
  ASSUME GraphInv, NEW k \in FactKey, ProjectFact(k)
  PROVE  GraphInv'
<1>1. UNCHANGED <<fact, facts>> /\ fact[k] \in 0..MaxFacts
  BY Bounds DEF ProjectFact, GraphInv, FactsTyped
<1>2. ASSUME NEW r \in LiveOf(k), Refresh(r, k)
      PROVE  GraphInv'
  <2> DEFINE new == [row[r] EXCEPT !.fact = fact[k], !.due = FALSE]
  <2>1. r \in Row /\ row[r] \in Entity
    BY DEF LiveOf, GraphInv, RowsTyped
  <2>2. row' = [row EXCEPT ![r] = new]
    BY <1>2, <2>1 DEF Refresh, GraphInv, RowsTyped, Entity
  <2>3. /\ new \in Entity /\ new.key = row[r].key
        /\ new.current = row[r].current /\ new.expired = row[r].expired
    BY <1>1, <2>1 DEF Entity
  <2>4. SeenTyped' /\ AddEvidence(r)
    BY <1>2 DEF Refresh, GraphInv, SeenTyped
  <2> HIDE DEF new
  <2> QED
    BY <1>1, <2>1, <2>2, <2>3, <2>4, WriteKeepsGraph
<1>3. CASE Insert(New(k, "confirmed", TRUE, fact[k]))
  <2>1. New(k, "confirmed", TRUE, fact[k]) \in Entity
    <3>1. k \in Key \cup {NoKey} /\ "confirmed" \in State
      BY DEF Key, State, Fresh, Shown
    <3> QED
      BY <1>1, <3>1, NewIsEntity
  <2> QED
    BY <1>1, <1>3, <2>1, InsertKeepsGraph
<1> QED
  BY <1>2, <1>3 DEF ProjectFact

\* Users, time, and rows that were retrieved.
LEMMA UsersKeepGraph ==
  ASSUME GraphInv, NEW k \in FactKey, Confirm(k) \/ Forget(k)
  PROVE  GraphInv'
<1>1. FactsTyped'
  BY Bounds DEF Confirm, Forget, GraphInv, FactsTyped
<1>2. UNCHANGED <<row, evidence, worker>>
  BY DEF Confirm, Forget
<1> QED
  BY <1>1, <1>2 DEF GraphInv, RowsTyped, SeenTyped, OneLivePerKey,
                    LiveHasEvidence, Live

LEMMA DueKeepsGraph ==
  ASSUME GraphInv, NEW r \in Row, Reinforce(r) \/ Lapse(r)
  PROVE  GraphInv'
<1>1. PICK b \in BOOLEAN : row' = [row EXCEPT ![r].due = b]
  BY DEF Reinforce, Lapse
<1> DEFINE new == [row[r] EXCEPT !.due = b]
<1>2. row[r] \in Entity
  BY DEF GraphInv, RowsTyped
<1>3. /\ new \in Entity /\ new.key = row[r].key
      /\ new.current = row[r].current /\ new.expired = row[r].expired
  BY <1>2 DEF Entity
<1>4. row' = [row EXCEPT ![r] = new]
  BY <1>1
<1>5. /\ SeenTyped' /\ UNCHANGED <<fact, facts>>
      /\ AddEvidence(r) \/ evidence' = evidence
  BY DEF Reinforce, Lapse, GraphInv, SeenTyped
<1> HIDE DEF new
<1> QED
  BY <1>3, <1>4, <1>5, WriteKeepsGraph

\* Workers.
LEMMA LookUpKeepsGraph ==
  ASSUME GraphInv, NEW w \in Worker, NEW k \in TopicKey,
         NEW s \in {"candidate", "active"}, LookUp(w, k, s)
  PROVE  GraphInv'
<1>1. PICK r \in IF LiveOf(k) = {} THEN {0} ELSE LiveOf(k) :
        worker' = [worker EXCEPT ![w] =
          [pc |-> "looked", key |-> k, found |-> r,
           writes |-> IF r # 0 /\ row[r].state \in {"confirmed", s}
                      THEN "none" ELSE s]]
  BY DEF LookUp
<1>2. r \in 0..Gone
  BY Bounds DEF LiveOf, Row, Gone
<1>3. SeenTyped'
  BY <1>1, <1>2 DEF GraphInv, SeenTyped, Seen
<1>4. UNCHANGED <<row, evidence, fact, facts>>
  BY DEF LookUp
<1> QED
  BY <1>3, <1>4 DEF GraphInv, RowsTyped, FactsTyped, OneLivePerKey,
                    LiveHasEvidence, Live

LEMMA PutKeepsGraph ==
  ASSUME GraphInv, NEW w \in Worker, Put(w)
  PROVE  GraphInv'
<1>1. UNCHANGED <<fact, facts>> /\ worker[w] \in Seen
  BY DEF Put, GraphInv, SeenTyped
<1>2. ASSUME worker' = [worker EXCEPT ![w] = Idle]
      PROVE  SeenTyped'
  BY <1>2, IdleIsSeen DEF GraphInv, SeenTyped
<1>3. CASE PutFound(w) /\ worker[w].found # Gone
  <2> DEFINE r == worker[w].found
             s == IF worker[w].writes = "none" THEN row[r].state
                  ELSE worker[w].writes
             new == [row[r] EXCEPT !.due = FALSE, !.state = s]
  <2>1. r \in Row /\ row[r] \in Entity
    BY <1>1, <1>3, Bounds DEF PutFound, Seen, Gone, Row, GraphInv, RowsTyped
  <2>2. s \in State
    BY <1>1, <2>1 DEF Seen, Entity, State, Fresh, Shown
  <2>3. row' = [row EXCEPT ![r] = new] /\ AddEvidence(r)
    BY <1>3, <2>1 DEF PutFound, GraphInv, RowsTyped, Entity
  <2>4. SeenTyped'
    BY <1>2, <1>3 DEF PutFound
  <2> HIDE DEF s, r
  <2>5. /\ new \in Entity /\ new.key = row[r].key
        /\ new.current = row[r].current /\ new.expired = row[r].expired
    BY <2>1, <2>2 DEF Entity
  <2> HIDE DEF new
  <2> QED
    BY <1>1, <2>1, <2>3, <2>4, <2>5, WriteKeepsGraph
<1>4. CASE PutFound(w) /\ worker[w].found = Gone
  <2>1. UNCHANGED <<row, evidence>> /\ SeenTyped'
    BY <1>2, <1>4 DEF PutFound
  <2> QED
    BY <1>1, <2>1 DEF GraphInv, RowsTyped, FactsTyped, OneLivePerKey,
                      LiveHasEvidence, Live
<1>5. CASE PutNew(w)
  <2> DEFINE new == New(worker[w].key, worker[w].writes, FALSE, 0)
  <2>1. PICK d \in Row :
          /\ row' = Closed(row, d, new) /\ evidence' = Closed(evidence, d, 1)
          /\ worker' = [v \in Worker |-> IF v = w THEN Idle ELSE Moved(v, d)]
    BY <1>5 DEF PutNew
  <2>2. new \in Entity /\ new.key = worker[w].key
    <3>1. /\ worker[w].key \in Key \cup {NoKey} /\ worker[w].writes \in State
          /\ 0 \in 0..MaxFacts
      BY <1>1, Bounds DEF Seen, Key, State, Fresh, Shown
    <3> QED
      BY <3>1, NewIsEntity
  <2>3. LiveOf(worker[w].key) \subseteq {d}
    BY <1>5 DEF PutNew, Indexed
  <2>4. SeenTyped'
    BY <2>1, MovedIsSeen, IdleIsSeen DEF GraphInv, SeenTyped
  <2> HIDE DEF new
  <2>5. RowsTyped' /\ OneLivePerKey' /\ LiveHasEvidence'
    BY <2>1, <2>2, <2>3, NewRow
  <2> QED
    BY <1>1, <2>4, <2>5 DEF GraphInv, FactsTyped
<1>6. CASE Trip(w)
  <2>1. UNCHANGED <<row, evidence>> /\ SeenTyped'
    BY <1>6, IdleIsSeen DEF Trip, GraphInv, SeenTyped
  <2> QED
    BY <1>1, <2>1 DEF GraphInv, RowsTyped, FactsTyped, OneLivePerKey,
                      LiveHasEvidence, Live
<1> QED
  BY <1>3, <1>4, <1>5, <1>6 DEF Put

LEMMA GraphInvariant == Spec => []GraphInv
<1>1. GraphInv /\ [Next]_vars => GraphInv'
  <2> SUFFICES ASSUME GraphInv, [Next]_vars
               PROVE  GraphInv'
    OBVIOUS
  <2>1. ASSUME NEW w \in Worker, Again(w)
        PROVE  GraphInv'
    <3>1. SeenTyped'
      BY <2>1, IdleIsSeen DEF Again, GraphInv, SeenTyped
    <3> QED
      BY <2>1, <3>1 DEF Again, GraphInv, RowsTyped, FactsTyped, OneLivePerKey,
                        LiveHasEvidence, Live
  <2>2. CASE UNCHANGED vars
    BY <2>2 DEF vars, GraphInv, RowsTyped, FactsTyped, SeenTyped,
                OneLivePerKey, LiveHasEvidence, Live
  <2> QED
    BY <2>1, <2>2, PromoteKeepsGraph, AdjudicateKeepsGraph, MergeKeepsGraph,
       AgeKeepsGraph, ProjectKeepsGraph, UsersKeepGraph, DueKeepsGraph,
       LookUpKeepsGraph, PutKeepsGraph DEF Next
<1> QED
  BY InitGraph, <1>1, PTL DEF Spec

\* Every state is well typed.
THEOREM GraphTyped == Spec => []TypeOK
<1>1. GraphInv => TypeOK
  BY DEF GraphInv, RowsTyped, FactsTyped, SeenTyped, TypeOK, Entity, Seen
<1> QED
  BY <1>1, GraphInvariant, PTL

\* A key has one live row: a merge that sets a row current again revives none
\* that was superseded, and every insert meets the unique index.
THEOREM KeysAreUnique == Spec => []OneLivePerKey
<1>1. GraphInv => OneLivePerKey
  BY DEF GraphInv
<1> QED
  BY <1>1, GraphInvariant, PTL

\* What a query returns has a source, whatever was merged into what.
THEOREM AnswersHaveSources == Spec => []ShownHasEvidence
<1>1. GraphInv => ShownHasEvidence
  BY DEF GraphInv, LiveHasEvidence, ShownHasEvidence, Retrievable
<1> QED
  BY <1>1, GraphInvariant, PTL
=============================================================================
