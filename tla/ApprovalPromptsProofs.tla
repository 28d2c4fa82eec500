------------------------ MODULE ApprovalPromptsProofs ------------------------
(***************************************************************************)
(* Theorems about ApprovalPrompts, for any tasks and keys, any bound on    *)
(* the asks and every fault; the two on prompts whose workers do not crash *)
(* name the faults they allow.                                             *)
(***************************************************************************)
EXTENDS ApprovalPrompts, WellFoundedInduction, TLAPS

-----------------------------------------------------------------------------
(***************************************************************************)
(* The invariant, in parts.                                                *)
(***************************************************************************)

\* What a task is about to ask, or waits for, is its last request, undecided.
LastIsOpen ==
  \A t \in Task : stage[t] \in Asking =>
    /\ LastAsk(t) > 0
    /\ decision[t][LastKey(t)] = "none"

\* A refused task is over.
RejectedIsOver ==
  \A t \in Task, k \in Key : decision[t][k] = "rejected" => stage[t] = "over"

\* A prompt of the outbox is in the thread, and asks for the outbox row's key.
OutboxIsShown ==
  \A t \in Task, k \in Key : outbox[t][k] # 0 =>
    /\ outbox[t][k] <= LastAsk(t)
    /\ asks[t][outbox[t][k]] = k
    /\ <<t, outbox[t][k]>> \in shown

\* From the Slack call on, the prompt of the last request is there.
LastIsShown ==
  \A t \in Task :
    /\ stage[t] = "called" => <<t, LastAsk(t)>> \in shown
    /\ stage[t] \in {"posted", "waiting"} => outbox[t][LastKey(t)] # 0

\* Buttons exist for requests that were made.
MintedForAsks ==
  \A b \in Button : button[b] # "none" => b[2] <= LastAsk(b[1])

\* The request of a button is decided, or its task over.
Closed(b) == decision[b[1]][Target(b)] # "none" \/ stage[b[1]] = "over"

\* Or it is the request its task waits for: so it is for every button that was
\* ever sent.
Settled(b) ==
  \/ Closed(b)
  \/ stage[b[1]] = "waiting" /\ b[2] = LastAsk(b[1])

SentIsAsked ==
  \A b \in Button : button[b] \in {"sent", "consumed"} => Settled(b)

\* The other button of the same ask.
Mate(b) == <<b[1], b[2], IF b[3] = "approve" THEN "reject" ELSE "approve">>

\* The buttons of an ask are minted together.
MintedInPairs ==
  \A b \in Button : button[b] = "none" => button[Mate(b)] = "none"

\* The other button of a spent one is dead, and the ask was parked.
SpentOnce ==
  \A b \in Button : button[b] = "consumed" =>
    button[Mate(b)] \in {"superseded", "expired"}

Control == /\ TypeOK
           /\ LastIsOpen /\ RejectedIsOver /\ OutboxIsShown /\ LastIsShown
           /\ DecidedWasShown

Buttons == SpentMeansDecided /\ MintedForAsks /\ SentIsAsked /\ MintedInPairs /\ SpentOnce
-----------------------------------------------------------------------------
(***************************************************************************)
(* Which request is pending.                                               *)
(***************************************************************************)

\* If the last request is undecided, it is the newest undecided one.
LEMMA NewestIsLast ==
  ASSUME NEW s \in Seq(Key), NEW d, Len(s) > 0, d[s[Len(s)]] = "none"
  PROVE  LET U == {n \in 1..Len(s) : d[s[n]] = "none"}
         IN  U # {} /\ Max(U) = Len(s)
<1> DEFINE U == {n \in 1..Len(s) : d[s[n]] = "none"}
<1>1. Len(s) \in U /\ \A n \in U : n \in Nat /\ Len(s) >= n
  OBVIOUS
<1>2. \A x \in U : (\A y \in U : x >= y) => x = Len(s)
  BY <1>1
<1>3. Max(U) = Len(s)
  <2> HIDE DEF U
  <2> QED
    BY <1>1, <1>2 DEF Max
<1> QED
  BY <1>1, <1>3

\* A task asks, and waits for, its last request.
LEMMA PendingIsLast ==
  ASSUME TypeOK, LastIsOpen, NEW t \in Task, stage[t] \in Asking
  PROVE  PendingKey(t) = LastKey(t) /\ LastKey(t) \in Key
<1>1. /\ asks[t] \in Seq(Key) /\ Len(asks[t]) > 0
      /\ decision[t][asks[t][Len(asks[t])]] = "none"
  BY DEF TypeOK, LastIsOpen, LastAsk, LastKey
<1>2. Undecided(t) # {} /\ Max(Undecided(t)) = Len(asks[t])
  BY <1>1, NewestIsLast DEF Undecided, LastAsk
<1> QED
  BY <1>1, <1>2 DEF PendingKey, LastKey, LastAsk

\* Keys and places of requests have their types.
LEMMA LastTyped ==
  ASSUME TypeOK, LastIsOpen, NEW t \in Task, stage[t] \in Asking
  PROVE  LastKey(t) \in Key /\ LastAsk(t) \in Ask
BY PromptsAssumption DEF TypeOK, LastIsOpen, LastAsk, LastKey, Ask
-----------------------------------------------------------------------------
(***************************************************************************)
(* Typing, requests and prompts.                                           *)
(***************************************************************************)

\* At first nothing was asked.
LEMMA InitControl == Init => Control
BY PromptsAssumption
   DEF Init, Control, TypeOK, LastIsOpen, RejectedIsOver, OutboxIsShown,
       LastIsShown, DecidedWasShown, Asking, Stage, Decision, ButtonStatus

\* The worker's steps that only move a task on.
LEMMA MoveControl ==
  ASSUME Control, NEW t \in Task,
         Start(t) \/ Finish(t) \/ Crash(t) \/ RetryFailed(t) \/ Cancel(t)
  PROVE  Control'
<1>1. /\ stage[t] # "over"
      /\ stage' \in [Task -> Stage]
      /\ \A u \in Task : u # t => stage'[u] = stage[u]
      /\ stage'[t] \in {"queued", "running", "over"}
      /\ UNCHANGED <<asks, decision, outbox, shown, button>>
  BY DEF Start, Finish, Crash, RetryFailed, Cancel, Enter, Control, TypeOK, Stage
<1>2. TypeOK'
  BY <1>1 DEF Control, TypeOK
<1>3. OutboxIsShown' /\ DecidedWasShown'
  BY <1>1 DEF Control, OutboxIsShown, DecidedWasShown, LastAsk
<1>4. LastIsOpen' /\ LastIsShown' /\ RejectedIsOver'
  BY <1>1 DEF Control, LastIsOpen, LastIsShown, RejectedIsOver, Asking,
              LastAsk, LastKey
<1> QED
  BY <1>2, <1>3, <1>4 DEF Control

\* A request is logged: the list grows, and nothing else looks at its end.
LEMMA AskControl ==
  ASSUME Control, NEW t \in Task, NEW k \in Key, AskApproval(t, k)
  PROVE  Control'
<1> DEFINE n == LastAsk(t) + 1
<1>1. /\ asks \in [Task -> Seq(Key)]
      /\ stage[t] = "running" /\ decision[t][k] = "none"
  <2>1. decision[t][k] \in Decision /\ decision[t][k] # "approved"
    BY DEF AskApproval, Control, TypeOK
  <2>2. stage[t] = "running" /\ decision[t][k] # "rejected"
    BY DEF AskApproval, Control, RejectedIsOver
  <2> QED
    BY <2>1, <2>2 DEF Decision, Control, TypeOK
<1>2. /\ LastAsk(t)' = n /\ n \in Nat /\ n <= MaxAsks
      /\ asks'[t][n] = k /\ asks'[t] \in Seq(Key)
      /\ \A i \in 1..LastAsk(t) : asks'[t][i] = asks[t][i]
      /\ \A u \in Task : u # t => asks'[u] = asks[u]
      /\ \A u \in Task : LastAsk(u) \in Nat /\ LastAsk(u)' \in Nat
                             /\ LastAsk(u) <= LastAsk(u)'
      /\ asks' \in [Task -> Seq(Key)]
  BY <1>1, PromptsAssumption DEF AskApproval, LastAsk
<1>3. /\ stage' \in [Task -> Stage] /\ stage'[t] = "asked"
      /\ \A u \in Task : u # t => stage'[u] = stage[u]
      /\ UNCHANGED <<decision, outbox, shown, button>>
  BY DEF AskApproval, Enter, Control, TypeOK, Stage
<1>4. TypeOK'
  BY <1>2, <1>3 DEF Control, TypeOK, LastAsk
<1>5. LastIsOpen' /\ LastIsShown'
  <2>1. \A u \in Task : u # t => LastKey(u)' = LastKey(u) /\ LastAsk(u)' = LastAsk(u)
    BY <1>2 DEF LastKey, LastAsk
  <2>2. LastKey(t)' = k /\ LastAsk(t)' > 0
    BY <1>2 DEF LastKey, LastAsk
  <2>3. LastIsOpen'
    BY <1>1, <1>3, <2>1, <2>2 DEF Control, LastIsOpen
  <2>4. LastIsShown'
    BY <1>1, <1>3, <2>1, <2>2 DEF Control, LastIsShown
  <2> QED
    BY <2>3, <2>4
<1>6. RejectedIsOver'
  BY <1>1, <1>3 DEF Control, RejectedIsOver
<1>7. OutboxIsShown'
  <2>1. SUFFICES ASSUME NEW u \in Task, NEW j \in Key, outbox[u][j] # 0
                 PROVE  /\ outbox[u][j] <= LastAsk(u)'
                        /\ asks'[u][outbox[u][j]] = j
                        /\ <<u, outbox[u][j]>> \in shown
    BY <1>3 DEF OutboxIsShown
  <2>2. /\ outbox[u][j] <= LastAsk(u) /\ asks[u][outbox[u][j]] = j
        /\ <<u, outbox[u][j]>> \in shown
        /\ outbox[u][j] \in 1..LastAsk(u)
    BY <1>2, <2>1, PromptsAssumption DEF Control, OutboxIsShown, TypeOK
  <2>3. asks'[u][outbox[u][j]] = asks[u][outbox[u][j]]
    BY <1>2, <2>2
  <2>4. outbox[u][j] <= LastAsk(u)'
    BY <1>2, <2>2 DEF LastAsk
  <2> QED
    BY <2>2, <2>3, <2>4
<1>8. DecidedWasShown'
  <2>1. SUFFICES ASSUME NEW u \in Task, NEW j \in Key, decision[u][j] # "none"
                 PROVE  \E i \in 1..LastAsk(u)' :
                          asks'[u][i] = j /\ <<u, i>> \in shown
    BY <1>3 DEF DecidedWasShown
  <2>2. PICK i \in 1..LastAsk(u) : asks[u][i] = j /\ <<u, i>> \in shown
    BY <2>1 DEF Control, DecidedWasShown
  <2>3. asks'[u][i] = asks[u][i]
    BY <1>2
  <2>4. i \in 1..LastAsk(u)'
    BY <1>2 DEF LastAsk
  <2> QED
    BY <2>2, <2>3, <2>4
<1> QED
  BY <1>4, <1>5, <1>6, <1>7, <1>8 DEF Control

\* The prompt goes out, or fails to.
LEMMA CallControl ==
  ASSUME Control, NEW t \in Task, CallSlack(t) \/ CallFails(t)
  PROVE  Control'
<1>1. /\ stage[t] = "asked"
      /\ stage' \in [Task -> Stage]
      /\ \A u \in Task : u # t => stage'[u] = stage[u]
      /\ UNCHANGED <<asks, decision, outbox, button>>
      /\ \/ stage'[t] = "failed"
         \/ stage'[t] = "called" /\ <<t, LastAsk(t)>> \in shown'
      /\ shown \subseteq shown'
      /\ shown' \subseteq shown \cup {<<t, LastAsk(t)>>}
  BY DEF CallSlack, CallFails, Enter, Control, TypeOK, Stage
<1>2. LastAsk(t) \in Ask
  BY <1>1, LastTyped DEF Control, Asking
<1>3. TypeOK'
  BY <1>1, <1>2 DEF Control, TypeOK
<1>4. OutboxIsShown' /\ DecidedWasShown'
  BY <1>1 DEF Control, OutboxIsShown, DecidedWasShown, LastAsk
<1>5. LastIsOpen' /\ LastIsShown' /\ RejectedIsOver'
  BY <1>1 DEF Control, LastIsOpen, LastIsShown, RejectedIsOver, Asking,
              LastAsk, LastKey
<1> QED
  BY <1>3, <1>4, <1>5 DEF Control

\* The post is committed: the outbox row of the last request's key is filled.
LEMMA PostControl ==
  ASSUME Control, NEW t \in Task, CommitPost(t)
  PROVE  Control'
<1> DEFINE key == LastKey(t)
           n == LastAsk(t)
<1>1. /\ stage[t] = "called" /\ stage'[t] = "posted"
      /\ stage' \in [Task -> Stage]
      /\ \A u \in Task : u # t => stage'[u] = stage[u]
      /\ UNCHANGED <<asks, decision, shown>>
  BY DEF CommitPost, Enter, Control, TypeOK, Stage
<1>2. /\ key \in Key /\ n \in Ask /\ asks[t][n] = key
      /\ <<t, n>> \in shown
  BY <1>1, LastTyped DEF Control, Asking, LastIsShown, LastKey
<1>3. button' \in [Button -> ButtonStatus]
  BY DEF CommitPost, SetButtons, ButtonStatus, Control, TypeOK
<1>4. /\ outbox' \in [Task -> [Key -> 0..MaxAsks]]
      /\ outbox'[t][key] = n
      /\ \A u \in Task, j \in Key :
           u # t \/ j # key => outbox'[u][j] = outbox[u][j]
  BY <1>2, PromptsAssumption DEF CommitPost, Control, TypeOK, Ask
<1> HIDE DEF key, n
<1>5. TypeOK'
  BY <1>1, <1>3, <1>4 DEF Control, TypeOK
<1>6. OutboxIsShown'
  <2>1. SUFFICES ASSUME NEW u \in Task, NEW j \in Key, outbox'[u][j] # 0
                 PROVE  /\ outbox'[u][j] <= LastAsk(u)
                        /\ asks[u][outbox'[u][j]] = j
                        /\ <<u, outbox'[u][j]>> \in shown
    BY <1>1 DEF OutboxIsShown, LastAsk
  <2>2. CASE u = t /\ j = key
    BY <1>2, <1>4, <2>2, PromptsAssumption DEF n, Ask
  <2>3. CASE ~(u = t /\ j = key)
    BY <1>4, <2>1, <2>3 DEF Control, OutboxIsShown
  <2> QED
    BY <2>2, <2>3
<1>7. DecidedWasShown'
  BY <1>1 DEF Control, DecidedWasShown, LastAsk
<1>8. LastIsOpen' /\ RejectedIsOver'
  BY <1>1 DEF Control, LastIsOpen, RejectedIsOver, Asking, LastAsk, LastKey
<1>9. LastIsShown'
  <2>1. outbox'[t][LastKey(t)] # 0
    BY <1>2, <1>4 DEF key, Ask
  <2>2. \A u \in Task : u # t => outbox'[u] = outbox[u]
    BY DEF CommitPost, Control, TypeOK
  <2> QED
    BY <1>1, <2>1, <2>2 DEF Control, LastIsShown, LastAsk, LastKey
<1> QED
  BY <1>5, <1>6, <1>7, <1>8, <1>9 DEF Control

\* The task parks: its last prompt is committed.
LEMMA ParkControl ==
  ASSUME Control, NEW t \in Task, ParkPosted(t) \/ ParkReused(t)
  PROVE  Control'
<1>1. /\ stage[t] \in {"asked", "posted"} /\ stage'[t] = "waiting"
      /\ stage' \in [Task -> Stage]
      /\ \A u \in Task : u # t => stage'[u] = stage[u]
      /\ UNCHANGED <<asks, decision, outbox, shown>>
  BY DEF ParkPosted, ParkReused, Enter, Control, TypeOK, Stage
<1>2. outbox[t][LastKey(t)] # 0
  BY DEF ParkPosted, ParkReused, Control, LastIsShown
<1>3. button' \in [Button -> ButtonStatus]
  BY DEF ParkPosted, ParkReused, SetButtons, ButtonStatus, Control, TypeOK
<1>4. TypeOK'
  BY <1>1, <1>3 DEF Control, TypeOK
<1>5. OutboxIsShown' /\ DecidedWasShown'
  BY <1>1 DEF Control, OutboxIsShown, DecidedWasShown, LastAsk
<1>6. LastIsOpen' /\ RejectedIsOver' /\ LastIsShown'
  BY <1>1, <1>2 DEF Control, LastIsOpen, RejectedIsOver, LastIsShown, Asking,
                    LastAsk, LastKey
<1> QED
  BY <1>4, <1>5, <1>6 DEF Control

\* What a click or a reaction decides is the last request of a waiting task.
LEMMA DecideEffect ==
  ASSUME Control, NEW t \in Task, NEW r \in Route, stage[t] = "waiting",
         Decide(t, r)
  PROVE  /\ LastKey(t) \in Key
         /\ stage' \in [Task -> Stage]
         /\ \A u \in Task : u # t => /\ stage'[u] = stage[u]
                                    /\ decision'[u] = decision[u]
         /\ decision' \in [Task -> [Key -> Decision]]
         /\ \A k \in Key : k # LastKey(t) => decision'[t][k] = decision[t][k]
         /\ \/ r = "approve" /\ decision'[t][LastKey(t)] = "approved"
                             /\ stage'[t] = "queued"
            \/ r = "reject" /\ decision'[t][LastKey(t)] = "rejected"
                            /\ stage'[t] = "over"
<1>1. PendingKey(t) = LastKey(t) /\ LastKey(t) \in Key
  BY PendingIsLast DEF Control, Asking
<1>2. decision \in [Task -> [Key -> Decision]] /\ stage \in [Task -> Stage]
  BY DEF Control, TypeOK
<1> HIDE DEF LastKey
<1> QED
  BY <1>1, <1>2 DEF Decide, Enter, Route, Decision, Stage

\* A decision keeps the invariant: its prompt was shown.
LEMMA DecideControl ==
  ASSUME Control, NEW t \in Task, NEW r \in Route, stage[t] = "waiting",
         Decide(t, r), button' \in [Button -> ButtonStatus],
         UNCHANGED <<asks, outbox, shown>>
  PROVE  Control'
<1> DEFINE key == LastKey(t)
<1>1. /\ key \in Key
      /\ stage' \in [Task -> Stage]
      /\ \A u \in Task : u # t => /\ stage'[u] = stage[u]
                                 /\ decision'[u] = decision[u]
      /\ decision' \in [Task -> [Key -> Decision]]
      /\ \A k \in Key : k # key => decision'[t][k] = decision[t][k]
      /\ \/ r = "approve" /\ decision'[t][key] = "approved" /\ stage'[t] = "queued"
         \/ r = "reject" /\ decision'[t][key] = "rejected" /\ stage'[t] = "over"
  BY DecideEffect
<1>2. /\ outbox[t][key] \in 1..LastAsk(t) /\ asks[t][outbox[t][key]] = key
      /\ <<t, outbox[t][key]>> \in shown
  <2>1. outbox[t][key] # 0 /\ outbox[t][key] \in 0..MaxAsks
    BY <1>1 DEF Control, LastIsShown, TypeOK
  <2>2. LastAsk(t) \in Nat
    BY DEF Control, TypeOK, LastAsk
  <2> HIDE DEF key
  <2> QED
    BY <1>1, <2>1, <2>2, PromptsAssumption DEF Control, OutboxIsShown
<1>3. TypeOK'
  BY <1>1 DEF Control, TypeOK
<1> HIDE DEF key
<1>4. OutboxIsShown'
  BY DEF Control, OutboxIsShown, LastAsk
<1>5. LastIsOpen' /\ LastIsShown'
  BY <1>1 DEF Control, LastIsOpen, LastIsShown, Asking, LastAsk, LastKey
<1>6. RejectedIsOver'
  <2>1. SUFFICES ASSUME NEW u \in Task, NEW k \in Key,
                        decision'[u][k] = "rejected"
                 PROVE  stage'[u] = "over"
    BY DEF RejectedIsOver
  <2>2. decision[t][k] # "rejected"
    BY DEF Control, RejectedIsOver
  <2> QED
    BY <1>1, <2>1, <2>2 DEF Control, RejectedIsOver
<1>7. DecidedWasShown'
  <2>1. SUFFICES ASSUME NEW u \in Task, NEW k \in Key,
                        decision'[u][k] # "none"
                 PROVE  \E n \in 1..LastAsk(u) :
                          asks[u][n] = k /\ <<u, n>> \in shown
    BY DEF DecidedWasShown, LastAsk
  <2>2. CASE u = t /\ k = key
    BY <1>2, <2>2
  <2>3. CASE ~(u = t /\ k = key)
    BY <1>1, <2>1, <2>3, SMTT(30) DEF Control, DecidedWasShown
  <2> QED
    BY <2>2, <2>3
<1> QED
  BY <1>3, <1>4, <1>5, <1>6, <1>7 DEF Control

\* Whatever is clicked, the buttons stay well typed.
LEMMA ClickControl ==
  ASSUME Control, NEW b \in Button, Click(b)
  PROVE  Control'
<1>1. CASE ClickDecides(b)
  <2>1. b[1] \in Task /\ b[3] \in Route
    BY DEF Button
  <2>2. stage[b[1]] = "waiting"
    BY <1>1 DEF ClickDecides, Answerable
  <2>3. button' \in [Button -> ButtonStatus]
    BY <1>1 DEF ClickDecides, Spend, ButtonStatus, Control, TypeOK
  <2> QED
    BY <1>1, <2>1, <2>2, <2>3, DecideControl DEF ClickDecides
<1>2. CASE ClickTooLate(b) \/ ClickExpired(b)
  <2>1. /\ button' \in [Button -> ButtonStatus]
        /\ UNCHANGED <<stage, asks, decision, outbox, shown>>
    BY <1>2 DEF ClickTooLate, ClickExpired, Spend, SetButtons, ButtonStatus,
                Control, TypeOK
  <2> QED
    BY <2>1, SMTT(30)
       DEF Control, TypeOK, LastIsOpen, RejectedIsOver, OutboxIsShown,
           LastIsShown, DecidedWasShown, LastAsk, LastKey
<1> QED
  BY <1>1, <1>2 DEF Click

\* No step breaks it.
LEMMA StepControl == Control /\ [Next]_vars => Control'
<1> SUFFICES ASSUME Control, [Next]_vars
             PROVE  Control'
  OBVIOUS
<1>1. ASSUME NEW t \in Task, Work(t)
      PROVE  Control'
  BY <1>1, MoveControl, AskControl, CallControl, PostControl, ParkControl
     DEF Work
<1>2. ASSUME NEW t \in Task, Answer(t)
      PROVE  Control'
  <2>1. CASE RetryFailed(t) \/ Cancel(t)
    BY <2>1, MoveControl
  <2>2. ASSUME NEW r \in Route, React(t, r)
        PROVE  Control'
    BY <2>2, DecideControl DEF React, Control, TypeOK
  <2> QED
    BY <1>2, <2>1, <2>2 DEF Answer
<1>3. ASSUME NEW b \in Button, Click(b)
      PROVE  Control'
  BY <1>3, ClickControl
<1>4. CASE UNCHANGED vars
  <2>1. TypeOK'
    BY <1>4 DEF vars, Control, TypeOK
  <2>2. LastIsOpen' /\ RejectedIsOver' /\ LastIsShown'
    BY <1>4 DEF vars, Control, LastIsOpen, RejectedIsOver, LastIsShown,
                LastAsk, LastKey
  <2>3. OutboxIsShown' /\ DecidedWasShown'
    BY <1>4 DEF vars, Control, OutboxIsShown, DecidedWasShown, LastAsk
  <2> QED
    BY <2>1, <2>2, <2>3 DEF Control
<1> QED
  BY <1>1, <1>2, <1>3, <1>4 DEF Next

\* Requests, prompts and decisions agree in every reachable state.
LEMMA ControlInvariant == Spec => []Control
<1> QED
  BY InitControl, StepControl, PTL DEF Spec

\* Every reachable state is well typed, however workers crash and calls fail.
THEOREM PromptsTyped == Spec => []TypeOK
<1>1. Control => TypeOK
  BY DEF Control
<1> QED
  BY <1>1, ControlInvariant, PTL

\* Only what the user was shown is ever decided, by click or by reaction.
THEOREM DecisionsWereShown == Spec => []DecidedWasShown
<1>1. Control => DecidedWasShown
  BY DEF Control
<1> QED
  BY <1>1, ControlInvariant, PTL
-----------------------------------------------------------------------------
(***************************************************************************)
(* Buttons.                                                                *)
(***************************************************************************)

\* A button and its mate are the two buttons of one ask.
LEMMA MateIs ==
  ASSUME NEW b \in Button
  PROVE  /\ Mate(b) \in Button /\ Mate(b) # b /\ Mate(Mate(b)) = b
         /\ Mate(b)[1] = b[1] /\ Mate(b)[2] = b[2]
         /\ b[1] \in Task /\ b[2] \in Ask /\ b[3] \in Route
<1>1. PICK t \in Task, n \in Ask, r \in Route : b = <<t, n, r>>
  BY DEF Button
<1> QED
  BY <1>1 DEF Button, Mate, Route

\* A pair holds the buttons of its ask, mates together.
LEMMA PairIs ==
  ASSUME NEW t \in Task, NEW n \in Ask
  PROVE  /\ Pair(t, n) \subseteq Button
         /\ \A b \in Button : b \in Pair(t, n) <=> b[1] = t /\ b[2] = n
         /\ \A b \in Button : b \in Pair(t, n) <=> Mate(b) \in Pair(t, n)
<1>1. Pair(t, n) \subseteq Button
  BY DEF Pair, Button
<1>2. \A b \in Button : b \in Pair(t, n) <=> b[1] = t /\ b[2] = n
  BY DEF Pair, Button
<1>3. \A b \in Button : b \in Pair(t, n) <=> Mate(b) \in Pair(t, n)
  BY <1>2, MateIs
<1> QED
  BY <1>1, <1>2, <1>3

\* The request of a button in a pair is the pair's.
LEMMA TargetOfMate ==
  ASSUME NEW b \in Button
  PROVE  Target(Mate(b)) = Target(b)
BY MateIs DEF Target

Carried == \A b \in Button : b[2] <= LastAsk(b[1]) =>
             /\ b[2] <= LastAsk(b[1])'
             /\ Settled(b) => Settled(b)'
             /\ Closed(b) => Closed(b)'

\* The worker's steps undo nothing a button relies on.
LEMMA WorkCarries ==
  ASSUME Control, NEW t \in Task, Work(t)
  PROVE  Carried
<1>1. CASE \E k \in Key : AskApproval(t, k)
  <2>1. PICK k \in Key : AskApproval(t, k)
    BY <1>1
  <2>2. /\ stage[t] = "running" /\ stage'[t] = "asked"
        /\ \A u \in Task : u # t => /\ stage'[u] = stage[u]
                                   /\ asks'[u] = asks[u]
        /\ asks'[t] = Append(asks[t], k)
        /\ decision' = decision
    BY <2>1 DEF AskApproval, Enter, Control, TypeOK
  <2>3. /\ asks[t] \in Seq(Key) /\ LastAsk(t) \in Nat
        /\ LastAsk(t)' = LastAsk(t) + 1
        /\ \A i \in 1..LastAsk(t) : asks'[t][i] = asks[t][i]
    BY <2>2 DEF LastAsk, Control, TypeOK
  <2>4. SUFFICES ASSUME NEW b \in Button, b[2] <= LastAsk(b[1])
                 PROVE  /\ b[2] <= LastAsk(b[1])'
                        /\ Settled(b) => Settled(b)'
                        /\ Closed(b) => Closed(b)'
    BY DEF Carried
  <2>5. b[1] \in Task /\ b[2] \in Nat /\ b[2] >= 1
    BY MateIs, PromptsAssumption DEF Ask
  <2>6. CASE b[1] = t
    <3>1. b[2] <= LastAsk(b[1])'
      BY <2>3, <2>4, <2>5, <2>6
    <3>2. Target(b)' = Target(b)
      BY <2>3, <2>4, <2>5, <2>6 DEF Target
    <3> QED
      BY <2>2, <2>6, <3>1, <3>2 DEF Settled, Closed
  <2>7. CASE b[1] # t
    BY <2>2, <2>4, <2>5, <2>7 DEF Settled, Closed, Target, LastAsk
  <2> QED
    BY <2>6, <2>7
<1>2. CASE ~\E k \in Key : AskApproval(t, k)
  <2>1. /\ stage[t] \notin {"over", "waiting"}
        /\ \A u \in Task : u # t => stage'[u] = stage[u]
        /\ UNCHANGED <<asks, decision>>
    BY <1>2 DEF Work, Start, CallSlack, CallFails, CommitPost, ParkPosted,
                ParkReused, Finish, Crash, Enter, Control, TypeOK
  <2> QED
    BY <2>1, MateIs DEF Carried, Settled, Closed, Target, LastAsk
<1> QED
  BY <1>1, <1>2

\* A decision settles the request the task waited for.
LEMMA DecideCarries ==
  ASSUME Control, NEW t \in Task, NEW r \in Route, stage[t] = "waiting",
         Decide(t, r), UNCHANGED asks
  PROVE  Carried
<1> DEFINE key == LastKey(t)
<1>1. /\ \A u \in Task : u # t => /\ stage'[u] = stage[u]
                                 /\ decision'[u] = decision[u]
      /\ \A k \in Key : k # key => decision'[t][k] = decision[t][k]
      /\ decision'[t][key] # "none"
  BY DecideEffect
<1>2. SUFFICES ASSUME NEW b \in Button, b[2] <= LastAsk(b[1]), Settled(b)
               PROVE  Settled(b)' /\ (Closed(b) => Closed(b)')
  BY DEF Carried, LastAsk, Settled
<1>3. b[1] \in Task /\ b[2] \in Nat /\ b[2] >= 1 /\ Target(b)' = Target(b)
  BY MateIs, PromptsAssumption DEF Ask, Target
<1>4. CASE b[1] # t
  BY <1>1, <1>2, <1>3, <1>4 DEF Settled, Closed, LastAsk
<1>5. CASE b[1] = t
  <2>1. Target(b) \in Key
    BY <1>2, <1>3 DEF Control, TypeOK, Target, LastAsk
  <2>2. CASE b[2] = LastAsk(t)
    BY <1>1, <1>3, <1>5, <2>2 DEF Settled, Closed, Target, LastKey
  <2>3. CASE decision[t][Target(b)] # "none"
    BY <1>1, <1>3, <1>5, <2>1, <2>3 DEF Settled, Closed
  <2> QED
    BY <1>2, <1>5, <2>2, <2>3 DEF Settled, Closed
<1> QED
  BY <1>4, <1>5

\* Nor do the user's.
LEMMA AnswerCarries ==
  ASSUME Control, NEW t \in Task, Answer(t)
  PROVE  Carried
<1>1. CASE RetryFailed(t) \/ Cancel(t)
  <2>1. /\ stage[t] # "over"
        /\ stage[t] = "waiting" => stage'[t] = "over"
        /\ \A u \in Task : u # t => stage'[u] = stage[u]
        /\ UNCHANGED <<asks, decision>>
    BY <1>1 DEF RetryFailed, Cancel, Enter, Control, TypeOK
  <2> QED
    BY <2>1, MateIs DEF Carried, Settled, Closed, Target, LastAsk
<1>2. ASSUME NEW r \in Route, React(t, r)
      PROVE  Carried
  BY <1>2, DecideCarries DEF React
<1> QED
  BY <1>1, <1>2 DEF Answer

\* Nor does a click.
LEMMA ClickCarries ==
  ASSUME Control, NEW b \in Button, Click(b)
  PROVE  Carried
<1>1. CASE ClickDecides(b)
  BY <1>1, DecideCarries, MateIs DEF ClickDecides, Answerable
<1>2. CASE ClickTooLate(b) \/ ClickExpired(b)
  <2>1. UNCHANGED <<stage, asks, decision>>
    BY <1>2 DEF ClickTooLate, ClickExpired
  <2> QED
    BY <2>1 DEF Carried, Settled, Closed, Target, LastAsk
<1> QED
  BY <1>1, <1>2 DEF Click

\* At first there is no button.
LEMMA InitButtons == Init => Buttons
<1> SUFFICES ASSUME Init
             PROVE  Buttons
  OBVIOUS
<1>1. \A b \in Button : button[b] = "none" /\ button[Mate(b)] = "none"
  BY MateIs DEF Init, Button
<1> QED
  BY <1>1 DEF Buttons, MintedForAsks, SentIsAsked, MintedInPairs, SpentOnce,
            SpentMeansDecided

\* Steps that touch no button.
LEMMA QuietButtons ==
  ASSUME Control, Buttons, Carried, UNCHANGED button
  PROVE  Buttons'
BY DEF Buttons, MintedForAsks, SentIsAsked, MintedInPairs, SpentOnce, Carried,
       Mate, SpentMeansDecided, Closed

\* No button of a request that is not parked yet was spent.
LEMMA FreshPair ==
  ASSUME Control, Buttons, NEW t \in Task, stage[t] \in {"asked", "called", "posted"},
         NEW b \in Pair(t, LastAsk(t))
  PROVE  b \in Button /\ button[b] \notin {"sent", "consumed"}
<1>1. LastAsk(t) \in Ask
  BY LastTyped DEF Control, Asking
<1>2. b \in Button /\ b[1] = t /\ b[2] = LastAsk(t)
  BY <1>1, PairIs
<1>3. decision[t][Target(b)] = "none"
  BY <1>2 DEF Control, LastIsOpen, Asking, Target, LastKey
<1> QED
  BY <1>2, <1>3 DEF Buttons, SentIsAsked, Settled, Closed

\* A pair that is not parked yet is given a status, as one.
LEMMA SetPairButtons ==
  ASSUME Control, Buttons, Carried, NEW t \in Task,
         stage[t] \in {"asked", "called", "posted"},
         NEW status \in Live, SetButtons(Pair(t, LastAsk(t)), status),
         UNCHANGED asks,
         status = "sent" => stage'[t] = "waiting"
  PROVE  Buttons'
<1> DEFINE pair == Pair(t, LastAsk(t))
<1>1. LastAsk(t) \in Ask
  BY LastTyped DEF Control, Asking
<1>2. /\ \A b \in Button : b \in pair <=> b[1] = t /\ b[2] = LastAsk(t)
      /\ \A b \in Button : b \in pair <=> Mate(b) \in pair
      /\ \A b \in Button : Mate(b) \in Button
  BY <1>1, PairIs, MateIs
<1>3. \A b \in Button : button'[b] = IF b \in pair THEN status ELSE button[b]
  BY DEF SetButtons
<1>4. status \in {"pending_send", "sent"}
  BY DEF Live
<1> HIDE DEF pair
<1>5. MintedForAsks'
  <2>1. \A b \in Button : b \in pair => b[2] <= LastAsk(b[1])'
    BY <1>1, <1>2, PromptsAssumption DEF LastAsk, Ask
  <2> QED
    BY <1>3, <2>1 DEF Buttons, MintedForAsks, Carried
<1>6. SentIsAsked'
  <2>1. \A b \in Button : b \in pair /\ status = "sent" => Settled(b)'
    BY <1>2 DEF Settled, Closed, LastAsk
  <2>2. \A b \in Button \ pair : button'[b] \in {"sent", "consumed"} => Settled(b)'
    BY <1>3 DEF Buttons, MintedForAsks, SentIsAsked, Carried
  <2> QED
    BY <1>3, <1>4, <2>1, <2>2 DEF SentIsAsked
<1>7. MintedInPairs'
  BY <1>2, <1>3, <1>4 DEF Buttons, MintedInPairs, Mate
<1>8. SpentOnce'
  BY <1>2, <1>3, <1>4 DEF Buttons, SpentOnce, Mate
<1>9. SpentMeansDecided'
  BY <1>3, <1>4 DEF Buttons, SpentMeansDecided, MintedForAsks, Carried, Closed
<1> QED
  BY <1>5, <1>6, <1>7, <1>8, <1>9 DEF Buttons

\* A spent button's mate is retired with it, if it was not dead before.
LEMMA SpendButtons ==
  ASSUME Control, Buttons, Carried, NEW b \in Button, button[b] = "sent", Spend(b),
         Closed(b)'
  PROVE  Buttons'
<1>1. \A c \in Button :
        button'[c] = CASE c = b -> "consumed"
                       [] c \in Siblings(b) -> "superseded"
                       [] OTHER -> button[c]
  BY DEF Spend
<1>2. \A c \in Button : c \in Siblings(b) <=> /\ c # b /\ button[c] \in Live
                                             /\ Target(c) = Target(b)
  BY DEF Siblings
<1>3. \A c \in Button : button[c] \in ButtonStatus
  BY DEF Control, TypeOK
<1>4. \A c \in Button : \/ c = b /\ button'[c] = "consumed"
                        \/ c # b /\ button[c] \in Live /\ button'[c] = "superseded"
                        \/ c # b /\ button'[c] = button[c]
  BY <1>1, <1>2
<1>5. MintedForAsks' /\ SentIsAsked' /\ SpentMeansDecided'
  <2>1. MintedForAsks' /\ SentIsAsked'
    BY <1>4 DEF Live, Buttons, MintedForAsks, SentIsAsked, Carried
  <2>2. SpentMeansDecided'
    BY <1>4 DEF Buttons, MintedForAsks, SpentMeansDecided, Carried, Closed
  <2> QED
    BY <2>1, <2>2
<1>6. MintedInPairs'
  BY <1>4, MateIs DEF Live, Buttons, MintedInPairs, Mate
<1>7. SpentOnce'
  <2>1. /\ Mate(b) \in Button /\ Mate(b) # b /\ Mate(Mate(b)) = b
        /\ Target(Mate(b)) = Target(b)
    BY MateIs, TargetOfMate
  <2>2. button[Mate(b)] \notin {"none", "consumed"}
    BY <2>1 DEF Buttons, MintedInPairs, SpentOnce
  <2>3. button'[Mate(b)] \in {"superseded", "expired"}
    <3>1. CASE button[Mate(b)] \in Live
      BY <1>1, <1>2, <2>1, <3>1
    <3>2. CASE button[Mate(b)] \notin Live
      BY <1>3, <1>4, <2>1, <2>2, <3>2 DEF Live, ButtonStatus
    <3> QED
      BY <3>1, <3>2
  <2>4. SUFFICES ASSUME NEW c \in Button, button'[c] = "consumed", c # b
                 PROVE  button'[Mate(c)] \in {"superseded", "expired"}
    BY <2>3 DEF SpentOnce, Mate
  <2>5. button[Mate(c)] \in {"superseded", "expired"} /\ Mate(c) \in Button
    BY <1>4, <2>4, MateIs DEF Buttons, SpentOnce
  <2> QED
    BY <1>4, <2>5 DEF Live
<1> QED
  BY <1>5, <1>6, <1>7 DEF Buttons

\* An expired button is out of the game.
LEMMA ExpireButtons ==
  ASSUME Control, Buttons, Carried, NEW b \in Button, button[b] = "sent",
         SetButtons({b}, "expired")
  PROVE  Buttons'
<1>1. \A c \in Button : button'[c] = IF c = b THEN "expired" ELSE button[c]
  BY DEF SetButtons
<1>2. MintedForAsks' /\ SentIsAsked' /\ SpentMeansDecided'
  BY <1>1 DEF Buttons, MintedForAsks, SentIsAsked, SpentMeansDecided, Carried,
              Closed
<1>3. MintedInPairs'
  BY <1>1, MateIs DEF Buttons, MintedInPairs, Mate
<1>4. SpentOnce'
  BY <1>1, MateIs DEF Buttons, SpentOnce, Mate
<1> QED
  BY <1>2, <1>3, <1>4 DEF Buttons

\* A click that spends its button leaves the request closed.
LEMMA ClickCloses ==
  ASSUME Control, Buttons, NEW b \in Button, ClickDecides(b) \/ ClickTooLate(b)
  PROVE  Closed(b)'
<1>1. b[1] \in Task /\ b[3] \in Route
  BY MateIs
<1>2. CASE ClickDecides(b)
  <2>1. /\ stage[b[1]] = "waiting" /\ PendingKey(b[1]) = Target(b)
        /\ Decide(b[1], b[3]) /\ Target(b)' = Target(b)
    BY <1>2 DEF ClickDecides, Answerable, Target
  <2>2. PendingKey(b[1]) = LastKey(b[1])
    BY <1>1, <2>1, PendingIsLast DEF Control, Asking
  <2>3. decision'[b[1]][LastKey(b[1])] # "none"
    BY <1>1, <2>1, DecideEffect
  <2> QED
    BY <2>1, <2>2, <2>3 DEF Closed
<1>3. CASE ClickTooLate(b)
  <2>1. button[b] = "sent" /\ ~Answerable(b[1], Target(b))
    BY <1>3 DEF ClickTooLate, Clickable
  <2>2. Settled(b)
    BY <2>1 DEF Buttons, SentIsAsked
  <2>3. ~(stage[b[1]] = "waiting" /\ b[2] = LastAsk(b[1]))
    <3>1. SUFFICES ASSUME stage[b[1]] = "waiting", b[2] = LastAsk(b[1])
                   PROVE  FALSE
      OBVIOUS
    <3>2. PendingKey(b[1]) = LastKey(b[1]) /\ LastKey(b[1]) \in Key
      BY <1>1, <3>1, PendingIsLast DEF Control, Asking
    <3> QED
      BY <2>1, <3>1, <3>2, PromptsAssumption DEF Answerable, Target, LastKey
  <2>4. Closed(b)
    BY <2>2, <2>3 DEF Settled
  <2> QED
    BY <1>3, <2>4 DEF ClickTooLate, Closed, Target
<1> QED
  BY <1>2, <1>3

\* No step breaks what holds of the buttons.
LEMMA StepButtons == Control /\ Buttons /\ [Next]_vars => Buttons'
<1> SUFFICES ASSUME Control, Buttons, [Next]_vars
             PROVE  Buttons'
  OBVIOUS
<1>1. ASSUME NEW t \in Task, Work(t)
      PROVE  Buttons'
  <2>1. Carried
    BY <1>1, WorkCarries
  <2>2. CASE CommitPost(t)
    BY <2>1, <2>2, SetPairButtons DEF CommitPost, Live
  <2>3. CASE ParkPosted(t) \/ ParkReused(t)
    <3>1. stage'[t] = "waiting"
      BY <2>3 DEF ParkPosted, ParkReused, Enter, Control, TypeOK
    <3> QED
      BY <2>1, <2>3, <3>1, SetPairButtons DEF ParkPosted, ParkReused, Live
  <2>4. CASE ~CommitPost(t) /\ ~ParkPosted(t) /\ ~ParkReused(t)
    <3>1. UNCHANGED button
      BY <1>1, <2>4 DEF Work, Start, AskApproval, CallSlack, CallFails, Finish, Crash
    <3> QED
      BY <2>1, <3>1, QuietButtons
  <2> QED
    BY <2>2, <2>3, <2>4
<1>2. ASSUME NEW t \in Task, Answer(t)
      PROVE  Buttons'
  BY <1>2, AnswerCarries, QuietButtons DEF Answer, RetryFailed, Cancel, React
<1>3. ASSUME NEW b \in Button, Click(b)
      PROVE  Buttons'
  <2>1. Carried /\ button[b] = "sent"
    BY <1>3, ClickCarries
       DEF Click, ClickDecides, ClickTooLate, ClickExpired, Clickable
  <2>2. CASE ClickDecides(b) \/ ClickTooLate(b)
    BY <2>1, <2>2, ClickCloses, SpendButtons DEF ClickDecides, ClickTooLate
  <2>3. CASE ClickExpired(b)
    BY <2>1, <2>3, ExpireButtons DEF ClickExpired
  <2> QED
    BY <1>3, <2>2, <2>3 DEF Click
<1>4. CASE UNCHANGED vars
  <2>1. Carried /\ UNCHANGED button
    BY <1>4 DEF vars, Carried, Settled, Closed, Target, LastAsk
  <2> QED
    BY <2>1, QuietButtons
<1> QED
  BY <1>1, <1>2, <1>3, <1>4 DEF Next

\* Requests, prompts, decisions and buttons agree in every reachable state.
LEMMA PromptsInvariant == Spec => [](Control /\ Buttons)
<1>1. Init => Control /\ Buttons
  BY InitControl, InitButtons
<1>2. Control /\ Buttons /\ [Next]_vars => Control' /\ Buttons'
  BY StepControl, StepButtons
<1> QED
  BY <1>1, <1>2, PTL DEF Spec

\* No prompt is answered both ways by its buttons, whatever is clicked, in
\* whatever order, and whatever other task's buttons are retired with them.
THEOREM OneButtonSpent == Spec => []OneVerdict
<1>1. Control /\ Buttons => OneVerdict
  <2>1. SUFFICES ASSUME Buttons, NEW t \in Task, NEW n \in Ask
                 PROVE  \E b \in Pair(t, n) : button[b] # "consumed"
    BY DEF OneVerdict
  <2> DEFINE b == <<t, n, "approve">>
  <2>2. b \in Button /\ b \in Pair(t, n)
    BY DEF Button, Pair, Route
  <2> HIDE DEF b
  <2>3. Mate(b) \in Pair(t, n)
    BY <2>2, PairIs
  <2>4. button[b] # "consumed" \/ button[Mate(b)] # "consumed"
    BY <2>1, <2>2 DEF Buttons, SpentOnce
  <2> QED
    BY <2>2, <2>3, <2>4
<1> QED
  BY <1>1, PromptsInvariant, PTL

\* A click that finds its button usable finds its request settled or still
\* pending: no button is spent for nothing.
THEOREM ClicksCount == Spec => []SpentMeansDecided
<1>1. Control /\ Buttons => SpentMeansDecided
  BY DEF Buttons
<1> QED
  BY <1>1, PromptsInvariant, PTL
-----------------------------------------------------------------------------
(***************************************************************************)
(* Something to react to.                                                  *)
(***************************************************************************)

\* A nonempty set of numbers up to a bound has a maximum.
LEMMA MaxOfBounded ==
  ASSUME NEW N \in Nat, NEW S, S \subseteq 0..N, S # {}
  PROVE  Max(S) \in S /\ \A y \in S : Max(S) >= y
<1> DEFINE T == {i \in 0..N : N - i \in S}
<1>1. T \subseteq Nat /\ T # {}
  <2>1. PICK y \in S : TRUE
    OBVIOUS
  <2>2. N - y \in 0..N /\ N - (N - y) = y
    BY <2>1
  <2> QED
    BY <2>1, <2>2
<1>2. PICK m \in T : \A i \in T : ~(<<i, m>> \in OpToRel(<, Nat))
  BY <1>1, NatLessThanWellFounded, WFMin
<1>3. \A i \in T : m <= i
  <2> SUFFICES ASSUME NEW i \in T
               PROVE  m <= i
    OBVIOUS
  <2>1. SUFFICES ASSUME ~(m <= i)
                 PROVE  FALSE
    OBVIOUS
  <2>2. i \in 0..N /\ m \in 0..N
    OBVIOUS
  <2>3. i \in Nat /\ m \in Nat /\ i < m
    BY <2>1, <2>2
  <2>4. <<i, m>> \in OpToRel(<, Nat)
    BY <2>3 DEF OpToRel
  <2> QED
    BY <1>2, <2>4
<1>4. N - m \in S /\ \A y \in S : N - m >= y
  <2>1. SUFFICES ASSUME NEW y \in S
                 PROVE  N - m >= y
    BY <1>2
  <2>2. N - y \in T /\ y \in 0..N
    OBVIOUS
  <2>3. m <= N - y /\ m \in 0..N
    BY <1>2, <1>3, <2>2
  <2> QED
    BY <2>2, <2>3
<1> QED
  BY <1>4 DEF Max

\* A waiting task shows its user a committed prompt, so a reaction is always
\* possible: after crashes, failed calls, and buttons that expired or were
\* retired with another task's.
THEOREM AnswersArePossible == Spec => []AlwaysAnswerable
<1>1. Control => AlwaysAnswerable
  <2>1. SUFFICES ASSUME Control, NEW t \in Task, stage[t] = "waiting"
                 PROVE  PendingKey(t) # NoKey /\ <<t, NewestPrompt(t)>> \in shown
    BY DEF AlwaysAnswerable
  <2>2. PendingKey(t) = LastKey(t) /\ LastKey(t) \in Key
    BY <2>1, PendingIsLast DEF Control, Asking
  <2> DEFINE S == {outbox[t][k] : k \in Key}
  <2>3. S \subseteq 0..MaxAsks /\ MaxAsks \in Nat
    BY <2>1, PromptsAssumption DEF Control, TypeOK
  <2>4. outbox[t][LastKey(t)] \in S /\ outbox[t][LastKey(t)] # 0
    BY <2>1, <2>2 DEF Control, LastIsShown
  <2>5. NewestPrompt(t) \in S /\ \A y \in S : NewestPrompt(t) >= y
    <3>1. NewestPrompt(t) = Max(S)
      BY DEF NewestPrompt
    <3> HIDE DEF S
    <3> QED
      BY <2>3, <2>4, <3>1, MaxOfBounded
  <2>6. PICK k \in Key : NewestPrompt(t) = outbox[t][k]
    BY <2>5
  <2>7. outbox[t][k] # 0
    <3>1. outbox[t][k] >= outbox[t][LastKey(t)]
      BY <2>4, <2>5, <2>6
    <3>2. outbox[t][k] \in Nat /\ outbox[t][LastKey(t)] \in Nat
      BY <2>2, <2>3
    <3> QED
      BY <2>4, <3>1, <3>2
  <2>8. <<t, outbox[t][k]>> \in shown
    BY <2>1, <2>7 DEF Control, OutboxIsShown
  <2> QED
    BY <2>2, <2>6, <2>8, PromptsAssumption
<1> QED
  BY <1>1, ControlInvariant, PTL
-----------------------------------------------------------------------------
(***************************************************************************)
(* The contract.                                                           *)
(***************************************************************************)
Question(t) == IF stage[t] = "waiting" THEN PendingKey(t) ELSE NoKey

\* The initial states correspond.
LEMMA InitContract == Init => Contract!Init
BY DEF Init, Contract!Init

\* A task that parks puts its question.
LEMMA ParkIsWait ==
  ASSUME Control, NEW t \in Task, ParkPosted(t) \/ ParkReused(t)
  PROVE  \E k \in Key : Contract!Wait(t, k)
<1>1. /\ stage[t] \in {"asked", "posted"} /\ stage'[t] = "waiting"
      /\ \A u \in Task : u # t => stage'[u] = stage[u]
      /\ UNCHANGED <<asks, decision>>
  BY DEF ParkPosted, ParkReused, Enter, Control, TypeOK
<1>2. \A u \in Task : PendingKey(u)' = PendingKey(u)
  BY <1>1 DEF PendingKey, Undecided, LastAsk
<1>3. PICK k \in Key : k = LastKey(t)
  BY <1>1, LastTyped DEF Control, Asking
<1>4. decision[t][k] = "none" /\ PendingKey(t) = k
  BY <1>1, <1>3, PendingIsLast DEF Control, LastIsOpen, Asking
<1>5. /\ Question(t) = NoKey /\ Question(t)' = k
      /\ \A u \in Task : u # t => Question(u)' = Question(u)
  BY <1>1, <1>2, <1>4 DEF Question
<1>6. {u \in Task : stage'[u] = "over"} = {u \in Task : stage[u] = "over"}
  BY <1>1
<1>7. Contract!Wait(t, k)
  BY <1>1, <1>4, <1>5, <1>6 DEF Contract!Wait, Question
<1> QED
  BY <1>7

\* Approving and rejecting answer the question.
LEMMA DecideIsAnswer ==
  ASSUME Control, NEW t \in Task, NEW r \in Route, stage[t] = "waiting",
         Decide(t, r), UNCHANGED asks
  PROVE  Contract!Approve(t) \/ Contract!Reject(t)
<1> DEFINE key == LastKey(t)
<1>1. PendingKey(t) = key /\ key \in Key /\ key # NoKey
  BY PendingIsLast, PromptsAssumption DEF Control, Asking
<1>2. /\ decision' = [decision EXCEPT ![t][key] =
                         IF r = "approve" THEN "approved" ELSE "rejected"]
      /\ stage'[t] = IF r = "approve" THEN "queued" ELSE "over"
      /\ \A u \in Task : u # t => /\ stage'[u] = stage[u]
                                 /\ decision'[u] = decision[u]
  BY <1>1 DEF Decide, Enter, Control, TypeOK
<1>3. \A u \in Task : u # t => PendingKey(u)' = PendingKey(u)
  BY <1>2 DEF PendingKey, Undecided, LastAsk
<1>4. /\ Question(t) = key /\ Question(t)' = NoKey
      /\ \A u \in Task : u # t => Question(u)' = Question(u)
  BY <1>1, <1>2, <1>3 DEF Question
<1> HIDE DEF key
<1>5. CASE r = "approve"
  <2>1. {u \in Task : stage'[u] = "over"} = {u \in Task : stage[u] = "over"}
    BY <1>2, <1>5
  <2>2. [u \in Task |-> Question(u)'] =
          [[u \in Task |-> Question(u)] EXCEPT ![t] = NoKey]
    BY <1>4
  <2> QED
    BY <1>1, <1>2, <1>4, <1>5, <2>1, <2>2 DEF Contract!Approve, Question
<1>6. CASE r = "reject"
  <2>1. {u \in Task : stage'[u] = "over"} = {u \in Task : stage[u] = "over"} \cup {t}
    BY <1>2, <1>6
  <2>2. [u \in Task |-> Question(u)'] =
          [[u \in Task |-> Question(u)] EXCEPT ![t] = NoKey]
    BY <1>4
  <2> QED
    BY <1>1, <1>2, <1>4, <1>6, <2>1, <2>2 DEF Contract!Reject, Question
<1> QED
  BY <1>5, <1>6 DEF Route

\* Finishing and cancelling close the task.
LEMMA EndIsClose ==
  ASSUME Control, NEW t \in Task, Finish(t) \/ Cancel(t)
  PROVE  Contract!Close(t)
<1>1. /\ stage[t] # "over" /\ stage'[t] = "over"
      /\ \A u \in Task : u # t => stage'[u] = stage[u]
      /\ UNCHANGED <<asks, decision>>
  BY DEF Finish, Cancel, Enter, Control, TypeOK
<1>2. \A u \in Task : PendingKey(u)' = PendingKey(u)
  BY <1>1 DEF PendingKey, Undecided, LastAsk
<1>3. /\ Question(t)' = NoKey
      /\ \A u \in Task : u # t => Question(u)' = Question(u)
  BY <1>1, <1>2 DEF Question
<1>4. {u \in Task : stage'[u] = "over"} = {u \in Task : stage[u] = "over"} \cup {t}
  BY <1>1
<1> QED
  BY <1>1, <1>3, <1>4 DEF Contract!Close, Question

\* All other steps of the worker, retries and spare clicks are invisible.
LEMMA OtherIsInvisible ==
  ASSUME Control, NEW t \in Task,
         \/ Start(t) \/ (\E k \in Key : AskApproval(t, k)) \/ CallSlack(t)
         \/ CallFails(t) \/ CommitPost(t) \/ Crash(t) \/ RetryFailed(t)
  PROVE  UNCHANGED Contract!cvars
<1>1. /\ stage[t] \notin {"over", "waiting"} /\ stage'[t] \notin {"over", "waiting"}
      /\ \A u \in Task : u # t => stage'[u] = stage[u] /\ asks'[u] = asks[u]
      /\ UNCHANGED decision
  BY DEF Start, AskApproval, CallSlack, CallFails, CommitPost, Crash, RetryFailed,
         Enter, Control, TypeOK
<1>2. \A u \in Task : u # t => PendingKey(u)' = PendingKey(u)
  BY <1>1 DEF PendingKey, Undecided, LastAsk
<1>3. \A u \in Task : Question(u)' = Question(u)
  BY <1>1, <1>2 DEF Question
<1>4. {u \in Task : stage'[u] = "over"} = {u \in Task : stage[u] = "over"}
  BY <1>1
<1> QED
  BY <1>1, <1>3, <1>4 DEF Contract!cvars, Question

\* Every step is a step of the contract or invisible.
LEMMA StepContract == Control /\ [Next]_vars => [Contract!Next]_(Contract!cvars)
<1> SUFFICES ASSUME Control, [Next]_vars
             PROVE  [Contract!Next]_(Contract!cvars)
  OBVIOUS
<1>1. ASSUME NEW t \in Task, Work(t)
      PROVE  [Contract!Next]_(Contract!cvars)
  <2>1. CASE ParkPosted(t) \/ ParkReused(t)
    BY <2>1, ParkIsWait DEF Contract!Next
  <2>2. CASE Finish(t)
    BY <2>2, EndIsClose DEF Contract!Next
  <2> QED
    BY <1>1, <2>1, <2>2, OtherIsInvisible DEF Work
<1>2. ASSUME NEW t \in Task, Answer(t)
      PROVE  [Contract!Next]_(Contract!cvars)
  <2>1. CASE Cancel(t)
    BY <2>1, EndIsClose DEF Contract!Next
  <2>2. ASSUME NEW r \in Route, React(t, r)
        PROVE  Contract!Approve(t) \/ Contract!Reject(t)
    BY <2>2, DecideIsAnswer DEF React
  <2> QED
    BY <1>2, <2>1, <2>2, OtherIsInvisible DEF Answer, Contract!Next
<1>3. ASSUME NEW b \in Button, Click(b)
      PROVE  [Contract!Next]_(Contract!cvars)
  <2>1. CASE ClickDecides(b)
    <3>1. PICK t \in Task, r \in Route : t = b[1] /\ r = b[3]
      BY DEF Button
    <3>2. Contract!Approve(t) \/ Contract!Reject(t)
      BY <2>1, <3>1, DecideIsAnswer DEF ClickDecides, Answerable
    <3> QED
      BY <3>2 DEF Contract!Next
  <2>2. CASE ClickTooLate(b) \/ ClickExpired(b)
    <3>1. UNCHANGED <<stage, asks, decision>>
      BY <2>2 DEF ClickTooLate, ClickExpired
    <3> QED
      BY <3>1 DEF Contract!cvars, PendingKey, Undecided, LastAsk
  <2> QED
    BY <1>3, <2>1, <2>2 DEF Click
<1>4. CASE UNCHANGED vars
  BY <1>4 DEF vars, Contract!cvars, PendingKey, Undecided, LastAsk
<1> QED
  BY <1>1, <1>2, <1>3, <1>4 DEF Next

\* Prompts, buttons, clicks and reactions implement ApprovalContract, under
\* every fault.
THEOREM PromptsImplementContract == Spec => ImplementsContract
<1> QED
  BY InitContract, StepContract, ControlInvariant, PTL
     DEF Spec, ImplementsContract, Contract!Spec
-----------------------------------------------------------------------------
(***************************************************************************)
(* Prompts whose workers do not crash.                                     *)
(***************************************************************************)

\* No task may ask for a key another may ask for: keys that name the arguments
\* of one tool call in one task.
NoKeyShared ==
  \A t, u \in Task : t # u => Askable[t] \cap Askable[u] = {}

\* The requests of a task are for keys its tools may ask for.
AsksAreOwn ==
  \A t \in Task : \A n \in 1..LastAsk(t) : asks[t][n] \in Askable[t]

\* A prompt of the outbox whose key is still open is the last request's, which
\* the task waits for.
OpenPromptIsLast ==
  \A t \in Task, k \in Key : outbox[t][k] # 0 =>
    \/ decision[t][k] # "none"
    \/ stage[t] = "over"
    \/ stage[t] \in {"posted", "waiting"} /\ outbox[t][k] = LastAsk(t)

\* The buttons of the request a task waits for.
LastPairWorks ==
  \A t \in Task : stage[t] = "waiting" =>
    \A b \in Pair(t, LastAsk(t)) : button[b] = "sent"

Uninterrupted == Control /\ OpenPromptIsLast
Working == AsksAreOwn /\ LastPairWorks

\* At first nothing was asked.
LEMMA InitUninterrupted == Init => OpenPromptIsLast /\ Working
BY DEF Init, OpenPromptIsLast, Working, AsksAreOwn, LastPairWorks, LastAsk

\* What Decide writes closes the prompt the task waited for.
LEMMA DecideOpen ==
  ASSUME Uninterrupted, NEW t \in Task, NEW r \in Route, stage[t] = "waiting",
         Decide(t, r), UNCHANGED <<asks, outbox>>
  PROVE  OpenPromptIsLast'
<1> DEFINE key == LastKey(t)
<1>1. /\ \A u \in Task : u # t => stage'[u] = stage[u] /\ decision'[u] = decision[u]
      /\ \A k \in Key : k # key => decision'[t][k] = decision[t][k]
      /\ decision'[t][key] # "none"
  BY DecideEffect DEF Uninterrupted
<1>2. \A k \in Key : outbox[t][k] # 0 /\ outbox[t][k] = LastAsk(t) => k = key
  BY DEF Uninterrupted, Control, OutboxIsShown, LastKey
<1> HIDE DEF key
<1>3. SUFFICES ASSUME NEW u \in Task, NEW k \in Key, outbox[u][k] # 0
               PROVE  \/ decision'[u][k] # "none"
                      \/ stage'[u] = "over"
                      \/ stage'[u] \in {"posted", "waiting"} /\ outbox[u][k] = LastAsk(u)
  BY DEF OpenPromptIsLast, LastAsk
<1>4. \/ decision[u][k] # "none"
      \/ stage[u] = "over"
      \/ stage[u] \in {"posted", "waiting"} /\ outbox[u][k] = LastAsk(u)
  BY <1>3 DEF Uninterrupted, OpenPromptIsLast
<1>5. CASE u = t
  BY <1>1, <1>2, <1>3, <1>4, <1>5
<1>6. CASE u # t
  BY <1>1, <1>4, <1>6
<1> QED
  BY <1>5, <1>6

\* The worker's steps: a message is posted once for a key, and its task waits
\* with it.  Only a crash could leave a posted prompt behind.
LEMMA WorkOpen ==
  ASSUME Faults \subseteq {"failed_call", "expiry"},
         Uninterrupted, NEW t \in Task, Work(t)
  PROVE  OpenPromptIsLast'
<1>1. TypeOK /\ OpenPromptIsLast
  BY DEF Uninterrupted, Control
<1>2. CASE Start(t) \/ CallSlack(t) \/ CallFails(t) \/ Finish(t)
  <2>1. /\ stage[t] \notin {"posted", "waiting", "over"}
        /\ \A u \in Task : u # t => stage'[u] = stage[u]
        /\ UNCHANGED <<asks, decision, outbox>>
    BY <1>1, <1>2 DEF Start, CallSlack, CallFails, Finish, Enter, TypeOK
  <2> QED
    BY <1>1, <2>1 DEF OpenPromptIsLast, LastAsk
<1>3. ASSUME NEW k \in Key, AskApproval(t, k)
      PROVE  OpenPromptIsLast'
  <2>1. /\ stage[t] = "running"
        /\ \A u \in Task : u # t => stage'[u] = stage[u] /\ asks'[u] = asks[u]
        /\ UNCHANGED <<decision, outbox>>
    BY <1>1, <1>3 DEF AskApproval, Enter, TypeOK
  <2> QED
    BY <1>1, <2>1 DEF OpenPromptIsLast, LastAsk
<1>4. CASE CommitPost(t)
  <2>1. /\ stage[t] = "called" /\ stage'[t] = "posted"
        /\ \A u \in Task : u # t => stage'[u] = stage[u]
        /\ UNCHANGED <<asks, decision>>
    BY <1>1, <1>4 DEF CommitPost, Enter, TypeOK
  <2>2. LastKey(t) \in Key
    BY <2>1, LastTyped DEF Uninterrupted, Control, Asking
  <2>3. /\ outbox'[t][LastKey(t)] = LastAsk(t)
        /\ \A u \in Task, j \in Key :
             u # t \/ j # LastKey(t) => outbox'[u][j] = outbox[u][j]
    BY <1>1, <1>4, <2>2 DEF CommitPost, TypeOK
  <2>4. SUFFICES ASSUME NEW u \in Task, NEW j \in Key, outbox'[u][j] # 0
                 PROVE  \/ decision[u][j] # "none"
                        \/ stage'[u] = "over"
                        \/ stage'[u] \in {"posted", "waiting"} /\ outbox'[u][j] = LastAsk(u)
    BY <2>1 DEF OpenPromptIsLast, LastAsk
  <2>5. CASE u = t /\ j = LastKey(t)
    BY <2>1, <2>3, <2>5
  <2>6. CASE ~(u = t /\ j = LastKey(t))
    BY <1>1, <2>1, <2>3, <2>4, <2>6 DEF OpenPromptIsLast
  <2> QED
    BY <2>5, <2>6
<1>5. CASE ParkPosted(t)
  <2>1. /\ stage[t] = "posted" /\ stage'[t] = "waiting"
        /\ \A u \in Task : u # t => stage'[u] = stage[u]
        /\ UNCHANGED <<asks, decision, outbox>>
    BY <1>1, <1>5 DEF ParkPosted, Enter, TypeOK
  <2> QED
    BY <1>1, <2>1 DEF OpenPromptIsLast, LastAsk
<1>6. ~ParkReused(t)
  <2> SUFFICES ASSUME ParkReused(t)
               PROVE  FALSE
    OBVIOUS
  <2>1. stage[t] = "asked" /\ outbox[t][LastKey(t)] # 0
    BY DEF ParkReused
  <2>2. LastKey(t) \in Key /\ decision[t][LastKey(t)] = "none"
    BY <2>1, LastTyped DEF Uninterrupted, Control, LastIsOpen, Asking
  <2> QED
    BY <1>1, <2>1, <2>2 DEF OpenPromptIsLast
<1>7. ~Crash(t)
  BY DEF Crash
<1> QED
  BY <1>2, <1>3, <1>4, <1>5, <1>6, <1>7 DEF Work

\* No step posts a second prompt for an open key, if no worker crashes.
LEMMA StepOpen ==
  ASSUME Faults \subseteq {"failed_call", "expiry"}
  PROVE  Uninterrupted /\ [Next]_vars => OpenPromptIsLast'
<1> SUFFICES ASSUME Uninterrupted, [Next]_vars
             PROVE  OpenPromptIsLast'
  OBVIOUS
<1>1. ASSUME NEW t \in Task, Work(t)
      PROVE  OpenPromptIsLast'
  BY <1>1, WorkOpen
<1>2. ASSUME NEW t \in Task, Answer(t)
      PROVE  OpenPromptIsLast'
  <2>1. CASE RetryFailed(t) \/ Cancel(t)
    <3>1. /\ \/ stage[t] \notin {"posted", "waiting", "over"}
             \/ stage'[t] = "over"
          /\ \A u \in Task : u # t => stage'[u] = stage[u]
          /\ UNCHANGED <<asks, decision, outbox>>
      BY <2>1 DEF RetryFailed, Cancel, Enter, Uninterrupted, Control, TypeOK
    <3> QED
      BY <3>1 DEF Uninterrupted, OpenPromptIsLast, LastAsk
  <2>2. ASSUME NEW r \in Route, React(t, r)
        PROVE  OpenPromptIsLast'
    BY <2>2, DecideOpen DEF React
  <2> QED
    BY <1>2, <2>1, <2>2 DEF Answer
<1>3. ASSUME NEW b \in Button, Click(b)
      PROVE  OpenPromptIsLast'
  <2>1. CASE ClickDecides(b)
    BY <2>1, DecideOpen, MateIs DEF ClickDecides, Answerable
  <2>2. CASE ClickTooLate(b) \/ ClickExpired(b)
    <3>1. UNCHANGED <<stage, asks, decision, outbox>>
      BY <2>2 DEF ClickTooLate, ClickExpired
    <3> QED
      BY <3>1 DEF Uninterrupted, OpenPromptIsLast, LastAsk
  <2> QED
    BY <1>3, <2>1, <2>2 DEF Click
<1>4. CASE UNCHANGED vars
  BY <1>4 DEF vars, Uninterrupted, OpenPromptIsLast, LastAsk
<1> QED
  BY <1>1, <1>2, <1>3, <1>4 DEF Next

LEMMA UninterruptedAlways ==
  ASSUME Faults \subseteq {"failed_call", "expiry"}
  PROVE  Spec => []Uninterrupted
<1>1. Init => Uninterrupted
  BY InitControl, InitUninterrupted DEF Uninterrupted
<1>2. Uninterrupted /\ [Next]_vars => Uninterrupted'
  BY StepControl, StepOpen DEF Uninterrupted
<1> QED
  BY <1>1, <1>2, PTL DEF Spec

\* If no worker crashes, a reaction decides what the newest prompt of the
\* thread describes, although the handler looks the two up independently: after
\* failed calls, expired buttons, and whatever keys tasks share.  After a crash
\* an older prompt may be reused, and the newest one is for another tool.
THEOREM ReactionsDecideShown ==
  ASSUME Faults \subseteq {"failed_call", "expiry"}
  PROVE  Spec => []ReactionMeansShown
<1>1. Uninterrupted => ReactionMeansShown
  <2>1. SUFFICES ASSUME Uninterrupted, NEW t \in Task, stage[t] = "waiting"
                 PROVE  asks[t][NewestPrompt(t)] = PendingKey(t)
    BY DEF ReactionMeansShown
  <2>2. PendingKey(t) = LastKey(t) /\ LastKey(t) \in Key /\ LastAsk(t) \in Ask
    BY <2>1, PendingIsLast, LastTyped DEF Uninterrupted, Control, Asking
  <2> DEFINE S == {outbox[t][k] : k \in Key}
  <2>3. outbox[t][LastKey(t)] \in S /\ S \subseteq 0..MaxAsks
    BY <2>1, <2>2 DEF Uninterrupted, Control, TypeOK
  <2>4. LastAsk(t) \in Nat /\ \A y \in S : y \in Nat /\ y <= LastAsk(t)
    <3>1. LastAsk(t) \in Nat
      BY <2>2, PromptsAssumption DEF Ask
    <3>2. \A k \in Key : outbox[t][k] \in Nat /\ outbox[t][k] <= LastAsk(t)
      <4>1. \A k \in Key : outbox[t][k] \in 0..MaxAsks
        BY <2>1 DEF Uninterrupted, Control, TypeOK
      <4>2. \A k \in Key : outbox[t][k] # 0 => outbox[t][k] <= LastAsk(t)
        BY <2>1 DEF Uninterrupted, Control, OutboxIsShown
      <4> QED
        BY <3>1, <4>1, <4>2, PromptsAssumption
    <3> QED
      BY <3>1, <3>2
  <2>5. outbox[t][LastKey(t)] = LastAsk(t)
    BY <2>1, <2>2
       DEF Uninterrupted, Control, LastIsOpen, LastIsShown, OpenPromptIsLast, Asking
  <2>6. NewestPrompt(t) = Max(S)
    BY DEF NewestPrompt
  <2> HIDE DEF S
  <2>7. Max(S) \in S /\ \A y \in S : Max(S) >= y
    BY <2>3, MaxOfBounded, PromptsAssumption
  <2>8. Max(S) \in Nat /\ Max(S) <= LastAsk(t) /\ Max(S) >= LastAsk(t)
    BY <2>3, <2>4, <2>5, <2>7
  <2>9. NewestPrompt(t) = LastAsk(t)
    BY <2>4, <2>6, <2>8
  <2> QED
    BY <2>2, <2>9 DEF LastKey
<1> QED
  BY <1>1, UninterruptedAlways, PTL

\* What holds of the last pair holds still if neither the last request nor its
\* buttons changed, and the task did not just park.
LEMMA QuietPair ==
  ASSUME Control, Working, NEW t \in Task,
         \A u \in Task : u # t => stage'[u] = stage[u],
         stage'[t] # "waiting",
         \A u \in Task : u # t => asks'[u] = asks[u],
         \A u \in Task : u # t => \A b \in Button :
            b[1] = u => button'[b] = button[b]
  PROVE  LastPairWorks'
<1>1. SUFFICES ASSUME NEW u \in Task, stage'[u] = "waiting",
                      NEW b \in Pair(u, LastAsk(u)')
               PROVE  button'[b] = "sent"
  BY DEF LastPairWorks, Pair
<1>2. u # t /\ stage[u] = "waiting" /\ LastAsk(u)' = LastAsk(u)
  BY <1>1 DEF LastAsk
<1>3. LastAsk(u) \in Ask
  BY <1>2, LastTyped DEF Control, Asking
<1>4. b \in Button /\ b[1] = u /\ b \in Pair(u, LastAsk(u))
  BY <1>1, <1>2, <1>3, PairIs
<1> QED
  BY <1>2, <1>4 DEF Working, LastPairWorks

\* The steps of one task's worker.
LEMMA WorkPair ==
  ASSUME Control, Working, NEW t \in Task, Work(t)
  PROVE  LastPairWorks'
<1>1. /\ \A u \in Task : u # t => stage'[u] = stage[u] /\ asks'[u] = asks[u]
      /\ stage[t] # "waiting"
  BY DEF Work, Start, AskApproval, CallSlack, CallFails, CommitPost, ParkPosted,
         ParkReused, Finish, Crash, Enter, Control, TypeOK
<1>2. CASE ParkPosted(t) \/ ParkReused(t)
  <2>1. /\ stage[t] \in {"asked", "posted"} /\ UNCHANGED asks
        /\ SetButtons(Pair(t, LastAsk(t)), "sent")
    BY <1>2 DEF ParkPosted, ParkReused
  <2>2. LastAsk(t) \in Ask
    BY <2>1, LastTyped DEF Control, Asking
  <2>3. SUFFICES ASSUME NEW u \in Task, stage'[u] = "waiting",
                        NEW b \in Pair(u, LastAsk(u))
                 PROVE  button'[b] = "sent"
    BY <2>1 DEF LastPairWorks, Pair, LastAsk
  <2>4. CASE u = t
    <3>1. b \in Button
      BY <2>2, <2>3, <2>4, PairIs
    <3> QED
      BY <2>1, <2>3, <2>4, <3>1 DEF SetButtons
  <2>5. CASE u # t
    <3>1. stage[u] = "waiting"
      BY <1>1, <2>3, <2>5
    <3>2. LastAsk(u) \in Ask
      BY <3>1, LastTyped DEF Control, Asking
    <3>3. b \in Button /\ b[1] = u /\ b \notin Pair(t, LastAsk(t))
      BY <2>2, <2>3, <2>5, <3>2, PairIs
    <3> QED
      BY <2>1, <2>3, <3>1, <3>3 DEF SetButtons, Working, LastPairWorks
  <2> QED
    BY <2>4, <2>5
<1>3. CASE ~(ParkPosted(t) \/ ParkReused(t))
  <2>1. stage'[t] # "waiting"
    BY <1>3 DEF Work, Start, AskApproval, CallSlack, CallFails, CommitPost,
                Finish, Crash, Enter, Control, TypeOK
  <2>2. \A u \in Task : u # t => \A b \in Button : b[1] = u => button'[b] = button[b]
    <3>1. CASE CommitPost(t)
      <4>1. stage[t] = "called" /\ SetButtons(Pair(t, LastAsk(t)), "pending_send")
        BY <3>1 DEF CommitPost
      <4>2. LastAsk(t) \in Ask
        BY <4>1, LastTyped DEF Control, Asking
      <4>3. \A b \in Button : b[1] # t => b \notin Pair(t, LastAsk(t))
        BY <4>2, PairIs
      <4> QED
        BY <4>1, <4>3 DEF SetButtons
    <3>2. CASE ~CommitPost(t)
      BY <1>3, <3>2 DEF Work, Start, AskApproval, CallSlack, CallFails, Finish, Crash
    <3> QED
      BY <3>1, <3>2
  <2> QED
    BY <1>1, <2>1, <2>2, QuietPair
<1> QED
  BY <1>2, <1>3

\* The user's reactions, retries and cancellations.
LEMMA AnswerPair ==
  ASSUME Control, Working, NEW t \in Task, Answer(t)
  PROVE  LastPairWorks'
<1>1. CASE RetryFailed(t) \/ Cancel(t)
  <2>1. /\ \A u \in Task : u # t => stage'[u] = stage[u]
        /\ stage'[t] # "waiting" /\ UNCHANGED <<asks, button>>
    BY <1>1 DEF RetryFailed, Cancel, Enter, Control, TypeOK
  <2> QED
    BY <2>1, QuietPair
<1>2. ASSUME NEW r \in Route, React(t, r)
      PROVE  LastPairWorks'
  <2>1. stage[t] = "waiting" /\ Decide(t, r) /\ UNCHANGED <<asks, button>>
    BY <1>2 DEF React
  <2>2. (\A u \in Task : u # t => stage'[u] = stage[u]) /\ stage'[t] # "waiting"
    BY <2>1, DecideEffect
  <2> QED
    BY <2>1, <2>2, QuietPair
<1> QED
  BY <1>1, <1>2 DEF Answer

\* Where no key is shared, the buttons a click retires are of its own task.
LEMMA SiblingsAreOwn ==
  ASSUME NoKeyShared, Control, Buttons, Working,
         NEW b \in Button, button[b] = "sent", NEW c \in Siblings(b)
  PROVE  c[1] = b[1]
<1>1. c \in Button /\ button[c] \in Live /\ Target(c) = Target(b)
  BY DEF Siblings
<1>2. /\ b[1] \in Task /\ b[2] \in 1..LastAsk(b[1])
      /\ c[1] \in Task /\ c[2] \in 1..LastAsk(c[1])
  <2>1. /\ b[1] \in Task /\ b[2] \in Ask /\ c[1] \in Task /\ c[2] \in Ask
        /\ LastAsk(b[1]) \in Nat /\ LastAsk(c[1]) \in Nat
    BY <1>1, MateIs DEF Control, TypeOK, LastAsk
  <2>2. b[2] <= LastAsk(b[1]) /\ c[2] <= LastAsk(c[1])
    BY <1>1 DEF Buttons, MintedForAsks, Live
  <2> QED
    BY <2>1, <2>2, PromptsAssumption DEF Ask
<1>3. Target(b) \in Askable[b[1]] /\ Target(c) \in Askable[c[1]]
  BY <1>2 DEF Working, AsksAreOwn, Target
<1> QED
  BY <1>1, <1>2, <1>3 DEF NoKeyShared

\* A click either decides what its task waits for, and the task waits no
\* longer, or finds a request that is not the one its task waits for.
LEMMA ClickPair ==
  ASSUME NoKeyShared, "expiry" \notin Faults,
         Control, Buttons, Working, NEW b \in Button, Click(b)
  PROVE  LastPairWorks'
<1> DEFINE t == b[1]
<1>1. t \in Task /\ b[3] \in Route
  BY MateIs
<1>2. /\ button[b] = "sent" /\ Spend(b) /\ UNCHANGED asks
      /\ ClickDecides(b) \/ ClickTooLate(b)
  BY DEF Click, ClickDecides, ClickTooLate, ClickExpired, Clickable
<1>3. \A c \in Button : c[1] # t => button'[c] = button[c]
  BY <1>2, SiblingsAreOwn DEF Spend
<1>4. CASE ClickDecides(b)
  <2>1. stage[t] = "waiting" /\ Decide(t, b[3])
    BY <1>4 DEF ClickDecides, Answerable
  <2>2. (\A u \in Task : u # t => stage'[u] = stage[u]) /\ stage'[t] # "waiting"
    BY <1>1, <2>1, DecideEffect
  <2> HIDE DEF t
  <2> QED
    BY <1>1, <1>2, <1>3, <2>2, QuietPair
<1>5. CASE ClickTooLate(b)
  <2>1. UNCHANGED stage /\ ~Answerable(t, Target(b))
    BY <1>5 DEF ClickTooLate
  <2>2. SUFFICES ASSUME NEW u \in Task, stage[u] = "waiting",
                        NEW c \in Pair(u, LastAsk(u))
                 PROVE  button'[c] = "sent"
    BY <1>2, <2>1 DEF LastPairWorks, Pair, LastAsk
  <2>3. LastAsk(u) \in Ask
    BY <2>2, LastTyped DEF Control, Asking
  <2>4. c \in Button /\ c[1] = u /\ c[2] = LastAsk(u) /\ button[c] = "sent"
    BY <2>2, <2>3, PairIs DEF Working, LastPairWorks
  <2>5. c # b /\ c \notin Siblings(b)
    <3>1. SUFFICES ASSUME c = b \/ c \in Siblings(b)
                   PROVE  FALSE
      OBVIOUS
    <3>2. u = t /\ Target(b) = LastKey(u)
      BY <1>2, <2>4, <3>1, SiblingsAreOwn DEF Siblings, Target, LastKey
    <3>3. PendingKey(u) = LastKey(u) /\ LastKey(u) \in Key
      BY <2>2, PendingIsLast DEF Control, Asking
    <3> QED
      BY <2>1, <2>2, <3>2, <3>3, PromptsAssumption DEF Answerable
  <2> QED
    BY <1>2, <2>4, <2>5 DEF Spend
<1> QED
  BY <1>2, <1>4, <1>5

\* A task asks for nothing but its own keys.
LEMMA AsksStayOwn ==
  ASSUME Control, Working, [Next]_vars
  PROVE  AsksAreOwn'
<1>1. CASE UNCHANGED asks
  BY <1>1 DEF Working, AsksAreOwn, LastAsk
<1>2. ASSUME NEW t \in Task, NEW k \in Key, AskApproval(t, k)
      PROVE  AsksAreOwn'
  <2>1. /\ k \in Askable[t] /\ asks[t] \in Seq(Key)
        /\ asks'[t] = Append(asks[t], k)
        /\ \A u \in Task : u # t => asks'[u] = asks[u]
    BY <1>2 DEF AskApproval, Control, TypeOK
  <2>2. SUFFICES ASSUME NEW u \in Task, NEW n \in 1..LastAsk(u)'
                 PROVE  asks'[u][n] \in Askable[u]
    BY DEF AsksAreOwn
  <2>3. CASE u = t
    <3>1. n \in 1..LastAsk(t) + 1 /\ LastAsk(t) \in Nat
      BY <2>1, <2>2, <2>3 DEF LastAsk
    <3>2. CASE n = LastAsk(t) + 1
      BY <2>1, <2>3, <3>2 DEF LastAsk
    <3>3. CASE n \in 1..LastAsk(t)
      <4>1. asks'[t][n] = asks[t][n]
        BY <2>1, <3>3 DEF LastAsk
      <4> QED
        BY <2>3, <3>3, <4>1 DEF Working, AsksAreOwn
    <3> QED
      BY <3>1, <3>2, <3>3
  <2>4. CASE u # t
    BY <2>1, <2>2, <2>4 DEF Working, AsksAreOwn, LastAsk
  <2> QED
    BY <2>3, <2>4
<1>3. UNCHANGED asks \/ \E t \in Task, k \in Key : AskApproval(t, k)
  BY DEF Next, vars, Work, Answer, Click, Start, CallSlack, CallFails, CommitPost,
         ParkPosted, ParkReused, Finish, Crash, RetryFailed, Cancel, React,
         ClickDecides, ClickTooLate, ClickExpired
<1> QED
  BY <1>1, <1>2, <1>3

LEMMA WorkingAlways ==
  ASSUME NoKeyShared, "expiry" \notin Faults
  PROVE  Spec => []Working
<1>1. Init => Working
  BY InitUninterrupted
<1>2. Control /\ Buttons /\ Working /\ [Next]_vars => Working'
  <2> SUFFICES ASSUME Control, Buttons, Working, [Next]_vars
               PROVE  Working'
    OBVIOUS
  <2>1. AsksAreOwn'
    BY AsksStayOwn
  <2>2. LastPairWorks'
    <3>1. CASE UNCHANGED vars
      BY <3>1 DEF vars, Working, LastPairWorks, Pair, LastAsk
    <3> QED
      BY <3>1, WorkPair, AnswerPair, ClickPair DEF Next
  <2> QED
    BY <2>1, <2>2 DEF Working
<1> QED
  BY <1>1, <1>2, PromptsInvariant, PTL DEF Spec

\* If no worker crashes, no button expires and no two tasks ask for the same
\* key, the prompt a waiting task shows has two buttons that work, whatever was
\* clicked or reacted to before.  Each hypothesis is needed: a crash after the
\* post parks the task on buttons no message shows, and a click retires the
\* buttons of another task that waits for the same key.
THEOREM PromptsHaveButtons ==
  ASSUME NoKeyShared, Faults \subseteq {"failed_call"}
  PROVE  Spec => []ButtonsWork
<1>1. Uninterrupted /\ Working => ButtonsWork
  <2>1. SUFFICES ASSUME Uninterrupted, Working, NEW t \in Task, stage[t] = "waiting"
                 PROVE  HasWorkingButtons(t, PendingKey(t))
    BY DEF ButtonsWork
  <2>2. /\ PendingKey(t) = LastKey(t) /\ LastKey(t) \in Key
        /\ LastAsk(t) \in Ask
    BY <2>1, PendingIsLast, LastTyped DEF Uninterrupted, Control, Asking
  <2>3. outbox[t][LastKey(t)] = LastAsk(t)
    BY <2>1, <2>2
       DEF Uninterrupted, Control, LastIsOpen, LastIsShown, OpenPromptIsLast, Asking
  <2>4. <<t, LastAsk(t)>> \in shown
    BY <2>1, <2>2, <2>3
       DEF Uninterrupted, Control, LastIsShown, OutboxIsShown
  <2>5. LastAsk(t) \in 1..LastAsk(t) /\ asks[t][LastAsk(t)] = PendingKey(t)
    BY <2>2, PromptsAssumption DEF Ask, LastKey
  <2> QED
    BY <2>1, <2>4, <2>5 DEF HasWorkingButtons, Working, LastPairWorks
<1>2. Spec => []Uninterrupted /\ []Working
  BY UninterruptedAlways, WorkingAlways
<1> QED
  BY <1>1, <1>2, PTL
=============================================================================
