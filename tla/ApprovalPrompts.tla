--------------------------- MODULE ApprovalPrompts ---------------------------
(***************************************************************************)
(* How a task of kortny asks its user before it runs a risky tool, and how *)
(* the answer finds its way back: the request logged by the coordinator    *)
(* (agent/coordinator.py), the prompt posted with buttons                  *)
(* (worker/agent_executor.py, slack/posting.py, slack/outbox.py), the      *)
(* buttons as rows of their own (slack/interactions.py), and the two ways  *)
(* to answer: a click (slack/decisions.py) or an emoji reaction to the     *)
(* prompt (slack/ingress.py).                                              *)
(*                                                                         *)
(* The n-th request of a task is "ask n".  Each ask mints its own pair of  *)
(* buttons; whether it also posts a message is up to the outbox, which     *)
(* posts one message per task and key.                                     *)
(*                                                                         *)
(* An action is one committed transaction, one Slack call, or one answer   *)
(* of the user.  Here nobody cancels a running task and the rows handlers  *)
(* load are fresh: TaskLifecycle has what happens otherwise.  Connect      *)
(* prompts, which have no buttons, are left out.                           *)
(***************************************************************************)
EXTENDS Naturals, Sequences, FiniteSetsExt

CONSTANTS
  Task,      \* tasks of one installation
  Key,       \* approval keys
  Askable,   \* the keys the tools of each task may ask for
  MaxAsks,   \* bound on the asks of one task
  Faults,    \* see FaultKind
  NoKey

FaultKind == {
  "crash",        \* a worker dies in mid-run and the task is claimed again
  "failed_call",  \* the call that posts a prompt fails or times out
  "expiry"        \* a user answers after the buttons' day is over
}

ASSUME PromptsAssumption ==
  /\ Askable \in [Task -> SUBSET Key]
  /\ MaxAsks \in Nat \ {0}
  /\ Faults \subseteq FaultKind
  /\ NoKey \notin Key

VARIABLES
  stage,     \* where each task is, see Stage
  asks,      \* the keys of its approval requests, oldest first
  decision,  \* the decision logged for each key
  outbox,    \* per key, the ask whose message the outbox row records, or 0
  shown,     \* <<task, ask>> whose message is in the Slack thread
  button     \* the status of each interactive action

vars == <<stage, asks, decision, outbox, shown, button>>
-----------------------------------------------------------------------------
(***************************************************************************)
(*   queued   pending                                                      *)
(*   running  claimed, the agent's loop                                    *)
(*   asked    the request is logged                                        *)
(*   called   the prompt is in Slack, its transaction open                 *)
(*   posted   the outbox row, the buttons and message_posted committed     *)
(*   waiting  waiting_approval                                             *)
(*   failed   the executor raised                                          *)
(*   over     succeeded or cancelled                                       *)
(***************************************************************************)
Stage == {"queued", "running", "asked", "called", "posted", "waiting",
          "failed", "over"}
Asking == {"asked", "called", "posted", "waiting"}

Decision == {"none", "approved", "rejected"}
Route == {"approve", "reject"}
Ask == 1..MaxAsks
Button == Task \X Ask \X Route

\* "none": not minted, or minted in a transaction that was rolled back or is
\* still open.  The status consuming never commits.
ButtonStatus == {"none", "pending_send", "sent", "consumed", "superseded",
                 "expired"}
Live == {"pending_send", "sent"}

TypeOK ==
  /\ stage \in [Task -> Stage]
  /\ asks \in [Task -> Seq(Key)]
  /\ \A t \in Task : Len(asks[t]) <= MaxAsks
  /\ decision \in [Task -> [Key -> Decision]]
  /\ outbox \in [Task -> [Key -> 0..MaxAsks]]
  /\ shown \subseteq Task \X Ask
  /\ button \in [Button -> ButtonStatus]

Init ==
  /\ stage = [t \in Task |-> "queued"]
  /\ asks = [t \in Task |-> <<>>]
  /\ decision = [t \in Task |-> [k \in Key |-> "none"]]
  /\ outbox = [t \in Task |-> [k \in Key |-> 0]]
  /\ shown = {}
  /\ button = [b \in Button |-> "none"]
-----------------------------------------------------------------------------
Enter(t, s) == stage' = [stage EXCEPT ![t] = s]

LastAsk(t) == Len(asks[t])
LastKey(t) == asks[t][LastAsk(t)]

\* latest_pending_tool_approval: the newest request without a decision.
Undecided(t) == {n \in 1..LastAsk(t) : decision[t][asks[t][n]] = "none"}
PendingKey(t) == IF Undecided(t) = {} THEN NoKey
                                      ELSE asks[t][Max(Undecided(t))]

\* The newest message_posted event with the purpose of an approval prompt.
\* A deduplicated post adds no event.
NewestPrompt(t) == Max({outbox[t][k] : k \in Key})

\* The buttons of ask n of task t.
Pair(t, n) == {<<t, n, r>> : r \in Route}

\* The target of a button is its approval key, whichever task it belongs to.
Target(b) == asks[b[1]][b[2]]

\* Retires nothing but the button itself.
MutantNoSiblings(b) == {}

Siblings(b) ==
  {c \in Button : /\ c # b
                         /\ button[c] \in Live
                         /\ Target(c) = Target(b)}

SetButtons(bs, status) ==
  button' = [b \in Button |-> IF b \in bs THEN status ELSE button[b]]
-----------------------------------------------------------------------------
(***************************************************************************)
(* The worker.                                                             *)
(***************************************************************************)
Start(t) ==
  /\ stage[t] = "queued"
  /\ Enter(t, "running")
  /\ UNCHANGED <<asks, decision, outbox, shown, button>>

\* A tool that needs approval and whose key is not approved: the request is
\* logged, which commits, and the tool loop is left.
AskApproval(t, k) ==
  /\ stage[t] = "running"
  /\ k \in Askable[t]
  /\ decision[t][k] # "approved"
  /\ Len(asks[t]) < MaxAsks
  /\ asks' = [asks EXCEPT ![t] = Append(@, k)]
  /\ Enter(t, "asked")
  /\ UNCHANGED <<decision, outbox, shown, button>>

\* The buttons are minted and the outbox calls Slack; nothing is committed.
CallSlack(t) ==
  /\ stage[t] = "asked"
  /\ outbox[t][LastKey(t)] = 0
  /\ shown' = shown \cup {<<t, LastAsk(t)>>}
  /\ Enter(t, "called")
  /\ UNCHANGED <<asks, decision, outbox, button>>

\* The call raises, before or after Slack took the message.  The rollback
\* takes the outbox row and the buttons with it; the task fails.
CallFails(t) ==
  /\ "failed_call" \in Faults
  /\ stage[t] = "asked"
  /\ outbox[t][LastKey(t)] = 0
  /\ shown' \in {shown, shown \cup {<<t, LastAsk(t)>>}}
  /\ Enter(t, "failed")
  /\ UNCHANGED <<asks, decision, outbox, button>>

\* Stores the buttons as sent before the message is known to be recorded.
MutantSentEarly(t) ==
  /\ stage[t] = "called"
  /\ outbox' = [outbox EXCEPT ![t][LastKey(t)] = LastAsk(t)]
  /\ SetButtons(Pair(t, LastAsk(t)), "sent")
  /\ Enter(t, "posted")
  /\ UNCHANGED <<asks, decision, shown>>

\* message_posted is appended, which commits the outbox row and the buttons.
CommitPost(t) ==
  /\ stage[t] = "called"
  /\ outbox' = [outbox EXCEPT ![t][LastKey(t)] = LastAsk(t)]
  /\ SetButtons(Pair(t, LastAsk(t)), "pending_send")
  /\ Enter(t, "posted")
  /\ UNCHANGED <<asks, decision, shown>>

\* Forgets mark_sent.
MutantParkUnsent(t) ==
  /\ stage[t] = "posted"
  /\ Enter(t, "waiting")
  /\ UNCHANGED <<asks, decision, outbox, shown, button>>

\* mark_sent on both buttons, whatever became of them since they were
\* minted, and mark_waiting_for_tool_approval, which commits.
ParkPosted(t) ==
  /\ stage[t] = "posted"
  /\ SetButtons(Pair(t, LastAsk(t)), "sent")
  /\ Enter(t, "waiting")
  /\ UNCHANGED <<asks, decision, outbox, shown>>

\* The idempotency key does not name the approval.
MutantReuseAnyKey(t) ==
  /\ stage[t] = "asked"
  /\ \E k \in Key : outbox[t][k] # 0
  /\ SetButtons(Pair(t, LastAsk(t)), "sent")
  /\ Enter(t, "waiting")
  /\ UNCHANGED <<asks, decision, outbox, shown>>

\* An outbox row counts as delivered whatever its status.
MutantReuseUndelivered(t) ==
  /\ stage[t] = "asked"
  /\ SetButtons(Pair(t, LastAsk(t)), "sent")
  /\ Enter(t, "waiting")
  /\ UNCHANGED <<asks, decision, outbox, shown>>

\* The outbox finds the message of an earlier ask with this key: the new
\* buttons are stored as sent, in a message that was never posted.
ParkReused(t) ==
  /\ stage[t] = "asked"
  /\ outbox[t][LastKey(t)] # 0
  /\ SetButtons(Pair(t, LastAsk(t)), "sent")
  /\ Enter(t, "waiting")
  /\ UNCHANGED <<asks, decision, outbox, shown>>

Finish(t) ==
  /\ stage[t] = "running"
  /\ Enter(t, "over")
  /\ UNCHANGED <<asks, decision, outbox, shown, button>>

\* The open transaction is lost with the worker.
Crash(t) ==
  /\ "crash" \in Faults
  /\ stage[t] \in {"running", "asked", "called", "posted"}
  /\ Enter(t, "queued")
  /\ UNCHANGED <<asks, decision, outbox, shown, button>>
-----------------------------------------------------------------------------
(***************************************************************************)
(* The user.                                                               *)
(***************************************************************************)
RetryFailed(t) ==
  /\ stage[t] = "failed"
  /\ Enter(t, "queued")
  /\ UNCHANGED <<asks, decision, outbox, shown, button>>

Cancel(t) ==
  /\ stage[t] \in {"queued", "waiting"}
  /\ Enter(t, "over")
  /\ UNCHANGED <<asks, decision, outbox, shown, button>>

\* approve_tool_approval and reject_tool_approval on the pending key.
Decide(t, route) ==
  /\ decision' = [decision EXCEPT ![t][PendingKey(t)] =
                    IF route = "approve" THEN "approved" ELSE "rejected"]
  /\ Enter(t, IF route = "approve" THEN "queued" ELSE "over")

Visible(b) == <<b[1], b[2]>> \in shown

Answerable(t, k) == stage[t] = "waiting" /\ PendingKey(t) = k /\ k # NoKey

\* claim, complete and supersede_siblings in one transaction: the button is
\* spent, and every other live button with its target retired.
Spend(b) ==
  button' = [c \in Button |->
               CASE c = b -> "consumed"
                 [] c \in Siblings(b) -> "superseded"
                 [] OTHER -> button[c]]

Clickable(b) == Visible(b) /\ button[b] = "sent"

\* The click decides the request its button was minted for.
ClickDecides(b) ==
  /\ Clickable(b)
  /\ Answerable(b[1], Target(b))
  /\ Decide(b[1], b[3])
  /\ Spend(b)
  /\ UNCHANGED <<asks, outbox, shown>>

\* The request was decided or withdrawn before: the button is spent anyway.
ClickTooLate(b) ==
  /\ Clickable(b)
  /\ ~Answerable(b[1], Target(b))
  /\ Spend(b)
  /\ UNCHANGED <<stage, asks, decision, outbox, shown>>

ClickExpired(b) ==
  /\ "expiry" \in Faults
  /\ Clickable(b)
  /\ SetButtons({b}, "expired")
  /\ UNCHANGED <<stage, asks, decision, outbox, shown>>

\* Forgets that the task must be waiting.
MutantReactAnytime(t, route) ==
  /\ NewestPrompt(t) # 0
  /\ PendingKey(t) # NoKey
  /\ Decide(t, route)
  /\ UNCHANGED <<asks, outbox, shown, button>>

\* A reaction counts on the newest prompt only, and decides the pending key,
\* whichever key that prompt asked for.  It touches no button.
React(t, route) ==
  /\ stage[t] = "waiting"
  /\ NewestPrompt(t) # 0
  /\ PendingKey(t) # NoKey
  /\ Decide(t, route)
  /\ UNCHANGED <<asks, outbox, shown, button>>
-----------------------------------------------------------------------------
Work(t) ==
  \/ Start(t)
  \/ \E k \in Key : AskApproval(t, k)
  \/ CallSlack(t)
  \/ CallFails(t)
  \/ CommitPost(t)
  \/ ParkPosted(t)
  \/ ParkReused(t)
  \/ Finish(t)
  \/ Crash(t)

Answer(t) ==
  \/ RetryFailed(t)
  \/ Cancel(t)
  \/ \E r \in Route : React(t, r)

Click(b) == ClickDecides(b) \/ ClickTooLate(b) \/ ClickExpired(b)

Next ==
  \/ \E t \in Task : Work(t) \/ Answer(t)
  \/ \E b \in Button : Click(b)

Spec == Init /\ [][Next]_vars
-----------------------------------------------------------------------------
(***************************************************************************)
(* Properties.                                                             *)
(***************************************************************************)

\* Some message in the thread shows both buttons of an ask for this key, and
\* they work.
HasWorkingButtons(t, k) ==
  \E n \in 1..LastAsk(t) : /\ asks[t][n] = k
                           /\ <<t, n>> \in shown
                           /\ \A b \in Pair(t, n) : button[b] = "sent"

\* A waiting task shows a prompt whose two buttons work: the point of minting
\* them before the post and marking them sent after it.
ButtonsWork ==
  \A t \in Task : stage[t] = "waiting" => HasWorkingButtons(t, PendingKey(t))

\* A reaction to the newest prompt decides the tool that prompt describes: the
\* handler looks up the message and the pending request independently.
ReactionMeansShown ==
  \A t \in Task : stage[t] = "waiting" /\ NewestPrompt(t) # 0 =>
                    asks[t][NewestPrompt(t)] = PendingKey(t)

\* Whatever crashed, failed or expired, the user of a waiting task has
\* something to react to: a committed prompt that is in the thread.
AlwaysAnswerable ==
  \A t \in Task : stage[t] = "waiting" =>
    /\ PendingKey(t) # NoKey
    /\ <<t, NewestPrompt(t)>> \in shown

\* The two buttons of one ask are never both spent: the sibling is retired
\* with the first click, and ParkPosted does not revive it afterwards.
OneVerdict ==
  \A t \in Task, n \in Ask : \E b \in Pair(t, n) : button[b] # "consumed"

\* A spent button was not spent for nothing: its request is decided, or its
\* task is over.  A click on a button committed before its task waits would
\* spend it with no effect.
SpentMeansDecided ==
  \A b \in Button :
    button[b] = "consumed" =>
      decision[b[1]][Target(b)] # "none" \/ stage[b[1]] = "over"

\* Nothing is decided that the user was not shown.
DecidedWasShown ==
  \A t \in Task, k \in Key :
    decision[t][k] # "none" =>
      \E n \in 1..LastAsk(t) : asks[t][n] = k /\ <<t, n>> \in shown

\* supersede_siblings retires "both once a reaction approved": no button of a
\* decided request is live.
DecidedButtonsRetired ==
  \A b \in Button :
    button[b] \in Live => decision[b[1]][Target(b)] = "none"

\* Prompts, buttons, clicks and reactions implement the contract.
Contract == INSTANCE ApprovalContract WITH
  question <- [t \in Task |-> IF stage[t] = "waiting" THEN PendingKey(t)
                                                      ELSE NoKey],
  verdict  <- decision,
  closed   <- {t \in Task : stage[t] = "over"}

\* Every step asks, answers or ends in the way ApprovalContract allows, or
\* changes nothing it can see.
ImplementsContract == Contract!Spec
=============================================================================
