--------------------------- MODULE ApprovalContract ---------------------------
(***************************************************************************)
(* What the approval of tools promises, without prompts, buttons, clicks   *)
(* and reactions: a task puts one question at a time and works on nothing  *)
(* until it is answered; an answer is for good; a refusal ends the task.   *)
(*                                                                         *)
(* From kortny/tasks/repository.py.  TaskLifecycle implements it, seen     *)
(* from the queue, ApprovalPrompts, seen from the Slack thread, and        *)
(* AgentLoop, seen from the runs of one task.                              *)
(***************************************************************************)
CONSTANTS Task, Key, NoKey  \* NoKey is not in Key

VARIABLES
  question,  \* what each task waits to be told
  verdict,   \* what it was told about each key
  closed     \* the tasks that will never ask again

cvars == <<question, verdict, closed>>

Init ==
  /\ question = [t \in Task |-> NoKey]
  /\ verdict = [t \in Task |-> [k \in Key |-> "none"]]
  /\ closed = {}

\* mark_waiting_for_tool_approval: only what is undecided is asked.
Wait(t, k) ==
  /\ t \notin closed
  /\ question[t] = NoKey
  /\ verdict[t][k] = "none"
  /\ question' = [question EXCEPT ![t] = k]
  /\ UNCHANGED <<verdict, closed>>

\* approve_tool_approval: the task goes back to work.
Approve(t) ==
  /\ question[t] # NoKey
  /\ verdict' = [verdict EXCEPT ![t][question[t]] = "approved"]
  /\ question' = [question EXCEPT ![t] = NoKey]
  /\ UNCHANGED closed

\* reject_tool_approval: the task is cancelled.
Reject(t) ==
  /\ question[t] # NoKey
  /\ verdict' = [verdict EXCEPT ![t][question[t]] = "rejected"]
  /\ question' = [question EXCEPT ![t] = NoKey]
  /\ closed' = closed \cup {t}

\* The task ends, or is cancelled while it waits.
Close(t) ==
  /\ t \notin closed
  /\ question' = [question EXCEPT ![t] = NoKey]
  /\ closed' = closed \cup {t}
  /\ UNCHANGED verdict

Next == \E t \in Task : \/ \E k \in Key : Wait(t, k)
                        \/ Approve(t)
                        \/ Reject(t)
                        \/ Close(t)

Spec == Init /\ [][Next]_cvars
=============================================================================
