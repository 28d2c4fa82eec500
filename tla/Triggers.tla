------------------------------ MODULE Triggers ------------------------------
(***************************************************************************)
(* The state of the trigger listener, and what it promises of that state.  *)
(* TriggerListener has the steps, WitnessProofs the theorems.              *)
(***************************************************************************)
EXTENDS Naturals

CONSTANTS
  Replica,        \* ambient processes with a listener loop
  Outages,        \* which sets of replicas may be unable to reach Composio
  Thread,         \* socket threads, of any replica
  Admin,          \* dashboard requests at a time
  TurnsOff,       \* administrators who also turn the trigger off
  Occurrence,     \* what happens in the connected app
  MaxTriggers,    \* bound: trigger instances created at Composio
  Faults,         \* which calls to Composio may go wrong
  Nobody

ASSUME ListenerAssumption ==
  /\ Outages \subseteq SUBSET Replica /\ TurnsOff \subseteq Admin
  /\ MaxTriggers \in Nat
  /\ Faults \subseteq {"lost_enable", "failed_disable"}
  /\ Nobody \notin Replica

\* Composio names an event after the instance that saw it and its content.
Event == (1..MaxTriggers) \X Occurrence

VARIABLES
  offline,    \* replicas that cannot reach Composio, in this behaviour
  loop,       \* "restarting", "waiting", "connecting" or "listening"
  cut,        \* replicas whose lock connection died
  holder,     \* the replica whose connection holds the advisory lock
  thread,     \* what each socket thread does: [pc, event]
  upstream,   \* trigger instances that are on at Composio
  created,    \* how many instances were ever created
  sub,        \* the subscription row: [status, trigger]
  admin,      \* what each administrator's request does: [pc, trigger]
  published,  \* events Composio may deliver, once or again
  row,        \* the decision on the recorded event, or "none"
  asked       \* how many candidates carry the event's dedupe key
-----------------------------------------------------------------------------
\* Every variable has its type; an instance that is on was created, and a key
\* has one candidate at most.
ListenerTyped ==
  /\ offline \subseteq Replica /\ cut \subseteq Replica
  /\ loop \in [Replica -> {"restarting", "waiting", "connecting", "listening"}]
  /\ holder \in Replica \union {Nobody}
  /\ thread \in [Thread -> [pc : {"idle", "failed"}] \union
                           [pc : {"record", "look", "insert"}, event : Event]]
  /\ created \in 0..MaxTriggers /\ upstream \subseteq 1..created
  /\ sub \in [status : {"active", "disabled"}, trigger : 0..MaxTriggers]
  /\ admin \in [Admin -> [pc : {"idle"}] \union
                         [pc : {"enabling", "disabling"}, trigger : 0..MaxTriggers]]
  /\ published \subseteq Event
  /\ row \in [Event -> {"none", "ask", "unmatched"}]
  /\ asked \in [Event -> 0..1]

\* A session of the loop that still has its lock connection.
Leads(r) == loop[r] \in {"connecting", "listening"} /\ r \notin cut

\* Two replicas never both lead on live connections: whichever of them loses its
\* connection, is started again or gives the lock back (the advisory lock of
\* ComposioTriggerListener, whose unlock fails on a dead connection).
OneLeader == \A r, q \in Replica : Leads(r) /\ Leads(q) => r = q

\* One occurrence asks its owner at most once, and as one event only: through two
\* leaders at a time, deliveries repeated after the event's row was deleted,
\* threads that race from look to insert, and administrators who turn the trigger
\* on together (the unique indexes, FOR UPDATE in enable_trigger_subscription).
AskedOnce ==
  \A e, f \in Event :
    asked[e] > 0 /\ asked[f] > 0 /\ e[2] = f[2] => e = f /\ asked[e] = 1
=============================================================================
