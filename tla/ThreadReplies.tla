---------------------------- MODULE ThreadReplies ----------------------------
(***************************************************************************)
(* What the people of a Slack channel may rely on: a mention is            *)
(* acknowledged and answered once (docs/plans, v1 plan, "Idempotency"),    *)
(* the mentions of a thread are worked on one at a time (design,           *)
(* "Orchestrator"), an answer is audited before anybody reads it, and what *)
(* is shown is final, also when the process dies.  They are worked on in   *)
(* the order in which they join the thread's line, which is not promised   *)
(* to be the order of the acknowledgements: one that is acknowledged joins *)
(* the line later, or never.  There is no task, no lock and no database    *)
(* here; MentionDispatch implements this specification.                    *)
(***************************************************************************)
EXTENDS Sequences

CONSTANTS Deliveries, EventOf, Threads, ThreadOf

Verdicts == {"ok", "stopped", "error"}

VARIABLES
    heard,    \* the acknowledged mentions that have not joined a line
    line,     \* the mentions of a thread that wait for an answer, in order
    working,  \* those whose agent works
    memory,   \* those whose answer went into the channel's snapshot
    log,      \* what the audit log says of each
    ready,    \* answers on their way to Slack
    reply,    \* what the thread shows for each mention
    posts     \* whose further messages a thread shows, in order

vars == <<heard, line, working, memory, log, ready, reply, posts>>

Thread(m) == ThreadOf[EventOf[m]]

Init ==
    /\ heard = {}
    /\ line = [t \in Threads |-> <<>>]
    /\ working = {} /\ memory = {}
    /\ log = [m \in Deliveries |-> "none"]
    /\ ready = [m \in Deliveries |-> "none"]
    /\ reply = [m \in Deliveries |-> "none"]
    /\ posts = [t \in Threads |-> <<>>]

\* An event is acknowledged once, however often it is delivered.
Acknowledge(m) ==
    /\ \A n \in Deliveries : EventOf[n] = EventOf[m] => reply[n] = "none"
    /\ reply' = [reply EXCEPT ![m] = "working"]
    /\ heard' = heard \cup {m}
    /\ UNCHANGED <<line, working, memory, log, ready, posts>>

Join(m) ==
    /\ m \in heard
    /\ heard' = heard \ {m}
    /\ line' = [line EXCEPT ![Thread(m)] = Append(@, m)]
    /\ UNCHANGED <<working, memory, log, ready, reply, posts>>

\* Henry does not learn that it acknowledged: nothing follows.
Miss(m) ==
    /\ m \in heard
    /\ heard' = heard \ {m}
    /\ UNCHANGED <<line, working, memory, log, ready, reply, posts>>

\* The first in line, and nobody else, is worked on.
Work(m) ==
    /\ line[Thread(m)] # <<>> /\ Head(line[Thread(m)]) = m
    /\ working' = working \cup {m}
    /\ UNCHANGED <<heard, line, memory, log, ready, reply, posts>>

Remember(m) ==
    /\ m \in working
    /\ memory' = memory \cup {m}
    /\ UNCHANGED <<heard, line, working, log, ready, reply, posts>>

\* An answer leaves the line with its audit record and, if it is a good one,
\* remembered; only of a failure may the log say nothing, or something else.
Answer(m, verdict) ==
    /\ m \in working
    /\ line' = [line EXCEPT ![Thread(m)] = Tail(@)]
    /\ working' = working \ {m}
    /\ ready' = [ready EXCEPT ![m] = verdict]
    /\ \E entry \in {"none"} \cup Verdicts :
          /\ log' = [log EXCEPT ![m] = entry]
          /\ verdict # "error" => entry = verdict
    /\ verdict = "ok" => m \in memory
    /\ verdict = "stopped" => m \notin memory
    /\ UNCHANGED <<heard, memory, reply, posts>>

\* What is shown is final.
Show(m) ==
    /\ ready[m] # "none" /\ reply[m] = "working"
    /\ reply' = [reply EXCEPT ![m] = ready[m]]
    /\ ready' = [ready EXCEPT ![m] = "none"]
    /\ UNCHANGED <<heard, line, working, memory, log, posts>>

\* Slack refuses it.
Drop(m) ==
    /\ ready[m] # "none"
    /\ ready' = [ready EXCEPT ![m] = "none"]
    /\ UNCHANGED <<heard, line, working, memory, log, reply, posts>>

\* The rest of an answer comes after its beginning; a failure has no rest.
Continue(m) ==
    /\ reply[m] \in {"ok", "stopped"}
    /\ posts' = [posts EXCEPT ![Thread(m)] = Append(@, m)]
    /\ UNCHANGED <<heard, line, working, memory, log, ready, reply>>

\* A crash forgets who waits; what is logged or shown stays.
Crash ==
    /\ heard' = {}
    /\ line' = [t \in Threads |-> <<>>]
    /\ working' = {}
    /\ ready' = [m \in Deliveries |-> "none"]
    /\ UNCHANGED <<memory, log, reply, posts>>

Next ==
    \/ \E m \in Deliveries :
          \/ Acknowledge(m) \/ Join(m) \/ Miss(m)
          \/ Work(m) \/ Remember(m) \/ Show(m) \/ Drop(m) \/ Continue(m)
          \/ \E verdict \in Verdicts : Answer(m, verdict)
    \/ Crash

Spec == Init /\ [][Next]_vars
=============================================================================
