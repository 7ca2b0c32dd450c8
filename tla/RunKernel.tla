------------------------------ MODULE RunKernel ------------------------------
(***************************************************************************)
(* What the sandbox tools promise the agent of a run, in the words of the  *)
(* docstring of run_python in henry/sandbox/tools.py: variables persist    *)
(* across the calls of a task, and a result says so when a lost kernel     *)
(* discards them.  There is no slot, no lock, no container and no task     *)
(* here; SandboxSessions implements this specification.                    *)
(*                                                                         *)
(* A kernel is named after the call whose start made it.                   *)
(***************************************************************************)
CONSTANTS Calls, Runs, RunOf, Drained, None

VARIABLES
    session,    \* the kernel a run works on
    life,       \* unborn, live or dead, as far as the agent can tell
    working,    \* the calls whose cells are executing, each with its kernel
    told,       \* the kernels whose loss some call has reported
    ended       \* how the cleanup of a run has ended

vars == <<session, life, working, told, ended>>

Init ==
    /\ session = [r \in Runs |-> None]
    /\ life = [s \in Calls |-> "unborn"]
    /\ working = {}
    /\ told = {}
    /\ ended = [r \in Runs |-> "no"]

\* A run gets a new kernel when it has none, and not after its cleanup.
Start(c) ==
    /\ life[c] = "unborn" /\ session[RunOf[c]] = None
    /\ RunOf[c] \in Drained => ended[RunOf[c]] = "no"
    /\ life' = [life EXCEPT ![c] = "live"]
    /\ session' = [session EXCEPT ![RunOf[c]] = c]
    /\ UNCHANGED <<working, told, ended>>

\* A cell executes alone, in the live kernel of its run.
Work(c, s) ==
    /\ life[s] = "live" /\ RunOf[s] = RunOf[c]
    /\ session[RunOf[c]] = s \/ ended[RunOf[c]] = "failed"
    /\ \A d \in Calls : <<d, s>> \notin working
    /\ working' = working \cup {<<c, s>>}
    /\ UNCHANGED <<session, life, told, ended>>

Return(c, s) ==
    /\ <<c, s>> \in working
    /\ working' = working \ {<<c, s>>}
    /\ UNCHANGED <<session, life, told, ended>>

\* A cell that fails, or the cleanup, costs the run its kernel.
Lose(s) ==
    /\ life[s] = "live"
    /\ life' = [life EXCEPT ![s] = "dead"]
    /\ working' = {w \in working : w[2] # s}
    /\ UNCHANGED <<session, told, ended>>

\* The only way to another kernel: a call reports that this one was lost.
Tell(s) ==
    /\ life[s] = "dead"
    /\ told' = told \cup {s}
    /\ session' = [session EXCEPT ![RunOf[s]] = IF @ = s THEN None ELSE @]
    /\ UNCHANGED <<life, working, ended>>

Close(r) ==
    /\ ended[r] = "no"
    /\ session[r] # None => life[session[r]] = "dead"
    /\ ended' = [ended EXCEPT ![r] = "closed"]
    /\ session' = [session EXCEPT ![r] = None]
    /\ UNCHANGED <<life, working, told>>

\* A cleanup that raises or is cancelled may have emptied the cache.
Fail(r) ==
    /\ ended[r] = "no"
    /\ ended' = [ended EXCEPT ![r] = "failed"]
    /\ \/ session' = session
       \/ session' = [session EXCEPT ![r] = None]
    /\ UNCHANGED <<life, working, told>>

Next ==
    \/ \E c \in Calls : Start(c) \/ Lose(c) \/ Tell(c)
    \/ \E c, s \in Calls : Work(c, s) \/ Return(c, s)
    \/ \E r \in Runs : Close(r) \/ Fail(r)

Spec == Init /\ [][Next]_vars
=============================================================================
