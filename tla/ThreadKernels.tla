---------------------------- MODULE ThreadKernels ----------------------------
(***************************************************************************)
(* The runs of MentionDispatch with the kernels of their sandbox tools: who *)
(* owns a kernel from a thread's point of view.  The tools are RunKernel,   *)
(* which SandboxSessions implements; the two are joined where the code      *)
(* joins them, in Runtime.cleanup of henry/wiring.py and in the `finally`   *)
(* of handle_request.                                                       *)
(***************************************************************************)
EXTENDS MentionDispatch

CONSTANTS
    Calls,   \* sandbox tool calls, and the kernels they start
    RunOf,   \* the run whose agent makes a call
    None

ASSUME KernelAssumption == RunOf \in [Calls -> Deliveries] /\ None \notin Calls

VARIABLES session, life, working, told, ended   \* as in RunKernel

kernelVars == <<session, life, working, told, ended>>
systemVars == <<vars, kernelVars>>

\* The agent library waits for the calls it made: every run is drained.
Kernel == INSTANCE RunKernel WITH Runs <- Deliveries, Drained <- Deliveries

SystemInit == Init /\ Kernel!Init

\* The calls of the agent; everything else of the run waits for it.
UseKernel(d) ==
    /\ pc[d] = "agent"
    /\ \/ \E c \in Calls : RunOf[c] = d /\ (Kernel!Start(c) \/ Kernel!Lose(c) \/ Kernel!Tell(c))
       \/ \E c, s \in Calls : RunOf[c] = d /\ (Kernel!Work(c, s) \/ Kernel!Return(c, s))
    /\ UNCHANGED vars

Idle(d) == \A w \in working : RunOf[w[1]] # d

Finished(d) == AgentEnds(d) /\ Idle(d) /\ UNCHANGED kernelVars

\* clear_sandbox_session takes the kernel down ...
Destroy(d) ==
    /\ pc[d] = "cleanup"
    /\ \E s \in Calls : RunOf[s] = d /\ Kernel!Lose(s)
    /\ UNCHANGED vars

\* Mutant: the cleanup hook does nothing.
ClearedNothing(d) == CleanedUp(d) /\ UNCHANGED kernelVars

\* ... and returns, or raises and perhaps has not.
Cleared(d)    == CleanedUp(d) /\ Kernel!Close(d)
ClearFails(d) == CleanupFails(d) /\ Kernel!Fail(d)

Clear(d) == Destroy(d) \/ Cleared(d) \/ ClearFails(d)

\* The rest of a mention's way knows nothing of kernels.
Elsewhere(d) ==
    /\ \/ Dispatch(d) \/ ConfigLoaded(d) \/ LoadFails(d) \/ Fetched(d)
       \/ Refreshed(d) \/ RefreshFails(d) \/ Audited(d) \/ AuditFails(d) \/ Reply(d)
    /\ UNCHANGED kernelVars

\* A crash leaves the containers as they are, and nobody who knows them.
SystemNext ==
    \/ \E d \in Deliveries :
          \/ Arrive(d) /\ UNCHANGED kernelVars
          \/ UseKernel(d) \/ Finished(d) \/ Clear(d) \/ Elsewhere(d)
    \/ Crash /\ UNCHANGED kernelVars
    \/ AllOver /\ UNCHANGED systemVars

(***************************************************************************)
(* As in MentionDispatch; a cell has a deadline, and the usage limit ends   *)
(* an agent that would go on calling.                                       *)
(***************************************************************************)
CellEnds(d) ==
    /\ pc[d] = "agent"
    /\ \E w \in working : RunOf[w[1]] = d /\ Kernel!Return(w[1], w[2])
    /\ UNCHANGED vars

SystemFairness ==
    \A d \in Deliveries :
        /\ WF_systemVars(Elsewhere(d) \/ CellEnds(d) \/ Clear(d))
        /\ SF_systemVars(Finished(d))

SystemSpec == SystemInit /\ [][SystemNext]_systemVars /\ SystemFairness

-----------------------------------------------------------------------------
\* Nobody will take the kernels of these runs down any more.
Abandoned(d) == pc[d] = "dead" \/ ended[d] = "failed"

\* The orchestrator owns a run's sandbox and releases it on every exit path (v1
\* plan, "Resource & lifecycle ownership"): a live kernel is that of a run past
\* its transcript and before its audit record.  Otherwise the process died, or
\* the cleanup raised, and then the run has no audit record and no answer of it
\* is shown.
KernelHasRun ==
    \A s \in Calls : life[s] = "live" =>
        LET d == RunOf[s] IN
        \/ pc[d] \in {"agent", "refresh", "cleanup", "dead"}
        \/ ended[d] = "failed" /\ audit[d] = "none" /\ shown[d] \in {"working", "error"}

\* Two runs of one thread never have live kernels, unless one was abandoned.
OneKernelPerThread ==
    \A s, q \in Calls :
        life[s] = "live" /\ life[q] = "live" /\ Thread(RunOf[s]) = Thread(RunOf[q]) /\ s # q
            => Abandoned(RunOf[s]) \/ Abandoned(RunOf[q])
=============================================================================
