-------------------------- MODULE SandboxSessionsInv --------------------------
(* The inductive invariant of SandboxSessions, in its named parts: a module *)
(* of its own so that TLC can check it before it is proved.                *)
EXTENDS SandboxSessions

InSlot   == Waiting \cup Creating \cup Clearing   \* counted in users
Holding  == Creating \cup Clearing                \* has the slot's lock
Guarding == InCell \cup {"remove", "removeCancelled"}
Unbooting == {"unboot", "unbootCancelled"}

\* A call keeps its session from the moment the cache hands it out; a file
\* call that still moves files has one left.
Typed ==
    /\ TypeOK
    /\ \A f \in FileCalls : pc[f] \in {"idle", "download", "want", "file"} \cup Creating => todo[f] > 0
    /\ \A r \in Runs : pc[r] \in {"idle", "want"} \cup Clearing \cup Ended
    /\ \A c \in Calls : pc[c] \notin Clearing
    /\ \A c \in FileCalls : pc[c] \notin InCell \cup {"queue", "forget"}
    /\ \A c \in CellCalls : pc[c] # "file"

\* Where a task is says whether it is counted in, and in which slot.
SlotCount ==
    \A a \in Tasks :
        /\ \A sl \in Slots : a \in users[sl] => pc[a] \in InSlot /\ slotOf[Owner(a)] = sl
        /\ pc[a] \in InSlot =>
              slotOf[Owner(a)] # None /\ a \in users[slotOf[Owner(a)]]

\* A slot is registered for one run at most; one that caches a session is
\* registered for the run that started it.
SlotKeys ==
    /\ \A r, q \in Runs : slotOf[r] = slotOf[q] /\ slotOf[r] # None => r = q
    /\ \A sl \in Slots : cached[sl] # None => slotOf[RunOf[cached[sl]]] = sl

\* The lock of a slot is held exactly by the task that is starting or
\* destroying a session in it, and meanwhile the slot caches nothing.
SlotLock ==
    /\ \A sl \in Slots : holder[sl] # None =>
          holder[sl] \in users[sl] /\ pc[holder[sl]] \in Holding
    /\ \A a \in Tasks : pc[a] \in Holding =>
          /\ holder[slotOf[Owner(a)]] = a
          /\ cached[slotOf[Owner(a)]] = None

\* Which tasks have a session; that the call that started it has it too.
Handles ==
    /\ \A c \in Calls : pc[c] \in {"idle", "download", "want"} \cup Creating => handle[c] = None
    /\ \A a \in Tasks : pc[a] \in {"queue", "file", "forget"} \cup InCell \cup Clearing
          => handle[a] # None
    /\ \A a \in Tasks : handle[a] # None =>
          /\ RunOf[handle[a]] = Owner(a)
          /\ handle[handle[a]] = handle[a]
    /\ \A sl \in Slots : cached[sl] # None => handle[cached[sl]] = cached[sl]

\* The lock of a session is held exactly by the task that runs a cell in it or
\* removes it.
SessionLock ==
    /\ \A s \in Calls : guard[s] # None =>
          \/ pc[guard[s]] \in Guarding /\ handle[guard[s]] = s
          \/ pc[guard[s]] \in Unbooting /\ guard[s] = s
    /\ \A a \in Tasks : pc[a] \in Guarding => guard[handle[a]] = a
    /\ \A c \in Calls : pc[c] \in Unbooting => guard[c] = c

\* A kernel that boots or runs a cell is alive; one that is being forgotten or
\* removed is not.
KernelState ==
    /\ \A c \in Calls : pc[c] \in {"boot", "logs"} => kernel[c] = "live"
    /\ \A c \in Calls : pc[c] = "cell" => kernel[handle[c]] = "live"
    /\ \A c \in Calls : pc[c] \in {"forget", "fail", "failCancelled"} => kernel[handle[c]] # "live"
    /\ \A r \in Runs : pc[r] \in {"remove", "removeCancelled"} => kernel[handle[r]] # "live"

IInv == Typed /\ SlotCount /\ SlotKeys /\ SlotLock /\ Handles /\ SessionLock
            /\ KernelState /\ OneKernel

\* Once the cleanup of a run whose calls are waited for has begun, none of its
\* calls is under way. (Kept apart: only the refinement needs it.)
Drain ==
    \A r \in Drained : pc[r] # "idle" => r \notin open /\ CallsOver(r)

\* What a session's kernel says about its container and about its call. (Kept
\* apart: only what the cleanup leaves behind needs these two.)
Containers ==
    \A s \in Calls :
        /\ kernel[s] = "destroyed" => container[s] \in {"removing", "gone", "leaked"}
        /\ pc[s] \in {"idle", "download", "want", "create"} => kernel[s] = "unborn"
        /\ handle[s] = s => kernel[s] # "unborn"

\* If no call is cancelled, every container that runs is one the cache has seen
\* or a call is still starting.
Accounted ==
    \A s \in Calls :
        /\ pc[s] \notin {"cancelled", "unbootCancelled", "failCancelled"}
        /\ container[s] = "running" => kernel[s] = "live"
        /\ kernel[s] = "live" => handle[s] = s \/ pc[s] \in {"boot", "logs"}

ClearedSlot == \A r \in Drained : pc[r] = "cleared" => slotOf[r] = None
===============================================================================
