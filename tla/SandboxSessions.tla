--------------------------- MODULE SandboxSessions ---------------------------
(***************************************************************************)
(* The run-scoped sandbox kernel: the cache of henry/sandbox/tools.py      *)
(* (one _SessionSlot per run, shared by the run's parallel tool calls) on  *)
(* top of the session life cycle of henry/sandbox/docker.py (start, cell,  *)
(* file transfer, invalidation, removal).                                  *)
(*                                                                         *)
(* Everything runs in one asyncio event loop, so a step of this module is  *)
(* what one task does between two awaits that can really suspend it.       *)
(* _session_registry_lock is never held across a suspension: taking it is  *)
(* part of the surrounding step.  Work handed to a thread (docker calls)   *)
(* outlives the task that awaits it; it is the state of the container.     *)
(*                                                                         *)
(* A call starts at most one session, so a session is named after the call *)
(* that starts it.  A cleanup task is named after its run.                 *)
(***************************************************************************)
EXTENDS Naturals, FiniteSets

CONSTANTS
    CellCalls,           \* run_python calls the model may issue
    FileCalls,           \* write_file, read_file and clone_repo calls
    Runs,                \* runs of the agent (one run_id each)
    RunOf,               \* the run that issues each call
    Slots,               \* _SessionSlot objects
    FilesPerCall,        \* files moved by a file call (clone_repo moves many)
    Cancellable,         \* the tasks that may be cancelled, once each
    RemovalMayFail,      \* may Docker refuse to remove a container?
    Drained,             \* the runs for whose tool tasks the agent library waits
    None

Calls == CellCalls \cup FileCalls
Tasks == Calls \cup Runs

ASSUME SandboxAssumption ==
    /\ CellCalls \cap FileCalls = {}
    /\ Calls \cap Runs = {}
    /\ None \notin Tasks \cup Slots
    /\ RunOf \in [Calls -> Runs]
    /\ FilesPerCall \in Nat \ {0}
    /\ RemovalMayFail \in BOOLEAN
    /\ Drained \subseteq Runs

Owner(a) == IF a \in Runs THEN a ELSE RunOf[a]

VARIABLES
    pc,         \* where each task is
    open,       \* the runs whose agent loop may still issue calls
    slotOf,     \* _session_slots: the slot registered for a run
    users,      \* _SessionSlot.users, as the set of tasks it counts
    holder,     \* _SessionSlot.lock: the task holding it across an await
    cached,     \* _SessionSlot.cached
    handle,     \* the session a task got from the cache
    todo,       \* files a file call still has to move
    kernel,     \* unborn; live = in _sessions; destroyed = popped from it
    guard,      \* _Session.lock: the task holding it across an await
    container   \* the Docker container and its volume

slotVars    == <<slotOf, users, holder, cached>>
sessionVars == <<kernel, guard, container>>
vars == <<pc, open, slotVars, handle, todo, sessionVars>>

Waiting  == {"want", "forget"}                      \* for _SessionSlot.lock
Creating == {"create", "boot", "logs", "unboot", "unbootCancelled"}
InCell   == {"cell", "fail", "failCancelled"}
Clearing == {"take", "remove", "removeCancelled"}
Ended    == {"ok", "reset", "raised", "cancelled", "cleared"}
Places   == {"idle", "download", "queue", "file"}
                \cup Waiting \cup Creating \cup InCell \cup Clearing \cup Ended

(***************************************************************************)
(* State a task leaves the run in: a raised or cancelled call ends it.     *)
(***************************************************************************)
Fatal == {"raised", "cancelled", "unbootCancelled", "failCancelled"}

GoTo(a, place) ==
    /\ pc' = [pc EXCEPT ![a] = place]
    /\ open' = IF place \in Fatal THEN open \ {Owner(a)} ELSE open

TypeOK ==
    /\ pc \in [Tasks -> Places]
    /\ open \subseteq Runs
    /\ slotOf \in [Runs -> Slots \cup {None}]
    /\ users \in [Slots -> SUBSET Tasks]
    /\ holder \in [Slots -> Tasks \cup {None}]
    /\ cached \in [Slots -> Calls \cup {None}]
    /\ handle \in [Tasks -> Calls \cup {None}]
    /\ todo \in [FileCalls -> 0 .. FilesPerCall]
    /\ kernel \in [Calls -> {"unborn", "live", "destroyed"}]
    /\ guard \in [Calls -> Tasks \cup {None}]
    /\ container \in [Calls ->
          {"none", "creating", "running", "removing", "gone", "leaked"}]

Init ==
    /\ pc = [a \in Tasks |-> "idle"]
    /\ open = Runs
    /\ slotOf = [r \in Runs |-> None]
    /\ users = [sl \in Slots |-> {}]
    /\ holder = [sl \in Slots |-> None]
    /\ cached = [sl \in Slots |-> None]
    /\ handle = [a \in Tasks |-> None]
    /\ todo = [f \in FileCalls |-> FilesPerCall]
    /\ kernel = [s \in Calls |-> "unborn"]
    /\ guard = [s \in Calls |-> None]
    /\ container = [s \in Calls |-> "none"]

-----------------------------------------------------------------------------
(* _locked_slot: entering counts the task in before it waits for the lock; *)
(* leaving releases, counts out, and drops an unused empty slot.           *)

Unused(sl) == \A r \in Runs : slotOf[r] # sl

\* Mutant: the slot is keyed by the sandbox alone, not by the run.
EnterSlotOfAnyRun(a) ==
    \E sl \in Slots :
        /\ \/ slotOf[Owner(a)] = sl
           \/ slotOf[Owner(a)] = None
        /\ slotOf' = [slotOf EXCEPT ![Owner(a)] = sl]
        /\ users' = [users EXCEPT ![sl] = @ \cup {a}]

EnterSlot(a) ==
    \E sl \in Slots :
        /\ \/ slotOf[Owner(a)] = sl
           \/ slotOf[Owner(a)] = None /\ Unused(sl) /\ users[sl] = {}
        /\ slotOf' = [slotOf EXCEPT ![Owner(a)] = sl]
        /\ users' = [users EXCEPT ![sl] = @ \cup {a}]

Granted(a, sl) == a \in users[sl] /\ holder[sl] = None

\* Mutant: an empty slot is dropped although tasks still wait for its lock.
LeaveSlotUncounted(a, sl, entry) ==
    /\ cached' = [cached EXCEPT ![sl] = entry]
    /\ users' = [users EXCEPT ![sl] = @ \ {a}]
    /\ holder' = [holder EXCEPT ![sl] = IF @ = a THEN None ELSE @]
    /\ slotOf' = IF entry = None /\ slotOf[Owner(a)] = sl
                 THEN [slotOf EXCEPT ![Owner(a)] = None]
                 ELSE slotOf

LeaveSlot(a, sl, entry) ==
    LET remaining == users[sl] \ {a} IN
    /\ cached' = [cached EXCEPT ![sl] = entry]
    /\ users' = [users EXCEPT ![sl] = remaining]
    /\ holder' = [holder EXCEPT ![sl] = IF @ = a THEN None ELSE @]
    /\ slotOf' = IF remaining = {} /\ entry = None /\ slotOf[Owner(a)] = sl
                 THEN [slotOf EXCEPT ![Owner(a)] = None]
                 ELSE slotOf

\* _remove_session_locked up to its await: dead before Docker is asked.
BeginRemoval(s) ==
    /\ kernel' = [kernel EXCEPT ![s] = "destroyed"]
    /\ container' = [container EXCEPT ![s] = "removing"]

Removed(s) == container[s] # "removing"

\* A call takes a session out of the cache and goes on without an await up to
\* the first one of exec_cell, write_file or read_file. "raised": a timeout_s
\* that is not positive, a path outside the workspace, too large a file.
AfterSession(c, s) ==
    IF kernel[s] = "live"
    THEN IF c \in CellCalls THEN {"queue", "raised"} ELSE {"file", "raised"}
    ELSE IF c \in CellCalls THEN {"forget"} ELSE {"raised"}

-----------------------------------------------------------------------------
(* run_python, write_file, read_file, clone_repo: _session_for             *)

Begin(c) ==
    /\ pc[c] = "idle" /\ RunOf[c] \in open
    /\ EnterSlot(c)
    /\ GoTo(c, "want")
    /\ UNCHANGED <<holder, cached, handle, todo, sessionVars>>

\* clone_repo downloads the archive first; the run may be cleaned up meanwhile
\* if nobody waits for its calls.
BeginClone(f) ==
    /\ pc[f] = "idle" /\ RunOf[f] \in open
    /\ GoTo(f, "download")
    /\ UNCHANGED <<slotVars, handle, todo, sessionVars>>

Downloaded(f) ==
    /\ pc[f] = "download"
    /\ EnterSlot(f)
    /\ GoTo(f, "want")
    /\ UNCHANGED <<holder, cached, handle, todo, sessionVars>>

\* The cached session is handed out, whether it is alive or not. A run_python
\* call that finds it dead goes straight back into the slot, to forget it.
ReuseSession(c, sl) ==
    /\ pc[c] = "want" /\ Granted(c, sl) /\ cached[sl] # None
    /\ handle' = [handle EXCEPT ![c] = cached[sl]]
    /\ \E place \in AfterSession(c, cached[sl]) :
          /\ GoTo(c, place)
          /\ IF place = "forget" THEN UNCHANGED slotVars
                                 ELSE LeaveSlot(c, sl, cached[sl])
    /\ UNCHANGED <<todo, sessionVars>>

StartSession(c, sl) ==
    /\ pc[c] = "want" /\ Granted(c, sl) /\ cached[sl] = None
    /\ holder' = [holder EXCEPT ![sl] = c]
    /\ container' = [container EXCEPT ![c] = "creating"]
    /\ GoTo(c, "create")
    /\ UNCHANGED <<slotOf, users, cached, handle, todo, kernel, guard>>

\* The thread of DockerSandbox.start fails: the volume is removed again.
CreateFails(c, sl) ==
    /\ pc[c] = "create" /\ holder[sl] = c
    /\ \E left \in {"gone"} \cup (IF RemovalMayFail THEN {"leaked"} ELSE {}) :
          container' = [container EXCEPT ![c] = left]
    /\ GoTo(c, "raised")
    /\ LeaveSlot(c, sl, cached[sl])
    /\ UNCHANGED <<handle, todo, kernel, guard>>

Created(c) ==
    /\ pc[c] = "create"
    /\ container' = [container EXCEPT ![c] = "running"]
    /\ kernel' = [kernel EXCEPT ![c] = "live"]
    /\ GoTo(c, "boot")
    /\ UNCHANGED <<slotVars, handle, todo, guard>>

\* The kernel answers the ping: cached, returned, and used at once.
Booted(c, sl) ==
    /\ pc[c] = "boot" /\ holder[sl] = c
    /\ handle' = [handle EXCEPT ![c] = c]
    /\ \E place \in AfterSession(c, c) : GoTo(c, place)
    /\ LeaveSlot(c, sl, c)
    /\ UNCHANGED <<todo, sessionVars>>

BootFails(c) ==
    /\ pc[c] = "boot"
    /\ GoTo(c, "logs")
    /\ UNCHANGED <<slotVars, handle, todo, sessionVars>>

\* _session_logs is done (it swallows every exception but a cancellation).
LogsRead(c) ==
    /\ pc[c] = "logs" /\ guard[c] = None
    /\ guard' = [guard EXCEPT ![c] = c]
    /\ BeginRemoval(c)
    /\ GoTo(c, "unboot")
    /\ UNCHANGED <<slotVars, handle, todo>>

Unbooted(c, sl) ==
    /\ pc[c] \in {"unboot", "unbootCancelled"} /\ holder[sl] = c /\ Removed(c)
    /\ guard' = [guard EXCEPT ![c] = None]
    /\ GoTo(c, IF pc[c] = "unboot" \/ container[c] = "leaked"
               THEN "raised" ELSE "cancelled")
    /\ LeaveSlot(c, sl, cached[sl])
    /\ UNCHANGED <<handle, todo, kernel, container>>

-----------------------------------------------------------------------------
(* exec_cell, and what run_python makes of its result                      *)

\* Mutant: `destroyed` is not looked at again once the lock is granted.
LockSessionUnchecked(c) ==
    /\ pc[c] = "queue" /\ guard[handle[c]] = None
    /\ guard' = [guard EXCEPT ![handle[c]] = c]
    /\ GoTo(c, "cell")
    /\ UNCHANGED <<slotVars, handle, todo, kernel, container>>

\* The lock of the session is granted; `destroyed` is looked at again.
LockSession(c) ==
    /\ pc[c] = "queue" /\ guard[handle[c]] = None
    /\ \/ /\ kernel[handle[c]] = "live"
          /\ guard' = [guard EXCEPT ![handle[c]] = c]
          /\ GoTo(c, "cell")
          /\ UNCHANGED <<slotOf, users>>
       \/ /\ kernel[handle[c]] # "live"
          /\ GoTo(c, "forget")
          /\ EnterSlot(c)
          /\ UNCHANGED guard
    /\ UNCHANGED <<holder, cached, handle, todo, kernel, container>>

CellReturns(c) ==
    /\ pc[c] = "cell"
    /\ guard' = [guard EXCEPT ![handle[c]] = None]
    /\ GoTo(c, "ok")
    /\ UNCHANGED <<slotVars, handle, todo, kernel, container>>

\* Time limit, Docker error, non-zero exit, oversized or malformed payload.
CellFails(c) ==
    /\ pc[c] = "cell"
    /\ BeginRemoval(handle[c])
    /\ GoTo(c, "fail")
    /\ UNCHANGED <<slotVars, handle, todo, guard>>

\* Mutant: the session's lock is not released after a failed cell.
CellFailedKeepsLock(c) ==
    /\ pc[c] = "fail" /\ Removed(handle[c])
    /\ GoTo(c, "forget")
    /\ EnterSlot(c)
    /\ UNCHANGED <<holder, cached, handle, todo, sessionVars>>

\* _invalidate_locked swallows a SandboxError; the result invalidates.
CellFailed(c) ==
    /\ pc[c] = "fail" /\ Removed(handle[c])
    /\ guard' = [guard EXCEPT ![handle[c]] = None]
    /\ GoTo(c, "forget")
    /\ EnterSlot(c)
    /\ UNCHANGED <<holder, cached, handle, todo, kernel, container>>

\* Any other exception of the removal (the connection to Docker broke, say) ends
\* the call and its run, and nobody forgets the session.
CellRaises(c) ==
    /\ pc[c] \in {"fail", "failCancelled"} /\ container[handle[c]] = "leaked"
    /\ guard' = [guard EXCEPT ![handle[c]] = None]
    /\ GoTo(c, "raised")
    /\ UNCHANGED <<slotVars, handle, todo, kernel, container>>

\* Mutant: whatever is cached is forgotten.
ForgetAny(c, sl) ==
    /\ pc[c] = "forget" /\ Granted(c, sl)
    /\ LeaveSlot(c, sl, None)
    /\ GoTo(c, "reset")
    /\ UNCHANGED <<handle, todo, sessionVars>>

\* Mutant: the dead session is forgotten without a notice.
ForgetSilently(c, sl) ==
    /\ pc[c] = "forget" /\ Granted(c, sl)
    /\ LeaveSlot(c, sl, IF cached[sl] = handle[c] THEN None ELSE cached[sl])
    /\ GoTo(c, "ok")
    /\ UNCHANGED <<handle, todo, sessionVars>>

\* _forget_session, then the error result with the reset notice.
Forget(c, sl) ==
    /\ pc[c] = "forget" /\ Granted(c, sl)
    /\ LeaveSlot(c, sl, IF cached[sl] = handle[c] THEN None ELSE cached[sl])
    /\ GoTo(c, "reset")
    /\ UNCHANGED <<handle, todo, sessionVars>>

-----------------------------------------------------------------------------
(* write_file and read_file (one file), clone_repo (several): no lock      *)

\* Mutant: one file too many.
FileMovedOnceMore(c) ==
    /\ pc[c] = "file"
    /\ todo' = [todo EXCEPT ![c] = @ - 1]
    /\ \/ todo[c] = 0 /\ GoTo(c, "ok")
       \/ /\ todo[c] > 0
          /\ GoTo(c, IF kernel[handle[c]] = "live" THEN "file" ELSE "raised")
    /\ UNCHANGED <<slotVars, handle, sessionVars>>

FileMoved(c) ==
    /\ pc[c] = "file"
    /\ todo' = [todo EXCEPT ![c] = @ - 1]
    /\ \/ todo[c] = 1 /\ GoTo(c, "ok")
       \/ /\ todo[c] > 1
          /\ GoTo(c, IF kernel[handle[c]] = "live" THEN "file" ELSE "raised")
    /\ UNCHANGED <<slotVars, handle, sessionVars>>

FileFails(c) ==
    /\ pc[c] \in {"download", "file"}
    /\ GoTo(c, "raised")
    /\ UNCHANGED <<slotVars, handle, todo, sessionVars>>

-----------------------------------------------------------------------------
(* The end of a run: the agent loop stops, then clear_sandbox_session      *)

CallsOver(r) ==
    \A c \in Calls : RunOf[c] = r => pc[c] \in {"idle"} \cup Ended

EndRun(r) ==
    /\ r \in open /\ CallsOver(r)
    /\ open' = open \ {r}
    /\ UNCHANGED <<pc, slotVars, handle, todo, sessionVars>>

BeginClear(r) ==
    /\ pc[r] = "idle" /\ r \notin open
    /\ r \in Drained => CallsOver(r)
    /\ EnterSlot(r)
    /\ GoTo(r, "want")
    /\ UNCHANGED <<holder, cached, handle, todo, sessionVars>>

\* Mutant: the cleanup empties the slot and destroys nothing.
ClearOnly(r, sl) ==
    /\ r \in Runs /\ pc[r] = "want" /\ Granted(r, sl)
    /\ handle' = [handle EXCEPT ![r] = cached[sl]]
    /\ LeaveSlot(r, sl, None)
    /\ GoTo(r, "cleared")
    /\ UNCHANGED <<todo, sessionVars>>

\* The slot is emptied before destroy; an unknown session needs no destroy.
Clear(r, sl) ==
    /\ r \in Runs /\ pc[r] = "want" /\ Granted(r, sl)
    /\ handle' = [handle EXCEPT ![r] = cached[sl]]
    /\ IF cached[sl] # None /\ kernel[cached[sl]] = "live"
       THEN /\ cached' = [cached EXCEPT ![sl] = None]
            /\ holder' = [holder EXCEPT ![sl] = r]
            /\ GoTo(r, "take")
            /\ UNCHANGED <<slotOf, users>>
       ELSE /\ LeaveSlot(r, sl, None)
            /\ GoTo(r, "cleared")
    /\ UNCHANGED <<todo, sessionVars>>

\* _remove_session: the session's lock, and a second look at `destroyed`.
ClearLocks(r, sl) ==
    /\ pc[r] = "take" /\ holder[sl] = r /\ guard[handle[r]] = None
    /\ \/ /\ kernel[handle[r]] = "live"
          /\ guard' = [guard EXCEPT ![handle[r]] = r]
          /\ BeginRemoval(handle[r])
          /\ GoTo(r, "remove")
          /\ UNCHANGED slotVars
       \/ /\ kernel[handle[r]] # "live"
          /\ LeaveSlot(r, sl, None)
          /\ GoTo(r, "cleared")
          /\ UNCHANGED sessionVars
    /\ UNCHANGED <<handle, todo>>

ClearRemoved(r, sl) ==
    /\ pc[r] \in {"remove", "removeCancelled"} /\ holder[sl] = r
    /\ Removed(handle[r])
    /\ guard' = [guard EXCEPT ![handle[r]] = None]
    /\ LeaveSlot(r, sl, None)
    /\ GoTo(r, IF container[handle[r]] = "leaked" THEN "raised"
               ELSE IF pc[r] = "remove" THEN "cleared" ELSE "cancelled")
    /\ UNCHANGED <<handle, todo, kernel, container>>

-----------------------------------------------------------------------------
(* Cancellation, where each task can be waiting                            *)

\* Waiting for a slot, or inside one: the context manager leaves it.
CancelInSlot(a, sl) ==
    /\ a \in Cancellable /\ a \in users[sl]
    /\ pc[a] \in Waiting \cup {"create", "logs", "take"}
    /\ LeaveSlot(a, sl, cached[sl])
    /\ GoTo(a, "cancelled")
    /\ UNCHANGED <<handle, todo, sessionVars>>

\* Waiting for the session's lock, for a file or a download, or for the removal that
\* follows a failed cell, which is not shielded: the thread goes on alone.
CancelPlain(c) ==
    /\ c \in Cancellable /\ pc[c] \in {"download", "queue", "file", "fail"}
    /\ GoTo(c, "cancelled")
    /\ guard' = IF pc[c] = "fail" THEN [guard EXCEPT ![handle[c]] = None]
                                  ELSE guard
    /\ UNCHANGED <<slotVars, handle, todo, kernel, container>>

\* In a cell: shielded invalidation. run_python does not forget the session.
CancelCell(c) ==
    /\ c \in Cancellable /\ pc[c] = "cell"
    /\ BeginRemoval(handle[c])
    /\ GoTo(c, "failCancelled")
    /\ UNCHANGED <<slotVars, handle, todo, guard>>

CellCancelled(c) ==
    /\ pc[c] = "failCancelled" /\ Removed(handle[c])
    /\ guard' = [guard EXCEPT ![handle[c]] = None]
    /\ GoTo(c, "cancelled")
    /\ UNCHANGED <<slotVars, handle, todo, kernel, container>>

\* While the kernel boots: shielded removal.
CancelBoot(c) ==
    /\ c \in Cancellable /\ pc[c] = "boot" /\ guard[c] = None
    /\ guard' = [guard EXCEPT ![c] = c]
    /\ BeginRemoval(c)
    /\ GoTo(c, "unbootCancelled")
    /\ UNCHANGED <<slotVars, handle, todo>>

\* In _remove_session: the removal is awaited all the same.
CancelRemoval(a) ==
    /\ a \in Cancellable /\ pc[a] \in {"unboot", "remove"}
    /\ GoTo(a, IF pc[a] = "unboot" THEN "unbootCancelled"
                                   ELSE "removeCancelled")
    /\ UNCHANGED <<slotVars, handle, todo, sessionVars>>

-----------------------------------------------------------------------------
(* Docker, in threads that no task may be waiting for any more             *)

RemovalEnds(s) ==
    /\ container[s] = "removing"
    /\ \E left \in {"gone"} \cup (IF RemovalMayFail THEN {"leaked"} ELSE {}) :
          container' = [container EXCEPT ![s] = left]
    /\ UNCHANGED <<pc, open, slotVars, handle, todo, kernel, guard>>

\* start was cancelled while its thread created the container: nobody
\* registers it.
OrphanCreated(s) ==
    /\ container[s] = "creating" /\ pc[s] = "cancelled"
    /\ \E made \in {"running", "gone"} :
          container' = [container EXCEPT ![s] = made]
    /\ UNCHANGED <<pc, open, slotVars, handle, todo, kernel, guard>>

-----------------------------------------------------------------------------
CallStep(c) ==
    \/ \E sl \in Slots :
          \/ ReuseSession(c, sl) \/ StartSession(c, sl) \/ CreateFails(c, sl)
          \/ Booted(c, sl) \/ Unbooted(c, sl) \/ Forget(c, sl)
    \/ Created(c) \/ BootFails(c) \/ LogsRead(c)

CellStep(c) ==
    LockSession(c) \/ CellReturns(c) \/ CellFails(c) \/ CellFailed(c)
        \/ CellRaises(c) \/ CellCancelled(c)

FileStep(c) == Downloaded(c) \/ FileMoved(c) \/ FileFails(c)

ClearStep(r) ==
    \/ EndRun(r) \/ BeginClear(r)
    \/ \E sl \in Slots : Clear(r, sl) \/ ClearLocks(r, sl) \/ ClearRemoved(r, sl)

Cancel(a) ==
    \/ \E sl \in Slots : CancelInSlot(a, sl)
    \/ CancelRemoval(a)
    \/ a \in Calls /\ (CancelPlain(a) \/ CancelBoot(a))
    \/ a \in CellCalls /\ CancelCell(a)

DockerStep(s) == RemovalEnds(s) \/ OrphanCreated(s)

AllOver == \A a \in Tasks : pc[a] \in IF a \in Calls THEN {"idle"} \cup Ended ELSE Ended

Next ==
    \/ \E c \in Calls : Begin(c) \/ CallStep(c)
    \/ \E c \in CellCalls : CellStep(c)
    \/ \E c \in FileCalls : BeginClone(c) \/ FileStep(c)
    \/ \E r \in Runs : ClearStep(r)
    \/ \E a \in Tasks : Cancel(a)
    \/ \E s \in Calls : DockerStep(s)
    \/ AllOver /\ UNCHANGED vars

(***************************************************************************)
(* Each await ends: cells, pings and boots have deadlines, docker calls an *)
(* HTTP timeout, and asyncio runs every ready task and grants its locks in *)
(* order.  Nothing forces a call to begin or a task to be cancelled.       *)
(***************************************************************************)
Fairness ==
    /\ \A c \in Calls : WF_vars(CallStep(c))
    /\ \A c \in CellCalls : WF_vars(CellStep(c))
    /\ \A c \in FileCalls : WF_vars(FileStep(c))
    /\ \A r \in Runs : WF_vars(ClearStep(r))
    /\ \A s \in Calls : WF_vars(DockerStep(s))

Spec == Init /\ [][Next]_vars /\ Fairness
-----------------------------------------------------------------------------
(* Properties                                                              *)

\* Tasks of one run contend for one lock: a slot that some task uses is the
\* one registered for its run, so it is never dropped and made again under a
\* waiter (the refcount of _locked_slot).
SlotsAgree ==
    \A a \in Tasks, sl \in Slots : a \in users[sl] => slotOf[Owner(a)] = sl

\* The calls of a run that hold a live session hold the same one, and it is
\* the one the cache knows, so the run-end cleanup will find it. (A cleanup
\* cancelled between emptying the slot and destroying is the exception.)
OneKernel ==
    \A c \in Calls :
        LET r == RunOf[c] IN
        (handle[c] # None /\ kernel[handle[c]] = "live" /\ pc[r] # "cancelled")
            => \/ pc[r] = "take" /\ handle[r] = handle[c]
               \/ slotOf[r] # None /\ cached[slotOf[r]] = handle[c]

\* exec_cell never sends a cell to a kernel that is being torn down, and never
\* two cells to one kernel, although it checks before it waits for the lock.
OneCellPerLiveKernel ==
    \A c \in CellCalls : pc[c] = "cell" =>
        /\ kernel[handle[c]] = "live"
        /\ \A d \in CellCalls \ {c} : pc[d] \in InCell => handle[d] # handle[c]

\* When the cleanup of a run has ended well, no session that a call was given
\* is alive or has a container Docker was not asked to remove, and the run's
\* slot is gone from the registry.
ClearedRunOwnsNothing ==
    \A r \in Drained : pc[r] = "cleared" =>
        /\ slotOf[r] = None
        /\ \A c \in Calls : RunOf[c] = r /\ handle[c] # None =>
              kernel[handle[c]] = "destroyed"
                  /\ container[handle[c]] # "running"

\* The same for every container the run had made, handed out or not.
NoContainerLeftRunning ==
    \A r \in Drained : pc[r] = "cleared" =>
        \A c \in Calls : RunOf[c] = r => container[c] # "running"

\* Kernel state never crosses from one run into another: a task only ever gets
\* a session that its own run started.
RunsApart == \A a \in Tasks : handle[a] # None => RunOf[handle[a]] = Owner(a)

\* Every call that begins ends, and every run is cleaned up: no lock is held
\* for ever and no two tasks wait for each other's lock (a cleanup waits for a
\* session's lock inside the slot's; a call never does the opposite).
EveryTaskEnds ==
    /\ \A c \in Calls : pc[c] # "idle" ~> pc[c] \in Ended
    /\ \A r \in Runs : <>(pc[r] \in Ended)

\* The agent's view of the kernels: what the cache holds for a run (the cleanup
\* still has it while it destroys it), and a kernel lives from the moment its
\* own call is given it.
SessionOf(r) ==
    IF pc[r] \in Clearing THEN handle[r]
    ELSE IF slotOf[r] = None THEN None ELSE cached[slotOf[r]]

LifeOf(s) ==
    IF handle[s] # s THEN "unborn"
    ELSE IF kernel[s] = "live" THEN "live" ELSE "dead"

OutcomeOf(r) ==
    IF pc[r] = "cleared" THEN "closed"
    ELSE IF pc[r] \in {"raised", "cancelled"} THEN "failed" ELSE "no"

RunSession == [r \in Runs |-> SessionOf(r)]
Life       == [s \in Calls |-> LifeOf(s)]
Outcome    == [r \in Runs |-> OutcomeOf(r)]
Executing  == {<<c, handle[c]>> : c \in {d \in Calls : pc[d] = "cell"}}
Reported   == {s \in Calls : \E c \in Calls : pc[c] = "reset" /\ handle[c] = s}

Promise == INSTANCE RunKernel WITH
    session <- RunSession, life <- Life, working <- Executing,
    told <- Reported, ended <- Outcome

\* The tools keep their promise to the agent of a run: one kernel at a time, its
\* state kept until it is lost, no replacement before a call has said so, no
\* late failure that evicts a healthy successor, and no kernel after cleanup.
Refines == Promise!Spec
=============================================================================
