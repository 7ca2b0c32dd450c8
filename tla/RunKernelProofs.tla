--------------------------- MODULE RunKernelProofs ---------------------------
(***************************************************************************)
(* SandboxSessions implements RunKernel, for every set of calls, runs and  *)
(* slots, with or without failures and cancellations.                      *)
(*                                                                         *)
(* The agent's view of a state is what the refinement mapping computes     *)
(* from it.  Most steps leave the view alone; the lemmas say when they do, *)
(* and each of the others is one action of RunKernel.                      *)
(***************************************************************************)
EXTENDS SandboxSessionsProofs

USE SandboxAssumption DEF Calls, Tasks

(***************************************************************************)
(* A cleanup that waits for the calls of its run finds them over, and they *)
(* stay over.                                                              *)
(***************************************************************************)
Rest == {"idle"} \cup Ended

\* What a step may do to a task that is at rest.
Rested ==
    /\ open' \subseteq open
    /\ \A c \in Calls : pc[c] \in Rest /\ RunOf[c] \notin open => pc'[c] = pc[c]
    /\ \A r \in Runs : pc[r] = "idle" /\ pc'[r] # "idle"
          => r \notin open /\ (r \in Drained => CallsOver(r))

\* Almost every step moves one task that is not at rest.
LEMMA MoveKeepsRest ==
    ASSUME Typed, NEW a \in Tasks, NEW place, GoTo(a, place), pc[a] \notin Rest
    PROVE  Rested
  BY DEF Typed, TypeOK, GoTo, Rested, Rest

LEMMA RestStep == IInv /\ Next => Rested
<1> SUFFICES ASSUME IInv, Next PROVE Rested
  OBVIOUS
<1>0. Typed /\ TypeOK  BY DEF IInv, Typed
<1>a. \A c \in Calls : Owner(c) = RunOf[c]  BY DEF Owner
<1> USE <1>0
<1> USE DEF Rest, Ended, Waiting, Creating, InCell, Clearing
<1>1. ASSUME NEW c \in Calls, Begin(c) PROVE Rested
  BY <1>1, <1>a DEF Begin, GoTo, TypeOK, Rested
<1>2. ASSUME NEW c \in Calls, NEW sl \in Slots, ReuseSession(c, sl) PROVE Rested
  BY <1>2, MoveKeepsRest DEF ReuseSession
<1>3. ASSUME NEW c \in Calls, NEW sl \in Slots, StartSession(c, sl) PROVE Rested
  BY <1>3, MoveKeepsRest DEF StartSession
<1>4. ASSUME NEW c \in Calls, NEW sl \in Slots, CreateFails(c, sl) PROVE Rested
  BY <1>4, MoveKeepsRest DEF CreateFails
<1>5. ASSUME NEW c \in Calls, Created(c) PROVE Rested
  BY <1>5, MoveKeepsRest DEF Created
<1>6. ASSUME NEW c \in Calls, NEW sl \in Slots, Booted(c, sl) PROVE Rested
  BY <1>6, MoveKeepsRest DEF Booted
<1>7. ASSUME NEW c \in Calls, BootFails(c) PROVE Rested
  BY <1>7, MoveKeepsRest DEF BootFails
<1>8. ASSUME NEW c \in Calls, LogsRead(c) PROVE Rested
  BY <1>8, MoveKeepsRest DEF LogsRead
<1>9. ASSUME NEW c \in Calls, NEW sl \in Slots, Unbooted(c, sl) PROVE Rested
  BY <1>9, MoveKeepsRest DEF Unbooted
<1>10. ASSUME NEW c \in CellCalls, LockSession(c) PROVE Rested
  BY <1>10, MoveKeepsRest DEF LockSession
<1>11. ASSUME NEW c \in CellCalls, CellReturns(c) PROVE Rested
  BY <1>11, MoveKeepsRest DEF CellReturns
<1>12. ASSUME NEW c \in CellCalls, CellFails(c) PROVE Rested
  BY <1>12, MoveKeepsRest DEF CellFails
<1>13. ASSUME NEW c \in CellCalls, CellFailed(c) PROVE Rested
  BY <1>13, MoveKeepsRest DEF CellFailed
<1>14. ASSUME NEW c \in CellCalls, CellCancelled(c) PROVE Rested
  BY <1>14, MoveKeepsRest DEF CellCancelled
<1>14r. ASSUME NEW c \in CellCalls, CellRaises(c) PROVE Rested
  BY <1>14r, MoveKeepsRest DEF CellRaises
<1>15. ASSUME NEW c \in Calls, NEW sl \in Slots, Forget(c, sl) PROVE Rested
  BY <1>15, MoveKeepsRest DEF Forget
<1>16. ASSUME NEW c \in FileCalls, FileMoved(c) PROVE Rested
  BY <1>16, MoveKeepsRest DEF FileMoved
<1>17. ASSUME NEW c \in FileCalls, FileFails(c) PROVE Rested
  BY <1>17, MoveKeepsRest DEF FileFails
<1>18. ASSUME NEW r \in Runs, EndRun(r) PROVE Rested
  BY <1>18 DEF EndRun, Rested
<1>19. ASSUME NEW r \in Runs, BeginClear(r) PROVE Rested
  BY <1>19 DEF BeginClear, GoTo, TypeOK, Rested, Owner
<1>20. ASSUME NEW r \in Runs, NEW sl \in Slots, Clear(r, sl) PROVE Rested
  BY <1>20, MoveKeepsRest DEF Clear
<1>21. ASSUME NEW r \in Runs, NEW sl \in Slots, ClearLocks(r, sl) PROVE Rested
  BY <1>21, MoveKeepsRest DEF ClearLocks
<1>22. ASSUME NEW r \in Runs, NEW sl \in Slots, ClearRemoved(r, sl) PROVE Rested
  BY <1>22, MoveKeepsRest DEF ClearRemoved
<1>23. ASSUME NEW a \in Tasks, NEW sl \in Slots, CancelInSlot(a, sl) PROVE Rested
  BY <1>23, MoveKeepsRest DEF CancelInSlot
<1>24. ASSUME NEW a \in Tasks, CancelRemoval(a) PROVE Rested
  BY <1>24, MoveKeepsRest DEF CancelRemoval
<1>25. ASSUME NEW c \in Calls, CancelPlain(c) PROVE Rested
  BY <1>25, MoveKeepsRest DEF CancelPlain
<1>26. ASSUME NEW c \in Calls, CancelBoot(c) PROVE Rested
  BY <1>26, MoveKeepsRest DEF CancelBoot
<1>27. ASSUME NEW c \in CellCalls, CancelCell(c) PROVE Rested
  BY <1>27, MoveKeepsRest DEF CancelCell
<1>28. ASSUME NEW c \in Calls, RemovalEnds(c) PROVE Rested
  BY <1>28 DEF RemovalEnds, Rested
<1>29. ASSUME NEW c \in Calls, OrphanCreated(c) PROVE Rested
  BY <1>29 DEF OrphanCreated, Rested
<1>30. CASE UNCHANGED vars
  BY <1>30 DEF vars, Rested
<1>31. ASSUME NEW c \in FileCalls, BeginClone(c) PROVE Rested
  BY <1>31, <1>a DEF BeginClone, GoTo, TypeOK, Rested
<1>32. ASSUME NEW c \in FileCalls, Downloaded(c) PROVE Rested
  BY <1>32, MoveKeepsRest DEF Downloaded
<1> QED
  BY <1>1, <1>2, <1>3, <1>4, <1>5, <1>6, <1>7, <1>8, <1>9, <1>10, <1>11, <1>12, <1>13, <1>14, <1>14r, <1>15, <1>16,
     <1>17, <1>18, <1>19, <1>20, <1>21, <1>22, <1>23, <1>24, <1>25, <1>26, <1>27, <1>28, <1>29, <1>30, <1>31, <1>32
     DEF Next, CallStep, CellStep, FileStep, ClearStep, Cancel, DockerStep

LEMMA DrainStep == IInv /\ Drain /\ [Next]_vars => Drain'
<1>1. ASSUME IInv, Drain, Next PROVE Drain'
  <2>1. Rested  BY <1>1, RestStep
  <2>2. TypeOK  BY <1>1 DEF IInv, Typed
  <2> SUFFICES ASSUME NEW r \in Drained, pc'[r] # "idle"
               PROVE  r \notin open' /\ CallsOver(r)'
    BY DEF Drain
  <2>3. r \in Runs  OBVIOUS
  <2>4. r \notin open /\ CallsOver(r)
    BY <1>1, <2>1, <2>3 DEF Drain, Rested
  <2>5. r \notin open'  BY <2>1, <2>4 DEF Rested
  <2>6. \A c \in Calls : RunOf[c] = r => pc'[c] = pc[c]
    BY <2>1, <2>4 DEF Rested, CallsOver, Rest
  <2>7. CallsOver(r)'
    BY <2>4, <2>6 DEF CallsOver
  <2> QED  BY <2>5, <2>7
<1>2. ASSUME Drain, UNCHANGED vars PROVE Drain'
  BY <1>2 DEF Drain, CallsOver, vars
<1> QED  BY <1>1, <1>2

\* A drained cleanup runs after the last call of its run.
THEOREM CleanupIsLast == Spec => []Drain
<1>1. Init => Drain
  BY DEF Init, Drain
<1> QED  BY <1>1, DrainStep, Inductive, PTL DEF Spec

(***************************************************************************)
(* The agent's view, and the steps that leave it alone.                    *)
(***************************************************************************)
SameSession == \A r \in Runs : SessionOf(r)' = SessionOf(r)
SameLife    == \A s \in Calls : LifeOf(s)' = LifeOf(s)
SameOutcome == \A r \in Runs : OutcomeOf(r)' = OutcomeOf(r)
SameCells   == UNCHANGED Executing
SameReports == UNCHANGED Reported

LEMMA Unseen ==
    ASSUME SameSession, SameLife, SameOutcome, SameCells, SameReports
    PROVE  UNCHANGED Promise!vars
<1>1. UNCHANGED RunSession  BY DEF RunSession, SameSession
<1>2. UNCHANGED Life  BY DEF Life, SameLife
<1>3. UNCHANGED Outcome  BY DEF Outcome, SameOutcome
<1> QED  BY <1>1, <1>2, <1>3 DEF Promise!vars, SameCells, SameReports

\* A call that moves between places the agent cannot tell apart.
LEMMA CallMoves ==
    ASSUME Typed, NEW c \in Calls, NEW place, GoTo(c, place),
           pc[c] \notin {"cell", "reset"}, place \notin {"cell", "reset"},
           \A d \in Calls \ {c} : handle'[d] = handle[d]
    PROVE  SameOutcome /\ SameCells /\ SameReports
<1>0. TypeOK  BY DEF Typed
<1>1. \A r \in Runs : pc'[r] = pc[r]  BY <1>0 DEF GoTo, TypeOK
<1>2. SameOutcome  BY <1>1 DEF SameOutcome, OutcomeOf
<1>3. \A d \in Calls : (pc'[d] = "cell" <=> pc[d] = "cell") /\ (pc'[d] = "reset" <=> pc[d] = "reset")
  BY <1>0 DEF GoTo, TypeOK
<1>4. \A d \in Calls : pc[d] \in {"cell", "reset"} => handle'[d] = handle[d]
  OBVIOUS
<1>5. SameCells
  BY <1>3, <1>4 DEF SameCells, Executing
<1>6. SameReports
  BY <1>3, <1>4 DEF SameReports, Reported
<1> QED  BY <1>2, <1>5, <1>6

\* A step of a cleanup, or of Docker: no call moves.
LEMMA CallsStay ==
    ASSUME \A c \in Calls : pc'[c] = pc[c] /\ handle'[c] = handle[c]
    PROVE  SameCells /\ SameReports
  BY DEF SameCells, SameReports, Executing, Reported

LEMMA SlotsStay ==
    ASSUME UNCHANGED <<slotOf, cached>>,
           \A r \in Runs : /\ handle'[r] = handle[r]
                           /\ pc'[r] \in Clearing <=> pc[r] \in Clearing
    PROVE  SameSession
  BY DEF SameSession, SessionOf

\* Taking a slot, registered or fresh: a fresh one caches nothing.
LEMMA EnterUnseen ==
    ASSUME Typed, Slotted, NEW a \in Tasks, EnterSlot(a), UNCHANGED cached,
           \A r \in Runs : /\ handle'[r] = handle[r]
                           /\ pc'[r] \in Clearing <=> pc[r] \in Clearing
    PROVE  SameSession
<1>0. TypeOK /\ Owner(a) \in Runs  BY OwnerType DEF Typed
<1>1. PICK sl \in Slots :
         /\ slotOf[Owner(a)] = sl \/ (slotOf[Owner(a)] = None /\ Unused(sl))
         /\ slotOf' = [slotOf EXCEPT ![Owner(a)] = sl]
  BY DEF EnterSlot
<1>2. CASE slotOf[Owner(a)] = sl
  <2>1. slotOf' = slotOf  BY <1>0, <1>1, <1>2 DEF TypeOK
  <2> QED  BY <2>1, SlotsStay
<1>3. CASE slotOf[Owner(a)] = None /\ Unused(sl)
  <2>1. cached[sl] = None
    BY <1>0, <1>3 DEF Slotted, SlotKeys, Unused, TypeOK
  <2>2. \A r \in Runs : r # Owner(a) => slotOf'[r] = slotOf[r]
    BY <1>0, <1>1 DEF TypeOK
  <2>3. slotOf'[Owner(a)] = sl /\ sl # None
    BY <1>0, <1>1 DEF TypeOK
  <2>4. ASSUME NEW r \in Runs PROVE SessionOf(r)' = SessionOf(r)
    BY <1>3, <2>1, <2>2, <2>3 DEF SessionOf
  <2> QED  BY <2>4 DEF SameSession
<1> QED  BY <1>1, <1>2, <1>3

\* Leaving a slot and what it caches: it is dropped only if that is nothing.
LEMMA LeaveUnseen ==
    ASSUME Typed, Slotted, NEW a \in Tasks, NEW sl \in Slots, a \in users[sl],
           LeaveSlot(a, sl, cached[sl]),
           \A r \in Runs : /\ handle'[r] = handle[r]
                           /\ pc'[r] \in Clearing <=> pc[r] \in Clearing
    PROVE  SameSession
<1>0. TypeOK /\ Owner(a) \in Runs  BY OwnerType DEF Typed
<1>1. cached' = cached  BY <1>0 DEF LeaveSlot, TypeOK
<1>2. CASE slotOf' = slotOf
  BY <1>1, <1>2, SlotsStay
<1>3. CASE slotOf' = [slotOf EXCEPT ![Owner(a)] = None] /\ cached[sl] = None /\ slotOf[Owner(a)] = sl
  <2>1. \A r \in Runs : r # Owner(a) => slotOf'[r] = slotOf[r]
    BY <1>0, <1>3 DEF TypeOK
  <2>2. slotOf'[Owner(a)] = None
    BY <1>0, <1>3 DEF TypeOK
  <2>3. ASSUME NEW r \in Runs PROVE SessionOf(r)' = SessionOf(r)
    BY <1>1, <1>3, <2>1, <2>2 DEF SessionOf
  <2> QED  BY <2>3 DEF SameSession
<1> QED  BY <1>2, <1>3 DEF LeaveSlot

\* A call neither is a cleanup nor moves one.
LEMMA CleanupsStay ==
    ASSUME Typed, NEW c \in Calls, NEW place, GoTo(c, place)
    PROVE  \A r \in Runs : pc'[r] = pc[r]
  BY DEF Typed, TypeOK, GoTo

LEMMA KernelsStay ==
    ASSUME UNCHANGED kernel, \A c \in Calls : handle'[c] = handle[c]
    PROVE  SameLife
  BY DEF SameLife, LifeOf

\* A kernel that dies: the cells that execute in it are over.
LEMMA KernelDies ==
    ASSUME IInv, NEW s \in Calls, handle[s] = s, kernel[s] = "live", BeginRemoval(s),
           SameSession, SameOutcome, SameReports,
           \A c \in Calls : handle'[c] = handle[c],
           \A c \in Calls : pc'[c] = "cell" <=> pc[c] = "cell" /\ handle[c] # s
    PROVE  Promise!Lose(s)
<1>0. TypeOK  BY DEF IInv, Typed
<1>1. Life[s] = "live"
  BY DEF Life, LifeOf
<1>2. Life' = [Life EXCEPT ![s] = "dead"]
  <2>1. kernel' = [kernel EXCEPT ![s] = "destroyed"]  BY DEF BeginRemoval
  <2>2. \A c \in Calls \ {s} : LifeOf(c)' = LifeOf(c)
    BY <1>0, <2>1 DEF LifeOf, TypeOK
  <2>3. LifeOf(s)' = "dead"
    BY <1>0, <2>1 DEF LifeOf, TypeOK
  <2> QED  BY <2>2, <2>3 DEF Life
<1>3. Executing' = {w \in Executing : w[2] # s}
  BY DEF Executing
<1>4. UNCHANGED <<RunSession, Outcome, Reported>>
  BY DEF SameSession, SameOutcome, SameReports, RunSession, Outcome
<1> QED  BY <1>1, <1>2, <1>3, <1>4 DEF Promise!Lose

\* The end of a cleanup: the slot of its run is empty.
LEMMA CleanupEnds ==
    ASSUME IInv, NEW r \in Runs, NEW sl \in Slots, r \in users[sl], LeaveSlot(r, sl, None),
           NEW place \in {"cleared", "raised", "cancelled"}, GoTo(r, place),
           \A c \in Calls : handle'[c] = handle[c],
           \A q \in Runs \ {r} : handle'[q] = handle[q],
           place = "cleared" => SessionOf(r) = None \/ LifeOf(SessionOf(r)) = "dead",
           UNCHANGED kernel
    PROVE  Promise!Close(r) \/ Promise!Fail(r)
<1>0. TypeOK /\ Typed /\ SlotCount /\ SlotKeys /\ Owner(r) = r
  BY DEF IInv, Typed, Owner
<1>1. slotOf[r] = sl /\ pc[r] \in InSlot
  BY <1>0 DEF SlotCount
<1>2. /\ \A c \in Calls : pc'[c] = pc[c]
      /\ \A q \in Runs \ {r} : pc'[q] = pc[q]
      /\ pc'[r] = place
  BY <1>0 DEF GoTo, TypeOK
<1>3. SameCells /\ SameReports  BY <1>2, CallsStay
<1>4. UNCHANGED Life  BY KernelsStay DEF Life, SameLife
<1>5. SessionOf(r)' = None
  BY <1>0, <1>1, <1>2 DEF SessionOf, LeaveSlot, TypeOK, Clearing
<1>6. ASSUME NEW q \in Runs \ {r} PROVE SessionOf(q)' = SessionOf(q)
  <2>1. slotOf[q] # None => slotOf[q] # sl
    BY <1>0, <1>1 DEF SlotKeys
  <2>2. slotOf'[q] = slotOf[q]
    BY <1>0 DEF LeaveSlot, TypeOK
  <2>3. slotOf[q] # None => cached'[slotOf[q]] = cached[slotOf[q]]
    BY <1>0, <2>1 DEF LeaveSlot, TypeOK
  <2> QED  BY <1>2, <2>2, <2>3 DEF SessionOf
<1>7. RunSession' = [RunSession EXCEPT ![r] = None]
  BY <1>5, <1>6 DEF RunSession
<1>8. Outcome[r] = "no"
  BY <1>1 DEF Outcome, OutcomeOf, InSlot, Waiting, Creating, Clearing
<1>9. \A q \in Runs \ {r} : OutcomeOf(q)' = OutcomeOf(q)
  BY <1>2 DEF OutcomeOf
<1>10. CASE place = "cleared"
  <2>1. Outcome' = [Outcome EXCEPT ![r] = "closed"]
    BY <1>2, <1>9, <1>10 DEF Outcome, OutcomeOf
  <2>2. RunSession[r] # None => RunSession[r] \in Calls
    BY <1>0 DEF IInv, RunSession, SessionOf, TypeOK
  <2>3. RunSession[r] # None => Life[RunSession[r]] = "dead"
    BY <1>10, <2>2 DEF RunSession, Life
  <2> QED  BY <1>3, <1>4, <1>7, <1>8, <2>1, <2>3 DEF Promise!Close, SameCells, SameReports
<1>11. CASE place # "cleared"
  <2>1. Outcome' = [Outcome EXCEPT ![r] = "failed"]
    BY <1>2, <1>9, <1>11 DEF Outcome, OutcomeOf
  <2> QED  BY <1>3, <1>4, <1>7, <1>8, <2>1 DEF Promise!Fail, SameCells, SameReports
<1> QED  BY <1>10, <1>11

(***************************************************************************)
(* The refinement.                                                         *)
(***************************************************************************)
Seen == Promise!Next \/ UNCHANGED Promise!vars

\* A call that takes or leaves a slot, or no slot at all.
LEMMA CallUnseen ==
    ASSUME IInv, NEW c \in Calls, NEW place, GoTo(c, place),
           pc[c] \notin {"cell", "reset"}, place \notin {"cell", "reset"},
           UNCHANGED <<handle, kernel>>,
           \/ UNCHANGED <<slotOf, cached>>
           \/ EnterSlot(c) /\ UNCHANGED cached
           \/ \E sl \in Slots : c \in users[sl] /\ LeaveSlot(c, sl, cached[sl])
    PROVE  Seen
<1>0. Typed /\ Slotted  BY DEF IInv, Slotted
<1>1. SameOutcome /\ SameCells /\ SameReports  BY <1>0, CallMoves
<1>2. SameLife  BY KernelsStay
<1>3. \A r \in Runs : handle'[r] = handle[r] /\ (pc'[r] \in Clearing <=> pc[r] \in Clearing)
  BY <1>0, CleanupsStay
<1>4. SameSession
  BY <1>0, <1>3, SlotsStay, EnterUnseen, LeaveUnseen
<1> QED  BY <1>1, <1>2, <1>4, Unseen DEF Seen

\* Nobody was given the kernel yet: its start and its end are not seen.
LEMMA BootUnseen ==
    ASSUME IInv, NEW c \in Calls, NEW place, GoTo(c, place),
           pc[c] \in Creating, place \notin {"cell", "reset"},
           NEW state, kernel' = [kernel EXCEPT ![c] = state],
           UNCHANGED <<handle, slotOf, cached>>
    PROVE  Seen
<1>0. Typed /\ TypeOK  BY DEF IInv, Typed
<1>1. SameOutcome /\ SameCells /\ SameReports
  BY <1>0, CallMoves DEF Creating
<1>2. handle[c] = None
  BY DEF IInv, Handles
<1>3. SameLife
  BY <1>0, <1>2 DEF SameLife, LifeOf, TypeOK
<1>4. SameSession
  BY <1>0, CleanupsStay, SlotsStay
<1> QED  BY <1>1, <1>3, <1>4, Unseen DEF Seen

\* The session of a task is one that has been handed out.
LEMMA HandleKnown ==
    ASSUME IInv, NEW a \in Tasks, handle[a] # None
    PROVE  handle[a] \in Calls /\ handle[handle[a]] = handle[a] /\ RunOf[handle[a]] = Owner(a)
  BY DEF IInv, Typed, TypeOK, Handles

LEMMA RefinementStep == IInv /\ Drain /\ Next => Seen
<1> SUFFICES ASSUME IInv, Drain, Next PROVE Seen
  OBVIOUS
<1>0. /\ Typed /\ TypeOK /\ Slotted /\ Handles /\ KernelState /\ OneKernel
      /\ SlotCount /\ SlotKeys /\ SlotLock
  BY DEF IInv, Typed, Slotted
<1>a. \A r \in Runs : Owner(r) = r  BY DEF Owner
<1>b. \A c \in Calls : Owner(c) = RunOf[c]  BY DEF Owner
<1> USE <1>0, <1>a, <1>b
<1>1. ASSUME NEW c \in Calls, Begin(c) PROVE Seen
  BY <1>1, CallUnseen DEF Begin, slotVars, sessionVars
<1>2. ASSUME NEW c \in Calls, NEW sl \in Slots, ReuseSession(c, sl) PROVE Seen
  <2> DEFINE s == cached[sl]
  <2>1. /\ pc[c] = "want" /\ c \in users[sl] /\ s # None
        /\ UNCHANGED kernel /\ handle' = [handle EXCEPT ![c] = s]
    BY <1>2 DEF ReuseSession, Granted, sessionVars
  <2>2. PICK place \in AfterSession(c, s) :
           /\ GoTo(c, place)
           /\ IF place = "forget" THEN UNCHANGED slotVars ELSE LeaveSlot(c, sl, s)
    BY <1>2 DEF ReuseSession
  <2>3. place \in {"queue", "file", "raised", "forget"}  BY DEF AfterSession
  <2>4. handle[c] = None /\ s \in Calls /\ handle[s] = s
    BY <2>1 DEF Handles, TypeOK
  <2>5. \A d \in Calls : handle'[d] = d <=> handle[d] = d
    BY <2>1, <2>4 DEF TypeOK
  <2>6. SameLife
    BY <2>1, <2>5 DEF SameLife, LifeOf
  <2>7. SameOutcome /\ SameCells /\ SameReports
    BY <2>1, <2>2, <2>3, CallMoves DEF TypeOK
  <2>8. \A r \in Runs : handle'[r] = handle[r] /\ (pc'[r] \in Clearing <=> pc[r] \in Clearing)
    BY <2>1, <2>2, CleanupsStay DEF TypeOK
  <2>9. SameSession
    BY <2>1, <2>2, <2>8, SlotsStay, LeaveUnseen DEF slotVars
  <2> QED  BY <2>6, <2>7, <2>9, Unseen DEF Seen
<1>3. ASSUME NEW c \in Calls, NEW sl \in Slots, StartSession(c, sl) PROVE Seen
  BY <1>3, CallUnseen DEF StartSession, slotVars, sessionVars
<1>4. ASSUME NEW c \in Calls, NEW sl \in Slots, CreateFails(c, sl) PROVE Seen
  <2>1. c \in users[sl]
    BY <1>4, HolderInside DEF CreateFails
  <2> QED  BY <1>4, <2>1, CallUnseen DEF CreateFails
<1>5. ASSUME NEW c \in Calls, Created(c) PROVE Seen
  BY <1>5, BootUnseen DEF Created, Creating, slotVars
<1>6. ASSUME NEW c \in Calls, NEW sl \in Slots, Booted(c, sl) PROVE Seen
  <2> DEFINE q == RunOf[c]
  <2>1. /\ pc[c] = "boot" /\ holder[sl] = c /\ UNCHANGED kernel
        /\ handle' = [handle EXCEPT ![c] = c] /\ LeaveSlot(c, sl, c)
    BY <1>6 DEF Booted, sessionVars
  <2>2. PICK place \in AfterSession(c, c) : GoTo(c, place)
    BY <1>6 DEF Booted
  <2>3. place \in {"queue", "file", "raised", "forget"}  BY DEF AfterSession
  <2>4. q \in Runs /\ slotOf[q] = sl /\ cached[sl] = None /\ handle[c] = None
    BY <2>1, HolderInside DEF SlotCount, Handles, Creating
  <2>5. \A r \in Runs : pc'[r] = pc[r] /\ handle'[r] = handle[r]
    BY <2>1, <2>2, CleanupsStay DEF TypeOK
  <2>6. pc[q] \notin Clearing
    BY <2>1, <2>4 DEF SlotLock, Holding
  <2>7. slotOf' = slotOf /\ cached' = [cached EXCEPT ![sl] = c]
    BY <2>1 DEF LeaveSlot
  <2>8. SameOutcome /\ SameCells /\ SameReports
    BY <2>1, <2>2, <2>3, CallMoves DEF TypeOK
  <2>9. SessionOf(q) = None /\ SessionOf(q)' = c
    BY <2>4, <2>5, <2>6, <2>7 DEF SessionOf, TypeOK
  <2>10. ASSUME NEW r \in Runs \ {q} PROVE SessionOf(r)' = SessionOf(r)
    <3>1. slotOf[r] # None => slotOf[r] # sl
      BY <2>4 DEF SlotKeys
    <3>2. slotOf[r] # None => cached'[slotOf[r]] = cached[slotOf[r]]
      BY <2>7, <3>1 DEF TypeOK
    <3> QED  BY <2>5, <2>7, <3>2 DEF SessionOf
  <2>11. RunSession[q] = None /\ RunSession' = [RunSession EXCEPT ![q] = c]
    BY <2>4, <2>9, <2>10 DEF RunSession
  <2>12. LifeOf(c) = "unborn" /\ LifeOf(c)' = "live"
    BY <2>1, <2>4 DEF LifeOf, KernelState, TypeOK
  <2>13. \A d \in Calls \ {c} : LifeOf(d)' = LifeOf(d)
    BY <2>1 DEF LifeOf, TypeOK
  <2>14. Life[c] = "unborn" /\ Life' = [Life EXCEPT ![c] = "live"]
    BY <2>12, <2>13 DEF Life
  <2>15. q \in Drained => Outcome[q] = "no"
    <3>1. q \in Drained => pc[q] = "idle"
      BY <2>1 DEF Drain, CallsOver, Ended
    <3> QED  BY <2>4, <3>1 DEF Outcome, OutcomeOf
  <2>16. Promise!Start(c)
    BY <2>8, <2>11, <2>14, <2>15 DEF Promise!Start, SameOutcome, Outcome, SameCells, SameReports
  <2> QED  BY <2>16 DEF Seen, Promise!Next
<1>7. ASSUME NEW c \in Calls, BootFails(c) PROVE Seen
  BY <1>7, CallUnseen DEF BootFails, slotVars, sessionVars
<1>8. ASSUME NEW c \in Calls, LogsRead(c) PROVE Seen
  BY <1>8, BootUnseen DEF LogsRead, Creating, BeginRemoval, slotVars
<1>9. ASSUME NEW c \in Calls, NEW sl \in Slots, Unbooted(c, sl) PROVE Seen
  <2>1. c \in users[sl]
    BY <1>9, HolderInside DEF Unbooted
  <2> QED  BY <1>9, <2>1, CallUnseen DEF Unbooted
<1>10. ASSUME NEW c \in CellCalls, LockSession(c) PROVE Seen
  <2> DEFINE s == handle[c]
  <2>1. pc[c] = "queue" /\ guard[s] = None /\ UNCHANGED <<cached, handle, kernel>>
    BY <1>10 DEF LockSession
  <2>2. s \in Calls /\ handle[s] = s /\ RunOf[s] = RunOf[c]
    BY <2>1, HandleKnown DEF Handles
  <2>3. CASE GoTo(c, "forget") /\ EnterSlot(c)
    BY <2>1, <2>3, CallUnseen
  <2>4. CASE kernel[s] = "live" /\ GoTo(c, "cell") /\ UNCHANGED <<slotOf, users>>
    <3>1. \A r \in Runs : pc'[r] = pc[r]  BY <2>4, CleanupsStay
    <3>2. SameSession  BY <2>1, <2>4, <3>1, SlotsStay
    <3>3. SameOutcome  BY <3>1 DEF SameOutcome, OutcomeOf
    <3>4. SameLife  BY <2>1, KernelsStay
    <3>5. /\ \A d \in Calls \ {c} : pc'[d] = pc[d]
          /\ pc'[c] = "cell"
      BY <2>4 DEF GoTo, TypeOK
    <3>6. SameReports
      BY <2>1, <3>5 DEF SameReports, Reported
    <3>7. Executing' = Executing \cup {<<c, s>>}
      BY <2>1, <3>5 DEF Executing
    <3>8. Life[s] = "live"
      BY <2>2, <2>4 DEF Life, LifeOf
    <3>9. ASSUME NEW d \in Calls PROVE <<d, s>> \notin Executing
      BY <2>1 DEF Executing, IInv, SessionLock, Guarding, InCell
    <3>10. SessionOf(RunOf[c]) = s \/ OutcomeOf(RunOf[c]) = "failed"
      <4>1. pc[RunOf[c]] = "cancelled" => OutcomeOf(RunOf[c]) = "failed"
        BY DEF OutcomeOf
      <4>2. CASE pc[RunOf[c]] = "take" /\ handle[RunOf[c]] = s
        BY <4>2 DEF SessionOf, Clearing
      <4>3. CASE slotOf[RunOf[c]] # None /\ cached[slotOf[RunOf[c]]] = s
        <5>1. pc[RunOf[c]] \notin Clearing
          BY <2>2, <4>3 DEF SlotLock, Holding
        <5> QED  BY <4>3, <5>1 DEF SessionOf
      <4> QED  BY <2>2, <2>4, <4>1, <4>2, <4>3 DEF OneKernel
    <3>11. RunSession[RunOf[c]] = s \/ Outcome[RunOf[c]] = "failed"
      BY <3>10 DEF RunSession, Outcome
    <3> HIDE DEF s
    <3>12. UNCHANGED <<RunSession, Life, Outcome, Reported>>
      BY <3>2, <3>3, <3>4, <3>6 DEF SameSession, SameLife, SameOutcome, SameReports, RunSession, Life, Outcome
    <3>13. Promise!Work(c, s)
      BY <2>2, <3>7, <3>8, <3>9, <3>11, <3>12 DEF Promise!Work
    <3> QED  BY <2>2, <3>13 DEF Seen, Promise!Next
  <2> QED  BY <1>10, <2>3, <2>4 DEF LockSession
<1>11. ASSUME NEW c \in CellCalls, CellReturns(c) PROVE Seen
  <2> DEFINE s == handle[c]
  <2>1. pc[c] = "cell" /\ GoTo(c, "ok") /\ UNCHANGED <<slotVars, handle, kernel>>
    BY <1>11 DEF CellReturns
  <2>2. s \in Calls
    BY <2>1, HandleKnown DEF Handles, InCell
  <2>3. \A r \in Runs : pc'[r] = pc[r]  BY <2>1, CleanupsStay
  <2>4. SameSession  BY <2>1, <2>3, SlotsStay DEF slotVars
  <2>5. SameOutcome  BY <2>3 DEF SameOutcome, OutcomeOf
  <2>6. SameLife  BY <2>1, KernelsStay
  <2>7. pc'[c] = "ok" /\ \A d \in Calls \ {c} : pc'[d] = pc[d]
    BY <2>1 DEF GoTo, TypeOK
  <2>8. SameReports
    BY <2>1, <2>7 DEF SameReports, Reported
  <2>9. <<c, s>> \in Executing /\ Executing' = Executing \ {<<c, s>>}
    BY <2>1, <2>7 DEF Executing
  <2> HIDE DEF s
  <2>10. UNCHANGED <<RunSession, Life, Outcome, Reported>>
    BY <2>4, <2>5, <2>6, <2>8 DEF SameSession, SameLife, SameOutcome, SameReports, RunSession, Life, Outcome
  <2>11. Promise!Return(c, s)
    BY <2>9, <2>10 DEF Promise!Return
  <2> QED  BY <2>2, <2>11 DEF Seen, Promise!Next
<1>12. ASSUME NEW c \in CellCalls, CellFails(c) PROVE Seen
  <2> DEFINE s == handle[c]
  <2>1. /\ pc[c] = "cell" /\ BeginRemoval(s) /\ GoTo(c, "fail")
        /\ UNCHANGED <<slotVars, handle>>
    BY <1>12 DEF CellFails
  <2>2. s \in Calls /\ handle[s] = s /\ kernel[s] = "live"
    BY <2>1, HandleKnown DEF Handles, KernelState, InCell
  <2>3. \A r \in Runs : pc'[r] = pc[r]  BY <2>1, CleanupsStay
  <2>4. SameSession  BY <2>1, <2>3, SlotsStay DEF slotVars
  <2>5. SameOutcome  BY <2>3 DEF SameOutcome, OutcomeOf
  <2>6. \A d \in Calls \ {c} : pc'[d] = pc[d]  BY <2>1 DEF GoTo, TypeOK
  <2>7. pc'[c] = "fail"  BY <2>1 DEF GoTo, TypeOK
  <2>8. SameReports
    BY <2>1, <2>6, <2>7 DEF SameReports, Reported
  <2>9. \A d \in Calls : pc'[d] = "cell" <=> pc[d] = "cell" /\ handle[d] # s
    <3>1. \A d \in Calls \ {c} : pc[d] = "cell" => d \in CellCalls /\ handle[d] # s
      BY <2>1 DEF IInv, SessionLock, Typed, Guarding, InCell
    <3> QED  BY <2>1, <2>6, <2>7, <3>1
  <2> HIDE DEF s
  <2>10. Promise!Lose(s)
    BY <2>1, <2>2, <2>4, <2>5, <2>8, <2>9, KernelDies
  <2> QED  BY <2>2, <2>10 DEF Seen, Promise!Next
<1>13. ASSUME NEW c \in CellCalls, CellFailed(c) PROVE Seen
  BY <1>13, CallUnseen DEF CellFailed, slotVars, sessionVars
<1>14. ASSUME NEW c \in CellCalls, CellCancelled(c) PROVE Seen
  BY <1>14, CallUnseen DEF CellCancelled, slotVars, sessionVars
<1>14r. ASSUME NEW c \in CellCalls, CellRaises(c) PROVE Seen
  BY <1>14r, CallUnseen DEF CellRaises, slotVars, sessionVars
<1>15. ASSUME NEW c \in Calls, NEW sl \in Slots, Forget(c, sl) PROVE Seen
  <2> DEFINE s == handle[c]
             q == RunOf[c]
             entry == IF cached[sl] = s THEN None ELSE cached[sl]
  <2>1. /\ pc[c] = "forget" /\ c \in users[sl] /\ holder[sl] = None /\ LeaveSlot(c, sl, entry)
        /\ GoTo(c, "reset") /\ UNCHANGED <<handle, kernel>>
    BY <1>15 DEF Forget, Granted, sessionVars
  <2>2. s \in Calls /\ handle[s] = s /\ RunOf[s] = q /\ kernel[s] # "live" /\ s # None
    BY <2>1, HandleKnown DEF Handles, KernelState
  <2>3. q \in Runs /\ slotOf[q] = sl /\ sl # None
    BY <2>1 DEF SlotCount
  <2>4. pc[q] \notin Clearing
    BY <2>1, <2>3 DEF SlotLock, Holding
  <2>5. \A r \in Runs : pc'[r] = pc[r]  BY <2>1, CleanupsStay
  <2>6. pc'[c] = "reset" /\ \A d \in Calls \ {c} : pc'[d] = pc[d]
    BY <2>1 DEF GoTo, TypeOK
  <2>7. SameOutcome  BY <2>5 DEF SameOutcome, OutcomeOf
  <2>8. SameLife  BY <2>1, KernelsStay
  <2>9. SameCells
    BY <2>1, <2>6 DEF SameCells, Executing
  <2>10. Reported' = Reported \cup {s}
    BY <2>1, <2>2, <2>6 DEF Reported
  <2>11. SessionOf(q) = cached[sl]
    BY <2>3, <2>4 DEF SessionOf
  <2>12. SessionOf(q)' = entry
    <3>1. cached'[sl] = entry  BY <2>1 DEF LeaveSlot, TypeOK
    <3>2. slotOf'[q] = sl \/ (slotOf'[q] = None /\ entry = None)
      BY <2>1, <2>3 DEF LeaveSlot, TypeOK
    <3> QED  BY <2>3, <2>4, <2>5, <3>1, <3>2 DEF SessionOf
  <2>13. ASSUME NEW r \in Runs \ {q} PROVE SessionOf(r)' = SessionOf(r)
    <3>1. slotOf[r] # None => slotOf[r] # sl
      BY <2>3 DEF SlotKeys
    <3>2. slotOf'[r] = slotOf[r]
      BY <2>1 DEF LeaveSlot, TypeOK
    <3>3. slotOf[r] # None => cached'[slotOf[r]] = cached[slotOf[r]]
      BY <2>1, <3>1 DEF LeaveSlot, TypeOK
    <3> QED  BY <2>1, <2>5, <3>2, <3>3 DEF SessionOf
  <2>14. Life[s] = "dead"
    BY <2>2 DEF Life, LifeOf
  <2> HIDE DEF s, q
  <2>15. RunSession' = [RunSession EXCEPT ![q] = IF RunSession[q] = s THEN None ELSE RunSession[q]]
    BY <2>3, <2>11, <2>12, <2>13 DEF RunSession
  <2>16. Promise!Tell(s)
    BY <2>2, <2>7, <2>8, <2>9, <2>10, <2>14, <2>15
       DEF Promise!Tell, SameOutcome, Outcome, SameLife, Life, SameCells
  <2> QED  BY <2>2, <2>16 DEF Seen, Promise!Next
<1>16. ASSUME NEW c \in FileCalls, FileMoved(c) PROVE Seen
  BY <1>16, CallUnseen DEF FileMoved, slotVars, sessionVars
<1>17. ASSUME NEW c \in FileCalls, FileFails(c) PROVE Seen
  BY <1>17, CallUnseen DEF FileFails, slotVars, sessionVars
<1>18. ASSUME NEW r \in Runs, EndRun(r) PROVE Seen
  BY <1>18, Unseen, CallsStay, SlotsStay, KernelsStay DEF EndRun, Seen, slotVars, sessionVars, SameOutcome, OutcomeOf
<1>19. ASSUME NEW r \in Runs, BeginClear(r) PROVE Seen
  <2>1. /\ pc[r] = "idle" /\ EnterSlot(r) /\ GoTo(r, "want")
        /\ UNCHANGED <<cached, handle, kernel>>
    BY <1>19 DEF BeginClear, sessionVars
  <2>2. pc'[r] = "want" /\ \A a \in Tasks \ {r} : pc'[a] = pc[a]
    BY <2>1 DEF GoTo, TypeOK
  <2>3. \A q \in Runs : pc'[q] \in Clearing <=> pc[q] \in Clearing
    BY <2>1, <2>2 DEF Clearing
  <2>4. SameSession  BY <2>1, <2>3, EnterUnseen
  <2>5. SameOutcome  BY <2>1, <2>2 DEF SameOutcome, OutcomeOf
  <2>6. SameCells /\ SameReports  BY <2>1, <2>2, CallsStay
  <2>7. SameLife  BY <2>1, KernelsStay
  <2> QED  BY <2>4, <2>5, <2>6, <2>7, Unseen DEF Seen
<1>20. ASSUME NEW r \in Runs, NEW sl \in Slots, Clear(r, sl) PROVE Seen
  <2> DEFINE s == cached[sl]
  <2>1. /\ pc[r] = "want" /\ r \in users[sl] /\ UNCHANGED kernel
        /\ handle' = [handle EXCEPT ![r] = s]
    BY <1>20 DEF Clear, Granted, sessionVars
  <2>2. slotOf[r] = sl /\ sl # None
    BY <2>1 DEF SlotCount
  <2>3. /\ \A c \in Calls : handle'[c] = handle[c]
        /\ \A q \in Runs \ {r} : handle'[q] = handle[q]
        /\ handle'[r] = s
    BY <2>1 DEF TypeOK
  <2>4. SessionOf(r) = s
    BY <2>1, <2>2 DEF SessionOf, Clearing
  <2>5. CASE /\ cached' = [cached EXCEPT ![sl] = None] /\ GoTo(r, "take") /\ UNCHANGED slotOf
    <3>1. pc'[r] = "take" /\ \A a \in Tasks \ {r} : pc'[a] = pc[a]
      BY <2>5 DEF GoTo, TypeOK
    <3>2. SessionOf(r)' = s
      BY <2>3, <3>1 DEF SessionOf, Clearing
    <3>3. ASSUME NEW q \in Runs \ {r} PROVE SessionOf(q)' = SessionOf(q)
      <4>1. slotOf[q] # None => slotOf[q] # sl
        BY <2>2 DEF SlotKeys
      <4> QED  BY <2>3, <2>5, <3>1, <4>1 DEF SessionOf, TypeOK
    <3>4. SameSession  BY <2>4, <3>2, <3>3 DEF SameSession
    <3>5. SameOutcome  BY <2>1, <3>1 DEF SameOutcome, OutcomeOf
    <3>6. SameCells /\ SameReports  BY <2>3, <3>1, CallsStay
    <3>7. SameLife  BY <2>1, <2>3, KernelsStay
    <3> QED  BY <3>4, <3>5, <3>6, <3>7, Unseen DEF Seen
  <2>6. CASE s = None \/ kernel[s] # "live"
    <3>1. LeaveSlot(r, sl, None) /\ GoTo(r, "cleared")
      BY <1>20, <2>6 DEF Clear
    <3>2. s # None => LifeOf(s) = "dead"
      BY <2>6 DEF LifeOf, Handles, TypeOK
    <3>3. Promise!Close(r) \/ Promise!Fail(r)
      BY <2>1, <2>3, <2>4, <3>1, <3>2, CleanupEnds
    <3> QED  BY <3>3 DEF Seen, Promise!Next
  <2> QED  BY <1>20, <2>5, <2>6 DEF Clear
<1>21. ASSUME NEW r \in Runs, NEW sl \in Slots, ClearLocks(r, sl) PROVE Seen
  <2> DEFINE s == handle[r]
  <2>1. pc[r] = "take" /\ holder[sl] = r /\ UNCHANGED handle
    BY <1>21 DEF ClearLocks
  <2>2. s \in Calls /\ handle[s] = s /\ SessionOf(r) = s
    BY <2>1, HandleKnown DEF Handles, SessionOf, Clearing
  <2>3. CASE kernel[s] = "live" /\ BeginRemoval(s) /\ GoTo(r, "remove") /\ UNCHANGED slotVars
    <3>1. pc'[r] = "remove" /\ \A a \in Tasks \ {r} : pc'[a] = pc[a]
      BY <2>3 DEF GoTo, TypeOK
    <3>2. \A q \in Runs : pc'[q] \in Clearing <=> pc[q] \in Clearing
      BY <2>1, <3>1 DEF Clearing
    <3>3. SameSession  BY <2>1, <2>3, <3>2, SlotsStay DEF slotVars
    <3>4. SameOutcome  BY <2>1, <3>1 DEF SameOutcome, OutcomeOf
    <3>5. SameReports  BY <2>1, <3>1, CallsStay
    <3>6. \A c \in Calls : pc'[c] = "cell" <=> pc[c] = "cell" /\ handle[c] # s
      <4>1. ASSUME NEW c \in Calls, pc[c] = "cell", handle[c] = s PROVE FALSE
        <5>1. guard[s] = c
          BY <4>1 DEF IInv, SessionLock, Guarding, InCell
        <5> QED  BY <1>21, <4>1, <5>1 DEF ClearLocks
      <4> QED  BY <3>1, <4>1
    <3> HIDE DEF s
    <3>7. Promise!Lose(s)
      BY <2>1, <2>2, <2>3, <3>3, <3>4, <3>5, <3>6, KernelDies
    <3> QED  BY <2>2, <3>7 DEF Seen, Promise!Next
  <2>4. CASE kernel[s] # "live" /\ LeaveSlot(r, sl, None) /\ GoTo(r, "cleared") /\ UNCHANGED kernel
    <3>1. LifeOf(s) = "dead"  BY <2>2, <2>4 DEF LifeOf
    <3>2. r \in users[sl]  BY <2>1, HolderInside
    <3>3. Promise!Close(r) \/ Promise!Fail(r)
      BY <2>1, <2>2, <2>4, <3>1, <3>2, CleanupEnds
    <3> QED  BY <3>3 DEF Seen, Promise!Next
  <2> QED  BY <1>21, <2>3, <2>4 DEF ClearLocks, sessionVars
<1>22. ASSUME NEW r \in Runs, NEW sl \in Slots, ClearRemoved(r, sl) PROVE Seen
  <2> DEFINE s == handle[r]
  <2>1. /\ pc[r] \in {"remove", "removeCancelled"} /\ holder[sl] = r
        /\ LeaveSlot(r, sl, None) /\ UNCHANGED <<handle, kernel>>
    BY <1>22 DEF ClearRemoved
  <2>2. PICK place \in {"cleared", "raised", "cancelled"} : GoTo(r, place)
    BY <1>22 DEF ClearRemoved
  <2>3. /\ s \in Calls /\ handle[s] = s /\ SessionOf(r) = s
        /\ kernel[s] # "live"
    BY <2>1, HandleKnown DEF Handles, KernelState, SessionOf, Clearing
  <2>4. LifeOf(s) = "dead"  BY <2>3 DEF LifeOf
  <2>5. r \in users[sl]  BY <2>1, HolderInside
  <2>6. Promise!Close(r) \/ Promise!Fail(r)
    BY <2>1, <2>2, <2>3, <2>4, <2>5, CleanupEnds
  <2> QED  BY <2>6 DEF Seen, Promise!Next
<1>23. ASSUME NEW a \in Tasks, NEW sl \in Slots, CancelInSlot(a, sl) PROVE Seen
  <2>1. /\ a \in users[sl] /\ LeaveSlot(a, sl, cached[sl]) /\ GoTo(a, "cancelled")
        /\ UNCHANGED <<handle, kernel>>
        /\ pc[a] \in Waiting \cup {"create", "logs", "take"}
    BY <1>23 DEF CancelInSlot, sessionVars
  <2>2. CASE a \in Calls
    BY <2>1, <2>2, CallUnseen DEF Waiting
  <2>3. CASE a \in Runs
    <3>1. pc'[a] = "cancelled" /\ \A b \in Tasks \ {a} : pc'[b] = pc[b]
      BY <2>1, <2>3 DEF GoTo, TypeOK
    <3>2. pc[a] \in {"want", "take"}
      BY <2>1, <2>3 DEF Typed, Waiting, Clearing, Ended
    <3>3. slotOf[a] = sl /\ sl # None /\ cached' = cached
      BY <2>1, <2>3 DEF SlotCount, LeaveSlot, TypeOK
    <3>4. SessionOf(a)' = SessionOf(a) \/ SessionOf(a)' = None
      <4>1. SessionOf(a)' = cached[sl] \/ SessionOf(a)' = None
        BY <2>1, <2>3, <3>1, <3>3 DEF SessionOf, LeaveSlot, TypeOK, Clearing
      <4>2. CASE pc[a] = "want"
        <5>1. SessionOf(a) = cached[sl]  BY <3>3, <4>2 DEF SessionOf, Clearing
        <5> QED  BY <4>1, <5>1
      <4>3. CASE pc[a] = "take"
        <5>1. cached[sl] = None  BY <2>3, <3>3, <4>3 DEF SlotLock, Holding, Clearing
        <5> QED  BY <4>1, <5>1
      <4> QED  BY <3>2, <4>2, <4>3
    <3>5. ASSUME NEW q \in Runs \ {a} PROVE SessionOf(q)' = SessionOf(q)
      <4>1. slotOf'[q] = slotOf[q]
        BY <2>1, <2>3 DEF LeaveSlot, TypeOK
      <4> QED  BY <2>1, <3>1, <3>3, <4>1 DEF SessionOf
    <3>6. RunSession' = RunSession \/ RunSession' = [RunSession EXCEPT ![a] = None]
      BY <2>3, <3>4, <3>5 DEF RunSession
    <3>7. Outcome[a] = "no" /\ Outcome' = [Outcome EXCEPT ![a] = "failed"]
      BY <2>3, <3>1, <3>2 DEF Outcome, OutcomeOf
    <3>8. SameCells /\ SameReports  BY <2>1, <2>3, <3>1, CallsStay
    <3>9. UNCHANGED Life  BY <2>1, KernelsStay DEF Life, SameLife
    <3>10. Promise!Fail(a)
      BY <3>6, <3>7, <3>8, <3>9 DEF Promise!Fail, SameCells, SameReports
    <3> QED  BY <2>3, <3>10 DEF Seen, Promise!Next
  <2> QED  BY <2>2, <2>3
<1>24. ASSUME NEW a \in Tasks, CancelRemoval(a) PROVE Seen
  <2>1. /\ pc[a] \in {"unboot", "remove"} /\ UNCHANGED <<slotOf, cached, handle, kernel>>
        /\ GoTo(a, IF pc[a] = "unboot" THEN "unbootCancelled" ELSE "removeCancelled")
    BY <1>24 DEF CancelRemoval, slotVars, sessionVars
  <2>2. CASE a \in Calls
    BY <2>1, <2>2, CallUnseen
  <2>3. CASE a \in Runs
    <3>1. pc[a] = "remove"
      BY <2>1, <2>3 DEF Typed, Clearing, Ended
    <3>2. pc'[a] = "removeCancelled" /\ \A b \in Tasks \ {a} : pc'[b] = pc[b]
      BY <2>1, <2>3, <3>1 DEF GoTo, TypeOK
    <3>3. \A q \in Runs : pc'[q] \in Clearing <=> pc[q] \in Clearing
      BY <3>1, <3>2 DEF Clearing
    <3>4. SameSession  BY <2>1, <3>3, SlotsStay
    <3>5. SameOutcome  BY <3>1, <3>2 DEF SameOutcome, OutcomeOf
    <3>6. SameCells /\ SameReports  BY <2>1, <2>3, <3>2, CallsStay
    <3>7. SameLife  BY <2>1, KernelsStay
    <3> QED  BY <3>4, <3>5, <3>6, <3>7, Unseen DEF Seen
  <2> QED  BY <2>2, <2>3
<1>25. ASSUME NEW c \in Calls, CancelPlain(c) PROVE Seen
  BY <1>25, CallUnseen DEF CancelPlain, slotVars, sessionVars
<1>26. ASSUME NEW c \in Calls, CancelBoot(c) PROVE Seen
  BY <1>26, BootUnseen DEF CancelBoot, Creating, BeginRemoval, slotVars
<1>27. ASSUME NEW c \in CellCalls, CancelCell(c) PROVE Seen
  <2> DEFINE s == handle[c]
  <2>1. /\ pc[c] = "cell" /\ BeginRemoval(s) /\ GoTo(c, "failCancelled")
        /\ UNCHANGED <<slotVars, handle>>
    BY <1>27 DEF CancelCell
  <2>2. s \in Calls /\ handle[s] = s /\ kernel[s] = "live"
    BY <2>1, HandleKnown DEF Handles, KernelState, InCell
  <2>3. \A r \in Runs : pc'[r] = pc[r]  BY <2>1, CleanupsStay
  <2>4. SameSession  BY <2>1, <2>3, SlotsStay DEF slotVars
  <2>5. SameOutcome  BY <2>3 DEF SameOutcome, OutcomeOf
  <2>6. \A d \in Calls \ {c} : pc'[d] = pc[d]  BY <2>1 DEF GoTo, TypeOK
  <2>7. pc'[c] = "failCancelled"  BY <2>1 DEF GoTo, TypeOK
  <2>8. SameReports
    BY <2>1, <2>6, <2>7 DEF SameReports, Reported
  <2>9. \A d \in Calls : pc'[d] = "cell" <=> pc[d] = "cell" /\ handle[d] # s
    <3>1. \A d \in Calls \ {c} : pc[d] = "cell" => d \in CellCalls /\ handle[d] # s
      BY <2>1 DEF IInv, SessionLock, Typed, Guarding, InCell
    <3> QED  BY <2>1, <2>6, <2>7, <3>1
  <2> HIDE DEF s
  <2>10. Promise!Lose(s)
    BY <2>1, <2>2, <2>4, <2>5, <2>8, <2>9, KernelDies
  <2> QED  BY <2>2, <2>10 DEF Seen, Promise!Next
<1>28. ASSUME NEW c \in Calls, RemovalEnds(c) PROVE Seen
  BY <1>28, Unseen, CallsStay, SlotsStay, KernelsStay DEF RemovalEnds, Seen, slotVars, SameOutcome, OutcomeOf
<1>29. ASSUME NEW c \in Calls, OrphanCreated(c) PROVE Seen
  BY <1>29, Unseen, CallsStay, SlotsStay, KernelsStay DEF OrphanCreated, Seen, slotVars, SameOutcome, OutcomeOf
<1>30. CASE UNCHANGED vars
  BY <1>30, Unseen, CallsStay, SlotsStay, KernelsStay DEF vars, Seen, slotVars, sessionVars, SameOutcome, OutcomeOf
<1>31. ASSUME NEW c \in FileCalls, BeginClone(c) PROVE Seen
  BY <1>31, CallUnseen DEF BeginClone, slotVars, sessionVars
<1>32. ASSUME NEW c \in FileCalls, Downloaded(c) PROVE Seen
  BY <1>32, CallUnseen DEF Downloaded, slotVars, sessionVars
<1> QED
  BY <1>1, <1>2, <1>3, <1>4, <1>5, <1>6, <1>7, <1>8, <1>9, <1>10, <1>11, <1>12, <1>13, <1>14, <1>14r, <1>15, <1>16,
     <1>17, <1>18, <1>19, <1>20, <1>21, <1>22, <1>23, <1>24, <1>25, <1>26, <1>27, <1>28, <1>29, <1>30, <1>31, <1>32
     DEF Next, CallStep, CellStep, FileStep, ClearStep, Cancel, DockerStep

\* The tools implement what they promise the agent of a run: one kernel at a
\* time, one cell at a time in it, its state kept until it is lost, and another
\* only after a call has reported the loss.
THEOREM KeepsPromise == Spec => Refines
<1>1. Init => Promise!Init
  BY DEF Init, Promise!Init, RunSession, SessionOf, Life, LifeOf, Executing, Reported,
     Outcome, OutcomeOf, Clearing
<1>2. IInv /\ Drain /\ [Next]_vars => [Promise!Next]_Promise!vars
  <2>1. UNCHANGED vars => UNCHANGED Promise!vars
    BY Unseen, CallsStay, SlotsStay, KernelsStay
       DEF vars, slotVars, sessionVars, SameOutcome, OutcomeOf
  <2> QED  BY <2>1, RefinementStep DEF Seen
<1> QED
  BY <1>1, <1>2, Inductive, CleanupIsLast, PTL DEF Spec, Refines, Promise!Spec

(***************************************************************************)
(* What a finished cleanup leaves behind.                                  *)
(***************************************************************************)
LEMMA ContainersStep == IInv /\ Containers /\ Next => Containers'
<1> SUFFICES ASSUME IInv, Containers, Next PROVE Containers'
  OBVIOUS
<1>0. Typed /\ TypeOK /\ Handles /\ KernelState  BY DEF IInv, Typed
<1> USE <1>0 DEF TypeOK, GoTo, Containers
<1> USE DEF Waiting, Creating, InCell, Clearing, Ended
<1>1. ASSUME NEW c \in Calls, Begin(c) PROVE Containers'
  BY <1>1 DEF Begin, slotVars, sessionVars
<1>2. ASSUME NEW c \in Calls, NEW sl \in Slots, ReuseSession(c, sl) PROVE Containers'
  <2>1. /\ pc[c] = "want" /\ cached[sl] # None /\ UNCHANGED <<kernel, container>>
        /\ handle' = [handle EXCEPT ![c] = cached[sl]]
    BY <1>2 DEF ReuseSession, sessionVars
  <2>2. handle[c] = None /\ cached[sl] # c
    BY <2>1 DEF Handles
  <2>3. pc'[c] \in {"queue", "file", "raised", "forget"} /\ \A d \in Calls \ {c} : pc'[d] = pc[d]
    BY <1>2 DEF ReuseSession, AfterSession
  <2> QED  BY <2>1, <2>2, <2>3
<1>3. ASSUME NEW c \in Calls, NEW sl \in Slots, StartSession(c, sl) PROVE Containers'
  BY <1>3 DEF StartSession, slotVars, sessionVars
<1>4. ASSUME NEW c \in Calls, NEW sl \in Slots, CreateFails(c, sl) PROVE Containers'
  BY <1>4 DEF CreateFails, slotVars, sessionVars
<1>5. ASSUME NEW c \in Calls, Created(c) PROVE Containers'
  BY <1>5 DEF Created, slotVars, sessionVars
<1>6. ASSUME NEW c \in Calls, NEW sl \in Slots, Booted(c, sl) PROVE Containers'
  <2>1. pc[c] = "boot" /\ UNCHANGED <<kernel, container>> /\ handle' = [handle EXCEPT ![c] = c]
    BY <1>6 DEF Booted, sessionVars
  <2>2. kernel[c] = "live"  BY <2>1 DEF KernelState
  <2>3. pc'[c] \in {"queue", "file", "raised", "forget"} /\ \A d \in Calls \ {c} : pc'[d] = pc[d]
    BY <1>6 DEF Booted, AfterSession
  <2> QED  BY <2>1, <2>2, <2>3
<1>7. ASSUME NEW c \in Calls, BootFails(c) PROVE Containers'
  BY <1>7 DEF BootFails, slotVars, sessionVars
<1>8. ASSUME NEW c \in Calls, LogsRead(c) PROVE Containers'
  <2>1. /\ c \in Calls /\ UNCHANGED handle
        /\ kernel' = [kernel EXCEPT ![c] = "destroyed"]
        /\ container' = [container EXCEPT ![c] = "removing"]
        /\ pc[c] \notin {"idle", "download", "want", "create"}
    BY <1>8, HandleKnown DEF LogsRead, BeginRemoval, Handles, KernelState
  <2>2. \A c2 \in Calls : pc'[c2] \in {"idle", "download", "want", "create"}
                             => pc[c2] \in {"idle", "download", "want", "create"}
    BY <1>8 DEF LogsRead
  <2> QED  BY <2>1, <2>2
<1>9. ASSUME NEW c \in Calls, NEW sl \in Slots, Unbooted(c, sl) PROVE Containers'
  BY <1>9 DEF Unbooted, slotVars, sessionVars
<1>10. ASSUME NEW c \in CellCalls, LockSession(c) PROVE Containers'
  BY <1>10 DEF LockSession, slotVars, sessionVars
<1>11. ASSUME NEW c \in CellCalls, CellReturns(c) PROVE Containers'
  BY <1>11 DEF CellReturns, slotVars, sessionVars
<1>12. ASSUME NEW c \in CellCalls, CellFails(c) PROVE Containers'
  <2>1. /\ handle[c] \in Calls /\ UNCHANGED handle
        /\ kernel' = [kernel EXCEPT ![handle[c]] = "destroyed"]
        /\ container' = [container EXCEPT ![handle[c]] = "removing"]
        /\ pc[handle[c]] \notin {"idle", "download", "want", "create"}
    BY <1>12, HandleKnown DEF CellFails, BeginRemoval, Handles, KernelState
  <2>2. \A c2 \in Calls : pc'[c2] \in {"idle", "download", "want", "create"}
                             => pc[c2] \in {"idle", "download", "want", "create"}
    BY <1>12 DEF CellFails
  <2> QED  BY <2>1, <2>2
<1>13. ASSUME NEW c \in CellCalls, CellFailed(c) PROVE Containers'
  BY <1>13 DEF CellFailed, slotVars, sessionVars
<1>14. ASSUME NEW c \in CellCalls, CellCancelled(c) PROVE Containers'
  BY <1>14 DEF CellCancelled, slotVars, sessionVars
<1>14r. ASSUME NEW c \in CellCalls, CellRaises(c) PROVE Containers'
  BY <1>14r DEF CellRaises, slotVars, sessionVars
<1>15. ASSUME NEW c \in Calls, NEW sl \in Slots, Forget(c, sl) PROVE Containers'
  BY <1>15 DEF Forget, slotVars, sessionVars
<1>16. ASSUME NEW c \in FileCalls, FileMoved(c) PROVE Containers'
  BY <1>16 DEF FileMoved, slotVars, sessionVars
<1>17. ASSUME NEW c \in FileCalls, FileFails(c) PROVE Containers'
  BY <1>17 DEF FileFails, slotVars, sessionVars
<1>18. ASSUME NEW r \in Runs, EndRun(r) PROVE Containers'
  BY <1>18 DEF EndRun, sessionVars
<1>19. ASSUME NEW r \in Runs, BeginClear(r) PROVE Containers'
  BY <1>19 DEF BeginClear, slotVars, sessionVars
<1>20. ASSUME NEW r \in Runs, NEW sl \in Slots, Clear(r, sl) PROVE Containers'
  BY <1>20 DEF Clear, slotVars, sessionVars
<1>21. ASSUME NEW r \in Runs, NEW sl \in Slots, ClearLocks(r, sl) PROVE Containers'
  <2>1. CASE UNCHANGED sessionVars
    BY <1>21, <2>1 DEF ClearLocks, sessionVars
  <2>2. CASE BeginRemoval(handle[r]) /\ kernel[handle[r]] = "live"
    <3>1. /\ handle[r] \in Calls /\ UNCHANGED handle
          /\ kernel' = [kernel EXCEPT ![handle[r]] = "destroyed"]
          /\ container' = [container EXCEPT ![handle[r]] = "removing"]
          /\ pc[handle[r]] \notin {"idle", "download", "want", "create"}
      BY <1>21, <2>2, HandleKnown DEF ClearLocks, BeginRemoval, Handles, KernelState
    <3>2. \A c2 \in Calls : pc'[c2] \in {"idle", "download", "want", "create"}
                               => pc[c2] \in {"idle", "download", "want", "create"}
      BY <1>21 DEF ClearLocks
    <3> QED  BY <3>1, <3>2
  <2> QED  BY <1>21, <2>1, <2>2 DEF ClearLocks
<1>22. ASSUME NEW r \in Runs, NEW sl \in Slots, ClearRemoved(r, sl) PROVE Containers'
  BY <1>22 DEF ClearRemoved, slotVars, sessionVars
<1>23. ASSUME NEW a \in Tasks, NEW sl \in Slots, CancelInSlot(a, sl) PROVE Containers'
  BY <1>23 DEF CancelInSlot, slotVars, sessionVars
<1>24. ASSUME NEW a \in Tasks, CancelRemoval(a) PROVE Containers'
  BY <1>24 DEF CancelRemoval, slotVars, sessionVars
<1>25. ASSUME NEW c \in Calls, CancelPlain(c) PROVE Containers'
  BY <1>25 DEF CancelPlain, slotVars, sessionVars
<1>26. ASSUME NEW c \in Calls, CancelBoot(c) PROVE Containers'
  <2>1. /\ c \in Calls /\ UNCHANGED handle
        /\ kernel' = [kernel EXCEPT ![c] = "destroyed"]
        /\ container' = [container EXCEPT ![c] = "removing"]
        /\ pc[c] \notin {"idle", "download", "want", "create"}
    BY <1>26, HandleKnown DEF CancelBoot, BeginRemoval, Handles, KernelState
  <2>2. \A c2 \in Calls : pc'[c2] \in {"idle", "download", "want", "create"}
                             => pc[c2] \in {"idle", "download", "want", "create"}
    BY <1>26 DEF CancelBoot
  <2> QED  BY <2>1, <2>2
<1>27. ASSUME NEW c \in CellCalls, CancelCell(c) PROVE Containers'
  <2>1. /\ handle[c] \in Calls /\ UNCHANGED handle
        /\ kernel' = [kernel EXCEPT ![handle[c]] = "destroyed"]
        /\ container' = [container EXCEPT ![handle[c]] = "removing"]
        /\ pc[handle[c]] \notin {"idle", "download", "want", "create"}
    BY <1>27, HandleKnown DEF CancelCell, BeginRemoval, Handles, KernelState
  <2>2. \A c2 \in Calls : pc'[c2] \in {"idle", "download", "want", "create"}
                             => pc[c2] \in {"idle", "download", "want", "create"}
    BY <1>27 DEF CancelCell
  <2> QED  BY <2>1, <2>2
<1>28. ASSUME NEW c \in Calls, RemovalEnds(c) PROVE Containers'
  BY <1>28 DEF RemovalEnds, slotVars, sessionVars
<1>29. ASSUME NEW c \in Calls, OrphanCreated(c) PROVE Containers'
  BY <1>29 DEF OrphanCreated, slotVars, sessionVars
<1>30. CASE UNCHANGED vars
  BY <1>30 DEF vars, slotVars, sessionVars
<1>31. ASSUME NEW c \in FileCalls, BeginClone(c) PROVE Containers'
  BY <1>31 DEF BeginClone, slotVars, sessionVars
<1>32. ASSUME NEW c \in FileCalls, Downloaded(c) PROVE Containers'
  BY <1>32 DEF Downloaded, slotVars, sessionVars
<1> QED
  BY <1>1, <1>2, <1>3, <1>4, <1>5, <1>6, <1>7, <1>8, <1>9, <1>10, <1>11, <1>12, <1>13, <1>14, <1>14r, <1>15, <1>16,
     <1>17, <1>18, <1>19, <1>20, <1>21, <1>22, <1>23, <1>24, <1>25, <1>26, <1>27, <1>28, <1>29, <1>30, <1>31, <1>32
     DEF Next, CallStep, CellStep, FileStep, ClearStep, Cancel, DockerStep

\* Only a cancelled start leaves a container that the cache never saw.
LEMMA AccountedStep ==
    ASSUME Cancellable \cap Calls = {}
    PROVE  IInv /\ Accounted /\ Next => Accounted'
<1> SUFFICES ASSUME IInv, Accounted, Next PROVE Accounted'
  OBVIOUS
<1>0. Typed /\ TypeOK /\ Handles /\ KernelState  BY DEF IInv, Typed
<1> USE <1>0 DEF TypeOK, GoTo, Accounted
<1> USE DEF Waiting, Creating, InCell, Clearing, Ended
<1>1. ASSUME NEW c \in Calls, Begin(c) PROVE Accounted'
  BY <1>1 DEF Begin, slotVars, sessionVars
<1>2. ASSUME NEW c \in Calls, NEW sl \in Slots, ReuseSession(c, sl) PROVE Accounted'
  <2>1. /\ pc[c] = "want" /\ cached[sl] # None /\ UNCHANGED <<kernel, container>>
        /\ handle' = [handle EXCEPT ![c] = cached[sl]]
    BY <1>2 DEF ReuseSession, sessionVars
  <2>2. handle[c] = None  BY <2>1 DEF Handles
  <2>3. pc'[c] \in {"queue", "file", "raised", "forget"} /\ \A d \in Calls \ {c} : pc'[d] = pc[d]
    BY <1>2 DEF ReuseSession, AfterSession
  <2> QED  BY <2>1, <2>2, <2>3
<1>3. ASSUME NEW c \in Calls, NEW sl \in Slots, StartSession(c, sl) PROVE Accounted'
  BY <1>3 DEF StartSession, slotVars, sessionVars
<1>4. ASSUME NEW c \in Calls, NEW sl \in Slots, CreateFails(c, sl) PROVE Accounted'
  BY <1>4 DEF CreateFails, slotVars, sessionVars
<1>5. ASSUME NEW c \in Calls, Created(c) PROVE Accounted'
  BY <1>5 DEF Created, slotVars, sessionVars
<1>6. ASSUME NEW c \in Calls, NEW sl \in Slots, Booted(c, sl) PROVE Accounted'
  <2>1. pc[c] = "boot" /\ UNCHANGED <<kernel, container>> /\ handle' = [handle EXCEPT ![c] = c]
    BY <1>6 DEF Booted, sessionVars
  <2>3. pc'[c] \in {"queue", "file", "raised", "forget"} /\ \A d \in Calls \ {c} : pc'[d] = pc[d]
    BY <1>6 DEF Booted, AfterSession
  <2> QED  BY <2>1, <2>3
<1>7. ASSUME NEW c \in Calls, BootFails(c) PROVE Accounted'
  BY <1>7 DEF BootFails, slotVars, sessionVars
<1>8. ASSUME NEW c \in Calls, LogsRead(c) PROVE Accounted'
  <2>1. /\ c \in Calls /\ UNCHANGED handle
        /\ kernel' = [kernel EXCEPT ![c] = "destroyed"]
        /\ container' = [container EXCEPT ![c] = "removing"]
    BY <1>8, HandleKnown DEF LogsRead, BeginRemoval, Handles, KernelState
  <2>2. \A d \in Calls : /\ pc'[d] \notin {"cancelled", "unbootCancelled", "failCancelled"}
                         /\ d # c /\ pc[d] \in {"boot", "logs"} => pc'[d] = pc[d]
    BY <1>8 DEF LogsRead
  <2> QED  BY <2>1, <2>2
<1>9. ASSUME NEW c \in Calls, NEW sl \in Slots, Unbooted(c, sl) PROVE Accounted'
  BY <1>9 DEF Unbooted, slotVars, sessionVars
<1>10. ASSUME NEW c \in CellCalls, LockSession(c) PROVE Accounted'
  BY <1>10 DEF LockSession, slotVars, sessionVars
<1>11. ASSUME NEW c \in CellCalls, CellReturns(c) PROVE Accounted'
  BY <1>11 DEF CellReturns, slotVars, sessionVars
<1>12. ASSUME NEW c \in CellCalls, CellFails(c) PROVE Accounted'
  <2>1. /\ handle[c] \in Calls /\ UNCHANGED handle
        /\ kernel' = [kernel EXCEPT ![handle[c]] = "destroyed"]
        /\ container' = [container EXCEPT ![handle[c]] = "removing"]
    BY <1>12, HandleKnown DEF CellFails, BeginRemoval, Handles, KernelState
  <2>2. \A d \in Calls : /\ pc'[d] \notin {"cancelled", "unbootCancelled", "failCancelled"}
                         /\ d # handle[c] /\ pc[d] \in {"boot", "logs"} => pc'[d] = pc[d]
    BY <1>12 DEF CellFails
  <2> QED  BY <2>1, <2>2
<1>13. ASSUME NEW c \in CellCalls, CellFailed(c) PROVE Accounted'
  BY <1>13 DEF CellFailed, slotVars, sessionVars
<1>14. ASSUME NEW c \in CellCalls, CellCancelled(c) PROVE Accounted'
  BY <1>14 DEF CellCancelled, slotVars, sessionVars
<1>14r. ASSUME NEW c \in CellCalls, CellRaises(c) PROVE Accounted'
  BY <1>14r DEF CellRaises, slotVars, sessionVars
<1>15. ASSUME NEW c \in Calls, NEW sl \in Slots, Forget(c, sl) PROVE Accounted'
  BY <1>15 DEF Forget, slotVars, sessionVars
<1>16. ASSUME NEW c \in FileCalls, FileMoved(c) PROVE Accounted'
  BY <1>16 DEF FileMoved, slotVars, sessionVars
<1>17. ASSUME NEW c \in FileCalls, FileFails(c) PROVE Accounted'
  BY <1>17 DEF FileFails, slotVars, sessionVars
<1>18. ASSUME NEW r \in Runs, EndRun(r) PROVE Accounted'
  BY <1>18 DEF EndRun, sessionVars
<1>19. ASSUME NEW r \in Runs, BeginClear(r) PROVE Accounted'
  BY <1>19 DEF BeginClear, slotVars, sessionVars
<1>20. ASSUME NEW r \in Runs, NEW sl \in Slots, Clear(r, sl) PROVE Accounted'
  BY <1>20 DEF Clear, slotVars, sessionVars
<1>21. ASSUME NEW r \in Runs, NEW sl \in Slots, ClearLocks(r, sl) PROVE Accounted'
  <2>1. CASE UNCHANGED sessionVars
    BY <1>21, <2>1 DEF ClearLocks, sessionVars
  <2>2. CASE BeginRemoval(handle[r]) /\ kernel[handle[r]] = "live"
    <3>1. /\ handle[r] \in Calls /\ UNCHANGED handle
          /\ kernel' = [kernel EXCEPT ![handle[r]] = "destroyed"]
          /\ container' = [container EXCEPT ![handle[r]] = "removing"]
      BY <1>21, <2>2, HandleKnown DEF ClearLocks, BeginRemoval, Handles, KernelState
    <3>2. \A d \in Calls : /\ pc'[d] \notin {"cancelled", "unbootCancelled", "failCancelled"}
                           /\ d # handle[r] /\ pc[d] \in {"boot", "logs"} => pc'[d] = pc[d]
      BY <1>21 DEF ClearLocks
    <3> QED  BY <3>1, <3>2
  <2> QED  BY <1>21, <2>1, <2>2 DEF ClearLocks
<1>22. ASSUME NEW r \in Runs, NEW sl \in Slots, ClearRemoved(r, sl) PROVE Accounted'
  BY <1>22 DEF ClearRemoved, slotVars, sessionVars
<1>23. ASSUME NEW a \in Tasks, NEW sl \in Slots, CancelInSlot(a, sl) PROVE Accounted'
  BY <1>23 DEF CancelInSlot, slotVars, sessionVars
<1>24. ASSUME NEW a \in Tasks, CancelRemoval(a) PROVE Accounted'
  BY <1>24 DEF CancelRemoval, slotVars, sessionVars
<1>25. ASSUME NEW c \in Calls, CancelPlain(c) PROVE Accounted'
  BY <1>25 DEF CancelPlain
<1>26. ASSUME NEW c \in Calls, CancelBoot(c) PROVE Accounted'
  BY <1>26 DEF CancelBoot
<1>27. ASSUME NEW c \in CellCalls, CancelCell(c) PROVE Accounted'
  BY <1>27 DEF CancelCell
<1>28. ASSUME NEW c \in Calls, RemovalEnds(c) PROVE Accounted'
  BY <1>28 DEF RemovalEnds, slotVars, sessionVars
<1>29. ASSUME NEW c \in Calls, OrphanCreated(c) PROVE Accounted'
  BY <1>29 DEF OrphanCreated, slotVars, sessionVars
<1>30. CASE UNCHANGED vars
  BY <1>30 DEF vars, slotVars, sessionVars
<1>31. ASSUME NEW c \in FileCalls, BeginClone(c) PROVE Accounted'
  BY <1>31 DEF BeginClone, slotVars, sessionVars
<1>32. ASSUME NEW c \in FileCalls, Downloaded(c) PROVE Accounted'
  BY <1>32 DEF Downloaded, slotVars, sessionVars
<1> QED
  BY <1>1, <1>2, <1>3, <1>4, <1>5, <1>6, <1>7, <1>8, <1>9, <1>10, <1>11, <1>12, <1>13, <1>14, <1>14r, <1>15, <1>16,
     <1>17, <1>18, <1>19, <1>20, <1>21, <1>22, <1>23, <1>24, <1>25, <1>26, <1>27, <1>28, <1>29, <1>30, <1>31, <1>32
     DEF Next, CallStep, CellStep, FileStep, ClearStep, Cancel, DockerStep

\* A drained cleanup is the last task of its run to leave the slot, and nobody
\* takes one again.
LEMMA LastLeaves ==
    ASSUME IInv, Drain, NEW r \in Drained, NEW sl \in Slots, r \in users[sl],
           LeaveSlot(r, sl, None)
    PROVE  slotOf'[r] = None
<1>0. TypeOK /\ SlotCount /\ SlotKeys /\ r \in Runs /\ Owner(r) = r
  BY DEF IInv, Typed, Owner
<1>1. slotOf[r] = sl /\ pc[r] \in InSlot  BY <1>0 DEF SlotCount
<1>2. CallsOver(r)
  BY <1>1 DEF Drain, InSlot, Waiting, Creating, Clearing
<1>3. ASSUME NEW a \in users[sl], a # r PROVE FALSE
  <2>1. a \in Tasks /\ slotOf[Owner(a)] = sl /\ pc[a] \in InSlot
    BY <1>0 DEF TypeOK, SlotCount
  <2>2. Owner(a) = r
    BY <1>0, <1>1, <2>1, OwnerType DEF SlotKeys
  <2>3. a \in Calls /\ RunOf[a] = r
    BY <1>3, <2>1, <2>2 DEF Owner
  <2> QED  BY <1>2, <2>1, <2>3 DEF CallsOver, InSlot, Waiting, Creating, Clearing, Ended
<1>4. users[sl] \ {r} = {}  BY <1>3
<1> QED  BY <1>0, <1>1, <1>4 DEF LeaveSlot, TypeOK

LEMMA ClearedSlotStep == IInv /\ Drain /\ ClearedSlot /\ Next => ClearedSlot'
<1> SUFFICES ASSUME IInv, Drain, ClearedSlot, Next PROVE ClearedSlot'
  OBVIOUS
<1>0. Typed /\ TypeOK /\ SlotLock  BY DEF IInv, Typed
<1>a. \A r \in Runs : Owner(r) = r  BY DEF Owner
<1>b. \A c \in Calls : Owner(c) = RunOf[c]  BY DEF Owner
<1>c. ASSUME NEW r \in Drained, pc[r] = "cleared", NEW c \in Calls, RunOf[c] = r
      PROVE  pc[c] \in {"idle"} \cup Ended /\ r \notin open
  BY <1>c DEF Drain, CallsOver
<1> USE <1>0, <1>a, <1>b DEF TypeOK, GoTo, ClearedSlot
<1> USE DEF Waiting, Creating, InCell, Clearing, Ended
<1>1. ASSUME NEW c \in Calls, Begin(c) PROVE ClearedSlot'
  BY <1>1, <1>c DEF Begin, EnterSlot, LeaveSlot, slotVars, sessionVars
<1>2. ASSUME NEW c \in Calls, NEW sl \in Slots, ReuseSession(c, sl) PROVE ClearedSlot'
  BY <1>2, <1>c DEF ReuseSession, EnterSlot, LeaveSlot, slotVars, sessionVars
<1>3. ASSUME NEW c \in Calls, NEW sl \in Slots, StartSession(c, sl) PROVE ClearedSlot'
  BY <1>3 DEF StartSession, slotVars
<1>4. ASSUME NEW c \in Calls, NEW sl \in Slots, CreateFails(c, sl) PROVE ClearedSlot'
  BY <1>4, <1>c DEF CreateFails, EnterSlot, LeaveSlot, slotVars, sessionVars
<1>5. ASSUME NEW c \in Calls, Created(c) PROVE ClearedSlot'
  BY <1>5 DEF Created, slotVars
<1>6. ASSUME NEW c \in Calls, NEW sl \in Slots, Booted(c, sl) PROVE ClearedSlot'
  BY <1>6, <1>c DEF Booted, EnterSlot, LeaveSlot, slotVars, sessionVars
<1>7. ASSUME NEW c \in Calls, BootFails(c) PROVE ClearedSlot'
  BY <1>7 DEF BootFails, slotVars
<1>8. ASSUME NEW c \in Calls, LogsRead(c) PROVE ClearedSlot'
  BY <1>8 DEF LogsRead, slotVars
<1>9. ASSUME NEW c \in Calls, NEW sl \in Slots, Unbooted(c, sl) PROVE ClearedSlot'
  BY <1>9, <1>c DEF Unbooted, EnterSlot, LeaveSlot, slotVars, sessionVars
<1>10. ASSUME NEW c \in CellCalls, LockSession(c) PROVE ClearedSlot'
  BY <1>10, <1>c DEF LockSession, EnterSlot, LeaveSlot, slotVars, sessionVars
<1>11. ASSUME NEW c \in CellCalls, CellReturns(c) PROVE ClearedSlot'
  BY <1>11 DEF CellReturns, slotVars
<1>12. ASSUME NEW c \in CellCalls, CellFails(c) PROVE ClearedSlot'
  BY <1>12 DEF CellFails, slotVars
<1>13. ASSUME NEW c \in CellCalls, CellFailed(c) PROVE ClearedSlot'
  BY <1>13, <1>c DEF CellFailed, EnterSlot, LeaveSlot, slotVars, sessionVars
<1>14. ASSUME NEW c \in CellCalls, CellCancelled(c) PROVE ClearedSlot'
  BY <1>14 DEF CellCancelled, slotVars
<1>14r. ASSUME NEW c \in CellCalls, CellRaises(c) PROVE ClearedSlot'
  BY <1>14r DEF CellRaises, slotVars
<1>15. ASSUME NEW c \in Calls, NEW sl \in Slots, Forget(c, sl) PROVE ClearedSlot'
  BY <1>15, <1>c DEF Forget, EnterSlot, LeaveSlot, slotVars, sessionVars
<1>16. ASSUME NEW c \in FileCalls, FileMoved(c) PROVE ClearedSlot'
  BY <1>16 DEF FileMoved, slotVars
<1>17. ASSUME NEW c \in FileCalls, FileFails(c) PROVE ClearedSlot'
  BY <1>17 DEF FileFails, slotVars
<1>18. ASSUME NEW r \in Runs, EndRun(r) PROVE ClearedSlot'
  BY <1>18 DEF EndRun, slotVars
<1>19. ASSUME NEW r \in Runs, BeginClear(r) PROVE ClearedSlot'
  BY <1>19, <1>c DEF BeginClear, EnterSlot, LeaveSlot, slotVars, sessionVars
<1>20. ASSUME NEW r \in Runs, NEW sl \in Slots, Clear(r, sl) PROVE ClearedSlot'
  <2>1. r \in Drained /\ pc'[r] = "cleared" => slotOf'[r] = None
    BY <1>20, LastLeaves, HolderInside DEF Clear, Granted, IInv, Slotted
  <2>2. \A q \in Runs \ {r} : pc'[q] = pc[q] /\ slotOf'[q] = slotOf[q]
    BY <1>20 DEF Clear, LeaveSlot, slotVars
  <2> QED  BY <2>1, <2>2
<1>21. ASSUME NEW r \in Runs, NEW sl \in Slots, ClearLocks(r, sl) PROVE ClearedSlot'
  <2>1. r \in Drained /\ pc'[r] = "cleared" => slotOf'[r] = None
    BY <1>21, LastLeaves, HolderInside DEF ClearLocks, Granted, IInv, Slotted
  <2>2. \A q \in Runs \ {r} : pc'[q] = pc[q] /\ slotOf'[q] = slotOf[q]
    BY <1>21 DEF ClearLocks, LeaveSlot, slotVars
  <2> QED  BY <2>1, <2>2
<1>22. ASSUME NEW r \in Runs, NEW sl \in Slots, ClearRemoved(r, sl) PROVE ClearedSlot'
  <2>1. r \in Drained /\ pc'[r] = "cleared" => slotOf'[r] = None
    BY <1>22, LastLeaves, HolderInside DEF ClearRemoved, Granted, IInv, Slotted
  <2>2. \A q \in Runs \ {r} : pc'[q] = pc[q] /\ slotOf'[q] = slotOf[q]
    BY <1>22 DEF ClearRemoved, LeaveSlot, slotVars
  <2> QED  BY <2>1, <2>2
<1>23. ASSUME NEW a \in Tasks, NEW sl \in Slots, CancelInSlot(a, sl) PROVE ClearedSlot'
  <2>1. pc' = [pc EXCEPT ![a] = "cancelled"]
    BY <1>23 DEF CancelInSlot
  <2>2. \A q \in Runs : slotOf'[q] = slotOf[q] \/ slotOf'[q] = None
    BY <1>23 DEF CancelInSlot, LeaveSlot
  <2> QED  BY <2>1, <2>2
<1>24. ASSUME NEW a \in Tasks, CancelRemoval(a) PROVE ClearedSlot'
  BY <1>24 DEF CancelRemoval, slotVars
<1>25. ASSUME NEW c \in Calls, CancelPlain(c) PROVE ClearedSlot'
  BY <1>25 DEF CancelPlain, slotVars
<1>26. ASSUME NEW c \in Calls, CancelBoot(c) PROVE ClearedSlot'
  BY <1>26 DEF CancelBoot, slotVars
<1>27. ASSUME NEW c \in CellCalls, CancelCell(c) PROVE ClearedSlot'
  BY <1>27 DEF CancelCell, slotVars
<1>28. ASSUME NEW c \in Calls, RemovalEnds(c) PROVE ClearedSlot'
  BY <1>28 DEF RemovalEnds, slotVars
<1>29. ASSUME NEW c \in Calls, OrphanCreated(c) PROVE ClearedSlot'
  BY <1>29 DEF OrphanCreated, slotVars
<1>30. CASE UNCHANGED vars
  BY <1>30 DEF vars, slotVars
<1>31. ASSUME NEW c \in FileCalls, BeginClone(c) PROVE ClearedSlot'
  BY <1>31, <1>c DEF BeginClone, EnterSlot, LeaveSlot, slotVars, sessionVars
<1>32. ASSUME NEW c \in FileCalls, Downloaded(c) PROVE ClearedSlot'
  BY <1>32, <1>c DEF Downloaded, EnterSlot, LeaveSlot, slotVars, sessionVars
<1> QED
  BY <1>1, <1>2, <1>3, <1>4, <1>5, <1>6, <1>7, <1>8, <1>9, <1>10, <1>11, <1>12, <1>13, <1>14, <1>14r, <1>15, <1>16,
     <1>17, <1>18, <1>19, <1>20, <1>21, <1>22, <1>23, <1>24, <1>25, <1>26, <1>27, <1>28, <1>29, <1>30, <1>31, <1>32
     DEF Next, CallStep, CellStep, FileStep, ClearStep, Cancel, DockerStep

\* What every state satisfies about what a cleanup leaves behind.
THEOREM CleanupKnows == Spec => [](Containers /\ ClearedSlot)
<1>1. Init => Containers /\ ClearedSlot
  BY DEF Init, Containers, ClearedSlot
<1>2. IInv /\ Drain /\ Containers /\ ClearedSlot /\ [Next]_vars => (Containers /\ ClearedSlot)'
  <2>1. Containers /\ ClearedSlot /\ UNCHANGED vars => (Containers /\ ClearedSlot)'
    BY DEF Containers, ClearedSlot, vars, slotVars, sessionVars
  <2> QED  BY <2>1, ContainersStep, ClearedSlotStep
<1> QED  BY <1>1, <1>2, Inductive, CleanupIsLast, PTL DEF Spec

\* A run that was cleaned up has no slot, and no session its calls were given
\* is alive or still has a container that Docker was not asked to remove.
THEOREM ClearedRunsOwnNothing == Spec => []ClearedRunOwnsNothing
<1>1. IInv /\ Containers /\ ClearedSlot => ClearedRunOwnsNothing
  <2> SUFFICES ASSUME IInv, Containers, ClearedSlot, NEW r \in Drained, pc[r] = "cleared",
                      NEW c \in Calls, RunOf[c] = r, handle[c] # None
               PROVE  kernel[handle[c]] = "destroyed" /\ container[handle[c]] # "running"
    BY DEF ClearedRunOwnsNothing, ClearedSlot
  <2>1. handle[c] \in Calls /\ handle[handle[c]] = handle[c]
    BY HandleKnown
  <2>2. kernel[handle[c]] # "live"
    BY DEF IInv, OneKernel, ClearedSlot
  <2>3. kernel[handle[c]] = "destroyed"
    BY <2>1, <2>2 DEF Containers, IInv, Typed, TypeOK
  <2> QED  BY <2>1, <2>3 DEF Containers
<1> QED  BY <1>1, Inductive, CleanupKnows, PTL

\* If no call is cancelled, a cleaned-up run has no running container at all,
\* handed out or not. (That a cancelled start leaves one is no accident of the
\* model: without the assumption the property fails.)
THEOREM NothingLeftRunning ==
    ASSUME Cancellable \cap Calls = {}
    PROVE  Spec => []NoContainerLeftRunning
<1>1. Init => Accounted
  BY DEF Init, Accounted
<1>2. IInv /\ Accounted /\ [Next]_vars => Accounted'
  <2>1. Accounted /\ UNCHANGED vars => Accounted'
    BY DEF Accounted, vars, sessionVars
  <2> QED  BY <2>1, AccountedStep
<1>3. IInv /\ Drain /\ Accounted /\ ClearedRunOwnsNothing => NoContainerLeftRunning
  <2> SUFFICES ASSUME IInv, Drain, Accounted, ClearedRunOwnsNothing, NEW r \in Drained,
                      pc[r] = "cleared", NEW c \in Calls, RunOf[c] = r, container[c] = "running"
               PROVE  FALSE
    BY DEF NoContainerLeftRunning
  <2>1. pc[c] \notin {"boot", "logs"}
    BY DEF Drain, CallsOver, Ended
  <2>2. handle[c] = c
    BY <2>1 DEF Accounted
  <2> QED  BY <2>2 DEF ClearedRunOwnsNothing
<1> QED  BY <1>1, <1>2, <1>3, Inductive, CleanupIsLast, ClearedRunsOwnNothing, PTL DEF Spec
=============================================================================
