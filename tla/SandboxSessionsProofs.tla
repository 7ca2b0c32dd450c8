------------------------ MODULE SandboxSessionsProofs ------------------------
(***************************************************************************)
(* Proofs, for every set of calls, runs and slots, that IInv is an         *)
(* invariant of SandboxSessions, and with it the properties it implies.    *)
(*                                                                         *)
(* Most steps move one task, take or leave one slot, and touch one         *)
(* session.  The lemmas follow that shape: what entering, leaving and      *)
(* staying in a slot preserve is proved once, and each action cites it.    *)
(***************************************************************************)
EXTENDS SandboxSessionsInv, TLAPS

USE SandboxAssumption DEF Calls, Tasks

LEMMA OwnerType == \A a \in Tasks : Owner(a) \in Runs
  BY DEF Owner

LEMMA PlaceTypes ==
    /\ Waiting \subseteq Places /\ Creating \subseteq Places
    /\ InCell \subseteq Places /\ Clearing \subseteq Places /\ Ended \subseteq Places
    /\ {"idle", "download", "queue", "file"} \subseteq Places
  BY DEF Places

(***************************************************************************)
(* The slot part of the invariant.                                         *)
(***************************************************************************)
Slotted == SlotCount /\ SlotKeys /\ SlotLock

\* Entering a slot, registered or fresh, to wait for its lock (Begin,
\* BeginClear, and the calls that go to forget their session).
LEMMA EnterKeepsSlotted ==
    ASSUME Typed, Slotted, NEW a \in Tasks, NEW place \in Waiting,
           pc[a] \notin InSlot, EnterSlot(a), GoTo(a, place),
           UNCHANGED <<holder, cached>>
    PROVE  Slotted'
<1> USE OwnerType DEF Typed, TypeOK, GoTo, InSlot, Holding, Waiting, Creating, Clearing
<1>1. PICK sl \in Slots :
         /\ \/ slotOf[Owner(a)] = sl
            \/ slotOf[Owner(a)] = None /\ Unused(sl) /\ users[sl] = {}
         /\ slotOf' = [slotOf EXCEPT ![Owner(a)] = sl]
         /\ users' = [users EXCEPT ![sl] = @ \cup {a}]
  BY DEF EnterSlot
<1>2. SlotCount'
  BY <1>1 DEF Slotted, SlotCount, Unused
<1>3. SlotKeys'
  BY <1>1 DEF Slotted, SlotKeys, Unused
<1>4. SlotLock'
  BY <1>1 DEF Slotted, SlotLock, SlotCount, Unused
<1> QED  BY <1>2, <1>3, <1>4 DEF Slotted

\* Leaving a slot with a cache entry that is the old one, none, or a session
\* of the run.
LEMMA LeaveKeepsSlotted ==
    ASSUME Typed, Slotted, NEW a \in Tasks, NEW sl \in Slots,
           NEW place \in Places \ InSlot, NEW entry \in Calls \cup {None},
           a \in users[sl], holder[sl] \in {a, None} \/ entry = cached[sl],
           entry # None => RunOf[entry] = Owner(a),
           LeaveSlot(a, sl, entry), GoTo(a, place)
    PROVE  Slotted'
<1> USE OwnerType DEF Typed, TypeOK, GoTo, LeaveSlot, InSlot, Holding, Waiting, Creating, Clearing
<1>1. SlotCount'
  BY DEF Slotted, SlotCount
<1>2. SlotKeys'
  BY DEF Slotted, SlotKeys, SlotCount
<1>3. SlotLock'
  BY DEF Slotted, SlotLock, SlotCount, SlotKeys
<1> QED  BY <1>1, <1>2, <1>3 DEF Slotted

\* Moving without touching a slot.
LEMMA StayKeepsSlotted ==
    ASSUME Typed, Slotted, NEW a \in Tasks, NEW place \in Places,
           pc[a] \in InSlot <=> place \in InSlot,
           pc[a] \in Holding <=> place \in Holding,
           GoTo(a, place), UNCHANGED slotVars
    PROVE  Slotted'
  BY OwnerType DEF Typed, TypeOK, GoTo, slotVars, Slotted, SlotCount, SlotKeys, SlotLock

\* Getting the lock of a slot for good: nobody else holds it, nothing is
\* cached from here on.
LEMMA HoldKeepsSlotted ==
    ASSUME Typed, Slotted, NEW a \in Tasks, NEW sl \in Slots,
           NEW place \in Holding, pc[a] \in Waiting, Granted(a, sl),
           holder' = [holder EXCEPT ![sl] = a],
           cached' = [cached EXCEPT ![sl] = None],
           UNCHANGED <<slotOf, users>>, GoTo(a, place)
    PROVE  Slotted'
<1> USE OwnerType DEF Typed, TypeOK, GoTo, Granted, InSlot, Holding, Waiting, Creating, Clearing
<1>1. SlotCount'
  BY DEF Slotted, SlotCount
<1>2. SlotKeys'
  BY DEF Slotted, SlotKeys
<1>3. SlotLock'
  BY DEF Slotted, SlotLock, SlotCount, SlotKeys
<1> QED  BY <1>1, <1>2, <1>3 DEF Slotted

(***************************************************************************)
(* Type correctness.                                                       *)
(***************************************************************************)
LEMMA EnterSlotType ==
    ASSUME TypeOK, NEW a \in Tasks, EnterSlot(a)
    PROVE  slotOf' \in [Runs -> Slots \cup {None}] /\ users' \in [Slots -> SUBSET Tasks]
  BY OwnerType DEF EnterSlot, TypeOK

LEMMA LeaveSlotType ==
    ASSUME TypeOK, NEW a \in Tasks, NEW sl \in Slots, NEW entry \in Calls \cup {None},
           LeaveSlot(a, sl, entry)
    PROVE  /\ slotOf' \in [Runs -> Slots \cup {None}] /\ users' \in [Slots -> SUBSET Tasks]
           /\ holder' \in [Slots -> Tasks \cup {None}]
           /\ cached' \in [Slots -> Calls \cup {None}]
  BY OwnerType DEF LeaveSlot, TypeOK

LEMMA GoToType ==
    ASSUME TypeOK, NEW a \in Tasks, NEW place \in Places, GoTo(a, place)
    PROVE  pc' \in [Tasks -> Places] /\ open' \subseteq Runs
  BY DEF GoTo, TypeOK

LEMMA TypedInit == Init => Typed
  BY DEF Init, Typed, TypeOK, Places, Creating, Clearing, InCell

LEMMA TypedStep == Typed /\ [Next]_vars => Typed'
<1> SUFFICES ASSUME Typed, [Next]_vars PROVE Typed'
  OBVIOUS
<1>0. TypeOK  BY DEF Typed
<1> USE <1>0, GoToType, EnterSlotType, LeaveSlotType, OwnerType
<1> USE DEF Places, Waiting, Creating, InCell, Clearing, Ended, slotVars, sessionVars
<1>1. ASSUME NEW c \in Calls, Begin(c) PROVE Typed'
  <2>1. TypeOK'  BY <1>1 DEF Begin, TypeOK
  <2> QED  BY <1>1, <2>1 DEF Begin, Typed, TypeOK, GoTo
<1>2. ASSUME NEW c \in Calls, NEW sl \in Slots, ReuseSession(c, sl) PROVE Typed'
  <2>1. cached[sl] \in Calls  BY <1>2 DEF ReuseSession, TypeOK
  <2>2. TypeOK'  BY <1>2, <2>1 DEF ReuseSession, TypeOK, AfterSession
  <2> QED  BY <1>2, <2>1, <2>2 DEF ReuseSession, AfterSession, Typed, TypeOK, GoTo
<1>3. ASSUME NEW c \in Calls, NEW sl \in Slots, StartSession(c, sl) PROVE Typed'
  <2>1. TypeOK'  BY <1>3 DEF StartSession, TypeOK
  <2> QED  BY <1>3, <2>1 DEF StartSession, Typed, TypeOK, GoTo
<1>4. ASSUME NEW c \in Calls, NEW sl \in Slots, CreateFails(c, sl) PROVE Typed'
  <2>1. TypeOK'  BY <1>4 DEF CreateFails, TypeOK
  <2> QED  BY <1>4, <2>1 DEF CreateFails, Typed, TypeOK, GoTo
<1>5. ASSUME NEW c \in Calls, Created(c) PROVE Typed'
  <2>1. TypeOK'  BY <1>5 DEF Created, TypeOK
  <2> QED  BY <1>5, <2>1 DEF Created, Typed, TypeOK, GoTo
<1>6. ASSUME NEW c \in Calls, NEW sl \in Slots, Booted(c, sl) PROVE Typed'
  <2>1. TypeOK'  BY <1>6 DEF Booted, TypeOK, AfterSession
  <2> QED  BY <1>6, <2>1 DEF Booted, AfterSession, Typed, TypeOK, GoTo
<1>7. ASSUME NEW c \in Calls, BootFails(c) PROVE Typed'
  <2>1. TypeOK'  BY <1>7 DEF BootFails, TypeOK
  <2> QED  BY <1>7, <2>1 DEF BootFails, Typed, TypeOK, GoTo
<1>8. ASSUME NEW c \in Calls, LogsRead(c) PROVE Typed'
  <2>1. TypeOK'  BY <1>8 DEF LogsRead, BeginRemoval, TypeOK
  <2> QED  BY <1>8, <2>1 DEF LogsRead, Typed, TypeOK, GoTo
<1>9. ASSUME NEW c \in Calls, NEW sl \in Slots, Unbooted(c, sl) PROVE Typed'
  <2>1. TypeOK'  BY <1>9 DEF Unbooted, TypeOK
  <2> QED  BY <1>9, <2>1 DEF Unbooted, Typed, TypeOK, GoTo
<1>10. ASSUME NEW c \in CellCalls, CellStep(c) PROVE Typed'
  <2>1. CASE LockSession(c)
    <3>0. UNCHANGED <<holder, cached, handle, todo, kernel, container>>
      BY <2>1 DEF LockSession
    <3>1. CASE GoTo(c, "cell") /\ UNCHANGED <<slotOf, users>>
               /\ guard' = [guard EXCEPT ![handle[c]] = c]
      <4>1. TypeOK'  BY <3>0, <3>1 DEF TypeOK
      <4> QED  BY <1>10, <2>1, <3>1, <4>1 DEF LockSession, Typed, TypeOK, GoTo
    <3>2. CASE GoTo(c, "forget") /\ EnterSlot(c) /\ UNCHANGED guard
      <4>1. TypeOK'  BY <3>0, <3>2 DEF TypeOK
      <4> QED  BY <1>10, <2>1, <3>2, <4>1 DEF LockSession, Typed, TypeOK, GoTo
    <3> QED  BY <2>1, <3>1, <3>2 DEF LockSession
  <2>2. CASE CellReturns(c)
    <3>1. TypeOK'  BY <2>2 DEF CellReturns, TypeOK
    <3> QED  BY <1>10, <2>2, <3>1 DEF CellReturns, Typed, TypeOK, GoTo
  <2>5. CASE CellCancelled(c)
    <3>1. TypeOK'  BY <2>5 DEF CellCancelled, TypeOK
    <3> QED  BY <1>10, <2>5, <3>1 DEF CellCancelled, Typed, TypeOK, GoTo
  <2>5r. CASE CellRaises(c)
    <3>1. TypeOK'  BY <2>5r DEF CellRaises, TypeOK
    <3> QED  BY <1>10, <2>5r, <3>1 DEF CellRaises, Typed, TypeOK, GoTo
  <2>3. CASE CellFails(c)
    <3>1. TypeOK'  BY <2>3 DEF CellFails, BeginRemoval, TypeOK
    <3> QED  BY <1>10, <2>3, <3>1 DEF CellFails, Typed, TypeOK, GoTo
  <2>4. CASE CellFailed(c)
    <3>1. TypeOK'  BY <2>4 DEF CellFailed, TypeOK
    <3> QED  BY <1>10, <2>4, <3>1 DEF CellFailed, Typed, TypeOK, GoTo
  <2> QED  BY <1>10, <2>1, <2>2, <2>3, <2>4, <2>5, <2>5r DEF CellStep
<1>11. ASSUME NEW c \in Calls, NEW sl \in Slots, Forget(c, sl) PROVE Typed'
  <2>1. TypeOK'  BY <1>11 DEF Forget, TypeOK
  <2> QED  BY <1>11, <2>1 DEF Forget, Typed, TypeOK, GoTo
<1>12. ASSUME NEW c \in FileCalls, FileStep(c) PROVE Typed'
  <2>1. CASE FileMoved(c)
    <3>1. /\ pc[c] = "file" /\ todo' = [todo EXCEPT ![c] = todo[c] - 1]
          /\ UNCHANGED <<slotVars, handle, sessionVars>>
      BY <2>1 DEF FileMoved
    <3>2. todo[c] \in 1 .. FilesPerCall
      BY <3>1 DEF Typed, TypeOK
    <3>3. PICK place \in {"ok", "file", "raised"} :
             GoTo(c, place) /\ (place = "file" => todo[c] > 1)
      BY <2>1 DEF FileMoved
    <3>4. todo' \in [FileCalls -> 0 .. FilesPerCall]
      BY <3>1, <3>2 DEF TypeOK
    <3>5. TypeOK'
      BY <3>1, <3>3, <3>4 DEF TypeOK
    <3>6. \A f \in FileCalls : pc'[f] = "file" => todo'[f] > 0
      BY <1>12, <3>1, <3>2, <3>3 DEF Typed, TypeOK, GoTo
    <3>7. \A f \in FileCalls \ {c} : pc'[f] = pc[f] /\ todo'[f] = todo[f]
      BY <3>1, <3>3 DEF GoTo, TypeOK
    <3>8. \A f \in FileCalls :
             pc'[f] \in {"idle", "download", "want", "file"} \cup Creating => todo'[f] > 0
      BY <1>12, <3>3, <3>6, <3>7 DEF Typed, TypeOK, GoTo
    <3> QED  BY <1>12, <3>3, <3>5, <3>8 DEF Typed, TypeOK, GoTo
  <2>2. CASE FileFails(c)
    <3>1. TypeOK'  BY <2>2 DEF FileFails, TypeOK
    <3> QED  BY <1>12, <2>2, <3>1 DEF FileFails, Typed, TypeOK, GoTo
  <2>3. CASE Downloaded(c)
    <3>1. TypeOK'  BY <2>3 DEF Downloaded, TypeOK
    <3> QED  BY <1>12, <2>3, <3>1 DEF Downloaded, Typed, TypeOK, GoTo
  <2> QED  BY <1>12, <2>1, <2>2, <2>3 DEF FileStep
<1>13. ASSUME NEW r \in Runs, ClearStep(r) PROVE Typed'
  <2>1. CASE EndRun(r)
    BY <2>1 DEF EndRun, Typed, TypeOK
  <2>2. CASE BeginClear(r)
    <3>1. TypeOK'  BY <2>2 DEF BeginClear, TypeOK
    <3> QED  BY <1>13, <2>2, <3>1 DEF BeginClear, Typed, TypeOK, GoTo
  <2>3. ASSUME NEW sl \in Slots, Clear(r, sl) PROVE Typed'
    <3>1. CASE GoTo(r, "take") /\ UNCHANGED <<slotOf, users>>
               /\ cached' = [cached EXCEPT ![sl] = None]
               /\ holder' = [holder EXCEPT ![sl] = r]
      <4>1. TypeOK'  BY <2>3, <3>1 DEF Clear, TypeOK
      <4> QED  BY <1>13, <2>3, <3>1, <4>1 DEF Clear, Typed, TypeOK, GoTo
    <3>2. CASE GoTo(r, "cleared") /\ LeaveSlot(r, sl, None)
      <4>1. TypeOK'  BY <2>3, <3>2 DEF Clear, TypeOK
      <4> QED  BY <1>13, <2>3, <3>2, <4>1 DEF Clear, Typed, TypeOK, GoTo
    <3> QED  BY <2>3, <3>1, <3>2 DEF Clear
  <2>4. ASSUME NEW sl \in Slots, ClearLocks(r, sl) PROVE Typed'
    <3>1. CASE GoTo(r, "remove") /\ BeginRemoval(handle[r]) /\ UNCHANGED slotVars
               /\ guard' = [guard EXCEPT ![handle[r]] = r]
      <4>1. TypeOK'  BY <2>4, <3>1 DEF ClearLocks, BeginRemoval, TypeOK
      <4> QED  BY <1>13, <2>4, <3>1, <4>1 DEF ClearLocks, Typed, TypeOK, GoTo
    <3>2. CASE GoTo(r, "cleared") /\ LeaveSlot(r, sl, None) /\ UNCHANGED sessionVars
      <4>1. TypeOK'  BY <2>4, <3>2 DEF ClearLocks, TypeOK
      <4> QED  BY <1>13, <2>4, <3>2, <4>1 DEF ClearLocks, Typed, TypeOK, GoTo
    <3> QED  BY <2>4, <3>1, <3>2 DEF ClearLocks
  <2>5. ASSUME NEW sl \in Slots, ClearRemoved(r, sl) PROVE Typed'
    <3>1. TypeOK'  BY <2>5 DEF ClearRemoved, TypeOK
    <3> QED  BY <1>13, <2>5, <3>1 DEF ClearRemoved, Typed, TypeOK, GoTo
  <2> QED  BY <1>13, <2>1, <2>2, <2>3, <2>4, <2>5 DEF ClearStep
<1>14. ASSUME NEW a \in Tasks, Cancel(a) PROVE Typed'
  <2>1. ASSUME NEW sl \in Slots, CancelInSlot(a, sl) PROVE Typed'
    <3>1. TypeOK'  BY <2>1 DEF CancelInSlot, TypeOK
    <3> QED  BY <1>14, <2>1, <3>1 DEF CancelInSlot, Typed, TypeOK, GoTo
  <2>2. CASE CancelRemoval(a)
    <3>1. TypeOK'  BY <2>2 DEF CancelRemoval, TypeOK
    <3> QED  BY <1>14, <2>2, <3>1 DEF CancelRemoval, Typed, TypeOK, GoTo
  <2>3. CASE a \in Calls /\ CancelPlain(a)
    <3>1. TypeOK'  BY <2>3 DEF CancelPlain, TypeOK
    <3> QED  BY <1>14, <2>3, <3>1 DEF CancelPlain, Typed, TypeOK, GoTo
  <2>4. CASE a \in Calls /\ CancelBoot(a)
    <3>1. TypeOK'  BY <2>4 DEF CancelBoot, BeginRemoval, TypeOK
    <3> QED  BY <1>14, <2>4, <3>1 DEF CancelBoot, Typed, TypeOK, GoTo
  <2>5. CASE a \in CellCalls /\ CancelCell(a)
    <3>1. TypeOK'  BY <2>5 DEF CancelCell, BeginRemoval, TypeOK
    <3> QED  BY <1>14, <2>5, <3>1 DEF CancelCell, Typed, TypeOK, GoTo
  <2> QED  BY <1>14, <2>1, <2>2, <2>3, <2>4, <2>5 DEF Cancel
<1>15. ASSUME NEW s \in Calls, DockerStep(s) PROVE Typed'
  <2>1. container' \in [Calls -> {"none", "creating", "running", "removing", "gone", "leaked"}]
    BY <1>15 DEF DockerStep, RemovalEnds, OrphanCreated, TypeOK
  <2>2. UNCHANGED <<pc, open, slotVars, handle, todo, kernel, guard>>
    BY <1>15 DEF DockerStep, RemovalEnds, OrphanCreated
  <2> QED  BY <2>1, <2>2 DEF Typed, TypeOK
<1>16. CASE UNCHANGED vars
  BY <1>16 DEF vars, Typed, TypeOK
<1>17. ASSUME NEW c \in FileCalls, BeginClone(c) PROVE Typed'
  <2>1. TypeOK'  BY <1>17 DEF BeginClone, TypeOK
  <2> QED  BY <1>17, <2>1 DEF BeginClone, Typed, TypeOK, GoTo
<1> QED
  BY <1>1, <1>2, <1>3, <1>4, <1>5, <1>6, <1>7, <1>8, <1>9, <1>10, <1>11, <1>12,
     <1>13, <1>14, <1>15, <1>16, <1>17 DEF Next, CallStep

\* Every variable keeps its type, and a task its kind of places, whatever the
\* calls, their order and the faults.
THEOREM TypeCorrect == Spec => []TypeOK
<1>1. Typed => TypeOK  BY DEF Typed
<1> QED  BY TypedInit, TypedStep, <1>1, PTL DEF Spec


(***************************************************************************)
(* The slot part is preserved by every step.                               *)
(***************************************************************************)
\* What a slot caches was started by the run whose task is in it.
LEMMA CachedByRun ==
    ASSUME Typed, Slotted, NEW a \in Tasks, NEW sl \in Slots, a \in users[sl],
           cached[sl] # None
    PROVE  cached[sl] \in Calls /\ RunOf[cached[sl]] = Owner(a)
  BY OwnerType DEF Typed, TypeOK, Slotted, SlotCount, SlotKeys

LEMMA HolderInside ==
    ASSUME Typed, Slotted, NEW a \in Tasks, NEW sl \in Slots, holder[sl] = a
    PROVE  a \in users[sl] /\ cached[sl] = None
  BY OwnerType DEF Typed, TypeOK, Slotted, SlotCount, SlotLock

LEMMA SlottedStep == IInv /\ Next => Slotted'
<1> SUFFICES ASSUME IInv, Next PROVE Slotted'
  OBVIOUS
<1>0. Typed /\ TypeOK /\ Slotted  BY DEF IInv, Typed, Slotted
<1> USE <1>0
<1>a. \A r \in Runs : Owner(r) = r  BY DEF Owner
<1>b. \A c \in Calls : Owner(c) = RunOf[c]  BY DEF Owner
<1> USE DEF Places, InSlot, Holding, Waiting, Creating, InCell, Clearing, Ended
<1>1. ASSUME NEW c \in Calls, Begin(c) PROVE Slotted'
  <2>1. EnterSlot(c) /\ GoTo(c, "want") /\ UNCHANGED <<holder, cached>> /\ pc[c] = "idle"
    BY <1>1 DEF Begin
  <2> QED  BY <2>1, EnterKeepsSlotted
<1>2. ASSUME NEW c \in Calls, NEW sl \in Slots, ReuseSession(c, sl) PROVE Slotted'
  <2>1. /\ pc[c] = "want" /\ c \in users[sl] /\ holder[sl] = None /\ cached[sl] # None
    BY <1>2 DEF ReuseSession, Granted
  <2>2. PICK place \in AfterSession(c, cached[sl]) :
           /\ GoTo(c, place)
           /\ IF place = "forget" THEN UNCHANGED slotVars ELSE LeaveSlot(c, sl, cached[sl])
    BY <1>2 DEF ReuseSession
  <2>3. place \in {"queue", "file", "raised", "forget"}
    BY DEF AfterSession
  <2>4. CASE place = "forget"
    BY <2>1, <2>2, <2>4, StayKeepsSlotted
  <2>5. CASE place # "forget"
    BY <2>1, <2>2, <2>3, <2>5, CachedByRun, LeaveKeepsSlotted
  <2> QED  BY <2>4, <2>5
<1>3. ASSUME NEW c \in Calls, NEW sl \in Slots, StartSession(c, sl) PROVE Slotted'
  <2>1. /\ pc[c] = "want" /\ Granted(c, sl) /\ cached[sl] = None /\ UNCHANGED cached
        /\ holder' = [holder EXCEPT ![sl] = c] /\ UNCHANGED <<slotOf, users>>
        /\ GoTo(c, "create")
    BY <1>3 DEF StartSession
  <2>2. cached' = [cached EXCEPT ![sl] = None]
    BY <1>0, <2>1 DEF TypeOK
  <2> QED  BY <2>1, <2>2, HoldKeepsSlotted
<1>4. ASSUME NEW c \in Calls, NEW sl \in Slots, CreateFails(c, sl) PROVE Slotted'
  <2>1. holder[sl] = c /\ GoTo(c, "raised") /\ LeaveSlot(c, sl, cached[sl])
    BY <1>4 DEF CreateFails
  <2> QED  BY <2>1, HolderInside, LeaveKeepsSlotted
<1>5. ASSUME NEW c \in Calls, Created(c) PROVE Slotted'
  <2>1. pc[c] = "create" /\ GoTo(c, "boot") /\ UNCHANGED slotVars
    BY <1>5 DEF Created
  <2> QED  BY <2>1, StayKeepsSlotted
<1>6. ASSUME NEW c \in Calls, NEW sl \in Slots, Booted(c, sl) PROVE Slotted'
  <2>1. holder[sl] = c /\ LeaveSlot(c, sl, c)
    BY <1>6 DEF Booted
  <2>2. PICK place \in AfterSession(c, c) : GoTo(c, place)
    BY <1>6 DEF Booted
  <2>3. pc[c] = "boot" /\ (place \in {"queue", "file", "raised", "forget"})
    BY <1>6 DEF AfterSession, Booted
  <2>4. kernel[c] = "live"
    BY <2>3 DEF IInv, KernelState
  <2>5. place # "forget"
    BY <2>4 DEF AfterSession
  <2> QED
    BY <1>b, <2>1, <2>2, <2>3, <2>5, HolderInside, LeaveKeepsSlotted
<1>7. ASSUME NEW c \in Calls, BootFails(c) PROVE Slotted'
  <2>1. pc[c] = "boot" /\ GoTo(c, "logs") /\ UNCHANGED slotVars
    BY <1>7 DEF BootFails
  <2> QED  BY <2>1, StayKeepsSlotted
<1>8. ASSUME NEW c \in Calls, LogsRead(c) PROVE Slotted'
  <2>1. pc[c] = "logs" /\ GoTo(c, "unboot") /\ UNCHANGED slotVars
    BY <1>8 DEF LogsRead
  <2> QED  BY <2>1, StayKeepsSlotted
<1>9. ASSUME NEW c \in Calls, NEW sl \in Slots, Unbooted(c, sl) PROVE Slotted'
  <2>1. PICK place \in {"raised", "cancelled"} : GoTo(c, place)
    BY <1>9 DEF Unbooted
  <2>2. holder[sl] = c /\ LeaveSlot(c, sl, cached[sl])
    BY <1>9 DEF Unbooted
  <2> QED  BY <2>1, <2>2, HolderInside, LeaveKeepsSlotted
<1>10. ASSUME NEW c \in CellCalls, CellStep(c) PROVE Slotted'
  <2>1. CASE LockSession(c)
    <3>1. pc[c] = "queue" /\ UNCHANGED <<holder, cached>>
      BY <2>1 DEF LockSession
    <3>2. CASE GoTo(c, "cell") /\ UNCHANGED <<slotOf, users>>
      BY <3>1, <3>2, StayKeepsSlotted DEF slotVars
    <3>3. CASE GoTo(c, "forget") /\ EnterSlot(c)
      BY <3>1, <3>3, EnterKeepsSlotted
    <3> QED  BY <2>1, <3>2, <3>3 DEF LockSession
  <2>2. CASE CellReturns(c)
    <3>1. pc[c] = "cell" /\ GoTo(c, "ok") /\ UNCHANGED slotVars
      BY <2>2 DEF CellReturns
    <3> QED  BY <3>1, StayKeepsSlotted
  <2>3. CASE CellFails(c)
    <3>1. pc[c] = "cell" /\ GoTo(c, "fail") /\ UNCHANGED slotVars
      BY <2>3 DEF CellFails
    <3> QED  BY <3>1, StayKeepsSlotted
  <2>4. CASE CellFailed(c)
    <3>1. pc[c] = "fail" /\ GoTo(c, "forget") /\ EnterSlot(c) /\ UNCHANGED <<holder, cached>>
      BY <2>4 DEF CellFailed
    <3> QED  BY <3>1, EnterKeepsSlotted
  <2>5. CASE CellCancelled(c)
    <3>1. pc[c] = "failCancelled" /\ GoTo(c, "cancelled") /\ UNCHANGED slotVars
      BY <2>5 DEF CellCancelled
    <3> QED  BY <3>1, StayKeepsSlotted
  <2>5r. CASE CellRaises(c)
    <3>1. pc[c] \in {"fail", "failCancelled"} /\ GoTo(c, "raised") /\ UNCHANGED slotVars
      BY <2>5r DEF CellRaises
    <3> QED  BY <3>1, StayKeepsSlotted
  <2> QED  BY <1>10, <2>1, <2>2, <2>3, <2>4, <2>5, <2>5r DEF CellStep
<1>11. ASSUME NEW c \in Calls, NEW sl \in Slots, Forget(c, sl) PROVE Slotted'
  <2> DEFINE entry == IF cached[sl] = handle[c] THEN None ELSE cached[sl]
  <2>1. /\ c \in users[sl] /\ holder[sl] = None /\ GoTo(c, "reset")
        /\ LeaveSlot(c, sl, entry)
    BY <1>11 DEF Forget, Granted
  <2>2. entry \in Calls \cup {None} /\ (entry # None => RunOf[entry] = Owner(c))
    BY <2>1, CachedByRun DEF TypeOK
  <2> HIDE DEF entry
  <2> QED  BY <2>1, <2>2, LeaveKeepsSlotted
<1>12. ASSUME NEW c \in FileCalls, FileStep(c) PROVE Slotted'
  <2>1. CASE FileMoved(c) \/ FileFails(c)
    <3>1. PICK place \in {"ok", "file", "raised"} : GoTo(c, place)
      BY <2>1 DEF FileMoved, FileFails
    <3>2. pc[c] \in {"download", "file"} /\ UNCHANGED slotVars
      BY <2>1 DEF FileMoved, FileFails
    <3> QED  BY <3>1, <3>2, StayKeepsSlotted
  <2>2. CASE Downloaded(c)
    <3>1. /\ pc[c] = "download" /\ EnterSlot(c) /\ GoTo(c, "want")
          /\ UNCHANGED <<holder, cached>>
      BY <2>2 DEF Downloaded
    <3> QED  BY <3>1, EnterKeepsSlotted
  <2> QED  BY <1>12, <2>1, <2>2 DEF FileStep
<1>13. ASSUME NEW r \in Runs, ClearStep(r) PROVE Slotted'
  <2>1. CASE EndRun(r)
    BY <2>1 DEF EndRun, Slotted, SlotCount, SlotKeys, SlotLock, slotVars
  <2>2. CASE BeginClear(r)
    <3>1. pc[r] = "idle" /\ GoTo(r, "want") /\ EnterSlot(r) /\ UNCHANGED <<holder, cached>>
      BY <2>2 DEF BeginClear
    <3> QED  BY <3>1, EnterKeepsSlotted
  <2>3. ASSUME NEW sl \in Slots, Clear(r, sl) PROVE Slotted'
    <3>1. pc[r] = "want" /\ Granted(r, sl)
      BY <2>3 DEF Clear
    <3>2. CASE GoTo(r, "take") /\ UNCHANGED <<slotOf, users>>
               /\ cached' = [cached EXCEPT ![sl] = None]
               /\ holder' = [holder EXCEPT ![sl] = r]
      BY <3>1, <3>2, HoldKeepsSlotted
    <3>3. CASE GoTo(r, "cleared") /\ LeaveSlot(r, sl, None)
      BY <3>1, <3>3, LeaveKeepsSlotted DEF Granted
    <3> QED  BY <2>3, <3>2, <3>3 DEF Clear
  <2>4. ASSUME NEW sl \in Slots, ClearLocks(r, sl) PROVE Slotted'
    <3>1. pc[r] = "take" /\ holder[sl] = r
      BY <2>4 DEF ClearLocks
    <3>2. CASE GoTo(r, "remove") /\ UNCHANGED slotVars
      BY <3>1, <3>2, StayKeepsSlotted
    <3>3. CASE GoTo(r, "cleared") /\ LeaveSlot(r, sl, None)
      BY <3>1, <3>3, HolderInside, LeaveKeepsSlotted
    <3> QED  BY <2>4, <3>2, <3>3 DEF ClearLocks
  <2>5. ASSUME NEW sl \in Slots, ClearRemoved(r, sl) PROVE Slotted'
    <3>1. PICK place \in {"raised", "cleared", "cancelled"} : GoTo(r, place)
      BY <2>5 DEF ClearRemoved
    <3>2. holder[sl] = r /\ LeaveSlot(r, sl, None)
      BY <2>5 DEF ClearRemoved
    <3> QED  BY <3>1, <3>2, HolderInside, LeaveKeepsSlotted
  <2> QED  BY <1>13, <2>1, <2>2, <2>3, <2>4, <2>5 DEF ClearStep
<1>14. ASSUME NEW a \in Tasks, Cancel(a) PROVE Slotted'
  <2>1. ASSUME NEW sl \in Slots, CancelInSlot(a, sl) PROVE Slotted'
    <3>1. a \in users[sl] /\ LeaveSlot(a, sl, cached[sl]) /\ GoTo(a, "cancelled")
      BY <2>1 DEF CancelInSlot
    <3>2. /\ cached[sl] \in Calls \cup {None}
          /\ cached[sl] # None => RunOf[cached[sl]] = Owner(a)
      BY <3>1, CachedByRun DEF TypeOK
    <3> QED  BY <3>1, <3>2, LeaveKeepsSlotted
  <2>2. CASE CancelRemoval(a)
    <3>1. PICK place \in {"unbootCancelled", "removeCancelled"} : GoTo(a, place)
      BY <2>2 DEF CancelRemoval
    <3>2. pc[a] \in {"unboot", "remove"} /\ UNCHANGED slotVars
      BY <2>2 DEF CancelRemoval
    <3> QED  BY <3>1, <3>2, StayKeepsSlotted
  <2>3. CASE a \in Calls /\ CancelPlain(a)
    <3>1. pc[a] \in {"download", "queue", "file", "fail"} /\ GoTo(a, "cancelled") /\ UNCHANGED slotVars
      BY <2>3 DEF CancelPlain
    <3> QED  BY <3>1, StayKeepsSlotted
  <2>4. CASE a \in Calls /\ CancelBoot(a)
    <3>1. pc[a] = "boot" /\ GoTo(a, "unbootCancelled") /\ UNCHANGED slotVars
      BY <2>4 DEF CancelBoot
    <3> QED  BY <3>1, StayKeepsSlotted
  <2>5. CASE a \in CellCalls /\ CancelCell(a)
    <3>1. pc[a] = "cell" /\ GoTo(a, "failCancelled") /\ UNCHANGED slotVars
      BY <2>5 DEF CancelCell
    <3> QED  BY <3>1, StayKeepsSlotted
  <2> QED  BY <1>14, <2>1, <2>2, <2>3, <2>4, <2>5 DEF Cancel
<1>15. ASSUME NEW s \in Calls, DockerStep(s) PROVE Slotted'
  BY <1>15 DEF DockerStep, RemovalEnds, OrphanCreated, Slotted, SlotCount, SlotKeys,
     SlotLock, slotVars
<1>16. CASE UNCHANGED vars
  BY <1>16 DEF vars, slotVars, Slotted, SlotCount, SlotKeys, SlotLock
<1>17. ASSUME NEW c \in FileCalls, BeginClone(c) PROVE Slotted'
  <2>1. pc[c] = "idle" /\ GoTo(c, "download") /\ UNCHANGED slotVars
    BY <1>17 DEF BeginClone
  <2> QED  BY <2>1, StayKeepsSlotted
<1> QED
  BY <1>1, <1>2, <1>3, <1>4, <1>5, <1>6, <1>7, <1>8, <1>9, <1>10, <1>11, <1>12,
     <1>13, <1>14, <1>15, <1>16, <1>17 DEF Next, CallStep


(***************************************************************************)
(* The session part: handles, the locks of sessions, live kernels.         *)
(***************************************************************************)
Sessions == Handles /\ SessionLock /\ KernelState

\* The task of a step is the only one whose place changes; the facts below say
\* what a step does to caches, whatever it does to the other parts of a slot.
LEMMA LeaveCached ==
    ASSUME TypeOK, NEW a \in Tasks, NEW sl \in Slots, NEW entry, LeaveSlot(a, sl, entry)
    PROVE  cached' = [cached EXCEPT ![sl] = entry]
  BY DEF LeaveSlot

LEMMA SessionsStep == IInv /\ Next => Sessions'
<1> SUFFICES ASSUME IInv, Next PROVE Sessions'
  OBVIOUS
<1>0. TypeOK /\ Typed /\ Slotted /\ Handles /\ SessionLock /\ KernelState
  BY DEF IInv, Typed, Slotted
<1>a. \A r \in Runs : Owner(r) = r  BY DEF Owner
<1>b. \A c \in Calls : Owner(c) = RunOf[c]  BY DEF Owner
<1> USE <1>0, <1>a, <1>b, LeaveCached
<1> USE DEF Waiting, Creating, InCell, Clearing, Guarding, Unbooting, GoTo, TypeOK
<1>1. ASSUME NEW c \in Calls, Begin(c) PROVE Sessions'
  <2>1. Handles'  BY <1>1 DEF Begin, Handles, slotVars
  <2>2. SessionLock'  BY <1>1 DEF Begin, SessionLock, Handles, BeginRemoval, sessionVars
  <2>3. KernelState'  BY <1>1 DEF Begin, KernelState, SessionLock, Handles, BeginRemoval, sessionVars
  <2> QED  BY <2>1, <2>2, <2>3 DEF Sessions
<1>2. ASSUME NEW c \in Calls, NEW sl \in Slots, ReuseSession(c, sl) PROVE Sessions'
  <2> DEFINE s == cached[sl]
  <2>1. s \in Calls /\ RunOf[s] = RunOf[c] /\ handle[s] = s /\ pc[c] = "want"
    BY <1>2, CachedByRun DEF ReuseSession, Granted, Handles
  <2>2. handle' = [handle EXCEPT ![c] = s] /\ UNCHANGED <<cached, kernel, guard>>
    <3>1. ASSUME LeaveSlot(c, sl, s) PROVE UNCHANGED cached
      BY <3>1
    <3> QED  BY <1>2, <3>1 DEF ReuseSession, slotVars, sessionVars
  <2>3. PICK place \in AfterSession(c, s) : pc' = [pc EXCEPT ![c] = place]
    BY <1>2 DEF ReuseSession
  <2>4. /\ place \in {"queue", "file", "raised", "forget"}
        /\ place = "forget" => kernel[s] # "live"
    BY DEF AfterSession
  <2>5. s # c /\ handle[c] = None
    BY <2>1 DEF Handles
  <2> HIDE DEF s
  <2>6. Handles'  BY <2>1, <2>2, <2>3, <2>4, <2>5 DEF Handles
  <2>7. SessionLock'  BY <2>1, <2>2, <2>3, <2>4, <2>5 DEF SessionLock
  <2>8. KernelState'  BY <2>1, <2>2, <2>3, <2>4, <2>5 DEF KernelState
  <2> QED  BY <2>6, <2>7, <2>8 DEF Sessions
<1>3. ASSUME NEW c \in Calls, NEW sl \in Slots, StartSession(c, sl) PROVE Sessions'
  <2>1. Handles'  BY <1>3 DEF StartSession, Handles, slotVars
  <2>2. SessionLock'  BY <1>3 DEF StartSession, SessionLock, Handles, BeginRemoval, sessionVars
  <2>3. KernelState'  BY <1>3 DEF StartSession, KernelState, SessionLock, Handles, BeginRemoval, sessionVars
  <2> QED  BY <2>1, <2>2, <2>3 DEF Sessions
<1>4. ASSUME NEW c \in Calls, NEW sl \in Slots, CreateFails(c, sl) PROVE Sessions'
  <2>1. Handles'  BY <1>4 DEF CreateFails, Handles, slotVars
  <2>2. SessionLock'  BY <1>4 DEF CreateFails, SessionLock, Handles, BeginRemoval, sessionVars
  <2>3. KernelState'  BY <1>4 DEF CreateFails, KernelState, SessionLock, Handles, BeginRemoval, sessionVars
  <2> QED  BY <2>1, <2>2, <2>3 DEF Sessions
<1>5. ASSUME NEW c \in Calls, Created(c) PROVE Sessions'
  <2>1. Handles'  BY <1>5 DEF Created, Handles, slotVars
  <2>2. SessionLock'  BY <1>5 DEF Created, SessionLock, Handles, BeginRemoval, sessionVars
  <2>3. KernelState'  BY <1>5 DEF Created, KernelState, SessionLock, Handles, BeginRemoval, sessionVars
  <2> QED  BY <2>1, <2>2, <2>3 DEF Sessions
<1>6. ASSUME NEW c \in Calls, NEW sl \in Slots, Booted(c, sl) PROVE Sessions'
  <2>1. pc[c] = "boot" /\ handle[c] = None /\ kernel[c] = "live"
    BY <1>6 DEF Booted, Handles, KernelState
  <2>2. /\ handle' = [handle EXCEPT ![c] = c] /\ UNCHANGED <<kernel, guard>>
        /\ cached' = [cached EXCEPT ![sl] = c]
    BY <1>6 DEF Booted, sessionVars
  <2>3. PICK place \in AfterSession(c, c) : pc' = [pc EXCEPT ![c] = place]
    BY <1>6 DEF Booted
  <2>4. place \in {"queue", "file", "raised"}
    BY <2>1 DEF AfterSession
  <2>5. Handles'  BY <2>1, <2>2, <2>3, <2>4 DEF Handles
  <2>6. SessionLock'  BY <2>1, <2>2, <2>3, <2>4 DEF SessionLock
  <2>7. KernelState'  BY <2>1, <2>2, <2>3, <2>4 DEF KernelState
  <2> QED  BY <2>5, <2>6, <2>7 DEF Sessions
<1>7. ASSUME NEW c \in Calls, BootFails(c) PROVE Sessions'
  <2>1. Handles'  BY <1>7 DEF BootFails, Handles, slotVars
  <2>2. SessionLock'  BY <1>7 DEF BootFails, SessionLock, Handles, BeginRemoval, sessionVars
  <2>3. KernelState'  BY <1>7 DEF BootFails, KernelState, SessionLock, Handles, BeginRemoval, sessionVars
  <2> QED  BY <2>1, <2>2, <2>3 DEF Sessions
<1>8. ASSUME NEW c \in Calls, LogsRead(c) PROVE Sessions'
  <2>1. Handles'  BY <1>8 DEF LogsRead, Handles, slotVars
  <2>2. SessionLock'  BY <1>8 DEF LogsRead, SessionLock, Handles, BeginRemoval, sessionVars
  <2>3. KernelState'  BY <1>8 DEF LogsRead, KernelState, SessionLock, Handles, BeginRemoval, sessionVars
  <2> QED  BY <2>1, <2>2, <2>3 DEF Sessions
<1>9. ASSUME NEW c \in Calls, NEW sl \in Slots, Unbooted(c, sl) PROVE Sessions'
  <2>1. Handles'  BY <1>9 DEF Unbooted, Handles, slotVars
  <2>2. SessionLock'  BY <1>9 DEF Unbooted, SessionLock, Handles, BeginRemoval, sessionVars
  <2>3. KernelState'  BY <1>9 DEF Unbooted, KernelState, SessionLock, Handles, BeginRemoval, sessionVars
  <2> QED  BY <2>1, <2>2, <2>3 DEF Sessions
<1>10. ASSUME NEW c \in CellCalls, LockSession(c) PROVE Sessions'
  <2>1. Handles'  BY <1>10 DEF LockSession, Handles, slotVars
  <2>2. SessionLock'  BY <1>10 DEF LockSession, SessionLock, Handles, BeginRemoval, sessionVars
  <2>3. KernelState'  BY <1>10 DEF LockSession, KernelState, SessionLock, Handles, BeginRemoval, sessionVars
  <2> QED  BY <2>1, <2>2, <2>3 DEF Sessions
<1>11. ASSUME NEW c \in CellCalls, CellReturns(c) PROVE Sessions'
  <2>1. Handles'  BY <1>11 DEF CellReturns, Handles, slotVars
  <2>2. SessionLock'  BY <1>11 DEF CellReturns, SessionLock, Handles, BeginRemoval, sessionVars
  <2>3. KernelState'  BY <1>11 DEF CellReturns, KernelState, SessionLock, Handles, BeginRemoval, sessionVars
  <2> QED  BY <2>1, <2>2, <2>3 DEF Sessions
<1>12. ASSUME NEW c \in CellCalls, CellFails(c) PROVE Sessions'
  <2>1. Handles'  BY <1>12 DEF CellFails, Handles, slotVars
  <2>2. SessionLock'  BY <1>12 DEF CellFails, SessionLock, Handles, BeginRemoval, sessionVars
  <2>3. KernelState'  BY <1>12 DEF CellFails, KernelState, SessionLock, Handles, BeginRemoval, sessionVars
  <2> QED  BY <2>1, <2>2, <2>3 DEF Sessions
<1>13. ASSUME NEW c \in CellCalls, CellFailed(c) PROVE Sessions'
  <2>1. Handles'  BY <1>13 DEF CellFailed, Handles, slotVars
  <2>2. SessionLock'  BY <1>13 DEF CellFailed, SessionLock, Handles, BeginRemoval, sessionVars
  <2>3. KernelState'  BY <1>13 DEF CellFailed, KernelState, SessionLock, Handles, BeginRemoval, sessionVars
  <2> QED  BY <2>1, <2>2, <2>3 DEF Sessions
<1>14. ASSUME NEW c \in CellCalls, CellCancelled(c) PROVE Sessions'
  <2>1. Handles'  BY <1>14 DEF CellCancelled, Handles, slotVars
  <2>2. SessionLock'  BY <1>14 DEF CellCancelled, SessionLock, Handles, BeginRemoval, sessionVars
  <2>3. KernelState'  BY <1>14 DEF CellCancelled, KernelState, SessionLock, Handles, BeginRemoval, sessionVars
  <2> QED  BY <2>1, <2>2, <2>3 DEF Sessions
<1>14r. ASSUME NEW c \in CellCalls, CellRaises(c) PROVE Sessions'
  <2>1. Handles'  BY <1>14r DEF CellRaises, Handles, slotVars
  <2>2. SessionLock'  BY <1>14r DEF CellRaises, SessionLock, Handles, BeginRemoval, sessionVars
  <2>3. KernelState'  BY <1>14r DEF CellRaises, KernelState, SessionLock, Handles, BeginRemoval, sessionVars
  <2> QED  BY <2>1, <2>2, <2>3 DEF Sessions
<1>15. ASSUME NEW c \in Calls, NEW sl \in Slots, Forget(c, sl) PROVE Sessions'
  <2>0. /\ pc' = [pc EXCEPT ![c] = "reset"] /\ handle' = handle
        /\ cached' = [cached EXCEPT ![sl] = IF cached[sl] = handle[c] THEN None ELSE cached[sl]]
    BY <1>15 DEF Forget
  <2>1. Handles'
    <3>1. \A x \in Slots : cached'[x] # None => cached'[x] = cached[x]
      BY <2>0
    <3>2. \A a \in Tasks : a # c => pc'[a] = pc[a]
      BY <2>0
    <3>3. pc'[c] = "reset"
      BY <2>0
    <3> QED  BY <2>0, <3>1, <3>2, <3>3 DEF Handles
  <2>2. SessionLock'  BY <1>15 DEF Forget, SessionLock, Handles, BeginRemoval, sessionVars
  <2>3. KernelState'  BY <1>15 DEF Forget, KernelState, SessionLock, Handles, BeginRemoval, sessionVars
  <2> QED  BY <2>1, <2>2, <2>3 DEF Sessions
<1>16. ASSUME NEW c \in FileCalls, FileMoved(c) PROVE Sessions'
  <2>0. PICK place \in {"ok", "file", "raised"} : pc' = [pc EXCEPT ![c] = place]
    BY <1>16 DEF FileMoved
  <2>1. pc[c] = "file" /\ UNCHANGED <<slotVars, handle, sessionVars>>
    BY <1>16 DEF FileMoved
  <2>2. Handles'  BY <2>0, <2>1 DEF Handles, slotVars
  <2>3. SessionLock'  BY <2>0, <2>1 DEF SessionLock, Handles, sessionVars
  <2>4. KernelState'  BY <2>0, <2>1 DEF KernelState, Handles, sessionVars
  <2> QED  BY <2>2, <2>3, <2>4 DEF Sessions
<1>17. ASSUME NEW c \in FileCalls, FileFails(c) PROVE Sessions'
  <2>1. Handles'  BY <1>17 DEF FileFails, Handles, slotVars
  <2>2. SessionLock'  BY <1>17 DEF FileFails, SessionLock, Handles, BeginRemoval, sessionVars
  <2>3. KernelState'  BY <1>17 DEF FileFails, KernelState, SessionLock, Handles, BeginRemoval, sessionVars
  <2> QED  BY <2>1, <2>2, <2>3 DEF Sessions
<1>18. ASSUME NEW r \in Runs, EndRun(r) PROVE Sessions'
  <2>1. Handles'  BY <1>18 DEF EndRun, Handles, slotVars
  <2>2. SessionLock'  BY <1>18 DEF EndRun, SessionLock, Handles, BeginRemoval, sessionVars
  <2>3. KernelState'  BY <1>18 DEF EndRun, KernelState, SessionLock, Handles, BeginRemoval, sessionVars
  <2> QED  BY <2>1, <2>2, <2>3 DEF Sessions
<1>19. ASSUME NEW r \in Runs, BeginClear(r) PROVE Sessions'
  <2>1. Handles'  BY <1>19 DEF BeginClear, Handles, slotVars
  <2>2. SessionLock'  BY <1>19 DEF BeginClear, SessionLock, Handles, BeginRemoval, sessionVars
  <2>3. KernelState'  BY <1>19 DEF BeginClear, KernelState, SessionLock, Handles, BeginRemoval, sessionVars
  <2> QED  BY <2>1, <2>2, <2>3 DEF Sessions
<1>20. ASSUME NEW r \in Runs, NEW sl \in Slots, Clear(r, sl) PROVE Sessions'
  <2>1. Handles'
    <3>1. r \in users[sl] /\ pc[r] = "want" /\ handle' = [handle EXCEPT ![r] = cached[sl]]
      BY <1>20 DEF Clear, Granted
    <3>2. cached[sl] # None => RunOf[cached[sl]] = r /\ handle[cached[sl]] = cached[sl]
      BY <3>1, CachedByRun DEF Handles
    <3>3. cached' = [cached EXCEPT ![sl] = None]
      BY <1>20 DEF Clear
    <3>4. PICK place \in {"take", "cleared"} :
             /\ pc' = [pc EXCEPT ![r] = place]
             /\ place = "take" => cached[sl] # None
      BY <1>20 DEF Clear
    <3> QED  BY <3>1, <3>2, <3>3, <3>4 DEF Handles
  <2>2. SessionLock'  BY <1>20 DEF Clear, SessionLock, Handles, BeginRemoval, sessionVars
  <2>3. KernelState'  BY <1>20 DEF Clear, KernelState, SessionLock, Handles, BeginRemoval, sessionVars
  <2> QED  BY <2>1, <2>2, <2>3 DEF Sessions
<1>21. ASSUME NEW r \in Runs, NEW sl \in Slots, ClearLocks(r, sl) PROVE Sessions'
  <2> DEFINE s == handle[r]
  <2>1. pc[r] = "take" /\ s \in Calls /\ handle[s] = s /\ guard[s] = None /\ UNCHANGED handle
    BY <1>21 DEF ClearLocks, Handles
  <2>2. CASE /\ guard' = [guard EXCEPT ![s] = r] /\ BeginRemoval(s) /\ GoTo(r, "remove")
             /\ UNCHANGED slotVars
    <3> HIDE DEF s
    <3>0. s = handle[r]  BY DEF s
    <3>1. Handles'  BY <2>1, <2>2, <3>0 DEF Handles, slotVars
    <3>2. SessionLock'  BY <2>1, <2>2, <3>0 DEF SessionLock
    <3>3. KernelState'
      BY <2>1, <2>2, <3>0 DEF KernelState, Handles, BeginRemoval, SessionLock
    <3> QED  BY <3>1, <3>2, <3>3 DEF Sessions
  <2>3. CASE LeaveSlot(r, sl, None) /\ GoTo(r, "cleared") /\ UNCHANGED sessionVars
    <3>1. cached' = [cached EXCEPT ![sl] = None]
      BY <2>3
    <3>2. Handles'  BY <2>1, <2>3, <3>1 DEF Handles
    <3>3. SessionLock'  BY <2>1, <2>3 DEF SessionLock, sessionVars
    <3>4. KernelState'  BY <2>1, <2>3 DEF KernelState, sessionVars
    <3> QED  BY <3>2, <3>3, <3>4 DEF Sessions
  <2> QED  BY <1>21, <2>2, <2>3 DEF ClearLocks
<1>22. ASSUME NEW r \in Runs, NEW sl \in Slots, ClearRemoved(r, sl) PROVE Sessions'
  <2>1. Handles'  BY <1>22 DEF ClearRemoved, Handles, slotVars
  <2>2. SessionLock'  BY <1>22 DEF ClearRemoved, SessionLock, Handles, BeginRemoval, sessionVars
  <2>3. KernelState'  BY <1>22 DEF ClearRemoved, KernelState, SessionLock, Handles, BeginRemoval, sessionVars
  <2> QED  BY <2>1, <2>2, <2>3 DEF Sessions
<1>23. ASSUME NEW a \in Tasks, NEW sl \in Slots, CancelInSlot(a, sl) PROVE Sessions'
  <2>1. Handles'  BY <1>23 DEF CancelInSlot, Handles, slotVars
  <2>2. SessionLock'  BY <1>23 DEF CancelInSlot, SessionLock, Handles, BeginRemoval, sessionVars
  <2>3. KernelState'  BY <1>23 DEF CancelInSlot, KernelState, SessionLock, Handles, BeginRemoval, sessionVars
  <2> QED  BY <2>1, <2>2, <2>3 DEF Sessions
<1>24. ASSUME NEW a \in Tasks, CancelRemoval(a) PROVE Sessions'
  <2>1. Handles'  BY <1>24 DEF CancelRemoval, Handles, slotVars
  <2>2. SessionLock'  BY <1>24 DEF CancelRemoval, SessionLock, Handles, BeginRemoval, sessionVars
  <2>3. KernelState'  BY <1>24 DEF CancelRemoval, KernelState, SessionLock, Handles, BeginRemoval, sessionVars
  <2> QED  BY <2>1, <2>2, <2>3 DEF Sessions
<1>25. ASSUME NEW c \in Calls, CancelPlain(c) PROVE Sessions'
  <2>1. Handles'  BY <1>25 DEF CancelPlain, Handles, slotVars
  <2>2. SessionLock'  BY <1>25 DEF CancelPlain, SessionLock, Handles, BeginRemoval, sessionVars
  <2>3. KernelState'  BY <1>25 DEF CancelPlain, KernelState, SessionLock, Handles, BeginRemoval, sessionVars
  <2> QED  BY <2>1, <2>2, <2>3 DEF Sessions
<1>26. ASSUME NEW c \in Calls, CancelBoot(c) PROVE Sessions'
  <2>1. Handles'  BY <1>26 DEF CancelBoot, Handles, slotVars
  <2>2. SessionLock'  BY <1>26 DEF CancelBoot, SessionLock, Handles, BeginRemoval, sessionVars
  <2>3. KernelState'  BY <1>26 DEF CancelBoot, KernelState, SessionLock, Handles, BeginRemoval, sessionVars
  <2> QED  BY <2>1, <2>2, <2>3 DEF Sessions
<1>27. ASSUME NEW c \in CellCalls, CancelCell(c) PROVE Sessions'
  <2>1. Handles'  BY <1>27 DEF CancelCell, Handles, slotVars
  <2>2. SessionLock'  BY <1>27 DEF CancelCell, SessionLock, Handles, BeginRemoval, sessionVars
  <2>3. KernelState'  BY <1>27 DEF CancelCell, KernelState, SessionLock, Handles, BeginRemoval, sessionVars
  <2> QED  BY <2>1, <2>2, <2>3 DEF Sessions
<1>28. ASSUME NEW c \in Calls, RemovalEnds(c) PROVE Sessions'
  <2>1. Handles'  BY <1>28 DEF RemovalEnds, Handles, slotVars
  <2>2. SessionLock'  BY <1>28 DEF RemovalEnds, SessionLock, Handles, BeginRemoval, sessionVars
  <2>3. KernelState'  BY <1>28 DEF RemovalEnds, KernelState, SessionLock, Handles, BeginRemoval, sessionVars
  <2> QED  BY <2>1, <2>2, <2>3 DEF Sessions
<1>29. ASSUME NEW c \in Calls, OrphanCreated(c) PROVE Sessions'
  <2>1. Handles'  BY <1>29 DEF OrphanCreated, Handles, slotVars
  <2>2. SessionLock'  BY <1>29 DEF OrphanCreated, SessionLock, Handles, BeginRemoval, sessionVars
  <2>3. KernelState'  BY <1>29 DEF OrphanCreated, KernelState, SessionLock, Handles, BeginRemoval, sessionVars
  <2> QED  BY <2>1, <2>2, <2>3 DEF Sessions
<1>30. CASE UNCHANGED vars
  BY <1>30 DEF vars, slotVars, sessionVars, Sessions, Handles, SessionLock, KernelState
<1>31. ASSUME NEW c \in FileCalls, BeginClone(c) PROVE Sessions'
  <2>1. Handles'  BY <1>31 DEF BeginClone, Handles, slotVars
  <2>2. SessionLock'  BY <1>31 DEF BeginClone, SessionLock, Handles, sessionVars
  <2>3. KernelState'  BY <1>31 DEF BeginClone, KernelState, Handles, sessionVars
  <2> QED  BY <2>1, <2>2, <2>3 DEF Sessions
<1>32. ASSUME NEW c \in FileCalls, Downloaded(c) PROVE Sessions'
  <2>1. Handles'  BY <1>32 DEF Downloaded, Handles
  <2>2. SessionLock'  BY <1>32 DEF Downloaded, SessionLock, Handles, sessionVars
  <2>3. KernelState'  BY <1>32 DEF Downloaded, KernelState, Handles, sessionVars
  <2> QED  BY <2>1, <2>2, <2>3 DEF Sessions
<1> QED
  BY <1>1, <1>2, <1>3, <1>4, <1>5, <1>6, <1>7, <1>8, <1>9, <1>10, <1>11, <1>12, <1>13, <1>14, <1>14r, <1>15, <1>16, <1>17, <1>18, <1>19, <1>20, <1>21, <1>22, <1>23, <1>24, <1>25, <1>26, <1>27, <1>28, <1>29, <1>30,
     <1>31, <1>32
     DEF Next, CallStep, CellStep, FileStep, ClearStep, Cancel, DockerStep


(***************************************************************************)
(* One kernel per run.  Only a step that empties or fills a slot, revives  *)
(* or hands out a session, or ends a cleanup could break it.               *)
(***************************************************************************)
\* A slot loses its registration only when it caches nothing.
LEMMA LeaveKeepsKernel ==
    ASSUME IInv, NEW a \in Tasks, NEW sl \in Slots, NEW place \in Places \ InSlot,
           NEW entry \in {None, cached[sl]},
           a \in users[sl], LeaveSlot(a, sl, entry), GoTo(a, place),
           entry # cached[sl] => kernel[cached[sl]] # "live",
           pc[a] = "take" => place = "cancelled" \/ kernel[handle[a]] # "live",
           UNCHANGED <<handle, kernel>>
    PROVE  OneKernel'
<1>0. Typed /\ TypeOK /\ SlotCount /\ SlotKeys /\ SlotLock /\ OneKernel
  BY DEF IInv, Typed
<1> SUFFICES ASSUME NEW c \in Calls, handle'[c] # None, kernel'[handle'[c]] = "live",
                    pc'[RunOf[c]] # "cancelled"
             PROVE  \/ pc'[RunOf[c]] = "take" /\ handle'[RunOf[c]] = handle'[c]
                    \/ slotOf'[RunOf[c]] # None /\ cached'[slotOf'[RunOf[c]]] = handle'[c]
  BY DEF OneKernel
<1> DEFINE r == RunOf[c]
<1>1. r \in Runs /\ handle[c] # None /\ kernel[handle[c]] = "live" /\ handle' = handle
  BY <1>0
<1>2. pc[r] # "cancelled" \/ a = r
  BY <1>0, <1>1 DEF GoTo, TypeOK
<1>3. pc[r] # "cancelled"
  BY <1>0, <1>1, <1>2 DEF SlotCount, InSlot, Waiting, Creating, Clearing
<1>4. CASE pc[r] = "take" /\ handle[r] = handle[c]
  BY <1>0, <1>1, <1>4 DEF GoTo, TypeOK
<1>5. CASE slotOf[r] # None /\ cached[slotOf[r]] = handle[c]
  <2>1. slotOf[Owner(a)] = sl  BY <1>0 DEF SlotCount
  <2>2. cached'[slotOf[r]] = handle[c]
    BY <1>0, <1>1, <1>5 DEF LeaveSlot, TypeOK
  <2>3. slotOf'[r] = slotOf[r]
    BY <1>0, <1>1, <1>5, <2>1, <2>2, OwnerType DEF LeaveSlot, TypeOK, SlotKeys
  <2> QED  BY <1>1, <1>5, <2>2, <2>3
<1> QED  BY <1>0, <1>1, <1>3, <1>4, <1>5 DEF OneKernel

LEMMA KernelStep == IInv /\ Next => OneKernel'
<1> SUFFICES ASSUME IInv, Next PROVE OneKernel'
  OBVIOUS
<1>0. TypeOK /\ Typed /\ Slotted /\ Handles /\ SessionLock /\ KernelState /\ OneKernel
      /\ SlotCount /\ SlotKeys /\ SlotLock
  BY DEF IInv, Typed, Slotted
<1>a. \A r \in Runs : Owner(r) = r  BY DEF Owner
<1>b. \A c \in Calls : Owner(c) = RunOf[c]  BY DEF Owner
<1> USE <1>0, <1>a, <1>b
<1> USE DEF Waiting, Creating, InCell, Clearing, Ended, Places, InSlot, Holding, GoTo, TypeOK
<1>1. ASSUME NEW c \in Calls, Begin(c) PROVE OneKernel'
  BY <1>1 DEF Begin, OneKernel, EnterSlot, BeginRemoval, slotVars, sessionVars, Typed
<1>2. ASSUME NEW c \in Calls, NEW sl \in Slots, ReuseSession(c, sl) PROVE OneKernel'
  <2> DEFINE s == cached[sl]
  <2>1. /\ c \in users[sl] /\ slotOf[RunOf[c]] = sl /\ s # None
        /\ UNCHANGED kernel /\ handle' = [handle EXCEPT ![c] = s]
    BY <1>2 DEF ReuseSession, Granted, SlotCount, sessionVars
  <2>2. UNCHANGED <<slotOf, cached>>
    <3>1. ASSUME LeaveSlot(c, sl, s) PROVE UNCHANGED <<slotOf, cached>>
      BY <2>1, <3>1 DEF LeaveSlot
    <3> QED  BY <1>2, <3>1 DEF ReuseSession, slotVars
  <2>3. PICK place \in AfterSession(c, s) : pc' = [pc EXCEPT ![c] = place]
    BY <1>2 DEF ReuseSession
  <2> HIDE DEF s
  <2>4. \A r \in Runs : pc'[r] = pc[r] /\ handle'[r] = handle[r]
    BY <2>1, <2>3
  <2>5. cached[slotOf[RunOf[c]]] = s
    BY <2>1 DEF s
  <2> QED  BY <2>1, <2>2, <2>4, <2>5 DEF OneKernel
<1>3. ASSUME NEW c \in Calls, NEW sl \in Slots, StartSession(c, sl) PROVE OneKernel'
  BY <1>3 DEF StartSession, OneKernel, EnterSlot, BeginRemoval, slotVars, sessionVars, Typed
<1>4. ASSUME NEW c \in Calls, NEW sl \in Slots, CreateFails(c, sl) PROVE OneKernel'
  BY <1>4, HolderInside, CachedByRun, LeaveKeepsKernel DEF CreateFails, KernelState, SlotLock, Granted
<1>5. ASSUME NEW c \in Calls, Created(c) PROVE OneKernel'
  <2>1. /\ handle[c] = None /\ UNCHANGED <<slotOf, cached, handle>>
        /\ kernel' = [kernel EXCEPT ![c] = "live"]
    BY <1>5 DEF Created, Handles, slotVars
  <2>2. \A d \in Calls : handle[d] # c
    BY <2>1 DEF Handles
  <2>3. \A r \in Runs : pc'[r] = pc[r]
    BY <1>5 DEF Created
  <2>4. \A d \in Calls : handle[d] # None => kernel'[handle[d]] = kernel[handle[d]]
    BY <2>1, <2>2
  <2> QED  BY <2>1, <2>3, <2>4 DEF OneKernel
<1>6. ASSUME NEW c \in Calls, NEW sl \in Slots, Booted(c, sl) PROVE OneKernel'
  <2>1. /\ pc[c] = "boot" /\ holder[sl] = c /\ UNCHANGED kernel
        /\ handle' = [handle EXCEPT ![c] = c] /\ LeaveSlot(c, sl, c)
    BY <1>6 DEF Booted, sessionVars
  <2>2. slotOf[RunOf[c]] = sl /\ cached[sl] = None /\ sl \in Slots
    BY <2>1, HolderInside DEF SlotCount
  <2>3. \A r \in Runs : pc'[r] = pc[r]
    BY <1>6 DEF Booted
  <2>4. slotOf' = slotOf /\ cached' = [cached EXCEPT ![sl] = c]
    BY <2>1 DEF LeaveSlot
  <2>5. pc[RunOf[c]] # "take"
    BY <2>1, <2>2 DEF SlotLock
  <2>6. ASSUME NEW d \in Calls, RunOf[d] = RunOf[c], handle[d] # None,
               kernel[handle[d]] = "live", pc[RunOf[d]] # "cancelled"
        PROVE  FALSE
    BY <2>2, <2>5, <2>6 DEF OneKernel
  <2>7. \A d \in Calls : RunOf[d] # RunOf[c] /\ slotOf[RunOf[d]] # None => slotOf[RunOf[d]] # sl
    BY <2>2 DEF SlotKeys
  <2>8. cached'[slotOf'[RunOf[c]]] = c /\ slotOf'[RunOf[c]] # None
    BY <2>2, <2>4
  <2> SUFFICES ASSUME NEW d \in Calls, handle'[d] # None, kernel'[handle'[d]] = "live",
                      pc'[RunOf[d]] # "cancelled"
               PROVE  \/ pc'[RunOf[d]] = "take" /\ handle'[RunOf[d]] = handle'[d]
                      \/ slotOf'[RunOf[d]] # None /\ cached'[slotOf'[RunOf[d]]] = handle'[d]
    BY DEF OneKernel
  <2>9. CASE d = c
    BY <2>1, <2>8, <2>9
  <2>10. CASE d # c
    <3>1. handle'[d] = handle[d] /\ handle'[RunOf[d]] = handle[RunOf[d]]
      BY <2>1, <2>10
    <3>2. RunOf[d] # RunOf[c]
      BY <2>1, <2>3, <2>6, <3>1
    <3>3. \/ pc[RunOf[d]] = "take" /\ handle[RunOf[d]] = handle[d]
          \/ slotOf[RunOf[d]] # None /\ cached[slotOf[RunOf[d]]] = handle[d]
      BY <2>1, <2>3, <3>1 DEF OneKernel
    <3> QED  BY <2>3, <2>4, <2>7, <3>1, <3>2, <3>3
  <2> QED  BY <2>9, <2>10
<1>7. ASSUME NEW c \in Calls, BootFails(c) PROVE OneKernel'
  BY <1>7 DEF BootFails, OneKernel, EnterSlot, BeginRemoval, slotVars, sessionVars, Typed
<1>8. ASSUME NEW c \in Calls, LogsRead(c) PROVE OneKernel'
  BY <1>8 DEF LogsRead, OneKernel, EnterSlot, BeginRemoval, slotVars, sessionVars, Typed
<1>9. ASSUME NEW c \in Calls, NEW sl \in Slots, Unbooted(c, sl) PROVE OneKernel'
  <2>1. PICK place \in {"raised", "cancelled"} : GoTo(c, place)
    BY <1>9 DEF Unbooted
  <2>2. /\ holder[sl] = c /\ LeaveSlot(c, sl, cached[sl]) /\ UNCHANGED <<handle, kernel>>
        /\ pc[c] # "take"
    BY <1>9 DEF Unbooted
  <2>3. c \in users[sl]  BY <2>2, HolderInside
  <2> QED  BY <2>1, <2>2, <2>3, LeaveKeepsKernel
<1>10. ASSUME NEW c \in CellCalls, LockSession(c) PROVE OneKernel'
  BY <1>10 DEF LockSession, OneKernel, EnterSlot, BeginRemoval, slotVars, sessionVars, Typed
<1>11. ASSUME NEW c \in CellCalls, CellReturns(c) PROVE OneKernel'
  BY <1>11 DEF CellReturns, OneKernel, EnterSlot, BeginRemoval, slotVars, sessionVars, Typed
<1>12. ASSUME NEW c \in CellCalls, CellFails(c) PROVE OneKernel'
  BY <1>12 DEF CellFails, OneKernel, EnterSlot, BeginRemoval, slotVars, sessionVars, Typed
<1>13. ASSUME NEW c \in CellCalls, CellFailed(c) PROVE OneKernel'
  BY <1>13 DEF CellFailed, OneKernel, EnterSlot, BeginRemoval, slotVars, sessionVars, Typed
<1>14. ASSUME NEW c \in CellCalls, CellCancelled(c) PROVE OneKernel'
  BY <1>14 DEF CellCancelled, OneKernel, EnterSlot, BeginRemoval, slotVars, sessionVars, Typed
<1>14r. ASSUME NEW c \in CellCalls, CellRaises(c) PROVE OneKernel'
  BY <1>14r DEF CellRaises, OneKernel, EnterSlot, BeginRemoval, slotVars, sessionVars, Typed
<1>15. ASSUME NEW c \in Calls, NEW sl \in Slots, Forget(c, sl) PROVE OneKernel'
  <2> DEFINE entry == IF cached[sl] = handle[c] THEN None ELSE cached[sl]
  <2>1. /\ c \in users[sl] /\ pc[c] = "forget" /\ GoTo(c, "reset") /\ LeaveSlot(c, sl, entry)
        /\ UNCHANGED <<handle, kernel>>
    BY <1>15 DEF Forget, Granted, sessionVars
  <2>2. kernel[handle[c]] # "live"  BY <2>1 DEF KernelState
  <2>3. entry \in {None, cached[sl]} /\ (entry # cached[sl] => kernel[cached[sl]] # "live")
    BY <2>2
  <2> HIDE DEF entry
  <2> QED  BY <2>1, <2>3, LeaveKeepsKernel
<1>16. ASSUME NEW c \in FileCalls, FileMoved(c) PROVE OneKernel'
  BY <1>16 DEF FileMoved, OneKernel, EnterSlot, BeginRemoval, slotVars, sessionVars, Typed
<1>17. ASSUME NEW c \in FileCalls, FileFails(c) PROVE OneKernel'
  BY <1>17 DEF FileFails, OneKernel, EnterSlot, BeginRemoval, slotVars, sessionVars, Typed
<1>18. ASSUME NEW r \in Runs, EndRun(r) PROVE OneKernel'
  BY <1>18 DEF EndRun, OneKernel, EnterSlot, BeginRemoval, slotVars, sessionVars, Typed
<1>19. ASSUME NEW r \in Runs, BeginClear(r) PROVE OneKernel'
  BY <1>19 DEF BeginClear, OneKernel, EnterSlot, BeginRemoval, slotVars, sessionVars, Typed
<1>20. ASSUME NEW r \in Runs, NEW sl \in Slots, Clear(r, sl) PROVE OneKernel'
  <2>1. /\ r \in users[sl] /\ pc[r] = "want" /\ holder[sl] = None
        /\ handle' = [handle EXCEPT ![r] = cached[sl]] /\ UNCHANGED kernel
    BY <1>20 DEF Clear, Granted, sessionVars
  <2>2. slotOf[r] = sl  BY <2>1 DEF SlotCount
  <2>3. \A c \in Calls : handle'[c] = handle[c]  BY <2>1
  <2>4. \A q \in Runs \ {r} : handle'[q] = handle[q] /\ pc'[q] = pc[q]
    BY <1>20, <2>1 DEF Clear
  <2>5. cached' = [cached EXCEPT ![sl] = None]
    BY <1>20, LeaveCached DEF Clear
  <2>6. \A q \in Runs \ {r} : slotOf'[q] = slotOf[q] /\ (slotOf[q] # None => slotOf[q] # sl)
    BY <1>20, <2>2 DEF Clear, LeaveSlot, SlotKeys
  <2>7. ASSUME NEW c \in Calls, RunOf[c] = r, handle[c] # None, kernel[handle[c]] = "live"
        PROVE  cached[sl] = handle[c]
    BY <2>1, <2>2, <2>7 DEF OneKernel
  <2>8. ASSUME NEW c \in Calls, RunOf[c] = r, handle[c] # None, kernel[handle[c]] = "live"
        PROVE  pc'[r] = "take" /\ handle'[r] = handle[c]
    BY <1>20, <2>1, <2>7, <2>8 DEF Clear
  <2>9. ASSUME NEW c \in Calls, RunOf[c] # r, handle[c] # None, kernel[handle[c]] = "live",
               pc[RunOf[c]] # "cancelled"
        PROVE  \/ pc'[RunOf[c]] = "take" /\ handle'[RunOf[c]] = handle'[c]
               \/ slotOf'[RunOf[c]] # None /\ cached'[slotOf'[RunOf[c]]] = handle'[c]
    BY <2>3, <2>4, <2>5, <2>6, <2>9 DEF OneKernel
  <2> QED  BY <2>1, <2>3, <2>4, <2>8, <2>9 DEF OneKernel
<1>21. ASSUME NEW r \in Runs, NEW sl \in Slots, ClearLocks(r, sl) PROVE OneKernel'
  <2>1. pc[r] = "take" /\ holder[sl] = r /\ UNCHANGED handle
    BY <1>21 DEF ClearLocks
  <2>2. CASE BeginRemoval(handle[r]) /\ GoTo(r, "remove") /\ UNCHANGED slotVars
    BY <2>1, <2>2 DEF BeginRemoval, slotVars, OneKernel
  <2>3. CASE LeaveSlot(r, sl, None) /\ GoTo(r, "cleared") /\ kernel[handle[r]] # "live"
             /\ UNCHANGED kernel
    <3>1. r \in users[sl] /\ cached[sl] = None  BY <2>1, HolderInside
    <3> QED  BY <2>1, <2>3, <3>1, LeaveKeepsKernel
  <2> QED  BY <1>21, <2>2, <2>3 DEF ClearLocks, sessionVars
<1>22. ASSUME NEW r \in Runs, NEW sl \in Slots, ClearRemoved(r, sl) PROVE OneKernel'
  <2>1. PICK place \in {"raised", "cleared", "cancelled"} : GoTo(r, place)
    BY <1>22 DEF ClearRemoved
  <2>2. /\ holder[sl] = r /\ LeaveSlot(r, sl, None) /\ UNCHANGED <<handle, kernel>>
        /\ pc[r] # "take"
    BY <1>22 DEF ClearRemoved
  <2>3. r \in users[sl] /\ cached[sl] = None  BY <2>2, HolderInside
  <2> QED  BY <2>1, <2>2, <2>3, LeaveKeepsKernel
<1>23. ASSUME NEW a \in Tasks, NEW sl \in Slots, CancelInSlot(a, sl) PROVE OneKernel'
  <2>1. /\ a \in users[sl] /\ LeaveSlot(a, sl, cached[sl]) /\ GoTo(a, "cancelled")
        /\ UNCHANGED <<handle, kernel>>
    BY <1>23 DEF CancelInSlot, sessionVars
  <2> QED  BY <2>1, LeaveKeepsKernel
<1>24. ASSUME NEW a \in Tasks, CancelRemoval(a) PROVE OneKernel'
  BY <1>24 DEF CancelRemoval, OneKernel, EnterSlot, BeginRemoval, slotVars, sessionVars, Typed
<1>25. ASSUME NEW c \in Calls, CancelPlain(c) PROVE OneKernel'
  BY <1>25 DEF CancelPlain, OneKernel, EnterSlot, BeginRemoval, slotVars, sessionVars, Typed
<1>26. ASSUME NEW c \in Calls, CancelBoot(c) PROVE OneKernel'
  BY <1>26 DEF CancelBoot, OneKernel, EnterSlot, BeginRemoval, slotVars, sessionVars, Typed
<1>27. ASSUME NEW c \in CellCalls, CancelCell(c) PROVE OneKernel'
  BY <1>27 DEF CancelCell, OneKernel, EnterSlot, BeginRemoval, slotVars, sessionVars, Typed
<1>28. ASSUME NEW c \in Calls, RemovalEnds(c) PROVE OneKernel'
  BY <1>28 DEF RemovalEnds, OneKernel, EnterSlot, BeginRemoval, slotVars, sessionVars, Typed
<1>29. ASSUME NEW c \in Calls, OrphanCreated(c) PROVE OneKernel'
  BY <1>29 DEF OrphanCreated, OneKernel, EnterSlot, BeginRemoval, slotVars, sessionVars, Typed
<1>30. CASE UNCHANGED vars
  BY <1>30 DEF vars, slotVars, sessionVars, OneKernel
<1>31. ASSUME NEW c \in FileCalls, BeginClone(c) PROVE OneKernel'
  BY <1>31 DEF BeginClone, OneKernel, slotVars, sessionVars, Typed
<1>32. ASSUME NEW c \in FileCalls, Downloaded(c) PROVE OneKernel'
  BY <1>32 DEF Downloaded, OneKernel, EnterSlot, sessionVars, Typed
<1> QED
  BY <1>1, <1>2, <1>3, <1>4, <1>5, <1>6, <1>7, <1>8, <1>9, <1>10, <1>11, <1>12, <1>13, <1>14, <1>14r, <1>15, <1>16, <1>17, <1>18, <1>19, <1>20, <1>21, <1>22, <1>23, <1>24, <1>25, <1>26, <1>27, <1>28, <1>29, <1>30,
     <1>31, <1>32
     DEF Next, CallStep, CellStep, FileStep, ClearStep, Cancel, DockerStep


(***************************************************************************)
(* The theorems.                                                           *)
(***************************************************************************)
LEMMA IInvInit == Init => IInv
<1> SUFFICES ASSUME Init PROVE IInv
  OBVIOUS
<1>1. Typed  BY TypedInit
<1>2. SlotCount /\ SlotKeys /\ SlotLock
  BY OwnerType DEF Init, SlotCount, SlotKeys, SlotLock, InSlot, Holding, Waiting, Creating, Clearing
<1>3. Handles /\ SessionLock /\ KernelState /\ OneKernel
  BY DEF Init, Handles, SessionLock, KernelState, OneKernel, Guarding, Unbooting,
     InCell, Clearing, Creating
<1> QED  BY <1>1, <1>2, <1>3 DEF IInv

LEMMA IInvStep == IInv /\ [Next]_vars => IInv'
<1>1. IInv /\ Next => IInv'
  BY TypedStep, SlottedStep, SessionsStep, KernelStep DEF IInv, Slotted, Sessions
<1>2. IInv /\ UNCHANGED vars => IInv'
  <2> SUFFICES ASSUME IInv, UNCHANGED vars PROVE IInv'
    OBVIOUS
  <2>1. Typed'  BY TypedStep DEF IInv
  <2>2. (SlotCount /\ SlotKeys /\ SlotLock)'
    BY DEF IInv, vars, slotVars, SlotCount, SlotKeys, SlotLock
  <2>3. (Handles /\ SessionLock /\ KernelState /\ OneKernel)'
    BY DEF IInv, vars, slotVars, sessionVars, Handles, SessionLock, KernelState, OneKernel
  <2> QED  BY <2>1, <2>2, <2>3 DEF IInv
<1> QED  BY <1>1, <1>2

\* The inductive invariant: who is counted in a slot, who holds which lock, who
\* was given which session, and which kernels are alive.
THEOREM Inductive == Spec => []IInv
  BY IInvInit, IInvStep, PTL DEF Spec

\* The tasks of a run that use its slot use the same slot, and so the same
\* lock: the refcount never drops a slot under a waiter.
THEOREM SlotsAlwaysAgree == Spec => []SlotsAgree
<1>1. IInv => SlotsAgree
  BY DEF IInv, SlotCount, SlotsAgree
<1> QED  BY <1>1, Inductive, PTL

\* Calls of one run never work on two live kernels: what a cell defines, the
\* next cell of the run sees, and the cleanup knows which session to destroy.
THEOREM OneKernelPerRun == Spec => []OneKernel
<1>1. IInv => OneKernel
  BY DEF IInv
<1> QED  BY <1>1, Inductive, PTL

\* A cell only ever runs in a live kernel, and alone in it.
THEOREM CellsAreSerial == Spec => []OneCellPerLiveKernel
<1>1. IInv => OneCellPerLiveKernel
  <2> SUFFICES ASSUME IInv, NEW c \in CellCalls, pc[c] = "cell"
               PROVE  /\ kernel[handle[c]] = "live"
                      /\ \A d \in CellCalls \ {c} : pc[d] \in InCell => handle[d] # handle[c]
    BY DEF OneCellPerLiveKernel
  <2>1. kernel[handle[c]] = "live"
    BY DEF IInv, KernelState
  <2>2. ASSUME NEW d \in CellCalls \ {c}, pc[d] \in InCell, handle[d] = handle[c]
        PROVE  FALSE
    BY <2>2 DEF IInv, SessionLock, Guarding, InCell
  <2> QED  BY <2>1, <2>2
<1> QED  BY <1>1, Inductive, PTL

\* No task is ever given a session of another run: kernel state does not leak
\* from one mention into the next.
THEOREM RunsStayApart == Spec => []RunsApart
<1>1. IInv => RunsApart
  BY DEF IInv, Handles, RunsApart
<1> QED  BY <1>1, Inductive, PTL

=============================================================================
