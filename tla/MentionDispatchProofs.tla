------------------------- MODULE MentionDispatchProofs -------------------------
(***************************************************************************)
(* Proofs, for any number of deliveries, events, threads and crashes, that *)
(* an event gets one reply, a thread one agent at a time, and that what a  *)
(* thread shows agrees with the audit log and the channel snapshot; that   *)
(* MentionDispatch implements ThreadReplies; and, of ThreadKernels, that   *)
(* a live kernel has a run to take it down.                                *)
(***************************************************************************)
EXTENDS ThreadKernels, TLAPS

USE DispatchAssumption

\* Places of a delivery whose reservation succeeded.
Running == {"post", "posted", "queued", "update", "chunks", "done", "lost"} \cup InLock
Started(d) == pc[d] \in Running \/ shown[d] # "none"

\* Whoever started a run owns the row of its event.
Reservations ==
    /\ \A d \in Deliveries : Started(d) => EventOf[d] \in reserved
    /\ \A d, e \in Deliveries :
          EventOf[d] = EventOf[e] /\ Started(d) /\ Started(e) => d = e

\* Only the head of a thread's queue is past the lock.
Locking == \A d \in Deliveries : pc[d] \in InLock => HasLock(d)

\* A reply that is not over has a chunk to post.
Remaining == \A d \in Deliveries : pc[d] = "chunks" => left[d] > 0

\* The placeholder stays as it is until the run is over; the rest of a reply
\* follows an answer.
Placeholder ==
    \A d \in Deliveries :
        /\ pc[d] \in {"idle", "reserve", "post"} => shown[d] = "none"
        /\ pc[d] \in {"posted", "queued", "update"} \cup InLock => shown[d] = "working"
        /\ pc[d] = "chunks" => shown[d] \in {"ok", "stopped"}

\* What the audit log and the snapshot know of a run that is still to be shown.
Records ==
    \A d \in Deliveries :
        /\ pc[d] = "update" /\ result[d] \in {"ok", "stopped"} => audit[d] = result[d]
        /\ pc[d] \in {"idle", "reserve", "post", "posted", "queued"} \cup InLock => audit[d] = "none"
        /\ pc[d] = "refresh" => result[d] = "ok"
        /\ pc[d] \in {"cleanup", "audit", "update"} => result[d] # "none"
        /\ pc[d] \in {"cleanup", "audit", "update"} /\ result[d] = "ok" => d \in refreshed
        /\ d \in refreshed =>
              /\ pc[d] \notin {"idle", "reserve", "post", "posted", "queued", "fetch", "agent"}
              /\ result[d] # "stopped"

IInv == TypeOK /\ Reservations /\ Locking /\ Remaining /\ Placeholder /\ Records
            /\ AnswerIsAudited /\ SnapshotFollowsAnswer

LEMMA ThreadType == \A d \in Deliveries : Thread(d) \in Threads
  BY DEF Thread

LEMMA QueueTypes ==
    ASSUME TypeOK, NEW d \in Deliveries
    PROVE  /\ Append(queue[Thread(d)], d) \in Seq(Deliveries)
           /\ HasLock(d) => Tail(queue[Thread(d)]) \in Seq(Deliveries)
  BY ThreadType DEF TypeOK, HasLock

LEMMA AppendHead ==
    ASSUME NEW S, NEW q \in Seq(S), NEW x \in S, q # <<>>
    PROVE  Append(q, x) # <<>> /\ Head(Append(q, x)) = Head(q)
<1>1. Len(q) \in Nat \ {0}  OBVIOUS
<1>2. Len(Append(q, x)) = Len(q) + 1 /\ Append(q, x)[1] = q[1]  BY <1>1
<1> QED  BY <1>1, <1>2

LEMMA IInvInit == Init => IInv
  BY DEF Init, IInv, TypeOK, Reservations, Started, Running, Locking, InLock, Remaining, Placeholder,
     Records, AnswerIsAudited, SnapshotFollowsAnswer, Places, Results, Over

(***************************************************************************)
(* Type correctness needs that a released lock was held and that a posted   *)
(* chunk was left.                                                          *)
(***************************************************************************)
Queued == TypeOK /\ Locking /\ Remaining

LEMMA TypeStep == Queued /\ [Next]_vars => TypeOK'
<1> SUFFICES ASSUME Queued, [Next]_vars PROVE TypeOK'
  OBVIOUS
<1>0. TypeOK /\ Locking /\ Remaining  BY DEF Queued
<1> USE <1>0, ThreadType, QueueTypes
<1> USE DEF TypeOK, GoTo, SetResult, Release, Places, InLock, Over, Results, storeVars, slackVars
<1>1. ASSUME NEW d \in Deliveries, Arrive(d) PROVE TypeOK'
  BY <1>1 DEF Arrive
<1>2. ASSUME NEW d \in Deliveries, Dispatch(d) PROVE TypeOK'
  <2>1. CASE Reserve(d)  BY <2>1 DEF Reserve
  <2>2. CASE ReserveFails(d)  BY <2>2 DEF ReserveFails
  <2>3. CASE PostPlaceholder(d)  BY <2>3 DEF PostPlaceholder
  <2>4. CASE StartRun(d)  BY <2>4 DEF StartRun
  <2>5. CASE PostFails(d)  BY <2>5 DEF PostFails
  <2> QED  BY <1>2, <2>1, <2>2, <2>3, <2>4, <2>5 DEF Dispatch
<1>3. ASSUME NEW d \in Deliveries, Request(d) PROVE TypeOK'
  <2>1. CASE ConfigLoaded(d)  BY <2>1 DEF ConfigLoaded
  <2>2. CASE LoadFails(d)  BY <2>2 DEF LoadFails
  <2>3. CASE Fetched(d)  BY <2>3 DEF Fetched
  <2>4. CASE AgentEnds(d)
    <3>1. PICK r \in {"ok", "stopped"} :
             /\ result' = [result EXCEPT ![d] = r]
             /\ pc' = [pc EXCEPT ![d] = IF r = "ok" THEN "refresh" ELSE "cleanup"]
      BY <2>4 DEF AgentEnds
    <3> QED  BY <2>4, <3>1 DEF AgentEnds
  <2>5. CASE Refreshed(d)  BY <2>5 DEF Refreshed
  <2>6. CASE RefreshFails(d)  BY <2>6 DEF RefreshFails
  <2>7. CASE CleanedUp(d)  BY <2>7 DEF CleanedUp
  <2>8. CASE CleanupFails(d)  BY <2>8 DEF CleanupFails, Locking
  <2>9. CASE Audited(d)  BY <2>9 DEF Audited, Locking
  <2>10. CASE AuditFails(d)  BY <2>10 DEF AuditFails, Locking
  <2> QED  BY <1>3, <2>1, <2>2, <2>3, <2>4, <2>5, <2>6, <2>7, <2>8, <2>9, <2>10 DEF Request
<1>4. ASSUME NEW d \in Deliveries, Reply(d) PROVE TypeOK'
  <2>1. CASE UpdatePlaceholder(d)
    <3>0. (IF result[d] = "error" THEN {0} ELSE 0 .. MaxChunks) \subseteq 0 .. MaxChunks
      OBVIOUS
    <3>1. PICK n \in 0 .. MaxChunks :
             /\ left' = [left EXCEPT ![d] = n]
             /\ GoTo(d, IF n = 0 THEN "done" ELSE "chunks")
      BY <2>1, <3>0 DEF UpdatePlaceholder
    <3> QED  BY <2>1, <3>1 DEF UpdatePlaceholder
  <2>2. CASE PostChunk(d)
    <3>1. Append(posts[Thread(d)], d) \in Seq(Deliveries)
      OBVIOUS
    <3>2. left[d] - 1 \in 0 .. MaxChunks
      BY <2>2 DEF PostChunk, Remaining
    <3> QED  BY <2>2, <3>1, <3>2 DEF PostChunk
  <2>3. CASE UpdateFails(d)  BY <2>3 DEF UpdateFails
  <2>4. CASE ChunkFails(d)
    <3>1. Append(posts[Thread(d)], d) \in Seq(Deliveries)
      OBVIOUS
    <3> QED  BY <2>4, <3>1 DEF ChunkFails
  <2> QED  BY <1>4, <2>1, <2>2, <2>3, <2>4 DEF Reply
<1>5. CASE Crash
  BY <1>5 DEF Crash
<1>6. CASE UNCHANGED vars
  BY <1>6 DEF vars, taskVars
<1> QED  BY <1>1, <1>2, <1>3, <1>4, <1>5, <1>6 DEF Next

(***************************************************************************)
(* One event, one run; one thread, one agent; one step per action.         *)
(***************************************************************************)
Exclusive == Reservations /\ Locking /\ Remaining /\ Placeholder

\* A step after which nobody has started who had not leaves Reservations alone.
LEMMA NobodyStarts ==
    ASSUME Reservations, reserved \subseteq reserved',
           \A e \in Deliveries : Started(e)' => Started(e)
    PROVE  Reservations'
  BY DEF Reservations

\* The delivery that reserves an event is the first of it to start.
LEMMA ReserveStarts ==
    ASSUME TypeOK, Reservations, Placeholder, NEW d \in Deliveries, Reserve(d)
    PROVE  Reservations'
<1>1. /\ reserved' = reserved \cup {EventOf[d]} /\ pc[d] = "reserve" /\ shown' = shown
      /\ pc' = [pc EXCEPT ![d] = IF EventOf[d] \in reserved THEN "duplicate" ELSE "post"]
  BY DEF Reserve, GoTo, slackVars
<1>2. \A e \in Deliveries : e # d => pc'[e] = pc[e]
  BY <1>1 DEF TypeOK
<1>3. \A e \in Deliveries : e # d /\ Started(e)' => Started(e)
  BY <1>1, <1>2 DEF Started
<1>4. Started(d)' => EventOf[d] \notin reserved
  <2>1. shown'[d] = "none"
    BY <1>1 DEF Placeholder
  <2>2. EventOf[d] \in reserved => pc'[d] = "duplicate"
    BY <1>1 DEF TypeOK
  <2> QED  BY <2>1, <2>2 DEF Started, Running, InLock
<1>5. \A e \in Deliveries : Started(e)' => EventOf[e] \in reserved'
  BY <1>1, <1>3 DEF Reservations
<1>6. ASSUME NEW e \in Deliveries, NEW f \in Deliveries,
             EventOf[e] = EventOf[f], Started(e)', Started(f)'
      PROVE  e = f
  BY <1>3, <1>4, <1>6 DEF Reservations
<1> QED  BY <1>5, <1>6 DEF Reservations

LEMMA ExclusiveStep == IInv /\ Next => Exclusive'
<1> SUFFICES ASSUME IInv, Next PROVE Exclusive'
  OBVIOUS
<1>0. TypeOK /\ Reservations /\ Locking /\ Remaining /\ Placeholder  BY DEF IInv
<1> USE <1>0, ThreadType
<1> USE DEF Reservations, Locking, Remaining, Placeholder, Started, Running, InLock,
        HasLock, Release, GoTo, SetResult, TypeOK, storeVars, slackVars
<1>1. ASSUME NEW d \in Deliveries, Arrive(d) PROVE Exclusive'
  <2>1. Reservations'
    <3>1. \A e \in Deliveries : Started(e)' => Started(e)  BY <1>1 DEF Arrive
    <3>2. reserved \subseteq reserved'  BY <1>1 DEF Arrive
    <3> QED  BY <3>1, <3>2, NobodyStarts
  <2>2. Locking'  BY <1>1 DEF Arrive
  <2>3. Remaining'  BY <1>1 DEF Arrive
  <2>4. Placeholder'  BY <1>1 DEF Arrive
  <2> QED  BY <2>1, <2>2, <2>3, <2>4 DEF Exclusive
<1>2. ASSUME NEW d \in Deliveries, Reserve(d) PROVE Exclusive'
  <2>1. Reservations'  BY <1>2, ReserveStarts
  <2>2. Locking'  BY <1>2 DEF Reserve
  <2>3. Remaining'  BY <1>2 DEF Reserve
  <2>4. Placeholder'  BY <1>2 DEF Reserve
  <2> QED  BY <2>1, <2>2, <2>3, <2>4 DEF Exclusive
<1>3. ASSUME NEW d \in Deliveries, ReserveFails(d) PROVE Exclusive'
  <2>1. Reservations'
    <3>1. \A e \in Deliveries : Started(e)' => Started(e)  BY <1>3 DEF ReserveFails
    <3>2. reserved \subseteq reserved'  BY <1>3 DEF ReserveFails
    <3> QED  BY <3>1, <3>2, NobodyStarts
  <2>2. Locking'  BY <1>3 DEF ReserveFails
  <2>3. Remaining'  BY <1>3 DEF ReserveFails
  <2>4. Placeholder'  BY <1>3 DEF ReserveFails
  <2> QED  BY <2>1, <2>2, <2>3, <2>4 DEF Exclusive
<1>4. ASSUME NEW d \in Deliveries, PostPlaceholder(d) PROVE Exclusive'
  <2>1. Reservations'
    <3>1. \A e \in Deliveries : Started(e)' => Started(e)  BY <1>4 DEF PostPlaceholder
    <3>2. reserved \subseteq reserved'  BY <1>4 DEF PostPlaceholder
    <3> QED  BY <3>1, <3>2, NobodyStarts
  <2>2. Locking'  BY <1>4 DEF PostPlaceholder
  <2>3. Remaining'  BY <1>4 DEF PostPlaceholder
  <2>4. Placeholder'  BY <1>4 DEF PostPlaceholder
  <2> QED  BY <2>1, <2>2, <2>3, <2>4 DEF Exclusive
<1>21. ASSUME NEW d \in Deliveries, StartRun(d) PROVE Exclusive'
  <2>1. Reservations'
    <3>1. \A e \in Deliveries : Started(e)' => Started(e)  BY <1>21 DEF StartRun
    <3>2. reserved \subseteq reserved'  BY <1>21 DEF StartRun
    <3> QED  BY <3>1, <3>2, NobodyStarts
  <2>0. /\ pc' = [pc EXCEPT ![d] = "queued"]
        /\ queue' = [queue EXCEPT ![Thread(d)] = Append(@, d)]
    BY <1>21 DEF StartRun
  <2>2. Locking'
    <3>1. SUFFICES ASSUME NEW e \in Deliveries, pc'[e] \in InLock PROVE HasLock(e)'
      BY DEF Locking
    <3>2. pc[e] \in InLock  BY <2>0, <3>1
    <3>3. queue[Thread(e)] # <<>> /\ Head(queue[Thread(e)]) = e
      BY <3>2 DEF Locking, HasLock
    <3>4. CASE Thread(e) = Thread(d)
      <4>1. queue'[Thread(e)] = Append(queue[Thread(e)], d)
        BY <2>0, <3>4
      <4>2. queue[Thread(e)] \in Seq(Deliveries) /\ Len(queue[Thread(e)]) > 0
        BY <3>3
      <4>3. queue'[Thread(e)] # <<>> /\ Head(queue'[Thread(e)]) = e
        <5>1. queue[Thread(e)] # <<>> /\ queue[Thread(e)] \in Seq(Deliveries)
          BY <3>3, <4>2
        <5>2. /\ Append(queue[Thread(e)], d) # <<>>
              /\ Head(Append(queue[Thread(e)], d)) = Head(queue[Thread(e)])
          BY <5>1, AppendHead
        <5> QED  BY <3>3, <4>1, <5>2
      <4> QED  BY <4>3 DEF Thread
    <3>5. CASE Thread(e) # Thread(d)
      BY <2>0, <3>3, <3>5 DEF Thread
    <3> QED  BY <3>4, <3>5
  <2>3. Remaining'  BY <1>21 DEF StartRun
  <2>4. Placeholder'  BY <1>21 DEF StartRun
  <2> QED  BY <2>1, <2>2, <2>3, <2>4 DEF Exclusive
<1>5. ASSUME NEW d \in Deliveries, PostFails(d) PROVE Exclusive'
  <2>1. Reservations'
    <3>1. \A e \in Deliveries : Started(e)' => Started(e)  BY <1>5 DEF PostFails
    <3>2. reserved \subseteq reserved'  BY <1>5 DEF PostFails
    <3> QED  BY <3>1, <3>2, NobodyStarts
  <2>2. Locking'  BY <1>5 DEF PostFails
  <2>3. Remaining'  BY <1>5 DEF PostFails
  <2>4. Placeholder'  BY <1>5 DEF PostFails
  <2> QED  BY <2>1, <2>2, <2>3, <2>4 DEF Exclusive
<1>6. ASSUME NEW d \in Deliveries, ConfigLoaded(d) PROVE Exclusive'
  <2>1. Reservations'
    <3>1. \A e \in Deliveries : Started(e)' => Started(e)  BY <1>6 DEF ConfigLoaded
    <3>2. reserved \subseteq reserved'  BY <1>6 DEF ConfigLoaded
    <3> QED  BY <3>1, <3>2, NobodyStarts
  <2>2. Locking'  BY <1>6 DEF ConfigLoaded
  <2>3. Remaining'  BY <1>6 DEF ConfigLoaded
  <2>4. Placeholder'  BY <1>6 DEF ConfigLoaded
  <2> QED  BY <2>1, <2>2, <2>3, <2>4 DEF Exclusive
<1>7. ASSUME NEW d \in Deliveries, LoadFails(d) PROVE Exclusive'
  <2>1. Reservations'
    <3>1. \A e \in Deliveries : Started(e)' => Started(e)  BY <1>7 DEF LoadFails
    <3>2. reserved \subseteq reserved'  BY <1>7 DEF LoadFails
    <3> QED  BY <3>1, <3>2, NobodyStarts
  <2>2. Locking'  BY <1>7 DEF LoadFails
  <2>3. Remaining'  BY <1>7 DEF LoadFails
  <2>4. Placeholder'  BY <1>7 DEF LoadFails
  <2> QED  BY <2>1, <2>2, <2>3, <2>4 DEF Exclusive
<1>8. ASSUME NEW d \in Deliveries, Fetched(d) PROVE Exclusive'
  <2>1. Reservations'
    <3>1. \A e \in Deliveries : Started(e)' => Started(e)  BY <1>8 DEF Fetched
    <3>2. reserved \subseteq reserved'  BY <1>8 DEF Fetched
    <3> QED  BY <3>1, <3>2, NobodyStarts
  <2>2. Locking'  BY <1>8 DEF Fetched
  <2>3. Remaining'  BY <1>8 DEF Fetched
  <2>4. Placeholder'  BY <1>8 DEF Fetched
  <2> QED  BY <2>1, <2>2, <2>3, <2>4 DEF Exclusive
<1>9. ASSUME NEW d \in Deliveries, AgentEnds(d) PROVE Exclusive'
  <2>0. PICK place \in {"refresh", "cleanup"} :
           /\ pc[d] = "agent" /\ pc' = [pc EXCEPT ![d] = place]
           /\ UNCHANGED <<reserved, shown>>
    BY <1>9 DEF AgentEnds
  <2>1. Reservations'
    <3>1. \A e \in Deliveries : Started(e)' => Started(e)  BY <2>0
    <3>2. reserved \subseteq reserved'  BY <2>0
    <3> QED  BY <3>1, <3>2, NobodyStarts
  <2>2. Locking'  BY <1>9 DEF AgentEnds
  <2>3. Remaining'  BY <1>9 DEF AgentEnds
  <2>4. Placeholder'  BY <1>9 DEF AgentEnds
  <2> QED  BY <2>1, <2>2, <2>3, <2>4 DEF Exclusive
<1>10. ASSUME NEW d \in Deliveries, Refreshed(d) PROVE Exclusive'
  <2>1. Reservations'
    <3>1. \A e \in Deliveries : Started(e)' => Started(e)  BY <1>10 DEF Refreshed
    <3>2. reserved \subseteq reserved'  BY <1>10 DEF Refreshed
    <3> QED  BY <3>1, <3>2, NobodyStarts
  <2>2. Locking'  BY <1>10 DEF Refreshed
  <2>3. Remaining'  BY <1>10 DEF Refreshed
  <2>4. Placeholder'  BY <1>10 DEF Refreshed
  <2> QED  BY <2>1, <2>2, <2>3, <2>4 DEF Exclusive
<1>11. ASSUME NEW d \in Deliveries, RefreshFails(d) PROVE Exclusive'
  <2>1. Reservations'
    <3>1. \A e \in Deliveries : Started(e)' => Started(e)  BY <1>11 DEF RefreshFails
    <3>2. reserved \subseteq reserved'  BY <1>11 DEF RefreshFails
    <3> QED  BY <3>1, <3>2, NobodyStarts
  <2>2. Locking'  BY <1>11 DEF RefreshFails
  <2>3. Remaining'  BY <1>11 DEF RefreshFails
  <2>4. Placeholder'  BY <1>11 DEF RefreshFails
  <2> QED  BY <2>1, <2>2, <2>3, <2>4 DEF Exclusive
<1>12. ASSUME NEW d \in Deliveries, CleanedUp(d) PROVE Exclusive'
  <2>1. Reservations'
    <3>1. \A e \in Deliveries : Started(e)' => Started(e)  BY <1>12 DEF CleanedUp
    <3>2. reserved \subseteq reserved'  BY <1>12 DEF CleanedUp
    <3> QED  BY <3>1, <3>2, NobodyStarts
  <2>2. Locking'  BY <1>12 DEF CleanedUp
  <2>3. Remaining'  BY <1>12 DEF CleanedUp
  <2>4. Placeholder'  BY <1>12 DEF CleanedUp
  <2> QED  BY <2>1, <2>2, <2>3, <2>4 DEF Exclusive
<1>13. ASSUME NEW d \in Deliveries, CleanupFails(d) PROVE Exclusive'
  <2>1. Reservations'
    <3>1. \A e \in Deliveries : Started(e)' => Started(e)  BY <1>13 DEF CleanupFails
    <3>2. reserved \subseteq reserved'  BY <1>13 DEF CleanupFails
    <3> QED  BY <3>1, <3>2, NobodyStarts
  <2>2. Locking'  BY <1>13 DEF CleanupFails
  <2>3. Remaining'  BY <1>13 DEF CleanupFails
  <2>4. Placeholder'  BY <1>13 DEF CleanupFails
  <2> QED  BY <2>1, <2>2, <2>3, <2>4 DEF Exclusive
<1>14. ASSUME NEW d \in Deliveries, Audited(d) PROVE Exclusive'
  <2>1. Reservations'
    <3>1. \A e \in Deliveries : Started(e)' => Started(e)  BY <1>14 DEF Audited
    <3>2. reserved \subseteq reserved'  BY <1>14 DEF Audited
    <3> QED  BY <3>1, <3>2, NobodyStarts
  <2>2. Locking'  BY <1>14 DEF Audited
  <2>3. Remaining'  BY <1>14 DEF Audited
  <2>4. Placeholder'  BY <1>14 DEF Audited
  <2> QED  BY <2>1, <2>2, <2>3, <2>4 DEF Exclusive
<1>15. ASSUME NEW d \in Deliveries, AuditFails(d) PROVE Exclusive'
  <2>0. pc[d] = "audit" /\ pc' = [pc EXCEPT ![d] = "update"] /\ UNCHANGED <<reserved, shown>>
    BY <1>15 DEF AuditFails
  <2>1. Reservations'
    <3>1. \A e \in Deliveries : Started(e)' => Started(e)  BY <2>0
    <3>2. reserved \subseteq reserved'  BY <2>0
    <3> QED  BY <3>1, <3>2, NobodyStarts
  <2>2. Locking'  BY <1>15 DEF AuditFails
  <2>3. Remaining'  BY <1>15 DEF AuditFails
  <2>4. Placeholder'  BY <1>15 DEF AuditFails
  <2> QED  BY <2>1, <2>2, <2>3, <2>4 DEF Exclusive
<1>16. ASSUME NEW d \in Deliveries, UpdatePlaceholder(d) PROVE Exclusive'
  <2>1. Reservations'
    <3>1. \A e \in Deliveries : Started(e)' => Started(e)  BY <1>16 DEF UpdatePlaceholder
    <3>2. reserved \subseteq reserved'  BY <1>16 DEF UpdatePlaceholder
    <3> QED  BY <3>1, <3>2, NobodyStarts
  <2>2. Locking'  BY <1>16 DEF UpdatePlaceholder
  <2>3. Remaining'  BY <1>16 DEF UpdatePlaceholder
  <2>4. Placeholder'
    <3>1. result[d] \in {"ok", "stopped", "error"}
      BY <1>16 DEF UpdatePlaceholder, IInv, Records, Results
    <3>2. pc' = [pc EXCEPT ![d] = pc'[d]] /\ shown' = [shown EXCEPT ![d] = result[d]]
      BY <1>16 DEF UpdatePlaceholder
    <3>3. pc'[d] = "done" \/ (pc'[d] = "chunks" /\ result[d] # "error")
      BY <1>16 DEF UpdatePlaceholder
    <3> QED  BY <3>1, <3>2, <3>3
  <2> QED  BY <2>1, <2>2, <2>3, <2>4 DEF Exclusive
<1>17. ASSUME NEW d \in Deliveries, PostChunk(d) PROVE Exclusive'
  <2>0. PICK place \in {"done", "chunks"} :
           /\ pc[d] = "chunks" /\ pc' = [pc EXCEPT ![d] = place]
           /\ UNCHANGED <<reserved, shown>>
    BY <1>17 DEF PostChunk
  <2>1. Reservations'
    <3>1. \A e \in Deliveries : Started(e)' => Started(e)  BY <2>0
    <3>2. reserved \subseteq reserved'  BY <2>0
    <3> QED  BY <3>1, <3>2, NobodyStarts
  <2>2. Locking'  BY <1>17 DEF PostChunk
  <2>3. Remaining'  BY <1>17 DEF PostChunk
  <2>4. Placeholder'  BY <1>17 DEF PostChunk
  <2> QED  BY <2>1, <2>2, <2>3, <2>4 DEF Exclusive
<1>18. ASSUME NEW d \in Deliveries, UpdateFails(d) PROVE Exclusive'
  <2>1. Reservations'
    <3>1. \A e \in Deliveries : Started(e)' => Started(e)  BY <1>18 DEF UpdateFails
    <3>2. reserved \subseteq reserved'  BY <1>18 DEF UpdateFails
    <3> QED  BY <3>1, <3>2, NobodyStarts
  <2>2. Locking'  BY <1>18 DEF UpdateFails
  <2>3. Remaining'  BY <1>18 DEF UpdateFails
  <2>4. Placeholder'  BY <1>18 DEF UpdateFails
  <2> QED  BY <2>1, <2>2, <2>3, <2>4 DEF Exclusive
<1>22. ASSUME NEW d \in Deliveries, ChunkFails(d) PROVE Exclusive'
  <2>1. Reservations'
    <3>1. \A e \in Deliveries : Started(e)' => Started(e)  BY <1>22 DEF ChunkFails
    <3>2. reserved \subseteq reserved'  BY <1>22 DEF ChunkFails
    <3> QED  BY <3>1, <3>2, NobodyStarts
  <2>2. Locking'  BY <1>22 DEF ChunkFails
  <2>3. Remaining'  BY <1>22 DEF ChunkFails
  <2>4. Placeholder'  BY <1>22 DEF ChunkFails
  <2> QED  BY <2>1, <2>2, <2>3, <2>4 DEF Exclusive
<1>19. CASE Crash
  <2>1. Reservations'
    <3>1. \A e \in Deliveries : Started(e)' => Started(e)  BY <1>19 DEF Crash, Over
    <3>2. reserved \subseteq reserved'  BY <1>19 DEF Crash, Over
    <3> QED  BY <3>1, <3>2, NobodyStarts
  <2>2. Locking'  BY <1>19 DEF Crash, Over
  <2>3. Remaining'  BY <1>19 DEF Crash, Over
  <2>4. Placeholder'  BY <1>19 DEF Crash, Over
  <2> QED  BY <2>1, <2>2, <2>3, <2>4 DEF Exclusive
<1>20. CASE UNCHANGED vars
  BY <1>20 DEF vars, taskVars, Exclusive
<1> QED
  BY <1>1, <1>2, <1>3, <1>4, <1>5, <1>6, <1>7, <1>8, <1>9, <1>10, <1>11, <1>12, <1>13, <1>14, <1>15, <1>16, <1>17, <1>18, <1>19, <1>20, <1>21, <1>22
     DEF Next, Dispatch, Request, Reply

(***************************************************************************)
(* What is shown, audited and remembered.                                  *)
(***************************************************************************)
Recorded == Records /\ AnswerIsAudited /\ SnapshotFollowsAnswer

LEMMA RecordedStep == IInv /\ Next => Recorded'
<1> SUFFICES ASSUME IInv, Next PROVE Recorded'
  OBVIOUS
<1>0. TypeOK /\ Placeholder /\ Records /\ AnswerIsAudited /\ SnapshotFollowsAnswer
  BY DEF IInv
<1> USE <1>0
<1> USE DEF Records, AnswerIsAudited, SnapshotFollowsAnswer, Placeholder, InLock,
        GoTo, SetResult, TypeOK, storeVars, slackVars
<1>1. ASSUME NEW d \in Deliveries, Arrive(d) PROVE Recorded'
  <2>1. Records'  BY <1>1 DEF Arrive
  <2>2. AnswerIsAudited'  BY <1>1 DEF Arrive
  <2>3. SnapshotFollowsAnswer'  BY <1>1 DEF Arrive
  <2> QED  BY <2>1, <2>2, <2>3 DEF Recorded
<1>2. ASSUME NEW d \in Deliveries, Reserve(d) PROVE Recorded'
  <2>1. Records'  BY <1>2 DEF Reserve
  <2>2. AnswerIsAudited'  BY <1>2 DEF Reserve
  <2>3. SnapshotFollowsAnswer'  BY <1>2 DEF Reserve
  <2> QED  BY <2>1, <2>2, <2>3 DEF Recorded
<1>3. ASSUME NEW d \in Deliveries, ReserveFails(d) PROVE Recorded'
  <2>1. Records'  BY <1>3 DEF ReserveFails
  <2>2. AnswerIsAudited'  BY <1>3 DEF ReserveFails
  <2>3. SnapshotFollowsAnswer'  BY <1>3 DEF ReserveFails
  <2> QED  BY <2>1, <2>2, <2>3 DEF Recorded
<1>4. ASSUME NEW d \in Deliveries, PostPlaceholder(d) PROVE Recorded'
  <2>1. Records'  BY <1>4 DEF PostPlaceholder
  <2>2. AnswerIsAudited'  BY <1>4 DEF PostPlaceholder
  <2>3. SnapshotFollowsAnswer'  BY <1>4 DEF PostPlaceholder
  <2> QED  BY <2>1, <2>2, <2>3 DEF Recorded
<1>21. ASSUME NEW d \in Deliveries, StartRun(d) PROVE Recorded'
  <2>1. Records'  BY <1>21 DEF StartRun
  <2>2. AnswerIsAudited'  BY <1>21 DEF StartRun
  <2>3. SnapshotFollowsAnswer'  BY <1>21 DEF StartRun
  <2> QED  BY <2>1, <2>2, <2>3 DEF Recorded
<1>5. ASSUME NEW d \in Deliveries, PostFails(d) PROVE Recorded'
  <2>1. Records'  BY <1>5 DEF PostFails
  <2>2. AnswerIsAudited'  BY <1>5 DEF PostFails
  <2>3. SnapshotFollowsAnswer'  BY <1>5 DEF PostFails
  <2> QED  BY <2>1, <2>2, <2>3 DEF Recorded
<1>6. ASSUME NEW d \in Deliveries, ConfigLoaded(d) PROVE Recorded'
  <2>1. Records'  BY <1>6 DEF ConfigLoaded
  <2>2. AnswerIsAudited'  BY <1>6 DEF ConfigLoaded
  <2>3. SnapshotFollowsAnswer'  BY <1>6 DEF ConfigLoaded
  <2> QED  BY <2>1, <2>2, <2>3 DEF Recorded
<1>7. ASSUME NEW d \in Deliveries, LoadFails(d) PROVE Recorded'
  <2>1. Records'  BY <1>7 DEF LoadFails
  <2>2. AnswerIsAudited'  BY <1>7 DEF LoadFails
  <2>3. SnapshotFollowsAnswer'  BY <1>7 DEF LoadFails
  <2> QED  BY <2>1, <2>2, <2>3 DEF Recorded
<1>8. ASSUME NEW d \in Deliveries, Fetched(d) PROVE Recorded'
  <2>1. Records'  BY <1>8 DEF Fetched
  <2>2. AnswerIsAudited'  BY <1>8 DEF Fetched
  <2>3. SnapshotFollowsAnswer'  BY <1>8 DEF Fetched
  <2> QED  BY <2>1, <2>2, <2>3 DEF Recorded
<1>9. ASSUME NEW d \in Deliveries, AgentEnds(d) PROVE Recorded'
  <2>1. Records'  BY <1>9 DEF AgentEnds
  <2>2. AnswerIsAudited'  BY <1>9 DEF AgentEnds
  <2>3. SnapshotFollowsAnswer'  BY <1>9 DEF AgentEnds
  <2> QED  BY <2>1, <2>2, <2>3 DEF Recorded
<1>10. ASSUME NEW d \in Deliveries, Refreshed(d) PROVE Recorded'
  <2>1. Records'  BY <1>10 DEF Refreshed
  <2>2. AnswerIsAudited'  BY <1>10 DEF Refreshed
  <2>0. shown[d] = "working" /\ audit[d] = "none"
    BY <1>10 DEF Refreshed
  <2>3. SnapshotFollowsAnswer'  BY <1>10, <2>0 DEF Refreshed
  <2> QED  BY <2>1, <2>2, <2>3 DEF Recorded
<1>11. ASSUME NEW d \in Deliveries, RefreshFails(d) PROVE Recorded'
  <2>1. Records'  BY <1>11 DEF RefreshFails
  <2>2. AnswerIsAudited'  BY <1>11 DEF RefreshFails
  <2>0. shown[d] = "working" /\ audit[d] = "none"
    BY <1>11 DEF RefreshFails
  <2>3. SnapshotFollowsAnswer'  BY <1>11, <2>0 DEF RefreshFails
  <2> QED  BY <2>1, <2>2, <2>3 DEF Recorded
<1>12. ASSUME NEW d \in Deliveries, CleanedUp(d) PROVE Recorded'
  <2>1. Records'  BY <1>12 DEF CleanedUp
  <2>2. AnswerIsAudited'  BY <1>12 DEF CleanedUp
  <2>3. SnapshotFollowsAnswer'  BY <1>12 DEF CleanedUp
  <2> QED  BY <2>1, <2>2, <2>3 DEF Recorded
<1>13. ASSUME NEW d \in Deliveries, CleanupFails(d) PROVE Recorded'
  <2>1. Records'  BY <1>13 DEF CleanupFails
  <2>2. AnswerIsAudited'  BY <1>13 DEF CleanupFails
  <2>3. SnapshotFollowsAnswer'  BY <1>13 DEF CleanupFails
  <2> QED  BY <2>1, <2>2, <2>3 DEF Recorded
<1>14. ASSUME NEW d \in Deliveries, Audited(d) PROVE Recorded'
  <2>1. Records'  BY <1>14 DEF Audited
  <2>2. AnswerIsAudited'  BY <1>14 DEF Audited
  <2>3. SnapshotFollowsAnswer'  BY <1>14 DEF Audited
  <2> QED  BY <2>1, <2>2, <2>3 DEF Recorded
<1>15. ASSUME NEW d \in Deliveries, AuditFails(d) PROVE Recorded'
  <2>1. Records'  BY <1>15 DEF AuditFails
  <2>2. AnswerIsAudited'  BY <1>15 DEF AuditFails
  <2>3. SnapshotFollowsAnswer'  BY <1>15 DEF AuditFails
  <2> QED  BY <2>1, <2>2, <2>3 DEF Recorded
<1>16. ASSUME NEW d \in Deliveries, UpdatePlaceholder(d) PROVE Recorded'
  <2>1. Records'  BY <1>16 DEF UpdatePlaceholder
  <2>2. AnswerIsAudited'  BY <1>16 DEF UpdatePlaceholder
  <2>3. SnapshotFollowsAnswer'  BY <1>16 DEF UpdatePlaceholder
  <2> QED  BY <2>1, <2>2, <2>3 DEF Recorded
<1>17. ASSUME NEW d \in Deliveries, PostChunk(d) PROVE Recorded'
  <2>1. Records'  BY <1>17 DEF PostChunk
  <2>2. AnswerIsAudited'  BY <1>17 DEF PostChunk
  <2>3. SnapshotFollowsAnswer'  BY <1>17 DEF PostChunk
  <2> QED  BY <2>1, <2>2, <2>3 DEF Recorded
<1>18. ASSUME NEW d \in Deliveries, UpdateFails(d) PROVE Recorded'
  <2>1. Records'  BY <1>18 DEF UpdateFails
  <2>2. AnswerIsAudited'  BY <1>18 DEF UpdateFails
  <2>3. SnapshotFollowsAnswer'  BY <1>18 DEF UpdateFails
  <2> QED  BY <2>1, <2>2, <2>3 DEF Recorded
<1>22. ASSUME NEW d \in Deliveries, ChunkFails(d) PROVE Recorded'
  <2>1. Records'  BY <1>22 DEF ChunkFails
  <2>2. AnswerIsAudited'  BY <1>22 DEF ChunkFails
  <2>3. SnapshotFollowsAnswer'  BY <1>22 DEF ChunkFails
  <2> QED  BY <2>1, <2>2, <2>3 DEF Recorded
<1>19. CASE Crash
  <2>1. Records'  BY <1>19 DEF Crash, Over
  <2>2. AnswerIsAudited' /\ SnapshotFollowsAnswer'  BY <1>19 DEF Crash
  <2> QED  BY <2>1, <2>2 DEF Recorded
<1>20. CASE UNCHANGED vars
  BY <1>20 DEF vars, taskVars, Recorded
<1> QED
  BY <1>1, <1>2, <1>3, <1>4, <1>5, <1>6, <1>7, <1>8, <1>9, <1>10, <1>11, <1>12, <1>13, <1>14, <1>15, <1>16, <1>17, <1>18, <1>19, <1>20, <1>21, <1>22
     DEF Next, Dispatch, Request, Reply

(***************************************************************************)
(* The theorems.                                                           *)
(***************************************************************************)
LEMMA IInvStep == IInv /\ [Next]_vars => IInv'
<1>1. IInv /\ Next => IInv'
  BY TypeStep, ExclusiveStep, RecordedStep DEF IInv, Queued, Exclusive, Recorded
<1>2. IInv /\ UNCHANGED vars => IInv'
  BY DEF IInv, vars, taskVars, storeVars, slackVars, TypeOK, Reservations, Started,
     Locking, HasLock, Remaining, Placeholder, Records, AnswerIsAudited, SnapshotFollowsAnswer
<1> QED  BY <1>1, <1>2

LEMMA DispatchInductive == Spec => []IInv
  BY IInvInit, IInvStep, PTL DEF Spec

\* Every variable keeps its type.
THEOREM DispatchTypeCorrect == Spec => []TypeOK
<1>1. IInv => TypeOK  BY DEF IInv
<1> QED  BY <1>1, DispatchInductive, PTL

\* However often Slack delivers an event and whenever the process crashes, the
\* event gets one reply at most.
THEOREM OneReplyPerEvent == Spec => []OneRunPerEvent
<1>1. IInv => OneRunPerEvent  BY DEF IInv, Reservations, Started, OneRunPerEvent
<1> QED  BY <1>1, DispatchInductive, PTL

\* Two agents never run in one thread at a time.
THEOREM ThreadsAreSerial == Spec => []ThreadSerial
<1>1. IInv => ThreadSerial  BY DEF IInv, Locking, HasLock, ThreadSerial
<1> QED  BY <1>1, DispatchInductive, PTL

\* Every answer a thread shows is in the audit log.
THEOREM AnswersAreAudited == Spec => []AnswerIsAudited
<1>1. IInv => AnswerIsAudited  BY DEF IInv
<1> QED  BY <1>1, DispatchInductive, PTL

\* Only good answers are remembered, and all that are shown.
THEOREM SnapshotsFollowAnswers == Spec => []SnapshotFollowsAnswer
<1>1. IInv => SnapshotFollowsAnswer  BY DEF IInv
<1> QED  BY <1>1, DispatchInductive, PTL

(***************************************************************************)
(* MentionDispatch implements ThreadReplies.                               *)
(***************************************************************************)

\* A task moves on, its result as it was, without taking or leaving the lock and
\* without an answer: nobody in the thread can tell.
LEMMA MoveUnseen ==
    ASSUME TypeOK, NEW d \in Deliveries, NEW place \in Places, GoTo(d, place),
           pc[d] \in InLock <=> place \in InLock,
           pc[d] \notin {"update", "posted"} /\ place \notin {"update", "posted"},
           \A e \in Deliveries \ {d} : result'[e] = result[e]
    PROVE  Heard' = Heard /\ Answering' = Answering /\ Answers' = Answers
<1>1. \A e \in Deliveries : /\ pc'[e] = IF e = d THEN place ELSE pc[e]
  BY DEF GoTo, TypeOK
<1>2. Answering' = Answering  BY <1>1 DEF Answering
<1>3. Answers' = Answers  BY <1>1 DEF Answers
<1>4. Heard' = Heard  BY <1>1 DEF Heard
<1> QED  BY <1>2, <1>3, <1>4

\* So is a task that moves while a mention is heard, but for that.
LEMMA HeardMoves ==
    ASSUME TypeOK, NEW d \in Deliveries, NEW place \in {"posted", "queued", "dropped"},
           GoTo(d, place), pc[d] \in {"post", "posted"}, UNCHANGED result
    PROVE  /\ Heard' = IF place = "posted" THEN Heard \cup {d} ELSE Heard \ {d}
           /\ Answering' = Answering /\ Answers' = Answers
<1>1. \A e \in Deliveries : /\ pc'[e] = IF e = d THEN place ELSE pc[e]
  BY DEF GoTo, TypeOK
<1>2. Answering' = Answering  BY <1>1 DEF Answering, InLock
<1>3. Answers' = Answers  BY <1>1 DEF Answers
<1>4. Heard' = IF place = "posted" THEN Heard \cup {d} ELSE Heard \ {d}  BY <1>1 DEF Heard
<1> QED  BY <1>2, <1>3, <1>4

\* The lock is taken: its first waiter begins to work.
LEMMA WorkSeen ==
    ASSUME TypeOK, NEW d \in Deliveries, NEW place \in InLock, GoTo(d, place),
           pc[d] \notin {"update", "posted"}, HasLock(d), \A e \in Deliveries \ {d} : result'[e] = result[e],
           UNCHANGED <<queue, storeVars, slackVars>>
    PROVE  Replies!Work(d)
<1>1. \A e \in Deliveries : pc'[e] = IF e = d THEN place ELSE pc[e]
  BY DEF GoTo, TypeOK
<1>2. Answering' = Answering \cup {d}  BY <1>1 DEF Answering
<1>3. Answers' = Answers  BY <1>1 DEF Answers, InLock
<1>4. Heard' = Heard  BY <1>1 DEF Heard, InLock
<1> QED
  BY <1>2, <1>3, <1>4 DEF Replies!Work, Replies!Thread, Thread, HasLock, storeVars, slackVars

\* The lock is released: an answer, with what the log says, is on its way.
LEMMA AnswerSeen ==
    ASSUME IInv, NEW d \in Deliveries, pc[d] \in InLock, GoTo(d, "update"), Release(d),
           NEW verdict \in Replies!Verdicts, result' = [result EXCEPT ![d] = verdict],
           NEW entry \in {"none"} \cup Replies!Verdicts, audit' = [audit EXCEPT ![d] = entry],
           verdict # "error" => entry = verdict,
           verdict = "ok" => d \in refreshed, verdict = "stopped" => d \notin refreshed,
           UNCHANGED <<refreshed, slackVars>>
    PROVE  Replies!Answer(d, verdict)
<1>0. TypeOK  BY DEF IInv
<1>1. \A e \in Deliveries : /\ pc'[e] = IF e = d THEN "update" ELSE pc[e]
                            /\ result'[e] = IF e = d THEN verdict ELSE result[e]
  BY <1>0 DEF GoTo, TypeOK
<1>2. d \in Answering /\ Answering' = Answering \ {d}  BY <1>1 DEF Answering, InLock
<1>3. Answers' = [Answers EXCEPT ![d] = verdict]  BY <1>1 DEF Answers
<1>4. queue' = [queue EXCEPT ![Replies!Thread(d)] = Tail(@)]
  BY DEF Release, Replies!Thread, Thread
<1>5. Heard' = Heard  BY <1>1 DEF Heard, InLock
<1> QED  BY <1>2, <1>3, <1>4, <1>5 DEF Replies!Answer, slackVars

Seen == Replies!Next \/ UNCHANGED Replies!vars

LEMMA DispatchSeen ==
    ASSUME IInv, NEW d \in Deliveries, Arrive(d) \/ Dispatch(d)
    PROVE  Seen
<1>0. TypeOK /\ Reservations /\ Placeholder  BY DEF IInv
<1>1. ASSUME NEW place \in {"reserve", "duplicate", "post", "dropped"}, GoTo(d, place),
             pc[d] \in {"idle", "reserve", "post"},
             UNCHANGED <<queue, result, audit, refreshed, slackVars>>
      PROVE  Seen
  <2>1. Heard' = Heard /\ Answering' = Answering /\ Answers' = Answers
    <3>1. place \in Places /\ place \notin InLock /\ pc[d] \notin InLock
      BY <1>1 DEF Places, InLock, Over
    <3> QED  BY <1>0, <1>1, <3>1, MoveUnseen
  <2> QED  BY <1>1, <2>1 DEF Seen, Replies!vars, slackVars
<1>2. CASE Arrive(d)  BY <1>1, <1>2 DEF Arrive, storeVars
<1>3. CASE Reserve(d)  BY <1>1, <1>3 DEF Reserve
<1>4. CASE ReserveFails(d)  BY <1>1, <1>4 DEF ReserveFails
<1>5. CASE PostFails(d)
  <2>1. /\ Heard' = Heard \ {d}
        /\ Answering' = Answering /\ Answers' = Answers
    BY <1>0, <1>5, HeardMoves DEF PostFails
  <2>2. CASE d \in Heard
    <3>1. Replies!Miss(d)
      BY <1>5, <2>1, <2>2 DEF PostFails, Replies!Miss, storeVars, slackVars
    <3> QED  BY <3>1 DEF Seen, Replies!Next
  <2>3. CASE d \notin Heard
    BY <1>5, <2>1, <2>3 DEF PostFails, Seen, Replies!vars, storeVars, slackVars
  <2> QED  BY <2>2, <2>3
<1>6. CASE PostPlaceholder(d)
  <2>1. /\ Heard' = Heard \cup {d}
        /\ Answering' = Answering /\ Answers' = Answers
    BY <1>0, <1>6, HeardMoves DEF PostPlaceholder
  <2>2. \A e \in Deliveries : EventOf[e] = EventOf[d] => shown[e] = "none"
    <3> SUFFICES ASSUME NEW e \in Deliveries, EventOf[e] = EventOf[d], shown[e] # "none"
                 PROVE  FALSE
      OBVIOUS
    <3>1. Started(d) /\ Started(e)
      BY <1>6 DEF PostPlaceholder, Started, Running
    <3>2. e = d  BY <1>0, <3>1 DEF Reservations
    <3> QED  BY <1>0, <1>6, <3>2 DEF PostPlaceholder, Placeholder
  <2>3. Replies!Acknowledge(d)
    BY <1>6, <2>1, <2>2 DEF PostPlaceholder, Replies!Acknowledge, storeVars
  <2> QED  BY <2>3 DEF Seen, Replies!Next
<1>7. CASE StartRun(d)
  <2>1. /\ d \in Heard /\ Heard' = Heard \ {d}
        /\ Answering' = Answering /\ Answers' = Answers
    BY <1>0, <1>7, HeardMoves DEF StartRun, Heard
  <2>2. Replies!Join(d)
    BY <1>7, <2>1 DEF StartRun, Replies!Join, Replies!Thread, Thread, storeVars, slackVars
  <2> QED  BY <2>2 DEF Seen, Replies!Next
<1> QED  BY <1>2, <1>3, <1>4, <1>5, <1>6, <1>7 DEF Dispatch

LEMMA RequestSeen ==
    ASSUME IInv, NEW d \in Deliveries, Request(d)
    PROVE  Seen
<1>0. TypeOK /\ Locking /\ Records  BY DEF IInv
<1> USE DEF InLock, Places
\* Inside the lock, and nothing written.
<1>1. ASSUME NEW place \in InLock, GoTo(d, place), pc[d] \in InLock,
             \A e \in Deliveries \ {d} : result'[e] = result[e],
             UNCHANGED <<queue, storeVars, slackVars>>
      PROVE  Seen
  <2>1. Heard' = Heard /\ Answering' = Answering /\ Answers' = Answers
    BY <1>0, <1>1, MoveUnseen
  <2> QED  BY <1>1, <2>1 DEF Seen, Replies!vars, slackVars, storeVars
<1>a. \A r : SetResult(d, r) => \A e \in Deliveries \ {d} : result'[e] = result[e]
  BY <1>0 DEF SetResult, TypeOK
<1>2. CASE ConfigLoaded(d)
  <2>1. Replies!Work(d)  BY <1>0, <1>2, WorkSeen DEF ConfigLoaded
  <2> QED  BY <2>1 DEF Seen, Replies!Next
<1>3. CASE LoadFails(d)
  <2>1. Replies!Work(d)  BY <1>0, <1>3, <1>a, WorkSeen DEF LoadFails
  <2> QED  BY <2>1 DEF Seen, Replies!Next
<1>4. CASE Fetched(d)  BY <1>1, <1>4 DEF Fetched
<1>5. CASE AgentEnds(d)  BY <1>1, <1>5, <1>a DEF AgentEnds
<1>6. CASE Refreshed(d) \/ RefreshFails(d)
  <2>0. /\ pc[d] = "refresh" /\ GoTo(d, "cleanup")
        /\ refreshed' = refreshed \/ refreshed' = refreshed \cup {d}
        /\ \A e \in Deliveries \ {d} : result'[e] = result[e]
        /\ UNCHANGED <<queue, audit, slackVars>>
    BY <1>6, <1>a DEF Refreshed, RefreshFails
  <2>1. Heard' = Heard /\ Answering' = Answering /\ Answers' = Answers
    BY <1>0, <2>0, MoveUnseen
  <2>2. CASE refreshed' = refreshed
    BY <2>0, <2>1, <2>2 DEF Seen, Replies!vars, slackVars
  <2>3. CASE refreshed' = refreshed \cup {d}
    <3>1. d \in Answering  BY <2>0 DEF Answering
    <3>2. Replies!Remember(d)
      BY <2>0, <2>1, <2>3, <3>1 DEF Replies!Remember, slackVars
    <3> QED  BY <3>2 DEF Seen, Replies!Next
  <2> QED  BY <2>0, <2>2, <2>3
<1>7. CASE CleanedUp(d)  BY <1>1, <1>7 DEF CleanedUp
<1>8. CASE CleanupFails(d)
  <2>0. pc[d] = "cleanup" /\ audit[d] = "none" /\ audit = [audit EXCEPT ![d] = "none"]
    BY <1>0, <1>8 DEF CleanupFails, Records, TypeOK
  <2>1. Replies!Answer(d, "error")
    BY <1>8, <2>0, AnswerSeen DEF CleanupFails, SetResult, Replies!Verdicts, storeVars
  <2> QED  BY <2>1 DEF Seen, Replies!Next, Replies!Verdicts
<1>9. CASE Audited(d)
  <2>0. /\ pc[d] = "audit" /\ result = [result EXCEPT ![d] = result[d]]
        /\ result[d] \in Replies!Verdicts
        /\ result[d] = "ok" => d \in refreshed
        /\ result[d] = "stopped" => d \notin refreshed
    BY <1>0, <1>9 DEF Audited, Records, TypeOK, Results, Replies!Verdicts
  <2>1. Replies!Answer(d, result[d])
    BY <1>9, <2>0, AnswerSeen DEF Audited
  <2> QED  BY <2>0, <2>1 DEF Seen, Replies!Next
<1>10. CASE AuditFails(d)
  <2>0. /\ pc[d] = "audit" /\ audit = [audit EXCEPT ![d] = "none"]
        /\ result[d] \in {"none"} \cup Replies!Verdicts
    BY <1>0, <1>10 DEF AuditFails, Records, TypeOK, Results, Replies!Verdicts
  <2>1. PICK entry \in {"none"} \cup Replies!Verdicts : audit' = [audit EXCEPT ![d] = entry]
    BY <1>10, <2>0 DEF AuditFails
  <2>2. Replies!Answer(d, "error")
    BY <1>10, <2>0, <2>1, AnswerSeen DEF AuditFails, SetResult, Replies!Verdicts
  <2> QED  BY <2>2 DEF Seen, Replies!Next, Replies!Verdicts
<1> QED  BY <1>2, <1>3, <1>4, <1>5, <1>6, <1>7, <1>8, <1>9, <1>10, <1>0 DEF Request

LEMMA ReplySeen ==
    ASSUME IInv, NEW d \in Deliveries, Reply(d)
    PROVE  Seen
<1>0. TypeOK /\ Placeholder /\ Records  BY DEF IInv
<1> USE DEF InLock, Places, Over
\* The answer is no longer on its way; it is shown or not.
<1>1. ASSUME NEW place \in {"done", "chunks", "lost"}, GoTo(d, place), pc[d] = "update",
             UNCHANGED <<queue, result, storeVars, posts>>,
             shown' = shown \/ shown' = [shown EXCEPT ![d] = result[d]]
      PROVE  Seen
  <2>1. \A e \in Deliveries : pc'[e] = IF e = d THEN place ELSE pc[e]
    BY <1>0, <1>1 DEF GoTo, TypeOK
  <2>2. Answers[d] = result[d] /\ shown[d] = "working" /\ result[d] # "none"
    BY <1>0, <1>1 DEF Answers, Placeholder, Records
  <2>3. Heard' = Heard /\ Answering' = Answering  BY <1>1, <2>1 DEF Answering, Heard
  <2>4. Answers' = [Answers EXCEPT ![d] = "none"]
    BY <1>1, <2>1 DEF Answers
  <2>5. CASE shown' = shown
    <3>1. Replies!Drop(d)
      BY <1>1, <2>2, <2>3, <2>4, <2>5 DEF Replies!Drop, storeVars
    <3> QED  BY <3>1 DEF Seen, Replies!Next
  <2>6. CASE shown' = [shown EXCEPT ![d] = result[d]]
    <3>1. Replies!Show(d)
      BY <1>1, <2>2, <2>3, <2>4, <2>6 DEF Replies!Show, storeVars
    <3> QED  BY <3>1 DEF Seen, Replies!Next
  <2> QED  BY <1>1, <2>5, <2>6
\* A chunk is posted or not.
<1>2. ASSUME NEW place \in {"done", "chunks", "lost"}, GoTo(d, place), pc[d] = "chunks",
             UNCHANGED <<queue, result, storeVars, shown>>,
             posts' = posts \/ posts' = [posts EXCEPT ![Thread(d)] = Append(@, d)]
      PROVE  Seen
  <2>1. Heard' = Heard /\ Answering' = Answering /\ Answers' = Answers
    BY <1>0, <1>2, MoveUnseen
  <2>2. CASE posts' = posts
    BY <1>2, <2>1, <2>2 DEF Seen, Replies!vars, storeVars
  <2>3. CASE posts' = [posts EXCEPT ![Thread(d)] = Append(@, d)]
    <3>1. Replies!Continue(d)
      BY <1>0, <1>2, <2>1, <2>3
         DEF Placeholder, Replies!Continue, Replies!Thread, Thread, storeVars
    <3> QED  BY <3>1 DEF Seen, Replies!Next
  <2> QED  BY <1>2, <2>2, <2>3
<1>3. CASE UpdatePlaceholder(d)
  <2>1. PICK place \in {"done", "chunks"} : GoTo(d, place)
    BY <1>3 DEF UpdatePlaceholder
  <2> QED  BY <1>1, <1>3, <2>1 DEF UpdatePlaceholder
<1>4. CASE PostChunk(d)
  <2>1. PICK place \in {"done", "chunks"} : GoTo(d, place)
    BY <1>4 DEF PostChunk
  <2> QED  BY <1>2, <1>4, <2>1 DEF PostChunk
<1>5. CASE UpdateFails(d)  BY <1>1, <1>5 DEF UpdateFails
<1>6. CASE ChunkFails(d)  BY <1>2, <1>6 DEF ChunkFails
<1> QED  BY <1>3, <1>4, <1>5, <1>6 DEF Reply

LEMMA CrashSeen ==
    ASSUME IInv, Crash
    PROVE  Seen
<1>0. TypeOK  BY DEF IInv
<1>1. \A d \in Deliveries : pc'[d] \notin InLock \cup {"update", "posted"}
  BY DEF Crash, InLock, Over
<1>2. Heard' = {} /\ Answering' = {} /\ Answers' = [d \in Deliveries |-> "none"]
  BY <1>1 DEF Heard, Answering, Answers
<1>3. Replies!Crash
  BY <1>2 DEF Crash, Replies!Crash, storeVars, slackVars
<1> QED  BY <1>3 DEF Seen, Replies!Next

LEMMA RepliesInit == Init => Replies!Init
  BY DEF Init, Replies!Init, Heard, Answering, Answers, InLock

LEMMA RepliesStep == IInv /\ [Next]_vars => [Replies!Next]_Replies!vars
<1>1. UNCHANGED vars => UNCHANGED Replies!vars
  BY DEF vars, taskVars, storeVars, slackVars, Replies!vars, Heard, Answering, Answers
<1>2. IInv /\ Next => Seen
  BY DispatchSeen, RequestSeen, ReplySeen, CrashSeen, <1>1 DEF Next, Seen
<1> QED  BY <1>1, <1>2 DEF Seen

\* MentionDispatch implements ThreadReplies, for any number of deliveries, events,
\* threads and crashes and with every collaborator failing, Slack also after a call
\* took effect: in a thread mentions are worked on one at a time, in the order in
\* which Slack's responses to their placeholders came back; an event is replied to
\* once at most, and a reply is final and agrees with log and snapshot.
THEOREM RepliesAsPromised == Spec => Refines
  BY RepliesInit, RepliesStep, DispatchInductive, PTL DEF Spec, Refines, Replies!Spec

(***************************************************************************)
(* ThreadKernels: mentions go on as if there were no kernels.              *)
(***************************************************************************)
LEMMA DispatchGoesOn == [SystemNext]_systemVars => [Next]_vars
<1>1. ASSUME NEW d \in Deliveries, Finished(d) \/ Cleared(d) \/ ClearFails(d) PROVE Request(d)
  BY <1>1 DEF Finished, Cleared, ClearFails, Request
<1>2. ASSUME NEW d \in Deliveries, Elsewhere(d) PROVE Dispatch(d) \/ Request(d) \/ Reply(d)
  BY <1>2 DEF Elsewhere, Request
<1>3. ASSUME NEW d \in Deliveries, UseKernel(d) \/ Destroy(d) PROVE UNCHANGED vars
  BY <1>3 DEF UseKernel, Destroy
<1>4. UNCHANGED systemVars => UNCHANGED vars
  BY DEF systemVars
<1> QED  BY <1>1, <1>2, <1>3, <1>4 DEF SystemNext, Next, Clear

KernelTyped ==
    /\ session \in [Deliveries -> Calls \cup {None}]
    /\ life \in [Calls -> {"unborn", "live", "dead"}]
    /\ ended \in [Deliveries -> {"no", "closed", "failed"}]

\* Places at which a run may have a live kernel that its cleanup did not meet.
Owning == {"agent", "refresh", "cleanup", "dead"}

\* A live kernel is its run's, which owns it, unless the cleanup failed.
Held ==
    \A s \in Calls : life[s] = "live" =>
        /\ ended[RunOf[s]] # "closed"
        /\ ended[RunOf[s]] = "no" => session[RunOf[s]] = s /\ pc[RunOf[s]] \in Owning

\* A cleanup ends once, and a run whose cleanup raised has no way to an answer.
Late == {"audit", "update", "chunks", "done", "lost", "dead"}

Astray(d) ==
    /\ pc[d] \in {"update", "done", "lost", "dead"}
    /\ pc[d] = "update" => result[d] = "error"
    /\ audit[d] = "none" /\ shown[d] \in {"working", "error"}

CleanedOnce ==
    \A d \in Deliveries :
        /\ ended[d] # "no" => pc[d] \in Late
        /\ ended[d] = "failed" => Astray(d)

KInv == IInv /\ KernelTyped /\ Held /\ CleanedOnce

LEMMA KInvInit == SystemInit => KInv
  BY IInvInit, KernelAssumption
     DEF SystemInit, Init, Kernel!Init, KInv, KernelTyped, Held, CleanedOnce

\* While the kernels are left alone, so is the invariant by steps that keep a run
\* owning, late and astray.
Onward ==
    \A d \in Deliveries :
        /\ pc[d] \in Owning => pc'[d] \in Owning
        /\ pc[d] \in Late => pc'[d] \in Late
        /\ Astray(d) => Astray(d)'

LEMMA OnwardKeeps ==
    ASSUME KernelTyped, Held, CleanedOnce, Onward, UNCHANGED kernelVars
    PROVE  KernelTyped' /\ Held' /\ CleanedOnce'
  BY KernelAssumption DEF KernelTyped, Held, CleanedOnce, Onward, kernelVars

LEMMA MoveOnward ==
    ASSUME TypeOK, NEW d \in Deliveries, NEW place, GoTo(d, place),
           pc[d] \in Owning => place \in Owning,
           pc[d] \in Late => place \in Late,
           ~ Astray(d),
           \A e \in Deliveries \ {d} :
              result'[e] = result[e] /\ audit'[e] = audit[e] /\ shown'[e] = shown[e]
    PROVE  Onward
<1>1. \A e \in Deliveries : pc'[e] = IF e = d THEN place ELSE pc[e]
  BY DEF GoTo, TypeOK
<1> QED  BY <1>1 DEF Onward, Astray

LEMMA ElsewhereOnward ==
    ASSUME IInv, NEW d \in Deliveries, Elsewhere(d) \/ Finished(d) \/ Arrive(d)
    PROVE  Onward
<1>0. TypeOK /\ Placeholder  BY DEF IInv
<1> USE <1>0, MoveOnward DEF Owning, Late
<1>a. \A e \in Deliveries \ {d}, r \in Results :
        /\ SetResult(d, r) => result'[e] = result[e]
        /\ audit' = [audit EXCEPT ![d] = r] => audit'[e] = audit[e]
        /\ shown' = [shown EXCEPT ![d] = r] => shown'[e] = shown[e]
  BY DEF SetResult, TypeOK
<1>b. result[d] \in Results /\ {"ok", "stopped", "error"} \subseteq Results
  BY DEF TypeOK, Results
<1>1. CASE Arrive(d)
  BY <1>1 DEF Arrive, Astray, storeVars, slackVars
<1>2. CASE Dispatch(d)
  <2>1. CASE Reserve(d) \/ ReserveFails(d)
    BY <2>1 DEF Reserve, ReserveFails, Astray, slackVars
  <2>2. CASE PostPlaceholder(d)
    <3>1. \A e \in Deliveries \ {d} : shown'[e] = shown[e]
      BY <2>2 DEF PostPlaceholder, TypeOK
    <3> QED  BY <2>2, <3>1 DEF PostPlaceholder, Astray, storeVars
  <2>3. CASE StartRun(d) \/ PostFails(d)
    BY <2>3 DEF StartRun, PostFails, Astray, storeVars, slackVars
  <2> QED  BY <1>2, <2>1, <2>2, <2>3 DEF Dispatch
<1>3. CASE ConfigLoaded(d) \/ LoadFails(d) \/ Fetched(d)
  BY <1>3, <1>a, <1>b DEF ConfigLoaded, LoadFails, Fetched, Astray, storeVars, slackVars
<1>4. CASE AgentEnds(d)
  <2>1. PICK r \in {"ok", "stopped"} :
          SetResult(d, r) /\ GoTo(d, IF r = "ok" THEN "refresh" ELSE "cleanup")
    BY <1>4 DEF AgentEnds
  <2> QED  BY <1>4, <2>1, <1>a, <1>b DEF AgentEnds, Astray, storeVars, slackVars
<1>5. CASE Refreshed(d) \/ RefreshFails(d)
  BY <1>5, <1>a, <1>b DEF Refreshed, RefreshFails, Astray, slackVars
<1>6. CASE Audited(d) \/ AuditFails(d)
  BY <1>6, <1>a, <1>b DEF Audited, AuditFails, Astray, slackVars
<1>7. CASE UpdatePlaceholder(d)
  <2>1. PICK n \in 0 .. MaxChunks :
          /\ result[d] = "error" => n = 0
          /\ GoTo(d, IF n = 0 THEN "done" ELSE "chunks")
    BY <1>7 DEF UpdatePlaceholder
  <2>2. \A e \in Deliveries :
          /\ pc'[e] = IF e = d THEN (IF n = 0 THEN "done" ELSE "chunks") ELSE pc[e]
          /\ shown'[e] = IF e = d THEN result[d] ELSE shown[e]
    BY <1>7, <2>1 DEF UpdatePlaceholder, GoTo, TypeOK
  <2> QED  BY <1>7, <2>1, <2>2 DEF UpdatePlaceholder, Onward, Astray, storeVars
<1>8. CASE PostChunk(d)
  BY <1>8 DEF PostChunk, Astray, storeVars
<1>9. CASE UpdateFails(d)
  <2>1. \A e \in Deliveries :
          /\ pc'[e] = IF e = d THEN "lost" ELSE pc[e]
          /\ shown'[e] = shown[e] \/ (e = d /\ shown'[e] = result[d])
    BY <1>9 DEF UpdateFails, GoTo, TypeOK
  <2> QED  BY <1>9, <2>1 DEF UpdateFails, Onward, Astray, storeVars
<1>10. CASE ChunkFails(d)
  BY <1>10 DEF ChunkFails, Astray, storeVars
<1> QED
  BY <1>1, <1>2, <1>3, <1>4, <1>5, <1>6, <1>7, <1>8, <1>9, <1>10 DEF Elsewhere, Finished, Reply

LEMMA CrashOnward ==
    ASSUME TypeOK, Crash
    PROVE  Onward
  BY DEF TypeOK, Crash, Onward, Astray, Owning, Late, Over, Places, InLock, storeVars, slackVars

\* The agent's calls start and lose kernels only of a run that owns them.
LEMMA UseKeeps ==
    ASSUME KernelTyped, Held, CleanedOnce, NEW d \in Deliveries, UseKernel(d) \/ Destroy(d)
    PROVE  KernelTyped' /\ Held' /\ CleanedOnce'
<1> USE KernelAssumption DEF Owning, Late
<1>0. pc[d] \in {"agent", "cleanup"} /\ ended[d] = "no" /\ UNCHANGED vars
  BY DEF UseKernel, Destroy, CleanedOnce
<1>1. UNCHANGED <<pc, result, audit, shown>>
  BY <1>0 DEF vars, taskVars, storeVars, slackVars
<1>2. ASSUME UNCHANGED ended PROVE CleanedOnce'
  BY <1>1, <1>2 DEF CleanedOnce, Astray
<1>3. ASSUME NEW c \in Calls, RunOf[c] = d, pc[d] = "agent", Kernel!Start(c)
      PROVE  KernelTyped' /\ Held' /\ CleanedOnce'
  <2>1. /\ session[d] = None /\ UNCHANGED ended
        /\ \A s \in Calls : life'[s] = IF s = c THEN "live" ELSE life[s]
        /\ \A e \in Deliveries : session'[e] = IF e = d THEN c ELSE session[e]
    BY <1>3 DEF Kernel!Start, KernelTyped
  <2>2. KernelTyped'  BY <1>3 DEF Kernel!Start, KernelTyped
  <2>3. Held'  BY <1>0, <1>1, <1>3, <2>1 DEF Held
  <2> QED  BY <1>2, <2>1, <2>2, <2>3
<1>4. ASSUME NEW s \in Calls, RunOf[s] = d, Kernel!Lose(s)
      PROVE  KernelTyped' /\ Held' /\ CleanedOnce'
  <2>1. UNCHANGED <<ended, session>> /\ \A q \in Calls : life'[q] = "live" => life[q] = "live"
    BY <1>4 DEF Kernel!Lose, KernelTyped
  <2>2. KernelTyped'  BY <1>4 DEF Kernel!Lose, KernelTyped
  <2>3. Held'  BY <1>1, <2>1 DEF Held
  <2> QED  BY <1>2, <2>1, <2>2, <2>3
<1>5. ASSUME NEW s \in Calls, RunOf[s] = d, Kernel!Tell(s)
      PROVE  KernelTyped' /\ Held' /\ CleanedOnce'
  <2>1. /\ UNCHANGED <<ended, life>> /\ life[s] = "dead"
        /\ \A e \in Deliveries : session'[e] = session[e] \/ session[e] = s
    BY <1>5 DEF Kernel!Tell, KernelTyped
  <2>2. KernelTyped'  BY <1>5 DEF Kernel!Tell, KernelTyped
  <2>3. Held'  BY <1>1, <2>1 DEF Held
  <2> QED  BY <1>2, <2>1, <2>2, <2>3
<1>6. ASSUME NEW c \in Calls, NEW s \in Calls, Kernel!Work(c, s) \/ Kernel!Return(c, s)
      PROVE  KernelTyped' /\ Held' /\ CleanedOnce'
  BY <1>1, <1>6 DEF Kernel!Work, Kernel!Return, KernelTyped, Held, CleanedOnce, Astray
<1> QED  BY <1>3, <1>4, <1>5, <1>6 DEF UseKernel, Destroy
\* A cleanup that returns leaves its run no live kernel.
LEMMA ClearedKeeps ==
    ASSUME IInv, KernelTyped, Held, CleanedOnce, NEW d \in Deliveries, Cleared(d)
    PROVE  KernelTyped' /\ Held' /\ CleanedOnce'
<1> USE KernelAssumption DEF Owning, Late
<1>0. TypeOK /\ pc[d] = "cleanup" /\ ended[d] = "no"
  BY DEF IInv, Cleared, CleanedUp, Kernel!Close
<1>1. /\ UNCHANGED <<result, audit, shown, life>>
      /\ \A e \in Deliveries : pc'[e] = IF e = d THEN "audit" ELSE pc[e]
      /\ \A e \in Deliveries : ended'[e] = IF e = d THEN "closed" ELSE ended[e]
      /\ \A e \in Deliveries : session'[e] = IF e = d THEN None ELSE session[e]
  BY <1>0 DEF Cleared, CleanedUp, GoTo, Kernel!Close, KernelTyped, TypeOK, storeVars, slackVars
<1>2. \A s \in Calls : life[s] = "live" => RunOf[s] # d
  BY <1>0 DEF Cleared, Kernel!Close, Held
<1>3. KernelTyped'  BY DEF Cleared, Kernel!Close, KernelTyped
<1>4. Held'  BY <1>1, <1>2 DEF Held
<1>5. CleanedOnce'  BY <1>0, <1>1 DEF CleanedOnce, Astray
<1> QED  BY <1>3, <1>4, <1>5

\* One that raises leads its run past the audit and past every answer.
LEMMA ClearFailsKeeps ==
    ASSUME IInv, KernelTyped, Held, CleanedOnce, NEW d \in Deliveries, ClearFails(d)
    PROVE  KernelTyped' /\ Held' /\ CleanedOnce'
<1> USE KernelAssumption DEF Owning, Late
<1>0. /\ TypeOK /\ pc[d] = "cleanup" /\ ended[d] = "no"
      /\ audit[d] = "none" /\ shown[d] = "working"
  BY DEF IInv, ClearFails, CleanupFails, Kernel!Fail, Records, Placeholder, InLock
<1>1. /\ UNCHANGED <<audit, shown, life>>
      /\ \A e \in Deliveries : pc'[e] = IF e = d THEN "update" ELSE pc[e]
      /\ \A e \in Deliveries : result'[e] = IF e = d THEN "error" ELSE result[e]
      /\ \A e \in Deliveries : ended'[e] = IF e = d THEN "failed" ELSE ended[e]
      /\ \A e \in Deliveries \ {d} : session'[e] = session[e]
  BY <1>0 DEF ClearFails, CleanupFails, GoTo, SetResult, Kernel!Fail, KernelTyped, TypeOK,
              storeVars, slackVars
<1>3. KernelTyped'  BY DEF ClearFails, Kernel!Fail, KernelTyped
<1>4. Held'  BY <1>1 DEF Held
<1>5. CleanedOnce'  BY <1>0, <1>1 DEF CleanedOnce, Astray
<1> QED  BY <1>3, <1>4, <1>5

LEMMA KInvStep == KInv /\ [SystemNext]_systemVars => KInv'
<1> SUFFICES ASSUME KInv, [SystemNext]_systemVars PROVE KInv'
  OBVIOUS
<1>0. IInv /\ TypeOK /\ KernelTyped /\ Held /\ CleanedOnce  BY DEF KInv, IInv
<1>a. IInv'  BY <1>0, DispatchGoesOn, IInvStep
<1>b. Onward /\ UNCHANGED kernelVars => KernelTyped' /\ Held' /\ CleanedOnce'
  BY <1>0, OnwardKeeps
<1>1. ASSUME NEW d \in Deliveries,
             (Arrive(d) /\ UNCHANGED kernelVars) \/ Finished(d) \/ Elsewhere(d)
      PROVE  KernelTyped' /\ Held' /\ CleanedOnce'
  BY <1>0, <1>1, <1>b, ElsewhereOnward DEF Finished, Elsewhere
<1>2. ASSUME NEW d \in Deliveries, UseKernel(d) \/ Clear(d)
      PROVE  KernelTyped' /\ Held' /\ CleanedOnce'
  BY <1>0, <1>2, UseKeeps, ClearedKeeps, ClearFailsKeeps DEF Clear
<1>3. ASSUME Crash, UNCHANGED kernelVars PROVE KernelTyped' /\ Held' /\ CleanedOnce'
  BY <1>0, <1>3, <1>b, CrashOnward
<1>4. ASSUME UNCHANGED systemVars PROVE KernelTyped' /\ Held' /\ CleanedOnce'
  <2>1. Onward /\ UNCHANGED kernelVars
    BY <1>4 DEF systemVars, vars, taskVars, storeVars, slackVars, Onward, Astray
  <2> QED  BY <2>1, <1>b
<1>5. KernelTyped' /\ Held' /\ CleanedOnce'
  BY <1>1, <1>2, <1>3, <1>4 DEF SystemNext
<1> QED  BY <1>a, <1>5 DEF KInv

LEMMA KernelsInductive == SystemSpec => []KInv
  BY KInvInit, KInvStep, PTL DEF SystemSpec

\* With kernels or without, a thread sees what ThreadReplies promises it.
THEOREM RepliesWithKernels == SystemSpec => Refines
<1>1. SystemInit => Replies!Init  BY RepliesInit DEF SystemInit
<1>2. KInv /\ [SystemNext]_systemVars => [Replies!Next]_Replies!vars
  BY DispatchGoesOn, RepliesStep DEF KInv
<1> QED  BY <1>1, <1>2, KernelsInductive, PTL DEF SystemSpec, Refines, Replies!Spec

\* A kernel that is alive is that of a run between its transcript and its audit
\* record; if the cleanup raised, the run is neither audited nor answered.
THEOREM KernelsHaveRuns == SystemSpec => []KernelHasRun
<1>1. KInv => KernelHasRun
  BY KernelAssumption DEF KInv, KernelTyped, Held, CleanedOnce, Astray, Owning, KernelHasRun
<1> QED  BY <1>1, KernelsInductive, PTL

\* A thread has one live kernel at a time, but for abandoned runs.
THEOREM OneLiveKernelPerThread == SystemSpec => []OneKernelPerThread
<1>1. ASSUME KInv PROVE OneKernelPerThread
  <2> SUFFICES ASSUME NEW s \in Calls, NEW q \in Calls, life[s] = "live", life[q] = "live",
                      Thread(RunOf[s]) = Thread(RunOf[q]),
                      ~ Abandoned(RunOf[s]), ~ Abandoned(RunOf[q])
               PROVE  s = q
    BY DEF OneKernelPerThread
  <2>1. \A c \in {s, q} : session[RunOf[c]] = c /\ pc[RunOf[c]] \in InLock
    BY <1>1, KernelAssumption DEF KInv, KernelTyped, Held, Abandoned, Owning, InLock
  <2>2. ThreadSerial  BY <1>1 DEF KInv, IInv, Locking, HasLock, ThreadSerial
  <2>3. RunOf[s] = RunOf[q]  BY <2>1, <2>2, KernelAssumption DEF ThreadSerial
  <2> QED  BY <2>1, <2>3
<1> QED  BY <1>1, KernelsInductive, PTL
===============================================================================
