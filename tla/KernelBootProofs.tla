-------------------------- MODULE KernelBootProofs --------------------------
(***************************************************************************)
(* Proofs about KernelBoot, for any set of cells.  The invariant says      *)
(* where the cells in the kernel's queue come from (Sent), that an answer  *)
(* to a cell means that no other cell is before it (Clear), and what a     *)
(* cell that began with a dead kernel can still do (Doomed).               *)
(***************************************************************************)
EXTENDS KernelBoot, TLAPS

\* One cell at most is in exec_cell, and the session is not destroyed then.
Exclusive ==
    /\ \A c, d \in Cells : pc[c] \in Inside /\ pc[d] \in Inside => c = d
    /\ \A c \in Cells : pc[c] \in Inside => ~destroyed
    /\ \A c \in Cells : pc[c] # "idle" => host = "started"
    /\ \A c \in Cells : c \in answered => pc[c] # "idle"

\* A cell in the queue is being drained, or was left there by a broken channel,
\* or its session is destroyed.
Where(c) ==
    pc[c] = "drain" \/ (pc[c] = "over" /\ (outcome[c] = "error" \/ destroyed))

Sent ==
    \A c \in Cells :
        /\ c \in Queued => c \notin executed /\ Where(c)
        /\ c \in executed => pc[c] \in {"drain", "over"}

\* The queue has one cell, and none when the next one has its answer.
Clear ==
    /\ \A i, j \in DOMAIN queue : queue[i] \in Cells /\ queue[j] \in Cells => i = j
    /\ \A c, d \in Cells : pc[c] = "ready" /\ c \in answered => d \notin Queued

Doomed ==
    \A c \in late :
        /\ kernel = "dead"
        /\ (pc[c] = "ready" /\ c \notin answered) \/ (pc[c] = "over" /\ destroyed)

\* A dead kernel has no queue.
Empty == kernel # "up" => queue = <<>>

IInv == TypeOK /\ Exclusive /\ Sent /\ Clear /\ Doomed /\ Empty
-----------------------------------------------------------------------------
(* What the queue's operations do to its members                           *)

LEMMA TailMembers ==
    ASSUME NEW S, NEW q \in Seq(S), q # <<>>
    PROVE  /\ Tail(q) \in Seq(S) /\ Head(q) \in S
           /\ Len(Tail(q)) = Len(q) - 1
           /\ \A i \in DOMAIN Tail(q) : i + 1 \in DOMAIN q /\ Tail(q)[i] = q[i + 1]
           /\ Range(Tail(q)) \subseteq Range(q)
<1>1. /\ Tail(q) \in Seq(S) /\ Head(q) \in S
      /\ Len(Tail(q)) = Len(q) - 1
      /\ \A i \in DOMAIN Tail(q) : i + 1 \in DOMAIN q /\ Tail(q)[i] = q[i + 1]
  OBVIOUS
<1> QED  BY <1>1 DEF Range

LEMMA AppendMembers ==
    ASSUME NEW S, NEW q \in Seq(S), NEW x \in S
    PROVE  /\ Append(q, x) \in Seq(S)
           /\ DOMAIN Append(q, x) = 1 .. Len(q) + 1 /\ DOMAIN q = 1 .. Len(q)
           /\ Append(q, x)[Len(q) + 1] = x
           /\ \A i \in DOMAIN q : Append(q, x)[i] = q[i]
           /\ Range(Append(q, x)) = Range(q) \cup {x}
<1>1. /\ Append(q, x) \in Seq(S) /\ Len(q) \in Nat
      /\ DOMAIN Append(q, x) = 1 .. Len(q) + 1 /\ DOMAIN q = 1 .. Len(q)
      /\ Append(q, x)[Len(q) + 1] = x
      /\ \A i \in DOMAIN q : Append(q, x)[i] = q[i]
  OBVIOUS
<1>2. Len(q) + 1 \in DOMAIN Append(q, x) /\ DOMAIN q \subseteq DOMAIN Append(q, x)
  BY <1>1
<1>3. \A i \in DOMAIN Append(q, x) : i \in DOMAIN q \/ i = Len(q) + 1
  BY <1>1
<1> QED  BY <1>1, <1>2, <1>3 DEF Range

\* Every step leaves the queue, empties it, takes its head, or appends.
LEMMA QueueStep ==
    ASSUME TypeOK, [Next]_vars
    PROVE  \/ queue' = queue
           \/ queue' = <<>>
           \/ queue # <<>> /\ queue' = Tail(queue)
           \/ kernel = "up" /\ queue' = Append(queue, Startup)
           \/ \E c \in Cells : SendCell(c) /\ kernel = "up" /\ queue' = Append(queue, c)
<1> DEFINE Goal ==
           \/ queue' = queue
           \/ queue' = <<>>
           \/ queue # <<>> /\ queue' = Tail(queue)
           \/ kernel = "up" /\ queue' = Append(queue, Startup)
           \/ \E c \in Cells : SendCell(c) /\ kernel = "up" /\ queue' = Append(queue, c)
<1>1. ASSUME KernelUp PROVE Goal
  BY <1>1 DEF KernelUp, inside, calls
<1>2. ASSUME KernelDies PROVE Goal
  BY <1>2 DEF KernelDies, inside, calls
<1>3. ASSUME Finish PROVE Goal
  BY <1>3 DEF Finish, inside, calls
<1>4. ASSUME NEW x \in Clients, Answer(x) PROVE Goal
  BY <1>4 DEF Answer, Waits, inside, calls
<1>5. ASSUME BootSends PROVE Goal
  BY <1>5 DEF BootSends, Send, inside, calls
<1>6. ASSUME BootFails PROVE Goal
  BY <1>6 DEF BootFails, ContainerExits, inside, calls
<1>7. ASSUME BootDrained PROVE Goal
  BY <1>7 DEF BootDrained, inside, calls
<1>8. ASSUME BootExpires PROVE Goal
  BY <1>8 DEF BootExpires, inside, calls
<1>9. ASSUME BootNotices PROVE Goal
  BY <1>9 DEF BootNotices, ContainerExits, inside, calls
<1>10. ASSUME PingOk PROVE Goal
  BY <1>10 DEF PingOk, inside, calls
<1>11. ASSUME PingAgain PROVE Goal
  BY <1>11 DEF PingAgain, inside, calls
<1>12. ASSUME Unready PROVE Goal
  BY <1>12 DEF Unready, Remove, inside, calls
<1>13. ASSUME NEW c \in Cells, EnterCell(c) PROVE Goal
  BY <1>13 DEF EnterCell, Return, inside, calls
<1>14. ASSUME NEW c \in Cells, SendCell(c) PROVE Goal
  BY <1>14 DEF SendCell, Send, inside, calls
<1>15. ASSUME NEW c \in Cells, CellEnds(c) PROVE Goal
  BY <1>15 DEF CellEnds, Return, Keep, inside, calls
<1>16. ASSUME NEW c \in Cells, ChannelBreaks(c) PROVE Goal
  BY <1>16 DEF ChannelBreaks, Return, Keep, inside, calls
<1>17. ASSUME NEW c \in Cells, Expires(c) PROVE Goal
  BY <1>17 DEF Expires, Return, Remove, inside, calls
<1>18. ASSUME NEW c \in Cells, Fails(c) PROVE Goal
  BY <1>18 DEF Fails, Return, Remove, inside, calls
<1>19. ASSUME UNCHANGED vars PROVE Goal
  BY <1>19 DEF vars, inside
<1> HIDE DEF Goal
<1>20. Goal
  BY <1>1, <1>2, <1>3, <1>4, <1>5, <1>6, <1>7, <1>8, <1>9, <1>10,
     <1>11, <1>12, <1>13, <1>14, <1>15, <1>16, <1>17, <1>18, <1>19 DEF Next, Boot, Cell
<1> QED  BY <1>20 DEF Goal

LEMMA QueueTyped ==
    ASSUME TypeOK, [Next]_vars
    PROVE  /\ queue' \in Seq(Requests)
           /\ \A c \in Cells : c \in Queued' => c \in Queued \/ SendCell(c)
           /\ Clear => \A i, j \in DOMAIN queue' :
                 queue'[i] \in Cells /\ queue'[j] \in Cells => i = j
<1>0. queue \in Seq(Requests) /\ Startup \notin Cells /\ Startup \in Requests
  BY CellsAssumption DEF TypeOK, Requests
<1>1. CASE queue' = queue
  BY <1>0, <1>1 DEF Queued, Clear
<1>2. CASE queue' = <<>>
  <2>1. DOMAIN queue' = {} /\ queue' \in Seq(Requests)
    BY <1>2
  <2> QED  BY <2>1 DEF Queued, Range
<1>3. CASE queue # <<>> /\ queue' = Tail(queue)
  <2>1. /\ Tail(queue) \in Seq(Requests) /\ Range(Tail(queue)) \subseteq Range(queue)
        /\ \A i \in DOMAIN Tail(queue) :
              i \in Nat /\ i + 1 \in DOMAIN queue /\ Tail(queue)[i] = queue[i + 1]
    BY <1>0, <1>3, TailMembers
  <2>2. ASSUME Clear, NEW i \in DOMAIN queue', NEW j \in DOMAIN queue',
               queue'[i] \in Cells, queue'[j] \in Cells
        PROVE  i = j
    <3>1. i + 1 = j + 1
      BY <1>3, <2>1, <2>2 DEF Clear
    <3> QED  BY <1>3, <2>1, <3>1
  <2> QED  BY <1>3, <2>1, <2>2 DEF Queued
<1>4. CASE queue' = Append(queue, Startup)
  <2>1. /\ queue' \in Seq(Requests) /\ Range(queue') = Range(queue) \cup {Startup}
        /\ \A i \in DOMAIN queue' : queue'[i] \in Cells => i \in DOMAIN queue /\ queue'[i] = queue[i]
    BY <1>0, <1>4, AppendMembers
  <2> QED  BY <1>0, <2>1 DEF Queued, Clear
<1>5. ASSUME NEW c \in Cells, SendCell(c), queue' = Append(queue, c)
      PROVE  /\ queue' \in Seq(Requests)
             /\ \A x \in Cells : x \in Queued' => x \in Queued \/ SendCell(x)
             /\ Clear => \A i, j \in DOMAIN queue' :
                   queue'[i] \in Cells /\ queue'[j] \in Cells => i = j
  <2>1. c \in Requests
    BY DEF Requests
  <2>2. /\ queue' \in Seq(Requests) /\ Range(queue') = Range(queue) \cup {c}
        /\ \A i \in DOMAIN queue' :
              i = Len(queue) + 1 \/ (i \in DOMAIN queue /\ queue'[i] = queue[i])
    BY <1>0, <1>5, <2>1, AppendMembers
  <2>3. Clear => \A i \in DOMAIN queue : queue[i] \notin Cells
    BY <1>5 DEF SendCell, Clear, Queued, Range
  <2> QED  BY <1>5, <2>2, <2>3 DEF Queued
<1> QED  BY <1>1, <1>2, <1>3, <1>4, <1>5, QueueStep

LEMMA InitHolds == Init => IInv
<1> SUFFICES ASSUME Init PROVE IInv
  OBVIOUS
<1>1. queue = <<>> /\ DOMAIN queue = {} /\ Queued = {} /\ queue \in Seq(Requests)
  BY DEF Init, Queued, Range
<1>2. TypeOK
  BY <1>1 DEF Init, TypeOK, Inside
<1>3. Exclusive /\ Sent /\ Clear /\ Doomed /\ Empty
  BY <1>1 DEF Init, Exclusive, Sent, Clear, Doomed, Empty, Inside
<1> QED  BY <1>2, <1>3 DEF IInv

LEMMA TypeStep ==
    ASSUME TypeOK, [Next]_vars
    PROVE  TypeOK'
<1>1. ASSUME KernelUp PROVE TypeOK'
  BY <1>1, QueueTyped DEF KernelUp, TypeOK, Inside, inside, calls
<1>2. ASSUME KernelDies PROVE TypeOK'
  BY <1>2, QueueTyped DEF KernelDies, TypeOK, Inside, inside, calls
<1>3. ASSUME Finish PROVE TypeOK'
  <2>1. Head(queue) \in Requests
    BY <1>3, TailMembers DEF Finish, TypeOK
  <2> QED  BY <1>3, <2>1, QueueTyped DEF Finish, TypeOK, calls
<1>4. ASSUME NEW x \in Clients, Answer(x) PROVE TypeOK'
  BY <1>4, QueueTyped DEF Answer, Waits, TypeOK, Inside, inside, calls
<1>5. ASSUME BootSends PROVE TypeOK'
  BY <1>5, QueueTyped DEF BootSends, Send, TypeOK, Inside, inside, calls
<1>6. ASSUME BootFails PROVE TypeOK'
  BY <1>6, QueueTyped DEF BootFails, ContainerExits, TypeOK, Inside, inside,
     calls
<1>7. ASSUME BootDrained PROVE TypeOK'
  BY <1>7, QueueTyped DEF BootDrained, TypeOK, Inside, inside, calls
<1>8. ASSUME BootExpires PROVE TypeOK'
  <2>1. queue # <<>> => Head(queue) \in Requests
    BY TailMembers DEF TypeOK
  <2>2. executed' \subseteq Requests /\ queue' \in Seq(Requests)
    BY <1>8, <2>1, QueueTyped DEF BootExpires, TypeOK
  <2> QED  BY <1>8, <2>2 DEF BootExpires, TypeOK, calls
<1>9. ASSUME BootNotices PROVE TypeOK'
  BY <1>9, QueueTyped DEF BootNotices, ContainerExits, TypeOK, Inside,
     inside, calls
<1>10. ASSUME PingOk PROVE TypeOK'
  BY <1>10, QueueTyped DEF PingOk, TypeOK, Inside, inside, calls
<1>11. ASSUME PingAgain PROVE TypeOK'
  BY <1>11, QueueTyped DEF PingAgain, TypeOK, Inside, inside, calls
<1>12. ASSUME Unready PROVE TypeOK'
  BY <1>12, QueueTyped DEF Unready, Remove, TypeOK, Inside, inside, calls
<1>13. ASSUME NEW c \in Cells, EnterCell(c) PROVE TypeOK'
  BY <1>13, QueueTyped DEF EnterCell, Return, TypeOK, Inside, inside, calls
<1>14. ASSUME NEW c \in Cells, SendCell(c) PROVE TypeOK'
  BY <1>14, QueueTyped DEF SendCell, Send, TypeOK, Inside, inside, calls
<1>15. ASSUME NEW c \in Cells, CellEnds(c) PROVE TypeOK'
  BY <1>15, QueueTyped DEF CellEnds, Return, Keep, TypeOK, Inside, inside,
     calls
<1>16. ASSUME NEW c \in Cells, ChannelBreaks(c) PROVE TypeOK'
  BY <1>16, QueueTyped DEF ChannelBreaks, Return, Keep, TypeOK, Inside,
     inside, calls
<1>17. ASSUME NEW c \in Cells, Expires(c) PROVE TypeOK'
  BY <1>17, QueueTyped DEF Expires, Return, Remove, TypeOK, Inside, inside,
     calls
<1>18. ASSUME NEW c \in Cells, Fails(c) PROVE TypeOK'
  BY <1>18, QueueTyped DEF Fails, Return, Remove, TypeOK, Inside, inside,
     calls
<1>19. ASSUME UNCHANGED vars PROVE TypeOK'
  BY <1>19 DEF vars, inside, calls, TypeOK, Inside
<1> QED
  BY <1>1, <1>2, <1>3, <1>4, <1>5, <1>6, <1>7, <1>8, <1>9, <1>10,
     <1>11, <1>12, <1>13, <1>14, <1>15, <1>16, <1>17, <1>18, <1>19 DEF Next, Boot, Cell

LEMMA ExclusiveStep ==
    ASSUME TypeOK, Exclusive, [Next]_vars
    PROVE  Exclusive'
<1>1. ASSUME KernelUp PROVE Exclusive'
  BY <1>1 DEF KernelUp, TypeOK, Exclusive, Inside, inside, calls
<1>2. ASSUME KernelDies PROVE Exclusive'
  BY <1>2 DEF KernelDies, TypeOK, Exclusive, Inside, inside, calls
<1>3. ASSUME Finish PROVE Exclusive'
  BY <1>3 DEF Finish, TypeOK, Exclusive, Inside, inside, calls
<1>4. ASSUME NEW x \in Clients, Answer(x) PROVE Exclusive'
  BY <1>4, CellsAssumption DEF Answer, Waits, TypeOK, Exclusive, Inside,
     inside, calls
<1>5. ASSUME BootSends PROVE Exclusive'
  BY <1>5 DEF BootSends, Send, TypeOK, Exclusive, Inside, inside, calls
<1>6. ASSUME BootFails PROVE Exclusive'
  BY <1>6 DEF BootFails, ContainerExits, TypeOK, Exclusive, Inside, inside,
     calls
<1>7. ASSUME BootDrained PROVE Exclusive'
  BY <1>7 DEF BootDrained, TypeOK, Exclusive, Inside, inside, calls
<1>8. ASSUME BootExpires PROVE Exclusive'
  BY <1>8 DEF BootExpires, TypeOK, Exclusive, Inside, inside, calls
<1>9. ASSUME BootNotices PROVE Exclusive'
  BY <1>9 DEF BootNotices, ContainerExits, TypeOK, Exclusive, Inside, inside,
     calls
<1>10. ASSUME PingOk PROVE Exclusive'
  BY <1>10 DEF PingOk, TypeOK, Exclusive, Inside, inside, calls
<1>11. ASSUME PingAgain PROVE Exclusive'
  BY <1>11 DEF PingAgain, TypeOK, Exclusive, Inside, inside, calls
<1>12. ASSUME Unready PROVE Exclusive'
  BY <1>12 DEF Unready, Remove, TypeOK, Exclusive, Inside, inside, calls
<1>13. ASSUME NEW c \in Cells, EnterCell(c) PROVE Exclusive'
  BY <1>13 DEF EnterCell, Locked, Return, TypeOK, Exclusive, Inside, inside,
     calls
<1>14. ASSUME NEW c \in Cells, SendCell(c) PROVE Exclusive'
  BY <1>14 DEF SendCell, Send, TypeOK, Exclusive, Inside, inside, calls
<1>15. ASSUME NEW c \in Cells, CellEnds(c) PROVE Exclusive'
  BY <1>15 DEF CellEnds, Return, Keep, TypeOK, Exclusive, Inside, inside,
     calls
<1>16. ASSUME NEW c \in Cells, ChannelBreaks(c) PROVE Exclusive'
  BY <1>16 DEF ChannelBreaks, Return, Keep, TypeOK, Exclusive, Inside,
     inside, calls
<1>17. ASSUME NEW c \in Cells, Expires(c) PROVE Exclusive'
  BY <1>17 DEF Expires, Return, Remove, TypeOK, Exclusive, Inside, inside,
     calls
<1>18. ASSUME NEW c \in Cells, Fails(c) PROVE Exclusive'
  BY <1>18 DEF Fails, Return, Remove, TypeOK, Exclusive, Inside, inside, calls
<1>19. ASSUME UNCHANGED vars PROVE Exclusive'
  BY <1>19 DEF vars, inside, calls, TypeOK, Exclusive, Inside
<1> QED
  BY <1>1, <1>2, <1>3, <1>4, <1>5, <1>6, <1>7, <1>8, <1>9, <1>10,
     <1>11, <1>12, <1>13, <1>14, <1>15, <1>16, <1>17, <1>18, <1>19 DEF Next, Boot, Cell

\* A cell in the queue stays accounted for until it is executed.
LEMMA WhereStep ==
    ASSUME TypeOK, Exclusive, [Next]_vars,
           NEW d \in Cells, Where(d), d \notin executed
    PROVE  Where(d)'
<1> DEFINE Goal == Where(d)'
<1>1. ASSUME KernelUp PROVE Goal
  BY <1>1 DEF KernelUp, TypeOK, Where, inside, calls
<1>2. ASSUME KernelDies PROVE Goal
  BY <1>2 DEF KernelDies, TypeOK, Where, inside, calls
<1>3. ASSUME Finish PROVE Goal
  BY <1>3 DEF Finish, TypeOK, Where, inside, calls
<1>4. ASSUME NEW x \in Clients, Answer(x) PROVE Goal
  BY <1>4 DEF Answer, Waits, TypeOK, Where, inside, calls
<1>5. ASSUME BootSends PROVE Goal
  BY <1>5 DEF BootSends, Send, TypeOK, Where, inside, calls
<1>6. ASSUME BootFails PROVE Goal
  BY <1>6 DEF BootFails, ContainerExits, TypeOK, Where, inside, calls
<1>7. ASSUME BootDrained PROVE Goal
  BY <1>7 DEF BootDrained, TypeOK, Where, inside, calls
<1>8. ASSUME BootExpires PROVE Goal
  BY <1>8 DEF BootExpires, TypeOK, Where, inside, calls
<1>9. ASSUME BootNotices PROVE Goal
  BY <1>9 DEF BootNotices, ContainerExits, TypeOK, Where, inside, calls
<1>10. ASSUME PingOk PROVE Goal
  BY <1>10 DEF PingOk, TypeOK, Where, inside, calls
<1>11. ASSUME PingAgain PROVE Goal
  BY <1>11 DEF PingAgain, TypeOK, Where, inside, calls
<1>12. ASSUME Unready PROVE Goal
  BY <1>12 DEF Unready, Remove, TypeOK, Where, inside, calls
<1>13. ASSUME NEW c \in Cells, EnterCell(c) PROVE Goal
  BY <1>13 DEF EnterCell, Return, TypeOK, Where, inside, calls
<1>14. ASSUME NEW c \in Cells, SendCell(c) PROVE Goal
  BY <1>14 DEF SendCell, Send, TypeOK, Where, inside, calls
<1>15. ASSUME NEW c \in Cells, CellEnds(c) PROVE Goal
  BY <1>15 DEF CellEnds, Return, Keep, TypeOK, Where, inside, calls
<1>16. ASSUME NEW c \in Cells, ChannelBreaks(c) PROVE Goal
  BY <1>16 DEF ChannelBreaks, Return, Keep, TypeOK, Where, inside, calls
<1>17. ASSUME NEW c \in Cells, Expires(c) PROVE Goal
  BY <1>17 DEF Expires, Return, Remove, TypeOK, Where, inside, calls
<1>18. ASSUME NEW c \in Cells, Fails(c) PROVE Goal
  BY <1>18 DEF Fails, Return, Remove, TypeOK, Where, inside, calls
<1>19. ASSUME UNCHANGED vars PROVE Goal
  BY <1>19 DEF vars, TypeOK, Where, inside, calls
<1> HIDE DEF Goal
<1>20. Goal
  BY <1>1, <1>2, <1>3, <1>4, <1>5, <1>6, <1>7, <1>8, <1>9, <1>10,
     <1>11, <1>12, <1>13, <1>14, <1>15, <1>16, <1>17, <1>18, <1>19 DEF Next, Boot, Cell
<1> QED  BY <1>20 DEF Goal

\* exec_cell goes on to its end.
LEMMA StayStep ==
    ASSUME TypeOK, [Next]_vars,
           NEW d \in Cells, pc[d] \in {"drain", "over"}
    PROVE  pc'[d] \in {"drain", "over"}
<1> DEFINE Goal == pc'[d] \in {"drain", "over"}
<1>1. ASSUME KernelUp PROVE Goal
  BY <1>1 DEF KernelUp, TypeOK, Inside, inside, calls
<1>2. ASSUME KernelDies PROVE Goal
  BY <1>2 DEF KernelDies, TypeOK, Inside, inside, calls
<1>3. ASSUME Finish PROVE Goal
  BY <1>3 DEF Finish, TypeOK, Inside, inside, calls
<1>4. ASSUME NEW x \in Clients, Answer(x) PROVE Goal
  BY <1>4 DEF Answer, Waits, TypeOK, Inside, inside, calls
<1>5. ASSUME BootSends PROVE Goal
  BY <1>5 DEF BootSends, Send, TypeOK, Inside, inside, calls
<1>6. ASSUME BootFails PROVE Goal
  BY <1>6 DEF BootFails, ContainerExits, TypeOK, Inside, inside, calls
<1>7. ASSUME BootDrained PROVE Goal
  BY <1>7 DEF BootDrained, TypeOK, Inside, inside, calls
<1>8. ASSUME BootExpires PROVE Goal
  BY <1>8 DEF BootExpires, TypeOK, Inside, inside, calls
<1>9. ASSUME BootNotices PROVE Goal
  BY <1>9 DEF BootNotices, ContainerExits, TypeOK, Inside, inside, calls
<1>10. ASSUME PingOk PROVE Goal
  BY <1>10 DEF PingOk, TypeOK, Inside, inside, calls
<1>11. ASSUME PingAgain PROVE Goal
  BY <1>11 DEF PingAgain, TypeOK, Inside, inside, calls
<1>12. ASSUME Unready PROVE Goal
  BY <1>12 DEF Unready, Remove, TypeOK, Inside, inside, calls
<1>13. ASSUME NEW c \in Cells, EnterCell(c) PROVE Goal
  BY <1>13 DEF EnterCell, Return, TypeOK, Inside, inside, calls
<1>14. ASSUME NEW c \in Cells, SendCell(c) PROVE Goal
  BY <1>14 DEF SendCell, Send, TypeOK, Inside, inside, calls
<1>15. ASSUME NEW c \in Cells, CellEnds(c) PROVE Goal
  BY <1>15 DEF CellEnds, Return, Keep, TypeOK, Inside, inside, calls
<1>16. ASSUME NEW c \in Cells, ChannelBreaks(c) PROVE Goal
  BY <1>16 DEF ChannelBreaks, Return, Keep, TypeOK, Inside, inside, calls
<1>17. ASSUME NEW c \in Cells, Expires(c) PROVE Goal
  BY <1>17 DEF Expires, Return, Remove, TypeOK, Inside, inside, calls
<1>18. ASSUME NEW c \in Cells, Fails(c) PROVE Goal
  BY <1>18 DEF Fails, Return, Remove, TypeOK, Inside, inside, calls
<1>19. ASSUME UNCHANGED vars PROVE Goal
  BY <1>19 DEF vars, TypeOK, Inside, inside, calls
<1> HIDE DEF Goal
<1>20. Goal
  BY <1>1, <1>2, <1>3, <1>4, <1>5, <1>6, <1>7, <1>8, <1>9, <1>10,
     <1>11, <1>12, <1>13, <1>14, <1>15, <1>16, <1>17, <1>18, <1>19 DEF Next, Boot, Cell
<1> QED  BY <1>20 DEF Goal

LEMMA HeadGone ==
    ASSUME TypeOK, Clear, queue # <<>>, queue' = Tail(queue), Head(queue) \in Cells
    PROVE  Head(queue) \in Queued /\ Head(queue) \notin Queued'
<1>1. /\ 1 \in DOMAIN queue /\ queue[1] = Head(queue)
      /\ \A i \in DOMAIN Tail(queue) :
            i \in 1 .. Len(queue) - 1 /\ i + 1 \in DOMAIN queue /\ Tail(queue)[i] = queue[i + 1]
  BY DEF TypeOK
<1>2. \A i \in DOMAIN Tail(queue) : Tail(queue)[i] # Head(queue)
  <2> SUFFICES ASSUME NEW i \in DOMAIN Tail(queue), Tail(queue)[i] = Head(queue) PROVE FALSE
    OBVIOUS
  <2>1. queue[i + 1] \in Cells /\ i + 1 \in DOMAIN queue
    BY <1>1
  <2>2. i + 1 = 1
    BY <1>1, <2>1 DEF Clear
  <2>3. i \in 1 .. Len(queue) - 1 /\ Len(queue) \in Nat
    BY <1>1 DEF TypeOK
  <2> QED  BY <2>2, <2>3
<1> QED  BY <1>1, <1>2 DEF Queued, Range

\* What is executed was in the queue, and is not any more.
LEMMA ExecutedStep ==
    ASSUME TypeOK, Clear, [Next]_vars,
           NEW d \in Cells, d \in executed'
    PROVE  d \in executed \/ (d \in Queued /\ d \notin Queued')
<1> DEFINE Goal == d \in executed \/ (d \in Queued /\ d \notin Queued')
<1>1. ASSUME KernelUp PROVE Goal
  BY <1>1 DEF KernelUp, inside, calls
<1>2. ASSUME KernelDies PROVE Goal
  BY <1>2 DEF KernelDies, inside, calls
<1>3. ASSUME Finish PROVE Goal
  <2>1. CASE queue # <<>> /\ queue' = Tail(queue) /\ executed' = executed \cup {Head(queue)}
    BY <2>1, HeadGone
  <2>2. CASE executed' = executed
    BY <2>2
  <2> QED  BY <1>3, <2>1, <2>2 DEF Finish
<1>4. ASSUME NEW x \in Clients, Answer(x) PROVE Goal
  BY <1>4 DEF Answer, Waits, inside, calls
<1>5. ASSUME BootSends PROVE Goal
  BY <1>5 DEF BootSends, Send, inside, calls
<1>6. ASSUME BootFails PROVE Goal
  BY <1>6 DEF BootFails, ContainerExits, inside, calls
<1>7. ASSUME BootDrained PROVE Goal
  BY <1>7 DEF BootDrained, inside, calls
<1>8. ASSUME BootExpires PROVE Goal
  <2>1. CASE queue # <<>> /\ queue' = Tail(queue) /\ executed' = executed \cup {Head(queue)}
    BY <2>1, HeadGone
  <2>2. CASE executed' = executed
    BY <2>2
  <2> QED  BY <1>8, <2>1, <2>2 DEF BootExpires
<1>9. ASSUME BootNotices PROVE Goal
  BY <1>9 DEF BootNotices, ContainerExits, inside, calls
<1>10. ASSUME PingOk PROVE Goal
  BY <1>10 DEF PingOk, inside, calls
<1>11. ASSUME PingAgain PROVE Goal
  BY <1>11 DEF PingAgain, inside, calls
<1>12. ASSUME Unready PROVE Goal
  BY <1>12 DEF Unready, Remove, inside, calls
<1>13. ASSUME NEW c \in Cells, EnterCell(c) PROVE Goal
  BY <1>13 DEF EnterCell, Return, inside, calls
<1>14. ASSUME NEW c \in Cells, SendCell(c) PROVE Goal
  BY <1>14 DEF SendCell, Send, inside, calls
<1>15. ASSUME NEW c \in Cells, CellEnds(c) PROVE Goal
  BY <1>15 DEF CellEnds, Return, Keep, inside, calls
<1>16. ASSUME NEW c \in Cells, ChannelBreaks(c) PROVE Goal
  BY <1>16 DEF ChannelBreaks, Return, Keep, inside, calls
<1>17. ASSUME NEW c \in Cells, Expires(c) PROVE Goal
  BY <1>17 DEF Expires, Return, Remove, inside, calls
<1>18. ASSUME NEW c \in Cells, Fails(c) PROVE Goal
  BY <1>18 DEF Fails, Return, Remove, inside, calls
<1>19. ASSUME UNCHANGED vars PROVE Goal
  BY <1>19 DEF vars, inside, calls
<1> HIDE DEF Goal
<1>20. Goal
  BY <1>1, <1>2, <1>3, <1>4, <1>5, <1>6, <1>7, <1>8, <1>9, <1>10,
     <1>11, <1>12, <1>13, <1>14, <1>15, <1>16, <1>17, <1>18, <1>19 DEF Next, Boot, Cell
<1> QED  BY <1>20 DEF Goal

LEMMA SentStep ==
    ASSUME TypeOK, Exclusive, Sent, Clear, [Next]_vars
    PROVE  Sent'
<1>1. ASSUME NEW d \in Cells, d \in Queued' PROVE d \notin executed' /\ Where(d)'
  <2>1. CASE d \in Queued
    <3>1. d \notin executed /\ Where(d)
      BY <2>1 DEF Sent
    <3> QED  BY <1>1, <3>1, WhereStep, ExecutedStep
  <2>2. CASE SendCell(d)
    <3>1. d \notin executed /\ executed' = executed
      BY <2>2 DEF SendCell, Sent
    <3>2. Where(d)'
      BY <2>2 DEF SendCell, Where, TypeOK
    <3> QED  BY <3>1, <3>2
  <2> QED  BY <1>1, <2>1, <2>2, QueueTyped
<1>2. ASSUME NEW d \in Cells, d \in executed' PROVE pc'[d] \in {"drain", "over"}
  <2>1. CASE d \in executed
    BY <2>1, StayStep DEF Sent
  <2>2. CASE d \in Queued
    BY <2>2, StayStep DEF Sent, Where
  <2> QED  BY <1>2, <2>1, <2>2, ExecutedStep
<1> QED  BY <1>1, <1>2 DEF Sent

\* A ready cell that has its answer had it before, or is answered by an idle kernel.
LEMMA AnsweredStep ==
    ASSUME TypeOK, Exclusive, [Next]_vars, NEW d \in Cells,
           pc'[d] = "ready", d \in answered'
    PROVE  (pc[d] = "ready" /\ d \in answered) \/ (queue = <<>> /\ queue' = <<>>)
<1> DEFINE Goal == (pc[d] = "ready" /\ d \in answered) \/ (queue = <<>> /\ queue' = <<>>)
<1>1. ASSUME KernelUp PROVE Goal
  BY <1>1 DEF KernelUp, TypeOK, inside, calls
<1>2. ASSUME KernelDies PROVE Goal
  BY <1>2 DEF KernelDies, TypeOK, inside, calls
<1>3. ASSUME Finish PROVE Goal
  BY <1>3 DEF Finish, TypeOK, inside, calls
<1>4. ASSUME NEW x \in Clients, Answer(x) PROVE Goal
  BY <1>4, CellsAssumption DEF Answer, TypeOK, inside, calls, Waits
<1>5. ASSUME BootSends PROVE Goal
  BY <1>5 DEF BootSends, TypeOK, inside, calls
<1>6. ASSUME BootFails PROVE Goal
  BY <1>6 DEF BootFails, ContainerExits, TypeOK, inside, calls
<1>7. ASSUME BootDrained PROVE Goal
  BY <1>7 DEF BootDrained, TypeOK, inside, calls
<1>8. ASSUME BootExpires PROVE Goal
  BY <1>8 DEF BootExpires, TypeOK, inside, calls
<1>9. ASSUME BootNotices PROVE Goal
  BY <1>9 DEF BootNotices, ContainerExits, TypeOK, inside, calls
<1>10. ASSUME PingOk PROVE Goal
  BY <1>10 DEF PingOk, TypeOK, inside, calls
<1>11. ASSUME PingAgain PROVE Goal
  BY <1>11 DEF PingAgain, TypeOK, inside, calls
<1>12. ASSUME Unready PROVE Goal
  BY <1>12 DEF Unready, TypeOK, inside, calls
<1>13. ASSUME NEW c \in Cells, EnterCell(c) PROVE Goal
  BY <1>13 DEF EnterCell, Return, TypeOK, inside, calls, Exclusive
<1>14. ASSUME NEW c \in Cells, SendCell(c) PROVE Goal
  BY <1>14 DEF SendCell, TypeOK, inside, calls
<1>15. ASSUME NEW c \in Cells, CellEnds(c) PROVE Goal
  BY <1>15 DEF CellEnds, Return, TypeOK, inside, calls
<1>16. ASSUME NEW c \in Cells, ChannelBreaks(c) PROVE Goal
  BY <1>16 DEF ChannelBreaks, Return, TypeOK, inside, calls
<1>17. ASSUME NEW c \in Cells, Expires(c) PROVE Goal
  BY <1>17 DEF Expires, Return, TypeOK, inside, calls
<1>18. ASSUME NEW c \in Cells, Fails(c) PROVE Goal
  BY <1>18 DEF Fails, Return, TypeOK, inside, calls
<1>19. ASSUME UNCHANGED vars PROVE Goal
  BY <1>19 DEF vars, inside, calls
<1> HIDE DEF Goal
<1>20. Goal
  BY <1>1, <1>2, <1>3, <1>4, <1>5, <1>6, <1>7, <1>8, <1>9, <1>10,
     <1>11, <1>12, <1>13, <1>14, <1>15, <1>16, <1>17, <1>18, <1>19 DEF Next, Boot, Cell
<1> QED  BY <1>20 DEF Goal

LEMMA ClearStep ==
    ASSUME TypeOK, Exclusive, Clear, [Next]_vars
    PROVE  Clear'
<1>1. ASSUME NEW c \in Cells, NEW d \in Cells, pc'[c] = "ready", c \in answered', d \in Queued'
      PROVE  FALSE
  <2>1. CASE queue = <<>> /\ queue' = <<>>
    BY <1>1, <2>1 DEF Queued, Range
  <2>2. CASE pc[c] = "ready" /\ c \in answered
    <3>1. d \notin Queued
      BY <2>2 DEF Clear
    <3>2. SendCell(d)
      BY <1>1, <3>1, QueueTyped
    <3>3. d = c
      BY <2>2, <3>2 DEF SendCell, Exclusive, Inside
    <3> QED  BY <1>1, <3>2, <3>3 DEF SendCell, TypeOK
  <2> QED  BY <1>1, <2>1, <2>2, AnsweredStep
<1>2. \A i, j \in DOMAIN queue' : queue'[i] \in Cells /\ queue'[j] \in Cells => i = j
  BY QueueTyped
<1> QED  BY <1>1, <1>2 DEF Clear

LEMMA DoomedStep ==
    ASSUME TypeOK, Exclusive, Doomed, Empty, [Next]_vars
    PROVE  Doomed'
<1>1. ASSUME KernelUp PROVE Doomed'
  BY <1>1 DEF KernelUp, TypeOK, Doomed, Inside, Exclusive, inside, calls
<1>2. ASSUME KernelDies PROVE Doomed'
  BY <1>2 DEF KernelDies, TypeOK, Doomed, Inside, Exclusive, inside, calls
<1>3. ASSUME Finish PROVE Doomed'
  BY <1>3 DEF Finish, TypeOK, Doomed, Inside, Exclusive, inside, calls
<1>4. ASSUME NEW x \in Clients, Answer(x) PROVE Doomed'
  BY <1>4 DEF Answer, Waits, TypeOK, Doomed, Inside, Exclusive, inside, calls
<1>5. ASSUME BootSends PROVE Doomed'
  BY <1>5 DEF BootSends, Send, TypeOK, Doomed, Inside, Exclusive, inside,
     calls
<1>6. ASSUME BootFails PROVE Doomed'
  BY <1>6 DEF BootFails, ContainerExits, TypeOK, Doomed, Inside, Exclusive,
     inside, calls
<1>7. ASSUME BootDrained PROVE Doomed'
  BY <1>7 DEF BootDrained, TypeOK, Doomed, Inside, Exclusive, inside, calls
<1>8. ASSUME BootExpires PROVE Doomed'
  BY <1>8 DEF BootExpires, TypeOK, Doomed, Inside, Exclusive, inside, calls
<1>9. ASSUME BootNotices PROVE Doomed'
  BY <1>9 DEF BootNotices, ContainerExits, TypeOK, Doomed, Inside, Exclusive,
     inside, calls
<1>10. ASSUME PingOk PROVE Doomed'
  BY <1>10 DEF PingOk, TypeOK, Doomed, Inside, Exclusive, inside, calls
<1>11. ASSUME PingAgain PROVE Doomed'
  BY <1>11 DEF PingAgain, TypeOK, Doomed, Inside, Exclusive, inside, calls
<1>12. ASSUME Unready PROVE Doomed'
  BY <1>12 DEF Unready, Remove, TypeOK, Doomed, Inside, Exclusive, inside,
     calls
<1>13. ASSUME NEW c \in Cells, EnterCell(c) PROVE Doomed'
  BY <1>13 DEF EnterCell, Return, TypeOK, Doomed, Inside, Exclusive, inside,
     calls
<1>14. ASSUME NEW c \in Cells, SendCell(c) PROVE Doomed'
  BY <1>14 DEF SendCell, Send, TypeOK, Doomed, Inside, Exclusive, inside,
     calls
<1>15. ASSUME NEW c \in Cells, CellEnds(c) PROVE Doomed'
  BY <1>15 DEF CellEnds, Return, Keep, TypeOK, Doomed, Inside, Exclusive,
     inside, calls
<1>16. ASSUME NEW c \in Cells, ChannelBreaks(c) PROVE Doomed'
  BY <1>16 DEF ChannelBreaks, Return, Keep, TypeOK, Doomed, Inside,
     Exclusive, inside, calls
<1>17. ASSUME NEW c \in Cells, Expires(c) PROVE Doomed'
  BY <1>17 DEF Expires, Return, Remove, TypeOK, Doomed, Inside, Exclusive,
     inside, calls
<1>18. ASSUME NEW c \in Cells, Fails(c) PROVE Doomed'
  BY <1>18 DEF Fails, Return, Remove, TypeOK, Doomed, Inside, Exclusive,
     inside, calls
<1>19. ASSUME UNCHANGED vars PROVE Doomed'
  BY <1>19 DEF vars, inside, calls, TypeOK, Doomed, Inside, Exclusive
<1> QED
  BY <1>1, <1>2, <1>3, <1>4, <1>5, <1>6, <1>7, <1>8, <1>9, <1>10,
     <1>11, <1>12, <1>13, <1>14, <1>15, <1>16, <1>17, <1>18, <1>19 DEF Next, Boot, Cell

LEMMA EmptyStep ==
    ASSUME TypeOK, Empty, [Next]_vars
    PROVE  Empty'
<1>1. ASSUME KernelUp PROVE Empty'
  BY <1>1 DEF KernelUp, TypeOK, Empty, inside, calls
<1>2. ASSUME KernelDies PROVE Empty'
  BY <1>2 DEF KernelDies, TypeOK, Empty, inside, calls
<1>3. ASSUME Finish PROVE Empty'
  BY <1>3 DEF Finish, TypeOK, Empty, inside, calls
<1>4. ASSUME NEW x \in Clients, Answer(x) PROVE Empty'
  BY <1>4 DEF Answer, Waits, TypeOK, Empty, inside, calls
<1>5. ASSUME BootSends PROVE Empty'
  BY <1>5 DEF BootSends, Send, TypeOK, Empty, inside, calls
<1>6. ASSUME BootFails PROVE Empty'
  BY <1>6 DEF BootFails, ContainerExits, TypeOK, Empty, inside, calls
<1>7. ASSUME BootDrained PROVE Empty'
  BY <1>7 DEF BootDrained, TypeOK, Empty, inside, calls
<1>8. ASSUME BootExpires PROVE Empty'
  BY <1>8 DEF BootExpires, TypeOK, Empty, inside, calls
<1>9. ASSUME BootNotices PROVE Empty'
  BY <1>9 DEF BootNotices, ContainerExits, TypeOK, Empty, inside, calls
<1>10. ASSUME PingOk PROVE Empty'
  BY <1>10 DEF PingOk, TypeOK, Empty, inside, calls
<1>11. ASSUME PingAgain PROVE Empty'
  BY <1>11 DEF PingAgain, TypeOK, Empty, inside, calls
<1>12. ASSUME Unready PROVE Empty'
  BY <1>12 DEF Unready, Remove, TypeOK, Empty, inside, calls
<1>13. ASSUME NEW c \in Cells, EnterCell(c) PROVE Empty'
  BY <1>13 DEF EnterCell, Return, TypeOK, Empty, inside, calls
<1>14. ASSUME NEW c \in Cells, SendCell(c) PROVE Empty'
  BY <1>14 DEF SendCell, Send, TypeOK, Empty, inside, calls
<1>15. ASSUME NEW c \in Cells, CellEnds(c) PROVE Empty'
  BY <1>15 DEF CellEnds, Return, Keep, TypeOK, Empty, inside, calls
<1>16. ASSUME NEW c \in Cells, ChannelBreaks(c) PROVE Empty'
  BY <1>16 DEF ChannelBreaks, Return, Keep, TypeOK, Empty, inside, calls
<1>17. ASSUME NEW c \in Cells, Expires(c) PROVE Empty'
  BY <1>17 DEF Expires, Return, Remove, TypeOK, Empty, inside, calls
<1>18. ASSUME NEW c \in Cells, Fails(c) PROVE Empty'
  BY <1>18 DEF Fails, Return, Remove, TypeOK, Empty, inside, calls
<1>19. ASSUME UNCHANGED vars PROVE Empty'
  BY <1>19 DEF vars, inside, calls, TypeOK, Empty
<1> QED
  BY <1>1, <1>2, <1>3, <1>4, <1>5, <1>6, <1>7, <1>8, <1>9, <1>10,
     <1>11, <1>12, <1>13, <1>14, <1>15, <1>16, <1>17, <1>18, <1>19 DEF Next, Boot, Cell

-----------------------------------------------------------------------------
(* Theorems                                                                *)

\* The invariant holds in every behaviour.
THEOREM BootInductive == Spec => []IInv
<1>1. Init => IInv
  BY InitHolds
<1>2. IInv /\ [Next]_vars => IInv'
  <2> SUFFICES ASSUME IInv, [Next]_vars PROVE IInv'
    OBVIOUS
  <2> QED  BY TypeStep, ExclusiveStep, SentStep, ClearStep, DoomedStep, EmptyStep DEF IInv
<1> QED  BY <1>1, <1>2, PTL DEF Spec

\* Every variable keeps its type: what a cell returns is one of the known outcomes.
THEOREM BootTypeCorrect == Spec => []TypeOK
<1>1. IInv => TypeOK
  BY DEF IInv
<1> QED  BY <1>1, BootInductive, PTL

\* No cell is let in beside one that was given up, and none is sent beside another.
THEOREM CellsApart == Spec => []KernelNotShared
<1>1. ASSUME IInv PROVE KernelNotShared
  <2> SUFFICES ASSUME NEW c \in Cells, NEW d \in Cells, pc[c] \in Inside, d \in Queued
               PROVE  d = c \/ outcome[d] = "error"
    BY <1>1 DEF IInv, Clear, KernelNotShared
  <2>1. CASE pc[d] = "drain"
    BY <1>1, <2>1 DEF IInv, Exclusive, Inside
  <2>2. CASE pc[d] = "over" /\ (outcome[d] = "error" \/ destroyed)
    BY <1>1, <2>2 DEF IInv, Exclusive
  <2> QED  BY <1>1, <2>1, <2>2 DEF IInv, Sent, Where
<1> QED  BY <1>1, BootInductive, PTL

\* A dead kernel is given up by the first cell that meets it.
THEOREM DeadKernelsEnd == Spec => []DeadKernelGivenUp
<1>1. IInv => DeadKernelGivenUp
  BY DEF IInv, Doomed, DeadKernelGivenUp
<1> QED  BY <1>1, BootInductive, PTL
=============================================================================
