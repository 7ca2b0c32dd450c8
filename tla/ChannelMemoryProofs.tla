------------------------- MODULE ChannelMemoryProofs -------------------------
(***************************************************************************)
(* Proofs, for any calls, rows, columns and values, that flushing only the *)
(* difference to a row read before loses no finished write, and that saving *)
(* fails on the primary key only in a race on first contact.               *)
(***************************************************************************)
EXTENDS ChannelMemory, TLAPS

USE MemoryAssumption

\* What a call is told to have preceded it is over.
History == \A w \in Writes : \A v \in before[w] : pc[v] \in Ended

\* The history variable says who wrote each column.
Authors ==
    \A p \in Paths, c \in Columns :
        /\ row[p] = NoRow => writer[p][c] = NoRow
        /\ row[p] # NoRow =>
              /\ writer[p][c] \in Writes /\ PathOf[writer[p][c]] = p
              /\ row[p][c] = Value[writer[p][c]][c]
              /\ pc[writer[p][c]] \in Ended

\* The object of a call that is about to commit is the row, but for columns
\* changed by a call that overlaps it.
ReadFresh ==
    \A w \in Writes :
        LET p == PathOf[w] IN
        pc[w] = "commit" /\ read[w] # NoRow =>
            /\ row[p] # NoRow
            /\ \A c \in Columns :
                  read[w][c] = row[p][c] \/ writer[p][c] \notin before[w]

\* A row that is there although the call has not found it: somebody, not over
\* when the call began, has not found it either and made it.
Raced(w) ==
    \E v \in Writes \ {w} :
        PathOf[v] = PathOf[w] /\ v \notin before[w] /\ pc[v] \in Ended /\ read[v] = NoRow

FirstContact ==
    \A w \in Writes :
        \/ pc[w] = "commit" /\ read[w] = NoRow /\ row[PathOf[w]] # NoRow
        \/ pc[w] = "collided"
        => Raced(w)

IInv == TypeOK /\ History /\ Authors /\ ReadFresh /\ FirstContact /\ NoStaleColumn

LEMMA StartOfMemory == Init => IInv
<1> SUFFICES ASSUME Init PROVE IInv
  OBVIOUS
<1>1. TypeOK  BY DEF Init, TypeOK
<1>2. History /\ Authors /\ ReadFresh /\ FirstContact /\ NoStaleColumn
  BY DEF Init, History, Authors, ReadFresh, FirstContact, NoStaleColumn, Ended
<1> QED  BY <1>1, <1>2 DEF IInv

\* A step that writes nothing: one call moves on, perhaps reading the row.
LEMMA QuietStep ==
    ASSUME IInv, NEW w \in Writes, NEW place \in {"get", "snapshot", "collided", "raised"},
           pc[w] \notin Ended, GoTo(w, place), place = "collided" => Raced(w),
           UNCHANGED <<row, writer, read>>,
           \/ UNCHANGED before
           \/ /\ pc[w] = "idle" /\ place \in {"get", "snapshot"}
              /\ before' = [before EXCEPT ![w] = {v \in Writes : pc[v] \in Ended}]
    PROVE  IInv'
<1> USE DEF IInv, GoTo, Ended
<1>0. \A v \in Writes : /\ pc[v] \in Ended => pc'[v] = pc[v]
                        /\ pc'[v] = "commit" => pc[v] = "commit" /\ before'[v] = before[v]
                        /\ pc'[v] = "saved" => pc[v] = "saved" /\ before'[v] = before[v]
                        /\ pc[v] # "idle" => before'[v] = before[v]
  BY DEF TypeOK
<1>1. TypeOK'  BY DEF TypeOK
<1>2. History'
  <2> SUFFICES ASSUME NEW u \in Writes, NEW v \in before'[u] PROVE pc'[v] \in Ended
    BY DEF History
  <2>1. v \in Writes /\ pc[v] \in Ended  BY DEF History, TypeOK
  <2> QED  BY <2>1, <1>0
<1>3. Authors'
  <2>1. \A p \in Paths, c \in Columns :
           writer[p][c] \in Writes /\ pc[writer[p][c]] \in Ended => pc'[writer[p][c]] \in Ended
    BY <1>0
  <2> QED  BY <2>1 DEF Authors
<1>4. ReadFresh'  BY <1>0 DEF ReadFresh
<1>5. FirstContact'
  <2> SUFFICES ASSUME NEW u \in Writes,
                      \/ pc'[u] = "commit" /\ read[u] = NoRow /\ row[PathOf[u]] # NoRow
                      \/ pc'[u] = "collided"
               PROVE  Raced(u)'
    BY DEF FirstContact
  <2>1. before'[u] = before[u]  BY <1>0 DEF TypeOK
  <2>2. Raced(u)
    <3>1. CASE u = w /\ pc'[u] = "collided"  BY <3>1 DEF TypeOK
    <3>2. CASE ~(u = w /\ pc'[u] = "collided")  BY <3>2, <1>0 DEF FirstContact, TypeOK
    <3> QED  BY <3>1, <3>2
  <2>3. PICK v \in Writes \ {u} :
           PathOf[v] = PathOf[u] /\ v \notin before[u] /\ pc[v] \in Ended /\ read[v] = NoRow
    BY <2>2 DEF Raced
  <2> QED  BY <2>1, <2>3, <1>0 DEF Raced
<1>6. NoStaleColumn'  BY <1>0 DEF NoStaleColumn
<1> QED  BY <1>1, <1>2, <1>3, <1>4, <1>5, <1>6

LEMMA GetStep ==
    ASSUME IInv, NEW w \in Writes, Get(w)
    PROVE  IInv'
<1> USE DEF IInv, Get, GoTo, Ended
<1>0. \A v \in Writes : v # w => pc'[v] = pc[v] /\ read'[v] = read[v]
  BY DEF TypeOK
<1>a. pc[w] = "get" /\ pc'[w] = "commit" /\ read'[w] = row[PathOf[w]]  BY DEF TypeOK
<1>b. \A v \in Writes : pc[v] \in Ended => pc'[v] = pc[v] /\ read'[v] = read[v]  BY <1>0, <1>a
<1>1. TypeOK'  BY DEF TypeOK
<1>2. History'
  <2>1. \A u \in Writes : before[u] \subseteq Writes  BY DEF TypeOK
  <2> QED  BY <2>1, <1>b DEF History
<1>3. Authors'
  <2>1. \A p \in Paths, c \in Columns :
           writer[p][c] \in Writes /\ pc[writer[p][c]] \in Ended => pc'[writer[p][c]] \in Ended
    BY <1>b
  <2> QED  BY <2>1 DEF Authors
<1>4. ReadFresh'  BY <1>0, <1>a DEF ReadFresh
<1>5. FirstContact'
  <2> SUFFICES ASSUME NEW u \in Writes,
                      \/ pc'[u] = "commit" /\ read'[u] = NoRow /\ row[PathOf[u]] # NoRow
                      \/ pc'[u] = "collided"
               PROVE  Raced(u)'
    BY DEF FirstContact
  <2>1. u # w  BY <1>a
  <2>2. Raced(u)  BY <2>1, <1>0 DEF FirstContact
  <2> QED  BY <2>2, <1>b DEF Raced
<1>6. NoStaleColumn'  BY <1>0, <1>a DEF NoStaleColumn
<1> QED  BY <1>1, <1>2, <1>3, <1>4, <1>5, <1>6

\* The flush of a call that does not collide, whatever is told of it.
LEMMA StoreStep ==
    ASSUME IInv, NEW w \in Writes, NEW place \in {"saved", "raised"},
           pc[w] = "commit", ~Collides(w), Store(w), GoTo(w, place), UNCHANGED <<read, before>>
    PROVE  IInv'
<1> DEFINE p == PathOf[w]
<1> USE DEF IInv, GoTo, Ended
<1>p. p \in Paths  OBVIOUS
<1>0. /\ \A v \in Writes : v # w => pc'[v] = pc[v]
      /\ pc'[w] = place
      /\ \A v \in Writes : pc[v] \in Ended => v # w /\ pc'[v] = pc[v]
  BY DEF TypeOK
<1>a. /\ row'[p] \in Rows /\ row'[p] # NoRow
      /\ \A q \in Paths : q # p => row'[q] = row[q] /\ writer'[q] = writer[q]
      /\ \A c \in Columns : c \in Changed(w) => row'[p][c] = Value[w][c] /\ writer'[p][c] = w
      /\ \A c \in Columns : c \notin Changed(w) => row'[p][c] = row[p][c] /\ writer'[p][c] = writer[p][c]
  <2>1. row' = [row EXCEPT ![p] =
                  [c \in Columns |-> IF c \in Changed(w) THEN Value[w][c] ELSE row[p][c]]]
    BY DEF Store
  <2>2. writer' = [writer EXCEPT ![p] =
                  [c \in Columns |-> IF c \in Changed(w) THEN w ELSE writer[p][c]]]
    BY DEF Store
  <2>3. \A c \in Columns : c \notin Changed(w) => row[p] \in Rows
    BY DEF Changed, ReadFresh, TypeOK
  <2>4. [c \in Columns |-> IF c \in Changed(w) THEN Value[w][c] ELSE row[p][c]] \in Rows
    BY <2>3 DEF Rows
  <2>5. row'[p] \in Rows  BY <2>1, <2>4, <1>p DEF TypeOK
  <2>6. row'[p] = [c \in Columns |-> IF c \in Changed(w) THEN Value[w][c] ELSE row[p][c]]
    BY <2>1, <1>p DEF TypeOK
  <2>7. writer'[p] = [c \in Columns |-> IF c \in Changed(w) THEN w ELSE writer[p][c]]
    BY <2>2, <1>p DEF TypeOK
  <2>8. \A q \in Paths : q # p => row'[q] = row[q] /\ writer'[q] = writer[q]
    BY <2>1, <2>2 DEF TypeOK
  <2> QED  BY <2>5, <2>6, <2>7, <2>8
<1>b. \A u \in Writes : w \notin before[u]  BY DEF History
<1>c. \A c \in Columns : c \notin Changed(w) =>
         /\ row[p] # NoRow /\ read[w] # NoRow /\ Value[w][c] = read[w][c]
         /\ writer[p][c] \in Writes
         /\ read[w][c] = row[p][c] \/ writer[p][c] \notin before[w]
  BY <1>p DEF Changed, ReadFresh, Authors
<1>d. row[p] = NoRow => read[w] = NoRow  BY DEF ReadFresh
<1>e. row[p] # NoRow => read[w] # NoRow  BY DEF Collides
<1>1. TypeOK'
  <2>1. pc' \in [Writes -> {"idle", "snapshot", "get", "commit"} \cup Ended]  BY DEF TypeOK
  <2>2. row' \in [Paths -> Rows \cup {NoRow}]
    <3>1. row' = [row EXCEPT ![p] = row'[p]]  BY <1>p DEF Store, TypeOK
    <3> QED  BY <3>1, <1>a, <1>p DEF TypeOK
  <2>3. writer' \in [Paths -> [Columns -> Writes \cup {NoRow}]]
    <3>1. [c \in Columns |-> IF c \in Changed(w) THEN w ELSE writer[p][c]]
             \in [Columns -> Writes \cup {NoRow}]
      BY <1>p DEF TypeOK
    <3> QED  BY <3>1, <1>p DEF Store, TypeOK
  <2> QED  BY <2>1, <2>2, <2>3 DEF TypeOK
<1>2. History'
  <2>1. \A u \in Writes : before[u] \subseteq Writes  BY DEF TypeOK
  <2> QED  BY <2>1, <1>0 DEF History
<1>3. Authors'
  <2> SUFFICES ASSUME NEW q \in Paths, NEW c \in Columns
               PROVE  /\ row'[q] = NoRow => writer'[q][c] = NoRow
                      /\ row'[q] # NoRow =>
                            /\ writer'[q][c] \in Writes /\ PathOf[writer'[q][c]] = q
                            /\ row'[q][c] = Value[writer'[q][c]][c]
                            /\ pc'[writer'[q][c]] \in Ended
    BY DEF Authors
  <2>1. CASE q # p  BY <2>1, <1>0, <1>a DEF Authors
  <2>2. CASE q = p /\ c \in Changed(w)  BY <2>2, <1>0, <1>a
  <2>3. CASE q = p /\ c \notin Changed(w)  BY <2>3, <1>0, <1>a, <1>c DEF Authors
  <2> QED  BY <2>1, <2>2, <2>3
<1>4. ReadFresh'
  <2> SUFFICES ASSUME NEW u \in Writes, pc'[u] = "commit", read[u] # NoRow
               PROVE  /\ row'[PathOf[u]] # NoRow
                      /\ \A c \in Columns : \/ read[u][c] = row'[PathOf[u]][c]
                                            \/ writer'[PathOf[u]][c] \notin before[u]
    BY DEF ReadFresh
  <2>1. pc[u] = "commit" /\ PathOf[u] \in Paths  BY <1>0
  <2>2. CASE PathOf[u] # p  BY <2>1, <2>2, <1>a DEF ReadFresh
  <2>3. CASE PathOf[u] = p
    <3>1. ASSUME NEW c \in Columns
          PROVE  read[u][c] = row'[p][c] \/ writer'[p][c] \notin before[u]
      <4>1. CASE c \in Changed(w)  BY <4>1, <1>a, <1>b
      <4>2. CASE c \notin Changed(w)
        <5>1. read[u][c] = row[p][c] \/ writer[p][c] \notin before[u]
          BY <2>1, <2>3 DEF ReadFresh
        <5> QED  BY <5>1, <4>2, <1>a
      <4> QED  BY <4>1, <4>2
    <3> QED  BY <3>1, <2>3, <1>a
  <2> QED  BY <2>2, <2>3
<1>5. FirstContact'
  <2> SUFFICES ASSUME NEW u \in Writes,
                      \/ pc'[u] = "commit" /\ read[u] = NoRow /\ row'[PathOf[u]] # NoRow
                      \/ pc'[u] = "collided"
               PROVE  Raced(u)'
    BY DEF FirstContact
  <2>0. u # w /\ PathOf[u] \in Paths  BY <1>0
  <2>1. CASE Raced(u)
    <3>1. PICK v \in Writes \ {u} :
           PathOf[v] = PathOf[u] /\ v \notin before[u] /\ pc[v] \in Ended /\ read[v] = NoRow
      BY <2>1 DEF Raced
    <3> QED  BY <3>1, <1>0 DEF Raced
  <2>2. CASE ~Raced(u)
    <3>1. pc[u] = "commit" /\ row[PathOf[u]] = NoRow /\ row'[PathOf[u]] # NoRow
      BY <2>0, <2>2, <1>0 DEF FirstContact
    <3>2. PathOf[u] = p /\ read[w] = NoRow  BY <3>1, <2>0, <1>a, <1>d
    <3> QED  BY <3>2, <2>0, <1>0, <1>b DEF Raced
  <2> QED  BY <2>1, <2>2
<1>6. NoStaleColumn'
  <2> SUFFICES ASSUME NEW u \in Writes, NEW c \in Columns, pc'[u] = "saved"
               PROVE  /\ row'[PathOf[u]] # NoRow
                      /\ \/ row'[PathOf[u]][c] = Value[u][c]
                         \/ writer'[PathOf[u]][c] \notin before[u] \cup {NoRow}
    BY DEF NoStaleColumn
  <2>0. PathOf[u] \in Paths  OBVIOUS
  <2>1. CASE u = w  BY <2>1, <1>a, <1>c
  <2>2. CASE u # w /\ PathOf[u] # p  BY <2>0, <2>2, <1>0, <1>a DEF NoStaleColumn
  <2>3. CASE u # w /\ PathOf[u] = p
    <3>1. CASE c \in Changed(w)  BY <3>1, <2>3, <1>a, <1>b
    <3>2. CASE c \notin Changed(w)  BY <3>2, <2>3, <1>0, <1>a DEF NoStaleColumn
    <3> QED  BY <3>1, <3>2
  <2> QED  BY <2>1, <2>2, <2>3
<1> QED  BY <1>1, <1>2, <1>3, <1>4, <1>5, <1>6

LEMMA StepOfMemory == IInv /\ [Next]_vars => IInv'
<1> SUFFICES ASSUME IInv, [Next]_vars PROVE IInv'
  OBVIOUS
<1>1. ASSUME NEW w \in Writes, Begin(w) PROVE IInv'
  <2>1. pc[w] \notin Ended  BY <1>1 DEF Begin, Ended
  <2> QED  BY <1>1, <2>1, QuietStep DEF Begin
<1>2. ASSUME NEW w \in Writes, Snapshot(w) PROVE IInv'
  <2>1. pc[w] \notin Ended  BY <1>2 DEF Snapshot, Ended
  <2> QED  BY <1>2, <2>1, QuietStep DEF Snapshot
<1>3. ASSUME NEW w \in Writes, Get(w) PROVE IInv'
  BY <1>3, GetStep
<1>4. ASSUME NEW w \in Writes, Commit(w) PROVE IInv'
  BY <1>4, StoreStep DEF Commit
<1>5. ASSUME NEW w \in Writes, Collide(w) PROVE IInv'
  <2>1. pc[w] \notin Ended /\ Raced(w)
    BY <1>5 DEF Collide, Collides, Ended, IInv, FirstContact
  <2> QED  BY <1>5, <2>1, QuietStep DEF Collide
<1>6. ASSUME NEW w \in Writes, StoreFails(w) PROVE IInv'
  <2>1. pc[w] \notin Ended  BY <1>6 DEF StoreFails, Ended
  <2>2. CASE UNCHANGED <<row, writer>>
    BY <1>6, <2>1, <2>2, QuietStep DEF StoreFails
  <2>3. CASE pc[w] = "commit" /\ ~Collides(w) /\ Store(w)
    BY <1>6, <2>3, StoreStep DEF StoreFails
  <2> QED  BY <1>6, <2>2, <2>3 DEF StoreFails
<1>7. CASE UNCHANGED vars
  BY <1>7 DEF vars, IInv, TypeOK, History, Authors, ReadFresh, FirstContact, Raced, NoStaleColumn
<1> QED  BY <1>1, <1>2, <1>3, <1>4, <1>5, <1>6, <1>7 DEF Next

LEMMA MemoryInductive == Spec => []IInv
  BY StartOfMemory, StepOfMemory, PTL DEF Spec

\* Every variable keeps its type.
THEOREM MemoryTypeCorrect == Spec => []TypeOK
<1>1. IInv => TypeOK  BY DEF IInv
<1> QED  BY <1>1, MemoryInductive, PTL

\* A saved write is only overwritten by calls that overlapped it or came after.
THEOREM NoWriteIsLost == Spec => []NoStaleColumn
<1>1. IInv => NoStaleColumn  BY DEF IInv
<1> QED  BY <1>1, MemoryInductive, PTL

\* A write that nothing overlapped is the row.
THEOREM QuietWritesStand == Spec => []QuietWriteStands
<1>1. IInv => QuietWriteStands
  <2> SUFFICES ASSUME IInv, NEW w \in Writes, pc[w] = "saved",
                      \A v \in Writes \ {w} :
                         PathOf[v] = PathOf[w] => pc[v] = "idle" \/ v \in before[w]
               PROVE  row[PathOf[w]] = Value[w]
    BY DEF QuietWriteStands
  <2> DEFINE p == PathOf[w]
  <2>1. p \in Paths /\ row[p] # NoRow  BY DEF IInv, NoStaleColumn
  <2>2. row[p] \in Rows /\ Value[w] \in Rows  BY <2>1 DEF IInv, TypeOK
  <2>3. ASSUME NEW c \in Columns PROVE row[p][c] = Value[w][c]
    <3> DEFINE v == writer[p][c]
    <3>1. /\ v \in Writes /\ PathOf[v] = p /\ pc[v] \in Ended
          /\ row[p][c] = Value[v][c]
      BY <2>1 DEF IInv, Authors
    <3>2. v = w \/ v \in before[w]  BY <3>1 DEF Ended
    <3>3. row[p][c] = Value[w][c] \/ v \notin before[w]
      BY <2>1 DEF IInv, NoStaleColumn
    <3> QED  BY <3>1, <3>2, <3>3
  <2> QED  BY <2>2, <2>3 DEF Rows
<1> QED  BY <1>1, MemoryInductive, PTL

\* Saving fails on the primary key only in a race on first contact.
THEOREM CollisionsAreRaces == Spec => []CollisionNeedsRace
<1>1. IInv => CollisionNeedsRace
  BY DEF IInv, FirstContact, Raced, CollisionNeedsRace
<1> QED  BY <1>1, MemoryInductive, PTL

(***************************************************************************)
(* ChannelMemory implements ColumnRegisters.                               *)
(***************************************************************************)

\* A step of one call is a step of its place and of what it has still to write.
LEMMA OneCall ==
    ASSUME IInv, NEW w \in Writes, NEW place, GoTo(w, place),
           \A v \in Writes \ {w} : read'[v] = read[v]
    PROVE  /\ Calls' = [Calls EXCEPT ![w] = Calls'[w]]
           /\ Dues' = [Dues EXCEPT ![w] = Dues'[w]]
           /\ pc'[w] = place
<1>1. \A v \in Writes : pc'[v] = IF v = w THEN place ELSE pc[v]
  BY DEF GoTo, IInv, TypeOK
<1>2. \A v \in Writes \ {w} : Calls'[v] = Calls[v] /\ Dues'[v] = Dues[v]
  BY <1>1 DEF Calls, Dues, Changed
<1>3. /\ Calls = [v \in Writes |-> Calls[v]] /\ Calls' = [v \in Writes |-> Calls'[v]]
      /\ Dues = [v \in Writes |-> Dues[v]] /\ Dues' = [v \in Writes |-> Dues'[v]]
  BY DEF Calls, Dues, Changed
<1> QED  BY <1>1, <1>2, <1>3

\* What a call has read as it would write it need not be written: the column has
\* that value at this moment.
LEMMA GetSeen ==
    ASSUME IInv, NEW w \in Writes, Get(w)
    PROVE  Atomic!Write(w, Columns \ Dues'[w])
<1> DEFINE p == PathOf[w]
           some == Columns \ Dues'[w]
<1>0. p \in Paths /\ TypeOK  BY DEF IInv
<1>1. pc[w] = "get" /\ GoTo(w, "commit") /\ row' = row /\ read'[w] = row[p]
      /\ \A v \in Writes \ {w} : read'[v] = read[v]
  BY <1>0 DEF Get, TypeOK
<1>2. /\ Calls' = [Calls EXCEPT ![w] = Calls'[w]]
      /\ Dues' = [Dues EXCEPT ![w] = Dues'[w]]
      /\ pc'[w] = "commit"
  BY <1>1, OneCall
<1>3. Calls[w] = "open" /\ Calls'[w] = "open" /\ Calls' = Calls
  BY <1>1, <1>2 DEF Calls, Ended
<1>4. /\ Dues[w] = Columns
      /\ Dues'[w] = {c \in Columns : read'[w] = NoRow \/ Value[w][c] # read'[w][c]}
  BY <1>1, <1>2 DEF Dues, Ended, Changed
<1>5. Dues' = [Dues EXCEPT ![w] = @ \ some]
  <2>1. Dues[w] \ some = Dues'[w]  BY <1>4
  <2> QED  BY <1>2, <2>1, Zenon DEF Dues, Changed
<1>6. \A c \in some : row[p] # NoRow /\ Value[w][c] = row[p][c]
  BY <1>1, <1>4
<1>7. Registers' = Registers  BY <1>1 DEF Registers
<1>8. Registers[p] = [c \in Columns |-> IF c \in some THEN Value[w][c] ELSE Registers[p][c]]
  BY <1>0, <1>6 DEF Registers
<1>9. Atomic!Put(w, some)
  BY <1>0, <1>7, <1>8 DEF Atomic!Put, Registers
<1> QED  BY <1>3, <1>4, <1>5, <1>9 DEF Atomic!Write

\* The flush writes what is due, and nothing else.
LEMMA StoreSeen ==
    ASSUME IInv, NEW w \in Writes, pc[w] = "commit", ~Collides(w), Store(w)
    PROVE  Atomic!Put(w, Dues[w])
<1> DEFINE p == PathOf[w]
           new == [c \in Columns |-> IF c \in Changed(w) THEN Value[w][c] ELSE row[p][c]]
<1>0. p \in Paths /\ TypeOK  BY DEF IInv
<1>1. Dues[w] = Changed(w)  BY DEF Dues, Changed, Ended
<1>2. row' = [row EXCEPT ![p] = new]  BY DEF Store
<1>3. \A c \in Columns \ Changed(w) : row[p] # NoRow
  BY DEF Changed, IInv, ReadFresh
<1>4. new \in Rows
  BY <1>0, <1>3 DEF Rows, TypeOK
<1>5. new # NoRow  BY <1>4
<1>6. \A q \in Paths : row'[q] = IF q = p THEN new ELSE row[q]
  BY <1>0, <1>2 DEF TypeOK
<1>7. Registers'[p] = new  BY <1>0, <1>5, <1>6 DEF Registers
<1>8. new = [c \in Columns |-> IF c \in Changed(w) THEN Value[w][c] ELSE Registers[p][c]]
  BY <1>0, <1>3 DEF Registers
<1>9. \A q \in Paths \ {p} : Registers'[q] = Registers[q]
  BY <1>6 DEF Registers
<1>10. /\ Registers = [q \in Paths |-> Registers[q]]
       /\ Registers' = [q \in Paths |-> Registers'[q]]
  BY DEF Registers
<1>11. Registers' = [Registers EXCEPT ![p] = new]
  BY <1>0, <1>7, <1>9, <1>10
<1> QED  BY <1>1, <1>8, <1>11 DEF Atomic!Put

LEMMA EndSeen ==
    ASSUME IInv, NEW w \in Writes, NEW place \in Ended, GoTo(w, place),
           pc[w] \in {"snapshot", "get", "commit"}, read' = read,
           \/ pc[w] = "commit" /\ ~Collides(w) /\ Store(w)
           \/ place # "saved" /\ row' = row
    PROVE  Atomic!End(w, "saved") \/ Atomic!End(w, "failed")
<1>1. /\ Calls' = [Calls EXCEPT ![w] = Calls'[w]]
      /\ Dues' = [Dues EXCEPT ![w] = Dues'[w]]
      /\ pc'[w] = place
  BY OneCall
<1>2. Calls[w] = "open" /\ Dues'[w] = {}
  BY <1>1 DEF Calls, Dues, Changed, Ended
<1>3. Calls'[w] = IF place = "saved" THEN "saved" ELSE "failed"
  BY <1>1 DEF Calls, Ended
<1>4. Atomic!Put(w, Dues[w]) \/ (place # "saved" /\ Registers' = Registers)
  BY StoreSeen DEF Registers
<1> QED  BY <1>1, <1>2, <1>3, <1>4 DEF Atomic!End

LEMMA MemorySeen ==
    ASSUME IInv, Next
    PROVE  Atomic!Next \/ UNCHANGED Atomic!vars
<1>1. ASSUME NEW w \in Writes, Begin(w) PROVE Atomic!Next
  <2>0. PICK place \in {"snapshot", "get"} : GoTo(w, place)
    BY <1>1 DEF Begin
  <2>1. /\ Calls' = [Calls EXCEPT ![w] = Calls'[w]]
        /\ Dues' = [Dues EXCEPT ![w] = Dues'[w]]
        /\ pc'[w] = place /\ pc[w] = "idle"
    BY <1>1, <2>0, OneCall DEF Begin
  <2>2. Calls[w] = "idle" /\ Calls'[w] = "open" /\ Dues'[w] = Dues[w]
    BY <2>1 DEF Calls, Dues, Changed, Ended
  <2>3. Dues' = Dues  BY <2>1, <2>2 DEF Dues, Changed
  <2>4. Atomic!Begin(w)
    BY <1>1, <2>1, <2>2, <2>3 DEF Atomic!Begin, Begin, Registers
  <2> QED  BY <2>4 DEF Atomic!Next
<1>2. ASSUME NEW w \in Writes, Snapshot(w) PROVE UNCHANGED Atomic!vars
  <2>1. /\ Calls' = [Calls EXCEPT ![w] = Calls'[w]]
        /\ Dues' = [Dues EXCEPT ![w] = Dues'[w]]
        /\ pc'[w] = "get" /\ pc[w] = "snapshot"
    BY <1>2, OneCall DEF Snapshot
  <2>2. Calls'[w] = Calls[w] /\ Dues'[w] = Dues[w]
    BY <2>1 DEF Calls, Dues, Changed, Ended
  <2>3. Calls' = Calls /\ Dues' = Dues
    BY <2>1, <2>2 DEF Calls, Dues, Changed
  <2> QED  BY <1>2, <2>3 DEF Atomic!vars, Snapshot, Registers
<1>3. ASSUME NEW w \in Writes, Get(w) PROVE Atomic!Next
  <2>1. Columns \ Dues'[w] \in SUBSET Columns  OBVIOUS
  <2> QED  BY <1>3, <2>1, GetSeen DEF Atomic!Next
<1>4. ASSUME NEW w \in Writes, Commit(w) \/ Collide(w) \/ StoreFails(w) PROVE Atomic!Next
  <2>1. Atomic!End(w, "saved") \/ Atomic!End(w, "failed")
    BY <1>4, EndSeen DEF Commit, Collide, StoreFails, Ended
  <2> QED  BY <2>1 DEF Atomic!Next
<1>5. CASE UNCHANGED vars
  BY <1>5 DEF vars, Atomic!vars, Registers, Calls, Dues, Changed
<1> QED  BY <1>1, <1>2, <1>3, <1>4, <1>5 DEF Next

\* ChannelMemory implements ColumnRegisters, for any calls, rows, columns and
\* values and whatever fails: each column of the memory is an atomic register, so
\* that a finished write is never undone by one it was to replace; a row as a whole
\* is not (memory_torn_row).
THEOREM ColumnsAreAtomic == Spec => Refines
<1>1. Init => Atomic!Init
  BY DEF Init, Atomic!Init, Registers, Calls, Dues, Changed, Ended
<1>2. IInv /\ [Next]_vars => [Atomic!Next]_Atomic!vars
  <2>1. UNCHANGED vars => UNCHANGED Atomic!vars
    BY DEF vars, Atomic!vars, Registers, Calls, Dues, Changed
  <2> QED  BY <2>1, MemorySeen
<1> QED  BY <1>1, <1>2, MemoryInductive, PTL DEF Spec, Refines, Atomic!Spec
=============================================================================
