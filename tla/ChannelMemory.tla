---------------------------- MODULE ChannelMemory ----------------------------
(***************************************************************************)
(* Concurrent writes of a channel's memory (henry/memory/postgres.py):     *)
(* remember on rows of channel_memory, refresh_snapshot on the channel's   *)
(* row of channel_state.  Each call opens a session of its own, reads the  *)
(* row and commits: an INSERT if there was none, else an UPDATE of those   *)
(* columns whose value differs from what was read, which is what the ORM   *)
(* flushes.  Postgres serializes the two steps of different calls at the   *)
(* row (READ COMMITTED), and nothing deletes rows.                         *)
(*                                                                         *)
(* A write without a path of its own gets a fresh one (_memory_path), and  *)
(* shares no row with another: the writes here name their path.            *)
(***************************************************************************)
EXTENDS FiniteSets

CONSTANTS
    Writes,      \* calls of remember and refresh_snapshot
    Refreshes,   \* those of refresh_snapshot
    Paths,       \* rows: (channel, path), or the snapshot of a channel
    PathOf,      \* the row a call writes
    Columns,     \* content, kind, metadata; or rolling_summary
    Contents,    \* values of columns
    Value,       \* what a call writes into each column
    StoreMayFail,
    NoRow

Rows == [Columns -> Contents]

ASSUME MemoryAssumption ==
    /\ Refreshes \subseteq Writes
    /\ PathOf \in [Writes -> Paths]
    /\ Columns # {} /\ Value \in [Writes -> Rows]
    /\ StoreMayFail \in BOOLEAN
    /\ NoRow \notin Rows \cup Writes

VARIABLES
    pc,      \* idle, snapshot, get, commit; saved, collided, raised
    row,     \* the database
    read,    \* the row a call has read, its ORM object
    before,  \* history: the calls that had ended when a call began
    writer   \* history: the call that last changed a column

vars == <<pc, row, read, before, writer>>

Ended == {"saved", "collided", "raised"}

TypeOK ==
    /\ pc \in [Writes -> {"idle", "snapshot", "get", "commit"} \cup Ended]
    /\ row \in [Paths -> Rows \cup {NoRow}]
    /\ read \in [Writes -> Rows \cup {NoRow}]
    /\ before \in [Writes -> SUBSET Writes]
    /\ writer \in [Paths -> [Columns -> Writes \cup {NoRow}]]

Init ==
    /\ pc = [w \in Writes |-> "idle"]
    /\ row = [p \in Paths |-> NoRow]
    /\ read = [w \in Writes |-> NoRow]
    /\ before = [w \in Writes |-> {}]
    /\ writer = [p \in Paths |-> [c \in Columns |-> NoRow]]

GoTo(w, place) == pc' = [pc EXCEPT ![w] = place]

Begin(w) ==
    /\ pc[w] = "idle"
    /\ GoTo(w, IF w \in Refreshes THEN "snapshot" ELSE "get")
    /\ before' = [before EXCEPT ![w] = {v \in Writes : pc[v] \in Ended}]
    /\ UNCHANGED <<row, read, writer>>

\* refresh_snapshot reads the state first, in a session of its own. Of what it
\* read, the summarizer copies open_tasks and key_facts, which nothing else writes:
\* they stay empty. rolling_summary is made of the transcript, which has at least
\* the mention. So what a refresh writes is an input here.
Snapshot(w) ==
    /\ pc[w] = "snapshot"
    /\ GoTo(w, "get")
    /\ UNCHANGED <<row, read, before, writer>>

\* Mutant: one session for all calls, whose object of the row stays as first read.
GetShared(w) ==
    /\ pc[w] = "get"
    /\ GoTo(w, "commit")
    /\ \/ \E v \in before[w] : PathOf[v] = PathOf[w] /\ read' = [read EXCEPT ![w] = read[v]]
       \/ /\ \A v \in before[w] : PathOf[v] # PathOf[w]
          /\ read' = [read EXCEPT ![w] = row[PathOf[w]]]
    /\ UNCHANGED <<row, before, writer>>

\* Mutant: the row is looked up under the path as given, not as stored.
GetUnstripped(w) ==
    /\ pc[w] = "get"
    /\ GoTo(w, "commit")
    /\ UNCHANGED <<row, read, before, writer>>

Get(w) ==
    /\ pc[w] = "get"
    /\ GoTo(w, "commit")
    /\ read' = [read EXCEPT ![w] = row[PathOf[w]]]
    /\ UNCHANGED <<row, before, writer>>

Changed(w) == {c \in Columns : read[w] = NoRow \/ Value[w][c] # read[w][c]}

\* Mutant: an existing row keeps the columns but one.
StoreOneColumn(w) ==
    LET p == PathOf[w] IN
    \E only \in Columns :
    /\ row' = [row EXCEPT ![p] =
                  [c \in Columns |-> IF c = only \/ read[w] = NoRow THEN Value[w][c] ELSE row[p][c]]]
    /\ writer' = [writer EXCEPT ![p] = [c \in Columns |-> IF c = only THEN w ELSE writer[p][c]]]

\* Mutant: the UPDATE makes a row of the changed columns only.
StoreReplaces(w) ==
    LET p == PathOf[w] IN
    /\ row' = [row EXCEPT ![p] = [c \in Changed(w) |-> Value[w][c]]]
    /\ writer' = [writer EXCEPT ![p] =
                  [c \in Columns |-> IF c \in Changed(w) THEN w ELSE writer[p][c]]]

\* The flushed INSERT or UPDATE.
Store(w) ==
    LET p == PathOf[w] IN
    /\ row' = [row EXCEPT ![p] =
                  [c \in Columns |-> IF c \in Changed(w) THEN Value[w][c] ELSE row[p][c]]]
    /\ writer' = [writer EXCEPT ![p] =
                  [c \in Columns |-> IF c \in Changed(w) THEN w ELSE writer[p][c]]]

\* The primary key refuses a second INSERT.
Collides(w) == read[w] = NoRow /\ row[PathOf[w]] # NoRow

Commit(w) ==
    /\ pc[w] = "commit" /\ ~Collides(w)
    /\ Store(w)
    /\ GoTo(w, "saved")
    /\ UNCHANGED <<read, before>>

\* The IntegrityError ends the tool call, and with it the run.
Collide(w) ==
    /\ pc[w] = "commit" /\ Collides(w)
    /\ GoTo(w, "collided")
    /\ UNCHANGED <<row, read, before, writer>>

\* The connection fails: a commit may have taken effect.
StoreFails(w) ==
    /\ StoreMayFail
    /\ pc[w] \in {"snapshot", "get", "commit"}
    /\ GoTo(w, "raised")
    /\ \/ UNCHANGED <<row, writer>>
       \/ pc[w] = "commit" /\ ~Collides(w) /\ Store(w)
    /\ UNCHANGED <<read, before>>

AllOver == \A w \in Writes : pc[w] \in Ended

Next ==
    \/ \E w \in Writes :
          Begin(w) \/ Snapshot(w) \/ Get(w) \/ Commit(w) \/ Collide(w) \/ StoreFails(w)
    \/ AllOver /\ UNCHANGED vars

Spec == Init /\ [][Next]_vars
-----------------------------------------------------------------------------
(* Properties                                                              *)

\* A saved write is not undone by what it was meant to replace: a column that
\* does not have its value was changed by a call that overlapped it or came
\* after, although each call flushes only the difference to what it has read.
NoStaleColumn ==
    \A w \in Writes, c \in Columns :
        LET p == PathOf[w] IN
        pc[w] = "saved" =>
            /\ row[p] # NoRow
            /\ row[p][c] = Value[w][c] \/ writer[p][c] \notin before[w] \cup {NoRow}

\* A write that nothing overlapped is the row until another call begins:
\* "Memory saved." means that a read will find all of it.
QuietWriteStands ==
    \A w \in Writes :
        (/\ pc[w] = "saved"
         /\ \A v \in Writes \ {w} :
               PathOf[v] = PathOf[w] => pc[v] = "idle" \/ v \in before[w])
        => row[PathOf[w]] = Value[w]

\* Saving a memory fails on the primary key only in a race on first contact:
\* another call, not over when this one began, has made the row.
CollisionNeedsRace ==
    \A w \in Writes : pc[w] = "collided" =>
        \E v \in Writes \ {w} :
            PathOf[v] = PathOf[w] /\ v \notin before[w] /\ pc[v] \in Ended
                /\ read[v] = NoRow

\* Rows are "guarded by Postgres transactions so parallel threads can't corrupt
\* them" (design, line 161): a row is one that some call wrote.
RowIsOneWrite ==
    \A p \in Paths : row[p] # NoRow =>
        \E w \in Writes : PathOf[w] = p /\ row[p] = Value[w]

-----------------------------------------------------------------------------
(* What it implements: a column takes a call's value when the call reads     *)
(* that value, or else when it commits it.                                   *)

Registers == [p \in Paths |-> [c \in Columns |-> IF row[p] = NoRow THEN NoRow ELSE row[p][c]]]

Calls == [w \in Writes |->
    IF pc[w] \in {"idle", "saved"} THEN pc[w]
    ELSE IF pc[w] \in Ended THEN "failed" ELSE "open"]

\* What a call has flushed is no longer due.
Dues == [w \in Writes |->
    IF pc[w] \in Ended THEN {} ELSE IF pc[w] = "commit" THEN Changed(w) ELSE Columns]

Atomic == INSTANCE ColumnRegisters WITH column <- Registers, call <- Calls, due <- Dues

\* Every column is linearizable, although no call locks its row and each flushes
\* only its difference to a row that others may have written since.
Refines == Atomic!Spec
=============================================================================
