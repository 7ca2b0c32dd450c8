--------------------------- MODULE ColumnRegisters ---------------------------
(***************************************************************************)
(* What is left of "parallel threads can't corrupt" the shared memory      *)
(* (design, section on memory) when rows are written column by column:     *)
(* every column of a row is an atomic register.  A call writes each of its *)
(* columns at one moment between its beginning and its end, a saved call   *)
(* has written them all, a failed one perhaps some.  There is no row that  *)
(* is read first, no session and no commit here; ChannelMemory implements  *)
(* this specification.                                                     *)
(***************************************************************************)
CONSTANTS Writes, Paths, PathOf, Columns, Value, NoRow

VARIABLES
    column,  \* the registers of each row
    call,    \* idle, open, saved or failed
    due      \* the columns a call has still to write

vars == <<column, call, due>>

Init ==
    /\ column = [p \in Paths |-> [c \in Columns |-> NoRow]]
    /\ call = [w \in Writes |-> "idle"]
    /\ due = [w \in Writes |-> Columns]

Begin(w) ==
    /\ call[w] = "idle"
    /\ call' = [call EXCEPT ![w] = "open"]
    /\ UNCHANGED <<column, due>>

Put(w, some) ==
    column' = [column EXCEPT ![PathOf[w]] =
                  [c \in Columns |-> IF c \in some THEN Value[w][c] ELSE @[c]]]

\* Some of the columns that are due are written.
Write(w, some) ==
    /\ call[w] = "open" /\ some \subseteq due[w]
    /\ Put(w, some)
    /\ due' = [due EXCEPT ![w] = @ \ some]
    /\ UNCHANGED call

\* A saved call has written the rest; one that fails may have.
End(w, how) ==
    /\ call[w] = "open"
    /\ \/ Put(w, due[w])
       \/ how = "failed" /\ UNCHANGED column
    /\ call' = [call EXCEPT ![w] = how]
    /\ due' = [due EXCEPT ![w] = {}]

Next ==
    \E w \in Writes :
        \/ Begin(w) \/ End(w, "saved") \/ End(w, "failed")
        \/ \E some \in SUBSET Columns : Write(w, some)

Spec == Init /\ [][Next]_vars
=============================================================================
