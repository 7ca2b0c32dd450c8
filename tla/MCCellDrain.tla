----------------------------- MODULE MCCellDrain -----------------------------
(* An instance of CellDrain for TLC. The budgets are small enough for every *)
(* cut and drop: a name, a value or a frame over its own limit, an item over *)
(* its limit, a full list, and a list that is full but for a few bytes.      *)
EXTENDS CellDrain

Of(own, kind)   == [own |-> own, kind |-> kind]
Sized(kind, n)  == [own |-> TRUE, kind |-> kind, size |-> n]
Raised(name, value, ends) ==
    [own |-> TRUE, kind |-> "error", name |-> name, value |-> value, ends |-> ends]

MCMessages ==
    {Of(FALSE, "other"), Of(TRUE, "other"), Of(TRUE, "idle")}
        \cup {Sized("stream", n) : n \in {0, 1, 4, 9}}
        \cup {Sized("bundle", n) : n \in {0, 3, 9}}
        \cup {Raised(1, 0, <<>>), Raised(1, 2, <<2, 4>>), Raised(4, 4, <<5>>),
              Raised(1, 1, <<1, 3>>), Raised(0, 0, <<3, 4, 9>>)}
=============================================================================
