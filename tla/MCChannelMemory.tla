--------------------------- MODULE MCChannelMemory ---------------------------
(* An instance of ChannelMemory for TLC: calls that agree in a column, differ *)
(* in one or differ in both, on one shared row, and another row.              *)
EXTENDS ChannelMemory

CONSTANTS w1, w2, w3, r1, fact, state

MCPathOf == [w \in Writes |-> IF w \in Refreshes THEN state ELSE fact]

Both(content, kind) == [c \in Columns |-> IF c = "content" THEN content ELSE kind]
MCValue == [w \in Writes |->
    IF w = w1 THEN Both("a", "a") ELSE IF w = w2 THEN Both("b", "a")
    ELSE IF w = w3 THEN Both("a", "b") ELSE Both("b", "b")]
=============================================================================
