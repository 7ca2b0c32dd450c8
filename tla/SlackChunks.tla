---------------------------- MODULE SlackChunks ----------------------------
(***************************************************************************)
(* split_for_slack of henry/slack/context.py: the loop that cuts a reply   *)
(* into messages.  A text is a sequence of characters of which only the    *)
(* newline matters; positions count from 0, as in the code, and a chunk is *)
(* the half-open interval of positions it takes from the text.             *)
(***************************************************************************)
EXTENDS Integers, Sequences

CONSTANTS Texts, Limits   \* the texts and limits it is called with

VARIABLES text, limit, start, chunks
vars == <<text, limit, start, chunks>>

Interval == [from : Nat, to : Nat]

TypeOK ==
    /\ text \in Seq({"x", "newline"}) /\ limit \in Nat \ {0}
    /\ start \in 0 .. Len(text)
    /\ chunks \in Seq(Interval)

\* A limit below 1 raises and the empty text returns at once.
Init ==
    /\ text \in (Texts \cap Seq({"x", "newline"})) \ {<<>>}
    /\ limit \in Limits \cap (Nat \ {0})
    /\ start = 0 /\ chunks = <<>>

\* text.rfind("\n", from, to), and -1 if there is none.
IsLastNewline(from, to, i) ==
    \/ /\ i \in from .. to - 1 /\ text[i + 1] = "newline"
       /\ \A j \in i + 1 .. to - 1 : text[j + 1] # "newline"
    \/ i = -1 /\ \A j \in from .. to - 1 : text[j + 1] # "newline"

\* Where the chunk that begins at `start` ends. The window of the search
\* includes the position `start + limit` itself.
IsCut(end) ==
    IF start + limit >= Len(text)
    THEN end = Len(text)
    ELSE \E i \in -1 .. start + limit :
            /\ IsLastNewline(start, start + limit + 1, i)
            /\ end = IF i > start THEN i + 1 ELSE start + limit

Cut ==
    /\ start < Len(text)
    /\ \E end \in 0 .. Len(text) :
          /\ IsCut(end)
          /\ chunks' = Append(chunks, [from |-> start, to |-> end])
          /\ start' = end
    /\ UNCHANGED <<text, limit>>

Done == start = Len(text) /\ UNCHANGED vars

Next == Cut \/ Done

Spec == Init /\ [][Next]_vars

-----------------------------------------------------------------------------
\* The chunks put together are the text so far: they follow each other from
\* position 0 to `start` and none is empty, so the loop ends.
TextPreserved ==
    /\ \A i \in DOMAIN chunks :
          /\ chunks[i].from < chunks[i].to
          /\ chunks[i].from = IF i = 1 THEN 0 ELSE chunks[i - 1].to
    /\ start = IF chunks = <<>> THEN 0 ELSE chunks[Len(chunks)].to

\* What test_slack_context.py asserts of the function (lines 103 and 111): every
\* chunk is within the limit. The text of the test has no line of exactly `limit`
\* characters; the newline after such a line goes with it (context.py, line 118).
ChunkWithinLimit == \A i \in DOMAIN chunks : chunks[i].to - chunks[i].from <= limit

\* What the function does keep: a chunk is over the limit only by the newline that
\* ends it.
ChunkNearLimit ==
    \A i \in DOMAIN chunks :
        \/ chunks[i].to - chunks[i].from <= limit
        \/ chunks[i].to - chunks[i].from = limit + 1 /\ text[chunks[i].to] = "newline"

\* A line is broken only where it has to be: a chunk that does not end with a
\* newline ends the text or has no newline past its first character.
LinesKeptWhole ==
    \A i \in DOMAIN chunks :
        \/ chunks[i].to = Len(text)
        \/ text[chunks[i].to] = "newline"
        \/ \A j \in chunks[i].from + 1 .. chunks[i].to - 1 : text[j + 1] # "newline"

=============================================================================
