--------------------------- MODULE SlackChunksProofs ---------------------------
(* Proofs about split_for_slack for texts and limits of every size.         *)
EXTENDS SlackChunks, TLAPS

\* Where the next chunk ends: past its start, inside the text, and at most one
\* position, that of a newline, past the limit.
LEMMA CutBounds ==
    ASSUME TypeOK, start < Len(text), NEW end \in 0 .. Len(text), IsCut(end)
    PROVE  /\ start < end
           /\ end - start <= limit \/ (end - start = limit + 1 /\ text[end] = "newline")
<1>1. limit \in Nat \ {0} /\ start \in Nat /\ Len(text) \in Nat
  BY DEF TypeOK
<1>2. CASE start + limit >= Len(text)
  <2>1. start < end /\ end - start <= limit
    BY <1>1, <1>2 DEF IsCut
  <2> QED  BY <2>1
<1>3. CASE ~(start + limit >= Len(text))
  <2>1. PICK i \in -1 .. start + limit :
           /\ IsLastNewline(start, start + limit + 1, i)
           /\ end = IF i > start THEN i + 1 ELSE start + limit
    BY <1>3 DEF IsCut
  <2>2. CASE i > start
    <3>1. text[i + 1] = "newline" /\ end = i + 1
      BY <1>1, <2>1, <2>2 DEF IsLastNewline
    <3>2. start < end /\ (end - start <= limit \/ end - start = limit + 1)
      BY <1>1, <2>1, <2>2
    <3> QED  BY <3>1, <3>2
  <2>3. CASE ~(i > start)
    <3>1. start < end /\ end - start <= limit
      BY <1>1, <2>1, <2>3
    <3> QED  BY <3>1
  <2> QED  BY <2>2, <2>3
<1> QED  BY <1>2, <1>3

\* A chunk that breaks off inside a line had no newline to end at.
LEMMA CutKeepsLines ==
    ASSUME TypeOK, start < Len(text), NEW end \in 0 .. Len(text), IsCut(end)
    PROVE  \/ end = Len(text)
           \/ text[end] = "newline"
           \/ \A j \in start + 1 .. end - 1 : text[j + 1] # "newline"
<1>1. limit \in Nat \ {0} /\ start \in Nat /\ Len(text) \in Nat
  BY DEF TypeOK
<1>2. CASE start + limit >= Len(text)
  BY <1>1, <1>2 DEF IsCut
<1>3. CASE ~(start + limit >= Len(text))
  <2>1. PICK i \in -1 .. start + limit :
           /\ IsLastNewline(start, start + limit + 1, i)
           /\ end = IF i > start THEN i + 1 ELSE start + limit
    BY <1>3 DEF IsCut
  <2>2. CASE i > start
    <3>1. text[i + 1] = "newline"
      BY <1>1, <2>1, <2>2 DEF IsLastNewline
    <3> QED  BY <2>1, <2>2, <3>1
  <2>3. CASE ~(i > start)
    <3>1. end = start + limit
      BY <2>1, <2>3
    <3>2. ASSUME NEW j \in start + 1 .. end - 1 PROVE text[j + 1] # "newline"
      <4>1. j \in start .. start + limit + 1 - 1 /\ j \in i + 1 .. start + limit + 1 - 1
        BY <1>1, <2>1, <2>3, <3>1
      <4> QED  BY <2>1, <4>1 DEF IsLastNewline
    <3> QED  BY <3>2
  <2> QED  BY <2>2, <2>3
<1> QED  BY <1>2, <1>3

\* The invariants together are inductive.
ChunksInv == TypeOK /\ TextPreserved /\ ChunkNearLimit /\ LinesKeptWhole

LEMMA ChunksInit == Init => ChunksInv
  BY DEF Init, ChunksInv, TypeOK, TextPreserved, ChunkNearLimit, LinesKeptWhole

LEMMA ChunksStep == ChunksInv /\ [Next]_vars => ChunksInv'
<1> SUFFICES ASSUME ChunksInv, [Next]_vars PROVE ChunksInv'
  OBVIOUS
<1>1. CASE Cut
  <2>1. TypeOK /\ start < Len(text) /\ text' = text /\ limit' = limit
    BY <1>1 DEF Cut, ChunksInv
  <2>2. PICK end \in 0 .. Len(text) :
           /\ IsCut(end)
           /\ chunks' = Append(chunks, [from |-> start, to |-> end])
           /\ start' = end
    BY <1>1 DEF Cut
  <2>3. /\ start < end
        /\ end - start <= limit \/ (end - start = limit + 1 /\ text[end] = "newline")
    BY <2>1, <2>2, CutBounds
  <2>4. limit \in Nat /\ start \in Nat /\ Len(text) \in Nat /\ chunks \in Seq(Interval)
    BY <2>1 DEF TypeOK
  <2>5. [from |-> start, to |-> end] \in Interval
    BY <2>4 DEF Interval
  <2>6. TypeOK'
    BY <2>1, <2>2, <2>4, <2>5 DEF TypeOK
  <2>7. /\ Len(chunks') = Len(chunks) + 1 /\ Len(chunks) \in Nat
        /\ DOMAIN chunks' = 1 .. Len(chunks) + 1 /\ DOMAIN chunks = 1 .. Len(chunks)
        /\ \A i \in 1 .. Len(chunks) : chunks'[i] = chunks[i]
        /\ chunks'[Len(chunks) + 1] = [from |-> start, to |-> end]
    BY <2>2, <2>4, <2>5
  <2>8. TextPreserved'
    <3>1. start = IF Len(chunks) = 0 THEN 0 ELSE chunks[Len(chunks)].to
      BY <2>4 DEF ChunksInv, TextPreserved
    <3>2. start' = chunks'[Len(chunks')].to /\ chunks' # <<>>
      BY <2>2, <2>7
    <3>3. ASSUME NEW i \in DOMAIN chunks'
          PROVE  /\ chunks'[i].from < chunks'[i].to
                 /\ chunks'[i].from = IF i = 1 THEN 0 ELSE chunks'[i - 1].to
      <4>1. CASE i \in 1 .. Len(chunks)
        <5>1. chunks'[i] = chunks[i] /\ (i # 1 => chunks'[i - 1] = chunks[i - 1])
          BY <2>7, <4>1
        <5> QED  BY <2>7, <4>1, <5>1 DEF ChunksInv, TextPreserved
      <4>2. CASE i = Len(chunks) + 1
        <5>1. i # 1 => chunks'[i - 1] = chunks[Len(chunks)]
          BY <2>7, <4>2
        <5> QED  BY <2>3, <2>7, <3>1, <4>2, <5>1
      <4> QED  BY <2>7, <4>1, <4>2
    <3> QED  BY <3>2, <3>3 DEF TextPreserved
  <2>9. ChunkNearLimit'
    BY <2>1, <2>3, <2>7 DEF ChunksInv, ChunkNearLimit
  <2>10. LinesKeptWhole'
    <3>1. \/ end = Len(text)
          \/ text[end] = "newline"
          \/ \A j \in start + 1 .. end - 1 : text[j + 1] # "newline"
      BY <2>1, <2>2, CutKeepsLines
    <3>2. ASSUME NEW i \in DOMAIN chunks'
          PROVE  \/ chunks'[i].to = Len(text)
                 \/ text[chunks'[i].to] = "newline"
                 \/ \A j \in chunks'[i].from + 1 .. chunks'[i].to - 1 :
                       text[j + 1] # "newline"
      <4>1. CASE i \in 1 .. Len(chunks)
        BY <2>7, <4>1 DEF ChunksInv, LinesKeptWhole
      <4>2. CASE i = Len(chunks) + 1
        BY <2>7, <3>1, <4>2
      <4> QED  BY <2>7, <4>1, <4>2
    <3> QED  BY <2>1, <3>2 DEF LinesKeptWhole
  <2> QED  BY <2>6, <2>8, <2>9, <2>10 DEF ChunksInv
<1>2. CASE UNCHANGED vars
  BY <1>2 DEF vars, ChunksInv, TypeOK, TextPreserved, ChunkNearLimit, LinesKeptWhole
<1> QED  BY <1>1, <1>2 DEF Next, Done

LEMMA ChunksInductive == Spec => []ChunksInv
  BY ChunksInit, ChunksStep, PTL DEF Spec

\* The loop's variables keep their types: it never runs past the text.
THEOREM ChunksTypeCorrect == Spec => []TypeOK
<1>1. ChunksInv => TypeOK  BY DEF ChunksInv
<1> QED  BY <1>1, ChunksInductive, PTL

\* Nothing is lost, repeated or reordered by cutting, and no chunk is empty.
THEOREM NothingLost == Spec => []TextPreserved
<1>1. ChunksInv => TextPreserved  BY DEF ChunksInv
<1> QED  BY <1>1, ChunksInductive, PTL

\* The limit is exceeded by the newline that ends a full line, and by nothing else:
\* how far ChunkWithinLimit, which the tests assert, is from what the code does.
THEOREM LimitPlusOne == Spec => []ChunkNearLimit
<1>1. ChunksInv => ChunkNearLimit  BY DEF ChunksInv
<1> QED  BY <1>1, ChunksInductive, PTL

\* Lines are only broken when they do not fit.
THEOREM LinesStayWhole == Spec => []LinesKeptWhole
<1>1. ChunksInv => LinesKeptWhole  BY DEF ChunksInv
<1> QED  BY <1>1, ChunksInductive, PTL
===============================================================================
