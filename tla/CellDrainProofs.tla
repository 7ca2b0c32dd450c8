--------------------------- MODULE CellDrainProofs ---------------------------
(***************************************************************************)
(* CellDrain for any messages, any budgets and any number of outputs: its  *)
(* types, the budgets, that nothing is lost silently, that the order is    *)
(* kept, that every output leaves a trace while there is room for one, and *)
(* what "ok" and the text for the agent are worth.                         *)
(***************************************************************************)
EXTENDS CellDrain, TLAPS

Output == [kind : OutputKinds \cup {"dropped"}, size : Nat, of : Nat]

-----------------------------------------------------------------------------
(* The budgets                                                             *)

\* What is left is an integer, and what fits is within both budgets.
LEMMA RoomIsInt ==
    ASSUME TypeOK
    PROVE  /\ Room \in Int /\ Separator \in {0, 2}
           /\ Room <= MaxItemBytes
           /\ used + Separator + Room <= MaxTotalBytes
  BY CellAssumption DEF TypeOK, Room, Separator

\* The binary search keeps a prefix, all of it exactly if it fits, and if it
\* keeps anything the result fits.
LEMMA FittedPrefix ==
    ASSUME TypeOK, NEW n \in Nat, NEW base \in Nat
    PROVE  /\ Fitted(n, base) \in 0 .. n
           /\ Fits(base + n) => Fitted(n, base) = n
           /\ Fits(base) => Fits(base + Fitted(n, base))
           /\ Fitted(n, base) > 0 => Fits(base + Fitted(n, base))
           /\ n > 0 /\ Fits(base + 1) => Fitted(n, base) > 0
  BY RoomIsInt DEF Fitted, Fits

\* The same for a field of an error, which has a limit of its own.
LEMMA CappedPrefix ==
    ASSUME TypeOK, NEW n \in Nat, NEW base \in Nat
    PROVE  /\ Capped(n, base) \in 0 .. n
           /\ ~Cut(n, base) => Capped(n, base) = n
           /\ Fits(base) => Fits(base + Capped(n, base))
           /\ Capped(n, base) > 0 => Fits(base + Capped(n, base))
  <1> DEFINE short == IF n <= MaxFieldBytes THEN n ELSE MaxFieldBytes
  <1>1. short \in Nat /\ short <= n /\ (n <= MaxFieldBytes => short = n)
    BY CellAssumption
  <1>2. Capped(n, base) = Fitted(short, base)
    BY DEF Capped
  <1>3. ~Cut(n, base) => Fits(base + short) /\ short = n
    BY <1>1, CellAssumption DEF Cut
  <1>4. /\ Fitted(short, base) \in 0 .. short
        /\ Fits(base + short) => Fitted(short, base) = short
        /\ Fits(base) => Fits(base + Fitted(short, base))
        /\ Fitted(short, base) > 0 => Fits(base + Fitted(short, base))
    <2> HIDE DEF short
    <2>1. QED BY <1>1, FittedPrefix
  <1>5. Capped(n, base) \in 0 .. n
    <2> HIDE DEF short
    <2>1. QED BY <1>1, <1>2, <1>4
  <1> HIDE DEF short
  <1>6. QED
    BY <1>2, <1>3, <1>4, <1>5

\* A list that takes an output in keeps its type and its budgets.
ListOK ==
    /\ outputs \in Seq(Output) /\ used \in Nat /\ truncated \in BOOLEAN
    /\ Len(outputs) <= MaxItems /\ used <= MaxTotalBytes
    /\ \A i \in DOMAIN outputs : outputs[i].size <= MaxItemBytes

LEMMA OfferKeepsBudgets ==
    ASSUME TypeOK, WithinBudget, pc = "iopub",
           NEW kind \in OutputKinds \cup {"dropped"}, NEW size \in Nat,
           NEW cut \in BOOLEAN, Offer(kind, size, cut)
    PROVE  ListOK'
  <1> DEFINE new == [kind |-> kind, size |-> size, of |-> Len(seen) + 1]
  <1>0. truncated' \in BOOLEAN
    BY DEF Offer, TypeOK, Accepts, Fits
  <1>1. CASE Accepts(size)
    <2>1. outputs' = Append(outputs, new) /\ used' = used + Separator + size
      BY <1>1 DEF Offer
    <2>2. new \in Output /\ outputs \in Seq(Output)
      BY DEF TypeOK, Output
    <2>3. size <= Room /\ Len(outputs) < MaxItems
      BY <1>1 DEF Accepts, Fits
    <2>4. outputs' \in Seq(Output) /\ Len(outputs') <= MaxItems
      BY <2>1, <2>2, <2>3, CellAssumption
    <2>5. used' \in Nat /\ used' <= MaxTotalBytes
      BY <2>1, <2>3, RoomIsInt, CellAssumption DEF TypeOK
    <2>6. new.size <= MaxItemBytes
      BY <2>3, RoomIsInt, CellAssumption
    <2>7. \A i \in DOMAIN outputs' : outputs'[i].size <= MaxItemBytes
      <3> TAKE i \in DOMAIN outputs'
      <3>1. i \in 1 .. Len(outputs) + 1
        BY <2>1, <2>2
      <3>2. CASE i = Len(outputs) + 1
        BY <3>2, <2>1, <2>2, <2>6
      <3>3. CASE i \in 1 .. Len(outputs)
        BY <3>3, <2>1, <2>2 DEF WithinBudget
      <3>4. QED BY <3>1, <3>2, <3>3
    <2>8. QED BY <1>0, <2>4, <2>5, <2>7 DEF ListOK
  <1>2. CASE ~Accepts(size)
    BY <1>0, <1>2 DEF ListOK, Offer, TypeOK, WithinBudget, Output
  <1>3. QED BY <1>1, <1>2

-----------------------------------------------------------------------------
(* What the list says of the messages                                      *)

Collected == (~truncated => Complete) /\ Ordered /\ Traced

\* The room for outputs never grows.
LEMMA RoomShrinks ==
    ASSUME TypeOK, NEW size \in Nat,
           outputs' # <<>>, used' = used + Separator + size
    PROVE  Fits(PlaceholderHead)' => Fits(PlaceholderHead)
  BY CellAssumption DEF TypeOK, Fits, Room, Separator

\* An output that is left out and flagged keeps what the list says, if there
\* was no room for a placeholder either.
LEMMA DropKeepsCollected ==
    ASSUME TypeOK, Collected, NEW m \in Messages, seen' = Append(seen, m),
           outputs' = outputs, used' = used, truncated' = TRUE,
           Len(outputs) < MaxItems /\ Fits(PlaceholderHead) => HasEmptyFrame(m)
    PROVE  Collected'
  <1>1. /\ DOMAIN seen' = 1 .. Len(seen) + 1 /\ seen'[Len(seen) + 1] = m
        /\ DOMAIN seen = 1 .. Len(seen)
        /\ \A n \in DOMAIN seen : seen'[n] = seen[n]
    BY DEF TypeOK
  <1>2. Ordered'
    <2> SUFFICES ASSUME NEW i \in DOMAIN outputs
                 PROVE  /\ \A j \in 1 .. i - 1 : outputs[j].of < outputs[i].of
                        /\ outputs[i].of \in DOMAIN seen'
                        /\ \/ /\ outputs[i].kind = seen'[outputs[i].of].kind
                              /\ outputs[i].size <= WholeSize(seen'[outputs[i].of])
                           \/ /\ outputs[i].kind = "dropped"
                              /\ seen'[outputs[i].of].kind = "bundle"
      BY DEF Ordered, WholeSize, EndOf
    <2>1. /\ \A j \in 1 .. i - 1 : outputs[j].of < outputs[i].of
          /\ outputs[i].of \in DOMAIN seen
          /\ \/ /\ outputs[i].kind = seen[outputs[i].of].kind
                /\ outputs[i].size <= WholeSize(seen[outputs[i].of])
             \/ /\ outputs[i].kind = "dropped"
                /\ seen[outputs[i].of].kind = "bundle"
      BY DEF Collected, Ordered
    <2>2. seen'[outputs[i].of] = seen[outputs[i].of] /\ outputs[i].of \in DOMAIN seen'
      BY <2>1, <1>1
    <2>3. QED BY <2>1, <2>2
  <1>3. Traced'
    <2> SUFFICES ASSUME Len(outputs) < MaxItems, Fits(PlaceholderHead),
                        NEW n \in DOMAIN seen'
                 PROVE  \/ \E i \in DOMAIN outputs : outputs[i].of = n
                        \/ HasEmptyFrame(seen'[n])
      BY DEF Traced, HasEmptyFrame, ErrorFrames, Frame, EndOf, Fits, Room, Separator
    <2>1. HasEmptyFrame(m)
      OBVIOUS
    <2>2. CASE n \in DOMAIN seen
      BY <2>2, <1>1 DEF Collected, Traced
    <2>3. QED BY <2>1, <2>2, <1>1
  <1>4. QED BY <1>2, <1>3 DEF Collected

\* An offer that stands for the next message, and is whole unless it is
\* flagged, keeps the list complete, in order and traced.
LEMMA OfferKeepsCollected ==
    ASSUME TypeOK, Collected, NEW m \in Messages, seen' = Append(seen, m),
           NEW kind \in OutputKinds \cup {"dropped"}, NEW size \in Nat,
           NEW cut \in BOOLEAN, Offer(kind, size, cut),
           \/ kind = m.kind /\ size <= WholeSize(m)
           \/ kind = "dropped" /\ m.kind = "bundle",
           ~cut => kind = m.kind /\ size = WholeSize(m),
           Fits(PlaceholderHead) => Fits(size) \/ HasEmptyFrame(m)
    PROVE  Collected'
  <1> DEFINE new == [kind |-> kind, size |-> size, of |-> Len(seen) + 1]
  <1>1. /\ seen \in Seq(Messages) /\ outputs \in Seq(Output)
        /\ new \in Output /\ Len(seen) \in Nat
    BY DEF TypeOK, Output
  <1>2. /\ DOMAIN seen' = 1 .. Len(seen) + 1 /\ seen'[Len(seen) + 1] = m
        /\ DOMAIN seen = 1 .. Len(seen)
        /\ \A n \in DOMAIN seen : seen'[n] = seen[n]
    BY <1>1
  <1>3. CASE Accepts(size)
    <2>1. outputs' = Append(outputs, new) /\ used' = used + Separator + size
      BY <1>3 DEF Offer
    <2>2. /\ DOMAIN outputs' = 1 .. Len(outputs) + 1
          /\ outputs'[Len(outputs) + 1] = new /\ DOMAIN outputs = 1 .. Len(outputs)
          /\ Len(outputs) \in Nat /\ Len(outputs') = Len(outputs) + 1
          /\ \A i \in DOMAIN outputs : outputs'[i] = outputs[i]
      BY <1>1, <2>1
    <2>3. ASSUME ~truncated' PROVE Complete'
      <3>1. ~truncated /\ ~cut
        BY <2>3 DEF Offer
      <3>2. Complete /\ kind = m.kind /\ size = WholeSize(m)
        BY <3>1 DEF Collected
      <3>3. Len(outputs) = Len(seen)
        <4>1. DOMAIN outputs = DOMAIN seen
          BY <3>2 DEF Complete
        <4>2. QED BY <4>1, <1>2, <2>2
      <3>4. \A i \in DOMAIN outputs' : outputs'[i] =
              [kind |-> seen'[i].kind, size |-> WholeSize(seen'[i]), of |-> i]
        <4> TAKE i \in DOMAIN outputs'
        <4>1. CASE i = Len(outputs) + 1
          BY <4>1, <3>2, <3>3, <1>2, <2>2
        <4>2. CASE i \in DOMAIN outputs
          <5>1. i \in DOMAIN seen /\ outputs'[i] = outputs[i] /\ seen'[i] = seen[i]
            BY <4>2, <3>3, <1>2, <2>2
          <5>2. outputs[i] =
                  [kind |-> seen[i].kind, size |-> WholeSize(seen[i]), of |-> i]
            BY <5>1, <3>2 DEF Complete
          <5>3. WholeSize(seen'[i]) = WholeSize(seen[i])
            BY <5>1 DEF WholeSize, EndOf
          <5>4. QED BY <5>1, <5>2, <5>3
        <4>3. i = Len(outputs) + 1 \/ i \in DOMAIN outputs
          BY <2>2
        <4>4. QED BY <4>1, <4>2, <4>3
      <3>5. DOMAIN outputs' = DOMAIN seen'
        BY <3>3, <1>2, <2>2
      <3>6. outputs' = [i \in DOMAIN outputs' |-> outputs'[i]]
        BY <1>1, <2>1
      <3>7. QED BY <3>4, <3>5, <3>6 DEF Complete, WholeSize, EndOf
    <2>4. Ordered'
      <3> SUFFICES ASSUME NEW i \in DOMAIN outputs'
                   PROVE  /\ \A j \in 1 .. i - 1 : outputs'[j].of < outputs'[i].of
                          /\ outputs'[i].of \in DOMAIN seen'
                          /\ \/ /\ outputs'[i].kind = seen'[outputs'[i].of].kind
                                /\ outputs'[i].size <= WholeSize(seen'[outputs'[i].of])
                             \/ /\ outputs'[i].kind = "dropped"
                                /\ seen'[outputs'[i].of].kind = "bundle"
        BY DEF Ordered, WholeSize, EndOf
      <3>1. CASE i = Len(outputs) + 1
        <4>1. \A j \in DOMAIN outputs : outputs[j].of \in DOMAIN seen
          BY DEF Collected, Ordered
        <4>2. \A j \in 1 .. i - 1 : outputs'[j].of < outputs'[i].of
          BY <3>1, <4>1, <1>2, <2>2
        <4>3. outputs'[i] = new /\ seen'[new.of] = m
          BY <3>1, <1>2, <2>2
        <4>4. QED BY <4>2, <4>3, <1>2
      <3>2. CASE i \in DOMAIN outputs
        <4>1. /\ \A j \in 1 .. i - 1 : outputs[j].of < outputs[i].of
              /\ outputs[i].of \in DOMAIN seen
              /\ \/ /\ outputs[i].kind = seen[outputs[i].of].kind
                    /\ outputs[i].size <= WholeSize(seen[outputs[i].of])
                 \/ /\ outputs[i].kind = "dropped"
                    /\ seen[outputs[i].of].kind = "bundle"
          BY <3>2 DEF Collected, Ordered
        <4>2. outputs'[i] = outputs[i] /\ seen'[outputs[i].of] = seen[outputs[i].of]
          BY <3>2, <4>1, <1>2, <2>2
        <4>3. \A j \in 1 .. i - 1 : j \in DOMAIN outputs /\ outputs'[j] = outputs[j]
          BY <3>2, <2>2
        <4>4. outputs[i].of \in DOMAIN seen'
          BY <4>1, <1>2
        <4>5. QED BY <4>1, <4>2, <4>3, <4>4
      <3>3. QED BY <3>1, <3>2, <2>2
    <2>5. Traced'
      <3> SUFFICES ASSUME Len(outputs') < MaxItems, Fits(PlaceholderHead)',
                          NEW n \in DOMAIN seen'
                   PROVE  \/ \E i \in DOMAIN outputs' : outputs'[i].of = n
                          \/ HasEmptyFrame(seen'[n])
        BY DEF Traced, HasEmptyFrame, ErrorFrames, Frame, EndOf
      <3>1. CASE n = Len(seen) + 1
        BY <3>1, <2>2
      <3>2. CASE n \in DOMAIN seen
        <4>1. outputs' # <<>>
          BY <2>2
        <4>2. Len(outputs) < MaxItems /\ Fits(PlaceholderHead)
          BY <4>1, <2>1, <2>2, RoomShrinks, CellAssumption
        <4>3. \/ \E i \in DOMAIN outputs : outputs[i].of = n
              \/ HasEmptyFrame(seen[n])
          BY <3>2, <4>2 DEF Collected, Traced
        <4>4. QED BY <3>2, <4>3, <1>2, <2>2
      <3>3. QED BY <3>1, <3>2, <1>2
    <2>6. QED BY <2>3, <2>4, <2>5 DEF Collected
  <1>4. CASE ~Accepts(size)
    BY <1>4, DropKeepsCollected DEF Offer, Accepts
  <1>5. QED BY <1>3, <1>4

-----------------------------------------------------------------------------
(* The three kinds of output                                               *)

LEMMA StreamKeeps ==
    ASSUME TypeOK, WithinBudget, Collected, pc = "iopub",
           NEW m \in Messages, m.kind = "stream", seen' = Append(seen, m), PutStream(m)
    PROVE  ListOK' /\ Collected'
  <1> DEFINE kept == Fitted(m.size, StreamHead)
             cut  == ~Fits(StreamHead + m.size)
  <1>1. m.size \in Nat /\ StreamHead \in Nat /\ cut \in BOOLEAN
    BY CellAssumption DEF Fits
  <1>2. /\ kept \in 0 .. m.size /\ (~cut => kept = m.size)
        /\ Fits(StreamHead) => Fits(StreamHead + kept)
        /\ m.size > 0 /\ Fits(StreamHead + 1) => kept > 0
    BY <1>1, FittedPrefix
  <1>3. Fits(PlaceholderHead) => Fits(StreamHead) /\ Fits(StreamHead + 1)
    BY RoomIsInt, CellAssumption DEF Fits
  <1>4. WholeSize(m) = StreamHead + m.size
    BY DEF WholeSize
  <1>5. CASE kept > 0 \/ m.size = 0
    <2>1. Offer("stream", StreamHead + kept, cut)
      BY <1>5 DEF PutStream
    <2> HIDE DEF kept, cut
    <2>2. StreamHead + kept \in Nat /\ StreamHead + kept <= WholeSize(m)
          /\ (~cut => StreamHead + kept = WholeSize(m))
      BY <1>1, <1>2, <1>4
    <2>3. ListOK'
      BY <2>1, <2>2, <1>1, OfferKeepsBudgets DEF OutputKinds
    <2>4. Collected'
      BY <2>1, <2>2, <1>1, <1>2, <1>3, OfferKeepsCollected DEF OutputKinds
    <2>5. QED BY <2>3, <2>4
  <1>6. CASE ~(kept > 0 \/ m.size = 0)
    <2>1. outputs' = outputs /\ used' = used /\ truncated' = (truncated \/ cut)
      BY <1>6 DEF PutStream
    <2> HIDE DEF kept, cut
    <2>2. cut /\ ~Fits(PlaceholderHead)
      BY <1>1, <1>2, <1>3, <1>6
    <2>3. truncated' = TRUE
      BY <2>1, <2>2
    <2>4. ListOK'
      BY <2>1, <2>3 DEF ListOK, TypeOK, WithinBudget, Output
    <2>5. QED BY <2>1, <2>2, <2>3, <2>4, DropKeepsCollected
  <1>7. QED BY <1>5, <1>6

LEMMA BundleKeeps ==
    ASSUME TypeOK, WithinBudget, Collected, pc = "iopub",
           NEW m \in Messages, m.kind = "bundle", seen' = Append(seen, m), PutBundle(m)
    PROVE  ListOK' /\ Collected'
  <1> DEFINE kept == Fitted(ReasonLength, PlaceholderHead)
  <1>1. m.size \in Nat /\ BundleHead + m.size \in Nat
    BY CellAssumption
  <1>2. WholeSize(m) = BundleHead + m.size
    BY DEF WholeSize
  <1>3. kept \in Nat /\ (Fits(PlaceholderHead) => Fits(PlaceholderHead + kept))
    <2>1. ReasonLength \in Nat /\ PlaceholderHead \in Nat
      BY CellAssumption
    <2>2. kept \in 0 .. ReasonLength
      BY <2>1, FittedPrefix
    <2>3. Fits(PlaceholderHead) => Fits(PlaceholderHead + kept)
      BY <2>1, FittedPrefix
    <2> HIDE DEF kept
    <2>4. QED BY <2>1, <2>2, <2>3
  <1>4. CASE Accepts(BundleHead + m.size)
    <2>1. Offer("bundle", BundleHead + m.size, FALSE) /\ Fits(BundleHead + m.size)
      BY <1>4 DEF PutBundle, Accepts
    <2>2. BundleHead + m.size <= WholeSize(m)
      BY <1>1, <1>2
    <2>3. ListOK'
      BY <2>1, <1>1, OfferKeepsBudgets DEF OutputKinds
    <2>4. Collected'
      BY <2>1, <2>2, <1>1, <1>2, OfferKeepsCollected DEF OutputKinds
    <2>5. QED BY <2>3, <2>4
  <1>5. CASE ~Accepts(BundleHead + m.size)
    <2>1. Offer("dropped", PlaceholderHead + kept, TRUE)
      BY <1>5 DEF PutBundle
    <2> HIDE DEF kept
    <2>2. PlaceholderHead + kept \in Nat
      BY <1>3, CellAssumption
    <2>3. ListOK'
      BY <2>1, <2>2, OfferKeepsBudgets
    <2>4. Collected'
      BY <2>1, <2>2, <1>3, OfferKeepsCollected
    <2>5. QED BY <2>3, <2>4
  <1>6. QED BY <1>4, <1>5

\* What frames cost never decreases.
LEMMA FramesCost ==
    ASSUME NEW m \in Messages, m.kind = "error"
    PROVE  /\ m.name \in Nat /\ m.value \in Nat /\ Len(m.ends) \in Nat
           /\ ErrorFrames(m) = 1 .. Len(m.ends)
           /\ \A i \in 0 .. Len(m.ends) :
                 EndOf(m, i) \in Nat /\ EndOf(m, i) <= EndOf(m, Len(m.ends))
           /\ \A i \in 1 .. Len(m.ends) :
                 /\ Frame(m, i) \in Nat
                 /\ EndOf(m, i - 1) + FrameCost + Frame(m, i) = EndOf(m, i)
  <1>1. /\ m.name \in Nat /\ m.value \in Nat /\ m.ends \in Seq(Nat)
        /\ \A i \in {0} \cup ErrorFrames(m) : \A j \in ErrorFrames(m) :
              i < j => EndOf(m, i) + FrameCost <= EndOf(m, j)
        /\ FrameCost \in Nat
    BY CellAssumption
  <1>2. Len(m.ends) \in Nat /\ ErrorFrames(m) = 1 .. Len(m.ends)
    BY <1>1 DEF ErrorFrames
  <1>3. \A i \in 0 .. Len(m.ends) : EndOf(m, i) \in Nat
    BY <1>1, <1>2 DEF EndOf
  <1>4. ASSUME NEW i \in 0 .. Len(m.ends) PROVE EndOf(m, i) <= EndOf(m, Len(m.ends))
    <2>1. CASE i = Len(m.ends)
      BY <2>1, <1>2, <1>3
    <2>2. CASE i < Len(m.ends)
      <3>1. i \in {0} \cup ErrorFrames(m) /\ Len(m.ends) \in ErrorFrames(m)
        BY <2>2, <1>2
      <3>2. EndOf(m, i) + FrameCost <= EndOf(m, Len(m.ends))
        BY <3>1, <2>2, <1>1
      <3>3. EndOf(m, i) \in Nat /\ EndOf(m, Len(m.ends)) \in Nat
        BY <1>2, <1>3
      <3>4. QED BY <3>2, <3>3, <1>1
    <2>3. QED BY <2>1, <2>2, <1>2
  <1>5. ASSUME NEW i \in 1 .. Len(m.ends)
        PROVE  /\ Frame(m, i) \in Nat
               /\ EndOf(m, i - 1) + FrameCost + Frame(m, i) = EndOf(m, i)
    <2>1. i - 1 \in {0} \cup ErrorFrames(m) /\ i \in ErrorFrames(m) /\ i - 1 < i
      BY <1>2
    <2>2. EndOf(m, i - 1) + FrameCost <= EndOf(m, i)
      BY <2>1, <1>1
    <2>3. EndOf(m, i - 1) \in Nat /\ EndOf(m, i) \in Nat
      BY <1>2, <1>3
    <2> DEFINE before == EndOf(m, i - 1)
               after  == EndOf(m, i)
    <2>4. Frame(m, i) = after - before - FrameCost
      BY DEF Frame
    <2> HIDE DEF before, after
    <2>5. QED
      <3>1. before \in Nat /\ after \in Nat /\ before + FrameCost <= after
        BY <2>2, <2>3 DEF before, after
      <3>2. Frame(m, i) \in Nat /\ before + FrameCost + Frame(m, i) = after
        BY <3>1, <2>4, <1>1
      <3>3. QED BY <3>2 DEF before, after
  <1>6. QED BY <1>1, <1>2, <1>3, <1>4, <1>5

LEMMA ErrorKeeps ==
    ASSUME TypeOK, WithinBudget, Collected, pc = "iopub",
           NEW m \in Messages, m.kind = "error", seen' = Append(seen, m), PutError(m)
    PROVE  ListOK' /\ Collected' /\ status' = "error"
  <1> DEFINE named     == ErrorHead + Capped(m.name, ErrorHead)
             valued    == named + Capped(m.value, named)
             body(k)   == valued + EndOf(m, k)
             more(k)   == k + 1 \in ErrorFrames(m)
             kept(k)   == Capped(Frame(m, k + 1), body(k) + FrameCost)
             extra(k)  == more(k) /\ (kept(k) > 0 \/ Frame(m, k + 1) = 0)
             size(k)   == IF extra(k) THEN body(k) + FrameCost + kept(k) ELSE body(k)
             cut(k)    == Cut(m.name, ErrorHead) \/ Cut(m.value, named) \/ more(k)
  <1>1. PICK k \in {0} \cup ErrorFrames(m) :
              /\ IsMost(m, valued, k)
              /\ Offer("error", size(k), cut(k))
              /\ status' = "error"
    BY DEF PutError
  <1>2. /\ m.name \in Nat /\ m.value \in Nat /\ Len(m.ends) \in Nat
        /\ ErrorFrames(m) = 1 .. Len(m.ends)
        /\ ErrorHead \in Nat /\ FrameCost \in Nat /\ PlaceholderHead \in Nat
        /\ ErrorHead < PlaceholderHead
    BY FramesCost, CellAssumption
  <1>3. /\ k \in 0 .. Len(m.ends) /\ EndOf(m, k) \in Nat
        /\ EndOf(m, k) <= EndOf(m, Len(m.ends)) /\ EndOf(m, Len(m.ends)) \in Nat
    BY <1>1, <1>2, FramesCost
  <1>4. /\ named \in Nat /\ named <= ErrorHead + m.name
        /\ ~Cut(m.name, ErrorHead) => named = ErrorHead + m.name
        /\ Fits(PlaceholderHead) => Fits(named)
    <2>1. Fits(PlaceholderHead) => Fits(ErrorHead)
      BY <1>2, RoomIsInt DEF Fits
    <2>2. /\ Capped(m.name, ErrorHead) \in 0 .. m.name
          /\ ~Cut(m.name, ErrorHead) => Capped(m.name, ErrorHead) = m.name
          /\ Fits(ErrorHead) => Fits(named)
      BY <1>2, CappedPrefix
    <2>3. QED BY <2>1, <2>2, <1>2
  <1>5. /\ valued \in Nat /\ valued <= named + m.value
        /\ ~Cut(m.value, named) => valued = named + m.value
        /\ Fits(named) => Fits(valued)
    <2> HIDE DEF named
    <2>1. /\ Capped(m.value, named) \in 0 .. m.value
          /\ ~Cut(m.value, named) => Capped(m.value, named) = m.value
          /\ Fits(named) => Fits(valued)
      BY <1>2, <1>4, CappedPrefix
    <2>2. QED BY <2>1, <1>2, <1>4
  <1>6. body(k) \in Nat /\ body(k) + FrameCost \in Nat
    <2> HIDE DEF valued
    <2>1. QED BY <1>2, <1>3, <1>5
  <1>7. Fits(valued) => Fits(body(k))
    <2>1. CASE k = 0
      <3>1. EndOf(m, k) = 0
        BY <2>1 DEF EndOf
      <3> HIDE DEF valued
      <3>2. QED BY <3>1, <1>5
    <2>2. CASE k # 0
      <3> HIDE DEF valued
      <3>1. k \in 1 .. k /\ k \in 1 .. Len(m.ends)
        BY <2>2, <1>3, <1>2
      <3>2. ~Cut(Frame(m, k), valued + EndOf(m, k - 1) + FrameCost)
        BY <3>1, <1>1 DEF IsMost
      <3>3. EndOf(m, k - 1) + FrameCost + Frame(m, k) = EndOf(m, k) /\ Frame(m, k) \in Nat
        BY <3>1, FramesCost
      <3>4. EndOf(m, k - 1) \in Nat
        <4>1. k - 1 \in 0 .. Len(m.ends)
          BY <3>1, <1>2
        <4>2. QED BY <4>1, FramesCost
      <3>5. (valued + EndOf(m, k - 1) + FrameCost) + Frame(m, k) = body(k)
        BY <3>3, <3>4, <1>2, <1>5
      <3>6. QED BY <3>2, <3>5 DEF Cut
    <2>3. QED BY <2>1, <2>2
  <1>8. ASSUME more(k)
        PROVE  /\ Frame(m, k + 1) \in Nat /\ kept(k) \in 0 .. Frame(m, k + 1)
               /\ EndOf(m, k) + FrameCost + Frame(m, k + 1) <= EndOf(m, Len(m.ends))
               /\ kept(k) > 0 => Fits(body(k) + FrameCost + kept(k))
    <2>1. k + 1 \in 1 .. Len(m.ends) /\ (k + 1) - 1 = k
      BY <1>8, <1>2, <1>3
    <2>2. Frame(m, k + 1) \in Nat
      BY <2>1, FramesCost
    <2>3. EndOf(m, (k + 1) - 1) + FrameCost + Frame(m, k + 1) = EndOf(m, k + 1)
      BY <2>1, FramesCost
    <2>4. k + 1 \in 0 .. Len(m.ends)
      BY <2>1, <1>2
    <2>5. EndOf(m, k + 1) <= EndOf(m, Len(m.ends))
      BY <2>4, FramesCost
    <2>6. EndOf(m, k) + FrameCost + Frame(m, k + 1) <= EndOf(m, Len(m.ends))
      BY <2>1, <2>3, <2>5
    <2>7. /\ kept(k) \in 0 .. Frame(m, k + 1)
          /\ kept(k) > 0 => Fits(body(k) + FrameCost + kept(k))
      <3> HIDE DEF body
      <3>1. QED BY <2>2, <1>6, CappedPrefix
    <2>8. QED BY <2>2, <2>6, <2>7
  <1> DEFINE whole == ErrorHead + m.name + m.value + EndOf(m, Len(m.ends))
  <1>9. WholeSize(m) = whole
    BY DEF WholeSize
  <1>10. size(k) \in Nat /\ size(k) <= whole
    <2>1. valued \in Nat /\ valued <= ErrorHead + m.name + m.value
      <3> HIDE DEF valued, named
      <3>1. QED BY <1>2, <1>4, <1>5
    <2> DEFINE cost  == EndOf(m, k)
               costs == EndOf(m, Len(m.ends))
    <2>2. cost \in Nat /\ costs \in Nat /\ cost <= costs
      BY <1>3
    <2>3. CASE extra(k)
      <3> DEFINE part  == kept(k)
                 frame == Frame(m, k + 1)
      <3>1. /\ size(k) = (valued + cost) + FrameCost + part
            /\ frame \in Nat /\ part \in 0 .. frame /\ cost + FrameCost + frame <= costs
        BY <2>3, <1>8
      <3>2. whole = ErrorHead + m.name + m.value + costs
        OBVIOUS
      <3> HIDE DEF size, valued, whole, cost, costs, part, frame
      <3>3. QED BY <3>1, <3>2, <2>1, <2>2, <1>2
    <2>4. CASE ~extra(k)
      <3>1. size(k) = valued + cost
        BY <2>4
      <3>2. whole = ErrorHead + m.name + m.value + costs
        OBVIOUS
      <3> HIDE DEF size, valued, whole, cost, costs
      <3>3. QED BY <3>1, <3>2, <2>1, <2>2, <1>2
    <2>5. QED BY <2>3, <2>4
  <1>11. ~cut(k) => size(k) = whole
    <2>1. SUFFICES ASSUME ~Cut(m.name, ErrorHead), ~Cut(m.value, named), ~more(k)
                   PROVE  size(k) = whole
      OBVIOUS
    <2>2. k = Len(m.ends)
      BY <2>1, <1>2, <1>3
    <2>3. size(k) = valued + EndOf(m, k)
      BY <2>1
    <2> HIDE DEF size, valued, named, more
    <2>4. QED BY <2>1, <2>2, <2>3, <1>2, <1>3, <1>4, <1>5
  <1>12. Fits(PlaceholderHead) => Fits(size(k)) \/ HasEmptyFrame(m)
    <2>1. SUFFICES ASSUME Fits(PlaceholderHead) PROVE Fits(size(k)) \/ HasEmptyFrame(m)
      OBVIOUS
    <2>2. Fits(body(k))
      <3> HIDE DEF body, valued, named
      <3>1. QED BY <2>1, <1>4, <1>5, <1>7
    <2>3. CASE ~extra(k)
      BY <2>2, <2>3
    <2>4. CASE extra(k) /\ Frame(m, k + 1) = 0
      BY <2>4 DEF HasEmptyFrame
    <2>5. CASE extra(k) /\ kept(k) > 0
      <3>1. more(k) /\ size(k) = body(k) + FrameCost + kept(k)
        BY <2>5
      <3> HIDE DEF size, body, more, kept
      <3>2. QED BY <2>5, <3>1, <1>8
    <2>6. QED BY <2>3, <2>4, <2>5
  <1>13. cut(k) \in BOOLEAN
    BY DEF Cut, Fits
  <1>14. Offer("error", size(k), cut(k)) /\ status' = "error"
    BY <1>1
  <1> HIDE DEF size, cut, whole
  <1>15. ListOK'
    BY <1>10, <1>13, <1>14, OfferKeepsBudgets DEF OutputKinds
  <1>16. Collected'
    BY <1>9, <1>10, <1>11, <1>12, <1>13, <1>14, OfferKeepsCollected DEF OutputKinds
  <1>17. QED BY <1>14, <1>15, <1>16

-----------------------------------------------------------------------------
(* The inductive invariant                                                 *)

NoError == \A n \in DOMAIN seen : seen[n].kind # "error"

\* How the status came about.
Earned ==
    /\ pc \in {"iopub", "shell"} => ~timedOut
    /\ status = "ok" => NoError
    /\ pc = "shell" /\ status = "ok" => idle
    /\ pc = "lost" => status = "error"
    /\ OkIsEarned

\* What the host made of the session.
GivenUp ==
    /\ destroyed <=> invalidated
    /\ pc \in {"iopub", "shell", "written"} => ~destroyed
    /\ pc = "taken" => (destroyed <=> timedOut)
    /\ pc = "lost" => destroyed

Reported ==
    /\ pc = "told" /\ told \cap {"truncated", "reset"} = {} => Complete
    /\ FailureTold

IInv == TypeOK /\ WithinBudget /\ (Collecting => Collected) /\ Earned /\ GivenUp /\ Reported

LEMMA Start == Init => IInv
  <1> SUFFICES ASSUME Init PROVE IInv
    OBVIOUS
  <1> USE DEF Init
  <1>1. TypeOK
    <2>1. outputs \in Seq([kind : OutputKinds \cup {"dropped"}, size : Nat, of : Nat])
      OBVIOUS
    <2>2. seen \in Seq(Messages) /\ failures \in 0 .. MaxFailures
      BY CellAssumption
    <2>3. QED BY <2>1, <2>2 DEF TypeOK
  <1>2. WithinBudget
    BY CellAssumption DEF WithinBudget
  <1>3. Collected
    <2>1. Complete
      <3>1. outputs = [i \in {} |-> [kind |-> seen[i].kind, size |-> WholeSize(seen[i]), of |-> i]]
        OBVIOUS
      <3>2. DOMAIN seen = {}
        OBVIOUS
      <3>3. QED BY <3>1, <3>2 DEF Complete
    <2>2. Ordered /\ Traced
      BY DEF Ordered, Traced
    <2>3. QED BY <2>1, <2>2 DEF Collected
  <1>4. Earned /\ GivenUp /\ Reported
    BY DEF Earned, GivenUp, Reported, NoError, OkIsEarned, FailureTold
  <1>5. QED BY <1>1, <1>2, <1>3, <1>4 DEF IInv

LEMMA ReceiveKeeps ==
    ASSUME IInv, NEW m \in Messages, Receive(m)
    PROVE  IInv'
  <1>1. /\ pc = "iopub" /\ pc' = "iopub" /\ m.kind \in OutputKinds
        /\ seen' = Append(seen, m) /\ failures' = 0
        /\ UNCHANGED <<timedOut, told, idle, reply, destroyed, invalidated>>
        /\ TypeOK /\ WithinBudget /\ Collected /\ Earned /\ GivenUp
    BY DEF Receive, IInv, Collecting
  <1>2. /\ ListOK' /\ Collected' /\ status' \in {"ok", "error"}
        /\ status' = "ok" => status = "ok" /\ m.kind # "error"
    <2>1. CASE m.kind = "stream" /\ PutStream(m) /\ UNCHANGED status
      BY <2>1, <1>1, StreamKeeps DEF TypeOK
    <2>2. CASE m.kind = "bundle" /\ PutBundle(m) /\ UNCHANGED status
      BY <2>2, <1>1, BundleKeeps DEF TypeOK
    <2>3. CASE m.kind = "error" /\ PutError(m)
      BY <2>3, <1>1, ErrorKeeps
    <2>4. QED BY <2>1, <2>2, <2>3 DEF Receive
  <1>3. TypeOK'
    <2>1. seen' \in Seq(Messages) /\ 0 \in 0 .. MaxFailures
      BY <1>1, CellAssumption DEF TypeOK
    <2>2. QED BY <1>1, <1>2, <2>1 DEF TypeOK, ListOK, Output
  <1>4. WithinBudget'
    BY <1>2 DEF ListOK, WithinBudget
  <1>5. status' = "ok" => NoError'
    <2>1. DOMAIN seen' = 1 .. Len(seen) + 1 /\ DOMAIN seen = 1 .. Len(seen)
          /\ seen'[Len(seen) + 1] = m /\ \A n \in DOMAIN seen : seen'[n] = seen[n]
      BY <1>1 DEF TypeOK
    <2>2. Len(seen) \in Nat
      BY <1>1 DEF TypeOK
    <2>3. QED BY <2>1, <2>2, <1>1, <1>2 DEF Earned, NoError
  <1>6. Earned'
    BY <1>1, <1>5 DEF Earned, OkIsEarned, NoError
  <1>7. GivenUp' /\ Reported'
    BY <1>1 DEF GivenUp, Reported, FailureTold
  <1>8. QED BY <1>2, <1>3, <1>4, <1>6, <1>7 DEF IInv

\* Steps that leave the list and the messages alone.
LEMMA ListUnchanged ==
    ASSUME UNCHANGED <<outputs, used, truncated, seen>>
    PROVE  /\ Complete' = Complete /\ (Collected => Collected')
           /\ Ordered' = Ordered /\ NoError' = NoError
  <1>1. Complete' = Complete
    BY DEF Complete, WholeSize, EndOf
  <1>2. Ordered' = Ordered
    BY DEF Ordered, WholeSize, EndOf
  <1>3. Traced' = Traced
    BY DEF Traced, Fits, Room, Separator, HasEmptyFrame, ErrorFrames, Frame, EndOf
  <1>4. NoError' = NoError
    BY DEF NoError
  <1>5. QED BY <1>1, <1>2, <1>3, <1>4 DEF Collected

LEMMA DrainKeeps == ASSUME IInv, Drain PROVE IInv'
  <1> USE DEF IInv
  <1>1. ASSUME NEW m \in Messages, ReceiveForeign(m) PROVE IInv'
    <2>1. UNCHANGED <<pc, outputs, used, status, timedOut, truncated, told, seen, idle, reply,
                    destroyed, invalidated>>
          /\ failures' = 0 /\ pc = "iopub"
      BY <1>1 DEF ReceiveForeign
    <2>2. TypeOK' /\ WithinBudget'
      BY <2>1, CellAssumption DEF TypeOK, WithinBudget
    <2>3. Collected'
      BY <2>1, ListUnchanged DEF Collecting
    <2>4. Earned' /\ GivenUp' /\ Reported'
      BY <2>1, ListUnchanged DEF Earned, GivenUp, Reported, OkIsEarned, FailureTold
    <2>5. QED BY <2>2, <2>3, <2>4
  <1>2. ASSUME NEW m \in Messages, ReceiveOther(m) PROVE IInv'
    <2>1. UNCHANGED <<outputs, used, status, timedOut, truncated, told, seen, reply,
                    destroyed, invalidated>>
          /\ failures' = 0 /\ pc = "iopub" /\ pc' \in {"iopub", "shell"}
          /\ idle' \in BOOLEAN /\ (pc' = "shell" => idle')
      BY <1>2 DEF ReceiveOther
    <2>2. TypeOK' /\ WithinBudget'
      BY <2>1, CellAssumption DEF TypeOK, WithinBudget
    <2>3. Collected'
      BY <2>1, ListUnchanged DEF Collecting
    <2>4. Earned' /\ GivenUp' /\ Reported'
      BY <2>1, ListUnchanged DEF Earned, GivenUp, Reported, OkIsEarned, FailureTold
    <2>5. QED BY <2>2, <2>3, <2>4
  <1>3. ASSUME ChannelFails PROVE IInv'
    <2>1. UNCHANGED <<outputs, used, timedOut, truncated, told, seen, idle, reply,
                    destroyed, invalidated>>
          /\ pc = "iopub" /\ failures' = failures + 1
          /\ \/ failures' < MaxFailures /\ UNCHANGED <<pc, status>>
             \/ failures' = MaxFailures /\ pc' = "shell" /\ status' = "error"
      BY <1>3 DEF ChannelFails
    <2>2. TypeOK' /\ WithinBudget'
      BY <2>1, CellAssumption DEF TypeOK, WithinBudget
    <2>3. Collected'
      BY <2>1, ListUnchanged DEF Collecting
    <2>4. Earned' /\ GivenUp' /\ Reported'
      BY <2>1, ListUnchanged DEF Earned, GivenUp, Reported, OkIsEarned, FailureTold
    <2>5. QED BY <2>2, <2>3, <2>4
  <1>4. ASSUME Expire PROVE IInv'
    <2>1. UNCHANGED <<outputs, used, truncated, failures, told, seen, idle, reply,
                    destroyed, invalidated>>
          /\ pc = "iopub" /\ pc' = "written" /\ status' = "error" /\ timedOut' = TRUE
      BY <1>4 DEF Expire
    <2>2. TypeOK' /\ WithinBudget'
      BY <2>1 DEF TypeOK, WithinBudget
    <2>3. Collected'
      BY <2>1, ListUnchanged DEF Collecting
    <2>4. Earned' /\ GivenUp' /\ Reported'
      BY <2>1, ListUnchanged DEF Earned, GivenUp, Reported, OkIsEarned, FailureTold
    <2>5. QED BY <2>2, <2>3, <2>4
  <1>5. ASSUME NEW result \in {"none", "ok", "error"}, Reply(result) PROVE IInv'
    <2>1. UNCHANGED <<outputs, used, timedOut, truncated, failures, told, seen, idle,
                    destroyed, invalidated>>
          /\ pc = "shell" /\ pc' = "written" /\ reply' = result
          /\ status' = IF result = "ok" THEN status ELSE "error"
      BY <1>5 DEF Reply
    <2>2. TypeOK' /\ WithinBudget'
      BY <2>1 DEF TypeOK, WithinBudget
    <2>3. Collected'
      BY <2>1, ListUnchanged DEF Collecting
    <2>4. Earned' /\ GivenUp' /\ Reported'
      BY <2>1, ListUnchanged DEF Earned, GivenUp, Reported, OkIsEarned, FailureTold, NoError, TypeOK
    <2>5. QED BY <2>2, <2>3, <2>4
  <1>6. QED BY <1>1, <1>2, <1>3, <1>4, <1>5, ReceiveKeeps DEF Drain

LEMMA AcceptKeeps == ASSUME IInv, Accept PROVE IInv'
  <1> USE DEF IInv
  <1>1. /\ UNCHANGED <<outputs, used, status, timedOut, truncated, failures, told, seen, idle, reply>>
        /\ pc = "written" /\ pc' = "taken" /\ destroyed' = timedOut /\ invalidated' = timedOut
    BY DEF Accept
  <1>2. TypeOK' /\ WithinBudget'
    BY <1>1 DEF TypeOK, WithinBudget
  <1>3. Collected'
    BY <1>1, ListUnchanged DEF Collecting
  <1>4. Earned' /\ GivenUp' /\ Reported'
    BY <1>1, ListUnchanged DEF Earned, GivenUp, Reported, OkIsEarned, FailureTold
  <1>5. QED BY <1>2, <1>3, <1>4

LEMMA GiveUpKeeps == ASSUME IInv, NEW late \in BOOLEAN, GiveUp(late) PROVE IInv'
  <1>1. /\ UNCHANGED <<failures, told, seen, idle, reply>>
        /\ pc' = "lost" /\ timedOut' = late /\ destroyed' = TRUE /\ invalidated' = TRUE
        /\ status' = "error" /\ truncated' = FALSE
        /\ outputs' = <<[kind |-> "error", size |-> 0, of |-> 0]>> /\ used' = 2
    BY DEF GiveUp
  <1>2. TypeOK'
    <2>1. [kind |-> "error", size |-> 0, of |-> 0] \in Output
      BY DEF Output, OutputKinds
    <2>2. outputs' \in Seq(Output)
      BY <2>1, <1>1
    <2>3. QED BY <2>2, <1>1 DEF IInv, TypeOK, Output
  <1>3. WithinBudget'
    BY <1>1, CellAssumption DEF WithinBudget
  <1>4. Earned' /\ GivenUp' /\ Reported' /\ ~Collecting'
    BY <1>1 DEF Earned, GivenUp, Reported, OkIsEarned, FailureTold, Collecting
  <1>5. QED BY <1>2, <1>3, <1>4 DEF IInv

LEMMA TellKeeps == ASSUME IInv, Tell PROVE IInv'
  <1>1. /\ UNCHANGED <<outputs, used, status, timedOut, truncated, failures, seen, idle, reply,
                    destroyed, invalidated>>
        /\ pc \in {"taken", "lost"} /\ pc' = "told"
        /\ told' = Rendered
              \cup (IF timedOut THEN {"timeout"} ELSE {})
              \cup (IF timedOut \/ invalidated THEN {"reset"} ELSE {})
              \cup (IF ~timedOut /\ status = "error" /\ Kinds \cap {"error", "dropped"} = {}
                    THEN {"failed"} ELSE {})
    BY DEF Tell
  <1>2. /\ TypeOK /\ WithinBudget /\ Earned /\ GivenUp /\ (pc = "taken" => Collected)
    BY DEF IInv, Collecting
  <1>3. TypeOK' /\ WithinBudget'
    BY <1>1, <1>2 DEF TypeOK, WithinBudget, Rendered, Marks
  <1>4. Earned'
    <2>1. status = "ok" => pc = "taken"
      BY <1>1, <1>2 DEF Earned
    <2>2. NoError' = NoError
      BY <1>1, ListUnchanged
    <2>3. QED BY <1>1, <1>2, <2>1, <2>2 DEF Earned, OkIsEarned, NoError
  <1>5. told' \cap {"truncated", "reset"} = {} => Complete'
    <2>1. SUFFICES ASSUME told' \cap {"truncated", "reset"} = {} PROVE Complete'
      OBVIOUS
    <2>2. "truncated" \notin told' /\ "reset" \notin told'
      BY <2>1
    <2>3. pc = "taken" /\ ~truncated
      BY <1>1, <1>2, <2>2 DEF Rendered, GivenUp
    <2>4. QED BY <2>3, <1>1, <1>2, ListUnchanged DEF Collected
  <1>6. status = "ok" => "error" \notin Kinds
    <2>1. SUFFICES ASSUME status = "ok", NEW i \in DOMAIN outputs, outputs[i].kind = "error"
                   PROVE  FALSE
      BY DEF Kinds
    <2>2. Ordered /\ NoError
      BY <2>1, <1>1, <1>2 DEF Earned, Collected
    <2>3. /\ outputs[i].of \in DOMAIN seen
          /\ seen[outputs[i].of].kind = "error"
      BY <2>1, <2>2 DEF Ordered
    <2>4. QED BY <2>2, <2>3 DEF NoError
  <1>7. FailureTold'
    <2>1. status = "error" => told' \cap {"error", "dropped", "timeout", "failed"} # {}
      <3>1. CASE timedOut
        BY <3>1, <1>1
      <3>2. CASE ~timedOut /\ Kinds \cap {"error", "dropped"} = {}
        BY <3>2, <1>1
      <3>3. CASE Kinds \cap {"error", "dropped"} # {}
        BY <3>3, <1>1 DEF Rendered
      <3>4. QED BY <3>1, <3>2, <3>3
    <2>2. status = "ok" => told' \subseteq {"dropped", "truncated"}
      <3>1. SUFFICES ASSUME status = "ok" PROVE told' \subseteq {"dropped", "truncated"}
        OBVIOUS
      <3>2. pc = "taken" /\ ~timedOut /\ ~invalidated
        BY <3>1, <1>1, <1>2 DEF Earned, OkIsEarned, GivenUp
      <3>3. "error" \notin Kinds
        BY <3>1, <1>6
      <3>4. QED BY <3>1, <3>2, <3>3, <1>1 DEF Rendered
    <2>3. "reset" \in told' <=> destroyed'
      <3>1. "reset" \notin Rendered
        BY DEF Rendered
      <3>2. "reset" \in told' <=> timedOut \/ invalidated
        BY <3>1, <1>1
      <3>3. destroyed <=> timedOut \/ invalidated
        BY <1>1, <1>2 DEF GivenUp
      <3>4. destroyed' = destroyed
        BY <1>1
      <3>5. QED BY <3>2, <3>3, <3>4
    <2>4. QED BY <2>1, <2>2, <2>3, <1>1 DEF FailureTold
  <1>8. QED BY <1>1, <1>2, <1>3, <1>4, <1>5, <1>7 DEF IInv, GivenUp, Reported, Collecting

\* The invariant is inductive.
LEMMA Step == IInv /\ [Next]_vars => IInv'
  <1> SUFFICES ASSUME IInv, [Next]_vars PROVE IInv'
    OBVIOUS
  <1>1. CASE UNCHANGED vars
    <2>1. UNCHANGED <<pc, outputs, used, status, timedOut, truncated, failures, told, seen, idle, reply,
                    destroyed, invalidated>>
      BY <1>1 DEF vars
    <2>2. TypeOK' /\ WithinBudget'
      BY <2>1 DEF IInv, TypeOK, WithinBudget
    <2>3. (Collecting => Collected)'
      BY <2>1, ListUnchanged DEF IInv, Collecting
    <2>4. Earned' /\ GivenUp' /\ Reported'
      BY <2>1, ListUnchanged DEF IInv, Earned, GivenUp, Reported, OkIsEarned, FailureTold
    <2>5. QED BY <2>2, <2>3, <2>4 DEF IInv
  <1>2. CASE Next
    BY <1>1, <1>2, DrainKeeps, GiveUpKeeps, AcceptKeeps, TellKeeps DEF Next
  <1>3. QED BY <1>1, <1>2

\* The inductive invariant of CellDrain: types, budgets, what the list says of
\* the messages, how the status came about, and what the text reports.
THEOREM CellInductive == Spec => []IInv
  BY Start, Step, PTL DEF Spec

\* Every variable of CellDrain keeps its type.
THEOREM CellTypeCorrect == Spec => []TypeOK
  <1>1. IInv => TypeOK
    BY DEF IInv
  <1>2. QED BY <1>1, CellInductive, PTL

\* The payload stays within its budgets, whatever the cell prints.
THEOREM PayloadWithinBudget == Spec => []WithinBudget
  <1>1. IInv => WithinBudget
    BY DEF IInv
  <1>2. QED BY <1>1, CellInductive, PTL

\* Output that is cut or dropped is flagged, on every path.
THEOREM NoSilentLoss == Spec => []NothingLostSilently
  <1>1. IInv => NothingLostSilently
    BY DEF IInv, NothingLostSilently, Collected, Reported
  <1>2. QED BY <1>1, CellInductive, PTL

\* Outputs come in the order of their messages, none larger than its message.
THEOREM OutputsInOrder == Spec => []OrderKept
  <1>1. IInv => OrderKept
    BY DEF IInv, OrderKept, Collected
  <1>2. QED BY <1>1, CellInductive, PTL

\* An output is dropped without a trace only where there was no room for one.
THEOREM OutputsLeaveTraces == Spec => []TraceLeft
  <1>1. IInv => TraceLeft
    BY DEF IInv, TraceLeft, Collected
  <1>2. QED BY <1>1, CellInductive, PTL

\* "ok" is only reported of a finished cell that raised nothing.
THEOREM OkEarned == Spec => []OkIsEarned
  <1>1. IInv => OkIsEarned
    BY DEF IInv, Earned
  <1>2. QED BY <1>1, CellInductive, PTL

\* The agent can tell a failed cell from a good one, and hears that its kernel is
\* gone exactly when the host has given it up: for a deadline, a transport error,
\* an exit code or a payload it cannot take.
THEOREM FailuresAreTold == Spec => []FailureTold
  <1>1. IInv => FailureTold
    BY DEF IInv, Reported
  <1>2. QED BY <1>1, CellInductive, PTL
=============================================================================
