------------------------------ MODULE CellDrain ------------------------------
(***************************************************************************)
(* What one run_python cell reports: drain_execution in the container      *)
(* (henry/sandbox/kernel_protocol.py) collects the cell's messages from    *)
(* two channels within a byte and an item budget and a deadline; the host  *)
(* takes the payload or gives the kernel up (exec_cell in docker.py); and  *)
(* _format_cell_result (sandbox/tools.py) makes the text the agent reads.  *)
(*                                                                         *)
(* Text is its length in bytes, an output is its size in JSON.  The output *)
(* list costs 2 bytes for its brackets and 2 for each separator.           *)
(***************************************************************************)
EXTENDS Integers, Sequences

CONSTANTS
    Messages,        \* what the iopub channel may deliver
    MaxMessages,     \* bound: outputs a cell emits
    MaxItems, MaxItemBytes, MaxTotalBytes, MaxFieldBytes,   \* the budgets
    MaxFailures,     \* _MAX_CHANNEL_FAILURES
    StreamHead, BundleHead, ErrorHead, PlaceholderHead,     \* sizes when empty
    FrameCost,       \* quotes and separator of a traceback frame
    ReasonLength     \* the reason inside a placeholder

OutputKinds == {"stream", "bundle", "error"}

\* An error has a name, a value and frames: ends[i] is what the first i frames
\* cost in JSON.
ErrorFrames(m) == DOMAIN m.ends
EndOf(m, i)    == IF i = 0 THEN 0 ELSE m.ends[i]
Frame(m, i)    == EndOf(m, i) - EndOf(m, i - 1) - FrameCost

ASSUME CellAssumption ==
    /\ \A m \in Messages :
          /\ m.kind \in OutputKinds \cup {"idle", "other"}
          /\ m.own \in BOOLEAN
          /\ m.kind \in {"stream", "bundle"} => m.size \in Nat
          /\ m.kind = "error" =>
                /\ m.name \in Nat /\ m.value \in Nat /\ m.ends \in Seq(Nat)
                /\ \A i \in {0} \cup ErrorFrames(m) : \A j \in ErrorFrames(m) :
                      i < j => EndOf(m, i) + FrameCost <= EndOf(m, j)
    /\ MaxMessages \in Nat /\ MaxItems \in Nat
    /\ MaxItemBytes \in Nat /\ MaxTotalBytes \in Nat /\ MaxTotalBytes >= 2
    /\ MaxFieldBytes \in Nat /\ MaxFailures \in Nat \ {0}
    /\ StreamHead \in Nat /\ BundleHead \in Nat /\ ErrorHead \in Nat
    /\ PlaceholderHead \in Nat /\ FrameCost \in Nat \ {0} /\ ReasonLength \in Nat
    /\ StreamHead < PlaceholderHead /\ ErrorHead < PlaceholderHead

VARIABLES
    pc,         \* iopub, shell, written (the payload), taken or lost (by the host), told
    outputs,    \* the list; of: the message an output stems from
    used,       \* the JSON size of the list
    status, timedOut, truncated,
    failures,   \* channel_failures
    destroyed,  \* _Session.destroyed: the kernel and its container are given up
    invalidated, \* session_invalidated of the result
    told,       \* what the text for the agent says besides the outputs
    seen,       \* history: the cell's output messages, as they came
    idle, reply \* history: was `idle` seen; the matching shell reply

vars == <<pc, outputs, used, status, timedOut, truncated, failures,
          destroyed, invalidated, told, seen, idle, reply>>

Marks == {"error", "dropped", "truncated", "timeout", "reset", "failed"}

TypeOK ==
    /\ pc \in {"iopub", "shell", "written", "taken", "lost", "told"}
    /\ outputs \in Seq([kind : OutputKinds \cup {"dropped"}, size : Nat, of : Nat])
    /\ used \in Nat
    /\ status \in {"ok", "error"} /\ timedOut \in BOOLEAN /\ truncated \in BOOLEAN
    /\ failures \in 0 .. MaxFailures
    /\ destroyed \in BOOLEAN /\ invalidated \in BOOLEAN
    /\ told \subseteq Marks
    /\ seen \in Seq(Messages) /\ idle \in BOOLEAN
    /\ reply \in {"none", "ok", "error"}

Init ==
    /\ pc = "iopub" /\ outputs = <<>> /\ used = 2
    /\ status = "ok" /\ timedOut = FALSE /\ truncated = FALSE
    /\ failures = 0 /\ told = {}
    /\ destroyed = FALSE /\ invalidated = FALSE
    /\ seen = <<>> /\ idle = FALSE /\ reply = "none"

-----------------------------------------------------------------------------
(* The budgets: _fits, _append, _fit_text                                  *)

Separator == IF outputs = <<>> THEN 0 ELSE 2

\* Mutant: the separator is not counted.
RoomUnseparated ==
    LET left == MaxTotalBytes - used IN
    IF MaxItemBytes < left THEN MaxItemBytes ELSE left

\* The largest output that still fits; negative when nothing does.
Room ==
    LET left == MaxTotalBytes - used - Separator IN
    IF MaxItemBytes < left THEN MaxItemBytes ELSE left

Fits(size) == size <= Room

\* How much of n bytes the binary search keeps in an output of size base.
Fitted(n, base) ==
    IF Fits(base + n) THEN n ELSE IF Fits(base) THEN Room - base ELSE 0

\* A field of an error has a limit of its own.
Capped(n, base) ==
    Fitted(IF n <= MaxFieldBytes THEN n ELSE MaxFieldBytes, base)
Cut(n, base) == n > MaxFieldBytes \/ ~Fits(base + n)

Accepts(size) == Len(outputs) < MaxItems /\ Fits(size)

\* Mutant: the latest output comes first.
OfferInFront(kind, size, cut) ==
    /\ truncated' = (truncated \/ cut \/ ~Accepts(size))
    /\ IF Accepts(size)
       THEN /\ outputs' = <<[kind |-> kind, size |-> size, of |-> Len(seen) + 1]>> \o outputs
            /\ used' = used + Separator + size
       ELSE UNCHANGED <<outputs, used>>

Offer(kind, size, cut) ==
    /\ truncated' = (truncated \/ cut \/ ~Accepts(size))
    /\ IF Accepts(size)
       THEN /\ outputs' = Append(outputs, [kind |-> kind, size |-> size, of |-> Len(seen) + 1])
            /\ used' = used + Separator + size
       ELSE UNCHANGED <<outputs, used>>

-----------------------------------------------------------------------------
(* _append_stream, _append_bundle with _placeholder, _append_error         *)

\* Mutant: a stream of which nothing fits does not set the flag.
PutStreamUnflagged(m) ==
    LET kept == Fitted(m.size, StreamHead) IN
    IF kept > 0 \/ m.size = 0
    THEN Offer("stream", StreamHead + kept, ~Fits(StreamHead + m.size))
    ELSE UNCHANGED <<outputs, used, truncated>>

PutStream(m) ==
    LET kept == Fitted(m.size, StreamHead)
        cut  == ~Fits(StreamHead + m.size)
    IN  IF kept > 0 \/ m.size = 0
        THEN Offer("stream", StreamHead + kept, cut)
        ELSE truncated' = (truncated \/ cut) /\ UNCHANGED <<outputs, used>>

\* Mutant: a bundle that does not fit leaves no placeholder.
PutBundleOnly(m) == Offer("bundle", BundleHead + m.size, FALSE)

PutBundle(m) ==
    IF Accepts(BundleHead + m.size)
    THEN Offer("bundle", BundleHead + m.size, FALSE)
    ELSE Offer("dropped", PlaceholderHead + Fitted(ReasonLength, PlaceholderHead), TRUE)

\* k frames can be kept whole in an error of size base, and not one more.
IsMost(m, base, k) ==
    /\ \A i \in 1 .. k : ~Cut(Frame(m, i), base + EndOf(m, i - 1) + FrameCost)
    /\ k + 1 \in ErrorFrames(m) =>
          Cut(Frame(m, k + 1), base + EndOf(m, k) + FrameCost)

\* Name, value and frames take what is left, in this order. The first frame
\* that is cut is the last; it is left out if nothing remains of its text.
PutError(m) ==
    \E k \in {0} \cup ErrorFrames(m) :
        LET named  == ErrorHead + Capped(m.name, ErrorHead)
            valued == named + Capped(m.value, named)
            body   == valued + EndOf(m, k)
            more   == k + 1 \in ErrorFrames(m)
            kept   == Capped(Frame(m, k + 1), body + FrameCost)
            size   == IF more /\ (kept > 0 \/ Frame(m, k + 1) = 0)
                      THEN body + FrameCost + kept ELSE body
        IN  /\ IsMost(m, valued, k)
            /\ Offer("error", size, Cut(m.name, ErrorHead) \/ Cut(m.value, named) \/ more)
            /\ status' = "error"

-----------------------------------------------------------------------------
(* The loop over the iopub channel                                         *)

\* A message of another cell only shows that the channel works.
ReceiveForeign(m) ==
    /\ pc = "iopub" /\ ~m.own
    /\ failures' = 0
    /\ UNCHANGED <<pc, outputs, used, status, timedOut, truncated, told, seen, idle,
                   reply, destroyed, invalidated>>

Receive(m) ==
    /\ pc = "iopub" /\ m.own /\ m.kind \in OutputKinds
    /\ Len(seen) < MaxMessages
    /\ seen' = Append(seen, m)
    /\ failures' = 0
    /\ \/ m.kind = "stream" /\ PutStream(m) /\ UNCHANGED status
       \/ m.kind = "bundle" /\ PutBundle(m) /\ UNCHANGED status
       \/ m.kind = "error" /\ PutError(m)
    /\ UNCHANGED <<pc, timedOut, told, idle, reply, destroyed, invalidated>>

\* execute_input, `busy` and unknown types change no output.
ReceiveOther(m) ==
    /\ pc = "iopub" /\ m.own /\ m.kind \in {"idle", "other"}
    /\ failures' = 0
    /\ idle' = (m.kind = "idle")
    /\ pc' = IF m.kind = "idle" THEN "shell" ELSE pc
    /\ UNCHANGED <<outputs, used, status, timedOut, truncated, told, seen, reply,
                   destroyed, invalidated>>

\* Mutant: one failure more is waited for than the counter has room for.
ChannelFailsLate ==
    /\ pc = "iopub"
    /\ failures' = failures + 1
    /\ \/ failures' <= MaxFailures /\ UNCHANGED <<pc, status>>
       \/ failures' > MaxFailures /\ pc' = "shell" /\ status' = "error"
    /\ UNCHANGED <<outputs, used, timedOut, truncated, told, seen, idle, reply,
                   destroyed, invalidated>>

\* Mutant: the loop is left without the error status.
ChannelFailsQuietly ==
    /\ pc = "iopub"
    /\ failures' = failures + 1
    /\ pc' = IF failures' = MaxFailures THEN "shell" ELSE pc
    /\ UNCHANGED <<outputs, used, status, timedOut, truncated, told, seen, idle, reply,
                   destroyed, invalidated>>

\* Not an empty queue, which leaves the counter as it is.
ChannelFails ==
    /\ pc = "iopub"
    /\ failures' = failures + 1
    /\ \/ failures' < MaxFailures /\ UNCHANGED <<pc, status>>
       \/ failures' = MaxFailures /\ pc' = "shell" /\ status' = "error"
    /\ UNCHANGED <<outputs, used, timedOut, truncated, told, seen, idle, reply,
                   destroyed, invalidated>>

Expire ==
    /\ pc = "iopub"
    /\ pc' = "written" /\ status' = "error" /\ timedOut' = TRUE
    /\ UNCHANGED <<outputs, used, truncated, failures, told, seen, idle, reply,
                   destroyed, invalidated>>

-----------------------------------------------------------------------------
(* The shell channel: replies to other requests are skipped                *)

\* "none": no matching reply within a second, or the channel raises.
Reply(result) ==
    /\ pc = "shell"
    /\ pc' = "written" /\ reply' = result
    /\ status' = IF result = "ok" THEN status ELSE "error"
    /\ UNCHANGED <<outputs, used, timedOut, truncated, failures, told, seen, idle,
                   destroyed, invalidated>>

-----------------------------------------------------------------------------
(* The host                                                                *)

\* A payload it can read; the kernel of a cell that timed out is given up.
Accept ==
    /\ pc = "written"
    /\ pc' = "taken"
    /\ destroyed' = timedOut /\ invalidated' = timedOut
    /\ UNCHANGED <<outputs, used, status, timedOut, truncated, failures, told, seen, idle, reply>>

\* Mutant: the result of a cell that was given up does not say so.
GiveUpUnsaid(late) ==
    /\ pc \in {"iopub", "shell", "written"}
    /\ late \in BOOLEAN
    /\ pc' = "lost" /\ timedOut' = late
    /\ destroyed' = TRUE
    /\ status' = "error" /\ truncated' = FALSE
    /\ outputs' = <<[kind |-> "error", size |-> 0, of |-> 0]>> /\ used' = 2
    /\ UNCHANGED <<invalidated, failures, told, seen, idle, reply>>

\* Its own time limit, a Docker error, a non-zero exit, a payload that is too
\* large or that it cannot read: whatever was collected is lost, and the kernel
\* is given up.
GiveUp(late) ==
    /\ pc \in {"iopub", "shell", "written"}
    /\ late \in BOOLEAN
    /\ pc' = "lost" /\ timedOut' = late
    /\ destroyed' = TRUE /\ invalidated' = TRUE
    /\ status' = "error" /\ truncated' = FALSE
    /\ outputs' = <<[kind |-> "error", size |-> 0, of |-> 0]>> /\ used' = 2
    /\ UNCHANGED <<failures, told, seen, idle, reply>>

Kinds == {outputs[i].kind : i \in DOMAIN outputs}

Rendered == (Kinds \cap {"error", "dropped"}) \cup (IF truncated THEN {"truncated"} ELSE {})

\* Only the sandbox says that a session is gone: no output is looked at for it.
Tell ==
    /\ pc \in {"taken", "lost"}
    /\ pc' = "told"
    /\ told' = Rendered
          \cup (IF timedOut THEN {"timeout"} ELSE {})
          \cup (IF timedOut \/ invalidated THEN {"reset"} ELSE {})
          \cup (IF ~timedOut /\ status = "error" /\ Kinds \cap {"error", "dropped"} = {}
                THEN {"failed"} ELSE {})
    /\ UNCHANGED <<outputs, used, status, timedOut, truncated, failures, destroyed, invalidated,
                   seen, idle, reply>>

Drain ==
    \/ \E m \in Messages : ReceiveForeign(m) \/ Receive(m) \/ ReceiveOther(m)
    \/ ChannelFails \/ Expire
    \/ \E result \in {"none", "ok", "error"} : Reply(result)

Next ==
    \/ Drain
    \/ \E late \in BOOLEAN : GiveUp(late)
    \/ Accept \/ Tell
    \/ pc = "told" /\ UNCHANGED vars

Spec == Init /\ [][Next]_vars
-----------------------------------------------------------------------------
(* Properties                                                              *)

\* The payload respects the budgets, whatever the cell prints: that of the
\* items, of each item and of the whole list.
WithinBudget ==
    /\ Len(outputs) <= MaxItems \/ pc \in {"lost", "told"}
    /\ used <= MaxTotalBytes
    /\ \A i \in DOMAIN outputs : outputs[i].size <= MaxItemBytes

WholeSize(m) ==
    IF m.kind = "stream" THEN StreamHead + m.size
    ELSE IF m.kind = "bundle" THEN BundleHead + m.size
    ELSE ErrorHead + m.name + m.value + EndOf(m, Len(m.ends))

Collecting == pc \in {"iopub", "shell", "written", "taken"}

Complete ==
    outputs = [i \in DOMAIN seen |->
                  [kind |-> seen[i].kind, size |-> WholeSize(seen[i]), of |-> i]]

\* Unless the agent is told that output was truncated or that the kernel is
\* lost, it gets every output of the cell, whole and in order: no path through
\* the cuts and drops forgets the flag.
NothingLostSilently ==
    /\ Collecting /\ ~truncated => Complete
    /\ pc = "told" /\ told \cap {"truncated", "reset"} = {} => Complete

Ordered ==
    \A i \in DOMAIN outputs :
        /\ \A j \in 1 .. i - 1 : outputs[j].of < outputs[i].of
        /\ outputs[i].of \in DOMAIN seen
        /\ LET m == seen[outputs[i].of] IN
           \/ outputs[i].kind = m.kind /\ outputs[i].size <= WholeSize(m)
           \/ outputs[i].kind = "dropped" /\ m.kind = "bundle"

\* Also what is cut stays in order, stems from one message each, and is never
\* larger than the output it stands for; a placeholder stands for a bundle.
OrderKept == Collecting => Ordered

HasEmptyFrame(m) == m.kind = "error" /\ \E i \in ErrorFrames(m) : Frame(m, i) = 0

Traced ==
    Len(outputs) < MaxItems /\ Fits(PlaceholderHead) =>
        \A n \in DOMAIN seen :
            \/ \E i \in DOMAIN outputs : outputs[i].of = n
            \/ HasEmptyFrame(seen[n])

\* As long as a placeholder would still fit, every output of the cell has left
\* something in the list. (An error with an empty frame is the exception: the
\* frame is added although it does not fit, and the error is lost with it.)
TraceLeft == Collecting => Traced

\* "ok" is only reported of a cell that the kernel said it has finished, that
\* it answered with ok, and that raised nothing.
OkIsEarned ==
    pc \in {"written", "taken", "told"} /\ status = "ok" =>
        /\ idle /\ reply = "ok" /\ ~timedOut
        /\ \A n \in DOMAIN seen : seen[n].kind # "error"

\* What the agent reads of a failed cell has some error in it, what it reads
\* of a good cell has none but the placeholders, and it is told that its kernel
\* is gone exactly when the host has given the kernel up, for whatever reason:
\* neither does it go on with variables it has lost, nor start over in vain.
FailureTold ==
    pc = "told" =>
        /\ status = "error" => told \cap {"error", "dropped", "timeout", "failed"} # {}
        /\ status = "ok" => told \subseteq {"dropped", "truncated"}
        /\ "reset" \in told <=> destroyed

\* tools.py, line 199: "A failed cell whose error output never made it back must
\* not read as a clean run." A cell that raised reads as one that raised.
FailureReadable ==
    pc = "told" /\ (\E n \in DOMAIN seen : seen[n].kind = "error")
        => told \cap {"error", "timeout", "failed"} # {}
=============================================================================
