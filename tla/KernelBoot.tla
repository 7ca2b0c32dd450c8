----------------------------- MODULE KernelBoot -----------------------------
(***************************************************************************)
(* One sandbox container from its start to its removal: the boot process,  *)
(* which owns the kernel and runs the startup code, the pings with which   *)
(* the host waits for the kernel, and one exec process for every cell      *)
(* (henry/sandbox/kernel_entry.py), driven by start and exec_cell of       *)
(* henry/sandbox/docker.py.                                                *)
(*                                                                         *)
(* Boot, ping and exec are clients of the kernel, which handles what they  *)
(* send in order.  wait_for_ready asks a question that the kernel answers  *)
(* when it has nothing else to do.  How drain_execution collects a cell's  *)
(* output is CellDrain; here it ends with the cell, with a broken channel  *)
(* or at its deadline.                                                     *)
(***************************************************************************)
EXTENDS Sequences, Functions

CONSTANTS Cells

Startup == "startup"      \* the code of HENRY_KERNEL_STARTUP
Clients == {"boot", "ping"} \cup Cells

ASSUME CellsAssumption == Cells \cap {Startup, "boot", "ping"} = {}

VARIABLES
    container,    \* of the session
    kernel,       \* its process
    queue,        \* requests the kernel has to execute, the first one running
    executed,     \* requests that came to their end, or were interrupted
    answered,     \* clients whose wait_for_ready has its answer
    boot,         \* where _boot is
    host,         \* where start is
    destroyed,    \* _Session.destroyed
    pc,           \* where exec_cell is, for each cell
    outcome,      \* what the cell's caller gets
    late          \* history: cells that began with the kernel dead

inside == <<container, kernel, queue, executed>>
calls  == <<pc, outcome, late>>
vars   == <<inside, answered, boot, host, destroyed, calls>>

Requests == {Startup} \cup Cells
Inside   == {"ready", "drain"}    \* exec_cell holds the session's lock

TypeOK ==
    /\ container \in {"running", "exited", "removed"}
    /\ kernel \in {"booting", "up", "dead"}
    /\ queue \in Seq(Requests) /\ executed \subseteq Requests
    /\ answered \subseteq Clients
    /\ boot \in {"ready", "drain", "watch", "gone"}
    /\ host \in {"ping", "started", "failed"}
    /\ destroyed \in BOOLEAN
    /\ pc \in [Cells -> {"idle", "over"} \cup Inside]
    /\ outcome \in [Cells -> {"none", "ok", "error", "timeout", "failed", "destroyed"}]
    /\ late \subseteq Cells

Init ==
    /\ container = "running" /\ kernel = "booting"
    /\ queue = <<>> /\ executed = {} /\ answered = {}
    /\ boot = "ready" /\ host = "ping" /\ destroyed = FALSE
    /\ pc = [c \in Cells |-> "idle"] /\ outcome = [c \in Cells |-> "none"]
    /\ late = {}

Running == container = "running"
Queued  == Range(queue)

-----------------------------------------------------------------------------
(* The kernel                                                              *)

KernelUp ==
    /\ Running /\ kernel = "booting"
    /\ kernel' = "up"
    /\ UNCHANGED <<container, queue, executed, answered, boot, host, destroyed, calls>>

\* A cell exits or crashes it, or it runs out of memory.
KernelDies ==
    /\ Running /\ kernel # "dead"
    /\ kernel' = "dead" /\ queue' = <<>>
    /\ UNCHANGED <<container, executed, answered, boot, host, destroyed, calls>>

\* The end of the running request.
Finish ==
    /\ queue # <<>>
    /\ queue' = Tail(queue) /\ executed' = executed \cup {Head(queue)}
    /\ UNCHANGED <<container, kernel, answered, boot, host, destroyed, calls>>

Waits(x) ==
    \/ x = "boot" /\ boot = "ready"
    \/ x = "ping" /\ host = "ping"
    \/ x \in Cells /\ pc[x] = "ready"

Answer(x) ==
    /\ kernel = "up" /\ queue = <<>>
    /\ Waits(x) /\ x \notin answered
    /\ answered' = answered \cup {x}
    /\ UNCHANGED <<inside, boot, host, destroyed, calls>>

\* A request reaches a kernel that is there.
Send(request) ==
    queue' = IF kernel = "up" THEN Append(queue, request) ELSE queue

-----------------------------------------------------------------------------
(* _boot, the container's first process                                    *)

\* With the boot process ends the container and everything in it.
ContainerExits ==
    /\ boot' = "gone"
    /\ container' = "exited" /\ kernel' = "dead" /\ queue' = <<>>
    /\ UNCHANGED <<executed, answered, host, destroyed, calls>>

BootSends ==
    /\ Running /\ boot = "ready" /\ "boot" \in answered
    /\ boot' = "drain"
    /\ Send(Startup)
    /\ UNCHANGED <<container, kernel, executed, answered, host, destroyed, calls>>

\* wait_for_ready raises: the kernel is dead, or 60 s have passed.
BootFails == Running /\ boot = "ready" /\ ContainerExits

\* Nobody looks at the result of the startup code.
BootDrained ==
    /\ Running /\ boot = "drain"
    /\ boot' = "watch"
    /\ UNCHANGED <<inside, answered, host, destroyed, calls>>

\* At its deadline it interrupts whatever the kernel is running.
BootExpires ==
    /\ Running /\ boot = "drain"
    /\ boot' = "watch"
    /\ \/ queue = <<>> /\ UNCHANGED <<queue, executed>>
       \/ /\ queue # <<>>
          /\ queue' = Tail(queue) /\ executed' = executed \cup {Head(queue)}
    /\ UNCHANGED <<container, kernel, answered, host, destroyed, calls>>

BootNotices == Running /\ boot = "watch" /\ kernel = "dead" /\ ContainerExits

-----------------------------------------------------------------------------
(* start: _wait_ready                                                      *)

\* _remove_session_locked, which Docker may refuse.
Remove ==
    /\ destroyed' = TRUE
    /\ \/ container' = "removed" /\ kernel' = "dead" /\ queue' = <<>>
       \/ UNCHANGED <<container, kernel, queue>>

PingOk ==
    /\ Running /\ host = "ping" /\ "ping" \in answered
    /\ host' = "started"
    /\ UNCHANGED <<inside, answered, boot, destroyed, calls>>

\* It has run out of HENRY_PING_TIMEOUT: another process pings again.
PingAgain ==
    /\ host = "ping" /\ "ping" \in answered
    /\ answered' = answered \ {"ping"}
    /\ UNCHANGED <<inside, boot, host, destroyed, calls>>

\* Mutant: the loop is left only when a ping comes back.
UnreadyIfRunning ==
    /\ Running /\ host = "ping"
    /\ host' = "failed"
    /\ Remove
    /\ UNCHANGED <<executed, answered, boot, calls>>

\* The deadline, or a cancellation.
Unready ==
    /\ host = "ping"
    /\ host' = "failed"
    /\ Remove
    /\ UNCHANGED <<executed, answered, boot, calls>>

-----------------------------------------------------------------------------
(* exec_cell, and _exec in the container                                   *)

Return(c, result) ==
    /\ pc' = [pc EXCEPT ![c] = "over"]
    /\ outcome' = [outcome EXCEPT ![c] = result]

Keep == UNCHANGED <<container, kernel, queue, destroyed>>

Locked == \E c \in Cells : pc[c] \in Inside

EnterCell(c) ==
    /\ host = "started" /\ ~Locked /\ pc[c] = "idle"
    /\ IF destroyed THEN Return(c, "destroyed")
       ELSE pc' = [pc EXCEPT ![c] = "ready"] /\ UNCHANGED outcome
    /\ late' = IF kernel = "dead" THEN late \cup {c} ELSE late
    /\ UNCHANGED <<inside, answered, boot, host, destroyed>>

SendCell(c) ==
    /\ Running /\ pc[c] = "ready" /\ c \in answered
    /\ pc' = [pc EXCEPT ![c] = "drain"]
    /\ Send(c)
    /\ UNCHANGED <<container, kernel, executed, answered, boot, host, destroyed, outcome, late>>

\* Mutant: the status of the kernel's reply is passed on as it is.
CellEndsUnchecked(c) ==
    /\ pc[c] = "drain" /\ c \in executed
    /\ \E result \in {"ok", "error", "aborted"} : Return(c, result)
    /\ Keep /\ UNCHANGED <<executed, answered, boot, host, late>>

\* The kernel has reported the cell's end, and what it raised.
CellEnds(c) ==
    /\ pc[c] = "drain" /\ c \in executed
    /\ \E result \in {"ok", "error"} : Return(c, result)
    /\ Keep /\ UNCHANGED <<executed, answered, boot, host, late>>

\* The channel is broken: an error, but no reason to give the kernel up.
ChannelBreaks(c) ==
    /\ Running /\ pc[c] = "drain"
    /\ Return(c, "error")
    /\ Keep /\ UNCHANGED <<executed, answered, boot, host, late>>

\* Mutant: a cell that timed out leaves the kernel to the next one.
ExpiresOnly(c) ==
    /\ Running /\ pc[c] = "drain"
    /\ Return(c, "timeout")
    /\ Keep /\ UNCHANGED <<executed, answered, boot, host, late>>

\* drain_execution has no kernel manager to interrupt with: the host ends it.
Expires(c) ==
    /\ Running /\ pc[c] = "drain"
    /\ Return(c, "timeout")
    /\ Remove
    /\ UNCHANGED <<executed, answered, boot, host, late>>

\* Mutant: the exit code of _exec is taken for a failed cell.
FailsOnly(c) ==
    /\ pc[c] \in Inside
    /\ Return(c, "failed")
    /\ Keep /\ UNCHANGED <<executed, answered, boot, host, late>>

\* wait_for_ready raises, the container is gone, the host's own limit or a
\* cancellation comes first, or the payload cannot be read.
Fails(c) ==
    /\ pc[c] \in Inside
    /\ Return(c, "failed")
    /\ Remove
    /\ UNCHANGED <<executed, answered, boot, host, late>>

-----------------------------------------------------------------------------

Boot == BootSends \/ BootFails \/ BootDrained \/ BootExpires \/ BootNotices

Cell(c) == SendCell(c) \/ CellEnds(c) \/ ChannelBreaks(c) \/ Expires(c) \/ Fails(c)

Next ==
    \/ KernelUp \/ KernelDies \/ Finish
    \/ \E x \in Clients : Answer(x)
    \/ Boot
    \/ PingOk \/ PingAgain \/ Unready
    \/ \E c \in Cells : EnterCell(c) \/ Cell(c)

(***************************************************************************)
(* Every wait has its time limit: the boot process's 60 s, start's         *)
(* deadline, a cell's timeout and the host's 15 s on top.  No progress of  *)
(* the kernel is assumed.                                                  *)
(***************************************************************************)
Fairness == WF_vars(Boot) /\ WF_vars(Unready) /\ \A c \in Cells : WF_vars(Cell(c))

Spec == Init /\ [][Next]_vars /\ Fairness

-----------------------------------------------------------------------------
(* Properties                                                              *)

\* The kernel never has two cells, and a cell that is let in while another still
\* runs finds there only one whose caller was told of an error: after a timeout
\* or a failed exec nobody enters.
KernelNotShared ==
    /\ \A i, j \in DOMAIN queue : queue[i] \in Cells /\ queue[j] \in Cells => i = j
    /\ \A c, d \in Cells : pc[c] \in Inside /\ d \in Queued => d = c \/ outcome[d] = "error"

\* A kernel that has died is found out by the next cell: its session is given up
\* then, so that no third cell can meet it.
DeadKernelGivenUp == \A c \in late : pc[c] = "over" => destroyed

\* start and every cell end, and a container does not outlive its kernel, at
\* whatever point of the boot, of a wait or of a cell the kernel dies.
EverythingSettles ==
    /\ host = "ping" ~> host # "ping"
    /\ \A c \in Cells : pc[c] \in Inside ~> pc[c] = "over"
    /\ kernel = "dead" ~> container # "running"
=============================================================================
