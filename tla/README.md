# Verification of Henry

Henry is a Slack teammate: a mention in a channel becomes one run of a model-driven agent with
tools, among them a stateful Python kernel in a Docker container, and the run's answer replaces a
placeholder message in the thread. It is one asyncio process with a Postgres database, a Docker
daemon and Slack around it. This directory holds TLA+ models of the parts where order, failure and
limits matter, TLC configurations that check them on small instances, and TLAPS proofs for all
instances. All source paths below are relative to `src/henry/` unless they begin with `src/`.

## 1. Inventory

| Component | State it keeps | Operations | Talks to |
|---|---|---|---|
| Slack gateway, `slack/app.py` | nothing of its own; one asyncio task per mention | `dispatch_app_mention`, `_start_run`, `_run_and_update_slack` | Slack API, deduper, orchestrator |
| Orchestrator, `orchestrator/runner.py`, `locks.py` | a dict thread -> lock, never emptied; tables `processed_events`, `audit_log` | `handle_request`, `ThreadLocks.acquire`, `ProcessedEventDeduper.reserve`, the audit sink | config, transcript, agent runner, memory, cleanup hook |
| Slack context, `slack/context.py` | none | transcript and event building, `split_for_slack` | - |
| Agent runner, `agent/` | none between runs | `PydanticAgentRunner.run`: snapshot, toolsets, model loop, result | memory, integrations, tools, pydantic-ai |
| Sandbox tools, `sandbox/tools.py` | `_session_slots`: run -> slot (lock, users, cached session) | `run_python`, `write_file`, `read_file`, `clone_repo`, `clear_sandbox_session` | Docker sandbox, GitHub |
| Docker sandbox, `sandbox/docker.py` | `_sessions`: id -> container, volume, lock, `destroyed` | `start`, `exec_cell`, file transfer, `destroy`, `reap_expired` | Docker daemon |
| Kernel protocol, `sandbox/kernel_protocol.py` | the payload of one cell, within budgets | `drain_execution` | the kernel's iopub and shell channels |
| Kernel entry, `sandbox/kernel_entry.py` | the kernel process of a container | `boot`, `exec`, `ping` | Jupyter kernel, `drain_execution` |
| Channel memory, `memory/` | tables `channel_memory`, `channel_state` | `remember`, `recall`, `snapshot`, `refresh_snapshot`, summarizing | Postgres |
| MCP servers, `integrations/mcp.py` | one cached toolset per server | `load_mcp_config`, `toolset`, `aclose`, result trimming | fastmcp, pydantic-ai |
| Built-in integrations, `integrations/builtins/` | none | GitHub calls, `web_search`, `web_fetch` | HTTP |
| Channel configuration, `config/registry.py` | table `channel_config` | merge of defaults and a channel's row | Postgres |
| Wiring, `wiring.py`, `app.py` | the runtime: engine, HTTP client, registry, locks | `build_runtime`, hooks of a run, `close` | everything |
| Settings, tables, types, sanitizing, smoke script | declarations | - | - |

How a mention flows: Slack delivers it (possibly again); the gateway reserves its event id, posts
"Working on it..." and starts a task; `handle_request` takes the lock of the thread, loads the
channel's configuration and the thread's transcript, runs the agent, refreshes the channel snapshot
after a good run, destroys the run's sandbox, writes the audit row and releases the lock; the
gateway then replaces the placeholder and posts the rest of the answer. During the run the agent
library may run several tool calls at once: they share the run's slot and, through it, one kernel.

What is hard, and what makes each part correct:

* **One kernel per run, under interleaving, failure and cancellation** (sandbox). Parallel first
  calls must not start two containers; a kernel torn down by one cell must not be used by another
  that waited behind it; a late failure must not evict a successor; variables of one run must not
  be seen by another; the loss of a kernel must be told; the cleanup must leave nothing running.
* **One reply per event, one agent per thread, no unaudited answer** (gateway and orchestrator),
  with duplicated deliveries, every collaborator raising, and a crash of the process.
* **What a cell did must not read otherwise** (kernel protocol): outputs cut and dropped by five
  different paths within three budgets, a channel that breaks, a deadline, a host that gives up.
* **Arithmetic at boundaries**: where a long reply is cut, what a JSON list costs.
* **Rows shared by concurrent runs** (memory), read and committed in two steps: a finished write must
  not be undone by one it was to replace, and a row must not be what nobody wrote.
* **Toolsets shared by concurrent runs** (MCP): runs enter and leave one cached connection in any
  order, while servers die, cannot be reached, or are closed by a shutdown that does not wait for
  runs. There must be one connection and one process per server, a run must not fail because a
  server is away, and nothing may be left after `close()`.
* **A kernel that may die or hang at any time** (kernel entry): boot, ping and exec are processes
  that wait for it independently; a lost kernel must be found out and given up, a cell must never
  share the kernel with another, and every wait must end.

`PROJECT.json` lists every hazard of this kind with its line and the properties that cover it.

## 2. Modules

| Module | Models | Extended by |
|---|---|---|
| `SandboxSessions` | `sandbox/tools.py` on top of the session life cycle of `sandbox/docker.py` | `SandboxSessionsInv` (inductive invariant), `SandboxSessionsProofs`, `RunKernelProofs`, `MCSandboxSessions` |
| `RunKernel` | what `run_python`'s docstring promises: the abstract specification that `SandboxSessions` implements | instantiated by `SandboxSessions` |
| `KernelBoot` | one container: `sandbox/kernel_entry.py` with `start` and `exec_cell` of `sandbox/docker.py` around it | `KernelBootProofs`, `MCKernelBoot` |
| `AgentRuns` | `agent/runner.py`, the cached toolset of `integrations/mcp.py`, `close()` of `wiring.py`, `amain` of `app.py` | `AgentRunsProofs`, `MCAgentRuns` |
| `ChannelConfig` | the column `enabled_integrations` of `config/registry.py` and its resolution | extended by `AgentRuns` |
| `MentionDispatch` | `slack/app.py`, `orchestrator/`, and the hooks of `wiring.py` as the run sees them | `ThreadKernels` |
| `ThreadReplies` | what the people of a thread are promised: the abstract specification that `MentionDispatch` implements | instantiated by `MentionDispatch` |
| `ThreadKernels` | the composition of `MentionDispatch` with `RunKernel`: runs and the kernels of their tools | `MentionDispatchProofs` (which proves about both), `MCMentionDispatch` |
| `CellDrain` | `sandbox/kernel_protocol.py`, the result side of `exec_cell`, `_format_cell_result` | `CellDrainProofs`, `MCCellDrain` |
| `ChannelMemory` | `remember` and `refresh_snapshot` of `memory/postgres.py` | `ChannelMemoryProofs`, `MCChannelMemory` |
| `ColumnRegisters` | what is left of "threads cannot corrupt the memory": the abstract specification that `ChannelMemory` implements | instantiated by `ChannelMemory` |
| `SlackChunks` | `split_for_slack` | `SlackChunksProofs`, `MCSlackChunks` |

Every module models asyncio the same way: a step is what one task does between two awaits that can
suspend it; taking a lock that is never held across a suspension is part of the step around it.
Definitions whose comment begins with "Mutant" are broken variants of the definition after them;
no specification uses them. They are there to be swapped in, to see that the properties notice.

### SandboxSessions

A tool call is a task; a session (container, volume, kernel) is named after the call that starts
it, and a run's cleanup is a task named after the run. `slotOf`, `users`, `holder` and `cached` are
`_session_slots` and the fields of `_SessionSlot`; `users` is the set behind the reference count, so
that it can be related to tasks. `kernel` says whether a session is in `_sessions`, `guard` is
`_Session.lock`, and `container` is Docker's view, which a thread may change after its task is gone.
`handle` is the session a task was given.

`Begin`/`BeginClone`/`Downloaded` bring a call to `_locked_slot` (`EnterSlot`, `Granted`,
`LeaveSlot`). `ReuseSession` and `StartSession` are the two branches of `_session_for`;
`CreateFails`, `Created`, `Booted`, `BootFails`, `LogsRead`, `Unbooted` are `DockerSandbox.start`
with its two undo paths. `LockSession`, `CellReturns`, `CellFails`, `CellFailed` are `exec_cell`;
`CellRaises` is a removal that raises something else than `SandboxError`, which
`_invalidate_locked` does not swallow: the call and its run end and nobody forgets the session. `Forget`
is `_forget_session` with its identity test. `FileMoved` and `FileFails` are the file
tools. `EndRun`, `BeginClear`, `Clear`, `ClearLocks`, `ClearRemoved` are the run's cleanup. The
`Cancel...` actions deliver `CancelledError` at each kind of await, with the shielded removal of a
session going on (`CellCancelled`, `RemovalEnds`) and the thread of a start going on unwatched
(`OrphanCreated`).

`Drained` states what the agent library does: the runs for which `agent.run` returns only after
their tool tasks have. It is an assumption about code outside the repository, so `sandbox_life` has a
run that is drained and one that is not. A cleanup whose removal Docker refuses leaves the container
`leaked`: the code logs it.

### RunKernel

The docstring of `run_python` tells the agent that variables persist across the calls of a task, that
a timeout or kernel error discards them, and that the result says so. `RunKernel` is that promise and
nothing else: `session` is the kernel a run works on, `life` whether it is alive, `working` the cells
that execute, `told` the kernels whose loss was reported, `ended` how the cleanup ended. `Start` makes
a kernel only for a run that has none, `Work` executes a cell alone in the run's live kernel, and
`Tell` is the only way to be rid of a lost one before the cleanup (`Close`, or `Fail` if that raises
or is cancelled). There is no slot, no lock, no waiting and no container in it.

`SandboxSessions` implements it under the mapping at its end: the session of a run is what its slot
caches, or what the cleanup has taken from the cache and is destroying; a kernel is born for the agent
when its own call is given it (while it boots, or if its boot fails, nobody has seen it); a loss is
told when a call ends in `reset`. `Refines` is `RunKernel`'s specification under this mapping.

### MentionDispatch

A delivery names a run. `queue` is the thread's lock with its waiters (asyncio locks are FIFO);
`reserved`, `audit`, `refreshed` are the database, `shown` and `posts` are Slack; these survive
`Crash`, tasks and locks do not. Every awaited collaborator has a failing twin of its action
(`ReserveFails`, `PostFails`, `LoadFails`, `RefreshFails`, `CleanupFails`, `AuditFails`,
`UpdateFails`, `ChunkFails`), with the effect the code's `try` blocks give it; a failing store, sink or
Slack call may have had its effect before it raised where the code cannot tell. The dict of `ThreadLocks`
(`orchestrator/locks.py:17`) is not a variable: it gets one lock per thread, made without an await at
the first use and never evicted, so the lock of a thread is always the same and an unused one has no
state but its empty queue. The dict itself grows by one entry per thread; nothing here depends on it.

The post of the placeholder and the start of its run are two steps, as Slack's effect, the response and the run's task are
three moments: `PostPlaceholder` (shown), `StartRun` (the response is back; the task queues for the
lock), and between them anything may happen. Two mentions of a thread may therefore be acknowledged in
one order and join the lock in the other, and a crash, or a post that raises although it took effect
(`PostFails` at `posted`), leaves "Working on it..." with no run behind it. `PlaceholderReplaced`
excludes exactly the deliveries whose own Slack call raised and those of a process that died. Retries
inside the Slack SDK are not modelled.

### ThreadReplies

Idempotency, serial threads and the audited exit are three paragraphs of the plans; `ThreadReplies` is
what they amount to for the people of a channel, without tasks, locks and database. A mention is
acknowledged once per event (`Acknowledge`), after which it joins its thread's `line` (`Join`) or, if Henry
never learns that it acknowledged, is missed (`Miss`); `Work` takes the first of a line and nobody
else; `Answer` takes it off the line together with its audit record and its place in the channel's
`memory`, and only of a failure may the log be silent or wrong; `Show` replaces the acknowledgement by
the answer for good, `Continue` adds the rest of an answer that is there. `Drop` (Slack refuses) and
`Crash` (the line is forgotten, what was logged or shown stays) are the failures it owns up to.

The order promised is that of joining: not of the acknowledgements, which the code does not keep. Under
the mapping at the end of `MentionDispatch` those `heard` are the deliveries whose response is on its
way, the line is the queue of the thread's lock, those worked on are the runs inside the lock, and an
answer is ready from the release of the lock to the update of the placeholder. `Refines` is
`ThreadReplies`' specification under this mapping. The mapping has no history: a mutant that lets a
waiter pass the lock fails it at the first `Work` out of order.

### ThreadKernels

The orchestrator owns a run's sandbox and releases it in `finally` (v1 plan, "Resource & lifecycle
ownership"); that is a statement about `handle_request`, `HenryRuntime.cleanup` and the tools together.
`ThreadKernels` joins them: the actions of `MentionDispatch` as they are, and those of `RunKernel`,
which `SandboxSessions` implements, in their places. The agent's calls start, use and lose kernels
while the run is at `agent` (`UseKernel`), the agent ends when its calls have (`Finished`, `Idle`: the
assumption `Drained` for every run), and the end of `clear_sandbox_session` is the end of the cleanup
hook (`Cleared` with `Close`, `ClearFails` with `Fail`). A crash leaves every kernel as it is. A kernel
that is dead here is out of `_sessions`; whether Docker removed its container is the concern of
`SandboxSessions`.

### CellDrain

Text is its length in bytes and an output its size in JSON; an error is given by the lengths of its
name, value and frames, where `ends[i]` is the cost of the first i frames. `Room`, `Fits`, `Fitted`,
`Capped`, `Accepts` and `Offer` are the budget helpers; `PutStream`, `PutBundle`, `PutError` the three
kinds of output; `Receive...`, `ChannelFails`, `Expire` the loop with its exits; `Reply` the shell
channel; `Accept` the host taking the payload, which gives the kernel up only if the cell timed out;
`GiveUp` every way in which the host discards the payload and with it the kernel; `Tell` the text for
the agent, of which only the marks (error, dropped, truncated, timeout, reset, failed) are kept.
`destroyed` is the host's side of a lost kernel (the session removed) and `invalidated` what the result
says of it: that the agent hears `reset` exactly for the former is a part of `FailureTold`. `seen`,
`idle` and `reply` record what the kernel sent, for the properties. One character is one byte, so the
binary search of `_fit_text` keeps exactly the room there is; with wider characters it keeps up to three
bytes less, which makes outputs smaller and is otherwise the same path.

### ChannelMemory

A call is a task with a session of its own; `row` is the table, a row being a function of its columns,
and `read` the row object a call got from `session.get`. `Commit` is the flush of the ORM: an INSERT if
nothing was read, else an UPDATE of the columns that differ from what was read (`Changed`); a second
INSERT of a key is refused (`Collide`). `refresh_snapshot` first reads the state in another session
(`Snapshot`), for the summarizer, whose result is an input here. In general it is not: `open_tasks` and
`key_facts` are copied from what was read (`memory/summarizer.py:86`), a read-modify-write over two
sessions. But as wired there is no model, nothing else writes those two columns and they stay empty;
`rolling_summary` is made of the transcript, which has at least the mention. `before` (the calls that
had ended when a call began) and `writer` (who last changed a column) are history, for the properties.

### ColumnRegisters

A row is not atomic (`memory_torn_row`), but each of its columns is: a call writes every column once, at
one moment between its beginning and its end, and an ended call that was saved has written all.
`ChannelMemory` implements this because of where the columns take effect: one that differs from what
was read when the UPDATE is flushed (`Commit`), and one that does not when it was read (`Get`), since
the code then leaves the column to whoever changes it next. `Dues` are the columns with their moment
still to come, and `Refines` is `ColumnRegisters`' specification under this mapping.

### KernelBoot

`queue` is what the kernel has been sent and not finished, `executed` what it finished, `answered` the
clients whose `wait_for_ready` got its answer (the kernel answers it when it is idle). `boot` is the
process that owns the kernel (`BootSends`, `BootDrained`, `BootExpires`, `BootFails`, `BootNotices`),
`host` is `start` with its pings (`PingOk`, `PingAgain`, `Unready`), and each cell is one exec process
and the `exec_cell` call that awaits it (`EnterCell`, `SendCell`, `CellEnds`, `ChannelBreaks`,
`Expires`, `Fails`). The kernel may become ready, finish or die at any step, or never. `late` records
the cells that met a dead kernel. The queue of an idle kernel is empty at `EnterCell` unless the
cell before was given up with an error that keeps the session.

### AgentRuns and ChannelConfig

A run reads its channel's row, asks each enabled server for its toolset, enters it, and leaves all it
has entered when the agent ends. A toolset is named after the server and the run that built it;
`held` is a run's exit stack and stands for the library's reference count; `link` is the connection
and `process` the stdio subprocess, which outlives a connection. `Connect`, `Connected`, `ConnectFails`
and `Join` are `__aenter__` under the toolset's lock, `Leave` and `LeaveRaises` the unwinding of the
stack, `ServerDies` the server. `BeginClose`, `BeginAclose`, `ClientCloses`, `ClientCloseFails`,
`AcloseEnds` and `RestClosed` are `HenryRuntime.close` and `MCPIntegration.aclose`, which no run waits
for. `ChannelConfig` says which servers a row enables: missing, NULL or empty text is the default `*`,
an empty list denies all, explicit names are honoured even if not configured.

### SlackChunks

The text is a sequence of ordinary characters and newlines, a chunk an interval of positions
counted from 0 as in the code. `IsCut` keeps the search window of the `rfind` as it is written.

## 3. What is checked

| Run | Instance | Shows |
|---|---|---|
| `sandbox_parallel` | three cells and a two-file clone in one run, removals may fail | `OneKernel`, `OneCellPerLiveKernel`, `NoContainerLeftRunning`, and `Refines`: the tools keep the promise of `RunKernel` |
| `sandbox_life` | two runs with three cells share registry and slots; a call and the cleanup of the first may be cancelled, the second is not drained; removals may fail, the cleanup's too | `SlotsAgree`, `RunsApart`, `ClearedRunOwnsNothing`, `EveryTaskEnds` |
| `kernel_boot` | one container, three cells; the kernel dies or hangs anywhere | `KernelNotShared`, `DeadKernelGivenUp`, `EverythingSettles` |
| `agent_runs` | two runs of two channels with several rows, two servers (one stdio), a death, a shutdown at any point | `OneConnectionPerServer`, `ErrorHasCause`, `OnlyEnabledServers`, `ClosedMeansGone`, `EverythingEnds` |
| `dispatch_faults` | `ThreadKernels`: an event delivered twice and another of the thread, which uses a kernel; everything may raise, before or after it took effect; one crash | `OneRunPerEvent`, `AnswerIsAudited`, `SnapshotFollowsAnswer`, `KernelHasRun`, `PlaceholderReplaced`, and `Refines`: the thread sees what `ThreadReplies` promises |
| `cell_drain` | four outputs out of fifteen messages, three items, 23 bytes, two channel failures | `WithinBudget`, `NothingLostSilently`, `OrderKept`, `TraceLeft`, `OkIsEarned`, `FailureTold` |
| `memory_writes` | three writes of one path that agree in a column or in none, a refresh, a connection that fails anywhere | `QuietWriteStands`, `CollisionNeedsRace`, and `Refines`: every column is an atomic register |

Five runs look for a disagreement between the code and what the repository says of it, and find it:

| Run | Says | Does |
|---|---|---|
| `sandbox_cancelled_start` | every exit path destroys the sandbox (v1 plan, line 61) | a start cancelled while its thread creates the container leaves a container nothing knows |
| `memory_torn_row` | parallel threads cannot corrupt memory (design, line 161) | one call changes the content, another the kind, and the row is what neither wrote |
| `cell_masked_failure` | a failed cell must not read as a clean run (`sandbox/tools.py:199`) | a placeholder of a dropped output has output type `error` and passes for the traceback |
| `agent_no_heal` | a dead server heals on the next run's re-enter (MCP plan, line 17) | while runs overlap, the count never falls to zero and the next run joins the dead connection |
| `chunks_over_limit` | chunks are within the limit (`tests/test_slack_context.py:103`, `:111`) | a line of exactly `limit` characters takes its newline along: limit + 1 (`slack/context.py:118`) |

Seen while modelling and not made a run, as the source shows them at a glance: `reap_expired` has no
caller in the package, and a session whose removal Docker refused is no longer in `_sessions` for it
to find (`sandbox/docker.py:431`, `:474`); the chunks of two replies in a thread may interleave,
since they are posted outside its lock (`slack/app.py:45`); a placeholder
whose post took effect and raised has no run to replace it, and the retry of the event is a duplicate
(`slack/app.py:56`, `:59`); saving a memory with the content it has
flushes nothing, so `updated_at` stays and `recall` does not move it to the front
(`memory/postgres.py:50`, `:69`); a cleanup that raises ends the run before the audit sink
(`orchestrator/runner.py:137`); the next run of a thread may read the transcript before the last
answer is in it, which is posted after the lock is released (`slack/app.py:44`); `ping` and `boot` wait
for the kernel independently, so that a first cell may execute before the startup code
(`sandbox/kernel_entry.py:51`); an integration that an explicit list names twice registers its tools
twice (`agent/runner.py:174`); `budget_caps` of a channel is read and never enforced.

**Bounds, and why they are enough.** Three calls are the least at which one holds the slot, one waits,
and one arrives to find the slot dropped or remade; two slots let a remade slot differ from the dropped
one. A clone of two files has a step at which its session can vanish under it. Three deliveries give a
duplicate and a competitor for the thread; one kernel meets every way out of its run. (With a kernel for
each mention the run takes too long; two kernels that must not meet are the matter of a theorem,
`OneLiveKernelPerThread`.) `CellDrain`'s budgets are such that every output can fit, be cut, be dropped
and be replaced, each on its own or after the others, and the traceback limit (3) bites before the item
limit (10), which bites before the list (23). Two writes that change different columns of a row that a
third made are the least that tears one. Three cells in a container give one that loses the kernel, one
that finds out, and one that must not meet it. Two runs are the least at which one leaves a server
another still uses, or connects while another does, or (`agent_no_heal`) joins it after the death. Rows
are chosen so that both runs, one, or none enable a server. One death shows every reaction to it, and
the proof has any number. `chunks_over_limit` looks through all texts of up to seven characters and
limits up to four; two characters are enough. The proofs do not have bounds.

**Fairness.** `SandboxSessions`, `MentionDispatch` and `ThreadKernels` assume weak fairness of every
task's steps once it has begun: asyncio runs every ready task and grants its locks in order, cells,
pings and boots have deadlines in the code, Docker, HTTP, database and Slack calls end or time out in
their libraries, and a run of the agent has a usage limit. No delivery, call, failure, cancellation or
crash is forced. `ThreadKernels` adds that a cell ends (it has a deadline) and, by strong fairness, that
an agent does: it is free to end whenever none of its calls runs, and its usage limit keeps it from
calling for ever. `AgentRuns` assumes it of a run that has loaded its configuration and of `close()`:
connecting has `init_timeout`, closing a server has a timeout, an agent's requests are limited. In
`KernelBoot` only waits with a deadline are fair (the boot process, the end of `start`, a cell): nothing
is assumed of the kernel, which may hang for ever. `SlackChunks`, `CellDrain` and `ChannelMemory` check
no liveness (by `NothingLost` no chunk is empty, so the loop of `SlackChunks` ends).

## 4. What is proved

All seven systems, and the composition `ThreadKernels`, have an inductive invariant proved by TLAPS for
every value of their constants under the named assumptions of the modules, and the safety invariants
follow from it.

* `SandboxSessionsProofs`: `TypeCorrect`, `Inductive`, `SlotsAlwaysAgree`, `OneKernelPerRun`,
  `CellsAreSerial`, `RunsStayApart`. `OneKernel` alone is not inductive: that the cache knows the
  one live kernel depends on who may write the cache, thus on the slot's lock (`SlotLock`: it is
  held exactly by the task that starts or destroys, and the slot caches nothing meanwhile), thus on
  all tasks of a run contending for the same lock (`SlotCount`, `SlotKeys`), and on who was given
  which session (`Handles`). That cells are serial depends on `SessionLock` and on `KernelState`:
  a session whose lock is held for a cell is alive.
* `RunKernelProofs`: `KeepsPromise`, that `SandboxSessions` implements `RunKernel`, with failures,
  cancellations and undrained calls. The argument is the agent's view of a state: most steps leave it
  alone (`CallUnseen`, `BootUnseen`), and each of the others is one action of `RunKernel`. It needs
  the inductive invariant and `CleanupIsLast`: a drained cleanup begins after the last call of its
  run and none follows. Then `ClearedRunsOwnNothing`, from what a session's kernel says of its
  container (`Containers`) and from the cleanup being the last to leave the slot; and
  `NothingLeftRunning` under the assumption that no call is cancelled, without which it is false
  (`sandbox_cancelled_start`).
* `KernelBootProofs`: `BootInductive`, `BootTypeCorrect`, `CellsApart`, `DeadKernelsEnd`. That a cell
  finds the queue empty, or behind it only a cell given up with an error, depends on where the
  startup code is, on which cells have been answered and sent, and on the session's lock (one cell
  inside); that a dead kernel is given up depends on a client that was not answered before the death
  never being answered.
* `AgentRunsProofs`: `RunsInductive`, `RunsTypeCorrect`, `OneConnection`, `HeldIsConnected`,
  `ErrorsHaveCauses`, `EnabledServersOnly`, `NothingOutlivesClose`, for any runs, rows, servers and
  number of deaths. The invariant relates a run's place to what it asks for and holds, a connection
  to the runs that hold it, the cached toolset to the one that may be connected, and the progress of
  `close()` to the servers that were in use meanwhile.
* `MentionDispatchProofs`: `DispatchTypeCorrect`, `OneReplyPerEvent`, `ThreadsAreSerial`,
  `AnswersAreAudited`, `SnapshotsFollowAnswers`, over any number of deliveries and crashes.
  The strengthening says which deliveries hold a reservation (`Reservations`), that a task is inside
  the lock only when it heads the queue (`Locking`), and what the records are at each place
  (`Placeholder`, `Records`). `RepliesAsPromised`: it implements `ThreadReplies`, so that mentions of a
  thread are worked on in the order in which they joined its line, and what is shown is final. Each action
  is one action of `ThreadReplies` or unseen (`MoveUnseen`, `WorkSeen`, `AnswerSeen`); it needs of the
  invariant that a run that answers has a result and, if it is a good one, is remembered, and that
  whoever posts chunks shows an answer.
  Of `ThreadKernels`: `KernelsHaveRuns`, `OneLiveKernelPerThread`, `RepliesWithKernels`. Every step of
  the composition is one of `MentionDispatch` or leaves it alone (`DispatchGoesOn`), which gives its
  invariant for nothing; the strengthening says that a live kernel is the one its run works on and its
  run is at a place before the audit, unless it died (`Held`), and that a run whose cleanup raised is on
  a way without audit and answer (`CleanedOnce`, `Astray`). One kernel per thread is then the lock's.
* `CellDrainProofs`: `CellInductive` and one theorem for each invariant of the module. The
  invariant says what `used` is (no sum is needed: an append adds the separator and the size), that
  room only shrinks (`RoomShrinks`), that everything seen is in the list while nothing was cut, and
  that every output seen has an entry while a placeholder fits. Frames are given by their cumulative
  cost, so that how far an error is cut (`IsMost`) is stated without recursion.
* `ChannelMemoryProofs`: `MemoryTypeCorrect`, `NoWriteIsLost`, `QuietWritesStand`, `CollisionsAreRaces`,
  `ColumnsAreAtomic`. The strengthening is that the object of a call about to commit is the row, but for
  columns changed by a call that overlaps it (`ReadFresh`), that `writer` tells the truth (`Authors`),
  and that a row which a call has not found was made by one that overlaps it (`FirstContact`).
  `ColumnsAreAtomic`, that `ChannelMemory` implements `ColumnRegisters`, needs of it that a row which a
  call has found is still there when it commits: the columns that are not due are in it. `GetSeen`,
  `StoreSeen` and `EndSeen` are the three moments of a call.
* `SlackChunksProofs`: `ChunksTypeCorrect`, `NothingLost` (`TextPreserved`), `LimitPlusOne`
  (`ChunkNearLimit`: a chunk is over the limit only by the newline that ends it), `LinesStayWhole`
  (`LinesKeptWhole`), for every text and every limit. No run checks these three: `chunks_over_limit` looks
  for the one bound that fails, and the proofs leave nothing of the others to a small instance.

The proofs are in modules of their own, one step per action and, under it, one per conjunct that
the action disturbs.

## 5. What is only model-checked

Liveness (`EveryTaskEnds`, `PlaceholderReplaced`, `EverythingSettles`, `EverythingEnds`), which is out
of reach of the prover; and `NoContainerLeftRunning` where calls may be cancelled, which is false.
Every safety property of a passing run is also a theorem, the three refinements included. Some
theorems are not properties of a run: `ThreadsAreSerial` and `NoWriteIsLost` follow from the refinements
that are checked in their place, `OneLiveKernelPerThread` needs two kernels, and what is said
of `SlackChunks` other than the bound is only proved.

## 6. What is not modelled, and why

* What the agent library, Docker, Jupyter, Postgres and Slack do inside: each is a step that
  succeeds, fails, or takes effect and fails.
* `DockerSandbox.exec` and `reap_expired`: nothing in the package calls them.
* A clone copies at least one file; an empty archive ends the call without a session and is the
  same as a clone that fails to download.
* `ping` and `boot` not being ordered is in `KernelBoot`, but no document promises an order, so no
  property is stated of it; likewise the collection of a task that nobody refers to (`slack/app.py:66`).
* The order of names in an explicit list and duplicates in it; the columns of `channel_config` other
  than `enabled_integrations`; the parsing of `mcp.json` and the capping of tool results.
* GitHub, `web_search` and `web_fetch`: HTTP requests that keep no state between calls.
* Wording, logging, costs and usage counters; sanitizing of delimiters; settings, table
  declarations, migrations, branding, test fakes and the smoke script, which have no behaviour over
  time.

## 7. Plan

Done: `SandboxSessions` and its refinement of `RunKernel`, `MentionDispatch` and its refinement of
`ThreadReplies`, their composition `ThreadKernels`, `ChannelMemory` and its refinement of
`ColumnRegisters`, `SlackChunks`, `CellDrain`, `KernelBoot`, `AgentRuns` with `ChannelConfig`, each with
proofs. What would be next, in this order:

1. The composition of `SandboxSessions` with `KernelBoot`: a cell's end as `KernelBoot` has it, in the
   place of the choice between `CellReturns` and `CellFails`.
2. Pure parts: transcript limits of `slack/context.py`, the redirect loop of `web_fetch`, the checks
   of a cloned archive, the capping of MCP tool results.
