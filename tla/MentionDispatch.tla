--------------------------- MODULE MentionDispatch ---------------------------
(***************************************************************************)
(* From a Slack mention to its reply: dispatch_app_mention, _start_run and *)
(* _run_and_update_slack (henry/slack/app.py), ProcessedEventDeduper,      *)
(* ThreadLocks and handle_request (henry/orchestrator), over several       *)
(* deliveries of several events, in one asyncio process that may crash.    *)
(*                                                                         *)
(* A delivery of an event starts at most one run: the run is named after   *)
(* the delivery.  A step is what a task does up to its next await.  What   *)
(* survives a crash is the database (reserved, audit, refreshed) and Slack *)
(* (shown, posts); the locks and the tasks do not.                         *)
(***************************************************************************)
EXTENDS Naturals, Sequences, FiniteSets

CONSTANTS
    Deliveries,   \* deliveries of app_mention events by Slack
    Events,       \* outer event_ids
    EventOf,      \* the event a delivery carries
    Threads,      \* (channel_id, thread_ts) pairs
    ThreadOf,     \* the thread of an event
    MaxChunks,    \* bound: chunks of a reply after the first
    MaxCrashes,   \* bound: crashes of the process
    StoreMayFail, \* may the database or the Slack reads raise?
    HooksMayFail, \* may cleanup or the audit sink raise?
    SlackMayFail  \* may chat_postMessage or chat_update raise?

ASSUME DispatchAssumption ==
    /\ EventOf \in [Deliveries -> Events]
    /\ ThreadOf \in [Events -> Threads]
    /\ MaxChunks \in Nat /\ MaxCrashes \in Nat
    /\ StoreMayFail \in BOOLEAN /\ HooksMayFail \in BOOLEAN /\ SlackMayFail \in BOOLEAN

VARIABLES
    pc,         \* where the task of each delivery is
    queue,      \* ThreadLocks: holder, then waiters, of each thread's lock
    result,     \* the local `result` of handle_request, or the chunks' origin
    left,       \* chunks still to be posted
    reserved,   \* processed_events
    audit,      \* the status of the run's audit_log row
    refreshed,  \* runs that wrote the channel snapshot
    shown,      \* the placeholder message of each run
    posts,      \* whose further chunks each thread shows, in order
    crashes

taskVars  == <<pc, queue, result, left>>
storeVars == <<reserved, audit, refreshed>>
slackVars == <<shown, posts>>
vars == <<taskVars, storeVars, slackVars, crashes>>

Thread(d) == ThreadOf[EventOf[d]]

InLock == {"fetch", "agent", "refresh", "cleanup", "audit"}
Over   == {"duplicate", "dropped", "done", "lost", "dead"}
Places == {"idle", "reserve", "post", "posted", "queued", "update", "chunks"} \cup InLock \cup Over
Results == {"none", "ok", "stopped", "error"}   \* stopped: budget or agent error

TypeOK ==
    /\ pc \in [Deliveries -> Places]
    /\ queue \in [Threads -> Seq(Deliveries)]
    /\ result \in [Deliveries -> Results]
    /\ left \in [Deliveries -> 0 .. MaxChunks]
    /\ reserved \subseteq Events
    /\ audit \in [Deliveries -> Results]
    /\ refreshed \subseteq Deliveries
    /\ shown \in [Deliveries -> Results \cup {"working"}]
    /\ posts \in [Threads -> Seq(Deliveries)]
    /\ crashes \in 0 .. MaxCrashes

Init ==
    /\ pc = [d \in Deliveries |-> "idle"]
    /\ queue = [t \in Threads |-> <<>>]
    /\ result = [d \in Deliveries |-> "none"]
    /\ left = [d \in Deliveries |-> 0]
    /\ reserved = {} /\ refreshed = {}
    /\ audit = [d \in Deliveries |-> "none"]
    /\ shown = [d \in Deliveries |-> "none"]
    /\ posts = [t \in Threads |-> <<>>]
    /\ crashes = 0

GoTo(d, place)   == pc' = [pc EXCEPT ![d] = place]
SetResult(d, r)  == result' = [result EXCEPT ![d] = r]

\* Mutant: the lock of a thread does not exclude.
HasAnyLock(d) == d \in {queue[Thread(d)][i] : i \in DOMAIN queue[Thread(d)]}

\* asyncio.Lock is first come, first served.
HasLock(d) == queue[Thread(d)] # <<>> /\ Head(queue[Thread(d)]) = d
Release(d) == queue' = [queue EXCEPT ![Thread(d)] = Tail(@)]

-----------------------------------------------------------------------------
(* dispatch_app_mention and _start_run                                     *)

\* Acknowledged first; a body without the required fields goes no further.
Arrive(d) ==
    /\ pc[d] = "idle"
    /\ GoTo(d, "reserve")
    /\ UNCHANGED <<queue, result, left, storeVars, slackVars, crashes>>

\* Mutant: the IntegrityError of a second insert is not turned into False.
ReserveAnyway(d) ==
    /\ pc[d] = "reserve"
    /\ reserved' = reserved \cup {EventOf[d]}
    /\ GoTo(d, "post")
    /\ UNCHANGED <<queue, result, left, audit, refreshed, slackVars, crashes>>

\* The primary key of processed_events decides, across restarts too.
Reserve(d) ==
    /\ pc[d] = "reserve"
    /\ reserved' = reserved \cup {EventOf[d]}
    /\ GoTo(d, IF EventOf[d] \in reserved THEN "duplicate" ELSE "post")
    /\ UNCHANGED <<queue, result, left, audit, refreshed, slackVars, crashes>>

\* The commit raises something else, before or after it took effect.
ReserveFails(d) ==
    /\ StoreMayFail /\ pc[d] = "reserve"
    /\ reserved' \in {reserved, reserved \cup {EventOf[d]}}
    /\ GoTo(d, "dropped")
    /\ UNCHANGED <<queue, result, left, audit, refreshed, slackVars, crashes>>

\* Slack shows the placeholder; its response is on the way back.
PostPlaceholder(d) ==
    /\ pc[d] = "post"
    /\ shown' = [shown EXCEPT ![d] = "working"]
    /\ GoTo(d, "posted")
    /\ UNCHANGED <<queue, result, left, storeVars, posts, crashes>>

\* The response is there, in whatever order the responses to one thread come; the
\* run's task is created and queues for the lock of its thread before it awaits
\* anything else.
StartRun(d) ==
    /\ pc[d] = "posted"
    /\ queue' = [queue EXCEPT ![Thread(d)] = Append(@, d)]
    /\ GoTo(d, "queued")
    /\ UNCHANGED <<result, left, storeVars, slackVars, crashes>>

\* The post raises, before or after it took effect: there is no run.
PostFails(d) ==
    /\ SlackMayFail /\ pc[d] \in {"post", "posted"}
    /\ GoTo(d, "dropped")
    /\ UNCHANGED <<queue, result, left, storeVars, slackVars, crashes>>

-----------------------------------------------------------------------------
(* handle_request, under the lock of the thread                            *)

ConfigLoaded(d) ==
    /\ pc[d] = "queued" /\ HasLock(d)
    /\ GoTo(d, "fetch")
    /\ UNCHANGED <<queue, result, left, storeVars, slackVars, crashes>>

\* Before deps exist an exception leaves nothing to clean up.
LoadFails(d) ==
    /\ StoreMayFail
    /\ pc[d] \in {"queued", "fetch"} /\ HasLock(d)
    /\ SetResult(d, "error")
    /\ GoTo(d, "audit")
    /\ UNCHANGED <<queue, left, storeVars, slackVars, crashes>>

Fetched(d) ==
    /\ pc[d] = "fetch"
    /\ GoTo(d, "agent")
    /\ UNCHANGED <<queue, result, left, storeVars, slackVars, crashes>>

\* Mutant: the snapshot is refreshed whatever the run's status.
AgentEndsRefresh(d) ==
    /\ pc[d] = "agent"
    /\ \E r \in {"ok", "stopped"} : SetResult(d, r)
    /\ GoTo(d, "refresh")
    /\ UNCHANGED <<queue, left, storeVars, slackVars, crashes>>

\* AgentRunner.run does not raise: it returns ok, budget_exceeded or error.
AgentEnds(d) ==
    /\ pc[d] = "agent"
    /\ \E r \in {"ok", "stopped"} :
          /\ SetResult(d, r)
          /\ GoTo(d, IF r = "ok" THEN "refresh" ELSE "cleanup")
    /\ UNCHANGED <<queue, left, storeVars, slackVars, crashes>>

Refreshed(d) ==
    /\ pc[d] = "refresh"
    /\ refreshed' = refreshed \cup {d}
    /\ GoTo(d, "cleanup")
    /\ UNCHANGED <<queue, result, left, reserved, audit, slackVars, crashes>>

\* The answer is replaced by the error result.
RefreshFails(d) ==
    /\ StoreMayFail /\ pc[d] = "refresh"
    /\ refreshed' \in {refreshed, refreshed \cup {d}}
    /\ SetResult(d, "error")
    /\ GoTo(d, "cleanup")
    /\ UNCHANGED <<queue, left, reserved, audit, slackVars, crashes>>

CleanedUp(d) ==
    /\ pc[d] = "cleanup"
    /\ GoTo(d, "audit")
    /\ UNCHANGED <<queue, result, left, storeVars, slackVars, crashes>>

\* Mutant: the lock is not released when the cleanup raises.
CleanupFailsLocked(d) ==
    /\ HooksMayFail /\ pc[d] = "cleanup"
    /\ SetResult(d, "error")
    /\ GoTo(d, "update")
    /\ UNCHANGED <<queue, left, storeVars, slackVars, crashes>>

\* Raised in `finally`: past the audit sink, out of the lock, and turned into
\* the failure text by _run_and_update_slack.
CleanupFails(d) ==
    /\ HooksMayFail /\ pc[d] = "cleanup"
    /\ SetResult(d, "error")
    /\ Release(d)
    /\ GoTo(d, "update")
    /\ UNCHANGED <<left, storeVars, slackVars, crashes>>

Audited(d) ==
    /\ pc[d] = "audit"
    /\ audit' = [audit EXCEPT ![d] = result[d]]
    /\ Release(d)
    /\ GoTo(d, "update")
    /\ UNCHANGED <<result, left, reserved, refreshed, slackVars, crashes>>

\* Mutant: a failing audit sink is ignored.
AuditFailsQuietly(d) ==
    /\ HooksMayFail /\ pc[d] = "audit"
    /\ Release(d)
    /\ GoTo(d, "update")
    /\ UNCHANGED <<result, left, storeVars, slackVars, crashes>>

AuditFails(d) ==
    /\ HooksMayFail /\ pc[d] = "audit"
    /\ audit' \in {audit, [audit EXCEPT ![d] = result[d]]}
    /\ SetResult(d, "error")
    /\ Release(d)
    /\ GoTo(d, "update")
    /\ UNCHANGED <<left, reserved, refreshed, slackVars, crashes>>

-----------------------------------------------------------------------------
(* _run_and_update_slack, after the lock                                   *)

UpdatePlaceholder(d) ==
    /\ pc[d] = "update"
    /\ shown' = [shown EXCEPT ![d] = result[d]]
    /\ \E n \in IF result[d] = "error" THEN {0} ELSE 0 .. MaxChunks :
          /\ left' = [left EXCEPT ![d] = n]
          /\ GoTo(d, IF n = 0 THEN "done" ELSE "chunks")
    /\ UNCHANGED <<queue, result, storeVars, posts, crashes>>

\* Mutant: the last chunk is posted once more.
PostChunkOnceMore(d) ==
    /\ pc[d] = "chunks"
    /\ posts' = [posts EXCEPT ![Thread(d)] = Append(@, d)]
    /\ left' = [left EXCEPT ![d] = @ - 1]
    /\ GoTo(d, IF left[d] = 0 THEN "done" ELSE "chunks")
    /\ UNCHANGED <<queue, result, storeVars, shown, crashes>>

PostChunk(d) ==
    /\ pc[d] = "chunks"
    /\ posts' = [posts EXCEPT ![Thread(d)] = Append(@, d)]
    /\ left' = [left EXCEPT ![d] = @ - 1]
    /\ GoTo(d, IF left[d] = 1 THEN "done" ELSE "chunks")
    /\ UNCHANGED <<queue, result, storeVars, shown, crashes>>

\* A call to Slack raises, before or after it took effect. Nobody awaits the
\* task: its exception is lost, the rest is never posted.
UpdateFails(d) ==
    /\ SlackMayFail /\ pc[d] = "update"
    /\ shown' \in {shown, [shown EXCEPT ![d] = result[d]]}
    /\ GoTo(d, "lost")
    /\ UNCHANGED <<queue, result, left, storeVars, posts, crashes>>

ChunkFails(d) ==
    /\ SlackMayFail /\ pc[d] = "chunks"
    /\ posts' \in {posts, [posts EXCEPT ![Thread(d)] = Append(@, d)]}
    /\ GoTo(d, "lost")
    /\ UNCHANGED <<queue, result, left, storeVars, shown, crashes>>

-----------------------------------------------------------------------------
Crash ==
    /\ crashes < MaxCrashes
    /\ crashes' = crashes + 1
    /\ pc' = [d \in Deliveries |-> IF pc[d] \in Over \cup {"idle"} THEN pc[d] ELSE "dead"]
    /\ queue' = [t \in Threads |-> <<>>]
    /\ UNCHANGED <<result, left, storeVars, slackVars>>

Dispatch(d) ==
    Reserve(d) \/ ReserveFails(d) \/ PostPlaceholder(d) \/ StartRun(d) \/ PostFails(d)

Request(d) ==
    \/ ConfigLoaded(d) \/ LoadFails(d) \/ Fetched(d) \/ AgentEnds(d)
    \/ Refreshed(d) \/ RefreshFails(d) \/ CleanedUp(d) \/ CleanupFails(d)
    \/ Audited(d) \/ AuditFails(d)

Reply(d) == UpdatePlaceholder(d) \/ PostChunk(d) \/ UpdateFails(d) \/ ChunkFails(d)

AllOver == \A d \in Deliveries : pc[d] \in Over

Next ==
    \/ \E d \in Deliveries : Arrive(d) \/ Dispatch(d) \/ Request(d) \/ Reply(d)
    \/ Crash
    \/ AllOver /\ UNCHANGED vars

(***************************************************************************)
(* Every awaited call ends: agent runs have a usage limit, database, HTTP  *)
(* and Slack calls have timeouts.  Deliveries and crashes are not forced.  *)
(***************************************************************************)
Fairness == \A d \in Deliveries : WF_vars(Dispatch(d) \/ Request(d) \/ Reply(d))

Spec == Init /\ [][Next]_vars /\ Fairness

-----------------------------------------------------------------------------
(* Properties                                                              *)

\* Slack's retries and duplicate deliveries of an event give one reply in the
\* thread at most, also when the process crashes in between.
OneRunPerEvent ==
    \A d, e \in Deliveries :
        EventOf[d] = EventOf[e] /\ shown[d] # "none" /\ shown[e] # "none" => d = e

\* One agent at a time in a thread, from loading the transcript to the audit.
ThreadSerial ==
    \A d, e \in Deliveries :
        Thread(d) = Thread(e) /\ pc[d] \in InLock /\ pc[e] \in InLock => d = e

\* An answer the thread shows (the agent's, or why it stopped) is one the audit
\* log has, with that status; nobody reads an answer of an unaudited run.
AnswerIsAudited ==
    \A d \in Deliveries : shown[d] \in {"ok", "stopped"} => audit[d] = shown[d]

\* The channel snapshot is only written by runs whose agent ended well, and an
\* answer that is shown was remembered.
SnapshotFollowsAnswer ==
    \A d \in Deliveries :
        /\ shown[d] = "ok" => d \in refreshed
        /\ d \in refreshed => audit[d] # "stopped" /\ shown[d] # "stopped"

\* A placeholder stays for ever only if a Slack call about it raises (the post
\* itself, after it took effect, or the update) or the process dies: whatever
\* else raises, the thread's lock is released, the runs that wait for it go on,
\* and the user gets an answer.
PlaceholderReplaced ==
    \A d \in Deliveries :
        []<>(shown[d] # "working" \/ pc[d] \in {"dropped", "lost", "dead"})

-----------------------------------------------------------------------------
(* What it implements: a mention is heard while the response to its         *)
(* placeholder is on its way, a thread's line is the queue of its lock, and *)
(* an answer is on its way from the release of the lock to the update.      *)

Heard      == {d \in Deliveries : pc[d] = "posted"}
Answering  == {d \in Deliveries : pc[d] \in InLock}
Answers    == [d \in Deliveries |-> IF pc[d] = "update" THEN result[d] ELSE "none"]

Replies == INSTANCE ThreadReplies WITH
              heard <- Heard, line <- queue, working <- Answering, memory <- refreshed, log <- audit,
              ready <- Answers, reply <- shown

\* To the people of a thread Henry is ThreadReplies: whatever is delivered twice,
\* raises or crashes, one agent works in a thread, on the mention that joined the
\* thread's line first (not always the one whose placeholder is shown first);
\* every event gets one reply at most, which is final, complete from its
\* beginning, and of a run that was audited and, if good, remembered.
Refines == Replies!Spec
=============================================================================
