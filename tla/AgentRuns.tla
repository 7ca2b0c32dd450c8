----------------------------- MODULE AgentRuns -----------------------------
(***************************************************************************)
(* Concurrent runs of the agent over the MCP servers they share:           *)
(* PydanticAgentRunner.run (henry/agent/runner.py), the cached toolset of  *)
(* MCPIntegration (henry/integrations/mcp.py), and the life of the runtime *)
(* around them (HenryRuntime.close in henry/wiring.py, amain in            *)
(* henry/app.py).                                                          *)
(*                                                                         *)
(* A toolset is a context that runs enter and leave, counted: the first to *)
(* enter connects under the toolset's lock, the last to leave disconnects. *)
(* A stdio server's process is started by a connection, outlives it, and   *)
(* is used again by the next.  A run asks a server for its toolset once,   *)
(* so a toolset is named after the run for which it was built.             *)
(***************************************************************************)
EXTENDS ChannelConfig, Naturals

CONSTANTS
    Runs,
    Stdio,        \* the servers Henry starts as a subprocess
    RowsOf,       \* what the row of a run's channel may be when it is read
    Place,        \* of a server in the registry
    MaxDeaths,    \* bound: how often a server dies
    None

Toolsets == Servers \X Runs
Closings == Servers \X {"client", "forget"}

ASSUME RunsAssumption ==
    /\ Stdio \subseteq Servers
    /\ None \notin Runs \cup Servers \cup Toolsets \cup Closings \cup {Unset, Wildcard}
    /\ \A r \in Runs : None \notin RowsOf[r]
    /\ Place \in [Servers -> Nat]
    /\ MaxDeaths \in Nat

VARIABLES
    pc,        \* where each run is
    row,       \* the channel's row each run has loaded
    todo,      \* servers a run has not tried to connect yet
    asked,     \* the toolset a run is about to enter, or None
    held,      \* the toolsets a run has entered: its exit stack
    named,     \* toolset_names
    result,    \* RunResult.status, or refused by the loading of the config
    cause,     \* history: what went wrong for a run
    toolset,   \* MCPIntegration._toolset
    link,      \* the connection of a toolset
    process,   \* the toolsets whose stdio server process is alive
    deaths,    \* history: how many servers died
    phase,     \* of the runtime
    unclosed,  \* servers that close() has still to close
    closing,   \* the server being closed, and how far that is, or None
    touched,   \* history: servers in use during the shutdown
    hung       \* history: servers whose close failed or timed out

runVars    == <<pc, row, todo, asked, held, named, result, cause>>
serverVars == <<toolset, link, process, deaths>>
closeVars  == <<phase, unclosed, closing, touched, hung>>
vars == <<runVars, serverVars, closeVars>>

Places == {"idle", "snapshot", "connect", "lock", "open", "agent", "exit", "done"}
Causes == {"own", "lost", "stale", "exit"}

TypeOK ==
    /\ pc \in [Runs -> Places]
    /\ row \in [Runs -> (UNION {RowsOf[r] : r \in Runs}) \cup {None}]
    /\ todo \in [Runs -> SUBSET Servers]
    /\ asked \in [Runs -> Toolsets \cup {None}]
    /\ held \in [Runs -> SUBSET Toolsets]
    /\ named \in [Runs -> SUBSET Servers]
    /\ result \in [Runs -> {"none", "refused", "ok", "budget", "error"}]
    /\ cause \in [Runs -> SUBSET Causes]
    /\ toolset \in [Servers -> Runs \cup {None}]
    /\ link \in [Toolsets -> {"closed", "opening", "open", "dead"}]
    /\ process \subseteq Toolsets
    /\ deaths \in 0 .. MaxDeaths
    /\ phase \in {"starting", "serving", "closing", "stopped"}
    /\ unclosed \subseteq Servers
    /\ closing \in Closings \cup {None}
    /\ touched \subseteq Servers /\ hung \subseteq Servers

Init ==
    /\ pc = [r \in Runs |-> "idle"]
    /\ row = [r \in Runs |-> None]
    /\ todo = [r \in Runs |-> {}]
    /\ asked = [r \in Runs |-> None]
    /\ held = [r \in Runs |-> {}]
    /\ named = [r \in Runs |-> {}]
    /\ result = [r \in Runs |-> "none"]
    /\ cause = [r \in Runs |-> {}]
    /\ toolset = [s \in Servers |-> None]
    /\ link = [t \in Toolsets |-> "closed"]
    /\ process = {} /\ deaths = 0
    /\ phase = "starting" /\ unclosed = Servers /\ closing = None
    /\ touched = {} /\ hung = {}

Holders(t)  == {r \in Runs : t \in held[r]}
First(s, S) == s \in S /\ \A x \in S : Place[s] <= Place[x]
Last(t, S)  == t \in S /\ \A x \in S : Place[x[1]] <= Place[t[1]]
InUse(s)    == \E r \in Runs : (asked[r] # None /\ asked[r][1] = s) \/ \E t \in held[r] : t[1] = s
Alive       == phase \notin {"starting", "stopped"}
GoTo(r, place) == Alive /\ pc' = [pc EXCEPT ![r] = place]

-----------------------------------------------------------------------------
(* The run: configuration, snapshot, connecting its servers one by one     *)

LoadConfig(r) ==
    /\ pc[r] = "idle"
    /\ \E chosen \in RowsOf[r] :
          /\ row' = [row EXCEPT ![r] = chosen]
          /\ IF ValidRow(chosen)
             THEN GoTo(r, "snapshot") /\ UNCHANGED result
             ELSE GoTo(r, "done") /\ result' = [result EXCEPT ![r] = "refused"]
    /\ UNCHANGED <<todo, asked, held, named, cause, serverVars, closeVars>>

SnapshotTaken(r) ==
    /\ pc[r] = "snapshot"
    /\ todo' = [todo EXCEPT ![r] = Providers(row[r])]
    /\ GoTo(r, "connect")
    /\ UNCHANGED <<row, asked, held, named, result, cause, serverVars, closeVars>>

SnapshotFails(r) ==
    /\ pc[r] = "snapshot"
    /\ cause' = [cause EXCEPT ![r] = @ \cup {"own"}]
    /\ result' = [result EXCEPT ![r] = "error"]
    /\ GoTo(r, "done")
    /\ UNCHANGED <<row, todo, asked, held, named, serverVars, closeVars>>

\* Mutant: every run builds a toolset of its own.
AskUncached(r, s) ==
    /\ pc[r] = "connect" /\ First(s, todo[r])
    /\ toolset' = [toolset EXCEPT ![s] = r]
    /\ asked' = [asked EXCEPT ![r] = <<s, r>>]
    /\ todo' = [todo EXCEPT ![r] = @ \ {s}]
    /\ touched' = IF phase = "serving" THEN touched ELSE touched \cup {s}
    /\ GoTo(r, "lock")
    /\ UNCHANGED <<row, held, named, result, cause, link, process, deaths,
                   phase, unclosed, closing, hung>>

\* provider.toolset(), then its context is waited for.
Ask(r, s) ==
    /\ pc[r] = "connect" /\ First(s, todo[r])
    /\ toolset' = [toolset EXCEPT ![s] = IF @ = None THEN r ELSE @]
    /\ asked' = [asked EXCEPT ![r] = <<s, toolset'[s]>>]
    /\ todo' = [todo EXCEPT ![r] = @ \ {s}]
    /\ touched' = IF phase = "serving" THEN touched ELSE touched \cup {s}
    /\ GoTo(r, "lock")
    /\ UNCHANGED <<row, held, named, result, cause, link, process, deaths,
                   phase, unclosed, closing, hung>>

\* The first to enter a toolset connects it.
Connect(r) ==
    /\ pc[r] = "lock" /\ link[asked[r]] = "closed"
    /\ link' = [link EXCEPT ![asked[r]] = "opening"]
    /\ GoTo(r, "open")
    /\ UNCHANGED <<row, todo, asked, held, named, result, cause,
                   toolset, process, deaths, closeVars>>

Connected(r) ==
    /\ pc[r] = "open"
    /\ link' = [link EXCEPT ![asked[r]] = "open"]
    /\ process' = IF asked[r][1] \in Stdio THEN process \cup {asked[r]} ELSE process
    /\ held' = [held EXCEPT ![r] = @ \cup {asked[r]}]
    /\ asked' = [asked EXCEPT ![r] = None]
    /\ GoTo(r, "connect")
    /\ UNCHANGED <<row, todo, named, result, cause, toolset, deaths, closeVars>>

\* Mutant: an unreachable server ends the run.
ConnectFailsRun(r) ==
    /\ pc[r] = "open"
    /\ link' = [link EXCEPT ![asked[r]] = "closed"]
    /\ result' = [result EXCEPT ![r] = "error"]
    /\ asked' = [asked EXCEPT ![r] = None]
    /\ GoTo(r, "exit")
    /\ UNCHANGED <<row, todo, held, named, cause, toolset, process, deaths, closeVars>>

\* The server is unreachable, or too slow; a process may have been started.
ConnectFails(r) ==
    /\ pc[r] = "open"
    /\ link' = [link EXCEPT ![asked[r]] = "closed"]
    /\ process' \in {process} \cup
          {process \cup {t} : t \in {asked[r]} \cap (Stdio \X Runs)}
    /\ asked' = [asked EXCEPT ![r] = None]
    /\ GoTo(r, "connect")
    /\ UNCHANGED <<row, todo, held, named, result, cause, toolset, deaths, closeVars>>

\* A toolset that other runs have entered is not connected again.
Join(r) ==
    /\ pc[r] = "lock" /\ link[asked[r]] \in {"open", "dead"}
    /\ held' = [held EXCEPT ![r] = @ \cup {asked[r]}]
    /\ cause' = IF link[asked[r]] = "dead"
                THEN [cause EXCEPT ![r] = @ \cup {"stale"}] ELSE cause
    /\ asked' = [asked EXCEPT ![r] = None]
    /\ GoTo(r, "connect")
    /\ UNCHANGED <<row, todo, named, result, serverVars, closeVars>>

-----------------------------------------------------------------------------
(* The agent, and the exit of the stack                                    *)

\* The rest of the run's servers is announced as temporarily unavailable.
StartAgent(r) ==
    /\ pc[r] = "connect" /\ todo[r] = {}
    /\ named' = [named EXCEPT ![r] = {t[1] : t \in held[r]}]
    /\ GoTo(r, "agent")
    /\ UNCHANGED <<row, todo, asked, held, result, cause, serverVars, closeVars>>

\* An answer, or the usage limit: which of them shows once the stack is left.
AgentEnds(r) ==
    /\ pc[r] = "agent"
    /\ GoTo(r, "exit")
    /\ UNCHANGED <<row, todo, asked, held, named, result, cause, serverVars, closeVars>>

\* The model or a tool raises; a connection that is dead raises in its tools.
AgentFails(r) ==
    /\ pc[r] = "agent"
    /\ result' = [result EXCEPT ![r] = "error"]
    /\ cause' = IF \E t \in held[r] : link[t] = "dead" THEN cause
                ELSE [cause EXCEPT ![r] = @ \cup {"own"}]
    /\ GoTo(r, "exit")
    /\ UNCHANGED <<row, todo, asked, held, named, serverVars, closeVars>>

\* The link of a toolset once r has left it: the last to leave disconnects.
LinkAfter(r, t) ==
    IF Holders(t) = {r} THEN [link EXCEPT ![t] = "closed"] ELSE link

Leave(r, t) ==
    /\ pc[r] = "exit" /\ Last(t, held[r])
    /\ held' = [held EXCEPT ![r] = @ \ {t}]
    /\ link' = LinkAfter(r, t)
    /\ GoTo(r, "exit")
    /\ UNCHANGED <<row, todo, asked, named, result, cause, toolset, process,
                   deaths, closeVars>>

\* Disconnecting from a dead server raises: an answer becomes an error.
LeaveRaises(r, t) ==
    /\ pc[r] = "exit" /\ Last(t, held[r]) /\ link[t] = "dead" /\ Holders(t) = {r}
    /\ held' = [held EXCEPT ![r] = @ \ {t}]
    /\ link' = LinkAfter(r, t)
    /\ result' = [result EXCEPT ![r] = "error"]
    /\ GoTo(r, "exit")
    /\ UNCHANGED <<row, todo, asked, named, cause, toolset, process, deaths, closeVars>>

Return(r) ==
    /\ pc[r] = "exit" /\ held[r] = {}
    /\ \E outcome \in IF result[r] = "error" THEN {"error"} ELSE {"ok", "budget"} :
          result' = [result EXCEPT ![r] = outcome]
    /\ GoTo(r, "done")
    /\ UNCHANGED <<row, todo, asked, held, named, cause, serverVars, closeVars>>

-----------------------------------------------------------------------------
(* The servers, and the life of the runtime                                *)

\* What a lost connection is to the runs that have it.
Lose(t) ==
    /\ link' = IF link[t] = "open" THEN [link EXCEPT ![t] = "dead"] ELSE link
    /\ process' = process \ {t}
    /\ cause' = [r \in Runs |-> IF t \in held[r] THEN cause[r] \cup {"lost"} ELSE cause[r]]

ServerDies(t) ==
    /\ Alive /\ deaths < MaxDeaths
    /\ link[t] = "open" \/ t \in process
    /\ Lose(t)
    /\ deaths' = deaths + 1
    /\ UNCHANGED <<pc, row, todo, asked, held, named, result, toolset, closeVars>>

\* amain has connected to Slack.
Serve ==
    /\ phase = "starting"
    /\ phase' = "serving"
    /\ UNCHANGED <<runVars, serverVars, unclosed, closing, touched, hung>>

\* The finally of amain: a failed start, or the end of the socket loop.
BeginClose ==
    /\ phase \in {"starting", "serving"}
    /\ phase' = "closing"
    /\ touched' = {s \in Servers : InUse(s)}
    /\ UNCHANGED <<runVars, serverVars, unclosed, closing, hung>>

\* aclose() of the next server: nothing to do if it has no toolset.
BeginAclose(s) ==
    /\ phase = "closing" /\ closing = None /\ First(s, unclosed)
    /\ unclosed' = unclosed \ {s}
    /\ closing' = IF toolset[s] = None THEN None ELSE <<s, "client">>
    /\ UNCHANGED <<runVars, serverVars, phase, touched, hung>>

\* Mutant: the context is left, which a keep-alive process survives.
ClientOnlyLeaves(s) ==
    /\ closing = <<s, "client">>
    /\ link' = [link EXCEPT ![<<s, toolset[s]>>] = IF @ = "open" THEN "dead" ELSE @]
    /\ cause' = [r \in Runs |-> cause[r] \cup
                    {x \in {"lost"} : <<s, toolset[s]>> \in held[r]}]
    /\ closing' = <<s, "forget">>
    /\ UNCHANGED <<pc, row, todo, asked, held, named, result, toolset, process, deaths,
                   phase, unclosed, touched, hung>>

\* client.close() has disconnected and stopped the process; it returns later.
ClientCloses(s) ==
    /\ closing = <<s, "client">>
    /\ Lose(<<s, toolset[s]>>)
    /\ closing' = <<s, "forget">>
    /\ UNCHANGED <<pc, row, todo, asked, held, named, result, toolset, deaths,
                   phase, unclosed, touched, hung>>

\* It raises, or takes longer than _CLOSE_TIMEOUT_SECONDS.
ClientCloseFails(s) ==
    /\ closing = <<s, "client">>
    /\ toolset' = [toolset EXCEPT ![s] = None]
    /\ closing' = None
    /\ hung' = hung \cup {s}
    /\ UNCHANGED <<runVars, link, process, deaths, phase, unclosed, touched>>

\* The finally of aclose.
AcloseEnds(s) ==
    /\ closing = <<s, "forget">>
    /\ toolset' = [toolset EXCEPT ![s] = None]
    /\ closing' = None
    /\ UNCHANGED <<runVars, link, process, deaths, phase, unclosed, touched, hung>>

\* Mutant: the engine is disposed of only if all servers have closed.
RestClosedIfNoneHung ==
    /\ phase = "closing" /\ closing = None /\ unclosed = {} /\ hung = {}
    /\ phase' = "stopped"
    /\ UNCHANGED <<runVars, serverVars, unclosed, closing, touched, hung>>

\* http.aclose(), and the engine also if that raises; asyncio.run then cancels
\* what still runs.
RestClosed ==
    /\ phase = "closing" /\ closing = None /\ unclosed = {}
    /\ phase' = "stopped"
    /\ UNCHANGED <<runVars, serverVars, unclosed, closing, touched, hung>>

-----------------------------------------------------------------------------

Run(r) ==
    \/ SnapshotTaken(r) \/ SnapshotFails(r)
    \/ \E s \in Servers : Ask(r, s)
    \/ Connect(r) \/ Connected(r) \/ ConnectFails(r) \/ Join(r)
    \/ StartAgent(r) \/ AgentEnds(r) \/ AgentFails(r)
    \/ \E t \in Toolsets : Leave(r, t) \/ LeaveRaises(r, t)
    \/ Return(r)

Close ==
    \/ \E s \in Servers :
          BeginAclose(s) \/ ClientCloses(s) \/ ClientCloseFails(s) \/ AcloseEnds(s)
    \/ RestClosed

Next ==
    \/ \E r \in Runs : LoadConfig(r) \/ Run(r)
    \/ \E t \in Toolsets : ServerDies(t)
    \/ Serve \/ BeginClose \/ Close
    \/ phase = "stopped" /\ UNCHANGED vars

(***************************************************************************)
(* A run goes on once it has begun: connecting has init_timeout, an agent  *)
(* has a usage limit; and close() goes on, with a timeout for each server. *)
(* Neither mentions, deaths nor the shutdown are forced.                   *)
(***************************************************************************)
Fairness == (\A r \in Runs : WF_vars(Run(r))) /\ WF_vars(Close)

Spec == Init /\ [][Next]_vars /\ Fairness

-----------------------------------------------------------------------------
(* Properties                                                              *)

\* Until a server is closed, all its runs share one connection and one process:
\* the toolset is built once, and connected by one of those who enter it.
OneConnectionPerServer ==
    \A s \in unclosed : \A b, c \in Runs :
        /\ link[<<s, b>>] # "closed" \/ <<s, b>> \in process
        /\ link[<<s, c>>] # "closed" \/ <<s, c>> \in process
        => b = c

\* A connection lives as long as a run has it, whoever leaves before.
ConnectedWhileHeld ==
    \A r \in Runs : \A t \in held[r] :
        link[t] = "open" \/ (link[t] = "dead" /\ cause[r] \cap {"lost", "stale"} # {})

\* A run fails by what it did itself or by the loss of a server it had
\* connected, never because a server could not be reached.
ErrorHasCause == \A r \in Runs : result[r] = "error" => cause[r] # {}

\* What a channel's row says of a server.
Allows(chosen, s) == chosen = Unset \/ (chosen \notin {None, Wildcard} /\ s \in chosen)

\* Servers that no channel with a run has enabled are never connected nor
\* started, and a run names exactly the servers whose tools it offers.
OnlyEnabledServers ==
    /\ \A t \in Toolsets : link[t] # "closed" \/ t \in process =>
          \E r \in Runs : Allows(row[r], t[1])
    /\ \A r \in Runs : pc[r] = "agent" =>
          /\ named[r] = {t[1] : t \in held[r]}
          /\ \A s \in named[r] : Allows(row[r], s)

\* After the shutdown no server process is left, but of a server whose close
\* failed or which a run was using meanwhile.
ClosedMeansGone ==
    phase = "stopped" =>
        \A t \in process : t[1] \in hung \cup touched

Busy ==
    /\ phase # "stopped"
    /\ phase = "closing" \/ \E r \in Runs : pc[r] \notin {"idle", "done"}

\* Every run ends in a result, however its servers' locks, losses and closes
\* fall, and a shutdown reaches the database engine past servers that do not
\* close.
EverythingEnds == Busy ~> ~Busy

\* docs/plans/2026-07-13-mcp-integrations.md, line 17: "a dead server heals on
\* the next run's re-enter".
HealsOnNextRun == \A r \in Runs : "stale" \notin cause[r]
=============================================================================
