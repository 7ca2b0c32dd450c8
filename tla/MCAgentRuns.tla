---------------------------- MODULE MCAgentRuns ----------------------------
(* Instances of AgentRuns for TLC.                                         *)
EXTENDS AgentRuns, TLC

CONSTANTS a, b, c, files, desk, web, github, other

\* Channel a has no row or one with an unknown name; channel b denies all or has
\* one server and an integration without credentials.
TwoChannels ==
    a :> {Unset, {files, other}} @@ b :> {{}, {files, github}}
InOrder == [s \in Servers |-> IF s = files THEN 1 ELSE 2]
OneServer == [r \in Runs |-> {Unset}]
=============================================================================
