--------------------------- MODULE ChannelConfig ---------------------------
(***************************************************************************)
(* Which integrations a run of the agent has: the column                   *)
(* enabled_integrations of the channel's row, merged with the defaults     *)
(* (henry/config/registry.py), passed on by RunSettings (henry/wiring.py)  *)
(* and resolved against the registry (henry/agent/runner.py).              *)
(*                                                                         *)
(* The registry has the built-in integrations and the MCP servers; a list  *)
(* of names is the set of its members.                                     *)
(***************************************************************************)

CONSTANTS
    Builtins,      \* found by discover()
    Servers,       \* defined in mcp.json
    Configured,    \* the built-ins that have their credentials
    Wildcard,      \* "*"
    Unset          \* a missing row, or a column that is NULL or ""

\* build_runtime refuses a server with the name of a built-in.
ASSUME RegistryAssumption ==
    /\ Builtins \cap Servers = {}
    /\ Configured \subseteq Builtins
    /\ Unset # Wildcard

Registry == Builtins \cup Servers

\* An MCP server has no is_configured of its own.
IsConfigured(i) == i \in Servers \/ i \in Configured

\* load_channel_config raises on the rest: no row may ask for "*", and every
\* name of an explicit list is registered.
ValidRow(row) == row # Wildcard /\ (row # Unset => row \subseteq Registry)

\* Mutant: an empty list counts as unset.
EnabledUnlessEmpty(row) == IF row = Unset \/ row = {} THEN Wildcard ELSE row

\* The defaults under the row: an empty list is a value like any other.
Enabled(row) == IF row = Unset THEN Wildcard ELSE row

\* "*" is everything usable; explicit names are always honored.
Active(row) ==
    IF Enabled(row) = Wildcard THEN {i \in Registry : IsConfigured(i)}
    ELSE Enabled(row)

\* Mutant: every integration is asked for a toolset.
ProvidersAll(row) == Active(row)

\* The integrations with a toolset to connect.
Providers(row) == Active(row) \cap Servers
=============================================================================
