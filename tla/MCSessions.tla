------------------------------ MODULE MCSessions ------------------------------
(***************************************************************************)
(* Small instances of Wallet.tla and McpSession.tla: what the sidecar does *)
(* with requests that overlap, towards Core's storage and towards an MCP   *)
(* server.  They share no state, so a behaviour lets one of them run.      *)
(***************************************************************************)
EXTENDS Wallet, McpSession, TLC

VARIABLE component      \* the component that runs

\* Calls (and requests, which have the same names), challenges and session ids are
\* interchangeable.
MCSymmetry == Permutations(Calls) \cup Permutations(Challenges) \cup Permutations(SessionIds)

MCInit ==
    /\ component \in {"wallet", "mcp"}
    /\ Init /\ McpInit

MCNext ==
    \/ component = "wallet" /\ Next /\ UNCHANGED <<component, mcpVars>>
    \/ component = "mcp" /\ McpNext /\ UNCHANGED <<component, vars>>

MCSpec == MCInit /\ [][MCNext]_<<component, vars, mcpVars>>
=============================================================================
