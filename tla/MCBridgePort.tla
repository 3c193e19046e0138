---------------------------- MODULE MCBridgePort -----------------------------
(* Instances of BridgePort for TLC: an MCP server with two callers, started *)
(* for one platform, and a command that takes whatever device is there.     *)
EXTENDS BridgePort, TLC

CONSTANTS mcp, cli, c1, c2, ios, android

MCOf == (c1 :> mcp) @@ (c2 :> mcp)
MCWants == (mcp :> ios) @@ (cli :> Unbound)
=============================================================================
