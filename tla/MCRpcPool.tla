------------------------------ MODULE MCRpcPool ------------------------------
(* Two endpoints with the priorities of config/settings.yaml: 1 and 2.     *)
EXTENDS RpcPool, TLC

CONSTANTS helius, quicknode, k

MCEndpoints == {helius, quicknode}
MCPriority == helius :> 1 @@ quicknode :> 2
MCCalls == {k}
=============================================================================
