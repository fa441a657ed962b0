-------------------------- MODULE MCBlockhashCache --------------------------
(* The refresh loop alone or with a caller of latest(), over one or two    *)
(* endpoints with the priorities of config/settings.yaml.                  *)
EXTENDS BlockhashCache, TLC

CONSTANTS helius, quicknode, keeper, caller

BothEndpoints == {helius, quicknode}
OneEndpoint == {helius}
BothPriorities == helius :> 1 @@ quicknode :> 2
OnePriority == helius :> 1
LoopAlone == {keeper}
LoopAndCaller == {keeper, caller}
=============================================================================
