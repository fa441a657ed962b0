------------------------- MODULE MCWebSocketManager -------------------------
(* The endpoint of config/settings.yaml and a second one, whose task shares *)
(* the connected flag.                                                     *)
EXTENDS WebSocketManager

CONSTANTS helius, spare

MCEndpoints == {helius, spare}
=============================================================================
