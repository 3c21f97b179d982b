------------------------- MODULE MCGatewayLifecycle -------------------------
(* Small instances of GatewayLifecycle for TLC.                            *)
EXTENDS GatewayLifecycle

CONSTANTS r1, r2
=============================================================================
