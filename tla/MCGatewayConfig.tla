-------------------------- MODULE MCGatewayConfig ---------------------------
(* Small instances of GatewayConfig: two writes of the console, pairings,  *)
(* and an outsider that deletes a token that was paired before.            *)
EXTENDS GatewayConfig

CONSTANTS w1, w2, p1, p2, o1, t0

DeletesOld == [o \in Outsiders |-> OldTokens]
AnyThree == {{w1, w2, p1}, {w1, w2, o1}, {w1, p1, p2}, {w1, p1, o1}, {p1, p2, o1}}
=============================================================================
