---------------------------- MODULE MCP2PManager ----------------------------
(* A small instance of P2PManager: two peers, and the node itself among    *)
(* its bootstrap peers.                                                    *)
EXTENDS P2PManager

CONSTANTS a, b, me, c1

MCBootstrap == {a, b, me}
MCSelf == me
MCCaller == {c1}
=============================================================================
