-------------------------- MODULE MCGatewayRouting --------------------------
(* Small instances of GatewayRouting for TLC. *)
EXTENDS GatewayRouting, TLC

CONSTANTS r1, r2, r3, q0, b1, b2, g1, g2

(* Requests are interchangeable, and so are backends and replicas. *)
Symmetry == Permutations(Requests) \cup Permutations(Backends)
            \cup Permutations(Gateways)
=============================================================================
