--------------------------- MODULE MCPoolTraffic ---------------------------
(* Two requests and two nodes, one of which the options put first. *)
EXTENDS PoolTraffic

CONSTANTS n1, n2
MCPreordered == <<n2>>
=============================================================================
