---------------------------- MODULE MCInterface ----------------------------
(* A datagram handle and a TCP one use two of the module's sockets,        *)
(* numbered as in the module, and two peers.                               *)
EXTENDS ISM43362Interface

CONSTANTS u1, t1, p1, p2

MCIds == {0, 1}
=============================================================================
