----------------------------- MODULE MCRegistry -----------------------------
(* Registry for TLC: two clients, so one can time out while main inserts   *)
(* the other; one frame each, so the scan sums a counter that can move.    *)
EXTENDS Registry

CONSTANTS c1, c2

MCClients == {c1, c2}
MCClientOrder == <<c1, c2>>
MCSeqVals == {1}
MCMaxFrames == 1
MCMaxHeartbeats == 1
MCMaxOrders == 2
=============================================================================
