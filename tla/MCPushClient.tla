---------------------------- MODULE MCPushClient ----------------------------
(* PushClient instantiated for TLC.  Four frames numbered 1..3 give a     *)
(* message in order, a repeat and a gap in one session, and a frame       *)
(* reaching handleClient while sendMsgRoutine still writes an earlier ack; *)
(* two heartbeat timeouts let heartbeats and acks interleave on SendCh.    *)
EXTENDS PushClient

CONSTANTS c1, c2

MCClients1 == {c1}
MCClients2 == {c1, c2}
MCSeqVals == {1, 2, 3}
MCMaxFrames == 4
MCMaxHeartbeats == 2
=============================================================================
