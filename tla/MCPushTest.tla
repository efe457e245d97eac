------------------------------ MODULE MCPushTest ------------------------------
(* PushTest for TLC: four goroutines (case 2 and the first three of       *)
(* testCase5) and three messages, so two readers can race for one frame,  *)
(* one reader can take several, and a third handleMsg can run between     *)
(* another's read of client.Seq and its store.                           *)
EXTENDS PushTest

CONSTANTS g1, g2, g3, g4

MCGoroutines == {g1, g2, g3, g4}
MCMaxMsgs == 3
=============================================================================
