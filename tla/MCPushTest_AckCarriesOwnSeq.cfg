\* Four recvMsgAndSendAck goroutines on one conn: AckCarriesOwnSeq.
CONSTANTS
  g1 = g1
  g2 = g2
  g3 = g3
  g4 = g4
  Goroutines <- MCGoroutines
  MaxMsgs <- MCMaxMsgs
SPECIFICATION Spec
\* Readers of a silent, open conn wait for ever: a real stop.
CHECK_DEADLOCK FALSE
INVARIANT AckCarriesOwnSeq
