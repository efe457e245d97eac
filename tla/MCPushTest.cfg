\* Four recvMsgAndSendAck goroutines on one conn: all return on close.
CONSTANTS
  g1 = g1
  g2 = g2
  g3 = g3
  g4 = g4
  Goroutines <- MCGoroutines
  MaxMsgs <- MCMaxMsgs
SPECIFICATION Spec
INVARIANT TypeOK
PROPERTY ReadersReturnOnClose
\* Readers of a silent, open conn wait for ever: a real stop.
CHECK_DEADLOCK FALSE
