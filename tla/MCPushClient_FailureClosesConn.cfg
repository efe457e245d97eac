\* One client under goroutine fairness: liveness of the teardown.
CONSTANTS
  c1 = c1
  c2 = c2
  Bad = Bad
  NoData = NoData
  Clients <- MCClients1
  SeqVals <- MCSeqVals
  MaxFrames <- MCMaxFrames
  MaxHeartbeats <- MCMaxHeartbeats
SPECIFICATION Spec
\* A client whose server stays silent blocks in a read forever: a real stop.
CHECK_DEADLOCK FALSE
PROPERTY FailureClosesConn
