\* One client, every goroutine interleaving: safety of the channel protocol.
CONSTANTS
  c1 = c1
  c2 = c2
  Bad = Bad
  NoData = NoData
  Clients <- MCClients1
  SeqVals <- MCSeqVals
  MaxFrames <- MCMaxFrames
  MaxHeartbeats <- MCMaxHeartbeats
SPECIFICATION Spec
INVARIANT TypeOK
INVARIANT NoPanic
INVARIANT AckFollowsHandled
INVARIANT InFlightAtMostOne
PROPERTY SessionRefined
\* A client whose server stays silent blocks in a read forever: a real stop.
CHECK_DEADLOCK FALSE
