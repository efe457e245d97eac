\* Two clients started by main, one /stats scan.
CONSTANTS
  c1 = c1
  c2 = c2
  Bad = Bad
  NoData = NoData
  Clients <- MCClients
  ClientOrder <- MCClientOrder
  SeqVals <- MCSeqVals
  MaxFrames <- MCMaxFrames
  MaxHeartbeats <- MCMaxHeartbeats
  MaxOrders <- MCMaxOrders
SPECIFICATION RSpec
INVARIANT RTypeOK
\* Clients whose server stays silent block for ever, and main serves on.
CHECK_DEADLOCK FALSE
