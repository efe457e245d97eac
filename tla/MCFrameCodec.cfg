CONSTANTS
  Payloads <- MCPayloads
  MaxFrames <- MCMaxFrames

SPECIFICATION Spec

INVARIANT TypeOK
PROPERTY ChannelRefined

\* The routine returns: a final state has no step.
CHECK_DEADLOCK FALSE
