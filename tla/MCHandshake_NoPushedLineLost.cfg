\* Every response shape, arrival timing and close/silence of the server.
CONSTANTS
  MaxHeaders <- MCMaxHeaders
  MaxPushed <- MCMaxPushed
SPECIFICATION Spec
\* With a silent server the reader blocks for ever: a real stop.
CHECK_DEADLOCK FALSE
INVARIANT NoPushedLineLost
