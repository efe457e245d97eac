\* Every response shape, arrival timing and close/silence of the server.
CONSTANTS
  MaxHeaders <- MCMaxHeaders
  MaxPushed <- MCMaxPushed
SPECIFICATION Spec
INVARIANT TypeOK
INVARIANT VerdictOnEvenHeaders
PROPERTY ReturnsOnClose
\* With a silent server the reader blocks for ever: a real stop.
CHECK_DEADLOCK FALSE
