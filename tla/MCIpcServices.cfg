\* Two DHCP clients making three calls between them and an input service
\* delivering two events, with every location service, logging and
\* input_open call able to fail. Both services may end up idle, waiting
\* for IPC that never comes: that is not a deadlock of the code.
CONSTANTS
  Conns = {c1, c2}
  MaxCalls = 3
  DhcpFailures = TRUE
  MaxEvents = 2
  InputFailures = TRUE
SPECIFICATION Spec
INVARIANT NoSessionLeak
PROPERTY EveryCallAnswered
CHECK_DEADLOCK FALSE
