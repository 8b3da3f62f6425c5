CONSTANTS
  MaxWrite = 1
  PeerData = 0
  SndBuf = 2
  RcvBuf = 2
  TCP_INITIAL_WINDOW = 2
  MaxWnd = 2
  TCP_MAX_RTX = 2
  TCP_MAX_SYN_RETRY = 1
  MaxAckCnt = 1
  TcpTimeout = TRUE
  Windows = {2}
  Env = {"connect", "write", "close", "fin", "simclose"}
SPECIFICATION Spec
INVARIANTS NotStranded
CHECK_DEADLOCK FALSE
