CONSTANTS
  MaxWrite = 1
  PeerData = 3
  SndBuf = 1
  RcvBuf = 2
  TCP_INITIAL_WINDOW = 3
  MaxWnd = 2
  TCP_MAX_RTX = 2
  TCP_MAX_SYN_RETRY = 1
  MaxAckCnt = 1
  TcpTimeout = FALSE
  Windows = {2}
  Env = {"connect", "write", "read", "close", "fin", "notx", "paws"}
SPECIFICATION Spec
INVARIANTS InOrder WindowReopens
