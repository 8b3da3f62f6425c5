CONSTANTS
  MaxWrite = 3
  PeerData = 0
  SndBuf = 3
  RcvBuf = 2
  TCP_INITIAL_WINDOW = 2
  MaxWnd = 3
  TCP_MAX_RTX = 2
  TCP_MAX_SYN_RETRY = 1
  MaxAckCnt = 1
  TcpTimeout = TRUE
  Windows = {0, 3}
  Env = {"connect", "write", "fin", "dupacks"}
SPECIFICATION Spec
INVARIANTS NoFault Scheduled
