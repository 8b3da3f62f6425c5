CONSTANTS
  MaxWrite = 1
  PeerData = 1
  SndBuf = 2
  RcvBuf = 2
  TCP_INITIAL_WINDOW = 2
  MaxWnd = 2
  TCP_MAX_RTX = 2
  TCP_MAX_SYN_RETRY = 1
  MaxAckCnt = 1
  TcpTimeout = FALSE
  Windows = {2}
  Env = {"listen", "write", "close", "abort", "fin", "rst", "backlog", "notx"}
SPECIFICATION Spec
INVARIANTS FinAfterData FinScheduled Scheduled NotStranded
