SPECIFICATION Spec
CONSTANTS
  srv = srv
  cli = cli
  p1 = p1
  p2 = p2
  p3 = p3
  Addrs = {srv, cli, p1, p2, p3}
  DstBucket <- Apart
  SrcBucket <- Apart
  Low32 <- Narrow
  None = None
  Backlog = 2
  Binds = {srv}
  Connects <- ToPeer
  Flows <- FromPeers
  NoRet <- MixedPeers
  BindFails = {"none", "dst"}
  ConnectFails = {"none", "conn"}
  AcceptFails = {"none", "src"}
  ReturnFails = {"none", "conn"}
  ListenFails = {"none"}
  MaxSocks = 2
  MaxListens = 1
  MaxFails = 1
  MaxCloses = 1
  CloseIsLast = TRUE
CHECK_DEADLOCK FALSE
INVARIANT FreedOnce
