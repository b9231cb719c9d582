SPECIFICATION FairSpec
CONSTANTS
  Conns <- MCConns
  Inbound <- MCInbound
  Addr <- MCAddr
  AddrFrom <- MCAddrFrom
  Ip <- MCIp
  Seeds = {"s"}
  NoConn = "none"
  StartHeight = 1
  MaxHeight = 2
  BanThreshold = 2
  MaxInbound = 1
  MaxOutbound = 1
  Scenarios <- MCScenarios
INVARIANTS TableIsLive TrackedUntilReturn BestHeightSound
PROPERTIES SeedComesBack
