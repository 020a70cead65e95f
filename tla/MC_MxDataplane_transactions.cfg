SPECIFICATION FairSpec
CONSTANTS
  net = net
  tcpip = tcpip
  Control = net
  Data = tcpip
  Peers <- Tcpip
  QueueLen = 2
  Modulus = 25
  Faults = {"flowTimeout", "lateFlow", "spiError", "badHeader", "queueFull", "noMemory"}
INVARIANT TypeOK
PROPERTY OnlyResetsLoseCount
PROPERTY PacketLeaves
