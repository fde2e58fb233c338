SPECIFICATION Spec
CHECK_DEADLOCK FALSE
CONSTANTS
  Parts = {"transport"}
  TransportConfigs <- EchoConfigs
  W = 4
  Clients <- MCClients
  Servers <- MCServers
  UserName = "u"
  Now = 2
  Addr <- MCAddr
  MaxCachedKeys = 1
  MaxBanners = 1
PROPERTY WritesReleased
