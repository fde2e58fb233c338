SPECIFICATION Spec
CHECK_DEADLOCK FALSE
CONSTANTS
  Parts = {"mux", "transport", "auth"}
  TransportConfigs <- MCConfigs
  W = 4
  Clients <- MCClients
  Servers <- MCServers
  UserName = "u"
  Now = 2
  Addr <- MCAddr
  MaxCachedKeys = 1
  MaxBanners = 1
INVARIANTS ChannelsClean StreamsWhole AuthSound FallbackNeverHelps
PROPERTIES ChannelCallsReturn KeysInStep WritesReleased AuthEnds
