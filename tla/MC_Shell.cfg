\* Two tunnels and a third of an unknown type, one node, one fault and five
\* commands or starts.
CONSTANTS
  Keys <- MCKeys
  Required <- MCRequired
  ValuesOf <- MCValuesOf
  Default <- MCDefault
  NoValue = "none"
  Unreadable = Unreadable
  NoFile = NoFile
  NoList = NoList
  TunnelIds = {"t1", "t2", "x"}
  KnownIds = {"t1", "t2"}
  WithTopic = {"default@Jarvis"}
  BadProxies = {"socks5"}
  TunnelFiles <- MCTunnelFiles
  NodeIds = {"n1"}
  MaxTunnels = 3
  MaxFaults = 1
  MaxCommands = 5
SPECIFICATION FairSpec
INVARIANTS SettingsKept LocalNodesWork
PROPERTIES Starts
CHECK_DEADLOCK FALSE
