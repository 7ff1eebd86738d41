\* One node, no tunnel of the user, no fault: a start, /enable llama, a start.
CONSTANTS
  Keys <- MCKeys
  Required <- MCRequired
  ValuesOf <- MCValuesOf
  Default <- MCDefault
  NoValue = "none"
  Unreadable = Unreadable
  NoFile = NoFile
  NoList = NoList
  TunnelIds = {"t1", "t2", "x"}
  KnownIds = {"t1", "t2"}
  WithTopic = {"default@Jarvis"}
  BadProxies = {"socks5"}
  TunnelFiles <- MCTunnelFiles
  NodeIds = {"n1"}
  MaxTunnels = 3
  MaxFaults = 0
  MaxCommands = 5
SPECIFICATION FairSpec
INVARIANT LlamaStarts
CHECK_DEADLOCK FALSE
