SPECIFICATION FairSpec
CONSTANTS
  ServerUids = {1, 2}
  HandUids = {3}
  MailIds = {"mail", "other", "reply"}
  MailIdOf <- MCMailIdOf
  ReplyOf <- MCReplyOf
  Unfit = {}
  Absent = Absent
  Configs <- MCConfigs
  MayRaise = FALSE
  MaxFaults = 1
  Summaries = {"s"}
  Sources = {"other"}
  RootConfig <- MCRootConfig
  Missing = Missing
  Cut = Cut
  MaxIssues = 3
PROPERTIES EveryMailIsStored
CHECK_DEADLOCK FALSE
