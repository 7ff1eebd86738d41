SPECIFICATION FairSpec
CONSTANTS
  ServerUids = {1, 2, 4}
  HandUids = {3, 5}
  MailIds = {"mail", "other", "reply"}
  MailIdOf <- MCMailIdOf
  ReplyOf <- MCReplyOf
  Unfit = {4}
  Absent = Absent
  Configs <- MCConfigs
  MayRaise = TRUE
  MaxFaults = 2
  Summaries = {"s"}
  Sources = {"other"}
  RootConfig <- MCRootConfig
  Missing = Missing
  Cut = Cut
  MaxIssues = 3
INVARIANTS MailsKept IssuesAgree
PROPERTIES SpiderGetsOn
CHECK_DEADLOCK FALSE
