------------------------------ MODULE MC_Shell ------------------------------
EXTENDS Shell

MCKeys == {"openai_api_key", "feature.llama", "shell.current", "proxy"}
MCRequired == {"openai_api_key"}
MCValuesOf == [k \in MCKeys |->
  CASE k = "feature.llama" -> {"True", "False"}
    [] k = "shell.current" -> {"default@Jarvis", "Jarvis"}
    [] k = "proxy" -> {"socks5", "socks5@host:1080"}
    [] OTHER -> {"x"}]
MCDefault == [k \in MCKeys |->
  CASE k = "feature.llama" -> "False"
    [] k = "shell.current" -> "default@Jarvis"
    [] OTHER -> "none"]
MCTunnelFiles ==
  {<<>>, <<[key |-> "t1", tid |-> "t1"]>>, <<[key |-> "t1", tid |-> "t2"]>>,
   <<[key |-> "x", tid |-> "x"]>>}
=============================================================================
