--------------------------- MODULE MC_LLMProcess ---------------------------
(* The instances of LLMProcess that TLC checks.                             *)
EXTENDS LLMProcess

\* Configurations: one action, none, one enabled and disabled, one unknown.
SomeConfigs ==
  LET u == "update_chat_summary" IN
  {[enable |-> <<u>>, disable |-> <<>>], [enable |-> <<>>, disable |-> <<>>],
   [enable |-> <<u>>, disable |-> <<u>>], [enable |-> <<u, "unknown">>, disable |-> <<>>]}
=============================================================================
