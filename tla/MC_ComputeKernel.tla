-------------------------- MODULE MC_ComputeKernel --------------------------
(* The instances of ComputeKernel that TLC checks.                          *)
EXTENDS ComputeKernel, TLC

CONSTANTS chat, voice, llama, llama2, test, llm, speech, picture

MC_Kind ==
  [n \in Nodes |-> CASE n \in {chat, test} -> "chat"
                     [] n = voice -> "voice"
                     [] OTHER -> "local"]

\* No llama node sets node_id, so both have the default.
MC_NodeId == [n \in Nodes |-> IF n \in {llama, llama2} THEN "default" ELSE n]

\* Completions run on the chat nodes and on llama, speech on the voice node, and
\* the OpenAI node describes pictures.
MC_Supports ==
  [n \in Nodes |-> CASE n = voice -> Tasks \cap {speech}
                     [] n = chat -> Tasks \cap {llm, picture}
                     [] OTHER -> Tasks \cap {llm}]

MC_Weight == [n \in Nodes |-> IF n = llama THEN 2 ELSE 1]
=============================================================================
