------------------------- MODULE MC_KnowledgeGraph -------------------------
(* Two objects of one agent's memory, and a graph a pipeline has added, all *)
(* over one file: databases do not touch each other.                        *)
EXTENDS KnowledgeGraph

MCPaths == {<<"/", "contacts">>, <<"/", "contacts", "/", "ann">>}
MCBases == {<<"/">>, <<"/", "contacts">>}
MCKbIdOf == [k \in Kbs |-> IF k \in Memories THEN "agent.memory" ELSE "docs"]
MCDbOf == [k \in Kbs |-> "memory.db"]

=============================================================================
