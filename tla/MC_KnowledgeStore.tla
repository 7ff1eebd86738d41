------------------------- MODULE MC_KnowledgeStore -------------------------
(* Instance of KnowledgeStore for TLC. *)
EXTENDS KnowledgeStore

\* Blank, short, cut at each separator, with and without an overlap, and one
\* whose chunks are those of another.
MCTexts ==
  { <<"n">>, <<"s", "s", "x", "s", "y">>, <<"x", "y">>, <<"x", "n", "n", "x">>,
    <<"x", "y", "s", "x", "y">>,
    <<"x", "n", "n", "x", "y", "s", "y", "n", "x">>,
    <<"n", "n", "x", "y", "x", "y", "x", "n">>,
    <<"x", "s", "y", "s", "x", "n", "y", "s", "x">> }

MCBlocks == { <<"x">>, <<"p">> }
=============================================================================
