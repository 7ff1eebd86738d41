------------------------------ MODULE TextSplit ------------------------------
(***************************************************************************)
(* How a text is cut into chunks before it is stored: split_text,          *)
(* _split_text_with_regex and _merge_splits of knowledge/data/writer.py.   *)
(*                                                                         *)
(* A text is a sequence of "n" (newline), "s" (space) and letters.  Every  *)
(* piece the code handles is a stretch of the text, because separators are *)
(* kept, so a piece is the pair of its first and last position.  The       *)
(* tokenizer is external; here one character is one token.                 *)
(***************************************************************************)
EXTENDS Integers, Sequences, FiniteSetsExt

CONSTANTS ChunkSize,  \* chunk_size: tokens of a chunk
          Overlap     \* chunk_overlap: tokens two neighbours may share

ASSUME SplitAssumption ==
  /\ ChunkSize \in Nat \ {0}
  /\ Overlap \in 0..(ChunkSize - 1)

Blanks == {"n", "s"}

\* The default separators: paragraph, line, word, character.
Separators == << <<"n", "n">>, <<"n">>, <<"s">>, << >> >>

Length(piece) == piece[2] - piece[1] + 1

Content(text, piece) == SubSeq(text, piece[1], piece[2])

StartsAt(text, p, last, sep) ==
  p + Len(sep) - 1 <= last /\ SubSeq(text, p, p + Len(sep) - 1) = sep

\* re.split goes through the text from the left; a match begins where the one before it
\* has ended, or later.
MatchOn(text, last, sep, m, p) ==
  IF p >= m.next /\ StartsAt(text, p, last, sep)
  THEN [found |-> Append(m.found, p), next |-> p + Len(sep)]
  ELSE m

Matches(text, piece, sep) ==
  LET match[n \in 0..Length(piece)] ==
        IF n = 0 THEN [found |-> << >>, next |-> piece[1]]
        ELSE MatchOn(text, piece[2], sep, match[n - 1], piece[1] + n - 1)
  IN  match[Length(piece)].found

\* _split_text_with_regex: a separator opens the piece that follows it; an
\* empty one cuts after every character.
PiecesOf(text, piece, sep) ==
  IF sep = << >>
  THEN [k \in 1..Length(piece) |-> <<piece[1] + k - 1, piece[1] + k - 1>>]
  ELSE LET found == Matches(text, piece, sep)
           starts == IF found # << >> /\ found[1] = piece[1] THEN found
                     ELSE <<piece[1]>> \o found
       IN [k \in 1..Len(starts) |->
             <<starts[k],
               IF k = Len(starts) THEN piece[2] ELSE starts[k + 1] - 1>>]

\* _join_docs: one stripped chunk, or none when only blanks are left.
Stripped(text, first, last) ==
  LET solid == {p \in first..last : text[p] \notin Blanks}
  IN IF solid = {} THEN << >> ELSE << <<Min(solid), Max(solid)>> >>

\* The loop that pops pieces off the front of current_doc (s..k-1) until what
\* is left is an overlap and piece k fits behind it.
\* Mutant: only the overlap is looked at.
PoppedToOverlap(ps, s, k) ==
  Min({t \in s..k : ps[k][1] - ps[t][1] <= Overlap})
\* Mutant: the piece that did not fit is popped with the others.
PoppedTooFar(ps, s, k) == IF k < Len(ps) THEN k + 1 ELSE k
Popped(ps, s, k) ==
  Min({t \in s..k :
         LET total == ps[k][1] - ps[t][1]
         IN total <= Overlap
            /\ (total = 0 \/ total + Length(ps[k]) <= ChunkSize)})

\* The loop of _merge_splits at piece k: current_doc is m.s..k-1.
MergeOn(text, ps, m, k) ==
  IF ps[k][2] - ps[m.s][1] + 1 <= ChunkSize THEN m
  ELSE [docs |-> IF m.s < k THEN m.docs \o Stripped(text, ps[m.s][1], ps[k - 1][2]) ELSE m.docs,
        s |-> Popped(ps, m.s, k)]

MergeSplits(text, ps) ==
  LET merge[k \in 0..Len(ps)] ==
        IF k = 0 THEN [docs |-> << >>, s |-> 1] ELSE MergeOn(text, ps, merge[k - 1], k)
      m == merge[Len(ps)]
  IN  m.docs \o Stripped(text, ps[m.s][1], ps[Len(ps)][2])

\* The first separator from the n-th on that the piece holds.
FirstSeparator(text, piece, n) ==
  Min({k \in n..Len(Separators) :
         \/ Separators[k] = << >>
         \/ \E p \in piece[1]..piece[2] : StartsAt(text, p, piece[2], Separators[k])})

\* What becomes of pieces s..k, the _good_splits.
Good(text, ps, s, k) == IF s > k THEN << >> ELSE MergeSplits(text, SubSeq(ps, s, k))

\* The loop of split_text at piece k: those below the size are gathered from c.s on,
\* and longer[k] is what another is cut into.
CutOn(text, ps, longer, c, k) ==
  IF Length(ps[k]) < ChunkSize THEN c
  ELSE [chunks |-> c.chunks \o Good(text, ps, c.s, k - 1) \o longer[k], s |-> k + 1]

CutPieces(text, ps, longer) ==
  LET cut[k \in 0..Len(ps)] ==
        IF k = 0 THEN [chunks |-> << >>, s |-> 1]
        ELSE CutOn(text, ps, longer, cut[k - 1], k)
      c == cut[Len(ps)]
  IN  c.chunks \o Good(text, ps, c.s, Len(ps))

\* split_text with the separators from the n-th on: the first one the piece holds cuts
\* it, and what is still too long is cut by those after that one.
SplitPiece(text, piece, n, split) ==
  LET at == FirstSeparator(text, piece, n)
      ps == PiecesOf(text, piece, Separators[at])
  IN  CutPieces(text, ps, [k \in 1..Len(ps) |->
        IF Separators[at] = << >> THEN <<ps[k]>> ELSE split[at + 1][ps[k]]])

SplitText(text) ==
  LET split[n \in 1..Len(Separators)] ==
        [piece \in (1..Len(text)) \X (1..Len(text)) |-> SplitPiece(text, piece, n, split)]
  IN  IF text = << >> THEN << >> ELSE split[1][<<1, Len(text)>>]
=============================================================================
