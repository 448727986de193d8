-------------------------- MODULE MCAnswerFilters --------------------------
(* The tags, whole and in parts, a second tag name and a bare "<"; stops   *)
(* that overlap each other and themselves, and one that a tag begins like. *)
EXTENDS AnswerFilters

CONSTANT MaxPieces   \* bound: a text is made of at most this many pieces

Written(pieces) == UNION {{FlattenSeq(s) : s \in [1 .. n -> pieces]} : n \in 0 .. MaxPieces}

\* A block between the halves of a tag, and one after a tag that ends in another word.
CutShort == <<LT, LT, THINK, GT, LT, SL, THINK, GT, THINK, X>>
CutLate == <<LT, THINK, LT, THINK, ING, GT, LT, SL, THINK, ING, GT, ING, ING, X>>

\* The docstring of ThinkingFilter claims of every text that the stream shows what the
\* batch function leaves: of these one shows more, the other less.
ASSUME BatchDiffers ==
  /\ StripThinkingBlocks(CutShort) = <<>> /\ Visible(CutShort) = <<LT, THINK, X>>
  /\ StripThinkingBlocks(CutLate) = <<LT, THINK, ING, ING, X>> /\ Visible(CutLate) = <<>>

MCTexts ==
  Written({<<LT>>, <<LT, THINK>>, <<THINK>>, <<ING>>, <<GT>>, <<X>>,
           <<LT, SL, THINK, GT>>, <<LT, SL, THINK, ING, GT>>}) \cup {CutShort, CutLate}

MCStopSets == {{}, {<<X, X>>, <<X, GT>>}, {<<GT, X, GT>>, <<LT>>}, {<<ING, ING, X>>}}
=============================================================================
