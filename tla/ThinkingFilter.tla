--------------------------- MODULE ThinkingFilter ---------------------------
(***************************************************************************)
(* Hiding a model's reasoning: engines/_thinking.py.  A finished answer    *)
(* goes through strip_thinking_blocks, a streamed one through              *)
(* ThinkingFilter, piece by piece as the backend sends it.                 *)
(*                                                                         *)
(* A text is a sequence of lexemes: LT "<", SL "/", GT ">", THINK "think", *)
(* ING "ing" (both spelt with word characters) and X, anything that is no  *)
(* word character.  A cut inside "<think" is the cut after its "<": both   *)
(* leave a proper prefix of the tag.  The outer strip() of the batch       *)
(* function, which a stream cannot apply, is left out.                     *)
(***************************************************************************)
EXTENDS Integers, Sequences, SequencesExt

LT == "<"
SL == "/"
GT == ">"
THINK == "think"
ING == "ing"
X == "x"
Word == {THINK, ING}
Lexemes == Word \cup {LT, SL, GT, X}

CONSTANT Texts   \* what a model may write

ASSUME TextsAssumption == Texts \subseteq Seq(Lexemes)

Names == {<<THINK>>, <<THINK, ING>>}         \* _THINK_NAMES
CloseTag(name) == <<LT, SL>> \o name \o <<GT>>

(* The least member of a set of positions, 0 when there is none. *)
First(S) == IF S = {} THEN 0 ELSE CHOOSE i \in S : \A j \in S : i <= j

After(t, n) == SubSeq(t, n + 1, Len(t))
FindOpen(t) == First({i \in 1 .. Len(t) - 1 : t[i] = LT /\ t[i + 1] = THINK})
FindGT(t) == First({i \in 1 .. Len(t) : t[i] = GT})
Find(t, s) == First({i \in 1 .. Len(t) - Len(s) + 1 : SubSeq(t, i, i + Len(s) - 1) = s})

(* _read_name: the word after the leading "<".  It is complete when        *)
(* something follows it.                                                   *)
ReadName(t) ==
  LET end == First({i \in 2 .. Len(t) : t[i] \notin Word})
  IN  IF end = 0 THEN [word |-> Tail(t), complete |-> FALSE]
      ELSE [word |-> SubSeq(t, 2, end - 1), complete |-> TRUE]

(***************************************************************************)
(* strip_thinking_blocks: two regular expressions, one after the other.    *)
(***************************************************************************)

(* A thinking tag begins t. *)
TagStarts(t) == Len(t) >= 2 /\ t[1] = LT /\ ReadName(t).word \in Names

(* _THINK_BLOCK_RE at the head of t: the length of the block, 0 if none. *)
BlockLength(t) ==
  LET gt == FindGT(t)
      close == CloseTag(ReadName(t).word)
      end == Find(After(t, gt), close)
  IN  IF TagStarts(t) /\ gt # 0 /\ end # 0 THEN gt + end + Len(close) - 1 ELSE 0

WithoutBlocksFrom(t) ==
  LET keep[i \in 1 .. Len(t) + 1] ==
        IF i > Len(t) THEN <<>>
        ELSE LET n == BlockLength(After(t, i - 1))
             IN  IF n # 0 THEN keep[i + n] ELSE <<t[i]>> \o keep[i + 1]
  IN  keep

WithoutBlocks(t) == WithoutBlocksFrom(t)[1]

(* _THINK_TAIL_RE: from the first tag to the end. *)
WithoutTail(t) ==
  LET i == First({j \in 1 .. Len(t) : TagStarts(After(t, j - 1))})
  IN  IF i = 0 THEN t ELSE SubSeq(t, 1, i - 1)

StripThinkingBlocks(t) == WithoutTail(WithoutBlocks(t))

(* The reference: of the text as the model wrote it, what is outside every *)
(* block and before the first tag that is never closed; from each place.   *)
VisibleFrom(t) ==
  LET keep[i \in 1 .. Len(t) + 1] ==
        IF i > Len(t) THEN <<>>
        ELSE LET n == BlockLength(After(t, i - 1))
             IN  IF n # 0 THEN keep[i + n]
                 ELSE IF TagStarts(After(t, i - 1)) THEN <<>>
                 ELSE <<t[i]>> \o keep[i + 1]
  IN  keep

Visible(t) == VisibleFrom(t)[1]

(***************************************************************************)
(* ThinkingFilter.feed: [buf, state, name, out], one turn of its loop at a *)
(* time.  A turn that withholds what is left breaks out of the loop: it    *)
(* and the turns after it change nothing more.                             *)
(***************************************************************************)
(* _viable_prefix_len: a "<" at the end may yet be a tag. *)
ViablePrefix(t) == IF t # <<>> /\ Last(t) = LT THEN 1 ELSE 0

Withhold(f, n) ==
  [f EXCEPT !.out = @ \o SubSeq(f.buf, 1, Len(f.buf) - n),
            !.buf = After(f.buf, Len(f.buf) - n)]

Outside(f) ==
  LET i == FindOpen(f.buf)
  IN  IF i = 0 THEN Withhold(f, ViablePrefix(f.buf))
      ELSE [Withhold(f, Len(f.buf) - i + 1) EXCEPT !.state = "name"]

InName(f) ==
  LET read == ReadName(f.buf)
  IN  IF ~read.complete THEN f
      ELSE IF read.word \notin Names
        THEN [Withhold(f, Len(f.buf) - 1) EXCEPT !.state = "outside"]
      ELSE [f EXCEPT !.name = read.word, !.state = "opening"]

InOpening(f) ==
  LET gt == FindGT(f.buf)
  IN  IF gt = 0 THEN f
      ELSE [f EXCEPT !.buf = After(@, gt), !.state = "inside"]

(* All but a tail that may be the beginning of the closing tag is dropped. *)
Dropped(f, n) == [f EXCEPT !.buf = After(@, IF Len(@) > n THEN Len(@) - n ELSE 0)]

\* Fault: the tail kept is one short.
InsideShort(f) ==
  LET close == CloseTag(f.name)
      end == Find(f.buf, close)
  IN  IF end = 0 THEN Dropped(f, Len(close) - 2)
      ELSE [f EXCEPT !.buf = After(@, end + Len(close) - 1),
                     !.state = "outside", !.name = <<>>]

Inside(f) ==
  LET close == CloseTag(f.name)
      end == Find(f.buf, close)
  IN  IF end = 0 THEN Dropped(f, Len(close) - 1)
      ELSE [f EXCEPT !.buf = After(@, end + Len(close) - 1),
                     !.state = "outside", !.name = <<>>]

Turn(f) ==
  IF f.buf = <<>> THEN f
  ELSE CASE f.state = "outside" -> Outside(f)
         [] f.state = "name"    -> InName(f)
         [] f.state = "opening" -> InOpening(f)
         [] f.state = "inside"  -> Inside(f)

\* Bound: the loop has stopped after as many turns.
Turns(f) == 3 * Len(f.buf) + 3

Loop(f) ==
  LET after[k \in 0 .. Turns(f)] == IF k = 0 THEN f ELSE Turn(after[k - 1])
  IN  after[Turns(f)]

Fed(f, chunk) == Loop([f EXCEPT !.buf = @ \o chunk])

Fresh == [buf |-> <<>>, state |-> "outside", name |-> <<>>, out |-> <<>>]

(* flush: what it releases of the text still withheld. *)
Released(f) ==
  IF \/ f.state \in {"opening", "inside"}
     \/ f.state = "name" /\ ReadName(f.buf).word \in Names
  THEN <<>> ELSE f.buf

(***************************************************************************)
(* A stream: the text, cut anywhere, and the flush at its end.             *)
(***************************************************************************)
VARIABLES
  hides,   \* thinkingMode is off for this request: the filter is there
  text,    \* what the model writes
  at,      \* how much of it has been fed
  filter,  \* the ThinkingFilter; out is all that left it
  ended    \* flush was called
filterVars == <<hides, text, at, filter, ended>>

FilterInit ==
  hides \in BOOLEAN /\ text \in Texts /\ at = 0 /\ filter = Fresh /\ ended = FALSE

Feed ==
  /\ ~ended
  /\ \E to \in at + 1 .. Len(text) :
       LET chunk == SubSeq(text, at + 1, to)
       IN  /\ filter' = IF hides THEN Fed(filter, chunk) ELSE [filter EXCEPT !.out = @ \o chunk]
           /\ at' = to
  /\ UNCHANGED <<hides, text, ended>>

Flush ==
  /\ ~ended /\ at = Len(text)
  /\ filter' = [Fresh EXCEPT !.out = filter.out \o Released(filter)]
  /\ ended' = TRUE
  /\ UNCHANGED <<hides, text, at>>

-----------------------------------------------------------------------------
(***************************************************************************)
(* Properties                                                              *)
(***************************************************************************)
\* Whatever the cuts, what has left the filter so far is the beginning of what the
\* whole answer shows, and at the end all of it: no reasoning leaves it, nothing
\* the rest of the text would have turned into a tag, and no cut swallows the text
\* after a block.  The batch function shows the same, but that it may stop earlier
\* or later: removing a block joins what is around it, which may make a tag of two
\* halves of one, or another word of a tag.
SentIsVisible ==
  hides =>
    /\ IsPrefix(filter.out, Visible(text))
    /\ ended => /\ filter.out = Visible(text)
                /\ LET batch == StripThinkingBlocks(text)
                   IN  IsPrefix(batch, filter.out) \/ IsPrefix(filter.out, batch)
=============================================================================
