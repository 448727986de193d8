----------------------------- MODULE StopFilter -----------------------------
(***************************************************************************)
(* Stop sequences for a backend that has none: StrataHttpEngine.stream of  *)
(* engines/strata_http.py, behind the ThinkingFilter of the stream it      *)
(* reads.  A stop may be cut across chunks, so an end of the text that may *)
(* be the beginning of one is held; a fragment of a tool call or of        *)
(* reasoning releases it.  generate reads its whole answer from here.      *)
(***************************************************************************)
EXTENDS ThinkingFilter, FiniteSetsExt

CONSTANTS
  StopSets,       \* sets of stop sequences a caller may send
  MaxInterrupts   \* bound: frames of reasoning or tool calls among the text

ASSUME StopsAssumption == \A S \in StopSets : \A stop \in S : stop \in Seq(Lexemes) \ {<<>>}

VARIABLES
  stops,      \* request.stop
  pending,    \* the text held
  sent,       \* the text yielded to the caller
  run,        \* history: how much of sent came before the last interruption
  matched,    \* the stop sequence found, <<>> before
  interrupts  \* bound

stopVars == <<stops, pending, sent, run, matched, interrupts>>
textVars == <<filterVars, stopVars>>

Holds(t, stop) == Find(t, stop) # 0

\* Fault: the end of a chunk is never held.
KeepNothing(t) == 0

\* The longest end of t that begins a stop sequence and is shorter than it.
Keep(t) ==
  Max({0} \cup { n \in 1 .. Len(t) : \E stop \in stops : n < Len(stop) /\ IsPrefix(After(t, Len(t) - n), stop) })

StopInit ==
  /\ FilterInit
  /\ stops \in StopSets
  /\ pending = <<>> /\ sent = <<>> /\ run = 0 /\ matched = <<>> /\ interrupts = 0

\* One chunk of text: the earliest stop sequence ends the stream before it, and the
\* backend's is closed; else all but what may begin one is sent.
Take(piece) ==
  LET t == pending \o piece
      found == {stop \in stops : Holds(t, stop)}
      at0 == Min({Find(t, stop) : stop \in found})
  IN  IF found # {}
      THEN /\ sent' = sent \o SubSeq(t, 1, at0 - 1) /\ pending' = <<>>
           /\ \E stop \in found : Find(t, stop) = at0 /\ matched' = stop
      ELSE /\ sent' = sent \o SubSeq(t, 1, Len(t) - Keep(t)) /\ pending' = After(t, Len(t) - Keep(t))
           /\ UNCHANGED matched

\* What left the filter in this step.
Piece == After(filter'.out, Len(filter.out))

TakeFed ==
  /\ matched = <<>>
  /\ Feed
  /\ IF Piece = <<>> THEN UNCHANGED <<pending, sent, matched>> ELSE Take(Piece)
  /\ UNCHANGED <<stops, run, interrupts>>

\* The stream ends: the filter's tail is a chunk of its own, and the done chunk
\* releases what is still held.
TakeEnd ==
  /\ matched = <<>>
  /\ Flush
  /\ LET t == pending \o Piece
         found == {stop \in stops : Holds(t, stop)}
         at0 == Min({Find(t, stop) : stop \in found})
     IN  /\ sent' = sent \o IF found # {} THEN SubSeq(t, 1, at0 - 1) ELSE t
         /\ matched' \in IF found # {} THEN {stop \in found : Find(t, stop) = at0} ELSE {<<>>}
         /\ pending' = <<>>
  /\ UNCHANGED <<stops, run, interrupts>>

\* Reasoning or a fragment of a tool call: what is held is text all the same.
Interrupt ==
  /\ matched = <<>> /\ ~ended /\ interrupts < MaxInterrupts
  /\ sent' = sent \o pending /\ pending' = <<>>
  /\ run' = Len(sent')
  /\ interrupts' = interrupts + 1
  /\ UNCHANGED <<filterVars, stops, matched>>

StopNext == TakeFed \/ TakeEnd \/ Interrupt

-----------------------------------------------------------------------------
\* No stop sequence, nor anything of one it will turn out to be, is sent, however
\* the backend cuts its chunks; and of a text without one nothing is lost.
NothingPastAStop ==
  LET now == After(sent, run)
      shown == filter.out
  IN  /\ \A stop \in stops : ~Holds(now, stop)
      /\ matched = <<>> => sent \o pending = shown
      /\ matched # <<>> => IsPrefix(sent \o matched, shown)
=============================================================================
