--------------------------- MODULE AnswerFilters ---------------------------
(***************************************************************************)
(* What an answer goes through on its way to the caller: its text through  *)
(* the hiding of reasoning and a backend's stop sequences (StopFilter),    *)
(* its tool calls through their assembly (ToolCalls).  Neither reads the   *)
(* other's state, so each is explored by itself: part says which, and the  *)
(* other stands still.                                                     *)
(***************************************************************************)
EXTENDS StopFilter, ToolCalls

VARIABLE part

FiltersInit ==
  /\ part \in {"text", "calls"}
  /\ StopInit /\ CallsInit
  /\ part = "calls" => hides = FALSE /\ text = <<>> /\ stops = (CHOOSE S \in StopSets : TRUE)
  /\ part = "text" => habits = [ids |-> TRUE, indexed |-> TRUE]

answerVars == <<part, textVars, callVars>>

FiltersNext ==
  /\ UNCHANGED part
  /\ \/ part = "text" /\ StopNext /\ UNCHANGED callVars
     \/ part = "calls" /\ CallsNext /\ UNCHANGED textVars

FiltersSpec == FiltersInit /\ [][FiltersNext]_answerVars

\* The types of what the answer is put together from.
FiltersTypeOK ==
  /\ filter.state \in {"outside", "name", "opening", "inside"}
  /\ at \in 0 .. Len(text)
  /\ run \in 0 .. Len(sent)
  /\ matched \in stops \cup {<<>>}
  /\ phase \in {"asking", "answering", "answered", "over"}
  /\ DOMAIN assembled = DOMAIN received
=============================================================================
