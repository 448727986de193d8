----------------------------- MODULE GeminiChat -----------------------------
(***************************************************************************)
(* Tool-calling conversations with a Gemini account: generate and stream   *)
(* of engines/gemini_api.py over engines/_gemini_wire.py.  Gemini signs    *)
(* the calls a model makes and refuses the next turn unless each signature *)
(* comes back; the caller, an OpenAI client, has no place for one, so the  *)
(* driver keeps the last Entries of them for Life ticks, in memory, shared *)
(* by every conversation.                                                  *)
(*                                                                         *)
(* Google is external: it answers a turn whose signatures are all there,   *)
(* in one body or in frames, and may fail or fall silent at any moment.    *)
(***************************************************************************)
EXTENDS Integers, Sequences, FiniteSets

CONSTANTS
  Talks,     \* conversations
  Entries,   \* SIGNATURE_ENTRIES
  Life,      \* SIGNATURE_SECONDS, in ticks
  MaxCalls,  \* bound: calls a model makes in all
  MaxDrops   \* bound: restarts

ASSUME SignatureAssumption == Entries \in Nat \ {0} /\ Life \in Nat \ {0}

VARIABLES
  memory,     \* the calls kept: [n |-> the ticks left to it], n its place in made
  made,       \* the calls made so far, in order: [signed, age, before]
              \* before: the driver has restarted since
  drops,      \* bound
  turn,       \* where each conversation's request is
  history,    \* the calls the caller sends back, with their results
  sent,       \* of the request: the signed calls that went without their
              \* signature, and whether the driver knew of one
  text, heard, finish,  \* what has come of the answer: whether words and thoughts,
                        \* which calls, how it finished
  verdict     \* how the request ended, "none" before

answering == <<text, heard, finish>>
geminiVars == <<memory, made, drops, turn, history, sent, answering, verdict>>

Made == DOMAIN made
PartKinds == {"words", "thoughts"}
Finishes == {"STOP", "MAX_TOKENS", "SAFETY", "MALFORMED"}
NothingKept == [n \in {} |-> 0]
NotSent == [missing |-> {}, unsigned |-> FALSE]

GeminiInit ==
  /\ memory = NothingKept /\ made = <<>> /\ drops = 0
  /\ turn = [t \in Talks |-> "idle"]
  /\ history = [t \in Talks |-> {}]
  /\ sent = [t \in Talks |-> NotSent]
  /\ text = [t \in Talks |-> {}]
  /\ heard = [t \in Talks |-> {}]
  /\ finish = [t \in Talks |-> "none"]
  /\ verdict = [t \in Talks |-> "none"]

-----------------------------------------------------------------------------
(***************************************************************************)
(* The memory: SignatureCache.                                             *)
(***************************************************************************)
\* Those of ids with fewer than Entries after them.
Newest(ids) == {n \in ids : Cardinality({m \in ids : m > n}) < Entries}

\* Fault: the newest goes when the memory is full.
RememberDropsNewest(ids) ==
  LET all == DOMAIN memory \cup ids
  IN  [n \in {k \in all : Cardinality({m \in all : m < k}) < Entries} |->
         IF n \in ids THEN Life ELSE memory[n]]

\* remember: the oldest goes when the memory is full.
Remember(ids) ==
  [n \in Newest(DOMAIN memory \cup ids) |-> IF n \in ids THEN Life ELSE memory[n]]

\* recall: what is kept and not too old; a stale entry goes when it is met.
Recalled(ids) == {n \in ids \cap DOMAIN memory : memory[n] > 0}
AfterRecall(ids) == [n \in (DOMAIN memory \ ids) \cup Recalled(ids) |-> memory[n]]

-----------------------------------------------------------------------------
(***************************************************************************)
(* Verdicts: finish_of and what generate and stream make of it.            *)
(***************************************************************************)
\* finish_of: a turn that made calls ends in them, unless it was cut short; an
\* answer that was stopped with no words and no calls in it says why instead.
FinishOf(raw, said, calls) ==
  CASE raw = "MALFORMED" -> "broken_call"
    [] raw = "MAX_TOKENS" -> "length"
    [] raw = "SAFETY" -> IF "words" \in said \/ calls # {} THEN "filtered" ELSE "refusal_note"
    [] OTHER -> IF calls # {} THEN "tool_calls" ELSE "stop"

\* generate: one body; an answer with nothing in it is no answer.
WholeVerdict(raw, said, calls) ==
  IF said = {} /\ calls = {} /\ raw \in {"none", "STOP"} THEN "empty"
  ELSE FinishOf(raw, said, calls)

\* Fault: a stream ends as Google says, whatever calls it made.
StreamVerdictUncalled(t) == FinishOf(finish[t], text[t], {})

\* stream, once a finishReason has come and the lines have ended.
StreamVerdict(t) == FinishOf(finish[t], text[t], heard[t])

-----------------------------------------------------------------------------
Ends(t, v) ==
  /\ verdict' = [verdict EXCEPT ![t] = v]
  /\ turn' = [turn EXCEPT ![t] = "ended"]

\* contents_from: a call is replayed without a signature when none is kept.
Unsigned(ids) == \E n \in ids : n \notin Recalled(ids) \/ ~made[n].signed

\* A request is made of the history and sent, to be answered in one body or as
\* a stream.
Ask(t) ==
  /\ turn[t] = "idle"
  /\ turn' \in {[turn EXCEPT ![t] = way] : way \in {"whole", "stream"}}
  /\ sent' = [sent EXCEPT ![t] =
       [missing |-> {n \in history[t] \ Recalled(history[t]) : made[n].signed},
        unsigned |-> Unsigned(history[t])]]
  /\ memory' = AfterRecall(history[t])
  /\ text' = [text EXCEPT ![t] = {}] /\ heard' = [heard EXCEPT ![t] = {}]
  /\ finish' = [finish EXCEPT ![t] = "none"]
  /\ verdict' = [verdict EXCEPT ![t] = "none"]
  /\ UNCHANGED <<made, drops, history>>

\* Google refuses the turn for a signature: in the driver's own words if it
\* knows that it replayed a call without one (explain_signature_refusal).
Refuses(t) ==
  /\ turn[t] \in {"whole", "stream"} /\ sent[t].missing # {}
  /\ Ends(t, IF sent[t].unsigned THEN "signature_explained" ELSE "refused")
  /\ UNCHANGED <<memory, made, drops, history, sent, answering>>

\* Another failure before or instead of an answer: an error status, a blocked
\* prompt, no candidates, a lost connection, the request's deadline.
Fails(t) ==
  /\ turn[t] \in {"whole", "stream", "reading"}
  /\ Ends(t, "failed")
  /\ UNCHANGED <<memory, made, drops, history, sent, answering>>

\* read_parts: text and thoughts, and up to two calls, remembered at once; only
\* the first of them is signed, if any is.
Parts(t, said, count, signed, raw) ==
  LET new == [i \in 1..count |-> [signed |-> signed /\ i = 1, age |-> 0, before |-> FALSE]]
      ids == (Len(made) + 1)..(Len(made) + count)
  IN  /\ Len(made) + count <= MaxCalls
      /\ made' = made \o new
      /\ memory' = Remember(ids)
      /\ text' = [text EXCEPT ![t] = @ \cup said]
      /\ heard' = [heard EXCEPT ![t] = @ \cup ids]
      /\ finish' = [finish EXCEPT ![t] = IF raw = "none" THEN @ ELSE raw]

Answer(t) ==
  /\ turn[t] = "whole" /\ sent[t].missing = {}
  /\ \E said \in SUBSET PartKinds, count \in 0..2, signed \in BOOLEAN, raw \in Finishes \cup {"none"} :
       /\ signed => count > 0
       /\ Parts(t, said, count, signed, raw)
       /\ Ends(t, WholeVerdict(raw, said, heard'[t]))
  /\ UNCHANGED <<drops, history, sent>>

\* A frame of a stream; each chunk has gone to the caller when the next is read.
Frame(t) ==
  /\ turn[t] \in {"stream", "reading"} /\ sent[t].missing = {}
  /\ \E said \in SUBSET PartKinds, count \in 0..2, signed \in BOOLEAN, raw \in Finishes \cup {"none"} :
       /\ signed => count > 0
       /\ Parts(t, said, count, signed, raw)
  /\ turn' = [turn EXCEPT ![t] = "reading"]
  /\ UNCHANGED <<drops, history, sent, verdict>>

\* The lines end, or after the first of them the stall clock does: whole if a
\* finishReason has come, and else the connection was closed mid-answer.
LinesEnd(t) ==
  /\ turn[t] \in {"stream", "reading"} /\ sent[t].missing = {}
  /\ Ends(t, IF finish[t] # "none" THEN StreamVerdict(t) ELSE "cut")
  /\ UNCHANGED <<memory, made, drops, history, sent, answering>>

\* The caller goes on with the calls it heard, those of a stream that failed
\* included, or begins again without.
GoOn(t) ==
  /\ turn[t] = "ended"
  /\ turn' = [turn EXCEPT ![t] = "idle"]
  /\ history' \in { [history EXCEPT ![t] = @ \cup heard[t]], [history EXCEPT ![t] = {}] }
  /\ sent' = [sent EXCEPT ![t] = NotSent]
  /\ text' = [text EXCEPT ![t] = {}] /\ heard' = [heard EXCEPT ![t] = {}]
  /\ finish' = [finish EXCEPT ![t] = "none"]
  /\ verdict' = [verdict EXCEPT ![t] = "none"]
  /\ UNCHANGED <<memory, made, drops>>

DriverRestarts ==
  /\ drops < MaxDrops
  /\ drops' = drops + 1
  /\ memory' = NothingKept
  /\ made' = [n \in Made |-> [made[n] EXCEPT !.before = TRUE]]
  /\ turn' = [t \in Talks |-> IF turn[t] = "idle" THEN "idle" ELSE "ended"]
  /\ verdict' = [t \in Talks |-> IF turn[t] \in {"idle", "ended"} THEN verdict[t] ELSE "failed"]
  /\ UNCHANGED <<history, sent, answering>>

Days ==
  /\ \E n \in Made : made[n].age < Life
  /\ made' = [n \in Made |-> [made[n] EXCEPT !.age = IF @ < Life THEN @ + 1 ELSE @]]
  /\ memory' = [n \in DOMAIN memory |-> IF memory[n] > 0 THEN memory[n] - 1 ELSE 0]
  /\ UNCHANGED <<drops, turn, history, sent, answering, verdict>>

GeminiNext ==
  \/ DriverRestarts \/ Days
  \/ \E t \in Talks :
       Ask(t) \/ Refuses(t) \/ Fails(t) \/ Answer(t) \/ Frame(t) \/ LinesEnd(t) \/ GoOn(t)

GeminiSpec == GeminiInit /\ [][GeminiNext]_geminiVars

-----------------------------------------------------------------------------
(***************************************************************************)
(* Properties                                                              *)
(***************************************************************************)
\* A signature cannot be there any more: the driver has restarted since, a day
\* has passed, or as many calls were remembered after it as are kept.
Gone(n) == made[n].before \/ made[n].age >= Life \/ Len(made) - n >= Entries

\* A call goes back without its signature for one of those causes and no other,
\* a call of a stream that failed half-way included (SignatureCache, read_parts).
SignaturesComeBack ==
  [][\A t \in Talks : turn[t] = "idle" => \A n \in sent'[t].missing : Gone(n)]_geminiVars

\* One answer comes to the same whether it was streamed or not, however it was
\* cut into frames: only an answer with nothing in it is refused whole and
\* accepted streamed (generate, stream).  It speaks of the streams that got a
\* finishReason: without one a stream is a cut, whatever came, where a whole body
\* with something in it is accepted.
StreamedAsWhole ==
  \A t \in Talks :
    LET whole == WholeVerdict(finish[t], text[t], heard[t])
    IN  turn[t] = "ended" /\ verdict[t] \in {"tool_calls", "stop", "length", "filtered", "refusal_note"}
          => verdict[t] = whole \/ (verdict[t] = "stop" /\ whole = "empty")
=============================================================================
