----------------------------- MODULE ToolCalls -----------------------------
(***************************************************************************)
(* The tool calls of an answer and the results the caller sends back, as   *)
(* engines/openai_compat_http.py carries them.  A backend writes its calls *)
(* whole, or in fragments that may be interleaved; the driver forwards the *)
(* fragments and assembles calls of its own; a call forced on llama-server *)
(* comes as text and is turned back into a call; the next request carries  *)
(* the calls again with one result each, in whatever order the caller      *)
(* finished them.                                                          *)
(*                                                                         *)
(* Arguments are the sequence of the pieces a backend sends.  An id the    *)
(* driver makes itself (_new_call_id) is unique: it is told by the turn    *)
(* and the place of the call it was made for.                              *)
(***************************************************************************)
EXTENDS Integers, Sequences, FiniteSets, SequencesExt, FiniteSetsExt

CONSTANTS
  MaxCalls,   \* calls in one answer
  MaxArgs,    \* pieces the arguments of all its calls are sent in
  MaxTurns    \* turns of the agent loop

ASSUME CallBounds == MaxCalls \in Nat \ {0} /\ MaxArgs \in Nat \ {0} /\ MaxTurns \in Nat \ {0}

NoId == [turn |-> 0, nth |-> 0]
Minted(turn, nth) == [turn |-> turn, nth |-> nth]
\* A backend that numbers the calls of each answer from one uses its ids again.
Numbered(turn, nth) == [turn |-> 0, nth |-> nth]

\* The members of a set of integers, the least first.
Ascending(S) ==
  CHOOSE s \in [1 .. Cardinality(S) -> S] : \A i, j \in 1 .. Cardinality(S) : i < j => s[i] < s[j]

\* The calls that have a name, in their order.
Named(calls) ==
  LET at == Ascending({n \in DOMAIN calls : calls[n].name # ""}) IN [k \in DOMAIN at |-> calls[at[k]]]

\* Every call of the sequence has an id, a minted one where the backend gave none.
WithIds(turn, calls) ==
  [n \in DOMAIN calls |-> IF calls[n].id = NoId THEN [calls[n] EXCEPT !.id = Minted(turn, n)] ELSE calls[n]]

\* The answer read whole: _tool_calls_from_wire.
FromWire(turn, wire) == WithIds(turn, Named(wire))

\* _forced_call: a JSON object the budget did not cut is the call's arguments.
ForcedCall(turn, said) ==
  IF said.finish # "length" /\ said.object
  THEN <<[id |-> Minted(turn, 1), name |-> "forced", args |-> said.held]>> ELSE <<>>

-----------------------------------------------------------------------------
(* A fragment: [key, id, name, args].  A table of calls maps a key to what *)
(* has been put together under it.                                         *)

Blank == [id |-> NoId, name |-> "", args |-> <<>>]

\* _accumulate_tool_calls, one fragment; a caller of the stream does the same.
Accumulated(table, f) ==
  LET slot == IF f.key \in DOMAIN table THEN table[f.key] ELSE Blank
      grown == [id |-> IF f.id # NoId THEN f.id ELSE slot.id,
                name |-> IF f.name # "" THEN f.name ELSE slot.name,
                args |-> slot.args \o f.args]
  IN  [k \in DOMAIN table \cup {f.key} |-> IF k = f.key THEN grown ELSE table[k]]

\* Fault: the place of a fragment in its frame, whatever its index.
KeyByPlace(item, place) == place - 1

\* The key of an item of a frame: its index, or its place when it has none.
KeyOf(item, place) == IF item.index # -1 THEN item.index ELSE place - 1

\* _tool_call_deltas_from_wire.
Deltas(frame) ==
  [p \in DOMAIN frame |-> [key |-> KeyOf(frame[p], p), id |-> frame[p].id,
                           name |-> frame[p].name, args |-> frame[p].args]]

\* The calls of a table in the order of their keys.
ByKey(table) ==
  LET keys == Ascending(DOMAIN table) IN [n \in DOMAIN keys |-> table[keys[n]]]

\* _finish_tool_calls.
Finished(turn, table) == WithIds(turn, Named(ByKey(table)))

-----------------------------------------------------------------------------
(* The transcript a request carries: an assistant's turn with its calls, a *)
(* result naming the call it answers, or words of the user.                *)

Asking(calls) == [role |-> "assistant", ids |-> [n \in DOMAIN calls |-> calls[n].id], answers |-> NoId]
Result(id) == [role |-> "tool", ids |-> <<>>, answers |-> id]
Said == [role |-> "user", ids |-> <<>>, answers |-> NoId]

\* The turn whose run of results message i is in: the assistant's message directly
\* before that run, 0 when i is no such result.
TurnOf(wire, i) ==
  Max({0} \cup { a \in 1 .. i - 1 :
         wire[a].ids # <<>> /\ \A j \in a + 1 .. i : wire[j].role = "tool" })

\* Where a result goes in its run: the place of its call, the last that has its id;
\* a result naming none goes to the place after as many as there are ids, which is
\* after the rest when every call has one of its own.
PlaceIn(ids, answers) ==
  LET named == {n \in DOMAIN ids : ids[n] # NoId}
      at    == {n \in named : ids[n] = answers}
  IN  IF at = {} THEN Cardinality({ids[n] : n \in named}) + 1 ELSE Max(at)

\* Fault: the results stay as the caller sent them.
ResultsAsTheyCame(wire) == wire

\* _results_in_call_order: the run after an assistant's calls, sorted and stable.
ResultsInCallOrder(wire) ==
  LET place(i) == PlaceIn(wire[TurnOf(wire, i)].ids, wire[i].answers)
      before(i, j) ==  \* result i goes before result j of the same run
        place(i) < place(j) \/ (place(i) = place(j) /\ i < j)
      to(i) == LET a == TurnOf(wire, i)
                   run == {j \in a + 1 .. Len(wire) : TurnOf(wire, j) = a}
               IN  IF a = 0 THEN i ELSE a + 1 + Cardinality({j \in run : before(j, i)})
  IN  [k \in DOMAIN wire |-> wire[CHOOSE i \in DOMAIN wire : to(i) = k]]

-----------------------------------------------------------------------------
VARIABLES
  turn,        \* of the agent loop
  phase,       \* "asking", "answering", "answered" or "over"
  habits,      \* [ids, indexed]: does it number its calls, does it say which call a
               \* fragment is of
  said,        \* the answer as the backend means it: [calls, held, object, finish]
  schema,      \* the call is forced by a schema
  unsent,      \* per call, the pieces of it the backend has not streamed yet
  assembled,   \* call_parts: the driver's table of the stream
  received,    \* the table a caller assembles from the fragments forwarded
  streamed,    \* the calls of the stream's result, [calls, text]
  whole,       \* those of the same answer read whole
  transcript   \* the messages the caller sends

callVars == <<turn, phase, habits, said, schema, unsent, assembled, received, streamed, whole, transcript>>

NoTable == [k \in {} |-> Blank]
Nothing == [calls |-> <<>>, held |-> <<>>, object |-> FALSE, finish |-> "stop"]
NoAnswer == [calls |-> <<>>, text |-> <<>>]

CallsInit ==
  /\ turn = 1 /\ phase = "asking"
  /\ habits \in [ids : BOOLEAN, indexed : BOOLEAN]
  /\ said = Nothing /\ schema = FALSE
  /\ unsent = <<>> /\ assembled = NoTable /\ received = NoTable
  /\ streamed = NoAnswer /\ whole = NoAnswer
  /\ transcript = <<>>

\* The pieces of call n, each told from every other.
Args(n, pieces) == [p \in 1 .. pieces |-> <<n, p>>]

\* All the pieces of calls of these sizes.
PiecesIn(sizes) == FoldLeft(+, 0, sizes)

\* Calls of these sizes, the first perhaps with no name.
Meant(t, sizes, nameless) ==
  [n \in DOMAIN sizes |-> [id |-> IF habits.ids THEN Numbered(t, n) ELSE NoId,
                           name |-> IF n = nameless THEN "" ELSE "tool",
                           args |-> Args(n, sizes[n])]]

\* What a backend may mean to call.
CallsOf(t) ==
  { Meant(t, sizes, nameless) :
      sizes \in {z \in UNION {[1 .. m -> 0 .. MaxArgs] : m \in 1 .. MaxCalls} : PiecesIn(z) <= MaxArgs},
      nameless \in 0 .. 1 }

\* The backend decides what to answer.  One that was sent a schema has no tools to
\* call and writes text: an object, or what the budget cut off.
Answer ==
  /\ phase = "asking"
  /\ phase' = "answering"
  /\ schema' \in BOOLEAN
  /\ IF schema'
     THEN \E object \in BOOLEAN, finish \in {"stop", "length"} :
            said' = [calls |-> <<>>, held |-> Args(0, MaxArgs), object |-> object, finish |-> finish]
     ELSE \E calls \in CallsOf(turn) : said' = [Nothing EXCEPT !.calls = calls]
  /\ unsent' = [n \in DOMAIN said'.calls |-> <<Blank>> \o [p \in DOMAIN said'.calls[n].args |-> <<said'.calls[n].args[p]>>]]
  /\ UNCHANGED <<turn, habits, assembled, received, streamed, whole, transcript>>

\* The next fragment of call n: its id and name first, then its arguments.
Fragment(n) ==
  LET c == said.calls[n]
      opens == Len(unsent[n]) = Len(c.args) + 1
  IN  [index |-> IF habits.indexed THEN n - 1 ELSE -1,
       id |-> IF opens THEN c.id ELSE NoId,
       name |-> IF opens THEN c.name ELSE "",
       args |-> IF opens THEN <<>> ELSE Head(unsent[n])]

\* A call whole, as a backend that says no index sends it.
WholeFragment(n) ==
  LET c == said.calls[n] IN [index |-> -1, id |-> c.id, name |-> c.name, args |-> c.args]

\* A frame of the stream: the driver forwards its fragments and keeps a copy.
Frame(frame) ==
  /\ assembled' = FoldLeft(Accumulated, assembled, Deltas(frame))
  /\ received' = FoldLeft(Accumulated, received, Deltas(frame))

\* Some of the calls get their next fragment; without an index every call comes
\* whole, in one frame.
SendFrame ==
  /\ phase = "answering"
  /\ \E n \in DOMAIN unsent : unsent[n] # <<>>
  /\ IF habits.indexed
     THEN \E some \in (SUBSET {n \in DOMAIN unsent : unsent[n] # <<>>}) \ {{}} :
            /\ Frame([p \in 1 .. Cardinality(some) |-> Fragment(Ascending(some)[p])])
            /\ unsent' = [n \in DOMAIN unsent |-> IF n \in some THEN Tail(unsent[n]) ELSE unsent[n]]
     ELSE /\ Frame([n \in DOMAIN said.calls |-> WholeFragment(n)])
          /\ unsent' = [n \in DOMAIN unsent |-> <<>>]
  /\ UNCHANGED <<turn, phase, habits, said, schema, streamed, whole, transcript>>

\* The stream's last chunk: a forced answer becomes a fragment and a call, or its
\* text is sent after all.
StreamEnds ==
  /\ phase = "answering"
  /\ \A n \in DOMAIN unsent : unsent[n] = <<>>
  /\ LET made == IF schema /\ said.held # <<>> /\ assembled = NoTable THEN ForcedCall(turn, said) ELSE <<>>
         fragment == [key |-> 0, id |-> made[1].id, name |-> made[1].name, args |-> made[1].args]
         table == IF made = <<>> THEN assembled ELSE Accumulated(assembled, fragment)
     IN  /\ assembled' = table
         /\ received' = IF made = <<>> THEN received ELSE Accumulated(received, fragment)
         /\ streamed' = [calls |-> Finished(turn, table), text |-> IF made = <<>> THEN said.held ELSE <<>>]
  /\ phase' = "answered"
  /\ LET calls == FromWire(turn, said.calls)
         made == IF schema /\ calls = <<>> THEN ForcedCall(turn, said) ELSE <<>>
     IN  whole' = IF made # <<>> THEN [calls |-> made, text |-> <<>>] ELSE [calls |-> calls, text |-> said.held]
  /\ UNCHANGED <<turn, habits, said, schema, unsent, transcript>>

\* The caller runs the calls it was given and sends the results as they finish;
\* it may leave the last out, answer a call it never got, or add words of its own.
Reply ==
  /\ phase = "answered"
  /\ LET calls == streamed.calls
         ids == {calls[n].id : n \in DOMAIN calls}
     IN  IF calls = <<>>
         THEN phase' = "over" /\ UNCHANGED transcript
         ELSE /\ \E order \in SetToSeqs(DOMAIN calls), gone \in BOOLEAN, stray \in BOOLEAN, words \in BOOLEAN :
                   LET kept == IF gone THEN Front(order) ELSE order
                       results == [k \in DOMAIN kept |-> Result(calls[kept[k]].id)]
                   IN  transcript' = transcript \o <<Asking(calls)>>
                                       \o (IF stray THEN <<Result(NoId)>> ELSE <<>>) \o results
                                       \o (IF words THEN <<Said>> ELSE <<>>)
              /\ phase' = IF turn < MaxTurns THEN "asking" ELSE "over"
  /\ turn' = IF phase' = "asking" THEN turn + 1 ELSE turn
  /\ said' = Nothing /\ schema' = FALSE /\ unsent' = <<>>
  /\ assembled' = NoTable /\ received' = NoTable
  /\ streamed' = NoAnswer /\ whole' = NoAnswer
  /\ UNCHANGED habits

CallsNext == Answer \/ SendFrame \/ StreamEnds \/ Reply

-----------------------------------------------------------------------------
(***************************************************************************)
(* Properties                                                              *)
(***************************************************************************)
\* However a backend cuts and interleaves its calls, the answer streamed is the
\* answer read whole: the same calls with all their arguments in the same order, the
\* same text; and a caller that assembles the fragments itself has those calls too,
\* but for an id the driver made.
CallsAsWhole ==
  phase = "answered" =>
    LET own == Named(ByKey(received))
        unnumbered(calls) == [n \in DOMAIN calls |-> [name |-> calls[n].name, args |-> calls[n].args]]
    IN  /\ streamed = whole
        /\ unnumbered(own) = unnumbered(streamed.calls)
        /\ \A n \in DOMAIN own : own[n].id \in {NoId, streamed.calls[n].id}

\* A backend that matches results to calls by their place (Ollama) gives every call
\* the result that names it, when each was answered: in every turn, whatever order
\* they were answered in, ids used again in a later turn included, and nothing else
\* of the transcript has moved.
ResultsMeetTheirCalls ==
  phase \in {"asking", "over"} =>
  LET sent == ResultsInCallOrder(transcript)
      runOf(wire, a) == {i \in DOMAIN wire : TurnOf(wire, i) = a}
  IN  /\ \A i \in DOMAIN transcript : TurnOf(transcript, i) = 0 => sent[i] = transcript[i]
      /\ \A a \in {i \in DOMAIN sent : sent[i].ids # <<>>} :
           LET ids == sent[a].ids
           IN  (\A n \in DOMAIN ids : \E i \in runOf(transcript, a) : transcript[i].answers = ids[n])
                 => \A n \in DOMAIN ids : sent[a + n].answers = ids[n]
=============================================================================
