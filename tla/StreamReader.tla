---------------------------- MODULE StreamReader ----------------------------
(***************************************************************************)
(* Reading a streamed answer, from the POST to its last chunk: _stream of  *)
(* engines/openai_compat_http.py, with the stall clock, and                *)
(* _complete_stream, which reads a raw completion without one.             *)
(*                                                                         *)
(* The backend and the caller that consumes the chunks are external.  Time *)
(* is counted in ticks, and only while the reader waits for the backend:   *)
(* that is all its clocks measure.  A line of the response carries one     *)
(* thing.  The model covers a chat request whose thinkingMode is not off   *)
(* (AnswerFilters has that filter) and that asks for no audio.             *)
(***************************************************************************)
EXTENDS Integers, Sequences

CONSTANTS
  Stalls,     \* values of _stall_seconds, in ticks; 0 switches the clock off
  Budget,     \* requestTimeoutSeconds: httpx's read timeout, in ticks
  MaxLines,   \* bound: lines the backend sends, those that say nothing not counted
  MaxWire     \* bound: lines sent and not yet read

ASSUME ReaderAssumptions ==
  Stalls \subseteq Nat /\ {Budget, MaxLines, MaxWire} \subseteq Nat \ {0}

Content == {"text", "reason", "call"}
(* "blank" carries nothing: an empty delta, or no JSON at all. *)
Kinds == Content \cup {"blank", "progress", "ping", "notObject", "error", "finish", "DONE"}


(* What a backend may send for ever without a word of an answer. *)
Idle == {"ping", "progress", "blank"}

Outcomes == {"none", "done", "cut", "stalled", "timedOut", "failed", "refused",
             "reported", "crashed", "abandoned"}

\* What is streamed: a chat, a raw completion of /v1/completions, or one of a
\* backend's own (/infill, and Ollama's /api/generate).
Answering == {"chat", "completion", "native"}

VARIABLES
  asked,      \* which of Answering
  stall,      \* _stall_seconds; a raw completion has no stall clock
  report,     \* reportProgress
  forced,     \* the request forces one tool: its text is held
  hollow,     \* hollow_pings: the backend is known to be a llama-server
  link,       \* of the backend: "asked", "open", "eof", "reset"
  wire,       \* lines sent and not yet read: its kind, the content sent by then
  lines,      \* lines sent, those of Idle not counted
  produced,   \* history: the kinds of the content among them, in order
  complete,   \* history: the backend sent a finish_reason or [DONE]
  pc,         \* where the reader is
  armed,      \* saw_first_data
  terminator, \* saw_terminator
  waited,     \* ticks spent in this wait
  quiet,      \* quiet, in ticks
  held,       \* the held text of a forced call
  delivered,  \* content yielded to the caller
  outcome,    \* how the stream ended
  began,      \* history: the answer began, a data line that is no progress
  hush        \* history: ticks waited since the last line that counts as life

request == <<asked, stall, report, forced, hollow>>
backend == <<link, wire, lines, produced, complete>>
clock == <<armed, waited, quiet>>
answer == <<terminator, held, delivered>>
history == <<began, hush>>
vars == <<request, backend, pc, clock, answer, outcome, history>>

(***************************************************************************)
(* "opening": the POST is out;  "reading": awaits a line;  "yielded": a    *)
(* chunk is with the caller;  "closing": after the loop;  "handing": the   *)
(* held text is with the caller;  "ended".                                 *)
(***************************************************************************)
Lines == [kind : Kinds, n : Nat]
PCs == {"opening", "reading", "yielded", "closing", "handing", "ended"}

\* The types of the stream, its clocks and its outcome.
TypeOK ==
  /\ asked \in Answering /\ stall \in Stalls \cup {0}
  /\ report \in BOOLEAN /\ forced \in BOOLEAN /\ hollow \in BOOLEAN
  /\ complete \in BOOLEAN /\ terminator \in BOOLEAN
  /\ armed \in BOOLEAN /\ began = armed
  /\ link \in {"asked", "open", "eof", "reset"} /\ pc \in PCs
  /\ produced \in Seq(Content) /\ wire \in Seq(Lines)
  /\ held \in Seq(Lines) /\ delivered \in Seq(Lines)
  /\ Len(wire) <= MaxWire /\ lines \in 0 .. MaxLines
  /\ waited \in 0 .. Budget /\ quiet \in Nat
  /\ armed /\ stall > 0 => quiet + waited \in 0 .. stall
  /\ outcome \in Outcomes /\ (outcome = "none" <=> pc # "ended")
  /\ hush \in Nat

Init ==
  /\ asked \in Answering
  /\ IF asked = "chat"
     THEN stall \in Stalls /\ report \in BOOLEAN /\ forced \in BOOLEAN /\ hollow \in BOOLEAN
     ELSE stall = 0 /\ report = FALSE /\ forced = FALSE /\ hollow = FALSE
  /\ link = "asked" /\ wire = <<>> /\ lines = 0
  /\ produced = <<>> /\ complete = FALSE
  /\ pc = "opening" /\ armed = FALSE /\ terminator = FALSE
  /\ waited = 0 /\ quiet = 0
  /\ held = <<>> /\ delivered = <<>>
  /\ outcome = "none"
  /\ began = FALSE /\ hush = 0

(***************************************************************************)
(* The backend (external): one that has ended its answer sends only pings, *)
(* frames without content (the usage) and [DONE], and it may stop, freeze, *)
(* break the connection at any time, or send idle lines for ever.          *)
(* A completion is only text, and only OpenAI's ends in [DONE].            *)
(***************************************************************************)
Answers ==
  /\ pc = "opening"
  /\ link' = "open" /\ waited' = 0
  /\ pc' = IF report THEN "yielded" ELSE "reading"
  /\ UNCHANGED <<request, wire, lines, produced, complete, armed, quiet, answer, outcome, history>>

Refuses ==
  /\ pc = "opening"
  /\ pc' = "ended" /\ outcome' \in {"refused", "failed"}
  /\ UNCHANGED <<request, backend, clock, answer, history>>

Sends(kind) ==
  /\ link = "open" /\ pc # "ended"
  /\ Len(wire) < MaxWire
  /\ \/ kind \in Idle /\ lines' = lines
     \/ kind \notin Idle /\ lines < MaxLines /\ lines' = lines + 1
  /\ complete => kind \in {"ping", "blank", "DONE"}
  /\ asked # "chat" => kind \notin {"reason", "call", "progress"}
  /\ asked = "native" => kind # "DONE"
  /\ produced' = (IF kind \in Content THEN Append(produced, kind) ELSE produced)
  /\ wire' = Append(wire, [kind |-> kind, n |-> Len(produced')])
  /\ complete' = (complete \/ kind \in {"finish", "DONE"})
  /\ UNCHANGED <<request, link, pc, clock, answer, outcome, history>>

Stops ==
  /\ link = "open" /\ pc # "ended"
  /\ link' \in {"eof", "reset"}
  /\ UNCHANGED <<request, wire, lines, produced, complete, pc, clock, answer, outcome, history>>

(***************************************************************************)
(* The reader: one line.                                                   *)
(***************************************************************************)

(* Silence adds up across the pings of a llama-server, and only there.     *)

\* Fault: every backend's pings are hollow.
QuietEverPing(kind) ==
  IF kind = "ping" THEN quiet + (IF armed /\ stall > 0 THEN waited ELSE 0) ELSE 0

\* Fault: any line is life.
QuietReset(kind) == 0

QuietAfter(kind) ==
  IF hollow /\ kind = "ping" THEN quiet + (IF armed /\ stall > 0 THEN waited ELSE 0) ELSE 0

Read(kind) ==
  /\ pc = "reading" /\ wire # <<>> /\ Head(wire).kind = kind
  /\ wire' = Tail(wire)
  /\ quiet' = QuietAfter(kind) /\ waited' = 0
  /\ hush' = (IF hollow /\ kind = "ping" THEN hush ELSE 0)
  /\ UNCHANGED <<request, link, lines, produced, complete>>

(* A progress chunk is for a caller that asked, and at most now and then.  *)
MaySayProgress == pc' = "reading" \/ (report /\ pc' = "yielded")

ReadPing ==
  /\ Read("ping")
  /\ MaySayProgress
  /\ UNCHANGED <<armed, answer, outcome, began>>

(* The prompt is still being read: the clock is not armed. *)
ReadProgress ==
  /\ Read("progress")
  /\ MaySayProgress
  /\ UNCHANGED <<armed, answer, outcome, began>>

ReadBlank ==
  /\ Read("blank")
  /\ MaySayProgress
  /\ armed' = TRUE /\ began' = TRUE
  /\ UNCHANGED <<answer, outcome>>

ReadContent ==
  /\ \E kind \in Content : Read(kind) /\ ~(forced /\ kind = "text")
  /\ delivered' = Append(delivered, Head(wire))
  /\ pc' = "yielded"
  /\ armed' = TRUE /\ began' = TRUE
  /\ UNCHANGED <<terminator, held, outcome>>

ReadForcedText ==
  /\ forced /\ Read("text")
  /\ held' = Append(held, Head(wire))
  /\ MaySayProgress
  /\ armed' = TRUE /\ began' = TRUE
  /\ UNCHANGED <<terminator, delivered, outcome>>

ReadFinish ==
  /\ Read("finish")
  /\ MaySayProgress
  /\ armed' = TRUE /\ began' = TRUE /\ terminator' = TRUE
  /\ UNCHANGED <<held, delivered, outcome>>

\* A chat stops reading here; a completion reads on until the connection ends.
ReadDone ==
  /\ Read("DONE")
  /\ armed' = TRUE /\ began' = TRUE /\ terminator' = TRUE
  /\ pc' = IF asked = "chat" THEN "closing" ELSE "reading"
  /\ UNCHANGED <<held, delivered, outcome>>

(* The backend's own error frame; and JSON that is no object, on which     *)
(* event.get raises what no caller catches.                                *)
ReadFailure ==
  /\ asked = "chat"
  /\ \/ Read("error") /\ outcome' = "reported" /\ UNCHANGED <<armed, began>>
     \/ Read("notObject") /\ outcome' = "crashed" /\ armed' = TRUE /\ began' = TRUE
  /\ pc' = "ended"
  /\ UNCHANGED answer

(* A completion passes over both: neither carries text. *)
ReadOver ==
  /\ asked # "chat"
  /\ Read("error") \/ Read("notObject")
  /\ pc' = "reading"
  /\ UNCHANGED <<armed, answer, outcome, began>>

\* Fault: a closed connection is an end.
ReadEofAsEnd ==
  /\ pc = "reading" /\ wire = <<>> /\ link = "eof"
  /\ pc' = "closing" /\ terminator' = TRUE
  /\ UNCHANGED <<request, backend, clock, held, delivered, outcome, history>>

ReadEof ==
  /\ pc = "reading" /\ wire = <<>> /\ link = "eof"
  /\ pc' = "closing"
  /\ UNCHANGED <<request, backend, clock, answer, outcome, history>>

ReadReset ==
  /\ pc = "reading" /\ wire = <<>> /\ link = "reset"
  /\ pc' = "ended" /\ outcome' = "failed"
  /\ UNCHANGED <<request, backend, clock, answer, history>>

(***************************************************************************)
(* Its clocks.                                                             *)
(***************************************************************************)
Waiting == pc \in {"opening", "reading"} /\ wire = <<>> /\ link \in {"asked", "open"}

StallIsDue == quiet + waited >= stall

Tick ==
  /\ Waiting
  /\ waited < Budget
  /\ ~(armed /\ stall > 0 /\ StallIsDue)
  /\ waited' = waited + 1
  /\ hush' = (IF began /\ stall > 0 THEN hush + 1 ELSE 0)
  /\ UNCHANGED <<request, backend, pc, armed, quiet, answer, outcome, began>>

(* The window is over.  An answer that has its finish_reason is complete.  *)
StallFires ==
  /\ pc = "reading" /\ armed /\ stall > 0 /\ StallIsDue
  /\ IF terminator THEN pc' = "closing" /\ outcome' = outcome
                   ELSE pc' = "ended" /\ outcome' = "stalled"
  /\ UNCHANGED <<request, backend, clock, answer, history>>

\* Fault: no deadline until the response opens.
BudgetFiresReading ==
  /\ pc = "reading" /\ waited = Budget
  /\ pc' = "ended" /\ outcome' = "timedOut"
  /\ UNCHANGED <<request, backend, clock, answer, history>>

(* httpx's ReadTimeout: it knows one wait, not the stream. *)
BudgetFires ==
  /\ pc \in {"opening", "reading"} /\ waited = Budget
  /\ pc' = "ended" /\ outcome' = "timedOut"
  /\ UNCHANGED <<request, backend, clock, answer, history>>

(***************************************************************************)
(* After the loop, and the caller.                                         *)
(***************************************************************************)
CloseCut ==
  /\ pc = "closing" /\ ~terminator
  /\ pc' = "ended" /\ outcome' = "cut"
  /\ UNCHANGED <<request, backend, clock, answer, history>>

OwesHeld == held # <<>> /\ \A i \in DOMAIN delivered : delivered[i].kind # "call"

(* The held text becomes the forced call, or goes back as it came. *)
CloseHeld ==
  /\ pc = "closing" /\ terminator /\ OwesHeld
  /\ delivered' = delivered \o held /\ held' = <<>>
  /\ pc' = "handing"
  /\ UNCHANGED <<request, backend, clock, terminator, outcome, history>>

CloseDone ==
  /\ pc = "closing" /\ terminator /\ ~OwesHeld
  /\ pc' = "ended" /\ outcome' = "done"
  /\ UNCHANGED <<request, backend, clock, answer, history>>

Resume ==
  /\ \/ pc = "yielded" /\ pc' = "reading"
     \/ pc = "handing" /\ pc' = "closing"
  /\ waited' = 0
  /\ UNCHANGED <<request, backend, armed, quiet, answer, outcome, history>>

(* The caller closes the generator, or its task is cancelled. *)
Abandon ==
  /\ pc # "ended"
  /\ pc' = "ended" /\ outcome' = "abandoned"
  /\ UNCHANGED <<request, backend, clock, answer, history>>

Reader ==
  \/ ReadPing \/ ReadProgress \/ ReadBlank \/ ReadContent \/ ReadForcedText
  \/ ReadFinish \/ ReadDone \/ ReadFailure \/ ReadOver \/ ReadEof \/ ReadReset
  \/ CloseCut \/ CloseHeld \/ CloseDone

Over == pc = "ended" /\ UNCHANGED vars

Next ==
  \/ Answers \/ Refuses \/ Stops \/ \E kind \in Kinds : Sends(kind)
  \/ Reader
  \/ Tick \/ StallFires \/ BudgetFires
  \/ Resume \/ Abandon
  \/ Over

(* The event loop runs the reader and its timers, and the caller takes     *)
(* each chunk or leaves.  Time passes for a reader that waits again and    *)
(* again, and a window that is over ends a wait that would suspend, though *)
(* a line may come between any two waits: strong fairness.  The backend    *)
(* owes nothing.                                                           *)
Fairness == WF_vars(Reader) /\ SF_vars(Tick) /\ SF_vars(StallFires)
              /\ WF_vars(BudgetFires) /\ WF_vars(Resume)

Spec == Init /\ [][Next]_vars /\ Fairness

(***************************************************************************)
(* Properties.                                                             *)
(***************************************************************************)
ContentLine(n) == [kind |-> produced[n], n |-> n]

InOrder(one, next) ==
  IF forced /\ (one.kind = "text") # (next.kind = "text")
  THEN next.kind = "text" ELSE one.n < next.n

(* A stream that ends with its done chunk is the whole answer: the backend *)
(* said it was finished, and the caller got all it sent and nothing else,  *)
(* in order.  The text of a forced call comes after all else, or not at    *)
(* all when the backend made calls itself.                                 *)
AnswerIsWhole ==
  outcome = "done" =>
    /\ complete
    /\ \A n \in DOMAIN produced :
         \/ \E i \in DOMAIN delivered : delivered[i] = ContentLine(n)
         \/ forced /\ produced[n] = "text" /\ \E m \in DOMAIN produced : produced[m] = "call"
    /\ \A i \in DOMAIN delivered :
         \E n \in DOMAIN produced : delivered[i] = ContentLine(n)
    /\ \A i, j \in DOMAIN delivered : i < j => InOrder(delivered[i], delivered[j])

(* "Stalled" is said only of a backend that began its answer, has not      *)
(* finished it, and was then silent for a whole window of waiting; what    *)
(* the caller spends on a chunk and a hosted service's pings do not count. *)
StallIsSilence ==
  outcome = "stalled" => began /\ ~terminator /\ hush >= stall

(* A llama-server that freezes mid-answer and goes on pinging is noticed:  *)
(* the reader never waits longer than the window for its next data line.   *)
WedgeIsSeen ==
  began /\ stall > 0 /\ pc # "ended" => hush <= stall

(* A line that restarts the clock which runs: any line does, except the    *)
(* ping of a llama-server whose answer began, under a stall window.        *)
ReadsLife ==
  \E kind \in Kinds : Read(kind) /\ ~(hollow /\ armed /\ stall > 0 /\ kind = "ping")

(* A caller so slow over each chunk that a line is always there when the   *)
(* reader comes back: it waits no more, and no clock runs.                 *)
NeverWaitsAgain == <>[]~Waiting /\ []<><<Resume>>_vars

(* Every stream ends, also behind a backend that never answers, falls      *)
(* silent, or freezes and goes on pinging, unless for ever there comes     *)
(* another line that counts as life, or the reader never waits again.      *)
(* Such a backend is followed without end: each line restarts httpx's read *)
(* timeout and the stall clock, and nothing bounds the stream as a whole.  *)
EveryStreamEnds == <>(pc = "ended") \/ []<><<ReadsLife>>_vars \/ NeverWaitsAgain
=============================================================================
