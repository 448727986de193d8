------------------------------- MODULE Probes -------------------------------
(***************************************************************************)
(* What a driver with a single model learns of its backend by asking:      *)
(* probe_rerank, probe_embeddings, probe_completion, context_window and     *)
(* rerank of engines/openai_compat_http.py, as routes/info.py runs them at *)
(* every poll of the gateway and routes/generate.py before an embedding.   *)
(* Each probe is a task that awaits the backend, may be cancelled while it *)
(* waits, and keeps what it learned for the engine's life; two polls, or a *)
(* poll and a request, may be asking at once.  The backend is local: a     *)
(* hosted one is never asked whether it completes.                         *)
(***************************************************************************)
EXTENDS Integers, FiniteSets

CONSTANTS
  Askers,     \* the tasks: a set of records [id, asks]
  Groups,     \* sets of them that are explored together
  HitTtl,     \* how long a context window is believed, in ticks of 30 s
  MissTtl,    \* and how long its absence is
  MaxRestarts \* bound: how often the backend starts again

ASSUME TtlAssumption == HitTtl \in Nat \ {0} /\ MissTtl \in Nat \ {0}

\* "embeddings" asks the rerank question first; "window" is context_window;
\* "sort" is a caller's rerank request, which asks whatever is known.
Kinds == {"rerank", "embeddings", "completion", "window", "sort"}
ASSUME AskersAssumption == Groups \subseteq SUBSET Askers /\ \A a \in Askers : a.asks \in Kinds

VARIABLES
  active,    \* the tasks of this run: one of Groups
  server,    \* the backend: what it is, and whether it is down, loading or up
  restarts,  \* bound
  replaced,  \* it has come back as another kind of server
  rerank, embeds,  \* learned: "unknown", "yes" or "no"
  completes, \* learned: "unknown", "no", "text", or "fills" (the middle, too)
  scale,     \* of its rerank scores: "unknown", "probability" or "logit"
  window,    \* the last window heard, "none" before
  missed,    \* the last look found none
  age,       \* ticks since that look, -1 before
  changed,   \* ticks since the server's window last changed
  task,      \* where each task is
  answer,    \* what has come back to it, "none" before
  asked,     \* the question it has out, "none" when none
  embedded,  \* a server was asked to embed that sorts results
  erred      \* history: where tasks heard an error instead of an answer

learned == <<rerank, embeds, completes, scale>>
looked == <<window, missed, age>>
tasks == <<task, answer, asked>>
probeVars == <<active, server, restarts, replaced, learned, looked, changed, tasks, embedded, erred>>

\* All but two are a llama-server started for one task; "vllm" serves text and raw
\* completion, "other" chat alone (Ollama).
ServerKinds == {"chat", "embedder", "prob_reranker", "logit_reranker", "vllm", "other"}
IsReranker(s) == s.kind \in {"prob_reranker", "logit_reranker"}
IsLlama(s) == s.kind \notin {"vllm", "other"}
Windows == {"small", "large"}

ProbeInit ==
  /\ active \in Groups
  /\ server \in [kind : ServerKinds, window : Windows, state : {"down", "loading"}]
  /\ restarts = 0
  /\ replaced = FALSE
  /\ rerank = "unknown" /\ embeds = "unknown" /\ completes = "unknown"
  /\ scale = "unknown"
  /\ window = "none" /\ missed = FALSE /\ age = -1 /\ changed = 0
  /\ task = [a \in Askers |-> "idle"]
  /\ answer = [a \in Askers |-> "none"]
  /\ asked = [a \in Askers |-> "none"]
  /\ embedded = FALSE /\ erred = {}

-----------------------------------------------------------------------------
(***************************************************************************)
(* The backend.                                                            *)
(***************************************************************************)
ServerLoads ==
  /\ server.state # "up"
  /\ server' = [server EXCEPT !.state = IF @ = "down" THEN "loading" ELSE "up"]
  /\ UNCHANGED <<active, restarts, replaced, learned, looked, changed, tasks, embedded, erred>>

\* It stops and comes back: with another window, or as another kind of server.
ServerRestarts ==
  /\ restarts < MaxRestarts
  /\ restarts' = restarts + 1
  /\ \E k \in ServerKinds, w \in Windows :
       /\ server' = [kind |-> k, window |-> w, state |-> "down"]
       /\ replaced' = (replaced \/ k # server.kind)
       /\ changed' = IF w = server.window THEN changed ELSE 0
  /\ UNCHANGED <<active, learned, looked, tasks, embedded, erred>>

\* What it answers when nothing goes wrong.  A server that sorts answers a question
\* it should not be asked with vectors it never computed.  A logit almost always
\* falls outside 0 to 1, and need not.
Sorted ==
  CASE server.kind = "prob_reranker" -> {"inside"}
    [] server.kind = "logit_reranker" -> {"inside", "outside"}
    [] OTHER -> {"no"}

Embedded == IF server.kind \in {"chat", "vllm", "other"} THEN {"no"} ELSE {"vectors"}

If(truth, word) == IF truth THEN {word} ELSE {"no"}

Truth(question) ==
  CASE question = "rerank" -> Sorted
    [] question = "embed" -> Embedded
    [] question = "window" -> {"window"}
    [] question = "props" -> If(IsLlama(server), "props")
    [] question = "infill" -> If(server.kind = "chat", "fills")
    [] OTHER -> If(server.kind = "vllm", "version")

\* What else a server that is up may say: a status of _NOT_NOW, any other error (500,
\* 401), a 200 that cannot be read, or nothing in time.
Mishaps == {"not_now", "error", "unreadable", "lost"}

AnswersTo(question) ==
  CASE server.state = "down" -> {"lost"}
    [] server.state = "loading" -> {"not_now", "lost"}
    [] OTHER -> Truth(question) \cup Mishaps

ServerAnswers(a) ==
  /\ asked[a] # "none" /\ answer[a] = "none"
  /\ \E said \in AnswersTo(asked[a]) :
       answer' = [answer EXCEPT ![a] = IF said = "window" THEN server.window ELSE said]
  /\ embedded' = (embedded \/ (asked[a] = "embed" /\ server.state = "up" /\ IsReranker(server)))
  /\ UNCHANGED <<active, server, restarts, replaced, learned, looked, changed, task, asked, erred>>

-----------------------------------------------------------------------------
(***************************************************************************)
(* The tasks.                                                              *)
(***************************************************************************)
Put(a, where, question) ==
  /\ task' = [task EXCEPT ![a] = where]
  /\ asked' = [asked EXCEPT ![a] = question]
  /\ answer' = [answer EXCEPT ![a] = "none"]

Done(a) == Put(a, "idle", "none")

Rest == <<active, server, restarts, replaced, changed, embedded>>

\* An error is told from an answer by the observer, not by the code.
Hears(a) ==
  erred' = IF answer[a] \in {"error", "unreadable"} THEN erred \cup {task[a]} ELSE erred

\* Fault: a window once heard is believed for good.
FreshOnceHeard == age >= 0 /\ (window # "none" \/ age < MissTtl)

\* A context window is believed for a while, and its absence for a shorter one.
Fresh == age >= 0 /\ age < (IF window # "none" THEN HitTtl ELSE MissTtl)

\* A probe begins; what is known is answered from memory and asks nothing.
BeginRerank(a) ==
  /\ task[a] = "idle" /\ a.asks = "rerank" /\ rerank = "unknown"
  /\ Put(a, "rerank", "rerank")
  /\ UNCHANGED <<Rest, learned, looked, erred>>

BeginEmbeddings(a) ==
  /\ task[a] = "idle" /\ a.asks = "embeddings" /\ embeds = "unknown"
  /\ \/ rerank = "unknown" /\ Put(a, "rerank", "rerank") /\ UNCHANGED embeds
     \/ rerank = "yes" /\ embeds' = "no" /\ UNCHANGED tasks
     \/ rerank = "no" /\ Put(a, "embed", "embed") /\ UNCHANGED embeds
  /\ UNCHANGED <<Rest, rerank, completes, scale, looked, erred>>

BeginCompletion(a) ==
  /\ task[a] = "idle" /\ a.asks = "completion" /\ completes = "unknown"
  /\ Put(a, "props", "props")
  /\ UNCHANGED <<Rest, learned, looked, erred>>

BeginWindow(a) ==
  /\ task[a] = "idle" /\ a.asks = "window" /\ ~Fresh
  /\ Put(a, "window", "window")
  /\ UNCHANGED <<Rest, learned, looked, erred>>

BeginSort(a) ==
  /\ task[a] = "idle" /\ a.asks = "sort"
  /\ Put(a, "sort", "rerank")
  /\ UNCHANGED <<Rest, learned, looked, erred>>

\* Fault: a probe asks for embeddings while the other question is open.
EmbedAfterUnknown(a) == IF rerank' = "yes" THEN "idle" ELSE "embed"

\* Fault: a "not now" is taken for a no.
SettlesAny(said) == said # "lost"

\* What settles the rerank question: every status but those of _NOT_NOW, and a 200
\* without a score in it as well.
Settles(said) == said \notin {"not_now", "lost"}

\* Where the embeddings probe goes once its rerank question is answered: only a
\* no, its own or one kept meanwhile, lets it ask for vectors.
EmbedAfter(a) == IF Settles(answer[a]) /\ rerank' = "no" THEN "embed" ELSE "idle"

\* The scale the probe keeps: never back from logit.
ProbedScale(said) == IF said = "outside" \/ scale = "logit" THEN "logit" ELSE "probability"

\* probe_rerank hears its answer.  The first answer to arrive stands.
HearRerank(a) ==
  /\ task[a] = "rerank" /\ answer[a] # "none"
  /\ LET said == answer[a]
         scored == said \in {"inside", "outside"}
     IN  IF rerank # "unknown" \/ ~Settles(said) THEN UNCHANGED <<rerank, scale>>
         ELSE /\ rerank' = IF scored THEN "yes" ELSE "no"
              /\ scale' = IF scored THEN ProbedScale(said) ELSE scale
  /\ IF a.asks = "rerank" THEN Done(a) /\ UNCHANGED embeds
     ELSE /\ IF EmbedAfter(a) = "embed" THEN Put(a, "embed", "embed") ELSE Done(a)
          /\ embeds' = IF Settles(answer[a]) /\ rerank' = "yes" THEN "no" ELSE embeds
  /\ Hears(a)
  /\ UNCHANGED <<Rest, completes, looked>>

\* The embeddings answer: a refusal and any other error is a no; "not now", a lost
\* call and vectors that cannot be read are not.
HearEmbed(a) ==
  /\ task[a] = "embed" /\ answer[a] # "none"
  /\ embeds' = CASE answer[a] = "vectors" -> "yes"
                 [] answer[a] \in {"no", "error"} -> "no"
                 [] OTHER -> embeds
  /\ Hears(a) /\ Done(a)
  /\ UNCHANGED <<Rest, rerank, completes, scale, looked>>

\* probe_completion: /props says llama-server; what does not answer it 200 is asked
\* for /version next.  A lost call, and a 200 that cannot be read, end the probe
\* with nothing kept.
HearProps(a) ==
  /\ task[a] = "props" /\ answer[a] # "none"
  /\ CASE answer[a] = "props" -> Put(a, "infill", "infill")
       [] answer[a] \in {"lost", "unreadable"} -> Done(a)
       [] OTHER -> Put(a, "version", "version")
  /\ Hears(a)
  /\ UNCHANGED <<Rest, learned, looked>>

\* /infill: it fills the middle when the answer is a 200, whatever is in it.
HearInfill(a) ==
  /\ task[a] = "infill" /\ answer[a] # "none"
  /\ completes' = CASE answer[a] = "lost" -> completes
                    [] answer[a] \in {"fills", "unreadable"} -> "fills"
                    [] OTHER -> "text"
  /\ Hears(a) /\ Done(a)
  /\ UNCHANGED <<Rest, rerank, embeds, scale, looked>>

\* /version: vLLM's.  Whatever else answers is a kept no, "not now" included.
HearVersion(a) ==
  /\ task[a] = "version" /\ answer[a] # "none"
  /\ completes' = CASE answer[a] = "version" -> "text"
                    [] answer[a] \in {"lost", "unreadable"} -> completes
                    [] OTHER -> "no"
  /\ Hears(a) /\ Done(a)
  /\ UNCHANGED <<Rest, rerank, embeds, scale, looked>>

\* A look that found nothing does not erase what an earlier one found.
WindowAfter(said) == IF said \in Windows THEN said ELSE window

HearWindow(a) ==
  /\ task[a] = "window" /\ answer[a] # "none"
  /\ window' = WindowAfter(answer[a])
  /\ missed' = (answer[a] \notin Windows)
  /\ age' = 0
  /\ Done(a)
  /\ UNCHANGED <<Rest, learned, erred>>

\* _scale_of: a score outside 0 to 1 is proof of logits, and is kept.
ScaleOf(said) == IF scale = "logit" \/ said = "outside" THEN "logit" ELSE "probability"

\* A caller's rerank.  "No such path" is the probe's definite no; any other failure
\* is the caller's answer and teaches nothing.
HearSort(a) ==
  /\ task[a] = "sort" /\ answer[a] # "none"
  /\ rerank' = IF answer[a] = "no" THEN "no" ELSE rerank
  /\ scale' = IF answer[a] \in {"inside", "outside"} /\ ScaleOf(answer[a]) = "logit" THEN "logit" ELSE scale
  /\ Done(a)
  /\ UNCHANGED <<Rest, embeds, completes, looked, erred>>

\* A poll gives a probe 2.5 s, and a caller may leave: the task is cancelled, and
\* a cancelled probe learns nothing.
Cancelled(a) ==
  /\ task[a] # "idle"
  /\ Done(a)
  /\ UNCHANGED <<Rest, learned, looked, erred>>

\* Time passes: a look at the window is short beside a tick.
ProbeTick ==
  /\ \E a \in active : a.asks = "window"
  /\ \A a \in active : task[a] # "window"
  /\ age <= HitTtl /\ changed <= HitTtl
  /\ age' = IF age = -1 THEN age ELSE age + 1
  /\ changed' = changed + 1
  /\ UNCHANGED <<active, server, restarts, replaced, learned, window, missed, tasks, embedded, erred>>

Begin(a) == BeginRerank(a) \/ BeginEmbeddings(a) \/ BeginCompletion(a) \/ BeginWindow(a) \/ BeginSort(a)
Hear(a) ==
  \/ HearRerank(a) \/ HearEmbed(a) \/ HearProps(a) \/ HearInfill(a) \/ HearVersion(a)
  \/ HearWindow(a) \/ HearSort(a)
ProbeNext ==
  \/ ServerLoads \/ ServerRestarts \/ ProbeTick
  \/ \E a \in active : Begin(a) \/ ServerAnswers(a) \/ Hear(a) \/ Cancelled(a)

ProbeSpec == ProbeInit /\ [][ProbeNext]_probeVars

-----------------------------------------------------------------------------
(***************************************************************************)
(* Properties                                                              *)
(***************************************************************************)
\* A server that sorts results is never asked for embeddings, by any probe, in any
\* order, through restarts, lost calls and "not now" (probe_embeddings): it would
\* answer.  The exception is the code's: once a probe was answered the rerank
\* question with another error or with what cannot be read, that is kept as a no
\* (openai_compat_http.py:4061-4088), and the embeddings question follows.
RerankerNotAskedToEmbed == embedded => replaced \/ "rerank" \in erred

\* What was learned of the server is true of it, as long as it is that server: a
\* lost call, "not now", two probes at once and a restart teach nothing wrong of
\* sorting and embedding, nor that a server continues text.  A kept no may come
\* of an error (4061-4088, 4126-4139), and vectors of a server that sorts after one;
\* that a no to completion may be worse than that is CompletionNoIsTrue's.
LearnedIsTrue ==
  ~replaced =>
    /\ rerank = "yes" => IsReranker(server)
    /\ rerank = "no" => ~IsReranker(server) \/ "rerank" \in erred
    /\ embeds = "yes" => server.kind = "embedder" \/ (IsReranker(server) /\ "rerank" \in erred)
    /\ embeds = "no" => server.kind # "embedder" \/ "embed" \in erred
    /\ completes = "text" => server.kind # "other"
    /\ completes = "fills" => server.kind = "chat" \/ (IsLlama(server) /\ "infill" \in erred)

\* A window that is served without being asked for again, and was not found
\* missing, has been wrong for less than its time to live (context_window).
WindowIsRecent == Fresh /\ ~missed /\ window # server.window => changed < HitTtl

\* "Cached once definite; a transport failure is not definite", and a status of
\* _NOT_NOW "says nothing about what the backend can do": a completion probe that
\* settled on no, with no other error heard, has asked a server that does not
\* continue text.
CompletionNoIsTrue ==
  ~replaced /\ completes = "no" /\ erred \cap {"props", "version"} = {} => server.kind = "other"
=============================================================================
