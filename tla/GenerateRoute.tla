--------------------------- MODULE GenerateRoute ---------------------------
(***************************************************************************)
(* One request to a work route while its caller may leave: disconnect.py   *)
(* (serve_while_connected) and the routes of routes/ that work under it.   *)
(* Actors on one event loop: the route's handler, the task that runs the   *)
(* engine call, the watcher of the receive channel, the backend and the    *)
(* caller; an action is what one of them does between two awaits.          *)
(*                                                                         *)
(* A route awaits a whole answer, or the first chunk of a stream before it *)
(* commits its 200.  /v1/decide is deliberately not watched.               *)
(***************************************************************************)
EXTENDS FiniteSets

VARIABLES
  mode,      \* which route of Routes
  client,    \* the caller: "here" or "gone"
  handler,   \* where the route is
  task,      \* the task of the engine call (the first chunk of a stream)
  watcher,   \* the task of _watch
  done,      \* what asyncio.wait reported done, read once and used later
  torn,      \* the handler was cancelled: the server is stopping
  work,      \* the work upstream: "idle", "busy" or "released"
  status,    \* the status line sent, "none" before
  terminal   \* the last frame of a stream: "none", "done" or "error"

reply == <<status, terminal>>
vars == <<mode, client, handler, task, watcher, done, torn, work, reply>>

(***************************************************************************)
(* What each route's own code decides: whether it may ask the backend what *)
(* it is before it serves (and nobody watches the caller meanwhile);       *)
(* whether its engine call may itself refuse the request (RerankUnsupport- *)
(* ed, CompletionRefusal, TokenCountUnsupported, ImageRefusal, ...) with a *)
(* status of its own; and what it awaits: a whole answer, the first chunk  *)
(* of frames that end in one, or of bytes that just end.                   *)
(***************************************************************************)
Route(asks, declines, answer) == [asks |-> asks, declines |-> declines, answer |-> answer]

Generate == Route(TRUE, TRUE, "whole")
GenerateStream == Route(TRUE, TRUE, "frames")
CountPromptTokens == Route(FALSE, TRUE, "whole")
Embed == Route(TRUE, FALSE, "whole")
DecideRoute == Route(FALSE, FALSE, "whole")
Rerank == Route(FALSE, TRUE, "whole")
Moderate == Route(FALSE, FALSE, "whole")
Transcribe == Route(TRUE, TRUE, "whole")
Speak == Route(FALSE, TRUE, "bytes")
Image == Route(FALSE, TRUE, "whole")
ImageStream == Route(FALSE, TRUE, "frames")
Video == Route(FALSE, TRUE, "whole")
VideoJob == Route(FALSE, TRUE, "whole")
VideoContent == Route(FALSE, TRUE, "bytes")

Routes ==
  [generate |-> Generate, generate_stream |-> GenerateStream, count |-> CountPromptTokens,
   embed |-> Embed, decide |-> DecideRoute, rerank |-> Rerank, moderate |-> Moderate,
   transcribe |-> Transcribe, speak |-> Speak, image |-> Image, image_stream |-> ImageStream,
   video |-> Video, video_job |-> VideoJob, video_content |-> VideoContent]

Streams == {m \in DOMAIN Routes : Routes[m].answer # "whole"}
Framed == {m \in DOMAIN Routes : Routes[m].answer = "frames"}
Probing == {m \in DOMAIN Routes : Routes[m].asks}
Declining == {m \in DOMAIN Routes : Routes[m].declines}

(***************************************************************************)
(* "gates": the refusals before any backend work;  "probing": the backend  *)
(* is asked what it is;  "serving": asyncio.wait                           *)
(* on the task and the watcher;  "unwatching": its finally awaits the      *)
(* watcher;  "reaping": the cancelled task is awaited;  "closing": awaits  *)
(* stream.aclose();  "direct": decide awaits the engine itself;            *)
(* "streaming": StreamingResponse runs events();  "ended".                 *)
(***************************************************************************)
HandlerStates ==
  {"gates", "probing", "serving", "unwatching", "reaping", "closing", "direct", "streaming", "ended"}

\* The types of the handler, its tasks and the backend.
TypeOK ==
  /\ mode \in DOMAIN Routes
  /\ client \in {"here", "gone"}
  /\ handler \in HandlerStates
  /\ task \in {"none", "due", "running", "cleanup", "ok", "empty", "declined", "failed", "crashed", "cancelled"}
  /\ watcher \in {"none", "watching", "saw", "stopping", "stopped"}
  /\ done \in SUBSET {"task", "watcher"}
  /\ torn \in BOOLEAN
  /\ work \in {"idle", "busy", "released"}
  /\ status \in {"none", "200", "refused", "499", "backend_error", "500"}
  /\ terminal \in {"none", "done", "error"}

Init ==
  /\ mode \in DOMAIN Routes
  /\ client = "here"
  /\ handler = "gates"
  /\ task = "none"
  /\ watcher = "none"
  /\ done = {}
  /\ torn = FALSE
  /\ work = "idle"
  /\ status = "none"
  /\ terminal = "none"

TaskDone == task \in {"ok", "empty", "declined", "failed", "crashed", "cancelled"}
WatcherDone == watcher \in {"saw", "stopped"}
Respond(s) == status' = s /\ handler' = "ended"
Freed == IF work = "busy" THEN "released" ELSE work

(***************************************************************************)
(* The route before the engine is called.                                  *)
(***************************************************************************)
\* No engine, no such model, not a model for this route, locality, tools, content;
\* or a backend that was asked and is not for this route.
Refuse ==
  /\ handler \in {"gates", "probing"}
  /\ Respond("refused")
  /\ UNCHANGED <<mode, client, task, watcher, done, torn, work, terminal>>

\* A backend with no catalogue entry to say what it is is asked (probe_completion,
\* probe_image_input, probe_audio_input, probe_embeddings), and attachments are read
\* in a thread; the answer decides between serving and a refusal.
Probe ==
  /\ handler = "gates" /\ mode \in Probing
  /\ handler' = "probing"
  /\ UNCHANGED <<mode, client, task, watcher, done, torn, work, reply>>

\* serve_while_connected makes its two tasks and waits for the first.
Serve ==
  /\ handler \in {"gates", "probing"} /\ mode # "decide"
  /\ handler' = "serving" /\ task' = "due" /\ watcher' = "watching"
  /\ UNCHANGED <<mode, client, done, torn, work, reply>>

Decide ==
  /\ handler = "gates" /\ mode = "decide"
  /\ handler' = "direct" /\ task' = "running" /\ work' = "busy"
  /\ UNCHANGED <<mode, client, watcher, done, torn, reply>>

(***************************************************************************)
(* The engine call and the watcher.                                        *)
(***************************************************************************)
TaskBegins ==
  /\ task = "due"
  /\ task' = "running" /\ work' = "busy"
  /\ UNCHANGED <<mode, client, handler, watcher, done, torn, reply>>

\* A whole answer, or a stream's first chunk: then the stream stays open.
TaskAnswers ==
  /\ task = "running"
  /\ task' = "ok"
  /\ work' = IF mode \in Streams THEN "busy" ELSE "released"
  /\ UNCHANGED <<mode, client, handler, watcher, done, torn, reply>>

\* StopAsyncIteration: a stream of no chunks.
TaskIsEmpty ==
  /\ task = "running" /\ mode \in Streams
  /\ task' = "empty" /\ work' = "released"
  /\ UNCHANGED <<mode, client, handler, watcher, done, torn, reply>>

\* The engine raises: a refusal the route answers with a status of its own, a
\* CliError, or something else.
TaskRaises ==
  /\ task = "running"
  /\ task' \in {"failed", "crashed"} \cup (IF mode \in Declining THEN {"declined"} ELSE {})
  /\ work' = "released"
  /\ UNCHANGED <<mode, client, handler, watcher, done, torn, reply>>

\* The CancelledError went through the engine's finally blocks.
TaskCleansUp ==
  /\ task = "cleanup"
  /\ task' = "cancelled" /\ work' = Freed
  /\ UNCHANGED <<mode, client, handler, watcher, done, torn, reply>>

ClientLeaves ==
  /\ client = "here" /\ handler # "ended"
  /\ client' = "gone"
  /\ UNCHANGED <<mode, handler, task, watcher, done, torn, work, reply>>

WatcherSees ==
  /\ watcher = "watching" /\ client = "gone"
  /\ watcher' = "saw"
  /\ UNCHANGED <<mode, client, handler, task, done, torn, work, reply>>

WatcherStops ==
  /\ watcher = "stopping"
  /\ watcher' = "stopped"
  /\ UNCHANGED <<mode, client, handler, task, done, torn, work, reply>>

(***************************************************************************)
(* serve_while_connected                                                   *)
(***************************************************************************)
\* task.cancel(): nothing to a finished task, and a task that has not begun
\* never does.
CancelTask ==
  task' = CASE task = "due" -> "cancelled"
            [] task = "running" -> "cleanup"
            [] OTHER -> task

StopWatcher == watcher' = IF watcher = "watching" THEN "stopping" ELSE watcher

\* Fault: only the task is waited for.
WaitReturnsForTask ==
  /\ handler = "serving" /\ TaskDone
  /\ done' = {"task"}
  /\ StopWatcher
  /\ handler' = "unwatching"
  /\ UNCHANGED <<mode, client, task, torn, work, reply>>

\* asyncio.wait returns: what is done is read now, and used after the await
\* of the watcher in the finally.
WaitReturns ==
  /\ handler = "serving" /\ (TaskDone \/ watcher = "saw")
  /\ done' = (IF TaskDone THEN {"task"} ELSE {}) \cup (IF watcher = "saw" THEN {"watcher"} ELSE {})
  /\ StopWatcher
  /\ handler' = "unwatching"
  /\ UNCHANGED <<mode, client, task, torn, work, reply>>

\* `if task in done`: what the task made of it goes to the caller.
TaskWins ==
  /\ handler = "unwatching" /\ WatcherDone /\ ~torn
  /\ "task" \in done
  /\ CASE task \in {"ok", "empty"} /\ mode \in Streams -> status' = "200" /\ handler' = "streaming"
       [] task = "ok" /\ mode \notin Streams -> Respond("200")
       [] task = "failed" -> Respond("backend_error")
       [] task = "declined" -> Respond("refused")
       [] OTHER -> Respond("500")
  /\ UNCHANGED <<mode, client, task, watcher, done, torn, work, terminal>>

\* Fault: the caller is taken to have left whenever the wait returns.
WatcherWinsAlways ==
  /\ handler = "unwatching" /\ WatcherDone /\ ~torn
  /\ CancelTask
  /\ handler' = "reaping"
  /\ UNCHANGED <<mode, client, watcher, done, torn, work, reply>>

\* The caller left first: the engine call is cancelled, and not only that.
WatcherWins ==
  /\ handler = "unwatching" /\ WatcherDone /\ ~torn
  /\ "task" \notin done
  /\ CancelTask
  /\ handler' = "reaping"
  /\ UNCHANGED <<mode, client, watcher, done, torn, work, reply>>

\* Fault: the task is cancelled and not awaited.
ReapUnawaited ==
  /\ handler = "reaping"
  /\ IF mode \in Streams THEN handler' = "closing" /\ UNCHANGED status ELSE Respond("499")
  /\ UNCHANGED <<mode, client, task, watcher, done, torn, work, terminal>>

\* The task is awaited, whatever it ends with is dropped; a stream is closed.
Reap ==
  /\ handler = "reaping" /\ TaskDone
  /\ IF mode \in Streams THEN handler' = "closing" /\ UNCHANGED status ELSE Respond("499")
  /\ UNCHANGED <<mode, client, task, watcher, done, torn, work, terminal>>

\* stream.aclose() has run the engine's finally blocks.
Close ==
  /\ handler = "closing"
  /\ work' = Freed
  /\ handler' = "ended"
  /\ status' = IF status = "none" THEN "499" ELSE status
  /\ UNCHANGED <<mode, client, task, watcher, done, torn, terminal>>

(***************************************************************************)
(* decide: the handler awaits the engine, and nobody watches the caller.   *)
(***************************************************************************)
DecideAnswers ==
  /\ handler = "direct" /\ TaskDone
  /\ IF torn THEN handler' = "ended" /\ UNCHANGED status
     ELSE Respond(CASE task = "ok" -> "200" [] task = "failed" -> "backend_error" [] OTHER -> "500")
  /\ UNCHANGED <<mode, client, task, watcher, done, torn, work, terminal>>

(***************************************************************************)
(* events(), run by StreamingResponse                                      *)
(***************************************************************************)
\* The engine's last chunk, or the end of a stream that had none; bytes just end.
StreamEnds ==
  /\ handler = "streaming" /\ ~torn
  /\ terminal' = IF task = "empty" THEN "none" ELSE "done"
  /\ work' = Freed
  /\ handler' = "closing"
  /\ UNCHANGED <<mode, client, task, watcher, done, torn, status>>

\* A CliError after the 200 is a frame, or of a stream of bytes the end; any other
\* exception is not caught and breaks the response off.
StreamRaises ==
  /\ handler = "streaming" /\ ~torn /\ task # "empty"
  /\ terminal' \in {"none", IF mode \in Framed THEN "error" ELSE "done"}
  /\ work' = "released"
  /\ handler' = "closing"
  /\ UNCHANGED <<mode, client, task, watcher, done, torn, status>>

\* External: StreamingResponse races the body against http.disconnect, and
\* cancels it; the generator's finally closes the engine's stream.
StreamAbandoned ==
  /\ handler = "streaming" /\ client = "gone"
  /\ handler' = "closing"
  /\ UNCHANGED <<mode, client, task, watcher, done, torn, work, reply>>

(***************************************************************************)
(* The handler itself is cancelled.                                        *)
(***************************************************************************)
Teardown ==
  /\ ~torn
  /\ torn' = TRUE
  /\ \/ /\ handler = "serving"
        /\ CancelTask /\ StopWatcher
        /\ handler' = "unwatching"
     \/ /\ handler = "direct"
        /\ CancelTask
        /\ UNCHANGED <<handler, watcher>>
     \/ /\ handler = "probing"
        /\ handler' = "ended"
        /\ UNCHANGED <<task, watcher>>
     \/ /\ handler = "streaming"
        /\ handler' = "closing"
        /\ UNCHANGED <<task, watcher>>
  /\ UNCHANGED <<mode, client, done, work, reply>>

\* The finally's await ends and the CancelledError is raised on.
TornDown ==
  /\ handler = "unwatching" /\ WatcherDone /\ torn
  /\ handler' = "ended"
  /\ UNCHANGED <<mode, client, task, watcher, done, torn, work, reply>>

Over ==
  /\ handler = "ended" /\ task # "cleanup"
  /\ UNCHANGED vars

EngineNext == TaskBegins \/ TaskAnswers \/ TaskIsEmpty \/ TaskRaises \/ TaskCleansUp
HandlerNext ==
  \/ WaitReturns \/ TaskWins \/ WatcherWins \/ Reap \/ Close
  \/ DecideAnswers \/ StreamAbandoned \/ TornDown

Next ==
  \/ Refuse \/ Probe \/ Serve \/ Decide
  \/ EngineNext \/ ClientLeaves \/ WatcherSees \/ WatcherStops
  \/ HandlerNext \/ StreamEnds \/ StreamRaises
  \/ Teardown \/ Over

(***************************************************************************)
(* The event loop runs what is due, the receive channel reports a closed   *)
(* socket, cleaning up ends and so does a probe, which has timeouts.  The  *)
(* backend need never answer.                                              *)
(***************************************************************************)
Fairness ==
  /\ WF_vars(Refuse \/ Probe \/ Serve \/ Decide)
  /\ WF_vars(TaskBegins)
  /\ WF_vars(TaskCleansUp)
  /\ WF_vars(WatcherSees)
  /\ WF_vars(WatcherStops)
  /\ WF_vars(HandlerNext)

Spec == Init /\ [][Next]_vars /\ Fairness

-----------------------------------------------------------------------------
(***************************************************************************)
(* Properties                                                              *)
(***************************************************************************)
\* "It has to be cancelled and awaited" (disconnect.py, lines 19-24): once the
\* route has answered, a 499 included, the backend is not working for it. A
\* handler that was itself cancelled is the exception: it cancels the call and
\* does not wait for it (disconnect.py, line 97).
AnsweredMeansReleased == handler = "ended" /\ ~torn => work # "busy"

\* An engine call is cancelled only because its caller left or the server stops,
\* and a decision's only because the server stops (routes/generate.py, 316-324).
CancelledForCause ==
  task \in {"cleanup", "cancelled"} => torn \/ (client = "gone" /\ mode # "decide")

\* A finished answer is not thrown away while somebody waits for it, and what
\* the caller is told of a failure is what the engine call came to.
ResultReachesCaller ==
  handler = "ended" /\ client = "here" /\ ~torn =>
    CASE task \in {"ok", "empty"} -> status = "200"
      [] task = "failed" -> status = "backend_error"
      [] task = "crashed" -> status = "500"
      [] OTHER -> status = "refused"  \* the engine's own refusal, or the route's

\* "Once the first byte of the stream is out the 200 is committed" (routes/
\* generate.py, 118-124): the status is sent once, a frame only after a 200, and
\* nothing after the last frame.
StatusThenFrames ==
  [][ /\ status # "none" => status' = status
      /\ terminal' # terminal => terminal = "none" /\ status = "200" /\ mode \in Streams
    ]_vars

\* A caller that leaves stops the backend, even one that would never answer:
\* whichever await the route is at (disconnect.py, lines 1-20). Not a decision, and
\* not when the handler is cancelled too.
LeavingReleases ==
  client = "gone" /\ mode # "decide" ~> torn \/ (work # "busy" /\ handler = "ended")

============================================================================
