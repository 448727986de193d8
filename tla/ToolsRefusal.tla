---------------------------- MODULE ToolsRefusal ---------------------------
(***************************************************************************)
(* Tools learned off and asked about again: _learn_tools_refused,          *)
(* _clear_tools_refused, _watch_tools, _ask_tools_again, _ask_tools_once,  *)
(* _tools_answered and aclose of engines/openai_compat_http.py, and the    *)
(* door in routes/generate.py (_refuse_unsupported_tools).  The backend    *)
(* decides a request at one moment and its answer is read at a later one,  *)
(* and it is restarted in between as its agent pleases.                    *)
(*                                                                         *)
(* An account (account = TRUE) lists the models it serves, and the list    *)
(* moves; a single-model driver has one model and supports_tool_calling.   *)
(***************************************************************************)
EXTENDS Integers, FiniteSets

CONSTANTS
  Models,      \* model ids
  OnlyModel,   \* the model of a single-model driver
  Requests,    \* chat requests in flight at most; each is made again and again
  Tasks,       \* asyncio tasks that may run _ask_tools_again, ever reused
  NoTask,      \* _tools_watch is None
  NoModel      \* no model is asked about

ASSUME ToolsAssumptions ==
  /\ OnlyModel \in Models
  /\ NoTask \notin Tasks
  /\ NoModel \notin Models

VARIABLES
  account,   \* catalogue is not None
  served,    \* the models catalogue.find() knows
  backend,   \* external: "takes" tools, "refuses" them, or is "down"
  off,       \* the keys of _tools_refused
  supports,  \* supports_tool_calling of a single-model driver
  req,       \* each request: idle, sent, or answered and not yet read
  watch,     \* _tools_watch
  task,      \* the state of each asking task
  client,    \* the HTTP client is built
  engine     \* "open", "closing" (aclose awaits the task) or "closed"

requests == <<account, served, backend, req>>
vars == <<requests, off, supports, watch, task, client, engine>>

Idle == [at |-> "idle", model |-> NoModel]
NoWork == [at |-> "none", todo |-> {}, model |-> NoModel]

\* The types of what is refused and of who is asking.
TypeOK ==
  /\ account \in BOOLEAN
  /\ served \in SUBSET Models
  /\ backend \in {"takes", "refuses", "down"}
  /\ off \in SUBSET Models
  /\ supports \in BOOLEAN
  /\ req \in [Requests -> [at: {"idle", "sent", "refused", "other"}, model: Models \cup {NoModel}]]
  /\ watch \in Tasks \cup {NoTask}
  /\ task \in [Tasks ->
       [at: {"none", "sleeping", "asking", "yes", "no", "unknown", "cancelled"},
        todo: SUBSET Models, model: Models \cup {NoModel}]]
  /\ client \in BOOLEAN
  /\ engine \in {"open", "closing", "closed"}

Init ==
  /\ account \in BOOLEAN
  /\ served = IF account THEN Models ELSE {OnlyModel}
  /\ backend \in {"takes", "refuses"}
  /\ off = {}
  /\ supports = TRUE
  /\ req = [r \in Requests |-> Idle]
  /\ watch = NoTask
  /\ task = [t \in Tasks |-> NoWork]
  /\ client = FALSE
  /\ engine = "open"

Live(t) == task[t].at \in {"sleeping", "asking", "yes", "no", "unknown"}

(***************************************************************************)
(* The world outside                                                       *)
(***************************************************************************)
\* The agent starts the engine again, with tools or without, or it is down.
BackendRestarts ==
  /\ \E b \in {"takes", "refuses", "down"} \ {backend} : backend' = b
  /\ UNCHANGED <<account, served, req, off, supports, watch, task, client, engine>>

\* A refresh or a filter moves the list of models served.
CatalogueMoves ==
  /\ account /\ engine = "open"
  /\ \E s \in SUBSET Models \ {served} : served' = s
  /\ UNCHANGED <<account, backend, req, off, supports, watch, task, client, engine>>

(***************************************************************************)
(* A chat request that carries tools                                       *)
(***************************************************************************)
\* _refuse_unsupported_tools lets it by: what is off is refused at the door.
Door(m) == IF account THEN m \in served /\ m \notin off ELSE m = OnlyModel /\ supports

Send(r, m) ==
  /\ engine = "open" /\ req[r].at = "idle"
  /\ Door(m)
  /\ req' = [req EXCEPT ![r] = [at |-> "sent", model |-> m]]
  /\ client' = TRUE
  /\ UNCHANGED <<account, served, backend, off, supports, watch, task, engine>>

\* External: the backend's decision; "other" is an answer or any other failure.
BackendDecides(r) ==
  /\ req[r].at = "sent"
  /\ req' = [req EXCEPT ![r].at = IF backend = "refuses" THEN "refused" ELSE "other"]
  /\ UNCHANGED <<account, served, backend, off, supports, watch, task, client, engine>>

\* Fault: a task that has ended is taken for one that asks.
StartWatchOnce ==
  IF watch # NoTask THEN UNCHANGED <<watch, task>>
  ELSE \E t \in Tasks :
         /\ task[t].at = "none"
         /\ watch' = t
         /\ task' = [task EXCEPT ![t] = [NoWork EXCEPT !.at = "sleeping"]]

\* _watch_tools: one task, unless one is there and not done.
StartWatch ==
  IF watch # NoTask /\ Live(watch) THEN UNCHANGED <<watch, task>>
  ELSE \E t \in Tasks :
         /\ task[t].at = "none"
         /\ watch' = t
         /\ task' = [task EXCEPT ![t] = [NoWork EXCEPT !.at = "sleeping"]]

\* _learn_tools_refused
Learn(m) ==
  IF m \in off THEN UNCHANGED <<off, supports, watch, task>>
  ELSE /\ off' = off \cup {m}
       /\ supports' = (supports /\ account)
       /\ StartWatch

\* The answer is read: _upstream_refusal when it refuses the tools.
ReadAnswer(r) ==
  /\ req[r].at \in {"refused", "other"}
  /\ req' = [req EXCEPT ![r] = Idle]
  /\ IF req[r].at = "refused" THEN Learn(req[r].model)
     ELSE UNCHANGED <<off, supports, watch, task>>
  /\ UNCHANGED <<account, served, backend, client, engine>>

(***************************************************************************)
(* The task that asks again                                                *)
(***************************************************************************)
Become(t, at, todo, m) ==
  task' = [task EXCEPT ![t] = [at |-> at, todo |-> todo, model |-> m]]

\* Fault: one round and no more.
EndRoundAlways(t, left) ==
  /\ off' = left
  /\ task' = [task EXCEPT ![t] = NoWork]
  /\ UNCHANGED client

\* `while self._tools_refused`: sleep again, or end.
EndRound(t, left) ==
  /\ off' = left
  /\ IF left = {} THEN task' = [task EXCEPT ![t] = NoWork]
     ELSE Become(t, "sleeping", {}, NoModel)
  /\ UNCHANGED client

Unserved(models) == IF account THEN models \ served ELSE {}

\* The loop of _ask_tools_once from here to its next await, with `left` off:
\* what is no longer served is dropped on the way to the next question. The
\* order of the dict is left open.
Continue(t, todo, left) ==
  \/ \E m \in todo \ Unserved(todo), dropped \in SUBSET Unserved(todo) :
       /\ off' = left \ dropped
       /\ Become(t, "asking", todo \ (dropped \cup {m}), m)
       /\ client' = TRUE
  \/ /\ todo = Unserved(todo)
     /\ EndRound(t, left \ todo)

\* The sleep is over: list(self._tools_refused.items()) is what this round asks.
Wake(t) ==
  /\ task[t].at = "sleeping"
  /\ Continue(t, off, off)
  /\ UNCHANGED <<requests, supports, watch, engine>>

\* External: the backend decides the one-token question.
BackendAnswersQuestion(t) ==
  /\ task[t].at = "asking"
  /\ task' = [task EXCEPT ![t].at = CASE backend = "takes" -> "yes"
                                      [] backend = "refuses" -> "no"
                                      [] OTHER -> "unknown"]
  /\ UNCHANGED <<requests, off, supports, watch, client, engine>>

\* Fault: whatever is not a no clears.
LeftUnlessRefused(m, answer) == IF answer # "no" THEN off \ {m} ELSE off

\* The models still off when the question about m came to `answer`.
LeftAfter(m, answer) == IF answer = "yes" THEN off \ {m} ELSE off

\* _tools_answered returns; True clears, False and None keep.
ReadQuestion(t) ==
  /\ task[t].at \in {"yes", "no", "unknown"}
  /\ LET left == LeftAfter(task[t].model, task[t].at)
     IN  /\ supports' = IF account \/ left = off THEN supports ELSE TRUE
         /\ Continue(t, task[t].todo, left)
  /\ UNCHANGED <<requests, watch, engine>>

\* A surprise ends the round and not the task.
Surprise(t) ==
  /\ task[t].at \in {"yes", "no", "unknown"}
  /\ EndRound(t, off)
  /\ UNCHANGED <<requests, supports, watch, engine>>

\* The task is cancelled, awaited, and only then the client is closed.
CloseBegins ==
  /\ engine = "open" /\ \A r \in Requests : req[r].at = "idle"
  /\ watch' = NoTask
  /\ IF watch # NoTask /\ Live(watch)
     THEN /\ Become(watch, "cancelled", {}, NoModel)
          /\ engine' = "closing" /\ UNCHANGED client
     ELSE /\ engine' = "closed" /\ client' = FALSE /\ UNCHANGED task
  /\ UNCHANGED <<requests, off, supports>>

TaskCancelled(t) ==
  /\ task[t].at = "cancelled"
  /\ task' = [task EXCEPT ![t] = NoWork]
  /\ UNCHANGED <<requests, off, supports, watch, client, engine>>

CloseEnds ==
  /\ engine = "closing" /\ \A t \in Tasks : task[t].at # "cancelled"
  /\ engine' = "closed" /\ client' = FALSE
  /\ UNCHANGED <<requests, off, supports, watch, task>>

TaskNext(t) ==
  Wake(t) \/ BackendAnswersQuestion(t) \/ ReadQuestion(t) \/ TaskCancelled(t)

Next ==
  \/ BackendRestarts \/ CatalogueMoves
  \/ \E r \in Requests, m \in Models : Send(r, m)
  \/ \E r \in Requests : BackendDecides(r) \/ ReadAnswer(r)
  \/ \E t \in Tasks : TaskNext(t) \/ Surprise(t)
  \/ CloseBegins \/ CloseEnds

(***************************************************************************)
(* Timers fire, the event loop runs what is due, and every request to the  *)
(* backend is answered or times out.                                       *)
(***************************************************************************)
Fairness ==
  /\ \A r \in Requests : WF_vars(BackendDecides(r)) /\ WF_vars(ReadAnswer(r))
  /\ \A t \in Tasks : WF_vars(TaskNext(t)) /\ SF_vars(ReadQuestion(t))
  /\ WF_vars(CloseEnds)

Spec == Init /\ [][Next]_vars /\ Fairness

-----------------------------------------------------------------------------
(***************************************************************************)
(* Properties                                                              *)
(***************************************************************************)
\* "A learned no [must not] outlive its cause" (_ask_tools_again): while a model is
\* off somebody is due to ask, one task at most (_watch_tools); a single-model driver
\* reports tools exactly while none is off, though the two records are changed in
\* different functions; and nobody asks the backend of a closed engine or builds its
\* client again (aclose, openai_compat_http.py, 1064-1075).
SomebodyAsks ==
  /\ off # {} /\ engine = "open" => \E t \in Tasks : Live(t)
  /\ Cardinality({t \in Tasks : Live(t)}) <= 1
  /\ ~account => (supports <=> off = {})
  /\ engine = "closed" => ~client /\ \A t \in Tasks : ~Live(t)

\* A model's tools come back only on the answer to a question about that model,
\* or go out of the books because it is no longer served.
OnlyAnAnswerClears ==
  [][ \A m \in off \ off' :
        \/ m \in Unserved(Models)
        \/ \E t \in Tasks : task[t].at = "yes" /\ task[t].model = m
    ]_vars

\* A backend fixed for good gets its tools back without a driver restart.
ToolsComeBack ==
  <>[](backend = "takes" /\ engine = "open") => <>[](off = {})
============================================================================
