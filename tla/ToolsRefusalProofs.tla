-------------------------- MODULE ToolsRefusalProofs --------------------------
(***************************************************************************)
(* Tools learned off, for any models, requests and tasks: somebody is due  *)
(* to ask for as long as something is off, it is one task, and only a yes  *)
(* about a model, or its leaving the list, takes it out of the books.      *)
(***************************************************************************)
EXTENDS ToolsRefusal, FiniteSetTheorems, TLAPS

(* Whoever is asking is the task _tools_watch names, and while something   *)
(* is off somebody is.                                                     *)
TheWatch ==
  /\ \A t \in Tasks : Live(t) => t = watch
  /\ engine = "open" /\ off # {} => watch \in Tasks /\ Live(watch)

(* A single-model driver learns of one model, and says so.                 *)
OneModel ==
  ~account =>
    /\ off \subseteq {OnlyModel} /\ (supports <=> off = {})
    /\ \A r \in Requests : req[r].at # "idle" => req[r].model = OnlyModel

(* A request is of a model; aclose begins with none in flight, and takes   *)
(* the watch away before it awaits anything.                               *)
Leaving ==
  /\ \A r \in Requests : req[r].at # "idle" => req[r].model \in Models
  /\ engine # "open" => watch = NoTask /\ \A r \in Requests : req[r].at = "idle"
  /\ engine = "closed" => ~client

IInv == TypeOK /\ TheWatch /\ OneModel /\ Leaving

LEMMA InitIInv == Init => IInv
<1> SUFFICES ASSUME Init PROVE IInv
  OBVIOUS
<1>1. served \in SUBSET Models
  BY ToolsAssumptions DEF Init
<1>2. /\ req \in [Requests -> [at: {"idle", "sent", "refused", "other"}, model: Models \cup {NoModel}]]
      /\ \A r \in Requests : req[r].at = "idle"
  BY DEF Init, Idle
<1>3. /\ task \in [Tasks ->
           [at: {"none", "sleeping", "asking", "yes", "no", "unknown", "cancelled"},
            todo: SUBSET Models, model: Models \cup {NoModel}]]
      /\ \A t \in Tasks : ~Live(t)
  BY DEF Init, NoWork, Live
<1>4. TypeOK
  BY <1>1, <1>2, <1>3 DEF Init, TypeOK
<1> QED
  BY <1>2, <1>3, <1>4 DEF Init, IInv, TheWatch, OneModel, Leaving

(* What an asking task can be, once it asked or rested.                    *)
Work == [at : {"none", "sleeping", "asking"}, todo : SUBSET Models, model : Models \cup {NoModel}]

(* What a task does next leaves it asking if something is off, and takes   *)
(* out of the books what is no longer served and nothing else.             *)
LEMMA ContinueKeeps ==
  ASSUME TypeOK, NEW t \in Tasks, NEW todo \in SUBSET Models, NEW left \in SUBSET off,
         Continue(t, todo, left)
  PROVE  /\ off' \subseteq left /\ left \ off' \subseteq Unserved(Models)
         /\ client' \in BOOLEAN
         /\ \E work \in Work : /\ task' = [task EXCEPT ![t] = work]
                               /\ off' # {} => work.at # "none"
<1>1. CASE \E m \in todo \ Unserved(todo), dropped \in SUBSET Unserved(todo) :
             /\ off' = left \ dropped
             /\ Become(t, "asking", todo \ (dropped \cup {m}), m)
             /\ client' = TRUE
  <2>1. PICK m \in todo \ Unserved(todo), dropped \in SUBSET Unserved(todo) :
               /\ off' = left \ dropped
               /\ Become(t, "asking", todo \ (dropped \cup {m}), m)
               /\ client' = TRUE
    BY <1>1
  <2> DEFINE work == [at |-> "asking", todo |-> todo \ (dropped \cup {m}), model |-> m]
  <2>2. work \in Work /\ task' = [task EXCEPT ![t] = work] /\ work.at # "none"
    BY <2>1 DEF Become, Work
  <2> QED
    BY <2>1, <2>2 DEF Unserved
<1>2. CASE todo = Unserved(todo) /\ EndRound(t, left \ todo)
  <2> DEFINE rest == [at |-> "sleeping", todo |-> {}, model |-> NoModel]
  <2>1. NoWork \in Work /\ rest \in Work /\ rest.at # "none"
    BY DEF NoWork, Work
  <2>2. off' = left \ todo /\ UNCHANGED client
        /\ IF left \ todo = {} THEN task' = [task EXCEPT ![t] = NoWork]
           ELSE task' = [task EXCEPT ![t] = rest]
    BY <1>2 DEF EndRound, Become
  <2> QED
    BY <1>2, <2>1, <2>2 DEF Unserved, TypeOK
<1> QED
  BY <1>1, <1>2 DEF Continue

(* A task that works is the watch, and the engine is open.                 *)
LEMMA WhoWorks ==
  ASSUME IInv, NEW t \in Tasks, Live(t)
  PROVE  t = watch /\ engine = "open"
BY ToolsAssumptions DEF IInv, TypeOK, TheWatch, Leaving

(* A task that goes on with something in the books keeps the invariant.    *)
LEMMA GoingOnKeeps ==
  ASSUME IInv, NEW t \in Tasks, Live(t), NEW work \in Work, task' = [task EXCEPT ![t] = work],
         off' \subseteq off, off' # {} => work.at # "none",
         supports' \in BOOLEAN, ~account => (supports' <=> off' = {}),
         client' \in BOOLEAN, UNCHANGED <<requests, watch, engine>>
  PROVE  IInv'
<1> USE DEF IInv
<1>1. t = watch /\ engine = "open"
  BY WhoWorks
<1>2. TypeOK'
  BY DEF TypeOK, requests, Work
<1>3. TheWatch'
  <2>1. \A u \in Tasks : u # t => (Live(u)' <=> Live(u))
    BY DEF Live, TypeOK
  <2>2. off' # {} => Live(t)'
    BY DEF Live, TypeOK, Work
  <2> QED
    BY <1>1, <2>1, <2>2 DEF TheWatch
<1>4. OneModel'
  BY DEF OneModel, requests
<1>5. Leaving'
  BY <1>1 DEF Leaving, requests
<1> QED
  BY <1>2, <1>3, <1>4, <1>5

LEMMA WakeKeeps == ASSUME IInv, NEW t \in Tasks, Wake(t) PROVE IInv'
<1>1. TypeOK /\ Live(t) /\ off \in SUBSET Models /\ off \in SUBSET off
  BY DEF Wake, Live, IInv, TypeOK
<1>2. /\ off' \subseteq off /\ off \ off' \subseteq Unserved(Models) /\ client' \in BOOLEAN
      /\ \E work \in Work : task' = [task EXCEPT ![t] = work] /\ (off' # {} => work.at # "none")
  BY <1>1, ContinueKeeps DEF Wake
<1>3. ~account => (supports' <=> off' = {})
  BY <1>2 DEF Wake, Unserved, IInv, OneModel
<1>4. supports' \in BOOLEAN /\ UNCHANGED <<requests, watch, engine>>
  BY DEF Wake, IInv, TypeOK
<1> QED
  BY <1>1, <1>2, <1>3, <1>4, GoingOnKeeps

LEMMA ReadQuestionKeeps == ASSUME IInv, NEW t \in Tasks, ReadQuestion(t) PROVE IInv'
<1> DEFINE left == LeftAfter(task[t].model, task[t].at)
<1>1. TypeOK /\ Live(t) /\ task[t].todo \in SUBSET Models /\ left \in SUBSET off
  BY DEF ReadQuestion, Live, IInv, TypeOK, LeftAfter
<1>2. Continue(t, task[t].todo, left)
  BY DEF ReadQuestion
<1>3. /\ off' \subseteq left /\ left \ off' \subseteq Unserved(Models) /\ client' \in BOOLEAN
      /\ \E work \in Work : task' = [task EXCEPT ![t] = work] /\ (off' # {} => work.at # "none")
  BY <1>1, <1>2, ContinueKeeps
<1>4. supports' \in BOOLEAN /\ UNCHANGED <<requests, watch, engine>>
  BY DEF ReadQuestion, IInv, TypeOK
<1>5. ASSUME ~account PROVE supports' <=> off' = {}
  <2>1. off' = left /\ off \subseteq {OnlyModel} /\ (supports <=> off = {})
    BY <1>3, <1>5 DEF Unserved, IInv, OneModel
  <2>2. supports' = IF left = off THEN supports ELSE TRUE
    BY <1>5 DEF ReadQuestion
  <2>3. left # off => left = {}
    BY <1>1, <2>1
  <2> QED
    BY <2>1, <2>2, <2>3
<1> HIDE DEF left
<1> QED
  BY <1>1, <1>3, <1>4, <1>5, GoingOnKeeps

LEMMA SurpriseKeeps == ASSUME IInv, NEW t \in Tasks, Surprise(t) PROVE IInv'
<1> DEFINE rest == [at |-> "sleeping", todo |-> {}, model |-> NoModel]
<1>1. NoWork \in Work /\ rest \in Work /\ rest.at # "none"
  BY DEF NoWork, Work
<1>2. Live(t) /\ off' = off
      /\ IF off = {} THEN task' = [task EXCEPT ![t] = NoWork]
         ELSE task' = [task EXCEPT ![t] = rest]
  BY DEF Surprise, EndRound, Become, Live
<1>3. \E work \in Work : task' = [task EXCEPT ![t] = work] /\ (off' # {} => work.at # "none")
  BY <1>1, <1>2
<1>4. /\ supports' \in BOOLEAN /\ client' \in BOOLEAN /\ UNCHANGED <<requests, watch, engine>>
      /\ ~account => (supports' <=> off' = {})
  BY DEF Surprise, EndRound, IInv, TypeOK, OneModel
<1> QED
  BY <1>2, <1>3, <1>4, GoingOnKeeps

(* The backend answers the question a task asked: the task is live still.  *)
LEMMA AnswersKeeps == ASSUME IInv, NEW t \in Tasks, BackendAnswersQuestion(t) PROVE IInv'
<1> USE DEF IInv
<1>1. PICK at \in {"yes", "no", "unknown"} : task' = [task EXCEPT ![t].at = at]
  BY DEF BackendAnswersQuestion
<1>2. UNCHANGED <<requests, off, supports, watch, client, engine>> /\ task[t].at = "asking"
  BY DEF BackendAnswersQuestion
<1>3. TypeOK'
  BY <1>1, <1>2 DEF TypeOK, requests
<1>4. \A u \in Tasks : Live(u)' <=> Live(u)
  BY <1>1, <1>2 DEF Live, TypeOK
<1> QED
  BY <1>2, <1>3, <1>4 DEF TheWatch, OneModel, Leaving, requests

LEMMA CancelledKeeps == ASSUME IInv, NEW t \in Tasks, TaskCancelled(t) PROVE IInv'
<1> USE DEF IInv
<1>1. /\ task' = [task EXCEPT ![t] = NoWork] /\ task[t].at = "cancelled"
      /\ UNCHANGED <<requests, off, supports, watch, client, engine>>
  BY DEF TaskCancelled
<1>2. TypeOK'
  BY <1>1 DEF TypeOK, requests, NoWork
<1>3. \A u \in Tasks : Live(u)' <=> Live(u)
  BY <1>1 DEF Live, TypeOK, NoWork
<1> QED
  BY <1>1, <1>2, <1>3 DEF TheWatch, OneModel, Leaving, requests

(* A refusal is learned by a request, so before aclose.                    *)
LEMMA ReadAnswerKeeps == ASSUME IInv, NEW r \in Requests, ReadAnswer(r) PROVE IInv'
<1> USE DEF IInv
<1> DEFINE m == req[r].model
<1>1. /\ engine = "open" /\ m \in Models /\ (~account => m = OnlyModel)
      /\ req' = [req EXCEPT ![r] = Idle] /\ UNCHANGED <<account, served, backend, client, engine>>
  BY DEF ReadAnswer, TypeOK, Leaving, OneModel
<1>2. /\ req' \in [Requests -> [at: {"idle", "sent", "refused", "other"}, model: Models \cup {NoModel}]]
      /\ \A q \in Requests : req'[q].at # "idle" => req'[q] = req[q]
  BY <1>1 DEF TypeOK, Idle
<1>3. CASE UNCHANGED <<off, supports, watch, task>>
  <2>1. TypeOK'
    BY <1>1, <1>2, <1>3 DEF TypeOK
  <2>2. TheWatch'
    BY <1>1, <1>3 DEF TheWatch, Live
  <2> QED
    BY <1>1, <1>2, <1>3, <2>1, <2>2 DEF OneModel, Leaving
<1>4. CASE m \notin off /\ off' = off \cup {m} /\ supports' = (supports /\ account) /\ StartWatch
  <2>1. watch' \in Tasks /\ Live(watch)' /\ (\A u \in Tasks : Live(u)' => u = watch')
        /\ task' \in [Tasks ->
             [at: {"none", "sleeping", "asking", "yes", "no", "unknown", "cancelled"},
              todo: SUBSET Models, model: Models \cup {NoModel}]]
    <3>1. CASE watch # NoTask /\ Live(watch)
      BY <1>4, <3>1 DEF StartWatch, TypeOK, TheWatch, Live
    <3>2. CASE ~(watch # NoTask /\ Live(watch))
      <4>1. PICK t \in Tasks : /\ watch' = t
                               /\ task' = [task EXCEPT ![t] = [NoWork EXCEPT !.at = "sleeping"]]
        BY <1>4, <3>2 DEF StartWatch
      <4>2. \A u \in Tasks : ~Live(u)
        BY <3>2, ToolsAssumptions DEF TheWatch
      <4> QED
        BY <4>1, <4>2 DEF TypeOK, Live, NoWork
    <3> QED
      BY <3>1, <3>2
  <2>2. TypeOK'
    BY <1>1, <1>2, <1>4, <2>1 DEF TypeOK
  <2>3. TheWatch'
    BY <2>1 DEF TheWatch
  <2>4. OneModel'
    BY <1>1, <1>2, <1>4 DEF OneModel, TypeOK
  <2>5. Leaving'
    BY <1>1, <1>2 DEF Leaving
  <2> QED
    BY <2>2, <2>3, <2>4, <2>5
<1> QED
  BY <1>3, <1>4 DEF ReadAnswer, Learn

LEMMA CloseKeeps == ASSUME IInv, CloseBegins \/ CloseEnds PROVE IInv'
<1> USE DEF IInv
<1>1. CASE CloseBegins
  <2>1. /\ engine = "open" /\ \A r \in Requests : req[r].at = "idle"
        /\ watch' = NoTask /\ engine' \in {"closing", "closed"}
        /\ client' \in BOOLEAN /\ (engine' = "closed" => ~client')
        /\ UNCHANGED <<requests, off, supports>>
    BY <1>1 DEF CloseBegins, TypeOK
  <2>2. /\ \A u \in Tasks : ~Live(u)'
        /\ task' \in [Tasks ->
             [at: {"none", "sleeping", "asking", "yes", "no", "unknown", "cancelled"},
              todo: SUBSET Models, model: Models \cup {NoModel}]]
    <3>1. CASE watch # NoTask /\ Live(watch)
      <4>1. watch \in Tasks
            /\ task' = [task EXCEPT ![watch] = [at |-> "cancelled", todo |-> {}, model |-> NoModel]]
        BY <1>1, <3>1 DEF CloseBegins, Become, TypeOK
      <4> QED
        BY <4>1 DEF TypeOK, TheWatch, Live
    <3>2. CASE ~(watch # NoTask /\ Live(watch))
      BY <1>1, <3>2, ToolsAssumptions DEF CloseBegins, TypeOK, TheWatch, Live
    <3> QED
      BY <3>1, <3>2
  <2>3. TypeOK'
    BY <2>1, <2>2 DEF TypeOK, requests
  <2> QED
    BY <2>1, <2>2, <2>3 DEF TheWatch, OneModel, Leaving, requests
<1>2. CASE CloseEnds
  <2>1. /\ engine = "closing" /\ engine' = "closed" /\ client' = FALSE
        /\ UNCHANGED <<requests, off, supports, watch, task>>
    BY <1>2 DEF CloseEnds
  <2>2. TypeOK'
    BY <2>1 DEF TypeOK, requests
  <2> QED
    BY <2>1, <2>2 DEF TheWatch, OneModel, Leaving, Live, requests
<1> QED
  BY <1>1, <1>2

LEMMA OutsideKeeps ==
  ASSUME IInv, \/ BackendRestarts \/ CatalogueMoves
               \/ \E r \in Requests : BackendDecides(r) \/ \E m \in Models : Send(r, m)
  PROVE  IInv'
<1> USE DEF IInv
<1>1. CASE BackendRestarts \/ CatalogueMoves
  <2>1. UNCHANGED <<account, req, off, supports, watch, task, client, engine>>
        /\ backend' \in {"takes", "refuses", "down"} /\ served' \in SUBSET Models
    BY <1>1 DEF BackendRestarts, CatalogueMoves, TypeOK
  <2> QED
    BY <2>1 DEF TypeOK, TheWatch, OneModel, Leaving, Live
<1>2. ASSUME NEW r \in Requests, BackendDecides(r) PROVE IInv'
  <2>1. PICK at \in {"refused", "other"} : req' = [req EXCEPT ![r].at = at]
    BY <1>2 DEF BackendDecides
  <2>2. /\ req[r].at = "sent"
        /\ UNCHANGED <<account, served, backend, off, supports, watch, task, client, engine>>
    BY <1>2 DEF BackendDecides
  <2>3. TypeOK'
    BY <2>1, <2>2 DEF TypeOK
  <2> QED
    BY <2>1, <2>2, <2>3 DEF TypeOK, TheWatch, OneModel, Leaving, Live
<1>3. ASSUME NEW r \in Requests, NEW m \in Models, Send(r, m) PROVE IInv'
  <2>1. /\ engine = "open" /\ (~account => m = OnlyModel) /\ client' = TRUE
        /\ req' = [req EXCEPT ![r] = [at |-> "sent", model |-> m]]
        /\ UNCHANGED <<account, served, backend, off, supports, watch, task, engine>>
    BY <1>3 DEF Send, Door
  <2>2. TypeOK'
    BY <2>1 DEF TypeOK
  <2> QED
    BY <2>1, <2>2 DEF TypeOK, TheWatch, OneModel, Leaving, Live
<1> QED
  BY <1>1, <1>2, <1>3

LEMMA StepIInv == IInv /\ [Next]_vars => IInv'
<1> SUFFICES ASSUME IInv, [Next]_vars PROVE IInv'
  OBVIOUS
<1>1. CASE UNCHANGED vars
  BY <1>1 DEF vars, requests, IInv, TypeOK, TheWatch, OneModel, Leaving, Live
<1>2. CASE Next
  BY <1>2, WakeKeeps, ReadQuestionKeeps, SurpriseKeeps, AnswersKeeps, CancelledKeeps,
     ReadAnswerKeeps, CloseKeeps, OutsideKeeps DEF Next, TaskNext
<1> QED
  BY <1>1, <1>2

LEMMA IInvAsks == IInv => SomebodyAsks
<1> SUFFICES ASSUME IInv PROVE SomebodyAsks
  OBVIOUS
<1> USE DEF IInv
<1> DEFINE live == {t \in Tasks : Live(t)}
<1>1. IsFiniteSet({watch}) /\ Cardinality({watch}) = 1
  BY FS_Singleton
<1>2. live \subseteq {watch}
  BY DEF TheWatch
<1>3. Cardinality(live) <= 1
  BY <1>1, <1>2, FS_Subset
<1>4. engine = "closed" => ~client /\ \A t \in Tasks : ~Live(t)
  BY WhoWorks DEF Leaving
<1>5. off # {} /\ engine = "open" => \E t \in Tasks : Live(t)
  BY DEF TheWatch
<1> QED
  BY <1>3, <1>4, <1>5 DEF SomebodyAsks, OneModel

(* What a step takes out of the books was asked about, or is not served.   *)
LEMMA StepClears ==
  IInv /\ [Next]_vars =>
    [ \A m \in off \ off' : \/ m \in Unserved(Models)
                            \/ \E t \in Tasks : task[t].at = "yes" /\ task[t].model = m ]_vars
<1> SUFFICES ASSUME IInv, [Next]_vars, NEW m \in off, m \notin off'
             PROVE  \/ m \in Unserved(Models)
                    \/ \E t \in Tasks : task[t].at = "yes" /\ task[t].model = m
  OBVIOUS
<1>1. PICK t \in Tasks : Wake(t) \/ ReadQuestion(t)
  BY DEF Next, TaskNext, vars, requests, BackendRestarts, CatalogueMoves, Send, BackendDecides,
         ReadAnswer, Learn, BackendAnswersQuestion, TaskCancelled, Surprise, EndRound,
         CloseBegins, CloseEnds
<1>2. CASE Wake(t)
  <2>1. TypeOK /\ off \in SUBSET Models /\ off \in SUBSET off
    BY DEF IInv, TypeOK
  <2>2. off \ off' \subseteq Unserved(Models)
    BY <1>2, <2>1, ContinueKeeps DEF Wake
  <2> QED
    BY <2>2
<1>3. CASE ReadQuestion(t)
  <2> DEFINE left == LeftAfter(task[t].model, task[t].at)
  <2>1. TypeOK /\ task[t].todo \in SUBSET Models /\ left \in SUBSET off
    BY DEF IInv, TypeOK, LeftAfter
  <2>2. Continue(t, task[t].todo, left)
    BY <1>3 DEF ReadQuestion
  <2>3. left \ off' \subseteq Unserved(Models)
    BY <2>1, <2>2, ContinueKeeps
  <2>4. m \notin left => task[t].at = "yes" /\ task[t].model = m
    BY DEF LeftAfter
  <2> QED
    BY <2>3, <2>4
<1> QED
  BY <1>1, <1>2, <1>3

\* While a model's tools are off somebody is due to ask about them, and one task at
\* most; a single-model driver says so, and a closed engine asks nobody
\* (_learn_tools_refused, _watch_tools, _ask_tools_again, aclose).
THEOREM Asked == Spec => []SomebodyAsks
BY InitIInv, StepIInv, IInvAsks, PTL DEF Spec

\* The types of the engine, its watch and its requests.
THEOREM TypeCorrect == Spec => []TypeOK
<1>1. IInv => TypeOK
  BY DEF IInv
<1> QED
  BY InitIInv, StepIInv, <1>1, PTL DEF Spec

\* Only a yes about the model, or its leaving the list, clears it (_ask_tools_once).
THEOREM Cleared == Spec => OnlyAnAnswerClears
BY InitIInv, StepIInv, StepClears, PTL DEF Spec, OnlyAnAnswerClears
=============================================================================
