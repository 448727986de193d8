--------------------------- MODULE GenerateProofs ---------------------------
(***************************************************************************)
(* One request: the route it is served under, and what becomes of its      *)
(* settings, each of them a part.                                          *)
(*                                                                         *)
(* The safety of a work route.  None of its properties is inductive: each  *)
(* speaks of the end, and what makes it true is what is known of the task, *)
(* the watcher and the backend at every await before it.  Places says      *)
(* that; Upstream ties the backend to the task.                            *)
(***************************************************************************)
EXTENDS GenerateRoute, ChatSettings, TLAPS

Safety == Init /\ [][Next]_vars

\* The backend works while the task runs or cleans up, and while a stream whose
\* first chunk came is open.
Upstream ==
  /\ task \in {"none", "due"} => work = "idle"
  /\ task \in {"running", "cleanup"} => work = "busy"
  /\ task \in {"empty", "declined", "failed", "crashed"} => work = "released"
  /\ task = "cancelled" => work # "busy"
  /\ task = "ok" => work \in {"busy", "released"}
  /\ task = "ok" /\ mode \notin Streams => work = "released"
  /\ task = "empty" => mode \in Streams
  /\ task = "declined" => mode \in Declining

Finished == {"ok", "empty", "declined", "failed", "crashed"}
CallerLeft == client = "gone" /\ mode # "decide"

\* What is known at each await of the handler.
Places ==
  /\ handler \in {"gates", "probing"} =>
       task = "none" /\ watcher = "none" /\ reply = <<"none", "none">>
  /\ handler = "gates" => ~torn
  /\ handler = "probing" => ~torn /\ mode # "decide"
  /\ handler = "serving" =>
       /\ mode # "decide" /\ ~torn /\ reply = <<"none", "none">>
       /\ task \in {"due", "running"} \cup Finished
       /\ watcher = "saw" => client = "gone"
  /\ handler = "unwatching" =>
       /\ mode # "decide" /\ reply = <<"none", "none">> /\ task # "none"
       /\ ~torn /\ "task" \in done => task \in Finished
       /\ ~torn /\ "task" \notin done =>
            client = "gone" /\ task \in {"due", "running"} \cup Finished
  /\ handler = "reaping" =>
       /\ CallerLeft /\ ~torn /\ reply = <<"none", "none">>
       /\ task \in {"cleanup", "cancelled"} \cup Finished
  /\ handler = "direct" =>
       /\ mode = "decide" /\ reply = <<"none", "none">>
       /\ task \notin {"none", "due"}
  /\ handler = "streaming" =>
       /\ mode \in Streams /\ ~torn /\ reply = <<"200", "none">>
       /\ task \in {"ok", "empty"}
  /\ handler = "closing" =>
       /\ mode \in Streams
       /\ \/ status = "200" /\ task \in {"ok", "empty"}
          \/ status = "none" /\ CallerLeft /\ task \in {"cancelled"} \cup Finished
  /\ handler = "ended" /\ ~torn => task \in {"none", "cancelled"} \cup Finished

IInv ==
  /\ TypeOK
  /\ Upstream
  /\ Places
  /\ AnsweredMeansReleased
  /\ CancelledForCause
  /\ ResultReachesCaller

-----------------------------------------------------------------------------
\* A decision is a whole answer, and its engine has no refusal of its own; nothing is asked first.
LEMMA DecideIsPlain == "decide" \notin Streams \cup Declining \cup Probing
BY DEF Streams, Declining, Probing, Routes, DecideRoute, Route

\* Every step keeps every variable in its range.
LEMMA TypeKept == ASSUME TypeOK, [Next]_vars PROVE TypeOK'
<1>1. CASE Refuse
  BY <1>1 DEF TypeOK, reply, HandlerStates, Refuse, Respond
<1>2. CASE Serve
  BY <1>2 DEF TypeOK, reply, HandlerStates, Serve
<1>3. CASE Decide
  BY <1>3 DEF TypeOK, reply, HandlerStates, Decide
<1>4. CASE TaskBegins
  BY <1>4 DEF TypeOK, reply, HandlerStates, TaskBegins
<1>5. CASE TaskAnswers
  BY <1>5 DEF TypeOK, reply, HandlerStates, TaskAnswers
<1>6. CASE TaskIsEmpty
  BY <1>6 DEF TypeOK, reply, HandlerStates, TaskIsEmpty
<1>7. CASE TaskRaises
  BY <1>7 DEF TypeOK, reply, HandlerStates, TaskRaises
<1>8. CASE TaskCleansUp
  BY <1>8 DEF TypeOK, reply, HandlerStates, TaskCleansUp, Freed
<1>9. CASE ClientLeaves
  BY <1>9 DEF TypeOK, reply, ClientLeaves
<1>10. CASE WatcherSees
  BY <1>10 DEF TypeOK, reply, HandlerStates, WatcherSees
<1>11. CASE WatcherStops
  BY <1>11 DEF TypeOK, reply, WatcherStops
<1>12. CASE WaitReturns
  BY <1>12 DEF TypeOK, reply, HandlerStates, WaitReturns, StopWatcher, TaskDone
<1>13. CASE TaskWins
  BY <1>13 DEF TypeOK, reply, HandlerStates, TaskWins, Respond, WatcherDone
<1>14. CASE WatcherWins
  BY <1>14 DEF TypeOK, reply, HandlerStates, WatcherWins, CancelTask, WatcherDone
<1>15. CASE Reap
  BY <1>15 DEF TypeOK, reply, HandlerStates, Reap, Respond, TaskDone
<1>16. CASE Close
  BY <1>16 DEF TypeOK, reply, HandlerStates, Close, Freed
<1>17. CASE DecideAnswers
  BY <1>17 DEF TypeOK, reply, HandlerStates, DecideAnswers, Respond, TaskDone
<1>18. CASE StreamAbandoned
  BY <1>18 DEF TypeOK, reply, HandlerStates, StreamAbandoned
<1>19. CASE TornDown
  BY <1>19 DEF TypeOK, reply, HandlerStates, TornDown, WatcherDone
<1>20. CASE StreamEnds
  BY <1>20 DEF TypeOK, reply, HandlerStates, StreamEnds, Freed
<1>21. CASE StreamRaises
  BY <1>21 DEF TypeOK, reply, HandlerStates, StreamRaises
<1>22. CASE Teardown
  BY <1>22 DEF TypeOK, reply, HandlerStates, Teardown, CancelTask, StopWatcher
<1>23. CASE Probe
  BY <1>23 DEF TypeOK, reply, HandlerStates, Probe
<1>24. CASE UNCHANGED vars
  BY <1>24 DEF TypeOK, reply, vars
<1> QED
  BY <1>1, <1>2, <1>3, <1>4, <1>5, <1>6, <1>7, <1>8, <1>9, <1>10, <1>11, <1>12, <1>13, <1>14, <1>15, <1>16, <1>17, <1>18, <1>19, <1>20, <1>21, <1>22, <1>23, <1>24
  DEF Next, EngineNext, HandlerNext, Over

\* Every step keeps the backend tied to the task: finished or cancelled calls have
\* run the engine's cleanup.
LEMMA UpstreamKept ==
  ASSUME TypeOK, Upstream, Places, [Next]_vars PROVE Upstream'
<1>1. CASE Refuse
  BY <1>1 DEF TypeOK, Upstream, Places, reply, Refuse, Respond
<1>2. CASE Serve
  BY <1>2 DEF TypeOK, Upstream, Places, reply, Serve
<1>3. CASE Decide
  BY <1>3 DEF TypeOK, Upstream, Places, reply, Decide
<1>4. CASE TaskBegins
  BY <1>4 DEF TypeOK, Upstream, Places, reply, TaskBegins
<1>5. CASE TaskAnswers
  BY <1>5 DEF TypeOK, Upstream, Places, reply, TaskAnswers
<1>6. CASE TaskIsEmpty
  BY <1>6 DEF TypeOK, Upstream, Places, reply, TaskIsEmpty
<1>7. CASE TaskRaises
  BY <1>7 DEF TypeOK, Upstream, Places, reply, TaskRaises
<1>8. CASE TaskCleansUp
  BY <1>8 DEF TypeOK, Upstream, Places, reply, TaskCleansUp, Freed
<1>9. CASE ClientLeaves
  BY <1>9 DEF TypeOK, Upstream, Places, reply, ClientLeaves
<1>10. CASE WatcherSees
  BY <1>10 DEF TypeOK, Upstream, Places, reply, WatcherSees
<1>11. CASE WatcherStops
  BY <1>11 DEF TypeOK, Upstream, Places, reply, WatcherStops
<1>12. CASE WaitReturns
  BY <1>12 DEF TypeOK, Upstream, Places, reply, WaitReturns, StopWatcher, TaskDone
<1>13. CASE TaskWins
  BY <1>13 DEF TypeOK, Upstream, Places, reply, TaskWins, Respond, WatcherDone
<1>14. CASE WatcherWins
  BY <1>14 DEF TypeOK, Upstream, Places, reply, WatcherWins, CancelTask, WatcherDone
<1>15. CASE Reap
  BY <1>15 DEF TypeOK, Upstream, Places, reply, Reap, Respond, TaskDone
<1>16. CASE Close
  BY <1>16 DEF TypeOK, Upstream, Places, CallerLeft, Finished, reply, Close, Freed
<1>17. CASE DecideAnswers
  BY <1>17 DEF TypeOK, Upstream, Places, reply, DecideAnswers, Respond, TaskDone
<1>18. CASE StreamAbandoned
  BY <1>18 DEF TypeOK, Upstream, Places, reply, StreamAbandoned
<1>19. CASE TornDown
  BY <1>19 DEF TypeOK, Upstream, Places, reply, TornDown, WatcherDone
<1>20. CASE StreamEnds
  BY <1>20 DEF TypeOK, Upstream, Places, reply, StreamEnds, Freed
<1>21. CASE StreamRaises
  BY <1>21 DEF TypeOK, Upstream, Places, reply, StreamRaises
<1>22. CASE Teardown
  BY <1>22 DEF TypeOK, Upstream, Places, reply, Teardown, CancelTask, StopWatcher
<1>23. CASE Probe
  BY <1>23 DEF TypeOK, Upstream, Places, reply, Probe
<1>24. CASE UNCHANGED vars
  BY <1>24 DEF TypeOK, Upstream, Places, reply, vars
<1> QED
  BY <1>1, <1>2, <1>3, <1>4, <1>5, <1>6, <1>7, <1>8, <1>9, <1>10, <1>11, <1>12, <1>13, <1>14, <1>15, <1>16, <1>17, <1>18, <1>19, <1>20, <1>21, <1>22, <1>23, <1>24
  DEF Next, EngineNext, HandlerNext, Over

\* Every step leaves the handler at an await that knows what Places says of it.
LEMMA PlacesKept == ASSUME IInv, [Next]_vars PROVE Places'
<1>1. CASE Refuse
  BY <1>1 DEF IInv, TypeOK, Upstream, Places, CancelledForCause, CallerLeft, Finished, reply, Refuse, Respond
<1>2. CASE Serve
  BY <1>2 DEF IInv, TypeOK, Upstream, Places, CancelledForCause, CallerLeft, Finished, reply, Serve
<1>3. CASE Decide
  BY <1>3 DEF IInv, TypeOK, Upstream, Places, CancelledForCause, CallerLeft, Finished, reply, Decide
<1>4. CASE TaskBegins
  BY <1>4 DEF IInv, TypeOK, Upstream, Places, CancelledForCause, CallerLeft, Finished, reply, TaskBegins
<1>5. CASE TaskAnswers
  BY <1>5 DEF IInv, TypeOK, Upstream, Places, CancelledForCause, CallerLeft, Finished, reply, TaskAnswers
<1>6. CASE TaskIsEmpty
  BY <1>6 DEF IInv, TypeOK, Upstream, Places, CancelledForCause, CallerLeft, Finished, reply, TaskIsEmpty
<1>7. CASE TaskRaises
  BY <1>7 DEF IInv, TypeOK, Upstream, Places, CancelledForCause, CallerLeft, Finished, reply, TaskRaises
<1>8. CASE TaskCleansUp
  BY <1>8 DEF IInv, TypeOK, Upstream, Places, CancelledForCause, CallerLeft, Finished, reply, TaskCleansUp, Freed
<1>9. CASE ClientLeaves
  BY <1>9 DEF IInv, TypeOK, Upstream, Places, CancelledForCause, CallerLeft, Finished, reply, ClientLeaves
<1>10. CASE WatcherSees
  BY <1>10 DEF IInv, TypeOK, Upstream, Places, CancelledForCause, CallerLeft, Finished, reply, WatcherSees
<1>11. CASE WatcherStops
  BY <1>11 DEF IInv, TypeOK, Upstream, Places, CancelledForCause, CallerLeft, Finished, reply, WatcherStops
<1>12. CASE WaitReturns
  BY <1>12 DEF IInv, TypeOK, Upstream, Places, CancelledForCause, CallerLeft, Finished, reply, WaitReturns, StopWatcher, TaskDone
<1>13. CASE TaskWins
  BY <1>13 DEF IInv, TypeOK, Upstream, Places, CancelledForCause, CallerLeft, Finished, reply, TaskWins, Respond, WatcherDone
<1>14. CASE WatcherWins
  BY <1>14 DEF IInv, TypeOK, Upstream, Places, CancelledForCause, CallerLeft, Finished, reply, WatcherWins, CancelTask, WatcherDone
<1>15. CASE Reap
  BY <1>15 DEF IInv, TypeOK, Upstream, Places, CancelledForCause, CallerLeft, Finished, reply, Reap, Respond, TaskDone
<1>16. CASE Close
  BY <1>16 DEF IInv, TypeOK, Upstream, Places, CancelledForCause, CallerLeft, Finished, reply, Close, Freed
<1>17. CASE DecideAnswers
  BY <1>17 DEF IInv, TypeOK, Upstream, Places, CancelledForCause, CallerLeft, Finished, reply, DecideAnswers, Respond, TaskDone
<1>18. CASE StreamAbandoned
  BY <1>18 DEF IInv, TypeOK, Upstream, Places, CancelledForCause, CallerLeft, Finished, reply, StreamAbandoned
<1>19. CASE TornDown
  BY <1>19 DEF IInv, TypeOK, Upstream, Places, CancelledForCause, CallerLeft, Finished, reply, TornDown, WatcherDone
<1>20. CASE StreamEnds
  BY <1>20 DEF IInv, TypeOK, Upstream, Places, CancelledForCause, CallerLeft, Finished, reply, StreamEnds, Freed
<1>21. CASE StreamRaises
  BY <1>21 DEF IInv, TypeOK, Upstream, Places, CancelledForCause, CallerLeft, Finished, reply, StreamRaises
<1>22. CASE Teardown
  BY <1>22 DEF IInv, TypeOK, Upstream, Places, CancelledForCause, CallerLeft, Finished, reply, Teardown, CancelTask, StopWatcher
<1>23. CASE Probe
  BY <1>23, DecideIsPlain DEF IInv, TypeOK, Upstream, Places, CancelledForCause, CallerLeft, Finished, reply, Probe
<1>24. CASE UNCHANGED vars
  BY <1>24 DEF IInv, TypeOK, Upstream, Places, CancelledForCause, CallerLeft, Finished, reply, vars
<1> QED
  BY <1>1, <1>2, <1>3, <1>4, <1>5, <1>6, <1>7, <1>8, <1>9, <1>10, <1>11, <1>12, <1>13, <1>14, <1>15, <1>16, <1>17, <1>18, <1>19, <1>20, <1>21, <1>22, <1>23, <1>24
  DEF Next, EngineNext, HandlerNext, Over

\* No step cancels a call for nothing.
LEMMA CauseKept == ASSUME IInv, [Next]_vars PROVE CancelledForCause'
<1>1. CASE Refuse
  BY <1>1 DEF IInv, TypeOK, Places, CancelledForCause, CallerLeft, Finished, reply, Refuse, Respond
<1>2. CASE Serve
  BY <1>2 DEF IInv, TypeOK, Places, CancelledForCause, CallerLeft, Finished, reply, Serve
<1>3. CASE Decide
  BY <1>3 DEF IInv, TypeOK, Places, CancelledForCause, CallerLeft, Finished, reply, Decide
<1>4. CASE TaskBegins
  BY <1>4 DEF IInv, TypeOK, Places, CancelledForCause, CallerLeft, Finished, reply, TaskBegins
<1>5. CASE TaskAnswers
  BY <1>5 DEF IInv, TypeOK, Places, CancelledForCause, CallerLeft, Finished, reply, TaskAnswers
<1>6. CASE TaskIsEmpty
  BY <1>6 DEF IInv, TypeOK, Places, CancelledForCause, CallerLeft, Finished, reply, TaskIsEmpty
<1>7. CASE TaskRaises
  BY <1>7 DEF IInv, TypeOK, Places, CancelledForCause, CallerLeft, Finished, reply, TaskRaises
<1>8. CASE TaskCleansUp
  BY <1>8 DEF IInv, TypeOK, Places, CancelledForCause, CallerLeft, Finished, reply, TaskCleansUp, Freed
<1>9. CASE ClientLeaves
  BY <1>9 DEF IInv, TypeOK, Places, CancelledForCause, CallerLeft, Finished, reply, ClientLeaves
<1>10. CASE WatcherSees
  BY <1>10 DEF IInv, TypeOK, Places, CancelledForCause, CallerLeft, Finished, reply, WatcherSees
<1>11. CASE WatcherStops
  BY <1>11 DEF IInv, TypeOK, Places, CancelledForCause, CallerLeft, Finished, reply, WatcherStops
<1>12. CASE WaitReturns
  BY <1>12 DEF IInv, TypeOK, Places, CancelledForCause, CallerLeft, Finished, reply, WaitReturns, StopWatcher, TaskDone
<1>13. CASE TaskWins
  BY <1>13 DEF IInv, TypeOK, Places, CancelledForCause, CallerLeft, Finished, reply, TaskWins, Respond, WatcherDone
<1>14. CASE WatcherWins
  BY <1>14 DEF IInv, TypeOK, Places, CancelledForCause, CallerLeft, Finished, reply, WatcherWins, CancelTask, WatcherDone
<1>15. CASE Reap
  BY <1>15 DEF IInv, TypeOK, Places, CancelledForCause, CallerLeft, Finished, reply, Reap, Respond, TaskDone
<1>16. CASE Close
  BY <1>16 DEF IInv, TypeOK, Places, CancelledForCause, CallerLeft, Finished, reply, Close, Freed
<1>17. CASE DecideAnswers
  BY <1>17 DEF IInv, TypeOK, Places, CancelledForCause, CallerLeft, Finished, reply, DecideAnswers, Respond, TaskDone
<1>18. CASE StreamAbandoned
  BY <1>18 DEF IInv, TypeOK, Places, CancelledForCause, CallerLeft, Finished, reply, StreamAbandoned
<1>19. CASE TornDown
  BY <1>19 DEF IInv, TypeOK, Places, CancelledForCause, CallerLeft, Finished, reply, TornDown, WatcherDone
<1>20. CASE StreamEnds
  BY <1>20 DEF IInv, TypeOK, Places, CancelledForCause, CallerLeft, Finished, reply, StreamEnds, Freed
<1>21. CASE StreamRaises
  BY <1>21 DEF IInv, TypeOK, Places, CancelledForCause, CallerLeft, Finished, reply, StreamRaises
<1>22. CASE Teardown
  BY <1>22 DEF IInv, TypeOK, Places, CancelledForCause, CallerLeft, Finished, reply, Teardown, CancelTask, StopWatcher
<1>23. CASE Probe
  BY <1>23 DEF IInv, TypeOK, Places, CancelledForCause, CallerLeft, Finished, reply, Probe
<1>24. CASE UNCHANGED vars
  BY <1>24 DEF IInv, TypeOK, Places, CancelledForCause, CallerLeft, Finished, reply, vars
<1> QED
  BY <1>1, <1>2, <1>3, <1>4, <1>5, <1>6, <1>7, <1>8, <1>9, <1>10, <1>11, <1>12, <1>13, <1>14, <1>15, <1>16, <1>17, <1>18, <1>19, <1>20, <1>21, <1>22, <1>23, <1>24
  DEF Next, EngineNext, HandlerNext, Over

\* Whichever way a route ends, the backend is released and the caller has the answer.
LEMMA EndKept ==
  ASSUME IInv, [Next]_vars
  PROVE  AnsweredMeansReleased' /\ ResultReachesCaller'
<1>1. CASE Refuse
  BY <1>1 DEF IInv, TypeOK, Upstream, Places, AnsweredMeansReleased, CancelledForCause,
    ResultReachesCaller, CallerLeft, Finished, reply, Refuse, Respond
<1>2. CASE Serve
  BY <1>2 DEF IInv, TypeOK, Upstream, Places, AnsweredMeansReleased, CancelledForCause,
    ResultReachesCaller, CallerLeft, Finished, reply, Serve
<1>3. CASE Decide
  BY <1>3 DEF IInv, TypeOK, Upstream, Places, AnsweredMeansReleased, CancelledForCause,
    ResultReachesCaller, CallerLeft, Finished, reply, Decide
<1>4. CASE TaskBegins
  BY <1>4 DEF IInv, TypeOK, Upstream, Places, AnsweredMeansReleased, CancelledForCause,
    ResultReachesCaller, CallerLeft, Finished, reply, TaskBegins
<1>5. CASE TaskAnswers
  BY <1>5 DEF IInv, TypeOK, Upstream, Places, AnsweredMeansReleased, CancelledForCause,
    ResultReachesCaller, CallerLeft, Finished, reply, TaskAnswers
<1>6. CASE TaskIsEmpty
  BY <1>6 DEF IInv, TypeOK, Upstream, Places, AnsweredMeansReleased, CancelledForCause,
    ResultReachesCaller, CallerLeft, Finished, reply, TaskIsEmpty
<1>7. CASE TaskRaises
  BY <1>7 DEF IInv, TypeOK, Upstream, Places, AnsweredMeansReleased, CancelledForCause,
    ResultReachesCaller, CallerLeft, Finished, reply, TaskRaises
<1>8. CASE TaskCleansUp
  BY <1>8 DEF IInv, TypeOK, Upstream, Places, AnsweredMeansReleased, CancelledForCause,
    ResultReachesCaller, CallerLeft, Finished, reply, TaskCleansUp, Freed
<1>9. CASE ClientLeaves
  BY <1>9 DEF IInv, TypeOK, Upstream, Places, AnsweredMeansReleased, CancelledForCause,
    ResultReachesCaller, CallerLeft, Finished, reply, ClientLeaves
<1>10. CASE WatcherSees
  BY <1>10 DEF IInv, TypeOK, Upstream, Places, AnsweredMeansReleased, CancelledForCause,
    ResultReachesCaller, CallerLeft, Finished, reply, WatcherSees
<1>11. CASE WatcherStops
  BY <1>11 DEF IInv, TypeOK, Upstream, Places, AnsweredMeansReleased, CancelledForCause,
    ResultReachesCaller, CallerLeft, Finished, reply, WatcherStops
<1>12. CASE WaitReturns
  BY <1>12 DEF IInv, TypeOK, Upstream, Places, AnsweredMeansReleased, CancelledForCause,
    ResultReachesCaller, CallerLeft, Finished, reply, WaitReturns
<1>13. CASE TaskWins
  BY <1>13 DEF IInv, TypeOK, Upstream, Places, AnsweredMeansReleased, CancelledForCause,
    ResultReachesCaller, CallerLeft, Finished, reply, TaskWins, Respond, WatcherDone
<1>14. CASE WatcherWins
  BY <1>14 DEF IInv, TypeOK, Upstream, Places, AnsweredMeansReleased, CancelledForCause,
    ResultReachesCaller, CallerLeft, Finished, reply, WatcherWins
<1>15. CASE Reap
  BY <1>15 DEF IInv, TypeOK, Upstream, Places, AnsweredMeansReleased, CancelledForCause,
    ResultReachesCaller, CallerLeft, Finished, reply, Reap, Respond, TaskDone
<1>16. CASE Close
  BY <1>16 DEF IInv, TypeOK, Upstream, Places, AnsweredMeansReleased, CancelledForCause,
    ResultReachesCaller, CallerLeft, Finished, reply, Close, Freed
<1>17. CASE DecideAnswers
  BY <1>17, DecideIsPlain DEF IInv, TypeOK, Upstream, Places, AnsweredMeansReleased, CancelledForCause,
    ResultReachesCaller, CallerLeft, Finished, reply, DecideAnswers, Respond, TaskDone
<1>18. CASE StreamAbandoned
  BY <1>18 DEF IInv, TypeOK, Upstream, Places, AnsweredMeansReleased, CancelledForCause,
    ResultReachesCaller, CallerLeft, Finished, reply, StreamAbandoned
<1>19. CASE TornDown
  BY <1>19 DEF IInv, TypeOK, Upstream, Places, AnsweredMeansReleased, CancelledForCause,
    ResultReachesCaller, CallerLeft, Finished, reply, TornDown
<1>20. CASE StreamEnds
  BY <1>20 DEF IInv, TypeOK, Upstream, Places, AnsweredMeansReleased, CancelledForCause,
    ResultReachesCaller, CallerLeft, Finished, reply, StreamEnds, Freed
<1>21. CASE StreamRaises
  BY <1>21 DEF IInv, TypeOK, Upstream, Places, AnsweredMeansReleased, CancelledForCause,
    ResultReachesCaller, CallerLeft, Finished, reply, StreamRaises
<1>22. CASE Teardown
  BY <1>22 DEF IInv, TypeOK, Upstream, Places, AnsweredMeansReleased, CancelledForCause,
    ResultReachesCaller, CallerLeft, Finished, reply, Teardown
<1>23. CASE Probe
  BY <1>23 DEF IInv, TypeOK, Upstream, Places, AnsweredMeansReleased, CancelledForCause,
    ResultReachesCaller, CallerLeft, Finished, reply, Probe
<1>24. CASE UNCHANGED vars
  BY <1>24 DEF IInv, AnsweredMeansReleased, ResultReachesCaller, vars, reply
<1> QED
  BY <1>1, <1>2, <1>3, <1>4, <1>5, <1>6, <1>7, <1>8, <1>9, <1>10, <1>11, <1>12, <1>13, <1>14, <1>15, <1>16, <1>17, <1>18, <1>19, <1>20, <1>21, <1>22, <1>23, <1>24
  DEF Next, EngineNext, HandlerNext, Over

-----------------------------------------------------------------------------
\* The strengthened invariant, from which the theorems below follow.
THEOREM Invariance == Safety => []IInv
<1>1. Init => IInv
  BY DEF Init, IInv, TypeOK, HandlerStates, Upstream, Places, CallerLeft, Finished, reply,
         AnsweredMeansReleased, CancelledForCause, ResultReachesCaller
<1>2. IInv /\ [Next]_vars => IInv'
  BY TypeKept, UpstreamKept, PlacesKept, CauseKept, EndKept DEF IInv
<1> QED BY <1>1, <1>2, PTL DEF Safety

\* Every reachable state of a request is well typed.
THEOREM TypeCorrect == Safety => []TypeOK
<1>1. IInv => TypeOK
  BY DEF IInv
<1> QED BY <1>1, Invariance, PTL

\* An answered route, a 499 included, has released the backend: the cancelled call
\* was awaited (disconnect.py:108-116), and a stream closed.
THEOREM Released == Safety => []AnsweredMeansReleased
<1>1. IInv => AnsweredMeansReleased
  BY DEF IInv
<1> QED BY <1>1, Invariance, PTL

\* A call is cancelled only for a caller that left or a server that stops.
THEOREM Caused == Safety => []CancelledForCause
<1>1. IInv => CancelledForCause
  BY DEF IInv
<1> QED BY <1>1, Invariance, PTL

\* A caller that stays is told what the call came to, though it may have finished in
\* the same turn as a disconnect (disconnect.py:92-106).
THEOREM Reached == Safety => []ResultReachesCaller
<1>1. IInv => ResultReachesCaller
  BY DEF IInv
<1> QED BY <1>1, Invariance, PTL

\* One status, then frames, and nothing after the last (routes/generate.py:176-194).
THEOREM FramesInOrder == Safety => StatusThenFrames
<1>1. IInv /\ [Next]_vars =>
        [/\ status # "none" => status' = status
         /\ terminal' # terminal => terminal = "none" /\ status = "200" /\ mode \in Streams]_vars
  BY DEF IInv, Places, reply, vars, Next, EngineNext, HandlerNext, Over, Refuse, Probe, Serve, Decide,
    TaskBegins, TaskAnswers, TaskIsEmpty, TaskRaises, TaskCleansUp, ClientLeaves,
    WatcherSees, WatcherStops, WaitReturns, TaskWins, WatcherWins, Reap, Close,
    DecideAnswers, StreamAbandoned, TornDown, StreamEnds, StreamRaises, Teardown,
    Respond
<1> QED BY <1>1, Invariance, PTL DEF Safety, StatusThenFrames

-----------------------------------------------------------------------------
(***************************************************************************)
(* What becomes of the settings.  A request is named, resolved and sent at *)
(* three moments, and what is known of the backend may change between any  *)
(* two.  First what each operator comes to: the gaps in what rides with    *)
(* tools, and which settings are unsupported, do not depend on what is     *)
(* learned of llama-server, but for an effort.  Then what holds of one     *)
(* request made from three such moments; then the invariant, which says    *)
(* that the header, the target and the view are each of a moment before.   *)
(***************************************************************************)
ABackend == backend \in BackendType /\ AsBuilt(backend)

(* The gaps in what rides with tools do not depend on what is learned.     *)
StrictGaps ==
  IF backend.account /\ backend.dialect = "openrouter" /\ backend.requireParameters
  THEN UnlistedToolSettings(backend.listed) ELSE {}
ToolGaps ==
  (IF backend.dialect \in {"ollama", "strata"} THEN UnreadToolSettings ELSE {})
    \cup (IF backend.dialect = "gemini" THEN {<<"parallelToolCalls", "false">>} ELSE {})
    \cup StrictGaps
EffortGap(l) == IF EffortByTemplate(l) THEN {<<"reasoningEffort", "low">>} ELSE {}

\* What the gaps are, whenever the entry was made.
LEMMA GapsOf ==
  ASSUME NEW l1, NEW o1, NEW l
  PROVE  GapsFor(Entry(l1, o1), l) = ToolGaps \cup EffortGap(IF backend.account THEN l1 ELSE l)
<1>1. CASE backend.account
  BY <1>1 DEF GapsFor, Entry, ServedView, SettingsNotHonoured, ToolGaps, StrictGaps, EffortGap
<1>2. CASE ~backend.account
  BY <1>2 DEF GapsFor, SettingsNotHonoured, ToolGaps, StrictGaps, EffortGap
<1> QED
  BY <1>1, <1>2

\* Which values of what rides with tools a listing leaves out.
LEMMA UnlistedAre ==
  ASSUME NEW listed, NEW s, NEW v
  PROVE  <<s, v>> \in UnlistedToolSettings(listed) <=>
           /\ "tools" \in listed /\ s \notin listed
           /\ \/ s = "toolChoice" /\ v \in {"required", "function", "none"}
              \/ s = "parallelToolCalls" /\ v = "false"
BY DEF UnlistedToolSettings, UnreadToolSettings

\* Only Ollama and Strata are sent no tools for a choice of none.
LEMMA NoneByNoTools ==
  ASSUME NEW l1, NEW o1, NEW l
  PROVE  NoneIsNoTools(Entry(l1, o1), l) <=> backend.dialect \in {"ollama", "strata"}
<1> DEFINE gaps == GapsFor(Entry(l1, o1), l)
<1>1. gaps = ToolGaps \cup EffortGap(IF backend.account THEN l1 ELSE l)
  BY GapsOf
<1>2. CASE backend.dialect \in {"ollama", "strata"}
  <2>1. <<"toolChoice", "none">> \notin gaps
    BY <1>1, <1>2 DEF ToolGaps, StrictGaps, EffortGap, UnreadToolSettings
  <2>2. <<"toolChoice", "required">> \in gaps
    BY <1>1, <1>2 DEF ToolGaps, UnreadToolSettings
  <2> QED
    BY <1>2, <2>1, <2>2 DEF NoneIsNoTools
<1>3. CASE backend.dialect \notin {"ollama", "strata"}
  <2>1. SUFFICES ASSUME NEW gap \in gaps, gap[1] = "toolChoice"
                 PROVE  <<"toolChoice", "none">> \in gaps
    BY <1>3 DEF NoneIsNoTools
  <2>2. gap \in UnlistedToolSettings(backend.listed) /\ StrictGaps = UnlistedToolSettings(backend.listed)
    BY <1>1, <1>3, <2>1 DEF ToolGaps, StrictGaps, EffortGap
  <2>3. "tools" \in backend.listed /\ "toolChoice" \notin backend.listed
    BY <2>1, <2>2 DEF UnlistedToolSettings
  <2>4. <<"toolChoice", "none">> \in UnlistedToolSettings(backend.listed)
    BY <2>3 DEF UnlistedToolSettings
  <2> QED
    BY <1>1, <2>2, <2>4 DEF ToolGaps
<1> QED
  BY <1>2, <1>3

\* What shaping takes off a request, and that it changes nothing else.
LEMMA ShapedIs ==
  ASSUME NEW r, RequestType(r), NEW l1, NEW o1, NEW l, NEW q, q = Shaped(r, Entry(l1, o1), l)
  PROVE  /\ q.caller = r.caller
         /\ \A s : s \in DOMAIN q.value <=>
              /\ s \in DOMAIN r.value
              /\ ~(s \in ToolSettings /\ Is(r, "toolChoice", "none") /\ backend.dialect \in {"ollama", "strata"})
              /\ ~(s = "seed" /\ Is(r, "seed", "zero") /\ backend.dialect = "strata")
         /\ \A s \in DOMAIN q.value : q.value[s] = r.value[s]
<1> DEFINE none == IF Is(r, "toolChoice", "none") /\ backend.dialect \in {"ollama", "strata"}
                   THEN Without(r, ToolSettings) ELSE r
<1>1. q = IF backend.dialect = "strata" /\ Is(r, "seed", "zero") THEN Without(none, {"seed"}) ELSE none
  BY NoneByNoTools DEF Shaped
<1>2. \A p, names : /\ Without(p, names).caller = p.caller
                    /\ DOMAIN Without(p, names).value = DOMAIN p.value \ names
                    /\ \A s \in DOMAIN p.value \ names : Without(p, names).value[s] = p.value[s]
  BY DEF Without
<1>3. /\ none.caller = r.caller
      /\ \A s : s \in DOMAIN none.value <=>
              /\ s \in DOMAIN r.value
              /\ ~(s \in ToolSettings /\ Is(r, "toolChoice", "none") /\ backend.dialect \in {"ollama", "strata"})
      /\ \A s \in DOMAIN none.value : none.value[s] = r.value[s]
  BY <1>2
<1> HIDE DEF none
<1>4. CASE backend.dialect = "strata" /\ Is(r, "seed", "zero")
  BY <1>1, <1>2, <1>3, <1>4
<1>5. CASE ~(backend.dialect = "strata" /\ Is(r, "seed", "zero"))
  BY <1>1, <1>3, <1>5
<1> QED
  BY <1>4, <1>5

(* What is served of the tools and the settings of an account's model.     *)
LEMMA EntrySettings ==
  ASSUME NEW l, NEW o \in BOOLEAN, backend.account
  PROVE  /\ Entry(l, o).tools = IF o THEN "no" ELSE backend.tools
         /\ \A s : s \in Entry(l, o).settings <=>
              \/ s \in backend.listed /\ ~(s = "tools" /\ (o \/ backend.tools = "no"))
              \/ s \in Companions /\ (o \/ backend.tools = "no")
              \/ s \in Companions /\ backend.dialect = "openrouter" /\ "tools" \in backend.listed
              \/ s = "cacheControl" /\ CarriesCacheControl
<1> DEFINE unlisted == UnlistedToolSettings(backend.listed)
<1>1. ASSUME NEW s
      PROVE  (\E gap \in unlisted : gap[1] = s) <=>
               "tools" \in backend.listed /\ s \in Companions \ backend.listed
  <2>1. ASSUME NEW gap \in unlisted
        PROVE  "tools" \in backend.listed /\ gap[1] \in Companions \ backend.listed
    BY DEF UnlistedToolSettings, UnreadToolSettings, Companions
  <2>2. ASSUME "tools" \in backend.listed, s \in Companions \ backend.listed
        PROVE  \E gap \in unlisted : gap[1] = s
    <3>1. CASE s = "toolChoice"
      <4>1. <<"toolChoice", "none">> \in unlisted
        BY <2>2, <3>1, UnlistedAre
      <4> QED
        BY <3>1, <4>1
    <3>2. CASE s = "parallelToolCalls"
      <4>1. <<"parallelToolCalls", "false">> \in unlisted
        BY <2>2, <3>2, UnlistedAre
      <4> QED
        BY <3>2, <4>1
    <3> QED
      BY <2>2, <3>1, <3>2 DEF Companions
  <2> QED
    BY <2>1, <2>2
<1>2. Entry(l, o).tools = IF o THEN "no" ELSE backend.tools
  BY DEF Entry, ServedView
<1>3. Entry(l, o).settings =
        ((backend.listed \cup
            {gap[1] : gap \in IF backend.dialect = "openrouter" THEN unlisted ELSE {}})
           \ (IF o \/ backend.tools = "no" THEN {"tools"} ELSE {}))
          \cup (IF o \/ backend.tools = "no" THEN Companions ELSE {})
          \cup (IF CarriesCacheControl THEN {"cacheControl"} ELSE {})
  BY DEF Entry, ServedView
<1> HIDE DEF unlisted
<1>4. "tools" \notin Companions
  BY DEF Companions
<1> QED
  BY <1>1, <1>2, <1>3, <1>4

(* An effort the backend has no field for.                                 *)
NoEffort ==
  /\ backend.dialect # "strata"
  /\ IF backend.account /\ backend.dialect \in {"openrouter", "gemini"}
     THEN "reasoningEffort" \notin backend.listed ELSE backend.dialect # "openai"

(* What the engine may know of llama-server, whatever it once knew.        *)
MayKnow(l) ==
  IF backend.dialect \in {"compatible", "ollama"} THEN l \in {"unknown", backend.llama} ELSE l = "no"

\* Only a llama-server takes an effort by its template.
LEMMA TemplateIsLlama ==
  ASSUME ABackend, NEW l, MayKnow(l)
  PROVE  EffortByTemplate(l) => backend.dialect = "compatible"
BY DEF ABackend, BackendType, AsBuilt, EffortByTemplate, MayKnow

ListedByProvider == backend.dialect \in {"openrouter", "gemini"} /\ backend.account
Barred(entry, o) ==
  (IF backend.fixed THEN FixedSampler ELSE {})
    \cup (IF backend.dialect \in {"openai", "ollama"} THEN LocalEngine ELSE {})
    \cup (IF ChatToolsUnavailable \/ o THEN {"tools"} ELSE {})
    \cup (IF backend.dialect # "openai" /\ ~ListedByProvider THEN Hosted ELSE {})
    \cup (IF ListedByProvider THEN EngineSettings \ entry.settings ELSE {})

\* What Strata's adapter neither honours nor carries.
LEMMA StrataSettingsAre == EngineSettings \ StrataSettings = {"logprobs", "verbosity"}
BY DEF EngineSettings, StrataSettings, Hosted

\* What is unsupported: what is barred, but for an effort that is honoured.
LEMMA UnsupportedAre ==
  ASSUME ABackend, NEW entry, NEW l, MayKnow(l), NEW o, NEW s
  PROVE  s \in Unsupported(entry, l, o) <=>
           \/ s \in Barred(entry, o) /\ ~(s = "reasoningEffort" /\ (backend.dialect = "strata" \/ EffortByTemplate(l)))
           \/ backend.dialect = "strata" /\ s \in {"logprobs", "verbosity"}
<1>1. Unsupported(entry, l, o) =
        CASE backend.dialect = "strata" -> (Barred(entry, o) \ {"reasoningEffort"}) \cup (EngineSettings \ StrataSettings)
          [] EffortByTemplate(l) -> Barred(entry, o) \ {"reasoningEffort"}
          [] OTHER -> Barred(entry, o)
  BY DEF Unsupported, Barred, ListedByProvider
<1>2. EffortByTemplate(l) => backend.dialect # "strata"
  BY TemplateIsLlama
<1> QED
  BY <1>1, <1>2, StrataSettingsAre

\* The grounds on which a setting is barred.
LEMMA BarredAre ==
  ASSUME NEW entry, NEW o, NEW s
  PROVE  s \in Barred(entry, o) <=>
           \/ backend.fixed /\ s = "temperature"
           \/ backend.dialect \in {"openai", "ollama"} /\ s = "topK"
           \/ s = "tools" /\ (ChatToolsUnavailable \/ o)
           \/ backend.dialect # "openai" /\ ~ListedByProvider /\ s \in Hosted
           \/ ListedByProvider /\ s \in EngineSettings \ entry.settings
BY DEF Barred, FixedSampler, LocalEngine

(* An effort the backend has no field for.                                 *)
LEMMA EffortUnsupported ==
  ASSUME ABackend, NEW l1, NEW o1 \in BOOLEAN, NEW l, MayKnow(l), NEW o
  PROVE  "reasoningEffort" \in Unsupported(Entry(l1, o1), l, o) <=> NoEffort /\ ~EffortByTemplate(l)
<1> DEFINE entry == Entry(l1, o1)
<1>1. backend.account =>
        ("reasoningEffort" \in entry.settings <=> "reasoningEffort" \in backend.listed)
  BY EntrySettings DEF Companions
<1>2. "reasoningEffort" \in Hosted /\ "reasoningEffort" \in EngineSettings
  BY DEF Hosted, EngineSettings
<1>3. "reasoningEffort" \in Barred(entry, o) <=>
        IF ListedByProvider THEN "reasoningEffort" \notin backend.listed ELSE backend.dialect # "openai"
  BY <1>1, <1>2, BarredAre DEF ListedByProvider
<1>4. EffortByTemplate(l) => backend.dialect # "strata"
  BY TemplateIsLlama
<1> HIDE DEF entry
<1> QED
  BY <1>3, <1>4, UnsupportedAre DEF NoEffort, ListedByProvider, entry

\* The settings there are, by name.
LEMMA SettingsAre ==
  /\ Settings = EngineSettings \cup {"cacheControl"}
  /\ EngineSettings = {"tools", "toolChoice", "parallelToolCalls", "temperature", "topK",
                       "logprobs", "verbosity", "reasoningEffort", "seed"}
  /\ ToolSettings = {"tools", "toolChoice", "parallelToolCalls"}
BY DEF Settings, Values, EngineSettings, ToolSettings, Companions, FixedSampler, LocalEngine, Hosted

\* The values that matter of a request.
LEMMA ValuesAre ==
  ASSUME NEW r, RequestType(r)
  PROVE  /\ Has(r, "toolChoice") => r.value["toolChoice"] \in {"auto", "none", "required", "function"}
         /\ Has(r, "parallelToolCalls") => r.value["parallelToolCalls"] \in {"true", "false"}
         /\ Has(r, "reasoningEffort") => r.value["reasoningEffort"] \in {"none", "low"}
BY DEF RequestType, Has, Values, Settings

(* What a request that is not refused does not carry of the caller's.      *)
LEMMA NotRefused ==
  ASSUME NEW r, RequestType(r), NEW l1, NEW o1, NEW l, NEW o, ~Refused(r, Entry(l1, o1), l, o),
         NEW q, q = Shaped(r, Entry(l1, o1), l)
  PROVE  /\ ~(backend.dialect = "strata" /\ Is(r, "seed", "zero") /\ "seed" \in r.caller)
         /\ ~(LogprobsHeld(q) /\ "logprobs" \in r.caller \cap DOMAIN q.value)
         /\ ToolsOff(Entry(l1, o1), o) /\ Has(q, "tools") => r.caller \cap ToolSettings = {}
         /\ \A s \in r.caller \ {"reasoningEffort"} :
              (s \in Companions /\ ToolsOff(Entry(l1, o1), o) => Has(q, "tools")) => s \notin Unsupported(Entry(l1, o1), l, o)
<1>1. q.caller = r.caller
  BY ShapedIs
<1> QED
  BY <1>1 DEF Refused

(* A setting of the caller's that is not refused is carried, but for what  *)
(* rides with tools and an effort.                                         *)
LEMMA CallersCarried ==
  ASSUME ABackend, NEW r, RequestType(r), NEW l1, NEW o1 \in BOOLEAN, NEW l, MayKnow(l), NEW o,
         ~Refused(r, Entry(l1, o1), l, o),
         NEW s \in r.caller \ (Companions \cup {"reasoningEffort", "cacheControl"}),
         s = "tools" => ~Is(r, "toolChoice", "none")
  PROVE  s \in Carried(r, Entry(l1, o1), l, o)
<1> DEFINE entry == Entry(l1, o1)
           q == Shaped(r, entry, l)
<1>1. s \in DOMAIN r.value /\ s \in EngineSettings /\ s \in r.caller
  BY SettingsAre DEF RequestType
<1>2. /\ ~(backend.dialect = "strata" /\ Is(r, "seed", "zero") /\ "seed" \in r.caller)
      /\ ~(LogprobsHeld(q) /\ "logprobs" \in r.caller \cap DOMAIN q.value)
      /\ s \notin Unsupported(entry, l, o)
  BY NotRefused
<1>3. s \in DOMAIN q.value
  <2>1. /\ ~(s \in ToolSettings /\ Is(r, "toolChoice", "none"))
        /\ ~(s = "seed" /\ Is(r, "seed", "zero") /\ backend.dialect = "strata")
    BY <1>1, <1>2, SettingsAre DEF Companions
  <2> QED
    BY <1>1, <2>1, ShapedIs
<1>4. /\ s \in FixedSampler => ~backend.fixed
      /\ backend.dialect = "gemini" => s \in entry.settings
  <2>1. s \notin Barred(entry, o)
    BY <1>2, UnsupportedAre
  <2> QED
    BY <1>1, <2>1, BarredAre DEF FixedSampler, ListedByProvider, ABackend, AsBuilt
<1>5. backend.dialect = "gemini" => GeminiTakes(q, entry, s)
  BY <1>4 DEF GeminiTakes, Companions
<1> HIDE DEF q, entry
<1>6. s \in {x \in DOMAIN q.value :
         /\ x \in Companions => ~(ToolsOff(entry, o) /\ ~Has(q, "tools")) /\ x \notin Withheld(q, entry, l)
         /\ x \in {"parallelToolCalls", "topK", "reasoningEffort"} => x \notin Unsupported(entry, l, o)
         /\ x \in FixedSampler => ~backend.fixed
         /\ x = "reasoningEffort" => ~EffortByTemplate(l)
         /\ x = "logprobs" => ~LogprobsHeld(q)
         /\ x = "cacheControl" => CarriesCacheControl
         /\ backend.dialect = "gemini" => GeminiTakes(q, entry, x)}
  BY <1>1, <1>2, <1>3, <1>4, <1>5
<1> QED
  BY <1>6 DEF Carried, q, entry

(* Of the gaps of a request that asks to hold to its listing, each is named *)
(* in every value that says something.                                     *)
LEMMA WithheldAre ==
  ASSUME NEW q, NEW l1, NEW o1, NEW l, NEW s \in Companions, s \in Withheld(q, Entry(l1, o1), l)
  PROVE  /\ backend.account /\ backend.dialect = "openrouter" /\ backend.requireParameters
         /\ "tools" \in backend.listed /\ s \notin backend.listed
<1>1. /\ backend.requireParameters /\ backend.dialect = "openrouter" /\ backend.account
      /\ \E gap \in GapsFor(Entry(l1, o1), l) : gap[1] = s
  BY DEF Withheld, AsksRequire
<1>2. PICK gap \in ToolGaps \cup EffortGap(l1) : gap[1] = s
  BY <1>1, GapsOf
<1>3. gap \in UnlistedToolSettings(backend.listed)
  BY <1>1, <1>2 DEF ToolGaps, StrictGaps, EffortGap, Companions
<1>4. "tools" \in backend.listed /\ s \notin backend.listed
  BY <1>2, <1>3 DEF UnlistedToolSettings
<1> QED
  BY <1>1, <1>4

(* What rides with tools is carried where it says something, or its value  *)
(* is one of the gaps.                                                     *)
LEMMA CompanionsCarried ==
  ASSUME ABackend, NEW r, RequestType(r), NEW l1, NEW o1 \in BOOLEAN, NEW l, MayKnow(l), NEW o,
         ~Refused(r, Entry(l1, o1), l, o), NEW s \in r.caller \cap Companions,
         Has(r, "tools"), ~Is(r, "toolChoice", "none"), r.value[s] \notin {"auto", "true"},
         <<s, r.value[s]>> \notin ToolGaps
  PROVE  s \in Carried(r, Entry(l1, o1), l, o)
<1> DEFINE entry == Entry(l1, o1)
           q == Shaped(r, entry, l)
<1>1. /\ s \in DOMAIN r.value /\ s \in EngineSettings /\ s \in ToolSettings
      /\ \/ s = "toolChoice" /\ r.value[s] \in {"required", "function"}
         \/ s = "parallelToolCalls" /\ r.value[s] = "false"
  <2>1. s \in DOMAIN r.value
    BY DEF RequestType
  <2>2. s \in EngineSettings /\ s \in ToolSettings
    BY SettingsAre DEF Companions
  <2>3. CASE s = "toolChoice"
    BY <2>1, <2>2, <2>3, ValuesAre DEF Has, Is
  <2>4. CASE s = "parallelToolCalls"
    BY <2>1, <2>2, <2>4, ValuesAre DEF Has
  <2> QED
    BY <2>3, <2>4 DEF Companions
<1>2. s \in DOMAIN q.value /\ Has(q, "tools") /\ q.caller = r.caller
  BY <1>1, ShapedIs DEF Has
<1>3. ~ToolsOff(entry, o) /\ s \notin Unsupported(entry, l, o)
  BY <1>1, <1>2, NotRefused DEF Companions
<1>4. s \notin Withheld(q, entry, l)
  <2>1. SUFFICES ASSUME s \in Withheld(q, entry, l) PROVE FALSE
    OBVIOUS
  <2>2. <<s, r.value[s]>> \in UnlistedToolSettings(backend.listed)
    BY <1>1, <2>1, WithheldAre, UnlistedAre
  <2> QED
    BY <2>1, <2>2, WithheldAre DEF ToolGaps, StrictGaps
<1>5. backend.dialect = "gemini" => s \in entry.settings /\ s # "parallelToolCalls"
  <2>1. s \notin Barred(entry, o)
    BY <1>1, <1>3, UnsupportedAre
  <2> QED
    BY <1>1, <2>1, BarredAre DEF ListedByProvider, ABackend, AsBuilt, ToolGaps
<1>6. backend.dialect = "gemini" => GeminiTakes(q, entry, s)
  BY <1>2, <1>5 DEF GeminiTakes
<1>7. s \notin FixedSampler /\ s \notin {"reasoningEffort", "logprobs", "cacheControl"}
  BY <1>1 DEF FixedSampler
<1> HIDE DEF q, entry
<1>8. s \in {x \in DOMAIN q.value :
         /\ x \in Companions => ~(ToolsOff(entry, o) /\ ~Has(q, "tools")) /\ x \notin Withheld(q, entry, l)
         /\ x \in {"parallelToolCalls", "topK", "reasoningEffort"} => x \notin Unsupported(entry, l, o)
         /\ x \in FixedSampler => ~backend.fixed
         /\ x = "reasoningEffort" => ~EffortByTemplate(l)
         /\ x = "logprobs" => ~LogprobsHeld(q)
         /\ x = "cacheControl" => CarriesCacheControl
         /\ backend.dialect = "gemini" => GeminiTakes(q, entry, x)}
  BY <1>2, <1>3, <1>4, <1>6, <1>7
<1> QED
  BY <1>8 DEF Carried, q, entry

(* An effort the backend has a field for is carried.                       *)
LEMMA EffortCarried ==
  ASSUME ABackend, NEW r, RequestType(r), NEW l1, NEW o1 \in BOOLEAN, NEW l, MayKnow(l), NEW o,
         Has(r, "reasoningEffort"), ~NoEffort, ~EffortByTemplate(l)
  PROVE  "reasoningEffort" \in Carried(r, Entry(l1, o1), l, o)
<1> DEFINE entry == Entry(l1, o1)
           q == Shaped(r, entry, l)
           s == "reasoningEffort"
<1>1. s \in DOMAIN q.value
  BY ShapedIs, SettingsAre DEF Has
<1>2. s \notin Unsupported(entry, l, o)
  BY EffortUnsupported
<1>3. backend.dialect = "gemini" => GeminiTakes(q, entry, s)
  BY EntrySettings DEF GeminiTakes, ABackend, AsBuilt, NoEffort, Companions
<1>4. s \notin Companions /\ s \notin FixedSampler
  BY DEF Companions, FixedSampler
<1> HIDE DEF q, entry
<1> QED
  BY <1>1, <1>2, <1>3, <1>4 DEF Carried, q, entry

(* What is named: a gap's value, or an effort without a field.             *)
LEMMA IgnoredAre ==
  ASSUME ABackend, NEW r, NEW l, MayKnow(l), NEW o \in BOOLEAN, NEW s
  PROVE  s \in Ignored(r, Entry(l, o), l, o) <=>
           /\ s \in r.caller
           /\ \/ <<s, r.value[s]>> \in ToolGaps
                   /\ ~(Is(r, "toolChoice", "none") /\ backend.dialect \in {"ollama", "strata"})
              \/ s = "reasoningEffort" /\ r.value[s] = "low" /\ EffortByTemplate(l)
              \/ s = "reasoningEffort" /\ NoEffort /\ ~EffortByTemplate(l)
<1>1. GapsFor(Entry(l, o), l) = ToolGaps \cup EffortGap(l)
  BY GapsOf
<1>2. EffortByTemplate(l) => backend.dialect = "compatible"
  BY TemplateIsLlama
<1>3. ASSUME NEW v
      PROVE  <<s, v>> \in EffortGap(l) <=> s = "reasoningEffort" /\ v = "low" /\ EffortByTemplate(l)
  BY DEF EffortGap
<1>4. s = "reasoningEffort" => (s \in Unsupported(Entry(l, o), l, o) <=> NoEffort /\ ~EffortByTemplate(l))
  BY EffortUnsupported
<1> QED
  BY <1>1, <1>2, <1>3, <1>4, NoneByNoTools DEF Ignored

-----------------------------------------------------------------------------
(* What is sent, named and refused of one request, made from what was known *)
(* at three moments: l0 when it was named, l1 when it was resolved, then l. *)
LEMMA Delivered ==
  ASSUME ABackend, NEW r, RequestType(r),
         NEW l0, MayKnow(l0), NEW o0 \in BOOLEAN, NEW l1, NEW o1 \in BOOLEAN,
         NEW l, MayKnow(l), l0 \in {"unknown", l}, NEW o,
         ~Refused(r, Entry(l1, o1), l, o), NEW w, w = Payload(r, Entry(l1, o1), l, o),
         NEW s \in r.caller \cap DOMAIN r.value
  PROVE  \/ s \in w.sent \cup Ignored(r, Entry(l0, o0), l0, o0) \cup {"cacheControl"}
         \/ s = "reasoningEffort" /\ w.template
         \/ s \in ToolSettings /\ (w.schema \/ Is(r, "toolChoice", "none"))
         \/ s \in Companions /\ (~Has(r, "tools") \/ r.value[s] \in {"auto", "true"})
<1>1. /\ w.sent = Carried(r, Entry(l1, o1), l, o) \ (IF Forces(r, l) THEN ToolSettings ELSE {})
      /\ w.schema = Forces(r, l)
      /\ w.template = (EffortByTemplate(l) /\ Is(r, "reasoningEffort", "none"))
  BY DEF Payload
<1>2. CASE s = "reasoningEffort"
  <2>1. s \notin ToolSettings
    BY <1>2, SettingsAre
  <2>2. CASE ~NoEffort /\ ~EffortByTemplate(l)
    BY <1>1, <1>2, <2>1, <2>2, EffortCarried DEF Has
  <2>3. CASE NoEffort /\ ~EffortByTemplate(l)
    <3>1. ~EffortByTemplate(l0)
      BY <2>3 DEF EffortByTemplate
    <3> QED
      BY <1>2, <2>3, <3>1, IgnoredAre
  <2>4. CASE EffortByTemplate(l)
    <3>1. NoEffort
      BY <2>4, TemplateIsLlama DEF NoEffort
    <3>2. r.value[s] \in {"none", "low"}
      BY <1>2, ValuesAre DEF Has
    <3> QED
      BY <1>1, <1>2, <2>4, <3>1, <3>2, IgnoredAre DEF Is, Has
  <2> QED
    BY <2>2, <2>3, <2>4
<1>3. CASE s \in Companions
  <2>1. SUFFICES ASSUME Has(r, "tools"), ~Is(r, "toolChoice", "none"), r.value[s] \notin {"auto", "true"},
                        ~w.schema
                 PROVE  s \in w.sent \cup Ignored(r, Entry(l0, o0), l0, o0)
    BY <1>3 DEF ToolSettings
  <2>2. CASE <<s, r.value[s]>> \in ToolGaps
    BY <2>1, <2>2, IgnoredAre
  <2>3. CASE <<s, r.value[s]>> \notin ToolGaps
    BY <1>1, <1>3, <2>1, <2>3, CompanionsCarried
  <2> QED
    BY <2>2, <2>3
<1>4. CASE s \notin Companions \cup {"reasoningEffort", "cacheControl"}
  <2>1. SUFFICES ASSUME ~(s \in ToolSettings /\ (w.schema \/ Is(r, "toolChoice", "none")))
                 PROVE  s \in w.sent
    OBVIOUS
  <2>2. s \in Carried(r, Entry(l1, o1), l, o)
    BY <1>4, <2>1, CallersCarried, SettingsAre
  <2> QED
    BY <1>1, <2>1, <2>2
<1> QED
  BY <1>2, <1>3, <1>4

\* What is named was not delivered, or is a gap of the backend.
LEMMA NamedRightly ==
  ASSUME ABackend, NEW r, RequestType(r),
         NEW l0, MayKnow(l0), NEW o0 \in BOOLEAN, NEW l1, NEW o1 \in BOOLEAN,
         NEW l, MayKnow(l), l0 \in {"unknown", l}, NEW o,
         NEW w, w = Payload(r, Entry(l1, o1), l, o),
         NEW s \in Ignored(r, Entry(l0, o0), l0, o0)
  PROVE  /\ s \in r.caller
         /\ \/ s \notin w.sent
               /\ ~(s \in ToolSettings /\ Is(r, "toolChoice", "none")
                      /\ Has(r, "tools") /\ "tools" \notin w.sent)
            \/ <<s, r.value[s]>> \in SettingsNotHonoured(l)
<1> DEFINE entry == Entry(l1, o1)
           q == Shaped(r, entry, l)
<1>1. w.sent = Carried(r, entry, l, o) \ (IF Forces(r, l) THEN ToolSettings ELSE {})
  BY DEF Payload
<1>2. s \in r.caller
  BY IgnoredAre
<1>3. CASE <<s, r.value[s]>> \in StrictGaps
  <2>1. /\ backend.account /\ backend.dialect = "openrouter" /\ backend.requireParameters
        /\ s \in Companions
    BY <1>3, UnlistedAre DEF StrictGaps, Companions
  <2>2. s \in Withheld(q, entry, l)
    <3>1. <<s, r.value[s]>> \in GapsFor(entry, l)
      BY <1>3, GapsOf DEF ToolGaps
    <3>2. AsksRequire(q)
      BY <1>2, <2>1, ShapedIs DEF AsksRequire, Companions
    <3> HIDE DEF q, entry
    <3>3. <<s, r.value[s]>>[1] = s
      OBVIOUS
    <3> QED
      BY <2>1, <3>1, <3>2, <3>3 DEF Withheld
  <2>3. s \notin Carried(r, entry, l, o)
    BY <2>1, <2>2 DEF Carried
  <2>4. ASSUME Has(r, "tools") PROVE "tools" \in w.sent
    <3>1. "tools" \in DOMAIN q.value
      BY <2>1, <2>4, ShapedIs DEF Has
    <3>2. "tools" \in Carried(r, entry, l, o)
      BY <2>1, <3>1 DEF Carried, Companions, FixedSampler
    <3> QED
      BY <1>1, <2>1, <3>2 DEF Forces
  <2> QED
    BY <1>1, <1>2, <2>3, <2>4
<1>4. CASE <<s, r.value[s]>> \in ToolGaps \ StrictGaps
  BY <1>2, <1>4 DEF ToolGaps, SettingsNotHonoured
<1>5. CASE s = "reasoningEffort" /\ r.value[s] = "low" /\ EffortByTemplate(l0)
  <2>1. EffortByTemplate(l)
    BY <1>5 DEF EffortByTemplate
  <2> QED
    BY <1>2, <1>5, <2>1 DEF SettingsNotHonoured
<1>6. CASE s = "reasoningEffort" /\ NoEffort /\ ~EffortByTemplate(l0)
  <2>1. EffortByTemplate(l) \/ s \in Unsupported(entry, l, o)
    BY <1>6, EffortUnsupported
  <2>2. s \notin Carried(r, entry, l, o)
    BY <1>6, <2>1 DEF Carried
  <2> QED
    BY <1>1, <1>2, <1>6, <2>2, SettingsAre
<1> QED
  BY <1>3, <1>4, <1>5, <1>6, IgnoredAre

\* What is sent strictly is listed.
LEMMA ListingHeld ==
  ASSUME ABackend, NEW r, RequestType(r), NEW l1, NEW o1 \in BOOLEAN, NEW l, MayKnow(l), NEW o,
         ~Refused(r, Entry(l1, o1), l, o), NEW w, w = Payload(r, Entry(l1, o1), l, o),
         w.strict, backend.dialect = "openrouter", backend.account,
         NEW s \in w.sent \cap (r.caller \cup {c \in Companions : "tools" \in backend.listed})
  PROVE  s \in backend.listed \cup {"cacheControl"}
<1> DEFINE entry == Entry(l1, o1)
           q == Shaped(r, entry, l)
<1>1. s \in Carried(r, entry, l, o) /\ AsksRequire(r)
  BY DEF Payload
<1>2. /\ s \in DOMAIN q.value /\ s \in DOMAIN r.value /\ q.caller = r.caller
      /\ s \in Companions => ~(ToolsOff(entry, o) /\ ~Has(q, "tools")) /\ s \notin Withheld(q, entry, l)
      /\ s = "reasoningEffort" => s \notin Unsupported(entry, l, o)
  BY <1>1, ShapedIs DEF Carried
<1>3. CASE s \in Companions /\ "tools" \in backend.listed
  <2>1. SUFFICES ASSUME s \notin backend.listed PROVE s \in Withheld(q, entry, l)
    BY <1>2, <1>3
  <2>2. \E v : <<s, v>> \in UnlistedToolSettings(backend.listed)
    BY <1>3, <2>1, UnlistedAre DEF Companions
  <2>3. PICK gap \in GapsFor(entry, l) : gap[1] = s
    BY <1>1, <2>2, GapsOf DEF ToolGaps, StrictGaps, AsksRequire
  <2>4. AsksRequire(q)
    BY <1>1, <1>2 DEF AsksRequire
  <2> HIDE DEF q, entry
  <2> QED
    BY <2>3, <2>4 DEF Withheld
<1>4. CASE s \in Companions /\ "tools" \notin backend.listed
  <2>1. s \in r.caller /\ s \in ToolSettings /\ s \in EngineSettings
    BY <1>4, SettingsAre DEF Companions
  <2>2. ~ToolsOff(entry, o)
    BY <1>2, <1>4, <2>1, NotRefused
  <2>3. s \notin Barred(entry, o)
    BY <1>4, <2>1, <2>2, NotRefused, UnsupportedAre DEF Companions
  <2>4. s \in entry.settings
    BY <2>1, <2>3, BarredAre DEF ListedByProvider
  <2>5. ~o1 /\ backend.tools # "no"
    BY <2>2, EntrySettings DEF ToolsOff
  <2> QED
    BY <1>4, <2>4, <2>5, EntrySettings DEF Companions
<1>5. CASE s = "reasoningEffort"
  <2>1. ~EffortByTemplate(l)
    BY TemplateIsLlama
  <2>2. ~NoEffort
    BY <1>2, <1>5, <2>1, EffortUnsupported
  <2> QED
    BY <1>5, <2>2 DEF NoEffort
<1>6. CASE s \notin Companions \cup {"reasoningEffort", "cacheControl"}
  <2>1. s \in r.caller /\ s \in EngineSettings
    BY <1>2, <1>6, SettingsAre DEF RequestType
  <2>2. s \notin Barred(entry, o)
    BY <1>6, <2>1, NotRefused, UnsupportedAre
  <2>3. s \in entry.settings
    BY <2>1, <2>2, BarredAre DEF ListedByProvider
  <2> QED
    BY <1>6, <2>3, EntrySettings
<1> QED
  BY <1>3, <1>4, <1>5, <1>6

(* Once the tools are as they were when the model was offered, what was     *)
(* offered is not refused, but for a value.                                *)
LEMMA OfferedTools ==
  ASSUME ABackend, NEW l0, NEW l1, NEW o \in BOOLEAN, Offered(l0, o).tools # "no"
  PROVE  ~ToolsOff(Entry(l1, o), o)
<1>1. CASE backend.account
  <2>1. Entry(l1, o).tools = Offered(l0, o).tools /\ ~o /\ backend.tools # "no"
    BY <1>1 DEF Offered, Entry, ServedView
  <2>2. ~ChatToolsUnavailable
    BY <1>1, <2>1 DEF ChatToolsUnavailable, ABackend, AsBuilt
  <2> QED
    BY <2>1, <2>2 DEF ToolsOff
<1>2. CASE ~backend.account
  BY <1>2 DEF Offered, ToolsOff, Entry, NoEntry
<1> QED
  BY <1>1, <1>2

\* A setting that was offered is supported at every later moment.
LEMMA OfferedSupported ==
  ASSUME ABackend, NEW l0, MayKnow(l0), NEW l1, NEW l, MayKnow(l), NEW o \in BOOLEAN,
         NEW s \in Offered(l0, o).settings \ {"reasoningEffort"}
  PROVE  s \notin Unsupported(Entry(l1, o), l, o)
<1>1. CASE ~backend.account
  <2>1. Entry(l1, o) = NoEntry
    BY <1>1 DEF Entry
  <2>2. s \in (EngineSettings \ Unsupported(NoEntry, l0, o)) \cup {"cacheControl"}
    BY <1>1 DEF Offered
  <2>3. CASE s \notin Unsupported(NoEntry, l0, o)
    BY <2>1, <2>3, UnsupportedAre
  <2>4. CASE s = "cacheControl"
    BY <2>4, UnsupportedAre, BarredAre, SettingsAre DEF Hosted
  <2> QED
    BY <2>2, <2>3, <2>4
<1>2. CASE backend.account
  <2>1. Offered(l0, o) = Entry(l0, o)
    BY <1>2 DEF Offered, Entry
  <2>2. s \in Entry(l0, o).settings /\ s \in Entry(l1, o).settings
    BY <1>2, <2>1, EntrySettings
  <2>3. \/ s \in backend.listed /\ ~(s = "tools" /\ (o \/ backend.tools = "no"))
        \/ s \in Companions \cup {"cacheControl"}
    BY <1>2, <2>2, EntrySettings
  <2>4. CASE s \in Companions \cup {"cacheControl"}
    <3>1. s \notin Hosted \cup {"temperature", "topK", "tools", "logprobs", "verbosity"}
      BY <2>4 DEF Companions, Hosted
    <3> QED
      BY <2>2, <3>1, UnsupportedAre, BarredAre
  <2>5. CASE s \in backend.listed /\ ~(s = "tools" /\ (o \/ backend.tools = "no"))
    <3>1. /\ ~(backend.fixed /\ s = "temperature")
          /\ ~(backend.dialect \in {"openai", "ollama"} /\ s = "topK")
          /\ ~(s = "tools" /\ (ChatToolsUnavailable \/ o))
          /\ ~(backend.dialect \in {"compatible", "ollama", "strata"} /\ s \in Hosted)
      BY <1>2, <2>5 DEF ABackend, AsBuilt, FixedSampler, LocalEngine, ChatToolsUnavailable
    <3>2. backend.dialect # "openai" /\ ~ListedByProvider => backend.dialect \in {"compatible", "ollama", "strata"}
      BY <1>2 DEF ABackend, BackendType, ListedByProvider
    <3>3. s \notin Barred(Entry(l1, o), o)
      BY <2>2, <3>1, <3>2, BarredAre
    <3>4. ~(backend.dialect = "strata" /\ s \in {"logprobs", "verbosity"})
      BY <3>1 DEF Hosted
    <3> QED
      BY <3>3, <3>4, UnsupportedAre
  <2> QED
    BY <2>3, <2>4, <2>5
<1> QED
  BY <1>1, <1>2

\* A request within what was offered is refused for a value alone.
LEMMA NotTurnedAway ==
  ASSUME ABackend, NEW r, RequestType(r), NEW l0, MayKnow(l0), NEW l1, NEW l, MayKnow(l), NEW o \in BOOLEAN,
         Refused(r, Entry(l1, o), l, o), r.caller \subseteq Offered(l0, o).settings,
         Has(r, "tools") => Offered(l0, o).tools # "no"
  PROVE  \/ Has(r, "logprobs") /\ LogprobsHeld(r)
         \/ backend.dialect = "strata" /\ Is(r, "seed", "zero")
<1> DEFINE entry == Entry(l1, o)
           q == Shaped(r, entry, l)
<1>1. /\ q.caller = r.caller
      /\ Has(q, "tools") => Has(r, "tools")
      /\ "logprobs" \in DOMAIN q.value => Has(r, "logprobs")
      /\ Is(q, "reasoningEffort", "none") <=> Is(r, "reasoningEffort", "none")
  BY ShapedIs, SettingsAre DEF Has, Is
<1>2. Has(q, "tools") => ~ToolsOff(entry, o)
  BY <1>1, OfferedTools
<1>3. \A s \in r.caller \ {"reasoningEffort"} : s \notin Unsupported(entry, l, o)
  BY OfferedSupported
<1> HIDE DEF q, entry
<1>4. Refused(r, entry, l, o) /\ q = Shaped(r, entry, l)
  BY DEF q, entry
<1>5. \/ backend.dialect = "strata" /\ Is(r, "seed", "zero") /\ "seed" \in r.caller
      \/ LogprobsHeld(q) /\ "logprobs" \in q.caller \cap DOMAIN q.value
      \/ ToolsOff(entry, o) /\ Has(q, "tools") /\ q.caller \cap ToolSettings # {}
      \/ (q.caller \cap Unsupported(entry, l, o)) \ {"reasoningEffort"} # {}
  BY <1>4 DEF Refused
<1> QED
  BY <1>1, <1>2, <1>3, <1>5 DEF LogprobsHeld

-----------------------------------------------------------------------------
ToldThen == stage # "idle" /\ ~changed => \E l0 : MayKnow(l0) /\ view = Offered(l0, off)
NamedThen ==
  stage = "resolved" \/ (stage = "named" /\ serving) =>
    \E l0 \in {"unknown", llama}, o0 \in BOOLEAN :
      MayKnow(l0) /\ header = Ignored(request, Entry(l0, o0), l0, o0)
ResolvedThen ==
  stage = "resolved" => \E o1 \in BOOLEAN, l1 \in {"unknown", "yes", "no"} : target = Entry(l1, o1) /\ (~changed => o1 = off)

\* What is said of a backend does not change while it is the same.
LEMMA SameBackend ==
  ASSUME backend' = backend
  PROVE  /\ \A l : MayKnow(l)' <=> MayKnow(l)
         /\ \A l, o : Offered(l, o)' = Offered(l, o)
         /\ \A l, o : Entry(l, o)' = Entry(l, o)
         /\ \A r, l, o : Ignored(r, Entry(l, o), l, o)' = Ignored(r, Entry(l, o), l, o)
<1>1. \A l : MayKnow(l)' <=> MayKnow(l)
  BY DEF MayKnow
<1>2. \A l, o : ServedView(l, o)' = ServedView(l, o)
  BY DEF ServedView, SettingsNotHonoured, EffortByTemplate, CarriesCacheControl
<1>3. \A l, o : Entry(l, o)' = Entry(l, o)
  BY <1>2 DEF Entry
<1>4. \A e, l, o : Unsupported(e, l, o)' = Unsupported(e, l, o)
  BY DEF Unsupported, ChatToolsUnavailable, EffortByTemplate
<1>5. \A l, o : Offered(l, o)' = Offered(l, o)
  BY <1>2, <1>4 DEF Offered, SettingsNotHonoured, EffortByTemplate, CarriesCacheControl, ChatToolsUnavailable
<1>6. \A r, l, o : Ignored(r, Entry(l, o), l, o)' = Ignored(r, Entry(l, o), l, o)
  <2>1. \A e, l : GapsFor(e, l)' = GapsFor(e, l)
    BY DEF GapsFor, SettingsNotHonoured, EffortByTemplate
  <2>2. \A e, l : NoneIsNoTools(e, l)' = NoneIsNoTools(e, l)
    BY <2>1 DEF NoneIsNoTools
  <2> QED
    BY <1>3, <1>4, <2>1, <2>2 DEF Ignored
<1> QED
  BY <1>1, <1>3, <1>5, <1>6

(* Nothing is sent or refused before it is answered.                       *)
Unanswered == stage # "answered" => outcome = "none" /\ wire = NoWire

SettingsInv ==
  /\ SettingsTypeOK
  /\ MayKnow(llama)
  /\ Unanswered
  /\ stage = "idle" => ~changed
  /\ ToldThen
  /\ NamedThen
  /\ ResolvedThen
  /\ NothingDroppedUnsaid
  /\ NamedIsNotHonoured
  /\ OfferedIsTaken
  /\ HoldsToListing

\* The backend is one the code can build.
LEMMA Backed == SettingsTypeOK => ABackend
BY BackendsAssumption DEF SettingsTypeOK, ABackend

\* Before it arrives the request is empty.
LEMMA NoRequestTyped == RequestType(NoRequest) /\ NoRequest.caller = {} /\ DOMAIN NoRequest.value = {}
BY DEF RequestType, NoRequest

\* The invariant holds at first.
LEMMA SettingsStart == SettingsInit => SettingsInv
<1> SUFFICES ASSUME SettingsInit PROVE SettingsInv
  OBVIOUS
<1>1. backend \in Backends /\ llama \in {"unknown", "no"} /\ MayKnow(llama)
  BY DEF SettingsInit, MayKnow
<1>2. SettingsTypeOK
  BY <1>1, NoRequestTyped DEF SettingsInit, SettingsTypeOK, NoWire
<1>3. Unanswered /\ ToldThen /\ NamedThen /\ ResolvedThen /\ (stage = "idle" => ~changed)
  BY DEF SettingsInit, Unanswered, ToldThen, NamedThen, ResolvedThen
<1>4. NothingDroppedUnsaid /\ NamedIsNotHonoured /\ OfferedIsTaken /\ HoldsToListing
  BY DEF SettingsInit, NothingDroppedUnsaid, NamedIsNotHonoured, OfferedIsTaken, HoldsToListing, NoWire
<1> QED
  BY <1>1, <1>2, <1>3, <1>4 DEF SettingsInv

(* Until the request is answered there is nothing the four could be wrong of. *)
LEMMA NothingYet ==
  outcome' = "none" /\ wire' = NoWire =>
    (NothingDroppedUnsaid /\ NamedIsNotHonoured /\ OfferedIsTaken /\ HoldsToListing)'
BY DEF NothingDroppedUnsaid, NamedIsNotHonoured, OfferedIsTaken, HoldsToListing, NoWire

(* What goes on for other requests leaves what was told and named standing. *)
LEMMA BackgroundKeeps ==
  ASSUME SettingsInv, Background
  PROVE  SettingsInv'
<1>1. /\ backend' = backend /\ stage # "answered" /\ outcome = "none" /\ wire = NoWire
      /\ UNCHANGED <<stage, asking>>
  BY DEF SettingsInv, Unanswered, Background, LearnLlama, LearnOff, ToolsAnswered, LeavesList, Waiting
<1>2. /\ (NothingDroppedUnsaid /\ NamedIsNotHonoured /\ OfferedIsTaken /\ HoldsToListing)'
      /\ Unanswered'
  BY <1>1, NothingYet DEF asking, Unanswered
<1>3. /\ view' = view /\ off' \in BOOLEAN /\ serving' \in BOOLEAN /\ changed' \in BOOLEAN
      /\ (stage = "idle" => ~changed')
      /\ (serving' => serving)
      /\ (off' = off \/ changed' \/ stage = "idle")
      /\ (~changed' => ~changed)
      /\ (llama' = llama \/ (llama = "unknown" /\ llama' = backend.llama))
  <2>1. /\ off \in BOOLEAN /\ serving \in BOOLEAN /\ changed \in BOOLEAN
        /\ (stage = "idle" => ~changed)
    BY DEF SettingsInv, SettingsTypeOK
  <2>2. CASE LearnLlama
    BY <2>1, <2>2 DEF LearnLlama, told
  <2>3. CASE LearnOff
    BY <2>1, <2>3 DEF LearnOff
  <2>4. CASE ToolsAnswered
    BY <2>1, <2>4 DEF ToolsAnswered
  <2>5. CASE LeavesList
    BY <2>1, <2>5 DEF LeavesList, told
  <2> QED
    BY <2>2, <2>3, <2>4, <2>5 DEF Background
<1>4. MayKnow(llama)' /\ llama' \in {"unknown", "yes", "no"}
  <2>1. backend \in BackendType /\ MayKnow(llama) /\ llama \in {"unknown", "yes", "no"}
    BY Backed DEF SettingsInv, SettingsTypeOK, ABackend
  <2> QED
    BY <1>1, <1>3, <2>1 DEF MayKnow, BackendType
<1>5. SettingsTypeOK'
  BY <1>1, <1>3, <1>4 DEF SettingsInv, SettingsTypeOK, asking, RequestType
<1>6. ToldThen'
  BY <1>1, <1>3, SameBackend DEF SettingsInv, ToldThen
<1>7. NamedThen'
  <2>1. SUFFICES ASSUME stage = "resolved" \/ (stage = "named" /\ serving) PROVE NamedThen'
    BY <1>1, <1>3 DEF NamedThen
  <2>2. PICK l0 \in {"unknown", llama}, o0 \in BOOLEAN :
          MayKnow(l0) /\ header = Ignored(request, Entry(l0, o0), l0, o0)
    BY <2>1 DEF SettingsInv, NamedThen
  <2>3. l0 \in {"unknown", llama'} /\ header' = header /\ request' = request
    BY <1>1, <1>3 DEF asking
  <2> QED
    BY <1>1, <2>2, <2>3, SameBackend DEF NamedThen
<1>8. ResolvedThen'
  BY <1>1, <1>3, SameBackend DEF SettingsInv, ResolvedThen, asking
<1> QED
  BY <1>2, <1>3, <1>1, <1>4, <1>5, <1>6, <1>7, <1>8 DEF SettingsInv

(* Typing and what is untouched until the answer.                          *)
LEMMA LookKeeps ==
  ASSUME SettingsInv, Look
  PROVE  SettingsInv'
<1>1. /\ stage = "idle" /\ ~changed /\ outcome = "none" /\ wire = NoWire /\ stage' = "looked"
      /\ view' = Offered(llama, off)
      /\ UNCHANGED <<backend, llama, off, serving, changed, request, header, target, outcome, wire>>
  BY DEF SettingsInv, Unanswered, Look, knowledge, asking
<1>2. (NothingDroppedUnsaid /\ NamedIsNotHonoured /\ OfferedIsTaken /\ HoldsToListing)' /\ Unanswered'
  BY <1>1, NothingYet DEF Unanswered
<1>3. SettingsTypeOK'
  BY <1>1 DEF SettingsInv, SettingsTypeOK, RequestType
<1>4. MayKnow(llama)' /\ MayKnow(llama)
  BY <1>1, SameBackend DEF SettingsInv
<1>5. ToldThen'
  BY <1>1, <1>4, SameBackend DEF ToldThen
<1>6. NamedThen' /\ ResolvedThen'
  BY <1>1 DEF NamedThen, ResolvedThen
<1> QED
  BY <1>1, <1>2, <1>3, <1>4, <1>5, <1>6 DEF SettingsInv

(* Tools are turned away at the route only if they are off now: they were  *)
(* offered so, or have been learned off since.                             *)
LEMMA OfferedToolsSame ==
  ASSUME NEW l0, NEW l, NEW o PROVE Offered(l0, o).tools = Offered(l, o).tools
BY DEF Offered, ServedView

\* An arrival chooses the request, or ends it.
LEMMA ArriveKeeps ==
  ASSUME SettingsInv, Arrive
  PROVE  SettingsInv'
<1>1. /\ stage = "looked" /\ outcome = "none" /\ wire = NoWire
      /\ request' \in Requests /\ RequestType(request')
      /\ UNCHANGED <<backend, llama, off, serving, view, changed, header, target, wire>>
  BY RequestsAssumption DEF SettingsInv, Unanswered, Arrive, knowledge, told
<1>2. \/ stage' = "answered" /\ outcome' = "404"
      \/ /\ stage' = "answered" /\ outcome' = "tools_off"
         /\ Has(request', "tools") /\ Offered(llama, off).tools = "no"
      \/ stage' = "admitted" /\ outcome' = "none"
  BY <1>1 DEF Arrive, End
<1>3. MayKnow(llama)' /\ (stage' = "idle" => ~changed')
  BY <1>1, <1>2, SameBackend DEF SettingsInv
<1>4. SettingsTypeOK'
  <2>1. wire'.sent = {}
    BY <1>1 DEF NoWire
  <2> QED
    BY <1>1, <1>2, <2>1 DEF SettingsInv, SettingsTypeOK, RequestType
<1>5. Unanswered' /\ NamedThen' /\ ResolvedThen'
  BY <1>1, <1>2 DEF Unanswered, NamedThen, ResolvedThen
<1>6. ToldThen'
  BY <1>1, <1>2, SameBackend DEF SettingsInv, ToldThen
<1>7. NothingDroppedUnsaid' /\ NamedIsNotHonoured' /\ HoldsToListing'
  BY <1>1, <1>2 DEF NothingDroppedUnsaid, NamedIsNotHonoured, HoldsToListing, NoWire
<1>8. OfferedIsTaken'
  <2>1. SUFFICES ASSUME outcome' = "tools_off", Has(request', "tools"), view'.tools # "no", ~changed
                 PROVE  FALSE
    BY <1>1, <1>2 DEF OfferedIsTaken, Has
  <2>2. PICK l0 : view = Offered(l0, off)
    BY <1>1, <2>1 DEF SettingsInv, ToldThen
  <2> QED
    BY <1>1, <1>2, <2>1, <2>2, OfferedToolsSame
<1> QED
  BY <1>3, <1>4, <1>5, <1>6, <1>7, <1>8 DEF SettingsInv

\* What is named is named of what is known at that moment.
LEMMA NameIgnoredKeeps ==
  ASSUME SettingsInv, NameIgnored
  PROVE  SettingsInv'
<1>1. /\ stage = "admitted" /\ outcome = "none" /\ wire = NoWire /\ stage' = "named"
      /\ header' = IF serving THEN Ignored(request, Entry(llama, off), llama, off) ELSE {}
      /\ UNCHANGED <<backend, llama, off, serving, view, changed, request, target, outcome, wire>>
  BY DEF SettingsInv, Unanswered, NameIgnored, knowledge, told
<1>2. (NothingDroppedUnsaid /\ NamedIsNotHonoured /\ OfferedIsTaken /\ HoldsToListing)' /\ Unanswered'
  BY <1>1, NothingYet DEF Unanswered
<1>3. SettingsTypeOK'
  <2>1. Ignored(request, Entry(llama, off), llama, off) \subseteq request.caller
    BY DEF Ignored
  <2>2. header' \subseteq Settings
    BY <1>1, <2>1 DEF SettingsInv, SettingsTypeOK, RequestType
  <2> QED
    BY <1>1, <2>2 DEF SettingsInv, SettingsTypeOK, RequestType
<1>4. MayKnow(llama)' /\ MayKnow(llama)
  BY <1>1, SameBackend DEF SettingsInv
<1>5. ToldThen'
  BY <1>1, SameBackend DEF SettingsInv, ToldThen
<1>6. NamedThen'
  <2>1. off \in BOOLEAN
    BY DEF SettingsInv, SettingsTypeOK
  <2> QED
    BY <1>1, <1>4, <2>1, SameBackend DEF NamedThen
<1>7. ResolvedThen'
  BY <1>1 DEF ResolvedThen
<1> QED
  BY <1>1, <1>2, <1>3, <1>4, <1>5, <1>6, <1>7 DEF SettingsInv

\* What is resolved is resolved of what is known at that moment.
LEMMA ResolveKeeps ==
  ASSUME SettingsInv, Resolve
  PROVE  SettingsInv'
<1>1. /\ stage = "named" /\ outcome = "none" /\ wire = NoWire
      /\ \/ serving /\ target' = Entry(llama, off) /\ stage' = "resolved" /\ outcome' = "none"
         \/ stage' = "answered" /\ outcome' = "500"
      /\ UNCHANGED <<backend, llama, off, serving, view, changed, request, header, wire>>
  BY DEF SettingsInv, Unanswered, Resolve, End, knowledge, told
<1>2. NothingDroppedUnsaid' /\ NamedIsNotHonoured' /\ OfferedIsTaken' /\ HoldsToListing' /\ Unanswered'
  BY <1>1 DEF NothingDroppedUnsaid, NamedIsNotHonoured, OfferedIsTaken, HoldsToListing, NoWire, Unanswered
<1>3. SettingsTypeOK'
  BY <1>1 DEF SettingsInv, SettingsTypeOK, RequestType
<1>4. MayKnow(llama)' /\ MayKnow(llama) /\ (stage' = "idle" => ~changed')
  BY <1>1, SameBackend DEF SettingsInv
<1>5. ToldThen'
  BY <1>1, SameBackend DEF SettingsInv, ToldThen
<1>6. NamedThen'
  BY <1>1, SameBackend DEF SettingsInv, NamedThen
<1>7. ResolvedThen'
  <2>1. off \in BOOLEAN /\ llama \in {"unknown", "yes", "no"}
    BY DEF SettingsInv, SettingsTypeOK
  <2> QED
    BY <1>1, <2>1, SameBackend DEF ResolvedThen
<1> QED
  BY <1>2, <1>3, <1>4, <1>5, <1>6, <1>7 DEF SettingsInv

\* The step that the properties are about, from the three moments before it.
LEMMA SendKeeps ==
  ASSUME SettingsInv, Send
  PROVE  SettingsInv'
<1> DEFINE l == llama'
<1>1. /\ stage = "resolved" /\ stage' = "answered"
      /\ UNCHANGED <<backend, off, serving, view, changed, request, header, target>>
      /\ l = llama \/ (llama = "unknown" /\ l = backend.llama /\ backend.dialect \in {"compatible", "ollama"})
      /\ \/ Refused(request, target, l, off) /\ outcome' = "refused" /\ wire' = wire
         \/ /\ ~Refused(request, target, l, off) /\ outcome' = "sent"
            /\ wire' = Payload(request, target, l, off)
  BY DEF Send, End, told, AsksProps
<1>2. /\ ABackend /\ RequestType(request) /\ MayKnow(llama) /\ off \in BOOLEAN /\ backend \in BackendType
      /\ wire = NoWire
  BY <1>1, Backed DEF SettingsInv, SettingsTypeOK, Unanswered, ABackend
<1>3. MayKnow(l) /\ MayKnow(llama)' /\ l \in {"unknown", "yes", "no"}
  <2>1. MayKnow(l) /\ l \in {"unknown", "yes", "no"}
    BY <1>1, <1>2 DEF MayKnow, BackendType
  <2> QED
    BY <1>1, <2>1 DEF MayKnow
<1>4. PICK l0 \in {"unknown", llama}, o0 \in BOOLEAN :
        MayKnow(l0) /\ header = Ignored(request, Entry(l0, o0), l0, o0)
  BY <1>1 DEF SettingsInv, NamedThen
<1>5. PICK o1 \in BOOLEAN, l1 \in {"unknown", "yes", "no"} :
        target = Entry(l1, o1) /\ (~changed => o1 = off)
  BY <1>1 DEF SettingsInv, ResolvedThen
<1>6. l0 \in {"unknown", l}
  BY <1>1, <1>4
<1>7. SettingsTypeOK'
  <2>1. wire'.sent \subseteq DOMAIN request.value
    <3>1. Carried(request, target, l, off) \subseteq DOMAIN Shaped(request, target, l).value
      BY DEF Carried
    <3>2. DOMAIN Shaped(request, target, l).value \subseteq DOMAIN request.value
      BY <1>2, <1>5, ShapedIs
    <3> QED
      BY <1>1, <1>2, <3>1, <3>2 DEF Payload, NoWire
  <2> QED
    BY <1>1, <1>3, <2>1 DEF SettingsInv, SettingsTypeOK, RequestType
<1>8. /\ Unanswered' /\ NamedThen' /\ ResolvedThen' /\ (stage' = "idle" => ~changed')
  BY <1>1 DEF Unanswered, NamedThen, ResolvedThen
<1>9. ToldThen'
  BY <1>1, SameBackend DEF SettingsInv, ToldThen
<1>10. CASE outcome' = "sent"
  <2>1. ~Refused(request, Entry(l1, o1), l, off) /\ wire' = Payload(request, Entry(l1, o1), l, off)
    BY <1>1, <1>5, <1>10
  <2> HIDE DEF l
  <2>2. NothingDroppedUnsaid'
    BY <1>1, <1>2, <1>3, <1>4, <1>6, <2>1, Delivered DEF NothingDroppedUnsaid, Is, Has
  <2>3. NamedIsNotHonoured'
    <3>1. \A s \in header :
            /\ s \in request.caller
            /\ \/ s \notin wire'.sent
                  /\ ~(s \in ToolSettings /\ Is(request, "toolChoice", "none")
                         /\ Has(request, "tools") /\ "tools" \notin wire'.sent)
               \/ <<s, request.value[s]>> \in SettingsNotHonoured(l)
      BY <1>2, <1>3, <1>4, <1>6, <2>1, NamedRightly
    <3> QED
      BY <1>1, <3>1 DEF NamedIsNotHonoured, Is, Has, SettingsNotHonoured, EffortByTemplate, l
  <2>4. HoldsToListing'
    BY <1>1, <1>2, <1>3, <2>1, ListingHeld DEF HoldsToListing
  <2> QED
    BY <1>10, <2>2, <2>3, <2>4, <1>1, <1>3, <1>7, <1>8, <1>9 DEF SettingsInv, OfferedIsTaken
<1>11. CASE outcome' = "refused"
  <2>1. Refused(request, target, l, off) /\ wire' = NoWire
    BY <1>1, <1>2, <1>11
  <2>2. NothingDroppedUnsaid' /\ NamedIsNotHonoured' /\ HoldsToListing'
    BY <1>11, <2>1 DEF NothingDroppedUnsaid, NamedIsNotHonoured, HoldsToListing, NoWire
  <2>3. OfferedIsTaken'
    <3>1. SUFFICES ASSUME ~changed, request.caller \subseteq view.settings,
                          Has(request, "tools") => view.tools # "no"
                   PROVE  \/ Has(request, "logprobs") /\ LogprobsHeld(request)
                          \/ backend.dialect = "strata" /\ Is(request, "seed", "zero")
      BY <1>1 DEF OfferedIsTaken, LogprobsHeld, Has, Is
    <3>2. PICK lv : MayKnow(lv) /\ view = Offered(lv, off)
      BY <1>1, <3>1 DEF SettingsInv, ToldThen
    <3> HIDE DEF l
    <3> QED
      BY <1>2, <1>3, <1>5, <2>1, <3>1, <3>2, NotTurnedAway
  <2> QED
    BY <2>2, <2>3, <1>3, <1>7, <1>8, <1>9 DEF SettingsInv
<1> QED
  BY <1>1, <1>10, <1>11

\* Every step keeps the invariant.
LEMMA SettingsStep == SettingsInv /\ [SettingsNext]_settingsVars => SettingsInv'
<1> SUFFICES ASSUME SettingsInv, [SettingsNext]_settingsVars PROVE SettingsInv'
  OBVIOUS
<1>1. CASE UNCHANGED settingsVars
  <2>1. UNCHANGED <<backend, llama, off, serving, view, changed, stage, request, header, target, outcome, wire>>
    BY <1>1 DEF settingsVars
  <2>2. SettingsTypeOK' /\ MayKnow(llama)' /\ Unanswered' /\ (stage = "idle" => ~changed)'
    BY <2>1, SameBackend DEF SettingsInv, SettingsTypeOK, RequestType, Unanswered
  <2>3. ToldThen' /\ NamedThen' /\ ResolvedThen'
    BY <2>1, SameBackend DEF SettingsInv, ToldThen, NamedThen, ResolvedThen
  <2>4. NothingDroppedUnsaid' /\ OfferedIsTaken' /\ HoldsToListing'
    BY <2>1 DEF SettingsInv, NothingDroppedUnsaid, OfferedIsTaken, HoldsToListing, Has, Is, LogprobsHeld
  <2>5. NamedIsNotHonoured'
    BY <2>1 DEF SettingsInv, NamedIsNotHonoured, Has, Is, SettingsNotHonoured, EffortByTemplate
  <2> QED
    BY <2>2, <2>3, <2>4, <2>5 DEF SettingsInv
<1>2. CASE Answered
  BY <1>1, <1>2 DEF Answered
<1> QED
  BY <1>1, <1>2, LookKeeps, ArriveKeeps, NameIgnoredKeeps, ResolveKeeps, SendKeeps, BackgroundKeeps
  DEF SettingsNext

(* Everything the inductive argument keeps.                                *)
LEMMA SettingsInvariance == SettingsSpec => []SettingsInv
BY SettingsStart, SettingsStep, PTL DEF SettingsSpec

\* A setting the caller sent is on the wire, or honoured another way, or says
\* nothing, or is named on the header, for every backend and every request, whatever
\* is learned meanwhile (openai_compat_http.py, _payload_for and ignored_settings).
THEOREM Said == SettingsSpec => []NothingDroppedUnsaid
<1>1. SettingsInv => NothingDroppedUnsaid
  BY DEF SettingsInv
<1> QED
  BY <1>1, SettingsInvariance, PTL

\* What the header names is the caller's, and was not delivered or went to a
\* backend that ignores that value (routes/generate.py, _ignored_header): the engine
\* that sends knows no less of its backend than the route that named.
THEOREM NamedTruly == SettingsSpec => []NamedIsNotHonoured
<1>1. SettingsInv => NamedIsNotHonoured
  BY DEF SettingsInv
<1> QED
  BY <1>1, SettingsInvariance, PTL

\* What /v1/info offered is not refused when it comes, unless the tools have been
\* learned off or on since, or for the two refusals that depend on a value
\* (base.py, refuse_unsupported_settings).
THEOREM TakenAsOffered == SettingsSpec => []OfferedIsTaken
<1>1. SettingsInv => OfferedIsTaken
  BY DEF SettingsInv
<1> QED
  BY <1>1, SettingsInvariance, PTL

\* Where OpenRouter is asked for providers that take every parameter, the caller's
\* settings and what rides with tools are on the wire only if the listing names them
\* (openai_compat_http.py, _withheld_settings).
THEOREM ListingKept == SettingsSpec => []HoldsToListing
<1>1. SettingsInv => HoldsToListing
  BY DEF SettingsInv
<1> QED
  BY <1>1, SettingsInvariance, PTL

\* What is known, told and sent stays in its type, and nothing is on the wire that
\* the request does not carry.
THEOREM SettingsTyped == SettingsSpec => []SettingsTypeOK
<1>1. SettingsInv => SettingsTypeOK
  BY DEF SettingsInv
<1> QED
  BY <1>1, SettingsInvariance, PTL
=============================================================================
