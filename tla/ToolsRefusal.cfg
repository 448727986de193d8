CONSTANTS
  Models = {m1, m2}
  OnlyModel = m1
  Requests = {r1, r2}
  Tasks = {t1, t2}
  NoTask = NoTask
  NoModel = NoModel
SPECIFICATION Spec
INVARIANTS
  SomebodyAsks
PROPERTIES
  OnlyAnAnswerClears
  ToolsComeBack
