SPECIFICATION Spec
CONSTANTS
  Engines = {"claude", "codex"}
  Modes = {"generate", "stream"}
  MaxLines = 3
  PipeRoom = 2
  ErrRoom = 1
  Chats = 2
INVARIANTS
  TornDownInOrder
  VerdictIsTheChilds
PROPERTIES
  EveryCallEnds
CHECK_DEADLOCK FALSE
