CONSTANTS
  Texts <- MCTexts
  MaxPieces = 4
  StopSets <- MCStopSets
  MaxInterrupts = 1
  MaxCalls = 3
  MaxArgs = 2
  MaxTurns = 2
SPECIFICATION FiltersSpec
INVARIANTS SentIsVisible NothingPastAStop CallsAsWhole ResultsMeetTheirCalls
CHECK_DEADLOCK FALSE
