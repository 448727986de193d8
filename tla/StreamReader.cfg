CONSTANTS
  Stalls = {0, 2}
  Budget = 3
  MaxLines = 4
  MaxWire = 1
SPECIFICATION Spec
INVARIANTS AnswerIsWhole StallIsSilence WedgeIsSeen
PROPERTY EveryStreamEnds
