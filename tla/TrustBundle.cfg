CONSTANTS
  Nobody = Nobody
  Sessions = {"s"}
  Inodes = {1, 2}
  Lifetime = 1
  Leeway = 1
  MaxTime = 3
  MaxEpoch = 2
  MaxVersion = 3
SPECIFICATION Spec
PROPERTIES RuledOutStaysOut SupersededRootIsSilent CatchesUp
