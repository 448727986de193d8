CONSTANTS
  apiKey = apiKey
  modelId = modelId
  stall = stall
  k1 = k1
  k2 = k2
  a = a
  b = b
  Unset = Unset
  Invalid = Invalid
  NoKey = NoKey
  Absent = Absent
  Broken = Broken
  Torn = Torn
  Unknown = Unknown
  Values = {a, b}
  MasterKeys = {k1, k2}
  Managed <- MCManaged
  Fields <- MCFields
  Secrets <- MCSecrets
  Restart <- MCRestart
  Default <- MCDefault
SPECIFICATION Spec
INVARIANTS AcknowledgedIsSaved PendingIsExact
PROPERTY SealedStaysSealed
