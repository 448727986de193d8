SPECIFICATION SettingsSpec
CONSTANTS
  Backends <- MCBackends
  Requests <- MCRequests
INVARIANTS
  NothingDroppedUnsaid
  NamedIsNotHonoured
  OfferedIsTaken
  HoldsToListing
