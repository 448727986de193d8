SPECIFICATION Spec
INVARIANTS
  AnsweredMeansReleased
  ResultReachesCaller
PROPERTIES
  LeavingReleases
