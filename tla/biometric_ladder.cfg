SPECIFICATION FairSpec
CONSTANTS
  Scores <- MCScores
  Stage3Orders <- MCOrders
INVARIANTS
  TypeOK
  RealStage3Match
  EnoughMeasured
  StepUpOnlyWithoutStage3
PROPERTIES
  KeepsContract
  CallAnswered
