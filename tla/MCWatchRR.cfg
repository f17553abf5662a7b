SPECIFICATION Spec
CONSTANTS
  NoObs = NoObs
  Pars = {"RR_24"}
  FirstDay = 1
  LastDay = 4
  Cards <- MCCards
  Changes <- MCChanges
  Amounts <- MCAmounts
  Weights <- MCWeights
  MaxRows = 2
  MaxVersion = 2
  MaxSessions = 1
INVARIANTS AnalysisComplete ButtonsCurrent
PROPERTIES CutIsMarked NoRemnantSaved EdgesUntouched 
CHECK_DEADLOCK FALSE
