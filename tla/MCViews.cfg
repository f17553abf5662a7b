SPECIFICATION Spec
CONSTANTS
  NoObs = NoObs
INVARIANTS WindowConsistent ListIsArrangement  PlotIsOfView
CHECK_DEADLOCK FALSE
