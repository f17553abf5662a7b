SPECIFICATION Spec
CONSTANTS
  NoObs = NoObs
INVARIANTS SourcesAnswer  EditsKeepRules
CHECK_DEADLOCK FALSE
