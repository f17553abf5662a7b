SPECIFICATION Spec
CONSTANTS
  NoObs = NoObs
INVARIANTS ErrorsListed SearchAgrees AnswersShown
CHECK_DEADLOCK FALSE
