SPECIFICATION FairSpec
CONSTANTS
  RamDwords = 2
  Window = 2
  Banks = {0, 1}
  Scenarios <- AllScenarios
  SteadyBusy = TRUE
INVARIANTS AnswersAsPromised WritesArrive OnePath
PROPERTIES EveryReadAnswered
