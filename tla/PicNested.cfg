SPECIFICATION Spec
CONSTANT
  Scenarios <- SafetyScenarios
INVARIANTS AnswersOnce InServiceIsHandled NestsByPriority
PROPERTIES TakesWhatIsRequested
