SPECIFICATION Spec
CONSTANT
  Scenarios <- LateScenarios
INVARIANT InServiceIsHandled
