SPECIFICATION FairSpec
CONSTANT
  Scenarios <- ServedScenarios
PROPERTIES FirstLineServed
