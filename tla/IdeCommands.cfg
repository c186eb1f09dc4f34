SPECIFICATION FairDiskSpec
CONSTANTS
  BufWords = 8
  CountLimit = 16
  Words = 2
  Radix = 3
  Capacity = 5
  Burst = 2
  Geometry <- FourPerCylinder
  Scenarios <- AllScenarios
INVARIANTS ReadsWhatItAskedFor WritesReachTheImage AnswersThisCommand
PROPERTIES OneUserOfTheBuffer EveryCommandEnds
