SPECIFICATION FairSpec
CONSTANTS
  Channels = {1, 2, 5}
  Radix = 2
  Pages = {0, 1}
  Data = {d1, d2}
  Scenarios <- AllScenarios
INVARIANTS OneChannelAtATime TransfersAsPromised MovesNoMore BlockAddressing
PROPERTIES FirstChannelServed
