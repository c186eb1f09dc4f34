SPECIFICATION FairSpec
CONSTANTS
  Bases = {"ide", "fifo", "speed"}
  IdeBases = {"ide"}
  Deaf = {"speed"}
  SpeedBase = "speed"
  Key = 161
  Enables <- SomeBytes
  Dwords <- SpeedWords
INVARIANTS EdgeDevicesAgree SpeedIsSetAtOnce
PROPERTIES ImplementsIoCycles EveryAccessAnswered TakenOnce
