SPECIFICATION FairSpec
CONSTANTS
  Commands <- SomeCommands
  Moves <- TwoMoves
  LIMIT = 2
  KBD_GAP = 2
  MOUSE_GAP = 1
  FIFO_SIZE = 3
  MAX_KEYS = 1
  MAX_COMMANDS = 2
  MAX_MOVES = 1
  None = None
INVARIANTS CommandsHandledOnce NoByteRefused MotionConserved
PROPERTIES CommandsAnswered
