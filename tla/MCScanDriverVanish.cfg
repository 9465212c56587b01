SPECIFICATION Spec
CONSTANTS
  init_size = 12
  Growth = 2
  Reserve = 0
  MaxRequest = 10
  ByteSize = 8
  direntry_size = 10
  DUPD_PATH_MAX = 7
  IntSize = 64
  LongSize = 256
  DEF_HDD_hash_one_block_size = 4
  DefaultBlocks = 8
  K512 = 16
  MB1 = 2
  MB8 = 16
  GB1 = 32
  L_PROGRESS = 3
  L_MAX_LOG_LEVEL = 13
  MAX_START_PATH = 3
  MaxExtents = 2
  Instances <- VanishInstances
  Times <- MCTimes
INVARIANT CountsMatch
