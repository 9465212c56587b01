SPECIFICATION Spec
CONSTANTS
  WordSize = 64
  UINT16_MAX = 65535
  hash_one_block_size = 1
  round1_max_bytes = 1
  use_hash_cache = TRUE
  K512 = 2
  MB2 = 2
  MB16 = 4
  Sets = {1, 2}
  Files <- MCFiles
  setOf <- MCSetOf
  blocksOf <- MCBlocksOf
  readList <- MCReadList
  Instances <- FlushAndFail
  Hashers = {0, 1}
  max_open_files = 2
INVARIANT SanityChecksHold
