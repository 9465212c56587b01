SPECIFICATION FillSpec
CONSTANTS
  WordSize = 64
  hash_one_block_size = 2
  round1_max_bytes = 4
  use_hash_cache = FALSE
  K512 = 3
  MB2 = 2
  MB16 = 3
  Layouts <- AllLayouts
  MaxExtents = 3
INVARIANT FilledIsReady
