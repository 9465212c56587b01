SPECIFICATION HashingSpec
CONSTANTS
  WordSize = 64
  hash_one_block_size = 2
  round1_max_bytes = 4
  use_hash_cache = FALSE
  K512 = 3
  MB2 = 2
  MB16 = 3
  Layouts <- ReadableLayouts
  MaxExtents = 3
  Files = {f1, f2, f3}
  Hashes = {1, 2, 3, 4}
  Buckets = {0, 1}
  Bucket <- MCBucket
  NoHash = 0
INVARIANTS DataIsFilePrefix RoundsAligned BlockInList TypeOK ChainsOK
PROPERTIES FullyHashed IsHashGroups
