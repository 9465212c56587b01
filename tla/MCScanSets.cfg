SPECIFICATION Spec
CONSTANTS
  WordSize = 64
  hash_one_block_size = 2
  round1_max_bytes = 3
  K512 = 3
  MB2 = 3
  MB16 = 3
  UINT16_MAX = 100
  Files <- MCFiles
  Inodes <- MCInodes
  sizeOf <- MCSizeOf
  extentsOf <- MCExtentsOf
  contentOf <- MCContentOf
  minimum_file_size = 1
  cache_min_size = 1
  SMALL_GROUP_SMALL_FILES_LIMIT = 2
  SMALL_GROUP_LARGE_FILES_LIMIT = 2
  Instances <- ScanInstances
  use_hash_cache = TRUE
  IntSize = 64
  MaxExtents = 2
INVARIANTS BlocksCounted ReadListComplete OnePathPerInode ReadyToRead CachedVerdicts ExitsForMissing
PROPERTY GroupsBySize
