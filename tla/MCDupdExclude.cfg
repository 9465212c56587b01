SPECIFICATION Spec
CONSTANTS
  Inodes = {1, 2, 3, 4}
  st_ino <- MCst_ino
  Contents <- MCContents
  Disks <- MCDisks
  MaxChanges = 2
  MaxTime = 1
  MaxFailures = 1
  IntSize = 4
  cache_min_size = 0
  minimum_file_size = 1
  Options <- ExcludeOptions
  Links = {"hard"}
  Asked <- MCAsked
  Walks = {"ls"}
  MaxCommands = 3
  MaxEvents = 4
INVARIANT OnlyExcludedIgnored
CHECK_DEADLOCK FALSE
