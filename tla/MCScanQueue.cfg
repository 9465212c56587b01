SPECIFICATION FairSpec
CONSTANTS
  QueueCount = 4
  QueueLength = 2
  MaxFiles = 20
INVARIANTS TypeOK QueueExclusion SanityChecksHold NoLostWakeup IInv
PROPERTIES ImplementsFifo ScanCompletes
