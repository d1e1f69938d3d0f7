SPECIFICATION FairSpec
CONSTANTS
  Key = {k1, k2}
  ClientTick = {0, 1}
  MaxSamplesPerPacket = 2
  MaxPendingSamples = 3
  MaxStreamsPerPeer = 1
  CountLimit = 2
  MaxPushes = 4
  MaxRestarts = 1
INVARIANTS
  StreamTypeOK
  DroppedIsSettled
  WindowsAreComplete
PROPERTIES
  ImplementsSampleLog
  BuffersSettle
CHECK_DEADLOCK FALSE
