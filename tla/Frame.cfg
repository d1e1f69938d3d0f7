SPECIFICATION FairSpec
CONSTANTS
  Kind = {"rpc", "snapshot"}
  Validated = {"rpc"}
  Handler <- Handlers
  SystemName = {"s"}
  UsedPhase = {"update"}
  MaxPackets = 2
  MaxSystems = 2
  MaxFailures = 1
INVARIANTS PacketsInOrder CalledOncePerPacket SystemsRunOnce
PROPERTIES PacketsDispatched EditsSent
CHECK_DEADLOCK FALSE
