SPECIFICATION Spec
CONSTANTS
  Components <- AllComponents
  Commands <- AllCommands
  SchemaId = 300
INVARIANTS
  WireTypeOK
  PacketReadWhole
  ReplicaWithinAStep
