SPECIFICATION Spec
CONSTANTS
  Entity = {0, 1}
  Component = {1, 2, 3}
  LocalComponent = {3}
  Field = {0}
  Value = {0, 1}
  Peer = {1}
  Bundle = {{}, {1}, {2}, {3}, {1, 2, 3}}
  Absent = Absent
  ReAddUnsent = FALSE
  LocalEntities = TRUE
  StaleWrites = FALSE
INVARIANTS
  WorldTypeOK
  DirtyEncodable
  DeltaComplete
  ReplicatedIffComponent
  MarksMatchStore
PROPERTY ImplementsMirroring
