SPECIFICATION Spec
CONSTANTS
  Entity = {0, 1, 2, 3}
  Component = {1, 2}
  LocalComponent = {}
  Field = {0}
  Value = {1, 2}
  Peer = {1, 2}
  Bundle = {{2}}
  Absent = Absent
  ReAddUnsent = FALSE
  LocalEntities = FALSE
  StaleWrites = FALSE
  PeerState = 1
  PeerPrefab = {1}
  StatusField = 0
  Connected = 1
  Disconnected = 2
  DefaultVisible = TRUE
  MayHide = FALSE
  ListsPeers = TRUE
  Ordered = FALSE
  FullMidTick = FALSE
  MaxEdits = 2
  MaxInFlight = 1
  MaxClosed = 0
INVARIANTS
  ReplicationTypeOK
  KnownMatchesReplica
  NoGhosts
  OwnersAgree
PROPERTIES
  UpdateReconciles
