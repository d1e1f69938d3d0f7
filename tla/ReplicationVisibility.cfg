SPECIFICATION FairSpec
CONSTANTS
  Entity = {0, 1, 2}
  Component = {1, 2}
  LocalComponent = {}
  Field = {0}
  Value = {1, 2}
  Peer = {1}
  Bundle = {{2}}
  Absent = Absent
  ReAddUnsent = FALSE
  LocalEntities = FALSE
  StaleWrites = TRUE
  PeerState = 1
  PeerPrefab = {1}
  StatusField = 0
  Connected = 1
  Disconnected = 2
  DefaultVisible = FALSE
  MayHide = TRUE
  ListsPeers = TRUE
  Ordered = TRUE
  FullMidTick = FALSE
  MaxEdits = 3
  MaxInFlight = 1
  MaxClosed = 1
INVARIANTS
  DeltasEncodable
  ValuesAgree
PROPERTIES
  UpdateReconciles
  Converges
