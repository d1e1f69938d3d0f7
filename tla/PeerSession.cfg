SPECIFICATION FairSpec
CONSTANTS
  Peer = {"a", "b"}
  ServerHash = "h1"
  ClientHash <- Hashes
  NoHash = "none"
  Watcher = {"b"}
  Channel <- Channels
  MaxSends = 1
  MaxLives = 3
INVARIANTS SessionTypeOK AssignedMatchesServer CommandsFromSender EventsToReceiver
PROPERTIES Joins
CHECK_DEADLOCK FALSE
