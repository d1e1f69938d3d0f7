---- MODULE MCPeerSession ----
EXTENDS PeerSession
Channels == [World |-> "reliable", Peer |-> "unreliable", Entity |-> "reliable"]
Hashes == [p \in Peer |-> IF p = "a" THEN {"h1", "h2"} ELSE {"h1"}]
====
