# snapscript in TLA+

A formal model of snapscript (`packages/snapscript`): an ECS world on a server that is
replicated to client worlds by snapshots.  This directory holds TLA+ modules, the TLC
configurations that check them on small instances, and TLAPS proofs.  Paths below are
relative to `packages/snapscript/src/` unless they name a doc or a test.

## 1. The system

snapscript is single-threaded TypeScript.  A program calls `ServerWorld` methods
(`spawn`, `add`, `remove`, `destroy`, `setOwner`, field writes, `setVisible`) from systems,
RPC handlers and between ticks; `tick()` drains the packets queued since the last tick,
runs the systems and ends with one `update()` that sends what changed.  Clients do the
same with a `ClientWorld`, which applies the snapshots it receives.

| component | state | operations | talks to |
|---|---|---|---|
| dirty graph (`world/dirty-graph.ts`) | six sets of marks since the last snapshot | `mark*`, `collectOps`, `clearWritten` | called by the world, read and cleared by snapshot encoding |
| world (`world/world.ts`, `net-ref.ts`) | entities, records, owners, replicated set, PeerEntities, next id | `spawn`, `add`, `remove`, `destroy`, `setOwner`, writes, `ensurePeerEntity`, `_apply*FromRemote` | marks the graph; storage |
| snapshots (`sync/snapshot.ts`) | none | `encodeDirty`, `encodeFullSnapshot`, `encodeSnapshotOps`, `applySnapshot` | reads a world when encoding, calls `_apply*` when applying |
| server runtime (`runtime/index.ts`) | per peer: known entities, known components, capabilities; peers seen; stream positions | `onPacket`, `sendFullSnapshot`, `start`, `update`, RPC sends | world, graph, transport |
| client runtime (`runtime/index.ts`) | assigned peer, stream buffers and sequence numbers | `onPacket`, `start`, `requestFullSnapshot`, `update`, `pushCommandStream` | client world, transport |
| tick and queues (`world/world.ts`) | packets received since the last tick | `drain`, `tick` | runtimes, program |
| visibility (`world/world.ts`) | overrides per peer and entity, default, interest function | `setVisible`, `clearVisible`, `isVisible` | asked by the server runtime |
| command streams (`runtime`, `rpc/stream-packet.ts`) | buffers, sequence numbers, acknowledgements | push, send, filter, acknowledge | unreliable channel |
| RPC dispatch (`runtime`, `rpc/*`) | handler tables | register, remove, dispatch | program |
| peer session (`runtime`, `sync/control.ts`) | peer ids, assigned PeerEntity, protocol hash | Hello, PeerAssigned | world |
| storage (`world/storage.ts`) | dense tables, sparse index, archetype buckets, cached matches | set, remove, delete, query | world |
| schemas, codecs, binary | immutable tables; pooled writers | conversions, validation | everywhere |
| protocol, registry | immutable tables | validation | runtimes, generated modules |
| IDL compiler (`snapscript-cli`) | the author's files | load, check, manifest, generate | generated modules, hash handshake |
| project tools, examples | files | text generation | outside the running system |

What is hard here, and is what the properties are about:

* **One shared graph, many peers.**  All peers share one dirty graph, but full snapshots are
  sent to one peer and clear marks in it, between an edit and the update that would have told
  the others.
* **Bookkeeping instead of confirmation.**  What a peer has (`knownEntities`,
  `knownComponents`) is recorded when a packet is sent.  Filters for structure, deltas and the
  fast path all rest on it; one wrong entry is never repaired.
* **Marks that cancel.**  Additions, removals, creations and destructions of the same thing
  cancel or replace each other in the graph; the replica must come out right for every sequence.
* **Two channels.**  Structure goes over the reliable channel, field deltas and stream samples
  over the unreliable one: they overtake, arrive late or twice, get lost.
* **Program code in the middle.**  Handlers, systems and query callbacks register others, edit
  what is being iterated, make packets arrive and throw.
* **Failure in the middle.**  Encoding throws on a record that is gone or a value that does not
  fit, applying throws on an unknown component; what came before has already happened.
* **Peers that leave and return** under the same reference, with packets of the old connection
  still queued, and PeerEntities that outlive them.
* **Bytes without tags.**  Packets have no lengths and no field names: writer and reader must
  agree on every bit, and two builds of the sources on every layout.

`PROJECT.json` lists every hazard at its line with the properties that guard it.

## 2. Modules

```
DirtyGraph   marks: pure operators on a record of six sets
   |
World        store + owners + replicated set + graph; one action per mutating method
   |
Snapshot     packets: what is encoded from a world, how a replica applies it
   |    \
   |     Replication   server runtime, transport, clients        (MCReplication)
   |
DeltaSync    encodeDirty feeding one replica                      (MCDeltaSync)
        \--- Mirroring    abstract: atomic transfer               (refined by DeltaSync)

Proofs (TLAPS), each extending those above it:
SnapshotProofs    the graph and the world, packets and sequences of them
   |    \--- DeltaSyncProofs      one replica, and Mirroring
ReplicationProofs    the server and its clients: types, channels, what peers are taken to have
BookkeepingProofs    the shared marks against that; owners and values

SparseStorage  tables, archetypes, queries under way              (MCStorage)
        |--- RecordMap    abstract: a map of records              (refined by SparseStorage)
        \--- StorageProofs  TLAPS
CommandStream  input samples over an unreliable channel
        |--- SampleLog    abstract: at most once, in order        (refined by CommandStream)
        \--- CommandStreamProofs  TLAPS
Frame          one tick: queue, handlers, phases, update          (MCFrame)
        \--- FrameProofs  TLAPS
PeerSession    ids, PeerEntities, handshake, sources and targets  (MCPeerSession)
        \--- PeerSessionProofs  TLAPS
Binary -> FieldCodec -> Wire   bits, field types, packets         (MCWire)
SnapIdl        the .snap compiler and its builds                  (MCSnapIdl)
```

### World and replication

* **DirtyGraph** models class `DirtyGraph` method by method.  A graph is a record of six sets;
  field masks are sets of `<<entity, component, field>>`.
* **World** models `WorldCore`.  `storage[e][c]` is a row or `Absent`.  A call is one step,
  because calls are synchronous.  Prefabs are the members of `Bundle`: the set of components
  that one `spawn`, `add` or `remove` names; the code loops over them and the graph operators
  take the set.  `detached` holds the keys of removed records, whose frozen instances the
  program may still hold: `StaleWrite` is a write through one, which marks a field of a record
  that is gone (`world.ts:1434`).
* **Snapshot**: a packet is six sets, applied in the order create, add, network, update,
  remove, destroy.  `Encode` reads values and owners when the packet is written.  `Apply`
  keeps what came before an operation that throws, and drops the rest, as `applySnapshot` does.
* **DeltaSync** composes a world with one replica fed by `encodeDirty`: the contract of the
  graph itself.  It implements **Mirroring** under `source = ReplicatedView`, `copy = mirror`,
  `pending = dirty # NothingDirty`: any change, and a transfer that makes the copy equal to the
  source, with no transfer needed when nothing is pending.
* **Replication** composes the same world with `createSyncServer`, a transport and one client
  world per peer.  `HandleHello` is the control branch of `onPacket`, `HandlePacket` its prefix
  for every other packet (it ensures the PeerEntity; what a handler then does are edits),
  `ResendFullSnapshot` is `start()` and `sendFullSnapshot(peer)`, `Update` is `update()` with
  its shared fast path and its peer-by-peer path, including the exception that ends it.
  `inOrder[p]` is the ordered stream to a peer, `loose[p]` the unreliable packets.
  `Ordered = TRUE` is what the in-memory transport (`platform/index.ts:33`) and the WebSocket
  transport of the example do; `FALSE` lets field deltas be overtaken, delayed or lost.
  `Disconnect` loses all packets and the client; one that connects later under the same
  reference is new.  `synced` is a history variable: peers whose connection began with no
  bookkeeping about them, or who were sent a full snapshot since.

### Storage

* **RecordMap** is `MapComponentStorage`, the simple storage: records by entity, in the order
  in which they were first set.  It is also the specification of the other.
* **SparseStorage** is `SparseSetComponentStorage`, the storage that worlds use: one dense
  table per component whose last row moves into the hole of a removed one, the index of
  archetypes for entities with two components or more, buckets that stay when they are empty,
  and the cache of matching archetypes.  A call is an operator on the record of the storage.
  `cursor` is a query under way: the plan is made by `Start` (`queryRows`: a table, or the
  archetypes if they hold fewer entities), each `Visit` is one row, and between two visits the
  callback edits the storage.  A position in a table is an index and stays where it is when
  rows move; one in a `Set` moves with the elements, which is what `AfterEdit` computes.

### Streams, ticks and sessions

* **CommandStream** is both ends of a command stream.  `Push` is `pushCommandStream` (a number
  is taken even when the call throws), `Update` the client's `update()` with the exception that
  ends it, `ReceiveSamples` and `ReceiveAck` the two branches of `onPacket`.  Samples are
  encoded as unsigned differences, so that a `clientTick` that goes back cannot be encoded.
  Packets stay in `toServer` and `toClient` until they are lost: they come in any order,
  repeatedly or never.  A packet that nobody receives need not be taken away, so only the losses
  that a client notices are actions: of a packet with the last sample (`LosePacket`) and of the
  answer to it (`LoseAck`).  The history variable `lost` has the streams of which one of them
  happened since the last push.
  `Restart` is a new client under the same reference, for which the server keeps its numbers.
  **SampleLog** is the promise: what was issued is handled at most once and in order.
* **Frame** is one tick of a server or client world.  `stage` and `todo` are the program
  counter: draining, then the four phases, then the update; `todo` is the copy of the handlers
  or systems that is being called.  `running` is TRUE while code of the program runs, which may
  then take any action of the program: register and remove handlers and systems, edit the
  world, make packets arrive (a transport in the same process).  A system that throws is
  `AbortTick`; handlers that throw are caught.
* **PeerSession** is about identity: `PeerIds`, `ensurePeerEntity`, the answers to Hello and
  FullSnapshotRequest, the check of hashes on both sides, `markDisconnectedPeers`, and the
  source and target that handlers of the three kinds of endpoint see.  The tables of the
  runtime are the record `server`, so that a handler is a composition of operators on it.
  Snapshots only tell which entities enter and leave the view.  A connection that closes leaves
  packets that the server's world has queued, which are handled later under the same reference.

### Bytes

* **Binary**: `BitWriter`, `ByteWriter`, their readers, and varints.  A writer is a record of
  bytes and waiting bits, so that a writer that is used again after a failed encoding is a
  state.  Integers have their width: `Digits` and `Number` are base 256, negative numbers two's
  complement, a bit mask a number.
* **FieldCodec**: for each kind of field what it writes, reads, compares and refuses.
  Quantized values, angles and clamping are computed as the code does, with integers for the
  fractions.
* **Wire**: one component or one RPC whose `layout` is a sequence of fields, a server and a
  client, and one packet under way: `SendFull`, `SendUpdate` (with the batches of
  `encodeDirtyBatched`, and single updates), `SendCall`, `Deliver`.  The bytes are written and
  read bit by bit.

### Sources and builds

* **SnapIdl**: an author writes and deletes declarations in three files (`Write`, `Erase`) and
  builds at any time (`Build`).  `Compile` is `generateSnapFile`: `Visit` loads imports,
  `Checked` is `validateAst` and `buildContext`, `Manifest` gives ids by position, `Codec` and
  `Layout` are what the generated module and `defineComponent` / `defineRpc` make of the fields.
  `built` is an earlier build: that of the other side.  What happens when the generated module
  is imported has two parts.  `Evaluates` says that it runs up to `defineProtocol`: of the
  names it declares and imports (`Consts`, `Imports`) none is there twice, endpoint and RPC
  being joined into one name, and every field helper exists and takes its arguments (`Accepts`).
  `Registers` is the registry that `defineProtocol` fills: with the RPCs, and with the built-in
  and declared components and those that `defineEntity` makes for entities without components
  (`RegisteredComponents`).

A definition whose comment begins with "Mutant" is not part of the model.  It is a definition
with a plausible mistake, used to see that a property notices it.

### Preconditions as constants

Some properties hold only if the program or its environment avoids something that the code
mishandles.  Each is a named constant of World and Replication.

| constant | meaning | in the runs |
|---|---|---|
| `ReAddUnsent` | a component may come back before its removal was sent | FALSE |
| `LocalEntities` | entities without replicated components exist on the server | TRUE in `delta_sync`, FALSE in the replication runs |
| `StaleWrites` | the program writes through instances of removed components | TRUE in `replication_visibility`, else FALSE |
| `FullMidTick` | a full snapshot for one peer while marks that matter to others are unsent | FALSE, TRUE in `full_snapshot_leaves_ghost` |
| `ListsPeers` | the transport implements the optional `peers()` | TRUE |

Section 5 says what happens with the other values.

## 3. Runs

All state spaces are explored completely.

| run | instance | properties | shows |
|---|---|---|---|
| `delta_sync` | world entity and one other, 2 replicated and 1 local component, prefabs, 2 values, 1 peer | `WorldTypeOK`, `DirtyEncodable`, `DeltaComplete`, `ReplicatedIffComponent`, `MarksMatchStore`, `ImplementsMirroring` | the graph is an exact account of the changes: one delta always makes the replica equal to the replicated view, for every interleaving of edits and deltas |
| `replication_peers` | 2 peers with their PeerEntities, 1 further entity, unordered channel, 2 edits | `ReplicationTypeOK`, `KnownMatchesReplica`, `NoGhosts`, `OwnersAgree`, `UpdateReconciles` | peers that join and ask for full snapshots at any time do not disturb each other, nor do lost, late and overtaking field updates disturb the structure |
| `replication_visibility` | 1 peer, ordered channel, default hidden, `setVisible`/`clearVisible`, stale writes, a reconnect, 3 edits, fairness | `DeltasEncodable`, `ValuesAgree`, `UpdateReconciles`, `Converges` | every update leaves the peer with exactly what it may see, with current values, never throws for a synced peer, and the client ends up with it |
| `command_stream` | 2 streams with a limit of 1, packets of 2 samples, buffers of 3, 4 pushes with 2 client ticks, 1 restart, fairness | `StreamTypeOK`, `DroppedIsSettled`, `WindowsAreComplete`, `ImplementsSampleLog`, `BuffersSettle` | samples are handled at most once and in order; a sample is given up only when the server is past it or `maxPendingSamples` later ones pushed it out; losses before the last push keep no buffer: it is acknowledged unless its last packet or the answer is lost, the server refuses the stream, or a buffer cannot be encoded |
| `storage` | 4 entities, 4 components, 3 shapes to start from, queries of 1, 2 and 3 components, 2 edits by callbacks | `StorageTypeOK`, `RowsAreCurrent`, `UntouchedVisitedOnce`, `MissesCounted`, `ImplementsRecordMap` | tables and archetypes stay a map of records; callbacks see current records, entities they leave alone at most once, and no more entities are missed than rows were moved behind the position |
| `frame` | 2 RPC handlers, 1 snapshot handler, 1 name for systems, 2 packets, 2 systems, 1 failure, fairness | `PacketsInOrder`, `CalledOncePerPacket`, `SystemsRunOnce`, `PacketsDispatched`, `EditsSent` | packets are neither lost nor repeated nor reordered; each reaches the handlers that were registered when its dispatch began; throwing systems only delay edits |
| `peer_session` | 2 references, 3 connections, a foreign hash for one, 1 send, reliable and unreliable endpoints, fairness | `SessionTypeOK`, `AssignedMatchesServer`, `CommandsFromSender`, `EventsToReceiver`, `Joins` | nobody is taken for somebody else across reconnections; whoever matches and stays learns who it is |
| `wire` | 11 layouts over 18 field types, 4 calls, edge values, 1 to 3 entities | `WireTypeOK`, `PacketReadWhole`, `ReplicaWithinAStep` | readers consume exactly what was written, also after a failed encoding; arguments arrive; rounding never adds up to more than a step |
| `snap_idl` | 3 files, up to 4 declarations of 12 | `LayoutsAgree`, `GeneratedLoads` | equal hashes mean equal wire formats; ids given by position clash in a module that runs up to `defineProtocol` only where an entity without components stands at a component's position |

Three more runs each check one statement of a test or a doc and find it violated (section 5):
`full_snapshot_leaves_ghost`, `shared_update_skips_peer` and `last_field`.

**Bounds.**
*World*: ids are allocated once and never reused, so the size of `Entity` bounds spawning;
edits and deltas go on for ever.  One ordinary entity is enough because no operation on one
entity touches marks of another (the lemmas about marks in SnapshotProofs say so for any number).
*Replication*: `MaxEdits` bounds edits and visibility changes, `MaxInFlight` packets on their
way, `MaxClosed` disconnects; full snapshots, packets and updates are unbounded.  Two edits and
two peers contain "one peer's full snapshot between an edit and the update another peer waits
for"; three edits and one peer contain add, remove and write after removal, or hide, change and
show.  What needs more than that, any number of peers, connections and packets, is proved
(section 4).  PeerState is component 1 and has one field that stands for its status.
*CommandStream*: four pushes overrun a buffer of three, which overruns a packet of two; one
stream more than the limit is refused on either side.
*Storage*: the shapes are chosen so that both plans of a wide query occur, that a removal in a
table moves a row across the position, and that an edit makes a new archetype while the cache
is filled; two edits contain a removal and the return of the same record.
*Frame*: two packets, since one may arrive while the other is dispatched; two registrations of
one system name, since a system may remove itself and be added again.
*PeerSession*: three connections of two references contain a reconnection beside a peer that
stays; one send, because history variables keep what is handled.
*Wire*: `MCWire` lists the layouts and says which edge each is about.  Integers are below 2^31,
varints of at most five bytes, arrays not nested, floats stand for their bits.
*SnapIdl*: four declarations contain two imports and an enum behind them, a struct that a
component or an RPC spreads, two definitions that compete for an id or a name (an entity without
components, constants made of joined names, a component named like a built-in one or like the
values of an enum), arguments that a helper refuses, and two entities with RPCs; SHA-256 is
taken to be injective.

**Fairness.**
`Converges`: `SF(Update)`: an engine calls `tick()` for ever, and nothing in the code disables
`update()`; strong fairness is needed only because the model's bound on packets in flight
disables it now and then.  `WF(Deliver(p))`: the reliable channel delivers.
`BuffersSettle`: `WF(Update)` for the client's ticks.  Of the channel nothing is assumed but that
a packet with a client's last sample, and an answer to all its samples, arrive if they are not
lost; they may be lost, and all others with them.  Pushes are not assumed to go on, and
`MaxPushes` ends them.  So the property is about what a push repairs of earlier losses; a loss
after the last push is its exception, since `update()` sends a buffer once (section 5).
`PacketsDispatched`, `EditsSent`: `WF(BeginTick)`, the engine calls `tick()`, and `WF(Step)`,
callbacks return; a tick may be cut short by exceptions `MaxFailures` times.
`Joins`: a client ticks (`WF(Start)`), and both ends empty their queues in the end; the program
of the server is not assumed to call anything.

**Actions fired.**  Between them the passing runs take every action and disjunct of the
next-state relations.

## 4. Proofs

Each theorem is for all entities, components, fields, values, bundles, peers and bounds.

| theorem | states | beyond the modules' assumptions it assumes |
|---|---|---|
| **DeltaSyncProofs** `WorldInvariant`, `TypeCorrect`, `ReplicatedIsExact`, `MarksAreExact` | `WorldInv` is inductive; `WorldTypeOK`, `ReplicatedIffComponent`, `MarksMatchStore` | nothing |
| `DeltasHaveRecords`, `EncodeDirtyNeverThrows` | marked fields have records; `DirtyEncodable` | `StaleWrites = FALSE` |
| `MirrorInvariant`, `DeltasAreComplete` | the replica is no further from the world than the marks say; `DeltaComplete` | `ReAddUnsent = FALSE` |
| `DeltaSyncImplementsMirroring` | `ImplementsMirroring`: initial states map to initial states, each step to a step or a stutter | `ReAddUnsent = FALSE` |
| **ReplicationProofs** `BaseInvariant`, `ReplicationTypeCorrect` | types, store, marks and channels; `ReplicationTypeOK` | nothing |
| `KnownIsExact` | `KnownMatchesReplica` | `LocalComponent = {}` |
| **BookkeepingProofs** `MarksAreSettled`, `NoGhostStays`, `DeltasAlwaysEncodable` | `SettledInv` is inductive; `NoGhosts`, `DeltasEncodable` | `Orderly` |
| `UpdatesReconcile` | `UpdateReconciles` | `Orderly`, `ListsPeers = TRUE` |
| `OwnersAreKnown` | `OwnersAgree` | `Orderly` |
| `ValuesAreCurrent` | `ValuesAgree` | `Orderly`, `Ordered = TRUE` |
| **CommandStreamProofs** `StreamInvariant`, `StreamTypesHold`, `NothingIsDroppedUnsettled`, `WindowsHaveNoGaps` | `StreamInv` is inductive; `StreamTypeOK`, `DroppedIsSettled`, `WindowsAreComplete` | nothing |
| `StreamImplementsSampleLog` | `ImplementsSampleLog`: initial states map to initial states, each step to a step or a stutter | nothing |
| **FrameProofs** `FrameInvariant`, `PacketsStayInOrder`, `HandlersCalledOncePerPacket`, `SystemsRunOncePerPhase` | `FrameInv` is inductive; `PacketsInOrder`, `CalledOncePerPacket`, `SystemsRunOnce` | nothing |
| **PeerSessionProofs** `SessionInvariant`, `SessionTypeCorrect`, `AssignmentsMatch`, `CommandsAreFromSender`, `EventsAreForReceiver` | `SessionInv` is inductive; `SessionTypeOK`, `AssignedMatchesServer`, `CommandsFromSender`, `EventsToReceiver` | nothing |
| **StorageProofs** `StorageInvariant`, `StorageTypeCorrect` | `StorageInv` is inductive; `StorageTypeOK` | nothing |
| `StorageImplementsRecordMap` | `ImplementsRecordMap`: initial states map to initial states, each step to a step or a stutter | nothing |
| `WalkInvariant`, `CallbacksGetCurrentRows`, `UntouchedOnce`, `MissesBounded` | `WalkInv` is inductive; `RowsAreCurrent`, `UntouchedVisitedOnce`, `MissesCounted` | nothing |

The modules' assumptions are `WorldAssumption`, `SnapshotAssumption`, `ReplicationAssumption`,
`StreamAssumption`, `FrameAssumption`, `SessionAssumption` and `StorageAssumption`, which TLC
evaluates in every run whose module extends theirs.  The one that says something of the program
rather than of types is that a query names at least one component and none twice: the world
refuses others (`world.ts:1551`).

**What `Orderly` excludes**, and why each part is needed:

* local components (`LocalComponent = {}`): a full snapshot lists them, and a client ends the
  packet at the first one; then what follows it is known to the server only;
* local entities: a full snapshot lists them, but their destruction is not marked;
* components that come back before their removal was sent (`ReAddUnsent`): the graph then
  trades a removal for an addition the peer is known to have;
* full snapshots while marks about others are unsent (`FullMidTick`): the finding
  `full_snapshot_leaves_ghost`;
* stale writes *together with* closed connections: a peer that is not synced may be taken to
  have a component that is gone, and one delta for it ends every update with an exception.
  Either one alone is allowed, and so is every passing run's instance but
  `replication_visibility`, which has both and shows that one peer, being the only target,
  gets by.

**Arguments.**

*World.*  None of the properties is inductive alone.  That a removed mark has no record
needs that an added component's mark replaces it, which fails for an entity marked destroyed;
that such an entity is not replicated, hence has no replicated record, is the other half of
`MarksMatchStore`.  That the removal of the last component clears the entity's marks is not
true of the world entity, which is not marked destroyed: it needs that the world entity never
has an owner mark (`MarksAreReplicated`), hence no owner (`NoLeftovers`).  `WorldInv` is the
conjunction of these.  `DeltaInv` adds `UpdatesHaveRecords`, which needs that marks of fields
and additions exclude each other: when an unsent addition is taken back, `markRemoved` returns
before it clears the field marks.

*Deltas.*  `MirrorInv` says how far the replica may be behind, thing by thing: an entity is
there on both sides unless marked, a record is equal but for marked fields unless the whole
record is marked, an owner is equal unless marked.  Each method of the graph keeps it because
it marks what it changes and cancels only marks whose effects cancel.  `ApplyEncoded` says
what a packet none of whose operations throws makes of a replica (`After`), record by record;
with the marks as the operations the result is the replicated view.

*Replication.*  `Future(p)` is what p's client will be when the ordered packets have
arrived.  `SnapshotProofs` proves of the recursive `Replayed` that a packet sent is applied
last and one delivered was first, and that unordered field updates, lost or applied anywhere
in between, leave the *shape* (entities, which records, owners) as it is: two replicas of the
same shape have the same shape after the same packets.  So `KnownBy` is kept by every action:
`Bounded` (no more than is known) for any client, `Exact` for synced ones.  It needs `Bounded`
to have `Exact` after a full snapshot, which removes what the server takes the client to have.

`Settled` relates the bookkeeping of one peer to the marks that all share: nothing it has is
marked as new, all it has that is gone is marked as going.  It is what makes it harmless that a
destruction cancels an unsent creation: no peer was told of that creation.  Edits are of four
kinds (`Grows`, `Shrinks`, `Vanishes`, `Stays`), each of which keeps it; an update clears all
marks, and `NextIsVisible` computes that by then the peer has just what it may see, for which
it must not throw (`NeverThrows`).  `OwnedInv` adds the owners; a client without an entity has
no owner for it, which is why owners that are the server need not be sent with a creation.
`ValuedInv` adds values.  A write is not marked if its record is marked as added or its entity
as created, on the ground that it will be written in full; that no synced peer already has it
is `Settled`, but for the world entity, which every client has from the start: `WorldIsNew`
says that while its creation is marked, so is every record of it.  The marks that the update
itself makes for peers that left survive the clearing because they were not read.

*Command streams.*  The numbers in a buffer are the last ones that were given, without a gap
(`BuffersRun`): pushes add the next one, and acknowledgements and the limit take from the front.
So a packet is a run of consecutive numbers too (`PacketsRun`), whose differences are all one
after the first; what a receiver hands on of it is its end, computed by `NewOfRun`.  That the
log grows then follows.  An acknowledgement says no more than the server has processed
(`AcksAreTrue`), also one from before a restart, since the server's numbers only grow; hence
what the client drops is settled (`LeftIsSettled`).  `WindowsAreComplete` needs what is on its
way: of each packet of the first client, what lies less than a packet behind its end but is not
in it had been processed when it was sent (`PacketsComplete`), because the client would
otherwise still have had it in its buffer.  A loss only makes a set of packets smaller, and what
is said of each packet stays true (`FewerPackets`, `LoseStep`).

*Frame.*  That a handler is called once for each packet it is due is not inductive: a dispatch
under way has called some handlers and not yet others, and by then the table may have lost or
gained some.  `OfferedExactly` says which packets a handler was called with, exactly, with the
one it waits for (`Waits`) taken out; `TablesMatchHistory` says that a handler is in its table,
once, from registration to removal, which is what a dispatch starts from; `PacketsInOrder` makes
the number of a packet its place.  `SystemNamesDiffer` joins the names that ran to those that
still wait.  Removal is by place (`RemoveAt`), so that no fact about a recursive filter is needed.

*Sessions.*  The tables of the server only grow: an id, once given, belongs to its reference,
and an entity to its id (`Keeps`).  So everything that was made from them stays true,
however late it is handled: an assignment on its way names the id and the entity of the reference it was sent
to (`Downward`), a peer command names the sender's own entity, other sources are looked up
again when the command is handled, and a client that
took an assignment took a true one (`ClientOK`).  What is not obvious is that one call which
meets several new peers gives each an id and an entity of its own: `Rank` of a peer among the
new ones, in any order of iteration, is one to one and fills `1..Cardinality(new)` (`RankFacts`, `RanksCover`).

*Storage.*  `StorageInv` says how the parts of the storage fit together: each table is well
indexed, an entity's list of components is a list without repetition of the tables it has a row
in, its bucket is that of this set, a bucket has no entity twice, every bucket in use is among
the signatures, and the cache of a query, where it is filled, is what would be computed now.
Each call changes the entry of one entity, so that what it does to all others is nothing; of
tables there are two operators, the new row at the end and the last row moved into the hole.
The refinement follows: the records an entity has, in the order of its list, depend on its own
entry only.  `WalkInv` adds the query under way.  What lies behind the position and what lies
ahead of it make up the sequences that are walked over; a removal in a table moves its last row,
an entity that may not have been shown, to a place that may be behind the position, which is
when `behind` is counted; a removal in a bucket closes the gap, and the position moves with it.
New rows and buckets come at the end.  So an entity left alone is shown and behind, or not
shown and ahead, or counted, of which `UntouchedVisitedOnce` and `MissesCounted` are the ends.
That no entity lies in two of the buckets walked over is the injectivity of `bucketByEntity`.

**Layout.**  One lemma per method of the graph says what it does to each set; one lemma per
action says that it keeps the invariant, or one lemma per conjunct with a step per action;
theorems combine the steps by `PTL`.  The library's induction cannot be used (it takes an
operator as a parameter), so the lemmas about sequences of packets argue from the least index
at which they would fail.

**Only model-checked**: bytes (`WireTypeOK`, `PacketReadWhole`, `ReplicaWithinAStep`) and builds
(`LayoutsAgree`, `GeneratedLoads`), because the codecs and the compiler are recursive
definitions over data, and liveness (`Converges`, `BuffersSettle`, `PacketsDispatched`,
`EditsSent`, `Joins`), which is beyond the prover.  All other properties of the passing runs are
proved.  The library's filters
and sorts are recursive too; CommandStream says by place what they give (`SamplesAt`,
`SamplesNumbered`), and the sums that decode differences, a recursive function, are proved to
exist by the least number for which they would not.

## 5. Findings

| run | what the code does |
|---|---|
| `full_snapshot_leaves_ghost` | a full snapshot for one peer lists an entity it takes away and clears that mark for all; the others keep the entity (`runtime/index.ts:501`) |
| `shared_update_skips_peer` | an update of field marks only takes the fast path (`runtime/index.ts:645`), which compares nothing with what peers are known to have: a PeerEntity whose marks the full snapshot of its own peer cleared in that tick is not sent to the other peers, now or while all further ticks have field updates and nothing else |
| `last_field` | a field with id 31 is accepted (`schema/schema.ts:229`, and 32 fields are allowed), but its bit is negative and a changed value cannot be encoded: every later `update()` throws (`dirty-graph.ts:59`) |

### Known deviations

These are not in the runs; a property of the modules is violated when the named setting is
changed in the configuration.

* *`ReAddUnsent = TRUE`, `DeltaComplete` in DeltaSync.cfg*: remove, add, remove of the last
  replicated component between two snapshots: the destruction cancels a creation that was only
  marked again, and the entity stays on the replica (`dirty-graph.ts:86`; README.md:249-250 says
  it is destroyed).
* *`ReAddUnsent = TRUE`, `ValuesAgree` in ReplicationVisibility.cfg*: remove and add between two
  updates: deltas are dropped as redundant (`dirty-graph.ts:51`), but the runtime does not write
  a known component in full; the peer keeps the old value.
* *`StaleWrites = TRUE`, `DirtyEncodable` in DeltaSync.cfg*: a write through a removed instance
  marks a field that `encodeDirty` cannot encode, now and from then on (`snapshot.ts:237`).
* *`LocalEntities = TRUE`, `LocalStateStaysLocal` in ReplicationPeers.cfg with a local
  component*: the runtime sends local entities and local components (`runtime/index.ts:967,970`;
  README.md:227,248 says never).
* *`ListsPeers = FALSE`, `ConnectedStaysConnected` in ReplicationPeers.cfg*: `peers()` is optional
  in a transport, but the test for it (`runtime/index.ts:913`) is made on the queue that always
  has it: every update shows every peer as disconnected.
* *`ConnectedHasEntity` in PeerSession.cfg*: a PeerEntity that the program removed stays in the
  table: the peer that returns is given an entity that is gone (`world.ts:874`;
  docs/rpc-entity-model.md:95-96).

Limits that the properties state by their exceptions:

* A peer that was sent a full snapshot, leaves before its first packet and comes back under the
  same reference is no target in between.  Until it gets a full snapshot it may be taken to have
  a component that is gone, and a stale write to that component ends every update with an
  exception.  The invariants of Replication are therefore stated for synced peers.
* A buffer is sent once after a push, unreliably, and then no longer dirty
  (`runtime/index.ts:828-839`).  If the packet with the last sample is lost, or the answer to it,
  the samples in it stay unhandled or unacknowledged, and the buffer keeps one of the
  `maxStreamsPerPeer` slots of the client, until the program pushes to that stream again
  (`BuffersSettle` exempts it).
* The server counts the streams a peer ever used (`runtime/index.ts:436`); a peer whose buffers
  come and go is refused in the end, without an answer, and keeps its buffer
  (`BuffersSettle` exempts it).
* Samples of a client that started anew are dropped up to the last number of the one before
  (`runtime/index.ts:448`): `WindowsAreComplete` is about the first client.
* The IDL compiler accepts sources whose module does not load, because it does not check
  - that the constants it makes differ (`Consts`, `Imports`): two RPCs of one name in an endpoint,
    endpoints and RPCs whose joined names are equal (`idl/index.ts:626`), a declaration named like
    `XValues` of an enum or `XFields` of a struct (`:596,601`), like a built-in one (Peer,
    PeerState, protocol) or like an import;
  - that the field helpers it calls exist and take their arguments (`Accepts`): a struct beside
    another argument (`:673`), unknown types of array items (`:457` checks the outer type only),
    a default out of range, a `qf32` without options;
  - that an entity without components, of which `defineEntity` makes a component with the
    entity's id (`schema/schema.ts:60-67`), is not at the position of a declared component: the
    registry then refuses one of the two (`registry/index.ts:15-18`).  The first entity clashes
    as soon as there is a component.

  Sources that fail in the first two ways are outside `GeneratedLoads`, which is about ids; it
  says that the third is the only clash of ids.  What it does not cover of the import is listed
  in section 6.

## 6. What is left out

* In Replication packets are what their operations say and updates are not batched; Wire has
  the bytes, with batches, for creations, additions and updates of one component.  Removals,
  destructions and owners as bytes are not modelled: an id each, written like the others.
* The bits of floats, UTF-8, arrays of arrays, integers of 2^31 and more.
* The order of peers in `update()` is by number in Replication.  In the code listed peers come
  first in the transport's order; it matters only for who is served before an exception.
  PeerSession has all orders.
* `interest` functions: a program's own predicate, to `update()` the same as overrides.
* Typed views, argument validation, the clock, logging.
* `sendFullSnapshot()` without peers broadcasts; nobody receives it.
* The client's own local entities and its own dirty graph, which is never encoded.
* Of the import of a generated module: two arguments of one name in an RPC, names that are reserved
  words of the language, and the options of field helpers other than those in `Accepts`.
* Snapshot handlers are functions in a `Set` (`world.ts:2370`): one that is registered twice is
  there once.  The handlers of Frame are different functions.
* Stable hashes as ids for definitions without one; the validation of definitions' options.
* The grammar of .snap files, the TypeScript that is generated around the definitions, and
  `replicated` arguments, which the compiler refuses wherever they occur.
* Project tools (scaffolding) and examples.

## 7. Plan

1. *(done)* DirtyGraph, World, Snapshot, DeltaSync + Mirroring, Replication.
2. *(done)* CommandStream + SampleLog, SparseStorage + RecordMap, Frame, PeerSession,
   Binary / FieldCodec / Wire, SnapIdl.
3. *(done)* Proofs: the world and its deltas with the refinement of Mirroring; Replication;
   command streams with the refinement of SampleLog; Frame; PeerSession; the storage with the
   refinement of RecordMap and the queries under way.
4. Removals, destructions and owners in Wire; the client's world with its own entities.
