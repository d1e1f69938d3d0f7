-------------------------------- MODULE Wire --------------------------------
(***************************************************************************)
(* Values on the wire.  Either one component of a few fields on some       *)
(* entities, a server that changes and sends them, and a client that reads *)
(* the packets into its own instances; or a command with a few fields and  *)
(* a client that calls it.  The packets are the bytes of the code; whom to *)
(* send what, and loss, are the subject of Replication.                    *)
(*                                                                         *)
(* The layout, a sequence of fields, is chosen once.  A field has an id    *)
(* (its bit of a mask), a type, a default value, the value the server      *)
(* spawns it with, and the values the program sets it to or passes.        *)
(***************************************************************************)
EXTENDS FieldCodec, FiniteSetsExt, SequencesExt

CONSTANTS Components, \* records of a layout and the entities that have it
          Commands,   \* layouts of commands
          SchemaId    \* the id of the component or the command

VARIABLES layout,    \* the layout of this run
          server,    \* the server's values of each entity
          dirty,     \* the fields of each entity that wait to be sent
          client,    \* the client's values, NoInstance until it has some
          packet,    \* the packet under way
          writer     \* the pooled writer

vars == <<layout, server, dirty, client, packet, writer>>

NoInstance == <<>>
NoPacket == [kind |-> "none"]

Snapshot == 1
Rpc == 2
CreateEntity == 1
AddComponent == 2
UpdateComponent == 3
BatchUpdateComponent == 6
SetNetwork == 7

Tick == 300

EntityIds == DOMAIN server
EntityOrder == SetToSortSeq(EntityIds, <)

FieldIndex == DOMAIN layout
Default == [i \in FieldIndex |-> layout[i].init]

-----------------------------------------------------------------------------
\* Masks.  1 << 31 is the least 32-bit number.

DirtyBitOf(id) == IF id = 31 THEN -(2^30) - 2^30 ELSE 2^id
Mask(F) == MapThenSumSet(LAMBDA i : DirtyBitOf(layout[i].id), F)

\* The fields of a mask that was read, which is never negative.
FieldsIn(mask) == {i \in FieldIndex : layout[i].id < 31 /\ (mask \div 2^layout[i].id) % 2 = 1}

-----------------------------------------------------------------------------
\* Encoding.

Header(type) == WriteUint(type, 1) \o WriteUint(Tick, 4)

Op(e, c, op) == WriteVarUint(e) \o WriteVarUint(c) \o WriteUint(op, 1)

ForAll(Chunks(_), s) == Concat(LAMBDA k : Chunks(s[k]), Len(s))

WriteByMask(instance, F) ==
  Concat(LAMBDA i : IF i \in F THEN WriteValue(layout[i].type, instance[i]) ELSE <<>>,
         Len(layout))

FullSnapshot ==
  LET n == Len(EntityOrder) IN
  Header(Snapshot)
    \o WriteVarUint(3 * n)
    \o ForAll(LAMBDA e : Op(e, 0, CreateEntity), EntityOrder)
    \o ForAll(LAMBDA e : Op(e, SchemaId, AddComponent)
                           \o WriteByMask(server[e], FieldIndex), EntityOrder)
    \o ForAll(LAMBDA e : Op(e, 0, SetNetwork) \o WriteVarUint(0), EntityOrder)

Updated == SelectSeq(EntityOrder, LAMBDA e : dirty[e] # {})

UpdateOp(e) ==
  Op(e, SchemaId, UpdateComponent) \o WriteVarUint(Mask(dirty[e]))
    \o WriteByMask(server[e], dirty[e])

Dirty(updates) == Header(Snapshot) \o WriteVarUint(Len(updates)) \o ForAll(UpdateOp, updates)

\* The updates of the same fields as e's.
Group(e) == SelectSeq(Updated, LAMBDA d : dirty[d] = dirty[e])

BatchOp(e) ==
  Op(0, SchemaId, BatchUpdateComponent) \o WriteVarUint(Mask(dirty[e]))
    \o WriteVarUint(Len(Group(e)))
    \o ForAll(LAMBDA d : WriteVarUint(d) \o WriteByMask(server[d], dirty[e]), Group(e))

\* Updates that are the only ones of their fields first, then the groups.
DirtyBatched(updates) ==
  LET singles == SelectSeq(updates, LAMBDA e : Len(Group(e)) = 1)
      leaders == SelectSeq(updates, LAMBDA e : Len(Group(e)) > 1 /\ Group(e)[1] = e)
  IN  Header(Snapshot) \o WriteVarUint(Len(singles) + Len(leaders))
        \o ForAll(UpdateOp, singles) \o ForAll(BatchOp, leaders)

\* Every field is written; the default stands for a missing argument.
Arguments(given, values) ==
  WriteByMask([i \in FieldIndex |-> IF i \in given THEN values[i] ELSE Default[i]], FieldIndex)

Call(given, values) ==
  Header(Rpc) \o WriteVarUint(SchemaId) \o WriteVarUint(0) \o WriteVarUint(0)
    \o Arguments(given, values)

-----------------------------------------------------------------------------
\* Decoding.  What is read is a record of the client's state and the position.

\* A value that is the same to the codec leaves the old one in place.
SetFromRemote(i, old, new) == IF Equal(layout[i].type, old, new) THEN old ELSE new

ReadByMask(bytes, at, instance, F) ==
  LET Into(i, before, read) ==
        IF read.at < 0
        THEN [before EXCEPT !.at = -1]
        ELSE [instance |-> [before.instance EXCEPT ![i] = SetFromRemote(i, @, read.value)],
              at       |-> read.at]
      upTo[i \in 0..Len(layout)] ==
        IF i = 0 THEN [instance |-> instance, at |-> at]
        ELSE IF i \in F
        THEN Into(i, upTo[i - 1], ReadValue(layout[i].type, bytes, upTo[i - 1].at))
        ELSE upTo[i - 1]
  IN  upTo[Len(layout)]

\* The fields F of entity e, read into the instance it has in s.
ReadInto(bytes, s, e, F) ==
  LET With(read) == [client |-> [s.client EXCEPT ![e] = read.instance], at |-> read.at] IN
  IF e \notin EntityIds \/ s.client[e] = NoInstance
  THEN [s EXCEPT !.at = -1]
  ELSE With(ReadByMask(bytes, s.at, s.client[e], F))

SpawnRemote(s, e) ==
  IF e \in EntityIds /\ s.client[e] = NoInstance
  THEN [s EXCEPT !.client[e] = Default]
  ELSE s

ReadBatch(bytes, s, mask, count) ==
  LET upTo[k \in 0..count] ==
        IF k = 0 THEN s
        ELSE LET before == upTo[k - 1]
                 e      == ReadVarUint(bytes, before.at)
             IN  IF e.at < 0 THEN [before EXCEPT !.at = -1]
                 ELSE ReadInto(bytes, [before EXCEPT !.at = e.at], e.value, FieldsIn(mask))
  IN  upTo[count]

ReadOp(bytes, s) ==
  LET e     == ReadVarUint(bytes, s.at)
      c     == ReadVarUint(bytes, e.at)
      op    == ReadUint(bytes, c.at, 1)
      mask  == ReadVarUint(bytes, op.at)
      count == ReadVarUint(bytes, mask.at)
      From(p) == [s EXCEPT !.at = p.at]
  IN  CASE op.at >= 0 /\ op.value = CreateEntity -> From(op)
        [] op.at >= 0 /\ op.value = SetNetwork   -> From(ReadVarUint(bytes, op.at))
        [] op.at >= 0 /\ op.value = AddComponent /\ c.value = SchemaId ->
             ReadInto(bytes, SpawnRemote(From(op), e.value), e.value, FieldIndex)
        [] mask.at >= 0 /\ op.value = UpdateComponent /\ c.value = SchemaId ->
             ReadInto(bytes, From(mask), e.value, FieldsIn(mask.value))
        [] count.at >= 0 /\ op.value = BatchUpdateComponent
                         /\ c.value = SchemaId /\ e.value = 0 ->
             ReadBatch(bytes, From(count), mask.value, count.value)
        [] OTHER -> From(Failed)

\* The client after a snapshot packet.  After a read that throws nothing more
\* is read; what was read before stays.
ReadSnapshot(bytes) ==
  LET tick  == ReadUint(bytes, 8, 4)
      count == ReadVarUint(bytes, tick.at)
      upTo[k \in 0..count.value] ==
        IF k = 0 THEN [client |-> client, at |-> count.at]
        ELSE LET before == upTo[k - 1]
             IN  IF before.at < 0 THEN before ELSE ReadOp(bytes, before)
  IN  IF ReadUint(bytes, 0, 1).value # Snapshot
      THEN [client |-> client, at |-> -1]
      ELSE upTo[count.value]

\* The arguments a call packet carries.
ReadCall(bytes) ==
  LET rpcId  == ReadVarUint(bytes, 40)
      source == ReadVarUint(bytes, rpcId.at)
      target == ReadVarUint(bytes, source.at)
      With(before, read) == [value |-> Append(before.value, read.value), at |-> read.at]
      upTo[i \in 0..Len(layout)] ==
        IF i = 0
        THEN [value |-> <<>>, at |-> target.at]
        ELSE With(upTo[i - 1], ReadValue(layout[i].type, bytes, upTo[i - 1].at))
  IN  IF ReadUint(bytes, 0, 1).value # Rpc \/ rpcId.value # SchemaId
      THEN Failed
      ELSE upTo[Len(layout)]

-----------------------------------------------------------------------------
Init ==
  /\ \/ \E c \in Components :
          /\ layout = c.fields
          /\ server = [e \in c.entities |-> [i \in FieldIndex |-> layout[i].spawn]]
     \/ layout \in Commands /\ server = NoInstance
  /\ dirty = [e \in EntityIds |-> {}]
  /\ client = [e \in EntityIds |-> NoInstance]
  /\ packet = NoPacket
  /\ writer = EmptyWriter

\* The program sets a field.  What is the same to the codec is ignored, what
\* is not valid throws.
Set(e, i, v) ==
  /\ ~Equal(layout[i].type, server[e][i], v)
  /\ Valid(layout[i].type, v)
  /\ server' = [server EXCEPT ![e][i] = v]
  /\ dirty' = [dirty EXCEPT ![e] = @ \cup {i}]
  /\ UNCHANGED <<layout, client, packet, writer>>

\* The bytes of the chunks, made with the pooled writer.
Bytes(chunks) == Align(Written(writer, chunks)).bytes

SendFull ==
  /\ packet = NoPacket
  /\ EntityIds # {}
  /\ packet' = [kind |-> "snapshot", bytes |-> Bytes(FullSnapshot)]
  /\ writer' = Reset(Written(writer, FullSnapshot))
  /\ UNCHANGED <<layout, server, dirty, client>>

\* Updates go to a client that has the components.  The writer returns to the
\* pool even if the encoding throws; then nothing is sent and all stays dirty.
SendUpdate(chunks) ==
  /\ packet = NoPacket
  /\ Updated # <<>>
  /\ \A e \in EntityIds : client[e] # NoInstance
  /\ writer' = Reset(Written(writer, chunks))
  /\ IF Throws(chunks)
     THEN UNCHANGED <<dirty, packet>>
     ELSE /\ packet' = [kind |-> "snapshot", bytes |-> Bytes(chunks)]
          /\ dirty' = [e \in EntityIds |-> {}]
  /\ UNCHANGED <<layout, server, client>>

\* A command with some of its arguments given.  It has a writer of its own.
SendCall(given, values) ==
  /\ packet = NoPacket
  /\ layout \in Commands
  /\ ~Throws(Call(given, values))
  /\ packet' = [kind   |-> "call",
                bytes  |-> Align(Written(EmptyWriter, Call(given, values))).bytes,
                given  |-> given,
                values |-> values]
  /\ UNCHANGED <<layout, server, dirty, client, writer>>

Deliver ==
  /\ packet # NoPacket
  /\ client' = IF packet.kind = "snapshot" THEN ReadSnapshot(packet.bytes).client ELSE client
  /\ packet' = NoPacket
  /\ UNCHANGED <<layout, server, dirty, writer>>

Next ==
  \/ \E e \in EntityIds : \E i \in FieldIndex : \E k \in DOMAIN layout[i].values :
       Set(e, i, layout[i].values[k])
  \/ SendFull
  \/ SendUpdate(Dirty(Updated))
  \/ SendUpdate(DirtyBatched(Updated))
  \/ \E given \in SUBSET FieldIndex, choice \in {1, 2} :
       SendCall(given, [i \in FieldIndex |-> layout[i].values[choice]])
  \/ Deliver

Spec == Init /\ [][Next]_vars

-----------------------------------------------------------------------------
\* Every value the client holds is one its field accepts, and the writer in
\* the pool is empty.
WireTypeOK ==
  /\ dirty \in [EntityIds -> SUBSET FieldIndex]
  /\ writer = EmptyWriter
  /\ \A e \in EntityIds :
       /\ \A i \in FieldIndex : Valid(layout[i].type, server[e][i])
       /\ client[e] # NoInstance =>
            \A i \in FieldIndex : Valid(layout[i].type, client[e][i])

Distance(a, b) == IF a < b THEN b - a ELSE a - b

\* b is what becomes of a: the same, or within what the type may lose.
NearItem(t, a, b) ==
  CASE t.kind = "float" -> 2 * Distance(a, b) <= t.ulp
    [] t.kind = "quant" -> \A k \in 1..t.axes :
                             Distance(Clamped(t, a[k]), Clamped(t, b[k])) < t.precision
    [] t.kind = "angle" -> LET d == Distance(a, b) % Turn(t)
                           IN  d <= 2 \/ Turn(t) - d <= 2
    [] OTHER            -> a = b

Near(t, a, b) ==
  IF t.kind = "array"
  THEN Len(a) = Len(b) /\ \A i \in DOMAIN a : NearItem(t.item, a[i], b[i])
  ELSE NearItem(t, a, b)

\* The reader follows the writer through the packet: no read throws, and the
\* last one ends in the last byte, whatever mix of bytes and bits the fields
\* are and whatever was written, or failed to be, with the same writer before.
\* What is read of a command is the arguments given and the defaults of others.
PacketReadWhole ==
  LET ToTheEnd(read) == read.at >= 0 /\ NextByte(read.at) = 8 * Len(packet.bytes)
      ArgumentsOf(read) ==
        \A i \in FieldIndex :
          Near(layout[i].type,
               IF i \in packet.given THEN packet.values[i] ELSE Default[i],
               read.value[i])
  IN  /\ packet.kind = "snapshot" => ToTheEnd(ReadSnapshot(packet.bytes))
      /\ packet.kind = "call" => /\ ToTheEnd(ReadCall(packet.bytes))
                                 /\ ArgumentsOf(ReadCall(packet.bytes))

\* A field that is not waiting to be sent, with no snapshot under way, has on
\* the client the server's value up to the precision of its type: less than
\* one step of a quantized number, at most one step of an angle, although the
\* server ignores a write and the client an update that is the same to the codec.
ReplicaWithinAStep ==
  packet = NoPacket =>
    \A e \in EntityIds, i \in FieldIndex :
      client[e] # NoInstance /\ i \notin dirty[e] =>
        Near(layout[i].type, server[e][i], client[e][i])

\* Every change of a field can be sent: ids from 0 to 31 are accepted when a
\* component is defined.
EveryFieldCanBeSent == ~Throws(Dirty(Updated))
=============================================================================
