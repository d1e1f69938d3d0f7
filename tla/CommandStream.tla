--------------------------- MODULE CommandStream ---------------------------
(***************************************************************************)
(* Command streams: input samples that one client sends to the server over *)
(* the unreliable channel.  The client keeps samples until they are        *)
(* acknowledged and sends the latest of them again with every new one; the *)
(* server drops what it has seen and acknowledges what it has processed.   *)
(*                                                                         *)
(* A Key is a pair of target entity and stream.  The client has its        *)
(* PeerEntity, the same for all connections under one peer reference.      *)
(***************************************************************************)
EXTENDS Naturals, Sequences, SequencesExt, FiniteSets

CONSTANTS
  Key,
  ClientTick,            \* values the program passes as clientTick
  MaxSamplesPerPacket, MaxPendingSamples, MaxStreamsPerPeer,   \* CommandStreamLimits
  CountLimit,            \* samples one packet can count (255: one byte)
  MaxPushes,             \* bound: pushes of the program
  MaxRestarts            \* bound: clients that follow the first one

ASSUME StreamAssumption ==
  /\ IsFiniteSet(Key)
  /\ ClientTick \subseteq Nat
  /\ {MaxSamplesPerPacket, MaxPendingSamples, MaxStreamsPerPeer,
      CountLimit, MaxPushes, MaxRestarts} \subseteq Nat

VARIABLES
  clientSequence,  \* client: the last number given, per stream
  buffers,         \* client: the Map of buffers, in insertion order
  known,           \* server: streams this peer ever used
  lastProcessed,   \* server: the last number processed, per stream
  toServer,        \* stream packets on their way; one stays until it is lost,
                   \* so that it may arrive several times
  toClient,        \* acknowledgements on their way to this client, likewise
  life,            \* how often the client started anew
  pushes,
  issued, log,     \* history: samples buffered by clients, samples dispatched
  lost             \* history: streams of which the packet with the last sample,
                   \* or the answer to it, was lost

clientVars == <<clientSequence, buffers, life, pushes, issued>>
serverVars == <<known, lastProcessed, log>>
vars == <<clientVars, serverVars, toServer, toClient, lost>>

Init ==
  /\ clientSequence = [k \in Key |-> 0]
  /\ buffers = << >>
  /\ known = {}
  /\ lastProcessed = [k \in Key |-> 0]
  /\ toServer = {} /\ toClient = {}
  /\ life = 0 /\ pushes = 0
  /\ issued = [k \in Key |-> {}]
  /\ log = [k \in Key |-> << >>]
  /\ lost = {}

Lower(a, b) == IF a < b THEN a ELSE b

\* The numbers in S, the smallest one first.
Sorted(S) ==
  CHOOSE f \in [1..Cardinality(S) -> S] :
    \A i, j \in 1..Cardinality(S) : i < j => f[i] < f[j]

LastN(s, n) == SubSeq(s, Len(s) - Lower(n, Len(s)) + 1, Len(s))

-----------------------------------------------------------------------------
(* The packet: sequence numbers and client ticks are written as unsigned   *)
(* differences to the sample before.                                       *)

Previous(samples, i) ==
  IF i = 1 THEN [sequence |-> 0, clientTick |-> 0] ELSE samples[i - 1]

EncodableSamples(samples) ==
  /\ Len(samples) \in 1..CountLimit
  /\ \A i \in 1..Len(samples) :
       /\ samples[i].sequence >= Previous(samples, i).sequence
       /\ samples[i].clientTick >= Previous(samples, i).clientTick

EncodeSamples(samples) ==
  [i \in 1..Len(samples) |->
     [ sequence   |-> samples[i].sequence - Previous(samples, i).sequence,
       clientTick |-> samples[i].clientTick - Previous(samples, i).clientTick ]]

DecodeSamples(deltas) ==
  LET sums[i \in 0..Len(deltas)] ==
        IF i = 0 THEN [sequence |-> 0, clientTick |-> 0]
        ELSE [ sequence   |-> sums[i - 1].sequence + deltas[i].sequence,
               clientTick |-> sums[i - 1].clientTick + deltas[i].clientTick ]
  IN  [i \in 1..Len(deltas) |-> sums[i]]

-----------------------------------------------------------------------------
(* The client.                                                             *)

BufferOf(k) == SelectInSeq(buffers, LAMBDA b : b.key = k)   \* 0: no buffer

\* Mutant: the oldest samples stay.
KeepsAll(buffer, sample) ==
  [buffer EXCEPT !.samples = Append(@, sample), !.dirty = TRUE]

\* Mutant: only a new buffer is marked for sending.
MarksNewOnly(buffer, sample) ==
  [ buffer EXCEPT !.samples = LastN(Append(@, sample), MaxPendingSamples),
                  !.dirty = buffer.samples = << >> ]

\* Samples beyond maxPendingSamples push the oldest ones out.
WithSample(buffer, sample) ==
  [ buffer EXCEPT !.samples = LastN(Append(@, sample), MaxPendingSamples),
                  !.dirty = TRUE ]

\* pushCommandStream.  A number is taken before the limit on streams is
\* checked; over the limit the call throws and the sample is not buffered.
Push(k, tick) ==
  LET sample == [sequence |-> clientSequence[k] + 1, clientTick |-> tick]
      i == BufferOf(k)
      refused == i = 0 /\ Len(buffers) >= MaxStreamsPerPeer
      fresh == [key |-> k, samples |-> << >>, dirty |-> FALSE]
  IN  /\ pushes < MaxPushes
      /\ pushes' = pushes + 1
      /\ clientSequence' = [clientSequence EXCEPT ![k] = sample.sequence]
      /\ buffers' = IF refused THEN buffers
                    ELSE IF i = 0 THEN Append(buffers, WithSample(fresh, sample))
                    ELSE [buffers EXCEPT ![i] = WithSample(@, sample)]
      /\ issued' = IF refused THEN issued
                   ELSE [issued EXCEPT ![k] =
                           @ \cup {[life |-> life, sequence |-> sample.sequence]}]
      /\ lost' = lost \ {k}
      /\ UNCHANGED <<life, serverVars, toServer, toClient>>

\* What update() sends of a buffer.  slice(-0) is the whole buffer.
Window(buffer) ==
  IF MaxSamplesPerPacket = 0 THEN buffer.samples
  ELSE LastN(buffer.samples, MaxSamplesPerPacket)

Pending(buffer) == buffer.dirty /\ buffer.samples # << >>
Failing(buffer) == Pending(buffer) /\ ~EncodableSamples(Window(buffer))

\* SyncClient.update: every dirty buffer is sent, in the order of the Map.  If
\* one cannot be encoded, update() throws: that buffer and the later ones stay
\* dirty.
Update ==
  LET bad == SelectInSeq(buffers, Failing)
      sent == {i \in 1..Len(buffers) : Pending(buffers[i]) /\ (bad = 0 \/ i < bad)}
  IN  /\ \E i \in 1..Len(buffers) : Pending(buffers[i])
      /\ toServer' = toServer \cup
           {[ key |-> buffers[i].key, life |-> life,
              deltas |-> EncodeSamples(Window(buffers[i])) ] : i \in sent}
      /\ buffers' = [i \in 1..Len(buffers) |->
                       IF i \in sent THEN [buffers[i] EXCEPT !.dirty = FALSE]
                       ELSE buffers[i]]
      /\ UNCHANGED <<clientSequence, life, pushes, issued, serverVars, toClient, lost>>

\* The samples at the places in S, in their order.
SamplesAt(samples, S) == [i \in 1..Cardinality(S) |-> samples[Sorted(S)[i]]]

\* Mutant: one sample too many is dropped.
PrunesOneMore(samples, last) ==
  SamplesAt(samples, {i \in 1..Len(samples) : samples[i].sequence > last + 1})

\* The samples an acknowledgement leaves in a buffer.
Unacknowledged(samples, last) ==
  SamplesAt(samples, {i \in 1..Len(samples) : samples[i].sequence > last})

\* The CommandStreamAck branch of the client's onPacket: a buffer with nothing
\* left is deleted, dirty or not.
HandleAck(k, ack) ==
  LET i == BufferOf(k)
      rest == Unacknowledged(buffers[i].samples, ack.last)
  IN  /\ ack.key = k
      /\ i # 0
      /\ buffers' = IF rest = << >> THEN RemoveAt(buffers, i)
                    ELSE [buffers EXCEPT ![i].samples = rest]
      /\ UNCHANGED <<clientSequence, life, pushes, issued, serverVars>>
      /\ UNCHANGED <<toServer, toClient, lost>>

ReceiveAck(k) == \E ack \in toClient : HandleAck(k, ack)

\* A client that leaves and comes back under the same peer reference: a new
\* program with new sequence numbers.  What is on its way to it is lost.
Restart ==
  /\ life < MaxRestarts
  /\ life' = life + 1
  /\ clientSequence' = [k \in Key |-> 0]
  /\ buffers' = << >>
  /\ toClient' = {}
  /\ lost' = {}
  /\ UNCHANGED <<pushes, issued, serverVars, toServer>>

-----------------------------------------------------------------------------
(* The server.                                                             *)

\* The limit counts the streams the peer ever used; nothing removes one.
Refused(k) == k \notin known /\ Cardinality(known) >= MaxStreamsPerPeer

\* The first sample of each of the numbers, by number.
SamplesNumbered(samples, numbers) ==
  [i \in 1..Cardinality(numbers) |->
     samples[SelectInSeq(samples, LAMBDA s : s.sequence = Sorted(numbers)[i])]]

Numbers(samples) == {samples[i].sequence : i \in 1..Len(samples)}

\* Mutant: samples seen before are not dropped.
KeepsOld(samples, last) == SamplesNumbered(samples, Numbers(samples))

\* Mutant: the filter is off by one.
SkipsNext(samples, last) == SamplesNumbered(samples, Numbers(samples) \ (0..last + 1))

\* Samples beyond the last processed one, by number, each number once.
NewSamples(samples, last) == SamplesNumbered(samples, Numbers(samples) \ (0..last))

\* The CommandStream branch of the server's onPacket: drop a packet over the
\* limit without an answer, or dispatch what is new, remember it, and
\* acknowledge, also when nothing was new.
Accept(k, packet) ==
  LET samples == NewSamples(DecodeSamples(packet.deltas), lastProcessed[k])
      last == IF samples = << >> THEN lastProcessed[k] ELSE Last(samples).sequence
  IN  /\ packet.key = k
      /\ ~Refused(k)
      /\ known' = known \cup {k}
      /\ lastProcessed' = [lastProcessed EXCEPT ![k] = last]
      /\ log' = [log EXCEPT ![k] = @ \o
                   [i \in 1..Len(samples) |->
                      [life |-> packet.life, sequence |-> samples[i].sequence]]]
      /\ toClient' = toClient \cup {[key |-> k, last |-> last]}
      /\ UNCHANGED <<clientVars, toServer, lost>>

ReceiveSamples(k) == \E packet \in toServer : Accept(k, packet)

-----------------------------------------------------------------------------
(* The channel.  A packet that nobody receives need not be taken away: the *)
(* losses that are actions are those of what a client still waits for.     *)

\* The packet ends with the last sample of the stream's client.
EndsStream(packet) ==
  /\ packet.life = life
  /\ Last(DecodeSamples(packet.deltas)).sequence = clientSequence[packet.key]

\* An acknowledgement of all that the client ever gave a number.
Covers(ack) == ack.last >= clientSequence[ack.key]

Awaited(k) == BufferOf(k) # 0 /\ k \notin lost

\* A packet with the last sample is lost before it is answered.
LosePacket(k) ==
  \E packet \in toServer :
    /\ Awaited(k)
    /\ packet.key = k /\ EndsStream(packet)
    /\ ~\E ack \in toClient : ack.key = k /\ Covers(ack)
    /\ toServer' = toServer \ {packet}
    /\ lost' = lost \cup {k}
    /\ UNCHANGED <<clientVars, serverVars, toClient>>

\* The answer to such a packet is lost.
LoseAck(k) ==
  \E ack \in toClient :
    /\ Awaited(k)
    /\ ack.key = k /\ Covers(ack)
    /\ toClient' = toClient \ {ack}
    /\ lost' = lost \cup {k}
    /\ UNCHANGED <<clientVars, serverVars, toServer>>

Next ==
  \/ \E k \in Key, tick \in ClientTick : Push(k, tick)
  \/ Update
  \/ \E k \in Key : ReceiveAck(k) \/ ReceiveSamples(k)
  \/ Restart
  \/ \E k \in Key : LosePacket(k) \/ LoseAck(k)

Spec == Init /\ [][Next]_vars

\* The client's engine calls tick(), which ends with update(), for ever.  The
\* channel may lose every packet, the one with the last sample and the answer to
\* it included; only if it does not lose these do they arrive in the end.  Nothing
\* is assumed of the program's pushes.
FairSpec ==
  /\ Spec
  /\ WF_vars(Update)
  /\ \A k \in Key :
       /\ WF_vars(\E packet \in toServer : EndsStream(packet) /\ Accept(k, packet))
       /\ WF_vars(\E ack \in toClient : Covers(ack) /\ HandleAck(k, ack))

-----------------------------------------------------------------------------

Sample == [sequence : Nat \ {0}, clientTick : ClientTick]

\* Types; and no buffer is longer than the limit, no stream has two buffers.
StreamTypeOK ==
  /\ clientSequence \in [Key -> Nat] /\ lastProcessed \in [Key -> Nat]
  /\ \A i \in 1..Len(buffers) :
       /\ buffers[i].key \in Key /\ buffers[i].dirty \in BOOLEAN
       /\ buffers[i].samples \in Seq(Sample)
       /\ Len(buffers[i].samples) <= MaxPendingSamples
       /\ \A j \in 1..Len(buffers) : buffers[i].key = buffers[j].key => i = j
  /\ Len(buffers) <= MaxStreamsPerPeer
  /\ known \subseteq Key /\ Cardinality(known) <= MaxStreamsPerPeer
  /\ \A p \in toServer : p.key \in Key /\ Len(p.deltas) \in 1..CountLimit
  /\ \A a \in toClient : a.key \in Key /\ a.last \in Nat
  /\ lost \subseteq Key

\* Whatever the channel does, and even across a restart of the client, the
\* handlers see each sample at most once and numbers that only grow.
Promise == INSTANCE SampleLog
ImplementsSampleLog == Promise!Spec

InBuffer(k, n) ==
  BufferOf(k) # 0 /\ \E s \in ToSet(buffers[BufferOf(k)].samples) : s.sequence = n

\* A sample that the client no longer keeps was passed by the server or pushed
\* out by maxPendingSamples later ones; it is never dropped on a late or
\* repeated acknowledgement alone.
DroppedIsSettled ==
  \A k \in Key : \A s \in issued[k] :
    \/ s.life # life
    \/ InBuffer(k, s.sequence)
    \/ s.sequence <= lastProcessed[k]
    \/ s.sequence + MaxPendingSamples <= clientSequence[k]

\* What the server skips of its first client lies a whole packet behind: it has
\* dispatched everything that a packet ending at its last number could carry.
WindowsAreComplete ==
  \A k \in Key : \A s \in issued[k] :
    LET width == Lower(MaxPendingSamples,
                       IF MaxSamplesPerPacket = 0 THEN MaxPendingSamples
                       ELSE MaxSamplesPerPacket)
    IN  life = 0 /\ s.sequence <= lastProcessed[k] /\ s.sequence + width > lastProcessed[k]
          => s \in ToSet(log[k])

\* Every push is a new chance: whatever was lost before it, when the program
\* stops pushing to a stream, its buffer is acknowledged as a whole, so that its
\* slot becomes free.  The exceptions: the packet with the last sample is lost, or
\* the answer to it (update() sends it once, and nothing sends it again before the
\* next push); the server refuses the stream; some buffer cannot be encoded.
BuffersSettle ==
  \A k \in Key :
    BufferOf(k) # 0 ~> \/ BufferOf(k) = 0
                       \/ k \in lost
                       \/ Refused(k)
                       \/ SelectInSeq(buffers, Failing) # 0
=============================================================================
