------------------------ MODULE CommandStreamProofs ------------------------
(***************************************************************************)
(* For all keys, limits, ticks and bounds: what a command stream does over *)
(* an unreliable channel, restarts of the client included.                 *)
(*                                                                         *)
(* The argument rests on runs: while a buffer exists every push is put     *)
(* into it, so it holds consecutive numbers up to the last one given, and  *)
(* so does every packet cut from it.  An acknowledgement drops a beginning *)
(* of a buffer, and the server's filter a beginning of a packet.           *)
(***************************************************************************)
EXTENDS CommandStream, Integers, SequenceTheorems, FiniteSetTheorems,
        WellFoundedInduction, TLAPS

LEMMA SmallestNat ==
  ASSUME NEW T \in SUBSET Nat, T # {}
  PROVE  \E x \in T : \A y \in T : x <= y
<1>1. PICK x \in T : \A y \in T : ~ (<<y, x>> \in OpToRel(<, Nat))
  BY WFMin, NatLessThanWellFounded, Zenon
<1>2. \A y \in T : ~ (y < x)
  BY <1>1 DEF OpToRel
<1>. QED  BY <1>2

\* Sorting an interval enumerates it.
LEMMA SortedInterval ==
  ASSUME NEW a \in Nat, NEW n \in Nat, NEW S, S = a..(a + n - 1)
  PROVE  /\ Cardinality(S) = n
         /\ \A i \in 1..n : Sorted(S)[i] = a + i - 1
<1> DEFINE f == Sorted(S)
           g == [i \in 1..n |-> a + i - 1]
<1>1. Cardinality(S) = n
  <2>1. a \in Int /\ a + n - 1 \in Int
    OBVIOUS
  <2>2. Cardinality(a..(a + n - 1)) = IF a > a + n - 1 THEN 0 ELSE (a + n - 1) - a + 1
    BY <2>1, FS_Interval
  <2>. QED  BY <2>2
<1>2. /\ f \in [1..n -> S]
      /\ \A i, j \in 1..n : i < j => f[i] < f[j]
  <2>1. g \in [1..n -> S] /\ \A i, j \in 1..n : i < j => g[i] < g[j]
    OBVIOUS
  <2>2. f = CHOOSE h \in [1..n -> S] : \A i, j \in 1..n : i < j => h[i] < h[j]
    BY <1>1, Zenon DEF Sorted
  <2> HIDE DEF f, g
  <2>. QED  BY <2>1, <2>2, Zenon
<1> HIDE DEF f
<1>3. \A i \in 1..n : f[i] >= a + i - 1
  <2> DEFINE T == {i \in 1..n : f[i] < a + i - 1}
  <2>1. SUFFICES ASSUME T # {} PROVE FALSE
    BY <1>2
  <2>2. PICK k \in T : \A y \in T : k <= y
    <3>1. T \in SUBSET Nat
      OBVIOUS
    <3> HIDE DEF T
    <3>. QED  BY <2>1, <3>1, SmallestNat, Zenon
  <2>3. k # 1 /\ k \in 1..n /\ f[k] \in S
    BY <1>2
  <2>4. k - 1 \in 1..n /\ k - 1 \notin T /\ k - 1 < k
    BY <2>2, <2>3
  <2>5. f[k - 1] >= a + (k - 1) - 1 /\ f[k - 1] < f[k] /\ f[k - 1] \in S
    BY <1>2, <2>3, <2>4
  <2>. QED  BY <2>2, <2>3, <2>5
<1>4. \A i \in 1..n : f[i] <= a + i - 1
  <2> DEFINE T == {j \in 0..(n - 1) : f[n - j] > a + (n - j) - 1}
  <2>1. SUFFICES ASSUME T # {} PROVE FALSE
    <3>1. SUFFICES ASSUME T = {}, NEW i \in 1..n PROVE f[i] <= a + i - 1
      OBVIOUS
    <3>2. n - i \in 0..(n - 1) /\ n - (n - i) = i /\ f[i] \in S
      BY <1>2
    <3>3. n - i \notin T
      BY <3>1
    <3>. QED  BY <3>2, <3>3
  <2>2. PICK k \in T : \A y \in T : k <= y
    <3>1. T \in SUBSET Nat
      OBVIOUS
    <3> HIDE DEF T
    <3>. QED  BY <2>1, <3>1, SmallestNat, Zenon
  <2>3. k # 0 /\ k \in 0..(n - 1) /\ n - k \in 1..n /\ f[n - k] \in S
    BY <1>2
  <2>4. k - 1 \in 0..(n - 1) /\ k - 1 \notin T /\ n - (k - 1) \in 1..n
        /\ n - k < n - (k - 1)
    BY <2>2, <2>3
  <2>5. f[n - (k - 1)] <= a + (n - (k - 1)) - 1 /\ f[n - k] < f[n - (k - 1)]
        /\ f[n - (k - 1)] \in S
    BY <1>2, <2>3, <2>4
  <2>. QED  BY <2>2, <2>3, <2>5
<1>5. \A i \in 1..n : f[i] \in S
  BY <1>2
<1>. QED  BY <1>1, <1>3, <1>4, <1>5 DEF f

\* s numbers its samples from first on.
Run(s, first) == \A i \in 1..Len(s) : s[i].sequence = first + i - 1

\* An acknowledgement takes away the first samples of a run.
LEMMA AcknowledgedRun ==
  ASSUME NEW s, NEW T, s \in Seq(T), NEW first \in Nat, Run(s, first), NEW last \in Nat
  PROVE  \E m \in 0..Len(s) :
           /\ Unacknowledged(s, last) \in Seq(T)
           /\ Len(Unacknowledged(s, last)) = Len(s) - m
           /\ \A i \in 1..(Len(s) - m) : Unacknowledged(s, last)[i] = s[m + i]
           /\ \A i \in 1..m : s[i].sequence <= last
<1> DEFINE n == Len(s)
           kept == {i \in 1..n : s[i].sequence > last}
           m == IF last < first THEN 0 ELSE Lower(last - first + 1, n)
           r == Unacknowledged(s, last)
<1>1. n \in Nat /\ m \in 0..n /\ n - m \in Nat /\ m + 1 \in Nat
  BY DEF Lower
<1>2. kept = (m + 1)..((m + 1) + (n - m) - 1)
  <2>1. \A i \in 1..n : s[i].sequence = first + i - 1
    BY DEF Run
  <2>2. \A i \in 1..n : s[i].sequence > last <=> i >= m + 1
    BY <1>1, <2>1 DEF Lower
  <2>. QED  BY <1>1, <2>2
<1>3. /\ Cardinality(kept) = n - m
      /\ \A i \in 1..(n - m) : Sorted(kept)[i] = (m + 1) + i - 1
  <2> HIDE DEF kept, n, m
  <2>1. \A a, c \in Nat : kept = a..(a + c - 1) =>
          /\ Cardinality(kept) = c
          /\ \A i \in 1..c : Sorted(kept)[i] = a + i - 1
    BY SortedInterval
  <2>. QED  BY <1>1, <1>2, <2>1
<1>4. r = [i \in 1..(n - m) |-> s[Sorted(kept)[i]]]
  BY <1>3, Zenon DEF Unacknowledged, SamplesAt
<1>5. \A i \in 1..(n - m) : s[Sorted(kept)[i]] = s[m + i] /\ s[m + i] \in T
  <2> TAKE i \in 1..(n - m)
  <2>1. Sorted(kept)[i] = m + i
    BY <1>1, <1>3
  <2>2. m + i \in 1..n
    BY <1>1
  <2>. QED  BY <2>1, <2>2
<1>6. r \in Seq(T) /\ Len(r) = n - m /\ \A i \in 1..(n - m) : r[i] = s[m + i]
  <2> HIDE DEF kept, m
  <2>. QED  BY <1>1, <1>4, <1>5
<1>7. \A i \in 1..m : s[i].sequence <= last
  <2> SUFFICES ASSUME NEW i \in 1..m PROVE s[i].sequence <= last
    OBVIOUS
  <2>1. i \in 1..n
    BY <1>1
  <2>2. s[i].sequence = first + i - 1
    BY <2>1 DEF Run
  <2>. QED  BY <1>1, <2>2 DEF Lower
<1> HIDE DEF m
<1>. QED  BY <1>1, <1>6, <1>7

\* What the server hands on of a run is the rest of it.
LEMMA NewOfRun ==
  ASSUME NEW s, Len(s) \in Nat, NEW first \in Nat, Run(s, first), NEW last \in Nat
  PROVE  LET m == IF last < first THEN 0 ELSE Lower(last - first + 1, Len(s))
             r == NewSamples(s, last)
         IN  /\ Len(r) = Len(s) - m
             /\ \A i \in 1..(Len(s) - m) : r[i].sequence = first + m + i - 1
             /\ r = [i \in 1..(Len(s) - m) |-> r[i]]
<1> DEFINE n == Len(s)
           m == IF last < first THEN 0 ELSE Lower(last - first + 1, n)
           numbers == Numbers(s) \ (0..last)
           r == NewSamples(s, last)
<1>1. n \in Nat /\ m \in 0..n /\ n - m \in Nat /\ first + m \in Nat
  BY DEF Lower
<1>2. numbers = (first + m)..((first + m) + (n - m) - 1)
  <2>1. Numbers(s) = first..(first + n - 1)
    <3>1. Numbers(s) \subseteq first..(first + n - 1)
      BY DEF Numbers, Run
    <3>2. \A x \in first..(first + n - 1) :
            x - first + 1 \in 1..n /\ s[x - first + 1].sequence = x
      BY DEF Run
    <3>. QED  BY <3>1, <3>2 DEF Numbers
  <2>2. \A x \in first..(first + n - 1) : x \notin 0..last <=> x >= first + m
    BY <1>1 DEF Lower
  <2>. QED  BY <1>1, <2>1, <2>2
<1>3. /\ Cardinality(numbers) = n - m
      /\ \A i \in 1..(n - m) : Sorted(numbers)[i] = (first + m) + i - 1
  <2> HIDE DEF numbers, n, m
  <2>1. \A a, c \in Nat : numbers = a..(a + c - 1) =>
          /\ Cardinality(numbers) = c
          /\ \A i \in 1..c : Sorted(numbers)[i] = a + i - 1
    BY SortedInterval
  <2>. QED  BY <1>1, <1>2, <2>1
<1> DEFINE place(i) == SelectInSeq(s, LAMBDA x : x.sequence = Sorted(numbers)[i])
<1>4. r = [i \in 1..(n - m) |-> s[place(i)]]
  BY <1>3, Zenon DEF NewSamples, SamplesNumbered
<1>5. \A i \in 1..(n - m) : s[place(i)].sequence = first + m + i - 1
  <2> SUFFICES ASSUME NEW i \in 1..(n - m)
               PROVE  s[place(i)].sequence = first + m + i - 1
    OBVIOUS
  <2> DEFINE x == first + m + i - 1
             I == {j \in 1..n : s[j].sequence = Sorted(numbers)[i]}
  <2>1. Sorted(numbers)[i] = x
    BY <1>1, <1>3
  <2>2. m + i \in 1..n /\ s[m + i].sequence = x
    <3>1. \A j \in 1..n : s[j].sequence = first + j - 1
      BY DEF Run
    <3>2. m + i \in 1..n /\ first + (m + i) - 1 = x
      <4> HIDE DEF m, n
      <4>. QED  BY <1>1
    <3>. QED  BY <3>1, <3>2, Zenon
  <2>3. I # {} /\ I \in SUBSET Nat
    BY <2>1, <2>2
  <2>4. place(i) = CHOOSE j \in I : \A k \in I : j <= k
    BY <2>3, Zenon DEF SelectInSeq, Min
  <2>5. \E j \in I : \A k \in I : j <= k
    <3> HIDE DEF I
    <3>. QED  BY <2>3, SmallestNat
  <2>6. place(i) \in I
    <3> HIDE DEF I, place
    <3>. QED  BY <2>4, <2>5, Zenon
  <2>. QED  BY <2>1, <2>6
<1>6. Len(r) = n - m /\ r = [i \in 1..(n - m) |-> r[i]]
      /\ \A i \in 1..(n - m) : r[i].sequence = first + m + i - 1
  <2> HIDE DEF place, numbers, m
  <2>. QED  BY <1>1, <1>4, <1>5
<1>. QED  BY <1>6

-----------------------------------------------------------------------------
\* Decoding a packet.

Nought == [sequence |-> 0, clientTick |-> 0]
Plus(a, b) == [ sequence   |-> a.sequence + b.sequence,
                clientTick |-> a.clientTick + b.clientTick ]

\* w holds the sums of the first n differences in d.
Sums(w, d, n) == w = [i \in 0..n |-> IF i = 0 THEN Nought ELSE Plus(w[i - 1], d[i])]

LEMMA SumsStep ==
  ASSUME NEW w, NEW d, NEW n \in Nat, Sums(w, d, n)
  PROVE  /\ w[0] = Nought
         /\ \A i \in 0..n : i # 0 => w[i] = Plus(w[i - 1], d[i])
<1>1. w = [i \in 0..n |-> IF i = 0 THEN Nought ELSE Plus(w[i - 1], d[i])]
  BY Zenon DEF Sums
<1>2. \A i \in 0..n : w[i] = IF i = 0 THEN Nought ELSE Plus(w[i - 1], d[i])
  BY ONLY <1>1, Zenon
<1>3. 0 \in 0..n
  OBVIOUS
<1>. QED  BY <1>2, <1>3, Zenon

LEMMA SumsExist ==
  ASSUME NEW d, NEW n \in Nat
  PROVE  \E w : Sums(w, d, n)
<1> DEFINE T == {m \in Nat : ~ \E w : Sums(w, d, m)}
<1>1. SUFFICES ASSUME T # {} PROVE FALSE
  OBVIOUS
<1>2. PICK m \in T : \A y \in T : m <= y
  <2>1. T \in SUBSET Nat
    OBVIOUS
  <2> HIDE DEF T
  <2>. QED  BY <1>1, <2>1, SmallestNat, Zenon
<1>3. m # 0
  <2> SUFFICES ASSUME m = 0 PROVE FALSE
    OBVIOUS
  <2> DEFINE w == [i \in 0..0 |-> Nought]
  <2>1. w = [i \in 0..0 |-> IF i = 0 THEN Nought ELSE Plus(w[i - 1], d[i])]
    <3>1. \A i \in 0..0 : (IF i = 0 THEN Nought ELSE Plus(w[i - 1], d[i])) = Nought
      OBVIOUS
    <3>. QED  BY <3>1, Zenon
  <2>2. Sums(w, d, 0)
    BY <2>1, Zenon DEF Sums
  <2>. QED  BY <2>2
<1>4. m - 1 \in Nat /\ m - 1 \notin T
  BY <1>2, <1>3
<1>5. PICK g : Sums(g, d, m - 1)
  BY <1>4
<1> DEFINE w == [i \in 0..m |-> IF i = m THEN Plus(g[m - 1], d[m]) ELSE g[i]]
<1>6. \A i \in 0..m : w[i] = IF i = 0 THEN Nought ELSE Plus(w[i - 1], d[i])
  <2> SUFFICES ASSUME NEW i \in 0..m
               PROVE  w[i] = IF i = 0 THEN Nought ELSE Plus(w[i - 1], d[i])
    OBVIOUS
  <2>1. g[0] = Nought /\ \A j \in 0..(m - 1) : j # 0 => g[j] = Plus(g[j - 1], d[j])
    BY <1>4, <1>5, SumsStep
  <2>2. CASE i = 0
    BY <1>3, <2>1, <2>2
  <2>3. CASE i # 0 /\ i # m
    <3>1. i \in 0..(m - 1) /\ i - 1 \in 0..m /\ i - 1 # m
      BY <2>3
    <3>2. w[i] = g[i] /\ w[i - 1] = g[i - 1]
      BY <2>3, <3>1
    <3>. QED  BY <2>1, <2>3, <3>1, <3>2
  <2>4. CASE i = m
    <3>1. m - 1 \in 0..m /\ m - 1 # m
      BY <1>3
    <3>2. w[i] = Plus(g[m - 1], d[m]) /\ w[m - 1] = g[m - 1]
      BY <2>4, <3>1
    <3>. QED  BY <1>3, <2>4, <3>2
  <2>. QED  BY <2>2, <2>3, <2>4
<1>7. Sums(w, d, m)
  <2>1. w = [i \in 0..m |-> w[i]]
    OBVIOUS
  <2> HIDE DEF w
  <2>2. w = [i \in 0..m |-> IF i = 0 THEN Nought ELSE Plus(w[i - 1], d[i])]
    BY <1>6, <2>1
  <2>. QED  BY <2>2, Zenon DEF Sums
<1>. QED  BY <1>7

Delta == [sequence : Nat, clientTick : Nat]

\* Differences of one are decoded into a run.
LEMMA DecodedRun ==
  ASSUME NEW d \in Seq(Delta), \A i \in 2..Len(d) : d[i].sequence = 1
  PROVE  Len(DecodeSamples(d)) = Len(d) /\ Run(DecodeSamples(d), d[1].sequence)
<1> DEFINE n == Len(d)
           w == CHOOSE w : Sums(w, d, n)
           s == DecodeSamples(d)
<1>1. Sums(w, d, n)
  <2>1. n \in Nat
    OBVIOUS
  <2>2. \E v : Sums(v, d, n)
    BY <2>1, SumsExist, Zenon
  <2>. QED  BY <2>2, Zenon
<1>2. s = [i \in 1..n |-> w[i]]
  BY Zenon DEF DecodeSamples, Sums, Plus, Nought
<1>3. w[0] = Nought /\ \A i \in 0..n : i # 0 => w[i] = Plus(w[i - 1], d[i])
  BY <1>1, SumsStep
<1> HIDE DEF w, s
<1>4. \A i \in 1..n : w[i].sequence = d[1].sequence + i - 1
  <2> DEFINE T == {i \in 1..n : w[i].sequence # d[1].sequence + i - 1}
  <2>1. SUFFICES ASSUME T # {} PROVE FALSE
    OBVIOUS
  <2>2. PICK k \in T : \A y \in T : k <= y
    <3>1. T \in SUBSET Nat
      OBVIOUS
    <3> HIDE DEF T
    <3>. QED  BY <2>1, <3>1, SmallestNat, Zenon
  <2>3. k \in 0..n /\ k # 0 /\ k \in Nat /\ d[1].sequence \in Nat /\ d[k].sequence \in Nat
    <3>1. k \in 1..n /\ 1 \in 1..n
      OBVIOUS
    <3>2. \A i \in 1..n : d[i] \in Delta
      OBVIOUS
    <3>. QED  BY <3>1, <3>2 DEF Delta
  <2>4. w[k].sequence = w[k - 1].sequence + d[k].sequence
    <3>1. w[k] = Plus(w[k - 1], d[k])
      BY <1>3, <2>3, Zenon
    <3>. QED  BY <3>1 DEF Plus
  <2>5. w[k].sequence # d[1].sequence + k - 1
    OBVIOUS
  <2>6. CASE k = 1
    <3>1. w[k - 1].sequence = 0
      BY <1>3, <2>6 DEF Nought
    <3>. QED  BY <2>3, <2>4, <2>5, <2>6, <3>1
  <2>7. CASE k # 1
    <3>1. k - 1 \in 1..n /\ k - 1 \notin T /\ k \in 2..n
      BY <2>2, <2>7
    <3>2. w[k - 1].sequence = d[1].sequence + (k - 1) - 1 /\ d[k].sequence = 1
      BY <3>1
    <3> HIDE DEF T
    <3>. QED  BY <2>3, <2>4, <2>5, <3>2
  <2>. QED  BY <2>6, <2>7
<1>5. Len(s) = n
  BY <1>2
<1>. QED  BY <1>2, <1>4, <1>5 DEF Run, s

-----------------------------------------------------------------------------
\* The inductive invariant.

Buffer == [key : Key, samples : Seq(Sample), dirty : BOOLEAN]
StreamPacket == [key : Key, life : Nat, deltas : Seq(Delta)]
Entry == [life : Nat, sequence : Nat]

TypesOK ==
  /\ clientSequence \in [Key -> Nat] /\ lastProcessed \in [Key -> Nat]
  /\ life \in Nat
  /\ buffers \in Seq(Buffer)
  /\ known \subseteq Key
  /\ toServer \subseteq StreamPacket
  /\ toClient \subseteq [key : Key, last : Nat]
  /\ issued \in [Key -> SUBSET Entry] /\ log \in [Key -> Seq(Entry)]
  /\ lost \subseteq Key

\* Neither side has more streams than the limit, and the client has one buffer
\* for each.
StreamsFit ==
  /\ \A i, j \in 1..Len(buffers) : buffers[i].key = buffers[j].key => i = j
  /\ Len(buffers) <= MaxStreamsPerPeer
  /\ Cardinality(known) <= MaxStreamsPerPeer

\* A buffer has the last numbers that were given, all of them issued.
BufferRuns(b) ==
  /\ Len(b.samples) <= MaxPendingSamples
  /\ Len(b.samples) <= clientSequence[b.key]
  /\ Run(b.samples, clientSequence[b.key] - Len(b.samples) + 1)
  /\ \A i \in 1..Len(b.samples) :
       [life |-> life, sequence |-> b.samples[i].sequence] \in issued[b.key]

BuffersRun == \A i \in 1..Len(buffers) : BufferRuns(buffers[i])

FirstOf(p) == p.deltas[1].sequence
LastOf(p) == FirstOf(p) + Len(p.deltas) - 1

\* A packet has consecutive numbers, all of them issued.
PacketsRun ==
  \A p \in toServer :
    /\ p.life <= life
    /\ Len(p.deltas) \in 1..CountLimit
    /\ FirstOf(p) \in Nat \ {0}
    /\ \A i \in 2..Len(p.deltas) : p.deltas[i].sequence = 1
    /\ \A n \in FirstOf(p)..LastOf(p) :
         [life |-> p.life, sequence |-> n] \in issued[p.key]

IssuedInTime ==
  \A k \in Key : \A s \in issued[k] :
    /\ s.life <= life
    /\ s.life = life => s.sequence <= clientSequence[k]

\* The log grows in number up to the last processed one.
LogOrdered ==
  \A k \in Key :
    /\ \A i \in 1..Len(log[k]) : /\ log[k][i] \in issued[k]
                                 /\ log[k][i].sequence <= lastProcessed[k]
    /\ \A i, j \in 1..Len(log[k]) : i < j => log[k][i].sequence < log[k][j].sequence

\* No acknowledgement says more than the server has processed.
AcksAreTrue == \A a \in toClient : a.last <= lastProcessed[a.key]

Kept(k, n) ==
  \E i \in 1..Len(buffers) :
    buffers[i].key = k /\ \E j \in 1..Len(buffers[i].samples) :
                            buffers[i].samples[j].sequence = n

\* DroppedIsSettled, with buffers that are named by their place.
LeftIsSettled ==
  \A k \in Key : \A s \in issued[k] :
    \/ s.life # life
    \/ Kept(k, s.sequence)
    \/ s.sequence <= lastProcessed[k]
    \/ s.sequence + MaxPendingSamples <= clientSequence[k]

Width == Lower(MaxPendingSamples,
               IF MaxSamplesPerPacket = 0 THEN MaxPendingSamples ELSE MaxSamplesPerPacket)

\* What lies less than a packet behind the end of a packet of the first client,
\* and is not in it, was processed.
PacketsComplete ==
  life = 0 =>
    \A p \in toServer : \A s \in issued[p.key] :
      s.sequence <= LastOf(p) /\ LastOf(p) < s.sequence + Width =>
        FirstOf(p) <= s.sequence \/ s.sequence <= lastProcessed[p.key]

\* WindowsAreComplete, with entries of the log that are named by their place.
LogComplete ==
  life = 0 =>
    \A k \in Key : \A s \in issued[k] :
      s.sequence <= lastProcessed[k] /\ lastProcessed[k] < s.sequence + Width =>
        \E i \in 1..Len(log[k]) : log[k][i] = s

\* Nothing is processed that the first client has not given.
ProcessedInTime == life = 0 => \A k \in Key : lastProcessed[k] <= clientSequence[k]

StreamInv ==
  /\ TypesOK
  /\ StreamsFit
  /\ BuffersRun
  /\ PacketsRun
  /\ IssuedInTime
  /\ LogOrdered
  /\ AcksAreTrue
  /\ LeftIsSettled
  /\ PacketsComplete
  /\ LogComplete
  /\ ProcessedInTime

-----------------------------------------------------------------------------
\* What the client does with its buffers.

LEMMA PlaceFacts ==
  ASSUME NEW bs, Len(bs) \in Nat, NEW k
  PROVE  LET i == SelectInSeq(bs, LAMBDA b : b.key = k)
         IN  /\ i \in 0..Len(bs)
             /\ i # 0 => bs[i].key = k
             /\ i = 0 => \A j \in 1..Len(bs) : bs[j].key # k
<1> DEFINE i == SelectInSeq(bs, LAMBDA b : b.key = k)
           I == {j \in 1..Len(bs) : bs[j].key = k}
<1>1. i = IF I # {} THEN CHOOSE j \in I : \A l \in I : j <= l ELSE 0
  BY Zenon DEF SelectInSeq, Min
<1>2. I \in SUBSET Nat /\ I \subseteq 1..Len(bs)
  OBVIOUS
<1>3. CASE I # {}
  <2>1. \E j \in I : \A l \in I : j <= l
    <3> HIDE DEF I
    <3>. QED  BY <1>2, <1>3, SmallestNat
  <2>2. i \in I
    <3> HIDE DEF I, i
    <3>. QED  BY <1>1, <1>3, <2>1, Zenon
  <2>. QED  BY <2>2
<1>4. CASE I = {}
  <2>1. i = 0
    BY <1>1, <1>4, Zenon
  <2>. QED  BY <1>4, <2>1
<1>. QED  BY <1>3, <1>4

LEMMA LastNFacts ==
  ASSUME NEW T, NEW s \in Seq(T), NEW n \in Nat
  PROVE  /\ LastN(s, n) \in Seq(T)
         /\ Len(LastN(s, n)) = Lower(n, Len(s))
         /\ \A i \in 1..Lower(n, Len(s)) : LastN(s, n)[i] = s[Len(s) - Lower(n, Len(s)) + i]
<1> DEFINE m == Lower(n, Len(s))
           a == Len(s) - m + 1
<1>1. m \in 0..Len(s) /\ a \in Nat /\ a # 0 /\ Len(s) \in Nat
  BY DEF Lower
<1>2. \A i \in a..Len(s) : s[i] \in T
  <2> HIDE DEF m
  <2>. QED  BY <1>1
<1>3. /\ SubSeq(s, a, Len(s)) \in Seq(T)
      /\ Len(SubSeq(s, a, Len(s))) = IF a <= Len(s) THEN Len(s) - a + 1 ELSE 0
      /\ \A i \in 1..(Len(s) - a + 1) : SubSeq(s, a, Len(s))[i] = s[a + i - 1]
  <2>1. a \in Int /\ Len(s) \in Int
    BY <1>1
  <2> HIDE DEF a
  <2>. QED  BY <1>2, <2>1, SubSeqProperties
<1>4. LastN(s, n) = SubSeq(s, a, Len(s))
  BY DEF LastN
<1>5. Len(s) - a + 1 = m
  <2> HIDE DEF m
  <2>. QED  BY <1>1
<1>6. Len(SubSeq(s, a, Len(s))) = m
  <2> HIDE DEF m
  <2>. QED  BY <1>1, <1>3
<1>7. \A i \in 1..m : s[a + i - 1] = s[Len(s) - m + i]
  <2> TAKE i \in 1..m
  <2>1. a + i - 1 = Len(s) - m + i
    <3> HIDE DEF m
    <3>. QED  BY <1>1
  <2>. QED  BY <2>1
<1> HIDE DEF m, a
<1>. QED  BY <1>3, <1>4, <1>5, <1>6, <1>7 DEF m

Bounds ==
  /\ IsFiniteSet(Key) /\ ClientTick \subseteq Nat
  /\ MaxSamplesPerPacket \in Nat /\ MaxPendingSamples \in Nat /\ MaxStreamsPerPeer \in Nat
  /\ CountLimit \in Nat /\ MaxPushes \in Nat /\ MaxRestarts \in Nat

LEMMA BoundsHold == Bounds
BY StreamAssumption DEF Bounds

\* A pushed sample comes last, and the oldest ones give way.
LEMMA PushedBuffer ==
  ASSUME NEW b \in Buffer, NEW last \in Nat, Len(b.samples) <= last,
         Run(b.samples, last - Len(b.samples) + 1), NEW tick \in ClientTick
  PROVE  LET pushed == WithSample(b, [sequence |-> last + 1, clientTick |-> tick])
             n == Lower(MaxPendingSamples, Len(b.samples) + 1)
         IN  /\ pushed \in Buffer
             /\ pushed.key = b.key
             /\ pushed.dirty
             /\ Len(pushed.samples) = n
             /\ Run(pushed.samples, (last + 1) - n + 1)
<1> DEFINE sample == [sequence |-> last + 1, clientTick |-> tick]
           s == Append(b.samples, sample)
           n == Lower(MaxPendingSamples, Len(b.samples) + 1)
           r == LastN(s, MaxPendingSamples)
<1>1. b.samples \in Seq(Sample) /\ b.key \in Key /\ sample \in Sample
  BY DEF Buffer, Sample
<1>2. /\ s \in Seq(Sample) /\ Len(s) = Len(b.samples) + 1
      /\ \A i \in 1..Len(b.samples) : s[i] = b.samples[i]
      /\ s[Len(b.samples) + 1] = sample
  BY <1>1, AppendProperties
<1>3. \A i \in 1..Len(s) : s[i].sequence = (last + 1) - Len(s) + i
  <2> SUFFICES ASSUME NEW i \in 1..Len(s)
               PROVE  s[i].sequence = (last + 1) - Len(s) + i
    OBVIOUS
  <2>1. Len(b.samples) \in Nat /\ sample.sequence = last + 1
    BY <1>1
  <2> HIDE DEF s, sample
  <2>2. CASE i = Len(b.samples) + 1
    <3>1. s[i].sequence = last + 1
      BY <1>2, <2>1, <2>2, Zenon
    <3>2. (last + 1) - Len(s) + i = last + 1
      <4>1. Len(s) = i /\ i \in Nat
        BY <1>2, <2>1, <2>2
      <4>. QED  BY <4>1
    <3>. QED  BY <3>1, <3>2
  <2>3. CASE i \in 1..Len(b.samples)
    <3>1. s[i].sequence = (last - Len(b.samples) + 1) + i - 1
      BY <1>2, <2>3 DEF Run
    <3>. QED  BY <1>2, <2>1, <2>3, <3>1
  <2>4. i = Len(b.samples) + 1 \/ i \in 1..Len(b.samples)
    BY <1>2, <2>1
  <2>. QED  BY <2>2, <2>3, <2>4
<1>4. /\ r \in Seq(Sample) /\ Len(r) = n
      /\ \A i \in 1..n : r[i] = s[Len(s) - n + i]
  <2>1. LET l == Lower(MaxPendingSamples, Len(s))
        IN  /\ r \in Seq(Sample) /\ Len(r) = l
            /\ \A i \in 1..l : r[i] = s[Len(s) - l + i]
    <3>1. s \in Seq(Sample) /\ MaxPendingSamples \in Nat
      BY <1>2, BoundsHold DEF Bounds
    <3> HIDE DEF s
    <3>. QED  BY <3>1, LastNFacts, Zenon
  <2>. QED  BY <1>2, <2>1, Zenon
<1>5. Run(r, (last + 1) - n + 1)
  <2> SUFFICES ASSUME NEW i \in 1..n PROVE r[i].sequence = ((last + 1) - n + 1) + i - 1
    BY <1>4 DEF Run
  <2>1. n \in 0..Len(s) /\ Len(s) \in Nat
    BY <1>1, <1>2, BoundsHold DEF Lower, Bounds
  <2> HIDE DEF n, s, r
  <2>2. Len(s) - n + i \in 1..Len(s)
    BY <2>1
  <2>3. r[i].sequence = (last + 1) - Len(s) + (Len(s) - n + i)
    BY <1>3, <1>4, <2>2
  <2>. QED  BY <2>1, <2>3
<1>6. WithSample(b, sample) = [b EXCEPT !.samples = r, !.dirty = TRUE]
  BY DEF WithSample
<1> HIDE DEF r, s, n, sample
<1>7. /\ WithSample(b, sample) \in Buffer /\ WithSample(b, sample).key = b.key
      /\ WithSample(b, sample).samples = r /\ WithSample(b, sample).dirty
  BY <1>1, <1>4, <1>6 DEF Buffer
<1>. QED  BY <1>4, <1>5, <1>7 DEF n, sample

\* What is sent of a buffer is the end of its run: all of it, or as much as a
\* packet holds.
LEMMA WindowRun ==
  ASSUME NEW b \in Buffer, NEW first \in Nat, Run(b.samples, first)
  PROVE  \E m \in 0..Len(b.samples) :
           /\ Window(b) \in Seq(Sample)
           /\ Len(Window(b)) = Len(b.samples) - m
           /\ Run(Window(b), first + m)
           /\ m # 0 => MaxSamplesPerPacket # 0 /\ Len(Window(b)) = MaxSamplesPerPacket
<1>1. b.samples \in Seq(Sample) /\ Len(b.samples) \in Nat
  BY DEF Buffer
<1>2. CASE MaxSamplesPerPacket = 0
  <2>1. Window(b) = b.samples
    BY <1>2 DEF Window
  <2>2. first + 0 = first /\ Len(b.samples) - 0 = Len(b.samples) /\ 0 \in 0..Len(b.samples)
    BY <1>1
  <2>. QED  BY <1>1, <2>1, <2>2
<1>3. CASE MaxSamplesPerPacket # 0
  <2> DEFINE n == Len(b.samples)
             l == Lower(MaxSamplesPerPacket, n)
             m == n - l
  <2>1. Window(b) = LastN(b.samples, MaxSamplesPerPacket)
    BY <1>3 DEF Window
  <2>2. /\ Window(b) \in Seq(Sample) /\ Len(Window(b)) = l
        /\ \A i \in 1..l : Window(b)[i] = b.samples[n - l + i]
    <3>1. MaxSamplesPerPacket \in Nat
      BY BoundsHold DEF Bounds
    <3>. QED  BY <1>1, <2>1, <3>1, LastNFacts, Zenon
  <2>3. l \in 0..n /\ m \in 0..n /\ n - m = l /\ (m # 0 => l = MaxSamplesPerPacket)
    <3>1. MaxSamplesPerPacket \in Nat /\ n \in Nat
      BY <1>1, BoundsHold DEF Bounds
    <3> HIDE DEF n
    <3>. QED  BY <3>1 DEF Lower
  <2>4. Run(Window(b), first + m)
    <3> SUFFICES ASSUME NEW i \in 1..l
                 PROVE  Window(b)[i].sequence = first + m + i - 1
      BY <2>2 DEF Run
    <3>1. Window(b)[i] = b.samples[n - l + i]
      BY <2>2, Zenon
    <3> HIDE DEF l
    <3>2. n - l + i \in 1..n
      BY <1>1, <2>3
    <3>3. b.samples[n - l + i].sequence = first + (n - l + i) - 1
      BY <3>2, Zenon DEF Run
    <3>4. first + (n - l + i) - 1 = first + (n - l) + i - 1
      <4> HIDE DEF n
      <4>. QED  BY <1>1, <2>3
    <3>. QED  BY <3>1, <3>3, <3>4
  <2> HIDE DEF l, m
  <2>. QED  BY <1>3, <2>2, <2>3, <2>4
<1>. QED  BY <1>2, <1>3

-----------------------------------------------------------------------------
\* The invariant is inductive.

LEMMA InitStream == Init => StreamInv
<1> SUFFICES ASSUME Init PROVE StreamInv
  OBVIOUS
<1>1. Bounds
  BY BoundsHold
<1>2. TypesOK
  BY DEF Init, TypesOK
<1>3. StreamsFit
  BY <1>1, FS_EmptySet DEF Init, StreamsFit, Bounds
<1>4. BuffersRun /\ PacketsRun /\ IssuedInTime /\ AcksAreTrue /\ LeftIsSettled
      /\ PacketsComplete
  BY DEF Init, BuffersRun, PacketsRun, IssuedInTime, AcksAreTrue, LeftIsSettled,
         PacketsComplete
<1>5. LogOrdered /\ LogComplete /\ ProcessedInTime
  BY DEF Init, LogOrdered, LogComplete, ProcessedInTime
<1>. QED  BY <1>2, <1>3, <1>4, <1>5 DEF StreamInv

LEMMA BufferTypes ==
  ASSUME TypesOK, NEW i \in 1..Len(buffers)
  PROVE  /\ buffers[i] \in Buffer
         /\ buffers[i].key \in Key
         /\ buffers[i].samples \in Seq(Sample)
         /\ Len(buffers[i].samples) \in Nat
<1>1. buffers[i] \in Buffer
  BY DEF TypesOK
<1>. QED  BY <1>1 DEF Buffer

LEMMA PacketTypes ==
  ASSUME TypesOK, PacketsRun, NEW p \in toServer
  PROVE  /\ p.key \in Key /\ p.life \in Nat /\ p.deltas \in Seq(Delta)
         /\ Len(p.deltas) \in Nat \ {0}
         /\ FirstOf(p) \in Nat \ {0} /\ LastOf(p) \in Nat
         /\ FirstOf(p) <= LastOf(p)
<1>1. p \in StreamPacket
  BY DEF TypesOK
<1>2. p.key \in Key /\ p.life \in Nat /\ p.deltas \in Seq(Delta) /\ Len(p.deltas) \in Nat
  BY <1>1 DEF StreamPacket
<1>3. FirstOf(p) \in Nat \ {0} /\ Len(p.deltas) >= 1
  BY BoundsHold DEF PacketsRun, Bounds
<1>. QED  BY <1>2, <1>3 DEF LastOf

\* An accepted push changes one buffer, or adds one.
Accepted(k, sample, place, b) ==
  /\ buffers' \in Seq(Buffer)
  /\ place \in 1..Len(buffers')
  /\ Len(buffers') <= MaxStreamsPerPeer
  /\ b \in Buffer /\ b.key = k /\ BufferRuns(b)
  /\ buffers'[place] = WithSample(b, sample)
  /\ \A i \in 1..Len(buffers) : i # place => i \in 1..Len(buffers') /\ buffers[i].key # k
  /\ \A i \in 1..Len(buffers') :
       i # place => i \in 1..Len(buffers) /\ buffers'[i] = buffers[i]
  /\ place \in 1..Len(buffers) => b = buffers[place]
  /\ issued' = [issued EXCEPT ![k] = @ \cup {[life |-> life, sequence |-> sample.sequence]}]

LEMMA PushFacts ==
  ASSUME StreamInv, NEW k \in Key, NEW tick \in ClientTick, Push(k, tick)
  PROVE  LET sample == [sequence |-> clientSequence[k] + 1, clientTick |-> tick]
         IN  \/ /\ buffers' = buffers /\ issued' = issued
                /\ \A i \in 1..Len(buffers) : buffers[i].key # k
             \/ \E place \in Nat, b \in Buffer : Accepted(k, sample, place, b)
<1> DEFINE sample == [sequence |-> clientSequence[k] + 1, clientTick |-> tick]
           place == BufferOf(k)
           fresh == [key |-> k, samples |-> << >>, dirty |-> FALSE]
           entry == [life |-> life, sequence |-> sample.sequence]
<1>1. buffers \in Seq(Buffer) /\ Len(buffers) \in Nat
  BY DEF StreamInv, TypesOK
<1>2. /\ place \in 0..Len(buffers)
      /\ place # 0 => buffers[place].key = k
      /\ place = 0 => \A j \in 1..Len(buffers) : buffers[j].key # k
  BY <1>1, PlaceFacts, Zenon DEF BufferOf
<1>3. clientSequence[k] \in Nat
  BY DEF StreamInv, TypesOK
<1> HIDE DEF place
<1>4. CASE place = 0 /\ Len(buffers) >= MaxStreamsPerPeer
  <2>1. buffers' = buffers /\ issued' = issued
    BY <1>4 DEF Push, place
  <2>. QED  BY <1>2, <1>4, <2>1
<1>5. CASE place = 0 /\ ~ (Len(buffers) >= MaxStreamsPerPeer)
  <2> DEFINE pushed == WithSample(fresh, sample)
  <2>1. /\ buffers' = Append(buffers, pushed)
        /\ issued' = [issued EXCEPT ![k] = @ \cup {entry}]
    BY <1>5 DEF Push, place
  <2>2. fresh \in Buffer /\ fresh.key = k /\ fresh.samples = << >> /\ Len(fresh.samples) = 0
    BY DEF Buffer
  <2>3. BufferRuns(fresh)
    BY <1>3, <2>2, BoundsHold DEF BufferRuns, Run, Bounds
  <2>4. pushed \in Buffer
    BY <1>3, <2>2, <2>3, PushedBuffer DEF BufferRuns
  <2> HIDE DEF pushed, fresh
  <2>5. /\ buffers' \in Seq(Buffer) /\ Len(buffers') = Len(buffers) + 1
        /\ \A i \in 1..Len(buffers) : buffers'[i] = buffers[i]
        /\ buffers'[Len(buffers) + 1] = pushed
    BY <1>1, <2>1, <2>4, AppendProperties
  <2>6. Len(buffers') <= MaxStreamsPerPeer
    BY <1>1, <1>5, <2>5, BoundsHold DEF Bounds
  <2>7. Accepted(k, sample, Len(buffers) + 1, fresh)
    <3>1. \A i \in 1..Len(buffers) : i \in 1..Len(buffers') /\ buffers[i].key # k
      BY <1>1, <1>2, <1>5, <2>5
    <3>2. \A i \in 1..Len(buffers') : i # Len(buffers) + 1 =>
            i \in 1..Len(buffers) /\ buffers'[i] = buffers[i]
      BY <1>1, <2>5
    <3>3. Len(buffers) + 1 \in 1..Len(buffers') /\ Len(buffers) + 1 \notin 1..Len(buffers)
      BY <1>1, <2>5
    <3>4. issued' = [issued EXCEPT ![k] =
                       @ \cup {[life |-> life, sequence |-> sample.sequence]}]
      BY <2>1
    <3> HIDE DEF sample
    <3>. QED  BY <2>2, <2>3, <2>5, <2>6, <3>1, <3>2, <3>3, <3>4, Zenon DEF Accepted, pushed
  <2>8. Len(buffers) + 1 \in Nat
    BY <1>1
  <2>. QED  BY <2>2, <2>7, <2>8
<1>6. CASE place # 0
  <2> DEFINE b == buffers[place]
             pushed == WithSample(b, sample)
  <2>1. /\ buffers' = [buffers EXCEPT ![place] = pushed]
        /\ issued' = [issued EXCEPT ![k] = @ \cup {entry}]
    BY <1>6 DEF Push, place
  <2>2. place \in 1..Len(buffers)
    BY <1>2, <1>6
  <2>3. b \in Buffer /\ b.key = k /\ BufferRuns(b)
    BY <1>1, <1>2, <1>6, <2>2 DEF StreamInv, BuffersRun
  <2>4. pushed \in Buffer
    BY <1>3, <2>3, PushedBuffer DEF BufferRuns
  <2> HIDE DEF pushed, b
  <2>5. /\ buffers' \in Seq(Buffer) /\ Len(buffers') = Len(buffers)
        /\ \A i \in 1..Len(buffers) : i # place => buffers'[i] = buffers[i]
        /\ buffers'[place] = pushed
    BY <1>1, <2>1, <2>2, <2>4
  <2>6. Accepted(k, sample, place, b)
    <3>1. \A i \in 1..Len(buffers) : i # place => buffers[i].key # k
      BY <2>2, <2>3 DEF StreamInv, StreamsFit, b
    <3>2. Len(buffers') <= MaxStreamsPerPeer
      BY <2>5 DEF StreamInv, StreamsFit
    <3>3. issued' = [issued EXCEPT ![k] =
                       @ \cup {[life |-> life, sequence |-> sample.sequence]}]
      BY <2>1
    <3> HIDE DEF sample
    <3>. QED  BY <2>2, <2>3, <2>5, <3>1, <3>2, <3>3, Zenon DEF Accepted, pushed, b
  <2>. QED  BY <2>2, <2>3, <2>6
<1>. QED  BY <1>4, <1>5, <1>6

\* More samples were issued; nothing else of packets and logs changes.
LEMMA PacketsGrow ==
  ASSUME TypesOK, PacketsRun, LogOrdered, UNCHANGED <<toServer, life, lastProcessed, log>>,
         \A k \in Key : issued[k] \subseteq issued'[k]
  PROVE  PacketsRun' /\ LogOrdered'
<1>1. PacketsRun'
  <2> SUFFICES ASSUME NEW p \in toServer
               PROVE  /\ p.life <= life
                      /\ Len(p.deltas) \in 1..CountLimit
                      /\ FirstOf(p) \in Nat \ {0}
                      /\ \A i \in 2..Len(p.deltas) : p.deltas[i].sequence = 1
                      /\ \A n \in FirstOf(p)..LastOf(p) :
                           [life |-> p.life, sequence |-> n] \in issued'[p.key]
    BY DEF PacketsRun, FirstOf, LastOf
  <2>1. p.key \in Key
    BY PacketTypes
  <2>. QED  BY <2>1 DEF PacketsRun
<1>2. LogOrdered'
  BY DEF LogOrdered
<1>. QED  BY <1>1, <1>2

LEMMA PushStep ==
  ASSUME StreamInv, NEW k \in Key, NEW tick \in ClientTick, Push(k, tick)
  PROVE  StreamInv'
<1> DEFINE last == clientSequence[k]
           sample == [sequence |-> last + 1, clientTick |-> tick]
           new == [life |-> life, sequence |-> last + 1]
<1>1. /\ clientSequence' = [clientSequence EXCEPT ![k] = last + 1]
      /\ lost' = lost \ {k}
      /\ UNCHANGED <<life, known, lastProcessed, log, toServer, toClient>>
  BY DEF Push, serverVars
<1>2. last \in Nat /\ clientSequence'[k] = last + 1 /\ new \in Entry
      /\ \A l \in Key \ {k} : clientSequence'[l] = clientSequence[l]
  BY <1>1 DEF StreamInv, TypesOK, Entry
<1>3. \/ /\ buffers' = buffers /\ issued' = issued
         /\ \A i \in 1..Len(buffers) : buffers[i].key # k
      \/ \E place \in Nat, b \in Buffer : Accepted(k, sample, place, b)
  BY PushFacts
<1>4. /\ issued'[k] \subseteq issued[k] \cup {new}
      /\ issued' \in [Key -> SUBSET Entry]
      /\ \A l \in Key : issued[l] \subseteq issued'[l]
      /\ \A l \in Key \ {k} : issued'[l] = issued[l]
  <2>1. issued' = issued \/ issued' = [issued EXCEPT ![k] = @ \cup {new}]
    BY <1>3 DEF Accepted
  <2>2. issued \in [Key -> SUBSET Entry]
    BY DEF StreamInv, TypesOK
  <2> HIDE DEF new
  <2>3. CASE issued' = issued
    BY <2>2, <2>3
  <2>4. CASE issued' = [issued EXCEPT ![k] = @ \cup {new}]
    BY <1>2, <2>2, <2>4
  <2>. QED  BY <2>1, <2>3, <2>4
<1> HIDE DEF sample
<1>5. buffers' \in Seq(Buffer)
  BY <1>3 DEF Accepted, StreamInv, TypesOK
<1>6. TypesOK'
  <2>1. TypesOK
    BY DEF StreamInv
  <2>2. clientSequence' \in [Key -> Nat]
    BY <1>1, <1>2, <2>1 DEF TypesOK
  <2>. QED  BY <1>1, <1>4, <1>5, <2>1, <2>2 DEF TypesOK
<1>7. PacketsRun' /\ LogOrdered'
  BY <1>1, <1>4, PacketsGrow DEF StreamInv
<1>8. IssuedInTime'
  <2> SUFFICES ASSUME NEW l \in Key, NEW s \in issued'[l]
               PROVE  s.life <= life /\ (s.life = life => s.sequence <= clientSequence'[l])
    BY <1>1 DEF IssuedInTime
  <2>1. CASE s \in issued[l]
    <3>1. s \in Entry /\ s.life <= life /\ (s.life = life => s.sequence <= clientSequence[l])
      BY <2>1 DEF StreamInv, TypesOK, IssuedInTime
    <3>2. clientSequence[l] \in Nat /\ clientSequence[l] <= clientSequence'[l]
      BY <1>1, <1>2 DEF StreamInv, TypesOK
    <3>3. clientSequence'[l] \in Nat /\ s.sequence \in Nat
      BY <1>6, <3>1 DEF TypesOK, Entry
    <3>. QED  BY <3>1, <3>2, <3>3
  <2>2. CASE s = new /\ l = k
    BY <1>1, <1>2, <2>2 DEF StreamInv, TypesOK
  <2>. QED  BY <1>4, <2>1, <2>2
<1>9. AcksAreTrue'
  BY <1>1 DEF StreamInv, AcksAreTrue
<1>10. ProcessedInTime'
  <2> SUFFICES ASSUME life = 0, NEW l \in Key PROVE lastProcessed[l] <= clientSequence'[l]
    BY <1>1 DEF ProcessedInTime
  <2>1. lastProcessed[l] <= clientSequence[l] /\ lastProcessed[l] \in Nat
    BY DEF StreamInv, TypesOK, ProcessedInTime
  <2>. QED  BY <1>2, <2>1
<1>11. PacketsComplete'
  <2> SUFFICES ASSUME life = 0, NEW p \in toServer, NEW s \in issued'[p.key],
                      s.sequence <= LastOf(p), LastOf(p) < s.sequence + Width
               PROVE  FirstOf(p) <= s.sequence \/ s.sequence <= lastProcessed[p.key]
    BY <1>1 DEF PacketsComplete, FirstOf, LastOf
  <2>1. /\ p.key \in Key /\ p.life \in Nat /\ FirstOf(p) \in Nat /\ LastOf(p) \in Nat
        /\ FirstOf(p) <= LastOf(p)
    BY PacketTypes DEF StreamInv
  <2>2. CASE s \in issued[p.key]
    BY <2>2 DEF StreamInv, PacketsComplete
  <2>3. CASE s = new /\ p.key = k
    <3>1. LastOf(p) \in FirstOf(p)..LastOf(p)
      BY <2>1
    <3>2. [life |-> p.life, sequence |-> LastOf(p)] \in issued[k] /\ p.life <= life
      BY <2>3, <3>1 DEF StreamInv, PacketsRun
    <3>3. p.life = life
      BY <2>1, <3>2
    <3>4. LastOf(p) <= last
      BY <3>2, <3>3 DEF StreamInv, IssuedInTime
    <3>. QED  BY <1>2, <2>1, <2>3, <3>4
  <2>. QED  BY <1>4, <2>1, <2>2, <2>3
<1>12. LogComplete'
  <2> SUFFICES ASSUME life = 0, NEW l \in Key, NEW s \in issued'[l],
                      s.sequence <= lastProcessed[l], lastProcessed[l] < s.sequence + Width
               PROVE  \E i \in 1..Len(log[l]) : log[l][i] = s
    BY <1>1 DEF LogComplete
  <2>1. CASE s \in issued[l]
    BY <2>1 DEF StreamInv, LogComplete
  <2>2. CASE s = new /\ l = k
    <3>1. lastProcessed[k] <= last /\ lastProcessed[k] \in Nat
      BY DEF StreamInv, TypesOK, ProcessedInTime
    <3>. QED  BY <1>2, <2>2, <3>1
  <2>. QED  BY <1>4, <2>1, <2>2
<1>13. CASE buffers' = buffers /\ issued' = issued /\ \A i \in 1..Len(buffers) : buffers[i].key # k
  <2>1. StreamsFit'
    BY <1>1, <1>13 DEF StreamInv, StreamsFit
  <2>2. BuffersRun'
    <3> SUFFICES ASSUME NEW i \in 1..Len(buffers) PROVE BufferRuns(buffers[i])'
      BY <1>13 DEF BuffersRun
    <3>1. clientSequence'[buffers[i].key] = clientSequence[buffers[i].key]
      BY <1>2, <1>13, BufferTypes DEF StreamInv
    <3>. QED  BY <1>1, <1>13, <3>1 DEF StreamInv, BuffersRun, BufferRuns
  <2>3. LeftIsSettled'
    <3> SUFFICES ASSUME NEW l \in Key, NEW s \in issued[l]
                 PROVE  \/ s.life # life \/ Kept(l, s.sequence)'
                        \/ s.sequence <= lastProcessed[l]
                        \/ s.sequence + MaxPendingSamples <= clientSequence'[l]
      BY <1>1, <1>13 DEF LeftIsSettled
    <3>1. clientSequence[l] \in Nat /\ clientSequence[l] <= clientSequence'[l]
          /\ clientSequence'[l] \in Nat /\ s.sequence \in Nat /\ MaxPendingSamples \in Nat
      <4>1. clientSequence[l] \in Nat /\ s \in Entry
        BY DEF StreamInv, TypesOK
      <4>2. clientSequence'[l] = clientSequence[l] \/ clientSequence'[l] = clientSequence[l] + 1
        BY <1>2
      <4>. QED  BY <4>1, <4>2, BoundsHold DEF Entry, Bounds
    <3>2. Kept(l, s.sequence) => Kept(l, s.sequence)'
      BY <1>13 DEF Kept
    <3>3. \/ s.life # life \/ Kept(l, s.sequence) \/ s.sequence <= lastProcessed[l]
          \/ s.sequence + MaxPendingSamples <= clientSequence[l]
      BY DEF StreamInv, LeftIsSettled
    <3>. QED  BY <3>1, <3>2, <3>3
  <2>. QED  BY <1>6, <1>7, <1>8, <1>9, <1>10, <1>11, <1>12, <2>1, <2>2, <2>3 DEF StreamInv
<1>14. ASSUME NEW place \in Nat, NEW b \in Buffer, Accepted(k, sample, place, b)
       PROVE  StreamInv'
  <2> DEFINE pushed == WithSample(b, sample)
             old == Len(b.samples)
             n == Lower(MaxPendingSamples, old + 1)
  <2>1. /\ b.key = k /\ old \in Nat /\ old <= last
        /\ Run(b.samples, last - old + 1)
    BY <1>14 DEF Accepted, BufferRuns, Buffer
  <2>2. /\ pushed.key = k /\ Len(pushed.samples) = n
        /\ Run(pushed.samples, (last + 1) - n + 1)
    BY <1>2, <2>1, PushedBuffer DEF sample
  <2>3. /\ n \in Nat /\ n <= MaxPendingSamples /\ n <= old + 1
        /\ n = old + 1 \/ n = MaxPendingSamples
        /\ MaxPendingSamples \in Nat
    BY <2>1, BoundsHold DEF Lower, Bounds
  <2> HIDE DEF n, pushed
  <2>4. buffers'[place] = pushed /\ place \in 1..Len(buffers')
    BY <1>14 DEF Accepted, pushed
  <2>5. \A i \in 1..Len(buffers') :
          i # place => /\ i \in 1..Len(buffers) /\ buffers'[i] = buffers[i]
                       /\ buffers[i].key # k
    BY <1>14 DEF Accepted
  <2>6. \A i \in 1..Len(buffers) : i # place => i \in 1..Len(buffers') /\ buffers[i].key # k
    BY <1>14 DEF Accepted
  <2>7. new \in issued'[k] /\ life' = life
    BY <1>1, <1>14 DEF Accepted, StreamInv, TypesOK, sample
  <2>8. StreamsFit'
    <3>1. Len(buffers') <= MaxStreamsPerPeer
      BY <1>14 DEF Accepted
    <3>2. \A i, j \in 1..Len(buffers') : buffers'[i].key = buffers'[j].key => i = j
      <4> TAKE i, j \in 1..Len(buffers')
      <4>. QED  BY <2>2, <2>4, <2>5 DEF StreamInv, StreamsFit
    <3>. QED  BY <1>1, <3>1, <3>2 DEF StreamInv, StreamsFit
  <2>9. BuffersRun'
    <3> SUFFICES ASSUME NEW i \in 1..Len(buffers') PROVE BufferRuns(buffers[i])'
      BY DEF BuffersRun
    <3>1. CASE i # place
      <4>1. buffers[i].key \in Key \ {k} /\ i \in 1..Len(buffers)
        BY <2>5, <3>1, BufferTypes DEF StreamInv
      <4>2. /\ clientSequence'[buffers[i].key] = clientSequence[buffers[i].key]
            /\ issued'[buffers[i].key] = issued[buffers[i].key]
        BY <1>2, <1>4, <4>1
      <4>. QED  BY <2>5, <2>7, <3>1, <4>1, <4>2 DEF StreamInv, BuffersRun, BufferRuns
    <3>2. CASE i = place
      <4>1. buffers'[i] = pushed
        BY <2>4, <3>2
      <4>2. \A j \in 1..n : [life |-> life, sequence |-> pushed.samples[j].sequence]
                              \in issued'[k]
        <5> TAKE j \in 1..n
        <5>1. pushed.samples[j].sequence = ((last + 1) - n + 1) + j - 1
          BY <2>2 DEF Run
        <5>2. CASE j = n
          <6>1. pushed.samples[j].sequence = last + 1
            BY <1>2, <2>3, <5>1, <5>2
          <6>. QED  BY <2>7, <6>1
        <5>3. CASE j # n
          <6> DEFINE o == j + (old + 1 - n)
          <6>1. o \in 1..old
            BY <2>1, <2>3, <5>3
          <6>2. b.samples[o].sequence = (last - old + 1) + o - 1
            BY <2>1, <6>1 DEF Run
          <6>3. pushed.samples[j].sequence = b.samples[o].sequence
            <7> HIDE DEF last, old
            <7>1. ((last + 1) - n + 1) + j - 1 = (last - old + 1) + o - 1
              BY <1>2, <2>1, <2>3
            <7>. QED  BY <5>1, <6>2, <7>1
          <6>4. [life |-> life, sequence |-> b.samples[o].sequence] \in issued[k]
            BY <1>14, <2>1, <6>1 DEF Accepted, BufferRuns
          <6>. QED  BY <1>4, <6>3, <6>4
        <5>. QED  BY <5>2, <5>3
      <4>3. n <= last + 1
        BY <1>2, <2>1, <2>3
      <4>. QED  BY <1>2, <2>2, <2>3, <2>7, <4>1, <4>2, <4>3 DEF BufferRuns
    <3>. QED  BY <3>1, <3>2
  <2>10. LeftIsSettled'
    <3> SUFFICES ASSUME NEW l \in Key, NEW s \in issued'[l], s.life = life
                 PROVE  \/ Kept(l, s.sequence)'
                        \/ s.sequence <= lastProcessed[l]
                        \/ s.sequence + MaxPendingSamples <= clientSequence'[l]
      BY <1>1 DEF LeftIsSettled
    <3>1. s \in issued[l] =>
            \/ Kept(l, s.sequence) \/ s.sequence <= lastProcessed[l]
            \/ s.sequence + MaxPendingSamples <= clientSequence[l]
      BY DEF StreamInv, LeftIsSettled
    <3>2. s.sequence \in Nat /\ clientSequence[l] \in Nat
      BY <1>4 DEF StreamInv, TypesOK, Entry
    <3>3. CASE l # k
      <4>1. Kept(l, s.sequence) => Kept(l, s.sequence)'
        <5> SUFFICES ASSUME Kept(l, s.sequence) PROVE Kept(l, s.sequence)'
          OBVIOUS
        <5>1. PICK i \in 1..Len(buffers) :
                /\ buffers[i].key = l
                /\ \E j \in 1..Len(buffers[i].samples) :
                     buffers[i].samples[j].sequence = s.sequence
          BY DEF Kept
        <5>2. i # place
          <6> SUFFICES ASSUME i = place PROVE FALSE
            OBVIOUS
          <6>1. b = buffers[i]
            BY <1>14, <5>1 DEF Accepted
          <6>. QED  BY <2>1, <3>3, <5>1, <6>1
        <5>3. i \in 1..Len(buffers') /\ buffers'[i] = buffers[i]
          BY <2>5, <2>6, <5>2
        <5>. QED  BY <5>1, <5>3 DEF Kept
      <4>. QED  BY <1>2, <1>4, <3>1, <3>3, <4>1
    <3>4. CASE l = k
      <4>1. \A q \in (last + 1 - n + 1)..(last + 1) : Kept(k, q)'
        <5> TAKE q \in (last + 1 - n + 1)..(last + 1)
        <5>1. q - (last + 1 - n) \in 1..n
          BY <1>2, <2>3
        <5>2. pushed.samples[q - (last + 1 - n)].sequence
                = ((last + 1) - n + 1) + (q - (last + 1 - n)) - 1
          BY <2>2, <5>1 DEF Run
        <5>3. pushed.samples[q - (last + 1 - n)].sequence = q
          <6> HIDE DEF last
          <6>1. ((last + 1) - n + 1) + (q - (last + 1 - n)) - 1 = q
            BY <1>2, <2>3
          <6>. QED  BY <5>2, <6>1
        <5>. QED  BY <2>2, <2>4, <5>1, <5>3 DEF Kept
      <4>2. CASE s = new
        <5>1. s.sequence = last + 1
          BY <4>2
        <5>2. CASE n # 0
          BY <1>2, <2>3, <3>4, <4>1, <5>1, <5>2
        <5>3. CASE n = 0
          BY <1>2, <2>1, <2>3, <3>4, <5>1, <5>3
        <5>. QED  BY <5>2, <5>3
      <4>3. CASE s \in issued[k] /\ Kept(k, s.sequence)
        <5>1. PICK i \in 1..Len(buffers) :
                /\ buffers[i].key = k
                /\ \E j \in 1..Len(buffers[i].samples) :
                     buffers[i].samples[j].sequence = s.sequence
          BY <4>3 DEF Kept
        <5>2. buffers[i] = b
          BY <1>14, <2>6, <5>1 DEF Accepted
        <5>3. PICK j \in 1..old : b.samples[j].sequence = s.sequence
          BY <5>1, <5>2
        <5>4. s.sequence = (last - old + 1) + j - 1
          BY <2>1, <5>3 DEF Run
        <5>5. CASE s.sequence >= last + 1 - n + 1
          BY <1>2, <2>1, <2>3, <3>2, <3>4, <4>1, <5>4, <5>5
        <5>6. CASE ~ (s.sequence >= last + 1 - n + 1)
          BY <1>2, <2>1, <2>3, <3>2, <3>4, <5>4, <5>6
        <5>. QED  BY <5>5, <5>6
      <4>4. CASE s \in issued[k] /\ ~ Kept(k, s.sequence)
        BY <1>2, <2>3, <3>1, <3>2, <3>4, <4>4
      <4>. QED  BY <1>4, <3>4, <4>2, <4>3, <4>4
    <3>. QED  BY <3>3, <3>4
  <2>. QED  BY <1>6, <1>7, <1>8, <1>9, <1>10, <1>11, <1>12, <2>8, <2>9, <2>10 DEF StreamInv
<1>. QED  BY <1>3, <1>13, <1>14

\* What is sent of a buffer is a run that ends with the last number given.
LEMMA SentPacket ==
  ASSUME StreamInv, NEW i \in 1..Len(buffers), Pending(buffers[i]), ~ Failing(buffers[i])
  PROVE  LET b == buffers[i]
             p == [key |-> b.key, life |-> life, deltas |-> EncodeSamples(Window(b))]
         IN  /\ p \in StreamPacket
             /\ Len(p.deltas) \in 1..CountLimit
             /\ FirstOf(p) \in Nat \ {0}
             /\ LastOf(p) = clientSequence[b.key]
             /\ \A j \in 2..Len(p.deltas) : p.deltas[j].sequence = 1
             /\ Len(p.deltas) = Len(b.samples)
                \/ /\ MaxSamplesPerPacket # 0 /\ Len(p.deltas) = MaxSamplesPerPacket
                   /\ Len(p.deltas) <= Len(b.samples)
<1> DEFINE b == buffers[i]
           w == Window(b)
           p == [key |-> b.key, life |-> life, deltas |-> EncodeSamples(w)]
           n == Len(b.samples)
           last == clientSequence[b.key]
<1>1. b \in Buffer /\ b.key \in Key /\ n \in Nat /\ life \in Nat
  BY BufferTypes DEF StreamInv, TypesOK
<1>2. last \in Nat /\ n <= last /\ Run(b.samples, last - n + 1)
  BY <1>1 DEF StreamInv, TypesOK, BuffersRun, BufferRuns
<1>3. last - n + 1 \in Nat /\ last - n + 1 # 0
  <2> HIDE DEF n, last
  <2>. QED  BY <1>1, <1>2
<1>4. PICK m \in 0..n :
        /\ w \in Seq(Sample)
        /\ Len(w) = n - m
        /\ Run(w, (last - n + 1) + m)
        /\ m # 0 => MaxSamplesPerPacket # 0 /\ Len(w) = MaxSamplesPerPacket
  BY <1>1, <1>2, <1>3, WindowRun
<1>5. EncodableSamples(w)
  BY DEF Failing
<1>6. Len(w) \in 1..CountLimit /\ Len(w) \in Nat
  BY <1>4, <1>5 DEF EncodableSamples
<1>7. \A j \in 1..Len(w) : w[j] \in Sample /\ w[j].sequence = ((last - n + 1) + m) + j - 1
  BY <1>4 DEF Run
<1> HIDE DEF w, n, last
<1>8. \A j \in 1..Len(w) :
        EncodeSamples(w)[j] \in Delta
        /\ EncodeSamples(w)[j].sequence = IF j = 1 THEN (last - n + 1) + m ELSE 1
  <2> SUFFICES ASSUME NEW j \in 1..Len(w)
               PROVE  EncodeSamples(w)[j] \in Delta
                      /\ EncodeSamples(w)[j].sequence = IF j = 1 THEN (last - n + 1) + m ELSE 1
    OBVIOUS
  <2>1. EncodeSamples(w)[j] =
          [ sequence   |-> w[j].sequence - Previous(w, j).sequence,
            clientTick |-> w[j].clientTick - Previous(w, j).clientTick ]
    BY DEF EncodeSamples
  <2>2. /\ w[j].clientTick \in Nat
        /\ w[j].clientTick >= Previous(w, j).clientTick
    BY <1>5, <1>7, BoundsHold DEF EncodableSamples, Sample, Bounds
  <2>3. CASE j = 1
    <3>1. Previous(w, j) = [sequence |-> 0, clientTick |-> 0]
      BY <2>3 DEF Previous
    <3>2. w[j].sequence = (last - n + 1) + m
      BY <1>1, <1>2, <1>3, <1>4, <1>7, <2>3
    <3>3. (last - n + 1) + m \in Nat
      BY <1>3, <1>4
    <3>4. EncodeSamples(w)[j] =
            [sequence |-> (last - n + 1) + m, clientTick |-> w[j].clientTick]
      BY <2>1, <2>2, <3>1, <3>2, <3>3
    <3>. QED  BY <2>2, <2>3, <3>3, <3>4 DEF Delta
  <2>4. CASE j # 1
    <3>1. Previous(w, j) = w[j - 1] /\ j - 1 \in 1..Len(w)
      BY <1>6, <2>4 DEF Previous
    <3>2. w[j - 1].clientTick \in Nat
      BY <1>7, <3>1, BoundsHold DEF Sample, Bounds
    <3>3. w[j].sequence - w[j - 1].sequence = 1
      <4>1. w[j].sequence = ((last - n + 1) + m) + j - 1
        BY <1>7
      <4>2. w[j - 1].sequence = ((last - n + 1) + m) + (j - 1) - 1
        BY <1>7, <3>1
      <4>. QED  BY <1>1, <1>2, <1>4, <4>1, <4>2
    <3>4. w[j].clientTick - w[j - 1].clientTick \in Nat
      BY <2>2, <3>1, <3>2
    <3>5. EncodeSamples(w)[j] =
            [sequence |-> 1, clientTick |-> w[j].clientTick - w[j - 1].clientTick]
      BY <2>1, <3>1, <3>3
    <3>. QED  BY <2>4, <3>4, <3>5 DEF Delta
  <2>. QED  BY <2>3, <2>4
<1>9. EncodeSamples(w) \in Seq(Delta) /\ Len(EncodeSamples(w)) = Len(w)
  <2>1. EncodeSamples(w) = [j \in 1..Len(w) |-> EncodeSamples(w)[j]]
        /\ Len(EncodeSamples(w)) = Len(w)
    BY <1>6 DEF EncodeSamples
  <2>. QED  BY <1>6, <1>8, <2>1
<1>10. /\ FirstOf(p) = (last - n + 1) + m /\ Len(p.deltas) = n - m
       /\ Len(p.deltas) \in 1..CountLimit
       /\ \A j \in 2..Len(p.deltas) : p.deltas[j].sequence = 1
  BY <1>4, <1>6, <1>8, <1>9 DEF FirstOf
<1>11. p \in StreamPacket
  BY <1>1, <1>9 DEF StreamPacket
<1> HIDE DEF p
<1>12. FirstOf(p) \in Nat \ {0} /\ LastOf(p) = last
  <2>1. LastOf(p) = ((last - n + 1) + m) + (n - m) - 1
    BY <1>10, Zenon DEF LastOf
  <2>2. (last - n + 1) + m \in Nat \ {0} /\ ((last - n + 1) + m) + (n - m) - 1 = last
    BY <1>1, <1>2, <1>3, <1>4
  <2>. QED  BY <1>10, <2>1, <2>2
<1>13. \/ Len(p.deltas) = n
       \/ /\ MaxSamplesPerPacket # 0 /\ Len(p.deltas) = MaxSamplesPerPacket
          /\ Len(p.deltas) <= n
  BY <1>1, <1>4, <1>10
<1>. QED  BY <1>10, <1>11, <1>12, <1>13 DEF p, n, last, w

LEMMA UpdateFacts ==
  ASSUME StreamInv, Update
  PROVE  /\ buffers' \in Seq(Buffer) /\ Len(buffers') = Len(buffers)
         /\ \A i \in 1..Len(buffers) : /\ buffers'[i].key = buffers[i].key
                                       /\ buffers'[i].samples = buffers[i].samples
         /\ toServer \subseteq toServer'
         /\ \A p \in toServer' \ toServer :
              \E i \in 1..Len(buffers) :
                /\ Pending(buffers[i]) /\ ~ Failing(buffers[i])
                /\ p = [ key |-> buffers[i].key, life |-> life,
                         deltas |-> EncodeSamples(Window(buffers[i])) ]
<1> DEFINE bad == SelectInSeq(buffers, Failing)
           sent == {i \in 1..Len(buffers) : Pending(buffers[i]) /\ (bad = 0 \/ i < bad)}
<1>1. Len(buffers) \in Nat /\ \A i \in 1..Len(buffers) : buffers[i] \in Buffer
  BY DEF StreamInv, TypesOK
<1>2. \A i \in sent : ~ Failing(buffers[i])
  <2> DEFINE I == {j \in 1..Len(buffers) : Failing(buffers[j])}
  <2>1. bad = IF I # {} THEN CHOOSE j \in I : \A l \in I : j <= l ELSE 0
    BY Zenon DEF SelectInSeq, Min
  <2>2. SUFFICES ASSUME NEW i \in sent, Failing(buffers[i]) PROVE FALSE
    OBVIOUS
  <2>3. i \in I /\ I \in SUBSET Nat
    BY <2>2
  <2>4. \E j \in I : \A l \in I : j <= l
    <3> HIDE DEF I
    <3>. QED  BY <2>3, SmallestNat
  <2>5. bad \in I /\ bad <= i
    <3> HIDE DEF I, bad
    <3>. QED  BY <2>1, <2>3, <2>4, Zenon
  <2>. QED  BY <2>5
<1>3. buffers' = [i \in 1..Len(buffers) |->
                    IF i \in sent THEN [buffers[i] EXCEPT !.dirty = FALSE] ELSE buffers[i]]
  BY Zenon DEF Update
<1>4. toServer' = toServer \cup
        {[ key |-> buffers[i].key, life |-> life,
           deltas |-> EncodeSamples(Window(buffers[i])) ] : i \in sent}
  BY Zenon DEF Update
<1>5. \A i \in sent : i \in 1..Len(buffers) /\ Pending(buffers[i])
  OBVIOUS
<1> HIDE DEF sent
<1>6. \A i \in 1..Len(buffers) :
        LET b == IF i \in sent THEN [buffers[i] EXCEPT !.dirty = FALSE] ELSE buffers[i]
        IN  b \in Buffer /\ b.key = buffers[i].key /\ b.samples = buffers[i].samples
  BY <1>1 DEF Buffer
<1>7. /\ buffers' \in Seq(Buffer) /\ Len(buffers') = Len(buffers)
      /\ \A i \in 1..Len(buffers) : /\ buffers'[i].key = buffers[i].key
                                    /\ buffers'[i].samples = buffers[i].samples
  BY <1>1, <1>3, <1>6
<1>8. \A p \in toServer' \ toServer :
        \E i \in 1..Len(buffers) :
          /\ Pending(buffers[i]) /\ ~ Failing(buffers[i])
          /\ p = [ key |-> buffers[i].key, life |-> life,
                   deltas |-> EncodeSamples(Window(buffers[i])) ]
  BY <1>2, <1>4, <1>5
<1>. QED  BY <1>4, <1>7, <1>8

LEMMA WidthFacts ==
  /\ Width \in Nat /\ MaxPendingSamples \in Nat /\ MaxSamplesPerPacket \in Nat
  /\ Width <= MaxPendingSamples
  /\ MaxSamplesPerPacket # 0 => Width <= MaxSamplesPerPacket
BY BoundsHold DEF Width, Lower, Bounds

LEMMA UpdateStep == ASSUME StreamInv, Update PROVE StreamInv'
<1>1. UNCHANGED <<clientSequence, life, issued, known, lastProcessed, log, toClient, lost>>
  BY DEF Update, serverVars
<1>2. /\ buffers' \in Seq(Buffer) /\ Len(buffers') = Len(buffers)
      /\ \A i \in 1..Len(buffers) : /\ buffers'[i].key = buffers[i].key
                                    /\ buffers'[i].samples = buffers[i].samples
      /\ toServer \subseteq toServer'
  BY UpdateFacts
<1>3. \A p \in toServer' \ toServer :
        /\ p \in StreamPacket
        /\ p.life = life
        /\ Len(p.deltas) \in 1..CountLimit
        /\ FirstOf(p) \in Nat \ {0}
        /\ LastOf(p) = clientSequence[p.key]
        /\ \A j \in 2..Len(p.deltas) : p.deltas[j].sequence = 1
        /\ \E i \in 1..Len(buffers) :
             LET n == Len(buffers[i].samples)
             IN  /\ p.key = buffers[i].key
                 /\ Len(p.deltas) = n
                    \/ /\ MaxSamplesPerPacket # 0 /\ Len(p.deltas) = MaxSamplesPerPacket
                       /\ Len(p.deltas) <= n
  <2> TAKE p \in toServer' \ toServer
  <2>1. PICK i \in 1..Len(buffers) :
          /\ Pending(buffers[i]) /\ ~ Failing(buffers[i])
          /\ p = [ key |-> buffers[i].key, life |-> life,
                   deltas |-> EncodeSamples(Window(buffers[i])) ]
    BY UpdateFacts
  <2>2. p.key = buffers[i].key /\ p.life = life
    BY <2>1
  <2>. QED  BY <2>1, <2>2, SentPacket
<1>4. TypesOK'
  BY <1>1, <1>2, <1>3 DEF StreamInv, TypesOK
<1>5. StreamsFit'
  BY <1>1, <1>2 DEF StreamInv, StreamsFit
<1>6. BuffersRun'
  BY <1>1, <1>2 DEF StreamInv, BuffersRun, BufferRuns
<1>7. IssuedInTime' /\ LogOrdered' /\ AcksAreTrue' /\ LogComplete' /\ ProcessedInTime'
  BY <1>1 DEF StreamInv, IssuedInTime, LogOrdered, AcksAreTrue, LogComplete, ProcessedInTime
<1>8. LeftIsSettled'
  <2>1. \A k, n : Kept(k, n) => Kept(k, n)'
    BY <1>2 DEF Kept
  <2>. QED  BY <1>1, <2>1 DEF StreamInv, LeftIsSettled
<1>9. \A p \in toServer' \ toServer :
        /\ \A q \in FirstOf(p)..LastOf(p) :
             [life |-> p.life, sequence |-> q] \in issued[p.key]
        /\ life = 0 => \A s \in issued[p.key] :
             s.sequence <= LastOf(p) /\ LastOf(p) < s.sequence + Width =>
               FirstOf(p) <= s.sequence \/ s.sequence <= lastProcessed[p.key]
  <2> TAKE p \in toServer' \ toServer
  <2> DEFINE last == clientSequence[p.key]
             w == Len(p.deltas)
  <2>1. PICK i \in 1..Len(buffers) :
          LET n == Len(buffers[i].samples)
          IN  /\ p.key = buffers[i].key
              /\ w = n \/ (MaxSamplesPerPacket # 0 /\ w = MaxSamplesPerPacket /\ w <= n)
    BY <1>3
  <2> DEFINE b == buffers[i]
             n == Len(b.samples)
  <2>2. b \in Buffer /\ n \in Nat /\ p.key \in Key /\ BufferRuns(b)
    BY <2>1, BufferTypes DEF StreamInv, BuffersRun
  <2>3. /\ last \in Nat /\ n <= last /\ Run(b.samples, last - n + 1)
        /\ \A j \in 1..n : [life |-> life, sequence |-> b.samples[j].sequence] \in issued[p.key]
    BY <2>1, <2>2 DEF StreamInv, TypesOK, BufferRuns
  <2>4. /\ LastOf(p) = last /\ FirstOf(p) = last - w + 1 /\ w \in Nat /\ w <= n
        /\ p.life = life
    <3>1. /\ LastOf(p) = last /\ w \in Nat /\ FirstOf(p) \in Nat
          /\ LastOf(p) = FirstOf(p) + w - 1 /\ p.life = life
      BY <1>3, BoundsHold DEF LastOf, Bounds
    <3>2. w <= n
      BY <2>1, <2>2
    <3>3. FirstOf(p) = last - w + 1
      <4> HIDE DEF w, last
      <4>. QED  BY <2>3, <3>1
    <3>. QED  BY <3>1, <3>2, <3>3
  <2>5. \A q \in (last - n + 1)..last : q - (last - n) \in 1..n
                                       /\ b.samples[q - (last - n)].sequence = q
    <3> TAKE q \in (last - n + 1)..last
    <3>1. q - (last - n) \in 1..n
      <4> HIDE DEF n, last
      <4>. QED  BY <2>2, <2>3
    <3>2. b.samples[q - (last - n)].sequence = (last - n + 1) + (q - (last - n)) - 1
      BY <2>3, <3>1 DEF Run
    <3>3. (last - n + 1) + (q - (last - n)) - 1 = q
      <4> HIDE DEF n, last
      <4>. QED  BY <2>2, <2>3
    <3>. QED  BY <3>1, <3>2, <3>3
  <2>6. \A q \in FirstOf(p)..LastOf(p) : [life |-> p.life, sequence |-> q] \in issued[p.key]
    <3> TAKE q \in FirstOf(p)..LastOf(p)
    <3>1. q \in (last - n + 1)..last
      <4> HIDE DEF n, last, w
      <4>. QED  BY <2>2, <2>3, <2>4
    <3>. QED  BY <2>3, <2>4, <2>5, <3>1
  <2>7. ASSUME life = 0, NEW s \in issued[p.key],
               s.sequence <= LastOf(p), LastOf(p) < s.sequence + Width
        PROVE  FirstOf(p) <= s.sequence \/ s.sequence <= lastProcessed[p.key]
    <3>1. s \in Entry /\ s.sequence \in Nat /\ s.life \in Nat
      BY <2>2 DEF StreamInv, TypesOK, Entry
    <3>2. s.life = life
      BY <2>2, <2>7, <3>1 DEF StreamInv, IssuedInTime
    <3>3. \/ Kept(p.key, s.sequence)
          \/ s.sequence <= lastProcessed[p.key]
          \/ s.sequence + MaxPendingSamples <= last
      BY <2>2, <3>2 DEF StreamInv, LeftIsSettled
    <3>4. ~ (s.sequence + MaxPendingSamples <= last)
      <4> HIDE DEF last
      <4>. QED  BY <2>3, <2>4, <2>7, <3>1, WidthFacts
    <3>5. CASE Kept(p.key, s.sequence)
      <4>1. PICK j \in 1..Len(buffers) :
              /\ buffers[j].key = p.key
              /\ \E l \in 1..Len(buffers[j].samples) :
                   buffers[j].samples[l].sequence = s.sequence
        BY <3>5 DEF Kept
      <4>2. j = i
        BY <2>1, <4>1 DEF StreamInv, StreamsFit
      <4>3. PICK l \in 1..n : b.samples[l].sequence = s.sequence
        BY <4>1, <4>2
      <4>4. s.sequence = (last - n + 1) + l - 1
        BY <2>3, <4>3 DEF Run
      <4>5. s.sequence >= last - n + 1
        <5> HIDE DEF n, last
        <5>. QED  BY <2>2, <2>3, <4>4
      <4>6. w = n \/ Width <= w
        BY <2>1, WidthFacts
      <4> HIDE DEF n, last, w
      <4>. QED  BY <2>2, <2>3, <2>4, <2>7, <3>1, <4>5, <4>6, WidthFacts
    <3>. QED  BY <3>3, <3>4, <3>5
  <2>. QED  BY <2>6, <2>7
<1>10. PacketsRun'
  <2> SUFFICES ASSUME NEW p \in toServer'
               PROVE  /\ p.life <= life
                      /\ Len(p.deltas) \in 1..CountLimit
                      /\ FirstOf(p) \in Nat \ {0}
                      /\ \A i \in 2..Len(p.deltas) : p.deltas[i].sequence = 1
                      /\ \A n \in FirstOf(p)..LastOf(p) :
                           [life |-> p.life, sequence |-> n] \in issued[p.key]
    BY <1>1 DEF PacketsRun, FirstOf, LastOf
  <2>1. life \in Nat
    BY DEF StreamInv, TypesOK
  <2>. QED  BY <1>3, <1>9, <2>1 DEF StreamInv, PacketsRun
<1>11. PacketsComplete'
  <2> SUFFICES ASSUME life = 0, NEW p \in toServer', NEW s \in issued[p.key],
                      s.sequence <= LastOf(p), LastOf(p) < s.sequence + Width
               PROVE  FirstOf(p) <= s.sequence \/ s.sequence <= lastProcessed[p.key]
    BY <1>1 DEF PacketsComplete, FirstOf, LastOf
  <2>. QED  BY <1>9 DEF StreamInv, PacketsComplete
<1>. QED  BY <1>4, <1>5, <1>6, <1>7, <1>8, <1>10, <1>11 DEF StreamInv

\* A sequence without the element at place i.
LEMMA WithoutPlace ==
  ASSUME NEW T, NEW s \in Seq(T), NEW i \in 1..Len(s)
  PROVE  /\ RemoveAt(s, i) \in Seq(T)
         /\ Len(RemoveAt(s, i)) = Len(s) - 1
         /\ \A j \in 1..(Len(s) - 1) :
              RemoveAt(s, i)[j] = IF j < i THEN s[j] ELSE s[j + 1]
<1> DEFINE front == SubSeq(s, 1, i - 1)
           back  == SubSeq(s, i + 1, Len(s))
<1>1. /\ front \in Seq(T) /\ Len(front) = i - 1
      /\ \A j \in 1..(i - 1) : front[j] = s[j]
  BY SubSeqProperties
<1>2. /\ back \in Seq(T) /\ Len(back) = Len(s) - i
      /\ \A j \in 1..(Len(s) - i) : back[j] = s[j + i]
  BY SubSeqProperties
<1>3. /\ front \o back \in Seq(T)
      /\ Len(front \o back) = Len(s) - 1
      /\ \A j \in 1..(Len(s) - 1) :
           (front \o back)[j] = IF j < i THEN s[j] ELSE s[j + 1]
  <2> HIDE DEF front, back
  <2>1. /\ front \o back \in Seq(T)
        /\ Len(front \o back) = Len(front) + Len(back)
        /\ \A j \in 1..(Len(front) + Len(back)) :
             (front \o back)[j] = IF j <= Len(front) THEN front[j] ELSE back[j - Len(front)]
    BY <1>1, <1>2, ConcatProperties
  <2>2. Len(front) \in Nat /\ Len(back) \in Nat /\ i \in 1..Len(s) /\ Len(s) \in Nat
    BY <1>1, <1>2
  <2>3. Len(front) + Len(back) = Len(s) - 1
    BY <1>1, <1>2, <2>2
  <2>4. ASSUME NEW j \in 1..(Len(s) - 1)
        PROVE  (front \o back)[j] = IF j < i THEN s[j] ELSE s[j + 1]
    <3>1. CASE j < i
      <4>1. j <= Len(front) /\ j \in 1..(i - 1) /\ j \in 1..(Len(front) + Len(back))
        BY <1>1, <2>2, <2>3, <3>1
      <4>. QED  BY <1>1, <2>1, <3>1, <4>1
    <3>2. CASE ~(j < i)
      <4>1. /\ ~(j <= Len(front)) /\ j \in 1..(Len(front) + Len(back))
            /\ j - Len(front) \in 1..(Len(s) - i) /\ (j - Len(front)) + i = j + 1
        BY <1>1, <2>2, <2>3, <3>2
      <4>2. (front \o back)[j] = back[j - Len(front)]
        BY <2>1, <4>1
      <4>3. back[j - Len(front)] = s[j + 1]
        BY <1>2, <4>1
      <4>. QED  BY <3>2, <4>2, <4>3
    <3>. QED  BY <3>1, <3>2
  <2>. QED  BY <2>1, <2>3, <2>4
<1> QED  BY <1>3 DEF RemoveAt

\* After an acknowledgement each buffer is an old one without its first m
\* samples, all of them processed, and what is missing was a whole buffer.
Trimmed(i, j, m, k) ==
  /\ buffers'[i].key = buffers[j].key
  /\ Len(buffers'[i].samples) = Len(buffers[j].samples) - m
  /\ \A l \in 1..(Len(buffers[j].samples) - m) :
       buffers'[i].samples[l] = buffers[j].samples[m + l]
  /\ \A l \in 1..m : /\ buffers[j].key = k
                     /\ buffers[j].samples[l].sequence <= lastProcessed[k]

LEMMA AckFacts ==
  ASSUME StreamInv, NEW k \in Key, ReceiveAck(k)
  PROVE  /\ buffers' \in Seq(Buffer) /\ Len(buffers') <= Len(buffers)
         /\ \A i \in 1..Len(buffers') : \E j \in 1..Len(buffers) :
              \E m \in 0..Len(buffers[j].samples) : Trimmed(i, j, m, k)
         /\ \A j \in 1..Len(buffers) :
              \/ \E i \in 1..Len(buffers'), m \in 0..Len(buffers[j].samples) :
                   Trimmed(i, j, m, k)
              \/ \A l \in 1..Len(buffers[j].samples) :
                   /\ buffers[j].key = k
                   /\ buffers[j].samples[l].sequence <= lastProcessed[k]
         /\ \A i, j \in 1..Len(buffers') : buffers'[i].key = buffers'[j].key => i = j
<1> DEFINE place == BufferOf(k)
           b == buffers[place]
<1>1. PICK ack \in toClient :
        LET rest == Unacknowledged(b.samples, ack.last)
        IN  /\ ack.key = k
            /\ place # 0
            /\ buffers' = IF rest = << >> THEN RemoveAt(buffers, place)
                          ELSE [buffers EXCEPT ![place].samples = rest]
  BY Zenon DEF ReceiveAck, HandleAck
<1> DEFINE rest == Unacknowledged(b.samples, ack.last)
           n == Len(b.samples)
<1>2. buffers \in Seq(Buffer) /\ Len(buffers) \in Nat
  BY DEF StreamInv, TypesOK
<1>3. place \in 1..Len(buffers) /\ b.key = k
  <2>1. /\ place \in 0..Len(buffers)
        /\ place # 0 => buffers[place].key = k
        /\ place = 0 => \A j \in 1..Len(buffers) : buffers[j].key # k
    BY <1>2, PlaceFacts, Zenon DEF BufferOf
  <2> HIDE DEF place
  <2>. QED  BY <1>1, <1>2, <2>1
<1> HIDE DEF place
<1>4. /\ b \in Buffer /\ b.samples \in Seq(Sample) /\ n \in Nat
      /\ n <= clientSequence[k] /\ clientSequence[k] \in Nat
      /\ Run(b.samples, clientSequence[k] - n + 1)
  BY <1>3, BufferTypes DEF StreamInv, TypesOK, BuffersRun, BufferRuns
<1>5. ack.last \in Nat /\ ack.last <= lastProcessed[k] /\ lastProcessed[k] \in Nat
  BY <1>1 DEF StreamInv, TypesOK, AcksAreTrue
<1>6. PICK m \in 0..n :
        /\ rest \in Seq(Sample)
        /\ Len(rest) = n - m
        /\ \A i \in 1..(n - m) : rest[i] = b.samples[m + i]
        /\ \A i \in 1..m : b.samples[i].sequence <= ack.last
  <2>1. clientSequence[k] - n + 1 \in Nat
    <3> HIDE DEF n
    <3>. QED  BY <1>4
  <2>. QED  BY <1>4, <1>5, <2>1, AcknowledgedRun
<1>7. \A i \in 1..m : b.samples[i].sequence <= lastProcessed[k]
  <2> TAKE i \in 1..m
  <2>1. b.samples[i] \in Sample
    BY <1>4, <1>6
  <2>. QED  BY <1>5, <1>6, <2>1 DEF Sample
<1>8. \A i, j \in 1..Len(buffers) : buffers[i].key = buffers[j].key => i = j
  BY DEF StreamInv, StreamsFit
<1>9. \A j \in 1..Len(buffers) :
        Len(buffers[j].samples) \in Nat /\ buffers[j].samples \in Seq(Sample)
  BY BufferTypes DEF StreamInv
<1>10. CASE rest = << >>
  <2>1. m = n
    BY <1>4, <1>6, <1>10
  <2>2. /\ buffers' \in Seq(Buffer) /\ Len(buffers') = Len(buffers) - 1
        /\ \A i \in 1..(Len(buffers) - 1) :
             buffers'[i] = IF i < place THEN buffers[i] ELSE buffers[i + 1]
    BY <1>1, <1>2, <1>3, <1>10, WithoutPlace
  <2>3. \A i \in 1..Len(buffers') : LET j == IF i < place THEN i ELSE i + 1
                                    IN  /\ j \in 1..Len(buffers)
                                        /\ buffers'[i] = buffers[j]
    BY <1>2, <1>3, <2>2
  <2>4. \A i \in 1..Len(buffers'), j \in 1..Len(buffers) :
          buffers'[i] = buffers[j] => Trimmed(i, j, 0, k)
    BY <1>9 DEF Trimmed
  <2>5. \A i \in 1..Len(buffers') : \E j \in 1..Len(buffers) :
          \E l \in 0..Len(buffers[j].samples) : Trimmed(i, j, l, k)
    <3> TAKE i \in 1..Len(buffers')
    <3>1. PICK j \in 1..Len(buffers) : buffers'[i] = buffers[j]
      BY <2>3
    <3>2. 0 \in 0..Len(buffers[j].samples)
      BY <1>9
    <3>. QED  BY <2>4, <3>1, <3>2
  <2>6. \A j \in 1..Len(buffers) :
          \/ \E i \in 1..Len(buffers'), l \in 0..Len(buffers[j].samples) :
               Trimmed(i, j, l, k)
          \/ \A l \in 1..Len(buffers[j].samples) :
               /\ buffers[j].key = k
               /\ buffers[j].samples[l].sequence <= lastProcessed[k]
    <3> TAKE j \in 1..Len(buffers)
    <3>1. CASE j = place
      BY <1>3, <1>7, <2>1, <3>1
    <3>2. CASE j # place
      <4> DEFINE i == IF j < place THEN j ELSE j - 1
      <4>1. i \in 1..Len(buffers') /\ buffers'[i] = buffers[j]
        BY <1>2, <1>3, <2>2, <3>2
      <4>2. 0 \in 0..Len(buffers[j].samples)
        BY <1>9
      <4> HIDE DEF i
      <4>. QED  BY <2>4, <4>1, <4>2
    <3>. QED  BY <3>1, <3>2
  <2>7. \A i, j \in 1..Len(buffers') : buffers'[i].key = buffers'[j].key => i = j
    <3> TAKE i, j \in 1..Len(buffers')
    <3> DEFINE o(x) == IF x < place THEN x ELSE x + 1
    <3>1. /\ o(i) \in 1..Len(buffers) /\ buffers'[i] = buffers[o(i)]
          /\ o(j) \in 1..Len(buffers) /\ buffers'[j] = buffers[o(j)]
      BY <2>3
    <3>2. o(i) = o(j) => i = j
      BY <1>2, <1>3, <2>2
    <3> HIDE DEF o
    <3>. QED  BY <1>8, <3>1, <3>2
  <2>8. Len(buffers') <= Len(buffers)
    BY <1>2, <2>2
  <2>. QED  BY <2>2, <2>5, <2>6, <2>7, <2>8
<1>11. CASE rest # << >>
  <2> DEFINE c == [b EXCEPT !.samples = rest]
  <2>1. buffers' = [buffers EXCEPT ![place] = c]
    BY <1>1, <1>11
  <2>2. c \in Buffer /\ c.key = k /\ c.samples = rest
    BY <1>3, <1>4, <1>6 DEF Buffer
  <2> HIDE DEF c
  <2>3. /\ buffers' \in Seq(Buffer) /\ Len(buffers') = Len(buffers)
        /\ buffers'[place] = c
        /\ \A j \in 1..Len(buffers) : j # place => buffers'[j] = buffers[j]
    BY <1>2, <1>3, <2>1, <2>2
  <2>4. Trimmed(place, place, m, k)
    BY <1>3, <1>6, <1>7, <2>2, <2>3 DEF Trimmed
  <2>5. \A j \in 1..Len(buffers) : j # place => Trimmed(j, j, 0, k)
    BY <1>9, <2>3 DEF Trimmed
  <2>6. \A j \in 1..Len(buffers) : \E l \in 0..Len(buffers[j].samples) : Trimmed(j, j, l, k)
    <3> TAKE j \in 1..Len(buffers)
    <3>1. 0 \in 0..Len(buffers[j].samples)
      BY <1>9
    <3>2. CASE j = place
      BY <2>4, <3>2
    <3>3. CASE j # place
      BY <2>5, <3>1, <3>3
    <3>. QED  BY <3>2, <3>3
  <2>7. \A j \in 1..Len(buffers) : buffers'[j].key = buffers[j].key
    BY <2>6 DEF Trimmed
  <2>8. Len(buffers') <= Len(buffers)
    BY <1>2, <2>3
  <2>. QED  BY <1>8, <2>3, <2>6, <2>7, <2>8
<1>. QED  BY <1>10, <1>11

LEMMA AckStep == ASSUME StreamInv, NEW k \in Key, ReceiveAck(k) PROVE StreamInv'
<1>1. UNCHANGED <<clientSequence, life, issued, known, lastProcessed, log, toClient, toServer, lost>>
  BY DEF ReceiveAck, HandleAck, serverVars
<1>2. TypesOK'
  BY <1>1, AckFacts DEF StreamInv, TypesOK
<1>3. StreamsFit'
  <2>1. Len(buffers') <= MaxStreamsPerPeer
    BY <1>2, AckFacts, BoundsHold DEF StreamInv, StreamsFit, TypesOK, Bounds
  <2>. QED  BY <1>1, <2>1, AckFacts DEF StreamInv, StreamsFit
<1>4. BuffersRun'
  <2> SUFFICES ASSUME NEW i \in 1..Len(buffers') PROVE BufferRuns(buffers[i])'
    BY DEF BuffersRun
  <2>0. PICK j \in 1..Len(buffers) : \E x \in 0..Len(buffers[j].samples) : Trimmed(i, j, x, k)
    BY AckFacts
  <2>1. PICK m \in 0..Len(buffers[j].samples) : Trimmed(i, j, m, k)
    BY <2>0
  <2> DEFINE n == Len(buffers[j].samples)
             last == clientSequence[buffers[j].key]
  <2>2. /\ n \in Nat /\ last \in Nat /\ n <= MaxPendingSamples /\ n <= last
        /\ \A l \in 1..n : buffers[j].samples[l].sequence = (last - n + 1) + l - 1
        /\ \A l \in 1..n : [life |-> life, sequence |-> buffers[j].samples[l].sequence]
                             \in issued[buffers[j].key]
    BY BufferTypes DEF StreamInv, TypesOK, BuffersRun, BufferRuns, Run
  <2>3. /\ buffers'[i].key = buffers[j].key
        /\ Len(buffers'[i].samples) = n - m
        /\ \A l \in 1..(n - m) : buffers'[i].samples[l] = buffers[j].samples[m + l]
    BY <2>1 DEF Trimmed
  <2> HIDE DEF n, last
  <2>4. \A l \in 1..(n - m) : m + l \in 1..n
    BY <2>2
  <2>5. \A l \in 1..(n - m) :
          buffers'[i].samples[l].sequence = (last - (n - m) + 1) + l - 1
    <3> TAKE l \in 1..(n - m)
    <3>1. buffers'[i].samples[l].sequence = (last - n + 1) + (m + l) - 1
      BY <2>2, <2>3, <2>4
    <3>2. (last - n + 1) + (m + l) - 1 = (last - (n - m) + 1) + l - 1
      BY <2>2
    <3>. QED  BY <3>1, <3>2
  <2>6. n - m <= MaxPendingSamples /\ n - m <= last
    BY <2>2, BoundsHold DEF Bounds
  <2>7. \A l \in 1..(n - m) :
          [life |-> life, sequence |-> buffers'[i].samples[l].sequence]
            \in issued[buffers[j].key]
    BY <2>2, <2>3, <2>4
  <2>. QED  BY <1>1, <2>3, <2>5, <2>6, <2>7 DEF BufferRuns, Run, last
<1>5. PacketsRun' /\ PacketsComplete'
  BY <1>1 DEF StreamInv, PacketsRun, PacketsComplete, FirstOf, LastOf
<1>6. IssuedInTime' /\ LogOrdered' /\ AcksAreTrue' /\ LogComplete' /\ ProcessedInTime'
  BY <1>1 DEF StreamInv, IssuedInTime, LogOrdered, AcksAreTrue, LogComplete, ProcessedInTime
<1>7. \A l \in Key : \A q : Kept(l, q) => Kept(l, q)' \/ q <= lastProcessed[l]
  <2> SUFFICES ASSUME NEW l \in Key, NEW q, Kept(l, q)
               PROVE  Kept(l, q)' \/ q <= lastProcessed[l]
    OBVIOUS
  <2>1. PICK j \in 1..Len(buffers) :
          buffers[j].key = l /\ \E o \in 1..Len(buffers[j].samples) :
                                  buffers[j].samples[o].sequence = q
    BY DEF Kept
  <2>2. PICK o \in 1..Len(buffers[j].samples) : buffers[j].samples[o].sequence = q
    BY <2>1
  <2>3. CASE \A x \in 1..Len(buffers[j].samples) :
               /\ buffers[j].key = k
               /\ buffers[j].samples[x].sequence <= lastProcessed[k]
    BY <2>1, <2>2, <2>3
  <2>4. CASE \E i \in 1..Len(buffers'), m \in 0..Len(buffers[j].samples) : Trimmed(i, j, m, k)
    <3>1. PICK i \in 1..Len(buffers'), m \in 0..Len(buffers[j].samples) : Trimmed(i, j, m, k)
      BY <2>4
    <3>2. CASE o \in 1..m
      BY <2>1, <2>2, <3>1, <3>2 DEF Trimmed
    <3>3. CASE o \notin 1..m
      <4> DEFINE n == Len(buffers[j].samples)
      <4>1. n \in Nat
        BY BufferTypes DEF StreamInv
      <4>2. /\ buffers'[i].key = l /\ Len(buffers'[i].samples) = n - m
            /\ \A x \in 1..(n - m) : buffers'[i].samples[x] = buffers[j].samples[m + x]
        BY <2>1, <3>1 DEF Trimmed
      <4>3. o - m \in 1..(n - m) /\ m + (o - m) = o
        <5> HIDE DEF n
        <5>1. o \in 1..n
          BY DEF n
        <5>2. m \in 0..n
          BY DEF n
        <5>. QED  BY <3>3, <4>1, <5>1, <5>2
      <4>4. buffers'[i].samples[o - m].sequence = q
        BY <2>2, <4>2, <4>3
      <4>. QED  BY <4>2, <4>3, <4>4 DEF Kept
    <3>. QED  BY <3>2, <3>3
  <2>. QED  BY <2>3, <2>4, AckFacts
<1>8. LeftIsSettled'
  BY <1>1, <1>7 DEF StreamInv, LeftIsSettled
<1>. QED  BY <1>2, <1>3, <1>4, <1>5, <1>6, <1>8 DEF StreamInv

LEMMA RestartStep == ASSUME StreamInv, Restart PROVE StreamInv'
<1>1. /\ life' = life + 1 /\ buffers' = << >> /\ toClient' = {} /\ lost' = {}
      /\ clientSequence' = [k \in Key |-> 0]
      /\ UNCHANGED <<issued, known, lastProcessed, log, toServer>>
  BY DEF Restart, serverVars
<1>2. life \in Nat /\ life' \in Nat /\ life' # 0
  BY <1>1 DEF StreamInv, TypesOK
<1>3. TypesOK'
  BY <1>1, <1>2 DEF StreamInv, TypesOK
<1>4. StreamsFit' /\ BuffersRun' /\ AcksAreTrue'
  BY <1>1, BoundsHold DEF StreamInv, StreamsFit, BuffersRun, AcksAreTrue, Bounds
<1>5. PacketsComplete' /\ LogComplete' /\ ProcessedInTime'
  BY <1>2 DEF PacketsComplete, LogComplete, ProcessedInTime
<1>6. LogOrdered'
  BY <1>1 DEF StreamInv, LogOrdered
<1>7. \A k \in Key : \A s \in issued[k] : s.life <= life' /\ s.life # life'
  <2> SUFFICES ASSUME NEW k \in Key, NEW s \in issued[k]
               PROVE  s.life <= life' /\ s.life # life'
    OBVIOUS
  <2>1. s.life \in Nat /\ s.life <= life
    BY DEF StreamInv, TypesOK, IssuedInTime, Entry
  <2>. QED  BY <1>1, <1>2, <2>1
<1>8. IssuedInTime' /\ LeftIsSettled'
  BY <1>1, <1>7 DEF IssuedInTime, LeftIsSettled
<1>9. PacketsRun'
  <2> SUFFICES ASSUME NEW p \in toServer PROVE p.life <= life'
    BY <1>1 DEF StreamInv, PacketsRun, FirstOf, LastOf
  <2>1. p.life \in Nat /\ p.life <= life
    BY PacketTypes DEF StreamInv, PacketsRun
  <2>. QED  BY <1>1, <1>2, <2>1
<1>. QED  BY <1>3, <1>4, <1>5, <1>6, <1>8, <1>9 DEF StreamInv

-----------------------------------------------------------------------------
\* What the server does with a packet: it hands on the last q numbers of it.
Received(k, p, q) ==
  /\ p.key = k
  /\ ~ Refused(k)
  /\ known' = known \cup {k}
  /\ toClient' = toClient \cup {[key |-> k, last |-> lastProcessed'[k]]}
  /\ IF q = 0
     THEN /\ LastOf(p) <= lastProcessed[k]
          /\ lastProcessed' = lastProcessed
          /\ log' = log
     ELSE /\ lastProcessed' = [lastProcessed EXCEPT ![k] = LastOf(p)]
          /\ lastProcessed[k] <= LastOf(p) - q
          /\ FirstOf(p) <= LastOf(p) - q + 1
          /\ LastOf(p) - q + 1 <= FirstOf(p) \/ LastOf(p) - q <= lastProcessed[k]
          /\ log' = [log EXCEPT ![k] = log'[k]]
          /\ log'[k] \in Seq(Entry)
          /\ Len(log'[k]) = Len(log[k]) + q
          /\ \A i \in 1..Len(log[k]) : log'[k][i] = log[k][i]
          /\ \A i \in 1..q : log'[k][Len(log[k]) + i]
                               = [life |-> p.life, sequence |-> LastOf(p) - q + i]

LEMMA ReceiveFacts ==
  ASSUME StreamInv, NEW k \in Key, ReceiveSamples(k)
  PROVE  \E p \in toServer, q \in Nat : Received(k, p, q)
<1> DEFINE L == lastProcessed[k]
<1>1. PICK p \in toServer :
        LET samples == NewSamples(DecodeSamples(p.deltas), L)
            last == IF samples = << >> THEN L ELSE Last(samples).sequence
        IN  /\ p.key = k
            /\ ~ Refused(k)
            /\ known' = known \cup {k}
            /\ lastProcessed' = [lastProcessed EXCEPT ![k] = last]
            /\ log' = [log EXCEPT ![k] = @ \o
                         [i \in 1..Len(samples) |->
                            [life |-> p.life, sequence |-> samples[i].sequence]]]
            /\ toClient' = toClient \cup {[key |-> k, last |-> last]}
  BY Zenon DEF ReceiveSamples, Accept
<1> DEFINE first == FirstOf(p)
           n == Len(p.deltas)
           s == DecodeSamples(p.deltas)
           m == IF L < first THEN 0 ELSE Lower(L - first + 1, n)
           q == n - m
           samples == NewSamples(s, L)
           last == IF samples = << >> THEN L ELSE Last(samples).sequence
           more == [i \in 1..Len(samples) |->
                      [life |-> p.life, sequence |-> samples[i].sequence]]
<1>2. /\ p.life \in Nat /\ p.deltas \in Seq(Delta) /\ n \in Nat \ {0}
      /\ first \in Nat \ {0} /\ LastOf(p) = first + n - 1
      /\ \A i \in 2..n : p.deltas[i].sequence = 1
  BY PacketTypes DEF StreamInv, PacketsRun, LastOf
<1>3. L \in Nat /\ log[k] \in Seq(Entry) /\ lastProcessed \in [Key -> Nat]
      /\ log \in [Key -> Seq(Entry)] /\ Len(log[k]) \in Nat
  BY DEF StreamInv, TypesOK
<1>4. Len(s) = n /\ Run(s, first)
  <2> HIDE DEF s
  <2>1. Len(DecodeSamples(p.deltas)) = Len(p.deltas)
        /\ Run(DecodeSamples(p.deltas), p.deltas[1].sequence)
    BY <1>2, DecodedRun
  <2>. QED  BY <2>1 DEF s, FirstOf
<1> HIDE DEF s
<1>5. /\ Len(samples) = q
      /\ \A i \in 1..q : samples[i].sequence = first + m + i - 1
      /\ samples = [i \in 1..q |-> samples[i]]
  <2> HIDE DEF samples
  <2>1. Len(s) \in Nat /\ first \in Nat
    BY <1>2, <1>4
  <2>2. /\ Len(NewSamples(s, L)) = Len(s) - m
        /\ \A i \in 1..(Len(s) - m) : NewSamples(s, L)[i].sequence = first + m + i - 1
        /\ NewSamples(s, L) = [i \in 1..(Len(s) - m) |-> NewSamples(s, L)[i]]
    <3> HIDE DEF first, L
    <3>. QED  BY <1>3, <1>4, <2>1, NewOfRun
  <2>. QED  BY <1>4, <2>2 DEF samples
<1>6. /\ q \in Nat /\ m \in 0..n
      /\ q = 0 => LastOf(p) <= L
      /\ q # 0 => /\ first + m + q - 1 = LastOf(p)
                  /\ first + m - 1 = LastOf(p) - q
                  /\ L <= LastOf(p) - q
                  /\ first <= LastOf(p) - q + 1
                  /\ LastOf(p) - q + 1 <= first \/ LastOf(p) - q <= L
  <2> HIDE DEF first, n, L
  <2>. QED  BY <1>2, <1>3 DEF Lower
<1> HIDE DEF samples, q
<1>7. /\ p.key = k /\ ~ Refused(k) /\ known' = known \cup {k}
      /\ lastProcessed' = [lastProcessed EXCEPT ![k] = last]
      /\ log' = [log EXCEPT ![k] = @ \o more]
      /\ toClient' = toClient \cup {[key |-> k, last |-> last]}
  BY <1>1 DEF samples, s
<1> HIDE DEF last, more
<1>8. lastProcessed'[k] = last
  BY <1>3, <1>7
<1>9. CASE q = 0
  <2>1. samples = << >>
    BY <1>5, <1>9
  <2>2. last = L
    BY <2>1 DEF last
  <2>3. more = << >>
    BY <1>5, <1>9 DEF more
  <2>4. lastProcessed' = lastProcessed
    BY <1>3, <1>7, <2>2
  <2>5. log' = log
    BY <1>3, <1>7, <2>3
  <2>. QED  BY <1>6, <1>7, <1>8, <1>9, <2>4, <2>5 DEF Received
<1>10. CASE q # 0
  <2>1. q \in 1..q
    BY <1>6, <1>10
  <2>2. samples # << >> /\ Last(samples) = samples[q]
    BY <1>5, <1>10, <1>6 DEF Last
  <2>3. last = LastOf(p)
    BY <1>5, <1>6, <1>10, <2>1, <2>2 DEF last
  <2>4. more = [i \in 1..q |-> [life |-> p.life, sequence |-> samples[i].sequence]]
    BY <1>5 DEF more
  <2>5. \A i \in 1..q : samples[i].sequence = LastOf(p) - q + i
                        /\ samples[i].sequence \in Nat
    <3> TAKE i \in 1..q
    <3>1. samples[i].sequence = first + m + i - 1
      BY <1>5
    <3> HIDE DEF first, m, n, L
    <3>. QED  BY <1>2, <1>6, <1>10, <3>1
  <2>6. more \in Seq(Entry) /\ Len(more) = q
        /\ \A i \in 1..q : more[i] = [life |-> p.life, sequence |-> LastOf(p) - q + i]
    <3>1. \A i \in 1..q : [life |-> p.life, sequence |-> samples[i].sequence] \in Entry
      BY <1>2, <2>5 DEF Entry
    <3>2. more \in [1..q -> Entry]
      BY <2>4, <3>1
    <3>3. more \in Seq(Entry) /\ Len(more) = q
      BY <1>6, <3>2
    <3>. QED  BY <2>4, <2>5, <3>3
  <2>7. log'[k] = log[k] \o more
    BY <1>3, <1>7
  <2>8. log' = [log EXCEPT ![k] = log'[k]]
    BY <1>3, <1>7, <2>7
  <2>9. /\ log'[k] \in Seq(Entry) /\ Len(log'[k]) = Len(log[k]) + q
        /\ \A i \in 1..Len(log[k]) : log'[k][i] = log[k][i]
        /\ \A i \in 1..q : log'[k][Len(log[k]) + i]
                             = [life |-> p.life, sequence |-> LastOf(p) - q + i]
    BY <1>3, <1>6, <2>6, <2>7
  <2>10. lastProcessed' = [lastProcessed EXCEPT ![k] = LastOf(p)]
    BY <1>7, <2>3
  <2>. QED  BY <1>6, <1>7, <1>8, <1>10, <2>8, <2>9, <2>10 DEF Received
<1>. QED  BY <1>6, <1>9, <1>10

LEMMA ReceiveStep == ASSUME StreamInv, NEW k \in Key, ReceiveSamples(k) PROVE StreamInv'
<1>1. UNCHANGED <<clientSequence, buffers, life, issued, toServer, lost>>
  BY DEF ReceiveSamples, Accept, clientVars
<1>2. PICK p \in toServer, q \in Nat : Received(k, p, q)
  BY ReceiveFacts
<1> DEFINE L == lastProcessed[k]
           n0 == Len(log[k])
<1>3. /\ p.key = k /\ p.life \in Nat /\ FirstOf(p) \in Nat \ {0} /\ LastOf(p) \in Nat
      /\ FirstOf(p) <= LastOf(p)
      /\ L \in Nat /\ lastProcessed \in [Key -> Nat]
      /\ log \in [Key -> Seq(Entry)] /\ log[k] \in Seq(Entry) /\ n0 \in Nat
  BY <1>2, PacketTypes DEF StreamInv, TypesOK, Received
<1>4. /\ lastProcessed' \in [Key -> Nat]
      /\ \A l \in Key : lastProcessed[l] <= lastProcessed'[l]
      /\ q # 0 => lastProcessed'[k] = LastOf(p)
      /\ LastOf(p) <= lastProcessed'[k]
      /\ \A l \in Key \ {k} : lastProcessed'[l] = lastProcessed[l]
  <2>1. CASE q = 0
    BY <1>2, <1>3, <2>1 DEF Received
  <2>2. CASE q # 0
    <3>1. /\ lastProcessed' = [lastProcessed EXCEPT ![k] = LastOf(p)]
          /\ L <= LastOf(p) - q
      BY <1>2, <2>2 DEF Received
    <3>2. L <= LastOf(p)
      <4> HIDE DEF L
      <4>. QED  BY <1>3, <3>1
    <3>3. /\ lastProcessed'[k] = LastOf(p)
          /\ \A l \in Key \ {k} : lastProcessed'[l] = lastProcessed[l]
          /\ lastProcessed' \in [Key -> Nat]
      BY <1>3, <3>1
    <3>4. \A l \in Key : lastProcessed[l] <= lastProcessed'[l]
      <4> TAKE l \in Key
      <4>1. CASE l = k
        BY <3>2, <3>3, <4>1
      <4>2. CASE l # k
        <5>1. lastProcessed'[l] = lastProcessed[l] /\ lastProcessed[l] \in Nat
          BY <1>3, <3>3, <4>2
        <5>. QED  BY <5>1
      <4>. QED  BY <4>1, <4>2
    <3>5. LastOf(p) <= lastProcessed'[k]
      BY <1>3, <3>3
    <3>. QED  BY <3>3, <3>4, <3>5
  <2>. QED  BY <2>1, <2>2
<1>5. /\ log' \in [Key -> Seq(Entry)]
      /\ \A l \in Key \ {k} : log'[l] = log[l]
      /\ Len(log'[k]) = n0 + q
      /\ \A i \in 1..n0 : log'[k][i] = log[k][i]
      /\ \A i \in 1..q : log'[k][n0 + i]
                           = [life |-> p.life, sequence |-> LastOf(p) - q + i]
  <2>1. CASE q = 0
    BY <1>2, <1>3, <2>1 DEF Received
  <2>2. CASE q # 0
    <3> HIDE DEF L
    <3>. QED  BY <1>2, <1>3, <2>2 DEF Received
  <2>. QED  BY <2>1, <2>2
<1>6. TypesOK'
  BY <1>1, <1>2, <1>4, <1>5 DEF StreamInv, TypesOK, Received
<1>7. StreamsFit'
  <2>1. IsFiniteSet(known)
    BY StreamAssumption, FS_Subset, Zenon DEF StreamInv, TypesOK
  <2>2. Cardinality(known) \in Nat
    BY <2>1, FS_CardinalityType
  <2>3. Cardinality(known') = IF k \in known THEN Cardinality(known) ELSE Cardinality(known) + 1
    BY <1>2, <2>1, FS_AddElement DEF Received
  <2>4. k \in known \/ ~ (Cardinality(known) >= MaxStreamsPerPeer)
    BY <1>2 DEF Received, Refused
  <2>5. Cardinality(known') <= MaxStreamsPerPeer
    BY <2>2, <2>3, <2>4, BoundsHold DEF StreamInv, StreamsFit, Bounds
  <2>. QED  BY <1>1, <2>5 DEF StreamInv, StreamsFit
<1>8. BuffersRun' /\ PacketsRun' /\ IssuedInTime'
  BY <1>1 DEF StreamInv, BuffersRun, BufferRuns, PacketsRun, IssuedInTime, FirstOf, LastOf
<1>9. AcksAreTrue'
  <2> SUFFICES ASSUME NEW a \in toClient' PROVE a.last <= lastProcessed'[a.key]
    BY DEF AcksAreTrue
  <2>1. CASE a \in toClient
    <3>1. a.key \in Key /\ a.last \in Nat /\ a.last <= lastProcessed[a.key]
      BY <2>1 DEF StreamInv, TypesOK, AcksAreTrue
    <3>. QED  BY <1>3, <1>4, <3>1
  <2>2. CASE a = [key |-> k, last |-> lastProcessed'[k]]
    BY <1>4, <2>2
  <2>. QED  BY <1>2, <2>1, <2>2 DEF Received
<1>10. \A l \in Key : \A s \in issued[l] : s \in Entry /\ s.life \in Nat /\ s.sequence \in Nat
  BY DEF StreamInv, TypesOK, Entry
<1>11. LeftIsSettled'
  <2> SUFFICES ASSUME NEW l \in Key, NEW s \in issued[l]
               PROVE  \/ s.life # life
                      \/ Kept(l, s.sequence)
                      \/ s.sequence <= lastProcessed'[l]
                      \/ s.sequence + MaxPendingSamples <= clientSequence[l]
    BY <1>1 DEF LeftIsSettled, Kept
  <2>. QED  BY <1>3, <1>4, <1>10 DEF StreamInv, LeftIsSettled
<1>12. PacketsComplete'
  <2> SUFFICES ASSUME life = 0, NEW o \in toServer, NEW s \in issued[o.key],
                      s.sequence <= LastOf(o), LastOf(o) < s.sequence + Width
               PROVE  FirstOf(o) <= s.sequence \/ s.sequence <= lastProcessed'[o.key]
    BY <1>1 DEF PacketsComplete, FirstOf, LastOf, Width
  <2>1. o.key \in Key
    BY PacketTypes DEF StreamInv
  <2>2. FirstOf(o) <= s.sequence \/ s.sequence <= lastProcessed[o.key]
    BY DEF StreamInv, PacketsComplete
  <2>. QED  BY <1>3, <1>4, <1>10, <2>1, <2>2
<1>13. \A i \in 1..q : /\ [life |-> p.life, sequence |-> LastOf(p) - q + i] \in issued[k]
                       /\ LastOf(p) - q + i <= lastProcessed'[k]
                       /\ L < LastOf(p) - q + i
  <2> TAKE i \in 1..q
  <2>1. /\ q # 0 /\ L <= LastOf(p) - q /\ FirstOf(p) <= LastOf(p) - q + 1
        /\ lastProcessed'[k] = LastOf(p)
    BY <1>2, <1>4 DEF Received
  <2>2. /\ LastOf(p) - q + i \in FirstOf(p)..LastOf(p)
        /\ LastOf(p) - q + i <= lastProcessed'[k]
        /\ L < LastOf(p) - q + i
    <3> HIDE DEF L
    <3>. QED  BY <1>3, <2>1
  <2>. QED  BY <1>3, <2>2 DEF StreamInv, PacketsRun
<1>14. LogOrdered'
  <2> SUFFICES ASSUME NEW l \in Key
               PROVE  /\ \A i \in 1..Len(log'[l]) : /\ log'[l][i] \in issued[l]
                                                    /\ log'[l][i].sequence <= lastProcessed'[l]
                      /\ \A i, j \in 1..Len(log'[l]) :
                           i < j => log'[l][i].sequence < log'[l][j].sequence
    BY <1>1 DEF LogOrdered
  <2>1. CASE l # k
    BY <1>4, <1>5, <2>1 DEF StreamInv, LogOrdered
  <2>2. CASE l = k
    <3>1. \A i \in 1..n0 : /\ log'[k][i] \in issued[k]
                           /\ log'[k][i].sequence \in Nat
                           /\ log'[k][i].sequence <= L
      BY <1>5, <1>10 DEF StreamInv, LogOrdered
    <3>2. \A i \in 1..(n0 + q) : i \in 1..n0 \/ (i - n0 \in 1..q /\ n0 + (i - n0) = i)
      <4> HIDE DEF n0
      <4>. QED  BY <1>3
    <3>3. \A i \in 1..(n0 + q) : i \notin 1..n0 =>
            /\ log'[k][i] \in issued[k]
            /\ log'[k][i].sequence <= lastProcessed'[k]
            /\ L < log'[k][i].sequence
            /\ log'[k][i].sequence = LastOf(p) - q + (i - n0)
      <4> TAKE i \in 1..(n0 + q)
      <4> HAVE i \notin 1..n0
      <4>1. i - n0 \in 1..q /\ n0 + (i - n0) = i
        BY <3>2
      <4> HIDE DEF n0, L
      <4>2. log'[k][i] = [life |-> p.life, sequence |-> LastOf(p) - q + (i - n0)]
        BY <1>5, <4>1
      <4>. QED  BY <1>13, <4>1, <4>2
    <3>4. \A i \in 1..(n0 + q) : /\ log'[k][i] \in issued[k]
                                 /\ log'[k][i].sequence <= lastProcessed'[k]
      <4>1. L <= lastProcessed'[k] /\ lastProcessed'[k] \in Nat
        BY <1>4
      <4>2. \A i \in 1..n0 : log'[k][i].sequence <= lastProcessed'[k]
        <5> HIDE DEF L, n0
        <5>. QED  BY <1>3, <3>1, <4>1
      <4> HIDE DEF n0
      <4>. QED  BY <3>1, <3>3, <4>2
    <3>5. ASSUME NEW i \in 1..(n0 + q), NEW j \in 1..(n0 + q), i < j
          PROVE  log'[k][i].sequence < log'[k][j].sequence
      <4>1. CASE j \in 1..n0
        <5>1. i \in 1..n0
          BY <1>3, <3>5, <4>1
        <5>2. log[k][i].sequence < log[k][j].sequence
          BY <3>5, <4>1, <5>1 DEF StreamInv, LogOrdered
        <5>. QED  BY <1>5, <4>1, <5>1, <5>2
      <4>2. CASE j \notin 1..n0 /\ i \in 1..n0
        <5>1. /\ log'[k][i].sequence \in Nat /\ log'[k][i].sequence <= L
              /\ L < log'[k][j].sequence
              /\ log'[k][j].sequence = LastOf(p) - q + (j - n0)
          BY <3>1, <3>3, <4>2
        <5> HIDE DEF L, n0
        <5>. QED  BY <1>3, <5>1
      <4>3. CASE j \notin 1..n0 /\ i \notin 1..n0
        <5>1. /\ log'[k][i].sequence = LastOf(p) - q + (i - n0)
              /\ log'[k][j].sequence = LastOf(p) - q + (j - n0)
          BY <3>3, <4>3
        <5> HIDE DEF n0
        <5>. QED  BY <1>3, <3>5, <5>1
      <4>. QED  BY <4>1, <4>2, <4>3
    <3>. QED  BY <1>5, <2>2, <3>4, <3>5
  <2>. QED  BY <2>1, <2>2
<1>15. LogComplete'
  <2> SUFFICES ASSUME life = 0, NEW l \in Key, NEW s \in issued[l],
                      s.sequence <= lastProcessed'[l], lastProcessed'[l] < s.sequence + Width
               PROVE  \E i \in 1..Len(log'[l]) : log'[l][i] = s
    BY <1>1 DEF LogComplete, Width
  <2>1. CASE s.sequence <= lastProcessed[l]
    <3>1. lastProcessed[l] < s.sequence + Width
      BY <1>3, <1>4, <1>10, WidthFacts
    <3>2. PICK i \in 1..Len(log[l]) : log[l][i] = s
      BY <2>1, <3>1 DEF StreamInv, LogComplete
    <3>3. i \in 1..Len(log'[l]) /\ log'[l][i] = log[l][i]
      <4>1. CASE l # k
        BY <1>5, <4>1
      <4>2. CASE l = k
        BY <1>3, <1>5, <4>2
      <4>. QED  BY <4>1, <4>2
    <3>. QED  BY <3>2, <3>3
  <2>2. CASE ~ (s.sequence <= lastProcessed[l])
    <3>1. l = k /\ q # 0 /\ lastProcessed'[k] = LastOf(p) /\ s \in issued[p.key]
      BY <1>2, <1>3, <1>4, <2>2 DEF Received
    <3>2. FirstOf(p) <= s.sequence
      BY <2>2, <3>1, <1>3 DEF StreamInv, PacketsComplete
    <3>3. LastOf(p) - q + 1 <= FirstOf(p) \/ LastOf(p) - q <= L
      BY <1>2, <3>1 DEF Received
    <3> DEFINE i == s.sequence - (LastOf(p) - q)
    <3>4. i \in 1..q /\ LastOf(p) - q + i = s.sequence
      <4>1. s.sequence \in Nat /\ s.sequence <= LastOf(p) /\ ~ (s.sequence <= L)
        BY <1>10, <2>2, <3>1
      <4> HIDE DEF L
      <4>. QED  BY <1>3, <3>2, <3>3, <4>1
    <3>5. s.life = 0 /\ p.life = 0
      <4>1. s.life <= life /\ s.life \in Nat
        BY <1>10 DEF StreamInv, IssuedInTime
      <4>2. p.life <= life
        BY DEF StreamInv, PacketsRun
      <4>. QED  BY <1>3, <4>1, <4>2
    <3>6. s = [life |-> p.life, sequence |-> LastOf(p) - q + i]
      BY <1>10, <3>4, <3>5 DEF Entry
    <3> HIDE DEF i
    <3>7. n0 + i \in 1..Len(log'[k]) /\ log'[k][n0 + i] = s
      <4>1. log'[k][n0 + i] = s
        BY <1>5, <3>4, <3>6
      <4> HIDE DEF n0
      <4>. QED  BY <1>3, <1>5, <3>4, <4>1
    <3>. QED  BY <3>1, <3>7
  <2>. QED  BY <2>1, <2>2
<1>16. ProcessedInTime'
  <2> SUFFICES ASSUME life = 0, NEW l \in Key PROVE lastProcessed'[l] <= clientSequence[l]
    BY <1>1 DEF ProcessedInTime
  <2>1. CASE lastProcessed'[l] = lastProcessed[l]
    BY <2>1 DEF StreamInv, ProcessedInTime
  <2>2. CASE lastProcessed'[l] # lastProcessed[l]
    <3>1. l = k /\ lastProcessed'[k] = LastOf(p)
      BY <1>2, <1>4, <2>2 DEF Received
    <3>2. LastOf(p) \in FirstOf(p)..LastOf(p)
      BY <1>3
    <3>3. [life |-> p.life, sequence |-> LastOf(p)] \in issued[k] /\ p.life = life
      BY <1>3, <3>2 DEF StreamInv, PacketsRun
    <3>. QED  BY <3>1, <3>3 DEF StreamInv, IssuedInTime
  <2>. QED  BY <2>1, <2>2
<1>. QED  BY <1>6, <1>7, <1>8, <1>9, <1>11, <1>12, <1>14, <1>15, <1>16 DEF StreamInv

-----------------------------------------------------------------------------
\* The invariant speaks of all packets on their way, so that fewer satisfy it too.
LEMMA FewerPackets ==
  ASSUME StreamInv, toServer' \subseteq toServer, toClient' \subseteq toClient,
         lost' \subseteq Key,
         UNCHANGED <<clientSequence, buffers, life, issued, known, lastProcessed, log>>
  PROVE  StreamInv'
<1>1. TypesOK' /\ StreamsFit'
  BY DEF StreamInv, TypesOK, StreamsFit
<1>2. BuffersRun' /\ IssuedInTime' /\ LogOrdered' /\ LeftIsSettled'
  BY DEF StreamInv, BuffersRun, BufferRuns, IssuedInTime, LogOrdered, LeftIsSettled, Kept
<1>3. PacketsRun' /\ PacketsComplete' /\ AcksAreTrue'
  BY DEF StreamInv, PacketsRun, PacketsComplete, AcksAreTrue, FirstOf, LastOf, Width
<1>4. LogComplete' /\ ProcessedInTime'
  BY DEF StreamInv, LogComplete, ProcessedInTime, Width
<1>. QED  BY <1>1, <1>2, <1>3, <1>4 DEF StreamInv

LEMMA LoseStep ==
  ASSUME StreamInv, NEW k \in Key, LosePacket(k) \/ LoseAck(k)
  PROVE  StreamInv'
<1>1. lost \subseteq Key
  BY DEF StreamInv, TypesOK
<1>2. /\ toServer' \subseteq toServer /\ toClient' \subseteq toClient
      /\ lost' \subseteq Key
      /\ UNCHANGED <<clientSequence, buffers, life, issued, known, lastProcessed, log>>
  BY <1>1 DEF LosePacket, LoseAck, clientVars, serverVars
<1>. QED  BY <1>2, FewerPackets

\* Every step keeps the invariant.
LEMMA StreamStep == StreamInv /\ [Next]_vars => StreamInv'
<1> SUFFICES ASSUME StreamInv, [Next]_vars PROVE StreamInv'
  OBVIOUS
<1>1. ASSUME NEW k \in Key, NEW tick \in ClientTick, Push(k, tick) PROVE StreamInv'
  BY <1>1, PushStep
<1>2. CASE Update
  BY <1>2, UpdateStep
<1>3. ASSUME NEW k \in Key, ReceiveAck(k) PROVE StreamInv'
  BY <1>3, AckStep
<1>4. ASSUME NEW k \in Key, ReceiveSamples(k) PROVE StreamInv'
  BY <1>4, ReceiveStep
<1>5. CASE Restart
  BY <1>5, RestartStep
<1>6. ASSUME NEW k \in Key, LosePacket(k) \/ LoseAck(k) PROVE StreamInv'
  BY <1>6, LoseStep
<1>7. CASE UNCHANGED vars
  <2>1. lost \subseteq Key
    BY DEF StreamInv, TypesOK
  <2>. QED  BY <1>7, <2>1, FewerPackets DEF vars, clientVars, serverVars
<1>. QED  BY <1>1, <1>2, <1>3, <1>4, <1>5, <1>6, <1>7 DEF Next

\* The state of a command stream: types, both limits, and everything else that
\* the properties below rest on, in every reachable state.
THEOREM StreamInvariant == Spec => []StreamInv
BY InitStream, StreamStep, PTL DEF Spec

-----------------------------------------------------------------------------
\* pushCommandStream and the receiving handlers keep the types, the limit on
\* streams on both sides, one buffer per stream and maxPendingSamples per buffer.
THEOREM StreamTypesHold == Spec => []StreamTypeOK
<1>1. StreamInv => StreamTypeOK
  <2> SUFFICES ASSUME StreamInv PROVE StreamTypeOK
    OBVIOUS
  <2>1. \A i \in 1..Len(buffers) :
          /\ buffers[i].key \in Key /\ buffers[i].dirty \in BOOLEAN
          /\ buffers[i].samples \in Seq(Sample)
          /\ Len(buffers[i].samples) <= MaxPendingSamples
          /\ \A j \in 1..Len(buffers) : buffers[i].key = buffers[j].key => i = j
    BY BufferTypes DEF StreamInv, BuffersRun, BufferRuns, StreamsFit, Buffer
  <2>2. \A p \in toServer : p.key \in Key /\ Len(p.deltas) \in 1..CountLimit
    BY PacketTypes DEF StreamInv, PacketsRun
  <2>3. \A a \in toClient : a.key \in Key /\ a.last \in Nat
    BY DEF StreamInv, TypesOK
  <2>. QED  BY <2>1, <2>2, <2>3 DEF StreamInv, TypesOK, StreamsFit, StreamTypeOK
<1>. QED  BY <1>1, StreamInvariant, PTL

LEMMA KeptIsInBuffer ==
  ASSUME StreamInv, NEW k \in Key, NEW n, Kept(k, n)
  PROVE  InBuffer(k, n)
<1> DEFINE place == BufferOf(k)
<1>1. PICK i \in 1..Len(buffers) :
        buffers[i].key = k /\ \E j \in 1..Len(buffers[i].samples) :
                                buffers[i].samples[j].sequence = n
  BY DEF Kept
<1>2. Len(buffers) \in Nat
  BY DEF StreamInv, TypesOK
<1>3. /\ place \in 0..Len(buffers)
      /\ place # 0 => buffers[place].key = k
      /\ place = 0 => \A j \in 1..Len(buffers) : buffers[j].key # k
  BY <1>2, PlaceFacts, Zenon DEF BufferOf
<1> HIDE DEF place
<1>4. place # 0 /\ place \in 1..Len(buffers)
  BY <1>1, <1>2, <1>3
<1>5. place = i
  BY <1>1, <1>3, <1>4 DEF StreamInv, StreamsFit
<1>6. PICK j \in 1..Len(buffers[place].samples) : buffers[place].samples[j].sequence = n
  BY <1>1, <1>5
<1>7. buffers[place].samples[j] \in ToSet(buffers[place].samples)
  BY <1>4, BufferTypes DEF StreamInv, ToSet
<1>. QED  BY <1>4, <1>6, <1>7 DEF InBuffer, place

\* onPacket of the client and pushCommandStream: a sample that this client no
\* longer keeps was passed by the server or pushed out by later ones, whatever
\* acknowledgements came late, twice or out of order.
THEOREM NothingIsDroppedUnsettled == Spec => []DroppedIsSettled
<1>1. StreamInv => DroppedIsSettled
  BY KeptIsInBuffer DEF StreamInv, LeftIsSettled, DroppedIsSettled
<1>. QED  BY <1>1, StreamInvariant, PTL

\* update() sends enough of every buffer: what the server skips of its first
\* client lies a whole packet behind the last number that it processed.
THEOREM WindowsHaveNoGaps == Spec => []WindowsAreComplete
<1>1. StreamInv => WindowsAreComplete
  <2> SUFFICES ASSUME StreamInv, NEW k \in Key, NEW s \in issued[k], life = 0,
                      s.sequence <= lastProcessed[k], s.sequence + Width > lastProcessed[k]
               PROVE  s \in ToSet(log[k])
    BY DEF WindowsAreComplete, Width
  <2>1. /\ s.sequence \in Nat /\ lastProcessed[k] \in Nat
        /\ log[k] \in Seq(Entry)
    BY DEF StreamInv, TypesOK, Entry
  <2>2. lastProcessed[k] < s.sequence + Width
    BY <2>1, WidthFacts
  <2>3. PICK i \in 1..Len(log[k]) : log[k][i] = s
    BY <2>2 DEF StreamInv, LogComplete
  <2>. QED  BY <2>1, <2>3 DEF ToSet
<1>. QED  BY <1>1, StreamInvariant, PTL

-----------------------------------------------------------------------------
\* The command stream implements SampleLog: a push is Issue or a stutter, a packet
\* received is Handle or a stutter, and every other step stutters.

LEMMA PushIssues ==
  ASSUME StreamInv, NEW k \in Key, NEW tick \in ClientTick, Push(k, tick)
  PROVE  Promise!Issue(k) \/ UNCHANGED <<issued, log>>
<1>1. log' = log
  BY DEF Push, serverVars
<1>2. \/ issued' = issued
      \/ \E e : issued' = [issued EXCEPT ![k] = @ \cup {e}]
  BY DEF Push
<1>3. issued \in [Key -> SUBSET Entry]
  BY DEF StreamInv, TypesOK
<1>4. ASSUME NEW e, issued' = [issued EXCEPT ![k] = @ \cup {e}] PROVE Promise!Issue(k)
  <2>1. issued[k] \subseteq issued'[k]
    BY <1>3, <1>4
  <2>2. \A other \in Key \ {k} : issued'[other] = issued[other]
    BY <1>3, <1>4
  <2>. QED  BY <1>1, <2>1, <2>2 DEF Promise!Issue
<1>. QED  BY <1>1, <1>2, <1>4

LEMMA ReceiveHandles ==
  ASSUME StreamInv, NEW k \in Key, ReceiveSamples(k)
  PROVE  Promise!Handle(k) \/ UNCHANGED <<issued, log>>
<1>1. issued' = issued
  BY DEF ReceiveSamples, Accept, clientVars
<1>2. PICK p \in toServer, q \in Nat : Received(k, p, q)
  BY ReceiveFacts
<1>3. CASE q = 0
  BY <1>1, <1>2, <1>3 DEF Received
<1>4. CASE q # 0
  <2> DEFINE n0 == Len(log[k])
  <2>1. /\ log \in [Key -> Seq(Entry)] /\ log[k] \in Seq(Entry) /\ n0 \in Nat
    BY DEF StreamInv, TypesOK
  <2>2. /\ log' = [log EXCEPT ![k] = log'[k]]
        /\ log'[k] \in Seq(Entry)
        /\ Len(log'[k]) = n0 + q
        /\ \A i \in 1..n0 : log'[k][i] = log[k][i]
    BY <1>2, <1>4 DEF Received
  <2>3. \A other \in Key \ {k} : log'[other] = log[other]
    BY <2>1, <2>2
  <2>4. n0 <= Len(log'[k]) /\ log[k] # log'[k]
    <3> HIDE DEF n0
    <3>1. n0 <= n0 + q /\ n0 # n0 + q
      BY <1>4, <2>1
    <3>. QED  BY <2>2, <3>1 DEF n0
  <2>5. SubSeq(log[k], 1, n0) = SubSeq(log'[k], 1, n0)
    BY <2>1, <2>2, <2>4
  <2>6. Promise!IsStrictPrefix(log[k], log'[k])
    BY <2>4, <2>5 DEF Promise!IsStrictPrefix, Promise!IsPrefix
  <2>7. /\ \A i \in 1..Len(log'[k]) : log'[k][i] \in issued[k]
        /\ \A i, j \in 1..Len(log'[k]) : i < j => log'[k][i].sequence < log'[k][j].sequence
    BY <1>1, ReceiveStep DEF StreamInv, LogOrdered
  <2>8. Promise!ToSet(log'[k]) \subseteq issued[k]
    BY <2>2, <2>7 DEF Promise!ToSet
  <2>. QED  BY <1>1, <2>3, <2>6, <2>7, <2>8 DEF Promise!Handle
<1>. QED  BY <1>3, <1>4

\* A command stream over the lossy, repeating and reordering channel, across
\* restarts of the client, hands the server's handlers each sample at most once
\* and in the order of its numbers.
THEOREM StreamImplementsSampleLog == Spec => ImplementsSampleLog
<1>1. Init => Promise!Init
  BY DEF Init, Promise!Init
<1>2. StreamInv /\ [Next]_vars => [Promise!Next]_<<issued, log>>
  <2> SUFFICES ASSUME StreamInv, [Next]_vars PROVE [Promise!Next]_<<issued, log>>
    OBVIOUS
  <2>1. ASSUME NEW k \in Key, NEW tick \in ClientTick, Push(k, tick)
        PROVE  [Promise!Next]_<<issued, log>>
    BY <2>1, PushIssues DEF Promise!Next
  <2>2. CASE Update
    BY <2>2 DEF Update, serverVars
  <2>3. ASSUME NEW k \in Key, ReceiveAck(k) PROVE UNCHANGED <<issued, log>>
    BY <2>3 DEF ReceiveAck, HandleAck, serverVars
  <2>4. ASSUME NEW k \in Key, ReceiveSamples(k) PROVE [Promise!Next]_<<issued, log>>
    BY <2>4, ReceiveHandles DEF Promise!Next
  <2>5. CASE Restart
    BY <2>5 DEF Restart, serverVars
  <2>6. ASSUME NEW k \in Key, LosePacket(k) \/ LoseAck(k) PROVE UNCHANGED <<issued, log>>
    BY <2>6 DEF LosePacket, LoseAck, clientVars, serverVars
  <2>7. CASE UNCHANGED vars
    BY <2>7 DEF vars, clientVars, serverVars
  <2>. QED  BY <2>1, <2>2, <2>3, <2>4, <2>5, <2>6, <2>7 DEF Next
<1>. QED  BY <1>1, <1>2, StreamInvariant, PTL DEF Spec, ImplementsSampleLog, Promise!Spec
=============================================================================
