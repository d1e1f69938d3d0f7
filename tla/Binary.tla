------------------------------- MODULE Binary -------------------------------
(***************************************************************************)
(* The binary reader and writer.  Writing is a sequence of chunks: bytes,  *)
(* which start at a byte boundary, bits, which follow the bit before them, *)
(* and an error, which ends the writing.  Reading is a position in bits of *)
(* a sequence of bytes, or Failed once a read threw.                       *)
(*                                                                         *)
(* Integers are less than 2^31: TLC has no larger ones.                    *)
(***************************************************************************)
EXTENDS Integers, Sequences

BytesChunk(s) == [bytes |-> s, bits |-> <<>>, error |-> FALSE]
BitsChunk(s) == [bytes |-> <<>>, bits |-> s, error |-> FALSE]
Error == [bytes |-> <<>>, bits |-> <<>>, error |-> TRUE]

Throws(chunks) == \E i \in DOMAIN chunks : chunks[i].error

\* The n digits of v in a base, the least significant first.  Of a negative
\* number these are the digits of its two's complement.
Digits(v, base, n) == [i \in 1..n |-> (v \div base^(i - 1)) % base]

Number(digits, base) ==
  LET n[i \in 0..Len(digits)] ==
        IF i = 0 THEN 0 ELSE n[i - 1] + digits[i] * base^(i - 1)
  IN  n[Len(digits)]

WriteUint(v, size) == <<BytesChunk(Digits(v, 256, size))>>
WriteBits(v, n) == <<BitsChunk(Digits(v, 2, n))>>

\* Seven bits to a byte; every byte but the last has its high bit set.
WriteVarUint(v) ==
  LET n == 1 + Len(SelectSeq(<<128, 128^2, 128^3, 128^4>>, LAMBDA b : v >= b))
  IN  IF v < 0
      THEN <<Error>>
      ELSE <<BytesChunk([i \in 1..n |->
               Digits(v, 128, n)[i] + (IF i < n THEN 128 ELSE 0)])>>

-----------------------------------------------------------------------------
\* A writer: its whole bytes and the bits of the byte that is not full yet.

EmptyWriter == [bytes |-> <<>>, bits |-> <<>>]

Align(w) ==
  IF w.bits = <<>>
  THEN w
  ELSE [bytes |-> Append(w.bytes, Number(w.bits, 2)), bits |-> <<>>]

AddBits(w, s) ==
  LET all  == w.bits \o s
      full == Len(all) \div 8
  IN  [bytes |-> w.bytes \o
                   [k \in 1..full |-> Number(SubSeq(all, 8 * k - 7, 8 * k), 2)],
       bits  |-> SubSeq(all, 8 * full + 1, Len(all))]

\* Writer w after the chunks, up to the first error.
Written(w, chunks) ==
  LET after[i \in 0..Len(chunks)] ==
        IF i = 0 THEN w
        ELSE LET before == after[i - 1] IN
             IF Throws(SubSeq(chunks, 1, i)) THEN before
             ELSE IF chunks[i].bits # <<>> THEN AddBits(before, chunks[i].bits)
             ELSE [Align(before) EXCEPT !.bytes = @ \o chunks[i].bytes]
  IN  after[Len(chunks)]

\* Mutant: the bits of the byte that was not full survive.
ResetKeepsBits(w) == [w EXCEPT !.bytes = <<>>]

Reset(w) == EmptyWriter

-----------------------------------------------------------------------------
Failed == [value |-> 0, at |-> -1]

NextByte(at) == 8 * ((at + 7) \div 8)

Bit(bytes, at) == (bytes[at \div 8 + 1] \div 2^(at % 8)) % 2

ReadBits(bytes, at, n) ==
  IF at < 0 \/ at + n > 8 * Len(bytes)
  THEN Failed
  ELSE [value |-> Number([i \in 1..n |-> Bit(bytes, at + i - 1)], 2),
        at    |-> at + n]

\* The next n bytes.
ReadBytes(bytes, at, n) ==
  LET from == NextByte(at) \div 8 IN
  IF at < 0 \/ from + n > Len(bytes)
  THEN Failed
  ELSE [value |-> SubSeq(bytes, from + 1, from + n), at |-> 8 * (from + n)]

ReadUint(bytes, at, size) ==
  LET read == ReadBytes(bytes, at, size) IN
  IF read.at < 0 THEN Failed ELSE [read EXCEPT !.value = Number(@, 256)]

\* Mutant: the sign is not restored.
ReadUnsigned(bytes, at, size) == ReadUint(bytes, at, size)

ReadInt(bytes, at, size) ==
  LET read   == ReadBytes(bytes, at, size)
      Signed(s) == [s EXCEPT ![size] = IF @ > 127 THEN @ - 256 ELSE @]
  IN  IF read.at < 0 THEN Failed ELSE [read EXCEPT !.value = Number(Signed(@), 256)]

ReadVarUint(bytes, at) ==
  LET from == NextByte(at) \div 8
      last == {i \in from + 1..from + 5 : i <= Len(bytes) /\ bytes[i] < 128}
      end  == CHOOSE i \in last : \A j \in last : i <= j
  IN  IF at < 0 \/ last = {}
      THEN Failed
      ELSE [value |-> Number([i \in 1..end - from |-> bytes[from + i] % 128], 128),
            at    |-> 8 * end]

\* n values, each read from where the one before it ended.
ReadSeveral(Read(_), at, n) ==
  LET upTo[i \in 0..n] ==
        IF i = 0 THEN [value |-> <<>>, at |-> at]
        ELSE LET before == upTo[i - 1]
                 next   == Read(before.at)
             IN  [value |-> Append(before.value, next.value), at |-> next.at]
  IN  upTo[n]
=============================================================================
