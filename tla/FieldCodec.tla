----------------------------- MODULE FieldCodec -----------------------------
(***************************************************************************)
(* The field codecs: which values a field type accepts, which two values   *)
(* it takes for the same, how it writes a value and what it reads back.    *)
(*                                                                         *)
(* A type is a record with a kind:                                         *)
(*   int      lo, hi, size       u8 ... i32: an integer in size bytes      *)
(*   varu32                      an integer of variable length             *)
(*   float    ulp                f32: its bits are external; the values    *)
(*                               it can hold are the multiples of ulp      *)
(*   bool                                                                  *)
(*   flags    bits               an integer of so many bits                *)
(*   angle    bits               angle8, angle12, angle16: in units of     *)
(*                               half a step, a turn has 2 * max of them   *)
(*   quant    min, max, precision, axes    qf32, vec2q, vec3q: a sequence  *)
(*                               of numbers, one for each axis             *)
(*   enum     names                                                        *)
(*   bytes    maxBytes           strings and byte arrays                   *)
(*   array    item, maxItems     the items are not arrays themselves       *)
(***************************************************************************)
EXTENDS Binary

RoundedQuotient(a, b) == (2 * a + b) \div (2 * b)

Clamped(t, x) == IF x < t.min THEN t.min ELSE IF x > t.max THEN t.max ELSE x

Quantize(t, x) == RoundedQuotient(Clamped(t, x) - t.min, t.precision)
Dequantize(t, code) == t.min + code * t.precision

AngleMax(t) == 2^t.bits - 1
Turn(t) == 2 * AngleMax(t)
AngleCode(t, x) == RoundedQuotient(x % Turn(t), 2) % (AngleMax(t) + 1)

Codes(t, v) ==
  CASE t.kind = "quant" -> [k \in 1..t.axes |-> Quantize(t, v[k])]
    [] t.kind = "angle" -> AngleCode(t, v)
    [] OTHER            -> v

-----------------------------------------------------------------------------
\* validate.  Numbers are finite: any number will do for a float, an angle or
\* a quantized one.
ValidItem(t, v) ==
  CASE t.kind = "int"    -> v \in t.lo..t.hi
    [] t.kind = "varu32" -> v >= 0
    [] t.kind = "flags"  -> v \in 0..2^t.bits - 1
    [] t.kind = "enum"   -> \E i \in DOMAIN t.names : t.names[i] = v
    [] t.kind = "bytes"  -> Len(v) <= t.maxBytes
    [] OTHER             -> TRUE

Valid(t, v) ==
  IF t.kind = "array"
  THEN Len(v) <= t.maxItems /\ \A i \in DOMAIN v : ValidItem(t.item, v[i])
  ELSE ValidItem(t, v)

\* Mutant: of a vector only the first axis is compared.
EqualOnFirstAxis(t, a, b) ==
  IF t.kind = "quant" THEN Codes(t, a)[1] = Codes(t, b)[1] ELSE Codes(t, a) = Codes(t, b)

\* equals.
Equal(t, a, b) ==
  IF t.kind = "array"
  THEN Len(a) = Len(b) /\ \A i \in DOMAIN a : Codes(t.item, a[i]) = Codes(t.item, b[i])
  ELSE Codes(t, a) = Codes(t, b)

-----------------------------------------------------------------------------
Concat(Chunks(_), n) ==
  LET upTo[i \in 0..n] == IF i = 0 THEN <<>> ELSE upTo[i - 1] \o Chunks(i)
  IN  upTo[n]

WriteItem(t, v) ==
  CASE ~ValidItem(t, v)  -> <<Error>>
    [] t.kind = "int"    -> WriteUint(v, t.size)
    [] t.kind = "varu32" -> WriteVarUint(v)
    [] t.kind = "float"  -> WriteUint(RoundedQuotient(v, t.ulp), 4)
    [] t.kind = "bool"   -> WriteBits(IF v THEN 1 ELSE 0, 1)
    [] t.kind = "flags"  -> WriteBits(v, t.bits)
    [] t.kind = "angle"  -> IF t.bits % 8 = 0
                            THEN WriteUint(AngleCode(t, v), t.bits \div 8)
                            ELSE WriteBits(AngleCode(t, v), t.bits)
    [] t.kind = "quant"  -> Concat(LAMBDA k : WriteVarUint(Quantize(t, v[k])), t.axes)
    [] t.kind = "enum"   -> WriteVarUint((CHOOSE i \in DOMAIN t.names : t.names[i] = v) - 1)
    [] t.kind = "bytes"  -> WriteVarUint(Len(v)) \o <<BytesChunk(v)>>

WriteValue(t, v) ==
  IF t.kind = "array"
  THEN IF Valid(t, v)
       THEN WriteVarUint(Len(v)) \o Concat(LAMBDA i : WriteItem(t.item, v[i]), Len(v))
       ELSE <<Error>>
  ELSE WriteItem(t, v)

-----------------------------------------------------------------------------
\* What is read, turned into a value.
As(Value(_), read) == IF read.at < 0 THEN Failed ELSE [read EXCEPT !.value = Value(@)]

\* A length, then so much of what Read reads; longer than max is an error.
ReadCounted(count, max, Read(_, _)) ==
  IF count.at < 0 \/ count.value > max THEN Failed ELSE Read(count.at, count.value)

ReadItem(t, bytes, at) ==
  CASE t.kind = "int"    -> IF t.lo < 0 THEN ReadInt(bytes, at, t.size)
                                        ELSE ReadUint(bytes, at, t.size)
    [] t.kind = "varu32" -> ReadVarUint(bytes, at)
    [] t.kind = "float"  -> As(LAMBDA x : x * t.ulp, ReadInt(bytes, at, 4))
    [] t.kind = "bool"   -> As(LAMBDA x : x = 1, ReadBits(bytes, at, 1))
    [] t.kind = "flags"  -> ReadBits(bytes, at, t.bits)
    [] t.kind = "angle"  -> As(LAMBDA x : 2 * x,
                               IF t.bits % 8 = 0
                               THEN ReadUint(bytes, at, t.bits \div 8)
                               ELSE ReadBits(bytes, at, t.bits))
    [] t.kind = "quant"  -> ReadSeveral(LAMBDA p : As(LAMBDA x : Dequantize(t, x),
                                                      ReadVarUint(bytes, p)),
                                        at, t.axes)
    [] t.kind = "enum"   -> LET read == ReadVarUint(bytes, at) IN
                            IF read.at < 0 \/ read.value >= Len(t.names)
                            THEN Failed
                            ELSE [read EXCEPT !.value = t.names[@ + 1]]
    [] t.kind = "bytes"  -> ReadCounted(ReadVarUint(bytes, at), t.maxBytes,
                                        LAMBDA p, n : ReadBytes(bytes, p, n))

ReadValue(t, bytes, at) ==
  IF t.kind = "array"
  THEN ReadCounted(ReadVarUint(bytes, at), t.maxItems,
                   LAMBDA p, n : ReadSeveral(LAMBDA q : ReadItem(t.item, bytes, q), p, n))
  ELSE ReadItem(t, bytes, at)
=============================================================================
