------------------------------- MODULE MCWire -------------------------------
EXTENDS Wire

F(id, type, init, spawn, values) ==
  [id |-> id, type |-> type, init |-> init, spawn |-> spawn, values |-> values]

U8 == [kind |-> "int", lo |-> 0, hi |-> 255, size |-> 1]
I16 == [kind |-> "int", lo |-> -32768, hi |-> 32767, size |-> 2]
U32 == [kind |-> "int", lo |-> 0, hi |-> 2147483647, size |-> 4]
VarU32 == [kind |-> "varu32"]
F32 == [kind |-> "float", ulp |-> 8]
Bool == [kind |-> "bool"]
Flags(n) == [kind |-> "flags", bits |-> n]
Angle(n) == [kind |-> "angle", bits |-> n]
\* 0..25 in steps of 10: the range is not a multiple of the step
Qf32 == [kind |-> "quant", min |-> -5, max |-> 20, precision |-> 10, axes |-> 1]
Vec2q == [kind |-> "quant", min |-> 0, max |-> 2000, precision |-> 4, axes |-> 2]
Enum == [kind |-> "enum", names |-> <<"idle", "run">>]
Text == [kind |-> "bytes", maxBytes |-> 2]
Array(item) == [kind |-> "array", item |-> item, maxItems |-> 2]

\* Bits after bits across the bytes, ids that are not the places, and values
\* that do not fit.
Bits == << F(3, Flags(3), 0, 5, <<5, 8, 2>>),
           F(0, Angle(12), 0, 8189, <<1, 8189>>) >>
\* Bytes after bits.
Mixed == << F(0, Bool, FALSE, TRUE, <<TRUE, FALSE>>),
            F(1, I16, -1, -32768, <<-1, 300>>) >>
Words == << F(30, U32, 0, 70000, <<0, 2147483647>>),
            F(4, F32, 3, 21, <<4, -21>>) >>
VarInts == << F(2, VarU32, 127, 128, <<127, 20000>>),
              F(1, Enum, "idle", "run", <<"run", "idle", "fly">>) >>
\* Default and first value are the same step, but not the same.
Steps == << F(0, Qf32, <<14>>, <<6>>, << <<6>>, <<26>>, <<-40>> >>),
            F(1, Angle(8), 509, 0, <<509, 0, 300>>) >>
Vectors == << F(5, Vec2q, <<0, 0>>, <<0, 999>>, << <<0, 0>>, <<0, 1999>> >>),
              F(6, Flags(1), 0, 1, <<0, 1>>) >>
Lists == << F(0, Array(Flags(3)), <<>>, <<1, 2>>, << <<>>, <<7>>, <<1, 2, 3>> >>),
            F(1, Text, <<>>, <<65>>, << <<65>>, <<65, 66>> >>) >>
Array8 == << F(0, Array(Qf32), <<>>, << <<6>> >>, << << <<14>> >>, << <<20>>, <<-5>> >> >>),
             F(7, U8, 0, 255, <<0, 256, 128>>) >>
\* Bits are still waiting when the last field turns out not to fit a mask.
LastField == << F(0, Flags(3), 0, 5, <<5, 2>>),
                F(31, Bool, FALSE, FALSE, <<TRUE, FALSE>>) >>
\* Each is set once: batches and single updates in one packet.
Once == << F(1, Flags(5), 0, 0, <<17>>), F(8, Bool, FALSE, FALSE, <<TRUE>>) >>

On(layouts, entities) == {[fields |-> l, entities |-> entities] : l \in layouts}

AllComponents ==
  On({Mixed, Words, VarInts, Steps, Vectors, Lists, Array8}, {200})
    \cup On({Bits, LastField}, {1, 200})
    \cup On({Once}, {1, 2, 200})
AllCommands == {Bits \o Mixed, VarInts \o Words, Steps \o Lists, Array8 \o LastField}
LastFieldOnly == On({LastField}, {1, 2})
NoCommands == {}
=============================================================================
