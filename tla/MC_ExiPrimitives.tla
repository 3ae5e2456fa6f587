------------------------- MODULE MC_ExiPrimitives -------------------------
(* Documents of three or four bytes and sequences of two or three simple types.    *)
(* The bytes are chosen to hit the interesting codes:                      *)
(*   - 0x00 and 0x01: a string from the local or the global table;         *)
(*   - 0x03: a literal of one character;                                   *)
(*   - 0x41: a small value or character;                                   *)
(*   - 0x81: a continued uint group.                                       *)
(* Booleans before other values put them at every bit offset.              *)
EXTENDS ExiPrimitives, TLC

Boolean == [xs |-> "boolean", n |-> 0]
UInt    == [xs |-> "uint", n |-> 0]
UShort  == [xs |-> "ushort", n |-> 0]
UByte   == [xs |-> "ubyte", n |-> 0]
AnyURI  == [xs |-> "anyURI", n |-> 0]
Hex(n)  == [xs |-> "hexBinary", n |-> n]
Str(n)  == [xs |-> "string", n |-> n]

MCBytes == {0, 1, 3, 65, 129}
\* Encoders write every uint in its minimal form: a continued group is
\* never followed by a zero group (see exi_nonminimal_char.cfg).
Minimal(d) == \A i \in 1 .. Len(d) - 1 : d[i] >= 128 => d[i + 1] # 0
MCDocs == {d \in [1 .. 3 -> MCBytes] \cup [1 .. 4 -> MCBytes] : Minimal(d)}
\* Strings are decoded at byte offsets: a literal code of 2 (the empty
\* string) is not in MCBytes (see exi_empty_literal.cfg).
MCProgs == {<<Boolean, UInt, Hex(2)>>, <<Boolean, UByte, Boolean>>,
            <<Str(0), Str(0)>>, <<Str(2), AnyURI>>, <<UInt, Hex(1)>>,
            <<UShort, Str(0)>>, <<Hex(2), Str(0)>>}

\* The empty literal: value code 2 followed by a byte.
EmptyLiteralDocs == {<<2, 65>>}
EmptyLiteralProgs == {<<Str(0), UByte>>}
\* A one-character literal whose character U+0001 is written in two groups,
\* decoded into a 2-byte field.
NonMinimalDocs == {<<3, 129, 0>>}
NonMinimalProgs == {<<Str(2)>>}
\* A ubyte that ends exactly at the end of the buffer.
LastByteDocs == {<<65>>}
LastByteProgs == {<<UByte>>}
====
