---------------------------- MODULE ExiPrimitives ----------------------------
(***************************************************************************)
(* The resumable value decoders of the EXI driver (exi_parse.c).           *)
(*                                                                         *)
(* The parser reads a document whose bytes arrive in chunks. A primitive   *)
(* either completes, or returns 0 because fewer bytes are buffered than it *)
(* needs (`need`). In the second case the caller rebuffers and calls the   *)
(* same primitive again.                                                   *)
(*                                                                         *)
(* The parser's progress lives in Parser fields and survives between       *)
(* calls:                                                                  *)
(*   - the byte position `ptr` and the bit offset `bit`;                   *)
(*   - the partial unsigned integer `ux` / `ux_n`;                         *)
(*   - the sub-state `exi_state` of binary and string values;              *)
(*   - the string tables.                                                  *)
(*                                                                         *)
(* Positions are absolute offsets into the document. exi_rebuffer moves    *)
(* `end` and restarts `ptr` at the unconsumed data, which is the same      *)
(* offset. Every operator returns the call's result `r` (1 or 0), the      *)
(* decoded value `v` and the parser after the call `p`.                    *)
(***************************************************************************)
EXTENDS Integers, Sequences, SequencesExt

CONSTANTS
  Docs,    \* the documents: sequences of bytes
  Progs    \* the simple types the walker decodes in turn (exi_parse_value)

VARIABLES
  doc,      \* the document being parsed
  prog,     \* the types of its values, in order
  idx,      \* number of values decoded so far
  avail,    \* bytes buffered so far: p->end
  p,        \* the Parser fields the primitives use
  results,  \* the values decoded so far
  last      \* what the last call returned: "ready", "ok", "incomplete"

evars == <<doc, prog, idx, avail, p, results, last>>

\* The byte at offset i; what lies beyond the document is never used.
Byte(i) == IF i < Len(doc) THEN doc[i + 1] ELSE 0

\* Number of bits needed to write x (parse.c bit_count): 0 for 0.
RECURSIVE BitCount(_)
BitCount(x) == IF x = 0 THEN 0 ELSE 1 + BitCount(x \div 2)

\* Bytes of the UTF-8 encoding of code point c (utf8_encode).
Utf8Len(c) == IF c < 128 THEN 1 ELSE IF c < 2048 THEN 2 ELSE IF c < 65536 THEN 3 ELSE 4

Fail(q) == [r |-> 0, v |-> 0, p |-> q]
Invalid(q) == Fail([q EXCEPT !.state = "invalid"])
Ok(q, v) == [r |-> 1, v |-> v, p |-> q]

\* need (p, n) with p->end = e.
Need(q, e, n) == e - q.ptr >= n

-----------------------------------------------------------------------------
\* parse_byte: 8 bits from the current bit offset.
ParseByte(q, e) ==
  IF q.bit # 0
  THEN IF ~Need(q, e, 2) THEN Fail(q)
       ELSE Ok([q EXCEPT !.ptr = @ + 1],
               ((Byte(q.ptr) * 2^q.bit) % 256) + (Byte(q.ptr + 1) \div 2^(8 - q.bit)))
  ELSE IF ~Need(q, e, 1) THEN Fail(q) ELSE Ok([q EXCEPT !.ptr = @ + 1], Byte(q.ptr))

\* The loop of parse_uint: 7-bit groups, least significant first, while
\* the continuation bit is set; the groups read so far stay in ux / ux_n.
\* ux |= (b & 0x7f) << ux_n adds the group, since the groups do not overlap.
RECURSIVE UintLoop(_, _)
UintLoop(q, e) ==
  IF q.ux_n = 70 THEN Invalid(q)
  ELSE LET b  == ParseByte(q, e)
           q2 == [b.p EXCEPT !.ux = @ + (b.v % 128) * 2^q.ux_n, !.ux_n = @ + 7]
       IN  IF b.r = 0 THEN Fail(q)
           ELSE IF b.v >= 128 THEN UintLoop(q2, e)
           ELSE Ok([q2 EXCEPT !.ux_n = 0], q2.ux)

\* Variant of parse_uint that clears ux on every entry, resumed or not.
ParseUintAlwaysReset(q, e) == UintLoop([q EXCEPT !.ux = 0], e)

\* parse_uint
ParseUint(q, e) == UintLoop(IF q.ux_n = 0 THEN [q EXCEPT !.ux = 0] ELSE q, e)

\* parse_bit
ParseBit(q, e) ==
  IF ~Need(q, e, 1) THEN Fail(q)
  ELSE Ok(IF q.bit = 7 THEN [q EXCEPT !.ptr = @ + 1, !.bit = 0] ELSE [q EXCEPT !.bit = @ + 1],
          (Byte(q.ptr) \div 2^(7 - q.bit)) % 2)

\* Variant of parse_bits that keeps p->bit + n as the new bit offset.
ParseBitsNoWrap(q, e, n) ==
  LET b     == q.bit + n
      bytes == b \div 8
      off   == b % 8
      q1    == [q EXCEPT !.oob = @ \/ q.ptr >= e]
      word  == FoldLeft(LAMBDA acc, j : acc * 256 + Byte(q.ptr + j), 0, [j \in 1 .. bytes + 1 |-> j - 1])
  IN  IF ~Need(q, e, IF off # 0 THEN bytes + 1 ELSE bytes) THEN Fail(q1)
      ELSE Ok([q1 EXCEPT !.ptr = @ + bytes, !.bit = b, !.oob = @ \/ q.ptr + bytes >= e],
              (word \div 2^(8 - off)) % 2^n)

\* parse_bits: `bits = *p->ptr` is read before need(), and the loop reads
\* `bytes` further bytes, the last of which lies past the bytes need()
\* checked when the final offset is 0. A read at or past p->end is an
\* out-of-bounds read (`oob`). Its value is shifted out of the result.
ParseBits(q, e, n) ==
  LET b     == q.bit + n
      bytes == b \div 8
      off   == b % 8
      q1    == [q EXCEPT !.oob = @ \/ q.ptr >= e]
      word  == FoldLeft(LAMBDA acc, j : acc * 256 + Byte(q.ptr + j), 0, [j \in 1 .. bytes + 1 |-> j - 1])
  IN  IF ~Need(q, e, IF off # 0 THEN bytes + 1 ELSE bytes) THEN Fail(q1)
      ELSE Ok([q1 EXCEPT !.ptr = @ + bytes, !.bit = off, !.oob = @ \/ q.ptr + bytes >= e],
              (word \div 2^(8 - off)) % 2^n)

-----------------------------------------------------------------------------
\* The loop `while (m--) parse_byte (b++, p)` of parse_binary.
RECURSIVE ReadBytes(_, _, _)
ReadBytes(q, e, m) ==
  IF m = 0 THEN Ok(q, <<>>)
  ELSE LET b == ParseByte(q, e)
           rest == ReadBytes(b.p, e, m - 1)
       IN  Ok(rest.p, <<b.v>> \o rest.v)

\* Variant of parse_binary's need() that always counts the current byte.
BinaryNeedAlways(q) == q.ux + 1

\* The bytes parse_binary's need() asks for: one more when the data starts
\* inside a byte.
BinaryNeed(q) == IF q.bit # 0 THEN q.ux + 1 ELSE q.ux

\* parse_binary into an n-byte field: case 0 reads the length (and commits
\* exi_state = 1 once it has), case 1 the data, right-aligned (b += n-m);
\* the leading bytes of the field keep their zeroed value.
BinaryData(q, e, n) ==
  IF ~Need(q, e, BinaryNeed(q)) THEN Fail(q)
  ELSE LET d == ReadBytes(q, e, q.ux)
       IN  Ok([d.p EXCEPT !.exi_state = 0], [i \in 1 .. n - q.ux |-> 0] \o d.v)
ParseBinary(q, e, n) ==
  IF q.exi_state = 0
  THEN LET u == ParseUint(q, e)
       IN  IF u.r = 0 THEN u
           ELSE IF u.p.ux > n THEN Invalid([u.p EXCEPT !.exi_state = 1])
           ELSE BinaryData([u.p EXCEPT !.exi_state = 1], e, n)
  ELSE BinaryData(q, e, n)

\* exi_utf8_length: scan `count` code points without consuming them. Each
\* is at most 3 groups; its UTF-8 length is derived from its group count
\* and its last group. The result is "incomplete" (ptr restored),
\* "invalid", or the total UTF-8 length.
RECURSIVE CodePoint(_, _, _)
CodePoint(q, e, m) ==
  LET b == ParseByte(q, e)
  IN  IF b.r = 0 THEN [st |-> "incomplete", m |-> 0, p |-> q]
      ELSE IF m + 1 > 3 THEN [st |-> "invalid", m |-> 0, p |-> b.p]
      ELSE IF b.v >= 128 THEN CodePoint(b.p, e, m + 1)
      ELSE [st |-> "ok", p |-> b.p,
            m  |-> CASE m + 1 = 2 /\ (b.v \div 16) % 8 # 0 -> 3
                     [] m + 1 = 3 /\ (b.v \div 4) % 32 # 0 -> 4
                     [] OTHER                               -> m + 1]
RECURSIVE Utf8Scan(_, _, _, _)
Utf8Scan(q, e, n, total) ==
  IF n = 0 THEN [st |-> "ok", m |-> total]
  ELSE LET c == CodePoint(q, e, 0)
       IN  IF c.st # "ok" THEN c ELSE Utf8Scan(c.p, e, n - 1, total + c.m)
Utf8Length(q, e, n) == Utf8Scan(q, e, n, 0)

\* parse_literal: n code points, each a uint (results unchecked: the bytes
\* were found present by exi_utf8_length).
RECURSIVE ParseLiteral(_, _, _)
ParseLiteral(q, e, n) ==
  IF n = 0 THEN Ok(q, <<>>)
  ELSE LET u == ParseUint(q, e)
           rest == ParseLiteral(u.p, e, n - 1)
       IN  Ok(rest.p, <<u.v>> \o rest.v)

\* parse_compact_id: an index of bit_count(entries - 1) bits into table t;
\* a fixed container of n bytes must hold the string and its NUL.
ParseCompactId(q, e, t, n) ==
  IF t = <<>> THEN Invalid(q)
  ELSE LET b == ParseBits(q, e, BitCount(Len(t) - 1))
       IN  IF b.r = 0 THEN b
           ELSE IF b.v >= Len(t) THEN Invalid(b.p)
           ELSE LET s == t[b.v + 1]
                IN  IF n # 0 /\ FoldLeft(LAMBDA a, c : a + Utf8Len(c), 0, s) + 1 > n
                    THEN Invalid(b.p) ELSE Ok(b.p, s)

\* Case 1 of exi_parse_string, once the value code p->ux is known: 0 and 1
\* look the string up in the local or the global table, any other code is
\* a literal of p->ux - 2 characters.
StringValue(q, e, n) ==
  IF q.ux \in {0, 1}
  THEN LET c == ParseCompactId(q, e, IF q.ux = 0 THEN q.local ELSE q.global, n)
       IN  IF c.r = 0 THEN c ELSE Ok([c.p EXCEPT !.exi_state = 0], c.v)
  ELSE LET len == q.ux - 2
           u   == Utf8Length(q, e, len)
           lit == ParseLiteral(q, e, len)
       IN  CASE u.st = "invalid"    -> Invalid(u.p)
             [] u.st = "incomplete" -> Fail(q)
             [] u.m = 0             -> Fail(q)   \* ok_v (m = ...)
             [] n # 0 /\ u.m >= n   -> Invalid(q)
             [] OTHER -> Ok([lit.p EXCEPT !.exi_state = 0,
                                          !.local  = Append(@, lit.v),
                                          !.global = Append(@, lit.v)], lit.v)

\* exi_parse_string: case 0 reads the value code and falls through to case 1.
ExiParseString(q, e, n) ==
  LET u == IF q.exi_state = 0 THEN ParseUint(q, e) ELSE Ok(q, q.ux)
  IN  IF u.r = 0 THEN u ELSE StringValue([u.p EXCEPT !.exi_state = 1], e, n)

\* exi_parse_value for the simple types modelled (the signed kinds, parsed
\* by parse_integer, are not; see the README). anyURI is a string with no
\* fixed container; a ushort keeps the low 16 bits of the uint.
ExiParseValue(q, e, t) ==
  CASE t.xs = "boolean"   -> ParseBit(q, e)
    [] t.xs = "hexBinary" -> ParseBinary(q, e, t.n)
    [] t.xs \in {"string", "anyURI"} ->
         ExiParseString(q, e, IF t.xs = "string" THEN t.n ELSE 0)
    [] t.xs = "ubyte"     -> ParseBits(q, e, 8)
    [] t.xs \in {"uint", "ushort"} ->
         LET u == ParseUint(q, e)
         IN  IF t.xs = "ushort" THEN [u EXCEPT !.v = @ % 65536] ELSE u

-----------------------------------------------------------------------------
(* The parser: a value call, and the caller's rebuffer after "incomplete".  *)

\* The walker calls p->driver->value for the next field, and again after a
\* rebuffer when the call returned 0 without setting PARSE_INVALID.
Call ==
  /\ last # "incomplete" /\ p.state = "ok" /\ idx < Len(prog)
  /\ LET c == ExiParseValue(p, avail, prog[idx + 1])
     IN  /\ p' = c.p
         /\ IF c.r = 1
            THEN /\ results' = Append(results, c.v) /\ idx' = idx + 1 /\ last' = "ok"
            ELSE /\ last' = IF c.p.state = "invalid" THEN "ok" ELSE "incomplete"
                 /\ UNCHANGED <<results, idx>>
  /\ UNCHANGED <<doc, prog, avail>>

\* exi_rebuffer: the caller supplies more of the document.
Rebuffer ==
  /\ last = "incomplete" /\ avail < Len(doc)
  /\ \E n \in avail + 1 .. Len(doc) : avail' = n
  /\ last' = "ready"
  /\ UNCHANGED <<doc, prog, idx, p, results>>

\* exi_parse_init: a zeroed Parser with an empty global table; the first
\* buffer holds any non-empty prefix of the document.
EInit ==
  /\ doc \in Docs /\ prog \in Progs
  /\ avail \in 1 .. Len(doc)
  /\ p = [ptr |-> 0, bit |-> 0, ux |-> 0, ux_n |-> 0, exi_state |-> 0,
          state |-> "ok", local |-> <<>>, global |-> <<>>, oob |-> FALSE]
  /\ idx = 0 /\ results = <<>> /\ last = "ready"

ENext == Call \/ Rebuffer

ESpec == EInit /\ [][ENext]_evars

-----------------------------------------------------------------------------
(* The reference decoding (spec 4.6), over the document as a bit string:   *)
(* one pass over the whole document, with no buffering. The result is the  *)
(* values decoded and how it ended: "ok", "short" (the document ends       *)
(* inside a value) or "invalid".                                           *)

NBits == 8 * Len(doc)
\* The n bits from bit i on, most significant first.
RefNum(i, n) == FoldLeft(LAMBDA a, j : 2 * a + ((Byte(j \div 8) \div 2^(7 - (j % 8))) % 2), 0,
                         [k \in 1 .. n |-> i + k - 1])
RStop(st) == [st |-> st, v |-> 0, i |-> 0]
ROk(v, i) == [st |-> "ok", v |-> v, i |-> i]

\* uint: base-128 groups, least significant first, at most 10 (70 bits).
\* `g` counts groups read, `lim` bounds them (3 for a code point).
RECURSIVE RefUint(_, _, _, _)
RefUint(i, g, acc, lim) ==
  IF g = lim THEN RStop("invalid")
  ELSE IF i + 8 > NBits THEN RStop("short")
  ELSE LET b == RefNum(i, 8) IN
       IF b >= 128 THEN RefUint(i + 8, g + 1, acc + (b % 128) * 128^g, lim)
       ELSE ROk(acc + b * 128^g, i + 8)

\* A literal of n code points, each a uint of at most 3 groups (21 bits).
RECURSIVE RefChars(_, _)
RefChars(i, n) ==
  IF n = 0 THEN ROk(<<>>, i)
  ELSE LET c == RefUint(i, 0, 0, 3) IN
       IF c.st # "ok" THEN c
       ELSE LET rest == RefChars(c.i, n - 1) IN
            IF rest.st # "ok" THEN rest ELSE ROk(<<c.v>> \o rest.v, rest.i)

RefFits(s, n) == n = 0 \/ FoldLeft(LAMBDA a, c : a + Utf8Len(c), 0, s) + 1 <= n

\* A compact id: ceil(log2(entries)) bits indexing the table.
RefLookup(i, t, n) ==
  LET w == BitCount(Len(t) - 1) IN
  IF t = <<>> THEN RStop("invalid")
  ELSE IF i + w > NBits THEN RStop("short")
  ELSE IF RefNum(i, w) >= Len(t) \/ ~RefFits(t[RefNum(i, w) + 1], n) THEN RStop("invalid")
  ELSE ROk(t[RefNum(i, w) + 1], i + w)

\* One value of type t at bit i, with tables loc / glob.
RefValue(i, t, loc, glob) ==
  CASE t.xs = "boolean" -> IF i + 1 > NBits THEN RStop("short") ELSE ROk(RefNum(i, 1), i + 1)
    [] t.xs = "ubyte"   -> IF i + 8 > NBits THEN RStop("short") ELSE ROk(RefNum(i, 8), i + 8)
    [] t.xs = "uint"    -> RefUint(i, 0, 0, 10)
    [] t.xs = "ushort"  -> LET u == RefUint(i, 0, 0, 10) IN [u EXCEPT !.v = @ % 65536]
    [] t.xs = "hexBinary" ->
         LET u == RefUint(i, 0, 0, 10) IN
         IF u.st # "ok" THEN u ELSE IF u.v > t.n THEN RStop("invalid")
         ELSE IF u.i + 8 * u.v > NBits THEN RStop("short")
         ELSE ROk([k \in 1 .. t.n |-> IF k <= t.n - u.v THEN 0
                                     ELSE RefNum(u.i + 8 * (k - 1 - (t.n - u.v)), 8)],
                  u.i + 8 * u.v)
    [] OTHER ->   \* string and anyURI
         LET n == IF t.xs = "string" THEN t.n ELSE 0
             k == RefUint(i, 0, 0, 10)
         IN  CASE k.st # "ok" -> k
               [] k.v \in {0, 1} -> RefLookup(k.i, IF k.v = 0 THEN loc ELSE glob, n)
               [] OTHER ->
                    LET lit == RefChars(k.i, k.v - 2) IN
                    IF lit.st # "ok" THEN lit
                    ELSE IF ~RefFits(lit.v, n) THEN RStop("invalid") ELSE lit

\* A literal string (value code 2 or more) is added to both tables.
RefLiteral(i, t) == t.xs \in {"string", "anyURI"} /\ RefUint(i, 0, 0, 10).v >= 2

RECURSIVE RefRun(_, _, _, _), RefRest(_, _, _, _, _)
\* The values of types prog[j..] from bit i, with tables loc / glob.
RefRun(i, j, loc, glob) ==
  IF j > Len(prog) THEN [st |-> "ok", vals |-> <<>>]
  ELSE RefRest(RefValue(i, prog[j], loc, glob), RefLiteral(i, prog[j]), j, loc, glob)
\* The value r of prog[j] followed by the values of prog[j+1..].
RefRest(r, lit, j, loc, glob) ==
  IF r.st # "ok" THEN [st |-> r.st, vals |-> <<>>]
  ELSE LET rest == RefRun(r.i, j + 1, IF lit THEN Append(loc, r.v) ELSE loc,
                                      IF lit THEN Append(glob, r.v) ELSE glob)
       IN  [st |-> rest.st, vals |-> <<r.v>> \o rest.vals]

Reference == RefRun(0, 1, <<>>, <<>>)

-----------------------------------------------------------------------------
(* Properties                                                              *)

\* The Parser fields keep their types; in particular the bit offset stays
\* within a byte, as parse_bit's wrap at 8 keeps it.
ETypeOK ==
  /\ p.ptr \in 0 .. Len(doc) /\ p.bit \in 0 .. 7 /\ p.ux \in Nat /\ p.ux_n \in 0 .. 70
  /\ p.exi_state \in {0, 1} /\ p.state \in {"ok", "invalid"} /\ p.oob \in BOOLEAN
  /\ avail \in 1 .. Len(doc) /\ idx \in 0 .. Len(prog)
  /\ last \in {"ready", "ok", "incomplete"}

\* Spec 4.4 (rebuffer contract) and property 7 (prefix stability). However
\* the document is split into buffers, the values the primitives return
\* are the values the reference decoding finds in the whole document, in
\* order. The parser declares PARSE_INVALID exactly where the reference
\* finds the document invalid. This needs every primitive that returns 0
\* for want of bytes to leave ptr, bit, ux / ux_n and exi_state so that the
\* next call resumes where it stopped.
ResultsFollowReference ==
  LET ref == Reference IN
  /\ IsPrefix(results, ref.vals)
  /\ p.state = "invalid" => ref.st = "invalid" /\ Len(ref.vals) = idx

\* With the whole document buffered, a value call asks for more input only
\* when the document holds no complete, valid value at that point. Either
\* it ends inside the value, or the value is malformed; exi_utf8_length
\* reads a code point's 4th group before rejecting it. So the walker never
\* waits for bytes that a well-formed document has already supplied.
NoSpuriousIncomplete ==
  (last = "incomplete" /\ avail = Len(doc)) =>
     Reference.st \in {"short", "invalid"} /\ Len(Reference.vals) = idx

\* No primitive reads a byte at or beyond p->end, the end of the buffer
\* the caller supplied.
NoReadPastEnd == ~p.oob

====
