------------------------------ MODULE XmlDriver ------------------------------
(***************************************************************************)
(* The XML parser driver (xml_parse.c): parse_token, parse_text,           *)
(* parse_hex, parse_value, start_tag, end_tag, xml_start, xml_next,        *)
(* xml_end and xml_sequence, driven by the walker of spec 4.4 (parse.c,    *)
(* outside src/) over a document that arrives in pieces.                   *)
(*                                                                         *)
(* The tokenizer (xml_token.c, outside src/) is abstracted to a sequence   *)
(* of tokens: xml_token returns the next one when it is buffered and       *)
(* XML_INCOMPLETE, consuming nothing, when it is not. A token is a record  *)
(* [k, nm, at, tx]: kind, element name, attribute map, text. Text is a     *)
(* sequence of one-character strings.                                      *)
(*                                                                         *)
(* Two parsers read the same document: "whole" has it buffered from the    *)
(* start, "split" is given a longer prefix (xml_rebuffer) each time a call *)
(* returns 0 without PARSE_INVALID.                                        *)
(***************************************************************************)
EXTENDS Integers, Sequences, SequencesExt, FiniteSets, TLC

CONSTANTS
  Entries,   \* schema entries: [type, min, max, n, attribute, unbounded, name]
  Length,    \* schema->length: entries below it are elements
  Docs       \* the documents, sequences of tokens

ST_SIMPLE == 32768
XS_STRING == 1
XS_BOOLEAN == 2
XS_HEX_BINARY == 3
XS_ANY_URI == 4

Modes == {"whole", "split"}

VARIABLES doc, P
xvars == <<doc, P>>

IsSimple(t) == t >= ST_SIMPLE
Kind(t) == (t - ST_SIMPLE) % 16
Len4(t) == (t - ST_SIMPLE) \div 16

-----------------------------------------------------------------------------
(* Values (parse_hex, parse_value).                                        *)

\* hex_digit (outside src/), for the characters the documents use: the
\* digit's value, or -1 for a character that is not a hex digit.
HexTable == ("0" :> 0) @@ ("1" :> 1) @@ ("9" :> 9) @@ ("a" :> 10) @@ ("b" :> 11)
            @@ ("f" :> 15) @@ ("A" :> 10) @@ ("F" :> 15)
HexVal(c) == IF c \in DOMAIN HexTable THEN HexTable[c] ELSE -1

\* only (outside src/): nothing but white space is left.
Only(s, i) == \A j \in i .. Len(s) : s[j] = " "

Ch(s, i) == IF i <= Len(s) THEN s[i] ELSE "NUL"

\* Variant of the pair loop that tests m > n instead of m == n.
RECURSIVE HexLoopOver(_, _, _, _)
HexLoopOver(s, i, n, acc) ==
  IF HexVal(Ch(s, i)) < 0
  THEN [ok |-> Len(acc) # 0 /\ Only(s, i), bytes |-> acc]
  ELSE IF Len(acc) > n \/ HexVal(Ch(s, i + 1)) < 0
       THEN [ok |-> FALSE, bytes |-> acc]
       ELSE HexLoopOver(s, i + 2, n, Append(acc, 16 * HexVal(s[i]) + HexVal(s[i + 1])))

\* The digit-pair loop of parse_hex: m bytes decoded so far into acc.
RECURSIVE HexLoop(_, _, _, _)
HexLoop(s, i, n, acc) ==
  IF HexVal(Ch(s, i)) < 0
  THEN [ok |-> Len(acc) # 0 /\ Only(s, i), bytes |-> acc]
  ELSE IF Len(acc) = n \/ HexVal(Ch(s, i + 1)) < 0
       THEN [ok |-> FALSE, bytes |-> acc]
       ELSE HexLoop(s, i + 2, n, Append(acc, 16 * HexVal(s[i]) + HexVal(s[i + 1])))

\* parse_hex: the bytes, right-aligned into n by memmove and memset.
ParseHex(s, n) ==
  LET h == HexLoop(s, 1, n, <<>>)
  IN  [ok |-> h.ok, v |-> [i \in 1 .. n - Len(h.bytes) |-> 0] \o h.bytes]

TrueText == {<<"t", "r", "u", "e">>, <<"1">>}
FalseText == {<<"f", "a", "l", "s", "e">>, <<"0">>}

\* parse_value for the string, boolean, hexBinary and anyURI kinds:
\* [r, v, invalid]. A boolean that is neither true nor false sets
\* PARSE_INVALID; the other failures return 0 only.
ParseValue(t, s) ==
  CASE Kind(t) = XS_STRING /\ Len4(t) # 0 ->
         [r |-> Len(s) <= Len4(t) - 1, v |-> s, invalid |-> FALSE]
    [] Kind(t) = XS_BOOLEAN ->
         [r |-> s \in TrueText \cup FalseText, v |-> s \in TrueText,
          invalid |-> s \notin TrueText \cup FalseText]
    [] Kind(t) = XS_HEX_BINARY ->
         LET h == ParseHex(s, Len4(t)) IN [r |-> h.ok, v |-> h.v, invalid |-> FALSE]
    [] OTHER -> [r |-> TRUE, v |-> s, invalid |-> FALSE]
-----------------------------------------------------------------------------
(* The driver. q is the Parser: state, token, need (need_token), empty,    *)
(* decl (xml_decl), se, ptr and pos, the tokenizer's position. a is the    *)
(* number of tokens buffered. Each operator returns [r, q].                *)

Res(r, q) == [r |-> r, q |-> q]
Invalid(q) == [q EXCEPT !.state = "INVALID"]

\* The token the tokenizer read last: xml->name, xml->attr, xml->content.
Cur(q) == doc[q.pos - 1]

\* Variants of parse_token: one that consumes a token it has not got, one
\* that caches XML_INCOMPLETE as if it were a token.
ParseTokenConsume(q, a) ==
  CASE ~q.need -> q
    [] q.pos > a -> [q EXCEPT !.token = "incomplete", !.pos = @ + 1]
    [] doc[q.pos].k = "invalid" ->
         [q EXCEPT !.token = "invalid", !.state = "INVALID", !.pos = @ + 1]
    [] OTHER -> [q EXCEPT !.token = doc[q.pos].k, !.need = FALSE, !.pos = @ + 1]
ParseTokenCacheIncomplete(q, a) ==
  CASE ~q.need -> q
    [] q.pos > a -> [q EXCEPT !.token = "incomplete", !.need = FALSE]
    [] doc[q.pos].k = "invalid" ->
         [q EXCEPT !.token = "invalid", !.state = "INVALID", !.pos = @ + 1]
    [] OTHER -> [q EXCEPT !.token = doc[q.pos].k, !.need = FALSE, !.pos = @ + 1]

\* parse_token: the cached token, or the next one; XML_INCOMPLETE leaves
\* need_token set and consumes nothing.
ParseToken(q, a) ==
  CASE ~q.need -> q
    [] q.pos > a -> [q EXCEPT !.token = "incomplete"]
    [] doc[q.pos].k = "invalid" ->
         [q EXCEPT !.token = "invalid", !.state = "INVALID", !.pos = @ + 1]
    [] OTHER -> [q EXCEPT !.token = doc[q.pos].k, !.need = FALSE, !.pos = @ + 1]

\* parse_text: the text, or "" when the element is closed at once.
ParseText(q, a) ==
  LET t == ParseToken(q, a)
  IN  CASE t.token = "text" -> Res(TRUE, [t EXCEPT !.ptr = Cur(t).tx, !.need = TRUE])
        [] t.token = "end"  -> Res(TRUE, [t EXCEPT !.ptr = <<>>])
        [] OTHER            -> Res(FALSE, t)

\* start_tag: a start or empty tag with the field's name opens it.
StartTag(q, se, a) ==
  LET t == ParseToken(q, a)
      e == Entries[se]
  IN  CASE t.token \in {"start", "empty"} ->
             CASE t.empty -> Res(FALSE, Invalid(t))
               [] e.name # Cur(t).nm -> Res(FALSE, t)
               [] t.token = "empty" /\ IsSimple(e.type) -> Res(FALSE, Invalid(t))
               [] OTHER -> Res(TRUE, [t EXCEPT !.empty = (t.token = "empty"), !.need = TRUE])
        [] t.token \in {"end", "incomplete"} -> Res(FALSE, t)
        [] OTHER -> Res(FALSE, Invalid(t))

\* end_tag: an end tag with the name consumes it; anything else returns 0
\* and leaves the token cached.
EndTag(q, se, a) ==
  LET t == ParseToken(q, a)
  IN  IF t.token = "end" /\ Cur(t).nm = Entries[se].name
      THEN Res(TRUE, [t EXCEPT !.need = TRUE]) ELSE Res(FALSE, t)

\* xml_end
XmlEnd(q, se, a) ==
  IF q.empty THEN Res(TRUE, [q EXCEPT !.empty = FALSE])
  ELSE LET t == EndTag(q, se, a)
       IN  IF t.r THEN Res(TRUE, [t.q EXCEPT !.empty = FALSE]) ELSE t

\* element_index: the element entry with the name, or -1.
ElementIndex(nm) ==
  IF \E i \in 0 .. Length - 1 : Entries[i].name = nm
  THEN CHOOSE i \in 0 .. Length - 1 : Entries[i].name = nm ELSE -1

\* The loop of xml_start over one more token t.
RECURSIVE StartLoop(_, _)
StartLoop(t, a) ==
  CASE t.token = "decl" ->
         IF t.decl THEN Res(FALSE, Invalid(t))
         ELSE StartLoop(ParseToken([t EXCEPT !.decl = TRUE, !.need = TRUE], a), a)
    [] t.token \in {"start", "empty"} ->
         IF ElementIndex(Cur(t).nm) < 0 THEN Res(FALSE, Invalid(t))
         ELSE Res(TRUE, [t EXCEPT !.se = ElementIndex(Cur(t).nm),
                                  !.empty = (t.token = "empty"), !.need = (t.token # "empty")])
    [] t.token = "incomplete" -> Res(FALSE, t)
    [] OTHER -> Res(FALSE, Invalid(t))

\* xml_start
XmlStart(q, a) == StartLoop(ParseToken([q EXCEPT !.need = TRUE], a), a)

\* One field of xml_next's loop: [stop (return 0), q].
NextField(q, se, a) ==
  LET e == Entries[se]
  IN  CASE e.n = 0 -> [stop |-> FALSE, q |-> [q EXCEPT !.state = "END"]]
        [] e.attribute ->
             [stop |-> FALSE,
              q |-> IF e.name \in DOMAIN Cur(q).at
                    THEN [q EXCEPT !.ptr = Cur(q).at[e.name], !.state = "ELEMENT"] ELSE q]
        [] ~q.empty ->
             LET t == StartTag(q, se, a)
             IN  IF t.r THEN [stop |-> FALSE, q |-> [t.q EXCEPT !.state = "ELEMENT"]]
                 ELSE [stop |-> t.q.token = "incomplete", q |-> t.q]
        [] OTHER -> [stop |-> FALSE, q |-> IF e.min > 0 THEN Invalid(q) ELSE q]

\* xml_next: while (p->state == PARSE_NEXT) { ...; se++; } p->se = se-1;
\* an incomplete start_tag returns 0 with p->se where it was.
RECURSIVE NextLoop(_, _, _), NextAfter(_, _, _)
NextAfter(f, se, a) == IF f.stop THEN Res(FALSE, f.q) ELSE NextLoop(f.q, se + 1, a)
NextLoop(q, se, a) ==
  IF q.state # "NEXT" THEN Res(TRUE, [q EXCEPT !.se = se - 1])
  ELSE NextAfter(NextField(q, se, a), se, a)

XmlNext(q, a) == NextLoop(q, q.se, a)

\* The parser state after p->state++ in xml_sequence.
Succ(st) == CASE st = "SEQUENCE" -> "NEXT"

\* xml_sequence: another element of the field, or, at a tag, the end of the
\* sequence (PARSE_INVALID when fewer than min were read).
XmlSequence(q, t, a) ==
  LET s == StartTag(q, t.se, a)
  IN  CASE s.r -> s
        [] s.q.token \in {"start", "empty", "end"} ->
             Res(FALSE, IF t.count < Entries[t.se].min THEN Invalid(s.q)
                        ELSE [s.q EXCEPT !.state = Succ(@)])
        [] OTHER -> Res(FALSE, s.q)
-----------------------------------------------------------------------------
(* The walker (parse.c, spec 4.4). P[m] is [q, stk, out, wait, avail]: the *)
(* Parser, the stack of [se, count] items, the values stored as <<field,  *)
(* text, value>>, whether the last call returned 0 without PARSE_INVALID   *)
(* (the caller waits for more input), and the tokens buffered.             *)

FirstField(t) == (IF t < Length THEN Entries[t].type ELSE t) + 1
IsSequence(e) == e.unbounded \/ e.max > 1

\* The parse has ended: done, invalid, or waiting with all of it buffered.
Finished(m) ==
  \/ P[m].q.state \in {"DONE", "INVALID"}
  \/ P[m].wait /\ P[m].avail = Len(doc)

Busy(m) == ~P[m].wait /\ (m = "split" => Finished("whole"))

\* Commit the call's parser; a 0 without PARSE_INVALID makes the caller wait.
Call(m, r, q, stk, out) ==
  P' = [P EXCEPT ![m] = [@ EXCEPT !.q = q, !.stk = stk, !.out = out,
                                  !.wait = ~r /\ q.state # "INVALID"]]

\* One occurrence of field f is complete: another may follow (sequence), or
\* the walker moves to the next field.
Continue(q, f, stk) ==
  LET c == Last(stk).count + 1
      e == Entries[f]
  IN  IF IsSequence(e) /\ (e.unbounded \/ c < e.max)
      THEN [q |-> [q EXCEPT !.state = "SEQUENCE", !.se = f],
            stk |-> [stk EXCEPT ![Len(stk)].count = c]]
      ELSE [q |-> [q EXCEPT !.state = "NEXT", !.se = f + 1],
            stk |-> [stk EXCEPT ![Len(stk)].count = 0]]

\* driver->start, then the document object's item is pushed.
WStart(m) ==
  LET W == P[m]
      r == XmlStart(W.q, W.avail)
  IN  /\ Busy(m) /\ W.q.state = "START"
      /\ IF r.r THEN Call(m, TRUE, [r.q EXCEPT !.state = "NEXT", !.se = FirstField(r.q.se)],
                          <<[se |-> r.q.se, count |-> 0]>>, W.out)
         ELSE Call(m, FALSE, r.q, W.stk, W.out)
      /\ UNCHANGED doc

\* driver->next
WNext(m) ==
  LET W == P[m]
      r == XmlNext(W.q, W.avail)
  IN  /\ Busy(m) /\ W.q.state = "NEXT"
      /\ Call(m, r.r, r.q, W.stk, W.out)
      /\ UNCHANGED doc

\* A complex field: its item is pushed and its fields are walked.
WPush(m) ==
  LET W == P[m]
      e == Entries[W.q.se]
  IN  /\ Busy(m) /\ W.q.state = "ELEMENT" /\ ~IsSimple(e.type)
      /\ Call(m, TRUE, [W.q EXCEPT !.state = "NEXT", !.se = FirstField(e.type)],
              Append(W.stk, [se |-> W.q.se, count |-> 0]), W.out)
      /\ UNCHANGED doc

\* A simple field: driver->value on an attribute, driver->simple
\* (parse_text_value) on an element, whose end tag follows.
WValue(m) ==
  LET W == P[m]
      f == W.q.se
      e == Entries[f]
      t == IF e.attribute THEN Res(TRUE, W.q) ELSE ParseText(W.q, W.avail)
      v == ParseValue(e.type, t.q.ptr)
  IN  /\ Busy(m) /\ W.q.state = "ELEMENT" /\ IsSimple(e.type)
      /\ CASE ~t.r -> Call(m, FALSE, t.q, W.stk, W.out)
           [] v.invalid -> Call(m, FALSE, Invalid(t.q), W.stk, W.out)
           [] ~v.r -> Call(m, FALSE, t.q, W.stk, W.out)
           [] e.attribute ->
                LET c == Continue(t.q, f, W.stk)
                IN  Call(m, TRUE, c.q, c.stk, Append(W.out, <<f, t.q.ptr, v.v>>))
           [] OTHER -> Call(m, TRUE, [t.q EXCEPT !.state = "CLOSE"], W.stk,
                            Append(W.out, <<f, t.q.ptr, v.v>>))
      /\ UNCHANGED doc

\* driver->end on a simple element's closing tag.
WClose(m) ==
  LET W == P[m]
      r == XmlEnd(W.q, W.q.se, W.avail)
      c == Continue(r.q, W.q.se, W.stk)
  IN  /\ Busy(m) /\ W.q.state = "CLOSE"
      /\ IF r.r THEN Call(m, TRUE, c.q, c.stk, W.out) ELSE Call(m, FALSE, r.q, W.stk, W.out)
      /\ UNCHANGED doc

\* PARSE_END: driver->end on the open element; its item is popped.
WEnd(m) ==
  LET W == P[m]
      f == Last(W.stk).se
      r == XmlEnd(W.q, f, W.avail)
      up == Front(W.stk)
      c == Continue(r.q, f, up)
  IN  /\ Busy(m) /\ W.q.state = "END"
      /\ CASE ~r.r -> Call(m, FALSE, r.q, W.stk, W.out)
           [] up = <<>> -> Call(m, TRUE, [r.q EXCEPT !.state = "DONE"], up, W.out)
           [] OTHER -> Call(m, TRUE, c.q, c.stk, W.out)
      /\ UNCHANGED doc

\* driver->sequence between occurrences of a repeating field.
WSequence(m) ==
  LET W == P[m]
      r == XmlSequence(W.q, [se |-> W.q.se, count |-> Last(W.stk).count], W.avail)
  IN  /\ Busy(m) /\ W.q.state = "SEQUENCE"
      /\ CASE r.r -> Call(m, TRUE, [r.q EXCEPT !.state = "ELEMENT"], W.stk, W.out)
           [] r.q.state = "NEXT" ->
                Call(m, TRUE, [r.q EXCEPT !.se = @ + 1],
                     [W.stk EXCEPT ![Len(W.stk)].count = 0], W.out)
           [] OTHER -> Call(m, FALSE, r.q, W.stk, W.out)
      /\ UNCHANGED doc

\* The caller gets more of the document and calls xml_rebuffer.
Rebuffer(m) ==
  /\ P[m].wait /\ P[m].avail < Len(doc)
  /\ \E a \in P[m].avail + 1 .. Len(doc) :
       P' = [P EXCEPT ![m].avail = a, ![m].wait = FALSE]
  /\ UNCHANGED doc

\* parse_init: the parser zeroed, need_token set.
Parser0 == [state |-> "START", token |-> "none", need |-> TRUE, empty |-> FALSE,
            decl |-> FALSE, se |-> 0, ptr |-> <<>>, pos |-> 1]

XInit ==
  /\ doc \in Docs
  /\ \E a \in 1 .. Len(doc) :
       P = [m \in Modes |-> [q |-> Parser0, stk |-> <<>>, out |-> <<>>, wait |-> FALSE,
                            avail |-> IF m = "whole" THEN Len(doc) ELSE a]]

XNext ==
  \E m \in Modes :
    \/ WStart(m) \/ WNext(m) \/ WPush(m) \/ WValue(m) \/ WClose(m) \/ WEnd(m)
    \/ WSequence(m) \/ Rebuffer(m)

XSpec == XInit /\ [][XNext]_xvars
-----------------------------------------------------------------------------
(* Properties                                                              *)

States == {"START", "NEXT", "ELEMENT", "CLOSE", "END", "SEQUENCE", "INVALID", "DONE"}

\* The parsers' fields have their types and the tokenizer never passes the
\* tokens buffered.
XTypeOK ==
  \A m \in Modes :
    /\ P[m].q.state \in States
    /\ P[m].avail \in 1 .. Len(doc)
    /\ P[m].q.pos \in 1 .. P[m].avail + 1
    /\ P[m].wait \in BOOLEAN
    /\ \A i \in DOMAIN P[m].stk : P[m].stk[i].se \in DOMAIN Entries

\* How a parse ended: done, invalid, or waiting for input.
Result(m) == IF P[m].wait THEN "incomplete" ELSE P[m].q.state

\* Spec property 7 (prefix stability): a document read in pieces, with
\* xml_rebuffer and a resumed call each time a call returns 0, ends as the
\* same document read whole does, with the same values stored. It rests on
\* parse_token leaving need_token set on XML_INCOMPLETE, on xml_next keeping
\* p->se where the incomplete start_tag was, and on the cached token.
PrefixStable ==
  Finished("whole") /\ Finished("split") =>
    /\ Result("whole") = Result("split")
    /\ P["whole"].out = P["split"].out

\* Spec 4.5, hexBinary: a whole number of hex digit pairs, at most n of
\* them (trailing white space allowed), right-aligned into the n bytes and
\* zero-padded at the front.
RefHex(s, n) ==
  LET J == {j \in 1 .. n : /\ 2 * j <= Len(s)
                           /\ \A i \in 1 .. 2 * j : s[i] \in DOMAIN HexTable
                           /\ \A i \in 2 * j + 1 .. Len(s) : s[i] = " "}
      j == CHOOSE j \in J : TRUE
  IN  IF J = {} THEN [ok |-> FALSE, v |-> <<>>]
      ELSE [ok |-> TRUE,
            v |-> [i \in 1 .. n |-> IF i <= n - j THEN 0
                                    ELSE 16 * HexTable[s[2 * (i - n + j) - 1]]
                                         + HexTable[s[2 * (i - n + j)]]]]

\* Every hexBinary value parse_hex stores is the reference decoding of a
\* text the reference accepts: the m == n test, the pair loop, only() and
\* the memmove/memset right alignment together.
StoredHexFollowsReference ==
  \A m \in Modes : \A i \in DOMAIN P[m].out :
    LET f == P[m].out[i][1]
        t == Entries[f].type
    IN  Kind(t) = XS_HEX_BINARY =>
          LET r == RefHex(P[m].out[i][2], Len4(t))
          IN  r.ok /\ r.v = P[m].out[i][3]
====
