---------------------------- MODULE MC_XmlDriver ----------------------------
(* A schema with every kind of field xml_next distinguishes:               *)
(*   - element D (entry 0) of type D (header 1):                           *)
(*       id  an attribute, strdup'ed string            (entry 2)           *)
(*       a   a boolean, min 1                          (entry 3)           *)
(*       h   hexBinary of 2 bytes, min 0               (entry 4)           *)
(*       c   an unbounded sequence of C, min 1         (entry 5)           *)
(*       s   a string of inline length 3, max 2        (entry 6)           *)
(*   - type C (header 8): b, a boolean, min 0          (entry 9)           *)
EXTENDS XmlDriver

Ent(t, min, max, n, attr, unb, nm) ==
  [type |-> t, min |-> min, max |-> max, n |-> n, attribute |-> attr,
   unbounded |-> unb, name |-> nm]
Bool == ST_SIMPLE + XS_BOOLEAN
Hex2 == ST_SIMPLE + 16 * 2 + XS_HEX_BINARY
Str(n) == ST_SIMPLE + 16 * n + XS_STRING
Fin == Ent(0, 0, 0, 0, FALSE, FALSE, "")

MCEntries ==
  [i \in 0 .. 10 |->
     << Ent(1, 1, 1, 1, FALSE, FALSE, "D"),        \* 0  element D
        Ent(0, 0, 0, 5, FALSE, FALSE, "D"),        \* 1  type D
        Ent(Str(0), 0, 1, 1, TRUE, FALSE, "id"),   \* 2
        Ent(Bool, 1, 1, 1, FALSE, FALSE, "a"),     \* 3
        Ent(Hex2, 0, 1, 1, FALSE, FALSE, "h"),     \* 4
        Ent(8, 1, 0, 1, FALSE, TRUE, "c"),         \* 5
        Ent(Str(3), 0, 2, 1, FALSE, FALSE, "s"),   \* 6
        Fin,                                       \* 7
        Ent(0, 0, 0, 1, FALSE, FALSE, "C"),        \* 8  type C
        Ent(Bool, 0, 1, 1, FALSE, FALSE, "b"),     \* 9
        Fin                                        \* 10
     >>[i + 1]]

\* Tokens.
Tok(k, nm, at, tx) == [k |-> k, nm |-> nm, at |-> at, tx |-> tx]
Open(nm) == Tok("start", nm, <<>>, <<>>)
OpenId(nm) == Tok("start", nm, "id" :> <<"x">>, <<>>)
Empty(nm) == Tok("empty", nm, <<>>, <<>>)
Close(nm) == Tok("end", nm, <<>>, <<>>)
Text(s) == Tok("text", "", <<>>, s)
Decl == Tok("decl", "", <<>>, <<>>)
Bad == Tok("invalid", "", <<>>, <<>>)

\* Texts of the hexBinary field h (2 bytes): pairs, too many pairs, odd
\* digit counts, trailing space, non-digits.
HexTexts ==
  { <<"a", "b">>, <<"1", "f", "0", "9">>, <<"A", "F", "b", "1", "0", "0">>,
    <<"a">>, <<"a", "b", "1">>, <<"a", "b", " ">>, <<" ", "a", "b">>,
    <<"a", "x">>, <<"a", "b", " ", "1">> }

\* A full document: declaration, attribute, every field, a second C empty.
Full(hx) ==
  << Decl, OpenId("D"), Open("a"), Text(<<"1">>), Close("a"),
     Open("h"), Text(hx), Close("h"),
     Open("c"), Open("b"), Text(<<"0">>), Close("b"), Close("c"), Empty("c"),
     Open("s"), Text(<<"x", "y">>), Close("s"), Close("D") >>

MCDocs ==
  {Full(hx) : hx \in HexTexts} \cup
  { << Empty("D") >>,                                        \* a missing
    << Open("D"), Open("c"), Close("c"), Close("D") >>,       \* a absent, D not empty
    << Open("D"), Open("a"), Text(<<"y">>), Close("a"), Close("D") >>,
    << Open("D"), Open("a"), Text(<<"1">>), Close("a"), Open("x"), Close("x"), Close("D") >>,
    << Open("D"), Bad >>,
    << Decl, Decl, Open("D"), Close("D") >>,
    << Open("D"), Open("c"), Close("c"), Open("s"), Text(<<"x">>), Close("s"),
       Open("s"), Close("s"), Open("s"), Close("s"), Close("D") >> }

\* s holds at most 2 characters: "xyz" is rejected by parse_value.
MCLongString ==
  { << Open("D"), Open("s"), Text(<<"x", "y", "z">>), Close("s"), Close("D") >> }
====
