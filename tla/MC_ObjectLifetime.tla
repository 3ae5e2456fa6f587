-------------------------- MODULE MC_ObjectLifetime --------------------------
(* A schema with every kind of field free_elements distinguishes:           *)
(*   - two elements, R (entry 0) and S (entry 1);                           *)
(*   - type R (header 2, size 80):                                          *)
(*       mRID         a string pointer at 0;                                *)
(*       description  a string with an inline length of 16 at 8;            *)
(*       link         a substitution at 24 (its type at 24, data at 32);    *)
(*       items        an unbounded list of S at 40;                         *)
(*       pair         two inline S at 48 and 64;                            *)
(*   - type S (header 9, size 16): name, two string pointers at 0 and 8;    *)
(*   - type T (header 12, size 24), derived from S: name as in S, and       *)
(*     value, an anyURI pointer at 16.                                      *)
(* A substitution holds an S or a T.                                        *)
EXTENDS ObjectLifetime, TLC

\* An entry of the table: type (or index), offset (or size), max, n,
\* st (substitution) and unbounded.
Ent(t, off, max, n, st, unb) ==
  [type |-> t, offset |-> off, min |-> 0, max |-> max, n |-> n, st |-> st, unbounded |-> unb]

Str(len) == ST_SIMPLE + 16 * len + XS_STRING
URI == ST_SIMPLE + XS_ANY_URI
End == Ent(0, 0, 0, 0, FALSE, FALSE)

MCEntries ==
  [i \in 0 .. 15 |->
     << Ent(2, 0, 0, 1, FALSE, FALSE),        \* 0  element R
        Ent(9, 0, 0, 1, FALSE, FALSE),        \* 1  element S
        Ent(0, 80, 0, 5, FALSE, FALSE),       \* 2  type R
        Ent(Str(0), 0, 1, 1, FALSE, FALSE),   \* 3    mRID
        Ent(Str(16), 8, 1, 1, FALSE, FALSE),  \* 4    description
        Ent(9, 24, 1, 1, TRUE, FALSE),        \* 5    link
        Ent(9, 40, 0, 1, FALSE, TRUE),        \* 6    items
        Ent(9, 48, 2, 1, FALSE, FALSE),       \* 7    pair
        End,                                  \* 8
        Ent(0, 16, 0, 1, FALSE, FALSE),       \* 9  type S
        Ent(Str(0), 0, 2, 1, FALSE, FALSE),   \* 10   name
        End,                                  \* 11
        Ent(9, 24, 0, 2, FALSE, FALSE),       \* 12 type T, base S
        Ent(Str(0), 0, 2, 1, FALSE, FALSE),   \* 13   name
        Ent(URI, 16, 1, 1, FALSE, FALSE),     \* 14   value
        End                                   \* 15
     >>[i + 1]]
====
