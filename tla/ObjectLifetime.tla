---------------------------- MODULE ObjectLifetime ----------------------------
(***************************************************************************)
(* Reclaiming schema-typed objects (schema.c): object_size, is_pointer,    *)
(* free_elements, free_object_elements, free_object and replace_object.    *)
(*                                                                         *)
(* Memory is byte-addressed: an address is <<block, offset>>. `mem` holds  *)
(* the non-zero words of the live blocks; a word read where `mem` has none *)
(* is 0 (NULL, or a zeroed field of a calloc'ed object). Block numbers     *)
(* start above every schema type number, so a word is a pointer exactly    *)
(* when it is a block number.                                              *)
(*                                                                         *)
(* The schema is the generated table: entry i is [type, offset, min, max,  *)
(* n, st, unbounded]. In C `type` and `index` share a union, as do         *)
(* `offset` and `size`. The first Length entries are elements; each type   *)
(* is a header entry followed by its fields and a terminator whose n is 0. *)
(*                                                                         *)
(* Objects are built by the parser walker (parse.c, outside src/): it      *)
(* allocates the document object, strdups strings, allocates substitution  *)
(* data, and appends list nodes with their data. Building is modelled a    *)
(* field at a time, so an object can be freed half-built (ParseInvalid).   *)
(***************************************************************************)
EXTENDS Integers, Sequences, SequencesExt, FiniteSets, Functions

CONSTANTS
  Entries,     \* the schema entries, a function from 0 .. K
  Length,      \* schema->length: entries below it are elements
  Elements,    \* the element indices a document may start with
  SubstTypes,  \* the types a substitution field may hold
  MaxBlocks    \* bound on the blocks allocated in a behaviour

ST_SIMPLE == 32768
XS_STRING == 1
XS_ANY_URI == 4
NULL == 0
\* Block numbers: above every type number. malloc returns the lowest
\* free block, so freed blocks are reused.
Blocks == 101 .. 100 + MaxBlocks
\* The List node of list.c: next at offset 0, data at offset 8.
NEXT == 0
DATA == 8

VARIABLES
  mem,       \* the non-zero words of live blocks: address -> word
  live,      \* blocks allocated and not yet freed
  roots,     \* document objects: block -> [type, done]
  fault      \* a free of a block that is not live, or a read of freed memory

ovars == <<mem, live, roots, fault>>

Rd(a) == IF a \in DOMAIN mem THEN mem[a] ELSE NULL
At(a, k) == <<a[1], a[2] + k>>
IsPtr(w) == w \in Blocks

-----------------------------------------------------------------------------
(* Queries                                                                 *)

IsSimple(t) == t >= ST_SIMPLE

\* Variant of is_pointer that knows only strings.
IsPointerStringOnly(t) == t - ST_SIMPLE = XS_STRING

\* is_pointer: the whole type, length bits included, is compared, so a
\* string with an inline length is not a pointer.
IsPointer(t) == t - ST_SIMPLE \in {XS_STRING, XS_ANY_URI}

\* Sizes of the simple kinds that are stored as pointers or have a
\* length; the others are not used by the objects modelled.
SimpleSize(k, n) ==
  CASE k = XS_STRING  -> IF n # 0 THEN n ELSE 8
    [] k = XS_ANY_URI -> 8
    [] OTHER          -> n

RECURSIVE ObjectSize(_)
ObjectSize(t) ==
  IF IsSimple(t) THEN SimpleSize((t - ST_SIMPLE) % 16, (t - ST_SIMPLE) \div 16)
  ELSE IF t < Length THEN ObjectSize(Entries[t].type)
  ELSE Entries[t].offset

-----------------------------------------------------------------------------
(* The free walk. `w` accumulates the walk: the blocks freed in order and  *)
(* whether a word of an already freed block (or of NULL) was read.         *)

Free(b, w) == [w EXCEPT !.freed = Append(@, b)]
Touch(a, w) == [w EXCEPT !.uaf = @ \/ a[1] \in ToSet(w.freed) \/ a[1] = NULL]

\* while (i < se->max && *value) { free (*value); value++; i++; }
RECURSIVE FreeStrings(_, _, _, _)
FreeStrings(v, i, max, w) ==
  IF i = max THEN w
  ELSE IF Rd(At(v, 8 * i)) = NULL THEN Touch(At(v, 8 * i), w)
  ELSE FreeStrings(v, i + 1, max, Free(Rd(At(v, 8 * i)), Touch(At(v, 8 * i), w)))

\* if (t->data) free (t->data);
FreeIfSet(d, w) == IF d # NULL THEN Free(d, w) ELSE w

RECURSIVE FreeElements(_, _, _), FreeField(_, _, _), FreeObject(_, _, _),
          FreeList(_, _, _), FreeListEarly(_, _, _), FreeBounded(_, _, _, _, _)

\* Variant of the list loop that frees the node before it reads l->next
\* and l->data.
FreeListEarly(l, first, w) ==
  IF l = NULL THEN w
  ELSE FreeListEarly(Rd(<<l, NEXT>>), first,
         FreeIfSet(Rd(<<l, DATA>>),
           FreeElements(<<Rd(<<l, DATA>>), 0>>, first + 1,
             Touch(<<l, DATA>>, Touch(<<l, NEXT>>, Free(l, w))))))

\* while (l) { t = l; l = l->next; free_elements (t->data, first+1);
\*             if (t->data) free (t->data); free (t); }
FreeList(l, first, w) ==
  IF l = NULL THEN w
  ELSE FreeList(Rd(<<l, NEXT>>), first,
         Free(l, FreeIfSet(Rd(<<l, DATA>>),
                   FreeElements(<<Rd(<<l, DATA>>), 0>>, first + 1,
                     Touch(<<l, DATA>>, Touch(<<l, NEXT>>, w))))))

\* for (i = 0; i < se->max; i++) { free_elements (element, first+1);
\*                                 element += first->size; }
FreeBounded(el, first, i, max, w) ==
  IF i = max THEN w
  ELSE FreeBounded(At(el, Entries[first].offset), first, i + 1, max,
                   FreeElements(el, first + 1, w))

\* One field of free_elements, at element = obj + se->offset: the strings
\* of a pointer kind, the data of a substitution (free_object with the type
\* stored beside it), an unbounded list, or max inline elements.
FreeField(obj, se, w) ==
  LET e  == Entries[se]
      el == At(obj, e.offset)
  IN  CASE IsSimple(e.type) ->
             IF IsPointer(e.type) THEN FreeStrings(el, 0, e.max, w) ELSE w
        [] e.st -> IF Rd(At(el, 8)) # NULL
                   THEN FreeObject(Rd(At(el, 8)), Rd(el), Touch(At(el, 8), w))
                   ELSE Touch(At(el, 8), w)
        [] e.unbounded -> FreeList(Rd(el), e.type, Touch(el, w))
        [] OTHER -> FreeBounded(el, e.type, 0, e.max, w)

\* free_elements: the fields from entry se on, up to the terminator (an
\* entry neither simple nor a substitution, with n = 0).
FreeElements(obj, se, w) ==
  IF ~IsSimple(Entries[se].type) /\ ~Entries[se].st /\ Entries[se].n = 0 THEN w
  ELSE FreeElements(obj, se + 1, FreeField(obj, se, w))

\* free_object_elements: an element index stands for its type.
FreeObjectElements(obj, t, w) ==
  FreeElements(obj, (IF t < Length THEN Entries[t].type ELSE t) + 1, w)

\* free_object
FreeObject(b, t, w) == Free(b, FreeObjectElements(<<b, 0>>, t, w))
-----------------------------------------------------------------------------
(* Building an object (the walker, parse.c, and parse_value). Slots(obj,   *)
(* se) are the places where the next field of an object can be stored:    *)
(* the next free string of a field that parse_value strdups, an empty      *)
(* substitution, the end of a list, and the fields of objects below.       *)

\* parse_value: a string without an inline length, and an anyURI, are
\* strdup'ed into the field.
Strduped(t) ==
  LET x == t - ST_SIMPLE
  IN  x % 16 = XS_ANY_URI \/ (x % 16 = XS_STRING /\ x \div 16 = 0)

Slot(kind, at, type) == [kind |-> kind, at |-> at, type |-> type]

RECURSIVE Slots(_, _), FieldSlots(_, _), ListSlots(_, _)
ListSlots(link, first) ==
  IF Rd(link) = NULL THEN {Slot("node", link, first)}
  ELSE Slots(<<Rd(<<Rd(link), DATA>>), 0>>, first + 1) \cup ListSlots(<<Rd(link), NEXT>>, first)
FieldSlots(obj, se) ==
  LET e == Entries[se]
      el == At(obj, e.offset)
  IN  CASE IsSimple(e.type) ->
             IF ~Strduped(e.type) THEN {}
             ELSE {Slot("string", At(el, 8 * i), 0) :
                     i \in {i \in 0 .. e.max - 1 :
                              Rd(At(el, 8 * i)) = NULL /\ (i = 0 \/ Rd(At(el, 8 * (i - 1))) # NULL)}}
        [] e.st -> IF Rd(At(el, 8)) = NULL THEN {Slot("subst", el, 0)}
                   ELSE Slots(<<Rd(At(el, 8)), 0>>, Rd(el) + 1)
        [] e.unbounded -> ListSlots(el, e.type)
        [] OTHER -> UNION {Slots(At(el, i * Entries[e.type].offset), e.type + 1) : i \in 0 .. e.max - 1}
Slots(obj, se) ==
  IF ~IsSimple(Entries[se].type) /\ ~Entries[se].st /\ Entries[se].n = 0 THEN {}
  ELSE FieldSlots(obj, se) \cup Slots(obj, se + 1)

\* The first field entry of an object of type t.
FirstField(t) == (IF t < Length THEN Entries[t].type ELSE t) + 1

\* malloc: the lowest free block, and the one after it.
Lowest(S) == CHOOSE b \in S : \A c \in S : b <= c
Malloc1 == Lowest(Blocks \ live)
Malloc2 == Lowest(Blocks \ (live \cup {Malloc1}))

\* xml_start / exi_start: the document element's object is calloc'ed.
StartDocument ==
  /\ live # Blocks
  /\ \E e \in Elements :
       /\ roots' = roots @@ (Malloc1 :> [type |-> e, done |-> FALSE])
       /\ live' = live \cup {Malloc1}
  /\ UNCHANGED <<mem, fault>>

\* The walker stores one more field of an object it is building: a strdup,
\* a substitution's data object with its type, or a list node with its data.
StoreField(r) ==
  /\ ~roots[r].done
  /\ \E s \in Slots(<<r, 0>>, FirstField(roots[r].type)) :
       CASE s.kind = "string" ->
              /\ live # Blocks
              /\ mem' = (s.at :> Malloc1) @@ mem /\ live' = live \cup {Malloc1}
         [] s.kind = "subst" ->
              /\ live # Blocks
              /\ \E t \in SubstTypes :
                   /\ mem' = (s.at :> t) @@ (At(s.at, 8) :> Malloc1) @@ mem
                   /\ live' = live \cup {Malloc1}
         [] s.kind = "node" ->
              /\ Cardinality(Blocks \ live) >= 2
              /\ mem' = (s.at :> Malloc1) @@ (<<Malloc1, DATA>> :> Malloc2) @@ mem
              /\ live' = live \cup {Malloc1, Malloc2}
  /\ UNCHANGED <<roots, fault>>

\* The walker reaches the end of the document.
EndDocument(r) ==
  /\ ~roots[r].done
  /\ roots' = [roots EXCEPT ![r].done = TRUE]
  /\ UNCHANGED <<mem, live, fault>>

-----------------------------------------------------------------------------
(* Reclaiming.                                                             *)

NoWalk == [freed |-> <<>>, uaf |-> FALSE]

\* The blocks a walk freed are released and their words dropped; a walk
\* that freed a block twice, a block not live, or read freed memory faults.
Release(w, m) ==
  /\ fault' = (fault \/ w.uaf \/ ~IsInjective(w.freed) \/ ~(ToSet(w.freed) \subseteq live))
  /\ live' = live \ ToSet(w.freed)
  /\ mem' = [a \in {a \in DOMAIN m : a[1] \notin ToSet(w.freed)} |-> m[a]]

\* free_object of a document, finished or abandoned half-built (ParseInvalid).
FreeDocument(r) ==
  /\ Release(FreeObject(r, roots[r].type, NoWalk), mem)
  /\ roots' = [x \in DOMAIN roots \ {r} |-> roots[x]]

\* memcpy (dest, src, size): the words of dest below size become those of src.
Memcpy(d, s, size) ==
  [a \in {a \in DOMAIN mem : ~(a[1] = d /\ a[2] < size)} |-> mem[a]]
  @@ [a \in {<<d, x[2]>> : x \in {x \in DOMAIN mem : x[1] = s /\ x[2] < size}} |-> mem[<<s, a[2]>>]]

\* Variant of replace_object that frees dest's shell instead of src's.
ReplaceObjectFreeDest(d, s) ==
  /\ d # s /\ roots[d].done /\ roots[s].done /\ roots[d].type = roots[s].type
  /\ LET t == roots[d].type IN
     Release(Free(d, FreeObjectElements(<<d, 0>>, t, NoWalk)), Memcpy(d, s, ObjectSize(t)))
  /\ roots' = [x \in DOMAIN roots \ {s} |-> roots[x]]

\* replace_object (dest, src, type): free dest's elements, copy src over
\* dest, free src's shell. src stops being a document of its own.
ReplaceObject(d, s) ==
  /\ d # s /\ roots[d].done /\ roots[s].done /\ roots[d].type = roots[s].type
  /\ LET t == roots[d].type IN
     Release(Free(s, FreeObjectElements(<<d, 0>>, t, NoWalk)), Memcpy(d, s, ObjectSize(t)))
  /\ roots' = [x \in DOMAIN roots \ {s} |-> roots[x]]

OInit ==
  /\ mem = <<>> /\ live = {} /\ roots = <<>> /\ fault = FALSE

ONext ==
  \/ StartDocument
  \/ \E r \in DOMAIN roots : StoreField(r) \/ EndDocument(r) \/ FreeDocument(r)
  \/ \E d, s \in DOMAIN roots : ReplaceObject(d, s)

OSpec == OInit /\ [][ONext]_ovars

-----------------------------------------------------------------------------
(* Properties                                                              *)

\* mem, live and roots have their types: every word is in a live block and
\* every document object is allocated (replace_object frees src's shell,
\* never dest's, which stays the document).
OTypeOK ==
  /\ live \subseteq Blocks /\ DOMAIN roots \subseteq live
  /\ \A a \in DOMAIN mem : a[1] \in live
  /\ fault \in BOOLEAN

\* Spec 4.3: free_object and replace_object free only allocated blocks,
\* each at most once, and never read a word of a block they have already
\* freed: the list walk reads l->next and l->data before free (t), and a
\* substitution's data is freed through its own type.
NoInvalidFree == ~fault

RECURSIVE Reach(_)
Reach(S) ==
  LET N == S \cup {mem[a] : a \in {a \in DOMAIN mem : a[1] \in S /\ IsPtr(mem[a])}}
  IN  IF N = S THEN S ELSE Reach(N)

\* Spec 3, 4.3 and property 3: after any sequence of documents built,
\* freed (whole or half-built) and replaced, every allocated block belongs
\* to exactly one document. It is reachable from a document object and
\* referred to by exactly one word of live memory, so free_object reclaims
\* everything the walker allocated and nothing twice.
HeapIsOwnedTree ==
  /\ Reach(DOMAIN roots) = live
  /\ \A b \in live :
       Cardinality({a \in DOMAIN mem : mem[a] = b}) = IF b \in DOMAIN roots THEN 0 ELSE 1

====
