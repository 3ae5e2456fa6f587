----------------------------- MODULE HashTable -----------------------------
(***************************************************************************)
(* The sparse-group hash table of src/hash.c.                              *)
(*                                                                         *)
(* A HashTable is an array of SparseGroups of GroupSize positions each     *)
(* (58 in the code).  A group stores only its occupied positions: `bits`   *)
(* marks which positions are occupied and `slot` holds their elements in   *)
(* position order, so position i lives at slot[BitRank(bits, i) + 1].  The *)
(* code keeps the element count in the top 6 bits of the same word and     *)
(* sizes `slot` by it; here the count is Len(slot).  A deleted element is  *)
(* a NULL left in its slot (a tombstone): its bit stays set.               *)
(*                                                                         *)
(* The table also keeps the position ht->g / ht->i ("mark") that           *)
(* hash_find leaves behind for the following hash_insert; it is a field of *)
(* the struct and survives hash_init, so it is state here.  `live` is      *)
(* FALSE when the mark points into a table that hash_resize has freed.     *)
(*                                                                         *)
(* Data items are their own keys (get_key is the identity); the hash       *)
(* function is abstracted to an arbitrary value per key, chosen once.      *)
(* Every public operation is one atomic step: the code is single-threaded  *)
(* and no operation calls back into its caller.                            *)
(***************************************************************************)
EXTENDS Integers, Sequences, FiniteSets, SequencesExt, Functions

CONSTANTS
  Keys,        \* the data items, each its own key
  NULL,        \* the null pointer
  GroupSize,   \* positions per SparseGroup (58 in hash.c)
  InitSize,    \* the size given to hash_new
  HashRange,   \* hash values are drawn from 0 .. HashRange-1
  MaxEntries   \* bound: slot entries allocated over all groups

ASSUME NULL \notin Keys
ASSUME GroupSize \in Nat \ {0}
ASSUME InitSize \in {2^n : n \in 0..10}          \* "size must be power of two"
ASSUME HashRange \in Nat \ {0} /\ MaxEntries \in Nat

VARIABLES
  ht,        \* the HashTable struct
  hash,      \* hash(key) of every key, fixed for the run
  cursor,    \* the HashPointer (group, index) of the iteration in progress
  iter,      \* "idle", "running" or "done": the foreach_h loop of a caller
  iterSeen,  \* ghost: the data the iteration returned, in order
  iterFrom,  \* ghost: the keys hash_get found when the iteration started
  call       \* history: the last operation called

vars == <<ht, hash, cursor, iter, iterSeen, iterFrom, call>>

Faults == {"none", "hang", "use_after_free", "null_group", "zero_size", "tombstone_reuse"}
NoCall == [op |-> "none"]

-----------------------------------------------------------------------------
(* Sizes derived by hash_init.                                             *)

NGroups(size) == (size + GroupSize - 1) \div GroupSize
MinItems(size) == (size * 40) \div 100
MaxItems(size) == (size * 80) \div 100
LastGroup(t) == NGroups(t.size) - 1

EmptyGroup == [slot |-> <<>>, bits |-> {}]

\* hash_init: a zeroed table of `size`; the struct's mark (ht->g, ht->i) is
\* not touched, and the table it points into is about to be freed.
NewTable(size, mark, fault) ==
  [size   |-> size,
   items  |-> 0,
   groups |-> [g \in 0 .. NGroups(size) - 1 |-> EmptyGroup],
   mark   |-> IF mark = NULL THEN NULL ELSE [mark EXCEPT !.live = FALSE],
   fault  |-> fault]

\* bit_rank: the number of occupied positions below i (popcount64 of the
\* bits shifted left by 64 - i).
BitRank(bits, i) == Cardinality({b \in bits : b < i})

\* Variant of sg_insert that reallocs without the memmove: data goes last.
SgInsertAppend(grp, i, d) == [slot |-> Append(grp.slot, d), bits |-> grp.bits \cup {i}]

\* sg_insert: materialise position i with data, shifting later elements up.
SgInsert(grp, i, d) ==
  [slot |-> InsertAt(grp.slot, BitRank(grp.bits, i) + 1, d),
   bits |-> grp.bits \cup {i}]

\* The elements stored in the table, in the order foreach_h visits them.
Stored(t) ==
  FlattenSeq([j \in 1 .. NGroups(t.size) |->
                SelectSeq(t.groups[j - 1].slot, LAMBDA x : x # NULL)])

Entries(t) == FoldFunction(LAMBDA grp, n : Len(grp.slot) + n, 0, t.groups)

-----------------------------------------------------------------------------
(* hash_find: triangular probing from hash(key) & mask.  The result is the *)
(* slot of the matching element (group, slot index) or NULL, the mark     *)
(* left in ht->g / ht->i (the first empty or tombstone position met), and *)
(* whether the probe never ends: after `size` probes every position has   *)
(* been visited, and the code loops forever if none was empty.            *)

\* Variant of hash_mark recording the table index instead of the group index.
HashMarkIndex(index) == [g |-> index \div GroupSize, i |-> index, live |-> TRUE]

\* hash_mark: ht->g = table + index / 58, ht->i = index % 58.
HashMark(index) == [g |-> index \div GroupSize, i |-> index % GroupSize, live |-> TRUE]

RECURSIVE Probe(_, _, _, _, _)
Probe(t, k, index, probes, mark) ==
  LET g    == index \div GroupSize
      i    == index % GroupSize
      grp  == t.groups[g]
      here == IF mark = NULL THEN HashMark(index) ELSE mark
      r    == BitRank(grp.bits, i) + 1
      next == (index + probes + 1) % t.size
  IN  IF probes = t.size
      THEN [e |-> NULL, mark |-> mark, spin |-> TRUE]
      ELSE IF grp.slot = <<>> \/ i \notin grp.bits
      THEN [e |-> NULL, mark |-> here, spin |-> FALSE]
      ELSE IF grp.slot[r] = k
      THEN [e |-> <<g, r>>, mark |-> mark, spin |-> FALSE]
      ELSE Probe(t, k, next, probes + 1,
                 IF grp.slot[r] = NULL THEN here ELSE mark)

Find(t, k) == Probe(t, k, hash[k] % t.size, 0, NULL)

\* hash_get(k) returns k: the refinement mapping of the table's contents.
Lookup(t, k) == Find(t, k).e # NULL
Contents == {k \in Keys : Lookup(ht, k)}

-----------------------------------------------------------------------------
(* The operations.  Each returns the table after the call; a run into     *)
(* undefined behaviour or a endless probe is recorded in `fault`.  So is  *)
(* an insert at a tombstone: hash_find marks the first deleted position   *)
(* (hash.c 202-203), and sg_insert adds a slot there although the bit is  *)
(* already set.  The insert is done as the code does it.                  *)

\* hash_insert: sg_insert at whatever ht->g / ht->i hold now.
HashInsert(t, d) ==
  CASE t.mark = NULL -> [t EXCEPT !.fault = "null_group"]
    [] ~t.mark.live  -> [t EXCEPT !.fault = "use_after_free"]
    [] OTHER         ->
         [t EXCEPT !.groups[t.mark.g] = SgInsert(@, t.mark.i, d),
                   !.fault = IF t.mark.i \in t.groups[t.mark.g].bits
                             THEN "tombstone_reuse" ELSE @]

RECURSIVE Put(_, _), Resize(_, _), PutAll(_, _)

\* hash_put
Put(t, d) ==
  LET f  == Find(t, d)
      t1 == [t EXCEPT !.mark = f.mark]
      t2 == IF t1.items = MaxItems(t1.size) THEN Resize(t1, 2 * t1.size) ELSE t1
      t3 == HashInsert(t2, d)
  IN  IF f.spin THEN [t EXCEPT !.fault = "hang"]
      ELSE IF f.e # NULL THEN t1                     \* *e = data
      ELSE IF t2.fault # "none" THEN t2
      ELSE [t3 EXCEPT !.items = @ + 1]

\* hash_resize: re-put every element of the old table into a new one, then
\* free the old table.
Resize(t, size) ==
  IF size = 0 THEN [t EXCEPT !.fault = "zero_size"]
  ELSE PutAll(NewTable(size, t.mark, t.fault), Stored(t))

PutAll(t, s) ==
  IF s = <<>> \/ t.fault # "none" THEN t ELSE PutAll(Put(t, Head(s)), Tail(s))

\* hash_delete
Delete(t, k) ==
  LET f  == Find(t, k)
      t1 == [t EXCEPT !.mark = f.mark,
                      !.groups[f.e[1]].slot[f.e[2]] = NULL]
      t2 == IF t1.items = MinItems(t1.size) THEN Resize(t1, t1.size \div 2) ELSE t1
  IN  IF f.spin THEN [t EXCEPT !.fault = "hang"]
      ELSE IF f.e = NULL THEN [t EXCEPT !.mark = f.mark]
      ELSE IF t2.fault # "none" THEN t2
      ELSE [t2 EXCEPT !.items = @ - 1]

\* hash_get
Get(t, k) ==
  LET f == Find(t, k)
  IN  IF f.spin THEN [t EXCEPT !.fault = "hang"] ELSE [t EXCEPT !.mark = f.mark]

\* hash_next: the next non-NULL element at or after index i of group g.
RECURSIVE Scan(_, _, _)
Scan(t, g, i) ==
  LET slot == t.groups[g].slot
  IN  IF i < Len(slot)
      THEN IF slot[i + 1] # NULL THEN [p |-> [g |-> g, i |-> i], data |-> slot[i + 1]]
           ELSE Scan(t, g, i + 1)
      ELSE IF g = LastGroup(t) THEN [p |-> [g |-> g, i |-> i], data |-> NULL]
      ELSE Scan(t, g + 1, 0)

HashNext(t, p) == Scan(t, p.g, p.i + 1)

\* Variant of hash_iterate starting the cursor at 0 instead of -1.
HashIterateFromZero(t) == HashNext(t, [g |-> 0, i |-> 0])

HashIterate(t) == HashNext(t, [g |-> 0, i |-> -1])

\* Variant of hash_erase without `ht->items--`.
HashEraseKeepCount(t, p) == [t EXCEPT !.groups[p.g].slot[p.i + 1] = NULL]

\* hash_erase: NULL the element under the cursor.
HashErase(t, p) == [t EXCEPT !.groups[p.g].slot[p.i + 1] = NULL, !.items = @ - 1]

-----------------------------------------------------------------------------
(* Actions: one call of the interface each.                                *)

Idle == iter # "running" /\ ht.fault = "none"

HashPut(k) ==
  /\ Idle
  /\ Entries(ht) < MaxEntries
  /\ ht' = Put(ht, k)
  /\ call' = [op |-> "put", key |-> k]
  /\ UNCHANGED <<hash, cursor, iter, iterSeen, iterFrom>>

HashDelete(k) ==
  /\ Idle
  /\ ht' = Delete(ht, k)
  /\ call' = [op |-> "delete", key |-> k]
  /\ UNCHANGED <<hash, cursor, iter, iterSeen, iterFrom>>

\* A lookup may also happen inside the body of a foreach_h loop.
HashGet(k) ==
  /\ ht.fault = "none"
  /\ ht' = Get(ht, k)
  /\ call' = [op |-> "get", key |-> k]
  /\ UNCHANGED <<hash, cursor, iter, iterSeen, iterFrom>>

\* The step of a foreach_h loop that returned r.
IterResult(r) ==
  /\ cursor' = r.p
  /\ iter' = IF r.data = NULL THEN "done" ELSE "running"
  /\ call' = [op |-> "iterate"]

HashIterateStart ==
  /\ Idle
  /\ LET r == HashIterate(ht) IN
       /\ IterResult(r)
       /\ iterSeen' = IF r.data = NULL THEN <<>> ELSE <<r.data>>
  /\ iterFrom' = Contents
  /\ UNCHANGED <<ht, hash>>

HashIterateNext ==
  /\ iter = "running"
  /\ LET r == HashNext(ht, cursor) IN
       /\ IterResult(r)
       /\ iterSeen' = IF r.data = NULL THEN iterSeen ELSE Append(iterSeen, r.data)
  /\ UNCHANGED <<ht, hash, iterFrom>>

\* The loop body erases the element it was given (once).
HashIterateErase ==
  /\ iter = "running"
  /\ ht.groups[cursor.g].slot[cursor.i + 1] # NULL
  /\ ht' = HashErase(ht, cursor)
  /\ call' = [op |-> "iterate"]
  /\ UNCHANGED <<hash, cursor, iter, iterSeen, iterFrom>>

Init ==
  /\ hash \in [Keys -> 0 .. HashRange - 1]
  /\ ht = NewTable(InitSize, NULL, "none")
  /\ cursor = [g |-> 0, i |-> -1]
  /\ iter = "idle"
  /\ iterSeen = <<>>
  /\ iterFrom = {}
  /\ call = NoCall

Next ==
  \/ \E k \in Keys : HashPut(k) \/ HashDelete(k) \/ HashGet(k)
  \/ HashIterateStart
  \/ HashIterateNext
  \/ HashIterateErase

Spec == Init /\ [][Next]_vars

-----------------------------------------------------------------------------
(* Properties.                                                             *)

Group == [slot : Seq(Keys \cup {NULL}), bits : SUBSET (0 .. GroupSize - 1)]

TypeOK ==
  /\ ht.size \in Nat
  /\ ht.items \in Int
  /\ ht.groups \in [0 .. NGroups(ht.size) - 1 -> Group]
  /\ ht.mark \in {NULL} \cup [g : Nat, i : 0 .. GroupSize - 1, live : BOOLEAN]
  /\ ht.fault \in Faults
  /\ hash \in [Keys -> 0 .. HashRange - 1]
  /\ iter \in {"idle", "running", "done"}
  /\ iterFrom \subseteq Keys

\* Every sparse group's element count (the top 6 bits of its word, which
\* size its slot array) equals the number of occupied positions in its
\* bitmap, as sg_insert, sg_element and hash_next all assume. A put whose
\* probe passes a tombstone inserts there (hash_find's mark, hash.c 203),
\* after a delete, a put and a second put in the same probe chain.
SparseGroupConsistent ==
  \A g \in DOMAIN ht.groups : Len(ht.groups[g].slot) = Cardinality(ht.groups[g].bits)

\* ht->items, which drives the resize decisions of hash_put and
\* hash_delete, equals the number of elements actually stored.
ItemsMatchStored == ht.items = Len(Stored(ht))

\* No call of hash_find probes forever (all positions occupied or deleted).
NoProbeCycle == ht.fault # "hang"

\* No call writes through a freed or null group pointer or builds a table
\* of size 0 (hash_insert after hash_resize, hash_delete's size >> 1).
NoUndefinedBehaviour == ht.fault \in {"none", "hang", "tombstone_reuse"}

\* A foreach_h loop that runs to its end (hash_iterate, then hash_next
\* until NULL, with hash_erase and lookups in its body) has returned
\* exactly the keys hash_get found when it started, each once. hash_next
\* walks the slot arrays by the group counts while hash_get probes by the
\* bitmaps, so this ties the two views of the table together, across group
\* boundaries, empty groups and tombstones.
IterationReturnsStored ==
  iter = "done" => IsInjective(iterSeen) /\ ToSet(iterSeen) = iterFrom

\* The table implements the contract of HashContract: every call changes
\* the set of keys hash_get finds exactly as that call promises.
Abstract == INSTANCE HashContract WITH contents <- Contents, call <- call
Refinement == Abstract!Spec
=============================================================================
