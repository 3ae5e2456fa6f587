---------------------------- MODULE HashContract ----------------------------
(***************************************************************************)
(* What the hash container of src/hash.c promises its users (the header    *)
(* comments of hash_put, hash_delete, hash_get and hash_erase): the table  *)
(* holds a set of data items identified by their keys; hash_put(d) makes   *)
(* d retrievable, hash_delete(k) and hash_erase on k make it absent, and   *)
(* hash_get / iteration change nothing.  Data items are their own keys     *)
(* here (get_key is the identity on Keys).                                 *)
(*                                                                         *)
(* `call` records the last operation applied, so that a step of the       *)
(* implementation must change the contents the way THAT operation says,    *)
(* not the way some other operation would.                                 *)
(***************************************************************************)
CONSTANTS Keys, NULL

VARIABLES contents, call

Calls == [op : {"put", "delete", "get"}, key : Keys] \cup [op : {"iterate"}]

NoCall == [op |-> "none"]

Init == /\ contents = {}
        /\ call = NoCall

Put(k)    == /\ contents' = contents \cup {k}
             /\ call' = [op |-> "put", key |-> k]

Delete(k) == /\ contents' = contents \ {k}
             /\ call' = [op |-> "delete", key |-> k]

Get(k)    == /\ UNCHANGED contents
             /\ call' = [op |-> "get", key |-> k]

\* A step of an iteration returns an item or removes the current one
\* (hash_erase); both are observable only through the contents.
IterStep  == /\ contents' \in {contents} \cup {contents \ {k} : k \in contents}
             /\ call' = [op |-> "iterate"]

Next == \/ \E k \in Keys : Put(k) \/ Delete(k) \/ Get(k)
        \/ IterStep

Spec == Init /\ [][Next]_<<contents, call>>
=============================================================================
